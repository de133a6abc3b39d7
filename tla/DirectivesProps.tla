-------------------------- MODULE DirectivesProps --------------------------
(***************************************************************************)
(* What is asked of a run over one package: the file that is written       *)
(* compiles without Convgen, keeps what the package declares, and is the   *)
(* same the next time; otherwise the user learns of all mistakes at once.  *)
(***************************************************************************)
EXTENDS Directives

-----------------------------------------------------------------------------
(* The output: what is declared in it and what its expressions refer to.     *)
Decls == {out[i] : i \in {j \in DOMAIN out : out[j].op = "decl"}}
Funcs == {NameAt(out[i].at) : i \in {j \in DOMAIN out : out[j].op = "func"}}

(* The files that are built with the generated one. *)
Rest == UNION {{pkg[f].decls[d] : d \in DOMAIN pkg[f].decls} :
                 f \in {g \in DOMAIN pkg : ~pkg[g].tagged}}

Built == {item.decl : item \in Decls} \cup Rest

ConvgenIsGone == \A decl \in Built : \A v \in ValuesOf(decl) : Outermost(v) = {}

NamesResolve ==
  LET known == Funcs \cup UNION {Declares(decl) : decl \in Built}
  IN  \A decl \in Built :
        /\ Referred(decl) \subseteq known \cup Locals(decl) \cup {NoName, Garbage, Blank}
        /\ Garbage \notin NamesOf(decl)

(* A module declared by a function's `var' is erased: its name still refers  *)
(* to something if it is blank or a namesake is declared.                    *)
NamesakeOf(p) ==
  \/ NameAt(p) = Blank
  \/ NameAt(p) \in {decl.func : decl \in Source}
  \/ \E q \in NamePlaces :
       /\ NameAt(q) = NameAt(p) /\ q \notin mods
       /\ \/ ~Local(q)
          \/ /\ q[1] = p[1] /\ q[2] = p[2]
             /\ SpecAt(q).form \in {"define", "spec"}
             /\ SpecAt(q).form = "spec" => ~Erased(q)

Harmless(p) ==
  SpecAt(p).form = "spec" /\ ValueAt(p).call = "Module" /\ ~ValueAt(p).paren /\ NamesakeOf(p)

(* What neither the validation nor the erasure sees: a directive inside a    *)
(* function, a package-level one in parentheses or inside another value, and *)
(* a module used in a file that is not merged, where the validation lets it  *)
(* pass because it is assigned to the blank identifier.                      *)
Overlooked ==
  \/ \E p \in ValuePlaces :
       /\ Tagged(p)
       /\ \/ Local(p) /\ Outermost(ValueAt(p)) # {} /\ ~Harmless(p)
          \/ ValueAt(p).call # "none" /\ ValueAt(p).paren
          \/ ValueAt(p).inside # {}
  \/ \E p \in BlankValues : ~Tagged(p) /\ IsModule(DeclAt(p), ValueAt(p).lead)

(* The code written compiles where Convgen is not imported -- no directive   *)
(* is left in it and no name refers to what was erased -- unless something   *)
(* is overlooked, and then it does not: the validation (validate.go:19) and  *)
(* the erasure (convgen.go:222) agree on everything else.                    *)
StandsAlone == phase = "done" => (ConvgenIsGone /\ NamesResolve <=> ~Overlooked)

(* The variables the user keeps. *)
Kindred == {p \in VarPlaces : Tagged(p) /\ p \notin mods /\ NameAt(p) # Blank}

(* The places of the output that declare a name at package level. *)
DeclaredIn(name) ==
  {<<i>> : i \in {j \in DOMAIN out : out[j].op = "func" /\ NameAt(out[j].at) = name}}
  \cup UNION {UNION {{<<i, s, k>> : k \in {l \in DOMAIN out[i].decl.specs[s].names :
                                            out[i].decl.specs[s].names[l] = name}} :
                       s \in DOMAIN out[i].decl.specs} :
                i \in {j \in DOMAIN out : out[j].op = "decl" /\ out[j].decl.func = NoName}}

(* Whatever the tagged files declare that is not a module is declared once   *)
(* in the output: as a function if it is a converter, and otherwise with the *)
(* value it had, however many of its neighbours are erased                   *)
(* (convgen.go:230-274).                                                     *)
DeclaredOnce ==
  phase = "done" =>
    \A p \in Kindred :
      \E place \in DeclaredIn(NameAt(p)) :
        /\ DeclaredIn(NameAt(p)) = {place}
        /\ IF p \in convs THEN Len(place) = 1
           ELSE LET spec == out[place[1]].decl.specs[place[2]]
                IN  /\ Len(place) = 3
                    /\ p[4] \in DOMAIN SpecAt(p).values
                         <=> place[3] \in DOMAIN spec.values
                    /\ p[4] \in DOMAIN SpecAt(p).values =>
                         LET v == ValueAt(p)  w == spec.values[place[3]]
                         IN  v.call = w.call /\ v.inside = w.inside /\ w.uses \ {Garbage} \subseteq v.uses

-----------------------------------------------------------------------------
(* The mistakes of a package: files, values and variables.                   *)
AllModules   == UNION {FindModules(f) : f \in DOMAIN pkg}
AllInjectors == UNION {FindInjectors(f) : f \in DOMAIN pkg}

Meant(decl, name) == ObjectOf(decl, name) \cap AllModules # {}

Imported == {<<f>> : f \in {g \in DOMAIN pkg : pkg[g].imports /\ ~pkg[g].tagged}}

MisusedModules ==
  {p \in ValuePlaces :
     /\ ValueAt(p).call = "none"
     /\ \/ \E n \in ValueAt(p).uses : Meant(DeclAt(p), n)
        \/ Meant(DeclAt(p), ValueAt(p).lead) /\ p \notin BlankValues}
  \cup {p \in NamePlaces : Local(p) /\ Meant(DeclAt(p), NameAt(p))}

WrongModules ==
  {p \in AllModules : ValueAt(p).fault = "options" \/ NameAt(p) \in Exported}

WrongInjectors ==
  {p \in AllInjectors :
     \/ NameAt(p) = Blank
     \/ ValueAt(p).fault = "options"
     \/ ValueAt(p).arg \notin {"nil", "inline"} /\ ~Meant(DeclAt(p), ValueAt(p).arg)}

WrongOptions ==
  {p \in ValuePlaces :
     Tagged(p) /\ SpecAt(p).form # "stmt" /\ "Option" \in Outermost(ValueAt(p))}

Mistakes == Imported \cup MisusedModules \cup WrongModules \cup WrongInjectors \cup WrongOptions

Unbuildable == {p \in AllInjectors : ValueAt(p).fault = "build"}

PlaceOf(e) == IF e.what \in {"exported", "outside"} THEN e.at[1] ELSE e.at

(* Build fails if something is wrong, with an error for each wrong place and *)
(* for no other, and if nothing is wrong, with one for each converter that   *)
(* cannot be built (convgen.go:61-112).  The one panic is for a variable     *)
(* that is not declared as a function.                                       *)
MistakesAreReported ==
  /\ phase = "failed" =>
       {PlaceOf(e) : e \in errs} = IF Mistakes # {} THEN Mistakes ELSE Unbuildable
  /\ phase = "done" => errs = {} /\ Mistakes = {} /\ Unbuildable = {}
  /\ phase = "panic" => \E p \in AllInjectors : Unparsable(p)

-----------------------------------------------------------------------------
(* The order of the output in which files and modules come as they are       *)
(* declared.                                                                 *)
IndexOf(name) == CHOOSE i \in DOMAIN Names : Names[i] = name

ByName(n, k) == k # "" /\ (n = "" \/ IndexOf(n) < IndexOf(k))

InOrder(a, b) ==
  CASE a.op = "func" /\ b.op = "func" -> Before(a.at, b.at)
    [] a.op = "implicit" /\ b.op = "implicit" -> ByName(a.module.name, b.module.name)
    [] a.op = "decl" /\ b.op = "decl" ->
         a.file < b.file \/ (a.file = b.file /\ a.from < b.from)
    [] OTHER -> a.op = "func" \/ b.op = "decl"

(* Where the order depends on that of the loader or of a map. *)
Unordered ==
  \/ \E p, q \in convs : p[1] # q[1]
  \/ \E p, q \in convs : /\ p # q /\ ValueAt(p).subs /\ ValueAt(q).subs
                         /\ ModuleOf(p).name = "" /\ ModuleOf(q).name = ""

(* Generating twice gives the same file, whatever the order of maps and of   *)
(* goroutines, unless converters are in several files, or two modules        *)
(* without names have subconverters (convgen.go:129, 154).                   *)
SameEveryRun ==
  phase = "done" /\ ~Unordered =>
    \A i, j \in DOMAIN out : i < j => InOrder(out[i], out[j])
=============================================================================
