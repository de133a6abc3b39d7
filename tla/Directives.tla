----------------------------- MODULE Directives -----------------------------
(***************************************************************************)
(* How a package goes in and comes out: the modules and injectors are      *)
(* found in its files, the use that is made of them is validated, the      *)
(* converters are built, and the files tagged convgen are merged into one  *)
(* that is built without the tag, from which the directives are erased.    *)
(*                                                                         *)
(* Three searches decide what a directive is: FindModules looks through    *)
(* parentheses, parseInjectorsInFile and eraseDirectives do not, and only  *)
(* eraseDirectives looks into functions.  Of an expression only what these *)
(* searches see is kept.                                                   *)
(***************************************************************************)
EXTENDS Naturals, Sequences, FiniteSets, Functions, Picks

CONSTANTS
  Names,    \* what a package declares, in the order of the alphabet
  Exported, \* those that begin with a capital
  Blank,    \* the blank identifier
  NoName,   \* of an expression that does not begin with an identifier
  Garbage,  \* what an erased module leaves
  Packages

Idents == {Names[i] : i \in DOMAIN Names}

Directive == {"Module", "Injector", "Option"}

(* An expression: the directive it is a call of, in parentheses or not, or   *)
(* the outermost directives inside it, and the identifiers outside them,     *)
(* with the one it begins with.  Of an injector: its module argument.  Of a  *)
(* directive: whether its options are wrong or its converter cannot be       *)
(* built, and whether that takes subconverters.                              *)
Value ==
  {v \in [call : Directive \cup {"none"}, paren : BOOLEAN, inside : SUBSET Directive,
          uses : SUBSET Idents, lead : Idents \cup {NoName},
          arg : Idents \cup {"nil", "inline", "wrong"},
          fault : {"none", "options", "build"}, subs : BOOLEAN] :
     /\ v.call # "none" => v.inside = {} /\ v.uses = {} /\ v.lead = NoName
     /\ v.call # "Injector" => v.arg = "nil"}

(* A variable specification, `x := v', `x = v' or a statement without them.  *)
(* `func' is FALSE of one that declares a type which is not a function's.    *)
(* A call of a directive has one result: as many values as names.            *)
VarSpec ==
  {spec \in [form : {"spec", "define", "assign", "stmt"}, func : BOOLEAN,
             names : Seq(Idents \cup {Blank}), values : Seq(Value)] :
     /\ spec.form = "stmt" => spec.names = <<>>
     /\ spec.form # "stmt" => Len(spec.values) <= Len(spec.names)
     /\ spec.form # "stmt" /\ Len(spec.values) # Len(spec.names) =>
          \A i \in DOMAIN spec.values : spec.values[i].call = "none"}

(* A group of package-level variables, or a function with its statements.    *)
Decl ==
  {decl \in [func : Idents \cup {NoName}, specs : Seq(VarSpec)] :
     decl.func = NoName => \A s \in DOMAIN decl.specs : decl.specs[s].form = "spec"}

(* What the directive of an expression is, or those inside it. *)
Outermost(v) == IF v.call # "none" THEN {v.call} ELSE v.inside

(* A file, with directives if it imports them. *)
File ==
  {file \in [tagged : BOOLEAN, imports : BOOLEAN, decls : Seq(Decl)] :
     ~file.imports =>
       \A d \in DOMAIN file.decls : \A s \in DOMAIN file.decls[d].specs :
         \A i \in DOMAIN file.decls[d].specs[s].values :
           Outermost(file.decls[d].specs[s].values[i]) = {}}

ASSUME NamesAssumption ==
  /\ Names \in Seq(STRING)
  /\ \A i, j \in DOMAIN Names : Names[i] = Names[j] => i = j
  /\ Exported \subseteq Idents
  /\ {Blank, NoName, Garbage, "", "nil", "inline", "wrong"} \cap Idents = {}
  /\ Cardinality({Blank, NoName, Garbage}) = 3

ASSUME PackagesAssumption == Packages \subseteq Seq(File) \ {<<>>}

VARIABLES
  pkg,   \* the files, as loaded with the tag convgen
  phase, \* "modules", "validate", "usages", "injectors", "parsed", "build",
         \* "explicit", "implicit", "merge", "done", "failed" or "panic"
  cur,   \* the file, or the converter, in hand
  mods,  \* where modules are declared: Convgen.mods
  injs,  \* where injectors are, in the order found
  convs, \* those of which a converter is built
  errs,
  out    \* what is written, in order

vars == <<pkg, phase, cur, mods, injs, convs, errs, out>>

-----------------------------------------------------------------------------
(* Places in the source: <<file, declaration, spec, index>>.                 *)
DeclAt(p) == pkg[p[1]].decls[p[2]]
SpecAt(p) == DeclAt(p).specs[p[3]]

SpecPlaces ==
  UNION {UNION {{<<f, d, s>> : s \in DOMAIN pkg[f].decls[d].specs} :
                  d \in DOMAIN pkg[f].decls} : f \in DOMAIN pkg}

ValuePlaces ==
  UNION {{Append(p, i) : i \in DOMAIN SpecAt(p).values} : p \in SpecPlaces}

NamePlaces ==
  UNION {{Append(p, i) : i \in DOMAIN SpecAt(p).names} : p \in SpecPlaces}

NameAt(p)  == SpecAt(p).names[p[4]]
ValueAt(p) == SpecAt(p).values[p[4]]

Local(p)  == DeclAt(p).func # NoName
Tagged(p) == pkg[p[1]].tagged

(* The ith value is that of the ith name. *)
Paired(p) == Len(SpecAt(p).names) = Len(SpecAt(p).values)

(* What a function declares shadows what the package does. *)
Locals(decl) ==
  UNION {{spec.names[i] : i \in DOMAIN spec.names} :
           spec \in {decl.specs[s] : s \in {t \in DOMAIN decl.specs :
                       decl.func # NoName /\ decl.specs[t].form \in {"spec", "define"}}}}

(* The variables that a name may refer to from anywhere. *)
VarPlaces == {p \in NamePlaces : ~Local(p)}

(* TypesInfo.ObjectOf an identifier of a declaration: where the variable is  *)
(* declared, if it is one of the package.  The blank identifier never is.    *)
ObjectOf(decl, name) ==
  {p \in VarPlaces : NameAt(p) = name /\ name # Blank /\ name \notin Locals(decl)}

IsModule(decl, name) == ObjectOf(decl, name) \cap mods # {}

Position(p, order) == [p EXCEPT ![1] = order[p[1]]]

Before(p, q) == \E k \in 1 .. 4 : p[k] < q[k] /\ \A l \in 1 .. k - 1 : p[l] = q[l]

Fail(what, places) == {[what |-> what, at |-> p] : p \in places}

(* Lists of what a set has, each once, and of places in their order. *)
Listings(S) == Bijection(1 .. Cardinality(S), S)

Sorted(list) == \A i, j \in DOMAIN list : i < j => Before(list[i], list[j])

-----------------------------------------------------------------------------
SpecsOf(decl)  == {decl.specs[s] : s \in DOMAIN decl.specs}
ValuesOf(decl) == UNION {{spec.values[i] : i \in DOMAIN spec.values} : spec \in SpecsOf(decl)}
NamesOf(decl)  == UNION {{spec.names[i] : i \in DOMAIN spec.names} : spec \in SpecsOf(decl)}

Source == UNION {{pkg[f].decls[d] : d \in DOMAIN pkg[f].decls} : f \in DOMAIN pkg}

(* What is declared for all, and what is referred to outside directives.     *)
Declares(decl) == IF decl.func # NoName THEN {decl.func} ELSE NamesOf(decl)

Referred(decl) ==
  (UNION {v.uses \cup {v.lead} : v \in ValuesOf(decl)})
  \cup (IF decl.func = NoName THEN {} ELSE
        UNION {{spec.names[i] : i \in DOMAIN spec.names} :
                 spec \in {s \in SpecsOf(decl) : s.form = "assign"}})

Known == UNION {Declares(decl) : decl \in Source}

(* A package with errors goes no further than load: the variables and        *)
(* functions of a package have different names, what is referred to is       *)
(* declared, and a module that a function declares is used in it.            *)
Compiles ==
  /\ \A p, q \in VarPlaces : NameAt(p) = NameAt(q) /\ NameAt(p) # Blank => p = q
  /\ \A p \in VarPlaces, decl \in Source : NameAt(p) # decl.func
  /\ \A decl \in Source :
       Referred(decl) \cup {v.arg : v \in ValuesOf(decl)}
         \subseteq Known \cup Locals(decl) \cup {NoName, Blank, "nil", "inline", "wrong"}
  /\ \A p \in NamePlaces :
       /\ Local(p) /\ SpecAt(p).form \in {"spec", "define"} /\ NameAt(p) # Blank
       /\ p[4] \in DOMAIN SpecAt(p).values /\ ValueAt(p).call = "Module"
       => \E v \in ValuesOf(DeclAt(p)) :
            NameAt(p) \in v.uses \cup {v.lead, v.arg} \/ "Injector" \in v.inside

Init ==
  /\ pkg \in Packages
  /\ Compiles
  /\ phase = "modules"
  /\ cur = 1
  /\ mods = {} /\ injs = <<>> /\ convs = {} /\ errs = {}
  /\ out = <<>>

NextFile(then) ==
  IF cur < Len(pkg) THEN cur' = cur + 1 /\ UNCHANGED phase
  ELSE cur' = 1 /\ phase' = then

FindModules(f) ==
  {p \in ValuePlaces :
     /\ p[1] = f /\ Tagged(p) /\ ~Local(p)
     /\ p[4] \in DOMAIN SpecAt(p).names
     /\ ValueAt(p).call = "Module"}

(* A module whose options are wrong is a module all the same. *)
ParseModules ==
  /\ phase = "modules"
  /\ mods' = mods \cup FindModules(cur)
  /\ errs' = errs \cup Fail("options", {p \in FindModules(cur) : ValueAt(p).fault = "options"})
  /\ NextFile("validate")
  /\ UNCHANGED <<pkg, injs, convs, out>>

-----------------------------------------------------------------------------
ConstraintMistakes(f) ==
  IF pkg[f].imports /\ ~pkg[f].tagged THEN Fail("constraint", {<<f>>}) ELSE {}

(* Mutant: only the value itself is looked at. *)
AssignedSelf(f) ==
  Fail("assigned", {p \in ValuePlaces :
    /\ p[1] = f /\ Tagged(p)
    /\ SpecAt(p).form # "stmt"
    /\ ValueAt(p).call = "Option"})

(* validateAssignedDirectives *)
AssignedDirectives(f) ==
  Fail("assigned", {p \in ValuePlaces :
    /\ p[1] = f /\ Tagged(p)
    /\ SpecAt(p).form # "stmt"
    /\ "Option" \in Outermost(ValueAt(p))})

ValidateFile ==
  /\ phase = "validate"
  /\ errs' = errs \cup ConstraintMistakes(cur) \cup AssignedDirectives(cur)
  /\ NextFile("usages")
  /\ UNCHANGED <<pkg, mods, injs, convs, out>>

(* findBlankValues: the values whose first identifier is not looked at. *)
BlankValues ==
  {p \in ValuePlaces :
     LET spec == SpecAt(p)
     IN  /\ spec.form # "stmt"
         /\ \/ Paired(p) /\ spec.names[p[4]] = Blank
            \/ /\ Len(spec.names) > 1 /\ Len(spec.values) = 1
               /\ \E i \in DOMAIN spec.names : spec.names[i] = Blank}

(* The identifiers looked at: those declared or assigned to, and those of    *)
(* values, but what is inside a directive.                                   *)
Occurrences ==
  {[name |-> NameAt(p), at |-> p, declares |-> ~Local(p)] : p \in NamePlaces}
  \cup UNION {{[name |-> n, at |-> p, declares |-> FALSE] :
                 n \in ValueAt(p).uses \cup
                       (IF p \in BlankValues THEN {} ELSE {ValueAt(p).lead})} :
                p \in {q \in ValuePlaces : ValueAt(q).call = "none"}}

UsageMistakes(uses) ==
  Fail("exported", {<<o.at, o.name>> : o \in {u \in uses : u.name \in Exported}})
  \cup Fail("outside", {<<o.at, o.name>> :
             o \in {u \in uses : u.name \notin Exported /\ ~u.declares}})

(* Mutant: only the files that are merged are looked at. *)
MergedUsages ==
  UsageMistakes({o \in Occurrences : Tagged(o.at) /\ IsModule(DeclAt(o.at), o.name)})

(* validateModuleUsages, in all files, tagged or not. *)
ModuleUsages == UsageMistakes({o \in Occurrences : IsModule(DeclAt(o.at), o.name)})

ValidateUsages ==
  /\ phase = "usages"
  /\ phase' = "injectors"
  /\ errs' = errs \cup ModuleUsages
  /\ UNCHANGED <<pkg, cur, mods, injs, convs, out>>

-----------------------------------------------------------------------------
(* parseInjectorsInFile *)
FindInjectors(f) ==
  {p \in ValuePlaces :
     /\ p[1] = f /\ Tagged(p) /\ ~Local(p)
     /\ Paired(p)
     /\ ValueAt(p).call = "Injector" /\ ~ValueAt(p).paren}

(* ParseModuleArg *)
ModuleFound(p) ==
  \/ ValueAt(p).arg \in {"nil", "inline"}
  \/ IsModule(DeclAt(p), ValueAt(p).arg)

(* FuncOf panics if the variable is not declared as a function. *)
Unparsable(p) == NameAt(p) # Blank /\ ~SpecAt(p).func

InjectorMistakes(P) ==
  Fail("blank", {p \in P : NameAt(p) = Blank})
  \cup Fail("module", {p \in P : NameAt(p) # Blank /\ ~ModuleFound(p)})
  \cup Fail("options", {p \in P : /\ NameAt(p) # Blank /\ ModuleFound(p)
                                  /\ ValueAt(p).fault = "options"})

ParseInjectors ==
  /\ phase = "injectors"
  /\ LET found == FindInjectors(cur)
     IN  \/ /\ \E p \in found : Unparsable(p)
            /\ phase' = "panic"
            /\ UNCHANGED <<cur, injs, errs>>
         \/ /\ \A p \in found : ~Unparsable(p)
            /\ \E list \in Listings(found) : Sorted(list) /\ injs' = injs \o list
            /\ errs' = errs \cup InjectorMistakes(found)
            /\ NextFile("parsed")
  /\ UNCHANGED <<pkg, mods, convs, out>>

(* With a mistake nothing is built, and without injectors there is nothing   *)
(* to build.                                                                 *)
Parsed ==
  /\ phase = "parsed"
  /\ phase' = IF errs # {} THEN "failed" ELSE IF injs = <<>> THEN "explicit" ELSE "build"
  /\ UNCHANGED <<pkg, cur, mods, injs, convs, errs, out>>

-----------------------------------------------------------------------------
BuildConv ==
  /\ phase = "build"
  /\ IF ValueAt(injs[cur]).fault = "build"
     THEN errs' = errs \cup Fail("build", {injs[cur]}) /\ UNCHANGED convs
     ELSE convs' = convs \cup {injs[cur]} /\ UNCHANGED errs
  /\ IF cur < Len(injs) THEN cur' = cur + 1 /\ UNCHANGED phase
     ELSE cur' = 1 /\ phase' = IF errs' # {} THEN "failed" ELSE "explicit"
  /\ UNCHANGED <<pkg, mods, injs, out>>

(* Converters are written in the order of their positions.  The loader gives *)
(* positions to files in the order it happens to parse them.                 *)
WriteExplicit ==
  /\ phase = "explicit"
  /\ phase' = "implicit"
  /\ \E order \in Bijection(DOMAIN pkg, DOMAIN pkg), list \in Listings(convs) :
       /\ Sorted([i \in DOMAIN list |-> Position(list[i], order)])
       /\ out' = [i \in DOMAIN list |-> [op |-> "func", at |-> list[i]]]
  /\ UNCHANGED <<pkg, cur, mods, injs, convs, errs>>

(* Injector.Module: one that has a name, or one of the injector's own. *)
ModuleOf(p) ==
  LET arg == ValueAt(p).arg
  IN  IF arg \in Idents THEN [name |-> arg, at |-> ObjectOf(DeclAt(p), arg)]
      ELSE [name |-> "", at |-> {p}]

(* Mutant: by no name at all. *)
RankSame(mod) == 0

Rank(mod) == IF mod.name = "" THEN 0 ELSE CHOOSE i \in DOMAIN Names : Names[i] = mod.name

(* The subconverters come by the names of their modules; modules without a   *)
(* name come in the order a map happens to yield them.                       *)
WriteImplicit ==
  /\ phase = "implicit"
  /\ phase' = "merge"
  /\ \E list \in Listings({ModuleOf(p) : p \in {q \in convs : ValueAt(q).subs}}) :
       /\ \A i, j \in DOMAIN list : i < j => Rank(list[i]) <= Rank(list[j])
       /\ out' = out \o [i \in DOMAIN list |-> [op |-> "implicit", module |-> list[i]]]
  /\ UNCHANGED <<pkg, cur, mods, injs, convs, errs>>

-----------------------------------------------------------------------------
(* A name and its value are erased if the value is a module, whoever         *)
(* declares it, or one of the converters.                                    *)
Erased(p) ==
  /\ p[4] \in DOMAIN SpecAt(p).values
  /\ \/ ValueAt(p).call = "Module" /\ ~ValueAt(p).paren
     \/ p \in convs

Kept(p, S) == {i \in S : ~Erased(Append(p, i))}

(* A module that is kept loses its name. *)
KeptName(p) == IF p \in mods THEN Garbage ELSE NameAt(p)

KeptNames(p) ==
  Picked([i \in DOMAIN SpecAt(p).names |-> KeptName(Append(p, i))],
         Kept(p, DOMAIN SpecAt(p).names))

(* Mutant: the values stay where their names go. *)
EraseNames(p) ==
  [SpecAt(p) EXCEPT !.names = KeptNames(p),
                    !.values = [k \in DOMAIN KeptNames(p) \cap DOMAIN @ |-> @[k]]]

EraseSpec(p) ==
  [SpecAt(p) EXCEPT !.names = KeptNames(p),
                    !.values = Picked(@, Kept(p, DOMAIN SpecAt(p).names \cap DOMAIN @))]

(* What refers to a module is replaced by garbage. *)
GarbleName(decl, n) == IF IsModule(decl, n) THEN Garbage ELSE n

GarbleValue(decl, v) ==
  [v EXCEPT !.uses = {GarbleName(decl, n) : n \in @},
            !.lead = GarbleName(decl, @), !.arg = GarbleName(decl, @)]

GarbleSpec(decl, spec) ==
  [spec EXCEPT !.names = [i \in DOMAIN @ |-> GarbleName(decl, @[i])],
               !.values = [i \in DOMAIN @ |-> GarbleValue(decl, @[i])]]

(* eraseDirectives: first variables, in functions too, then references. *)
ErasedSpecs(f, d) ==
  [s \in DOMAIN pkg[f].decls[d].specs |->
     IF SpecAt(<<f, d, s>>).form = "spec" THEN EraseSpec(<<f, d, s>>) ELSE SpecAt(<<f, d, s>>)]

FullSpecs(specs) == {s \in DOMAIN specs : specs[s].form # "spec" \/ specs[s].names # <<>>}

EraseDirectives(f, d) ==
  LET decl == pkg[f].decls[d]
      left == Picked(ErasedSpecs(f, d), FullSpecs(ErasedSpecs(f, d)))
  IN  [decl EXCEPT !.specs = [s \in DOMAIN left |-> GarbleSpec(decl, left[s])]]

(* mergeCode, of one file; `from' is the declaration that is merged. *)
MergeFile ==
  /\ phase = "merge"
  /\ LET merged == [d \in DOMAIN pkg[cur].decls |->
                     [op |-> "decl", file |-> cur, from |-> d, decl |-> EraseDirectives(cur, d)]]
         whole  == {d \in DOMAIN merged :
                     Tagged(<<cur>>) /\ (merged[d].decl.func # NoName \/ merged[d].decl.specs # <<>>)}
     IN  out' = out \o Picked(merged, whole)
  /\ NextFile("done")
  /\ UNCHANGED <<pkg, mods, injs, convs, errs>>

(* Where the user, or the compiler, takes over. *)
Done == phase \in {"done", "failed", "panic"} /\ UNCHANGED vars

Next ==
  \/ ParseModules \/ ValidateFile \/ ValidateUsages \/ ParseInjectors \/ Parsed
  \/ BuildConv \/ WriteExplicit \/ WriteImplicit \/ MergeFile \/ Done

Spec == Init /\ [][Next]_vars
=============================================================================
