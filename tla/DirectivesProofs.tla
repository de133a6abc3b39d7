-------------------------- MODULE DirectivesProofs --------------------------
(***************************************************************************)
(* Theorems about Directives, for any package that compiles: all mistakes  *)
(* are reported, and what is written is in order, whole and stands alone.  *)
(***************************************************************************)
EXTENDS DirectivesProps, PicksProofs, SequenceTheorems, TLAPS

-----------------------------------------------------------------------------
(* What the loops over files and injectors have found before the nth.        *)
Files(n) == {f \in DOMAIN pkg : f < n}
Last     == Len(pkg) + 1

ModulesBefore(n)   == UNION {FindModules(f) : f \in Files(n)}
InjectorsBefore(n) == UNION {FindInjectors(f) : f \in Files(n)}

OptionsOf(f) == Fail("options", {p \in FindModules(f) : ValueAt(p).fault = "options"})
FileOf(f)    == ConstraintMistakes(f) \cup AssignedDirectives(f)

OptionErrors(n)   == UNION {OptionsOf(f) : f \in Files(n)}
FileErrors(n)     == UNION {FileOf(f) : f \in Files(n)}
InjectorErrors(n) == UNION {InjectorMistakes(FindInjectors(f)) : f \in Files(n)}
BuildErrors(n)    == Fail("build", {injs[k] : k \in {l \in DOMAIN injs : l < n /\ ValueAt(injs[l]).fault = "build"}})

EarlyErrors ==
  OptionErrors(Last) \cup FileErrors(Last) \cup ModuleUsages \cup InjectorErrors(Last)

Parsing  == {"modules", "validate", "usages", "injectors"}
Writing  == {"explicit", "implicit", "merge", "done"}
PerFile  == {"modules", "validate", "injectors", "merge"}

(* Of a run: the package is one that compiles, and where it stands in it.    *)
Running ==
  /\ pkg \in Packages /\ Compiles
  /\ phase \in Parsing \cup Writing \cup {"parsed", "build", "failed", "panic"}
  /\ cur \in Nat \ {0}
  /\ phase \in PerFile => cur \in DOMAIN pkg
  /\ phase \in {"usages", "parsed", "explicit", "implicit"} => cur = 1
  /\ phase = "build" => cur \in DOMAIN injs

Found ==
  /\ mods = IF phase = "modules" THEN ModulesBefore(cur) ELSE AllModules
  /\ injs \in Seq(AllInjectors)
  /\ phase \in {"modules", "validate", "usages"} => injs = <<>>
  /\ phase = "injectors" => Range(injs) = InjectorsBefore(cur)
  /\ phase \notin Parsing \cup {"panic"} => Range(injs) = AllInjectors

Reported ==
  /\ phase = "modules" => errs = OptionErrors(cur)
  /\ phase = "validate" => errs = OptionErrors(Last) \cup FileErrors(cur)
  /\ phase = "usages" => errs = OptionErrors(Last) \cup FileErrors(Last)
  /\ phase = "injectors" =>
       errs = OptionErrors(Last) \cup FileErrors(Last) \cup ModuleUsages \cup InjectorErrors(cur)
  /\ phase = "parsed" => errs = EarlyErrors
  /\ phase = "build" => EarlyErrors = {} /\ errs = BuildErrors(cur)
  /\ phase \in Writing => EarlyErrors = {} /\ Unbuildable = {} /\ errs = {}
  /\ phase = "failed" =>
       \/ EarlyErrors # {} /\ errs = EarlyErrors
       \/ EarlyErrors = {} /\ Unbuildable # {} /\ errs = Fail("build", Unbuildable)
  /\ phase = "panic" => \E p \in AllInjectors : Unparsable(p)

Progress == Running /\ Found /\ Reported

LEMMA PackageIs ==
  ASSUME pkg \in Packages
  PROVE  pkg \in Seq(File) /\ Len(pkg) \in Nat \ {0} /\ DOMAIN pkg = 1 .. Len(pkg)
<1>1. pkg \in Seq(File) /\ pkg # <<>>
  BY PackagesAssumption
<1>. QED
  BY <1>1

LEMMA FilesStep ==
  ASSUME pkg \in Packages
  PROVE  /\ Files(1) = {}
         /\ Files(Last) = DOMAIN pkg
         /\ \A f \in DOMAIN pkg : Files(f + 1) = Files(f) \cup {f}
<1>1. Len(pkg) \in Nat \ {0} /\ DOMAIN pkg = 1 .. Len(pkg)
  BY PackageIs
<1>2. Files(1) = {}
  BY <1>1 DEF Files
<1>3. Files(Last) = DOMAIN pkg
  BY <1>1 DEF Files, Last
<1>4. ASSUME NEW f \in DOMAIN pkg
      PROVE  Files(f + 1) = Files(f) \cup {f}
  <2>1. \A g \in DOMAIN pkg : g < f + 1 <=> g < f \/ g = f
    BY <1>1
  <2>. QED
    BY <2>1 DEF Files
<1>. QED
  BY <1>2, <1>3, <1>4

(* What has been found before the first file, and with one more. *)
LEMMA BeforeStep ==
  ASSUME pkg \in Packages
  PROVE  /\ ModulesBefore(1) = {} /\ InjectorsBefore(1) = {} /\ OptionErrors(1) = {}
         /\ FileErrors(1) = {} /\ InjectorErrors(1) = {}
         /\ ModulesBefore(Last) = AllModules /\ InjectorsBefore(Last) = AllInjectors
         /\ \A f \in DOMAIN pkg :
              /\ ModulesBefore(f + 1) = ModulesBefore(f) \cup FindModules(f)
              /\ InjectorsBefore(f + 1) = InjectorsBefore(f) \cup FindInjectors(f)
              /\ OptionErrors(f + 1) = OptionErrors(f) \cup OptionsOf(f)
              /\ FileErrors(f + 1) = FileErrors(f) \cup FileOf(f)
              /\ InjectorErrors(f + 1) = InjectorErrors(f) \cup InjectorMistakes(FindInjectors(f))
<1>1. ModulesBefore(1) = {} /\ InjectorsBefore(1) = {} /\ OptionErrors(1) = {}
      /\ FileErrors(1) = {} /\ InjectorErrors(1) = {}
  BY FilesStep DEF ModulesBefore, InjectorsBefore, OptionErrors, FileErrors, InjectorErrors
<1>2. ModulesBefore(Last) = AllModules /\ InjectorsBefore(Last) = AllInjectors
  BY FilesStep DEF ModulesBefore, InjectorsBefore, AllModules, AllInjectors
<1>3. ASSUME NEW f \in DOMAIN pkg
      PROVE  /\ ModulesBefore(f + 1) = ModulesBefore(f) \cup FindModules(f)
             /\ InjectorsBefore(f + 1) = InjectorsBefore(f) \cup FindInjectors(f)
             /\ OptionErrors(f + 1) = OptionErrors(f) \cup OptionsOf(f)
             /\ FileErrors(f + 1) = FileErrors(f) \cup FileOf(f)
             /\ InjectorErrors(f + 1) = InjectorErrors(f) \cup InjectorMistakes(FindInjectors(f))
  <2>1. Files(f + 1) = Files(f) \cup {f}
    BY FilesStep
  <2>2. ModulesBefore(f + 1) = ModulesBefore(f) \cup FindModules(f)
    BY <2>1 DEF ModulesBefore
  <2>3. InjectorsBefore(f + 1) = InjectorsBefore(f) \cup FindInjectors(f)
    BY <2>1 DEF InjectorsBefore
  <2>4. OptionErrors(f + 1) = OptionErrors(f) \cup OptionsOf(f)
    BY <2>1 DEF OptionErrors
  <2>5. FileErrors(f + 1) = FileErrors(f) \cup FileOf(f)
    BY <2>1 DEF FileErrors
  <2>6. InjectorErrors(f + 1) = InjectorErrors(f) \cup InjectorMistakes(FindInjectors(f))
    BY <2>1 DEF InjectorErrors
  <2>. QED
    BY <2>2, <2>3, <2>4, <2>5, <2>6
<1>. QED
  BY <1>1, <1>2, <1>3

(* What is read of the package alone stays as it is. *)
LEMMA PlacesFrame ==
  ASSUME pkg' = pkg
  PROVE  /\ \A p : /\ DeclAt(p)' = DeclAt(p) /\ SpecAt(p)' = SpecAt(p) /\ Tagged(p)' = Tagged(p)
                   /\ NameAt(p)' = NameAt(p) /\ ValueAt(p)' = ValueAt(p)
                   /\ Local(p)' = Local(p) /\ Paired(p)' = Paired(p)
         /\ SpecPlaces' = SpecPlaces /\ ValuePlaces' = ValuePlaces /\ NamePlaces' = NamePlaces
         /\ VarPlaces' = VarPlaces /\ BlankValues' = BlankValues /\ Source' = Source
         /\ \A decl, name : ObjectOf(decl, name)' = ObjectOf(decl, name)
         /\ \A f : FindModules(f)' = FindModules(f) /\ FindInjectors(f)' = FindInjectors(f)
                   /\ OptionsOf(f)' = OptionsOf(f) /\ FileOf(f)' = FileOf(f)
         /\ Last' = Last /\ \A n : Files(n)' = Files(n)
<1>1. \A p : DeclAt(p)' = DeclAt(p) /\ SpecAt(p)' = SpecAt(p) /\ Tagged(p)' = Tagged(p)
             /\ NameAt(p)' = NameAt(p) /\ ValueAt(p)' = ValueAt(p) /\ Local(p)' = Local(p) /\ Paired(p)' = Paired(p)
  BY DEF DeclAt, SpecAt, Tagged, NameAt, ValueAt, Local, Paired
<1>2. SpecPlaces' = SpecPlaces
  BY DEF SpecPlaces
<1>3. ValuePlaces' = ValuePlaces /\ NamePlaces' = NamePlaces
  BY <1>1, <1>2 DEF ValuePlaces, NamePlaces
<1>4. VarPlaces' = VarPlaces /\ BlankValues' = BlankValues /\ Source' = Source
  BY <1>1, <1>3 DEF VarPlaces, BlankValues, Source
<1>5. \A decl, name : ObjectOf(decl, name)' = ObjectOf(decl, name)
  BY <1>1, <1>4 DEF ObjectOf, Locals
<1>6. \A f : FindModules(f)' = FindModules(f) /\ FindInjectors(f)' = FindInjectors(f)
             /\ OptionsOf(f)' = OptionsOf(f) /\ FileOf(f)' = FileOf(f)
  <2>1. \A f : FindModules(f)' = FindModules(f) /\ FindInjectors(f)' = FindInjectors(f)
    BY <1>1, <1>3 DEF FindModules, FindInjectors
  <2>2. \A f : OptionsOf(f)' = OptionsOf(f)
    BY <1>1, <2>1 DEF OptionsOf, Fail
  <2>3. \A f : ConstraintMistakes(f)' = ConstraintMistakes(f) /\ AssignedDirectives(f)' = AssignedDirectives(f)
    BY <1>1, <1>3 DEF ConstraintMistakes, AssignedDirectives, Fail
  <2>. QED
    BY <2>1, <2>2, <2>3 DEF FileOf
<1>7. Last' = Last /\ \A n : Files(n)' = Files(n)
  BY DEF Last, Files
<1>. QED
  BY <1>1, <1>2, <1>3, <1>4, <1>5, <1>6, <1>7

LEMMA PackageFrame ==
  ASSUME pkg' = pkg
  PROVE  /\ Compiles' = Compiles /\ AllModules' = AllModules /\ AllInjectors' = AllInjectors
         /\ Unbuildable' = Unbuildable /\ Last' = Last /\ Mistakes' = Mistakes
         /\ \A n : /\ ModulesBefore(n)' = ModulesBefore(n)
                   /\ InjectorsBefore(n)' = InjectorsBefore(n)
                   /\ OptionErrors(n)' = OptionErrors(n)
                   /\ FileErrors(n)' = FileErrors(n)
         /\ \A p : Unparsable(p)' = Unparsable(p)
<1>1. AllModules' = AllModules /\ AllInjectors' = AllInjectors
  BY PlacesFrame DEF AllModules, AllInjectors
<1>2. \A n : /\ ModulesBefore(n)' = ModulesBefore(n)
             /\ InjectorsBefore(n)' = InjectorsBefore(n)
             /\ OptionErrors(n)' = OptionErrors(n)
             /\ FileErrors(n)' = FileErrors(n)
  BY PlacesFrame DEF ModulesBefore, InjectorsBefore, OptionErrors, FileErrors
<1>3. Unbuildable' = Unbuildable /\ \A p : Unparsable(p)' = Unparsable(p)
  BY PlacesFrame, <1>1 DEF Unbuildable, Unparsable
<1>4. Compiles' = Compiles
  BY PlacesFrame DEF Compiles, Known
<1>5. \A decl, name : Meant(decl, name)' = Meant(decl, name)
  BY PlacesFrame, <1>1 DEF Meant
<1>6. Imported' = Imported /\ WrongOptions' = WrongOptions /\ WrongModules' = WrongModules
  BY PlacesFrame, <1>1 DEF Imported, WrongOptions, WrongModules
<1>7. MisusedModules' = MisusedModules /\ WrongInjectors' = WrongInjectors
  BY PlacesFrame, <1>1, <1>5 DEF MisusedModules, WrongInjectors
<1>8. Mistakes' = Mistakes
  BY <1>6, <1>7 DEF Mistakes
<1>. QED
  BY PlacesFrame, <1>1, <1>2, <1>3, <1>4, <1>8

(* What is read of the package and its modules. *)
LEMMA ModulesFrame ==
  ASSUME pkg' = pkg, mods' = mods
  PROVE  /\ ModuleUsages' = ModuleUsages
         /\ \A n : InjectorErrors(n)' = InjectorErrors(n)
         /\ EarlyErrors' = EarlyErrors
<1>1. \A decl, name : IsModule(decl, name)' = IsModule(decl, name)
  BY PlacesFrame DEF IsModule
<1>2. Occurrences' = Occurrences
  BY PlacesFrame DEF Occurrences
<1>3. \A p : ModuleFound(p)' = ModuleFound(p)
  BY PlacesFrame, <1>1 DEF ModuleFound
<1>4. \A P : InjectorMistakes(P)' = InjectorMistakes(P)
  BY PlacesFrame, <1>3 DEF InjectorMistakes, Fail
<1>5. ModuleUsages' = ModuleUsages
  BY PlacesFrame, <1>1, <1>2 DEF ModuleUsages, UsageMistakes, Fail
<1>6. \A n : InjectorErrors(n)' = InjectorErrors(n)
  BY PlacesFrame, <1>4 DEF InjectorErrors
<1>7. EarlyErrors' = EarlyErrors
  BY PlacesFrame, PackageFrame, <1>5, <1>6 DEF EarlyErrors
<1>. QED
  BY <1>5, <1>6, <1>7

-----------------------------------------------------------------------------
(* A file has finitely many values, and so what is listed are sequences. *)
LEMMA ImageFinite ==
  ASSUME NEW S, IsFiniteSet(S), NEW f, DOMAIN f = S
  PROVE  IsFiniteSet({f[x] : x \in S})
<1>. DEFINE g == [x \in S |-> f[x]]
            T == {f[x] : x \in S}
<1>1. g \in [S -> T] /\ \A t \in T : \E x \in S : g[x] = t
  OBVIOUS
<1>2. g \in Surjection(S, T)
  BY <1>1 DEF Surjection
<1>. QED
  BY <1>2, FS_Surjection

LEMMA IndicesFinite ==
  ASSUME NEW X, NEW seq \in Seq(X)
  PROVE  IsFiniteSet(DOMAIN seq)
<1>1. Len(seq) \in Nat /\ DOMAIN seq = 1 .. Len(seq)
  OBVIOUS
<1>2. IsFiniteSet(1 .. Len(seq))
  BY <1>1, FS_Interval
<1>. QED
  BY <1>1, <1>2

LEMMA PackageTyped ==
  ASSUME pkg \in Packages
  PROVE  /\ \A f \in DOMAIN pkg :
              /\ pkg[f] \in File /\ pkg[f].decls \in Seq(Decl)
              /\ \A d \in DOMAIN pkg[f].decls :
                   /\ pkg[f].decls[d] \in Decl /\ pkg[f].decls[d].specs \in Seq(VarSpec)
                   /\ \A s \in DOMAIN pkg[f].decls[d].specs :
                        /\ pkg[f].decls[d].specs[s] \in VarSpec
                        /\ pkg[f].decls[d].specs[s].names \in Seq(Idents \cup {Blank})
                        /\ pkg[f].decls[d].specs[s].values \in Seq(Value)
<1>1. \A f \in DOMAIN pkg : pkg[f] \in File
  BY PackageIs
<1>2. \A file \in File : file.decls \in Seq(Decl)
  BY DEF File
<1>3. \A decl \in Decl : decl.specs \in Seq(VarSpec)
  BY DEF Decl
<1>4. \A spec \in VarSpec : spec.names \in Seq(Idents \cup {Blank}) /\ spec.values \in Seq(Value)
  BY DEF VarSpec
<1>5. ASSUME NEW X, NEW seq \in Seq(X), NEW i \in DOMAIN seq
      PROVE  seq[i] \in X
  OBVIOUS
<1>6. \A f \in DOMAIN pkg : \A d \in DOMAIN pkg[f].decls : pkg[f].decls[d] \in Decl
  BY <1>1, <1>2, <1>5
<1>7. \A f \in DOMAIN pkg : \A d \in DOMAIN pkg[f].decls : \A s \in DOMAIN pkg[f].decls[d].specs :
        pkg[f].decls[d].specs[s] \in VarSpec
  BY <1>3, <1>5, <1>6
<1>8. ASSUME NEW f \in DOMAIN pkg
      PROVE  /\ pkg[f] \in File /\ pkg[f].decls \in Seq(Decl)
             /\ \A d \in DOMAIN pkg[f].decls :
                  /\ pkg[f].decls[d] \in Decl /\ pkg[f].decls[d].specs \in Seq(VarSpec)
                  /\ \A s \in DOMAIN pkg[f].decls[d].specs :
                       /\ pkg[f].decls[d].specs[s] \in VarSpec
                       /\ pkg[f].decls[d].specs[s].names \in Seq(Idents \cup {Blank})
                       /\ pkg[f].decls[d].specs[s].values \in Seq(Value)
  <2>1. pkg[f] \in File /\ pkg[f].decls \in Seq(Decl)
    BY <1>1, <1>2
  <2>2. ASSUME NEW d \in DOMAIN pkg[f].decls
        PROVE  /\ pkg[f].decls[d] \in Decl /\ pkg[f].decls[d].specs \in Seq(VarSpec)
               /\ \A s \in DOMAIN pkg[f].decls[d].specs :
                    /\ pkg[f].decls[d].specs[s] \in VarSpec
                    /\ pkg[f].decls[d].specs[s].names \in Seq(Idents \cup {Blank})
                    /\ pkg[f].decls[d].specs[s].values \in Seq(Value)
    BY <1>3, <1>4, <1>6, <1>7
  <2>. QED
    BY <2>1, <2>2
<1>. QED
  BY <1>8

(* Places of the source: of a specification, and of what it has. *)
LEMMA SpecPlaceIs ==
  ASSUME pkg \in Packages, NEW p \in SpecPlaces
  PROVE  /\ p = <<p[1], p[2], p[3]>>
         /\ p[1] \in DOMAIN pkg /\ p[2] \in DOMAIN pkg[p[1]].decls
         /\ p[3] \in DOMAIN pkg[p[1]].decls[p[2]].specs
         /\ p \in Nat \X Nat \X Nat
<1>1. PICK f \in DOMAIN pkg : \E d \in DOMAIN pkg[f].decls : \E s \in DOMAIN pkg[f].decls[d].specs :
        p = <<f, d, s>>
  BY DEF SpecPlaces
<1>2. PICK d \in DOMAIN pkg[f].decls : \E s \in DOMAIN pkg[f].decls[d].specs : p = <<f, d, s>>
  BY <1>1
<1>3. PICK s \in DOMAIN pkg[f].decls[d].specs : p = <<f, d, s>>
  BY <1>2
<1>4. p[1] = f /\ p[2] = d /\ p[3] = s
  BY <1>3
<1>5. f \in Nat /\ d \in Nat /\ s \in Nat
  BY PackageIs, PackageTyped
<1>. QED
  BY <1>3, <1>4, <1>5

LEMMA AppendIs ==
  ASSUME NEW f, NEW d, NEW s, NEW i
  PROVE  Append(<<f, d, s>>, i) = <<f, d, s, i>>
<1>. DEFINE P == <<f, d, s>>
            Q == <<f, d, s, i>>
            A == {f, d, s, i}
<1>1. P \in Seq(A) /\ i \in A
  OBVIOUS
<1>2. Len(P) = 3 /\ P[1] = f /\ P[2] = d /\ P[3] = s
  OBVIOUS
<1>3. Q \in Seq(A) /\ Len(Q) = 4 /\ Q[1] = f /\ Q[2] = d /\ Q[3] = s /\ Q[4] = i
  OBVIOUS
<1>. HIDE DEF P, Q, A
<1>4. PICK R \in Seq(A) : R = Append(P, i) /\ Len(R) = Len(P) + 1
        /\ (\A k \in 1 .. Len(P) : R[k] = P[k]) /\ R[Len(P) + 1] = i
  BY <1>1, AppendProperties
<1>5. Len(R) = 4 /\ (\A k \in 1 .. 3 : R[k] = P[k]) /\ R[4] = i
  BY <1>2, <1>4
<1>6. R[1] = f /\ R[2] = d /\ R[3] = s
  BY <1>2, <1>5
<1>7. \A k \in 1 .. 4 : k = 1 \/ k = 2 \/ k = 3 \/ k = 4
  OBVIOUS
<1>8. R = Q
  BY <1>3, <1>5, <1>6, <1>7
<1>. QED
  BY <1>4, <1>8 DEF P, Q

LEMMA PlaceIs ==
  ASSUME pkg \in Packages, NEW q \in ValuePlaces \cup NamePlaces
  PROVE  /\ q = <<q[1], q[2], q[3], q[4]>>
         /\ <<q[1], q[2], q[3]>> \in SpecPlaces
         /\ q = Append(<<q[1], q[2], q[3]>>, q[4])
         /\ SpecAt(q) = SpecAt(<<q[1], q[2], q[3]>>) /\ DeclAt(q) = DeclAt(<<q[1], q[2], q[3]>>)
         /\ q[4] \in Nat \ {0}
         /\ q \in ValuePlaces <=> q[4] \in DOMAIN SpecAt(q).values
         /\ q \in NamePlaces <=> q[4] \in DOMAIN SpecAt(q).names
<1>2. \A p : SpecAt(p) = pkg[p[1]].decls[p[2]].specs[p[3]] /\ DeclAt(p) = pkg[p[1]].decls[p[2]]
  BY DEF SpecAt, DeclAt
<1>. DEFINE p == <<q[1], q[2], q[3]>>
<1>3. p \in SpecPlaces /\ q = Append(p, q[4]) /\ q = <<q[1], q[2], q[3], q[4]>>
      /\ q[4] \in DOMAIN SpecAt(p).values \cup DOMAIN SpecAt(p).names
  <2>1. PICK r \in SpecPlaces : \E i \in DOMAIN SpecAt(r).values \cup DOMAIN SpecAt(r).names : q = Append(r, i)
    BY DEF ValuePlaces, NamePlaces
  <2>2. PICK i \in DOMAIN SpecAt(r).values \cup DOMAIN SpecAt(r).names : q = Append(r, i)
    BY <2>1
  <2>3. r = <<r[1], r[2], r[3]>>
    BY SpecPlaceIs
  <2>4. q = <<r[1], r[2], r[3], i>>
    BY <2>2, <2>3, AppendIs
  <2>5. q[1] = r[1] /\ q[2] = r[2] /\ q[3] = r[3] /\ q[4] = i
    BY <2>4
  <2>6. p = r
    BY <2>3, <2>5
  <2>. QED
    BY <2>2, <2>4, <2>5, <2>6
<1>4. SpecAt(q) = SpecAt(p) /\ DeclAt(q) = DeclAt(p)
  BY <1>2
<1>5. q[4] \in Nat \ {0}
  <2>1. SpecAt(p).names \in Seq(Idents \cup {Blank}) /\ SpecAt(p).values \in Seq(Value)
    BY <1>2, <1>3, SpecPlaceIs, PackageTyped
  <2>. QED
    BY <1>3, <2>1
<1>6. ASSUME NEW r \in SpecPlaces, NEW i, q = Append(r, i)
      PROVE  r = p /\ i = q[4]
  <2>1. r = <<r[1], r[2], r[3]>>
    BY SpecPlaceIs
  <2>2. q = <<r[1], r[2], r[3], i>>
    BY <1>6, <2>1, AppendIs
  <2>3. q[1] = r[1] /\ q[2] = r[2] /\ q[3] = r[3] /\ q[4] = i
    BY <2>2
  <2>. QED
    BY <2>1, <2>3
<1>7. q \in ValuePlaces <=> q[4] \in DOMAIN SpecAt(p).values
  <2>1. q[4] \in DOMAIN SpecAt(p).values => q \in ValuePlaces
    <3>1. \A r \in SpecPlaces : \A i \in DOMAIN SpecAt(r).values : Append(r, i) \in ValuePlaces
      BY DEF ValuePlaces
    <3>2. p \in SpecPlaces /\ q = Append(p, q[4])
      BY <1>3
    <3>. HIDE DEF p
    <3>. QED
      BY <3>1, <3>2
  <2>2. ASSUME q \in ValuePlaces PROVE q[4] \in DOMAIN SpecAt(p).values
    <3>1. PICK r \in SpecPlaces : \E i \in DOMAIN SpecAt(r).values : q = Append(r, i)
      BY <2>2 DEF ValuePlaces
    <3>. QED
      BY <1>6, <3>1
  <2>. QED
    BY <2>1, <2>2
<1>8. q \in NamePlaces <=> q[4] \in DOMAIN SpecAt(p).names
  <2>1. q[4] \in DOMAIN SpecAt(p).names => q \in NamePlaces
    <3>1. \A r \in SpecPlaces : \A i \in DOMAIN SpecAt(r).names : Append(r, i) \in NamePlaces
      BY DEF NamePlaces
    <3>2. p \in SpecPlaces /\ q = Append(p, q[4])
      BY <1>3
    <3>. HIDE DEF p
    <3>. QED
      BY <3>1, <3>2
  <2>2. ASSUME q \in NamePlaces PROVE q[4] \in DOMAIN SpecAt(p).names
    <3>1. PICK r \in SpecPlaces : \E i \in DOMAIN SpecAt(r).names : q = Append(r, i)
      BY <2>2 DEF NamePlaces
    <3>. QED
      BY <1>6, <3>1
  <2>. QED
    BY <2>1, <2>2
<1>. QED
  BY <1>3, <1>4, <1>5, <1>7, <1>8

LEMMA CoverFinite ==
  ASSUME NEW S, IsFiniteSet(S), NEW f, DOMAIN f = S, \A x \in S : IsFiniteSet(f[x]),
         NEW U, \A y \in U : \E x \in S : y \in f[x]
  PROVE  IsFiniteSet(U)
<1>1. IsFiniteSet({f[x] : x \in S})
  BY ImageFinite
<1>2. \A T \in {f[x] : x \in S} : IsFiniteSet(T)
  OBVIOUS
<1>3. IsFiniteSet(UNION {f[x] : x \in S})
  BY <1>1, <1>2, FS_UNION
<1>4. U \in SUBSET (UNION {f[x] : x \in S})
  OBVIOUS
<1>. QED
  BY <1>3, <1>4, FS_Subset

SpecsOfDecl(f, d) == {<<f, d, s>> : s \in DOMAIN pkg[f].decls[d].specs}
SpecsOfFile(f)    == UNION {SpecsOfDecl(f, d) : d \in DOMAIN pkg[f].decls}
ValuesOfSpec(p)   == {Append(p, i) : i \in DOMAIN SpecAt(p).values}

LEMMA ValuePlacesFinite ==
  ASSUME pkg \in Packages
  PROVE  IsFiniteSet(ValuePlaces)
<1>1. ASSUME NEW f \in DOMAIN pkg, NEW d \in DOMAIN pkg[f].decls
      PROVE  IsFiniteSet(SpecsOfDecl(f, d))
  <2>. DEFINE S == DOMAIN pkg[f].decls[d].specs
              g == [s \in S |-> <<f, d, s>>]
  <2>1. IsFiniteSet(S)
    BY PackageTyped, IndicesFinite
  <2>2. IsFiniteSet({g[s] : s \in S})
    BY <2>1, ImageFinite
  <2>3. {g[s] : s \in S} = SpecsOfDecl(f, d)
    BY DEF SpecsOfDecl
  <2>. QED
    BY <2>2, <2>3
<1>2. ASSUME NEW f \in DOMAIN pkg
      PROVE  IsFiniteSet(SpecsOfFile(f))
  <2>. DEFINE S == DOMAIN pkg[f].decls
              g == [d \in S |-> SpecsOfDecl(f, d)]
  <2>1. IsFiniteSet(S)
    BY PackageTyped, IndicesFinite
  <2>2. \A d \in S : IsFiniteSet(g[d])
    BY <1>1
  <2>3. \A y \in SpecsOfFile(f) : \E d \in S : y \in g[d]
    BY DEF SpecsOfFile
  <2>. QED
    BY <2>1, <2>2, <2>3, CoverFinite
<1>3. IsFiniteSet(SpecPlaces)
  <2>. DEFINE S == DOMAIN pkg
              g == [f \in S |-> SpecsOfFile(f)]
  <2>1. IsFiniteSet(S)
    BY PackageIs, IndicesFinite
  <2>2. \A f \in S : IsFiniteSet(g[f])
    BY <1>2
  <2>3. \A y \in SpecPlaces : \E f \in S : y \in g[f]
    BY DEF SpecPlaces, SpecsOfFile, SpecsOfDecl
  <2>. QED
    BY <2>1, <2>2, <2>3, CoverFinite
<1>4. ASSUME NEW p \in SpecPlaces
      PROVE  IsFiniteSet(ValuesOfSpec(p))
  <2>. DEFINE S == DOMAIN SpecAt(p).values
              g == [i \in S |-> Append(p, i)]
  <2>1. SpecAt(p).values \in Seq(Value)
    BY SpecPlaceIs, PackageTyped DEF SpecAt, DeclAt
  <2>2. IsFiniteSet(S)
    BY <2>1, IndicesFinite
  <2>3. IsFiniteSet({g[i] : i \in S})
    BY <2>2, ImageFinite
  <2>4. {g[i] : i \in S} = ValuesOfSpec(p)
    BY DEF ValuesOfSpec
  <2>. QED
    BY <2>3, <2>4
<1>. DEFINE g == [p \in SpecPlaces |-> ValuesOfSpec(p)]
<1>5. \A p \in SpecPlaces : IsFiniteSet(g[p])
  BY <1>4
<1>6. \A y \in ValuePlaces : \E p \in SpecPlaces : y \in g[p]
  BY DEF ValuePlaces, ValuesOfSpec
<1>. QED
  BY <1>3, <1>5, <1>6, CoverFinite

LEMMA ListingType ==
  ASSUME NEW S, IsFiniteSet(S), NEW list \in Listings(S)
  PROVE  /\ list \in Seq(S) /\ DOMAIN list = 1 .. Cardinality(S)
         /\ Cardinality(S) \in Nat
         /\ Len(list) = Cardinality(S)
         /\ Range(list) = S
         /\ \A i, j \in DOMAIN list : list[i] = list[j] => i = j
<1>1. Cardinality(S) \in Nat
  BY FS_CardinalityType
<1>2. list \in [1 .. Cardinality(S) -> S] /\ \A t \in S : \E i \in 1 .. Cardinality(S) : list[i] = t
  BY DEF Listings, Bijection, Surjection, Injection
<1>3. \A i, j \in DOMAIN list : list[i] = list[j] => i = j
  BY DEF Listings, Bijection, Injection, IsInjective
<1>4. list \in Seq(S) /\ Len(list) = Cardinality(S)
  BY <1>1, <1>2
<1>5. Range(list) = S
  BY <1>2 DEF Range
<1>. QED
  BY <1>1, <1>2, <1>3, <1>4, <1>5

-----------------------------------------------------------------------------
(* The steps of a run, over the package and what has been found and reported. *)
LEMMA ProgressInit ==
  ASSUME Init
  PROVE  Progress
<1>1. pkg \in Packages /\ Compiles /\ phase = "modules" /\ cur = 1 /\ mods = {} /\ injs = <<>> /\ errs = {}
  BY DEF Init
<1>2. cur \in DOMAIN pkg
  BY <1>1, PackageIs
<1>3. Running
  BY <1>1, <1>2 DEF Running, Parsing, Writing, PerFile
<1>4. Found
  BY <1>1, BeforeStep DEF Found, Parsing
<1>5. Reported
  BY <1>1, BeforeStep DEF Reported, Writing
<1>. QED
  BY <1>3, <1>4, <1>5 DEF Progress

(* Where the loop over files leads. *)
LEMMA NextFileLeads ==
  ASSUME pkg \in Packages, cur \in DOMAIN pkg, NEW then, NextFile(then)
  PROVE  \/ cur' = cur + 1 /\ cur' \in DOMAIN pkg /\ phase' = phase
         \/ cur + 1 = Last /\ cur' = 1 /\ 1 \in DOMAIN pkg /\ phase' = then
<1>1. Len(pkg) \in Nat \ {0} /\ DOMAIN pkg = 1 .. Len(pkg)
  BY PackageIs
<1>. QED
  BY <1>1 DEF NextFile, Last

LEMMA ParseModulesProgress ==
  ASSUME Progress, ParseModules
  PROVE  Progress'
<1>1. pkg \in Packages /\ Compiles /\ phase = "modules" /\ cur \in DOMAIN pkg
      /\ mods = ModulesBefore(cur) /\ errs = OptionErrors(cur) /\ injs = <<>> /\ cur \in Nat \ {0}
  BY DEF Progress, Running, Found, Reported, ParseModules, PerFile
<1>2. pkg' = pkg /\ injs' = injs /\ mods' = ModulesBefore(cur + 1) /\ errs' = OptionErrors(cur + 1)
  BY <1>1, BeforeStep DEF ParseModules, OptionsOf
<1>3. \/ cur' = cur + 1 /\ cur' \in DOMAIN pkg /\ phase' = "modules"
      \/ cur + 1 = Last /\ cur' = 1 /\ 1 \in DOMAIN pkg /\ phase' = "validate"
  BY <1>1, NextFileLeads DEF ParseModules
<1>4. Running'
  BY <1>1, <1>2, <1>3, PackageFrame DEF Running, Parsing, Writing, PerFile
<1>5. Found'
  <2>1. mods' = IF phase' = "modules" THEN ModulesBefore(cur') ELSE AllModules
    BY <1>1, <1>2, <1>3, BeforeStep
  <2>2. injs' = <<>> /\ <<>> \in Seq(AllInjectors)
    BY <1>1, <1>2
  <2>3. \A n : ModulesBefore(n)' = ModulesBefore(n)
    BY <1>2, PackageFrame
  <2>. QED
    BY <1>2, <1>3, <2>1, <2>2, <2>3, PackageFrame DEF Found, Parsing
<1>6. Reported'
  <2>1. phase' = "modules" => errs' = OptionErrors(cur')
    BY <1>2, <1>3
  <2>2. phase' = "validate" => errs' = OptionErrors(Last) \cup FileErrors(cur')
    BY <1>1, <1>2, <1>3, BeforeStep
  <2>. QED
    BY <1>2, <1>3, <2>1, <2>2, PackageFrame DEF Reported, Writing
<1>. QED
  BY <1>4, <1>5, <1>6 DEF Progress

LEMMA ValidateFileProgress ==
  ASSUME Progress, ValidateFile
  PROVE  Progress'
<1>1. pkg \in Packages /\ Compiles /\ phase = "validate" /\ cur \in DOMAIN pkg /\ cur \in Nat \ {0}
      /\ mods = AllModules /\ errs = OptionErrors(Last) \cup FileErrors(cur) /\ injs = <<>>
  BY DEF Progress, Running, Found, Reported, ValidateFile, PerFile
<1>2. pkg' = pkg /\ injs' = injs /\ mods' = mods /\ errs' = OptionErrors(Last) \cup FileErrors(cur + 1)
  BY <1>1, BeforeStep DEF ValidateFile, FileOf
<1>3. \/ cur' = cur + 1 /\ cur' \in DOMAIN pkg /\ phase' = "validate"
      \/ cur + 1 = Last /\ cur' = 1 /\ 1 \in DOMAIN pkg /\ phase' = "usages"
  BY <1>1, NextFileLeads DEF ValidateFile
<1>4. Running'
  BY <1>1, <1>2, <1>3, PackageFrame DEF Running, Parsing, Writing, PerFile
<1>5. Found'
  <2>1. injs' = <<>> /\ <<>> \in Seq(AllInjectors)
    BY <1>1, <1>2
  <2>. QED
    BY <1>1, <1>2, <1>3, <2>1, PackageFrame DEF Found, Parsing
<1>6. Reported'
  BY <1>2, <1>3, PackageFrame DEF Reported, Writing
<1>. QED
  BY <1>4, <1>5, <1>6 DEF Progress

LEMMA ValidateUsagesProgress ==
  ASSUME Progress, ValidateUsages
  PROVE  Progress'
<1>1. pkg \in Packages /\ Compiles /\ phase = "usages" /\ cur = 1
      /\ mods = AllModules /\ errs = OptionErrors(Last) \cup FileErrors(Last) /\ injs = <<>>
  BY DEF Progress, Running, Found, Reported, ValidateUsages
<1>2. pkg' = pkg /\ injs' = injs /\ mods' = mods /\ cur' = cur /\ phase' = "injectors"
      /\ errs' = OptionErrors(Last) \cup FileErrors(Last) \cup ModuleUsages
  BY <1>1 DEF ValidateUsages
<1>3. cur' \in DOMAIN pkg' /\ cur' \in Nat \ {0}
  BY <1>1, <1>2, PackageIs
<1>4. Running'
  BY <1>1, <1>2, <1>3, PackageFrame DEF Running, Parsing, Writing, PerFile
<1>5. Found'
  <2>1. injs' = <<>> /\ <<>> \in Seq(AllInjectors) /\ Range(<<>>) = {}
    BY <1>1, <1>2 DEF Range
  <2>2. InjectorsBefore(cur') = {}
    BY <1>1, <1>2, BeforeStep
  <2>. QED
    BY <1>1, <1>2, <2>1, <2>2, PackageFrame DEF Found, Parsing
<1>6. Reported'
  <2>1. InjectorErrors(cur) = {}
    BY <1>1, BeforeStep
  <2>2. errs' = OptionErrors(Last) \cup FileErrors(Last) \cup ModuleUsages \cup InjectorErrors(cur)
    BY <1>2, <2>1
  <2>. QED
    BY <1>2, <2>2, PackageFrame, ModulesFrame DEF Reported, Writing
<1>. QED
  BY <1>4, <1>5, <1>6 DEF Progress

LEMMA RangeOfConcat ==
  ASSUME NEW S, NEW s \in Seq(S), NEW T, NEW t \in Seq(T)
  PROVE  Range(s \o t) = Range(s) \cup Range(t)
<1>1. Len(s) \in Nat /\ Len(t) \in Nat /\ DOMAIN s = 1 .. Len(s) /\ DOMAIN t = 1 .. Len(t)
  OBVIOUS
<1>2. s \in Seq(S \cup T) /\ t \in Seq(S \cup T)
  OBVIOUS
<1>3. DOMAIN (s \o t) = 1 .. Len(s) + Len(t)
  BY <1>2
<1>4. \A i \in 1 .. Len(s) : (s \o t)[i] = s[i]
  BY <1>2
<1>5. \A i \in 1 .. Len(t) : Len(s) + i \in DOMAIN (s \o t) /\ (s \o t)[Len(s) + i] = t[i]
  BY <1>1, <1>2
<1>6. \A i \in 1 .. Len(s) + Len(t) : i \in 1 .. Len(s) \/ (i - Len(s) \in 1 .. Len(t) /\ i = Len(s) + (i - Len(s)))
  BY <1>1
<1>7. Range(s \o t) \subseteq Range(s) \cup Range(t)
  <2>1. ASSUME NEW i \in DOMAIN (s \o t)
        PROVE  (s \o t)[i] \in Range(s) \cup Range(t)
    BY <1>1, <1>3, <1>4, <1>5, <1>6 DEF Range
  <2>. QED
    BY <2>1 DEF Range
<1>8. Range(s) \subseteq Range(s \o t)
  <2>1. \A i \in 1 .. Len(s) : i \in DOMAIN (s \o t)
    BY <1>1, <1>3
  <2>. QED
    BY <1>1, <1>4, <2>1 DEF Range
<1>9. Range(t) \subseteq Range(s \o t)
  BY <1>1, <1>5 DEF Range
<1>. QED
  BY <1>7, <1>8, <1>9

LEMMA InjectorsFinite ==
  ASSUME pkg \in Packages, NEW f
  PROVE  IsFiniteSet(FindInjectors(f))
<1>1. FindInjectors(f) \in SUBSET ValuePlaces
  BY DEF FindInjectors
<1>. QED
  BY <1>1, ValuePlacesFinite, FS_Subset

LEMMA ParseInjectorsProgress ==
  ASSUME Progress, ParseInjectors
  PROVE  Progress'
<1>1. pkg \in Packages /\ Compiles /\ phase = "injectors" /\ cur \in DOMAIN pkg /\ cur \in Nat \ {0}
      /\ mods = AllModules /\ injs \in Seq(AllInjectors) /\ Range(injs) = InjectorsBefore(cur)
      /\ errs = OptionErrors(Last) \cup FileErrors(Last) \cup ModuleUsages \cup InjectorErrors(cur)
  BY DEF Progress, Running, Found, Reported, ParseInjectors, PerFile
<1>2. pkg' = pkg /\ mods' = mods
  BY DEF ParseInjectors
<1>3. CASE /\ \E p \in FindInjectors(cur) : Unparsable(p)
           /\ phase' = "panic" /\ UNCHANGED <<cur, injs, errs>>
  <2>1. \E p \in AllInjectors : Unparsable(p)
    BY <1>1, <1>3 DEF AllInjectors
  <2>2. Running'
    BY <1>1, <1>2, <1>3, PackageFrame DEF Running, Parsing, Writing, PerFile
  <2>3. Found'
    BY <1>1, <1>2, <1>3, PackageFrame DEF Found, Parsing
  <2>4. Reported'
    BY <1>2, <1>3, <2>1, PackageFrame DEF Reported, Writing
  <2>. QED
    BY <2>2, <2>3, <2>4 DEF Progress
<1>4. CASE /\ \E list \in Listings(FindInjectors(cur)) : Sorted(list) /\ injs' = injs \o list
           /\ errs' = errs \cup InjectorMistakes(FindInjectors(cur))
           /\ NextFile("parsed")
  <2>1. PICK list \in Listings(FindInjectors(cur)) : injs' = injs \o list
    BY <1>4
  <2>2. list \in Seq(FindInjectors(cur)) /\ Range(list) = FindInjectors(cur)
    BY <1>1, InjectorsFinite, ListingType
  <2>3. FindInjectors(cur) \subseteq AllInjectors
    BY <1>1 DEF AllInjectors
  <2>4. list \in Seq(AllInjectors)
    BY <2>2, <2>3
  <2>5. injs' \in Seq(AllInjectors)
    BY <1>1, <2>1, <2>4
  <2>6. Range(injs') = InjectorsBefore(cur + 1)
    <3>1. Range(injs') = Range(injs) \cup Range(list)
      BY <1>1, <2>1, <2>4, RangeOfConcat
    <3>. QED
      BY <1>1, <2>2, <3>1, BeforeStep
  <2>7. errs' = OptionErrors(Last) \cup FileErrors(Last) \cup ModuleUsages \cup InjectorErrors(cur + 1)
    BY <1>1, <1>4, BeforeStep
  <2>8. \/ cur' = cur + 1 /\ cur' \in DOMAIN pkg /\ phase' = "injectors"
        \/ cur + 1 = Last /\ cur' = 1 /\ 1 \in DOMAIN pkg /\ phase' = "parsed"
    BY <1>1, <1>4, NextFileLeads
  <2>9. Running'
    BY <1>1, <1>2, <2>8, PackageFrame DEF Running, Parsing, Writing, PerFile
  <2>10. Found'
    <3>1. phase' = "injectors" => Range(injs') = InjectorsBefore(cur')
      BY <1>2, <2>6, <2>8, PackageFrame
    <3>2. phase' = "parsed" => Range(injs') = AllInjectors
      BY <1>1, <2>6, <2>8, BeforeStep
    <3>. QED
      BY <1>1, <1>2, <2>5, <2>8, <3>1, <3>2, PackageFrame DEF Found, Parsing
  <2>11. Reported'
    <3>1. phase' = "injectors" =>
            errs' = OptionErrors(Last) \cup FileErrors(Last) \cup ModuleUsages \cup InjectorErrors(cur')
      BY <2>7, <2>8
    <3>2. phase' = "parsed" => errs' = EarlyErrors
      BY <2>7, <2>8 DEF EarlyErrors
    <3>. QED
      BY <1>2, <2>8, <3>1, <3>2, PackageFrame, ModulesFrame DEF Reported, Writing
  <2>. QED
    BY <2>9, <2>10, <2>11 DEF Progress
<1>. QED
  BY <1>3, <1>4 DEF ParseInjectors

LEMMA ParsedProgress ==
  ASSUME Progress, Parsed
  PROVE  Progress'
<1>1. pkg \in Packages /\ Compiles /\ phase = "parsed" /\ cur = 1 /\ mods = AllModules
      /\ injs \in Seq(AllInjectors) /\ Range(injs) = AllInjectors /\ errs = EarlyErrors
  BY DEF Progress, Running, Found, Reported, Parsed, Parsing
<1>2. pkg' = pkg /\ mods' = mods /\ injs' = injs /\ cur' = cur /\ errs' = errs
  BY DEF Parsed
<1>3. \/ phase' = "failed" /\ EarlyErrors # {}
      \/ phase' = "explicit" /\ EarlyErrors = {} /\ injs = <<>>
      \/ phase' = "build" /\ EarlyErrors = {} /\ injs # <<>>
  BY <1>1 DEF Parsed
<1>4. injs # <<>> => 1 \in DOMAIN injs
  BY <1>1
<1>5. Running'
  BY <1>1, <1>2, <1>3, <1>4, PackageFrame DEF Running, Parsing, Writing, PerFile
<1>6. Found'
  BY <1>1, <1>2, <1>3, PackageFrame DEF Found, Parsing
<1>7. Reported'
  <2>1. phase' = "explicit" => Unbuildable = {}
    BY <1>1, <1>3 DEF Unbuildable, Range
  <2>2. BuildErrors(1) = {}
    <3>1. \A l \in DOMAIN injs : ~(l < 1)
      BY <1>1
    <3>. QED
      BY <3>1 DEF BuildErrors, Fail
  <2>3. BuildErrors(cur)' = BuildErrors(1)
    BY <1>1, <1>2, PlacesFrame DEF BuildErrors, Fail
  <2>. QED
    BY <1>1, <1>2, <1>3, <2>1, <2>2, <2>3, PackageFrame, ModulesFrame DEF Reported, Writing
<1>. QED
  BY <1>5, <1>6, <1>7 DEF Progress

(* The converters that could not be built among the first ones. *)
LEMMA BuildErrorsStep ==
  ASSUME NEW S, injs \in Seq(S), cur \in DOMAIN injs
  PROVE  BuildErrors(cur + 1) = BuildErrors(cur) \cup
           (IF ValueAt(injs[cur]).fault = "build" THEN Fail("build", {injs[cur]}) ELSE {})
<1>. DEFINE Faulty(n) == {l \in DOMAIN injs : l < n /\ ValueAt(injs[l]).fault = "build"}
<1>1. \A l \in DOMAIN injs : l < cur + 1 <=> l < cur \/ l = cur
  OBVIOUS
<1>2. CASE ValueAt(injs[cur]).fault = "build"
  <2>1. Faulty(cur + 1) = Faulty(cur) \cup {cur}
    BY <1>1, <1>2
  <2>. QED
    BY <1>2, <2>1 DEF BuildErrors, Fail
<1>3. CASE ValueAt(injs[cur]).fault # "build"
  <2>1. Faulty(cur + 1) = Faulty(cur)
    BY <1>1, <1>3
  <2>. QED
    BY <1>3, <2>1 DEF BuildErrors, Fail
<1>. QED
  BY <1>2, <1>3

LEMMA BuildErrorsAll ==
  ASSUME NEW S, injs \in Seq(S), Range(injs) = AllInjectors
  PROVE  BuildErrors(Len(injs) + 1) = Fail("build", Unbuildable)
<1>1. \A l \in DOMAIN injs : l < Len(injs) + 1
  OBVIOUS
<1>2. {injs[k] : k \in {l \in DOMAIN injs : l < Len(injs) + 1 /\ ValueAt(injs[l]).fault = "build"}} = Unbuildable
  BY <1>1 DEF Unbuildable, Range
<1>. QED
  BY <1>2 DEF BuildErrors

LEMMA BuildConvProgress ==
  ASSUME Progress, BuildConv
  PROVE  Progress'
<1>1. pkg \in Packages /\ Compiles /\ phase = "build" /\ cur \in DOMAIN injs /\ cur \in Nat \ {0}
      /\ mods = AllModules /\ injs \in Seq(AllInjectors) /\ Range(injs) = AllInjectors
      /\ EarlyErrors = {} /\ errs = BuildErrors(cur)
  BY DEF Progress, Running, Found, Reported, BuildConv, Parsing
<1>2. pkg' = pkg /\ mods' = mods /\ injs' = injs
  BY DEF BuildConv
<1>3. errs' = BuildErrors(cur + 1)
  BY <1>1, BuildErrorsStep DEF BuildConv
<1>4. \/ cur' = cur + 1 /\ cur' \in DOMAIN injs /\ phase' = "build"
      \/ cur = Len(injs) /\ cur' = 1 /\ phase' = (IF errs' # {} THEN "failed" ELSE "explicit")
  BY <1>1 DEF BuildConv
<1>5. Running'
  BY <1>1, <1>2, <1>4, PackageFrame DEF Running, Parsing, Writing, PerFile
<1>6. Found'
  BY <1>1, <1>2, <1>4, PackageFrame DEF Found, Parsing
<1>7. Reported'
  <2>1. \A n : BuildErrors(n)' = BuildErrors(n)
    BY <1>2, PlacesFrame DEF BuildErrors, Fail
  <2>2. phase' = "build" => errs' = BuildErrors(cur')
    BY <1>3, <1>4
  <2>3. phase' # "build" => errs' = Fail("build", Unbuildable)
    BY <1>1, <1>3, <1>4, BuildErrorsAll
  <2>4. Fail("build", Unbuildable) = {} <=> Unbuildable = {}
    BY DEF Fail
  <2>. QED
    BY <1>1, <1>2, <1>4, <2>1, <2>2, <2>3, <2>4, PackageFrame, ModulesFrame DEF Reported, Writing
<1>. QED
  BY <1>5, <1>6, <1>7 DEF Progress

(* Writing finds and reports nothing. *)
LEMMA WritingProgress ==
  ASSUME Progress, WriteExplicit \/ WriteImplicit \/ MergeFile
  PROVE  Progress'
<1>1. pkg \in Packages /\ Compiles /\ phase \in Writing /\ cur \in Nat \ {0}
      /\ mods = AllModules /\ injs \in Seq(AllInjectors) /\ Range(injs) = AllInjectors
      /\ EarlyErrors = {} /\ Unbuildable = {} /\ errs = {}
      /\ (phase = "merge" => cur \in DOMAIN pkg)
  BY DEF Progress, Running, Found, Reported, WriteExplicit, WriteImplicit, MergeFile, Parsing, Writing, PerFile
<1>2. pkg' = pkg /\ mods' = mods /\ injs' = injs /\ errs' = errs
  BY DEF WriteExplicit, WriteImplicit, MergeFile
<1>3. /\ phase' \in Writing /\ cur' \in Nat \ {0}
      /\ phase' = "merge" => cur' \in DOMAIN pkg
      /\ phase' \in {"explicit", "implicit"} => cur' = 1
  <2>1. CASE WriteExplicit
    BY <1>1, <2>1 DEF WriteExplicit, Writing, Progress, Running
  <2>2. CASE WriteImplicit
    <3>1. cur = 1 /\ cur' = cur /\ phase' = "merge"
      BY <2>2 DEF WriteImplicit, Progress, Running
    <3>. QED
      BY <1>1, <3>1, PackageIs DEF Writing
  <2>3. CASE MergeFile
    <3>1. phase = "merge" /\ NextFile("done")
      BY <2>3 DEF MergeFile
    <3>2. \/ cur' = cur + 1 /\ cur' \in DOMAIN pkg /\ phase' = "merge"
          \/ cur' = 1 /\ phase' = "done"
      BY <1>1, <3>1, NextFileLeads
    <3>. QED
      BY <1>1, <3>2 DEF Writing
  <2>. QED
    BY <2>1, <2>2, <2>3
<1>4. Running'
  BY <1>1, <1>2, <1>3, PackageFrame DEF Running, Parsing, Writing, PerFile
<1>5. Found'
  BY <1>1, <1>2, <1>3, PackageFrame DEF Found, Parsing, Writing
<1>6. Reported'
  BY <1>1, <1>2, <1>3, PackageFrame, ModulesFrame DEF Reported, Writing
<1>. QED
  BY <1>4, <1>5, <1>6 DEF Progress

LEMMA ProgressStutters ==
  ASSUME Progress, UNCHANGED vars
  PROVE  Progress'
<1>1. pkg' = pkg /\ mods' = mods /\ injs' = injs /\ errs' = errs /\ cur' = cur /\ phase' = phase
  BY DEF vars
<1>2. Running'
  BY <1>1, PackageFrame DEF Progress, Running
<1>3. Found'
  BY <1>1, PackageFrame DEF Progress, Found
<1>4. \A n : BuildErrors(n)' = BuildErrors(n)
  BY <1>1, PlacesFrame DEF BuildErrors, Fail
<1>5. Reported'
  BY <1>1, <1>4, PackageFrame, ModulesFrame DEF Progress, Reported
<1>. QED
  BY <1>2, <1>3, <1>5 DEF Progress

LEMMA ProgressStep ==
  ASSUME Progress, [Next]_vars
  PROVE  Progress'
<1>1. CASE ParseModules
  BY <1>1, ParseModulesProgress
<1>2. CASE ValidateFile
  BY <1>2, ValidateFileProgress
<1>3. CASE ValidateUsages
  BY <1>3, ValidateUsagesProgress
<1>4. CASE ParseInjectors
  BY <1>4, ParseInjectorsProgress
<1>5. CASE Parsed
  BY <1>5, ParsedProgress
<1>6. CASE BuildConv
  BY <1>6, BuildConvProgress
<1>7. CASE WriteExplicit \/ WriteImplicit \/ MergeFile
  BY <1>7, WritingProgress
<1>8. CASE Done \/ UNCHANGED vars
  BY <1>8, ProgressStutters DEF Done
<1>. QED
  BY <1>1, <1>2, <1>3, <1>4, <1>5, <1>6, <1>7, <1>8 DEF Next

(* What a run has found and reported at each step is what there is in the    *)
(* files that it has come to so far (convgen.go:61-112).                     *)
THEOREM RunsProgress == Spec => []Progress
<1>1. Init => Progress
  BY ProgressInit
<1>2. Progress /\ [Next]_vars => Progress'
  BY ProgressStep
<1>. QED
  BY <1>1, <1>2, PTL DEF Spec

-----------------------------------------------------------------------------
(* The errors of a package, and the places where it is wrong. *)
Places(E) == {PlaceOf(e) : e \in E}

LEMMA PlacesOfFail ==
  /\ \A P : Places(Fail("options", P)) = P /\ Places(Fail("constraint", P)) = P
            /\ Places(Fail("assigned", P)) = P /\ Places(Fail("blank", P)) = P
            /\ Places(Fail("module", P)) = P /\ Places(Fail("build", P)) = P
  /\ \A P : Places(Fail("exported", P)) = {p[1] : p \in P} /\ Places(Fail("outside", P)) = {p[1] : p \in P}
  /\ \A E, F : Places(E \cup F) = Places(E) \cup Places(F)
<1>1. ASSUME NEW what \in {"options", "constraint", "assigned", "blank", "module", "build"}, NEW P
      PROVE  Places(Fail(what, P)) = P
  <2>1. \A p \in P : PlaceOf([what |-> what, at |-> p]) = p
    BY DEF PlaceOf
  <2>. QED
    BY <2>1 DEF Places, Fail
<1>2. ASSUME NEW what \in {"exported", "outside"}, NEW P
      PROVE  Places(Fail(what, P)) = {p[1] : p \in P}
  <2>1. \A p \in P : PlaceOf([what |-> what, at |-> p]) = p[1]
    BY DEF PlaceOf
  <2>. QED
    BY <2>1 DEF Places, Fail
<1>3. \A E, F : Places(E \cup F) = Places(E) \cup Places(F)
  BY DEF Places
<1>. QED
  BY <1>1, <1>2, <1>3

LEMMA PlacesOfBoth ==
  ASSUME NEW E, NEW F, NEW G, G = E \cup F
  PROVE  Places(G) = Places(E) \cup Places(F)
  BY DEF Places

(* A name declared at package level refers to where it is declared. *)
LEMMA OwnObject ==
  ASSUME pkg \in Packages, Compiles, NEW p \in VarPlaces, NameAt(p) # Blank
  PROVE  ObjectOf(DeclAt(p), NameAt(p)) = {p}
<1>1. Locals(DeclAt(p)) = {}
  BY DEF VarPlaces, Local, Locals
<1>. QED
  BY <1>1 DEF ObjectOf, Compiles

LEMMA ModulesAreVars ==
  ASSUME pkg \in Packages, NEW p \in AllModules
  PROVE  p \in VarPlaces /\ p \in NamePlaces /\ p \in ValuePlaces /\ ~Local(p) /\ Tagged(p)
         /\ ValueAt(p).call = "Module"
<1>1. p \in ValuePlaces /\ ~Local(p) /\ Tagged(p) /\ p[4] \in DOMAIN SpecAt(p).names
      /\ ValueAt(p).call = "Module"
  BY DEF AllModules, FindModules
<1>. QED
  BY <1>1, PlaceIs DEF VarPlaces

LEMMA UsagePlaces ==
  ASSUME NEW U
  PROVE  Places(UsageMistakes(U)) = {o.at : o \in {u \in U : u.name \in Exported \/ ~u.declares}}
<1>. DEFINE A == {<<o.at, o.name>> : o \in {u \in U : u.name \in Exported}}
            B == {<<o.at, o.name>> : o \in {u \in U : u.name \notin Exported /\ ~u.declares}}
<1>1. UsageMistakes(U) = Fail("exported", A) \cup Fail("outside", B)
  BY DEF UsageMistakes
<1>0. ASSUME NEW V
      PROVE  {p[1] : p \in {<<o.at, o.name>> : o \in V}} = {o.at : o \in V}
  <2>. DEFINE pair(o) == <<o.at, o.name>>
  <2>1. \A o : pair(o)[1] = o.at
    OBVIOUS
  <2>. HIDE DEF pair
  <2>2. {p[1] : p \in {pair(o) : o \in V}} = {o.at : o \in V}
    BY <2>1
  <2>. QED
    BY <2>2 DEF pair
<1>2. {p[1] : p \in A} = {o.at : o \in {u \in U : u.name \in Exported}}
  BY <1>0
<1>3. {p[1] : p \in B} = {o.at : o \in {u \in U : u.name \notin Exported /\ ~u.declares}}
  BY <1>0
<1>. HIDE DEF A, B
<1>4. Places(UsageMistakes(U)) = Places(Fail("exported", A)) \cup Places(Fail("outside", B))
  BY <1>1, PlacesOfFail
<1>5. Places(Fail("exported", A)) = {p[1] : p \in A} /\ Places(Fail("outside", B)) = {p[1] : p \in B}
  BY PlacesOfFail
<1>. QED
  BY <1>2, <1>3, <1>4, <1>5

(* The mentions of modules that the validation objects to. *)
Misused == {o \in Occurrences : Meant(DeclAt(o.at), o.name)}

LEMMA MisusedPlaces ==
  ASSUME pkg \in Packages, Compiles
  PROVE  {o.at : o \in {u \in Misused : u.name \in Exported \/ ~u.declares}} =
           MisusedModules \cup {p \in AllModules : NameAt(p) \in Exported}
<1>. DEFINE L == {o.at : o \in {u \in Misused : u.name \in Exported \/ ~u.declares}}
            Mention(n, p) == [name |-> n, at |-> p, declares |-> FALSE]
            Mentioned(p) == ValueAt(p).uses \cup (IF p \in BlankValues THEN {} ELSE {ValueAt(p).lead})
<1>1. /\ \A o \in Occurrences :
           \/ \E p \in NamePlaces : o = [name |-> NameAt(p), at |-> p, declares |-> ~Local(p)]
           \/ \E p \in ValuePlaces : ValueAt(p).call = "none" /\ \E n \in Mentioned(p) : o = Mention(n, p)
      /\ \A p \in NamePlaces : [name |-> NameAt(p), at |-> p, declares |-> ~Local(p)] \in Occurrences
      /\ \A p \in ValuePlaces : ValueAt(p).call = "none" => \A n \in Mentioned(p) : Mention(n, p) \in Occurrences
  <2>. DEFINE Own(p) == [name |-> NameAt(p), at |-> p, declares |-> ~Local(p)]
              Uttered(p) == {Mention(n, p) : n \in Mentioned(p)}
              Plain == {q \in ValuePlaces : ValueAt(q).call = "none"}
  <2>1. Occurrences = {Own(p) : p \in NamePlaces} \cup UNION {Uttered(p) : p \in Plain}
    BY DEF Occurrences
  <2>2. \A o \in UNION {Uttered(p) : p \in Plain} : \E p \in Plain : \E n \in Mentioned(p) : o = Mention(n, p)
    <3>. HIDE DEF Mention, Mentioned, Plain
    <3>. QED
      OBVIOUS
  <2>3. \A p \in Plain : \A n \in Mentioned(p) : Mention(n, p) \in UNION {Uttered(q) : q \in Plain}
    <3>. HIDE DEF Mention, Mentioned, Plain
    <3>. QED
      OBVIOUS
  <2>. HIDE DEF Mention, Mentioned, Uttered
  <2>. QED
    BY <2>1, <2>2, <2>3
<1>2. ASSUME NEW p \in NamePlaces, Meant(DeclAt(p), NameAt(p)), ~Local(p)
      PROVE  p \in AllModules
  <2>1. p \in VarPlaces /\ NameAt(p) # Blank
    BY <1>2 DEF VarPlaces, Meant, ObjectOf
  <2>2. ObjectOf(DeclAt(p), NameAt(p)) = {p}
    BY <2>1, OwnObject
  <2>. QED
    BY <1>2, <2>2 DEF Meant
<1>3. ASSUME NEW p \in AllModules, NameAt(p) \in Exported
      PROVE  p \in NamePlaces /\ Meant(DeclAt(p), NameAt(p)) /\ ~Local(p)
  <2>1. NameAt(p) # Blank
    BY <1>3, NamesAssumption
  <2>2. ObjectOf(DeclAt(p), NameAt(p)) = {p}
    BY <2>1, ModulesAreVars, OwnObject
  <2>. QED
    BY <2>2, ModulesAreVars DEF Meant
<1>4. ASSUME NEW o \in Misused, o.name \in Exported \/ ~o.declares
      PROVE  o.at \in MisusedModules \cup {p \in AllModules : NameAt(p) \in Exported}
  <2>1. o \in Occurrences /\ Meant(DeclAt(o.at), o.name)
    BY DEF Misused
  <2>2. CASE \E p \in NamePlaces : o = [name |-> NameAt(p), at |-> p, declares |-> ~Local(p)]
    <3>1. PICK p \in NamePlaces : o = [name |-> NameAt(p), at |-> p, declares |-> ~Local(p)]
      BY <2>2
    <3>2. o.name = NameAt(p) /\ o.at = p /\ o.declares = ~Local(p)
      BY <3>1
    <3>3. CASE Local(p)
      BY <2>1, <3>2, <3>3 DEF MisusedModules
    <3>4. CASE ~Local(p)
      BY <1>2, <1>4, <2>1, <3>2, <3>4
    <3>. QED
      BY <3>3, <3>4
  <2>3. CASE \E p \in ValuePlaces : ValueAt(p).call = "none" /\ \E n \in Mentioned(p) : o = Mention(n, p)
    <3>1. PICK p \in ValuePlaces : ValueAt(p).call = "none" /\ \E n \in Mentioned(p) : o = Mention(n, p)
      BY <2>3
    <3>2. PICK n \in Mentioned(p) : o = Mention(n, p)
      BY <3>1
    <3>3. o.name = n /\ o.at = p
      BY <3>2
    <3>4. n \in ValueAt(p).uses \/ (p \notin BlankValues /\ n = ValueAt(p).lead)
      OBVIOUS
    <3>. QED
      BY <2>1, <3>1, <3>3, <3>4 DEF MisusedModules
  <2>. QED
    BY <1>1, <2>1, <2>2, <2>3
<1>5. ASSUME NEW p \in MisusedModules
      PROVE  p \in L
  <2>1. CASE p \in NamePlaces /\ Local(p) /\ Meant(DeclAt(p), NameAt(p))
    <3>. DEFINE o == [name |-> NameAt(p), at |-> p, declares |-> ~Local(p)]
    <3>1. o \in Occurrences
      BY <1>1, <2>1
    <3>2. o \in Misused /\ ~o.declares /\ o.at = p
      BY <2>1, <3>1 DEF Misused
    <3>. QED
      BY <3>2
  <2>2. CASE p \in ValuePlaces /\ ValueAt(p).call = "none" /\ \E n \in Mentioned(p) : Meant(DeclAt(p), n)
    <3>1. PICK n \in Mentioned(p) : Meant(DeclAt(p), n)
      BY <2>2
    <3>2. Mention(n, p) \in Occurrences
      BY <1>1, <2>2
    <3>3. Mention(n, p) \in Misused /\ ~Mention(n, p).declares /\ Mention(n, p).at = p
      BY <3>1, <3>2 DEF Misused
    <3>. QED
      BY <3>3
  <2>. QED
    BY <2>1, <2>2 DEF MisusedModules
<1>6. ASSUME NEW p \in AllModules, NameAt(p) \in Exported
      PROVE  p \in L
  <2>. DEFINE o == [name |-> NameAt(p), at |-> p, declares |-> ~Local(p)]
  <2>1. o \in Occurrences
    BY <1>1, <1>3, <1>6
  <2>2. o \in Misused /\ o.name \in Exported /\ o.at = p
    BY <1>3, <1>6, <2>1 DEF Misused
  <2>. QED
    BY <2>2
<1>. QED
  BY <1>4, <1>5, <1>6

LEMMA EarlyPlaces ==
  ASSUME pkg \in Packages, Compiles, mods = AllModules
  PROVE  Places(EarlyErrors) = Mistakes
<1>1. Places(OptionErrors(Last)) = {p \in AllModules : ValueAt(p).fault = "options"}
  <2>1. OptionErrors(Last) = Fail("options", {p \in AllModules : ValueAt(p).fault = "options"})
    BY FilesStep DEF OptionErrors, OptionsOf, Fail, AllModules
  <2>. QED
    BY <2>1, PlacesOfFail
<1>2. Places(FileErrors(Last)) = Imported \cup WrongOptions
  <2>1. FileErrors(Last) = Fail("constraint", Imported) \cup Fail("assigned", WrongOptions)
    <3>1. \A p \in ValuePlaces : p[1] \in DOMAIN pkg
      BY PlaceIs, SpecPlaceIs
    <3>2. (UNION {ConstraintMistakes(f) : f \in DOMAIN pkg}) = Fail("constraint", Imported)
      BY DEF ConstraintMistakes, Imported, Fail
    <3>3. (UNION {AssignedDirectives(f) : f \in DOMAIN pkg}) = Fail("assigned", WrongOptions)
      BY <3>1 DEF AssignedDirectives, WrongOptions, Fail
    <3>4. FileErrors(Last) = (UNION {ConstraintMistakes(f) : f \in DOMAIN pkg})
                             \cup (UNION {AssignedDirectives(f) : f \in DOMAIN pkg})
      BY FilesStep DEF FileErrors, FileOf
    <3>. QED
      BY <3>2, <3>3, <3>4
  <2>2. Places(Fail("constraint", Imported)) = Imported
    BY PlacesOfFail
  <2>4. Places(Fail("assigned", WrongOptions)) = WrongOptions
    BY PlacesOfFail
  <2>3. Places(FileErrors(Last)) = Places(Fail("constraint", Imported)) \cup Places(Fail("assigned", WrongOptions))
    BY <2>1, PlacesOfBoth
  <2>. QED
    BY <2>2, <2>3, <2>4
<1>3. Places(InjectorErrors(Last)) = WrongInjectors
  <2>1. InjectorErrors(Last) = InjectorMistakes(AllInjectors)
    BY FilesStep DEF InjectorErrors, InjectorMistakes, Fail, AllInjectors
  <2>2. \A p : ModuleFound(p) <=> ValueAt(p).arg \in {"nil", "inline"} \/ Meant(DeclAt(p), ValueAt(p).arg)
    BY DEF ModuleFound, IsModule, Meant
  <2>3. Places(InjectorMistakes(AllInjectors)) =
          {p \in AllInjectors : NameAt(p) = Blank}
          \cup {p \in AllInjectors : NameAt(p) # Blank /\ ~ModuleFound(p)}
          \cup {p \in AllInjectors : NameAt(p) # Blank /\ ModuleFound(p) /\ ValueAt(p).fault = "options"}
    <3>. DEFINE A == {p \in AllInjectors : NameAt(p) = Blank}
                B == {p \in AllInjectors : NameAt(p) # Blank /\ ~ModuleFound(p)}
                C == {p \in AllInjectors : NameAt(p) # Blank /\ ModuleFound(p) /\ ValueAt(p).fault = "options"}
    <3>1. InjectorMistakes(AllInjectors) = Fail("blank", A) \cup Fail("module", B) \cup Fail("options", C)
      BY DEF InjectorMistakes
    <3>. HIDE DEF A, B, C
    <3>2. Places(Fail("blank", A)) = A
      BY PlacesOfFail
    <3>6. Places(Fail("module", B)) = B
      BY PlacesOfFail
    <3>7. Places(Fail("options", C)) = C
      BY PlacesOfFail
    <3>3. Places(Fail("blank", A) \cup Fail("module", B)) = Places(Fail("blank", A)) \cup Places(Fail("module", B))
      BY PlacesOfBoth
    <3>4. Places(InjectorMistakes(AllInjectors)) =
            Places(Fail("blank", A) \cup Fail("module", B)) \cup Places(Fail("options", C))
      BY <3>1, PlacesOfBoth
    <3>5. Places(InjectorMistakes(AllInjectors)) = (A \cup B) \cup C
      BY <3>2, <3>3, <3>4, <3>6, <3>7
    <3>. QED
      BY <3>5 DEF A, B, C
  <2>. QED
    BY <2>1, <2>2, <2>3 DEF WrongInjectors
<1>4. Places(ModuleUsages) = {o.at : o \in {u \in Misused : u.name \in Exported \/ ~u.declares}}
  <2>1. ModuleUsages = UsageMistakes(Misused)
    BY DEF ModuleUsages, IsModule, Meant, Misused
  <2>. QED
    BY <2>1, UsagePlaces
<1>5. {o.at : o \in {u \in Misused : u.name \in Exported \/ ~u.declares}} =
        MisusedModules \cup {p \in AllModules : NameAt(p) \in Exported}
  BY MisusedPlaces
<1>6. Places(OptionErrors(Last) \cup FileErrors(Last)) =
        Places(OptionErrors(Last)) \cup Places(FileErrors(Last))
  BY PlacesOfFail
<1>7. Places(OptionErrors(Last) \cup FileErrors(Last) \cup ModuleUsages) =
        Places(OptionErrors(Last)) \cup Places(FileErrors(Last)) \cup Places(ModuleUsages)
  BY <1>6, PlacesOfFail
<1>8. Places(EarlyErrors) = Places(OptionErrors(Last)) \cup Places(FileErrors(Last))
        \cup Places(ModuleUsages) \cup Places(InjectorErrors(Last))
  BY <1>7, PlacesOfFail DEF EarlyErrors
<1>9. WrongModules = {p \in AllModules : ValueAt(p).fault = "options"}
                     \cup {p \in AllModules : NameAt(p) \in Exported}
  BY DEF WrongModules
<1>. QED
  BY <1>1, <1>2, <1>3, <1>4, <1>5, <1>8, <1>9 DEF Mistakes

LEMMA ProgressReports ==
  ASSUME Progress
  PROVE  MistakesAreReported
<1>1. pkg \in Packages /\ Compiles
  BY DEF Progress, Running
<1>2. phase # "modules" => mods = AllModules
  BY DEF Progress, Found
<1>3. phase # "modules" => Places(EarlyErrors) = Mistakes
  BY <1>1, <1>2, EarlyPlaces
<1>4. \A E : Places(E) = {} <=> E = {}
  BY DEF Places
<1>5. phase = "failed" => Places(errs) = IF Mistakes # {} THEN Mistakes ELSE Unbuildable
  <2>1. ASSUME EarlyErrors # {}, errs = EarlyErrors, phase = "failed"
        PROVE  Places(errs) = IF Mistakes # {} THEN Mistakes ELSE Unbuildable
    BY <1>3, <1>4, <2>1
  <2>2. ASSUME EarlyErrors = {}, Unbuildable # {}, errs = Fail("build", Unbuildable), phase = "failed"
        PROVE  Places(errs) = IF Mistakes # {} THEN Mistakes ELSE Unbuildable
    BY <1>3, <1>4, <2>2, PlacesOfFail
  <2>. QED
    BY <2>1, <2>2 DEF Progress, Reported
<1>6. phase = "done" => errs = {} /\ Mistakes = {} /\ Unbuildable = {}
  BY <1>3, <1>4 DEF Progress, Reported, Writing
<1>. QED
  BY <1>5, <1>6 DEF MistakesAreReported, Places, Progress, Reported

(* Whatever the package, Build fails with an error for each wrong place and  *)
(* for no other, and with none it builds every converter: no mistake hides   *)
(* another or is made up (convgen.go:61-112).                                *)
THEOREM MistakesAlwaysReported == Spec => []MistakesAreReported
<1>1. Progress => MistakesAreReported
  BY ProgressReports
<1>. QED
  BY <1>1, RunsProgress, PTL

-----------------------------------------------------------------------------
(* What is built and written.  The items of the output come from converters, *)
(* their modules and the declarations of the files that are merged.          *)
Subscribers == {q \in convs : ValueAt(q).subs}

FuncItems     == {[op |-> "func", at |-> p] : p \in convs}
ImplicitItems == {[op |-> "implicit", module |-> ModuleOf(p)] : p \in Subscribers}

Merged(f, d) == [op |-> "decl", file |-> f, from |-> d, decl |-> EraseDirectives(f, d)]

WholeDecls(f) ==
  {d \in DOMAIN pkg[f].decls :
     pkg[f].tagged /\ (EraseDirectives(f, d).func # NoName \/ EraseDirectives(f, d).specs # <<>>)}

ItemsOf(f)   == {Merged(f, d) : d \in WholeDecls(f)}
DeclItems(n) == UNION {ItemsOf(f) : f \in Files(n)}

Converted ==
  /\ phase \in Parsing \cup {"parsed"} => convs = {}
  /\ phase = "build" =>
       convs = {injs[k] : k \in {l \in DOMAIN injs : l < cur /\ ValueAt(injs[l]).fault # "build"}}
  /\ phase \in Writing => convs = AllInjectors

Items == FuncItems \cup ImplicitItems \cup DeclItems(Last)

Emitted ==
  /\ phase \notin Writing \/ phase = "explicit" => out = <<>>
  /\ phase = "implicit" => Range(out) = FuncItems
  /\ phase = "merge" => Range(out) = FuncItems \cup ImplicitItems \cup DeclItems(cur)
  /\ phase = "done" => Range(out) = Items
  /\ out \in Seq(Items)
  /\ \A i, j \in DOMAIN out : out[i] = out[j] => i = j
  /\ ~Unordered => \A i, j \in DOMAIN out : i < j => InOrder(out[i], out[j])

Output == Converted /\ Emitted

LEMMA EraseFrame ==
  ASSUME pkg' = pkg, mods' = mods, convs' = convs
  PROVE  /\ \A p : Erased(p)' = Erased(p) /\ KeptName(p)' = KeptName(p)
         /\ \A f, d : EraseDirectives(f, d)' = EraseDirectives(f, d)
<1>1. \A p : Erased(p)' = Erased(p) /\ KeptName(p)' = KeptName(p)
  BY PlacesFrame DEF Erased, KeptName
<1>2. \A p, S : Kept(p, S)' = Kept(p, S)
  BY <1>1 DEF Kept
<1>3. \A p : KeptNames(p)' = KeptNames(p)
  BY PlacesFrame, <1>1, <1>2 DEF KeptNames
<1>4. \A p : EraseSpec(p)' = EraseSpec(p)
  BY PlacesFrame, <1>2, <1>3 DEF EraseSpec
<1>5. \A decl, name : IsModule(decl, name)' = IsModule(decl, name)
  BY PlacesFrame DEF IsModule
<1>6. \A decl, n : GarbleName(decl, n)' = GarbleName(decl, n)
  BY <1>5 DEF GarbleName
<1>7. \A decl, v : GarbleValue(decl, v)' = GarbleValue(decl, v)
  BY <1>6 DEF GarbleValue
<1>8. \A decl, spec : GarbleSpec(decl, spec)' = GarbleSpec(decl, spec)
  BY <1>6, <1>7 DEF GarbleSpec
<1>9. \A f, d : ErasedSpecs(f, d)' = ErasedSpecs(f, d)
  BY PlacesFrame, <1>4 DEF ErasedSpecs
<1>10. \A f, d : EraseDirectives(f, d)' = EraseDirectives(f, d)
  BY <1>8, <1>9 DEF EraseDirectives
<1>. QED
  BY <1>1, <1>10

LEMMA ItemsFrame ==
  ASSUME pkg' = pkg, mods' = mods, convs' = convs
  PROVE  /\ FuncItems' = FuncItems /\ ImplicitItems' = ImplicitItems /\ Items' = Items
         /\ \A n : DeclItems(n)' = DeclItems(n)
         /\ Unordered' = Unordered /\ AllInjectors' = AllInjectors
<1>1. FuncItems' = FuncItems
  BY DEF FuncItems
<1>2. \A p : ModuleOf(p)' = ModuleOf(p)
  BY PlacesFrame DEF ModuleOf
<1>3. ImplicitItems' = ImplicitItems
  BY PlacesFrame, <1>2 DEF ImplicitItems, Subscribers
<1>4. \A f : ItemsOf(f)' = ItemsOf(f)
  BY PlacesFrame, EraseFrame DEF ItemsOf, Merged, WholeDecls
<1>5. \A n : DeclItems(n)' = DeclItems(n)
  BY <1>4, PlacesFrame DEF DeclItems
<1>6. Items' = Items
  BY <1>1, <1>3, <1>5, PlacesFrame DEF Items
<1>7. Unordered' = Unordered
  <2>1. (\E p, q \in convs : p[1] # q[1])' = \E p, q \in convs : p[1] # q[1]
    OBVIOUS
  <2>. DEFINE Free(p, q) == /\ p # q /\ ValueAt(p).subs /\ ValueAt(q).subs
                           /\ ModuleOf(p).name = "" /\ ModuleOf(q).name = ""
  <2>2. \A p, q : Free(p, q)' <=> Free(p, q)
    BY <1>2, PlacesFrame
  <2>3. (\E p, q \in convs : Free(p, q))' <=> \E p, q \in convs : Free(p, q)
    BY <2>2
  <2>. QED
    BY <2>1, <2>3 DEF Unordered
<1>. QED
  BY <1>1, <1>3, <1>5, <1>6, <1>7, PackageFrame

(* Until the writing begins. *)
LEMMA EarlyOutput ==
  ASSUME Progress, Output, ParseModules \/ ValidateFile \/ ValidateUsages \/ ParseInjectors \/ Parsed
  PROVE  Output'
<1>1. out = <<>> /\ out' = <<>> /\ convs = {} /\ convs' = {} /\ pkg' = pkg
  BY DEF Output, Converted, Emitted, Parsing, Writing,
         ParseModules, ValidateFile, ValidateUsages, ParseInjectors, Parsed
<1>2. /\ phase' \in Parsing \cup {"parsed", "build", "explicit", "failed", "panic"}
      /\ phase' = "explicit" => injs = <<>> /\ phase = "parsed"
      /\ phase' = "build" => phase = "parsed"
  <2>1. CASE ParseModules \/ ValidateFile
    BY <2>1 DEF ParseModules, ValidateFile, NextFile, Parsing
  <2>2. CASE ValidateUsages
    BY <2>2 DEF ValidateUsages, Parsing
  <2>3. CASE ParseInjectors
    BY <2>3 DEF ParseInjectors, NextFile, Parsing
  <2>4. CASE Parsed
    BY <2>4 DEF Parsed
  <2>. QED
    BY <2>1, <2>2, <2>3, <2>4
<1>3. Converted'
  <2>1. phase' = "explicit" => AllInjectors = {}
    BY <1>2 DEF Progress, Found, Range, Parsing
  <2>2. phase' = "build" => cur' = 1 /\ injs' = injs /\ injs \in Seq(AllInjectors)
    BY <1>2 DEF Progress, Running, Found, Parsed, ParseModules, ValidateFile, ValidateUsages, ParseInjectors
  <2>3. phase' = "build" =>
          {injs[k] : k \in {l \in DOMAIN injs : l < cur /\ ValueAt(injs[l]).fault # "build"}}' = {}
    <3>1. phase' = "build" => \A l \in DOMAIN injs' : ~(l < cur')
      BY <2>2
    <3>. QED
      BY <3>1
  <2>. QED
    BY <1>1, <1>2, <2>1, <2>3, PackageFrame DEF Converted, Parsing, Writing
<1>4. Emitted'
  BY <1>1, <1>2 DEF Emitted, Parsing, Writing
<1>. QED
  BY <1>3, <1>4 DEF Output

(* The converters built so far, and all of them if none failed. *)
BuiltBefore(n) == {injs[k] : k \in {l \in DOMAIN injs : l < n /\ ValueAt(injs[l]).fault # "build"}}

LEMMA BuiltStep ==
  ASSUME NEW S, injs \in Seq(S), cur \in DOMAIN injs
  PROVE  BuiltBefore(cur + 1) = BuiltBefore(cur) \cup
           (IF ValueAt(injs[cur]).fault # "build" THEN {injs[cur]} ELSE {})
<1>. DEFINE Sound(n) == {l \in DOMAIN injs : l < n /\ ValueAt(injs[l]).fault # "build"}
<1>1. \A l \in DOMAIN injs : l < cur + 1 <=> l < cur \/ l = cur
  OBVIOUS
<1>2. CASE ValueAt(injs[cur]).fault # "build"
  <2>1. Sound(cur + 1) = Sound(cur) \cup {cur}
    BY <1>1, <1>2
  <2>. QED
    BY <1>2, <2>1 DEF BuiltBefore
<1>3. CASE ValueAt(injs[cur]).fault = "build"
  <2>1. Sound(cur + 1) = Sound(cur)
    BY <1>1, <1>3
  <2>. QED
    BY <1>3, <2>1 DEF BuiltBefore
<1>. QED
  BY <1>2, <1>3

LEMMA BuildConvOutput ==
  ASSUME Progress, Progress', Output, BuildConv
  PROVE  Output'
<1>1. phase = "build" /\ pkg' = pkg /\ mods' = mods /\ injs' = injs /\ out' = out /\ out = <<>>
      /\ injs \in Seq(AllInjectors) /\ Range(injs) = AllInjectors /\ cur \in DOMAIN injs
      /\ convs = BuiltBefore(cur)
  BY DEF BuildConv, Progress, Running, Found, Output, Converted, Emitted, BuiltBefore, Parsing, Writing
<1>2. convs' = BuiltBefore(cur + 1)
  BY <1>1, BuiltStep DEF BuildConv
<1>3. \/ cur' = cur + 1 /\ phase' = "build"
      \/ cur = Len(injs) /\ phase' \in {"failed", "explicit"}
  BY <1>1 DEF BuildConv
<1>4. \A n : BuiltBefore(n)' = BuiltBefore(n)
  BY <1>1, PlacesFrame DEF BuiltBefore
<1>5. phase' = "explicit" => convs' = AllInjectors
  <2>1. ASSUME phase' = "explicit"
        PROVE  BuiltBefore(Len(injs) + 1) = AllInjectors
    <3>1. Unbuildable = {}
      BY <1>1, <2>1, PackageFrame DEF Progress, Reported, Writing
    <3>2. \A l \in DOMAIN injs : l < Len(injs) + 1 /\ injs[l] \in AllInjectors
      BY <1>1
    <3>3. \A l \in DOMAIN injs : ValueAt(injs[l]).fault # "build"
      BY <3>1, <3>2 DEF Unbuildable
    <3>4. {l \in DOMAIN injs : l < Len(injs) + 1 /\ ValueAt(injs[l]).fault # "build"} = DOMAIN injs
      BY <3>2, <3>3
    <3>. QED
      BY <1>1, <3>4 DEF BuiltBefore, Range
  <2>. QED
    BY <1>2, <1>3, <2>1
<1>6. Converted'
  <2>1. phase' = "build" => convs' = BuiltBefore(cur')
    BY <1>2, <1>3
  <2>2. phase' = "build" => convs' = BuiltBefore(cur)'
    BY <2>1, <1>4
  <2>3. phase' \in {"build", "failed", "explicit"}
    BY <1>3
  <2>. QED
    BY <1>1, <1>5, <2>2, <2>3, PackageFrame DEF Converted, BuiltBefore, Parsing, Writing
<1>7. Emitted'
  BY <1>1, <1>3 DEF Emitted, Writing
<1>. QED
  BY <1>6, <1>7 DEF Output

-----------------------------------------------------------------------------
(* The order of what is written. *)
LEMMA InjectorIs ==
  ASSUME pkg \in Packages, NEW p \in AllInjectors
  PROVE  /\ p \in ValuePlaces /\ p \in NamePlaces /\ p \in VarPlaces /\ p[1] \in DOMAIN pkg
         /\ Tagged(p) /\ ~Local(p) /\ Paired(p)
         /\ ValueAt(p).call = "Injector" /\ ~ValueAt(p).paren
         /\ p = <<p[1], p[2], p[3], p[4]>>
<1>1. p \in ValuePlaces /\ Tagged(p) /\ ~Local(p) /\ Paired(p)
      /\ ValueAt(p).call = "Injector" /\ ~ValueAt(p).paren
  BY DEF AllInjectors, FindInjectors
<1>2. p = <<p[1], p[2], p[3], p[4]>> /\ <<p[1], p[2], p[3]>> \in SpecPlaces
      /\ SpecAt(p) = SpecAt(<<p[1], p[2], p[3]>>)
      /\ p[4] \in DOMAIN SpecAt(p).values
  BY <1>1, PlaceIs
<1>3. p[1] \in DOMAIN pkg /\ SpecAt(p).names \in Seq(Idents \cup {Blank}) /\ SpecAt(p).values \in Seq(Value)
  BY <1>2, SpecPlaceIs, PackageTyped DEF SpecAt, DeclAt
<1>4. p[4] \in DOMAIN SpecAt(p).names
  BY <1>1, <1>2, <1>3 DEF Paired
<1>5. p \in NamePlaces /\ p \in VarPlaces
  BY <1>1, <1>4, PlaceIs DEF VarPlaces
<1>. QED
  BY <1>1, <1>2, <1>3, <1>5

(* In one file, the order of the loader is that of the file. *)
LEMMA BeforeInFile ==
  ASSUME NEW order \in [DOMAIN pkg -> DOMAIN pkg], pkg \in Packages,
         NEW p, p = <<p[1], p[2], p[3], p[4]>>, NEW q, q = <<q[1], q[2], q[3], q[4]>>,
         p[1] = q[1], p[1] \in DOMAIN pkg, Before(Position(p, order), Position(q, order))
  PROVE  Before(p, q)
<1>. DEFINE P == Position(p, order)
            Q == Position(q, order)
<1>1. P = <<order[p[1]], p[2], p[3], p[4]>> /\ Q = <<order[p[1]], q[2], q[3], q[4]>>
  BY DEF Position
<1>2. order[p[1]] \in Nat
  BY PackageIs
<1>. HIDE DEF P, Q
<1>3. P[2] = p[2] /\ P[3] = p[3] /\ P[4] = p[4] /\ Q[2] = q[2] /\ Q[3] = q[3] /\ Q[4] = q[4]
      /\ P[1] = order[p[1]] /\ Q[1] = order[p[1]]
  BY <1>1
<1>4. PICK k \in 1 .. 4 : P[k] < Q[k] /\ \A l \in 1 .. k - 1 : P[l] = Q[l]
  BY DEF Before, P, Q
<1>5. k \in {2, 3, 4}
  BY <1>2, <1>3, <1>4
<1>6. \A l \in 1 .. 4 : l = 1 \/ l = 2 \/ l = 3 \/ l = 4
  OBVIOUS
<1>7. p[k] < q[k]
  BY <1>3, <1>4, <1>5
<1>8. \A l \in 1 .. k - 1 : p[l] = q[l]
  BY <1>3, <1>4, <1>5, <1>6
<1>. QED
  BY <1>7, <1>8 DEF Before

LEMMA ConvsFinite ==
  ASSUME pkg \in Packages, convs \subseteq AllInjectors
  PROVE  IsFiniteSet(convs)
<1>1. AllInjectors \in SUBSET ValuePlaces
  BY DEF AllInjectors, FindInjectors
<1>2. convs \in SUBSET ValuePlaces
  BY <1>1
<1>. QED
  BY <1>2, ValuePlacesFinite, FS_Subset

(* Items of a list, one for each of its entries. *)
LEMMA ItemsOfList ==
  ASSUME NEW S, NEW list \in Seq(S), NEW items, items = [i \in DOMAIN list |-> items[i]],
         NEW I, \A i \in DOMAIN list : items[i] \in I
  PROVE  items \in Seq(I) /\ DOMAIN items = DOMAIN list
<1>1. Len(list) \in Nat /\ DOMAIN list = 1 .. Len(list)
  OBVIOUS
<1>2. items \in [1 .. Len(list) -> I]
  BY <1>1
<1>. QED
  BY <1>1, <1>2

LEMMA WriteExplicitOutput ==
  ASSUME Progress, Output, WriteExplicit
  PROVE  Output'
<1>1. phase = "explicit" /\ pkg \in Packages /\ convs = AllInjectors /\ phase' = "implicit"
      /\ pkg' = pkg /\ mods' = mods /\ convs' = convs
  BY DEF WriteExplicit, Progress, Running, Output, Converted, Writing
<1>2. PICK order \in Bijection(DOMAIN pkg, DOMAIN pkg), list \in Listings(convs) :
        /\ Sorted([i \in DOMAIN list |-> Position(list[i], order)])
        /\ out' = [i \in DOMAIN list |-> [op |-> "func", at |-> list[i]]]
  BY DEF WriteExplicit
<1>3. list \in Seq(convs) /\ Range(list) = convs /\ \A i, j \in DOMAIN list : list[i] = list[j] => i = j
  BY <1>1, ConvsFinite, ListingType
<1>4. order \in [DOMAIN pkg -> DOMAIN pkg]
  BY DEF Bijection, Injection
<1>5. DOMAIN out' = DOMAIN list /\ \A i \in DOMAIN list : out'[i] = [op |-> "func", at |-> list[i]] /\ list[i] \in convs
  BY <1>2, <1>3
<1>6. Range(out') = FuncItems
  BY <1>3, <1>5 DEF FuncItems, Range
<1>7. out' \in Seq(Items)
  BY <1>3, <1>5, <1>2, ItemsOfList DEF Items, FuncItems
<1>8. \A i, j \in DOMAIN out' : out'[i] = out'[j] => i = j
  BY <1>3, <1>5
<1>9. ASSUME ~Unordered, NEW i \in DOMAIN list, NEW j \in DOMAIN list, i < j
      PROVE  InOrder(out'[i], out'[j])
  <2>. DEFINE p == list[i]
              q == list[j]
  <2>1. p \in AllInjectors /\ q \in AllInjectors
    BY <1>1, <1>5
  <2>2. p[1] = q[1]
    BY <1>1, <1>9, <2>1 DEF Unordered
  <2>3. Before(Position(p, order), Position(q, order))
    BY <1>2, <1>9 DEF Sorted
  <2>4. Before(p, q)
    BY <1>1, <1>4, <2>1, <2>2, <2>3, InjectorIs, BeforeInFile
  <2>5. out'[i] = [op |-> "func", at |-> p] /\ out'[j] = [op |-> "func", at |-> q]
    BY <1>5
  <2>. QED
    BY <2>4, <2>5 DEF InOrder
<1>10. Converted'
  BY <1>1, PackageFrame DEF Converted, Parsing, Writing
<1>11. Emitted'
  <2>1. Items' = Items /\ FuncItems' = FuncItems /\ Unordered' = Unordered
    BY <1>1, ItemsFrame
  <2>. QED
    BY <1>1, <1>5, <1>6, <1>7, <1>8, <1>9, <2>1 DEF Emitted, Writing
<1>. QED
  BY <1>10, <1>11 DEF Output

(* A list is appended to the output: of other items, which come after. *)
Distinct(s) == \A i, j \in DOMAIN s : s[i] = s[j] => i = j
Ordered(s)  == \A i, j \in DOMAIN s : i < j => InOrder(s[i], s[j])

LEMMA AppendedItems ==
  ASSUME NEW S, NEW s \in Seq(S), NEW t \in Seq(S), Distinct(s), Distinct(t),
         Range(s) \cap Range(t) = {}
  PROVE  /\ s \o t \in Seq(S) /\ Range(s \o t) = Range(s) \cup Range(t) /\ Distinct(s \o t)
         /\ Ordered(s) /\ Ordered(t) /\ (\A a \in Range(s), b \in Range(t) : InOrder(a, b))
              => Ordered(s \o t)
<1>. DEFINE u == s \o t
<1>1. Len(s) \in Nat /\ Len(t) \in Nat /\ DOMAIN s = 1 .. Len(s) /\ DOMAIN t = 1 .. Len(t)
      /\ u \in Seq(S) /\ DOMAIN u = 1 .. Len(s) + Len(t)
  OBVIOUS
<1>2. \A i \in DOMAIN u :
        \/ i \in DOMAIN s /\ u[i] = s[i]
        \/ i \notin DOMAIN s /\ i - Len(s) \in DOMAIN t /\ u[i] = t[i - Len(s)]
  BY <1>1
<1>3. \A i \in DOMAIN s : s[i] \in Range(s)
  BY DEF Range
<1>4. \A i \in DOMAIN t : t[i] \in Range(t)
  BY DEF Range
<1>. HIDE DEF u
<1>5. ASSUME NEW i \in DOMAIN u, NEW j \in DOMAIN u, u[i] = u[j]
      PROVE  i = j
  <2>1. CASE i \in DOMAIN s /\ u[i] = s[i]
    <3>1. j \in DOMAIN s /\ u[j] = s[j]
      BY <1>2, <1>3, <1>4, <1>5, <2>1
    <3>. QED
      BY <1>5, <2>1, <3>1 DEF Distinct
  <2>2. CASE i \notin DOMAIN s /\ i - Len(s) \in DOMAIN t /\ u[i] = t[i - Len(s)]
    <3>1. j - Len(s) \in DOMAIN t /\ u[j] = t[j - Len(s)]
      BY <1>2, <1>3, <1>4, <1>5, <2>2
    <3>2. i - Len(s) = j - Len(s)
      BY <1>5, <2>2, <3>1 DEF Distinct
    <3>. QED
      BY <1>1, <3>2
  <2>. QED
    BY <1>2, <2>1, <2>2
<1>6. ASSUME Ordered(s), Ordered(t), \A a \in Range(s), b \in Range(t) : InOrder(a, b),
             NEW i \in DOMAIN u, NEW j \in DOMAIN u, i < j
      PROVE  InOrder(u[i], u[j])
  <2>1. CASE i \in DOMAIN s /\ j \in DOMAIN s
    <3>1. u[i] = s[i] /\ u[j] = s[j]
      BY <1>2, <2>1
    <3>. QED
      BY <1>6, <2>1, <3>1 DEF Ordered
  <2>2. CASE i \in DOMAIN s /\ j \notin DOMAIN s
    <3>1. u[i] \in Range(s) /\ u[j] \in Range(t)
      BY <1>2, <1>3, <1>4, <2>2
    <3>. QED
      BY <1>6, <3>1
  <2>3. CASE i \notin DOMAIN s
    <3>1. j \notin DOMAIN s
      BY <1>1, <1>6, <2>3
    <3>2. i - Len(s) \in DOMAIN t /\ u[i] = t[i - Len(s)] /\ j - Len(s) \in DOMAIN t /\ u[j] = t[j - Len(s)]
      BY <1>2, <2>3, <3>1
    <3>3. i - Len(s) < j - Len(s)
      BY <1>1, <1>6
    <3>. QED
      BY <1>6, <3>2, <3>3 DEF Ordered
  <2>. QED
    BY <2>1, <2>2, <2>3
<1>7. Range(u) = Range(s) \cup Range(t)
  BY RangeOfConcat DEF u
<1>8. Distinct(u)
  BY <1>5 DEF Distinct
<1>9. Ordered(s) /\ Ordered(t) /\ (\A a \in Range(s), b \in Range(t) : InOrder(a, b)) => Ordered(u)
  BY <1>6 DEF Ordered
<1>. QED
  BY <1>1, <1>7, <1>8, <1>9 DEF u

(* The names of modules are ranked as they are ordered. *)
LEMMA RankIsOrder ==
  /\ \A n \in Idents : IndexOf(n) \in DOMAIN Names /\ Names[IndexOf(n)] = n /\ IndexOf(n) \in Nat \ {0}
  /\ "" \notin Idents
  /\ \A p : ModuleOf(p).name \in Idents \cup {""}
  /\ \A p : Rank(ModuleOf(p)) = IF ModuleOf(p).name = "" THEN 0 ELSE IndexOf(ModuleOf(p).name)
<1>1. \A n \in Idents : \E i \in DOMAIN Names : Names[i] = n
  BY DEF Idents
<1>2. \A n \in Idents : IndexOf(n) \in DOMAIN Names /\ Names[IndexOf(n)] = n
  BY <1>1 DEF IndexOf
<1>3. DOMAIN Names \subseteq Nat \ {0}
  <2>1. Names \in Seq(STRING)
    BY NamesAssumption
  <2>2. Len(Names) \in Nat /\ DOMAIN Names = 1 .. Len(Names)
    BY <2>1
  <2>. QED
    BY <2>2
<1>4. "" \notin Idents
  BY NamesAssumption
<1>5. \A p : ModuleOf(p).name \in Idents \cup {""}
  BY DEF ModuleOf
<1>6. \A p : Rank(ModuleOf(p)) = IF ModuleOf(p).name = "" THEN 0 ELSE IndexOf(ModuleOf(p).name)
  BY DEF Rank, IndexOf
<1>. QED
  BY <1>2, <1>3, <1>4, <1>5, <1>6

(* The module of a converter, by name, is the same from wherever it is seen. *)
LEMMA ModuleByName ==
  ASSUME pkg \in Packages, NEW p \in AllInjectors, NEW q \in AllInjectors,
         ModuleOf(p).name = ModuleOf(q).name, ModuleOf(p).name # ""
  PROVE  ModuleOf(p) = ModuleOf(q)
<1>1. Locals(DeclAt(p)) = {} /\ Locals(DeclAt(q)) = {}
  BY InjectorIs DEF Local, Locals
<1>2. \A n : ObjectOf(DeclAt(p), n) = ObjectOf(DeclAt(q), n)
  BY <1>1 DEF ObjectOf
<1>3. ValueAt(p).arg \in Idents /\ ValueAt(q).arg \in Idents /\ ValueAt(p).arg = ValueAt(q).arg
  BY RankIsOrder DEF ModuleOf
<1>. QED
  BY <1>2, <1>3 DEF ModuleOf

LEMMA SubscribersFinite ==
  ASSUME pkg \in Packages, convs \subseteq AllInjectors
  PROVE  IsFiniteSet({ModuleOf(p) : p \in Subscribers})
<1>. DEFINE g == [p \in Subscribers |-> ModuleOf(p)]
<1>1. Subscribers \in SUBSET convs
  BY DEF Subscribers
<1>2. IsFiniteSet(Subscribers)
  BY <1>1, ConvsFinite, FS_Subset
<1>3. IsFiniteSet({g[p] : p \in Subscribers})
  BY <1>2, ImageFinite
<1>4. {g[p] : p \in Subscribers} = {ModuleOf(p) : p \in Subscribers}
  OBVIOUS
<1>. QED
  BY <1>3, <1>4

LEMMA WriteImplicitOutput ==
  ASSUME Progress, Output, WriteImplicit
  PROVE  Output'
<1>1. phase = "implicit" /\ pkg \in Packages /\ convs = AllInjectors /\ phase' = "merge" /\ cur = 1 /\ cur' = 1
      /\ pkg' = pkg /\ mods' = mods /\ convs' = convs
  BY DEF WriteImplicit, Progress, Running, Output, Converted, Writing
<1>2. out \in Seq(Items) /\ Range(out) = FuncItems /\ Distinct(out) /\ (~Unordered => Ordered(out))
  BY <1>1 DEF Output, Emitted, Distinct, Ordered
<1>. DEFINE Modules == {ModuleOf(p) : p \in Subscribers}
<1>3. PICK list \in Listings(Modules) :
        /\ \A i, j \in DOMAIN list : i < j => Rank(list[i]) <= Rank(list[j])
        /\ out' = out \o [i \in DOMAIN list |-> [op |-> "implicit", module |-> list[i]]]
  BY DEF WriteImplicit, Subscribers
<1>. DEFINE items == [i \in DOMAIN list |-> [op |-> "implicit", module |-> list[i]]]
<1>4. list \in Seq(Modules) /\ Range(list) = Modules /\ \A i, j \in DOMAIN list : list[i] = list[j] => i = j
  BY <1>1, SubscribersFinite, ListingType
<1>5. DOMAIN items = DOMAIN list
      /\ \A i \in DOMAIN list : items[i] = [op |-> "implicit", module |-> list[i]] /\ list[i] \in Modules
  BY <1>4
<1>6. Range(items) = ImplicitItems
  BY <1>4, <1>5 DEF ImplicitItems, Range
<1>7. items \in Seq(Items)
  <2>1. \A i \in DOMAIN list : items[i] \in Items
    BY <1>5 DEF Items, ImplicitItems
  <2>. QED
    BY <1>4, <1>5, <2>1, ItemsOfList
<1>8. Distinct(items)
  BY <1>4, <1>5 DEF Distinct
<1>9. ASSUME ~Unordered
      PROVE  Ordered(items)
  <2>1. ASSUME NEW i \in DOMAIN list, NEW j \in DOMAIN list, i < j
        PROVE  InOrder(items[i], items[j])
    <3>1. PICK p \in Subscribers : list[i] = ModuleOf(p)
      BY <1>5
    <3>2. PICK q \in Subscribers : list[j] = ModuleOf(q)
      BY <1>5
    <3>3. i # j
      BY <1>4, <2>1
    <3>4. ModuleOf(p) # ModuleOf(q)
      BY <1>4, <3>1, <3>2, <3>3
    <3>5. p \in convs /\ q \in convs /\ p # q /\ ValueAt(p).subs /\ ValueAt(q).subs
      BY <3>4 DEF Subscribers
    <3>6. ModuleOf(p).name = "" => ModuleOf(q).name # ""
      BY <1>9, <3>5 DEF Unordered
    <3>7. ModuleOf(p).name = ModuleOf(q).name => ModuleOf(p).name = ""
      BY <1>1, <3>4, <3>5, ModuleByName
    <3>8. Rank(ModuleOf(p)) <= Rank(ModuleOf(q))
      BY <1>3, <2>1, <3>1, <3>2
    <3>9. ByName(ModuleOf(p).name, ModuleOf(q).name)
      <4>. DEFINE n == ModuleOf(p).name
                  k == ModuleOf(q).name
      <4>1. Rank(ModuleOf(p)) = IF n = "" THEN 0 ELSE IndexOf(n)
        BY RankIsOrder
      <4>2. Rank(ModuleOf(q)) = IF k = "" THEN 0 ELSE IndexOf(k)
        BY RankIsOrder
      <4>3. n \in Idents \cup {""} /\ k \in Idents \cup {""}
        BY RankIsOrder
      <4>. HIDE DEF n, k
      <4>0. n \in Idents => IndexOf(n) \in Nat \ {0} /\ Names[IndexOf(n)] = n
        BY RankIsOrder
      <4>9. k \in Idents => IndexOf(k) \in Nat \ {0} /\ Names[IndexOf(k)] = k
        BY RankIsOrder
      <4>4. k # ""
        <5>1. (n = "" => k # "") /\ Rank(ModuleOf(p)) <= Rank(ModuleOf(q))
          BY <3>6, <3>8 DEF n, k
        <5>2. CASE n = ""
          BY <5>1, <5>2
        <5>3. CASE n # ""
          <6>1. IndexOf(n) \in Nat \ {0} /\ Rank(ModuleOf(p)) = IndexOf(n)
            BY <4>0, <4>1, <4>3, <5>3
          <6>2. ASSUME k = ""
                PROVE  FALSE
            <7>1. Rank(ModuleOf(q)) = 0
              BY <4>2, <6>2
            <7>2. IndexOf(n) <= 0
              BY <5>1, <6>1, <7>1, Zenon
            <7>. QED
              BY <6>1, <7>2
          <6>. QED
            BY <6>2
        <5>. QED
          BY <5>2, <5>3
      <4>5. n # "" => IndexOf(n) # IndexOf(k)
        <5>1. n # "" => n # k
          BY <3>7, <4>4 DEF n, k
        <5>. QED
          BY <4>0, <4>9, <4>3, <4>4, <5>1
      <4>6. ASSUME n # ""
            PROVE  IndexOf(n) <= IndexOf(k)
        <5>1. Rank(ModuleOf(p)) = IndexOf(n) /\ Rank(ModuleOf(q)) = IndexOf(k)
          BY <4>1, <4>2, <4>4, <4>6
        <5>. QED
          BY <3>8, <5>1, Zenon
      <4>7. ASSUME n # ""
            PROVE  IndexOf(n) < IndexOf(k)
        <5>1. IndexOf(n) \in Nat \ {0} /\ IndexOf(k) \in Nat \ {0}
          BY <4>0, <4>3, <4>4, <4>7, <4>9
        <5>2. IndexOf(n) # IndexOf(k) /\ IndexOf(n) <= IndexOf(k)
          BY <4>5, <4>6, <4>7
        <5>. QED
          BY <5>1, <5>2
      <4>. QED
        BY <4>4, <4>7 DEF ByName, n, k
    <3>10. items[i] = [op |-> "implicit", module |-> ModuleOf(p)]
           /\ items[j] = [op |-> "implicit", module |-> ModuleOf(q)]
      BY <1>5, <3>1, <3>2
    <3>. HIDE DEF items
    <3>. QED
      BY <3>9, <3>10 DEF InOrder
  <2>. QED
    BY <1>5, <2>1 DEF Ordered
<1>10. /\ \A a \in FuncItems, b \in ImplicitItems : InOrder(a, b)
       /\ FuncItems \cap ImplicitItems = {}
  BY DEF FuncItems, ImplicitItems, InOrder
<1>. HIDE DEF items
<1>11. out' = out \o items
  BY <1>3 DEF items
<1>12. out' \in Seq(Items) /\ Range(out') = FuncItems \cup ImplicitItems /\ Distinct(out')
       /\ (~Unordered => Ordered(out'))
  BY <1>2, <1>6, <1>7, <1>8, <1>9, <1>10, <1>11, AppendedItems
<1>13. DeclItems(1) = {}
  BY <1>1, FilesStep DEF DeclItems
<1>14. Converted'
  BY <1>1, PackageFrame DEF Converted, Parsing, Writing
<1>15. Emitted'
  <2>1. Items' = Items /\ FuncItems' = FuncItems /\ ImplicitItems' = ImplicitItems /\ Unordered' = Unordered
        /\ \A n : DeclItems(n)' = DeclItems(n)
    BY <1>1, ItemsFrame
  <2>2. Range(out') = FuncItems \cup ImplicitItems \cup DeclItems(cur')
    BY <1>1, <1>12, <1>13
  <2>. QED
    BY <1>1, <1>12, <2>1, <2>2 DEF Emitted, Writing, Distinct, Ordered
<1>. QED
  BY <1>14, <1>15 DEF Output

(* What is left of a file: its declarations that are not empty, as they come. *)
LEMMA WholeDeclsAre ==
  ASSUME pkg \in Packages, NEW f \in DOMAIN pkg
  PROVE  WholeDecls(f) \in SUBSET Nat /\ WholeDecls(f) \subseteq DOMAIN pkg[f].decls
         /\ IsFiniteSet(WholeDecls(f))
<1>1. pkg[f].decls \in Seq(Decl)
  BY PackageTyped
<1>2. DOMAIN pkg[f].decls \subseteq Nat /\ IsFiniteSet(DOMAIN pkg[f].decls)
  BY <1>1, IndicesFinite
<1>3. WholeDecls(f) \in SUBSET DOMAIN pkg[f].decls
  BY DEF WholeDecls
<1>. QED
  BY <1>2, <1>3, FS_Subset

LEMMA MergeFileOutput ==
  ASSUME Progress, Output, MergeFile
  PROVE  Output'
<1>1. phase = "merge" /\ pkg \in Packages /\ cur \in DOMAIN pkg /\ convs = AllInjectors
      /\ pkg' = pkg /\ mods' = mods /\ convs' = convs
  BY DEF MergeFile, Progress, Running, Output, Converted, Writing, PerFile
<1>2. out \in Seq(Items) /\ Range(out) = FuncItems \cup ImplicitItems \cup DeclItems(cur)
      /\ Distinct(out) /\ (~Unordered => Ordered(out))
  BY <1>1 DEF Output, Emitted, Distinct, Ordered
<1>. DEFINE merged == [d \in DOMAIN pkg[cur].decls |->
                         [op |-> "decl", file |-> cur, from |-> d, decl |-> EraseDirectives(cur, d)]]
            whole  == {d \in DOMAIN merged :
                         Tagged(<<cur>>) /\ (merged[d].decl.func # NoName \/ merged[d].decl.specs # <<>>)}
            items  == Picked(merged, whole)
            S      == WholeDecls(cur)
<1>3. out' = out \o items /\ NextFile("done")
  BY DEF MergeFile
<1>4. \A d \in DOMAIN pkg[cur].decls : merged[d] = Merged(cur, d)
  BY DEF Merged
<1>5. whole = S
  <2>1. Tagged(<<cur>>) = pkg[cur].tagged
    BY DEF Tagged
  <2>. QED
    BY <2>1 DEF WholeDecls
<1>6. S \in SUBSET Nat /\ S \subseteq DOMAIN pkg[cur].decls /\ IsFiniteSet(S)
  BY <1>1, WholeDeclsAre
<1>. HIDE DEF merged
<1>7. /\ DOMAIN items = 1 .. Cardinality(S) /\ Cardinality(S) \in Nat
      /\ \A k \in DOMAIN items : Nth(S, k) \in S /\ items[k] = Merged(cur, Nth(S, k))
      /\ \A d \in S : RankIn(S, d) \in DOMAIN items /\ items[RankIn(S, d)] = Merged(cur, d)
  <2>1. items = Picked(merged, S)
    BY <1>5
  <2>. HIDE DEF items, S, whole
  <2>2. /\ DOMAIN items = 1 .. Cardinality(S) /\ Cardinality(S) \in Nat
        /\ \A k \in 1 .. Cardinality(S) : Nth(S, k) \in S /\ items[k] = merged[Nth(S, k)]
        /\ \A d \in S : RankIn(S, d) \in 1 .. Cardinality(S) /\ items[RankIn(S, d)] = merged[d]
    BY <1>6, <2>1, PickedType
  <2>. QED
    BY <1>4, <1>6, <2>2
<1>8. \A d : Merged(cur, d).op = "decl" /\ Merged(cur, d).file = cur /\ Merged(cur, d).from = d
  BY DEF Merged
<1>9. Range(items) = ItemsOf(cur)
  BY <1>7 DEF ItemsOf, Range
<1>10. ASSUME NEW k \in DOMAIN items, NEW l \in DOMAIN items, k < l
       PROVE  Nth(S, k) < Nth(S, l)
  <2>1. k \in 1 .. Cardinality(S) /\ l \in 1 .. Cardinality(S)
    BY <1>7
  <2>. HIDE DEF items, S
  <2>. QED
    BY <1>6, <1>10, <2>1, NthGrows
<1>11. Ordered(items)
  <2>1. ASSUME NEW k \in DOMAIN items, NEW l \in DOMAIN items, k < l
        PROVE  InOrder(items[k], items[l])
    <3>1. items[k].op = "decl" /\ items[l].op = "decl" /\ items[k].file = items[l].file
          /\ items[k].from < items[l].from
      BY <1>7, <1>8, <1>10, <2>1
    <3>. QED
      BY <3>1 DEF InOrder
  <2>. QED
    BY <2>1 DEF Ordered
<1>12. Distinct(items)
  <2>1. ASSUME NEW k \in DOMAIN items, NEW l \in DOMAIN items, items[k] = items[l]
        PROVE  k = l
    <3>1. Nth(S, k) = Nth(S, l)
      BY <1>7, <1>8, <2>1
    <3>2. k \in 1 .. Cardinality(S) /\ l \in 1 .. Cardinality(S)
      BY <1>7
    <3>3. RankIn(S, Nth(S, k)) = k /\ RankIn(S, Nth(S, l)) = l
      BY <1>6, <3>2, NthIsRanked
    <3>. QED
      BY <3>1, <3>3
  <2>. QED
    BY <2>1 DEF Distinct
<1>13. DeclItems(cur + 1) = DeclItems(cur) \cup ItemsOf(cur)
  BY <1>1, FilesStep DEF DeclItems
<1>14. DeclItems(cur + 1) \subseteq DeclItems(Last)
  BY <1>1, FilesStep DEF DeclItems, Files
<1>15. items \in Seq(Items)
  <2>1. \A k \in DOMAIN items : items[k] \in Items
    BY <1>9, <1>13, <1>14 DEF Items, Range
  <2>2. items = [k \in 1 .. Cardinality(S) |-> items[k]]
    BY <1>5 DEF Picked
  <2>. QED
    BY <1>7, <2>1, <2>2
<1>16. \A a \in DeclItems(cur) : a.op = "decl" /\ a.file < cur
  BY <1>1, <1>8 DEF DeclItems, ItemsOf, Files, Merged
<1>17. \A b \in ItemsOf(cur) : b.op = "decl" /\ b.file = cur
  BY <1>8 DEF ItemsOf
<1>18. \A a \in FuncItems \cup ImplicitItems : a.op \in {"func", "implicit"}
  BY DEF FuncItems, ImplicitItems
<1>. HIDE DEF items, S
<1>19. Range(out) \cap Range(items) = {}
  <2>1. cur \in Nat
    BY <1>1, PackageIs
  <2>. QED
    BY <1>2, <1>9, <1>16, <1>17, <1>18, <2>1
<1>20. \A a \in Range(out), b \in Range(items) : InOrder(a, b)
  <2>1. ASSUME NEW a \in FuncItems \cup ImplicitItems, NEW b \in ItemsOf(cur)
        PROVE  InOrder(a, b)
    BY <1>17, <1>18 DEF InOrder
  <2>2. ASSUME NEW a \in DeclItems(cur), NEW b \in ItemsOf(cur)
        PROVE  InOrder(a, b)
    BY <1>16, <1>17 DEF InOrder
  <2>. QED
    BY <1>2, <1>9, <2>1, <2>2
<1>21. out' \in Seq(Items) /\ Distinct(out') /\ (~Unordered => Ordered(out'))
       /\ Range(out') = FuncItems \cup ImplicitItems \cup DeclItems(cur + 1)
  <2>1. /\ out \o items \in Seq(Items) /\ Distinct(out \o items)
        /\ Range(out \o items) = Range(out) \cup Range(items)
        /\ Ordered(out) => Ordered(out \o items)
    BY <1>2, <1>11, <1>12, <1>15, <1>19, <1>20, AppendedItems
  <2>2. Range(out) \cup Range(items) = FuncItems \cup ImplicitItems \cup DeclItems(cur + 1)
    BY <1>2, <1>9, <1>13
  <2>. QED
    BY <1>2, <1>3, <2>1, <2>2
<1>22. \/ cur' = cur + 1 /\ phase' = "merge"
       \/ cur + 1 = Last /\ phase' = "done"
  BY <1>1, <1>3, NextFileLeads
<1>23. Converted'
  BY <1>1, <1>22, PackageFrame DEF Converted, Parsing, Writing
<1>24. Emitted'
  <2>1. Items' = Items /\ FuncItems' = FuncItems /\ ImplicitItems' = ImplicitItems /\ Unordered' = Unordered
        /\ \A n : DeclItems(n)' = DeclItems(n)
    BY <1>1, ItemsFrame
  <2>2. phase' = "merge" => Range(out') = FuncItems \cup ImplicitItems \cup DeclItems(cur')
    BY <1>21, <1>22
  <2>3. phase' = "done" => Range(out') = Items
    BY <1>21, <1>22 DEF Items
  <2>4. phase' \in {"merge", "done"}
    BY <1>22
  <2>. QED
    BY <1>21, <2>1, <2>2, <2>3, <2>4 DEF Emitted, Writing, Distinct, Ordered
<1>. QED
  BY <1>23, <1>24 DEF Output

LEMMA OutputStutters ==
  ASSUME Output, UNCHANGED vars
  PROVE  Output'
<1>1. pkg' = pkg /\ mods' = mods /\ injs' = injs /\ convs' = convs /\ cur' = cur /\ phase' = phase /\ out' = out
  BY DEF vars
<1>2. Converted'
  <2>1. \A p : ValueAt(p)' = ValueAt(p)
    BY <1>1, PlacesFrame
  <2>. QED
    BY <1>1, <2>1, PackageFrame DEF Output, Converted
<1>3. Emitted'
  BY <1>1, ItemsFrame DEF Output, Emitted
<1>. QED
  BY <1>2, <1>3 DEF Output

LEMMA OutputInit ==
  ASSUME Init
  PROVE  Output
<1>1. phase = "modules" /\ convs = {} /\ out = <<>>
  BY DEF Init
<1>. QED
  BY <1>1 DEF Output, Converted, Emitted, Parsing, Writing

LEMMA OutputStep ==
  ASSUME Progress, Progress', Output, [Next]_vars
  PROVE  Output'
<1>1. CASE ParseModules \/ ValidateFile \/ ValidateUsages \/ ParseInjectors \/ Parsed
  BY <1>1, EarlyOutput
<1>2. CASE BuildConv
  BY <1>2, BuildConvOutput
<1>3. CASE WriteExplicit
  BY <1>3, WriteExplicitOutput
<1>4. CASE WriteImplicit
  BY <1>4, WriteImplicitOutput
<1>5. CASE MergeFile
  BY <1>5, MergeFileOutput
<1>6. CASE Done \/ UNCHANGED vars
  BY <1>6, OutputStutters DEF Done
<1>. QED
  BY <1>1, <1>2, <1>3, <1>4, <1>5, <1>6 DEF Next

(* What has been written at each step of a run is in order, each item once:  *)
(* the converters, their subconverters, and what is left of the files so far *)
(* (convgen.go:113-199).                                                     *)
THEOREM RunsOutput == Spec => []Output
<1>1. Init => Output
  BY OutputInit
<1>2. Progress /\ Progress' /\ Output /\ [Next]_vars => Output'
  BY OutputStep
<1>. QED
  BY <1>1, <1>2, RunsProgress, PTL DEF Spec

(* Generating twice gives the same file if converters are in one file and    *)
(* not more than one module without a name has subconverters                 *)
(* (convgen.go:129, 154).                                                    *)
THEOREM OutputIsOrdered == Spec => []SameEveryRun
<1>1. Output => SameEveryRun
  BY DEF Output, Emitted, SameEveryRun
<1>. QED
  BY <1>1, RunsOutput, PTL

-----------------------------------------------------------------------------
(* What the erasure leaves of a declaration. *)
IsSpec(x) == x = [form |-> x.form, func |-> x.func, names |-> x.names, values |-> x.values]

KeptOf(P)       == Kept(P, DOMAIN SpecAt(P).names)
KeptValuesOf(P) == Kept(P, DOMAIN SpecAt(P).names \cap DOMAIN SpecAt(P).values)

LEMMA SpecTyped ==
  ASSUME pkg \in Packages, NEW P \in SpecPlaces
  PROVE  /\ SpecAt(P) \in VarSpec /\ IsSpec(SpecAt(P))
         /\ SpecAt(P).names \in Seq(Idents \cup {Blank}) /\ SpecAt(P).values \in Seq(Value)
         /\ KeptOf(P) \in SUBSET Nat /\ IsFiniteSet(KeptOf(P)) /\ KeptOf(P) \subseteq DOMAIN SpecAt(P).names
         /\ KeptValuesOf(P) \in SUBSET Nat /\ IsFiniteSet(KeptValuesOf(P)) /\ KeptValuesOf(P) \subseteq KeptOf(P)
         /\ KeptValuesOf(P) = {i \in KeptOf(P) : i \in DOMAIN SpecAt(P).values}
<1>1. SpecAt(P) \in VarSpec /\ SpecAt(P).names \in Seq(Idents \cup {Blank}) /\ SpecAt(P).values \in Seq(Value)
  BY SpecPlaceIs, PackageTyped DEF SpecAt, DeclAt
<1>2. \A x \in VarSpec : IsSpec(x)
  BY DEF VarSpec, IsSpec
<1>3. DOMAIN SpecAt(P).names \subseteq Nat /\ IsFiniteSet(DOMAIN SpecAt(P).names)
  BY <1>1, IndicesFinite
<1>4. KeptOf(P) \in SUBSET DOMAIN SpecAt(P).names /\ KeptValuesOf(P) \in SUBSET KeptOf(P)
      /\ KeptValuesOf(P) = {i \in KeptOf(P) : i \in DOMAIN SpecAt(P).values}
  BY DEF KeptOf, KeptValuesOf, Kept
<1>5. IsFiniteSet(KeptOf(P))
  BY <1>3, <1>4, FS_Subset
<1>6. IsFiniteSet(KeptValuesOf(P))
  BY <1>4, <1>5, FS_Subset
<1>. QED
  BY <1>1, <1>2, <1>3, <1>4, <1>5, <1>6

LEMMA SpecWith ==
  ASSUME NEW x, IsSpec(x), NEW N, NEW V
  PROVE  [x EXCEPT !.names = N, !.values = V] = [form |-> x.form, func |-> x.func, names |-> N, values |-> V]
<1>. DEFINE y == [x EXCEPT !.names = N]
            z == [y EXCEPT !.values = V]
            w == [form |-> x.form, func |-> x.func, names |-> N, values |-> V]
<1>1. DOMAIN x = {"form", "func", "names", "values"}
  BY DEF IsSpec
<1>2. DOMAIN z = DOMAIN x /\ \A i \in DOMAIN x : z[i] = IF i = "values" THEN V ELSE IF i = "names" THEN N ELSE x[i]
  BY <1>1
<1>3. z = [i \in DOMAIN x |-> z[i]]
  OBVIOUS
<1>4. DOMAIN w = {"form", "func", "names", "values"} /\ w = [i \in DOMAIN w |-> w[i]]
      /\ w["form"] = x["form"] /\ w["func"] = x["func"] /\ w["names"] = N /\ w["values"] = V
  OBVIOUS
<1>. HIDE DEF z, w
<1>5. \A i \in DOMAIN x : z[i] = w[i]
  BY <1>1, <1>2, <1>4
<1>6. z = w
  BY <1>1, <1>2, <1>3, <1>4, <1>5
<1>. QED
  BY <1>6 DEF z, w

LEMMA ErasedSpecIs ==
  ASSUME pkg \in Packages, NEW P \in SpecPlaces
  PROVE  /\ IsSpec(EraseSpec(P)) /\ EraseSpec(P).form = SpecAt(P).form
         /\ EraseSpec(P).names =
              Picked([i \in DOMAIN SpecAt(P).names |-> KeptName(Append(P, i))], KeptOf(P))
         /\ EraseSpec(P).values = Picked(SpecAt(P).values, KeptValuesOf(P))
<1>1. IsSpec(SpecAt(P))
  BY SpecTyped
<1>. DEFINE x == SpecAt(P)
            N == KeptNames(P)
            V == Picked(x.values, Kept(P, DOMAIN x.names \cap DOMAIN x.values))
<1>2. EraseSpec(P) = [x EXCEPT !.names = N, !.values = V]
  BY DEF EraseSpec
<1>3. N = Picked([i \in DOMAIN SpecAt(P).names |-> KeptName(Append(P, i))], KeptOf(P))
  BY DEF KeptNames, KeptOf
<1>4. V = Picked(SpecAt(P).values, KeptValuesOf(P))
  BY DEF KeptValuesOf
<1>. HIDE DEF x, N, V
<1>5. [x EXCEPT !.names = N, !.values = V] = [form |-> x.form, func |-> x.func, names |-> N, values |-> V]
  BY <1>1, SpecWith DEF x
<1>. QED
  BY <1>2, <1>3, <1>4, <1>5 DEF IsSpec, x

LEMMA GarbledSpecIs ==
  ASSUME NEW decl, NEW x, IsSpec(x)
  PROVE  /\ GarbleSpec(decl, x).form = x.form
         /\ DOMAIN GarbleSpec(decl, x).names = DOMAIN x.names
         /\ \A i \in DOMAIN x.names : GarbleSpec(decl, x).names[i] = GarbleName(decl, x.names[i])
         /\ DOMAIN GarbleSpec(decl, x).values = DOMAIN x.values
         /\ \A i \in DOMAIN x.values : GarbleSpec(decl, x).values[i] = GarbleValue(decl, x.values[i])
<1>. DEFINE N == [i \in DOMAIN x.names |-> GarbleName(decl, x.names[i])]
            V == [i \in DOMAIN x.values |-> GarbleValue(decl, x.values[i])]
<1>1. GarbleSpec(decl, x) = [x EXCEPT !.names = N, !.values = V]
  BY DEF GarbleSpec
<1>2. DOMAIN N = DOMAIN x.names /\ \A i \in DOMAIN x.names : N[i] = GarbleName(decl, x.names[i])
  OBVIOUS
<1>3. DOMAIN V = DOMAIN x.values /\ \A i \in DOMAIN x.values : V[i] = GarbleValue(decl, x.values[i])
  OBVIOUS
<1>. HIDE DEF N, V
<1>4. [x EXCEPT !.names = N, !.values = V] = [form |-> x.form, func |-> x.func, names |-> N, values |-> V]
  BY SpecWith
<1>. QED
  BY <1>1, <1>2, <1>3, <1>4

LEMMA GarbledValueIs ==
  ASSUME NEW decl, NEW v \in Value
  PROVE  /\ GarbleValue(decl, v).call = v.call /\ GarbleValue(decl, v).inside = v.inside
         /\ GarbleValue(decl, v).uses = {GarbleName(decl, n) : n \in v.uses}
         /\ GarbleValue(decl, v).lead = GarbleName(decl, v.lead)
         /\ GarbleValue(decl, v).paren = v.paren
  BY DEF GarbleValue, Value

FullOf(f, d) == FullSpecs(ErasedSpecs(f, d))

LEMMA ErasedDeclIs ==
  ASSUME pkg \in Packages, NEW f \in DOMAIN pkg, NEW d \in DOMAIN pkg[f].decls
  PROVE  /\ EraseDirectives(f, d).func = pkg[f].decls[d].func
         /\ FullOf(f, d) \in SUBSET Nat /\ IsFiniteSet(FullOf(f, d))
         /\ FullOf(f, d) \subseteq DOMAIN pkg[f].decls[d].specs
         /\ Cardinality(FullOf(f, d)) \in Nat
         /\ DOMAIN EraseDirectives(f, d).specs = 1 .. Cardinality(FullOf(f, d))
         /\ \A s \in DOMAIN EraseDirectives(f, d).specs :
              /\ Nth(FullOf(f, d), s) \in FullOf(f, d)
              /\ EraseDirectives(f, d).specs[s] =
                   GarbleSpec(pkg[f].decls[d], ErasedSpecs(f, d)[Nth(FullOf(f, d), s)])
         /\ \A t \in FullOf(f, d) :
              /\ RankIn(FullOf(f, d), t) \in DOMAIN EraseDirectives(f, d).specs
              /\ EraseDirectives(f, d).specs[RankIn(FullOf(f, d), t)] =
                   GarbleSpec(pkg[f].decls[d], ErasedSpecs(f, d)[t])
<1>. DEFINE decl == pkg[f].decls[d]
            full == FullOf(f, d)
            left == Picked(ErasedSpecs(f, d), full)
            specs == [s \in DOMAIN left |-> GarbleSpec(decl, left[s])]
<1>1. decl \in Decl /\ decl.specs \in Seq(VarSpec)
  BY PackageTyped
<1>2. EraseDirectives(f, d) = [decl EXCEPT !.specs = specs]
  BY DEF EraseDirectives, FullOf
<1>3. DOMAIN ErasedSpecs(f, d) = DOMAIN decl.specs
  BY DEF ErasedSpecs
<1>4. full \in SUBSET DOMAIN decl.specs
  BY <1>3 DEF FullOf, FullSpecs
<1>5. DOMAIN decl.specs \subseteq Nat /\ IsFiniteSet(DOMAIN decl.specs)
  BY <1>1, IndicesFinite
<1>6. full \in SUBSET Nat /\ IsFiniteSet(full)
  BY <1>4, <1>5, FS_Subset
<1>. HIDE DEF full
<1>7. /\ DOMAIN left = 1 .. Cardinality(full) /\ Cardinality(full) \in Nat
      /\ \A s \in 1 .. Cardinality(full) : Nth(full, s) \in full /\ left[s] = ErasedSpecs(f, d)[Nth(full, s)]
      /\ \A t \in full : RankIn(full, t) \in 1 .. Cardinality(full) /\ left[RankIn(full, t)] = ErasedSpecs(f, d)[t]
  BY <1>6, PickedType
<1>. HIDE DEF left
<1>8. DOMAIN specs = 1 .. Cardinality(full) /\ \A s \in 1 .. Cardinality(full) : specs[s] = GarbleSpec(decl, left[s])
  BY <1>7
<1>. HIDE DEF specs
<1>9. EraseDirectives(f, d).func = decl.func /\ EraseDirectives(f, d).specs = specs
  <2>1. decl \in [func : Idents \cup {NoName}, specs : Seq(VarSpec)]
    BY <1>1 DEF Decl
  <2>. HIDE DEF decl
  <2>. QED
    BY <1>2, <2>1
<1>. QED
  BY <1>4, <1>6, <1>7, <1>8, <1>9 DEF full

LEMMA SpecOfDecl ==
  ASSUME pkg \in Packages, NEW f \in DOMAIN pkg, NEW d \in DOMAIN pkg[f].decls,
         NEW t \in DOMAIN pkg[f].decls[d].specs
  PROVE  /\ <<f, d, t>> \in SpecPlaces
         /\ SpecAt(<<f, d, t>>) = pkg[f].decls[d].specs[t] /\ DeclAt(<<f, d, t>>) = pkg[f].decls[d]
         /\ ErasedSpecs(f, d)[t] =
              IF SpecAt(<<f, d, t>>).form = "spec" THEN EraseSpec(<<f, d, t>>) ELSE SpecAt(<<f, d, t>>)
  BY DEF SpecPlaces, SpecAt, DeclAt, ErasedSpecs

LEMMA GarbledErased ==
  ASSUME pkg \in Packages, NEW P \in SpecPlaces, NEW decl
  PROVE  LET x == GarbleSpec(decl, EraseSpec(P))
         IN  /\ x.form = SpecAt(P).form
             /\ DOMAIN x.names = 1 .. Cardinality(KeptOf(P))
             /\ \A k \in DOMAIN x.names :
                  /\ Nth(KeptOf(P), k) \in KeptOf(P)
                  /\ x.names[k] = GarbleName(decl, KeptName(Append(P, Nth(KeptOf(P), k))))
             /\ \A j \in KeptOf(P) :
                  /\ RankIn(KeptOf(P), j) \in DOMAIN x.names
                  /\ x.names[RankIn(KeptOf(P), j)] = GarbleName(decl, KeptName(Append(P, j)))
             /\ DOMAIN x.values = 1 .. Cardinality(KeptValuesOf(P))
             /\ \A k \in DOMAIN x.values :
                  /\ Nth(KeptValuesOf(P), k) \in KeptValuesOf(P)
                  /\ x.values[k] = GarbleValue(decl, SpecAt(P).values[Nth(KeptValuesOf(P), k)])
             /\ \A j \in KeptValuesOf(P) :
                  /\ RankIn(KeptValuesOf(P), j) \in DOMAIN x.values
                  /\ x.values[RankIn(KeptValuesOf(P), j)] = GarbleValue(decl, SpecAt(P).values[j])
<1>. DEFINE x == GarbleSpec(decl, EraseSpec(P))
            e == EraseSpec(P)
            K == KeptOf(P)
            V == KeptValuesOf(P)
            names == [i \in DOMAIN SpecAt(P).names |-> KeptName(Append(P, i))]
            values == SpecAt(P).values
<1>1. IsSpec(e) /\ e.form = SpecAt(P).form /\ e.names = Picked(names, K) /\ e.values = Picked(values, V)
  BY ErasedSpecIs
<1>2. /\ x.form = e.form
      /\ DOMAIN x.names = DOMAIN e.names
      /\ \A i \in DOMAIN e.names : x.names[i] = GarbleName(decl, e.names[i])
      /\ DOMAIN x.values = DOMAIN e.values
      /\ \A i \in DOMAIN e.values : x.values[i] = GarbleValue(decl, e.values[i])
  BY <1>1, GarbledSpecIs
<1>3. K \in SUBSET Nat /\ IsFiniteSet(K) /\ V \in SUBSET Nat /\ IsFiniteSet(V) /\ K \subseteq DOMAIN SpecAt(P).names
  BY SpecTyped
<1>4. \A j \in K : names[j] = KeptName(Append(P, j))
  BY <1>3
<1>. HIDE DEF x, e, K, V, names, values
<1>5. /\ DOMAIN Picked(names, K) = 1 .. Cardinality(K)
      /\ \A k \in 1 .. Cardinality(K) : Nth(K, k) \in K /\ Picked(names, K)[k] = names[Nth(K, k)]
      /\ \A i \in K : RankIn(K, i) \in 1 .. Cardinality(K) /\ Picked(names, K)[RankIn(K, i)] = names[i]
  BY <1>3, PickedType
<1>6. /\ DOMAIN Picked(values, V) = 1 .. Cardinality(V)
      /\ \A k \in 1 .. Cardinality(V) : Nth(V, k) \in V /\ Picked(values, V)[k] = values[Nth(V, k)]
      /\ \A i \in V : RankIn(V, i) \in 1 .. Cardinality(V) /\ Picked(values, V)[RankIn(V, i)] = values[i]
  BY <1>3, PickedType
<1>7. x.form = SpecAt(P).form
  BY <1>1, <1>2
<1>8. DOMAIN x.names = 1 .. Cardinality(K) /\ DOMAIN x.values = 1 .. Cardinality(V)
  BY <1>1, <1>2, <1>5, <1>6
<1>9. \A k \in DOMAIN x.names : Nth(K, k) \in K /\ x.names[k] = GarbleName(decl, KeptName(Append(P, Nth(K, k))))
  BY <1>1, <1>2, <1>4, <1>5
<1>10. \A j \in K : RankIn(K, j) \in DOMAIN x.names
                   /\ x.names[RankIn(K, j)] = GarbleName(decl, KeptName(Append(P, j)))
  BY <1>1, <1>2, <1>4, <1>5
<1>11. \A k \in DOMAIN x.values : Nth(V, k) \in V /\ x.values[k] = GarbleValue(decl, values[Nth(V, k)])
  BY <1>1, <1>2, <1>6
<1>12. \A j \in V : RankIn(V, j) \in DOMAIN x.values /\ x.values[RankIn(V, j)] = GarbleValue(decl, values[j])
  BY <1>1, <1>2, <1>6
<1>. QED
  BY <1>7, <1>8, <1>9, <1>10, <1>11, <1>12 DEF x, K, V, values

(* Where a run ends well. *)
LEMMA DoneIs ==
  ASSUME Progress, Output, phase = "done"
  PROVE  /\ pkg \in Packages /\ Compiles /\ mods = AllModules /\ convs = AllInjectors
         /\ Mistakes = {} /\ Range(out) = Items /\ Distinct(out)
         /\ \A i \in DOMAIN out :
              \/ \E q \in convs : out[i] = [op |-> "func", at |-> q]
              \/ out[i].op = "implicit"
              \/ \E f \in DOMAIN pkg : \E d \in WholeDecls(f) : out[i] = Merged(f, d)
         /\ \A q \in convs : \E i \in DOMAIN out : out[i] = [op |-> "func", at |-> q]
         /\ \A f \in DOMAIN pkg : \A d \in WholeDecls(f) : \E i \in DOMAIN out : out[i] = Merged(f, d)
<1>1. pkg \in Packages /\ Compiles /\ mods = AllModules /\ convs = AllInjectors
      /\ Range(out) = Items /\ Distinct(out)
  BY DEF Progress, Running, Found, Output, Converted, Emitted, Writing, Distinct
<1>2. Mistakes = {}
  BY ProgressReports DEF MistakesAreReported
<1>3. Files(Last) = DOMAIN pkg
  BY <1>1, FilesStep
<1>4. \A i \in DOMAIN out : out[i] \in Items
  BY <1>1 DEF Range
<1>5. \A a \in Items : \E i \in DOMAIN out : out[i] = a
  BY <1>1 DEF Range
<1>6. \A a : a \in Items <=>
        \/ \E q \in convs : a = [op |-> "func", at |-> q]
        \/ a \in ImplicitItems
        \/ \E f \in DOMAIN pkg : \E d \in WholeDecls(f) : a = Merged(f, d)
  BY <1>3 DEF Items, FuncItems, DeclItems, ItemsOf
<1>7. \A a \in ImplicitItems : a.op = "implicit"
  BY DEF ImplicitItems
<1>8. \A i \in DOMAIN out :
        \/ \E q \in convs : out[i] = [op |-> "func", at |-> q]
        \/ out[i].op = "implicit"
        \/ \E f \in DOMAIN pkg : \E d \in WholeDecls(f) : out[i] = Merged(f, d)
  BY <1>4, <1>6, <1>7
<1>9. \A q \in convs : \E i \in DOMAIN out : out[i] = [op |-> "func", at |-> q]
  BY <1>5, <1>6
<1>10. \A f \in DOMAIN pkg : \A d \in WholeDecls(f) : \E i \in DOMAIN out : out[i] = Merged(f, d)
  BY <1>5, <1>6
<1>. QED
  BY <1>1, <1>2, <1>8, <1>9, <1>10

-----------------------------------------------------------------------------
(* What is kept is declared once. *)
LEMMA NamePlaceIs ==
  ASSUME pkg \in Packages, NEW f \in DOMAIN pkg, NEW d \in DOMAIN pkg[f].decls,
         NEW t \in DOMAIN pkg[f].decls[d].specs, NEW j
  PROVE  LET q == <<f, d, t, j>>
         IN  /\ q = Append(<<f, d, t>>, j) /\ SpecAt(q) = pkg[f].decls[d].specs[t] /\ DeclAt(q) = pkg[f].decls[d]
             /\ NameAt(q) = SpecAt(q).names[j] /\ ValueAt(q) = SpecAt(q).values[j]
             /\ Tagged(q) = pkg[f].tagged
             /\ Local(q) <=> pkg[f].decls[d].func # NoName
             /\ j \in DOMAIN SpecAt(q).names => q \in NamePlaces
             /\ j \in DOMAIN SpecAt(q).values => q \in ValuePlaces
             /\ q[1] = f /\ q[2] = d /\ q[3] = t /\ q[4] = j
<1>. DEFINE P == <<f, d, t>>
            q == <<f, d, t, j>>
<1>1. q[1] = f /\ q[2] = d /\ q[3] = t /\ q[4] = j
  OBVIOUS
<1>2. P[1] = f /\ P[2] = d /\ P[3] = t
  OBVIOUS
<1>3. q = Append(P, j)
  BY AppendIs
<1>4. P \in SpecPlaces
  BY SpecOfDecl
<1>. HIDE DEF P, q
<1>5. SpecAt(q) = pkg[f].decls[d].specs[t] /\ DeclAt(q) = pkg[f].decls[d] /\ SpecAt(q) = SpecAt(P)
  BY <1>1, <1>2 DEF SpecAt, DeclAt
<1>6. NameAt(q) = SpecAt(q).names[j] /\ ValueAt(q) = SpecAt(q).values[j] /\ Tagged(q) = pkg[f].tagged
  BY <1>1 DEF NameAt, ValueAt, Tagged
<1>7. Local(q) <=> pkg[f].decls[d].func # NoName
  BY <1>5 DEF Local
<1>8. j \in DOMAIN SpecAt(q).names => q \in NamePlaces
  BY <1>3, <1>4, <1>5 DEF NamePlaces
<1>9. j \in DOMAIN SpecAt(q).values => q \in ValuePlaces
  BY <1>3, <1>4, <1>5 DEF ValuePlaces
<1>. QED
  BY <1>1, <1>3, <1>5, <1>6, <1>7, <1>8, <1>9 DEF P, q

(* The parts of a place of the source. *)
LEMMA PlaceParts ==
  ASSUME pkg \in Packages, NEW q \in ValuePlaces \cup NamePlaces
  PROVE  /\ q = <<q[1], q[2], q[3], q[4]>> /\ <<q[1], q[2], q[3]>> \in SpecPlaces
         /\ q[1] \in DOMAIN pkg /\ q[2] \in DOMAIN pkg[q[1]].decls
         /\ q[3] \in DOMAIN pkg[q[1]].decls[q[2]].specs
         /\ DeclAt(q) = pkg[q[1]].decls[q[2]] /\ DeclAt(q) \in Decl
         /\ SpecAt(q) = pkg[q[1]].decls[q[2]].specs[q[3]] /\ SpecAt(q) \in VarSpec
         /\ SpecAt(q) = SpecAt(<<q[1], q[2], q[3]>>)
         /\ SpecAt(q).names \in Seq(Idents \cup {Blank}) /\ SpecAt(q).values \in Seq(Value)
         /\ q[4] \in Nat \ {0}
         /\ q \in ValuePlaces => q[4] \in DOMAIN SpecAt(q).values /\ ValueAt(q) \in Value
         /\ q \in NamePlaces => q[4] \in DOMAIN SpecAt(q).names /\ NameAt(q) \in Idents \cup {Blank}
         /\ ~Local(q) => SpecAt(q).form = "spec"
<1>. DEFINE P == <<q[1], q[2], q[3]>>
<1>0. q = <<q[1], q[2], q[3], q[4]>> /\ P \in SpecPlaces
         /\ SpecAt(q) = SpecAt(P) /\ DeclAt(q) = DeclAt(P) /\ q[4] \in Nat \ {0}
         /\ (q \in ValuePlaces => q[4] \in DOMAIN SpecAt(q).values)
         /\ (q \in NamePlaces => q[4] \in DOMAIN SpecAt(q).names)
  BY PlaceIs
<1>1. P[1] = q[1] /\ P[2] = q[2] /\ P[3] = q[3]
  OBVIOUS
<1>. HIDE DEF P
<1>2. q[1] \in DOMAIN pkg /\ q[2] \in DOMAIN pkg[q[1]].decls /\ q[3] \in DOMAIN pkg[q[1]].decls[q[2]].specs
  BY <1>0, <1>1, SpecPlaceIs
<1>3. DeclAt(q) = pkg[q[1]].decls[q[2]] /\ SpecAt(q) = pkg[q[1]].decls[q[2]].specs[q[3]]
  BY DEF SpecAt, DeclAt
<1>4. DeclAt(q) \in Decl /\ SpecAt(q) \in VarSpec
      /\ SpecAt(q).names \in Seq(Idents \cup {Blank}) /\ SpecAt(q).values \in Seq(Value)
  BY <1>2, <1>3, PackageTyped
<1>5. q \in ValuePlaces => ValueAt(q) \in Value
  BY <1>0, <1>4 DEF ValueAt
<1>6. q \in NamePlaces => NameAt(q) \in Idents \cup {Blank}
  BY <1>0, <1>4 DEF NameAt
<1>7. ~Local(q) => SpecAt(q).form = "spec"
  <2>1. \A decl \in Decl : decl.func = NoName => \A s \in DOMAIN decl.specs : decl.specs[s].form = "spec"
    BY DEF Decl
  <2>. QED
    BY <1>2, <1>3, <1>4, <2>1 DEF Local
<1>. QED
  BY <1>0, <1>2, <1>3, <1>4, <1>5, <1>6, <1>7 DEF P

LEMMA KindredIs ==
  ASSUME pkg \in Packages, Compiles, mods = AllModules, convs = AllInjectors, NEW p \in Kindred
  PROVE  /\ p \in NamePlaces /\ Tagged(p) /\ ~Local(p)
         /\ NameAt(p) \in Idents /\ NameAt(p) # Blank /\ NameAt(p) # Garbage
         /\ \A q \in VarPlaces : NameAt(q) = NameAt(p) => q = p
         /\ \A decl : ~IsModule(decl, NameAt(p))
         /\ p \notin mods
         /\ Erased(p) <=> p \in convs
<1>1. p \in NamePlaces /\ p \in VarPlaces /\ Tagged(p) /\ ~Local(p) /\ NameAt(p) # Blank /\ p \notin mods
  BY DEF Kindred, VarPlaces
<1>2. NameAt(p) \in Idents /\ NameAt(p) # Garbage
  <2>1. NameAt(p) \in Idents
    BY <1>1, PlaceParts
  <2>. QED
    BY <2>1, NamesAssumption
<1>3. \A q \in VarPlaces : NameAt(q) = NameAt(p) => q = p
  BY <1>1 DEF Compiles
<1>4. ASSUME NEW decl
      PROVE  ~IsModule(decl, NameAt(p))
  BY <1>1, <1>3 DEF IsModule, ObjectOf
<1>5. p[1] \in DOMAIN pkg
  BY <1>1, PlaceParts
<1>6. p[4] \in DOMAIN SpecAt(p).values => p \in ValuePlaces
  BY <1>1, PlaceIs
<1>7. ~(p[4] \in DOMAIN SpecAt(p).values /\ ValueAt(p).call = "Module")
  <2>1. p[4] \in DOMAIN SpecAt(p).names
    BY <1>1, PlaceParts
  <2>2. p[4] \in DOMAIN SpecAt(p).values /\ ValueAt(p).call = "Module" => p \in FindModules(p[1])
    BY <1>1, <1>6, <2>1 DEF FindModules
  <2>. QED
    BY <1>1, <1>5, <2>2 DEF AllModules
<1>8. p \in convs => p[4] \in DOMAIN SpecAt(p).values
  <2>1. p \in convs => p \in ValuePlaces
    BY InjectorIs
  <2>. QED
    BY <2>1, PlaceParts
<1>9. Erased(p) <=> p \in convs
  BY <1>7, <1>8 DEF Erased
<1>. QED
  BY <1>1, <1>2, <1>3, <1>4, <1>9

(* What is left of a package-level declaration: its names and values. *)
LEMMA LeftOfGroup ==
  ASSUME pkg \in Packages, NEW f \in DOMAIN pkg, NEW d \in DOMAIN pkg[f].decls,
         pkg[f].decls[d].func = NoName, NEW t \in DOMAIN pkg[f].decls[d].specs
  PROVE  ErasedSpecs(f, d)[t] = EraseSpec(<<f, d, t>>)
<1>1. pkg[f].decls[d] \in Decl
  BY PackageTyped
<1>2. pkg[f].decls[d].specs[t].form = "spec"
  BY <1>1 DEF Decl
<1>. QED
  BY <1>2, SpecOfDecl

(* A name that is left of a declaration is where a kept variable was. *)
LEMMA NamedByItem ==
  ASSUME pkg \in Packages, Compiles, mods = AllModules, convs = AllInjectors, NEW p \in Kindred,
         NEW f \in DOMAIN pkg, NEW d \in WholeDecls(f), pkg[f].decls[d].func = NoName,
         NEW s \in DOMAIN EraseDirectives(f, d).specs,
         NEW k \in DOMAIN EraseDirectives(f, d).specs[s].names,
         EraseDirectives(f, d).specs[s].names[k] = NameAt(p)
  PROVE  /\ p[1] = f /\ p[2] = d /\ p[3] = Nth(FullOf(f, d), s)
         /\ p[4] = Nth(KeptOf(<<p[1], p[2], p[3]>>), k)
         /\ k \in 1 .. Cardinality(KeptOf(<<p[1], p[2], p[3]>>))
         /\ p \notin convs
<1>. DEFINE decl == pkg[f].decls[d]
            t == Nth(FullOf(f, d), s)
            P == <<f, d, t>>
            j == Nth(KeptOf(P), k)
            q == <<f, d, t, j>>
<1>1. d \in DOMAIN pkg[f].decls
  BY DEF WholeDecls
<1>2. t \in FullOf(f, d) /\ t \in DOMAIN decl.specs
      /\ EraseDirectives(f, d).specs[s] = GarbleSpec(decl, ErasedSpecs(f, d)[t])
  BY <1>1, ErasedDeclIs
<1>3. P \in SpecPlaces /\ SpecAt(P) = decl.specs[t] /\ ErasedSpecs(f, d)[t] = EraseSpec(P)
  BY <1>1, <1>2, SpecOfDecl, LeftOfGroup
<1>. DEFINE x == EraseDirectives(f, d).specs[s]
<1>4. DOMAIN x.names = 1 .. Cardinality(KeptOf(P)) /\ j \in KeptOf(P)
      /\ x.names[k] = GarbleName(decl, KeptName(Append(P, j)))
  <2>1. x = GarbleSpec(decl, EraseSpec(P))
    BY <1>2, <1>3
  <2>. HIDE DEF P, decl, x
  <2>2. k \in DOMAIN GarbleSpec(decl, EraseSpec(P)).names
    BY <2>1 DEF x
  <2>. QED
    BY <1>3, <2>1, <2>2, GarbledErased
<1>5. j \in DOMAIN SpecAt(P).names /\ ~Erased(Append(P, j))
  BY <1>3, <1>4, SpecTyped DEF KeptOf, Kept
<1>6. q = Append(P, j) /\ q \in NamePlaces /\ ~Local(q) /\ q[1] = f /\ q[2] = d /\ q[3] = t /\ q[4] = j
  BY <1>1, <1>2, <1>3, <1>5, NamePlaceIs
<1>7. q \in VarPlaces
  BY <1>6 DEF VarPlaces
<1>8. KeptName(q) = NameAt(p)
  BY <1>4, <1>6, KindredIs DEF GarbleName
<1>9. NameAt(q) = NameAt(p)
  BY <1>8, KindredIs DEF KeptName
<1>10. q = p
  BY <1>7, <1>9, KindredIs
<1>11. p \notin convs
  BY <1>5, <1>6, <1>10, KindredIs
<1>12. p[1] = f /\ p[2] = d /\ p[3] = t /\ p[4] = j
  BY <1>6, <1>10
<1>. QED
  BY <1>4, <1>11, <1>12

(* As many of the values come before one as of the names.                    *)
LEMMA ValueOfName ==
  ASSUME pkg \in Packages, NEW P \in SpecPlaces, SpecAt(P).form = "spec",
         NEW j \in KeptOf(P)
  PROVE  /\ RankIn(KeptOf(P), j) \in 1 .. Cardinality(KeptValuesOf(P)) <=> j \in DOMAIN SpecAt(P).values
         /\ j \in DOMAIN SpecAt(P).values =>
              j \in KeptValuesOf(P) /\ RankIn(KeptValuesOf(P), j) = RankIn(KeptOf(P), j)
<1>. DEFINE K == KeptOf(P)
            V == KeptValuesOf(P)
            values == SpecAt(P).values
            T == {i \in K : i <= j}
<1>1. /\ K \in SUBSET Nat /\ IsFiniteSet(K) /\ V \in SUBSET Nat /\ IsFiniteSet(V)
      /\ V = {i \in K : i \in DOMAIN values} /\ values \in Seq(Value)
  BY SpecTyped
<1>2. Len(values) \in Nat /\ DOMAIN values = 1 .. Len(values)
  BY <1>1
<1>3. j \in K /\ j \in Nat
  BY <1>1
<1>. HIDE DEF K, V, values
<1>4. Cardinality(K) \in Nat /\ Cardinality(V) \in Nat
  BY <1>1, FS_CardinalityType
<1>5. CASE j \in DOMAIN values
  <2>1. j \in V
    BY <1>1, <1>3, <1>5
  <2>2. {i \in V : i <= j} = T
    <3>1. \A i \in K : i <= j => i \in DOMAIN values
      <4>1. \A i \in DOMAIN SpecAt(P).names : i \in Nat \ {0}
        <5>1. SpecAt(P).names \in Seq(Idents \cup {Blank})
          BY SpecTyped
        <5>2. DOMAIN SpecAt(P).names = 1 .. Len(SpecAt(P).names) /\ Len(SpecAt(P).names) \in Nat
          BY <5>1
        <5>. QED
          BY <5>2
      <4>2. \A i \in K : i \in Nat \ {0}
        BY <4>1, SpecTyped DEF K
      <4>. QED
        BY <1>2, <1>3, <1>5, <4>2
    <3>. QED
      BY <1>1, <3>1
  <2>3. RankIn(V, j) = RankIn(K, j)
    BY <2>2 DEF RankIn
  <2>4. RankIn(V, j) \in 1 .. Cardinality(V)
    BY <1>1, <2>1, RankType
  <2>. QED
    BY <1>5, <2>1, <2>3, <2>4 DEF K, V, values
<1>6. CASE j \notin DOMAIN values
  <2>1. V \in SUBSET T /\ j \in T /\ j \notin V
    <3>1. \A i \in V : i <= j
      <4>1. \A i \in V : i \in Nat /\ i <= Len(values)
        BY <1>1, <1>2
      <4>2. j > Len(values)
        <5>1. j # 0
          <6>1. SpecAt(P).names \in Seq(Idents \cup {Blank}) /\ j \in DOMAIN SpecAt(P).names
            BY SpecTyped
          <6>. QED
            BY <6>1
        <5>. QED
          BY <1>2, <1>3, <1>6, <5>1
      <4>. QED
        BY <1>2, <1>3, <4>1, <4>2
    <3>. QED
      BY <1>1, <1>3, <1>6, <3>1
  <2>2. IsFiniteSet(T)
    BY <1>1, FS_Subset
  <2>3. Cardinality(V) <= Cardinality(T) /\ (Cardinality(T) = Cardinality(V) => T = V)
    BY <2>1, <2>2, FS_Subset
  <2>4. Cardinality(T) \in Nat
    BY <2>2, FS_CardinalityType
  <2>5. ~(RankIn(K, j) <= Cardinality(V))
    BY <1>4, <2>1, <2>3, <2>4 DEF RankIn
  <2>. QED
    BY <1>6, <2>5 DEF K, V, values
<1>. QED
  BY <1>5, <1>6

(* A variable that is no converter is left of its declaration. *)
LEMMA KindredIsLeft ==
  ASSUME pkg \in Packages, Compiles, mods = AllModules, convs = AllInjectors, NEW p \in Kindred, p \notin convs
  PROVE  LET f == p[1]  d == p[2]  t == p[3]  P == <<p[1], p[2], p[3]>>
             s == RankIn(FullOf(f, d), t)
             k == RankIn(KeptOf(P), p[4])
             new == EraseDirectives(f, d)
             spec == new.specs[s]
         IN  /\ f \in DOMAIN pkg /\ d \in WholeDecls(f) /\ new.func = NoName
             /\ s \in DOMAIN new.specs /\ k \in DOMAIN spec.names /\ spec.names[k] = NameAt(p)
             /\ P \in SpecPlaces /\ p[4] \in KeptOf(P) /\ t \in FullOf(f, d)
             /\ p[4] \in DOMAIN SpecAt(p).values <=> k \in DOMAIN spec.values
             /\ p[4] \in DOMAIN SpecAt(p).values => spec.values[k] = GarbleValue(DeclAt(p), ValueAt(p))
<1>. DEFINE f == p[1]
            d == p[2]
            t == p[3]
            j == p[4]
            P == <<f, d, t>>
            decl == pkg[f].decls[d]
            x == GarbleSpec(decl, EraseSpec(P))
            s == RankIn(FullOf(f, d), t)
            k == RankIn(KeptOf(P), j)
            new == EraseDirectives(f, d)
<1>1. /\ f \in DOMAIN pkg /\ d \in DOMAIN pkg[f].decls /\ t \in DOMAIN decl.specs /\ P \in SpecPlaces
      /\ DeclAt(p) = decl /\ SpecAt(p) = SpecAt(P) /\ j \in DOMAIN SpecAt(P).names
      /\ SpecAt(P).form = "spec" /\ p = <<f, d, t, j>>
  BY KindredIs, PlaceParts
<1>2. p = Append(P, j)
  BY <1>1, AppendIs
<1>3. decl.func = NoName /\ pkg[f].tagged
  BY <1>1, KindredIs DEF Local, Tagged
<1>4. j \in KeptOf(P)
  BY <1>1, <1>2, KindredIs DEF KeptOf, Kept
<1>5. ErasedSpecs(f, d)[t] = EraseSpec(P)
  BY <1>1, <1>3, LeftOfGroup
<1>. HIDE DEF P
<1>6. /\ DOMAIN x.names = 1 .. Cardinality(KeptOf(P))
      /\ k \in DOMAIN x.names /\ x.names[k] = GarbleName(decl, KeptName(p))
      /\ DOMAIN x.values = 1 .. Cardinality(KeptValuesOf(P))
      /\ \A i \in KeptValuesOf(P) :
           /\ RankIn(KeptValuesOf(P), i) \in DOMAIN x.values
           /\ x.values[RankIn(KeptValuesOf(P), i)] = GarbleValue(decl, SpecAt(P).values[i])
  <2>. HIDE DEF decl
  <2>1. /\ DOMAIN x.names = 1 .. Cardinality(KeptOf(P))
        /\ \A i \in KeptOf(P) :
             /\ RankIn(KeptOf(P), i) \in DOMAIN x.names
             /\ x.names[RankIn(KeptOf(P), i)] = GarbleName(decl, KeptName(Append(P, i)))
        /\ DOMAIN x.values = 1 .. Cardinality(KeptValuesOf(P))
        /\ \A i \in KeptValuesOf(P) :
             /\ RankIn(KeptValuesOf(P), i) \in DOMAIN x.values
             /\ x.values[RankIn(KeptValuesOf(P), i)] = GarbleValue(decl, SpecAt(P).values[i])
    BY <1>1, GarbledErased
  <2>. QED
    BY <1>2, <1>4, <2>1
<1>7. x.names[k] = NameAt(p)
  BY <1>6, KindredIs DEF GarbleName, KeptName
<1>8. EraseSpec(P).names # <<>>
  <2>1. IsSpec(EraseSpec(P))
    BY <1>1, ErasedSpecIs
  <2>2. DOMAIN x.names = DOMAIN EraseSpec(P).names
    BY <2>1, GarbledSpecIs
  <2>3. k \in DOMAIN EraseSpec(P).names
    BY <1>6, <2>2
  <2>. HIDE DEF k
  <2>. QED
    BY <2>3
<1>9. t \in FullOf(f, d)
  BY <1>1, <1>5, <1>8 DEF FullOf, FullSpecs, ErasedSpecs
<1>10. s \in DOMAIN new.specs /\ new.specs[s] = x /\ new.func = NoName
  <2>1. s \in DOMAIN new.specs /\ new.specs[s] = GarbleSpec(decl, ErasedSpecs(f, d)[t]) /\ new.func = decl.func
    BY <1>1, <1>9, ErasedDeclIs
  <2>. QED
    BY <1>3, <1>5, <2>1
<1>11. d \in WholeDecls(f)
  <2>1. new.specs # <<>>
    BY <1>10
  <2>. QED
    BY <1>1, <1>3, <2>1 DEF WholeDecls
<1>12. j \in DOMAIN SpecAt(P).values <=> k \in DOMAIN x.values
  BY <1>1, <1>4, <1>6, ValueOfName
<1>13. ASSUME j \in DOMAIN SpecAt(P).values
       PROVE  x.values[k] = GarbleValue(decl, ValueAt(p))
  <2>1. j \in KeptValuesOf(P) /\ RankIn(KeptValuesOf(P), j) = k
    BY <1>1, <1>4, <1>13, ValueOfName
  <2>2. x.values[k] = GarbleValue(decl, SpecAt(P).values[j])
    BY <1>6, <2>1
  <2>. QED
    BY <1>1, <2>2 DEF ValueAt
<1>. QED
  BY <1>1, <1>4, <1>6, <1>7, <1>9, <1>10, <1>11, <1>12, <1>13 DEF P

LEMMA DeclaredAt ==
  ASSUME NEW name
  PROVE  \A place : place \in DeclaredIn(name) <=>
           \/ \E i \in DOMAIN out : out[i].op = "func" /\ NameAt(out[i].at) = name /\ place = <<i>>
           \/ \E i \in DOMAIN out : \E s \in DOMAIN out[i].decl.specs : \E k \in DOMAIN out[i].decl.specs[s].names :
                /\ out[i].op = "decl" /\ out[i].decl.func = NoName
                /\ out[i].decl.specs[s].names[k] = name /\ place = <<i, s, k>>
  BY DEF DeclaredIn

LEMMA ConverterDeclaredOnce ==
  ASSUME Progress, Output, phase = "done", NEW p \in Kindred, p \in convs
  PROVE  \E i \in DOMAIN out : DeclaredIn(NameAt(p)) = {<<i>>}
<1>1. PICK i \in DOMAIN out : out[i] = [op |-> "func", at |-> p]
  BY DoneIs
<1>2. ASSUME NEW l \in DOMAIN out, out[l].op = "func", NameAt(out[l].at) = NameAt(p)
      PROVE  l = i
  <2>1. PICK q \in convs : out[l] = [op |-> "func", at |-> q]
    BY <1>2, DoneIs DEF Merged
  <2>2. q \in VarPlaces /\ NameAt(q) = NameAt(p)
    BY <1>2, <2>1, DoneIs, InjectorIs
  <2>3. q = p
    BY <2>2, DoneIs, KindredIs
  <2>4. Distinct(out)
    BY DoneIs
  <2>. QED
    BY <1>1, <2>1, <2>3, <2>4 DEF Distinct
<1>3. ASSUME NEW l \in DOMAIN out, NEW s \in DOMAIN out[l].decl.specs, NEW k \in DOMAIN out[l].decl.specs[s].names,
             out[l].op = "decl", out[l].decl.func = NoName, out[l].decl.specs[s].names[k] = NameAt(p)
      PROVE  FALSE
  <2>1. PICK f \in DOMAIN pkg : \E d \in WholeDecls(f) : out[l] = Merged(f, d)
    BY <1>3, DoneIs
  <2>2. PICK d \in WholeDecls(f) : out[l] = Merged(f, d)
    BY <2>1
  <2>3. out[l].decl = EraseDirectives(f, d) /\ d \in DOMAIN pkg[f].decls
    BY <2>2 DEF Merged, WholeDecls
  <2>4. pkg[f].decls[d].func = NoName
    BY <1>3, <2>3, DoneIs, ErasedDeclIs
  <2>5. pkg \in Packages /\ Compiles /\ mods = AllModules /\ convs = AllInjectors
    BY DoneIs
  <2>6. s \in DOMAIN EraseDirectives(f, d).specs /\ k \in DOMAIN EraseDirectives(f, d).specs[s].names
        /\ EraseDirectives(f, d).specs[s].names[k] = NameAt(p)
    BY <1>3, <2>3
  <2>7. p \notin convs
    BY <2>4, <2>5, <2>6, NamedByItem
  <2>. QED
    BY <2>7
<1>4. \A place : place \in DeclaredIn(NameAt(p)) <=> place = <<i>>
  <2>1. out[i].op = "func" /\ NameAt(out[i].at) = NameAt(p)
    BY <1>1
  <2>2. <<i>> \in DeclaredIn(NameAt(p))
    BY <2>1, DeclaredAt
  <2>3. \A place : place \in DeclaredIn(NameAt(p)) => place = <<i>>
    BY <1>2, <1>3, DeclaredAt
  <2>. QED
    BY <2>2, <2>3
<1>5. DeclaredIn(NameAt(p)) = {<<i>>}
  BY <1>4
<1>. QED
  BY <1>5

LEMMA OtherDeclaredOnce ==
  ASSUME Progress, Output, phase = "done", NEW p \in Kindred, p \notin convs
  PROVE  \E i, s, k :
           LET spec == out[i].decl.specs[s]
           IN  /\ DeclaredIn(NameAt(p)) = {<<i, s, k>>}
               /\ p[4] \in DOMAIN SpecAt(p).values <=> k \in DOMAIN spec.values
               /\ p[4] \in DOMAIN SpecAt(p).values => spec.values[k] = GarbleValue(DeclAt(p), ValueAt(p))
<1>. DEFINE f == p[1]
            d == p[2]
            t == p[3]
            P == <<p[1], p[2], p[3]>>
            s == RankIn(FullOf(f, d), t)
            k == RankIn(KeptOf(P), p[4])
            new == EraseDirectives(f, d)
            spec == new.specs[s]
<1>0. pkg \in Packages /\ Compiles /\ mods = AllModules /\ convs = AllInjectors
  BY DoneIs
<1>1. /\ f \in DOMAIN pkg /\ d \in WholeDecls(f) /\ new.func = NoName
      /\ s \in DOMAIN new.specs /\ k \in DOMAIN spec.names /\ spec.names[k] = NameAt(p)
      /\ P \in SpecPlaces /\ p[4] \in KeptOf(P) /\ t \in FullOf(f, d)
      /\ p[4] \in DOMAIN SpecAt(p).values <=> k \in DOMAIN spec.values
      /\ p[4] \in DOMAIN SpecAt(p).values => spec.values[k] = GarbleValue(DeclAt(p), ValueAt(p))
  BY <1>0, KindredIsLeft
<1>2. PICK i \in DOMAIN out : out[i] = Merged(f, d)
  BY <1>1, DoneIs
<1>3. out[i].op = "decl" /\ out[i].decl = new
  BY <1>2 DEF Merged
<1>4. ASSUME NEW l \in DOMAIN out, out[l].op = "func", NameAt(out[l].at) = NameAt(p)
      PROVE  FALSE
  <2>1. PICK q \in convs : out[l] = [op |-> "func", at |-> q]
    BY <1>4, DoneIs DEF Merged
  <2>2. q \in VarPlaces /\ NameAt(q) = NameAt(p)
    BY <1>0, <1>4, <2>1, InjectorIs
  <2>. QED
    BY <1>0, <2>1, <2>2, KindredIs
<1>5. ASSUME NEW l \in DOMAIN out, NEW u \in DOMAIN out[l].decl.specs, NEW v \in DOMAIN out[l].decl.specs[u].names,
             out[l].op = "decl", out[l].decl.func = NoName, out[l].decl.specs[u].names[v] = NameAt(p)
      PROVE  l = i /\ u = s /\ v = k
  <2>1. PICK g \in DOMAIN pkg : \E e \in WholeDecls(g) : out[l] = Merged(g, e)
    BY <1>5, DoneIs
  <2>2. PICK e \in WholeDecls(g) : out[l] = Merged(g, e)
    BY <2>1
  <2>3. out[l].decl = EraseDirectives(g, e) /\ e \in DOMAIN pkg[g].decls
    BY <2>2 DEF Merged, WholeDecls
  <2>4. pkg[g].decls[e].func = NoName
    BY <1>0, <1>5, <2>3, ErasedDeclIs
  <2>5. p[1] = g /\ p[2] = e /\ p[3] = Nth(FullOf(g, e), u)
        /\ p[4] = Nth(KeptOf(P), v) /\ v \in 1 .. Cardinality(KeptOf(P))
    BY <1>0, <1>5, <2>3, <2>4, NamedByItem
  <2>6. l = i
    <3>1. out[l] = out[i] /\ Distinct(out)
      BY <1>2, <2>2, <2>5, DoneIs
    <3>. QED
      BY <3>1 DEF Distinct
  <2>7. u = s
    <3>1. FullOf(f, d) \in SUBSET Nat /\ IsFiniteSet(FullOf(f, d))
          /\ DOMAIN EraseDirectives(f, d).specs = 1 .. Cardinality(FullOf(f, d))
      BY <1>0, <2>3, <2>5, ErasedDeclIs
    <3>2. u \in 1 .. Cardinality(FullOf(f, d)) /\ t = Nth(FullOf(f, d), u)
      BY <1>5, <2>3, <2>5, <3>1
    <3>. QED
      BY <3>1, <3>2, NthIsRanked
  <2>8. v = k
    <3>1. KeptOf(P) \in SUBSET Nat /\ IsFiniteSet(KeptOf(P))
      BY <1>0, <1>1, SpecTyped
    <3>. QED
      BY <2>5, <3>1, NthIsRanked
  <2>. QED
    BY <2>6, <2>7, <2>8
<1>. HIDE DEF new, s, k
<1>6. \A place : place \in DeclaredIn(NameAt(p)) <=> place = <<i, s, k>>
  <2>1. s \in DOMAIN out[i].decl.specs /\ k \in DOMAIN out[i].decl.specs[s].names
        /\ out[i].decl.func = NoName /\ out[i].decl.specs[s].names[k] = NameAt(p)
    BY <1>1, <1>3
  <2>2. \A place : place \in DeclaredIn(NameAt(p)) => place = <<i, s, k>>
    BY <1>4, <1>5, DeclaredAt
  <2>3. <<i, s, k>> \in DeclaredIn(NameAt(p))
    BY <1>3, <2>1, DeclaredAt
  <2>. QED
    BY <2>2, <2>3
<1>7. DeclaredIn(NameAt(p)) = {<<i, s, k>>}
  BY <1>6
<1>. QED
  BY <1>1, <1>3, <1>7

LEMMA GarbledIsOwn ==
  ASSUME NEW decl, NEW v \in Value
  PROVE  LET w == GarbleValue(decl, v)
         IN  v.call = w.call /\ v.inside = w.inside /\ w.uses \ {Garbage} \subseteq v.uses
  BY GarbledValueIs DEF GarbleName

LEMMA DoneDeclares ==
  ASSUME Progress, Output
  PROVE  DeclaredOnce
<1>. SUFFICES ASSUME phase = "done", NEW p \in Kindred
              PROVE  \E place \in DeclaredIn(NameAt(p)) :
                       /\ DeclaredIn(NameAt(p)) = {place}
                       /\ IF p \in convs THEN Len(place) = 1
                          ELSE LET spec == out[place[1]].decl.specs[place[2]]
                               IN  /\ Len(place) = 3
                                   /\ p[4] \in DOMAIN SpecAt(p).values <=> place[3] \in DOMAIN spec.values
                                   /\ p[4] \in DOMAIN SpecAt(p).values =>
                                        LET v == ValueAt(p)  w == spec.values[place[3]]
                                        IN  v.call = w.call /\ v.inside = w.inside /\ w.uses \ {Garbage} \subseteq v.uses
  BY DEF DeclaredOnce
<1>1. CASE p \in convs
  <2>1. PICK i \in DOMAIN out : DeclaredIn(NameAt(p)) = {<<i>>}
    BY <1>1, ConverterDeclaredOnce
  <2>2. Len(<<i>>) = 1 /\ <<i>> \in DeclaredIn(NameAt(p))
    BY <2>1
  <2>. QED
    BY <1>1, <2>1, <2>2
<1>2. CASE p \notin convs
  <2>1. PICK i, s, k :
          LET spec == out[i].decl.specs[s]
          IN  /\ DeclaredIn(NameAt(p)) = {<<i, s, k>>}
              /\ p[4] \in DOMAIN SpecAt(p).values <=> k \in DOMAIN spec.values
              /\ p[4] \in DOMAIN SpecAt(p).values => spec.values[k] = GarbleValue(DeclAt(p), ValueAt(p))
    BY <1>2, OtherDeclaredOnce
  <2>2. PICK place : place = <<i, s, k>>
    OBVIOUS
  <2>3. Len(place) = 3 /\ place[1] = i /\ place[2] = s /\ place[3] = k
    BY <2>2
  <2>4. place \in DeclaredIn(NameAt(p)) /\ DeclaredIn(NameAt(p)) = {place}
    BY <2>1, <2>2
  <2>5. p[4] \in DOMAIN SpecAt(p).values => ValueAt(p) \in Value
    <3>1. pkg \in Packages /\ p \in NamePlaces
      BY DoneIs DEF Kindred, VarPlaces
    <3>. QED
      BY <3>1, PlaceIs, PlaceParts
  <2>6. p[4] \in DOMAIN SpecAt(p).values =>
          LET v == ValueAt(p)  w == out[i].decl.specs[s].values[k]
          IN  v.call = w.call /\ v.inside = w.inside /\ w.uses \ {Garbage} \subseteq v.uses
    BY <2>1, <2>5, GarbledIsOwn
  <2>. QED
    BY <1>2, <2>1, <2>3, <2>4, <2>6
<1>. QED
  BY <1>1, <1>2

(* Whatever a tagged file declares that is no module is declared once in     *)
(* what is written, a converter as a function and a variable with the value  *)
(* it had (convgen.go:230-274).                                              *)
THEOREM KeptIsDeclaredOnce == Spec => []DeclaredOnce
<1>1. Progress /\ Output => DeclaredOnce
  BY DoneDeclares
<1>. QED
  BY <1>1, RunsProgress, RunsOutput, PTL

-----------------------------------------------------------------------------
(* What is written stands alone.  A name or a value that goes.               *)
Gone(x) == SpecAt(x).form = "spec" /\ Erased(x)

LEMMA FullIs ==
  ASSUME pkg \in Packages, NEW f \in DOMAIN pkg, NEW d \in DOMAIN pkg[f].decls,
         NEW t \in DOMAIN pkg[f].decls[d].specs
  PROVE  SpecAt(<<f, d, t>>).form # "spec" \/ KeptOf(<<f, d, t>>) # {} => t \in FullOf(f, d)
<1>. DEFINE P == <<f, d, t>>
            e == ErasedSpecs(f, d)[t]
<1>1. P \in SpecPlaces /\ e = IF SpecAt(P).form = "spec" THEN EraseSpec(P) ELSE SpecAt(P)
  BY SpecOfDecl
<1>2. t \in DOMAIN ErasedSpecs(f, d)
  BY DEF ErasedSpecs
<1>. HIDE DEF P
<1>3. CASE SpecAt(P).form # "spec"
  BY <1>1, <1>2, <1>3 DEF FullOf, FullSpecs, P
<1>4. CASE SpecAt(P).form = "spec" /\ KeptOf(P) # {}
  <2>1. PICK j : j \in KeptOf(P)
    BY <1>4
  <2>2. EraseSpec(P).names = Picked([i \in DOMAIN SpecAt(P).names |-> KeptName(Append(P, i))], KeptOf(P))
    BY <1>1, ErasedSpecIs
  <2>3. KeptOf(P) \in SUBSET Nat /\ IsFiniteSet(KeptOf(P))
    BY <1>1, SpecTyped
  <2>4. RankIn(KeptOf(P), j) \in DOMAIN EraseSpec(P).names
    BY <2>1, <2>2, <2>3, PickedType
  <2>5. e.names # <<>>
    <3>1. PICK k : k \in DOMAIN e.names
      BY <1>1, <1>4, <2>4
    <3>. HIDE DEF e
    <3>. QED
      BY <3>1
  <2>. QED
    BY <1>2, <2>5 DEF FullOf, FullSpecs
<1>. QED
  BY <1>3, <1>4 DEF P

LEMMA ModuleIs ==
  ASSUME pkg \in Packages, NEW m \in AllModules
  PROVE  /\ m \in ValuePlaces /\ m \in NamePlaces /\ m \in VarPlaces /\ Tagged(m) /\ ~Local(m)
         /\ SpecAt(m).form = "spec" /\ ValueAt(m).call = "Module"
<1>1. m \in ValuePlaces /\ Tagged(m) /\ ~Local(m) /\ m[4] \in DOMAIN SpecAt(m).names /\ ValueAt(m).call = "Module"
  BY DEF AllModules, FindModules
<1>2. m \in NamePlaces
  BY <1>1, PlaceIs
<1>3. SpecAt(m).form = "spec"
  BY <1>1, PlaceParts
<1>. QED
  BY <1>1, <1>2, <1>3 DEF VarPlaces

(* How a name and a value of the source are written. *)
NewName(x)  == GarbleName(DeclAt(x), KeptName(x))
NewValue(x) == GarbleValue(DeclAt(x), ValueAt(x))

LEMMA SpecOfName ==
  ASSUME pkg \in Packages, mods = AllModules, NEW x \in NamePlaces, ~Gone(x),
         NEW e, e = GarbleSpec(DeclAt(x), ErasedSpecs(x[1], x[2])[x[3]])
  PROVE  /\ e.form = SpecAt(x).form
         /\ \E k \in DOMAIN e.names : e.names[k] = NewName(x)
         /\ x[3] \in FullOf(x[1], x[2])
<1>. DEFINE P == <<x[1], x[2], x[3]>>
            spec == SpecAt(P)
            decl == DeclAt(x)
            j == x[4]
<1>1. /\ x[1] \in DOMAIN pkg /\ x[2] \in DOMAIN pkg[x[1]].decls /\ x[3] \in DOMAIN pkg[x[1]].decls[x[2]].specs
      /\ P \in SpecPlaces /\ SpecAt(x) = spec /\ j \in DOMAIN spec.names /\ spec \in VarSpec
      /\ x = <<x[1], x[2], x[3], x[4]>>
  BY PlaceParts
<1>2. ErasedSpecs(x[1], x[2])[x[3]] = IF spec.form = "spec" THEN EraseSpec(P) ELSE spec
  BY <1>1, SpecOfDecl
<1>3. Append(P, j) = x
  BY <1>1, NamePlaceIs
<1>4. NameAt(x) = spec.names[j]
  BY <1>1 DEF NameAt
<1>5. spec.form # "spec" \/ KeptOf(P) # {} => x[3] \in FullOf(x[1], x[2])
  BY <1>1, FullIs
<1>. HIDE DEF P, spec, decl, j
<1>6. CASE spec.form = "spec"
  <2>. DEFINE K == KeptOf(P)
  <2>1. e = GarbleSpec(decl, EraseSpec(P))
    BY <1>2, <1>6 DEF decl
  <2>2. /\ e.form = spec.form
        /\ \A i \in K : RankIn(K, i) \in DOMAIN e.names /\ e.names[RankIn(K, i)] = GarbleName(decl, KeptName(Append(P, i)))
    BY <1>1, <2>1, GarbledErased DEF spec
  <2>3. j \in K
    BY <1>1, <1>3, <1>6 DEF KeptOf, Kept, Gone, spec
  <2>4. e.names[RankIn(K, j)] = NewName(x)
    BY <1>3, <2>2, <2>3 DEF NewName, decl
  <2>. QED
    BY <1>1, <1>5, <2>2, <2>3, <2>4
<1>7. CASE spec.form # "spec"
  <2>1. e = GarbleSpec(decl, spec)
    BY <1>2, <1>7 DEF decl
  <2>2. IsSpec(spec)
    BY <1>1, SpecTyped DEF spec
  <2>3. e.form = spec.form /\ DOMAIN e.names = DOMAIN spec.names
        /\ \A i \in DOMAIN spec.names : e.names[i] = GarbleName(decl, spec.names[i])
    BY <2>1, <2>2, GarbledSpecIs
  <2>4. x \notin mods
    BY <1>1, <1>7, ModuleIs
  <2>5. e.names[j] = NewName(x)
    BY <1>1, <1>4, <2>3, <2>4 DEF NewName, KeptName, decl
  <2>. QED
    BY <1>1, <1>5, <1>7, <2>3, <2>5
<1>. QED
  BY <1>6, <1>7

LEMMA NameOfSpec ==
  ASSUME pkg \in Packages, mods = AllModules, NEW f \in DOMAIN pkg, NEW d \in DOMAIN pkg[f].decls,
         NEW t \in DOMAIN pkg[f].decls[d].specs,
         NEW e, e = GarbleSpec(pkg[f].decls[d], ErasedSpecs(f, d)[t]), NEW k \in DOMAIN e.names
  PROVE  \E x \in NamePlaces : /\ x[1] = f /\ x[2] = d /\ SpecAt(x).form = e.form
                               /\ ~Gone(x) /\ e.names[k] = NewName(x)
<1>. DEFINE P == <<f, d, t>>
            spec == SpecAt(P)
            decl == pkg[f].decls[d]
<1>1. /\ P \in SpecPlaces /\ spec = decl.specs[t]
      /\ ErasedSpecs(f, d)[t] = IF spec.form = "spec" THEN EraseSpec(P) ELSE spec
  BY SpecOfDecl
<1>2. IsSpec(spec)
  BY <1>1, SpecTyped
<1>3. ASSUME NEW j \in DOMAIN spec.names
      PROVE  /\ Append(P, j) \in NamePlaces /\ Append(P, j)[1] = f /\ Append(P, j)[2] = d
             /\ SpecAt(Append(P, j)) = spec /\ DeclAt(Append(P, j)) = decl
             /\ NameAt(Append(P, j)) = spec.names[j]
  <2>. PICK q : q = <<f, d, t, j>>
    OBVIOUS
  <2>1. q = Append(P, j)
    BY NamePlaceIs
  <2>2. SpecAt(q) = spec /\ DeclAt(q) = decl /\ NameAt(q) = SpecAt(q).names[j] /\ q[1] = f /\ q[2] = d
        /\ (j \in DOMAIN SpecAt(q).names => q \in NamePlaces)
    BY <1>1, NamePlaceIs
  <2>. QED
    BY <2>1, <2>2
<1>0. e = GarbleSpec(decl, ErasedSpecs(f, d)[t])
  OBVIOUS
<1>. HIDE DEF P, spec, decl
<1>4. CASE spec.form = "spec"
  <2>. DEFINE K == KeptOf(P)
  <2>1. e = GarbleSpec(decl, EraseSpec(P))
    BY <1>0, <1>1, <1>4
  <2>2. e.form = spec.form /\ Nth(K, k) \in K /\ e.names[k] = GarbleName(decl, KeptName(Append(P, Nth(K, k))))
    BY <1>1, <2>1, GarbledErased DEF spec
  <2>3. PICK j : j = Nth(K, k)
    OBVIOUS
  <2>4. j \in DOMAIN spec.names /\ ~Erased(Append(P, j))
    BY <2>2, <2>3 DEF KeptOf, Kept, spec
  <2>5. e.names[k] = NewName(Append(P, j)) /\ ~Gone(Append(P, j))
    BY <1>3, <2>2, <2>3, <2>4 DEF NewName, Gone
  <2>. QED
    BY <1>3, <2>2, <2>4, <2>5
<1>5. CASE spec.form # "spec"
  <2>1. e = GarbleSpec(decl, spec)
    BY <1>0, <1>1, <1>5
  <2>2. e.form = spec.form /\ k \in DOMAIN spec.names /\ e.names[k] = GarbleName(decl, spec.names[k])
    BY <1>2, <2>1, GarbledSpecIs
  <2>3. Append(P, k) \notin mods /\ ~Gone(Append(P, k))
    BY <1>3, <1>5, <2>2, ModuleIs DEF Gone
  <2>4. e.names[k] = NewName(Append(P, k))
    BY <1>3, <2>2, <2>3 DEF NewName, KeptName
  <2>. QED
    BY <1>3, <2>2, <2>3, <2>4
<1>. QED
  BY <1>4, <1>5

LEMMA ValuesNamed ==
  ASSUME pkg \in Packages, NEW P \in SpecPlaces, SpecAt(P).form # "stmt"
  PROVE  DOMAIN SpecAt(P).values \subseteq DOMAIN SpecAt(P).names
<1>1. SpecAt(P) \in VarSpec /\ SpecAt(P).names \in Seq(Idents \cup {Blank}) /\ SpecAt(P).values \in Seq(Value)
  BY SpecTyped
<1>2. Len(SpecAt(P).values) <= Len(SpecAt(P).names)
  BY <1>1 DEF VarSpec
<1>3. /\ Len(SpecAt(P).values) \in Nat /\ DOMAIN SpecAt(P).values = 1 .. Len(SpecAt(P).values)
      /\ Len(SpecAt(P).names) \in Nat /\ DOMAIN SpecAt(P).names = 1 .. Len(SpecAt(P).names)
  BY <1>1
<1>. QED
  BY <1>2, <1>3

LEMMA SpecOfValue ==
  ASSUME pkg \in Packages, NEW x \in ValuePlaces, ~Gone(x),
         NEW e, e = GarbleSpec(DeclAt(x), ErasedSpecs(x[1], x[2])[x[3]])
  PROVE  /\ \E k \in DOMAIN e.values : e.values[k] = NewValue(x)
         /\ x[3] \in FullOf(x[1], x[2])
<1>. DEFINE P == <<x[1], x[2], x[3]>>
            spec == SpecAt(P)
            decl == DeclAt(x)
            j == x[4]
<1>1. /\ x[1] \in DOMAIN pkg /\ x[2] \in DOMAIN pkg[x[1]].decls /\ x[3] \in DOMAIN pkg[x[1]].decls[x[2]].specs
      /\ P \in SpecPlaces /\ SpecAt(x) = spec /\ j \in DOMAIN spec.values /\ spec \in VarSpec
      /\ x = <<x[1], x[2], x[3], x[4]>>
  BY PlaceParts
<1>2. ErasedSpecs(x[1], x[2])[x[3]] = IF spec.form = "spec" THEN EraseSpec(P) ELSE spec
  BY <1>1, SpecOfDecl
<1>3. Append(P, j) = x
  BY <1>1, NamePlaceIs
<1>4. ValueAt(x) = spec.values[j]
  BY <1>1 DEF ValueAt
<1>5. spec.form # "spec" \/ KeptOf(P) # {} => x[3] \in FullOf(x[1], x[2])
  BY <1>1, FullIs
<1>0. spec.form = "spec" => j \in DOMAIN spec.names
  BY <1>1, ValuesNamed
<1>. HIDE DEF P, spec, decl, j
<1>6. CASE spec.form = "spec"
  <2>. DEFINE V == KeptValuesOf(P)
  <2>1. e = GarbleSpec(decl, EraseSpec(P))
    BY <1>2, <1>6 DEF decl
  <2>2. \A i \in V : RankIn(V, i) \in DOMAIN e.values /\ e.values[RankIn(V, i)] = GarbleValue(decl, spec.values[i])
    BY <1>1, <2>1, GarbledErased DEF spec
  <2>3. j \in KeptOf(P)
    BY <1>0, <1>1, <1>3, <1>6 DEF KeptOf, Kept, Gone, spec
  <2>4. V = {i \in KeptOf(P) : i \in DOMAIN spec.values}
    BY <1>1, SpecTyped DEF spec
  <2>5. j \in V
    BY <1>1, <2>3, <2>4
  <2>6. e.values[RankIn(V, j)] = NewValue(x)
    BY <1>4, <2>2, <2>5 DEF NewValue, decl
  <2>. QED
    BY <1>1, <1>5, <2>2, <2>3, <2>5, <2>6
<1>7. CASE spec.form # "spec"
  <2>1. e = GarbleSpec(decl, spec)
    BY <1>2, <1>7 DEF decl
  <2>2. IsSpec(spec)
    BY <1>1, SpecTyped DEF spec
  <2>3. DOMAIN e.values = DOMAIN spec.values
        /\ \A i \in DOMAIN spec.values : e.values[i] = GarbleValue(decl, spec.values[i])
    BY <2>1, <2>2, GarbledSpecIs
  <2>4. e.values[j] = NewValue(x)
    BY <1>1, <1>4, <2>3 DEF NewValue, decl
  <2>. QED
    BY <1>1, <1>5, <1>7, <2>3, <2>4
<1>. QED
  BY <1>6, <1>7

LEMMA ValueOfSpec ==
  ASSUME pkg \in Packages, NEW f \in DOMAIN pkg, NEW d \in DOMAIN pkg[f].decls,
         NEW t \in DOMAIN pkg[f].decls[d].specs,
         NEW e, e = GarbleSpec(pkg[f].decls[d], ErasedSpecs(f, d)[t]), NEW k \in DOMAIN e.values
  PROVE  \E x \in ValuePlaces : x[1] = f /\ x[2] = d /\ ~Gone(x) /\ e.values[k] = NewValue(x)
<1>. DEFINE P == <<f, d, t>>
            spec == SpecAt(P)
            decl == pkg[f].decls[d]
<1>1. /\ P \in SpecPlaces /\ spec = decl.specs[t]
      /\ ErasedSpecs(f, d)[t] = IF spec.form = "spec" THEN EraseSpec(P) ELSE spec
  BY SpecOfDecl
<1>2. IsSpec(spec)
  BY <1>1, SpecTyped
<1>3. ASSUME NEW j \in DOMAIN spec.values
      PROVE  /\ Append(P, j) \in ValuePlaces /\ Append(P, j)[1] = f /\ Append(P, j)[2] = d
             /\ SpecAt(Append(P, j)) = spec /\ DeclAt(Append(P, j)) = decl
             /\ ValueAt(Append(P, j)) = spec.values[j]
  <2>. PICK q : q = <<f, d, t, j>>
    OBVIOUS
  <2>1. q = Append(P, j)
    BY NamePlaceIs
  <2>2. SpecAt(q) = spec /\ DeclAt(q) = decl /\ ValueAt(q) = SpecAt(q).values[j] /\ q[1] = f /\ q[2] = d
        /\ (j \in DOMAIN SpecAt(q).values => q \in ValuePlaces)
    BY <1>1, NamePlaceIs
  <2>. QED
    BY <2>1, <2>2
<1>0. e = GarbleSpec(decl, ErasedSpecs(f, d)[t])
  OBVIOUS
<1>. HIDE DEF P, spec, decl
<1>4. CASE spec.form = "spec"
  <2>. DEFINE V == KeptValuesOf(P)
  <2>1. e = GarbleSpec(decl, EraseSpec(P))
    BY <1>0, <1>1, <1>4
  <2>2. Nth(V, k) \in V /\ e.values[k] = GarbleValue(decl, spec.values[Nth(V, k)])
    BY <1>1, <2>1, GarbledErased DEF spec
  <2>3. PICK j : j = Nth(V, k)
    OBVIOUS
  <2>0. V = {i \in KeptOf(P) : i \in DOMAIN spec.values}
    BY <1>1, SpecTyped DEF spec
  <2>4. j \in DOMAIN spec.values /\ ~Erased(Append(P, j))
    BY <2>0, <2>2, <2>3 DEF KeptOf, Kept
  <2>5. e.values[k] = NewValue(Append(P, j)) /\ ~Gone(Append(P, j))
    BY <1>3, <2>2, <2>3, <2>4 DEF NewValue, Gone
  <2>. QED
    BY <1>3, <2>4, <2>5
<1>5. CASE spec.form # "spec"
  <2>1. e = GarbleSpec(decl, spec)
    BY <1>0, <1>1, <1>5
  <2>2. k \in DOMAIN spec.values /\ e.values[k] = GarbleValue(decl, spec.values[k])
    BY <1>2, <2>1, GarbledSpecIs
  <2>3. ~Gone(Append(P, k)) /\ e.values[k] = NewValue(Append(P, k))
    BY <1>3, <1>5, <2>2 DEF Gone, NewValue
  <2>. QED
    BY <1>3, <2>2, <2>3
<1>. QED
  BY <1>4, <1>5

(* The names and values that are left of a declaration: what is written has  *)
(* each, and nothing else.                                                   *)
LEMMA NameStays ==
  ASSUME pkg \in Packages, mods = AllModules, NEW x \in NamePlaces, ~Gone(x)
  PROVE  LET new == EraseDirectives(x[1], x[2])
         IN  \E s \in DOMAIN new.specs :
               new.specs[s].form = SpecAt(x).form /\ \E k \in DOMAIN new.specs[s].names : new.specs[s].names[k] = NewName(x)
<1>. PICK e : e = GarbleSpec(DeclAt(x), ErasedSpecs(x[1], x[2])[x[3]])
  OBVIOUS
<1>. PICK f, d, t : f = x[1] /\ d = x[2] /\ t = x[3]
  OBVIOUS
<1>1. f \in DOMAIN pkg /\ d \in DOMAIN pkg[f].decls /\ DeclAt(x) = pkg[f].decls[d]
  BY PlaceParts
<1>2. e.form = SpecAt(x).form /\ (\E k \in DOMAIN e.names : e.names[k] = NewName(x)) /\ t \in FullOf(f, d)
  BY SpecOfName
<1>3. RankIn(FullOf(f, d), t) \in DOMAIN EraseDirectives(f, d).specs
      /\ EraseDirectives(f, d).specs[RankIn(FullOf(f, d), t)] = e
  BY <1>1, <1>2, ErasedDeclIs
<1>. QED
  BY <1>2, <1>3

LEMMA ValueStays ==
  ASSUME pkg \in Packages, NEW x \in ValuePlaces, ~Gone(x)
  PROVE  NewValue(x) \in ValuesOf(EraseDirectives(x[1], x[2]))
<1>. PICK e : e = GarbleSpec(DeclAt(x), ErasedSpecs(x[1], x[2])[x[3]])
  OBVIOUS
<1>. PICK f, d, t : f = x[1] /\ d = x[2] /\ t = x[3]
  OBVIOUS
<1>1. f \in DOMAIN pkg /\ d \in DOMAIN pkg[f].decls /\ DeclAt(x) = pkg[f].decls[d]
  BY PlaceParts
<1>2. (\E k \in DOMAIN e.values : e.values[k] = NewValue(x)) /\ t \in FullOf(f, d)
  BY SpecOfValue
<1>3. RankIn(FullOf(f, d), t) \in DOMAIN EraseDirectives(f, d).specs
      /\ EraseDirectives(f, d).specs[RankIn(FullOf(f, d), t)] = e
  BY <1>1, <1>2, ErasedDeclIs
<1>4. e \in SpecsOf(EraseDirectives(f, d))
  BY <1>3 DEF SpecsOf
<1>. QED
  BY <1>2, <1>4 DEF ValuesOf

LEMMA NameWas ==
  ASSUME pkg \in Packages, mods = AllModules, NEW f \in DOMAIN pkg, NEW d \in DOMAIN pkg[f].decls,
         NEW spec \in SpecsOf(EraseDirectives(f, d)), NEW k \in DOMAIN spec.names
  PROVE  \E x \in NamePlaces : /\ x[1] = f /\ x[2] = d /\ SpecAt(x).form = spec.form
                               /\ ~Gone(x) /\ spec.names[k] = NewName(x)
<1>1. PICK s \in DOMAIN EraseDirectives(f, d).specs : EraseDirectives(f, d).specs[s] = spec
  BY DEF SpecsOf
<1>2. PICK t : t = Nth(FullOf(f, d), s)
  OBVIOUS
<1>3. t \in DOMAIN pkg[f].decls[d].specs /\ spec = GarbleSpec(pkg[f].decls[d], ErasedSpecs(f, d)[t])
  BY <1>1, <1>2, ErasedDeclIs
<1>4. \A i \in DOMAIN spec.names :
        \E x \in NamePlaces : /\ x[1] = f /\ x[2] = d /\ SpecAt(x).form = spec.form
                              /\ ~Gone(x) /\ spec.names[i] = NewName(x)
  <2>. PICK e, decl, was : e = spec /\ decl = pkg[f].decls[d] /\ was = ErasedSpecs(f, d)[t]
    OBVIOUS
  <2>1. e = GarbleSpec(pkg[f].decls[d], ErasedSpecs(f, d)[t])
    BY <1>3
  <2>2. \A i \in DOMAIN e.names :
        \E x \in NamePlaces : /\ x[1] = f /\ x[2] = d /\ SpecAt(x).form = e.form
                              /\ ~Gone(x) /\ e.names[i] = NewName(x)
    BY <1>3, <2>1, NameOfSpec
  <2>. QED
    BY <2>2
<1>. QED
  BY <1>4

LEMMA ValueWas ==
  ASSUME pkg \in Packages, NEW f \in DOMAIN pkg, NEW d \in DOMAIN pkg[f].decls,
         NEW w \in ValuesOf(EraseDirectives(f, d))
  PROVE  \E x \in ValuePlaces : x[1] = f /\ x[2] = d /\ ~Gone(x) /\ w = NewValue(x)
<1>0. PICK spec \in SpecsOf(EraseDirectives(f, d)) :
        \E l \in DOMAIN spec.values : spec.values[l] = w
  BY DEF ValuesOf
<1>1. PICK s \in DOMAIN EraseDirectives(f, d).specs : EraseDirectives(f, d).specs[s] = spec
  BY <1>0 DEF SpecsOf
<1>2. PICK t : t = Nth(FullOf(f, d), s)
  OBVIOUS
<1>3. t \in DOMAIN pkg[f].decls[d].specs /\ spec = GarbleSpec(pkg[f].decls[d], ErasedSpecs(f, d)[t])
  BY <1>1, <1>2, ErasedDeclIs
<1>. QED
  BY <1>0, <1>3, ValueOfSpec

(* What is known at the end. *)
Settled ==
  /\ pkg \in Packages /\ Compiles /\ mods = AllModules /\ convs = AllInjectors /\ Mistakes = {}
  /\ \A b \in Built :
       \/ \E f \in DOMAIN pkg : \E d \in WholeDecls(f) : b = EraseDirectives(f, d)
       \/ \E f \in DOMAIN pkg : ~pkg[f].tagged /\ \E d \in DOMAIN pkg[f].decls : b = pkg[f].decls[d]
  /\ \A f \in DOMAIN pkg : \A d \in WholeDecls(f) : EraseDirectives(f, d) \in Built
  /\ \A f \in DOMAIN pkg : ~pkg[f].tagged => \A d \in DOMAIN pkg[f].decls : pkg[f].decls[d] \in Built
  /\ Funcs = {NameAt(q) : q \in convs}

LEMMA DoneIsSettled ==
  ASSUME Progress, Output, phase = "done"
  PROVE  Settled
<1>1. /\ pkg \in Packages /\ Compiles /\ mods = AllModules /\ convs = AllInjectors
      /\ Mistakes = {}
      /\ \A i \in DOMAIN out :
           \/ \E q \in convs : out[i] = [op |-> "func", at |-> q]
           \/ out[i].op = "implicit"
           \/ \E f \in DOMAIN pkg : \E d \in WholeDecls(f) : out[i] = Merged(f, d)
      /\ \A q \in convs : \E i \in DOMAIN out : out[i] = [op |-> "func", at |-> q]
      /\ \A f \in DOMAIN pkg : \A d \in WholeDecls(f) : \E i \in DOMAIN out : out[i] = Merged(f, d)
  BY DoneIs
<1>2. \A f, d : Merged(f, d).op = "decl" /\ Merged(f, d).decl = EraseDirectives(f, d)
  BY DEF Merged
<1>3. \A q : [op |-> "func", at |-> q].op = "func" /\ [op |-> "func", at |-> q].at = q
  OBVIOUS
<1>4. \A b \in Rest : \E f \in DOMAIN pkg : ~pkg[f].tagged /\ \E d \in DOMAIN pkg[f].decls : b = pkg[f].decls[d]
  BY DEF Rest
<1>5. \A item \in Decls : \E f \in DOMAIN pkg : \E d \in WholeDecls(f) : item.decl = EraseDirectives(f, d)
  BY <1>1, <1>2, <1>3 DEF Decls
<1>6. ASSUME NEW f \in DOMAIN pkg, NEW d \in WholeDecls(f)
      PROVE  EraseDirectives(f, d) \in Built
  <2>1. PICK i \in DOMAIN out : out[i] = Merged(f, d)
    BY <1>1
  <2>2. out[i] \in Decls /\ out[i].decl = EraseDirectives(f, d)
    BY <1>2, <2>1 DEF Decls
  <2>. QED
    BY <2>2 DEF Built
<1>7. ASSUME NEW f \in DOMAIN pkg, ~pkg[f].tagged, NEW d \in DOMAIN pkg[f].decls
      PROVE  pkg[f].decls[d] \in Built
  BY <1>7 DEF Built, Rest
<1>8. \A n \in Funcs : n \in {NameAt(q) : q \in convs}
  BY <1>1, <1>2, <1>3 DEF Funcs
<1>9. ASSUME NEW q \in convs
      PROVE  NameAt(q) \in Funcs
  <2>1. PICK i \in DOMAIN out : out[i] = [op |-> "func", at |-> q]
    BY <1>1
  <2>2. out[i].op = "func" /\ out[i].at = q
    BY <1>3, <2>1
  <2>. QED
    BY <2>2 DEF Funcs
<1>10. Funcs = {NameAt(q) : q \in convs}
  BY <1>8, <1>9
<1>11. \A b \in Built :
         \/ \E f \in DOMAIN pkg : \E d \in WholeDecls(f) : b = EraseDirectives(f, d)
         \/ \E f \in DOMAIN pkg : ~pkg[f].tagged /\ \E d \in DOMAIN pkg[f].decls : b = pkg[f].decls[d]
  BY <1>4, <1>5 DEF Built
<1>. QED
  BY <1>1, <1>6, <1>7, <1>10, <1>11 DEF Settled

(* The values and names of a declaration of the source, by their places. *)
LEMMA PlaceWith ==
  ASSUME pkg \in Packages, NEW f \in DOMAIN pkg, NEW d \in DOMAIN pkg[f].decls,
         NEW t \in DOMAIN pkg[f].decls[d].specs, NEW j, NEW q, q = <<f, d, t, j>>
  PROVE  /\ SpecAt(q) = pkg[f].decls[d].specs[t] /\ DeclAt(q) = pkg[f].decls[d]
         /\ NameAt(q) = SpecAt(q).names[j] /\ ValueAt(q) = SpecAt(q).values[j]
         /\ j \in DOMAIN SpecAt(q).names => q \in NamePlaces
         /\ j \in DOMAIN SpecAt(q).values => q \in ValuePlaces
         /\ q[1] = f /\ q[2] = d
<1>1. q[1] = f /\ q[2] = d /\ q[3] = t /\ q[4] = j
  OBVIOUS
<1>0. <<f, d, t>> \in SpecPlaces /\ q = Append(<<f, d, t>>, j)
  BY SpecOfDecl, AppendIs
<1>2. PICK P : P = <<f, d, t>>
  OBVIOUS
<1>3. P \in SpecPlaces /\ q = Append(P, j)
  BY <1>0, <1>2
<1>4. P[1] = f /\ P[2] = d /\ P[3] = t
  BY <1>2
<1>5. SpecAt(q) = pkg[f].decls[d].specs[t] /\ DeclAt(q) = pkg[f].decls[d] /\ SpecAt(q) = SpecAt(P)
  BY <1>1, <1>4 DEF SpecAt, DeclAt
<1>6. NameAt(q) = SpecAt(q).names[j] /\ ValueAt(q) = SpecAt(q).values[j]
  BY <1>1 DEF NameAt, ValueAt
<1>7. j \in DOMAIN SpecAt(q).names => q \in NamePlaces
  <2>1. \A p \in SpecPlaces : \A i \in DOMAIN SpecAt(p).names : Append(p, i) \in NamePlaces
    BY DEF NamePlaces
  <2>2. j \in DOMAIN SpecAt(q).names => Append(P, j) \in NamePlaces
    BY <1>3, <1>5, <2>1, Zenon
  <2>. QED
    BY <1>3, <2>2, Zenon
<1>8. j \in DOMAIN SpecAt(q).values => q \in ValuePlaces
  <2>1. \A p \in SpecPlaces : \A i \in DOMAIN SpecAt(p).values : Append(p, i) \in ValuePlaces
    BY DEF ValuePlaces
  <2>2. j \in DOMAIN SpecAt(q).values => Append(P, j) \in ValuePlaces
    BY <1>3, <1>5, <2>1, Zenon
  <2>. QED
    BY <1>3, <2>2, Zenon
<1>. QED
  BY <1>1, <1>5, <1>6, <1>7, <1>8

LEMMA ValueOfDecl ==
  ASSUME pkg \in Packages, NEW f \in DOMAIN pkg, NEW d \in DOMAIN pkg[f].decls,
         NEW v \in ValuesOf(pkg[f].decls[d])
  PROVE  \E x \in ValuePlaces : x[1] = f /\ x[2] = d /\ DeclAt(x) = pkg[f].decls[d] /\ ValueAt(x) = v
<1>1. PICK t \in DOMAIN pkg[f].decls[d].specs : v \in {pkg[f].decls[d].specs[t].values[j] : j \in DOMAIN pkg[f].decls[d].specs[t].values}
  BY DEF ValuesOf, SpecsOf
<1>2. PICK j \in DOMAIN pkg[f].decls[d].specs[t].values : v = pkg[f].decls[d].specs[t].values[j]
  BY <1>1
<1>3. PICK q : q = <<f, d, t, j>>
  OBVIOUS
<1>4. /\ SpecAt(q) = pkg[f].decls[d].specs[t] /\ DeclAt(q) = pkg[f].decls[d] /\ ValueAt(q) = SpecAt(q).values[j]
      /\ (j \in DOMAIN SpecAt(q).values => q \in ValuePlaces) /\ q[1] = f /\ q[2] = d
  BY <1>3, PlaceWith
<1>. QED
  BY <1>2, <1>4

LEMMA NameOfDecl ==
  ASSUME pkg \in Packages, NEW f \in DOMAIN pkg, NEW d \in DOMAIN pkg[f].decls,
         NEW spec \in SpecsOf(pkg[f].decls[d]), NEW k \in DOMAIN spec.names
  PROVE  \E x \in NamePlaces : x[1] = f /\ x[2] = d /\ DeclAt(x) = pkg[f].decls[d] /\ SpecAt(x) = spec
                               /\ NameAt(x) = spec.names[k]
<1>1. PICK t \in DOMAIN pkg[f].decls[d].specs : spec = pkg[f].decls[d].specs[t]
  BY DEF SpecsOf
<1>2. PICK q : q = <<f, d, t, k>>
  OBVIOUS
<1>3. /\ SpecAt(q) = pkg[f].decls[d].specs[t] /\ DeclAt(q) = pkg[f].decls[d] /\ NameAt(q) = SpecAt(q).names[k]
      /\ (k \in DOMAIN SpecAt(q).names => q \in NamePlaces) /\ q[1] = f /\ q[2] = d
  BY <1>2, PlaceWith
<1>. QED
  BY <1>1, <1>3

LEMMA PlaceOfDecl ==
  ASSUME pkg \in Packages, NEW x \in ValuePlaces \cup NamePlaces
  PROVE  /\ DeclAt(x) \in Source /\ SpecAt(x) \in SpecsOf(DeclAt(x))
         /\ x \in ValuePlaces => ValueAt(x) \in ValuesOf(DeclAt(x))
         /\ x \in NamePlaces => NameAt(x) \in NamesOf(DeclAt(x))
<1>1. /\ x[1] \in DOMAIN pkg /\ x[2] \in DOMAIN pkg[x[1]].decls
      /\ x[3] \in DOMAIN pkg[x[1]].decls[x[2]].specs
      /\ DeclAt(x) = pkg[x[1]].decls[x[2]]
      /\ SpecAt(x) = pkg[x[1]].decls[x[2]].specs[x[3]]
      /\ x \in ValuePlaces => x[4] \in DOMAIN SpecAt(x).values
      /\ x \in NamePlaces => x[4] \in DOMAIN SpecAt(x).names
  BY PlaceParts
<1>2. DeclAt(x) \in Source
  BY <1>1 DEF Source
<1>3. SpecAt(x) \in SpecsOf(DeclAt(x))
  BY <1>1 DEF SpecsOf
<1>4. ASSUME x \in ValuePlaces PROVE ValueAt(x) \in ValuesOf(DeclAt(x))
  <2>1. ValueAt(x) \in {SpecAt(x).values[i] : i \in DOMAIN SpecAt(x).values}
    BY <1>1, <1>4 DEF ValueAt
  <2>. QED
    BY <1>3, <2>1 DEF ValuesOf
<1>5. ASSUME x \in NamePlaces PROVE NameAt(x) \in NamesOf(DeclAt(x))
  <2>1. NameAt(x) \in {SpecAt(x).names[i] : i \in DOMAIN SpecAt(x).names}
    BY <1>1, <1>5 DEF NameAt
  <2>. QED
    BY <1>3, <2>1 DEF NamesOf
<1>. QED
  BY <1>2, <1>3, <1>4, <1>5

(* A local name, and what makes one. *)
LEMMA LocalName ==
  ASSUME pkg \in Packages, NEW x \in NamePlaces, Local(x), SpecAt(x).form \in {"spec", "define"}
  PROVE  NameAt(x) \in Locals(DeclAt(x)) /\ ~IsModule(DeclAt(x), NameAt(x))
<1>1. /\ x[3] \in DOMAIN DeclAt(x).specs /\ SpecAt(x) = DeclAt(x).specs[x[3]]
      /\ x[4] \in DOMAIN SpecAt(x).names
  BY PlaceParts
<1>2. NameAt(x) \in Locals(DeclAt(x))
  BY <1>1 DEF Locals, Local, NameAt
<1>. QED
  BY <1>2 DEF IsModule, ObjectOf

LEMMA LocalsAre ==
  ASSUME pkg \in Packages, NEW f \in DOMAIN pkg, NEW d \in DOMAIN pkg[f].decls,
         NEW n \in Locals(pkg[f].decls[d])
  PROVE  \E x \in NamePlaces : /\ x[1] = f /\ x[2] = d /\ DeclAt(x) = pkg[f].decls[d] /\ Local(x)
                               /\ SpecAt(x).form \in {"spec", "define"} /\ NameAt(x) = n
<1>1. pkg[f].decls[d].func # NoName /\ \E spec \in SpecsOf(pkg[f].decls[d]) :
         spec.form \in {"spec", "define"} /\ \E k \in DOMAIN spec.names : spec.names[k] = n
  BY DEF Locals, SpecsOf
<1>0. PICK spec \in SpecsOf(pkg[f].decls[d]) :
        spec.form \in {"spec", "define"} /\ \E l \in DOMAIN spec.names : spec.names[l] = n
  BY <1>1
<1>2. PICK k \in DOMAIN spec.names : spec.form \in {"spec", "define"} /\ spec.names[k] = n
  BY <1>0
<1>3. PICK x \in NamePlaces : x[1] = f /\ x[2] = d /\ DeclAt(x) = pkg[f].decls[d] /\ SpecAt(x) = spec
                               /\ NameAt(x) = spec.names[k]
  BY <1>2, NameOfDecl
<1>. QED
  BY <1>1, <1>2, <1>3 DEF Local

LEMMA GoneIs ==
  ASSUME pkg \in Packages, convs = AllInjectors, NEW x \in ValuePlaces \cup NamePlaces, Gone(x)
  PROVE  /\ x \in ValuePlaces /\ x \in NamePlaces
         /\ \/ ValueAt(x).call = "Module" /\ ~ValueAt(x).paren
            \/ x \in convs /\ ValueAt(x).call = "Injector" /\ ~ValueAt(x).paren /\ ~Local(x)
<1>1. x[4] \in DOMAIN SpecAt(x).values /\ SpecAt(x).form = "spec"
      /\ ((ValueAt(x).call = "Module" /\ ~ValueAt(x).paren) \/ x \in convs)
  BY DEF Gone, Erased
<1>2. x \in ValuePlaces
  BY <1>1, PlaceIs
<1>3. x \in NamePlaces
  <2>1. PICK P \in SpecPlaces : SpecAt(x) = SpecAt(P)
    BY PlaceIs
  <2>2. x[4] \in DOMAIN SpecAt(x).names
    BY <1>1, <2>1, ValuesNamed
  <2>. QED
    BY <2>2, PlaceIs
<1>4. x \in convs => ValueAt(x).call = "Injector" /\ ~ValueAt(x).paren /\ ~Local(x)
  BY InjectorIs
<1>. QED
  BY <1>1, <1>2, <1>3, <1>4

(* A file that is not merged has no directive. *)
LEMMA UntaggedIsClean ==
  ASSUME pkg \in Packages, Mistakes = {}, NEW f \in DOMAIN pkg, ~pkg[f].tagged, NEW d \in DOMAIN pkg[f].decls,
         NEW v \in ValuesOf(pkg[f].decls[d])
  PROVE  Outermost(v) = {}
<1>1. ~pkg[f].imports
  <2>1. pkg[f].imports => <<f>> \in Imported
    BY DEF Imported
  <2>. QED
    BY <2>1 DEF Mistakes
<1>2. \A file \in File : ~file.imports =>
         \A e \in DOMAIN file.decls : \A s \in DOMAIN file.decls[e].specs :
           \A i \in DOMAIN file.decls[e].specs[s].values :
             Outermost(file.decls[e].specs[s].values[i]) = {}
  BY DEF File
<1>3. pkg[f] \in File
  BY PackageIs
<1>4. PICK t \in DOMAIN pkg[f].decls[d].specs : v \in {pkg[f].decls[d].specs[t].values[i] : i \in DOMAIN pkg[f].decls[d].specs[t].values}
  BY DEF ValuesOf, SpecsOf
<1>. QED
  BY <1>1, <1>2, <1>3, <1>4

(* What is left of a tagged file is written. *)
LEMMA LeftIsBuilt ==
  ASSUME Settled, NEW x \in ValuePlaces \cup NamePlaces, Tagged(x), ~Gone(x)
  PROVE  EraseDirectives(x[1], x[2]) \in Built
<1>1. x[1] \in DOMAIN pkg /\ x[2] \in DOMAIN pkg[x[1]].decls /\ pkg \in Packages /\ mods = AllModules
  BY PlaceParts DEF Settled
<1>2. EraseDirectives(x[1], x[2]).specs # <<>>
  <2>1. CASE x \in ValuePlaces
    <3>1. NewValue(x) \in ValuesOf(EraseDirectives(x[1], x[2]))
      BY <1>1, <2>1, ValueStays
    <3>2. \E s : s \in DOMAIN EraseDirectives(x[1], x[2]).specs
      BY <3>1 DEF ValuesOf, SpecsOf
    <3>. QED
      BY <3>2
  <2>2. CASE x \in NamePlaces
    <3>2. \E s : s \in DOMAIN EraseDirectives(x[1], x[2]).specs
      BY <1>1, <2>2, NameStays
    <3>. QED
      BY <3>2
  <2>. QED
    BY <2>1, <2>2
<1>3. x[2] \in WholeDecls(x[1])
  BY <1>1, <1>2 DEF WholeDecls, Tagged
<1>. QED
  BY <1>1, <1>3 DEF Settled

(* No directive is left if none is left in a tagged file. *)
LEMMA DirectivesLeft ==
  ASSUME Settled
  PROVE  ConvgenIsGone <=> \A x \in ValuePlaces : Tagged(x) /\ ~Gone(x) => Outermost(ValueAt(x)) = {}
<1>0. pkg \in Packages /\ Mistakes = {} /\ convs = AllInjectors
  BY DEF Settled
<1>1. ASSUME NEW x \in ValuePlaces
      PROVE  Outermost(NewValue(x)) = Outermost(ValueAt(x))
  <2>1. ValueAt(x) \in Value
    BY <1>0, PlaceParts
  <2>. QED
    BY <2>1, GarbledValueIs DEF NewValue, Outermost
<1>2. ASSUME ConvgenIsGone, NEW x \in ValuePlaces, Tagged(x), ~Gone(x)
      PROVE  Outermost(ValueAt(x)) = {}
  <2>1. NewValue(x) \in ValuesOf(EraseDirectives(x[1], x[2]))
    BY <1>0, <1>2, ValueStays
  <2>2. EraseDirectives(x[1], x[2]) \in Built
    BY <1>2, LeftIsBuilt
  <2>3. Outermost(NewValue(x)) = {}
    BY <1>2, <2>1, <2>2 DEF ConvgenIsGone
  <2>. QED
    BY <1>1, <2>3
<1>3. ASSUME \A x \in ValuePlaces : Tagged(x) /\ ~Gone(x) => Outermost(ValueAt(x)) = {},
             NEW b \in Built, NEW v \in ValuesOf(b)
      PROVE  Outermost(v) = {}
  <2>1. CASE \E f \in DOMAIN pkg : \E d \in WholeDecls(f) : b = EraseDirectives(f, d)
    <3>1. PICK f \in DOMAIN pkg : \E d \in WholeDecls(f) : b = EraseDirectives(f, d)
      BY <2>1
    <3>2. PICK d \in WholeDecls(f) : b = EraseDirectives(f, d)
      BY <3>1
    <3>3. d \in DOMAIN pkg[f].decls /\ pkg[f].tagged
      BY <3>2 DEF WholeDecls
    <3>4. v \in ValuesOf(EraseDirectives(f, d))
      BY <1>3, <3>2
    <3>5. PICK x \in ValuePlaces : x[1] = f /\ x[2] = d /\ ~Gone(x) /\ v = NewValue(x)
      BY <1>0, <3>3, <3>4, ValueWas
    <3>6. Tagged(x)
      BY <3>3, <3>5 DEF Tagged
    <3>. QED
      BY <1>1, <1>3, <3>5, <3>6
  <2>2. CASE \E f \in DOMAIN pkg : ~pkg[f].tagged /\ \E d \in DOMAIN pkg[f].decls : b = pkg[f].decls[d]
    <3>1. PICK f \in DOMAIN pkg : ~pkg[f].tagged /\ \E d \in DOMAIN pkg[f].decls : b = pkg[f].decls[d]
      BY <2>2
    <3>2. PICK d \in DOMAIN pkg[f].decls : b = pkg[f].decls[d]
      BY <3>1
    <3>3. v \in ValuesOf(pkg[f].decls[d])
      BY <1>3, <3>2
    <3>. QED
      BY <1>0, <3>1, <3>3, UntaggedIsClean
  <2>. QED
    BY <2>1, <2>2 DEF Settled
<1>. QED
  BY <1>2, <1>3 DEF ConvgenIsGone

(* What anything written may refer to. *)
OutKnown == Funcs \cup UNION {Declares(b) : b \in Built}

LEMMA ModuleName ==
  ASSUME pkg \in Packages, Compiles, mods = AllModules, NEW decl, NEW n, IsModule(decl, n)
  PROVE  /\ n \in Idents /\ n \notin Locals(decl)
         /\ \A y \in VarPlaces : NameAt(y) = n => y \in mods
         /\ \A other \in Source : other.func # n
<1>1. PICK m \in VarPlaces : m \in mods /\ NameAt(m) = n /\ n # Blank /\ n \notin Locals(decl)
  BY DEF IsModule, ObjectOf
<1>2. n \in Idents
  <2>1. m \in NamePlaces
    BY DEF VarPlaces
  <2>. QED
    BY <1>1, <2>1, PlaceParts
<1>3. \A y \in VarPlaces : NameAt(y) = n => y \in mods
  BY <1>1 DEF Compiles
<1>4. \A other \in Source : other.func # n
  BY <1>1 DEF Compiles
<1>. QED
  BY <1>1, <1>2, <1>3, <1>4

LEMMA NewNameIs ==
  ASSUME pkg \in Packages, Compiles, mods = AllModules, NEW x \in NamePlaces, NewName(x) # Garbage
  PROVE  x \notin mods /\ NewName(x) = NameAt(x) /\ ~IsModule(DeclAt(x), NameAt(x))
<1>1. ~IsModule(DeclAt(x), Garbage)
  BY ModuleName, NamesAssumption
<1>2. x \in mods => NewName(x) = Garbage
  BY <1>1 DEF NewName, KeptName, GarbleName
<1>3. x \notin mods => NewName(x) = GarbleName(DeclAt(x), NameAt(x))
  BY DEF NewName, KeptName
<1>. QED
  BY <1>2, <1>3 DEF GarbleName

LEMMA VarIsKnown ==
  ASSUME Settled, NEW y \in VarPlaces, y \notin mods, NameAt(y) \in Idents
  PROVE  NameAt(y) \in OutKnown
<1>1. pkg \in Packages /\ Compiles /\ mods = AllModules /\ convs = AllInjectors
  BY DEF Settled
<1>2. y \in NamePlaces /\ ~Local(y) /\ DeclAt(y).func = NoName
  BY DEF VarPlaces, Local
<1>3. NameAt(y) # Blank
  BY NamesAssumption
<1>4. y[1] \in DOMAIN pkg /\ y[2] \in DOMAIN pkg[y[1]].decls /\ DeclAt(y) = pkg[y[1]].decls[y[2]]
      /\ NameAt(y) \in NamesOf(DeclAt(y))
  BY <1>1, <1>2, PlaceParts, PlaceOfDecl
<1>5. CASE y \in convs
  BY <1>5 DEF Settled, OutKnown
<1>6. CASE ~Tagged(y)
  <2>1. DeclAt(y) \in Built
    BY <1>4, <1>6 DEF Settled, Tagged
  <2>2. NameAt(y) \in Declares(DeclAt(y))
    BY <1>2, <1>4 DEF Declares
  <2>. QED
    BY <2>1, <2>2 DEF OutKnown
<1>7. CASE Tagged(y) /\ y \notin convs
  <2>1. y \in Kindred
    BY <1>3, <1>7 DEF Kindred
  <2>. PICK f, d, s, k : f = y[1] /\ d = y[2] /\ s = RankIn(FullOf(f, d), y[3])
                         /\ k = RankIn(KeptOf(<<y[1], y[2], y[3]>>), y[4])
    OBVIOUS
  <2>2. PICK new : new = EraseDirectives(f, d)
    OBVIOUS
  <2>3. f \in DOMAIN pkg /\ d \in WholeDecls(f) /\ new.func = NoName
        /\ s \in DOMAIN new.specs /\ k \in DOMAIN new.specs[s].names /\ new.specs[s].names[k] = NameAt(y)
    BY <1>1, <1>7, <2>1, <2>2, KindredIsLeft
  <2>4. new \in Built
    BY <2>2, <2>3 DEF Settled
  <2>5. NameAt(y) \in NamesOf(new)
    BY <2>3 DEF NamesOf, SpecsOf
  <2>6. NameAt(y) \in Declares(new)
    BY <2>3, <2>5 DEF Declares
  <2>. QED
    BY <2>4, <2>6 DEF OutKnown
<1>. QED
  BY <1>5, <1>6, <1>7

LEMMA FuncIsKnown ==
  ASSUME Settled, NEW decl \in Source, decl.func # NoName
  PROVE  decl.func \in OutKnown
<1>0. pkg \in Packages
  BY DEF Settled
<1>1. PICK f \in DOMAIN pkg : decl \in {pkg[f].decls[d] : d \in DOMAIN pkg[f].decls}
  BY DEF Source
<1>2. PICK d \in DOMAIN pkg[f].decls : decl = pkg[f].decls[d]
  BY <1>1
<1>3. CASE pkg[f].tagged
  <2>1. EraseDirectives(f, d).func = decl.func
    BY <1>0, <1>2, ErasedDeclIs
  <2>2. d \in WholeDecls(f)
    BY <1>3, <2>1 DEF WholeDecls
  <2>3. EraseDirectives(f, d) \in Built
    BY <2>2 DEF Settled
  <2>4. decl.func \in Declares(EraseDirectives(f, d))
    BY <2>1 DEF Declares
  <2>. QED
    BY <2>3, <2>4 DEF OutKnown
<1>4. CASE ~pkg[f].tagged
  <2>1. decl \in Built
    BY <1>2, <1>4 DEF Settled
  <2>2. decl.func \in Declares(decl)
    BY DEF Declares
  <2>. QED
    BY <2>1, <2>2 DEF OutKnown
<1>. QED
  BY <1>3, <1>4

(* Whatever is known was declared by the source, and not as a module. *)
LEMMA KnownWas ==
  ASSUME Settled, NEW n \in OutKnown, n \in Idents
  PROVE  n \in {decl.func : decl \in Source} \/ \E y \in VarPlaces : y \notin mods /\ NameAt(y) = n
<1>1. pkg \in Packages /\ Compiles /\ mods = AllModules /\ convs = AllInjectors
  BY DEF Settled
<1>2. CASE n \in Funcs
  <2>1. PICK q \in convs : NameAt(q) = n
    BY <1>2 DEF Settled
  <2>2. q \in VarPlaces /\ ValueAt(q).call = "Injector"
    BY <1>1, InjectorIs
  <2>3. q \notin mods
    BY <1>1, <2>2, ModuleIs
  <2>. QED
    BY <2>1, <2>2, <2>3
<1>3. ASSUME NEW b \in Built, n \in Declares(b)
      PROVE  n \in {decl.func : decl \in Source} \/ \E y \in VarPlaces : y \notin mods /\ NameAt(y) = n
  <2>1. CASE \E f \in DOMAIN pkg : \E d \in WholeDecls(f) : b = EraseDirectives(f, d)
    <3>1. PICK f \in DOMAIN pkg : \E d \in WholeDecls(f) : b = EraseDirectives(f, d)
      BY <2>1
    <3>2. PICK d \in WholeDecls(f) : b = EraseDirectives(f, d)
      BY <3>1
    <3>3. d \in DOMAIN pkg[f].decls
      BY <3>2 DEF WholeDecls
    <3>4. b.func = pkg[f].decls[d].func /\ pkg[f].decls[d] \in Source
      BY <1>1, <3>2, <3>3, ErasedDeclIs DEF Source
    <3>5. CASE b.func # NoName
      BY <1>3, <3>4, <3>5 DEF Declares
    <3>6. CASE b.func = NoName
      <4>1. n \in NamesOf(EraseDirectives(f, d))
        BY <1>3, <3>2, <3>6 DEF Declares
      <4>2. PICK spec \in SpecsOf(EraseDirectives(f, d)) : n \in {spec.names[k] : k \in DOMAIN spec.names}
        BY <4>1 DEF NamesOf
      <4>3. PICK k \in DOMAIN spec.names : n = spec.names[k]
        BY <4>2
      <4>4. PICK x \in NamePlaces : x[1] = f /\ x[2] = d /\ spec.names[k] = NewName(x)
        BY <1>1, <3>3, <4>3, NameWas
      <4>5. x \notin mods /\ NameAt(x) = n
        <5>1. NewName(x) = n /\ n # Garbage
          BY <4>3, <4>4, NamesAssumption
        <5>. QED
          BY <1>1, <5>1, NewNameIs
      <4>6. x \in VarPlaces
        BY <3>4, <3>6, <4>4 DEF VarPlaces, Local, DeclAt
      <4>. QED
        BY <4>5, <4>6
    <3>. QED
      BY <3>5, <3>6
  <2>2. CASE \E f \in DOMAIN pkg : ~pkg[f].tagged /\ \E d \in DOMAIN pkg[f].decls : b = pkg[f].decls[d]
    <3>1. PICK f \in DOMAIN pkg : ~pkg[f].tagged /\ \E d \in DOMAIN pkg[f].decls : b = pkg[f].decls[d]
      BY <2>2
    <3>2. PICK d \in DOMAIN pkg[f].decls : b = pkg[f].decls[d]
      BY <3>1
    <3>3. b \in Source
      BY <3>2 DEF Source
    <3>4. CASE b.func # NoName
      BY <1>3, <3>3, <3>4 DEF Declares
    <3>5. CASE b.func = NoName
      <4>1. n \in NamesOf(pkg[f].decls[d])
        BY <1>3, <3>2, <3>5 DEF Declares
      <4>2. PICK spec \in SpecsOf(pkg[f].decls[d]) : n \in {spec.names[k] : k \in DOMAIN spec.names}
        BY <4>1 DEF NamesOf
      <4>3. PICK k \in DOMAIN spec.names : n = spec.names[k]
        BY <4>2
      <4>4. PICK x \in NamePlaces : x[1] = f /\ x[2] = d /\ DeclAt(x) = pkg[f].decls[d] /\ NameAt(x) = spec.names[k]
        BY <1>1, <4>3, NameOfDecl
      <4>5. x \in VarPlaces
        BY <3>2, <3>5, <4>4 DEF VarPlaces, Local
      <4>6. x \notin mods
        <5>1. ~Tagged(x)
          BY <3>1, <4>4 DEF Tagged
        <5>. QED
          BY <1>1, <5>1, ModuleIs
      <4>. QED
        BY <4>3, <4>4, <4>5, <4>6
    <3>. QED
      BY <3>4, <3>5
  <2>. QED
    BY <1>3, <2>1, <2>2 DEF Settled
<1>. QED
  BY <1>2, <1>3 DEF OutKnown

LEMMA NothingOverlooked ==
  ASSUME Settled, ~Overlooked
  PROVE  ConvgenIsGone
<1>0. pkg \in Packages /\ convs = AllInjectors /\ Mistakes = {}
  BY DEF Settled
<1>1. ASSUME NEW x \in ValuePlaces, Tagged(x), ~Gone(x), Outermost(ValueAt(x)) # {}
      PROVE  FALSE
  <2>1. ValueAt(x).inside = {} /\ ~(ValueAt(x).call # "none" /\ ValueAt(x).paren)
    BY <1>1 DEF Overlooked
  <2>2. ValueAt(x).call # "none" /\ ~ValueAt(x).paren
    BY <1>1, <2>1 DEF Outermost
  <2>3. /\ x[1] \in DOMAIN pkg /\ x[4] \in DOMAIN SpecAt(x).values
        /\ SpecAt(x) \in VarSpec /\ ValueAt(x) \in Value /\ (~Local(x) => SpecAt(x).form = "spec")
    BY <1>0, PlaceParts
  <2>4. CASE Local(x)
    <3>1. Harmless(x)
      BY <1>1, <2>4 DEF Overlooked
    <3>2. Gone(x)
      BY <2>3, <3>1 DEF Harmless, Gone, Erased
    <3>. QED
      BY <1>1, <3>2
  <2>5. CASE ~Local(x)
    <3>1. ValueAt(x).call \in Directive
      BY <2>2, <2>3 DEF Value
    <3>2. CASE ValueAt(x).call = "Module"
      BY <1>1, <2>2, <2>3, <2>5, <3>2 DEF Gone, Erased
    <3>3. CASE ValueAt(x).call = "Option"
      <4>1. "Option" \in Outermost(ValueAt(x)) /\ SpecAt(x).form # "stmt"
        BY <2>3, <2>5, <3>3 DEF Outermost
      <4>2. x \in WrongOptions
        BY <1>1, <4>1 DEF WrongOptions
      <4>. QED
        BY <1>0, <4>2 DEF Mistakes
    <3>4. CASE ValueAt(x).call = "Injector"
      <4>1. Len(SpecAt(x).values) = Len(SpecAt(x).names)
        <5>1. ValueAt(x) = SpecAt(x).values[x[4]]
          BY DEF ValueAt
        <5>2. SpecAt(x).form = "spec"
          BY <2>3, <2>5
        <5>3. Len(SpecAt(x).values) # Len(SpecAt(x).names) =>
                \A i \in DOMAIN SpecAt(x).values : SpecAt(x).values[i].call = "none"
          BY <2>3, <5>2 DEF VarSpec
        <5>. QED
          BY <2>2, <2>3, <5>1, <5>3
      <4>2. x \in FindInjectors(x[1])
        BY <1>1, <2>2, <2>5, <3>4, <4>1 DEF FindInjectors, Paired
      <4>3. x \in convs
        BY <1>0, <2>3, <4>2 DEF AllInjectors
      <4>. QED
        BY <1>1, <2>3, <2>5, <4>3 DEF Gone, Erased
    <3>. QED
      BY <3>1, <3>2, <3>3, <3>4 DEF Directive
  <2>. QED
    BY <2>4, <2>5
<1>. QED
  BY <1>1, DirectivesLeft

LEMMA LocalsStay ==
  ASSUME pkg \in Packages, mods = AllModules,
         NEW z \in NamePlaces, Local(z), SpecAt(z).form \in {"spec", "define"}, ~Gone(z)
  PROVE  NameAt(z) \in Locals(EraseDirectives(z[1], z[2]))
<1>1. z[1] \in DOMAIN pkg /\ z[2] \in DOMAIN pkg[z[1]].decls /\ DeclAt(z) = pkg[z[1]].decls[z[2]]
  BY PlaceParts
<1>2. z \notin mods /\ ~IsModule(DeclAt(z), NameAt(z))
  BY LocalName, ModuleIs
<1>3. NewName(z) = NameAt(z)
  BY <1>2 DEF NewName, KeptName, GarbleName
<1>4. PICK new : new = EraseDirectives(z[1], z[2])
  OBVIOUS
<1>5. new.func # NoName
  BY <1>1, <1>4, ErasedDeclIs DEF Local
<1>6. PICK s \in DOMAIN new.specs : new.specs[s].form = SpecAt(z).form
                                    /\ \E k \in DOMAIN new.specs[s].names : new.specs[s].names[k] = NewName(z)
  BY <1>4, NameStays
<1>7. NameAt(z) \in Locals(new)
  BY <1>3, <1>5, <1>6 DEF Locals
<1>. QED
  BY <1>4, <1>7

LEMMA LocalsWere ==
  ASSUME pkg \in Packages, Compiles, mods = AllModules, NEW f \in DOMAIN pkg, NEW d \in DOMAIN pkg[f].decls,
         NEW n \in Locals(EraseDirectives(f, d)), n # Garbage
  PROVE  \E z \in NamePlaces : /\ z[1] = f /\ z[2] = d /\ Local(z) /\ SpecAt(z).form \in {"spec", "define"}
                               /\ ~Gone(z) /\ NameAt(z) = n
<1>1. EraseDirectives(f, d).func # NoName
      /\ \E spec \in SpecsOf(EraseDirectives(f, d)) :
           spec.form \in {"spec", "define"} /\ \E k \in DOMAIN spec.names : spec.names[k] = n
  BY DEF Locals, SpecsOf
<1>0. PICK spec \in SpecsOf(EraseDirectives(f, d)) :
        spec.form \in {"spec", "define"} /\ \E l \in DOMAIN spec.names : spec.names[l] = n
  BY <1>1
<1>2. PICK k \in DOMAIN spec.names : spec.form \in {"spec", "define"} /\ spec.names[k] = n
  BY <1>0
<1>3. PICK z \in NamePlaces : z[1] = f /\ z[2] = d /\ SpecAt(z).form = spec.form
                               /\ ~Gone(z) /\ spec.names[k] = NewName(z)
  BY <1>2, NameWas
<1>4. NameAt(z) = n
  BY <1>2, <1>3, NewNameIs
<1>5. Local(z)
  <2>1. DeclAt(z) = pkg[f].decls[d]
    BY <1>3 DEF DeclAt
  <2>2. EraseDirectives(f, d).func = pkg[f].decls[d].func
    BY ErasedDeclIs
  <2>. QED
    BY <1>1, <2>1, <2>2 DEF Local
<1>. QED
  BY <1>2, <1>3, <1>4, <1>5

(* What a declaration refers to, before and after. *)
LEMMA ReferredIs ==
  ASSUME NEW decl, NEW n
  PROVE  n \in Referred(decl) <=>
           \/ \E v \in ValuesOf(decl) : n \in v.uses \cup {v.lead}
           \/ decl.func # NoName /\ \E spec \in SpecsOf(decl) :
                spec.form = "assign" /\ \E i \in DOMAIN spec.names : spec.names[i] = n
<1>1. n \in (UNION {v.uses \cup {v.lead} : v \in ValuesOf(decl)}) <=> \E v \in ValuesOf(decl) : n \in v.uses \cup {v.lead}
  OBVIOUS
<1>2. n \in (UNION {{spec.names[i] : i \in DOMAIN spec.names} : spec \in {s \in SpecsOf(decl) : s.form = "assign"}})
        <=> \E spec \in SpecsOf(decl) : spec.form = "assign" /\ \E i \in DOMAIN spec.names : spec.names[i] = n
  OBVIOUS
<1>. QED
  BY <1>1, <1>2 DEF Referred

LEMMA ReferredTyped ==
  ASSUME pkg \in Packages, NEW decl \in Source, NEW n \in Referred(decl)
  PROVE  n \in Idents \cup {NoName, Blank}
<1>1. PICK f \in DOMAIN pkg : decl \in {pkg[f].decls[d] : d \in DOMAIN pkg[f].decls}
  BY DEF Source
<1>2. PICK d \in DOMAIN pkg[f].decls : decl = pkg[f].decls[d]
  BY <1>1
<1>3. ASSUME NEW v \in ValuesOf(decl), n \in v.uses \cup {v.lead}
      PROVE  n \in Idents \cup {NoName}
  <2>1. v \in ValuesOf(pkg[f].decls[d])
    BY <1>2
  <2>2. PICK x \in ValuePlaces : ValueAt(x) = v
    BY <2>1, ValueOfDecl
  <2>3. v \in Value
    BY <2>2, PlaceParts
  <2>. QED
    BY <1>3, <2>3 DEF Value
<1>4. ASSUME NEW spec \in SpecsOf(decl), NEW i \in DOMAIN spec.names, spec.names[i] = n
      PROVE  n \in Idents \cup {Blank}
  <2>1. spec \in SpecsOf(pkg[f].decls[d])
    BY <1>2
  <2>2. PICK x \in NamePlaces : NameAt(x) = spec.names[i]
    BY <2>1, NameOfDecl
  <2>. QED
    BY <1>4, <2>2, PlaceParts
<1>. QED
  BY <1>3, <1>4, ReferredIs

LEMMA ReferredWas ==
  ASSUME pkg \in Packages, Compiles, mods = AllModules, NEW f \in DOMAIN pkg, NEW d \in DOMAIN pkg[f].decls,
         NEW n \in Referred(EraseDirectives(f, d)), n # Garbage
  PROVE  n \in Referred(pkg[f].decls[d]) /\ ~IsModule(pkg[f].decls[d], n)
<1>. DEFINE decl == pkg[f].decls[d]
            new == EraseDirectives(f, d)
<1>1. ASSUME NEW w \in ValuesOf(new), n \in w.uses \cup {w.lead}
      PROVE  n \in Referred(decl) /\ ~IsModule(decl, n)
  <2>1. PICK x \in ValuePlaces : x[1] = f /\ x[2] = d /\ w = NewValue(x)
    BY ValueWas
  <2>2. DeclAt(x) = decl /\ ValueAt(x) \in ValuesOf(decl) /\ ValueAt(x) \in Value
    BY <2>1, PlaceParts, PlaceOfDecl
  <2>3. w.uses = {GarbleName(decl, m) : m \in ValueAt(x).uses} /\ w.lead = GarbleName(decl, ValueAt(x).lead)
    BY <2>1, <2>2, GarbledValueIs DEF NewValue
  <2>4. PICK m \in ValueAt(x).uses \cup {ValueAt(x).lead} : n = GarbleName(decl, m)
    BY <1>1, <2>3
  <2>5. n = m /\ ~IsModule(decl, n)
    BY <2>4 DEF GarbleName
  <2>. QED
    BY <2>2, <2>4, <2>5, ReferredIs
<1>2. ASSUME new.func # NoName, NEW spec \in SpecsOf(new), spec.form = "assign",
             NEW i \in DOMAIN spec.names, spec.names[i] = n
      PROVE  n \in Referred(decl) /\ ~IsModule(decl, n)
  <2>1. PICK x \in NamePlaces : x[1] = f /\ x[2] = d /\ SpecAt(x).form = spec.form /\ spec.names[i] = NewName(x)
    BY NameWas
  <2>2. DeclAt(x) = decl /\ SpecAt(x) \in SpecsOf(decl) /\ x[4] \in DOMAIN SpecAt(x).names
    BY <2>1, PlaceParts, PlaceOfDecl
  <2>3. NameAt(x) = n /\ ~IsModule(decl, n)
    BY <1>2, <2>1, <2>2, NewNameIs
  <2>4. decl.func # NoName
    BY <1>2, ErasedDeclIs
  <2>. QED
    BY <1>2, <2>1, <2>2, <2>3, <2>4, ReferredIs DEF NameAt
<1>3. \/ \E v \in ValuesOf(new) : n \in v.uses \cup {v.lead}
      \/ new.func # NoName /\ \E spec \in SpecsOf(new) :
           spec.form = "assign" /\ \E i \in DOMAIN spec.names : spec.names[i] = n
  BY ReferredIs
<1>. QED
  BY <1>1, <1>2, <1>3

LEMMA FuncNames ==
  ASSUME pkg \in Packages, NEW decl \in Source
  PROVE  decl.func \in Idents \cup {NoName}
<1>1. PICK f \in DOMAIN pkg : decl \in {pkg[f].decls[d] : d \in DOMAIN pkg[f].decls}
  BY DEF Source
<1>2. PICK d \in DOMAIN pkg[f].decls : decl = pkg[f].decls[d]
  BY <1>1
<1>3. decl \in Decl
  BY <1>2, PackageTyped
<1>. QED
  BY <1>3 DEF Decl

(* What is referred to is declared somewhere, and written unless it is a     *)
(* module.                                                                   *)
LEMMA ReferredIsKnown ==
  ASSUME Settled, NEW decl \in Source, NEW n \in Referred(decl), n \in Idents,
         n \notin Locals(decl), ~IsModule(decl, n)
  PROVE  n \in OutKnown
<1>0. pkg \in Packages /\ Compiles
  BY DEF Settled
<1>1. n \notin {NoName, Blank, "nil", "inline", "wrong"}
  BY NamesAssumption
<1>2. n \in Known
  BY <1>0, <1>1 DEF Compiles
<1>3. PICK other \in Source : n \in Declares(other)
  BY <1>2 DEF Known
<1>4. CASE other.func # NoName
  BY <1>3, <1>4, FuncIsKnown DEF Declares
<1>5. CASE other.func = NoName
  <2>1. PICK f \in DOMAIN pkg : other \in {pkg[f].decls[d] : d \in DOMAIN pkg[f].decls}
    BY DEF Source
  <2>2. PICK d \in DOMAIN pkg[f].decls : other = pkg[f].decls[d]
    BY <2>1
  <2>3. n \in NamesOf(pkg[f].decls[d])
    BY <1>3, <1>5, <2>2 DEF Declares
  <2>4. PICK spec \in SpecsOf(pkg[f].decls[d]) : n \in {spec.names[k] : k \in DOMAIN spec.names}
    BY <2>3 DEF NamesOf
  <2>5. PICK k \in DOMAIN spec.names : n = spec.names[k]
    BY <2>4
  <2>6. PICK y \in NamePlaces : DeclAt(y) = pkg[f].decls[d] /\ NameAt(y) = spec.names[k]
    BY <1>0, <2>5, NameOfDecl
  <2>7. y \in VarPlaces /\ NameAt(y) = n
    BY <1>5, <2>2, <2>5, <2>6 DEF VarPlaces, Local
  <2>8. y \in ObjectOf(decl, n)
    BY <1>1, <2>7 DEF ObjectOf
  <2>9. y \notin mods
    BY <2>8 DEF IsModule
  <2>. QED
    BY <2>7, <2>9, VarIsKnown
<1>. QED
  BY <1>4, <1>5

LEMMA MeantIs ==
  ASSUME mods = AllModules, NEW decl, NEW n
  PROVE  Meant(decl, n) <=> IsModule(decl, n)
  BY DEF Meant, IsModule

LEMMA SentinelsDiffer == Garbage # Blank /\ Garbage # NoName /\ Blank # NoName
<1>1. ASSUME NEW a, NEW b
      PROVE  Cardinality({a, b}) # 3
  <2>1. IsFiniteSet({a}) /\ Cardinality({a}) = 1
    BY FS_Singleton
  <2>2. {a, b} = {a} \cup {b}
    OBVIOUS
  <2>3. Cardinality({a} \cup {b}) = IF b \in {a} THEN Cardinality({a}) ELSE Cardinality({a}) + 1
    BY <2>1, FS_AddElement
  <2>. QED
    BY <2>1, <2>2, <2>3
<1>2. Garbage = Blank => {Blank, NoName, Garbage} = {Blank, NoName}
  OBVIOUS
<1>3. Garbage = NoName => {Blank, NoName, Garbage} = {Blank, NoName}
  OBVIOUS
<1>4. Blank = NoName => {Blank, NoName, Garbage} = {Blank, Garbage}
  OBVIOUS
<1>. QED
  BY <1>1, <1>2, <1>3, <1>4, NamesAssumption

LEMMA UntaggedResolves ==
  ASSUME Settled, ~Overlooked, NEW f \in DOMAIN pkg, ~pkg[f].tagged, NEW d \in DOMAIN pkg[f].decls
  PROVE  LET b == pkg[f].decls[d]
         IN  /\ Referred(b) \subseteq OutKnown \cup Locals(b) \cup {NoName, Garbage, Blank}
             /\ Garbage \notin NamesOf(b)
<1>. DEFINE b == pkg[f].decls[d]
<1>0. pkg \in Packages /\ mods = AllModules /\ MisusedModules = {}
  BY DEF Settled, Mistakes
<1>1. b \in Source
  BY DEF Source
<1>2. ASSUME NEW n \in Referred(b), IsModule(b, n)
      PROVE  FALSE
  <2>1. Meant(b, n) /\ n \in Idents
    BY <1>0, <1>2, MeantIs, ModuleName DEF Settled
  <2>2. ASSUME NEW v \in ValuesOf(b), n \in v.uses \cup {v.lead}
        PROVE  FALSE
    <3>1. PICK x \in ValuePlaces : x[1] = f /\ x[2] = d /\ DeclAt(x) = b /\ ValueAt(x) = v
      BY <1>0, ValueOfDecl
    <3>2. v \in Value
      BY <1>0, <3>1, PlaceParts
    <3>3. v.call = "none"
      BY <2>1, <2>2, <3>2, NamesAssumption DEF Value
    <3>4. ~Tagged(x)
      BY <1>2, <3>1 DEF Tagged
    <3>5. CASE n \in v.uses
      BY <1>0, <2>1, <3>1, <3>3, <3>5 DEF MisusedModules
    <3>6. CASE n = v.lead /\ x \notin BlankValues
      BY <1>0, <2>1, <3>1, <3>3, <3>6 DEF MisusedModules
    <3>7. CASE n = v.lead /\ x \in BlankValues
      BY <1>2, <3>1, <3>4, <3>7 DEF Overlooked
    <3>. QED
      BY <2>2, <3>5, <3>6, <3>7
  <2>3. ASSUME b.func # NoName, NEW spec \in SpecsOf(b), NEW i \in DOMAIN spec.names, spec.names[i] = n
        PROVE  FALSE
    <3>1. PICK x \in NamePlaces : DeclAt(x) = b /\ NameAt(x) = spec.names[i]
      BY <1>0, NameOfDecl
    <3>2. Local(x)
      BY <2>3, <3>1 DEF Local
    <3>. QED
      BY <1>0, <2>1, <2>3, <3>1, <3>2 DEF MisusedModules
  <2>. QED
    BY <2>2, <2>3, ReferredIs
<1>3. ASSUME NEW n \in Referred(b)
      PROVE  n \in OutKnown \cup Locals(b) \cup {NoName, Garbage, Blank}
  <2>1. n \in Idents \cup {NoName, Blank}
    BY <1>0, <1>1, ReferredTyped
  <2>2. n \in Idents /\ n \notin Locals(b) => n \in OutKnown
    BY <1>1, <1>2, ReferredIsKnown
  <2>. QED
    BY <2>1, <2>2
<1>4. Garbage \notin NamesOf(b)
  <2>1. ASSUME NEW spec \in SpecsOf(b), NEW k \in DOMAIN spec.names
        PROVE  spec.names[k] # Garbage
    <3>1. PICK x \in NamePlaces : NameAt(x) = spec.names[k]
      BY <1>0, NameOfDecl
    <3>2. NameAt(x) \in Idents \cup {Blank}
      BY <1>0, PlaceParts
    <3>3. Garbage \notin Idents /\ Garbage # Blank
      BY SentinelsDiffer, NamesAssumption
    <3>. QED
      BY <3>1, <3>2, <3>3
  <2>. QED
    BY <2>1 DEF NamesOf
<1>. QED
  BY <1>3, <1>4

(* A local name that goes is a module's, which has a namesake. *)
LEMMA LocalResolves ==
  ASSUME Settled, ~Overlooked, NEW z \in NamePlaces, Local(z), Tagged(z),
         SpecAt(z).form \in {"spec", "define"}, NameAt(z) \in Idents
  PROVE  NameAt(z) \in OutKnown \cup Locals(EraseDirectives(z[1], z[2]))
<1>0. pkg \in Packages /\ mods = AllModules /\ convs = AllInjectors
  BY DEF Settled
<1>1. CASE ~Gone(z)
  BY <1>0, <1>1, LocalsStay
<1>2. CASE Gone(z)
  <2>1. z \in ValuePlaces /\ ValueAt(z).call = "Module"
    BY <1>0, <1>2, GoneIs
  <2>2. Outermost(ValueAt(z)) # {}
    BY <2>1 DEF Outermost
  <2>3. NamesakeOf(z)
    BY <2>1, <2>2 DEF Overlooked, Harmless
  <2>4. NameAt(z) # Blank
    BY NamesAssumption
  <2>5. CASE NameAt(z) \in {decl.func : decl \in Source}
    <3>1. PICK decl \in Source : decl.func = NameAt(z)
      BY <2>5
    <3>2. decl.func # NoName
      BY <3>1, NamesAssumption
    <3>. QED
      BY <3>1, <3>2, FuncIsKnown
  <2>6. CASE \E q \in NamePlaces : NameAt(q) = NameAt(z) /\ q \notin mods /\ ~Local(q)
    <3>1. PICK q \in NamePlaces : NameAt(q) = NameAt(z) /\ q \notin mods /\ ~Local(q)
      BY <2>6
    <3>2. q \in VarPlaces
      BY <3>1 DEF VarPlaces
    <3>3. NameAt(q) \in OutKnown
      BY <3>1, <3>2, VarIsKnown
    <3>. QED
      BY <3>1, <3>3
  <2>7. CASE \E q \in NamePlaces : /\ NameAt(q) = NameAt(z) /\ q[1] = z[1] /\ q[2] = z[2]
                                   /\ SpecAt(q).form \in {"define", "spec"}
                                   /\ (SpecAt(q).form = "spec" => ~Erased(q))
    <3>1. PICK q \in NamePlaces : /\ NameAt(q) = NameAt(z) /\ q[1] = z[1] /\ q[2] = z[2]
                                   /\ SpecAt(q).form \in {"define", "spec"}
                                   /\ (SpecAt(q).form = "spec" => ~Erased(q))
      BY <2>7
    <3>2. Local(q) /\ ~Gone(q)
      BY <3>1 DEF Local, DeclAt, Gone
    <3>3. NameAt(q) \in Locals(EraseDirectives(q[1], q[2]))
      BY <1>0, <3>1, <3>2, LocalsStay
    <3>. QED
      BY <3>1, <3>3
  <2>. QED
    BY <2>3, <2>4, <2>5, <2>6, <2>7 DEF NamesakeOf
<1>. QED
  BY <1>1, <1>2

LEMMA ErasedResolves ==
  ASSUME Settled, ~Overlooked, NEW f \in DOMAIN pkg, pkg[f].tagged, NEW d \in DOMAIN pkg[f].decls
  PROVE  LET b == EraseDirectives(f, d)
         IN  /\ Referred(b) \subseteq OutKnown \cup Locals(b) \cup {NoName, Garbage, Blank}
             /\ Garbage \notin NamesOf(b)
<1>. DEFINE decl == pkg[f].decls[d]
            b == EraseDirectives(f, d)
<1>0. pkg \in Packages /\ Compiles /\ mods = AllModules /\ convs = AllInjectors /\ MisusedModules = {}
  BY DEF Settled, Mistakes
<1>1. decl \in Source
  BY DEF Source
<1>2. ASSUME NEW n \in Referred(b), n # Garbage
      PROVE  n \in OutKnown \cup Locals(b) \cup {NoName, Blank}
  <2>1. n \in Referred(decl) /\ ~IsModule(decl, n)
    BY <1>0, <1>2, ReferredWas
  <2>2. n \in Idents \cup {NoName, Blank}
    BY <1>0, <1>1, <2>1, ReferredTyped
  <2>3. CASE n \in Idents /\ n \notin Locals(decl)
    BY <1>1, <2>1, <2>3, ReferredIsKnown
  <2>4. CASE n \in Idents /\ n \in Locals(decl)
    <3>1. PICK z \in NamePlaces : /\ z[1] = f /\ z[2] = d /\ Local(z)
                                  /\ SpecAt(z).form \in {"spec", "define"} /\ NameAt(z) = n
      BY <1>0, <2>4, LocalsAre
    <3>2. Tagged(z)
      BY <3>1 DEF Tagged
    <3>3. NameAt(z) \in OutKnown \cup Locals(EraseDirectives(z[1], z[2]))
      BY <2>4, <3>1, <3>2, LocalResolves
    <3>. QED
      BY <3>1, <3>3
  <2>. QED
    BY <2>2, <2>3, <2>4
<1>3. ASSUME NEW spec \in SpecsOf(b), NEW k \in DOMAIN spec.names, spec.names[k] = Garbage
      PROVE  FALSE
  <2>1. PICK x \in NamePlaces : x[1] = f /\ x[2] = d /\ ~Gone(x) /\ NewName(x) = Garbage
    BY <1>0, <1>3, NameWas
  <2>2. Tagged(x)
    BY <2>1 DEF Tagged
  <2>3. x \notin mods
    <3>1. ASSUME x \in mods
          PROVE  FALSE
      <4>1. x \in ValuePlaces /\ SpecAt(x).form = "spec" /\ ValueAt(x).call = "Module"
        BY <1>0, <3>1, ModuleIs
      <4>2. ~ValueAt(x).paren
        BY <2>2, <4>1 DEF Overlooked
      <4>3. x[4] \in DOMAIN SpecAt(x).values
        BY <1>0, <4>1, PlaceParts
      <4>. QED
        BY <2>1, <4>1, <4>2, <4>3 DEF Gone, Erased
    <3>. QED
      BY <3>1
  <2>4. NameAt(x) # Garbage
    <3>1. NameAt(x) \in Idents \cup {Blank}
      BY <1>0, PlaceParts
    <3>. QED
      BY <3>1, SentinelsDiffer, NamesAssumption
  <2>5. IsModule(DeclAt(x), NameAt(x))
    BY <2>1, <2>3, <2>4 DEF NewName, KeptName, GarbleName
  <2>6. CASE Local(x)
    <3>1. Meant(DeclAt(x), NameAt(x))
      BY <1>0, <2>5, MeantIs
    <3>. QED
      BY <1>0, <2>6, <3>1 DEF MisusedModules
  <2>7. CASE ~Local(x)
    <3>1. x \in VarPlaces
      BY <2>7 DEF VarPlaces
    <3>. QED
      BY <1>0, <2>3, <2>5, <3>1, ModuleName
  <2>. QED
    BY <2>6, <2>7
<1>4. Garbage \notin NamesOf(b)
  BY <1>3 DEF NamesOf
<1>. QED
  BY <1>2, <1>4

LEMMA Resolves ==
  NamesResolve <=>
    \A b \in Built : /\ Referred(b) \subseteq OutKnown \cup Locals(b) \cup {NoName, Garbage, Blank}
                     /\ Garbage \notin NamesOf(b)
  BY DEF NamesResolve, OutKnown

LEMMA NothingMissing ==
  ASSUME Settled, ~Overlooked
  PROVE  NamesResolve
<1>1. ASSUME NEW b \in Built
      PROVE  /\ Referred(b) \subseteq OutKnown \cup Locals(b) \cup {NoName, Garbage, Blank}
             /\ Garbage \notin NamesOf(b)
  <2>1. CASE \E f \in DOMAIN pkg : \E d \in WholeDecls(f) : b = EraseDirectives(f, d)
    <3>1. PICK f \in DOMAIN pkg : \E d \in WholeDecls(f) : b = EraseDirectives(f, d)
      BY <2>1
    <3>2. PICK d \in WholeDecls(f) : b = EraseDirectives(f, d)
      BY <3>1
    <3>3. d \in DOMAIN pkg[f].decls /\ pkg[f].tagged
      BY <3>2 DEF WholeDecls
    <3>. QED
      BY <3>2, <3>3, ErasedResolves
  <2>2. CASE \E f \in DOMAIN pkg : ~pkg[f].tagged /\ \E d \in DOMAIN pkg[f].decls : b = pkg[f].decls[d]
    <3>1. PICK f \in DOMAIN pkg : ~pkg[f].tagged /\ \E d \in DOMAIN pkg[f].decls : b = pkg[f].decls[d]
      BY <2>2
    <3>2. PICK d \in DOMAIN pkg[f].decls : b = pkg[f].decls[d]
      BY <3>1
    <3>. QED
      BY <3>1, <3>2, UntaggedResolves
  <2>. QED
    BY <2>1, <2>2 DEF Settled
<1>. QED
  BY <1>1, Resolves

(* A value of a function that is erased is a module. *)
LEMMA LocalGoneIsModule ==
  ASSUME Settled, NEW y \in ValuePlaces, Local(y), Gone(y)
  PROVE  ValueAt(y).call = "Module" /\ ~ValueAt(y).paren
<1>1. pkg \in Packages /\ convs = AllInjectors
  BY DEF Settled
<1>. QED
  BY <1>1, GoneIs

(* A module that a function declares is missed where the function uses it. *)
LEMMA ModuleIsMissed ==
  ASSUME Settled, ConvgenIsGone, NamesResolve, NEW p \in ValuePlaces, Tagged(p), Local(p), Gone(p)
  PROVE  NamesakeOf(p)
<1>. DEFINE n == NameAt(p)
<1>0. pkg \in Packages /\ Compiles /\ mods = AllModules /\ convs = AllInjectors
  BY DEF Settled
<1>1. p \in NamePlaces /\ SpecAt(p).form = "spec" /\ ValueAt(p).call = "Module"
  BY <1>0, GoneIs, LocalGoneIsModule DEF Gone
<1>2. CASE n = Blank
  BY <1>2 DEF NamesakeOf
<1>3. CASE n # Blank
  <2>1. n \in Idents /\ p[4] \in DOMAIN SpecAt(p).values
    BY <1>0, <1>1, <1>3, PlaceParts
  <2>2. PICK v \in ValuesOf(DeclAt(p)) : n \in v.uses \cup {v.lead, v.arg} \/ "Injector" \in v.inside
    BY <1>0, <1>1, <1>3, <2>1 DEF Compiles
  <2>3. p[1] \in DOMAIN pkg /\ p[2] \in DOMAIN pkg[p[1]].decls /\ DeclAt(p) = pkg[p[1]].decls[p[2]]
    BY <1>0, PlaceParts
  <2>4. PICK y \in ValuePlaces : y[1] = p[1] /\ y[2] = p[2] /\ DeclAt(y) = DeclAt(p) /\ ValueAt(y) = v
    <3>1. v \in ValuesOf(pkg[p[1]].decls[p[2]])
      BY <2>2, <2>3
    <3>. QED
      BY <1>0, <2>3, <3>1, ValueOfDecl
  <2>5. Tagged(y) /\ Local(y) /\ v \in Value
    BY <1>0, <2>4, PlaceParts DEF Tagged, Local
  <2>6. Gone(y) => v.call = "Module"
    BY <2>4, <2>5, LocalGoneIsModule
  <2>7. ~Gone(y) => Outermost(v) = {}
    BY <2>4, <2>5, DirectivesLeft
  <2>8. v.inside = {}
    BY <2>5, <2>6, <2>7 DEF Value, Outermost
  <2>9. n # v.arg
    <3>1. n = v.arg => v.call = "Injector"
      <4>1. n # "nil"
        BY <2>1, NamesAssumption
      <4>. QED
        BY <2>5, <4>1 DEF Value
    <3>2. v.call # "Injector"
      BY <2>6, <2>7 DEF Outermost
    <3>. QED
      BY <3>1, <3>2
  <2>10. n \in v.uses \cup {v.lead}
    BY <2>2, <2>8, <2>9
  <2>11. v.call = "none"
    <3>1. n # NoName
      BY <2>1, NamesAssumption
    <3>. QED
      BY <2>5, <2>10, <3>1 DEF Value
  <2>12. ~Gone(y)
    BY <2>6, <2>11
  <2>13. n \in Locals(DeclAt(p)) /\ ~IsModule(DeclAt(p), n)
    BY <1>0, <1>1, LocalName
  <2>. PICK b : b = EraseDirectives(p[1], p[2])
    OBVIOUS
  <2>14. n \in Referred(b) /\ b \in Built
    <3>1. NewValue(y) \in ValuesOf(b)
      BY <1>0, <2>4, <2>12, ValueStays
    <3>2. NewValue(y).uses = {GarbleName(DeclAt(p), m) : m \in v.uses} /\ NewValue(y).lead = GarbleName(DeclAt(p), v.lead)
      BY <2>4, <2>5, GarbledValueIs DEF NewValue
    <3>3. GarbleName(DeclAt(p), n) = n
      BY <2>13 DEF GarbleName
    <3>4. n \in NewValue(y).uses \cup {NewValue(y).lead}
      BY <2>10, <3>2, <3>3
    <3>5. b \in Built
      BY <2>4, <2>5, <2>12, LeftIsBuilt
    <3>. QED
      BY <3>1, <3>4, <3>5, ReferredIs
  <2>15. n \in OutKnown \cup Locals(b)
    <3>1. n \notin {NoName, Garbage, Blank}
      BY <2>1, NamesAssumption
    <3>. QED
      BY <2>14, <3>1, Resolves
  <2>16. CASE n \in OutKnown
    <3>1. n \in {decl.func : decl \in Source} \/ \E q \in VarPlaces : q \notin mods /\ NameAt(q) = n
      BY <2>1, <2>16, KnownWas
    <3>. QED
      BY <3>1 DEF NamesakeOf, VarPlaces
  <2>17. CASE n \in Locals(b)
    <3>1. n # Garbage
      BY <2>1, NamesAssumption
    <3>2. PICK q \in NamePlaces : /\ q[1] = p[1] /\ q[2] = p[2] /\ Local(q) /\ SpecAt(q).form \in {"spec", "define"}
                                  /\ ~Gone(q) /\ NameAt(q) = n
      BY <1>0, <2>3, <2>17, <3>1, LocalsWere
    <3>3. q \notin mods
      BY <1>0, <3>2, ModuleIs
    <3>. QED
      BY <3>2, <3>3 DEF NamesakeOf, Gone
  <2>. QED
    BY <2>15, <2>16, <2>17
<1>. QED
  BY <1>2, <1>3

LEMMA WhatIsOverlookedShows ==
  ASSUME Settled, ConvgenIsGone, NamesResolve
  PROVE  ~Overlooked
<1>0. pkg \in Packages /\ Compiles /\ mods = AllModules /\ convs = AllInjectors
  BY DEF Settled
<1>1. ASSUME NEW p \in ValuePlaces, Tagged(p), Local(p), Outermost(ValueAt(p)) # {}
      PROVE  Harmless(p)
  <2>1. Gone(p)
    BY <1>1, DirectivesLeft
  <2>2. SpecAt(p).form = "spec" /\ ValueAt(p).call = "Module" /\ ~ValueAt(p).paren
    BY <1>1, <2>1, LocalGoneIsModule DEF Gone
  <2>3. NamesakeOf(p)
    BY <1>1, <2>1, ModuleIsMissed
  <2>. QED
    BY <2>2, <2>3 DEF Harmless
<1>2. ASSUME NEW p \in ValuePlaces, Tagged(p)
      PROVE  ~(ValueAt(p).call # "none" /\ ValueAt(p).paren)
  <2>1. Gone(p) => ~ValueAt(p).paren
    BY <1>0, GoneIs
  <2>2. ~Gone(p) => Outermost(ValueAt(p)) = {}
    BY <1>2, DirectivesLeft
  <2>. QED
    BY <2>1, <2>2 DEF Outermost
<1>3. ASSUME NEW p \in ValuePlaces, Tagged(p)
      PROVE  ValueAt(p).inside = {}
  <2>1. Gone(p) => ValueAt(p).call # "none"
    BY <1>0, GoneIs
  <2>2. ~Gone(p) => Outermost(ValueAt(p)) = {}
    BY <1>3, DirectivesLeft
  <2>3. ValueAt(p) \in Value
    BY <1>0, PlaceParts
  <2>. QED
    BY <2>1, <2>2, <2>3 DEF Outermost, Value
<1>4. ASSUME NEW p \in BlankValues, ~Tagged(p), IsModule(DeclAt(p), ValueAt(p).lead)
      PROVE  FALSE
  <2>. DEFINE n == ValueAt(p).lead
              b == DeclAt(p)
  <2>1. p \in ValuePlaces
    BY DEF BlankValues
  <2>2. p[1] \in DOMAIN pkg /\ p[2] \in DOMAIN pkg[p[1]].decls /\ b = pkg[p[1]].decls[p[2]]
        /\ ValueAt(p) \in ValuesOf(b)
    BY <1>0, <2>1, PlaceParts, PlaceOfDecl
  <2>3. b \in Built
    BY <1>4, <2>2 DEF Settled, Tagged
  <2>4. n \in Referred(b)
    BY <2>2, ReferredIs
  <2>5. /\ n \in Idents /\ n \notin Locals(b)
        /\ \A y \in VarPlaces : NameAt(y) = n => y \in mods
        /\ \A other \in Source : other.func # n
    BY <1>0, <1>4, ModuleName
  <2>6. n \in OutKnown
    <3>1. n \notin {NoName, Garbage, Blank}
      BY <2>5, NamesAssumption
    <3>. QED
      BY <2>3, <2>4, <2>5, <3>1, Resolves
  <2>. QED
    BY <2>5, <2>6, KnownWas
<1>. QED
  BY <1>1, <1>2, <1>3, <1>4 DEF Overlooked

(* The code written compiles without Convgen -- no directive is left in it   *)
(* and no name refers to what was erased -- just where the validation        *)
(* (validate.go:19) and the erasure (convgen.go:222) overlook nothing.       *)
THEOREM OutputStandsAlone == Spec => []StandsAlone
<1>1. ASSUME Progress, Output, phase = "done"
      PROVE  ConvgenIsGone /\ NamesResolve <=> ~Overlooked
  <2>1. Settled
    BY <1>1, DoneIsSettled
  <2>. QED
    BY <2>1, NothingOverlooked, NothingMissing, WhatIsOverlookedShows
<1>2. Progress /\ Output => StandsAlone
  BY <1>1 DEF StandsAlone
<1>. QED
  BY <1>2, RunsProgress, RunsOutput, PTL
=============================================================================
