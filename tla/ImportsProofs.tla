---------------------------- MODULE ImportsProofs ----------------------------
(***************************************************************************)
(* Theorems about Imports, for any packages, names and runs.               *)
(***************************************************************************)
EXTENDS ImportsProps, TLAPS

(* Names stay as they are in a run over known packages. *)
Typed == TypeOK /\ prog \in Programs

LEMMA TargetIsTarget ==
  ASSUME Typed
  PROVE  prog \in Seq(Targets) /\ cur \in 1 .. Len(prog) /\ Target \in Targets
<1>1. prog \in Seq(Targets)
  BY ProgramsAssumption DEF Typed
<1>2. cur \in 1 .. Len(prog)
  BY <1>1 DEF Typed, TypeOK
<1>. QED
  BY <1>1, <1>2 DEF Target

(* The mention in hand is one of those of the package in hand. *)
LEMMA ItemIsItem ==
  ASSUME Typed, pos <= Len(Target.items)
  PROVE  Item \in Items
<1>1. Target.items \in Seq(Items)
  BY TargetIsTarget DEF Targets
<1>2. pos \in 1 .. Len(Target.items)
  BY <1>1 DEF Typed, TypeOK
<1>. QED
  BY <1>1, <1>2 DEF Item

LEMMA DisambiguateNameType ==
  ASSUME NEW name \in NamesUsed, NEW i \in Nat
  PROVE  DisambiguateName(name, i) \in NamesUsed
<1>1. name.nums \in Seq(Nat)
  BY DEF NamesUsed
<1>2. Append(name.nums, i) \in Seq(Nat)
  BY <1>1
<1>3. [name EXCEPT !.nums = Append(@, i)] \in NamesUsed
  BY <1>2 DEF NamesUsed
<1>. QED
  BY <1>3 DEF DisambiguateName

(* What importing does to the table. *)
LEMMA ImportedType ==
  ASSUME DOMAIN imports \subseteq NamesUsed, \A n \in DOMAIN imports : imports[n] \in Entry,
         NEW name \in NamesUsed, NEW path \in Paths, NEW shared \in BOOLEAN,
         NEW alias \in BOOLEAN, Imported(name, path, shared, alias)
  PROVE  DOMAIN imports' \subseteq NamesUsed /\ \A n \in DOMAIN imports' : imports'[n] \in Entry
<1>1. [path |-> path, shared |-> shared, alias |-> alias] \in Entry
  BY DEF Entry
<1>. QED
  BY <1>1 DEF Imported

-----------------------------------------------------------------------------
(* Importing *)
AllSettled == \A n \in DOMAIN imports : Settled(n)

ImportsKept == \A n \in DOMAIN imports : n \in DOMAIN imports' /\ imports'[n] = imports[n]

TablesTyped ==
  /\ names \in [Paths -> NamesUsed]
  /\ DOMAIN imports \subseteq NamesUsed /\ \A n \in DOMAIN imports : imports[n] \in Entry

LEMMA ImportedKeeps ==
  ASSUME NEW name, name \notin DOMAIN imports, NEW path, NEW shared, NEW alias,
         Imported(name, path, shared, alias)
  PROVE  /\ ImportsKept
         /\ DOMAIN imports' = DOMAIN imports \cup {name}
         /\ imports'[name].path = path /\ imports'[name].shared = shared
BY DEF Imported, ImportsKept

(* The name that importing arrives at is one of the names the package has,   *)
(* or a new one; in the latter case no name offered before is one of those.  *)
LEMMA OfferedName ==
  ASSUME NEW base, NEW ours, NEW i \in Nat \ {0}, Offered(base, ours, i)
  PROVE  /\ DisambiguateName(base, i) \in ours \/ DisambiguateName(base, i) \notin DOMAIN imports
         /\ DisambiguateName(base, i) \in ours \/ base \notin ours
<1>1. DisambiguateName(base, i) \in ours \/ DisambiguateName(base, i) \notin DOMAIN imports
  BY DEF Offered, Free
<1>2. DisambiguateName(base, 1) = base
  BY DEF DisambiguateName
<1>3. i = 1 \/ 1 \in 1 .. i - 1
  OBVIOUS
<1>4. DisambiguateName(base, i) \in ours \/ base \notin ours
  BY <1>2, <1>3 DEF Offered
<1>. QED
  BY <1>1, <1>4

LEMMA ImportObjTypes ==
  ASSUME TablesTyped, NEW path \in Paths, NEW i \in Nat \ {0}, ImportObj(path, i)
  PROVE  TablesTyped'
<1>1. PICK name : name = DisambiguateName(names[path], i)
  OBVIOUS
<1>2. name \in NamesUsed
  BY <1>1, DisambiguateNameType DEF TablesTyped
<1>3. CASE UNCHANGED <<imports, names>>
  BY <1>3 DEF TablesTyped
<1>4. CASE Imported(name, path, TRUE, name # names[path]) /\ names' = [names EXCEPT ![path] = name]
  <2>1. PICK alias \in BOOLEAN : alias = (name # names[path])
    OBVIOUS
  <2>2. Imported(name, path, TRUE, alias)
    BY <1>4, <2>1
  <2>3. DOMAIN imports' \subseteq NamesUsed /\ \A n \in DOMAIN imports' : imports'[n] \in Entry
    BY <1>2, <2>2, ImportedType DEF TablesTyped
  <2>4. names' \in [Paths -> NamesUsed]
    BY <1>2, <1>4 DEF TablesTyped
  <2>. QED
    BY <2>3, <2>4 DEF TablesTyped
<1>. QED
  BY <1>1, <1>3, <1>4 DEF ImportObj

LEMMA ImportTypes ==
  ASSUME TablesTyped, NEW path \in Paths, NEW base \in NamesUsed, NEW i \in Nat \ {0},
         Import(path, base, i)
  PROVE  TablesTyped'
<1>1. PICK name : name = DisambiguateName(base, i)
  OBVIOUS
<1>2. name \in NamesUsed
  BY <1>1, DisambiguateNameType
<1>3. PICK alias \in BOOLEAN : alias = (path \in Target.direct => name # names[path])
  OBVIOUS
<1>4. names' = names /\ (UNCHANGED imports \/ Imported(name, path, FALSE, alias))
  BY <1>1, <1>3 DEF Import
<1>5. DOMAIN imports' \subseteq NamesUsed /\ \A n \in DOMAIN imports' : imports'[n] \in Entry
  <2>1. CASE UNCHANGED imports
    BY <2>1 DEF TablesTyped
  <2>2. CASE Imported(name, path, FALSE, alias)
    BY <1>2, <2>2, ImportedType DEF TablesTyped
  <2>. QED
    BY <1>4, <2>1, <2>2
<1>. QED
  BY <1>4, <1>5 DEF TablesTyped

(* A package that has been imported under its name is found under it, so it  *)
(* is given another name only while it has none.                             *)
LEMMA ImportObjSettles ==
  ASSUME TablesTyped, AllSettled, NEW path \in Paths, NEW i \in Nat \ {0}, ImportObj(path, i)
  PROVE  AllSettled' /\ ImportsKept
<1>1. PICK name : name = DisambiguateName(names[path], i)
  OBVIOUS
<1>2. CASE UNCHANGED <<imports, names>>
  BY <1>2 DEF AllSettled, Settled, ImportsKept
<1>3. CASE /\ name \notin Ours(path)
           /\ Imported(name, path, TRUE, name # names[path])
           /\ names' = [names EXCEPT ![path] = name]
  <2>1. Offered(names[path], Ours(path), i)
    BY DEF ImportObj
  <2>2. name \notin DOMAIN imports /\ names[path] \notin Ours(path)
    BY <1>1, <1>3, <2>1, OfferedName
  <2>3. /\ ImportsKept
        /\ DOMAIN imports' = DOMAIN imports \cup {name}
        /\ imports'[name].path = path
    <3>1. PICK shared, alias : shared = TRUE /\ alias = (name # names[path])
      OBVIOUS
    <3>2. Imported(name, path, shared, alias)
      BY <1>3, <3>1
    <3>. QED
      BY <2>2, <3>2, ImportedKeeps
  <2>4. ASSUME NEW n \in DOMAIN imports
        PROVE  Settled(n)'
    <3>1. imports[n].shared => imports[n].path # path
      BY <2>2 DEF AllSettled, Settled, Ours
    <3>2. imports'[n] = imports[n]
      BY <2>3 DEF ImportsKept
    <3>. QED
      BY <1>3, <3>1, <3>2 DEF AllSettled, Settled, TablesTyped
  <2>5. Settled(name)'
    BY <1>3, <2>3 DEF Settled, TablesTyped
  <2>. QED
    BY <2>3, <2>4, <2>5 DEF AllSettled
<1>. QED
  BY <1>1, <1>2, <1>3 DEF ImportObj

LEMMA ImportSettles ==
  ASSUME AllSettled, NEW path, NEW base, NEW i \in Nat \ {0}, Import(path, base, i)
  PROVE  AllSettled' /\ ImportsKept
<1>1. PICK name : name = DisambiguateName(base, i)
  OBVIOUS
<1>2. PICK ours : ours = {n \in DOMAIN imports : imports[n].path = path}
  OBVIOUS
<1>3. PICK alias : alias = (path \in Target.direct => name # names[path])
  OBVIOUS
<1>4. /\ Offered(base, ours, i) /\ names' = names
      /\ UNCHANGED imports \/ (name \notin ours /\ Imported(name, path, FALSE, alias))
  BY <1>1, <1>2, <1>3 DEF Import
<1>5. CASE UNCHANGED imports
  BY <1>4, <1>5 DEF AllSettled, Settled, ImportsKept
<1>6. CASE name \notin ours /\ Imported(name, path, FALSE, alias)
  <2>1. name \notin DOMAIN imports
    BY <1>1, <1>4, <1>6, OfferedName
  <2>2. /\ ImportsKept
        /\ DOMAIN imports' = DOMAIN imports \cup {name}
        /\ imports'[name].shared = FALSE
    <3>1. PICK shared : shared = FALSE
      OBVIOUS
    <3>2. Imported(name, path, shared, alias)
      BY <1>6, <3>1
    <3>. QED
      BY <2>1, <3>1, <3>2, ImportedKeeps
  <2>. QED
    BY <1>4, <2>2 DEF AllSettled, Settled, ImportsKept
<1>. QED
  BY <1>4, <1>5, <1>6

-----------------------------------------------------------------------------
(* Mentions *)
LEMMA MentionedPath ==
  ASSUME Typed, NEW op, Mention(op)
  PROVE  Item.path \in Paths
<1>1. Item \in Items
  BY ItemIsItem DEF Mention
<1>. QED
  BY <1>1 DEF Items

LEMMA WritesTypes ==
  ASSUME Typed, TablesTyped', NEW name \in NamesUsed, Item.path \in Paths, Writes(name)
  PROVE  Typed'
<1>1. [name |-> name, path |-> Item.path] \in Mentions
  BY DEF Mentions
<1>2. refs' \subseteq Mentions
  BY <1>1 DEF Typed, TypeOK, Writes
<1>3. pos' \in Nat \ {0}
  BY DEF Typed, TypeOK, Writes
<1>. QED
  BY <1>2, <1>3 DEF Typed, TypeOK, Writes, TablesTyped

LEMMA TypedTables ==
  ASSUME Typed
  PROVE  TablesTyped
BY DEF Typed, TypeOK, TablesTyped

LEMMA PrintObjectStep ==
  ASSUME Typed, PrintObject
  PROVE  Typed' /\ (AllSettled => AllSettled' /\ ImportsKept)
<1>1. Item.path \in Paths /\ TablesTyped
  BY MentionedPath, TypedTables DEF PrintObject
<1>2. PICK i \in Nat \ {0} : ImportObj(Item.path, i)
  BY TriesAssumption DEF PrintObject
<1>3. PICK path \in Paths : path = Item.path
  BY <1>1
<1>4. ImportObj(path, i)
  BY <1>2, <1>3
<1>5. TablesTyped'
  BY <1>1, <1>4, ImportObjTypes
<1>6. AllSettled => AllSettled' /\ ImportsKept
  BY <1>1, <1>4, ImportObjSettles
<1>7. PICK name \in NamesUsed : name = names'[path]
  BY <1>5 DEF TablesTyped
<1>8. Writes(name)
  BY <1>3, <1>7 DEF PrintObject
<1>. QED
  BY <1>1, <1>5, <1>6, <1>8, WritesTypes

LEMMA PrintUntrackedStep ==
  ASSUME Typed, PrintUntracked
  PROVE  Typed' /\ (AllSettled => AllSettled' /\ ImportsKept)
<1>1. Item.path \in Paths /\ TablesTyped
  BY MentionedPath, TypedTables DEF PrintUntracked
<1>2. TablesTyped'
  BY <1>1 DEF PrintUntracked, TablesTyped
<1>3. PICK name \in NamesUsed : name = names[Item.path]
  BY <1>1 DEF TablesTyped
<1>4. Writes(name)
  BY <1>3 DEF PrintUntracked
<1>5. Typed'
  BY <1>1, <1>2, <1>4, WritesTypes
<1>6. AllSettled => AllSettled' /\ ImportsKept
  BY DEF PrintUntracked, AllSettled, Settled, ImportsKept
<1>. QED
  BY <1>5, <1>6

(* What UseHelper and RewriteImport do, with the name they ask for. *)
LEMMA ImportStep ==
  ASSUME Typed, Item.path \in Paths, NEW base \in NamesUsed, NEW i \in Nat \ {0},
         Import(Item.path, base, i), Writes(DisambiguateName(base, i))
  PROVE  Typed' /\ (AllSettled => AllSettled' /\ ImportsKept)
<1>1. TablesTyped
  BY TypedTables
<1>2. PICK path \in Paths : path = Item.path
  OBVIOUS
<1>3. Import(path, base, i)
  BY <1>2
<1>4. TablesTyped'
  BY <1>1, <1>3, ImportTypes
<1>5. AllSettled => AllSettled' /\ ImportsKept
  BY <1>3, ImportSettles
<1>6. PICK name \in NamesUsed : name = DisambiguateName(base, i)
  BY DisambiguateNameType
<1>7. Writes(name)
  BY <1>6
<1>. QED
  BY <1>4, <1>5, <1>7, WritesTypes

LEMMA UseHelperStep ==
  ASSUME Typed, UseHelper
  PROVE  Typed' /\ (AllSettled => AllSettled' /\ ImportsKept)
<1>1. Item.path \in Paths
  BY MentionedPath DEF UseHelper
<1>2. PICK base \in NamesUsed : base = PkgNames[Item.path]
  BY <1>1, NamesAssumption
<1>3. PICK i \in Nat \ {0} : Import(Item.path, base, i) /\ Writes(DisambiguateName(base, i))
  BY <1>2, TriesAssumption DEF UseHelper
<1>. QED
  BY <1>1, <1>3, ImportStep

LEMMA RewriteImportStep ==
  ASSUME Typed, RewriteImport
  PROVE  Typed' /\ (AllSettled => AllSettled' /\ ImportsKept)
<1>1. Item.path \in Paths
  BY MentionedPath DEF RewriteImport
<1>2. PICK base \in NamesUsed : base = names[Item.path]
  BY <1>1 DEF Typed, TypeOK
<1>3. PICK i \in Nat \ {0} : Import(Item.path, base, i) /\ Writes(DisambiguateName(base, i))
  BY <1>2, TriesAssumption DEF RewriteImport
<1>. QED
  BY <1>1, <1>3, ImportStep

-----------------------------------------------------------------------------
(* The run *)
LEMMA NextTargetTypes ==
  ASSUME Typed, NextTarget, prog' = prog
  PROVE  cur' \in DOMAIN prog' /\ phase' \in {"build", "save", "failed"}
<1>1. cur \in 1 .. Len(prog) /\ DOMAIN prog = 1 .. Len(prog) /\ Len(prog) \in Nat
  BY TargetIsTarget
<1>2. CASE cur < Len(prog)
  <2>1. cur + 1 \in 1 .. Len(prog)
    BY <1>1, <1>2
  <2>. QED
    BY <1>1, <1>2, <2>1 DEF NextTarget
<1>3. CASE ~(cur < Len(prog))
  BY <1>1, <1>3 DEF NextTarget
<1>. QED
  BY <1>2, <1>3

LEMMA LoadTypes ==
  ASSUME Typed, Load
  PROVE  Typed'
<1>1. ASSUME NEW t \in DOMAIN prog
      PROVE  prog[t].broken \subseteq Faults
  <2>1. prog[t] \in Targets
    BY TargetIsTarget
  <2>. QED
    BY <2>1 DEF Targets
<1>2. errs' \subseteq Faults \cup {Unwritten}
  BY <1>1 DEF Load
<1>3. phase' \in {"build", "failed"}
  BY DEF Load
<1>. QED
  BY <1>2, <1>3 DEF Typed, TypeOK, Load

LEMMA BuildFailsTypes ==
  ASSUME Typed, BuildFails
  PROVE  Typed'
<1>1. Target.mistakes \subseteq Faults
  BY TargetIsTarget DEF Targets
<1>2. errs' \subseteq Faults \cup {Unwritten}
  BY <1>1 DEF Typed, TypeOK, BuildFails
<1>3. cur' \in DOMAIN prog' /\ phase' \in {"build", "save", "failed"}
  BY NextTargetTypes DEF BuildFails
<1>. QED
  BY <1>2, <1>3 DEF Typed, TypeOK, BuildFails

LEMMA GenerateTypes ==
  ASSUME Typed, Generate
  PROVE  Typed' /\ AllSettled'
<1>1. DOMAIN NoImports = {}
  BY DEF NoImports
<1>2. phase' = "generate" /\ pos' \in Nat \ {0} /\ refs' \subseteq Mentions
  BY DEF Generate
<1>3. DOMAIN imports' = {}
  BY <1>1 DEF Generate
<1>4. AllSettled'
  BY <1>3 DEF AllSettled
<1>5. Typed'
  BY <1>2, <1>3 DEF Typed, TypeOK, Generate
<1>. QED
  BY <1>4, <1>5

LEMMA SpecsType ==
  ASSUME Typed
  PROVE  Specs \subseteq Mentions
<1>1. SUFFICES ASSUME NEW n \in DOMAIN imports
               PROVE  [name |-> IF imports[n].alias THEN n ELSE PkgNames[imports[n].path],
                       path |-> imports[n].path] \in Mentions
  BY DEF Specs
<1>2. imports[n].path \in Paths /\ n \in NamesUsed
  BY DEF Typed, TypeOK, Entry
<1>3. PICK name \in NamesUsed :
        name = IF imports[n].alias THEN n ELSE PkgNames[imports[n].path]
  BY <1>2, NamesAssumption
<1>4. [name |-> name, path |-> imports[n].path] \in Mentions
  BY <1>2 DEF Mentions
<1>. QED
  BY <1>3, <1>4

LEMMA FrameCodeTypes ==
  ASSUME Typed, FrameCode
  PROVE  Typed'
<1>1. Target.dir \in Dirs /\ cur \in DOMAIN prog /\ prog' = prog
  BY TargetIsTarget DEF Targets, FrameCode
<1>2. PICK file : file = [of |-> cur, specs |-> Specs, refs |-> refs]
  OBVIOUS
<1>3. file.of \in DOMAIN prog /\ file.specs \subseteq Mentions /\ file.refs \subseteq Mentions
  BY <1>1, <1>2, SpecsType DEF Typed, TypeOK
<1>4. outs' = [d \in DOMAIN outs \cup {Target.dir} |-> IF d = Target.dir THEN file ELSE outs[d]]
  BY <1>2 DEF FrameCode
<1>5. /\ DOMAIN outs' \subseteq Dirs /\ DOMAIN outs \subseteq DOMAIN outs'
      /\ \A d \in DOMAIN outs' : outs'[d] = file \/ (d \in DOMAIN outs /\ outs'[d] = outs[d])
  BY <1>1, <1>4 DEF Typed, TypeOK
<1>6. \A d \in DOMAIN outs' :
        /\ outs'[d].of \in DOMAIN prog'
        /\ outs'[d].specs \subseteq Mentions /\ outs'[d].refs \subseteq Mentions
  BY <1>1, <1>3, <1>5 DEF Typed, TypeOK
<1>7. cur' \in DOMAIN prog' /\ phase' \in {"build", "save", "failed"}
  BY NextTargetTypes DEF FrameCode
<1>8. DOMAIN outs' \subseteq Dirs /\ disk' \subseteq DOMAIN outs'
  BY <1>5 DEF Typed, TypeOK, FrameCode
<1>. QED
  BY <1>6, <1>7, <1>8 DEF Typed, TypeOK, FrameCode

LEMMA WriteFileTypes ==
  ASSUME Typed, WriteFile
  PROVE  Typed'
<1>1. disk' \subseteq DOMAIN outs'
  BY DEF Typed, TypeOK, WriteFile
<1>2. phase' \in {"save", "done"}
  BY DEF WriteFile
<1>. QED
  BY <1>1, <1>2 DEF Typed, TypeOK, WriteFile

LEMMA WriteFailsTypes ==
  ASSUME Typed, WriteFails
  PROVE  Typed'
BY DEF Typed, TypeOK, WriteFails

-----------------------------------------------------------------------------
LEMMA TypedInit ==
  ASSUME Init
  PROVE  Typed /\ AllSettled
<1>1. prog \in Seq(Targets) \ {<<>>}
  BY ProgramsAssumption DEF Init
<1>2. 1 \in DOMAIN prog
  <2>1. Len(prog) \in Nat /\ DOMAIN prog = 1 .. Len(prog) /\ Len(prog) # 0
    BY <1>1
  <2>. QED
    BY <2>1
<1>3. DOMAIN imports = {} /\ DOMAIN outs = {}
  BY DEF Init, NoImports
<1>4. AllSettled
  BY <1>3 DEF AllSettled
<1>5. Typed
  BY <1>2, <1>3, NamesAssumption DEF Init, Typed, TypeOK
<1>. QED
  BY <1>4, <1>5

(* One step: types, settled names, and imports kept while a file is made. *)
LEMMA Step ==
  ASSUME Typed, AllSettled, [Next]_vars
  PROVE  Typed' /\ AllSettled' /\ (phase = "generate" => ImportsKept)
<1>1. CASE Load
  BY <1>1, LoadTypes DEF Load, AllSettled, Settled
<1>2. CASE BuildFails
  BY <1>2, BuildFailsTypes DEF BuildFails, AllSettled, Settled
<1>3. CASE Generate
  BY <1>3, GenerateTypes DEF Generate
<1>4. CASE PrintObject
  BY <1>4, PrintObjectStep
<1>5. CASE PrintUntracked
  BY <1>5, PrintUntrackedStep
<1>6. CASE UseHelper
  BY <1>6, UseHelperStep
<1>7. CASE RewriteImport
  BY <1>7, RewriteImportStep
<1>8. CASE FrameCode
  <2>1. AllSettled' /\ ImportsKept
    BY <1>8 DEF FrameCode, AllSettled, Settled, ImportsKept
  <2>. QED
    BY <1>8, <2>1, FrameCodeTypes
<1>9. CASE WriteFile
  BY <1>9, WriteFileTypes DEF WriteFile, AllSettled, Settled
<1>10. CASE WriteFails
  BY <1>10, WriteFailsTypes DEF WriteFails, AllSettled, Settled
<1>11. CASE UNCHANGED vars
  BY <1>11 DEF vars, Typed, TypeOK, AllSettled, Settled, ImportsKept
<1>. QED
  BY <1>1, <1>2, <1>3, <1>4, <1>5, <1>6, <1>7, <1>8, <1>9, <1>10, <1>11 DEF Next, Done

(* The variables hold what their comments say, whatever the packages.        *)
THEOREM TypeCorrect == Spec => []TypeOK
<1>1. Init => Typed /\ AllSettled
  BY TypedInit
<1>2. Typed /\ AllSettled /\ [Next]_vars => Typed' /\ AllSettled'
  BY Step
<1>3. Typed => TypeOK
  BY DEF Typed
<1>. QED
  BY <1>1, <1>2, <1>3, PTL DEF Spec

(* A package that a file has imported keeps its import, and the name that    *)
(* code is printed with, until the file is complete.                         *)
THEOREM NamesSettle == Spec => NamesAreSettled
<1>1. Init => Typed /\ AllSettled
  BY TypedInit
<1>2. Typed /\ AllSettled /\ [Next]_vars => Typed' /\ AllSettled'
  BY Step
<1>3. Typed /\ AllSettled /\ [Next]_vars => [StayAsTheyAre]_vars
  BY Step DEF AllSettled, ImportsKept, StayAsTheyAre
<1>. QED
  BY <1>1, <1>2, <1>3, PTL DEF Spec, NamesAreSettled

-----------------------------------------------------------------------------
(* What the run has gathered from the packages before n: their mistakes, and *)
(* the files of those without.                                               *)
Made(t) == prog[t].dir \in DOMAIN outs /\ outs[prog[t].dir].of = t

Gathered(n) ==
  /\ \A e : e \in errs <=> \E t \in 1 .. n - 1 : e \in prog[t].mistakes
  /\ \A t \in 1 .. n - 1 : prog[t].mistakes = {} => Made(t)

(* How far the run has come. *)
Course ==
  /\ phase \in {"load", "build", "generate"} => disk = {}
  /\ phase = "load" => cur = 1 /\ errs = {}
  /\ phase \in {"build", "generate", "save", "done"} => AllBroken = {}
  /\ phase \in {"build", "generate"} => Gathered(cur)
  /\ phase = "generate" => Target.mistakes = {}
  /\ phase \in {"save", "done"} => errs = {} /\ Gathered(Len(prog) + 1)
  /\ phase = "done" => disk = DOMAIN outs
  /\ phase = "failed" => OutputIsWhole

DirsDiffer == \A s, t \in DOMAIN prog : prog[s].dir = prog[t].dir => s = t

LEMMA GatheredAll ==
  ASSUME Typed, Gathered(Len(prog) + 1)
  PROVE  /\ errs = AllMistakes /\ Unwritten \notin errs
         /\ errs = {} => \A t \in DOMAIN prog : Made(t)
<1>1. Len(prog) \in Nat /\ DOMAIN prog = 1 .. Len(prog)
  BY TargetIsTarget
<1>2. 1 .. (Len(prog) + 1) - 1 = DOMAIN prog
  BY <1>1
<1>3. \A t \in DOMAIN prog : prog[t].mistakes \subseteq Faults
  <2>1. \A t \in DOMAIN prog : prog[t] \in Targets
    BY TargetIsTarget
  <2>. QED
    BY <2>1 DEF Targets
<1>4. \A e : e \in errs <=> \E t \in DOMAIN prog : e \in prog[t].mistakes
  BY <1>2 DEF Gathered
<1>5. errs = AllMistakes
  BY <1>4 DEF AllMistakes
<1>6. Unwritten \notin errs
  BY <1>3, <1>4, FaultsAssumption
<1>7. ASSUME errs = {}
      PROVE  \A t \in DOMAIN prog : Made(t)
  <2>1. \A t \in DOMAIN prog : prog[t].mistakes = {}
    BY <1>4, <1>7
  <2>. QED
    BY <1>2, <2>1 DEF Gathered
<1>. QED
  BY <1>5, <1>6, <1>7

LEMMA GatheredAllNext ==
  (Typed /\ Gathered(Len(prog) + 1))' => (errs = AllMistakes /\ Unwritten \notin errs)'
<1>1. Typed /\ Gathered(Len(prog) + 1) => errs = AllMistakes /\ Unwritten \notin errs
  BY GatheredAll
<1>. QED
  BY <1>1, PTL

(* The package after n - 1 is taken up, or the run is over. *)
LEMMA NextTargetCourse ==
  ASSUME Typed, Typed', prog' = prog, disk' = {}, AllBroken = {}, NextTarget,
         NEW n, n = cur + 1, Gathered(n)'
  PROVE  Course'
<1>1. cur \in 1 .. Len(prog) /\ Len(prog) \in Nat
  BY TargetIsTarget
<1>2. AllBroken' = {}
  BY DEF AllBroken
<1>3. CASE cur < Len(prog)
  <2>1. cur' = n /\ phase' = "build"
    BY <1>3 DEF NextTarget
  <2>2. Gathered(cur)'
    BY <2>1 DEF Gathered, Made
  <2>. QED
    BY <1>2, <2>1, <2>2 DEF Course
<1>4. CASE ~(cur < Len(prog))
  <2>1. n = Len(prog') + 1
    BY <1>1, <1>4
  <2>2. Gathered(Len(prog) + 1)'
    BY <2>1 DEF Gathered, Made
  <2>3. errs' = AllMistakes' /\ Unwritten \notin errs'
    BY <2>2, GatheredAllNext
  <2>4. phase' = IF errs' = {} THEN "save" ELSE "failed"
    BY <1>4 DEF NextTarget
  <2>5. phase' = "failed" => OutputIsWhole'
    BY <1>2, <2>3 DEF OutputIsWhole
  <2>. QED
    BY <1>2, <2>2, <2>4, <2>5 DEF Course
<1>. QED
  BY <1>3, <1>4

LEMMA LoadCourse ==
  ASSUME Typed, Course, Load
  PROVE  Course'
<1>1. errs' = AllBroken /\ AllBroken' = AllBroken /\ cur = 1 /\ disk' = {}
  BY DEF Load, Course, AllBroken
<1>2. CASE errs' = {}
  <2>1. 1 .. cur' - 1 = {}
    BY <1>1 DEF Load
  <2>2. Gathered(cur)'
    BY <1>2, <2>1 DEF Gathered
  <2>3. phase' = "build"
    BY <1>2 DEF Load
  <2>. QED
    BY <1>1, <1>2, <2>2, <2>3 DEF Course
<1>3. CASE errs' # {}
  <2>1. phase' = "failed"
    BY <1>3 DEF Load
  <2>2. errs' \subseteq Faults
    <3>1. \A t \in DOMAIN prog : prog[t] \in Targets
      BY TargetIsTarget
    <3>. QED
      BY <1>1, <3>1 DEF AllBroken, Targets
  <2>3. OutputIsWhole'
    BY <1>1, <1>3, <2>1, <2>2, FaultsAssumption DEF OutputIsWhole
  <2>. QED
    BY <2>1, <2>3 DEF Course
<1>. QED
  BY <1>2, <1>3

LEMMA BuildFailsCourse ==
  ASSUME Typed, Course, BuildFails
  PROVE  Course'
<1>1. Typed' /\ prog' = prog /\ disk' = {} /\ AllBroken = {} /\ NextTarget /\ Gathered(cur)
  BY BuildFailsTypes DEF BuildFails, Course
<1>2. cur \in Nat \ {0}
  BY TargetIsTarget
<1>3. PICK n : n = cur + 1
  OBVIOUS
<1>4. \A t : t \in 1 .. n - 1 <=> t \in 1 .. cur - 1 \/ t = cur
  BY <1>2, <1>3
<1>5. /\ prog[cur].mistakes # {} /\ errs' = errs \cup prog[cur].mistakes /\ outs' = outs
      /\ \A t : prog'[t] = prog[t]
  BY <1>1 DEF BuildFails, Target
<1>6. \A e : e \in errs' <=> \E t \in 1 .. n - 1 : e \in prog'[t].mistakes
  BY <1>1, <1>4, <1>5 DEF Gathered
<1>7. \A t \in 1 .. n - 1 : prog'[t].mistakes = {} => Made(t)'
  BY <1>1, <1>4, <1>5 DEF Gathered, Made
<1>8. Gathered(n)'
  BY <1>6, <1>7 DEF Gathered
<1>. QED
  BY <1>1, <1>3, <1>8, NextTargetCourse

LEMMA FrameCodeCourse ==
  ASSUME Typed, DirsDiffer, Course, FrameCode
  PROVE  Course'
<1>1. Typed' /\ prog' = prog /\ disk' = {} /\ AllBroken = {} /\ NextTarget /\ Gathered(cur)
  BY FrameCodeTypes DEF FrameCode, Course
<1>2. cur \in 1 .. Len(prog) /\ DOMAIN prog = 1 .. Len(prog) /\ Len(prog) \in Nat
  BY TargetIsTarget
<1>3. PICK n : n = cur + 1
  OBVIOUS
<1>4. \A t : t \in 1 .. n - 1 <=> t \in 1 .. cur - 1 \/ t = cur
  BY <1>2, <1>3
<1>5. prog[cur].mistakes = {} /\ errs' = errs /\ \A t : prog'[t] = prog[t]
  BY <1>1 DEF FrameCode, Course, Target
<1>6. \A e : e \in errs' <=> \E t \in 1 .. n - 1 : e \in prog'[t].mistakes
  BY <1>1, <1>4, <1>5 DEF Gathered
<1>7. /\ prog[cur].dir \in DOMAIN outs' /\ outs'[prog[cur].dir].of = cur
      /\ \A d \in DOMAIN outs \ {prog[cur].dir} : d \in DOMAIN outs' /\ outs'[d] = outs[d]
  BY DEF FrameCode, Target
<1>8. \A t \in 1 .. cur - 1 : prog[t].dir # prog[cur].dir
  <2>1. \A t \in 1 .. cur - 1 : t \in DOMAIN prog /\ t # cur
    BY <1>2
  <2>. QED
    BY <1>2, <2>1 DEF DirsDiffer
<1>9. \A t \in 1 .. n - 1 : prog'[t].mistakes = {} => Made(t)'
  BY <1>1, <1>4, <1>5, <1>7, <1>8 DEF Gathered, Made
<1>10. Gathered(n)'
  BY <1>6, <1>9 DEF Gathered
<1>. QED
  BY <1>1, <1>3, <1>10, NextTargetCourse

LEMMA WriteFileCourse ==
  ASSUME Typed, Course, WriteFile
  PROVE  Course'
<1>1. AllBroken' = {} /\ errs' = {} /\ outs' = outs /\ Gathered(Len(prog) + 1)'
  BY DEF WriteFile, Course, AllBroken, Gathered, Made
<1>2. phase' = "save" \/ (phase' = "done" /\ disk' = DOMAIN outs)
  BY DEF WriteFile
<1>. QED
  BY <1>1, <1>2 DEF Course

LEMMA WriteFailsCourse ==
  ASSUME Typed, Course, WriteFails
  PROVE  Course'
<1>1. AllBroken = {} /\ errs = {} /\ AllMistakes = {}
  BY GatheredAll DEF WriteFails, Course
<1>2. AllBroken' = {} /\ AllMistakes' = {} /\ errs' = {Unwritten} /\ phase' = "failed"
  BY <1>1 DEF WriteFails, AllBroken, AllMistakes
<1>3. OutputIsWhole'
  BY <1>2 DEF OutputIsWhole
<1>. QED
  BY <1>2, <1>3 DEF Course

LEMMA CourseNext ==
  ASSUME Typed, DirsDiffer, Course, [Next]_vars
  PROVE  Course'
<1>1. CASE Load
  BY <1>1, LoadCourse
<1>2. CASE BuildFails
  BY <1>2, BuildFailsCourse
<1>3. CASE Generate
  BY <1>3 DEF Generate, Course, AllBroken, Gathered, Made, Target
<1>4. CASE PrintObject \/ PrintUntracked \/ UseHelper \/ RewriteImport
  <2>1. phase = "generate" /\ UNCHANGED <<prog, phase, cur, outs, disk, errs>>
    BY <1>4 DEF PrintObject, PrintUntracked, UseHelper, RewriteImport, Mention, Writes
  <2>. QED
    BY <2>1 DEF Course, AllBroken, Gathered, Made, Target
<1>5. CASE FrameCode
  BY <1>5, FrameCodeCourse
<1>6. CASE WriteFile
  BY <1>6, WriteFileCourse
<1>7. CASE WriteFails
  BY <1>7, WriteFailsCourse
<1>8. CASE UNCHANGED vars
  BY <1>8 DEF vars, Course, AllBroken, AllMistakes, Gathered, Made, Target, OutputIsWhole
<1>. QED
  BY <1>1, <1>2, <1>3, <1>4, <1>5, <1>6, <1>7, <1>8 DEF Next, Done

LEMMA CourseIsWhole ==
  ASSUME Typed, Course
  PROVE  OutputIsWhole
<1>1. CASE phase \in {"load", "build", "generate"}
  BY <1>1 DEF Course, OutputIsWhole
<1>2. CASE phase = "save"
  BY <1>2 DEF Course, OutputIsWhole
<1>3. CASE phase = "done"
  <2>1. /\ AllBroken = {} /\ errs = {} /\ disk = DOMAIN outs
        /\ AllMistakes = {} /\ \A t \in DOMAIN prog : Made(t)
    BY <1>3, GatheredAll DEF Course
  <2>. QED
    BY <2>1 DEF OutputIsWhole, Made
<1>4. CASE phase = "failed"
  BY <1>4 DEF Course
<1>. QED
  BY <1>1, <1>2, <1>3, <1>4 DEF Typed, TypeOK

(* If the packages of a run are in different directories, then a run writes  *)
(* files only if no package has an error, then one for each package, and     *)
(* otherwise it reports the errors of all packages (main.go:38-72).          *)
THEOREM OutputsAreWhole ==
  ASSUME \A pg \in Programs : \A s, t \in DOMAIN pg : pg[s].dir = pg[t].dir => s = t
  PROVE  Spec => []OutputIsWhole
<1>1. Init => Typed /\ AllSettled /\ Course
  BY TypedInit DEF Init, Course
<1>2. Typed => DirsDiffer
  BY DEF Typed, DirsDiffer
<1>3. Typed /\ AllSettled /\ Course /\ [Next]_vars => Typed' /\ AllSettled' /\ Course'
  BY <1>2, Step, CourseNext
<1>4. Typed /\ Course => OutputIsWhole
  BY CourseIsWhole
<1>. QED
  BY <1>1, <1>3, <1>4, PTL DEF Spec

-----------------------------------------------------------------------------
(* The files.  No file finds a package that it mentions renamed: an object   *)
(* is shared by the files of a run, and keeps the name an earlier file gave. *)
Unrenamed ==
  phase = "build" =>
    \A i \in DOMAIN Target.items :
      names[Target.items[i].path] = PkgNames[Target.items[i].path]

(* No type that is printed without being imported, composed or given as an   *)
(* Object, is the first to mention its package.                              *)
Tame(items) ==
  \A i \in DOMAIN items :
    items[i].op = "untracked" =>
      \E j \in 1 .. i - 1 : items[j].op = "object" /\ items[j].path = items[i].path

AllTame == \A t \in DOMAIN prog : Tame(prog[t].items)

(* The name of a package is its own, or that of its import. *)
Fresh(p) ==
  names[p] = PkgNames[p] \/ \E n \in DOMAIN imports : imports[n].path = p /\ names[p] = n

(* An import declares the name it is entered under, which is used. *)
Proper ==
  \A n \in DOMAIN imports :
    /\ n \notin Target.scope
    /\ imports[n].alias \/ n = PkgNames[imports[n].path]
    /\ [name |-> n, path |-> imports[n].path] \in refs

Known(r) == r.name \in DOMAIN imports /\ imports[r.name].path = r.path

Shared(p) == \E n \in DOMAIN imports : imports[n].path = p /\ imports[n].shared

Naming ==
  phase = "generate" =>
    /\ Proper
    /\ \A i \in DOMAIN Target.items : Fresh(Target.items[i].path)
    /\ \A j \in 1 .. pos - 1 : Target.items[j].op = "object" => Shared(Target.items[j].path)
    /\ AllTame => \A r \in refs : Known(r)

Files == ImportsAreSound /\ (AllTame => ReferencesResolve)

(* A mention of an imported package, or of one that is imported for it.      *)
LEMMA MentionNames ==
  ASSUME Typed, Naming, phase = "generate", pos <= Len(Target.items),
         prog' = prog, cur' = cur, pos' = pos + 1,
         NEW name, NEW path, path = Item.path, NEW shared, NEW alias,
         refs' = refs \cup {[name |-> name, path |-> path]},
         Item.op = "object" => Shared(path)',
         \/ /\ UNCHANGED <<imports, names>> /\ name \in DOMAIN imports
            /\ imports[name].path = path
         \/ /\ name \notin DOMAIN imports /\ name \notin Target.scope
            /\ Imported(name, path, shared, alias)
            /\ alias \/ name = names[path]
            /\ names' = names \/ names' = [names EXCEPT ![path] = name]
  PROVE  Naming'
<1>1. /\ Proper /\ \A i \in DOMAIN Target.items : Fresh(Target.items[i].path)
      /\ \A j \in 1 .. pos - 1 : Target.items[j].op = "object" => Shared(Target.items[j].path)
      /\ AllTame => \A r \in refs : Known(r)
  BY DEF Naming
<1>2. /\ Target' = Target /\ AllTame' = AllTame /\ Target.items \in Seq(Items)
      /\ pos \in DOMAIN Target.items /\ pos \in Nat \ {0} /\ path = Target.items[pos].path
      /\ path \in Paths /\ names \in [Paths -> NamesUsed]
      /\ \A i \in DOMAIN Target.items : Target.items[i].path \in Paths
  <2>1. Target.items \in Seq(Items) /\ pos \in Nat \ {0} /\ names \in [Paths -> NamesUsed]
    BY TargetIsTarget DEF Targets, Typed, TypeOK
  <2>2. pos \in DOMAIN Target.items /\ \A i \in DOMAIN Target.items : Target.items[i] \in Items
    BY <2>1
  <2>3. QED
    BY <2>1, <2>2 DEF Target, AllTame, Item, Items
<1>3. /\ ImportsKept /\ DOMAIN imports' = DOMAIN imports \cup {name}
      /\ imports'[name].path = path
  <2>1. CASE UNCHANGED imports /\ name \in DOMAIN imports /\ imports[name].path = path
    BY <2>1 DEF ImportsKept
  <2>2. CASE name \notin DOMAIN imports /\ Imported(name, path, shared, alias)
    BY <2>2, ImportedKeeps
  <2>3. QED
    BY <2>1, <2>2
<1>4. Proper'
  <2>1. ASSUME NEW n \in DOMAIN imports
        PROVE  /\ n \notin Target.scope
               /\ imports'[n].alias \/ n = PkgNames[imports'[n].path]
               /\ [name |-> n, path |-> imports'[n].path] \in refs'
    BY <1>1, <1>3 DEF Proper, ImportsKept
  <2>2. CASE name \in DOMAIN imports
    BY <1>2, <1>3, <2>1, <2>2 DEF Proper
  <2>3. CASE name \notin DOMAIN imports
    <3>1. names[path] = PkgNames[path] \/ names[path] \in DOMAIN imports
      BY <1>1, <1>2 DEF Fresh
    <3>2. alias \/ name = PkgNames[path]
      BY <2>3, <3>1
    <3>3. imports'[name] = [path |-> path, shared |-> shared, alias |-> alias]
      BY <2>3 DEF Imported
    <3>4. /\ name \notin Target.scope
          /\ imports'[name].alias \/ name = PkgNames[imports'[name].path]
          /\ [name |-> name, path |-> imports'[name].path] \in refs'
      BY <2>3, <3>2, <3>3
    <3>5. QED
      BY <1>2, <1>3, <2>1, <3>4 DEF Proper
  <2>4. QED
    BY <2>2, <2>3
<1>5. ASSUME NEW i \in DOMAIN Target.items
      PROVE  Fresh(Target.items[i].path)'
  <2>1. Fresh(Target.items[i].path) /\ Target.items[i].path \in Paths
    BY <1>1, <1>2
  <2>2. names' = names \/ names' = [names EXCEPT ![path] = name]
    OBVIOUS
  <2>3. CASE names'[Target.items[i].path] = names[Target.items[i].path]
    BY <1>2, <1>3, <2>1, <2>3 DEF Fresh, ImportsKept
  <2>4. CASE Target.items[i].path = path /\ names'[path] = name
    BY <1>2, <1>3, <2>4 DEF Fresh
  <2>5. QED
    BY <1>2, <2>1, <2>2, <2>3, <2>4
<1>6. ASSUME NEW j \in 1 .. pos' - 1, Target.items[j].op = "object"
      PROVE  Shared(Target.items[j].path)'
  <2>1. CASE j \in 1 .. pos - 1
    BY <1>1, <1>2, <1>3, <1>6, <2>1 DEF Shared, ImportsKept
  <2>2. CASE j = pos
    BY <1>2, <1>6, <2>2 DEF Item
  <2>3. QED
    BY <1>2, <2>1, <2>2
<1>7. ASSUME AllTame, NEW r \in refs'
      PROVE  Known(r)'
  <2>1. CASE r \in refs
    BY <1>1, <1>3, <1>7, <2>1 DEF Known, ImportsKept
  <2>2. CASE r = [name |-> name, path |-> path]
    BY <1>3, <2>2 DEF Known
  <2>3. QED
    BY <2>1, <2>2
<1>8. QED
  BY <1>2, <1>4, <1>5, <1>6, <1>7 DEF Naming

LEMMA OfferedFree ==
  ASSUME NEW base, NEW ours, NEW i, Offered(base, ours, i), DisambiguateName(base, i) \notin ours
  PROVE  /\ DisambiguateName(base, i) \notin DOMAIN imports
         /\ DisambiguateName(base, i) \notin Target.scope
BY DEF Offered, Free

LEMMA PrintObjectNames ==
  ASSUME Typed, AllSettled, Naming, PrintObject
  PROVE  Naming'
<1>1. /\ phase = "generate" /\ pos <= Len(Target.items) /\ Item.path \in Paths
      /\ prog' = prog /\ cur' = cur /\ pos' = pos + 1
      /\ refs' = refs \cup {[name |-> names'[Item.path], path |-> Item.path]}
  BY MentionedPath DEF PrintObject, Mention, Writes
<1>2. PICK i \in 1 .. MaxTries : ImportObj(Item.path, i)
  BY DEF PrintObject
<1>3. PICK path \in Paths : path = Item.path
  BY <1>1
<1>4. PICK name : name = DisambiguateName(names[path], i)
  OBVIOUS
<1>5. CASE name \in Ours(path)
  <2>1. UNCHANGED <<imports, names>>
    BY <1>2, <1>3, <1>4, <1>5 DEF ImportObj
  <2>2. name \in DOMAIN imports /\ imports[name].path = path /\ imports[name].shared
    BY <1>5 DEF Ours
  <2>3. names[path] = name
    BY <2>2 DEF AllSettled, Settled
  <2>4. Shared(path)'
    BY <2>1, <2>2 DEF Shared
  <2>5. refs' = refs \cup {[name |-> name, path |-> path]}
    BY <1>1, <1>3, <2>1, <2>3
  <2>6. QED
    BY <1>1, <1>3, <2>1, <2>2, <2>4, <2>5, MentionNames
<1>6. CASE name \notin Ours(path)
  <2>1. PICK shared, alias : shared = TRUE /\ alias = (name # names[path])
    OBVIOUS
  <2>2. Imported(name, path, shared, alias) /\ names' = [names EXCEPT ![path] = name]
    BY <1>2, <1>3, <1>4, <1>6, <2>1 DEF ImportObj
  <2>3. name \notin DOMAIN imports /\ name \notin Target.scope
    BY <1>2, <1>3, <1>4, <1>6, OfferedFree DEF ImportObj
  <2>4. names'[path] = name
    BY <2>2 DEF Typed, TypeOK
  <2>5. refs' = refs \cup {[name |-> name, path |-> path]}
    BY <1>1, <1>3, <2>4
  <2>6. Shared(path)'
    BY <2>1, <2>2, <2>3, ImportedKeeps DEF Shared
  <2>7. alias \/ name = names[path]
    BY <2>1
  <2>8. QED
    BY <1>1, <1>3, <2>2, <2>3, <2>5, <2>6, <2>7, MentionNames
<1>7. QED
  BY <1>5, <1>6

LEMMA PrintUntrackedNames ==
  ASSUME Typed, AllSettled, Naming, PrintUntracked
  PROVE  Naming'
<1>1. /\ phase = "generate" /\ pos <= Len(Target.items) /\ Item.op = "untracked"
      /\ UNCHANGED <<prog, cur, phase, imports, names>> /\ pos' = pos + 1
      /\ refs' = refs \cup {[name |-> names[Item.path], path |-> Item.path]}
  BY DEF PrintUntracked, Mention, Writes
<1>2. /\ Target.items \in Seq(Items) /\ pos \in Nat \ {0} /\ pos \in DOMAIN Target.items
      /\ cur \in DOMAIN prog
  <2>1. Target.items \in Seq(Items) /\ pos \in Nat \ {0} /\ cur \in DOMAIN prog
    BY TargetIsTarget DEF Targets, Typed, TypeOK
  <2>2. QED
    BY <1>1, <2>1
<1>3. /\ Proper /\ \A i \in DOMAIN Target.items : Fresh(Target.items[i].path)
      /\ \A j \in 1 .. pos - 1 : Target.items[j].op = "object" => Shared(Target.items[j].path)
      /\ AllTame => \A r \in refs : Known(r)
  BY <1>1 DEF Naming
<1>4. AllTame => Known([name |-> names[Item.path], path |-> Item.path])
  <2>1. SUFFICES ASSUME AllTame
                 PROVE  Known([name |-> names[Item.path], path |-> Item.path])
    OBVIOUS
  <2>2. PICK j \in 1 .. pos - 1 : Target.items[j].op = "object" /\ Target.items[j].path = Item.path
    BY <1>1, <1>2, <2>1 DEF AllTame, Tame, Target, Item
  <2>3. PICK n \in DOMAIN imports : imports[n].path = Item.path /\ imports[n].shared
    BY <1>3, <2>2 DEF Shared
  <2>4. names[Item.path] = n
    BY <2>3 DEF AllSettled, Settled
  <2>5. QED
    BY <2>3, <2>4 DEF Known
<1>5. Proper'
  BY <1>1, <1>3 DEF Proper, Target
<1>6. (\A i \in DOMAIN Target.items : Fresh(Target.items[i].path))'
  BY <1>1, <1>3 DEF Fresh, Target
<1>7. (\A j \in 1 .. pos - 1 : Target.items[j].op = "object" => Shared(Target.items[j].path))'
  <2>1. \A j \in 1 .. pos' - 1 : j \in 1 .. pos - 1 \/ j = pos
    BY <1>1, <1>2
  <2>2. Target.items[pos].op # "object"
    BY <1>1 DEF Item
  <2>3. \A j \in 1 .. pos' - 1 : Target.items[j].op = "object" => Shared(Target.items[j].path)
    BY <1>3, <2>1, <2>2
  <2>4. QED
    BY <1>1, <2>3 DEF Shared, Target
<1>8. AllTame' => \A r \in refs' : Known(r)'
  BY <1>1, <1>3, <1>4 DEF AllTame, Known
<1>9. QED
  BY <1>5, <1>6, <1>7, <1>8 DEF Naming

LEMMA ImportNames ==
  ASSUME Typed, Naming, phase = "generate", pos <= Len(Target.items), Item.path \in Paths,
         Item.op # "object", NEW base, NEW i, Import(Item.path, base, i),
         Writes(DisambiguateName(base, i))
  PROVE  Naming'
<1>1. PICK path \in Paths : path = Item.path
  OBVIOUS
<1>2. PICK name : name = DisambiguateName(base, i)
  OBVIOUS
<1>3. PICK ours : ours = {n \in DOMAIN imports : imports[n].path = path}
  OBVIOUS
<1>4. PICK shared, alias : shared = FALSE /\ alias = (path \in Target.direct => name # names[path])
  OBVIOUS
<1>5. /\ Offered(base, ours, i) /\ names' = names
      /\ IF name \in ours THEN UNCHANGED imports ELSE Imported(name, path, shared, alias)
  BY <1>1, <1>2, <1>3, <1>4 DEF Import
<1>6. /\ prog' = prog /\ cur' = cur /\ pos' = pos + 1
      /\ refs' = refs \cup {[name |-> name, path |-> path]}
  BY <1>1, <1>2 DEF Writes
<1>7. CASE name \in ours
  BY <1>1, <1>3, <1>5, <1>6, <1>7, MentionNames
<1>8. CASE name \notin ours
  <2>1. name \notin DOMAIN imports /\ name \notin Target.scope
    BY <1>2, <1>5, <1>8, OfferedFree
  <2>2. alias \/ name = names[path]
    BY <1>4
  <2>3. QED
    BY <1>1, <1>5, <1>6, <1>8, <2>1, <2>2, MentionNames
<1>9. QED
  BY <1>7, <1>8

(* A file whose names are in order is in order. *)
LEMMA FrameCodeFiles ==
  ASSUME Typed, Naming, Files, FrameCode
  PROVE  Files'
<1>1. PICK file : file = [of |-> cur, specs |-> Specs, refs |-> refs]
  OBVIOUS
<1>2. /\ phase = "generate" /\ prog' = prog
      /\ outs' = [d \in DOMAIN outs \cup {Target.dir} |-> IF d = Target.dir THEN file ELSE outs[d]]
  BY <1>1 DEF FrameCode
<1>3. /\ file.of = cur /\ file.specs = Specs /\ file.refs = refs
      /\ \A d \in DOMAIN outs' : outs'[d] = file \/ (d \in DOMAIN outs /\ outs'[d] = outs[d])
  BY <1>1, <1>2
<1>4. Proper /\ (AllTame => \A r \in refs : Known(r)) /\ Target = prog[cur]
  BY <1>2 DEF Naming, Target
<1>5. Specs = {[name |-> n, path |-> imports[n].path] : n \in DOMAIN imports}
  BY <1>4 DEF Specs, Proper
<1>6. /\ \A s, t \in file.specs : s.name = t.name => s = t
      /\ \A s \in file.specs : s.name \notin prog[file.of].scope /\ s \in file.refs
  BY <1>3, <1>4, <1>5 DEF Proper
<1>7. ASSUME AllTame, NEW r \in file.refs
      PROVE  Called(file, r.name) = {r.path} /\ r.name \notin prog[file.of].scope
  <2>1. r.name \in DOMAIN imports /\ imports[r.name].path = r.path
    BY <1>3, <1>4, <1>7 DEF Known
  <2>2. {spec \in file.specs : spec.name = r.name} = {[name |-> r.name, path |-> r.path]}
    BY <1>3, <1>5, <2>1
  <2>3. Called(file, r.name) = {r.path}
    <3>1. {s.path : s \in {[name |-> r.name, path |-> r.path]}} = {r.path}
      OBVIOUS
    <3>2. QED
      BY <2>2, <3>1 DEF Called
  <2>4. QED
    BY <1>3, <1>4, <2>1, <2>3 DEF Proper
<1>8. ImportsAreSound'
  BY <1>2, <1>3, <1>6 DEF Files, ImportsAreSound
<1>9. AllTame' => ReferencesResolve'
  BY <1>2, <1>3, <1>7 DEF Files, ReferencesResolve, Resolves, Called, AllTame
<1>10. QED
  BY <1>8, <1>9 DEF Files

LEMMA GenerateNames ==
  ASSUME Typed, Unrenamed, Generate
  PROVE  Naming'
<1>1. /\ prog' = prog /\ cur' = cur /\ names' = names /\ phase = "build" /\ pos' = 1
      /\ imports' = NoImports /\ refs' = {}
  BY DEF Generate
<1>2. DOMAIN imports' = {} /\ Target' = Target
  BY <1>1 DEF NoImports, Target
<1>3. Proper'
  BY <1>2 DEF Proper
<1>4. (\A i \in DOMAIN Target.items : Fresh(Target.items[i].path))'
  BY <1>1, <1>2 DEF Unrenamed, Fresh
<1>5. 1 .. pos' - 1 = {} /\ (\A r \in refs : Known(r))'
  BY <1>1
<1>6. QED
  BY <1>1, <1>3, <1>4, <1>5 DEF Naming

LEMMA NamingNext ==
  ASSUME Typed, AllSettled, Unrenamed, Naming, Files, [Next]_vars
  PROVE  Naming' /\ Files'
<1>1. CASE Load \/ BuildFails \/ WriteFile \/ WriteFails
  <2>1. phase' # "generate" /\ outs' = outs /\ prog' = prog
    BY <1>1 DEF Load, BuildFails, NextTarget, WriteFile, WriteFails
  <2>2. QED
    BY <2>1 DEF Naming, Files, ImportsAreSound, ReferencesResolve, Resolves, Called, AllTame
<1>2. CASE Generate
  <2>1. outs' = outs /\ prog' = prog
    BY <1>2 DEF Generate
  <2>2. QED
    BY <1>2, <2>1, GenerateNames
       DEF Files, ImportsAreSound, ReferencesResolve, Resolves, Called, AllTame
<1>3. CASE PrintObject \/ PrintUntracked \/ UseHelper \/ RewriteImport
  <2>1. outs' = outs /\ prog' = prog
    BY <1>3 DEF PrintObject, PrintUntracked, UseHelper, RewriteImport, Writes
  <2>2. Naming'
    <3>1. CASE PrintObject
      BY <3>1, PrintObjectNames
    <3>2. CASE PrintUntracked
      BY <3>2, PrintUntrackedNames
    <3>3. CASE UseHelper
      <4>1. PICK i \in 1 .. MaxTries : /\ Import(Item.path, PkgNames[Item.path], i)
                                       /\ Writes(DisambiguateName(PkgNames[Item.path], i))
        BY <3>3 DEF UseHelper
      <4>2. /\ phase = "generate" /\ pos <= Len(Target.items) /\ Item.op # "object"
            /\ Item.path \in Paths
        BY <3>3, MentionedPath DEF UseHelper, Mention
      <4>3. QED
        BY <4>1, <4>2, ImportNames
    <3>4. CASE RewriteImport
      <4>1. PICK i \in 1 .. MaxTries : /\ Import(Item.path, names[Item.path], i)
                                       /\ Writes(DisambiguateName(names[Item.path], i))
        BY <3>4 DEF RewriteImport
      <4>2. /\ phase = "generate" /\ pos <= Len(Target.items) /\ Item.op # "object"
            /\ Item.path \in Paths
        BY <3>4, MentionedPath DEF RewriteImport, Mention
      <4>3. QED
        BY <4>1, <4>2, ImportNames
    <3>5. QED
      BY <1>3, <3>1, <3>2, <3>3, <3>4
  <2>3. QED
    BY <2>1, <2>2 DEF Files, ImportsAreSound, ReferencesResolve, Resolves, Called, AllTame
<1>4. CASE FrameCode
  <2>1. phase' # "generate"
    BY <1>4 DEF FrameCode, NextTarget
  <2>2. QED
    BY <1>4, <2>1, FrameCodeFiles DEF Naming
<1>5. CASE UNCHANGED vars
  BY <1>5 DEF vars, Naming, Proper, Fresh, Shared, Known, Target, Files, ImportsAreSound,
              ReferencesResolve, Resolves, Called, AllTame
<1>6. QED
  BY <1>1, <1>2, <1>3, <1>4, <1>5 DEF Next, Done

LEMMA NamingInit ==
  ASSUME Init
  PROVE  Naming /\ Files
<1>1. phase # "generate" /\ DOMAIN outs = {}
  BY DEF Init
<1>2. QED
  BY <1>1 DEF Naming, Files, ImportsAreSound, ReferencesResolve, Resolves

LEMMA NamesInOrder == Spec /\ []Unrenamed => []Files
<1>1. Init => Typed /\ AllSettled /\ Naming /\ Files
  BY TypedInit, NamingInit
<1>2. Typed /\ AllSettled /\ Naming /\ Files /\ Unrenamed /\ [Next]_vars
        => Typed' /\ AllSettled' /\ Naming' /\ Files'
  BY Step, NamingNext
<1>3. QED
  BY <1>1, <1>2, PTL DEF Spec

(* Where no file finds a package that it mentions renamed by an earlier one, *)
(* every import of every file declares a name of its own that the package    *)
(* does not declare, and is used.                                            *)
THEOREM EveryImportIsSound == Spec /\ []Unrenamed => []ImportsAreSound
<1>1. Files => ImportsAreSound
  BY DEF Files
<1>2. QED
  BY <1>1, NamesInOrder, PTL

(* If moreover no type that importArgs passes over, composed or given as an  *)
(* Object (basic.go:104, struct.go:585), is the first to mention its         *)
(* package, then every mention of a package refers to that package and to no *)
(* other.                                                                    *)
THEOREM EveryMentionResolves ==
  ASSUME \A pg \in Programs : \A t \in DOMAIN pg : Tame(pg[t].items)
  PROVE  Spec /\ []Unrenamed => []ReferencesResolve
<1>1. Init => Typed /\ AllSettled
  BY TypedInit
<1>2. Typed /\ AllSettled /\ [Next]_vars => Typed' /\ AllSettled'
  BY Step
<1>3. Typed /\ Files => ReferencesResolve
  BY DEF Typed, Files, AllTame
<1>4. QED
  BY <1>1, <1>2, <1>3, NamesInOrder, PTL DEF Spec

-----------------------------------------------------------------------------
(* A run for one package finds the packages as they call themselves. *)
Alone == Len(prog) = 1 /\ phase \in {"load", "build"} => names = PkgNames

LEMMA AloneNext ==
  ASSUME Typed, Alone, [Next]_vars
  PROVE  Alone' /\ prog' = prog
<1>1. prog' = prog
  BY DEF Next, vars, Load, BuildFails, Generate, PrintObject, PrintUntracked, UseHelper,
         RewriteImport, Writes, FrameCode, WriteFile, WriteFails, Done
<1>2. cur \in 1 .. Len(prog)
  BY TargetIsTarget
<1>3. CASE Load \/ UNCHANGED vars
  BY <1>1, <1>3 DEF Load, vars, Alone
<1>4. CASE BuildFails \/ FrameCode
  <2>1. SUFFICES ASSUME Len(prog) = 1
                 PROVE  phase' \notin {"load", "build"}
    BY <1>1 DEF Alone
  <2>2. ~(cur < Len(prog))
    BY <1>2, <2>1
  <2>3. NextTarget
    BY <1>4 DEF BuildFails, FrameCode
  <2>4. phase' \in {"save", "failed"}
    BY <2>2, <2>3 DEF NextTarget
  <2>5. QED
    BY <2>4
<1>5. CASE \/ Generate \/ PrintObject \/ PrintUntracked \/ UseHelper \/ RewriteImport
           \/ WriteFile \/ WriteFails
  <2>1. phase' \notin {"load", "build"}
    BY <1>5 DEF Generate, PrintObject, PrintUntracked, UseHelper, RewriteImport, Mention,
                Writes, WriteFile, WriteFails
  <2>2. QED
    BY <1>1, <2>1 DEF Alone
<1>6. QED
  BY <1>1, <1>3, <1>4, <1>5 DEF Next, Done

(* The imports of the file of a run for one package are sound, and every     *)
(* mention in it resolves, if no type that importArgs passes over, composed  *)
(* or given as an Object, is the first to mention its package.               *)
THEOREM OnePackageCompiles ==
  Spec => [](Len(prog) = 1 => ImportsAreSound /\ (AllTame => ReferencesResolve))
<1>1. Init => Typed /\ AllSettled /\ Naming /\ Files /\ Alone
  BY TypedInit, NamingInit DEF Alone, Init
<1>2. Len(prog) = 1 /\ Alone => Unrenamed
  BY DEF Alone, Unrenamed
<1>3. /\ Typed /\ AllSettled /\ Alone /\ (Len(prog) = 1 => Naming /\ Files)
      /\ [Next]_vars
      => /\ Typed' /\ AllSettled' /\ Alone'
         /\ (Len(prog) = 1 => Naming /\ Files)'
  <2>1. SUFFICES ASSUME Typed, AllSettled, Alone, Len(prog) = 1 => Naming /\ Files, [Next]_vars
                 PROVE  /\ Typed' /\ AllSettled' /\ Alone'
                        /\ (Len(prog) = 1 => Naming /\ Files)'
    OBVIOUS
  <2>2. prog' = prog /\ Alone'
    BY <2>1, AloneNext
  <2>3. QED
    BY <1>2, <2>1, <2>2, Step, NamingNext
<1>4. QED
  BY <1>1, <1>3, PTL DEF Spec, Files
=============================================================================
