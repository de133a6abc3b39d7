------------------------------- MODULE Imports -------------------------------
(***************************************************************************)
(* What a run writes: it generates a file for each package it was asked    *)
(* for, and writes them if no package has errors.  While the code of a     *)
(* file is generated the packages that it mentions are imported, under     *)
(* names of their own; a type is printed with the name that its package    *)
(* has at that moment, in an object that the whole run shares.             *)
(***************************************************************************)
EXTENDS Naturals, Sequences, FiniteSets

CONSTANTS
  Paths,     \* the packages that are mentioned
  Stems,     \* what their names begin with
  PkgNames,  \* the name of each in its package clause
  Dirs,      \* the directories that files are written to
  Faults,    \* the errors of packages
  Unwritten, \* the error of a file that cannot be written
  Programs,  \* the packages a run is asked for, in order
  MaxTries   \* of names

NamesUsed == [stem : Stems, nums : Seq(Nat)]

(* A mention of a package in what is generated: by an argument of Printf     *)
(* that importArgs has a case for and that is an object or a named type      *)
(* ("object"); by any other argument ("untracked"); by a package the code    *)
(* needs itself; or in the code that is merged from the sources.             *)
(*                                                                           *)
(* Printf formats more than importArgs imports.  An argument with a Type()   *)
(* that gives a typeinfo.Type, as the Objects of assign have, is printed as  *)
(* that type (printf.go:89) but is no Typer: a mention by one is untracked   *)
(* even if the type is named.  So is that of a type composed of others.      *)
Items == [op : {"object", "untracked", "helper", "merged"}, path : Paths]

Targets ==
  [dir : Dirs, scope : SUBSET NamesUsed, direct : SUBSET Paths,
   broken : SUBSET Faults, mistakes : SUBSET Faults, items : Seq(Items)]

ASSUME ProgramsAssumption == Programs \subseteq Seq(Targets) \ {<<>>}
ASSUME NamesAssumption    == PkgNames \in [Paths -> NamesUsed]
ASSUME TriesAssumption    == MaxTries \in Nat
ASSUME FaultsAssumption   == Unwritten \notin Faults

VARIABLES
  prog,
  phase,    \* "load", "build", "generate", "save", "done" or "failed"
  cur, pos, \* the package in hand, and the mention
  names,    \* of the packages, as their shared objects have them
  imports,  \* Writer.imports
  refs,     \* the mentions written, with the name each is given
  outs,     \* the files generated, by directory
  disk,     \* those written
  errs

vars == <<prog, phase, cur, pos, names, imports, refs, outs, disk, errs>>

Target == prog[cur]
Item   == Target.items[pos]

-----------------------------------------------------------------------------
(* DisambiguateName offers name, name2, name3 and so on. *)
DisambiguateName(name, i) ==
  IF i = 1 THEN name ELSE [name EXCEPT !.nums = Append(@, i)]

NoImports == [name \in {} |-> [path |-> "", shared |-> FALSE, alias |-> FALSE]]

(* Mutant: the names of the package are not looked at. *)
FreeInScope(name) == name \notin DOMAIN imports

Free(name) == name \notin DOMAIN imports /\ name \notin Target.scope

(* The first name offered that is already one of ours or is free. *)
Offered(base, ours, i) ==
  LET name == DisambiguateName(base, i)
  IN  /\ name \in ours \/ Free(name)
      /\ \A j \in 1 .. i - 1 :
           DisambiguateName(base, j) \notin ours /\ ~Free(DisambiguateName(base, j))

Imported(name, path, shared, alias) ==
  imports' = [n \in DOMAIN imports \cup {name} |->
                IF n = name THEN [path |-> path, shared |-> shared, alias |-> alias]
                ELSE imports[n]]

(* Mutant: an import made before is not recognised. *)
OursNever(path) == {}

(* The names under which this very object has been imported. *)
Ours(path) == {n \in DOMAIN imports : imports[n].path = path /\ imports[n].shared}

(* Mutant: the object keeps its name. *)
ImportObjUnnamed(path, i) ==
  LET name == DisambiguateName(names[path], i)
  IN  /\ Offered(names[path], Ours(path), i)
      /\ IF name \in Ours(path) THEN UNCHANGED <<imports, names>>
         ELSE /\ Imported(name, path, TRUE, name # names[path])
              /\ UNCHANGED names

(* importObj: the package is given the name that it is imported under. *)
ImportObj(path, i) ==
  LET name == DisambiguateName(names[path], i)
  IN  /\ Offered(names[path], Ours(path), i)
      /\ IF name \in Ours(path) THEN UNCHANGED <<imports, names>>
         ELSE /\ Imported(name, path, TRUE, name # names[path])
              /\ names' = [names EXCEPT ![path] = name]

(* Import: any object of the path will do; one of its own is named.  Only    *)
(* the names of what the package imports directly are known.                 *)
Import(path, base, i) ==
  LET name == DisambiguateName(base, i)
      ours == {n \in DOMAIN imports : imports[n].path = path}
  IN  /\ Offered(base, ours, i)
      /\ IF name \in ours THEN UNCHANGED imports
         ELSE Imported(name, path, FALSE, path \in Target.direct => name # names[path])
      /\ UNCHANGED names

-----------------------------------------------------------------------------
(* Generating *)
Writes(name) ==
  /\ refs' = refs \cup {[name |-> name, path |-> Item.path]}
  /\ pos' = pos + 1
  /\ UNCHANGED <<prog, phase, cur, outs, disk, errs>>

Mention(op) == phase = "generate" /\ pos <= Len(Target.items) /\ Item.op = op

(* Printf of an object, or of a named type or a pointer to one that is given *)
(* as a type: a types.Type, or a Typer such as typeinfo.Type                 *)
PrintObject ==
  /\ Mention("object")
  /\ \E i \in 1 .. MaxTries : ImportObj(Item.path, i)
  /\ Writes(names'[Item.path])

(* Printf of a slice, an array, a map or a function type, or of any type     *)
(* given as an Object (basic.go:104, struct.go:585): nothing is imported.    *)
PrintUntracked ==
  /\ Mention("untracked")
  /\ Writes(names[Item.path])
  /\ UNCHANGED <<names, imports>>

(* "fmt" and "convgenerrors", where the code makes an error *)
UseHelper ==
  /\ Mention("helper")
  /\ \E i \in 1 .. MaxTries :
       /\ Import(Item.path, PkgNames[Item.path], i)
       /\ Writes(DisambiguateName(PkgNames[Item.path], i))

(* RewriteImports *)
RewriteImport ==
  /\ Mention("merged")
  /\ \E i \in 1 .. MaxTries :
       /\ Import(Item.path, names[Item.path], i)
       /\ Writes(DisambiguateName(names[Item.path], i))

-----------------------------------------------------------------------------
(* The run *)
Load ==
  /\ phase = "load"
  /\ errs' = UNION {prog[t].broken : t \in DOMAIN prog}
  /\ phase' = IF errs' = {} THEN "build" ELSE "failed"
  /\ UNCHANGED <<prog, cur, pos, names, imports, refs, outs, disk>>

(* Mutant: one past the last. *)
NextTargetPast ==
  IF cur <= Len(prog) THEN cur' = cur + 1 /\ phase' = "build"
  ELSE phase' = (IF errs' = {} THEN "save" ELSE "failed") /\ UNCHANGED cur

(* Mutant: what could be generated is written. *)
NextTargetAnyway ==
  IF cur < Len(prog) THEN cur' = cur + 1 /\ phase' = "build"
  ELSE phase' = "save" /\ UNCHANGED cur

NextTarget ==
  IF cur < Len(prog) THEN cur' = cur + 1 /\ phase' = "build"
  ELSE phase' = (IF errs' = {} THEN "save" ELSE "failed") /\ UNCHANGED cur

BuildFails ==
  /\ phase = "build" /\ Target.mistakes # {}
  /\ errs' = errs \cup Target.mistakes
  /\ NextTarget
  /\ UNCHANGED <<prog, pos, names, imports, refs, outs, disk>>

Generate ==
  /\ phase = "build" /\ Target.mistakes = {}
  /\ phase' = "generate" /\ pos' = 1
  /\ imports' = NoImports /\ refs' = {}
  /\ UNCHANGED <<prog, cur, names, outs, disk, errs>>

(* What an import declares is the alias, or what the package calls itself. *)
Specs ==
  {[name |-> IF imports[n].alias THEN n ELSE PkgNames[imports[n].path],
    path |-> imports[n].path] : n \in DOMAIN imports}

FrameCode ==
  /\ phase = "generate" /\ pos > Len(Target.items)
  /\ outs' = [d \in DOMAIN outs \cup {Target.dir} |->
                IF d = Target.dir THEN [of |-> cur, specs |-> Specs, refs |-> refs] ELSE outs[d]]
  /\ UNCHANGED <<prog, pos, names, imports, refs, disk, errs>>
  /\ NextTarget

(* The files are written in any order, up to the first that cannot be. *)
WriteFile ==
  /\ phase = "save"
  /\ \E d \in DOMAIN outs \ disk : disk' = disk \cup {d}
  /\ phase' = IF disk' = DOMAIN outs THEN "done" ELSE "save"
  /\ UNCHANGED <<prog, cur, pos, names, imports, refs, outs, errs>>

WriteFails ==
  /\ phase = "save"
  /\ errs' = errs \cup {Unwritten}
  /\ phase' = "failed"
  /\ UNCHANGED <<prog, cur, pos, names, imports, refs, outs, disk>>

Done == phase \in {"done", "failed"} /\ UNCHANGED vars

Init ==
  /\ prog \in Programs
  /\ phase = "load" /\ cur = 1 /\ pos = 1
  /\ names = PkgNames
  /\ imports = NoImports /\ refs = {}
  /\ outs = [d \in {} |-> [of |-> 0, specs |-> {}, refs |-> {}]]
  /\ disk = {} /\ errs = {}

Next ==
  \/ Load \/ BuildFails \/ Generate
  \/ PrintObject \/ PrintUntracked \/ UseHelper \/ RewriteImport
  \/ FrameCode \/ WriteFile \/ WriteFails
  \/ Done

Spec == Init /\ [][Next]_vars
=============================================================================
