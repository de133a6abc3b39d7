---------------------------- MODULE ImportsProps ----------------------------
(***************************************************************************)
(* What the Go compiler asks of the files, and the user of the run.        *)
(***************************************************************************)
EXTENDS Imports

Entry == [path : Paths, shared : BOOLEAN, alias : BOOLEAN]

Mentions == [name : NamesUsed, path : Paths]

TypeOK ==
  /\ phase \in {"load", "build", "generate", "save", "done", "failed"}
  /\ cur \in DOMAIN prog /\ pos \in Nat \ {0}
  /\ names \in [Paths -> NamesUsed]
  /\ DOMAIN imports \subseteq NamesUsed /\ \A n \in DOMAIN imports : imports[n] \in Entry
  /\ refs \subseteq Mentions
  /\ DOMAIN outs \subseteq Dirs
  /\ \A d \in DOMAIN outs :
       outs[d].of \in DOMAIN prog /\ outs[d].specs \subseteq Mentions /\ outs[d].refs \subseteq Mentions
  /\ disk \subseteq DOMAIN outs
  /\ errs \subseteq Faults \cup {Unwritten}

(* The packages a file imports that are called by a name in it. *)
Called(file, name) == {s.path : s \in {spec \in file.specs : spec.name = name}}

Resolves(file) ==
  \A r \in file.refs :
    /\ Called(file, r.name) = {r.path}
    /\ r.name \notin prog[file.of].scope

(* Each mention of a package in a generated file refers to that package and  *)
(* to no other: the file imports it under that name, with an alias where the *)
(* package calls itself otherwise, and nothing else has the name (writer.go  *)
(* :155, 216-217).                                                           *)
ReferencesResolve == \A d \in DOMAIN outs : Resolves(outs[d])

(* One file at least of those written is such: much less than the comments   *)
(* of Imports and importObj say (writer.go:83-84, 143).  A run that violates *)
(* it shows at once what each file is wrong about.                           *)
SomeFileResolves == phase = "done" => \E d \in DOMAIN outs : Resolves(outs[d])

(* No two imports declare the same name, none a name of the package itself,  *)
(* and all that is imported is mentioned under its name: otherwise the file  *)
(* does not compile.                                                         *)
ImportsAreSound ==
  \A d \in DOMAIN outs :
    LET file == outs[d]
    IN  /\ \A s, t \in file.specs : s.name = t.name => s = t
        /\ \A s \in file.specs : s.name \notin prog[file.of].scope /\ s \in file.refs

Settled(n) == imports[n].shared => names[imports[n].path] = n

StayAsTheyAre ==
  phase = "generate" =>
    \A n \in DOMAIN imports :
      n \in DOMAIN imports' /\ imports'[n] = imports[n] /\ Settled(n) /\ Settled(n)'

(* While a file is generated, a package that has been imported keeps its     *)
(* import, and its object the name of it: what has been written with that    *)
(* name still refers to it, and what will be written does (writer.go:138-147).*)
NamesAreSettled == [][StayAsTheyAre]_vars

AllBroken   == UNION {prog[t].broken : t \in DOMAIN prog}
AllMistakes == UNION {prog[t].mistakes : t \in DOMAIN prog}

(* Files are written only if no package has an error, so that a run with     *)
(* errors leaves the generated files of all packages as they were, and then  *)
(* there is one for each package (main.go:28-29); and every error of every   *)
(* package is reported, those of loading before all others.                  *)
OutputIsWhole ==
  /\ disk # {} => errs \subseteq {Unwritten}
  /\ phase = "done" => \A t \in DOMAIN prog : prog[t].dir \in disk /\ outs[prog[t].dir].of = t
  /\ phase \in {"done", "failed"} =>
       errs \ {Unwritten} = IF AllBroken # {} THEN AllBroken ELSE AllMistakes
=============================================================================
