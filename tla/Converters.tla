------------------------------ MODULE Converters ------------------------------
(***************************************************************************)
(* What building the converters of a package promises, whatever the way    *)
(* they are found: the directives are taken in source order; each is       *)
(* either rejected, which adds nothing, or adds its converter together     *)
(* with the helper functions it needs, and the functions added so far are  *)
(* at all times a Go program that compiles and keeps its error promises.   *)
(***************************************************************************)
EXTENDS Naturals, Sequences

CONSTANT Names

VARIABLES
  package,  \* the directives, the functions written by hand, the names taken
  next,     \* the directive to take next
  funcs,    \* the functions generated so far
  rejected, \* the directives rejected
  verdict   \* "running", "done" or "crashed"

aVars == <<package, next, funcs, rejected, verdict>>

Func == [name : Names, hasErr : BOOLEAN, calls : SUBSET [name : Names, hasErr : BOOLEAN]]

Signature(f) == [name |-> f.name, hasErr |-> f.hasErr]

(* Every function called exists, with the signature the caller expects. *)
Linked(fs) ==
  \A f \in fs : \A c \in f.calls :
    c \in package.written \/ \E g \in fs : Signature(g) = c

(* A function that cannot return an error calls none that can. *)
ErrorSafe(fs) == \A f \in fs : f.hasErr \/ \A c \in f.calls : ~c.hasErr

(* No two functions share a name. *)
NamedApart(fs) == \A f, g \in fs : f.name = g.name => f = g

AInit ==
  /\ package.taken \subseteq Names
  /\ next = 1
  /\ funcs = {}
  /\ rejected = {}
  /\ verdict = "running"

(* A directive is converted: its converter and its helpers, whose names are  *)
(* new, join the functions generated before.                                 *)
Convert ==
  /\ verdict = "running"
  /\ next <= Len(package.directives)
  /\ funcs \subseteq funcs'
  /\ LET d     == package.directives[next]
         added == funcs' \ funcs
     IN  /\ \E f \in added : Signature(f) = d
         /\ \A f \in added : f.name \in package.taken => Signature(f) = d
  /\ Linked(funcs') /\ ErrorSafe(funcs') /\ NamedApart(funcs')
  /\ next' = next + 1
  /\ UNCHANGED <<package, rejected, verdict>>

Reject ==
  /\ verdict = "running"
  /\ next <= Len(package.directives)
  /\ rejected' = rejected \cup {next}
  /\ next' = next + 1
  /\ UNCHANGED <<package, funcs, verdict>>

Finish ==
  /\ verdict = "running"
  /\ next > Len(package.directives)
  /\ verdict' = "done"
  /\ UNCHANGED <<package, next, funcs, rejected>>

Crash ==
  /\ verdict = "running"
  /\ verdict' = "crashed"
  /\ UNCHANGED <<package, next, funcs, rejected>>

ANext == Convert \/ Reject \/ Finish \/ Crash

ASpec == AInit /\ [][ANext]_aVars

(* What a reader of the generated file relies on. *)
Promise == Linked(funcs) /\ ErrorSafe(funcs) /\ NamedApart(funcs)
=============================================================================
