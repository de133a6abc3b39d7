------------------------------ MODULE Generated ------------------------------
(***************************************************************************)
(* The code Convgen writes, run on one input.  The assigners of a package  *)
(* are nodes of a graph; running the code of a node assigns an output to   *)
(* varY and may assign an error to varErr.  The control written by         *)
(* writeAssignCode is all here: the loops and their breaks, the gotos to   *)
(* the end of a struct, what is done with an error on its way out.         *)
(*                                                                         *)
(* A value is a tag and its parts: a slice, array or map is its elements   *)
(* or entries, a struct its fields, a pointer what it points to; the tag   *)
(* of a union's value is its implementation.  Types are not modelled: Zero *)
(* is the zero value of any of them, and a value converts to itself up to  *)
(* what the code makes of nil and empty ones.                              *)
(***************************************************************************)
EXTENDS Naturals, Sequences

CONSTANTS
  Nodes,    \* the assigners
  Tags,     \* what values are told apart by
  Wrappers, \* functions registered by ImportErrWrap
  Programs, \* the code and its inputs, see Program
  Zero      \* the zero value, also nil

(* A matched field: where X has it, under a pointer of X if it is nested (0  *)
(* if not), and whether it is read by a getter, or written by a setter, that *)
(* returns an error.                                                         *)
Member == [from : Nat, under : Nat, as : Nodes, getter : BOOLEAN, setter : BOOLEAN]

(* "copy" is a basic or identical type, "hand" a function written by hand    *)
(* that may fail.  hasErr is whether the function that the code belongs to   *)
(* returns an error.                                                         *)
Assigner ==
  [kind : {"copy", "hand"}]
  \cup [kind : {"call"}, to : Nodes]
  \cup [kind : {"pointer"}, elem : Nodes, depthX : Nat, depthY : Nat]
  \cup [kind : {"index"}, elem : Nodes, isSliceY : BOOLEAN]
  \cup [kind : {"key"}, key : Nodes, elem : Nodes]
  \cup [kind : {"struct"}, fields : Seq(Member), hasErr : BOOLEAN]
  \cup [kind : {"union"}, cases : Seq([impl : Tags, as : Nodes]), hasErr : BOOLEAN]
  \cup [kind : {"enum"}, members : SUBSET Tags, default : Tags, hasErr : BOOLEAN]

ASSUME ProgramsAssumption ==
  \A pg \in Programs :
    /\ pg.code \in [Nodes -> Assigner]
    /\ pg.root \in Nodes
    /\ pg.wraps \in Seq(Wrappers)

(* An error is its history: its cause, and what has wrapped it since.        *)
Causes == {"hand", "getter", "setter", "nomatch"}
Marks  == Causes \cup {"converting"} \cup Wrappers
NoErr  == <<>>

(* No wrapper is mistaken for another mark. *)
ASSUME WrappersAssumption == Wrappers \cap (Causes \cup {"converting"}) = {}

-----------------------------------------------------------------------------
VARIABLES
  prog,   \* the code, fixed
  input,  \* the argument of the outermost function, fixed
  stack,  \* the code in progress, innermost last
  ret,    \* what the code that ended last has assigned, until it is looked at
  faults  \* what has gone wrong so far, the causes of errors

vars == <<prog, input, stack, ret, faults>>

Begin(n, v) == [node |-> n, in |-> v, out |-> Zero, at |-> 0, err |-> NoErr]

Top  == stack[Len(stack)]
Code == prog.code[Top.node]

(* How many parts the code of a frame goes through. *)
Size(fr) ==
  LET code == prog.code[fr.node]
  IN  CASE code.kind = "index"  -> Len(fr.in.kids)
        [] code.kind = "key"    -> 2 * Len(fr.in.kids)
        [] code.kind = "struct" -> Len(code.fields)
        [] OTHER                -> 0

TypeOK ==
  /\ prog.code \in [Nodes -> Assigner]
  /\ prog.wraps \in Seq(Wrappers)
  /\ \A k \in DOMAIN stack :
       /\ stack[k].node \in Nodes
       /\ stack[k].err \in Seq(Marks)
       /\ stack[k].at \in Nat
       /\ stack[k].err = NoErr => stack[k].at <= Size(stack[k])
  /\ \A r \in ret : r.err \in Seq(Marks)
  /\ faults \in Seq(Causes)

-----------------------------------------------------------------------------
Pop(s) == SubSeq(s, 1, Len(s) - 1)

Running(kind)  == stack # <<>> /\ ret = {} /\ Code.kind = kind
Resuming(kind) == stack # <<>> /\ ret # {} /\ Code.kind = kind

Enter(n, v)    == stack' = Append(stack, Begin(n, v)) /\ ret' = {}
Continue(fr)   == stack' = [stack EXCEPT ![Len(stack)] = fr] /\ ret' = {}
Return(v, err) == stack' = Pop(stack) /\ ret' = {[out |-> v, err |-> err]}

Fault(cause) == faults' = Append(faults, cause)
NoFault      == UNCHANGED faults

Fixed == UNCHANGED <<prog, input>>

(* Mutant: the wrapper registered last is called first. *)
ErrWrapBackwards(err) == err \o [i \in DOMAIN prog.wraps |-> prog.wraps[Len(prog.wraps) + 1 - i]]

(* newErrWrap and writeWrapCode: every wrapper in the order of registration, *)
(* on whatever varErr holds.                                                 *)
ErrWrap(err) == err \o prog.wraps

(* What a frame has made so far, with one more part. *)
With(v, part)  == [v EXCEPT !.kids = Append(@, part)]
Made(fr)       == IF fr.at = 0 THEN [tag |-> fr.in.tag, kids |-> <<>>] ELSE fr.out
MadeWith(part) == With(Made(Top), part)

-----------------------------------------------------------------------------
Init ==
  /\ \E pg \in Programs :
       /\ prog = [code |-> pg.code, root |-> pg.root, wraps |-> pg.wraps]
       /\ input \in pg.inputs
  /\ stack = <<Begin(prog.root, input)>>
  /\ ret = {}
  /\ faults = <<>>

Copy == Running("copy") /\ Return(Top.in, NoErr) /\ NoFault /\ Fixed

(* A function the user wrote: "bad" values make it fail. *)
Hand ==
  /\ Running("hand")
  /\ \/ Top.in.tag # "bad" /\ Return(Top.in, NoErr) /\ NoFault
     \/ Top.in.tag = "bad" /\ Return(Zero, <<"hand">>) /\ Fault("hand")
  /\ Fixed

(* funcAssigner *)
Call == Running("call") /\ Enter(Code.to, Top.in) /\ NoFault /\ Fixed

(* Mutant: the wrappers are called whether there is an error or not. *)
CallReturnsAlways ==
  /\ Resuming("call")
  /\ \E r \in ret : Return(r.out, ErrWrap(r.err))
  /\ NoFault /\ Fixed

CallReturns ==
  /\ Resuming("call")
  /\ \E r \in ret :
       Return(r.out, IF r.err = NoErr THEN NoErr ELSE ErrWrap(Append(r.err, "converting")))
  /\ NoFault /\ Fixed

(* pointerAssigner: a nil pointer leaves the output as it is. *)
Pointer ==
  /\ Running("pointer")
  /\ IF Code.depthX # 0 /\ Top.in = Zero
       THEN Return(Zero, NoErr)
       ELSE Enter(Code.elem, IF Code.depthX = 0 THEN Top.in ELSE Top.in.kids[1])
  /\ NoFault /\ Fixed

(* Mutant: the error stays in a variable that is shadowed. *)
PointerReturnsShadowed ==
  /\ Resuming("pointer")
  /\ \E r \in ret : Return([tag |-> "pointer", kids |-> <<r.out>>], NoErr)
  /\ NoFault /\ Fixed

PointerReturns ==
  /\ Resuming("pointer")
  /\ \E r \in ret :
       Return(IF Code.depthY = 0 \/ (Code.depthY > 1 /\ r.out = Zero)
                THEN r.out ELSE [tag |-> "pointer", kids |-> <<r.out>>],
              r.err)
  /\ NoFault /\ Fixed

-----------------------------------------------------------------------------
(* indexAssigner.  A slice that is empty is left nil; an array has its       *)
(* elements from the start.                                                  *)
IndexNext ==
  /\ Running("index")
  /\ Top.err = NoErr
  /\ Top.at < Size(Top)
  /\ Enter(Code.elem, Top.in.kids[Top.at + 1])
  /\ NoFault /\ Fixed

(* Mutants: the index is advanced by hand as well; the loop goes on after an *)
(* error.                                                                    *)
AssignTwice(r) ==
  Continue([Top EXCEPT !.out = MadeWith(r.out), !.at = @ + 2, !.err = r.err])

AssignOn(r) == Continue([Top EXCEPT !.out = MadeWith(r.out), !.at = @ + 1])

(* One element is assigned; on its error the loop is left, and the variable  *)
(* of the input is set to nil if the output is a slice.                      *)
Assign(r) ==
  Continue([Top EXCEPT !.out = MadeWith(r.out), !.at = @ + 1, !.err = r.err,
                       !.in = IF r.err # NoErr /\ Code.isSliceY THEN Zero ELSE @])

IndexAssign == Resuming("index") /\ (\E r \in ret : Assign(r)) /\ NoFault /\ Fixed

IndexEnd ==
  /\ Running("index")
  /\ Top.err # NoErr \/ Top.at = Size(Top)
  /\ Return(Top.out, Top.err)
  /\ NoFault /\ Fixed

(* keyAssigner: the key of an entry, then its element. *)
KeyNext ==
  /\ Running("key")
  /\ Top.err = NoErr
  /\ Top.at < Size(Top)
  /\ LET entry == Top.in.kids[(Top.at \div 2) + 1]
     IN  IF Top.at % 2 = 0 THEN Enter(Code.key, entry.kids[1])
                           ELSE Enter(Code.elem, entry.kids[2])
  /\ NoFault /\ Fixed

(* The key converted waits at the end of the entries for its element. *)
Key(x)     == [tag |-> "entry", kids |-> <<x>>]
Elem(v, x) == [v EXCEPT !.kids[Len(v.kids)] = With(@, x)]

KeyAssign ==
  /\ Resuming("key")
  /\ \E r \in ret :
       Continue([Top EXCEPT
         !.out = IF Top.at % 2 = 0 THEN MadeWith(Key(r.out)) ELSE Elem(@, r.out),
         !.at  = @ + 1,
         !.err = r.err,
         !.in  = IF r.err # NoErr THEN Zero ELSE @])
  /\ NoFault /\ Fixed

KeyEnd ==
  /\ Running("key")
  /\ Top.err # NoErr \/ Top.at = Size(Top)
  /\ Return(Top.out, Top.err)
  /\ NoFault /\ Fixed

-----------------------------------------------------------------------------
(* structAssigner, one matched field after another *)
Field == Code.fields[Top.at + 1]

FieldDue == Running("struct") /\ Top.err = NoErr /\ Top.at < Size(Top)

(* The group of a nested field whose pointer is nil is skipped. *)
Absent(m) == m.under # 0 /\ Top.in.kids[m.under] = Zero

FieldX(m) ==
  IF m.under = 0 THEN Top.in.kids[m.from] ELSE Top.in.kids[m.under].kids[1].kids[m.from]

Goto(err) == Continue([Top EXCEPT !.err = err])

FieldSkipped ==
  /\ FieldDue
  /\ Absent(Field)
  /\ Continue([Top EXCEPT !.out = MadeWith(Zero), !.at = @ + 1])
  /\ NoFault /\ Fixed

GetterFails ==
  /\ FieldDue
  /\ ~Absent(Field)
  /\ Field.getter /\ FieldX(Field).tag = "bad"
  /\ Goto(ErrWrap(<<"getter">>))
  /\ Fault("getter") /\ Fixed

FieldNext ==
  /\ FieldDue
  /\ ~Absent(Field)
  /\ ~(Field.getter /\ FieldX(Field).tag = "bad")
  /\ Enter(Field.as, FieldX(Field))
  /\ NoFault /\ Fixed

(* What the field's own conversion has wrapped is not wrapped again. *)
FieldFails ==
  /\ Resuming("struct")
  /\ \E r \in ret : r.err # NoErr /\ Goto(r.err)
  /\ NoFault /\ Fixed

SetterFails ==
  /\ Resuming("struct")
  /\ \E r \in ret : r.err = NoErr /\ Field.setter /\ r.out.tag = "odd"
  /\ Goto(ErrWrap(<<"setter">>))
  /\ Fault("setter") /\ Fixed

FieldAssign ==
  /\ Resuming("struct")
  /\ \E r \in ret :
       /\ r.err = NoErr
       /\ ~(Field.setter /\ r.out.tag = "odd")
       /\ Continue([Top EXCEPT !.out = MadeWith(r.out), !.at = @ + 1])
  /\ NoFault /\ Fixed

(* Mutant: the label at the end does not clear the output. *)
StructEndKeeping ==
  /\ Running("struct")
  /\ Top.err # NoErr \/ Top.at = Size(Top)
  /\ Return(Top.out, Top.err)
  /\ NoFault /\ Fixed

StructEnd ==
  /\ Running("struct")
  /\ Top.err # NoErr \/ Top.at = Size(Top)
  /\ Return(IF Code.hasErr /\ Top.err # NoErr THEN Zero ELSE Top.out, Top.err)
  /\ NoFault /\ Fixed

-----------------------------------------------------------------------------
(* unionAssigner and enumAssigner *)
UnionCase(case) == case.impl = Top.in.tag

Union ==
  /\ Running("union")
  /\ \E i \in DOMAIN Code.cases :
       UnionCase(Code.cases[i]) /\ Enter(Code.cases[i].as, Top.in)
  /\ NoFault /\ Fixed

(* After the conversion of a case, varErr is set to nil and wrapped. *)
UnionReturns ==
  /\ Resuming("union")
  /\ \E r \in ret : Return(r.out, IF Code.hasErr THEN ErrWrap(NoErr) ELSE r.err)
  /\ NoFault /\ Fixed

(* No implementation or member matches: printErr. *)
NoMatch(v, err) ==
  IF Code.hasErr THEN Return(v, err) /\ Fault("nomatch") ELSE Return(v, NoErr) /\ NoFault

UnionDefault ==
  /\ Running("union")
  /\ \A i \in DOMAIN Code.cases : ~UnionCase(Code.cases[i])
  /\ NoMatch(Zero, <<"nomatch", "converting">>)
  /\ Fixed

Enum ==
  /\ Running("enum")
  /\ Top.in.tag \in Code.members
  /\ Return(Top.in, NoErr)
  /\ NoFault /\ Fixed

EnumDefault ==
  /\ Running("enum")
  /\ Top.in.tag \notin Code.members
  /\ NoMatch([tag |-> Code.default, kids |-> <<>>], ErrWrap(<<"nomatch", "converting">>))
  /\ Fixed

Returned == stack = <<>> /\ UNCHANGED vars

Next ==
  \/ Copy \/ Hand \/ Call \/ CallReturns \/ Pointer \/ PointerReturns
  \/ IndexNext \/ IndexAssign \/ IndexEnd \/ KeyNext \/ KeyAssign \/ KeyEnd
  \/ FieldSkipped \/ GetterFails \/ FieldNext \/ FieldFails \/ SetterFails \/ FieldAssign
  \/ StructEnd \/ Union \/ UnionReturns \/ UnionDefault \/ Enum \/ EnumDefault
  \/ Returned

Spec == Init /\ [][Next]_vars
=============================================================================
