---------------------------- MODULE GeneratedProofs ----------------------------
(***************************************************************************)
(* Proofs about the generated code, for every graph of assigners, every    *)
(* input and any wrappers.                                                 *)
(***************************************************************************)
EXTENDS GeneratedProps, FiniteSetTheorems, SequenceTheorems, TLAPS

(* Values have no type, so a frame is known by its fields. *)
IsFrame(f) ==
  /\ DOMAIN f = {"node", "in", "out", "at", "err"}
  /\ f.node \in Nodes
  /\ f.at \in Nat
  /\ f.err \in Seq(Marks)

Stacked ==
  /\ \E S : stack \in Seq(S)
  /\ \A k \in 1 .. Len(stack) : IsFrame(stack[k])

Coded(Q) ==
  /\ prog.code \in [Nodes -> Assigner]
  /\ prog.wraps \in Seq(Wrappers)
  /\ Q \subseteq Nodes
  /\ CannotFail(prog.code, Q)
  /\ CasesCannotFail(prog.code, Q)

Answered ==
  ret = {} \/ \E v : \E e \in Seq(Marks) : ret = {[out |-> v, err |-> e]}

(* The error that is on its way out has the failure at its origin. *)
Carries(err) == err # NoErr /\ err[1] = faults[1]

Faulted ==
  /\ faults \in Seq(Causes)
  /\ Len(faults) <= 1
  /\ faults # <<>> => \/ ret # {} /\ \A r \in ret : Carries(r.err)
                      \/ ret = {} /\ stack # <<>> /\ Carries(Top.err)

(* Only code that has something left to do holds an error: a loop before its *)
(* end, a struct before its label.                                           *)
Leaving(Q) ==
  \A k \in 1 .. Len(stack) :
    stack[k].err # NoErr => /\ prog.code[stack[k].node].kind \in {"index", "key", "struct"}
                            /\ stack[k].node \notin Q

(* Below code that cannot fail, and below a union that drops errors, is only *)
(* code that cannot fail.                                                    *)
Muted(Q, n) == n \in Q \/ ErrUnion(prog.code, n)

Muting(Q) ==
  /\ \A k \in 1 .. Len(stack) - 1 : Muted(Q, stack[k].node) => stack[k + 1].node \in Q
  /\ stack # <<>> /\ Muted(Q, Top.node) => \A r \in ret : r.err = NoErr

(* Code that waits for inner code has no error, and a struct the field that  *)
(* is being converted.                                                       *)
Waiting ==
  \A k \in 1 .. Len(stack) :
    k < Len(stack) \/ ret # {} =>
      /\ stack[k].err = NoErr
      /\ prog.code[stack[k].node].kind = "struct"
           => stack[k].at < Len(prog.code[stack[k].node].fields)

Inv(Q) ==
  /\ Coded(Q) /\ Stacked /\ Answered /\ Faulted
  /\ Leaving(Q) /\ Muting(Q) /\ Waiting

-----------------------------------------------------------------------------
(* Stacks *)
LEMMA Push ==
  ASSUME NEW S, NEW s \in Seq(S), NEW e
  PROVE  /\ Append(s, e) \in Seq(S \cup {e})
         /\ Len(Append(s, e)) = Len(s) + 1
         /\ Append(s, e)[Len(s) + 1] = e
         /\ \A i \in 1 .. Len(s) : Append(s, e)[i] = s[i]
         /\ Append(s, e) # <<>>
<1>1. s \in Seq(S \cup {e})
  OBVIOUS
<1>2. QED
  BY <1>1, AppendProperties

LEMMA PopTop ==
  ASSUME NEW S, NEW s \in Seq(S), s # <<>>
  PROVE  /\ Pop(s) \in Seq(S)
         /\ Len(Pop(s)) = Len(s) - 1
         /\ Len(s) \in Nat /\ Len(s) >= 1
         /\ \A i \in 1 .. Len(s) - 1 : Pop(s)[i] = s[i]
<1>1. Len(s) \in Nat /\ Len(s) >= 1 /\ \A i \in 1 .. Len(s) - 1 : s[i] \in S
  BY LenProperties, ElementOfSeq
<1> DEFINE n == Len(s) - 1
<1>2. n \in Int /\ 1 \in Int /\ n \in Nat /\ \A i \in 1 .. n : s[i] \in S
  BY <1>1
<1> HIDE DEF n
<1>3. /\ SubSeq(s, 1, n) \in Seq(S)
      /\ Len(SubSeq(s, 1, n)) = IF 1 <= n THEN n - 1 + 1 ELSE 0
      /\ \A i \in 1 .. n - 1 + 1 : SubSeq(s, 1, n)[i] = s[1 + i - 1]
  BY <1>2, SubSeqProperties
<1>4. \A i \in 1 .. n : SubSeq(s, 1, n)[i] = s[i]
  BY <1>2, <1>3
<1>5. Len(SubSeq(s, 1, n)) = n
  BY <1>2, <1>3
<1>6. QED
  BY <1>1, <1>3, <1>4, <1>5 DEF Pop, n

LEMMA Replace ==
  ASSUME NEW S, NEW s \in Seq(S), s # <<>>, NEW e
  PROVE  /\ [s EXCEPT ![Len(s)] = e] \in Seq(S \cup {e})
         /\ Len([s EXCEPT ![Len(s)] = e]) = Len(s)
         /\ [s EXCEPT ![Len(s)] = e][Len(s)] = e
         /\ \A i \in 1 .. Len(s) - 1 : [s EXCEPT ![Len(s)] = e][i] = s[i]
         /\ [s EXCEPT ![Len(s)] = e] # <<>>
<1>1. s \in Seq(S \cup {e}) /\ e \in S \cup {e}
  OBVIOUS
<1>2. QED
  BY <1>1

(* Wrapping an error keeps its origin. *)
LEMMA WrapKeeps ==
  ASSUME NEW Q, Coded(Q), NEW e \in Seq(Marks)
  PROVE  /\ ErrWrap(e) \in Seq(Marks)
         /\ e # NoErr => ErrWrap(e) # NoErr /\ ErrWrap(e)[1] = e[1]
<1>1. prog.wraps \in Seq(Marks)
  BY DEF Coded, Marks
<1>2. QED
  BY <1>1, ConcatProperties DEF ErrWrap, NoErr

LEMMA AddMark ==
  ASSUME NEW e \in Seq(Marks), e # NoErr
  PROVE  /\ Append(e, "converting") \in Seq(Marks)
         /\ Append(e, "converting") # NoErr
         /\ Append(e, "converting")[1] = e[1]
BY DEF NoErr, Marks

-----------------------------------------------------------------------------
(* Facts about the frame on top. *)
LEMMA TopFrame ==
  ASSUME NEW Q, Inv(Q), stack # <<>>
  PROVE  /\ Len(stack) \in Nat /\ Len(stack) >= 1 /\ Len(stack) \in 1 .. Len(stack)
         /\ IsFrame(Top)
         /\ Top.node \in Nodes
         /\ Top.err # NoErr => Code.kind \in {"index", "key", "struct"} /\ Top.node \notin Q
<1>1. PICK S : stack \in Seq(S)
  BY DEF Inv, Stacked
<1>2. Len(stack) \in Nat /\ Len(stack) >= 1
  BY <1>1
<1>3. QED
  BY <1>2 DEF Inv, Stacked, Leaving, Top, Code, IsFrame

(* While nothing is on its way out, nothing has failed. *)
LEMMA NothingFailed ==
  ASSUME NEW Q, Inv(Q), stack # <<>>, ret = {}, Top.err = NoErr
  PROVE  faults = <<>>
BY DEF Inv, Faulted, Carries

(* What has just been returned. *)
LEMMA Answer ==
  ASSUME NEW Q, Inv(Q), NEW r \in ret
  PROVE  /\ r.err \in Seq(Marks)
         /\ ret = {r}
         /\ faults # <<>> => Carries(r.err)
         /\ stack # <<>> /\ Muted(Q, Top.node) => r.err = NoErr
<1>1. PICK v : \E e \in Seq(Marks) : ret = {[out |-> v, err |-> e]}
  BY DEF Inv, Answered
<1>2. PICK e \in Seq(Marks) : ret = {[out |-> v, err |-> e]}
  BY <1>1
<1>3. ret = {r} /\ r.err = e
  BY <1>2
<1>4. QED
  BY <1>3 DEF Inv, Faulted, Muting

(* Inner code is entered. *)
LEMMA EnterStep ==
  ASSUME NEW Q, Inv(Q), NEW n \in Nodes, NEW v, stack # <<>>, ret = {}, Top.err = NoErr,
         Muted(Q, Top.node) => n \in Q,
         Code.kind = "struct" => Top.at < Len(Code.fields),
         Enter(n, v), NoFault, Fixed
  PROVE  Inv(Q)'
<1> DEFINE fr == Begin(n, v)
<1>1. PICK S : stack \in Seq(S)
  BY DEF Inv, Stacked
<1>2. stack' = Append(stack, fr) /\ ret' = {} /\ faults' = faults /\ prog' = prog
  BY DEF Enter, NoFault, Fixed
<1>3. IsFrame(fr) /\ fr.err = NoErr /\ fr.node = n
  BY DEF IsFrame, Begin, NoErr
<1> HIDE DEF fr
<1>4. /\ stack' \in Seq(S \cup {fr})
      /\ Len(stack') = Len(stack) + 1
      /\ stack'[Len(stack) + 1] = fr
      /\ \A k \in 1 .. Len(stack) : stack'[k] = stack[k]
      /\ stack' # <<>>
  BY <1>1, <1>2, Push
<1>5. Len(stack) \in Nat /\ Len(stack) >= 1
  BY TopFrame
<1>6. Coded(Q)'
  BY <1>2 DEF Inv, Coded
<1>7. Stacked'
  BY <1>3, <1>4, <1>5 DEF Inv, Stacked
<1>8. Answered' /\ Faulted'
  BY <1>2, NothingFailed DEF Inv, Answered, Faulted
<1>9. Leaving(Q)'
  BY <1>2, <1>3, <1>4, <1>5 DEF Inv, Leaving
<1>10. Muting(Q)'
  <2>1. ASSUME NEW k \in 1 .. Len(stack') - 1, Muted(Q, stack'[k].node)
        PROVE  stack'[k + 1].node \in Q
    <3>1. CASE k = Len(stack)
      BY <1>2, <1>3, <1>4, <1>5, <2>1, <3>1 DEF Top, Muted
    <3>2. CASE k < Len(stack)
      BY <1>2, <1>4, <1>5, <2>1, <3>2 DEF Inv, Muting, Muted
    <3>3. QED
      BY <1>4, <1>5, <3>1, <3>2
  <2>2. QED
    BY <1>2, <2>1 DEF Muting, Muted
<1>11. Waiting'
  <2>1. ASSUME NEW k \in 1 .. Len(stack'), k < Len(stack')
        PROVE  /\ stack'[k].err = NoErr
               /\ prog.code[stack'[k].node].kind = "struct"
                    => stack'[k].at < Len(prog.code[stack'[k].node].fields)
    <3>1. CASE k = Len(stack)
      BY <1>4, <1>5, <2>1, <3>1 DEF Top, Code
    <3>2. CASE k < Len(stack)
      BY <1>4, <1>5, <2>1, <3>2 DEF Inv, Waiting
    <3>3. QED
      BY <1>4, <1>5, <2>1, <3>1, <3>2
  <2>2. QED
    BY <1>2, <2>1 DEF Waiting, NoErr
<1>12. QED
  BY <1>6, <1>7, <1>8, <1>9, <1>10, <1>11 DEF Inv

(* The code goes on with another part, or leaves with an error. *)
LEMMA ContinueStep ==
  ASSUME NEW Q, Inv(Q), NEW fr, IsFrame(fr), fr.node = Top.node, stack # <<>>,
         fr.err # NoErr => Code.kind \in {"index", "key", "struct"} /\ Top.node \notin Q,
         faults' \in Seq(Causes), Len(faults') <= 1,
         faults' # <<>> => fr.err # NoErr /\ fr.err[1] = faults'[1],
         Continue(fr), Fixed
  PROVE  Inv(Q)'
<1>1. PICK S : stack \in Seq(S)
  BY DEF Inv, Stacked
<1>2. stack' = [stack EXCEPT ![Len(stack)] = fr] /\ ret' = {} /\ prog' = prog
  BY DEF Continue, Fixed
<1>3. /\ stack' \in Seq(S \cup {fr})
      /\ Len(stack') = Len(stack)
      /\ stack'[Len(stack)] = fr
      /\ \A k \in 1 .. Len(stack) - 1 : stack'[k] = stack[k]
      /\ stack' # <<>>
  BY <1>1, <1>2, Replace
<1>4. Len(stack) \in Nat /\ Len(stack) >= 1
  BY TopFrame
<1>5. Top' = fr
  BY <1>3 DEF Top
<1>6. Coded(Q)'
  BY <1>2 DEF Inv, Coded
<1>7. Stacked'
  <2>1. ASSUME NEW k \in 1 .. Len(stack') PROVE IsFrame(stack'[k])
    BY <1>3, <1>4 DEF Inv, Stacked
  <2>2. QED
    BY <1>3, <2>1 DEF Stacked, IsFrame
<1>8. Answered' /\ Faulted'
  BY <1>2, <1>3, <1>5 DEF Answered, Faulted, Carries
<1>9. Leaving(Q)'
  <2>1. ASSUME NEW k \in 1 .. Len(stack'), stack'[k].err # NoErr
        PROVE  /\ prog.code[stack'[k].node].kind \in {"index", "key", "struct"}
               /\ stack'[k].node \notin Q
    <3>1. CASE k = Len(stack)
      BY <1>3, <2>1, <3>1 DEF Code
    <3>2. CASE k < Len(stack)
      BY <1>3, <1>4, <2>1, <3>2 DEF Inv, Leaving
    <3>3. QED
      BY <1>3, <1>4, <3>1, <3>2
  <2>2. QED
    BY <1>2, <2>1 DEF Leaving, NoErr
<1>10. Muting(Q)'
  <2>1. ASSUME NEW k \in 1 .. Len(stack') - 1, Muted(Q, stack'[k].node)
        PROVE  stack'[k + 1].node \in Q
    <3>1. stack[k + 1].node \in Q
      BY <1>2, <1>3, <1>4, <2>1 DEF Inv, Muting, Muted
    <3>2. CASE k + 1 = Len(stack)
      BY <1>3, <3>1, <3>2 DEF Top
    <3>3. CASE k + 1 < Len(stack)
      BY <1>3, <1>4, <3>1, <3>3
    <3>4. QED
      BY <1>3, <1>4, <3>2, <3>3
  <2>2. QED
    BY <1>2, <2>1 DEF Muting, Muted
<1>11. Waiting'
  <2>1. ASSUME NEW k \in 1 .. Len(stack'), k < Len(stack')
        PROVE  /\ stack'[k].err = NoErr
               /\ prog.code[stack'[k].node].kind = "struct"
                    => stack'[k].at < Len(prog.code[stack'[k].node].fields)
    BY <1>3, <1>4, <2>1 DEF Inv, Waiting
  <2>2. QED
    BY <1>2, <2>1 DEF Waiting, NoErr
<1>12. QED
  BY <1>6, <1>7, <1>8, <1>9, <1>10, <1>11 DEF Inv

(* The code ends. *)
LEMMA ReturnStep ==
  ASSUME NEW Q, Inv(Q), NEW v, NEW e \in Seq(Marks), stack # <<>>,
         Top.node \in Q => e = NoErr,
         faults' \in Seq(Causes), Len(faults') <= 1,
         faults' # <<>> => e # NoErr /\ e[1] = faults'[1],
         Return(v, e), Fixed
  PROVE  Inv(Q)'
<1>1. PICK S : stack \in Seq(S)
  BY DEF Inv, Stacked
<1>2. stack' = Pop(stack) /\ ret' = {[out |-> v, err |-> e]} /\ prog' = prog
  BY DEF Return, Fixed
<1>3. /\ stack' \in Seq(S)
      /\ Len(stack') = Len(stack) - 1
      /\ Len(stack) \in Nat /\ Len(stack) >= 1
      /\ \A k \in 1 .. Len(stack) - 1 : stack'[k] = stack[k]
  BY <1>1, <1>2, PopTop
<1>4. Coded(Q)'
  BY <1>2 DEF Inv, Coded
<1>5. Stacked'
  <2>1. ASSUME NEW k \in 1 .. Len(stack') PROVE IsFrame(stack'[k])
    BY <1>3 DEF Inv, Stacked
  <2>2. QED
    BY <1>3, <2>1 DEF Stacked, IsFrame
<1>6. Answered' /\ Faulted'
  <2>1. \A r \in ret' : r.err = e
    BY <1>2
  <2>2. QED
    BY <1>2, <2>1 DEF Answered, Faulted, Carries
<1>7. Leaving(Q)'
  BY <1>2, <1>3 DEF Inv, Leaving, NoErr
<1>8. Muting(Q)'
  <2>1. ASSUME NEW k \in 1 .. Len(stack') - 1, Muted(Q, stack'[k].node)
        PROVE  stack'[k + 1].node \in Q
    <3>1. k \in 1 .. Len(stack) - 1 /\ k + 1 \in 1 .. Len(stack) - 1
      BY <1>3, <2>1
    <3>2. stack'[k] = stack[k] /\ stack'[k + 1] = stack[k + 1]
      BY <1>3, <3>1
    <3>3. QED
      BY <2>1, <3>1, <3>2 DEF Inv, Muting
  <2>2. ASSUME stack' # <<>>, Muted(Q, Top.node)', NEW r \in ret'
        PROVE  r.err = NoErr
    <3>1. Len(stack) - 1 \in 1 .. Len(stack) - 1
      BY <1>3, <2>2
    <3>2. Top' = stack[Len(stack) - 1]
      BY <1>3, <3>1 DEF Top
    <3>3. Muted(Q, stack[Len(stack) - 1].node)
      BY <1>2, <2>2, <3>2 DEF Muted
    <3>4. stack[(Len(stack) - 1) + 1].node \in Q
      BY <3>1, <3>3 DEF Inv, Muting
    <3>5. Top.node \in Q
      BY <1>3, <3>4 DEF Top
    <3>6. QED
      BY <1>2, <2>2, <3>5
  <2>3. QED
    BY <1>2, <2>1, <2>2 DEF Muting, Muted, NoErr
<1>9. Waiting'
  <2>1. ASSUME NEW k \in 1 .. Len(stack')
        PROVE  /\ stack'[k].err = NoErr
               /\ prog.code[stack'[k].node].kind = "struct"
                    => stack'[k].at < Len(prog.code[stack'[k].node].fields)
    <3>1. k \in 1 .. Len(stack) /\ k < Len(stack) /\ stack'[k] = stack[k]
      BY <1>3
    <3>2. QED
      BY <3>1 DEF Inv, Waiting
  <2>2. QED
    BY <1>2, <2>1 DEF Waiting, NoErr
<1>10. QED
  BY <1>4, <1>5, <1>6, <1>7, <1>8, <1>9 DEF Inv

-----------------------------------------------------------------------------
(* What the assigners are made of. *)
LEMMA Parts ==
  ASSUME NEW Q, Inv(Q), stack # <<>>
  PROVE  /\ Code.kind = "call" => Code.to \in Nodes
         /\ Code.kind \in {"pointer", "index", "key"} => Code.elem \in Nodes
         /\ Code.kind = "key" => Code.key \in Nodes
         /\ Code.kind = "struct" => Code.fields \in Seq(Member)
         /\ Code.kind = "union" => Code.cases \in Seq([impl : Tags, as : Nodes])
<1>1. Code \in Assigner
  BY TopFrame DEF Inv, Coded, Code
<1>2. QED
  BY <1>1 DEF Assigner

(* Code that cannot fail. *)
LEMMA Quiet ==
  ASSUME NEW Q, Inv(Q), stack # <<>>, Top.node \in Q
  PROVE  /\ Code.kind # "hand"
         /\ Code.kind = "call" => Code.to \in Q
         /\ Code.kind \in {"pointer", "index", "key"} => Code.elem \in Q
         /\ Code.kind = "key" => Code.key \in Q
         /\ Code.kind = "struct" =>
              \A i \in DOMAIN Code.fields :
                Code.fields[i].as \in Q /\ ~Code.fields[i].getter /\ ~Code.fields[i].setter
         /\ Code.kind \in {"union", "enum"} => ~Code.hasErr
         /\ Code.kind = "union" => \A i \in DOMAIN Code.cases : Code.cases[i].as \in Q
BY DEF Inv, Coded, CannotFail, Code

(* A field that is due, or being converted, is one of the struct's. *)
LEMMA FieldIsOne ==
  ASSUME NEW Q, Inv(Q), stack # <<>>, Code.kind = "struct", Top.at < Len(Code.fields)
  PROVE  /\ Top.at + 1 \in DOMAIN Code.fields
         /\ Field \in Member
<1>1. Code.fields \in Seq(Member)
  BY Parts
<1>2. Top.at \in Nat
  BY TopFrame DEF IsFrame
<1>3. Top.at + 1 \in DOMAIN Code.fields
  BY <1>1, <1>2, LenProperties
<1>4. Field \in Member
  BY <1>1, <1>3, ElementOfSeq, LenProperties DEF Field
<1>5. QED
  BY <1>3, <1>4

LEMMA FieldInHand ==
  ASSUME NEW Q, Inv(Q), Resuming("struct")
  PROVE  /\ Top.at < Len(Code.fields)
         /\ Top.at + 1 \in DOMAIN Code.fields
<1>1. Top.at < Len(Code.fields)
  BY TopFrame DEF Inv, Waiting, Resuming, Top, Code
<1>2. QED
  BY <1>1, FieldIsOne DEF Resuming

(* The field that FieldDue announces. *)
LEMMA FieldNow ==
  ASSUME NEW Q, Inv(Q), FieldDue
  PROVE  /\ Top.at < Len(Code.fields)
         /\ Top.at + 1 \in DOMAIN Code.fields
         /\ Field \in Member
         /\ faults = <<>>
<1>1. Top.at < Len(Code.fields)
  BY DEF FieldDue, Running, Size, Code
<1>2. QED
  BY <1>1, FieldIsOne, NothingFailed DEF FieldDue, Running

-----------------------------------------------------------------------------
(* Code that returns with nothing failed, or with the first failure. *)
LEMMA ReturnFine ==
  ASSUME NEW Q, Inv(Q), NEW v, stack # <<>>, faults = <<>>, Return(v, NoErr), NoFault, Fixed
  PROVE  Inv(Q)'
<1>1. NoErr \in Seq(Marks)
  BY DEF NoErr
<1>2. faults' = <<>> /\ faults' \in Seq(Causes) /\ Len(faults') <= 1
  BY DEF NoFault
<1>3. QED
  BY <1>1, <1>2, ReturnStep

LEMMA OneFault ==
  ASSUME NEW cause \in Causes, faults = <<>>, Fault(cause)
  PROVE  /\ faults' \in Seq(Causes) /\ Len(faults') <= 1
         /\ faults'[1] = cause
BY DEF Fault

LEMMA ReturnFault ==
  ASSUME NEW Q, Inv(Q), NEW v, NEW cause \in Causes, NEW e \in Seq(Marks), e # NoErr, e[1] = cause,
         stack # <<>>, faults = <<>>, Top.node \notin Q, Return(v, e), Fault(cause), Fixed
  PROVE  Inv(Q)'
BY OneFault, ReturnStep

(* One lemma per action. *)
LEMMA CopyKeeps == ASSUME NEW Q, Inv(Q), Copy PROVE Inv(Q)'
<1>1. stack # <<>> /\ ret = {} /\ Code.kind = "copy"
  BY DEF Copy, Running
<1>2. faults = <<>>
  BY <1>1, TopFrame, NothingFailed
<1>3. QED
  BY <1>1, <1>2, ReturnFine DEF Copy

LEMMA HandKeeps == ASSUME NEW Q, Inv(Q), Hand PROVE Inv(Q)'
<1>1. stack # <<>> /\ ret = {} /\ Code.kind = "hand"
  BY DEF Hand, Running
<1>2. faults = <<>> /\ Top.node \notin Q
  BY <1>1, TopFrame, NothingFailed, Quiet
<1>3. CASE Return(Top.in, NoErr) /\ NoFault
  BY <1>1, <1>2, <1>3, ReturnFine DEF Hand
<1>4. CASE Return(Zero, <<"hand">>) /\ Fault("hand")
  <2>1. /\ "hand" \in Causes
        /\ <<"hand">> \in Seq(Marks) /\ <<"hand">> # NoErr /\ <<"hand">>[1] = "hand"
    BY DEF Causes, Marks, NoErr
  <2>2. QED
    BY <1>1, <1>2, <1>4, <2>1, ReturnFault DEF Hand
<1>5. QED
  BY <1>3, <1>4 DEF Hand

LEMMA CallKeeps == ASSUME NEW Q, Inv(Q), Call PROVE Inv(Q)'
<1>1. stack # <<>> /\ ret = {} /\ Code.kind = "call"
  BY DEF Call, Running
<1>2. Top.err = NoErr /\ Code.to \in Nodes
  BY <1>1, TopFrame, Parts
<1>3. Muted(Q, Top.node) => Code.to \in Q
  BY <1>1, Quiet DEF Muted, ErrUnion, Code
<1>4. QED
  BY <1>1, <1>2, <1>3, EnterStep DEF Call

LEMMA CallReturnsKeeps == ASSUME NEW Q, Inv(Q), CallReturns PROVE Inv(Q)'
<1>1. stack # <<>> /\ ret # {} /\ Code.kind = "call"
  BY DEF CallReturns, Resuming
<1>2. PICK r \in ret :
        Return(r.out, IF r.err = NoErr THEN NoErr ELSE ErrWrap(Append(r.err, "converting")))
  BY DEF CallReturns
<1> DEFINE e == IF r.err = NoErr THEN NoErr ELSE ErrWrap(Append(r.err, "converting"))
<1>3. r.err \in Seq(Marks) /\ (faults # <<>> => Carries(r.err))
  BY Answer
<1>4. e \in Seq(Marks) /\ (faults # <<>> => e # NoErr /\ e[1] = faults[1])
  BY <1>3, AddMark, WrapKeeps DEF Inv, Carries, NoErr
<1>5. Top.node \in Q => e = NoErr
  BY <1>1, Answer DEF Muted
<1>6. faults' = faults /\ faults \in Seq(Causes) /\ Len(faults) <= 1
  BY DEF CallReturns, NoFault, Inv, Faulted
<1>7. Return(r.out, e) /\ Fixed
  BY <1>2 DEF CallReturns
<1> HIDE DEF e
<1>8. QED
  BY <1>1, <1>4, <1>5, <1>6, <1>7, ReturnStep

LEMMA PointerKeeps == ASSUME NEW Q, Inv(Q), Pointer PROVE Inv(Q)'
<1>1. stack # <<>> /\ ret = {} /\ Code.kind = "pointer" /\ Fixed /\ NoFault
  BY DEF Pointer, Running
<1>2. Top.err = NoErr /\ Code.elem \in Nodes /\ faults = <<>>
  BY <1>1, TopFrame, Parts, NothingFailed
<1>3. Muted(Q, Top.node) => Code.elem \in Q
  BY <1>1, Quiet DEF Muted, ErrUnion, Code
<1>4. CASE Return(Zero, NoErr)
  BY <1>1, <1>2, <1>4, ReturnFine
<1>5. CASE Enter(Code.elem, IF Code.depthX = 0 THEN Top.in ELSE Top.in.kids[1])
  BY <1>1, <1>2, <1>3, <1>5, EnterStep
<1>6. QED
  BY <1>4, <1>5 DEF Pointer

(* Code that returns what was returned to it, with the same error. *)
LEMMA PassOn ==
  ASSUME NEW Q, Inv(Q), NEW r \in ret, NEW v, stack # <<>>, Return(v, r.err), NoFault, Fixed
  PROVE  Inv(Q)'
<1>1. /\ r.err \in Seq(Marks)
      /\ faults # <<>> => Carries(r.err)
      /\ Muted(Q, Top.node) => r.err = NoErr
  BY Answer
<1>2. faults' = faults /\ faults \in Seq(Causes) /\ Len(faults) <= 1
  BY DEF NoFault, Inv, Faulted
<1>3. Top.node \in Q => r.err = NoErr
  BY <1>1 DEF Muted
<1>4. faults' # <<>> => r.err # NoErr /\ r.err[1] = faults'[1]
  BY <1>1, <1>2 DEF Carries
<1>5. QED
  BY <1>1, <1>2, <1>3, <1>4, ReturnStep

LEMMA PointerReturnsKeeps == ASSUME NEW Q, Inv(Q), PointerReturns PROVE Inv(Q)'
<1>1. PICK r \in ret : \E v : Return(v, r.err)
  BY DEF PointerReturns
<1>2. PICK v : Return(v, r.err)
  BY <1>1
<1>3. stack # <<>> /\ NoFault /\ Fixed
  BY DEF PointerReturns, Resuming
<1>4. QED
  BY <1>2, <1>3, PassOn

(* Loops: the next part is entered; a part is assigned, with its error; the  *)
(* loop ends, with the error that ended it.                                  *)
LEMMA EnterPart ==
  ASSUME NEW Q, Inv(Q), NEW n \in Nodes, NEW v, stack # <<>>, ret = {}, Top.err = NoErr,
         Code.kind \in {"index", "key"}, Top.node \in Q => n \in Q,
         Enter(n, v), NoFault, Fixed
  PROVE  Inv(Q)'
<1>1. Muted(Q, Top.node) => n \in Q
  BY DEF Muted, ErrUnion, Code
<1>2. Code.kind # "struct"
  OBVIOUS
<1>3. QED
  BY <1>1, <1>2, EnterStep

LEMMA IndexNextKeeps == ASSUME NEW Q, Inv(Q), IndexNext PROVE Inv(Q)'
<1>1. stack # <<>> /\ ret = {} /\ Code.kind = "index" /\ Top.err = NoErr
  BY DEF IndexNext, Running
<1>2. Code.elem \in Nodes /\ (Top.node \in Q => Code.elem \in Q)
  BY <1>1, Parts, Quiet
<1>3. QED
  BY <1>1, <1>2, EnterPart DEF IndexNext

LEMMA KeyNextKeeps == ASSUME NEW Q, Inv(Q), KeyNext PROVE Inv(Q)'
<1>1. stack # <<>> /\ ret = {} /\ Code.kind = "key" /\ Top.err = NoErr /\ NoFault /\ Fixed
  BY DEF KeyNext, Running
<1>2. /\ Code.elem \in Nodes /\ (Top.node \in Q => Code.elem \in Q)
      /\ Code.key \in Nodes /\ (Top.node \in Q => Code.key \in Q)
  BY <1>1, Parts, Quiet
<1> DEFINE entry == Top.in.kids[(Top.at \div 2) + 1]
<1>3. CASE Enter(Code.key, entry.kids[1])
  BY <1>1, <1>2, <1>3, EnterPart
<1>4. CASE Enter(Code.elem, entry.kids[2])
  BY <1>1, <1>2, <1>4, EnterPart
<1>5. QED
  BY <1>3, <1>4 DEF KeyNext

LEMMA PartStep ==
  ASSUME NEW Q, Inv(Q), NEW r \in ret, NEW fr, stack # <<>>, Code.kind \in {"index", "key"},
         IsFrame(fr), fr.node = Top.node, fr.err = r.err, Continue(fr), NoFault, Fixed
  PROVE  Inv(Q)'
<1>1. /\ r.err \in Seq(Marks)
      /\ faults # <<>> => Carries(r.err)
      /\ Muted(Q, Top.node) => r.err = NoErr
  BY Answer
<1>2. faults' = faults /\ faults' \in Seq(Causes) /\ Len(faults') <= 1
  BY DEF NoFault, Inv, Faulted
<1>3. fr.err # NoErr => Code.kind \in {"index", "key", "struct"} /\ Top.node \notin Q
  BY <1>1 DEF Muted
<1>4. faults' # <<>> => fr.err # NoErr /\ fr.err[1] = faults'[1]
  BY <1>1, <1>2 DEF Carries
<1>5. QED
  BY <1>2, <1>3, <1>4, ContinueStep

LEMMA IndexAssignKeeps == ASSUME NEW Q, Inv(Q), IndexAssign PROVE Inv(Q)'
<1>1. stack # <<>> /\ Code.kind = "index" /\ NoFault /\ Fixed
  BY DEF IndexAssign, Resuming
<1>2. PICK r \in ret : Assign(r)
  BY DEF IndexAssign
<1> DEFINE fr == [Top EXCEPT !.out = MadeWith(r.out), !.at = @ + 1, !.err = r.err,
                             !.in = IF r.err # NoErr /\ Code.isSliceY THEN Zero ELSE @]
<1>3. IsFrame(Top) /\ r.err \in Seq(Marks)
  BY <1>1, TopFrame, Answer
<1>4. IsFrame(fr) /\ fr.node = Top.node /\ fr.err = r.err
  BY <1>3 DEF IsFrame
<1>5. Continue(fr)
  BY <1>2 DEF Assign
<1> HIDE DEF fr
<1>6. QED
  BY <1>1, <1>4, <1>5, PartStep

LEMMA KeyAssignKeeps == ASSUME NEW Q, Inv(Q), KeyAssign PROVE Inv(Q)'
<1>1. stack # <<>> /\ Code.kind = "key" /\ NoFault /\ Fixed
  BY DEF KeyAssign, Resuming
<1> DEFINE fr(r) == [Top EXCEPT
         !.out = IF Top.at % 2 = 0 THEN MadeWith(Key(r.out)) ELSE Elem(@, r.out),
         !.at  = @ + 1,
         !.err = r.err,
         !.in  = IF r.err # NoErr THEN Zero ELSE @]
<1>2. PICK r \in ret : Continue(fr(r))
  BY Zenon DEF KeyAssign
<1>3. IsFrame(Top) /\ r.err \in Seq(Marks)
  BY <1>1, TopFrame, Answer
<1>4. IsFrame(fr(r)) /\ fr(r).node = Top.node /\ fr(r).err = r.err
  BY <1>3 DEF IsFrame
<1> HIDE DEF fr
<1>5. QED
  BY <1>1, <1>2, <1>4, PartStep

(* Code that returns the error it holds. *)
LEMMA HandOut ==
  ASSUME NEW Q, Inv(Q), NEW v, stack # <<>>, ret = {}, Return(v, Top.err), NoFault, Fixed
  PROVE  Inv(Q)'
<1>1. /\ Top.err \in Seq(Marks)
      /\ Top.node \in Q => Top.err = NoErr
  BY TopFrame DEF IsFrame
<1>2. faults' = faults /\ faults' \in Seq(Causes) /\ Len(faults') <= 1
  BY DEF NoFault, Inv, Faulted
<1>3. faults' # <<>> => Top.err # NoErr /\ Top.err[1] = faults'[1]
  BY <1>2 DEF Inv, Faulted, Carries
<1>4. QED
  BY <1>1, <1>2, <1>3, ReturnStep

LEMMA LoopEndKeeps == ASSUME NEW Q, Inv(Q), IndexEnd \/ KeyEnd PROVE Inv(Q)'
BY HandOut DEF IndexEnd, KeyEnd, Running

-----------------------------------------------------------------------------
(* Structs *)
LEMMA FieldSkippedKeeps == ASSUME NEW Q, Inv(Q), FieldSkipped PROVE Inv(Q)'
<1> DEFINE fr == [Top EXCEPT !.out = MadeWith(Zero), !.at = @ + 1]
<1>1. stack # <<>> /\ Top.err = NoErr /\ faults = <<>> /\ Fixed
  BY FieldNow DEF FieldSkipped, FieldDue, Running
<1>2. IsFrame(Top)
  BY <1>1, TopFrame
<1>3. IsFrame(fr) /\ fr.node = Top.node /\ fr.err = NoErr
  BY <1>1, <1>2 DEF IsFrame
<1>4. Continue(fr)
  BY DEF FieldSkipped
<1>5. faults' = <<>> /\ faults' \in Seq(Causes) /\ Len(faults') <= 1
  BY <1>1 DEF FieldSkipped, NoFault
<1> HIDE DEF fr
<1>6. QED
  BY <1>1, <1>3, <1>4, <1>5, ContinueStep

(* A goto to the end with an error at hand. *)
LEMMA GotoStep ==
  ASSUME NEW Q, Inv(Q), NEW e \in Seq(Marks), e # NoErr, stack # <<>>, Code.kind = "struct",
         Top.node \notin Q, faults' \in Seq(Causes), Len(faults') <= 1,
         faults' # <<>> => e[1] = faults'[1], Goto(e), Fixed
  PROVE  Inv(Q)'
<1> DEFINE fr == [Top EXCEPT !.err = e]
<1>1. IsFrame(Top)
  BY TopFrame
<1>2. IsFrame(fr) /\ fr.node = Top.node /\ fr.err = e
  BY <1>1 DEF IsFrame
<1>3. Continue(fr)
  BY DEF Goto
<1> HIDE DEF fr
<1>4. QED
  BY <1>2, <1>3, ContinueStep

LEMMA GetterFailsKeeps == ASSUME NEW Q, Inv(Q), GetterFails PROVE Inv(Q)'
<1>1. stack # <<>> /\ Code.kind = "struct" /\ Goto(ErrWrap(<<"getter">>)) /\ Fault("getter") /\ Fixed
  BY DEF GetterFails, FieldDue, Running
<1>2. faults = <<>> /\ Top.at + 1 \in DOMAIN Code.fields
  BY FieldNow DEF GetterFails
<1>3. Top.node \notin Q
  BY <1>1, <1>2, Quiet DEF GetterFails, Field
<1>4. /\ "getter" \in Causes
      /\ <<"getter">> \in Seq(Marks) /\ <<"getter">> # NoErr /\ <<"getter">>[1] = "getter"
  BY DEF Causes, Marks, NoErr
<1>5. /\ ErrWrap(<<"getter">>) \in Seq(Marks)
      /\ ErrWrap(<<"getter">>) # NoErr
      /\ ErrWrap(<<"getter">>)[1] = "getter"
  BY <1>4, WrapKeeps DEF Inv
<1>6. faults' \in Seq(Causes) /\ Len(faults') <= 1 /\ faults'[1] = "getter"
  BY <1>1, <1>2, <1>4, OneFault
<1>7. QED
  BY <1>1, <1>3, <1>5, <1>6, GotoStep

LEMMA SetterFailsKeeps == ASSUME NEW Q, Inv(Q), SetterFails PROVE Inv(Q)'
<1>1. stack # <<>> /\ Code.kind = "struct" /\ Goto(ErrWrap(<<"setter">>)) /\ Fault("setter") /\ Fixed
  BY DEF SetterFails, Resuming
<1>2. PICK r \in ret : r.err = NoErr /\ Field.setter
  BY DEF SetterFails
<1>3. faults = <<>> /\ Top.at + 1 \in DOMAIN Code.fields
  BY <1>2, Answer, FieldInHand DEF SetterFails, Carries
<1>4. Top.node \notin Q
  BY <1>1, <1>2, <1>3, Quiet DEF Field
<1>5. /\ "setter" \in Causes
      /\ <<"setter">> \in Seq(Marks) /\ <<"setter">> # NoErr /\ <<"setter">>[1] = "setter"
  BY DEF Causes, Marks, NoErr
<1>6. /\ ErrWrap(<<"setter">>) \in Seq(Marks)
      /\ ErrWrap(<<"setter">>) # NoErr
      /\ ErrWrap(<<"setter">>)[1] = "setter"
  BY <1>5, WrapKeeps DEF Inv
<1>7. faults' \in Seq(Causes) /\ Len(faults') <= 1 /\ faults'[1] = "setter"
  BY <1>1, <1>3, <1>5, OneFault
<1>8. QED
  BY <1>1, <1>4, <1>6, <1>7, GotoStep

LEMMA FieldNextKeeps == ASSUME NEW Q, Inv(Q), FieldNext PROVE Inv(Q)'
<1>1. stack # <<>> /\ ret = {} /\ Code.kind = "struct" /\ Top.err = NoErr
  BY DEF FieldNext, FieldDue, Running
<1>2. /\ Top.at < Len(Code.fields)
      /\ Top.at + 1 \in DOMAIN Code.fields
      /\ Field \in Member
  BY FieldNow DEF FieldNext
<1>3. Field.as \in Nodes
  BY <1>2 DEF Member
<1>4. Muted(Q, Top.node) => Field.as \in Q
  BY <1>1, <1>2, Quiet DEF Muted, ErrUnion, Code, Field
<1>5. QED
  BY <1>1, <1>2, <1>3, <1>4, EnterStep DEF FieldNext

LEMMA FieldFailsKeeps == ASSUME NEW Q, Inv(Q), FieldFails PROVE Inv(Q)'
<1>1. stack # <<>> /\ Code.kind = "struct" /\ NoFault /\ Fixed
  BY DEF FieldFails, Resuming
<1>2. PICK r \in ret : r.err # NoErr /\ Goto(r.err)
  BY DEF FieldFails
<1>3. /\ r.err \in Seq(Marks)
      /\ faults # <<>> => Carries(r.err)
      /\ Muted(Q, Top.node) => r.err = NoErr
  BY <1>1, Answer
<1>4. faults' = faults /\ faults' \in Seq(Causes) /\ Len(faults') <= 1
  BY <1>1 DEF NoFault, Inv, Faulted
<1>5. Top.node \notin Q /\ (faults' # <<>> => r.err[1] = faults'[1])
  BY <1>2, <1>3, <1>4 DEF Muted, Carries
<1>6. QED
  BY <1>1, <1>2, <1>3, <1>4, <1>5, GotoStep

LEMMA FieldAssignKeeps == ASSUME NEW Q, Inv(Q), FieldAssign PROVE Inv(Q)'
<1>1. stack # <<>> /\ Code.kind = "struct" /\ NoFault /\ Fixed
  BY DEF FieldAssign, Resuming
<1>2. PICK r \in ret :
        /\ r.err = NoErr
        /\ Continue([Top EXCEPT !.out = MadeWith(r.out), !.at = @ + 1])
  BY DEF FieldAssign
<1> DEFINE fr == [Top EXCEPT !.out = MadeWith(r.out), !.at = @ + 1]
<1>3. faults = <<>>
  BY <1>2, Answer DEF Carries
<1>4. faults' = <<>> /\ faults' \in Seq(Causes) /\ Len(faults') <= 1
  BY <1>1, <1>3 DEF NoFault
<1>5. IsFrame(Top) /\ Top.err = NoErr
  BY <1>1, TopFrame DEF Inv, Waiting, Top
<1>6. IsFrame(fr) /\ fr.node = Top.node /\ fr.err = NoErr
  BY <1>5 DEF IsFrame
<1>7. Continue(fr)
  BY <1>2
<1> HIDE DEF fr
<1>8. QED
  BY <1>1, <1>4, <1>6, <1>7, ContinueStep

LEMMA StructEndKeeps == ASSUME NEW Q, Inv(Q), StructEnd PROVE Inv(Q)'
BY HandOut DEF StructEnd, Running

-----------------------------------------------------------------------------
(* Unions and enums *)
LEMMA UnionKeeps == ASSUME NEW Q, Inv(Q), Union PROVE Inv(Q)'
<1>1. stack # <<>> /\ ret = {} /\ Code.kind = "union"
  BY DEF Union, Running
<1>2. PICK i \in DOMAIN Code.cases : Enter(Code.cases[i].as, Top.in)
  BY DEF Union
<1>3. Top.err = NoErr /\ Top.node \in Nodes /\ Code.cases[i].as \in Nodes
  <2>1. Code.cases \in Seq([impl : Tags, as : Nodes])
    BY <1>1, Parts
  <2>2. Code.cases[i] \in [impl : Tags, as : Nodes]
    BY <2>1, ElementOfSeq, LenProperties
  <2>3. QED
    BY <1>1, <2>2, TopFrame
<1>4. Muted(Q, Top.node) => Code.cases[i].as \in Q
  <2>1. CASE Top.node \in Q
    BY <1>1, <2>1, Quiet
  <2>2. CASE ErrUnion(prog.code, Top.node)
    BY <1>3, <2>2 DEF Inv, Coded, CasesCannotFail, Code
  <2>3. QED
    BY <2>1, <2>2 DEF Muted
<1>5. Code.kind # "struct"
  BY <1>1
<1>6. QED
  BY <1>1, <1>2, <1>3, <1>4, <1>5, EnterStep DEF Union

(* A union that drops the error has been returned none. *)
LEMMA UnionReturnsKeeps == ASSUME NEW Q, Inv(Q), UnionReturns PROVE Inv(Q)'
<1>1. stack # <<>> /\ Code.kind = "union" /\ NoFault /\ Fixed
  BY DEF UnionReturns, Resuming
<1>2. PICK r \in ret : Return(r.out, IF Code.hasErr THEN ErrWrap(NoErr) ELSE r.err)
  BY DEF UnionReturns
<1>3. CASE ~Code.hasErr
  BY <1>1, <1>2, <1>3, PassOn
<1>4. CASE Code.hasErr
  <2>1. faults = <<>> /\ Top.node \notin Q
    BY <1>1, <1>4, Answer, Quiet DEF Muted, ErrUnion, Code, Carries
  <2>2. NoErr \in Seq(Marks)
    BY DEF NoErr
  <2>3. ErrWrap(NoErr) \in Seq(Marks)
    BY <2>2, WrapKeeps DEF Inv
  <2>4. faults' = <<>> /\ faults' \in Seq(Causes) /\ Len(faults') <= 1
    BY <1>1, <2>1 DEF NoFault
  <2>5. Return(r.out, ErrWrap(NoErr))
    BY <1>2, <1>4
  <2>6. QED
    BY <1>1, <2>1, <2>3, <2>4, <2>5, ReturnStep
<1>5. QED
  BY <1>3, <1>4

LEMMA NoMatchStep ==
  ASSUME NEW Q, Inv(Q), NEW v, NEW e \in Seq(Marks), e # NoErr, e[1] = "nomatch",
         stack # <<>>, ret = {}, Code.kind \in {"union", "enum"}, NoMatch(v, e), Fixed
  PROVE  Inv(Q)'
<1>1. faults = <<>>
  BY TopFrame, NothingFailed
<1>2. CASE Code.hasErr
  <2>1. Top.node \notin Q
    BY <1>2, Quiet
  <2>2. "nomatch" \in Causes
    BY DEF Causes
  <2>3. Return(v, e) /\ Fault("nomatch")
    BY <1>2 DEF NoMatch
  <2>4. QED
    BY <1>1, <2>1, <2>2, <2>3, ReturnFault
<1>3. CASE ~Code.hasErr
  BY <1>1, <1>3, ReturnFine DEF NoMatch
<1>4. QED
  BY <1>2, <1>3

LEMMA NoMatchErr ==
  /\ <<"nomatch", "converting">> \in Seq(Marks)
  /\ <<"nomatch", "converting">> # NoErr
  /\ <<"nomatch", "converting">>[1] = "nomatch"
BY DEF Causes, Marks, NoErr

LEMMA UnionDefaultKeeps == ASSUME NEW Q, Inv(Q), UnionDefault PROVE Inv(Q)'
BY NoMatchErr, NoMatchStep DEF UnionDefault, Running

LEMMA EnumKeeps == ASSUME NEW Q, Inv(Q), Enum PROVE Inv(Q)'
<1>1. stack # <<>> /\ ret = {} /\ Code.kind = "enum"
  BY DEF Enum, Running
<1>2. faults = <<>>
  BY <1>1, TopFrame, NothingFailed
<1>3. QED
  BY <1>1, <1>2, ReturnFine DEF Enum

LEMMA EnumDefaultKeeps == ASSUME NEW Q, Inv(Q), EnumDefault PROVE Inv(Q)'
<1> DEFINE e == ErrWrap(<<"nomatch", "converting">>)
<1>1. e \in Seq(Marks) /\ e # NoErr /\ e[1] = "nomatch"
  BY NoMatchErr, WrapKeeps DEF Inv
<1>2. NoMatch([tag |-> Code.default, kids |-> <<>>], e) /\ stack # <<>> /\ ret = {} /\ Code.kind = "enum" /\ Fixed
  BY DEF EnumDefault, Running
<1> HIDE DEF e
<1>3. QED
  BY <1>1, <1>2, NoMatchStep

-----------------------------------------------------------------------------
LEMMA InitInv ==
  ASSUME Init, NEW Q \in SUBSET Nodes, CannotFail(prog.code, Q), CasesCannotFail(prog.code, Q)
  PROVE  Inv(Q)
<1>1. PICK pg \in Programs : prog = [code |-> pg.code, root |-> pg.root, wraps |-> pg.wraps]
  BY DEF Init
<1>2. prog.code \in [Nodes -> Assigner] /\ prog.root \in Nodes /\ prog.wraps \in Seq(Wrappers)
  BY <1>1, ProgramsAssumption
<1> DEFINE fr == Begin(prog.root, input)
<1>4. stack = <<fr>> /\ ret = {} /\ faults = <<>>
  BY DEF Init
<1>5. IsFrame(fr) /\ fr.err = NoErr
  BY <1>2 DEF IsFrame, Begin, NoErr
<1> HIDE DEF fr
<1>6. Stacked
  <2>1. stack \in Seq({fr}) /\ Len(stack) = 1 /\ stack[1] = fr
    BY <1>4
  <2>2. QED
    BY <1>5, <2>1 DEF Stacked
<1>7. Coded(Q)
  BY <1>2 DEF Coded
<1>8. Answered /\ Faulted
  BY <1>4 DEF Answered, Faulted
<1>9. Leaving(Q) /\ Muting(Q) /\ Waiting
  BY <1>4, <1>5 DEF Leaving, Muting, Waiting
<1>10. QED
  BY <1>6, <1>7, <1>8, <1>9 DEF Inv

LEMMA SomeInv ==
  ASSUME UnionsCannotFail, Init
  PROVE  \E Q \in SUBSET Nodes : Inv(Q)
<1>1. PICK pg \in Programs : prog = [code |-> pg.code, root |-> pg.root, wraps |-> pg.wraps]
  BY DEF Init
<1>2. prog.code = pg.code
  BY <1>1
<1>3. PICK Q \in SUBSET Nodes : CannotFail(prog.code, Q) /\ CasesCannotFail(prog.code, Q)
  BY <1>2 DEF UnionsCannotFail
<1>4. QED
  BY <1>3, InitInv

LEMMA NextInv ==
  ASSUME NEW Q, Inv(Q), [Next]_vars
  PROVE  Inv(Q)'
<1>1. CASE Copy \/ Hand \/ Call \/ CallReturns \/ Pointer \/ PointerReturns
  BY <1>1, CopyKeeps, HandKeeps, CallKeeps, CallReturnsKeeps, PointerKeeps, PointerReturnsKeeps
<1>2. CASE IndexNext \/ IndexAssign \/ IndexEnd \/ KeyNext \/ KeyAssign \/ KeyEnd
  BY <1>2, IndexNextKeeps, IndexAssignKeeps, KeyNextKeeps, KeyAssignKeeps, LoopEndKeeps
<1>3. CASE FieldSkipped \/ GetterFails \/ FieldNext \/ FieldFails \/ SetterFails \/ FieldAssign \/ StructEnd
  BY <1>3, FieldSkippedKeeps, GetterFailsKeeps, FieldNextKeeps, FieldFailsKeeps, SetterFailsKeeps,
     FieldAssignKeeps, StructEndKeeps
<1>4. CASE Union \/ UnionReturns \/ UnionDefault \/ Enum \/ EnumDefault
  BY <1>4, UnionKeeps, UnionReturnsKeeps, UnionDefaultKeeps, EnumKeeps, EnumDefaultKeeps
<1>5. CASE UNCHANGED vars
  BY <1>5 DEF vars, Inv, Coded, Stacked, Answered, Faulted, Carries, Leaving, Muting, Muted, Waiting, Top
<1>6. QED
  BY <1>1, <1>2, <1>3, <1>4, <1>5 DEF Next, Returned

LEMMA AlwaysInv ==
  ASSUME UnionsCannotFail
  PROVE  Spec => [](\E Q \in SUBSET Nodes : Inv(Q))
<1>1. Init => \E Q \in SUBSET Nodes : Inv(Q)
  BY SomeInv
<1>2. (\E Q \in SUBSET Nodes : Inv(Q)) /\ [Next]_vars => (\E Q \in SUBSET Nodes : Inv(Q))'
  BY NextInv
<1>3. QED
  BY <1>1, <1>2, PTL DEF Spec

(* Where no union has an implementation whose conversion can fail, nothing   *)
(* is called after the first failure (the breaks of index.go:65 and          *)
(* key.go:94, 102, and the gotos of struct.go:557).                          *)
THEOREM FirstFaultIsLast ==
  ASSUME UnionsCannotFail
  PROVE  Spec => []FirstFaultStops
<1>1. (\E Q \in SUBSET Nodes : Inv(Q)) => FirstFaultStops
  BY DEF Inv, Faulted, FirstFaultStops
<1>2. QED
  BY <1>1, AlwaysInv, PTL

(* There, too, the first failure is what the outermost caller is told of.    *)
THEOREM FirstFaultIsReported ==
  ASSUME UnionsCannotFail
  PROVE  Spec => []FaultsAreReported
<1>1. (\E Q \in SUBSET Nodes : Inv(Q)) => FaultsAreReported
  BY DEF Inv, Faulted, Carries, FaultsAreReported, Done
<1>2. QED
  BY <1>1, AlwaysInv, PTL

-----------------------------------------------------------------------------
(* Wrapping.  The places of an error that hold a mark of a set: *)
Places(err, W) == {i \in DOMAIN err : err[i] \in W}

Annotating == {"converting", "getter", "setter"}

(* An error that the wrappers have been called on when they should. *)
WrappedBy(wraps, err) ==
  /\ \A i \in Places(err, Annotating) :
       \A k \in 1 .. Len(wraps) : i + k \in DOMAIN err /\ err[i + k] = wraps[k]
  /\ Cardinality(Places(err, Wrappers)) = Len(wraps) * Cardinality(Places(err, Annotating))

Wrapped(err) == WrappedBy(prog.wraps, err)

LEMMA PlacesFinite ==
  ASSUME NEW err \in Seq(Marks), NEW W
  PROVE  IsFiniteSet(Places(err, W)) /\ Cardinality(Places(err, W)) \in Nat
<1>1. IsFiniteSet(1 .. Len(err)) /\ DOMAIN err = 1 .. Len(err)
  BY FS_Interval, LenProperties
<1>2. Places(err, W) \in SUBSET (1 .. Len(err))
  BY <1>1 DEF Places
<1>3. QED
  BY <1>1, <1>2, FS_Subset, FS_CardinalityType

(* An error annotated, and then wrapped: its parts. *)
LEMMA AnnotatedParts ==
  ASSUME prog.wraps \in Seq(Wrappers), NEW e \in Seq(Marks), NEW c \in Marks
  PROVE  \E f :
           /\ f = ErrWrap(Append(e, c))
           /\ f \in Seq(Marks)
           /\ DOMAIN f = 1 .. Len(e) + 1 + Len(prog.wraps)
           /\ \A i \in 1 .. Len(e) : f[i] = e[i]
           /\ f[Len(e) + 1] = c
           /\ \A k \in 1 .. Len(prog.wraps) : f[Len(e) + 1 + k] = prog.wraps[k]
<1>1. PICK f : f = ErrWrap(Append(e, c))
  OBVIOUS
<1> DEFINE w == prog.wraps
           g == Append(e, c)
<1>2. w \in Seq(Marks) /\ Len(w) \in Nat /\ Len(e) \in Nat
  BY LenProperties DEF Marks
<1>3. /\ g \in Seq(Marks) /\ Len(g) = Len(e) + 1 /\ g[Len(e) + 1] = c
      /\ \A i \in 1 .. Len(e) : g[i] = e[i]
  BY <1>2, AppendProperties
<1>4. f = g \o w
  BY <1>1 DEF ErrWrap
<1> HIDE DEF w, g
<1>5. /\ g \o w \in Seq(Marks) /\ Len(g \o w) = Len(g) + Len(w)
      /\ \A i \in 1 .. Len(g) + Len(w) : (g \o w)[i] = IF i <= Len(g) THEN g[i] ELSE w[i - Len(g)]
  BY <1>2, <1>3, ConcatProperties
<1>6. /\ f \in Seq(Marks) /\ Len(f) = Len(g) + Len(w)
       /\ \A i \in 1 .. Len(g) + Len(w) : f[i] = IF i <= Len(g) THEN g[i] ELSE w[i - Len(g)]
  BY <1>4, <1>5
<1>7. DOMAIN f = 1 .. Len(e) + 1 + Len(w)
  BY <1>2, <1>3, <1>6, LenProperties
<1>8. \A i \in 1 .. Len(e) : f[i] = e[i]
  BY <1>2, <1>3, <1>6
<1>9. f[Len(e) + 1] = c
  BY <1>2, <1>3, <1>6
<1>10. ASSUME NEW k \in 1 .. Len(w) PROVE f[Len(e) + 1 + k] = w[k]
  <2>1. Len(e) + 1 + k \in 1 .. Len(g) + Len(w) /\ ~(Len(e) + 1 + k <= Len(g))
        /\ (Len(e) + 1 + k) - Len(g) = k
    BY <1>2, <1>3
  <2>2. QED
    BY <1>6, <2>1
<1>11. QED
  BY <1>6, <1>7, <1>8, <1>9, <1>10, <1>1 DEF w

(* A mark that calls for the wrappers, and the wrappers called. *)
LEMMA AnnotatedWrapped ==
  ASSUME prog.wraps \in Seq(Wrappers), NEW e \in Seq(Marks), Wrapped(e), NEW c \in Annotating
  PROVE  ErrWrap(Append(e, c)) \in Seq(Marks) /\ Wrapped(ErrWrap(Append(e, c)))
<1>1. c \in Marks /\ c \notin Wrappers /\ Annotating \cap Wrappers = {}
  BY WrappersAssumption DEF Annotating, Marks, Causes
<1>2. PICK f : /\ f = ErrWrap(Append(e, c))
               /\ f \in Seq(Marks)
               /\ DOMAIN f = 1 .. Len(e) + 1 + Len(prog.wraps)
               /\ \A i \in 1 .. Len(e) : f[i] = e[i]
               /\ f[Len(e) + 1] = c
               /\ \A k \in 1 .. Len(prog.wraps) : f[Len(e) + 1 + k] = prog.wraps[k]
  BY <1>1, AnnotatedParts
<1> DEFINE n == Len(prog.wraps)
           L == Len(e)
<1>3. n \in Nat /\ L \in Nat /\ DOMAIN e = 1 .. L
      /\ \A k \in 1 .. n : prog.wraps[k] \in Wrappers
  BY LenProperties, ElementOfSeq
<1>4. /\ f \in Seq(Marks)
      /\ DOMAIN f = 1 .. L + 1 + n
      /\ \A i \in 1 .. L : f[i] = e[i]
      /\ f[L + 1] = c
      /\ \A k \in 1 .. n : f[L + 1 + k] = prog.wraps[k]
  BY <1>2
<1>5. \A k \in 1 .. n : e \in Seq(Marks) /\ f[L + 1 + k] \in Wrappers
  BY <1>3, <1>4
<1> DEFINE de == Places(e, Annotating)
           we == Places(e, Wrappers)
<1>6. (\A i \in de : e[i] \in Annotating) /\ (\A i \in we : e[i] \in Wrappers)
      /\ (\A i \in 1 .. L : (e[i] \in Annotating => i \in de) /\ (e[i] \in Wrappers => i \in we))
      /\ de \subseteq 1 .. L /\ we \subseteq 1 .. L
  BY <1>3 DEF Places
<1>7. \A k \in 1 .. n : /\ prog.wraps[k] \in Wrappers
                        /\ \A i \in de : i + k \in DOMAIN e /\ e[i + k] = prog.wraps[k]
  BY <1>3 DEF Wrapped, WrappedBy
<1>8. Cardinality(we) = n * Cardinality(de)
  BY DEF Wrapped, WrappedBy
<1>9. /\ IsFiniteSet(de) /\ Cardinality(de) \in Nat
       /\ IsFiniteSet(we) /\ Cardinality(we) \in Nat
  BY PlacesFinite
<1> HIDE DEF n, L, de, we
<1>10. \A i \in 1 .. L + 1 + n : i \in 1 .. L \/ i = L + 1 \/ \E k \in 1 .. n : i = L + 1 + k
  <2>1. ASSUME NEW i \in 1 .. L + 1 + n, i > L + 1 PROVE i - (L + 1) \in 1 .. n /\ i = L + 1 + (i - (L + 1))
    BY <1>3, <2>1
  <2>2. QED
    BY <1>3, <2>1
<1>11. \A k \in 1 .. n : L + 1 + k \in 1 .. L + 1 + n
  BY <1>3
<1>12. L + 1 \in 1 .. L + 1 + n /\ \A i \in 1 .. L : i \in 1 .. L + 1 + n
  BY <1>3
<1>13. Places(f, Annotating) = de \cup {L + 1}
  <2>1. ASSUME NEW i \in Places(f, Annotating) PROVE i \in de \cup {L + 1}
    <3>1. i \in 1 .. L + 1 + n /\ f[i] \in Annotating
      BY <1>4 DEF Places
    <3>2. ~ \E k \in 1 .. n : i = L + 1 + k
      BY <1>1, <1>5, <3>1
    <3>3. QED
      BY <1>4, <1>6, <1>10, <3>1, <3>2
  <2>2. ASSUME NEW i \in de \cup {L + 1} PROVE i \in Places(f, Annotating)
    BY <1>4, <1>6, <1>12 DEF Places
  <2>3. QED
    BY <2>1, <2>2
<1>14. Places(f, Wrappers) = we \cup (L + 2) .. (L + 1 + n)
  <2>1. ASSUME NEW i \in Places(f, Wrappers) PROVE i \in we \cup (L + 2) .. (L + 1 + n)
    <3>1. i \in 1 .. L + 1 + n /\ f[i] \in Wrappers
      BY <1>4 DEF Places
    <3>2. i # L + 1
      BY <1>1, <1>4, <3>1
    <3>3. CASE i \in 1 .. L
      BY <1>4, <1>6, <3>1, <3>3
    <3>4. CASE i \notin 1 .. L
      BY <1>3, <3>1, <3>2, <3>4
    <3>5. QED
      BY <3>3, <3>4
  <2>2. ASSUME NEW i \in we PROVE i \in Places(f, Wrappers)
    BY <1>4, <1>6, <1>12 DEF Places
  <2>3. ASSUME NEW i \in (L + 2) .. (L + 1 + n) PROVE i \in Places(f, Wrappers)
    <3>1. i - (L + 1) \in 1 .. n /\ i = L + 1 + (i - (L + 1)) /\ i \in 1 .. L + 1 + n
      BY <1>3
    <3>2. f[i] \in Wrappers
      BY <1>5, <3>1
    <3>3. QED
      BY <1>4, <3>1, <3>2 DEF Places
  <2>4. QED
    BY <2>1, <2>2, <2>3
<1>15. L + 1 \notin de /\ we \cap (L + 2) .. (L + 1 + n) = {}
  BY <1>3, <1>6
<1>16. Cardinality(de \cup {L + 1}) = Cardinality(de) + 1
  BY <1>9, <1>15, FS_AddElement
<1>17. /\ IsFiniteSet((L + 2) .. (L + 1 + n))
       /\ Cardinality((L + 2) .. (L + 1 + n)) = n
  BY <1>3, FS_Interval
<1>18. Cardinality(we \cup (L + 2) .. (L + 1 + n)) = Cardinality(we) + n
  <2>1. PICK T : T = (L + 2) .. (L + 1 + n)
    OBVIOUS
  <2>2. Cardinality(we \cup T) = Cardinality(we) + Cardinality(T) - Cardinality(we \cap T)
    BY <1>9, <1>17, <2>1, FS_Union
  <2>3. we \cap T = {} /\ Cardinality(T) = n
    BY <1>15, <1>17, <2>1
  <2>4. Cardinality(we \cap T) = 0
    BY <2>3, FS_EmptySet
  <2>5. QED
    BY <1>3, <1>9, <2>1, <2>2, <2>3, <2>4
<1>19. Cardinality(Places(f, Wrappers)) = n * Cardinality(Places(f, Annotating))
  <2>1. \A a, b \in Nat : a * (b + 1) = a * b + a
    OBVIOUS
  <2>2. QED
    BY <1>3, <1>8, <1>13, <1>14, <1>9, <1>16, <1>18, <2>1
<1>20. ASSUME NEW i \in Places(f, Annotating), NEW k \in 1 .. n
       PROVE  i + k \in DOMAIN f /\ f[i + k] = prog.wraps[k]
  <2>1. CASE i \in de
    <3>1. i + k \in 1 .. L /\ e[i + k] = prog.wraps[k]
      BY <1>3, <1>7, <2>1
    <3>2. QED
      BY <1>4, <1>12, <3>1
  <2>2. CASE i = L + 1
    BY <1>4, <1>11, <2>2
  <2>3. QED
    BY <1>13, <2>1, <2>2
<1>21. QED
  BY <1>2, <1>4, <1>19, <1>20 DEF Wrapped, WrappedBy, n

-----------------------------------------------------------------------------
(* An error there is, of a conversion in which something failed, and wrapped  *)
(* when it should.                                                           *)
Good(err) ==
  /\ err \in Seq(Marks)
  /\ faults = <<>> => err = NoErr
  /\ Wrapped(err)

Wired ==
  /\ prog.code \in [Nodes -> Assigner]
  /\ prog.wraps \in Seq(Wrappers)
  /\ prog.wraps = <<>> \/ \A n \in Nodes : ~ErrUnion(prog.code, n)

Sound ==
  /\ Wired
  /\ \E S : stack \in Seq(S)
  /\ \A k \in 1 .. Len(stack) : IsFrame(stack[k]) /\ Good(stack[k].err)
  /\ \A r \in ret : Good(r.err)
  /\ faults \in Seq(Causes)

LEMMA NoErrWrapped ==
  ASSUME prog.wraps \in Seq(Wrappers)
  PROVE  NoErr \in Seq(Marks) /\ Wrapped(NoErr)
<1>1. NoErr \in Seq(Marks) /\ \A W : Places(NoErr, W) = {}
  BY DEF NoErr, Places
<1>2. Cardinality({}) = 0 /\ Len(prog.wraps) * 0 = 0
  BY LenProperties, FS_EmptySet
<1>3. QED
  BY <1>1, <1>2 DEF Wrapped, WrappedBy

(* What is neither annotated nor wrapped yet. *)
LEMMA CauseWrapped ==
  ASSUME prog.wraps \in Seq(Wrappers), NEW c \in {"hand", "nomatch"}
  PROVE  <<c>> \in Seq(Marks) /\ Wrapped(<<c>>)
<1>1. c \in Marks /\ c \notin Wrappers /\ c \notin Annotating
  BY WrappersAssumption DEF Marks, Causes, Annotating
<1>2. <<c>> \in Seq(Marks) /\ Places(<<c>>, Annotating) = {} /\ Places(<<c>>, Wrappers) = {}
  BY <1>1 DEF Places
<1>3. Cardinality({}) = 0 /\ Len(prog.wraps) * 0 = 0
  BY LenProperties, FS_EmptySet
<1>4. QED
  BY <1>1, <1>2, <1>3 DEF Wrapped, WrappedBy

(* The error of a getter or a setter. *)
LEMMA AccessorWrapped ==
  ASSUME prog.wraps \in Seq(Wrappers), NEW c \in {"getter", "setter"}
  PROVE  ErrWrap(<<c>>) \in Seq(Marks) /\ Wrapped(ErrWrap(<<c>>))
<1>1. c \in Annotating /\ <<c>> = Append(NoErr, c)
  BY DEF Annotating, NoErr
<1>2. QED
  BY <1>1, NoErrWrapped, AnnotatedWrapped

(* The error of an enum, and of a union without wrappers. *)
LEMMA NoMatchWrapped ==
  ASSUME prog.wraps \in Seq(Wrappers)
  PROVE  /\ ErrWrap(<<"nomatch", "converting">>) \in Seq(Marks)
         /\ Wrapped(ErrWrap(<<"nomatch", "converting">>))
<1>1. "converting" \in Annotating /\ "nomatch" \in {"hand", "nomatch"}
  BY DEF Annotating
<1>2. <<"nomatch", "converting">> = Append(<<"nomatch">>, "converting")
  OBVIOUS
<1>3. <<"nomatch">> \in Seq(Marks) /\ Wrapped(<<"nomatch">>)
  BY <1>1, CauseWrapped
<1>4. QED
  BY <1>1, <1>2, <1>3, AnnotatedWrapped

LEMMA NothingToWrap ==
  ASSUME prog.wraps = <<>>, NEW e \in Seq(Marks)
  PROVE  ErrWrap(e) = e
BY ConcatEmptySeq DEF ErrWrap

LEMMA TopSound ==
  ASSUME Sound, stack # <<>>
  PROVE  /\ Len(stack) \in Nat /\ Len(stack) >= 1 /\ Len(stack) \in 1 .. Len(stack)
         /\ IsFrame(Top) /\ Good(Top.err)
         /\ Code \in Assigner
<1>1. PICK S : stack \in Seq(S)
  BY DEF Sound
<1>2. Len(stack) \in Nat /\ Len(stack) >= 1
  BY <1>1
<1>3. IsFrame(Top) /\ Good(Top.err)
  BY <1>2 DEF Sound, Top
<1>4. QED
  BY <1>2, <1>3 DEF Sound, Wired, Code, IsFrame

(* What has failed before has failed. *)
LEMMA FaultsStay ==
  ASSUME faults \in Seq(Causes), NoFault \/ \E c \in Causes : Fault(c)
  PROVE  faults' \in Seq(Causes) /\ (faults' = <<>> => faults = <<>>)
BY AppendProperties DEF NoFault, Fault

(* The three kinds of steps. *)
LEMMA SoundEnter ==
  ASSUME Sound, stack # <<>>, NEW n \in Nodes, NEW v, Enter(n, v), NoFault, Fixed
  PROVE  Sound'
<1> DEFINE fr == Begin(n, v)
<1>1. PICK S : stack \in Seq(S)
  BY DEF Sound
<1>2. stack' = Append(stack, fr) /\ ret' = {} /\ faults' = faults /\ prog' = prog
  BY DEF Enter, NoFault, Fixed
<1>3. IsFrame(fr) /\ fr.err = NoErr
  BY DEF IsFrame, Begin, NoErr
<1> HIDE DEF fr
<1>4. /\ stack' \in Seq(S \cup {fr})
      /\ Len(stack') = Len(stack) + 1
      /\ stack'[Len(stack) + 1] = fr
      /\ \A k \in 1 .. Len(stack) : stack'[k] = stack[k]
  BY <1>1, <1>2, Push
<1>5. Good(NoErr)
  BY NoErrWrapped DEF Good, Sound, Wired
<1>6. ASSUME NEW k \in 1 .. Len(stack') PROVE IsFrame(stack'[k]) /\ Good(stack'[k].err)
  <2>1. CASE k \in 1 .. Len(stack)
    BY <1>4, <2>1 DEF Sound
  <2>2. CASE k = Len(stack) + 1
    BY <1>3, <1>4, <1>5, <2>2
  <2>3. QED
    BY <1>4, TopSound, <2>1, <2>2
<1>7. (\A k \in 1 .. Len(stack) : IsFrame(stack[k]) /\ Good(stack[k].err))'
  BY <1>2, <1>6 DEF IsFrame, Good, Wrapped, NoErr
<1>8. QED
  BY <1>2, <1>4, <1>7 DEF Sound, Wired

LEMMA SoundContinue ==
  ASSUME Sound, stack # <<>>, NEW fr, IsFrame(fr), Continue(fr), Fixed,
         NoFault \/ \E c \in Causes : Fault(c),
         faults' = <<>> => fr.err = NoErr, Wrapped(fr.err)
  PROVE  Sound'
<1>1. PICK S : stack \in Seq(S)
  BY DEF Sound
<1>2. stack' = [stack EXCEPT ![Len(stack)] = fr] /\ ret' = {} /\ prog' = prog
  BY DEF Continue, Fixed
<1>3. /\ stack' \in Seq(S \cup {fr})
      /\ Len(stack') = Len(stack)
      /\ stack'[Len(stack)] = fr
      /\ \A k \in 1 .. Len(stack) - 1 : stack'[k] = stack[k]
  BY <1>1, <1>2, Replace
<1>4. faults' \in Seq(Causes) /\ (faults' = <<>> => faults = <<>>)
  BY FaultsStay DEF Sound
<1>5. ASSUME NEW k \in 1 .. Len(stack')
      PROVE  /\ IsFrame(stack'[k]) /\ Wrapped(stack'[k].err)
             /\ faults' = <<>> => stack'[k].err = NoErr
  <2>1. CASE k \in 1 .. Len(stack) - 1
    BY <1>3, <1>4, <2>1, TopSound DEF Sound, Good
  <2>2. CASE k = Len(stack)
    BY <1>3, <2>2
  <2>3. QED
    BY <1>3, TopSound, <2>1, <2>2
<1>6. (\A k \in 1 .. Len(stack) : IsFrame(stack[k]) /\ Good(stack[k].err))'
  BY <1>2, <1>5 DEF IsFrame, Good, Wrapped, NoErr
<1>7. QED
  BY <1>2, <1>3, <1>4, <1>6 DEF Sound, Wired

LEMMA SoundReturn ==
  ASSUME Sound, stack # <<>>, NEW v, NEW e \in Seq(Marks), Return(v, e), Fixed,
         NoFault \/ \E c \in Causes : Fault(c),
         faults' = <<>> => e = NoErr, Wrapped(e)
  PROVE  Sound'
<1>1. PICK S : stack \in Seq(S)
  BY DEF Sound
<1>2. stack' = Pop(stack) /\ ret' = {[out |-> v, err |-> e]} /\ prog' = prog
  BY DEF Return, Fixed
<1>3. /\ stack' \in Seq(S)
      /\ Len(stack') = Len(stack) - 1
      /\ \A k \in 1 .. Len(stack) - 1 : stack'[k] = stack[k]
  BY <1>1, <1>2, PopTop
<1>4. faults' \in Seq(Causes) /\ (faults' = <<>> => faults = <<>>)
  BY FaultsStay DEF Sound
<1>5. ASSUME NEW k \in 1 .. Len(stack')
      PROVE  /\ IsFrame(stack'[k]) /\ Wrapped(stack'[k].err)
             /\ faults' = <<>> => stack'[k].err = NoErr
  BY <1>3, <1>4, TopSound DEF Sound, Good
<1>6. (\A k \in 1 .. Len(stack) : IsFrame(stack[k]) /\ Good(stack[k].err))'
  BY <1>2, <1>5 DEF IsFrame, Good, Wrapped, NoErr
<1>7. (\A r \in ret : Good(r.err))'
  <2>1. \A r \in ret' : r.err = e
    BY <1>2
  <2>2. QED
    BY <1>2, <2>1 DEF Good, Wrapped, NoErr
<1>8. QED
  BY <1>2, <1>3, <1>4, <1>6, <1>7 DEF Sound, Wired

(* With nothing failing now. *)
LEMMA SoundGoesOn ==
  ASSUME Sound, stack # <<>>, NEW fr, IsFrame(fr), Good(fr.err), Continue(fr), NoFault, Fixed
  PROVE  Sound'
<1>1. faults' = <<>> => fr.err = NoErr
  BY DEF Good, NoFault
<1>2. Wrapped(fr.err)
  BY DEF Good
<1>3. QED
  BY <1>1, <1>2, SoundContinue

LEMMA SoundEnds ==
  ASSUME Sound, stack # <<>>, NEW v, NEW e, Good(e), Return(v, e), NoFault, Fixed
  PROVE  Sound'
<1>1. e \in Seq(Marks) /\ Wrapped(e) /\ (faults' = <<>> => e = NoErr)
  BY DEF Good, NoFault
<1>2. QED
  BY <1>1, SoundReturn

LEMMA GoodNoErr == ASSUME Sound PROVE Good(NoErr)
BY NoErrWrapped DEF Sound, Wired, Good

(* With something failing now. *)
LEMMA SomethingFailed ==
  ASSUME Sound, NEW c \in Causes, Fault(c)
  PROVE  faults' # <<>>
BY AppendProperties DEF Sound, Fault

LEMMA SoundFails ==
  ASSUME Sound, stack # <<>>, NEW c \in Causes, NEW v, NEW e \in Seq(Marks), Wrapped(e),
         Return(v, e), Fault(c), Fixed
  PROVE  Sound'
<1>1. faults' # <<>>
  BY SomethingFailed
<1>2. QED
  BY <1>1, SoundReturn

LEMMA SoundGoto ==
  ASSUME Sound, stack # <<>>, NEW c \in {"getter", "setter"}, Goto(ErrWrap(<<c>>)), Fault(c), Fixed
  PROVE  Sound'
<1>1. PICK e : e = ErrWrap(<<c>>) /\ e \in Seq(Marks) /\ Wrapped(e)
  BY AccessorWrapped DEF Sound, Wired
<1>2. c \in Causes
  BY DEF Causes
<1> DEFINE fr == [Top EXCEPT !.err = e]
<1>3. IsFrame(fr) /\ fr.err = e
  BY <1>1, TopSound DEF IsFrame
<1>4. Continue(fr)
  BY <1>1 DEF Goto
<1> HIDE DEF fr
<1>5. faults' # <<>>
  BY <1>2, SomethingFailed
<1>6. QED
  BY <1>1, <1>2, <1>3, <1>4, <1>5, SoundContinue

(* What an action goes on with is a frame. *)
LEMMA SoundParts ==
  ASSUME Sound, stack # <<>>
  PROVE  /\ Code.kind = "call" => Code.to \in Nodes
         /\ Code.kind \in {"pointer", "index", "key"} => Code.elem \in Nodes
         /\ Code.kind = "key" => Code.key \in Nodes
         /\ Code.kind = "struct" => Code.fields \in Seq(Member)
         /\ Code.kind = "union" => \A i \in DOMAIN Code.cases : Code.cases[i].as \in Nodes
<1>1. Code \in Assigner
  BY TopSound
<1>2. Code.kind = "union" => Code.cases \in Seq([impl : Tags, as : Nodes])
  BY <1>1 DEF Assigner
<1>3. Code.kind = "union" => \A i \in DOMAIN Code.cases : Code.cases[i] \in [impl : Tags, as : Nodes]
  BY <1>2, ElementOfSeq, LenProperties
<1>4. QED
  BY <1>1, <1>3 DEF Assigner

LEMMA SoundSimple ==
  ASSUME Sound, Copy \/ Hand \/ Call \/ Pointer \/ PointerReturns
  PROVE  Sound'
<1>1. CASE Copy
  BY <1>1, GoodNoErr, SoundEnds DEF Copy, Running
<1>2. CASE Hand
  <2>1. stack # <<>> /\ Fixed
    BY <1>2 DEF Hand, Running
  <2>2. CASE Return(Top.in, NoErr) /\ NoFault
    BY <2>1, <2>2, GoodNoErr, SoundEnds
  <2>3. CASE Return(Zero, <<"hand">>) /\ Fault("hand")
    <3>1. "hand" \in Causes /\ <<"hand">> \in Seq(Marks) /\ Wrapped(<<"hand">>)
      BY CauseWrapped DEF Causes, Sound, Wired
    <3>2. QED
      BY <2>1, <2>3, <3>1, SoundFails
  <2>4. QED
    BY <1>2, <2>2, <2>3 DEF Hand
<1>3. CASE Call
  BY <1>3, SoundParts, SoundEnter DEF Call, Running
<1>4. CASE Pointer
  <2>1. stack # <<>> /\ Code.kind = "pointer" /\ NoFault /\ Fixed /\ Code.elem \in Nodes
    BY <1>4, SoundParts DEF Pointer, Running
  <2>2. CASE Return(Zero, NoErr)
    BY <2>1, <2>2, GoodNoErr, SoundEnds
  <2>3. CASE \E v : Enter(Code.elem, v)
    BY <2>1, <2>3, SoundEnter
  <2>4. QED
    BY <1>4, <2>2, <2>3 DEF Pointer
<1>5. CASE PointerReturns
  <2>1. PICK r \in ret : \E v : Return(v, r.err)
    BY <1>5 DEF PointerReturns
  <2>2. Good(r.err)
    BY DEF Sound
  <2>3. QED
    BY <1>5, <2>1, <2>2, SoundEnds DEF PointerReturns, Resuming
<1>6. QED
  BY <1>1, <1>2, <1>3, <1>4, <1>5

LEMMA SoundCallReturns == ASSUME Sound, CallReturns PROVE Sound'
<1>1. stack # <<>> /\ NoFault /\ Fixed /\ prog.wraps \in Seq(Wrappers)
  BY DEF CallReturns, Resuming, Sound, Wired
<1>2. PICK r \in ret :
        Return(r.out, IF r.err = NoErr THEN NoErr ELSE ErrWrap(Append(r.err, "converting")))
  BY DEF CallReturns
<1>3. Good(r.err)
  BY DEF Sound
<1>4. CASE r.err = NoErr
  BY <1>1, <1>2, <1>4, GoodNoErr, SoundEnds
<1>5. CASE r.err # NoErr
  <2>1. r.err \in Seq(Marks) /\ Wrapped(r.err) /\ "converting" \in Annotating
    BY <1>3 DEF Good, Annotating
  <2>2. PICK e : /\ e = ErrWrap(Append(r.err, "converting"))
                 /\ e \in Seq(Marks) /\ Wrapped(e)
    BY <1>1, <2>1, AnnotatedWrapped
  <2>3. faults # <<>>
    BY <1>3, <1>5 DEF Good
  <2>4. Good(e)
    BY <2>2, <2>3 DEF Good
  <2>5. QED
    BY <1>1, <1>2, <1>5, <2>2, <2>4, SoundEnds
<1>6. QED
  BY <1>4, <1>5

LEMMA SoundKeyAssign == ASSUME Sound, KeyAssign PROVE Sound'
<1>1. stack # <<>> /\ NoFault /\ Fixed /\ IsFrame(Top)
  BY TopSound DEF KeyAssign, Resuming
<1> DEFINE fr(r) == [Top EXCEPT
         !.out = IF Top.at % 2 = 0 THEN MadeWith(Key(r.out)) ELSE Elem(@, r.out),
         !.at  = @ + 1,
         !.err = r.err,
         !.in  = IF r.err # NoErr THEN Zero ELSE @]
<1>2. PICK r \in ret : Continue(fr(r))
  BY Zenon DEF KeyAssign
<1>3. Good(r.err)
  BY DEF Sound
<1>4. IsFrame(fr(r)) /\ fr(r).err = r.err
  BY <1>1, <1>3 DEF IsFrame, Good
<1> HIDE DEF fr
<1>5. QED
  BY <1>1, <1>2, <1>3, <1>4, SoundGoesOn

LEMMA SoundLoops ==
  ASSUME Sound, IndexNext \/ IndexAssign \/ IndexEnd \/ KeyNext \/ KeyAssign \/ KeyEnd
  PROVE  Sound'
<1>1. CASE IndexNext
  BY <1>1, SoundParts, SoundEnter DEF IndexNext, Running
<1>2. CASE KeyNext
  <2>1. stack # <<>> /\ Code.kind = "key" /\ NoFault /\ Fixed
    BY <1>2 DEF KeyNext, Running
  <2>2. \/ \E v : Enter(Code.key, v)
        \/ \E v : Enter(Code.elem, v)
    BY <1>2 DEF KeyNext
  <2>3. QED
    BY <2>1, <2>2, SoundParts, SoundEnter
<1>3. CASE IndexEnd \/ KeyEnd
  BY <1>3, TopSound, SoundEnds DEF IndexEnd, KeyEnd, Running
<1>4. CASE IndexAssign
  <2>1. PICK r \in ret : Assign(r)
    BY <1>4 DEF IndexAssign
  <2>2. stack # <<>> /\ NoFault /\ Fixed /\ Good(r.err) /\ IsFrame(Top)
    BY <1>4, TopSound DEF IndexAssign, Resuming, Sound
  <2> DEFINE fr == [Top EXCEPT !.out = MadeWith(r.out), !.at = @ + 1, !.err = r.err,
                               !.in = IF r.err # NoErr /\ Code.isSliceY THEN Zero ELSE @]
  <2>3. IsFrame(fr) /\ fr.err = r.err
    BY <2>2 DEF IsFrame, Good
  <2>4. Continue(fr)
    BY <2>1 DEF Assign
  <2> HIDE DEF fr
  <2>5. QED
    BY <2>2, <2>3, <2>4, SoundGoesOn
<1>5. CASE KeyAssign
  BY <1>5, SoundKeyAssign
<1>6. QED
  BY <1>1, <1>2, <1>3, <1>4, <1>5

LEMMA SoundFieldNext == ASSUME Sound, FieldNext PROVE Sound'
<1>1. /\ stack # <<>> /\ NoFault /\ Fixed
      /\ Code.kind = "struct" /\ Top.at < Len(Code.fields)
  BY DEF FieldNext, FieldDue, Running, Size, Code
<1>2. Top.at \in Nat /\ Code.fields \in Seq(Member)
  BY <1>1, TopSound, SoundParts DEF IsFrame
<1>3. Top.at + 1 \in 1 .. Len(Code.fields)
  BY <1>1, <1>2, LenProperties
<1>4. Field \in Member
  BY <1>2, <1>3, ElementOfSeq DEF Field
<1>5. Field.as \in Nodes
  BY <1>4 DEF Member
<1>6. QED
  BY <1>1, <1>5, SoundEnter DEF FieldNext

LEMMA SoundStructs ==
  ASSUME Sound, FieldSkipped \/ GetterFails \/ FieldFails \/ SetterFails \/ FieldAssign \/ StructEnd
  PROVE  Sound'
<1>1. CASE FieldSkipped
  <2>1. stack # <<>> /\ NoFault /\ Fixed
    BY <1>1 DEF FieldSkipped, FieldDue, Running
  <2> DEFINE fr == [Top EXCEPT !.out = MadeWith(Zero), !.at = @ + 1]
  <2>2. IsFrame(fr) /\ fr.err = Top.err /\ Good(Top.err)
    BY <2>1, TopSound DEF IsFrame
  <2>3. Continue(fr)
    BY <1>1 DEF FieldSkipped
  <2> HIDE DEF fr
  <2>4. QED
    BY <2>1, <2>2, <2>3, SoundGoesOn
<1>2. CASE FieldAssign
  <2>1. stack # <<>> /\ NoFault /\ Fixed
    BY <1>2 DEF FieldAssign, Resuming
  <2> DEFINE fr(r) == [Top EXCEPT !.out = MadeWith(r.out), !.at = @ + 1]
  <2>2. PICK r \in ret : Continue(fr(r))
    BY <1>2, Zenon DEF FieldAssign
  <2>3. IsFrame(fr(r)) /\ fr(r).err = Top.err /\ Good(Top.err)
    BY <2>1, TopSound DEF IsFrame
  <2> HIDE DEF fr
  <2>4. QED
    BY <2>1, <2>2, <2>3, SoundGoesOn
<1>3. CASE GetterFails
  BY <1>3, SoundGoto DEF GetterFails, FieldDue, Running
<1>4. CASE SetterFails
  BY <1>4, SoundGoto DEF SetterFails, Resuming
<1>5. CASE FieldFails
  <2>1. PICK r \in ret : Goto(r.err)
    BY <1>5 DEF FieldFails
  <2>2. stack # <<>> /\ NoFault /\ Fixed /\ IsFrame(Top) /\ Good(r.err)
    BY <1>5, TopSound DEF FieldFails, Resuming, Sound
  <2> DEFINE fr == [Top EXCEPT !.err = r.err]
  <2>3. IsFrame(fr) /\ fr.err = r.err
    BY <2>2 DEF IsFrame, Good
  <2>4. Continue(fr)
    BY <2>1 DEF Goto
  <2> HIDE DEF fr
  <2>5. QED
    BY <2>2, <2>3, <2>4, SoundGoesOn
<1>6. CASE StructEnd
  BY <1>6, TopSound, SoundEnds DEF StructEnd, Running
<1>7. QED
  BY <1>1, <1>3, <1>4, <1>5, <1>6, <1>2

(* A union that returns an error is without wrappers. *)
LEMMA SoundUnion == ASSUME Sound, Union \/ UnionReturns \/ UnionDefault PROVE Sound'
<1>1. /\ stack # <<>> /\ Code.kind = "union" /\ Fixed
      /\ Code.hasErr => prog.wraps = <<>>
  BY TopSound DEF Union, UnionReturns, UnionDefault, Running, Resuming, Sound, Wired, ErrUnion,
                  IsFrame, Code
<1>2. CASE Union
  <2>1. PICK i \in DOMAIN Code.cases : Enter(Code.cases[i].as, Top.in)
    BY <1>2 DEF Union
  <2>2. Code.cases[i].as \in Nodes
    BY <1>1, SoundParts
  <2>3. QED
    BY <1>1, <1>2, <2>1, <2>2, SoundEnter DEF Union
<1>3. CASE UnionReturns
  <2>1. PICK r \in ret : Return(r.out, IF Code.hasErr THEN ErrWrap(NoErr) ELSE r.err)
    BY <1>3 DEF UnionReturns
  <2>2. Good(r.err)
    BY DEF Sound
  <2>3. CASE Code.hasErr
    BY <1>1, <1>3, <2>1, <2>3, GoodNoErr, NothingToWrap, SoundEnds DEF UnionReturns, Good
  <2>4. CASE ~Code.hasErr
    BY <1>1, <1>3, <2>1, <2>2, <2>4, SoundEnds DEF UnionReturns
  <2>5. QED
    BY <2>3, <2>4
<1>4. CASE UnionDefault
  <2>1. CASE Code.hasErr
    <3>1. PICK e : e = <<"nomatch", "converting">> /\ e \in Seq(Marks)
      BY NoMatchErr
    <3>2. Wrapped(e)
      BY <1>1, <2>1, <3>1, NoMatchWrapped, NothingToWrap DEF Sound, Wired
    <3>3. Return(Zero, e) /\ Fault("nomatch") /\ "nomatch" \in Causes
      BY <1>4, <2>1, <3>1 DEF UnionDefault, NoMatch, Causes
    <3>4. QED
      BY <1>1, <3>1, <3>2, <3>3, SoundFails
  <2>2. CASE ~Code.hasErr
    BY <1>1, <1>4, <2>2, GoodNoErr, SoundEnds DEF UnionDefault, NoMatch
  <2>3. QED
    BY <2>1, <2>2
<1>5. QED
  BY <1>2, <1>3, <1>4

LEMMA SoundEnum == ASSUME Sound, Enum \/ EnumDefault PROVE Sound'
<1>1. stack # <<>> /\ Fixed
  BY DEF Enum, EnumDefault, Running
<1>2. CASE Enum
  BY <1>1, <1>2, GoodNoErr, SoundEnds DEF Enum
<1>3. CASE EnumDefault
  <2>1. PICK e, v : /\ e = ErrWrap(<<"nomatch", "converting">>)
                    /\ NoMatch(v, e)
    BY <1>3 DEF EnumDefault
  <2>2. CASE Return(v, e) /\ Fault("nomatch")
    <3>1. e \in Seq(Marks) /\ Wrapped(e) /\ "nomatch" \in Causes
      BY <2>1, NoMatchWrapped DEF Sound, Wired, Causes
    <3>2. QED
      BY <1>1, <2>2, <3>1, SoundFails
  <2>3. CASE Return(v, NoErr) /\ NoFault
    BY <1>1, <2>3, GoodNoErr, SoundEnds
  <2>4. QED
    BY <2>1, <2>2, <2>3 DEF NoMatch
<1>4. QED
  BY <1>2, <1>3

LEMMA InitSound ==
  ASSUME UnionsUnwrapped, Init
  PROVE  Sound
<1>1. PICK pg \in Programs : prog = [code |-> pg.code, root |-> pg.root, wraps |-> pg.wraps]
  BY DEF Init
<1>2. /\ prog.code = pg.code /\ prog.wraps = pg.wraps
      /\ prog.code \in [Nodes -> Assigner] /\ prog.root \in Nodes /\ prog.wraps \in Seq(Wrappers)
  BY <1>1, ProgramsAssumption
<1>3. Wired
  BY <1>2 DEF Wired, UnionsUnwrapped
<1> DEFINE fr == Begin(prog.root, input)
<1>4. stack = <<fr>> /\ ret = {} /\ faults = <<>>
  BY DEF Init
<1>5. IsFrame(fr) /\ fr.err = NoErr
  BY <1>2 DEF IsFrame, Begin, NoErr
<1> HIDE DEF fr
<1>6. Good(NoErr)
  BY <1>2, NoErrWrapped DEF Good
<1>7. stack \in Seq({fr}) /\ Len(stack) = 1 /\ stack[1] = fr
  BY <1>4
<1>8. \A k \in 1 .. Len(stack) : IsFrame(stack[k]) /\ Good(stack[k].err)
  BY <1>5, <1>6, <1>7
<1>9. \A r \in ret : Good(r.err)
  BY <1>4
<1>10. \E S : stack \in Seq(S)
  BY <1>7, Zenon
<1>11. faults \in Seq(Causes)
  BY <1>4
<1>12. QED
  BY <1>3, <1>8, <1>9, <1>10, <1>11 DEF Sound

LEMMA AlwaysSound ==
  ASSUME UnionsUnwrapped
  PROVE  Spec => []Sound
<1>1. Init => Sound
  BY InitSound
<1>2. Sound /\ [Next]_vars => Sound'
  <2> SUFFICES ASSUME Sound, [Next]_vars PROVE Sound'
    OBVIOUS
  <2>1. CASE UNCHANGED vars
    BY <2>1 DEF vars, Sound, Wired, Good, Wrapped, WrappedBy, ErrUnion, IsFrame
  <2>2. QED
    BY <2>1, SoundSimple, SoundCallReturns, SoundLoops, SoundFieldNext, SoundStructs, SoundUnion,
       SoundEnum DEF Next, Returned
<1>3. QED
  BY <1>1, <1>2, PTL DEF Spec

(* Where no union that returns an error is compiled with wrappers, a         *)
(* conversion in which nothing failed returns no error: an error comes from  *)
(* a function, getter or setter that failed, or from a value without a       *)
(* match, and wrappers are called on errors only (errwrap.go, func.go,       *)
(* struct.go:557).                                                           *)
THEOREM NoErrorWithoutAFault ==
  ASSUME UnionsUnwrapped
  PROVE  Spec => []ErrorsAreReal
<1>1. Sound => ErrorsAreReal
  BY DEF Sound, Good, ErrorsAreReal
<1>2. QED
  BY <1>1, AlwaysSound, PTL

(* There, too, every error held anywhere has been given to each wrapper once *)
(* for each time it was annotated, in the order of registration, whatever    *)
(* the depth of the conversion that it comes from.                           *)
THEOREM WrappersAreCalledInOrder ==
  ASSUME UnionsUnwrapped
  PROVE  Spec => []WrappersInOrder
<1>1. Sound => WrappersInOrder
  <2>1. ASSUME Sound, NEW err \in Errors PROVE Wrapped(err)
    <3>1. CASE \E k \in DOMAIN stack : err = stack[k].err
      BY <2>1, <3>1, LenProperties DEF Sound, Good
    <3>2. CASE \E r \in ret : err = r.err
      BY <2>1, <3>2 DEF Sound, Good
    <3>3. QED
      BY <2>1, <3>1, <3>2 DEF Errors
  <2>2. QED
    BY <2>1 DEF WrappersInOrder, Wrapped, WrappedBy, Places, Annotating
<1>2. QED
  BY <1>1, AlwaysSound, PTL

-----------------------------------------------------------------------------
(* Types.  Code without an error is run on a value of its type, that is one  *)
(* that its conversion is defined for, and does not go past its parts.       *)
Convertible(code, n, v) == <<n, v>> \in DOMAIN Conversions[code]

Looping(code, n) == code[n].kind \in {"index", "key", "struct"}

SizeIn(code, f) ==
  LET c == code[f.node]
  IN  IF c.kind = "index" THEN Len(f.in.kids)
      ELSE IF c.kind = "key" THEN 2 * Len(f.in.kids)
      ELSE IF c.kind = "struct" THEN Len(c.fields) ELSE 0

Fitting(code, f) ==
  IF f.err = NoErr THEN Convertible(code, f.node, f.in) /\ f.at <= SizeIn(code, f)
                   ELSE Looping(code, f.node)

(* Code that waits for inner code has a part left. *)
Pending(code, f) == f.err = NoErr /\ (Looping(code, f.node) => f.at < SizeIn(code, f))

Wholesome(pg) ==
  /\ pg.code \in [Nodes -> Assigner] /\ pg.wraps \in Seq(Wrappers)
  /\ IsConversion(pg.code, Conversions[pg.code])

Typed ==
  /\ Wholesome(prog)
  /\ Stacked /\ Answered
  /\ faults \in Seq(Causes)
  /\ \A k \in 1 .. Len(stack) : Fitting(prog.code, stack[k])
  /\ \A k \in 1 .. Len(stack) : k < Len(stack) \/ ret # {} => Pending(prog.code, stack[k])

LEMMA ConversionConverts ==
  ASSUME NEW pg, Wholesome(pg), NEW n, NEW v, Convertible(pg.code, n, v)
  PROVE  Converts(pg.code[n], Conversions[pg.code], n, v)
<1>1. PICK a : a = <<n, v>>
  OBVIOUS
<1>2. a \in DOMAIN Conversions[pg.code] /\ a[1] = n /\ a[2] = v
  BY <1>1 DEF Convertible
<1>. QED
  BY <1>2 DEF Wholesome, IsConversion

LEMMA SizeIs ==
  ASSUME NEW pg, Wholesome(pg), NEW f, f.node \in Nodes, Convertible(pg.code, f.node, f.in)
  PROVE  /\ SizeIn(pg.code, f) \in Nat
         /\ pg.code[f.node].kind \in {"index", "key"} => Len(f.in.kids) \in Nat
<1>1. PICK c, v, n : c = pg.code[f.node] /\ v = f.in /\ n = f.node
  OBVIOUS
<1>2. Converts(c, Conversions[pg.code], n, v)
  BY <1>1, ConversionConverts
<1>3. c.kind \in {"index", "key"} => Len(v.kids) \in Nat
  BY <1>2 DEF Converts, IndexConverts, KeyConverts
<1>4. c \in Assigner
  BY <1>1 DEF Wholesome
<1>5. c.kind = "struct" => Len(c.fields) \in Nat
  BY <1>4, LenProperties DEF Assigner
<1>. QED
  BY <1>1, <1>3, <1>5 DEF SizeIn

LEMMA SizeHere ==
  ASSUME NEW f
  PROVE  Size(f) = SizeIn(prog.code, f)
<1>1. PICK c : c = prog.code[f.node]
  OBVIOUS
<1>2. CASE c.kind = "index"
  BY <1>1, <1>2 DEF Size, SizeIn
<1>3. CASE c.kind = "key"
  BY <1>1, <1>3 DEF Size, SizeIn
<1>4. CASE c.kind = "struct"
  BY <1>1, <1>4 DEF Size, SizeIn
<1>5. CASE c.kind \notin {"index", "key", "struct"}
  BY <1>1, <1>5 DEF Size, SizeIn
<1>. QED
  BY <1>2, <1>3, <1>4, <1>5

(* The frame on top. *)
LEMMA TopFits ==
  ASSUME Typed, stack # <<>>
  PROVE  /\ Len(stack) \in Nat /\ Len(stack) >= 1 /\ Len(stack) \in 1 .. Len(stack)
         /\ IsFrame(Top) /\ Fitting(prog.code, Top) /\ Code \in Assigner
         /\ ret # {} => Pending(prog.code, Top)
         /\ Code = prog.code[Top.node]
<1>1. PICK S : stack \in Seq(S)
  BY DEF Typed, Stacked
<1>2. Len(stack) \in Nat /\ Len(stack) >= 1 /\ Len(stack) \in 1 .. Len(stack)
  BY <1>1
<1>3. IsFrame(Top) /\ Fitting(prog.code, Top) /\ (ret # {} => Pending(prog.code, Top))
  BY <1>2 DEF Typed, Stacked, Top
<1>. QED
  BY <1>2, <1>3 DEF Typed, Wholesome, Code, IsFrame

LEMMA Answering ==
  ASSUME Answered, NEW r \in ret
  PROVE  ret = {r} /\ r.err \in Seq(Marks)
<1>1. PICK v : \E e \in Seq(Marks) : ret = {[out |-> v, err |-> e]}
  BY DEF Answered
<1>2. PICK e \in Seq(Marks) : ret = {[out |-> v, err |-> e]}
  BY <1>1
<1>. QED
  BY <1>2

-----------------------------------------------------------------------------
(* The three kinds of steps. *)
LEMMA TypedEnter ==
  ASSUME Typed, stack # <<>>, Pending(prog.code, Top),
         NEW n \in Nodes, NEW v, Convertible(prog.code, n, v),
         Enter(n, v), NoFault, Fixed
  PROVE  Typed'
<1>1. PICK S : stack \in Seq(S)
  BY DEF Typed, Stacked
<1>2. PICK f, code : f = Begin(n, v) /\ code = prog.code
  OBVIOUS
<1>3. stack' = Append(stack, f) /\ ret' = {} /\ faults' = faults /\ prog' = prog
  BY <1>2 DEF Enter, NoFault, Fixed
<1>4. IsFrame(f) /\ f.err = NoErr /\ f.node = n /\ f.in = v /\ f.at = 0
  BY <1>2 DEF IsFrame, Begin, NoErr
<1>5. /\ stack' \in Seq(S \cup {f})
      /\ Len(stack') = Len(stack) + 1
      /\ stack'[Len(stack) + 1] = f
      /\ \A k \in 1 .. Len(stack) : stack'[k] = stack[k]
  BY <1>1, <1>3, Push
<1>6. Len(stack) \in Nat /\ Len(stack) >= 1
  BY TopFits
<1>7. Stacked' /\ Answered'
  BY <1>3, <1>4, <1>5, <1>6 DEF Typed, Stacked, Answered
<1>8. Fitting(code, f)
  <2>1. SizeIn(code, f) \in Nat
    BY <1>2, <1>4, SizeIs DEF Typed
  <2>. QED
    BY <1>2, <1>4, <2>1 DEF Fitting
<1>9. \A k \in 1 .. Len(stack') : Fitting(code, stack'[k])
  BY <1>2, <1>5, <1>6, <1>8 DEF Typed
<1>10. \A k \in 1 .. Len(stack') : k < Len(stack') => Pending(code, stack'[k])
  <2>. SUFFICES ASSUME NEW k \in 1 .. Len(stack'), k < Len(stack')
                PROVE  Pending(code, stack'[k])
    OBVIOUS
  <2>1. k \in 1 .. Len(stack) /\ stack'[k] = stack[k]
    BY <1>5, <1>6
  <2>2. CASE k = Len(stack)
    BY <1>2, <2>1, <2>2 DEF Top
  <2>3. CASE k < Len(stack)
    BY <1>2, <2>1, <2>3 DEF Typed
  <2>. QED
    BY <1>6, <2>1, <2>2, <2>3
<1>11. Wholesome(prog)' /\ (faults \in Seq(Causes))'
  BY <1>3 DEF Typed
<1>. QED
  BY <1>2, <1>3, <1>7, <1>9, <1>10, <1>11 DEF Typed

LEMMA TypedContinue ==
  ASSUME Typed, stack # <<>>, NEW f, IsFrame(f), Fitting(prog.code, f),
         Continue(f), faults' \in Seq(Causes), Fixed
  PROVE  Typed'
<1>1. PICK S : stack \in Seq(S)
  BY DEF Typed, Stacked
<1>2. stack' = [stack EXCEPT ![Len(stack)] = f] /\ ret' = {} /\ prog' = prog
  BY DEF Continue, Fixed
<1>3. /\ stack' \in Seq(S \cup {f})
      /\ Len(stack') = Len(stack)
      /\ stack'[Len(stack)] = f
      /\ \A k \in 1 .. Len(stack) - 1 : stack'[k] = stack[k]
  BY <1>1, <1>2, Replace
<1>4. Len(stack) \in Nat /\ Len(stack) >= 1
  BY TopFits
<1>5. Stacked' /\ Answered'
  <2>1. ASSUME NEW k \in 1 .. Len(stack') PROVE IsFrame(stack'[k])
    BY <1>3, <1>4 DEF Typed, Stacked
  <2>. QED
    BY <1>2, <1>3, <2>1 DEF Stacked, Answered, IsFrame
<1>6. \A k \in 1 .. Len(stack') : Fitting(prog.code, stack'[k])
  BY <1>3, <1>4 DEF Typed
<1>7. \A k \in 1 .. Len(stack') : k < Len(stack') => Pending(prog.code, stack'[k])
  BY <1>3, <1>4 DEF Typed
<1>8. Wholesome(prog)'
  BY <1>2 DEF Typed
<1>. QED
  BY <1>2, <1>5, <1>6, <1>7, <1>8 DEF Typed

LEMMA TypedReturn ==
  ASSUME Typed, stack # <<>>, NEW v, NEW e \in Seq(Marks), Return(v, e),
         faults' \in Seq(Causes), Fixed
  PROVE  Typed'
<1>1. PICK S : stack \in Seq(S)
  BY DEF Typed, Stacked
<1>2. stack' = Pop(stack) /\ ret' = {[out |-> v, err |-> e]} /\ prog' = prog
  BY DEF Return, Fixed
<1>3. /\ stack' \in Seq(S)
      /\ Len(stack') = Len(stack) - 1
      /\ Len(stack) \in Nat /\ Len(stack) >= 1
      /\ \A k \in 1 .. Len(stack) - 1 : stack'[k] = stack[k]
  BY <1>1, <1>2, PopTop
<1>4. Stacked' /\ Answered'
  <2>1. ASSUME NEW k \in 1 .. Len(stack') PROVE IsFrame(stack'[k])
    BY <1>3 DEF Typed, Stacked
  <2>. QED
    BY <1>2, <1>3, <2>1 DEF Stacked, Answered, IsFrame
<1>5. \A k \in 1 .. Len(stack') : Fitting(prog.code, stack'[k]) /\ Pending(prog.code, stack'[k])
  BY <1>3 DEF Typed
<1>6. Wholesome(prog)'
  BY <1>2 DEF Typed
<1>. QED
  BY <1>2, <1>4, <1>5, <1>6 DEF Typed

-----------------------------------------------------------------------------
(* What code with a part left asks inner code to convert. *)
EntryOf(f) == f.in.kids[(f.at \div 2) + 1]

KeyAsks(c, f, n, v) ==
  /\ c.kind = "key"
  /\ \/ f.at % 2 = 0 /\ n = c.key /\ v = EntryOf(f).kids[1]
     \/ f.at % 2 # 0 /\ n = c.elem /\ v = EntryOf(f).kids[2]

StructAsks(c, f, n, v) ==
  LET field == c.fields[f.at + 1]
  IN  c.kind = "struct" /\ ~Missing(field, f.in) /\ n = field.as /\ v = Matched(field, f.in)

UnionAsks(c, f, n, v) ==
  /\ c.kind = "union" /\ v = f.in
  /\ \E i \in DOMAIN c.cases : c.cases[i].impl = f.in.tag /\ n = c.cases[i].as

Asks(code, f, n, v) ==
  LET c == code[f.node]
  IN  \/ c.kind = "call" /\ n = c.to /\ v = f.in
      \/ /\ c.kind = "pointer" /\ ~(c.depthX # 0 /\ f.in = Zero)
         /\ n = c.elem /\ v = Pointed(c, f.in)
      \/ c.kind = "index" /\ n = c.elem /\ v = f.in.kids[f.at + 1]
      \/ KeyAsks(c, f, n, v) \/ StructAsks(c, f, n, v) \/ UnionAsks(c, f, n, v)

LEMMA AssignerParts ==
  ASSUME NEW c \in Assigner
  PROVE  /\ c.kind = "call" => c.to \in Nodes
         /\ c.kind \in {"pointer", "index", "key"} => c.elem \in Nodes
         /\ c.kind = "key" => c.key \in Nodes
         /\ c.kind = "struct" => /\ Len(c.fields) \in Nat /\ DOMAIN c.fields = 1 .. Len(c.fields)
                                 /\ \A i \in 1 .. Len(c.fields) : c.fields[i] \in Member
         /\ c.kind = "union" => \A i \in DOMAIN c.cases : c.cases[i].as \in Nodes
<1>1. /\ c.kind = "call" => c.to \in Nodes
      /\ c.kind \in {"pointer", "index", "key"} => c.elem \in Nodes
      /\ c.kind = "key" => c.key \in Nodes
      /\ c.kind = "struct" => c.fields \in Seq(Member)
      /\ c.kind = "union" => c.cases \in Seq([impl : Tags, as : Nodes])
  BY DEF Assigner
<1>2. ASSUME NEW s \in Seq(Member)
      PROVE  Len(s) \in Nat /\ DOMAIN s = 1 .. Len(s) /\ \A i \in 1 .. Len(s) : s[i] \in Member
  <2>1. PICK M : M = Member
    OBVIOUS
  <2>2. s \in Seq(M)
    BY <2>1
  <2>. QED
    BY <2>1, <2>2
<1>3. ASSUME NEW s \in Seq([impl : Tags, as : Nodes])
      PROVE  \A i \in DOMAIN s : s[i].as \in Nodes
  <2>1. PICK C : C = [impl : Tags, as : Nodes]
    OBVIOUS
  <2>2. s \in Seq(C)
    BY <2>1
  <2>3. \A i \in DOMAIN s : s[i] \in C
    BY <2>2
  <2>. QED
    BY <2>1, <2>3
<1>4. c.kind = "struct" => /\ Len(c.fields) \in Nat /\ DOMAIN c.fields = 1 .. Len(c.fields)
                           /\ \A i \in 1 .. Len(c.fields) : c.fields[i] \in Member
  BY <1>1, <1>2
<1>5. c.kind = "union" => \A i \in DOMAIN c.cases : c.cases[i].as \in Nodes
  BY <1>1, <1>3
<1>. QED
  BY <1>1, <1>4, <1>5

LEMMA AskedFits ==
  ASSUME NEW pg, Wholesome(pg), NEW f, IsFrame(f), Fitting(pg.code, f), Pending(pg.code, f),
         NEW n, NEW v, Asks(pg.code, f, n, v)
  PROVE  n \in Nodes /\ Convertible(pg.code, n, v)
<1>1. PICK c, w, m, at, F : /\ c = pg.code[f.node] /\ w = f.in /\ m = f.node /\ at = f.at
                            /\ F = Conversions[pg.code]
  OBVIOUS
<1>2. Converts(c, F, m, w) /\ c \in Assigner /\ at \in Nat
  <2>1. m \in Nodes /\ at \in Nat /\ f.err = NoErr
    BY <1>1 DEF IsFrame, Pending
  <2>2. Convertible(pg.code, m, w)
    BY <1>1, <2>1 DEF Fitting
  <2>3. Converts(pg.code[m], F, m, w)
    BY <1>1, <2>2, ConversionConverts
  <2>. QED
    BY <1>1, <2>1, <2>3 DEF Wholesome
<1>3. (c.kind \in {"index", "key", "struct"}) => at < SizeIn(pg.code, f)
  BY <1>1 DEF Pending, Looping
<1>4. SUFFICES n \in Nodes /\ <<n, v>> \in DOMAIN F
  BY <1>1 DEF Convertible
<1>5. CASE c.kind = "call" /\ n = c.to /\ v = w
  BY <1>2, <1>5 DEF Assigner, Converts
<1>6. CASE c.kind = "pointer" /\ ~(c.depthX # 0 /\ w = Zero) /\ n = c.elem /\ v = Pointed(c, w)
  <2>1. c.elem \in Nodes
    BY <1>2, <1>6, AssignerParts
  <2>2. PointerConverts(c, F, m, w)
    BY <1>2, <1>6 DEF Converts
  <2>. QED
    BY <1>6, <2>1, <2>2 DEF PointerConverts
<1>7. CASE c.kind = "index" /\ n = c.elem /\ v = w.kids[at + 1]
  <2>0. IndexConverts(c, F, m, w) /\ c.elem \in Nodes
    BY <1>2, <1>7, AssignerParts DEF Converts
  <2>1. Len(w.kids) \in Nat /\ \A i \in 1 .. Len(w.kids) : <<c.elem, w.kids[i]>> \in DOMAIN F
    BY <2>0 DEF IndexConverts
  <2>2. at < Len(w.kids)
    BY <1>1, <1>3, <1>7 DEF SizeIn
  <2>3. at + 1 \in 1 .. Len(w.kids)
    BY <1>2, <2>1, <2>2
  <2>. QED
    BY <1>7, <2>0, <2>1, <2>3
<1>8. CASE KeyAsks(c, f, n, v)
  <2>1. KeyConverts(c, F, m, w) /\ c.kind = "key"
    BY <1>2, <1>8 DEF Converts, KeyAsks
  <2>2. /\ Len(w.kids) \in Nat
        /\ \A i \in 1 .. Len(w.kids) : /\ <<c.key, w.kids[i].kids[1]>> \in DOMAIN F
                                       /\ <<c.elem, w.kids[i].kids[2]>> \in DOMAIN F
    BY <2>1 DEF KeyConverts
  <2>3. at < 2 * Len(w.kids)
    BY <1>1, <1>3, <2>1 DEF SizeIn
  <2>4. (at \div 2) + 1 \in 1 .. Len(w.kids)
    BY <1>2, <2>2, <2>3
  <2>5. c.key \in Nodes /\ c.elem \in Nodes
    BY <1>2, <2>1, AssignerParts
  <2>6. PICK e : e = EntryOf(f)
    OBVIOUS
  <2>7. <<c.key, e.kids[1]>> \in DOMAIN F /\ <<c.elem, e.kids[2]>> \in DOMAIN F
    BY <1>1, <2>2, <2>4, <2>6 DEF EntryOf
  <2>8. (n = c.key /\ v = e.kids[1]) \/ (n = c.elem /\ v = e.kids[2])
    BY <1>8, <2>6 DEF KeyAsks
  <2>. QED
    BY <2>5, <2>7, <2>8
<1>9. CASE StructAsks(c, f, n, v)
  <2>1. PICK field : field = c.fields[at + 1]
    OBVIOUS
  <2>2. c.kind = "struct" /\ ~Missing(field, w) /\ n = field.as /\ v = Matched(field, w)
    BY <1>1, <1>9, <2>1 DEF StructAsks
  <2>3. at < Len(c.fields)
    BY <1>1, <1>3, <2>2 DEF SizeIn
  <2>4. /\ Len(c.fields) \in Nat
        /\ \A i \in 1 .. Len(c.fields) : c.fields[i] \in Member
    BY <1>2, <2>2, AssignerParts
  <2>5. at + 1 \in 1 .. Len(c.fields) /\ field \in Member
    BY <1>2, <2>1, <2>3, <2>4
  <2>6. StructConverts(c, F, m, w)
    BY <1>2, <2>2 DEF Converts
  <2>7. <<field.as, Matched(field, w)>> \in DOMAIN F
    BY <2>1, <2>2, <2>5, <2>6 DEF StructConverts
  <2>8. field.as \in Nodes
    BY <2>5 DEF Member
  <2>. QED
    BY <2>2, <2>7, <2>8
<1>10. CASE UnionAsks(c, f, n, v)
  <2>1. PICK i \in DOMAIN c.cases : c.cases[i].impl = w.tag /\ n = c.cases[i].as
    BY <1>1, <1>10 DEF UnionAsks
  <2>2. c.kind = "union" /\ v = w
    BY <1>1, <1>10 DEF UnionAsks
  <2>3. n \in Nodes
    BY <1>2, <2>1, <2>2, AssignerParts
  <2>4. UnionConverts(c, F, m, w)
    BY <1>2, <2>2 DEF Converts
  <2>5. <<c.cases[i].as, w>> \in DOMAIN F
    BY <2>1, <2>4 DEF UnionConverts
  <2>. QED
    BY <2>1, <2>2, <2>3, <2>5
<1>. QED
  BY <1>1, <1>5, <1>6, <1>7, <1>8, <1>9, <1>10 DEF Asks

-----------------------------------------------------------------------------
(* Inner code is run on what is asked for. *)
AskInner ==
  \E n, v : Asks(prog.code, Top, n, v) /\ Enter(n, v)

LEMMA AskingLoops ==
  ASSUME Typed, IndexNext \/ KeyNext
  PROVE  stack # <<>> /\ Pending(prog.code, Top) /\ AskInner /\ NoFault /\ Fixed
<1>1. stack # <<>>
  BY DEF IndexNext, KeyNext, Running
<1>2. Code = prog.code[Top.node] /\ Top.err = NoErr /\ Top.at < SizeIn(prog.code, Top)
  BY <1>1, SizeHere, TopFits DEF IndexNext, KeyNext
<1>3. Pending(prog.code, Top)
  BY <1>2 DEF Pending
<1>4. CASE IndexNext
  <2>1. PICK n, v : n = Code.elem /\ v = Top.in.kids[Top.at + 1]
    OBVIOUS
  <2>2. Asks(prog.code, Top, n, v) /\ Enter(n, v)
    BY <1>2, <1>4, <2>1 DEF IndexNext, Running, Asks
  <2>. QED
    BY <1>1, <1>3, <1>4, <2>2 DEF IndexNext, AskInner
<1>5. CASE KeyNext
  <2>1. PICK n, v : /\ n = IF Top.at % 2 = 0 THEN Code.key ELSE Code.elem
                    /\ v = IF Top.at % 2 = 0 THEN EntryOf(Top).kids[1] ELSE EntryOf(Top).kids[2]
    OBVIOUS
  <2>2. Enter(n, v)
    BY <1>5, <2>1 DEF KeyNext, EntryOf
  <2>3. KeyAsks(Code, Top, n, v)
    BY <1>5, <2>1 DEF KeyNext, Running, KeyAsks
  <2>4. Asks(prog.code, Top, n, v)
    BY <1>2, <2>3 DEF Asks
  <2>. QED
    BY <1>1, <1>3, <1>5, <2>2, <2>4 DEF KeyNext, AskInner
<1>. QED
  BY <1>4, <1>5

LEMMA AskingOthers ==
  ASSUME Typed, Call \/ Union \/ (Pointer /\ ~(Code.depthX # 0 /\ Top.in = Zero))
  PROVE  stack # <<>> /\ Pending(prog.code, Top) /\ AskInner /\ NoFault /\ Fixed
<1>1. stack # <<>> /\ Code.kind \in {"call", "union", "pointer"} /\ NoFault /\ Fixed
  BY DEF Call, Union, Pointer, Running
<1>2. Code = prog.code[Top.node] /\ Pending(prog.code, Top)
  BY <1>1, TopFits DEF Fitting, Pending, Looping
<1>3. CASE Call
  <2>1. PICK n, v : n = Code.to /\ v = Top.in
    OBVIOUS
  <2>2. Asks(prog.code, Top, n, v) /\ Enter(n, v)
    BY <1>2, <1>3, <2>1 DEF Call, Running, Asks
  <2>. QED
    BY <1>1, <1>2, <2>2 DEF AskInner
<1>4. CASE Union
  <2>1. PICK i \in DOMAIN Code.cases : UnionCase(Code.cases[i]) /\ Enter(Code.cases[i].as, Top.in)
    BY <1>4 DEF Union
  <2>2. PICK n, v : n = Code.cases[i].as /\ v = Top.in
    OBVIOUS
  <2>3. Asks(prog.code, Top, n, v) /\ Enter(n, v)
    BY <1>2, <1>4, <2>1, <2>2 DEF Union, Running, Asks, UnionAsks, UnionCase
  <2>. QED
    BY <1>1, <1>2, <2>3 DEF AskInner
<1>5. CASE Pointer /\ ~(Code.depthX # 0 /\ Top.in = Zero)
  <2>1. PICK n, v : n = Code.elem /\ v = Pointed(Code, Top.in)
    OBVIOUS
  <2>2. Asks(prog.code, Top, n, v) /\ Enter(n, v)
    BY <1>2, <1>5, <2>1 DEF Pointer, Running, Asks, Pointed
  <2>. QED
    BY <1>1, <1>2, <2>2 DEF AskInner
<1>. QED
  BY <1>3, <1>4, <1>5

(* A field that is due is one of the struct's. *)
LEMMA FieldIsDue ==
  ASSUME Typed, FieldDue
  PROVE  /\ stack # <<>> /\ Code = prog.code[Top.node] /\ Code.kind = "struct"
         /\ Pending(prog.code, Top) /\ ret = {}
<1>1. stack # <<>> /\ Code.kind = "struct" /\ ret = {}
  BY DEF FieldDue, Running
<1>2. Code = prog.code[Top.node] /\ Top.err = NoErr /\ Top.at < SizeIn(prog.code, Top)
  BY <1>1, SizeHere, TopFits DEF FieldDue
<1>. QED
  BY <1>1, <1>2 DEF Pending

LEMMA AskingFields ==
  ASSUME Typed, FieldNext
  PROVE  stack # <<>> /\ Pending(prog.code, Top) /\ AskInner /\ NoFault /\ Fixed
<1>1. /\ stack # <<>> /\ Code = prog.code[Top.node] /\ Code.kind = "struct"
      /\ Pending(prog.code, Top)
  BY FieldIsDue DEF FieldNext
<1>2. PICK n, v : n = Field.as /\ v = FieldX(Field)
  OBVIOUS
<1>3. ~Missing(Field, Top.in) /\ v = Matched(Field, Top.in) /\ Enter(n, v) /\ NoFault /\ Fixed
  BY <1>2 DEF FieldNext, Absent, Missing, FieldX, Matched
<1>4. Asks(prog.code, Top, n, v)
  BY <1>1, <1>2, <1>3 DEF Asks, StructAsks, Field
<1>. QED
  BY <1>1, <1>3, <1>4 DEF AskInner

LEMMA TypedAsks ==
  ASSUME Typed, stack # <<>>, Pending(prog.code, Top), AskInner, NoFault, Fixed
  PROVE  Typed'
<1>1. PICK n, v : Asks(prog.code, Top, n, v) /\ Enter(n, v)
  BY DEF AskInner
<1>2. n \in Nodes /\ Convertible(prog.code, n, v)
  BY <1>1, AskedFits, TopFits DEF Typed
<1>. QED
  BY <1>1, <1>2, TypedEnter

-----------------------------------------------------------------------------
(* Loops and structs go on with one more part, the one returned to them or   *)
(* the zero value of a field that is missing, or leave with an error.        *)
NextOut(c, f, x) ==
  IF c.kind = "key"
    THEN IF f.at % 2 = 0 THEN With(Made(f), Key(x)) ELSE Elem(f.out, x)
    ELSE With(Made(f), x)

GotPart(x) ==
  \/ Code.kind = "struct" /\ Missing(Field, Top.in) /\ x = Zero
  \/ \E r \in ret : r.err = NoErr /\ x = r.out

Goes(f) ==
  /\ IsFrame(f) /\ f.node = Top.node
  /\ f.err = NoErr => /\ f.in = Top.in /\ f.at = Top.at + 1
                      /\ \E x : GotPart(x) /\ f.out = NextOut(Code, Top, x)

GoesOn ==
  /\ stack # <<>> /\ Pending(prog.code, Top) /\ Looping(prog.code, Top.node)
  /\ \E f : Goes(f) /\ Continue(f)
  /\ faults' \in Seq(Causes) /\ Fixed

LEMMA ErrWrapMarks ==
  ASSUME Typed, NEW e \in Seq(Marks)
  PROVE  ErrWrap(e) \in Seq(Marks)
<1>1. prog.wraps \in Seq(Marks)
  BY DEF Typed, Wholesome, Marks
<1>. QED
  BY <1>1, ConcatProperties DEF ErrWrap

LEMMA CauseMarks ==
  ASSUME Typed
  PROVE  /\ \A c \in {"getter", "setter"} : ErrWrap(<<c>>) \in Seq(Marks)
         /\ <<"hand">> \in Seq(Marks) /\ NoErr \in Seq(Marks)
         /\ <<"nomatch", "converting">> \in Seq(Marks)
<1>1. \A c \in Marks : <<c>> \in Seq(Marks)
  OBVIOUS
<1>2. {"getter", "setter", "hand"} \subseteq Marks
  BY DEF Marks, Causes
<1>3. \A c \in {"getter", "setter"} : ErrWrap(<<c>>) \in Seq(Marks)
  BY <1>1, <1>2, ErrWrapMarks
<1>4. NoErr \in Seq(Marks)
  BY DEF NoErr
<1>. QED
  BY <1>1, <1>2, <1>3, <1>4, NoMatchErr

(* Code that resumes. *)
LEMMA ResumingTop ==
  ASSUME Typed, NEW kind, Resuming(kind), kind \in {"index", "key", "struct"}
  PROVE  /\ stack # <<>> /\ IsFrame(Top) /\ Code.kind = kind
         /\ Pending(prog.code, Top) /\ Looping(prog.code, Top.node)
         /\ Top.err = NoErr
<1>1. stack # <<>> /\ ret # {} /\ Code.kind = kind
  BY DEF Resuming
<1>2. /\ IsFrame(Top) /\ Pending(prog.code, Top) /\ Code = prog.code[Top.node]
  BY <1>1, TopFits
<1>. QED
  BY <1>1, <1>2 DEF Looping, Pending

LEMMA GoingIndex == ASSUME Typed, IndexAssign PROVE GoesOn
<1>1. Resuming("index") /\ NoFault /\ Fixed
  BY DEF IndexAssign
<1>2. PICK r \in ret : Assign(r)
  BY DEF IndexAssign
<1>3. /\ stack # <<>> /\ IsFrame(Top) /\ Code.kind = "index"
      /\ Pending(prog.code, Top) /\ Looping(prog.code, Top.node)
  BY <1>1, ResumingTop
<1>4. r.err \in Seq(Marks)
  BY Answering DEF Typed
<1> DEFINE f == [Top EXCEPT !.out = MadeWith(r.out), !.at = @ + 1, !.err = r.err,
                            !.in = IF r.err # NoErr /\ Code.isSliceY THEN Zero ELSE @]
<1>5. Continue(f)
  BY <1>2 DEF Assign
<1>6. IsFrame(f) /\ f.node = Top.node
  BY <1>3, <1>4 DEF IsFrame
<1>7. f.err = r.err
  BY <1>3 DEF IsFrame
<1>8. r.err = NoErr => f.in = Top.in /\ f.at = Top.at + 1 /\ f.out = MadeWith(r.out)
  BY <1>3 DEF IsFrame
<1>9. MadeWith(r.out) = NextOut(Code, Top, r.out)
  BY <1>3 DEF MadeWith, NextOut
<1> HIDE DEF f
<1>10. r.err = NoErr => GotPart(r.out)
  BY DEF GotPart
<1>11. Goes(f)
  BY <1>6, <1>7, <1>8, <1>9, <1>10 DEF Goes
<1>. QED
  BY <1>1, <1>3, <1>5, <1>11, FaultsStay DEF GoesOn, Typed

LEMMA GoingKey == ASSUME Typed, KeyAssign PROVE GoesOn
<1>1. Resuming("key") /\ NoFault /\ Fixed
  BY DEF KeyAssign
<1> DEFINE out(r) == IF Top.at % 2 = 0 THEN MadeWith(Key(r.out)) ELSE Elem(Top.out, r.out)
           f(r) == [Top EXCEPT !.out = out(r), !.at = @ + 1, !.err = r.err,
                               !.in = IF r.err # NoErr THEN Zero ELSE @]
<1>2. PICK r \in ret : Continue(f(r))
  BY Zenon DEF KeyAssign
<1>3. /\ stack # <<>> /\ IsFrame(Top) /\ Code.kind = "key"
      /\ Pending(prog.code, Top) /\ Looping(prog.code, Top.node)
  BY <1>1, ResumingTop
<1>4. r.err \in Seq(Marks)
  BY Answering DEF Typed
<1>9. out(r) = NextOut(Code, Top, r.out)
  BY <1>3 DEF MadeWith, NextOut
<1> HIDE DEF out
<1>6. IsFrame(f(r)) /\ f(r).node = Top.node
  BY <1>3, <1>4 DEF IsFrame
<1>7. f(r).err = r.err
  BY <1>3 DEF IsFrame
<1>8. r.err = NoErr => f(r).in = Top.in /\ f(r).at = Top.at + 1 /\ f(r).out = out(r)
  BY <1>3 DEF IsFrame
<1> HIDE DEF f
<1>10. r.err = NoErr => GotPart(r.out)
  BY DEF GotPart
<1>11. Goes(f(r))
  BY <1>6, <1>7, <1>8, <1>9, <1>10 DEF Goes
<1>. QED
  BY <1>1, <1>2, <1>3, <1>11, FaultsStay DEF GoesOn, Typed

LEMMA GoingAssign == ASSUME Typed, FieldAssign PROVE GoesOn
<1>1. Resuming("struct") /\ NoFault /\ Fixed
  BY DEF FieldAssign
<1> DEFINE f(r) == [Top EXCEPT !.out = MadeWith(r.out), !.at = @ + 1]
<1>2. PICK r \in ret : r.err = NoErr /\ Continue(f(r))
  BY Zenon DEF FieldAssign
<1>3. /\ stack # <<>> /\ IsFrame(Top) /\ Code.kind = "struct"
      /\ Pending(prog.code, Top) /\ Looping(prog.code, Top.node)
  BY <1>1, ResumingTop
<1>6. IsFrame(f(r)) /\ f(r).node = Top.node
  BY <1>3 DEF IsFrame
<1>8. f(r).in = Top.in /\ f(r).at = Top.at + 1 /\ f(r).out = MadeWith(r.out)
  BY <1>3 DEF IsFrame
<1>9. MadeWith(r.out) = NextOut(Code, Top, r.out)
  BY <1>3 DEF MadeWith, NextOut
<1> HIDE DEF f
<1>10. GotPart(r.out)
  BY <1>2 DEF GotPart
<1>11. Goes(f(r))
  BY <1>6, <1>8, <1>9, <1>10 DEF Goes
<1>. QED
  BY <1>1, <1>2, <1>3, <1>11, FaultsStay DEF GoesOn, Typed

LEMMA GoingSkipped == ASSUME Typed, FieldSkipped PROVE GoesOn
<1>1. FieldDue /\ Absent(Field) /\ NoFault /\ Fixed
  BY DEF FieldSkipped
<1> DEFINE f == [Top EXCEPT !.out = MadeWith(Zero), !.at = @ + 1]
<1>2. Continue(f)
  BY DEF FieldSkipped
<1>3. /\ stack # <<>> /\ Code = prog.code[Top.node] /\ Code.kind = "struct"
      /\ Pending(prog.code, Top)
  BY <1>1, FieldIsDue
<1>4. IsFrame(Top) /\ Looping(prog.code, Top.node)
  BY <1>3, TopFits DEF Looping
<1>6. IsFrame(f) /\ f.node = Top.node
  BY <1>4 DEF IsFrame
<1>8. f.in = Top.in /\ f.at = Top.at + 1 /\ f.out = MadeWith(Zero)
  BY <1>4 DEF IsFrame
<1>9. MadeWith(Zero) = NextOut(Code, Top, Zero)
  BY <1>3 DEF MadeWith, NextOut
<1> HIDE DEF f
<1>10. GotPart(Zero)
  BY <1>1, <1>3 DEF GotPart, Absent, Missing
<1>11. Goes(f)
  BY <1>6, <1>8, <1>9, <1>10 DEF Goes
<1>. QED
  BY <1>1, <1>2, <1>3, <1>4, <1>11, FaultsStay DEF GoesOn, Typed

(* A goto to the end of a struct. *)
LEMMA GoingTo ==
  ASSUME Typed, stack # <<>>, Pending(prog.code, Top), Looping(prog.code, Top.node),
         NEW e \in Seq(Marks), e # NoErr, Goto(e), faults' \in Seq(Causes), Fixed
  PROVE  GoesOn
<1>1. IsFrame(Top)
  BY TopFits
<1> DEFINE f == [Top EXCEPT !.err = e]
<1>2. IsFrame(f) /\ f.node = Top.node /\ f.err = e
  BY <1>1 DEF IsFrame
<1>3. Continue(f)
  BY DEF Goto
<1> HIDE DEF f
<1>4. Goes(f)
  BY <1>2 DEF Goes
<1>. QED
  BY <1>3, <1>4 DEF GoesOn

LEMMA AccessorErr ==
  ASSUME Typed, NEW c \in {"getter", "setter"}, Fault(c)
  PROVE  ErrWrap(<<c>>) \in Seq(Marks) /\ ErrWrap(<<c>>) # NoErr /\ faults' \in Seq(Causes)
<1>1. <<c>> \in Seq(Marks) /\ c \in Causes
  BY DEF Marks, Causes
<1>2. prog.wraps \in Seq(Marks)
  BY DEF Typed, Wholesome, Marks
<1>3. ErrWrap(<<c>>) # NoErr
  BY <1>1, <1>2, ConcatProperties DEF ErrWrap, NoErr
<1>4. faults' \in Seq(Causes)
  BY <1>1, FaultsStay DEF Typed
<1>. QED
  BY <1>3, <1>4, CauseMarks

LEMMA GoingGoto ==
  ASSUME Typed, GetterFails \/ FieldFails \/ SetterFails
  PROVE  GoesOn
<1>1. CASE GetterFails
  <2>1. FieldDue /\ Goto(ErrWrap(<<"getter">>)) /\ Fault("getter") /\ Fixed
    BY <1>1 DEF GetterFails
  <2>2. /\ stack # <<>> /\ Pending(prog.code, Top) /\ Looping(prog.code, Top.node)
    BY <2>1, FieldIsDue DEF Looping
  <2>. QED
    BY <2>1, <2>2, AccessorErr, GoingTo
<1>2. CASE SetterFails
  <2>1. Resuming("struct") /\ Goto(ErrWrap(<<"setter">>)) /\ Fault("setter") /\ Fixed
    BY <1>2 DEF SetterFails
  <2>2. /\ stack # <<>> /\ Pending(prog.code, Top) /\ Looping(prog.code, Top.node)
    BY <2>1, ResumingTop
  <2>. QED
    BY <2>1, <2>2, AccessorErr, GoingTo
<1>3. CASE FieldFails
  <2>1. Resuming("struct") /\ NoFault /\ Fixed
    BY <1>3 DEF FieldFails
  <2>2. PICK r \in ret : r.err # NoErr /\ Goto(r.err)
    BY <1>3 DEF FieldFails
  <2>3. r.err \in Seq(Marks)
    BY Answering DEF Typed
  <2>4. /\ stack # <<>> /\ Pending(prog.code, Top) /\ Looping(prog.code, Top.node)
    BY <2>1, ResumingTop
  <2>5. faults' \in Seq(Causes)
    BY <2>1, FaultsStay DEF Typed
  <2>. QED
    BY <2>1, <2>2, <2>3, <2>4, <2>5, GoingTo
<1>. QED
  BY <1>1, <1>2, <1>3

LEMMA TypedGoesOn == ASSUME Typed, GoesOn PROVE Typed'
<1>1. PICK f : Goes(f) /\ Continue(f)
  BY DEF GoesOn
<1>2. /\ stack # <<>> /\ Pending(prog.code, Top) /\ Looping(prog.code, Top.node)
      /\ faults' \in Seq(Causes) /\ Fixed
  BY DEF GoesOn
<1>3. IsFrame(Top) /\ Fitting(prog.code, Top)
  BY <1>2, TopFits
<1>4. IsFrame(f) /\ f.node = Top.node
  BY <1>1 DEF Goes
<1>5. CASE f.err # NoErr
  <2>1. Fitting(prog.code, f)
    BY <1>2, <1>4, <1>5 DEF Fitting
  <2>. QED
    BY <1>1, <1>2, <1>4, <2>1, TypedContinue
<1>6. CASE f.err = NoErr
  <2>1. f.in = Top.in /\ f.at = Top.at + 1
    BY <1>1, <1>6 DEF Goes
  <2>2. Top.err = NoErr /\ Top.at < SizeIn(prog.code, Top) /\ Convertible(prog.code, f.node, f.in)
    BY <1>2, <1>3, <1>4, <2>1 DEF Pending, Fitting
  <2>3. SizeIn(prog.code, f) = SizeIn(prog.code, Top)
    BY <1>4, <2>1 DEF SizeIn
  <2>4. SizeIn(prog.code, f) \in Nat
    BY <1>4, <2>2, SizeIs DEF Typed, IsFrame
  <2>5. f.at <= SizeIn(prog.code, f)
    BY <1>3, <2>1, <2>2, <2>3, <2>4 DEF IsFrame
  <2>6. Fitting(prog.code, f)
    BY <1>6, <2>2, <2>5 DEF Fitting
  <2>. QED
    BY <1>1, <1>2, <1>4, <2>6, TypedContinue
<1>. QED
  BY <1>5, <1>6

(* Code that ends. *)
Ends ==
  /\ stack # <<>> /\ faults' \in Seq(Causes) /\ Fixed
  /\ \E v : \E e \in Seq(Marks) : Return(v, e)

LEMMA TypedEnds == ASSUME Typed, Ends PROVE Typed'
<1>1. PICK v : \E e \in Seq(Marks) : Return(v, e)
  BY DEF Ends
<1>2. PICK e \in Seq(Marks) : Return(v, e)
  BY <1>1
<1>. QED
  BY <1>2, TypedReturn DEF Ends

LEMMA EndsWith ==
  ASSUME Typed, stack # <<>>, NEW v, NEW e \in Seq(Marks), Return(v, e), Fixed,
         NoFault \/ \E c \in Causes : Fault(c)
  PROVE  Ends
BY FaultsStay DEF Ends, Typed

LEMMA EndingReturned ==
  ASSUME Typed, CallReturns \/ PointerReturns \/ UnionReturns
  PROVE  Ends
<1>1. stack # <<>> /\ NoFault /\ Fixed
  BY DEF CallReturns, PointerReturns, UnionReturns, Resuming
<1>2. PICK r \in ret : \/ Return(r.out, IF r.err = NoErr THEN NoErr
                                        ELSE ErrWrap(Append(r.err, "converting")))
                       \/ \E v : Return(v, r.err)
                       \/ Return(r.out, ErrWrap(NoErr))
                       \/ Return(r.out, r.err)
  BY DEF CallReturns, PointerReturns, UnionReturns
<1>3. r.err \in Seq(Marks)
  BY Answering DEF Typed
<1>4. NoErr \in Seq(Marks) /\ ErrWrap(NoErr) \in Seq(Marks)
  BY CauseMarks, ErrWrapMarks
<1>5. r.err # NoErr => ErrWrap(Append(r.err, "converting")) \in Seq(Marks)
  BY <1>3, AddMark, ErrWrapMarks
<1>6. PICK v : \E e \in Seq(Marks) : Return(v, e)
  BY <1>2, <1>3, <1>4, <1>5
<1>. QED
  BY <1>1, <1>6, EndsWith

LEMMA EndingLoops ==
  ASSUME Typed, IndexEnd \/ KeyEnd \/ StructEnd
  PROVE  Ends
<1>1. stack # <<>> /\ NoFault /\ Fixed
  BY DEF IndexEnd, KeyEnd, StructEnd, Running
<1>2. Top.err \in Seq(Marks)
  BY <1>1, TopFits DEF IsFrame
<1>3. PICK v : Return(v, Top.err)
  BY DEF IndexEnd, KeyEnd, StructEnd
<1>. QED
  BY <1>1, <1>2, <1>3, EndsWith

LEMMA EndingOthers ==
  ASSUME Typed, \/ Copy \/ Hand \/ UnionDefault \/ Enum \/ EnumDefault
                \/ Pointer /\ Code.depthX # 0 /\ Top.in = Zero
  PROVE  Ends
<1>1. stack # <<>> /\ Fixed
  BY DEF Copy, Hand, UnionDefault, Enum, EnumDefault, Pointer, Running
<1>2. PICK v, e : /\ e \in {NoErr, <<"hand">>, <<"nomatch", "converting">>,
                            ErrWrap(<<"nomatch", "converting">>)}
                  /\ Return(v, e)
                  /\ NoFault \/ Fault("hand") \/ Fault("nomatch")
  BY DEF Copy, Hand, UnionDefault, Enum, EnumDefault, Pointer, NoMatch
<1>3. NoFault \/ \E c \in Causes : Fault(c)
  BY <1>2 DEF Causes
<1>4. e \in Seq(Marks)
  BY <1>2, CauseMarks, ErrWrapMarks
<1>. QED
  BY <1>1, <1>2, <1>3, <1>4, EndsWith

(* Code that asks for inner code. *)
AsksOn == stack # <<>> /\ Pending(prog.code, Top) /\ AskInner /\ NoFault /\ Fixed

LEMMA ThreeSteps ==
  ASSUME Typed, Next, ~Returned
  PROVE  AsksOn \/ GoesOn \/ Ends
<1>1. CASE \/ IndexNext \/ KeyNext \/ FieldNext \/ Call \/ Union
           \/ (Pointer /\ ~(Code.depthX # 0 /\ Top.in = Zero))
  BY <1>1, AskingLoops, AskingOthers, AskingFields DEF AsksOn
<1>2. CASE \/ IndexAssign \/ KeyAssign \/ FieldAssign \/ FieldSkipped
           \/ GetterFails \/ FieldFails \/ SetterFails
  BY <1>2, GoingIndex, GoingKey, GoingAssign, GoingSkipped, GoingGoto
<1>3. CASE \/ CallReturns \/ PointerReturns \/ UnionReturns
           \/ IndexEnd \/ KeyEnd \/ StructEnd
           \/ Copy \/ Hand \/ UnionDefault \/ Enum \/ EnumDefault
           \/ (Pointer /\ Code.depthX # 0 /\ Top.in = Zero)
  BY <1>3, EndingReturned, EndingLoops, EndingOthers
<1>. QED
  BY <1>1, <1>2, <1>3 DEF Next

LEMMA NextTyped ==
  ASSUME Typed, [Next]_vars
  PROVE  Typed'
<1>1. CASE UNCHANGED vars
  BY <1>1 DEF vars, Typed, Stacked, Answered
<1>2. CASE Next /\ ~Returned
  <2>1. CASE AsksOn
    BY <2>1, TypedAsks DEF AsksOn
  <2>. QED
    BY <1>2, <2>1, ThreeSteps, TypedGoesOn, TypedEnds
<1>. QED
  BY <1>1, <1>2 DEF Returned

(* The outermost function is run on an input of its type. *)
LEMMA Starting ==
  ASSUME Init
  PROVE  /\ Wholesome(prog) /\ prog.root \in Nodes /\ Convertible(prog.code, prog.root, input)
         /\ \E pg \in Programs : pg.code = prog.code /\ pg.root = prog.root /\ pg.wraps = prog.wraps
<1>1. PICK pg \in Programs : /\ prog = [code |-> pg.code, root |-> pg.root, wraps |-> pg.wraps]
                             /\ input \in pg.inputs
  BY DEF Init
<1>2. prog.code = pg.code /\ prog.root = pg.root /\ prog.wraps = pg.wraps
  BY <1>1
<1>3. prog.code \in [Nodes -> Assigner] /\ prog.root \in Nodes /\ prog.wraps \in Seq(Wrappers)
  BY <1>2, ProgramsAssumption
<1>4. IsConversionOf(pg, Conversions[pg.code])
  BY ConversionsAssumption
<1>5. Wholesome(prog)
  BY <1>2, <1>3, <1>4 DEF Wholesome, IsConversionOf
<1>6. Convertible(prog.code, prog.root, input)
  BY <1>1, <1>2, <1>4 DEF IsConversionOf, Convertible
<1>. QED
  BY <1>2, <1>3, <1>5, <1>6

LEMMA InitTyped == ASSUME Init PROVE Typed
<1>1. Wholesome(prog) /\ prog.root \in Nodes /\ Convertible(prog.code, prog.root, input)
  BY Starting
<1>2. PICK f : f = Begin(prog.root, input)
  OBVIOUS
<1>3. stack = <<f>> /\ ret = {} /\ faults = <<>>
  BY <1>2 DEF Init
<1>4. /\ IsFrame(f) /\ f.err = NoErr /\ f.at = 0
      /\ f.node = prog.root /\ f.in = input
  BY <1>1, <1>2 DEF IsFrame, Begin, NoErr
<1>5. stack \in Seq({f}) /\ Len(stack) = 1 /\ stack[1] = f
  BY <1>3
<1>6. SizeIn(prog.code, f) \in Nat
  BY <1>1, <1>4, SizeIs
<1>7. Fitting(prog.code, f)
  BY <1>1, <1>4, <1>6 DEF Fitting
<1>8. Stacked
  <2>1. \E S : stack \in Seq(S)
    BY <1>5
  <2>. QED
    BY <1>4, <1>5, <2>1 DEF Stacked
<1>9. Answered /\ faults \in Seq(Causes)
  BY <1>3 DEF Answered
<1>10. \A k \in 1 .. Len(stack) : Fitting(prog.code, stack[k])
  BY <1>5, <1>7
<1>11. \A k \in 1 .. Len(stack) : ~(k < Len(stack) \/ ret # {})
  BY <1>3, <1>5
<1>. QED
  BY <1>1, <1>8, <1>9, <1>10, <1>11 DEF Typed

(* Code never goes past the parts of its input, whatever the program and the *)
(* input of its type: the loops, and the fields of structs, end where the    *)
(* values do (index.go:56, key.go:85).                                       *)
THEOREM TypeCorrect == Spec => []TypeOK
<1>1. Typed => TypeOK
  <2>. SUFFICES ASSUME Typed PROVE TypeOK
    OBVIOUS
  <2>1. prog.code \in [Nodes -> Assigner] /\ prog.wraps \in Seq(Wrappers) /\ faults \in Seq(Causes)
    BY DEF Typed, Wholesome
  <2>2. \A r \in ret : r.err \in Seq(Marks)
    BY Answering DEF Typed
  <2>3. ASSUME NEW k \in DOMAIN stack
        PROVE  /\ stack[k].node \in Nodes
               /\ stack[k].err \in Seq(Marks)
               /\ stack[k].at \in Nat
               /\ stack[k].err = NoErr => stack[k].at <= Size(stack[k])
    <3>1. PICK S : stack \in Seq(S)
      BY DEF Typed, Stacked
    <3>2. k \in 1 .. Len(stack)
      BY <3>1
    <3>3. IsFrame(stack[k]) /\ Fitting(prog.code, stack[k])
      BY <3>2 DEF Typed, Stacked
    <3>. QED
      BY <3>3, SizeHere DEF IsFrame, Fitting
  <2>. QED
    BY <2>1, <2>2, <2>3 DEF TypeOK
<1>. QED
  BY <1>1, InitTyped, NextTyped, PTL DEF Spec

-----------------------------------------------------------------------------
(* What is made of a value, part by part. *)
PartsOf(c, F, v) ==
  IF c.kind = "index" THEN [i \in 1 .. Len(v.kids) |-> F[c.elem, v.kids[i]]]
  ELSE IF c.kind = "key"
    THEN [i \in 1 .. Len(v.kids) |->
            Entry(F[c.key, v.kids[i].kids[1]], F[c.elem, v.kids[i].kids[2]])]
  ELSE [i \in 1 .. Len(c.fields) |-> FieldConverted(F, c.fields[i], v)]

First(g, k) == [i \in 1 .. k |-> g[i]]

(* A map's entry is there when its key is. *)
Kids(c, F, v, at) ==
  LET g == PartsOf(c, F, v)
      k == at \div 2
  IN  IF c.kind # "key" THEN First(g, at)
      ELSE IF at % 2 = 0 THEN First(g, k)
      ELSE Append(First(g, k), Key(F[c.key, v.kids[k + 1].kids[1]]))

MadeOf(c, F, v, at) == Whole(v, at, Kids(c, F, v, at))

Partly(code, f) ==
  Looping(code, f.node) => f.out = MadeOf(code[f.node], Conversions[code], f.in, f.at)

(* The next part. *)
RightPart(c, F, f, x) ==
  /\ c.kind = "index"  => x = F[c.elem, f.in.kids[f.at + 1]]
  /\ c.kind = "struct" => x = FieldConverted(F, c.fields[f.at + 1], f.in)
  /\ c.kind = "key"    => IF f.at % 2 = 0 THEN x = F[c.key, EntryOf(f).kids[1]]
                                          ELSE x = F[c.elem, EntryOf(f).kids[2]]

LEMMA FirstMore ==
  ASSUME NEW g, NEW k \in Nat
  PROVE  /\ Append(First(g, k), g[k + 1]) = First(g, k + 1)
         /\ Len(First(g, k)) = k
         /\ First(g, 0) = <<>>
         /\ \E S : First(g, k) \in Seq(S)
<1>1. PICK S : S = {g[i] : i \in 1 .. k + 1}
  OBVIOUS
<1>2. PICK s : s = First(g, k)
  OBVIOUS
<1>3. s \in Seq(S) /\ Len(s) = k /\ (\A i \in 1 .. k : s[i] = g[i]) /\ g[k + 1] \in S
  BY <1>1, <1>2 DEF First
<1>4. PICK t : t = Append(s, g[k + 1])
  OBVIOUS
<1>5. /\ t \in Seq(S) /\ Len(t) = k + 1
      /\ \A i \in 1 .. k : t[i] = g[i]
      /\ t[k + 1] = g[k + 1]
  BY <1>3, <1>4, AppendProperties
<1>6. t = [i \in 1 .. k + 1 |-> g[i]]
  <2>1. DOMAIN t = 1 .. k + 1 /\ \A i \in 1 .. k + 1 : t[i] = g[i]
    BY <1>5
  <2>2. t = [i \in DOMAIN t |-> t[i]]
    BY <1>5
  <2>. QED
    BY <2>1, <2>2
<1>7. First(g, 0) = <<>>
  BY DEF First
<1>. QED
  BY <1>2, <1>3, <1>4, <1>6, <1>7 DEF First

LEMMA Halves ==
  ASSUME NEW k \in Nat
  PROVE  (2 * k) % 2 = 0 /\ (2 * k) \div 2 = k /\ (2 * k = 0 <=> k = 0)
OBVIOUS

LEMMA OddHalves ==
  ASSUME NEW a \in Nat, a % 2 # 0, NEW m \in Nat, a < 2 * m
  PROVE  /\ a \div 2 \in Nat /\ (a + 1) % 2 = 0 /\ (a + 1) \div 2 = (a \div 2) + 1
         /\ a # 0 /\ a + 1 # 0 /\ (a \div 2) + 1 \in 1 .. m
OBVIOUS

(* What has been made so far, ready for one more part. *)
LEMMA MadeIs ==
  ASSUME NEW c, NEW F, NEW f, f.at \in Nat, f.out = MadeOf(c, F, f.in, f.at),
         c.kind # "key" \/ f.at % 2 = 0
  PROVE  Made(f) = [tag  |-> f.in.tag,
                    kids |-> First(PartsOf(c, F, f.in),
                                   IF c.kind = "key" THEN f.at \div 2 ELSE f.at)]
<1>1. PICK g, k : g = PartsOf(c, F, f.in) /\ k = IF c.kind = "key" THEN f.at \div 2 ELSE f.at
  OBVIOUS
<1>2. k \in Nat /\ (f.at = 0 => k = 0)
  BY <1>1
<1>3. Kids(c, F, f.in, f.at) = First(g, k)
  BY <1>1 DEF Kids
<1>4. CASE f.at = 0
  <2>1. First(g, k) = <<>>
    BY <1>2, <1>4, FirstMore
  <2>. QED
    BY <1>1, <1>4, <2>1 DEF Made
<1>5. CASE f.at # 0
  BY <1>1, <1>3, <1>5 DEF Made, MadeOf, Whole
<1>. QED
  BY <1>4, <1>5

LEMMA WithIs ==
  ASSUME NEW t, NEW s, NEW x
  PROVE  With([tag |-> t, kids |-> s], x) = [tag |-> t, kids |-> Append(s, x)]
BY DEF With

LEMMA AppendIs ==
  ASSUME NEW S, NEW s \in Seq(S), NEW e
  PROVE  Append(s, e) = [i \in 1 .. Len(s) + 1 |-> IF i = Len(s) + 1 THEN e ELSE s[i]]
<1>1. PICK k, t : k = Len(s) /\ t = Append(s, e)
  OBVIOUS
<1>2. PICK T : T = S \cup {e}
  OBVIOUS
<1>3. s \in Seq(T) /\ e \in T
  BY <1>2
<1>4. /\ k \in Nat /\ t \in Seq(T) /\ DOMAIN t = 1 .. k + 1
      /\ t[k + 1] = e /\ \A i \in 1 .. k : t[i] = s[i]
  BY <1>1, <1>3, AppendProperties
<1>5. t = [i \in DOMAIN t |-> t[i]]
  BY <1>4
<1>6. \A i \in 1 .. k + 1 : t[i] = IF i = k + 1 THEN e ELSE s[i]
  BY <1>4
<1>7. t = [i \in 1 .. k + 1 |-> IF i = k + 1 THEN e ELSE s[i]]
  BY <1>4, <1>5, <1>6
<1>. QED
  BY <1>1, <1>7

(* The value that a key waits for. *)
LEMMA ElemIs ==
  ASSUME NEW t, NEW S, NEW s \in Seq(S), NEW x, NEW y
  PROVE  Elem([tag |-> t, kids |-> Append(s, Key(x))], y)
           = [tag |-> t, kids |-> Append(s, Entry(x, y))]
<1>1. PICK k : k = Len(s)
  OBVIOUS
<1>2. PICK u, v : u = Append(s, Key(x)) /\ v = Append(s, Entry(x, y))
  OBVIOUS
<1>3. k \in Nat /\ Len(u) = k + 1 /\ u[k + 1] = Key(x) /\ DOMAIN u = 1 .. k + 1
  BY <1>1, <1>2, AppendProperties
<1>4. With(Key(x), y) = Entry(x, y)
  BY DEF With, Key, Entry
<1>5. [u EXCEPT ![k + 1] = Entry(x, y)] = v
  <2>1. PICK a, b : a = Key(x) /\ b = Entry(x, y)
    OBVIOUS
  <2>2. u = Append(s, a) /\ v = Append(s, b)
    BY <1>2, <2>1
  <2>3. /\ u = [i \in 1 .. k + 1 |-> IF i = k + 1 THEN a ELSE s[i]]
        /\ v = [i \in 1 .. k + 1 |-> IF i = k + 1 THEN b ELSE s[i]]
    BY <1>1, <2>2, AppendIs
  <2>4. [u EXCEPT ![k + 1] = b] = v
    BY <1>3, <2>3
  <2>. QED
    BY <2>1, <2>4
<1>6. PICK w : w = [tag |-> t, kids |-> u]
  OBVIOUS
<1>7. w.kids = u /\ [w EXCEPT !.kids = v] = [tag |-> t, kids |-> v]
  BY <1>6
<1>8. Elem(w, y) = [w EXCEPT !.kids = [u EXCEPT ![k + 1] = With(u[k + 1], y)]]
  BY <1>3, <1>7 DEF Elem
<1>9. [u EXCEPT ![k + 1] = With(u[k + 1], y)] = v
  BY <1>3, <1>4, <1>5
<1>. QED
  BY <1>2, <1>6, <1>7, <1>8, <1>9

PartDue(c, f) ==
  /\ c.kind = "index"  => Len(f.in.kids) \in Nat /\ f.at < Len(f.in.kids)
  /\ c.kind = "key"    => Len(f.in.kids) \in Nat /\ f.at < 2 * Len(f.in.kids)
  /\ c.kind = "struct" => Len(c.fields) \in Nat /\ f.at < Len(c.fields)

LEMMA NextMade ==
  ASSUME NEW c, NEW F, NEW f, f.at \in Nat, f.out = MadeOf(c, F, f.in, f.at),
         c.kind \in {"index", "key", "struct"}, NEW x, RightPart(c, F, f, x), PartDue(c, f)
  PROVE  NextOut(c, f, x) = MadeOf(c, F, f.in, f.at + 1)
<1>0. PICK size : size = IF c.kind = "struct" THEN Len(c.fields) ELSE Len(f.in.kids)
  OBVIOUS
<1>1. PICK g, v, at : g = PartsOf(c, F, f.in) /\ v = f.in /\ at = f.at
  OBVIOUS
<1>2. CASE c.kind # "key"
  <2>1. Made(f) = [tag |-> v.tag, kids |-> First(g, at)]
    BY <1>1, <1>2, MadeIs
  <2>2. NextOut(c, f, x) = [tag |-> v.tag, kids |-> Append(First(g, at), x)]
    BY <1>2, <2>1, WithIs DEF NextOut
  <2>3. at + 1 \in 1 .. size
    BY <1>0, <1>1, <1>2 DEF PartDue
  <2>4. x = g[at + 1]
    <3>1. CASE c.kind = "index"
      BY <1>0, <1>1, <2>3, <3>1 DEF RightPart, PartsOf
    <3>2. CASE c.kind = "struct"
      BY <1>0, <1>1, <2>3, <3>2 DEF RightPart, PartsOf
    <3>. QED
      BY <1>2, <3>1, <3>2
  <2>5. Append(First(g, at), x) = First(g, at + 1)
    BY <1>1, <2>4, FirstMore
  <2>6. MadeOf(c, F, v, at + 1) = [tag |-> v.tag, kids |-> First(g, at + 1)]
    BY <1>1, <1>2 DEF MadeOf, Kids, Whole
  <2>. QED
    BY <1>1, <2>2, <2>5, <2>6
<1>3. CASE c.kind = "key" /\ at % 2 = 0
  <2>1. PICK k : k = at \div 2
    OBVIOUS
  <2>2. k \in Nat /\ (at + 1) % 2 # 0 /\ (at + 1) \div 2 = k /\ at + 1 # 0
    BY <1>1, <1>3, <2>1
  <2>3. Made(f) = [tag |-> v.tag, kids |-> First(g, k)]
    BY <1>1, <1>3, <2>1, MadeIs
  <2>4. NextOut(c, f, x) = [tag |-> v.tag, kids |-> Append(First(g, k), Key(x))]
    BY <1>1, <1>3, <2>3, WithIs DEF NextOut
  <2>5. x = F[c.key, v.kids[k + 1].kids[1]]
    BY <1>1, <1>3, <2>1 DEF RightPart, EntryOf
  <2>6. Kids(c, F, v, at + 1) = Append(First(g, k), Key(x))
    BY <1>1, <1>3, <2>2, <2>5 DEF Kids
  <2>7. MadeOf(c, F, v, at + 1) = [tag |-> v.tag, kids |-> Append(First(g, k), Key(x))]
    BY <2>2, <2>6 DEF MadeOf, Whole
  <2>. QED
    BY <1>1, <2>4, <2>7
<1>4. CASE c.kind = "key" /\ at % 2 # 0
  <2>1. PICK k : k = at \div 2
    OBVIOUS
  <2>2. /\ k \in Nat /\ (at + 1) % 2 = 0 /\ (at + 1) \div 2 = k + 1
        /\ at # 0 /\ at + 1 # 0 /\ k + 1 \in 1 .. size
    <3>1. size \in Nat /\ at \in Nat /\ at < 2 * size
      BY <1>0, <1>1, <1>4 DEF PartDue
    <3>. QED
      BY <1>4, <2>1, <3>1, OddHalves
  <2>3. PICK w : w = F[c.key, v.kids[k + 1].kids[1]]
    OBVIOUS
  <2>4. Kids(c, F, v, at) = Append(First(g, k), Key(w))
    BY <1>1, <1>4, <2>1, <2>3 DEF Kids
  <2>5. f.out = [tag |-> v.tag, kids |-> Append(First(g, k), Key(w))]
    BY <1>1, <2>2, <2>4 DEF MadeOf, Whole
  <2>6. NextOut(c, f, x) = [tag |-> v.tag, kids |-> Append(First(g, k), Entry(w, x))]
    <3>1. PICK S : First(g, k) \in Seq(S)
      BY <2>2, FirstMore
    <3>2. NextOut(c, f, x) = Elem(f.out, x)
      BY <1>1, <1>4 DEF NextOut
    <3>3. PICK s, t : s = First(g, k) /\ t = v.tag
      OBVIOUS
    <3>4. Elem([tag |-> t, kids |-> Append(s, Key(w))], x)
            = [tag |-> t, kids |-> Append(s, Entry(w, x))]
      <4>1. s \in Seq(S)
        BY <3>1, <3>3
      <4>. QED
        BY <4>1, ElemIs
    <3>. QED
      BY <2>5, <3>2, <3>3, <3>4
  <2>7. x = F[c.elem, v.kids[k + 1].kids[2]]
    BY <1>1, <1>4, <2>1 DEF RightPart, EntryOf
  <2>8. g[k + 1] = Entry(w, x)
    BY <1>0, <1>1, <1>4, <2>2, <2>3, <2>7 DEF PartsOf
  <2>9. Append(First(g, k), Entry(w, x)) = First(g, k + 1)
    BY <2>2, <2>8, FirstMore
  <2>10. Kids(c, F, v, at + 1) = First(g, k + 1)
    BY <1>1, <1>4, <2>2 DEF Kids
  <2>11. MadeOf(c, F, v, at + 1) = [tag |-> v.tag, kids |-> First(g, k + 1)]
    BY <2>2, <2>10 DEF MadeOf, Whole
  <2>. QED
    BY <1>1, <2>6, <2>9, <2>11
<1>. QED
  BY <1>2, <1>3, <1>4

(* With every part, it is the conversion of the value. *)
LEMMA WholeMade ==
  ASSUME NEW pg, Wholesome(pg), NEW f, IsFrame(f), Convertible(pg.code, f.node, f.in),
         Looping(pg.code, f.node), Partly(pg.code, f), f.at = SizeIn(pg.code, f)
  PROVE  f.out = Conversions[pg.code][f.node, f.in]
<1>1. PICK c, F, n, v, at : /\ c = pg.code[f.node] /\ F = Conversions[pg.code]
                            /\ n = f.node /\ v = f.in /\ at = f.at
  OBVIOUS
<1>2. c.kind \in {"index", "key", "struct"} /\ f.out = MadeOf(c, F, v, at) /\ at \in Nat
  BY <1>1 DEF Looping, Partly, IsFrame
<1>3. Converts(c, F, n, v)
  BY <1>1, ConversionConverts
<1>4. PICK g : g = PartsOf(c, F, v)
  OBVIOUS
<1>5. CASE c.kind = "index"
  <2>1. IndexConverts(c, F, n, v)
    BY <1>3, <1>5 DEF Converts
  <2>2. at = Len(v.kids)
    BY <1>1, <1>5 DEF SizeIn
  <2>3. g = [i \in 1 .. at |-> F[c.elem, v.kids[i]]]
    BY <1>4, <1>5, <2>2 DEF PartsOf
  <2>4. F[n, v] = Whole(v, at, g)
    BY <2>1, <2>2, <2>3 DEF IndexConverts
  <2>5. First(g, at) = g
    BY <2>3 DEF First
  <2>. QED
    BY <1>1, <1>2, <1>4, <1>5, <2>4, <2>5 DEF MadeOf, Kids
<1>6. CASE c.kind = "struct"
  <2>1. StructConverts(c, F, n, v)
    BY <1>3, <1>6 DEF Converts
  <2>2. at = Len(c.fields)
    BY <1>1, <1>6 DEF SizeIn
  <2>3. g = [i \in 1 .. at |-> FieldConverted(F, c.fields[i], v)]
    BY <1>4, <1>6, <2>2 DEF PartsOf
  <2>4. F[n, v] = Whole(v, at, g)
    BY <2>1, <2>2, <2>3 DEF StructConverts
  <2>5. First(g, at) = g
    BY <2>3 DEF First
  <2>. QED
    BY <1>1, <1>2, <1>4, <1>6, <2>4, <2>5 DEF MadeOf, Kids
<1>7. CASE c.kind = "key"
  <2>1. KeyConverts(c, F, n, v)
    BY <1>3, <1>7 DEF Converts
  <2>2. PICK size : size = Len(v.kids) /\ size \in Nat
    BY <2>1 DEF KeyConverts
  <2>3. at = 2 * size
    BY <1>1, <1>7, <2>2 DEF SizeIn
  <2>4. at % 2 = 0 /\ at \div 2 = size /\ (at = 0 <=> size = 0)
    BY <2>2, <2>3, Halves
  <2>5. g = [i \in 1 .. size |-> Entry(F[c.key, v.kids[i].kids[1]], F[c.elem, v.kids[i].kids[2]])]
    BY <1>4, <1>7, <2>2 DEF PartsOf
  <2>6. F[n, v] = Whole(v, size, g)
    BY <2>1, <2>2, <2>5 DEF KeyConverts
  <2>7. First(g, size) = g
    BY <2>5 DEF First
  <2>8. Kids(c, F, v, at) = g
    BY <1>4, <1>7, <2>4, <2>7 DEF Kids
  <2>. QED
    BY <1>1, <1>2, <2>4, <2>6, <2>8 DEF MadeOf, Whole
<1>. QED
  BY <1>2, <1>5, <1>6, <1>7

-----------------------------------------------------------------------------
(* Exactness.  Code without an error has been asked for by the code below it *)
(* and has made the parts of its output that it has gone through; what is    *)
(* returned without an error is the conversion of what was asked for.        *)
AskedAt(pg, v0, s, k, n, v) ==
  IF k = 0 THEN n = pg.root /\ v = v0 ELSE Asks(pg.code, s[k], n, v)

Placed(pg, v0, s, k) ==
  s[k].err = NoErr => AskedAt(pg, v0, s, k - 1, s[k].node, s[k].in) /\ Partly(pg.code, s[k])

Answers(pg, v0, s, r) ==
  /\ r.err = NoErr => \E n, v : AskedAt(pg, v0, s, Len(s), n, v)
                                /\ r.out = Conversions[pg.code][n, v]
  /\ s = <<>> /\ r.err # NoErr => r.out = Default(pg.code[pg.root])

Exact ==
  /\ stack # <<>> => stack[1].node = prog.root
  /\ \A k \in 1 .. Len(stack) : Placed(prog, input, stack, k)
  /\ \A r \in ret : Answers(prog, input, stack, r)

LEMMA BegunPartly ==
  ASSUME NEW code, NEW n, NEW v
  PROVE  Partly(code, Begin(n, v))
BY DEF Partly, Begin, MadeOf, Whole

LEMMA ExactAsks == ASSUME Typed, Exact, AsksOn PROVE Exact'
<1>1. stack # <<>> /\ NoFault /\ Fixed
  BY DEF AsksOn
<1>2. PICK n, v : Asks(prog.code, Top, n, v) /\ Enter(n, v)
  BY DEF AsksOn, AskInner
<1>3. PICK S : stack \in Seq(S)
  BY DEF Typed, Stacked
<1>4. PICK f, pg, v0 : f = Begin(n, v) /\ pg = prog /\ v0 = input
  OBVIOUS
<1>5. stack' = Append(stack, f) /\ ret' = {} /\ prog' = pg /\ input' = v0
  BY <1>1, <1>2, <1>4 DEF Enter, Fixed
<1>6. /\ stack' \in Seq(S \cup {f})
      /\ Len(stack') = Len(stack) + 1
      /\ stack'[Len(stack) + 1] = f
      /\ \A k \in 1 .. Len(stack) : stack'[k] = stack[k]
  BY <1>3, <1>5, Push
<1>7. Len(stack) \in Nat /\ Len(stack) >= 1
  BY <1>1, TopFits
<1>8. f.node = n /\ f.in = v /\ Partly(pg.code, f)
  BY <1>4, BegunPartly DEF Begin
<1>9. PICK s, t : s = stack /\ t = stack'
  OBVIOUS
<1>10. ASSUME NEW k \in 1 .. Len(t) PROVE Placed(pg, v0, t, k)
  <2>1. CASE k = Len(s) + 1
    <3>1. t[k] = f /\ t[k - 1] = Top /\ k - 1 # 0
      BY <1>6, <1>7, <1>9, <2>1 DEF Top
    <3>2. AskedAt(pg, v0, t, k - 1, n, v)
      BY <1>2, <1>4, <3>1 DEF AskedAt
    <3>. QED
      BY <1>8, <3>1, <3>2 DEF Placed
  <2>2. CASE k # Len(s) + 1
    <3>1. k \in 1 .. Len(s) /\ t[k] = s[k] /\ (k - 1 # 0 => t[k - 1] = s[k - 1])
      BY <1>6, <1>7, <1>9, <2>2
    <3>2. Placed(pg, v0, s, k)
      BY <1>4, <1>9, <3>1 DEF Exact
    <3>3. AskedAt(pg, v0, t, k - 1, s[k].node, s[k].in)
            <=> AskedAt(pg, v0, s, k - 1, s[k].node, s[k].in)
      BY <3>1 DEF AskedAt
    <3>. QED
      BY <3>1, <3>2, <3>3 DEF Placed
  <2>. QED
    BY <2>1, <2>2
<1>11. t[1].node = pg.root
  BY <1>1, <1>4, <1>6, <1>7, <1>9 DEF Exact
<1>. QED
  BY <1>5, <1>9, <1>10, <1>11 DEF Exact

(* What is asked for is the next part of a loop or a struct. *)
LEMMA AskedPart ==
  ASSUME NEW code, NEW F, NEW f, NEW n, NEW v, Asks(code, f, n, v)
  PROVE  RightPart(code[f.node], F, f, F[n, v])
<1>1. PICK c : c = code[f.node]
  OBVIOUS
<1>2. CASE c.kind = "index"
  <2>1. n = c.elem /\ v = f.in.kids[f.at + 1]
    BY <1>1, <1>2 DEF Asks, KeyAsks, StructAsks, UnionAsks
  <2>. QED
    BY <1>1, <1>2, <2>1 DEF RightPart
<1>3. CASE c.kind = "struct"
  <2>1. StructAsks(c, f, n, v)
    BY <1>1, <1>3 DEF Asks, KeyAsks, UnionAsks
  <2>2. PICK m : m = c.fields[f.at + 1]
    OBVIOUS
  <2>3. ~Missing(m, f.in) /\ n = m.as /\ v = Matched(m, f.in)
    BY <2>1, <2>2 DEF StructAsks
  <2>4. FieldConverted(F, m, f.in) = F[n, v]
    BY <2>3 DEF FieldConverted
  <2>. QED
    BY <1>1, <1>3, <2>2, <2>4 DEF RightPart
<1>4. CASE c.kind = "key"
  <2>1. KeyAsks(c, f, n, v)
    BY <1>1, <1>4 DEF Asks, StructAsks, UnionAsks
  <2>2. IF f.at % 2 = 0 THEN n = c.key /\ v = EntryOf(f).kids[1]
                        ELSE n = c.elem /\ v = EntryOf(f).kids[2]
    BY <2>1 DEF KeyAsks
  <2>. QED
    BY <1>1, <1>4, <2>2 DEF RightPart
<1>5. CASE c.kind \notin {"index", "struct", "key"}
  BY <1>1, <1>5 DEF RightPart
<1>. QED
  BY <1>2, <1>3, <1>4, <1>5

(* What has been returned to the frame on top. *)
LEMMA Given ==
  ASSUME Typed, Exact, stack # <<>>, NEW r \in ret, r.err = NoErr
  PROVE  \E n, v : Asks(prog.code, Top, n, v) /\ r.out = Conversions[prog.code][n, v]
<1>1. Answers(prog, input, stack, r)
  BY DEF Exact
<1>2. PICK n, v : AskedAt(prog, input, stack, Len(stack), n, v)
                  /\ r.out = Conversions[prog.code][n, v]
  BY <1>1 DEF Answers
<1>3. Len(stack) # 0
  BY TopFits
<1>4. Asks(prog.code, Top, n, v)
  BY <1>2, <1>3 DEF AskedAt, Top
<1>. QED
  BY <1>2, <1>4

LEMMA GotRight ==
  ASSUME Typed, Exact, stack # <<>>, NEW x, GotPart(x)
  PROVE  RightPart(Code, Conversions[prog.code], Top, x)
<1>1. PICK F : F = Conversions[prog.code]
  OBVIOUS
<1>2. Code = prog.code[Top.node]
  BY DEF Code
<1>3. CASE Code.kind = "struct" /\ Missing(Field, Top.in) /\ x = Zero
  <2>1. FieldConverted(F, Field, Top.in) = x
    BY <1>3 DEF FieldConverted
  <2>. QED
    BY <1>1, <1>3, <2>1 DEF RightPart, Field
<1>4. CASE \E r \in ret : r.err = NoErr /\ x = r.out
  <2>1. PICK r \in ret : r.err = NoErr /\ x = r.out
    BY <1>4
  <2>2. PICK n, v : Asks(prog.code, Top, n, v) /\ r.out = F[n, v]
    BY <1>1, <2>1, Given
  <2>3. RightPart(prog.code[Top.node], F, Top, F[n, v])
    BY <2>2, AskedPart
  <2>. QED
    BY <1>1, <1>2, <2>1, <2>2, <2>3
<1>. QED
  BY <1>3, <1>4 DEF GotPart

LEMMA GoesPartly ==
  ASSUME Typed, Exact, stack # <<>>, Pending(prog.code, Top), Looping(prog.code, Top.node),
         NEW f, Goes(f), f.err = NoErr
  PROVE  Partly(prog.code, f)
<1>1. PICK c, F, t : c = Code /\ F = Conversions[prog.code] /\ t = Top
  OBVIOUS
<1>2. /\ IsFrame(t) /\ Fitting(prog.code, t) /\ c = prog.code[t.node]
      /\ t.err = NoErr /\ t.at < SizeIn(prog.code, t) /\ Wholesome(prog)
      /\ c.kind \in {"index", "key", "struct"}
  BY <1>1, TopFits DEF Pending, Looping, Typed
<1>3. PICK x : GotPart(x) /\ f.out = NextOut(c, t, x)
  BY <1>1 DEF Goes
<1>4. f.in = t.in /\ f.at = t.at + 1 /\ f.node = t.node
  BY <1>1 DEF Goes
<1>5. RightPart(c, F, t, x)
  BY <1>1, <1>3, GotRight
<1>6. t.out = MadeOf(c, F, t.in, t.at)
  <2>1. Placed(prog, input, stack, Len(stack))
    BY TopFits DEF Exact
  <2>2. Partly(prog.code, t)
    BY <1>1, <1>2, <2>1 DEF Placed, Top
  <2>. QED
    BY <1>1, <1>2, <2>2 DEF Partly, Looping
<1>7. PartDue(c, t)
  <2>1. c.kind \in {"index", "key"} => Len(t.in.kids) \in Nat
    BY <1>2, SizeIs DEF Fitting, IsFrame
  <2>2. c.kind = "struct" => Len(c.fields) \in Nat
    BY <1>1, AssignerParts, TopFits
  <2>. QED
    BY <1>2, <2>1, <2>2 DEF PartDue, SizeIn
<1>8. t.at \in Nat
  BY <1>2 DEF IsFrame
<1>9. NextOut(c, t, x) = MadeOf(c, F, t.in, t.at + 1)
  BY <1>2, <1>5, <1>6, <1>7, <1>8, NextMade
<1>. QED
  BY <1>1, <1>2, <1>3, <1>4, <1>9 DEF Partly

LEMMA ExactGoes == ASSUME Typed, Exact, GoesOn PROVE Exact'
<1>1. /\ stack # <<>> /\ Fixed /\ Pending(prog.code, Top) /\ Looping(prog.code, Top.node)
  BY DEF GoesOn
<1>2. PICK f : Goes(f) /\ Continue(f)
  BY DEF GoesOn
<1>3. PICK S : stack \in Seq(S)
  BY DEF Typed, Stacked
<1>4. PICK pg, v0, s, t : pg = prog /\ v0 = input /\ s = stack /\ t = stack'
  OBVIOUS
<1>5. stack' = [stack EXCEPT ![Len(stack)] = f] /\ ret' = {} /\ prog' = pg /\ input' = v0
  BY <1>1, <1>2, <1>4 DEF Continue, Fixed
<1>6. /\ Len(t) = Len(s) /\ t[Len(s)] = f
      /\ \A k \in 1 .. Len(s) - 1 : t[k] = s[k]
  BY <1>1, <1>3, <1>4, <1>5, Replace
<1>7. Len(s) \in Nat /\ Len(s) >= 1
  BY <1>1, <1>4, TopFits
<1>8. ASSUME NEW k \in 1 .. Len(t) PROVE Placed(pg, v0, t, k)
  <2>1. Placed(pg, v0, s, k) /\ (k - 1 # 0 => t[k - 1] = s[k - 1])
    BY <1>4, <1>6, <1>7 DEF Exact
  <2>2. \A n, v : AskedAt(pg, v0, t, k - 1, n, v) <=> AskedAt(pg, v0, s, k - 1, n, v)
    BY <2>1 DEF AskedAt
  <2>3. CASE k = Len(s)
    <3>1. t[k] = f /\ s[k] = Top
      BY <1>4, <1>6, <2>3 DEF Top
    <3>2. SUFFICES ASSUME f.err = NoErr
                   PROVE  AskedAt(pg, v0, t, k - 1, f.node, f.in) /\ Partly(pg.code, f)
      BY <3>1 DEF Placed
    <3>3. f.in = Top.in /\ f.node = Top.node
      BY <1>2, <3>2 DEF Goes
    <3>4. Top.err = NoErr
      BY <1>1 DEF Pending
    <3>5. AskedAt(pg, v0, t, k - 1, f.node, f.in)
      BY <2>1, <2>2, <3>1, <3>3, <3>4 DEF Placed
    <3>6. Partly(pg.code, f)
      BY <1>1, <1>2, <1>4, <3>2, GoesPartly
    <3>. QED
      BY <3>5, <3>6
  <2>4. CASE k # Len(s)
    <3>1. t[k] = s[k]
      BY <1>6, <1>7, <2>4
    <3>. QED
      BY <2>1, <2>2, <3>1 DEF Placed
  <2>. QED
    BY <2>3, <2>4
<1>9. t[1].node = pg.root
  <2>1. s[1].node = pg.root
    BY <1>1, <1>4 DEF Exact
  <2>2. CASE Len(s) = 1
    BY <1>2, <1>4, <1>6, <2>1, <2>2 DEF Goes, Top
  <2>3. CASE Len(s) # 1
    BY <1>6, <1>7, <2>1, <2>3
  <2>. QED
    BY <2>2, <2>3
<1>. QED
  BY <1>4, <1>5, <1>8, <1>9 DEF Exact

(* What the outermost function and its callees have been built with: errors  *)
(* are declared, and unions that return them have no wrappers.               *)
Grounded(Q) ==
  /\ ErrorsAreDeclared(prog.code, Q)
  /\ prog.code[prog.root].kind \in Functions
  /\ prog.wraps = <<>> \/ \A n \in Nodes : ~ErrUnion(prog.code, n)

Exactly(Q) == Typed /\ Inv(Q) /\ Grounded(Q) /\ Exact

(* Code ends: with the conversion of its input, or with an error. *)
Finished(v, e) ==
  /\ e = NoErr => Top.err = NoErr /\ v = Conversions[prog.code][Top.node, Top.in]
  /\ e # NoErr /\ Code.kind \in Functions => v = Default(Code)

Finishes == stack # <<>> /\ Fixed /\ \E v, e : Return(v, e) /\ Finished(v, e)

LEMMA ExactEnds == ASSUME Typed, Exact, NEW Q, Grounded(Q), Finishes PROVE Exact'
<1>1. stack # <<>> /\ Fixed
  BY DEF Finishes
<1>2. PICK v, e : Return(v, e) /\ Finished(v, e)
  BY DEF Finishes
<1>3. PICK S : stack \in Seq(S)
  BY DEF Typed, Stacked
<1>4. PICK pg, v0, s, t, q : /\ pg = prog /\ v0 = input /\ s = stack /\ t = stack'
                             /\ q = [out |-> v, err |-> e]
  OBVIOUS
<1>5. stack' = Pop(stack) /\ ret' = {q} /\ prog' = pg /\ input' = v0
  BY <1>1, <1>2, <1>4 DEF Return, Fixed
<1>6. /\ Len(t) = Len(s) - 1 /\ t \in Seq(S)
      /\ Len(s) \in Nat /\ Len(s) >= 1
      /\ \A k \in 1 .. Len(s) - 1 : t[k] = s[k]
  BY <1>1, <1>3, <1>4, <1>5, PopTop
<1>7. q.out = v /\ q.err = e
  BY <1>4
<1>8. ASSUME NEW k \in 1 .. Len(t) PROVE Placed(pg, v0, t, k)
  <2>1. Placed(pg, v0, s, k) /\ t[k] = s[k] /\ (k - 1 # 0 => t[k - 1] = s[k - 1])
    BY <1>4, <1>6 DEF Exact
  <2>2. \A n, w : AskedAt(pg, v0, t, k - 1, n, w) <=> AskedAt(pg, v0, s, k - 1, n, w)
    BY <2>1 DEF AskedAt
  <2>. QED
    BY <2>1, <2>2 DEF Placed
<1>9. t # <<>> => t[1].node = pg.root
  <2>1. t # <<>> => Len(t) >= 1
    BY <1>6
  <2>. QED
    BY <1>1, <1>4, <1>6, <2>1 DEF Exact
<1>10. e = NoErr => \E n, w : AskedAt(pg, v0, t, Len(t), n, w) /\ v = Conversions[pg.code][n, w]
  <2>. SUFFICES ASSUME e = NoErr
                PROVE  \E n, w : AskedAt(pg, v0, t, Len(t), n, w) /\ v = Conversions[pg.code][n, w]
    OBVIOUS
  <2>1. PICK n, w : n = Top.node /\ w = Top.in
    OBVIOUS
  <2>2. Top.err = NoErr /\ v = Conversions[pg.code][n, w]
    BY <1>2, <1>4, <2>1 DEF Finished
  <2>3. Placed(pg, v0, s, Len(s)) /\ s[Len(s)] = Top
    BY <1>4, <1>6 DEF Exact, Top
  <2>4. AskedAt(pg, v0, s, Len(s) - 1, n, w)
    BY <2>1, <2>2, <2>3 DEF Placed
  <2>5. Len(s) - 1 # 0 => t[Len(s) - 1] = s[Len(s) - 1]
    BY <1>6
  <2>6. AskedAt(pg, v0, t, Len(s) - 1, n, w)
    BY <2>4, <2>5 DEF AskedAt
  <2>. QED
    BY <1>6, <2>2, <2>6
<1>11. t = <<>> /\ e # NoErr => v = Default(pg.code[pg.root])
  <2>. SUFFICES ASSUME t = <<>>, e # NoErr PROVE v = Default(pg.code[pg.root])
    OBVIOUS
  <2>1. Len(s) = 1
    BY <1>6
  <2>2. Top.node = pg.root
    BY <1>1, <1>4, <2>1 DEF Exact, Top
  <2>3. Code = pg.code[pg.root] /\ Code.kind \in Functions
    BY <1>4, <2>2 DEF Code, Grounded
  <2>. QED
    BY <1>2, <2>3 DEF Finished
<1>12. Answers(pg, v0, t, q)
  BY <1>7, <1>10, <1>11 DEF Answers
<1>. QED
  BY <1>4, <1>5, <1>8, <1>9, <1>12 DEF Exact

-----------------------------------------------------------------------------
(* One lemma for each kind of code that ends. *)
LEMMA PlainTop ==
  ASSUME Typed, stack # <<>>, Code.kind \notin {"index", "key", "struct"}
  PROVE  /\ Top.err = NoErr
         /\ Converts(Code, Conversions[prog.code], Top.node, Top.in)
<1>1. Fitting(prog.code, Top) /\ Code = prog.code[Top.node]
  BY TopFits
<1>2. Top.err = NoErr /\ Convertible(prog.code, Top.node, Top.in)
  BY <1>1 DEF Fitting, Looping
<1>3. PICK n, v : n = Top.node /\ v = Top.in
  OBVIOUS
<1>4. Converts(prog.code[n], Conversions[prog.code], n, v)
  BY <1>2, <1>3, ConversionConverts DEF Typed
<1>. QED
  BY <1>1, <1>2, <1>3, <1>4

LEMMA FinishSimple ==
  ASSUME Typed, Copy \/ Hand \/ Enum \/ (Pointer /\ Code.depthX # 0 /\ Top.in = Zero)
  PROVE  Finishes
<1>1. stack # <<>> /\ Fixed /\ Code.kind \in {"copy", "hand", "enum", "pointer"}
  BY DEF Copy, Hand, Enum, Pointer, Running
<1>2. PICK c, F, n, v : c = Code /\ F = Conversions[prog.code] /\ n = Top.node /\ v = Top.in
  OBVIOUS
<1>3. Top.err = NoErr /\ Converts(c, F, n, v)
  BY <1>1, <1>2, PlainTop
<1>4. CASE Copy \/ (Hand /\ Return(v, NoErr)) \/ Enum
  <2>1. Return(v, NoErr)
    BY <1>2, <1>4 DEF Copy, Enum
  <2>2. F[n, v] = v
    BY <1>2, <1>3, <1>4 DEF Converts, Copy, Hand, Enum, Running
  <2>. QED
    BY <1>1, <1>2, <1>3, <2>1, <2>2 DEF Finishes, Finished
<1>5. CASE Hand /\ Return(Zero, <<"hand">>)
  <2>1. <<"hand">> # NoErr /\ Code.kind \notin Functions
    BY <1>5 DEF NoErr, Functions, Hand, Running
  <2>. QED
    BY <1>1, <1>5, <2>1 DEF Finishes, Finished
<1>6. CASE Pointer /\ Code.depthX # 0 /\ Top.in = Zero
  <2>1. Return(Zero, NoErr) /\ c.kind = "pointer"
    BY <1>2, <1>6 DEF Pointer, Running
  <2>2. PointerConverts(c, F, n, v)
    BY <1>3, <2>1 DEF Converts
  <2>3. F[n, v] = Zero
    BY <1>2, <1>6, <2>2 DEF PointerConverts
  <2>. QED
    BY <1>1, <1>2, <1>3, <2>1, <2>3 DEF Finishes, Finished
<1>. QED
  BY <1>2, <1>4, <1>5, <1>6 DEF Hand

LEMMA FinishDefault ==
  ASSUME Typed, UnionDefault \/ EnumDefault
  PROVE  Finishes
<1>1. stack # <<>> /\ Fixed /\ Code.kind \in {"union", "enum"}
  BY DEF UnionDefault, EnumDefault, Running
<1>2. PICK c, F, n, v : c = Code /\ F = Conversions[prog.code] /\ n = Top.node /\ v = Top.in
  OBVIOUS
<1>3. Top.err = NoErr /\ Converts(c, F, n, v)
  BY <1>1, <1>2, PlainTop
<1>4. F[n, v] = Default(c)
  <2>1. CASE UnionDefault
    <3>1. c.kind = "union" /\ \A i \in DOMAIN c.cases : c.cases[i].impl # v.tag
      BY <1>2, <2>1 DEF UnionDefault, Running, UnionCase
    <3>2. UnionConverts(c, F, n, v)
      BY <1>3, <3>1 DEF Converts
    <3>. QED
      BY <3>1, <3>2 DEF UnionConverts, Default
  <2>2. CASE EnumDefault
    <3>1. c.kind = "enum" /\ v.tag \notin c.members
      BY <1>2, <2>2 DEF EnumDefault, Running
    <3>. QED
      BY <1>3, <3>1 DEF Converts
  <2>. QED
    BY <2>1, <2>2
<1>5. PICK e : Return(Default(c), e)
  <2>1. CASE UnionDefault
    <3>1. Default(c) = Zero
      BY <1>2, <2>1 DEF UnionDefault, Running, Default
    <3>. QED
      BY <2>1, <3>1 DEF UnionDefault, NoMatch
  <2>2. CASE EnumDefault
    <3>1. Default(c) = [tag |-> Code.default, kids |-> <<>>]
      BY <1>2, <2>2 DEF EnumDefault, Running, Default
    <3>. QED
      BY <2>2, <3>1 DEF EnumDefault, NoMatch
  <2>. QED
    BY <2>1, <2>2
<1>. QED
  BY <1>1, <1>2, <1>3, <1>4, <1>5 DEF Finishes, Finished

LEMMA FinishCall ==
  ASSUME NEW Q, Exactly(Q), CallReturns
  PROVE  Finishes
<1>1. stack # <<>> /\ Fixed /\ Code.kind = "call" /\ Typed /\ Exact
  BY DEF CallReturns, Resuming, Exactly
<1>2. PICK c, F, n, v : c = Code /\ F = Conversions[prog.code] /\ n = Top.node /\ v = Top.in
  OBVIOUS
<1>3. Top.err = NoErr /\ Converts(c, F, n, v)
  BY <1>1, <1>2, PlainTop
<1>4. PICK r \in ret :
        Return(r.out, IF r.err = NoErr THEN NoErr ELSE ErrWrap(Append(r.err, "converting")))
  BY DEF CallReturns
<1>5. CASE r.err = NoErr
  <2>1. PICK m, w : Asks(prog.code, Top, m, w) /\ r.out = F[m, w]
    BY <1>1, <1>2, <1>5, Given
  <2>2. m = c.to /\ w = v
    BY <1>1, <1>2, <2>1 DEF Asks, KeyAsks, StructAsks, UnionAsks, Code
  <2>3. F[n, v] = F[m, w]
    BY <1>1, <1>2, <1>3, <2>2 DEF Converts
  <2>4. Return(r.out, NoErr)
    BY <1>4, <1>5
  <2>. QED
    BY <1>1, <1>2, <1>3, <2>1, <2>3, <2>4 DEF Finishes, Finished
<1>6. CASE r.err # NoErr
  <2>1. r.err \in Seq(Marks)
    BY <1>1, Answering DEF Typed
  <2>2. PICK e : e = ErrWrap(Append(r.err, "converting"))
    OBVIOUS
  <2>3. e # NoErr
    BY <1>6, <2>1, <2>2, AddMark, WrapKeeps DEF Exactly, Inv
  <2>4. Return(r.out, e) /\ Code.kind \notin Functions
    BY <1>1, <1>4, <1>6, <2>2 DEF Functions
  <2>. QED
    BY <1>1, <2>3, <2>4 DEF Finishes, Finished
<1>. QED
  BY <1>5, <1>6

LEMMA FinishPointer ==
  ASSUME Typed, Exact, PointerReturns
  PROVE  Finishes
<1>1. stack # <<>> /\ Fixed /\ Code.kind = "pointer"
  BY DEF PointerReturns, Resuming
<1>2. PICK c, F, n, v : c = Code /\ F = Conversions[prog.code] /\ n = Top.node /\ v = Top.in
  OBVIOUS
<1>3. Top.err = NoErr /\ Converts(c, F, n, v)
  BY <1>1, <1>2, PlainTop
<1>4. PICK r \in ret : Return(Pointing(c, r.out), r.err)
  BY <1>2 DEF PointerReturns, Pointing
<1>5. CASE r.err = NoErr
  <2>1. PICK m, w : Asks(prog.code, Top, m, w) /\ r.out = F[m, w]
    BY <1>1, <1>2, <1>5, Given
  <2>2. ~(c.depthX # 0 /\ v = Zero) /\ m = c.elem /\ w = Pointed(c, v)
    BY <1>1, <1>2, <2>1 DEF Asks, KeyAsks, StructAsks, UnionAsks, Code
  <2>3. PointerConverts(c, F, n, v)
    BY <1>1, <1>2, <1>3 DEF Converts
  <2>4. F[n, v] = Pointing(c, F[m, w])
    BY <2>2, <2>3 DEF PointerConverts
  <2>. QED
    BY <1>1, <1>2, <1>3, <1>4, <1>5, <2>1, <2>4 DEF Finishes, Finished
<1>6. CASE r.err # NoErr
  BY <1>1, <1>4, <1>6 DEF Finishes, Finished, Functions
<1>. QED
  BY <1>5, <1>6

(* A union is returned no error: one that returns errors has cases that      *)
(* cannot fail, and one that does not cannot fail itself.                    *)
LEMMA FinishUnion ==
  ASSUME NEW Q, Exactly(Q), UnionReturns
  PROVE  Finishes
<1>1. stack # <<>> /\ Fixed /\ Code.kind = "union" /\ Typed /\ Exact /\ Inv(Q) /\ Grounded(Q)
  BY DEF UnionReturns, Resuming, Exactly
<1>2. PICK c, F, n, v : c = Code /\ F = Conversions[prog.code] /\ n = Top.node /\ v = Top.in
  OBVIOUS
<1>3. Top.err = NoErr /\ Converts(c, F, n, v) /\ c = prog.code[n] /\ n \in Nodes
  BY <1>1, <1>2, PlainTop, TopFits DEF IsFrame
<1>4. PICK r \in ret : Return(r.out, IF c.hasErr THEN ErrWrap(NoErr) ELSE r.err)
  BY <1>2 DEF UnionReturns
<1>5. Muted(Q, n)
  BY <1>1, <1>2, <1>3 DEF Muted, ErrUnion, Grounded, ErrorsAreDeclared, Functions
<1>6. r.err = NoErr
  BY <1>1, <1>2, <1>5, Answer
<1>7. c.hasErr => ErrWrap(NoErr) = NoErr
  <2>1. c.hasErr => prog.wraps = <<>>
    BY <1>1, <1>2, <1>3 DEF Grounded, ErrUnion
  <2>. QED
    BY <1>1, <2>1, CauseMarks, NothingToWrap
<1>8. Return(r.out, NoErr)
  BY <1>4, <1>6, <1>7
<1>9. PICK m, w : Asks(prog.code, Top, m, w) /\ r.out = F[m, w]
  BY <1>1, <1>2, <1>6, Given
<1>10. UnionAsks(c, Top, m, w)
  BY <1>1, <1>2, <1>3, <1>9 DEF Asks, KeyAsks, StructAsks
<1>11. UnionConverts(c, F, n, v)
  BY <1>1, <1>2, <1>3 DEF Converts
<1>12. F[n, v] = F[m, w]
  BY <1>2, <1>10, <1>11 DEF UnionAsks, UnionConverts
<1>. QED
  BY <1>1, <1>2, <1>3, <1>8, <1>9, <1>12 DEF Finishes, Finished

(* The end of a loop or a struct without an error. *)
LEMMA AtTheEnd ==
  ASSUME Typed, Exact, stack # <<>>, Code.kind \in {"index", "key", "struct"},
         Top.err = NoErr, Top.at = Size(Top)
  PROVE  Top.out = Conversions[prog.code][Top.node, Top.in]
<1>1. PICK f : f = Top
  OBVIOUS
<1>2. IsFrame(f) /\ Fitting(prog.code, f) /\ Code = prog.code[f.node]
  BY <1>1, TopFits
<1>3. Convertible(prog.code, f.node, f.in) /\ Looping(prog.code, f.node)
  BY <1>1, <1>2 DEF Fitting, Looping
<1>4. Placed(prog, input, stack, Len(stack))
  BY TopFits DEF Exact
<1>5. Partly(prog.code, f)
  BY <1>1, <1>4 DEF Placed, Top
<1>6. f.at = SizeIn(prog.code, f)
  BY <1>1, SizeHere
<1>. QED
  BY <1>1, <1>2, <1>3, <1>5, <1>6, WholeMade DEF Typed

LEMMA FinishLoops ==
  ASSUME NEW Q, Exactly(Q), IndexEnd \/ KeyEnd \/ StructEnd
  PROVE  Finishes
<1>1. /\ stack # <<>> /\ Fixed /\ Typed /\ Exact /\ Inv(Q) /\ Grounded(Q)
      /\ Code.kind \in {"index", "key", "struct"}
      /\ Top.err # NoErr \/ Top.at = Size(Top)
  BY DEF IndexEnd, KeyEnd, StructEnd, Running, Exactly
<1>2. CASE Top.err = NoErr
  <2>1. Return(Top.out, Top.err)
    BY <1>2 DEF IndexEnd, KeyEnd, StructEnd
  <2>2. Top.out = Conversions[prog.code][Top.node, Top.in]
    BY <1>1, <1>2, AtTheEnd
  <2>. QED
    BY <1>1, <1>2, <2>1, <2>2 DEF Finishes, Finished
<1>3. CASE Top.err # NoErr /\ Code.kind # "struct"
  <2>1. Return(Top.out, Top.err)
    BY <1>3 DEF IndexEnd, KeyEnd, StructEnd, Running
  <2>. QED
    BY <1>1, <1>3, <2>1 DEF Finishes, Finished, Functions
<1>4. CASE Top.err # NoErr /\ Code.kind = "struct"
  <2>1. Top.node \in Nodes /\ Top.node \notin Q /\ Code = prog.code[Top.node]
    BY <1>1, <1>4, TopFrame, TopFits
  <2>2. Code.hasErr
    BY <1>1, <1>4, <2>1 DEF Grounded, ErrorsAreDeclared, Functions
  <2>3. Return(Zero, Top.err)
    BY <1>4, <2>2 DEF IndexEnd, KeyEnd, StructEnd, Running
  <2>4. Default(Code) = Zero
    BY <1>4 DEF Default
  <2>. QED
    BY <1>1, <1>4, <2>3, <2>4 DEF Finishes, Finished
<1>. QED
  BY <1>1, <1>2, <1>3, <1>4

LEMMA StepsOfCode ==
  ASSUME NEW Q, Exactly(Q), Next, ~Returned
  PROVE  AsksOn \/ GoesOn \/ Finishes
<1>1. Typed /\ Exact
  BY DEF Exactly
<1>2. CASE \/ IndexNext \/ KeyNext \/ FieldNext \/ Call \/ Union
           \/ (Pointer /\ ~(Code.depthX # 0 /\ Top.in = Zero))
  BY <1>1, <1>2, AskingLoops, AskingOthers, AskingFields DEF AsksOn
<1>3. CASE \/ IndexAssign \/ KeyAssign \/ FieldAssign \/ FieldSkipped
           \/ GetterFails \/ FieldFails \/ SetterFails
  BY <1>1, <1>3, GoingIndex, GoingKey, GoingAssign, GoingSkipped, GoingGoto
<1>4. CASE \/ CallReturns \/ UnionReturns \/ IndexEnd \/ KeyEnd \/ StructEnd
  BY <1>4, FinishCall, FinishUnion, FinishLoops
<1>5. CASE \/ PointerReturns \/ Copy \/ Hand \/ Enum \/ UnionDefault \/ EnumDefault
           \/ (Pointer /\ Code.depthX # 0 /\ Top.in = Zero)
  BY <1>1, <1>5, FinishPointer, FinishSimple, FinishDefault
<1>. QED
  BY <1>2, <1>3, <1>4, <1>5 DEF Next

LEMMA ExactStutters == ASSUME Exact, UNCHANGED vars PROVE Exact'
<1>1. prog' = prog /\ input' = input /\ stack' = stack /\ ret' = ret
  BY DEF vars
<1>. QED
  BY <1>1 DEF Exact

LEMMA GroundedStays == ASSUME NEW Q, Grounded(Q), prog' = prog PROVE Grounded(Q)'
BY DEF Grounded

LEMMA NextExactly ==
  ASSUME NEW Q, Exactly(Q), [Next]_vars
  PROVE  Exactly(Q)'
<1>1. Typed /\ Inv(Q) /\ Grounded(Q) /\ Exact
  BY DEF Exactly
<1>2. CASE UNCHANGED vars
  <2>1. Exact' /\ prog' = prog
    BY <1>1, <1>2, ExactStutters DEF vars
  <2>. QED
    BY <1>1, <1>2, <2>1, NextTyped, NextInv, GroundedStays DEF Exactly
<1>3. CASE Next /\ ~Returned
  <2>1. AsksOn \/ GoesOn \/ Finishes
    BY <1>3, StepsOfCode
  <2>2. Exact'
    BY <1>1, <2>1, ExactAsks, ExactGoes, ExactEnds
  <2>3. prog' = prog
    BY <2>1 DEF AsksOn, GoesOn, Finishes, Fixed
  <2>. QED
    BY <1>1, <1>3, <2>2, <2>3, NextTyped, NextInv, GroundedStays DEF Exactly
<1>. QED
  BY <1>2, <1>3 DEF Returned

LEMMA InitExactly ==
  ASSUME FunctionsDeclareErrors, UnionsUnwrapped, Init
  PROVE  \E Q \in SUBSET Nodes : Exactly(Q)
<1>1. PICK pg \in Programs : pg.code = prog.code /\ pg.root = prog.root /\ pg.wraps = prog.wraps
  BY Starting
<1>2. PICK Q \in SUBSET Nodes :
        CannotFail(pg.code, Q) /\ CasesCannotFail(pg.code, Q) /\ ErrorsAreDeclared(pg.code, Q)
  BY DEF FunctionsDeclareErrors
<1>3. Grounded(Q)
  BY <1>1, <1>2 DEF Grounded, FunctionsDeclareErrors, UnionsUnwrapped
<1>4. Inv(Q)
  BY <1>1, <1>2, InitInv
<1>5. Exact
  <2>1. PICK f : f = Begin(prog.root, input)
    OBVIOUS
  <2>2. stack = <<f>> /\ ret = {}
    BY <2>1 DEF Init
  <2>3. f.node = prog.root /\ f.in = input /\ Partly(prog.code, f)
    BY <2>1, BegunPartly DEF Begin
  <2>4. Placed(prog, input, stack, 1)
    BY <2>2, <2>3 DEF Placed, AskedAt
  <2>. QED
    BY <2>2, <2>3, <2>4 DEF Exact
<1>. QED
  BY <1>3, <1>4, <1>5, InitTyped DEF Exactly

(* Where every function that returns no error calls nothing that does, no    *)
(* implementation's conversion can fail in a union that returns one, and no  *)
(* such union has wrappers, a converter of a struct, union or enum returns   *)
(* the conversion of its whole input if nothing fails, and otherwise an      *)
(* error and the zero value, or an enum's default: no part of the input is   *)
(* left out or put elsewhere, and nothing half converted gets out            *)
(* (index.go:56, key.go:85, struct.go:466, union.go:217, enum.go:145).       *)
THEOREM ConversionsAreExact ==
  ASSUME FunctionsDeclareErrors, UnionsUnwrapped
  PROVE  Spec => []ConversionIsExact
<1>1. Init => \E Q \in SUBSET Nodes : Exactly(Q)
  BY InitExactly
<1>2. (\E Q \in SUBSET Nodes : Exactly(Q)) /\ [Next]_vars => (\E Q \in SUBSET Nodes : Exactly(Q))'
  BY NextExactly
<1>3. (\E Q \in SUBSET Nodes : Exactly(Q)) => ConversionIsExact
  <2>. SUFFICES ASSUME NEW Q, Exactly(Q), Done, NEW r \in ret
                PROVE  \/ r.err = NoErr /\ r.out = Conversions[prog.code][prog.root, input]
                       \/ r.err # NoErr /\ r.out = Default(prog.code[prog.root])
    BY DEF ConversionIsExact
  <2>1. Answers(prog, input, stack, r) /\ stack = <<>> /\ Len(stack) = 0
    BY DEF Exactly, Exact, Done
  <2>. QED
    BY <2>1 DEF Answers, AskedAt
<1>. QED
  BY <1>1, <1>2, <1>3, PTL DEF Spec
=============================================================================
