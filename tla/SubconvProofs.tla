----------------------------- MODULE SubconvProofs -----------------------------
(***************************************************************************)
(* Proofs about the construction of subconverters, for every package,      *)
(* every number of pairs and modules and every depth of the stack.         *)
(***************************************************************************)
EXTENDS SubconvProps, SequenceTheorems, TLAPS

(***************************************************************************)
(* The n factories and the tryStruct calls fs nest: each factory belongs   *)
(* to the frame of one attempt, and an attempt's factory is newer than     *)
(* those of the frames below it.                                           *)
(***************************************************************************)
FramesFit(fs, n) ==
  \A k \in 1 .. Len(fs) :
    /\ fs[k].kind = "explicit" <=> k = 1
    /\ k = 1 => fs[k].fac = 1
    /\ fs[k].fac \in 1 .. n

TriesAscend(fs) ==
  \A k \in 1 .. Len(fs) : fs[k].kind = "try" => \A j \in 1 .. k - 1 : fs[j].fac < fs[k].fac

Owned(fs, n) ==
  \A f \in 1 .. n : \E k \in 1 .. Len(fs) : fs[k].kind # "rerun" /\ fs[k].fac = f

Nesting(fs, n) == FramesFit(fs, n) /\ TriesAscend(fs) /\ Owned(fs, n)

(* A call that waits for another is in the middle of a field. *)
Waiting(fs) == \A k \in 1 .. Len(fs) - 1 : fs[k].todo # <<>>

(* A factory's line leads down to the injector's. *)
LinesDescend(fas) == \A f \in 1 .. Len(fas) : fas[f].line \subseteq 1 .. f

Nested ==
  /\ prog \in Programs
  /\ status \in {"idle", "done"} => facs = <<>> /\ frames = <<>>
  /\ status \notin {"idle", "done"} => frames # <<>> /\ cur \in DOMAIN prog.injs
  /\ Nesting(frames, Len(facs))
  /\ Waiting(frames)
  /\ LinesDescend(facs)

Typed == TypeOK /\ Nested

(***************************************************************************)
(* What keeps errors out of functions that return none.  A subconverter    *)
(* that is complete, in a fork or exported, is safe; the one incomplete    *)
(* subconverter of a fork is the one its attempt is for, and it returns    *)
(* errors exactly if the fork does; a fork returns errors only if its      *)
(* caller does.                                                            *)
(***************************************************************************)
SafeFn(m, s) ==
  s.hasErr \/ /\ \A fn \in s.calls : ~fn.hasErr
              /\ ~AccErr(prog.shape[m][s.pair])

KeepsErrorsOut(fac) == fac.allowsErr \/ \A s \in fac.new : ~s.hasErr

SafeNew(fac) == \A s \in fac.new : s.done => SafeFn(Inj.mod, s)

Holding(fr, fac) ==
  /\ \E s \in fac.new : s.pair = fr.pair
  /\ \A s \in fac.new : s.done <=> s.pair # fr.pair
  /\ \A s \in fac.new : ~s.done => (s.hasErr <=> fac.allowsErr)

Reporting(fr) ==
  fr.fac = 1 /\ \E s \in subconvs[Inj.mod] : s.pair = fr.pair /\ s.hasErr

SafeRoot(fr, fac) ==
  /\ fac.allowsErr <=> Inj.hasErr
  /\ \A s \in fac.new : s.done
  /\ ~Inj.hasErr => /\ \A fn \in fr.calls : ~fn.hasErr
                    /\ fr.err \/ ~AccErr(Inj.shape[Inj.pair])

SafeExports == \A m \in Mods : \A s \in subconvs[m] : SafeFn(m, s)

SafeConvs ==
  \A c \in convs :
    c.hasErr \/ /\ \A fn \in c.calls : ~fn.hasErr
                /\ ~AccErr(prog.injs[c.inj].shape[prog.injs[c.inj].pair])

SafeFactories ==
  \A f \in 1 .. Len(facs) : KeepsErrorsOut(facs[f]) /\ SafeNew(facs[f])

FrameSafe(fs, fas, k) ==
  /\ fs[k].kind = "try" =>
       /\ Holding(fs[k], fas[fs[k].fac])
       /\ fas[fs[k].fac].allowsErr => fas[fs[k - 1].fac].allowsErr
  /\ fs[k].kind = "rerun" => ~fas[1].allowsErr /\ Reporting(fs[k])
  /\ k = 1 => SafeRoot(fs[1], fas[1])

SafeFrames == \A k \in 1 .. Len(frames) : FrameSafe(frames, facs, k)

Sound == SafeExports /\ SafeConvs /\ SafeFactories /\ SafeFrames

-----------------------------------------------------------------------------
(* Sequences without their last element. *)
LEMMA PopSeq ==
  ASSUME NEW S, NEW s \in Seq(S), s # <<>>
  PROVE  /\ Pop(s) \in Seq(S)
         /\ Len(Pop(s)) = Len(s) - 1
         /\ DOMAIN Pop(s) = 1 .. Len(s) - 1
         /\ \A i \in 1 .. Len(s) - 1 : Pop(s)[i] = s[i]
<1>1. Len(s) \in Nat /\ Len(s) >= 1 /\ \A i \in 1 .. Len(s) - 1 : s[i] \in S
  BY LenProperties, ElementOfSeq
<1> DEFINE n == Len(s) - 1
<1>2. n \in Int /\ 1 \in Int /\ \A i \in 1 .. n : s[i] \in S
  BY <1>1
<1> HIDE DEF n
<1>3. /\ SubSeq(s, 1, n) \in Seq(S)
      /\ Len(SubSeq(s, 1, n)) = IF 1 <= n THEN n - 1 + 1 ELSE 0
      /\ \A i \in 1 .. n - 1 + 1 : SubSeq(s, 1, n)[i] = s[1 + i - 1]
  BY <1>2, SubSeqProperties
<1>4. \A i \in 1 .. n : SubSeq(s, 1, n)[i] = s[i]
  BY <1>2, <1>3
<1>5. Len(SubSeq(s, 1, n)) = n /\ DOMAIN SubSeq(s, 1, n) = 1 .. n
  <2>1. n \in Nat
    BY <1>1 DEF n
  <2>2. Len(SubSeq(s, 1, n)) = n
    BY <2>1, <1>3
  <2>3. QED
    BY <2>2, <1>3
<1>6. QED
  BY <1>3, <1>4, <1>5 DEF Pop, n

(* Sequences whose last element is replaced. *)
LEMMA LastSeq ==
  ASSUME NEW S, NEW s \in Seq(S), s # <<>>, NEW e \in S,
         NEW t, t = [s EXCEPT ![Len(s)] = e]
  PROVE  /\ t \in Seq(S)
         /\ Len(t) = Len(s)
         /\ DOMAIN t = DOMAIN s
         /\ t[Len(s)] = e
         /\ \A i \in 1 .. Len(s) - 1 : t[i] = s[i]
OBVIOUS

LEMMA AppendSeq ==
  ASSUME NEW S, NEW s \in Seq(S), NEW e \in S
  PROVE  /\ Append(s, e) \in Seq(S)
         /\ Len(Append(s, e)) = Len(s) + 1
         /\ DOMAIN Append(s, e) = 1 .. Len(s) + 1
         /\ Append(s, e)[Len(s) + 1] = e
         /\ \A i \in 1 .. Len(s) : Append(s, e)[i] = s[i]
OBVIOUS

(* The two frames on top become one. *)
LEMMA ReturnSeq ==
  ASSUME NEW S, NEW s \in Seq(S), Len(s) >= 2, NEW e \in S
  PROVE  /\ Append(Pop(Pop(s)), e) \in Seq(S)
         /\ Len(Append(Pop(Pop(s)), e)) = Len(s) - 1
         /\ Append(Pop(Pop(s)), e)[Len(s) - 1] = e
         /\ \A i \in 1 .. Len(s) - 2 : Append(Pop(Pop(s)), e)[i] = s[i]
<1> DEFINE p == Pop(s)
           q == Pop(p)
<1>1. p \in Seq(S)
  BY PopSeq
<1>2. Len(p) = Len(s) - 1 /\ \A i \in 1 .. Len(s) - 1 : p[i] = s[i]
  BY PopSeq
<1>3. p # <<>>
  BY <1>1, <1>2
<1> HIDE DEF p
<1>4. q \in Seq(S)
  BY <1>1, <1>3, PopSeq
<1>5. Len(q) = Len(p) - 1 /\ \A i \in 1 .. Len(p) - 1 : q[i] = p[i]
  BY <1>1, <1>3, PopSeq
<1>6. Len(q) = Len(s) - 2 /\ \A i \in 1 .. Len(s) - 2 : q[i] = s[i]
  BY <1>2, <1>5
<1> HIDE DEF q
<1>7. /\ Append(q, e) \in Seq(S)
      /\ Len(Append(q, e)) = Len(s) - 1
      /\ Append(q, e)[Len(s) - 1] = e
      /\ \A i \in 1 .. Len(s) - 2 : Append(q, e)[i] = s[i]
  BY <1>4, <1>6, AppendSeq
<1>8. QED
  BY <1>7 DEF p, q

-----------------------------------------------------------------------------
(* The innermost attempt works in the newest factory. *)
LEMMA TopIsNewest ==
  ASSUME NEW fs, NEW n \in Nat, Nesting(fs, n), Len(fs) \in Nat, Len(fs) >= 1,
         fs[Len(fs)].kind = "try"
  PROVE  /\ fs[Len(fs)].fac = n
         /\ \A j \in 1 .. Len(fs) - 1 : fs[j].fac \in 1 .. n - 1
<1> DEFINE m == Len(fs)
<1>1. m \in Nat /\ m >= 1
  OBVIOUS
<1>2. fs[m].fac \in 1 .. n /\ \A j \in 1 .. m - 1 : fs[j].fac \in 1 .. n
  BY <1>1 DEF Nesting, FramesFit
<1>3. \A j \in 1 .. m - 1 : fs[j].fac < fs[m].fac
  BY <1>1 DEF Nesting, TriesAscend
<1>4. PICK k \in 1 .. m : fs[k].fac = n
  <2>1. n \in 1 .. n
    BY <1>2
  <2>2. QED
    BY <2>1 DEF Nesting, Owned
<1>5. k = m
  BY <1>1, <1>2, <1>3, <1>4
<1>6. QED
  BY <1>2, <1>3, <1>4, <1>5

LEMMA NestingReplace ==
  ASSUME NEW fs, NEW gs, NEW n, Nesting(fs, n), Len(gs) = Len(fs), Len(fs) \in Nat,
         \A k \in 1 .. Len(fs) : gs[k].kind = fs[k].kind /\ gs[k].fac = fs[k].fac
  PROVE  Nesting(gs, n)
<1>1. FramesFit(gs, n)
  BY DEF Nesting, FramesFit
<1>2. TriesAscend(gs)
  BY DEF Nesting, TriesAscend
<1>3. Owned(gs, n)
  BY DEF Nesting, Owned
<1>4. QED
  BY <1>1, <1>2, <1>3 DEF Nesting

(* A call begins, and with an attempt its factory. *)
LEMMA NestingCall ==
  ASSUME NEW fs, NEW n \in Nat, Nesting(fs, n), Len(fs) \in Nat, Len(fs) >= 1,
         NEW fr, NEW gs, Len(gs) = Len(fs) + 1, gs[Len(fs) + 1] = fr,
         \A i \in 1 .. Len(fs) : gs[i] = fs[i]
  PROVE  /\ fr.kind = "rerun" /\ fr.fac \in 1 .. n => Nesting(gs, n)
         /\ fr.kind = "try" /\ fr.fac = n + 1 => Nesting(gs, n + 1)
<1> DEFINE m  == Len(fs)
<1>1. /\ Len(gs) = m + 1 /\ gs[m + 1] = fr
      /\ \A i \in 1 .. m : gs[i] = fs[i]
      /\ m \in Nat /\ m >= 1
  OBVIOUS
<1> HIDE DEF m
<1>2. \A k \in 1 .. m : fs[k].fac \in 1 .. n
  BY DEF Nesting, FramesFit, m
<1>3. ASSUME NEW q \in Nat, n <= q, fr.fac \in 1 .. q, fr.kind # "explicit"
      PROVE  FramesFit(gs, q)
  <2>1. ASSUME NEW k \in 1 .. m
        PROVE  /\ gs[k].kind = "explicit" <=> k = 1
               /\ k = 1 => gs[k].fac = 1
               /\ gs[k].fac \in 1 .. q
    BY <1>1, <1>2, <1>3 DEF Nesting, FramesFit, m
  <2>2. \A k \in 1 .. Len(gs) : k \in 1 .. m \/ k = m + 1
    BY <1>1
  <2>3. QED
    BY <1>1, <1>3, <2>1, <2>2 DEF FramesFit
<1>4. ASSUME fr.kind = "try" => fr.fac = n + 1
      PROVE  TriesAscend(gs)
  <2>1. ASSUME NEW k \in 1 .. m, gs[k].kind = "try", NEW j \in 1 .. k - 1
        PROVE  gs[j].fac < gs[k].fac
    BY <1>1, <2>1 DEF Nesting, TriesAscend, m
  <2>2. ASSUME gs[m + 1].kind = "try", NEW j \in 1 .. m
        PROVE  gs[j].fac < gs[m + 1].fac
    BY <1>1, <1>2, <1>4, <2>2
  <2>3. \A k \in 1 .. Len(gs) : k \in 1 .. m \/ (k = m + 1 /\ k - 1 = m)
    BY <1>1
  <2>4. QED
    BY <2>1, <2>2, <2>3 DEF TriesAscend
<1>5. \A f \in 1 .. n : \E k \in 1 .. Len(gs) : gs[k].kind # "rerun" /\ gs[k].fac = f
  BY <1>1 DEF Nesting, Owned, m
<1>6. ASSUME fr.kind = "rerun", fr.fac \in 1 .. n
      PROVE  Nesting(gs, n)
  BY <1>3, <1>4, <1>5, <1>6 DEF Nesting, Owned
<1>7. ASSUME fr.kind = "try", fr.fac = n + 1
      PROVE  Nesting(gs, n + 1)
  <2>1. FramesFit(gs, n + 1)
    BY <1>3, <1>7
  <2>2. \A f \in 1 .. n + 1 : f \in 1 .. n \/ f = n + 1
    OBVIOUS
  <2>3. m + 1 \in 1 .. Len(gs)
    BY <1>1
  <2>4. Owned(gs, n + 1)
    BY <1>1, <1>5, <1>7, <2>2, <2>3 DEF Owned
  <2>5. QED
    BY <1>4, <1>7, <2>1, <2>4 DEF Nesting
<1>8. QED
  BY <1>6, <1>7

(* The innermost call returns, and with an attempt its factory goes. *)
LEMMA NestingReturn ==
  ASSUME NEW fs, NEW n \in Nat, Nesting(fs, n), Len(fs) \in Nat, Len(fs) >= 2,
         NEW gs, Len(gs) = Len(fs) - 1,
         \A k \in 1 .. Len(fs) - 1 : gs[k].kind = fs[k].kind /\ gs[k].fac = fs[k].fac
  PROVE  /\ fs[Len(fs)].kind = "rerun" => Nesting(gs, n)
         /\ fs[Len(fs)].kind = "try" => Nesting(gs, n - 1)
<1> DEFINE top == fs[Len(fs)]
<1>1. Len(fs) \in Nat /\ Len(gs) \in Nat /\ 1 .. Len(gs) \subseteq 1 .. Len(fs)
  OBVIOUS
<1>2. FramesFit(gs, n)
  BY <1>1 DEF Nesting, FramesFit
<1>3. TriesAscend(gs)
  BY <1>1 DEF Nesting, TriesAscend
<1>4. ASSUME NEW f \in 1 .. n, top.kind # "rerun" => f # top.fac
      PROVE  \E k \in 1 .. Len(gs) : gs[k].kind # "rerun" /\ gs[k].fac = f
  <2>1. PICK k \in 1 .. Len(fs) : fs[k].kind # "rerun" /\ fs[k].fac = f
    BY DEF Nesting, Owned
  <2>2. k # Len(fs)
    BY <1>4, <2>1
  <2>3. k \in 1 .. Len(gs) /\ k \in 1 .. Len(fs) - 1
    BY <1>1, <2>2
  <2>4. QED
    BY <2>1, <2>3
<1>5. CASE top.kind = "rerun"
  BY <1>2, <1>3, <1>4, <1>5 DEF Nesting, Owned
<1>6. CASE top.kind = "try"
  <2>1. Len(fs) >= 1
    OBVIOUS
  <2>2. top.fac = n /\ \A j \in 1 .. Len(fs) - 1 : fs[j].fac \in 1 .. n - 1
    BY <1>6, <2>1, TopIsNewest
  <2>3. FramesFit(gs, n - 1)
    BY <1>1, <1>2, <2>2 DEF FramesFit
  <2>4. \A f \in 1 .. n - 1 : f \in 1 .. n /\ f # top.fac
    BY <2>2
  <2>5. Owned(gs, n - 1)
    BY <1>4, <2>4 DEF Owned
  <2>6. QED
    BY <1>3, <1>6, <2>3, <2>5 DEF Nesting
<1>7. CASE top.kind \notin {"rerun", "try"}
  BY <1>7
<1>8. QED
  BY <1>5, <1>6, <1>7

LEMMA WaitingFacts ==
  ASSUME NEW fs, NEW gs, Waiting(fs), Len(fs) \in Nat, Len(fs) >= 1
  PROVE  /\ Len(gs) \in Nat /\ Len(gs) <= Len(fs)
             /\ (\A i \in 1 .. Len(gs) - 1 : gs[i] = fs[i]) => Waiting(gs)
         /\ fs[Len(fs)].todo # <<>> /\ Len(gs) = Len(fs) + 1
             /\ (\A i \in 1 .. Len(fs) : gs[i] = fs[i]) => Waiting(gs)
<1>1. ASSUME Len(gs) \in Nat, Len(gs) <= Len(fs), \A i \in 1 .. Len(gs) - 1 : gs[i] = fs[i]
      PROVE  Waiting(gs)
  BY <1>1 DEF Waiting
<1>2. ASSUME fs[Len(fs)].todo # <<>>, Len(gs) = Len(fs) + 1,
             \A i \in 1 .. Len(fs) : gs[i] = fs[i]
      PROVE  Waiting(gs)
  <2>1. \A k \in 1 .. Len(gs) - 1 : k \in 1 .. Len(fs) - 1 \/ k = Len(fs)
    BY <1>2
  <2>2. \A k \in 1 .. Len(gs) - 1 : k \in 1 .. Len(fs)
    BY <1>2
  <2>3. QED
    BY <1>2, <2>1, <2>2 DEF Waiting
<1>3. QED
  BY <1>1, <1>2

-----------------------------------------------------------------------------
(* What the state of a running build holds, spelled out once. *)
LEMMA RunningFacts ==
  ASSUME Typed, status = "building"
  PROVE  /\ prog \in Program
         /\ cur \in DOMAIN prog.injs
         /\ Inj \in Injector
         /\ frames \in Seq(Frame) /\ Len(frames) \in Nat /\ Len(frames) >= 1
         /\ facs \in Seq(Factory) /\ Len(facs) \in Nat /\ DOMAIN facs = 1 .. Len(facs)
         /\ Nesting(frames, Len(facs)) /\ Waiting(frames)
         /\ Top \in Frame /\ Top = frames[Len(frames)]
         /\ Top.fac \in 1 .. Len(facs) /\ Top.fac \in Nat
         /\ frames[1].kind = "explicit" /\ frames[1].fac = 1
         /\ 1 \in 1 .. Len(facs)
         /\ \A f \in 1 .. Len(facs) : facs[f] \in Factory /\ facs[f].line \subseteq 1 .. f
<1>1. prog \in Program /\ cur \in DOMAIN prog.injs /\ Inj \in Injector
  BY DEF Typed, TypeOK, Nested, Inj, Program
<1>2. /\ frames \in Seq(Frame) /\ Len(frames) \in Nat /\ Len(frames) >= 1
      /\ facs \in Seq(Factory) /\ Len(facs) \in Nat /\ DOMAIN facs = 1 .. Len(facs)
      /\ \A f \in 1 .. Len(facs) : facs[f] \in Factory
  BY DEF Typed, TypeOK, Nested
<1>3. Top \in Frame /\ Top = frames[Len(frames)]
  BY <1>2 DEF Top
<1>4. Nesting(frames, Len(facs)) /\ Waiting(frames) /\ LinesDescend(facs)
  BY DEF Typed, Nested
<1>5. 1 \in 1 .. Len(frames) /\ Len(frames) \in 1 .. Len(frames)
  BY <1>2
<1>6. /\ frames[Len(frames)].fac \in 1 .. Len(facs)
      /\ frames[1].kind = "explicit" /\ frames[1].fac = 1 /\ frames[1].fac \in 1 .. Len(facs)
  BY <1>4, <1>5 DEF Nesting, FramesFit
<1>7. \A f \in 1 .. Len(facs) : facs[f].line \subseteq 1 .. f
  BY <1>4 DEF LinesDescend
<1>8. Top.fac \in Nat
  BY <1>3 DEF Frame
<1>9. QED
  BY <1>1, <1>2, <1>3, <1>4, <1>6, <1>7, <1>8

(* The call below the innermost one waits for it. *)
LEMMA CallerFacts ==
  ASSUME Typed, status = "building", Top.kind # "explicit"
  PROVE  /\ Len(frames) >= 2
         /\ Caller \in Frame /\ Caller = frames[Len(frames) - 1]
         /\ Caller.todo # <<>>
         /\ Caller.fac \in 1 .. Len(facs) /\ Caller.fac \in Nat
         /\ Top.kind = "try" => Top.fac = Len(facs) /\ Caller.fac \in 1 .. Len(facs) - 1
<1>1. /\ frames \in Seq(Frame) /\ Len(frames) \in Nat /\ Len(frames) >= 1
      /\ Len(facs) \in Nat /\ Nesting(frames, Len(facs)) /\ Waiting(frames)
      /\ frames[1].kind = "explicit" /\ Top = frames[Len(frames)]
  BY RunningFacts
<1>2. Len(frames) >= 2
  BY <1>1
<1>3. Len(frames) - 1 \in 1 .. Len(frames) /\ Len(frames) - 1 \in 1 .. Len(frames) - 1
  BY <1>1, <1>2
<1>4. Caller \in Frame /\ Caller = frames[Len(frames) - 1]
  BY <1>1, <1>3 DEF Caller
<1>5. Caller.todo # <<>> /\ Caller.fac \in 1 .. Len(facs)
  BY <1>1, <1>3, <1>4 DEF Waiting, Nesting, FramesFit
<1>6. Caller.fac \in Nat
  BY <1>4 DEF Frame
<1>7. ASSUME Top.kind = "try"
      PROVE  Top.fac = Len(facs) /\ Caller.fac \in 1 .. Len(facs) - 1
  BY <1>1, <1>3, <1>4, <1>7, TopIsNewest
<1>8. QED
  BY <1>2, <1>4, <1>5, <1>6, <1>7

(* The field being built, and the frame after it. *)
LEMMA FieldFacts ==
  ASSUME Typed, Building
  PROVE  /\ Cur \in Field
         /\ Tail(Top.todo) \in Seq(Field)
<1>1. Top \in Frame
  BY RunningFacts DEF Building
<1>2. Top.todo \in Seq(Field) /\ Top.todo # <<>>
  BY <1>1 DEF Building, Frame
<1>3. QED
  BY <1>2, HeadTailProperties DEF Cur

LEMMA AfterField ==
  ASSUME NEW fr \in Frame, fr.todo # <<>>, NEW fn \in Fn
  PROVE  /\ Built(fr, fn) \in Frame
         /\ Built(fr, fn).kind = fr.kind /\ Built(fr, fn).fac = fr.fac
         /\ Built(fr, fn).pair = fr.pair /\ Built(fr, fn).name = fr.name
         /\ Built(fr, fn).err = fr.err /\ Built(fr, fn).calls = fr.calls \cup {fn}
         /\ Missed(fr) \in Frame
         /\ Missed(fr).kind = fr.kind /\ Missed(fr).fac = fr.fac
         /\ Missed(fr).pair = fr.pair /\ Missed(fr).name = fr.name
         /\ Missed(fr).err = TRUE /\ Missed(fr).calls = fr.calls
<1>1. Tail(fr.todo) \in Seq(Field)
  BY HeadTailProperties DEF Frame
<1>2. QED
  BY <1>1 DEF Built, Missed, Frame

LEMMA MissedFrame ==
  ASSUME NEW fr \in Frame, fr.todo # <<>>
  PROVE  /\ Missed(fr) \in Frame
         /\ Missed(fr).kind = fr.kind /\ Missed(fr).fac = fr.fac
         /\ Missed(fr).pair = fr.pair /\ Missed(fr).name = fr.name
         /\ Missed(fr).err = TRUE /\ Missed(fr).calls = fr.calls
<1>1. Tail(fr.todo) \in Seq(Field)
  BY HeadTailProperties DEF Frame
<1>2. QED
  BY <1>1 DEF Missed, Frame

LEMMA NewFrame ==
  ASSUME NEW kind \in Kinds, NEW f \in Nat, NEW allowsErr \in BOOLEAN,
         NEW p \in Pairs, NEW name \in Name, NEW fields \in Seq(Field)
  PROVE  /\ TryStruct(kind, f, allowsErr, p, name, fields) \in Frame
         /\ TryStruct(kind, f, allowsErr, p, name, fields).kind = kind
         /\ TryStruct(kind, f, allowsErr, p, name, fields).fac = f
         /\ TryStruct(kind, f, allowsErr, p, name, fields).pair = p
         /\ TryStruct(kind, f, allowsErr, p, name, fields).name = name
         /\ TryStruct(kind, f, allowsErr, p, name, fields).calls = {}
         /\ TryStruct(kind, f, allowsErr, p, name, fields).err =
              (~allowsErr /\ AccErr(fields))
BY DEF TryStruct, Frame

(* What tryStruct matches, under the options of any factory. *)
LEMMA ShapeFacts ==
  ASSUME Typed, cur \in DOMAIN prog.injs, NEW p \in Pairs, NEW f
  PROVE  /\ Inj \in Injector
         /\ Inj.shape[p] \in Seq(Field)
         /\ prog.shape[Inj.mod][p] \in Seq(Field)
         /\ FieldsOf(f, p) \in Seq(Field)
         /\ prog.lookup[Inj.mod][p] \subseteq Fn
         /\ prog.base[Inj.mod][p] \in Name
<1>1. prog \in Program /\ Inj \in Injector
  BY DEF Typed, TypeOK, Nested, Inj, Program
<1>2. Inj.mod \in Mods /\ Inj.shape \in Shape
  BY <1>1 DEF Injector
<1>3. prog.shape[Inj.mod] \in Shape
  BY <1>1, <1>2 DEF Program
<1>4. Inj.shape[p] \in Seq(Field) /\ prog.shape[Inj.mod][p] \in Seq(Field)
  BY <1>2, <1>3 DEF Shape
<1>5. prog.lookup[Inj.mod][p] \subseteq Fn /\ prog.base[Inj.mod][p] \in Name
  BY <1>1, <1>2 DEF Program
<1>6. QED
  BY <1>1, <1>4, <1>5 DEF FieldsOf

(* Names offered are names. *)
LEMMA NameFacts ==
  ASSUME NEW name \in Name, NEW i \in Nat
  PROVE  DisambiguateName(name, i) \in Name
<1>1. name.stem \in Stems /\ name.nums \in Seq(Nat) /\ Append(name.nums, i) \in Seq(Nat)
  BY DEF Name
<1>2. QED
  BY <1>1 DEF DisambiguateName, Name

LEMMA NewNameTyped ==
  ASSUME Typed, Building, \E i \in 1 .. Cardinality(ns) + 1 : NewName(i)
  PROVE  ns' \subseteq Name
<1>1. prog.base[Inj.mod][Cur.pair] \in Name
  <2>1. Cur.pair \in Pairs
    BY FieldFacts DEF Field
  <2>2. cur \in DOMAIN prog.injs
    BY RunningFacts DEF Building
  <2>3. QED
    BY <2>1, <2>2, ShapeFacts
<1>2. PICK i \in 1 .. Cardinality(ns) + 1 :
        ns' = ns \cup {DisambiguateName(prog.base[Inj.mod][Cur.pair], i)}
  BY DEF NewName
<1>3. i \in Int /\ i >= 1
  BY <1>2
<1>4. DisambiguateName(prog.base[Inj.mod][Cur.pair], i) \in Name
  BY <1>1, <1>3, NameFacts
<1>5. QED
  BY <1>2, <1>4 DEF Typed, TypeOK

(* What a factory knows are subconverters. *)
LEMMA GetFacts ==
  ASSUME Typed, status = "building", NEW f \in DOMAIN facs, NEW p
  PROVE  /\ Get(f, p) \subseteq SubconvRec
         /\ \A s \in Get(f, p) : AsFn(s) \in Fn /\ s.pair = p
<1>1. facs[f].new \subseteq SubconvRec
  <2>1. facs[f] \in Factory
    BY DEF Typed, TypeOK
  <2>2. QED
    BY <2>1 DEF Factory
<1>2. subconvs[Inj.mod] \subseteq SubconvRec
  BY RunningFacts DEF Typed, TypeOK, Injector
<1>3. Get(f, p) \subseteq SubconvRec /\ \A s \in Get(f, p) : s.pair = p
  BY <1>1, <1>2 DEF Get
<1>4. QED
  BY <1>3 DEF AsFn, Fn, SubconvRec

-----------------------------------------------------------------------------
(* Steps inside assign.Build: what they leave of the stack decides. *)
LEMMA StillBuilding ==
  ASSUME Typed, status = "building",
         UNCHANGED <<prog, status, cur, subconvs, convs, failed>>, ns' \subseteq Name,
         frames' \in Seq(Frame), frames' # <<>>, facs' \in Seq(Factory),
         Nesting(frames', Len(facs')), Waiting(frames'), LinesDescend(facs')
  PROVE  Typed'
<1>1. TypeOK'
  BY DEF Typed, TypeOK
<1>2. Nested'
  BY RunningFacts DEF Typed, Nested
<1>3. QED
  BY <1>1, <1>2 DEF Typed

(* The innermost frame is replaced by one of the same attempt. *)
LEMMA SameAttempt ==
  ASSUME Typed, status = "building", NEW fr \in Frame,
         fr.kind = Top.kind, fr.fac = Top.fac, Return(fr)
  PROVE  /\ frames' \in Seq(Frame) /\ frames' # <<>>
         /\ Len(frames') = Len(frames) /\ frames'[Len(frames)] = fr
         /\ \A i \in 1 .. Len(frames) - 1 : frames'[i] = frames[i]
         /\ Nesting(frames', Len(facs)) /\ Waiting(frames')
<1>1. /\ frames \in Seq(Frame) /\ Len(frames) \in Nat /\ Len(frames) >= 1
      /\ Top = frames[Len(frames)]
      /\ Nesting(frames, Len(facs)) /\ Waiting(frames)
  BY RunningFacts
<1>2. /\ frames' \in Seq(Frame)
      /\ Len(frames') = Len(frames)
      /\ frames'[Len(frames)] = fr
      /\ \A i \in 1 .. Len(frames) - 1 : frames'[i] = frames[i]
  BY <1>1, LastSeq DEF Return
<1>3. \A k \in 1 .. Len(frames) : k \in 1 .. Len(frames) - 1 \/ k = Len(frames)
  BY <1>1
<1>4. \A k \in 1 .. Len(frames) : /\ frames'[k].kind = frames[k].kind
                                /\ frames'[k].fac = frames[k].fac
  BY <1>1, <1>2, <1>3
<1>5. Nesting(frames', Len(facs))
  BY <1>1, <1>2, <1>4, NestingReplace
<1>6. Waiting(frames')
  BY <1>1, <1>2, WaitingFacts
<1>7. frames' # <<>>
  BY <1>1, <1>2
<1>8. QED
  BY <1>2, <1>5, <1>6, <1>7

(* The innermost call returns into its caller's frame. *)
LEMMA ReturnTyped ==
  ASSUME Typed, status = "building", Top.kind # "explicit", NEW fr \in Frame,
         fr.kind = Caller.kind, fr.fac = Caller.fac, ReturnToCaller(fr)
  PROVE  /\ frames' \in Seq(Frame) /\ frames' # <<>> /\ Waiting(frames')
         /\ Len(frames') = Len(frames) - 1 /\ frames'[Len(frames) - 1] = fr
         /\ \A i \in 1 .. Len(frames) - 2 : frames'[i] = frames[i]
         /\ Top.kind = "rerun" => Nesting(frames', Len(facs))
         /\ Top.kind = "try" => Nesting(frames', Len(facs) - 1)
<1>1. /\ frames \in Seq(Frame) /\ Len(frames) \in Nat /\ Len(frames) >= 2
      /\ Top = frames[Len(frames)] /\ Caller = frames[Len(frames) - 1]
      /\ Nesting(frames, Len(facs)) /\ Waiting(frames) /\ Len(facs) \in Nat
  BY RunningFacts, CallerFacts
<1>2. /\ frames' \in Seq(Frame)
      /\ Len(frames') = Len(frames) - 1
      /\ frames'[Len(frames) - 1] = fr
      /\ \A i \in 1 .. Len(frames) - 2 : frames'[i] = frames[i]
  <2>1. frames' = Append(Pop(Pop(frames)), fr)
    BY DEF ReturnToCaller
  <2>2. frames \in Seq(Frame) /\ fr \in Frame /\ Len(frames) >= 2
    BY <1>1
  <2>3. QED
    BY <2>1, <2>2, ReturnSeq
<1>3. \A k \in 1 .. Len(frames) - 1 : k \in 1 .. Len(frames) - 2 \/ k = Len(frames) - 1
  BY <1>1
<1>4. \A k \in 1 .. Len(frames) - 1 : /\ frames'[k].kind = frames[k].kind
                                    /\ frames'[k].fac = frames[k].fac
  BY <1>1, <1>2, <1>3
<1>5. /\ Top.kind = "rerun" => Nesting(frames', Len(facs))
      /\ Top.kind = "try" => Nesting(frames', Len(facs) - 1)
  BY <1>1, <1>2, <1>4, NestingReturn
<1>6. Len(frames') \in Nat /\ Len(frames') <= Len(frames) /\ Len(frames') >= 1
  BY <1>1, <1>2
<1>7. \A i \in 1 .. Len(frames') - 1 : frames'[i] = frames[i]
  BY <1>1, <1>2
<1>8. Waiting(frames') /\ Len(frames) >= 1
  BY <1>1, <1>6, <1>7, WaitingFacts
<1>9. frames' # <<>>
  BY <1>2, <1>6
<1>10. QED
  BY <1>2, <1>5, <1>8, <1>9

(* A call begins while the caller is in the middle of a field. *)
LEMMA CallTyped ==
  ASSUME Typed, Building, NEW fr \in Frame, frames' = Append(frames, fr)
  PROVE  /\ frames' \in Seq(Frame) /\ frames' # <<>> /\ Waiting(frames')
         /\ Len(frames') = Len(frames) + 1 /\ frames'[Len(frames) + 1] = fr
         /\ \A i \in 1 .. Len(frames) : frames'[i] = frames[i]
         /\ fr.kind = "rerun" /\ fr.fac \in 1 .. Len(facs) => Nesting(frames', Len(facs))
         /\ fr.kind = "try" /\ fr.fac = Len(facs) + 1 => Nesting(frames', Len(facs) + 1)
<1>1. /\ frames \in Seq(Frame) /\ Len(frames) \in Nat /\ Len(frames) >= 1
      /\ Top = frames[Len(frames)] /\ Top.todo # <<>>
      /\ Nesting(frames, Len(facs)) /\ Waiting(frames) /\ Len(facs) \in Nat
  BY RunningFacts DEF Building
<1>2. /\ frames' \in Seq(Frame)
      /\ Len(frames') = Len(frames) + 1
      /\ frames'[Len(frames) + 1] = fr
      /\ \A i \in 1 .. Len(frames) : frames'[i] = frames[i]
  BY <1>1, AppendSeq
<1>3. /\ fr.kind = "rerun" /\ fr.fac \in 1 .. Len(facs) => Nesting(frames', Len(facs))
      /\ fr.kind = "try" /\ fr.fac = Len(facs) + 1 => Nesting(frames', Len(facs) + 1)
  BY <1>1, <1>2, NestingCall
<1>4. Waiting(frames')
  BY <1>1, <1>2, WaitingFacts
<1>5. frames' # <<>>
  BY <1>1, <1>2
<1>6. QED
  BY <1>2, <1>3, <1>4, <1>5

-----------------------------------------------------------------------------
(* The steps of Build, one by one. *)
(* Calls of functions, and of subconverters that exist. *)
LEMMA CallFuncTyped ==
  ASSUME Typed, Building, NEW f, NEW fn \in Fn, CallFunc(f, fn)
  PROVE  Typed'
<1>1. Top \in Frame /\ Top.todo # <<>> /\ status = "building"
  BY RunningFacts DEF Building
<1>2. /\ Built(Top, fn) \in Frame
      /\ Built(Top, fn).kind = Top.kind /\ Built(Top, fn).fac = Top.fac
      /\ Missed(Top) \in Frame
      /\ Missed(Top).kind = Top.kind /\ Missed(Top).fac = Top.fac
  BY <1>1, AfterField
<1>3. UNCHANGED <<prog, status, cur, ns, subconvs, convs, failed, facs>>
  BY DEF CallFunc
<1>4. Return(Built(Top, fn)) \/ Return(Missed(Top))
  BY DEF CallFunc
<1>5. /\ frames' \in Seq(Frame) /\ frames' # <<>>
      /\ Nesting(frames', Len(facs)) /\ Waiting(frames')
  BY <1>1, <1>2, <1>4, SameAttempt
<1>6. facs' \in Seq(Factory) /\ LinesDescend(facs') /\ ns' \subseteq Name
  BY <1>3 DEF Typed, TypeOK, Nested
<1>7. QED
  BY <1>1, <1>3, <1>5, <1>6, StillBuilding

LEMMA BeginInjectorTyped ==
  ASSUME Typed, BeginInjector
  PROVE  Typed'
<1>1. prog \in Program /\ prog.injs \in Seq(Injector) /\ cur \in DOMAIN prog.injs
  BY DEF Typed, TypeOK, Program, BeginInjector
<1>2. Inj \in Injector
  BY <1>1 DEF Inj
<1>3. Inj.pair \in Pairs /\ Inj.name \in Name /\ Inj.hasErr \in BOOLEAN
  BY <1>2 DEF Injector
<1>4. Inj.shape[Inj.pair] \in Seq(Field)
  BY <1>1, <1>3, ShapeFacts
<1> DEFINE fr == TryStruct("explicit", 1, Inj.hasErr, Inj.pair, Inj.name,
                           Inj.shape[Inj.pair])
           fac == [allowsErr |-> Inj.hasErr, line |-> {1}, new |-> {}]
<1>5. fr \in Frame /\ fr.kind = "explicit" /\ fr.fac = 1
  <2>1. "explicit" \in Kinds /\ 1 \in Nat
    BY DEF Kinds
  <2>2. (~Inj.hasErr /\ AccErr(Inj.shape[Inj.pair])) \in BOOLEAN
    OBVIOUS
  <2>3. QED
    BY <1>3, <1>4, <2>1, <2>2 DEF TryStruct, Frame
<1>6. fac \in Factory /\ fac.line = {1}
  BY <1>3 DEF Factory
<1>7. frames' = <<fr>> /\ facs' = <<fac>>
  BY DEF BeginInjector
<1> HIDE DEF fr, fac
<1>8. /\ frames' \in Seq(Frame) /\ Len(frames') = 1 /\ frames'[1] = fr
      /\ facs' \in Seq(Factory) /\ Len(facs') = 1 /\ facs'[1] = fac
  BY <1>5, <1>6, <1>7
<1>9. frames' # <<>> /\ \A i \in 1 .. 1 : i = 1
  BY <1>7
<1>10. Nesting(frames', Len(facs')) /\ Waiting(frames') /\ LinesDescend(facs')
  <2>1. FramesFit(frames', 1) /\ TriesAscend(frames') /\ Owned(frames', 1)
    BY <1>5, <1>8, <1>9 DEF FramesFit, TriesAscend, Owned
  <2>2. Waiting(frames') /\ LinesDescend(facs')
    BY <1>6, <1>8, <1>9 DEF Waiting, LinesDescend
  <2>3. QED
    BY <1>8, <2>1, <2>2 DEF Nesting
<1>11. UNCHANGED <<prog, cur, ns, subconvs, convs, failed>> /\ status' = "building"
  BY DEF BeginInjector
<1>12. Nested'
  BY <1>1, <1>9, <1>10, <1>11 DEF Typed, Nested
<1>13. TypeOK'
  BY <1>8, <1>11 DEF Typed, TypeOK, Statuses
<1>14. QED
  BY <1>12, <1>13 DEF Typed

(* With nothing on the stack there is nothing to nest. *)
LEMMA NothingNested ==
  ASSUME NEW fs, NEW fas, fs = <<>>, fas = <<>>
  PROVE  Nesting(fs, Len(fas)) /\ Waiting(fs) /\ LinesDescend(fas)
<1>1. Len(fs) = 0 /\ Len(fas) = 0
  OBVIOUS
<1>2. QED
  BY <1>1 DEF Nesting, FramesFit, TriesAscend, Owned, Waiting, LinesDescend

LEMMA EndInjectorTyped ==
  ASSUME Typed, EndInjector
  PROVE  Typed'
<1>1. /\ prog \in Program /\ Inj \in Injector /\ Top \in Frame
      /\ facs[1] \in Factory /\ cur \in DOMAIN prog.injs
  BY RunningFacts DEF EndInjector
<1>2. [inj |-> cur, name |-> Inj.name, hasErr |-> Inj.hasErr, calls |-> Top.calls] \in Conv
  BY <1>1 DEF Conv, Injector, Frame, Typed, TypeOK
<1>3. Inj.mod \in Mods /\ facs[1].new \subseteq SubconvRec
  BY <1>1 DEF Injector, Factory
<1>4. prog.injs \in Seq(Injector) /\ cur \in 1 .. Len(prog.injs)
  BY <1>1 DEF Program
<1>5. /\ failed' \subseteq 1 .. Len(prog.injs)
      /\ convs' \subseteq Conv
  BY <1>2, <1>4 DEF EndInjector, Typed, TypeOK
<1>6. subconvs' \in [Mods -> SUBSET SubconvRec]
  BY <1>3 DEF EndInjector, Typed, TypeOK
<1>7. cur' \in 1 .. Len(prog'.injs) + 1 /\ prog' = prog
  BY <1>4 DEF EndInjector
<1>8. frames' = <<>> /\ facs' = <<>> /\ status' = "idle" /\ ns' = ns
  BY DEF EndInjector
<1>9. TypeOK'
  BY <1>5, <1>6, <1>7, <1>8 DEF Typed, TypeOK, Statuses
<1>10. Nested'
  BY <1>7, <1>8, NothingNested DEF Typed, Nested
<1>11. QED
  BY <1>9, <1>10 DEF Typed

(* Steps that leave the stack alone. *)
LEMMA StatusTyped ==
  ASSUME Typed, EndBuild \/ Overflow \/ Panic \/ UNCHANGED vars
  PROVE  Typed'
<1>1. CASE EndBuild
  BY <1>1 DEF EndBuild, Typed, TypeOK, Nested, Statuses
<1>2. CASE Overflow
  BY <1>2 DEF Overflow, NoFunc, Building, Typed, TypeOK, Nested, Statuses
<1>3. CASE Panic
  BY <1>3 DEF Panic, RerunEnds, Typed, TypeOK, Nested, Statuses
<1>4. CASE UNCHANGED vars
  BY <1>4 DEF vars, Typed, TypeOK, Nested
<1>5. QED
  BY <1>1, <1>2, <1>3, <1>4

LEMMA TrySubconvFuncTyped ==
  ASSUME Typed, TrySubconvFunc
  PROVE  Typed'
<1>1. Building /\ status = "building"
  BY DEF TrySubconvFunc, NoFunc, Building
<1>2. PICK g \in facs[Top.fac].line :
        \E s \in Get(g, Cur.pair) : CallFunc(g, AsFn(s))
  BY DEF TrySubconvFunc
<1>3. g \in 1 .. Len(facs)
  <2>1. Top.fac \in 1 .. Len(facs) /\ facs[Top.fac].line \subseteq 1 .. Top.fac
    BY <1>1, RunningFacts
  <2>2. Len(facs) \in Nat
    BY <1>1, RunningFacts
  <2>3. QED
    BY <1>2, <2>1, <2>2
<1>4. PICK s \in Get(g, Cur.pair) : CallFunc(g, AsFn(s))
  BY <1>2
<1>5. g \in DOMAIN facs
  BY <1>1, <1>3, RunningFacts
<1>6. AsFn(s) \in Fn
  BY <1>1, <1>4, <1>5, GetFacts
<1>7. QED
  BY <1>1, <1>4, <1>6, CallFuncTyped

(* The error of the rerun becomes the error of the field. *)
LEMMA ReportRerunTyped ==
  ASSUME Typed, ReportRerun
  PROVE  Typed'
<1>1. status = "building" /\ Top.kind = "rerun" /\ ReturnToCaller(Missed(Caller))
  BY DEF ReportRerun, RerunEnds
<1>2. UNCHANGED <<prog, status, cur, ns, subconvs, convs, failed, facs>>
  BY DEF ReportRerun
<1>3. /\ Missed(Caller) \in Frame
      /\ Missed(Caller).kind = Caller.kind /\ Missed(Caller).fac = Caller.fac
  BY <1>1, CallerFacts, MissedFrame
<1>4. /\ frames' \in Seq(Frame) /\ frames' # <<>> /\ Waiting(frames')
      /\ Nesting(frames', Len(facs))
  BY <1>1, <1>3, ReturnTyped
<1>5. facs' \in Seq(Factory) /\ LinesDescend(facs') /\ ns' \subseteq Name
  BY <1>2 DEF Typed, TypeOK, Nested
<1>6. QED
  BY <1>1, <1>2, <1>4, <1>5, StillBuilding

LEMMA UnconvertibleTyped ==
  ASSUME Typed, Unconvertible
  PROVE  Typed'
<1>1. Building /\ status = "building"
  BY DEF Unconvertible, Unknown, NoFunc, Building
<1>2. UNCHANGED <<prog, status, cur, subconvs, convs, failed, facs>> /\ Return(Missed(Top))
  BY DEF Unconvertible
<1>3. /\ Missed(Top) \in Frame
      /\ Missed(Top).kind = Top.kind /\ Missed(Top).fac = Top.fac
  BY <1>1, RunningFacts, MissedFrame DEF Building
<1>4. /\ frames' \in Seq(Frame) /\ frames' # <<>>
      /\ Nesting(frames', Len(facs)) /\ Waiting(frames')
  BY <1>1, <1>2, <1>3, SameAttempt
<1>5. facs' \in Seq(Factory) /\ LinesDescend(facs')
  BY <1>2 DEF Typed, TypeOK, Nested
<1>6. ns' \subseteq Name
  BY <1>1, NewNameTyped DEF Unconvertible
<1>7. QED
  BY <1>1, <1>2, <1>4, <1>5, <1>6, StillBuilding

LEMMA RerunTyped ==
  ASSUME Typed, Rerun
  PROVE  Typed'
<1>1. Building /\ status = "building"
  BY DEF Rerun, NoFunc, Building
<1>2. Top \in Frame /\ Top.fac \in 1 .. Len(facs) /\ Len(facs) \in Nat
      /\ facs[Top.fac].line \subseteq 1 .. Top.fac /\ cur \in DOMAIN prog.injs
  BY <1>1, RunningFacts
<1>3. PICK g \in facs[Top.fac].line :
        frames' = Append(frames,
          TryStruct("rerun", g, facs[g].allowsErr, Cur.pair, Top.name, FieldsOf(g, Cur.pair)))
  BY DEF Rerun
<1>4. g \in 1 .. Len(facs) /\ g \in Nat
  BY <1>2, <1>3
<1>5. facs[g] \in Factory
  BY <1>1, <1>4, RunningFacts
<1>6. facs[g].allowsErr \in BOOLEAN
  BY <1>5 DEF Factory
<1>7. Cur.pair \in Pairs
  BY <1>1, FieldFacts DEF Field
<1>8. Top.name \in Name
  BY <1>2 DEF Frame
<1>9. FieldsOf(g, Cur.pair) \in Seq(Field)
  BY <1>2, <1>7, ShapeFacts
<1> DEFINE fr == TryStruct("rerun", g, facs[g].allowsErr, Cur.pair, Top.name,
                           FieldsOf(g, Cur.pair))
<1>10. fr \in Frame /\ fr.kind = "rerun" /\ fr.fac = g
  BY <1>4, <1>6, <1>7, <1>8, <1>9, NewFrame DEF Kinds
<1>11. /\ frames' \in Seq(Frame) /\ frames' # <<>> /\ Waiting(frames')
       /\ Nesting(frames', Len(facs))
  <2> HIDE DEF fr
  <2>1. frames' = Append(frames, fr)
    BY <1>3 DEF fr
  <2>2. QED
    BY <1>1, <1>4, <1>10, <2>1, CallTyped
<1>12. UNCHANGED <<prog, status, cur, ns, subconvs, convs, failed, facs>>
  BY DEF Rerun
<1>13. facs' \in Seq(Factory) /\ LinesDescend(facs') /\ ns' \subseteq Name
  BY <1>12 DEF Typed, TypeOK, Nested
<1>14. QED
  BY <1>1, <1>11, <1>12, <1>13, StillBuilding

LEMMA TrySubconvTyped ==
  ASSUME Typed, TrySubconv
  PROVE  Typed'
<1>1. Building /\ status = "building"
  BY DEF TrySubconv, Unknown, NoFunc, Building
<1>2. /\ Top \in Frame /\ Top.fac \in 1 .. Len(facs) /\ Len(facs) \in Nat
      /\ cur \in DOMAIN prog.injs /\ facs \in Seq(Factory)
      /\ \A f \in 1 .. Len(facs) : facs[f].line \subseteq 1 .. f
  BY <1>1, RunningFacts
<1> DEFINE name(i) == DisambiguateName(prog.base[Inj.mod][Cur.pair], i)
           f       == Len(facs) + 1
<1>3. PICK i \in 1 .. Cardinality(ns) + 1 :
        /\ NewName(i)
        /\ facs' = Append(facs, Fork(facs[Top.fac].line, f, FALSE, Cur.pair, name(i)))
        /\ frames' = Append(frames,
             TryStruct("try", f, FALSE, Cur.pair, name(i), prog.shape[Inj.mod][Cur.pair]))
  BY DEF TrySubconv
<1>4. Cur.pair \in Pairs
  BY <1>1, FieldFacts DEF Field
<1>5. prog.base[Inj.mod][Cur.pair] \in Name /\ prog.shape[Inj.mod][Cur.pair] \in Seq(Field)
  BY <1>2, <1>4, ShapeFacts
<1>6. name(i) \in Name
  <2>1. i \in Nat
    BY <1>3
  <2>2. QED
    BY <1>5, <2>1, NameFacts
<1> DEFINE fr  == TryStruct("try", f, FALSE, Cur.pair, name(i), prog.shape[Inj.mod][Cur.pair])
           fac == Fork(facs[Top.fac].line, f, FALSE, Cur.pair, name(i))
<1>7. f \in Nat /\ facs[Top.fac].line \in SUBSET Nat
  BY <1>2
<1>8. /\ fr \in Frame /\ fr.kind = "try" /\ fr.fac = f
      /\ fac \in Factory /\ fac.line = facs[Top.fac].line \cup {f}
  <2> HIDE DEF f, name
  <2>1. fr \in Frame /\ fr.kind = "try" /\ fr.fac = f
    BY <1>4, <1>5, <1>6, <1>7 DEF TryStruct, Frame, Kinds
  <2>2. fac \in Factory /\ fac.line = facs[Top.fac].line \cup {f}
    BY <1>4, <1>6, <1>7 DEF Fork, Factory, Placeholder, SubconvRec
  <2>3. QED
    BY <2>1, <2>2
<1>9. frames' = Append(frames, fr) /\ facs' = Append(facs, fac)
  BY <1>3
<1> HIDE DEF fr, fac, name
<1>10. /\ facs' \in Seq(Factory) /\ Len(facs') = f /\ facs'[f] = fac
       /\ \A g \in 1 .. Len(facs) : facs'[g] = facs[g]
  BY <1>2, <1>8, <1>9, AppendSeq
<1>11. LinesDescend(facs')
  <2>1. \A g \in 1 .. f : g \in 1 .. Len(facs) \/ g = f
    BY <1>2
  <2>2. fac.line \subseteq 1 .. f
    BY <1>2, <1>8
  <2>3. QED
    BY <1>2, <1>10, <2>1, <2>2 DEF LinesDescend
<1>12. /\ frames' \in Seq(Frame) /\ frames' # <<>> /\ Waiting(frames')
       /\ Nesting(frames', Len(facs'))
  BY <1>1, <1>8, <1>9, <1>10, CallTyped
<1>13. ns' \subseteq Name
  BY <1>1, <1>3, NewNameTyped
<1>14. UNCHANGED <<prog, status, cur, subconvs, convs, failed>>
  BY DEF TrySubconv
<1>15. QED
  BY <1>1, <1>10, <1>11, <1>12, <1>13, <1>14, StillBuilding

(* The factories left when an attempt's own is dropped. *)
LEMMA PopFactory ==
  ASSUME Typed, TryEnds
  PROVE  /\ status = "building" /\ Top.kind = "try" /\ Top.kind # "explicit"
         /\ Top \in Frame /\ Top.fac = Len(facs)
         /\ Caller \in Frame /\ Caller.todo # <<>>
         /\ Caller.fac \in 1 .. Len(facs) - 1 /\ Caller.fac \in Nat
         /\ facs[Len(facs)] \in Factory /\ facs[Caller.fac] \in Factory
         /\ facs[Caller.fac].line \subseteq 1 .. Caller.fac
         /\ Len(facs) \in Nat /\ cur \in DOMAIN prog.injs
         /\ Pop(facs) \in Seq(Factory) /\ Len(Pop(facs)) = Len(facs) - 1
         /\ \A f \in 1 .. Len(facs) - 1 : Pop(facs)[f] = facs[f]
         /\ \A f \in 1 .. Len(facs) : facs[f].line \subseteq 1 .. f
<1>1. status = "building" /\ Top.kind = "try" /\ Top.kind # "explicit"
  BY DEF TryEnds
<1>2. /\ Top \in Frame /\ Top.fac = Len(facs)
      /\ Caller \in Frame /\ Caller.todo # <<>>
      /\ Caller.fac \in 1 .. Len(facs) - 1 /\ Caller.fac \in Nat
  BY <1>1, RunningFacts, CallerFacts
<1>3. /\ Len(facs) \in Nat /\ facs \in Seq(Factory) /\ 1 \in 1 .. Len(facs)
      /\ cur \in DOMAIN prog.injs
      /\ \A f \in 1 .. Len(facs) : facs[f] \in Factory /\ facs[f].line \subseteq 1 .. f
  BY <1>1, RunningFacts
<1>4. facs # <<>>
  BY <1>3
<1>5. /\ Pop(facs) \in Seq(Factory) /\ Len(Pop(facs)) = Len(facs) - 1
      /\ \A f \in 1 .. Len(facs) - 1 : Pop(facs)[f] = facs[f]
  BY <1>3, <1>4, PopSeq
<1>6. Len(facs) \in 1 .. Len(facs) /\ Caller.fac \in 1 .. Len(facs)
  BY <1>2, <1>3
<1>7. QED
  BY <1>1, <1>2, <1>3, <1>5, <1>6

LEMMA GiveUpTyped ==
  ASSUME Typed, GiveUp
  PROVE  Typed'
<1>1. TryEnds /\ ReturnToCaller(Missed(Caller)) /\ facs' = Pop(facs)
  BY DEF GiveUp
<1>2. UNCHANGED <<prog, status, cur, ns, subconvs, convs, failed>>
  BY DEF GiveUp
<1>3. /\ Missed(Caller) \in Frame
      /\ Missed(Caller).kind = Caller.kind /\ Missed(Caller).fac = Caller.fac
  BY <1>1, PopFactory, MissedFrame
<1>4. status = "building" /\ Top.kind = "try" /\ Top.kind # "explicit"
  BY <1>1, PopFactory
<1>5. /\ frames' \in Seq(Frame) /\ frames' # <<>> /\ Waiting(frames')
      /\ Nesting(frames', Len(facs) - 1)
  BY <1>1, <1>3, <1>4, ReturnTyped
<1>6. /\ facs' \in Seq(Factory) /\ Len(facs') = Len(facs) - 1
      /\ \A f \in 1 .. Len(facs) - 1 : facs'[f] = facs[f] /\ facs[f].line \subseteq 1 .. f
  BY <1>1, PopFactory
<1>7. LinesDescend(facs') /\ ns' \subseteq Name
  BY <1>2, <1>6 DEF LinesDescend, Typed, TypeOK
<1>8. QED
  BY <1>2, <1>4, <1>5, <1>6, <1>7, StillBuilding

LEMMA RetryTyped ==
  ASSUME Typed, Retry
  PROVE  Typed'
<1> DEFINE fr  == TryStruct("try", Top.fac, TRUE, Top.pair, Top.name,
                            prog.shape[Inj.mod][Top.pair])
           fac == Fork(facs[Caller.fac].line, Len(facs), TRUE, Top.pair, Top.name)
<1>1. TryEnds /\ Return(fr) /\ facs' = Append(Pop(facs), fac)
  BY DEF Retry
<1>2. UNCHANGED <<prog, status, cur, ns, subconvs, convs, failed>>
  BY DEF Retry
<1>3. /\ status = "building" /\ Top.kind = "try" /\ Top \in Frame /\ Top.fac = Len(facs)
      /\ Len(facs) \in Nat /\ cur \in DOMAIN prog.injs
      /\ Caller.fac \in 1 .. Len(facs) - 1 /\ facs[Caller.fac].line \subseteq 1 .. Caller.fac
  BY <1>1, PopFactory
<1>4. Top.pair \in Pairs /\ Top.name \in Name
  BY <1>3 DEF Frame
<1>5. prog.shape[Inj.mod][Top.pair] \in Seq(Field)
  BY <1>3, <1>4, ShapeFacts
<1>6. Top.fac \in Nat /\ facs[Caller.fac].line \in SUBSET Nat
  BY <1>3
<1>7. /\ fr \in Frame /\ fr.kind = "try" /\ fr.fac = Top.fac
      /\ fac \in Factory /\ fac.line = facs[Caller.fac].line \cup {Len(facs)}
  <2>1. fr \in Frame /\ fr.kind = "try" /\ fr.fac = Top.fac
    BY <1>4, <1>5, <1>6 DEF TryStruct, Frame, Kinds
  <2>2. fac \in Factory /\ fac.line = facs[Caller.fac].line \cup {Len(facs)}
    BY <1>3, <1>4, <1>6 DEF Fork, Factory, Placeholder, SubconvRec
  <2>3. QED
    BY <2>1, <2>2
<1> HIDE DEF fr, fac
<1>8. /\ frames' \in Seq(Frame) /\ frames' # <<>>
      /\ Nesting(frames', Len(facs)) /\ Waiting(frames')
  BY <1>1, <1>3, <1>7, SameAttempt
<1>9. /\ Pop(facs) \in Seq(Factory) /\ Len(Pop(facs)) = Len(facs) - 1
      /\ \A f \in 1 .. Len(facs) - 1 : Pop(facs)[f] = facs[f]
      /\ \A f \in 1 .. Len(facs) : facs[f].line \subseteq 1 .. f
  BY <1>1, PopFactory
<1>10. /\ facs' \in Seq(Factory) /\ Len(facs') = Len(Pop(facs)) + 1
       /\ facs'[Len(Pop(facs)) + 1] = fac
       /\ \A f \in 1 .. Len(Pop(facs)) : facs'[f] = Pop(facs)[f]
  BY <1>1, <1>7, <1>9, AppendSeq
<1>11. /\ Len(facs') = Len(facs) /\ facs'[Len(facs)] = fac
       /\ \A f \in 1 .. Len(facs) - 1 : facs'[f] = facs[f]
  BY <1>3, <1>9, <1>10
<1>12. LinesDescend(facs')
  <2>1. \A f \in 1 .. Len(facs) : f \in 1 .. Len(facs) - 1 \/ f = Len(facs)
    BY <1>3
  <2>2. fac.line \subseteq 1 .. Len(facs)
    BY <1>3, <1>7
  <2>3. QED
    BY <1>9, <1>11, <2>1, <2>2 DEF LinesDescend
<1>13. ns' \subseteq Name
  BY <1>2 DEF Typed, TypeOK
<1>14. QED
  BY <1>2, <1>3, <1>8, <1>10, <1>11, <1>12, <1>13, StillBuilding

(* The subconverters of a fork when the attempt it was made for succeeds. *)
LEMMA CompletedFacts ==
  ASSUME NEW f, NEW fr \in Frame, facs[f].new \subseteq SubconvRec
  PROVE  Completed(f, fr) \subseteq SubconvRec
<1>1. fr.calls \subseteq Fn
  BY DEF Frame
<1>2. ASSUME NEW s \in SubconvRec
      PROVE  [s EXCEPT !.calls = fr.calls, !.done = TRUE] \in SubconvRec
  BY <1>1 DEF SubconvRec
<1>3. QED
  BY <1>2 DEF Completed

LEMMA CommitFacts ==
  ASSUME Typed, Commit
  PROVE  LET g == Caller.fac
             n == Len(facs)
         IN  /\ facs' \in Seq(Factory) /\ Len(facs') = n - 1
             /\ \A f \in 1 .. n - 1 : /\ facs'[f].allowsErr = facs[f].allowsErr
                                      /\ facs'[f].line = facs[f].line
                                      /\ f # g => facs'[f] = facs[f]
             /\ facs'[g].new = PutAll(facs[g].new, Completed(n, Top))
<1> DEFINE g   == Caller.fac
           n   == Len(facs)
           new == PutAll(facs[g].new, Completed(n, Top))
           fac == [facs[g] EXCEPT !.new = new]
<1>1. TryEnds /\ facs' = [Pop(facs) EXCEPT ![g].new = PutAll(@, Completed(Top.fac, Top))]
  BY DEF Commit
<1>2. /\ Top \in Frame /\ Top.fac = n /\ n \in Nat /\ g \in 1 .. n - 1
      /\ facs[n] \in Factory /\ facs[g] \in Factory
      /\ Pop(facs) \in Seq(Factory) /\ Len(Pop(facs)) = n - 1
      /\ \A f \in 1 .. n - 1 : Pop(facs)[f] = facs[f]
  BY <1>1, PopFactory
<1>3. facs[n].new \subseteq SubconvRec /\ facs[g].new \subseteq SubconvRec
  BY <1>2 DEF Factory
<1>4. Completed(n, Top) \subseteq SubconvRec
  BY <1>2, <1>3, CompletedFacts
<1>5. new \subseteq SubconvRec
  BY <1>3, <1>4 DEF PutAll
<1>6. fac \in Factory /\ fac.new = new /\ fac.allowsErr = facs[g].allowsErr
      /\ fac.line = facs[g].line
  <2> HIDE DEF new
  <2>1. QED
    BY <1>2, <1>5 DEF Factory
<1>7. facs' = [Pop(facs) EXCEPT ![g] = fac]
  BY <1>1, <1>2
<1> HIDE DEF fac, new, g, n
<1>8. DOMAIN Pop(facs) = 1 .. n - 1
  BY <1>2
<1>9. facs' \in Seq(Factory) /\ Len(facs') = n - 1
  BY <1>2, <1>6, <1>7
<1>10. \A f \in 1 .. n - 1 : facs'[f] = IF f = g THEN fac ELSE facs[f]
  BY <1>2, <1>7, <1>8
<1>11. QED
  BY <1>2, <1>6, <1>9, <1>10 DEF g, n, new

LEMMA CommitTyped ==
  ASSUME Typed, Commit
  PROVE  Typed'
<1> DEFINE fn == [name |-> Top.name, hasErr |-> facs[Top.fac].allowsErr]
<1>1. TryEnds /\ ReturnToCaller(Built(Caller, fn))
  BY DEF Commit
<1>2. UNCHANGED <<prog, status, cur, ns, subconvs, convs, failed>>
  BY DEF Commit
<1>3. /\ status = "building" /\ Top.kind = "try" /\ Top.kind # "explicit"
      /\ Top \in Frame /\ Top.fac = Len(facs) /\ facs[Len(facs)] \in Factory
      /\ Caller \in Frame /\ Caller.todo # <<>>
      /\ \A f \in 1 .. Len(facs) : facs[f].line \subseteq 1 .. f
      /\ Len(facs) \in Nat
  BY <1>1, PopFactory
<1>4. fn \in Fn
  <2>1. facs[Top.fac].allowsErr \in BOOLEAN
    BY <1>3 DEF Factory
  <2>2. Top.name \in Name
    BY <1>3 DEF Frame
  <2>3. QED
    BY <2>1, <2>2 DEF Fn
<1> HIDE DEF fn
<1>5. /\ Built(Caller, fn) \in Frame
      /\ Built(Caller, fn).kind = Caller.kind /\ Built(Caller, fn).fac = Caller.fac
  BY <1>3, <1>4, AfterField
<1>6. /\ frames' \in Seq(Frame) /\ frames' # <<>> /\ Waiting(frames')
      /\ Nesting(frames', Len(facs) - 1)
  BY <1>1, <1>3, <1>5, ReturnTyped
<1>7. /\ facs' \in Seq(Factory) /\ Len(facs') = Len(facs) - 1
      /\ \A f \in 1 .. Len(facs) - 1 : facs'[f].line = facs[f].line
  BY CommitFacts
<1>8. \A f \in 1 .. Len(facs) - 1 : f \in 1 .. Len(facs)
  BY <1>3
<1>9. LinesDescend(facs') /\ ns' \subseteq Name
  BY <1>2, <1>3, <1>7, <1>8 DEF LinesDescend, Typed, TypeOK
<1>10. QED
  BY <1>2, <1>3, <1>6, <1>7, <1>9, StillBuilding

-----------------------------------------------------------------------------
LEMMA InitTyped ==
  ASSUME Init
  PROVE  Typed
<1>1. prog \in Program /\ prog \in Programs
  BY ProgramsAssumption DEF Init
<1>2. prog.injs \in Seq(Injector) /\ prog.reserved \subseteq Name
  BY <1>1 DEF Program
<1>3. 1 \in 1 .. Len(prog.injs) + 1
  BY <1>2
<1>4. subconvs \in [Mods -> SUBSET SubconvRec] /\ facs \in Seq(Factory) /\ frames \in Seq(Frame)
  BY DEF Init
<1>5. TypeOK
  BY <1>1, <1>2, <1>3, <1>4 DEF Init, TypeOK, Statuses
<1>6. Nested
  BY <1>1, NothingNested DEF Init, Nested
<1>7. QED
  BY <1>5, <1>6 DEF Typed

LEMMA FuncTyped ==
  ASSUME Typed, TryMatchFunc \/ TryModuleFunc
  PROVE  Typed'
<1>1. Building /\ status = "building"
  BY DEF TryMatchFunc, TryModuleFunc, Building
<1>2. Cur \in Field /\ cur \in DOMAIN prog.injs
  BY <1>1, FieldFacts, RunningFacts
<1>3. Cur.func \subseteq Fn /\ Cur.pair \in Pairs
  BY <1>2 DEF Field
<1>4. prog.lookup[Inj.mod][Cur.pair] \subseteq Fn
  BY <1>2, <1>3, ShapeFacts
<1>5. PICK fn \in Fn : CallFunc(Top.fac, fn)
  BY <1>3, <1>4 DEF TryMatchFunc, TryModuleFunc
<1>6. QED
  BY <1>1, <1>5, CallFuncTyped

LEMMA NextTyped ==
  ASSUME Typed, [Next]_vars
  PROVE  Typed'
<1>1. CASE BeginInjector
  BY <1>1, BeginInjectorTyped
<1>2. CASE EndInjector
  BY <1>2, EndInjectorTyped
<1>3. CASE EndBuild \/ Overflow \/ Panic \/ UNCHANGED vars
  BY <1>3, StatusTyped
<1>4. CASE TryMatchFunc \/ TryModuleFunc
  BY <1>4, FuncTyped
<1>5. CASE TrySubconvFunc
  BY <1>5, TrySubconvFuncTyped
<1>6. CASE Rerun
  BY <1>6, RerunTyped
<1>7. CASE TrySubconv
  BY <1>7, TrySubconvTyped
<1>8. CASE Unconvertible
  BY <1>8, UnconvertibleTyped
<1>9. CASE Commit
  BY <1>9, CommitTyped
<1>10. CASE Retry
  BY <1>10, RetryTyped
<1>11. CASE GiveUp
  BY <1>11, GiveUpTyped
<1>12. CASE ReportRerun
  BY <1>12, ReportRerunTyped
<1>13. QED
  BY <1>1, <1>2, <1>3, <1>4, <1>5, <1>6, <1>7, <1>8, <1>9, <1>10, <1>11, <1>12
  DEF Next, Build, Stopped

LEMMA AlwaysTyped == Spec => []Typed
<1>1. Init => Typed
  BY InitTyped
<1>2. Typed /\ [Next]_vars => Typed'
  BY NextTyped
<1>3. QED
  BY <1>1, <1>2, PTL DEF Spec

(* The state of the build is well-typed whatever the package: every factory  *)
(* index on the Go stack is that of a live factory, and every name and call  *)
(* put together on the way is one.                                           *)
THEOREM TypeCorrect == Spec => []TypeOK
<1>1. Typed => TypeOK
  BY DEF Typed
<1>2. QED
  BY <1>1, AlwaysTyped, PTL

-----------------------------------------------------------------------------
(* Errors.  What is said of factories and frames reads the package and the   *)
(* exports, which no step inside assign.Build changes.                       *)
LEMMA SafeStable ==
  ASSUME UNCHANGED <<prog, cur, subconvs, convs>>
  PROVE  /\ \A fac : SafeNew(fac) => SafeNew(fac)'
         /\ \A fs, fas, k : FrameSafe(fs, fas, k) => FrameSafe(fs, fas, k)'
         /\ SafeExports => SafeExports'
         /\ SafeConvs => SafeConvs'
<1>1. Inj' = Inj
  BY DEF Inj
<1>2. \A m, s : SafeFn(m, s) <=> SafeFn(m, s)'
  BY DEF SafeFn
<1>3. \A fac : SafeNew(fac) => SafeNew(fac)'
  BY <1>1, <1>2 DEF SafeNew
<1>4. \A fr : Reporting(fr) => Reporting(fr)'
  BY <1>1 DEF Reporting
<1>5. \A fr, fac : SafeRoot(fr, fac) => SafeRoot(fr, fac)'
  BY <1>1 DEF SafeRoot
<1>6. \A fs, fas, k : FrameSafe(fs, fas, k) => FrameSafe(fs, fas, k)'
  BY <1>4, <1>5 DEF FrameSafe
<1>7. SafeExports => SafeExports'
  BY <1>2 DEF SafeExports
<1>8. SafeConvs => SafeConvs'
  BY DEF SafeConvs
<1>9. QED
  BY <1>3, <1>6, <1>7, <1>8

LEMMA StillSound ==
  ASSUME Sound, UNCHANGED <<prog, cur, subconvs, convs>>,
         \A f \in 1 .. Len(facs') : KeepsErrorsOut(facs'[f]) /\ SafeNew(facs'[f]),
         \A k \in 1 .. Len(frames') : FrameSafe(frames', facs', k)
  PROVE  Sound'
<1>1. SafeExports' /\ SafeConvs'
  BY SafeStable DEF Sound
<1>2. SafeFactories'
  BY SafeStable DEF SafeFactories
<1>3. SafeFrames'
  BY SafeStable DEF SafeFrames
<1>4. QED
  BY <1>1, <1>2, <1>3 DEF Sound

(* A frame is as safe as another of the same attempt, where the factories    *)
(* that matter to it are alike.                                              *)
LEMMA FrameKept ==
  ASSUME NEW fs, NEW gs, NEW fas, NEW gas, NEW k \in Nat, FrameSafe(fs, fas, k),
         gs[k].kind = fs[k].kind, gs[k].fac = fs[k].fac, gs[k].pair = fs[k].pair,
         gs[k - 1].fac = fs[k - 1].fac,
         gas[1].allowsErr = fas[1].allowsErr,
         fs[k].kind = "try" =>
           /\ Holding(fs[k], fas[fs[k].fac]) => Holding(fs[k], gas[fs[k].fac])
           /\ gas[fs[k].fac].allowsErr = fas[fs[k].fac].allowsErr
           /\ gas[fs[k - 1].fac].allowsErr = fas[fs[k - 1].fac].allowsErr,
         k = 1 => SafeRoot(gs[1], gas[1])
  PROVE  FrameSafe(gs, gas, k)
<1>1. ASSUME gs[k].kind = "try"
      PROVE  /\ Holding(gs[k], gas[gs[k].fac])
             /\ gas[gs[k].fac].allowsErr => gas[gs[k - 1].fac].allowsErr
  BY <1>1 DEF FrameSafe, Holding
<1>2. gs[k].kind = "rerun" => ~gas[1].allowsErr /\ Reporting(gs[k])
  BY DEF FrameSafe, Reporting
<1>3. QED
  BY <1>1, <1>2 DEF FrameSafe

LEMMA ReturnedSound ==
  ASSUME Typed, Sound, status = "building", NEW fr \in Frame,
         fr.kind = Top.kind, fr.fac = Top.fac, fr.pair = Top.pair, Return(fr),
         Top.kind = "explicit" => SafeRoot(fr, facs[1]),
         UNCHANGED <<prog, cur, subconvs, convs, facs>>
  PROVE  Sound'
<1>1. /\ frames \in Seq(Frame) /\ Len(frames) \in Nat /\ Len(frames) >= 1
      /\ Top = frames[Len(frames)] /\ frames[1].kind = "explicit"
  BY RunningFacts
<1>2. /\ Len(frames') = Len(frames) /\ frames'[Len(frames)] = fr
      /\ \A i \in 1 .. Len(frames) - 1 : frames'[i] = frames[i]
  BY SameAttempt
<1>3. ASSUME NEW k \in 1 .. Len(frames)
      PROVE  FrameSafe(frames', facs, k)
  <2>1. FrameSafe(frames, facs, k) /\ k \in Nat
    BY <1>1, <1>3 DEF Sound, SafeFrames
  <2>2. k \in 1 .. Len(frames) - 1 \/ k = Len(frames)
    BY <1>1
  <2>3. /\ frames'[k].kind = frames[k].kind /\ frames'[k].fac = frames[k].fac
        /\ frames'[k].pair = frames[k].pair
    BY <1>1, <1>2, <2>2
  <2>4. CASE k = 1
    <3>1. SafeRoot(frames[1], facs[1])
      BY <2>1, <2>4 DEF FrameSafe
    <3>2. SafeRoot(frames'[1], facs[1])
      BY <1>1, <1>2, <2>2, <2>4, <3>1
    <3>3. QED
      BY <1>1, <2>3, <2>4, <3>2 DEF FrameSafe
  <2>5. CASE k # 1
    <3>1. k - 1 \in 1 .. Len(frames) - 1
      BY <1>1, <2>5
    <3>2. frames'[k - 1].fac = frames[k - 1].fac
      BY <1>2, <3>1
    <3>3. QED
      BY <2>1, <2>3, <2>5, <3>2, FrameKept
  <2>6. QED
    BY <2>4, <2>5
<1>4. \A f \in 1 .. Len(facs') : KeepsErrorsOut(facs'[f]) /\ SafeNew(facs'[f])
  BY DEF Sound, SafeFactories
<1>5. \A k \in 1 .. Len(frames') : FrameSafe(frames', facs', k)
  BY <1>2, <1>3
<1>6. QED
  BY <1>4, <1>5, StillSound

LEMMA CallerSound ==
  ASSUME Typed, Sound, status = "building", Top.kind # "explicit", NEW fr \in Frame,
         fr.kind = Caller.kind, fr.fac = Caller.fac, fr.pair = Caller.pair,
         ReturnToCaller(fr), UNCHANGED <<prog, cur, subconvs, convs>>,
         \A f \in 1 .. Len(facs') :
           /\ KeepsErrorsOut(facs'[f]) /\ SafeNew(facs'[f])
           /\ facs'[f].allowsErr = facs[f].allowsErr,
         \A k \in 1 .. Len(frames) - 1 :
           /\ frames[k].fac \in 1 .. Len(facs')
           /\ frames[k].kind = "try" /\ Holding(frames[k], facs[frames[k].fac])
                => Holding(frames[k], facs'[frames[k].fac]),
         SafeRoot(frames'[1], facs'[1])
  PROVE  Sound'
<1>1. /\ frames \in Seq(Frame) /\ Len(frames) \in Nat /\ Len(frames) >= 2
      /\ Caller = frames[Len(frames) - 1] /\ frames[1].kind = "explicit" /\ frames[1].fac = 1
  BY RunningFacts, CallerFacts
<1>2. /\ Len(frames') = Len(frames) - 1 /\ frames'[Len(frames) - 1] = fr
      /\ \A i \in 1 .. Len(frames) - 2 : frames'[i] = frames[i]
  BY ReturnTyped
<1>3. ASSUME NEW k \in 1 .. Len(frames) - 1
      PROVE  FrameSafe(frames', facs', k)
  <2>1. FrameSafe(frames, facs, k) /\ k \in Nat
    BY <1>1, <1>3 DEF Sound, SafeFrames
  <2>2. k \in 1 .. Len(frames) - 2 \/ k = Len(frames) - 1
    BY <1>1
  <2>3. /\ frames'[k].kind = frames[k].kind /\ frames'[k].fac = frames[k].fac
        /\ frames'[k].pair = frames[k].pair
    BY <1>1, <1>2, <2>2
  <2>4. CASE k = 1
    BY <1>1, <2>3, <2>4 DEF FrameSafe
  <2>5. CASE k # 1
    <3>1. k - 1 \in 1 .. Len(frames) - 2 /\ k - 1 \in 1 .. Len(frames) - 1
      BY <1>1, <2>5
    <3>2. frames'[k - 1].fac = frames[k - 1].fac
      BY <1>2, <3>1
    <3>3. /\ facs'[frames[k].fac].allowsErr = facs[frames[k].fac].allowsErr
          /\ facs'[frames[k - 1].fac].allowsErr = facs[frames[k - 1].fac].allowsErr
      BY <3>1
    <3>4. facs'[1].allowsErr = facs[1].allowsErr
      BY <1>1
    <3>5. QED
      BY <2>1, <2>3, <2>5, <3>2, <3>3, <3>4, FrameKept
  <2>6. QED
    BY <2>4, <2>5
<1>4. \A k \in 1 .. Len(frames') : FrameSafe(frames', facs', k)
  BY <1>2, <1>3
<1>5. QED
  BY <1>4, StillSound

LEMMA CalledSound ==
  ASSUME Typed, Sound, Building, NEW fr \in Frame, frames' = Append(frames, fr),
         UNCHANGED <<prog, cur, subconvs, convs>>,
         Len(facs') \in Nat, Len(facs) <= Len(facs'),
         \A f \in 1 .. Len(facs) : facs'[f] = facs[f],
         \A f \in 1 .. Len(facs') : KeepsErrorsOut(facs'[f]) /\ SafeNew(facs'[f]),
         fr.kind # "explicit",
         fr.kind = "try" =>
           /\ Holding(fr, facs'[fr.fac])
           /\ facs'[fr.fac].allowsErr => facs[Top.fac].allowsErr,
         fr.kind = "rerun" => ~facs[1].allowsErr /\ Reporting(fr)
  PROVE  Sound'
<1>1. /\ frames \in Seq(Frame) /\ Len(frames) \in Nat /\ Len(frames) >= 1
      /\ Top = frames[Len(frames)] /\ Top.fac \in 1 .. Len(facs)
      /\ 1 \in 1 .. Len(facs) /\ Len(facs) \in Nat
      /\ Nesting(frames, Len(facs))
  BY RunningFacts DEF Building
<1>2. /\ Len(frames') = Len(frames) + 1 /\ frames'[Len(frames) + 1] = fr
      /\ \A i \in 1 .. Len(frames) : frames'[i] = frames[i]
  BY CallTyped
<1>3. \A k \in 1 .. Len(frames) : frames[k].fac \in 1 .. Len(facs)
  BY <1>1 DEF Nesting, FramesFit
<1>4. ASSUME NEW k \in 1 .. Len(frames)
      PROVE  FrameSafe(frames', facs', k)
  <2>1. FrameSafe(frames, facs, k) /\ k \in Nat
    BY <1>1, <1>4 DEF Sound, SafeFrames
  <2>2. frames'[k] = frames[k] /\ facs'[frames[k].fac] = facs[frames[k].fac]
    BY <1>2, <1>3
  <2>3. facs'[1] = facs[1]
    BY <1>1
  <2>4. CASE k = 1
    <3>1. frames[1].kind = "explicit"
      BY <1>1, RunningFacts DEF Building
    <3>2. QED
      BY <2>1, <2>2, <2>3, <2>4, <3>1 DEF FrameSafe
  <2>5. CASE k # 1
    <3>1. k - 1 \in 1 .. Len(frames)
      BY <1>1, <2>5
    <3>2. frames'[k - 1] = frames[k - 1] /\ facs'[frames[k - 1].fac] = facs[frames[k - 1].fac]
      BY <1>2, <1>3, <3>1
    <3>3. QED
      BY <2>1, <2>2, <2>3, <2>5, <3>2, FrameKept
  <2>6. QED
    BY <2>4, <2>5
<1>5. FrameSafe(frames', facs', Len(frames) + 1)
  <2>1. PICK m \in Nat : m = Len(frames) + 1
    BY <1>1
  <2>2. m - 1 = Len(frames) /\ m # 1
    BY <1>1, <2>1
  <2>3. /\ frames'[m] = fr /\ frames'[m - 1] = Top
        /\ facs'[Top.fac] = facs[Top.fac] /\ facs'[1] = facs[1]
    BY <1>1, <1>2, <2>1, <2>2
  <2>4. FrameSafe(frames', facs', m)
    BY <2>2, <2>3 DEF FrameSafe
  <2>5. QED
    BY <2>1, <2>4
<1>6. \A k \in 1 .. Len(frames') : k \in 1 .. Len(frames) \/ k = Len(frames) + 1
  BY <1>1, <1>2
<1>7. \A k \in 1 .. Len(frames') : FrameSafe(frames', facs', k)
  BY <1>4, <1>5, <1>6
<1>8. QED
  BY <1>7, StillSound

(* The explicit converter's own frame: what it may call. *)
LEMMA RootFacts ==
  ASSUME Typed, Sound, status = "building"
  PROVE  /\ SafeRoot(frames[1], facs[1])
         /\ Top.kind = "explicit" => /\ Len(frames) = 1 /\ Top = frames[1] /\ Top.fac = 1
                                     /\ SafeRoot(Top, facs[1])
<1>1. /\ Len(frames) \in Nat /\ Len(frames) >= 1 /\ Top = frames[Len(frames)]
      /\ frames[1].fac = 1 /\ Nesting(frames, Len(facs))
  BY RunningFacts
<1>2. SafeRoot(frames[1], facs[1])
  <2>1. 1 \in 1 .. Len(frames)
    BY <1>1
  <2>2. QED
    BY <2>1 DEF Sound, SafeFrames, FrameSafe
<1>3. ASSUME Top.kind = "explicit"
      PROVE  Len(frames) = 1
  <2>1. Len(frames) \in 1 .. Len(frames)
    BY <1>1
  <2>2. QED
    BY <1>1, <1>3, <2>1 DEF Nesting, FramesFit
<1>4. QED
  BY <1>1, <1>2, <1>3

LEMMA CallFuncSound ==
  ASSUME Typed, Sound, Building, NEW f \in 1 .. Top.fac, NEW fn \in Fn, CallFunc(f, fn)
  PROVE  Sound'
<1>1. Top \in Frame /\ Top.todo # <<>> /\ status = "building"
  BY RunningFacts DEF Building
<1>2. PICK fr : /\ fr = IF CanCall(f, fn) THEN Built(Top, fn) ELSE Missed(Top)
                /\ Return(fr)
  BY DEF CallFunc
<1>3. /\ fr \in Frame /\ fr.kind = Top.kind /\ fr.fac = Top.fac /\ fr.pair = Top.pair
  BY <1>1, <1>2, AfterField
<1>4. UNCHANGED <<prog, cur, subconvs, convs, facs>>
  BY DEF CallFunc
<1>5. ASSUME Top.kind = "explicit"
      PROVE  SafeRoot(fr, facs[1])
  <2>1. f = 1 /\ SafeRoot(Top, facs[1])
    BY <1>1, <1>5, RootFacts
  <2>2. CASE CanCall(f, fn)
    <3>1. fr.calls = Top.calls \cup {fn} /\ fr.err = Top.err
      BY <1>1, <1>2, <2>2, AfterField
    <3>2. ~Inj.hasErr => ~fn.hasErr
      BY <2>1, <2>2 DEF CanCall, SafeRoot
    <3>3. QED
      BY <2>1, <3>1, <3>2 DEF SafeRoot
  <2>3. CASE ~CanCall(f, fn)
    <3>1. fr.calls = Top.calls /\ fr.err = TRUE
      BY <1>1, <1>2, <2>3, AfterField
    <3>2. QED
      BY <2>1, <3>1 DEF SafeRoot
  <2>4. QED
    BY <2>2, <2>3
<1>6. QED
  BY <1>1, <1>2, <1>3, <1>4, <1>5, ReturnedSound

LEMMA FuncSound ==
  ASSUME Typed, Sound, TryMatchFunc \/ TryModuleFunc
  PROVE  Sound'
<1>1. Building /\ status = "building"
  BY DEF TryMatchFunc, TryModuleFunc, Building
<1>2. Cur \in Field /\ cur \in DOMAIN prog.injs
  BY <1>1, FieldFacts, RunningFacts
<1>3. Cur.func \subseteq Fn /\ Cur.pair \in Pairs
  BY <1>2 DEF Field
<1>4. prog.lookup[Inj.mod][Cur.pair] \subseteq Fn
  BY <1>2, <1>3, ShapeFacts
<1>5. PICK fn \in Fn : CallFunc(Top.fac, fn)
  BY <1>3, <1>4 DEF TryMatchFunc, TryModuleFunc
<1>6. Top.fac \in 1 .. Top.fac
  BY <1>1, RunningFacts
<1>7. QED
  BY <1>1, <1>5, <1>6, CallFuncSound

LEMMA TrySubconvFuncSound ==
  ASSUME Typed, Sound, TrySubconvFunc
  PROVE  Sound'
<1>1. Building /\ status = "building"
  BY DEF TrySubconvFunc, NoFunc, Building
<1>2. PICK g \in facs[Top.fac].line :
        \E s \in Get(g, Cur.pair) : CallFunc(g, AsFn(s))
  BY DEF TrySubconvFunc
<1>3. PICK s \in Get(g, Cur.pair) : CallFunc(g, AsFn(s))
  BY <1>2
<1>4. g \in 1 .. Top.fac
  <2>1. Top.fac \in 1 .. Len(facs) /\ facs[Top.fac].line \subseteq 1 .. Top.fac
    BY <1>1, RunningFacts
  <2>2. QED
    BY <1>2, <2>1
<1>5. g \in DOMAIN facs
  <2>1. Top.fac \in 1 .. Len(facs) /\ Len(facs) \in Nat /\ DOMAIN facs = 1 .. Len(facs)
    BY <1>1, RunningFacts
  <2>2. QED
    BY <1>4, <2>1
<1>6. AsFn(s) \in Fn
  BY <1>1, <1>3, <1>5, GetFacts
<1>7. QED
  BY <1>1, <1>3, <1>4, <1>6, CallFuncSound

LEMMA UnconvertibleSound ==
  ASSUME Typed, Sound, Unconvertible
  PROVE  Sound'
<1>1. Building /\ status = "building" /\ Top \in Frame /\ Top.todo # <<>>
  BY RunningFacts DEF Unconvertible, Unknown, NoFunc, Building
<1>2. UNCHANGED <<prog, cur, subconvs, convs, facs>> /\ Return(Missed(Top))
  BY DEF Unconvertible
<1>3. /\ Missed(Top) \in Frame /\ Missed(Top).kind = Top.kind /\ Missed(Top).fac = Top.fac
      /\ Missed(Top).pair = Top.pair /\ Missed(Top).calls = Top.calls /\ Missed(Top).err = TRUE
  BY <1>1, MissedFrame
<1>4. Top.kind = "explicit" => SafeRoot(Missed(Top), facs[1])
  BY <1>1, <1>3, RootFacts DEF SafeRoot
<1>5. QED
  BY <1>1, <1>2, <1>3, <1>4, ReturnedSound

LEMMA RerunSound ==
  ASSUME Typed, Sound, Rerun
  PROVE  Sound'
<1>1. Building /\ status = "building"
  BY DEF Rerun, NoFunc, Building
<1>2. /\ Top \in Frame /\ Top.fac \in 1 .. Len(facs) /\ Len(facs) \in Nat
      /\ facs[Top.fac].line \subseteq 1 .. Top.fac /\ cur \in DOMAIN prog.injs
  BY <1>1, RunningFacts
<1>3. PICK g \in facs[Top.fac].line :
        /\ \E s \in Get(g, Cur.pair) : ~CanCall(g, AsFn(s))
        /\ frames' = Append(frames,
             TryStruct("rerun", g, facs[g].allowsErr, Cur.pair, Top.name,
                       FieldsOf(g, Cur.pair)))
  BY DEF Rerun
<1>4. PICK s \in Get(g, Cur.pair) : ~CanCall(g, AsFn(s))
  BY <1>3
<1>5. s.hasErr /\ ~facs[g].allowsErr
  BY <1>4 DEF CanCall, AsFn
<1>6. g \in 1 .. Len(facs) /\ g \in Nat
  BY <1>2, <1>3
<1>7. \A t \in facs[g].new : ~t.hasErr
  BY <1>5, <1>6 DEF Sound, SafeFactories, KeepsErrorsOut
<1>8. g = 1 /\ s \in subconvs[Inj.mod] /\ s.pair = Cur.pair
  BY <1>4, <1>5, <1>7 DEF Get
<1> DEFINE fr == TryStruct("rerun", g, facs[g].allowsErr, Cur.pair, Top.name,
                           FieldsOf(g, Cur.pair))
<1>9. fr \in Frame
  <2>1. facs[g] \in Factory
    BY <1>1, <1>6, RunningFacts
  <2>2. facs[g].allowsErr \in BOOLEAN
    BY <2>1 DEF Factory
  <2>3. Cur.pair \in Pairs
    BY <1>1, FieldFacts DEF Field
  <2>4. Top.name \in Name /\ FieldsOf(g, Cur.pair) \in Seq(Field)
    BY <1>2, <2>3, ShapeFacts DEF Frame
  <2>5. "rerun" \in Kinds
    BY DEF Kinds
  <2>6. QED
    BY <1>6, <2>2, <2>3, <2>4, <2>5, NewFrame
<1>10. fr.kind = "rerun" /\ fr.fac = g /\ fr.pair = Cur.pair
  BY DEF TryStruct
<1>11. frames' = Append(frames, fr)
  BY <1>3
<1> HIDE DEF fr
<1>12. Reporting(fr)
  BY <1>5, <1>8, <1>10 DEF Reporting
<1>13. UNCHANGED <<prog, cur, subconvs, convs, facs>>
  BY DEF Rerun
<1>14. \A f \in 1 .. Len(facs') : KeepsErrorsOut(facs'[f]) /\ SafeNew(facs'[f])
  BY <1>13 DEF Sound, SafeFactories
<1>15. Len(facs') \in Nat /\ Len(facs) <= Len(facs') /\ \A f \in 1 .. Len(facs) : facs'[f] = facs[f]
  BY <1>2, <1>13
<1>16. ~facs[1].allowsErr /\ fr.kind # "explicit" /\ fr.kind # "try"
  BY <1>5, <1>8, <1>10
<1>17. QED
  BY <1>1, <1>9, <1>11, <1>12, <1>13, <1>14, <1>15, <1>16, CalledSound

(* A fork with nothing but its placeholder. *)
LEMMA ForkSafe ==
  ASSUME NEW line, NEW f, NEW b \in BOOLEAN, NEW p, NEW name, NEW fr, fr.pair = p,
         NEW fac, fac = Fork(line, f, b, p, name)
  PROVE  /\ fac.allowsErr <=> b
         /\ Holding(fr, fac)
         /\ KeepsErrorsOut(fac)
         /\ SafeNew(fac)
<1> DEFINE s == Placeholder(p, name, b)
<1>1. fac.new = {s} /\ (fac.allowsErr <=> b)
  BY DEF Fork
<1>2. s.pair = p /\ ~s.done /\ (s.hasErr <=> b)
  BY DEF Placeholder
<1> HIDE DEF s
<1>3. QED
  BY <1>1, <1>2 DEF Holding, KeepsErrorsOut, SafeNew

LEMMA TrySubconvSound ==
  ASSUME Typed, Sound, TrySubconv
  PROVE  Sound'
<1>1. Building /\ status = "building"
  BY DEF TrySubconv, Unknown, NoFunc, Building
<1>2. /\ Top.fac \in 1 .. Len(facs) /\ Len(facs) \in Nat /\ facs \in Seq(Factory)
      /\ cur \in DOMAIN prog.injs
      /\ \A f \in 1 .. Len(facs) : facs[f].line \subseteq 1 .. f
  BY <1>1, RunningFacts
<1>3. PICK i \in 1 .. Cardinality(ns) + 1 :
        LET name == DisambiguateName(prog.base[Inj.mod][Cur.pair], i)
            f    == Len(facs) + 1
        IN  /\ facs' = Append(facs, Fork(facs[Top.fac].line, f, FALSE, Cur.pair, name))
            /\ frames' = Append(frames,
                 TryStruct("try", f, FALSE, Cur.pair, name, prog.shape[Inj.mod][Cur.pair]))
  BY DEF TrySubconv
<1> DEFINE name == DisambiguateName(prog.base[Inj.mod][Cur.pair], i)
           f    == Len(facs) + 1
           fr   == TryStruct("try", f, FALSE, Cur.pair, name, prog.shape[Inj.mod][Cur.pair])
           fac  == Fork(facs[Top.fac].line, f, FALSE, Cur.pair, name)
<1>4. frames' = Append(frames, fr) /\ facs' = Append(facs, fac)
  BY <1>3
<1>5. Cur.pair \in Pairs
  BY <1>1, FieldFacts DEF Field
<1>6. name \in Name /\ prog.shape[Inj.mod][Cur.pair] \in Seq(Field)
  <2>1. i \in Nat
    BY <1>3
  <2>2. QED
    BY <1>2, <1>5, <2>1, ShapeFacts, NameFacts
<1>7. f \in Nat /\ facs[Top.fac].line \subseteq Nat
  BY <1>2
<1>8. fr.kind = "try" /\ fr.fac = f /\ fr.pair = Cur.pair
  BY DEF TryStruct
<1> HIDE DEF name
<1>9. fr \in Frame /\ fac \in Factory
  <2> HIDE DEF f
  <2>1. fr \in Frame
    BY <1>5, <1>6, <1>7 DEF TryStruct, Frame, Kinds
  <2>2. fac \in Factory
    BY <1>5, <1>6, <1>7 DEF Fork, Factory, Placeholder, SubconvRec
  <2>3. QED
    BY <2>1, <2>2
<1>10. ~fac.allowsErr /\ Holding(fr, fac) /\ KeepsErrorsOut(fac) /\ SafeNew(fac)
  <2>0. ~fac.allowsErr
    BY DEF Fork
  <2>1. PICK b \in BOOLEAN : b = FALSE
    OBVIOUS
  <2>2. fac = Fork(facs[Top.fac].line, f, b, Cur.pair, name)
    BY <2>1
  <2> HIDE DEF fac, fr
  <2>3. Holding(fr, fac) /\ KeepsErrorsOut(fac) /\ SafeNew(fac)
    BY <1>8, <2>1, <2>2, ForkSafe
  <2>4. QED
    BY <2>0, <2>3
<1> HIDE DEF fr, fac
<1>11. /\ Len(facs') = Len(facs) + 1 /\ facs'[Len(facs) + 1] = fac
       /\ \A g \in 1 .. Len(facs) : facs'[g] = facs[g]
  BY <1>2, <1>4, <1>9, AppendSeq
<1>12. \A g \in 1 .. Len(facs') : KeepsErrorsOut(facs'[g]) /\ SafeNew(facs'[g])
  <2>1. \A g \in 1 .. Len(facs') : g \in 1 .. Len(facs) \/ g = Len(facs) + 1
    BY <1>2, <1>11
  <2>2. QED
    BY <1>10, <1>11, <2>1 DEF Sound, SafeFactories
<1>13. UNCHANGED <<prog, cur, subconvs, convs>>
  BY DEF TrySubconv
<1>14. Len(facs') \in Nat /\ Len(facs) <= Len(facs') /\ facs'[fr.fac] = fac
  BY <1>2, <1>8, <1>11
<1>15. fr.kind # "explicit" /\ fr.kind # "rerun"
  BY <1>8
<1>16. QED
  BY <1>1, <1>4, <1>9, <1>10, <1>11, <1>12, <1>13, <1>14, <1>15, CalledSound

LEMMA RetrySound ==
  ASSUME Typed, Sound, Retry
  PROVE  Sound'
<1> DEFINE fr  == TryStruct("try", Top.fac, TRUE, Top.pair, Top.name,
                            prog.shape[Inj.mod][Top.pair])
           fac == Fork(facs[Caller.fac].line, Len(facs), TRUE, Top.pair, Top.name)
           n   == Len(facs)
           m   == Len(frames)
<1>1. TryEnds /\ Return(fr) /\ facs' = Append(Pop(facs), fac) /\ facs[Caller.fac].allowsErr
  BY DEF Retry, MayRetry
<1>2. UNCHANGED <<prog, status, cur, ns, subconvs, convs, failed>>
  BY DEF Retry
<1>3. /\ status = "building" /\ Top.kind = "try" /\ Top \in Frame /\ Top.fac = n
      /\ n \in Nat /\ cur \in DOMAIN prog.injs
      /\ Caller.fac \in 1 .. n - 1 /\ facs[Caller.fac].line \subseteq 1 .. Caller.fac
      /\ Pop(facs) \in Seq(Factory) /\ Len(Pop(facs)) = n - 1
      /\ \A f \in 1 .. n - 1 : Pop(facs)[f] = facs[f]
  BY <1>1, PopFactory
<1>4. Top.pair \in Pairs /\ Top.name \in Name
  BY <1>3 DEF Frame
<1>5. prog.shape[Inj.mod][Top.pair] \in Seq(Field)
  BY <1>3, <1>4, ShapeFacts
<1>6. Top.fac \in Nat /\ facs[Caller.fac].line \subseteq Nat
  BY <1>3
<1>7. fr \in Frame /\ fac \in Factory
  <2>1. fr \in Frame
    BY <1>4, <1>5, <1>6 DEF TryStruct, Frame, Kinds
  <2>2. fac \in Factory
    BY <1>3, <1>4, <1>6 DEF Fork, Factory, Placeholder, SubconvRec
  <2>3. QED
    BY <2>1, <2>2
<1>8. fr.kind = "try" /\ fr.fac = Top.fac /\ fr.pair = Top.pair
  BY DEF TryStruct
<1>9. Holding(fr, fac) /\ KeepsErrorsOut(fac) /\ SafeNew(fac)
  <2>1. PICK b \in BOOLEAN : b = TRUE
    OBVIOUS
  <2>2. fac = Fork(facs[Caller.fac].line, Len(facs), b, Top.pair, Top.name)
    BY <2>1
  <2> HIDE DEF fac, fr
  <2>3. QED
    BY <1>8, <2>1, <2>2, ForkSafe
<1> HIDE DEF fr, fac
<1>10. /\ m \in Nat /\ m >= 2 /\ Top = frames[m] /\ Caller = frames[m - 1]
       /\ frames[1].kind = "explicit" /\ Nesting(frames, n)
  BY <1>3, RunningFacts, CallerFacts
<1>11. /\ Len(frames') = m /\ frames'[m] = fr
       /\ \A i \in 1 .. m - 1 : frames'[i] = frames[i]
  BY <1>1, <1>3, <1>7, <1>8, SameAttempt
<1>12. /\ Len(facs') = Len(Pop(facs)) + 1 /\ facs'[Len(Pop(facs)) + 1] = fac
       /\ \A f \in 1 .. Len(Pop(facs)) : facs'[f] = Pop(facs)[f]
  BY <1>1, <1>3, <1>7, AppendSeq
<1>13. /\ Len(facs') = n /\ facs'[n] = fac
       /\ \A f \in 1 .. n - 1 : facs'[f] = facs[f]
  BY <1>3, <1>12
<1>14. \A f \in 1 .. Len(facs') : KeepsErrorsOut(facs'[f]) /\ SafeNew(facs'[f])
  <2>1. \A f \in 1 .. n : f \in 1 .. n - 1 \/ f = n
    BY <1>3
  <2>2. QED
    BY <1>9, <1>13, <2>1 DEF Sound, SafeFactories
<1>15. \A k \in 1 .. m - 1 : frames[k].fac \in 1 .. n - 1
  BY <1>3, <1>10, TopIsNewest
<1>16. 1 \in 1 .. n - 1
  BY <1>3
<1>17. ASSUME NEW k \in 1 .. m - 1
       PROVE  FrameSafe(frames', facs', k)
  <2>1. FrameSafe(frames, facs, k) /\ k \in Nat
    BY <1>10 DEF Sound, SafeFrames
  <2>2. frames'[k] = frames[k] /\ facs'[frames[k].fac] = facs[frames[k].fac] /\ facs'[1] = facs[1]
    BY <1>11, <1>13, <1>15, <1>16
  <2>3. CASE k = 1
    BY <1>10, <2>1, <2>2, <2>3 DEF FrameSafe
  <2>4. CASE k # 1
    <3>1. k - 1 \in 1 .. m - 1
      BY <1>10, <2>4
    <3>2. frames'[k - 1] = frames[k - 1] /\ facs'[frames[k - 1].fac] = facs[frames[k - 1].fac]
      BY <1>11, <1>13, <1>15, <3>1
    <3>3. QED
      BY <2>1, <2>2, <2>4, <3>2, FrameKept
  <2>5. QED
    BY <2>3, <2>4
<1>18. FrameSafe(frames', facs', m)
  <2>1. m - 1 \in 1 .. m - 1 /\ m # 1
    BY <1>10
  <2>2. frames'[m - 1] = Caller /\ facs'[Caller.fac] = facs[Caller.fac] /\ facs'[fr.fac] = fac
    BY <1>3, <1>8, <1>10, <1>11, <1>13, <2>1
  <2> HIDE DEF m, n
  <2>3. QED
    BY <1>1, <1>8, <1>9, <1>11, <2>1, <2>2 DEF FrameSafe
<1>19. \A k \in 1 .. Len(frames') : k \in 1 .. m - 1 \/ k = m
  BY <1>10, <1>11
<1>20. \A k \in 1 .. Len(frames') : FrameSafe(frames', facs', k)
  BY <1>17, <1>18, <1>19
<1>21. QED
  BY <1>2, <1>14, <1>20, StillSound

LEMMA GiveUpSound ==
  ASSUME Typed, Sound, GiveUp
  PROVE  Sound'
<1>1. TryEnds /\ ReturnToCaller(Missed(Caller)) /\ facs' = Pop(facs)
  BY DEF GiveUp
<1>2. UNCHANGED <<prog, cur, subconvs, convs>>
  BY DEF GiveUp
<1>3. /\ status = "building" /\ Top.kind = "try" /\ Top.kind # "explicit"
      /\ Caller \in Frame /\ Caller.todo # <<>>
      /\ Len(facs) \in Nat /\ Caller.fac \in 1 .. Len(facs) - 1
      /\ Len(facs') = Len(facs) - 1
      /\ \A f \in 1 .. Len(facs) - 1 : facs'[f] = facs[f]
  BY <1>1, PopFactory
<1>4. /\ Missed(Caller) \in Frame
      /\ Missed(Caller).kind = Caller.kind /\ Missed(Caller).fac = Caller.fac
      /\ Missed(Caller).pair = Caller.pair
      /\ Missed(Caller).calls = Caller.calls /\ Missed(Caller).err = TRUE
  BY <1>3, MissedFrame
<1>5. \A k \in 1 .. Len(frames) - 1 : frames[k].fac \in 1 .. Len(facs) - 1
  <2>1. /\ Nesting(frames, Len(facs)) /\ Len(frames) \in Nat /\ Len(frames) >= 1
        /\ frames[Len(frames)].kind = "try"
    BY <1>3, RunningFacts
  <2>2. QED
    BY <1>3, <2>1, TopIsNewest
<1>6. \A f \in 1 .. Len(facs') :
        /\ KeepsErrorsOut(facs'[f]) /\ SafeNew(facs'[f])
        /\ facs'[f].allowsErr = facs[f].allowsErr
  BY <1>3 DEF Sound, SafeFactories
<1>7. \A k \in 1 .. Len(frames) - 1 :
        /\ frames[k].fac \in 1 .. Len(facs')
        /\ facs'[frames[k].fac] = facs[frames[k].fac]
  BY <1>3, <1>5
<1>8. SafeRoot(frames'[1], facs'[1])
  <2>1. facs'[1] = facs[1] /\ SafeRoot(frames[1], facs[1])
    BY <1>3, RootFacts
  <2>2. /\ frames'[Len(frames) - 1] = Missed(Caller)
        /\ \A i \in 1 .. Len(frames) - 2 : frames'[i] = frames[i]
    BY <1>1, <1>3, <1>4, ReturnTyped
  <2>3. Len(frames) >= 2 /\ Len(frames) \in Nat /\ Caller = frames[Len(frames) - 1]
    BY <1>3, RunningFacts, CallerFacts
  <2>4. CASE Len(frames) = 2
    <3>1. frames'[1] = Missed(Caller) /\ Caller = frames[1]
      BY <2>2, <2>3, <2>4
    <3>2. QED
      BY <1>4, <2>1, <3>1 DEF SafeRoot
  <2>5. CASE Len(frames) > 2
    <3>1. 1 \in 1 .. Len(frames) - 2
      BY <2>3, <2>5
    <3>2. frames'[1] = frames[1]
      BY <2>2, <3>1
    <3>3. QED
      BY <2>1, <3>2
  <2>6. Len(frames) = 2 \/ Len(frames) > 2
    <3>1. Len(frames) \in Nat /\ Len(frames) >= 2
      BY <2>3
    <3>2. \A k \in Nat : k >= 2 => k = 2 \/ k > 2
      OBVIOUS
    <3>3. QED
      BY <3>1, <3>2
  <2>7. QED
    BY <2>4, <2>5, <2>6
<1>9. QED
  BY <1>1, <1>2, <1>3, <1>4, <1>6, <1>7, <1>8, CallerSound

LEMMA ReportRerunSound ==
  ASSUME Typed, Sound, ReportRerun
  PROVE  Sound'
<1>1. status = "building" /\ Top.kind = "rerun" /\ ReturnToCaller(Missed(Caller))
  BY DEF ReportRerun, RerunEnds
<1>2. UNCHANGED <<prog, cur, subconvs, convs, facs>> /\ Top.kind # "explicit"
  BY <1>1 DEF ReportRerun
<1>3. /\ Missed(Caller) \in Frame
      /\ Missed(Caller).kind = Caller.kind /\ Missed(Caller).fac = Caller.fac
      /\ Missed(Caller).pair = Caller.pair
      /\ Missed(Caller).calls = Caller.calls /\ Missed(Caller).err = TRUE
  BY <1>1, <1>2, CallerFacts, MissedFrame
<1>4. /\ Len(frames) \in Nat /\ Len(frames) >= 2 /\ Nesting(frames, Len(facs))
      /\ Caller = frames[Len(frames) - 1]
  BY <1>1, <1>2, RunningFacts, CallerFacts
<1>5. \A f \in 1 .. Len(facs') :
        /\ KeepsErrorsOut(facs'[f]) /\ SafeNew(facs'[f])
        /\ facs'[f].allowsErr = facs[f].allowsErr
  BY <1>2 DEF Sound, SafeFactories
<1>6. \A k \in 1 .. Len(frames) - 1 :
        /\ frames[k].fac \in 1 .. Len(facs')
        /\ facs'[frames[k].fac] = facs[frames[k].fac]
  <2>1. \A k \in 1 .. Len(frames) - 1 : k \in 1 .. Len(frames)
    BY <1>4
  <2>2. QED
    BY <1>2, <1>4, <2>1 DEF Nesting, FramesFit
<1>7. SafeRoot(frames'[1], facs'[1])
  <2>1. facs'[1] = facs[1] /\ SafeRoot(frames[1], facs[1])
    BY <1>1, <1>2, RootFacts
  <2>2. /\ frames'[Len(frames) - 1] = Missed(Caller)
        /\ \A i \in 1 .. Len(frames) - 2 : frames'[i] = frames[i]
    BY <1>1, <1>2, <1>3, ReturnTyped
  <2>3. CASE Len(frames) = 2
    <3>1. frames'[1] = Missed(Caller) /\ Caller = frames[1]
      BY <1>4, <2>2, <2>3
    <3>2. QED
      BY <1>3, <2>1, <3>1 DEF SafeRoot
  <2>4. CASE Len(frames) > 2
    <3>1. 1 \in 1 .. Len(frames) - 2
      BY <1>4, <2>4
    <3>2. frames'[1] = frames[1]
      BY <2>2, <3>1
    <3>3. QED
      BY <2>1, <3>2
  <2>5. Len(frames) = 2 \/ Len(frames) > 2
    BY <1>4
  <2>6. QED
    BY <2>3, <2>4, <2>5
<1>8. QED
  BY <1>1, <1>2, <1>3, <1>5, <1>6, <1>7, CallerSound

(* What the attempt that succeeds hands to its caller's factory. *)
LEMMA MergeFacts ==
  ASSUME Typed, Sound, Commit
  PROVE  /\ \A s \in Completed(Len(facs), Top) : s.done /\ SafeFn(Inj.mod, s)
         /\ facs[Len(facs)].allowsErr => facs[Caller.fac].allowsErr
         /\ facs[Len(facs)].allowsErr \/ \A s \in Completed(Len(facs), Top) : ~s.hasErr
<1> DEFINE n == Len(facs)
<1>1. TryEnds /\ ~Top.err /\ (facs[n].allowsErr \/ ~RequiresErr(Top)) /\ Top.fac = n
  BY PopFactory DEF Commit, TryOK
<1>2. /\ status = "building" /\ Top.kind = "try" /\ Top \in Frame /\ n \in Nat
      /\ Caller.fac \in 1 .. n - 1
  BY <1>1, PopFactory
<1>3. /\ Len(frames) \in Nat /\ Len(frames) >= 1 /\ Top = frames[Len(frames)]
      /\ Caller = frames[Len(frames) - 1]
  BY <1>2, RunningFacts DEF Caller
<1>4. FrameSafe(frames, facs, Len(frames))
  <2>1. Len(frames) \in 1 .. Len(frames)
    BY <1>3
  <2>2. QED
    BY <2>1 DEF Sound, SafeFrames
<1>5. Holding(Top, facs[n]) /\ (facs[n].allowsErr => facs[Caller.fac].allowsErr)
  BY <1>1, <1>2, <1>3, <1>4 DEF FrameSafe
<1>6. KeepsErrorsOut(facs[n]) /\ SafeNew(facs[n])
  BY <1>2 DEF Sound, SafeFactories
<1>7. \/ facs[n].allowsErr
      \/ /\ \A fn \in Top.calls : ~fn.hasErr
         /\ ~AccErr(prog.shape[Inj.mod][Top.pair])
  <2>1. Caller.fac >= 1 /\ Caller.fac <= n - 1 /\ Caller.fac \in Int
    BY <1>2
  <2>2. Top.fac # 1
    <3>1. n \in Nat /\ n > 1
      BY <1>2, <2>1
    <3>2. Top.fac \in Nat /\ Top.fac > 1
      BY <1>1, <3>1
    <3>3. QED
      BY <3>2
  <2>3. FieldsOf(Top.fac, Top.pair) = prog.shape[Inj.mod][Top.pair]
    BY <2>2 DEF FieldsOf
  <2>4. RequiresErr(Top)
          \/ (~AccErr(FieldsOf(Top.fac, Top.pair)) /\ \A fn \in Top.calls : ~fn.hasErr)
    BY DEF RequiresErr
  <2>5. AccErr(FieldsOf(Top.fac, Top.pair)) <=> AccErr(prog.shape[Inj.mod][Top.pair])
    BY <2>3
  <2>6. facs[n].allowsErr \/ ~RequiresErr(Top)
    BY <1>1
  <2> HIDE DEF n
  <2>7. CASE facs[n].allowsErr
    BY <2>7
  <2>8. CASE ~RequiresErr(Top)
    BY <2>4, <2>5, <2>8
  <2>9. QED
    BY <2>6, <2>7, <2>8
<1>8. ASSUME NEW s \in facs[n].new, s.pair = Top.pair,
             NEW t, t = [s EXCEPT !.calls = Top.calls, !.done = TRUE]
      PROVE  t.done /\ SafeFn(Inj.mod, t) /\ (t.hasErr <=> facs[n].allowsErr)
  <2>1. s \in SubconvRec
    <3>1. facs[n] \in Factory
      BY <1>1, PopFactory
    <3>2. QED
      BY <3>1 DEF Factory
  <2>2. t.done /\ t.calls = Top.calls /\ t.hasErr = s.hasErr /\ t.pair = s.pair
    BY <1>8, <2>1 DEF SubconvRec
  <2>3. s.hasErr <=> facs[n].allowsErr
    BY <1>5, <1>8 DEF Holding
  <2> HIDE DEF n
  <2>4. QED
    BY <1>7, <1>8, <2>2, <2>3 DEF SafeFn
<1>9. ASSUME NEW s \in facs[n].new, s.pair # Top.pair
      PROVE  s.done /\ SafeFn(Inj.mod, s) /\ (facs[n].allowsErr \/ ~s.hasErr)
  BY <1>5, <1>6, <1>9 DEF Holding, KeepsErrorsOut, SafeNew
<1>10. ASSUME NEW t \in Completed(n, Top)
       PROVE  t.done /\ SafeFn(Inj.mod, t) /\ (facs[n].allowsErr \/ ~t.hasErr)
  <2>1. PICK s \in facs[n].new :
          t = IF s.pair = Top.pair
              THEN [s EXCEPT !.calls = Top.calls, !.done = TRUE] ELSE s
    BY <1>10 DEF Completed
  <2>2. QED
    BY <1>8, <1>9, <2>1
<1>11. QED
  BY <1>5, <1>10

LEMMA CommitSound ==
  ASSUME Typed, Sound, Commit
  PROVE  Sound'
<1> DEFINE fn == [name |-> Top.name, hasErr |-> facs[Top.fac].allowsErr]
           n  == Len(facs)
           g  == Caller.fac
<1>1. TryEnds /\ ReturnToCaller(Built(Caller, fn))
  BY DEF Commit
<1>2. UNCHANGED <<prog, cur, subconvs, convs>>
  BY DEF Commit
<1>3. /\ status = "building" /\ Top.kind = "try" /\ Top.kind # "explicit"
      /\ Top \in Frame /\ Top.fac = n /\ facs[n] \in Factory
      /\ Caller \in Frame /\ Caller.todo # <<>> /\ g \in 1 .. n - 1 /\ n \in Nat
  BY <1>1, PopFactory
<1>4. fn \in Fn /\ fn.hasErr = facs[n].allowsErr
  <2>1. facs[Top.fac].allowsErr \in BOOLEAN
    BY <1>3 DEF Factory
  <2>2. Top.name \in Name
    BY <1>3 DEF Frame
  <2>3. QED
    BY <1>3, <2>1, <2>2 DEF Fn
<1> HIDE DEF fn
<1>5. /\ Built(Caller, fn) \in Frame
      /\ Built(Caller, fn).kind = Caller.kind /\ Built(Caller, fn).fac = Caller.fac
      /\ Built(Caller, fn).pair = Caller.pair /\ Built(Caller, fn).err = Caller.err
      /\ Built(Caller, fn).calls = Caller.calls \cup {fn}
  BY <1>3, <1>4, AfterField
<1>6. /\ Len(facs') = n - 1
      /\ \A f \in 1 .. n - 1 : facs'[f].allowsErr = facs[f].allowsErr
      /\ \A f \in 1 .. n - 1 : f # g => facs'[f] = facs[f]
      /\ facs'[g].new = PutAll(facs[g].new, Completed(n, Top))
  BY CommitFacts
<1>7. /\ \A s \in Completed(n, Top) : s.done /\ SafeFn(Inj.mod, s)
      /\ facs[n].allowsErr => facs[g].allowsErr
      /\ facs[n].allowsErr \/ \A s \in Completed(n, Top) : ~s.hasErr
  BY MergeFacts
<1>8. \A f \in 1 .. n - 1 : KeepsErrorsOut(facs[f]) /\ SafeNew(facs[f])
  BY <1>3 DEF Sound, SafeFactories
<1> HIDE DEF n, g
<1>9. KeepsErrorsOut(facs'[g]) /\ SafeNew(facs'[g])
  <2>1. \A s \in facs'[g].new : s \in facs[g].new \/ s \in Completed(n, Top)
    BY <1>6 DEF PutAll
  <2>2. KeepsErrorsOut(facs'[g])
    BY <1>3, <1>6, <1>7, <1>8, <2>1 DEF KeepsErrorsOut
  <2>3. SafeNew(facs'[g])
    BY <1>3, <1>7, <1>8, <2>1 DEF SafeNew
  <2>4. QED
    BY <2>2, <2>3
<1>10. \A f \in 1 .. Len(facs') :
         /\ KeepsErrorsOut(facs'[f]) /\ SafeNew(facs'[f])
         /\ facs'[f].allowsErr = facs[f].allowsErr
  BY <1>6, <1>8, <1>9
<1>11. \A k \in 1 .. Len(frames) - 1 : frames[k].fac \in 1 .. n - 1
  <2>1. /\ Nesting(frames, n) /\ Len(frames) \in Nat /\ Len(frames) >= 1
        /\ frames[Len(frames)].kind = "try"
    BY <1>3, RunningFacts DEF n
  <2>2. QED
    BY <1>3, <2>1, TopIsNewest
<1>12. ASSUME NEW k \in 1 .. Len(frames) - 1, Holding(frames[k], facs[frames[k].fac])
       PROVE  Holding(frames[k], facs'[frames[k].fac])
  <2>1. CASE frames[k].fac # g
    BY <1>6, <1>11, <1>12, <2>1
  <2>2. CASE frames[k].fac = g
    <3>1. PICK s \in facs[g].new : s.pair = frames[k].pair
      BY <1>12, <2>2 DEF Holding
    <3>2. \A t \in facs'[g].new : t \in facs[g].new \/ (t.done /\ t.pair # frames[k].pair)
      BY <1>6, <1>7, <3>1 DEF PutAll
    <3>3. s \in facs'[g].new
      BY <1>6 DEF PutAll
    <3>4. facs'[g].allowsErr = facs[g].allowsErr
      BY <1>3, <1>6
    <3>5. QED
      BY <1>12, <2>2, <3>1, <3>2, <3>3, <3>4 DEF Holding
  <2>3. QED
    BY <2>1, <2>2
<1>13. SafeRoot(frames'[1], facs'[1])
  <2>1. SafeRoot(frames[1], facs[1]) /\ frames[1].fac = 1
    BY <1>3, RootFacts, RunningFacts
  <2>2. /\ frames'[Len(frames) - 1] = Built(Caller, fn)
        /\ \A i \in 1 .. Len(frames) - 2 : frames'[i] = frames[i]
    BY <1>1, <1>3, <1>5, ReturnTyped
  <2>3. Len(frames) >= 2 /\ Len(frames) \in Nat /\ Caller = frames[Len(frames) - 1]
    BY <1>3, RunningFacts, CallerFacts
  <2>4. facs'[1].allowsErr = facs[1].allowsErr
    BY <1>3, <1>6
  <2>5. \A s \in facs'[1].new : s.done
    <3>1. CASE g = 1
      BY <1>6, <1>7, <2>1, <3>1 DEF PutAll, SafeRoot
    <3>2. CASE g # 1
      BY <1>3, <1>6, <2>1, <3>2 DEF SafeRoot
    <3>3. QED
      BY <3>1, <3>2
  <2>6. CASE Len(frames) = 2
    <3>1. frames'[1] = Built(Caller, fn) /\ Caller = frames[1] /\ g = 1
      BY <2>1, <2>2, <2>3, <2>6 DEF g
    <3>2. fn.hasErr => Inj.hasErr
      BY <1>4, <1>7, <2>1, <3>1 DEF SafeRoot, n
    <3>3. QED
      BY <1>5, <2>1, <2>4, <2>5, <3>1, <3>2 DEF SafeRoot
  <2>7. CASE Len(frames) > 2
    <3>1. 1 \in 1 .. Len(frames) - 2
      BY <2>3, <2>7
    <3>2. frames'[1] = frames[1]
      BY <2>2, <3>1
    <3>3. QED
      BY <2>1, <2>4, <2>5, <3>2 DEF SafeRoot
  <2>8. Len(frames) = 2 \/ Len(frames) > 2
    <3>1. Len(frames) \in Nat /\ Len(frames) >= 2
      BY <2>3
    <3>2. \A k \in Nat : k >= 2 => k = 2 \/ k > 2
      OBVIOUS
    <3>3. QED
      BY <3>1, <3>2
  <2>9. QED
    BY <2>6, <2>7, <2>8
<1>14. \A k \in 1 .. Len(frames) - 1 :
         /\ frames[k].fac \in 1 .. Len(facs')
         /\ frames[k].kind = "try" /\ Holding(frames[k], facs[frames[k].fac])
              => Holding(frames[k], facs'[frames[k].fac])
  BY <1>6, <1>11, <1>12
<1>15. QED
  BY <1>1, <1>2, <1>3, <1>5, <1>10, <1>13, <1>14, CallerSound

LEMMA BeginInjectorSound ==
  ASSUME Typed, Sound, BeginInjector
  PROVE  Sound'
<1> DEFINE fr  == TryStruct("explicit", 1, Inj.hasErr, Inj.pair, Inj.name,
                            Inj.shape[Inj.pair])
           fac == [allowsErr |-> Inj.hasErr, line |-> {1}, new |-> {}]
<1>1. frames' = <<fr>> /\ facs' = <<fac>>
  BY DEF BeginInjector
<1>2. /\ fr.kind = "explicit" /\ fr.calls = {}
      /\ fr.err <=> (~Inj.hasErr /\ AccErr(Inj.shape[Inj.pair]))
  BY DEF TryStruct
<1>3. fac.new = {} /\ fac.allowsErr = Inj.hasErr
  OBVIOUS
<1> HIDE DEF fr, fac
<1>4. SafeRoot(fr, fac) /\ KeepsErrorsOut(fac) /\ SafeNew(fac)
  BY <1>2, <1>3 DEF SafeRoot, KeepsErrorsOut, SafeNew
<1>5. /\ Len(frames') = 1 /\ frames'[1] = fr /\ Len(facs') = 1 /\ facs'[1] = fac
      /\ \A i \in 1 .. 1 : i = 1
  BY <1>1
<1>6. \A f \in 1 .. Len(facs') : KeepsErrorsOut(facs'[f]) /\ SafeNew(facs'[f])
  BY <1>4, <1>5
<1>7. FrameSafe(frames', facs', 1)
  BY <1>2, <1>4, <1>5 DEF FrameSafe
<1>8. \A k \in 1 .. Len(frames') : FrameSafe(frames', facs', k)
  BY <1>5, <1>7
<1>9. UNCHANGED <<prog, cur, subconvs, convs>>
  BY DEF BeginInjector
<1>10. QED
  BY <1>6, <1>8, <1>9, StillSound

LEMMA EndInjectorSound ==
  ASSUME Typed, Sound, EndInjector
  PROVE  Sound'
<1>1. status = "building" /\ Top.kind = "explicit" /\ prog' = prog
      /\ facs' = <<>> /\ frames' = <<>>
  BY DEF EndInjector
<1>2. /\ SafeRoot(Top, facs[1]) /\ 1 \in 1 .. Len(facs)
      /\ cur \in DOMAIN prog.injs /\ Inj \in Injector
  BY <1>1, RootFacts, RunningFacts
<1>3. KeepsErrorsOut(facs[1]) /\ SafeNew(facs[1])
  BY <1>2 DEF Sound, SafeFactories
<1>4. \A m, s : SafeFn(m, s) <=> SafeFn(m, s)'
  BY <1>1 DEF SafeFn
<1>5. \A s \in facs[1].new : SafeFn(Inj.mod, s)
  BY <1>2, <1>3 DEF SafeRoot, SafeNew
<1>6. ASSUME NEW m \in Mods, NEW s \in subconvs'[m]
      PROVE  SafeFn(m, s)
  <2>1. s \in subconvs[m] \/ (m = Inj.mod /\ s \in facs[1].new)
    BY <1>6 DEF EndInjector, Typed, TypeOK
  <2>2. QED
    BY <1>5, <2>1 DEF Sound, SafeExports
<1>7. SafeExports'
  BY <1>4, <1>6 DEF SafeExports
<1>8. SafeConvs'
  <2>1. CASE Top.err
    BY <1>1, <2>1 DEF EndInjector, Sound, SafeConvs
  <2>2. CASE ~Top.err
    <3> DEFINE new == [inj |-> cur, name |-> Inj.name, hasErr |-> Inj.hasErr,
                       calls |-> Top.calls]
    <3>1. convs' = convs \cup {new}
      BY <2>2 DEF EndInjector
    <3>2. new.hasErr = Inj.hasErr /\ new.calls = Top.calls /\ prog.injs[new.inj] = Inj
      BY DEF Inj
    <3>3. ~Inj.hasErr => /\ \A fn \in Top.calls : ~fn.hasErr
                         /\ ~AccErr(Inj.shape[Inj.pair])
      BY <1>2, <2>2 DEF SafeRoot
    <3> HIDE DEF new
    <3>4. new.hasErr \/ (/\ \A fn \in new.calls : ~fn.hasErr
                         /\ ~AccErr(prog.injs[new.inj].shape[prog.injs[new.inj].pair]))
      BY <3>2, <3>3
    <3>5. QED
      BY <1>1, <3>1, <3>4 DEF Sound, SafeConvs
  <2>3. QED
    BY <2>1, <2>2
<1>9. Len(facs') = 0 /\ Len(frames') = 0
  BY <1>1
<1>10. SafeFactories' /\ SafeFrames'
  BY <1>9 DEF SafeFactories, SafeFrames
<1>11. QED
  BY <1>7, <1>8, <1>10 DEF Sound

LEMMA StatusSound ==
  ASSUME Typed, Sound, EndBuild \/ Overflow \/ Panic \/ UNCHANGED vars
  PROVE  Sound'
<1>1. UNCHANGED <<prog, cur, subconvs, convs, facs, frames>>
  BY DEF EndBuild, Overflow, Panic, vars
<1>2. \A f \in 1 .. Len(facs') : KeepsErrorsOut(facs'[f]) /\ SafeNew(facs'[f])
  BY <1>1 DEF Sound, SafeFactories
<1>3. \A k \in 1 .. Len(frames') : FrameSafe(frames', facs', k)
  BY <1>1 DEF Sound, SafeFrames
<1>4. QED
  BY <1>1, <1>2, <1>3, StillSound

LEMMA InitSound ==
  ASSUME Init
  PROVE  Sound
<1>1. Len(facs) = 0 /\ Len(frames) = 0
  BY DEF Init
<1>2. SafeFactories /\ SafeFrames
  BY <1>1 DEF SafeFactories, SafeFrames
<1>3. SafeExports /\ SafeConvs
  BY DEF Init, SafeExports, SafeConvs
<1>4. QED
  BY <1>2, <1>3 DEF Sound

LEMMA NextSound ==
  ASSUME Typed, Sound, [Next]_vars
  PROVE  Sound'
<1>1. CASE BeginInjector
  BY <1>1, BeginInjectorSound
<1>2. CASE EndInjector
  BY <1>2, EndInjectorSound
<1>3. CASE EndBuild \/ Overflow \/ Panic \/ UNCHANGED vars
  BY <1>3, StatusSound
<1>4. CASE TryMatchFunc \/ TryModuleFunc
  BY <1>4, FuncSound
<1>5. CASE TrySubconvFunc
  BY <1>5, TrySubconvFuncSound
<1>6. CASE Rerun
  BY <1>6, RerunSound
<1>7. CASE TrySubconv
  BY <1>7, TrySubconvSound
<1>8. CASE Unconvertible
  BY <1>8, UnconvertibleSound
<1>9. CASE Commit
  BY <1>9, CommitSound
<1>10. CASE Retry
  BY <1>10, RetrySound
<1>11. CASE GiveUp
  BY <1>11, GiveUpSound
<1>12. CASE ReportRerun
  BY <1>12, ReportRerunSound
<1>13. QED
  BY <1>1, <1>2, <1>3, <1>4, <1>5, <1>6, <1>7, <1>8, <1>9, <1>10, <1>11, <1>12
  DEF Next, Build, Stopped

LEMMA AlwaysSound == Spec => [](Typed /\ Sound)
<1>1. Init => Typed /\ Sound
  BY InitTyped, InitSound
<1>2. Typed /\ Sound /\ [Next]_vars => Typed' /\ Sound'
  BY NextTyped, NextSound
<1>3. QED
  BY <1>1, <1>2, PTL DEF Spec

(* No converter without an error return ever calls a function or an accessor *)
(* that returns one, whatever the package: the errorless attempts, the       *)
(* retries and the subconverters taken over from other forks and from        *)
(* earlier injectors never let one in.                                       *)
THEOREM ErrorlessConvertersAreSafe == Spec => []ErrorlessIsSafe
<1>1. Sound => ErrorlessIsSafe
  BY DEF Sound, SafeExports, SafeConvs, SafeFn, ErrorlessIsSafe
<1>2. QED
  BY <1>1, AlwaysSound, PTL

(* A factory that may not return errors never holds a subconverter that      *)
(* does, and tryStruct is rerun to report an error only in the injector's    *)
(* own factory, for a subconverter an earlier injector of the module left.   *)
THEOREM ForksNeverLetErrorsIn == Spec => []ForksKeepErrorsOut
<1>1. ASSUME Typed, Sound
      PROVE  ForksKeepErrorsOut
  <2>1. facs \in Seq(Factory) /\ DOMAIN facs = 1 .. Len(facs)
        /\ frames \in Seq(Frame) /\ DOMAIN frames = 1 .. Len(frames)
    BY <1>1 DEF Typed, TypeOK
  <2>2. \A f \in DOMAIN facs : facs[f].allowsErr \/ \A s \in facs[f].new : ~s.hasErr
    BY <1>1, <2>1 DEF Sound, SafeFactories, KeepsErrorsOut
  <2>3. ASSUME NEW k \in DOMAIN frames, frames[k].kind = "rerun"
        PROVE  ~facs[1].allowsErr /\ Reporting(frames[k])
    BY <1>1, <2>1, <2>3 DEF Sound, SafeFrames, FrameSafe
  <2>4. QED
    BY <2>2, <2>3 DEF ForksKeepErrorsOut, Reporting
<1>2. QED
  BY <1>1, AlwaysSound, PTL
=============================================================================
