---------------------------- MODULE ConvertersProofs ----------------------------
(***************************************************************************)
(* Proofs that what Build leaves behind is a Go program: the functions     *)
(* called exist, no two share a name, and the walk over the pairs, with    *)
(* its forks, retries and joins, does what Converters promises, for every  *)
(* package; and that what it makes of a package can be read off it.       *)
(***************************************************************************)
EXTENDS SubconvProofs

(***************************************************************************)
(* A factory sees the exports of its module and what the factories of its  *)
(* line hold.  What has been built so far in it, and in the body being     *)
(* built, calls functions written by hand or seen from there.              *)
(***************************************************************************)
Visible(fas, f) == subconvs[Inj.mod] \cup UNION {fas[g].new : g \in fas[f].line}

CallsFound(fas, f, calls) == calls \subseteq prog.written \cup {AsFn(t) : t \in Visible(fas, f)}

NewResolve(fas) ==
  \A f \in 1 .. Len(fas) : \A s \in fas[f].new : s.done => CallsFound(fas, f, s.calls)

ByHand(fields) == \A i \in DOMAIN fields : fields[i].func \subseteq prog.written

FramesResolve(fs, fas) ==
  \A k \in 1 .. Len(fs) : CallsFound(fas, fs[k].fac, fs[k].calls) /\ ByHand(fs[k].todo)

(***************************************************************************)
(* Lines: a factory is on its own line, as is the injector's, and a fork   *)
(* adds itself to the line of the factory it was made from.                *)
(***************************************************************************)
OnLine(fas) == \A f \in 1 .. Len(fas) : f \in fas[f].line /\ 1 \in fas[f].line

LineOf(fs, fas, k) ==
  fs[k].kind = "try" => fas[fs[k].fac].line = fas[fs[k - 1].fac].line \cup {fs[k].fac}

(***************************************************************************)
(* Names and pairs: a name is taken once, whatever becomes of the attempt  *)
(* it was taken for; a factory holds one subconverter for a pair, and none *)
(* for a pair exported to its module.                                      *)
(***************************************************************************)
Fresh(s, names) ==
  /\ s.name \in names
  /\ s.name \notin prog.reserved
  /\ \A m \in Mods : \A t \in subconvs[m] : t.name # s.name
  /\ \A t \in subconvs[Inj.mod] : t.pair # s.pair

NewFresh(fas, names) == \A f \in 1 .. Len(fas) : \A s \in fas[f].new : Fresh(s, names)

NewDistinct(fas) ==
  /\ \A f, g \in 1 .. Len(fas) : \A s \in fas[f].new, t \in fas[g].new :
       s.name = t.name => f = g /\ s = t
  /\ \A f \in 1 .. Len(fas) : \A s, t \in fas[f].new : s.pair = t.pair => s = t

ErrorsFromRoot(fas) == \A f \in 1 .. Len(fas) : fas[f].allowsErr => fas[1].allowsErr

(***************************************************************************)
(* An attempt that a rerun interrupts may meet a pair again that is being  *)
(* tried below: the rerun starts over in the injector's factory, which     *)
(* does not see the forks.  But a rerun only ever reports an error, and    *)
(* where it happens no factory may return one, so the attempts around it   *)
(* all fail.  The others hold no pair that their line holds.               *)
(***************************************************************************)
Doomed(fs, k) ==
  \E r \in k .. Len(fs) : fs[r].err \/ (r # k /\ fs[r].kind = "rerun")

Alone(fas, f) ==
  \A g \in fas[f].line \ {f} : \A s \in fas[f].new, t \in fas[g].new : s.pair # t.pair

Apart(fs, fas, k) ==
  fs[k].kind = "try" /\ (fas[1].allowsErr \/ ~Doomed(fs, k)) => Alone(fas, fs[k].fac)

(* The placeholder of an attempt has the name the attempt was given. *)
Titled(fs, fas, k) ==
  fs[k].kind = "try" =>
    \A s \in fas[fs[k].fac].new : s.pair = fs[k].pair => s.name = fs[k].name

FrameLinked(fs, fas, k) ==
  LineOf(fs, fas, k) /\ Apart(fs, fas, k) /\ Titled(fs, fas, k)

(* The converters built so far are those of injectors already taken. *)
ConvsNamed ==
  \A c \in convs :
    /\ c.inj \in 1 .. cur - 1
    /\ c.name = prog.injs[c.inj].name /\ c.hasErr = prog.injs[c.inj].hasErr
    /\ \A d \in convs : c.inj = d.inj => c = d

ExportsDistinct ==
  /\ prog.reserved \subseteq ns
  /\ \A m \in Mods : \A s \in subconvs[m] : s.name \in ns \ prog.reserved
  /\ NamesAreUnique
  /\ ConvsNamed

Linked ==
  /\ CallsResolve
  /\ ExportsDistinct
  /\ OnLine(facs) /\ NewFresh(facs, ns) /\ NewDistinct(facs) /\ ErrorsFromRoot(facs)
  /\ NewResolve(facs)
  /\ FramesResolve(frames, facs)
  /\ \A k \in 1 .. Len(frames) : FrameLinked(frames, facs, k)

-----------------------------------------------------------------------------
(* What is said of factories and frames reads the package and the exports,   *)
(* which no step inside assign.Build changes.                                *)
LEMMA LinkStable ==
  ASSUME UNCHANGED <<prog, cur, subconvs>>
  PROVE  /\ \A fas, names : NewFresh(fas, names) => NewFresh(fas, names)'
         /\ \A fas : NewResolve(fas) => NewResolve(fas)'
         /\ \A fs, fas : FramesResolve(fs, fas) => FramesResolve(fs, fas)'
<1>1. Inj' = Inj
  BY DEF Inj
<1>2. \A s, names : Fresh(s, names) => Fresh(s, names)'
  BY <1>1 DEF Fresh
<1>3. \A fas, f : Visible(fas, f)' = Visible(fas, f)
  BY <1>1 DEF Visible
<1>4. \A fas, f, calls : CallsFound(fas, f, calls) => CallsFound(fas, f, calls)'
  BY <1>3 DEF CallsFound
<1>5. \A fields : ByHand(fields) => ByHand(fields)'
  BY DEF ByHand
<1>6. QED
  BY <1>2, <1>4, <1>5 DEF NewFresh, NewResolve, FramesResolve

LEMMA StillLinked ==
  ASSUME Linked, UNCHANGED <<prog, cur, subconvs, convs>>, ns \subseteq ns',
         OnLine(facs'), NewFresh(facs', ns'), NewDistinct(facs'), ErrorsFromRoot(facs'),
         NewResolve(facs'), FramesResolve(frames', facs'),
         \A k \in 1 .. Len(frames') : FrameLinked(frames', facs', k)
  PROVE  Linked'
<1>1. CallsResolve'
  BY DEF Linked, CallsResolve
<1>2. ExportsDistinct'
  BY DEF Linked, ExportsDistinct, NamesAreUnique, ConvsNamed
<1>3. NewFresh(facs, ns)' /\ NewResolve(facs)' /\ FramesResolve(frames, facs)'
  BY LinkStable
<1>4. OnLine(facs)' /\ NewDistinct(facs)' /\ ErrorsFromRoot(facs)'
  BY DEF OnLine, NewDistinct, ErrorsFromRoot
<1>5. \A k \in 1 .. Len(frames') : FrameLinked(frames, facs, k)'
  BY DEF FrameLinked, LineOf, Apart, Titled, Doomed, Alone
<1>6. QED
  BY <1>1, <1>2, <1>3, <1>4, <1>5 DEF Linked

(* What is found keeps being found where nothing on the line is lost. *)
LEMMA FoundKept ==
  ASSUME NEW fas, NEW gas, NEW f, NEW calls, CallsFound(fas, f, calls),
         gas[f].line = fas[f].line,
         \A g \in fas[f].line : \A s \in fas[g].new : \E t \in gas[g].new : AsFn(t) = AsFn(s)
  PROVE  CallsFound(gas, f, calls)
<1>1. ASSUME NEW s \in Visible(fas, f)
      PROVE  \E t \in Visible(gas, f) : AsFn(t) = AsFn(s)
  <2>1. CASE s \in subconvs[Inj.mod]
    BY <2>1 DEF Visible
  <2>2. CASE \E g \in fas[f].line : s \in fas[g].new
    <3>1. PICK g \in fas[f].line : s \in fas[g].new
      BY <2>2
    <3>2. PICK t \in gas[g].new : AsFn(t) = AsFn(s)
      BY <3>1
    <3>3. t \in Visible(gas, f)
      BY <3>1, <3>2 DEF Visible
    <3>4. QED
      BY <3>2, <3>3
  <2>3. QED
    BY <1>1, <2>1, <2>2 DEF Visible
<1>2. QED
  BY <1>1 DEF CallsFound

LEMMA DoomedKept ==
  ASSUME NEW fs, NEW gs, Len(fs) \in Nat, Len(gs) \in Nat, Len(fs) <= Len(gs),
         \A r \in 1 .. Len(fs) : gs[r].kind = fs[r].kind /\ (fs[r].err => gs[r].err),
         NEW k \in 1 .. Len(fs), Doomed(fs, k)
  PROVE  Doomed(gs, k)
<1>1. PICK r \in k .. Len(fs) : fs[r].err \/ (r # k /\ fs[r].kind = "rerun")
  BY DEF Doomed
<1>2. r \in 1 .. Len(fs) /\ r \in k .. Len(gs)
  OBVIOUS
<1>3. QED
  BY <1>1, <1>2 DEF Doomed

(* A frame keeps its links where what matters to them is kept. *)
LEMMA FrameLinkKept ==
  ASSUME NEW fs, NEW gs, NEW fas, NEW gas, NEW k \in Nat, FrameLinked(fs, fas, k),
         gs[k].kind = fs[k].kind, gs[k].fac = fs[k].fac,
         fs[k].kind = "try" =>
           /\ gs[k - 1].fac = fs[k - 1].fac
           /\ gas[fs[k].fac].line = fas[fs[k].fac].line
           /\ gas[fs[k - 1].fac].line = fas[fs[k - 1].fac].line
           /\ Titled(fs, fas, k) => Titled(gs, gas, k)
           /\ gas[1].allowsErr \/ ~Doomed(gs, k) =>
                /\ fas[1].allowsErr \/ ~Doomed(fs, k)
                /\ Alone(fas, fs[k].fac) => Alone(gas, fs[k].fac)
  PROVE  FrameLinked(gs, gas, k)
<1>1. LineOf(gs, gas, k)
  BY DEF FrameLinked, LineOf
<1>2. Apart(gs, gas, k)
  BY DEF FrameLinked, Apart
<1>3. Titled(gs, gas, k)
  BY DEF FrameLinked, Titled
<1>4. QED
  BY <1>1, <1>2, <1>3 DEF FrameLinked

(* The factories the frames below the innermost one point to. *)
LEMMA FacOfFrame ==
  ASSUME Typed, status = "building", NEW k \in 1 .. Len(frames)
  PROVE  /\ frames[k].fac \in 1 .. Len(facs) /\ k \in Nat
         /\ frames[k].kind = "try" => k # 1 /\ k - 1 \in 1 .. Len(frames) - 1
<1>1. Nesting(frames, Len(facs)) /\ Len(frames) \in Nat
  BY RunningFacts
<1>2. frames[k].fac \in 1 .. Len(facs) /\ (frames[k].kind = "explicit" <=> k = 1)
  BY <1>1 DEF Nesting, FramesFit
<1>3. k # 1 => k - 1 \in 1 .. Len(frames) - 1
  BY <1>1
<1>4. QED
  BY <1>2, <1>3

(* The innermost frame goes on to its next field. *)
LEMMA ReturnedLinked ==
  ASSUME Typed, Linked, status = "building", NEW fr \in Frame,
         fr.kind = Top.kind, fr.fac = Top.fac, fr.pair = Top.pair, fr.name = Top.name,
         Top.err => fr.err, CallsFound(facs, Top.fac, fr.calls), ByHand(fr.todo), Return(fr),
         UNCHANGED <<prog, cur, subconvs, convs, facs>>, ns \subseteq ns'
  PROVE  Linked'
<1>1. /\ frames \in Seq(Frame) /\ Len(frames) \in Nat /\ Len(frames) >= 1
      /\ Top = frames[Len(frames)]
  BY RunningFacts
<1>2. /\ Len(frames') = Len(frames) /\ frames'[Len(frames)] = fr
      /\ \A i \in 1 .. Len(frames) - 1 : frames'[i] = frames[i]
  BY SameAttempt
<1>3. \A k \in 1 .. Len(frames) : k \in 1 .. Len(frames) - 1 \/ k = Len(frames)
  BY <1>1
<1>4. \A k \in 1 .. Len(frames) :
        /\ frames'[k].kind = frames[k].kind /\ frames'[k].fac = frames[k].fac
        /\ frames'[k].pair = frames[k].pair /\ frames'[k].name = frames[k].name
        /\ frames[k].err => frames'[k].err
  BY <1>1, <1>2, <1>3
<1>5. ASSUME NEW k \in 1 .. Len(frames)
      PROVE  FrameLinked(frames', facs, k)
  <2>1. FrameLinked(frames, facs, k) /\ k \in Nat
    BY FacOfFrame DEF Linked
  <2>2. frames[k].kind = "try" => frames'[k - 1].fac = frames[k - 1].fac
    BY <1>1, <1>4, FacOfFrame
  <2>3. Titled(frames, facs, k) => Titled(frames', facs, k)
    BY <1>4 DEF Titled
  <2>4. Doomed(frames, k) => Doomed(frames', k)
    <3>1. Len(frames') \in Nat /\ Len(frames) <= Len(frames')
      BY <1>1, <1>2
    <3>2. QED
      BY <1>1, <1>4, <3>1, DoomedKept
  <2>5. QED
    BY <1>4, <2>1, <2>2, <2>3, <2>4, FrameLinkKept
<1>6. FramesResolve(frames', facs)
  BY <1>1, <1>2, <1>3 DEF Linked, FramesResolve
<1>7. NewFresh(facs, ns')
  BY DEF Linked, NewFresh, Fresh
<1>8. QED
  BY <1>2, <1>5, <1>6, <1>7, StillLinked DEF Linked

-----------------------------------------------------------------------------
(* What tryStruct matches names functions written by hand only. *)
LEMMA ShapeByHand ==
  ASSUME Typed, cur \in DOMAIN prog.injs, NEW p \in Pairs, NEW f
  PROVE  /\ ByHand(Inj.shape[p]) /\ ByHand(prog.shape[Inj.mod][p]) /\ ByHand(FieldsOf(f, p))
         /\ prog.lookup[Inj.mod][p] \subseteq prog.written
<1>1. prog \in Programs /\ Inj.mod \in Mods
  BY ShapeFacts DEF Typed, Nested, Injector
<1>2. /\ OnlyWritten(Inj.shape, prog.written) /\ OnlyWritten(prog.shape[Inj.mod], prog.written)
      /\ prog.lookup[Inj.mod][p] \subseteq prog.written
  BY <1>1, ProgramsAssumption DEF Inj
<1>3. ByHand(Inj.shape[p]) /\ ByHand(prog.shape[Inj.mod][p])
  BY <1>2 DEF OnlyWritten, ByHand
<1>4. QED
  BY <1>2, <1>3 DEF FieldsOf

LEMMA TailByHand ==
  ASSUME NEW todo \in Seq(Field), todo # <<>>, ByHand(todo)
  PROVE  Head(todo).func \subseteq prog.written /\ ByHand(Tail(todo))
<1>1. /\ Len(Tail(todo)) = Len(todo) - 1 /\ Len(todo) \in Nat /\ Len(todo) >= 1
      /\ \A i \in 1 .. Len(Tail(todo)) : Tail(todo)[i] = todo[i + 1]
      /\ Head(todo) = todo[1] /\ DOMAIN todo = 1 .. Len(todo)
      /\ DOMAIN Tail(todo) = 1 .. Len(todo) - 1
  BY HeadTailProperties
<1>2. \A i \in 1 .. Len(todo) - 1 : i + 1 \in 1 .. Len(todo) /\ 1 \in 1 .. Len(todo)
  BY <1>1
<1>3. 1 \in 1 .. Len(todo)
  BY <1>1
<1>4. QED
  BY <1>1, <1>2, <1>3 DEF ByHand

(* The innermost frame, and what it has called so far. *)
LEMMA TopLinked ==
  ASSUME Typed, Linked, status = "building"
  PROVE  /\ CallsFound(facs, Top.fac, Top.calls) /\ ByHand(Top.todo)
         /\ FrameLinked(frames, facs, Len(frames))
         /\ Top.fac \in 1 .. Len(facs) /\ Len(facs) \in Nat
         /\ Top.fac \in facs[Top.fac].line /\ 1 \in facs[Top.fac].line
<1>1. /\ Len(frames) \in Nat /\ Len(frames) >= 1 /\ Top = frames[Len(frames)]
      /\ Top.fac \in 1 .. Len(facs) /\ Len(facs) \in Nat
  BY RunningFacts
<1>2. Len(frames) \in 1 .. Len(frames)
  BY <1>1
<1>3. QED
  BY <1>1, <1>2 DEF Linked, FramesResolve, OnLine

LEMMA AfterFieldTodo ==
  ASSUME NEW fr \in Frame, fr.todo # <<>>, ByHand(fr.todo), NEW fn
  PROVE  /\ Built(fr, fn).todo = Tail(fr.todo) /\ ByHand(Built(fr, fn).todo)
         /\ Missed(fr).todo = Tail(fr.todo) /\ ByHand(Missed(fr).todo)
<1>1. Built(fr, fn).todo = Tail(fr.todo) /\ Missed(fr).todo = Tail(fr.todo)
  BY DEF Built, Missed, Frame
<1>2. ByHand(Tail(fr.todo))
  BY TailByHand DEF Frame
<1>3. QED
  BY <1>1, <1>2

LEMMA CallFuncLinked ==
  ASSUME Typed, Linked, Building, NEW f, NEW fn \in Fn, CallFunc(f, fn),
         CallsFound(facs, Top.fac, {fn})
  PROVE  Linked'
<1>1. /\ Top \in Frame /\ Top.todo # <<>> /\ status = "building"
      /\ CallsFound(facs, Top.fac, Top.calls) /\ ByHand(Top.todo)
  BY RunningFacts, TopLinked DEF Building
<1>2. PICK fr : /\ fr = IF CanCall(f, fn) THEN Built(Top, fn) ELSE Missed(Top)
                /\ Return(fr)
  BY DEF CallFunc
<1>3. /\ fr \in Frame /\ fr.kind = Top.kind /\ fr.fac = Top.fac /\ fr.pair = Top.pair
      /\ fr.name = Top.name /\ (Top.err => fr.err) /\ ByHand(fr.todo)
      /\ fr.calls \subseteq Top.calls \cup {fn}
  BY <1>1, <1>2, AfterField, AfterFieldTodo
<1>4. CallsFound(facs, Top.fac, fr.calls)
  BY <1>1, <1>3 DEF CallsFound
<1>5. UNCHANGED <<prog, cur, subconvs, convs, facs>> /\ ns \subseteq ns'
  BY DEF CallFunc
<1>6. QED
  BY <1>1, <1>2, <1>3, <1>4, <1>5, ReturnedLinked

LEMMA FuncLinked ==
  ASSUME Typed, Linked, TryMatchFunc \/ TryModuleFunc
  PROVE  Linked'
<1>1. Building /\ status = "building"
  BY DEF TryMatchFunc, TryModuleFunc, Building
<1>2. Cur \in Field /\ cur \in DOMAIN prog.injs
  BY <1>1, FieldFacts, RunningFacts
<1>3. Cur.func \subseteq Fn /\ Cur.pair \in Pairs
  BY <1>2 DEF Field
<1>4. Cur.func \subseteq prog.written
  <2>1. Top.todo \in Seq(Field) /\ Top.todo # <<>> /\ ByHand(Top.todo)
    BY <1>1, RunningFacts, TopLinked DEF Building, Frame
  <2>2. QED
    BY <2>1, TailByHand DEF Cur
<1>5. prog.lookup[Inj.mod][Cur.pair] \subseteq Fn \cap prog.written
  BY <1>2, <1>3, ShapeFacts, ShapeByHand
<1>6. PICK fn \in Fn \cap prog.written : CallFunc(Top.fac, fn)
  BY <1>3, <1>4, <1>5 DEF TryMatchFunc, TryModuleFunc
<1>7. CallsFound(facs, Top.fac, {fn})
  BY DEF CallsFound
<1>8. QED
  BY <1>1, <1>6, <1>7, CallFuncLinked

(* What any factory of the line gets is seen from the factory. *)
LEMMA GetVisible ==
  ASSUME NEW f, NEW g \in facs[f].line, NEW p, NEW s \in Get(g, p)
  PROVE  s \in Visible(facs, f)
BY DEF Get, Visible

LEMMA TrySubconvFuncLinked ==
  ASSUME Typed, Linked, TrySubconvFunc
  PROVE  Linked'
<1>1. Building /\ status = "building"
  BY DEF TrySubconvFunc, NoFunc, Building
<1>2. PICK g \in facs[Top.fac].line :
        \E s \in Get(g, Cur.pair) : CallFunc(g, AsFn(s))
  BY DEF TrySubconvFunc
<1>3. PICK s \in Get(g, Cur.pair) : CallFunc(g, AsFn(s))
  BY <1>2
<1>4. g \in DOMAIN facs
  <2>1. /\ Top.fac \in 1 .. Len(facs) /\ facs[Top.fac].line \subseteq 1 .. Top.fac
        /\ Len(facs) \in Nat /\ DOMAIN facs = 1 .. Len(facs)
    BY <1>1, RunningFacts
  <2>2. QED
    BY <1>2, <2>1
<1>5. AsFn(s) \in Fn
  BY <1>1, <1>3, <1>4, GetFacts
<1>6. CallsFound(facs, Top.fac, {AsFn(s)})
  BY <1>3, GetVisible DEF CallsFound
<1>7. QED
  BY <1>1, <1>3, <1>5, <1>6, CallFuncLinked

LEMMA UnconvertibleLinked ==
  ASSUME Typed, Linked, Unconvertible
  PROVE  Linked'
<1>1. /\ Building /\ status = "building" /\ Top \in Frame /\ Top.todo # <<>>
      /\ CallsFound(facs, Top.fac, Top.calls) /\ ByHand(Top.todo)
  BY RunningFacts, TopLinked DEF Unconvertible, Unknown, NoFunc, Building
<1>2. UNCHANGED <<prog, cur, subconvs, convs, facs>> /\ Return(Missed(Top))
  BY DEF Unconvertible
<1>3. ns \subseteq ns'
  BY DEF Unconvertible, NewName
<1>4. /\ Missed(Top) \in Frame /\ Missed(Top).kind = Top.kind /\ Missed(Top).fac = Top.fac
      /\ Missed(Top).pair = Top.pair /\ Missed(Top).name = Top.name
      /\ Missed(Top).calls = Top.calls /\ Missed(Top).err = TRUE
      /\ ByHand(Missed(Top).todo)
  BY <1>1, MissedFrame, AfterFieldTodo
<1>5. QED
  BY <1>1, <1>2, <1>3, <1>4, ReturnedLinked

-----------------------------------------------------------------------------
LEMMA LineInside ==
  ASSUME Typed, status = "building", NEW f \in 1 .. Len(facs), NEW g \in facs[f].line
  PROVE  g \in 1 .. f /\ g \in 1 .. Len(facs)
<1>1. Len(facs) \in Nat /\ facs[f].line \subseteq 1 .. f
  BY RunningFacts
<1>2. QED
  BY <1>1

(* A call begins, and with an attempt its factory. *)
LEMMA CalledLinked ==
  ASSUME Typed, Linked, Building, NEW fr \in Frame, frames' = Append(frames, fr),
         UNCHANGED <<prog, cur, subconvs, convs>>, ns \subseteq ns',
         Len(facs) <= Len(facs'), Len(facs') \in Nat,
         \A f \in 1 .. Len(facs) : facs'[f] = facs[f],
         OnLine(facs'), NewFresh(facs', ns'), NewDistinct(facs'), ErrorsFromRoot(facs'),
         NewResolve(facs'), CallsFound(facs', fr.fac, fr.calls), ByHand(fr.todo),
         FrameLinked(frames', facs', Len(frames) + 1)
  PROVE  Linked'
<1>1. /\ frames \in Seq(Frame) /\ Len(frames) \in Nat /\ Len(frames) >= 1
      /\ status = "building" /\ Len(facs) \in Nat /\ 1 \in 1 .. Len(facs)
  BY RunningFacts DEF Building
<1>2. /\ Len(frames') = Len(frames) + 1 /\ frames'[Len(frames) + 1] = fr
      /\ \A i \in 1 .. Len(frames) : frames'[i] = frames[i]
  BY CallTyped
<1>3. \A k \in 1 .. Len(frames') : k \in 1 .. Len(frames) \/ k = Len(frames) + 1
  BY <1>1, <1>2
<1>4. ASSUME NEW k \in 1 .. Len(frames)
      PROVE  FrameLinked(frames', facs', k)
  <2>1. /\ FrameLinked(frames, facs, k) /\ k \in Nat /\ frames[k].fac \in 1 .. Len(facs)
        /\ frames[k].kind = "try" => k - 1 \in 1 .. Len(frames)
    BY <1>1, FacOfFrame DEF Linked
  <2>2. /\ frames'[k] = frames[k] /\ facs'[frames[k].fac] = facs[frames[k].fac]
        /\ facs'[1] = facs[1]
        /\ frames[k].kind = "try" =>
             /\ frames'[k - 1] = frames[k - 1]
             /\ facs'[frames[k - 1].fac] = facs[frames[k - 1].fac]
    BY <1>1, <1>2, <2>1, FacOfFrame
  <2>3. Titled(frames, facs, k) => Titled(frames', facs', k)
    BY <2>2 DEF Titled
  <2>4. Doomed(frames, k) => Doomed(frames', k)
    <3>1. Len(frames') \in Nat /\ Len(frames) <= Len(frames')
      BY <1>1, <1>2
    <3>2. QED
      BY <1>1, <1>2, <3>1, DoomedKept
  <2>5. Alone(facs, frames[k].fac) => Alone(facs', frames[k].fac)
    <3>1. \A g \in facs[frames[k].fac].line : facs'[g] = facs[g]
      BY <1>1, <2>1, LineInside
    <3>2. QED
      BY <2>2, <3>1 DEF Alone
  <2>6. QED
    BY <2>1, <2>2, <2>3, <2>4, <2>5, FrameLinkKept
<1>5. ASSUME NEW k \in 1 .. Len(frames)
      PROVE  CallsFound(facs', frames'[k].fac, frames'[k].calls) /\ ByHand(frames'[k].todo)
  <2>1. frames[k].fac \in 1 .. Len(facs) /\ frames'[k] = frames[k]
    BY <1>1, <1>2, FacOfFrame
  <2>2. facs'[frames[k].fac] = facs[frames[k].fac]
    BY <2>1
  <2>3. \A g \in facs[frames[k].fac].line : facs'[g] = facs[g]
    BY <1>1, <2>1, LineInside
  <2>4. CallsFound(facs, frames[k].fac, frames[k].calls) /\ ByHand(frames[k].todo)
    BY DEF Linked, FramesResolve
  <2>5. CallsFound(facs', frames[k].fac, frames[k].calls)
    BY <2>2, <2>3, <2>4, FoundKept
  <2>6. QED
    BY <2>1, <2>4, <2>5
<1>6. FramesResolve(frames', facs')
  BY <1>2, <1>3, <1>5 DEF FramesResolve
<1>7. \A k \in 1 .. Len(frames') : FrameLinked(frames', facs', k)
  BY <1>3, <1>4
<1>8. QED
  BY <1>6, <1>7, StillLinked

LEMMA RerunLinked ==
  ASSUME Typed, Linked, Rerun
  PROVE  Linked'
<1>1. Building /\ status = "building"
  BY DEF Rerun, NoFunc, Building
<1>2. /\ Top \in Frame /\ Len(facs) \in Nat /\ cur \in DOMAIN prog.injs
      /\ Top.fac \in 1 .. Len(facs) /\ Len(frames) \in Nat /\ Len(frames) >= 1
  BY <1>1, RunningFacts
<1>3. PICK g \in facs[Top.fac].line :
        frames' = Append(frames,
          TryStruct("rerun", g, facs[g].allowsErr, Cur.pair, Top.name, FieldsOf(g, Cur.pair)))
  BY DEF Rerun
<1>4. g \in 1 .. Len(facs) /\ g \in Nat
  BY <1>1, <1>2, <1>3, LineInside
<1>5. facs[g].allowsErr \in BOOLEAN
  <2>1. facs[g] \in Factory
    BY <1>1, <1>4, RunningFacts
  <2>2. QED
    BY <2>1 DEF Factory
<1>6. Cur.pair \in Pairs
  BY <1>1, FieldFacts DEF Field
<1>7. Top.name \in Name
  BY <1>2 DEF Frame
<1>8. FieldsOf(g, Cur.pair) \in Seq(Field) /\ ByHand(FieldsOf(g, Cur.pair))
  BY <1>2, <1>6, ShapeFacts, ShapeByHand
<1> DEFINE fr == TryStruct("rerun", g, facs[g].allowsErr, Cur.pair, Top.name,
                           FieldsOf(g, Cur.pair))
<1>9. fr \in Frame /\ fr.kind = "rerun" /\ fr.calls = {}
  BY <1>4, <1>5, <1>6, <1>7, <1>8, NewFrame DEF Kinds
<1>10. fr.todo = FieldsOf(g, Cur.pair)
  BY DEF TryStruct
<1>11. frames' = Append(frames, fr)
  BY <1>3
<1> HIDE DEF fr
<1>12. UNCHANGED <<prog, cur, subconvs, convs, facs>> /\ ns \subseteq ns'
  BY DEF Rerun
<1>13. CallsFound(facs', fr.fac, fr.calls)
  BY <1>9 DEF CallsFound
<1>14. frames'[Len(frames) + 1] = fr
  BY <1>1, <1>9, <1>11, CallTyped
<1>15. FrameLinked(frames', facs', Len(frames) + 1)
  BY <1>9, <1>14 DEF FrameLinked, LineOf, Apart, Titled
<1>16. /\ OnLine(facs') /\ NewFresh(facs', ns') /\ NewDistinct(facs')
       /\ ErrorsFromRoot(facs') /\ NewResolve(facs')
  BY <1>12 DEF Rerun, Linked
<1>17. Len(facs') \in Nat /\ Len(facs) <= Len(facs') /\ \A f \in 1 .. Len(facs) : facs'[f] = facs[f]
  BY <1>2, <1>12
<1>18. ByHand(fr.todo)
  BY <1>8, <1>10
<1>19. QED
  BY <1>1, <1>9, <1>11, <1>12, <1>13, <1>15, <1>16, <1>17, <1>18, CalledLinked

(* A pair no factory of the line knows is no pair of theirs or of an export. *)
LEMMA UnknownPair ==
  ASSUME NEW line, 1 \in line, NEW p, \A g \in line : Get(g, p) = {}
  PROVE  /\ \A g \in line : \A t \in facs[g].new : t.pair # p
         /\ \A t \in subconvs[Inj.mod] : t.pair # p
<1>1. \A g \in line : \A t \in facs[g].new : t.pair # p
  <2>1. ASSUME NEW g \in line, NEW t \in facs[g].new, t.pair = p
        PROVE  FALSE
    <3>1. t \in {s \in facs[g].new : s.pair = p}
      BY <2>1
    <3>2. Get(g, p) # {}
      BY <3>1 DEF Get
    <3>3. QED
      BY <3>2
  <2>2. QED
    BY <2>1
<1>2. \A t \in subconvs[Inj.mod] : t.pair # p
  <2>1. {s \in facs[1].new : s.pair = p} = {}
    BY <1>1
  <2>2. Get(1, p) = {s \in subconvs[Inj.mod] : s.pair = p}
    BY <2>1 DEF Get
  <2>3. QED
    BY <2>2
<1>3. QED
  BY <1>1, <1>2

LEMMA TrySubconvLinked ==
  ASSUME Typed, Linked, TrySubconv
  PROVE  Linked'
<1>1. Building /\ status = "building" /\ \A g \in facs[Top.fac].line : Get(g, Cur.pair) = {}
  BY DEF TrySubconv, Unknown, NoFunc, Building
<1>2. /\ Len(facs) \in Nat /\ facs \in Seq(Factory) /\ cur \in DOMAIN prog.injs
      /\ Top.fac \in 1 .. Len(facs) /\ Len(frames) \in Nat /\ Len(frames) >= 1
      /\ Top = frames[Len(frames)] /\ 1 \in 1 .. Len(facs)
  BY <1>1, RunningFacts
<1>3. Top.fac \in facs[Top.fac].line /\ 1 \in facs[Top.fac].line
  BY <1>1, TopLinked
<1>4. PICK i \in 1 .. Cardinality(ns) + 1 :
        LET name == DisambiguateName(prog.base[Inj.mod][Cur.pair], i)
            f    == Len(facs) + 1
        IN  /\ NewName(i)
            /\ facs' = Append(facs, Fork(facs[Top.fac].line, f, FALSE, Cur.pair, name))
            /\ frames' = Append(frames,
                 TryStruct("try", f, FALSE, Cur.pair, name, prog.shape[Inj.mod][Cur.pair]))
  BY DEF TrySubconv
<1> DEFINE name == DisambiguateName(prog.base[Inj.mod][Cur.pair], i)
           n    == Len(facs)
           f    == n + 1
           fr   == TryStruct("try", f, FALSE, Cur.pair, name, prog.shape[Inj.mod][Cur.pair])
           fac  == Fork(facs[Top.fac].line, f, FALSE, Cur.pair, name)
           s    == Placeholder(Cur.pair, name, FALSE)
<1>5. frames' = Append(frames, fr) /\ facs' = Append(facs, fac)
  BY <1>4
<1>6. name \notin ns /\ ns' = ns \cup {name}
  BY <1>4 DEF NewName
<1>7. Cur.pair \in Pairs
  BY <1>1, FieldFacts DEF Field
<1>8. /\ name \in Name /\ prog.shape[Inj.mod][Cur.pair] \in Seq(Field)
      /\ ByHand(prog.shape[Inj.mod][Cur.pair])
  <2>1. i \in Nat
    BY <1>4
  <2>2. QED
    BY <1>2, <1>7, <2>1, ShapeFacts, ShapeByHand, NameFacts
<1>9. f \in Nat /\ facs[Top.fac].line \subseteq Nat
  <2>1. facs[Top.fac] \in Factory
    BY <1>2
  <2>2. QED
    BY <1>2, <2>1 DEF Factory
<1>10. /\ fr.kind = "try" /\ fr.fac = f /\ fr.pair = Cur.pair /\ fr.name = name
       /\ fr.calls = {} /\ fr.todo = prog.shape[Inj.mod][Cur.pair]
       /\ fac.new = {s} /\ fac.line = facs[Top.fac].line \cup {f} /\ fac.allowsErr = FALSE
       /\ s.pair = Cur.pair /\ s.name = name /\ ~s.done
  BY DEF TryStruct, Fork, Placeholder
<1> HIDE DEF name, s
<1>11. fr \in Frame /\ fac \in Factory
  <2> HIDE DEF f
  <2>1. fr \in Frame
    BY <1>7, <1>8, <1>9 DEF TryStruct, Frame, Kinds
  <2>2. fac \in Factory
    BY <1>7, <1>8, <1>9 DEF Fork, Factory, Placeholder, SubconvRec
  <2>3. QED
    BY <2>1, <2>2
<1> HIDE DEF fr, fac
<1>12. /\ Len(facs') = f /\ facs'[f] = fac
       /\ \A g \in 1 .. n : facs'[g] = facs[g]
  BY <1>2, <1>5, <1>11, AppendSeq
<1>13. \A g \in 1 .. f : g \in 1 .. n \/ g = f
  BY <1>2
<1>14. /\ \A g \in facs[Top.fac].line : \A t \in facs[g].new : t.pair # Cur.pair
       /\ \A t \in subconvs[Inj.mod] : t.pair # Cur.pair
  BY <1>1, <1>3, UnknownPair
<1>15. OnLine(facs') /\ ErrorsFromRoot(facs')
  <2>1. \A g \in 1 .. n : facs'[g] = facs[g]
    BY <1>12
  <2>2. 1 \in fac.line /\ f \in fac.line /\ facs'[1] = facs[1]
    BY <1>2, <1>3, <1>10, <1>12
  <2>3. OnLine(facs')
    BY <1>12, <1>13, <2>2 DEF Linked, OnLine
  <2>4. ErrorsFromRoot(facs')
    BY <1>10, <1>12, <1>13, <2>2 DEF Linked, ErrorsFromRoot
  <2>5. QED
    BY <2>3, <2>4
<1>16. \A g \in 1 .. n : \A t \in facs[g].new : Fresh(t, ns)
  BY DEF Linked, NewFresh
<1>17. NewFresh(facs', ns')
  <2>1. \A g \in 1 .. n : \A t \in facs'[g].new : Fresh(t, ns')
    BY <1>6, <1>12, <1>16 DEF Fresh
  <2>2. Fresh(s, ns')
    BY <1>6, <1>10, <1>14 DEF Fresh, Linked, ExportsDistinct
  <2>3. QED
    BY <1>10, <1>12, <1>13, <2>1, <2>2 DEF NewFresh
<1>18. NewDistinct(facs')
  <2>1. \A g \in 1 .. n : \A t \in facs'[g].new : t.name # name
    BY <1>6, <1>12, <1>16 DEF Fresh
  <2>2. ASSUME NEW g \in 1 .. f, NEW h \in 1 .. f, NEW t \in facs'[g].new, NEW u \in facs'[h].new,
               t.name = u.name
        PROVE  g = h /\ t = u
    <3>1. CASE g \in 1 .. n /\ h \in 1 .. n
      BY <1>12, <2>2, <3>1 DEF Linked, NewDistinct
    <3>2. CASE g = f /\ h = f
      BY <1>10, <1>12, <2>2, <3>2
    <3>3. CASE g = f /\ h \in 1 .. n
      BY <1>10, <1>12, <2>1, <2>2, <3>3
    <3>4. CASE g \in 1 .. n /\ h = f
      BY <1>10, <1>12, <2>1, <2>2, <3>4
    <3>5. QED
      BY <1>13, <3>1, <3>2, <3>3, <3>4
  <2>3. ASSUME NEW g \in 1 .. f, NEW t \in facs'[g].new, NEW u \in facs'[g].new, t.pair = u.pair
        PROVE  t = u
    <3>1. CASE g \in 1 .. n
      BY <1>12, <2>3, <3>1 DEF Linked, NewDistinct
    <3>2. CASE g = f
      BY <1>10, <1>12, <2>3, <3>2
    <3>3. QED
      BY <1>13, <3>1, <3>2
  <2>4. QED
    BY <1>12, <2>2, <2>3 DEF NewDistinct
<1>19. NewResolve(facs')
  <2>1. ASSUME NEW g \in 1 .. n, NEW t \in facs'[g].new, t.done
        PROVE  CallsFound(facs', g, t.calls)
    <3>1. facs'[g] = facs[g] /\ \A h \in facs[g].line : facs'[h] = facs[h]
      BY <1>1, <1>12, LineInside
    <3>2. CallsFound(facs, g, t.calls)
      BY <2>1, <3>1 DEF Linked, NewResolve
    <3>3. QED
      BY <3>1, <3>2, FoundKept
  <2>2. QED
    BY <1>10, <1>12, <1>13, <2>1 DEF NewResolve
<1>20. CallsFound(facs', fr.fac, fr.calls) /\ ByHand(fr.todo)
  BY <1>8, <1>10 DEF CallsFound
<1>21. FrameLinked(frames', facs', Len(frames) + 1)
  <2>1. PICK m \in Nat : m = Len(frames) + 1 /\ m - 1 = Len(frames) /\ Len(frames) \in 1 .. Len(frames)
    BY <1>2
  <2>2. frames'[m] = fr /\ frames'[m - 1] = Top
    BY <1>1, <1>2, <1>5, <1>11, <2>1, CallTyped
  <2>3. facs'[fr.fac] = fac /\ facs'[Top.fac] = facs[Top.fac]
    BY <1>2, <1>10, <1>12
  <2>4. \A g \in facs[Top.fac].line : facs'[g] = facs[g]
    BY <1>1, <1>2, <1>12, LineInside
  <2>5. Alone(facs', f)
    BY <1>10, <1>12, <1>14, <2>4 DEF Alone
  <2>6. LineOf(frames', facs', m) /\ Titled(frames', facs', m) /\ Apart(frames', facs', m)
    BY <1>10, <2>2, <2>3, <2>5 DEF LineOf, Titled, Apart
  <2>7. QED
    BY <2>1, <2>6 DEF FrameLinked
<1>22. UNCHANGED <<prog, cur, subconvs, convs>> /\ ns \subseteq ns'
  BY <1>6 DEF TrySubconv
<1>23. Len(facs') \in Nat /\ Len(facs) <= Len(facs')
  BY <1>2, <1>12
<1>24. QED
  BY <1>1, <1>5, <1>11, <1>12, <1>15, <1>17, <1>18, <1>19, <1>20, <1>21, <1>22, <1>23,
     CalledLinked

-----------------------------------------------------------------------------
(* The innermost call returns into its caller's frame. *)
LEMMA CallerLinked ==
  ASSUME Typed, Linked, status = "building", Top.kind # "explicit", NEW fr \in Frame,
         fr.kind = Caller.kind, fr.fac = Caller.fac, fr.pair = Caller.pair,
         fr.name = Caller.name, ReturnToCaller(fr),
         UNCHANGED <<prog, cur, subconvs, convs>>, ns \subseteq ns',
         OnLine(facs'), NewFresh(facs', ns'), NewDistinct(facs'), ErrorsFromRoot(facs'),
         NewResolve(facs'), CallsFound(facs', Caller.fac, fr.calls), ByHand(fr.todo),
         facs'[1].allowsErr = facs[1].allowsErr,
         \A k \in 1 .. Len(frames) - 1 :
           /\ facs'[frames[k].fac].line = facs[frames[k].fac].line
           /\ \A g \in facs[frames[k].fac].line : \A s \in facs[g].new :
                \E t \in facs'[g].new : AsFn(t) = AsFn(s)
           /\ Titled(frames, facs, k) => Titled(frames, facs', k)
           /\ frames[k].kind = "try" /\ (facs[1].allowsErr \/ ~Doomed(frames', k)) =>
                /\ facs[1].allowsErr \/ ~Doomed(frames, k)
                /\ Alone(facs, frames[k].fac) => Alone(facs', frames[k].fac)
  PROVE  Linked'
<1>1. /\ frames \in Seq(Frame) /\ Len(frames) \in Nat /\ Len(frames) >= 2
      /\ Caller = frames[Len(frames) - 1]
  BY RunningFacts, CallerFacts
<1>2. /\ Len(frames') = Len(frames) - 1 /\ frames'[Len(frames) - 1] = fr
      /\ \A i \in 1 .. Len(frames) - 2 : frames'[i] = frames[i]
  BY ReturnTyped
<1>3. \A k \in 1 .. Len(frames) - 1 :
        k \in 1 .. Len(frames) /\ (k \in 1 .. Len(frames) - 2 \/ k = Len(frames) - 1)
  BY <1>1
<1>4. \A k \in 1 .. Len(frames) - 1 :
        /\ frames'[k].kind = frames[k].kind /\ frames'[k].fac = frames[k].fac
        /\ frames'[k].pair = frames[k].pair /\ frames'[k].name = frames[k].name
  BY <1>1, <1>2, <1>3
<1>5. ASSUME NEW k \in 1 .. Len(frames) - 1
      PROVE  FrameLinked(frames', facs', k)
  <2>1. FrameLinked(frames, facs, k) /\ k \in Nat
    BY <1>3, FacOfFrame DEF Linked
  <2>2. frames[k].kind = "try" => k - 1 \in 1 .. Len(frames) - 1
    <3>1. frames[k].kind = "try" => k # 1
      BY <1>3, FacOfFrame
    <3>2. QED
      BY <1>1, <3>1
  <2>3. frames[k].kind = "try" =>
          /\ frames'[k - 1].fac = frames[k - 1].fac
          /\ facs'[frames[k - 1].fac].line = facs[frames[k - 1].fac].line
    BY <1>4, <2>2
  <2>4. Titled(frames, facs, k) => Titled(frames', facs', k)
    BY <1>4 DEF Titled
  <2>5. QED
    BY <1>4, <2>1, <2>3, <2>4, FrameLinkKept
<1>6. ASSUME NEW k \in 1 .. Len(frames) - 1
      PROVE  CallsFound(facs', frames'[k].fac, frames'[k].calls) /\ ByHand(frames'[k].todo)
  <2>1. CASE k \in 1 .. Len(frames) - 2
    <3>1. CallsFound(facs, frames[k].fac, frames[k].calls) /\ ByHand(frames[k].todo)
      BY <1>3 DEF Linked, FramesResolve
    <3>2. CallsFound(facs', frames[k].fac, frames[k].calls)
      BY <3>1, FoundKept
    <3>3. QED
      BY <1>2, <2>1, <3>1, <3>2
  <2>2. CASE k = Len(frames) - 1
    BY <1>1, <1>2, <2>2
  <2>3. QED
    BY <1>3, <2>1, <2>2
<1>7. FramesResolve(frames', facs')
  BY <1>2, <1>6 DEF FramesResolve
<1>8. QED
  BY <1>2, <1>5, <1>7, StillLinked

(* A call that failed leaves no trace but the error, and there everything    *)
(* below is doomed, or errors are allowed and nothing was interrupted.       *)
LEMMA FailedLinked ==
  ASSUME Typed, Linked, status = "building", Top.kind # "explicit",
         ReturnToCaller(Missed(Caller)), UNCHANGED <<prog, cur, ns, subconvs, convs>>,
         Len(facs') \in Nat, Len(facs') <= Len(facs), 1 <= Len(facs'),
         \A f \in 1 .. Len(facs') : facs'[f] = facs[f],
         \A k \in 1 .. Len(frames) - 1 : frames[k].fac \in 1 .. Len(facs')
  PROVE  Linked'
<1> DEFINE fr == Missed(Caller)
           m  == Len(frames) - 1
<1>1. /\ Caller \in Frame /\ Caller = frames[m] /\ Caller.todo # <<>>
      /\ Len(frames) \in Nat /\ Len(frames) >= 2 /\ Len(facs) \in Nat
  BY RunningFacts, CallerFacts
<1>2. m \in Nat /\ m \in 1 .. m /\ m \in 1 .. Len(frames)
  BY <1>1
<1>3. CallsFound(facs, Caller.fac, Caller.calls) /\ ByHand(Caller.todo)
  BY <1>1, <1>2 DEF Linked, FramesResolve
<1>4. /\ fr \in Frame /\ fr.kind = Caller.kind /\ fr.fac = Caller.fac
      /\ fr.pair = Caller.pair /\ fr.name = Caller.name /\ fr.calls = Caller.calls
      /\ fr.err = TRUE /\ ByHand(fr.todo)
  BY <1>1, <1>3, MissedFrame, AfterFieldTodo
<1>5. Len(frames') = m /\ frames'[m] = fr
  BY <1>4, ReturnTyped
<1> HIDE DEF fr, m
<1>6. \A f \in 1 .. Len(facs') :
        f \in 1 .. Len(facs) /\ \A g \in facs[f].line : g \in 1 .. Len(facs') /\ facs'[g] = facs[g]
  <2>1. ASSUME NEW f \in 1 .. Len(facs'), NEW g \in facs[f].line
        PROVE  g \in 1 .. Len(facs')
    <3>1. f \in 1 .. Len(facs)
      BY <1>1
    <3>2. g \in 1 .. f
      BY <3>1, LineInside
    <3>3. QED
      BY <3>2
  <2>2. QED
    BY <1>1, <2>1
<1>7. OnLine(facs') /\ NewFresh(facs', ns') /\ NewDistinct(facs') /\ ErrorsFromRoot(facs')
  <2>1. OnLine(facs')
    BY <1>6 DEF Linked, OnLine
  <2>2. NewFresh(facs', ns')
    BY <1>6 DEF Linked, NewFresh
  <2>3. NewDistinct(facs')
    BY <1>6 DEF Linked, NewDistinct
  <2>4. facs'[1] = facs[1]
    OBVIOUS
  <2>5. ErrorsFromRoot(facs')
    BY <1>6, <2>4 DEF Linked, ErrorsFromRoot
  <2>6. QED
    BY <2>1, <2>2, <2>3, <2>5
<1>8. \A f \in 1 .. Len(facs') : \A calls : CallsFound(facs, f, calls) => CallsFound(facs', f, calls)
  BY <1>6, FoundKept
<1>9. NewResolve(facs')
  BY <1>6, <1>8 DEF Linked, NewResolve
<1>10. CallsFound(facs', Caller.fac, fr.calls)
  BY <1>1, <1>2, <1>3, <1>4, <1>8 DEF m
<1>11. facs'[1].allowsErr = facs[1].allowsErr
  OBVIOUS
<1>12. \A k \in 1 .. m : Doomed(frames', k)
  <2>1. \A k \in 1 .. m : m \in k .. Len(frames')
    BY <1>2, <1>5
  <2>2. QED
    BY <1>4, <1>5, <2>1 DEF Doomed
<1>13. ASSUME NEW k \in 1 .. m
       PROVE  /\ facs'[frames[k].fac] = facs[frames[k].fac]
              /\ \A g \in facs[frames[k].fac].line : facs'[g] = facs[g]
  BY <1>6 DEF m
<1>14. \A k \in 1 .. m :
         /\ Titled(frames, facs, k) => Titled(frames, facs', k)
         /\ Alone(facs, frames[k].fac) => Alone(facs', frames[k].fac)
  BY <1>13 DEF Titled, Alone
<1>15. QED
  BY <1>4, <1>7, <1>9, <1>10, <1>11, <1>12, <1>13, <1>14, CallerLinked DEF fr, m

(* The frames below an attempt point to older factories. *)
LEMMA BelowTry ==
  ASSUME Typed, status = "building", Top.kind = "try"
  PROVE  \A k \in 1 .. Len(frames) - 1 : frames[k].fac \in 1 .. Len(facs) - 1
<1>1. /\ Nesting(frames, Len(facs)) /\ Len(frames) \in Nat /\ Len(frames) >= 1
      /\ frames[Len(frames)].kind = "try" /\ Len(facs) \in Nat
  BY RunningFacts
<1>2. QED
  BY <1>1, TopIsNewest

LEMMA GiveUpLinked ==
  ASSUME Typed, Linked, GiveUp
  PROVE  Linked'
<1>1. TryEnds /\ ReturnToCaller(Missed(Caller)) /\ facs' = Pop(facs)
  BY DEF GiveUp
<1>2. UNCHANGED <<prog, cur, ns, subconvs, convs>>
  BY DEF GiveUp
<1>3. /\ status = "building" /\ Top.kind = "try" /\ Top.kind # "explicit"
      /\ Len(facs) \in Nat /\ Caller.fac \in 1 .. Len(facs) - 1
      /\ Len(facs') = Len(facs) - 1
      /\ \A f \in 1 .. Len(facs) - 1 : facs'[f] = facs[f]
  BY <1>1, PopFactory
<1>4. Len(facs') \in Nat /\ Len(facs') <= Len(facs) /\ 1 <= Len(facs')
  BY <1>3
<1>5. \A k \in 1 .. Len(frames) - 1 : frames[k].fac \in 1 .. Len(facs')
  BY <1>3, BelowTry
<1>6. QED
  BY <1>1, <1>2, <1>3, <1>4, <1>5, FailedLinked

LEMMA ReportRerunLinked ==
  ASSUME Typed, Linked, ReportRerun
  PROVE  Linked'
<1>1. status = "building" /\ Top.kind = "rerun" /\ ReturnToCaller(Missed(Caller))
  BY DEF ReportRerun, RerunEnds
<1>2. UNCHANGED <<prog, cur, ns, subconvs, convs, facs>> /\ Top.kind # "explicit"
  BY <1>1 DEF ReportRerun
<1>3. Len(facs) \in Nat /\ 1 \in 1 .. Len(facs) /\ Len(frames) \in Nat
  BY <1>1, RunningFacts
<1>4. \A k \in 1 .. Len(frames) - 1 : k \in 1 .. Len(frames)
  BY <1>3
<1>5. \A k \in 1 .. Len(frames) - 1 : frames[k].fac \in 1 .. Len(facs')
  BY <1>1, <1>2, <1>4, FacOfFrame
<1>6. QED
  BY <1>1, <1>2, <1>3, <1>5, FailedLinked

-----------------------------------------------------------------------------
(* The subconverter an attempt is for, as its factory holds it. *)
LEMMA OwnPlaceholder ==
  ASSUME Typed, Sound, Linked, TryEnds
  PROVE  /\ Holding(Top, facs[Len(facs)])
         /\ \E s \in facs[Len(facs)].new : s.pair = Top.pair /\ s.name = Top.name
         /\ \A s \in facs[Len(facs)].new :
              s.pair = Top.pair =>
                /\ s.name = Top.name /\ ~s.done
                /\ s.hasErr <=> facs[Len(facs)].allowsErr
         /\ facs[Len(facs)].line = facs[Caller.fac].line \cup {Len(facs)}
         /\ Apart(frames, facs, Len(frames))
<1>1. status = "building" /\ Top.kind = "try" /\ Top.fac = Len(facs)
  BY PopFactory
<1>2. /\ Len(frames) \in Nat /\ Len(frames) >= 1 /\ Top = frames[Len(frames)]
      /\ Caller = frames[Len(frames) - 1]
  BY <1>1, RunningFacts DEF Caller
<1>3. Len(frames) \in 1 .. Len(frames)
  BY <1>2
<1>4. Holding(Top, facs[Len(facs)])
  BY <1>1, <1>2, <1>3 DEF Sound, SafeFrames, FrameSafe
<1>5. FrameLinked(frames, facs, Len(frames))
  BY <1>1, TopLinked
<1>6. /\ facs[Len(facs)].line = facs[Caller.fac].line \cup {Len(facs)}
      /\ \A s \in facs[Len(facs)].new : s.pair = Top.pair => s.name = Top.name
      /\ Apart(frames, facs, Len(frames))
  BY <1>1, <1>2, <1>5 DEF FrameLinked, LineOf, Titled
<1>7. QED
  BY <1>4, <1>6 DEF Holding

LEMMA RetryLinked ==
  ASSUME Typed, Sound, Linked, Retry
  PROVE  Linked'
<1> DEFINE n   == Len(facs)
           m   == Len(frames)
           fr  == TryStruct("try", Top.fac, TRUE, Top.pair, Top.name,
                            prog.shape[Inj.mod][Top.pair])
           fac == Fork(facs[Caller.fac].line, n, TRUE, Top.pair, Top.name)
           s   == Placeholder(Top.pair, Top.name, TRUE)
<1>1. TryEnds /\ Return(fr) /\ facs' = Append(Pop(facs), fac) /\ facs[Caller.fac].allowsErr
  BY DEF Retry, MayRetry
<1>2. UNCHANGED <<prog, status, cur, ns, subconvs, convs, failed>>
  BY DEF Retry
<1>3. /\ status = "building" /\ Top.kind = "try" /\ Top \in Frame /\ Top.fac = n
      /\ n \in Nat /\ cur \in DOMAIN prog.injs
      /\ Caller.fac \in 1 .. n - 1 /\ facs[Caller.fac].line \subseteq 1 .. Caller.fac
      /\ Pop(facs) \in Seq(Factory) /\ Len(Pop(facs)) = n - 1
      /\ \A f \in 1 .. n - 1 : Pop(facs)[f] = facs[f]
      /\ \A f \in 1 .. n : facs[f].line \subseteq 1 .. f
  BY <1>1, PopFactory
<1>4. Top.pair \in Pairs /\ Top.name \in Name /\ Top.fac \in Nat
  BY <1>3 DEF Frame
<1>5. prog.shape[Inj.mod][Top.pair] \in Seq(Field) /\ ByHand(prog.shape[Inj.mod][Top.pair])
  BY <1>3, <1>4, ShapeFacts, ShapeByHand
<1>6. fr \in Frame /\ fac \in Factory
  <2>1. fr \in Frame
    BY <1>4, <1>5 DEF TryStruct, Frame, Kinds
  <2>2. facs[Caller.fac].line \subseteq Nat
    BY <1>3
  <2>3. fac \in Factory
    BY <1>3, <1>4, <2>2 DEF Fork, Factory, Placeholder, SubconvRec
  <2>4. QED
    BY <2>1, <2>3
<1>7. /\ fr.kind = "try" /\ fr.fac = n /\ fr.pair = Top.pair /\ fr.name = Top.name
      /\ fr.calls = {} /\ fr.todo = prog.shape[Inj.mod][Top.pair]
      /\ fac.new = {s} /\ fac.line = facs[Caller.fac].line \cup {n} /\ fac.allowsErr = TRUE
      /\ s.pair = Top.pair /\ s.name = Top.name /\ ~s.done
  BY <1>3 DEF TryStruct, Fork, Placeholder
<1> HIDE DEF fr, fac, s
<1>8. PICK s0 \in facs[n].new : s0.pair = Top.pair /\ s0.name = Top.name
  BY <1>1, OwnPlaceholder
<1>9. /\ Len(facs') = n /\ facs'[n] = fac
      /\ \A f \in 1 .. n - 1 : facs'[f] = facs[f]
  <2>1. /\ Len(facs') = Len(Pop(facs)) + 1 /\ facs'[Len(Pop(facs)) + 1] = fac
        /\ \A f \in 1 .. Len(Pop(facs)) : facs'[f] = Pop(facs)[f]
    BY <1>1, <1>3, <1>6, AppendSeq
  <2>2. QED
    BY <1>3, <2>1
<1>10. /\ m \in Nat /\ m >= 2 /\ Top = frames[m] /\ Caller = frames[m - 1]
       /\ \A k \in 1 .. m - 1 : frames[k].fac \in 1 .. n - 1
  BY <1>3, RunningFacts, CallerFacts, BelowTry
<1>11. /\ Len(frames') = m /\ frames'[m] = fr
       /\ \A i \in 1 .. m - 1 : frames'[i] = frames[i]
  BY <1>1, <1>3, <1>6, <1>7, SameAttempt
<1>12. /\ facs'[1] = facs[1] /\ n \in 1 .. n /\ 1 \in 1 .. n - 1
       /\ \A f \in 1 .. n : f \in 1 .. n - 1 \/ f = n
       /\ \A f \in 1 .. n - 1 : f \in 1 .. n
       /\ \A k \in 1 .. m : k \in 1 .. m - 1 \/ k = m
       /\ \A k \in 1 .. m - 1 : k \in 1 .. m
  BY <1>3, <1>9, <1>10
<1>13. \A f \in 1 .. n - 1 : \A g \in facs[f].line : g \in 1 .. n - 1 /\ facs'[g] = facs[g]
  <2>1. ASSUME NEW f \in 1 .. n - 1, NEW g \in facs[f].line
        PROVE  g \in 1 .. n - 1
    <3>1. g \in 1 .. f
      BY <1>3, <1>12
    <3>2. QED
      BY <1>3, <3>1
  <2>2. QED
    BY <1>9, <2>1
<1> HIDE DEF n, m
<1>14. OnLine(facs') /\ ErrorsFromRoot(facs')
  <2>1. 1 \in facs[Caller.fac].line /\ facs[1].allowsErr
    BY <1>1, <1>3, <1>12 DEF Linked, OnLine, ErrorsFromRoot, n
  <2>2. OnLine(facs')
    BY <1>7, <1>9, <1>12, <2>1 DEF Linked, OnLine, n
  <2>3. ErrorsFromRoot(facs')
    BY <1>9, <1>12, <2>1 DEF ErrorsFromRoot
  <2>4. QED
    BY <2>2, <2>3
<1>15. Fresh(s, ns) /\ \A f \in 1 .. n : \A t \in facs[f].new : Fresh(t, ns)
  <2>1. \A f \in 1 .. n : \A t \in facs[f].new : Fresh(t, ns)
    BY DEF Linked, NewFresh, n
  <2>2. Fresh(s0, ns)
    BY <1>8, <1>12, <2>1
  <2>3. Fresh(s, ns)
    BY <1>7, <1>8, <2>2 DEF Fresh
  <2>4. QED
    BY <2>1, <2>3
<1>16. NewFresh(facs', ns')
  BY <1>2, <1>7, <1>9, <1>12, <1>15 DEF NewFresh
<1>17. NewDistinct(facs')
  <2>1. \A g \in 1 .. n - 1 : \A t \in facs'[g].new : t.name # s.name
    <3>1. ASSUME NEW g \in 1 .. n - 1, NEW t \in facs[g].new, t.name = s0.name
          PROVE  FALSE
      <4>1. g = n
        BY <1>8, <1>12, <3>1 DEF Linked, NewDistinct, n
      <4>2. QED
        BY <1>3, <4>1 DEF n
    <3>2. QED
      BY <1>7, <1>8, <1>9, <3>1
  <2>2. ASSUME NEW g \in 1 .. n, NEW h \in 1 .. n, NEW t \in facs'[g].new, NEW u \in facs'[h].new,
               t.name = u.name
        PROVE  g = h /\ t = u
    <3>1. CASE g \in 1 .. n - 1 /\ h \in 1 .. n - 1
      BY <1>9, <1>12, <2>2, <3>1 DEF Linked, NewDistinct, n
    <3>2. CASE g = n /\ h = n
      BY <1>7, <1>9, <2>2, <3>2
    <3>3. CASE g = n /\ h \in 1 .. n - 1
      BY <1>7, <1>9, <2>1, <2>2, <3>3
    <3>4. CASE g \in 1 .. n - 1 /\ h = n
      BY <1>7, <1>9, <2>1, <2>2, <3>4
    <3>5. QED
      BY <1>12, <3>1, <3>2, <3>3, <3>4
  <2>3. ASSUME NEW g \in 1 .. n, NEW t \in facs'[g].new, NEW u \in facs'[g].new, t.pair = u.pair
        PROVE  t = u
    <3>1. CASE g \in 1 .. n - 1
      BY <1>9, <1>12, <2>3, <3>1 DEF Linked, NewDistinct, n
    <3>2. CASE g = n
      BY <1>7, <1>9, <2>3, <3>2
    <3>3. QED
      BY <1>12, <3>1, <3>2
  <2>4. QED
    BY <1>9, <2>2, <2>3 DEF NewDistinct
<1>18. \A f \in 1 .. n - 1 : \A calls : CallsFound(facs, f, calls) => CallsFound(facs', f, calls)
  BY <1>9, <1>13, FoundKept
<1>19. NewResolve(facs')
  BY <1>7, <1>9, <1>12, <1>18 DEF Linked, NewResolve, n
<1>20. FramesResolve(frames', facs')
  <2>1. \A k \in 1 .. m - 1 : CallsFound(facs', frames'[k].fac, frames'[k].calls)
                              /\ ByHand(frames'[k].todo)
    BY <1>10, <1>11, <1>12, <1>18 DEF Linked, FramesResolve, m
  <2>2. CallsFound(facs', frames'[m].fac, frames'[m].calls) /\ ByHand(frames'[m].todo)
    BY <1>5, <1>7, <1>11 DEF CallsFound
  <2>3. QED
    BY <1>11, <1>12, <2>1, <2>2 DEF FramesResolve
<1>21. ASSUME NEW k \in 1 .. m - 1
       PROVE  FrameLinked(frames', facs', k)
  <2>1. FrameLinked(frames, facs, k) /\ k \in Nat /\ k \in 1 .. m
    BY <1>3, <1>12, FacOfFrame DEF Linked, m
  <2>2. /\ frames'[k] = frames[k] /\ facs'[frames[k].fac] = facs[frames[k].fac]
        /\ \A g \in facs[frames[k].fac].line : facs'[g] = facs[g]
    BY <1>9, <1>10, <1>11, <1>13
  <2>3. frames[k].kind = "try" =>
          /\ frames'[k - 1].fac = frames[k - 1].fac
          /\ facs'[frames[k - 1].fac].line = facs[frames[k - 1].fac].line
    <3>1. ASSUME frames[k].kind = "try"
          PROVE  k - 1 \in 1 .. m - 1
      <4>1. k # 1
        BY <1>3, <2>1, <3>1, FacOfFrame DEF m
      <4>2. QED
        BY <1>10, <4>1
    <3>2. QED
      BY <1>9, <1>10, <1>11, <3>1
  <2>4. Titled(frames, facs, k) => Titled(frames', facs', k)
    BY <2>2 DEF Titled
  <2>5. facs[1].allowsErr
    BY <1>1, <1>3, <1>12 DEF Linked, ErrorsFromRoot, n
  <2>6. Alone(facs, frames[k].fac) => Alone(facs', frames[k].fac)
    BY <2>2 DEF Alone
  <2>7. QED
    BY <2>1, <2>2, <2>3, <2>4, <2>5, <2>6, FrameLinkKept
<1>22. FrameLinked(frames', facs', m)
  <2>1. m - 1 \in 1 .. m - 1 /\ m \in Nat
    BY <1>10
  <2>2. frames'[m - 1] = Caller /\ facs'[Caller.fac] = facs[Caller.fac]
    BY <1>3, <1>9, <1>10, <1>11, <2>1
  <2>3. LineOf(frames', facs', m) /\ Titled(frames', facs', m)
    BY <1>7, <1>9, <1>11, <2>2 DEF LineOf, Titled
  <2>4. Alone(facs, n)
    <3>1. Apart(frames, facs, m) /\ facs[1].allowsErr
      BY <1>1, <1>3, <1>12, OwnPlaceholder DEF Linked, ErrorsFromRoot, n, m
    <3>2. QED
      BY <1>3, <1>10, <3>1 DEF Apart
  <2>5. facs[n].line = facs[Caller.fac].line \cup {n}
    BY <1>1, OwnPlaceholder DEF n
  <2>6. \A g \in facs[Caller.fac].line : g \in 1 .. n - 1 /\ facs'[g] = facs[g] /\ g # n
    BY <1>3, <1>13 DEF n
  <2>7. Alone(facs', n)
    BY <1>7, <1>8, <1>9, <2>4, <2>5, <2>6 DEF Alone
  <2>8. Apart(frames', facs', m)
    BY <1>7, <1>11, <2>7 DEF Apart
  <2>9. QED
    BY <2>3, <2>8 DEF FrameLinked
<1>23. \A k \in 1 .. Len(frames') : FrameLinked(frames', facs', k)
  BY <1>11, <1>12, <1>21, <1>22
<1>24. UNCHANGED <<prog, cur, subconvs, convs>> /\ ns \subseteq ns'
  BY <1>2
<1>25. QED
  BY <1>14, <1>16, <1>17, <1>19, <1>20, <1>23, <1>24, StillLinked

-----------------------------------------------------------------------------
(* The attempt that succeeds hands over every subconverter of its fork as it *)
(* was, its own with the body just built.                                    *)
LEMMA CompletedLike ==
  ASSUME Typed, Sound, Linked, Commit, NEW C, C = Completed(Len(facs), Top)
  PROVE  /\ \A c \in C : \E s \in facs[Len(facs)].new :
              /\ c.name = s.name /\ c.pair = s.pair /\ AsFn(c) = AsFn(s)
              /\ c.pair = Top.pair => c.calls = Top.calls
              /\ c.pair # Top.pair => c = s /\ s.done
         /\ \A s \in facs[Len(facs)].new : \E c \in C : AsFn(c) = AsFn(s) /\ c.pair = s.pair
         /\ \A c, d \in C : c.name = d.name \/ c.pair = d.pair => c = d
<1> DEFINE n == Len(facs)
           own(s) == [s EXCEPT !.calls = Top.calls, !.done = TRUE]
<1>1. TryEnds /\ n \in 1 .. n /\ facs[n].new \subseteq SubconvRec
  <2>1. TryEnds
    BY DEF Commit
  <2>2. facs[n] \in Factory /\ n \in Nat /\ Caller.fac \in 1 .. n - 1
    BY <2>1, PopFactory
  <2>3. QED
    BY <2>1, <2>2 DEF Factory
<1>2. Holding(Top, facs[n])
  BY <1>1, OwnPlaceholder
<1>3. C = {IF s.pair = Top.pair THEN own(s) ELSE s : s \in facs[n].new}
  BY DEF Completed
<1>4. ASSUME NEW s \in facs[n].new
      PROVE  /\ own(s).name = s.name /\ own(s).pair = s.pair /\ own(s).calls = Top.calls
             /\ AsFn(own(s)) = AsFn(s)
  <2>1. s \in SubconvRec
    BY <1>1
  <2>2. own(s).name = s.name /\ own(s).pair = s.pair /\ own(s).hasErr = s.hasErr
        /\ own(s).calls = Top.calls
    BY <2>1 DEF SubconvRec
  <2>3. QED
    BY <2>2 DEF AsFn
<1> HIDE DEF own, n
<1>5. \A s \in facs[n].new : \E c \in C : AsFn(c) = AsFn(s) /\ c.pair = s.pair
  BY <1>3, <1>4
<1>6. \A c \in C : \E s \in facs[n].new :
        /\ c = (IF s.pair = Top.pair THEN own(s) ELSE s)
        /\ c.name = s.name /\ c.pair = s.pair /\ AsFn(c) = AsFn(s)
        /\ c.pair = Top.pair => c.calls = Top.calls
        /\ c.pair # Top.pair => c = s /\ s.done
  <2>1. ASSUME NEW c \in C
        PROVE  \E s \in facs[n].new :
                 /\ c = (IF s.pair = Top.pair THEN own(s) ELSE s)
                 /\ c.name = s.name /\ c.pair = s.pair /\ AsFn(c) = AsFn(s)
                 /\ c.pair = Top.pair => c.calls = Top.calls
                 /\ c.pair # Top.pair => c = s /\ s.done
    <3>1. PICK s \in facs[n].new : c = IF s.pair = Top.pair THEN own(s) ELSE s
      BY <1>3
    <3>2. CASE s.pair = Top.pair
      BY <1>4, <3>1, <3>2
    <3>3. CASE s.pair # Top.pair
      BY <1>2, <3>1, <3>3 DEF Holding
    <3>4. QED
      BY <3>2, <3>3
  <2>2. QED
    BY <2>1
<1>7. ASSUME NEW c \in C, NEW d \in C, c.name = d.name \/ c.pair = d.pair
      PROVE  c = d
  <2>1. PICK s \in facs[n].new : /\ c = (IF s.pair = Top.pair THEN own(s) ELSE s)
                                 /\ c.name = s.name /\ c.pair = s.pair
    BY <1>6
  <2>2. PICK t \in facs[n].new : /\ d = (IF t.pair = Top.pair THEN own(t) ELSE t)
                                 /\ d.name = t.name /\ d.pair = t.pair
    BY <1>6
  <2>3. s = t
    BY <1>1, <1>7, <2>1, <2>2 DEF Linked, NewDistinct, n
  <2>4. QED
    BY <2>1, <2>2, <2>3
<1>8. QED
  BY <1>5, <1>6, <1>7 DEF n

(* Nothing of the fork is dropped when it joins its caller's factory. *)
LEMMA NothingDropped ==
  ASSUME Typed, Sound, Linked, Commit, NEW C, C = Completed(Len(facs), Top)
  PROVE  /\ facs'[Caller.fac].new = facs[Caller.fac].new \cup C
         /\ \A h \in facs[Caller.fac].line : \A c \in C, t \in facs[h].new : c.pair # t.pair
         /\ ~Top.err
<1> DEFINE n == Len(facs)
           g == Caller.fac
<1>1. TryEnds /\ ~Top.err
  BY DEF Commit, TryOK
<1>2. /\ status = "building" /\ Top.kind = "try" /\ Top.fac = n /\ n \in Nat
      /\ g \in 1 .. n - 1 /\ facs[g].line \subseteq 1 .. g
  BY <1>1, PopFactory
<1>3. Len(frames) \in Nat /\ Len(frames) >= 1 /\ Top = frames[Len(frames)]
  BY <1>2, RunningFacts
<1>4. ~Doomed(frames, Len(frames))
  <2>1. \A r \in Len(frames) .. Len(frames) : r = Len(frames)
    BY <1>3
  <2>2. QED
    BY <1>1, <1>3, <2>1 DEF Doomed
<1>5. facs[n].line = facs[g].line \cup {n} /\ Apart(frames, facs, Len(frames))
  BY <1>1, OwnPlaceholder
<1>6. Alone(facs, n)
  BY <1>2, <1>3, <1>4, <1>5 DEF Apart
<1>7. g \in facs[g].line /\ n \notin facs[g].line
  <2>1. g \in 1 .. n
    BY <1>2
  <2>2. g \in facs[g].line
    BY <2>1 DEF Linked, OnLine
  <2>3. n \notin 1 .. g
    BY <1>2
  <2>4. QED
    BY <1>2, <2>2, <2>3
<1> HIDE DEF n, g
<1>8. ASSUME NEW h \in facs[g].line, NEW c \in C, NEW t \in facs[h].new
      PROVE  c.pair # t.pair
  <2>1. PICK s \in facs[n].new : c.pair = s.pair
    BY CompletedLike DEF n
  <2>2. QED
    BY <1>5, <1>6, <1>7, <2>1 DEF Alone
<1>9. facs'[g].new = PutAll(facs[g].new, C)
  BY CommitFacts DEF g
<1>10. facs'[g].new = facs[g].new \cup C
  BY <1>7, <1>8, <1>9 DEF PutAll
<1>11. QED
  BY <1>1, <1>8, <1>10 DEF g

(* An attempt in progress goes on holding no pair of its line when the one   *)
(* above it joins: if its line is the one joined, the caller is a rerun.     *)
LEMMA JoinApart ==
  ASSUME Typed, Sound, Linked, Commit, NEW k \in 1 .. Len(frames) - 1, frames[k].kind = "try",
         NEW gs, gs[Len(frames) - 1].kind = Caller.kind, Len(gs) = Len(frames) - 1,
         facs[1].allowsErr \/ ~Doomed(gs, k), Alone(facs, frames[k].fac)
  PROVE  Alone(facs', frames[k].fac)
<1> DEFINE n == Len(facs)
           g == Caller.fac
           f == frames[k].fac
           m == Len(frames)
           C == Completed(n, Top)
<1>1. TryEnds /\ status = "building" /\ Top.kind = "try" /\ n \in Nat /\ g \in 1 .. n - 1
      /\ \A h \in 1 .. n : facs[h].line \subseteq 1 .. h
  <2>1. TryEnds
    BY DEF Commit
  <2>2. QED
    BY <2>1, PopFactory
<1>2. f \in 1 .. n - 1 /\ f \in 1 .. n
  BY <1>1, BelowTry
<1>3. /\ facs'[g].new = facs[g].new \cup C
      /\ \A h \in facs[g].line : \A c \in C, t \in facs[h].new : c.pair # t.pair
  BY NothingDropped
<1>4. \A h \in 1 .. n - 1 : facs'[h].line = facs[h].line /\ (h # g => facs'[h] = facs[h])
  BY CommitFacts
<1>5. \A h \in facs[f].line : h \in 1 .. n - 1
  <2>1. \A h \in facs[f].line : h \in 1 .. f
    BY <1>1, <1>2
  <2>2. QED
    BY <1>1, <1>2, <2>1
<1>6. CASE f = g
  <2> HIDE DEF n, C
  <2>1. \A h \in facs[g].line \ {g} : facs'[h] = facs[h]
    BY <1>4, <1>5, <1>6
  <2>2. ASSUME NEW h \in facs[g].line \ {g}, NEW s \in facs'[g].new, NEW t \in facs'[h].new
        PROVE  s.pair # t.pair
    <3>1. CASE s \in facs[g].new
      BY <1>6, <2>1, <2>2, <3>1 DEF Alone
    <3>2. CASE s \in C
      BY <1>3, <2>1, <2>2, <3>2
    <3>3. QED
      BY <1>3, <2>2, <3>1, <3>2
  <2>3. facs'[g].line = facs[g].line
    BY <1>1, <1>4
  <2>4. QED
    BY <1>6, <2>2, <2>3 DEF Alone
<1>7. CASE f # g
  <2>1. g \notin facs[f].line
    <3>1. SUFFICES ASSUME g \in facs[f].line
                   PROVE  FALSE
      OBVIOUS
    <3>2. g < f
      <4>1. g \in 1 .. f
        BY <1>1, <1>2, <3>1
      <4>2. QED
        BY <1>2, <1>7, <4>1
    <3>3. /\ m \in Nat /\ m >= 2 /\ Caller = frames[m - 1] /\ k \in 1 .. m - 1
          /\ Nesting(frames, n)
      BY <1>1, RunningFacts, CallerFacts
    <3>4. k # m - 1
      BY <1>7, <3>3
    <3>5. m - 1 \in 1 .. m /\ m - 1 # 1 /\ k \in 1 .. (m - 1) - 1 /\ m - 1 \in k .. m - 1
      BY <3>3, <3>4
    <3>6. frames[m - 1].kind # "explicit"
      BY <3>3, <3>5 DEF Nesting, FramesFit
    <3>7. frames[m - 1].kind # "try"
      <4>1. frames[m - 1].kind = "try" => frames[k].fac < frames[m - 1].fac
        BY <3>3, <3>5 DEF Nesting, TriesAscend
      <4>2. QED
        BY <1>1, <1>2, <3>2, <3>3, <4>1
    <3>8. frames[m - 1].kind = "rerun"
      <4>1. frames[m - 1] \in Frame
        BY <1>1, <3>3, CallerFacts
      <4>2. QED
        BY <3>6, <3>7, <4>1 DEF Frame, Kinds
    <3>9. ~facs[1].allowsErr
      BY <3>5, <3>8 DEF Sound, SafeFrames, FrameSafe
    <3>10. Doomed(gs, k)
      BY <3>3, <3>4, <3>5, <3>8 DEF Doomed
    <3>11. QED
      BY <3>9, <3>10
  <2>2. facs'[f] = facs[f]
    BY <1>2, <1>4, <1>7
  <2>3. \A h \in facs[f].line : facs'[h] = facs[h]
    BY <1>4, <1>5, <2>1
  <2>4. QED
    BY <2>2, <2>3 DEF Alone
<1>8. QED
  BY <1>6, <1>7

(* What one factory sees, another sees too. *)
Sees(fas, f, gas, g) ==
  \A s \in Visible(fas, f) : \E t \in Visible(gas, g) : AsFn(t) = AsFn(s) /\ t.pair = s.pair

LEMMA SeesKept ==
  ASSUME NEW fas, NEW gas, NEW f, gas[f].line = fas[f].line,
         \A g \in fas[f].line : \A s \in fas[g].new :
           \E t \in gas[g].new : AsFn(t) = AsFn(s) /\ t.pair = s.pair
  PROVE  Sees(fas, f, gas, f)
<1>1. ASSUME NEW s \in Visible(fas, f)
      PROVE  \E t \in Visible(gas, f) : AsFn(t) = AsFn(s) /\ t.pair = s.pair
  <2>1. CASE s \in subconvs[Inj.mod]
    BY <2>1 DEF Visible
  <2>2. CASE \E g \in fas[f].line : s \in fas[g].new
    <3>1. PICK g \in fas[f].line : s \in fas[g].new
      BY <2>2
    <3>2. PICK t \in gas[g].new : AsFn(t) = AsFn(s) /\ t.pair = s.pair
      BY <3>1
    <3>3. t \in Visible(gas, f)
      BY <3>1, <3>2 DEF Visible
    <3>4. QED
      BY <3>2, <3>3
  <2>3. QED
    BY <1>1, <2>1, <2>2 DEF Visible
<1>2. QED
  BY <1>1 DEF Sees

(* What the factories below see they go on seeing, and what the fork saw its *)
(* caller's factory sees.                                                    *)
LEMMA JoinSees ==
  ASSUME Typed, Sound, Linked, Commit
  PROVE  /\ \A f \in 1 .. Len(facs) - 1 : Sees(facs, f, facs', f)
         /\ Sees(facs, Len(facs), facs', Caller.fac)
<1> DEFINE n == Len(facs)
           g == Caller.fac
           C == Completed(n, Top)
<1>1. TryEnds /\ n \in Nat /\ g \in 1 .. n - 1 /\ \A h \in 1 .. n : facs[h].line \subseteq 1 .. h
  <2>1. TryEnds
    BY DEF Commit
  <2>2. QED
    BY <2>1, PopFactory
<1>2. \A h \in 1 .. n - 1 : facs'[h].line = facs[h].line /\ (h # g => facs'[h] = facs[h])
  BY CommitFacts
<1>3. facs'[g].new = facs[g].new \cup C
  BY NothingDropped
<1>4. \A h \in 1 .. n - 1 : facs[h].new \subseteq facs'[h].new
  BY <1>1, <1>2, <1>3
<1>5. \A f \in 1 .. n - 1 : \A h \in facs[f].line : h \in 1 .. n - 1
  <2>1. ASSUME NEW f \in 1 .. n - 1, NEW h \in facs[f].line
        PROVE  h \in 1 .. n - 1
    <3>1. f \in 1 .. n
      BY <1>1
    <3>2. h \in 1 .. f
      BY <1>1, <3>1
    <3>3. QED
      BY <1>1, <3>2
  <2>2. QED
    BY <2>1
<1>6. \A s \in facs[n].new : \E t \in facs'[g].new : AsFn(t) = AsFn(s) /\ t.pair = s.pair
  <2>1. \A s \in facs[n].new : \E c \in C : AsFn(c) = AsFn(s) /\ c.pair = s.pair
    BY CompletedLike
  <2>2. QED
    BY <1>3, <2>1
<1>7. facs[n].line = facs[g].line \cup {n} /\ g \in facs'[g].line
  <2>1. g \in facs[g].line
    <3>1. g \in 1 .. n
      BY <1>1
    <3>2. QED
      BY <3>1 DEF Linked, OnLine
  <2>2. QED
    BY <1>1, <1>2, <2>1, OwnPlaceholder
<1> HIDE DEF n, g, C
<1>8. ASSUME NEW f \in 1 .. n - 1
      PROVE  Sees(facs, f, facs', f)
  <2>1. facs'[f].line = facs[f].line
    BY <1>2
  <2>2. \A h \in facs[f].line : \A s \in facs[h].new :
          \E t \in facs'[h].new : AsFn(t) = AsFn(s) /\ t.pair = s.pair
    BY <1>4, <1>5
  <2>3. QED
    BY <2>1, <2>2, SeesKept
<1>9. ASSUME NEW s \in Visible(facs, n)
      PROVE  \E t \in Visible(facs', g) : AsFn(t) = AsFn(s) /\ t.pair = s.pair
  <2>1. CASE s \in subconvs[Inj.mod]
    BY <2>1 DEF Visible
  <2>2. CASE s \in facs[n].new
    <3>1. PICK t \in facs'[g].new : AsFn(t) = AsFn(s) /\ t.pair = s.pair
      BY <1>6, <2>2
    <3>2. t \in Visible(facs', g)
      BY <1>7, <3>1 DEF Visible
    <3>3. QED
      BY <3>1, <3>2
  <2>3. CASE \E h \in facs[g].line : s \in facs[h].new
    <3>1. PICK h \in facs[g].line : s \in facs[h].new
      BY <2>3
    <3>2. s \in facs'[h].new /\ h \in facs'[g].line
      BY <1>1, <1>2, <1>4, <1>5, <3>1 DEF g, n
    <3>3. QED
      BY <3>2 DEF Visible
  <2>4. QED
    BY <1>7, <1>9, <2>1, <2>2, <2>3 DEF Visible
<1>10. QED
  BY <1>8, <1>9 DEF n, g, Sees

LEMMA JoinFound ==
  ASSUME Typed, Sound, Linked, Commit
  PROVE  /\ \A f \in 1 .. Len(facs) - 1 : \A calls :
              CallsFound(facs, f, calls) => CallsFound(facs', f, calls)
         /\ \A calls : CallsFound(facs, Len(facs), calls) => CallsFound(facs', Caller.fac, calls)
<1>1. ASSUME NEW f, NEW g, Sees(facs, f, facs', g), NEW calls, CallsFound(facs, f, calls)
      PROVE  CallsFound(facs', g, calls)
  BY <1>1 DEF Sees, CallsFound
<1>2. QED
  BY <1>1, JoinSees

LEMMA CommitLinked ==
  ASSUME Typed, Sound, Linked, Commit
  PROVE  Linked'
<1> DEFINE fn == [name |-> Top.name, hasErr |-> facs[Top.fac].allowsErr]
           fr == Built(Caller, fn)
           n  == Len(facs)
           g  == Caller.fac
           m  == Len(frames)
           C  == Completed(n, Top)
<1>1. TryEnds /\ ReturnToCaller(fr) /\ UNCHANGED <<prog, cur, ns, subconvs, convs>>
  BY DEF Commit
<1>2. /\ status = "building" /\ Top.kind = "try" /\ Top.kind # "explicit" /\ Top.fac = n
      /\ Top \in Frame /\ Caller \in Frame /\ Caller.todo # <<>> /\ n \in Nat /\ g \in 1 .. n - 1
      /\ facs[n] \in Factory /\ \A f \in 1 .. n : facs[f].line \subseteq 1 .. f
  BY <1>1, PopFactory
<1>3. /\ Len(facs') = n - 1
      /\ \A f \in 1 .. n - 1 : /\ facs'[f].allowsErr = facs[f].allowsErr
                               /\ facs'[f].line = facs[f].line
                               /\ f # g => facs'[f] = facs[f]
  BY CommitFacts
<1>4. /\ facs'[g].new = facs[g].new \cup C
      /\ \A h \in facs[g].line : \A c \in C, t \in facs[h].new : c.pair # t.pair
      /\ ~Top.err
  BY NothingDropped
<1>5. /\ \A c \in C : \E s \in facs[n].new :
           /\ c.name = s.name /\ c.pair = s.pair /\ AsFn(c) = AsFn(s)
           /\ c.pair = Top.pair => c.calls = Top.calls
           /\ c.pair # Top.pair => c = s /\ s.done
      /\ \A s \in facs[n].new : \E c \in C : AsFn(c) = AsFn(s) /\ c.pair = s.pair
      /\ \A c, d \in C : c.name = d.name \/ c.pair = d.pair => c = d
  BY CompletedLike
<1>6. fn \in Fn
  BY <1>2 DEF Frame, Factory, Fn
<1>7. /\ fr \in Frame /\ fr.kind = Caller.kind /\ fr.fac = Caller.fac /\ fr.pair = Caller.pair
      /\ fr.name = Caller.name /\ fr.err = Caller.err /\ fr.calls = Caller.calls \cup {fn}
      /\ fr.todo = Tail(Caller.todo)
  <2>1. Built(Caller, fn) \in Frame
    BY <1>2, <1>6, AfterField
  <2>2. QED
    BY <1>2, <2>1 DEF Built, Frame
<1>8. /\ m \in Nat /\ m >= 2 /\ Top = frames[m] /\ Caller = frames[m - 1]
      /\ \A k \in 1 .. m - 1 : frames[k].fac \in 1 .. n - 1 /\ k \in 1 .. m
      /\ m - 1 \in 1 .. m - 1 /\ m - 1 \in 1 .. m
  <2>1. m \in Nat /\ m >= 2 /\ Top = frames[m] /\ Caller = frames[m - 1]
    BY <1>2, RunningFacts, CallerFacts
  <2>2. QED
    BY <1>2, <2>1, BelowTry
<1>9. /\ n \in 1 .. n /\ 1 \in 1 .. n - 1 /\ g \in 1 .. n /\ g # n
      /\ \A f \in 1 .. n - 1 : f \in 1 .. n /\ f # n
      /\ \A f \in 1 .. n - 1 : \A h \in facs[f].line : h \in 1 .. n - 1
  <2>1. /\ n \in 1 .. n /\ 1 \in 1 .. n - 1 /\ g \in 1 .. n /\ g # n
        /\ \A f \in 1 .. n - 1 : f \in 1 .. n /\ f # n
    BY <1>2
  <2>2. ASSUME NEW f \in 1 .. n - 1, NEW h \in facs[f].line
        PROVE  h \in 1 .. n - 1
    <3>1. h \in 1 .. f
      BY <1>2, <2>1
    <3>2. QED
      BY <1>2, <3>1
  <2>3. QED
    BY <2>1, <2>2
<1>10. /\ \A f \in 1 .. n - 1 : \A calls : CallsFound(facs, f, calls) => CallsFound(facs', f, calls)
       /\ \A calls : CallsFound(facs, n, calls) => CallsFound(facs', g, calls)
  BY JoinFound
<1>11. CallsFound(facs, n, Top.calls) /\ ByHand(Caller.todo)
       /\ CallsFound(facs, g, Caller.calls)
  <2>1. CallsFound(facs, n, Top.calls)
    BY <1>2, TopLinked
  <2>2. QED
    BY <1>8, <2>1 DEF Linked, FramesResolve
<1>12. \E c \in C : AsFn(c) = fn
  <2>1. PICK s \in facs[n].new : s.pair = Top.pair /\ s.name = Top.name
    BY <1>1, OwnPlaceholder
  <2>2. s \in SubconvRec
    BY <1>2, <2>1 DEF Factory
  <2>3. s.hasErr = facs[n].allowsErr
    <3>1. s.hasErr <=> facs[n].allowsErr
      BY <1>1, <2>1, OwnPlaceholder
    <3>2. s.hasErr \in BOOLEAN /\ facs[n].allowsErr \in BOOLEAN
      BY <1>2, <2>2 DEF SubconvRec, Factory
    <3>3. QED
      BY <3>1, <3>2
  <2>4. AsFn(s) = fn
    BY <1>2, <2>1, <2>3 DEF AsFn
  <2>5. QED
    BY <1>5, <2>1, <2>4
<1> HIDE DEF fr, fn, n, g, m, C
<1>13. OnLine(facs') /\ ErrorsFromRoot(facs')
  BY <1>3, <1>9 DEF Linked, OnLine, ErrorsFromRoot, n
<1>14. \A f \in 1 .. n - 1 : \A s \in facs'[f].new :
         s \in facs[f].new \/ (f = g /\ s \in C)
  BY <1>3, <1>4
<1>15. NewFresh(facs', ns')
  <2>1. ASSUME NEW c \in C
        PROVE  Fresh(c, ns)
    <3>1. PICK s \in facs[n].new : c.name = s.name /\ c.pair = s.pair
      BY <1>5
    <3>2. Fresh(s, ns)
      BY <1>9, <3>1 DEF Linked, NewFresh, n
    <3>3. QED
      BY <3>1, <3>2 DEF Fresh
  <2>2. \A f \in 1 .. n - 1 : \A s \in facs[f].new : Fresh(s, ns)
    BY <1>9 DEF Linked, NewFresh, n
  <2>3. QED
    BY <1>1, <1>3, <1>14, <2>1, <2>2 DEF NewFresh
<1>16. NewDistinct(facs')
  <2>1. ASSUME NEW c \in C, NEW f \in 1 .. n - 1, NEW t \in facs[f].new
        PROVE  c.name # t.name
    <3>1. PICK s \in facs[n].new : c.name = s.name
      BY <1>5
    <3>2. s.name = t.name => f = n
      BY <1>9, <3>1 DEF Linked, NewDistinct, n
    <3>3. QED
      BY <1>9, <3>1, <3>2
  <2>2. ASSUME NEW f \in 1 .. n - 1, NEW h \in 1 .. n - 1,
               NEW s \in facs'[f].new, NEW t \in facs'[h].new, s.name = t.name
        PROVE  f = h /\ s = t
    <3>1. CASE s \in facs[f].new /\ t \in facs[h].new
      BY <1>9, <2>2, <3>1 DEF Linked, NewDistinct, n
    <3>2. CASE (f = g /\ s \in C) /\ (h = g /\ t \in C)
      BY <1>5, <2>2, <3>2
    <3>3. CASE (f = g /\ s \in C) /\ t \in facs[h].new
      BY <2>1, <2>2, <3>3
    <3>4. CASE s \in facs[f].new /\ (h = g /\ t \in C)
      BY <2>1, <2>2, <3>4
    <3>5. QED
      BY <1>14, <2>2, <3>1, <3>2, <3>3, <3>4
  <2>3. ASSUME NEW f \in 1 .. n - 1, NEW s \in facs'[f].new, NEW t \in facs'[f].new,
               s.pair = t.pair
        PROVE  s = t
    <3>1. g \in facs[g].line
      BY <1>9 DEF Linked, OnLine, n
    <3>2. \A c \in C, u \in facs[g].new : c.pair # u.pair
      BY <1>4, <3>1
    <3>3. CASE s \in facs[f].new /\ t \in facs[f].new
      BY <1>9, <2>3, <3>3 DEF Linked, NewDistinct, n
    <3>4. CASE f = g /\ s \in C /\ t \in C
      BY <1>5, <2>3, <3>4
    <3>5. QED
      BY <1>14, <2>3, <3>2, <3>3, <3>4
  <2>4. QED
    BY <1>3, <2>2, <2>3 DEF NewDistinct
<1>17. NewResolve(facs')
  <2>1. ASSUME NEW f \in 1 .. n - 1, NEW s \in facs'[f].new, s.done
        PROVE  CallsFound(facs', f, s.calls)
    <3>1. CASE s \in facs[f].new
      BY <1>9, <1>10, <2>1, <3>1 DEF Linked, NewResolve, n
    <3>2. CASE f = g /\ s \in C
      <4>1. CASE s.pair = Top.pair
        <5>1. s.calls = Top.calls
          BY <1>5, <3>2, <4>1
        <5>2. QED
          BY <1>10, <1>11, <3>2, <5>1
      <4>2. CASE s.pair # Top.pair
        <5>1. s \in facs[n].new
          BY <1>5, <3>2, <4>2
        <5>2. CallsFound(facs, n, s.calls)
          BY <1>9, <2>1, <5>1 DEF Linked, NewResolve, n
        <5>3. QED
          BY <1>10, <3>2, <5>2
      <4>3. QED
        BY <4>1, <4>2
    <3>3. QED
      BY <1>14, <2>1, <3>1, <3>2
  <2>2. QED
    BY <1>3, <2>1 DEF NewResolve
<1>18. CallsFound(facs', g, fr.calls)
  <2>1. g \in 1 .. n - 1
    BY <1>2 DEF g, n
  <2>2. CallsFound(facs', g, Caller.calls)
    BY <1>10, <1>11, <2>1
  <2>3. PICK c \in C : AsFn(c) = fn
    BY <1>12
  <2>4. c \in Visible(facs', g)
    <3>1. g \in facs'[g].line
      BY <1>3, <1>9, <2>1 DEF Linked, OnLine, n
    <3>2. QED
      BY <1>4, <2>3, <3>1 DEF Visible
  <2>5. QED
    BY <1>7, <2>2, <2>3, <2>4 DEF CallsFound
<1>19. ByHand(fr.todo)
  BY <1>2, <1>7, <1>11, TailByHand DEF Frame
<1>20. ASSUME NEW k \in 1 .. m - 1
       PROVE  /\ facs'[frames[k].fac].line = facs[frames[k].fac].line
              /\ \A h \in facs[frames[k].fac].line : \A s \in facs[h].new :
                   \E t \in facs'[h].new : AsFn(t) = AsFn(s)
              /\ Titled(frames, facs, k) => Titled(frames, facs', k)
  <2>1. frames[k].fac \in 1 .. n - 1
    BY <1>8
  <2>2. \A h \in 1 .. n - 1 : facs[h].new \subseteq facs'[h].new
    BY <1>3, <1>4
  <2>3. \A h \in facs[frames[k].fac].line : \A s \in facs[h].new :
          \E t \in facs'[h].new : AsFn(t) = AsFn(s)
    BY <1>9, <2>1, <2>2
  <2>4. ASSUME frames[k].kind = "try", Titled(frames, facs, k),
               NEW s \in facs'[frames[k].fac].new, s.pair = frames[k].pair
        PROVE  s.name = frames[k].name
    <3>1. CASE s \in facs[frames[k].fac].new
      BY <2>4, <3>1 DEF Titled
    <3>2. CASE frames[k].fac = g /\ s \in C
      <4>1. PICK t \in facs[g].new : t.pair = frames[k].pair
        BY <1>8, <2>4, <3>2 DEF Sound, SafeFrames, FrameSafe, Holding, m
      <4>2. g \in facs[g].line
        BY <1>9 DEF Linked, OnLine, n
      <4>3. QED
        BY <1>4, <2>4, <3>2, <4>1, <4>2
    <3>3. QED
      BY <1>14, <2>1, <2>4, <3>1, <3>2
  <2>5. QED
    BY <1>3, <2>1, <2>3, <2>4 DEF Titled
<1>21. /\ Len(frames') = m - 1 /\ frames'[m - 1] = fr
       /\ \A k \in 1 .. m - 1 : k # m - 1 => frames'[k] = frames[k]
  <2>1. frames' = Append(Pop(Pop(frames)), fr)
    BY <1>1 DEF ReturnToCaller
  <2>2. frames \in Seq(Frame) /\ frames # <<>> /\ fr \in Frame
    BY <1>2, <1>7, <1>8, RunningFacts DEF m
  <2>3. /\ Pop(frames) \in Seq(Frame) /\ Len(Pop(frames)) = m - 1
        /\ \A i \in 1 .. m - 1 : Pop(frames)[i] = frames[i]
    BY <2>2, PopSeq DEF m
  <2>4. Pop(frames) # <<>>
    BY <1>8, <2>3
  <2>5. /\ Pop(Pop(frames)) \in Seq(Frame) /\ Len(Pop(Pop(frames))) = m - 2
        /\ \A i \in 1 .. m - 2 : Pop(Pop(frames))[i] = frames[i]
    BY <1>8, <2>3, <2>4, PopSeq
  <2>6. /\ Len(frames') = m - 1 /\ frames'[m - 1] = fr
        /\ \A i \in 1 .. m - 2 : frames'[i] = frames[i]
    BY <1>8, <2>1, <2>2, <2>5, AppendSeq
  <2>7. \A k \in 1 .. m - 1 : k # m - 1 => k \in 1 .. m - 2
    BY <1>8
  <2>8. QED
    BY <2>6, <2>7
<1>22. ASSUME NEW k \in 1 .. m - 1, Doomed(frames, k)
       PROVE  Doomed(frames', k)
  <2>1. PICK r \in k .. m : frames[r].err \/ (r # k /\ frames[r].kind = "rerun")
    BY <1>22 DEF Doomed, m
  <2>2. r # m
    BY <1>2, <1>4, <1>8, <2>1
  <2>3. r \in k .. m - 1 /\ r \in 1 .. m - 1
    BY <1>8, <2>1, <2>2
  <2>4. frames'[r].err = frames[r].err /\ frames'[r].kind = frames[r].kind
    BY <1>7, <1>8, <1>21, <2>3
  <2>5. QED
    BY <1>21, <2>1, <2>3, <2>4 DEF Doomed
<1>23. ASSUME NEW k \in 1 .. m - 1, frames[k].kind = "try", facs[1].allowsErr \/ ~Doomed(frames', k)
       PROVE  /\ facs[1].allowsErr \/ ~Doomed(frames, k)
              /\ Alone(facs, frames[k].fac) => Alone(facs', frames[k].fac)
  <2>1. facs[1].allowsErr \/ ~Doomed(frames, k)
    BY <1>22, <1>23
  <2>2. frames'[Len(frames) - 1].kind = Caller.kind /\ Len(frames') = Len(frames) - 1
    BY <1>7, <1>21 DEF m
  <2>3. k \in 1 .. Len(frames) - 1
    BY DEF m
  <2>4. Alone(facs, frames[k].fac) => Alone(facs', frames[k].fac)
    BY <1>23, <2>2, <2>3, JoinApart
  <2>5. QED
    BY <2>1, <2>4
<1>24. facs'[1].allowsErr = facs[1].allowsErr
  BY <1>3, <1>9
<1>25. QED
  BY <1>1, <1>2, <1>7, <1>13, <1>15, <1>16, <1>17, <1>18, <1>19, <1>20, <1>23, <1>24,
     CallerLinked DEF g, m

-----------------------------------------------------------------------------
LEMMA BeginInjectorLinked ==
  ASSUME Typed, Linked, BeginInjector
  PROVE  Linked'
<1> DEFINE fr  == TryStruct("explicit", 1, Inj.hasErr, Inj.pair, Inj.name,
                            Inj.shape[Inj.pair])
           fac == [allowsErr |-> Inj.hasErr, line |-> {1}, new |-> {}]
<1>1. frames' = <<fr>> /\ facs' = <<fac>> /\ UNCHANGED <<prog, cur, subconvs, convs>> /\ ns' = ns
  BY DEF BeginInjector
<1>2. fr.kind = "explicit" /\ fr.calls = {} /\ fr.fac = 1 /\ fr.todo = Inj.shape[Inj.pair]
  BY DEF TryStruct
<1>3. fac.new = {} /\ fac.line = {1}
  OBVIOUS
<1>4. ByHand(Inj.shape[Inj.pair])
  <2>1. prog \in Program /\ prog.injs \in Seq(Injector) /\ cur \in DOMAIN prog.injs
    BY DEF BeginInjector, Typed, TypeOK, Program
  <2>2. Inj.pair \in Pairs
    <3>1. Inj \in Injector
      BY <2>1 DEF Inj
    <3>2. QED
      BY <3>1 DEF Injector
  <2>3. QED
    BY <2>1, <2>2, ShapeByHand
<1> HIDE DEF fr, fac
<1>5. /\ Len(frames') = 1 /\ frames'[1] = fr /\ Len(facs') = 1 /\ facs'[1] = fac
      /\ \A i \in 1 .. 1 : i = 1
  BY <1>1
<1>6. OnLine(facs') /\ ErrorsFromRoot(facs')
  BY <1>3, <1>5 DEF OnLine, ErrorsFromRoot
<1>7. NewFresh(facs', ns') /\ NewDistinct(facs') /\ NewResolve(facs')
  BY <1>3, <1>5 DEF NewFresh, NewDistinct, NewResolve
<1>8. FramesResolve(frames', facs')
  BY <1>2, <1>4, <1>5 DEF FramesResolve, CallsFound
<1>9. FrameLinked(frames', facs', 1)
  BY <1>2, <1>5 DEF FrameLinked, LineOf, Apart, Titled
<1>10. \A k \in 1 .. Len(frames') : FrameLinked(frames', facs', k)
  BY <1>5, <1>9
<1>11. ns \subseteq ns'
  BY <1>1
<1>12. QED
  BY <1>1, <1>6, <1>7, <1>8, <1>10, <1>11, StillLinked

(* No factory and no frame: what is said of them holds. *)
LEMMA NothingLinked ==
  ASSUME facs' = <<>>, frames' = <<>>, CallsResolve', ExportsDistinct'
  PROVE  Linked'
<1>1. Len(facs') = 0 /\ Len(frames') = 0
  OBVIOUS
<1>2. QED
  BY <1>1 DEF Linked, OnLine, NewFresh, NewDistinct, ErrorsFromRoot, NewResolve, FramesResolve

(* An injector that is built hands over what its own factory holds: all of   *)
(* it complete, under names and pairs that are new.                          *)
LEMMA ExportFacts ==
  ASSUME Typed, Sound, Linked, EndInjector, ~Top.err
  PROVE  /\ \A m \in Mods : subconvs'[m] =
              IF m = Inj.mod THEN subconvs[m] \cup facs[1].new ELSE subconvs[m]
         /\ convs' = convs \cup {[inj |-> cur, name |-> Inj.name, hasErr |-> Inj.hasErr,
                                  calls |-> Top.calls]}
         /\ \A s \in facs[1].new : /\ s.done /\ Fresh(s, ns)
                                   /\ CallsFound(facs, 1, s.calls)
         /\ CallsFound(facs, 1, Top.calls)
         /\ \A s, t \in facs[1].new : s.name = t.name \/ s.pair = t.pair => s = t
         /\ Visible(facs, 1) = subconvs[Inj.mod] \cup facs[1].new
         /\ Inj.mod \in Mods /\ cur \in DOMAIN prog.injs
<1>1. status = "building" /\ Top.kind = "explicit"
  BY DEF EndInjector
<1>2. /\ SafeRoot(Top, facs[1]) /\ 1 \in 1 .. Len(facs)
      /\ cur \in DOMAIN prog.injs /\ Inj.mod \in Mods
  BY <1>1, RootFacts, RunningFacts DEF Injector
<1>3. \A m \in Mods : subconvs'[m] =
        IF m = Inj.mod THEN subconvs[m] \cup facs[1].new ELSE subconvs[m]
  BY DEF EndInjector, Typed, TypeOK
<1>4. /\ Top.fac = 1 /\ facs[1].line = {1}
  <2>1. /\ frames \in Seq(Frame) /\ Len(frames) \in Nat /\ Len(frames) >= 1
        /\ Top = frames[Len(frames)] /\ Nesting(frames, Len(facs)) /\ facs[1].line \subseteq 1 .. 1
        /\ frames[1].fac = 1
    BY <1>1, <1>2, RunningFacts
  <2>2. Len(frames) \in 1 .. Len(frames)
    BY <2>1
  <2>3. Len(frames) = 1
    BY <1>1, <2>1, <2>2 DEF Nesting, FramesFit
  <2>4. 1 \in facs[1].line
    BY <1>2 DEF Linked, OnLine
  <2>5. \A i \in 1 .. 1 : i = 1
    OBVIOUS
  <2>6. QED
    BY <2>1, <2>3, <2>4, <2>5
<1>5. Visible(facs, 1) = subconvs[Inj.mod] \cup facs[1].new
  BY <1>4 DEF Visible
<1>6. CallsFound(facs, 1, Top.calls)
  BY <1>1, <1>4, TopLinked
<1>7. \A s \in facs[1].new : s.done /\ Fresh(s, ns) /\ CallsFound(facs, 1, s.calls)
  BY <1>2 DEF SafeRoot, Linked, NewFresh, NewResolve
<1>8. \A s, t \in facs[1].new : s.name = t.name \/ s.pair = t.pair => s = t
  BY <1>2 DEF Linked, NewDistinct
<1>9. convs' = convs \cup {[inj |-> cur, name |-> Inj.name, hasErr |-> Inj.hasErr,
                            calls |-> Top.calls]}
  BY DEF EndInjector
<1>10. QED
  BY <1>2, <1>3, <1>5, <1>6, <1>7, <1>8, <1>9

LEMMA ConvsKept ==
  ASSUME Typed, Linked, EndInjector
  PROVE  ConvsNamed'
<1> DEFINE c0 == [inj |-> cur, name |-> Inj.name, hasErr |-> Inj.hasErr, calls |-> Top.calls]
<1>1. /\ cur' = cur + 1 /\ prog' = prog /\ cur \in Nat
      /\ convs' = convs \/ convs' = convs \cup {c0}
      /\ cur >= 1
  BY DEF EndInjector, Typed, TypeOK
<1>2. /\ c0.inj = cur /\ c0.name = prog.injs[cur].name /\ c0.hasErr = prog.injs[cur].hasErr
  BY DEF Inj
<1> HIDE DEF c0
<1>3. \A c \in convs : c.inj \in 1 .. cur - 1 /\ c.inj \in 1 .. (cur + 1) - 1 /\ c.inj # cur
  BY <1>1 DEF Linked, ExportsDistinct, ConvsNamed
<1>4. c0.inj \in 1 .. (cur + 1) - 1
  BY <1>1, <1>2
<1>5. ASSUME NEW c \in convs'
      PROVE  /\ c.inj \in 1 .. cur' - 1
             /\ c.name = prog.injs[c.inj].name /\ c.hasErr = prog.injs[c.inj].hasErr
             /\ \A d \in convs' : c.inj = d.inj => c = d
  <2>1. CASE c \in convs
    BY <1>1, <1>2, <1>3, <2>1 DEF Linked, ExportsDistinct, ConvsNamed
  <2>2. CASE c = c0
    BY <1>1, <1>2, <1>3, <1>4, <2>2
  <2>3. QED
    BY <1>1, <1>5, <2>1, <2>2
<1>6. QED
  BY <1>1, <1>5 DEF ConvsNamed

LEMMA EndInjectorLinked ==
  ASSUME Typed, Sound, Linked, EndInjector
  PROVE  Linked'
<1>1. facs' = <<>> /\ frames' = <<>> /\ prog' = prog /\ ns' = ns
  BY DEF EndInjector
<1>2. ConvsNamed'
  BY ConvsKept
<1>3. CASE Top.err
  <2>1. subconvs' = subconvs /\ convs' = convs
    BY <1>3 DEF EndInjector
  <2>2. CallsResolve' /\ NamesAreUnique'
    BY <1>1, <2>1 DEF Linked, CallsResolve, ExportsDistinct, NamesAreUnique
  <2>3. ExportsDistinct'
    BY <1>1, <1>2, <2>1, <2>2 DEF Linked, ExportsDistinct
  <2>4. QED
    BY <1>1, <2>2, <2>3, NothingLinked
<1>4. CASE ~Top.err
  <2> DEFINE M   == Inj.mod
             new == facs[1].new
             c0  == [inj |-> cur, name |-> Inj.name, hasErr |-> Inj.hasErr,
                     calls |-> Top.calls]
  <2>1. /\ \A m \in Mods : subconvs'[m] = IF m = M THEN subconvs[m] \cup new ELSE subconvs[m]
        /\ convs' = convs \cup {c0} /\ M \in Mods
        /\ \A s \in new : s.done /\ Fresh(s, ns) /\ CallsFound(facs, 1, s.calls)
        /\ \A s, t \in new : s.name = t.name \/ s.pair = t.pair => s = t
        /\ CallsFound(facs, 1, Top.calls)
        /\ Visible(facs, 1) = subconvs'[M]
    BY <1>4, ExportFacts
  <2>2. prog.injs[c0.inj].mod = M /\ c0.calls = Top.calls
    BY DEF Inj
  <2>3. \A m \in Mods : \A s \in subconvs'[m] : s \in subconvs[m] \/ (m = M /\ s \in new)
    BY <2>1
  <2>4. \A m \in Mods : subconvs[m] \subseteq subconvs'[m]
    BY <2>1
  <2>5. \A s \in new : /\ s.name \in ns /\ s.name \notin prog.reserved
                       /\ \A m \in Mods : \A t \in subconvs[m] : t.name # s.name
                       /\ \A t \in subconvs[M] : t.pair # s.pair
    BY <2>1 DEF Fresh
  <2>6. \A c \in convs : prog.injs[c.inj].mod \in Mods
    <3>1. ASSUME NEW c \in convs
          PROVE  prog.injs[c.inj].mod \in Mods
      <4>1. /\ prog.injs \in Seq(Injector) /\ cur \in 1 .. Len(prog.injs) + 1
        BY DEF Typed, TypeOK, Program
      <4>2. c.inj \in 1 .. cur - 1
        BY DEF Linked, ExportsDistinct, ConvsNamed
      <4>3. c.inj \in 1 .. Len(prog.injs)
        BY <4>1, <4>2
      <4>4. prog.injs[c.inj] \in Injector
        BY <4>1, <4>3
      <4>5. QED
        BY <4>4 DEF Injector
    <3>2. QED
      BY <3>1
  <2> HIDE DEF M, new, c0
  <2>7. CallsResolve'
    <3>1. ASSUME NEW m \in Mods, NEW s \in subconvs'[m]
          PROVE  /\ s.done
                 /\ s.calls \subseteq prog.written \cup {AsFn(t) : t \in subconvs'[m]}
      <4>1. CASE s \in subconvs[m]
        BY <2>4, <3>1, <4>1 DEF Linked, CallsResolve
      <4>2. CASE m = M /\ s \in new
        BY <2>1, <4>2 DEF CallsFound
      <4>3. QED
        BY <2>3, <3>1, <4>1, <4>2
    <3>2. ASSUME NEW c \in convs'
          PROVE  c.calls \subseteq prog.written
                                   \cup {AsFn(t) : t \in subconvs'[prog.injs[c.inj].mod]}
      <4>1. CASE c \in convs
        <5>1. subconvs[prog.injs[c.inj].mod] \subseteq subconvs'[prog.injs[c.inj].mod]
          BY <2>4, <2>6, <4>1
        <5>2. c.calls \subseteq prog.written
                                \cup {AsFn(t) : t \in subconvs[prog.injs[c.inj].mod]}
          BY <4>1 DEF Linked, CallsResolve
        <5>3. QED
          BY <5>1, <5>2
      <4>2. CASE c = c0
        BY <2>1, <2>2, <4>2 DEF CallsFound
      <4>3. QED
        BY <2>1, <3>2, <4>1, <4>2
    <3>3. QED
      BY <1>1, <3>1, <3>2 DEF CallsResolve
  <2>8. \A m \in Mods : \A s \in subconvs'[m] : s.name \in ns \ prog.reserved
    BY <2>3, <2>5 DEF Linked, ExportsDistinct
  <2>9. ASSUME NEW m \in Mods, NEW k \in Mods, NEW s \in subconvs'[m], NEW t \in subconvs'[k]
        PROVE  /\ s.name = t.name => m = k /\ s = t
               /\ m = k /\ s.pair = t.pair => s = t
    <3>1. CASE s \in subconvs[m] /\ t \in subconvs[k]
      BY <3>1 DEF Linked, ExportsDistinct, NamesAreUnique
    <3>2. CASE (m = M /\ s \in new) /\ t \in subconvs[k]
      BY <2>5, <3>2
    <3>3. CASE s \in subconvs[m] /\ (k = M /\ t \in new)
      BY <2>5, <3>3
    <3>4. CASE (m = M /\ s \in new) /\ (k = M /\ t \in new)
      BY <2>1, <3>4
    <3>5. QED
      BY <2>3, <2>9, <3>1, <3>2, <3>3, <3>4
  <2>10. NamesAreUnique'
    BY <1>1, <2>8, <2>9 DEF NamesAreUnique
  <2>11. ExportsDistinct'
    BY <1>1, <1>2, <2>8, <2>10 DEF Linked, ExportsDistinct
  <2>12. QED
    BY <1>1, <2>7, <2>11, NothingLinked
<1>5. QED
  BY <1>3, <1>4

LEMMA StatusLinked ==
  ASSUME Typed, Linked, EndBuild \/ Overflow \/ Panic \/ UNCHANGED vars
  PROVE  Linked'
<1>1. UNCHANGED <<prog, cur, ns, subconvs, convs, facs, frames>>
  BY DEF EndBuild, Overflow, Panic, vars
<1>2. /\ OnLine(facs') /\ NewFresh(facs', ns') /\ NewDistinct(facs') /\ ErrorsFromRoot(facs')
      /\ NewResolve(facs') /\ FramesResolve(frames', facs')
      /\ \A k \in 1 .. Len(frames') : FrameLinked(frames', facs', k)
  BY <1>1 DEF Linked
<1>3. UNCHANGED <<prog, cur, subconvs, convs>> /\ ns \subseteq ns'
  BY <1>1
<1>4. QED
  BY <1>2, <1>3, StillLinked

LEMMA InitLinked ==
  ASSUME Init
  PROVE  Linked
<1>1. Len(facs) = 0 /\ Len(frames) = 0
  BY DEF Init
<1>2. /\ OnLine(facs) /\ NewFresh(facs, ns) /\ NewDistinct(facs) /\ ErrorsFromRoot(facs)
      /\ NewResolve(facs) /\ FramesResolve(frames, facs)
      /\ \A k \in 1 .. Len(frames) : FrameLinked(frames, facs, k)
  BY <1>1 DEF OnLine, NewFresh, NewDistinct, ErrorsFromRoot, NewResolve, FramesResolve
<1>3. CallsResolve
  BY DEF Init, CallsResolve
<1>4. ExportsDistinct
  BY DEF Init, ExportsDistinct, NamesAreUnique, ConvsNamed
<1>5. QED
  BY <1>2, <1>3, <1>4 DEF Linked

LEMMA NextLinked ==
  ASSUME Typed, Sound, Linked, [Next]_vars
  PROVE  Linked'
<1>1. CASE BeginInjector
  BY <1>1, BeginInjectorLinked
<1>2. CASE EndInjector
  BY <1>2, EndInjectorLinked
<1>3. CASE EndBuild \/ Overflow \/ Panic \/ UNCHANGED vars
  BY <1>3, StatusLinked
<1>4. CASE TryMatchFunc \/ TryModuleFunc
  BY <1>4, FuncLinked
<1>5. CASE TrySubconvFunc
  BY <1>5, TrySubconvFuncLinked
<1>6. CASE Rerun
  BY <1>6, RerunLinked
<1>7. CASE TrySubconv
  BY <1>7, TrySubconvLinked
<1>8. CASE Unconvertible
  BY <1>8, UnconvertibleLinked
<1>9. CASE Commit
  BY <1>9, CommitLinked
<1>10. CASE Retry
  BY <1>10, RetryLinked
<1>11. CASE GiveUp
  BY <1>11, GiveUpLinked
<1>12. CASE ReportRerun
  BY <1>12, ReportRerunLinked
<1>13. QED
  BY <1>1, <1>2, <1>3, <1>4, <1>5, <1>6, <1>7, <1>8, <1>9, <1>10, <1>11, <1>12
  DEF Next, Build, Stopped

LEMMA AlwaysLinked == Spec => [](Typed /\ Sound /\ Linked)
<1>1. Init => Typed /\ Sound /\ Linked
  BY InitTyped, InitSound, InitLinked
<1>2. Typed /\ Sound /\ Linked /\ [Next]_vars => Typed' /\ Sound' /\ Linked'
  BY NextTyped, NextSound, NextLinked
<1>3. QED
  BY <1>1, <1>2, PTL DEF Spec

(* Whatever the package and however attempts fail and are retried: a         *)
(* function that Generate emits only calls functions written by hand or      *)
(* emitted complete for the same module, with the error return expected.     *)
THEOREM EveryCallResolves == Spec => []CallsResolve
<1>1. Linked => CallsResolve
  BY DEF Linked
<1>2. QED
  BY <1>1, AlwaysLinked, PTL

(* No two functions of a package ever share a name, and no module has two    *)
(* subconverters for one pair, however many forks took names and failed.     *)
THEOREM NamesNeverClash == Spec => []NamesAreUnique
<1>1. Linked => NamesAreUnique
  BY DEF Linked, ExportsDistinct
<1>2. QED
  BY <1>1, AlwaysLinked, PTL

-----------------------------------------------------------------------------
(* The refinement: what has been generated, as Converters sees it.           *)
OfConv(c) == [name |-> c.name, hasErr |-> c.hasErr, calls |-> c.calls]

LEMMA EmittedIs ==
  ASSUME NEW f
  PROVE  f \in Emitted <=> \/ \E c \in convs : f = OfConv(c)
                           \/ \E m \in Mods : \E s \in subconvs[m] : f = OfConv(s)
BY DEF Emitted, OfConv

LEMMA OfConvFields ==
  ASSUME NEW c
  PROVE  /\ OfConv(c).name = c.name /\ OfConv(c).hasErr = c.hasErr
         /\ OfConv(c).calls = c.calls /\ Promised!Signature(OfConv(c)) = AsFn(c)
BY DEF OfConv, Promised!Signature, AsFn

(* A converter has a name of the package scope, its own. *)
LEMMA ConvNames ==
  ASSUME Typed, Linked, NEW c \in convs
  PROVE  /\ c.inj \in DOMAIN prog.injs /\ c.inj < cur /\ c.name \in prog.reserved
         /\ prog.injs[c.inj].mod \in Mods
         /\ \A d \in convs : c.name = d.name => c = d
         /\ cur \in DOMAIN prog.injs => c.name # Inj.name
<1>1. prog \in Programs /\ prog.injs \in Seq(Injector) /\ cur \in 1 .. Len(prog.injs) + 1
  BY DEF Typed, TypeOK, Nested, Program
<1>2. \A d \in convs : d.inj \in DOMAIN prog.injs /\ d.inj < cur /\ d.name = prog.injs[d.inj].name
  <2>1. \A d \in convs : d.inj \in 1 .. cur - 1 /\ d.name = prog.injs[d.inj].name
    BY DEF Linked, ExportsDistinct, ConvsNamed
  <2>2. QED
    BY <1>1, <2>1
<1>3. /\ \A i \in DOMAIN prog.injs : prog.injs[i].name \in prog.reserved
      /\ \A i, j \in DOMAIN prog.injs : prog.injs[i].name = prog.injs[j].name => i = j
  BY <1>1, NamesAssumption
<1>4. ASSUME NEW d \in convs, c.name = d.name
      PROVE  c = d
  <2>1. c.inj = d.inj
    BY <1>2, <1>3, <1>4
  <2>2. QED
    BY <2>1 DEF Linked, ExportsDistinct, ConvsNamed
<1>5. ASSUME cur \in DOMAIN prog.injs, c.name = Inj.name
      PROVE  FALSE
  <2>1. c.inj = cur
    BY <1>2, <1>3, <1>5 DEF Inj
  <2>2. QED
    BY <1>1, <1>2, <2>1
<1>6. prog.injs[c.inj] \in Injector
  BY <1>1, <1>2
<1>7. QED
  BY <1>2, <1>3, <1>4, <1>5, <1>6 DEF Injector

LEMMA EmittedPromise ==
  ASSUME Typed, Sound, Linked
  PROVE  Promised!Promise
<1>1. Promised!Linked(Emitted)
  <2>1. ASSUME NEW m \in Mods, NEW calls,
               calls \subseteq prog.written \cup {AsFn(t) : t \in subconvs[m]}, NEW fn \in calls
        PROVE  fn \in Package.written \/ \E g \in Emitted : Promised!Signature(g) = fn
    <3>1. CASE fn \in prog.written
      BY <3>1 DEF Package
    <3>2. CASE \E t \in subconvs[m] : fn = AsFn(t)
      <4>1. PICK t \in subconvs[m] : fn = AsFn(t)
        BY <3>2
      <4>2. OfConv(t) \in Emitted /\ Promised!Signature(OfConv(t)) = fn
        BY <4>1, EmittedIs, OfConvFields
      <4>3. QED
        BY <4>2
    <3>3. QED
      BY <2>1, <3>1, <3>2
  <2>2. ASSUME NEW f \in Emitted, NEW fn \in f.calls
        PROVE  fn \in Package.written \/ \E g \in Emitted : Promised!Signature(g) = fn
    <3>1. CASE \E c \in convs : f = OfConv(c)
      <4>1. PICK c \in convs : f = OfConv(c)
        BY <3>1
      <4>2. prog.injs[c.inj].mod \in Mods /\ f.calls = c.calls
        BY <4>1, ConvNames, OfConvFields
      <4>3. c.calls \subseteq prog.written \cup {AsFn(t) : t \in subconvs[prog.injs[c.inj].mod]}
        BY <4>1 DEF Linked, CallsResolve
      <4>4. QED
        BY <2>1, <2>2, <4>2, <4>3
    <3>2. CASE \E m \in Mods : \E s \in subconvs[m] : f = OfConv(s)
      <4>1. PICK m \in Mods : \E s \in subconvs[m] : f = OfConv(s)
        BY <3>2
      <4>2. PICK s \in subconvs[m] : f = OfConv(s)
        BY <4>1
      <4>3. f.calls = s.calls
        BY <4>2, OfConvFields
      <4>4. s.calls \subseteq prog.written \cup {AsFn(t) : t \in subconvs[m]}
        BY DEF Linked, CallsResolve
      <4>5. QED
        BY <2>1, <2>2, <4>3, <4>4
    <3>3. QED
      BY <3>1, <3>2, EmittedIs
  <2>3. QED
    BY <2>2 DEF Promised!Linked
<1>2. Promised!ErrorSafe(Emitted)
  <2>1. ASSUME NEW f \in Emitted
        PROVE  f.hasErr \/ \A fn \in f.calls : ~fn.hasErr
    <3>1. CASE \E c \in convs : f = OfConv(c)
      BY <3>1, OfConvFields DEF Sound, SafeConvs
    <3>2. CASE \E m \in Mods : \E s \in subconvs[m] : f = OfConv(s)
      BY <3>2, OfConvFields DEF Sound, SafeExports, SafeFn
    <3>3. QED
      BY <3>1, <3>2, EmittedIs
  <2>2. QED
    BY <2>1 DEF Promised!ErrorSafe
<1>3. Promised!NamedApart(Emitted)
  <2>1. ASSUME NEW f \in Emitted, NEW g \in Emitted, f.name = g.name
        PROVE  f = g
    <3>1. CASE (\E c \in convs : f = OfConv(c)) /\ \E d \in convs : g = OfConv(d)
      BY <2>1, <3>1, ConvNames, OfConvFields
    <3>2. CASE \E m \in Mods : \E s \in subconvs[m] : f = OfConv(s) \/ g = OfConv(s)
      <4>1. \A c \in convs, m \in Mods : \A s \in subconvs[m] : c.name # s.name
        BY ConvNames DEF Linked, ExportsDistinct
      <4>2. CASE \E m \in Mods, k \in Mods :
                   \E s \in subconvs[m], t \in subconvs[k] : f = OfConv(s) /\ g = OfConv(t)
        BY <2>1, <4>2, OfConvFields DEF Linked, ExportsDistinct, NamesAreUnique
      <4>3. QED
        BY <2>1, <3>2, <4>1, <4>2, EmittedIs, OfConvFields
    <3>3. QED
      BY <2>1, <3>1, <3>2, EmittedIs
  <2>2. QED
    BY <2>1 DEF Promised!NamedApart
<1>4. QED
  BY <1>1, <1>2, <1>3 DEF Promised!Promise

LEMMA InitPromised ==
  ASSUME Init
  PROVE  Promised!AInit
<1>1. prog \in Program
  BY ProgramsAssumption DEF Init
<1>2. prog.reserved \subseteq Name
  BY <1>1 DEF Program
<1>3. Emitted = {}
  BY EmittedIs DEF Init
<1>4. QED
  BY <1>2, <1>3 DEF Promised!AInit, Init, Package

LEMMA PackageFacts ==
  ASSUME Typed
  PROVE  /\ Len(Package.directives) = Len(prog.injs)
         /\ cur \in DOMAIN prog.injs => Package.directives[cur] = AsFn(Inj)
         /\ Package.taken = prog.reserved
<1>1. prog.injs \in Seq(Injector) /\ Len(prog.injs) \in Nat /\ DOMAIN prog.injs = 1 .. Len(prog.injs)
  BY DEF Typed, TypeOK, Program
<1> DEFINE ds == [i \in DOMAIN prog.injs |-> AsFn(prog.injs[i])]
<1>2. Len(ds) = Len(prog.injs)
  BY <1>1
<1>3. cur \in DOMAIN prog.injs => ds[cur] = AsFn(Inj)
  BY DEF Inj
<1>4. Package.directives = ds
  BY DEF Package
<1> HIDE DEF ds
<1>5. QED
  BY <1>2, <1>3, <1>4 DEF Package

(* An injector that is built is a directive converted. *)
LEMMA ConvertPromised ==
  ASSUME Typed, Sound, Linked, Promised!Promise', EndInjector, ~Top.err
  PROVE  Promised!Convert
<1> DEFINE c0 == [inj |-> cur, name |-> Inj.name, hasErr |-> Inj.hasErr, calls |-> Top.calls]
<1>1. /\ prog' = prog /\ cur' = cur + 1 /\ status = "building" /\ status' = "idle"
      /\ failed' = failed
  BY DEF EndInjector
<1>2. /\ \A m \in Mods : subconvs'[m] =
           IF m = Inj.mod THEN subconvs[m] \cup facs[1].new ELSE subconvs[m]
      /\ convs' = convs \cup {c0} /\ cur \in DOMAIN prog.injs
      /\ \A s \in facs[1].new : Fresh(s, ns)
  BY ExportFacts
<1>3. c0.name = Inj.name /\ AsFn(c0) = AsFn(Inj)
  BY DEF AsFn
<1> HIDE DEF c0
<1>4. \A f : f \in Emitted' <=> \/ \E c \in convs' : f = OfConv(c)
                                \/ \E m \in Mods : \E s \in subconvs'[m] : f = OfConv(s)
  BY DEF Emitted, OfConv
<1>5. Emitted \subseteq Emitted'
  <2>1. convs \subseteq convs' /\ \A m \in Mods : subconvs[m] \subseteq subconvs'[m]
    BY <1>2
  <2>2. QED
    BY <1>4, <2>1, EmittedIs
<1>6. OfConv(c0) \in Emitted' /\ OfConv(c0) \notin Emitted
  <2>1. OfConv(c0).name = Inj.name
    BY <1>3, OfConvFields
  <2>2. \A c \in convs : OfConv(c) # OfConv(c0)
    BY <1>2, <2>1, ConvNames, OfConvFields
  <2>3. Inj.name \in prog.reserved
    BY <1>2, NamesAssumption DEF Inj, Typed, Nested
  <2>4. \A m \in Mods : \A s \in subconvs[m] : OfConv(s) # OfConv(c0)
    BY <2>1, <2>3, OfConvFields DEF Linked, ExportsDistinct
  <2>5. QED
    BY <1>2, <1>4, <2>2, <2>4, EmittedIs
<1>7. ASSUME NEW f \in Emitted' \ Emitted, f.name \in prog.reserved
      PROVE  Promised!Signature(f) = AsFn(Inj)
  <2>1. CASE \E c \in convs' : f = OfConv(c)
    <3>1. f = OfConv(c0)
      BY <1>2, <1>7, <2>1, EmittedIs
    <3>2. QED
      BY <1>3, <3>1, OfConvFields
  <2>2. CASE \E m \in Mods : \E s \in subconvs'[m] : f = OfConv(s)
    <3>1. \E s \in facs[1].new : f = OfConv(s)
      BY <1>2, <1>7, <2>2, EmittedIs
    <3>2. QED
      BY <1>2, <1>7, <3>1, OfConvFields DEF Fresh
  <2>3. QED
    BY <1>4, <1>7, <2>1, <2>2
<1>8. /\ cur <= Len(Package.directives) /\ Package.directives[cur] = AsFn(Inj)
      /\ Package.taken = prog.reserved /\ Package' = Package
  <2>1. prog.injs \in Seq(Injector) /\ cur <= Len(prog.injs)
    BY <1>2 DEF Typed, TypeOK, Program
  <2>2. Package' = Package
    BY <1>1 DEF Package, AsFn
  <2>3. QED
    BY <1>2, <2>1, <2>2, PackageFacts
<1>9. Promised!Signature(OfConv(c0)) = Package.directives[cur]
  BY <1>3, <1>8, OfConvFields
<1>10. Promised!Linked(Emitted)' /\ Promised!ErrorSafe(Emitted)' /\ Promised!NamedApart(Emitted)'
  BY DEF Promised!Promise
<1>11. Promised!Linked(Emitted') /\ Promised!ErrorSafe(Emitted') /\ Promised!NamedApart(Emitted')
  BY <1>8, <1>10 DEF Promised!Linked, Promised!ErrorSafe, Promised!NamedApart, Promised!Signature
<1>12. \E f \in Emitted' \ Emitted : Promised!Signature(f) = Package.directives[cur]
  BY <1>6, <1>9
<1>13. \A f \in Emitted' \ Emitted : f.name \in Package.taken =>
          Promised!Signature(f) = Package.directives[cur]
  BY <1>7, <1>8
<1>14. QED
  BY <1>1, <1>5, <1>8, <1>11, <1>12, <1>13 DEF Promised!Convert

LEMMA EmittedStays ==
  ASSUME UNCHANGED <<prog, subconvs, convs>>
  PROVE  Emitted' = Emitted /\ Package' = Package
BY DEF Emitted, Package, AsFn

LEMMA NextPromised ==
  ASSUME Typed, Sound, Linked, Promised!Promise', [Next]_vars
  PROVE  [Promised!ANext]_(Promised!aVars)
<1>1. prog.injs \in Seq(Injector) /\ cur \in Nat /\ Len(Package.directives) = Len(prog.injs)
  BY PackageFacts DEF Typed, TypeOK, Program
<1>2. CASE EndInjector
  <2>1. CASE ~Top.err
    BY <1>2, <2>1, ConvertPromised DEF Promised!ANext
  <2>2. CASE Top.err
    <3>1. /\ status = "building" /\ status' = "idle" /\ cur' = cur + 1
          /\ failed' = failed \cup {cur} /\ UNCHANGED <<prog, subconvs, convs>>
      BY <1>2, <2>2 DEF EndInjector
    <3>2. cur \in DOMAIN prog.injs
      BY <3>1 DEF Typed, Nested
    <3>3. Promised!Reject
      BY <1>1, <3>1, <3>2, EmittedStays DEF Promised!Reject
    <3>4. QED
      BY <3>3 DEF Promised!ANext
  <2>3. QED
    BY <2>1, <2>2
<1>3. CASE EndBuild
  <2>1. Promised!Finish
    BY <1>1, <1>3, EmittedStays DEF EndBuild, Promised!Finish
  <2>2. QED
    BY <2>1 DEF Promised!ANext
<1>4. CASE Overflow \/ Panic
  <2>1. /\ status = "building" /\ status' \in {"overflow", "panic"}
        /\ UNCHANGED <<prog, subconvs, convs, cur, failed>>
    BY <1>4 DEF Overflow, Panic, NoFunc, Building, RerunEnds
  <2>2. Promised!Crash
    BY <2>1, EmittedStays DEF Promised!Crash
  <2>3. QED
    BY <2>2 DEF Promised!ANext
<1>5. CASE BeginInjector
  <2>1. /\ status = "idle" /\ status' = "building"
        /\ UNCHANGED <<prog, subconvs, convs, cur, failed>>
    BY <1>5 DEF BeginInjector
  <2>2. QED
    BY <2>1, EmittedStays DEF Promised!aVars
<1>6. CASE \/ TryMatchFunc \/ TryModuleFunc \/ TrySubconvFunc \/ Rerun \/ TrySubconv
           \/ Unconvertible \/ Commit \/ Retry \/ GiveUp \/ ReportRerun \/ UNCHANGED vars
  <2>1. UNCHANGED <<prog, subconvs, convs, cur, failed, status>>
    BY <1>6 DEF TryMatchFunc, TryModuleFunc, TrySubconvFunc, CallFunc, Rerun, TrySubconv,
                Unconvertible, Commit, Retry, GiveUp, ReportRerun, vars
  <2>2. QED
    BY <2>1, EmittedStays DEF Promised!aVars
<1>7. QED
  BY <1>2, <1>3, <1>4, <1>5, <1>6 DEF Next, Build, Stopped

(* At all times the functions generated are a Go program that compiles and   *)
(* keeps its error promises.                                                 *)
LEMMA AlwaysPromised == Spec => []Promised!Promise
<1>1. Typed /\ Sound /\ Linked => Promised!Promise
  BY EmittedPromise
<1>2. QED
  BY <1>1, AlwaysLinked, PTL

(* The walk over the pairs, with its forks, retries, reruns and joins, does  *)
(* what Converters promises: a directive is rejected and adds nothing, or is *)
(* converted together with the helpers it needs, all new.                    *)
THEOREM WalkImplementsConverters == Spec => ImplementsConverters
<1>1. Init => Promised!AInit
  BY InitPromised
<1>2. /\ Typed /\ Sound /\ Linked /\ Promised!Promise /\ Promised!Promise'
      /\ [Next]_vars
      => [Promised!ANext]_(Promised!aVars)
  BY NextPromised
<1>3. QED
  BY <1>1, <1>2, AlwaysLinked, AlwaysPromised, PTL DEF Spec, ImplementsConverters, Promised!ASpec

-----------------------------------------------------------------------------
(***************************************************************************)
(* Proofs that what Build makes of a package can be read off the package:  *)
(* which injectors are built, and which subconverters return an error,     *)
(* whatever the order of the attempts, the retries and the injectors.      *)
(***************************************************************************)

(***************************************************************************)
(* Why a conversion of p under `shape' is refused: a field needs a pair    *)
(* that cannot be converted or, where no error may be returned, something  *)
(* that returns one.                                                       *)
(***************************************************************************)
Blocked(m, shape, p, allowsErr) ==
  \/ SubPairs(m, shape, p) \cap Hopeless(m) # {}
  \/ ~allowsErr /\ (MayFail(m, shape, p) \/ SubPairs(m, shape, p) \cap NeedsErr(m) # {})

(* A field that is built calls a function written by hand for it, or where   *)
(* there is none a subconverter for its pair that is seen.                   *)
Resolved(m, seen, fld, calls) ==
  \/ HandWritten(m, fld) \cap calls # {}
  \/ HandWritten(m, fld) = {} /\ \E t \in seen : t.pair = fld.pair /\ AsFn(t) \in calls

Covered(m, seen, fields, calls) ==
  \A i \in DOMAIN fields : Resolved(m, seen, fields[i], calls)

Members(seq) == {seq[i] : i \in DOMAIN seq}

(* What tryStruct matches in a factory. *)
ShapeAt(f) == IF f = 1 THEN Inj.shape ELSE prog.shape[Inj.mod]

(* Every exported subconverter is for structs, each of its fields is built   *)
(* from what its module exports, and it returns an error exactly if it has   *)
(* to.                                                                       *)
ExportsJustified ==
  \A m \in Mods : \A s \in subconvs[m] :
    /\ s.pair \in prog.structs
    /\ Covered(m, subconvs[m], prog.shape[m][s.pair], s.calls)
    /\ s.hasErr => s.pair \in NeedsErr(m)

(* So are those of the factories, of what is seen from there; one that       *)
(* returns an error was tried without, and that failed.                      *)
Founded(fas, f, s) ==
  /\ s.pair \in prog.structs
  /\ s.done => Covered(Inj.mod, Visible(fas, f), prog.shape[Inj.mod][s.pair], s.calls)
  /\ s.hasErr => s.pair \in NeedsErr(Inj.mod) \cup Hopeless(Inj.mod)

NewJustified(fas) == \A f \in 1 .. Len(fas) : \A s \in fas[f].new : Founded(fas, f, s)

(* What a frame has reported, and the error returns it has called into, have *)
(* a reason in the package.                                                  *)
Reasoned(fas, fr) ==
  /\ fr.err => Blocked(Inj.mod, ShapeAt(fr.fac), fr.pair, fas[fr.fac].allowsErr)
  /\ (\E fn \in fr.calls : fn.hasErr) =>
       Blocked(Inj.mod, ShapeAt(fr.fac), fr.pair, FALSE)

(* A frame with nothing reported has built the fields it is past. *)
Progress(fas, fr) ==
  /\ Members(fr.todo) \subseteq Fields(ShapeAt(fr.fac), fr.pair)
  /\ fr.err \/ \A fld \in Fields(ShapeAt(fr.fac), fr.pair) \ Members(fr.todo) :
                 Resolved(Inj.mod, Visible(fas, fr.fac), fld, fr.calls)

(* A frame was called for the field its caller is at. *)
Called(fs, k) ==
  k > 1 => LET fld == Head(fs[k - 1].todo)
           IN  fld.pair = fs[k].pair /\ HandWritten(Inj.mod, fld) = {}

FrameJustified(fs, fas, k) ==
  /\ Reasoned(fas, fs[k]) /\ Progress(fas, fs[k]) /\ Called(fs, k)
  /\ fs[k].kind = "try" => fs[k].pair \in prog.structs
  /\ k = 1 => fs[k].pair = Inj.pair

Justified ==
  /\ OutcomeIsDetermined /\ failed \subseteq 1 .. cur - 1
  /\ ExportsJustified
  /\ NewJustified(facs)
  /\ \A k \in 1 .. Len(frames) : FrameJustified(frames, facs, k)

-----------------------------------------------------------------------------
(* The least sets of pairs that lead to given ones.                          *)
LEMMA BackwardFacts ==
  ASSUME NEW m, NEW seeds, seeds \subseteq prog.structs
  PROVE  /\ seeds \subseteq Backward(m, seeds) /\ Backward(m, seeds) \subseteq prog.structs
         /\ \A q \in prog.structs :
              SubPairs(m, prog.shape[m], q) \cap Backward(m, seeds) # {} => q \in Backward(m, seeds)
         /\ \A S \in SUBSET prog.structs :
              /\ seeds \subseteq S
              /\ \A q \in prog.structs : SubPairs(m, prog.shape[m], q) \cap S # {} => q \in S
              => Backward(m, seeds) \subseteq S
<1> DEFINE sub(q) == SubPairs(m, prog.shape[m], q)
           Closed(S) == seeds \subseteq S /\ \A q \in prog.structs : sub(q) \cap S # {} => q \in S
<1>1. Backward(m, seeds) = {p \in prog.structs : \A S \in SUBSET prog.structs : Closed(S) => p \in S}
  BY DEF Backward
<1>2. ASSUME NEW q \in prog.structs, NEW p \in sub(q), p \in Backward(m, seeds)
      PROVE  q \in Backward(m, seeds)
  <2>1. ASSUME NEW S \in SUBSET prog.structs, Closed(S)
        PROVE  q \in S
    <3>1. p \in S
      BY <1>1, <1>2, <2>1
    <3>2. QED
      BY <1>2, <2>1, <3>1
  <2>2. QED
    BY <1>1, <2>1
<1> HIDE DEF sub
<1>3. QED
  BY <1>1, <1>2 DEF sub

LEMMA BlockedStructs ==
  ASSUME NEW m, NEW p \in prog.structs, NEW allowsErr, Blocked(m, prog.shape[m], p, allowsErr)
  PROVE  p \in Hopeless(m) \/ (~allowsErr /\ p \in NeedsErr(m))
<1> DEFINE lost  == {q \in prog.structs : ~(SubPairs(m, prog.shape[m], q) \subseteq prog.structs)}
           fails == {q \in prog.structs : MayFail(m, prog.shape[m], q)}
<1>1. NeedsErr(m) = Backward(m, fails) /\ Hopeless(m) = (Pairs \ prog.structs) \cup Backward(m, lost)
  BY DEF NeedsErr, Hopeless
<1>2. fails \subseteq prog.structs /\ lost \subseteq prog.structs
  OBVIOUS
<1>3. CASE SubPairs(m, prog.shape[m], p) \cap Hopeless(m) # {}
  <2>1. CASE p \in lost
    BY <1>1, <1>2, <2>1, BackwardFacts
  <2>2. CASE p \notin lost
    <3>1. SubPairs(m, prog.shape[m], p) \subseteq prog.structs
      BY <2>2
    <3>2. SubPairs(m, prog.shape[m], p) \cap Backward(m, lost) # {}
      BY <1>1, <1>3, <3>1
    <3> HIDE DEF lost
    <3>3. QED
      BY <1>1, <1>2, <3>2, BackwardFacts
  <2>3. QED
    BY <2>1, <2>2
<1>4. CASE ~allowsErr /\ MayFail(m, prog.shape[m], p)
  BY <1>1, <1>2, <1>4, BackwardFacts
<1>5. CASE ~allowsErr /\ SubPairs(m, prog.shape[m], p) \cap NeedsErr(m) # {}
  <2> HIDE DEF fails
  <2>1. QED
    BY <1>1, <1>2, <1>5, BackwardFacts
<1>6. QED
  BY <1>3, <1>4, <1>5 DEF Blocked

(* What a field can be refused for. *)
LEMMA FieldBlocks ==
  ASSUME NEW m, NEW shape, NEW p, NEW fld \in Fields(shape, p), NEW allowsErr
  PROVE  /\ fld.accErr \/ (\E fn \in HandWritten(m, fld) : fn.hasErr) => Blocked(m, shape, p, FALSE)
         /\ HandWritten(m, fld) = {} /\ fld.pair \in Hopeless(m) => Blocked(m, shape, p, allowsErr)
         /\ HandWritten(m, fld) = {} /\ fld.pair \in NeedsErr(m) \cup Hopeless(m)
              => Blocked(m, shape, p, FALSE)
<1>1. HandWritten(m, fld) = {} => fld.pair \in SubPairs(m, shape, p)
  BY DEF SubPairs
<1>2. fld.accErr \/ (\E fn \in HandWritten(m, fld) : fn.hasErr) => MayFail(m, shape, p)
  BY DEF MayFail
<1>3. QED
  BY <1>1, <1>2 DEF Blocked

LEMMA NotStructs ==
  ASSUME NEW m, NEW p \in Pairs, p \notin prog.structs
  PROVE  p \in Hopeless(m)
BY DEF Hopeless

-----------------------------------------------------------------------------
LEMMA StaysResolved ==
  ASSUME NEW m, NEW seen, NEW more, NEW fld, NEW calls, NEW calls2,
         \A s \in seen : \E t \in more : AsFn(t) = AsFn(s) /\ t.pair = s.pair,
         calls \subseteq calls2, Resolved(m, seen, fld, calls)
  PROVE  Resolved(m, more, fld, calls2)
<1>1. CASE HandWritten(m, fld) \cap calls # {}
  BY <1>1 DEF Resolved
<1>2. CASE HandWritten(m, fld) = {} /\ \E t \in seen : t.pair = fld.pair /\ AsFn(t) \in calls
  BY <1>2 DEF Resolved
<1>3. QED
  BY <1>1, <1>2 DEF Resolved

LEMMA StaysCovered ==
  ASSUME NEW m, NEW seen, NEW more, NEW fields, NEW calls,
         \A s \in seen : \E t \in more : AsFn(t) = AsFn(s) /\ t.pair = s.pair,
         Covered(m, seen, fields, calls)
  PROVE  Covered(m, more, fields, calls)
BY StaysResolved DEF Covered

LEMMA MembersFacts ==
  ASSUME NEW todo \in Seq(Field), todo # <<>>
  PROVE  /\ Head(todo) \in Members(todo) /\ Members(Tail(todo)) \subseteq Members(todo)
         /\ Members(todo) = {Head(todo)} \cup Members(Tail(todo))
<1>1. /\ Len(Tail(todo)) = Len(todo) - 1 /\ Len(todo) \in Nat /\ Len(todo) >= 1
      /\ \A i \in 1 .. Len(Tail(todo)) : Tail(todo)[i] = todo[i + 1]
      /\ Head(todo) = todo[1] /\ DOMAIN todo = 1 .. Len(todo)
      /\ DOMAIN Tail(todo) = 1 .. Len(todo) - 1
  BY HeadTailProperties
<1>2. 1 \in DOMAIN todo /\ Head(todo) = todo[1]
  BY <1>1
<1>3. ASSUME NEW i \in DOMAIN Tail(todo)
      PROVE  i + 1 \in DOMAIN todo /\ Tail(todo)[i] = todo[i + 1]
  BY <1>1
<1>4. ASSUME NEW i \in DOMAIN todo, i # 1
      PROVE  i - 1 \in DOMAIN Tail(todo) /\ todo[i] = Tail(todo)[i - 1]
  <2>1. i - 1 \in DOMAIN Tail(todo) /\ (i - 1) + 1 = i
    BY <1>1, <1>4
  <2>2. QED
    BY <1>3, <2>1
<1>5. Members(Tail(todo)) \subseteq Members(todo)
  BY <1>3 DEF Members
<1>6. Members(todo) \subseteq {Head(todo)} \cup Members(Tail(todo))
  BY <1>2, <1>4 DEF Members
<1>7. QED
  BY <1>2, <1>5, <1>6 DEF Members

(* The field a frame is at is built or missed: what is said of the frame     *)
(* stays true, given a reason for the error or for the error return.         *)
LEMMA NextField ==
  ASSUME NEW fas, NEW gas, NEW fr \in Frame, fr.todo # <<>>, NEW fn \in Fn,
         Reasoned(fas, fr), Progress(fas, fr),
         gas[fr.fac].allowsErr = fas[fr.fac].allowsErr, Sees(fas, fr.fac, gas, fr.fac)
  PROVE  /\ Head(fr.todo) \in Fields(ShapeAt(fr.fac), fr.pair)
         /\ /\ Resolved(Inj.mod, Visible(gas, fr.fac), Head(fr.todo), {fn})
            /\ fn.hasErr => Blocked(Inj.mod, ShapeAt(fr.fac), fr.pair, FALSE)
            => Reasoned(gas, Built(fr, fn)) /\ Progress(gas, Built(fr, fn))
         /\ Blocked(Inj.mod, ShapeAt(fr.fac), fr.pair, fas[fr.fac].allowsErr)
            => Reasoned(gas, Missed(fr)) /\ Progress(gas, Missed(fr))
<1> DEFINE fields == Fields(ShapeAt(fr.fac), fr.pair)
<1>1. /\ Head(fr.todo) \in Members(fr.todo)
      /\ Members(fr.todo) = {Head(fr.todo)} \cup Members(Tail(fr.todo))
  BY MembersFacts DEF Frame
<1>2. Built(fr, fn).todo = Tail(fr.todo) /\ Missed(fr).todo = Tail(fr.todo)
  BY DEF Built, Missed, Frame
<1>3. /\ Built(fr, fn).fac = fr.fac /\ Built(fr, fn).pair = fr.pair
      /\ Built(fr, fn).err = fr.err /\ Built(fr, fn).calls = fr.calls \cup {fn}
      /\ Missed(fr).fac = fr.fac /\ Missed(fr).pair = fr.pair
      /\ Missed(fr).err = TRUE /\ Missed(fr).calls = fr.calls
  BY AfterField
<1>4. Head(fr.todo) \in fields /\ Members(Tail(fr.todo)) \subseteq fields
  BY <1>1 DEF Progress
<1>5. ASSUME Resolved(Inj.mod, Visible(gas, fr.fac), Head(fr.todo), {fn}),
             fn.hasErr => Blocked(Inj.mod, ShapeAt(fr.fac), fr.pair, FALSE)
      PROVE  Reasoned(gas, Built(fr, fn)) /\ Progress(gas, Built(fr, fn))
  <2>1. Reasoned(gas, Built(fr, fn))
    BY <1>3, <1>5 DEF Reasoned
  <2>2. ASSUME ~fr.err, NEW fld \in fields \ Members(Tail(fr.todo))
        PROVE  Resolved(Inj.mod, Visible(gas, fr.fac), fld, fr.calls \cup {fn})
    <3>1. CASE fld = Head(fr.todo)
      <4>1. \A s \in Visible(gas, fr.fac) :
              \E t \in Visible(gas, fr.fac) : AsFn(t) = AsFn(s) /\ t.pair = s.pair
        OBVIOUS
      <4>2. {fn} \subseteq fr.calls \cup {fn}
        OBVIOUS
      <4>3. QED
        BY <1>5, <3>1, <4>1, <4>2, StaysResolved
    <3>2. CASE fld # Head(fr.todo)
      <4>1. Resolved(Inj.mod, Visible(fas, fr.fac), fld, fr.calls)
        BY <1>1, <2>2, <3>2 DEF Progress
      <4>2. fr.calls \subseteq fr.calls \cup {fn}
        OBVIOUS
      <4>3. QED
        BY <4>1, <4>2, StaysResolved DEF Sees
    <3>3. QED
      BY <3>1, <3>2
  <2>3. Progress(gas, Built(fr, fn))
    BY <1>2, <1>3, <1>4, <2>2 DEF Progress
  <2>4. QED
    BY <2>1, <2>3
<1>6. ASSUME Blocked(Inj.mod, ShapeAt(fr.fac), fr.pair, fas[fr.fac].allowsErr)
      PROVE  Reasoned(gas, Missed(fr)) /\ Progress(gas, Missed(fr))
  <2>1. Reasoned(gas, Missed(fr))
    BY <1>3, <1>6 DEF Reasoned
  <2>2. Progress(gas, Missed(fr))
    BY <1>2, <1>3, <1>4 DEF Progress
  <2>3. QED
    BY <2>1, <2>2
<1>7. QED
  BY <1>4, <1>5, <1>6

-----------------------------------------------------------------------------
(* The package and the exports fix what is hopeless and what needs an error. *)
LEMMA PackageFixed ==
  ASSUME prog' = prog
  PROVE  /\ \A m, fld : HandWritten(m, fld)' = HandWritten(m, fld)
         /\ \A m, shape, p : SubPairs(m, shape, p)' = SubPairs(m, shape, p)
         /\ \A m, shape, p : MayFail(m, shape, p)' <=> MayFail(m, shape, p)
         /\ \A m : NeedsErr(m)' = NeedsErr(m) /\ Hopeless(m)' = Hopeless(m)
         /\ \A m, shape, p, allowsErr :
              Blocked(m, shape, p, allowsErr)' <=> Blocked(m, shape, p, allowsErr)
         /\ \A m, seen, fld, calls :
              Resolved(m, seen, fld, calls)' <=> Resolved(m, seen, fld, calls)
         /\ \A m, seen, fields, calls :
              Covered(m, seen, fields, calls)' <=> Covered(m, seen, fields, calls)
         /\ \A inj : Convertible(inj)' <=> Convertible(inj)
<1>1. \A m, fld : HandWritten(m, fld)' = HandWritten(m, fld)
  BY DEF HandWritten
<1>2. \A m, shape, p : SubPairs(m, shape, p)' = SubPairs(m, shape, p)
  BY <1>1 DEF SubPairs, Fields
<1>3. \A m, shape, p : MayFail(m, shape, p)' <=> MayFail(m, shape, p)
  BY <1>1 DEF MayFail, Fields
<1>4. ASSUME NEW m, NEW seeds
      PROVE  Backward(m, seeds)' = Backward(m, seeds)
  BY <1>2 DEF Backward
<1>5. \A m : NeedsErr(m)' = NeedsErr(m)
  BY <1>3, <1>4 DEF NeedsErr
<1>6. \A m : Hopeless(m)' = Hopeless(m)
  BY <1>2, <1>4 DEF Hopeless
<1>7. \A m, shape, p, allowsErr :
        Blocked(m, shape, p, allowsErr)' <=> Blocked(m, shape, p, allowsErr)
  BY <1>2, <1>3, <1>5, <1>6 DEF Blocked
<1>8. \A m, seen, fld, calls : Resolved(m, seen, fld, calls)' <=> Resolved(m, seen, fld, calls)
  BY <1>1 DEF Resolved, AsFn
<1>9. \A m, seen, fields, calls :
        Covered(m, seen, fields, calls)' <=> Covered(m, seen, fields, calls)
  BY <1>8 DEF Covered
<1>10. \A inj : Convertible(inj)' <=> Convertible(inj)
  BY <1>2, <1>3, <1>5, <1>6 DEF Convertible
<1>11. QED
  BY <1>1, <1>2, <1>3, <1>5, <1>6, <1>7, <1>8, <1>9, <1>10

LEMMA StillJustified ==
  ASSUME Justified, UNCHANGED <<prog, cur, subconvs, failed>>, NewJustified(facs'),
         \A k \in 1 .. Len(frames') : FrameJustified(frames', facs', k)
  PROVE  Justified'
<1>1. Inj' = Inj /\ \A f : ShapeAt(f)' = ShapeAt(f)
  BY DEF Inj, ShapeAt
<1>2. \A fas, f : Visible(fas, f)' = Visible(fas, f)
  BY <1>1 DEF Visible
<1>3. OutcomeIsDetermined' /\ ExportsJustified'
  BY PackageFixed DEF Justified, OutcomeIsDetermined, ExportsJustified
<1>4. NewJustified(facs)'
  BY <1>1, <1>2, PackageFixed DEF NewJustified, Founded
<1>5. \A fas, fr : /\ Reasoned(fas, fr) => Reasoned(fas, fr)'
                   /\ Progress(fas, fr) => Progress(fas, fr)'
  BY <1>1, <1>2, PackageFixed DEF Reasoned, Progress, Members, Fields
<1>6. \A k \in 1 .. Len(frames') : FrameJustified(frames, facs, k)'
  BY <1>1, <1>5, PackageFixed DEF FrameJustified, Called, Reasoned, Progress
<1>7. QED
  BY <1>3, <1>4, <1>6 DEF Justified

(* The innermost frame is replaced, by itself one field on or by a retry. *)
LEMMA ReplacedJustified ==
  ASSUME Typed, Justified, status = "building", NEW fr \in Frame,
         fr.kind = Top.kind, fr.fac = Top.fac, fr.pair = Top.pair, Return(fr),
         UNCHANGED <<prog, cur, subconvs, failed>>,
         NewJustified(facs'), Reasoned(facs', fr), Progress(facs', fr),
         \A k \in 1 .. Len(frames) - 1 :
           /\ facs'[frames[k].fac].allowsErr = facs[frames[k].fac].allowsErr
           /\ Sees(facs, frames[k].fac, facs', frames[k].fac)
  PROVE  Justified'
<1>1. /\ frames \in Seq(Frame) /\ Len(frames) \in Nat /\ Len(frames) >= 1
      /\ Top = frames[Len(frames)]
  BY RunningFacts
<1>2. /\ Len(frames') = Len(frames) /\ frames'[Len(frames)] = fr
      /\ \A i \in 1 .. Len(frames) - 1 : frames'[i] = frames[i]
  BY SameAttempt
<1>3. \A k \in 1 .. Len(frames) :
        /\ k \in 1 .. Len(frames) - 1 \/ k = Len(frames)
        /\ k > 1 => k - 1 \in 1 .. Len(frames) - 1
  BY <1>1
<1>4. ASSUME NEW k \in 1 .. Len(frames)
      PROVE  FrameJustified(frames', facs', k)
  <2>1. FrameJustified(frames, facs, k)
    BY DEF Justified
  <2>2. frames'[k].kind = frames[k].kind /\ frames'[k].pair = frames[k].pair
    BY <1>1, <1>2, <1>3
  <2>3. Called(frames', k)
    BY <1>2, <1>3, <2>1, <2>2 DEF FrameJustified, Called
  <2>4. Reasoned(facs', frames'[k]) /\ Progress(facs', frames'[k])
    <3>1. CASE k \in 1 .. Len(frames) - 1
      <4>1. frames'[k] = frames[k] /\ Reasoned(facs, frames[k]) /\ Progress(facs, frames[k])
        BY <1>2, <2>1, <3>1 DEF FrameJustified
      <4>2. Reasoned(facs', frames[k])
        BY <3>1, <4>1 DEF Reasoned
      <4>3. Progress(facs', frames[k])
        BY <3>1, <4>1, StaysResolved DEF Progress, Sees
      <4>4. QED
        BY <4>1, <4>2, <4>3
    <3>2. CASE k = Len(frames)
      BY <1>2, <3>2
    <3>3. QED
      BY <1>3, <3>1, <3>2
  <2>5. QED
    BY <2>1, <2>2, <2>3, <2>4 DEF FrameJustified
<1>5. QED
  BY <1>2, <1>4, StillJustified

(* The innermost frame goes on to its next field. *)
LEMMA ReturnedJustified ==
  ASSUME Typed, Justified, status = "building", NEW fr \in Frame,
         fr.kind = Top.kind, fr.fac = Top.fac, fr.pair = Top.pair, Return(fr),
         Reasoned(facs, fr), Progress(facs, fr),
         UNCHANGED <<prog, cur, subconvs, failed, facs>>
  PROVE  Justified'
<1>1. \A f : Sees(facs, f, facs', f)
  BY DEF Sees
<1>2. NewJustified(facs') /\ Reasoned(facs', fr) /\ Progress(facs', fr)
  BY DEF Justified
<1>3. QED
  BY <1>1, <1>2, ReplacedJustified

(* A call returns to its caller, which goes on to its next field. *)
LEMMA CallerJustified ==
  ASSUME Typed, Justified, status = "building", Top.kind # "explicit", NEW fr \in Frame,
         fr.kind = Caller.kind, fr.fac = Caller.fac, fr.pair = Caller.pair,
         ReturnToCaller(fr), UNCHANGED <<prog, cur, subconvs, failed>>,
         NewJustified(facs'), Reasoned(facs', fr), Progress(facs', fr),
         \A k \in 1 .. Len(frames) - 1 :
           /\ facs'[frames[k].fac].allowsErr = facs[frames[k].fac].allowsErr
           /\ Sees(facs, frames[k].fac, facs', frames[k].fac)
  PROVE  Justified'
<1>1. /\ frames \in Seq(Frame) /\ Len(frames) \in Nat /\ Len(frames) >= 2
      /\ Caller = frames[Len(frames) - 1]
  BY RunningFacts, CallerFacts
<1>2. /\ Len(frames') = Len(frames) - 1 /\ frames'[Len(frames) - 1] = fr
      /\ \A i \in 1 .. Len(frames) - 2 : frames'[i] = frames[i]
  BY ReturnTyped
<1>3. \A k \in 1 .. Len(frames) - 1 :
        /\ k \in 1 .. Len(frames) /\ (k \in 1 .. Len(frames) - 2 \/ k = Len(frames) - 1)
        /\ k > 1 => k - 1 \in 1 .. Len(frames) - 2
  BY <1>1
<1>4. ASSUME NEW k \in 1 .. Len(frames) - 1
      PROVE  FrameJustified(frames', facs', k)
  <2>1. FrameJustified(frames, facs, k)
    BY <1>3 DEF Justified
  <2>2. frames'[k].kind = frames[k].kind /\ frames'[k].pair = frames[k].pair
    BY <1>1, <1>2, <1>3
  <2>3. Called(frames', k)
    BY <1>2, <1>3, <2>1, <2>2 DEF FrameJustified, Called
  <2>4. Reasoned(facs', frames'[k]) /\ Progress(facs', frames'[k])
    <3>1. CASE k \in 1 .. Len(frames) - 2
      <4>1. frames'[k] = frames[k] /\ Reasoned(facs, frames[k]) /\ Progress(facs, frames[k])
        BY <1>2, <2>1, <3>1 DEF FrameJustified
      <4>2. Reasoned(facs', frames[k])
        BY <4>1 DEF Reasoned
      <4>3. Progress(facs', frames[k])
        BY <4>1, StaysResolved DEF Progress, Sees
      <4>4. QED
        BY <4>1, <4>2, <4>3
    <3>2. CASE k = Len(frames) - 1
      BY <1>2, <3>2
    <3>3. QED
      BY <1>3, <3>1, <3>2
  <2>5. QED
    BY <2>1, <2>2, <2>3, <2>4 DEF FrameJustified
<1>5. QED
  BY <1>2, <1>4, StillJustified

(* tryStruct is called for the field the innermost frame is at. *)
LEMMA CalledJustified ==
  ASSUME Typed, Justified, NoFunc, NEW fr \in Frame, frames' = Append(frames, fr),
         UNCHANGED <<prog, cur, subconvs, failed>>,
         Len(facs) <= Len(facs'), Len(facs') \in Nat,
         \A f \in 1 .. Len(facs) : facs'[f] = facs[f],
         NewJustified(facs'), Reasoned(facs', fr), Progress(facs', fr),
         fr.pair = Cur.pair, fr.kind = "try" => fr.pair \in prog.structs
  PROVE  Justified'
<1>1. /\ frames \in Seq(Frame) /\ Len(frames) \in Nat /\ Len(frames) >= 1
      /\ status = "building" /\ Len(facs) \in Nat /\ 1 \in 1 .. Len(facs)
      /\ Top = frames[Len(frames)] /\ Building
  BY RunningFacts DEF Building, NoFunc
<1>2. /\ Len(frames') = Len(frames) + 1 /\ frames'[Len(frames) + 1] = fr
      /\ \A i \in 1 .. Len(frames) : frames'[i] = frames[i]
  BY <1>1, CallTyped
<1>3. /\ \A k \in 1 .. Len(frames') : k \in 1 .. Len(frames) \/ k = Len(frames) + 1
      /\ \A k \in 1 .. Len(frames) : k > 1 => k - 1 \in 1 .. Len(frames)
      /\ Len(frames) \in 1 .. Len(frames) /\ Len(frames) + 1 # 1
      /\ (Len(frames) + 1) - 1 = Len(frames)
  BY <1>1, <1>2
<1>4. ASSUME NEW k \in 1 .. Len(frames)
      PROVE  FrameJustified(frames', facs', k)
  <2>1. FrameJustified(frames, facs, k)
    BY DEF Justified
  <2>2. frames[k].fac \in 1 .. Len(facs)
    BY <1>1, FacOfFrame
  <2>3. frames'[k] = frames[k] /\ facs'[frames[k].fac] = facs[frames[k].fac]
    BY <1>2, <2>2
  <2>4. Called(frames', k)
    BY <1>2, <1>3, <2>1, <2>3 DEF FrameJustified, Called
  <2>5. Sees(facs, frames[k].fac, facs', frames[k].fac)
    <3>1. \A g \in facs[frames[k].fac].line : facs'[g] = facs[g]
      BY <1>1, <2>2, LineInside
    <3>2. QED
      BY <2>3, <3>1, SeesKept
  <2>6. Reasoned(facs', frames[k])
    BY <2>1, <2>3 DEF FrameJustified, Reasoned
  <2>7. Progress(facs', frames[k])
    BY <2>1, <2>5, StaysResolved DEF FrameJustified, Progress, Sees
  <2>8. QED
    BY <2>1, <2>3, <2>4, <2>6, <2>7 DEF FrameJustified
<1>5. FrameJustified(frames', facs', Len(frames) + 1)
  <2>1. HandWritten(Inj.mod, Cur) = {}
    BY DEF NoFunc, HandWritten
  <2>2. Called(frames', Len(frames) + 1)
    BY <1>1, <1>2, <1>3, <2>1 DEF Called, Cur
  <2>3. QED
    BY <1>2, <1>3, <2>2 DEF FrameJustified
<1>6. \A k \in 1 .. Len(frames') : FrameJustified(frames', facs', k)
  BY <1>3, <1>4, <1>5
<1>7. QED
  BY <1>6, StillJustified

(* tryStruct before its first field. *)
LEMMA NewFrameJustified ==
  ASSUME NEW kind \in Kinds, NEW f \in Nat, NEW allowsErr \in BOOLEAN, NEW p \in Pairs,
         NEW name \in Name, NEW fields \in Seq(Field), fields = ShapeAt(f)[p],
         NEW fas, fas[f].allowsErr => allowsErr,
         NEW fr, fr = TryStruct(kind, f, allowsErr, p, name, fields)
  PROVE  Reasoned(fas, fr) /\ Progress(fas, fr)
<1>1. /\ fr.fac = f /\ fr.pair = p /\ fr.calls = {} /\ fr.err = (~allowsErr /\ AccErr(fields))
      /\ fr.todo = fields
  BY DEF TryStruct
<1>2. Members(fields) = Fields(ShapeAt(f), p)
  BY DEF Members, Fields
<1>3. ASSUME AccErr(fields), ~allowsErr
      PROVE  Blocked(Inj.mod, ShapeAt(f), p, fas[f].allowsErr)
  <2>1. PICK i \in DOMAIN fields : fields[i].accErr
    BY <1>3 DEF AccErr
  <2>2. fields[i] \in Fields(ShapeAt(f), p)
    BY DEF Fields
  <2>3. Blocked(Inj.mod, ShapeAt(f), p, FALSE)
    BY <2>1, <2>2, FieldBlocks
  <2>4. QED
    BY <1>3, <2>3 DEF Blocked
<1>4. QED
  BY <1>1, <1>2, <1>3 DEF Reasoned, Progress

LEMMA FoundedKept ==
  ASSUME NEW fas, NEW gas, NEW f, NEW g, NEW s, Founded(fas, f, s), Sees(fas, f, gas, g)
  PROVE  Founded(gas, g, s)
BY StaysCovered DEF Founded, Sees

LEMMA TopJustified ==
  ASSUME Typed, Justified, status = "building"
  PROVE  /\ Top \in Frame /\ Reasoned(facs, Top) /\ Progress(facs, Top)
         /\ Top.kind = "try" => Top.pair \in prog.structs
         /\ \A f : Sees(facs, f, facs, f)
<1>1. /\ Len(frames) \in Nat /\ Len(frames) >= 1 /\ Top = frames[Len(frames)] /\ Top \in Frame
  BY RunningFacts
<1>2. FrameJustified(frames, facs, Len(frames))
  <2>1. Len(frames) \in 1 .. Len(frames)
    BY <1>1
  <2>2. QED
    BY <2>1 DEF Justified
<1>3. \A f : Sees(facs, f, facs, f)
  BY DEF Sees
<1>4. QED
  BY <1>1, <1>2, <1>3 DEF FrameJustified

-----------------------------------------------------------------------------
(* Fields built with a function written by hand or a subconverter seen.      *)
LEMMA CallFuncJustified ==
  ASSUME Typed, Justified, Building, NEW f, NEW fn \in Fn, CallFunc(f, fn),
         Resolved(Inj.mod, Visible(facs, Top.fac), Cur, {fn}),
         fn.hasErr => Blocked(Inj.mod, ShapeAt(Top.fac), Top.pair, FALSE),
         CanCall(f, fn) \/ f = Top.fac
  PROVE  Justified'
<1>1. /\ Top \in Frame /\ Top.todo # <<>> /\ status = "building"
      /\ Reasoned(facs, Top) /\ Progress(facs, Top) /\ Sees(facs, Top.fac, facs, Top.fac)
  BY TopJustified DEF Building
<1>2. CASE CanCall(f, fn)
  <2>1. Return(Built(Top, fn)) /\ UNCHANGED <<prog, cur, subconvs, failed, facs>>
    BY <1>2 DEF CallFunc
  <2>2. Reasoned(facs, Built(Top, fn)) /\ Progress(facs, Built(Top, fn))
    BY <1>1, NextField DEF Cur
  <2>3. QED
    BY <1>1, <2>1, <2>2, AfterField, ReturnedJustified
<1>3. CASE ~CanCall(f, fn)
  <2>1. Return(Missed(Top)) /\ UNCHANGED <<prog, cur, subconvs, failed, facs>>
    BY <1>3 DEF CallFunc
  <2>2. fn.hasErr /\ facs[Top.fac].allowsErr = FALSE
    <3>1. fn.hasErr /\ ~facs[Top.fac].allowsErr
      BY <1>3 DEF CanCall
    <3>2. facs[Top.fac] \in Factory
      BY <1>1, RunningFacts
    <3>3. QED
      BY <3>1, <3>2 DEF Factory
  <2>3. Reasoned(facs, Missed(Top)) /\ Progress(facs, Missed(Top))
    BY <1>1, <2>2, NextField
  <2>4. QED
    BY <1>1, <2>1, <2>3, AfterField, ReturnedJustified
<1>4. QED
  BY <1>2, <1>3

(* The field a frame is at, seen as a field of its shape. *)
LEMMA CurField ==
  ASSUME Typed, Justified, Building
  PROVE  Cur \in Fields(ShapeAt(Top.fac), Top.pair)
<1>1. Top \in Frame /\ Top.todo # <<>> /\ Progress(facs, Top)
  BY TopJustified DEF Building
<1>2. QED
  BY <1>1, MembersFacts DEF Progress, Cur, Frame

LEMMA FuncJustified ==
  ASSUME Typed, Justified, TryMatchFunc \/ TryModuleFunc
  PROVE  Justified'
<1>1. Building /\ status = "building"
  BY DEF TryMatchFunc, TryModuleFunc, Building
<1>2. Cur \in Field /\ cur \in DOMAIN prog.injs
  BY <1>1, FieldFacts, RunningFacts
<1>3. PICK fn \in HandWritten(Inj.mod, Cur) : CallFunc(Top.fac, fn)
  <2>1. CASE TryMatchFunc
    BY <2>1 DEF TryMatchFunc, HandWritten
  <2>2. CASE TryModuleFunc
    BY <2>2 DEF TryModuleFunc, HandWritten
  <2>3. QED
    BY <2>1, <2>2
<1>4. fn \in Fn
  <2>1. CASE fn \in Cur.func
    BY <1>2, <2>1 DEF Field
  <2>2. CASE fn \in prog.lookup[Inj.mod][Cur.pair]
    BY <1>2, <2>2, ShapeFacts DEF Field
  <2>3. QED
    BY <1>3, <2>1, <2>2 DEF HandWritten
<1>5. Resolved(Inj.mod, Visible(facs, Top.fac), Cur, {fn})
  BY <1>3 DEF Resolved
<1>6. fn.hasErr => Blocked(Inj.mod, ShapeAt(Top.fac), Top.pair, FALSE)
  BY <1>1, <1>3, CurField, FieldBlocks
<1>7. QED
  BY <1>1, <1>3, <1>4, <1>5, <1>6, CallFuncJustified

(* A subconverter that is seen returns an error for a reason. *)
LEMMA SeenFounded ==
  ASSUME Typed, Justified, status = "building", NEW f \in 1 .. Len(facs),
         NEW s \in Visible(facs, f), s.hasErr
  PROVE  s.pair \in NeedsErr(Inj.mod) \cup Hopeless(Inj.mod)
<1>1. CASE s \in subconvs[Inj.mod]
  <2>1. Inj.mod \in Mods
    BY RunningFacts DEF Injector
  <2>2. QED
    BY <1>1, <2>1 DEF Justified, ExportsJustified
<1>2. CASE \E g \in facs[f].line : s \in facs[g].new
  <2>1. PICK g \in facs[f].line : s \in facs[g].new
    BY <1>2
  <2>2. g \in 1 .. Len(facs)
    BY LineInside
  <2>3. QED
    BY <2>1, <2>2 DEF Justified, NewJustified, Founded
<1>3. QED
  BY <1>1, <1>2 DEF Visible

LEMMA TrySubconvFuncJustified ==
  ASSUME Typed, Justified, TrySubconvFunc
  PROVE  Justified'
<1>1. Building /\ status = "building" /\ HandWritten(Inj.mod, Cur) = {}
  BY DEF TrySubconvFunc, NoFunc, Building, HandWritten
<1>2. PICK g \in facs[Top.fac].line :
        \E s \in Get(g, Cur.pair) : CanCall(g, AsFn(s)) /\ CallFunc(g, AsFn(s))
  BY DEF TrySubconvFunc
<1>3. PICK s \in Get(g, Cur.pair) : CanCall(g, AsFn(s)) /\ CallFunc(g, AsFn(s))
  BY <1>2
<1>4. Top.fac \in 1 .. Len(facs) /\ g \in DOMAIN facs
  <2>1. Top.fac \in 1 .. Len(facs) /\ DOMAIN facs = 1 .. Len(facs)
    BY <1>1, RunningFacts
  <2>2. QED
    BY <1>1, <1>2, <2>1, LineInside
<1>5. AsFn(s) \in Fn
  BY <1>1, <1>3, <1>4, GetFacts
<1>6. s \in Visible(facs, Top.fac) /\ s.pair = Cur.pair
  BY <1>3, GetVisible DEF Get
<1>7. Resolved(Inj.mod, Visible(facs, Top.fac), Cur, {AsFn(s)})
  BY <1>1, <1>6 DEF Resolved
<1>8. AsFn(s).hasErr => Blocked(Inj.mod, ShapeAt(Top.fac), Top.pair, FALSE)
  <2>1. AsFn(s).hasErr = s.hasErr
    BY DEF AsFn
  <2>2. QED
    BY <1>1, <1>4, <1>6, <2>1, SeenFounded, CurField, FieldBlocks
<1>9. QED
  BY <1>1, <1>3, <1>5, <1>7, <1>8, CallFuncJustified

LEMMA UnconvertibleJustified ==
  ASSUME Typed, Justified, Unconvertible
  PROVE  Justified'
<1>1. /\ Building /\ status = "building" /\ HandWritten(Inj.mod, Cur) = {}
      /\ Cur.pair \notin prog.structs
  BY DEF Unconvertible, Unknown, NoFunc, Building, HandWritten
<1>2. /\ Top \in Frame /\ Top.todo # <<>>
      /\ Reasoned(facs, Top) /\ Progress(facs, Top) /\ Sees(facs, Top.fac, facs, Top.fac)
  BY <1>1, TopJustified DEF Building
<1>3. Cur.pair \in Hopeless(Inj.mod)
  BY <1>1, FieldFacts, NotStructs DEF Field
<1>4. Blocked(Inj.mod, ShapeAt(Top.fac), Top.pair, facs[Top.fac].allowsErr)
  BY <1>1, <1>3, CurField, FieldBlocks
<1>5. \E fn : fn \in Fn
  <2>1. Top.name \in Name
    BY <1>2 DEF Frame
  <2>2. [name |-> Top.name, hasErr |-> FALSE] \in Fn
    BY <2>1 DEF Fn
  <2>3. QED
    BY <2>2
<1>6. Reasoned(facs, Missed(Top)) /\ Progress(facs, Missed(Top))
  BY <1>2, <1>4, <1>5, NextField
<1>7. Return(Missed(Top)) /\ UNCHANGED <<prog, cur, subconvs, failed, facs>>
  BY DEF Unconvertible
<1>8. QED
  BY <1>1, <1>2, <1>6, <1>7, MissedFrame, ReturnedJustified

-----------------------------------------------------------------------------
(* Calls of tryStruct. *)
LEMMA RerunJustified ==
  ASSUME Typed, Justified, Rerun
  PROVE  Justified'
<1>1. Building /\ status = "building" /\ NoFunc
  BY DEF Rerun, NoFunc, Building
<1>2. /\ Top \in Frame /\ Len(facs) \in Nat /\ cur \in DOMAIN prog.injs
      /\ Top.fac \in 1 .. Len(facs) /\ Len(frames) \in Nat /\ Len(frames) >= 1
  BY <1>1, RunningFacts
<1>3. PICK g \in facs[Top.fac].line :
        frames' = Append(frames,
          TryStruct("rerun", g, facs[g].allowsErr, Cur.pair, Top.name, FieldsOf(g, Cur.pair)))
  BY DEF Rerun
<1>4. g \in 1 .. Len(facs) /\ g \in Nat
  BY <1>1, <1>2, <1>3, LineInside
<1>5. facs[g].allowsErr \in BOOLEAN
  <2>1. facs[g] \in Factory
    BY <1>1, <1>4, RunningFacts
  <2>2. QED
    BY <2>1 DEF Factory
<1>6. Cur.pair \in Pairs /\ Top.name \in Name
  BY <1>1, <1>2, FieldFacts DEF Field, Frame
<1>7. FieldsOf(g, Cur.pair) \in Seq(Field) /\ FieldsOf(g, Cur.pair) = ShapeAt(g)[Cur.pair]
  BY <1>2, <1>6, ShapeFacts DEF FieldsOf, ShapeAt
<1> DEFINE fr == TryStruct("rerun", g, facs[g].allowsErr, Cur.pair, Top.name,
                           FieldsOf(g, Cur.pair))
<1>8. fr \in Frame /\ fr.kind = "rerun" /\ fr.pair = Cur.pair
  BY <1>4, <1>5, <1>6, <1>7, NewFrame DEF Kinds
<1>9. Reasoned(facs, fr) /\ Progress(facs, fr)
  BY <1>4, <1>5, <1>6, <1>7, NewFrameJustified DEF Kinds
<1>10. frames' = Append(frames, fr) /\ UNCHANGED <<prog, cur, subconvs, failed, facs>>
  BY <1>3 DEF Rerun
<1> HIDE DEF fr
<1>11. NewJustified(facs') /\ Reasoned(facs', fr) /\ Progress(facs', fr)
  BY <1>9, <1>10 DEF Justified
<1>12. Len(facs') \in Nat /\ Len(facs) <= Len(facs') /\ \A f \in 1 .. Len(facs) : facs'[f] = facs[f]
  BY <1>2, <1>10
<1>13. QED
  BY <1>1, <1>8, <1>10, <1>11, <1>12, CalledJustified

LEMMA TrySubconvJustified ==
  ASSUME Typed, Justified, TrySubconv
  PROVE  Justified'
<1>1. /\ Building /\ status = "building" /\ NoFunc /\ Cur.pair \in prog.structs
      /\ UNCHANGED <<prog, cur, subconvs, failed>>
  BY DEF TrySubconv, Unknown, NoFunc, Building
<1>2. /\ Len(facs) \in Nat /\ facs \in Seq(Factory) /\ cur \in DOMAIN prog.injs
      /\ Top.fac \in 1 .. Len(facs) /\ 1 \in 1 .. Len(facs)
  BY <1>1, RunningFacts
<1>3. PICK i \in 1 .. Cardinality(ns) + 1 :
        LET name == DisambiguateName(prog.base[Inj.mod][Cur.pair], i)
            f    == Len(facs) + 1
        IN  /\ facs' = Append(facs, Fork(facs[Top.fac].line, f, FALSE, Cur.pair, name))
            /\ frames' = Append(frames,
                 TryStruct("try", f, FALSE, Cur.pair, name, prog.shape[Inj.mod][Cur.pair]))
  BY DEF TrySubconv
<1> DEFINE name == DisambiguateName(prog.base[Inj.mod][Cur.pair], i)
           n    == Len(facs)
           f    == n + 1
           fr   == TryStruct("try", f, FALSE, Cur.pair, name, prog.shape[Inj.mod][Cur.pair])
           fac  == Fork(facs[Top.fac].line, f, FALSE, Cur.pair, name)
           s    == Placeholder(Cur.pair, name, FALSE)
<1>4. frames' = Append(frames, fr) /\ facs' = Append(facs, fac)
  BY <1>3
<1>5. Cur.pair \in Pairs
  BY <1>1, FieldFacts DEF Field
<1>6. name \in Name /\ prog.shape[Inj.mod][Cur.pair] \in Seq(Field)
  <2>1. i \in Nat
    BY <1>3
  <2>2. QED
    BY <1>2, <1>5, <2>1, ShapeFacts, NameFacts
<1>7. f \in Nat /\ f # 1 /\ facs[Top.fac].line \subseteq Nat
  <2>1. facs[Top.fac] \in Factory
    BY <1>2
  <2>2. QED
    BY <1>2, <2>1 DEF Factory
<1>8. /\ fac.new = {s} /\ fac.allowsErr = FALSE
      /\ s.pair = Cur.pair /\ ~s.done /\ s.hasErr = FALSE
  BY DEF Fork, Placeholder
<1> HIDE DEF name, s
<1>9. fr \in Frame /\ fr.kind = "try" /\ fr.pair = Cur.pair
  <2> HIDE DEF f
  <2>1. QED
    BY <1>5, <1>6, <1>7 DEF TryStruct, Frame, Kinds
<1>10. fac \in Factory
  <2> HIDE DEF f
  <2>1. QED
    BY <1>5, <1>6, <1>7 DEF Fork, Factory, Placeholder, SubconvRec
<1> HIDE DEF fac
<1>11. /\ Len(facs') = f /\ facs'[f] = fac
       /\ \A g \in 1 .. n : facs'[g] = facs[g]
  BY <1>2, <1>4, <1>10, AppendSeq
<1>12. Reasoned(facs', fr) /\ Progress(facs', fr)
  <2>1. prog.shape[Inj.mod][Cur.pair] = ShapeAt(f)[Cur.pair]
    BY <1>7 DEF ShapeAt
  <2>2. facs'[f].allowsErr = FALSE
    BY <1>8, <1>11
  <2> HIDE DEF f
  <2>3. QED
    BY <1>5, <1>6, <1>7, <2>1, <2>2, NewFrameJustified DEF Kinds
<1> HIDE DEF fr
<1>13. NewJustified(facs')
  <2>1. ASSUME NEW g \in 1 .. n, NEW t \in facs'[g].new
        PROVE  Founded(facs', g, t)
    <3>1. Founded(facs, g, t)
      BY <1>11, <2>1 DEF Justified, NewJustified
    <3>2. \A h \in facs[g].line : facs'[h] = facs[h]
      BY <1>1, <1>11, LineInside
    <3>3. Sees(facs, g, facs', g)
      BY <1>11, <3>2, SeesKept
    <3>4. QED
      BY <3>1, <3>3, FoundedKept
  <2>2. Founded(facs', f, s)
    BY <1>1, <1>8 DEF Founded
  <2>3. \A g \in 1 .. f : g \in 1 .. n \/ g = f
    BY <1>2
  <2>4. QED
    BY <1>8, <1>11, <2>1, <2>2, <2>3 DEF NewJustified
<1>14. Len(facs') \in Nat /\ Len(facs) <= Len(facs')
  BY <1>2, <1>11
<1>15. QED
  BY <1>1, <1>4, <1>9, <1>11, <1>12, <1>13, <1>14, CalledJustified

-----------------------------------------------------------------------------
(* Attempts that end. *)
LEMMA BelowFork ==
  ASSUME Typed, status = "building", Top.kind = "try",
         \A f \in 1 .. Len(facs) - 1 : facs'[f] = facs[f]
  PROVE  /\ \A f \in 1 .. Len(facs) - 1 : Sees(facs, f, facs', f)
         /\ \A k \in 1 .. Len(frames) - 1 :
              /\ facs'[frames[k].fac].allowsErr = facs[frames[k].fac].allowsErr
              /\ Sees(facs, frames[k].fac, facs', frames[k].fac)
<1>1. Len(facs) \in Nat
  BY RunningFacts
<1>2. ASSUME NEW f \in 1 .. Len(facs) - 1
      PROVE  Sees(facs, f, facs', f)
  <2>1. f \in 1 .. Len(facs)
    BY <1>1
  <2>2. ASSUME NEW g \in facs[f].line
        PROVE  facs'[g] = facs[g]
    <3>1. g \in 1 .. f
      BY <2>1, LineInside
    <3>2. g \in 1 .. Len(facs) - 1
      BY <1>1, <3>1
    <3>3. QED
      BY <3>2
  <2>3. QED
    BY <2>2, SeesKept
<1>3. \A k \in 1 .. Len(frames) - 1 : frames[k].fac \in 1 .. Len(facs) - 1
  BY BelowTry
<1>4. QED
  BY <1>2, <1>3

(* An attempt is refused for a reason. *)
LEMMA AttemptFailed ==
  ASSUME Typed, Justified, TryEnds, ~TryOK
  PROVE  /\ Top.pair \in Hopeless(Inj.mod)
              \/ (~facs[Len(facs)].allowsErr /\ Top.pair \in NeedsErr(Inj.mod))
         /\ Top.pair \in prog.structs
<1> DEFINE n == Len(facs)
<1>1. /\ status = "building" /\ Top.kind = "try" /\ Top.fac = n /\ n \in Nat
      /\ Caller.fac \in 1 .. n - 1 /\ facs[n].allowsErr \in BOOLEAN
  BY PopFactory DEF Factory
<1>2. ShapeAt(n) = prog.shape[Inj.mod] /\ FieldsOf(n, Top.pair) = prog.shape[Inj.mod][Top.pair]
  BY <1>1 DEF ShapeAt, FieldsOf
<1>3. Reasoned(facs, Top) /\ Top.pair \in prog.structs
  BY <1>1, TopJustified
<1> HIDE DEF n
<1>4. Blocked(Inj.mod, prog.shape[Inj.mod], Top.pair, facs[n].allowsErr)
  <2>1. CASE Top.err
    BY <1>1, <1>2, <1>3, <2>1 DEF Reasoned
  <2>2. CASE ~Top.err
    <3>1. facs[n].allowsErr = FALSE /\ RequiresErr(Top)
      BY <1>1, <2>2 DEF TryOK
    <3>2. CASE AccErr(prog.shape[Inj.mod][Top.pair])
      <4>1. \E fld \in Fields(prog.shape[Inj.mod], Top.pair) : fld.accErr
        BY <3>2 DEF AccErr, Fields
      <4>2. QED
        BY <3>1, <4>1, FieldBlocks
    <3>3. CASE \E fn \in Top.calls : fn.hasErr
      BY <1>1, <1>2, <1>3, <3>1, <3>3 DEF Reasoned
    <3>4. QED
      BY <1>1, <1>2, <3>1, <3>2, <3>3 DEF RequiresErr
  <2>3. QED
    BY <2>1, <2>2
<1>5. QED
  BY <1>3, <1>4, BlockedStructs DEF n

LEMMA RetryJustified ==
  ASSUME Typed, Justified, Retry
  PROVE  Justified'
<1> DEFINE n   == Len(facs)
           fr  == TryStruct("try", Top.fac, TRUE, Top.pair, Top.name,
                            prog.shape[Inj.mod][Top.pair])
           fac == Fork(facs[Caller.fac].line, n, TRUE, Top.pair, Top.name)
           s   == Placeholder(Top.pair, Top.name, TRUE)
<1>1. /\ TryEnds /\ ~TryOK /\ Return(fr) /\ facs' = Append(Pop(facs), fac)
      /\ UNCHANGED <<prog, cur, subconvs, failed>>
  BY DEF Retry
<1>2. /\ status = "building" /\ Top.kind = "try" /\ Top.fac = n /\ n \in Nat
      /\ Top \in Frame /\ Caller.fac \in 1 .. n - 1 /\ facs[Caller.fac] \in Factory
      /\ Pop(facs) \in Seq(Factory) /\ Len(Pop(facs)) = n - 1 /\ cur \in DOMAIN prog.injs
      /\ \A f \in 1 .. n - 1 : Pop(facs)[f] = facs[f]
  BY <1>1, PopFactory
<1>3. Top.pair \in Pairs /\ Top.name \in Name /\ n # 1
  BY <1>2 DEF Frame
<1>4. prog.shape[Inj.mod][Top.pair] \in Seq(Field)
      /\ prog.shape[Inj.mod][Top.pair] = ShapeAt(n)[Top.pair]
  BY <1>2, <1>3, ShapeFacts DEF ShapeAt
<1>5. facs[Caller.fac].line \subseteq Nat
  BY <1>2 DEF Factory
<1>6. fac.new = {s} /\ fac.allowsErr = TRUE /\ s.pair = Top.pair /\ ~s.done
  BY DEF Fork, Placeholder
<1>7. fr \in Frame /\ fr.kind = "try" /\ fr.fac = Top.fac /\ fr.pair = Top.pair
  <2> HIDE DEF n
  <2>1. QED
    BY <1>2, <1>3, <1>4 DEF TryStruct, Frame, Kinds
<1>8. fac \in Factory
  <2> HIDE DEF n
  <2>1. QED
    BY <1>2, <1>3, <1>5 DEF Fork, Factory, Placeholder, SubconvRec
<1> HIDE DEF fac, s
<1>9. /\ Len(facs') = n /\ facs'[n] = fac
      /\ \A f \in 1 .. n - 1 : facs'[f] = facs[f]
  <2>1. /\ Len(facs') = Len(Pop(facs)) + 1 /\ facs'[Len(Pop(facs)) + 1] = fac
        /\ \A f \in 1 .. Len(Pop(facs)) : facs'[f] = Pop(facs)[f]
    BY <1>1, <1>2, <1>8, AppendSeq
  <2>2. QED
    BY <1>2, <2>1
<1>10. Reasoned(facs', fr) /\ Progress(facs', fr)
  <2>1. facs'[n].allowsErr = TRUE
    BY <1>6, <1>9
  <2> HIDE DEF n
  <2>2. QED
    BY <1>2, <1>3, <1>4, <2>1, NewFrameJustified DEF Kinds
<1> HIDE DEF fr
<1>11. /\ \A f \in 1 .. n - 1 : Sees(facs, f, facs', f)
       /\ \A k \in 1 .. Len(frames) - 1 :
            /\ facs'[frames[k].fac].allowsErr = facs[frames[k].fac].allowsErr
            /\ Sees(facs, frames[k].fac, facs', frames[k].fac)
  BY <1>2, <1>9, BelowFork
<1>12. NewJustified(facs')
  <2>1. ASSUME NEW f \in 1 .. n - 1, NEW t \in facs'[f].new
        PROVE  Founded(facs', f, t)
    <3>1. f \in 1 .. n
      BY <1>2
    <3>2. Founded(facs, f, t)
      BY <1>9, <2>1, <3>1 DEF Justified, NewJustified
    <3>3. QED
      BY <1>11, <3>2, FoundedKept
  <2>2. Founded(facs', n, s)
    BY <1>1, <1>6, AttemptFailed DEF Founded
  <2>3. \A f \in 1 .. n : f \in 1 .. n - 1 \/ f = n
    BY <1>2
  <2>4. QED
    BY <1>6, <1>9, <2>1, <2>2, <2>3 DEF NewJustified
<1>13. QED
  BY <1>1, <1>2, <1>7, <1>10, <1>11, <1>12, ReplacedJustified

(* What a caller is at the field of, when a call for it fails. *)
LEMMA CallerMisses ==
  ASSUME Typed, Justified, status = "building", Top.kind # "explicit"
  PROVE  /\ Caller \in Frame /\ Caller.todo # <<>>
         /\ Reasoned(facs, Caller) /\ Progress(facs, Caller)
         /\ Head(Caller.todo) \in Fields(ShapeAt(Caller.fac), Caller.pair)
         /\ Head(Caller.todo).pair = Top.pair /\ HandWritten(Inj.mod, Head(Caller.todo)) = {}
         /\ Caller.fac \in 1 .. Len(facs) /\ facs[Caller.fac].allowsErr \in BOOLEAN
<1>1. /\ Len(frames) \in Nat /\ Len(frames) >= 2 /\ Top = frames[Len(frames)]
      /\ Caller = frames[Len(frames) - 1] /\ Caller \in Frame /\ Caller.todo # <<>>
      /\ Caller.fac \in 1 .. Len(facs)
  BY RunningFacts, CallerFacts
<1>2. Len(frames) - 1 \in 1 .. Len(frames) /\ Len(frames) \in 1 .. Len(frames) /\ Len(frames) > 1
  BY <1>1
<1>3. FrameJustified(frames, facs, Len(frames)) /\ FrameJustified(frames, facs, Len(frames) - 1)
  BY <1>2 DEF Justified
<1>4. Reasoned(facs, Caller) /\ Progress(facs, Caller) /\ Called(frames, Len(frames))
  BY <1>1, <1>3 DEF FrameJustified
<1>5. Head(Caller.todo) \in Fields(ShapeAt(Caller.fac), Caller.pair)
  BY <1>1, <1>4, MembersFacts DEF Progress, Frame
<1>6. Head(Caller.todo).pair = Top.pair /\ HandWritten(Inj.mod, Head(Caller.todo)) = {}
  BY <1>1, <1>2, <1>4 DEF Called
<1>7. facs[Caller.fac] \in Factory
  BY <1>1, RunningFacts
<1>8. QED
  BY <1>1, <1>4, <1>5, <1>6, <1>7 DEF Factory

LEMMA FailedJustified ==
  ASSUME Typed, Justified, status = "building", Top.kind # "explicit",
         ReturnToCaller(Missed(Caller)), UNCHANGED <<prog, cur, subconvs, failed>>,
         NewJustified(facs'),
         \A k \in 1 .. Len(frames) - 1 :
           /\ facs'[frames[k].fac].allowsErr = facs[frames[k].fac].allowsErr
           /\ Sees(facs, frames[k].fac, facs', frames[k].fac),
         \/ Top.pair \in Hopeless(Inj.mod)
         \/ ~facs[Caller.fac].allowsErr /\ Top.pair \in NeedsErr(Inj.mod)
  PROVE  Justified'
<1>1. /\ Caller \in Frame /\ Caller.todo # <<>>
      /\ Reasoned(facs, Caller) /\ Progress(facs, Caller)
      /\ Head(Caller.todo) \in Fields(ShapeAt(Caller.fac), Caller.pair)
      /\ Head(Caller.todo).pair = Top.pair /\ HandWritten(Inj.mod, Head(Caller.todo)) = {}
      /\ facs[Caller.fac].allowsErr \in BOOLEAN
  BY CallerMisses
<1>2. Blocked(Inj.mod, ShapeAt(Caller.fac), Caller.pair, facs[Caller.fac].allowsErr)
  <2>1. CASE Top.pair \in Hopeless(Inj.mod)
    BY <1>1, <2>1, FieldBlocks
  <2>2. CASE ~facs[Caller.fac].allowsErr /\ Top.pair \in NeedsErr(Inj.mod)
    <3>1. facs[Caller.fac].allowsErr = FALSE
      BY <1>1, <2>2
    <3>2. QED
      BY <1>1, <2>2, <3>1, FieldBlocks
  <2>3. QED
    BY <2>1, <2>2
<1>3. /\ facs'[Caller.fac].allowsErr = facs[Caller.fac].allowsErr
      /\ Sees(facs, Caller.fac, facs', Caller.fac)
  <2>1. Caller = frames[Len(frames) - 1] /\ Len(frames) - 1 \in 1 .. Len(frames) - 1
    BY RunningFacts, CallerFacts
  <2>2. QED
    BY <2>1
<1>4. \E fn : fn \in Fn
  <2>1. Caller.name \in Name
    BY <1>1 DEF Frame
  <2>2. [name |-> Caller.name, hasErr |-> FALSE] \in Fn
    BY <2>1 DEF Fn
  <2>3. QED
    BY <2>2
<1>5. Reasoned(facs', Missed(Caller)) /\ Progress(facs', Missed(Caller))
  BY <1>1, <1>2, <1>3, <1>4, NextField
<1>6. QED
  BY <1>1, <1>5, MissedFrame, CallerJustified

LEMMA GiveUpJustified ==
  ASSUME Typed, Justified, GiveUp
  PROVE  Justified'
<1>1. /\ TryEnds /\ ~TryOK /\ ~MayRetry /\ ReturnToCaller(Missed(Caller)) /\ facs' = Pop(facs)
      /\ UNCHANGED <<prog, cur, subconvs, failed>>
  BY DEF GiveUp
<1>2. /\ status = "building" /\ Top.kind = "try" /\ Top.kind # "explicit" /\ Top.fac = Len(facs)
      /\ Len(facs) \in Nat /\ Caller.fac \in 1 .. Len(facs) - 1
      /\ Len(facs') = Len(facs) - 1
      /\ \A f \in 1 .. Len(facs) - 1 : facs'[f] = facs[f]
  BY <1>1, PopFactory
<1>3. /\ \A f \in 1 .. Len(facs) - 1 : Sees(facs, f, facs', f)
      /\ \A k \in 1 .. Len(frames) - 1 :
           /\ facs'[frames[k].fac].allowsErr = facs[frames[k].fac].allowsErr
           /\ Sees(facs, frames[k].fac, facs', frames[k].fac)
  BY <1>2, BelowFork
<1>4. NewJustified(facs')
  <2>1. ASSUME NEW f \in 1 .. Len(facs) - 1, NEW t \in facs'[f].new
        PROVE  Founded(facs', f, t)
    <3>1. f \in 1 .. Len(facs)
      BY <1>2
    <3>2. Founded(facs, f, t)
      BY <1>2, <2>1, <3>1 DEF Justified, NewJustified
    <3>3. QED
      BY <1>3, <3>2, FoundedKept
  <2>2. QED
    BY <1>2, <2>1 DEF NewJustified
<1>5. \/ Top.pair \in Hopeless(Inj.mod)
      \/ ~facs[Caller.fac].allowsErr /\ Top.pair \in NeedsErr(Inj.mod)
  BY <1>1, <1>2, AttemptFailed DEF MayRetry
<1>6. QED
  BY <1>1, <1>2, <1>3, <1>4, <1>5, FailedJustified

LEMMA ReportRerunJustified ==
  ASSUME Typed, Sound, Linked, Justified, ReportRerun
  PROVE  Justified'
<1>1. /\ status = "building" /\ Top.kind = "rerun" /\ Top.kind # "explicit"
      /\ ReturnToCaller(Missed(Caller)) /\ UNCHANGED <<prog, cur, subconvs, failed, facs>>
  BY DEF ReportRerun, RerunEnds
<1>2. /\ Len(frames) \in 1 .. Len(frames) /\ Top = frames[Len(frames)]
      /\ Inj.mod \in Mods
  BY <1>1, RunningFacts DEF Injector
<1>3. ~facs[1].allowsErr /\ Reporting(Top)
  BY <1>1, <1>2 DEF Sound, SafeFrames, FrameSafe
<1>4. Top.pair \in NeedsErr(Inj.mod)
  BY <1>2, <1>3 DEF Reporting, Justified, ExportsJustified
<1>5. ~facs[Caller.fac].allowsErr
  <2>1. Caller.fac \in 1 .. Len(facs)
    BY <1>1, CallerMisses
  <2>2. QED
    BY <1>3, <2>1 DEF Linked, ErrorsFromRoot
<1>6. \A f : Sees(facs, f, facs', f)
  BY <1>1 DEF Sees
<1>7. NewJustified(facs')
  BY <1>1 DEF Justified
<1>8. QED
  BY <1>1, <1>4, <1>5, <1>6, <1>7, FailedJustified

(* An attempt that succeeds has built every field of its pair. *)
LEMMA CommitJustified ==
  ASSUME Typed, Sound, Linked, Justified, Commit
  PROVE  Justified'
<1> DEFINE fn == [name |-> Top.name, hasErr |-> facs[Top.fac].allowsErr]
           fr == Built(Caller, fn)
           n  == Len(facs)
           g  == Caller.fac
           C  == Completed(n, Top)
<1>1. /\ TryEnds /\ TryOK /\ ReturnToCaller(fr) /\ UNCHANGED <<prog, cur, subconvs, failed>>
      /\ Top.todo = <<>>
  BY DEF Commit, TryEnds
<1>2. /\ status = "building" /\ Top.kind = "try" /\ Top.kind # "explicit" /\ Top.fac = n
      /\ Top \in Frame /\ n \in Nat /\ g \in 1 .. n - 1 /\ facs[n] \in Factory
  BY <1>1, PopFactory
<1>3. /\ Len(facs') = n - 1
      /\ \A f \in 1 .. n - 1 : /\ facs'[f].allowsErr = facs[f].allowsErr
                               /\ facs'[f].line = facs[f].line
                               /\ f # g => facs'[f] = facs[f]
  BY CommitFacts
<1>4. facs'[g].new = facs[g].new \cup C /\ ~Top.err
  BY NothingDropped
<1>5. /\ \A c \in C : \E s \in facs[n].new :
           /\ c.name = s.name /\ c.pair = s.pair /\ AsFn(c) = AsFn(s)
           /\ c.pair = Top.pair => c.calls = Top.calls
           /\ c.pair # Top.pair => c = s /\ s.done
      /\ \A s \in facs[n].new : \E c \in C : AsFn(c) = AsFn(s) /\ c.pair = s.pair
  BY CompletedLike
<1>6. fn \in Fn
  BY <1>2 DEF Frame, Factory, Fn
<1>7. /\ \A f \in 1 .. n - 1 : Sees(facs, f, facs', f)
      /\ Sees(facs, n, facs', g)
  BY JoinSees
<1>8. /\ Reasoned(facs, Top) /\ Progress(facs, Top) /\ Top.pair \in prog.structs
  BY <1>2, TopJustified
<1>9. /\ Caller \in Frame /\ Caller.todo # <<>>
      /\ Reasoned(facs, Caller) /\ Progress(facs, Caller)
      /\ Head(Caller.todo) \in Fields(ShapeAt(g), Caller.pair)
      /\ Head(Caller.todo).pair = Top.pair /\ HandWritten(Inj.mod, Head(Caller.todo)) = {}
  BY <1>2, CallerMisses
<1>10. PICK s0 \in facs[n].new : s0.pair = Top.pair /\ AsFn(s0) = fn
  <2>1. PICK s \in facs[n].new : s.pair = Top.pair /\ s.name = Top.name
    BY <1>1, OwnPlaceholder
  <2>2. s \in SubconvRec
    BY <1>2, <2>1 DEF Factory
  <2>3. s.hasErr = facs[n].allowsErr
    <3>1. s.hasErr <=> facs[n].allowsErr
      BY <1>1, <2>1, OwnPlaceholder
    <3>2. s.hasErr \in BOOLEAN /\ facs[n].allowsErr \in BOOLEAN
      BY <1>2, <2>2 DEF SubconvRec, Factory
    <3>3. QED
      BY <3>1, <3>2
  <2>4. AsFn(s) = fn
    BY <1>2, <2>1, <2>3 DEF AsFn
  <2>5. QED
    BY <2>1, <2>4
<1>11. n \in 1 .. n /\ n # 1 /\ \A f \in 1 .. n - 1 : f \in 1 .. n
  BY <1>2
<1> HIDE DEF fr, fn, n, C
<1>12. fn.hasErr => Blocked(Inj.mod, ShapeAt(g), Caller.pair, FALSE)
  <2>1. AsFn(s0).hasErr = s0.hasErr
    BY DEF AsFn
  <2>2. s0.hasErr => Top.pair \in NeedsErr(Inj.mod) \cup Hopeless(Inj.mod)
    BY <1>10, <1>11 DEF Justified, NewJustified, Founded, n
  <2>3. QED
    BY <1>9, <1>10, <2>1, <2>2, FieldBlocks
<1>13. Resolved(Inj.mod, Visible(facs', g), Head(Caller.todo), {fn})
  <2>1. s0 \in Visible(facs, n)
    <3>1. n \in facs[n].line
      BY <1>11 DEF Linked, OnLine, n
    <3>2. QED
      BY <3>1 DEF Visible
  <2>2. PICK t \in Visible(facs', g) : AsFn(t) = AsFn(s0) /\ t.pair = s0.pair
    BY <1>7, <2>1 DEF Sees
  <2>3. QED
    BY <1>9, <1>10, <2>2 DEF Resolved
<1>14. Reasoned(facs', fr) /\ Progress(facs', fr)
  <2>1. facs'[g].allowsErr = facs[g].allowsErr /\ Sees(facs, g, facs', g)
    BY <1>2, <1>3, <1>7
  <2>2. QED
    BY <1>6, <1>9, <1>12, <1>13, <2>1, NextField DEF fr
<1>15. ASSUME NEW c \in C
       PROVE  Founded(facs', g, c)
  <2>1. PICK s \in facs[n].new :
          /\ c.pair = s.pair /\ AsFn(c) = AsFn(s)
          /\ c.pair = Top.pair => c.calls = Top.calls
          /\ c.pair # Top.pair => c = s /\ s.done
    BY <1>5
  <2>2. Founded(facs, n, s)
    BY <1>11, <2>1 DEF Justified, NewJustified, n
  <2>3. CASE c.pair # Top.pair
    BY <1>7, <2>1, <2>2, <2>3, FoundedKept
  <2>4. CASE c.pair = Top.pair
    <3>1. c.hasErr = s.hasErr
      BY <2>1 DEF AsFn
    <3>2. Covered(Inj.mod, Visible(facs, n), prog.shape[Inj.mod][Top.pair], Top.calls)
      <4>1. ShapeAt(n) = prog.shape[Inj.mod] /\ Top.fac = n
        BY <1>2, <1>11 DEF ShapeAt, n
      <4>2. Members(Top.todo) = {}
        BY <1>1 DEF Members
      <4>3. \A fld \in Fields(prog.shape[Inj.mod], Top.pair) :
              Resolved(Inj.mod, Visible(facs, n), fld, Top.calls)
        BY <1>4, <1>8, <4>1, <4>2 DEF Progress
      <4>4. QED
        BY <4>3 DEF Covered, Fields
    <3>3. Covered(Inj.mod, Visible(facs', g), prog.shape[Inj.mod][c.pair], c.calls)
      BY <1>7, <2>1, <2>4, <3>2, StaysCovered DEF Sees
    <3>4. QED
      BY <2>1, <2>2, <3>1, <3>3 DEF Founded
  <2>5. QED
    BY <2>3, <2>4
<1>16. NewJustified(facs')
  <2>1. ASSUME NEW f \in 1 .. n - 1, NEW s \in facs'[f].new
        PROVE  Founded(facs', f, s)
    <3>1. CASE s \in facs[f].new
      <4>1. Founded(facs, f, s)
        BY <1>11, <3>1 DEF Justified, NewJustified, n
      <4>2. QED
        BY <1>7, <4>1, FoundedKept
    <3>2. CASE f = g /\ s \in C
      BY <1>15, <3>2
    <3>3. s \in facs[f].new \/ (f = g /\ s \in C)
      BY <1>3, <1>4, <2>1
    <3>4. QED
      BY <3>1, <3>2, <3>3
  <2>2. QED
    BY <1>3, <2>1 DEF NewJustified
<1>17. \A k \in 1 .. Len(frames) - 1 :
         /\ facs'[frames[k].fac].allowsErr = facs[frames[k].fac].allowsErr
         /\ Sees(facs, frames[k].fac, facs', frames[k].fac)
  <2>1. \A k \in 1 .. Len(frames) - 1 : frames[k].fac \in 1 .. n - 1
    BY <1>2, BelowTry DEF n
  <2>2. QED
    BY <1>3, <1>7, <2>1
<1>18. fr \in Frame /\ fr.kind = Caller.kind /\ fr.fac = Caller.fac /\ fr.pair = Caller.pair
  BY <1>6, <1>9, AfterField DEF fr
<1>19. QED
  BY <1>1, <1>2, <1>14, <1>16, <1>17, <1>18, CallerJustified

-----------------------------------------------------------------------------
(* Subconverters each of whose fields is built from among them are for pairs *)
(* that are not hopeless, and those without an error return need none.       *)
LEMMA CoveredNotHopeless ==
  ASSUME NEW m, NEW E,
         \A s \in E : s.pair \in prog.structs /\ Covered(m, E, prog.shape[m][s.pair], s.calls)
  PROVE  \A s \in E : s.pair \notin Hopeless(m)
<1> DEFINE S    == prog.structs \ {s.pair : s \in E}
           lost == {q \in prog.structs : ~(SubPairs(m, prog.shape[m], q) \subseteq prog.structs)}
<1>1. ASSUME NEW s \in E, NEW p \in SubPairs(m, prog.shape[m], s.pair)
      PROVE  \E t \in E : t.pair = p
  <2>1. PICK fld \in Fields(prog.shape[m], s.pair) : fld.pair = p /\ HandWritten(m, fld) = {}
    BY <1>1 DEF SubPairs
  <2>2. Resolved(m, E, fld, s.calls)
    BY <2>1 DEF Covered, Fields
  <2>3. QED
    BY <2>1, <2>2 DEF Resolved
<1>2. lost \subseteq S
  BY <1>1
<1>3. \A q \in prog.structs : SubPairs(m, prog.shape[m], q) \cap S # {} => q \in S
  BY <1>1
<1>4. S \in SUBSET prog.structs /\ lost \subseteq prog.structs
  OBVIOUS
<1> HIDE DEF S
<1>5. Backward(m, lost) \subseteq S
  <2> HIDE DEF lost
  <2>1. QED
    BY <1>2, <1>3, <1>4, BackwardFacts
<1>6. QED
  BY <1>5 DEF Hopeless, S

LEMMA ErrorlessNotNeeded ==
  ASSUME NEW m, NEW E,
         \A p \in prog.structs : \A fld \in Fields(prog.shape[m], p) : AtMostOne(HandWritten(m, fld)),
         \A s \in E : s.pair \in prog.structs /\ Covered(m, E, prog.shape[m][s.pair], s.calls),
         \A s \in E : s.hasErr \/ /\ \A fn \in s.calls : ~fn.hasErr
                                  /\ ~AccErr(prog.shape[m][s.pair])
  PROVE  \A s \in E : ~s.hasErr => s.pair \notin NeedsErr(m)
<1> DEFINE S     == prog.structs \ {s.pair : s \in {t \in E : ~t.hasErr}}
           fails == {q \in prog.structs : MayFail(m, prog.shape[m], q)}
<1>1. ASSUME NEW s \in E, ~s.hasErr, NEW fld \in Fields(prog.shape[m], s.pair)
      PROVE  /\ ~fld.accErr /\ \A fn \in HandWritten(m, fld) : ~fn.hasErr
             /\ HandWritten(m, fld) = {} => \E t \in E : t.pair = fld.pair /\ ~t.hasErr
  <2>1. Resolved(m, E, fld, s.calls) /\ ~fld.accErr /\ \A fn \in s.calls : ~fn.hasErr
    BY <1>1 DEF Covered, Fields, AccErr
  <2>2. CASE HandWritten(m, fld) \cap s.calls # {}
    BY <1>1, <2>1, <2>2 DEF AtMostOne
  <2>3. CASE HandWritten(m, fld) = {} /\ \E t \in E : t.pair = fld.pair /\ AsFn(t) \in s.calls
    <3>1. PICK t \in E : t.pair = fld.pair /\ AsFn(t) \in s.calls
      BY <2>3
    <3>2. ~AsFn(t).hasErr
      BY <2>1, <3>1
    <3>3. ~t.hasErr
      BY <3>2 DEF AsFn
    <3>4. QED
      BY <2>1, <2>3, <3>1, <3>3
  <2>4. QED
    BY <2>1, <2>2, <2>3 DEF Resolved
<1>2. ASSUME NEW s \in E, ~s.hasErr
      PROVE  s.pair \notin fails
  BY <1>1, <1>2 DEF MayFail
<1>3. ASSUME NEW s \in E, ~s.hasErr, NEW p \in SubPairs(m, prog.shape[m], s.pair)
      PROVE  p \notin S
  <2>1. PICK fld \in Fields(prog.shape[m], s.pair) : fld.pair = p /\ HandWritten(m, fld) = {}
    BY <1>3 DEF SubPairs
  <2>2. QED
    BY <1>1, <1>3, <2>1
<1>4. fails \subseteq S
  BY <1>2
<1>5. \A q \in prog.structs : SubPairs(m, prog.shape[m], q) \cap S # {} => q \in S
  BY <1>3
<1>6. S \in SUBSET prog.structs /\ fails \subseteq prog.structs
  OBVIOUS
<1> HIDE DEF S
<1>7. Backward(m, fails) \subseteq S
  <2> HIDE DEF fails
  <2>1. QED
    BY <1>4, <1>5, <1>6, BackwardFacts
<1>8. QED
  BY <1>7 DEF NeedsErr, S

-----------------------------------------------------------------------------
(* A field has at most one function written by hand.                         *)
LEMMA OneFunction ==
  ASSUME Typed, NEW m \in Mods, NEW shape \in Shape, OneEach(shape),
         NEW p \in Pairs, NEW fld \in Fields(shape, p)
  PROVE  AtMostOne(HandWritten(m, fld))
<1>1. prog \in Programs
  BY DEF Typed, Nested
<1>2. PICK i \in DOMAIN shape[p] : fld = shape[p][i]
  BY DEF Fields
<1>3. shape[p] \in Seq(Field)
  BY DEF Shape
<1>4. fld.pair \in Pairs
  <2>1. fld \in Field
    BY <1>2, <1>3, ElementOfSeq
  <2>2. QED
    BY <2>1 DEF Field
<1>5. AtMostOne(fld.func)
  BY <1>2 DEF OneEach
<1>6. AtMostOne(prog.lookup[m][fld.pair])
  BY <1>1, <1>4, FunctionsAssumption
<1>7. QED
  BY <1>5, <1>6 DEF HandWritten

LEMMA OneFunctionEach ==
  ASSUME Typed, NEW m \in Mods
  PROVE  \A p \in prog.structs : \A fld \in Fields(prog.shape[m], p) :
           AtMostOne(HandWritten(m, fld))
<1>1. prog \in Programs /\ prog \in Program
  BY DEF Typed, Nested, TypeOK
<1>2. prog.shape[m] \in Shape /\ prog.structs \subseteq Pairs
  BY <1>1 DEF Program
<1>3. OneEach(prog.shape[m])
  BY <1>1, FunctionsAssumption
<1>4. QED
  BY <1>2, <1>3, OneFunction

-----------------------------------------------------------------------------
LEMMA BeginInjectorJustified ==
  ASSUME Typed, Justified, BeginInjector
  PROVE  Justified'
<1> DEFINE fr  == TryStruct("explicit", 1, Inj.hasErr, Inj.pair, Inj.name,
                            Inj.shape[Inj.pair])
           fac == [allowsErr |-> Inj.hasErr, line |-> {1}, new |-> {}]
<1>1. frames' = <<fr>> /\ facs' = <<fac>> /\ UNCHANGED <<prog, cur, subconvs, failed>>
  BY DEF BeginInjector
<1>2. prog \in Program /\ prog.injs \in Seq(Injector) /\ cur \in DOMAIN prog.injs
  BY DEF BeginInjector, Typed, TypeOK, Program
<1>3. /\ Inj \in Injector /\ Inj.pair \in Pairs /\ Inj.hasErr \in BOOLEAN
      /\ Inj.name \in Name
  <2>1. Inj \in Injector
    BY <1>2 DEF Inj
  <2>2. QED
    BY <2>1 DEF Injector
<1>4. Inj.shape[Inj.pair] \in Seq(Field) /\ Inj.shape[Inj.pair] = ShapeAt(1)[Inj.pair]
  BY <1>2, <1>3, ShapeFacts DEF ShapeAt
<1>5. fr.kind = "explicit" /\ fr.pair = Inj.pair
  BY DEF TryStruct
<1>6. fac.new = {} /\ fac.allowsErr = Inj.hasErr
  OBVIOUS
<1> HIDE DEF fac
<1>7. /\ Len(facs') = 1 /\ facs'[1] = fac /\ Len(frames') = 1 /\ frames'[1] = fr
      /\ \A i \in 1 .. 1 : i = 1
  BY <1>1
<1>8. Reasoned(facs', fr) /\ Progress(facs', fr)
  <2>1. facs'[1].allowsErr => Inj.hasErr
    BY <1>6, <1>7
  <2>2. "explicit" \in Kinds /\ 1 \in Nat
    BY DEF Kinds
  <2>3. QED
    BY <1>3, <1>4, <2>1, <2>2, NewFrameJustified
<1> HIDE DEF fr
<1>9. FrameJustified(frames', facs', 1)
  BY <1>5, <1>7, <1>8 DEF FrameJustified, Called
<1>10. NewJustified(facs')
  BY <1>6, <1>7 DEF NewJustified
<1>11. QED
  BY <1>1, <1>7, <1>9, <1>10, StillJustified

(* The injector's own frame when assign.Build returns. *)
LEMMA RootJustified ==
  ASSUME Typed, Sound, Linked, Justified, EndInjector
  PROVE  /\ Reasoned(facs, Top) /\ Progress(facs, Top) /\ Top.todo = <<>>
         /\ Top.fac = 1 /\ Top.pair = Inj.pair /\ ShapeAt(1) = Inj.shape
         /\ SafeRoot(Top, facs[1]) /\ 1 \in 1 .. Len(facs)
<1>1. status = "building" /\ Top.kind = "explicit" /\ Top.todo = <<>>
  BY DEF EndInjector
<1>2. /\ Len(frames) \in Nat /\ Len(frames) >= 1 /\ Top = frames[Len(frames)]
      /\ Nesting(frames, Len(facs)) /\ frames[1].fac = 1
  BY <1>1, RunningFacts
<1>3. Len(frames) \in 1 .. Len(frames)
  BY <1>2
<1>4. Len(frames) = 1
  BY <1>1, <1>2, <1>3 DEF Nesting, FramesFit
<1>5. Top.pair = Inj.pair /\ Top.fac = 1
  BY <1>2, <1>3, <1>4 DEF Justified, FrameJustified
<1>6. SafeRoot(Top, facs[1]) /\ 1 \in 1 .. Len(facs)
  BY <1>1, RootFacts, RunningFacts
<1>7. Reasoned(facs, Top) /\ Progress(facs, Top)
  BY <1>1, TopJustified
<1>8. QED
  BY <1>1, <1>5, <1>6, <1>7 DEF ShapeAt

(* An injector that is refused could not be built. *)
LEMMA RefusedForAReason ==
  ASSUME Typed, Sound, Linked, Justified, EndInjector, Top.err
  PROVE  ~Convertible(Inj)
<1>1. Blocked(Inj.mod, Inj.shape, Inj.pair, facs[1].allowsErr)
  BY RootJustified DEF Reasoned
<1>2. facs[1].allowsErr <=> Inj.hasErr
  BY RootJustified DEF SafeRoot
<1>3. QED
  BY <1>1, <1>2 DEF Blocked, Convertible

(* What the module exports once an injector is built. *)
LEMMA ExportsClosed ==
  ASSUME Typed, Sound, Linked, Justified, EndInjector, ~Top.err
  PROVE  /\ Inj.mod \in Mods /\ subconvs'[Inj.mod] = Visible(facs, 1)
         /\ \A m \in Mods : m # Inj.mod => subconvs'[m] = subconvs[m]
         /\ \A s \in subconvs'[Inj.mod] :
              /\ s.pair \in prog.structs /\ s.pair \notin Hopeless(Inj.mod)
              /\ Covered(Inj.mod, subconvs'[Inj.mod], prog.shape[Inj.mod][s.pair], s.calls)
              /\ s.hasErr <=> s.pair \in NeedsErr(Inj.mod)
<1> DEFINE M == Inj.mod
           E == subconvs'[M]
<1>1. /\ E = subconvs[M] \cup facs[1].new /\ E = Visible(facs, 1) /\ M \in Mods
      /\ \A m \in Mods : m # M => subconvs'[m] = subconvs[m]
      /\ \A s \in facs[1].new : s.done
  BY ExportFacts
<1>2. prog' = prog /\ 1 \in 1 .. Len(facs)
  BY RootJustified DEF EndInjector
<1>3. \A s \in subconvs[M] : \E t \in E : AsFn(t) = AsFn(s) /\ t.pair = s.pair
  BY <1>1
<1> HIDE DEF M, E
<1>4. ASSUME NEW s \in subconvs[M]
      PROVE  s.pair \in prog.structs /\ Covered(M, E, prog.shape[M][s.pair], s.calls)
  <2>1. s.pair \in prog.structs /\ Covered(M, subconvs[M], prog.shape[M][s.pair], s.calls)
    BY <1>1 DEF Justified, ExportsJustified
  <2>2. QED
    BY <1>3, <2>1, StaysCovered
<1>5. ASSUME NEW s \in facs[1].new
      PROVE  s.pair \in prog.structs /\ Covered(M, E, prog.shape[M][s.pair], s.calls)
  <2>1. Founded(facs, 1, s)
    BY <1>2, <1>5 DEF Justified, NewJustified
  <2>2. QED
    BY <1>1, <2>1 DEF Founded, M
<1>6. \A s \in E : s.pair \in prog.structs /\ Covered(M, E, prog.shape[M][s.pair], s.calls)
  BY <1>1, <1>4, <1>5
<1>7. \A s \in E : s.pair \notin Hopeless(M)
  BY <1>6, CoveredNotHopeless
<1>8. ASSUME NEW s \in E, s.hasErr
      PROVE  s.pair \in NeedsErr(M)
  <2>1. CASE s \in subconvs[M]
    BY <1>1, <1>8, <2>1 DEF Justified, ExportsJustified
  <2>2. CASE s \in facs[1].new
    <3>1. Founded(facs, 1, s)
      BY <1>2, <2>2 DEF Justified, NewJustified
    <3>2. QED
      BY <1>7, <1>8, <3>1 DEF Founded, M
  <2>3. QED
    BY <1>1, <1>8, <2>1, <2>2
<1>9. \A s \in E : s.hasErr \/ /\ \A fn \in s.calls : ~fn.hasErr
                               /\ ~AccErr(prog.shape[M][s.pair])
  <2>1. SafeExports'
    BY EndInjectorSound DEF Sound
  <2>2. QED
    BY <1>1, <1>2, <2>1 DEF SafeExports, SafeFn, E
<1>10. \A s \in E : ~s.hasErr => s.pair \notin NeedsErr(M)
  BY <1>1, <1>6, <1>9, OneFunctionEach, ErrorlessNotNeeded
<1>11. QED
  BY <1>1, <1>6, <1>7, <1>8, <1>10 DEF M, E

(* An injector that is built is one that can be. *)
LEMMA BuiltForAReason ==
  ASSUME Typed, Sound, Linked, Justified, EndInjector, ~Top.err
  PROVE  Convertible(Inj)
<1> DEFINE M     == Inj.mod
           E     == subconvs'[M]
           shape == Inj.shape
           p     == Inj.pair
<1>1. /\ M \in Mods /\ E = Visible(facs, 1)
      /\ \A s \in E : s.pair \notin Hopeless(M) /\ (s.hasErr <=> s.pair \in NeedsErr(M))
  BY ExportsClosed
<1>2. /\ SafeRoot(Top, facs[1]) /\ Progress(facs, Top) /\ Top.todo = <<>>
      /\ Top.fac = 1 /\ Top.pair = p /\ ShapeAt(1) = shape
  BY RootJustified
<1>3. /\ prog \in Programs /\ Inj \in Injector /\ cur \in DOMAIN prog.injs
  <2>1. status = "building" /\ prog \in Programs
    BY DEF EndInjector, Typed, Nested
  <2>2. QED
    BY <2>1, RunningFacts
<1>4. shape \in Shape /\ p \in Pairs /\ OneEach(shape)
  <2>1. OneEach(prog.injs[cur].shape)
    BY <1>3, FunctionsAssumption
  <2>2. QED
    BY <1>3, <2>1 DEF Injector, Inj
<1> HIDE DEF M, E, shape, p
<1>5. \A fld \in Fields(shape, p) : Resolved(M, E, fld, Top.calls)
  <2>1. Members(Top.todo) = {}
    BY <1>2 DEF Members
  <2>2. QED
    BY <1>1, <1>2, <2>1 DEF Progress, M
<1>6. ASSUME NEW q \in SubPairs(M, shape, p)
      PROVE  \E t \in E : t.pair = q /\ AsFn(t) \in Top.calls
  <2>1. PICK fld \in Fields(shape, p) : fld.pair = q /\ HandWritten(M, fld) = {}
    BY <1>6 DEF SubPairs
  <2>2. QED
    BY <1>5, <2>1 DEF Resolved
<1>7. SubPairs(M, shape, p) \cap Hopeless(M) = {}
  BY <1>1, <1>6
<1>8. ASSUME ~Inj.hasErr
      PROVE  ~MayFail(M, shape, p) /\ SubPairs(M, shape, p) \cap NeedsErr(M) = {}
  <2>1. (\A fn \in Top.calls : ~fn.hasErr) /\ ~AccErr(shape[p])
    BY <1>2, <1>8 DEF SafeRoot, shape, p
  <2>2. ASSUME NEW fld \in Fields(shape, p)
        PROVE  ~fld.accErr /\ \A fn \in HandWritten(M, fld) : ~fn.hasErr
    <3>1. ~fld.accErr
      BY <2>1, <2>2 DEF Fields, AccErr
    <3>2. AtMostOne(HandWritten(M, fld))
      BY <1>1, <1>4, <2>2, OneFunction
    <3>3. QED
      BY <1>5, <2>1, <3>1, <3>2 DEF Resolved, AtMostOne
  <2>3. ASSUME NEW q \in SubPairs(M, shape, p)
        PROVE  q \notin NeedsErr(M)
    <3>1. PICK t \in E : t.pair = q /\ AsFn(t) \in Top.calls
      BY <1>6, <2>3
    <3>2. ~AsFn(t).hasErr
      BY <2>1, <3>1
    <3>3. ~t.hasErr
      BY <3>2 DEF AsFn
    <3>4. QED
      BY <1>1, <3>1, <3>3
  <2>4. QED
    BY <2>2, <2>3 DEF MayFail
<1>9. QED
  BY <1>7, <1>8 DEF Convertible, M, shape, p

LEMMA EndInjectorJustified ==
  ASSUME Typed, Sound, Linked, Justified, EndInjector
  PROVE  Justified'
<1>1. facs' = <<>> /\ frames' = <<>> /\ prog' = prog /\ cur' = cur + 1
  BY DEF EndInjector
<1>2. Len(facs') = 0 /\ Len(frames') = 0
  BY <1>1
<1>3. /\ failed' = IF Top.err THEN failed \cup {cur} ELSE failed
      /\ failed \subseteq 1 .. cur - 1 /\ cur \in Nat /\ cur >= 1
  BY DEF EndInjector, Justified, Typed, TypeOK
<1>4. Convertible(Inj) <=> ~Top.err
  BY RefusedForAReason, BuiltForAReason
<1>5. cur \notin failed /\ failed' \subseteq 1 .. cur' - 1
  BY <1>1, <1>3
<1>6. ASSUME NEW i \in 1 .. cur' - 1
      PROVE  i \in failed' <=> ~Convertible(prog.injs[i])
  <2>1. CASE i = cur
    BY <1>3, <1>4, <1>5, <2>1 DEF Inj
  <2>2. CASE i # cur
    <3>1. i \in 1 .. cur - 1
      BY <1>1, <1>3, <2>2
    <3>2. QED
      BY <1>3, <2>2, <3>1 DEF Justified, OutcomeIsDetermined
  <2>3. QED
    BY <2>1, <2>2
<1>7. OutcomeIsDetermined'
  BY <1>1, <1>6, PackageFixed DEF OutcomeIsDetermined
<1>8. ASSUME NEW m \in Mods, NEW s \in subconvs'[m]
      PROVE  /\ s.pair \in prog.structs
             /\ Covered(m, subconvs'[m], prog.shape[m][s.pair], s.calls)
             /\ s.hasErr => s.pair \in NeedsErr(m)
  <2>1. CASE subconvs'[m] = subconvs[m]
    BY <1>8, <2>1 DEF Justified, ExportsJustified
  <2>2. CASE ~Top.err /\ m = Inj.mod
    BY <1>8, <2>2, ExportsClosed
  <2>3. subconvs'[m] = subconvs[m] \/ (~Top.err /\ m = Inj.mod)
    <3>1. CASE Top.err
      BY <3>1 DEF EndInjector
    <3>2. CASE ~Top.err
      BY <3>2, ExportsClosed
    <3>3. QED
      BY <3>1, <3>2
  <2>4. QED
    BY <2>1, <2>2, <2>3
<1>9. ExportsJustified'
  BY <1>1, <1>8, PackageFixed DEF ExportsJustified
<1>10. NewJustified(facs)'
  BY <1>2 DEF NewJustified
<1>11. QED
  BY <1>2, <1>5, <1>7, <1>9, <1>10 DEF Justified

-----------------------------------------------------------------------------
LEMMA StatusJustified ==
  ASSUME Typed, Justified, EndBuild \/ Overflow \/ Panic \/ UNCHANGED vars
  PROVE  Justified'
<1>1. UNCHANGED <<prog, cur, subconvs, failed, facs, frames>>
  BY DEF EndBuild, Overflow, Panic, vars
<1>2. /\ NewJustified(facs')
      /\ \A k \in 1 .. Len(frames') : FrameJustified(frames', facs', k)
  BY <1>1 DEF Justified
<1>3. QED
  BY <1>1, <1>2, StillJustified

LEMMA InitJustified ==
  ASSUME Init
  PROVE  Justified
<1>1. Len(facs) = 0 /\ Len(frames) = 0 /\ 1 .. cur - 1 = {} /\ failed = {}
  BY DEF Init
<1>2. NewJustified(facs) /\ \A k \in 1 .. Len(frames) : FrameJustified(frames, facs, k)
  BY <1>1 DEF NewJustified
<1>3. OutcomeIsDetermined
  BY <1>1 DEF OutcomeIsDetermined
<1>4. ExportsJustified
  BY DEF Init, ExportsJustified
<1>5. QED
  BY <1>1, <1>2, <1>3, <1>4 DEF Justified

LEMMA NextJustified ==
  ASSUME Typed, Sound, Linked, Justified, [Next]_vars
  PROVE  Justified'
<1>1. CASE BeginInjector
  BY <1>1, BeginInjectorJustified
<1>2. CASE EndInjector
  BY <1>2, EndInjectorJustified
<1>3. CASE EndBuild \/ Overflow \/ Panic \/ UNCHANGED vars
  BY <1>3, StatusJustified
<1>4. CASE TryMatchFunc \/ TryModuleFunc
  BY <1>4, FuncJustified
<1>5. CASE TrySubconvFunc
  BY <1>5, TrySubconvFuncJustified
<1>6. CASE Rerun
  BY <1>6, RerunJustified
<1>7. CASE TrySubconv
  BY <1>7, TrySubconvJustified
<1>8. CASE Unconvertible
  BY <1>8, UnconvertibleJustified
<1>9. CASE Commit
  BY <1>9, CommitJustified
<1>10. CASE Retry
  BY <1>10, RetryJustified
<1>11. CASE GiveUp
  BY <1>11, GiveUpJustified
<1>12. CASE ReportRerun
  BY <1>12, ReportRerunJustified
<1>13. QED
  BY <1>1, <1>2, <1>3, <1>4, <1>5, <1>6, <1>7, <1>8, <1>9, <1>10, <1>11, <1>12
  DEF Next, Build, Stopped

LEMMA AlwaysJustified == Spec => [](Typed /\ Sound /\ Linked /\ Justified)
<1>1. Init => Typed /\ Sound /\ Linked /\ Justified
  BY InitTyped, InitSound, InitLinked, InitJustified
<1>2. Typed /\ Sound /\ Linked /\ Justified /\ [Next]_vars
        => Typed' /\ Sound' /\ Linked' /\ Justified'
  BY NextTyped, NextSound, NextLinked, NextJustified
<1>3. QED
  BY <1>1, <1>2, PTL DEF Spec

(* A subconverter returns an error exactly if its pair reaches a function or *)
(* an accessor that returns one, in every package and however the attempts   *)
(* and the retries that led to it went: no error return is needless, and     *)
(* none is missing.                                                          *)
THEOREM ErrorReturnsAreNeeded == Spec => []ErrorsAreNeeded
<1>1. ASSUME Typed, Sound, Justified
      PROVE  ErrorsAreNeeded
  <2>1. ASSUME NEW m \in Mods, NEW s \in subconvs[m]
        PROVE  s.hasErr <=> s.pair \in NeedsErr(m)
    <3>1. /\ \A t \in subconvs[m] :
               /\ t.pair \in prog.structs
               /\ Covered(m, subconvs[m], prog.shape[m][t.pair], t.calls)
          /\ s.hasErr => s.pair \in NeedsErr(m)
      BY <1>1, <2>1 DEF Justified, ExportsJustified
    <3>2. \A t \in subconvs[m] : t.hasErr \/ /\ \A fn \in t.calls : ~fn.hasErr
                                             /\ ~AccErr(prog.shape[m][t.pair])
      BY <1>1 DEF Sound, SafeExports, SafeFn
    <3>3. \A t \in subconvs[m] : ~t.hasErr => t.pair \notin NeedsErr(m)
      BY <1>1, <3>1, <3>2, OneFunctionEach, ErrorlessNotNeeded
    <3>4. QED
      BY <2>1, <3>1, <3>3
  <2>2. QED
    BY <2>1 DEF ErrorsAreNeeded
<1>2. QED
  BY <1>1, AlwaysJustified, PTL

(* Whether an injector is built can be read off its package alone: neither   *)
(* the injectors before it, built or refused, nor the subconverters they     *)
(* left, nor the order of the attempts make a difference, in any package.    *)
THEOREM OutcomeDependsOnThePackage == Spec => []OutcomeIsDetermined
<1>1. Justified => OutcomeIsDetermined
  BY DEF Justified
<1>2. QED
  BY <1>1, AlwaysJustified, PTL
=============================================================================
