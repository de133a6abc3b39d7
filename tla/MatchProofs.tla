------------------------------ MODULE MatchProofs ------------------------------
(***************************************************************************)
(* Proofs about matching, for all types, options and numbers of members.   *)
(***************************************************************************)
EXTENDS MatchProps, SequenceTheorems, TLAPS

(* What is left of a list of options, and what has been applied. *)
Rest(s, t) ==
  Len(s) <= Len(t) /\ \A i \in 1 .. Len(s) : s[i] = t[Len(t) - Len(s) + i]

Past(s, t) == {t[i] : i \in 1 .. Len(t) - Len(s)}

Listed(s) == {s[i] : i \in DOMAIN s}

Applied == /\ Rest(todo.x.nested, prob.x.nested) /\ Rest(todo.y.nested, prob.y.nested)
           /\ Rest(todo.match, prob.match) /\ Rest(todo.skip, prob.skip)

-----------------------------------------------------------------------------
(* Positions that Match names are in the index as soon as it is applied. *)
Indexed ==
  \A m \in Past(todo.match, prob.match) :
    (\E e \in xs : e.pos = m[1].pos) /\ (\E e \in ys : e.pos = m[2].pos)

Typed ==
  /\ prob \in Problems
  /\ TypeOK
  /\ Applied
  /\ Indexed
  /\ phase = "start" \/ todo.x.nested # <<>> \/ todo.y.nested # <<>> => todo.match = prob.match
  /\ phase \notin {"start", "discover"} => todo.match = <<>>
  /\ phase = "done" => todo.skip = <<>>
  /\ NothingIsMerged

(***************************************************************************)
(* The indexes hold what is wanted, and the links what is meant except for *)
(* what the MatchSkips applied so far have taken away or reported.         *)
(***************************************************************************)
Opened(d, n) ==
  (d.top \cup UNION {d.nested[i].subs : i \in 1 .. n}) \ {d.nested[i].field : i \in 1 .. n}

IndexX ==
  Opened(prob.x, Len(prob.x.nested) - Len(todo.x.nested))
  \cup {m[1] : m \in Past(todo.match, prob.match)}

IndexY ==
  Opened(prob.y, Len(prob.y.nested) - Len(todo.y.nested))
  \cup {m[2] : m \in Past(todo.match, prob.match)}

Unnamed ==
  {l \in WantedX \X WantedY :
     l[1].key = l[2].key /\ \A m \in Pairs : m[1] # l[1] /\ m[2] # l[2]}

(* MatchSkip lets x or y go. *)
LetGoX(x) == \E s \in Skips : s[1] = x /\ (s \in Meant \/ s[2] \notin WantedY)
LetGoY(y) == \E s \in Skips : s[2] = y /\ (s \in Meant \/ s[1] \notin WantedX)

Kept ==
  /\ \A x \in WantedX : \/ \E l \in links : l[1] = x
                        \/ \E r \in fails : r[1] = x
                        \/ LetGoX(x)
  /\ \A y \in WantedY : \/ \E l \in links : l[2] = y
                        \/ \E r \in fails : r[2] = y
                        \/ LetGoY(y)
                        \/ y.pos = prob.default

Blameless == ~(Loss \/ Merge \/ Blank \/ \E s \in Skips : Ineffective(s))

(* A FAIL without a reason is that a member is missing, and is lifted when   *)
(* the MatchSkip of a pair of it is applied.                                 *)
Passing(r) ==
  \E l \in links : /\ l \in Listed(todo.skip)
                   /\ r = <<l[1], Missing>> \/ r = <<Missing, l[2]>>

Skipping ==
  /\ links \subseteq Meant
  /\ Meant \ links \subseteq Past(todo.skip, prob.skip)
  /\ \A s \in Past(todo.skip, prob.skip) : s \in links => s \in fails
  /\ \A r \in fails : Missing \in {r[1], r[2]} \/ r \in Past(todo.skip, prob.skip)
  /\ Kept
  /\ Blameless => \A r \in fails : Passing(r)

Meaning ==
  /\ phase = "start" => xs = {} /\ ys = {} /\ todo = prob
  /\ phase = "discover" => xs = IndexX /\ ys = IndexY
  /\ phase \in {"key", "forced", "missing", "done"} => xs = WantedX /\ ys = WantedY
  /\ phase \in {"start", "discover"} => links = {}
  /\ phase \notin {"missing", "done"} => fails = {} /\ todo.skip = prob.skip
  /\ phase = "key" => links = Unnamed
  /\ phase = "forced" => links = Meant
  /\ phase = "missing" => Skipping
  /\ NothingIsLost /\ MatchesAreMeant /\ RefusalsAreReal

Inv == Typed /\ (Tidy(prob) => Meaning)

-----------------------------------------------------------------------------
LEMMA RestTail ==
  ASSUME NEW S, NEW s \in Seq(S), NEW t \in Seq(S), Rest(s, t), s # <<>>
  PROVE  /\ Rest(Tail(s), t) /\ Past(Tail(s), t) = Past(s, t) \cup {Head(s)}
         /\ Head(s) \in S /\ Tail(s) \in Seq(S)
         /\ Len(Tail(s)) = Len(s) - 1 /\ Head(s) = t[Len(t) - Len(s) + 1]
         /\ Len(s) \in Nat /\ Len(t) \in Nat /\ Len(s) >= 1 /\ Len(s) <= Len(t)
<1>1. /\ Len(s) \in Nat /\ Len(t) \in Nat /\ Len(s) >= 1 /\ Len(s) <= Len(t)
      /\ \A i \in 1 .. Len(s) : s[i] = t[Len(t) - Len(s) + i]
  BY DEF Rest
<1>2. /\ Len(Tail(s)) = Len(s) - 1 /\ Head(s) = s[1] /\ Head(s) \in S /\ Tail(s) \in Seq(S)
      /\ \A i \in 1 .. Len(Tail(s)) : Tail(s)[i] = s[i + 1]
  BY <1>1, HeadTailProperties
<1>3. 1 \in 1 .. Len(s)
  BY <1>1
<1>4. Head(s) = t[Len(t) - Len(s) + 1]
  BY <1>1, <1>2, <1>3
<1>5. ASSUME NEW i \in 1 .. Len(Tail(s))
      PROVE  Tail(s)[i] = t[Len(t) - Len(Tail(s)) + i]
  <2>1. i + 1 \in 1 .. Len(s) /\ Len(t) - Len(Tail(s)) + i = Len(t) - Len(s) + (i + 1)
    BY <1>1, <1>2
  <2>2. QED
    BY <1>1, <1>2, <2>1
<1>6. Rest(Tail(s), t)
  BY <1>1, <1>2, <1>5 DEF Rest
<1>7. 1 .. Len(t) - Len(Tail(s)) = 1 .. Len(t) - Len(s) \cup {Len(t) - Len(s) + 1}
  BY <1>1, <1>2
<1>8. Past(Tail(s), t) = Past(s, t) \cup {Head(s)}
  BY <1>4, <1>7 DEF Past
<1>9. QED
  BY <1>1, <1>2, <1>4, <1>6, <1>8

LEMMA RestListed ==
  ASSUME NEW S, NEW s \in Seq(S), NEW t \in Seq(S), Rest(s, t)
  PROVE  /\ Listed(t) = Past(s, t) \cup Listed(s)
         /\ Past(s, t) \subseteq S /\ Listed(s) \subseteq S
<1>1. /\ Len(s) \in Nat /\ Len(t) \in Nat /\ Len(s) <= Len(t)
      /\ DOMAIN s = 1 .. Len(s) /\ DOMAIN t = 1 .. Len(t)
      /\ \A i \in 1 .. Len(s) : s[i] = t[Len(t) - Len(s) + i]
  BY DEF Rest
<1>2. Past(s, t) \cup Listed(s) \subseteq Listed(t)
  <2>1. \A i \in 1 .. Len(s) : Len(t) - Len(s) + i \in 1 .. Len(t)
    BY <1>1
  <2>2. 1 .. Len(t) - Len(s) \subseteq 1 .. Len(t)
    BY <1>1
  <2>3. QED
    BY <1>1, <2>1, <2>2 DEF Past, Listed
<1>3. ASSUME NEW i \in 1 .. Len(t)
      PROVE  t[i] \in Past(s, t) \cup Listed(s)
  <2>1. CASE i \in 1 .. Len(t) - Len(s)
    BY <2>1 DEF Past
  <2>2. CASE i \notin 1 .. Len(t) - Len(s)
    <3>1. /\ i - (Len(t) - Len(s)) \in 1 .. Len(s)
          /\ Len(t) - Len(s) + (i - (Len(t) - Len(s))) = i
      BY <1>1, <2>2
    <3>2. s[i - (Len(t) - Len(s))] = t[i]
      BY <1>1, <3>1
    <3>3. QED
      BY <1>1, <3>1, <3>2 DEF Listed
  <2>3. QED
    BY <2>1, <2>2
<1>4. Listed(t) = Past(s, t) \cup Listed(s)
  BY <1>1, <1>2, <1>3 DEF Listed
<1>5. Listed(t) \subseteq S
  BY <1>1, ElementOfSeq DEF Listed
<1>6. QED
  BY <1>4, <1>5

LEMMA RestDone ==
  ASSUME NEW S, NEW s, s = <<>>, NEW t \in Seq(S)
  PROVE  Past(s, t) = Listed(t) /\ Listed(s) = {} /\ Len(s) = 0
<1>1. Len(s) = 0 /\ DOMAIN s = {} /\ Len(t) \in Nat /\ DOMAIN t = 1 .. Len(t)
  OBVIOUS
<1>2. 1 .. Len(t) - Len(s) = DOMAIN t
  BY <1>1
<1>3. QED
  BY <1>1, <1>2 DEF Past, Listed

LEMMA RestSelf ==
  ASSUME NEW S, NEW t \in Seq(S)
  PROVE  Rest(t, t) /\ Past(t, t) = {}
<1>1. Len(t) \in Nat /\ Len(t) - Len(t) = 0
  OBVIOUS
<1>2. \A i \in 1 .. Len(t) : Len(t) - Len(t) + i = i
  BY <1>1
<1>3. 1 .. Len(t) - Len(t) = {}
  BY <1>1
<1>4. QED
  BY <1>1, <1>2, <1>3 DEF Rest, Past

(* What the lists of a problem hold. *)
LEMMA ProblemFacts ==
  ASSUME NEW pb \in Problem
  PROVE  /\ pb.x.nested \in Seq([field : Entry, subs : SUBSET Entry])
         /\ pb.y.nested \in Seq([field : Entry, subs : SUBSET Entry])
         /\ pb.x.top \subseteq Entry /\ pb.y.top \subseteq Entry
         /\ pb.match \in Seq(Entry \X Entry) /\ pb.skip \in Seq(Side \X Side)
         /\ pb.default \in Positions \cup {NoPos}
<1>1. pb.x \in Discovery /\ pb.y \in Discovery
  BY DEF Problem
<1>2. QED
  BY <1>1 DEF Problem, Discovery

(* One step through one of the lists of options. *)
LEMMA TodoFacts ==
  ASSUME NEW pb \in Problem
  PROVE  /\ \A s \in Seq([field : Entry, subs : SUBSET Entry]) :
              LET qb == [pb EXCEPT !.x.nested = s]
              IN  /\ qb \in Problem /\ qb.x.nested = s /\ qb.y = pb.y
                  /\ qb.match = pb.match /\ qb.skip = pb.skip
         /\ \A s \in Seq([field : Entry, subs : SUBSET Entry]) :
              LET qb == [pb EXCEPT !.y.nested = s]
              IN  /\ qb \in Problem /\ qb.y.nested = s /\ qb.x = pb.x
                  /\ qb.match = pb.match /\ qb.skip = pb.skip
         /\ \A s \in Seq(Entry \X Entry) :
              LET qb == [pb EXCEPT !.match = s]
              IN  /\ qb \in Problem /\ qb.match = s /\ qb.x = pb.x /\ qb.y = pb.y
                  /\ qb.skip = pb.skip
         /\ \A s \in Seq(Side \X Side) :
              LET qb == [pb EXCEPT !.skip = s]
              IN  /\ qb \in Problem /\ qb.skip = s /\ qb.x = pb.x /\ qb.y = pb.y
                  /\ qb.match = pb.match
BY DEF Problem, Discovery

-----------------------------------------------------------------------------
(* The index. *)
LEMMA AddFacts ==
  ASSUME NEW idx, idx \subseteq Entry, NEW es, es \subseteq Entry
  PROVE  Add(idx, es) \subseteq Entry
BY DEF Add

LEMMA ByPosFacts ==
  ASSUME NEW idx, idx \subseteq Entry, NEW p
  PROVE  /\ (\E e \in idx : e.pos = p) => ByPos(idx, p) \in idx /\ ByPos(idx, p).pos = p
         /\ ~(\E e \in idx : e.pos = p) => ByPos(idx, p) = Missing
         /\ ByPos(idx, p) \in Side
<1>1. CASE \E e \in idx : e.pos = p
  <2>1. PICK e \in idx : e = ByPos(idx, p) /\ e.pos = p
    BY <1>1 DEF ByPos
  <2>2. QED
    BY <1>1, <2>1 DEF Side
<1>2. CASE ~\E e \in idx : e.pos = p
  BY <1>2 DEF ByPos, Side
<1>3. QED
  BY <1>1, <1>2

(* The table. *)
LEMMA PutTyped ==
  ASSUME TypeOK, NEW good, NEW bad, good \subseteq Side \X Side, bad \subseteq Side \X Side,
         good \cap bad = {}, Put(good, bad)
  PROVE  oks' \subseteq Side \X Side /\ fails' \subseteq Side \X Side /\ oks' \cap fails' = {}
BY DEF Put, TypeOK

-----------------------------------------------------------------------------
LEMMA InitTyped ==
  ASSUME Init
  PROVE  Typed
<1>1. prob \in Problems /\ prob \in Problem /\ todo = prob /\ phase = "start"
  BY ProblemsAssumption DEF Init
<1>2. TypeOK
  BY <1>1 DEF Init, TypeOK, Phases
<1>3. Applied /\ Past(todo.match, prob.match) = {}
  BY <1>1, ProblemFacts, RestSelf DEF Applied
<1>4. QED
  BY <1>1, <1>2, <1>3 DEF Typed, Indexed, NothingIsMerged

(* The options not yet applied, when one of a list is applied. *)
LEMMA ListFacts ==
  ASSUME Typed
  PROVE  /\ prob \in Problem /\ todo \in Problem /\ xs \subseteq Entry /\ ys \subseteq Entry
         /\ links \subseteq Entry \X Entry
         /\ oks \subseteq Side \X Side /\ fails \subseteq Side \X Side
         /\ prob.x.nested \in Seq([field : Entry, subs : SUBSET Entry])
         /\ prob.y.nested \in Seq([field : Entry, subs : SUBSET Entry])
         /\ prob.match \in Seq(Entry \X Entry) /\ prob.skip \in Seq(Side \X Side)
         /\ todo.x.nested \in Seq([field : Entry, subs : SUBSET Entry])
         /\ todo.y.nested \in Seq([field : Entry, subs : SUBSET Entry])
         /\ todo.match \in Seq(Entry \X Entry) /\ todo.skip \in Seq(Side \X Side)
         /\ Rest(todo.x.nested, prob.x.nested) /\ Rest(todo.y.nested, prob.y.nested)
         /\ Rest(todo.match, prob.match) /\ Rest(todo.skip, prob.skip)
<1>1. TypeOK /\ Applied
  BY DEF Typed
<1>2. prob \in Problem /\ todo \in Problem
  BY <1>1 DEF TypeOK
<1>3. QED
  BY <1>1, <1>2, ProblemFacts DEF TypeOK, Applied

LEMMA DiscoverTyped ==
  ASSUME Typed, DiscoverFields \/ DiscoverNestedX \/ DiscoverNestedY
  PROVE  Typed'
<1>1. /\ prob' = prob /\ phase' = "discover" /\ phase \in {"start", "discover"}
      /\ links' = links /\ oks' = oks /\ fails' = fails
  BY DEF DiscoverFields, DiscoverNestedX, DiscoverNestedY
<1>2. /\ todo' \in Problem /\ Applied'
      /\ todo'.match = todo.match /\ todo'.skip = todo.skip
  <2>1. CASE DiscoverFields
    BY <2>1, <1>1, ListFacts DEF DiscoverFields, Applied
  <2>2. CASE DiscoverNestedX
    <3>1. todo' = [todo EXCEPT !.x.nested = Tail(todo.x.nested)] /\ todo.x.nested # <<>>
      BY <2>2 DEF DiscoverNestedX
    <3>2. /\ Tail(todo.x.nested) \in Seq([field : Entry, subs : SUBSET Entry])
          /\ Rest(Tail(todo.x.nested), prob.x.nested)
      BY <3>1, ListFacts, RestTail
    <3>3. /\ todo' \in Problem /\ todo'.x.nested = Tail(todo.x.nested) /\ todo'.y = todo.y
          /\ todo'.match = todo.match /\ todo'.skip = todo.skip
      BY <3>1, <3>2, ListFacts, TodoFacts
    <3>4. QED
      BY <1>1, <3>2, <3>3, ListFacts DEF Applied
  <2>3. CASE DiscoverNestedY
    <3>1. todo' = [todo EXCEPT !.y.nested = Tail(todo.y.nested)] /\ todo.y.nested # <<>>
      BY <2>3 DEF DiscoverNestedY
    <3>2. /\ Tail(todo.y.nested) \in Seq([field : Entry, subs : SUBSET Entry])
          /\ Rest(Tail(todo.y.nested), prob.y.nested)
      BY <3>1, ListFacts, RestTail
    <3>3. /\ todo' \in Problem /\ todo'.y.nested = Tail(todo.y.nested) /\ todo'.x = todo.x
          /\ todo'.match = todo.match /\ todo'.skip = todo.skip
      BY <3>1, <3>2, ListFacts, TodoFacts
    <3>4. QED
      BY <1>1, <3>2, <3>3, ListFacts DEF Applied
  <2>4. QED
    BY <2>1, <2>2, <2>3
<1>3. todo.match = prob.match
  BY DEF DiscoverFields, DiscoverNestedX, DiscoverNestedY, Typed
<1>4. xs' \subseteq Entry /\ ys' \subseteq Entry
  <2>1. CASE DiscoverFields
    <3>1. prob.x.top \subseteq Entry /\ prob.y.top \subseteq Entry
      BY ListFacts, ProblemFacts
    <3>2. QED
      BY <2>1, <3>1, ListFacts, AddFacts DEF DiscoverFields
  <2>2. CASE DiscoverNestedX
    <3>1. /\ xs' = Add(Delete(xs, Head(todo.x.nested).field.pos), Head(todo.x.nested).subs)
          /\ ys' = ys /\ todo.x.nested # <<>>
      BY <2>2 DEF DiscoverNestedX
    <3>2. Head(todo.x.nested).subs \subseteq Entry
      <4>1. Head(todo.x.nested) \in [field : Entry, subs : SUBSET Entry]
        BY <3>1, ListFacts, RestTail
      <4>2. QED
        BY <4>1
    <3>3. Delete(xs, Head(todo.x.nested).field.pos) \subseteq Entry
      BY ListFacts DEF Delete
    <3>4. QED
      BY <3>1, <3>2, <3>3, ListFacts, AddFacts
  <2>3. CASE DiscoverNestedY
    <3>1. /\ ys' = Add(Delete(ys, Head(todo.y.nested).field.pos), Head(todo.y.nested).subs)
          /\ xs' = xs /\ todo.y.nested # <<>>
      BY <2>3 DEF DiscoverNestedY
    <3>2. Head(todo.y.nested).subs \subseteq Entry
      <4>1. Head(todo.y.nested) \in [field : Entry, subs : SUBSET Entry]
        BY <3>1, ListFacts, RestTail
      <4>2. QED
        BY <4>1
    <3>3. Delete(ys, Head(todo.y.nested).field.pos) \subseteq Entry
      BY ListFacts DEF Delete
    <3>4. QED
      BY <3>1, <3>2, <3>3, ListFacts, AddFacts
  <2>4. QED
    BY <2>1, <2>2, <2>3
<1>5. Indexed'
  BY <1>1, <1>2, <1>3, ListFacts, RestSelf DEF Indexed
<1>6. TypeOK'
  BY <1>1, <1>2, <1>4 DEF Typed, TypeOK, Phases
<1>7. QED
  BY <1>1, <1>2, <1>3, <1>5, <1>6 DEF Typed, NothingIsMerged

LEMMA ResolveTyped ==
  ASSUME Typed, ResolveMatch
  PROVE  Typed'
<1> DEFINE m == Head(todo.match)
<1>1. /\ prob' = prob /\ phase' = phase /\ phase = "discover" /\ todo.match # <<>>
      /\ todo.x.nested = <<>> /\ todo.y.nested = <<>>
      /\ links' = links /\ oks' = oks /\ fails' = fails
      /\ xs' = Add(xs, {m[1]}) /\ ys' = Add(ys, {m[2]})
      /\ todo' = [todo EXCEPT !.match = Tail(todo.match)]
  BY DEF ResolveMatch, Discovered
<1>2. /\ m \in Entry \X Entry /\ Rest(Tail(todo.match), prob.match)
      /\ Tail(todo.match) \in Seq(Entry \X Entry)
      /\ Past(Tail(todo.match), prob.match) = Past(todo.match, prob.match) \cup {m}
  BY <1>1, ListFacts, RestTail
<1> HIDE DEF m
<1>3. /\ todo' \in Problem /\ todo'.match = Tail(todo.match) /\ todo'.x = todo.x
      /\ todo'.y = todo.y /\ todo'.skip = todo.skip
  BY <1>1, <1>2, ListFacts, TodoFacts
<1>4. Applied'
  BY <1>1, <1>2, <1>3, ListFacts DEF Applied
<1>5. m[1] \in Entry /\ m[2] \in Entry
  BY <1>2
<1>6. xs' \subseteq Entry /\ ys' \subseteq Entry
  BY <1>1, <1>5, ListFacts, AddFacts
<1>7. TypeOK'
  BY <1>1, <1>3, <1>6 DEF Typed, TypeOK
<1>8. Indexed'
  <2>1. ASSUME NEW n \in Past(todo.match, prob.match) \cup {m}
        PROVE  (\E e \in xs' : e.pos = n[1].pos) /\ (\E e \in ys' : e.pos = n[2].pos)
    <3>1. /\ (\E e \in xs : e.pos = n[1].pos) \/ (\E e \in {m[1]} : e.pos = n[1].pos)
          /\ (\E e \in ys : e.pos = n[2].pos) \/ (\E e \in {m[2]} : e.pos = n[2].pos)
      BY <2>1 DEF Typed, Indexed
    <3>2. \E e \in Add(xs, {m[1]}) : e.pos = n[1].pos
      BY <3>1 DEF Add
    <3>3. \E e \in Add(ys, {m[2]}) : e.pos = n[2].pos
      BY <3>1 DEF Add
    <3>4. QED
      BY <1>1, <3>2, <3>3
  <2>2. QED
    BY <1>1, <1>2, <1>3, <2>1 DEF Indexed
<1>9. QED
  BY <1>1, <1>3, <1>4, <1>7, <1>8 DEF Typed, NothingIsMerged

(* The rules leave the indexes alone. *)
LEMMA RuleTyped ==
  ASSUME Typed, UNCHANGED <<prob, todo, xs, ys>>, phase' \in Phases \ {"start"},
         phase # "start", todo.match = <<>>,
         phase' = "done" => todo.skip = <<>> /\ NothingIsMerged',
         links' \subseteq Entry \X Entry, NEW good, NEW bad, Put(good, bad),
         good \subseteq Side \X Side, bad \subseteq Side \X Side, good \cap bad = {}
  PROVE  Typed'
<1>1. oks' \subseteq Side \X Side /\ fails' \subseteq Side \X Side /\ oks' \cap fails' = {}
  BY PutTyped DEF Typed
<1>2. TypeOK'
  BY <1>1 DEF Typed, TypeOK
<1>3. NothingIsMerged'
  BY DEF NothingIsMerged
<1>4. Applied' /\ Indexed'
  BY DEF Typed, Applied, Indexed
<1>5. todo'.match = <<>> /\ (phase' = "done" => todo'.skip = <<>>) /\ prob' \in Problems
  BY DEF Typed
<1>6. todo'.x.nested # <<>> \/ todo'.y.nested # <<>> => todo'.match = prob'.match
  BY DEF Typed
<1>7. QED
  BY <1>2, <1>3, <1>4, <1>5, <1>6 DEF Typed

LEMMA LinksTyped ==
  ASSUME Typed
  PROVE  /\ xs \X ys \subseteq Entry \X Entry /\ Entry \X Entry \subseteq Side \X Side
         /\ xs \X {Missing} \subseteq Side \X Side /\ {Missing} \X ys \subseteq Side \X Side
BY ListFacts DEF Side

(* The entries RuleForced finds are entries of the indexes. *)
LEMMA ForcedEntries ==
  ASSUME Typed, todo.match = <<>>, NEW i \in DOMAIN prob.match
  PROVE  /\ ByPos(xs, prob.match[i][1].pos) \in xs
         /\ ByPos(xs, prob.match[i][1].pos).pos = prob.match[i][1].pos
         /\ ByPos(ys, prob.match[i][2].pos) \in ys
         /\ ByPos(ys, prob.match[i][2].pos).pos = prob.match[i][2].pos
<1>1. prob.match[i] \in Past(todo.match, prob.match)
  <2>1. prob.match \in Seq(Entry \X Entry)
    BY ListFacts
  <2>2. Past(todo.match, prob.match) = Listed(prob.match)
    BY <2>1, RestDone
  <2>3. QED
    BY <2>2 DEF Listed
<1>2. /\ \E e \in xs : e.pos = prob.match[i][1].pos
      /\ \E e \in ys : e.pos = prob.match[i][2].pos
  BY <1>1 DEF Typed, Indexed
<1>3. QED
  BY <1>2, ListFacts, ByPosFacts

LEMMA MatchTyped ==
  ASSUME Typed, RuleMatch \/ RuleForced
  PROVE  Typed'
<1>1. CASE RuleMatch
  <2> DEFINE found == {l \in xs \X ys : ByKey(l[1], l[2])}
  <2>1. /\ UNCHANGED <<prob, todo, xs, ys>> /\ phase' = "key" /\ phase = "discover"
        /\ todo.match = <<>> /\ links' = found /\ Put(found, {})
    BY <1>1 DEF RuleMatch, Discovered
  <2>2. found \subseteq Entry \X Entry /\ found \subseteq Side \X Side
    BY LinksTyped
  <2> HIDE DEF found
  <2>3. {} \subseteq Side \X Side /\ found \cap {} = {}
    OBVIOUS
  <2>4. phase' \in Phases \ {"start"} /\ phase # "start" /\ phase' # "done"
    BY <2>1 DEF Phases
  <2>5. QED
    BY <2>1, <2>2, <2>3, <2>4, RuleTyped
<1>2. CASE RuleForced
  <2> DEFINE forced ==
        {<<ByPos(xs, prob.match[i][1].pos), ByPos(ys, prob.match[i][2].pos)>> :
           i \in DOMAIN prob.match}
  <2>1. /\ UNCHANGED <<prob, todo, xs, ys>> /\ phase' = "forced" /\ phase = "key"
        /\ links' = links \cup forced /\ Put(forced, {})
    BY <1>2 DEF RuleForced
  <2>2. todo.match = <<>>
    BY <2>1 DEF Typed
  <2>3. forced \subseteq xs \X ys
    BY <2>2, ForcedEntries
  <2> HIDE DEF forced
  <2>4. /\ forced \subseteq Side \X Side /\ links' \subseteq Entry \X Entry
        /\ {} \subseteq Side \X Side /\ forced \cap {} = {}
    BY <2>1, <2>3, LinksTyped, ListFacts
  <2>5. phase' \in Phases \ {"start"} /\ phase # "start" /\ phase' # "done"
    BY <2>1 DEF Phases
  <2>6. QED
    BY <2>1, <2>2, <2>4, <2>5, RuleTyped
<1>3. QED
  BY <1>1, <1>2

LEMMA MissingTyped ==
  ASSUME Typed, RuleMissing
  PROVE  Typed'
<1> DEFINE looseX == {x \in xs : FromX(x) = {}}
           looseY == {y \in ys : FromY(y) = {}}
           goodX  == {x \in looseX : Skipped(x.pos, NoPos)}
           goodY  == {y \in looseY : Skipped(NoPos, y.pos) \/ y.pos = prob.default}
           good   == goodX \X {Missing} \cup {Missing} \X goodY
           bad    == (looseX \ goodX) \X {Missing} \cup {Missing} \X (looseY \ goodY)
<1>1. /\ UNCHANGED <<prob, todo, xs, ys>> /\ phase' = "missing" /\ phase = "forced"
      /\ links' = links /\ Put(good, bad)
  BY DEF RuleMissing
<1>2. todo.match = <<>>
  BY <1>1 DEF Typed
<1>3. /\ goodX \subseteq xs /\ goodY \subseteq ys /\ looseX \ goodX \subseteq xs
      /\ looseY \ goodY \subseteq ys
  OBVIOUS
<1>4. Missing \notin xs /\ Missing \notin ys
  BY SentinelsAssumption, ListFacts
<1> HIDE DEF goodX, goodY, looseX, looseY
<1>5. good \subseteq Side \X Side /\ bad \subseteq Side \X Side
  BY <1>3, LinksTyped
<1>6. good \cap bad = {}
  BY <1>3, <1>4
<1> HIDE DEF good, bad
<1>7. phase' \in Phases \ {"start"} /\ phase # "start" /\ phase' # "done"
  BY <1>1 DEF Phases
<1>8. links' \subseteq Entry \X Entry
  BY <1>1, ListFacts
<1>9. QED
  BY <1>1, <1>2, <1>5, <1>6, <1>7, <1>8, RuleTyped

LEMMA SkipTyped ==
  ASSUME Typed, RuleSkip
  PROVE  Typed'
<1> DEFINE s == Head(todo.skip)
           x == ByPos(xs, PosOf(s[1]))
           y == ByPos(ys, PosOf(s[2]))
<1>1. /\ UNCHANGED <<prob, phase, xs, ys>> /\ phase = "missing" /\ todo.skip # <<>>
      /\ todo' = [todo EXCEPT !.skip = Tail(todo.skip)]
      /\ \/ links' = links /\ oks' = oks /\ fails' = fails
         \/ links' = links /\ Put({}, {<<x, y>>})
         \/ links' = links \ {<<x, y>>} /\ Put({<<x, y>>}, {})
  BY DEF RuleSkip
<1>2. <<x, y>> \in Side \X Side
  BY ListFacts, ByPosFacts
<1> HIDE DEF x, y, s
<1>3. /\ oks' \subseteq Side \X Side /\ fails' \subseteq Side \X Side /\ oks' \cap fails' = {}
      /\ links' \subseteq Entry \X Entry
  <2>1. CASE links' = links /\ oks' = oks /\ fails' = fails
    BY <2>1, ListFacts DEF Typed, TypeOK
  <2>2. CASE links' = links /\ Put({}, {<<x, y>>})
    <3> DEFINE good == {}
               bad  == {<<x, y>>}
    <3>1. TypeOK /\ good \subseteq Side \X Side /\ bad \subseteq Side \X Side
          /\ good \cap bad = {} /\ Put(good, bad)
      BY <1>2, <2>2 DEF Typed
    <3> HIDE DEF good, bad
    <3>2. oks' \subseteq Side \X Side /\ fails' \subseteq Side \X Side /\ oks' \cap fails' = {}
      BY <3>1, PutTyped
    <3>3. links' \subseteq Entry \X Entry
      BY <2>2, ListFacts
    <3>4. QED
      BY <3>2, <3>3
  <2>3. CASE links' = links \ {<<x, y>>} /\ Put({<<x, y>>}, {})
    <3> DEFINE good == {<<x, y>>}
               bad  == {}
    <3>1. TypeOK /\ good \subseteq Side \X Side /\ bad \subseteq Side \X Side
          /\ good \cap bad = {} /\ Put(good, bad)
      BY <1>2, <2>3 DEF Typed
    <3> HIDE DEF good, bad
    <3>2. oks' \subseteq Side \X Side /\ fails' \subseteq Side \X Side /\ oks' \cap fails' = {}
      BY <3>1, PutTyped
    <3>3. links' \subseteq Entry \X Entry
      BY <2>3, ListFacts
    <3>4. QED
      BY <3>2, <3>3
  <2>4. QED
    BY <1>1, <2>1, <2>2, <2>3
<1>4. /\ Tail(todo.skip) \in Seq(Side \X Side) /\ Rest(Tail(todo.skip), prob.skip)
  BY <1>1, ListFacts, RestTail
<1>5. /\ todo' \in Problem /\ todo'.skip = Tail(todo.skip) /\ todo'.x = todo.x
      /\ todo'.y = todo.y /\ todo'.match = todo.match
  BY <1>1, <1>4, ListFacts, TodoFacts
<1>6. TypeOK'
  BY <1>1, <1>3, <1>5 DEF Typed, TypeOK
<1>7. Applied' /\ Indexed'
  BY <1>1, <1>4, <1>5, ListFacts DEF Applied, Indexed, Typed
<1>8. QED
  BY <1>1, <1>5, <1>6, <1>7 DEF Typed, NothingIsMerged

LEMMA AmbiguousTyped ==
  ASSUME Typed, RuleAmbiguous
  PROVE  Typed'
<1>1. /\ UNCHANGED <<prob, todo, xs, ys, links>> /\ phase' = "done" /\ phase = "missing"
      /\ todo.skip = <<>>
  BY DEF RuleAmbiguous
<1>2. PICK spared \in SUBSET links : Spare(spared) /\ Put({}, links \ spared)
  BY DEF RuleAmbiguous
<1>3. todo.match = <<>> /\ links \subseteq Entry \X Entry /\ links \ spared \subseteq Side \X Side
  BY <1>1, LinksTyped, ListFacts DEF Typed
<1>4. links \ spared \subseteq fails'
  BY <1>2 DEF Put
<1>5. NothingIsMerged'
  BY <1>1, <1>2, <1>4 DEF NothingIsMerged, Spare
<1>6. phase' \in Phases \ {"start"} /\ phase # "start"
  BY <1>1 DEF Phases
<1>7. {} \subseteq Side \X Side /\ {} \cap (links \ spared) = {}
  OBVIOUS
<1>8. QED
  BY <1>1, <1>2, <1>3, <1>5, <1>6, <1>7, RuleTyped

LEMMA NextTyped ==
  ASSUME Typed, [Next]_vars
  PROVE  Typed'
<1>1. CASE DiscoverFields \/ DiscoverNestedX \/ DiscoverNestedY
  BY <1>1, DiscoverTyped
<1>2. CASE ResolveMatch
  BY <1>2, ResolveTyped
<1>3. CASE RuleMatch \/ RuleForced
  BY <1>3, MatchTyped
<1>4. CASE RuleMissing
  BY <1>4, MissingTyped
<1>5. CASE RuleSkip
  BY <1>5, SkipTyped
<1>6. CASE RuleAmbiguous
  BY <1>6, AmbiguousTyped
<1>7. CASE Done \/ UNCHANGED vars
  BY <1>7 DEF Done, vars, Typed, TypeOK, Applied, Indexed, NothingIsMerged
<1>8. QED
  BY <1>1, <1>2, <1>3, <1>4, <1>5, <1>6, <1>7 DEF Next

LEMMA AlwaysTyped == Spec => []Typed
<1>1. Init => Typed
  BY InitTyped
<1>2. Typed /\ [Next]_vars => Typed'
  BY NextTyped
<1>3. QED
  BY <1>1, <1>2, PTL DEF Spec

(* The index, the links and the table hold entries of the two types, with    *)
(* "missing" where nothing is, and no row of the table has both verdicts,    *)
(* for all types and options, members that share a position included.        *)
THEOREM TypeCorrect == Spec => []TypeOK
<1>1. Typed => TypeOK
  BY DEF Typed
<1>2. QED
  BY <1>1, AlwaysTyped, PTL

(* Two members of X are never assigned to one member of Y without a FAIL,    *)
(* for all types and options, whichever of the links is spared.              *)
THEOREM NothingMerges == Spec => []NothingIsMerged
<1>1. Typed => NothingIsMerged
  BY DEF Typed
<1>2. QED
  BY <1>1, AlwaysTyped, PTL

-----------------------------------------------------------------------------
(* Sets of entries with positions of their own.                              *)
LEMMA AddApart ==
  ASSUME NEW S, Apart(S), NEW idx \in SUBSET S, NEW es \in SUBSET S
  PROVE  Add(idx, es) = idx \cup es
BY DEF Add, Apart

LEMMA DeleteApart ==
  ASSUME NEW S, Apart(S), NEW idx \in SUBSET S, NEW f \in S
  PROVE  Delete(idx, f.pos) = idx \ {f}
BY DEF Delete, Apart

LEMMA ByPosApart ==
  ASSUME NEW S, Apart(S), S \subseteq Entry, NEW idx \in SUBSET S, NEW e \in S \cup {Missing}
  PROVE  ByPos(idx, PosOf(e)) = IF e \in idx THEN e ELSE Missing
<1>1. idx \subseteq Entry
  OBVIOUS
<1>2. CASE e = Missing
  <2>1. PosOf(e) = NoPos /\ e \notin idx
    BY <1>1, <1>2, SentinelsAssumption DEF PosOf
  <2>2. ~\E f \in idx : f.pos = NoPos
    BY <1>1, SentinelsAssumption DEF Entry
  <2>3. QED
    BY <2>1, <2>2 DEF ByPos
<1>3. CASE e # Missing
  <2>1. PosOf(e) = e.pos /\ e \in S
    BY <1>3 DEF PosOf
  <2>2. \A f \in idx : f.pos = e.pos => f = e
    BY <2>1 DEF Apart
  <2>3. CASE e \in idx
    <3>1. ByPos(idx, e.pos) \in idx /\ ByPos(idx, e.pos).pos = e.pos
      BY <1>1, <2>3, ByPosFacts
    <3>2. QED
      BY <2>1, <2>2, <2>3, <3>1
  <2>4. CASE e \notin idx
    <3>1. ~\E f \in idx : f.pos = e.pos
      BY <2>2, <2>4
    <3>2. ByPos(idx, e.pos) = Missing
      BY <1>1, <3>1, ByPosFacts
    <3>3. QED
      BY <2>1, <2>4, <3>2
  <2>5. QED
    BY <2>3, <2>4
<1>4. QED
  BY <1>2, <1>3

(* What is opened one DiscoverNested later. *)
LEMMA OpenedNext ==
  ASSUME NEW d, NEW n \in Nat, n + 1 \in DOMAIN d.nested, DOMAIN d.nested = 1 .. Len(d.nested),
         Len(d.nested) \in Nat, OutsideIn(d), NEW S, Apart(S),
         d.top \subseteq S,
         \A i \in DOMAIN d.nested : d.nested[i].subs \subseteq S /\ d.nested[i].field \in S
  PROVE  Add(Delete(Opened(d, n), d.nested[n + 1].field.pos), d.nested[n + 1].subs)
           = Opened(d, n + 1)
<1> DEFINE subs(i) == d.nested[i].subs
           field(i) == d.nested[i].field
<1>1. /\ \A i \in 1 .. n : i \in DOMAIN d.nested /\ i <= n + 1
      /\ 1 .. n + 1 = 1 .. n \cup {n + 1}
  OBVIOUS
<1>2. Opened(d, n) = (d.top \cup UNION {subs(i) : i \in 1 .. n}) \ {field(i) : i \in 1 .. n}
  BY DEF Opened
<1>3. Opened(d, n + 1) = (d.top \cup UNION {subs(i) : i \in 1 .. n + 1})
                         \ {field(i) : i \in 1 .. n + 1}
  BY DEF Opened
<1>4. /\ \A i \in 1 .. n : subs(i) \subseteq S /\ field(i) \notin subs(n + 1)
      /\ subs(n + 1) \subseteq S /\ field(n + 1) \in S /\ field(n + 1) \notin subs(n + 1)
  BY <1>1 DEF OutsideIn
<1> HIDE DEF subs, field
<1>5. Opened(d, n) \in SUBSET S
  BY <1>2, <1>4
<1>6. Delete(Opened(d, n), field(n + 1).pos) = Opened(d, n) \ {field(n + 1)}
  BY <1>4, <1>5, DeleteApart
<1>7. Add(Opened(d, n) \ {field(n + 1)}, subs(n + 1))
        = (Opened(d, n) \ {field(n + 1)}) \cup subs(n + 1)
  BY <1>4, <1>5, AddApart
<1>8. UNION {subs(i) : i \in 1 .. n + 1} = (UNION {subs(i) : i \in 1 .. n}) \cup subs(n + 1)
  <2>1. ASSUME NEW e
        PROVE  /\ e \in UNION {subs(i) : i \in 1 .. n} <=> \E i \in 1 .. n : e \in subs(i)
               /\ e \in UNION {subs(i) : i \in 1 .. n + 1} <=> \E i \in 1 .. n + 1 : e \in subs(i)
    BY Zenon
  <2>2. ASSUME NEW e
        PROVE  (\E i \in 1 .. n + 1 : e \in subs(i))
                 <=> (\E i \in 1 .. n : e \in subs(i)) \/ e \in subs(n + 1)
    BY <1>1, Zenon
  <2>3. \A e : e \in UNION {subs(i) : i \in 1 .. n + 1}
               <=> e \in (UNION {subs(i) : i \in 1 .. n}) \cup subs(n + 1)
    BY <2>1, <2>2, Zenon
  <2> DEFINE U == UNION {subs(i) : i \in 1 .. n}
             V == UNION {subs(i) : i \in 1 .. n + 1}
  <2>4. \A e : e \in V <=> e \in U \cup subs(n + 1)
    BY <2>3
  <2> HIDE DEF U, V
  <2>5. V = U \cup subs(n + 1)
    BY <2>4
  <2>6. QED
    BY <2>5 DEF U, V
<1>9. {field(i) : i \in 1 .. n + 1} = {field(i) : i \in 1 .. n} \cup {field(n + 1)}
  BY <1>1
<1>10. {field(i) : i \in 1 .. n} \cap subs(n + 1) = {}
  BY <1>4
<1>11. (Opened(d, n) \ {field(n + 1)}) \cup subs(n + 1) = Opened(d, n + 1)
  BY <1>2, <1>3, <1>4, <1>8, <1>9, <1>10
<1>12. QED
  BY <1>6, <1>7, <1>11 DEF subs, field

-----------------------------------------------------------------------------
(* The members named by a tidy problem. *)
LEMMA NamesFacts ==
  ASSUME Typed, Tidy(prob)
  PROVE  /\ Apart(NamesX(prob)) /\ Apart(NamesY(prob))
         /\ NamesX(prob) \subseteq Entry /\ NamesY(prob) \subseteq Entry
         /\ WantedX \subseteq NamesX(prob) /\ WantedY \subseteq NamesY(prob)
         /\ \A s \in Skips : s \in Side \X Side
         /\ \A s \in Skips : s[1] \in NamesX(prob) \cup {Missing}
                             /\ s[2] \in NamesY(prob) \cup {Missing}
         /\ \A m \in Pairs : m \in Entry \X Entry
         /\ \A m \in Pairs : m[1] \in WantedX /\ m[2] \in WantedY
<1>1. Apart(NamesX(prob)) /\ Apart(NamesY(prob))
  BY DEF Tidy
<1>2. /\ prob.x.top \subseteq Entry /\ prob.y.top \subseteq Entry
      /\ \A i \in DOMAIN prob.x.nested :
           prob.x.nested[i].subs \subseteq Entry /\ prob.x.nested[i].field \in Entry
      /\ \A i \in DOMAIN prob.y.nested :
           prob.y.nested[i].subs \subseteq Entry /\ prob.y.nested[i].field \in Entry
      /\ \A i \in DOMAIN prob.match : prob.match[i] \in Entry \X Entry
      /\ \A i \in DOMAIN prob.skip : prob.skip[i] \in Side \X Side
  <2>1. prob \in Problem
    BY ListFacts
  <2>2. /\ \A i \in DOMAIN prob.x.nested : prob.x.nested[i] \in [field : Entry, subs : SUBSET Entry]
        /\ \A i \in DOMAIN prob.y.nested : prob.y.nested[i] \in [field : Entry, subs : SUBSET Entry]
        /\ \A i \in DOMAIN prob.match : prob.match[i] \in Entry \X Entry
        /\ \A i \in DOMAIN prob.skip : prob.skip[i] \in Side \X Side
    <3>1. \A S : \A q \in Seq(S) : \A i \in DOMAIN q : q[i] \in S
      BY ElementOfSeq
    <3>2. QED
      BY <3>1, ListFacts
  <2>3. QED
    BY <2>1, <2>2, ProblemFacts
<1>3. NamesX(prob) \subseteq Entry
  <2>1. {prob.skip[i][1] : i \in DOMAIN prob.skip} \subseteq Side
    BY <1>2
  <2>2. {prob.match[i][1] : i \in DOMAIN prob.match} \subseteq Entry
    BY <1>2
  <2>3. UNION {prob.x.nested[i].subs : i \in DOMAIN prob.x.nested} \subseteq Entry
    <3>1. SUFFICES ASSUME NEW e, NEW i \in DOMAIN prob.x.nested, e \in prob.x.nested[i].subs
                   PROVE  e \in Entry
      BY Zenon
    <3>2. prob.x.nested[i].subs \subseteq Entry
      BY <1>2
    <3>3. QED
      BY <3>1, <3>2
  <2>4. {prob.x.nested[i].field : i \in DOMAIN prob.x.nested} \subseteq Entry
    BY <1>2
  <2> DEFINE S == UNION {prob.x.nested[i].subs : i \in DOMAIN prob.x.nested}
             F == {prob.x.nested[i].field : i \in DOMAIN prob.x.nested}
             M == {prob.match[i][1] : i \in DOMAIN prob.match}
             K == {prob.skip[i][1] : i \in DOMAIN prob.skip}
  <2>5. NamesX(prob) = prob.x.top \cup S \cup F \cup M \cup (K \ {Missing})
    BY DEF NamesX
  <2>6. prob.x.top \subseteq Entry
    BY <1>2
  <2> HIDE DEF S, F, M, K
  <2>7. S \subseteq Entry /\ F \subseteq Entry /\ M \subseteq Entry /\ K \subseteq Side
    BY <2>1, <2>2, <2>3, <2>4 DEF S, F, M, K
  <2>8. QED
    BY <2>5, <2>6, <2>7 DEF Side
<1>4. NamesY(prob) \subseteq Entry
  <2>1. {prob.skip[i][2] : i \in DOMAIN prob.skip} \subseteq Side
    BY <1>2
  <2>2. {prob.match[i][2] : i \in DOMAIN prob.match} \subseteq Entry
    BY <1>2
  <2>3. UNION {prob.y.nested[i].subs : i \in DOMAIN prob.y.nested} \subseteq Entry
    <3>1. SUFFICES ASSUME NEW e, NEW i \in DOMAIN prob.y.nested, e \in prob.y.nested[i].subs
                   PROVE  e \in Entry
      BY Zenon
    <3>2. prob.y.nested[i].subs \subseteq Entry
      BY <1>2
    <3>3. QED
      BY <3>1, <3>2
  <2>4. {prob.y.nested[i].field : i \in DOMAIN prob.y.nested} \subseteq Entry
    BY <1>2
  <2> DEFINE S == UNION {prob.y.nested[i].subs : i \in DOMAIN prob.y.nested}
             F == {prob.y.nested[i].field : i \in DOMAIN prob.y.nested}
             M == {prob.match[i][2] : i \in DOMAIN prob.match}
             K == {prob.skip[i][2] : i \in DOMAIN prob.skip}
  <2>5. NamesY(prob) = prob.y.top \cup S \cup F \cup M \cup (K \ {Missing})
    BY DEF NamesY
  <2>6. prob.y.top \subseteq Entry
    BY <1>2
  <2> HIDE DEF S, F, M, K
  <2>7. S \subseteq Entry /\ F \subseteq Entry /\ M \subseteq Entry /\ K \subseteq Side
    BY <2>1, <2>2, <2>3, <2>4 DEF S, F, M, K
  <2>8. QED
    BY <2>5, <2>6, <2>7 DEF Side
<1>5. WantedX \subseteq NamesX(prob) /\ WantedY \subseteq NamesY(prob)
  <2>1. /\ \A m \in Pairs : m[1] \in {prob.match[i][1] : i \in DOMAIN prob.match}
        /\ \A m \in Pairs : m[2] \in {prob.match[i][2] : i \in DOMAIN prob.match}
    BY DEF Pairs
  <2>2. /\ {m[1] : m \in Pairs} \subseteq NamesX(prob)
        /\ {m[2] : m \in Pairs} \subseteq NamesY(prob)
    BY <2>1 DEF NamesX, NamesY
  <2>3. Members(prob.x) \subseteq NamesX(prob) /\ Members(prob.y) \subseteq NamesY(prob)
    BY DEF Members, NamesX, NamesY
  <2>4. QED
    BY <2>2, <2>3 DEF WantedX, WantedY
<1>6. \A m \in Pairs : m \in Entry \X Entry /\ m[1] \in WantedX /\ m[2] \in WantedY
  BY <1>2 DEF Pairs, WantedX, WantedY
<1>7. \A s \in Skips : /\ s \in Side \X Side
                       /\ s[1] \in NamesX(prob) \cup {Missing}
                       /\ s[2] \in NamesY(prob) \cup {Missing}
  <2>1. SUFFICES ASSUME NEW i \in DOMAIN prob.skip
                 PROVE  /\ prob.skip[i] \in Side \X Side
                        /\ prob.skip[i][1] \in NamesX(prob) \cup {Missing}
                        /\ prob.skip[i][2] \in NamesY(prob) \cup {Missing}
    BY DEF Skips
  <2>2. /\ prob.skip[i][1] \in {prob.skip[j][1] : j \in DOMAIN prob.skip}
        /\ prob.skip[i][2] \in {prob.skip[j][2] : j \in DOMAIN prob.skip}
    OBVIOUS
  <2>3. QED
    BY <1>2, <2>2 DEF NamesX, NamesY
<1>8. QED
  BY <1>1, <1>3, <1>4, <1>5, <1>6, <1>7

LEMMA NestedNames ==
  /\ prob.x.top \subseteq NamesX(prob) /\ prob.y.top \subseteq NamesY(prob)
  /\ \A i \in DOMAIN prob.x.nested :
       prob.x.nested[i].subs \subseteq NamesX(prob) /\ prob.x.nested[i].field \in NamesX(prob)
  /\ \A i \in DOMAIN prob.y.nested :
       prob.y.nested[i].subs \subseteq NamesY(prob) /\ prob.y.nested[i].field \in NamesY(prob)
<1>1. /\ prob.x.top \subseteq NamesX(prob) /\ prob.y.top \subseteq NamesY(prob)
      /\ UNION {prob.x.nested[i].subs : i \in DOMAIN prob.x.nested} \subseteq NamesX(prob)
      /\ UNION {prob.y.nested[i].subs : i \in DOMAIN prob.y.nested} \subseteq NamesY(prob)
      /\ {prob.x.nested[i].field : i \in DOMAIN prob.x.nested} \subseteq NamesX(prob)
      /\ {prob.y.nested[i].field : i \in DOMAIN prob.y.nested} \subseteq NamesY(prob)
  BY DEF NamesX, NamesY
<1>2. ASSUME NEW i \in DOMAIN prob.x.nested
      PROVE  prob.x.nested[i].subs \subseteq NamesX(prob) /\ prob.x.nested[i].field \in NamesX(prob)
  <2>1. prob.x.nested[i].subs \in {prob.x.nested[j].subs : j \in DOMAIN prob.x.nested}
    OBVIOUS
  <2>2. prob.x.nested[i].subs \subseteq UNION {prob.x.nested[j].subs : j \in DOMAIN prob.x.nested}
    BY <2>1
  <2>3. prob.x.nested[i].field \in {prob.x.nested[j].field : j \in DOMAIN prob.x.nested}
    OBVIOUS
  <2>4. QED
    BY <1>1, <2>2, <2>3
<1>3. ASSUME NEW i \in DOMAIN prob.y.nested
      PROVE  prob.y.nested[i].subs \subseteq NamesY(prob) /\ prob.y.nested[i].field \in NamesY(prob)
  <2>1. prob.y.nested[i].subs \in {prob.y.nested[j].subs : j \in DOMAIN prob.y.nested}
    OBVIOUS
  <2>2. prob.y.nested[i].subs \subseteq UNION {prob.y.nested[j].subs : j \in DOMAIN prob.y.nested}
    BY <2>1
  <2>3. prob.y.nested[i].field \in {prob.y.nested[j].field : j \in DOMAIN prob.y.nested}
    OBVIOUS
  <2>4. QED
    BY <1>1, <2>2, <2>3
<1>4. QED
  BY <1>1, <1>2, <1>3

LEMMA NestedNext ==
  ASSUME NEW d, d.nested \in Seq([field : Entry, subs : SUBSET Entry]), OutsideIn(d),
         NEW q \in Seq([field : Entry, subs : SUBSET Entry]), Rest(q, d.nested), q # <<>>,
         NEW S, Apart(S), d.top \subseteq S,
         \A i \in DOMAIN d.nested : d.nested[i].subs \subseteq S /\ d.nested[i].field \in S
  PROVE  Add(Delete(Opened(d, Len(d.nested) - Len(q)), Head(q).field.pos), Head(q).subs)
           = Opened(d, Len(d.nested) - Len(Tail(q)))
<1> DEFINE n == Len(d.nested) - Len(q)
<1>1. /\ Len(Tail(q)) = Len(q) - 1 /\ Head(q) = d.nested[n + 1]
      /\ Len(q) \in Nat /\ Len(d.nested) \in Nat /\ Len(q) >= 1 /\ Len(q) <= Len(d.nested)
  BY RestTail
<1>2. n \in Nat /\ n + 1 \in 1 .. Len(d.nested) /\ Len(d.nested) - Len(Tail(q)) = n + 1
  BY <1>1
<1>3. DOMAIN d.nested = 1 .. Len(d.nested)
  OBVIOUS
<1> HIDE DEF n
<1>4. Add(Delete(Opened(d, n), d.nested[n + 1].field.pos), d.nested[n + 1].subs)
        = Opened(d, n + 1)
  BY <1>1, <1>2, <1>3, OpenedNext
<1>5. QED
  BY <1>1, <1>2, <1>4 DEF n

LEMMA OpenedNone ==
  ASSUME NEW d
  PROVE  Opened(d, 0) = d.top
<1>1. 1 .. 0 = {}
  OBVIOUS
<1>2. {d.nested[i].subs : i \in 1 .. 0} = {} /\ {d.nested[i].field : i \in 1 .. 0} = {}
  BY <1>1
<1>3. UNION {d.nested[i].subs : i \in 1 .. 0} = {}
  BY <1>2
<1>4. QED
  BY <1>2, <1>3 DEF Opened

LEMMA InitMeaning ==
  ASSUME Init
  PROVE  Meaning
BY DEF Init, Meaning, NothingIsLost, MatchesAreMeant, RefusalsAreReal, Accepted, Refused

(* Nothing is said of the links before the rules. *)
LEMMA DiscoveryMeaning ==
  ASSUME Meaning, phase \in {"start", "discover"}, phase' = "discover",
         UNCHANGED <<prob, links, fails>>, todo'.skip = todo.skip,
         xs' = IndexX', ys' = IndexY'
  PROVE  Meaning'
<1>1. links' = {} /\ fails' = {} /\ todo'.skip = prob'.skip
  BY DEF Meaning
<1>2. NothingIsLost' /\ MatchesAreMeant' /\ RefusalsAreReal'
  BY DEF NothingIsLost, MatchesAreMeant, RefusalsAreReal, Accepted, Refused
<1>3. QED
  BY <1>1, <1>2 DEF Meaning

LEMMA DiscoverMeaning ==
  ASSUME Typed, Tidy(prob), Meaning, DiscoverFields \/ DiscoverNestedX \/ DiscoverNestedY
  PROVE  Meaning'
<1>1. /\ prob' = prob /\ links' = links /\ fails' = fails
      /\ phase' = "discover" /\ phase \in {"start", "discover"}
  BY DEF DiscoverFields, DiscoverNestedX, DiscoverNestedY
<1>2. todo.match = prob.match
  BY DEF DiscoverFields, DiscoverNestedX, DiscoverNestedY, Typed
<1>3. Past(todo.match, prob.match) = {}
  BY <1>2, ListFacts, RestSelf
<1>4. /\ IndexX = Opened(prob.x, Len(prob.x.nested) - Len(todo.x.nested))
      /\ IndexY = Opened(prob.y, Len(prob.y.nested) - Len(todo.y.nested))
  BY <1>3 DEF IndexX, IndexY
<1>5. ASSUME todo'.match = todo.match
      PROVE  /\ IndexX' = Opened(prob.x, Len(prob.x.nested) - Len(todo'.x.nested))
             /\ IndexY' = Opened(prob.y, Len(prob.y.nested) - Len(todo'.y.nested))
  <2>1. Past(todo'.match, prob'.match) = {}
    BY <1>1, <1>3, <1>5
  <2>2. {m[1] : m \in Past(todo'.match, prob'.match)} = {}
        /\ {m[2] : m \in Past(todo'.match, prob'.match)} = {}
    BY <2>1
  <2>3. QED
    BY <1>1, <2>2 DEF IndexX, IndexY
<1>6. CASE DiscoverFields
  <2>1. /\ xs' = Add({}, prob.x.top) /\ ys' = Add({}, prob.y.top) /\ todo' = todo /\ todo = prob
    BY <1>6 DEF DiscoverFields, Meaning
  <2>2. xs' = prob.x.top /\ ys' = prob.y.top
    BY <2>1 DEF Add
  <2>3. /\ Len(prob.x.nested) - Len(todo'.x.nested) = 0
        /\ Len(prob.y.nested) - Len(todo'.y.nested) = 0
    <3>1. /\ prob.x.nested \in Seq([field : Entry, subs : SUBSET Entry])
          /\ prob.y.nested \in Seq([field : Entry, subs : SUBSET Entry])
      BY ListFacts
    <3>2. Len(prob.x.nested) \in Nat /\ Len(prob.y.nested) \in Nat
      BY <3>1
    <3>3. QED
      BY <2>1, <3>2
  <2>4. xs' = IndexX' /\ ys' = IndexY'
    BY <1>5, <2>1, <2>2, <2>3, OpenedNone
  <2>5. QED
    BY <1>1, <2>1, <2>4, DiscoveryMeaning
<1>7. CASE DiscoverNestedX
  <2>1. /\ xs = IndexX /\ ys = IndexY /\ ys' = ys /\ todo.x.nested # <<>>
        /\ xs' = Add(Delete(xs, Head(todo.x.nested).field.pos), Head(todo.x.nested).subs)
        /\ todo' = [todo EXCEPT !.x.nested = Tail(todo.x.nested)]
    BY <1>7 DEF DiscoverNestedX, Meaning
  <2>2. xs' = Opened(prob.x, Len(prob.x.nested) - Len(Tail(todo.x.nested)))
    <3>1. /\ prob.x.nested \in Seq([field : Entry, subs : SUBSET Entry])
          /\ todo.x.nested \in Seq([field : Entry, subs : SUBSET Entry])
          /\ Rest(todo.x.nested, prob.x.nested)
      BY ListFacts
    <3>2. OutsideIn(prob.x) /\ Apart(NamesX(prob))
      BY DEF Tidy
    <3>3. Add(Delete(Opened(prob.x, Len(prob.x.nested) - Len(todo.x.nested)),
                     Head(todo.x.nested).field.pos), Head(todo.x.nested).subs)
            = Opened(prob.x, Len(prob.x.nested) - Len(Tail(todo.x.nested)))
      BY <2>1, <3>1, <3>2, NestedNames, NestedNext
    <3>4. QED
      BY <1>4, <2>1, <3>3
  <2>3. /\ todo'.x.nested = Tail(todo.x.nested) /\ todo'.y = todo.y
        /\ todo'.match = todo.match /\ todo'.skip = todo.skip
    <3>1. Tail(todo.x.nested) \in Seq([field : Entry, subs : SUBSET Entry])
      BY <2>1, ListFacts, RestTail
    <3>2. QED
      BY <2>1, <3>1, ListFacts, TodoFacts
  <2>4. xs' = IndexX' /\ ys' = IndexY'
    BY <1>4, <1>5, <2>1, <2>2, <2>3
  <2>5. QED
    BY <1>1, <2>3, <2>4, DiscoveryMeaning
<1>8. CASE DiscoverNestedY
  <2>1. /\ xs = IndexX /\ ys = IndexY /\ xs' = xs /\ todo.y.nested # <<>>
        /\ ys' = Add(Delete(ys, Head(todo.y.nested).field.pos), Head(todo.y.nested).subs)
        /\ todo' = [todo EXCEPT !.y.nested = Tail(todo.y.nested)]
    BY <1>8 DEF DiscoverNestedY, Meaning
  <2>2. ys' = Opened(prob.y, Len(prob.y.nested) - Len(Tail(todo.y.nested)))
    <3>1. /\ prob.y.nested \in Seq([field : Entry, subs : SUBSET Entry])
          /\ todo.y.nested \in Seq([field : Entry, subs : SUBSET Entry])
          /\ Rest(todo.y.nested, prob.y.nested)
      BY ListFacts
    <3>2. OutsideIn(prob.y) /\ Apart(NamesY(prob))
      BY DEF Tidy
    <3>3. Add(Delete(Opened(prob.y, Len(prob.y.nested) - Len(todo.y.nested)),
                     Head(todo.y.nested).field.pos), Head(todo.y.nested).subs)
            = Opened(prob.y, Len(prob.y.nested) - Len(Tail(todo.y.nested)))
      BY <2>1, <3>1, <3>2, NestedNames, NestedNext
    <3>4. QED
      BY <1>4, <2>1, <3>3
  <2>3. /\ todo'.y.nested = Tail(todo.y.nested) /\ todo'.x = todo.x
        /\ todo'.match = todo.match /\ todo'.skip = todo.skip
    <3>1. Tail(todo.y.nested) \in Seq([field : Entry, subs : SUBSET Entry])
      BY <2>1, ListFacts, RestTail
    <3>2. QED
      BY <2>1, <3>1, ListFacts, TodoFacts
  <2>4. xs' = IndexX' /\ ys' = IndexY'
    BY <1>4, <1>5, <2>1, <2>2, <2>3
  <2>5. QED
    BY <1>1, <2>3, <2>4, DiscoveryMeaning
<1>9. QED
  BY <1>6, <1>7, <1>8

(* All that DiscoverNested names is open. *)
LEMMA DiscoveredIndex ==
  ASSUME Typed, todo.x.nested = <<>>, todo.y.nested = <<>>
  PROVE  /\ IndexX = Members(prob.x) \cup {m[1] : m \in Past(todo.match, prob.match)}
         /\ IndexY = Members(prob.y) \cup {m[2] : m \in Past(todo.match, prob.match)}
         /\ Pairs = Listed(prob.match)
         /\ Past(todo.match, prob.match) \subseteq Pairs
<1>1. /\ prob.x.nested \in Seq([field : Entry, subs : SUBSET Entry])
      /\ prob.y.nested \in Seq([field : Entry, subs : SUBSET Entry])
      /\ prob.match \in Seq(Entry \X Entry) /\ todo.match \in Seq(Entry \X Entry)
      /\ Rest(todo.match, prob.match)
  BY ListFacts
<1>2. Len(todo.x.nested) = 0 /\ Len(todo.y.nested) = 0
  OBVIOUS
<1>3. /\ 1 .. Len(prob.x.nested) - Len(todo.x.nested) = DOMAIN prob.x.nested
      /\ 1 .. Len(prob.y.nested) - Len(todo.y.nested) = DOMAIN prob.y.nested
  BY <1>1, <1>2
<1>4. /\ Opened(prob.x, Len(prob.x.nested) - Len(todo.x.nested)) = Members(prob.x)
      /\ Opened(prob.y, Len(prob.y.nested) - Len(todo.y.nested)) = Members(prob.y)
  BY <1>3 DEF Opened, Members
<1>5. Pairs = Listed(prob.match)
  BY DEF Pairs, Listed
<1>6. Past(todo.match, prob.match) \subseteq Pairs
  BY <1>1, <1>5, RestListed
<1>7. QED
  BY <1>4, <1>5, <1>6 DEF IndexX, IndexY

LEMMA ResolveMeaning ==
  ASSUME Typed, Tidy(prob), Meaning, ResolveMatch
  PROVE  Meaning'
<1> DEFINE m == Head(todo.match)
           past == Past(todo.match, prob.match)
<1>1. /\ prob' = prob /\ phase' = phase /\ phase = "discover" /\ todo.match # <<>>
      /\ todo.x.nested = <<>> /\ todo.y.nested = <<>> /\ links' = links /\ fails' = fails
      /\ xs' = Add(xs, {m[1]}) /\ ys' = Add(ys, {m[2]})
      /\ todo' = [todo EXCEPT !.match = Tail(todo.match)]
  BY DEF ResolveMatch, Discovered
<1>2. /\ Tail(todo.match) \in Seq(Entry \X Entry) /\ Rest(Tail(todo.match), prob.match)
      /\ Past(Tail(todo.match), prob.match) = past \cup {m}
  BY <1>1, ListFacts, RestTail
<1>3. /\ todo'.match = Tail(todo.match) /\ todo'.x = todo.x /\ todo'.y = todo.y
      /\ todo'.skip = todo.skip
  BY <1>1, <1>2, ListFacts, TodoFacts
<1>4. xs = IndexX /\ ys = IndexY
  BY <1>1 DEF Meaning
<1>5. m \in Pairs
  <2>1. past \cup {m} \subseteq Listed(prob.match)
    <3>1. prob.match \in Seq(Entry \X Entry)
      BY ListFacts
    <3> HIDE DEF past, m
    <3>2. Tail(todo.match) \in Seq(Entry \X Entry) /\ Rest(Tail(todo.match), prob.match)
      BY <1>2
    <3>3. Listed(prob.match)
            = Past(Tail(todo.match), prob.match) \cup Listed(Tail(todo.match))
      BY <3>1, <3>2, RestListed
    <3>4. QED
      BY <1>2, <3>3
  <2>2. QED
    BY <1>1, <2>1, DiscoveredIndex
<1> HIDE DEF m
<1>6. /\ xs \in SUBSET NamesX(prob) /\ ys \in SUBSET NamesY(prob)
      /\ {m[1]} \in SUBSET NamesX(prob) /\ {m[2]} \in SUBSET NamesY(prob)
  <2>1. xs \subseteq WantedX /\ ys \subseteq WantedY
    BY <1>1, <1>4, DiscoveredIndex DEF WantedX, WantedY
  <2>2. m[1] \in WantedX /\ m[2] \in WantedY
    BY <1>5 DEF WantedX, WantedY
  <2>3. QED
    BY <2>1, <2>2, NamesFacts
<1>7. xs' = xs \cup {m[1]} /\ ys' = ys \cup {m[2]}
  BY <1>1, <1>6, NamesFacts, AddApart
<1>8. /\ {n[1] : n \in past \cup {m}} = {n[1] : n \in past} \cup {m[1]}
      /\ {n[2] : n \in past \cup {m}} = {n[2] : n \in past} \cup {m[2]}
  OBVIOUS
<1> HIDE DEF past
<1>9. /\ IndexX' = Opened(prob.x, Len(prob.x.nested) - Len(todo.x.nested))
                   \cup {n[1] : n \in past \cup {m}}
      /\ IndexY' = Opened(prob.y, Len(prob.y.nested) - Len(todo.y.nested))
                   \cup {n[2] : n \in past \cup {m}}
  BY <1>1, <1>2, <1>3 DEF IndexX, IndexY
<1>10. xs' = IndexX' /\ ys' = IndexY'
  BY <1>4, <1>7, <1>8, <1>9 DEF IndexX, IndexY, past
<1>11. QED
  BY <1>1, <1>3, <1>10, DiscoveryMeaning

(* The members that Match names, by their positions. *)
LEMMA ForcedFacts ==
  ASSUME Typed, Tidy(prob), NEW x \in WantedX, NEW y \in WantedY
  PROVE  /\ ForcedX(x.pos) <=> \E m \in Pairs : m[1] = x
         /\ ForcedY(y.pos) <=> \E m \in Pairs : m[2] = y
<1>1. /\ x \in NamesX(prob) /\ y \in NamesY(prob)
      /\ \A m \in Pairs : m[1] \in NamesX(prob) /\ m[2] \in NamesY(prob)
  BY NamesFacts
<1>2. /\ \A m \in Pairs : m[1].pos = x.pos <=> m[1] = x
      /\ \A m \in Pairs : m[2].pos = y.pos <=> m[2] = y
  BY <1>1, NamesFacts DEF Apart
<1>3. /\ ForcedX(x.pos) <=> \E m \in Pairs : m[1].pos = x.pos
      /\ ForcedY(y.pos) <=> \E m \in Pairs : m[2].pos = y.pos
  BY DEF ForcedX, ForcedY, Pairs
<1>4. QED
  BY <1>2, <1>3

LEMMA MatchMeaning ==
  ASSUME Typed, Tidy(prob), Meaning, RuleMatch
  PROVE  Meaning'
<1> DEFINE found == {l \in xs \X ys : ByKey(l[1], l[2])}
<1>1. /\ UNCHANGED <<prob, todo, xs, ys>> /\ phase' = "key" /\ phase = "discover"
      /\ todo.match = <<>> /\ todo.x.nested = <<>> /\ todo.y.nested = <<>>
      /\ links' = found /\ Put(found, {})
  BY DEF RuleMatch, Discovered
<1>2. xs = WantedX /\ ys = WantedY
  <2>1. prob.match \in Seq(Entry \X Entry)
    BY ListFacts
  <2>2. Past(todo.match, prob.match) = Listed(prob.match)
    BY <1>1, <2>1, RestDone
  <2>3. IndexX = WantedX /\ IndexY = WantedY
    BY <1>1, <2>2, DiscoveredIndex DEF WantedX, WantedY
  <2>4. QED
    BY <1>1, <2>3 DEF Meaning
<1>3. found = Unnamed
  <2>1. ASSUME NEW l \in WantedX \X WantedY
        PROVE  ByKey(l[1], l[2])
                 <=> l[1].key = l[2].key /\ \A m \in Pairs : m[1] # l[1] /\ m[2] # l[2]
    <3>1. l[1] \in WantedX /\ l[2] \in WantedY
      OBVIOUS
    <3>2. /\ ForcedX(l[1].pos) <=> \E m \in Pairs : m[1] = l[1]
          /\ ForcedY(l[2].pos) <=> \E m \in Pairs : m[2] = l[2]
      BY <3>1, ForcedFacts
    <3>3. QED
      BY <3>2 DEF ByKey
  <2>2. QED
    BY <1>2, <2>1 DEF Unnamed
<1>4. fails' = {} /\ todo.skip = prob.skip
  BY <1>1 DEF Put, Meaning
<1>5. Unnamed' = Unnamed /\ WantedX' = WantedX /\ WantedY' = WantedY
  BY <1>1 DEF Unnamed, WantedX, WantedY, Pairs
<1>6. NothingIsLost' /\ MatchesAreMeant' /\ RefusalsAreReal'
  BY <1>1 DEF NothingIsLost, MatchesAreMeant, RefusalsAreReal, Accepted, Refused
<1> HIDE DEF found
<1>7. QED
  BY <1>1, <1>2, <1>3, <1>4, <1>5, <1>6 DEF Meaning

LEMMA ForcedMeaning ==
  ASSUME Typed, Tidy(prob), Meaning, RuleForced
  PROVE  Meaning'
<1> DEFINE forced ==
      {<<ByPos(xs, prob.match[i][1].pos), ByPos(ys, prob.match[i][2].pos)>> :
         i \in DOMAIN prob.match}
<1>1. /\ UNCHANGED <<prob, todo, xs, ys>> /\ phase' = "forced" /\ phase = "key"
      /\ links' = links \cup forced /\ Put(forced, {})
  BY DEF RuleForced
<1>2. /\ xs = WantedX /\ ys = WantedY /\ links = Unnamed /\ fails = {}
      /\ todo.skip = prob.skip /\ todo.match = <<>>
  BY <1>1 DEF Meaning, Typed
<1>3. forced = Pairs
  <2>1. ASSUME NEW i \in DOMAIN prob.match
        PROVE  <<ByPos(xs, prob.match[i][1].pos), ByPos(ys, prob.match[i][2].pos)>>
                 = prob.match[i]
    <3>1. prob.match[i] \in Pairs
      BY DEF Pairs
    <3>2. /\ prob.match[i][1] \in NamesX(prob) /\ prob.match[i][2] \in NamesY(prob)
          /\ prob.match[i] \in Entry \X Entry
      BY <3>1, NamesFacts
    <3>3. /\ ByPos(xs, prob.match[i][1].pos) \in NamesX(prob)
          /\ ByPos(xs, prob.match[i][1].pos).pos = prob.match[i][1].pos
          /\ ByPos(ys, prob.match[i][2].pos) \in NamesY(prob)
          /\ ByPos(ys, prob.match[i][2].pos).pos = prob.match[i][2].pos
      BY <1>2, ForcedEntries, NamesFacts
    <3>4. /\ ByPos(xs, prob.match[i][1].pos) = prob.match[i][1]
          /\ ByPos(ys, prob.match[i][2].pos) = prob.match[i][2]
      BY <3>2, <3>3, NamesFacts DEF Apart
    <3>5. QED
      BY <3>2, <3>4
  <2>2. QED
    BY <2>1 DEF Pairs
<1> HIDE DEF forced
<1>4. links' = Meant
  BY <1>1, <1>2, <1>3 DEF Meant, Unnamed
<1>5. fails' = {}
  BY <1>1, <1>2 DEF Put
<1>6. Meant' = Meant /\ WantedX' = WantedX /\ WantedY' = WantedY
  BY <1>1 DEF Meant, WantedX, WantedY, Pairs
<1>7. NothingIsLost' /\ MatchesAreMeant' /\ RefusalsAreReal'
  BY <1>1 DEF NothingIsLost, MatchesAreMeant, RefusalsAreReal, Accepted, Refused
<1>8. QED
  BY <1>1, <1>2, <1>4, <1>5, <1>6, <1>7 DEF Meaning

-----------------------------------------------------------------------------
(* The members that MatchSkip names with nil, by their positions. *)
LEMMA SkippedFacts ==
  ASSUME Typed, Tidy(prob)
  PROVE  /\ \A x \in WantedX : Skipped(x.pos, NoPos) <=> <<x, Missing>> \in Skips
         /\ \A y \in WantedY : Skipped(NoPos, y.pos) <=> <<Missing, y>> \in Skips
<1>1. \A p, q : Skipped(p, q) <=> \E s \in Skips : PosOf(s[1]) = p /\ PosOf(s[2]) = q
  BY DEF Skipped, Skips, PosPair
<1>2. /\ \A e \in Entry : e # Missing /\ e.pos # NoPos /\ PosOf(e) = e.pos
      /\ PosOf(Missing) = NoPos
  BY SentinelsAssumption DEF PosOf, Entry
<1>3. /\ \A s \in Skips : s \in Side \X Side /\ s[1] \in NamesX(prob) \cup {Missing}
                                            /\ s[2] \in NamesY(prob) \cup {Missing}
      /\ NamesX(prob) \subseteq Entry /\ NamesY(prob) \subseteq Entry
      /\ WantedX \subseteq NamesX(prob) /\ WantedY \subseteq NamesY(prob)
  BY NamesFacts
<1>4. ASSUME NEW x \in WantedX
      PROVE  Skipped(x.pos, NoPos) <=> <<x, Missing>> \in Skips
  <2>1. ASSUME NEW s \in Skips, PosOf(s[1]) = x.pos, PosOf(s[2]) = NoPos
        PROVE  s = <<x, Missing>>
    <3>1. s[1] = x
      BY <1>2, <1>3, <2>1, NamesFacts DEF Apart
    <3>2. s[2] = Missing
      BY <1>2, <1>3, <2>1
    <3>3. QED
      BY <1>3, <3>1, <3>2
  <2>2. <<x, Missing>> \in Skips => Skipped(x.pos, NoPos)
    BY <1>1, <1>2, <1>3
  <2>3. QED
    BY <1>1, <2>1, <2>2
<1>5. ASSUME NEW y \in WantedY
      PROVE  Skipped(NoPos, y.pos) <=> <<Missing, y>> \in Skips
  <2>1. ASSUME NEW s \in Skips, PosOf(s[1]) = NoPos, PosOf(s[2]) = y.pos
        PROVE  s = <<Missing, y>>
    <3>1. s[1] = Missing
      BY <1>2, <1>3, <2>1
    <3>2. s[2] = y
      BY <1>2, <1>3, <2>1, NamesFacts DEF Apart
    <3>3. QED
      BY <1>3, <3>1, <3>2
  <2>2. <<Missing, y>> \in Skips => Skipped(NoPos, y.pos)
    BY <1>1, <1>2, <1>3
  <2>3. QED
    BY <1>1, <2>1, <2>2
<1>6. QED
  BY <1>4, <1>5

(* Missing is neither wanted nor meant. *)
LEMMA MeantFacts ==
  ASSUME Typed, Tidy(prob)
  PROVE  /\ WantedX \subseteq Entry /\ WantedY \subseteq Entry
         /\ Missing \notin WantedX /\ Missing \notin WantedY
         /\ \A l \in Meant : /\ l = <<l[1], l[2]>> /\ l[1] \in WantedX /\ l[2] \in WantedY
                             /\ Missing \notin {l[1], l[2]}
<1>1. WantedX \subseteq Entry /\ WantedY \subseteq Entry
  BY NamesFacts
<1>2. Missing \notin WantedX /\ Missing \notin WantedY
  BY <1>1, SentinelsAssumption
<1>3. \A m \in Pairs : m = <<m[1], m[2]>> /\ m[1] \in WantedX /\ m[2] \in WantedY
  BY NamesFacts
<1>4. \A l \in Meant : l = <<l[1], l[2]>> /\ l[1] \in WantedX /\ l[2] \in WantedY
  BY <1>3 DEF Meant
<1>5. QED
  BY <1>1, <1>2, <1>4

(* What is meant is fixed. *)
LEMMA MeantStays ==
  ASSUME prob' = prob
  PROVE  /\ WantedX' = WantedX /\ WantedY' = WantedY /\ Meant' = Meant /\ Pairs' = Pairs
         /\ Skips' = Skips /\ Blameless' = Blameless
         /\ \A x : LetGoX(x)' = LetGoX(x) /\ LetGoY(x)' = LetGoY(x)
<1>1. /\ WantedX' = WantedX /\ WantedY' = WantedY /\ Meant' = Meant /\ Pairs' = Pairs
      /\ Skips' = Skips
  BY DEF WantedX, WantedY, Pairs, Meant, Skips
<1>2. Loss' = Loss /\ Merge' = Merge /\ Blank' = Blank
  BY <1>1 DEF Loss, Merge, Blank, NamedX, NamedY
<1>3. \A s : Ineffective(s)' = Ineffective(s)
  BY <1>1 DEF Ineffective
<1>4. \A x : LetGoX(x)' = LetGoX(x) /\ LetGoY(x)' = LetGoY(x)
  BY <1>1 DEF LetGoX, LetGoY
<1>5. QED
  BY <1>1, <1>2, <1>3, <1>4 DEF Blameless

LEMMA MissingMeaning ==
  ASSUME Typed, Tidy(prob), Meaning, RuleMissing
  PROVE  Meaning'
<1> DEFINE looseX == {x \in xs : FromX(x) = {}}
           looseY == {y \in ys : FromY(y) = {}}
           goodX  == {x \in looseX : Skipped(x.pos, NoPos)}
           goodY  == {y \in looseY : Skipped(NoPos, y.pos) \/ y.pos = prob.default}
           good   == goodX \X {Missing} \cup {Missing} \X goodY
           bad    == (looseX \ goodX) \X {Missing} \cup {Missing} \X (looseY \ goodY)
<1>1. /\ UNCHANGED <<prob, todo, xs, ys>> /\ phase' = "missing" /\ phase = "forced"
      /\ links' = links /\ Put(good, bad)
  BY DEF RuleMissing
<1>2. /\ xs = WantedX /\ ys = WantedY /\ links = Meant /\ fails = {} /\ todo.skip = prob.skip
  BY <1>1 DEF Meaning
<1>3. /\ \A x : x \in looseX <=> x \in WantedX /\ \A l \in Meant : l[1] # x
      /\ \A y : y \in looseY <=> y \in WantedY /\ \A l \in Meant : l[2] # y
  BY <1>2 DEF FromX, FromY
<1>4. /\ \A x : x \in goodX <=> x \in looseX /\ <<x, Missing>> \in Skips
      /\ \A y : y \in goodY <=> y \in looseY /\ (<<Missing, y>> \in Skips \/ y.pos = prob.default)
  BY <1>2, SkippedFacts
<1> HIDE DEF looseX, looseY, goodX, goodY
<1>5. \A r \in bad : Missing \in {r[1], r[2]}
  OBVIOUS
<1>6. fails' = bad
  <2>1. good \cap bad = {}
    <3>1. Missing \notin looseX /\ Missing \notin looseY
      BY <1>3, MeantFacts
    <3>2. QED
      BY <1>4, <3>1
  <2> HIDE DEF good, bad
  <2>2. QED
    BY <1>1, <1>2, <2>1 DEF Put
<1>7. Past(todo.skip, prob.skip) = {}
  BY <1>2, ListFacts, RestSelf
<1>8. \A x \in WantedX : \/ \E l \in links' : l[1] = x
                         \/ \E r \in fails' : r[1] = x
                         \/ LetGoX(x)
  <2>1. SUFFICES ASSUME NEW x \in WantedX, \A l \in Meant : l[1] # x
                 PROVE  (\E r \in bad : r[1] = x) \/ LetGoX(x)
    BY <1>1, <1>2, <1>6
  <2>2. CASE x \in goodX
    <3>1. <<x, Missing>> \in Skips /\ Missing \notin WantedY
      BY <1>4, <2>2, MeantFacts
    <3>2. QED
      BY <3>1 DEF LetGoX
  <2>3. CASE x \notin goodX
    <3>1. x \in looseX \ goodX
      BY <1>3, <2>1, <2>3
    <3>2. <<x, Missing>> \in bad
      BY <3>1
    <3>3. QED
      BY <3>2
  <2>4. QED
    BY <2>2, <2>3
<1>9. \A y \in WantedY : \/ \E l \in links' : l[2] = y
                         \/ \E r \in fails' : r[2] = y
                         \/ LetGoY(y)
                         \/ y.pos = prob.default
  <2>1. SUFFICES ASSUME NEW y \in WantedY, \A l \in Meant : l[2] # y, y.pos # prob.default
                 PROVE  (\E r \in bad : r[2] = y) \/ LetGoY(y)
    BY <1>1, <1>2, <1>6
  <2>2. CASE y \in goodY
    <3>1. <<Missing, y>> \in Skips /\ Missing \notin WantedX
      BY <1>4, <2>1, <2>2, MeantFacts
    <3>2. QED
      BY <3>1 DEF LetGoY
  <2>3. CASE y \notin goodY
    <3>1. y \in looseY \ goodY
      BY <1>3, <2>1, <2>3
    <3>2. <<Missing, y>> \in bad
      BY <3>1
    <3>3. QED
      BY <3>2
  <2>4. QED
    BY <2>2, <2>3
<1>10. Blameless => bad = {}
  <2>1. SUFFICES ASSUME Blameless
                 PROVE  looseX \subseteq goodX /\ looseY \subseteq goodY
    OBVIOUS
  <2>2. \A s \in Skips : Missing \notin {s[1], s[2]} => s \in Meant
    BY <2>1 DEF Blameless, Ineffective
  <2>3. ASSUME NEW x \in looseX
        PROVE  x \in goodX
    <3>1. x \in WantedX /\ \A l \in Meant : l[1] # x
      BY <1>3
    <3>2. PICK s \in Skips : s[1] = x
      BY <2>1, <3>1 DEF Blameless, Loss, NamedX
    <3>3. s[2] = Missing /\ s = <<s[1], s[2]>>
      BY <2>2, <3>1, <3>2, MeantFacts, NamesFacts
    <3>4. QED
      BY <1>4, <3>2, <3>3
  <2>4. ASSUME NEW y \in looseY
        PROVE  y \in goodY
    <3>1. y \in WantedY /\ \A l \in Meant : l[2] # y
      BY <1>3
    <3>2. CASE y.pos = prob.default
      BY <1>4, <3>2
    <3>3. CASE y.pos # prob.default
      <4>1. PICK s \in Skips : s[2] = y
        BY <2>1, <3>1, <3>3 DEF Blameless, Loss, NamedY
      <4>2. s[1] = Missing /\ s = <<s[1], s[2]>>
        BY <2>2, <3>1, <4>1, MeantFacts, NamesFacts
      <4>3. QED
        BY <1>4, <4>1, <4>2
    <3>4. QED
      BY <3>2, <3>3
  <2>5. QED
    BY <2>3, <2>4
<1> HIDE DEF good, bad
<1>11. Skipping'
  <2>1. prob' = prob
    BY <1>1
  <2>2. Past(todo'.skip, prob'.skip) = {}
    BY <1>1, <1>7
  <2>3. Kept'
    BY <1>8, <1>9, <2>1, MeantStays DEF Kept
  <2>4. links' = Meant /\ Meant' = Meant /\ Blameless' = Blameless
    BY <1>1, <1>2, <2>1, MeantStays
  <2>5. QED
    BY <1>5, <1>6, <1>10, <2>2, <2>3, <2>4 DEF Skipping
<1>12. NothingIsLost' /\ MatchesAreMeant' /\ RefusalsAreReal'
  BY <1>1 DEF NothingIsLost, MatchesAreMeant, RefusalsAreReal, Accepted, Refused
<1>13. QED
  BY <1>1, <1>2, <1>11, <1>12, MeantStays DEF Meaning

-----------------------------------------------------------------------------
(* The MatchSkip that RuleSkip applies, and the entries it finds. *)
Now  == Head(todo.skip)
NowX == ByPos(xs, PosOf(Now[1]))
NowY == ByPos(ys, PosOf(Now[2]))

Before == Past(todo.skip, prob.skip)
After  == Listed(Tail(todo.skip))

LEMMA HeadOnce ==
  ASSUME NEW S, NEW q \in Seq(S), NEW t \in Seq(S), Rest(q, t), q # <<>>,
         \A i, j \in DOMAIN t : t[i] = t[j] => i = j
  PROVE  /\ Head(q) \notin Past(q, t) /\ Head(q) \notin Listed(Tail(q))
         /\ Listed(q) = Listed(Tail(q)) \cup {Head(q)}
<1> DEFINE k == Len(t) - Len(q)
<1>1. /\ Rest(Tail(q), t) /\ Tail(q) \in Seq(S) /\ Len(Tail(q)) = Len(q) - 1
      /\ Head(q) = t[k + 1]
      /\ Len(q) \in Nat /\ Len(t) \in Nat /\ Len(q) >= 1 /\ Len(q) <= Len(t)
  BY RestTail
<1>2. DOMAIN t = 1 .. Len(t) /\ DOMAIN q = 1 .. Len(q) /\ DOMAIN Tail(q) = 1 .. Len(Tail(q))
  BY <1>1
<1>3. k \in Nat /\ k + 1 \in 1 .. Len(t)
  BY <1>1
<1>4. Head(q) \notin Past(q, t)
  <2>1. \A i \in 1 .. k : i \in 1 .. Len(t) /\ i # k + 1
    BY <1>1, <1>3
  <2>2. QED
    BY <1>1, <1>2, <1>3, <2>1 DEF Past
<1>5. ASSUME NEW i \in 1 .. Len(Tail(q))
      PROVE  Tail(q)[i] # Head(q)
  <2>1. Tail(q)[i] = t[Len(t) - Len(Tail(q)) + i]
    BY <1>1 DEF Rest
  <2>2. /\ Len(t) - Len(Tail(q)) + i \in 1 .. Len(t)
        /\ Len(t) - Len(Tail(q)) + i # k + 1
    BY <1>1
  <2>3. QED
    BY <1>1, <1>2, <1>3, <2>1, <2>2
<1>6. Head(q) \notin Listed(Tail(q))
  BY <1>2, <1>5 DEF Listed
<1>7. Listed(q) = Listed(Tail(q)) \cup {Head(q)}
  <2>1. /\ Head(q) = q[1] /\ 1 \in 1 .. Len(q)
        /\ \A i \in 1 .. Len(Tail(q)) : Tail(q)[i] = q[i + 1] /\ i + 1 \in 1 .. Len(q)
    BY <1>1, HeadTailProperties
  <2>2. \A i \in 1 .. Len(q) : i = 1 \/ (i - 1 \in 1 .. Len(Tail(q)) /\ (i - 1) + 1 = i)
    BY <1>1
  <2>3. ASSUME NEW i \in 1 .. Len(q)
        PROVE  q[i] \in Listed(Tail(q)) \cup {Head(q)}
    <3>1. CASE i = 1
      BY <2>1, <3>1
    <3>2. CASE i # 1
      <4>1. i - 1 \in DOMAIN Tail(q) /\ Tail(q)[i - 1] = q[i]
        BY <1>2, <2>1, <2>2, <3>2
      <4>2. QED
        BY <4>1 DEF Listed
    <3>3. QED
      BY <3>1, <3>2
  <2>4. Listed(Tail(q)) \cup {Head(q)} \subseteq Listed(q)
    BY <1>2, <2>1 DEF Listed
  <2>5. QED
    BY <1>2, <2>3, <2>4 DEF Listed
<1>8. QED
  BY <1>4, <1>6, <1>7

LEMMA NowOnce ==
  ASSUME Typed, todo.skip # <<>>
  PROVE  /\ Now \in Skips /\ Now \notin Before /\ Now \notin After
         /\ Listed(todo.skip) = After \cup {Now} /\ Skips = Before \cup After \cup {Now}
         /\ Past(Tail(todo.skip), prob.skip) = Before \cup {Now}
<1>1. /\ todo.skip \in Seq(Side \X Side) /\ prob.skip \in Seq(Side \X Side)
      /\ Rest(todo.skip, prob.skip)
  BY ListFacts
<1>2. \A i, j \in DOMAIN prob.skip : prob.skip[i] = prob.skip[j] => i = j
  BY ProblemsAssumption DEF Typed, PosPair
<1>3. /\ Now \notin Before /\ Now \notin After
      /\ Listed(todo.skip) = After \cup {Now}
  BY <1>1, <1>2, HeadOnce DEF Now, Before, After
<1>4. Past(Tail(todo.skip), prob.skip) = Before \cup {Now}
  BY <1>1, RestTail DEF Now, Before
<1>5. Skips = Before \cup Listed(todo.skip)
  <2>1. Skips = Listed(prob.skip)
    BY DEF Skips, Listed
  <2>2. QED
    BY <1>1, <2>1, RestListed DEF Before
<1>6. QED
  BY <1>3, <1>4, <1>5

LEMMA NowFacts ==
  ASSUME Typed, Tidy(prob), todo.skip # <<>>, xs = WantedX, ys = WantedY
  PROVE  /\ NowX = IF Now[1] \in WantedX THEN Now[1] ELSE Missing
         /\ NowY = IF Now[2] \in WantedY THEN Now[2] ELSE Missing
         /\ Now = <<Now[1], Now[2]>> /\ Now # <<Missing, Missing>>
         /\ Now \in Meant => <<NowX, NowY>> = Now
         /\ Missing \notin {NowX, NowY} => <<NowX, NowY>> = Now
         /\ ~Ineffective(Now) => <<NowX, NowY>> = Now
<1>1. /\ Now \in Side \X Side /\ Now[1] \in NamesX(prob) \cup {Missing}
      /\ Now[2] \in NamesY(prob) \cup {Missing}
  BY NowOnce, NamesFacts
<1>2. NowX = IF Now[1] \in WantedX THEN Now[1] ELSE Missing
  BY <1>1, NamesFacts, ByPosApart DEF NowX
<1>3. NowY = IF Now[2] \in WantedY THEN Now[2] ELSE Missing
  BY <1>1, NamesFacts, ByPosApart DEF NowY
<1>4. Now # <<Missing, Missing>>
  <2>1. \A i \in DOMAIN prob.skip : prob.skip[i] # <<Missing, Missing>>
    BY ProblemsAssumption DEF Typed
  <2>2. QED
    BY <2>1, NowOnce DEF Skips
<1>5. Now \in Meant => Now[1] \in WantedX /\ Now[2] \in WantedY
  BY MeantFacts
<1>6. ~Ineffective(Now) => /\ Now[1] # Missing => Now[1] \in WantedX
                           /\ Now[2] # Missing => Now[2] \in WantedY
  BY DEF Ineffective
<1>7. Now = <<Now[1], Now[2]>>
  BY <1>1
<1>8. QED
  BY <1>2, <1>3, <1>4, <1>5, <1>6, <1>7

LEMMA OneRow ==
  ASSUME NEW x, NEW y
  PROVE  /\ IsValid(x) /\ IsValid(y) => NotMissing({<<x, y>>}) = {<<x, Missing>>, <<Missing, y>>}
         /\ ~(IsValid(x) /\ IsValid(y)) => NotMissing({<<x, y>>}) = {}
         /\ \A r \in NotMissing({<<x, y>>}) : r = <<x, Missing>> \/ r = <<Missing, y>>
<1> DEFINE valid == {r \in {<<x, y>>} : IsValid(r[1]) /\ IsValid(r[2])}
<1>1. NotMissing({<<x, y>>})
        = {<<r[1], Missing>> : r \in valid} \cup {<<Missing, r[2]>> : r \in valid}
  BY DEF NotMissing
<1>2. /\ IsValid(x) /\ IsValid(y) => valid = {<<x, y>>}
      /\ ~(IsValid(x) /\ IsValid(y)) => valid = {}
  OBVIOUS
<1> HIDE DEF valid
<1>3. CASE IsValid(x) /\ IsValid(y)
  <2>1. /\ {<<r[1], Missing>> : r \in {<<x, y>>}} = {<<x, Missing>>}
        /\ {<<Missing, r[2]>> : r \in {<<x, y>>}} = {<<Missing, y>>}
    OBVIOUS
  <2>2. NotMissing({<<x, y>>}) = {<<x, Missing>>, <<Missing, y>>}
    BY <1>1, <1>2, <1>3, <2>1
  <2>3. QED
    BY <1>3, <2>2
<1>4. CASE ~(IsValid(x) /\ IsValid(y))
  <2>1. valid = {}
    BY <1>2, <1>4
  <2>2. NotMissing({<<x, y>>}) = {}
    BY <1>1, <2>1
  <2>3. QED
    BY <1>4, <2>2
<1>5. QED
  BY <1>3, <1>4

(* What the options do not make a mistake of has a key, and is not yet       *)
(* skipped if it is linked.                                                  *)
LEMMA BlamelessFacts ==
  ASSUME Typed, Tidy(prob), Skipping, Blameless
  PROVE  /\ \A x \in WantedX \cup WantedY : IsValid(x)
         /\ \A t \in Before : t \notin links
         /\ \A l \in links : l \in Skips => l \in Listed(todo.skip)
<1>1. \A x \in WantedX \cup WantedY : IsValid(x)
  BY MeantFacts DEF Blameless, Blank, IsValid
<1>2. ASSUME NEW t \in Before, t \in links
      PROVE  FALSE
  <2>1. t \in fails /\ t \in Meant
    BY <1>2 DEF Skipping, Before
  <2>2. PICK l \in links : t = <<l[1], Missing>> \/ t = <<Missing, l[2]>>
    BY <2>1 DEF Skipping, Passing
  <2>3. QED
    BY <2>1, <2>2, MeantFacts
<1>3. Skips = Before \cup Listed(todo.skip)
  <2>1. /\ prob.skip \in Seq(Side \X Side) /\ todo.skip \in Seq(Side \X Side)
        /\ Rest(todo.skip, prob.skip)
    BY ListFacts
  <2>2. Skips = Listed(prob.skip)
    BY DEF Skips, Listed
  <2>3. QED
    BY <2>1, <2>2, RestListed DEF Before
<1>4. QED
  BY <1>1, <1>2, <1>3

LEMMA SkipFrame ==
  ASSUME Typed, Meaning, RuleSkip
  PROVE  /\ UNCHANGED <<prob, phase, xs, ys>> /\ phase = "missing" /\ todo.skip # <<>>
         /\ xs = WantedX /\ ys = WantedY /\ Skipping
         /\ Past(todo'.skip, prob'.skip) = Before \cup {Now}
         /\ Listed(todo'.skip) = After
         /\ \/ /\ ~Linked(NowX, NowY) /\ Put({}, {<<NowX, NowY>>}) /\ links' = links
            \/ /\ Linked(NowX, NowY) /\ Missing \in {Now[1], Now[2]}
               /\ links' = links /\ fails' = fails
            \/ /\ Linked(NowX, NowY) /\ Missing \notin {Now[1], Now[2]}
               /\ links' = links \ {<<NowX, NowY>>} /\ Put({<<NowX, NowY>>}, {})
<1>1. /\ UNCHANGED <<prob, phase, xs, ys>> /\ phase = "missing" /\ todo.skip # <<>>
      /\ todo' = [todo EXCEPT !.skip = Tail(todo.skip)]
      /\ \/ /\ ~Linked(NowX, NowY) /\ Put({}, {<<NowX, NowY>>}) /\ links' = links
         \/ /\ Linked(NowX, NowY) /\ Missing \in {Now[1], Now[2]}
            /\ links' = links /\ fails' = fails
         \/ /\ Linked(NowX, NowY) /\ Missing \notin {Now[1], Now[2]}
            /\ links' = links \ {<<NowX, NowY>>} /\ Put({<<NowX, NowY>>}, {})
  BY DEF RuleSkip, Now, NowX, NowY
<1>2. Tail(todo.skip) \in Seq(Side \X Side)
  BY <1>1, ListFacts, RestTail
<1>3. todo'.skip = Tail(todo.skip)
  BY <1>1, <1>2, ListFacts, TodoFacts
<1>4. xs = WantedX /\ ys = WantedY /\ Skipping
  BY <1>1 DEF Meaning
<1>5. /\ Past(todo'.skip, prob'.skip) = Before \cup {Now}
      /\ Listed(todo'.skip) = After
  BY <1>1, <1>3, NowOnce DEF After
<1>6. QED
  BY <1>1, <1>4, <1>5

(* A MatchSkip without effect is reported: it has a reason, or it waits for  *)
(* another MatchSkip. *)
LEMMA IneffectiveMeaning ==
  ASSUME Typed, Tidy(prob), Meaning, RuleSkip,
         ~Linked(NowX, NowY), Put({}, {<<NowX, NowY>>}), links' = links
  PROVE  Skipping'
<1> DEFINE row == <<NowX, NowY>>
<1>1. /\ prob' = prob /\ xs = WantedX /\ ys = WantedY /\ Skipping /\ todo.skip # <<>>
      /\ Past(todo'.skip, prob'.skip) = Before \cup {Now} /\ Listed(todo'.skip) = After
  BY SkipFrame
<1>2. /\ Now \in Skips /\ Now \notin Before /\ Listed(todo.skip) = After \cup {Now}
      /\ Skips = Before \cup After \cup {Now}
  BY <1>1, NowOnce
<1>3. /\ NowX = IF Now[1] \in WantedX THEN Now[1] ELSE Missing
      /\ NowY = IF Now[2] \in WantedY THEN Now[2] ELSE Missing
      /\ Now = <<Now[1], Now[2]>> /\ Now # <<Missing, Missing>>
      /\ Now \in Meant => row = Now
      /\ Missing \notin {NowX, NowY} => row = Now
      /\ ~Ineffective(Now) => row = Now
  BY <1>1, NowFacts
<1>4. fails' = (fails \ NotMissing({row})) \cup {row}
  <2>1. {} \cup {row} = {row}
    OBVIOUS
  <2>2. QED
    BY <2>1 DEF Put
<1>5. /\ \A r \in NotMissing({row}) : r = <<NowX, Missing>> \/ r = <<Missing, NowY>>
      /\ row[1] = NowX /\ row[2] = NowY
  BY OneRow
<1> HIDE DEF row
<1>6. /\ links \subseteq Meant /\ Meant \ links \subseteq Before
      /\ \A t \in Before : t \in links => t \in fails
      /\ \A r \in fails : Missing \in {r[1], r[2]} \/ r \in Before
      /\ Kept /\ (Blameless => \A r \in fails : Passing(r))
  BY <1>1 DEF Skipping, Before
<1>7. \A t \in Before \cup {Now} : t \in links => t \in fails'
  BY <1>3, <1>4, <1>5, <1>6, MeantFacts
<1>8. \A r \in fails' : Missing \in {r[1], r[2]} \/ r \in Before \cup {Now}
  BY <1>3, <1>4, <1>5, <1>6
<1>9. Kept'
  <2>1. \A x \in WantedX : \/ \E l \in links' : l[1] = x
                           \/ \E r \in fails' : r[1] = x
                           \/ LetGoX(x)
    <3>1. SUFFICES ASSUME NEW x \in WantedX, NEW r \in fails, r[1] = x, r \notin fails'
                   PROVE  \E q \in fails' : q[1] = x
      BY <1>6 DEF Kept
    <3>2. r \in NotMissing({row}) /\ Missing \notin WantedX
      BY <1>4, <3>1, MeantFacts
    <3>3. r = <<NowX, Missing>> \/ r = <<Missing, NowY>>
      BY <1>5, <3>2
    <3>4. x = NowX
      BY <3>1, <3>2, <3>3
    <3>5. QED
      BY <1>4, <1>5, <3>4
  <2>2. \A y \in WantedY : \/ \E l \in links' : l[2] = y
                           \/ \E r \in fails' : r[2] = y
                           \/ LetGoY(y)
                           \/ y.pos = prob.default
    <3>1. SUFFICES ASSUME NEW y \in WantedY, NEW r \in fails, r[2] = y, r \notin fails'
                   PROVE  \E q \in fails' : q[2] = y
      BY <1>6 DEF Kept
    <3>2. r \in NotMissing({row}) /\ Missing \notin WantedY
      BY <1>4, <3>1, MeantFacts
    <3>3. r = <<NowX, Missing>> \/ r = <<Missing, NowY>>
      BY <1>5, <3>2
    <3>4. y = NowY
      BY <3>1, <3>2, <3>3
    <3>5. QED
      BY <1>4, <1>5, <3>4
  <2>3. QED
    BY <1>1, <2>1, <2>2, MeantStays DEF Kept
<1>10. ASSUME Blameless, NEW r \in fails'
       PROVE  \E l \in links : l \in After /\ (r = <<l[1], Missing>> \/ r = <<Missing, l[2]>>)
  <2>1. /\ \A x \in WantedX \cup WantedY : IsValid(x)
        /\ \A l \in links : l \in Skips => l \in Listed(todo.skip)
        /\ \A t \in Before : t \notin links
    BY <1>1, <1>10, BlamelessFacts
  <2>2. row = Now /\ ~Ineffective(Now)
    BY <1>2, <1>3, <1>10 DEF Blameless
  <2>3. Now \notin links
    <3>1. SUFFICES ASSUME Now \in links
                   PROVE  FALSE
      OBVIOUS
    <3>2. IsValid(NowX) /\ IsValid(NowY) /\ <<NowX, NowY>> \in links
      BY <1>3, <1>6, <2>1, <2>2, <3>1, MeantFacts DEF row
    <3>3. QED
      BY <3>2 DEF Linked
  <2>4. CASE r \in fails
    <3>1. PICK l \in links : /\ l \in Listed(todo.skip)
                             /\ r = <<l[1], Missing>> \/ r = <<Missing, l[2]>>
      BY <1>6, <1>10, <2>4 DEF Passing
    <3>2. QED
      BY <1>2, <2>3, <3>1
  <2>5. CASE r = row
    <3>1. Missing \in {NowX, NowY}
      <4>1. SUFFICES ASSUME Missing \notin {NowX, NowY}
                     PROVE  FALSE
        OBVIOUS
      <4>2. Now \in Meant
        BY <2>2, <4>1 DEF Ineffective, row
      <4>3. QED
        BY <1>2, <1>6, <2>3, <4>2
    <3>2. CASE NowX # Missing
      <4>1. NowY = Missing /\ Now[1] = NowX /\ Now[2] = Missing /\ NowX \in WantedX
        BY <1>3, <2>2, <3>1, <3>2 DEF row
      <4>2. IsValid(NowX) /\ ~IsValid(NowY)
        BY <2>1, <4>1 DEF IsValid
      <4>3. PICK l \in links : l[1] = NowX
        BY <4>2 DEF Linked, FromX
      <4>4. l \in Skips
        BY <1>6, <2>2, <4>1, <4>3 DEF Ineffective
      <4>5. l \in After
        BY <1>2, <2>1, <2>3, <4>4
      <4>6. QED
        BY <2>5, <4>1, <4>3, <4>5 DEF row
    <3>3. CASE NowX = Missing
      <4>1. NowY # Missing /\ Now[1] = Missing /\ Now[2] = NowY /\ NowY \in WantedY
        BY <1>3, <2>2, <3>3, MeantFacts DEF row
      <4>2. IsValid(NowY) /\ ~IsValid(NowX)
        BY <2>1, <3>3, <4>1 DEF IsValid
      <4>3. PICK l \in links : l[2] = NowY
        BY <4>2 DEF Linked, FromY
      <4>4. l \in Skips
        BY <1>6, <2>2, <4>1, <4>3 DEF Ineffective
      <4>5. l \in After
        BY <1>2, <2>1, <2>3, <4>4
      <4>6. QED
        BY <2>5, <3>3, <4>3, <4>5 DEF row
    <3>4. QED
      BY <3>2, <3>3
  <2>6. QED
    BY <1>4, <1>10, <2>4, <2>5
<1>11. /\ links' \subseteq Meant' /\ Meant' \ links' \subseteq Before \cup {Now}
       /\ Blameless' = Blameless
  BY <1>1, <1>6, MeantStays
<1>12. Blameless' => \A r \in fails' : Passing(r)'
  BY <1>1, <1>10, <1>11 DEF Passing
<1>13. QED
  BY <1>1, <1>7, <1>8, <1>9, <1>11, <1>12 DEF Skipping

(* A MatchSkip with nil changes nothing more. *)
LEMMA WithNilMeaning ==
  ASSUME Typed, Tidy(prob), Meaning, RuleSkip,
         Missing \in {Now[1], Now[2]}, links' = links, fails' = fails
  PROVE  Skipping'
<1>1. /\ prob' = prob /\ Skipping /\ todo.skip # <<>>
      /\ Past(todo'.skip, prob'.skip) = Before \cup {Now} /\ Listed(todo'.skip) = After
  BY SkipFrame
<1>2. Listed(todo.skip) = After \cup {Now}
  BY <1>1, NowOnce
<1>3. /\ links \subseteq Meant /\ Meant \ links \subseteq Before
      /\ \A t \in Before : t \in links => t \in fails
      /\ \A r \in fails : Missing \in {r[1], r[2]} \/ r \in Before
      /\ Kept /\ (Blameless => \A r \in fails : Passing(r))
  BY <1>1 DEF Skipping, Before
<1>4. Now \notin links
  BY <1>3, MeantFacts
<1>5. Kept'
  BY <1>1, <1>3, MeantStays DEF Kept
<1>6. Blameless => \A r \in fails' : Passing(r)'
  BY <1>1, <1>2, <1>3, <1>4 DEF Passing
<1>7. links' \subseteq Meant' /\ Meant' \ links' \subseteq Before /\ Blameless' = Blameless
  BY <1>1, <1>3, MeantStays
<1>8. QED
  BY <1>1, <1>3, <1>4, <1>5, <1>6, <1>7 DEF Skipping

(* The pair of a MatchSkip is unlinked, and its members are let go. *)
LEMMA UnlinkedMeaning ==
  ASSUME Typed, Tidy(prob), Meaning, RuleSkip,
         Linked(NowX, NowY), Missing \notin {Now[1], Now[2]},
         links' = links \ {<<NowX, NowY>>}, Put({<<NowX, NowY>>}, {})
  PROVE  Skipping'
<1> DEFINE row == <<NowX, NowY>>
<1>1. /\ prob' = prob /\ xs = WantedX /\ ys = WantedY /\ Skipping /\ todo.skip # <<>>
      /\ Past(todo'.skip, prob'.skip) = Before \cup {Now} /\ Listed(todo'.skip) = After
  BY SkipFrame
<1>2. Now \in Skips /\ Now \notin Before /\ Listed(todo.skip) = After \cup {Now} /\ Now \notin After
  BY <1>1, NowOnce
<1>3. /\ NowX = IF Now[1] \in WantedX THEN Now[1] ELSE Missing
      /\ NowY = IF Now[2] \in WantedY THEN Now[2] ELSE Missing
      /\ Now = <<Now[1], Now[2]>>
      /\ Now \in Meant => row = Now
      /\ Missing \notin {NowX, NowY} => row = Now
  BY <1>1, NowFacts
<1>4. fails' = (fails \ NotMissing({row})) \ {row} /\ links' = links \ {row}
  <2>1. {row} \cup {} = {row}
    OBVIOUS
  <2>2. QED
    BY <2>1 DEF Put
<1>5. /\ \A r \in NotMissing({row}) : r = <<NowX, Missing>> \/ r = <<Missing, NowY>>
      /\ IsValid(NowX) /\ IsValid(NowY) => NotMissing({row}) = {<<NowX, Missing>>, <<Missing, NowY>>}
      /\ ~(IsValid(NowX) /\ IsValid(NowY)) => NotMissing({row}) = {}
      /\ row[1] = NowX /\ row[2] = NowY
  BY OneRow
<1>6. IsValid(NowX) /\ IsValid(NowY) => row \in links
  BY DEF Linked
<1> HIDE DEF row
<1>7. /\ links \subseteq Meant /\ Meant \ links \subseteq Before
      /\ \A t \in Before : t \in links => t \in fails
      /\ \A r \in fails : Missing \in {r[1], r[2]} \/ r \in Before
      /\ Kept /\ (Blameless => \A r \in fails : Passing(r))
  BY <1>1 DEF Skipping, Before
<1>8. row \in Meant => row = Now
  BY <1>3, <1>5, MeantFacts
<1>9. /\ links' \subseteq Meant' /\ Meant' \ links' \subseteq Before \cup {Now}
      /\ Blameless' = Blameless
  BY <1>1, <1>4, <1>7, <1>8, MeantStays
<1>10. \A t \in Before \cup {Now} : t \in links' => t \in fails'
  <2>1. ASSUME NEW t \in Before \cup {Now}, t \in links'
        PROVE  t \in fails'
    <3>1. t \in Meant /\ t # row /\ Missing \notin {t[1], t[2]}
      BY <1>4, <1>7, <2>1, MeantFacts
    <3>2. t # Now
      BY <1>3, <3>1
    <3>3. t \in fails
      BY <1>4, <1>7, <2>1, <3>2
    <3>4. t \notin NotMissing({row})
      BY <1>5, <3>1
    <3>5. QED
      BY <1>4, <3>1, <3>3, <3>4
  <2>2. QED
    BY <2>1
<1>11. \A r \in fails' : Missing \in {r[1], r[2]} \/ r \in Before \cup {Now}
  BY <1>4, <1>7
<1>12. row \in fails => Missing \in {NowX, NowY}
  BY <1>2, <1>3, <1>5, <1>7
<1>13. Kept'
  <2>1. \A x \in WantedX : \/ \E l \in links' : l[1] = x
                           \/ \E r \in fails' : r[1] = x
                           \/ LetGoX(x)
    <3>1. SUFFICES ASSUME NEW x \in WantedX, x = NowX,
                          row \in links \/ row \in fails \/ row \in Meant
                   PROVE  LetGoX(x)
      <4>1. \A l \in links : l \notin links' => l[1] = NowX /\ row \in links
        BY <1>4, <1>5
      <4>2. ASSUME NEW r \in fails, r \notin fails', r[1] \in WantedX
            PROVE  r[1] = NowX /\ (row \in fails \/ row \in links)
        <5>1. CASE r = row
          BY <1>5, <4>2, <5>1
        <5>2. CASE r # row
          <6>1. r \in NotMissing({row}) /\ Missing \notin WantedX
            BY <1>4, <4>2, <5>2, MeantFacts
          <6>2. r = <<NowX, Missing>> \/ r = <<Missing, NowY>>
            BY <1>5, <6>1
          <6>3. IsValid(NowX) /\ IsValid(NowY)
            BY <1>5, <6>1
          <6>4. QED
            BY <1>6, <4>2, <6>1, <6>2, <6>3
        <5>3. QED
          BY <5>1, <5>2
      <4>3. QED
        BY <1>7, <3>1, <4>1, <4>2 DEF Kept
    <3>2. Now[1] = x
      BY <1>3, <3>1, MeantFacts
    <3>3. Now \in Meant \/ Now[2] \notin WantedY
      <4>1. CASE row \in Meant
        BY <1>8, <4>1
      <4>2. CASE row \notin Meant
        <5>1. row \in fails
          BY <1>7, <3>1, <4>2
        <5>2. NowY = Missing
          BY <1>12, <3>1, <5>1, MeantFacts
        <5>3. QED
          BY <1>3, <5>2, MeantFacts
      <4>3. QED
        BY <4>1, <4>2
    <3>4. QED
      BY <1>2, <3>2, <3>3 DEF LetGoX
  <2>2. \A y \in WantedY : \/ \E l \in links' : l[2] = y
                           \/ \E r \in fails' : r[2] = y
                           \/ LetGoY(y)
                           \/ y.pos = prob.default
    <3>1. SUFFICES ASSUME NEW y \in WantedY, y = NowY,
                          row \in links \/ row \in fails \/ row \in Meant
                   PROVE  LetGoY(y)
      <4>1. \A l \in links : l \notin links' => l[2] = NowY /\ row \in links
        BY <1>4, <1>5
      <4>2. ASSUME NEW r \in fails, r \notin fails', r[2] \in WantedY
            PROVE  r[2] = NowY /\ (row \in fails \/ row \in links)
        <5>1. CASE r = row
          BY <1>5, <4>2, <5>1
        <5>2. CASE r # row
          <6>1. r \in NotMissing({row}) /\ Missing \notin WantedY
            BY <1>4, <4>2, <5>2, MeantFacts
          <6>2. r = <<NowX, Missing>> \/ r = <<Missing, NowY>>
            BY <1>5, <6>1
          <6>3. IsValid(NowX) /\ IsValid(NowY)
            BY <1>5, <6>1
          <6>4. QED
            BY <1>6, <4>2, <6>1, <6>2, <6>3
        <5>3. QED
          BY <5>1, <5>2
      <4>3. QED
        BY <1>7, <3>1, <4>1, <4>2 DEF Kept
    <3>2. Now[2] = y
      BY <1>3, <3>1, MeantFacts
    <3>3. Now \in Meant \/ Now[1] \notin WantedX
      <4>1. CASE row \in Meant
        BY <1>8, <4>1
      <4>2. CASE row \notin Meant
        <5>1. row \in fails
          BY <1>7, <3>1, <4>2
        <5>2. NowX = Missing
          BY <1>12, <3>1, <5>1, MeantFacts
        <5>3. QED
          BY <1>3, <5>2, MeantFacts
      <4>3. QED
        BY <4>1, <4>2
    <3>4. QED
      BY <1>2, <3>2, <3>3 DEF LetGoY
  <2>3. QED
    BY <1>1, <2>1, <2>2, MeantStays DEF Kept
<1>14. ASSUME Blameless, NEW r \in fails'
       PROVE  \E l \in links' : l \in After /\ (r = <<l[1], Missing>> \/ r = <<Missing, l[2]>>)
  <2>1. PICK l \in links : /\ l \in Listed(todo.skip)
                           /\ r = <<l[1], Missing>> \/ r = <<Missing, l[2]>>
    BY <1>4, <1>7, <1>14 DEF Passing
  <2>2. l \in Meant /\ l = <<l[1], l[2]>>
    BY <1>7, MeantFacts
  <2>3. l # Now
    <3>1. SUFFICES ASSUME l = Now
                   PROVE  FALSE
      OBVIOUS
    <3>2. row = Now /\ NowX \in WantedX /\ NowY \in WantedY /\ NowX = l[1] /\ NowY = l[2]
      BY <1>3, <2>2, <3>1, MeantFacts
    <3>3. IsValid(NowX) /\ IsValid(NowY)
      BY <1>1, <1>14, <3>2, BlamelessFacts
    <3>4. r \in NotMissing({row})
      BY <1>5, <2>1, <3>2, <3>3
    <3>5. QED
      BY <1>4, <3>4
  <2>4. l # row
    BY <1>8, <2>2, <2>3
  <2>5. QED
    BY <1>2, <1>4, <2>1, <2>3, <2>4
<1>15. Blameless' => \A r \in fails' : Passing(r)'
  BY <1>1, <1>9, <1>14 DEF Passing
<1>16. QED
  BY <1>1, <1>9, <1>10, <1>11, <1>13, <1>15 DEF Skipping

LEMMA SkipMeaning ==
  ASSUME Typed, Tidy(prob), Meaning, RuleSkip
  PROVE  Meaning'
<1>1. /\ UNCHANGED <<prob, phase, xs, ys>> /\ phase = "missing"
      /\ xs = WantedX /\ ys = WantedY
  BY SkipFrame
<1>2. Skipping'
  BY SkipFrame, IneffectiveMeaning, WithNilMeaning, UnlinkedMeaning
<1>3. NothingIsLost' /\ MatchesAreMeant' /\ RefusalsAreReal'
  BY <1>1 DEF NothingIsLost, MatchesAreMeant, RefusalsAreReal, Accepted, Refused
<1>4. QED
  BY <1>1, <1>2, <1>3, MeantStays DEF Meaning

(* When every MatchSkip is applied, what stays linked and unreported is what *)
(* is meant, and a FAIL has a reason or a member of Y two links.             *)
LEMMA AmbiguousMeaning ==
  ASSUME Typed, Tidy(prob), Meaning, RuleAmbiguous
  PROVE  Meaning'
<1>1. /\ UNCHANGED <<prob, todo, xs, ys, links>> /\ phase' = "done" /\ phase = "missing"
      /\ todo.skip = <<>>
  BY DEF RuleAmbiguous
<1>2. PICK spared \in SUBSET links : Spare(spared) /\ Put({}, links \ spared)
  BY DEF RuleAmbiguous
<1> DEFINE bad == links \ spared
<1>3. xs = WantedX /\ ys = WantedY /\ Skipping
  BY <1>1 DEF Meaning
<1>4. Past(todo.skip, prob.skip) = Skips /\ Listed(todo.skip) = {}
  <2>1. prob.skip \in Seq(Side \X Side)
    BY ListFacts
  <2>2. Skips = Listed(prob.skip)
    BY DEF Skips, Listed
  <2>3. QED
    BY <1>1, <2>1, <2>2, RestDone
<1>5. /\ links \subseteq Meant /\ Meant \ links \subseteq Skips
      /\ \A s \in Skips : s \in links => s \in fails
      /\ Kept /\ (Blameless => fails = {})
  BY <1>3, <1>4 DEF Skipping, Passing
<1>6. fails' = (fails \ NotMissing(bad)) \cup bad
  <2>1. {} \cup bad = bad
    OBVIOUS
  <2> HIDE DEF bad
  <2>2. Put({}, bad)
    BY <1>2 DEF bad
  <2>3. QED
    BY <2>1, <2>2 DEF Put
<1>7. /\ \A r \in NotMissing(bad) : \E b \in bad : r = <<b[1], Missing>> \/ r = <<Missing, b[2]>>
      /\ bad = {} => NotMissing(bad) = {}
  BY DEF NotMissing
<1>8. bad \subseteq links
  OBVIOUS
<1> HIDE DEF bad
<1>9. NothingIsLost'
  <2>1. ASSUME NEW x \in WantedX
        PROVE  \/ \E l \in links : l[1] = x
               \/ \E r \in fails' : r[1] = x
               \/ LetGoX(x)
    <3>1. SUFFICES ASSUME NEW r \in fails, r[1] = x, r \in NotMissing(bad)
                   PROVE  \E q \in fails' : q[1] = x
      BY <1>5, <1>6 DEF Kept
    <3>2. PICK b \in bad : r = <<b[1], Missing>> \/ r = <<Missing, b[2]>>
      BY <1>7, <3>1
    <3>3. b[1] = x /\ b \in fails'
      BY <1>6, <3>1, <3>2, MeantFacts
    <3>4. QED
      BY <3>3
  <2>2. ASSUME NEW y \in WantedY
        PROVE  \/ \E l \in links : l[2] = y
               \/ \E r \in fails' : r[2] = y
               \/ LetGoY(y)
               \/ y.pos = prob.default
    <3>1. SUFFICES ASSUME NEW r \in fails, r[2] = y, r \in NotMissing(bad)
                   PROVE  \E q \in fails' : q[2] = y
      BY <1>5, <1>6 DEF Kept
    <3>2. PICK b \in bad : r = <<b[1], Missing>> \/ r = <<Missing, b[2]>>
      BY <1>7, <3>1
    <3>3. b[2] = y /\ b \in fails'
      BY <1>6, <3>1, <3>2, MeantFacts
    <3>4. QED
      BY <3>3
  <2>3. WantedX' = WantedX /\ WantedY' = WantedY /\ Meant' = Meant /\ Skips' = Skips
    BY <1>1, MeantStays
  <2>4. QED
    BY <1>1, <2>1, <2>2, <2>3 DEF NothingIsLost, LetGoX, LetGoY
<1>10. fails' = {} => links = Meant \ Skips
  <2>1. SUFFICES ASSUME fails' = {}
                 PROVE  fails = {}
    BY <1>5
  <2>2. bad = {}
    BY <1>6, <2>1
  <2>3. QED
    BY <1>6, <1>7, <2>1, <2>2
<1>11. Blameless => fails' = {}
  <2>1. SUFFICES ASSUME Blameless
                 PROVE  bad = {}
    BY <1>5, <1>6, <1>7
  <2>2. links \subseteq Meant \ Skips /\ ~Merge
    BY <1>5, <2>1 DEF Blameless
  <2>3. ASSUME NEW l \in links
        PROVE  l \in spared
    <3>1. PICK s \in spared : s[2] = l[2]
      BY <1>2 DEF Spare
    <3>2. QED
      BY <2>2, <3>1 DEF Merge
  <2>4. QED
    BY <2>3 DEF bad
<1>12. MatchesAreMeant' /\ RefusalsAreReal'
  <2>1. Meant' = Meant /\ Skips' = Skips /\ Blameless' = Blameless
    BY <1>1, MeantStays
  <2>2. MatchesAreMeant'
    BY <1>1, <1>10, <2>1 DEF MatchesAreMeant, Accepted
  <2>3. RefusalsAreReal'
    BY <1>1, <1>11, <2>1 DEF RefusalsAreReal, Refused, Blameless
  <2>4. QED
    BY <2>2, <2>3
<1>13. xs' = WantedX' /\ ys' = WantedY'
  BY <1>1, <1>3, MeantStays
<1>14. QED
  BY <1>1, <1>9, <1>12, <1>13 DEF Meaning

LEMMA NextMeaning ==
  ASSUME Typed, Tidy(prob), Meaning, [Next]_vars
  PROVE  Meaning'
<1>1. CASE DiscoverFields \/ DiscoverNestedX \/ DiscoverNestedY
  BY <1>1, DiscoverMeaning
<1>2. CASE ResolveMatch
  BY <1>2, ResolveMeaning
<1>3. CASE RuleMatch
  BY <1>3, MatchMeaning
<1>4. CASE RuleForced
  BY <1>4, ForcedMeaning
<1>5. CASE RuleMissing
  BY <1>5, MissingMeaning
<1>6. CASE RuleSkip
  BY <1>6, SkipMeaning
<1>7. CASE RuleAmbiguous
  BY <1>7, AmbiguousMeaning
<1>8. CASE Done \/ UNCHANGED vars
  <2>1. UNCHANGED vars
    BY <1>8 DEF Done
  <2>2. /\ WantedX' = WantedX /\ WantedY' = WantedY /\ Meant' = Meant /\ Skips' = Skips
        /\ Pairs' = Pairs /\ Blameless' = Blameless
        /\ \A x : LetGoX(x)' = LetGoX(x) /\ LetGoY(x)' = LetGoY(x)
    BY <2>1, MeantStays DEF vars
  <2>3. IndexX' = IndexX /\ IndexY' = IndexY /\ Unnamed' = Unnamed
    BY <2>1, <2>2 DEF IndexX, IndexY, Unnamed, vars
  <2>4. Skipping' = Skipping
    BY <2>1, <2>2 DEF Skipping, Kept, Passing, vars
  <2>5. NothingIsLost' = NothingIsLost
    BY <2>1, <2>2 DEF NothingIsLost, vars
  <2>6. MatchesAreMeant' = MatchesAreMeant
    BY <2>1, <2>2 DEF MatchesAreMeant, Accepted, vars
  <2>7. RefusalsAreReal' = RefusalsAreReal
    <3>1. /\ Loss' = Loss /\ Merge' = Merge /\ Blank' = Blank
          /\ \A s : Ineffective(s)' = Ineffective(s)
      BY <2>2, <2>1 DEF Loss, Merge, Blank, Ineffective, NamedX, NamedY, vars
    <3>2. QED
      BY <2>1, <2>2, <3>1 DEF RefusalsAreReal, Refused, vars
  <2>8. QED
    BY <2>1, <2>2, <2>3, <2>4, <2>5, <2>6, <2>7 DEF Meaning, vars
<1>9. QED
  BY <1>1, <1>2, <1>3, <1>4, <1>5, <1>6, <1>7, <1>8 DEF Next

LEMMA AlwaysMeaning == Spec => [](Tidy(prob) => Meaning)
<1>1. Init => (Tidy(prob) => Meaning)
  BY InitMeaning
<1>2. Typed /\ (Tidy(prob) => Meaning) /\ [Next]_vars => (Tidy(prob) => Meaning)'
  <2>1. [Next]_vars => prob' = prob
    BY DEF Next, vars, DiscoverFields, DiscoverNestedX, DiscoverNestedY, ResolveMatch,
           RuleMatch, RuleForced, RuleMissing, RuleSkip, RuleAmbiguous, Done
  <2>2. QED
    BY <2>1, NextMeaning
<1>3. QED
  BY <1>1, <1>2, AlwaysTyped, PTL DEF Spec

(* No later row of the table hides a member that would be left unconverted:  *)
(* when matching is over each is linked, reported or let go by a MatchSkip.  *)
THEOREM NothingGetsLost == Spec => [](Tidy(prob) => NothingIsLost)
<1>1. Meaning => NothingIsLost
  BY DEF Meaning
<1>2. QED
  BY <1>1, AlwaysMeaning, PTL

(* An accepted match links the pairs the options ask for and no others, for  *)
(* all types, options and orders of the MatchSkips.                          *)
THEOREM AcceptedAsMeant == Spec => [](Tidy(prob) => MatchesAreMeant)
<1>1. Meaning => MatchesAreMeant
  BY DEF Meaning
<1>2. QED
  BY <1>1, AlwaysMeaning, PTL

(* A match is refused only for a reason the user can act on. *)
THEOREM RefusedForAReason == Spec => [](Tidy(prob) => RefusalsAreReal)
<1>1. Meaning => RefusalsAreReal
  BY DEF Meaning
<1>2. QED
  BY <1>1, AlwaysMeaning, PTL
=============================================================================
