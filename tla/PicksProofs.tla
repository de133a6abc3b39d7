----------------------------- MODULE PicksProofs -----------------------------
(***************************************************************************)
(* The kth of a finite set of numbers is one of them, and they come in     *)
(* their order: what is picked of a sequence are its items at the indices  *)
(* of the set, each once.                                                  *)
(***************************************************************************)
EXTENDS Picks, FiniteSetTheorems, SequenceTheorems, TLAPS

(* Those up to a number are fewer than those up to a greater one. *)
LEMMA RankType ==
  ASSUME NEW S \in SUBSET Nat, IsFiniteSet(S), NEW i \in S
  PROVE  RankIn(S, i) \in 1 .. Cardinality(S)
<1>. DEFINE T == {j \in S : j <= i}
<1>1. T \in SUBSET S /\ i \in T
  OBVIOUS
<1>2. IsFiniteSet(T) /\ Cardinality(T) <= Cardinality(S)
  BY <1>1, FS_Subset
<1>3. Cardinality(T) \in Nat /\ Cardinality(S) \in Nat
  BY <1>2, FS_CardinalityType
<1>4. Cardinality(T) # 0
  BY <1>1, <1>2, FS_EmptySet
<1>. QED
  BY <1>2, <1>3, <1>4 DEF RankIn

LEMMA RankGrows ==
  ASSUME NEW S \in SUBSET Nat, IsFiniteSet(S), NEW i \in S, NEW j \in S, i < j
  PROVE  RankIn(S, i) < RankIn(S, j)
<1>. DEFINE T == {k \in S : k <= i}
            U == {k \in S : k <= j}
<1>0. i \in Nat /\ j \in Nat /\ \A k \in S : k \in Nat
  OBVIOUS
<1>1. T \in SUBSET U /\ U \in SUBSET S /\ j \in U /\ j \notin T
  <2>1. \A k \in S : k <= i => k <= j
    BY <1>0
  <2>2. j <= j /\ ~(j <= i)
    BY <1>0
  <2>. QED
    BY <2>1, <2>2
<1>2. IsFiniteSet(U)
  BY <1>1, FS_Subset
<1>3. IsFiniteSet(T) /\ Cardinality(T) <= Cardinality(U) /\ (Cardinality(U) = Cardinality(T) => U = T)
  BY <1>1, <1>2, FS_Subset
<1>4. Cardinality(T) \in Nat /\ Cardinality(U) \in Nat
  BY <1>2, <1>3, FS_CardinalityType
<1>. QED
  BY <1>1, <1>3, <1>4 DEF RankIn

LEMMA RankOnce ==
  ASSUME NEW S \in SUBSET Nat, IsFiniteSet(S), NEW i \in S, NEW j \in S, RankIn(S, i) = RankIn(S, j)
  PROVE  i = j
<1>1. RankIn(S, i) \in Nat /\ i \in Nat /\ j \in Nat
  BY RankType, FS_CardinalityType
<1>2. ~(i < j) /\ ~(j < i)
  BY <1>1, RankGrows
<1>. QED
  BY <1>1, <1>2

(* Every rank is taken: as many ranks as numbers, and none taken twice.      *)
LEMMA RankTaken ==
  ASSUME NEW S \in SUBSET Nat, IsFiniteSet(S), NEW k \in 1 .. Cardinality(S)
  PROVE  \E i \in S : RankIn(S, i) = k
<1>. DEFINE n == Cardinality(S)
            f == [i \in S |-> RankIn(S, i)]
<1>1. n \in Nat
  BY FS_CardinalityType
<1>2. f \in [S -> 1 .. n]
  BY RankType
<1>3. f \in Injection(S, 1 .. n)
  BY <1>2, RankOnce DEF Injection, IsInjective
<1>4. IsFiniteSet(1 .. n) /\ Cardinality(1 .. n) = n
  BY <1>1, FS_Interval
<1>5. f \in Surjection(S, 1 .. n)
  BY <1>3, <1>4, FS_Injection
<1>. QED
  BY <1>5 DEF Surjection

LEMMA NthIsRanked ==
  ASSUME NEW S \in SUBSET Nat, IsFiniteSet(S), NEW k \in 1 .. Cardinality(S)
  PROVE  Nth(S, k) \in S /\ RankIn(S, Nth(S, k)) = k
  BY RankTaken DEF Nth

LEMMA NthOfRank ==
  ASSUME NEW S \in SUBSET Nat, IsFiniteSet(S), NEW i \in S
  PROVE  RankIn(S, i) \in 1 .. Cardinality(S) /\ Nth(S, RankIn(S, i)) = i
<1>1. RankIn(S, i) \in 1 .. Cardinality(S)
  BY RankType
<1>. DEFINE k == RankIn(S, i)
<1>2. Nth(S, k) \in S /\ RankIn(S, Nth(S, k)) = k
  BY <1>1, NthIsRanked
<1>3. PICK j \in S : j = Nth(S, k) /\ RankIn(S, j) = RankIn(S, i)
  BY <1>2
<1>4. j = i
  BY <1>3, RankOnce
<1>. QED
  BY <1>1, <1>3, <1>4

LEMMA NthGrows ==
  ASSUME NEW S \in SUBSET Nat, IsFiniteSet(S),
         NEW k \in 1 .. Cardinality(S), NEW l \in 1 .. Cardinality(S), k < l
  PROVE  Nth(S, k) < Nth(S, l)
<1>1. Nth(S, k) \in S /\ Nth(S, l) \in S /\ RankIn(S, Nth(S, k)) = k /\ RankIn(S, Nth(S, l)) = l
  BY NthIsRanked
<1>2. Cardinality(S) \in Nat
  BY FS_CardinalityType
<1>0. k \in Nat /\ l \in Nat /\ k # l
  BY <1>2
<1>3. Nth(S, k) # Nth(S, l)
  BY <1>0, <1>1
<1>4. CASE Nth(S, l) < Nth(S, k)
  <2>1. RankIn(S, Nth(S, l)) < RankIn(S, Nth(S, k))
    BY <1>1, <1>4, RankGrows
  <2>. QED
    BY <1>1, <1>2, <2>1
<1>5. Nth(S, k) \in Nat /\ Nth(S, l) \in Nat
  BY <1>1
<1>. QED
  BY <1>3, <1>4, <1>5

(* What is picked is a sequence of the items at the indices. *)
LEMMA PickedType ==
  ASSUME NEW S \in SUBSET Nat, IsFiniteSet(S), NEW seq
  PROVE  /\ DOMAIN Picked(seq, S) = 1 .. Cardinality(S)
         /\ Cardinality(S) \in Nat
         /\ \A k \in 1 .. Cardinality(S) : Nth(S, k) \in S /\ Picked(seq, S)[k] = seq[Nth(S, k)]
         /\ \A i \in S : RankIn(S, i) \in 1 .. Cardinality(S) /\ Picked(seq, S)[RankIn(S, i)] = seq[i]
<1>1. Cardinality(S) \in Nat
  BY FS_CardinalityType
<1>2. \A k \in 1 .. Cardinality(S) : Nth(S, k) \in S
  BY NthIsRanked
<1>3. \A i \in S : RankIn(S, i) \in 1 .. Cardinality(S) /\ Nth(S, RankIn(S, i)) = i
  BY NthOfRank
<1>. QED
  BY <1>1, <1>2, <1>3 DEF Picked

-----------------------------------------------------------------------------
(* Sequences of anything. *)
IsSeq(s) == \E S : s \in Seq(S)

LEMMA SeqIs ==
  ASSUME NEW s, IsSeq(s)
  PROVE  Len(s) \in Nat /\ DOMAIN s = 1 .. Len(s) /\ s = [k \in 1 .. Len(s) |-> s[k]]
<1>1. PICK S : s \in Seq(S)
  BY DEF IsSeq
<1>2. Len(s) \in Nat /\ s \in [1 .. Len(s) -> S] /\ DOMAIN s = 1 .. Len(s)
  BY <1>1, LenProperties
<1>. QED
  BY <1>2

LEMMA LenIs ==
  ASSUME NEW s, IsSeq(s)
  PROVE  Len(s) \in Nat
BY DEF IsSeq

LEMMA FunctionIsSeq ==
  ASSUME NEW n \in Nat, NEW f, f = [k \in 1 .. n |-> f[k]]
  PROVE  IsSeq(f) /\ Len(f) = n
<1>. DEFINE S == {f[k] : k \in 1 .. n}
<1>1. f \in [1 .. n -> S]
  OBVIOUS
<1>2. f \in Seq(S)
  BY <1>1, SeqDef
<1>3. DOMAIN f = 1 .. n
  BY <1>1
<1>4. Len(f) = n
  BY <1>2, <1>3, LenProperties
<1>. QED
  BY <1>2, <1>4 DEF IsSeq

LEMMA SameSeq ==
  ASSUME NEW s, IsSeq(s), NEW t, IsSeq(t), Len(s) = Len(t), \A k \in 1 .. Len(s) : s[k] = t[k]
  PROVE  s = t
<1>1. s = [k \in 1 .. Len(s) |-> s[k]] /\ t = [k \in 1 .. Len(t) |-> t[k]]
  BY SeqIs
<1>. QED
  BY <1>1

LEMMA Appended ==
  ASSUME NEW s, IsSeq(s), NEW e
  PROVE  /\ IsSeq(Append(s, e)) /\ Len(Append(s, e)) = Len(s) + 1
         /\ \A k \in 1 .. Len(s) : Append(s, e)[k] = s[k]
         /\ Append(s, e)[Len(s) + 1] = e
<1>1. PICK S : s \in Seq(S)
  BY DEF IsSeq
<1>2. s \in Seq(S \cup {e}) /\ e \in S \cup {e}
  BY <1>1
<1>3. /\ Append(s, e) \in Seq(S \cup {e}) /\ Len(Append(s, e)) = Len(s) + 1
      /\ \A k \in 1 .. Len(s) : Append(s, e)[k] = s[k]
      /\ Append(s, e)[Len(s) + 1] = e
  BY <1>2, AppendProperties
<1>. QED
  BY <1>3 DEF IsSeq

LEMMA AppendedIs ==
  ASSUME NEW s, IsSeq(s), NEW e, NEW t, IsSeq(t), Len(t) = Len(s) + 1,
         \A k \in 1 .. Len(s) : t[k] = s[k], t[Len(s) + 1] = e
  PROVE  t = Append(s, e)
<1>1. PICK a : a = Append(s, e)
  OBVIOUS
<1>2. /\ IsSeq(a) /\ Len(a) = Len(s) + 1 /\ Len(s) \in Nat
      /\ \A k \in 1 .. Len(s) : a[k] = s[k]
      /\ a[Len(s) + 1] = e
  BY <1>1, Appended, LenIs
<1>3. \A k \in 1 .. Len(t) : t[k] = a[k]
  BY <1>2
<1>. QED
  BY <1>1, <1>2, <1>3, SameSeq

LEMMA Joined ==
  ASSUME NEW s, IsSeq(s), NEW t, IsSeq(t)
  PROVE  /\ IsSeq(s \o t) /\ Len(s \o t) = Len(s) + Len(t)
         /\ \A k \in 1 .. Len(s) : (s \o t)[k] = s[k]
         /\ \A k \in 1 .. Len(t) : (s \o t)[Len(s) + k] = t[k]
<1>1. PICK S : s \in Seq(S)
  BY DEF IsSeq
<1>2. PICK T : t \in Seq(T)
  BY DEF IsSeq
<1>3. PICK U : U = S \cup T
  OBVIOUS
<1>4. s \in Seq(U) /\ t \in Seq(U) /\ Len(s) \in Nat /\ Len(t) \in Nat
  BY <1>1, <1>2, <1>3
<1>5. PICK j : j = s \o t
  OBVIOUS
<1>6. /\ j \in Seq(U) /\ Len(j) = Len(s) + Len(t)
      /\ \A k \in 1 .. Len(s) + Len(t) : j[k] = IF k <= Len(s) THEN s[k] ELSE t[k - Len(s)]
  BY <1>4, <1>5, ConcatProperties
<1>7. \A k \in 1 .. Len(s) : j[k] = s[k]
  BY <1>4, <1>6
<1>8. ASSUME NEW k \in 1 .. Len(t)
      PROVE  j[Len(s) + k] = t[k]
  <2>1. Len(s) + k \in 1 .. Len(s) + Len(t) /\ ~(Len(s) + k <= Len(s)) /\ Len(s) + k - Len(s) = k
    BY <1>4
  <2>. QED
    BY <1>6, <2>1
<1>. QED
  BY <1>5, <1>6, <1>7, <1>8 DEF IsSeq

(* A sequence that goes on with another where the one ends. *)
GoesOn(u, s, t) ==
  /\ IsSeq(s) /\ IsSeq(t) /\ IsSeq(u) /\ Len(u) = Len(s) + Len(t)
  /\ \A k \in 1 .. Len(s) : u[k] = s[k]
  /\ \A k \in 1 .. Len(t) : u[Len(s) + k] = t[k]

LEMMA JoinedIs ==
  ASSUME NEW s, NEW t, NEW u, GoesOn(u, s, t)
  PROVE  u = s \o t
<1>. /\ IsSeq(s) /\ IsSeq(t) /\ IsSeq(u) /\ Len(u) = Len(s) + Len(t)
     /\ \A k \in 1 .. Len(s) : u[k] = s[k]
     /\ \A k \in 1 .. Len(t) : u[Len(s) + k] = t[k]
  BY DEF GoesOn
<1>1. PICK j : j = s \o t
  OBVIOUS
<1>2. /\ IsSeq(j) /\ Len(j) = Len(s) + Len(t) /\ Len(s) \in Nat /\ Len(t) \in Nat
      /\ \A k \in 1 .. Len(s) : j[k] = s[k]
      /\ \A k \in 1 .. Len(t) : j[Len(s) + k] = t[k]
  <2>1. Len(s) \in Nat /\ Len(t) \in Nat
    BY LenIs
  <2>2. /\ IsSeq(j) /\ Len(j) = Len(s) + Len(t)
        /\ \A k \in 1 .. Len(s) : j[k] = s[k]
        /\ \A k \in 1 .. Len(t) : j[Len(s) + k] = t[k]
    BY <1>1, Joined
  <2>. QED
    BY <2>1, <2>2
<1>3. ASSUME NEW k \in 1 .. Len(u)
      PROVE  u[k] = j[k]
  <2>1. CASE k <= Len(s)
    BY <1>2, <2>1
  <2>2. CASE ~(k <= Len(s))
    <3>1. PICK i : i = k - Len(s)
      OBVIOUS
    <3>2. i \in 1 .. Len(t) /\ k = Len(s) + i
      BY <1>2, <2>2, <3>1
    <3>. QED
      BY <1>2, <3>2
  <2>. QED
    BY <2>1, <2>2
<1>. QED
  BY <1>1, <1>2, <1>3, SameSeq

LEMMA NoneIsSeq == IsSeq(<<>>) /\ Len(<<>>) = 0
<1>1. <<>> \in Seq({})
  OBVIOUS
<1>. QED
  BY <1>1 DEF IsSeq

LEMMA EmptySeqIs ==
  ASSUME NEW s, IsSeq(s)
  PROVE  s = <<>> <=> Len(s) = 0
<1>1. PICK e : e = <<>>
  OBVIOUS
<1>2. IsSeq(e) /\ Len(e) = 0
  BY <1>1, NoneIsSeq
<1>3. Len(s) = 0 => s = e
  <2>1. Len(s) = 0 => \A k \in 1 .. Len(s) : s[k] = e[k]
    OBVIOUS
  <2>. QED
    BY <1>2, <2>1, SameSeq
<1>. QED
  BY <1>1, <1>2, <1>3

LEMMA JoinedNone ==
  ASSUME NEW s, IsSeq(s)
  PROVE  s \o <<>> = s /\ <<>> \o s = s
<1>1. PICK S : s \in Seq(S)
  BY DEF IsSeq
<1>. QED
  BY <1>1, ConcatEmptySeq

LEMMA AppendToJoined ==
  ASSUME NEW s, IsSeq(s), NEW t, IsSeq(t), NEW e
  PROVE  s \o Append(t, e) = Append(s \o t, e)
<1>1. PICK j, a, u : j = s \o t /\ a = Append(t, e) /\ u = s \o a
  OBVIOUS
<1>2. /\ IsSeq(j) /\ Len(j) = Len(s) + Len(t) /\ Len(s) \in Nat /\ Len(t) \in Nat
      /\ \A k \in 1 .. Len(s) : j[k] = s[k]
      /\ \A k \in 1 .. Len(t) : j[Len(s) + k] = t[k]
  <2>1. Len(s) \in Nat /\ Len(t) \in Nat
    BY LenIs
  <2>2. /\ IsSeq(j) /\ Len(j) = Len(s) + Len(t)
        /\ \A k \in 1 .. Len(s) : j[k] = s[k]
        /\ \A k \in 1 .. Len(t) : j[Len(s) + k] = t[k]
    BY <1>1, Joined
  <2>. QED
    BY <2>1, <2>2
<1>3. /\ IsSeq(a) /\ Len(a) = Len(t) + 1
      /\ \A k \in 1 .. Len(t) : a[k] = t[k]
      /\ a[Len(t) + 1] = e
  BY <1>1, Appended
<1>4. /\ IsSeq(u) /\ Len(u) = Len(s) + Len(a)
      /\ \A k \in 1 .. Len(s) : u[k] = s[k]
      /\ \A k \in 1 .. Len(a) : u[Len(s) + k] = a[k]
  BY <1>1, <1>3, Joined
<1>5. Len(u) = Len(j) + 1
  BY <1>2, <1>3, <1>4
<1>6. ASSUME NEW k \in 1 .. Len(j)
      PROVE  u[k] = j[k]
  <2>1. CASE k <= Len(s)
    BY <1>2, <1>4, <2>1
  <2>2. CASE ~(k <= Len(s))
    <3>1. PICK i : i = k - Len(s)
      OBVIOUS
    <3>2. i \in 1 .. Len(t) /\ i \in 1 .. Len(a) /\ k = Len(s) + i
      BY <1>2, <1>3, <2>2, <3>1
    <3>. QED
      BY <1>2, <1>3, <1>4, <3>2
  <2>. QED
    BY <2>1, <2>2
<1>7. u[Len(j) + 1] = e
  <2>1. Len(t) + 1 \in 1 .. Len(a) /\ Len(j) + 1 = Len(s) + (Len(t) + 1)
    BY <1>2, <1>3
  <2>. QED
    BY <1>3, <1>4, <2>1
<1>8. u = Append(j, e)
  BY <1>2, <1>4, <1>5, <1>6, <1>7, AppendedIs
<1>. QED
  BY <1>1, <1>8

-----------------------------------------------------------------------------
(* What is picked, as it grows. *)
LEMMA PickedIsSeq ==
  ASSUME NEW S \in SUBSET Nat, IsFiniteSet(S), NEW seq
  PROVE  IsSeq(Picked(seq, S)) /\ Len(Picked(seq, S)) = Cardinality(S) /\ Cardinality(S) \in Nat
<1>1. PICK p, n : p = Picked(seq, S) /\ n = Cardinality(S)
  OBVIOUS
<1>2. n \in Nat /\ p = [k \in 1 .. n |-> p[k]]
  BY <1>1, PickedType DEF Picked
<1>3. IsSeq(p) /\ Len(p) = n
  BY <1>2, FunctionIsSeq
<1>. QED
  BY <1>1, <1>2, <1>3

LEMMA PickedNone ==
  ASSUME NEW seq
  PROVE  Picked(seq, {}) = <<>>
<1>1. PICK S : S = {}
  OBVIOUS
<1>2. S \in SUBSET Nat /\ IsFiniteSet(S) /\ Cardinality(S) = 0
  BY <1>1, FS_EmptySet
<1>3. PICK p : p = Picked(seq, S)
  OBVIOUS
<1>4. IsSeq(p) /\ Len(p) = 0
  BY <1>2, <1>3, PickedIsSeq
<1>. QED
  BY <1>1, <1>3, <1>4, EmptySeqIs

LEMMA PickedSame ==
  ASSUME NEW S \in SUBSET Nat, IsFiniteSet(S), NEW a, NEW b, \A i \in S : a[i] = b[i]
  PROVE  Picked(a, S) = Picked(b, S)
<1>1. \A k \in 1 .. Cardinality(S) : Nth(S, k) \in S
  BY PickedType
<1>2. \A k \in 1 .. Cardinality(S) : a[Nth(S, k)] = b[Nth(S, k)]
  BY <1>1
<1>. QED
  BY <1>2 DEF Picked

(* A function that counts a set up, in order. *)
Counts(g, m, S) ==
  /\ S \in SUBSET Nat /\ m \in Nat /\ g \in [1 .. m -> S]
  /\ \A k, l \in 1 .. m : k < l => g[k] < g[l]
  /\ \A i \in S : \E k \in 1 .. m : g[k] = i

LEMMA RankedBy ==
  ASSUME NEW S, NEW m, NEW g, Counts(g, m, S)
  PROVE  /\ IsFiniteSet(S) /\ Cardinality(S) = m
         /\ \A k \in 1 .. m : RankIn(S, g[k]) = k
<1>. /\ S \in SUBSET Nat /\ m \in Nat /\ g \in [1 .. m -> S]
     /\ \A k, l \in 1 .. m : k < l => g[k] < g[l]
     /\ \A i \in S : \E k \in 1 .. m : g[k] = i
  BY DEF Counts
<1>values. \A k \in 1 .. m : g[k] \in S /\ g[k] \in Nat
  OBVIOUS
<1>distinct. \A k, l \in 1 .. m : k # l => g[k] # g[l]
  <2>. SUFFICES ASSUME NEW k \in 1 .. m, NEW l \in 1 .. m, k # l
                PROVE  g[k] # g[l]
    OBVIOUS
  <2>1. k < l \/ l < k
    OBVIOUS
  <2>2. g[k] < g[l] \/ g[l] < g[k]
    BY <2>1
  <2>. QED
    BY <1>values, <2>2
<1>1. ASSUME NEW k \in 0 .. m, NEW T, T = {g[j] : j \in 1 .. k}
      PROVE  IsFiniteSet(T) /\ Cardinality(T) = k
  <2>1. PICK f : f = [j \in 1 .. k |-> g[j]]
    OBVIOUS
  <2>2. f \in [1 .. k -> T]
    BY <1>1, <2>1
  <2>3. \A i, j \in 1 .. k : f[i] = f[j] => i = j
    BY <1>distinct, <2>1
  <2>4. \A t \in T : \E j \in 1 .. k : f[j] = t
    BY <1>1, <2>1
  <2>5. f \in Bijection(1 .. k, T)
    BY <2>2, <2>3, <2>4 DEF Bijection, Injection, Surjection, IsInjective
  <2>6. ExistsBijection(1 .. k, T)
    BY <2>5 DEF ExistsBijection
  <2>7. IsFiniteSet(1 .. k) /\ Cardinality(1 .. k) = k
    BY FS_Interval
  <2>. QED
    BY <2>6, <2>7, FS_Bijection
<1>2. S = {g[j] : j \in 1 .. m}
  BY <1>values
<1>3. IsFiniteSet(S) /\ Cardinality(S) = m
  <2>1. m \in 0 .. m
    OBVIOUS
  <2>. QED
    BY <1>1, <1>2, <2>1
<1>4. ASSUME NEW k \in 1 .. m
      PROVE  RankIn(S, g[k]) = k
  <2>1. PICK T : T = {g[j] : j \in 1 .. k}
    OBVIOUS
  <2>2. IsFiniteSet(T) /\ Cardinality(T) = k
    BY <1>1, <2>1
  <2>3. \A j \in 1 .. m : g[j] <= g[k] <=> j <= k
    <3>. SUFFICES ASSUME NEW j \in 1 .. m
                  PROVE  g[j] <= g[k] <=> j <= k
      OBVIOUS
    <3>1. j < k \/ j = k \/ k < j
      OBVIOUS
    <3>4. g[j] \in Nat /\ g[k] \in Nat
      BY <1>values
    <3>5. CASE j < k
      <4>1. g[j] < g[k]
        BY <3>5
      <4>. QED
        BY <3>4, <3>5, <4>1
    <3>6. CASE j = k
      BY <3>4, <3>6
    <3>7. CASE k < j
      <4>1. g[k] < g[j]
        BY <3>7
      <4>2. ~(g[j] <= g[k])
        BY <3>4, <4>1
      <4>. QED
        BY <3>7, <4>2
    <3>. QED
      BY <3>1, <3>5, <3>6, <3>7
  <2>4. \A i \in S : i <= g[k] <=> i \in T
    <3>. SUFFICES ASSUME NEW i \in S
                  PROVE  i <= g[k] <=> i \in T
      OBVIOUS
    <3>1. PICK j \in 1 .. m : g[j] = i
      OBVIOUS
    <3>2. i \in T <=> \E l \in 1 .. k : g[l] = g[j]
      BY <2>1, <3>1
    <3>3. \A l \in 1 .. k : l \in 1 .. m /\ (g[l] = g[j] => l = j)
      BY <1>distinct
    <3>4. i \in T <=> j \in 1 .. k
      BY <3>2, <3>3
    <3>5. j \in 1 .. k <=> j <= k
      OBVIOUS
    <3>. QED
      BY <2>3, <3>1, <3>4, <3>5
  <2>5. T \subseteq S
    BY <2>1
  <2>6. {i \in S : i <= g[k]} = T
    BY <2>4, <2>5
  <2>. QED
    BY <2>2, <2>6 DEF RankIn
<1>. QED
  BY <1>3, <1>4

LEMMA PickedBy ==
  ASSUME NEW S, NEW m, NEW g, Counts(g, m, S), NEW seq
  PROVE  /\ IsFiniteSet(S) /\ Cardinality(S) = m
         /\ IsSeq(Picked(seq, S)) /\ Len(Picked(seq, S)) = m
         /\ \A k \in 1 .. m : Picked(seq, S)[k] = seq[g[k]]
<1>1. /\ IsFiniteSet(S) /\ Cardinality(S) = m
      /\ \A k \in 1 .. m : RankIn(S, g[k]) = k
  BY RankedBy
<1>0. S \in SUBSET Nat /\ m \in Nat /\ g \in [1 .. m -> S]
  BY DEF Counts
<1>2. ASSUME NEW k \in 1 .. m
      PROVE  Nth(S, k) = g[k]
  <2>1. PICK i : i = g[k]
    OBVIOUS
  <2>2. i \in S
    BY <1>0, <2>1
  <2>3. Nth(S, RankIn(S, i)) = i
    BY <1>0, <1>1, <2>2, NthOfRank
  <2>. QED
    BY <1>1, <2>1, <2>3
<1>3. IsSeq(Picked(seq, S)) /\ Len(Picked(seq, S)) = m
  BY <1>0, <1>1, PickedIsSeq
<1>4. \A k \in 1 .. m : Picked(seq, S)[k] = seq[g[k]]
  BY <1>1, <1>2 DEF Picked
<1>. QED
  BY <1>1, <1>3, <1>4

(* One more index, greater than the others, adds its item at the end. *)
LEMMA PickedMore ==
  ASSUME NEW S \in SUBSET Nat, IsFiniteSet(S), NEW i \in Nat, \A j \in S : j < i, NEW seq
  PROVE  Picked(seq, S \cup {i}) = Append(Picked(seq, S), seq[i])
<1>1. PICK p, n : p = Picked(seq, S) /\ n = Cardinality(S)
  OBVIOUS
<1>2. n \in Nat /\ IsSeq(p) /\ Len(p) = n
  BY <1>1, PickedIsSeq
<1>3. \A k \in 1 .. n : Nth(S, k) \in S /\ p[k] = seq[Nth(S, k)]
  BY <1>1, PickedType
<1>4. \A k, l \in 1 .. n : k < l => Nth(S, k) < Nth(S, l)
  BY <1>1, NthGrows
<1>5. \A j \in S : \E k \in 1 .. n : Nth(S, k) = j
  BY <1>1, NthOfRank
<1>6. PICK T, g : T = S \cup {i} /\ g = [k \in 1 .. n + 1 |-> IF k = n + 1 THEN i ELSE Nth(S, k)]
  OBVIOUS
<1>7. \A k \in 1 .. n + 1 : (k = n + 1 /\ g[k] = i) \/ (k \in 1 .. n /\ k < n + 1 /\ g[k] = Nth(S, k))
  BY <1>2, <1>6
<1>8. T \in SUBSET Nat /\ g \in [1 .. n + 1 -> T] /\ n + 1 \in Nat
  BY <1>2, <1>3, <1>6, <1>7
<1>9. \A k, l \in 1 .. n + 1 : k < l => g[k] < g[l]
  <2>. SUFFICES ASSUME NEW k \in 1 .. n + 1, NEW l \in 1 .. n + 1, k < l
                PROVE  g[k] < g[l]
    OBVIOUS
  <2>1. k \in 1 .. n /\ k # n + 1
    BY <1>2
  <2>place. g[k] = Nth(S, k)
    <3>1. (k = n + 1 /\ g[k] = i) \/ (k \in 1 .. n /\ k < n + 1 /\ g[k] = Nth(S, k))
      BY <1>7
    <3>. QED
      BY <2>1, <3>1
  <2>2. CASE l = n + 1
    <3>1. Nth(S, k) \in S
      BY <1>3, <2>1
    <3>2. l \notin 1 .. n
      BY <1>2, <2>2
    <3>3. g[l] = i
      BY <1>7, <3>2
    <3>. QED
      BY <2>place, <3>1, <3>3
  <2>3. CASE l # n + 1
    BY <1>4, <1>7, <2>1, <2>place, <2>3
  <2>. QED
    BY <2>2, <2>3
<1>10. \A j \in T : \E k \in 1 .. n + 1 : g[k] = j
  <2>. SUFFICES ASSUME NEW j \in T
                PROVE  \E k \in 1 .. n + 1 : g[k] = j
    OBVIOUS
  <2>1. CASE j = i
    BY <1>2, <1>7, <2>1
  <2>2. CASE j \in S
    <3>1. PICK k \in 1 .. n : Nth(S, k) = j
      BY <1>5, <2>2
    <3>2. k \in 1 .. n + 1 /\ k # n + 1
      BY <1>2
    <3>. QED
      BY <1>7, <3>1, <3>2
  <2>. QED
    BY <1>6, <2>1, <2>2
<1>11. PICK q : q = Picked(seq, T)
  OBVIOUS
<1>12. IsSeq(q) /\ Len(q) = n + 1 /\ \A k \in 1 .. n + 1 : q[k] = seq[g[k]]
  <2>1. PICK N : N = n + 1
    OBVIOUS
  <2>2. N \in Nat /\ g \in [1 .. N -> T]
    BY <1>8, <2>1
  <2>3. \A k, l \in 1 .. N : k < l => g[k] < g[l]
    BY <1>9, <2>1
  <2>4. \A j \in T : \E k \in 1 .. N : g[k] = j
    BY <1>10, <2>1
  <2>5. Counts(g, N, T)
    BY <1>8, <2>2, <2>3, <2>4 DEF Counts
  <2>6. IsSeq(q) /\ Len(q) = N /\ \A k \in 1 .. N : q[k] = seq[g[k]]
    BY <1>11, <2>5, PickedBy
  <2>. QED
    BY <2>1, <2>6
<1>14. \A k \in 1 .. n : q[k] = p[k]
  <2>. SUFFICES ASSUME NEW k \in 1 .. n
                PROVE  q[k] = p[k]
    OBVIOUS
  <2>1. k \in 1 .. n + 1 /\ k # n + 1
    BY <1>2
  <2>. QED
    BY <1>3, <1>7, <1>12, <2>1
<1>15. q[n + 1] = seq[i]
  <2>1. n + 1 \in 1 .. n + 1 /\ n + 1 \notin 1 .. n
    BY <1>2
  <2>. QED
    BY <1>7, <1>12, <2>1
<1>16. q = Append(p, seq[i])
  BY <1>2, <1>12, <1>14, <1>15, AppendedIs
<1>. QED
  BY <1>1, <1>6, <1>11, <1>16

(* The set of those in S, and after n of those in T. *)
Beside(U, S, n, T, m) ==
  /\ U \in SUBSET Nat /\ S \in SUBSET (1 .. n) /\ T \in SUBSET (1 .. m)
  /\ \A i \in 1 .. n : i \in U <=> i \in S
  /\ \A i \in 1 .. m : n + i \in U <=> i \in T
  /\ \A i \in U : i \in 1 .. n + m

(* Of two sequences put together, first what is picked of the one. *)
LEMMA PickedConcat ==
  ASSUME NEW a, IsSeq(a), NEW b, IsSeq(b),
         NEW S, NEW T, NEW U, Beside(U, S, Len(a), T, Len(b))
  PROVE  IsFiniteSet(U) /\ Picked(a \o b, U) = Picked(a, S) \o Picked(b, T)
<1>1. PICK n, m : n = Len(a) /\ m = Len(b)
  OBVIOUS
<1>2. n \in Nat /\ m \in Nat
  BY <1>1, LenIs
<1>22. Beside(U, S, n, T, m)
  BY <1>1
<1>3. /\ S \in SUBSET Nat /\ IsFiniteSet(S) /\ T \in SUBSET Nat /\ IsFiniteSet(T)
      /\ \A i \in S : i \in 1 .. n
      /\ \A i \in T : i \in 1 .. m
  <2>1. IsFiniteSet(1 .. n) /\ IsFiniteSet(1 .. m)
    BY <1>2, FS_Interval
  <2>2. S \subseteq 1 .. n /\ T \subseteq 1 .. m
    BY <1>22 DEF Beside
  <2>3. IsFiniteSet(S) /\ IsFiniteSet(T)
    BY <2>1, <2>2, FS_Subset
  <2>4. 1 .. n \subseteq Nat /\ 1 .. m \subseteq Nat
    BY <1>2
  <2>. QED
    BY <2>2, <2>3, <2>4
<1>4. PICK p, q, c, d : /\ p = Picked(a, S) /\ c = Cardinality(S)
                        /\ q = Picked(b, T) /\ d = Cardinality(T)
  OBVIOUS
<1>5. c \in Nat /\ IsSeq(p) /\ Len(p) = c /\ d \in Nat /\ IsSeq(q) /\ Len(q) = d
  BY <1>3, <1>4, PickedIsSeq
<1>6. /\ \A k \in 1 .. c : Nth(S, k) \in S /\ p[k] = a[Nth(S, k)]
      /\ \A k \in 1 .. d : Nth(T, k) \in T /\ q[k] = b[Nth(T, k)]
  BY <1>3, <1>4, PickedType
<1>7. /\ \A k, l \in 1 .. c : k < l => Nth(S, k) < Nth(S, l)
      /\ \A k, l \in 1 .. d : k < l => Nth(T, k) < Nth(T, l)
  BY <1>3, <1>4, NthGrows
<1>8. /\ \A j \in S : \E k \in 1 .. c : Nth(S, k) = j
      /\ \A j \in T : \E k \in 1 .. d : Nth(T, k) = j
  BY <1>3, <1>4, NthOfRank
<1>9. PICK g : g = [k \in 1 .. c + d |-> IF k <= c THEN Nth(S, k) ELSE n + Nth(T, k - c)]
  OBVIOUS
<1>10. /\ \A k \in 1 .. c : k \in 1 .. c + d /\ g[k] = Nth(S, k)
       /\ \A k \in 1 .. d : c + k \in 1 .. c + d /\ g[c + k] = n + Nth(T, k)
       /\ \A k \in 1 .. c + d : k \in 1 .. c \/ \E l \in 1 .. d : k = c + l
  <2>1. ASSUME NEW k \in 1 .. c
        PROVE  k \in 1 .. c + d /\ g[k] = Nth(S, k)
    BY <1>5, <1>9
  <2>2. ASSUME NEW k \in 1 .. d
        PROVE  c + k \in 1 .. c + d /\ g[c + k] = n + Nth(T, k)
    <3>1. c + k \in 1 .. c + d /\ ~(c + k <= c) /\ c + k - c = k
      BY <1>5
    <3>2. PICK l : l = c + k
      OBVIOUS
    <3>3. l \in 1 .. c + d /\ ~(l <= c) /\ l - c = k
      BY <1>5, <3>1, <3>2
    <3>4. g[l] = n + Nth(T, l - c)
      BY <1>9, <3>3
    <3>. QED
      BY <3>2, <3>3, <3>4
  <2>3. ASSUME NEW k \in 1 .. c + d, k \notin 1 .. c
        PROVE  \E l \in 1 .. d : k = c + l
    <3>1. k - c \in 1 .. d /\ k = c + (k - c)
      BY <1>5, <2>3
    <3>. QED
      BY <3>1
  <2>. QED
    BY <2>1, <2>2, <2>3
<1>11. /\ \A k \in 1 .. c : Nth(S, k) \in Nat /\ Nth(S, k) <= n /\ Nth(S, k) \in U
       /\ \A k \in 1 .. d : Nth(T, k) \in Nat /\ 1 <= Nth(T, k) /\ n + Nth(T, k) \in U
  <2>1. \A i \in S : i \in Nat /\ i <= n /\ i \in U
    BY <1>2, <1>3, <1>22 DEF Beside
  <2>2. \A i \in T : i \in Nat /\ 1 <= i /\ n + i \in U
    BY <1>2, <1>3, <1>22 DEF Beside
  <2>. QED
    BY <1>6, <2>1, <2>2
<1>12. g \in [1 .. c + d -> U] /\ c + d \in Nat
  <2>1. \A k \in 1 .. c + d : g[k] \in U
    <3>. SUFFICES ASSUME NEW k \in 1 .. c + d
                  PROVE  g[k] \in U
      OBVIOUS
    <3>1. CASE k \in 1 .. c
      <4>1. g[k] = Nth(S, k)
        BY <1>10, <3>1
      <4>. QED
        BY <1>11, <3>1, <4>1
    <3>2. CASE k \notin 1 .. c
      <4>1. PICK l \in 1 .. d : k = c + l
        BY <1>10, <3>2
      <4>2. g[k] = n + Nth(T, l)
        BY <1>10, <4>1
      <4>. QED
        BY <1>11, <4>2
    <3>. QED
      BY <3>1, <3>2
  <2>2. g = [k \in 1 .. c + d |-> g[k]] /\ c + d \in Nat
    BY <1>5, <1>9
  <2>. QED
    BY <2>1, <2>2
<1>13. \A k, l \in 1 .. c + d : k < l => g[k] < g[l]
  <2>. SUFFICES ASSUME NEW k \in 1 .. c + d, NEW l \in 1 .. c + d, k < l
                PROVE  g[k] < g[l]
    OBVIOUS
  <2>1. CASE k \in 1 .. c /\ l \in 1 .. c
    BY <1>7, <1>10, <2>1
  <2>2. CASE k \in 1 .. c /\ l \notin 1 .. c
    <3>1. PICK j \in 1 .. d : l = c + j
      BY <1>10, <2>2
    <3>2. g[k] = Nth(S, k) /\ g[l] = n + Nth(T, j)
      BY <1>10, <2>2, <3>1
    <3>. QED
      BY <1>2, <1>11, <2>2, <3>2
  <2>3. CASE k \notin 1 .. c
    <3>1. PICK i \in 1 .. d : k = c + i
      BY <1>10, <2>3
    <3>2. l \notin 1 .. c
      BY <1>5, <3>1
    <3>3. PICK j \in 1 .. d : l = c + j
      BY <1>10, <3>2
    <3>4. i < j
      BY <1>5, <3>1, <3>3
    <3>5. g[k] = n + Nth(T, i) /\ g[l] = n + Nth(T, j) /\ Nth(T, i) < Nth(T, j)
      BY <1>7, <1>10, <3>1, <3>3, <3>4
    <3>6. Nth(T, i) \in Nat /\ Nth(T, j) \in Nat
      BY <1>11
    <3>. QED
      BY <1>2, <3>5, <3>6
  <2>. QED
    BY <2>1, <2>2, <2>3
<1>14. \A i \in U : \E k \in 1 .. c + d : g[k] = i
  <2>. SUFFICES ASSUME NEW i \in U
                PROVE  \E k \in 1 .. c + d : g[k] = i
    OBVIOUS
  <2>1. i \in 1 .. n + m
    BY <1>22 DEF Beside
  <2>2. CASE i <= n
    <3>1. i \in S
      BY <1>2, <1>22, <2>1, <2>2 DEF Beside
    <3>. QED
      BY <1>8, <1>10, <3>1
  <2>3. CASE ~(i <= n)
    <3>1. PICK j : j = i - n
      OBVIOUS
    <3>2. j \in 1 .. m /\ i = n + j
      BY <1>2, <2>1, <2>3, <3>1
    <3>3. j \in T
      BY <1>22, <3>2 DEF Beside
    <3>4. PICK l \in 1 .. d : Nth(T, l) = j
      BY <1>8, <3>3
    <3>. QED
      BY <1>10, <3>2, <3>4
  <2>. QED
    BY <2>2, <2>3
<1>15. PICK ab, u : ab = a \o b /\ u = Picked(ab, U)
  OBVIOUS
<1>16. /\ IsFiniteSet(U) /\ IsSeq(u) /\ Len(u) = c + d
       /\ \A k \in 1 .. c + d : u[k] = ab[g[k]]
  <2>1. PICK N : N = c + d
    OBVIOUS
  <2>2. N \in Nat /\ g \in [1 .. N -> U] /\ U \in SUBSET Nat
    BY <1>12, <1>22, <2>1 DEF Beside
  <2>3. \A k, l \in 1 .. N : k < l => g[k] < g[l]
    BY <1>13, <2>1
  <2>4. \A j \in U : \E k \in 1 .. N : g[k] = j
    BY <1>14, <2>1
  <2>5. Counts(g, N, U)
    BY <2>2, <2>3, <2>4 DEF Counts
  <2>6. IsFiniteSet(U) /\ IsSeq(Picked(ab, U)) /\ Len(Picked(ab, U)) = N
    BY <2>5, PickedBy
  <2>7. \A k \in 1 .. N : Picked(ab, U)[k] = ab[g[k]]
    BY <2>5, PickedBy
  <2>. QED
    BY <1>15, <2>1, <2>6, <2>7
<1>18. /\ \A k \in 1 .. n : ab[k] = a[k]
       /\ \A k \in 1 .. m : ab[n + k] = b[k]
  BY <1>1, <1>15, Joined
<1>19. ASSUME NEW k \in 1 .. c
       PROVE  u[k] = p[k]
  <2>1. Nth(S, k) \in 1 .. n
    BY <1>3, <1>6
  <2>2. u[k] = ab[Nth(S, k)]
    BY <1>10, <1>16
  <2>. QED
    BY <1>6, <1>18, <2>1, <2>2
<1>20. ASSUME NEW k \in 1 .. d
       PROVE  u[c + k] = q[k]
  <2>1. Nth(T, k) \in 1 .. m
    BY <1>3, <1>6
  <2>2. c + k \in 1 .. c + d /\ g[c + k] = n + Nth(T, k)
    BY <1>10
  <2>3. u[c + k] = ab[n + Nth(T, k)]
    BY <1>16, <2>2
  <2>4. PICK i : i = Nth(T, k)
    OBVIOUS
  <2>5. ab[n + i] = b[i] /\ q[k] = b[i]
    BY <1>6, <1>18, <2>1, <2>4
  <2>. QED
    BY <2>3, <2>4, <2>5
<1>21. u = p \o q
  <2>1. \A k \in 1 .. Len(p) : u[k] = p[k]
    BY <1>5, <1>19
  <2>2. \A k \in 1 .. Len(q) : u[Len(p) + k] = q[k]
    BY <1>5, <1>20
  <2>3. Len(u) = Len(p) + Len(q)
    BY <1>5, <1>16
  <2>4. IsSeq(p) /\ IsSeq(q) /\ IsSeq(u)
    BY <1>5, <1>16
  <2>5. GoesOn(u, p, q)
    BY <2>1, <2>2, <2>3, <2>4 DEF GoesOn
  <2>. QED
    BY <2>5, JoinedIs
<1>. QED
  BY <1>4, <1>15, <1>16, <1>21

(* All of a sequence. *)
LEMMA PickedAll ==
  ASSUME NEW s, IsSeq(s)
  PROVE  Picked(s, DOMAIN s) = s
<1>1. PICK n, S, g : n = Len(s) /\ S = DOMAIN s /\ g = [k \in 1 .. n |-> k]
  OBVIOUS
<1>2. n \in Nat /\ S = 1 .. n /\ s = [k \in 1 .. n |-> s[k]]
  BY <1>1, SeqIs
<1>3. S \in SUBSET Nat /\ g \in [1 .. n -> S] /\ \A k \in 1 .. n : g[k] = k
  BY <1>1, <1>2
<1>4. \A k, l \in 1 .. n : k < l => g[k] < g[l]
  BY <1>3
<1>5. \A i \in S : \E k \in 1 .. n : g[k] = i
  BY <1>2, <1>3
<1>6. PICK p : p = Picked(s, S)
  OBVIOUS
<1>10. Counts(g, n, S)
  BY <1>2, <1>3, <1>4, <1>5 DEF Counts
<1>7. IsSeq(p) /\ Len(p) = n /\ \A k \in 1 .. n : p[k] = s[g[k]]
  BY <1>6, <1>10, PickedBy
<1>8. \A k \in 1 .. n : p[k] = s[k]
  BY <1>3, <1>7
<1>9. p = s
  BY <1>1, <1>7, <1>8, SameSeq
<1>. QED
  BY <1>1, <1>6, <1>9
=============================================================================
