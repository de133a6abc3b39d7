----------------------------- MODULE ConfigProofs -----------------------------
(***************************************************************************)
(* Rules are settled, for any modules, directives and options.  A fork has *)
(* arrays of its own (ForkForSpares), and an option appends only to what   *)
(* is being filled (OptionStep), which shares no array with what has been  *)
(* (Apart, the part of the invariant that each of them needs and keeps).   *)
(* Every mistake is reported, once, and nothing else: at each option what  *)
(* has been reported is the mistakes of what has been parsed (Tally).      *)
(* Each directive and subconverter follows the options in force for it,    *)
(* and none of another's: a configuration that is being filled shares no   *)
(* array with any other, and holds what the options parsed so far say      *)
(* (Full).                                                                 *)
(***************************************************************************)
EXTENDS ConfigProps, PicksProofs

(* Slices and configurations that point into a heap of n arrays. *)
IsSlice(s, n) == s = [arr |-> s.arr, len |-> s.len] /\ s.arr \in 0 .. n

Holds(c, n) ==
  /\ "lists" \in DOMAIN c
  /\ DOMAIN c.lists = Lists
  /\ \A l \in Lists : IsSlice(c.lists[l], n)

IsState(st) == IsSeq(st.heap) /\ Holds(st.cfg, Len(st.heap))

(* Lists in D can be appended to, and could so far, without a write to the   *)
(* arrays in F of the heap h.                                                *)
Spares(h, F, D, st) ==
  /\ IsState(st) /\ Len(st.heap) >= Len(h)
  /\ \A j \in F : st.heap[j] = h[j]
  /\ \A l \in D : st.cfg.lists[l].arr \notin F

-----------------------------------------------------------------------------
LEMMA HeapLen == ASSUME NEW h, IsSeq(h) PROVE Len(h) \in Nat
BY DEF IsSeq

LEMMA GrownHeap ==
  ASSUME NEW h, IsSeq(h), NEW e
  PROVE  /\ IsSeq(Append(h, e)) /\ Len(Append(h, e)) = Len(h) + 1
         /\ \A j \in 1 .. Len(h) : Append(h, e)[j] = h[j]
<1>1. PICK S : h \in Seq(S)
  BY DEF IsSeq
<1>2. h \in Seq(S \cup {e}) /\ e \in S \cup {e}
  BY <1>1
<1>3. /\ Append(h, e) \in Seq(S \cup {e}) /\ Len(Append(h, e)) = Len(h) + 1
      /\ \A j \in 1 .. Len(h) : Append(h, e)[j] = h[j]
  BY <1>2, AppendProperties
<1>4. QED
  BY <1>3 DEF IsSeq

LEMMA WrittenHeap ==
  ASSUME NEW h, IsSeq(h), NEW a \in Nat, NEW g, g = [j \in DOMAIN h |-> g[j]],
         \A j \in DOMAIN h : j # a => g[j] = h[j]
  PROVE  IsSeq(g) /\ Len(g) = Len(h) /\ \A j \in 1 .. Len(h) : j # a => g[j] = h[j]
<1>1. PICK S : h \in Seq(S)
  BY DEF IsSeq
<1>2. Len(h) \in Nat /\ DOMAIN h = 1 .. Len(h) /\ \A j \in DOMAIN h : h[j] \in S
  BY <1>1
<1>3. \A j \in DOMAIN h : g[j] \in S \cup {g[a]}
  BY <1>2
<1>4. g \in [1 .. Len(h) -> S \cup {g[a]}]
  BY <1>2, <1>3
<1>5. g \in Seq(S \cup {g[a]}) /\ Len(g) = Len(h)
  BY <1>2, <1>4, SeqDef, LenProperties
<1>6. QED
  BY <1>2, <1>5 DEF IsSeq

(* append writes to the array of its slice, or makes a new one. *)
LEMMA AppendFrame ==
  ASSUME NEW h, IsSeq(h), NEW s, IsSlice(s, Len(h)), NEW vs
  PROVE  LET r == AppendAll(h, s, vs)
         IN  /\ IsSeq(r.heap) /\ Len(r.heap) >= Len(h)
             /\ IsSlice(r.slice, Len(r.heap))
             /\ r.slice.arr = s.arr \/ r.slice.arr = Len(h) + 1
             /\ \A j \in 1 .. Len(h) : j # s.arr => r.heap[j] = h[j]
<1> DEFINE n == s.len + Len(vs)
           all == Contents(h, s) \o vs
           fits == n <= Room(h, s)
           size == Bigger(n, 2 * Room(h, s))
           tail(a) == all \o SubSeq(a, n + 1, Len(a))
           new == all \o [k \in 1 .. size - n |-> Nil]
<1>1. AppendAll(h, s, vs) =
        IF fits THEN [heap |-> IF vs = <<>> THEN h ELSE [h EXCEPT ![s.arr] = tail(@)],
                      slice |-> [s EXCEPT !.len = n]]
        ELSE [heap |-> Append(h, new), slice |-> [arr |-> Len(h) + 1, len |-> n]]
  BY DEF AppendAll
<1>2. Len(h) \in Nat /\ s.arr \in Nat /\ s.arr <= Len(h)
  BY HeapLen DEF IsSlice
<1>3. [s EXCEPT !.len = n] = [arr |-> s.arr, len |-> n]
  BY DEF IsSlice
<1> HIDE DEF n, all, fits, size, tail, new
<1>4. CASE fits /\ vs = <<>>
  BY <1>1, <1>2, <1>3, <1>4 DEF IsSlice
<1>5. CASE fits /\ vs # <<>>
  <2> DEFINE g == [h EXCEPT ![s.arr] = tail(h[s.arr])]
  <2>1. IsSeq(g) /\ Len(g) = Len(h) /\ \A j \in 1 .. Len(h) : j # s.arr => g[j] = h[j]
    <3>1. /\ g = [j \in DOMAIN h |-> g[j]]
          /\ \A j \in DOMAIN h : j # s.arr => g[j] = h[j]
      OBVIOUS
    <3> HIDE DEF g
    <3>2. QED
      BY <1>2, <3>1, WrittenHeap
  <2>2. AppendAll(h, s, vs) = [heap |-> g, slice |-> [arr |-> s.arr, len |-> n]]
    BY <1>1, <1>3, <1>5
  <2> HIDE DEF g
  <2>3. QED
    BY <1>2, <2>1, <2>2 DEF IsSlice
<1>6. CASE ~fits
  <2>1. AppendAll(h, s, vs) = [heap |-> Append(h, new), slice |-> [arr |-> Len(h) + 1, len |-> n]]
    BY <1>1, <1>6
  <2>2. /\ IsSeq(Append(h, new)) /\ Len(Append(h, new)) = Len(h) + 1
        /\ \A j \in 1 .. Len(h) : Append(h, new)[j] = h[j]
    BY GrownHeap
  <2>3. QED
    BY <1>2, <2>1, <2>2 DEF IsSlice
<1>7. QED
  BY <1>4, <1>5, <1>6

-----------------------------------------------------------------------------
LEMMA SparesAppend ==
  ASSUME NEW h, IsSeq(h), NEW F \in SUBSET (1 .. Len(h)), NEW D \in SUBSET Lists,
         NEW st, Spares(h, F, D, st), NEW l \in D, NEW vs
  PROVE  Spares(h, F, D, AppendTo(st, l, vs))
<1> DEFINE s == st.cfg.lists[l]
           r == AppendAll(st.heap, s, vs)
<1>1. IsSeq(st.heap) /\ IsSlice(s, Len(st.heap)) /\ s.arr \notin F
  BY DEF Spares, IsState, Holds
<1>2. Len(h) \in Nat /\ Len(st.heap) \in Nat /\ Len(st.heap) >= Len(h)
  BY <1>1, HeapLen DEF Spares
<1> HIDE DEF s
<1>3. /\ IsSeq(r.heap) /\ Len(r.heap) >= Len(st.heap) /\ Len(r.heap) \in Nat
      /\ IsSlice(r.slice, Len(r.heap))
      /\ r.slice.arr = s.arr \/ r.slice.arr = Len(st.heap) + 1
      /\ \A j \in 1 .. Len(st.heap) : j # s.arr => r.heap[j] = st.heap[j]
  <2>1. PICK g : g = st.heap
    OBVIOUS
  <2>2. IsSeq(g) /\ IsSlice(s, Len(g))
    BY <1>1, <2>1
  <2>3. /\ IsSeq(AppendAll(g, s, vs).heap) /\ Len(AppendAll(g, s, vs).heap) >= Len(g)
        /\ IsSlice(AppendAll(g, s, vs).slice, Len(AppendAll(g, s, vs).heap))
        /\ AppendAll(g, s, vs).slice.arr = s.arr \/ AppendAll(g, s, vs).slice.arr = Len(g) + 1
        /\ \A j \in 1 .. Len(g) : j # s.arr => AppendAll(g, s, vs).heap[j] = g[j]
    BY <2>2, AppendFrame
  <2>4. PICK grown : grown = AppendAll(g, s, vs).heap
    OBVIOUS
  <2>5. Len(grown) \in Nat
    BY <2>3, <2>4, HeapLen
  <2>6. QED
    BY <2>1, <2>3, <2>4, <2>5
<1>4. AppendTo(st, l, vs) = [heap |-> r.heap, cfg |-> [st.cfg EXCEPT !.lists[l] = r.slice]]
  BY DEF AppendTo, State, s
<1> HIDE DEF r
<1> DEFINE c == [st.cfg EXCEPT !.lists[l] = r.slice]
<1>5. Holds(st.cfg, Len(st.heap))
  BY DEF Spares, IsState
<1>6. /\ "lists" \in DOMAIN c /\ DOMAIN c.lists = Lists
      /\ \A k \in Lists : c.lists[k] = IF k = l THEN r.slice ELSE st.cfg.lists[k]
  BY <1>5 DEF Holds
<1> HIDE DEF c
<1>7. Holds(c, Len(r.heap))
  BY <1>2, <1>3, <1>5, <1>6 DEF Holds, IsSlice
<1>8. \A j \in F : r.heap[j] = h[j]
  BY <1>1, <1>2, <1>3 DEF Spares
<1>9. \A k \in D : c.lists[k].arr \notin F
  BY <1>1, <1>2, <1>3, <1>6 DEF Spares
<1>10. PICK new : new = AppendTo(st, l, vs)
  OBVIOUS
<1>11. new.heap = r.heap /\ new.cfg = c
  BY <1>4, <1>10 DEF c
<1>12. Spares(h, F, D, new)
  BY <1>2, <1>3, <1>7, <1>8, <1>9, <1>11 DEF Spares, IsState
<1>13. QED
  BY <1>10, <1>12

(* What is not a list of rules does not matter. *)
LEMMA SparesRest ==
  ASSUME NEW h, NEW F, NEW D, NEW st, Spares(h, F, D, st), NEW c,
         "lists" \in DOMAIN c, c.lists = st.cfg.lists
  PROVE  Spares(h, F, D, State(st.heap, c))
BY DEF Spares, IsState, Holds, State

(* A list with no rules has no array. *)
LEMMA SparesNil ==
  ASSUME NEW h, IsSeq(h), NEW F \in SUBSET (1 .. Len(h)), NEW D \in SUBSET Lists,
         NEW st, Spares(h, F, D, st), NEW l \in Lists
  PROVE  Spares(h, F, D \cup {l}, State(st.heap, [st.cfg EXCEPT !.lists[l] = NilSlice]))
<1> DEFINE c == [st.cfg EXCEPT !.lists[l] = NilSlice]
<1>1. Holds(st.cfg, Len(st.heap)) /\ IsSeq(st.heap)
  BY DEF Spares, IsState
<1>2. Len(st.heap) \in Nat /\ Len(h) \in Nat
  BY <1>1, HeapLen
<1>3. /\ "lists" \in DOMAIN c /\ DOMAIN c.lists = Lists
      /\ \A k \in Lists : c.lists[k] = IF k = l THEN NilSlice ELSE st.cfg.lists[k]
  BY <1>1 DEF Holds
<1> HIDE DEF c
<1>4. IsSlice(NilSlice, Len(st.heap)) /\ NilSlice.arr \notin F
  BY <1>2 DEF IsSlice, NilSlice
<1>5. Holds(c, Len(st.heap))
  BY <1>1, <1>3, <1>4 DEF Holds
<1>6. \A k \in D \cup {l} : c.lists[k].arr \notin F
  <2> SUFFICES ASSUME NEW k \in D \cup {l} PROVE c.lists[k].arr \notin F
    OBVIOUS
  <2> QED
    BY <1>3, <1>4 DEF Spares
<1>7. QED
  BY <1>1, <1>5, <1>6 DEF Spares, IsState, State, c

LEMMA SparesClone ==
  ASSUME NEW h, IsSeq(h), NEW F \in SUBSET (1 .. Len(h)), NEW D \in SUBSET Lists,
         NEW st, Spares(h, F, D, st), NEW l \in Lists
  PROVE  Spares(h, F, D \cup {l}, Clone(st, l))
<1>1. PICK nil, E, vs : /\ nil = State(st.heap, [st.cfg EXCEPT !.lists[l] = NilSlice])
                        /\ E = D \cup {l} /\ vs = Contents(st.heap, st.cfg.lists[l])
  OBVIOUS
<1>2. Spares(h, F, E, nil)
  BY <1>1, SparesNil
<1>3. E \in SUBSET Lists /\ l \in E
  BY <1>1
<1>4. Spares(h, F, E, AppendTo(nil, l, vs))
  BY <1>2, <1>3, SparesAppend
<1>5. QED
  BY <1>1, <1>4 DEF Clone

(* A fork can be added to without a write to the arrays there were. *)
ForkedFrom(st, forked) == Spares(st.heap, 1 .. Len(st.heap), Lists, forked)

LEMMA ListsAre ==
  /\ <<"renamers", "x">> \in Lists /\ <<"renamers", "y">> \in Lists
  /\ <<"finders", "x">> \in Lists /\ <<"finders", "y">> \in Lists
  /\ \A l \in Lists : l \in {<<"renamers", "x">>, <<"renamers", "y">>,
                             <<"finders", "x">>, <<"finders", "y">>}
BY DEF Lists, Sides

LEMMA ForkSpares ==
  ASSUME NEW st, IsState(st)
  PROVE  ForkedFrom(st, Fork(st))
<1> DEFINE h == st.heap
           F == 1 .. Len(st.heap)
<1>1. PICK rx, ry, fx, fy : /\ rx = <<"renamers", "x">> /\ ry = <<"renamers", "y">>
                            /\ fx = <<"finders", "x">> /\ fy = <<"finders", "y">>
  OBVIOUS
<1>2. PICK s1 : s1 = Clone(st, rx)
  OBVIOUS
<1>3. PICK s2 : s2 = Clone(s1, ry)
  OBVIOUS
<1>4. PICK s3 : s3 = Clone(s2, fx)
  OBVIOUS
<1>5. PICK s4 : s4 = Clone(s3, fy)
  OBVIOUS
<1>6. PICK D1, D2, D3, D4 : /\ D1 = {} \cup {rx} /\ D2 = D1 \cup {ry}
                            /\ D3 = D2 \cup {fx} /\ D4 = D3 \cup {fy}
  OBVIOUS
<1>7. /\ {rx, ry, fx, fy} \subseteq Lists /\ D4 = Lists
      /\ D1 \in SUBSET Lists /\ D2 \in SUBSET Lists /\ D3 \in SUBSET Lists
  BY <1>1, <1>6, ListsAre
<1>8. IsSeq(h) /\ Len(h) \in Nat /\ F \in SUBSET F
  BY HeapLen DEF IsState
<1>9. Spares(h, F, {}, st)
  BY <1>8 DEF Spares
<1>10. PICK g, G : g = h /\ G = F
  OBVIOUS
<1>11. Spares(g, G, {}, st) /\ IsSeq(g) /\ G \in SUBSET (1 .. Len(g)) /\ {} \in SUBSET Lists
  BY <1>8, <1>9, <1>10
<1>12. Spares(g, G, D1, s1)
  BY <1>2, <1>6, <1>7, <1>11, SparesClone
<1>13. Spares(g, G, D2, s2)
  BY <1>3, <1>6, <1>7, <1>11, <1>12, SparesClone
<1>14. Spares(g, G, D3, s3)
  BY <1>4, <1>6, <1>7, <1>11, <1>13, SparesClone
<1>15. Spares(g, G, D4, s4)
  BY <1>5, <1>6, <1>7, <1>11, <1>14, SparesClone
<1>16. CloneRules(CloneRules(st, "renamers"), "finders") = s4
  BY <1>1, <1>2, <1>3, <1>4, <1>5 DEF CloneRules
<1>17. "lists" \in DOMAIN s4.cfg
  BY <1>15 DEF Spares, IsState, Holds
<1>18. PICK c : c = [s4.cfg EXCEPT !.match = <<>>, !.matchFuncs = NoMatchFuncs,
                       !.matchSkip = <<>>, !.bySample = Off(Nil, Nil),
                       !.nested = [side \in Sides |-> <<>>]]
  OBVIOUS
<1>19. Fork(st) = State(s4.heap, c)
  BY <1>16, <1>18 DEF Fork
<1>20. "lists" \in DOMAIN c /\ c.lists = s4.cfg.lists
  BY <1>17, <1>18
<1>21. Spares(g, G, D4, State(s4.heap, c))
  BY <1>15, <1>20, SparesRest
<1>22. QED
  BY <1>7, <1>10, <1>19, <1>21 DEF ForkedFrom

LEMMA UpdateSpares ==
  ASSUME NEW h, IsSeq(h), NEW F \in SUBSET (1 .. Len(h)),
         NEW st, Spares(h, F, Lists, st), NEW other
  PROVE  Spares(h, F, Lists, Update(st, other))
<1>1. PICK rx, ry, fx, fy : /\ rx = <<"renamers", "x">> /\ ry = <<"renamers", "y">>
                            /\ fx = <<"finders", "x">> /\ fy = <<"finders", "y">>
  OBVIOUS
<1> DEFINE Of(l) == Contents(st.heap, other.lists[l])
<1>2. PICK s1 : s1 = AppendTo(st, rx, Of(rx))
  OBVIOUS
<1>3. PICK s2 : s2 = AppendTo(s1, ry, Of(ry))
  OBVIOUS
<1>4. PICK s3 : s3 = AppendTo(s2, fx, Of(fx))
  OBVIOUS
<1>5. PICK s4 : s4 = AppendTo(s3, fy, Of(fy))
  OBVIOUS
<1>6. PICK c : c = [s4.cfg EXCEPT
           !.funcs = @ \o other.funcs, !.errWraps = @ \o other.errWraps,
           !.match = other.match, !.matchFuncs = other.matchFuncs,
           !.matchSkip = other.matchSkip, !.nested.x = other.nested.x,
           !.bySample = Follow(@, other.bySample),
           !.unexported = Follow(@, other.unexported),
           !.getters = FollowAffix(@, other.getters),
           !.setters = FollowAffix(@, other.setters)]
  OBVIOUS
<1>7. Update(st, other) = State(s4.heap, c)
  BY <1>1, <1>2, <1>3, <1>4, <1>5, <1>6 DEF Update
<1> HIDE DEF Of
<1>8. {rx, ry, fx, fy} \subseteq Lists /\ Lists \in SUBSET Lists
  BY <1>1, ListsAre
<1>9. PICK v1, v2, v3, v4 : v1 = Of(rx) /\ v2 = Of(ry) /\ v3 = Of(fx) /\ v4 = Of(fy)
  OBVIOUS
<1>10. Spares(h, F, Lists, s1)
  BY <1>2, <1>8, <1>9, SparesAppend
<1>11. Spares(h, F, Lists, s2)
  BY <1>3, <1>8, <1>9, <1>10, SparesAppend
<1>12. Spares(h, F, Lists, s3)
  BY <1>4, <1>8, <1>9, <1>11, SparesAppend
<1>13. Spares(h, F, Lists, s4)
  BY <1>5, <1>8, <1>9, <1>12, SparesAppend
<1>14. "lists" \in DOMAIN s4.cfg
  BY <1>13 DEF Spares, IsState, Holds
<1>15. "lists" \in DOMAIN c /\ c.lists = s4.cfg.lists
  BY <1>6, <1>14
<1>16. QED
  BY <1>7, <1>13, <1>15, SparesRest

LEMMA ForkForSpares ==
  ASSUME NEW kind, NEW mod, IsSeq(heap), Holds(mod.cfg, Len(heap))
  PROVE  Spares(heap, 1 .. Len(heap), Lists, ForkFor(kind, mod))
<1>1. PICK st : st = State(heap, mod.cfg)
  OBVIOUS
<1>2. IsState(st) /\ st.heap = heap
  BY <1>1 DEF IsState, State
<1>3. PICK forked : forked = Fork(st)
  OBVIOUS
<1>4. PICK F : F = 1 .. Len(heap)
  OBVIOUS
<1>5. Spares(heap, F, Lists, forked)
  BY <1>2, <1>3, <1>4, ForkSpares DEF ForkedFrom
<1>6. PICK other : other = mod.fors[kind]
  OBVIOUS
<1>7. F \in SUBSET (1 .. Len(heap))
  BY <1>4
<1>8. Spares(heap, F, Lists, Update(forked, other))
  BY <1>5, <1>7, UpdateSpares
<1>9. QED
  BY <1>1, <1>3, <1>4, <1>5, <1>6, <1>8 DEF ForkFor

-----------------------------------------------------------------------------
(* The configurations that are being filled, and the arrays of those that    *)
(* are not any more.                                                         *)
Opened == {cfg} \cup {fors[kind] : kind \in DOMAIN fors}

Filling == at.phase \in {"module", "injector"} /\ at.i # 0

Protected == {c.lists[l].arr : c \in Finished, l \in Lists} \ {0}

(* The directive that is being parsed, or the next one to be. *)
AtDirective(pg, a, r) ==
  /\ r \in DOMAIN pg.directives
  /\ \/ a.phase = "module" /\ a.n <= pg.declared /\ r = 1
     \/ a.phase = "module" /\ a.n > pg.declared /\ pg.directives[r].mod = a.n
     \/ a.phase = "injector" /\ r = a.n

(* The modules that have been parsed by the time of the r-th directive. *)
Before(pg, D, r) ==
  1 .. pg.declared \subseteq D /\ \A d \in DOMAIN pg.directives : d < r => pg.directives[d].mod \in {0} \cup D

Placed ==
  /\ prog \in Programs
  /\ at = [phase |-> at.phase, n |-> at.n, i |-> at.i] /\ at.i \in Nat
  /\ DOMAIN mods \subseteq DOMAIN prog.modules
  /\ at.phase = "module" =>
       /\ at.n \in DOMAIN prog.modules \ DOMAIN mods
       /\ at.n <= prog.declared => DOMAIN mods = 1 .. at.n - 1
       /\ at.n > prog.declared =>
            \A r \in DOMAIN prog.directives : AtDirective(prog, at, r) => Before(prog, DOMAIN mods, r)
       /\ \A j \in 1 .. at.i - 1 :
            j \in DOMAIN prog.modules[at.n] /\ prog.modules[at.n][j].op = "for"
              => prog.modules[at.n][j].kind \in DOMAIN fors
  /\ at.phase = "injector" =>
       /\ at.n \in 1 .. Len(prog.directives) /\ Before(prog, DOMAIN mods, at.n)
       /\ at.i # 0 => prog.directives[at.n].mod \in {0} \cup DOMAIN mods
  /\ at.phase = "build" => at.n \in 1 .. Len(prog.directives)
  /\ at.phase \in {"build", "done"} => DOMAIN mods = DOMAIN prog.modules

Kept ==
  /\ IsSeq(heap) /\ IsSeq(injs) /\ IsSeq(subs)
  /\ \A m \in DOMAIN mods :
       mods[m] = [cfg |-> mods[m].cfg, fors |-> mods[m].fors, known |-> mods[m].known]
  /\ \A c \in Finished \cup Opened : Holds(c, Len(heap))

(* What is being filled is not in an array of what has been. *)
Apart == Filling => \A o \in Opened : \A l \in Lists : o.lists[l].arr \notin Protected

Inv == Placed /\ Kept /\ Apart

-----------------------------------------------------------------------------
LEMMA ListIs ==
  ASSUME NEW s, IsList(s)
  PROVE  IsSeq(s) /\ Len(s) \in Nat /\ DOMAIN s = 1 .. Len(s) /\ (s # <<>> => Len(s) >= 1)
<1>1. PICK n : n = Len(s)
  OBVIOUS
<1>2. n \in Nat /\ DOMAIN s = 1 .. n /\ s = [k \in DOMAIN s |-> s[k]]
  BY <1>1 DEF IsList
<1>3. s = [k \in 1 .. n |-> s[k]]
  BY <1>2
<1>4. IsSeq(s)
  BY <1>2, <1>3, FunctionIsSeq
<1>. QED
  BY <1>1, <1>2, <1>4, EmptySeqIs

LEMMA ProgramsAre ==
  ASSUME Placed
  PROVE  /\ Len(prog.modules) \in Nat /\ DOMAIN prog.modules = 1 .. Len(prog.modules)
         /\ Len(prog.directives) \in Nat /\ DOMAIN prog.directives = 1 .. Len(prog.directives)
         /\ Len(prog.directives) >= 1
BY ProgramsAssumption, ListIs DEF Placed

(* What is written inline has one directive, which is not broken. *)
LEMMA InlinesAre ==
  ASSUME NEW pg \in Programs
  PROVE  /\ Len(pg.modules) \in Nat /\ DOMAIN pg.modules = 1 .. Len(pg.modules)
         /\ Len(pg.directives) \in Nat /\ DOMAIN pg.directives = 1 .. Len(pg.directives)
         /\ Len(pg.directives) >= 1 /\ pg.declared \in 0 .. Len(pg.modules)
         /\ \A d \in DOMAIN pg.directives :
              /\ pg.directives[d].mod \in 0 .. Len(pg.modules)
              /\ pg.directives[d].broken => pg.directives[d].mod <= pg.declared
         /\ \A d, e \in DOMAIN pg.directives :
              pg.directives[d].mod > pg.declared /\ pg.directives[e].mod = pg.directives[d].mod => d = e
         /\ \A m \in DOMAIN pg.modules : m > pg.declared =>
              \E d \in DOMAIN pg.directives : pg.directives[d].mod = m
<1>1. /\ IsList(pg.modules) /\ IsList(pg.directives) /\ pg.directives # <<>>
      /\ pg.declared \in 0 .. Len(pg.modules)
      /\ \A m \in DOMAIN pg.modules : m > pg.declared => Inlined(pg, m)
      /\ \A d \in DOMAIN pg.directives : pg.directives[d].mod \in 0 .. Len(pg.modules)
  BY ProgramsAssumption
<1>2. /\ Len(pg.modules) \in Nat /\ DOMAIN pg.modules = 1 .. Len(pg.modules)
      /\ Len(pg.directives) \in Nat /\ DOMAIN pg.directives = 1 .. Len(pg.directives)
      /\ Len(pg.directives) >= 1
  BY <1>1, ListIs
<1>3. ASSUME NEW m \in DOMAIN pg.modules, m > pg.declared
      PROVE  \E d \in DOMAIN pg.directives :
               /\ pg.directives[d].mod = m /\ ~pg.directives[d].broken
               /\ \A e \in DOMAIN pg.directives : pg.directives[e].mod = m => e = d
  BY <1>1, <1>3 DEF Inlined
<1>4. ASSUME NEW d \in DOMAIN pg.directives, pg.directives[d].mod > pg.declared
      PROVE  /\ ~pg.directives[d].broken
             /\ \A e \in DOMAIN pg.directives : pg.directives[e].mod = pg.directives[d].mod => d = e
  <2>1. PICK m : m = pg.directives[d].mod
    OBVIOUS
  <2>2. m \in DOMAIN pg.modules /\ m > pg.declared
    BY <1>1, <1>2, <1>4, <2>1
  <2>3. QED
    BY <1>3, <2>1, <2>2
<1>5. ASSUME NEW d \in DOMAIN pg.directives, pg.directives[d].broken
      PROVE  pg.directives[d].mod <= pg.declared
  <2>1. ~(pg.directives[d].mod > pg.declared)
    BY <1>4, <1>5
  <2>2. QED
    BY <1>1, <1>2, <2>1
<1>6. QED
  BY <1>1, <1>2, <1>3, <1>4, <1>5

LEMMA ProtectedHeap ==
  ASSUME Kept
  PROVE  Len(heap) \in Nat /\ Protected \in SUBSET (1 .. Len(heap))
<1>1. Len(heap) \in Nat
  BY HeapLen DEF Kept
<1>2. \A c \in Finished : Holds(c, Len(heap))
  BY DEF Kept
<1>3. \A c \in Finished : \A l \in Lists : c.lists[l].arr \in 0 .. Len(heap)
  BY <1>2 DEF Holds, IsSlice
<1>4. QED
  BY <1>1, <1>3 DEF Protected

(* An option has a configuration to go to, and it is being filled. *)
LEMMA TargetOpened ==
  ASSUME Inv, Parsing
  PROVE  /\ Target \in Opened /\ Filling
         /\ at.phase = "injector" => Item.op # "for" /\ Item.into = Nil
<1>1. CASE at.phase = "module"
  <2>1. at.n \in DOMAIN prog.modules /\ Items = prog.modules[at.n]
    BY <1>1, ProgramsAre DEF Inv, Placed, Items
  <2>2. IsList(Items) /\ Qualified(Items)
    BY <2>1, ProgramsAssumption DEF Inv, Placed
  <2>3. at.i \in 1 .. Len(Items) /\ Len(Items) \in Nat /\ DOMAIN Items = 1 .. Len(Items)
    BY <2>2 DEF Parsing, IsList
  <2>4. CASE Item.into = Nil
    BY <1>1, <2>3, <2>4 DEF Target, Opened, Filling
  <2>5. CASE Item.into # Nil
    <3>1. PICK j \in 1 .. at.i - 1 : Items[j].op = "for" /\ Items[j].kind = Item.into
      BY <2>2, <2>3, <2>5 DEF Qualified, Item
    <3>2. Item.into \in DOMAIN fors
      BY <1>1, <2>1, <2>3, <3>1 DEF Inv, Placed
    <3>3. QED
      BY <1>1, <2>3, <2>5, <3>2 DEF Target, Opened, Filling
  <2>6. QED
    BY <1>1, <2>4, <2>5
<1>2. CASE at.phase = "injector"
  <2>1. at.n \in DOMAIN prog.directives /\ Items = prog.directives[at.n].opts
    BY <1>2, ProgramsAre DEF Inv, Placed, Items
  <2>2. IsList(Items) /\ \A i \in DOMAIN Items : Items[i].into = Nil /\ Items[i].op # "for"
    BY <2>1, ProgramsAssumption DEF Inv, Placed
  <2>3. at.i \in 1 .. Len(Items) /\ Len(Items) \in Nat /\ Item.into = Nil /\ Item.op # "for"
    BY <2>2 DEF Parsing, IsList, Item
  <2>4. QED
    BY <1>2, <2>3 DEF Target, Opened, Filling
<1>3. QED
  BY <1>1, <1>2 DEF Parsing

LEMMA TargetSpares ==
  ASSUME Inv, Parsing
  PROVE  /\ Spares(heap, Protected, Lists, State(heap, Target)) /\ IsSeq(heap)
         /\ "lists" \in DOMAIN Target
<1>1. PICK c : c = Target
  OBVIOUS
<1>2. c \in Opened /\ Filling
  BY <1>1, TargetOpened
<1>3. IsSeq(heap) /\ Holds(c, Len(heap)) /\ Len(heap) \in Nat
  BY <1>2, ProtectedHeap DEF Inv, Kept
<1>4. \A l \in Lists : c.lists[l].arr \notin Protected
  BY <1>2 DEF Inv, Apart
<1>5. Spares(heap, Protected, Lists, State(heap, c))
  BY <1>3, <1>4 DEF Spares, IsState, State
<1>6. QED
  BY <1>1, <1>3, <1>5 DEF Holds

-----------------------------------------------------------------------------
(* What a step does not write to keeps its rules. *)
LEMMA Unwritten ==
  ASSUME \A j \in Protected : heap'[j] = heap[j]
  PROVE  \A c \in Finished : RulesStay(c)
<1> SUFFICES ASSUME NEW c \in Finished, NEW l \in Lists
             PROVE  Contents(heap', c.lists[l]) = Contents(heap, c.lists[l])
  BY DEF RulesStay
<1>1. PICK s : s = c.lists[l]
  OBVIOUS
<1>2. s.arr = 0 \/ s.arr \in Protected
  BY <1>1 DEF Protected
<1>3. Contents(heap', s) = Contents(heap, s)
  BY <1>2 DEF Contents
<1>4. QED
  BY <1>1, <1>3

LEMMA SameFinished ==
  ASSUME UNCHANGED <<mods, injs, subs>>
  PROVE  Finished' = Finished /\ Protected' = Protected
BY DEF Finished, Configs, Protected

(* A configuration in a heap that has grown. *)
LEMMA HoldsMore ==
  ASSUME NEW c, NEW n \in Nat, NEW m \in Nat, n <= m, Holds(c, n)
  PROVE  Holds(c, m)
BY DEF Holds, IsSlice

LEMMA EmptyHolds ==
  ASSUME NEW n \in Nat
  PROVE  Holds(EmptyConfig, n) /\ \A l \in Lists : EmptyConfig.lists[l].arr = 0
BY DEF Holds, IsSlice, EmptyConfig, NilSlice

(* On to the next option: its kind is known if this one is a qualifier. *)
LEMMA NextPlaced ==
  ASSUME Inv, Parsing, NextItem, UNCHANGED <<prog, mods>>, DOMAIN fors \subseteq DOMAIN fors',
         Item.op = "for" => Item.kind \in DOMAIN fors'
  PROVE  Placed' /\ (Filling' => Filling)
<1>1. /\ at'.phase = at.phase /\ at'.n = at.n /\ at'.i = at.i + 1
      /\ at' = [phase |-> at'.phase, n |-> at'.n, i |-> at'.i] /\ at'.i \in Nat
  BY DEF NextItem, Inv, Placed
<1>2. ASSUME at.phase = "module", NEW j \in 1 .. at.i, j \in DOMAIN prog.modules[at.n],
             prog.modules[at.n][j].op = "for"
      PROVE  prog.modules[at.n][j].kind \in DOMAIN fors'
  <2>1. CASE j = at.i
    BY <1>2, <2>1 DEF Item, Items
  <2>2. CASE j # at.i
    <3>1. j \in 1 .. at.i - 1
      BY <2>2 DEF Inv, Placed
    <3>2. QED
      BY <1>2, <3>1 DEF Inv, Placed
  <2>3. QED
    BY <2>1, <2>2
<1>3. at.i + 1 - 1 = at.i
  BY DEF Inv, Placed
<1>4. Filling /\ at.phase \in {"module", "injector"} /\ at.i # 0
  BY TargetOpened DEF Parsing, Filling
<1>5. \A r \in DOMAIN prog.directives : AtDirective(prog, at', r) <=> AtDirective(prog, at, r)
  BY <1>1 DEF AtDirective
<1>6. CASE at.phase = "module"
  BY <1>1, <1>2, <1>3, <1>4, <1>5, <1>6 DEF Inv, Placed
<1>7. CASE at.phase = "injector"
  BY <1>1, <1>4, <1>7 DEF Inv, Placed
<1>8. QED
  BY <1>4, <1>6, <1>7

(* An option with which the configuration it is for becomes st. *)
LEMMA OptionStep ==
  ASSUME Inv, Parsing, Item.op # "for", NEW st, Spares(heap, Protected, Lists, st), Becomes(st)
  PROVE  Inv' /\ Settled
<1>1. /\ heap' = st.heap /\ NextItem /\ UNCHANGED <<prog, mods, injs, subs>>
      /\ IF Item.into = Nil THEN cfg' = st.cfg /\ UNCHANGED fors
         ELSE fors' = [fors EXCEPT ![Item.into] = st.cfg] /\ UNCHANGED cfg
  BY DEF Becomes
<1>3. DOMAIN fors' = DOMAIN fors
  BY <1>1
<1>4. Finished' = Finished /\ Protected' = Protected
  BY <1>1, SameFinished
<1>5. \A o \in Opened' : o \in Opened \/ o = st.cfg
  BY <1>1 DEF Opened
<1>6. Settled
  <2>1. \A j \in Protected : heap'[j] = heap[j]
    BY <1>1 DEF Spares
  <2>2. QED
    BY <1>4, <2>1, Unwritten DEF Settled
<1>7. Placed'
  BY <1>1, <1>3, NextPlaced
<1>8. Kept'
  <2>1. /\ Len(heap) \in Nat /\ Len(heap') \in Nat /\ Len(heap) <= Len(heap')
        /\ IsSeq(heap') /\ Holds(st.cfg, Len(heap'))
    BY <1>1, HeapLen DEF Spares, IsState, Inv, Kept
  <2>2. \A c \in Finished \cup Opened : Holds(c, Len(heap'))
    BY <2>1, HoldsMore DEF Inv, Kept
  <2>3. \A c \in Finished' \cup Opened' : Holds(c, Len(heap'))
    BY <1>4, <1>5, <2>1, <2>2
  <2>4. QED
    BY <1>1, <2>1, <2>3 DEF Inv, Kept
<1>9. Apart'
  <2>1. \A l \in Lists : st.cfg.lists[l].arr \notin Protected
    BY DEF Spares
  <2>2. \A o \in Opened : \A l \in Lists : o.lists[l].arr \notin Protected
    BY TargetOpened DEF Inv, Apart
  <2>3. \A o \in Opened' : \A l \in Lists : o.lists[l].arr \notin Protected'
    BY <1>4, <1>5, <2>1, <2>2
  <2>4. QED
    BY <2>3 DEF Apart
<1>10. QED
  BY <1>6, <1>7, <1>8, <1>9 DEF Inv

(* An option that leaves the rules alone. *)
LEMMA SetsStep ==
  ASSUME Inv, Parsing, Item.op # "for", NEW c, "lists" \in DOMAIN c, c.lists = Target.lists,
         Sets(c)
  PROVE  Inv' /\ Settled
<1>1. PICK old, st, F : /\ old = State(heap, Target) /\ st = State(heap, c) /\ F = Protected
  OBVIOUS
<1>2. Spares(heap, F, Lists, old) /\ c.lists = old.cfg.lists /\ old.heap = heap
  BY <1>1, TargetSpares DEF State
<1>3. Spares(heap, F, Lists, State(old.heap, c))
  BY <1>2, SparesRest
<1>4. Spares(heap, Protected, Lists, st) /\ Becomes(st)
  BY <1>1, <1>2, <1>3 DEF Sets
<1>5. QED
  BY <1>4, OptionStep

(* A step that leaves the configurations and the heap alone. *)
LEMMA IdleStep ==
  ASSUME Inv, UNCHANGED <<heap, cfg, fors, mods, injs, subs>>, Placed', Filling' => Filling
  PROVE  Inv' /\ Settled
<1>1. Finished' = Finished /\ Protected' = Protected /\ Opened' = Opened
  BY SameFinished DEF Opened
<1>2. Kept' /\ Apart'
  BY <1>1 DEF Inv, Kept, Apart
<1>3. Settled
  BY <1>1, Unwritten DEF Settled
<1>4. QED
  BY <1>2, <1>3 DEF Inv

LEMMA RefusedStep ==
  ASSUME Inv, Parsing, Item.op # "for", NEW what, Refused(what)
  PROVE  Inv' /\ Settled
<1>1. NextItem /\ UNCHANGED <<prog, heap, cfg, fors, mods, injs, subs>>
  BY DEF Refused
<1>2. Placed' /\ (Filling' => Filling)
  BY <1>1, NextPlaced
<1>3. QED
  BY <1>1, <1>2, IdleStep

LEMMA PanicStep ==
  ASSUME Inv, Panic
  PROVE  Inv' /\ Settled
<1>1. UNCHANGED <<prog, heap, cfg, fors, mods, injs, subs>>
  BY DEF Panic
<1>2. at'.phase = "panicked" /\ at' = [phase |-> at'.phase, n |-> at'.n, i |-> at'.i] /\ at'.i \in Nat
  BY DEF Panic, Inv, Placed
<1>3. Placed' /\ ~Filling'
  BY <1>1, <1>2 DEF Inv, Placed, Filling
<1>4. QED
  BY <1>1, <1>3, IdleStep

-----------------------------------------------------------------------------
(* The options *)
LEMMA RenameStep ==
  ASSUME Inv, Rename
  PROVE  Inv' /\ Settled
<1>1. Parsing /\ Item.op # "for"
  BY DEF Rename, Option
<1>2. PICK st, F, x, y : /\ st = State(heap, Target) /\ F = Protected
                         /\ x = Item.x /\ y = Item.y
  OBVIOUS
<1>3. Spares(heap, F, Lists, st) /\ IsSeq(heap) /\ F \in SUBSET (1 .. Len(heap))
  BY <1>1, <1>2, TargetSpares, ProtectedHeap DEF Inv
<1>4. ASSUME NEW s, Spares(heap, F, Lists, s), NEW side \in Sides, NEW rule
      PROVE  Spares(heap, F, Lists, AddRule(s, side, rule))
  <2>1. PICK lr, lf, vr, vf : /\ lr = <<"renamers", side>> /\ lf = <<"finders", side>>
                              /\ vr = <<rule>> /\ vf = <<FinderOf(rule)>>
    OBVIOUS
  <2>2. lr \in Lists /\ lf \in Lists /\ Lists \in SUBSET Lists
    BY <2>1 DEF Lists
  <2>3. PICK s1 : s1 = AppendTo(s, lr, vr)
    OBVIOUS
  <2>4. Spares(heap, F, Lists, s1)
    BY <1>3, <1>4, <2>2, <2>3, SparesAppend
  <2>5. Spares(heap, F, Lists, AppendTo(s1, lf, vf))
    BY <1>3, <2>2, <2>4, SparesAppend
  <2>6. QED
    BY <1>4, <2>1, <2>3, <2>5 DEF AddRule
<1>5. PICK s1 : s1 = AddRule(st, "x", x)
  OBVIOUS
<1>6. PICK s2 : s2 = AddRule(s1, "y", y)
  OBVIOUS
<1>7. PICK sx, sy : sx = "x" /\ sy = "y"
  OBVIOUS
<1>8. sx \in Sides /\ sy \in Sides
  BY <1>7 DEF Sides
<1>9. Spares(heap, F, Lists, AddRule(st, sx, x))
  BY <1>3, <1>4, <1>8
<1>10. Spares(heap, F, Lists, s1)
  BY <1>5, <1>7, <1>9
<1>11. Spares(heap, F, Lists, AddRule(s1, sy, y))
  BY <1>4, <1>8, <1>10
<1>12. Spares(heap, Protected, Lists, s2)
  BY <1>2, <1>6, <1>7, <1>11
<1>13. Becomes(s2)
  BY <1>2, <1>5, <1>6 DEF Rename
<1>14. QED
  BY <1>1, <1>12, <1>13, OptionStep

LEMMA RenameResetStep ==
  ASSUME Inv, RenameReset
  PROVE  Inv' /\ Settled
<1>1. Parsing /\ Item.op # "for"
  BY DEF RenameReset, Option
<1>2. PICK old, c : old = Target /\ c = [Target EXCEPT !.lists = Cleared(@)]
  OBVIOUS
<1>3. Spares(heap, Protected, Lists, State(heap, old)) /\ Holds(old, Len(heap))
  BY <1>1, <1>2, TargetSpares DEF Spares, IsState, State
<1>4. "lists" \in DOMAIN c /\ c.lists = Cleared(old.lists)
  BY <1>2, <1>3 DEF Holds
<1>5. /\ DOMAIN c.lists = Lists
      /\ \A l \in Lists : c.lists[l] = NilSlice \/ c.lists[l] = old.lists[l]
  BY <1>4 DEF Cleared
<1>6. Len(heap) \in Nat /\ Protected \in SUBSET (1 .. Len(heap)) /\ IsSeq(heap)
  BY ProtectedHeap DEF Inv, Kept
<1>7. IsSlice(NilSlice, Len(heap)) /\ NilSlice.arr \notin Protected
  BY <1>6 DEF IsSlice, NilSlice
<1>8. Holds(c, Len(heap))
  BY <1>3, <1>4, <1>5, <1>7 DEF Holds
<1>9. \A l \in Lists : c.lists[l].arr \notin Protected
  BY <1>3, <1>5, <1>7 DEF Spares, State
<1>10. PICK st : st = State(heap, c)
  OBVIOUS
<1>11. Spares(heap, Protected, Lists, st)
  BY <1>6, <1>8, <1>9, <1>10 DEF Spares, IsState, State
<1>12. Becomes(st)
  BY <1>2, <1>10 DEF RenameReset, Sets
<1>13. QED
  BY <1>1, <1>11, <1>12, OptionStep

(* The options that are no rules. *)
LEMMA OtherStep ==
  ASSUME Inv, ParseOption, ~Rename, ~RenameReset
  PROVE  Inv' /\ Settled
<1> USE DEF Option
<1>1. ASSUME Parsing, Item.op # "for", NEW c, Sets(c), "lists" \in DOMAIN Target => "lists" \in DOMAIN c,
             "lists" \in DOMAIN Target => c.lists = Target.lists
      PROVE  Inv' /\ Settled
  BY <1>1, SetsStep, TargetSpares
<1>2. CASE ImportFunc
  <2>1. PICK c : c = [Target EXCEPT !.funcs = Append(@, [pair |-> Item.pair, i |-> at.i])]
    OBVIOUS
  <2>2. QED
    BY <1>1, <1>2, <2>1 DEF ImportFunc
<1>3. CASE ImportErrWrap
  <2>1. PICK c : c = [Target EXCEPT !.errWraps = Append(@, Item.wrap)]
    OBVIOUS
  <2>2. QED
    BY <1>1, <1>3, <2>1 DEF ImportErrWrap
<1>4. CASE ImportErrWrapReset
  <2>1. PICK c : c = [Target EXCEPT !.errWraps = <<>>]
    OBVIOUS
  <2>2. QED
    BY <1>1, <1>4, <2>1 DEF ImportErrWrapReset
<1>5. CASE DiscoverUnexported
  <2>1. PICK c : c = [Target EXCEPT !.unexported = [on |-> TRUE, x |-> Item.x, y |-> Item.y]]
    OBVIOUS
  <2>2. QED
    BY <1>1, <1>5, <2>1 DEF DiscoverUnexported
<1>6. CASE DiscoverGetters
  <2>1. PICK c : c = [Target EXCEPT !.getters = Item.affix]
    OBVIOUS
  <2>2. QED
    BY <1>1, <1>6, <2>1 DEF DiscoverGetters
<1>7. CASE DiscoverSetters
  <2>1. PICK c : c = [Target EXCEPT !.setters = Item.affix]
    OBVIOUS
  <2>2. QED
    BY <1>1, <1>7, <2>1 DEF DiscoverSetters
<1>8. CASE DiscoverFieldsOnly
  <2>1. PICK c : c = FieldsOnly(Target)
    OBVIOUS
  <2>2. "lists" \in DOMAIN Target => "lists" \in DOMAIN c /\ c.lists = Target.lists
    BY <2>1 DEF FieldsOnly
  <2>3. QED
    BY <1>1, <1>8, <2>1, <2>2 DEF DiscoverFieldsOnly
<1>9. CASE Match
  <2>1. PICK c : c = [Target EXCEPT !.match = Append(@, Item.pair)]
    OBVIOUS
  <2>2. QED
    BY <1>1, <1>9, <2>1 DEF Match
<1>10. CASE MatchFunc
  <2>1. CASE ~Target.matchFuncs.made
    BY <1>10, <2>1, PanicStep DEF MatchFunc
  <2>2. CASE Target.matchFuncs.made
    <3>1. PICK c : c = [Target EXCEPT
                         !.match = Append(@, Item.pair),
                         !.matchFuncs.of = [pair \in DOMAIN @ \cup {Item.pair} |->
                                              IF pair = Item.pair THEN Item.fn ELSE @[pair]]]
      OBVIOUS
    <3>2. Sets(c) /\ Parsing /\ Item.op # "for"
      BY <1>10, <2>2, <3>1 DEF MatchFunc
    <3>3. "lists" \in DOMAIN Target => "lists" \in DOMAIN c /\ c.lists = Target.lists
      BY <3>1
    <3>4. QED
      BY <1>1, <3>2, <3>3
  <2>3. QED
    BY <2>1, <2>2
<1>11. CASE MatchSkip
  <2>1. PICK c : c = [Target EXCEPT !.matchSkip = Append(@, Item.pair)]
    OBVIOUS
  <2>2. QED
    BY <1>1, <1>11, <2>1 DEF MatchSkip
<1>12. CASE DiscoverBySample
  <2>1. CASE Target.bySample.on
    <3>1. PICK what : what = "sample"
      OBVIOUS
    <3>2. Parsing /\ Item.op # "for" /\ Refused(what)
      BY <1>12, <2>1, <3>1 DEF DiscoverBySample
    <3>3. QED
      BY <3>2, RefusedStep
  <2>2. CASE ~Target.bySample.on
    <3>1. PICK c : c = [Target EXCEPT !.bySample = Sampled(Target)]
      OBVIOUS
    <3>2. QED
      BY <1>1, <1>12, <2>2, <3>1 DEF DiscoverBySample
  <2>3. QED
    BY <2>1, <2>2
<1>13. CASE DiscoverNested
  <2>1. CASE Wrong \in {Item.x, Item.y}
    BY <1>13, <2>1, PanicStep DEF DiscoverNested
  <2>2. CASE Wrong \notin {Item.x, Item.y}
    <3>1. PICK c : c = [Target EXCEPT !.nested =
                          [side \in Sides |-> IF Item[side] = Nil THEN @[side]
                                              ELSE Append(@[side], Item[side])]]
      OBVIOUS
    <3>2. Sets(c) /\ Parsing /\ Item.op # "for"
      BY <1>13, <2>2, <3>1 DEF DiscoverNested
    <3>3. "lists" \in DOMAIN Target => "lists" \in DOMAIN c /\ c.lists = Target.lists
      BY <3>1
    <3>4. QED
      BY <1>1, <3>2, <3>3
  <2>3. QED
    BY <2>1, <2>2
<1>14. QED
  BY <1>2, <1>3, <1>4, <1>5, <1>6, <1>7, <1>8, <1>9, <1>10, <1>11, <1>12, <1>13 DEF ParseOption

(* A qualifier starts with no rules, or goes on with those it has. *)
LEMMA QualifierStep ==
  ASSUME Inv, Qualifier
  PROVE  Inv' /\ Settled
<1>1. /\ Parsing /\ NextItem /\ UNCHANGED <<prog, heap, cfg, mods, injs, subs>>
      /\ fors' = [kind \in DOMAIN fors \cup {Item.kind} |->
                    IF kind \in DOMAIN fors THEN fors[kind] ELSE EmptyConfig]
  BY DEF Qualifier, Option
<1>2. Placed' /\ (Filling' => Filling)
  BY <1>1, NextPlaced
<1>3. Finished' = Finished /\ Protected' = Protected
  BY <1>1, SameFinished
<1>4. \A o \in Opened' : o \in Opened \/ o = EmptyConfig
  BY <1>1 DEF Opened
<1>5. Holds(EmptyConfig, Len(heap)) /\ \A l \in Lists : EmptyConfig.lists[l].arr \notin Protected
  BY EmptyHolds, ProtectedHeap DEF Inv, Protected
<1>6. Kept'
  BY <1>1, <1>3, <1>4, <1>5 DEF Inv, Kept
<1>7. Apart'
  <2>1. \A o \in Opened : \A l \in Lists : o.lists[l].arr \notin Protected
    BY <1>1, TargetOpened DEF Inv, Apart
  <2>2. QED
    BY <1>3, <1>4, <1>5, <2>1 DEF Apart
<1>8. Settled
  BY <1>1, <1>3, Unwritten DEF Settled
<1>9. QED
  BY <1>2, <1>6, <1>7, <1>8 DEF Inv

-----------------------------------------------------------------------------
(* Modules and directives *)

(* The lists of what is done, with one more. *)
LEMMA AppendList ==
  ASSUME NEW s, IsSeq(s), NEW e
  PROVE  /\ IsSeq(Append(s, e)) /\ Len(Append(s, e)) = Len(s) + 1
         /\ DOMAIN s = 1 .. Len(s) /\ DOMAIN Append(s, e) = 1 .. Len(s) + 1
         /\ \A j \in DOMAIN s : Append(s, e)[j] = s[j]
         /\ Append(s, e)[Len(s) + 1] = e
         /\ Len(s) \in Nat
<1>1. PICK S : s \in Seq(S)
  BY DEF IsSeq
<1>2. s \in Seq(S \cup {e}) /\ e \in S \cup {e}
  BY <1>1
<1>3. /\ Append(s, e) \in Seq(S \cup {e}) /\ Len(Append(s, e)) = Len(s) + 1
      /\ \A j \in 1 .. Len(s) : Append(s, e)[j] = s[j]
      /\ Append(s, e)[Len(s) + 1] = e
  BY <1>2, AppendProperties
<1>4. Len(s) \in Nat /\ DOMAIN s = 1 .. Len(s)
  BY <1>1
<1>5. DOMAIN Append(s, e) = 1 .. Len(s) + 1
  BY <1>3
<1>6. QED
  BY <1>3, <1>4, <1>5 DEF IsSeq

LEMMA BeginModuleStep ==
  ASSUME Inv, BeginModule
  PROVE  Inv' /\ Settled
<1>1. /\ at.phase = "module" /\ at.i = 0 /\ NextItem /\ UNCHANGED <<prog, heap, mods, injs, subs>>
      /\ cfg' = EmptyConfig /\ fors' = NoFors
  BY DEF BeginModule
<1>2. Finished' = Finished /\ Protected' = Protected
  BY <1>1, SameFinished
<1>3. \A o \in Opened' : o = EmptyConfig
  BY <1>1 DEF Opened, NoFors
<1>4. Holds(EmptyConfig, Len(heap)) /\ \A l \in Lists : EmptyConfig.lists[l].arr \notin Protected
  BY EmptyHolds, ProtectedHeap DEF Inv, Protected
<1>5. Placed'
  <2>1. /\ at'.phase = "module" /\ at'.n = at.n /\ at'.i = 1
        /\ at' = [phase |-> at'.phase, n |-> at'.n, i |-> at'.i]
    BY <1>1 DEF NextItem, Inv, Placed
  <2>2. 1 .. at'.i - 1 = {}
    BY <2>1
  <2>3. \A r \in DOMAIN prog.directives : AtDirective(prog, at', r) <=> AtDirective(prog, at, r)
    BY <2>1, <1>1 DEF AtDirective
  <2>4. QED
    BY <1>1, <2>1, <2>2, <2>3 DEF Inv, Placed
<1>6. Kept' /\ Apart'
  BY <1>1, <1>2, <1>3, <1>4 DEF Inv, Kept, Apart
<1>7. Settled
  BY <1>1, <1>2, Unwritten DEF Settled
<1>8. QED
  BY <1>5, <1>6, <1>7 DEF Inv

(* Where parsing goes on after a module: with the next one, or with the      *)
(* directive it was written in.                                              *)
LEMMA OwnerIs ==
  ASSUME Placed, at.phase = "module", at.n > prog.declared
  PROVE  Owner(at.n) \in DOMAIN prog.directives /\ AtDirective(prog, at, Owner(at.n))
<1>1. PICK n : n = at.n
  OBVIOUS
<1>2. \E d \in DOMAIN prog.directives : prog.directives[d].mod = n
  BY <1>1, InlinesAre DEF Placed
<1>3. /\ Owner(n) \in DOMAIN prog.directives /\ prog.directives[Owner(n)].mod = n
  BY <1>2 DEF Owner
<1>4. QED
  BY <1>1, <1>3 DEF AtDirective

LEMMA ModuleEnded ==
  ASSUME Placed, EndModule
  PROVE  /\ Placed' /\ ~Filling'
         /\ \A r \in DOMAIN prog.directives : AtDirective(prog, at', r) <=> AtDirective(prog, at, r)
<1>1. PICK n, D : n = at.n /\ D = DOMAIN mods
  OBVIOUS
<1>2. /\ at.phase = "module" /\ prog' = prog /\ fors' = fors /\ DOMAIN mods' = D \cup {n}
  BY <1>1 DEF EndModule
<1>10. /\ n < prog.declared => at' = [phase |-> "module", n |-> n + 1, i |-> 0]
       /\ ~(n < prog.declared) /\ n = prog.declared => at' = [phase |-> "injector", n |-> 1, i |-> 0]
       /\ ~(n < prog.declared) /\ n # prog.declared => at' = [phase |-> "injector", n |-> Owner(n), i |-> 0]
  <2>1. PICK a, b, o : a = at /\ b = at' /\ o = Owner(n)
    OBVIOUS
  <2>2. b = IF n < prog.declared THEN [a EXCEPT !.n = @ + 1, !.i = 0]
            ELSE [phase |-> "injector", n |-> IF n = prog.declared THEN 1 ELSE o, i |-> 0]
    BY <1>1, <2>1 DEF EndModule
  <2>3. /\ a = [phase |-> a.phase, n |-> a.n, i |-> a.i]
        /\ a.phase = "module" /\ a.n = n
    BY <1>1, <1>2, <2>1 DEF Placed
  <2>4. ASSUME n < prog.declared
        PROVE  b = [phase |-> "module", n |-> n + 1, i |-> 0]
    <3>1. b = [a EXCEPT !.n = @ + 1, !.i = 0]
      BY <2>2, <2>4
    <3>2. /\ b.phase = a.phase /\ b.n = a.n + 1 /\ b.i = 0
          /\ b = [phase |-> b.phase, n |-> b.n, i |-> b.i]
      BY <2>3, <3>1
    <3>3. QED
      BY <2>3, <3>2
  <2>5. QED
    BY <2>1, <2>2, <2>4
<1>3. /\ prog \in Programs /\ n \in DOMAIN prog.modules \ D /\ D \subseteq DOMAIN prog.modules
      /\ n <= prog.declared => D = 1 .. n - 1
      /\ n > prog.declared =>
           \A r \in DOMAIN prog.directives : AtDirective(prog, at, r) => Before(prog, D, r)
      /\ at = [phase |-> at.phase, n |-> n, i |-> at.i]
  BY <1>1, <1>2 DEF Placed
<1>4. /\ Len(prog.modules) \in Nat /\ DOMAIN prog.modules = 1 .. Len(prog.modules)
      /\ Len(prog.directives) \in Nat /\ DOMAIN prog.directives = 1 .. Len(prog.directives)
      /\ Len(prog.directives) >= 1 /\ prog.declared \in 0 .. Len(prog.modules)
      /\ \A d, e \in DOMAIN prog.directives :
           prog.directives[d].mod > prog.declared /\ prog.directives[e].mod = prog.directives[d].mod => d = e
  BY <1>3, InlinesAre
<1>5. n \in Nat /\ n >= 1
  BY <1>3, <1>4
<1>6. CASE n < prog.declared
  <2>1. at' = [phase |-> "module", n |-> n + 1, i |-> 0]
    BY <1>6, <1>10
  <2>2. DOMAIN mods' = 1 .. n
    BY <1>2, <1>3, <1>4, <1>5, <1>6
  <2>3. n + 1 \in DOMAIN prog.modules \ DOMAIN mods' /\ n + 1 <= prog.declared /\ n + 1 - 1 = n
    BY <1>4, <1>5, <1>6, <2>2
  <2>4. 1 .. 0 - 1 = {} /\ ~(n + 1 > prog.declared)
    BY <1>4, <1>5, <2>3
  <2>5. Placed'
    BY <1>2, <1>3, <2>1, <2>2, <2>3, <2>4 DEF Placed
  <2>6. \A r \in DOMAIN prog.directives : AtDirective(prog, at', r) <=> AtDirective(prog, at, r)
    BY <1>1, <1>2, <1>3, <1>4, <1>5, <1>6, <2>1, <2>3 DEF AtDirective
  <2>7. QED
    BY <2>1, <2>5, <2>6 DEF Filling
<1>7. CASE n = prog.declared
  <2>1. at' = [phase |-> "injector", n |-> 1, i |-> 0]
    BY <1>4, <1>5, <1>7, <1>10
  <2>2. DOMAIN mods' = 1 .. prog.declared
    BY <1>2, <1>3, <1>4, <1>5, <1>7
  <2>3. Before(prog, DOMAIN mods', 1)
    BY <1>4, <2>2 DEF Before
  <2>4. 1 \in 1 .. Len(prog.directives) /\ DOMAIN mods' \subseteq DOMAIN prog.modules
    BY <1>4, <2>2
  <2>5. Placed'
    <3>1. /\ prog' \in Programs /\ at'.phase = "injector" /\ at'.n = 1 /\ at'.i = 0
          /\ at' = [phase |-> at'.phase, n |-> at'.n, i |-> at'.i]
          /\ DOMAIN mods' \subseteq DOMAIN prog'.modules
      BY <1>2, <1>3, <2>1, <2>4
    <3>2. at'.n \in 1 .. Len(prog'.directives) /\ Before(prog', DOMAIN mods', at'.n)
      BY <1>2, <2>3, <2>4, <3>1
    <3>3. QED
      BY <3>1, <3>2 DEF Placed
  <2>6. \A r \in DOMAIN prog.directives : AtDirective(prog, at', r) <=> AtDirective(prog, at, r)
    BY <1>1, <1>2, <1>4, <1>5, <1>7, <2>1 DEF AtDirective
  <2>7. QED
    BY <2>1, <2>5, <2>6 DEF Filling
<1>8. CASE n > prog.declared
  <2>1. PICK o : o = Owner(n)
    OBVIOUS
  <2>2. o \in DOMAIN prog.directives /\ AtDirective(prog, at, o)
    BY <1>1, <1>2, <1>8, <2>1, OwnerIs
  <2>3. at' = [phase |-> "injector", n |-> o, i |-> 0]
    BY <1>4, <1>5, <1>8, <1>10, <2>1
  <2>4. Before(prog, D, o)
    BY <1>3, <1>8, <2>2
  <2>5. Before(prog, DOMAIN mods', o)
    BY <1>2, <2>4 DEF Before
  <2>6. o \in 1 .. Len(prog.directives) /\ DOMAIN mods' \subseteq DOMAIN prog.modules
    BY <1>2, <1>3, <1>4, <2>2
  <2>7. Placed'
    <3>1. /\ prog' \in Programs /\ at'.phase = "injector" /\ at'.n = o /\ at'.i = 0
          /\ at' = [phase |-> at'.phase, n |-> at'.n, i |-> at'.i]
          /\ DOMAIN mods' \subseteq DOMAIN prog'.modules
      BY <1>2, <1>3, <2>3, <2>6
    <3>2. at'.n \in 1 .. Len(prog'.directives) /\ Before(prog', DOMAIN mods', at'.n)
      BY <1>2, <2>5, <2>6, <3>1
    <3>3. QED
      BY <3>1, <3>2 DEF Placed
  <2>8. prog.directives[o].mod = n
    BY <1>1, <1>2, <1>4, <1>5, <1>8, <2>2 DEF AtDirective
  <2>9. \A r \in DOMAIN prog.directives : prog.directives[r].mod = n <=> r = o
    BY <1>4, <1>8, <2>2, <2>8
  <2>10. \A r \in DOMAIN prog.directives : AtDirective(prog, at', r) <=> AtDirective(prog, at, r)
    BY <1>1, <1>2, <1>4, <1>5, <1>8, <2>3, <2>9 DEF AtDirective
  <2>11. QED
    BY <2>3, <2>7, <2>10 DEF Filling
<1>9. QED
  BY <1>4, <1>5, <1>6, <1>7, <1>8

LEMMA EndModuleStep ==
  ASSUME Inv, EndModule
  PROVE  Inv' /\ Settled
<1>1. PICK n, m : n = at.n /\ m = [cfg |-> cfg, fors |-> fors, known |-> {cfg.funcs[k].pair : k \in DOMAIN cfg.funcs}]
  OBVIOUS
<1>2. /\ at.phase = "module" /\ mods' = [j \in DOMAIN mods \cup {n} |-> IF j = n THEN m ELSE mods[j]]
      /\ UNCHANGED <<prog, heap, cfg, fors, injs, subs>>
  BY <1>1 DEF EndModule
<1>3. /\ DOMAIN mods' = DOMAIN mods \cup {n} /\ n \notin DOMAIN mods
      /\ \A j \in DOMAIN mods : mods'[j] = mods[j]
      /\ mods'[n] = m
  BY <1>1, <1>2 DEF Inv, Placed
<1>4. Configs(m) = Opened
  BY <1>1 DEF Configs, Opened
<1>5. /\ Finished \subseteq Finished' /\ Finished' \subseteq Finished \cup Opened /\ Opened' = Opened
  BY <1>2, <1>3, <1>4 DEF Finished, Opened
<1>6. Placed' /\ ~Filling'
  BY ModuleEnded DEF Inv
<1>7. Kept'
  <2>1. \A c \in Finished' \cup Opened' : Holds(c, Len(heap'))
    BY <1>2, <1>5 DEF Inv, Kept
  <2>2. ASSUME NEW j \in DOMAIN mods'
        PROVE  mods'[j] = [cfg |-> mods'[j].cfg, fors |-> mods'[j].fors, known |-> mods'[j].known]
    <3>1. CASE j \in DOMAIN mods
      BY <1>3, <3>1 DEF Inv, Kept
    <3>2. CASE j = n
      BY <1>1, <1>3, <3>2
    <3>3. QED
      BY <1>3, <2>2, <3>1, <3>2
  <2>3. QED
    BY <1>2, <2>1, <2>2 DEF Inv, Kept
<1>8. Settled
  BY <1>2, <1>5, Unwritten DEF Settled
<1>9. QED
  BY <1>6, <1>7, <1>8 DEF Inv, Apart

LEMMA NextDirectivePlaced ==
  ASSUME Placed, at.phase = "injector", NEW reported, NextDirective(reported),
         UNCHANGED prog, DOMAIN mods' = DOMAIN mods, Directive.mod \in Modules
  PROVE  Placed' /\ ~Filling'
<1>1. PICK n, D, d : n = at.n /\ D = DOMAIN mods /\ d = Directive
  OBVIOUS
<1>2. /\ prog \in Programs /\ D \subseteq DOMAIN prog.modules /\ n \in 1 .. Len(prog.directives)
      /\ Before(prog, D, n) /\ d.mod \in {0} \cup D /\ d = prog.directives[n]
  BY <1>1 DEF Placed, Modules, Directive
<1>3. /\ Len(prog.directives) \in Nat /\ DOMAIN prog.directives = 1 .. Len(prog.directives)
      /\ Len(prog.modules) \in Nat /\ DOMAIN prog.modules = 1 .. Len(prog.modules)
      /\ prog.declared \in 0 .. Len(prog.modules)
      /\ \A m \in DOMAIN prog.modules : m > prog.declared =>
           \E e \in DOMAIN prog.directives : prog.directives[e].mod = m
  BY <1>2, InlinesAre
<1>4. \A e \in DOMAIN prog.directives : e < n + 1 => e < n \/ e = n
  BY <1>2, <1>3
<1>5. Before(prog, D, n + 1)
  BY <1>2, <1>4 DEF Before
<1>6. CASE n < Len(prog.directives)
  <2>1. at' = [phase |-> "injector", n |-> n + 1, i |-> 0]
    BY <1>1, <1>6 DEF NextDirective, Placed
  <2>2. n + 1 \in 1 .. Len(prog.directives)
    BY <1>2, <1>3, <1>6
  <2>3. QED
    BY <1>1, <1>2, <1>5, <2>1, <2>2 DEF Placed, Filling
<1>7. CASE ~(n < Len(prog.directives))
  <2>1. /\ at'.phase \in {"build", "done"} /\ at'.n = 1 /\ at'.i = 0
        /\ at' = [phase |-> at'.phase, n |-> at'.n, i |-> at'.i]
    BY <1>1, <1>7 DEF NextDirective
  <2>2. n = Len(prog.directives) /\ 1 \in 1 .. Len(prog.directives)
    BY <1>2, <1>3, <1>7
  <2>3. \A e \in DOMAIN prog.directives : prog.directives[e].mod \in {0} \cup D
    BY <1>3, <1>5, <2>2 DEF Before
  <2>4. ASSUME NEW m \in DOMAIN prog.modules PROVE m \in D
    <3>1. CASE m <= prog.declared
      BY <1>3, <1>5, <3>1 DEF Before
    <3>2. CASE m > prog.declared
      BY <1>3, <2>3, <3>2
    <3>3. QED
      BY <1>3, <3>1, <3>2
  <2>5. DOMAIN mods' = DOMAIN prog.modules
    BY <1>1, <1>2, <2>4
  <2>6. QED
    BY <1>1, <1>2, <2>1, <2>2, <2>5 DEF Placed, Filling
<1>8. QED
  BY <1>6, <1>7

(* A broken directive has no module of its own. *)
LEMMA BrokenModule ==
  ASSUME Placed, at.phase = "injector", Directive.broken
  PROVE  Directive.mod \in Modules
<1>1. PICK n, d : n = at.n /\ d = Directive
  OBVIOUS
<1>2. /\ prog \in Programs /\ n \in 1 .. Len(prog.directives) /\ d = prog.directives[n]
      /\ 1 .. prog.declared \subseteq DOMAIN mods
  BY <1>1 DEF Placed, Directive, Before
<1>3. d.mod \in 0 .. Len(prog.modules) /\ d.mod <= prog.declared /\ Len(prog.modules) \in Nat
      /\ prog.declared \in 0 .. Len(prog.modules)
  BY <1>1, <1>2, InlinesAre
<1>4. d.mod = 0 \/ d.mod \in 1 .. prog.declared
  BY <1>3
<1>5. QED
  BY <1>1, <1>2, <1>4 DEF Modules

LEMMA SkipInjectorStep ==
  ASSUME Inv, SkipInjector
  PROVE  Inv' /\ Settled
<1>1. PICK reported : reported = errs'
  OBVIOUS
<1>2. /\ at.phase = "injector" /\ NextDirective(reported) /\ Directive.broken
      /\ UNCHANGED <<prog, heap, cfg, fors, mods, injs, subs>>
  BY <1>1 DEF SkipInjector
<1>3. Placed' /\ ~Filling'
  BY <1>2, NextDirectivePlaced, BrokenModule DEF Inv
<1>4. QED
  BY <1>2, <1>3, IdleStep

LEMMA AbandonInjectorStep ==
  ASSUME Inv, AbandonInjector
  PROVE  Inv' /\ Settled
<1>1. PICK reported : reported = errs
  OBVIOUS
<1>2. /\ at.phase = "injector" /\ NextDirective(reported) /\ Directive.mod \in Modules
      /\ UNCHANGED <<prog, heap, cfg, fors, mods, injs, subs>>
  BY <1>1 DEF AbandonInjector, ToParse
<1>3. Placed' /\ ~Filling'
  BY <1>2, NextDirectivePlaced DEF Inv
<1>4. QED
  BY <1>2, <1>3, IdleStep

LEMMA InlineBegun ==
  ASSUME Placed, BeginInline
  PROVE  /\ Placed' /\ ~Filling' /\ Directive.mod > prog.declared
         /\ \A r \in DOMAIN prog.directives : AtDirective(prog, at', r) <=> AtDirective(prog, at, r)
<1>1. PICK n, m, D : n = at.n /\ m = Directive.mod /\ D = DOMAIN mods
  OBVIOUS
<1>2. /\ at.phase = "injector" /\ m \notin {0} \cup D /\ at' = [phase |-> "module", n |-> m, i |-> 0]
      /\ UNCHANGED <<prog, fors, mods>>
  BY <1>1 DEF BeginInline, ToParse, Modules
<1>3. /\ prog \in Programs /\ D \subseteq DOMAIN prog.modules /\ n \in 1 .. Len(prog.directives)
      /\ Before(prog, D, n) /\ m = prog.directives[n].mod
  BY <1>1, <1>2 DEF Placed, Directive
<1>4. /\ Len(prog.directives) \in Nat /\ DOMAIN prog.directives = 1 .. Len(prog.directives)
      /\ Len(prog.modules) \in Nat /\ DOMAIN prog.modules = 1 .. Len(prog.modules)
      /\ prog.declared \in 0 .. Len(prog.modules) /\ m \in 0 .. Len(prog.modules)
      /\ \A e \in DOMAIN prog.directives : m > prog.declared /\ prog.directives[e].mod = m => e = n
  BY <1>3, InlinesAre
<1>5. m \in DOMAIN prog.modules \ D /\ m > prog.declared /\ ~(m <= prog.declared) /\ m # 0
  BY <1>2, <1>3, <1>4 DEF Before
<1>6. \A r \in DOMAIN prog.directives : prog.directives[r].mod = m <=> r = n
  BY <1>3, <1>4, <1>5
<1>7. \A r \in DOMAIN prog.directives :
        AtDirective(prog, at', r) <=> r = n
  BY <1>2, <1>5, <1>6 DEF AtDirective
<1>8. \A r \in DOMAIN prog.directives : AtDirective(prog, at, r) <=> r = n
  BY <1>1, <1>2 DEF AtDirective
<1>9. 1 .. 0 - 1 = {}
  OBVIOUS
<1>10. Placed'
  BY <1>1, <1>2, <1>3, <1>5, <1>7, <1>9 DEF Placed
<1>11. QED
  BY <1>1, <1>2, <1>5, <1>7, <1>8, <1>10 DEF Filling

LEMMA BeginInlineStep ==
  ASSUME Inv, BeginInline
  PROVE  Inv' /\ Settled
<1>1. UNCHANGED <<heap, cfg, fors, mods, injs, subs>>
  BY DEF BeginInline
<1>2. Placed' /\ ~Filling'
  BY InlineBegun DEF Inv
<1>3. QED
  BY <1>1, <1>2, IdleStep

(* The module of a directive has been parsed, or is none. *)
LEMMA ModuleHeld ==
  ASSUME Inv, Directive.mod \in Modules
  PROVE  Holds(ModuleOf(Directive).cfg, Len(heap))
<1>1. Len(heap) \in Nat
  BY ProtectedHeap DEF Inv
<1>2. PICK d : d = Directive
  OBVIOUS
<1>3. CASE d.mod = 0
  BY <1>1, <1>2, <1>3, EmptyHolds DEF ModuleOf, NilModule
<1>4. CASE d.mod # 0
  <2>1. PICK m : m = d.mod
    OBVIOUS
  <2>2. m \in DOMAIN mods
    BY <1>2, <1>4, <2>1 DEF Modules
  <2>3. mods[m].cfg \in Finished
    BY <2>2 DEF Finished, Configs
  <2>4. Holds(mods[m].cfg, Len(heap))
    BY <2>3 DEF Inv, Kept
  <2>5. QED
    BY <1>2, <1>4, <2>1, <2>4 DEF ModuleOf
<1>5. QED
  BY <1>3, <1>4

(* The module of a directive that is parsed, or built, is there. *)
LEMMA ModuleThere ==
  ASSUME Placed, at.phase = "build" \/ (at.phase = "injector" /\ at.i # 0)
  PROVE  Directive.mod \in Modules
<1>1. PICK n, d : n = at.n /\ d = Directive
  OBVIOUS
<1>2. /\ prog \in Programs /\ n \in 1 .. Len(prog.directives) /\ d = prog.directives[n]
  BY <1>1 DEF Placed, Directive
<1>3. CASE at.phase = "injector" /\ at.i # 0
  BY <1>1, <1>2, <1>3 DEF Placed, Modules
<1>4. CASE at.phase = "build"
  <2>1. DOMAIN mods = DOMAIN prog.modules
    BY <1>4 DEF Placed
  <2>2. d.mod \in 0 .. Len(prog.modules) /\ DOMAIN prog.modules = 1 .. Len(prog.modules)
        /\ Len(prog.modules) \in Nat
    BY <1>2, InlinesAre
  <2>3. QED
    BY <1>1, <2>1, <2>2 DEF Modules
<1>5. QED
  BY <1>3, <1>4

(* A fork is made with no write to what there is. *)
LEMMA ForkForStep ==
  ASSUME Inv, Directive.mod \in Modules, NEW kind, NEW st,
         st = ForkFor(kind, ModuleOf(Directive)), heap' = st.heap
  PROVE  /\ IsSeq(heap') /\ Len(heap) \in Nat /\ Len(heap') \in Nat /\ Len(heap) <= Len(heap')
         /\ Holds(st.cfg, Len(heap'))
         /\ \A l \in Lists : st.cfg.lists[l].arr \notin Protected
         /\ \A c \in Finished : RulesStay(c)
         /\ \A c \in Finished \cup Opened : Holds(c, Len(heap'))
<1>1. PICK mod : mod = ModuleOf(Directive)
  OBVIOUS
<1>2. IsSeq(heap) /\ Holds(mod.cfg, Len(heap)) /\ Len(heap) \in Nat
  BY <1>1, ModuleHeld, ProtectedHeap DEF Inv, Kept
<1>3. Spares(heap, 1 .. Len(heap), Lists, ForkFor(kind, mod))
  BY <1>2, ForkForSpares
<1>4. Spares(heap, 1 .. Len(heap), Lists, st)
  BY <1>1, <1>3
<1>5. /\ IsSeq(heap') /\ Len(heap') \in Nat /\ Len(heap) <= Len(heap')
      /\ Holds(st.cfg, Len(heap'))
  BY <1>2, <1>4, HeapLen DEF Spares, IsState
<1>6. Protected \subseteq 1 .. Len(heap)
  BY ProtectedHeap DEF Inv
<1>7. \A l \in Lists : st.cfg.lists[l].arr \notin Protected
  BY <1>4, <1>6 DEF Spares
<1>8. \A j \in Protected : heap'[j] = heap[j]
  BY <1>4, <1>6 DEF Spares
<1>9. \A c \in Finished \cup Opened : Holds(c, Len(heap'))
  BY <1>2, <1>5, HoldsMore DEF Inv, Kept
<1>10. QED
  BY <1>2, <1>5, <1>7, <1>8, <1>9, Unwritten

LEMMA BeginInjectorStep ==
  ASSUME Inv, BeginInjector
  PROVE  Inv' /\ Settled
<1>1. PICK kind, st : kind = Directive.kind /\ st = ForkFor(kind, ModuleOf(Directive))
  OBVIOUS
<1>2. /\ at.phase = "injector" /\ at.i = 0 /\ NextItem /\ UNCHANGED <<prog, mods, injs, subs>>
      /\ heap' = st.heap /\ fors' = NoFors /\ Directive.mod \in Modules
      /\ cfg' = [st.cfg EXCEPT !.bySample.x = Own, !.bySample.y = Own]
  BY <1>1 DEF BeginInjector, ToParse
<1>3. /\ IsSeq(heap') /\ Len(heap) \in Nat /\ Len(heap') \in Nat /\ Len(heap) <= Len(heap')
      /\ Holds(st.cfg, Len(heap'))
      /\ \A l \in Lists : st.cfg.lists[l].arr \notin Protected
      /\ \A c \in Finished : RulesStay(c)
      /\ \A c \in Finished \cup Opened : Holds(c, Len(heap'))
  BY <1>1, <1>2, ForkForStep
<1>4. cfg'.lists = st.cfg.lists /\ "lists" \in DOMAIN cfg'
  BY <1>2, <1>3 DEF Holds
<1>5. Opened' = {cfg'}
  BY <1>2 DEF Opened, NoFors
<1>6. Holds(cfg', Len(heap'))
  BY <1>3, <1>4 DEF Holds
<1>7. Finished' = Finished /\ Protected' = Protected
  BY <1>2, SameFinished
<1>8. Placed'
  <2>1. /\ at'.phase = "injector" /\ at'.n = at.n /\ at'.i = 1
        /\ at' = [phase |-> at'.phase, n |-> at'.n, i |-> at'.i]
    BY <1>2 DEF NextItem, Inv, Placed
  <2>2. prog.directives[at.n].mod \in {0} \cup DOMAIN mods
    BY <1>2 DEF Directive, Modules
  <2>3. QED
    BY <1>2, <2>1, <2>2 DEF Inv, Placed
<1>9. Kept'
  BY <1>2, <1>3, <1>5, <1>6, <1>7 DEF Inv, Kept
<1>10. Apart'
  BY <1>3, <1>4, <1>5, <1>7 DEF Apart
<1>11. QED
  BY <1>3, <1>7, <1>8, <1>9, <1>10 DEF Inv, Settled

(* At the end of its options a directive has begun. *)
LEMMA ParsedInjector ==
  ASSUME Placed, at.phase = "injector", at.i = Len(Items) + 1
  PROVE  at.i # 0
<1>1. PICK n, opts : n = at.n /\ opts = Items
  OBVIOUS
<1>2. prog \in Programs /\ n \in 1 .. Len(prog.directives) /\ opts = prog.directives[n].opts
  BY <1>1 DEF Placed, Items
<1>3. DOMAIN prog.directives = 1 .. Len(prog.directives)
  BY <1>2, InlinesAre
<1>4. IsList(opts)
  BY <1>2, <1>3, ProgramsAssumption
<1>5. Len(opts) \in Nat
  BY <1>4, ListIs
<1>6. QED
  BY <1>1, <1>5

LEMMA EndInjectorStep ==
  ASSUME Inv, EndInjector
  PROVE  Inv' /\ Settled
<1>1. PICK inj, d, reported : /\ inj = [n |-> at.n, cfg |-> cfg] /\ d = Directive.mod
                              /\ reported = errs'
  OBVIOUS
<1>2. /\ at.phase = "injector" /\ at.i = Len(Items) + 1
      /\ injs' = Append(injs, inj) /\ NextDirective(reported)
      /\ mods' = IF d = 0 THEN mods
                 ELSE [mods EXCEPT ![d].known = @ \cup {Directive.pair}]
      /\ UNCHANGED <<prog, heap, cfg, fors, subs>>
  BY <1>1 DEF EndInjector
<1>3. /\ IsSeq(injs') /\ DOMAIN injs = 1 .. Len(injs) /\ DOMAIN injs' = 1 .. Len(injs) + 1
      /\ \A j \in DOMAIN injs : injs'[j] = injs[j]
      /\ injs'[Len(injs) + 1] = inj /\ Len(injs) \in Nat
  BY <1>2, AppendList DEF Inv, Kept
<1>4. /\ \A m \in DOMAIN mods : mods[m] = [cfg |-> mods[m].cfg, fors |-> mods[m].fors, known |-> mods[m].known]
  BY DEF Inv, Kept
<1>5. /\ DOMAIN mods' = DOMAIN mods
      /\ \A m \in DOMAIN mods :
           /\ mods'[m].cfg = mods[m].cfg /\ mods'[m].fors = mods[m].fors
           /\ mods'[m] = [cfg |-> mods'[m].cfg, fors |-> mods'[m].fors, known |-> mods'[m].known]
  <2>1. CASE d = 0
    BY <1>2, <1>4, <2>1
  <2>2. CASE d # 0
    <3>1. mods' = [mods EXCEPT ![d].known = @ \cup {Directive.pair}]
      BY <1>2, <2>2
    <3>2. /\ DOMAIN mods' = DOMAIN mods
          /\ \A m \in DOMAIN mods : m # d => mods'[m] = mods[m]
          /\ d \in DOMAIN mods =>
               mods'[d] = [mods[d] EXCEPT !.known = mods[d].known \cup {Directive.pair}]
      BY <3>1
    <3>3. ASSUME d \in DOMAIN mods
          PROVE  mods'[d] = [cfg |-> mods[d].cfg, fors |-> mods[d].fors,
                             known |-> mods[d].known \cup {Directive.pair}]
      <4>1. PICK c, f, k, e : /\ c = mods[d].cfg /\ f = mods[d].fors /\ k = mods[d].known
                              /\ e = k \cup {Directive.pair}
        OBVIOUS
      <4>2. mods[d] = [cfg |-> c, fors |-> f, known |-> k]
        BY <1>4, <3>3, <4>1
      <4>3. mods'[d] = [mods[d] EXCEPT !.known = e]
        BY <3>2, <3>3, <4>1
      <4>4. QED
        BY <4>1, <4>2, <4>3
    <3>4. QED
      BY <1>4, <3>2, <3>3
  <2>3. QED
    BY <2>1, <2>2
<1>6. Directive.mod \in Modules
  <2>1. at.i # 0
    BY <1>2, ParsedInjector DEF Inv
  <2>2. QED
    BY <1>2, <2>1, ModuleThere DEF Inv
<1>7. \A m \in DOMAIN mods : Configs(mods'[m]) = Configs(mods[m])
  BY <1>5 DEF Configs
<1>8. /\ Finished \subseteq Finished' /\ Finished' \subseteq Finished \cup Opened /\ Opened' = Opened
  <2>1. (UNION {Configs(mods[m]) : m \in DOMAIN mods})' = UNION {Configs(mods[m]) : m \in DOMAIN mods}
    BY <1>5, <1>7
  <2>2. /\ {injs[k].cfg : k \in DOMAIN injs} \subseteq {injs'[k].cfg : k \in DOMAIN injs'}
        /\ {injs'[k].cfg : k \in DOMAIN injs'} \subseteq {injs[k].cfg : k \in DOMAIN injs} \cup {cfg}
    BY <1>1, <1>3
  <2>3. {subs[k].cfg : k \in DOMAIN subs}' = {subs[k].cfg : k \in DOMAIN subs}
    BY <1>2
  <2>4. cfg \in Opened /\ Opened' = Opened
    BY <1>2 DEF Opened
  <2>5. QED
    BY <2>1, <2>2, <2>3, <2>4 DEF Finished
<1>9. Placed' /\ ~Filling'
  BY <1>2, <1>5, <1>6, NextDirectivePlaced DEF Inv
<1>10. Kept'
  <2>1. \A c \in Finished' \cup Opened' : Holds(c, Len(heap'))
    BY <1>2, <1>8 DEF Inv, Kept
  <2>2. IsSeq(heap') /\ IsSeq(injs') /\ IsSeq(subs')
    BY <1>2, <1>3 DEF Inv, Kept
  <2>3. QED
    BY <1>5, <2>1, <2>2 DEF Kept
<1>11. Settled
  BY <1>2, <1>8, Unwritten DEF Settled
<1>12. QED
  BY <1>9, <1>10, <1>11 DEF Inv, Apart

LEMMA ForkForSubconvStep ==
  ASSUME Inv, ForkForSubconv
  PROVE  Inv' /\ Settled
<1>1. PICK kind, st, sub : /\ kind = "struct" /\ st = ForkFor(kind, ModuleOf(Directive))
                           /\ sub = [n |-> at.n, cfg |-> st.cfg]
  OBVIOUS
<1>2. /\ at.phase = "build" /\ heap' = st.heap /\ subs' = Append(subs, sub)
      /\ at' = IF at.n < Len(prog.directives) THEN [at EXCEPT !.n = @ + 1]
               ELSE [at EXCEPT !.phase = "done"]
      /\ UNCHANGED <<prog, cfg, fors, mods, injs>>
  BY <1>1 DEF ForkForSubconv
<1>3. /\ IsSeq(heap') /\ Len(heap) \in Nat /\ Len(heap') \in Nat /\ Len(heap) <= Len(heap')
      /\ Holds(st.cfg, Len(heap'))
      /\ \A c \in Finished : RulesStay(c)
      /\ \A c \in Finished \cup Opened : Holds(c, Len(heap'))
  BY <1>1, <1>2, ForkForStep, ModuleThere DEF Inv
<1>4. /\ IsSeq(subs') /\ DOMAIN subs = 1 .. Len(subs) /\ DOMAIN subs' = 1 .. Len(subs) + 1
      /\ \A j \in DOMAIN subs : subs'[j] = subs[j]
      /\ subs'[Len(subs) + 1] = sub /\ Len(subs) \in Nat
  BY <1>2, AppendList DEF Inv, Kept
<1>5. Finished \subseteq Finished' /\ Finished' \subseteq Finished \cup {st.cfg} /\ Opened' = Opened
  <2>1. /\ {subs[k].cfg : k \in DOMAIN subs} \subseteq {subs'[k].cfg : k \in DOMAIN subs'}
        /\ {subs'[k].cfg : k \in DOMAIN subs'} \subseteq {subs[k].cfg : k \in DOMAIN subs} \cup {st.cfg}
    BY <1>1, <1>4
  <2>2. /\ (UNION {Configs(mods[m]) : m \in DOMAIN mods})' = UNION {Configs(mods[m]) : m \in DOMAIN mods}
        /\ {injs[k].cfg : k \in DOMAIN injs}' = {injs[k].cfg : k \in DOMAIN injs}
    BY <1>2
  <2>3. Opened' = Opened
    BY <1>2 DEF Opened
  <2>4. QED
    BY <2>1, <2>2, <2>3 DEF Finished
<1>6. Placed' /\ ~Filling'
  <2>1. /\ at'.phase \in {"build", "done"} /\ at'.i \in Nat
        /\ at' = [phase |-> at'.phase, n |-> at'.n, i |-> at'.i]
        /\ at'.phase = "build" => at'.n = at.n + 1 /\ at.n < Len(prog.directives)
    BY <1>2 DEF Inv, Placed
  <2>2. /\ Len(prog.directives) \in Nat /\ at.n \in 1 .. Len(prog.directives)
        /\ DOMAIN mods = DOMAIN prog.modules
    BY <1>2, ProgramsAre DEF Inv, Placed
  <2>3. QED
    BY <1>2, <2>1, <2>2 DEF Inv, Placed, Filling
<1>7. Kept'
  <2>1. \A c \in Finished' \cup Opened' : Holds(c, Len(heap'))
    BY <1>3, <1>5
  <2>2. QED
    BY <1>2, <1>3, <1>4, <2>1 DEF Inv, Kept
<1>8. QED
  BY <1>3, <1>5, <1>6, <1>7 DEF Inv, Apart, Settled

-----------------------------------------------------------------------------
LEMMA EmptyIsSeq == IsSeq(<<>>)
<1>1. <<>> \in Seq({})
  OBVIOUS
<1>2. QED
  BY <1>1 DEF IsSeq

LEMMA InvInit ==
  ASSUME Init
  PROVE  Inv
<1>1. Finished = {} /\ Opened = {EmptyConfig}
  BY DEF Init, Finished, Opened, NoFors
<1>2. ~Filling /\ Len(heap) \in Nat
  BY DEF Init, Filling
<1>3. /\ Len(prog.modules) \in Nat /\ DOMAIN prog.modules = 1 .. Len(prog.modules)
      /\ Len(prog.directives) \in Nat /\ DOMAIN prog.directives = 1 .. Len(prog.directives)
      /\ prog.directives # <<>>
  BY ProgramsAssumption DEF Init, IsList
<1>4. Placed
  <2>1. /\ prog \in Programs /\ DOMAIN mods = {}
        /\ at = [phase |-> IF prog.declared = 0 THEN "injector" ELSE "module", n |-> 1, i |-> 0]
    BY DEF Init
  <2>2. /\ prog.declared \in 0 .. Len(prog.modules) /\ Len(prog.directives) >= 1
    BY <2>1, InlinesAre
  <2>3. 1 .. 0 - 1 = {} /\ 1 .. 1 - 1 = {} /\ 1 .. 0 = {}
    OBVIOUS
  <2>4. CASE prog.declared = 0
    <3>1. Before(prog, DOMAIN mods, 1)
      BY <1>3, <2>1, <2>3, <2>4 DEF Before
    <3>2. QED
      BY <1>3, <2>1, <2>2, <2>4, <3>1 DEF Placed
  <2>5. CASE prog.declared # 0
    <3>1. 1 \in DOMAIN prog.modules /\ 1 <= prog.declared /\ ~(1 > prog.declared)
      BY <1>3, <2>2, <2>5
    <3>2. QED
      BY <2>1, <2>3, <2>5, <3>1 DEF Placed
  <2>6. QED
    BY <2>4, <2>5
<1>5. Kept
  BY <1>1, <1>2, EmptyIsSeq, EmptyHolds DEF Init, Kept
<1>6. QED
  BY <1>2, <1>4, <1>5 DEF Inv, Apart

LEMMA InvNext ==
  ASSUME Inv, [Next]_vars
  PROVE  Inv' /\ Settled
<1>1. CASE BeginModule
  BY <1>1, BeginModuleStep
<1>2. CASE EndModule
  BY <1>2, EndModuleStep
<1>3. CASE Qualifier
  BY <1>3, QualifierStep
<1>4. CASE BadOption
  <2>1. PICK what : what = "option"
    OBVIOUS
  <2>2. Parsing /\ Item.op # "for" /\ Refused(what)
    BY <1>4, <2>1 DEF BadOption, Option
  <2>3. QED
    BY <2>2, RefusedStep
<1>5. CASE ParseOption
  BY <1>5, RenameStep, RenameResetStep, OtherStep
<1>6. CASE SkipInjector
  BY <1>6, SkipInjectorStep
<1>7. CASE BeginInjector
  BY <1>7, BeginInjectorStep
<1>8. CASE EndInjector
  BY <1>8, EndInjectorStep
<1>9. CASE ForkForSubconv
  BY <1>9, ForkForSubconvStep
<1>10. CASE BeginInline
  BY <1>10, BeginInlineStep
<1>11. CASE AbandonInjector
  BY <1>11, AbandonInjectorStep
<1>12. CASE UNCHANGED vars
  <2>1. UNCHANGED <<prog, at, heap, cfg, fors, mods, injs, subs>>
    BY <1>12 DEF vars
  <2>2. Placed' /\ (Filling' => Filling)
    BY <2>1 DEF Inv, Placed, Filling
  <2>3. QED
    BY <2>1, <2>2, IdleStep
<1>13. QED
  BY <1>1, <1>2, <1>3, <1>4, <1>5, <1>6, <1>7, <1>8, <1>9, <1>10, <1>11, <1>12 DEF Next

(* Whatever a package's modules and directives are, the rules of what has    *)
(* been parsed are settled (config.go:73-77): Fork makes arrays of its own,  *)
(* and only what is being filled is ever appended to.                        *)
THEOREM RulesSettle == Spec => RulesAreSettled
<1>1. Init => Inv
  BY InvInit
<1>2. Inv /\ [Next]_vars => Inv'
  BY InvNext
<1>3. Inv /\ [Next]_vars => [Settled]_vars
  BY InvNext
<1>4. QED
  BY <1>1, <1>2, <1>3, PTL DEF Spec, RulesAreSettled

-----------------------------------------------------------------------------
(* Mistakes.  Those of the options of a list before the i-th; those of what  *)
(* has been parsed.                                                          *)
WrongsBefore(ph, n, opts, i) ==
  {[what |-> "option", at |-> Place(ph, n, j)] : j \in {k \in DOMAIN opts : k < i /\ opts[k].op = "bad"}}

TwiceBefore(n, opts, i) ==
  {[what |-> "sample", at |-> Place("injector", n, j)] :
     j \in {k \in DOMAIN opts :
              k < i /\ opts[k].op = "sample" /\ \E l \in 1 .. k - 1 : opts[l].op = "sample"}}

(* What is reported of a directive, once it has been parsed. *)
ReportsOf(n) ==
  IF ~Whole(n) THEN {[what |-> "directive", at |-> Place("injector", n, 0)]}
  ELSE IF Halted(n) THEN {}
  ELSE LET opts == prog.directives[n].opts
       IN  (Wrongs("injector", n, opts) \cup Twice(n, opts))
           \cup IF DeclaredTwice(n)
                  THEN {[what |-> "duplicate", at |-> Place("injector", n, Len(opts) + 1)]}
                  ELSE {}

(* Of the modules in D, and of the directives before the r-th. *)
ReportsBefore(D, r) ==
  (UNION {MistakesOf(m) : m \in D})
  \cup UNION {ReportsOf(d) : d \in {k \in DOMAIN prog.directives : k < r}}

Reported ==
  /\ at.phase = "module" =>
       \A r \in DOMAIN prog.directives : AtDirective(prog, at, r) =>
         errs = ReportsBefore(DOMAIN mods, r)
                \cup WrongsBefore("module", at.n, prog.modules[at.n], at.i)
  /\ at.phase = "injector" =>
       LET opts == prog.directives[at.n].opts
       IN  errs = ReportsBefore(DOMAIN mods, at.n)
                  \cup (WrongsBefore("injector", at.n, opts, at.i) \cup TwiceBefore(at.n, opts, at.i))
  /\ at.phase \in {"build", "done"} =>
       errs = ReportsBefore(DOMAIN mods, Len(prog.directives) + 1)

(* The functions a module has imported, in the order of its options. *)
Gathered(funcs, opts, i) ==
  /\ \A k \in DOMAIN funcs :
       /\ funcs[k].i \in DOMAIN opts /\ funcs[k].i < i
       /\ opts[funcs[k].i].op = "importFunc" /\ opts[funcs[k].i].pair = funcs[k].pair
  /\ \A j \in DOMAIN opts :
       j < i /\ opts[j].op = "importFunc" => \E k \in DOMAIN funcs : funcs[k].i = j
  /\ \A k, l \in DOMAIN funcs : k < l => funcs[k].i < funcs[l].i

Imported ==
  at.phase = "module" /\ at.i # 0 =>
    IsSeq(cfg.funcs) /\ Gathered(cfg.funcs, prog.modules[at.n], at.i)

(* What a module's converters and functions convert. *)
PairsKnown(m, n) ==
  {prog.modules[m][i].pair : i \in {j \in DOMAIN prog.modules[m] : prog.modules[m][j].op = "importFunc"}}
  \cup {prog.directives[k].pair :
          k \in {j \in DOMAIN prog.directives :
                    j < n /\ Whole(j) /\ ~Halted(j) /\ prog.directives[j].mod = m}}

Known ==
  \A r \in DOMAIN prog.directives : AtDirective(prog, at, r) =>
    \A m \in DOMAIN mods : mods[m].known = PairsKnown(m, r)

(* A sample is what a directive has been given, its module none. *)
Sampling ==
  /\ at.phase = "injector" /\ at.i # 0 =>
       LET opts == prog.directives[at.n].opts
       IN  /\ Whole(at.n) /\ ~Halted(at.n)
           /\ cfg.bySample.on = \E j \in DOMAIN opts : j < at.i /\ opts[j].op = "sample"
  /\ at.phase = "module" /\ at.i # 0 => \A kind \in DOMAIN fors : fors[kind].bySample.on = FALSE
  /\ \A m \in DOMAIN mods : \A kind \in DOMAIN mods[m].fors : mods[m].fors[kind].bySample.on = FALSE

Shaped(c) == DOMAIN c = DOMAIN EmptyConfig

Shapes ==
  /\ Shaped(cfg) /\ (\A kind \in DOMAIN fors : Shaped(fors[kind]))
  /\ \A m \in DOMAIN mods :
       Shaped(mods[m].cfg) /\ \A kind \in DOMAIN mods[m].fors : Shaped(mods[m].fors[kind])

Tally == Reported /\ Imported /\ Known /\ Sampling /\ Shapes

LEMMA Fields ==
  ASSUME NEW c, Shaped(c)
  PROVE  DOMAIN c = {"funcs", "errWraps", "lists", "match", "matchFuncs", "matchSkip",
                     "bySample", "unexported", "getters", "setters", "nested"}
BY DEF Shaped, EmptyConfig

(* A configuration that has lost no field, function or sample to another. *)
Keeps(c, d) == Shaped(d) /\ d.funcs = c.funcs /\ d.bySample = c.bySample

LEMMA AppendKeeps ==
  ASSUME NEW st, Shaped(st.cfg), NEW l, NEW vs
  PROVE  Keeps(st.cfg, AppendTo(st, l, vs).cfg)
<1>1. PICK c, s : /\ c = st.cfg
                  /\ s = [c.lists EXCEPT ![l] = AppendAll(st.heap, c.lists[l], vs).slice]
  OBVIOUS
<1>2. PICK d : d = [c EXCEPT !.lists = s]
  OBVIOUS
<1>3. AppendTo(st, l, vs).cfg = d
  BY <1>1, <1>2 DEF AppendTo, State
<1>4. DOMAIN d = DOMAIN c /\ d.funcs = c.funcs /\ d.bySample = c.bySample
  BY <1>1, <1>2, Fields
<1>5. QED
  BY <1>1, <1>3, <1>4 DEF Keeps, Shaped

LEMMA CloneKeeps ==
  ASSUME NEW st, Shaped(st.cfg), NEW l
  PROVE  Keeps(st.cfg, Clone(st, l).cfg)
<1>1. PICK c, d : c = st.cfg /\ d = [c EXCEPT !.lists[l] = NilSlice]
  OBVIOUS
<1>2. DOMAIN d = DOMAIN c /\ d.funcs = c.funcs /\ d.bySample = c.bySample
  BY <1>1, Fields
<1>3. PICK s, vs : s = State(st.heap, d) /\ vs = Contents(st.heap, c.lists[l])
  OBVIOUS
<1>4. s.cfg = d /\ Shaped(d)
  BY <1>1, <1>2, <1>3 DEF State, Shaped
<1>5. Keeps(d, AppendTo(s, l, vs).cfg)
  BY <1>4, AppendKeeps
<1>6. Clone(st, l) = AppendTo(s, l, vs)
  BY <1>1, <1>3 DEF Clone
<1>7. QED
  BY <1>1, <1>2, <1>5, <1>6 DEF Keeps

LEMMA KeepsOn ==
  ASSUME NEW c, NEW d, NEW e, Keeps(c, d), Keeps(d, e)
  PROVE  Keeps(c, e)
BY DEF Keeps

(* A fork has the functions it is forked from, and no sample. *)
LEMMA ForkKeeps ==
  ASSUME NEW st, Shaped(st.cfg)
  PROVE  /\ Shaped(Fork(st).cfg) /\ Fork(st).cfg.funcs = st.cfg.funcs
         /\ Fork(st).cfg.bySample = Off(Nil, Nil)
<1>1. PICK rx, ry, fx, fy : /\ rx = <<"renamers", "x">> /\ ry = <<"renamers", "y">>
                            /\ fx = <<"finders", "x">> /\ fy = <<"finders", "y">>
  OBVIOUS
<1>2. PICK s1 : s1 = Clone(st, rx)
  OBVIOUS
<1>3. PICK s2 : s2 = Clone(s1, ry)
  OBVIOUS
<1>4. PICK s3 : s3 = Clone(s2, fx)
  OBVIOUS
<1>5. PICK s4 : s4 = Clone(s3, fy)
  OBVIOUS
<1>6. Keeps(st.cfg, s1.cfg)
  BY <1>2, CloneKeeps
<1>7. Keeps(s1.cfg, s2.cfg)
  BY <1>3, <1>6, CloneKeeps DEF Keeps
<1>8. Keeps(s2.cfg, s3.cfg)
  BY <1>4, <1>7, CloneKeeps DEF Keeps
<1>9. Keeps(s3.cfg, s4.cfg)
  BY <1>5, <1>8, CloneKeeps DEF Keeps
<1>10. PICK c : c = s4.cfg /\ Shaped(c) /\ c.funcs = st.cfg.funcs
  BY <1>6, <1>7, <1>8, <1>9 DEF Keeps
<1>11. PICK d : d = [c EXCEPT !.match = <<>>, !.matchFuncs = NoMatchFuncs, !.matchSkip = <<>>,
                       !.bySample = Off(Nil, Nil), !.nested = [side \in Sides |-> <<>>]]
  OBVIOUS
<1>12. Fork(st) = State(s4.heap, d)
  BY <1>1, <1>2, <1>3, <1>4, <1>5, <1>10, <1>11 DEF Fork, CloneRules
<1>13. DOMAIN d = DOMAIN c /\ d.funcs = c.funcs /\ d.bySample = Off(Nil, Nil)
  BY <1>10, <1>11, Fields
<1>14. QED
  BY <1>10, <1>12, <1>13 DEF Shaped, State

LEMMA UpdateKeeps ==
  ASSUME NEW st, Shaped(st.cfg), NEW other
  PROVE  /\ Shaped(Update(st, other).cfg)
         /\ Update(st, other).cfg.bySample = Follow(st.cfg.bySample, other.bySample)
<1>1. PICK rx, ry, fx, fy : /\ rx = <<"renamers", "x">> /\ ry = <<"renamers", "y">>
                            /\ fx = <<"finders", "x">> /\ fy = <<"finders", "y">>
  OBVIOUS
<1> DEFINE Of(l) == Contents(st.heap, other.lists[l])
<1>2. PICK s1 : s1 = AppendTo(st, rx, Of(rx))
  OBVIOUS
<1>3. PICK s2 : s2 = AppendTo(s1, ry, Of(ry))
  OBVIOUS
<1>4. PICK s3 : s3 = AppendTo(s2, fx, Of(fx))
  OBVIOUS
<1>5. PICK s4 : s4 = AppendTo(s3, fy, Of(fy))
  OBVIOUS
<1>6. PICK c : c = [s4.cfg EXCEPT
           !.funcs = @ \o other.funcs, !.errWraps = @ \o other.errWraps,
           !.match = other.match, !.matchFuncs = other.matchFuncs,
           !.matchSkip = other.matchSkip, !.nested.x = other.nested.x,
           !.bySample = Follow(@, other.bySample),
           !.unexported = Follow(@, other.unexported),
           !.getters = FollowAffix(@, other.getters),
           !.setters = FollowAffix(@, other.setters)]
  OBVIOUS
<1>7. Update(st, other) = State(s4.heap, c)
  BY <1>1, <1>2, <1>3, <1>4, <1>5, <1>6 DEF Update
<1> HIDE DEF Of
<1>8. PICK v1, v2, v3, v4 : v1 = Of(rx) /\ v2 = Of(ry) /\ v3 = Of(fx) /\ v4 = Of(fy)
  OBVIOUS
<1>9. Keeps(st.cfg, s1.cfg)
  BY <1>2, <1>8, AppendKeeps
<1>10. Keeps(s1.cfg, s2.cfg)
  BY <1>3, <1>8, <1>9, AppendKeeps DEF Keeps
<1>11. Keeps(s2.cfg, s3.cfg)
  BY <1>4, <1>8, <1>10, AppendKeeps DEF Keeps
<1>12. Keeps(s3.cfg, s4.cfg)
  BY <1>5, <1>8, <1>11, AppendKeeps DEF Keeps
<1>13. PICK d : d = s4.cfg /\ Shaped(d) /\ d.bySample = st.cfg.bySample
  BY <1>9, <1>10, <1>11, <1>12 DEF Keeps
<1>14. DOMAIN c = DOMAIN d /\ c.bySample = Follow(d.bySample, other.bySample)
  BY <1>6, <1>13, Fields
<1>15. QED
  BY <1>7, <1>13, <1>14 DEF Shaped, State

(* What a directive starts from. *)
LEMMA ForkForKeeps ==
  ASSUME NEW kind, NEW mod, Shaped(mod.cfg),
         kind \in DOMAIN mod.fors => mod.fors[kind].bySample.on = FALSE
  PROVE  /\ Shaped(ForkFor(kind, mod).cfg)
         /\ ForkFor(kind, mod).cfg.bySample = Off(Nil, Nil)
<1>1. PICK st : st = State(heap, mod.cfg)
  OBVIOUS
<1>2. st.cfg = mod.cfg
  BY <1>1 DEF State
<1>3. PICK f : f = Fork(st)
  OBVIOUS
<1>4. Shaped(f.cfg) /\ f.cfg.bySample = Off(Nil, Nil)
  BY <1>2, <1>3, ForkKeeps
<1>5. CASE kind \in DOMAIN mod.fors
  <2>1. PICK other : other = mod.fors[kind]
    OBVIOUS
  <2>2. ForkFor(kind, mod) = Update(f, other) /\ other.bySample.on = FALSE
    BY <1>1, <1>3, <1>5, <2>1 DEF ForkFor
  <2>3. /\ Shaped(Update(f, other).cfg)
        /\ Update(f, other).cfg.bySample = Follow(f.cfg.bySample, other.bySample)
    BY <1>4, UpdateKeeps
  <2>4. QED
    BY <1>4, <2>2, <2>3 DEF Follow
<1>6. CASE kind \notin DOMAIN mod.fors
  BY <1>1, <1>3, <1>4, <1>6 DEF ForkFor
<1>7. QED
  BY <1>5, <1>6

-----------------------------------------------------------------------------
(* One option more, and its mistake. *)
WrongAt(ph, n, opts, i) ==
  IF opts[i].op = "bad" THEN {[what |-> "option", at |-> Place(ph, n, i)]} ELSE {}

TwiceAt(n, opts, i) ==
  IF opts[i].op = "sample" /\ \E l \in 1 .. i - 1 : opts[l].op = "sample"
    THEN {[what |-> "sample", at |-> Place("injector", n, i)]} ELSE {}

LEMMA OneMore ==
  ASSUME NEW ph, NEW n, NEW opts, IsList(opts), NEW i \in DOMAIN opts
  PROVE  /\ WrongsBefore(ph, n, opts, i + 1) = WrongsBefore(ph, n, opts, i) \cup WrongAt(ph, n, opts, i)
         /\ TwiceBefore(n, opts, i + 1) = TwiceBefore(n, opts, i) \cup TwiceAt(n, opts, i)
<1>1. DOMAIN opts = 1 .. Len(opts) /\ Len(opts) \in Nat /\ i \in Nat
  BY DEF IsList
<1>2. \A k \in DOMAIN opts : k < i + 1 <=> k < i \/ k = i
  BY <1>1
<1> DEFINE bad(j) == {k \in DOMAIN opts : k < j /\ opts[k].op = "bad"}
           twice(j) == {k \in DOMAIN opts :
                          k < j /\ opts[k].op = "sample" /\ \E l \in 1 .. k - 1 : opts[l].op = "sample"}
<1>3. bad(i + 1) = bad(i) \cup IF opts[i].op = "bad" THEN {i} ELSE {}
  BY <1>1, <1>2
<1>4. twice(i + 1) = twice(i) \cup IF opts[i].op = "sample" /\ \E l \in 1 .. i - 1 : opts[l].op = "sample"
                                     THEN {i} ELSE {}
  BY <1>1, <1>2
<1>5. /\ WrongsBefore(ph, n, opts, i + 1) = {[what |-> "option", at |-> Place(ph, n, j)] : j \in bad(i + 1)}
      /\ WrongsBefore(ph, n, opts, i) = {[what |-> "option", at |-> Place(ph, n, j)] : j \in bad(i)}
      /\ TwiceBefore(n, opts, i + 1) = {[what |-> "sample", at |-> Place("injector", n, j)] : j \in twice(i + 1)}
      /\ TwiceBefore(n, opts, i) = {[what |-> "sample", at |-> Place("injector", n, j)] : j \in twice(i)}
  BY Zenon DEF WrongsBefore, TwiceBefore
<1> HIDE DEF bad, twice
<1>6. WrongsBefore(ph, n, opts, i + 1) = WrongsBefore(ph, n, opts, i) \cup WrongAt(ph, n, opts, i)
  BY <1>3, <1>5 DEF WrongAt
<1>7. TwiceBefore(n, opts, i + 1) = TwiceBefore(n, opts, i) \cup TwiceAt(n, opts, i)
  BY <1>4, <1>5 DEF TwiceAt
<1>8. QED
  BY <1>6, <1>7

(* Where no option has been parsed yet, and where all have. *)
LEMMA NoneBefore ==
  ASSUME NEW ph, NEW n, NEW opts, IsList(opts), NEW i \in {0, 1}
  PROVE  WrongsBefore(ph, n, opts, i) = {} /\ TwiceBefore(n, opts, i) = {}
<1>1. \A k \in DOMAIN opts : ~(k < i)
  BY DEF IsList
<1>2. QED
  BY <1>1 DEF WrongsBefore, TwiceBefore

LEMMA AllBefore ==
  ASSUME NEW ph, NEW n, NEW opts, IsList(opts)
  PROVE  /\ WrongsBefore(ph, n, opts, Len(opts) + 1) = Wrongs(ph, n, opts)
         /\ TwiceBefore(n, opts, Len(opts) + 1) = Twice(n, opts)
<1>1. \A k \in DOMAIN opts : k < Len(opts) + 1
  BY DEF IsList
<1>2. {k \in DOMAIN opts : k < Len(opts) + 1 /\ opts[k].op = "bad"} = {j \in DOMAIN opts : opts[j].op = "bad"}
  BY <1>1
<1>3. {k \in DOMAIN opts : k < Len(opts) + 1 /\ opts[k].op = "sample" /\ \E l \in 1 .. k - 1 : opts[l].op = "sample"}
        = {j \in DOMAIN opts : opts[j].op = "sample" /\ \E l \in 1 .. j - 1 : opts[l].op = "sample"}
  BY <1>1
<1>4. QED
  BY <1>2, <1>3 DEF WrongsBefore, TwiceBefore, Wrongs, Twice

(* The option in hand is one its place allows. *)
LEMMA Permitted ==
  ASSUME Inv, Parsing
  PROVE  /\ IsList(Items) /\ at.i \in DOMAIN Items /\ at.i \in Nat /\ at.i # 0
         /\ Item = Items[at.i]
         /\ at.phase \in {"module", "injector"}
         /\ at.phase = "module" => /\ Items = prog.modules[at.n] /\ Item.op # "sample"
                                   /\ at.n \in DOMAIN prog.modules
                                   /\ Item.op = "importFunc" => Item.into = Nil
         /\ at.phase = "injector" => /\ Items = prog.directives[at.n].opts
                                     /\ at.n \in DOMAIN prog.directives
                                     /\ Item.into = Nil /\ Item.op \notin {"for", "importFunc"}
<1>1. at.phase \in {"module", "injector"} /\ at.i \in DOMAIN Items /\ Item = Items[at.i] /\ prog \in Programs
  BY DEF Parsing, Item, Inv, Placed
<1>2. CASE at.phase = "module"
  <2>1. at.n \in DOMAIN prog.modules /\ Items = prog.modules[at.n]
    BY <1>2, ProgramsAre DEF Inv, Placed, Items
  <2>2. IsList(Items)
    BY <1>1, <2>1, ProgramsAssumption
  <2>3. Item.op \in Everywhere \/ (Item.op \in OfModules /\ Item.into = Nil)
    BY <1>1, <2>1, OptionsAssumption
  <2>4. QED
    BY <1>1, <1>2, <2>1, <2>2, <2>3 DEF Everywhere, OfModules, IsList
<1>3. CASE at.phase = "injector"
  <2>1. at.n \in DOMAIN prog.directives /\ Items = prog.directives[at.n].opts
    BY <1>3, ProgramsAre DEF Inv, Placed, Items
  <2>2. IsList(Items) /\ Item.into = Nil
    BY <1>1, <2>1, ProgramsAssumption
  <2>3. Item.op \in Everywhere \cup OfPaths
    BY <1>1, <2>1, OptionsAssumption
  <2>4. QED
    BY <1>1, <1>3, <2>1, <2>2, <2>3 DEF Everywhere, OfPaths, IsList
<1>4. QED
  BY <1>1, <1>2, <1>3

(* The mistakes are those of the package, which never changes. *)
LEMMA Static ==
  ASSUME prog' = prog, NEW D, DOMAIN mods' = D, NEW n, at'.n = n
  PROVE  /\ \A r : ReportsBefore(DOMAIN mods, r)' = ReportsBefore(D, r)
         /\ ReportsBefore(DOMAIN mods, at.n)' = ReportsBefore(D, n)
         /\ ReportsBefore(DOMAIN mods, Len(prog.directives) + 1)' = ReportsBefore(D, Len(prog.directives) + 1)
         /\ \A m, r : PairsKnown(m, r)' = PairsKnown(m, r)
<1>1. \A m : MistakesOf(m)' = MistakesOf(m)
  BY DEF MistakesOf, ImportedTwice
<1>2. \A d : Whole(d)' = Whole(d) /\ Halted(d)' = Halted(d) /\ DeclaredTwice(d)' = DeclaredTwice(d)
  BY DEF Whole, Halted, MistakesOf, ImportedTwice, DeclaredTwice
<1>3. \A d : ReportsOf(d)' = ReportsOf(d)
  BY <1>2 DEF ReportsOf
<1>4. /\ \A r : ReportsBefore(DOMAIN mods, r)' = ReportsBefore(D, r)
      /\ ReportsBefore(DOMAIN mods, at.n)' = ReportsBefore(D, n)
      /\ ReportsBefore(DOMAIN mods, Len(prog.directives) + 1)' = ReportsBefore(D, Len(prog.directives) + 1)
  BY <1>1, <1>3 DEF ReportsBefore
<1>5. \A m, r : PairsKnown(m, r)' = PairsKnown(m, r)
  BY <1>2 DEF PairsKnown
<1>6. QED
  BY <1>4, <1>5

LEMMA StaticDirective ==
  ASSUME prog' = prog, NEW n, at'.n = n
  PROVE  Whole(at.n)' = Whole(n) /\ Halted(at.n)' = Halted(n)
<1>1. \A m : MistakesOf(m)' = MistakesOf(m)
  BY DEF MistakesOf, ImportedTwice
<1>2. Whole(at.n)' = Whole(n)
  BY DEF Whole
<1>3. Halted(at.n)' = Halted(n)
  BY <1>1 DEF Halted
<1>4. QED
  BY <1>2, <1>3

LEMMA GatheredMore ==
  ASSUME NEW funcs, IsSeq(funcs), NEW opts, IsList(opts), NEW i \in DOMAIN opts,
         Gathered(funcs, opts, i), opts[i].op = "importFunc",
         NEW g, g = Append(funcs, [pair |-> opts[i].pair, i |-> i])
  PROVE  Gathered(g, opts, i + 1) /\ IsSeq(g)
<1>1. PICK e : e = [pair |-> opts[i].pair, i |-> i]
  OBVIOUS
<1>2. e.i = i /\ e.pair = opts[i].pair
  BY <1>1
<1>3. /\ IsSeq(g) /\ DOMAIN funcs = 1 .. Len(funcs) /\ DOMAIN g = 1 .. Len(funcs) + 1
      /\ (\A j \in DOMAIN funcs : g[j] = funcs[j]) /\ g[Len(funcs) + 1] = e /\ Len(funcs) \in Nat
  BY <1>1, AppendList
<1>4. \A j \in DOMAIN opts : j \in Nat
  BY DEF IsList
<1>5. ASSUME NEW k \in DOMAIN g
      PROVE  /\ g[k].i \in DOMAIN opts /\ g[k].i < i + 1
             /\ opts[g[k].i].op = "importFunc" /\ opts[g[k].i].pair = g[k].pair
  BY <1>2, <1>3, <1>4 DEF Gathered
<1>6. ASSUME NEW j \in DOMAIN opts, j < i + 1, opts[j].op = "importFunc"
      PROVE  \E k \in DOMAIN g : g[k].i = j
  <2>1. CASE j < i
    BY <1>3, <1>6, <2>1 DEF Gathered
  <2>2. CASE j = i
    BY <1>2, <1>3, <2>2
  <2>3. QED
    BY <1>4, <1>6, <2>1, <2>2
<1>7. ASSUME NEW k \in DOMAIN g, NEW l \in DOMAIN g, k < l PROVE g[k].i < g[l].i
  <2>1. k \in DOMAIN funcs
    BY <1>3, <1>7
  <2>2. CASE l \in DOMAIN funcs
    BY <1>3, <1>7, <2>1, <2>2 DEF Gathered
  <2>3. CASE l = Len(funcs) + 1
    BY <1>2, <1>3, <2>1, <2>3 DEF Gathered
  <2>4. QED
    BY <1>3, <2>2, <2>3
<1>8. QED
  BY <1>3, <1>5, <1>6, <1>7 DEF Gathered

LEMMA GatheredSame ==
  ASSUME NEW funcs, NEW opts, IsList(opts), NEW i \in DOMAIN opts, Gathered(funcs, opts, i),
         opts[i].op # "importFunc"
  PROVE  Gathered(funcs, opts, i + 1)
<1>1. i \in Nat /\ \A j \in DOMAIN opts : j \in Nat /\ (j < i + 1 <=> j < i \/ j = i)
  BY DEF IsList
<1>2. QED
  BY <1>1 DEF Gathered

(* What a step of the list in hand leaves of the counts. *)
LEMMA TallyStep ==
  ASSUME Inv, Tally, Parsing, NextItem, UNCHANGED <<prog, mods>>,
         errs' = errs \cup (IF Item.op = "bad" THEN {Error("option")} ELSE {})
                      \cup (IF Item.op = "sample" /\ cfg.bySample.on THEN {Error("sample")} ELSE {}),
         Shapes', Imported',
         at.phase = "module" => \A kind \in DOMAIN fors' : fors'[kind].bySample.on = FALSE,
         at.phase = "injector" => cfg'.bySample.on = (cfg.bySample.on \/ Item.op = "sample")
  PROVE  Tally'
<1> DEFINE i == at.i
<1>1. /\ at'.phase = at.phase /\ at'.n = at.n /\ at'.i = i + 1
      /\ at = [phase |-> at.phase, n |-> at.n, i |-> i]
  BY DEF NextItem, Inv, Placed
<1>2. \A what : Error(what) = [what |-> what, at |-> Place(at.phase, at.n, i)]
  BY <1>1 DEF Error, Place
<1>3. /\ IsList(Items) /\ i \in DOMAIN Items /\ i \in Nat /\ i # 0 /\ Item = Items[i]
      /\ at.phase = "module" => Items = prog.modules[at.n] /\ Item.op # "sample"
      /\ at.phase = "injector" => Items = prog.directives[at.n].opts
      /\ at.phase \in {"module", "injector"}
  BY Permitted
<1>4. PICK opts : opts = Items
  OBVIOUS
<1>5. /\ WrongsBefore(at.phase, at.n, opts, i + 1)
           = WrongsBefore(at.phase, at.n, opts, i)
             \cup IF Item.op = "bad" THEN {Error("option")} ELSE {}
      /\ TwiceBefore(at.n, opts, i + 1)
           = TwiceBefore(at.n, opts, i)
             \cup IF Item.op = "sample" /\ \E l \in 1 .. i - 1 : opts[l].op = "sample"
                    THEN {[what |-> "sample", at |-> Place("injector", at.n, i)]} ELSE {}
  <2>1. PICK ph, n, k : ph = at.phase /\ n = at.n /\ k = i
    OBVIOUS
  <2>2. IsList(opts) /\ k \in DOMAIN opts /\ Item = opts[k]
    BY <1>3, <1>4, <2>1
  <2>3. /\ WrongsBefore(ph, n, opts, k + 1) = WrongsBefore(ph, n, opts, k) \cup WrongAt(ph, n, opts, k)
        /\ TwiceBefore(n, opts, k + 1) = TwiceBefore(n, opts, k) \cup TwiceAt(n, opts, k)
    BY <2>2, OneMore
  <2>4. WrongAt(ph, n, opts, k) = IF Item.op = "bad" THEN {Error("option")} ELSE {}
    BY <1>2, <2>1, <2>2 DEF WrongAt
  <2>5. TwiceAt(n, opts, k)
          = IF Item.op = "sample" /\ \E l \in 1 .. i - 1 : opts[l].op = "sample"
              THEN {[what |-> "sample", at |-> Place("injector", at.n, i)]} ELSE {}
    BY <2>1, <2>2 DEF TwiceAt
  <2>6. QED
    BY <2>1, <2>3, <2>4, <2>5
<1>11. PICK D : D = DOMAIN mods
  OBVIOUS
<1>6. /\ DOMAIN mods' = D
      /\ \A r : ReportsBefore(DOMAIN mods, r)' = ReportsBefore(D, r)
      /\ ReportsBefore(DOMAIN mods, at.n)' = ReportsBefore(D, at.n)
      /\ \A m, r : PairsKnown(m, r)' = PairsKnown(m, r)
  BY <1>1, <1>11, Static
<1>12. \A r : AtDirective(prog', at', r) <=> AtDirective(prog, at, r)
  BY <1>1 DEF AtDirective
<1>7. Known'
  BY <1>1, <1>6, <1>12 DEF Tally, Known
<1>8. CASE at.phase = "module"
  <2>1. ASSUME NEW r \in DOMAIN prog.directives, AtDirective(prog, at, r)
        PROVE  errs' = ReportsBefore(D, r) \cup WrongsBefore("module", at.n, opts, i + 1)
    <3>1. errs = ReportsBefore(D, r) \cup WrongsBefore("module", at.n, opts, i)
      BY <1>3, <1>4, <1>8, <1>11, <2>1 DEF Tally, Reported
    <3>2. QED
      BY <1>3, <1>4, <1>5, <1>8, <3>1
  <2>2. prog'.modules[at'.n] = opts
    BY <1>1, <1>3, <1>4, <1>8
  <2>3. Reported'
    BY <1>1, <1>6, <1>8, <1>12, <2>1, <2>2 DEF Reported
  <2>4. Sampling'
    BY <1>1, <1>8 DEF Tally, Sampling
  <2>5. QED
    BY <1>7, <2>3, <2>4 DEF Tally
<1>9. CASE at.phase = "injector"
  <2>1. /\ Whole(at.n) /\ ~Halted(at.n)
        /\ cfg.bySample.on = \E j \in DOMAIN opts : j < i /\ opts[j].op = "sample"
    BY <1>3, <1>4, <1>9 DEF Tally, Sampling
  <2>2. cfg.bySample.on <=> \E l \in 1 .. i - 1 : opts[l].op = "sample"
    BY <1>3, <1>4, <2>1 DEF IsList
  <2>3. TwiceBefore(at.n, opts, i + 1)
          = TwiceBefore(at.n, opts, i)
            \cup IF Item.op = "sample" /\ cfg.bySample.on THEN {Error("sample")} ELSE {}
    BY <1>2, <1>5, <1>9, <2>2
  <2>4. errs' = ReportsBefore(D, at.n)
                \cup (WrongsBefore("injector", at.n, opts, i + 1) \cup TwiceBefore(at.n, opts, i + 1))
    BY <1>3, <1>4, <1>5, <1>9, <1>11, <2>3 DEF Tally, Reported
  <2>5. prog'.directives[at'.n].opts = opts
    BY <1>1, <1>3, <1>4, <1>9
  <2>6. Reported'
    BY <1>1, <1>6, <1>9, <2>4, <2>5 DEF Reported
  <2>7. cfg'.bySample.on = \E j \in DOMAIN opts : j < i + 1 /\ opts[j].op = "sample"
    <3>1. \A j \in DOMAIN opts : j < i + 1 <=> j < i \/ j = i
      BY <1>3, <1>4 DEF IsList
    <3>2. QED
      BY <1>3, <1>4, <1>9, <2>1, <3>1
  <2>8. Sampling'
    <3>1. Whole(at.n)' = Whole(at.n) /\ Halted(at.n)' = Halted(at.n)
      BY <1>1, StaticDirective
    <3>2. QED
      BY <1>1, <1>9, <2>1, <2>5, <2>7, <3>1 DEF Tally, Sampling
  <2>9. QED
    BY <1>7, <2>6, <2>8 DEF Tally
<1>10. QED
  BY <1>3, <1>8, <1>9

(* An option that is accepted. *)
LEMMA BecomesTally ==
  ASSUME Inv, Tally, Parsing, Item.op \notin {"for", "bad"}, NEW st, Becomes(st), Shaped(st.cfg),
         IF Item.op = "importFunc"
           THEN st.cfg.funcs = Append(Target.funcs, [pair |-> Item.pair, i |-> at.i])
           ELSE st.cfg.funcs = Target.funcs,
         IF Item.op = "sample" THEN ~Target.bySample.on /\ st.cfg.bySample.on = TRUE
         ELSE st.cfg.bySample = Target.bySample
  PROVE  Tally'
<1>1. /\ IsList(Items) /\ at.i \in DOMAIN Items /\ at.i \in Nat /\ at.i # 0 /\ Item = Items[at.i]
      /\ at.phase \in {"module", "injector"}
      /\ at.phase = "module" => /\ Items = prog.modules[at.n] /\ Item.op # "sample"
                                /\ Item.op = "importFunc" => Item.into = Nil
      /\ at.phase = "injector" => Item.into = Nil /\ Item.op \notin {"for", "importFunc"}
  BY Permitted
<1>2. /\ at'.phase = at.phase /\ at'.n = at.n /\ at'.i = at.i + 1
      /\ NextItem /\ prog' = prog /\ mods' = mods /\ errs' = errs
  BY DEF Becomes, NextItem, Inv, Placed
<1>3. /\ Shaped(cfg) /\ (\A kind \in DOMAIN fors : Shaped(fors[kind]))
      /\ \A m \in DOMAIN mods :
           Shaped(mods[m].cfg) /\ \A kind \in DOMAIN mods[m].fors : Shaped(mods[m].fors[kind])
      /\ at.phase = "module" => \A kind \in DOMAIN fors : fors[kind].bySample.on = FALSE
      /\ at.phase = "injector" => cfg.bySample.on \in BOOLEAN
      /\ at.phase = "module" => IsSeq(cfg.funcs) /\ Gathered(cfg.funcs, Items, at.i)
  BY <1>1 DEF Tally, Shapes, Sampling, Imported
<1>4. CASE Item.into = Nil
  <2>1. Target = cfg /\ cfg' = st.cfg /\ fors' = fors
    BY <1>4 DEF Target, Becomes
  <2>2. Shapes'
    BY <1>2, <1>3, <2>1 DEF Shapes
  <2>3. at.phase = "module" => IsSeq(cfg'.funcs) /\ Gathered(cfg'.funcs, Items, at.i + 1)
    <3>1. CASE Item.op = "importFunc"
      <4>1. at.phase = "module" /\ cfg'.funcs = Append(cfg.funcs, [pair |-> Items[at.i].pair, i |-> at.i])
        BY <1>1, <2>1, <3>1
      <4>2. QED
        BY <1>1, <1>3, <3>1, <4>1, GatheredMore
    <3>2. CASE Item.op # "importFunc"
      BY <1>1, <1>3, <2>1, <3>2, GatheredSame
    <3>3. QED
      BY <3>1, <3>2
  <2>4. Imported'
    BY <1>1, <1>2, <2>3 DEF Imported
  <2>5. errs' = errs \cup (IF Item.op = "bad" THEN {Error("option")} ELSE {})
                     \cup (IF Item.op = "sample" /\ cfg.bySample.on THEN {Error("sample")} ELSE {})
    BY <1>2, <2>1
  <2>6. at.phase = "injector" => cfg'.bySample.on = (cfg.bySample.on \/ Item.op = "sample")
    BY <1>3, <2>1
  <2>7. QED
    BY <1>2, <1>3, <2>1, <2>2, <2>4, <2>5, <2>6, TallyStep
<1>5. CASE Item.into # Nil
  <2>1. /\ Target = fors[Item.into] /\ cfg' = cfg /\ fors' = [fors EXCEPT ![Item.into] = st.cfg]
        /\ at.phase = "module" /\ Item.op \notin {"sample", "importFunc"}
    BY <1>1, <1>5 DEF Target, Becomes
  <2>2. \A kind \in DOMAIN fors' : Shaped(fors'[kind]) /\ fors'[kind].bySample.on = FALSE
    BY <1>3, <2>1
  <2>3. Shapes'
    BY <1>2, <1>3, <2>1, <2>2 DEF Shapes
  <2>4. Gathered(cfg.funcs, Items, at.i + 1)
    BY <1>1, <1>3, <2>1, GatheredSame
  <2>5. Imported'
    BY <1>1, <1>2, <1>3, <2>1, <2>4 DEF Imported
  <2>6. errs' = errs \cup (IF Item.op = "bad" THEN {Error("option")} ELSE {})
                     \cup (IF Item.op = "sample" /\ cfg.bySample.on THEN {Error("sample")} ELSE {})
    BY <1>2, <2>1
  <2>7. QED
    BY <1>2, <2>1, <2>2, <2>3, <2>5, <2>6, TallyStep
<1>6. QED
  BY <1>4, <1>5

(* An option that is refused: nothing but its mistake is new. *)
LEMMA RefusedTally ==
  ASSUME Inv, Tally, Parsing,
         \/ Item.op = "bad" /\ Refused("option")
         \/ Item.op = "sample" /\ Target.bySample.on /\ Refused("sample")
  PROVE  Tally'
<1>1. /\ IsList(Items) /\ at.i \in DOMAIN Items /\ at.i # 0 /\ Item = Items[at.i]
      /\ at.phase \in {"module", "injector"}
      /\ at.phase = "module" => Items = prog.modules[at.n] /\ Item.op # "sample"
      /\ at.phase = "injector" => Item.into = Nil
  BY Permitted
<1>2. /\ at'.phase = at.phase /\ at'.n = at.n /\ at'.i = at.i + 1
      /\ NextItem /\ UNCHANGED <<prog, mods, cfg, fors>>
  BY DEF Refused, NextItem, Inv, Placed
<1>3. Shapes'
  BY <1>2 DEF Tally, Shapes
<1>4. Imported'
  BY <1>1, <1>2, GatheredSame DEF Tally, Imported
<1>5. at.phase = "injector" => Target = cfg
  BY <1>1 DEF Target
<1>6. errs' = errs \cup (IF Item.op = "bad" THEN {Error("option")} ELSE {})
                   \cup (IF Item.op = "sample" /\ cfg.bySample.on THEN {Error("sample")} ELSE {})
  BY <1>1, <1>5 DEF Refused
<1>7. /\ at.phase = "module" => \A kind \in DOMAIN fors' : fors'[kind].bySample.on = FALSE
      /\ at.phase = "injector" => cfg'.bySample.on = (cfg.bySample.on \/ Item.op = "sample")
  BY <1>1, <1>2, <1>5 DEF Tally, Sampling
<1>8. QED
  BY <1>2, <1>3, <1>4, <1>6, <1>7, TallyStep

LEMMA PanicTally ==
  ASSUME Inv, Tally, Panic
  PROVE  Tally'
<1>1. at'.phase = "panicked" /\ UNCHANGED <<prog, cfg, fors, mods, errs>>
  BY DEF Panic, Inv, Placed
<1>2. Reported' /\ Imported'
  BY <1>1 DEF Reported, Imported
<1>3. Known'
  BY <1>1 DEF Known, AtDirective
<1>4. Sampling'
  BY <1>1 DEF Tally, Sampling
<1>5. Shapes'
  BY <1>1 DEF Tally, Shapes
<1>6. QED
  BY <1>2, <1>3, <1>4, <1>5 DEF Tally

LEMMA TargetShaped ==
  ASSUME Inv, Tally, Parsing, Item.op # "for"
  PROVE  Shaped(Target)
<1>1. Target \in Opened
  BY TargetOpened
<1>2. QED
  BY <1>1 DEF Opened, Tally, Shapes

LEMMA RenameTally ==
  ASSUME Inv, Tally, Rename
  PROVE  Tally'
<1>1. Parsing /\ Item.op = "rename"
  BY DEF Rename, Option
<1>2. PICK s0 : s0 = State(heap, Target)
  OBVIOUS
<1>3. Keeps(Target, s0.cfg)
  BY <1>1, <1>2, TargetShaped DEF State, Keeps
<1>4. ASSUME NEW s, Shaped(s.cfg), NEW side, NEW rule
      PROVE  Keeps(s.cfg, AddRule(s, side, rule).cfg)
  <2>1. PICK u, l, vs, m, ws :
          /\ l = <<"renamers", side>> /\ vs = <<rule>>
          /\ m = <<"finders", side>> /\ ws = <<FinderOf(rule)>>
          /\ u = AppendTo(s, l, vs)
    OBVIOUS
  <2>2. Keeps(s.cfg, u.cfg)
    BY <1>4, <2>1, AppendKeeps
  <2>3. Keeps(u.cfg, AppendTo(u, m, ws).cfg)
    BY <2>2, AppendKeeps DEF Keeps
  <2>4. CASE rule = Nil
    BY <1>4, <2>4 DEF AddRule, Keeps
  <2>5. CASE rule # Nil
    <3>1. AddRule(s, side, rule) = AppendTo(u, m, ws)
      BY <2>1, <2>5 DEF AddRule
    <3>2. QED
      BY <2>2, <2>3, <3>1 DEF Keeps
  <2>6. QED
    BY <2>4, <2>5
<1>5. PICK s1 : s1 = AddRule(s0, "x", Item.x)
  OBVIOUS
<1>6. PICK s2 : s2 = AddRule(s1, "y", Item.y)
  OBVIOUS
<1>7. Keeps(s0.cfg, s1.cfg)
  BY <1>3, <1>4, <1>5 DEF Keeps
<1>8. Keeps(s1.cfg, s2.cfg)
  BY <1>4, <1>6, <1>7 DEF Keeps
<1>9. Becomes(s2)
  BY <1>2, <1>5, <1>6 DEF Rename
<1>10. Shaped(s2.cfg) /\ s2.cfg.funcs = Target.funcs /\ s2.cfg.bySample = Target.bySample
  BY <1>3, <1>7, <1>8 DEF Keeps
<1>11. QED
  BY <1>1, <1>9, <1>10, BecomesTally

(* The options that set a field of their own. *)
LEMMA SetsTally ==
  ASSUME Inv, Tally, Parsing, Item.op \notin {"for", "bad"}, NEW c, Sets(c), Shaped(c),
         IF Item.op = "importFunc"
           THEN c.funcs = Append(Target.funcs, [pair |-> Item.pair, i |-> at.i])
           ELSE c.funcs = Target.funcs,
         IF Item.op = "sample" THEN ~Target.bySample.on /\ c.bySample.on = TRUE
         ELSE c.bySample = Target.bySample
  PROVE  Tally'
<1>1. PICK st : st = State(heap, c)
  OBVIOUS
<1>2. st.cfg = c /\ Becomes(st)
  BY <1>1 DEF State, Sets
<1>3. QED
  BY <1>2, BecomesTally

LEMMA OtherTally ==
  ASSUME Inv, Tally, ParseOption, ~Rename
  PROVE  Tally'
<1> USE DEF Option
<1>1. Parsing /\ Item.op \notin {"for", "bad"}
  BY DEF ParseOption, ImportFunc, ImportErrWrap, ImportErrWrapReset, Rename, RenameReset,
     DiscoverUnexported, DiscoverGetters, DiscoverSetters, DiscoverFieldsOnly, Match, MatchFunc,
     MatchSkip, DiscoverBySample, DiscoverNested
<1>2. PICK t : t = Target /\ Shaped(t)
  BY <1>1, TargetShaped
<1>3. DOMAIN t = {"funcs", "errWraps", "lists", "match", "matchFuncs", "matchSkip",
                  "bySample", "unexported", "getters", "setters", "nested"}
  BY <1>2, Fields
<1>4. ASSUME NEW c, Sets(c), DOMAIN c = DOMAIN t, c.funcs = t.funcs, c.bySample = t.bySample,
             Item.op \notin {"importFunc", "sample"}
      PROVE  Tally'
  <2>1. Shaped(c)
    BY <1>2, <1>4 DEF Shaped
  <2>2. QED
    BY <1>1, <1>2, <1>4, <2>1, SetsTally
<1>5. CASE ImportFunc
  <2>1. PICK c : c = [t EXCEPT !.funcs = Append(@, [pair |-> Item.pair, i |-> at.i])]
    OBVIOUS
  <2>2. /\ DOMAIN c = DOMAIN t /\ c.bySample = t.bySample
        /\ c.funcs = Append(t.funcs, [pair |-> Item.pair, i |-> at.i])
    BY <1>3, <2>1
  <2>3. Sets(c) /\ Item.op = "importFunc" /\ Shaped(c)
    BY <1>2, <1>5, <2>1, <2>2 DEF ImportFunc, Shaped
  <2>4. QED
    BY <1>1, <1>2, <2>2, <2>3, SetsTally
<1>6. CASE ImportErrWrap
  <2>1. PICK c : c = [t EXCEPT !.errWraps = Append(@, Item.wrap)]
    OBVIOUS
  <2>2. QED
    BY <1>2, <1>3, <1>4, <1>6, <2>1 DEF ImportErrWrap
<1>7. CASE ImportErrWrapReset
  <2>1. PICK c : c = [t EXCEPT !.errWraps = <<>>]
    OBVIOUS
  <2>2. QED
    BY <1>2, <1>3, <1>4, <1>7, <2>1 DEF ImportErrWrapReset
<1>8. CASE RenameReset
  <2>1. PICK c : c = [t EXCEPT !.lists = Cleared(@)]
    OBVIOUS
  <2>2. QED
    BY <1>2, <1>3, <1>4, <1>8, <2>1 DEF RenameReset
<1>9. CASE DiscoverUnexported
  <2>1. PICK c : c = [t EXCEPT !.unexported = [on |-> TRUE, x |-> Item.x, y |-> Item.y]]
    OBVIOUS
  <2>2. QED
    BY <1>2, <1>3, <1>4, <1>9, <2>1 DEF DiscoverUnexported
<1>10. CASE DiscoverGetters
  <2>1. PICK c : c = [t EXCEPT !.getters = Item.affix]
    OBVIOUS
  <2>2. QED
    BY <1>2, <1>3, <1>4, <1>10, <2>1 DEF DiscoverGetters
<1>11. CASE DiscoverSetters
  <2>1. PICK c : c = [t EXCEPT !.setters = Item.affix]
    OBVIOUS
  <2>2. QED
    BY <1>2, <1>3, <1>4, <1>11, <2>1 DEF DiscoverSetters
<1>12. CASE DiscoverFieldsOnly
  <2>1. PICK c : c = FieldsOnly(t)
    OBVIOUS
  <2>2. DOMAIN c = DOMAIN t /\ c.funcs = t.funcs /\ c.bySample = t.bySample
    BY <1>3, <2>1 DEF FieldsOnly
  <2>3. QED
    BY <1>2, <1>4, <1>12, <2>1, <2>2 DEF DiscoverFieldsOnly
<1>13. CASE Match
  <2>1. PICK c : c = [t EXCEPT !.match = Append(@, Item.pair)]
    OBVIOUS
  <2>2. QED
    BY <1>2, <1>3, <1>4, <1>13, <2>1 DEF Match
<1>14. CASE MatchFunc
  <2>1. CASE ~t.matchFuncs.made
    BY <1>2, <1>14, <2>1, PanicTally DEF MatchFunc
  <2>2. CASE t.matchFuncs.made
    <3>1. PICK c : c = [t EXCEPT
                         !.match = Append(@, Item.pair),
                         !.matchFuncs.of = [pair \in DOMAIN @ \cup {Item.pair} |->
                                              IF pair = Item.pair THEN Item.fn ELSE @[pair]]]
      OBVIOUS
    <3>2. DOMAIN c = DOMAIN t /\ c.funcs = t.funcs /\ c.bySample = t.bySample
      BY <1>3, <3>1
    <3>3. Sets(c) /\ Item.op = "matchFunc"
      BY <1>2, <1>14, <2>2, <3>1 DEF MatchFunc
    <3>4. QED
      BY <1>4, <3>2, <3>3
  <2>3. QED
    BY <2>1, <2>2
<1>15. CASE MatchSkip
  <2>1. PICK c : c = [t EXCEPT !.matchSkip = Append(@, Item.pair)]
    OBVIOUS
  <2>2. QED
    BY <1>2, <1>3, <1>4, <1>15, <2>1 DEF MatchSkip
<1>16. CASE DiscoverBySample
  <2>1. CASE t.bySample.on
    BY <1>1, <1>2, <1>16, <2>1, RefusedTally DEF DiscoverBySample
  <2>2. CASE ~t.bySample.on
    <3>1. PICK b, c : b = Sampled(t) /\ c = [t EXCEPT !.bySample = b]
      OBVIOUS
    <3>2. DOMAIN c = DOMAIN t /\ c.funcs = t.funcs /\ c.bySample.on = TRUE
      BY <1>3, <3>1 DEF Sampled
    <3>3. Sets(c) /\ Item.op = "sample" /\ Shaped(c)
      BY <1>2, <1>16, <2>2, <3>1, <3>2 DEF DiscoverBySample, Shaped
    <3>4. QED
      BY <1>1, <1>2, <2>2, <3>2, <3>3, SetsTally
  <2>3. QED
    BY <2>1, <2>2
<1>17. CASE DiscoverNested
  <2>1. CASE Wrong \in {Item.x, Item.y}
    BY <1>17, <2>1, PanicTally DEF DiscoverNested
  <2>2. CASE Wrong \notin {Item.x, Item.y}
    <3>1. PICK c : c = [t EXCEPT !.nested =
                         [side \in Sides |-> IF Item[side] = Nil THEN @[side]
                                             ELSE Append(@[side], Item[side])]]
      OBVIOUS
    <3>2. DOMAIN c = DOMAIN t /\ c.funcs = t.funcs /\ c.bySample = t.bySample
      BY <1>3, <3>1
    <3>3. Sets(c) /\ Item.op = "nested"
      BY <1>2, <1>17, <2>2, <3>1 DEF DiscoverNested
    <3>4. QED
      BY <1>4, <3>2, <3>3
  <2>3. QED
    BY <2>1, <2>2
<1>18. QED
  BY <1>5, <1>6, <1>7, <1>8, <1>9, <1>10, <1>11, <1>12, <1>13, <1>14, <1>15, <1>16, <1>17
  DEF ParseOption

LEMMA QualifierTally ==
  ASSUME Inv, Tally, Qualifier
  PROVE  Tally'
<1>1. Parsing /\ Item.op = "for" /\ NextItem /\ UNCHANGED <<prog, cfg, mods, errs>>
  BY DEF Qualifier, Option
<1>2. /\ IsList(Items) /\ at.i \in DOMAIN Items /\ at.i # 0 /\ Item = Items[at.i]
      /\ at.phase \in {"module", "injector"} /\ at.phase # "injector"
      /\ at.phase = "module" => Items = prog.modules[at.n]
  BY <1>1, Permitted
<1>3. at'.phase = at.phase /\ at'.n = at.n /\ at'.i = at.i + 1
  BY <1>1 DEF NextItem, Inv, Placed
<1>4. ASSUME NEW kind \in DOMAIN fors'
      PROVE  Shaped(fors'[kind]) /\ fors'[kind].bySample.on = FALSE
  <2>1. fors'[kind] = IF kind \in DOMAIN fors THEN fors[kind] ELSE EmptyConfig
    BY <1>4 DEF Qualifier
  <2>2. Shaped(EmptyConfig) /\ EmptyConfig.bySample.on = FALSE
    BY DEF Shaped, EmptyConfig, Off
  <2>3. QED
    BY <1>2, <2>1, <2>2 DEF Tally, Shapes, Sampling
<1>5. Shapes'
  BY <1>1, <1>4 DEF Tally, Shapes
<1>6. Imported'
  BY <1>1, <1>2, <1>3, GatheredSame DEF Tally, Imported
<1>7. errs' = errs \cup (IF Item.op = "bad" THEN {Error("option")} ELSE {})
                   \cup (IF Item.op = "sample" /\ cfg.bySample.on THEN {Error("sample")} ELSE {})
  BY <1>1
<1>8. QED
  BY <1>1, <1>2, <1>4, <1>5, <1>6, <1>7, TallyStep

LEMMA BeginModuleTally ==
  ASSUME Inv, Tally, BeginModule
  PROVE  Tally'
<1>1. /\ at.phase = "module" /\ at.i = 0 /\ cfg' = EmptyConfig /\ fors' = NoFors
      /\ UNCHANGED <<prog, mods, errs>>
      /\ at'.phase = "module" /\ at'.n = at.n /\ at'.i = 1
  BY DEF BeginModule, NextItem, Inv, Placed
<1>2. PICK opts : opts = prog.modules[at.n]
  OBVIOUS
<1>3. IsList(opts)
  BY <1>1, <1>2, ProgramsAre, ProgramsAssumption DEF Inv, Placed
<1>4. WrongsBefore("module", at.n, opts, 0) = {} /\ WrongsBefore("module", at.n, opts, 1) = {}
  BY <1>3, NoneBefore
<1>10. PICK D : D = DOMAIN mods
  OBVIOUS
<1>5. /\ DOMAIN mods' = D
      /\ \A r : ReportsBefore(DOMAIN mods, r)' = ReportsBefore(D, r)
      /\ \A m, r : PairsKnown(m, r)' = PairsKnown(m, r)
  BY <1>1, <1>10, Static
<1>11. \A r : AtDirective(prog', at', r) <=> AtDirective(prog, at, r)
  BY <1>1 DEF AtDirective
<1>6. Reported'
  <2>1. ASSUME NEW r \in DOMAIN prog.directives, AtDirective(prog, at, r)
        PROVE  errs' = ReportsBefore(D, r) \cup WrongsBefore("module", at.n, opts, 1)
    <3>1. errs = ReportsBefore(D, r) \cup WrongsBefore("module", at.n, opts, 0)
      BY <1>1, <1>2, <1>10, <2>1 DEF Tally, Reported
    <3>2. QED
      BY <1>1, <1>4, <3>1
  <2>2. QED
    BY <1>1, <1>2, <1>5, <1>11, <2>1 DEF Reported
<1>7. Imported'
  <2>1. EmptyConfig.funcs = <<>> /\ \A j \in DOMAIN opts : ~(j < 1)
    BY <1>3 DEF EmptyConfig, IsList
  <2>2. Gathered(<<>>, opts, 1)
    BY <2>1 DEF Gathered
  <2>3. QED
    BY <1>1, <1>2, <2>1, <2>2, EmptyIsSeq DEF Imported
<1>8. Known' /\ Sampling' /\ Shapes'
  BY <1>1, <1>5, <1>11 DEF Tally, Known, Sampling, Shapes, Shaped, NoFors
<1>9. QED
  BY <1>6, <1>7, <1>8 DEF Tally

-----------------------------------------------------------------------------
(* One module or directive more. *)
LEMMA ModulesMore ==
  ASSUME NEW D, NEW n, NEW r
  PROVE  ReportsBefore(D \cup {n}, r) = ReportsBefore(D, r) \cup MistakesOf(n)
<1>1. (UNION {MistakesOf(m) : m \in D \cup {n}}) = (UNION {MistakesOf(m) : m \in D}) \cup MistakesOf(n)
  OBVIOUS
<1>2. QED
  BY <1>1 DEF ReportsBefore

LEMMA DirectivesMore ==
  ASSUME Placed, NEW n \in DOMAIN prog.directives, NEW M
  PROVE  ReportsBefore(M, n + 1) = ReportsBefore(M, n) \cup ReportsOf(n)
<1> DEFINE D(j) == {k \in DOMAIN prog.directives : k < j}
<1>1. D(n + 1) = D(n) \cup {n}
  BY ProgramsAre
<1>2. PICK R : R = UNION {MistakesOf(m) : m \in M}
  OBVIOUS
<1>3. /\ ReportsBefore(M, n + 1) = R \cup UNION {ReportsOf(m) : m \in D(n + 1)}
      /\ ReportsBefore(M, n) = R \cup UNION {ReportsOf(m) : m \in D(n)}
  BY <1>2, Zenon DEF ReportsBefore
<1> HIDE DEF D
<1>4. PICK A, B : A = D(n + 1) /\ B = D(n)
  OBVIOUS
<1>5. {ReportsOf(m) : m \in A} = {ReportsOf(m) : m \in B} \cup {ReportsOf(n)}
  BY <1>1, <1>4
<1>6. (UNION {ReportsOf(m) : m \in A}) = (UNION {ReportsOf(m) : m \in B}) \cup ReportsOf(n)
  BY <1>5
<1>7. QED
  BY <1>3, <1>4, <1>6

(* What is reported of all is what there is, but for what a module hides.    *)
LEMMA AllMistakes ==
  ASSUME Placed
  PROVE  LET all == ReportsBefore(DOMAIN prog.modules, Len(prog.directives) + 1)
         IN  Mistakes \ Hidden \subseteq all /\ all \subseteq Mistakes \cup SecondSamples
<1>1. DOMAIN prog.directives = {d \in DOMAIN prog.directives : d < Len(prog.directives) + 1}
  BY ProgramsAre
<1>2. PICK all, M : /\ all = ReportsBefore(DOMAIN prog.modules, Len(prog.directives) + 1)
                    /\ M = UNION {MistakesOf(m) : m \in DOMAIN prog.modules}
  OBVIOUS
<1>3. all = M \cup UNION {ReportsOf(d) : d \in DOMAIN prog.directives}
  BY <1>1, <1>2, Zenon DEF ReportsBefore
<1>4. Mistakes = M \cup UNION {MistakesIn(d) : d \in DOMAIN prog.directives}
  BY <1>2, Zenon DEF Mistakes
<1>5. ASSUME NEW d \in DOMAIN prog.directives
      PROVE  /\ ~Halted(d) => MistakesIn(d) \subseteq ReportsOf(d)
             /\ ReportsOf(d) \subseteq MistakesIn(d) \cup Twice(d, prog.directives[d].opts)
  BY DEF MistakesIn, ReportsOf
<1>6. ASSUME NEW e \in Mistakes, e \notin Hidden PROVE e \in all
  <2>1. CASE e \in M
    BY <1>3, <2>1
  <2>2. CASE \E d \in DOMAIN prog.directives : e \in MistakesIn(d)
    <3>1. PICK d \in DOMAIN prog.directives : e \in MistakesIn(d)
      BY <2>2
    <3>2. ~Halted(d)
      BY <1>6, <3>1 DEF Hidden
    <3>3. e \in ReportsOf(d)
      BY <1>5, <3>1, <3>2
    <3>4. QED
      BY <1>3, <3>3
  <2>3. QED
    BY <1>4, <1>6, <2>1, <2>2
<1>7. ASSUME NEW e \in all PROVE e \in Mistakes \cup SecondSamples
  <2>1. CASE e \in M
    BY <1>4, <2>1
  <2>2. CASE \E d \in DOMAIN prog.directives : e \in ReportsOf(d)
    <3>1. PICK d \in DOMAIN prog.directives : e \in ReportsOf(d)
      BY <2>2
    <3>2. e \in MistakesIn(d) \/ e \in Twice(d, prog.directives[d].opts)
      BY <1>5, <3>1
    <3>3. QED
      BY <1>4, <3>2 DEF SecondSamples
  <2>3. QED
    BY <1>3, <1>7, <2>1, <2>2
<1>8. QED
  BY <1>2, <1>6, <1>7

LEMMA NothingBefore ==
  ASSUME Placed
  PROVE  ReportsBefore({}, 1) = {}
<1>1. {d \in DOMAIN prog.directives : d < 1} = {}
  BY ProgramsAre
<1>2. QED
  BY <1>1 DEF ReportsBefore

(* A mistake of a module is known by its place. *)
LEMMA ReportsAreOf ==
  /\ \A m : \A e \in MistakesOf(m) : e.at.phase = "module" /\ e.at.n = m
  /\ \A d : \A e \in ReportsOf(d) : e.at.phase = "injector"
<1>1. \A m : \A e \in MistakesOf(m) : e.at.phase = "module" /\ e.at.n = m
  BY DEF MistakesOf, Wrongs, ImportedTwice, Place
<1>2. \A d : \A e \in ReportsOf(d) : e.at.phase = "injector"
  <2>1. ASSUME NEW d, NEW opts, NEW e \in Wrongs("injector", d, opts) \cup Twice(d, opts)
        PROVE  e.at.phase = "injector"
    BY DEF Wrongs, Twice, Place
  <2>2. ASSUME NEW d, NEW e \in ReportsOf(d) PROVE e.at.phase = "injector"
    BY <2>1 DEF ReportsOf, Place
  <2>3. QED
    BY <2>2
<1>3. QED
  BY <1>1, <1>2

(* The functions of a module whose options have all been parsed. *)
LEMMA GatheredAll ==
  ASSUME NEW funcs, IsSeq(funcs), NEW opts, IsList(opts), Gathered(funcs, opts, Len(opts) + 1)
  PROVE  /\ {funcs[k].pair : k \in DOMAIN funcs}
              = {opts[j].pair : j \in {l \in DOMAIN opts : opts[l].op = "importFunc"}}
         /\ {funcs[k].i : k \in Duplicates(funcs)}
              = {j \in DOMAIN opts : opts[j].op = "importFunc" /\ \E k \in Imports(opts, opts[j].pair) : k < j}
<1>1. \A j \in DOMAIN opts : j < Len(opts) + 1 /\ j \in Nat
  BY DEF IsList
<1>2. \A k \in DOMAIN funcs :
        /\ funcs[k].i \in DOMAIN opts /\ opts[funcs[k].i].op = "importFunc"
        /\ opts[funcs[k].i].pair = funcs[k].pair
  BY DEF Gathered
<1>3. \A j \in DOMAIN opts : opts[j].op = "importFunc" => \E k \in DOMAIN funcs : funcs[k].i = j
  BY <1>1 DEF Gathered
<1>4. \A k, l \in DOMAIN funcs : k < l <=> funcs[k].i < funcs[l].i
  <2>1. SUFFICES ASSUME NEW k \in DOMAIN funcs, NEW l \in DOMAIN funcs
                 PROVE  k < l <=> funcs[k].i < funcs[l].i
    OBVIOUS
  <2>2. k \in Nat /\ l \in Nat /\ funcs[k].i \in Nat /\ funcs[l].i \in Nat
    BY <1>1, <1>2, AppendList
  <2>3. /\ k < l => funcs[k].i < funcs[l].i
        /\ l < k => funcs[l].i < funcs[k].i
    BY DEF Gathered
  <2>4. QED
    BY <2>2, <2>3
<1>5. {funcs[k].pair : k \in DOMAIN funcs}
        = {opts[j].pair : j \in {l \in DOMAIN opts : opts[l].op = "importFunc"}}
  BY <1>2, <1>3
<1>6. ASSUME NEW k \in Duplicates(funcs)
      PROVE  /\ funcs[k].i \in DOMAIN opts /\ opts[funcs[k].i].op = "importFunc"
             /\ \E l \in Imports(opts, opts[funcs[k].i].pair) : l < funcs[k].i
  <2>1. k \in DOMAIN funcs /\ DOMAIN funcs = 1 .. Len(funcs) /\ Len(funcs) \in Nat
    BY AppendList DEF Duplicates
  <2>2. PICK j \in 1 .. k - 1 : funcs[j].pair = funcs[k].pair
    BY DEF Duplicates
  <2>3. j \in DOMAIN funcs /\ j < k
    BY <2>1, <2>2
  <2>4. funcs[j].i < funcs[k].i
    BY <1>4, <2>1, <2>3
  <2>5. QED
    BY <1>2, <2>1, <2>2, <2>3, <2>4 DEF Imports
<1>7. ASSUME NEW j \in DOMAIN opts, opts[j].op = "importFunc",
             NEW l \in Imports(opts, opts[j].pair), l < j
      PROVE  \E k \in Duplicates(funcs) : funcs[k].i = j
  <2>1. l \in DOMAIN opts /\ opts[l].op = "importFunc" /\ opts[l].pair = opts[j].pair
    BY DEF Imports
  <2>2. PICK k \in DOMAIN funcs : funcs[k].i = j
    BY <1>3, <1>7
  <2>3. PICK h \in DOMAIN funcs : funcs[h].i = l
    BY <1>3, <2>1
  <2>4. h < k /\ funcs[h].pair = funcs[k].pair
    BY <1>2, <1>4, <1>7, <2>1, <2>2, <2>3
  <2>5. h \in 1 .. k - 1
    BY <2>2, <2>3, <2>4, AppendList
  <2>6. QED
    BY <2>2, <2>4, <2>5 DEF Duplicates
<1>8. {funcs[k].i : k \in Duplicates(funcs)}
        = {j \in DOMAIN opts : opts[j].op = "importFunc" /\ \E k \in Imports(opts, opts[j].pair) : k < j}
  BY <1>6, <1>7
<1>9. QED
  BY <1>5, <1>8

LEMMA EndModuleTally ==
  ASSUME Inv, Tally, EndModule
  PROVE  Tally'
<1>1. PICK n, opts, D : n = at.n /\ opts = prog.modules[n] /\ D = DOMAIN mods
  OBVIOUS
<1>2. /\ at.phase = "module" /\ at = [phase |-> "module", n |-> n, i |-> at.i]
      /\ n \in DOMAIN prog.modules /\ n \notin D /\ prog \in Programs
  BY <1>1 DEF EndModule, Inv, Placed
<1>3. IsList(opts) /\ at.i = Len(opts) + 1 /\ at.i # 0
  BY <1>1, <1>2, ProgramsAssumption, ListIs DEF EndModule, Items
<1>4. /\ IsSeq(cfg.funcs) /\ Gathered(cfg.funcs, opts, Len(opts) + 1)
      /\ (\A kind \in DOMAIN fors : fors[kind].bySample.on = FALSE)
      /\ \A m \in DOMAIN mods : \A kind \in DOMAIN mods[m].fors : mods[m].fors[kind].bySample.on = FALSE
  BY <1>1, <1>2, <1>3 DEF Tally, Imported, Sampling
<1>5. PICK F : F = cfg.funcs
  OBVIOUS
<1>6. /\ {F[k].pair : k \in DOMAIN F}
           = {opts[j].pair : j \in {l \in DOMAIN opts : opts[l].op = "importFunc"}}
      /\ {F[k].i : k \in Duplicates(F)}
           = {j \in DOMAIN opts : opts[j].op = "importFunc" /\ \E k \in Imports(opts, opts[j].pair) : k < j}
  <2>1. IsSeq(F) /\ IsList(opts) /\ Gathered(F, opts, Len(opts) + 1)
    BY <1>3, <1>4, <1>5
  <2>2. QED
    BY <2>1, GatheredAll, Zenon
<1>7. ASSUME NEW r \in DOMAIN prog.directives, AtDirective(prog, at, r)
      PROVE  errs' = ReportsBefore(D \cup {n}, r)
  <2>1. \A i : [at EXCEPT !.i = i] = Place("module", n, i)
    BY <1>2 DEF Place
  <2>2. errs' = errs \cup {[what |-> "import", at |-> Place("module", n, F[k].i)] : k \in Duplicates(F)}
    BY <1>5, <2>1 DEF EndModule
  <2>3. {[what |-> "import", at |-> Place("module", n, F[k].i)] : k \in Duplicates(F)}
          = {[what |-> "import", at |-> Place("module", n, i)] : i \in {F[k].i : k \in Duplicates(F)}}
    OBVIOUS
  <2>4. {[what |-> "import", at |-> Place("module", n, i)] : i \in {F[k].i : k \in Duplicates(F)}}
          = ImportedTwice(n)
    BY <1>1, <1>6, Zenon DEF ImportedTwice
  <2>5. WrongsBefore("module", n, opts, Len(opts) + 1) = Wrongs("module", n, opts)
    BY <1>3, AllBefore
  <2>6. errs = ReportsBefore(D, r) \cup Wrongs("module", n, opts)
    BY <1>1, <1>2, <1>3, <1>7, <2>5 DEF Tally, Reported
  <2>7. ReportsBefore(D \cup {n}, r) = ReportsBefore(D, r) \cup MistakesOf(n)
    BY ModulesMore
  <2>8. QED
    BY <1>1, <2>2, <2>3, <2>4, <2>6, <2>7 DEF MistakesOf
<1>8. PICK m : m = [cfg |-> cfg, fors |-> fors, known |-> {F[k].pair : k \in DOMAIN F}]
  OBVIOUS
<1>9. /\ mods' = [j \in D \cup {n} |-> IF j = n THEN m ELSE mods[j]]
      /\ prog' = prog /\ cfg' = cfg /\ fors' = fors
  BY <1>1, <1>5, <1>8 DEF EndModule
<1>10. /\ DOMAIN mods' = D \cup {n}
       /\ (\A j \in D : mods'[j] = mods[j]) /\ mods'[n] = m
  BY <1>2, <1>9
<1>11. ASSUME NEW r \in DOMAIN prog.directives, AtDirective(prog, at, r)
       PROVE  m.known = PairsKnown(n, r)
  <2>1. /\ DOMAIN prog.directives = 1 .. Len(prog.directives) /\ Len(prog.directives) \in Nat
        /\ DOMAIN prog.modules = 1 .. Len(prog.modules) /\ Len(prog.modules) \in Nat
        /\ prog.declared \in 0 .. Len(prog.modules)
        /\ \A d, e \in DOMAIN prog.directives :
             prog.directives[d].mod > prog.declared /\ prog.directives[e].mod = prog.directives[d].mod => d = e
    BY <1>2, InlinesAre
  <2>2. ASSUME NEW k \in DOMAIN prog.directives, k < r PROVE prog.directives[k].mod # n
    <3>1. r # 1
      BY <2>1, <2>2
    <3>2. n > prog.declared /\ prog.directives[r].mod = n
      BY <1>1, <1>2, <1>11, <3>1 DEF AtDirective
    <3>3. prog.directives[k].mod = n => r = k
      BY <2>1, <3>2
    <3>4. QED
      BY <2>1, <2>2, <3>3
  <2>3. {k \in DOMAIN prog.directives : k < r /\ Whole(k) /\ ~Halted(k) /\ prog.directives[k].mod = n} = {}
    BY <2>2
  <2>4. QED
    BY <1>1, <1>6, <1>8, <2>3 DEF PairsKnown
<1>12. ASSUME NEW r \in DOMAIN prog.directives, AtDirective(prog, at, r), NEW j \in DOMAIN mods'
       PROVE  mods'[j].known = PairsKnown(j, r)
  <2>1. CASE j \in D
    BY <1>1, <1>10, <1>12, <2>1 DEF Tally, Known
  <2>2. CASE j = n
    BY <1>10, <1>11, <1>12, <2>2
  <2>3. QED
    BY <1>10, <2>1, <2>2
<1>13. Shapes'
  <2>1. Shaped(m.cfg) /\ \A kind \in DOMAIN m.fors : Shaped(m.fors[kind])
    BY <1>8 DEF Tally, Shapes
  <2>2. \A j \in DOMAIN mods' :
          Shaped(mods'[j].cfg) /\ \A kind \in DOMAIN mods'[j].fors : Shaped(mods'[j].fors[kind])
    BY <1>1, <1>10, <2>1 DEF Tally, Shapes
  <2>3. QED
    BY <1>9, <2>2 DEF Tally, Shapes
<1>14. /\ at'.i = 0 /\ at'.phase \in {"module", "injector"}
       /\ \A r \in DOMAIN prog.directives : AtDirective(prog, at', r) <=> AtDirective(prog, at, r)
       /\ Placed'
  <2>1. at'.i = 0 /\ at'.phase \in {"module", "injector"}
    BY <1>2 DEF EndModule
  <2>2. QED
    BY <2>1, ModuleEnded DEF Inv
<1>15. Sampling'
  <2>1. \A kind \in DOMAIN m.fors : m.fors[kind].bySample.on = FALSE
    BY <1>4, <1>8
  <2>2. \A j \in DOMAIN mods' : \A kind \in DOMAIN mods'[j].fors : mods'[j].fors[kind].bySample.on = FALSE
    BY <1>1, <1>4, <1>10, <2>1
  <2>3. QED
    BY <1>14, <2>2 DEF Sampling
<1>16. PICK E, k : E = DOMAIN mods' /\ k = at'.n
  OBVIOUS
<1>17. /\ \A r : ReportsBefore(DOMAIN mods, r)' = ReportsBefore(E, r)
       /\ ReportsBefore(DOMAIN mods, at.n)' = ReportsBefore(E, k)
       /\ \A j, r : PairsKnown(j, r)' = PairsKnown(j, r)
  BY <1>9, <1>16, Static
<1>18. Known'
  BY <1>9, <1>12, <1>14, <1>17 DEF Known
<1>19. Reported'
  <2>1. CASE at'.phase = "module"
    <3>1. PICK next : next = prog.modules[k]
      OBVIOUS
    <3>2. IsList(next)
      BY <1>2, <1>9, <1>14, <1>16, <2>1, <3>1, ProgramsAssumption DEF Placed
    <3>3. WrongsBefore("module", k, next, 0) = {}
      BY <3>2, NoneBefore
    <3>4. QED
      BY <1>7, <1>9, <1>10, <1>14, <1>16, <1>17, <2>1, <3>1, <3>3 DEF Reported
  <2>2. CASE at'.phase = "injector"
    <3>1. PICK first : first = prog.directives[k].opts
      OBVIOUS
    <3>2. k \in DOMAIN prog.directives
      BY <1>9, <1>14, <1>16, <2>2, ProgramsAre DEF Placed, Inv
    <3>3. IsList(first)
      BY <1>2, <3>1, <3>2, ProgramsAssumption
    <3>4. WrongsBefore("injector", k, first, 0) = {} /\ TwiceBefore(k, first, 0) = {}
      BY <3>3, NoneBefore
    <3>5. AtDirective(prog, at, k)
      BY <1>14, <1>16, <2>2, <3>2 DEF AtDirective
    <3>6. errs' = ReportsBefore(E, k)
      BY <1>7, <1>10, <1>16, <3>2, <3>5
    <3>7. QED
      BY <1>9, <1>14, <1>16, <1>17, <2>2, <3>1, <3>4, <3>6 DEF Reported
  <2>3. QED
    BY <1>14, <2>1, <2>2
<1>20. QED
  BY <1>13, <1>14, <1>15, <1>18, <1>19 DEF Tally, Imported

(* The next directive, or the end of them, when the mistakes of this one     *)
(* have been reported and its pair is known.                                 *)
LEMMA NextDirectiveTally ==
  ASSUME Inv, at.phase = "injector", NEW reported, NextDirective(reported), UNCHANGED prog,
         Directive.mod \in Modules, DOMAIN mods' = DOMAIN mods,
         errs' = ReportsBefore(DOMAIN mods, at.n) \cup ReportsOf(at.n),
         \A m \in DOMAIN mods' : mods'[m].known = PairsKnown(m, at.n + 1),
         \A m \in DOMAIN mods' : \A kind \in DOMAIN mods'[m].fors : mods'[m].fors[kind].bySample.on = FALSE,
         Shapes'
  PROVE  Tally'
<1>1. PICK n, D : n = at.n /\ D = DOMAIN mods
  OBVIOUS
<1>2. /\ n \in DOMAIN prog.directives /\ n \in 1 .. Len(prog.directives) /\ Len(prog.directives) \in Nat
      /\ at = [phase |-> "injector", n |-> n, i |-> at.i] /\ prog \in Programs
  BY <1>1, ProgramsAre DEF Inv, Placed
<1>3. ReportsBefore(D, n + 1) = ReportsBefore(D, n) \cup ReportsOf(n)
  BY <1>2, DirectivesMore DEF Inv
<1>4. errs' = ReportsBefore(D, n + 1) /\ DOMAIN mods' = D
  BY <1>1, <1>3
<1>5. CASE n < Len(prog.directives)
  <2>1. at'.phase = "injector" /\ at'.n = n + 1 /\ at'.i = 0
    BY <1>1, <1>2, <1>5 DEF NextDirective
  <2>2. PICK next : next = prog.directives[n + 1].opts
    OBVIOUS
  <2>3. IsList(next)
    BY <1>2, <1>5, <2>2, ProgramsAre, ProgramsAssumption DEF Inv
  <2>4. WrongsBefore("injector", n + 1, next, 0) = {} /\ TwiceBefore(n + 1, next, 0) = {}
    BY <2>3, NoneBefore
  <2>5. /\ ReportsBefore(DOMAIN mods, at.n)' = ReportsBefore(D, n + 1)
        /\ \A j, r : PairsKnown(j, r)' = PairsKnown(j, r)
    BY <1>4, <2>1, Static
  <2>6. Reported'
    BY <1>4, <2>1, <2>2, <2>4, <2>5 DEF Reported
  <2>7. \A r : AtDirective(prog, at', r) => r = n + 1
    BY <2>1 DEF AtDirective
  <2>8. Known' /\ Sampling' /\ Imported'
    BY <1>1, <2>1, <2>5, <2>7 DEF Known, Sampling, Imported
  <2>9. QED
    BY <2>6, <2>8 DEF Tally
<1>6. CASE ~(n < Len(prog.directives))
  <2>1. at'.phase \in {"build", "done"} /\ n = Len(prog.directives)
    BY <1>1, <1>2, <1>6 DEF NextDirective
  <2>2. PICK k : k = at'.n
    OBVIOUS
  <2>3. ReportsBefore(DOMAIN mods, Len(prog.directives) + 1)' = ReportsBefore(D, n + 1)
    BY <1>4, <2>1, <2>2, Static
  <2>4. Reported'
    BY <1>4, <2>1, <2>3 DEF Reported
  <2>5. Known' /\ Sampling' /\ Imported'
    BY <2>1 DEF Known, Sampling, Imported, AtDirective
  <2>6. QED
    BY <2>4, <2>5 DEF Tally
<1>7. QED
  BY <1>5, <1>6

(* What a module knows once another directive has been parsed. *)
LEMMA KnownMore ==
  ASSUME Placed, NEW n \in DOMAIN prog.directives, NEW m
  PROVE  PairsKnown(m, n + 1)
           = PairsKnown(m, n) \cup IF Whole(n) /\ ~Halted(n) /\ prog.directives[n].mod = m
                                    THEN {prog.directives[n].pair} ELSE {}
<1> DEFINE D(j) == {k \in DOMAIN prog.directives :
                      k < j /\ Whole(k) /\ ~Halted(k) /\ prog.directives[k].mod = m}
           Old == {prog.modules[m][i].pair :
                     i \in {j \in DOMAIN prog.modules[m] : prog.modules[m][j].op = "importFunc"}}
           Pairs(S) == {prog.directives[k].pair : k \in S}
<1>1. D(n + 1) = D(n) \cup IF Whole(n) /\ ~Halted(n) /\ prog.directives[n].mod = m THEN {n} ELSE {}
  BY ProgramsAre
<1>2. PairsKnown(m, n + 1) = Old \cup Pairs(D(n + 1)) /\ PairsKnown(m, n) = Old \cup Pairs(D(n))
  BY Zenon DEF PairsKnown
<1> HIDE DEF D, Old
<1>3. CASE Whole(n) /\ ~Halted(n) /\ prog.directives[n].mod = m
  <2>1. Pairs(D(n + 1)) = Pairs(D(n)) \cup {prog.directives[n].pair}
    BY <1>1, <1>3
  <2>2. QED
    BY <1>2, <1>3, <2>1
<1>4. CASE ~(Whole(n) /\ ~Halted(n) /\ prog.directives[n].mod = m)
  BY <1>1, <1>2, <1>4
<1>5. QED
  BY <1>3, <1>4

LEMMA SkipInjectorTally ==
  ASSUME Inv, Tally, SkipInjector
  PROVE  Tally'
<1>1. PICK n, opts, reported : n = at.n /\ opts = prog.directives[n].opts /\ reported = errs'
  OBVIOUS
<1>2. /\ at.phase = "injector" /\ at.i = 0 /\ n \in DOMAIN prog.directives /\ ~Whole(n)
      /\ at = [phase |-> "injector", n |-> n, i |-> 0] /\ prog \in Programs
      /\ NextDirective(reported) /\ UNCHANGED <<prog, cfg, fors, mods>> /\ Directive.broken
  BY <1>1, ProgramsAre DEF SkipInjector, Inv, Placed, Directive, Whole
<1>3. IsList(opts)
  BY <1>1, <1>2, ProgramsAssumption
<1>4. errs = ReportsBefore(DOMAIN mods, n)
  BY <1>1, <1>2, <1>3, NoneBefore DEF Tally, Reported
<1>5. errs' = errs \cup ReportsOf(n)
  BY <1>1, <1>2 DEF SkipInjector, Error, ReportsOf, Place
<1>6. errs' = ReportsBefore(DOMAIN mods, at.n) \cup ReportsOf(at.n)
  BY <1>1, <1>4, <1>5
<1>7. \A m \in DOMAIN mods' : mods'[m].known = PairsKnown(m, at.n + 1)
  <2>1. ASSUME NEW m PROVE PairsKnown(m, n + 1) = PairsKnown(m, n)
    <3>1. PairsKnown(m, n + 1)
            = PairsKnown(m, n) \cup IF Whole(n) /\ ~Halted(n) /\ prog.directives[n].mod = m
                                     THEN {prog.directives[n].pair} ELSE {}
      BY <1>2, KnownMore DEF Inv
    <3>2. QED
      BY <1>2, <3>1
  <2>2. AtDirective(prog, at, n)
    BY <1>1, <1>2 DEF AtDirective
  <2>3. QED
    BY <1>1, <1>2, <2>1, <2>2 DEF Tally, Known
<1>8. \A m \in DOMAIN mods' : \A kind \in DOMAIN mods'[m].fors : mods'[m].fors[kind].bySample.on = FALSE
  BY <1>2 DEF Tally, Sampling
<1>9. Shapes'
  BY <1>2 DEF Tally, Shapes
<1>11. Directive.mod \in Modules
  BY <1>2, BrokenModule DEF Inv
<1>12. DOMAIN mods' = DOMAIN mods /\ prog' = prog
  BY <1>2
<1>10. QED
  BY <1>2, <1>6, <1>7, <1>8, <1>9, <1>11, <1>12, NextDirectiveTally

(* Whether the inline module of a directive has a mistake is what the errors *)
(* reported by then say.                                                     *)
LEMMA FaultyIsHalted ==
  ASSUME Inv, Tally, ToParse, Directive.mod \in Modules, NEW n, n = at.n
  PROVE  n \in DOMAIN prog.directives /\ Whole(n) /\ (Faulty(Directive.mod) <=> Halted(n))
<1>1. PICK m, opts, D : m = Directive.mod /\ opts = prog.directives[n].opts /\ D = DOMAIN mods
  OBVIOUS
<1>2. /\ at.phase = "injector" /\ at.i = 0 /\ n \in DOMAIN prog.directives /\ Whole(n)
      /\ prog \in Programs /\ m = prog.directives[n].mod /\ m \in {0} \cup D
  BY <1>1, ProgramsAre DEF ToParse, Inv, Placed, Directive, Whole, Modules
<1>3. IsList(opts)
  BY <1>1, <1>2, ProgramsAssumption
<1>4. errs = ReportsBefore(D, n)
  BY <1>1, <1>2, <1>3, NoneBefore DEF Tally, Reported
<1>5. prog.declared \in 0 .. Len(prog.modules)
  BY <1>2, InlinesAre
<1>6. ASSUME m > prog.declared
      PROVE  (\E e \in errs : e.at.phase = "module" /\ e.at.n = m) <=> MistakesOf(m) # {}
  <2>1. m \in D
    BY <1>2, <1>5, <1>6
  <2>2. MistakesOf(m) \subseteq errs
    BY <1>4, <2>1 DEF ReportsBefore
  <2>3. ASSUME NEW e \in errs, e.at.phase = "module", e.at.n = m
        PROVE  e \in MistakesOf(m)
    <3>1. CASE \E k \in D : e \in MistakesOf(k)
      BY <2>3, <3>1, ReportsAreOf
    <3>2. CASE \E d \in DOMAIN prog.directives : e \in ReportsOf(d)
      <4>1. e.at.phase = "injector"
        BY <3>2, ReportsAreOf
      <4>2. QED
        BY <2>3, <4>1
    <3>3. QED
      BY <1>4, <2>3, <3>1, <3>2 DEF ReportsBefore
  <2>4. QED
    BY <2>2, <2>3, ReportsAreOf
<1>7. Faulty(m) <=> Halted(n)
  BY <1>2, <1>6 DEF Faulty, Halted
<1>8. QED
  BY <1>1, <1>2, <1>7

LEMMA AbandonInjectorTally ==
  ASSUME Inv, Tally, AbandonInjector
  PROVE  Tally'
<1>1. PICK n, opts, reported : n = at.n /\ opts = prog.directives[n].opts /\ reported = errs
  OBVIOUS
<1>2. /\ at.phase = "injector" /\ at.i = 0 /\ n \in DOMAIN prog.directives /\ Whole(n) /\ Halted(n)
      /\ prog \in Programs /\ Directive.mod \in Modules
      /\ NextDirective(reported) /\ UNCHANGED <<prog, cfg, fors, mods, errs>>
  <2>1. ToParse /\ Directive.mod \in Modules /\ Faulty(Directive.mod)
    BY DEF AbandonInjector
  <2>2. n \in DOMAIN prog.directives /\ Whole(n) /\ Halted(n)
    BY <1>1, <2>1, FaultyIsHalted
  <2>3. QED
    BY <1>1, <2>1, <2>2 DEF AbandonInjector, ToParse, Inv, Placed
<1>3. IsList(opts)
  BY <1>1, <1>2, ProgramsAssumption
<1>4. errs = ReportsBefore(DOMAIN mods, n)
  BY <1>1, <1>2, <1>3, NoneBefore DEF Tally, Reported
<1>5. ReportsOf(n) = {}
  BY <1>2 DEF ReportsOf
<1>6. errs' = ReportsBefore(DOMAIN mods, at.n) \cup ReportsOf(at.n)
  BY <1>1, <1>2, <1>4, <1>5
<1>7. \A m \in DOMAIN mods' : mods'[m].known = PairsKnown(m, at.n + 1)
  <2>1. ASSUME NEW m PROVE PairsKnown(m, n + 1) = PairsKnown(m, n)
    <3>1. PairsKnown(m, n + 1)
            = PairsKnown(m, n) \cup IF Whole(n) /\ ~Halted(n) /\ prog.directives[n].mod = m
                                     THEN {prog.directives[n].pair} ELSE {}
      BY <1>2, KnownMore DEF Inv
    <3>2. QED
      BY <1>2, <3>1
  <2>2. AtDirective(prog, at, n)
    BY <1>1, <1>2 DEF AtDirective
  <2>3. QED
    BY <1>1, <1>2, <2>1, <2>2 DEF Tally, Known
<1>8. \A m \in DOMAIN mods' : \A kind \in DOMAIN mods'[m].fors : mods'[m].fors[kind].bySample.on = FALSE
  BY <1>2 DEF Tally, Sampling
<1>9. Shapes'
  BY <1>2 DEF Tally, Shapes
<1>10. DOMAIN mods' = DOMAIN mods /\ prog' = prog
  BY <1>2
<1>11. QED
  BY <1>2, <1>6, <1>7, <1>8, <1>9, <1>10, NextDirectiveTally

LEMMA BeginInlineTally ==
  ASSUME Inv, Tally, BeginInline
  PROVE  Tally'
<1>1. PICK n, m, D, opts, its : /\ n = at.n /\ m = Directive.mod /\ D = DOMAIN mods
                                /\ opts = prog.directives[n].opts /\ its = prog.modules[m]
  OBVIOUS
<1>2. /\ at.phase = "injector" /\ at.i = 0 /\ n \in DOMAIN prog.directives
      /\ prog \in Programs /\ UNCHANGED <<prog, cfg, fors, mods, errs>>
      /\ at' = [phase |-> "module", n |-> m, i |-> 0]
  BY <1>1, ProgramsAre DEF BeginInline, ToParse, Inv, Placed
<1>3. /\ Placed'
      /\ \A r \in DOMAIN prog.directives : AtDirective(prog, at', r) <=> AtDirective(prog, at, r)
  BY InlineBegun DEF Inv
<1>4. IsList(opts) /\ IsList(its)
  BY <1>1, <1>2, <1>3, ProgramsAssumption DEF Placed
<1>5. errs = ReportsBefore(D, n)
  BY <1>1, <1>2, <1>4, NoneBefore DEF Tally, Reported
<1>6. WrongsBefore("module", m, its, 0) = {}
  BY <1>4, NoneBefore
<1>7. /\ DOMAIN mods' = D
      /\ \A r : ReportsBefore(DOMAIN mods, r)' = ReportsBefore(D, r)
      /\ \A j, r : PairsKnown(j, r)' = PairsKnown(j, r)
  BY <1>1, <1>2, Static
<1>8. \A r \in DOMAIN prog.directives : AtDirective(prog, at, r) => r = n
  BY <1>1, <1>2 DEF AtDirective
<1>9. Reported'
  BY <1>1, <1>2, <1>3, <1>5, <1>6, <1>7, <1>8 DEF Reported
<1>10. Known'
  BY <1>2, <1>3, <1>7 DEF Tally, Known
<1>11. Imported' /\ Sampling' /\ Shapes'
  BY <1>2 DEF Tally, Imported, Sampling, Shapes
<1>12. QED
  BY <1>9, <1>10, <1>11 DEF Tally

(* The module of a directive is as the modules are. *)
LEMMA ModuleShaped ==
  ASSUME Inv, Tally, Directive.mod \in Modules
  PROVE  /\ Shaped(ModuleOf(Directive).cfg)
         /\ \A kind \in DOMAIN ModuleOf(Directive).fors :
              ModuleOf(Directive).fors[kind].bySample.on = FALSE
<1>1. PICK d : d = Directive
  OBVIOUS
<1>3. CASE d.mod = 0
  <2>1. ModuleOf(Directive) = [cfg |-> EmptyConfig, fors |-> NoFors, known |-> {}]
    BY <1>1, <1>3 DEF ModuleOf, NilModule
  <2>2. DOMAIN NoFors = {}
    BY DEF NoFors
  <2>3. QED
    BY <2>1, <2>2 DEF Shaped
<1>4. CASE d.mod # 0
  <2>1. d.mod \in DOMAIN mods /\ ModuleOf(Directive) = mods[d.mod]
    BY <1>1, <1>4 DEF Modules, ModuleOf
  <2>2. QED
    BY <2>1 DEF Tally, Shapes, Sampling
<1>5. QED
  BY <1>3, <1>4

LEMMA BeginInjectorTally ==
  ASSUME Inv, Tally, BeginInjector
  PROVE  Tally'
<1>1. PICK n, opts, D : n = at.n /\ opts = prog.directives[n].opts /\ D = DOMAIN mods
  OBVIOUS
<1>2. /\ at.phase = "injector" /\ at.i = 0 /\ n \in DOMAIN prog.directives /\ Whole(n) /\ ~Halted(n)
      /\ prog \in Programs /\ UNCHANGED <<prog, mods, errs>> /\ fors' = NoFors
      /\ at'.phase = "injector" /\ at'.n = n /\ at'.i = 1 /\ Directive.mod \in Modules
  <2>1. ToParse /\ Directive.mod \in Modules /\ ~Faulty(Directive.mod)
    BY DEF BeginInjector
  <2>2. n \in DOMAIN prog.directives /\ Whole(n) /\ ~Halted(n)
    BY <1>1, <2>1, FaultyIsHalted
  <2>3. at'.phase = "injector" /\ at'.n = n /\ at'.i = 1
    BY <1>1, <2>1 DEF BeginInjector, ToParse, NextItem, Inv, Placed
  <2>4. QED
    BY <2>1, <2>2, <2>3 DEF BeginInjector, ToParse, Inv, Placed
<1>3. IsList(opts)
  BY <1>1, <1>2, ProgramsAssumption
<1>4. /\ WrongsBefore("injector", n, opts, 0) = {} /\ TwiceBefore(n, opts, 0) = {}
      /\ WrongsBefore("injector", n, opts, 1) = {} /\ TwiceBefore(n, opts, 1) = {}
  BY <1>3, NoneBefore
<1>5. /\ ReportsBefore(DOMAIN mods, at.n)' = ReportsBefore(D, n)
      /\ \A j, r : PairsKnown(j, r)' = PairsKnown(j, r)
  BY <1>1, <1>2, Static
<1>6. Reported'
  BY <1>1, <1>2, <1>4, <1>5 DEF Tally, Reported
<1>17. \A r : AtDirective(prog', at', r) <=> AtDirective(prog, at, r)
  BY <1>1, <1>2 DEF AtDirective
<1>7. Known'
  BY <1>1, <1>2, <1>5, <1>17 DEF Tally, Known
<1>8. PICK kind, mod : kind = Directive.kind /\ mod = ModuleOf(Directive)
  OBVIOUS
<1>9. PICK st : st = ForkFor(kind, mod)
  OBVIOUS
<1>10. Shaped(st.cfg) /\ st.cfg.bySample = Off(Nil, Nil)
  BY <1>2, <1>8, <1>9, ModuleShaped, ForkForKeeps
<1>11. cfg' = [st.cfg EXCEPT !.bySample.x = Own, !.bySample.y = Own]
  BY <1>8, <1>9 DEF BeginInjector
<1>12. Shaped(cfg') /\ cfg'.bySample.on = FALSE
  <2>1. PICK c : c = st.cfg
    OBVIOUS
  <2>2. DOMAIN c = DOMAIN EmptyConfig /\ "bySample" \in DOMAIN c /\ c.bySample = [on |-> FALSE, x |-> Nil, y |-> Nil]
    BY <1>10, <2>1, Fields DEF Shaped, Off
  <2>3. cfg' = [c EXCEPT !.bySample.x = Own, !.bySample.y = Own]
    BY <1>11, <2>1
  <2>4. PICK a, b : a = [c.bySample EXCEPT !.x = Own] /\ b = [a EXCEPT !.y = Own]
    OBVIOUS
  <2>5. a.on = FALSE /\ DOMAIN a = {"on", "x", "y"}
    BY <2>2, <2>4
  <2>6. b.on = FALSE
    BY <2>4, <2>5
  <2>7. PICK e : e = [c EXCEPT !.bySample = a]
    OBVIOUS
  <2>8. DOMAIN e = DOMAIN c /\ e.bySample = a
    BY <2>2, <2>7
  <2>9. cfg' = [e EXCEPT !.bySample.y = Own]
    BY <2>3, <2>4, <2>7, Zenon
  <2>10. cfg' = [e EXCEPT !.bySample = b]
    BY <2>4, <2>8, <2>9
  <2>11. DOMAIN cfg' = DOMAIN e /\ cfg'.bySample = b
    BY <2>2, <2>8, <2>10
  <2>12. QED
    BY <2>2, <2>6, <2>8, <2>11 DEF Shaped
<1>13. Shapes'
  BY <1>2, <1>12 DEF Tally, Shapes, NoFors
<1>14. Sampling'
  <2>1. \A j \in DOMAIN opts : ~(j < 1)
    BY <1>3 DEF IsList
  <2>2. Whole(at.n)' = Whole(n) /\ Halted(at.n)' = Halted(n)
    BY <1>2, StaticDirective
  <2>3. QED
    BY <1>1, <1>2, <1>12, <2>1, <2>2 DEF Tally, Sampling
<1>15. Imported'
  BY <1>2 DEF Imported
<1>16. QED
  BY <1>6, <1>7, <1>13, <1>14, <1>15 DEF Tally

(* A directive's pair is known to its module exactly if it is not the first  *)
(* there for the pair.                                                       *)
LEMMA KnownIsTwice ==
  ASSUME Inv, Tally, at.phase = "injector", NEW n, n = at.n, Directive.mod \in Modules, ~Halted(n)
  PROVE  prog.directives[n].pair \in ModuleOf(Directive).known <=> DeclaredTwice(n)
<1>1. PICK d, m : d = prog.directives[n] /\ m = d.mod
  OBVIOUS
<1>2. /\ n \in DOMAIN prog.directives /\ Directive = d
      /\ DOMAIN prog.directives = 1 .. Len(prog.directives) /\ Len(prog.directives) \in Nat
  BY <1>1, ProgramsAre DEF Inv, Placed, Directive
<1>3. CASE m = 0
  BY <1>1, <1>2, <1>3 DEF ModuleOf, NilModule, DeclaredTwice
<1>4. CASE m # 0
  <2>1. m \in DOMAIN mods /\ ModuleOf(Directive) = mods[m]
    BY <1>1, <1>2, <1>4 DEF Modules, ModuleOf
  <2>9. AtDirective(prog, at, n)
    BY <1>2 DEF AtDirective
  <2>2. ModuleOf(Directive).known = PairsKnown(m, n)
    BY <1>2, <2>1, <2>9 DEF Tally, Known
  <2>8. \A k \in DOMAIN prog.directives : prog.directives[k].mod = m => ~Halted(k)
    BY <1>1 DEF Halted
  <2>3. \A k \in DOMAIN prog.directives : k < n <=> k \in 1 .. n - 1
    BY <1>2
  <2>4. 1 .. n - 1 \subseteq DOMAIN prog.directives
    BY <1>2
  <2>5. d.pair \in PairsKnown(m, n) <=>
          \/ \E i \in DOMAIN prog.modules[m] :
               prog.modules[m][i].op = "importFunc" /\ prog.modules[m][i].pair = d.pair
          \/ \E k \in DOMAIN prog.directives :
               /\ k < n /\ Whole(k) /\ ~Halted(k) /\ prog.directives[k].mod = m
               /\ prog.directives[k].pair = d.pair
    BY DEF PairsKnown
  <2>6. DeclaredTwice(n) <=>
          \/ \E i \in DOMAIN prog.modules[m] :
               prog.modules[m][i].op = "importFunc" /\ prog.modules[m][i].pair = d.pair
          \/ \E k \in 1 .. n - 1 :
               Whole(k) /\ prog.directives[k].mod = m /\ prog.directives[k].pair = d.pair
    BY <1>1, <1>4 DEF DeclaredTwice, Imports
  <2>7. QED
    BY <1>1, <2>2, <2>3, <2>4, <2>5, <2>6, <2>8
<1>5. QED
  BY <1>3, <1>4

LEMMA EndInjectorTally ==
  ASSUME Inv, Tally, EndInjector
  PROVE  Tally'
<1>1. PICK n, d, m, opts, reported :
        n = at.n /\ d = prog.directives[n] /\ m = d.mod /\ opts = d.opts /\ reported = errs'
  OBVIOUS
<1>2. /\ at.phase = "injector" /\ n \in DOMAIN prog.directives
      /\ at = [phase |-> "injector", n |-> n, i |-> at.i] /\ prog \in Programs
      /\ NextDirective(reported) /\ prog' = prog /\ cfg' = cfg /\ fors' = fors
      /\ Directive = d /\ Items = opts /\ at.i = Len(opts) + 1
  BY <1>1, ProgramsAre DEF EndInjector, Inv, Placed, Directive, Items
<1>3. IsList(opts) /\ at.i # 0
  BY <1>1, <1>2, ProgramsAssumption, ListIs
<1>4. Whole(n) /\ ~Halted(n) /\ Directive.mod \in Modules
  BY <1>1, <1>2, <1>3, ModuleThere DEF Tally, Sampling, Inv
<1>5. errs = ReportsBefore(DOMAIN mods, n) \cup (Wrongs("injector", n, opts) \cup Twice(n, opts))
  <2>1. PICK i : i = Len(opts) + 1
    OBVIOUS
  <2>2. WrongsBefore("injector", n, opts, i) = Wrongs("injector", n, opts) /\ TwiceBefore(n, opts, i) = Twice(n, opts)
    BY <1>3, <2>1, AllBefore
  <2>3. errs = ReportsBefore(DOMAIN mods, n)
               \cup (WrongsBefore("injector", n, opts, i) \cup TwiceBefore(n, opts, i))
    BY <1>1, <1>2, <2>1 DEF Tally, Reported
  <2>4. QED
    BY <2>2, <2>3
<1>6. errs' = errs \cup IF DeclaredTwice(n)
                          THEN {[what |-> "duplicate", at |-> Place("injector", n, Len(opts) + 1)]} ELSE {}
  <2>1. d.pair \in ModuleOf(Directive).known <=> DeclaredTwice(n)
    BY <1>1, <1>2, <1>4, KnownIsTwice
  <2>2. Error("duplicate") = [what |-> "duplicate", at |-> Place("injector", n, Len(opts) + 1)]
    BY <1>2 DEF Error, Place
  <2>3. QED
    BY <1>2, <2>1, <2>2 DEF EndInjector
<1>7. ReportsOf(n) = (Wrongs("injector", n, opts) \cup Twice(n, opts))
                     \cup IF DeclaredTwice(n)
                            THEN {[what |-> "duplicate", at |-> Place("injector", n, Len(opts) + 1)]} ELSE {}
  BY <1>1, <1>4 DEF ReportsOf
<1>8. errs' = ReportsBefore(DOMAIN mods, at.n) \cup ReportsOf(at.n)
  BY <1>1, <1>5, <1>6, <1>7
<1>9. \A j : PairsKnown(j, n + 1) = PairsKnown(j, n) \cup IF m = j THEN {d.pair} ELSE {}
  BY <1>1, <1>2, <1>4, KnownMore DEF Inv
<1>13. \A j \in DOMAIN mods : mods[j].known = PairsKnown(j, n)
  <2>1. AtDirective(prog, at, n)
    BY <1>1, <1>2 DEF AtDirective
  <2>2. QED
    BY <1>2, <2>1 DEF Tally, Known
<1>10. CASE m = 0
  <2>1. mods' = mods
    BY <1>1, <1>2, <1>10 DEF EndInjector
  <2>2. \A j \in DOMAIN mods : j # 0
    BY ProgramsAre DEF Inv, Placed
  <2>3. ASSUME NEW j \in DOMAIN mods' PROVE mods'[j].known = PairsKnown(j, at.n + 1)
    <3>1. mods[j].known = PairsKnown(j, n)
      BY <1>13, <2>1
    <3>2. PairsKnown(j, n + 1) = PairsKnown(j, n)
      BY <1>9, <1>10, <2>1, <2>2
    <3>3. QED
      BY <1>1, <2>1, <3>1, <3>2
  <2>4. \A j \in DOMAIN mods' : \A kind \in DOMAIN mods'[j].fors : mods'[j].fors[kind].bySample.on = FALSE
    BY <2>1 DEF Tally, Sampling
  <2>5. Shapes'
    BY <1>2, <2>1 DEF Tally, Shapes
  <2>6. DOMAIN mods' = DOMAIN mods
    BY <2>1
  <2>7. QED
    BY <1>2, <1>4, <1>8, <2>3, <2>4, <2>5, <2>6, NextDirectiveTally
<1>11. CASE m # 0
  <2>1. PICK K, r : K = mods[m].known \cup {d.pair} /\ r = [mods[m] EXCEPT !.known = K]
    OBVIOUS
  <2>2. mods' = [mods EXCEPT ![m] = r]
    BY <1>1, <1>2, <1>11, <2>1 DEF EndInjector
  <2>3. /\ DOMAIN mods' = DOMAIN mods
        /\ \A j \in DOMAIN mods : mods'[j] = IF j = m THEN r ELSE mods[j]
    BY <2>2
  <2>4. m \in DOMAIN mods => r.known = K /\ r.cfg = mods[m].cfg /\ r.fors = mods[m].fors
    <3>1. ASSUME m \in DOMAIN mods PROVE DOMAIN mods[m] = {"cfg", "fors", "known"}
      BY <3>1 DEF Inv, Kept
    <3>2. QED
      BY <2>1, <3>1
  <2>5. ASSUME NEW j \in DOMAIN mods' PROVE mods'[j].known = PairsKnown(j, at.n + 1)
    <3>1. mods[j].known = PairsKnown(j, n)
      BY <1>13, <2>3
    <3>2. mods'[j].known = mods[j].known \cup IF m = j THEN {d.pair} ELSE {}
      BY <2>1, <2>3, <2>4
    <3>3. QED
      BY <1>1, <1>9, <3>1, <3>2
  <2>6. \A j \in DOMAIN mods' : mods'[j].cfg = mods[j].cfg /\ mods'[j].fors = mods[j].fors
    BY <2>3, <2>4
  <2>7. \A j \in DOMAIN mods' : \A kind \in DOMAIN mods'[j].fors : mods'[j].fors[kind].bySample.on = FALSE
    BY <2>3, <2>6 DEF Tally, Sampling
  <2>8. Shapes'
    BY <1>2, <2>3, <2>6 DEF Tally, Shapes
  <2>9. QED
    BY <1>2, <1>4, <1>8, <2>3, <2>5, <2>7, <2>8, NextDirectiveTally
<1>12. QED
  BY <1>10, <1>11

LEMMA ForkForSubconvTally ==
  ASSUME Inv, Tally, ForkForSubconv
  PROVE  Tally'
<1>1. /\ at.phase = "build" /\ UNCHANGED <<prog, cfg, fors, mods, errs>>
      /\ at'.phase \in {"build", "done"}
  BY DEF ForkForSubconv, Inv, Placed
<1>2. PICK D, k : D = DOMAIN mods /\ k = at'.n
  OBVIOUS
<1>3. ReportsBefore(DOMAIN mods, Len(prog.directives) + 1)' = ReportsBefore(D, Len(prog.directives) + 1)
  BY <1>1, <1>2, Static
<1>4. \A r : ~AtDirective(prog', at', r)
  BY <1>1 DEF AtDirective
<1>5. QED
  BY <1>1, <1>2, <1>3, <1>4 DEF Tally, Reported, Imported, Known, Sampling, Shapes

LEMMA TallyInit ==
  ASSUME Init
  PROVE  Tally
<1>1. Placed
  BY InvInit DEF Inv
<1>2. /\ at.n = 1 /\ at.i = 0 /\ at.phase = IF prog.declared = 0 THEN "injector" ELSE "module"
      /\ DOMAIN mods = {} /\ fors = NoFors /\ cfg = EmptyConfig /\ errs = {}
  BY DEF Init
<1>3. PICK opts, first : opts = prog.modules[1] /\ first = prog.directives[1].opts
  OBVIOUS
<1>4. ASSUME at.phase = "module" PROVE WrongsBefore("module", 1, opts, 0) = {}
  <2>1. IsList(opts)
    BY <1>1, <1>2, <1>3, <1>4, ProgramsAssumption DEF Placed
  <2>2. QED
    BY <2>1, NoneBefore
<1>5. WrongsBefore("injector", 1, first, 0) = {} /\ TwiceBefore(1, first, 0) = {}
  <2>1. IsList(first)
    BY <1>1, <1>3, ProgramsAre, ProgramsAssumption DEF Placed
  <2>2. QED
    BY <2>1, NoneBefore
<1>6. ReportsBefore(DOMAIN mods, 1) = {}
  BY <1>1, <1>2, NothingBefore
<1>7. ASSUME NEW r \in DOMAIN prog.directives, AtDirective(prog, at, r) PROVE r = 1
  <2>1. prog.declared \in 0 .. Len(prog.modules) /\ Len(prog.modules) \in Nat
    BY <1>1, InlinesAre DEF Placed
  <2>2. at.phase = "module" => 1 <= prog.declared
    BY <1>2, <2>1
  <2>3. QED
    BY <1>2, <1>7, <2>1, <2>2 DEF AtDirective
<1>8. Reported
  BY <1>2, <1>3, <1>4, <1>5, <1>6, <1>7 DEF Reported
<1>9. QED
  BY <1>2, <1>8 DEF Tally, Imported, Known, Sampling, Shapes, Shaped, NoFors

LEMMA TallyNext ==
  ASSUME Inv, Tally, [Next]_vars
  PROVE  Tally'
<1>1. CASE BadOption
  BY <1>1, RefusedTally DEF BadOption, Option
<1>2. CASE ParseOption
  BY <1>2, RenameTally, OtherTally
<1>3. CASE UNCHANGED vars
  <2>1. UNCHANGED <<prog, at, cfg, fors, mods, errs>>
    BY <1>3 DEF vars
  <2>2. PICK D, n : D = DOMAIN mods /\ n = at.n
    OBVIOUS
  <2>3. /\ \A r : ReportsBefore(DOMAIN mods, r)' = ReportsBefore(D, r)
        /\ ReportsBefore(DOMAIN mods, at.n)' = ReportsBefore(D, n)
        /\ ReportsBefore(DOMAIN mods, Len(prog.directives) + 1)' = ReportsBefore(D, Len(prog.directives) + 1)
        /\ \A m, r : PairsKnown(m, r)' = PairsKnown(m, r)
        /\ Whole(at.n)' = Whole(n) /\ Halted(at.n)' = Halted(n)
    BY <2>1, <2>2, Static, StaticDirective
  <2>4. Reported' /\ Known'
    BY <2>1, <2>2, <2>3 DEF Tally, Reported, Known
  <2>5. QED
    BY <2>1, <2>2, <2>3, <2>4 DEF Tally, Imported, Sampling, Shapes
<1>4. QED
  BY <1>1, <1>2, <1>3, BeginModuleTally, EndModuleTally, QualifierTally, SkipInjectorTally,
     BeginInlineTally, AbandonInjectorTally, BeginInjectorTally, EndInjectorTally,
     ForkForSubconvTally DEF Next

(* Whatever a package's modules and directives are, every mistake they have  *)
(* is reported at its place (internal/convgen/convgen.go:25), but those of a *)
(* directive whose inline module is wrong (parse/injector.go:225), and       *)
(* nothing is reported but mistakes, and samples after the first.            *)
THEOREM EveryMistakeIsReported == Spec => []ErrorsAreComplete
<1>1. Init => Inv /\ Tally
  BY InvInit, TallyInit
<1>2. Inv /\ Tally /\ [Next]_vars => (Inv /\ Tally)'
  BY InvNext, TallyNext
<1>3. Inv /\ Tally => ErrorsAreComplete
  <2>1. SUFFICES ASSUME Inv, Tally, Over
                 PROVE  Mistakes \ Hidden \subseteq errs /\ errs \subseteq Mistakes \cup SecondSamples
    BY DEF ErrorsAreComplete
  <2>2. DOMAIN mods = DOMAIN prog.modules
    BY <2>1 DEF Inv, Placed, Over
  <2>3. errs = ReportsBefore(DOMAIN prog.modules, Len(prog.directives) + 1)
    BY <2>1, <2>2 DEF Tally, Reported, Over
  <2>4. QED
    BY <2>1, <2>3, AllMistakes DEF Inv
<1>4. QED
  BY <1>1, <1>2, <1>3, PTL DEF Spec

-----------------------------------------------------------------------------
(* What options say, one option at a time. *)

(* The options of a module, and of a qualifier of it, which undoes nothing   *)
(* but its own; so Update leaves of them (LeavesRules and the like say where *)
(* that is what the properties ask for).                                     *)
Given(opts, into) == Picked(opts, {k \in DOMAIN opts : opts[k].into = into})

Left(opts, S, R) ==
  Picked(opts, {k \in S : ~\E j \in R : k < j /\ opts[j].into \in {Nil, opts[k].into}})

RulesLeft(opts, side) ==
  Each(Left(opts, Sided(opts, "rename", side), Enabled(opts, "renameReset", side)), side)

WrapsLeft(opts) ==
  Each(Left(opts, Named(opts, "errWrap"), Named(opts, "errWrapReset")), "wrap")

AffixLeft(opts, name, side) ==
  LastOr(Left(opts, Named(opts, name), Enabled(opts, "fieldsOnly", side)), [affix |-> Nil]).affix

FirstSample(opts, side) ==
  LET samples == Picked(opts, Named(opts, "sample"))
  IN  IF samples = <<>> \/ samples[1][side] = Nil THEN Own ELSE samples[1][side]
LEMMA EachIs ==
  ASSUME NEW s, IsSeq(s), NEW field
  PROVE  /\ IsSeq(Each(s, field)) /\ Len(Each(s, field)) = Len(s)
         /\ \A k \in 1 .. Len(s) : Each(s, field)[k] = s[k][field]
<1>1. PICK n, e : n = Len(s) /\ e = Each(s, field)
  OBVIOUS
<1>2. n \in Nat /\ DOMAIN s = 1 .. n
  BY <1>1, SeqIs
<1>3. e = [k \in 1 .. n |-> s[k][field]]
  BY <1>1, <1>2 DEF Each
<1>4. e = [k \in 1 .. n |-> e[k]] /\ \A k \in 1 .. n : e[k] = s[k][field]
  BY <1>3
<1>5. IsSeq(e) /\ Len(e) = n
  BY <1>2, <1>4, FunctionIsSeq
<1>. QED
  BY <1>1, <1>4, <1>5

LEMMA EachNone ==
  ASSUME NEW field
  PROVE  Each(<<>>, field) = <<>>
<1>1. PICK e, s : s = <<>> /\ e = Each(s, field)
  OBVIOUS
<1>2. IsSeq(s) /\ Len(s) = 0
  BY <1>1, NoneIsSeq
<1>3. IsSeq(e) /\ Len(e) = 0
  BY <1>1, <1>2, EachIs
<1>. QED
  BY <1>1, <1>3, EmptySeqIs

LEMMA EachAppend ==
  ASSUME NEW s, IsSeq(s), NEW o, NEW field
  PROVE  Each(Append(s, o), field) = Append(Each(s, field), o[field])
<1>1. PICK a, e, f, n : a = Append(s, o) /\ e = Each(s, field) /\ f = Each(a, field) /\ n = Len(s)
  OBVIOUS
<1>2. n \in Nat /\ IsSeq(a) /\ Len(a) = n + 1 /\ a[n + 1] = o /\ \A k \in 1 .. n : a[k] = s[k]
  BY <1>1, Appended, LenIs
<1>3. IsSeq(e) /\ Len(e) = n /\ \A k \in 1 .. n : e[k] = s[k][field]
  BY <1>1, EachIs
<1>4. IsSeq(f) /\ Len(f) = Len(a) /\ \A k \in 1 .. Len(a) : f[k] = a[k][field]
  <2>1. f = Each(a, field) /\ IsSeq(a)
    BY <1>1, <1>2
  <2>. QED
    BY <2>1, EachIs
<1>5. \A k \in 1 .. Len(e) : f[k] = e[k]
  BY <1>2, <1>3, <1>4
<1>6. Len(f) = Len(e) + 1 /\ f[Len(e) + 1] = o[field]
  BY <1>2, <1>3, <1>4
<1>7. f = Append(e, o[field])
  BY <1>3, <1>4, <1>5, <1>6, AppendedIs
<1>. QED
  BY <1>1, <1>7

LEMMA EachJoined ==
  ASSUME NEW s, IsSeq(s), NEW t, IsSeq(t), NEW field
  PROVE  Each(s \o t, field) = Each(s, field) \o Each(t, field)
<1>1. PICK j, e, f, g : j = s \o t /\ e = Each(s, field) /\ f = Each(t, field) /\ g = Each(j, field)
  OBVIOUS
<1>2. PICK n, m : n = Len(s) /\ m = Len(t)
  OBVIOUS
<1>3. n \in Nat /\ m \in Nat
  BY <1>2, LenIs
<1>4. /\ IsSeq(j) /\ Len(j) = n + m
      /\ \A k \in 1 .. n : j[k] = s[k]
      /\ \A k \in 1 .. m : j[n + k] = t[k]
  BY <1>1, <1>2, Joined
<1>5. /\ IsSeq(e) /\ Len(e) = n /\ \A k \in 1 .. n : e[k] = s[k][field]
      /\ IsSeq(f) /\ Len(f) = m /\ \A k \in 1 .. m : f[k] = t[k][field]
  <2>1. e = Each(s, field) /\ f = Each(t, field)
    BY <1>1
  <2>2. IsSeq(e) /\ Len(e) = Len(s) /\ \A k \in 1 .. Len(s) : e[k] = s[k][field]
    BY <2>1, EachIs
  <2>3. IsSeq(f) /\ Len(f) = Len(t) /\ \A k \in 1 .. Len(t) : f[k] = t[k][field]
    BY <2>1, EachIs
  <2>. QED
    BY <1>2, <2>2, <2>3
<1>6. IsSeq(g) /\ Len(g) = n + m /\ \A k \in 1 .. n + m : g[k] = j[k][field]
  <2>1. g = Each(j, field) /\ IsSeq(j)
    BY <1>1, <1>4
  <2>2. IsSeq(g) /\ Len(g) = Len(j) /\ \A k \in 1 .. Len(j) : g[k] = j[k][field]
    BY <2>1, EachIs
  <2>. QED
    BY <1>4, <2>2
<1>7. \A k \in 1 .. n : g[k] = e[k]
  BY <1>3, <1>4, <1>5, <1>6
<1>8. ASSUME NEW k \in 1 .. m
      PROVE  g[n + k] = f[k]
  <2>1. n + k \in 1 .. n + m
    BY <1>3
  <2>2. g[n + k] = j[n + k][field] /\ j[n + k] = t[k] /\ f[k] = t[k][field]
    BY <1>4, <1>5, <1>6, <2>1
  <2>. QED
    BY <2>2
<1>9. GoesOn(g, e, f)
  BY <1>5, <1>6, <1>7, <1>8 DEF GoesOn
<1>. QED
  BY <1>1, <1>9, JoinedIs

(* The finders of rules. *)
LEMMA FindersIs ==
  ASSUME NEW s, IsSeq(s)
  PROVE  /\ IsSeq(FindersOf(s)) /\ Len(FindersOf(s)) = Len(s)
         /\ \A k \in 1 .. Len(s) : FindersOf(s)[k] = FinderOf(s[k])
<1>1. PICK n, e : n = Len(s) /\ e = FindersOf(s)
  OBVIOUS
<1>2. n \in Nat /\ DOMAIN s = 1 .. n
  BY <1>1, SeqIs
<1>3. e = [k \in 1 .. n |-> FinderOf(s[k])]
  BY <1>1, <1>2 DEF FindersOf
<1>4. e = [k \in 1 .. n |-> e[k]] /\ \A k \in 1 .. n : e[k] = FinderOf(s[k])
  BY <1>3
<1>5. IsSeq(e) /\ Len(e) = n
  BY <1>2, <1>4, FunctionIsSeq
<1>. QED
  BY <1>1, <1>4, <1>5

LEMMA FindersNone == FindersOf(<<>>) = <<>>
<1>1. PICK e, s : s = <<>> /\ e = FindersOf(s)
  OBVIOUS
<1>2. IsSeq(s) /\ Len(s) = 0
  BY <1>1, NoneIsSeq
<1>3. IsSeq(e) /\ Len(e) = 0
  BY <1>1, <1>2, FindersIs
<1>. QED
  BY <1>1, <1>3, EmptySeqIs

LEMMA FindersAppend ==
  ASSUME NEW s, IsSeq(s), NEW o
  PROVE  FindersOf(Append(s, o)) = Append(FindersOf(s), FinderOf(o))
<1>1. PICK a, e, f, n : a = Append(s, o) /\ e = FindersOf(s) /\ f = FindersOf(a) /\ n = Len(s)
  OBVIOUS
<1>2. n \in Nat /\ IsSeq(a) /\ Len(a) = n + 1 /\ a[n + 1] = o /\ \A k \in 1 .. n : a[k] = s[k]
  BY <1>1, Appended, LenIs
<1>3. IsSeq(e) /\ Len(e) = n /\ \A k \in 1 .. n : e[k] = FinderOf(s[k])
  BY <1>1, FindersIs
<1>4. IsSeq(f) /\ Len(f) = Len(a) /\ \A k \in 1 .. Len(a) : f[k] = FinderOf(a[k])
  BY <1>1, <1>2, FindersIs
<1>5. \A k \in 1 .. Len(e) : f[k] = e[k]
  BY <1>2, <1>3, <1>4
<1>6. Len(f) = Len(e) + 1 /\ f[Len(e) + 1] = FinderOf(o)
  BY <1>2, <1>3, <1>4
<1>7. f = Append(e, FinderOf(o))
  BY <1>3, <1>4, <1>5, <1>6, AppendedIs
<1>. QED
  BY <1>1, <1>7

LEMMA FindersJoined ==
  ASSUME NEW s, IsSeq(s), NEW t, IsSeq(t)
  PROVE  FindersOf(s \o t) = FindersOf(s) \o FindersOf(t)
<1>1. PICK j, e, f, g : j = s \o t /\ e = FindersOf(s) /\ f = FindersOf(t) /\ g = FindersOf(j)
  OBVIOUS
<1>2. PICK n, m : n = Len(s) /\ m = Len(t)
  OBVIOUS
<1>3. n \in Nat /\ m \in Nat
  BY <1>2, LenIs
<1>4. /\ IsSeq(j) /\ Len(j) = n + m
      /\ \A k \in 1 .. n : j[k] = s[k]
      /\ \A k \in 1 .. m : j[n + k] = t[k]
  BY <1>1, <1>2, Joined
<1>5. /\ IsSeq(e) /\ Len(e) = n /\ \A k \in 1 .. n : e[k] = FinderOf(s[k])
      /\ IsSeq(f) /\ Len(f) = m /\ \A k \in 1 .. m : f[k] = FinderOf(t[k])
  BY <1>1, <1>2, FindersIs
<1>6. IsSeq(g) /\ Len(g) = n + m /\ \A k \in 1 .. n + m : g[k] = FinderOf(j[k])
  BY <1>1, <1>4, FindersIs
<1>7. \A k \in 1 .. n : g[k] = e[k]
  BY <1>3, <1>4, <1>5, <1>6
<1>8. ASSUME NEW k \in 1 .. m
      PROVE  g[n + k] = f[k]
  <2>1. n + k \in 1 .. n + m
    BY <1>3
  <2>2. g[n + k] = FinderOf(j[n + k]) /\ j[n + k] = t[k] /\ f[k] = FinderOf(t[k])
    BY <1>4, <1>5, <1>6, <2>1
  <2>. QED
    BY <2>2
<1>9. GoesOn(g, e, f)
  BY <1>5, <1>6, <1>7, <1>8 DEF GoesOn
<1>. QED
  BY <1>1, <1>9, JoinedIs

(* A class of options of a sequence, when it has one more.                   *)
Longer(T, S, n) == /\ S \subseteq 1 .. n /\ T \subseteq 1 .. n + 1
                   /\ \A k \in 1 .. n : k \in T <=> k \in S

Added(q, opts, o, n) == IsSeq(opts) /\ n = Len(opts) /\ q = Append(opts, o)

LEMMA AddedIs ==
  ASSUME NEW opts, NEW o, NEW q, NEW n, Added(q, opts, o, n)
  PROVE  /\ n \in Nat /\ IsSeq(q) /\ Len(q) = n + 1 /\ q[n + 1] = o
         /\ \A k \in 1 .. n : q[k] = opts[k]
         /\ IsSeq(opts) /\ n = Len(opts) /\ DOMAIN opts = 1 .. n /\ DOMAIN q = 1 .. n + 1
<1>1. /\ n \in Nat /\ IsSeq(q) /\ Len(q) = n + 1 /\ q[n + 1] = o
      /\ \A k \in 1 .. n : q[k] = opts[k]
      /\ IsSeq(opts) /\ n = Len(opts)
  BY Appended, LenIs DEF Added
<1>. QED
  BY <1>1, SeqIs

LEMMA PickedLonger ==
  ASSUME NEW opts, NEW o, NEW q, NEW n, Added(q, opts, o, n), NEW S, NEW T, Longer(T, S, n)
  PROVE  /\ n + 1 \in T => Picked(q, T) = Append(Picked(opts, S), o)
         /\ n + 1 \notin T => Picked(q, T) = Picked(opts, S)
<1>1. /\ n \in Nat /\ IsSeq(q) /\ Len(q) = n + 1 /\ q[n + 1] = o
      /\ \A k \in 1 .. n : q[k] = opts[k]
  BY AddedIs
<1>2. /\ S \subseteq 1 .. n /\ T \subseteq 1 .. n + 1
      /\ \A k \in 1 .. n : k \in T <=> k \in S
  BY DEF Longer
<1>3. S \in SUBSET Nat /\ IsFiniteSet(S) /\ \A k \in S : k \in 1 .. n /\ k < n + 1
  <2>1. IsFiniteSet(1 .. n)
    BY <1>1, FS_Interval
  <2>2. IsFiniteSet(S)
    BY <1>2, <2>1, FS_Subset
  <2>3. \A k \in S : k \in Nat /\ k \in 1 .. n /\ k < n + 1
    BY <1>1, <1>2
  <2>. QED
    BY <2>2, <2>3
<1>4. \A k \in S : q[k] = opts[k]
  BY <1>1, <1>3
<1>5. Picked(q, S) = Picked(opts, S)
  BY <1>3, <1>4, PickedSame
<1>6. \A k \in 1 .. n + 1 : k \in 1 .. n \/ k = n + 1
  BY <1>1
<1>7. CASE n + 1 \in T
  <2>1. PICK i : i = n + 1
    OBVIOUS
  <2>2. i \in Nat /\ \A k \in S : k < i
    BY <1>1, <1>3, <2>1
  <2>3. Picked(q, S \cup {i}) = Append(Picked(q, S), q[i])
    BY <1>3, <2>2, PickedMore
  <2>4. T = S \cup {i}
    BY <1>2, <1>3, <1>6, <1>7, <2>1
  <2>. QED
    BY <1>1, <1>5, <1>7, <2>1, <2>3, <2>4
<1>8. CASE n + 1 \notin T
  <2>1. T = S
    BY <1>2, <1>3, <1>6, <1>8
  <2>. QED
    BY <1>5, <1>8, <2>1
<1>. QED
  BY <1>7, <1>8

Stands(opts, S, R) == {k \in S : ~\E j \in R : k < j /\ opts[j].into \in {Nil, opts[k].into}}

(* An option undoes what stands if it is one that does: it is for all the    *)
(* options before it, or for the same kind as they.                          *)
Upon(o, opts) == \A k \in DOMAIN opts : o.into \in {Nil, opts[k].into}

LEMMA StandingLonger ==
  ASSUME NEW opts, NEW o, NEW q, NEW n, Added(q, opts, o, n), Upon(o, opts),
         NEW S, NEW T, Longer(T, S, n), NEW R, NEW Q, Longer(Q, R, n), ~(n + 1 \in T /\ n + 1 \in Q)
  PROVE  /\ n + 1 \in Q => Left(q, T, Q) = <<>>
         /\ n + 1 \in T => Left(q, T, Q) = Append(Left(opts, S, R), o)
         /\ n + 1 \notin T /\ n + 1 \notin Q => Left(q, T, Q) = Left(opts, S, R)
<1>1. /\ n \in Nat /\ IsSeq(q) /\ Len(q) = n + 1 /\ q[n + 1] = o
      /\ \A k \in 1 .. n : q[k] = opts[k]
  BY AddedIs
<1>2. /\ S \subseteq 1 .. n /\ T \subseteq 1 .. n + 1
      /\ \A k \in 1 .. n : k \in T <=> k \in S
      /\ R \subseteq 1 .. n /\ Q \subseteq 1 .. n + 1
      /\ \A k \in 1 .. n : k \in Q <=> k \in R
  BY DEF Longer
<1>3. PICK A, B : A = Stands(opts, S, R) /\ B = Stands(q, T, Q)
  OBVIOUS
<1>4. Left(opts, S, R) = Picked(opts, A) /\ Left(q, T, Q) = Picked(q, B)
  BY <1>3 DEF Left, Stands
<1>5. CASE n + 1 \in Q
  <2>1. ASSUME NEW k \in T
        PROVE  k < n + 1 /\ q[n + 1].into \in {Nil, q[k].into}
    <3>1. k \in 1 .. n /\ k < n + 1
      BY <1>1, <1>2, <1>5
    <3>2. o.into \in {Nil, opts[k].into}
      BY <3>1, AddedIs DEF Upon
    <3>. QED
      BY <1>1, <3>1, <3>2
  <2>2. B = {}
    BY <1>3, <1>5, <2>1 DEF Stands
  <2>3. Left(q, T, Q) = <<>>
    BY <1>4, <2>2, PickedNone
  <2>. QED
    BY <1>5, <2>3
<1>6. CASE n + 1 \notin Q
  <2>1. \A j : j \in Q <=> j \in R
    <3>. SUFFICES ASSUME NEW j
                  PROVE  j \in Q <=> j \in R
      OBVIOUS
    <3>1. j \in 1 .. n + 1 => j \in 1 .. n \/ j = n + 1
      BY <1>1
    <3>2. j \in Q => j \in 1 .. n
      BY <1>2, <1>6, <3>1
    <3>. QED
      BY <1>2, <3>2
  <2>2. \A j \in R : q[j] = opts[j] /\ j \in 1 .. n
    BY <1>1, <1>2
  <2>3. \A k \in 1 .. n : k \in B <=> k \in A
    <3>. SUFFICES ASSUME NEW k \in 1 .. n
                  PROVE  k \in B <=> k \in A
      OBVIOUS
    <3>1. q[k] = opts[k]
      BY <1>1
    <3>2. (\E j \in Q : k < j /\ q[j].into \in {Nil, q[k].into})
            <=> \E j \in R : k < j /\ opts[j].into \in {Nil, opts[k].into}
      BY <2>1, <2>2, <3>1
    <3>. QED
      BY <1>2, <1>3, <3>2 DEF Stands
  <2>4. n + 1 \in B <=> n + 1 \in T
    <3>1. \A j \in Q : ~(n + 1 < j)
      BY <1>1, <1>2
    <3>. QED
      BY <1>3, <3>1 DEF Stands
  <2>5. Longer(B, A, n)
    <3>1. A \subseteq S /\ B \subseteq T
      BY <1>3 DEF Stands
    <3>2. A \subseteq 1 .. n /\ B \subseteq 1 .. n + 1
      BY <1>2, <3>1
    <3>. QED
      BY <2>3, <3>2 DEF Longer
  <2>6. /\ n + 1 \in B => Picked(q, B) = Append(Picked(opts, A), o)
        /\ n + 1 \notin B => Picked(q, B) = Picked(opts, A)
    BY <2>5, PickedLonger
  <2>. QED
    BY <1>4, <1>6, <2>4, <2>6
<1>. QED
  BY <1>5, <1>6

(* What stands of two sequences put together, when the options of the second *)
(* undo nothing of the first.                                                *)
LEMMA StandingJoined ==
  ASSUME NEW a, IsSeq(a), \A k \in 1 .. Len(a) : a[k].into = Nil,
         NEW b, IsSeq(b), \A k \in 1 .. Len(b) : b[k].into # Nil,
         NEW S, NEW Sa, NEW Sb, Beside(S, Sa, Len(a), Sb, Len(b)),
         NEW R, NEW Ra, NEW Rb, Beside(R, Ra, Len(a), Rb, Len(b))
  PROVE  Left(a \o b, S, R) = Left(a, Sa, Ra) \o Left(b, Sb, Rb)
<1>1. PICK n, m, q : n = Len(a) /\ m = Len(b) /\ q = a \o b
  OBVIOUS
<1>2. /\ n \in Nat /\ m \in Nat
      /\ \A k \in 1 .. n : q[k] = a[k] /\ a[k].into = Nil
      /\ \A k \in 1 .. m : q[n + k] = b[k] /\ b[k].into # Nil
  BY <1>1, Joined, LenIs
<1>3. PICK A, B, C : A = Stands(a, Sa, Ra) /\ B = Stands(b, Sb, Rb) /\ C = Stands(q, S, R)
  OBVIOUS
<1>4. /\ Left(a, Sa, Ra) = Picked(a, A) /\ Left(b, Sb, Rb) = Picked(b, B)
      /\ Left(q, S, R) = Picked(q, C)
  BY <1>3 DEF Left, Stands
<1>5. /\ S \in SUBSET Nat /\ Sa \in SUBSET (1 .. n) /\ Sb \in SUBSET (1 .. m)
      /\ \A i \in 1 .. n : i \in S <=> i \in Sa
      /\ \A i \in 1 .. m : n + i \in S <=> i \in Sb
      /\ \A i \in S : i \in 1 .. n + m
  BY <1>1 DEF Beside
<1>6. /\ R \in SUBSET Nat /\ Ra \in SUBSET (1 .. n) /\ Rb \in SUBSET (1 .. m)
      /\ \A i \in 1 .. n : i \in R <=> i \in Ra
      /\ \A i \in 1 .. m : n + i \in R <=> i \in Rb
      /\ \A i \in R : i \in 1 .. n + m
  BY <1>1 DEF Beside
<1>7. \A i \in 1 .. n + m : i \in 1 .. n \/ \E k \in 1 .. m : i = n + k
  <2>. SUFFICES ASSUME NEW i \in 1 .. n + m, i \notin 1 .. n
                PROVE  \E k \in 1 .. m : i = n + k
    OBVIOUS
  <2>1. i - n \in 1 .. m /\ i = n + (i - n)
    BY <1>2
  <2>. QED
    BY <2>1
<1>8. ASSUME NEW i \in 1 .. n
      PROVE  i \in C <=> i \in A
  <2>1. (\E j \in R : i < j /\ q[j].into \in {Nil, q[i].into})
           <=> \E j \in Ra : i < j /\ a[j].into \in {Nil, a[i].into}
    <3>1. ASSUME NEW j \in R, i < j, q[j].into \in {Nil, q[i].into}
          PROVE  \E l \in Ra : i < l /\ a[l].into \in {Nil, a[i].into}
      <4>1. q[j].into = Nil
        BY <1>2, <3>1
      <4>2. j \in 1 .. n
        <5>1. ASSUME NEW k \in 1 .. m, j = n + k
              PROVE  FALSE
          BY <1>2, <4>1, <5>1
        <5>. QED
          BY <1>6, <1>7, <5>1
      <4>. QED
        BY <1>2, <1>6, <3>1, <4>1, <4>2
    <3>2. ASSUME NEW j \in Ra, i < j, a[j].into \in {Nil, a[i].into}
          PROVE  \E l \in R : i < l /\ q[l].into \in {Nil, q[i].into}
      BY <1>2, <1>6, <3>2
    <3>. QED
      BY <3>1, <3>2
  <2>. QED
    BY <1>3, <1>5, <2>1 DEF Stands
<1>9. ASSUME NEW i \in 1 .. m
      PROVE  n + i \in C <=> i \in B
  <2>1. (\E j \in R : n + i < j /\ q[j].into \in {Nil, q[n + i].into})
           <=> \E j \in Rb : i < j /\ b[j].into \in {Nil, b[i].into}
    <3>1. ASSUME NEW j \in R, n + i < j, q[j].into \in {Nil, q[n + i].into}
          PROVE  \E l \in Rb : i < l /\ b[l].into \in {Nil, b[i].into}
      <4>1. PICK k \in 1 .. m : j = n + k
        BY <1>2, <1>6, <1>7, <3>1
      <4>2. k \in Rb /\ i < k /\ q[j] = b[k] /\ q[n + i] = b[i]
        BY <1>2, <1>6, <3>1, <4>1
      <4>. QED
        BY <3>1, <4>2
    <3>2. ASSUME NEW j \in Rb, i < j, b[j].into \in {Nil, b[i].into}
          PROVE  \E l \in R : n + i < l /\ q[l].into \in {Nil, q[n + i].into}
      <4>1. j \in 1 .. m
        BY <1>6
      <4>2. n + j \in R /\ n + i < n + j /\ q[n + j] = b[j] /\ q[n + i] = b[i]
        BY <1>2, <1>6, <3>2, <4>1
      <4>. QED
        BY <3>2, <4>2
    <3>. QED
      BY <3>1, <3>2
  <2>. QED
    BY <1>3, <1>5, <2>1 DEF Stands
<1>10. Beside(C, A, n, B, m)
  <2>1. C \subseteq S /\ A \subseteq Sa /\ B \subseteq Sb
    BY <1>3 DEF Stands
  <2>. QED
    BY <1>5, <1>8, <1>9, <2>1 DEF Beside
<1>11. Picked(q, C) = Picked(a, A) \o Picked(b, B)
  BY <1>1, <1>10, PickedConcat
<1>. QED
  BY <1>1, <1>4, <1>11

(* What is picked or stands of a sequence is some of its items. *)
LEMMA PickedOfSeq ==
  ASSUME NEW opts, IsSeq(opts), NEW S, S \subseteq DOMAIN opts
  PROVE  /\ IsSeq(Picked(opts, S))
         /\ \A k \in 1 .. Len(Picked(opts, S)) : \E i \in S : Picked(opts, S)[k] = opts[i]
         /\ \A i \in S : \E k \in 1 .. Len(Picked(opts, S)) : Picked(opts, S)[k] = opts[i]
<1>1. Len(opts) \in Nat /\ DOMAIN opts = 1 .. Len(opts)
  BY SeqIs
<1>2. S \in SUBSET Nat /\ IsFiniteSet(S)
  <2>1. IsFiniteSet(1 .. Len(opts)) /\ 1 .. Len(opts) \subseteq Nat
    BY <1>1, FS_Interval
  <2>2. S \subseteq 1 .. Len(opts)
    BY <1>1
  <2>3. IsFiniteSet(S)
    BY <2>1, <2>2, FS_Subset
  <2>. QED
    BY <2>1, <2>2, <2>3
<1>3. IsSeq(Picked(opts, S)) /\ Len(Picked(opts, S)) = Cardinality(S)
  BY <1>2, PickedIsSeq
<1>4. /\ \A k \in 1 .. Cardinality(S) : Nth(S, k) \in S /\ Picked(opts, S)[k] = opts[Nth(S, k)]
      /\ \A i \in S : RankIn(S, i) \in 1 .. Cardinality(S) /\ Picked(opts, S)[RankIn(S, i)] = opts[i]
  BY <1>2, PickedType
<1>. QED
  BY <1>3, <1>4

LEMMA StandingOfSeq ==
  ASSUME NEW opts, IsSeq(opts), NEW S, S \subseteq DOMAIN opts, NEW R
  PROVE  /\ IsSeq(Left(opts, S, R))
         /\ \A k \in 1 .. Len(Left(opts, S, R)) : \E i \in S : Left(opts, S, R)[k] = opts[i]
<1>1. PICK A : A = Stands(opts, S, R)
  OBVIOUS
<1>2. A \subseteq S /\ A \subseteq DOMAIN opts
  BY <1>1 DEF Stands
<1>3. Left(opts, S, R) = Picked(opts, A)
  BY <1>1 DEF Left, Stands
<1>4. /\ IsSeq(Picked(opts, A))
      /\ \A k \in 1 .. Len(Picked(opts, A)) : \E i \in A : Picked(opts, A)[k] = opts[i]
  BY <1>2, PickedOfSeq
<1>. QED
  BY <1>2, <1>3, <1>4

LEMMA LastOfLonger ==
  ASSUME NEW s, IsSeq(s), NEW o, NEW default
  PROVE  LastOr(Append(s, o), default) = o
<1>1. PICK a : a = Append(s, o)
  OBVIOUS
<1>2. IsSeq(a) /\ Len(a) = Len(s) + 1 /\ a[Len(s) + 1] = o /\ Len(s) \in Nat
  BY <1>1, Appended, LenIs
<1>3. a # <<>>
  BY <1>2, EmptySeqIs
<1>4. a[Len(a)] = o
  BY <1>2
<1>. QED
  BY <1>1, <1>3, <1>4 DEF LastOr

LEMMA LastOfJoined ==
  ASSUME NEW s, IsSeq(s), NEW t, IsSeq(t), NEW default
  PROVE  LastOr(s \o t, default) = IF t = <<>> THEN LastOr(s, default) ELSE LastOr(t, default)
<1>1. CASE t = <<>>
  BY <1>1, JoinedNone
<1>2. CASE t # <<>>
  <2>1. PICK j, n, m : j = s \o t /\ n = Len(s) /\ m = Len(t)
    OBVIOUS
  <2>2. /\ IsSeq(j) /\ Len(j) = n + m /\ \A k \in 1 .. m : j[n + k] = t[k]
        /\ n \in Nat /\ m \in Nat
    BY <2>1, Joined, LenIs
  <2>3. m # 0
    BY <1>2, <2>1, EmptySeqIs
  <2>4. j # <<>>
    <3>1. Len(j) # 0
      BY <2>2, <2>3
    <3>. QED
      BY <2>2, <3>1, EmptySeqIs
  <2>5. m \in 1 .. m /\ n + m = Len(j)
    BY <2>2, <2>3
  <2>6. j[Len(j)] = t[m]
    BY <2>2, <2>5
  <2>. QED
    BY <1>2, <2>1, <2>4, <2>6 DEF LastOr
<1>. QED
  BY <1>1, <1>2

(* The classes of options *)
LEMMA NamedLonger ==
  ASSUME NEW opts, NEW o, NEW q, NEW n, Added(q, opts, o, n), NEW op
  PROVE  /\ Longer(Named(q, op), Named(opts, op), n)
         /\ n + 1 \in Named(q, op) <=> o.op = op
<1>1. /\ n \in Nat /\ q[n + 1] = o /\ \A k \in 1 .. n : q[k] = opts[k]
      /\ DOMAIN opts = 1 .. n /\ DOMAIN q = 1 .. n + 1
  BY AddedIs
<1>2. n + 1 \in 1 .. n + 1 /\ \A k \in 1 .. n : k \in 1 .. n + 1
  BY <1>1
<1>. QED
  BY <1>1, <1>2 DEF Named, Longer

LEMMA SidedLonger ==
  ASSUME NEW opts, NEW o, NEW q, NEW n, Added(q, opts, o, n), NEW op, NEW side
  PROVE  /\ Longer(Sided(q, op, side), Sided(opts, op, side), n)
         /\ n + 1 \in Sided(q, op, side) <=> o.op = op /\ o[side] # Nil
<1>1. q[n + 1] = o /\ \A k \in 1 .. n : q[k] = opts[k]
  BY AddedIs
<1>2. Longer(Named(q, op), Named(opts, op), n) /\ (n + 1 \in Named(q, op) <=> o.op = op)
  BY NamedLonger
<1>. QED
  BY <1>1, <1>2 DEF Sided, Longer

LEMMA EnabledLonger ==
  ASSUME NEW opts, NEW o, NEW q, NEW n, Added(q, opts, o, n), NEW op, NEW side
  PROVE  /\ Longer(Enabled(q, op, side), Enabled(opts, op, side), n)
         /\ n + 1 \in Enabled(q, op, side) <=> o.op = op /\ o[side]
<1>1. q[n + 1] = o /\ \A k \in 1 .. n : q[k] = opts[k]
  BY AddedIs
<1>2. Longer(Named(q, op), Named(opts, op), n) /\ (n + 1 \in Named(q, op) <=> o.op = op)
  BY NamedLonger
<1>. QED
  BY <1>1, <1>2 DEF Enabled, Longer

LEMMA NamedBeside ==
  ASSUME NEW a, IsSeq(a), NEW b, IsSeq(b), NEW op
  PROVE  Beside(Named(a \o b, op), Named(a, op), Len(a), Named(b, op), Len(b))
<1>1. PICK j, n, m : j = a \o b /\ n = Len(a) /\ m = Len(b)
  OBVIOUS
<1>2. /\ IsSeq(j) /\ Len(j) = n + m /\ n \in Nat /\ m \in Nat
      /\ \A k \in 1 .. n : j[k] = a[k]
      /\ \A k \in 1 .. m : j[n + k] = b[k]
  BY <1>1, Joined, LenIs
<1>3. DOMAIN j = 1 .. n + m /\ DOMAIN a = 1 .. n /\ DOMAIN b = 1 .. m
  <2>1. DOMAIN a = 1 .. n
    BY <1>1, SeqIs
  <2>2. DOMAIN b = 1 .. m
    BY <1>1, SeqIs
  <2>3. DOMAIN j = 1 .. n + m
    BY <1>2, SeqIs
  <2>. QED
    BY <2>1, <2>2, <2>3
<1>4. /\ \A k \in 1 .. n : k \in 1 .. n + m
      /\ \A k \in 1 .. m : n + k \in 1 .. n + m
      /\ 1 .. n + m \subseteq Nat
  BY <1>2
<1>. QED
  BY <1>1, <1>2, <1>3, <1>4 DEF Named, Beside

LEMMA SidedBeside ==
  ASSUME NEW a, IsSeq(a), NEW b, IsSeq(b), NEW op, NEW side
  PROVE  Beside(Sided(a \o b, op, side), Sided(a, op, side), Len(a), Sided(b, op, side), Len(b))
<1>1. PICK j, n, m : j = a \o b /\ n = Len(a) /\ m = Len(b)
  OBVIOUS
<1>2. /\ \A k \in 1 .. n : j[k] = a[k]
      /\ \A k \in 1 .. m : j[n + k] = b[k]
  BY <1>1, Joined
<1>3. Beside(Named(j, op), Named(a, op), n, Named(b, op), m)
  BY <1>1, NamedBeside
<1>4. Beside(Sided(j, op, side), Sided(a, op, side), n, Sided(b, op, side), m)
  BY <1>2, <1>3 DEF Sided, Beside
<1>. QED
  BY <1>1, <1>4

LEMMA EnabledBeside ==
  ASSUME NEW a, IsSeq(a), NEW b, IsSeq(b), NEW op, NEW side
  PROVE  Beside(Enabled(a \o b, op, side), Enabled(a, op, side), Len(a), Enabled(b, op, side), Len(b))
<1>1. PICK j, n, m : j = a \o b /\ n = Len(a) /\ m = Len(b)
  OBVIOUS
<1>2. /\ \A k \in 1 .. n : j[k] = a[k]
      /\ \A k \in 1 .. m : j[n + k] = b[k]
  BY <1>1, Joined
<1>3. Beside(Named(j, op), Named(a, op), n, Named(b, op), m)
  BY <1>1, NamedBeside
<1>4. Beside(Enabled(j, op, side), Enabled(a, op, side), n, Enabled(b, op, side), m)
  BY <1>2, <1>3 DEF Enabled, Beside
<1>. QED
  BY <1>1, <1>4

(* The rules, with one more option. *)
LEMMA RulesLonger ==
  ASSUME NEW opts, NEW o, NEW q, NEW n, Added(q, opts, o, n), Upon(o, opts), NEW side
  PROVE  /\ IsSeq(RulesLeft(opts, side))
         /\ o.op = "rename" /\ o[side] # Nil => RulesLeft(q, side) = Append(RulesLeft(opts, side), o[side])
         /\ o.op = "renameReset" /\ o[side] => RulesLeft(q, side) = <<>>
         /\ ~(o.op = "rename" /\ o[side] # Nil) /\ ~(o.op = "renameReset" /\ o[side])
              => RulesLeft(q, side) = RulesLeft(opts, side)
<1>1. PICK S, T, R, Q : /\ S = Sided(opts, "rename", side) /\ T = Sided(q, "rename", side)
                        /\ R = Enabled(opts, "renameReset", side) /\ Q = Enabled(q, "renameReset", side)
  OBVIOUS
<1>2. Longer(T, S, n) /\ (n + 1 \in T <=> o.op = "rename" /\ o[side] # Nil)
  BY <1>1, SidedLonger
<1>3. Longer(Q, R, n) /\ (n + 1 \in Q <=> o.op = "renameReset" /\ o[side])
  BY <1>1, EnabledLonger
<1>4. ~(n + 1 \in T /\ n + 1 \in Q)
  BY <1>2, <1>3
<1>5. /\ n + 1 \in Q => Left(q, T, Q) = <<>>
      /\ n + 1 \in T => Left(q, T, Q) = Append(Left(opts, S, R), o)
      /\ n + 1 \notin T /\ n + 1 \notin Q => Left(q, T, Q) = Left(opts, S, R)
  BY <1>2, <1>3, <1>4, StandingLonger
<1>6. PICK s, t : s = Left(opts, S, R) /\ t = Left(q, T, Q)
  OBVIOUS
<1>7. RulesLeft(opts, side) = Each(s, side) /\ RulesLeft(q, side) = Each(t, side)
  BY <1>1, <1>6 DEF RulesLeft
<1>8. IsSeq(s)
  <2>1. IsSeq(opts) /\ S \subseteq DOMAIN opts
    BY <1>1, AddedIs DEF Sided, Named
  <2>. QED
    BY <1>6, <2>1, StandingOfSeq
<1>9. IsSeq(Each(s, side))
  BY <1>8, EachIs
<1>10. n + 1 \in T => Each(t, side) = Append(Each(s, side), o[side])
  <2>1. Each(Append(s, o), side) = Append(Each(s, side), o[side])
    BY <1>8, EachAppend
  <2>. QED
    BY <1>5, <1>6, <2>1
<1>11. n + 1 \in Q => Each(t, side) = <<>>
  BY <1>5, <1>6, EachNone
<1>. QED
  BY <1>2, <1>3, <1>5, <1>6, <1>7, <1>9, <1>10, <1>11

LEMMA WrapsLonger ==
  ASSUME NEW opts, NEW o, NEW q, NEW n, Added(q, opts, o, n), Upon(o, opts)
  PROVE  /\ IsSeq(WrapsLeft(opts))
         /\ o.op = "errWrap" => WrapsLeft(q) = Append(WrapsLeft(opts), o.wrap)
         /\ o.op = "errWrapReset" => WrapsLeft(q) = <<>>
         /\ o.op \notin {"errWrap", "errWrapReset"} => WrapsLeft(q) = WrapsLeft(opts)
<1>1. PICK S, T, R, Q : /\ S = Named(opts, "errWrap") /\ T = Named(q, "errWrap")
                        /\ R = Named(opts, "errWrapReset") /\ Q = Named(q, "errWrapReset")
  OBVIOUS
<1>2. Longer(T, S, n) /\ (n + 1 \in T <=> o.op = "errWrap")
  BY <1>1, NamedLonger
<1>3. Longer(Q, R, n) /\ (n + 1 \in Q <=> o.op = "errWrapReset")
  BY <1>1, NamedLonger
<1>4. ~(n + 1 \in T /\ n + 1 \in Q)
  BY <1>2, <1>3
<1>5. /\ n + 1 \in Q => Left(q, T, Q) = <<>>
      /\ n + 1 \in T => Left(q, T, Q) = Append(Left(opts, S, R), o)
      /\ n + 1 \notin T /\ n + 1 \notin Q => Left(q, T, Q) = Left(opts, S, R)
  BY <1>2, <1>3, <1>4, StandingLonger
<1>6. PICK s, t : s = Left(opts, S, R) /\ t = Left(q, T, Q)
  OBVIOUS
<1>7. WrapsLeft(opts) = Each(s, "wrap") /\ WrapsLeft(q) = Each(t, "wrap")
  BY <1>1, <1>6 DEF WrapsLeft
<1>8. IsSeq(s)
  <2>1. IsSeq(opts) /\ S \subseteq DOMAIN opts
    BY <1>1, AddedIs DEF Named
  <2>. QED
    BY <1>6, <2>1, StandingOfSeq
<1>9. IsSeq(Each(s, "wrap"))
  BY <1>8, EachIs
<1>10. n + 1 \in T => Each(t, "wrap") = Append(Each(s, "wrap"), o.wrap)
  <2>1. PICK f : f = "wrap"
    OBVIOUS
  <2>2. Each(Append(s, o), f) = Append(Each(s, f), o[f])
    BY <1>8, EachAppend
  <2>3. o[f] = o.wrap
    BY <2>1
  <2>. QED
    BY <1>5, <1>6, <2>1, <2>2, <2>3
<1>11. n + 1 \in Q => Each(t, "wrap") = <<>>
  BY <1>5, <1>6, EachNone
<1>. QED
  BY <1>2, <1>3, <1>5, <1>6, <1>7, <1>9, <1>10, <1>11

LEMMA AffixLonger ==
  ASSUME NEW opts, NEW o, NEW q, NEW n, Added(q, opts, o, n), Upon(o, opts),
         NEW name, name # "fieldsOnly", NEW side
  PROVE  /\ o.op = name => AffixLeft(q, name, side) = o.affix
         /\ o.op = "fieldsOnly" /\ o[side] => AffixLeft(q, name, side) = Nil
         /\ o.op # name /\ ~(o.op = "fieldsOnly" /\ o[side])
              => AffixLeft(q, name, side) = AffixLeft(opts, name, side)
<1>1. PICK S, T, R, Q : /\ S = Named(opts, name) /\ T = Named(q, name)
                        /\ R = Enabled(opts, "fieldsOnly", side) /\ Q = Enabled(q, "fieldsOnly", side)
  OBVIOUS
<1>2. Longer(T, S, n) /\ (n + 1 \in T <=> o.op = name)
  BY <1>1, NamedLonger
<1>3. Longer(Q, R, n) /\ (n + 1 \in Q <=> o.op = "fieldsOnly" /\ o[side])
  BY <1>1, EnabledLonger
<1>4. ~(n + 1 \in T /\ n + 1 \in Q)
  BY <1>2, <1>3
<1>5. /\ n + 1 \in Q => Left(q, T, Q) = <<>>
      /\ n + 1 \in T => Left(q, T, Q) = Append(Left(opts, S, R), o)
      /\ n + 1 \notin T /\ n + 1 \notin Q => Left(q, T, Q) = Left(opts, S, R)
  BY <1>2, <1>3, <1>4, StandingLonger
<1>6. PICK s, t, none : /\ s = Left(opts, S, R) /\ t = Left(q, T, Q)
                        /\ none = [affix |-> Nil]
  OBVIOUS
<1>7. AffixLeft(opts, name, side) = LastOr(s, none).affix /\ AffixLeft(q, name, side) = LastOr(t, none).affix
  BY <1>1, <1>6 DEF AffixLeft
<1>8. IsSeq(s)
  <2>1. IsSeq(opts) /\ S \subseteq DOMAIN opts
    BY <1>1, AddedIs DEF Named
  <2>. QED
    BY <1>6, <2>1, StandingOfSeq
<1>9. n + 1 \in T => LastOr(t, none) = o
  <2>1. LastOr(Append(s, o), none) = o
    BY <1>8, LastOfLonger
  <2>. QED
    BY <1>5, <1>6, <2>1
<1>10. n + 1 \in Q => LastOr(t, none).affix = Nil
  BY <1>5, <1>6 DEF LastOr
<1>. QED
  BY <1>2, <1>3, <1>5, <1>6, <1>7, <1>9, <1>10

(* The options of a module and, after them, those for a kind. *)
Halves(a, b) ==
  /\ IsSeq(a) /\ \A k \in DOMAIN a : a[k].into = Nil
  /\ IsSeq(b) /\ \A k \in DOMAIN b : b[k].into # Nil

LEMMA HalvesStand ==
  ASSUME NEW a, NEW b, Halves(a, b),
         NEW S, NEW Sa, NEW Sb, Beside(S, Sa, Len(a), Sb, Len(b)),
         NEW R, NEW Ra, NEW Rb, Beside(R, Ra, Len(a), Rb, Len(b))
  PROVE  Left(a \o b, S, R) = Left(a, Sa, Ra) \o Left(b, Sb, Rb)
<1>1. IsSeq(a) /\ \A k \in 1 .. Len(a) : a[k].into = Nil
  BY SeqIs DEF Halves
<1>2. IsSeq(b) /\ \A k \in 1 .. Len(b) : b[k].into # Nil
  BY SeqIs DEF Halves
<1>. QED
  BY <1>1, <1>2, StandingJoined

LEMMA RulesJoined ==
  ASSUME NEW a, NEW b, Halves(a, b), NEW side
  PROVE  RulesLeft(a \o b, side) = RulesLeft(a, side) \o RulesLeft(b, side)
<1>1. IsSeq(a) /\ IsSeq(b)
  BY DEF Halves
<1>2. PICK q, S, Sa, Sb, R, Ra, Rb :
        /\ q = a \o b
        /\ S = Sided(q, "rename", side) /\ R = Enabled(q, "renameReset", side)
        /\ Sa = Sided(a, "rename", side) /\ Ra = Enabled(a, "renameReset", side)
        /\ Sb = Sided(b, "rename", side) /\ Rb = Enabled(b, "renameReset", side)
  OBVIOUS
<1>3. Beside(S, Sa, Len(a), Sb, Len(b))
  BY <1>1, <1>2, SidedBeside
<1>4. Beside(R, Ra, Len(a), Rb, Len(b))
  BY <1>1, <1>2, EnabledBeside
<1>5. Left(a \o b, S, R) = Left(a, Sa, Ra) \o Left(b, Sb, Rb)
  BY <1>3, <1>4, HalvesStand
<1>6. PICK s, t : s = Left(a, Sa, Ra) /\ t = Left(b, Sb, Rb)
  OBVIOUS
<1>7. IsSeq(s) /\ IsSeq(t)
  <2>1. Sa \subseteq DOMAIN a /\ Sb \subseteq DOMAIN b
    BY <1>2 DEF Sided, Named
  <2>2. IsSeq(s)
    BY <1>1, <1>6, <2>1, StandingOfSeq
  <2>3. IsSeq(t)
    BY <1>1, <1>6, <2>1, StandingOfSeq
  <2>. QED
    BY <2>2, <2>3
<1>8. Each(s \o t, side) = Each(s, side) \o Each(t, side)
  BY <1>7, EachJoined
<1>9. /\ RulesLeft(q, side) = Each(Left(q, S, R), side)
      /\ RulesLeft(a, side) = Each(s, side) /\ RulesLeft(b, side) = Each(t, side)
  BY <1>2, <1>6 DEF RulesLeft
<1>. QED
  BY <1>2, <1>5, <1>6, <1>8, <1>9

LEMMA WrapsJoined ==
  ASSUME NEW a, NEW b, Halves(a, b)
  PROVE  WrapsLeft(a \o b) = WrapsLeft(a) \o WrapsLeft(b)
<1>1. IsSeq(a) /\ IsSeq(b)
  BY DEF Halves
<1>2. PICK q, S, Sa, Sb, R, Ra, Rb :
        /\ q = a \o b
        /\ S = Named(q, "errWrap") /\ R = Named(q, "errWrapReset")
        /\ Sa = Named(a, "errWrap") /\ Ra = Named(a, "errWrapReset")
        /\ Sb = Named(b, "errWrap") /\ Rb = Named(b, "errWrapReset")
  OBVIOUS
<1>3. Beside(S, Sa, Len(a), Sb, Len(b))
  BY <1>1, <1>2, NamedBeside
<1>4. Beside(R, Ra, Len(a), Rb, Len(b))
  BY <1>1, <1>2, NamedBeside
<1>5. Left(a \o b, S, R) = Left(a, Sa, Ra) \o Left(b, Sb, Rb)
  BY <1>3, <1>4, HalvesStand
<1>6. PICK s, t : s = Left(a, Sa, Ra) /\ t = Left(b, Sb, Rb)
  OBVIOUS
<1>7. IsSeq(s) /\ IsSeq(t)
  <2>1. Sa \subseteq DOMAIN a /\ Sb \subseteq DOMAIN b
    BY <1>2 DEF Named
  <2>2. IsSeq(s)
    BY <1>1, <1>6, <2>1, StandingOfSeq
  <2>3. IsSeq(t)
    BY <1>1, <1>6, <2>1, StandingOfSeq
  <2>. QED
    BY <2>2, <2>3
<1>8. Each(s \o t, "wrap") = Each(s, "wrap") \o Each(t, "wrap")
  BY <1>7, EachJoined
<1>9. /\ WrapsLeft(q) = Each(Left(q, S, R), "wrap")
      /\ WrapsLeft(a) = Each(s, "wrap") /\ WrapsLeft(b) = Each(t, "wrap")
  BY <1>2, <1>6 DEF WrapsLeft
<1>. QED
  BY <1>2, <1>5, <1>6, <1>8, <1>9

(* An affix is a string, if there is one. *)
Affixed(b) == \A k \in DOMAIN b : b[k].op \in {"getters", "setters"} => b[k].affix # Nil

LEMMA AffixJoined ==
  ASSUME NEW a, NEW b, Halves(a, b), Affixed(b), NEW name \in {"getters", "setters"}, NEW side
  PROVE  AffixLeft(a \o b, name, side) = FollowAffix(AffixLeft(a, name, side), AffixLeft(b, name, side))
<1>1. IsSeq(a) /\ IsSeq(b)
  BY DEF Halves
<1>2. PICK q, S, Sa, Sb, R, Ra, Rb :
        /\ q = a \o b
        /\ S = Named(q, name) /\ R = Enabled(q, "fieldsOnly", side)
        /\ Sa = Named(a, name) /\ Ra = Enabled(a, "fieldsOnly", side)
        /\ Sb = Named(b, name) /\ Rb = Enabled(b, "fieldsOnly", side)
  OBVIOUS
<1>3. Beside(S, Sa, Len(a), Sb, Len(b))
  BY <1>1, <1>2, NamedBeside
<1>4. Beside(R, Ra, Len(a), Rb, Len(b))
  BY <1>1, <1>2, EnabledBeside
<1>5. Left(a \o b, S, R) = Left(a, Sa, Ra) \o Left(b, Sb, Rb)
  BY <1>3, <1>4, HalvesStand
<1>6. PICK s, t, none : s = Left(a, Sa, Ra) /\ t = Left(b, Sb, Rb) /\ none = [affix |-> Nil]
  OBVIOUS
<1>7. /\ IsSeq(s) /\ IsSeq(t)
      /\ \A k \in 1 .. Len(t) : \E i \in Sb : t[k] = b[i]
  <2>1. Sa \subseteq DOMAIN a /\ Sb \subseteq DOMAIN b
    BY <1>2 DEF Named
  <2>2. IsSeq(s)
    BY <1>1, <1>6, <2>1, StandingOfSeq
  <2>3. IsSeq(t) /\ \A k \in 1 .. Len(t) : \E i \in Sb : t[k] = b[i]
    BY <1>1, <1>6, <2>1, StandingOfSeq
  <2>. QED
    BY <2>2, <2>3
<1>8. LastOr(s \o t, none) = IF t = <<>> THEN LastOr(s, none) ELSE LastOr(t, none)
  BY <1>7, LastOfJoined
<1>9. /\ AffixLeft(q, name, side) = LastOr(Left(q, S, R), none).affix
      /\ AffixLeft(a, name, side) = LastOr(s, none).affix
      /\ AffixLeft(b, name, side) = LastOr(t, none).affix
  BY <1>2, <1>6 DEF AffixLeft
<1>10. AffixLeft(q, name, side) = IF t = <<>> THEN AffixLeft(a, name, side) ELSE AffixLeft(b, name, side)
  BY <1>2, <1>5, <1>6, <1>8, <1>9
<1>11. t = <<>> <=> AffixLeft(b, name, side) = Nil
  <2>1. CASE t = <<>>
    BY <1>6, <1>9, <2>1 DEF LastOr
  <2>2. CASE t # <<>>
    <3>1. Len(t) \in 1 .. Len(t)
      <4>1. Len(t) \in Nat /\ Len(t) # 0
        BY <1>7, <2>2, LenIs, EmptySeqIs
      <4>. QED
        BY <4>1
    <3>2. PICK i \in Sb : t[Len(t)] = b[i]
      BY <1>7, <3>1
    <3>3. b[i].affix # Nil
      BY <1>2, <3>2 DEF Affixed, Named
    <3>. QED
      BY <1>9, <2>2, <3>2, <3>3 DEF LastOr
  <2>. QED
    BY <2>1, <2>2
<1>. QED
  BY <1>2, <1>10, <1>11 DEF FollowAffix

(* Whether and how unexported members are discovered. *)
Said(told) == IF told = <<>> THEN FALSE ELSE TRUE

UnexportedIn(opts) ==
  LET told == Picked(opts, Named(opts, "unexported"))
      last == LastOr(told, [x |-> FALSE, y |-> FALSE])
  IN  [on |-> Said(told), x |-> last.x, y |-> last.y]

LEMMA UnexportedLonger ==
  ASSUME NEW opts, NEW o, NEW q, NEW n, Added(q, opts, o, n)
  PROVE  /\ o.op = "unexported" => UnexportedIn(q) = [on |-> TRUE, x |-> o.x, y |-> o.y]
         /\ o.op # "unexported" => UnexportedIn(q) = UnexportedIn(opts)
<1>1. PICK S, T, none : /\ S = Named(opts, "unexported") /\ T = Named(q, "unexported")
                        /\ none = [x |-> FALSE, y |-> FALSE]
  OBVIOUS
<1>2. Longer(T, S, n) /\ (n + 1 \in T <=> o.op = "unexported")
  BY <1>1, NamedLonger
<1>3. /\ n + 1 \in T => Picked(q, T) = Append(Picked(opts, S), o)
      /\ n + 1 \notin T => Picked(q, T) = Picked(opts, S)
  BY <1>2, PickedLonger
<1>4. PICK s, t : s = Picked(opts, S) /\ t = Picked(q, T)
  OBVIOUS
<1>5. /\ UnexportedIn(opts) = [on |-> Said(s), x |-> LastOr(s, none).x, y |-> LastOr(s, none).y]
      /\ UnexportedIn(q) = [on |-> Said(t), x |-> LastOr(t, none).x, y |-> LastOr(t, none).y]
  BY <1>1, <1>4 DEF UnexportedIn
<1>6. IsSeq(s)
  <2>1. IsSeq(opts) /\ S \subseteq DOMAIN opts
    BY <1>1, AddedIs DEF Named
  <2>. QED
    BY <1>4, <2>1, PickedOfSeq
<1>7. ASSUME n + 1 \in T
      PROVE  Said(t) = TRUE /\ LastOr(t, none) = o
  <2>1. t = Append(s, o)
    BY <1>3, <1>4, <1>7
  <2>2. LastOr(Append(s, o), none) = o
    BY <1>6, LastOfLonger
  <2>3. IsSeq(t) /\ Len(t) = Len(s) + 1 /\ Len(s) \in Nat
    BY <1>6, <2>1, Appended, LenIs
  <2>4. t # <<>>
    BY <2>3, EmptySeqIs
  <2>. QED
    BY <2>1, <2>2, <2>4 DEF Said
<1>8. CASE o.op = "unexported"
  BY <1>2, <1>5, <1>7, <1>8
<1>9. CASE o.op # "unexported"
  BY <1>2, <1>3, <1>4, <1>5, <1>9
<1>. QED
  BY <1>8, <1>9

LEMMA UnexportedJoined ==
  ASSUME NEW a, NEW b, Halves(a, b)
  PROVE  UnexportedIn(a \o b) = Follow(UnexportedIn(a), UnexportedIn(b))
<1>1. IsSeq(a) /\ IsSeq(b)
  BY DEF Halves
<1>2. PICK q, S, Sa, Sb, none :
        /\ q = a \o b /\ S = Named(q, "unexported")
        /\ Sa = Named(a, "unexported") /\ Sb = Named(b, "unexported")
        /\ none = [x |-> FALSE, y |-> FALSE]
  OBVIOUS
<1>3. Beside(S, Sa, Len(a), Sb, Len(b))
  BY <1>1, <1>2, NamedBeside
<1>4. Picked(a \o b, S) = Picked(a, Sa) \o Picked(b, Sb)
  BY <1>1, <1>3, PickedConcat
<1>5. PICK s, t, u : s = Picked(a, Sa) /\ t = Picked(b, Sb) /\ u = Picked(q, S)
  OBVIOUS
<1>6. u = s \o t
  BY <1>2, <1>4, <1>5
<1>7. IsSeq(s) /\ IsSeq(t)
  <2>1. Sa \subseteq DOMAIN a /\ Sb \subseteq DOMAIN b
    BY <1>2 DEF Named
  <2>. QED
    BY <1>1, <1>5, <2>1, PickedOfSeq
<1>8. LastOr(s \o t, none) = IF t = <<>> THEN LastOr(s, none) ELSE LastOr(t, none)
  BY <1>7, LastOfJoined
<1>9. u = <<>> <=> s = <<>> /\ t = <<>>
  <2>1. IsSeq(u) /\ Len(u) = Len(s) + Len(t) /\ Len(s) \in Nat /\ Len(t) \in Nat
    BY <1>6, <1>7, Joined, LenIs
  <2>2. (u = <<>> <=> Len(u) = 0) /\ (s = <<>> <=> Len(s) = 0) /\ (t = <<>> <=> Len(t) = 0)
    BY <1>7, <2>1, EmptySeqIs
  <2>. QED
    BY <2>1, <2>2
<1>10. /\ UnexportedIn(a) = [on |-> Said(s),
                              x |-> LastOr(s, none).x, y |-> LastOr(s, none).y]
       /\ UnexportedIn(b) = [on |-> Said(t), x |-> LastOr(t, none).x, y |-> LastOr(t, none).y]
       /\ UnexportedIn(q) = [on |-> Said(u), x |-> LastOr(u, none).x, y |-> LastOr(u, none).y]
  BY <1>2, <1>5 DEF UnexportedIn
<1>11. CASE t = <<>>
  <2>1. LastOr(u, none) = LastOr(s, none)
    BY <1>6, <1>8, <1>11
  <2>2. Said(u) = Said(s)
    BY <1>9, <1>11 DEF Said
  <2>3. UnexportedIn(q) = UnexportedIn(a)
    BY <1>10, <2>1, <2>2
  <2>4. ~UnexportedIn(b).on
    BY <1>10, <1>11 DEF Said
  <2>. QED
    BY <1>2, <2>3, <2>4 DEF Follow
<1>12. CASE t # <<>>
  <2>1. LastOr(u, none) = LastOr(t, none)
    BY <1>6, <1>8, <1>12
  <2>2. Said(u) = Said(t)
    BY <1>9, <1>12 DEF Said
  <2>3. UnexportedIn(q) = UnexportedIn(b)
    BY <1>10, <2>1, <2>2
  <2>4. UnexportedIn(b).on
    BY <1>10, <1>12 DEF Said
  <2>. QED
    BY <1>2, <2>3, <2>4 DEF Follow
<1>. QED
  BY <1>11, <1>12

LEMMA UnexportedIs ==
  ASSUME NEW opts
  PROVE  [side \in Sides |-> UnexportedIn(opts)[side]] = UnexportedOf(opts)
BY DEF UnexportedIn, UnexportedOf, Sides

(* What is picked, one option at a time: pairs and paths of directives. *)
LEMMA PickedEachLonger ==
  ASSUME NEW opts, NEW o, NEW q, NEW n, Added(q, opts, o, n), NEW S, NEW T, Longer(T, S, n), NEW field
  PROVE  /\ n + 1 \in T => Each(Picked(q, T), field) = Append(Each(Picked(opts, S), field), o[field])
         /\ n + 1 \notin T => Each(Picked(q, T), field) = Each(Picked(opts, S), field)
<1>1. /\ n + 1 \in T => Picked(q, T) = Append(Picked(opts, S), o)
      /\ n + 1 \notin T => Picked(q, T) = Picked(opts, S)
  BY PickedLonger
<1>2. PICK s, t : s = Picked(opts, S) /\ t = Picked(q, T)
  OBVIOUS
<1>3. IsSeq(s)
  <2>1. IsSeq(opts) /\ S \subseteq DOMAIN opts
    BY AddedIs DEF Longer
  <2>. QED
    BY <1>2, <2>1, PickedOfSeq
<1>4. Each(Append(s, o), field) = Append(Each(s, field), o[field])
  BY <1>3, EachAppend
<1>. QED
  BY <1>1, <1>2, <1>4

LEMMA NestedLonger ==
  ASSUME NEW opts, NEW o, NEW q, NEW n, Added(q, opts, o, n), NEW side
  PROVE  /\ o.op = "nested" /\ o[side] # Nil => NestedOf(q, side) = Append(NestedOf(opts, side), o[side])
         /\ ~(o.op = "nested" /\ o[side] # Nil) => NestedOf(q, side) = NestedOf(opts, side)
<1>1. PICK S, T : S = Sided(opts, "nested", side) /\ T = Sided(q, "nested", side)
  OBVIOUS
<1>2. Longer(T, S, n) /\ (n + 1 \in T <=> o.op = "nested" /\ o[side] # Nil)
  BY <1>1, SidedLonger
<1>3. /\ n + 1 \in T => Each(Picked(q, T), side) = Append(Each(Picked(opts, S), side), o[side])
      /\ n + 1 \notin T => Each(Picked(q, T), side) = Each(Picked(opts, S), side)
  BY <1>2, PickedEachLonger
<1>. QED
  BY <1>1, <1>2, <1>3 DEF NestedOf

Matching(opts) == Named(opts, "match") \cup Named(opts, "matchFunc")

LEMMA PairsLonger ==
  ASSUME NEW opts, NEW o, NEW q, NEW n, Added(q, opts, o, n)
  PROVE  /\ o.op \in {"match", "matchFunc"} =>
              PairsOf(q, Matching(q)) = Append(PairsOf(opts, Matching(opts)), o.pair)
         /\ o.op \notin {"match", "matchFunc"} => PairsOf(q, Matching(q)) = PairsOf(opts, Matching(opts))
         /\ o.op = "matchSkip" =>
              PairsOf(q, Named(q, "matchSkip")) = Append(PairsOf(opts, Named(opts, "matchSkip")), o.pair)
         /\ o.op # "matchSkip" =>
              PairsOf(q, Named(q, "matchSkip")) = PairsOf(opts, Named(opts, "matchSkip"))
<1>1. PICK S, T, U, V : /\ S = Matching(opts) /\ T = Matching(q)
                        /\ U = Named(opts, "matchSkip") /\ V = Named(q, "matchSkip")
  OBVIOUS
<1>2. Longer(V, U, n) /\ (n + 1 \in V <=> o.op = "matchSkip")
  BY <1>1, NamedLonger
<1>3. Longer(T, S, n) /\ (n + 1 \in T <=> o.op \in {"match", "matchFunc"})
  <2>1. Longer(Named(q, "match"), Named(opts, "match"), n) /\ (n + 1 \in Named(q, "match") <=> o.op = "match")
    BY NamedLonger
  <2>2. /\ Longer(Named(q, "matchFunc"), Named(opts, "matchFunc"), n)
        /\ (n + 1 \in Named(q, "matchFunc") <=> o.op = "matchFunc")
    BY NamedLonger
  <2>. QED
    BY <1>1, <2>1, <2>2 DEF Matching, Longer
<1>4. PICK field : field = "pair" /\ o[field] = o.pair
  OBVIOUS
<1>5. /\ n + 1 \in T => Each(Picked(q, T), field) = Append(Each(Picked(opts, S), field), o[field])
      /\ n + 1 \notin T => Each(Picked(q, T), field) = Each(Picked(opts, S), field)
  BY <1>3, PickedEachLonger
<1>6. /\ n + 1 \in V => Each(Picked(q, V), field) = Append(Each(Picked(opts, U), field), o[field])
      /\ n + 1 \notin V => Each(Picked(q, V), field) = Each(Picked(opts, U), field)
  BY <1>2, PickedEachLonger
<1>. QED
  BY <1>1, <1>2, <1>3, <1>4, <1>5, <1>6 DEF PairsOf

FuncsFor(opts, pair) == {k \in Named(opts, "matchFunc") : opts[k].pair = pair}

LEMMA FuncLonger ==
  ASSUME NEW opts, NEW o, NEW q, NEW n, Added(q, opts, o, n), NEW pair
  PROVE  /\ o.op = "matchFunc" /\ o.pair = pair => FuncOf(q, pair) = o.fn
         /\ ~(o.op = "matchFunc" /\ o.pair = pair) => FuncOf(q, pair) = FuncOf(opts, pair)
<1>1. PICK S, T, none : S = FuncsFor(opts, pair) /\ T = FuncsFor(q, pair) /\ none = [fn |-> Nil]
  OBVIOUS
<1>2. Longer(T, S, n) /\ (n + 1 \in T <=> o.op = "matchFunc" /\ o.pair = pair)
  <2>1. q[n + 1] = o /\ \A k \in 1 .. n : q[k] = opts[k]
    BY AddedIs
  <2>2. /\ Longer(Named(q, "matchFunc"), Named(opts, "matchFunc"), n)
        /\ (n + 1 \in Named(q, "matchFunc") <=> o.op = "matchFunc")
    BY NamedLonger
  <2>. QED
    BY <1>1, <2>1, <2>2 DEF FuncsFor, Longer
<1>3. /\ n + 1 \in T => Picked(q, T) = Append(Picked(opts, S), o)
      /\ n + 1 \notin T => Picked(q, T) = Picked(opts, S)
  BY <1>2, PickedLonger
<1>4. PICK s, t : s = Picked(opts, S) /\ t = Picked(q, T)
  OBVIOUS
<1>5. IsSeq(s)
  <2>1. IsSeq(opts) /\ S \subseteq DOMAIN opts
    BY <1>2, AddedIs DEF Longer
  <2>. QED
    BY <1>4, <2>1, PickedOfSeq
<1>6. LastOr(Append(s, o), none) = o
  BY <1>5, LastOfLonger
<1>7. FuncOf(opts, pair) = LastOr(s, none).fn /\ FuncOf(q, pair) = LastOr(t, none).fn
  BY <1>1, <1>4 DEF FuncOf, FuncsFor
<1>. QED
  BY <1>2, <1>3, <1>4, <1>6, <1>7

(* The pairs that have a function *)
FuncPairs(opts) == {opts[j].pair : j \in Named(opts, "matchFunc")}

LEMMA FuncPairsLonger ==
  ASSUME NEW opts, NEW o, NEW q, NEW n, Added(q, opts, o, n)
  PROVE  /\ o.op = "matchFunc" => FuncPairs(q) = FuncPairs(opts) \cup {o.pair}
         /\ o.op # "matchFunc" => FuncPairs(q) = FuncPairs(opts)
<1>1. PICK S, T : S = Named(opts, "matchFunc") /\ T = Named(q, "matchFunc")
  OBVIOUS
<1>2. /\ S \subseteq 1 .. n /\ T \subseteq 1 .. n + 1
      /\ (\A k \in 1 .. n : k \in T <=> k \in S)
      /\ (n + 1 \in T <=> o.op = "matchFunc")
  BY <1>1, NamedLonger DEF Longer
<1>3. n \in Nat /\ q[n + 1] = o /\ \A k \in 1 .. n : q[k] = opts[k]
  BY AddedIs
<1>4. \A k \in 1 .. n + 1 : k \in 1 .. n \/ k = n + 1
  BY <1>3
<1>5. FuncPairs(opts) = {opts[j].pair : j \in S} /\ FuncPairs(q) = {q[j].pair : j \in T}
  BY <1>1 DEF FuncPairs
<1>6. \A j \in S : j \in T /\ q[j] = opts[j]
  BY <1>2, <1>3
<1>7. \A j \in T : (j \in S /\ q[j] = opts[j]) \/ (j = n + 1 /\ q[j] = o)
  BY <1>2, <1>3, <1>4
<1>8. CASE o.op = "matchFunc"
  <2>1. n + 1 \in T
    BY <1>2, <1>8
  <2>. QED
    BY <1>3, <1>5, <1>6, <1>7, <1>8, <2>1
<1>9. CASE o.op # "matchFunc"
  <2>1. \A j \in T : j \in S /\ q[j] = opts[j]
    BY <1>2, <1>7, <1>9
  <2>. QED
    BY <1>5, <1>6, <1>9, <2>1
<1>. QED
  BY <1>8, <1>9

Samples(opts) == Picked(opts, Named(opts, "sample"))

LEMMA SampleLonger ==
  ASSUME NEW opts, NEW o, NEW q, NEW n, Added(q, opts, o, n), NEW side
  PROVE  /\ o.op = "sample" => Said(Samples(q)) = TRUE
         /\ o.op # "sample" => Samples(q) = Samples(opts) /\ FirstSample(q, side) = FirstSample(opts, side)
         /\ o.op = "sample" /\ Said(Samples(opts)) = TRUE => FirstSample(q, side) = FirstSample(opts, side)
         /\ Said(Samples(opts)) = FALSE => FirstSample(opts, side) = Own
<1>1. PICK S, T : S = Named(opts, "sample") /\ T = Named(q, "sample")
  OBVIOUS
<1>2. Longer(T, S, n) /\ (n + 1 \in T <=> o.op = "sample")
  BY <1>1, NamedLonger
<1>3. /\ n + 1 \in T => Picked(q, T) = Append(Picked(opts, S), o)
      /\ n + 1 \notin T => Picked(q, T) = Picked(opts, S)
  BY <1>2, PickedLonger
<1>4. PICK s, t : s = Picked(opts, S) /\ t = Picked(q, T)
  OBVIOUS
<1>5. Samples(opts) = s /\ Samples(q) = t
  BY <1>1, <1>4 DEF Samples
<1>6. /\ FirstSample(opts, side) = IF s = <<>> \/ s[1][side] = Nil THEN Own ELSE s[1][side]
      /\ FirstSample(q, side) = IF t = <<>> \/ t[1][side] = Nil THEN Own ELSE t[1][side]
  BY <1>1, <1>4 DEF FirstSample
<1>7. IsSeq(s)
  <2>1. IsSeq(opts) /\ S \subseteq DOMAIN opts
    BY <1>1, AddedIs DEF Named
  <2>. QED
    BY <1>4, <2>1, PickedOfSeq
<1>8. CASE o.op # "sample"
  <2>1. t = s
    BY <1>2, <1>3, <1>4, <1>8
  <2>. QED
    BY <1>5, <1>6, <1>8, <2>1 DEF Said
<1>9. CASE o.op = "sample"
  <2>1. t = Append(s, o)
    BY <1>2, <1>3, <1>4, <1>9
  <2>2. PICK m : m = Len(s)
    OBVIOUS
  <2>3. /\ IsSeq(t) /\ Len(t) = m + 1 /\ m \in Nat
        /\ (\A k \in 1 .. m : t[k] = s[k]) /\ t[m + 1] = o
    BY <1>7, <2>1, <2>2, Appended, LenIs
  <2>4. t # <<>>
    BY <2>3, EmptySeqIs
  <2>5. s = <<>> => m = 0
    BY <1>7, <2>2, EmptySeqIs
  <2>6. s # <<>> => 1 \in 1 .. m
    <3>1. s # <<>> => m # 0
      BY <1>7, <2>2, EmptySeqIs
    <3>. QED
      BY <2>3, <3>1
  <2>7. (s = <<>> => t[1] = o) /\ (s # <<>> => t[1] = s[1])
    BY <2>3, <2>5, <2>6
  <2>. QED
    BY <1>5, <1>6, <1>9, <2>4, <2>7 DEF Said
<1>. QED
  BY <1>8, <1>9

(* The first sample *)
LEMMA SampleFirst ==
  ASSUME NEW opts, NEW o, NEW q, NEW n, Added(q, opts, o, n), NEW side,
         o.op = "sample", Said(Samples(opts)) = FALSE
  PROVE  FirstSample(q, side) = IF o[side] = Nil THEN Own ELSE o[side]
<1>1. PICK S, T : S = Named(opts, "sample") /\ T = Named(q, "sample")
  OBVIOUS
<1>2. Longer(T, S, n) /\ (n + 1 \in T <=> o.op = "sample")
  BY <1>1, NamedLonger
<1>3. /\ n + 1 \in T => Picked(q, T) = Append(Picked(opts, S), o)
      /\ n + 1 \notin T => Picked(q, T) = Picked(opts, S)
  BY <1>2, PickedLonger
<1>4. PICK s, t : s = Picked(opts, S) /\ t = Picked(q, T)
  OBVIOUS
<1>5. Samples(opts) = s /\ Samples(q) = t
  BY <1>1, <1>4 DEF Samples
<1>6. /\ FirstSample(opts, side) = IF s = <<>> \/ s[1][side] = Nil THEN Own ELSE s[1][side]
      /\ FirstSample(q, side) = IF t = <<>> \/ t[1][side] = Nil THEN Own ELSE t[1][side]
  BY <1>1, <1>4 DEF FirstSample
<1>7. IsSeq(s)
  <2>1. IsSeq(opts) /\ S \subseteq DOMAIN opts
    BY <1>1, AddedIs DEF Named
  <2>. QED
    BY <1>4, <2>1, PickedOfSeq
<1>8. s = <<>>
  BY <1>5 DEF Said
<1>9. t = Append(s, o)
  BY <1>2, <1>3, <1>4
<1>10. PICK m : m = Len(s)
  OBVIOUS
<1>11. m = 0
  BY <1>7, <1>8, <1>10, EmptySeqIs
<1>12. IsSeq(t) /\ Len(t) = m + 1 /\ t[m + 1] = o
  BY <1>7, <1>9, <1>10, Appended
<1>13. t # <<>> /\ t[1] = o
  BY <1>11, <1>12, EmptySeqIs
<1>. QED
  BY <1>6, <1>13

-----------------------------------------------------------------------------
(* Where there are no options *)
LEMMA NamedNone ==
  ASSUME NEW op
  PROVE  Named(<<>>, op) = {}
<1>1. DOMAIN <<>> = {}
  OBVIOUS
<1>. QED
  BY <1>1 DEF Named

LEMMA StandingNone ==
  ASSUME NEW op, NEW R, NEW side
  PROVE  Left(<<>>, Named(<<>>, op), R) = <<>> /\ Left(<<>>, Sided(<<>>, op, side), R) = <<>>
<1>1. PICK s, S, T : s = <<>> /\ S = Named(s, op) /\ T = Sided(s, op, side)
  OBVIOUS
<1>2. S = {} /\ T = {}
  BY <1>1, NamedNone DEF Sided
<1>3. Left(s, {}, R) = Picked(s, {})
  BY DEF Left
<1>. QED
  BY <1>1, <1>2, <1>3, PickedNone

LEMMA NothingSaid ==
  /\ \A side : RulesLeft(<<>>, side) = <<>> /\ NestedOf(<<>>, side) = <<>> /\ FirstSample(<<>>, side) = Own
  /\ WrapsLeft(<<>>) = <<>> /\ UnexportedIn(<<>>) = Off(FALSE, FALSE)
  /\ \A name, side : AffixLeft(<<>>, name, side) = Nil
  /\ PairsOf(<<>>, Matching(<<>>)) = <<>> /\ PairsOf(<<>>, Named(<<>>, "matchSkip")) = <<>>
  /\ FuncPairs(<<>>) = {} /\ \A pair : FuncOf(<<>>, pair) = Nil
  /\ Said(Samples(<<>>)) = FALSE
<1>1. PICK s : s = <<>>
  OBVIOUS
<1>2. /\ \A op, R, side : Left(s, Named(s, op), R) = s /\ Left(s, Sided(s, op, side), R) = s
  BY <1>1, StandingNone
<1>3. \A op : Named(s, op) = {}
  BY <1>1, NamedNone
<1>4. \A op, side : Sided(s, op, side) = {}
  BY <1>3 DEF Sided
<1>5. Picked(s, {}) = s /\ \A field : Each(s, field) = s
  BY <1>1, PickedNone, EachNone
<1>6. \A default : LastOr(s, default) = default
  BY <1>1 DEF LastOr
<1>7. \A side : RulesLeft(s, side) = s /\ NestedOf(s, side) = s
  BY <1>2, <1>4, <1>5 DEF RulesLeft, NestedOf
<1>8. WrapsLeft(s) = s
  BY <1>2, <1>5 DEF WrapsLeft
<1>9. \A side : FirstSample(s, side) = Own
  BY <1>1, <1>3, <1>5 DEF FirstSample
<1>10. UnexportedIn(s) = Off(FALSE, FALSE)
  <2>1. Picked(s, Named(s, "unexported")) = s /\ Said(s) = FALSE
    BY <1>1, <1>3, <1>5 DEF Said
  <2>2. PICK none : none = [x |-> FALSE, y |-> FALSE]
    OBVIOUS
  <2>3. LastOr(s, none) = none /\ none.x = FALSE /\ none.y = FALSE
    BY <1>6, <2>2
  <2>4. UnexportedIn(s) = [on |-> FALSE, x |-> LastOr(s, none).x, y |-> LastOr(s, none).y]
    BY <2>1, <2>2 DEF UnexportedIn
  <2>. QED
    BY <2>3, <2>4 DEF Off
<1>11. \A name, side : AffixLeft(s, name, side) = Nil
  BY <1>2, <1>6 DEF AffixLeft
<1>12. Matching(s) = {}
  BY <1>3 DEF Matching
<1>13. PairsOf(s, Matching(s)) = s /\ PairsOf(s, Named(s, "matchSkip")) = s
  BY <1>3, <1>5, <1>12 DEF PairsOf
<1>14. FuncPairs(s) = {} /\ \A pair : FuncsFor(s, pair) = {}
  BY <1>3 DEF FuncPairs, FuncsFor
<1>15. \A pair : FuncOf(s, pair) = Nil
  BY <1>5, <1>6, <1>14 DEF FuncOf, FuncsFor
<1>16. Said(Samples(s)) = FALSE
  BY <1>1, <1>3, <1>5 DEF Said, Samples
<1>. QED
  BY <1>1, <1>7, <1>8, <1>9, <1>10, <1>11, <1>13, <1>14, <1>15, <1>16

-----------------------------------------------------------------------------
(* The options for a kind, or for all, that stand before the i-th. *)
Part(opts, i, into) == Picked(opts, {k \in DOMAIN opts : k < i /\ opts[k].into = into})

LEMMA PartIs ==
  ASSUME NEW opts, IsList(opts), NEW i, NEW into
  PROVE  /\ IsSeq(Part(opts, i, into)) /\ DOMAIN Part(opts, i, into) = 1 .. Len(Part(opts, i, into))
         /\ \A k \in DOMAIN Part(opts, i, into) :
              \E j \in DOMAIN opts : Part(opts, i, into)[k] = opts[j] /\ opts[j].into = into
<1>1. PICK S, p : S = {k \in DOMAIN opts : k < i /\ opts[k].into = into} /\ p = Picked(opts, S)
  OBVIOUS
<1>2. IsSeq(opts) /\ S \subseteq DOMAIN opts
  <2>1. S \subseteq DOMAIN opts
    BY <1>1
  <2>2. IsSeq(opts)
    BY ListIs
  <2>. QED
    BY <2>1, <2>2
<1>3. IsSeq(p) /\ \A k \in 1 .. Len(p) : \E j \in S : p[k] = opts[j]
  <2>1. /\ IsSeq(Picked(opts, S))
        /\ \A k \in 1 .. Len(Picked(opts, S)) : \E j \in S : Picked(opts, S)[k] = opts[j]
    BY <1>2, PickedOfSeq
  <2>. QED
    BY <1>1, <2>1
<1>4. DOMAIN p = 1 .. Len(p)
  BY <1>3, SeqIs
<1>. QED
  BY <1>1, <1>3, <1>4 DEF Part

LEMMA PartNone ==
  ASSUME NEW opts, IsList(opts), NEW i, i \in {0, 1}, NEW into
  PROVE  Part(opts, i, into) = <<>>
<1>1. PICK S : S = {k \in DOMAIN opts : k < i /\ opts[k].into = into}
  OBVIOUS
<1>2. S = {}
  BY <1>1, ListIs
<1>. QED
  BY <1>1, <1>2, PickedNone DEF Part

LEMMA PartMore ==
  ASSUME NEW opts, IsList(opts), NEW i \in DOMAIN opts, NEW into
  PROVE  /\ opts[i].into = into => Part(opts, i + 1, into) = Append(Part(opts, i, into), opts[i])
         /\ opts[i].into # into => Part(opts, i + 1, into) = Part(opts, i, into)
<1>1. PICK S, T : /\ S = {k \in DOMAIN opts : k < i /\ opts[k].into = into}
                  /\ T = {k \in DOMAIN opts : k < i + 1 /\ opts[k].into = into}
  OBVIOUS
<1>2. Part(opts, i, into) = Picked(opts, S) /\ Part(opts, i + 1, into) = Picked(opts, T)
  BY <1>1 DEF Part
<1>3. DOMAIN opts \in SUBSET Nat /\ i \in Nat /\ DOMAIN opts = 1 .. Len(opts) /\ Len(opts) \in Nat
  BY ListIs
<1>4. \A k \in DOMAIN opts : k < i + 1 <=> k < i \/ k = i
  BY <1>3
<1>5. CASE opts[i].into = into
  <2>1. T = S \cup {i}
    BY <1>1, <1>4, <1>5
  <2>2. S \in SUBSET Nat /\ IsFiniteSet(S) /\ \A k \in S : k < i
    <3>1. IsFiniteSet(1 .. Len(opts))
      BY <1>3, FS_Interval
    <3>2. S \subseteq 1 .. Len(opts)
      BY <1>1, <1>3
    <3>3. IsFiniteSet(S)
      BY <3>1, <3>2, FS_Subset
    <3>. QED
      BY <1>1, <1>3, <3>3
  <2>3. Picked(opts, S \cup {i}) = Append(Picked(opts, S), opts[i])
    BY <1>3, <2>2, PickedMore
  <2>. QED
    BY <1>2, <1>5, <2>1, <2>3
<1>6. CASE opts[i].into # into
  <2>1. T = S
    BY <1>1, <1>4, <1>6
  <2>. QED
    BY <1>2, <1>6, <2>1
<1>. QED
  BY <1>5, <1>6

LEMMA PartAll ==
  ASSUME NEW opts, IsList(opts), NEW into
  PROVE  Part(opts, Len(opts) + 1, into) = Given(opts, into)
<1>1. PICK S, T : /\ S = {k \in DOMAIN opts : k < Len(opts) + 1 /\ opts[k].into = into}
                  /\ T = {k \in DOMAIN opts : opts[k].into = into}
  OBVIOUS
<1>2. \A k \in DOMAIN opts : k < Len(opts) + 1
  BY ListIs
<1>3. S = T
  BY <1>1, <1>2
<1>. QED
  BY <1>1, <1>3 DEF Part, Given

LEMMA GivenOwn ==
  ASSUME NEW opts, IsList(opts), \A i \in DOMAIN opts : opts[i].into = Nil
  PROVE  Given(opts, Nil) = opts
<1>1. PICK S : S = {k \in DOMAIN opts : opts[k].into = Nil}
  OBVIOUS
<1>2. S = DOMAIN opts
  BY <1>1
<1>3. IsSeq(opts)
  BY ListIs
<1>. QED
  BY <1>1, <1>2, <1>3, PickedAll DEF Given

LEMMA GivenHalves ==
  ASSUME NEW opts, IsList(opts), NEW kind, kind # Nil
  PROVE  Halves(Given(opts, Nil), Given(opts, kind))
<1>1. PICK n : n = Len(opts) + 1
  OBVIOUS
<1>2. Given(opts, Nil) = Part(opts, n, Nil) /\ Given(opts, kind) = Part(opts, n, kind)
  BY <1>1, PartAll
<1>3. PICK a, b : a = Part(opts, n, Nil) /\ b = Part(opts, n, kind)
  OBVIOUS
<1>4. IsSeq(a) /\ \A k \in DOMAIN a : \E j \in DOMAIN opts : a[k] = opts[j] /\ opts[j].into = Nil
  BY <1>3, PartIs
<1>5. IsSeq(b) /\ \A k \in DOMAIN b : \E j \in DOMAIN opts : b[k] = opts[j] /\ opts[j].into = kind
  BY <1>3, PartIs
<1>. QED
  BY <1>2, <1>3, <1>4, <1>5 DEF Halves

LEMMA SliceIs ==
  ASSUME NEW s, IsSeq(s), NEW a \in Nat, NEW b \in Nat, a >= 1, a <= b + 1, b <= Len(s)
  PROVE  /\ IsSeq(SubSeq(s, a, b)) /\ Len(SubSeq(s, a, b)) = (b + 1) - a
         /\ \A k \in 1 .. (b + 1) - a : SubSeq(s, a, b)[k] = s[(a + k) - 1]
<1>1. PICK S : s \in Seq(S)
  BY DEF IsSeq
<1>2. Len(s) \in Nat /\ \A i \in 1 .. Len(s) : s[i] \in S
  BY <1>1
<1>3. \A i \in a .. b : s[i] \in S
  BY <1>2
<1>4. /\ SubSeq(s, a, b) \in Seq(S)
      /\ Len(SubSeq(s, a, b)) = IF a <= b THEN b - a + 1 ELSE 0
      /\ \A i \in 1 .. b - a + 1 : SubSeq(s, a, b)[i] = s[a + i - 1]
  BY <1>3, SubSeqProperties
<1>. QED
  BY <1>4 DEF IsSeq

LEMMA PrefixIs ==
  ASSUME NEW s, IsSeq(s), NEW t, IsSeq(t)
  PROVE  SubSeq(s \o t, 1, Len(s)) = s
<1>1. PICK j, n, m : j = s \o t /\ n = Len(s) /\ m = Len(t)
  OBVIOUS
<1>2. /\ IsSeq(j) /\ Len(j) = n + m /\ \A k \in 1 .. n : j[k] = s[k]
      /\ n \in Nat /\ m \in Nat
  BY <1>1, Joined, LenIs
<1>3. PICK u, a : u = SubSeq(j, a, n) /\ a = 1
  OBVIOUS
<1>4. /\ IsSeq(SubSeq(j, a, n)) /\ Len(SubSeq(j, a, n)) = (n + 1) - a
      /\ \A k \in 1 .. (n + 1) - a : SubSeq(j, a, n)[k] = j[(a + k) - 1]
  <2>1. a \in Nat /\ n \in Nat /\ a >= 1 /\ a <= n + 1 /\ n <= Len(j)
    BY <1>2, <1>3
  <2>. QED
    BY <1>2, <2>1, SliceIs
<1>5. IsSeq(u) /\ Len(u) = n /\ \A k \in 1 .. n : u[k] = j[(a + k) - 1]
  BY <1>2, <1>3, <1>4
<1>6. \A k \in 1 .. n : u[k] = s[k]
  BY <1>2, <1>3, <1>5
<1>7. u = s
  BY <1>1, <1>5, <1>6, SameSeq
<1>. QED
  BY <1>1, <1>3, <1>7

(* A slice whose array is there, and has room for what it holds. *)
Fits(h, s) ==
  s = NilSlice \/ (s.arr \in 1 .. Len(h) /\ IsSeq(h[s.arr]) /\ s.len \in 1 .. Len(h[s.arr]))

LEMMA FitsIs ==
  ASSUME NEW h, IsSeq(h), NEW s, Fits(h, s)
  PROVE  /\ IsSeq(Contents(h, s)) /\ Len(Contents(h, s)) = s.len /\ s.len \in Nat
         /\ Room(h, s) \in Nat /\ s.len <= Room(h, s)
<1>1. Len(h) \in Nat
  BY LenIs
<1>2. CASE s = NilSlice
  <2>1. Contents(h, s) = <<>> /\ s.len = 0 /\ Room(h, s) = 0
    BY <1>2 DEF NilSlice, Contents, Room
  <2>. QED
    BY <2>1, NoneIsSeq
<1>3. CASE s # NilSlice
  <2>1. PICK a, g, n, one : a = s.arr /\ g = h[a] /\ n = s.len /\ one = 1
    OBVIOUS
  <2>2. a \in 1 .. Len(h) /\ IsSeq(g) /\ n \in 1 .. Len(g) /\ Len(g) \in Nat
    BY <1>3, <2>1, LenIs DEF Fits
  <2>3. a # 0
    BY <1>1, <2>2
  <2>4. Contents(h, s) = SubSeq(g, one, n) /\ Room(h, s) = Len(g)
    BY <2>1, <2>3 DEF Contents, Room
  <2>5. n \in Nat /\ one \in Nat /\ one >= 1 /\ one <= n + 1 /\ n <= Len(g)
    BY <2>1, <2>2
  <2>6. IsSeq(SubSeq(g, one, n)) /\ Len(SubSeq(g, one, n)) = (n + 1) - one
    BY <2>2, <2>5, SliceIs
  <2>7. (n + 1) - one = n
    BY <2>1, <2>5
  <2>. QED
    BY <2>1, <2>2, <2>4, <2>5, <2>6, <2>7
<1>. QED
  BY <1>2, <1>3

(* append puts what it is given after what there was. *)
LEMMA AppendAllIs ==
  ASSUME NEW h, IsSeq(h), NEW s, IsSlice(s, Len(h)), Fits(h, s), NEW vs, IsSeq(vs)
  PROVE  /\ Fits(AppendAll(h, s, vs).heap, AppendAll(h, s, vs).slice)
         /\ Contents(AppendAll(h, s, vs).heap, AppendAll(h, s, vs).slice) = Contents(h, s) \o vs
<1> DEFINE n == s.len + Len(vs)
           all == Contents(h, s) \o vs
           fits == n <= Room(h, s)
           size == Bigger(n, 2 * Room(h, s))
           tail(a) == all \o SubSeq(a, n + 1, Len(a))
           pad == [k \in 1 .. size - n |-> Nil]
<1>1. AppendAll(h, s, vs) =
        IF fits THEN [heap |-> IF vs = <<>> THEN h ELSE [h EXCEPT ![s.arr] = tail(@)],
                      slice |-> [s EXCEPT !.len = n]]
        ELSE [heap |-> Append(h, all \o pad), slice |-> [arr |-> Len(h) + 1, len |-> n]]
  BY DEF AppendAll
<1>2. Len(h) \in Nat /\ s.arr \in Nat /\ s.arr <= Len(h)
  BY HeapLen DEF IsSlice
<1>3. [s EXCEPT !.len = n] = [arr |-> s.arr, len |-> n]
  BY DEF IsSlice
<1>4. /\ IsSeq(Contents(h, s)) /\ Len(Contents(h, s)) = s.len /\ s.len \in Nat
      /\ Room(h, s) \in Nat /\ s.len <= Room(h, s)
  BY FitsIs
<1>5. Len(vs) \in Nat
  BY LenIs
<1>6. IsSeq(all) /\ Len(all) = n /\ n \in Nat
  <2>1. IsSeq(all) /\ Len(all) = Len(Contents(h, s)) + Len(vs)
    BY <1>4, Joined
  <2>. QED
    BY <1>4, <1>5, <2>1
<1>7. size \in Nat /\ size >= n
  BY <1>4, <1>6 DEF Bigger
<1>8. n = s.len + Len(vs) /\ all = Contents(h, s) \o vs
  OBVIOUS
<1> HIDE DEF n, all, size
<1>9. CASE fits /\ vs = <<>>
  <2>1. Len(vs) = 0
    BY <1>9, NoneIsSeq
  <2>2. n = s.len /\ all = Contents(h, s)
    <3>1. Contents(h, s) \o <<>> = Contents(h, s)
      BY <1>4, JoinedNone
    <3>. QED
      BY <1>4, <1>8, <1>9, <2>1, <3>1
  <2>3. AppendAll(h, s, vs) = [heap |-> h, slice |-> s]
    BY <1>1, <1>3, <1>9, <2>2 DEF IsSlice
  <2>. QED
    BY <1>8, <2>2, <2>3
<1>10. CASE fits /\ vs # <<>>
  <2>1. n >= 1 /\ Room(h, s) >= n
    <3>1. Len(vs) # 0
      BY <1>10, EmptySeqIs
    <3>. QED
      BY <1>4, <1>5, <1>8, <1>10, <3>1
  <2>2. PICK a, old, one, m : a = s.arr /\ old = h[a] /\ one = n + 1 /\ m = Len(old)
    OBVIOUS
  <2>3. a # 0 /\ a \in 1 .. Len(h) /\ Room(h, s) = m
    <3>1. a # 0
      BY <1>6, <2>1, <2>2 DEF Room
    <3>. QED
      BY <1>2, <2>2, <3>1 DEF Room
  <2>4. IsSeq(old) /\ m \in Nat /\ n <= m
    BY <1>4, <2>1, <2>2, <2>3 DEF Fits, NilSlice
  <2>5. PICK rest, new : rest = SubSeq(old, one, m) /\ new = all \o rest
    OBVIOUS
  <2>6. IsSeq(rest) /\ Len(rest) = m - n
    <3>1. one \in Nat /\ m \in Nat /\ one >= 1 /\ one <= m + 1 /\ m <= Len(old)
      BY <1>6, <2>2, <2>4
    <3>2. IsSeq(SubSeq(old, one, m)) /\ Len(SubSeq(old, one, m)) = (m + 1) - one
      BY <2>4, <3>1, SliceIs
    <3>3. (m + 1) - one = m - n
      BY <1>6, <2>2, <2>4
    <3>. QED
      BY <2>5, <3>2, <3>3
  <2>7. IsSeq(new) /\ Len(new) = m /\ SubSeq(new, 1, n) = all
    <3>1. IsSeq(all \o rest) /\ Len(all \o rest) = Len(all) + Len(rest)
      BY <1>6, <2>6, Joined
    <3>2. SubSeq(all \o rest, 1, Len(all)) = all
      BY <1>6, <2>6, PrefixIs
    <3>3. Len(all) + Len(rest) = m
      BY <1>6, <2>4, <2>6
    <3>. QED
      BY <1>6, <2>5, <3>1, <3>2, <3>3
  <2>8. PICK g : g = [h EXCEPT ![a] = new]
    OBVIOUS
  <2>9. tail(old) = new
    BY <2>2, <2>5
  <2>10. AppendAll(h, s, vs) = [heap |-> g, slice |-> [arr |-> a, len |-> n]]
    <3>1. [h EXCEPT ![a] = tail(@)] = [h EXCEPT ![a] = tail(old)]
      BY <2>2
    <3>. QED
      BY <1>1, <1>3, <1>10, <2>2, <2>8, <2>9, <3>1
  <2>11. a \in DOMAIN h
    BY <2>3, SeqIs
  <2>12. g[a] = new
    BY <2>8, <2>11
  <2>13. Len(g) = Len(h)
    <3>1. /\ g = [j \in DOMAIN h |-> g[j]]
          /\ \A j \in DOMAIN h : j # a => g[j] = h[j]
      BY <2>8
    <3>2. a \in Nat
      BY <1>2, <2>2
    <3>. QED
      BY <3>1, <3>2, WrittenHeap
  <2>14. PICK sl : sl = [arr |-> a, len |-> n]
    OBVIOUS
  <2>15. Fits(g, sl)
    <3>1. sl.arr = a /\ sl.len = n /\ n \in 1 .. m
      BY <1>6, <2>1, <2>4, <2>14
    <3>. QED
      BY <2>3, <2>7, <2>12, <2>13, <3>1 DEF Fits
  <2>16. Contents(g, sl) = all
    <3>1. sl.arr = a /\ sl.len = n
      BY <2>14
    <3>. QED
      BY <2>3, <2>7, <2>12, <3>1 DEF Contents
  <2>. QED
    BY <1>8, <2>10, <2>14, <2>15, <2>16
<1>11. CASE ~fits
  <2>1. n >= 1
    BY <1>4, <1>6, <1>11
  <2>2. IsSeq(pad) /\ Len(pad) = size - n
    <3>1. PICK m, f : m = size - n /\ f = pad
      OBVIOUS
    <3>2. m \in Nat /\ f = [k \in 1 .. m |-> f[k]]
      BY <1>6, <1>7, <3>1
    <3>. QED
      BY <3>1, <3>2, FunctionIsSeq
  <2>3. PICK new, a, sl, g : /\ new = all \o pad /\ a = Len(h) + 1 /\ sl = [arr |-> a, len |-> n]
                             /\ g = Append(h, new)
    OBVIOUS
  <2>4. IsSeq(new) /\ Len(new) = size /\ SubSeq(new, 1, n) = all
    <3>1. IsSeq(all \o pad) /\ Len(all \o pad) = Len(all) + Len(pad)
      BY <1>6, <2>2, Joined
    <3>2. SubSeq(all \o pad, 1, Len(all)) = all
      BY <1>6, <2>2, PrefixIs
    <3>3. Len(all) + Len(pad) = size
      BY <1>6, <1>7, <2>2
    <3>. QED
      BY <1>6, <2>3, <3>1, <3>2, <3>3
  <2>5. AppendAll(h, s, vs) = [heap |-> g, slice |-> sl]
    BY <1>1, <1>11, <2>3
  <2>6. Len(g) = a /\ g[a] = new /\ a \in 1 .. a /\ a # 0
    <3>1. Len(Append(h, new)) = Len(h) + 1 /\ Append(h, new)[Len(h) + 1] = new
      BY Appended
    <3>2. Len(g) = a /\ g[a] = new
      BY <2>3, <3>1
    <3>3. a \in Nat /\ a >= 1
      BY <1>2, <2>3
    <3>. QED
      BY <3>2, <3>3
  <2>7. Fits(g, sl)
    <3>1. sl.arr = a /\ sl.len = n /\ n \in 1 .. size
      BY <1>6, <1>7, <2>1, <2>3
    <3>. QED
      BY <2>4, <2>6, <3>1 DEF Fits
  <2>8. Contents(g, sl) = all
    <3>1. sl.arr = a /\ sl.len = n
      BY <2>3
    <3>. QED
      BY <2>4, <2>6, <3>1 DEF Contents
  <2>. QED
    BY <1>8, <2>5, <2>7, <2>8
<1>. QED
  BY <1>9, <1>10, <1>11

-----------------------------------------------------------------------------
(* A configuration none of whose lists shares an array with another of them. *)
Tidy(st) ==
  /\ IsState(st)
  /\ \A l \in Lists : Fits(st.heap, st.cfg.lists[l])
  /\ \A l, m \in Lists :
       l # m /\ st.cfg.lists[l].arr # 0 => st.cfg.lists[l].arr # st.cfg.lists[m].arr

Says(st, l) == Contents(st.heap, st.cfg.lists[l])

SameRest(c, d) == DOMAIN d = DOMAIN c /\ \A f \in DOMAIN c : f # "lists" => d[f] = c[f]

(* One list has more rules, and nothing else has changed. *)
Extends(st, new, l, vs) ==
  /\ Tidy(new) /\ SameRest(st.cfg, new.cfg)
  /\ Says(new, l) = Says(st, l) \o vs
  /\ \A m \in Lists : m # l => Says(new, m) = Says(st, m)

LEMMA SaysIs ==
  ASSUME NEW st, Tidy(st), NEW l \in Lists
  PROVE  IsSeq(Says(st, l))
<1>1. PICK h, s : h = st.heap /\ s = st.cfg.lists[l]
  OBVIOUS
<1>2. IsSeq(h) /\ Fits(h, s)
  BY <1>1 DEF Tidy, IsState
<1>3. IsSeq(Contents(h, s))
  BY <1>2, FitsIs
<1>. QED
  BY <1>1, <1>3 DEF Says

LEMMA AppendToTidy ==
  ASSUME NEW st, Tidy(st), NEW l \in Lists, NEW vs, IsSeq(vs)
  PROVE  Extends(st, AppendTo(st, l, vs), l, vs)
<1>1. PICK h, c, s : h = st.heap /\ c = st.cfg /\ s = c.lists[l]
  OBVIOUS
<1>2. PICK r : r = AppendAll(h, s, vs)
  OBVIOUS
<1>3. /\ IsSeq(h) /\ Len(h) \in Nat /\ IsSlice(s, Len(h)) /\ Fits(h, s)
      /\ "lists" \in DOMAIN c /\ DOMAIN c.lists = Lists
      /\ \A m \in Lists : IsSlice(c.lists[m], Len(h)) /\ Fits(h, c.lists[m])
      /\ \A k, m \in Lists : k # m /\ c.lists[k].arr # 0 => c.lists[k].arr # c.lists[m].arr
  BY <1>1, HeapLen DEF Tidy, IsState, Holds
<1>4. /\ IsSeq(r.heap) /\ Len(r.heap) >= Len(h)
      /\ IsSlice(r.slice, Len(r.heap))
      /\ r.slice.arr = s.arr \/ r.slice.arr = Len(h) + 1
      /\ \A j \in 1 .. Len(h) : j # s.arr => r.heap[j] = h[j]
  BY <1>2, <1>3, AppendFrame
<1>5. Fits(r.heap, r.slice) /\ Contents(r.heap, r.slice) = Contents(h, s) \o vs
  BY <1>2, <1>3, AppendAllIs
<1>6. Len(r.heap) \in Nat
  BY <1>4, HeapLen
<1>7. PICK d, new : d = [c EXCEPT !.lists[l] = r.slice] /\ new = AppendTo(st, l, vs)
  OBVIOUS
<1>8. new.heap = r.heap /\ new.cfg = d
  BY <1>1, <1>2, <1>7 DEF AppendTo, State
<1>9. /\ "lists" \in DOMAIN d /\ DOMAIN d.lists = Lists
      /\ d.lists[l] = r.slice /\ \A m \in Lists : m # l => d.lists[m] = c.lists[m]
      /\ SameRest(c, d)
  <2>1. /\ DOMAIN d = DOMAIN c /\ d.lists = [c.lists EXCEPT ![l] = r.slice]
        /\ \A f \in DOMAIN c : f # "lists" => d[f] = c[f]
    BY <1>3, <1>7
  <2>. QED
    BY <1>3, <2>1 DEF SameRest
<1>10. ASSUME NEW m \in Lists, m # l
       PROVE  /\ Fits(r.heap, d.lists[m]) /\ IsSlice(d.lists[m], Len(r.heap))
              /\ Contents(r.heap, d.lists[m]) = Contents(h, c.lists[m])
              /\ d.lists[m].arr # 0 => d.lists[m].arr # r.slice.arr
  <2>1. PICK t : t = c.lists[m]
    OBVIOUS
  <2>2. t = d.lists[m] /\ IsSlice(t, Len(h)) /\ Fits(h, t) /\ (t.arr # 0 => t.arr # s.arr)
    BY <1>1, <1>3, <1>9, <1>10, <2>1
  <2>3. t.arr \in 0 .. Len(h)
    BY <2>2 DEF IsSlice
  <2>4. t.arr # 0 => r.heap[t.arr] = h[t.arr] /\ t.arr \in 1 .. Len(r.heap)
    BY <1>3, <1>4, <1>6, <2>2, <2>3
  <2>5. t = NilSlice \/ t.arr # 0
    BY <1>3, <2>2 DEF Fits
  <2>6. Fits(r.heap, t)
    BY <2>2, <2>4, <2>5 DEF Fits
  <2>7. Contents(r.heap, t) = Contents(h, t)
    BY <2>4 DEF Contents
  <2>8. IsSlice(t, Len(r.heap))
    BY <1>3, <1>4, <1>6, <2>2 DEF IsSlice
  <2>9. t.arr # 0 => t.arr # r.slice.arr
    BY <1>3, <1>4, <2>2, <2>3
  <2>. QED
    BY <2>1, <2>2, <2>6, <2>7, <2>8, <2>9
<1>11. \A m \in Lists : Fits(r.heap, d.lists[m]) /\ IsSlice(d.lists[m], Len(r.heap))
  BY <1>4, <1>5, <1>9, <1>10
<1>12. ASSUME NEW k \in Lists, NEW m \in Lists, k # m, d.lists[k].arr # 0
       PROVE  d.lists[k].arr # d.lists[m].arr
  <2>1. CASE k = l
    <3>1. d.lists[m].arr # 0 => d.lists[m].arr # d.lists[k].arr
      BY <1>9, <1>10, <1>12, <2>1
    <3>. QED
      BY <1>12, <3>1
  <2>2. CASE m = l
    BY <1>9, <1>10, <1>12, <2>2
  <2>3. CASE k # l /\ m # l
    BY <1>3, <1>9, <1>12, <2>3
  <2>. QED
    BY <2>1, <2>2, <2>3
<1>13. Tidy(new)
  BY <1>4, <1>8, <1>9, <1>11, <1>12 DEF Tidy, IsState, Holds
<1>14. Says(new, l) = Says(st, l) \o vs
  BY <1>1, <1>5, <1>8, <1>9 DEF Says
<1>15. \A m \in Lists : m # l => Says(new, m) = Says(st, m)
  BY <1>1, <1>8, <1>10 DEF Says
<1>. QED
  BY <1>1, <1>7, <1>8, <1>9, <1>13, <1>14, <1>15 DEF Extends

(* Some of the lists are emptied. *)
LEMMA EmptiedTidy ==
  ASSUME NEW st, Tidy(st), NEW c, "lists" \in DOMAIN c, DOMAIN c.lists = Lists,
         \A l \in Lists : c.lists[l] = NilSlice \/ c.lists[l] = st.cfg.lists[l]
  PROVE  /\ Tidy(State(st.heap, c))
         /\ \A l \in Lists :
              /\ c.lists[l] = NilSlice => Says(State(st.heap, c), l) = <<>>
              /\ c.lists[l] = st.cfg.lists[l] => Says(State(st.heap, c), l) = Says(st, l)
<1>1. PICK new : new = State(st.heap, c)
  OBVIOUS
<1>2. new.heap = st.heap /\ new.cfg = c
  BY <1>1 DEF State
<1>3. Len(st.heap) \in Nat /\ NilSlice.arr = 0
  BY HeapLen DEF Tidy, IsState, NilSlice
<1>4. IsSlice(NilSlice, Len(st.heap)) /\ Fits(st.heap, NilSlice)
  BY <1>3 DEF IsSlice, NilSlice, Fits
<1>5. Tidy(new)
  BY <1>2, <1>3, <1>4 DEF Tidy, IsState, Holds
<1>6. Contents(st.heap, NilSlice) = <<>>
  BY <1>3 DEF Contents
<1>. QED
  BY <1>1, <1>2, <1>5, <1>6 DEF Says

(* The same rules, in arrays that may be others. *)
Alike(st, new) == Tidy(new) /\ SameRest(st.cfg, new.cfg) /\ \A l \in Lists : Says(new, l) = Says(st, l)

LEMMA CloneTidy ==
  ASSUME NEW st, Tidy(st), NEW l \in Lists
  PROVE  Alike(st, Clone(st, l))
<1>1. PICK vs, c, nil : /\ vs = Says(st, l) /\ c = [st.cfg EXCEPT !.lists[l] = NilSlice]
                        /\ nil = State(st.heap, c)
  OBVIOUS
<1>2. IsSeq(vs)
  BY <1>1, SaysIs
<1>3. /\ "lists" \in DOMAIN c /\ DOMAIN c.lists = Lists
      /\ c.lists[l] = NilSlice /\ (\A m \in Lists : m # l => c.lists[m] = st.cfg.lists[m])
      /\ SameRest(st.cfg, c)
  <2>1. "lists" \in DOMAIN st.cfg /\ DOMAIN st.cfg.lists = Lists
    BY DEF Tidy, IsState, Holds
  <2>2. /\ DOMAIN c = DOMAIN st.cfg /\ c.lists = [st.cfg.lists EXCEPT ![l] = NilSlice]
        /\ \A f \in DOMAIN st.cfg : f # "lists" => c[f] = st.cfg[f]
    BY <1>1, <2>1
  <2>. QED
    BY <2>1, <2>2 DEF SameRest
<1>4. \A m \in Lists : c.lists[m] = NilSlice \/ c.lists[m] = st.cfg.lists[m]
  BY <1>3
<1>5. /\ Tidy(nil) /\ Says(nil, l) = <<>>
      /\ \A m \in Lists : m # l => Says(nil, m) = Says(st, m)
  <2>1. /\ Tidy(State(st.heap, c))
        /\ \A k \in Lists :
              /\ c.lists[k] = NilSlice => Says(State(st.heap, c), k) = <<>>
              /\ c.lists[k] = st.cfg.lists[k] => Says(State(st.heap, c), k) = Says(st, k)
    BY <1>3, <1>4, EmptiedTidy
  <2>. QED
    BY <1>1, <1>3, <2>1
<1>6. Extends(nil, AppendTo(nil, l, vs), l, vs)
  BY <1>2, <1>5, AppendToTidy
<1>7. nil.cfg = c
  BY <1>1 DEF State
<1>8. <<>> \o vs = vs
  BY <1>2, JoinedNone
<1>9. PICK new : new = AppendTo(nil, l, vs)
  OBVIOUS
<1>10. Clone(st, l) = new
  BY <1>1, <1>9 DEF Clone, Says
<1>11. SameRest(st.cfg, new.cfg)
  BY <1>3, <1>6, <1>7, <1>9 DEF Extends, SameRest
<1>12. Says(new, l) = vs
  BY <1>5, <1>6, <1>8, <1>9 DEF Extends
<1>13. \A m \in Lists : m # l => Says(new, m) = Says(st, m)
  BY <1>5, <1>6, <1>9 DEF Extends
<1>. QED
  BY <1>1, <1>6, <1>9, <1>10, <1>11, <1>12, <1>13 DEF Alike, Extends

LEMMA AlikeOn ==
  ASSUME NEW a, NEW b, NEW c, Alike(a, b), Alike(b, c)
  PROVE  Alike(a, c)
BY DEF Alike, SameRest

-----------------------------------------------------------------------------
(* Forks *)

(* Nothing of what only directives say. *)
NoPaths(c) ==
  /\ c.match = <<>> /\ c.matchSkip = <<>> /\ c.matchFuncs \in {NilMap, NoMatchFuncs}
  /\ c.bySample = Off(Nil, Nil) /\ DOMAIN c.nested = Sides /\ \A side \in Sides : c.nested[side] = <<>>

(* A fork has the rules, the wrappers and the discovery of what it is forked *)
(* from, and nothing of its matches.                                         *)
ForkedAs(st, new) ==
  /\ Tidy(new) /\ Shaped(new.cfg) /\ NoPaths(new.cfg)
  /\ \A l \in Lists : Says(new, l) = Says(st, l)
  /\ new.cfg.errWraps = st.cfg.errWraps /\ new.cfg.unexported = st.cfg.unexported
  /\ new.cfg.getters = st.cfg.getters /\ new.cfg.setters = st.cfg.setters

LEMMA ForkTidy ==
  ASSUME NEW st, Tidy(st), Shaped(st.cfg)
  PROVE  ForkedAs(st, Fork(st))
<1>1. PICK rx, ry, fx, fy : /\ rx = <<"renamers", "x">> /\ ry = <<"renamers", "y">>
                            /\ fx = <<"finders", "x">> /\ fy = <<"finders", "y">>
  OBVIOUS
<1>2. {rx, ry, fx, fy} \subseteq Lists
  BY <1>1, ListsAre
<1>3. PICK s1 : s1 = Clone(st, rx)
  OBVIOUS
<1>4. PICK s2 : s2 = Clone(s1, ry)
  OBVIOUS
<1>5. PICK s3 : s3 = Clone(s2, fx)
  OBVIOUS
<1>6. PICK s4 : s4 = Clone(s3, fy)
  OBVIOUS
<1>7. Alike(st, s1)
  BY <1>2, <1>3, CloneTidy
<1>8. Alike(s1, s2)
  BY <1>2, <1>4, <1>7, CloneTidy DEF Alike
<1>9. Alike(s2, s3)
  BY <1>2, <1>5, <1>8, CloneTidy DEF Alike
<1>10. Alike(s3, s4)
  BY <1>2, <1>6, <1>9, CloneTidy DEF Alike
<1>11. Alike(st, s4)
  <2>1. Alike(st, s2)
    BY <1>7, <1>8, AlikeOn
  <2>2. Alike(st, s3)
    BY <1>9, <2>1, AlikeOn
  <2>. QED
    BY <1>10, <2>2, AlikeOn
<1>12. PICK c, d : /\ c = s4.cfg
                   /\ d = [c EXCEPT !.match = <<>>, !.matchFuncs = NoMatchFuncs,
                             !.matchSkip = <<>>, !.bySample = Off(Nil, Nil),
                             !.nested = [side \in Sides |-> <<>>]]
  OBVIOUS
<1>13. Fork(st) = State(s4.heap, d)
  BY <1>1, <1>3, <1>4, <1>5, <1>6, <1>12 DEF Fork, CloneRules
<1>14. Shaped(c) /\ SameRest(st.cfg, c)
  BY <1>11, <1>12 DEF Alike, SameRest, Shaped
<1>15. /\ DOMAIN d = DOMAIN c /\ d.lists = c.lists /\ d.errWraps = c.errWraps
       /\ d.unexported = c.unexported /\ d.getters = c.getters /\ d.setters = c.setters
       /\ d.match = <<>> /\ d.matchFuncs = NoMatchFuncs /\ d.matchSkip = <<>>
       /\ d.bySample = Off(Nil, Nil) /\ d.nested = [side \in Sides |-> <<>>]
  BY <1>12, <1>14, Fields
<1>16. NoPaths(d)
  BY <1>15 DEF NoPaths
<1>17. PICK new : new = State(s4.heap, d)
  OBVIOUS
<1>18. new.heap = s4.heap /\ new.cfg = d
  BY <1>17 DEF State
<1>19. Tidy(new) /\ \A l \in Lists : Says(new, l) = Says(s4, l)
  BY <1>11, <1>12, <1>14, <1>15, <1>18, Fields DEF Alike, Tidy, IsState, Holds, Says, Shaped
<1>20. /\ d.errWraps = st.cfg.errWraps /\ d.unexported = st.cfg.unexported
       /\ d.getters = st.cfg.getters /\ d.setters = st.cfg.setters
  BY <1>14, <1>15, Fields DEF SameRest
<1>. QED
  BY <1>11, <1>13, <1>14, <1>15, <1>16, <1>17, <1>18, <1>19, <1>20 DEF ForkedAs, Alike, Shaped

(* A fork that goes on with another configuration. *)
Updated(st, other, new) ==
  /\ Tidy(new) /\ Shaped(new.cfg)
  /\ \A l \in Lists : Says(new, l) = Says(st, l) \o Contents(st.heap, other.lists[l])
  /\ new.cfg.errWraps = st.cfg.errWraps \o other.errWraps
  /\ new.cfg.unexported = Follow(st.cfg.unexported, other.unexported)
  /\ new.cfg.getters = FollowAffix(st.cfg.getters, other.getters)
  /\ new.cfg.setters = FollowAffix(st.cfg.setters, other.setters)
  /\ NoPaths(st.cfg) /\ NoPaths(other) => NoPaths(new.cfg)

LEMMA UpdateTidy ==
  ASSUME NEW st, Tidy(st), Shaped(st.cfg), NEW other,
         \A l \in Lists : IsSeq(Contents(st.heap, other.lists[l]))
  PROVE  Updated(st, other, Update(st, other))
<1>1. PICK rx, ry, fx, fy : /\ rx = <<"renamers", "x">> /\ ry = <<"renamers", "y">>
                            /\ fx = <<"finders", "x">> /\ fy = <<"finders", "y">>
  OBVIOUS
<1> DEFINE Of(l) == Contents(st.heap, other.lists[l])
<1>2. PICK s1 : s1 = AppendTo(st, rx, Of(rx))
  OBVIOUS
<1>3. PICK s2 : s2 = AppendTo(s1, ry, Of(ry))
  OBVIOUS
<1>4. PICK s3 : s3 = AppendTo(s2, fx, Of(fx))
  OBVIOUS
<1>5. PICK s4 : s4 = AppendTo(s3, fy, Of(fy))
  OBVIOUS
<1>6. PICK c, d : /\ c = s4.cfg
                  /\ d = [c EXCEPT
                             !.funcs = @ \o other.funcs, !.errWraps = @ \o other.errWraps,
                             !.match = other.match, !.matchFuncs = other.matchFuncs,
                             !.matchSkip = other.matchSkip, !.nested.x = other.nested.x,
                             !.bySample = Follow(@, other.bySample),
                             !.unexported = Follow(@, other.unexported),
                             !.getters = FollowAffix(@, other.getters),
                             !.setters = FollowAffix(@, other.setters)]
  OBVIOUS
<1>7. Update(st, other) = State(s4.heap, d)
  BY <1>1, <1>2, <1>3, <1>4, <1>5, <1>6 DEF Update
<1> HIDE DEF Of
<1>8. /\ {rx, ry, fx, fy} \subseteq Lists /\ \A l \in Lists : l \in {rx, ry, fx, fy}
      /\ rx # ry /\ rx # fx /\ rx # fy /\ ry # fx /\ ry # fy /\ fx # fy
  BY <1>1, ListsAre
<1>9. PICK v1, v2, v3, v4 : v1 = Of(rx) /\ v2 = Of(ry) /\ v3 = Of(fx) /\ v4 = Of(fy)
  OBVIOUS
<1>10. IsSeq(v1) /\ IsSeq(v2) /\ IsSeq(v3) /\ IsSeq(v4)
  BY <1>8, <1>9 DEF Of
<1>11. Extends(st, s1, rx, v1)
  <2>1. rx \in Lists /\ s1 = AppendTo(st, rx, v1)
    BY <1>2, <1>8, <1>9
  <2>2. Extends(st, AppendTo(st, rx, v1), rx, v1)
    BY <1>10, <2>1, AppendToTidy
  <2>. QED
    BY <2>1, <2>2
<1>12. Extends(s1, s2, ry, v2)
  <2>1. ry \in Lists /\ s2 = AppendTo(s1, ry, v2) /\ Tidy(s1)
    BY <1>3, <1>8, <1>9, <1>11 DEF Extends
  <2>2. Extends(s1, AppendTo(s1, ry, v2), ry, v2)
    BY <1>10, <2>1, AppendToTidy
  <2>. QED
    BY <2>1, <2>2
<1>13. Extends(s2, s3, fx, v3)
  <2>1. fx \in Lists /\ s3 = AppendTo(s2, fx, v3) /\ Tidy(s2)
    BY <1>4, <1>8, <1>9, <1>12 DEF Extends
  <2>2. Extends(s2, AppendTo(s2, fx, v3), fx, v3)
    BY <1>10, <2>1, AppendToTidy
  <2>. QED
    BY <2>1, <2>2
<1>14. Extends(s3, s4, fy, v4)
  <2>1. fy \in Lists /\ s4 = AppendTo(s3, fy, v4) /\ Tidy(s3)
    BY <1>5, <1>8, <1>9, <1>13 DEF Extends
  <2>2. Extends(s3, AppendTo(s3, fy, v4), fy, v4)
    BY <1>10, <2>1, AppendToTidy
  <2>. QED
    BY <2>1, <2>2
<1>15. Shaped(c) /\ SameRest(st.cfg, c)
  BY <1>6, <1>11, <1>12, <1>13, <1>14 DEF Extends, SameRest, Shaped
<1>16. \A l \in Lists : Says(s4, l) = Says(st, l) \o Of(l)
  <2>1. Says(s4, rx) = Says(st, rx) \o v1
    BY <1>8, <1>11, <1>12, <1>13, <1>14 DEF Extends
  <2>2. Says(s4, ry) = Says(st, ry) \o v2
    BY <1>8, <1>11, <1>12, <1>13, <1>14 DEF Extends
  <2>3. Says(s4, fx) = Says(st, fx) \o v3
    BY <1>8, <1>11, <1>12, <1>13, <1>14 DEF Extends
  <2>4. Says(s4, fy) = Says(st, fy) \o v4
    BY <1>8, <1>11, <1>12, <1>13, <1>14 DEF Extends
  <2>. QED
    BY <1>8, <1>9, <2>1, <2>2, <2>3, <2>4
<1>17. /\ DOMAIN d = DOMAIN c /\ d.lists = c.lists
       /\ d.errWraps = c.errWraps \o other.errWraps
       /\ d.unexported = Follow(c.unexported, other.unexported)
       /\ d.getters = FollowAffix(c.getters, other.getters)
       /\ d.setters = FollowAffix(c.setters, other.setters)
       /\ d.match = other.match /\ d.matchFuncs = other.matchFuncs /\ d.matchSkip = other.matchSkip
       /\ d.bySample = Follow(c.bySample, other.bySample)
       /\ d.nested = [c.nested EXCEPT !.x = other.nested.x]
  BY <1>6, <1>15, Fields
<1>18. /\ c.errWraps = st.cfg.errWraps /\ c.unexported = st.cfg.unexported
       /\ c.getters = st.cfg.getters /\ c.setters = st.cfg.setters
       /\ c.bySample = st.cfg.bySample /\ c.nested = st.cfg.nested
  BY <1>15, Fields DEF SameRest
<1>19. NoPaths(st.cfg) /\ NoPaths(other) => NoPaths(d)
  <2> SUFFICES ASSUME NoPaths(st.cfg), NoPaths(other) PROVE NoPaths(d)
    OBVIOUS
  <2>1. /\ d.match = <<>> /\ d.matchSkip = <<>> /\ d.matchFuncs \in {NilMap, NoMatchFuncs}
    BY <1>17 DEF NoPaths
  <2>2. d.bySample = Off(Nil, Nil)
    BY <1>17, <1>18 DEF NoPaths, Follow
  <2>3. DOMAIN c.nested = Sides /\ (\A side \in Sides : c.nested[side] = <<>>) /\ other.nested.x = <<>>
    BY <1>18 DEF NoPaths, Sides
  <2>4. DOMAIN d.nested = Sides /\ \A side \in Sides : d.nested[side] = <<>>
    BY <1>17, <2>3
  <2>. QED
    BY <2>1, <2>2, <2>4 DEF NoPaths
<1>20. PICK new : new = State(s4.heap, d)
  OBVIOUS
<1>21. new.heap = s4.heap /\ new.cfg = d
  BY <1>20 DEF State
<1>22. Tidy(new) /\ \A l \in Lists : Says(new, l) = Says(s4, l)
  <2>1. Tidy(s4)
    BY <1>14 DEF Extends
  <2>2. s4.cfg = c /\ new.cfg.lists = c.lists /\ "lists" \in DOMAIN new.cfg
    <3>1. "lists" \in DOMAIN c
      BY <1>15, Fields
    <3>. QED
      BY <1>6, <1>17, <1>21, <3>1
  <2>. QED
    BY <1>21, <2>1, <2>2 DEF Tidy, IsState, Holds, Says
<1>. QED
  BY <1>7, <1>15, <1>16, <1>17, <1>18, <1>19, <1>20, <1>21, <1>22 DEF Updated, Shaped, Of

-----------------------------------------------------------------------------
(* A configuration whose lists are whole and share no array. *)
Sound(h, c) == Shaped(c) /\ Tidy(State(h, c))

LEMMA SoundStays ==
  ASSUME NEW h, NEW g, IsSeq(g), Len(g) >= Len(h), NEW c, Sound(h, c),
         \A l \in Lists : c.lists[l].arr # 0 => g[c.lists[l].arr] = h[c.lists[l].arr]
  PROVE  Sound(g, c) /\ \A l \in Lists : Contents(g, c.lists[l]) = Contents(h, c.lists[l])
<1>1. /\ IsSeq(h) /\ "lists" \in DOMAIN c /\ DOMAIN c.lists = Lists
      /\ \A l \in Lists : IsSlice(c.lists[l], Len(h)) /\ Fits(h, c.lists[l])
      /\ \A l, m \in Lists : l # m /\ c.lists[l].arr # 0 => c.lists[l].arr # c.lists[m].arr
  BY DEF Sound, Tidy, State, IsState, Holds
<1>2. Len(h) \in Nat /\ Len(g) \in Nat
  BY <1>1, HeapLen
<1>3. ASSUME NEW l \in Lists
      PROVE  /\ IsSlice(c.lists[l], Len(g)) /\ Fits(g, c.lists[l])
             /\ Contents(g, c.lists[l]) = Contents(h, c.lists[l])
  <2>1. PICK s : s = c.lists[l]
    OBVIOUS
  <2>2. IsSlice(s, Len(h)) /\ Fits(h, s) /\ (s.arr # 0 => g[s.arr] = h[s.arr])
    BY <1>1, <2>1
  <2>3. IsSlice(s, Len(g))
    BY <1>2, <2>2 DEF IsSlice
  <2>4. s = NilSlice \/ s.arr # 0
    BY <1>2, <2>2 DEF Fits
  <2>5. Fits(g, s)
    BY <1>2, <2>2, <2>4 DEF Fits
  <2>6. Contents(g, s) = Contents(h, s)
    BY <2>2 DEF Contents
  <2>. QED
    BY <2>1, <2>3, <2>5, <2>6
<1>4. PICK st : st = State(g, c)
  OBVIOUS
<1>5. st.heap = g /\ st.cfg = c
  BY <1>4 DEF State
<1>6. Tidy(st)
  BY <1>1, <1>3, <1>5 DEF Tidy, IsState, Holds
<1>. QED
  BY <1>3, <1>4, <1>6 DEF Sound

LEMMA EmptySound ==
  ASSUME NEW h, IsSeq(h)
  PROVE  Sound(h, EmptyConfig) /\ \A l \in Lists : Contents(h, EmptyConfig.lists[l]) = <<>>
<1>1. Len(h) \in Nat
  BY HeapLen
<1>2. PICK c : c = EmptyConfig
  OBVIOUS
<1>3. Holds(c, Len(h)) /\ Shaped(c)
  BY <1>1, <1>2, EmptyHolds DEF Shaped
<1>4. \A l \in Lists : c.lists[l] = NilSlice
  BY <1>2 DEF EmptyConfig
<1>5. NilSlice.arr = 0
  BY DEF NilSlice
<1>6. \A l \in Lists : Fits(h, c.lists[l]) /\ Contents(h, c.lists[l]) = <<>>
  BY <1>4, <1>5 DEF Fits, Contents
<1>7. \A l \in Lists : c.lists[l].arr = 0
  BY <1>4, <1>5
<1>8. PICK st : st = State(h, c)
  OBVIOUS
<1>9. st.heap = h /\ st.cfg = c
  BY <1>8 DEF State
<1>10. Tidy(st)
  BY <1>3, <1>6, <1>7, <1>9 DEF Tidy, IsState
<1>. QED
  BY <1>2, <1>3, <1>6, <1>8, <1>10 DEF Sound

(* The configuration holds what the options say: their rules, and the rest   *)
(* of what a fork inherits.                                                  *)
RulesFilled(h, c, opts) ==
  \A side \in Sides :
    /\ Contents(h, c.lists[<<"renamers", side>>]) = RulesLeft(opts, side)
    /\ Contents(h, c.lists[<<"finders", side>>]) = FindersOf(RulesLeft(opts, side))

RestFilled(c, opts) ==
  /\ c.errWraps = WrapsLeft(opts) /\ c.unexported = UnexportedIn(opts)
  /\ c.getters = AffixLeft(opts, "getters", "x") /\ c.setters = AffixLeft(opts, "setters", "y")

Follows(h, c, opts) == RulesFilled(h, c, opts) /\ RestFilled(c, opts)

LEMMA FollowsStays ==
  ASSUME NEW h, NEW g, NEW c, NEW opts, Follows(h, c, opts),
         \A l \in Lists : Contents(g, c.lists[l]) = Contents(h, c.lists[l])
  PROVE  Follows(g, c, opts)
<1>1. \A side \in Sides : <<"renamers", side>> \in Lists /\ <<"finders", side>> \in Lists
  BY DEF Lists
<1>. QED
  BY <1>1 DEF Follows, RulesFilled

LEMMA EmptyFollows ==
  ASSUME NEW h, IsSeq(h)
  PROVE  Follows(h, EmptyConfig, <<>>)
<1>1. \A side \in Sides : <<"renamers", side>> \in Lists /\ <<"finders", side>> \in Lists
  BY DEF Lists
<1>2. RulesFilled(h, EmptyConfig, <<>>)
  BY <1>1, EmptySound, NothingSaid, FindersNone DEF RulesFilled
<1>3. /\ EmptyConfig.errWraps = <<>> /\ EmptyConfig.unexported = Off(FALSE, FALSE)
      /\ EmptyConfig.getters = Nil /\ EmptyConfig.setters = Nil
  BY DEF EmptyConfig
<1>4. RestFilled(EmptyConfig, <<>>)
  BY <1>3, NothingSaid DEF RestFilled
<1>. QED
  BY <1>2, <1>4 DEF Follows

-----------------------------------------------------------------------------
(* A rule more *)
LEMMA OneAppended ==
  ASSUME NEW s, IsSeq(s), NEW e
  PROVE  s \o <<e>> = Append(s, e) /\ IsSeq(<<e>>)
<1>1. <<e>> = Append(<<>>, e)
  OBVIOUS
<1>2. Append(s \o <<>>, e) = s \o Append(<<>>, e)
  BY NoneIsSeq, AppendToJoined
<1>3. s \o <<>> = s
  BY JoinedNone
<1>4. IsSeq(Append(<<>>, e))
  BY NoneIsSeq, Appended
<1>. QED
  BY <1>1, <1>2, <1>3, <1>4

Ruled(st, side, rule, new) ==
  /\ Tidy(new) /\ SameRest(st.cfg, new.cfg)
  /\ rule = Nil => \A l \in Lists : Says(new, l) = Says(st, l)
  /\ rule # Nil =>
       /\ Says(new, <<"renamers", side>>) = Append(Says(st, <<"renamers", side>>), rule)
       /\ Says(new, <<"finders", side>>) = Append(Says(st, <<"finders", side>>), FinderOf(rule))
  /\ \A l \in Lists : l[2] # side => Says(new, l) = Says(st, l)

LEMMA AddRuleTidy ==
  ASSUME NEW st, Tidy(st), NEW side \in Sides, NEW rule
  PROVE  Ruled(st, side, rule, AddRule(st, side, rule))
<1>1. CASE rule = Nil
  BY <1>1 DEF AddRule, Ruled, SameRest
<1>2. CASE rule # Nil
  <2>1. PICK lr, lf, f, vr, vf : /\ lr = <<"renamers", side>> /\ lf = <<"finders", side>>
                                 /\ f = FinderOf(rule) /\ vr = <<rule>> /\ vf = <<f>>
    OBVIOUS
  <2>2. lr \in Lists /\ lf \in Lists /\ lr # lf /\ lr[2] = side /\ lf[2] = side
    BY <2>1 DEF Lists
  <2>3. PICK s1, s2 : s1 = AppendTo(st, lr, vr) /\ s2 = AppendTo(s1, lf, vf)
    OBVIOUS
  <2>4. IsSeq(Says(st, lr)) /\ IsSeq(Says(st, lf))
    BY <2>2, SaysIs
  <2>5. IsSeq(vr) /\ Says(st, lr) \o vr = Append(Says(st, lr), rule)
    BY <2>1, <2>4, OneAppended
  <2>6. IsSeq(vf) /\ Says(st, lf) \o vf = Append(Says(st, lf), f)
    BY <2>1, <2>4, OneAppended
  <2>7. Extends(st, s1, lr, vr)
    BY <2>2, <2>3, <2>5, AppendToTidy
  <2>8. Tidy(s1)
    BY <2>7 DEF Extends
  <2>9. Extends(s1, s2, lf, vf)
    BY <2>2, <2>3, <2>6, <2>8, AppendToTidy
  <2>10. AddRule(st, side, rule) = s2
    BY <1>2, <2>1, <2>3 DEF AddRule
  <2>11. Says(s2, lr) = Append(Says(st, lr), rule) /\ Says(s2, lf) = Append(Says(st, lf), f)
    BY <2>2, <2>5, <2>6, <2>7, <2>9 DEF Extends
  <2>12. \A l \in Lists : l[2] # side => Says(s2, l) = Says(st, l)
    BY <2>2, <2>7, <2>9 DEF Extends
  <2>13. Tidy(s2) /\ SameRest(st.cfg, s2.cfg)
    BY <2>7, <2>9 DEF Extends, SameRest
  <2>. QED
    BY <1>2, <2>1, <2>10, <2>11, <2>12, <2>13 DEF Ruled
<1>. QED
  BY <1>1, <1>2

Filled(st, opts) == RulesFilled(st.heap, st.cfg, opts)

LEMMA RenamedFills ==
  ASSUME NEW opts, NEW o, NEW q, NEW n, Added(q, opts, o, n), Upon(o, opts), o.op = "rename",
         NEW st, Tidy(st), Filled(st, opts)
  PROVE  LET new == AddRule(AddRule(st, "x", o.x), "y", o.y)
         IN  Tidy(new) /\ SameRest(st.cfg, new.cfg) /\ Filled(new, q)
<1>1. PICK x, y, rx, ry : x = "x" /\ y = "y" /\ rx = o.x /\ ry = o.y
  OBVIOUS
<1>2. PICK s1, s2 : s1 = AddRule(st, x, rx) /\ s2 = AddRule(s1, y, ry)
  OBVIOUS
<1>3. x \in Sides /\ y \in Sides /\ x # y /\ (\A side \in Sides : side = x \/ side = y)
      /\ rx = o[x] /\ ry = o[y]
  BY <1>1 DEF Sides
<1>4. Ruled(st, x, rx, s1)
  BY <1>2, <1>3, AddRuleTidy
<1>5. Tidy(s1)
  BY <1>4 DEF Ruled
<1>6. Ruled(s1, y, ry, s2)
  BY <1>2, <1>3, <1>5, AddRuleTidy
<1>7. ASSUME NEW side \in Sides
      PROVE  /\ Says(s2, <<"renamers", side>>) = RulesLeft(q, side)
             /\ Says(s2, <<"finders", side>>) = FindersOf(RulesLeft(q, side))
  <2>1. PICK lr, lf, rule : /\ lr = <<"renamers", side>> /\ lf = <<"finders", side>>
                            /\ rule = o[side]
    OBVIOUS
  <2>2. lr \in Lists /\ lf \in Lists /\ lr[2] = side /\ lf[2] = side
    BY <2>1 DEF Lists
  <2>3. Says(st, lr) = RulesLeft(opts, side) /\ Says(st, lf) = FindersOf(RulesLeft(opts, side))
    BY <2>1 DEF Filled, RulesFilled, Says
  <2>4. PICK old : old = RulesLeft(opts, side)
    OBVIOUS
  <2>5. IsSeq(old) /\ RulesLeft(q, side) = IF rule # Nil THEN Append(old, rule) ELSE old
    BY <2>1, <2>4, RulesLonger
  <2>6. FindersOf(Append(old, rule)) = Append(FindersOf(old), FinderOf(rule))
    BY <2>5, FindersAppend
  <2>7. CASE side = x
    <3>1. Says(s2, lr) = Says(s1, lr) /\ Says(s2, lf) = Says(s1, lf)
      BY <1>3, <1>6, <2>2, <2>7 DEF Ruled
    <3>2. rule = rx /\ lr = <<"renamers", x>> /\ lf = <<"finders", x>>
      BY <1>3, <2>1, <2>7
    <3>3. CASE rule = Nil
      <4>1. Says(s1, lr) = Says(st, lr) /\ Says(s1, lf) = Says(st, lf)
        BY <1>4, <2>2, <3>2, <3>3 DEF Ruled
      <4>. QED
        BY <2>1, <2>3, <2>4, <2>5, <3>1, <3>3, <4>1
    <3>4. CASE rule # Nil
      <4>1. /\ Says(s1, lr) = Append(Says(st, lr), rule)
            /\ Says(s1, lf) = Append(Says(st, lf), FinderOf(rule))
        BY <1>4, <3>2, <3>4 DEF Ruled
      <4>. QED
        BY <2>1, <2>3, <2>4, <2>5, <2>6, <3>1, <3>4, <4>1
    <3>. QED
      BY <3>3, <3>4
  <2>8. CASE side = y
    <3>1. Says(s1, lr) = Says(st, lr) /\ Says(s1, lf) = Says(st, lf)
      BY <1>3, <1>4, <2>2, <2>8 DEF Ruled
    <3>2. rule = ry /\ lr = <<"renamers", y>> /\ lf = <<"finders", y>>
      BY <1>3, <2>1, <2>8
    <3>3. CASE rule = Nil
      <4>1. Says(s2, lr) = Says(s1, lr) /\ Says(s2, lf) = Says(s1, lf)
        BY <1>6, <2>2, <3>2, <3>3 DEF Ruled
      <4>. QED
        BY <2>1, <2>3, <2>4, <2>5, <3>1, <3>3, <4>1
    <3>4. CASE rule # Nil
      <4>1. /\ Says(s2, lr) = Append(Says(s1, lr), rule)
            /\ Says(s2, lf) = Append(Says(s1, lf), FinderOf(rule))
        BY <1>6, <3>2, <3>4 DEF Ruled
      <4>. QED
        BY <2>1, <2>3, <2>4, <2>5, <2>6, <3>1, <3>4, <4>1
    <3>. QED
      BY <3>3, <3>4
  <2>. QED
    BY <1>3, <2>7, <2>8
<1>8. Filled(s2, q)
  BY <1>7 DEF Filled, RulesFilled, Says
<1>9. Tidy(s2) /\ SameRest(st.cfg, s2.cfg)
  BY <1>4, <1>6 DEF Ruled, SameRest
<1>. QED
  BY <1>1, <1>2, <1>8, <1>9

-----------------------------------------------------------------------------
(* What only a directive says: matches, samples and nested paths. *)
Owned(c, opts) ==
  /\ c.match = PairsOf(opts, Matching(opts))
  /\ c.matchSkip = PairsOf(opts, Named(opts, "matchSkip"))
  /\ c.matchFuncs = [made |-> c.matchFuncs.made, of |-> c.matchFuncs.of]
  /\ DOMAIN c.matchFuncs.of = FuncPairs(opts)
  /\ \A pair : FuncIn(c, pair) = FuncOf(opts, pair)
  /\ c.bySample.on = Said(Samples(opts))
  /\ \A side \in Sides : c.bySample[side] = FirstSample(opts, side)
  /\ DOMAIN c.nested = Sides /\ \A side \in Sides : c.nested[side] = NestedOf(opts, side)

SamePaths(c, d) ==
  /\ d.match = c.match /\ d.matchFuncs = c.matchFuncs /\ d.matchSkip = c.matchSkip
  /\ d.bySample = c.bySample /\ d.nested = c.nested

Paths == {"match", "matchFunc", "matchSkip", "sample", "nested"}

(* What an option does not say anything of stays as it was said. *)
LEMMA OthersStay ==
  ASSUME NEW opts, NEW o, NEW q, NEW n, Added(q, opts, o, n)
  PROVE  /\ o.op \notin {"match", "matchFunc"} => PairsOf(q, Matching(q)) = PairsOf(opts, Matching(opts))
         /\ o.op # "matchSkip" =>
              PairsOf(q, Named(q, "matchSkip")) = PairsOf(opts, Named(opts, "matchSkip"))
         /\ o.op # "matchFunc" =>
              FuncPairs(q) = FuncPairs(opts) /\ \A pair : FuncOf(q, pair) = FuncOf(opts, pair)
         /\ o.op # "sample" =>
              Samples(q) = Samples(opts) /\ \A side : FirstSample(q, side) = FirstSample(opts, side)
         /\ o.op # "nested" => \A side : NestedOf(q, side) = NestedOf(opts, side)
<1>1. o.op \notin {"match", "matchFunc"} => PairsOf(q, Matching(q)) = PairsOf(opts, Matching(opts))
  BY PairsLonger
<1>2. o.op # "matchSkip" =>
        PairsOf(q, Named(q, "matchSkip")) = PairsOf(opts, Named(opts, "matchSkip"))
  BY PairsLonger
<1>3. o.op # "matchFunc" => FuncPairs(q) = FuncPairs(opts)
  BY FuncPairsLonger
<1>4. ASSUME o.op # "matchFunc", NEW pair
      PROVE  FuncOf(q, pair) = FuncOf(opts, pair)
  <2>1. PICK op : op = o.op
    OBVIOUS
  <2>2. ~(op = "matchFunc" /\ o.pair = pair) => FuncOf(q, pair) = FuncOf(opts, pair)
    BY <2>1, FuncLonger
  <2>. QED
    BY <1>4, <2>1, <2>2
<1>5. ASSUME o.op # "sample", NEW side
      PROVE  Samples(q) = Samples(opts) /\ FirstSample(q, side) = FirstSample(opts, side)
  BY <1>5, SampleLonger
<1>6. o.op # "sample" => Samples(q) = Samples(opts) /\ \A side : FirstSample(q, side) = FirstSample(opts, side)
  BY <1>5
<1>7. ASSUME o.op # "nested", NEW side
      PROVE  NestedOf(q, side) = NestedOf(opts, side)
  BY <1>7, NestedLonger
<1>. QED
  BY <1>1, <1>2, <1>3, <1>4, <1>5, <1>6, <1>7

LEMMA OwnedStays ==
  ASSUME NEW opts, NEW o, NEW q, NEW n, Added(q, opts, o, n), o.op \notin Paths,
         NEW c, Owned(c, opts), NEW d, SamePaths(c, d)
  PROVE  Owned(d, q)
<1>1. /\ PairsOf(q, Matching(q)) = PairsOf(opts, Matching(opts))
      /\ PairsOf(q, Named(q, "matchSkip")) = PairsOf(opts, Named(opts, "matchSkip"))
      /\ FuncPairs(q) = FuncPairs(opts) /\ \A pair : FuncOf(q, pair) = FuncOf(opts, pair)
      /\ Samples(q) = Samples(opts) /\ \A side : FirstSample(q, side) = FirstSample(opts, side)
      /\ \A side : NestedOf(q, side) = NestedOf(opts, side)
  BY OthersStay DEF Paths
<1>. QED
  BY <1>1 DEF Owned, SamePaths, FuncIn

LEMMA OwnedNone ==
  ASSUME NEW c, NoPaths(c), NEW d, d.match = c.match, d.matchFuncs = c.matchFuncs,
         d.matchSkip = c.matchSkip, d.nested = c.nested, d.bySample = Off(Own, Own)
  PROVE  Owned(d, <<>>)
<1>1. /\ d.matchFuncs = [made |-> d.matchFuncs.made, of |-> d.matchFuncs.of]
      /\ DOMAIN d.matchFuncs.of = {}
  BY DEF NoPaths, NilMap, NoMatchFuncs
<1>2. \A pair : FuncIn(d, pair) = Nil
  BY <1>1 DEF FuncIn
<1>3. d.bySample.on = FALSE /\ \A side \in Sides : d.bySample[side] = Own
  BY DEF Off, Sides
<1>4. /\ d.match = <<>> /\ d.matchSkip = <<>>
      /\ DOMAIN d.nested = Sides /\ \A side \in Sides : d.nested[side] = <<>>
  BY DEF NoPaths
<1>. QED
  BY <1>1, <1>2, <1>3, <1>4, NothingSaid DEF Owned

LEMMA MatchOwned ==
  ASSUME NEW opts, NEW o, NEW q, NEW n, Added(q, opts, o, n), o.op = "match",
         NEW c, Shaped(c), Owned(c, opts),
         NEW d, d = [c EXCEPT !.match = Append(@, o.pair)]
  PROVE  Owned(d, q)
<1>1. /\ PairsOf(q, Matching(q)) = Append(PairsOf(opts, Matching(opts)), o.pair)
      /\ PairsOf(q, Named(q, "matchSkip")) = PairsOf(opts, Named(opts, "matchSkip"))
  BY PairsLonger
<1>2. FuncPairs(q) = FuncPairs(opts)
  BY FuncPairsLonger
<1>3. \A pair : FuncOf(q, pair) = FuncOf(opts, pair)
  BY OthersStay
<1>4. Samples(q) = Samples(opts) /\ \A side : FirstSample(q, side) = FirstSample(opts, side)
  BY OthersStay
<1>5. \A side : NestedOf(q, side) = NestedOf(opts, side)
  BY OthersStay
<1>6. /\ d.match = Append(c.match, o.pair) /\ d.matchFuncs = c.matchFuncs
      /\ d.matchSkip = c.matchSkip /\ d.bySample = c.bySample /\ d.nested = c.nested
  BY Fields
<1>. QED
  BY <1>1, <1>2, <1>3, <1>4, <1>5, <1>6 DEF Owned, FuncIn

LEMMA SkipOwned ==
  ASSUME NEW opts, NEW o, NEW q, NEW n, Added(q, opts, o, n), o.op = "matchSkip",
         NEW c, Shaped(c), Owned(c, opts),
         NEW d, d = [c EXCEPT !.matchSkip = Append(@, o.pair)]
  PROVE  Owned(d, q)
<1>1. /\ PairsOf(q, Matching(q)) = PairsOf(opts, Matching(opts))
      /\ PairsOf(q, Named(q, "matchSkip")) = Append(PairsOf(opts, Named(opts, "matchSkip")), o.pair)
  BY PairsLonger
<1>2. FuncPairs(q) = FuncPairs(opts)
  BY FuncPairsLonger
<1>3. \A pair : FuncOf(q, pair) = FuncOf(opts, pair)
  BY OthersStay
<1>4. Samples(q) = Samples(opts) /\ \A side : FirstSample(q, side) = FirstSample(opts, side)
  BY OthersStay
<1>5. \A side : NestedOf(q, side) = NestedOf(opts, side)
  BY OthersStay
<1>6. /\ d.match = c.match /\ d.matchFuncs = c.matchFuncs
      /\ d.matchSkip = Append(c.matchSkip, o.pair) /\ d.bySample = c.bySample /\ d.nested = c.nested
  BY Fields
<1>. QED
  BY <1>1, <1>2, <1>3, <1>4, <1>5, <1>6 DEF Owned, FuncIn

Matched(c, o, d) ==
  d = [c EXCEPT !.match = Append(@, o.pair),
                !.matchFuncs.of = [pair \in DOMAIN @ \cup {o.pair} |->
                                     IF pair = o.pair THEN o.fn ELSE @[pair]]]

LEMMA FuncOwned ==
  ASSUME NEW opts, NEW o, NEW q, NEW n, Added(q, opts, o, n), o.op = "matchFunc",
         NEW c, Shaped(c), Owned(c, opts), NEW d, Matched(c, o, d)
  PROVE  Owned(d, q)
<1>1. /\ PairsOf(q, Matching(q)) = Append(PairsOf(opts, Matching(opts)), o.pair)
      /\ PairsOf(q, Named(q, "matchSkip")) = PairsOf(opts, Named(opts, "matchSkip"))
  BY PairsLonger
<1>2. FuncPairs(q) = FuncPairs(opts) \cup {o.pair}
  BY FuncPairsLonger
<1>3. \A pair : FuncOf(q, pair) = IF pair = o.pair THEN o.fn ELSE FuncOf(opts, pair)
  <2> SUFFICES ASSUME NEW pair
               PROVE  FuncOf(q, pair) = IF pair = o.pair THEN o.fn ELSE FuncOf(opts, pair)
    OBVIOUS
  <2>1. PICK p, fn, op : p = o.pair /\ fn = o.fn /\ op = o.op
    OBVIOUS
  <2>2. /\ op = "matchFunc" /\ p = pair => FuncOf(q, pair) = fn
        /\ ~(op = "matchFunc" /\ p = pair) => FuncOf(q, pair) = FuncOf(opts, pair)
    BY <2>1, FuncLonger
  <2>. QED
    BY <2>1, <2>2
<1>4. Samples(q) = Samples(opts) /\ \A side : FirstSample(q, side) = FirstSample(opts, side)
  BY OthersStay
<1>5. \A side : NestedOf(q, side) = NestedOf(opts, side)
  BY OthersStay
<1>0. PICK m, f, p, fn : m = c.matchFuncs /\ f = m.of /\ p = o.pair /\ fn = o.fn
  OBVIOUS
<1>6. PICK g : g = [pair \in DOMAIN f \cup {p} |-> IF pair = p THEN fn ELSE f[pair]]
  OBVIOUS
<1>7. m = [made |-> m.made, of |-> f]
  BY <1>0 DEF Owned
<1>8. /\ d.match = Append(c.match, o.pair) /\ d.matchFuncs = [m EXCEPT !.of = g]
      /\ d.matchSkip = c.matchSkip /\ d.bySample = c.bySample /\ d.nested = c.nested
  BY <1>0, <1>6, Fields DEF Matched
<1>9. d.matchFuncs.of = g /\ d.matchFuncs = [made |-> d.matchFuncs.made, of |-> d.matchFuncs.of]
  BY <1>7, <1>8
<1>10. DOMAIN g = FuncPairs(q)
  BY <1>0, <1>2, <1>6 DEF Owned
<1>11. \A pair : FuncIn(d, pair) = IF pair = p THEN fn ELSE FuncIn(c, pair)
  BY <1>0, <1>6, <1>9 DEF FuncIn
<1>12. \A pair : FuncIn(d, pair) = FuncOf(q, pair)
  <2>1. \A pair : FuncIn(c, pair) = FuncOf(opts, pair)
    BY DEF Owned
  <2>. QED
    BY <1>0, <1>3, <1>11, <2>1
<1>13. /\ d.match = PairsOf(q, Matching(q)) /\ d.matchSkip = PairsOf(q, Named(q, "matchSkip"))
       /\ d.bySample.on = Said(Samples(q))
       /\ \A side \in Sides : d.bySample[side] = FirstSample(q, side)
       /\ DOMAIN d.nested = Sides /\ \A side \in Sides : d.nested[side] = NestedOf(q, side)
  BY <1>1, <1>4, <1>5, <1>8 DEF Owned
<1>. QED
  BY <1>9, <1>10, <1>12, <1>13 DEF Owned

Resampled(c, o, d) ==
  IF c.bySample.on THEN d = c
  ELSE d = [c EXCEPT !.bySample = [on |-> TRUE,
                                   x |-> IF o.x = Nil THEN c.bySample.x ELSE o.x,
                                   y |-> IF o.y = Nil THEN c.bySample.y ELSE o.y]]

LEMMA SampleOwned ==
  ASSUME NEW opts, NEW o, NEW q, NEW n, Added(q, opts, o, n), o.op = "sample",
         NEW c, Shaped(c), Owned(c, opts), NEW d, Resampled(c, o, d)
  PROVE  Owned(d, q)
<1>1. /\ PairsOf(q, Matching(q)) = PairsOf(opts, Matching(opts))
      /\ PairsOf(q, Named(q, "matchSkip")) = PairsOf(opts, Named(opts, "matchSkip"))
  BY PairsLonger
<1>2. FuncPairs(q) = FuncPairs(opts)
  BY FuncPairsLonger
<1>3. \A pair : FuncOf(q, pair) = FuncOf(opts, pair)
  BY OthersStay
<1>4. PICK was : was = Said(Samples(opts))
  OBVIOUS
<1>9. was \in BOOLEAN /\ c.bySample.on = was
  BY <1>4 DEF Owned, Said
<1>10. Said(Samples(q)) = TRUE
  BY SampleLonger
<1>11. ASSUME NEW side
       PROVE  /\ was = TRUE => FirstSample(q, side) = FirstSample(opts, side)
              /\ was = FALSE => FirstSample(opts, side) = Own
  <2>1. PICK s, g, h : s = Said(Samples(opts)) /\ g = FirstSample(q, side) /\ h = FirstSample(opts, side)
    OBVIOUS
  <2>2. s = TRUE => g = h
    BY <2>1, SampleLonger
  <2>3. s = FALSE => h = Own
    BY <2>1, SampleLonger
  <2>. QED
    BY <1>4, <2>1, <2>2, <2>3
<1>12. ASSUME NEW side
       PROVE  was = FALSE => FirstSample(q, side) = IF o[side] = Nil THEN Own ELSE o[side]
  <2>1. Said(Samples(opts)) = FALSE => FirstSample(q, side) = IF o[side] = Nil THEN Own ELSE o[side]
    BY SampleFirst
  <2>. QED
    BY <1>4, <2>1
<1>5. \A side : NestedOf(q, side) = NestedOf(opts, side)
  BY OthersStay
<1>7. CASE was = TRUE
  <2>1. d = c
    BY <1>7, <1>9 DEF Resampled
  <2>2. c.bySample.on = Said(Samples(q))
    BY <1>7, <1>9, <1>10
  <2>. QED
    BY <1>1, <1>2, <1>3, <1>5, <1>7, <1>11, <2>1, <2>2 DEF Owned
<1>8. CASE was = FALSE
  <2>1. PICK b : b = [on |-> TRUE, x |-> IF o.x = Nil THEN c.bySample.x ELSE o.x,
                      y |-> IF o.y = Nil THEN c.bySample.y ELSE o.y]
    OBVIOUS
  <2>2. d = [c EXCEPT !.bySample = b]
    BY <1>8, <1>9, <2>1 DEF Resampled
  <2>3. /\ d.match = c.match /\ d.matchFuncs = c.matchFuncs /\ d.matchSkip = c.matchSkip
        /\ d.bySample = b /\ d.nested = c.nested
    BY <2>2, Fields
  <2>4. c.bySample.x = Own /\ c.bySample.y = Own
    BY <1>8, <1>11 DEF Owned, Sides
  <2>5. \A side \in Sides : b[side] = FirstSample(q, side)
    <3>1. b.x = FirstSample(q, "x")
      BY <1>8, <1>12, <2>1, <2>4
    <3>2. b.y = FirstSample(q, "y")
      BY <1>8, <1>12, <2>1, <2>4
    <3>. QED
      BY <3>1, <3>2 DEF Sides
  <2>6. b.on = Said(Samples(q))
    BY <1>10, <2>1
  <2>7. \A pair : FuncIn(d, pair) = FuncIn(c, pair)
    BY <2>3 DEF FuncIn
  <2>. QED
    BY <1>1, <1>2, <1>3, <1>5, <2>3, <2>5, <2>6, <2>7 DEF Owned
<1>. QED
  BY <1>7, <1>8, <1>9

LEMMA NestedOwned ==
  ASSUME NEW opts, NEW o, NEW q, NEW n, Added(q, opts, o, n), o.op = "nested",
         NEW c, Shaped(c), Owned(c, opts),
         NEW d, d = [c EXCEPT !.nested = [side \in Sides |-> IF o[side] = Nil THEN @[side]
                                                             ELSE Append(@[side], o[side])]]
  PROVE  Owned(d, q)
<1>1. /\ PairsOf(q, Matching(q)) = PairsOf(opts, Matching(opts))
      /\ PairsOf(q, Named(q, "matchSkip")) = PairsOf(opts, Named(opts, "matchSkip"))
  BY PairsLonger
<1>2. FuncPairs(q) = FuncPairs(opts)
  BY FuncPairsLonger
<1>3. \A pair : FuncOf(q, pair) = FuncOf(opts, pair)
  BY OthersStay
<1>4. Samples(q) = Samples(opts) /\ \A side : FirstSample(q, side) = FirstSample(opts, side)
  BY OthersStay
<1>5. \A side : NestedOf(q, side) = IF o[side] = Nil THEN NestedOf(opts, side)
                                    ELSE Append(NestedOf(opts, side), o[side])
  <2> SUFFICES ASSUME NEW side
               PROVE  NestedOf(q, side) = IF o[side] = Nil THEN NestedOf(opts, side)
                                          ELSE Append(NestedOf(opts, side), o[side])
    OBVIOUS
  <2>. QED
    BY NestedLonger
<1>6. PICK f : f = [side \in Sides |-> IF o[side] = Nil THEN c.nested[side]
                                       ELSE Append(c.nested[side], o[side])]
  OBVIOUS
<1>7. /\ d.match = c.match /\ d.matchFuncs = c.matchFuncs /\ d.matchSkip = c.matchSkip
      /\ d.bySample = c.bySample /\ d.nested = f
  BY <1>6, Fields
<1>8. DOMAIN f = Sides /\ \A side \in Sides : f[side] = NestedOf(q, side)
  BY <1>5, <1>6 DEF Owned
<1>. QED
  BY <1>1, <1>2, <1>3, <1>4, <1>7, <1>8 DEF Owned, FuncIn

-----------------------------------------------------------------------------
(* What a fork inherits. *)
SameRules(c, d) == d.lists = c.lists

SameAffixes(c, d) == d.getters = c.getters /\ d.setters = c.setters

SameInherited(c, d) == SameAffixes(c, d) /\ d.errWraps = c.errWraps /\ d.unexported = c.unexported

LEMMA RulesGoOn ==
  ASSUME NEW opts, NEW o, NEW q, NEW n, Added(q, opts, o, n), Upon(o, opts),
         o.op \notin {"rename", "renameReset"},
         NEW h, NEW c, RulesFilled(h, c, opts), NEW d, SameRules(c, d)
  PROVE  RulesFilled(h, d, q)
<1>1. ASSUME NEW side
      PROVE  RulesLeft(q, side) = RulesLeft(opts, side)
  BY RulesLonger
<1>. QED
  BY <1>1 DEF RulesFilled, SameRules

LEMMA RulesReset ==
  ASSUME NEW opts, NEW o, NEW q, NEW n, Added(q, opts, o, n), Upon(o, opts), o.op = "renameReset",
         NEW h, NEW c, RulesFilled(h, c, opts), NEW d,
         \A l \in Lists : d.lists[l] = IF o[l[2]] THEN NilSlice ELSE c.lists[l]
  PROVE  RulesFilled(h, d, q)
<1>1. ASSUME NEW side \in Sides
      PROVE  /\ Contents(h, d.lists[<<"renamers", side>>]) = RulesLeft(q, side)
             /\ Contents(h, d.lists[<<"finders", side>>]) = FindersOf(RulesLeft(q, side))
  <2>1. PICK lr, lf : lr = <<"renamers", side>> /\ lf = <<"finders", side>>
    OBVIOUS
  <2>2. lr \in Lists /\ lf \in Lists /\ lr[2] = side /\ lf[2] = side
    BY <2>1 DEF Lists
  <2>3. /\ d.lists[lr] = IF o[side] THEN NilSlice ELSE c.lists[lr]
        /\ d.lists[lf] = IF o[side] THEN NilSlice ELSE c.lists[lf]
    BY <2>2
  <2>4. CASE o[side]
    <3>1. RulesLeft(q, side) = <<>>
      BY <2>4, RulesLonger
    <3>2. Contents(h, NilSlice) = <<>>
      BY DEF Contents, NilSlice
    <3>. QED
      BY <2>1, <2>3, <2>4, <3>1, <3>2, FindersNone
  <2>5. CASE ~o[side]
    <3>1. RulesLeft(q, side) = RulesLeft(opts, side)
      BY <2>5, RulesLonger
    <3>. QED
      BY <2>1, <2>3, <2>5, <3>1 DEF RulesFilled
  <2>. QED
    BY <2>4, <2>5
<1>. QED
  BY <1>1 DEF RulesFilled

LEMMA AffixesStay ==
  ASSUME NEW opts, NEW o, NEW q, NEW n, Added(q, opts, o, n), Upon(o, opts),
         NEW name \in {"getters", "setters"}, NEW side, o.op \notin {name, "fieldsOnly"}
  PROVE  AffixLeft(q, name, side) = AffixLeft(opts, name, side)
<1>1. name # "fieldsOnly" /\ o.op # name /\ ~(o.op = "fieldsOnly" /\ o[side])
  OBVIOUS
<1>. QED
  BY <1>1, AffixLonger

LEMMA AffixIsSet ==
  ASSUME NEW opts, NEW o, NEW q, NEW n, Added(q, opts, o, n), Upon(o, opts),
         NEW name \in {"getters", "setters"}, NEW side, o.op = name
  PROVE  AffixLeft(q, name, side) = o.affix
<1>1. name # "fieldsOnly"
  OBVIOUS
<1>. QED
  BY <1>1, AffixLonger

LEMMA AffixesAreSet ==
  ASSUME NEW opts, NEW o, NEW q, NEW n, Added(q, opts, o, n), Upon(o, opts)
  PROVE  /\ o.op = "getters" => AffixLeft(q, "getters", "x") = o.affix
         /\ o.op = "setters" => AffixLeft(q, "setters", "y") = o.affix
<1>1. PICK g, s, x, y : g = "getters" /\ s = "setters" /\ x = "x" /\ y = "y"
  OBVIOUS
<1>2. g \in {"getters", "setters"} /\ s \in {"getters", "setters"}
  BY <1>1
<1>3. o.op = g => AffixLeft(q, g, x) = o.affix
  BY <1>2, AffixIsSet
<1>4. o.op = s => AffixLeft(q, s, y) = o.affix
  BY <1>2, AffixIsSet
<1>. QED
  BY <1>1, <1>3, <1>4

LEMMA OthersGoOn ==
  ASSUME NEW opts, NEW o, NEW q, NEW n, Added(q, opts, o, n), Upon(o, opts)
  PROVE  /\ o.op \notin {"errWrap", "errWrapReset"} => WrapsLeft(q) = WrapsLeft(opts)
         /\ o.op # "unexported" => UnexportedIn(q) = UnexportedIn(opts)
         /\ o.op \notin {"getters", "fieldsOnly"} =>
              AffixLeft(q, "getters", "x") = AffixLeft(opts, "getters", "x")
         /\ o.op \notin {"setters", "fieldsOnly"} =>
              AffixLeft(q, "setters", "y") = AffixLeft(opts, "setters", "y")
<1>1. o.op \notin {"errWrap", "errWrapReset"} => WrapsLeft(q) = WrapsLeft(opts)
  BY WrapsLonger
<1>2. o.op # "unexported" => UnexportedIn(q) = UnexportedIn(opts)
  BY UnexportedLonger
<1>3. PICK g, s, x, y : g = "getters" /\ s = "setters" /\ x = "x" /\ y = "y"
  OBVIOUS
<1>4. o.op \notin {g, "fieldsOnly"} => AffixLeft(q, g, x) = AffixLeft(opts, g, x)
  BY <1>3, AffixesStay
<1>5. o.op \notin {s, "fieldsOnly"} => AffixLeft(q, s, y) = AffixLeft(opts, s, y)
  BY <1>3, AffixesStay
<1>. QED
  BY <1>1, <1>2, <1>3, <1>4, <1>5

Inherited == {"errWrap", "errWrapReset", "unexported", "getters", "setters", "fieldsOnly"}

LEMMA RestGoesOn ==
  ASSUME NEW opts, NEW o, NEW q, NEW n, Added(q, opts, o, n), Upon(o, opts), o.op \notin Inherited,
         NEW c, RestFilled(c, opts), NEW d, SameInherited(c, d)
  PROVE  RestFilled(d, q)
<1>1. /\ WrapsLeft(q) = WrapsLeft(opts) /\ UnexportedIn(q) = UnexportedIn(opts)
      /\ AffixLeft(q, "getters", "x") = AffixLeft(opts, "getters", "x")
      /\ AffixLeft(q, "setters", "y") = AffixLeft(opts, "setters", "y")
  BY OthersGoOn DEF Inherited
<1>. QED
  BY <1>1 DEF RestFilled, SameInherited, SameAffixes

LEMMA WrapsFill ==
  ASSUME NEW opts, NEW o, NEW q, NEW n, Added(q, opts, o, n), Upon(o, opts),
         o.op \in {"errWrap", "errWrapReset"}, NEW c, RestFilled(c, opts), NEW d, SameAffixes(c, d),
         d.unexported = c.unexported,
         d.errWraps = IF o.op = "errWrap" THEN Append(c.errWraps, o.wrap) ELSE <<>>
  PROVE  RestFilled(d, q)
<1>1. /\ UnexportedIn(q) = UnexportedIn(opts)
      /\ AffixLeft(q, "getters", "x") = AffixLeft(opts, "getters", "x")
      /\ AffixLeft(q, "setters", "y") = AffixLeft(opts, "setters", "y")
  BY OthersGoOn
<1>2. d.errWraps = WrapsLeft(q)
  BY WrapsLonger DEF RestFilled
<1>. QED
  BY <1>1, <1>2 DEF RestFilled, SameAffixes

LEMMA UnexportedFills ==
  ASSUME NEW opts, NEW o, NEW q, NEW n, Added(q, opts, o, n), Upon(o, opts),
         o.op = "unexported", NEW c, RestFilled(c, opts), NEW d, SameAffixes(c, d),
         d.errWraps = c.errWraps, d.unexported = [on |-> TRUE, x |-> o.x, y |-> o.y]
  PROVE  RestFilled(d, q)
<1>1. /\ WrapsLeft(q) = WrapsLeft(opts)
      /\ AffixLeft(q, "getters", "x") = AffixLeft(opts, "getters", "x")
      /\ AffixLeft(q, "setters", "y") = AffixLeft(opts, "setters", "y")
  BY OthersGoOn
<1>2. UnexportedIn(q) = [on |-> TRUE, x |-> o.x, y |-> o.y]
  BY UnexportedLonger
<1>. QED
  BY <1>1, <1>2 DEF RestFilled, SameAffixes

LEMMA AffixFills ==
  ASSUME NEW opts, NEW o, NEW q, NEW n, Added(q, opts, o, n), Upon(o, opts),
         o.op \in {"getters", "setters"}, NEW c, RestFilled(c, opts), NEW d,
         d.errWraps = c.errWraps, d.unexported = c.unexported,
         d.getters = IF o.op = "getters" THEN o.affix ELSE c.getters,
         d.setters = IF o.op = "setters" THEN o.affix ELSE c.setters
  PROVE  RestFilled(d, q)
<1>1. WrapsLeft(q) = WrapsLeft(opts) /\ UnexportedIn(q) = UnexportedIn(opts)
  BY OthersGoOn
<1>2. /\ o.op = "getters" => AffixLeft(q, "getters", "x") = o.affix
      /\ o.op = "setters" => AffixLeft(q, "setters", "y") = o.affix
  BY AffixesAreSet
<1>3. /\ o.op # "getters" => AffixLeft(q, "getters", "x") = AffixLeft(opts, "getters", "x")
      /\ o.op # "setters" => AffixLeft(q, "setters", "y") = AffixLeft(opts, "setters", "y")
  BY OthersGoOn
<1>. QED
  BY <1>1, <1>2, <1>3 DEF RestFilled

LEMMA FieldsOnlyFills ==
  ASSUME NEW opts, NEW o, NEW q, NEW n, Added(q, opts, o, n), Upon(o, opts),
         o.op = "fieldsOnly", NEW c, RestFilled(c, opts), NEW d,
         d.errWraps = c.errWraps, d.unexported = c.unexported,
         d.getters = IF o.x THEN Nil ELSE c.getters,
         d.setters = IF o.y THEN Nil ELSE c.setters
  PROVE  RestFilled(d, q)
<1>1. WrapsLeft(q) = WrapsLeft(opts) /\ UnexportedIn(q) = UnexportedIn(opts)
  BY OthersGoOn
<1>2. PICK op, name, x, y : op = o.op /\ name = "fieldsOnly" /\ x = "x" /\ y = "y"
  OBVIOUS
<1>3. ASSUME NEW g \in {"getters", "setters"}, NEW side
      PROVE  /\ o[side] => AffixLeft(q, g, side) = Nil
             /\ ~o[side] => AffixLeft(q, g, side) = AffixLeft(opts, g, side)
  <2>1. g # "fieldsOnly" /\ o.op # g
    OBVIOUS
  <2>. QED
    BY <2>1, AffixLonger
<1>4. /\ o.x => AffixLeft(q, "getters", "x") = Nil
      /\ ~o.x => AffixLeft(q, "getters", "x") = AffixLeft(opts, "getters", "x")
      /\ o.y => AffixLeft(q, "setters", "y") = Nil
      /\ ~o.y => AffixLeft(q, "setters", "y") = AffixLeft(opts, "setters", "y")
  BY <1>3
<1>. QED
  BY <1>1, <1>4 DEF RestFilled

-----------------------------------------------------------------------------
(* What a directive or a subconverter starts from. *)
Heir(kind, mod) == IF kind \in DOMAIN mod.fors THEN mod.fors[kind] ELSE EmptyConfig

LEMMA EmptyPaths == NoPaths(EmptyConfig)
<1>1. /\ EmptyConfig.match = <<>> /\ EmptyConfig.matchSkip = <<>> /\ EmptyConfig.matchFuncs = NilMap
      /\ EmptyConfig.bySample = Off(Nil, Nil) /\ EmptyConfig.nested = [side \in Sides |-> <<>>]
  BY DEF EmptyConfig
<1>. QED
  BY <1>1 DEF NoPaths

LEMMA WrapsIsSeq ==
  ASSUME NEW opts, IsSeq(opts)
  PROVE  IsSeq(WrapsLeft(opts))
<1>1. PICK S, R, field : S = Named(opts, "errWrap") /\ R = Named(opts, "errWrapReset") /\ field = "wrap"
  OBVIOUS
<1>2. S \subseteq DOMAIN opts
  BY <1>1 DEF Named
<1>3. PICK s : s = Left(opts, S, R)
  OBVIOUS
<1>4. IsSeq(s)
  BY <1>2, <1>3, StandingOfSeq
<1>5. IsSeq(Each(s, field))
  BY <1>4, EachIs
<1>. QED
  BY <1>1, <1>3, <1>5 DEF WrapsLeft

(* What is forked is what the module has, and then what it has for the kind. *)
Inherits(st, c, d) ==
  /\ Tidy(st) /\ Shaped(st.cfg) /\ NoPaths(st.cfg)
  /\ \A l \in Lists : Says(st, l) = Contents(heap, c.lists[l]) \o Contents(heap, d.lists[l])
  /\ st.cfg.errWraps = c.errWraps \o d.errWraps
  /\ st.cfg.unexported = Follow(c.unexported, d.unexported)
  /\ st.cfg.getters = FollowAffix(c.getters, d.getters)
  /\ st.cfg.setters = FollowAffix(c.setters, d.setters)

LEMMA SoundLists ==
  ASSUME NEW h, NEW c, Sound(h, c)
  PROVE  \A l \in Lists : IsSeq(Contents(h, c.lists[l]))
<1>1. PICK st : st = State(h, c)
  OBVIOUS
<1>2. Tidy(st) /\ st.heap = h /\ st.cfg = c
  BY <1>1 DEF Sound, State
<1>3. \A l \in Lists : IsSeq(Says(st, l))
  BY <1>2, SaysIs
<1>. QED
  BY <1>2, <1>3 DEF Says

LEMMA ForkForInherits ==
  ASSUME NEW kind, NEW mod, Sound(heap, mod.cfg), Sound(heap, Heir(kind, mod)),
         NoPaths(mod.cfg), NoPaths(Heir(kind, mod)), IsSeq(mod.cfg.errWraps)
  PROVE  Inherits(ForkFor(kind, mod), mod.cfg, Heir(kind, mod))
<1>1. PICK st, c : c = mod.cfg /\ st = State(heap, c)
  OBVIOUS
<1>2. st.heap = heap /\ st.cfg = c /\ Tidy(st) /\ Shaped(c) /\ IsState(st) /\ IsSeq(heap)
  BY <1>1 DEF Sound, State, Tidy, IsState
<1>3. PICK f : f = Fork(st)
  OBVIOUS
<1>4. ForkedAs(st, f)
  BY <1>2, <1>3, ForkTidy
<1>5. IsSeq(f.heap) /\ Len(f.heap) >= Len(heap) /\ \A j \in 1 .. Len(heap) : f.heap[j] = heap[j]
  BY <1>2, <1>3, ForkSpares DEF ForkedFrom, Spares, IsState
<1>6. \A l \in Lists : Says(f, l) = Contents(heap, c.lists[l])
  BY <1>2, <1>4 DEF ForkedAs, Says
<1>7. CASE kind \in DOMAIN mod.fors
  <2>1. PICK d : d = mod.fors[kind]
    OBVIOUS
  <2>2. ForkFor(kind, mod) = Update(f, d) /\ Heir(kind, mod) = d
    BY <1>1, <1>3, <1>7, <2>1 DEF ForkFor, Heir
  <2>3. Sound(heap, d) /\ NoPaths(d)
    BY <2>2
  <2>4. \A l \in Lists : d.lists[l].arr # 0 => f.heap[d.lists[l].arr] = heap[d.lists[l].arr]
    <3>1. \A l \in Lists : d.lists[l].arr \in 0 .. Len(heap)
      BY <2>3 DEF Sound, Tidy, State, IsState, Holds, IsSlice
    <3>2. Len(heap) \in Nat
      BY <1>2, HeapLen
    <3>3. \A l \in Lists : d.lists[l].arr # 0 => d.lists[l].arr \in 1 .. Len(heap)
      BY <3>1, <3>2
    <3>. QED
      BY <1>5, <3>3
  <2>5. PICK g : g = f.heap
    OBVIOUS
  <2>6. IsSeq(g) /\ Len(g) >= Len(heap)
        /\ \A l \in Lists : d.lists[l].arr # 0 => g[d.lists[l].arr] = heap[d.lists[l].arr]
    BY <1>5, <2>4, <2>5
  <2>7. /\ Sound(g, d) /\ \A l \in Lists : Contents(g, d.lists[l]) = Contents(heap, d.lists[l])
    BY <2>3, <2>6, SoundStays
  <2>8. \A l \in Lists : IsSeq(Contents(g, d.lists[l]))
    BY <2>7, SoundLists
  <2>9. Updated(f, d, Update(f, d))
    BY <1>4, <2>5, <2>8, UpdateTidy DEF ForkedAs
  <2>10. PICK new : new = Update(f, d)
    OBVIOUS
  <2>11. \A l \in Lists : Says(new, l) = Contents(heap, c.lists[l]) \o Contents(heap, d.lists[l])
    BY <1>6, <2>5, <2>7, <2>9, <2>10 DEF Updated
  <2>12. Tidy(new) /\ Shaped(new.cfg) /\ NoPaths(new.cfg)
    BY <1>4, <2>3, <2>9, <2>10 DEF Updated, ForkedAs
  <2>13. /\ new.cfg.errWraps = c.errWraps \o d.errWraps
         /\ new.cfg.unexported = Follow(c.unexported, d.unexported)
         /\ new.cfg.getters = FollowAffix(c.getters, d.getters)
         /\ new.cfg.setters = FollowAffix(c.setters, d.setters)
    BY <1>2, <1>4, <2>9, <2>10 DEF Updated, ForkedAs
  <2>. QED
    BY <1>1, <2>2, <2>10, <2>11, <2>12, <2>13 DEF Inherits
<1>8. CASE kind \notin DOMAIN mod.fors
  <2>1. PICK d : d = EmptyConfig
    OBVIOUS
  <2>2. ForkFor(kind, mod) = f /\ Heir(kind, mod) = d
    BY <1>1, <1>3, <1>8, <2>1 DEF ForkFor, Heir
  <2>3. ASSUME NEW l \in Lists
        PROVE  Says(f, l) = Contents(heap, c.lists[l]) \o Contents(heap, d.lists[l])
    <3>1. PICK u : u = Contents(heap, c.lists[l])
      OBVIOUS
    <3>2. IsSeq(u)
      BY <1>1, <3>1, SoundLists
    <3>3. Contents(heap, d.lists[l]) = <<>>
      BY <1>2, <2>1, EmptySound
    <3>4. u \o <<>> = u
      BY <3>2, JoinedNone
    <3>. QED
      BY <1>6, <3>1, <3>3, <3>4
  <2>4. d.errWraps = <<>> /\ d.unexported = Off(FALSE, FALSE) /\ d.getters = Nil /\ d.setters = Nil
    BY <2>1 DEF EmptyConfig
  <2>5. c.errWraps \o <<>> = c.errWraps
    BY <1>1, JoinedNone
  <2>6. Follow(c.unexported, d.unexported) = c.unexported
    BY <2>4 DEF Follow, Off
  <2>7. FollowAffix(c.getters, d.getters) = c.getters /\ FollowAffix(c.setters, d.setters) = c.setters
    BY <2>4 DEF FollowAffix
  <2>8. /\ f.cfg.errWraps = c.errWraps \o d.errWraps
        /\ f.cfg.unexported = Follow(c.unexported, d.unexported)
        /\ f.cfg.getters = FollowAffix(c.getters, d.getters)
        /\ f.cfg.setters = FollowAffix(c.setters, d.setters)
    BY <1>2, <1>4, <2>4, <2>5, <2>6, <2>7 DEF ForkedAs
  <2>9. Tidy(f) /\ Shaped(f.cfg) /\ NoPaths(f.cfg)
    BY <1>4 DEF ForkedAs
  <2>. QED
    BY <1>1, <2>2, <2>3, <2>8, <2>9 DEF Inherits
<1>. QED
  BY <1>7, <1>8

LEMMA InheritsFollows ==
  ASSUME NEW st, NEW c, NEW d, Inherits(st, c, d), Sound(heap, c), Sound(heap, d),
         NEW a, NEW b, Halves(a, b), Affixed(b), Follows(heap, c, a), Follows(heap, d, b)
  PROVE  Follows(st.heap, st.cfg, a \o b)
<1>1. PICK j : j = a \o b
  OBVIOUS
<1>2. ASSUME NEW side \in Sides
      PROVE  /\ Contents(st.heap, st.cfg.lists[<<"renamers", side>>]) = RulesLeft(j, side)
             /\ Contents(st.heap, st.cfg.lists[<<"finders", side>>]) = FindersOf(RulesLeft(j, side))
  <2>1. PICK lr, lf : lr = <<"renamers", side>> /\ lf = <<"finders", side>>
    OBVIOUS
  <2>2. lr \in Lists /\ lf \in Lists
    BY <2>1 DEF Lists
  <2>3. PICK ra, rb : ra = RulesLeft(a, side) /\ rb = RulesLeft(b, side)
    OBVIOUS
  <2>4. /\ Contents(heap, c.lists[lr]) = ra /\ Contents(heap, c.lists[lf]) = FindersOf(ra)
        /\ Contents(heap, d.lists[lr]) = rb /\ Contents(heap, d.lists[lf]) = FindersOf(rb)
    BY <2>1, <2>3 DEF Follows, RulesFilled
  <2>5. IsSeq(ra) /\ IsSeq(rb)
    BY <2>2, <2>4, SoundLists
  <2>6. /\ Contents(st.heap, st.cfg.lists[lr]) = ra \o rb
        /\ Contents(st.heap, st.cfg.lists[lf]) = FindersOf(ra) \o FindersOf(rb)
    <3>1. \A l \in Lists : Says(st, l) = Contents(heap, c.lists[l]) \o Contents(heap, d.lists[l])
      BY DEF Inherits
    <3>2. Says(st, lr) = ra \o rb
      <4>1. Says(st, lr) = Contents(heap, c.lists[lr]) \o Contents(heap, d.lists[lr])
        BY <2>2, <3>1
      <4>. QED
        BY <2>4, <4>1
    <3>3. Says(st, lf) = FindersOf(ra) \o FindersOf(rb)
      <4>1. Says(st, lf) = Contents(heap, c.lists[lf]) \o Contents(heap, d.lists[lf])
        BY <2>2, <3>1
      <4>. QED
        BY <2>4, <4>1
    <3>. QED
      BY <3>2, <3>3 DEF Says
  <2>7. RulesLeft(j, side) = ra \o rb
    <3>1. Halves(a, b)
      OBVIOUS
    <3>2. RulesLeft(a \o b, side) = RulesLeft(a, side) \o RulesLeft(b, side)
      BY <3>1, RulesJoined
    <3>. QED
      BY <1>1, <2>3, <3>2
  <2>8. FindersOf(ra \o rb) = FindersOf(ra) \o FindersOf(rb)
    BY <2>5, FindersJoined
  <2>. QED
    BY <2>1, <2>6, <2>7, <2>8
<1>3. RulesFilled(st.heap, st.cfg, j)
  BY <1>2 DEF RulesFilled
<1>4. /\ WrapsLeft(j) = WrapsLeft(a) \o WrapsLeft(b)
      /\ UnexportedIn(j) = Follow(UnexportedIn(a), UnexportedIn(b))
  BY <1>1, WrapsJoined, UnexportedJoined
<1>5. PICK g, s, x, y : g = "getters" /\ s = "setters" /\ x = "x" /\ y = "y"
  OBVIOUS
<1>6. g \in {"getters", "setters"} /\ s \in {"getters", "setters"}
  BY <1>5
<1>7. /\ AffixLeft(j, g, x) = FollowAffix(AffixLeft(a, g, x), AffixLeft(b, g, x))
      /\ AffixLeft(j, s, y) = FollowAffix(AffixLeft(a, s, y), AffixLeft(b, s, y))
  BY <1>1, <1>6, AffixJoined
<1>8. RestFilled(st.cfg, j)
  BY <1>4, <1>5, <1>7 DEF RestFilled, Follows, Inherits
<1>. QED
  BY <1>1, <1>3, <1>8 DEF Follows

-----------------------------------------------------------------------------
(* The configurations that are being filled: cfg has the place Nil, and one  *)
(* for a kind has the kind.                                                  *)
AtOf(c, f, s) == IF s = Nil THEN c ELSE f[s]
SlotsOf(f)    == {Nil} \cup DOMAIN f

(* What a directive starts from, and what has been parsed for a place.       *)
Starts(pg, m, kind) ==
  IF m = 0 THEN <<>> ELSE Given(pg.modules[m], Nil) \o Given(pg.modules[m], kind)

OwnOf(pg, a) == Part(pg.directives[a.n].opts, a.i, Nil)

ParsedOf(pg, a, s) ==
  IF a.phase = "module" THEN Part(pg.modules[a.n], a.i, s)
  ELSE Starts(pg, pg.directives[a.n].mod, pg.directives[a.n].kind) \o OwnOf(pg, a)

Phases ==
  /\ at.phase \in {"module", "injector", "build", "done", "panicked"} /\ at.n \in Nat
  /\ DOMAIN fors \subseteq Kinds /\ (at.phase = "injector" /\ at.i # 0 => DOMAIN fors = {})

(* No array is shared. *)
Sounds ==
  /\ \A c \in Finished : Sound(heap, c)
  /\ \A s \in SlotsOf(fors) : Sound(heap, AtOf(cfg, fors, s))

Disjoint(c, d) == \A l, m \in Lists : c.lists[l].arr # 0 => c.lists[l].arr # d.lists[m].arr

Private ==
  \A s, t \in SlotsOf(fors) : s # t => Disjoint(AtOf(cfg, fors, s), AtOf(cfg, fors, t))

(* What is being filled holds what has been parsed for it. *)
InHand ==
  Filling =>
    /\ \A s \in SlotsOf(fors) : Follows(heap, AtOf(cfg, fors, s), ParsedOf(prog, at, s))
    /\ at.phase = "module" => \A s \in SlotsOf(fors) : NoPaths(AtOf(cfg, fors, s))
    /\ at.phase = "injector" => Owned(cfg, OwnOf(prog, at))

(* A module holds its own options, and for each kind those it is given.      *)
HoldsAll(h, mod, opts) ==
  /\ DOMAIN mod.fors \subseteq Kinds
  /\ Follows(h, mod.cfg, Given(opts, Nil)) /\ NoPaths(mod.cfg)
  /\ \A kind \in Kinds : Follows(h, Heir(kind, mod), Given(opts, kind)) /\ NoPaths(Heir(kind, mod))

ModsFilled == \A m \in DOMAIN mods : HoldsAll(heap, mods[m], prog.modules[m])

InjFilled(pg, h, e) ==
  LET d == pg.directives[e.n]
  IN  /\ e.n \in DOMAIN pg.directives
      /\ Follows(h, e.cfg, Starts(pg, d.mod, d.kind) \o d.opts) /\ Owned(e.cfg, d.opts)
InjsFilled == \A k \in DOMAIN injs : InjFilled(prog, heap, injs[k])

SubFilled(pg, h, e) ==
  /\ e.n \in DOMAIN pg.directives
  /\ Follows(h, e.cfg, Starts(pg, pg.directives[e.n].mod, "struct")) /\ NoPaths(e.cfg)
SubsFilled == \A k \in DOMAIN subs : SubFilled(prog, heap, subs[k])

Done == ModsFilled /\ InjsFilled /\ SubsFilled
Full == Phases /\ Sounds /\ Private /\ InHand /\ Done

-----------------------------------------------------------------------------
(* A configuration that a step of another leaves as it was. *)
Unmoved(h, g, c) == Sound(g, c) /\ \A l \in Lists : Contents(g, c.lists[l]) = Contents(h, c.lists[l])

LEMMA UnmovedIs ==
  ASSUME NEW h, NEW g, IsSeq(g), Len(g) >= Len(h), NEW F, \A j \in F : g[j] = h[j],
         NEW c, Sound(h, c), \A l \in Lists : c.lists[l].arr # 0 => c.lists[l].arr \in F
  PROVE  Unmoved(h, g, c)
<1>1. \A l \in Lists : c.lists[l].arr # 0 => g[c.lists[l].arr] = h[c.lists[l].arr]
  OBVIOUS
<1>2. Sound(g, c) /\ \A l \in Lists : Contents(g, c.lists[l]) = Contents(h, c.lists[l])
  BY <1>1, SoundStays
<1>. QED
  BY <1>2 DEF Unmoved

LEMMA UnmovedFollows ==
  ASSUME NEW h, NEW g, NEW c, Unmoved(h, g, c), NEW opts, Follows(h, c, opts)
  PROVE  Follows(g, c, opts)
BY FollowsStays DEF Unmoved

LEMMA EmptyUnmoved ==
  ASSUME NEW h, IsSeq(h), NEW g, IsSeq(g)
  PROVE  Unmoved(h, g, EmptyConfig)
<1>1. PICK e : e = EmptyConfig
  OBVIOUS
<1>2. Sound(g, e) /\ \A l \in Lists : Contents(g, e.lists[l]) = <<>>
  BY <1>1, EmptySound
<1>3. \A l \in Lists : Contents(h, e.lists[l]) = <<>>
  BY <1>1, EmptySound
<1>. QED
  BY <1>1, <1>2, <1>3 DEF Unmoved

LEMMA FinishedUnmoved ==
  ASSUME Sounds, IsSeq(heap'), Len(heap') >= Len(heap), \A j \in Protected : heap'[j] = heap[j]
  PROVE  \A c \in Finished : Unmoved(heap, heap', c)
<1>1. PICK h, g, F : h = heap /\ g = heap' /\ F = Protected
  OBVIOUS
<1>2. IsSeq(g) /\ Len(g) >= Len(h) /\ \A j \in F : g[j] = h[j]
  BY <1>1
<1>3. ASSUME NEW c \in Finished
      PROVE  Unmoved(h, g, c)
  <2>1. Sound(h, c)
    BY <1>1 DEF Sounds
  <2>2. \A l \in Lists : c.lists[l].arr # 0 => c.lists[l].arr \in F
    BY <1>1 DEF Protected
  <2>. QED
    BY <1>2, <2>1, <2>2, UnmovedIs
<1>. QED
  BY <1>1, <1>3

(* What is done stays as it was done. *)
LEMMA HoldsAllStays ==
  ASSUME NEW h, IsSeq(h), NEW g, IsSeq(g), NEW mod, NEW opts, HoldsAll(h, mod, opts),
         Unmoved(h, g, mod.cfg), \A kind \in DOMAIN mod.fors : Unmoved(h, g, mod.fors[kind])
  PROVE  HoldsAll(g, mod, opts)
<1>1. Follows(g, mod.cfg, Given(opts, Nil)) /\ NoPaths(mod.cfg) /\ DOMAIN mod.fors \subseteq Kinds
  BY UnmovedFollows DEF HoldsAll
<1>2. ASSUME NEW kind \in Kinds
      PROVE  Follows(g, Heir(kind, mod), Given(opts, kind)) /\ NoPaths(Heir(kind, mod))
  <2>1. Follows(h, Heir(kind, mod), Given(opts, kind)) /\ NoPaths(Heir(kind, mod))
    BY DEF HoldsAll
  <2>2. Unmoved(h, g, Heir(kind, mod))
    BY EmptyUnmoved DEF Heir
  <2>. QED
    BY <2>1, <2>2, UnmovedFollows
<1>. QED
  BY <1>1, <1>2 DEF HoldsAll

LEMMA DoneStays ==
  ASSUME Done, NEW g, IsSeq(g), IsSeq(heap), \A c \in Finished : Unmoved(heap, g, c)
  PROVE  /\ \A m \in DOMAIN mods : HoldsAll(g, mods[m], prog.modules[m])
         /\ \A k \in DOMAIN injs : InjFilled(prog, g, injs[k])
         /\ \A k \in DOMAIN subs : SubFilled(prog, g, subs[k])
<1>1. ASSUME NEW m \in DOMAIN mods
      PROVE  HoldsAll(g, mods[m], prog.modules[m])
  <2>1. PICK mod : mod = mods[m]
    OBVIOUS
  <2>2. mod.cfg \in Finished /\ \A kind \in DOMAIN mod.fors : mod.fors[kind] \in Finished
    BY <2>1 DEF Finished, Configs
  <2>3. Unmoved(heap, g, mod.cfg) /\ \A kind \in DOMAIN mod.fors : Unmoved(heap, g, mod.fors[kind])
    BY <2>2
  <2>4. HoldsAll(heap, mod, prog.modules[m])
    BY <2>1 DEF Done, ModsFilled
  <2>5. HoldsAll(g, mod, prog.modules[m])
    BY <2>3, <2>4, HoldsAllStays
  <2>. QED
    BY <2>1, <2>5
<1>2. ASSUME NEW k \in DOMAIN injs
      PROVE  InjFilled(prog, g, injs[k])
  <2>1. injs[k].cfg \in Finished
    BY DEF Finished
  <2>2. Unmoved(heap, g, injs[k].cfg)
    BY <2>1
  <2>3. InjFilled(prog, heap, injs[k])
    BY DEF Done, InjsFilled
  <2>. QED
    BY <2>2, <2>3, UnmovedFollows DEF InjFilled
<1>3. ASSUME NEW k \in DOMAIN subs
      PROVE  SubFilled(prog, g, subs[k])
  <2>1. subs[k].cfg \in Finished
    BY DEF Finished
  <2>2. Unmoved(heap, g, subs[k].cfg)
    BY <2>1
  <2>3. SubFilled(prog, heap, subs[k])
    BY DEF Done, SubsFilled
  <2>. QED
    BY <2>2, <2>3, UnmovedFollows DEF SubFilled
<1>. QED
  BY <1>1, <1>2, <1>3

(* A step that ends nothing. *)
LEMMA NothingDone ==
  ASSUME Inv, Sounds, Done, UNCHANGED <<prog, mods, injs, subs>>, IsSeq(heap'), Len(heap') >= Len(heap),
         \A j \in Protected : heap'[j] = heap[j]
  PROVE  Done' /\ \A c \in Finished' : Sound(heap', c)
<1>1. PICK g : g = heap'
  OBVIOUS
<1>2. \A c \in Finished : Unmoved(heap, g, c)
  BY <1>1, FinishedUnmoved
<1>3. IsSeq(g) /\ IsSeq(heap)
  BY <1>1 DEF Inv, Kept
<1>4. /\ \A m \in DOMAIN mods : HoldsAll(g, mods[m], prog.modules[m])
      /\ \A k \in DOMAIN injs : InjFilled(prog, g, injs[k])
      /\ \A k \in DOMAIN subs : SubFilled(prog, g, subs[k])
  BY <1>2, <1>3, DoneStays
<1>5. Finished' = Finished
  BY SameFinished
<1>6. \A c \in Finished' : Sound(heap', c)
  BY <1>1, <1>2, <1>5 DEF Unmoved
<1>7. ModsFilled'
  BY <1>1, <1>4 DEF ModsFilled
<1>8. InjsFilled'
  BY <1>1, <1>4 DEF InjsFilled
<1>9. SubsFilled'
  BY <1>1, <1>4 DEF SubsFilled
<1>. QED
  BY <1>6, <1>7, <1>8, <1>9 DEF Done

-----------------------------------------------------------------------------
(* The place of the option in hand. *)
LEMMA SlotTaken ==
  ASSUME Inv, Parsing
  PROVE  Item.into \in SlotsOf(fors) /\ Target = AtOf(cfg, fors, Item.into)
<1>1. CASE Item.into = Nil
  BY <1>1 DEF SlotsOf, AtOf, Target
<1>2. CASE Item.into # Nil
  <2>1. at.phase = "module"
    BY <1>2, TargetOpened DEF Parsing
  <2>2. at.n \in DOMAIN prog.modules /\ Items = prog.modules[at.n]
    BY <2>1, ProgramsAre DEF Inv, Placed, Items
  <2>3. IsList(Items) /\ Qualified(Items)
    BY <2>2, ProgramsAssumption DEF Inv, Placed
  <2>4. at.i \in 1 .. Len(Items) /\ Len(Items) \in Nat /\ DOMAIN Items = 1 .. Len(Items)
    BY <2>3 DEF Parsing, IsList
  <2>5. PICK j \in 1 .. at.i - 1 : Items[j].op = "for" /\ Items[j].kind = Item.into
    BY <1>2, <2>3, <2>4 DEF Qualified, Item
  <2>6. Item.into \in DOMAIN fors
    BY <2>1, <2>2, <2>4, <2>5 DEF Inv, Placed
  <2>. QED
    BY <1>2, <2>6 DEF SlotsOf, AtOf, Target
<1>. QED
  BY <1>1, <1>2

LEMMA SlotsOpened == \A s \in SlotsOf(fors) : AtOf(cfg, fors, s) \in Opened
BY DEF SlotsOf, AtOf, Opened

(* What is parsed, with the option in hand. *)
LEMMA StartsIs ==
  ASSUME Placed, NEW n \in DOMAIN prog.directives
  PROVE  IsSeq(Starts(prog, prog.directives[n].mod, prog.directives[n].kind))
<1>1. PICK m, kind : m = prog.directives[n].mod /\ kind = prog.directives[n].kind
  OBVIOUS
<1>2. m \in 0 .. Len(prog.modules) /\ kind \in Kinds /\ IsList(prog.modules)
  BY <1>1, ProgramsAssumption DEF Placed
<1>3. kind # Nil
  BY <1>2, KindsAssumption
<1>4. CASE m = 0
  BY <1>1, <1>4, NoneIsSeq DEF Starts
<1>5. CASE m # 0
  <2>1. m \in DOMAIN prog.modules
    BY <1>2, <1>5 DEF IsList
  <2>2. PICK opts : opts = prog.modules[m]
    OBVIOUS
  <2>3. IsList(opts)
    BY <2>1, <2>2, ProgramsAssumption DEF Placed
  <2>4. IsSeq(Given(opts, Nil)) /\ IsSeq(Given(opts, kind))
    BY <1>3, <2>3, GivenHalves DEF Halves
  <2>5. IsSeq(Given(opts, Nil) \o Given(opts, kind))
    BY <2>4, Joined
  <2>. QED
    BY <1>1, <1>5, <2>2, <2>5 DEF Starts
<1>. QED
  BY <1>4, <1>5

LEMMA ParsedNextInModule ==
  ASSUME Inv, Parsing, NextItem, at.phase = "module"
  PROVE  LET p == ParsedOf(prog, at, Item.into)
         IN  /\ IsSeq(p) /\ Upon(Item, p) /\ ParsedOf(prog, at', Item.into) = Append(p, Item)
             /\ \A s : s # Item.into => ParsedOf(prog, at', s) = ParsedOf(prog, at, s)
<1>1. PICK opts, i, o : opts = prog.modules[at.n] /\ i = at.i /\ o = Item
  OBVIOUS
<1>2. IsList(opts) /\ i \in DOMAIN opts /\ o = opts[i]
  BY <1>1, Permitted
<1>3. at' = [at EXCEPT !.i = @ + 1] /\ at = [phase |-> at.phase, n |-> at.n, i |-> at.i]
  BY DEF NextItem, Inv, Placed
<1>4. at'.phase = "module" /\ at'.n = at.n /\ at'.i = i + 1
  BY <1>1, <1>3
<1>5. \A s : ParsedOf(prog, at, s) = Part(opts, i, s)
  BY <1>1 DEF ParsedOf
<1>6. \A s : ParsedOf(prog, at', s) = Part(opts, i + 1, s)
  BY <1>1, <1>4 DEF ParsedOf
<1>7. PICK p : p = Part(opts, i, o.into)
  OBVIOUS
<1>8. IsSeq(p) /\ \A k \in DOMAIN p : p[k].into = o.into
  BY <1>2, <1>7, PartIs
<1>9. Upon(o, p)
  BY <1>8 DEF Upon
<1>10. Part(opts, i + 1, o.into) = Append(p, o)
  BY <1>2, <1>7, PartMore
<1>11. \A s : s # o.into => Part(opts, i + 1, s) = Part(opts, i, s)
  BY <1>2, PartMore
<1>. QED
  BY <1>1, <1>5, <1>6, <1>7, <1>8, <1>9, <1>10, <1>11

LEMMA ParsedNextInInjector ==
  ASSUME Inv, Parsing, NextItem, at.phase = "injector"
  PROVE  LET p == ParsedOf(prog, at, Nil)
         IN  /\ IsSeq(p) /\ Upon(Item, p) /\ ParsedOf(prog, at', Nil) = Append(p, Item)
             /\ IsSeq(OwnOf(prog, at)) /\ OwnOf(prog, at') = Append(OwnOf(prog, at), Item)
<1>1. PICK d, i, o : d = prog.directives[at.n] /\ i = at.i /\ o = Item
  OBVIOUS
<1>2. PICK opts : opts = d.opts
  OBVIOUS
<1>3. IsList(opts) /\ i \in DOMAIN opts /\ o = opts[i] /\ o.into = Nil /\ at.n \in DOMAIN prog.directives
  BY <1>1, <1>2, Permitted
<1>4. at' = [at EXCEPT !.i = @ + 1] /\ at = [phase |-> at.phase, n |-> at.n, i |-> at.i]
  BY DEF NextItem, Inv, Placed
<1>5. at'.phase = "injector" /\ at'.n = at.n /\ at'.i = i + 1
  BY <1>1, <1>4
<1>6. PICK own : own = Part(opts, i, Nil)
  OBVIOUS
<1>7. OwnOf(prog, at) = own /\ OwnOf(prog, at') = Part(opts, i + 1, Nil)
  BY <1>1, <1>2, <1>5, <1>6 DEF OwnOf
<1>8. IsSeq(own)
  BY <1>3, <1>6, PartIs
<1>9. Part(opts, i + 1, Nil) = Append(own, o)
  BY <1>3, <1>6, PartMore
<1>10. PICK base : base = Starts(prog, d.mod, d.kind)
  OBVIOUS
<1>11. IsSeq(base)
  BY <1>1, <1>3, <1>10, StartsIs DEF Inv
<1>12. ParsedOf(prog, at, Nil) = base \o own
  BY <1>1, <1>7, <1>10 DEF ParsedOf
<1>13. ParsedOf(prog, at', Nil) = base \o Append(own, o)
  BY <1>1, <1>5, <1>7, <1>9, <1>10 DEF ParsedOf
<1>14. base \o Append(own, o) = Append(base \o own, o)
  BY <1>8, <1>11, AppendToJoined
<1>15. IsSeq(base \o own)
  BY <1>8, <1>11, Joined
<1>16. Upon(o, base \o own)
  BY <1>3 DEF Upon
<1>. QED
  BY <1>1, <1>7, <1>8, <1>9, <1>12, <1>13, <1>14, <1>15, <1>16

LEMMA ParsedNext ==
  ASSUME Inv, Phases, Parsing, NextItem
  PROVE  /\ LET p == ParsedOf(prog, at, Item.into)
            IN  IsSeq(p) /\ Upon(Item, p) /\ ParsedOf(prog, at', Item.into) = Append(p, Item)
         /\ \A s \in SlotsOf(fors) :
              s # Item.into => ParsedOf(prog, at', s) = ParsedOf(prog, at, s)
         /\ at.phase = "injector" =>
              IsSeq(OwnOf(prog, at)) /\ OwnOf(prog, at') = Append(OwnOf(prog, at), Item)
<1>1. CASE at.phase = "module"
  BY <1>1, ParsedNextInModule
<1>2. CASE at.phase = "injector"
  <2>1. Item.into = Nil /\ at.i # 0
    BY <1>2, Permitted
  <2>2. SlotsOf(fors) = {Nil}
    BY <1>2, <2>1 DEF Phases, SlotsOf
  <2>. QED
    BY <1>2, <2>1, <2>2, ParsedNextInInjector
<1>. QED
  BY <1>1, <1>2 DEF Parsing

-----------------------------------------------------------------------------
(* The arrays of what has been parsed, and of what is being filled but for   *)
(* the place s.                                                              *)
Beyond(s) == {AtOf(cfg, fors, t).lists[l].arr : t \in SlotsOf(fors) \ {s}, l \in Lists} \ {0}
Held(s)   == Protected \cup Beyond(s)

LEMMA HeldHeap ==
  ASSUME Inv, NEW s
  PROVE  Held(s) \in SUBSET (1 .. Len(heap)) /\ Len(heap) \in Nat /\ IsSeq(heap)
<1>1. Len(heap) \in Nat /\ Protected \in SUBSET (1 .. Len(heap)) /\ IsSeq(heap)
  BY ProtectedHeap DEF Inv, Kept
<1>2. ASSUME NEW t \in SlotsOf(fors), NEW l \in Lists, AtOf(cfg, fors, t).lists[l].arr # 0
      PROVE  AtOf(cfg, fors, t).lists[l].arr \in 1 .. Len(heap)
  <2>1. PICK c : c = AtOf(cfg, fors, t)
    OBVIOUS
  <2>2. c \in Opened
    BY <2>1, SlotsOpened
  <2>3. Holds(c, Len(heap))
    BY <2>2 DEF Inv, Kept
  <2>4. c.lists[l].arr \in 0 .. Len(heap)
    BY <2>3 DEF Holds, IsSlice
  <2>. QED
    BY <1>1, <1>2, <2>1, <2>4
<1>3. Beyond(s) \in SUBSET (1 .. Len(heap))
  BY <1>2 DEF Beyond
<1>. QED
  BY <1>1, <1>3 DEF Held

LEMMA HeldSpares ==
  ASSUME Inv, Private, Parsing
  PROVE  Spares(heap, Held(Item.into), Lists, State(heap, Target))
<1>1. PICK c, s : c = Target /\ s = Item.into
  OBVIOUS
<1>2. s \in SlotsOf(fors) /\ c = AtOf(cfg, fors, s)
  BY <1>1, SlotTaken
<1>3. Spares(heap, Protected, Lists, State(heap, c)) /\ IsSeq(heap) /\ Len(heap) \in Nat
  BY <1>1, TargetSpares, HeapLen
<1>4. \A l \in Lists : c.lists[l].arr \notin Protected
  BY <1>3 DEF Spares, State
<1>5. ASSUME NEW t \in SlotsOf(fors) \ {s}, NEW l \in Lists, NEW m \in Lists,
             AtOf(cfg, fors, t).lists[l].arr # 0
      PROVE  c.lists[m].arr # AtOf(cfg, fors, t).lists[l].arr
  <2>1. Disjoint(AtOf(cfg, fors, t), c)
    BY <1>2 DEF Private
  <2>. QED
    BY <1>5, <2>1 DEF Disjoint
<1>6. \A l \in Lists : c.lists[l].arr \notin Beyond(s)
  BY <1>5 DEF Beyond
<1>7. \A l \in Lists : c.lists[l].arr \notin Held(s)
  BY <1>4, <1>6 DEF Held
<1>8. IsState(State(heap, c))
  BY <1>3 DEF Spares
<1>. QED
  BY <1>1, <1>3, <1>7, <1>8 DEF Spares, State

(* An option with which the configuration it is for becomes that of st, in   *)
(* the heap of st, and holds what is said by it, too.                        *)
Gives(st) ==
  /\ heap' = st.heap /\ DOMAIN fors' = DOMAIN fors
  /\ \A s \in SlotsOf(fors) :
       AtOf(cfg', fors', s) = IF s = Item.into THEN st.cfg ELSE AtOf(cfg, fors, s)
  /\ NextItem /\ UNCHANGED <<prog, mods, injs, subs>>

FilledBy(st) ==
  /\ Sound(st.heap, st.cfg)
  /\ Follows(st.heap, st.cfg, Append(ParsedOf(prog, at, Item.into), Item))
  /\ at.phase = "module" => NoPaths(st.cfg)
  /\ at.phase = "injector" => Owned(st.cfg, Append(OwnOf(prog, at), Item))

LEMMA OptionFilled ==
  ASSUME Inv, Full, Parsing, NEW st, Gives(st), FilledBy(st),
         Spares(heap, Held(Item.into), Lists, st)
  PROVE  Full'
<1>1. PICK into : into = Item.into
  OBVIOUS
<1>2. /\ heap' = st.heap /\ DOMAIN fors' = DOMAIN fors /\ SlotsOf(fors') = SlotsOf(fors)
      /\ NextItem /\ UNCHANGED <<prog, mods, injs, subs>>
  BY DEF Gives, SlotsOf
<1>3. \A s \in SlotsOf(fors) : AtOf(cfg', fors', s) = IF s = into THEN st.cfg ELSE AtOf(cfg, fors, s)
  BY <1>1 DEF Gives
<1>4. /\ at' = [at EXCEPT !.i = @ + 1] /\ at = [phase |-> at.phase, n |-> at.n, i |-> at.i]
      /\ at.i \in Nat /\ at.phase \in {"module", "injector"} /\ at.i # 0
  BY <1>2, Permitted DEF NextItem, Inv, Placed
<1>5. at'.phase = at.phase /\ at'.n = at.n /\ at'.i = at.i + 1
  BY <1>4
<1>6. into \in SlotsOf(fors)
  BY <1>1, SlotTaken
<1>7. Full /\ Filling
  BY TargetOpened
<1>8. /\ IsSeq(heap') /\ Len(heap') >= Len(heap) /\ \A j \in Held(into) : heap'[j] = heap[j]
      /\ \A l \in Lists : st.cfg.lists[l].arr \notin Held(into)
  BY <1>1, <1>2 DEF Spares, IsState
<1>9. Phases'
  BY <1>2, <1>4, <1>5, <1>7 DEF Full, Phases
<1>10. Done' /\ \A c \in Finished' : Sound(heap', c)
  <2>1. \A j \in Protected : heap'[j] = heap[j]
    BY <1>8 DEF Held
  <2>. QED
    BY <1>2, <1>7, <1>8, <2>1, NothingDone DEF Full
<1>11. ASSUME NEW s \in SlotsOf(fors), s # into
       PROVE  Unmoved(heap, heap', AtOf(cfg, fors, s))
  <2>1. PICK c, h, g, F : c = AtOf(cfg, fors, s) /\ h = heap /\ g = heap' /\ F = Held(into)
    OBVIOUS
  <2>2. Sound(h, c)
    BY <1>7, <2>1 DEF Full, Sounds
  <2>3. \A l \in Lists : c.lists[l].arr # 0 => c.lists[l].arr \in F
    BY <1>11, <2>1 DEF Held, Beyond
  <2>4. IsSeq(g) /\ Len(g) >= Len(h) /\ \A j \in F : g[j] = h[j]
    BY <1>8, <2>1
  <2>5. Unmoved(h, g, c)
    BY <2>2, <2>3, <2>4, UnmovedIs
  <2>. QED
    BY <2>1, <2>5
<1>12. Sounds'
  <2>1. ASSUME NEW s \in SlotsOf(fors)
        PROVE  Sound(heap', AtOf(cfg', fors', s))
    <3>1. CASE s = into
      BY <1>2, <1>3, <3>1 DEF FilledBy
    <3>2. CASE s # into
      BY <1>3, <1>11, <3>2 DEF Unmoved
    <3>. QED
      BY <3>1, <3>2
  <2>. QED
    BY <1>2, <1>10, <2>1 DEF Sounds
<1>13. Private'
  <2>1. ASSUME NEW s \in SlotsOf(fors), s # into
        PROVE  Disjoint(AtOf(cfg, fors, s), st.cfg) /\ Disjoint(st.cfg, AtOf(cfg, fors, s))
    <3>1. PICK c : c = AtOf(cfg, fors, s)
      OBVIOUS
    <3>2. \A l \in Lists : c.lists[l].arr # 0 => c.lists[l].arr \in Held(into)
      BY <2>1, <3>1 DEF Held, Beyond
    <3>. QED
      BY <1>8, <3>1, <3>2 DEF Disjoint
  <2>2. ASSUME NEW s \in SlotsOf(fors), NEW t \in SlotsOf(fors), s # t
        PROVE  Disjoint(AtOf(cfg', fors', s), AtOf(cfg', fors', t))
    <3>1. Disjoint(AtOf(cfg, fors, s), AtOf(cfg, fors, t))
      BY <1>7, <2>2 DEF Full, Private
    <3>2. CASE s = into
      BY <1>3, <2>1, <2>2, <3>2
    <3>3. CASE t = into
      BY <1>3, <2>1, <2>2, <3>3
    <3>4. CASE s # into /\ t # into
      BY <1>3, <3>1, <3>4
    <3>. QED
      BY <3>2, <3>3, <3>4
  <2>. QED
    BY <1>2, <2>2 DEF Private
<1>14. InHand'
  <2>1. /\ ParsedOf(prog, at', into) = Append(ParsedOf(prog, at, into), Item)
        /\ \A s \in SlotsOf(fors) : s # into => ParsedOf(prog, at', s) = ParsedOf(prog, at, s)
        /\ at.phase = "injector" => OwnOf(prog, at') = Append(OwnOf(prog, at), Item)
    BY <1>1, <1>2, <1>7, ParsedNext DEF Full
  <2>2. ASSUME NEW s \in SlotsOf(fors)
        PROVE  Follows(heap', AtOf(cfg', fors', s), ParsedOf(prog, at', s))
    <3>1. CASE s = into
      BY <1>1, <1>2, <1>3, <2>1, <3>1 DEF FilledBy
    <3>2. CASE s # into
      <4>1. Follows(heap, AtOf(cfg, fors, s), ParsedOf(prog, at, s))
        BY <1>7 DEF Full, InHand
      <4>2. Unmoved(heap, heap', AtOf(cfg, fors, s))
        BY <1>11, <3>2
      <4>3. PICK h, g, c, p : /\ h = heap /\ g = heap' /\ c = AtOf(cfg, fors, s)
                              /\ p = ParsedOf(prog, at, s)
        OBVIOUS
      <4>4. Follows(g, c, p)
        BY <4>1, <4>2, <4>3, UnmovedFollows
      <4>. QED
        BY <1>3, <2>1, <3>2, <4>3, <4>4
    <3>. QED
      BY <3>1, <3>2
  <2>3. ASSUME at.phase = "module", NEW s \in SlotsOf(fors)
        PROVE  NoPaths(AtOf(cfg', fors', s))
    <3>1. NoPaths(AtOf(cfg, fors, s))
      BY <1>7, <2>3 DEF Full, InHand
    <3>. QED
      BY <1>3, <2>3, <3>1 DEF FilledBy
  <2>4. ASSUME at.phase = "injector"
        PROVE  Owned(cfg', OwnOf(prog, at'))
    <3>1. into = Nil
      BY <1>1, <2>4, TargetOpened
    <3>2. cfg' = st.cfg
      BY <1>3, <1>6, <3>1 DEF AtOf
    <3>. QED
      BY <2>1, <2>4, <3>2 DEF FilledBy
  <2>. QED
    BY <1>2, <1>5, <2>2, <2>3, <2>4 DEF InHand
<1>. QED
  BY <1>9, <1>10, <1>12, <1>13, <1>14 DEF Full

-----------------------------------------------------------------------------
LEMMA BecomesGives ==
  ASSUME Inv, Phases, Parsing, NEW st, Becomes(st)
  PROVE  Gives(st)
<1>1. Item.into \in SlotsOf(fors) /\ Nil \notin DOMAIN fors
  BY SlotTaken, KindsAssumption DEF Phases
<1>2. CASE Item.into = Nil
  BY <1>1, <1>2 DEF Becomes, Gives, SlotsOf, AtOf
<1>3. CASE Item.into # Nil
  <2>1. /\ fors' = [fors EXCEPT ![Item.into] = st.cfg] /\ cfg' = cfg
        /\ Item.into \in DOMAIN fors
    BY <1>1, <1>3 DEF Becomes, SlotsOf
  <2>2. DOMAIN fors' = DOMAIN fors
    BY <2>1
  <2>3. \A s \in DOMAIN fors : fors'[s] = IF s = Item.into THEN st.cfg ELSE fors[s]
    BY <2>1
  <2>4. \A s \in SlotsOf(fors) :
          AtOf(cfg', fors', s) = IF s = Item.into THEN st.cfg ELSE AtOf(cfg, fors, s)
    BY <1>1, <1>3, <2>1, <2>3 DEF SlotsOf, AtOf
  <2>. QED
    BY <2>2, <2>4 DEF Becomes, Gives
<1>. QED
  BY <1>2, <1>3

(* An option that changes nothing. *)
LEMMA NothingGives ==
  ASSUME Inv, Parsing, NextItem, UNCHANGED <<prog, heap, cfg, fors, mods, injs, subs>>
  PROVE  Gives(State(heap, Target))
<1>1. Target = AtOf(cfg, fors, Item.into)
  BY SlotTaken
<1>. QED
  BY <1>1 DEF Gives, State

(* What the option in hand is put to. *)
LEMMA AddedToSeq ==
  ASSUME NEW p, IsSeq(p), NEW o
  PROVE  Added(Append(p, o), p, o, Len(p))
BY DEF Added

LEMMA HandIs ==
  ASSUME Inv, Full, Parsing, NextItem
  PROVE  LET p == ParsedOf(prog, at, Item.into)
         IN  /\ Added(Append(p, Item), p, Item, Len(p)) /\ Upon(Item, p)
             /\ Sound(heap, Target) /\ Follows(heap, Target, p)
<1>1. PICK p : p = ParsedOf(prog, at, Item.into)
  OBVIOUS
<1>2. IsSeq(p) /\ Upon(Item, p)
  BY <1>1, ParsedNext DEF Full
<1>3. Item.into \in SlotsOf(fors) /\ Target = AtOf(cfg, fors, Item.into) /\ Filling
  BY SlotTaken, TargetOpened
<1>4. Sound(heap, Target) /\ Follows(heap, Target, p)
  BY <1>1, <1>3 DEF Full, Sounds, InHand
<1>. QED
  BY <1>1, <1>2, <1>4, AddedToSeq

LEMMA HandOwns ==
  ASSUME Inv, Full, Parsing, NextItem
  PROVE  /\ at.phase = "module" => NoPaths(Target) /\ Item.op \notin Paths
         /\ at.phase = "injector" =>
              /\ Owned(Target, OwnOf(prog, at)) /\ Item.into = Nil
              /\ Added(Append(OwnOf(prog, at), Item), OwnOf(prog, at), Item, Len(OwnOf(prog, at)))
<1>1. Item.into \in SlotsOf(fors) /\ Target = AtOf(cfg, fors, Item.into) /\ Filling
  BY SlotTaken, TargetOpened
<1>2. ASSUME at.phase = "module"
      PROVE  NoPaths(Target) /\ Item.op \notin Paths
  <2>1. NoPaths(Target)
    BY <1>1, <1>2 DEF Full, InHand
  <2>2. at.n \in DOMAIN prog.modules /\ at.i \in DOMAIN prog.modules[at.n] /\ Item = prog.modules[at.n][at.i]
    BY <1>2, Permitted
  <2>3. Item.op \in Everywhere \/ Item.op \in OfModules
    BY <2>2, OptionsAssumption DEF Inv, Placed
  <2>4. Item.op \notin Paths
    BY <2>3 DEF Everywhere, OfModules, Paths
  <2>. QED
    BY <2>1, <2>4
<1>3. ASSUME at.phase = "injector"
      PROVE  /\ Owned(Target, OwnOf(prog, at)) /\ Item.into = Nil
             /\ Added(Append(OwnOf(prog, at), Item), OwnOf(prog, at), Item, Len(OwnOf(prog, at)))
  <2>1. Item.into = Nil /\ Target = cfg
    BY <1>3, TargetOpened DEF Target
  <2>2. Owned(cfg, OwnOf(prog, at))
    BY <1>1, <1>3 DEF Full, InHand
  <2>3. IsSeq(OwnOf(prog, at))
    BY <1>3, ParsedNext DEF Full
  <2>. QED
    BY <2>1, <2>2, <2>3, AddedToSeq
<1>. QED
  BY <1>2, <1>3

LEMMA SoundSame ==
  ASSUME NEW h, NEW c, Sound(h, c), NEW d, Shaped(d), SameRules(c, d)
  PROVE  Sound(h, d)
<1>1. "lists" \in DOMAIN d
  BY Fields
<1>2. Tidy(State(h, c)) /\ d.lists = c.lists
  BY DEF Sound, SameRules
<1>3. Tidy(State(h, d))
  BY <1>1, <1>2 DEF Tidy, IsState, Holds, State
<1>. QED
  BY <1>3 DEF Sound

(* An option that is not a rule. *)
LEMMA SetsFilled ==
  ASSUME Inv, Full, Parsing, Item.op \notin {"rename", "renameReset"},
         NEW c, Gives(State(heap, c)), Shaped(c), SameRules(Target, c),
         RestFilled(c, Append(ParsedOf(prog, at, Item.into), Item)),
         at.phase = "module" => NoPaths(c),
         at.phase = "injector" => Owned(c, Append(OwnOf(prog, at), Item))
  PROVE  Full'
<1>1. PICK h, t, o, p, q : /\ h = heap /\ t = Target /\ o = Item
                           /\ p = ParsedOf(prog, at, Item.into) /\ q = Append(p, o)
  OBVIOUS
<1>2. NextItem
  BY DEF Gives
<1>3. Added(q, p, o, Len(p)) /\ Upon(o, p) /\ Sound(h, t) /\ Follows(h, t, p)
  BY <1>1, <1>2, HandIs
<1>4. RulesFilled(h, t, p) /\ SameRules(t, c) /\ o.op \notin {"rename", "renameReset"}
  BY <1>1, <1>3 DEF Follows
<1>5. RulesFilled(h, c, q)
  BY <1>3, <1>4, RulesGoOn
<1>6. Sound(h, c)
  BY <1>3, <1>4, SoundSame
<1>7. PICK st, F : st = State(h, c) /\ F = Held(Item.into)
  OBVIOUS
<1>8. st.heap = h /\ st.cfg = c
  BY <1>7 DEF State
<1>9. FilledBy(st)
  BY <1>1, <1>5, <1>6, <1>8 DEF FilledBy, Follows
<1>10. Spares(h, F, Lists, st)
  <2>1. PICK old : old = State(h, t)
    OBVIOUS
  <2>2. Spares(h, F, Lists, old) /\ old.heap = h /\ old.cfg = t
    BY <1>1, <1>7, <2>1, HeldSpares DEF Full, State
  <2>3. "lists" \in DOMAIN c /\ c.lists = old.cfg.lists
    BY <1>4, <2>2, Fields DEF SameRules
  <2>4. Spares(h, F, Lists, State(old.heap, c))
    BY <2>2, <2>3, SparesRest
  <2>. QED
    BY <1>7, <2>2, <2>4
<1>11. Gives(st) /\ Spares(heap, Held(Item.into), Lists, st)
  BY <1>1, <1>7, <1>10
<1>. QED
  BY <1>9, <1>11, OptionFilled

(* What an option does not set says what it said. *)
LEMMA OtherPaths ==
  ASSUME Inv, Full, Parsing, NextItem, Item.op \notin Paths, NEW c, SamePaths(Target, c)
  PROVE  /\ at.phase = "module" => NoPaths(c)
         /\ at.phase = "injector" => Owned(c, Append(OwnOf(prog, at), Item))
<1>1. PICK t, o, own : t = Target /\ o = Item /\ own = OwnOf(prog, at)
  OBVIOUS
<1>2. PICK q : q = Append(own, o)
  OBVIOUS
<1>3. ASSUME at.phase = "module"
      PROVE  NoPaths(c)
  <2>1. NoPaths(t) /\ SamePaths(t, c)
    BY <1>1, <1>3, HandOwns
  <2>. QED
    BY <2>1 DEF NoPaths, SamePaths
<1>4. ASSUME at.phase = "injector"
      PROVE  Owned(c, q)
  <2>1. Owned(t, own) /\ Added(q, own, o, Len(own)) /\ SamePaths(t, c) /\ o.op \notin Paths
    BY <1>1, <1>2, <1>4, HandOwns
  <2>. QED
    BY <2>1, OwnedStays
<1>. QED
  BY <1>1, <1>2, <1>3, <1>4

LEMMA OtherRest ==
  ASSUME Inv, Full, Parsing, NextItem, Item.op \notin Inherited, NEW c, SameInherited(Target, c)
  PROVE  RestFilled(c, Append(ParsedOf(prog, at, Item.into), Item))
<1>1. PICK t, o, p, q : /\ t = Target /\ o = Item
                        /\ p = ParsedOf(prog, at, Item.into) /\ q = Append(p, o)
  OBVIOUS
<1>2. Added(q, p, o, Len(p)) /\ Upon(o, p) /\ RestFilled(t, p)
  BY <1>1, HandIs DEF Follows
<1>3. RestFilled(c, q)
  BY <1>1, <1>2, RestGoesOn
<1>. QED
  BY <1>1, <1>3

(* What directives and modules say, and what only directives do. *)
LEMMA InheritedFilled ==
  ASSUME Inv, Full, Parsing, Item.op \notin Paths \cup {"rename", "renameReset"},
         NEW c, Gives(State(heap, c)), Shaped(c), SameRules(Target, c), SamePaths(Target, c),
         RestFilled(c, Append(ParsedOf(prog, at, Item.into), Item))
  PROVE  Full'
<1>1. NextItem /\ Item.op \notin Paths
  BY DEF Gives
<1>2. /\ at.phase = "module" => NoPaths(c)
      /\ at.phase = "injector" => Owned(c, Append(OwnOf(prog, at), Item))
  BY <1>1, OtherPaths
<1>. QED
  BY <1>2, SetsFilled

LEMMA PathsFilled ==
  ASSUME Inv, Full, Parsing, Item.op \in Paths,
         NEW c, Gives(State(heap, c)), Shaped(c), SameRules(Target, c), SameInherited(Target, c),
         at.phase = "injector" => Owned(c, Append(OwnOf(prog, at), Item))
  PROVE  Full'
<1>1. NextItem /\ Item.op \notin Inherited /\ Item.op \notin {"rename", "renameReset"}
  BY DEF Gives, Paths, Inherited
<1>2. RestFilled(c, Append(ParsedOf(prog, at, Item.into), Item))
  BY <1>1, OtherRest
<1>3. at.phase # "module"
  BY <1>1, HandOwns
<1>. QED
  BY <1>1, <1>2, <1>3, SetsFilled

-----------------------------------------------------------------------------
(* The options *)
LEMMA ShapeIs ==
  ASSUME NEW t, Shaped(t), NEW c, DOMAIN c = DOMAIN t
  PROVE  Shaped(c)
BY DEF Shaped

(* The configuration that an option finds and the one it leaves. *)
SetsFrom(t, c) == t = Target /\ Sets(c) /\ Shaped(t) /\ DOMAIN c = DOMAIN t

LEMMA SetsGives ==
  ASSUME Inv, Full, Parsing, NEW t, NEW c, SetsFrom(t, c)
  PROVE  Gives(State(heap, c)) /\ Shaped(c) /\ NextItem
<1>1. PICK st : st = State(heap, c)
  OBVIOUS
<1>2. Becomes(st)
  BY <1>1 DEF SetsFrom, Sets
<1>3. Gives(st)
  BY <1>2, BecomesGives DEF Full
<1>. QED
  BY <1>1, <1>3 DEF SetsFrom, Shaped, Gives

LEMMA SetsInherited ==
  ASSUME Inv, Full, Parsing, Item.op \in Inherited, NEW t, NEW c, SetsFrom(t, c),
         SameRules(t, c), SamePaths(t, c),
         RestFilled(c, Append(ParsedOf(prog, at, Item.into), Item))
  PROVE  Full'
<1>1. Gives(State(heap, c)) /\ Shaped(c) /\ t = Target
  BY SetsGives DEF SetsFrom
<1>2. Item.op \notin Paths \cup {"rename", "renameReset"}
  BY DEF Inherited, Paths
<1>. QED
  BY <1>1, <1>2, InheritedFilled

LEMMA SetsPaths ==
  ASSUME Inv, Full, Parsing, Item.op \in Paths, NEW t, NEW c, SetsFrom(t, c),
         SameRules(t, c), SameInherited(t, c),
         at.phase = "injector" => Owned(c, Append(OwnOf(prog, at), Item))
  PROVE  Full'
<1>1. Gives(State(heap, c)) /\ Shaped(c) /\ t = Target
  BY SetsGives DEF SetsFrom
<1>. QED
  BY <1>1, PathsFilled

(* What is said of the option in hand. *)
Saying(p, q, o, t) ==
  /\ o = Item /\ p = ParsedOf(prog, at, Item.into) /\ q = Append(p, o)
  /\ Added(q, p, o, Len(p)) /\ Upon(o, p) /\ RestFilled(t, p)

LEMMA HandSaid ==
  ASSUME Inv, Full, Parsing, NextItem, NEW t, t = Target
  PROVE  \E p, q, o : Saying(p, q, o, t)
<1>1. PICK p, o : o = Item /\ p = ParsedOf(prog, at, Item.into)
  OBVIOUS
<1>2. PICK q : q = Append(p, o)
  OBVIOUS
<1>3. Added(q, p, o, Len(p)) /\ Upon(o, p) /\ RestFilled(t, p)
  BY <1>1, <1>2, HandIs DEF Follows
<1>4. Saying(p, q, o, t)
  BY <1>1, <1>2, <1>3 DEF Saying
<1>. QED
  BY <1>4

LEMMA ImportFuncFilled ==
  ASSUME Inv, Full, ImportFunc, Shaped(Target)
  PROVE  Full'
<1>1. PICK t, e : t = Target /\ e = [pair |-> Item.pair, i |-> at.i]
  OBVIOUS
<1>2. PICK c : c = [t EXCEPT !.funcs = Append(@, e)]
  OBVIOUS
<1>3. Parsing /\ Item.op = "importFunc" /\ Sets(c)
  BY <1>1, <1>2 DEF ImportFunc, Option
<1>4. SetsFrom(t, c)
  BY <1>1, <1>2, <1>3 DEF SetsFrom
<1>5. SameRules(t, c) /\ SamePaths(t, c) /\ SameInherited(t, c)
  BY <1>1, <1>2, Fields DEF SameRules, SamePaths, SameInherited, SameAffixes
<1>6. Gives(State(heap, c)) /\ Shaped(c) /\ NextItem
  BY <1>3, <1>4, SetsGives
<1>7. Item.op \notin Inherited /\ Item.op \notin Paths \cup {"rename", "renameReset"}
  BY <1>3 DEF Inherited, Paths
<1>8. RestFilled(c, Append(ParsedOf(prog, at, Item.into), Item))
  BY <1>1, <1>3, <1>5, <1>6, <1>7, OtherRest
<1>. QED
  BY <1>1, <1>3, <1>5, <1>6, <1>7, <1>8, InheritedFilled

LEMMA WrapFilled ==
  ASSUME Inv, Full, ImportErrWrap \/ ImportErrWrapReset, Shaped(Target)
  PROVE  Full'
<1>1. PICK t : t = Target
  OBVIOUS
<1>2. Parsing /\ Item.op \in {"errWrap", "errWrapReset"}
  BY DEF ImportErrWrap, ImportErrWrapReset, Option
<1>3. PICK e : e = IF Item.op = "errWrap" THEN Append(t.errWraps, Item.wrap) ELSE <<>>
  OBVIOUS
<1>4. PICK c : c = [t EXCEPT !.errWraps = e]
  OBVIOUS
<1>5. /\ DOMAIN c = DOMAIN t /\ SameRules(t, c) /\ SamePaths(t, c) /\ SameAffixes(t, c)
      /\ c.unexported = t.unexported /\ c.errWraps = e
  BY <1>1, <1>4, Fields DEF SameRules, SamePaths, SameAffixes
<1>6. Sets(c)
  <2>1. CASE ImportErrWrap
    BY <1>1, <1>3, <1>4, <2>1 DEF ImportErrWrap, Option
  <2>2. CASE ImportErrWrapReset
    BY <1>1, <1>3, <1>4, <2>2 DEF ImportErrWrapReset, Option
  <2>. QED
    BY <2>1, <2>2
<1>7. SetsFrom(t, c) /\ NextItem
  BY <1>1, <1>5, <1>6 DEF SetsFrom, Sets, Becomes
<1>8. PICK p, q, o : Saying(p, q, o, t)
  BY <1>1, <1>2, <1>7, HandSaid
<1>9. /\ Added(q, p, o, Len(p)) /\ Upon(o, p) /\ RestFilled(t, p) /\ o.op \in {"errWrap", "errWrapReset"}
      /\ c.errWraps = IF o.op = "errWrap" THEN Append(t.errWraps, o.wrap) ELSE <<>>
  BY <1>2, <1>3, <1>5, <1>8 DEF Saying
<1>10. RestFilled(c, q)
  BY <1>5, <1>9, WrapsFill
<1>11. Item.op \in Inherited /\ RestFilled(c, Append(ParsedOf(prog, at, Item.into), Item))
  BY <1>2, <1>8, <1>10 DEF Inherited, Saying
<1>. QED
  BY <1>2, <1>5, <1>7, <1>11, SetsInherited

LEMMA UnexportedFilled ==
  ASSUME Inv, Full, DiscoverUnexported, Shaped(Target)
  PROVE  Full'
<1>1. PICK t, e : t = Target /\ e = [on |-> TRUE, x |-> Item.x, y |-> Item.y]
  OBVIOUS
<1>2. PICK c : c = [t EXCEPT !.unexported = e]
  OBVIOUS
<1>3. Parsing /\ Item.op = "unexported" /\ Sets(c)
  BY <1>1, <1>2 DEF DiscoverUnexported, Option
<1>4. /\ DOMAIN c = DOMAIN t /\ SameRules(t, c) /\ SamePaths(t, c) /\ SameAffixes(t, c)
      /\ c.errWraps = t.errWraps /\ c.unexported = e
  BY <1>1, <1>2, Fields DEF SameRules, SamePaths, SameAffixes
<1>5. SetsFrom(t, c) /\ NextItem
  BY <1>1, <1>3, <1>4 DEF SetsFrom, Sets, Becomes
<1>6. PICK p, q, o : Saying(p, q, o, t)
  BY <1>1, <1>3, <1>5, HandSaid
<1>7. /\ Added(q, p, o, Len(p)) /\ Upon(o, p) /\ RestFilled(t, p) /\ o.op = "unexported"
      /\ c.unexported = [on |-> TRUE, x |-> o.x, y |-> o.y]
  BY <1>1, <1>3, <1>4, <1>6 DEF Saying
<1>8. RestFilled(c, q)
  BY <1>4, <1>7, UnexportedFills
<1>9. Item.op \in Inherited /\ RestFilled(c, Append(ParsedOf(prog, at, Item.into), Item))
  BY <1>3, <1>6, <1>8 DEF Inherited, Saying
<1>. QED
  BY <1>3, <1>4, <1>5, <1>9, SetsInherited

LEMMA AffixFilled ==
  ASSUME Inv, Full, DiscoverGetters \/ DiscoverSetters, Shaped(Target)
  PROVE  Full'
<1>1. PICK t : t = Target
  OBVIOUS
<1>2. Parsing /\ Item.op \in {"getters", "setters"}
  BY DEF DiscoverGetters, DiscoverSetters, Option
<1>3. PICK c : c = IF Item.op = "getters" THEN [t EXCEPT !.getters = Item.affix]
                   ELSE [t EXCEPT !.setters = Item.affix]
  OBVIOUS
<1>4. /\ DOMAIN c = DOMAIN t /\ SameRules(t, c) /\ SamePaths(t, c)
      /\ c.errWraps = t.errWraps /\ c.unexported = t.unexported
      /\ c.getters = IF Item.op = "getters" THEN Item.affix ELSE t.getters
      /\ c.setters = IF Item.op = "setters" THEN Item.affix ELSE t.setters
  BY <1>1, <1>2, <1>3, Fields DEF SameRules, SamePaths
<1>5. Sets(c)
  BY <1>1, <1>3 DEF DiscoverGetters, DiscoverSetters, Option
<1>6. SetsFrom(t, c) /\ NextItem
  BY <1>1, <1>4, <1>5 DEF SetsFrom, Sets, Becomes
<1>7. PICK p, q, o : Saying(p, q, o, t)
  BY <1>1, <1>2, <1>6, HandSaid
<1>8. /\ Added(q, p, o, Len(p)) /\ Upon(o, p) /\ RestFilled(t, p) /\ o.op \in {"getters", "setters"}
      /\ c.getters = IF o.op = "getters" THEN o.affix ELSE t.getters
      /\ c.setters = IF o.op = "setters" THEN o.affix ELSE t.setters
  BY <1>2, <1>4, <1>7 DEF Saying
<1>9. RestFilled(c, q)
  BY <1>4, <1>8, AffixFills
<1>10. Item.op \in Inherited /\ RestFilled(c, Append(ParsedOf(prog, at, Item.into), Item))
  BY <1>2, <1>7, <1>9 DEF Inherited, Saying
<1>. QED
  BY <1>2, <1>4, <1>6, <1>10, SetsInherited

LEMMA FieldsOnlyFilled ==
  ASSUME Inv, Full, DiscoverFieldsOnly, Shaped(Target)
  PROVE  Full'
<1>1. PICK t : t = Target
  OBVIOUS
<1>2. PICK c : c = FieldsOnly(t)
  OBVIOUS
<1>3. Parsing /\ Item.op = "fieldsOnly" /\ Sets(c)
  BY <1>1, <1>2 DEF DiscoverFieldsOnly, Option
<1>4. /\ DOMAIN c = DOMAIN t /\ SameRules(t, c) /\ SamePaths(t, c)
      /\ c.errWraps = t.errWraps /\ c.unexported = t.unexported
      /\ c.getters = IF Item.x THEN Nil ELSE t.getters
      /\ c.setters = IF Item.y THEN Nil ELSE t.setters
  BY <1>1, <1>2, Fields DEF SameRules, SamePaths, FieldsOnly
<1>5. SetsFrom(t, c) /\ NextItem
  BY <1>1, <1>3, <1>4 DEF SetsFrom, Sets, Becomes
<1>6. PICK p, q, o : Saying(p, q, o, t)
  BY <1>1, <1>3, <1>5, HandSaid
<1>7. /\ Added(q, p, o, Len(p)) /\ Upon(o, p) /\ RestFilled(t, p) /\ o.op = "fieldsOnly"
      /\ c.getters = IF o.x THEN Nil ELSE t.getters
      /\ c.setters = IF o.y THEN Nil ELSE t.setters
  BY <1>3, <1>4, <1>6 DEF Saying
<1>8. RestFilled(c, q)
  BY <1>4, <1>7, FieldsOnlyFills
<1>9. Item.op \in Inherited /\ RestFilled(c, Append(ParsedOf(prog, at, Item.into), Item))
  BY <1>3, <1>6, <1>8 DEF Inherited, Saying
<1>. QED
  BY <1>3, <1>4, <1>5, <1>9, SetsInherited

-----------------------------------------------------------------------------
(* The options of directives *)
LEMMA HandOwned ==
  ASSUME Inv, Full, Parsing, NextItem, NEW t, t = Target, at.phase = "injector"
  PROVE  \E p, q, o : /\ o = Item /\ p = OwnOf(prog, at) /\ q = Append(p, o)
                      /\ Added(q, p, o, Len(p)) /\ Owned(t, p)
<1>1. PICK p, o : o = Item /\ p = OwnOf(prog, at)
  OBVIOUS
<1>2. PICK q : q = Append(p, o)
  OBVIOUS
<1>3. Added(q, p, o, Len(p)) /\ Owned(t, p)
  BY <1>1, <1>2, HandOwns
<1>. QED
  BY <1>1, <1>2, <1>3

LEMMA MatchFilled ==
  ASSUME Inv, Full, Match, Shaped(Target)
  PROVE  Full'
<1>1. PICK t, e : t = Target /\ e = Item.pair
  OBVIOUS
<1>2. PICK c : c = [t EXCEPT !.match = Append(@, e)]
  OBVIOUS
<1>3. Parsing /\ Item.op = "match" /\ Sets(c)
  BY <1>1, <1>2 DEF Match, Option
<1>4. DOMAIN c = DOMAIN t /\ SameRules(t, c) /\ SameInherited(t, c)
  BY <1>1, <1>2, Fields DEF SameRules, SameInherited, SameAffixes
<1>5. SetsFrom(t, c) /\ NextItem
  BY <1>1, <1>3, <1>4 DEF SetsFrom, Sets, Becomes
<1>6. ASSUME at.phase = "injector"
      PROVE  Owned(c, Append(OwnOf(prog, at), Item))
  <2>1. PICK p, q, o : /\ o = Item /\ p = OwnOf(prog, at) /\ q = Append(p, o)
                       /\ Added(q, p, o, Len(p)) /\ Owned(t, p)
    BY <1>1, <1>3, <1>5, <1>6, HandOwned
  <2>2. c = [t EXCEPT !.match = Append(@, o.pair)] /\ o.op = "match" /\ Shaped(t)
    BY <1>1, <1>2, <1>3, <2>1
  <2>3. Owned(c, q)
    BY <2>1, <2>2, MatchOwned
  <2>. QED
    BY <2>1, <2>3
<1>7. Item.op \in Paths
  BY <1>3 DEF Paths
<1>. QED
  BY <1>3, <1>4, <1>5, <1>6, <1>7, SetsPaths

LEMMA MatchSkipFilled ==
  ASSUME Inv, Full, MatchSkip, Shaped(Target)
  PROVE  Full'
<1>1. PICK t, e : t = Target /\ e = Item.pair
  OBVIOUS
<1>2. PICK c : c = [t EXCEPT !.matchSkip = Append(@, e)]
  OBVIOUS
<1>3. Parsing /\ Item.op = "matchSkip" /\ Sets(c)
  BY <1>1, <1>2 DEF MatchSkip, Option
<1>4. DOMAIN c = DOMAIN t /\ SameRules(t, c) /\ SameInherited(t, c)
  BY <1>1, <1>2, Fields DEF SameRules, SameInherited, SameAffixes
<1>5. SetsFrom(t, c) /\ NextItem
  BY <1>1, <1>3, <1>4 DEF SetsFrom, Sets, Becomes
<1>6. ASSUME at.phase = "injector"
      PROVE  Owned(c, Append(OwnOf(prog, at), Item))
  <2>1. PICK p, q, o : /\ o = Item /\ p = OwnOf(prog, at) /\ q = Append(p, o)
                       /\ Added(q, p, o, Len(p)) /\ Owned(t, p)
    BY <1>1, <1>3, <1>5, <1>6, HandOwned
  <2>2. c = [t EXCEPT !.matchSkip = Append(@, o.pair)] /\ o.op = "matchSkip" /\ Shaped(t)
    BY <1>1, <1>2, <1>3, <2>1
  <2>3. Owned(c, q)
    BY <2>1, <2>2, SkipOwned
  <2>. QED
    BY <2>1, <2>3
<1>7. Item.op \in Paths
  BY <1>3 DEF Paths
<1>. QED
  BY <1>3, <1>4, <1>5, <1>6, <1>7, SetsPaths

(* The panic of a write to a nil map, or of a path with an error. *)
LEMMA PanicFilled ==
  ASSUME Inv, Full, Panic
  PROVE  Full'
<1>1. /\ UNCHANGED <<prog, heap, cfg, fors, mods, injs, subs>> /\ at' = [at EXCEPT !.phase = "panicked"]
      /\ at = [phase |-> at.phase, n |-> at.n, i |-> at.i]
  BY DEF Panic, Inv, Placed
<1>2. at'.phase = "panicked" /\ at'.n = at.n
  BY <1>1
<1>3. Phases' /\ InHand'
  BY <1>1, <1>2 DEF Full, Phases, InHand, Filling
<1>4. Sounds' /\ Private'
  BY <1>1 DEF Full, Sounds, Private, Finished, Configs
<1>5. Done'
  BY <1>1 DEF Full, Done, ModsFilled, InjsFilled, SubsFilled
<1>. QED
  BY <1>3, <1>4, <1>5 DEF Full

LEMMA MatchFuncFilled ==
  ASSUME Inv, Full, MatchFunc, Shaped(Target)
  PROVE  Full'
<1>1. PICK t, o : t = Target /\ o = Item
  OBVIOUS
<1>2. PICK c : Matched(t, o, c)
  BY DEF Matched
<1>3. CASE ~t.matchFuncs.made
  BY <1>1, <1>3, PanicFilled DEF MatchFunc
<1>4. CASE t.matchFuncs.made
  <2>1. Parsing /\ Item.op = "matchFunc" /\ Sets(c)
    BY <1>1, <1>2, <1>4 DEF MatchFunc, Option, Matched
  <2>2. DOMAIN c = DOMAIN t /\ SameRules(t, c) /\ SameInherited(t, c)
    BY <1>1, <1>2, Fields DEF SameRules, SameInherited, SameAffixes, Matched
  <2>3. SetsFrom(t, c) /\ NextItem
    BY <1>1, <2>1, <2>2 DEF SetsFrom, Sets, Becomes
  <2>4. ASSUME at.phase = "injector"
        PROVE  Owned(c, Append(OwnOf(prog, at), Item))
    <3>1. PICK p, q, u : /\ u = Item /\ p = OwnOf(prog, at) /\ q = Append(p, u)
                         /\ Added(q, p, u, Len(p)) /\ Owned(t, p)
      BY <1>1, <2>1, <2>3, <2>4, HandOwned
    <3>2. Added(q, p, o, Len(p)) /\ o.op = "matchFunc" /\ Shaped(t)
      BY <1>1, <2>1, <3>1
    <3>3. Owned(c, q)
      BY <1>2, <3>1, <3>2, FuncOwned
    <3>. QED
      BY <1>1, <3>1, <3>3
  <2>5. Item.op \in Paths
    BY <2>1 DEF Paths
  <2>. QED
    BY <2>1, <2>2, <2>3, <2>4, <2>5, SetsPaths
<1>. QED
  BY <1>3, <1>4

LEMMA NestedFilled ==
  ASSUME Inv, Full, DiscoverNested, Shaped(Target)
  PROVE  Full'
<1>1. PICK t, o : t = Target /\ o = Item
  OBVIOUS
<1>2. PICK c : c = [t EXCEPT !.nested = [side \in Sides |-> IF o[side] = Nil THEN @[side]
                                                            ELSE Append(@[side], o[side])]]
  OBVIOUS
<1>3. CASE Wrong \in {Item.x, Item.y}
  BY <1>3, PanicFilled DEF DiscoverNested
<1>4. CASE Wrong \notin {Item.x, Item.y}
  <2>1. Parsing /\ Item.op = "nested" /\ Sets(c)
    BY <1>1, <1>2, <1>4 DEF DiscoverNested, Option
  <2>2. DOMAIN c = DOMAIN t /\ SameRules(t, c) /\ SameInherited(t, c)
    BY <1>1, <1>2, Fields DEF SameRules, SameInherited, SameAffixes
  <2>3. SetsFrom(t, c) /\ NextItem
    BY <1>1, <2>1, <2>2 DEF SetsFrom, Sets, Becomes
  <2>4. ASSUME at.phase = "injector"
        PROVE  Owned(c, Append(OwnOf(prog, at), Item))
    <3>1. PICK p, q, u : /\ u = Item /\ p = OwnOf(prog, at) /\ q = Append(p, u)
                         /\ Added(q, p, u, Len(p)) /\ Owned(t, p)
      BY <1>1, <2>1, <2>3, <2>4, HandOwned
    <3>2. Added(q, p, o, Len(p)) /\ o.op = "nested" /\ Shaped(t)
      BY <1>1, <2>1, <3>1
    <3>3. Owned(c, q)
      BY <1>2, <3>1, <3>2, NestedOwned
    <3>. QED
      BY <1>1, <3>1, <3>3
  <2>5. Item.op \in Paths
    BY <2>1 DEF Paths
  <2>. QED
    BY <2>1, <2>2, <2>3, <2>4, <2>5, SetsPaths
<1>. QED
  BY <1>3, <1>4

(* A second sample changes nothing. *)
LEMMA SampleFilled ==
  ASSUME Inv, Full, DiscoverBySample, Shaped(Target)
  PROVE  Full'
<1>1. PICK t, o : t = Target /\ o = Item
  OBVIOUS
<1>2. Parsing /\ Item.op = "sample" /\ Item.op \in Paths
  BY DEF DiscoverBySample, Option, Paths
<1>3. PICK c : Resampled(t, o, c)
  BY DEF Resampled
<1>4. DOMAIN c = DOMAIN t /\ SameRules(t, c) /\ SameInherited(t, c) /\ Shaped(c)
  BY <1>1, <1>3, Fields DEF Resampled, SameRules, SameInherited, SameAffixes, Shaped
<1>5. Gives(State(heap, c)) /\ NextItem
  <2>1. CASE t.bySample.on
    <3>1. Refused("sample") /\ c = t
      BY <1>1, <1>3, <2>1 DEF DiscoverBySample, Resampled
    <3>2. NextItem /\ UNCHANGED <<prog, heap, cfg, fors, mods, injs, subs>>
      BY <3>1 DEF Refused
    <3>. QED
      BY <1>1, <1>2, <3>1, <3>2, NothingGives
  <2>2. CASE ~t.bySample.on
    <3>1. c = [t EXCEPT !.bySample = Sampled(t)]
      BY <1>1, <1>3, <2>2 DEF Resampled, Sampled
    <3>2. SetsFrom(t, c)
      BY <1>1, <1>4, <2>2, <3>1 DEF DiscoverBySample, SetsFrom
    <3>. QED
      BY <1>2, <3>2, SetsGives
  <2>. QED
    BY <2>1, <2>2
<1>6. ASSUME at.phase = "injector"
      PROVE  Owned(c, Append(OwnOf(prog, at), Item))
  <2>1. PICK p, q, u : /\ u = Item /\ p = OwnOf(prog, at) /\ q = Append(p, u)
                       /\ Added(q, p, u, Len(p)) /\ Owned(t, p)
    BY <1>1, <1>2, <1>5, <1>6, HandOwned
  <2>2. Added(q, p, o, Len(p)) /\ o.op = "sample" /\ Shaped(t)
    BY <1>1, <1>2, <2>1
  <2>3. Owned(c, q)
    BY <1>3, <2>1, <2>2, SampleOwned
  <2>. QED
    BY <1>1, <2>1, <2>3
<1>. QED
  BY <1>1, <1>2, <1>4, <1>5, <1>6, PathsFilled

LEMMA BadOptionFilled ==
  ASSUME Inv, Full, BadOption, Shaped(Target)
  PROVE  Full'
<1>1. PICK t : t = Target
  OBVIOUS
<1>2. Parsing /\ Item.op = "bad" /\ NextItem /\ UNCHANGED <<prog, heap, cfg, fors, mods, injs, subs>>
  BY DEF BadOption, Option, Refused
<1>3. Gives(State(heap, t))
  BY <1>1, <1>2, NothingGives
<1>4. Item.op \notin Inherited /\ Item.op \notin Paths \cup {"rename", "renameReset"}
  BY <1>2 DEF Inherited, Paths
<1>5. SameRules(t, t) /\ SamePaths(t, t) /\ SameInherited(t, t)
  BY DEF SameRules, SamePaths, SameInherited, SameAffixes
<1>6. RestFilled(t, Append(ParsedOf(prog, at, Item.into), Item))
  BY <1>1, <1>2, <1>4, <1>5, OtherRest
<1>. QED
  BY <1>1, <1>2, <1>3, <1>4, <1>5, <1>6, InheritedFilled

-----------------------------------------------------------------------------
(* The rules *)
LEMMA SparesAddRule ==
  ASSUME NEW h, IsSeq(h), NEW F \in SUBSET (1 .. Len(h)), NEW s, Spares(h, F, Lists, s),
         NEW side \in Sides, NEW rule
  PROVE  Spares(h, F, Lists, AddRule(s, side, rule))
<1>1. PICK lr, lf, vr, vf : /\ lr = <<"renamers", side>> /\ lf = <<"finders", side>>
                            /\ vr = <<rule>> /\ vf = <<FinderOf(rule)>>
  OBVIOUS
<1>2. lr \in Lists /\ lf \in Lists /\ Lists \in SUBSET Lists
  BY <1>1 DEF Lists
<1>3. PICK s1 : s1 = AppendTo(s, lr, vr)
  OBVIOUS
<1>4. Spares(h, F, Lists, s1)
  BY <1>2, <1>3, SparesAppend
<1>5. Spares(h, F, Lists, AppendTo(s1, lf, vf))
  BY <1>2, <1>4, SparesAppend
<1>. QED
  BY <1>1, <1>3, <1>5 DEF AddRule

LEMMA RenameFilled ==
  ASSUME Inv, Full, Rename, Shaped(Target)
  PROVE  Full'
<1>1. Parsing /\ Item.op = "rename" /\ NextItem
  BY DEF Rename, Option, Becomes
<1>2. PICK h, t, o, p : h = heap /\ t = Target /\ o = Item /\ p = ParsedOf(prog, at, Item.into)
  OBVIOUS
<1>3. PICK q : q = Append(p, o)
  OBVIOUS
<1>4. Added(q, p, o, Len(p)) /\ Upon(o, p) /\ Sound(h, t) /\ Follows(h, t, p) /\ o.op = "rename"
  BY <1>1, <1>2, <1>3, HandIs
<1>5. PICK st, F : st = State(h, t) /\ F = Held(Item.into)
  OBVIOUS
<1>6. st.heap = h /\ st.cfg = t /\ Tidy(st) /\ Filled(st, p)
  BY <1>4, <1>5 DEF State, Sound, Follows, Filled
<1>7. PICK new : new = AddRule(AddRule(st, "x", o.x), "y", o.y)
  OBVIOUS
<1>8. Tidy(new) /\ SameRest(st.cfg, new.cfg) /\ Filled(new, q)
  BY <1>4, <1>6, <1>7, RenamedFills
<1>9. PICK c : c = new.cfg
  OBVIOUS
<1>10. Shaped(c) /\ SameInherited(t, c) /\ SamePaths(t, c)
  BY <1>2, <1>6, <1>8, <1>9, Fields DEF SameRest, Shaped, SameInherited, SameAffixes, SamePaths
<1>11. Item.op \notin Inherited /\ Item.op \notin Paths
  BY <1>1 DEF Inherited, Paths
<1>12. RestFilled(c, q)
  BY <1>1, <1>2, <1>3, <1>10, <1>11, OtherRest
<1>13. /\ at.phase = "module" => NoPaths(c)
       /\ at.phase = "injector" => Owned(c, Append(OwnOf(prog, at), Item))
  BY <1>1, <1>2, <1>10, <1>11, OtherPaths
<1>14. Sound(new.heap, c)
  <2>1. IsState(new) /\ Tidy(new)
    BY <1>8 DEF Tidy
  <2>2. Tidy(State(new.heap, c))
    BY <1>9, <2>1 DEF Tidy, IsState, State
  <2>. QED
    BY <1>10, <2>2 DEF Sound
<1>15. FilledBy(new)
  BY <1>2, <1>3, <1>8, <1>9, <1>12, <1>13, <1>14 DEF FilledBy, Follows, Filled
<1>16. Spares(heap, Held(Item.into), Lists, new)
  <2>1. Spares(h, F, Lists, st) /\ F \in SUBSET (1 .. Len(h)) /\ IsSeq(h)
    BY <1>1, <1>2, <1>5, HeldSpares, HeldHeap DEF Full
  <2>2. PICK sx, sy : sx = "x" /\ sy = "y"
    OBVIOUS
  <2>3. sx \in Sides /\ sy \in Sides
    BY <2>2 DEF Sides
  <2>4. PICK s1 : s1 = AddRule(st, sx, o.x)
    OBVIOUS
  <2>5. Spares(h, F, Lists, s1)
    BY <2>1, <2>3, <2>4, SparesAddRule
  <2>6. Spares(h, F, Lists, AddRule(s1, sy, o.y))
    BY <2>1, <2>3, <2>5, SparesAddRule
  <2>. QED
    BY <1>2, <1>5, <1>7, <2>2, <2>4, <2>6
<1>17. Becomes(new)
  BY <1>2, <1>5, <1>7 DEF Rename
<1>18. Gives(new)
  BY <1>1, <1>17, BecomesGives DEF Full
<1>. QED
  BY <1>1, <1>15, <1>16, <1>18, OptionFilled

LEMMA RenameResetFilled ==
  ASSUME Inv, Full, RenameReset, Shaped(Target)
  PROVE  Full'
<1>1. PICK h, t, o, p : h = heap /\ t = Target /\ o = Item /\ p = ParsedOf(prog, at, Item.into)
  OBVIOUS
<1>2. PICK lists : lists = [l \in Lists |-> IF o[l[2]] THEN NilSlice ELSE t.lists[l]]
  OBVIOUS
<1>3. PICK c : c = [t EXCEPT !.lists = lists]
  OBVIOUS
<1>4. Parsing /\ Item.op = "renameReset" /\ Sets(c)
  <2>1. lists = Cleared(t.lists)
    BY <1>1, <1>2 DEF Cleared
  <2>. QED
    BY <1>1, <1>3, <2>1 DEF RenameReset, Option
<1>5. /\ DOMAIN c = DOMAIN t /\ SamePaths(t, c) /\ SameInherited(t, c)
      /\ "lists" \in DOMAIN c /\ c.lists = lists
  BY <1>1, <1>3, Fields DEF SamePaths, SameInherited, SameAffixes
<1>6. Gives(State(heap, c)) /\ Shaped(c) /\ NextItem
  <2>1. SetsFrom(t, c)
    BY <1>1, <1>4, <1>5 DEF SetsFrom
  <2>. QED
    BY <1>4, <2>1, SetsGives
<1>7. PICK q : q = Append(p, o)
  OBVIOUS
<1>8. Added(q, p, o, Len(p)) /\ Upon(o, p) /\ Sound(h, t) /\ Follows(h, t, p) /\ o.op = "renameReset"
  BY <1>1, <1>4, <1>6, <1>7, HandIs
<1>9. /\ DOMAIN c.lists = Lists
      /\ \A l \in Lists : c.lists[l] = IF o[l[2]] THEN NilSlice ELSE t.lists[l]
  BY <1>2, <1>5
<1>10. RulesFilled(h, t, p)
  BY <1>8 DEF Follows
<1>11. RulesFilled(h, c, q)
  BY <1>8, <1>9, <1>10, RulesReset
<1>12. Item.op \notin Inherited /\ Item.op \notin Paths
  BY <1>4 DEF Inherited, Paths
<1>13. RestFilled(c, q)
  BY <1>1, <1>4, <1>5, <1>6, <1>7, <1>12, OtherRest
<1>14. /\ at.phase = "module" => NoPaths(c)
       /\ at.phase = "injector" => Owned(c, Append(OwnOf(prog, at), Item))
  BY <1>1, <1>4, <1>5, <1>6, <1>12, OtherPaths
<1>15. PICK old, st, F : old = State(h, t) /\ st = State(h, c) /\ F = Held(Item.into)
  OBVIOUS
<1>16. old.heap = h /\ old.cfg = t /\ st.heap = h /\ st.cfg = c
  BY <1>15 DEF State
<1>17. \A l \in Lists : c.lists[l] = NilSlice \/ c.lists[l] = old.cfg.lists[l]
  BY <1>9, <1>16
<1>18. Sound(h, c)
  <2>1. Tidy(old)
    BY <1>8, <1>15 DEF Sound
  <2>2. Tidy(State(old.heap, c))
    BY <1>5, <1>9, <1>17, <2>1, EmptiedTidy
  <2>. QED
    BY <1>6, <1>16, <2>2 DEF Sound
<1>19. FilledBy(st)
  BY <1>1, <1>7, <1>11, <1>13, <1>14, <1>16, <1>18 DEF FilledBy, Follows
<1>20. Spares(h, F, Lists, st)
  <2>1. Spares(h, F, Lists, old) /\ F \in SUBSET (1 .. Len(h)) /\ Len(h) \in Nat
    BY <1>1, <1>4, <1>15, HeldSpares, HeldHeap DEF Full
  <2>2. \A l \in Lists : c.lists[l].arr \notin F
    BY <1>17, <2>1 DEF Spares, NilSlice
  <2>3. IsState(st)
    BY <1>15, <1>18 DEF Sound, Tidy
  <2>. QED
    BY <1>16, <2>1, <2>2, <2>3 DEF Spares
<1>21. Gives(st) /\ Spares(heap, Held(Item.into), Lists, st)
  BY <1>1, <1>6, <1>15, <1>20
<1>. QED
  BY <1>4, <1>19, <1>21, OptionFilled

-----------------------------------------------------------------------------
(* What has no qualifier yet has no options yet. *)
LEMMA Unqualified ==
  ASSUME Inv, at.phase = "module", NEW kind \in Kinds, kind \notin DOMAIN fors
  PROVE  Part(prog.modules[at.n], at.i, kind) = <<>>
<1>1. PICK opts, i : opts = prog.modules[at.n] /\ i = at.i
  OBVIOUS
<1>2. at.n \in DOMAIN prog.modules /\ i \in Nat
  BY <1>1, ProgramsAre DEF Inv, Placed
<1>3. IsList(opts) /\ Qualified(opts)
  BY <1>1, <1>2, ProgramsAssumption DEF Inv, Placed
<1>4. kind # Nil
  BY KindsAssumption
<1>5. ASSUME NEW k \in DOMAIN opts, k < i, opts[k].into = kind
      PROVE  FALSE
  <2>1. k \in Nat /\ DOMAIN opts = 1 .. Len(opts) /\ Len(opts) \in Nat
    BY <1>3 DEF IsList
  <2>2. PICK j \in 1 .. k - 1 : opts[j].op = "for" /\ opts[j].kind = kind
    BY <1>3, <1>4, <1>5 DEF Qualified
  <2>3. j \in 1 .. i - 1 /\ j \in DOMAIN opts
    BY <1>2, <1>5, <2>1
  <2>4. kind \in DOMAIN fors
    BY <1>1, <2>2, <2>3 DEF Inv, Placed
  <2>. QED
    BY <2>4
<1>6. {k \in DOMAIN opts : k < i /\ opts[k].into = kind} = {}
  BY <1>5
<1>. QED
  BY <1>1, <1>6, PickedNone DEF Part

LEMMA QualifierFilled ==
  ASSUME Inv, Full, Qualifier
  PROVE  Full'
<1>1. /\ Parsing /\ Item.op = "for" /\ NextItem /\ UNCHANGED <<prog, heap, cfg, mods, injs, subs>>
      /\ fors' = [kind \in DOMAIN fors \cup {Item.kind} |->
                    IF kind \in DOMAIN fors THEN fors[kind] ELSE EmptyConfig]
  BY DEF Qualifier, Option
<1>2. PICK new : new = Item.kind
  OBVIOUS
<1>3. at.phase = "module" /\ at.i # 0
  BY <1>1, Permitted
<1>4. Item.into = Nil /\ new \in Kinds
  <2>1. at.n \in DOMAIN prog.modules /\ at.i \in DOMAIN prog.modules[at.n] /\ Item = prog.modules[at.n][at.i]
    BY <1>1, <1>3, Permitted
  <2>2. (Item.op \in Everywhere \/ Item.into = Nil) /\ (Item.op = "for" => Item.kind \in Kinds)
    BY <2>1, OptionsAssumption DEF Inv, Placed
  <2>. QED
    BY <1>1, <1>2, <2>2 DEF Everywhere
<1>5. Nil \notin Kinds /\ DOMAIN fors \subseteq Kinds
  BY KindsAssumption DEF Full, Phases
<1>6. at'.phase = "module" /\ at'.n = at.n /\ at'.i = at.i + 1 /\ at.i \in Nat
  BY <1>1, <1>3 DEF NextItem, Inv, Placed
<1>7. DOMAIN fors' = DOMAIN fors \cup {new} /\ SlotsOf(fors') = SlotsOf(fors) \cup {new}
  BY <1>1, <1>2 DEF SlotsOf
<1>8. ASSUME NEW s \in SlotsOf(fors)
      PROVE  AtOf(cfg', fors', s) = AtOf(cfg, fors, s)
  BY <1>1, <1>5, <1>8 DEF SlotsOf, AtOf
<1>9. new \notin SlotsOf(fors) => AtOf(cfg', fors', new) = EmptyConfig
  BY <1>1, <1>2, <1>4, <1>5 DEF SlotsOf, AtOf
<1>10. Phases'
  BY <1>1, <1>4, <1>5, <1>6, <1>7 DEF Full, Phases
<1>11. IsSeq(heap) /\ Len(heap) \in Nat
  BY HeapLen DEF Inv, Kept
<1>12. Done' /\ \A c \in Finished' : Sound(heap', c)
  BY <1>1, <1>11, NothingDone DEF Full
<1>13. Sounds'
  <2>1. ASSUME NEW s \in SlotsOf(fors')
        PROVE  Sound(heap, AtOf(cfg', fors', s))
    <3>1. CASE s \in SlotsOf(fors)
      BY <1>8, <3>1 DEF Full, Sounds
    <3>2. CASE s \notin SlotsOf(fors)
      <4>1. AtOf(cfg', fors', s) = EmptyConfig
        BY <1>7, <1>9, <2>1, <3>2
      <4>2. Sound(heap, EmptyConfig)
        BY <1>11, EmptySound
      <4>. QED
        BY <4>1, <4>2
    <3>. QED
      BY <3>1, <3>2
  <2>. QED
    BY <1>1, <1>12, <2>1 DEF Sounds
<1>14. Private'
  <2>1. PICK e : e = EmptyConfig
    OBVIOUS
  <2>2. \A l \in Lists : e.lists[l].arr = 0
    BY <1>11, <2>1, EmptyHolds
  <2>3. \A c : Disjoint(c, e) /\ Disjoint(e, c)
    BY <2>2 DEF Disjoint
  <2>4. ASSUME NEW s \in SlotsOf(fors'), NEW t \in SlotsOf(fors'), s # t
        PROVE  Disjoint(AtOf(cfg', fors', s), AtOf(cfg', fors', t))
    <3>1. CASE s \in SlotsOf(fors) /\ t \in SlotsOf(fors)
      BY <1>8, <2>4, <3>1 DEF Full, Private
    <3>2. CASE s \notin SlotsOf(fors) \/ t \notin SlotsOf(fors)
      <4>1. AtOf(cfg', fors', s) = e \/ AtOf(cfg', fors', t) = e
        BY <1>7, <1>9, <2>1, <2>4, <3>2
      <4>. QED
        BY <2>3, <4>1
    <3>. QED
      BY <3>1, <3>2
  <2>. QED
    BY <2>4 DEF Private
<1>15. InHand'
  <2>1. PICK h, t, o, p : h = heap /\ t = cfg /\ o = Item /\ p = ParsedOf(prog, at, Nil)
    OBVIOUS
  <2>2. PICK q : q = Append(p, o)
    OBVIOUS
  <2>3. Added(q, p, o, Len(p)) /\ Upon(o, p) /\ Follows(h, t, p)
    BY <1>1, <1>4, <2>1, <2>2, HandIs DEF Target
  <2>4. /\ ParsedOf(prog, at', Nil) = q
        /\ \A s : s # Nil => ParsedOf(prog, at', s) = ParsedOf(prog, at, s)
    BY <1>1, <1>3, <1>4, <2>1, <2>2, ParsedNextInModule
  <2>5. Follows(h, t, q)
    <3>1. o.op = "for" /\ RulesFilled(h, t, p) /\ SameRules(t, t)
      BY <1>1, <2>1, <2>3 DEF Follows, SameRules
    <3>2. RulesFilled(h, t, q)
      BY <2>3, <3>1, RulesGoOn
    <3>3. RestFilled(t, q)
      BY <1>1, <1>4, <2>1, <2>2, OtherRest DEF Inherited, SameInherited, SameAffixes, Target
    <3>. QED
      BY <3>2, <3>3 DEF Follows
  <2>6. Filling /\ Full
    BY <1>1, TargetOpened
  <2>7. ASSUME NEW s \in SlotsOf(fors')
        PROVE  Follows(heap, AtOf(cfg', fors', s), ParsedOf(prog, at', s)) /\ NoPaths(AtOf(cfg', fors', s))
    <3>1. CASE s = Nil
      <4>1. AtOf(cfg', fors', s) = t
        BY <1>1, <2>1, <3>1 DEF AtOf
      <4>2. NoPaths(t)
        BY <1>3, <2>1, <2>6 DEF Full, InHand, SlotsOf, AtOf
      <4>. QED
        BY <2>1, <2>4, <2>5, <3>1, <4>1, <4>2
    <3>2. CASE s # Nil /\ s \in SlotsOf(fors)
      <4>1. /\ Follows(heap, AtOf(cfg, fors, s), ParsedOf(prog, at, s))
            /\ NoPaths(AtOf(cfg, fors, s))
        BY <1>3, <2>6, <3>2 DEF Full, InHand
      <4>. QED
        BY <1>8, <2>4, <3>2, <4>1
    <3>3. CASE s \notin SlotsOf(fors)
      <4>1. s = new /\ s # Nil /\ s \notin DOMAIN fors /\ AtOf(cfg', fors', s) = EmptyConfig
        BY <1>7, <1>9, <2>7, <3>3 DEF SlotsOf
      <4>2. Part(prog.modules[at.n], at.i, s) = <<>>
        BY <1>3, <1>4, <4>1, Unqualified
      <4>3. ParsedOf(prog, at', s) = <<>>
        BY <1>3, <2>4, <4>1, <4>2 DEF ParsedOf
      <4>4. Follows(heap, EmptyConfig, <<>>) /\ NoPaths(EmptyConfig)
        BY <1>11, EmptyFollows, EmptyPaths
      <4>. QED
        BY <4>1, <4>3, <4>4
    <3>. QED
      BY <3>1, <3>2, <3>3
  <2>. QED
    BY <1>1, <1>6, <2>7 DEF InHand
<1>. QED
  BY <1>10, <1>12, <1>13, <1>14, <1>15 DEF Full

-----------------------------------------------------------------------------
(* Modules and directives *)
LEMMA BeginModuleFilled ==
  ASSUME Inv, Full, BeginModule
  PROVE  Full'
<1>1. /\ at.phase = "module" /\ at.i = 0 /\ cfg' = EmptyConfig /\ fors' = NoFors /\ NextItem
      /\ UNCHANGED <<prog, heap, mods, injs, subs>>
  BY DEF BeginModule
<1>2. at'.phase = "module" /\ at'.n = at.n /\ at'.i = 1
  BY <1>1 DEF NextItem, Inv, Placed
<1>3. DOMAIN fors' = {} /\ SlotsOf(fors') = {Nil} /\ AtOf(cfg', fors', Nil) = EmptyConfig
  BY <1>1 DEF NoFors, SlotsOf, AtOf
<1>4. IsSeq(heap) /\ Len(heap) \in Nat
  BY HeapLen DEF Inv, Kept
<1>5. PICK opts : opts = prog.modules[at.n]
  OBVIOUS
<1>6. IsList(opts)
  BY <1>1, <1>5, ProgramsAre, ProgramsAssumption DEF Inv, Placed
<1>7. ParsedOf(prog, at', Nil) = <<>>
  <2>1. ParsedOf(prog, at', Nil) = Part(opts, 1, Nil)
    BY <1>2, <1>5 DEF ParsedOf
  <2>. QED
    BY <1>6, <2>1, PartNone
<1>8. Phases'
  BY <1>1, <1>2, <1>3 DEF Full, Phases
<1>9. Done' /\ \A c \in Finished' : Sound(heap', c)
  BY <1>1, <1>4, NothingDone DEF Full
<1>10. Sounds'
  BY <1>1, <1>3, <1>4, <1>9, EmptySound DEF Sounds
<1>11. Private'
  BY <1>3 DEF Private
<1>12. InHand'
  BY <1>1, <1>2, <1>3, <1>4, <1>7, EmptyFollows, EmptyPaths DEF InHand
<1>. QED
  BY <1>8, <1>9, <1>10, <1>11, <1>12 DEF Full

(* A module whose options have all been parsed. *)
LEMMA ModuleHoldsAll ==
  ASSUME Inv, Full, at.phase = "module", at.i = Len(Items) + 1,
         NEW mod, mod.cfg = cfg, mod.fors = fors
  PROVE  HoldsAll(heap, mod, prog.modules[at.n])
<1>1. PICK opts : opts = prog.modules[at.n]
  OBVIOUS
<1>2. IsList(opts) /\ Items = opts
  BY <1>1, ProgramsAre, ProgramsAssumption DEF Inv, Placed, Items
<1>3. Len(opts) \in Nat /\ at.i = Len(opts) + 1 /\ at.i # 0
  BY <1>2 DEF IsList
<1>4. Filling
  BY <1>3 DEF Filling
<1>5. \A s : Part(opts, at.i, s) = Given(opts, s)
  BY <1>2, <1>3, PartAll
<1>6. \A s : ParsedOf(prog, at, s) = Given(opts, s)
  BY <1>1, <1>5 DEF ParsedOf
<1>7. \A s \in SlotsOf(fors) : /\ Follows(heap, AtOf(cfg, fors, s), Given(opts, s))
                               /\ NoPaths(AtOf(cfg, fors, s))
  BY <1>4, <1>6 DEF Full, InHand
<1>8. Follows(heap, mod.cfg, Given(opts, Nil)) /\ NoPaths(mod.cfg)
  BY <1>7 DEF SlotsOf, AtOf
<1>9. ASSUME NEW kind \in Kinds
      PROVE  Follows(heap, Heir(kind, mod), Given(opts, kind)) /\ NoPaths(Heir(kind, mod))
  <2>1. CASE kind \in DOMAIN fors
    <3>1. kind # Nil /\ kind \in SlotsOf(fors)
      BY <2>1, KindsAssumption DEF SlotsOf
    <3>2. Heir(kind, mod) = AtOf(cfg, fors, kind)
      BY <2>1, <3>1 DEF Heir, AtOf
    <3>. QED
      BY <1>7, <3>1, <3>2
  <2>2. CASE kind \notin DOMAIN fors
    <3>1. Given(opts, kind) = <<>>
      BY <1>1, <1>5, <2>2, Unqualified
    <3>2. Heir(kind, mod) = EmptyConfig
      BY <2>2 DEF Heir
    <3>3. Follows(heap, EmptyConfig, <<>>) /\ NoPaths(EmptyConfig)
      BY EmptyFollows, EmptyPaths DEF Inv, Kept
    <3>. QED
      BY <3>1, <3>2, <3>3
  <2>. QED
    BY <2>1, <2>2
<1>10. DOMAIN mod.fors \subseteq Kinds
  BY DEF Full, Phases
<1>. QED
  BY <1>1, <1>8, <1>9, <1>10 DEF HoldsAll

LEMMA EndModuleFilled ==
  ASSUME Inv, Full, EndModule
  PROVE  Full'
<1>1. PICK n, m, D : /\ n = at.n /\ D = DOMAIN mods
                     /\ m = [cfg |-> cfg, fors |-> fors, known |-> {cfg.funcs[k].pair : k \in DOMAIN cfg.funcs}]
  OBVIOUS
<1>2. /\ at.phase = "module" /\ at.i = Len(Items) + 1
      /\ mods' = [j \in D \cup {n} |-> IF j = n THEN m ELSE mods[j]]
      /\ UNCHANGED <<prog, heap, cfg, fors, injs, subs>>
  BY <1>1 DEF EndModule
<1>3. /\ DOMAIN mods' = D \cup {n} /\ n \notin D
      /\ \A j \in D : mods'[j] = mods[j]
      /\ mods'[n] = m
  BY <1>1, <1>2 DEF Inv, Placed
<1>4. Configs(m) = Opened
  BY <1>1 DEF Configs, Opened
<1>5. Finished' \subseteq Finished \cup Opened
  <2>1. /\ DOMAIN mods' = DOMAIN mods \cup {n}
        /\ \A j \in DOMAIN mods : mods'[j] = mods[j]
        /\ mods'[n] = m
    BY <1>1, <1>3
  <2>. QED
    BY <1>2, <2>1, <1>4 DEF Finished
<1>6. at'.phase \in {"module", "injector"} /\ at'.n \in Nat /\ at'.i = 0
  <2>1. Placed' /\ ~Filling'
    BY ModuleEnded DEF Inv
  <2>2. at'.phase \in {"module", "injector"} /\ at'.i = 0
    <3>1. PICK a, b, o : a = at /\ b = at' /\ o = Owner(n)
      OBVIOUS
    <3>2. b = IF n < prog.declared THEN [a EXCEPT !.n = @ + 1, !.i = 0]
              ELSE [phase |-> "injector", n |-> IF n = prog.declared THEN 1 ELSE o, i |-> 0]
      BY <1>1, <3>1 DEF EndModule
    <3>3. a = [phase |-> a.phase, n |-> a.n, i |-> a.i] /\ a.phase = "module"
      BY <1>2, <3>1 DEF Inv, Placed
    <3>4. CASE n < prog.declared
      <4>1. b = [a EXCEPT !.n = @ + 1, !.i = 0]
        BY <3>2, <3>4
      <4>. QED
        BY <3>1, <3>3, <4>1
    <3>5. CASE ~(n < prog.declared)
      BY <3>1, <3>2, <3>5
    <3>. QED
      BY <3>4, <3>5
  <2>3. at'.n \in Nat
    <3>1. PICK b, pg, E : b = at' /\ pg = prog' /\ E = DOMAIN mods'
      OBVIOUS
    <3>2. /\ pg \in Programs /\ b.phase \in {"module", "injector"}
          /\ b.phase = "module" => b.n \in DOMAIN pg.modules
          /\ b.phase = "injector" => b.n \in 1 .. Len(pg.directives)
      BY <2>1, <2>2, <3>1 DEF Placed
    <3>3. DOMAIN pg.modules = 1 .. Len(pg.modules)
      BY <3>2, InlinesAre
    <3>4. b.n \in Nat
      BY <3>2, <3>3
    <3>. QED
      BY <3>1, <3>4
  <2>. QED
    BY <2>2, <2>3
<1>7. Phases' /\ InHand'
  BY <1>2, <1>6 DEF Full, Phases, InHand, Filling
<1>8. Sounds'
  <2>1. \A c \in Opened : Sound(heap, c)
    BY KindsAssumption DEF Opened, Full, Phases, Sounds, SlotsOf, AtOf
  <2>. QED
    BY <1>2, <1>5, <2>1 DEF Full, Sounds
<1>9. Private'
  BY <1>2 DEF Full, Private
<1>10. ModsFilled'
  <2>1. HoldsAll(heap, m, prog.modules[n])
    BY <1>1, <1>2, ModuleHoldsAll
  <2>2. ASSUME NEW j \in DOMAIN mods'
        PROVE  HoldsAll(heap, mods'[j], prog.modules[j])
    <3>1. CASE j \in D
      BY <1>1, <1>3, <3>1 DEF Full, Done, ModsFilled
    <3>2. CASE j = n
      BY <1>3, <2>1, <3>2
    <3>. QED
      BY <1>3, <2>2, <3>1, <3>2
  <2>. QED
    BY <1>2, <2>2 DEF ModsFilled
<1>11. InjsFilled' /\ SubsFilled'
  BY <1>2 DEF Full, Done, InjsFilled, SubsFilled
<1>. QED
  BY <1>7, <1>8, <1>9, <1>10, <1>11 DEF Full, Done

LEMMA NextDirectiveIs ==
  ASSUME Inv, at.phase = "injector", NEW reported, NextDirective(reported)
  PROVE  at'.phase \in {"injector", "build", "done"} /\ at'.n \in Nat /\ at'.i = 0
<1>1. at = [phase |-> at.phase, n |-> at.n, i |-> at.i] /\ at.n \in Nat
  BY ProgramsAre DEF Inv, Placed
<1>. QED
  BY <1>1 DEF NextDirective

(* A step on to another module or directive. *)
LEMMA IdleFilled ==
  ASSUME Inv, Full, UNCHANGED <<prog, heap, cfg, fors, mods, injs, subs>>,
         at'.phase \in {"module", "injector", "build", "done"}, at'.n \in Nat, at'.i = 0
  PROVE  Full'
<1>1. Phases' /\ InHand'
  BY DEF Full, Phases, InHand, Filling
<1>2. Sounds' /\ Private'
  BY DEF Full, Sounds, Private, Finished, Configs
<1>3. Done'
  BY DEF Full, Done, ModsFilled, InjsFilled, SubsFilled
<1>. QED
  BY <1>1, <1>2, <1>3 DEF Full

LEMMA SkipInjectorFilled ==
  ASSUME Inv, Full, SkipInjector
  PROVE  Full'
<1>1. PICK reported : reported = errs'
  OBVIOUS
<1>2. /\ at.phase = "injector" /\ NextDirective(reported)
      /\ UNCHANGED <<prog, heap, cfg, fors, mods, injs, subs>>
  BY <1>1 DEF SkipInjector
<1>. QED
  BY <1>2, NextDirectiveIs, IdleFilled

LEMMA AbandonInjectorFilled ==
  ASSUME Inv, Full, AbandonInjector
  PROVE  Full'
<1>1. PICK reported : reported = errs
  OBVIOUS
<1>2. /\ at.phase = "injector" /\ NextDirective(reported)
      /\ UNCHANGED <<prog, heap, cfg, fors, mods, injs, subs>>
  BY <1>1 DEF AbandonInjector, ToParse
<1>. QED
  BY <1>2, NextDirectiveIs, IdleFilled

LEMMA BeginInlineFilled ==
  ASSUME Inv, Full, BeginInline
  PROVE  Full'
<1>1. PICK m : m = Directive.mod
  OBVIOUS
<1>2. /\ at.phase = "injector" /\ at' = [phase |-> "module", n |-> m, i |-> 0]
      /\ UNCHANGED <<prog, heap, cfg, fors, mods, injs, subs>>
  BY <1>1 DEF BeginInline, ToParse
<1>3. m \in Nat
  BY <1>1, <1>2, ProgramsAre, ProgramsAssumption DEF Inv, Placed, Directive
<1>. QED
  BY <1>2, <1>3, IdleFilled

-----------------------------------------------------------------------------
(* What is forked for a directive: its module, with what that has for a      *)
(* kind.                                                                     *)
Heritage(mod, kind, a, b) ==
  /\ Sound(heap, mod.cfg) /\ Follows(heap, mod.cfg, a) /\ NoPaths(mod.cfg)
  /\ Sound(heap, Heir(kind, mod)) /\ Follows(heap, Heir(kind, mod), b) /\ NoPaths(Heir(kind, mod))
  /\ Halves(a, b) /\ Affixed(b)

LEMMA NoHeritage ==
  ASSUME IsSeq(heap), NEW kind
  PROVE  Heritage(NilModule, kind, <<>>, <<>>)
<1>1. NilModule.cfg = EmptyConfig /\ Heir(kind, NilModule) = EmptyConfig
  BY DEF NilModule, NoFors, Heir
<1>2. Sound(heap, EmptyConfig) /\ Follows(heap, EmptyConfig, <<>>) /\ NoPaths(EmptyConfig)
  BY EmptySound, EmptyFollows, EmptyPaths
<1>3. Halves(<<>>, <<>>) /\ Affixed(<<>>)
  BY NoneIsSeq DEF Halves, Affixed
<1>. QED
  BY <1>1, <1>2, <1>3 DEF Heritage

LEMMA ModuleHeritage ==
  ASSUME Inv, Full, NEW m \in DOMAIN mods, m \in DOMAIN prog.modules, NEW kind \in Kinds
  PROVE  Heritage(mods[m], kind, Given(prog.modules[m], Nil), Given(prog.modules[m], kind))
<1>1. PICK mod, opts : mod = mods[m] /\ opts = prog.modules[m]
  OBVIOUS
<1>2. PICK a, b : a = Given(opts, Nil) /\ b = Given(opts, kind)
  OBVIOUS
<1>3. IsList(opts) /\ kind # Nil
  BY <1>1, ProgramsAssumption, KindsAssumption DEF Inv, Placed
<1>4. Halves(a, b)
  BY <1>2, <1>3, GivenHalves
<1>5. HoldsAll(heap, mod, opts)
  BY <1>1 DEF Full, Done, ModsFilled
<1>6. /\ Follows(heap, mod.cfg, a) /\ NoPaths(mod.cfg)
      /\ Follows(heap, Heir(kind, mod), b) /\ NoPaths(Heir(kind, mod))
  BY <1>2, <1>5 DEF HoldsAll
<1>7. Sound(heap, mod.cfg) /\ Sound(heap, Heir(kind, mod))
  <2>1. mod.cfg \in Finished /\ \A k \in DOMAIN mod.fors : mod.fors[k] \in Finished
    BY <1>1 DEF Finished, Configs
  <2>2. Sound(heap, EmptyConfig)
    BY EmptySound DEF Inv, Kept
  <2>. QED
    BY <2>1, <2>2 DEF Full, Sounds, Heir
<1>8. Affixed(b)
  <2>1. IsSeq(opts) /\ DOMAIN opts = 1 .. Len(opts)
    BY <1>3, ListIs
  <2>2. {k \in DOMAIN opts : opts[k].into = kind} \subseteq DOMAIN opts
    OBVIOUS
  <2>3. PICK S : S = {k \in DOMAIN opts : opts[k].into = kind}
    OBVIOUS
  <2>4. b = Picked(opts, S) /\ S \subseteq DOMAIN opts
    BY <1>2, <2>3 DEF Given
  <2>5. IsSeq(b) /\ \A k \in 1 .. Len(b) : \E i \in S : b[k] = opts[i]
    BY <2>1, <2>4, PickedOfSeq
  <2>6. \A k \in 1 .. Len(b) : b[k].op \in {"getters", "setters"} => b[k].affix # Nil
    <3>1. \A i \in DOMAIN opts : opts[i].op \in {"getters", "setters"} => opts[i].affix # Nil
      BY <1>1, OptionsAssumption DEF Inv, Placed
    <3>. QED
      BY <2>4, <2>5, <3>1
  <2>7. DOMAIN b = 1 .. Len(b)
    BY <2>5, SeqIs
  <2>. QED
    BY <2>6, <2>7 DEF Affixed
<1>. QED
  BY <1>1, <1>2, <1>4, <1>6, <1>7, <1>8 DEF Heritage

LEMMA HeritageForks ==
  ASSUME NEW mod, NEW kind, NEW a, NEW b, Heritage(mod, kind, a, b)
  PROVE  LET st == ForkFor(kind, mod)
         IN  Sound(st.heap, st.cfg) /\ NoPaths(st.cfg) /\ Follows(st.heap, st.cfg, a \o b)
<1>1. PICK st, c, d : st = ForkFor(kind, mod) /\ c = mod.cfg /\ d = Heir(kind, mod)
  OBVIOUS
<1>2. /\ Sound(heap, c) /\ Follows(heap, c, a) /\ Sound(heap, d) /\ Follows(heap, d, b)
      /\ Halves(a, b) /\ Affixed(b)
  BY <1>1 DEF Heritage
<1>3. IsSeq(a)
  BY <1>2 DEF Halves
<1>4. IsSeq(mod.cfg.errWraps)
  BY <1>1, <1>2, <1>3, WrapsIsSeq DEF Follows, RestFilled
<1>5. Inherits(st, c, d)
  BY <1>1, <1>4, ForkForInherits DEF Heritage
<1>6. Follows(st.heap, st.cfg, a \o b)
  BY <1>2, <1>5, InheritsFollows
<1>7. Tidy(st) /\ Shaped(st.cfg) /\ NoPaths(st.cfg)
  BY <1>5 DEF Inherits
<1>8. Tidy(State(st.heap, st.cfg))
  BY <1>7 DEF Tidy, IsState, State
<1>. QED
  BY <1>1, <1>6, <1>7, <1>8 DEF Sound

LEMMA ForkForFilled ==
  ASSUME Inv, Full, Directive.mod \in Modules, NEW kind \in Kinds,
         NEW st, st = ForkFor(kind, ModuleOf(Directive))
  PROVE  /\ Sound(st.heap, st.cfg) /\ NoPaths(st.cfg)
         /\ Follows(st.heap, st.cfg, Starts(prog, Directive.mod, kind))
<1>1. PICK m, mod : m = Directive.mod /\ mod = ModuleOf(Directive)
  OBVIOUS
<1>2. m \in {0} \cup DOMAIN mods /\ DOMAIN mods \subseteq DOMAIN prog.modules
  BY <1>1 DEF Modules, Inv, Placed
<1>3. \E a, b : Heritage(mod, kind, a, b) /\ Starts(prog, m, kind) = a \o b
  <2>1. CASE m = 0
    <3>1. mod = NilModule /\ Starts(prog, m, kind) = <<>>
      BY <1>1, <2>1 DEF ModuleOf, Starts
    <3>2. Heritage(NilModule, kind, <<>>, <<>>)
      BY NoHeritage DEF Inv, Kept
    <3>3. <<>> \o <<>> = <<>>
      BY NoneIsSeq, JoinedNone
    <3>. QED
      BY <3>1, <3>2, <3>3
  <2>2. CASE m # 0
    <3>1. mod = mods[m] /\ Starts(prog, m, kind) = Given(prog.modules[m], Nil) \o Given(prog.modules[m], kind)
      BY <1>1, <2>2 DEF ModuleOf, Starts
    <3>2. m \in DOMAIN mods /\ m \in DOMAIN prog.modules
      BY <1>2, <2>2
    <3>3. Heritage(mods[m], kind, Given(prog.modules[m], Nil), Given(prog.modules[m], kind))
      BY <3>2, ModuleHeritage
    <3>. QED
      BY <3>1, <3>3
  <2>. QED
    BY <2>1, <2>2
<1>4. PICK a, b : Heritage(mod, kind, a, b) /\ Starts(prog, m, kind) = a \o b
  BY <1>3
<1>5. PICK new : new = ForkFor(kind, mod)
  OBVIOUS
<1>6. Sound(new.heap, new.cfg) /\ NoPaths(new.cfg) /\ Follows(new.heap, new.cfg, a \o b)
  BY <1>4, <1>5, HeritageForks
<1>. QED
  BY <1>1, <1>4, <1>5, <1>6

(* A fork leaves what there was. *)
LEMMA ForkUnmoved ==
  ASSUME Inv, Full, Directive.mod \in Modules, NEW kind,
         heap' = ForkFor(kind, ModuleOf(Directive)).heap
  PROVE  /\ IsSeq(heap') /\ Len(heap') >= Len(heap) /\ \A j \in Protected : heap'[j] = heap[j]
         /\ \A s \in SlotsOf(fors) : Sound(heap', AtOf(cfg, fors, s))
<1>1. PICK h, g, F : h = heap /\ g = heap' /\ F = 1 .. Len(heap)
  OBVIOUS
<1>2. PICK mod : mod = ModuleOf(Directive)
  OBVIOUS
<1>3. IsSeq(heap) /\ Holds(mod.cfg, Len(heap)) /\ Len(heap) \in Nat
  BY <1>2, ModuleHeld, HeapLen DEF Inv, Kept
<1>4. Spares(heap, 1 .. Len(heap), Lists, ForkFor(kind, mod))
  BY <1>3, ForkForSpares
<1>5. IsSeq(g) /\ Len(g) >= Len(h) /\ \A j \in F : g[j] = h[j]
  BY <1>1, <1>2, <1>4 DEF Spares, IsState
<1>6. Protected \subseteq F
  BY <1>1, ProtectedHeap DEF Inv
<1>7. ASSUME NEW s \in SlotsOf(fors)
      PROVE  Sound(heap', AtOf(cfg, fors, s))
  <2>1. PICK c : c = AtOf(cfg, fors, s)
    OBVIOUS
  <2>2. Sound(h, c)
    BY <1>1, <2>1 DEF Full, Sounds
  <2>3. Holds(c, Len(heap))
    BY <2>1, SlotsOpened DEF Inv, Kept
  <2>4. \A l \in Lists : c.lists[l].arr # 0 => c.lists[l].arr \in F
    <3>1. PICK n \in Nat : n = Len(heap)
      BY <1>3
    <3>2. \A l \in Lists : c.lists[l].arr \in 0 .. n
      BY <2>3, <3>1 DEF Holds, IsSlice
    <3>3. F = 1 .. n
      BY <1>1, <3>1
    <3>. QED
      BY <3>1, <3>2, <3>3
  <2>5. Unmoved(h, g, c)
    BY <1>5, <2>2, <2>4, UnmovedIs
  <2>. QED
    BY <1>1, <2>1, <2>5 DEF Unmoved
<1>. QED
  BY <1>1, <1>5, <1>6, <1>7

LEMMA BeginInjectorFilled ==
  ASSUME Inv, Full, BeginInjector
  PROVE  Full'
<1>1. PICK d, kind : d = Directive /\ kind = Directive.kind
  OBVIOUS
<1>2. PICK st : st = ForkFor(kind, ModuleOf(Directive))
  OBVIOUS
<1>3. /\ at.phase = "injector" /\ at.i = 0 /\ NextItem /\ UNCHANGED <<prog, mods, injs, subs>>
      /\ heap' = st.heap /\ fors' = NoFors /\ Directive.mod \in Modules
      /\ cfg' = [st.cfg EXCEPT !.bySample.x = Own, !.bySample.y = Own]
  BY <1>1, <1>2 DEF BeginInjector, ToParse
<1>4. at'.phase = "injector" /\ at'.n = at.n /\ at'.i = 1
  BY <1>3 DEF NextItem, Inv, Placed
<1>5. /\ at.n \in DOMAIN prog.directives /\ d = prog.directives[at.n] /\ kind = d.kind
      /\ kind \in Kinds /\ IsList(d.opts)
  BY <1>1, <1>3, ProgramsAre, ProgramsAssumption DEF Inv, Placed, Directive
<1>6. /\ Sound(st.heap, st.cfg) /\ NoPaths(st.cfg)
      /\ Follows(st.heap, st.cfg, Starts(prog, d.mod, kind))
  BY <1>1, <1>2, <1>3, <1>5, ForkForFilled
<1>7. PICK c, new : c = st.cfg /\ new = cfg'
  OBVIOUS
<1>8. /\ DOMAIN new = DOMAIN c /\ SameRules(c, new) /\ SameInherited(c, new)
      /\ new.match = c.match /\ new.matchFuncs = c.matchFuncs /\ new.matchSkip = c.matchSkip
      /\ new.nested = c.nested /\ new.bySample = Off(Own, Own)
  <2>1. Shaped(c) /\ c.bySample = Off(Nil, Nil)
    BY <1>6, <1>7 DEF Sound, NoPaths
  <2>2. new = [c EXCEPT !.bySample.x = Own, !.bySample.y = Own]
    BY <1>3, <1>7
  <2>3. PICK mid : mid = [c EXCEPT !.bySample.x = Own]
    OBVIOUS
  <2>4. PICK b, f : b = c.bySample /\ f = FALSE
    OBVIOUS
  <2>5. "bySample" \in DOMAIN c /\ b = [on |-> f, x |-> Nil, y |-> Nil]
    BY <2>1, <2>4, Fields DEF Off
  <2>6. mid = [c EXCEPT !.bySample = [b EXCEPT !.x = Own]] /\ new = [mid EXCEPT !.bySample.y = Own]
    BY <2>2, <2>3, <2>4
  <2>7. "bySample" \in DOMAIN mid /\ mid.bySample = [on |-> f, x |-> Own, y |-> Nil]
    BY <2>5, <2>6
  <2>8. new.bySample = [on |-> f, x |-> Own, y |-> Own]
    BY <2>6, <2>7
  <2>9. new.bySample = Off(Own, Own)
    BY <2>4, <2>8 DEF Off
  <2>. QED
    BY <2>1, <2>2, <2>9, Fields DEF SameRules, SameInherited, SameAffixes
<1>9. Shaped(new)
  BY <1>6, <1>7, <1>8 DEF Sound, Shaped
<1>10. Sound(heap', new)
  BY <1>3, <1>6, <1>7, <1>8, <1>9, SoundSame
<1>11. Owned(new, <<>>)
  BY <1>6, <1>7, <1>8, OwnedNone
<1>12. Follows(heap', new, Starts(prog, d.mod, kind))
  BY <1>3, <1>6, <1>7, <1>8
     DEF Follows, RulesFilled, RestFilled, SameRules, SameInherited, SameAffixes
<1>13. OwnOf(prog, at') = <<>> /\ ParsedOf(prog, at', Nil) = Starts(prog, d.mod, kind)
  <2>1. PICK opts : opts = d.opts
    OBVIOUS
  <2>2. Part(opts, 1, Nil) = <<>>
    BY <1>5, <2>1, PartNone
  <2>3. OwnOf(prog, at') = <<>>
    BY <1>4, <1>5, <2>1, <2>2 DEF OwnOf
  <2>4. PICK base : base = Starts(prog, d.mod, kind)
    OBVIOUS
  <2>5. IsSeq(base)
    BY <1>5, <2>4, StartsIs DEF Inv
  <2>6. base \o <<>> = base
    BY <2>5, JoinedNone
  <2>7. ParsedOf(prog, at', Nil) = base \o OwnOf(prog, at')
    BY <1>4, <1>5, <2>4 DEF ParsedOf
  <2>. QED
    BY <2>3, <2>4, <2>6, <2>7
<1>14. DOMAIN fors' = {} /\ SlotsOf(fors') = {Nil} /\ AtOf(cfg', fors', Nil) = new
  BY <1>3, <1>7 DEF NoFors, SlotsOf, AtOf
<1>15. Phases'
  BY <1>3, <1>4, <1>14 DEF Full, Phases
<1>16. IsSeq(heap') /\ Len(heap') >= Len(heap) /\ \A j \in Protected : heap'[j] = heap[j]
  BY <1>2, <1>3, ForkUnmoved
<1>17. Done' /\ \A c1 \in Finished' : Sound(heap', c1)
  BY <1>3, <1>16, NothingDone DEF Full
<1>18. Sounds'
  BY <1>10, <1>14, <1>17 DEF Sounds
<1>19. Private'
  BY <1>14 DEF Private
<1>20. InHand'
  BY <1>3, <1>4, <1>7, <1>11, <1>12, <1>13, <1>14 DEF InHand
<1>. QED
  BY <1>15, <1>17, <1>18, <1>19, <1>20 DEF Full

(* A directive whose options have all been parsed. *)
LEMMA InjectorFilled ==
  ASSUME Inv, Full, at.phase = "injector", at.i = Len(Items) + 1, NEW e, e.n = at.n, e.cfg = cfg
  PROVE  InjFilled(prog, heap, e)
<1>1. PICK d, opts : d = prog.directives[at.n] /\ opts = prog.directives[at.n].opts
  OBVIOUS
<1>2. /\ IsList(opts) /\ Items = opts /\ \A i \in DOMAIN opts : opts[i].into = Nil
      /\ at.n \in DOMAIN prog.directives
  BY <1>1, ProgramsAre, ProgramsAssumption DEF Inv, Placed, Items
<1>3. Len(opts) \in Nat /\ at.i = Len(opts) + 1 /\ at.i # 0
  BY <1>2 DEF IsList
<1>4. Part(opts, at.i, Nil) = opts
  <2>1. Part(opts, Len(opts) + 1, Nil) = Given(opts, Nil)
    BY <1>2, PartAll
  <2>2. Given(opts, Nil) = opts
    BY <1>2, GivenOwn
  <2>. QED
    BY <1>3, <2>1, <2>2
<1>5. Filling
  BY <1>3 DEF Filling
<1>6. OwnOf(prog, at) = opts /\ ParsedOf(prog, at, Nil) = Starts(prog, d.mod, d.kind) \o opts
  BY <1>1, <1>4 DEF OwnOf, ParsedOf
<1>7. Follows(heap, cfg, ParsedOf(prog, at, Nil)) /\ Owned(cfg, OwnOf(prog, at))
  BY <1>5 DEF Full, InHand, SlotsOf, AtOf
<1>. QED
  BY <1>1, <1>2, <1>6, <1>7 DEF InjFilled

LEMMA EndInjectorFilled ==
  ASSUME Inv, Full, EndInjector
  PROVE  Full'
<1>1. PICK e : e = [n |-> at.n, cfg |-> cfg]
  OBVIOUS
<1>2. /\ at.phase = "injector" /\ at.i = Len(Items) + 1 /\ injs' = Append(injs, e)
      /\ NextDirective(errs') /\ UNCHANGED <<prog, heap, cfg, fors, subs>>
      /\ mods' = IF Directive.mod = 0 THEN mods
                 ELSE [mods EXCEPT ![Directive.mod].known = @ \cup {Directive.pair}]
  BY <1>1 DEF EndInjector
<1>3. /\ DOMAIN mods' = DOMAIN mods
      /\ \A m \in DOMAIN mods : mods'[m].cfg = mods[m].cfg /\ mods'[m].fors = mods[m].fors
  <2>1. \A m \in DOMAIN mods :
          mods[m] = [cfg |-> mods[m].cfg, fors |-> mods[m].fors, known |-> mods[m].known]
    BY DEF Inv, Kept
  <2>. QED
    BY <1>2, <2>1
<1>4. /\ DOMAIN injs = 1 .. Len(injs) /\ DOMAIN injs' = 1 .. Len(injs) + 1 /\ Len(injs) \in Nat
      /\ \A j \in DOMAIN injs : injs'[j] = injs[j]
      /\ injs'[Len(injs) + 1] = e
  BY <1>2, AppendList DEF Inv, Kept
<1>5. at'.phase \in {"injector", "build", "done"} /\ at'.n \in Nat /\ at'.i = 0
  BY <1>2, NextDirectiveIs
<1>6. Phases' /\ InHand'
  BY <1>2, <1>5 DEF Full, Phases, InHand, Filling
<1>7. Private'
  BY <1>2 DEF Full, Private
<1>8. Sounds'
  <2>1. ASSUME NEW c \in Finished'
        PROVE  c \in Finished \/ c = cfg
    <3>1. CASE \E m \in DOMAIN mods' : c \in Configs(mods'[m])
      BY <1>3, <3>1 DEF Finished, Configs
    <3>2. CASE \E k \in DOMAIN injs' : c = injs'[k].cfg
      <4>1. PICK k \in DOMAIN injs' : c = injs'[k].cfg
        BY <3>2
      <4>2. CASE k \in DOMAIN injs
        BY <1>4, <4>1, <4>2 DEF Finished
      <4>3. CASE k = Len(injs) + 1
        BY <1>1, <1>4, <4>1, <4>3
      <4>. QED
        BY <1>4, <4>1, <4>2, <4>3
    <3>3. CASE \E k \in DOMAIN subs' : c = subs'[k].cfg
      BY <1>2, <3>3 DEF Finished
    <3>. QED
      BY <2>1, <3>1, <3>2, <3>3 DEF Finished
  <2>2. Sound(heap, cfg)
    BY DEF Full, Sounds, SlotsOf, AtOf
  <2>. QED
    BY <1>2, <2>1, <2>2 DEF Full, Sounds
<1>9. ModsFilled'
  <2>1. ASSUME NEW m \in DOMAIN mods
        PROVE  HoldsAll(heap, mods'[m], prog.modules[m])
    <3>1. PICK old, new : old = mods[m] /\ new = mods'[m]
      OBVIOUS
    <3>2. new.cfg = old.cfg /\ new.fors = old.fors
      BY <1>3, <3>1
    <3>3. \A kind : Heir(kind, new) = Heir(kind, old)
      BY <3>2 DEF Heir
    <3>4. HoldsAll(heap, old, prog.modules[m])
      BY <3>1 DEF Full, Done, ModsFilled
    <3>5. HoldsAll(heap, new, prog.modules[m])
      BY <3>2, <3>3, <3>4 DEF HoldsAll
    <3>. QED
      BY <3>1, <3>5
  <2>. QED
    BY <1>2, <1>3, <2>1 DEF ModsFilled
<1>10. InjsFilled'
  <2>1. InjFilled(prog, heap, e)
    BY <1>1, <1>2, InjectorFilled
  <2>2. ASSUME NEW k \in DOMAIN injs'
        PROVE  InjFilled(prog, heap, injs'[k])
    <3>1. CASE k \in DOMAIN injs
      BY <1>4, <3>1 DEF Full, Done, InjsFilled
    <3>2. CASE k = Len(injs) + 1
      BY <1>4, <2>1, <3>2
    <3>. QED
      BY <1>4, <2>2, <3>1, <3>2
  <2>. QED
    BY <1>2, <2>2 DEF InjsFilled
<1>11. SubsFilled'
  BY <1>2 DEF Full, Done, SubsFilled
<1>. QED
  BY <1>6, <1>7, <1>8, <1>9, <1>10, <1>11 DEF Full, Done

LEMMA ForkForSubconvFilled ==
  ASSUME Inv, Full, ForkForSubconv
  PROVE  Full'
<1>1. PICK kind : kind = "struct"
  OBVIOUS
<1>2. PICK st : st = ForkFor(kind, ModuleOf(Directive))
  OBVIOUS
<1>3. PICK e : e = [n |-> at.n, cfg |-> st.cfg]
  OBVIOUS
<1>4. /\ at.phase = "build" /\ heap' = st.heap /\ subs' = Append(subs, e)
      /\ UNCHANGED <<prog, cfg, fors, mods, injs>>
      /\ at' = IF at.n < Len(prog.directives) THEN [at EXCEPT !.n = @ + 1]
               ELSE [at EXCEPT !.phase = "done"]
  BY <1>1, <1>2, <1>3 DEF ForkForSubconv
<1>5. at'.phase \in {"build", "done"} /\ at'.n \in Nat /\ at.n \in DOMAIN prog.directives
  BY <1>4, ProgramsAre DEF Inv, Placed
<1>6. kind \in Kinds
  BY <1>1 DEF Kinds
<1>7. /\ Sound(st.heap, st.cfg) /\ NoPaths(st.cfg)
      /\ Follows(st.heap, st.cfg, Starts(prog, Directive.mod, kind))
  BY <1>2, <1>4, <1>6, ForkForFilled, ModuleThere DEF Inv
<1>8. /\ IsSeq(heap') /\ Len(heap') >= Len(heap) /\ \A j \in Protected : heap'[j] = heap[j]
      /\ \A s \in SlotsOf(fors) : Sound(heap', AtOf(cfg, fors, s))
  BY <1>2, <1>4, ForkUnmoved, ModuleThere DEF Inv
<1>9. PICK g : g = heap'
  OBVIOUS
<1>10. \A c \in Finished : Unmoved(heap, g, c)
  BY <1>8, <1>9, FinishedUnmoved DEF Full
<1>11. /\ \A m \in DOMAIN mods : HoldsAll(g, mods[m], prog.modules[m])
       /\ \A k \in DOMAIN injs : InjFilled(prog, g, injs[k])
       /\ \A k \in DOMAIN subs : SubFilled(prog, g, subs[k])
  <2>1. IsSeq(g) /\ IsSeq(heap) /\ Done
    BY <1>8, <1>9 DEF Inv, Kept, Full
  <2>. QED
    BY <1>10, <2>1, DoneStays
<1>12. /\ DOMAIN subs = 1 .. Len(subs) /\ DOMAIN subs' = 1 .. Len(subs) + 1 /\ Len(subs) \in Nat
       /\ \A j \in DOMAIN subs : subs'[j] = subs[j]
       /\ subs'[Len(subs) + 1] = e
  BY <1>4, AppendList DEF Inv, Kept
<1>13. Phases' /\ InHand'
  BY <1>4, <1>5 DEF Full, Phases, InHand, Filling
<1>14. Private'
  BY <1>4 DEF Full, Private
<1>15. Sounds'
  <2>1. ASSUME NEW c \in Finished'
        PROVE  c \in Finished \/ c = st.cfg
    <3>1. CASE \E k \in DOMAIN subs' : c = subs'[k].cfg
      <4>1. PICK k \in DOMAIN subs' : c = subs'[k].cfg
        BY <3>1
      <4>2. CASE k \in DOMAIN subs
        BY <1>12, <4>1, <4>2 DEF Finished
      <4>3. CASE k = Len(subs) + 1
        BY <1>3, <1>12, <4>1, <4>3
      <4>. QED
        BY <1>12, <4>1, <4>2, <4>3
    <3>2. CASE c \in (UNION {Configs(mods[m]) : m \in DOMAIN mods}) \cup {injs[k].cfg : k \in DOMAIN injs}
      BY <3>2 DEF Finished
    <3>. QED
      BY <1>4, <2>1, <3>1, <3>2 DEF Finished
  <2>2. \A c \in Finished' : Sound(heap', c)
    BY <1>4, <1>7, <1>9, <1>10, <2>1 DEF Unmoved
  <2>. QED
    BY <1>4, <1>8, <2>2 DEF Sounds
<1>16. ModsFilled' /\ InjsFilled'
  BY <1>4, <1>9, <1>11 DEF ModsFilled, InjsFilled
<1>17. SubsFilled'
  <2>1. SubFilled(prog, g, e)
    BY <1>1, <1>3, <1>4, <1>5, <1>7, <1>9 DEF SubFilled, Directive
  <2>2. ASSUME NEW k \in DOMAIN subs'
        PROVE  SubFilled(prog, g, subs'[k])
    <3>1. CASE k \in DOMAIN subs
      BY <1>11, <1>12, <3>1
    <3>2. CASE k = Len(subs) + 1
      BY <1>12, <2>1, <3>2
    <3>. QED
      BY <1>12, <2>2, <3>1, <3>2
  <2>. QED
    BY <1>4, <1>9, <2>2 DEF SubsFilled
<1>. QED
  BY <1>13, <1>14, <1>15, <1>16, <1>17 DEF Full, Done

LEMMA FullInit ==
  ASSUME Init
  PROVE  Full
<1>1. /\ prog \in Programs /\ at.phase \in {"module", "injector"} /\ at.n = 1 /\ at.i = 0
      /\ heap = <<>> /\ cfg = EmptyConfig /\ fors = NoFors /\ DOMAIN mods = {}
      /\ injs = <<>> /\ subs = <<>>
  BY DEF Init
<1>2. Finished = {} /\ SlotsOf(fors) = {Nil} /\ DOMAIN fors = {} /\ AtOf(cfg, fors, Nil) = EmptyConfig
  BY <1>1 DEF Finished, SlotsOf, NoFors, AtOf
<1>3. Phases /\ InHand
  BY <1>1, <1>2 DEF Phases, InHand, Filling
<1>4. Sounds /\ Private
  BY <1>1, <1>2, NoneIsSeq, EmptySound DEF Sounds, Private
<1>5. Done
  BY <1>1 DEF Done, ModsFilled, InjsFilled, SubsFilled
<1>. QED
  BY <1>3, <1>4, <1>5 DEF Full

LEMMA TargetIsShaped ==
  ASSUME Inv, Full, Parsing
  PROVE  Shaped(Target)
BY SlotTaken DEF Full, Sounds, Sound

LEMMA ParseOptionFilled ==
  ASSUME Inv, Full, ParseOption
  PROVE  Full'
<1>1. Parsing
  BY DEF ParseOption, Option, ImportFunc, ImportErrWrap, ImportErrWrapReset, Rename, RenameReset,
     DiscoverUnexported, DiscoverGetters, DiscoverSetters, DiscoverFieldsOnly, Match, MatchFunc,
     MatchSkip, DiscoverBySample, DiscoverNested
<1>2. Shaped(Target)
  BY <1>1, TargetIsShaped
<1>3. CASE ImportFunc \/ Rename \/ RenameReset
  BY <1>2, <1>3, ImportFuncFilled, RenameFilled, RenameResetFilled
<1>4. CASE ImportErrWrap \/ ImportErrWrapReset
  BY <1>2, <1>4, WrapFilled
<1>5. CASE DiscoverUnexported \/ DiscoverFieldsOnly
  BY <1>2, <1>5, UnexportedFilled, FieldsOnlyFilled
<1>6. CASE DiscoverGetters \/ DiscoverSetters
  BY <1>2, <1>6, AffixFilled
<1>7. CASE Match \/ MatchFunc \/ MatchSkip
  BY <1>2, <1>7, MatchFilled, MatchFuncFilled, MatchSkipFilled
<1>8. CASE DiscoverBySample \/ DiscoverNested
  BY <1>2, <1>8, SampleFilled, NestedFilled
<1>. QED
  BY <1>3, <1>4, <1>5, <1>6, <1>7, <1>8 DEF ParseOption

LEMMA FullNext ==
  ASSUME Inv, Full, [Next]_vars
  PROVE  Full'
<1>1. CASE BadOption
  <2>1. Parsing
    BY <1>1 DEF BadOption, Option
  <2>. QED
    BY <1>1, <2>1, TargetIsShaped, BadOptionFilled
<1>2. CASE ParseOption
  BY <1>2, ParseOptionFilled
<1>3. CASE UNCHANGED vars
  <2>1. UNCHANGED <<prog, at, heap, cfg, fors, mods, injs, subs>>
    BY <1>3 DEF vars
  <2>2. Phases' /\ InHand'
    BY <2>1 DEF Full, Phases, InHand, Filling
  <2>3. Sounds' /\ Private'
    BY <2>1 DEF Full, Sounds, Private, Finished, Configs
  <2>4. Done'
    BY <2>1 DEF Full, Done, ModsFilled, InjsFilled, SubsFilled
  <2>. QED
    BY <2>2, <2>3, <2>4 DEF Full
<1>4. CASE BeginModule \/ EndModule
  BY <1>4, BeginModuleFilled, EndModuleFilled
<1>5. CASE Qualifier
  BY <1>5, QualifierFilled
<1>6. CASE SkipInjector \/ BeginInline \/ AbandonInjector
  BY <1>6, SkipInjectorFilled, BeginInlineFilled, AbandonInjectorFilled
<1>7. CASE BeginInjector \/ EndInjector
  BY <1>7, BeginInjectorFilled, EndInjectorFilled
<1>8. CASE ForkForSubconv
  BY <1>8, ForkForSubconvFilled
<1>. QED
  BY <1>1, <1>2, <1>3, <1>4, <1>5, <1>6, <1>7, <1>8 DEF Next

-----------------------------------------------------------------------------
(* What is in force.  The options of a module and of its qualifiers in the   *)
(* order they are registered, and as Update puts them together: the same, at *)
(* other places.  w gives those places; it keeps the order of the options    *)
(* that are in some set T if it grows on T.                                  *)
Places(D, C, w, T) ==
  /\ IsSeq(C) /\ IsSeq(D) /\ T \subseteq DOMAIN D
  /\ \A k \in T : w[k] \in DOMAIN C /\ C[w[k]] = D[k]

Grows(w, T) == \A j, k \in T : j < k => w[j] < w[k]

Image(w, T) == {w[k] : k \in T}

LEMMA PickedPlaces ==
  ASSUME NEW D, NEW C, NEW w, NEW T, Places(D, C, w, T), Grows(w, T)
  PROVE  Picked(C, Image(w, T)) = Picked(D, T)
<1>1. PICK n : /\ n \in Nat /\ n = Len(D) /\ DOMAIN D = 1 .. n
               /\ DOMAIN C = 1 .. Len(C) /\ Len(C) \in Nat
  BY SeqIs DEF Places
<1>2. T \in SUBSET Nat /\ IsFiniteSet(T)
  <2>1. T \subseteq 1 .. n /\ 1 .. n \subseteq Nat
    BY <1>1 DEF Places
  <2>2. IsFiniteSet(1 .. n)
    BY <1>1, FS_Interval
  <2>. QED
    BY <2>1, <2>2, FS_Subset
<1>3. PICK m : m = Cardinality(T) /\ m \in Nat
  BY <1>2, FS_CardinalityType
<1>4. PICK g : g = [k \in 1 .. m |-> Nth(T, k)]
  OBVIOUS
<1>5. \A k \in 1 .. m : Nth(T, k) \in T
  BY <1>2, <1>3, NthIsRanked
<1>6. Counts(g, m, T)
  <2>1. g \in [1 .. m -> T]
    BY <1>4, <1>5
  <2>2. \A k, l \in 1 .. m : k < l => g[k] < g[l]
    BY <1>2, <1>3, <1>4, NthGrows
  <2>3. \A i \in T : \E k \in 1 .. m : g[k] = i
    BY <1>2, <1>3, <1>4, NthOfRank
  <2>. QED
    BY <1>2, <1>3, <2>1, <2>2, <2>3 DEF Counts
<1>7. PICK h : h = [k \in 1 .. m |-> w[g[k]]]
  OBVIOUS
<1>8. Counts(h, m, Image(w, T))
  <2>1. \A k \in 1 .. m : g[k] \in T
    BY <1>6 DEF Counts
  <2>2. \A k \in T : w[k] \in Nat /\ w[k] \in Image(w, T)
    BY <1>1 DEF Places, Image
  <2>3. Image(w, T) \in SUBSET Nat
    BY <2>2 DEF Image
  <2>4. h \in [1 .. m -> Image(w, T)]
    BY <1>7, <2>1, <2>2
  <2>5. ASSUME NEW k \in 1 .. m, NEW l \in 1 .. m, k < l
        PROVE  h[k] < h[l]
    <3>1. g[k] < g[l]
      BY <1>6, <2>5 DEF Counts
    <3>. QED
      BY <1>7, <2>1, <3>1 DEF Grows
  <2>6. ASSUME NEW i \in Image(w, T)
        PROVE  \E k \in 1 .. m : h[k] = i
    <3>1. PICK j \in T : i = w[j]
      BY DEF Image
    <3>2. PICK k \in 1 .. m : g[k] = j
      BY <1>6 DEF Counts
    <3>. QED
      BY <1>7, <3>1, <3>2
  <2>. QED
    BY <1>3, <2>3, <2>4, <2>5, <2>6 DEF Counts
<1>9. /\ IsSeq(Picked(D, T)) /\ Len(Picked(D, T)) = m
      /\ \A k \in 1 .. m : Picked(D, T)[k] = D[g[k]]
  BY <1>6, PickedBy
<1>10. /\ IsSeq(Picked(C, Image(w, T))) /\ Len(Picked(C, Image(w, T))) = m
       /\ \A k \in 1 .. m : Picked(C, Image(w, T))[k] = C[h[k]]
  BY <1>8, PickedBy
<1>11. \A k \in 1 .. m : C[h[k]] = D[g[k]]
  <2>1. \A k \in 1 .. m : g[k] \in T
    BY <1>6 DEF Counts
  <2>. QED
    BY <1>7, <2>1 DEF Places
<1>. QED
  BY <1>9, <1>10, <1>11, SameSeq

(* What is left of the options at S if those at R undo no more, and no less, *)
(* than the properties say.                                                  *)
Reaching(D, T, Q) ==
  \A j \in Q, k \in T : k < j => D[j].into \in {Nil, D[k].into}

LEMMA LeftPlaces ==
  ASSUME NEW D, NEW C, NEW w, NEW T, NEW Q, Places(D, C, w, T \cup Q), Grows(w, T \cup Q),
         Reaching(D, T, Q), T \cap Q = {},
         NEW S, S = Image(w, T), NEW R, R = Image(w, Q)
  PROVE  Left(C, S, R) = Standing(D, T, Q)
<1>1. PICK A, B : /\ A = {k \in S : ~\E j \in R : k < j /\ C[j].into \in {Nil, C[k].into}}
                  /\ B = {k \in T : ~\E j \in Q : k < j}
  OBVIOUS
<1>2. \A k \in T \cup Q : k \in Nat /\ w[k] \in Nat /\ C[w[k]] = D[k]
  <2>1. /\ DOMAIN D = 1 .. Len(D) /\ Len(D) \in Nat
        /\ DOMAIN C = 1 .. Len(C) /\ Len(C) \in Nat
    BY SeqIs DEF Places
  <2>. QED
    BY <2>1 DEF Places
<1>3. \A k \in T, j \in Q : w[k] < w[j] <=> k < j
  <2>. SUFFICES ASSUME NEW k \in T, NEW j \in Q
                PROVE  w[k] < w[j] <=> k < j
    OBVIOUS
  <2>1. k \in Nat /\ j \in Nat /\ w[k] \in Nat /\ w[j] \in Nat /\ k # j
    BY <1>2
  <2>2. (k < j => w[k] < w[j]) /\ (j < k => w[j] < w[k])
    BY DEF Grows
  <2>. QED
    BY <2>1, <2>2
<1>4. ASSUME NEW k \in T
      PROVE  w[k] \in A <=> k \in B
  <2>1. w[k] \in S
    BY DEF Image
  <2>2. (\E j \in R : w[k] < j /\ C[j].into \in {Nil, C[w[k]].into}) <=> \E j \in Q : k < j
    <3>1. ASSUME NEW j \in Q, k < j
          PROVE  w[j] \in R /\ w[k] < w[j] /\ C[w[j]].into \in {Nil, C[w[k]].into}
      BY <1>2, <1>3, <3>1 DEF Reaching, Image
    <3>2. ASSUME NEW i \in R, w[k] < i
          PROVE  \E j \in Q : k < j
      <4>1. PICK j \in Q : i = w[j]
        BY DEF Image
      <4>. QED
        BY <1>3, <3>2, <4>1
    <3>. QED
      BY <3>1, <3>2
  <2>. QED
    BY <1>1, <2>1, <2>2
<1>5. A = Image(w, B)
  <2>1. ASSUME NEW i \in A
        PROVE  i \in Image(w, B)
    <3>1. PICK k \in T : i = w[k]
      BY <1>1 DEF Image
    <3>. QED
      BY <1>4, <3>1 DEF Image
  <2>2. ASSUME NEW i \in Image(w, B)
        PROVE  i \in A
    <3>1. PICK k \in B : i = w[k]
      BY DEF Image
    <3>2. k \in T
      BY <1>1
    <3>. QED
      BY <1>4, <3>1, <3>2
  <2>. QED
    BY <2>1, <2>2
<1>6. Places(D, C, w, B) /\ Grows(w, B)
  BY <1>1 DEF Places, Grows
<1>7. Picked(C, A) = Picked(D, B)
  BY <1>5, <1>6, PickedPlaces
<1>. QED
  BY <1>1, <1>7 DEF Left, Standing

(* The classes of options are the same, at other places. *)
Covers(D, C, w) == Places(D, C, w, DOMAIN D) /\ \A i \in DOMAIN C : \E k \in DOMAIN D : w[k] = i

LEMMA ClassPlaces ==
  ASSUME NEW D, NEW C, NEW w, Covers(D, C, w), NEW op, NEW side
  PROVE  /\ Named(C, op) = Image(w, Named(D, op))
         /\ Sided(C, op, side) = Image(w, Sided(D, op, side))
         /\ Enabled(C, op, side) = Image(w, Enabled(D, op, side))
<1>1. \A k \in DOMAIN D : w[k] \in DOMAIN C /\ C[w[k]] = D[k]
  BY DEF Covers, Places
<1>2. \A i \in DOMAIN C : \E k \in DOMAIN D : w[k] = i
  BY DEF Covers
<1>3. Named(C, op) = Image(w, Named(D, op))
  BY <1>1, <1>2 DEF Named, Image
<1>4. Sided(C, op, side) = Image(w, Sided(D, op, side))
  BY <1>1, <1>2 DEF Sided, Named, Image
<1>5. Enabled(C, op, side) = Image(w, Enabled(D, op, side))
  BY <1>1, <1>2 DEF Enabled, Named, Image
<1>. QED
  BY <1>3, <1>4, <1>5

(* Options of the given kinds keep their order. *)
OfOps(D, ops) == {k \in DOMAIN D : D[k].op \in ops}

Reaches(D, ops, undo) ==
  \A j, k \in OfOps(D, ops) : D[j].op = undo /\ k < j => D[j].into \in {Nil, D[k].into}

LEMMA LeavesRules ==
  ASSUME NEW D, NEW C, NEW w, Covers(D, C, w), Grows(w, OfOps(D, Renamings)),
         Reaches(D, Renamings, "renameReset"), NEW side
  PROVE  RulesLeft(C, side) = RulesOf(D, side)
<1>1. PICK T, Q, S, R : /\ T = Sided(D, "rename", side) /\ Q = Enabled(D, "renameReset", side)
                        /\ S = Sided(C, "rename", side) /\ R = Enabled(C, "renameReset", side)
  OBVIOUS
<1>2. S = Image(w, T) /\ R = Image(w, Q)
  BY <1>1, ClassPlaces
<1>3. T \subseteq OfOps(D, Renamings) /\ Q \subseteq OfOps(D, Renamings) /\ T \cap Q = {}
      /\ \A j \in Q : D[j].op = "renameReset"
  BY <1>1 DEF Sided, Enabled, Named, OfOps, Renamings
<1>4. T \subseteq DOMAIN D /\ Q \subseteq DOMAIN D
  BY <1>3 DEF OfOps
<1>5. Grows(w, T \cup Q) /\ Reaching(D, T, Q)
  BY <1>3 DEF Grows, Reaches, Reaching
<1>6. Places(D, C, w, T \cup Q)
  BY <1>4 DEF Covers, Places
<1>7. Left(C, S, R) = Standing(D, T, Q)
  BY <1>2, <1>3, <1>4, <1>5, <1>6, LeftPlaces
<1>. QED
  BY <1>1, <1>7 DEF RulesLeft, RulesOf

LEMMA LeavesAffixes ==
  ASSUME NEW D, NEW C, NEW w, Covers(D, C, w), Grows(w, OfOps(D, Discovered)),
         Reaches(D, Discovered, "fieldsOnly"), NEW name \in {"getters", "setters"}, NEW side
  PROVE  AffixLeft(C, name, side) = AffixOf(D, name, side)
<1>1. PICK T, Q, S, R : /\ T = Named(D, name) /\ Q = Enabled(D, "fieldsOnly", side)
                        /\ S = Named(C, name) /\ R = Enabled(C, "fieldsOnly", side)
  OBVIOUS
<1>2. S = Image(w, T) /\ R = Image(w, Q)
  BY <1>1, ClassPlaces
<1>3. T \subseteq OfOps(D, Discovered) /\ Q \subseteq OfOps(D, Discovered) /\ T \cap Q = {}
      /\ \A j \in Q : D[j].op = "fieldsOnly"
  BY <1>1 DEF Enabled, Named, OfOps, Discovered
<1>4. T \subseteq DOMAIN D /\ Q \subseteq DOMAIN D
  BY <1>3 DEF OfOps
<1>5. Grows(w, T \cup Q) /\ Reaching(D, T, Q)
  BY <1>3 DEF Grows, Reaches, Reaching
<1>6. Places(D, C, w, T \cup Q)
  BY <1>4 DEF Covers, Places
<1>7. Left(C, S, R) = Standing(D, T, Q)
  BY <1>2, <1>3, <1>4, <1>5, <1>6, LeftPlaces
<1>. QED
  BY <1>1, <1>7 DEF AffixLeft, AffixOf

LEMMA LeavesUnexported ==
  ASSUME NEW D, NEW C, NEW w, Covers(D, C, w), Grows(w, OfOps(D, Discovered))
  PROVE  UnexportedOf(C) = UnexportedOf(D)
<1>1. PICK T : T = Named(D, "unexported")
  OBVIOUS
<1>2. Places(D, C, w, T) /\ Grows(w, T)
  <2>1. T \subseteq OfOps(D, Discovered) /\ T \subseteq DOMAIN D
    BY <1>1 DEF Named, OfOps, Discovered
  <2>. QED
    BY <2>1 DEF Grows, Covers, Places
<1>3. Picked(C, Named(C, "unexported")) = Picked(D, T)
  BY <1>1, <1>2, ClassPlaces, PickedPlaces
<1>. QED
  BY <1>1, <1>3 DEF UnexportedOf

(* Where the options of a module, and after them those of a directive, are   *)
(* once Update has put them together.                                        *)
KeepsPlaces(D, C, w, opts, kind) ==
  /\ Covers(D, C, w)
  /\ \A ops, undo : InOrder(opts, kind, ops, undo) => Grows(w, OfOps(D, ops)) /\ Reaches(D, ops, undo)

LEMMA JoinedGoesOn ==
  ASSUME NEW s, IsSeq(s), NEW t, IsSeq(t), NEW u, u = s \o t
  PROVE  GoesOn(u, s, t)
BY Joined DEF GoesOn

(* Where Update puts the options of a module, for all kinds and for one, and *)
(* after them those of a directive.                                          *)
Halved(C, opts, own, A, B, a, b) ==
  /\ A \in SUBSET Nat /\ B \in SUBSET Nat /\ IsFiniteSet(A) /\ IsFiniteSet(B)
  /\ a \in Nat /\ b \in Nat /\ IsSeq(C) /\ DOMAIN C = 1 .. (a + b) + Len(own)
  /\ \A i \in A : RankIn(A, i) \in 1 .. a /\ C[RankIn(A, i)] = opts[i]
  /\ \A i \in B : RankIn(B, i) \in 1 .. b /\ C[a + RankIn(B, i)] = opts[i]
  /\ \A k \in 1 .. a : Nth(A, k) \in A /\ RankIn(A, Nth(A, k)) = k
  /\ \A k \in 1 .. b : Nth(B, k) \in B /\ RankIn(B, Nth(B, k)) = k
  /\ \A k \in 1 .. Len(own) : C[(a + b) + k] = own[k]

LEMMA HalvesAre ==
  ASSUME NEW opts, IsList(opts), NEW kind, NEW own, IsSeq(own),
         NEW C, C = (Given(opts, Nil) \o Given(opts, kind)) \o own,
         NEW A, A = {k \in DOMAIN opts : opts[k].into = Nil},
         NEW B, B = {k \in DOMAIN opts : opts[k].into = kind}
  PROVE  Halved(C, opts, own, A, B, Cardinality(A), Cardinality(B))
<1>1. DOMAIN opts = 1 .. Len(opts) /\ Len(opts) \in Nat /\ Len(own) \in Nat
  BY ListIs, LenIs
<1>2. /\ A \in SUBSET Nat /\ B \in SUBSET Nat
      /\ IsFiniteSet(A) /\ IsFiniteSet(B)
  <2>1. IsFiniteSet(1 .. Len(opts))
    BY <1>1, FS_Interval
  <2>2. A \subseteq 1 .. Len(opts) /\ B \subseteq 1 .. Len(opts) /\ 1 .. Len(opts) \subseteq Nat
    BY <1>1
  <2>. QED
    BY <2>1, <2>2, FS_Subset
<1>3. PICK a, b, n : a = Cardinality(A) /\ b = Cardinality(B) /\ n = Len(own)
  OBVIOUS
<1>4. a \in Nat /\ b \in Nat /\ n \in Nat
  BY <1>1, <1>2, <1>3, FS_CardinalityType
<1>5. PICK p, q : p = Picked(opts, A) /\ q = Picked(opts, B)
  OBVIOUS
<1>6. IsSeq(p) /\ Len(p) = a /\ IsSeq(q) /\ Len(q) = b
  BY <1>2, <1>3, <1>5, PickedIsSeq
<1>7. /\ \A i \in A : RankIn(A, i) \in 1 .. a /\ p[RankIn(A, i)] = opts[i]
      /\ \A i \in B : RankIn(B, i) \in 1 .. b /\ q[RankIn(B, i)] = opts[i]
  <2>1. ASSUME NEW S \in SUBSET Nat, IsFiniteSet(S), NEW s, s = Picked(opts, S)
        PROVE  \A i \in S : RankIn(S, i) \in 1 .. Cardinality(S) /\ s[RankIn(S, i)] = opts[i]
    BY <2>1, PickedType
  <2>2. \A i \in A : RankIn(A, i) \in 1 .. Cardinality(A) /\ p[RankIn(A, i)] = opts[i]
    BY <1>2, <1>5, <2>1
  <2>3. \A i \in B : RankIn(B, i) \in 1 .. Cardinality(B) /\ q[RankIn(B, i)] = opts[i]
    BY <1>2, <1>5, <2>1
  <2>. QED
    BY <1>3, <2>2, <2>3
<1>8. /\ \A k \in 1 .. a : Nth(A, k) \in A /\ RankIn(A, Nth(A, k)) = k
      /\ \A k \in 1 .. b : Nth(B, k) \in B /\ RankIn(B, Nth(B, k)) = k
  BY <1>2, <1>3, NthIsRanked
<1>9. PICK r : r = p \o q
  OBVIOUS
<1>10. /\ IsSeq(r) /\ Len(r) = a + b
       /\ \A k \in 1 .. a : r[k] = p[k]
       /\ \A k \in 1 .. b : r[a + k] = q[k]
  <2>1. GoesOn(r, p, q)
    BY <1>6, <1>9, JoinedGoesOn
  <2>. QED
    BY <1>6, <2>1 DEF GoesOn
<1>11. C = r \o own
  BY <1>5, <1>9 DEF Given
<1>12. /\ IsSeq(C) /\ Len(C) = (a + b) + n
       /\ \A k \in 1 .. a + b : C[k] = r[k]
       /\ \A k \in 1 .. n : C[(a + b) + k] = own[k]
  <2>1. GoesOn(C, r, own)
    BY <1>10, <1>11, JoinedGoesOn
  <2>. QED
    BY <1>3, <1>10, <2>1 DEF GoesOn
<1>13. DOMAIN C = 1 .. (a + b) + n
  BY <1>12, SeqIs
<1>14. /\ \A k \in 1 .. a : k \in 1 .. a + b
       /\ \A k \in 1 .. b : a + k \in 1 .. a + b
  BY <1>4
<1>15. \A i \in A : C[RankIn(A, i)] = opts[i]
  <2>. SUFFICES ASSUME NEW i \in A
                PROVE  C[RankIn(A, i)] = opts[i]
    OBVIOUS
  <2>1. PICK j : j = RankIn(A, i)
    OBVIOUS
  <2>2. j \in 1 .. a /\ p[j] = opts[i]
    BY <1>7, <2>1
  <2>3. j \in 1 .. a + b /\ r[j] = p[j]
    BY <1>10, <1>14, <2>2
  <2>. QED
    BY <1>12, <2>1, <2>2, <2>3
<1>16. \A i \in B : C[a + RankIn(B, i)] = opts[i]
  <2>. SUFFICES ASSUME NEW i \in B
                PROVE  C[a + RankIn(B, i)] = opts[i]
    OBVIOUS
  <2>1. PICK j : j = RankIn(B, i)
    OBVIOUS
  <2>2. j \in 1 .. b /\ q[j] = opts[i]
    BY <1>7, <2>1
  <2>3. a + j \in 1 .. a + b /\ r[a + j] = q[j]
    BY <1>10, <1>14, <2>2
  <2>. QED
    BY <1>12, <2>1, <2>2, <2>3
<1>. QED
  BY <1>2, <1>3, <1>4, <1>7, <1>8, <1>12, <1>13, <1>15, <1>16 DEF Halved

LEMMA ModulePlaces ==
  ASSUME NEW opts, IsList(opts), NEW kind, kind # Nil, NEW own, IsSeq(own),
         \A k \in DOMAIN own : own[k].into = Nil,
         NEW D, D = ForKind(opts, kind) \o own,
         NEW C, C = (Given(opts, Nil) \o Given(opts, kind)) \o own
  PROVE  \E w : KeepsPlaces(D, C, w, opts, kind)
<1>1. PICK E, A, B : /\ E = {k \in DOMAIN opts : opts[k].into \in {Nil, kind}}
                     /\ A = {k \in DOMAIN opts : opts[k].into = Nil}
                     /\ B = {k \in DOMAIN opts : opts[k].into = kind}
  OBVIOUS
<1>2. IsSeq(opts) /\ Len(opts) \in Nat /\ DOMAIN opts = 1 .. Len(opts)
  BY ListIs
<1>3. E \in SUBSET Nat /\ IsFiniteSet(E)
  <2>1. E \subseteq 1 .. Len(opts) /\ 1 .. Len(opts) \subseteq Nat
    BY <1>1, <1>2
  <2>2. IsFiniteSet(1 .. Len(opts))
    BY <1>2, FS_Interval
  <2>. QED
    BY <2>1, <2>2, FS_Subset
<1>4. PICK e, a, b, n : e = Cardinality(E) /\ a = Cardinality(A) /\ b = Cardinality(B) /\ n = Len(own)
  OBVIOUS
<1>5. Halved(C, opts, own, A, B, a, b)
  BY <1>1, <1>4, HalvesAre
<1>6. e \in Nat /\ a \in Nat /\ b \in Nat /\ n \in Nat
  BY <1>3, <1>4, <1>5, FS_CardinalityType, LenIs DEF Halved
<1>7. PICK t : t = ForKind(opts, kind)
  OBVIOUS
<1>8. /\ IsSeq(t) /\ Len(t) = e
      /\ \A k \in 1 .. e : Nth(E, k) \in E /\ t[k] = opts[Nth(E, k)]
      /\ \A i \in E : RankIn(E, i) \in 1 .. e /\ Nth(E, RankIn(E, i)) = i
  <2>1. t = Picked(opts, E)
    BY <1>1, <1>7 DEF ForKind
  <2>2. IsSeq(t) /\ Len(t) = e
    BY <1>3, <1>4, <2>1, PickedIsSeq
  <2>3. \A k \in 1 .. e : Nth(E, k) \in E /\ t[k] = opts[Nth(E, k)]
    BY <1>3, <1>4, <2>1, PickedType
  <2>4. \A i \in E : RankIn(E, i) \in 1 .. e /\ Nth(E, RankIn(E, i)) = i
    BY <1>3, <1>4, NthOfRank
  <2>. QED
    BY <2>2, <2>3, <2>4
<1>9. PICK w : w = [k \in 1 .. e + n |->
                      IF k > e THEN (a + b) + (k - e)
                      ELSE IF opts[Nth(E, k)].into = Nil THEN RankIn(A, Nth(E, k))
                      ELSE a + RankIn(B, Nth(E, k))]
  OBVIOUS
<1>10. /\ IsSeq(D) /\ DOMAIN D = 1 .. e + n
       /\ \A k \in 1 .. e : D[k] = t[k]
       /\ \A k \in 1 .. n : D[e + k] = own[k]
  <2>1. GoesOn(D, t, own)
    BY <1>7, <1>8, JoinedGoesOn
  <2>2. DOMAIN D = 1 .. Len(D)
    BY <2>1, SeqIs DEF GoesOn
  <2>. QED
    BY <1>4, <1>8, <2>1, <2>2 DEF GoesOn
<1>11. /\ A \in SUBSET Nat /\ B \in SUBSET Nat /\ IsFiniteSet(A) /\ IsFiniteSet(B)
       /\ IsSeq(C) /\ DOMAIN C = 1 .. (a + b) + n
       /\ \A i \in A : RankIn(A, i) \in 1 .. a /\ C[RankIn(A, i)] = opts[i]
       /\ \A i \in B : RankIn(B, i) \in 1 .. b /\ C[a + RankIn(B, i)] = opts[i]
       /\ \A k \in 1 .. a : Nth(A, k) \in A /\ RankIn(A, Nth(A, k)) = k
       /\ \A k \in 1 .. b : Nth(B, k) \in B /\ RankIn(B, Nth(B, k)) = k
       /\ \A k \in 1 .. n : C[(a + b) + k] = own[k]
  BY <1>4, <1>5 DEF Halved
<1>12. \A k \in 1 .. e : opts[Nth(E, k)].into = Nil => Nth(E, k) \in A
  BY <1>1, <1>8
<1>13. \A k \in 1 .. e : opts[Nth(E, k)].into # Nil => Nth(E, k) \in B /\ opts[Nth(E, k)].into = kind
  BY <1>1, <1>8
<1>14. ASSUME NEW k \in 1 .. e
       PROVE  /\ k \in DOMAIN D /\ D[k] = opts[Nth(E, k)] /\ Nth(E, k) \in DOMAIN opts
              /\ D[k].into = Nil => Nth(E, k) \in A /\ w[k] = RankIn(A, Nth(E, k)) /\ w[k] \in 1 .. a
              /\ D[k].into # Nil => /\ Nth(E, k) \in B /\ w[k] = a + RankIn(B, Nth(E, k))
                                    /\ RankIn(B, Nth(E, k)) \in 1 .. b /\ D[k].into = kind
              /\ w[k] \in 1 .. a + b /\ C[w[k]] = D[k]
  <2>1. k \in 1 .. e + n /\ ~(k > e)
    BY <1>6
  <2>2. k \in DOMAIN D /\ D[k] = opts[Nth(E, k)] /\ Nth(E, k) \in DOMAIN opts
    BY <1>1, <1>8, <1>10, <2>1
  <2>3. w[k] = IF opts[Nth(E, k)].into = Nil THEN RankIn(A, Nth(E, k)) ELSE a + RankIn(B, Nth(E, k))
    BY <1>9, <2>1
  <2>4. CASE D[k].into = Nil
    <3>1. Nth(E, k) \in A /\ w[k] = RankIn(A, Nth(E, k))
      BY <1>12, <2>2, <2>3, <2>4
    <3>2. w[k] \in 1 .. a /\ C[w[k]] = D[k]
      BY <1>11, <2>2, <3>1
    <3>3. w[k] \in 1 .. a + b /\ C[w[k]] = D[k]
      BY <1>6, <3>2
    <3>. QED
      BY <2>2, <2>4, <3>1, <3>2, <3>3
  <2>5. CASE D[k].into # Nil
    <3>1. Nth(E, k) \in B /\ w[k] = a + RankIn(B, Nth(E, k)) /\ D[k].into = kind
      BY <1>13, <2>2, <2>3, <2>5
    <3>2. RankIn(B, Nth(E, k)) \in 1 .. b /\ C[a + RankIn(B, Nth(E, k))] = D[k]
      BY <1>11, <2>2, <3>1
    <3>3. w[k] \in 1 .. a + b /\ C[w[k]] = D[k]
      BY <1>6, <3>1, <3>2
    <3>. QED
      BY <2>2, <2>5, <3>1, <3>2, <3>3
  <2>. QED
    BY <2>4, <2>5
<1>15. ASSUME NEW k \in 1 .. n
       PROVE  /\ e + k \in DOMAIN D /\ D[e + k] = own[k] /\ D[e + k].into = Nil
              /\ w[e + k] = (a + b) + k /\ w[e + k] \in 1 .. (a + b) + n /\ C[w[e + k]] = D[e + k]
  <2>1. e + k \in 1 .. e + n /\ e + k > e /\ (e + k) - e = k /\ (a + b) + k \in 1 .. (a + b) + n
    BY <1>6
  <2>2. w[e + k] = (a + b) + k
    BY <1>9, <2>1
  <2>3. k \in DOMAIN own
    BY <1>4, SeqIs
  <2>4. DOMAIN D = 1 .. e + n /\ \A j \in 1 .. n : D[e + j] = own[j]
    BY <1>10
  <2>5. \A j \in 1 .. n : C[(a + b) + j] = own[j]
    BY <1>11
  <2>6. e + k \in DOMAIN D /\ D[e + k] = own[k]
    BY <2>1, <2>4
  <2>7. own[k].into = Nil
    BY <2>3
  <2>8. C[w[e + k]] = own[k]
    BY <2>2, <2>5
  <2>. QED
    BY <2>1, <2>2, <2>6, <2>7, <2>8
<1>16. \A k \in DOMAIN D : k \in 1 .. e \/ \E l \in 1 .. n : k = e + l
  <2>. SUFFICES ASSUME NEW k \in 1 .. e + n, k \notin 1 .. e
                PROVE  \E l \in 1 .. n : k = e + l
    BY <1>10
  <2>1. k - e \in 1 .. n /\ k = e + (k - e)
    BY <1>6
  <2>. QED
    BY <2>1
<1>17. Covers(D, C, w)
  <2>1. ASSUME NEW k \in DOMAIN D
        PROVE  w[k] \in DOMAIN C /\ C[w[k]] = D[k]
    <3>1. CASE k \in 1 .. e
      <4>1. w[k] \in 1 .. a + b /\ C[w[k]] = D[k]
        BY <1>14, <3>1
      <4>2. 1 .. a + b \subseteq DOMAIN C
        BY <1>6, <1>11
      <4>. QED
        BY <4>1, <4>2
    <3>2. CASE \E l \in 1 .. n : k = e + l
      BY <1>11, <1>15, <3>2
    <3>. QED
      BY <1>16, <3>1, <3>2
  <2>2. w \in [DOMAIN D -> DOMAIN C]
    BY <1>9, <1>10, <2>1
  <2>3. ASSUME NEW i \in DOMAIN C
        PROVE  \E k \in DOMAIN D : w[k] = i
    <3>1. CASE i \in 1 .. a
      <4>1. PICK j \in A : RankIn(A, j) = i
        BY <1>11, <3>1
      <4>2. j \in E /\ opts[j].into = Nil
        BY <1>1
      <4>3. PICK k \in 1 .. e : Nth(E, k) = j
        BY <1>8, <4>2
      <4>. QED
        BY <1>14, <4>1, <4>2, <4>3
    <3>2. CASE i \notin 1 .. a /\ i \in 1 .. a + b
      <4>1. i - a \in 1 .. b /\ i = a + (i - a)
        BY <1>6, <3>2
      <4>2. PICK j \in B : RankIn(B, j) = i - a
        BY <1>11, <4>1
      <4>3. j \in E /\ opts[j].into # Nil
        BY <1>1
      <4>4. PICK k \in 1 .. e : Nth(E, k) = j
        BY <1>8, <4>3
      <4>5. D[k] = opts[j] /\ k \in DOMAIN D
        BY <1>14, <4>4
      <4>6. w[k] = a + RankIn(B, j)
        BY <1>14, <4>3, <4>4, <4>5
      <4>. QED
        BY <4>1, <4>2, <4>5, <4>6
    <3>3. CASE i \notin 1 .. a + b
      <4>1. i - (a + b) \in 1 .. n /\ i = (a + b) + (i - (a + b))
        BY <1>6, <1>11, <3>3
      <4>. QED
        BY <1>15, <4>1
    <3>4. i \in 1 .. a => i \in 1 .. a + b
      BY <1>6
    <3>. QED
      BY <3>1, <3>2, <3>3, <3>4
  <2>. QED
    BY <1>10, <1>11, <2>1, <2>2, <2>3 DEF Covers, Places
<1>18. ASSUME NEW ops, NEW undo, InOrder(opts, kind, ops, undo)
       PROVE  Grows(w, OfOps(D, ops))
  <2>. SUFFICES ASSUME NEW j \in OfOps(D, ops), NEW k \in OfOps(D, ops), j < k
                PROVE  w[j] < w[k]
    BY DEF Grows
  <2>1. j \in DOMAIN D /\ k \in DOMAIN D /\ D[j].op \in ops /\ D[k].op \in ops
    BY DEF OfOps
  <2>2. CASE j \in 1 .. e /\ k \in 1 .. e
    <3>1. Nth(E, j) < Nth(E, k)
      BY <1>3, <1>4, <2>2, NthGrows
    <3>2. CASE D[j].into = Nil /\ D[k].into = Nil
      <4>1. RankIn(A, Nth(E, j)) < RankIn(A, Nth(E, k))
        BY <1>11, <1>14, <2>2, <3>1, <3>2, RankGrows
      <4>. QED
        BY <1>14, <2>2, <3>2, <4>1
    <3>3. CASE D[j].into # Nil /\ D[k].into # Nil
      <4>1. RankIn(B, Nth(E, j)) < RankIn(B, Nth(E, k))
        BY <1>11, <1>14, <2>2, <3>1, <3>3, RankGrows
      <4>2. RankIn(B, Nth(E, j)) \in Nat /\ RankIn(B, Nth(E, k)) \in Nat
        BY <1>14, <2>2, <3>3
      <4>3. w[j] = a + RankIn(B, Nth(E, j)) /\ w[k] = a + RankIn(B, Nth(E, k))
        BY <1>14, <2>2, <3>3
      <4>. QED
        BY <1>6, <4>1, <4>2, <4>3
    <3>4. CASE D[j].into = Nil /\ D[k].into # Nil
      <4>1. w[j] \in 1 .. a /\ w[k] = a + RankIn(B, Nth(E, k)) /\ RankIn(B, Nth(E, k)) \in 1 .. b
        BY <1>14, <2>2, <3>4
      <4>. QED
        BY <1>6, <4>1
    <3>5. CASE D[j].into # Nil /\ D[k].into = Nil
      <4>1. PICK x, y : x = Nth(E, j) /\ y = Nth(E, k)
        OBVIOUS
      <4>2. /\ x \in DOMAIN opts /\ y \in DOMAIN opts /\ D[j] = opts[x] /\ D[k] = opts[y]
            /\ D[j].into = kind
        BY <1>14, <2>2, <3>5, <4>1
      <4>3. {opts[x].op, opts[y].op} \subseteq ops
        BY <2>1, <4>2
      <4>4. y < x
        BY <1>18, <3>5, <4>2, <4>3 DEF InOrder
      <4>. QED
        BY <1>2, <3>1, <4>1, <4>2, <4>4
    <3>. QED
      BY <3>2, <3>3, <3>4, <3>5
  <2>3. CASE j \in 1 .. e /\ k \notin 1 .. e
    <3>1. PICK l \in 1 .. n : k = e + l
      BY <1>16, <2>1, <2>3
    <3>2. w[k] = (a + b) + l /\ w[j] \in 1 .. a + b
      BY <1>14, <1>15, <2>3, <3>1
    <3>. QED
      BY <1>6, <3>2
  <2>4. CASE j \notin 1 .. e /\ k \notin 1 .. e
    <3>1. PICK l \in 1 .. n, m \in 1 .. n : j = e + l /\ k = e + m
      BY <1>16, <2>1, <2>4
    <3>2. w[e + l] = (a + b) + l /\ w[e + m] = (a + b) + m
      BY <1>15
    <3>3. w[j] = (a + b) + l /\ w[k] = (a + b) + m /\ l < m
      BY <1>6, <3>1, <3>2
    <3>. QED
      BY <1>6, <3>3
  <2>5. ~(j \notin 1 .. e /\ k \in 1 .. e)
    BY <1>6, <1>10, <2>1
  <2>. QED
    BY <2>2, <2>3, <2>4, <2>5
<1>19. ASSUME NEW ops, NEW undo, InOrder(opts, kind, ops, undo)
       PROVE  Reaches(D, ops, undo)
  <2>. SUFFICES ASSUME NEW j \in OfOps(D, ops), NEW k \in OfOps(D, ops), D[j].op = undo, k < j,
                       D[j].into # Nil
                PROVE  D[j].into = D[k].into
    BY DEF Reaches
  <2>1. j \in DOMAIN D /\ k \in DOMAIN D /\ D[j].op \in ops /\ D[k].op \in ops
    BY DEF OfOps
  <2>2. j \in 1 .. e
    BY <1>15, <1>16, <2>1
  <2>3. k \in 1 .. e
    BY <1>6, <1>10, <2>1, <2>2
  <2>4. PICK x, y : x = Nth(E, j) /\ y = Nth(E, k)
    OBVIOUS
  <2>5. /\ x \in DOMAIN opts /\ y \in DOMAIN opts /\ D[j] = opts[x] /\ D[k] = opts[y]
        /\ D[j].into = kind /\ (D[k].into # Nil => D[k].into = kind)
    BY <1>14, <2>2, <2>3, <2>4
  <2>6. D[k].into # Nil
    <3>1. {opts[x].op, opts[y].op} \subseteq ops
      BY <2>1, <2>5
    <3>. QED
      BY <1>19, <2>5, <3>1 DEF InOrder
  <2>. QED
    BY <2>5, <2>6
<1>20. KeepsPlaces(D, C, w, opts, kind)
  BY <1>17, <1>18, <1>19 DEF KeepsPlaces
<1>. QED
  BY <1>20

(* A qualifier has no wrappers, so the module's are what they were. *)
Wrapping == {"errWrap", "errWrapReset"}

LEMMA LeavesWraps ==
  ASSUME NEW opts, IsList(opts), \A i \in DOMAIN opts : opts[i].op \in Wrapping => opts[i].into = Nil,
         NEW kind, kind # Nil, NEW own, IsSeq(own), \A k \in DOMAIN own : own[k].op \notin Wrapping,
         NEW C, C = (Given(opts, Nil) \o Given(opts, kind)) \o own
  PROVE  WrapsLeft(C) = WrapsOf(opts)
<1>1. PICK A, B, a, b : /\ A = {k \in DOMAIN opts : opts[k].into = Nil} /\ a = Cardinality(A)
                        /\ B = {k \in DOMAIN opts : opts[k].into = kind} /\ b = Cardinality(B)
  OBVIOUS
<1>2. Halved(C, opts, own, A, B, a, b)
  BY <1>1, HalvesAre
<1>3. PICK n : n = Len(own) /\ n \in Nat /\ DOMAIN own = 1 .. n
  BY SeqIs
<1>4. IsSeq(opts)
  BY ListIs
<1>5. PICK w : w = [i \in A |-> RankIn(A, i)]
  OBVIOUS
<1>6. \A i \in A : w[i] \in DOMAIN C /\ w[i] \in 1 .. a /\ C[w[i]] = opts[i]
  <2>. SUFFICES ASSUME NEW i \in A
                PROVE  w[i] \in DOMAIN C /\ w[i] \in 1 .. a /\ C[w[i]] = opts[i]
    OBVIOUS
  <2>1. w[i] \in 1 .. a /\ C[w[i]] = opts[i]
    BY <1>2, <1>5 DEF Halved
  <2>2. DOMAIN C = 1 .. (a + b) + n /\ a \in Nat /\ b \in Nat
    BY <1>2, <1>3 DEF Halved
  <2>. QED
    BY <1>3, <2>1, <2>2
<1>7. ASSUME NEW i \in DOMAIN C, C[i].op \in Wrapping
      PROVE  \E k \in A : w[k] = i
  <2>1. DOMAIN C = 1 .. (a + b) + n /\ a \in Nat /\ b \in Nat
    BY <1>2, <1>3 DEF Halved
  <2>2. CASE i \in 1 .. a
    BY <1>2, <1>5, <2>2 DEF Halved
  <2>3. CASE i \notin 1 .. a /\ i \in 1 .. a + b
    <3>1. i - a \in 1 .. b /\ i = a + (i - a)
      BY <2>1, <2>3
    <3>2. PICK j \in B : RankIn(B, j) = i - a
      BY <1>2, <3>1 DEF Halved
    <3>3. C[i] = opts[j]
      BY <1>2, <3>1, <3>2 DEF Halved
    <3>. QED
      BY <1>1, <1>7, <3>3
  <2>4. CASE i \notin 1 .. a + b
    <3>1. i - (a + b) \in 1 .. n /\ i = (a + b) + (i - (a + b))
      BY <1>3, <2>1, <2>4
    <3>2. C[i] = own[i - (a + b)]
      BY <1>2, <1>3, <3>1 DEF Halved
    <3>. QED
      BY <1>3, <1>7, <3>1, <3>2
  <2>5. i \in 1 .. a => i \in 1 .. a + b
    BY <2>1
  <2>. QED
    BY <2>2, <2>3, <2>4, <2>5
<1>8. ASSUME NEW op \in Wrapping
      PROVE  Named(opts, op) \subseteq A /\ Named(C, op) = Image(w, Named(opts, op))
  <2>1. Named(opts, op) \subseteq A
    BY <1>1 DEF Named
  <2>2. ASSUME NEW i \in Named(C, op)
        PROVE  i \in Image(w, Named(opts, op))
    <3>1. i \in DOMAIN C /\ C[i].op = op
      BY DEF Named
    <3>2. PICK k \in A : w[k] = i
      BY <1>7, <3>1
    <3>3. k \in DOMAIN opts /\ opts[k].op = op
      BY <1>1, <1>6, <3>1, <3>2
    <3>. QED
      BY <3>2, <3>3 DEF Named, Image
  <2>3. ASSUME NEW i \in Image(w, Named(opts, op))
        PROVE  i \in Named(C, op)
    <3>1. PICK k \in Named(opts, op) : i = w[k]
      BY DEF Image
    <3>2. k \in A /\ opts[k].op = op
      BY <2>1, <3>1 DEF Named
    <3>. QED
      BY <1>6, <3>1, <3>2 DEF Named
  <2>. QED
    BY <2>1, <2>2, <2>3
<1>9. PICK T, Q, S, R : /\ T = Named(opts, "errWrap") /\ Q = Named(opts, "errWrapReset")
                        /\ S = Named(C, "errWrap") /\ R = Named(C, "errWrapReset")
  OBVIOUS
<1>10. T \subseteq A /\ Q \subseteq A /\ S = Image(w, T) /\ R = Image(w, Q)
  BY <1>8, <1>9 DEF Wrapping
<1>11. T \cap Q = {}
  BY <1>9 DEF Named
<1>12. Grows(w, T \cup Q)
  <2>1. \A j, k \in A : j < k => RankIn(A, j) < RankIn(A, k)
    BY <1>2, RankGrows DEF Halved
  <2>. QED
    BY <1>5, <1>10, <2>1 DEF Grows
<1>13. Reaching(opts, T, Q)
  BY <1>1, <1>10 DEF Reaching
<1>14. Places(opts, C, w, T \cup Q)
  <2>1. A \subseteq DOMAIN opts /\ IsSeq(C)
    BY <1>1, <1>2 DEF Halved
  <2>. QED
    BY <1>4, <1>6, <1>10, <2>1 DEF Places
<1>15. Left(C, S, R) = Standing(opts, T, Q)
  BY <1>10, <1>11, <1>12, <1>13, <1>14, LeftPlaces
<1>. QED
  BY <1>9, <1>15 DEF WrapsLeft, WrapsOf

(* A sample that is the only one is the last. *)
LEMMA OnlySample ==
  ASSUME NEW opts, SampledOnce(opts), NEW side \in Sides
  PROVE  FirstSample(opts, side) = SampleOf(opts, side)
<1>1. PICK N, s : N = Named(opts, "sample") /\ s = Picked(opts, N)
  OBVIOUS
<1>2. CASE N = {}
  <2>1. s = <<>>
    BY <1>1, <1>2, PickedNone
  <2>2. [x |-> Nil, y |-> Nil][side] = Nil
    BY DEF Sides
  <2>. QED
    BY <1>1, <2>1, <2>2 DEF FirstSample, SampleOf, LastOr
<1>3. CASE N # {}
  <2>1. PICK i : N = {i}
    <3>1. PICK i \in N : TRUE
      BY <1>3
    <3>2. \A j \in N : j = i
      BY <1>1 DEF SampledOnce
    <3>. QED
      BY <3>2
  <2>2. Cardinality(N) = 1
    BY <2>1, FS_Singleton
  <2>3. s = [k \in 1 .. 1 |-> opts[Nth(N, k)]]
    BY <1>1, <2>2 DEF Picked
  <2>4. IsSeq(s) /\ Len(s) = 1
    <3>1. s = [k \in 1 .. 1 |-> s[k]]
      BY <2>3
    <3>. QED
      BY <3>1, FunctionIsSeq
  <2>5. s # <<>>
    BY <2>4
  <2>. QED
    BY <1>1, <2>4, <2>5 DEF FirstSample, SampleOf, LastOr
<1>. QED
  BY <1>2, <1>3

(* A configuration that follows what Update leaves of the options follows    *)
(* them as the properties say.                                               *)
Complies(c, opts, kind, own) ==
  /\ InOrder(opts, kind, Renamings, "renameReset") => RenamesAre(c, ForKind(opts, kind) \o own)
  /\ InOrder(opts, kind, Discovered, "fieldsOnly") => DiscoveryIs(c, ForKind(opts, kind) \o own)
  /\ c.errWraps = WrapsOf(opts)

LEMMA FollowsComplies ==
  ASSUME NEW opts, IsList(opts), \A i \in DOMAIN opts : opts[i].op \in Wrapping => opts[i].into = Nil,
         NEW kind \in Kinds, NEW own, IsSeq(own),
         \A k \in DOMAIN own : own[k].into = Nil /\ own[k].op \notin Wrapping,
         NEW c, Follows(heap, c, (Given(opts, Nil) \o Given(opts, kind)) \o own)
  PROVE  Complies(c, opts, kind, own)
<1>1. PICK C, D : C = (Given(opts, Nil) \o Given(opts, kind)) \o own /\ D = ForKind(opts, kind) \o own
  OBVIOUS
<1>2. kind # Nil
  BY KindsAssumption
<1>3. PICK w : KeepsPlaces(D, C, w, opts, kind)
  BY <1>1, <1>2, ModulePlaces
<1>4. Covers(D, C, w)
  BY <1>3 DEF KeepsPlaces
<1>5. Follows(heap, c, C)
  BY <1>1
<1>6. ASSUME InOrder(opts, kind, Renamings, "renameReset")
      PROVE  RenamesAre(c, D)
  <2>1. Grows(w, OfOps(D, Renamings)) /\ Reaches(D, Renamings, "renameReset")
    BY <1>3, <1>6 DEF KeepsPlaces
  <2>2. \A side \in Sides : RulesLeft(C, side) = RulesOf(D, side)
    BY <1>4, <2>1, LeavesRules
  <2>. QED
    BY <1>5, <2>2 DEF Follows, RulesFilled, RenamesAre, Rules
<1>7. ASSUME InOrder(opts, kind, Discovered, "fieldsOnly")
      PROVE  DiscoveryIs(c, D)
  <2>1. Grows(w, OfOps(D, Discovered)) /\ Reaches(D, Discovered, "fieldsOnly")
    BY <1>3, <1>7 DEF KeepsPlaces
  <2>2. /\ AffixLeft(C, "getters", "x") = AffixOf(D, "getters", "x")
        /\ AffixLeft(C, "setters", "y") = AffixOf(D, "setters", "y")
    BY <1>4, <2>1, LeavesAffixes
  <2>3. UnexportedOf(C) = UnexportedOf(D)
    BY <1>4, <2>1, LeavesUnexported
  <2>4. c.unexported = UnexportedIn(C)
    BY <1>5 DEF Follows, RestFilled
  <2>5. [side \in Sides |-> c.unexported[side]] = UnexportedOf(C)
    BY <2>4, UnexportedIs
  <2>6. c.getters = AffixLeft(C, "getters", "x") /\ c.setters = AffixLeft(C, "setters", "y")
    BY <1>5 DEF Follows, RestFilled
  <2>. QED
    BY <2>2, <2>3, <2>5, <2>6 DEF DiscoveryIs
<1>8. c.errWraps = WrapsOf(opts)
  <2>1. WrapsLeft(C) = WrapsOf(opts)
    BY <1>1, <1>2, LeavesWraps
  <2>. QED
    BY <1>5, <2>1 DEF Follows, RestFilled
<1>. QED
  BY <1>1, <1>6, <1>7, <1>8 DEF Complies

(* What a directive or a subconverter starts from. *)
LEMMA StartsAre ==
  ASSUME Placed, NEW m \in 0 .. Len(prog.modules), NEW opts, opts = OptionsOf(m)
  PROVE  /\ IsList(opts) /\ \A i \in DOMAIN opts : opts[i].op \in Wrapping => opts[i].into = Nil
         /\ \A kind : Starts(prog, m, kind) = Given(opts, Nil) \o Given(opts, kind)
<1>1. CASE m = 0
  <2>1. opts = <<>> /\ DOMAIN opts = {} /\ IsList(opts)
    BY <1>1 DEF OptionsOf, IsList
  <2>2. \A into : Given(opts, into) = <<>>
    BY <2>1, PickedNone DEF Given
  <2>. QED
    BY <1>1, <2>1, <2>2 DEF Starts
<1>2. CASE m # 0
  <2>1. m \in DOMAIN prog.modules /\ opts = prog.modules[m]
    BY <1>2, ProgramsAre DEF OptionsOf
  <2>2. IsList(opts)
    BY <2>1, ProgramsAssumption DEF Placed
  <2>3. \A i \in DOMAIN opts : opts[i].op \in Wrapping => opts[i].into = Nil
    BY <2>1, OptionsAssumption DEF Placed, Wrapping, Everywhere
  <2>. QED
    BY <1>2, <2>1, <2>2, <2>3 DEF Starts
<1>. QED
  BY <1>1, <1>2

(* A directive's own options are for all kinds, and wrap nothing. *)
LEMMA OwnAre ==
  ASSUME Placed, NEW n \in DOMAIN prog.directives
  PROVE  LET d == prog.directives[n]
         IN  /\ d.mod \in 0 .. Len(prog.modules) /\ d.kind \in Kinds /\ IsSeq(d.opts)
             /\ \A k \in DOMAIN d.opts : d.opts[k].into = Nil /\ d.opts[k].op \notin Wrapping
<1>1. PICK d : d = prog.directives[n]
  OBVIOUS
<1>2. /\ d.mod \in 0 .. Len(prog.modules) /\ d.kind \in Kinds /\ IsList(d.opts)
      /\ \A k \in DOMAIN d.opts : d.opts[k].into = Nil
  BY <1>1, ProgramsAssumption DEF Placed
<1>3. \A k \in DOMAIN d.opts : d.opts[k].op \in Everywhere \cup OfPaths
  BY <1>1, OptionsAssumption DEF Placed
<1>4. \A k \in DOMAIN d.opts : d.opts[k].op \notin Wrapping
  BY <1>3 DEF Wrapping, Everywhere, OfPaths
<1>. QED
  BY <1>1, <1>2, <1>4, ListIs

LEMMA InjectorsComply ==
  ASSUME Inv, Full, NEW k \in DOMAIN injs
  PROVE  LET d == prog.directives[injs[k].n]
         IN  Complies(injs[k].cfg, OptionsOf(d.mod), d.kind, d.opts) /\ Owned(injs[k].cfg, d.opts)
<1>1. PICK c, n, d, opts : /\ c = injs[k].cfg /\ n = injs[k].n /\ d = prog.directives[n]
                           /\ opts = OptionsOf(d.mod)
  OBVIOUS
<1>2. /\ n \in DOMAIN prog.directives /\ Owned(c, d.opts)
      /\ Follows(heap, c, Starts(prog, d.mod, d.kind) \o d.opts)
  BY <1>1 DEF Full, Done, InjsFilled, InjFilled
<1>3. /\ d.mod \in 0 .. Len(prog.modules) /\ d.kind \in Kinds /\ IsSeq(d.opts)
      /\ \A i \in DOMAIN d.opts : d.opts[i].into = Nil /\ d.opts[i].op \notin Wrapping
  <2>1. LET e == prog.directives[n]
        IN  /\ e.mod \in 0 .. Len(prog.modules) /\ e.kind \in Kinds /\ IsSeq(e.opts)
            /\ \A i \in DOMAIN e.opts : e.opts[i].into = Nil /\ e.opts[i].op \notin Wrapping
    BY <1>2, OwnAre DEF Inv
  <2>. QED
    BY <1>1, <2>1
<1>4. /\ IsList(opts) /\ \A i \in DOMAIN opts : opts[i].op \in Wrapping => opts[i].into = Nil
      /\ Starts(prog, d.mod, d.kind) = Given(opts, Nil) \o Given(opts, d.kind)
  <2>1. PICK m : m = d.mod
    OBVIOUS
  <2>2. m \in 0 .. Len(prog.modules) /\ opts = OptionsOf(m) /\ Placed
    BY <1>1, <1>3, <2>1 DEF Inv
  <2>. QED
    BY <2>1, <2>2, StartsAre
<1>5. PICK kind, own : kind = d.kind /\ own = d.opts
  OBVIOUS
<1>6. /\ Follows(heap, c, (Given(opts, Nil) \o Given(opts, kind)) \o own) /\ kind \in Kinds
      /\ IsSeq(own) /\ \A i \in DOMAIN own : own[i].into = Nil /\ own[i].op \notin Wrapping
  BY <1>2, <1>3, <1>4, <1>5
<1>7. Complies(c, opts, kind, own)
  BY <1>4, <1>6, FollowsComplies
<1>. QED
  BY <1>1, <1>2, <1>5, <1>7

LEMMA FullIsInForce ==
  ASSUME Inv, Full
  PROVE  RenamesInForce /\ DiscoveryInForce /\ MatchesInForce
<1>1. ASSUME NEW k \in DOMAIN injs, NEW d, d = prog.directives[injs[k].n], NEW c, c = injs[k].cfg
      PROVE  /\ RenamesInOrder(d.mod, d.kind) => RenamesAre(c, InForce(d))
             /\ DiscoveryInOrder(d.mod, d.kind) => DiscoveryIs(c, InForce(d))
             /\ c.errWraps = WrapsOf(OptionsOf(d.mod)) /\ Owned(c, d.opts)
  <2>1. Complies(c, OptionsOf(d.mod), d.kind, d.opts) /\ Owned(c, d.opts)
    BY <1>1, InjectorsComply
  <2>. QED
    BY <2>1 DEF Complies, RenamesInOrder, DiscoveryInOrder, InForce, OfModule
<1>2. RenamesInForce
  BY <1>1 DEF RenamesInForce
<1>3. DiscoveryInForce
  <2>1. ASSUME NEW k \in DOMAIN injs, NEW d, d = prog.directives[injs[k].n], NEW c, c = injs[k].cfg
        PROVE  /\ SampledOnce(d.opts) => \A side \in Sides : c.bySample[side] = SampleOf(d.opts, side)
               /\ \A side \in Sides : c.nested[side] = NestedOf(d.opts, side)
    <3>1. PICK opts : opts = d.opts
      OBVIOUS
    <3>2. Owned(c, opts)
      BY <1>1, <2>1, <3>1
    <3>3. SampledOnce(opts) => \A side \in Sides : FirstSample(opts, side) = SampleOf(opts, side)
      BY OnlySample
    <3>. QED
      BY <3>1, <3>2, <3>3 DEF Owned
  <2>. QED
    BY <1>1, <2>1 DEF DiscoveryInForce
<1>4. MatchesInForce
  <2>1. ASSUME NEW c, NEW opts, Owned(c, opts), NEW S, S = Matching(opts)
        PROVE  /\ c.match = PairsOf(opts, S)
               /\ c.matchSkip = PairsOf(opts, Named(opts, "matchSkip"))
               /\ \A j \in S : FuncIn(c, opts[j].pair) = FuncOf(opts, opts[j].pair)
               /\ DOMAIN c.matchFuncs.of = FuncPairs(opts)
    <3>1. \A pair : FuncIn(c, pair) = FuncOf(opts, pair)
      BY <2>1 DEF Owned
    <3>2. \A j \in S : FuncIn(c, opts[j].pair) = FuncOf(opts, opts[j].pair)
      <4>. TAKE j \in S
      <4>1. PICK pair : pair = opts[j].pair
        OBVIOUS
      <4>2. FuncIn(c, pair) = FuncOf(opts, pair)
        BY <3>1
      <4>. QED
        BY <4>1, <4>2
    <3>3. c.match = PairsOf(opts, S) /\ c.matchSkip = PairsOf(opts, Named(opts, "matchSkip"))
      BY <2>1 DEF Owned
    <3>4. DOMAIN c.matchFuncs.of = FuncPairs(opts)
      BY <2>1 DEF Owned
    <3>. QED
      BY <3>2, <3>3, <3>4
  <2>2. ASSUME NEW k \in DOMAIN injs
        PROVE  LET d == prog.directives[injs[k].n]
                   c == injs[k].cfg
                   S == Named(d.opts, "match") \cup Named(d.opts, "matchFunc")
               IN  /\ c.match = PairsOf(d.opts, S)
                   /\ c.matchSkip = PairsOf(d.opts, Named(d.opts, "matchSkip"))
                   /\ \A j \in S : FuncIn(c, d.opts[j].pair) = FuncOf(d.opts, d.opts[j].pair)
                   /\ DOMAIN c.matchFuncs.of = {d.opts[j].pair : j \in Named(d.opts, "matchFunc")}
                   /\ c.errWraps = WrapsOf(OptionsOf(d.mod))
    <3>1. PICK d, c, opts : /\ d = prog.directives[injs[k].n] /\ c = injs[k].cfg
                            /\ opts = d.opts
      OBVIOUS
    <3>2. PICK S : S = Matching(opts)
      OBVIOUS
    <3>3. Owned(c, opts) /\ c.errWraps = WrapsOf(OptionsOf(d.mod))
      BY <3>1, <1>1
    <3>4. /\ c.match = PairsOf(opts, S)
          /\ c.matchSkip = PairsOf(opts, Named(opts, "matchSkip"))
          /\ \A j \in S : FuncIn(c, opts[j].pair) = FuncOf(opts, opts[j].pair)
          /\ DOMAIN c.matchFuncs.of = FuncPairs(opts)
      BY <3>2, <3>3, <2>1
    <3>5. S = Named(d.opts, "match") \cup Named(d.opts, "matchFunc")
      BY <3>1, <3>2 DEF Matching
    <3>6. FuncPairs(opts) = {d.opts[j].pair : j \in Named(d.opts, "matchFunc")}
      BY <3>1 DEF FuncPairs
    <3>. QED
      BY <3>1, <3>3, <3>4, <3>5, <3>6
  <2>. QED
    BY <2>2 DEF MatchesInForce
<1>. QED
  BY <1>2, <1>3, <1>4

LEMMA FullInherits ==
  ASSUME Inv, Full
  PROVE  SubconvertersInherit
<1>1. ASSUME NEW k \in DOMAIN subs, NEW c, c = subs[k].cfg,
             NEW m, m = prog.directives[subs[k].n].mod
      PROVE  Complies(c, OptionsOf(m), "struct", <<>>) /\ NoPaths(c) /\ IsSeq(OfModule(m, "struct"))
  <2>1. PICK n, opts, kind, own : n = subs[k].n /\ opts = OptionsOf(m) /\ kind = "struct" /\ own = <<>>
    OBVIOUS
  <2>2. n \in DOMAIN prog.directives /\ Follows(heap, c, Starts(prog, m, kind)) /\ NoPaths(c)
    BY <1>1, <2>1 DEF Full, Done, SubsFilled, SubFilled
  <2>3. m \in 0 .. Len(prog.modules)
    BY <1>1, <2>1, <2>2, OwnAre DEF Inv
  <2>4. /\ IsList(opts) /\ \A i \in DOMAIN opts : opts[i].op \in Wrapping => opts[i].into = Nil
        /\ Starts(prog, m, kind) = Given(opts, Nil) \o Given(opts, kind)
    BY <2>1, <2>3, StartsAre DEF Inv
  <2>5. IsSeq(Given(opts, Nil)) /\ IsSeq(Given(opts, kind)) /\ IsSeq(ForKind(opts, kind))
    BY <2>4, ListIs, PickedOfSeq DEF Given, ForKind
  <2>6. (Given(opts, Nil) \o Given(opts, kind)) \o own = Given(opts, Nil) \o Given(opts, kind)
    BY <2>1, <2>5, Joined, JoinedNone
  <2>7. kind \in Kinds /\ IsSeq(own) /\ DOMAIN own = {}
    BY <2>1, NoneIsSeq DEF Kinds
  <2>8. Follows(heap, c, (Given(opts, Nil) \o Given(opts, kind)) \o own)
    BY <2>2, <2>4, <2>6
  <2>9. \A i \in DOMAIN own : own[i].into = Nil /\ own[i].op \notin Wrapping
    BY <2>7
  <2>10. Complies(c, opts, kind, own)
    BY <2>4, <2>7, <2>8, <2>9, FollowsComplies
  <2>. QED
    BY <2>1, <2>2, <2>5, <2>10 DEF OfModule
<1>2. ASSUME NEW k \in DOMAIN subs, NEW c, c = subs[k].cfg,
             NEW m, m = prog.directives[subs[k].n].mod
      PROVE  /\ RenamesInOrder(m, "struct") => RenamesAre(c, OfModule(m, "struct"))
             /\ DiscoveryInOrder(m, "struct") => DiscoveryIs(c, OfModule(m, "struct"))
             /\ c.errWraps = WrapsOf(OptionsOf(m)) /\ NoPaths(c)
  <2>1. Complies(c, OptionsOf(m), "struct", <<>>) /\ NoPaths(c) /\ IsSeq(OfModule(m, "struct"))
    BY <1>1, <1>2
  <2>2. OfModule(m, "struct") \o <<>> = OfModule(m, "struct")
    BY <2>1, JoinedNone
  <2>. QED
    BY <2>1, <2>2 DEF Complies, RenamesInOrder, DiscoveryInOrder, OfModule
<1>. QED
  BY <1>2 DEF SubconvertersInherit, NoPaths

LEMMA SoundIsTyped ==
  ASSUME IsSeq(heap), NEW c, Sound(heap, c)
  PROVE  /\ DOMAIN c = DOMAIN EmptyConfig
         /\ \A l \in Lists :
              LET s == c.lists[l]
              IN  s = NilSlice \/ (s.arr \in DOMAIN heap /\ s.len \in 1 .. Len(heap[s.arr]))
<1>1. DOMAIN heap = 1 .. Len(heap)
  BY SeqIs
<1>2. \A l \in Lists : Fits(heap, c.lists[l])
  BY DEF Sound, Tidy, State
<1>. QED
  BY <1>1, <1>2 DEF Sound, Shaped, Fits

LEMMA FullIsTyped ==
  ASSUME Inv, Full
  PROVE  TypeOK
<1>1. IsSeq(heap) /\ at.i \in Nat
  BY DEF Inv, Kept, Placed
<1>2. ASSUME NEW c \in {cfg} \cup {injs[k].cfg : k \in DOMAIN injs} \cup {subs[k].cfg : k \in DOMAIN subs}
                       \cup {mods[m].cfg : m \in DOMAIN mods}
      PROVE  Sound(heap, c)
  <2>1. c = cfg \/ c \in Finished
    BY <1>2 DEF Finished, Configs
  <2>2. Sound(heap, cfg)
    BY DEF Full, Sounds, SlotsOf, AtOf
  <2>. QED
    BY <2>1, <2>2 DEF Full, Sounds
<1>. QED
  BY <1>1, <1>2, SoundIsTyped DEF TypeOK, Full, Phases

LEMMA FullHolds == Spec => [](Inv /\ Full)
<1>1. Init => Inv /\ Full
  BY InvInit, FullInit
<1>2. Inv /\ Full /\ [Next]_vars => (Inv /\ Full)'
  BY InvNext, FullNext
<1>. QED
  BY <1>1, <1>2, PTL DEF Spec

(* No configuration loses a field, and each list of rules is in an array     *)
(* that is there and has room for it (config.go:29-71).                      *)
THEOREM TypeCorrect == Spec => []TypeOK
<1>1. Inv /\ Full => TypeOK
  BY FullIsTyped
<1>. QED
  BY <1>1, FullHolds, PTL

(* Whatever a package's modules and directives are, each directive renames   *)
(* by the rules of its module, those for its kind and its own, as they are   *)
(* registered and since the last reset, whatever other directives of the     *)
(* module add to the same rules or clear of them (config.go:72-111).  That   *)
(* is so if its module registers its rules before those for the kind and     *)
(* resets none of them there; of another, RenamesAsRegistered may be false.  *)
THEOREM RenamesAreInForce == Spec => []RenamesInForce
<1>1. Inv /\ Full => RenamesInForce
  BY FullIsInForce
<1>. QED
  BY <1>1, FullHolds, PTL

(* Each directive discovers what the last option about it says: its own,     *)
(* that of its module for its kind, or that of its module (config.go:95-136), *)
(* and by its sample if it has one alone.  As for renaming, its module's     *)
(* options come before those for its kind, where none is switched off.       *)
THEOREM DiscoveryIsInForce == Spec => []DiscoveryInForce
<1>1. Inv /\ Full => DiscoveryInForce
  BY FullIsInForce
<1>. QED
  BY <1>1, FullHolds, PTL

(* Each directive matches and skips what its own options say, in their       *)
(* order, and converts a pair by its last function for it, whatever other    *)
(* directives match; it wraps errors as its module says.                     *)
THEOREM MatchesAreInForce == Spec => []MatchesInForce
<1>1. Inv /\ Full => MatchesInForce
  BY FullIsInForce
<1>. QED
  BY <1>1, FullHolds, PTL

(* Subconverters are built with the options of the module, those for structs *)
(* among them, and with none of the directive's, if the module's own come    *)
(* before those for structs and none of them is undone there.                *)
THEOREM ModulesAreInherited == Spec => []SubconvertersInherit
<1>1. Inv /\ Full => SubconvertersInherit
  BY FullInherits
<1>. QED
  BY <1>1, FullHolds, PTL
=============================================================================
