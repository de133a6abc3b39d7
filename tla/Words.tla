-------------------------------- MODULE Words --------------------------------
(***************************************************************************)
(* What the names of the members of a type begin with in common, which     *)
(* RenameTrimCommonPrefix and RenameTrimCommonWordPrefix take away: letter *)
(* by letter, or word by word.  The suffixes are the prefixes of the names *)
(* reversed.                                                               *)
(*                                                                         *)
(* The sorting of names that are split into words goes by a comparison     *)
(* that takes a name for equal to one that goes on after it, so it is no   *)
(* order: what it finds depends on how the sort goes about it.             *)
(***************************************************************************)
EXTENDS Naturals, Sequences, FiniteSets

CONSTANTS
  Bytes, \* in their order
  Lower, Upper, Digit, Underscore

LOCAL INSTANCE SequencesExt

ASSUME BytesAssumption ==
  /\ \A i, j \in DOMAIN Bytes : Bytes[i] = Bytes[j] => i = j
  /\ \A i \in DOMAIN Bytes :
       Cardinality({C \in {Lower, Upper, Digit, Underscore} : Bytes[i] \in C}) = 1

Code(byte) == CHOOSE i \in DOMAIN Bytes : Bytes[i] = byte

(* The comparison of strings: a prefix comes first. *)
Compare(s, t) ==
  IF s = t THEN "equal"
  ELSE IF \/ IsStrictPrefix(s, t)
          \/ \E k \in DOMAIN s \cap DOMAIN t :
               /\ SubSeq(s, 1, k - 1) = SubSeq(t, 1, k - 1)
               /\ Code(s[k]) < Code(t[k])
       THEN "less" ELSE "greater"

Less(s, t) == Compare(s, t) = "less"

-----------------------------------------------------------------------------
(* The first that nothing is less than, or nothing greater, as slices.Min,   *)
(* MinFunc and so on keep it.                                                *)
Least(seq, less(_, _)) ==
  FoldLeft(LAMBDA m, s : IF less(s, m) THEN s ELSE m, Head(seq), Tail(seq))

Greatest(seq, less(_, _)) ==
  FoldLeft(LAMBDA m, s : IF less(m, s) THEN s ELSE m, Head(seq), Tail(seq))

(* Up to the first difference of the two; "panic" beyond the end of max. *)
UpToDifference(min, max) ==
  LET differs(i) == i \notin DOMAIN max \/ min[i] # max[i]
      ends == {i \in DOMAIN min : differs(i)}
  IN  IF ends = {} THEN min
      ELSE LET i == CHOOSE j \in ends : \A k \in ends : j <= k
           IN  IF i \in DOMAIN max THEN SubSeq(min, 1, i - 1) ELSE "panic"

CommonPrefix(names) ==
  IF names = <<>> THEN <<>>
  ELSE UpToDifference(Least(names, Less), Greatest(names, Less))

(* Mutant: what is found is not turned round again. *)
CommonSuffixReversed(names) == CommonPrefix([i \in DOMAIN names |-> Reverse(names[i])])

CommonSuffix(names) == Reverse(CommonPrefix([i \in DOMAIN names |-> Reverse(names[i])]))

-----------------------------------------------------------------------------
(* isWordBoundary, between the (j-1)th and the jth byte. *)
IsWordBoundary(name, j) ==
  LET prev == name[j - 1]  curr == name[j]
  IN  \/ prev \in Lower /\ curr \in Upper
      \/ curr \in Upper /\ j < Len(name) /\ name[j + 1] \in Lower
      \/ (prev \in Underscore) # (curr \in Underscore)
      \/ prev \in Lower \cup Upper /\ curr \in Digit
      \/ prev \in Digit /\ curr \in Lower \cup Upper

SplitWords(name) ==
  LET starts == {1} \cup {j \in 2 .. Len(name) : IsWordBoundary(name, j)}
      ends   == {j - 1 : j \in starts \ {1}} \cup {Len(name)}
      end(i) == CHOOSE k \in ends : k >= i /\ \A l \in ends : l >= i => k <= l
      words  == SetToSortSeq(starts, LAMBDA i, j : i < j)
  IN  IF name = <<>> THEN <<>>
      ELSE [w \in DOMAIN words |-> SubSeq(name, words[w], end(words[w]))]

(* cmpFn: the words both have are compared, and no others. *)
WordsLess(v, w) ==
  \E k \in DOMAIN v \cap DOMAIN w :
    /\ SubSeq(v, 1, k - 1) = SubSeq(w, 1, k - 1)
    /\ Less(v[k], w[k])

(* slices.SortFunc inserts each into those before it, if there are no more   *)
(* than twelve.                                                              *)
Insert(sorted, w) ==
  LET after == {k \in 0 .. Len(sorted) : \A i \in k + 1 .. Len(sorted) : WordsLess(w, sorted[i])}
      at    == CHOOSE k \in after : \A l \in after : k <= l
  IN  SubSeq(sorted, 1, at) \o <<w>> \o SubSeq(sorted, at + 1, Len(sorted))

SortWords(lists) == FoldLeft(Insert, <<>>, lists)

LcsWord(lists) ==
  IF lists = <<>> THEN <<>>
  ELSE LET sorted == SortWords(lists)
       IN  UpToDifference(Least(sorted, WordsLess), Greatest(sorted, WordsLess))

CommonWordPrefix(names) ==
  FlattenSeq(LcsWord([i \in DOMAIN names |-> SplitWords(names[i])]))

CommonWordSuffix(names) ==
  FlattenSeq(Reverse(LcsWord([i \in DOMAIN names |-> Reverse(SplitWords(names[i]))])))
=============================================================================
