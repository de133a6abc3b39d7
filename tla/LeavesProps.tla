----------------------------- MODULE LeavesProps -----------------------------
(***************************************************************************)
(* The algorithms of Accessors, Words and Basic against what they are      *)
(* for, question by question.                                              *)
(***************************************************************************)
EXTENDS Accessors, Words, Basic

CONSTANTS
  Sides,       \* questions of Accessors
  Assignments, \* sequences of pairs of fields, those of X and those of Y
  NameLists    \* sequences of names

LOCAL INSTANCE SequencesExt

VARIABLES question, answer

Unanswered == <<>>

Init ==
  /\ question \in [about : {"side"}, of : Sides]
                  \cup [about : {"pairs"}, of : Assignments]
                  \cup [about : {"names"}, of : NameLists]
                  \cup [about : {"kinds"}, of : Kinds \X Kinds]
  /\ answer = Unanswered

Answer(about, value) ==
  /\ question.about = about
  /\ answer = Unanswered
  /\ answer' = [about |-> about, is |-> value]
  /\ UNCHANGED question

Discover == Answer("side", [panics |-> AddPanics(question.of), index |-> Index(question.of)])
Assign   == Answer("pairs", Writes(question.of))
Trim     == Answer("names", [letters |-> <<CommonPrefix(question.of), CommonSuffix(question.of)>>,
                             words   |-> <<CommonWordPrefix(question.of),
                                           CommonWordSuffix(question.of)>>])
Convert  == Answer("kinds", TryBasic(question.of[1], question.of[2]))

Answered(about) == question.about = about /\ answer # Unanswered

Done == answer # Unanswered /\ UNCHANGED <<question, answer>>

Next == Discover \/ Assign \/ Trim \/ Convert \/ Done

Spec == Init /\ [][Next]_<<question, answer>>

-----------------------------------------------------------------------------
(* What the user means by the options: the members of the struct and of each *)
(* field opened, but not the fields opened, and what Match names.            *)
Reached(q) ==
  UNION {{[owner |-> o, member |-> f.member] : f \in ToSet(Discovered(q, o))} :
           o \in {<<>>} \cup ToSet(q.opened)}

Opened(q) ==
  UNION {{[owner |-> Front(p), member |-> m] : m \in Resolve(q, p)} : p \in ToSet(q.opened)}

NamedFields(q) == UNION {Named(q, p) : p \in ToSet(q.named)}

Expected(q) == (Reached(q) \ Opened(q)) \cup NamedFields(q)

(* Where Convgen does not do as meant.  A struct is the type of two fields   *)
(* of which members are discovered, opened or named (index.go:29); a path    *)
(* goes through the fields of an embedded one (struct.go:520); an accessor   *)
(* belongs to a field opened, and the struct does not have it by embedding   *)
(* (struct.go:249); its parameters and results are not those of the call     *)
(* (func.go:148, struct.go:568).                                             *)
Ambiguous(q, f) ==
  \E g \in Reached(q) \cup Opened(q) \cup NamedFields(q) :
    g.owner # f.owner /\ Decl(g.member) = Decl(f.member)

Unwalkable(q, f) == Walk(q, f.owner) = {}

Misplaced(q, f) ==
  /\ ~f.member.field
  /\ f \notin NamedFields(q)
  /\ Select(q, q.root, f.member.name) # {f.member}

Misfit(q, f) == ~f.member.field /\ ~CallsRight(q, f.member)

(* The code for a member selects it where it is declared and calls it right. *)
Right(q, f, entry) ==
  /\ entry.member = f.member
  /\ Accessed(q, entry) = {f.member}
  /\ f.member.field \/ CallsRight(q, f.member)
  /\ f.member.field => entry.owner = f.owner

(* Opened before a field that it is in, or named by Match all the same. *)
PutBack(q, entry) ==
  LET path == Append(entry.owner, entry.member.name)
  IN  \E i, j \in DOMAIN q.opened : i < j /\ q.opened[i] = path /\ q.opened[j] = entry.owner

(* Every member the user means is matched, by code that reads or writes that *)
(* member and no other, and nothing else is (struct.go:174-293, 473-610);    *)
(* but for the members that are named above, and for those alone.  Building  *)
(* panics only at an accessor that is called by its affixes.                 *)
MembersAreReached ==
  Answered("side") =>
    LET q == question.of  index == ToSet(answer.is.index)
    IN  /\ answer.is.panics => \E f \in Expected(q) : f.member.key = ""
        /\ \A f \in Expected(q) :
             Ambiguous(q, f)
             \/ ((\E entry \in index : Right(q, f, entry))
                   <=> ~(Unwalkable(q, f) \/ Misplaced(q, f) \/ Misfit(q, f)))
        /\ \A entry \in index :
             \/ \E f \in Expected(q) : f.member = entry.member
             \/ PutBack(q, entry)

(* "Once [Build] succeeds, [Generate] never fails" (convgen.go:26): writing   *)
(* the code finds every field that leads to a member matched (struct.go:520).*)
GenerateNeverFails ==
  Answered("side") /\ ~answer.is.panics =>
    \A entry \in ToSet(answer.is.index) : Walk(question.of, entry.owner) # {}

-----------------------------------------------------------------------------
Target(pair) == Append(pair[2].owner, pair[2].member.name)

(* A field of Y that is assigned by parts and as a whole is assigned as a    *)
(* whole first, so that nothing is written over (struct.go:405-407), unless  *)
(* the whole is taken from inside a field of X.  And each pair is assigned   *)
(* once.                                                                     *)
WritesSurvive ==
  Answered("pairs") =>
    LET pairs == question.of  writes == answer.is
    IN  /\ Len(writes) = Len(pairs) /\ ToSet(writes) = ToSet(pairs)
        /\ \A i, j \in DOMAIN writes :
             i < j /\ IsStrictPrefix(Target(writes[j]), Target(writes[i]))
               => writes[j][1].owner # <<>>

-----------------------------------------------------------------------------
CommonStarts(lists) ==
  {p \in {SubSeq(lists[1], 1, n) : n \in 0 .. Len(lists[1])} :
     \A i \in DOMAIN lists : IsPrefix(p, lists[i])}

LongestStart(lists) ==
  CHOOSE p \in CommonStarts(lists) : \A r \in CommonStarts(lists) : Len(r) <= Len(p)

(* One name goes on where another ends. *)
GoesOn(lists) == \E i, j \in DOMAIN lists : IsStrictPrefix(lists[i], lists[j])

Reversed(lists) == [i \in DOMAIN lists |-> Reverse(lists[i])]
SplitAll(names) == [i \in DOMAIN names |-> SplitWords(names[i])]

(* What the names of a type are found to have in common is the longest there *)
(* is, letter by letter always, word by word unless one of them is all the   *)
(* words that another begins, or ends, with (word.go:38).  The words of a    *)
(* name are the name.                                                        *)
CommonIsLongest ==
  Answered("names") =>
    LET names == question.of  words == SplitAll(names)
    IN  /\ \A i \in DOMAIN names : FlattenSeq(words[i]) = names[i]
        /\ answer.is.letters =
             <<LongestStart(names), Reverse(LongestStart(Reversed(names)))>>
        /\ ~GoesOn(words) => answer.is.words[1] = FlattenSeq(LongestStart(words))
        /\ ~GoesOn(Reversed(words)) =>
             answer.is.words[2] = FlattenSeq(Reverse(LongestStart(Reversed(words))))

-----------------------------------------------------------------------------
(* The bits of a kind where int has so many, and of the mantissa of floats.  *)
BitsOf(kind, word) ==
  CASE kind \in {"int", "uint", "uintptr"} -> word
    [] kind \in {"int8", "uint8"} -> 8
    [] kind \in {"int16", "uint16"} -> 16
    [] kind \in {"int32", "uint32", "float32", "complex64"} -> 32
    [] kind \in {"int64", "uint64", "float64", "complex128"} -> 64
    [] OTHER -> 0

(* Every value of x is one of y. *)
Lossless(x, y, word) ==
  /\ ClassOf(x) = ClassOf(y)
  /\ x \in Signed => y \notin Unsigned
  /\ BitsOf(x, word) <= BitsOf(y, word)
  /\ x \in Unsigned /\ y \in Signed => BitsOf(x, word) < BitsOf(y, word)

(* A conversion is written only if it loses nothing (basic.go:12), on        *)
(* machines of either word, but for two holes: a negative number converted   *)
(* to an unsigned one; and kinds as wide as the machine, where int and uint  *)
(* count as 32 bits and uintptr as wider than any (basic.go:87-96).          *)
ConversionsLoseNothing ==
  Answered("kinds") /\ answer.is = "convert" =>
    LET x == question.of[1]  y == question.of[2]
    IN  \A word \in {32, 64} :
          \/ Lossless(x, y, word)
          \/ x \in Signed /\ y \in Unsigned
          \/ word = 64 /\ <<x, y>> \in {<<"int", "int32">>, <<"uint", "uint32">>, <<"uint", "int64">>}
          \/ word = 32 /\ <<x, y>> = <<"uint64", "uintptr">>
=============================================================================
