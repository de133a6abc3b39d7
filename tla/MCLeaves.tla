------------------------------- MODULE MCLeaves -------------------------------
(***************************************************************************)
(* Questions to Accessors, Words and Basic.                                *)
(*                                                                         *)
(*   type R struct { H T; W T or string; E; S string }                     *)
(*   type T struct { C string; D N }                                       *)
(*   type N struct { U string }                                            *)
(*   type E struct { P N }                                                 *)
(*                                                                         *)
(* and a method M, GetM or SetM, of some of R, T and E.                    *)
(***************************************************************************)
EXTENDS LeavesProps

LOCAL INSTANCE SequencesExt

MCIdents  == <<"C", "D", "E", "H", "M", "P", "S", "U", "W">>
MCStructs == {"R", "T", "N", "E"}
MCLeaf    == "string"

FieldOf(of, name, type) ==
  [of |-> of, name |-> name, field |-> TRUE, embedded |-> name = type, type |-> type,
   key |-> name, ins |-> <<>>, outs |-> <<>>, variadic |-> FALSE]

Signature(ins, outs, variadic) == [ins |-> ins, outs |-> outs, variadic |-> variadic]

MethodOf(of, s, key) ==
  [of |-> of, name |-> "M", field |-> FALSE, embedded |-> FALSE, type |-> "string",
   key |-> key, ins |-> s.ins, outs |-> s.outs, variadic |-> s.variadic]

World(w, methods, s, key) ==
  LET method(of) == IF of \in methods THEN <<MethodOf(of, s, key)>> ELSE <<>>
  IN  [of \in MCStructs |->
         CASE of = "R" -> <<FieldOf("R", "H", "T"), FieldOf("R", "W", w), FieldOf("R", "E", "E"),
                            FieldOf("R", "S", "string")>> \o method("R")
           [] of = "T" -> <<FieldOf("T", "C", "string"), FieldOf("T", "D", "N")>> \o method("T")
           [] of = "N" -> <<FieldOf("N", "U", "string")>>
           [] of = "E" -> <<FieldOf("E", "P", "N")>> \o method("E")]

Signatures == [
  x |-> {Signature(<<>>, <<"value">>, FALSE), Signature(<<>>, <<"value", "error">>, FALSE),
         Signature(<<>>, <<"error">>, FALSE), Signature(<<"pointer">>, <<"error">>, FALSE),
         Signature(<<"value">>, <<>>, FALSE)},
  y |-> {Signature(<<"value">>, <<>>, FALSE), Signature(<<"value">>, <<"error">>, FALSE),
         Signature(<<"value">>, <<>>, TRUE), Signature(<<"value">>, <<"value">>, FALSE),
         Signature(<<"value", "value">>, <<>>, FALSE)}]

QuestionOf(world, side, accessors, opened, named) ==
  [world |-> world, root |-> "R", side |-> side, accessors |-> accessors,
   opened |-> opened, named |-> named]

UpTo2(S) == {<<>>} \cup {<<a>> : a \in S} \cup {s \in S \X S : s[1] # s[2]}

(* Fields: any two of them opened, in either order, and one named. *)
FieldQuestions ==
  {q \in {QuestionOf(World(w, {}, Signature(<<>>, <<>>, FALSE), ""), "x", FALSE, opened, named) :
            w \in {"T", "string"},
            opened \in UpTo2({<<"H">>, <<"W">>, <<"E">>, <<"P">>, <<"E", "P">>,
                              <<"H", "D">>, <<"W", "D">>}),
            named \in {<<>>} \cup {<<p>> : p \in {<<"H">>, <<"H", "C">>, <<"W", "C">>,
                                                 <<"H", "D", "U">>, <<"P">>, <<"P", "U">>}}} :
     \A p \in ToSet(q.opened) \cup ToSet(q.named) :
       Len(p) > 1 /\ p[1] = "W" => q.world["R"][2].type = "T"}

(* Methods: the same of any structs, where one or two fields are opened. *)
MethodQuestions ==
  {QuestionOf(World("string", methods, s, key), side, on, opened, named) :
     <<side, s>> \in ({"x"} \X Signatures.x) \cup ({"y"} \X Signatures.y),
     key \in {"M", ""}, methods \in SUBSET {"R", "T", "E"}, on \in BOOLEAN,
     opened \in {<<>>, <<<<"H">>>>, <<<<"E">>>>, <<<<"E">>, <<"H">>>>},
     named \in {<<>>, <<<<"M">>>>, <<<<"H", "M">>>>, <<<<"E", "M">>>>}}

MCSides ==
  FieldQuestions \cup
  {q \in MethodQuestions : \A p \in ToSet(q.named) : Resolve(q, p) # {}}

-----------------------------------------------------------------------------
At(owner, name) == [owner |-> owner, member |-> [name |-> name]]

Pairs ==
  {At(<<>>, "S"), At(<<"H">>, "C")}
    \X {At(<<>>, "S"), At(<<>>, "H"), At(<<"H">>, "D"), At(<<"H", "D">>, "U"), At(<<"H">>, "C")}

(* A field of Y is the Y of one pair at most. *)
MCAssignments ==
  {s \in UNION {[1 .. n -> Pairs] : n \in 0 .. 3} :
     \A i, j \in DOMAIN s : i # j => s[i][2] # s[j][2]}

-----------------------------------------------------------------------------
MCBytes      == <<"1", "2", "A", "B", "_", "a", "b">>
MCDigit      == {"1", "2"}
MCUpper      == {"A", "B"}
MCUnderscore == {"_"}
MCLower      == {"a", "b"}

Names == {<<"a">>, <<"a", "b">>, <<"a", "B">>, <<"a", "B", "a">>, <<"A", "b">>, <<"B">>,
          <<"A", "B", "a">>, <<"a", "_", "b">>, <<"a", "1">>, <<"b", "1">>, <<"b", "B", "a">>}

MCNameLists ==
  {s \in UNION {[1 .. n -> Names] : n \in 1 .. 3} :
     \A i, j \in DOMAIN s : i # j => s[i] # s[j]}
=============================================================================
