------------------------------- MODULE MCMatch -------------------------------
(***************************************************************************)
(* Small problems for TLC.  "x" and "y" are the two types; "home" is a     *)
(* field of "x" or "y" whose own type is a struct.                         *)
(***************************************************************************)
EXTENDS MatchProps

MCOwners    == {"x", "y", "home"}
MCPositions == {"px1", "px2", "px3", "py1", "py2", "py3", "phome", "pcity", "pzip"}
MCKeys      == {"a", "b", "c", "home", "city", "zip"}

E(owner, pos, key) == [owner |-> owner, pos |-> pos, key |-> key]

Flat(es) == [top |-> es, nested |-> <<>>]

UpTo(n, S) == {T \in SUBSET S : Cardinality(T) <= n}

(* The sequences without repetition over at most two members of S.           *)
Orders(S) ==
  {<<>>} \cup {<<s>> : s \in S}
  \cup {<<p[1], p[2]>> : p \in {q \in S \X S : q[1] # q[2]}}

Listed(S) == CHOOSE s \in Orders(S) : {s[i] : i \in DOMAIN s} = S

(* Two members on each side whose keys may meet, be empty or not, one member *)
(* of X that is not discovered, at most two Matches, at most two MatchSkips  *)
(* in both orders; py2 may be the default.                                   *)
FlatPairs(ex, ey, d) ==
  LET skippedX == ex \cup {E("x", "px3", "c"), Missing}
      skippedY == ey \cup {Missing}
      lists    == {Listed(m) : m \in UpTo(2, ex \X ey)}
      orders   == Orders((skippedX \X skippedY) \ {<<Missing, Missing>>})
  IN  {[x |-> Flat(ex), y |-> Flat(ey), match |-> m, skip |-> s, default |-> d] :
         m \in lists, s \in orders}

FlatProblems ==
  UNION {FlatPairs({E("x", "px1", k[1]), E("x", "px2", k[2])},
                   {E("y", "py1", k[3]), E("y", "py2", k[4])}, k[5]) :
           k \in {<<"a", "a", "a", "b", "py2">>, <<"a", "b", "a", "b", NoPos>>,
                  <<"a", "b", "a", "a", NoPos>>, <<NoKey, "a", NoKey, "a", NoPos>>,
                  <<NoKey, "b", "a", "b", "py2">>}}

(* A struct field that is opened, or one of whose members is named by Match. *)
Home == E("x", "phome", "home")
City == E("home", "pcity", "city")
Zip  == E("home", "pzip", "zip")

NestedX ==
  {[top |-> {E("x", "px1", "a"), Home}, nested |-> n] :
     n \in {<<>>, <<[field |-> Home, subs |-> {City, Zip}]>>}}

NestedProblems ==
  {[x |-> dx, y |-> Flat({E("y", "py1", "city"), E("y", "py2", k)}), match |-> Listed(m),
    skip |-> s, default |-> NoPos] :
     dx \in NestedX, k \in {"zip", "home", "a"},
     m \in UpTo(2, {Home, City, E("x", "px1", "a")} \X {E("y", "py1", "city")}),
     s \in Orders({<<Home, Missing>>, <<City, Missing>>, <<Zip, Missing>>,
                   <<E("x", "px1", "a"), Missing>>})}

(* The same with the two sides exchanged. *)
Swap(pb) ==
  [x |-> pb.y, y |-> pb.x,
   match |-> [i \in DOMAIN pb.match |-> <<pb.match[i][2], pb.match[i][1]>>],
   skip |-> [i \in DOMAIN pb.skip |-> <<pb.skip[i][2], pb.skip[i][1]>>],
   default |-> NoPos]

MatchProblems ==
  FlatProblems \cup NestedProblems \cup {Swap(pb) : pb \in NestedProblems}

(* All of them have members in positions of their own. *)
ASSUME TidyAssumption == \A pb \in Problems : Tidy(pb)
=============================================================================
