------------------------------ MODULE Accessors ------------------------------
(***************************************************************************)
(* How the members of a struct are discovered and reached: its fields and  *)
(* methods, those of the fields that DiscoverNested opens, and those named *)
(* by Match; and in which order the code generated assigns them.           *)
(*                                                                         *)
(* A question is one side of a conversion.  Its world declares the structs *)
(* and their members; a member is known by its declaration, which is one   *)
(* also where the struct is the type of two fields.                        *)
(***************************************************************************)
EXTENDS Naturals, Sequences

CONSTANTS
  Idents, \* names of fields and methods, in the order of the alphabet
  Structs,
  Leaf    \* any type that is not a struct

LOCAL INSTANCE SequencesExt

IdentSet == {Idents[i] : i \in DOMAIN Idents}

(* A field, or a method with its parameters and results, of which the key is *)
(* what the affixes of getters or setters leave of its name.                 *)
Member ==
  [of : Structs, name : IdentSet, field : BOOLEAN, embedded : BOOLEAN,
   type : Structs \cup {Leaf}, key : IdentSet \cup {""},
   ins : Seq({"value", "pointer"}), outs : Seq({"value", "error"}), variadic : BOOLEAN]

(* `opened' are the paths of DiscoverNested and `named' those of Match, from *)
(* the struct itself.                                                        *)
Question ==
  [world : [Structs -> Seq(Member)], root : Structs, side : {"x", "y"},
   accessors : BOOLEAN, opened : Seq(Seq(IdentSet)), named : Seq(Seq(IdentSet))]

(* A structField: its owner is a path from the struct itself. *)
Field == [owner : Seq(IdentSet), member : Member]

-----------------------------------------------------------------------------
(* Go's selectors: what is declared in a struct hides what its embedded      *)
(* fields have.                                                              *)
Declared(q, type) == IF type = Leaf THEN <<>> ELSE q.world[type]

Own(q, type, name) == {m \in ToSet(Declared(q, type)) : m.name = name}

Select(q, type, name) ==
  IF Own(q, type, name) # {} THEN Own(q, type, name)
  ELSE UNION {Own(q, m.type, name) : m \in {n \in ToSet(Declared(q, type)) : n.embedded}}

(* structParsers.walk: what a path resolves to, and its type. *)
Resolve(q, path) ==
  FoldLeft(LAMBDA ms, name : UNION {Select(q, m.type, name) : m \in ms}, {[type |-> q.root]}, path)

TypeAt(q, path) == (CHOOSE m \in Resolve(q, path) : TRUE).type

-----------------------------------------------------------------------------
(* typeinfo.FuncOf *)
HasErr(m) == m.outs # <<>> /\ Last(m.outs) = "error"

OnlyY(m) ==
  \/ m.ins = <<>> /\ Len(m.outs) = 1
  \/ m.ins = <<>> /\ Len(m.outs) = 2 /\ HasErr(m)
  \/ m.ins = <<"pointer">> /\ m.outs \in {<<>>, <<"error">>}

OnlyX(m) == Len(m.ins) = 1 /\ m.outs \in {<<>>, <<"error">>}

IsAccessor(q, m) == ~m.field /\ IF q.side = "x" THEN OnlyY(m) ELSE OnlyX(m)

(* discoverFields, and discoverGetters or discoverSetters.  What the latter  *)
(* find is given the struct itself as its owner.                             *)
Discovered(q, owner) ==
  LET fields(m)    == m.field
      accessors(m) == q.accessors /\ IsAccessor(q, m)
      found == SelectSeq(Declared(q, TypeAt(q, owner)), fields)
      rest  == SelectSeq(Declared(q, TypeAt(q, owner)), accessors)
  IN  [i \in DOMAIN found |-> [owner |-> owner, member |-> found[i]]]
      \o [i \in DOMAIN rest |-> [owner |-> <<>>, member |-> rest[i]]]

(* The index, in the order of insertion.  The last of a position stays, in   *)
(* the place of the first.                                                   *)
Decl(m) == <<m.of, m.name>>

Put(index, f) ==
  IF \E i \in DOMAIN index : Decl(index[i].member) = Decl(f.member)
  THEN [i \in DOMAIN index |->
          IF Decl(index[i].member) = Decl(f.member) THEN f ELSE index[i]]
  ELSE Append(index, f)

Without(index, members) == SelectSeq(index, LAMBDA f : f.member \notin members)

(* Mutant: the field opened stays. *)
OpenBeside(q, index, path) == FoldLeft(Put, index, Discovered(q, path))

(* One path of DiscoverNested: the field gives way to its members. *)
Open(q, index, path) == FoldLeft(Put, Without(index, Resolve(q, path)), Discovered(q, path))

(* ResolveX or ResolveY, of a path of Match. *)
Named(q, path) ==
  {[owner |-> Front(path), member |-> m] :
     m \in {n \in Resolve(q, path) : n.field \/ IsAccessor(q, n)}}

(* discover *)
Index(q) ==
  LET found == FoldLeft(LAMBDA index, path : Open(q, index, path), Discovered(q, <<>>), q.opened)
  IN  FoldLeft(LAMBDA index, path : FoldLeft(Put, index, SetToSeq(Named(q, path))), found, q.named)

(* indexer.add panics at a key that is empty. *)
AddPanics(q) == \E f \in ToSet(Index(q)) : f.member.key = ""

-----------------------------------------------------------------------------
(* writeMatchesCode walks the path of the owner with Type.StructField, which *)
(* knows fields of the struct only, and panics where there is none.          *)
Walk(q, path) ==
  FoldLeft(LAMBDA types, name :
             UNION {{m.type : m \in {n \in Own(q, t, name) : n.field}} : t \in types},
           {q.root}, path)

(* writeFieldAssignCode: what the code written selects ... *)
Accessed(q, f) == UNION {Select(q, t, f.member.name) : t \in Walk(q, f.owner)}

(* ... and whether it calls it with as many arguments, and takes as many     *)
(* results, as it has.                                                       *)
CallsRight(q, m) ==
  IF q.side = "x" THEN m.ins = <<>> /\ Len(m.outs) = (IF HasErr(m) THEN 2 ELSE 1)
  ELSE Len(m.ins) = 1 /\ ~m.variadic

-----------------------------------------------------------------------------
(* groupMatches: pairs of fields by the paths of their owners, in the order  *)
(* of the two paths.                                                         *)
Nth(name) == CHOOSE i \in DOMAIN Idents : Idents[i] = name

PathLess(p, r) ==
  \E k \in 1 .. Len(r) :
    /\ \A i \in 1 .. k - 1 : i \in DOMAIN p /\ p[i] = r[i]
    /\ k \in DOMAIN p => Nth(p[k]) < Nth(r[k])
    /\ Len(p) >= k - 1

Owners(pair) == <<pair[1].owner, pair[2].owner>>

(* Mutant: the paths of Y are compared the wrong way round. *)
GroupLessX(g, h) == PathLess(g[1], h[1]) \/ (g[1] = h[1] /\ PathLess(h[2], g[2]))

GroupLess(g, h) == PathLess(g[1], h[1]) \/ (g[1] = h[1] /\ PathLess(g[2], h[2]))

(* The order in which the pairs are assigned. *)
Writes(pairs) ==
  LET groups   == SetToSortSeq({Owners(p) : p \in ToSet(pairs)}, GroupLess)
      group(g) == SelectSeq(pairs, LAMBDA p : Owners(p) = g)
  IN  FlattenSeq([i \in DOMAIN groups |-> group(groups[i])])
=============================================================================
