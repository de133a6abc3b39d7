----------------------------- MODULE MCGenerated -----------------------------
(***************************************************************************)
(* Small programs and inputs for TLC.  "root" is the outermost function,   *)
(* "part" what its first field is converted by, "inner" the assigner below *)
(* that, "sub" a subconverter of a struct.                                 *)
(***************************************************************************)
EXTENDS GeneratedProps, TLC

MCNodes == {"root", "part", "inner", "copy", "hand", "callHand", "sub", "callSub"}
MCTags  == {"good", "bad", "odd", "A", "B", "C", "list", "struct"}
MCWrappers == {"w1", "w2"}

V(tag, kids) == [tag |-> tag, kids |-> kids]
MCZero == V("zero", <<>>)
Atoms  == {V("good", <<>>), V("bad", <<>>)}

Plain(from, as) == [from |-> from, under |-> 0, as |-> as, getter |-> FALSE, setter |-> FALSE]

Struct(fields, h) == [kind |-> "struct", fields |-> fields, hasErr |-> h]
Ptr(n, x, y)      == [kind |-> "pointer", elem |-> n, depthX |-> x, depthY |-> y]
Slice(n, s)       == [kind |-> "index", elem |-> n, isSliceY |-> s]
Map(k, n)         == [kind |-> "key", key |-> k, elem |-> n]

Package(root, part, inner) ==
  ("root" :> root) @@ ("part" :> part) @@ ("inner" :> inner)
  @@ ("copy" :> [kind |-> "copy"]) @@ ("hand" :> [kind |-> "hand"])
  @@ ("callHand" :> [kind |-> "call", to |-> "hand"])
  @@ ("sub" :> Struct(<<Plain(1, "callHand"), Plain(2, "copy")>>, TRUE))
  @@ ("callSub" :> [kind |-> "call", to |-> "sub"])

UpToTwo(S) == {<<v>> : v \in S} \cup {<<v, w>> : v, w \in S}

(* A map, in any order of iteration. *)
DistinctKeys(S) == {s \in S : \A i, j \in DOMAIN s : i # j => s[i].kids[1] # s[j].kids[1]}

(* The inputs of a node. *)
RECURSIVE Inputs(_, _)
Inputs(code, n) ==
  LET c == code[n]
  IN  CASE c.kind \in {"copy", "hand"} -> Atoms
        [] c.kind = "call"    -> Inputs(code, c.to)
        [] c.kind = "pointer" ->
             IF c.depthX = 0 THEN Inputs(code, c.elem)
             ELSE {MCZero} \cup {V("pointer", <<v>>) : v \in Inputs(code, c.elem)}
        [] c.kind = "index"   ->
             {MCZero, V("list", <<>>)} \cup {V("list", s) : s \in UpToTwo(Inputs(code, c.elem))}
        [] c.kind = "key"     ->
             {MCZero} \cup {V("list", s) : s \in DistinctKeys(UpToTwo(
                {V("entry", <<k, v>>) : k \in Inputs(code, c.key), v \in Inputs(code, c.elem)}))}
        [] OTHER -> {V("struct", <<V("good", <<>>), v>>) : v \in Atoms}
                    \cup {V("struct", <<V("bad", <<>>), V("good", <<>>)>>)}

(* What a node makes of a value, by recursion, and what it is made of. *)
RECURSIVE Expected(_, _, _)
Expected(code, n, v) ==
  LET c == code[n]
      each(s, m) == [i \in DOMAIN s |-> Expected(code, m, s[i])]
  IN  CASE c.kind \in {"copy", "hand"} -> v
        [] c.kind = "call" -> Expected(code, c.to, v)
        [] c.kind = "pointer" ->
             IF c.depthX # 0 /\ v = Zero THEN Zero
             ELSE Pointing(c, Expected(code, c.elem, Pointed(c, v)))
        [] c.kind = "index" -> Whole(v, Len(v.kids), each(v.kids, c.elem))
        [] c.kind = "key" ->
             Whole(v, Len(v.kids),
                   [i \in DOMAIN v.kids |-> Entry(Expected(code, c.key, v.kids[i].kids[1]),
                                                  Expected(code, c.elem, v.kids[i].kids[2]))])
        [] c.kind = "struct" ->
             Whole(v, Len(c.fields),
                   [i \in DOMAIN c.fields |->
                      IF Missing(c.fields[i], v) THEN Zero
                      ELSE Expected(code, c.fields[i].as, Matched(c.fields[i], v))])
        [] c.kind = "union" ->
             IF \E i \in DOMAIN c.cases : c.cases[i].impl = v.tag
               THEN Expected(code, (CHOOSE u \in {c.cases[i] : i \in DOMAIN c.cases} :
                                      u.impl = v.tag).as, v)
               ELSE Zero
        [] c.kind = "enum" -> IF v.tag \in c.members THEN v ELSE Default(c)

RECURSIVE Reached(_, _, _)
Reached(code, n, v) ==
  LET c == code[n]
  IN  {<<n, v>>} \cup
      CASE c.kind = "call" -> Reached(code, c.to, v)
        [] c.kind = "pointer" ->
             IF c.depthX # 0 /\ v = Zero THEN {} ELSE Reached(code, c.elem, Pointed(c, v))
        [] c.kind = "index" -> UNION {Reached(code, c.elem, v.kids[i]) : i \in DOMAIN v.kids}
        [] c.kind = "key" ->
             UNION {Reached(code, c.key, v.kids[i].kids[1])
                    \cup Reached(code, c.elem, v.kids[i].kids[2]) : i \in DOMAIN v.kids}
        [] c.kind = "struct" ->
             UNION {Reached(code, m.as, Matched(m, v)) :
                      m \in {c.fields[i] : i \in {j \in DOMAIN c.fields : ~Missing(c.fields[j], v)}}}
        [] c.kind = "union" ->
             UNION {Reached(code, u.as, v) :
                      u \in {c.cases[i] : i \in {j \in DOMAIN c.cases : c.cases[j].impl = v.tag}}}
        [] OTHER -> {}

-----------------------------------------------------------------------------
(* A struct of four fields: a part of any shape, a getter that may fail, a   *)
(* setter that may, and a field below a pointer.                             *)
RootFields ==
  <<Plain(1, "part"),
    [from |-> 2, under |-> 0, as |-> "copy", getter |-> TRUE, setter |-> FALSE],
    [from |-> 3, under |-> 0, as |-> "copy", getter |-> FALSE, setter |-> TRUE],
    [from |-> 1, under |-> 4, as |-> "callHand", getter |-> FALSE, setter |-> FALSE]>>

RootInputs(code) ==
  {V("struct", <<p, g, s, n>>) :
     p \in Inputs(code, "part"), g \in Atoms, s \in {V("good", <<>>), V("odd", <<>>)},
     n \in {MCZero} \cup {V("pointer", <<V("struct", <<a>>)>>) : a \in Atoms}}

(* A part and what is below it; a pointer of depth 2 has one of depth 1.     *)
Parts ==
  {<<Slice("callSub", TRUE), Slice("copy", TRUE)>>, <<Map("callHand", "callSub"), Slice("copy", TRUE)>>,
   <<Ptr("callSub", 1, 0), Slice("copy", TRUE)>>, <<Ptr("callHand", 0, 1), Slice("copy", TRUE)>>,
   <<Slice("inner", TRUE), Slice("callHand", TRUE)>>, <<Slice("inner", FALSE), Ptr("callHand", 1, 1)>>,
   <<Map("copy", "inner"), Ptr("callHand", 1, 1)>>, <<Ptr("inner", 1, 1), Map("callHand", "copy")>>,
   <<Ptr("inner", 2, 2), Ptr("callSub", 1, 1)>>}

StructPrograms ==
  {[code |-> code, root |-> "root", wraps |-> w, inputs |-> RootInputs(code)] :
     code \in {Package(Struct(RootFields, TRUE), p[1], p[2]) : p \in Parts},
     w \in {<<>>, <<"w1", "w2">>}}

(* A union of two implementations, and an enum, with and without an error    *)
(* return; "C" is an implementation, and "bad" a member, without a match.    *)
Implementations == {V("A", <<a, V("good", <<>>)>>) : a \in Atoms} \cup {V("B", <<>>), V("C", <<>>)}

UnionOf(h, asA) ==
  [kind |-> "union", hasErr |-> h,
   cases |-> <<[impl |-> "A", as |-> asA], [impl |-> "B", as |-> "copy"]>>]

EnumOf(h) == [kind |-> "enum", members |-> {"good"}, default |-> "odd", hasErr |-> h]

Run(root, w, vs) ==
  [code |-> Package(root, Slice("copy", TRUE), Slice("copy", TRUE)), root |-> "root",
   wraps |-> w, inputs |-> vs]

OtherPrograms ==
  {Run(UnionOf(h, "copy"), <<>>, Implementations) : h \in BOOLEAN}
  \cup {Run(EnumOf(h), w, Atoms) : h \in BOOLEAN, w \in {<<>>, <<"w1", "w2">>}}
  \cup {Run(Struct(<<Plain(1, "part"), Plain(2, "copy")>>, FALSE), <<>>,
            {V("struct", <<v, b>>) : v \in {MCZero, V("list", <<a>>)}, b \in Atoms}) : a \in Atoms}

SafePrograms == StructPrograms \cup OtherPrograms

(* The values that a code is run on, and what they convert to.               *)
Reaches(code) ==
  UNION {UNION {Reached(code, pg.root, v) : v \in pg.inputs} : pg \in {p \in Programs : p.code = code}}

Conversion(code) == [a \in Reaches(code) |-> Expected(code, a[1], a[2])]
MCConversions    == [code \in {pg.code : pg \in Programs} |-> Conversion(code)]

(* The theorems' hypothesis, of each of these programs: some set of          *)
(* assigners cannot fail and holds the cases of the unions with an error.    *)
ASSUME SafeAssumption ==
  Programs = SafePrograms => UnionsCannotFail /\ FunctionsDeclareErrors

(* No union that returns an error is compiled with wrappers. *)
ASSUME UnwrappedAssumption == UnionsUnwrapped

(* UnionErr: an implementation whose conversion fails.                       *)
FallibleUnions == {Run(UnionOf(TRUE, "callSub"), <<>>, Implementations)}
=============================================================================
