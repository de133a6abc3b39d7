------------------------------ MODULE MCSubconv ------------------------------
(***************************************************************************)
(* Small packages for TLC.  "a", "b", "c" are pairs of structs, "e" is a   *)
(* pair of basic types with an imported function that returns an error,    *)
(* "o" one with an imported function that does not, "z" a pair nothing     *)
(* converts, "r1", "r2" and "r3" the pairs of explicit converters.         *)
(***************************************************************************)
EXTENDS SubconvProps

MCPairs == {"a", "b", "c", "e", "o", "z", "r1", "r2", "r3"}
MCStructs == {"a", "b", "c"}
MCMods  == {"M", "N"}
MCStems == {"Sa", "Sb", "Sc", "Sz", "Atoi", "Itoa", "GetErr", "conv1", "conv2", "conv3"}

Text(stem) == [stem |-> stem, nums |-> <<>>]
AFn(stem, hasErr) == [name |-> Text(stem), hasErr |-> hasErr]

Plain(p)  == [pair |-> p, accErr |-> FALSE, func |-> {}]
Getter(p) == [pair |-> p, accErr |-> TRUE, func |-> {}]
Matched(p, hasErr) == [pair |-> p, accErr |-> FALSE, func |-> {AFn("GetErr", hasErr)}]

(* The fields of a struct whose pairs are the members of S. *)
FieldSeq(S) ==
  LET order == <<"a", "b", "c", "e", "z">>
      named(p) == p \in S
      chosen == SelectSeq(order, named)
  IN  [i \in DOMAIN chosen |-> Plain(chosen[i])]

UpTo(n, S) == {T \in SUBSET S : Cardinality(T) <= n}

Root(i) == <<"r1", "r2", "r3">>[i]
ConvName(i) == Text(<<"conv1", "conv2", "conv3">>[i])

(* The names offered first.  "b" of module M is offered the text that        *)
(* numbering the name of "a" gives.                                          *)
Base(m, p) ==
  CASE p = "a" -> Text("Sa")
    [] p = "b" -> IF m = "M" THEN [stem |-> "Sa", nums |-> <<2>>] ELSE Text("Sb")
    [] p = "c" -> Text("Sc")
    [] OTHER   -> Text("Sz")

(* A package whose directives are the sequence ds of [mod, hasErr, own],     *)
(* `own' being what tryStruct matches under the directive's options.         *)
Pkg(ds, shapes) ==
  [injs     |-> [i \in DOMAIN ds |->
                  [mod |-> ds[i].mod, pair |-> Root(i), hasErr |-> ds[i].hasErr,
                   name |-> ConvName(i), shape |-> ds[i].own]],
   lookup   |-> [m \in MCMods |-> [p \in MCPairs |->
                  IF p = "e" THEN {AFn("Atoi", TRUE)}
                  ELSE IF p = "o" THEN {AFn("Itoa", FALSE)}
                  ELSE {[name |-> ConvName(i), hasErr |-> ds[i].hasErr] :
                          i \in {j \in DOMAIN ds : Root(j) = p /\ ds[j].mod = m}}]],
   shape    |-> shapes,
   structs  |-> MCStructs,
   base     |-> [m \in MCMods |-> [p \in MCPairs |-> Base(m, p)]],
   reserved |-> {ConvName(i) : i \in DOMAIN ds} \cup {Text("Atoi"), Text("Itoa"), Text("GetErr")},
   written  |-> {[name |-> ConvName(i), hasErr |-> ds[i].hasErr] : i \in DOMAIN ds}
                \cup {AFn("Atoi", TRUE), AFn("Itoa", FALSE)}
                \cup {AFn("GetErr", h) : h \in BOOLEAN}]

ShapeOf(a, b, c) ==
  [p \in MCPairs |-> CASE p = "a" -> a [] p = "b" -> b [] p = "c" -> c [] OTHER -> <<>>]

(* Under the directive's options: its own pair has the fields r, the rest is *)
(* as under the module's options.                                            *)
Rooted(shape, i, r) == [shape EXCEPT ![Root(i)] = r]

(* One module, two directives, every graph of three pairs with at most two   *)
(* edges out of a node.                                                      *)
Graphs ==
  {ShapeOf(FieldSeq(A), FieldSeq(B), FieldSeq(C)) :
     A \in UpTo(2, {"a", "b", "c", "e"}), B \in UpTo(2, {"a", "b", "c", "e"}),
     C \in UpTo(1, {"a", "b", "e", "z"}) \cup {{"a", "e"}, {"b", "e"}}}

GraphPackage(g, h1, h2, r2) ==
  Pkg(<<[mod |-> "M", hasErr |-> h1, own |-> Rooted(g, 1, FieldSeq({"a"}))],
        [mod |-> "M", hasErr |-> h2, own |-> Rooted(g, 2, FieldSeq(r2))]>>,
      [m \in MCMods |-> g])

GraphPackages ==
  {GraphPackage(g, h1, h2, r2) :
     g \in Graphs, h1, h2 \in BOOLEAN, r2 \in {{"a"}, {"b", "c"}}}

(* Options: accessors that fail, MatchFunc, two modules, directives whose    *)
(* options hide the accessor a module's options find, calls between explicit *)
(* converters.                                                               *)
OptShapes ==
  {ShapeOf(a, b, <<>>) :
     a \in {<<>>, <<Getter("b")>>, <<Plain("b"), Plain("e")>>, <<Plain("a"), Plain("r1")>>},
     b \in {<<Getter("o")>>, <<Getter("b")>>, <<Plain("a"), Plain("o")>>, <<Matched("z", TRUE)>>,
            <<Matched("z", FALSE), Plain("a")>>}}

OptRoots == {<<Plain("a")>>, <<Getter("a"), Plain("b")>>, <<Matched("a", TRUE)>>,
             <<Matched("z", FALSE), Plain("b")>>}

Hidden(shape) ==
  [p \in DOMAIN shape |->
     [i \in DOMAIN shape[p] |-> [shape[p][i] EXCEPT !.accErr = FALSE]]]

OptPackages ==
  {Pkg(<<[mod |-> "M", hasErr |-> h[1], own |-> Rooted(g, 1, r)],
         [mod |-> m2,  hasErr |-> h[2], own |-> Rooted(g, 2, <<Plain("a")>>)],
         [mod |-> "M", hasErr |-> h[3],
          own |-> Rooted(IF hide THEN Hidden(g) ELSE g, 3, <<Plain("b")>>)]>>,
       [m \in MCMods |-> g]) :
     g \in OptShapes, m2 \in MCMods, h \in [1 .. 3 -> BOOLEAN], r \in OptRoots,
     hide \in BOOLEAN}

CorePackages == GraphPackages \cup OptPackages

(* One struct that holds a pointer to itself and a field that may fail.      *)
ListPackages ==
  {GraphPackage(ShapeOf(FieldSeq({"a", "e"}), <<>>, <<>>), h1, h2, {"a"}) :
     h1, h2 \in BOOLEAN}
=============================================================================
