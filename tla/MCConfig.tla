------------------------------- MODULE MCConfig -------------------------------
(***************************************************************************)
(* Small packages for TLC: a module, two directives of it, and options.    *)
(***************************************************************************)
EXTENDS ConfigProps, TLC

CONSTANTS ra, rb, rc, rd  \* renaming rules

MCCommon == {rc}

Into(kind, o) == [into |-> kind] @@ o
Own1(o) == Into(Nil, o)
For(kind, opts) == <<Own1([op |-> "for", kind |-> kind])>> \o [k \in DOMAIN opts |-> Into(kind, opts[k])]
Plain(opts) == [k \in DOMAIN opts |-> Own1(opts[k])]

UpTo(n, S) == UNION {[1 .. k -> S] : k \in 0 .. n}

Renamed(x, y)    == [op |-> "rename", x |-> x, y |-> y]
Reset(x, y)      == [op |-> "renameReset", x |-> x, y |-> y]
Unexported(x, y) == [op |-> "unexported", x |-> x, y |-> y]
Fields(x, y)     == [op |-> "fieldsOnly", x |-> x, y |-> y]
Affix(name, v)   == [op |-> name, affix |-> v]
Sample(x, y)     == [op |-> "sample", x |-> x, y |-> y]
Nested(x, y)     == [op |-> "nested", x |-> x, y |-> y]
Pair(name, p)    == [op |-> name, pair |-> p]
Func(p, f)       == [op |-> "matchFunc", pair |-> p, fn |-> f]
Import(p)        == [op |-> "importFunc", pair |-> p]
Wrap(w)          == [op |-> "errWrap", wrap |-> w]
WrapReset        == [op |-> "errWrapReset"]
Bad              == [op |-> "bad"]

Directed(mod, kind, pair, opts) ==
  [mod |-> mod, kind |-> kind, pair |-> pair, broken |-> FALSE, opts |-> Plain(opts)]

Package(mod, ds) == [modules |-> <<mod>>, declared |-> 1, directives |-> ds]

(* Three rules in a module leave room in their array for a fourth.           *)
RenamePrograms ==
  {Package(Plain(m) \o f,
           <<Directed(1, "struct", "AB", o1), Directed(1, kind, "CD", o2)>>) :
     m \in UpTo(3, {Renamed(ra, Nil), Renamed(rc, ra), Reset(TRUE, FALSE)}),
     f \in {<<>>, For("struct", <<Renamed(rb, Nil)>>),
            For("struct", <<Renamed(rb, rb)>>) \o For("struct", <<Renamed(rc, Nil)>>),
            For("struct", <<Renamed(rb, rb), Reset(TRUE, FALSE), Renamed(rd, Nil)>>)},
     o1 \in {<<>>, <<Renamed(rd, Nil)>>, <<Renamed(Nil, rd), Renamed(rd, rd)>>},
     o2 \in {<<Renamed(rb, rc)>>, <<Reset(TRUE, TRUE)>>, <<Renamed(rb, Nil), Reset(TRUE, FALSE), Renamed(ra, rb)>>},
     kind \in {"struct", "enum"}}

Discoveries == {Unexported(TRUE, FALSE), Affix("getters", "Get"), Affix("setters", "Set")}

DiscoverPrograms ==
  {Package(Plain(m) \o f,
           <<Directed(1, "struct", "AB", o1), Directed(1, kind, "CD", o2)>>) :
     m \in UpTo(2, Discoveries \cup {Fields(TRUE, TRUE)}),
     f \in {<<>>, For("struct", <<Unexported(FALSE, TRUE)>>), For("union", <<Affix("getters", "")>>),
            For("enum", <<Unexported(FALSE, FALSE)>>),
            For("struct", <<Affix("getters", ""), Affix("setters", ""), Fields(TRUE, FALSE)>>)},
     o1 \in {<<Fields(TRUE, FALSE)>>, <<Affix("getters", ""), Sample(Nil, "other")>>,
             <<Fields(TRUE, TRUE), Affix("setters", "Do")>>},
     o2 \in {<<>>, <<Unexported(FALSE, FALSE), Nested("X.F", Nil), Nested("X.G", "Y.F")>>,
             <<Sample("other", "third")>>},
     kind \in Kinds}

Matches == {Pair("match", "p"), Func("p", "f"), Func("p", "g"), Func("q", "g"), Pair("matchSkip", "q")}

MatchPrograms ==
  {Package(Plain(m), <<Directed(1, "struct", "AB", o1), Directed(1, "union", "CD", o2)>>) :
     m \in {<<>>, <<Wrap("w"), Wrap("v")>>, <<Wrap("w"), WrapReset, Wrap("v")>>},
     o1 \in UpTo(3, Matches), o2 \in {<<>>, <<Pair("match", "q"), Pair("matchSkip", "p")>>}}

(* Mistakes: everywhere an option may be wrong, and what may not be twice.   *)
DeclaredErrors ==
  {[modules |-> <<Plain(m), Plain(<<Import("AB")>>)>>, declared |-> 2,
    directives |-> <<Directed(1, "struct", "AB", o1), [Directed(1, "enum", "CD", o2) EXCEPT !.broken = br],
                     Directed(k, "struct", p, <<>>)>>] :
     m \in UpTo(2, {Import("CD"), Bad}) \cup {<<Import("CD"), Import("EF"), Import("CD")>>},
     o1 \in {<<>>, <<Bad, Renamed(ra, ra), Bad>>, <<Sample("other", Nil), Sample(Nil, "other"), Bad>>},
     o2 \in {<<>>, <<Bad>>}, br \in BOOLEAN, k \in 0 .. 2, p \in {"AB", "CD"}}

(* One module or none is declared; the rest are written inline, the last in  *)
(* the first directive.                                                      *)
InlineModules == {<<>>, <<Bad>>, <<Import("AB")>>, <<Import("CD"), Import("CD")>>, <<Renamed(ra, rb), Wrap("w")>>}

InlineErrors ==
  {[modules |-> <<Plain(m1), Plain(m2), Plain(m3)>>, declared |-> n,
    directives |-> <<Directed(3, "struct", "AB", o), Directed(2, "union", "CD", <<>>),
                     Directed(1, "struct", "CD", <<Renamed(rb, Nil)>>)>>] :
     m1 \in InlineModules, m2 \in InlineModules \ {<<Bad>>}, m3 \in InlineModules,
     n \in 0 .. 1, o \in {<<>>, <<Bad>>, <<Renamed(rb, Nil), Bad>>}}

ErrorPrograms == DeclaredErrors \cup InlineErrors

TamePrograms == RenamePrograms \cup DiscoverPrograms \cup MatchPrograms \cup ErrorPrograms

-----------------------------------------------------------------------------
(* Six directives, each at odds with the documentation: the module's rules   *)
(* precede a reset in the qualifier for the first, follow the rules for the  *)
(* second, its getters precede a DiscoverFieldsOnly for the third; the       *)
(* fourth has two samples; the fifth an inline module that is wrong, and a   *)
(* wrong option; the last a MatchFunc, where its module has a qualifier.     *)
OddModule(x) ==
  Plain(<<Affix("getters", "Get"), Renamed(ra, rb)>>)
  \o For("struct", <<Reset(TRUE, x)>>) \o For("union", <<Fields(TRUE, x)>>)
  \o For("enum", <<Renamed(rd, Nil)>>) \o Plain(<<Renamed(rc, Nil)>>)

OddPrograms ==
  {[modules |-> <<OddModule(x), For("struct", <<Unexported(x, TRUE)>>), Plain(<<Bad>>)>>, declared |-> 2,
    directives |-> <<Directed(1, "struct", "AB", <<>>), Directed(1, "enum", "CD", <<>>),
                     Directed(1, "union", "EF", <<>>),
                     Directed(0, "union", "GH", <<Sample("other", Nil), Sample("third", y)>>),
                     Directed(3, "union", "IJ", <<Bad>>),
                     Directed(2, "struct", "KL", <<Func("p", "f")>>)>>] :
     x \in BOOLEAN, y \in {Nil, "other"}}
=============================================================================
