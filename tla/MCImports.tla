------------------------------ MODULE MCImports ------------------------------
(***************************************************************************)
(* Small runs for TLC.  Two packages are called "m", and a third what the  *)
(* second of them would be renamed to, "m2".                               *)
(***************************************************************************)
EXTENDS ImportsProps, SequencesExt

N(stem, nums) == [stem |-> stem, nums |-> nums]

MCPaths    == {"p1", "p2", "p3", "fmt"}
MCStems    == {"m", "fmt"}
MCDirs     == {"d1", "d2"}
MCFaults   == {"b1", "b2", "e1", "e2"}
MCPkgNames ==
  [p \in MCPaths |->
     CASE p = "fmt" -> N("fmt", <<>>) [] p = "p3" -> N("m", <<2>>) [] OTHER -> N("m", <<>>)]

I(op, path) == [op |-> op, path |-> path]

Written == {I("helper", "fmt")} \cup {I(op, p) : op \in {"object", "untracked"}, p \in MCPaths}
Copied  == {I("merged", p) : p \in MCPaths}

(* The code generated comes before the code merged.  In Tame code no type    *)
(* that is printed without being imported is the first to mention its        *)
(* package.                                                                  *)
Tame(items) ==
  \A i \in DOMAIN items :
    items[i].op = "untracked" =>
      \E j \in 1 .. i - 1 : items[j] = I("object", items[i].path)

Files(n) ==
  {items \in TupleOf(Written \cup Copied, n) :
     /\ Tame(items)
     /\ \A i, j \in 1 .. n : i < j /\ items[i] \in Copied => items[j] \in Copied}

Mentioned(items, ops) == {items[i].path : i \in {j \in DOMAIN items : items[j].op \in ops}}

T(dir, scope, direct, items) ==
  [dir |-> dir, scope |-> scope, direct |-> direct, broken |-> {}, mistakes |-> {},
   items |-> items]

Scopes == SUBSET {N("m", <<>>), N("m", <<2>>)}

(* One package, of which the code that is merged imports what it mentions. *)
OnePackage ==
  {<<T("d1", s, d \cup Mentioned(items, {"merged"}), items)>> :
     s \in Scopes, d \in {{}, MCPaths}, items \in Files(0) \cup Files(3)}

(* A file leaves the name of p alone if nothing else it mentions or declares *)
(* begins like it, and "fmt" is not needed by the code and mentioned too.    *)
Keeps(t, p) ==
  LET items == t.items
  IN  \/ p \notin Mentioned(items, {"object"})
      \/ /\ p \notin Mentioned(items, {"helper"})
         /\ \A q \in Mentioned(items, {"object", "helper", "merged"}) \ {p} :
              MCPkgNames[q].stem # MCPkgNames[p].stem
         /\ \A n \in t.scope : n.stem # MCPkgNames[p].stem

TwoOf(scopes, firsts, seconds) ==
  {<<T("d1", s, MCPaths, i), T("d2", {}, MCPaths, j)>> :
     s \in scopes, i \in firsts, j \in seconds}

(* Two packages; the first renames none that the second mentions. *)
TwoPackages ==
  {pr \in TwoOf({{}, {N("m", <<>>)}}, Files(2), Files(1) \cup Files(2)) :
     \A p \in Mentioned(pr[2].items, {"object", "untracked", "merged"}) : Keeps(pr[1], p)}

Faulty(t, b, m) == [t EXCEPT !.broken = b, !.mistakes = m]

(* Two packages with errors of either kind. *)
FaultyPackages ==
  {<<Faulty(pr[1], b[1], m[1]), Faulty(pr[2], b[2], m[2])>> :
     pr \in TwoOf({{}}, {<<I("object", "p1")>>}, {<<I("object", "p1")>>}),
     b \in {{}, {"b1"}} \X {{}, {"b2"}}, m \in {{}, {"e1"}} \X {{}, {"e2"}}}

TamePrograms == OnePackage \cup TwoPackages \cup FaultyPackages

(* Two packages, in whose files mentions are wrong in two ways: in the first *)
(* a package is mentioned only by a type that is printed through an Object;  *)
(* the second mentions a package that the first renames.                     *)
UnresolvedPrograms ==
  TwoOf(Scopes, {<<I("object", "p1"), I("object", "p2"), I("untracked", "fmt")>>},
        {<<I("object", "p2")>>})
=============================================================================
