------------------------------ MODULE MatchProps ------------------------------
(***************************************************************************)
(* What matching must guarantee, said of the members themselves and of the *)
(* options as they are written, not of the matcher's indexes.              *)
(***************************************************************************)
EXTENDS Match

(* The members to match: those of the type, with the fields opened by        *)
(* DiscoverNested replaced by their members, and those named by Match.       *)
Members(d) ==
  (d.top \cup UNION {d.nested[i].subs : i \in DOMAIN d.nested})
  \ {d.nested[i].field : i \in DOMAIN d.nested}

Pairs == {prob.match[i] : i \in DOMAIN prob.match}
Skips == {prob.skip[i] : i \in DOMAIN prob.skip}

WantedX == Members(prob.x) \cup {m[1] : m \in Pairs}
WantedY == Members(prob.y) \cup {m[2] : m \in Pairs}

NamedX(x) == \E s \in Skips : s[1] = x
NamedY(y) == \E s \in Skips : s[2] = y

(* The pairs the options ask for: those of Match, and those with equal keys  *)
(* neither of whose members is in a Match.                                   *)
Meant ==
  Pairs \cup {l \in WantedX \X WantedY :
                /\ l[1].key = l[2].key
                /\ \A m \in Pairs : m[1] # l[1] /\ m[2] # l[2]}

Loss ==
  \/ \E x \in WantedX : ~NamedX(x) /\ \A l \in Meant : l[1] # x
  \/ \E y \in WantedY : ~NamedY(y) /\ y.pos # prob.default /\ \A l \in Meant : l[2] # y

Merge == \E l, m \in Meant \ Skips : l # m /\ l[2] = m[2]

(* A MatchSkip whose pair would not be matched, or whose member is not there *)
(* or is matched all the same.                                               *)
Ineffective(s) ==
  \/ s[1] # Missing /\ s[1] \notin WantedX
  \/ s[2] # Missing /\ s[2] \notin WantedY
  \/ Missing \notin {s[1], s[2]} /\ s \notin Meant
  \/ s[2] = Missing /\ \E l \in Meant \ Skips : l[1] = s[1]
  \/ s[1] = Missing /\ \E l \in Meant \ Skips : l[2] = s[2]

Blank == \E e \in WantedX \cup WantedY : e.key = NoKey

-----------------------------------------------------------------------------
(* A member of either type is matched, or the user skipped it (or made it    *)
(* the default), or the table says FAIL of it: no later row of the table,    *)
(* each of which may remove or replace earlier ones, hides a member that     *)
(* would be left unconverted.  A MatchSkip skips a member if it names a pair *)
(* that is meant, or something that is not there to be matched.              *)
NothingIsLost ==
  phase = "done" =>
    /\ \A x \in WantedX :
         \/ \E l \in links : l[1] = x
         \/ \E r \in fails : r[1] = x
         \/ \E s \in Skips : s[1] = x /\ (s \in Meant \/ s[2] \notin WantedY)
    /\ \A y \in WantedY :
         \/ \E l \in links : l[2] = y
         \/ \E r \in fails : r[2] = y
         \/ \E s \in Skips : s[2] = y /\ (s \in Meant \/ s[1] \notin WantedX)
         \/ y.pos = prob.default

(* Two members of X are never assigned to one member of Y without a FAIL.    *)
NothingIsMerged ==
  phase = "done" =>
    \A l, m \in links : l # m /\ l[2] = m[2] => l \in fails \/ m \in fails

(* A match that is accepted is the one the options ask for, whatever the     *)
(* order of the rules and of the MatchSkips.                                 *)
MatchesAreMeant == Accepted => links = Meant \ Skips

(* A match is refused only for a reason the user can act on: a member left   *)
(* over, two members for one, a MatchSkip without effect, a key that the     *)
(* renaming options have emptied.                                            *)
RefusalsAreReal ==
  Refused => Loss \/ Merge \/ Blank \/ \E s \in Skips : Ineffective(s)

-----------------------------------------------------------------------------
(***************************************************************************)
(* The index knows positions only.  What is said of the members themselves *)
(* holds of problems whose members have positions of their own, and whose  *)
(* DiscoverNested options open the outer field before the inner.           *)
(***************************************************************************)
NamesX(pb) ==
  pb.x.top \cup (UNION {pb.x.nested[i].subs : i \in DOMAIN pb.x.nested})
  \cup {pb.x.nested[i].field : i \in DOMAIN pb.x.nested}
  \cup {pb.match[i][1] : i \in DOMAIN pb.match}
  \cup ({pb.skip[i][1] : i \in DOMAIN pb.skip} \ {Missing})

NamesY(pb) ==
  pb.y.top \cup (UNION {pb.y.nested[i].subs : i \in DOMAIN pb.y.nested})
  \cup {pb.y.nested[i].field : i \in DOMAIN pb.y.nested}
  \cup {pb.match[i][2] : i \in DOMAIN pb.match}
  \cup ({pb.skip[i][2] : i \in DOMAIN pb.skip} \ {Missing})

Apart(es) == \A e, f \in es : e.pos = f.pos => e = f

OutsideIn(d) ==
  \A i, j \in DOMAIN d.nested : i <= j => d.nested[i].field \notin d.nested[j].subs

Tidy(pb) ==
  Apart(NamesX(pb)) /\ Apart(NamesY(pb)) /\ OutsideIn(pb.x) /\ OutsideIn(pb.y)
=============================================================================
