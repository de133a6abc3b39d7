-------------------------------- MODULE Match --------------------------------
(***************************************************************************)
(* How the members of two types are matched: the fields, getters and       *)
(* setters of two structs, the implementations of two unions, the members  *)
(* of two enums.  discover fills an index of each side, and Matcher.Match  *)
(* applies five rules in order, which link entries of the two sides and    *)
(* record rows of a table, each "ok" or "FAIL".  The match is valid if no  *)
(* row fails.                                                              *)
(*                                                                         *)
(* An index is keyed by the position where a member is declared, so two    *)
(* members of different owners can have one position: the fields of a      *)
(* struct type that is reached twice.                                      *)
(***************************************************************************)
EXTENDS Naturals, FiniteSets, Sequences

CONSTANTS
  Owners,    \* where a member is reached: the type itself or a nested field
  Positions, \* where members are declared
  Keys,      \* what members are matched by, after the renaming options
  NoKey,     \* the key that renaming has left nothing of
  NoPos,     \* token.NoPos
  Missing,   \* the sentinel entry
  Problems   \* the matches to make, see Problem

Entry == [owner : Owners, pos : Positions, key : Keys \cup {NoKey}]

Side == Entry \cup {Missing}

(* What is discovered of one type: its own members, and for each struct      *)
(* named by DiscoverNested the field itself and its members.  Members that   *)
(* are unexported and not asked for are left out.                            *)
Discovery == [top : SUBSET Entry, nested : Seq([field : Entry, subs : SUBSET Entry])]

(* Two types and the options: the pairs of Match, those of MatchSkip (nil is *)
(* Missing, a pair named twice counts once), the default of an enum.         *)
Problem ==
  [x : Discovery, y : Discovery, match : Seq(Entry \X Entry),
   skip : Seq(Side \X Side), default : Positions \cup {NoPos}]

PosOf(e) == IF e = Missing THEN NoPos ELSE e.pos

PosPair(row) == <<PosOf(row[1]), PosOf(row[2])>>

ASSUME SentinelsAssumption ==
  /\ Missing \notin Entry
  /\ NoPos \notin Positions
  /\ NoKey \notin Keys

ASSUME ProblemsAssumption ==
  \A pb \in Problems :
    /\ pb \in Problem
    /\ \A i \in DOMAIN pb.skip : pb.skip[i] # <<Missing, Missing>>
    /\ \A i, j \in DOMAIN pb.skip : PosPair(pb.skip[i]) = PosPair(pb.skip[j]) => i = j

-----------------------------------------------------------------------------
VARIABLES
  prob,  \* the two types and the options, fixed
  phase, \* how far Match has come: the rule applied last
  todo,  \* the options not yet applied
  xs,    \* Matcher.xs
  ys,    \* Matcher.ys
  links, \* the pairs linked
  oks,   \* visualizer.matches: the rows that are ok,
  fails  \* and the rows that FAIL

vars == <<prob, phase, todo, xs, ys, links, oks, fails>>

Phases == {"start", "discover", "key", "forced", "missing", "done"}

TypeOK ==
  /\ prob \in Problem
  /\ phase \in Phases
  /\ todo \in Problem
  /\ xs \subseteq Entry
  /\ ys \subseteq Entry
  /\ links \subseteq Entry \X Entry
  /\ oks \subseteq Side \X Side
  /\ fails \subseteq Side \X Side
  /\ oks \cap fails = {}

-----------------------------------------------------------------------------
(* indexer: a member replaces the one at its position.                       *)
Add(idx, es)   == {e \in idx : \A f \in es : f.pos # e.pos} \cup es
Delete(idx, p) == {e \in idx : e.pos # p}

(* index.ByPos, with the zero value for a position that is not there.        *)
ByPos(idx, p) ==
  IF \E e \in idx : e.pos = p THEN CHOOSE e \in idx : e.pos = p ELSE Missing

IsValid(e) == e # Missing /\ e.key # NoKey

FromX(x) == {l \in links : l[1] = x}
FromY(y) == {l \in links : l[2] = y}

(* links.Linked: an entry that is not valid stands for "missing".            *)
Linked(x, y) ==
  \/ ~IsValid(x) /\ ~IsValid(y)
  \/ ~IsValid(x) /\ IsValid(y) /\ (<<Missing, y>> \in links \/ FromY(y) = {})
  \/ IsValid(x) /\ ~IsValid(y) /\ (<<x, Missing>> \in links \/ FromX(x) = {})
  \/ IsValid(x) /\ IsValid(y) /\ <<x, y>> \in links

(* Mutant: the rows that said "missing" stay. *)
NotMissingKept(rows) == {}

(* visualizer.put: a row of two valid entries removes those that say that    *)
(* either is missing.                                                        *)
NotMissing(rows) ==
  LET valid == {r \in rows : IsValid(r[1]) /\ IsValid(r[2])}
  IN  {<<r[1], Missing>> : r \in valid} \cup {<<Missing, r[2]>> : r \in valid}

(* Mutant: a row keeps the verdict it had. *)
PutBeside(good, bad) ==
  /\ oks'   = (oks \ NotMissing(good \cup bad)) \cup good
  /\ fails' = (fails \ NotMissing(good \cup bad)) \cup bad

Put(good, bad) ==
  /\ oks'   = ((oks \ NotMissing(good \cup bad)) \ bad) \cup good
  /\ fails' = ((fails \ NotMissing(good \cup bad)) \ good) \cup bad

(* Whether Match names a position of either side. *)
ForcedX(p) == \E i \in DOMAIN prob.match : prob.match[i][1].pos = p
ForcedY(p) == \E i \in DOMAIN prob.match : prob.match[i][2].pos = p

(* Matcher.skippedAt *)
Skipped(posX, posY) == \E i \in DOMAIN prob.skip : PosPair(prob.skip[i]) = <<posX, posY>>

-----------------------------------------------------------------------------
Init ==
  /\ prob \in Problems
  /\ phase = "start"
  /\ todo = prob
  /\ xs = {} /\ ys = {}
  /\ links = {} /\ oks = {} /\ fails = {}

(* discoverFields, discoverGetters and discoverSetters of the two types. *)
DiscoverFields ==
  /\ phase = "start"
  /\ phase' = "discover"
  /\ xs' = Add(xs, prob.x.top)
  /\ ys' = Add(ys, prob.y.top)
  /\ UNCHANGED <<prob, todo, links, oks, fails>>

(* One DiscoverNested: the field gives way to its members. *)
DiscoverNestedX ==
  /\ phase = "discover"
  /\ todo.x.nested # <<>>
  /\ LET nest == Head(todo.x.nested)
     IN  xs' = Add(Delete(xs, nest.field.pos), nest.subs)
  /\ todo' = [todo EXCEPT !.x.nested = Tail(@)]
  /\ UNCHANGED <<prob, phase, ys, links, oks, fails>>

DiscoverNestedY ==
  /\ phase = "discover"
  /\ todo.x.nested = <<>>
  /\ todo.y.nested # <<>>
  /\ LET nest == Head(todo.y.nested)
     IN  ys' = Add(Delete(ys, nest.field.pos), nest.subs)
  /\ todo' = [todo EXCEPT !.y.nested = Tail(@)]
  /\ UNCHANGED <<prob, phase, xs, links, oks, fails>>

Discovered == phase = "discover" /\ todo.x.nested = <<>> /\ todo.y.nested = <<>>

(* The members named by Match are added whether discovered or not. *)
ResolveMatch ==
  /\ Discovered
  /\ todo.match # <<>>
  /\ xs' = Add(xs, {Head(todo.match)[1]})
  /\ ys' = Add(ys, {Head(todo.match)[2]})
  /\ todo' = [todo EXCEPT !.match = Tail(@)]
  /\ UNCHANGED <<prob, phase, links, oks, fails>>

(* Mutant: a member forced on the other side is still matched by key. *)
ByKeyHalf(x, y) == x.key = y.key /\ ~ForcedX(x.pos)

ByKey(x, y) == x.key = y.key /\ ~ForcedX(x.pos) /\ ~ForcedY(y.pos)

RuleMatch ==
  /\ Discovered
  /\ todo.match = <<>>
  /\ phase' = "key"
  /\ LET found == {l \in xs \X ys : ByKey(l[1], l[2])}
     IN  links' = found /\ Put(found, {})
  /\ UNCHANGED <<prob, todo, xs, ys>>

RuleForced ==
  /\ phase = "key"
  /\ phase' = "forced"
  /\ LET forced == {<<ByPos(xs, prob.match[i][1].pos), ByPos(ys, prob.match[i][2].pos)>> :
                      i \in DOMAIN prob.match}
     IN  links' = links \cup forced /\ Put(forced, {})
  /\ UNCHANGED <<prob, todo, xs, ys>>

(* An entry without a link fails, unless it is skipped or the default. *)
RuleMissing ==
  /\ phase = "forced"
  /\ phase' = "missing"
  /\ LET looseX == {x \in xs : FromX(x) = {}}
         looseY == {y \in ys : FromY(y) = {}}
         goodX  == {x \in looseX : Skipped(x.pos, NoPos)}
         goodY  == {y \in looseY : Skipped(NoPos, y.pos) \/ y.pos = prob.default}
     IN  Put(goodX \X {Missing} \cup {Missing} \X goodY,
             (looseX \ goodX) \X {Missing} \cup {Missing} \X (looseY \ goodY))
  /\ UNCHANGED <<prob, todo, xs, ys, links>>

(* Mutants: an ineffective skip is passed over; a skipped pair stays linked. *)
RuleSkipLax ==
  /\ phase = "missing"
  /\ todo.skip # <<>>
  /\ LET s == Head(todo.skip)
         x == ByPos(xs, PosOf(s[1]))
         y == ByPos(ys, PosOf(s[2]))
     IN  links' = links \ {<<x, y>>} /\ Put({<<x, y>>}, {})
  /\ todo' = [todo EXCEPT !.skip = Tail(@)]
  /\ UNCHANGED <<prob, phase, xs, ys>>

RuleSkipLinked ==
  /\ phase = "missing" /\ todo.skip # <<>>
  /\ todo' = [todo EXCEPT !.skip = Tail(@)]
  /\ UNCHANGED <<prob, phase, xs, ys, links, oks, fails>>

(* One MatchSkip: its pair is unlinked, or it is refused as ineffective; a   *)
(* pair with nil was dealt with by RuleMissing.                              *)
RuleSkip ==
  /\ phase = "missing"
  /\ todo.skip # <<>>
  /\ LET s == Head(todo.skip)
         x == ByPos(xs, PosOf(s[1]))
         y == ByPos(ys, PosOf(s[2]))
     IN  \/ /\ ~Linked(x, y)
            /\ Put({}, {<<x, y>>})
            /\ UNCHANGED links
         \/ /\ Linked(x, y)
            /\ Missing \in {s[1], s[2]}
            /\ UNCHANGED <<links, oks, fails>>
         \/ /\ Linked(x, y)
            /\ Missing \notin {s[1], s[2]}
            /\ links' = links \ {<<x, y>>}
            /\ Put({<<x, y>>}, {})
  /\ todo' = [todo EXCEPT !.skip = Tail(@)]
  /\ UNCHANGED <<prob, phase, xs, ys>>

(* Mutant: two links to one entry of Y are let through. *)
SpareAll(spared) == spared = links

(* One link of each entry of Y is spared: the one made first, whichever that *)
(* is.                                                                       *)
Spare(spared) ==
  /\ \A l \in links : \E s \in spared : s[2] = l[2]
  /\ \A s, t \in spared : s[2] = t[2] => s = t

(* The others are ambiguous. *)
RuleAmbiguous ==
  /\ phase = "missing"
  /\ todo.skip = <<>>
  /\ phase' = "done"
  /\ \E spared \in SUBSET links : Spare(spared) /\ Put({}, links \ spared)
  /\ UNCHANGED <<prob, todo, xs, ys, links>>

Done == phase = "done" /\ UNCHANGED vars

Next ==
  \/ DiscoverFields \/ DiscoverNestedX \/ DiscoverNestedY \/ ResolveMatch
  \/ RuleMatch \/ RuleForced \/ RuleMissing \/ RuleSkip \/ RuleAmbiguous
  \/ Done

Spec == Init /\ [][Next]_vars

(* Match returns the links if IsValid, and an error otherwise. *)
Accepted == phase = "done" /\ fails = {}
Refused  == phase = "done" /\ fails # {}
=============================================================================
