----------------------------- MODULE ConfigProps -----------------------------
(***************************************************************************)
(* What a configuration must hold, said of the options as they are written *)
(* in the program, not of the slices and forks they go through.            *)
(***************************************************************************)
EXTENDS Config, Picks

(* The options that apply to a directive, in the order they are registered:  *)
(* those of its module, for all kinds or for its own, then its own.          *)
OptionsOf(m) == IF m = 0 THEN <<>> ELSE prog.modules[m]

ForKind(opts, kind) == Picked(opts, {k \in DOMAIN opts : opts[k].into \in {Nil, kind}})
OfModule(m, kind)   == ForKind(OptionsOf(m), kind)

InForce(d) == OfModule(d.mod, d.kind) \o d.opts

(* The options at S that no later one at R undoes. *)
Standing(opts, S, R) == Picked(opts, {k \in S : ~\E j \in R : k < j})

(* Update (config.go:95-136) puts what is for a kind behind all that the    *)
(* module has for all kinds, and undoes nothing of the latter.  That is the  *)
(* order of registration if, of the options in ops, none of the module comes *)
(* after one for the kind, and none for the kind is there to undo them.      *)
InOrder(opts, kind, ops, undo) ==
  \A j, k \in DOMAIN opts :
    opts[j].into = kind /\ opts[k].into = Nil /\ {opts[j].op, opts[k].op} \subseteq ops =>
      k < j /\ opts[j].op # undo

Renamings  == {"rename", "renameReset"}
Discovered == {"unexported", "getters", "setters", "fieldsOnly"}

RenamesInOrder(m, kind)   == InOrder(OptionsOf(m), kind, Renamings, "renameReset")
DiscoveryInOrder(m, kind) == InOrder(OptionsOf(m), kind, Discovered, "fieldsOnly")

Named(opts, op)         == {k \in DOMAIN opts : opts[k].op = op}
Sided(opts, op, side)   == {k \in Named(opts, op) : opts[k][side] # Nil}
Enabled(opts, op, side) == {k \in Named(opts, op) : opts[k][side]}

LastOr(s, default) == IF s = <<>> THEN default ELSE s[Len(s)]
Each(s, field)     == [k \in DOMAIN s |-> s[k][field]]

RulesOf(opts, side) ==
  Each(Standing(opts, Sided(opts, "rename", side), Enabled(opts, "renameReset", side)), side)

FindersOf(rules) == [k \in DOMAIN rules |-> FinderOf(rules[k])]

(* A qualifier cannot hold wrappers. *)
WrapsOf(opts) ==
  Each(Standing(opts, Named(opts, "errWrap"), Named(opts, "errWrapReset")), "wrap")

UnexportedOf(opts) ==
  LET last == LastOr(Picked(opts, Named(opts, "unexported")), [x |-> FALSE, y |-> FALSE])
  IN  [side \in Sides |-> last[side]]

(* The affix of getters, if they are discovered; of setters, with side "y".  *)
AffixOf(opts, name, side) ==
  LastOr(Standing(opts, Named(opts, name), Enabled(opts, "fieldsOnly", side)), [affix |-> Nil]).affix

(* The package in which implementations are looked for: that of the type     *)
(* where the last sample says nothing of the side.                           *)
SampleOf(opts, side) ==
  LET sample == LastOr(Picked(opts, Named(opts, "sample")), [x |-> Nil, y |-> Nil])[side]
  IN  IF sample = Nil THEN Own ELSE sample

SampledOnce(opts) == \A j, k \in Named(opts, "sample") : j = k

NestedOf(opts, side) == Each(Picked(opts, Sided(opts, "nested", side)), side)
PairsOf(opts, S)     == Each(Picked(opts, S), "pair")

(* The function of a pair is that of its last MatchFunc. *)
FuncOf(opts, pair) ==
  LastOr(Picked(opts, {k \in Named(opts, "matchFunc") : opts[k].pair = pair}), [fn |-> Nil]).fn

-----------------------------------------------------------------------------
(* What a converter sees of a configuration. *)
Rules(c, list, side) == Contents(heap, c.lists[<<list, side>>])
FuncIn(c, pair) ==
  IF pair \in DOMAIN c.matchFuncs.of THEN c.matchFuncs.of[pair] ELSE Nil

RenamesAre(c, opts) ==
  \A side \in Sides :
    /\ Rules(c, "renamers", side) = RulesOf(opts, side)
    /\ Rules(c, "finders", side) = FindersOf(RulesOf(opts, side))

DiscoveryIs(c, opts) ==
  /\ [side \in Sides |-> c.unexported[side]] = UnexportedOf(opts)
  /\ c.getters = AffixOf(opts, "getters", "x")
  /\ c.setters = AffixOf(opts, "setters", "y")

(* What has been parsed: modules, directives, and their subconverters. *)
Configs(m) == {m.cfg} \cup {m.fors[kind] : kind \in DOMAIN m.fors}

Finished ==
  (UNION {Configs(mods[m]) : m \in DOMAIN mods})
  \cup {injs[k].cfg : k \in DOMAIN injs} \cup {subs[k].cfg : k \in DOMAIN subs}

RulesStay(c) == \A l \in Lists : Contents(heap', c.lists[l]) = Contents(heap, c.lists[l])

Settled == Finished \subseteq Finished' /\ \A c \in Finished : RulesStay(c)

(* Once a module or a directive has been parsed its rules are settled:       *)
(* whatever is forked from it and added to the fork, the lists it holds keep *)
(* their rules, in arrays nobody writes to any more (config.go:73-77 clones  *)
(* them for that).                                                           *)
RulesAreSettled == [][Settled]_vars

(* Each directive renames by the rules of its module, those for its kind and *)
(* its own, in the order they are registered and since the last reset, and   *)
(* each rule keeps its finder, whatever other directives of the module add   *)
(* to or clear from the same rules (convgen.go:359-361, 683).  It does if    *)
(* the module's own rules come before those for the kind and are not reset   *)
(* there; RenamesAsRegistered is the same of all modules, and does not hold. *)
RenamesInForce ==
  \A k \in DOMAIN injs :
    LET d == prog.directives[injs[k].n]
    IN  RenamesInOrder(d.mod, d.kind) => RenamesAre(injs[k].cfg, InForce(d))

Parsed(n) == {injs[k].cfg : k \in {j \in DOMAIN injs : injs[j].n = n}}

(* Renaming rules are applied in the order they are registered (convgen.go   *)
(* :359-361), and a RenameReset clears all those previously registered by    *)
(* any Rename options (683), in a qualifier or not.                          *)
RenamesAsRegistered(n) == \A c \in Parsed(n) : RenamesAre(c, InForce(prog.directives[n]))

(* Each directive discovers what the last option about it says, its own, or  *)
(* that of its module (convgen.go:829-838, 874, 921): unexported members,    *)
(* getters, setters; and the packages of its own sample, if it has one, and  *)
(* nested fields.  Of the module's options it does if they come before those *)
(* for the kind, which do not turn off what the module turns on; see         *)
(* DiscoveryAsRegistered and LastSampleTakesEffect for the rest.             *)
DiscoveryInForce ==
  \A k \in DOMAIN injs :
    LET d == prog.directives[injs[k].n]
        c == injs[k].cfg
    IN  /\ DiscoveryInOrder(d.mod, d.kind) => DiscoveryIs(c, InForce(d))
        /\ SampledOnce(d.opts) => \A side \in Sides : c.bySample[side] = SampleOf(d.opts, side)
        /\ \A side \in Sides : c.nested[side] = NestedOf(d.opts, side)

(* DiscoverFieldsOnly disables previously registered DiscoverGetters and     *)
(* DiscoverSetters (convgen.go:921), in a qualifier or not.                  *)
DiscoveryAsRegistered(n) == \A c \in Parsed(n) : DiscoveryIs(c, InForce(prog.directives[n]))

(* Of several DiscoverBySample of a directive the last one takes effect      *)
(* (convgen.go:806).                                                         *)
LastSampleTakesEffect(n) ==
  \A c \in Parsed(n) : \A side \in Sides :
    c.bySample[side] = SampleOf(prog.directives[n].opts, side)

(* A directive matches and skips what its own options say, in their order,   *)
(* and nothing of another's; a pair is converted by its last MatchFunc; and  *)
(* errors are wrapped as the module says.                                    *)
MatchesInForce ==
  \A k \in DOMAIN injs :
    LET d == prog.directives[injs[k].n]
        c == injs[k].cfg
    IN  /\ c.match = PairsOf(d.opts, Named(d.opts, "match") \cup Named(d.opts, "matchFunc"))
        /\ c.matchSkip = PairsOf(d.opts, Named(d.opts, "matchSkip"))
        /\ \A j \in Named(d.opts, "match") \cup Named(d.opts, "matchFunc") :
             FuncIn(c, d.opts[j].pair) = FuncOf(d.opts, d.opts[j].pair)
        /\ DOMAIN c.matchFuncs.of = {d.opts[j].pair : j \in Named(d.opts, "matchFunc")}
        /\ c.errWraps = WrapsOf(OptionsOf(d.mod))

(* Subconverters inherit the options of the module and not those of the      *)
(* directive they are made for (convgen.go:186-188).                         *)
SubconvertersInherit ==
  \A k \in DOMAIN subs :
    LET c == subs[k].cfg
        m == prog.directives[subs[k].n].mod
    IN  /\ RenamesInOrder(m, "struct") => RenamesAre(c, OfModule(m, "struct"))
        /\ DiscoveryInOrder(m, "struct") => DiscoveryIs(c, OfModule(m, "struct"))
        /\ c.errWraps = WrapsOf(OptionsOf(m))
        /\ c.match = <<>> /\ c.matchSkip = <<>>
        /\ \A side \in Sides : c.nested[side] = <<>>

-----------------------------------------------------------------------------
(* The mistakes of a program. *)
Place(ph, n, i) == [phase |-> ph, n |-> n, i |-> i]

Wrongs(ph, n, opts) ==
  {[what |-> "option", at |-> Place(ph, n, i)] : i \in {j \in DOMAIN opts : opts[j].op = "bad"}}

Twice(n, opts) ==
  {[what |-> "sample", at |-> Place("injector", n, i)] :
     i \in {j \in DOMAIN opts : opts[j].op = "sample" /\ \E k \in 1 .. j - 1 : opts[k].op = "sample"}}

Imports(opts, pair) == {i \in DOMAIN opts : opts[i].op = "importFunc" /\ opts[i].pair = pair}

ImportedTwice(n) ==
  LET opts == prog.modules[n]
  IN  {[what |-> "import", at |-> Place("module", n, i)] :
         i \in {j \in DOMAIN opts : opts[j].op = "importFunc"
                                    /\ \E k \in Imports(opts, opts[j].pair) : k < j}}

Whole(n) == ~prog.directives[n].broken

DeclaredTwice(n) ==
  LET d == prog.directives[n]
  IN  /\ d.mod # 0
      /\ \/ Imports(prog.modules[d.mod], d.pair) # {}
         \/ \E k \in 1 .. n - 1 :
              Whole(k) /\ prog.directives[k].mod = d.mod /\ prog.directives[k].pair = d.pair

MistakesIn(n) ==
  LET opts == prog.directives[n].opts
  IN  IF ~Whole(n) THEN {[what |-> "directive", at |-> Place("injector", n, 0)]}
      ELSE Wrongs("injector", n, opts)
           \cup IF DeclaredTwice(n)
                  THEN {[what |-> "duplicate", at |-> Place("injector", n, Len(opts) + 1)]}
                  ELSE {}

MistakesOf(m) == Wrongs("module", m, prog.modules[m]) \cup ImportedTwice(m)

Mistakes ==
  (UNION {MistakesOf(m) : m \in DOMAIN prog.modules})
  \cup UNION {MistakesIn(n) : n \in DOMAIN prog.directives}

(* A mistake in a module written inline hides those of its directive. *)
Halted(n) ==
  LET m == prog.directives[n].mod IN m > prog.declared /\ MistakesOf(m) # {}

Hidden == UNION {MistakesIn(n) : n \in {k \in DOMAIN prog.directives : Halted(k)}}

(* No mistakes: the documentation lets the last sample take effect. *)
SecondSamples == UNION {Twice(n, prog.directives[n].opts) : n \in DOMAIN prog.directives}

Over == at.phase \in {"build", "done"}

(* All errors are returned (internal/convgen/convgen.go:25): a mistake       *)
(* does not hide another, in the same list of options, in another directive  *)
(* or in another module, and what is right is not reported.  A module        *)
(* written inline may hide its directive's, which NothingIsHidden denies,    *)
(* and a second sample may be reported, which LastSampleTakesEffect denies.  *)
ErrorsAreComplete ==
  Over => Mistakes \ Hidden \subseteq errs /\ errs \subseteq Mistakes \cup SecondSamples

(* All errors are returned (internal/convgen/convgen.go:25): a directive     *)
(* with a module that is wrong is parsed all the same, "to collect as many   *)
(* errors as possible" (parse/injector.go:220).                              *)
NothingIsHidden(n) == Over \/ (at.phase = "panicked" /\ n < at.n) => MistakesIn(n) \subseteq errs

(* The tool does not die on what it should accept: a MatchFunc in a module   *)
(* (convgen.go:746-752).                                                     *)
NeverPanics(n) == at.phase = "panicked" => n # at.n

(* One directive at least is treated as documented: much less than what is   *)
(* said above of each.  A package that violates it shows for each directive  *)
(* what Convgen does otherwise.                                              *)
SomeAreAsDocumented ==
  \E n \in DOMAIN prog.directives :
    /\ RenamesAsRegistered(n) /\ DiscoveryAsRegistered(n) /\ LastSampleTakesEffect(n)
    /\ NothingIsHidden(n) /\ NeverPanics(n)

-----------------------------------------------------------------------------
TypeOK ==
  /\ at.phase \in {"module", "injector", "build", "done", "panicked"}
  /\ at.n \in Nat /\ at.i \in Nat
  /\ \A c \in {cfg} \cup {injs[k].cfg : k \in DOMAIN injs} \cup {subs[k].cfg : k \in DOMAIN subs}
              \cup {mods[m].cfg : m \in DOMAIN mods} :
       /\ DOMAIN c = DOMAIN EmptyConfig
       /\ \A l \in Lists :
            LET s == c.lists[l]
            IN  s = NilSlice \/ (s.arr \in DOMAIN heap /\ s.len \in 1 .. Len(heap[s.arr]))
=============================================================================
