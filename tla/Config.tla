------------------------------- MODULE Config -------------------------------
(***************************************************************************)
(* How options accumulate.  A module has options, and more of them for     *)
(* each kind of converter; a directive starts from a fork of its module's  *)
(* and adds its own.  The lists of renaming rules are Go slices, whose     *)
(* arrays a fork would share if they were not cloned.                      *)
(***************************************************************************)
EXTENDS Naturals, Sequences, FiniteSets

CONSTANTS Programs,  \* the modules and directives of a package
          Common,    \* the renaming rules that look for a common affix
          NoFinder,  \* in place of the finder of any other rule
          Own,       \* the package of the type itself
          Wrong,     \* a path that cannot be parsed
          Nil

Kinds == {"struct", "union", "enum"}
Sides == {"x", "y"}

(* An option of a For-qualifier names the kind it is for in "into"; the      *)
(* qualifier itself stands before its options.  Directives have none.        *)
IsList(s) == Len(s) \in Nat /\ DOMAIN s = 1 .. Len(s) /\ s = [k \in DOMAIN s |-> s[k]]

Qualified(opts) ==
  \A i \in DOMAIN opts :
    \/ opts[i].into = Nil
    \/ \E j \in 1 .. i - 1 : opts[j].op = "for" /\ opts[j].kind = opts[i].into

(* The first modules are declared as variables of the package; each other is *)
(* written inline, as an argument of one directive.                          *)
Inlined(pg, m) ==
  \E d \in DOMAIN pg.directives :
    ~pg.directives[d].broken /\ {e \in DOMAIN pg.directives : pg.directives[e].mod = m} = {d}

ASSUME KindsAssumption == Nil \notin Kinds

ASSUME ProgramsAssumption ==
  \A pg \in Programs :
    /\ IsList(pg.modules) /\ IsList(pg.directives) /\ pg.directives # <<>>
    /\ pg.declared \in 0 .. Len(pg.modules)
    /\ \A m \in DOMAIN pg.modules : m > pg.declared => Inlined(pg, m)
    /\ \A m \in DOMAIN pg.modules : IsList(pg.modules[m]) /\ Qualified(pg.modules[m])
    /\ \A d \in DOMAIN pg.directives :
         /\ pg.directives[d].mod \in 0 .. Len(pg.modules)
         /\ pg.directives[d].kind \in Kinds
         /\ IsList(pg.directives[d].opts)
         /\ \A i \in DOMAIN pg.directives[d].opts :
              pg.directives[d].opts[i].into = Nil /\ pg.directives[d].opts[i].op # "for"

(* What the types of the options let a package say: functions and wrappers   *)
(* are imported by modules only, paths are for directives; an affix is a     *)
(* string.                                                                   *)
Everywhere == {"bad", "rename", "renameReset", "unexported", "getters", "setters", "fieldsOnly"}
OfModules  == {"for", "importFunc", "errWrap", "errWrapReset"}
OfPaths    == {"match", "matchFunc", "matchSkip", "sample", "nested"}

ASSUME OptionsAssumption ==
  \A pg \in Programs :
    /\ \A m \in DOMAIN pg.modules : \A i \in DOMAIN pg.modules[m] :
         LET o == pg.modules[m][i]
         IN  /\ o.op \in Everywhere \/ (o.op \in OfModules /\ o.into = Nil)
             /\ o.op = "for" => o.kind \in Kinds
             /\ o.op \in {"getters", "setters"} => o.affix # Nil
    /\ \A d \in DOMAIN pg.directives : \A i \in DOMAIN pg.directives[d].opts :
         LET o == pg.directives[d].opts[i]
         IN  /\ o.op \in Everywhere \cup OfPaths
             /\ o.op \in {"getters", "setters"} => o.affix # Nil

VARIABLES
  prog,      \* the package, which never changes
  at,        \* what is being parsed: [phase, n, i], the i-th option of the n-th
  heap,      \* the arrays of slices
  cfg,       \* the Config that is being filled
  fors,      \* those of cfg.ForStruct, cfg.ForUnion and cfg.ForEnum there are
  mods,      \* the modules parsed so far, with the pairs they have functions for
  injs,      \* the configurations of the directives
  subs,      \* those their subconverters are built with
  errs       \* the errors reported, each with its place

vars == <<prog, at, heap, cfg, fors, mods, injs, subs, errs>>

-----------------------------------------------------------------------------
(* Slices *)
NilSlice == [arr |-> 0, len |-> 0]

Contents(h, s) == IF s.arr = 0 THEN <<>> ELSE SubSeq(h[s.arr], 1, s.len)

Room(h, s) == IF s.arr = 0 THEN 0 ELSE Len(h[s.arr])

Bigger(a, b) == IF a > b THEN a ELSE b

(* Mutant: the array is never replaced, and what does not fit is lost. *)
AppendAllFull(h, s, vs) ==
  LET all == Contents(h, s) \o vs
  IN  IF s.arr # 0
        THEN [heap  |-> [h EXCEPT ![s.arr] = SubSeq(all, 1, Len(@))],
              slice |-> [s EXCEPT !.len = @ + Len(vs)]]
        ELSE [heap  |-> Append(h, all), slice |-> [arr |-> Len(h) + 1, len |-> Len(all)]]

(* append: in place if there is room, else in an array of twice the size.    *)
AppendAll(h, s, vs) ==
  LET n == s.len + Len(vs)
      all == Contents(h, s) \o vs
      size == Bigger(n, 2 * Room(h, s))
  IN  IF n <= Room(h, s)
        THEN [heap  |-> IF vs = <<>> THEN h
                        ELSE [h EXCEPT ![s.arr] = all \o SubSeq(@, n + 1, Len(@))],
              slice |-> [s EXCEPT !.len = n]]
        ELSE [heap  |-> Append(h, all \o [k \in 1 .. size - n |-> Nil]),
              slice |-> [arr |-> Len(h) + 1, len |-> n]]

-----------------------------------------------------------------------------
(* A configuration; "on" is Enabled.  Only the lists of rules are extended   *)
(* both by a module and by its forks.                                        *)
Lists == {"renamers", "finders"} \X Sides

Off(x, y) == [on |-> FALSE, x |-> x, y |-> y]

(* A map: a nil one reads as if it were empty. *)
NilMap       == [made |-> FALSE, of |-> [pair \in {} |-> Nil]]
NoMatchFuncs == [NilMap EXCEPT !.made = TRUE]

EmptyConfig ==
  [funcs |-> <<>>, errWraps |-> <<>>, lists |-> [l \in Lists |-> NilSlice],
   match |-> <<>>, matchFuncs |-> NilMap, matchSkip |-> <<>>,
   bySample |-> Off(Nil, Nil), unexported |-> Off(FALSE, FALSE),
   getters |-> Nil, setters |-> Nil, nested |-> [side \in Sides |-> <<>>]]

(* A heap with the configuration that points into it. *)
State(h, c) == [heap |-> h, cfg |-> c]

AppendTo(st, l, vs) ==
  LET r == AppendAll(st.heap, st.cfg.lists[l], vs)
  IN  State(r.heap, [st.cfg EXCEPT !.lists[l] = r.slice])

Clone(st, l) == AppendTo(State(st.heap, [st.cfg EXCEPT !.lists[l] = NilSlice]), l,
                         Contents(st.heap, st.cfg.lists[l]))

CloneRules(st, name) == Clone(Clone(st, <<name, "x">>), <<name, "y">>)

(* Mutant: the lists of rules are not cloned. *)
ForkShared(st) ==
  State(st.heap,
    [st.cfg EXCEPT !.match = <<>>, !.matchFuncs = NoMatchFuncs, !.matchSkip = <<>>,
       !.bySample = Off(Nil, Nil), !.nested = [side \in Sides |-> <<>>]])

Fork(st) ==
  LET cloned == CloneRules(CloneRules(st, "renamers"), "finders")
  IN  State(cloned.heap,
        [cloned.cfg EXCEPT !.match = <<>>, !.matchFuncs = NoMatchFuncs, !.matchSkip = <<>>,
           !.bySample = Off(Nil, Nil), !.nested = [side \in Sides |-> <<>>]])

(* Mutant: what is not set is followed, too. *)
FollowAlways(old, new) == new

(* What the For-qualifier has is added after what the module has, or         *)
(* replaces it if it was given there.                                        *)
Follow(old, new) == IF new.on THEN new ELSE old
FollowAffix(old, new) == IF new # Nil THEN new ELSE old

Update(st, other) ==
  LET AppendOther(s, l) == AppendTo(s, l, Contents(st.heap, other.lists[l]))
      AppendRules(s, name) == AppendOther(AppendOther(s, <<name, "x">>), <<name, "y">>)
      grown == AppendRules(AppendRules(st, "renamers"), "finders")
  IN  State(grown.heap,
        [grown.cfg EXCEPT
           !.funcs = @ \o other.funcs, !.errWraps = @ \o other.errWraps,
           !.match = other.match, !.matchFuncs = other.matchFuncs,
           !.matchSkip = other.matchSkip, !.nested.x = other.nested.x,
           !.bySample = Follow(@, other.bySample),
           !.unexported = Follow(@, other.unexported),
           !.getters = FollowAffix(@, other.getters),
           !.setters = FollowAffix(@, other.setters)])

(* ForkForStruct, ForkForUnion, ForkForEnum *)
ForkFor(kind, mod) ==
  IF kind \in DOMAIN mod.fors THEN Update(Fork(State(heap, mod.cfg)), mod.fors[kind])
  ELSE Fork(State(heap, mod.cfg))

-----------------------------------------------------------------------------
(* The option in hand *)
Items == IF at.phase = "module" THEN prog.modules[at.n] ELSE prog.directives[at.n].opts

Parsing == at.phase \in {"module", "injector"} /\ at.i \in DOMAIN Items
Item    == Items[at.i]

Option(op) == Parsing /\ Item.op = op

Target == IF Item.into = Nil THEN cfg ELSE fors[Item.into]

NextItem == at' = [at EXCEPT !.i = @ + 1]

Becomes(st) ==
  /\ heap' = st.heap
  /\ IF Item.into = Nil THEN cfg' = st.cfg /\ UNCHANGED fors
     ELSE fors' = [fors EXCEPT ![Item.into] = st.cfg] /\ UNCHANGED cfg
  /\ NextItem
  /\ UNCHANGED <<prog, mods, injs, subs, errs>>

Sets(c) == Becomes(State(heap, c))

Error(what) == [what |-> what, at |-> at]

(* Mutant: the first error ends the list. *)
RefusedForAll(what) ==
  /\ errs' = errs \cup {Error(what)}
  /\ at' = [at EXCEPT !.i = Len(Items) + 1]
  /\ UNCHANGED <<prog, heap, cfg, fors, mods, injs, subs>>

Refused(what) ==
  /\ errs' = errs \cup {Error(what)}
  /\ NextItem
  /\ UNCHANGED <<prog, heap, cfg, fors, mods, injs, subs>>

-----------------------------------------------------------------------------
(* ForStruct, ForUnion, ForEnum *)
Qualifier ==
  /\ Option("for")
  /\ fors' = [kind \in DOMAIN fors \cup {Item.kind} |->
                IF kind \in DOMAIN fors THEN fors[kind] ELSE EmptyConfig]
  /\ NextItem
  /\ UNCHANGED <<prog, heap, cfg, mods, injs, subs, errs>>

(* An option that is not inlined, or whose arguments or paths are wrong. *)
BadOption == Option("bad") /\ Refused("option")

ImportFunc ==
  /\ Option("importFunc")
  /\ Sets([Target EXCEPT !.funcs = Append(@, [pair |-> Item.pair, i |-> at.i])])

ImportErrWrap == Option("errWrap") /\ Sets([Target EXCEPT !.errWraps = Append(@, Item.wrap)])

ImportErrWrapReset == Option("errWrapReset") /\ Sets([Target EXCEPT !.errWraps = <<>>])

(* Every Rename option but RenameReset; a side it leaves alone has no rule.  *)
FinderOf(rule) == IF rule \in Common THEN rule ELSE NoFinder

AddRule(st, side, rule) ==
  IF rule = Nil THEN st
  ELSE AppendTo(AppendTo(st, <<"renamers", side>>, <<rule>>),
                <<"finders", side>>, <<FinderOf(rule)>>)

Rename ==
  /\ Option("rename")
  /\ Becomes(AddRule(AddRule(State(heap, Target), "x", Item.x), "y", Item.y))

Cleared(lists) == [l \in Lists |-> IF Item[l[2]] THEN NilSlice ELSE lists[l]]

RenameReset ==
  /\ Option("renameReset")
  /\ Sets([Target EXCEPT !.lists = Cleared(@)])

DiscoverUnexported ==
  /\ Option("unexported")
  /\ Sets([Target EXCEPT !.unexported = [on |-> TRUE, x |-> Item.x, y |-> Item.y]])

DiscoverGetters == Option("getters") /\ Sets([Target EXCEPT !.getters = Item.affix])

DiscoverSetters == Option("setters") /\ Sets([Target EXCEPT !.setters = Item.affix])

FieldsOnly(c) == [c EXCEPT !.getters = IF Item.x THEN Nil ELSE @,
                           !.setters = IF Item.y THEN Nil ELSE @]

DiscoverFieldsOnly == Option("fieldsOnly") /\ Sets(FieldsOnly(Target))

Match == Option("match") /\ Sets([Target EXCEPT !.match = Append(@, Item.pair)])

Panic ==
  /\ at' = [at EXCEPT !.phase = "panicked"]
  /\ UNCHANGED <<prog, heap, cfg, fors, mods, injs, subs, errs>>

(* Mutant: the first function of a pair stays. *)
MatchFuncOnce ==
  /\ Option("matchFunc")
  /\ Sets([Target EXCEPT
            !.match = Append(@, Item.pair),
            !.matchFuncs.of = [pair \in DOMAIN @ \cup {Item.pair} |->
                                 IF pair \in DOMAIN @ THEN @[pair] ELSE Item.fn]])

(* MatchFunc, MatchFuncErr: a write to a nil map panics. *)
MatchFunc ==
  /\ Option("matchFunc")
  /\ IF ~Target.matchFuncs.made THEN Panic
     ELSE Sets([Target EXCEPT
                  !.match = Append(@, Item.pair),
                  !.matchFuncs.of = [pair \in DOMAIN @ \cup {Item.pair} |->
                                       IF pair = Item.pair THEN Item.fn ELSE @[pair]]])

MatchSkip == Option("matchSkip") /\ Sets([Target EXCEPT !.matchSkip = Append(@, Item.pair)])

(* At most once; a nil sample keeps the package of the type. *)
Sampled(c) ==
  [on |-> TRUE, x |-> IF Item.x = Nil THEN c.bySample.x ELSE Item.x,
                y |-> IF Item.y = Nil THEN c.bySample.y ELSE Item.y]

DiscoverBySample ==
  /\ Option("sample")
  /\ IF Target.bySample.on THEN Refused("sample")
     ELSE Sets([Target EXCEPT !.bySample = Sampled(Target)])

(* A path that cannot be parsed is dereferenced before its error is seen. *)
DiscoverNested ==
  /\ Option("nested")
  /\ IF Wrong \in {Item.x, Item.y} THEN Panic
     ELSE Sets([Target EXCEPT !.nested =
                  [side \in Sides |-> IF Item[side] = Nil THEN @[side]
                                      ELSE Append(@[side], Item[side])]])

-----------------------------------------------------------------------------
(* Modules *)
NoFors == [kind \in {} |-> Nil]

NilModule == [cfg |-> EmptyConfig, fors |-> NoFors, known |-> {}]

BeginModule ==
  /\ at.phase = "module" /\ at.i = 0
  /\ cfg' = EmptyConfig
  /\ fors' = NoFors
  /\ NextItem
  /\ UNCHANGED <<prog, heap, mods, injs, subs, errs>>

(* The imported functions, of which a pair of types can have one. *)
Duplicates(funcs) ==
  {k \in DOMAIN funcs : \E j \in 1 .. k - 1 : funcs[j].pair = funcs[k].pair}

(* A module written inline goes back to its directive. *)
Owner(m) == CHOOSE d \in DOMAIN prog.directives : prog.directives[d].mod = m

EndModule ==
  /\ at.phase = "module" /\ at.i = Len(Items) + 1
  /\ LET mod == [cfg |-> cfg, fors |-> fors, known |-> {cfg.funcs[k].pair : k \in DOMAIN cfg.funcs}]
     IN  mods' = [m \in DOMAIN mods \cup {at.n} |-> IF m = at.n THEN mod ELSE mods[m]]
  /\ errs' = errs \cup {[what |-> "import", at |-> [at EXCEPT !.i = cfg.funcs[k].i]] :
                          k \in Duplicates(cfg.funcs)}
  /\ at' = IF at.n < prog.declared THEN [at EXCEPT !.n = @ + 1, !.i = 0]
           ELSE [phase |-> "injector", n |-> IF at.n = prog.declared THEN 1 ELSE Owner(at.n), i |-> 0]
  /\ UNCHANGED <<prog, heap, cfg, fors, injs, subs>>

-----------------------------------------------------------------------------
(* Directives *)
Directive == prog.directives[at.n]

ModuleOf(d) == IF d.mod = 0 THEN NilModule ELSE mods[d.mod]

(* Packages with an error are not built. *)
NextDirective(reported) ==
  at' = IF at.n < Len(prog.directives) THEN [at EXCEPT !.n = @ + 1, !.i = 0]
        ELSE [phase |-> IF reported = {} THEN "build" ELSE "done", n |-> 1, i |-> 0]

(* A directive assigned to "_", or whose module is not one, is not parsed,   *)
(* nor is a module written inline there.                                     *)
SkipInjector ==
  /\ at.phase = "injector" /\ at.i = 0 /\ Directive.broken
  /\ errs' = errs \cup {Error("directive")}
  /\ NextDirective(errs')
  /\ UNCHANGED <<prog, heap, cfg, fors, mods, injs, subs>>

(* A module written inline is parsed before the directive's options. *)
ToParse == at.phase = "injector" /\ at.i = 0 /\ ~Directive.broken
Modules == {0} \cup DOMAIN mods

BeginInline ==
  /\ ToParse /\ Directive.mod \notin Modules
  /\ at' = [phase |-> "module", n |-> Directive.mod, i |-> 0]
  /\ UNCHANGED <<prog, heap, cfg, fors, mods, injs, subs, errs>>

(* With a mistake in it the directive is not parsed any further. *)
Faulty(m) == m > prog.declared /\ \E e \in errs : e.at.phase = "module" /\ e.at.n = m

AbandonInjector ==
  /\ ToParse /\ Directive.mod \in Modules /\ Faulty(Directive.mod)
  /\ NextDirective(errs)
  /\ UNCHANGED <<prog, heap, cfg, fors, mods, injs, subs, errs>>

BeginInjector ==
  /\ ToParse /\ Directive.mod \in Modules /\ ~Faulty(Directive.mod)
  /\ LET st == ForkFor(Directive.kind, ModuleOf(Directive))
     IN  /\ heap' = st.heap
         /\ cfg' = [st.cfg EXCEPT !.bySample.x = Own, !.bySample.y = Own]
  /\ fors' = NoFors
  /\ NextItem
  /\ UNCHANGED <<prog, mods, injs, subs, errs>>

(* The converter is known to its module even if it has errors, and a second  *)
(* one for the pair is an error.                                             *)
EndInjector ==
  /\ at.phase = "injector" /\ at.i = Len(Items) + 1
  /\ injs' = Append(injs, [n |-> at.n, cfg |-> cfg])
  /\ errs' = errs \cup IF Directive.pair \in ModuleOf(Directive).known
                         THEN {Error("duplicate")} ELSE {}
  /\ mods' = IF Directive.mod = 0 THEN mods
             ELSE [mods EXCEPT ![Directive.mod].known = @ \cup {Directive.pair}]
  /\ NextDirective(errs')
  /\ UNCHANGED <<prog, heap, cfg, fors, subs>>

(* Mutant: subconverters inherit from the directive. *)
ForkForSubconvOfInjector ==
  /\ at.phase = "build"
  /\ LET st == Fork(State(heap, injs[at.n].cfg))
     IN  /\ heap' = st.heap
         /\ subs' = Append(subs, [n |-> at.n, cfg |-> st.cfg])
  /\ at' = IF at.n < Len(prog.directives) THEN [at EXCEPT !.n = @ + 1]
           ELSE [at EXCEPT !.phase = "done"]
  /\ UNCHANGED <<prog, cfg, fors, mods, injs, errs>>

(* A factory for the subconverters of a directive; there may be many. *)
ForkForSubconv ==
  /\ at.phase = "build"
  /\ LET st == ForkFor("struct", ModuleOf(Directive))
     IN  /\ heap' = st.heap
         /\ subs' = Append(subs, [n |-> at.n, cfg |-> st.cfg])
  /\ at' = IF at.n < Len(prog.directives) THEN [at EXCEPT !.n = @ + 1]
           ELSE [at EXCEPT !.phase = "done"]
  /\ UNCHANGED <<prog, cfg, fors, mods, injs, errs>>

-----------------------------------------------------------------------------
Init ==
  /\ prog \in Programs
  /\ at = [phase |-> IF prog.declared = 0 THEN "injector" ELSE "module", n |-> 1, i |-> 0]
  /\ heap = <<>> /\ cfg = EmptyConfig /\ fors = NoFors
  /\ mods = [m \in {} |-> NilModule] /\ injs = <<>> /\ subs = <<>> /\ errs = {}

ParseOption ==
  \/ ImportFunc \/ ImportErrWrap \/ ImportErrWrapReset
  \/ Rename \/ RenameReset
  \/ DiscoverUnexported \/ DiscoverGetters \/ DiscoverSetters \/ DiscoverFieldsOnly
  \/ Match \/ MatchFunc \/ MatchSkip \/ DiscoverBySample \/ DiscoverNested

Next ==
  \/ BeginModule \/ EndModule
  \/ Qualifier \/ BadOption \/ ParseOption
  \/ SkipInjector \/ BeginInline \/ AbandonInjector \/ BeginInjector \/ EndInjector
  \/ ForkForSubconv

Spec == Init /\ [][Next]_vars
=============================================================================
