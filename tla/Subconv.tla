------------------------------- MODULE Subconv -------------------------------
(***************************************************************************)
(* How Convgen builds the converters of one package: the loop of           *)
(* Convgen.Build over the injectors, and for each of them assign.Build, *)
(* a depth-first walk over the pairs of struct types that the injector     *)
(* reaches.  A pair nobody registered a function for becomes a             *)
(* subconverter, which is first tried without an error return and, where   *)
(* the caller may return one, tried again with it.  Every attempt works in *)
(* a fork of the caller's factory whose subconverters are merged into the  *)
(* caller's only when the attempt succeeds.                                *)
(*                                                                         *)
(* The Go call stack is the variable `frames' (one frame per tryStruct in  *)
(* progress) and the factories alive on it are `facs', oldest first: a     *)
(* fork lives exactly as long as the attempt made in it.  An index into    *)
(* `facs' stands for a *factory; index 1 is the factory of the injector.   *)
(***************************************************************************)
EXTENDS Naturals, FiniteSets, Sequences

CONSTANTS
  Pairs,      \* pairs <<X, Y>> of types, pointers, slices and maps stripped
  Mods,       \* the modules of the package
  Stems,      \* texts of identifiers that do not end in a digit
  Programs,   \* the packages to convert, see Program
  MaxStack    \* frames the Go stack holds before the runtime aborts

-----------------------------------------------------------------------------
(* Names.  DisambiguateName offers name, name2, name3...; after a digit the  *)
(* number is set off by "_", so a text is a stem and its numbers.            *)

Name == [stem : Stems, nums : Seq(Nat)]

DisambiguateName(name, i) ==
  IF i = 1 THEN name ELSE [name EXCEPT !.nums = Append(@, i)]

(* A function as its callers see it: where it is and whether it may fail. *)
Fn == [name : Name, hasErr : BOOLEAN]

(* A subconverter.  `done' is false for the placeholder that is registered   *)
(* before its body is built, `calls' is what the body calls.                 *)
SubconvRec ==
  [pair : Pairs, name : Name, hasErr : BOOLEAN, calls : SUBSET Fn, done : BOOLEAN]

(* A matched pair of fields of two structs: the pair of their types, whether *)
(* the getter or the setter used to reach it returns an error, and the       *)
(* function a MatchFunc option names for it (a set of one element or none).  *)
(* Fields copied without a conversion function are left out.                 *)
Field == [pair : Pairs, accErr : BOOLEAN, func : SUBSET Fn]

Shape == [Pairs -> Seq(Field)]

(* One convgen.Struct / StructErr / Union / UnionErr directive.  Its shape   *)
(* is what tryStruct matches under the directive's own options.              *)
Injector == [mod : Mods, pair : Pairs, hasErr : BOOLEAN, name : Name, shape : Shape]

(* A package: its directives in source order, the functions of each module   *)
(* (imported ones and the explicit converters) by pair, what tryStruct       *)
(* matches under the module's options, the pairs of structs, the name first  *)
(* offered to a subconverter, the names of the package scope, and all the    *)
(* functions that are not subconverters.                                     *)
Program ==
  [injs : Seq(Injector), lookup : [Mods -> [Pairs -> SUBSET Fn]],
   shape : [Mods -> Shape], structs : SUBSET Pairs,
   base : [Mods -> [Pairs -> Name]], reserved : SUBSET Name, written : SUBSET Fn]

OnlyWritten(shape, written) ==
  \A p \in Pairs : \A i \in DOMAIN shape[p] : shape[p][i].func \subseteq written

ASSUME ProgramsAssumption ==
  \A pkg \in Programs :
    /\ pkg \in Program
    /\ \A m \in Mods : /\ \A p \in Pairs : pkg.lookup[m][p] \subseteq pkg.written
                       /\ OnlyWritten(pkg.shape[m], pkg.written)
    /\ \A i \in DOMAIN pkg.injs : OnlyWritten(pkg.injs[i].shape, pkg.written)
ASSUME StackAssumption == MaxStack \in Nat

(* A lookup keeps the function that was put first for a pair, and the option *)
(* that matches a field decides its function.                                *)
AtMostOne(fns) == \A fn, gn \in fns : fn = gn

OneEach(shape) == \A p \in Pairs : \A i \in DOMAIN shape[p] : AtMostOne(shape[p][i].func)

ASSUME FunctionsAssumption ==
  \A pkg \in Programs :
    /\ \A m \in Mods : /\ \A p \in Pairs : AtMostOne(pkg.lookup[m][p])
                       /\ OneEach(pkg.shape[m])
    /\ \A i \in DOMAIN pkg.injs : OneEach(pkg.injs[i].shape)

(* A converter is a variable of the package scope: its name is reserved, and *)
(* the name of no other.                                                     *)
ASSUME NamesAssumption ==
  \A pkg \in Programs :
    /\ \A i \in DOMAIN pkg.injs : pkg.injs[i].name \in pkg.reserved
    /\ \A i, j \in DOMAIN pkg.injs : pkg.injs[i].name = pkg.injs[j].name => i = j

-----------------------------------------------------------------------------
VARIABLES
  prog,      \* the package being converted, fixed
  status,    \* "idle" between injectors, "building", and how Build ended
  cur,       \* the injector being built, or the next one
  ns,        \* Convgen.ns: names taken, never given back
  subconvs,  \* Convgen.subconvs: by module, the subconverters exported so far
  convs,     \* Convgen.convs: explicit converters built, with their calls
  failed,    \* the injectors assign.Build returned an error for
  facs,      \* the factories alive, the injector's own first
  frames     \* the tryStruct calls in progress, innermost last

vars == <<prog, status, cur, ns, subconvs, convs, failed, facs, frames>>

Statuses == {"idle", "building", "done", "overflow", "panic"}

(* `line' is the factory and its ancestors, what following `parent' visits. *)
Factory == [allowsErr : BOOLEAN, line : SUBSET Nat, new : SUBSET SubconvRec]

Kinds == {"explicit", "try", "rerun"}

Frame == [kind : Kinds, fac : Nat, pair : Pairs, name : Name,
          todo : Seq(Field), calls : SUBSET Fn, err : BOOLEAN]

Conv == [inj : Nat, name : Name, hasErr : BOOLEAN, calls : SUBSET Fn]

TypeOK ==
  /\ prog \in Program
  /\ status \in Statuses
  /\ cur \in 1 .. Len(prog.injs) + 1
  /\ ns \subseteq Name
  /\ subconvs \in [Mods -> SUBSET SubconvRec]
  /\ convs \subseteq Conv
  /\ failed \subseteq 1 .. Len(prog.injs)
  /\ facs \in Seq(Factory)
  /\ frames \in Seq(Frame)

-----------------------------------------------------------------------------
Inj == prog.injs[cur]

Top    == frames[Len(frames)]
Caller == frames[Len(frames) - 1]

Pop(s) == SubSeq(s, 1, Len(s) - 1)

(* factory.cfg: the injector's options in its own factory, the module's in a *)
(* fork.                                                                     *)
FieldsOf(f, p) == IF f = 1 THEN Inj.shape[p] ELSE prog.shape[Inj.mod][p]

AccErr(fields) == \E i \in DOMAIN fields : fields[i].accErr

(* tryStruct up to buildMatchAssigners: a getter or setter that fails is an  *)
(* error where none is allowed, and the fields are built all the same.       *)
TryStruct(kind, f, allowsErr, p, name, fields) ==
  [kind |-> kind, fac |-> f, pair |-> p, name |-> name, todo |-> fields,
   calls |-> {}, err |-> ~allowsErr /\ AccErr(fields)]

RequiresErr(fr) ==
  AccErr(FieldsOf(fr.fac, fr.pair)) \/ \E fn \in fr.calls : fn.hasErr

(* newSubconvs.Get, then oldSubconvs.Get, which only the injector's factory  *)
(* has.                                                                      *)
Get(f, p) ==
  LET new == {s \in facs[f].new : s.pair = p}
  IN  IF f # 1 \/ new # {} THEN new ELSE {s \in subconvs[Inj.mod] : s.pair = p}

CanCall(f, fn) == fn.hasErr => facs[f].allowsErr

AsFn(s) == [name |-> s.name, hasErr |-> s.hasErr]

Placeholder(p, name, hasErr) ==
  [pair |-> p, name |-> name, hasErr |-> hasErr, calls |-> {}, done |-> FALSE]

(* Mutants: the placeholder is forgotten; every fork may return errors. *)
ForkBlind(line, index, allowsErr, p, name) ==
  [allowsErr |-> allowsErr, line |-> line \cup {index}, new |-> {}]

ForkLenient(line, index, allowsErr, p, name) ==
  [allowsErr |-> TRUE, line |-> line \cup {index}, new |-> {Placeholder(p, name, TRUE)}]

(* forkForSubconv, with the placeholder `try' puts first. *)
Fork(line, index, allowsErr, p, name) ==
  [allowsErr |-> allowsErr, line |-> line \cup {index},
   new |-> {Placeholder(p, name, allowsErr)}]

(* Mutant: the fork is not merged. *)
PutNone(old, new) == old

(* Lookup.Put keeps the function that was there first. *)
PutAll(old, new) == old \cup {s \in new : \A t \in old : t.pair # s.pair}

(* The current field of a frame is built, or reported. *)
Built(fr, fn) == [fr EXCEPT !.todo = Tail(@), !.calls = @ \cup {fn}]
Missed(fr)    == [fr EXCEPT !.todo = Tail(@), !.err = TRUE]

Return(fr) == frames' = [frames EXCEPT ![Len(frames)] = fr]
ReturnToCaller(fr) == frames' = Append(Pop(Pop(frames)), fr)

-----------------------------------------------------------------------------
(* Convgen.Build *)

Init ==
  /\ prog \in Programs
  /\ status = "idle"
  /\ cur = 1
  /\ ns = prog.reserved
  /\ subconvs = [m \in Mods |-> {}]
  /\ convs = {}
  /\ failed = {}
  /\ facs = <<>>
  /\ frames = <<>>

(* assign.Build and buildExplicit *)
BeginInjector ==
  /\ status = "idle"
  /\ cur <= Len(prog.injs)
  /\ status' = "building"
  /\ facs' = <<[allowsErr |-> Inj.hasErr, line |-> {1}, new |-> {}]>>
  /\ frames' = <<TryStruct("explicit", 1, Inj.hasErr, Inj.pair, Inj.name,
                           Inj.shape[Inj.pair])>>
  /\ UNCHANGED <<prog, cur, ns, subconvs, convs, failed>>

EndBuild ==
  /\ status = "idle"
  /\ cur > Len(prog.injs)
  /\ status' = "done"
  /\ UNCHANGED <<prog, cur, ns, subconvs, convs, failed, facs, frames>>

(* Mutants: the subconverters of a failed injector are kept; the next        *)
(* injector is blamed.                                                       *)
EndInjectorLeaky ==
  /\ status = "building"
  /\ Top.kind = "explicit"
  /\ Top.todo = <<>>
  /\ IF Top.err
       THEN failed' = failed \cup {cur} /\ UNCHANGED convs
       ELSE /\ convs' = convs \cup {[inj |-> cur, name |-> Inj.name,
                                     hasErr |-> Inj.hasErr, calls |-> Top.calls]}
            /\ UNCHANGED failed
  /\ subconvs' = [subconvs EXCEPT ![Inj.mod] = @ \cup facs[1].new]
  /\ status' = "idle" /\ cur' = cur + 1 /\ facs' = <<>> /\ frames' = <<>>
  /\ UNCHANGED <<prog, ns>>

EndInjectorLate ==
  /\ status = "building" /\ Top.kind = "explicit" /\ Top.todo = <<>>
  /\ failed' = IF Top.err THEN failed \cup {cur + 1} ELSE failed
  /\ status' = "idle" /\ cur' = cur + 1 /\ facs' = <<>> /\ frames' = <<>>
  /\ UNCHANGED <<prog, ns, subconvs, convs>>

(* Build returned to the loop of Convgen.Build: an error is kept and the     *)
(* next injector is built all the same.                                      *)
EndInjector ==
  /\ status = "building"
  /\ Top.kind = "explicit"
  /\ Top.todo = <<>>
  /\ IF Top.err
       THEN /\ failed' = failed \cup {cur}
            /\ UNCHANGED <<subconvs, convs>>
       ELSE /\ convs' = convs \cup {[inj |-> cur, name |-> Inj.name,
                                     hasErr |-> Inj.hasErr, calls |-> Top.calls]}
            /\ subconvs' = [subconvs EXCEPT ![Inj.mod] = @ \cup facs[1].new]
            /\ UNCHANGED failed
  /\ status' = "idle"
  /\ cur' = cur + 1
  /\ facs' = <<>>
  /\ frames' = <<>>
  /\ UNCHANGED <<prog, ns>>

-----------------------------------------------------------------------------
(* factory.build for the next field of the innermost tryStruct *)

Building == status = "building" /\ Top.todo # <<>>
Cur      == Head(Top.todo)

CallFunc(f, fn) ==
  /\ Return(IF CanCall(f, fn) THEN Built(Top, fn) ELSE Missed(Top))
  /\ UNCHANGED <<prog, status, cur, ns, subconvs, convs, failed, facs>>

TryMatchFunc ==
  /\ Building
  /\ \E fn \in Cur.func : CallFunc(Top.fac, fn)

TryModuleFunc ==
  /\ Building
  /\ Cur.func = {}
  /\ \E fn \in prog.lookup[Inj.mod][Cur.pair] : CallFunc(Top.fac, fn)

(* Neither of the above: tryMatchFunc and tryModuleFunc return skip. *)
NoFunc ==
  /\ Building
  /\ Cur.func = {}
  /\ prog.lookup[Inj.mod][Cur.pair] = {}

(* trySubconvFunc's loop stops at g, the nearest factory that knows p. *)
FoundAt(f, p, g) ==
  /\ g \in facs[f].line
  /\ Get(g, p) # {}
  /\ \A h \in facs[f].line : h > g => Get(h, p) = {}

TrySubconvFunc ==
  /\ NoFunc
  /\ \E g \in facs[Top.fac].line :
       /\ FoundAt(Top.fac, Cur.pair, g)
       /\ \E s \in Get(g, Cur.pair) : CanCall(g, AsFn(s)) /\ CallFunc(g, AsFn(s))

(* The subconverter found returns an error that g may not: tryStruct runs    *)
(* once more, in g itself, to report why.                                    *)
Rerun ==
  /\ NoFunc
  /\ Len(frames) < MaxStack
  /\ \E g \in facs[Top.fac].line :
       /\ FoundAt(Top.fac, Cur.pair, g)
       /\ \E s \in Get(g, Cur.pair) : ~CanCall(g, AsFn(s))
       /\ frames' = Append(frames,
            TryStruct("rerun", g, facs[g].allowsErr, Cur.pair, Top.name,
                      FieldsOf(g, Cur.pair)))
  /\ UNCHANGED <<prog, status, cur, ns, subconvs, convs, failed, facs>>

Unknown == NoFunc /\ \A g \in facs[Top.fac].line : Get(g, Cur.pair) = {}

(* Mutant: the name is taken without asking whether it is free. *)
NewNameUnchecked(i) ==
  i = 1 /\ ns' = ns \cup {prog.base[Inj.mod][Cur.pair]}

(* NS.Name: the first name offered that is free is taken. *)
NewName(i) ==
  LET base == prog.base[Inj.mod][Cur.pair]
  IN  /\ DisambiguateName(base, i) \notin ns
      /\ \A j \in 1 .. i - 1 : DisambiguateName(base, j) \in ns
      /\ ns' = ns \cup {DisambiguateName(base, i)}

(* trySubconv: the attempt that may not return an error comes first. *)
TrySubconv ==
  /\ Unknown
  /\ Cur.pair \in prog.structs
  /\ Len(frames) < MaxStack
  /\ \E i \in 1 .. Cardinality(ns) + 1 :
       LET name == DisambiguateName(prog.base[Inj.mod][Cur.pair], i)
           f    == Len(facs) + 1
       IN  /\ NewName(i)
           /\ facs' = Append(facs, Fork(facs[Top.fac].line, f, FALSE, Cur.pair, name))
           /\ frames' = Append(frames,
                TryStruct("try", f, FALSE, Cur.pair, name, prog.shape[Inj.mod][Cur.pair]))
  /\ UNCHANGED <<prog, status, cur, subconvs, convs, failed>>

(* trySubconv of types that are no structs: tryStruct skips, so both         *)
(* attempts end at once and build reports the field.  The name stays taken.  *)
Unconvertible ==
  /\ Unknown
  /\ Cur.pair \notin prog.structs
  /\ \E i \in 1 .. Cardinality(ns) + 1 : NewName(i)
  /\ Return(Missed(Top))
  /\ UNCHANGED <<prog, status, cur, subconvs, convs, failed, facs>>

(* A call deeper than the stack aborts the process. *)
Overflow ==
  /\ NoFunc
  /\ Len(frames) >= MaxStack
  /\ \/ Unknown /\ Cur.pair \in prog.structs
     \/ \E g \in facs[Top.fac].line :
          /\ FoundAt(Top.fac, Cur.pair, g)
          /\ \E s \in Get(g, Cur.pair) : ~CanCall(g, AsFn(s))
  /\ status' = "overflow"
  /\ UNCHANGED <<prog, cur, ns, subconvs, convs, failed, facs, frames>>

-----------------------------------------------------------------------------
(* The return of tryStruct in `try', the attempts of trySubconv *)

TryEnds == status = "building" /\ Top.kind = "try" /\ Top.todo = <<>>

(* Mutant: the body of an errorless attempt is not asked whether it fails. *)
TryOKUnchecked == ~Top.err

TryOK == ~Top.err /\ (facs[Top.fac].allowsErr \/ ~RequiresErr(Top))

(* subconv.conv is set: the placeholder gets its body. *)
Completed(f, fr) ==
  {IF s.pair = fr.pair THEN [s EXCEPT !.calls = fr.calls, !.done = TRUE] ELSE s :
     s \in facs[f].new}

(* joinForSubconv, and the caller's field calls the new function. *)
Commit ==
  /\ TryEnds
  /\ TryOK
  /\ facs' = [Pop(facs) EXCEPT ![Caller.fac].new = PutAll(@, Completed(Top.fac, Top))]
  /\ ReturnToCaller(Built(Caller, [name   |-> Top.name,
                                   hasErr |-> facs[Top.fac].allowsErr]))
  /\ UNCHANGED <<prog, status, cur, ns, subconvs, convs, failed>>

(* Mutants: no second attempt; a second attempt whatever the caller allows. *)
MayRetryNever  == FALSE
MayRetryAlways == ~facs[Top.fac].allowsErr

MayRetry == facs[Caller.fac].allowsErr /\ ~facs[Top.fac].allowsErr

(* The caller may return an error: the same name, a new fork that may too. *)
Retry ==
  /\ TryEnds
  /\ ~TryOK
  /\ MayRetry
  /\ facs' = Append(Pop(facs),
       Fork(facs[Caller.fac].line, Len(facs), TRUE, Top.pair, Top.name))
  /\ Return(TryStruct("try", Top.fac, TRUE, Top.pair, Top.name,
                      prog.shape[Inj.mod][Top.pair]))
  /\ UNCHANGED <<prog, status, cur, ns, subconvs, convs, failed>>

(* The fork is dropped with every subconverter built in it. *)
GiveUp ==
  /\ TryEnds
  /\ ~TryOK
  /\ ~MayRetry
  /\ facs' = Pop(facs)
  /\ ReturnToCaller(Missed(Caller))
  /\ UNCHANGED <<prog, status, cur, ns, subconvs, convs, failed>>

RerunEnds == status = "building" /\ Top.kind = "rerun" /\ Top.todo = <<>>

(* The error of the rerun is the error of the field. *)
ReportRerun ==
  /\ RerunEnds
  /\ Top.err
  /\ ReturnToCaller(Missed(Caller))
  /\ UNCHANGED <<prog, status, cur, ns, subconvs, convs, failed, facs>>

(* panic("callFunc failed but trySubconv succeeded") *)
Panic ==
  /\ RerunEnds
  /\ ~Top.err
  /\ status' = "panic"
  /\ UNCHANGED <<prog, cur, ns, subconvs, convs, failed, facs, frames>>

-----------------------------------------------------------------------------
Build ==
  \/ BeginInjector \/ EndInjector \/ EndBuild
  \/ TryMatchFunc \/ TryModuleFunc \/ TrySubconvFunc \/ Rerun
  \/ TrySubconv \/ Unconvertible \/ Overflow
  \/ Commit \/ Retry \/ GiveUp \/ ReportRerun \/ Panic

(* Build has returned, or the process is gone. *)
Stopped == status \in {"done", "overflow", "panic"} /\ UNCHANGED vars

Next == Build \/ Stopped

Spec == Init /\ [][Next]_vars

(* One goroutine runs Build to its end: a step that is possible is taken. *)
FairSpec == Spec /\ WF_vars(Build)
=============================================================================
