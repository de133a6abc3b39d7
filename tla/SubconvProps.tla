----------------------------- MODULE SubconvProps -----------------------------
(***************************************************************************)
(* What the construction of subconverters must guarantee.                  *)
(***************************************************************************)
EXTENDS Subconv

Fields(shape, p) == {shape[p][i] : i \in DOMAIN shape[p]}

(* The functions a field calls without a subconverter, and the pairs the     *)
(* fields of p need a subconverter for.                                      *)
HandWritten(m, fld) == IF fld.func # {} THEN fld.func ELSE prog.lookup[m][fld.pair]

SubPairs(m, shape, p) ==
  {fld.pair : fld \in {g \in Fields(shape, p) : HandWritten(m, g) = {}}}

MayFail(m, shape, p) ==
  \E fld \in Fields(shape, p) :
    fld.accErr \/ \E fn \in HandWritten(m, fld) : fn.hasErr

(* The least set of pairs of structs that has the seeds and every pair one   *)
(* of whose fields needs a pair of the set.                                  *)
Backward(m, seeds) ==
  {p \in prog.structs : \A S \in SUBSET prog.structs :
     (/\ seeds \subseteq S
      /\ \A q \in prog.structs :
           SubPairs(m, prog.shape[m], q) \cap S # {} => q \in S) => p \in S}

(* The pairs whose conversion reaches a function or an accessor that returns *)
(* an error; the pairs that reach types Convgen cannot convert.              *)
NeedsErr(m) ==
  Backward(m, {p \in prog.structs : MayFail(m, prog.shape[m], p)})

Hopeless(m) ==
  (Pairs \ prog.structs)
  \cup Backward(m, {p \in prog.structs :
                      ~(SubPairs(m, prog.shape[m], p) \subseteq prog.structs)})

(* Whether an injector can be built, read off its package alone. *)
Convertible(inj) ==
  LET subs == SubPairs(inj.mod, inj.shape, inj.pair)
  IN  /\ subs \cap Hopeless(inj.mod) = {}
      /\ inj.hasErr \/ /\ ~MayFail(inj.mod, inj.shape, inj.pair)
                       /\ subs \cap NeedsErr(inj.mod) = {}

-----------------------------------------------------------------------------
(* A function Generate emits only calls functions that exist: written by     *)
(* hand, or emitted for the same module under that name with that error      *)
(* return, and emitted complete.  What could break it is a fork dropped      *)
(* after something outside it had already called into it.                    *)
CallsResolve ==
  /\ \A m \in Mods : \A s \in subconvs[m] :
       /\ s.done
       /\ s.calls \subseteq prog.written \cup {AsFn(t) : t \in subconvs[m]}
  /\ \A c \in convs :
       c.calls \subseteq prog.written \cup {AsFn(t) : t \in subconvs[prog.injs[c.inj].mod]}

(* A converter without an error return calls nothing that returns one, so no *)
(* error is lost at run time (convgen.go:153-155).  Its body is built by     *)
(* several factories, each with its own allowsErr.                           *)
ErrorlessIsSafe ==
  /\ \A m \in Mods : \A s \in subconvs[m] :
       s.hasErr \/ /\ \A fn \in s.calls : ~fn.hasErr
                   /\ ~AccErr(prog.shape[m][s.pair])
  /\ \A c \in convs :
       c.hasErr \/ /\ \A fn \in c.calls : ~fn.hasErr
                   /\ ~AccErr(prog.injs[c.inj].shape[prog.injs[c.inj].pair])

(* A subconverter returns an error exactly if its conversion reaches         *)
(* something that does, however the attempts that led to it went: an         *)
(* errorless attempt that failed for another reason, under a caller that is  *)
(* itself being retried, must not leave a needless error return behind.      *)
ErrorsAreNeeded ==
  \A m \in Mods : \A s \in subconvs[m] : s.hasErr <=> s.pair \in NeedsErr(m)

(* Whether an injector is built depends on its package alone, not on the     *)
(* injectors before it or on the subconverters they left: one that can be    *)
(* built is, and one that cannot is reported (README: batched diagnostics).  *)
OutcomeIsDetermined ==
  \A i \in 1 .. cur - 1 : i \in failed <=> ~Convertible(prog.injs[i])

(* Functions of one package never share a name, across modules and with the  *)
(* package scope, and a module never gets two subconverters for one pair.    *)
NamesAreUnique ==
  \A m, n \in Mods : \A s \in subconvs[m], t \in subconvs[n] :
    /\ s.name \notin prog.reserved
    /\ s.name = t.name => m = n /\ s = t
    /\ m = n /\ s.pair = t.pair => s = t

(* A factory that may not return errors holds no subconverter that does,     *)
(* finished or begun; so a call can be refused at the injector's own factory *)
(* only, by a subconverter an earlier injector left.                         *)
ForksKeepErrorsOut ==
  /\ \A f \in DOMAIN facs : facs[f].allowsErr \/ \A s \in facs[f].new : ~s.hasErr
  /\ \A k \in DOMAIN frames : frames[k].kind = "rerun" =>
       /\ frames[k].fac = 1
       /\ ~facs[1].allowsErr
       /\ \E s \in subconvs[Inj.mod] : s.pair = frames[k].pair /\ s.hasErr

-----------------------------------------------------------------------------
(* The generated functions, the package and the verdict as the abstract      *)
(* specification sees them.                                                  *)
Emitted ==
  {[name |-> c.name, hasErr |-> c.hasErr, calls |-> c.calls] : c \in convs}
  \cup UNION {{[name |-> s.name, hasErr |-> s.hasErr, calls |-> s.calls] :
                 s \in subconvs[m]} : m \in Mods}

Package ==
  [directives |-> [i \in DOMAIN prog.injs |-> AsFn(prog.injs[i])],
   written |-> prog.written, taken |-> prog.reserved]

Promised ==
  INSTANCE Converters WITH
    Names <- Name, package <- Package, next <- cur, funcs <- Emitted,
    rejected <- failed,
    verdict <- IF status \in {"idle", "building"} THEN "running"
               ELSE IF status = "done" THEN "done" ELSE "crashed"

(* The walk with its forks, retries and joins does what Converters says.     *)
ImplementsConverters == Promised!ASpec

-----------------------------------------------------------------------------
(* Struct pairs of a module each of which leads to another of them. *)
Recursive(m) ==
  \E S \in SUBSET prog.structs :
    /\ S # {}
    /\ \A p \in S : \E i \in DOMAIN prog.shape[m][p] :
         prog.shape[m][p][i].pair \in S /\ prog.shape[m][p][i].func = {}

(* In each module the directives that may fail come last. *)
ErrorlessFirst ==
  \A i, j \in DOMAIN prog.injs :
    i < j /\ prog.injs[i].mod = prog.injs[j].mod /\ prog.injs[i].hasErr => prog.injs[j].hasErr

(* The directives leave the module's options as they are for structs. *)
SameOptions ==
  \A i \in DOMAIN prog.injs : \A p \in prog.structs :
    prog.injs[i].shape[p] = prog.shape[prog.injs[i].mod][p]

(* Build comes to an end, as one that reports all errors together            *)
(* (README.md:70) must.  It does not in every package.                       *)
AlwaysReturns == <>(status = "done")

(* Build comes to an end, and neither the walk over recursive structs nor    *)
(* the rerun that reports an error (subconv.go:62) goes on until the stack   *)
(* overflows or ends in the panic marked "should not happen", if the         *)
(* directives share the options of their modules, and those that may fail    *)
(* come last or nothing is recursive.                                        *)
BuildReturns ==
  SameOptions /\ (ErrorlessFirst \/ \A m \in Mods : ~Recursive(m)) => AlwaysReturns
=============================================================================
