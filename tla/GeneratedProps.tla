---------------------------- MODULE GeneratedProps ----------------------------
(***************************************************************************)
(* What a caller of the generated functions relies on.                     *)
(***************************************************************************)
EXTENDS Generated, FiniteSets

Done   == stack = <<>>
Errors == {stack[k].err : k \in DOMAIN stack} \cup {r.err : r \in ret}

(* Once something has failed nothing else is called: the error leaves every  *)
(* loop and every struct on its way to the caller, so that no second         *)
(* function with effects of its own runs on a conversion already lost.       *)
FirstFaultStops == Len(faults) <= 1

(* A function, getter or setter that fails, or a value without a match, is   *)
(* reported to the outermost caller, with its cause innermost: UnionErr and  *)
(* StructErr allow the converter to call functions that return errors        *)
(* (convgen.go:237, 301).                                                    *)
FaultsAreReported ==
  Done /\ faults # <<>> => \A r \in ret : r.err # NoErr /\ r.err[1] = faults[1]

(* A conversion in which nothing failed returns no error: wrappers are       *)
(* called on errors only (convgen.go:490-491).                               *)
ErrorsAreReal == Done /\ faults = <<>> => \A r \in ret : r.err = NoErr

(* Whenever an error is annotated with what is being converted, or comes     *)
(* from a getter or setter, every wrapper is applied to it once, in the      *)
(* order of registration (convgen.go:496), and at no other time.             *)
WrappersInOrder ==
  \A err \in Errors :
    LET due == {i \in DOMAIN err : err[i] \in {"converting", "getter", "setter"}}
        n   == Len(prog.wraps)
    IN  /\ \A i \in due : \A k \in 1 .. n : i + k \in DOMAIN err /\ err[i + k] = prog.wraps[k]
        /\ Cardinality({i \in DOMAIN err : err[i] \in Wrappers}) = n * Cardinality(due)
-----------------------------------------------------------------------------
(* What a value converts to, as the types define it, with no regard to       *)
(* control and errors: a function of assigners and the values of their       *)
(* types, with the values inside them.                                       *)
CONSTANT Conversions  \* for each code, its conversion

Whole(v, n, kids)  == IF n = 0 THEN Zero ELSE [tag |-> v.tag, kids |-> kids]
Pointed(c, v)      == IF c.depthX = 0 THEN v ELSE v.kids[1]
Pointing(c, v)     == IF c.depthY = 0 \/ (c.depthY > 1 /\ v = Zero)
                        THEN v ELSE [tag |-> "pointer", kids |-> <<v>>]
Entry(x, y)        == [tag |-> "entry", kids |-> <<x, y>>]
Missing(m, v)      == m.under # 0 /\ v.kids[m.under] = Zero
Matched(m, v)      == IF m.under = 0 THEN v.kids[m.from] ELSE v.kids[m.under].kids[1].kids[m.from]
Default(c)         == IF c.kind = "enum" THEN [tag |-> c.default, kids |-> <<>>] ELSE Zero

PointerConverts(c, f, n, v) ==
  IF c.depthX # 0 /\ v = Zero THEN f[n, v] = Zero
  ELSE /\ <<c.elem, Pointed(c, v)>> \in DOMAIN f
       /\ f[n, v] = Pointing(c, f[c.elem, Pointed(c, v)])

IndexConverts(c, f, n, v) ==
  LET size == Len(v.kids)
  IN  /\ size \in Nat
      /\ \A i \in 1 .. size : <<c.elem, v.kids[i]>> \in DOMAIN f
      /\ f[n, v] = Whole(v, size, [i \in 1 .. size |-> f[c.elem, v.kids[i]]])

KeyConverts(c, f, n, v) ==
  LET size == Len(v.kids)
      x(i) == v.kids[i].kids[1]
      y(i) == v.kids[i].kids[2]
  IN  /\ size \in Nat
      /\ \A i \in 1 .. size : <<c.key, x(i)>> \in DOMAIN f /\ <<c.elem, y(i)>> \in DOMAIN f
      /\ f[n, v] = Whole(v, size, [i \in 1 .. size |-> Entry(f[c.key, x(i)], f[c.elem, y(i)])])

FieldConverted(f, m, v) == IF Missing(m, v) THEN Zero ELSE f[m.as, Matched(m, v)]

StructConverts(c, f, n, v) ==
  LET size == Len(c.fields)
  IN  /\ \A i \in 1 .. size :
           Missing(c.fields[i], v) \/ <<c.fields[i].as, Matched(c.fields[i], v)>> \in DOMAIN f
      /\ f[n, v] = Whole(v, size, [i \in 1 .. size |-> FieldConverted(f, c.fields[i], v)])

UnionConverts(c, f, n, v) ==
  /\ \A i \in DOMAIN c.cases : c.cases[i].impl = v.tag =>
       <<c.cases[i].as, v>> \in DOMAIN f /\ f[n, v] = f[c.cases[i].as, v]
  /\ (\A i \in DOMAIN c.cases : c.cases[i].impl # v.tag) => f[n, v] = Zero

Converts(c, f, n, v) ==
  /\ c.kind \in {"copy", "hand"} => f[n, v] = v
  /\ c.kind = "call"    => <<c.to, v>> \in DOMAIN f /\ f[n, v] = f[c.to, v]
  /\ c.kind = "pointer" => PointerConverts(c, f, n, v)
  /\ c.kind = "index"   => IndexConverts(c, f, n, v)
  /\ c.kind = "key"     => KeyConverts(c, f, n, v)
  /\ c.kind = "struct"  => StructConverts(c, f, n, v)
  /\ c.kind = "union"   => UnionConverts(c, f, n, v)
  /\ c.kind = "enum"    => f[n, v] = IF v.tag \in c.members THEN v ELSE Default(c)

IsConversion(code, f) == \A a \in DOMAIN f : Converts(code[a[1]], f, a[1], a[2])

(* The inputs of a program are of the types of its outermost function.       *)
IsConversionOf(pg, f) ==
  IsConversion(pg.code, f) /\ \A v \in pg.inputs : <<pg.root, v>> \in DOMAIN f

ASSUME ConversionsAssumption ==
  \A pg \in Programs : IsConversionOf(pg, Conversions[pg.code])

(* Without an error the output is the conversion of the whole input; with an *)
(* error, a struct or union converter returns the zero value and an enum     *)
(* converter its default (convgen.go:341-342).                               *)
ConversionIsExact ==
  Done => \A r \in ret :
    \/ r.err = NoErr /\ r.out = Conversions[prog.code][prog.root, input]
    \/ r.err # NoErr /\ r.out = Default(prog.code[prog.root])

-----------------------------------------------------------------------------
(* Code that cannot fail, whatever it is run on: a set Q of assigners that   *)
(* call nothing that returns an error and return none of their own.          *)
CannotFail(code, Q) ==
  \A n \in Q :
    /\ code[n].kind # "hand"
    /\ code[n].kind = "call" => code[n].to \in Q
    /\ code[n].kind \in {"pointer", "index", "key"} => code[n].elem \in Q
    /\ code[n].kind = "key" => code[n].key \in Q
    /\ code[n].kind = "struct" =>
         \A i \in DOMAIN code[n].fields :
           LET m == code[n].fields[i] IN m.as \in Q /\ ~m.getter /\ ~m.setter
    /\ code[n].kind \in {"union", "enum"} => ~code[n].hasErr
    /\ code[n].kind = "union" =>
         \A i \in DOMAIN code[n].cases : code[n].cases[i].as \in Q

ErrUnion(code, n) == code[n].kind = "union" /\ code[n].hasErr

(* What keeps out of the finding about UnionErr (union.go:221): no           *)
(* implementation's conversion can fail.                                     *)
CasesCannotFail(code, Q) ==
  \A n \in Nodes :
    ErrUnion(code, n) => \A i \in DOMAIN code[n].cases : code[n].cases[i].as \in Q

UnionsCannotFail ==
  \A pg \in Programs :
    \E Q \in SUBSET Nodes : CannotFail(pg.code, Q) /\ CasesCannotFail(pg.code, Q)

(* What keeps out of the same code's other effect: the wrappers are called   *)
(* on the nil it has assigned (union.go:222), and make an error of it.  The  *)
(* error of UnionErr itself is not wrapped by them at all (union.go:199).    *)
UnionsUnwrapped ==
  \A pg \in Programs : pg.wraps = <<>> \/ \A n \in Nodes : ~ErrUnion(pg.code, n)

(* A function that returns no error calls nothing that does: what Build has  *)
(* made sure of (requiresErr).                                               *)
Functions == {"struct", "union", "enum"}

ErrorsAreDeclared(code, Q) ==
  \A n \in Nodes : code[n].kind \in Functions /\ ~code[n].hasErr => n \in Q

(* The outermost converter is one of a struct, a union or an enum. *)
FunctionsDeclareErrors ==
  \A pg \in Programs :
    /\ pg.code[pg.root].kind \in Functions
    /\ \E Q \in SUBSET Nodes :
         CannotFail(pg.code, Q) /\ CasesCannotFail(pg.code, Q) /\ ErrorsAreDeclared(pg.code, Q)
=============================================================================
