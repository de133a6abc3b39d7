---------------------------- MODULE MCDirectives ----------------------------
(***************************************************************************)
(* Small packages for TLC: a module, converters, another variable, a       *)
(* function and a second file, of which two vary at a time.                *)
(***************************************************************************)
EXTENDS DirectivesProps

MCNames    == <<"M", "a", "b", "c", "d", "f", "g", "l", "m", "n", "x", "y", "z">>
MCExported == {"M"}

Plain ==
  [call |-> "none", paren |-> FALSE, inside |-> {}, uses |-> {}, lead |-> NoName,
   arg |-> "nil", fault |-> "none", subs |-> FALSE]

Call(directive) == [Plain EXCEPT !.call = directive]
InParens(v)     == [v EXCEPT !.paren = TRUE]
Faulty(v, kind) == [v EXCEPT !.fault = kind]
Holds(inner)    == [Plain EXCEPT !.inside = {inner}]
Is(name)        == [Plain EXCEPT !.lead = name]
Mentions(name)  == [Plain EXCEPT !.uses = {name}]
Module          == Call("Module")
To(arg)         == [Call("Injector") EXCEPT !.arg = arg, !.subs = TRUE]

Stmt(form, names, values) == [form |-> form, func |-> TRUE, names |-> names, values |-> values]
Var(names, values)        == Stmt("spec", names, values)
Vars(specs)               == [func |-> NoName, specs |-> specs]
Func(name, specs)         == [func |-> name, specs |-> specs]

(* Modules: `m' is the one that is used, whatever it is. *)
ModuleDecls(m) ==
  {Vars(<<Var(<<m>>, <<v>>)>>) :
     v \in {Module, InParens(Module), Faulty(Module, "options"), Plain, Holds("Module")}}
  \cup {Vars(<<Var(<<m, "n">>, <<Module, Module>>)>>),
        Vars(<<Var(<<"y", m>>, <<Is("z"), Module>>), Var(<<"z">>, <<>>)>>),
        Vars(<<Var(<<m>>, <<Module>>), Var(<<Blank>>, <<Module>>)>>)}

ConverterDecls(m) ==
  {Vars(<<Var(<<"a">>, <<v>>)>>) :
     v \in {To(m), To("nil"), To("inline"), To("wrong"), To("n"), InParens(To(m)),
            Faulty(To(m), "options"), Faulty(To(m), "build"), Faulty(To("wrong"), "options")}}
  \cup {Vars(<<Var(<<Blank>>, <<To(m)>>)>>),
        Vars(<<[Var(<<"a">>, <<To(m)>>) EXCEPT !.func = FALSE]>>),
        Vars(<<Var(<<"a", "b">>, <<Is("b"), To(m)>>)>>),
        Vars(<<Var(<<"a", "b">>, <<To(m), Mentions("a")>>), Var(<<"c">>, <<To("nil")>>)>>),
        Vars(<<Var(<<"a">>, <<To("inline")>>), Var(<<"b">>, <<To("nil")>>)>>),
        Vars(<<Var(<<"a">>, <<To("n")>>), Var(<<"b">>, <<To(m)>>)>>),
        Vars(<<>>)}

OtherDecls(m) ==
  {Vars(<<Var(<<"x">>, <<v>>)>>) :
     v \in {Plain, Call("Option"), Holds("Option"), Holds("Module"), Holds("Injector"),
            Is(m), Mentions(m)}}
  \cup {Vars(<<Var(<<Blank>>, <<Is(m)>>)>>), Vars(<<Var(<<Blank>>, <<Mentions(m)>>)>>),
        Vars(<<Var(<<"x", Blank>>, <<Mentions("x")>>)>>), Vars(<<Var(<<"x">>, <<>>)>>)}

LocalModule(m) ==
  <<Stmt("define", <<m>>, <<Module>>), Stmt("assign", <<Blank>>, <<Is(m)>>)>>

FuncDecls(m) ==
  {Func("f", specs) :
     specs \in {<<>>, <<Stmt("stmt", <<>>, <<Is(m)>>)>>,
                LocalModule(m),
                <<Stmt("define", <<"l">>, <<To(m)>>), Stmt("assign", <<Blank>>, <<Is("l")>>)>>,
                <<Var(<<"l">>, <<Module>>), Stmt("assign", <<Blank>>, <<Is("l")>>)>>,
                <<Var(<<Blank>>, <<Module>>)>>,
                <<Var(<<"x">>, <<Module>>), Stmt("assign", <<Blank>>, <<Is("x")>>)>>,
                <<Var(<<m>>, <<Module>>), Stmt("assign", <<Blank>>, <<Is(m)>>)>>,
                <<Stmt("assign", <<Blank>>, <<Is(m)>>)>>,
                <<Stmt("assign", <<Blank>>, <<Mentions(m)>>)>>,
                <<Stmt("assign", <<m>>, <<Module>>)>>,
                <<Stmt("assign", <<Blank>>, <<Call("Option")>>)>>,
                <<Stmt("stmt", <<>>, <<Call("Option")>>)>>,
                <<Stmt("stmt", <<>>, <<Holds("Injector")>>)>>,
                <<Stmt("stmt", <<>>, <<Is("a")>>)>>}}

F(tagged, imports, decls) == [tagged |-> tagged, imports |-> imports, decls |-> decls]

SecondFiles(m) ==
  {<<>>} \cup
  {<<F(FALSE, FALSE, <<d>>)>> :
     d \in {Vars(<<Var(<<"d">>, <<Plain>>)>>), Vars(<<Var(<<Blank>>, <<Is(m)>>)>>),
            Vars(<<Var(<<"d">>, <<Is(m)>>)>>),
            Func("g", <<Stmt("assign", <<Blank>>, <<Is(m)>>)>>),
            Func("g", <<Stmt("stmt", <<>>, <<Is("a")>>)>>)}}
  \cup {<<F(FALSE, TRUE, <<Func("g", <<Stmt("stmt", <<>>, <<Call("Option")>>)>>)>>)>>,
        <<F(TRUE, TRUE, <<Vars(<<Var(<<"d">>, <<To(m)>>)>>)>>)>>,
        <<F(TRUE, FALSE, <<Vars(<<Var(<<"d">>, <<Is("a")>>)>>)>>)>>}

Package(k, c, o, f, second) == <<F(TRUE, TRUE, <<k, c, o, f>>)>> \o second

AModule(m)    == Vars(<<Var(<<m>>, <<Module>>)>>)
AConverter(m) == Vars(<<Var(<<"a">>, <<To(m)>>)>>)
NoVars        == Vars(<<>>)
NoFunc        == Func("f", <<>>)

Candidates(m) ==
  {Package(k, c, NoVars, NoFunc, s) :
     k \in ModuleDecls(m), c \in ConverterDecls(m), s \in SecondFiles(m)}
  \cup {Package(k, AConverter(m), o, NoFunc, s) :
     k \in ModuleDecls(m), o \in OtherDecls(m), s \in SecondFiles(m)}
  \cup {Package(k, c, o, f, <<>>) :
     k \in {AModule(m)}, c \in ConverterDecls(m), o \in OtherDecls(m), f \in FuncDecls(m)}
  \cup {Package(k, AConverter(m), NoVars, f, s) :
     k \in ModuleDecls(m), f \in FuncDecls(m), s \in SecondFiles(m)}

(* Those that do not compile do not get past Init. *)
MCPackages == Candidates("m") \cup Candidates("M")
=============================================================================
