# Verification of convgen

convgen generates Go converters between types. A program marks what it wants
with directives (`convgen.Struct`, `StructErr`, `Union`, `UnionErr`, `Enum`,
`EnumErr`), and the tool replaces each directive by a function it writes, with
the helper functions (subconverters) that function needs. The tool is one
sequential process; what is hard about it is not concurrency but a recursive
search that speculates, backtracks and reuses results across directives, and the
agreement of several passes over the same sources.

## Inventory

| Component | State | Operations | Interacts with | What makes it correct |
|---|---|---|---|---|
| driver: `internal/convgen/main.go`, `convgen.go`, `cmd/convgen` | errors and outputs per package; `Convgen.ns`, `convs`, `subconvs` | `Main`, `load`, `New`, `Build`, `Generate` (`writeConvCode`, `mergeCode`, `eraseDirectives`, `frameCode`), `reorderErrors` | everything below, in order | every error of every package is reported, once; code is emitted only if there are none; it compiles without convgen and is the same every time |
| parsing: `internal/convgen/parse` | `Module` (lookup of functions, default `Config`), `Injector`, `Config` | `ParseModules`, `ParseInjectors`, `ParseConfig`, `Fork`, `Update`, `Validate` | hands modules and injectors to the driver | options apply where documented; a type pair has one function per module; duplicates are reported |
| converter construction: `internal/convgen/assign` `build.go`, `func.go`, `subconv.go` | `factory` (`cfg`, `allowsErr`, `parent`, `newSubconvs`, `oldSubconvs`) | `Build`, `buildExplicit`, `build`, `callFunc`, `tryMatchFunc`, `tryModuleFunc`, `trySubconvFunc`, `trySubconv`, `forkForSubconv`, `joinForSubconv`, `exportSubconvs` | reads modules, claims names, recurses through the assigners | calls resolve; errorless converters never return errors; error returns only where needed; names unique; terminates |
| matching: `internal/convgen/match` | `forced`, `forcedAt`, `skippedAt`, two indexes, links, visualizer | `AddX/Y`, `DeleteX/Y`, `Force`, `Skip`, `Match` (five rules) | called by the struct, union and enum assigners | every element of both sides is accounted for exactly once, or the conversion is refused |
| struct, union, enum assigners: `struct.go`, `union.go`, `enum.go`, `discover.go` | fields discovered, matches | `tryStruct`, `tryUnion`, `tryEnum`, code writers | matcher; `build` for each match | errors reach the caller; the output is zero when an error is returned |
| leaf assigners: `basic.go`, `pointer.go`, `index.go`, `key.go`, `same.go` | none | `tryX`, `writeAssignCode` | `build` for elements | no loss of precision; errors in elements stop the loop |
| members and paths: `struct.go`, `parse/struct.go`, `typeinfo/func.go` | none | `DiscoverX/Y`, `ResolveX/Y`, `FuncOf`, `groupMatches`, `writeMatchesCode` | matcher; paths parsed from options | the code written reads and writes the member that was matched; nothing is written over |
| error wrapping: `errwrap.go`, `pkg/convgenerrors` | chain of wrappers | `newErrWrap`, `Wrap` | generated code | wrappers in registration order; one path per error |
| names and imports: `internal/codefmt` `namespace.go`, `writer.go` | `NS`; `Writer.imports` | `Reserve`, `Name`, `Import`, `importObj` | construction, generation | no two functions, imports or locals clash |
| type information: `internal/typeinfo` | `Lookup` | `Put`, `Get`, `Del`, `Range`, `FuncOf` | parsing, construction | `Put` keeps the first function |
| common prefixes: `internal/lcs` | none | `CommonPrefix`, `CommonWordPrefix`, ... | renaming options of the matcher | the result is a prefix of every name and the longest one |

Hard behaviours: speculative attempts (a subconverter is tried without, then
with an error return) whose results are dropped or merged; recursive types cut
off by a placeholder that is registered before it is known to succeed; results
of one directive reused by a later one with other permissions and options; a
rerun of a conversion just to produce its error; match rules that overwrite
one another's verdicts; members that are found by their declaration and reached
by their path; validation and erasure of directives that look for them in three
different ways; and generated code whose own error path is intricate.
Nothing runs concurrently, nothing is persisted and no message is sent, so
crashes, loss and interleaving do not arise. The list of hazards, each at its
line, is `hazards` in `PROJECT.json`.


## Modules

| Module | Models | Of |
|---|---|---|
| `Converters` | what converting a package promises, abstractly: directives taken in order, each rejected or converted into functions that link, keep errors in and have names of their own | the contract of `Convgen.Build` |
| `Subconv` | the loop over the directives and the depth-first construction below each of them | `convgen.go` `Build`; `assign/build.go`, `func.go`, `subconv.go`, `struct.go` `tryStruct`; `codefmt/namespace.go` |
| `SubconvProps` | the properties of `Subconv`, and its refinement of `Converters` | |
| `SubconvProofs` | theorems about `Subconv`: its types, and no error dropped | |
| `ConvertersProofs` | theorems about `Subconv`: calls, names, the refinement of `Converters`, which directives are built and which functions return errors | |
| `MCSubconv` | the packages TLC checks | |
| `Match` | the discovery of members, the five rules and the table of verdicts | `match/*.go`, `assign/discover.go`, `struct.go` `DiscoverX`/`DiscoverY` |
| `MatchProps`, `MCMatch` | its properties, the problems TLC checks | |
| `MatchProofs` | the theorems about `Match` | |
| `Generated` | the code that is written, run on an input: loops, breaks, gotos, errors on their way out | `writeAssignCode` of `errwrap.go`, `func.go`, `pointer.go`, `index.go`, `key.go`, `same.go`, `struct.go`, `union.go`, `enum.go`; `conv.go` |
| `GeneratedProofs` | the theorems about `Generated` | |
| `GeneratedProps`, `MCGenerated` | its properties and the equations of a conversion (`Converts`); the programs and inputs TLC checks, with the conversion computed by recursion (`Expected`) | |
| `Config` | options accumulating over modules, qualifiers and directives, with the slices they are kept in | `parse/config.go`; `injector.go` `parseInjector`; `module.go` `ParseModule`; `subconv.go` `forkForSubconv` |
| `ConfigProps`, `MCConfig` | its properties, the packages TLC checks | |
| `ConfigProofs` | the theorems about `Config` | |
| `Imports` | a run over packages: their errors, the names that their files import packages under, the files written | `codefmt/writer.go`, `namespace.go`, `format.go` `qf`; `convgen/main.go`; `convgen.go` `Generate`, `frameCode`; `cmd/convgen/main.go` |
| `ImportsProps`, `MCImports` | its properties, the runs TLC checks | |
| `ImportsProofs` | the theorems about `Imports` | |
| `Directives` | a package going in and coming out: modules and injectors found, usages validated, converters built and written, sources merged and directives erased | `convgen.go` `Build`, `writeConvCode`, `mergeCode`, `eraseDirectives`; `parse/validate.go`; `module.go` `FindModules`, `ParseModuleArg`; `injector.go` `parseInjectorsInFile` |
| `DirectivesProps`, `MCDirectives` | its properties, the packages TLC checks | |
| `DirectivesProofs` | the theorems about `Directives` | |
| `Picks`, `PicksProofs` | what a loop that appends some of the items it passes leaves of a sequence; what is true of it | the loops of `convgen.go` `mergeCode`, `eraseDirectives` |
| `Accessors` | members discovered along nested fields, paths resolved, the order of assignments | `struct.go`; `parse/struct.go` `walk`; `typeinfo/func.go` `FuncOf`; `match/index.go` `add` |
| `Words` | common prefixes and suffixes of names, by letters and by words | `lcs/lcs.go`, `lcs/word.go` |
| `Basic` | which conversions between basic types are written | `assign/basic.go` |
| `LeavesProps`, `MCLeaves` | what the algorithms of the last three are for, the questions TLC asks them | |

### Subconv

The Go call stack is the variable `frames`, one frame for each `tryStruct` in
progress, and `facs` are the factories alive on it; a fork lives exactly as
long as the attempt made in it, so both are stacks. `ns`, `subconvs` and
`convs` are the fields of `Convgen`; `failed` are the directives for which
`assign.Build` returned an error. One action is one step of the walk:

| Action | Code |
|---|---|
| `BeginInjector`, `EndInjector`, `EndBuild` | the loop of `Convgen.Build`, `buildExplicit`, `exportSubconvs` |
| `TryMatchFunc`, `TryModuleFunc` | the field has a function written by hand: `callFunc` |
| `TrySubconvFunc` | a subconverter is known to the factory or an ancestor |
| `Rerun`, `ReportRerun`, `Panic` | it is known but may not be called: `tryStruct` is run again for its error |
| `TrySubconv`, `Unconvertible` | it is unknown: a name is taken, a fork is made and the errorless attempt begins |
| `Commit`, `Retry`, `GiveUp` | the return of the attempt: join, second attempt with an error return, failure |
| `Overflow` | the Go stack is exhausted |

What is matched in a pair of structs is an input (`shape`), under the options
of each directive and of each module, because matching is a component of its
own. Fields copied without a conversion function are left out, since they
neither fail nor add functions. Pointers, slices and maps are stripped from the
pairs: they are walked through on the way to the element and keep no state.

### Match

An index is a set of entries, at most one for each position; `xs` and `ys` are
the two indexes, `links` the links, `oks` and `fails` the rows of the
visualizer by verdict. One action is one discovery, one rule, and for
`RuleSkip` one `MatchSkip`, in the order in which the options are written. The
position of a member (where it is declared) and its owner (where it is reached)
are separate, because the index knows positions only. Keys are taken as the
renaming options leave them, and may be empty. Which of several links to one
member `RuleAmbiguous` spares depends on the order of insertion; the model
spares any one. `Path` resolution and the reasons printed are left out.

### Generated

An assigner writes code that is inlined into the code of the assigner above it,
or called by it. Running that code is a stack machine: `stack` has a frame for
each assigner whose code is being executed (`in`, `out` and `err` are `varX`,
`varY` and `varErr`, `at` the position in a loop or among the fields), `ret` is
what the code that ended last has assigned, before the code around it looks at
it. An action is the stretch of code between two entries of inner code:
`IndexNext` binds the next element, `Assign` is the end of the loop's body with
its `break`, `Goto` the `goto` of a struct, `StructEnd` the code at the label.

`prog` is the code (a graph of assigners, so subconverters may be shared) with
the registered wrappers. A value is a tag with parts; types are left out, and a
value converts to itself but for what the code does to nil and empty values. So
`ConversionIsExact` tells whether every part of the input has arrived in its
place. It compares the output with `Conversions`, which gives for each code a
function of assigners and values, without control or errors: the equations of
`Converts` say what it makes of a struct, a map and so on from what it makes of
their parts. Its domain stands for the types: it has the inputs of a program, and
with a value those inside it (`ConversionsAssumption`). For TLC, `MCGenerated`
computes it by recursion. A "bad" value makes a function or a getter fail, an "odd" one a setter.
`faults` records the failures; no action reads it. An error is the sequence of
its cause and of what has wrapped it. A wrapper called on nil makes an error of
it, as `fmt.Errorf("A: %w", err)` does.

### Config

`at` is the option being parsed; one action is one option, or the beginning or
end of a module or directive. `cfg` is the `Config` being filled and `fors` its
`ForStruct`, `ForUnion` and `ForEnum`; `mods` are the modules parsed so far, with the
pairs they have functions for, `injs` the configurations of the directives parsed, `subs`
those of the factories for their subconverters, `errs` the errors reported. A
qualifier is written flat: `For` stands before its options, each of which names
the kind it is for (`into`).

A module is declared as a variable of the package or written inline, as an argument
of a directive. Those declared (the first `declared` ones) are parsed before any
directive; one written inline is parsed when `parseInjector` reaches its directive
(`BeginInline`), and a mistake in it ends the directive before its options or its
pair are looked at (`AbandonInjector`, injector.go:218-227). A directive assigned to
`_`, or whose module is none, is not parsed at all (`SkipInjector`).

The rules and their finders are slices: an array in `heap` and a length, with
`append` writing in place when there is room and doubling the array when there
is none, as Go does. This is what `Fork` clones them for, and the mutant
`ForkShared` shows what happens otherwise. Every other list is extended by one
owner only, so a sequence stands for it. What an option's arguments and paths
are is an input: right, wrong (`bad`, which stands for every error an option can
have) or, for `DiscoverNested`, unparsable. `matchFuncs` is a Go map: a nil one
(`NilMap`) reads as if it were empty, and a write to it panics.

The references in `ConfigProps` speak of the options as written and documented:
those of the module, for all kinds or qualified for the directive's, in the order they
are registered, then the directive's own; a rule stands unless a later reset clears
it, a setting unless a later one replaces it. They pick the options by their indices
(`Picks`), with no recursion, so that they can be proved about.
The code joins what a qualifier has to the end of what the module has (`Update`),
which is another order if the module goes on after the qualifier, and lets a reset of
the qualifier undo nothing of the module. `RenamesInForce`, `DiscoveryInForce` and
`SubconvertersInherit` are about modules where neither happens (`InOrder`);
`RenamesAsRegistered` and `DiscoveryAsRegistered` say the same of all modules, and do
not hold. In the same way `DiscoveryInForce` speaks of the sample of a directive that
has one (`SampledOnce`), `LastSampleTakesEffect` of those with several, and
`ErrorsAreComplete` of the mistakes that a wrong inline module does not hide
(`Hidden`), `NothingIsHidden` of all. A second sample is no mistake by the
documentation: `ErrorsAreComplete` lets it be reported (`SecondSamples`) and does not
ask for it. These four, and `NeverPanics`, are said of one directive at a time.
`SomeAreAsDocumented` asks of a package only that they hold of one of its directives,
so that a package that violates it shows each of them violated: its run has one
directive for each disagreement with the documentation.
`RulesAreSettled` is about steps: none changes the rules that a parsed module,
directive or subconverter holds.

### Imports

The run goes through `phase`: packages are loaded, and the run ends if one of
them has errors; each is then built and generated; and if none has failed the
files are written (`save`). What `Build` finds is an input (`mistakes`), as it is
the subject of the other modules. While a file is generated, `items` is what it
mentions, in order; an action is one mention:

| Action | Code |
|---|---|
| `PrintObject` | `Printf` of an object, or of a named type or a pointer to one that is given as a type: `importObj`, then `qf` |
| `PrintUntracked` | `Printf` of a type that `importArgs` passes over: one composed of others, which `importType` ignores, or any type given as an `Object`, which is no `Typer`; `qf` prints the name of each package in it |
| `UseHelper` | the code needs `fmt` or `convgenerrors`: `Import` |
| `RewriteImport` | code merged from the sources: `RewriteImports`, which calls `Import` |

`imports` is `Writer.imports`. There are two kinds of package objects: those of
the type checker, one for each package, which the files of a run share and whose
names are `names`; and those that `Import` makes for itself, which nothing else
sees. `shared` tells them apart, because `importObj` recognises an import by its
object, and `Import` by its path. A name is a stem with the numbers that
`DisambiguateName` has appended, so that the name of a package can be another's
with a number. `outs` keeps of each file what it declares (`specs`) and what it
mentions (`refs`): the properties compare the two, as the Go compiler does.

Left out are the names of local variables, which may hide an import, and function
literals, which are printed with the names of their source.

### Directives

`pkg` are the files with their declarations, `phase` where the run is, `cur` the
file or converter in hand. Of an expression is kept what the searches in the code
can tell apart: the directive it is a call of, in parentheses or not; the
directives inside it; the identifiers it mentions, with the one it begins with,
because `findBlankValues` knows a value by its position. `ObjectOf` gives an
identifier its variable, with functions shadowing the package. A package with
errors goes no further than `load`, so the initial states are the packages in
`Packages` for which `Compiles` holds. What loops leave of a sequence is `Picked`
by rank, without recursion, so that it can be reasoned about; injectors are listed
in any order that is `Sorted`, of which there is one.

| Action | Code |
|---|---|
| `ParseModules` | one file of `Parser.ParseModules` |
| `ValidateFile`, `ValidateUsages` | `Validate`: `validateConstraint` and `validateAssignedDirectives` file by file, then `validateModuleUsages` |
| `ParseInjectors` | one file of `Parser.ParseInjectors`; the panic of `FuncOf` |
| `Parsed`, `BuildConv` | the early returns and the loop of `Convgen.Build`; whether a converter can be built is an input |
| `WriteExplicit`, `WriteImplicit` | `writeConvCode`; the order in which files were loaded, and that of a map, are any |
| `MergeFile` | one file of `mergeCode`, with `eraseDirectives` on each declaration |

`out` is what is written, as the compiler will see it: `StandsAlone` and
`DeclaredOnce` look up its names in it and in the files that are not merged. Each
declaration in it tells where it comes `from`, which no action reads. The variable
of a function (`var m = convgen.Module()`) is erased wherever it is; `Harmless` is
where the code around does without it, because it is blank or has a namesake.

### Accessors, Words and Basic

These are functions of their input, without state; `LeavesProps` has an action
that asks a question of each and compares the answer with a definition that does
not know the algorithm. In `Accessors` a member is known by its declaration
(`Decl`), as in the index, and a `Field` is a member with the path of its owner.
`Index` is what discovery leaves; `Accessed` and `CallsRight` are what the
generated code does with it: it walks the owner's path through the struct's own
fields (`Walk`), then selects by Go's rules, promotion through embedded fields
included (`Select`). `Writes` is the order of assignments.

A name in `Words` is a sequence of bytes of four classes. `SortWords` is the sort
by insertion that `slices.SortFunc` does on up to twelve elements: as the
comparison is no order, its result depends on how the sort goes. In `Basic` a kind
has a class and the size the code gives it; `Lossless` has the size the machine
gives it.

## Checks

| Run | Question | Expected |
|---|---|---|
| `subconv_core` | do the functions built link, keep errors in, return errors only where needed, have distinct names, and do they depend on the package alone; does the walk implement `Converters`; does `Build` return where no errorless directive follows an errorful one over recursive structs | holds |
| `subconv_overflow` | does `Build` always return | violated |
| `match` | is no member lost or merged silently, is an accepted match what the options ask for, is a refusal explained | holds |
| `generated` | does the code stop at the first failure and report it, wrapped as registered; is there an error only if something failed; is the output the whole conversion, or zero | holds |
| `generated_union` | does `UnionErr` report the failure of an implementation's conversion | violated |
| `config` | does every directive, and every subconverter, see exactly the options that apply to it, whatever others add, where the module's come before its qualifiers' and are not undone there; are the rules of what has been parsed never written over; is every mistake reported that no inline module hides, and nothing that is right | holds |
| `config_documented` | is one directive at least treated as documented, of six: a `RenameReset` or a `DiscoverFieldsOnly` in a qualifier, a rule of the module after a qualifier, two samples, a wrong inline module, a `MatchFunc` in a module with a qualifier | violated |
| `imports` | does every mention of a package in a generated file refer to it, whatever names clash and whatever mentions it first; is every import used; do names stay; are files written only if no package has errors, and are all errors reported | holds |
| `imports_unresolved` | does one file at least refer to its packages as it imports them, of two: one mentions a package only by a type that is printed through an `Object`, the other one that a file before has renamed | violated |
| `directives` | does what is generated stand alone, but for the uses that are overlooked; is everything that is not a directive declared once; is every mistake reported, and nothing else; is the output the same every time | holds |
| `leaves` | does the code reach the members that the options name, and no others; is nothing written over; is what names have in common the longest there is; do conversions of basic types lose nothing | holds |
| `accessors_fail` | does `Generate` never fail once `Build` has succeeded | violated |

Each property of a passing run has a mutant, defined beside the code it mutates
(`RuleSkipLax`, `MayRetryAlways`, ...), under which TLC finds it violated.

The properties are stated without the machinery they are about. The right-hand
sides of `ErrorsAreNeeded` and `OutcomeIsDetermined` are least fixed points over
the graph of pairs (`NeedsErr`, `Hopeless`), so they say that a search which
speculates and backtracks computes what the graph defines; `MatchesAreMeant` and
`RefusalsAreReal` speak of the members and options as written (`Meant`, `Loss`,
`Merge`, `Ineffective`), not of the indexes.

Where the code does not do what it is for, the property of a passing run names
the cases exactly, so that it fails if there are more of them and, where it is an
equivalence, if there are fewer: `Overlooked` in `StandsAlone`, `Unordered` in
`SameEveryRun`, `Unwalkable`, `Misplaced` and `Misfit` in `MembersAreReached`, the
pairs of kinds in `ConversionsLoseNothing`, `GoesOn` in `CommonIsLongest`.

### Bounds

- `Graphs`: every graph of three pairs of structs with at most two edges out of
  a node (one or two out of the third), to other structs, to a function that
  returns an error or to a type nothing converts; two directives of one module,
  with and without error returns, rooted at one pair or at two. Three pairs are
  enough for a cycle reached from outside, a diamond, nested retries, and a fork
  dropped beside one that is kept.
- `OptPackages`: three directives, two modules, accessors that fail, MatchFunc
  with and without an error, options that differ between directive and module,
  converters that call each other.
- `MaxStack = 8` stands for the Go stack. Without a rerun the depth is at most
  the number of struct pairs plus one, so only an endless rerun reaches it; that
  `BuildReturns` holds shows it.
- `FlatProblems`: two members a side with equal, different and empty keys, one
  member that is not discovered, every set of at most two `Match`, every
  sequence of at most two `MatchSkip` of any pair. Two links to one member, a
  pair and its skip in both orders, and rows that overwrite one another all
  need no more.
- `NestedProblems`: one field opened by `DiscoverNested` or reached by `Match`,
  on either side.
- `StructPrograms`: a struct of four fields: one of any of nine shapes (slices of
  pointers, of slices and of structs, arrays, maps with fallible keys, elements
  or both, pointers of depth 0 to 2), a getter and a setter that may fail, and a
  field below a pointer; at most two elements a loop, any of which may fail,
  with no wrapper or two. Two elements tell a loop that goes on from one that
  stops; nesting of two tells a break that leaves one loop from an error that
  leaves both.
- `OtherPrograms`: unions and enums with and without error returns and a struct
  without. Unions with fallible cases are the finding's run.
- `RenamePrograms`: up to three rules and resets in the module, with one or two
  qualifiers and two directives that add to or clear them: three appended rules
  leave room in an array of four, the least at which a shared array is written
  by two owners. `DiscoverPrograms`, `MatchPrograms`, `DeclaredErrors`: two or three
  directives with up to three options each, of every kind. Qualifiers hold resets and
  settings of their own, behind or instead of what they undo; where they stand behind
  a module that they should undo, the run does not say what is in force (`InOrder`).
  No directive has a `MatchFunc` below a qualifier for its kind, which is the
  finding's run.
- `InlineErrors`: three directives, each with a module of its own, all written inline
  or the last declared; each is right, has a wrong option or imports a pair twice, and
  the first directive has mistakes of its own or a duplicate, or not. The module of the
  first directive is the last in number, so that modules are not parsed in order.
- `OddPrograms`: six directives, each the least at which the documentation and the
  code differ in one way. With any one of the six put right the property holds.
- `OnePackage`: a file with every sequence of three mentions of four packages,
  generated code before merged code; two packages have one name and a third has
  the name that the second is given; the file declares neither, either or both of
  the first two names. Three mentions are enough for a name to be taken, for the
  next to be taken as well, and for a package to be mentioned again.
  `TwoPackages`: two files with two mentions each, where the first renames no
  package that the second mentions (the finding's run has one that does).
  `FaultyPackages`: either kind of error in either package or in both.
  In all of these a type that `importArgs` passes over comes after another mention
  of its package. `UnresolvedPrograms` has it alone, and a package that the first
  file renames in the second.
  `MaxTries` is more than all the names in use; TLC would report a deadlock if it
  were too few.
- `MCDirectives`: a module, converters, another variable, a function and a second
  file, of which two vary at a time: what one search sees of a directive and
  another does not takes one expression, and a mention of it another. A module may
  be declared in parentheses, with others, wrongly or not at all; be passed,
  shadowed, assigned, and mentioned at the beginning of a value or within. The
  second file is merged or not. Two names in a specification are enough for one to
  be erased beside one that stays. Combinations that do not compile are no initial
  states.
- `FieldQuestions`: a struct with two fields of one type and an embedded one,
  nested two deep; every sequence of at most two paths opened and every path named.
  `MethodQuestions`: a method of every signature that tells getters, setters and
  other methods apart, on any of three structs, called by its affixes or not.
- `Assignments`: every sequence of at most three pairs over two owners of X and
  fields of Y three deep. `NameLists`: every sequence of at most three of eleven
  names that end, go on or differ at a change of class. All pairs of kinds.
- Several initial states are checked at once: a package, or a problem, is a
  value of a variable that never changes.

### Fairness

`subconv_core` and `subconv_overflow` assume `WF_vars(Build)`. `Build` is one
goroutine that never blocks and shares nothing, so it keeps taking its next
step as long as it has one. No other fairness is used. `BuildReturns` asks for
two things of a package: that the directives have the options of their module, and
that in a module those that may fail come last, or nothing is recursive. Without
the second the rerun overflows the stack (`subconv_overflow`), without the first it
may end in the panic marked "should not happen" (subconv.go:64): it uses the
directive's options, and if they match the pair without the accessor that returns
an error it succeeds.

## Findings

- `subconv_overflow`: `trySubconvFunc` runs `tryStruct` again to report why a
  subconverter that returns an error cannot be called. If the pair is recursive,
  the rerun meets the pair again, finds the same subconverter and reruns again:
  the process dies of stack overflow instead of reporting all errors.
- `generated_union`: the code of a union case sets `varErr` to nil after the
  conversion, so an implementation that fails to convert is returned as a
  success with a zero value.
  The wrappers are then called on that nil.
- `config_documented`, by directive:
  1. a `RenameReset` in a qualifier clears what that qualifier has, and no rule that
     its module has registered before; `convgen.go:683` says that it does;
  2. a module's rule written after a qualifier is applied before the qualifier's, not
     in the order of registration (`convgen.go:359-361`);
  3. a `DiscoverFieldsOnly` in a qualifier leaves the module's getters and setters on,
     contrary to `convgen.go:921`;
  4. a second `DiscoverBySample` is refused and the first stays; `convgen.go:806` lets
     the last take effect;
  5. a wrong module written inline hides every mistake of its directive, though
     `parseInjector` replaces it "to collect as many errors as possible"
     (`parse/injector.go:220`) and all errors should be returned
     (`internal/convgen/convgen.go:25`);
  6. `Update` replaces the map of `MatchFunc`s that `Fork` has made by a clone of the
     qualifier's nil map, so `MatchFunc` in a module with `ForStruct` or `ForUnion`
     panics with a write to a nil map.
- `imports_unresolved`, by file:
  1. `importArgs` has no case for an argument whose `Type()` gives a `typeinfo.Type`,
     as the `Object`s of the assigners have, though `Printf` formats it. So the type in
     a conversion between basic types (`varY = other.ID(varX)`, basic.go:104) and that
     of the variable for a setter (struct.go:585) are printed without their packages
     being imported, named types included. A file in which nothing mentions the package
     otherwise lacks the import; one in which it is mentioned later may have another
     name for it. The same goes for types composed of others (a slice, a map, a type
     argument), which `importType` does not go into;
  2. importing a package under another name renames an object that all files of a run
     share. The next file to mention the package takes that name for the package's own,
     and imports it without an alias: what it mentions is not what it imports.
- `accessors_fail`: a path of `DiscoverNested` or `Match` may lead through a field
  that the struct has by embedding, as Go lets it. `writeMatchesCode` looks it up
  among the struct's own fields, and panics.

Others were met and have no run of their own:

- A `MatchSkip` of a member that is not discovered is looked up as the zero entry,
  and passes as effective.
- `Match(X.Home.City, Y.A)` and `Match(X.Work.City, Y.B)` with `Home` and `Work` of
  one type both assign `X.Work.City`, as the index is keyed by the position of the
  declaration (`Ambiguous`).
- A getter or setter of a field opened by `DiscoverNested` is called on the struct
  itself, which does not have it unless the field is embedded (`Misplaced`); an
  accessor that takes a pointer to its result, returns nothing but an error, or is
  variadic is taken for one and called as if it were not (`Misfit`); one that is
  called just by its affixes panics (`indexer.add`).
- A field of Y that is assigned as a whole from inside a field of X is assigned
  after its parts, which are lost (`WritesSurvive`); struct.go:405-407 has only the
  other case in mind.
- `["fooBar", "foo"]` are found to have `fooBar` in common, word by word (`GoesOn`).
- `int` to `int32` is taken to lose nothing on every machine, `uint64` to `uintptr`
  as well, and a signed kind to an unsigned one always.
- A directive inside a function, in parentheses or inside another value is neither
  refused nor erased, so the output still imports convgen; a module that an untagged
  file assigns to the blank identifier is erased under it (`Overlooked`). The
  tests know the like of it as "ok, will be removed" for files that are merged.
- The order of converters from several files is that in which the loader happened
  to parse them (`Unordered`).
- The code of a frame is never empty, so `Main` writes a file for every package it
  is given, with or without directives.

## Proofs

Every theorem holds for every value of the constants that satisfies the
assumptions of the component's module, so for every package, problem, program or
run and not only those that TLC enumerates. A hypothesis that is more than an
assumption is written in the theorem. The assumptions say what packages there are
and TLC evaluates them on those of the runs.

`SubconvProofs` proves, for every package and any numbers of pairs, modules and
directives, from the assumptions `ProgramsAssumption` and `StackAssumption`:

- `TypeCorrect`: `Spec => []TypeOK`. `TypeOK` is not inductive: a join writes to
  the factory of the caller, which must be alive. The invariant `Typed` adds
  `Nested`: the stacks are empty between directives; the frame of an attempt
  works in the newest factory and every frame in one that is alive; the
  factories alive above the first each have an attempt (`Nesting`); a frame that
  waits has a field in hand (`Waiting`); a factory's ancestors are older than it
  (`LinesDescend`).
- `ErrorlessConvertersAreSafe`: `Spec => []ErrorlessIsSafe`, the errors of
  generated functions are never dropped.
- `ForksNeverLetErrorsIn`: `Spec => []ForksKeepErrorsOut`. The last two share
  the invariant `Sound`: what is exported is safe; the factories hold no
  subconverter that returns errors unless they may; the placeholder an attempt
  fills has the error return its factory allows; the frame of an errorless
  factory that has not failed has called nothing that returns an error.

The lemmas on sequences (`PopSeq`, `ReturnSeq`, ...) and stacks (`NestingCall`,
`NestingReturn`, ...) come first; then one lemma per action and invariant, which
the theorems combine.

`ConvertersProofs` goes on from there, with the assumption `NamesAssumption`: a
converter is a variable of the package scope, whose names `NewNS` reserves
(namespace.go:19-22, convgen.go:87), and the blank one is refused
(injector.go:206).

- `EveryCallResolves`: `Spec => []CallsResolve`.
- `NamesNeverClash`: `Spec => []NamesAreUnique`.
- `WalkImplementsConverters`: `Spec => ImplementsConverters`. Each action maps to
  a stutter but for `EndInjector`, which maps to a directive being rejected or
  converted, and the ends of the build.

They share the invariant `Linked`. Of calls it says that what is built in a
factory calls what is seen from there (`Visible`: the exports of the module and
what the factories on its line hold). A join gives a factory's functions to the
one that made it, which was on its line already, so what is seen from below does
not shrink. Of names it says that one is taken once, and only from outside `ns`
(`Fresh`). The hard part is that a factory holds no second subconverter for a
pair. Forks look along their line before they try a pair, but a rerun starts over
in the injector's factory and sees none of the forks, so it may try what one of
them is trying. `Apart` therefore excepts what a rerun interrupts (`Doomed`); a
rerun only reports an error, so all of that fails and is never joined.

It also proves what can be read off a package, with `FunctionsAssumption`:
a pair has one function, since `Lookup.Put` keeps the first, and one option decides
a field.

- `ErrorReturnsAreNeeded`: `Spec => []ErrorsAreNeeded`.
- `OutcomeDependsOnThePackage`: `Spec => []OutcomeIsDetermined`.

The right-hand sides are least sets closed under the graph of pairs (`Backward`),
so they are reached from both sides. An attempt fails only for a reason
(`Blocked`): one of its fields needs a pair in `Hopeless`, or one in `NeedsErr`
where no error may be returned; both are closed, so the pair itself is in them
(`Reasoned`). And what is exported is closed: each of its fields has its function
(`Covered`). So the pairs that are not exported include those that nothing
converts and are closed backwards, and by leastness no exported pair is in
`Hopeless` (`CoveredNotHopeless`); in the same way none that returns no error is
in `NeedsErr` (`ErrorlessNotNeeded`). That what is exported is closed holds only
once everything is joined: before, the fields built so far have their functions
among what is seen from the factory (`Progress`, `Founded`), which a fork that is
dropped takes with it.

`MatchProofs` proves, for all types and options, of any size:

- `TypeCorrect`: `Spec => []TypeOK`, and `NothingMerges`:
  `Spec => []NothingIsMerged`. Both hold of members that share a position, too.
- `NothingGetsLost`, `AcceptedAsMeant`, `RefusedForAReason`: `NothingIsLost`,
  `MatchesAreMeant` and `RefusalsAreReal`, of a problem that is `Tidy`. The
  properties speak of members, and the index knows their positions only: members
  at one position (those of a struct type that is reached through two fields) are
  one entry to it, the last one added. `Tidy` says that members have positions of
  their own and that `DiscoverNested` opens an outer field before an inner one,
  which would otherwise come back. `TidyAssumption` has TLC confirm it of each
  problem of the run.

The invariant `Meaning` says, phase by phase, what has been computed of the answer:
the index holds what the options applied so far open; after `RuleForced` the links
are `Meant`; each `MatchSkip` takes at most itself out of them or is reported
(`Skipping`). A member is lost to the table only when a later row overwrites its
own (`Kept`), which is the subject of `NothingGetsLost`. A row that is FAIL without
a reason can only say that a member is missing, and the `MatchSkip` that lifts it
is still to come (`Passing`): at the end none is left.

`GeneratedProofs` proves, for every graph of assigners, every input and any
wrappers, with the single hypothesis `UnionsCannotFail` that no implementation's
conversion in a `UnionErr` can fail, which is what the finding
`generated_union` is about (`MCGenerated` has TLC confirm the hypothesis of each
program of the passing run):

- `FirstFaultIsLast`: `Spec => []FirstFaultStops`.
- `FirstFaultIsReported`: `Spec => []FaultsAreReported`.

Both follow from one invariant `Inv(Q)`, where `Q` is a set of assigners that
cannot fail. Its heart is `Faulted`: after a failure the error whose origin it is
is either what the code that has ended returns, or in the frame on top; so
nothing else is called until the stack is empty. To be preserved it needs
`Waiting` (code that waits for inner code has no error of its own, so a return
does not overwrite one), `Leaving` (only loops and structs hold an error, so it
is never dropped by the end of a pointer or a union), and `Muting` (below code in
`Q`, and below unions, which set the error to nil, is only code in `Q`, which
returns none). What an output holds does not matter, so values need no type.

With the hypothesis `UnionsUnwrapped` instead, that no program has both wrappers
and a union that returns an error (confirmed by TLC as well):

- `NoErrorWithoutAFault`: `Spec => []ErrorsAreReal`.
- `WrappersAreCalledInOrder`: `Spec => []WrappersInOrder`.

The hypothesis is needed: the wrappers of a union's case are called on the nil that
`UnionErr` has assigned (union.go:222), which makes an error of nothing, and the
error of `UnionErr` itself is not wrapped (union.go:199). The invariant `Sound`
says of each error on the stack and of what is returned that it is `Good`: there is
none unless something failed, and behind each annotation stand all the wrappers, in
the order of their registration, and none elsewhere (`Wrapped`). That a wrapper is
called exactly once each time is a matter of counting, so the cardinality of the
places of wrappers is part of it. `WrappersAssumption` keeps the wrappers apart
from the other marks.

From `ConversionsAssumption`, without another hypothesis:

- `TypeCorrect`: `Spec => []TypeOK`.

The invariant `Typed` says that code without an error is run on a value its
conversion is defined for (`Fitting`), and that code which waits for inner code has
a part left (`Pending`), so no loop goes past its input. `Asks` is what code asks
inner code to convert, and `AskedFits` that this is always a value of the inner
code's type. Each action is of one of three kinds, and the rest of the argument is
about these: it asks for inner code (`AsksOn`), goes on with one part more or leaves
with an error (`GoesOn`), or ends (`Ends`).

With `UnionsUnwrapped` and `FunctionsDeclareErrors`, which says that a converter of a
struct, union or enum that returns no error calls nothing that does (the hypothesis
`UnionsCannotFail`, and that `Q` has these converters; this is what `requiresErr`
sees to, and TLC confirms it of each program of the passing run):

- `ConversionsAreExact`: `Spec => []ConversionIsExact`.

The invariant `Exact` joins the frames of the stack: code without an error is run on
what the code below it asks for, has made the conversions of the parts it has gone
through and nothing else (`Partly`, with half an entry while a map's key waits for
its element), and what is returned without an error is the conversion of what was
asked for (`Answers`). An error leaves a struct only with `hasErr`, through the label
that clears the output: a struct without it is in `Q`, where `Inv(Q)` has no error. A
union that would drop an error is returned none, by the same invariant.

`ConfigProofs` proves, for every package, from `ProgramsAssumption` (an option of a
qualifier stands behind its qualifier; a directive names a module of the package or
none, and a module that is not declared is written in exactly one directive, which is
not broken):

- `RulesSettle`: `Spec => RulesAreSettled`. `append` writes to the array of the
  slice it is given or makes a new one (`AppendFrame`). So all the arrays of a
  fork, which starts from slices of no array, are new (`ForkSpares`), and stay
  apart from the old ones while its qualifier's rules are added (`UpdateSpares`).
  The invariant: `Apart`, no list that is being filled is in an array of a
  configuration that has been parsed; `Kept`, every slice is in the heap;
  `Placed`, an option has a configuration to go to, the modules of the directives
  before the one in hand have been parsed (`Before`), and so has its own once its
  options are. `Apart` fails as soon as one list is not cloned.
- `EveryMistakeIsReported`: `Spec => []ErrorsAreComplete`: every mistake but those of
  a directive whose inline module is wrong is reported, and nothing that is right but
  second samples; with `OptionsAssumption`,
  which is what the types of the options (convgen.go:380, 403-981) let a package
  say: functions and wrappers are imported by modules only, paths and samples are
  given to directives only. The invariant adds `Tally`: what has been reported is
  the mistakes of what has been parsed so far (`Reported`), in whatever order inline
  modules come; a directive is abandoned exactly if its inline module has mistakes
  (`FaultyIsHalted`). That a function is
  imported twice is seen from the configuration, not from the options: so it holds
  the functions imported so far, in their order, one for each option (`Imported`);
  a module knows the pairs of its functions and of the converters parsed
  before (`Known`); a sample is held exactly if one was given (`Sampling`).
- `RenamesAreInForce`: `Spec => []RenamesInForce`; `DiscoveryIsInForce`:
  `Spec => []DiscoveryInForce`; `MatchesAreInForce`: `Spec => []MatchesInForce`;
  `ModulesAreInherited`: `Spec => []SubconvertersInherit`; and `TypeCorrect`:
  `Spec => []TypeOK`. `KindsAssumption` says that `Nil` is no kind; by
  `OptionsAssumption` the affix of getters or setters is a string.

The last five rest on one more invariant, `Full`. It says of the configurations that
are being filled, the one in `cfg` and those for kinds, that

- every list of theirs is whole and in an array of its own, and no two of them share
  one (`Sounds`, `Private`): else an append to one would write into another;
- they hold what the options parsed so far for them say (`InHand`): `Follows` for what
  forks inherit, `Owned` for what only a directive says;

and of all that has been parsed that it holds what it is given (`Done`). Properties
about injectors alone would not be inductive: an injector starts from what its module
holds, a subconverter too, and an option adds to what is there. A step writes to the
arrays of one configuration at most (`UnmovedIs`), which settles the others. The rest
is what one option more makes of what the options say: what is picked of a list with
one item more (`PickedMore`) and of two lists joined (`PickedConcat`) is shown in
`PicksProofs` without induction, as the rank of an index is a cardinality. An option
that is parsed is one more item picked or an undoing of those before it. Where a
qualified list is joined to its module's (`Update`), a reset among the former undoes
nothing of the latter (`StandingJoined`), but one of the directive's own undoes both.
So far this is about the two halves of a module as `Update` joins them. That the same
is in force as in the order of registration, if the halves are in that order (`InOrder`),
is the last step (`ModulePlaces`, `Complies`): the options that count keep their order
from one list to the other, and what undoes an option in one undoes it in the other.
Finders are pairs of the
rules they were made from, in the same order, since they are appended and cleared
together.

`ImportsProofs` proves, for any packages, names and runs, from the assumptions of
`Imports`:

- `TypeCorrect`: `Spec => []TypeOK`.
- `NamesSettle`: `Spec => NamesAreSettled`. The invariant `AllSettled` says that a
  package is called what its own object is imported under. So `importObj` finds it
  at the first name it offers, and never imports it, or renames it, again
  (`OfferedName`, `ImportObjSettles`). It holds within a file only, as each file
  starts from an empty table: this is where the second finding of `imports_unresolved` comes from.
- `OutputsAreWhole`: `Spec => []OutputIsWhole`, with the hypothesis that the
  packages of a run are in different directories, which `-t` may break (see the
  hazards). The invariant `Course` says what holds in each phase; `Gathered(n)`,
  that the errors are the mistakes of the packages before the `n`th, and that each
  of those without has its file.
- `EveryImportIsSound`: `Spec /\ []Unrenamed => []ImportsAreSound`, and
  `EveryMentionResolves`: `Spec /\ []Unrenamed => []ReferencesResolve` if in every
  file a type that `importArgs` passes over, composed or given as an `Object`, comes
  after another mention of its package (`Tame`; the first finding of
  `imports_unresolved` is what happens otherwise). `Unrenamed` says that no file finds a package
  that it mentions renamed by an earlier file: exactly what its second
  finding is about, so it can't be dropped. `OnePackageCompiles` has no such
  hypothesis, as a run for one package starts with all packages called what they
  call themselves (`Alone`). The invariant `Naming`: what has been imported so far
  is sound (`Proper`); the name of a package is its own or its import's; what a
  mention has imported is there to stay, so that later mentions resolve.

`DirectivesProofs` proves all the properties of `Directives`, for every package that
compiles, from `NamesAssumption` (names are different strings, and the blank
identifier is none of them) and `PackagesAssumption`:

- `MistakesAlwaysReported`: `Spec => []MistakesAreReported`.
- `OutputIsOrdered`: `Spec => []SameEveryRun`.
- `KeptIsDeclaredOnce`: `Spec => []DeclaredOnce`.
- `OutputStandsAlone`: `Spec => []StandsAlone`.

The invariant `Progress` says what has been found and reported at each phase: the
modules, injectors and mistakes of the files before `cur`. The usages are looked at
between the two loops, when all modules are known: so what the code means by a
module (`mods`) is what the property does (`AllModules`). `Output` says what has been
written: the items of the converters, of their modules and of the declarations
before `cur`, each once, in the order of `InOrder` unless the package is
`Unordered`. What is left of a declaration is stated by rank: `PicksProofs` shows
that ranks are a bijection from a set of indices to an initial segment of the
numbers that keeps the order, so that each item picked has one place, and each place
one item (`NewName`, `NewValue`).

`StandsAlone` is an equivalence. That nothing overlooked leaves nothing wrong
(`NothingOverlooked`): a directive is left only where it is not erased (`Gone`), and
a name that is left is known to the compiler, because it was known before and its
declaration is no module (`NothingMissing`). The other way round
(`WhatIsOverlookedShows`), a directive that is overlooked stays as it is, a module
that is erased while its name is used leaves a name that nothing declares
(`ModuleIsMissed`), and this is where `Compiles` comes in: the name has no second
declaration, and a function that declares a module uses it.

### Only model-checked

- `BuildReturns`: liveness is beyond the prover.
- Those of `Accessors`, `Words` and `Basic`, which are about sequences folded
  element by element, or (`Basic`) about finite tables, of which TLC checks all.

## Not modelled, and why

- Which Go expressions are paths and functions, and what they refer to
  (`parse/struct.go` `walk` but for what it resolves to, `enum.go`, `union.go`,
  most of `typeinfo`): no state, the difficulty is in `go/types`.
- The discovery of union implementations and enum members: a filter over the
  scope of a package.
- Layout of code and messages (`codefmt` `format.go`, `printf.go`, `error.go`), the
  order of messages, and the folding of error prefixes at run time.
- The linter, which calls `New` and `Build` and reports what they return.
- The marker functions (`convgen.go` at the root), which have no body; examples and
  benchmark.

## Plan

What would come next:

1. The discovery of enum members and union implementations, composed with `Match`.
2. Joining `Subconv` and `Generated`: that what `Build` returns is code in which errors
   are declared, the hypothesis of `ConversionsAreExact`.
