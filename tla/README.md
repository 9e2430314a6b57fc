# go-bindings-win32 in TLA+

go-bindings-win32 turns Microsoft's `Windows.Win32.winmd` into Go packages and
carries the small runtime those packages call into. Two programs hide in it: a
**runtime** that resolves exports and calls native code from many goroutines,
and a **generator** that runs for a minute, rewrites a tree of two thousand
files and may be killed in the middle. This directory models both with TLA+.

`PROJECT.json` lists components, runs, the source lines each definition stands
for, the hazards and the theorems. `X.tla` is the model of a component,
`XProofs.tla` its proofs, `MCX.tla` the constants of its runs.

## 1. Inventory

### Runtime (`src/bindings/runtime/win32`)

| Component | State | Operations | Hard behaviour | What makes it correct |
|---|---|---|---|---|
| Loader (`loader.go`) | per `DLL` and per `Proc`: a `sync.Once`, the handle or address, the error | `Proc.Find`, `Proc.Addr`, `DLL.load`, `loadSystemDLL` | goroutines race on nested Onces; the file behind a module changes while the process runs | one verdict per export, never revised, about the image that is mapped; one lookup; no racy read; every caller returns |
| Register-aware `Call` (`call.go`, `call_*.s`) | `callFrame`: integer and float registers, stack words, X8, captured results | `planAMD64`, `planARM64`, trampolines, `finishAMD64`, `finishARM64` | register exhaustion, 16-byte alignment, HFAs, the size classes of returns, the 42 stack words | every argument placed whole, in order, aligned; every return byte comes back; no overflow |
| Frame pool (`call.go`) | `framePool` | Get, reset, SyscallN, read, Put | callbacks re-enter `Call`; panics; the collector empties the pool | a frame serves one call; no stale words; the result read is one's own |
| Out-parameters (`outparam.go`, emitted code) | where the pointee lives | `OutParam`, argument conversions | the stack moves during a callback | what a callee writes is what Go reads |
| COM base, errors, strings (`iunknown.go`, `runtime.go`, `hresult.go`) | none of their own | wrappers, conversions | - | unit tests |

### Generator (`src/cmd/generate`, `src/internal`)

| Component | State | Operations | Hard behaviour | What makes it correct |
|---|---|---|---|---|
| Cycle breaking (`pipeline/cycles.go`) | edges, blocked, the search's colours and stack | `ComputeBlockedImports`, `findCycle`, `lightestEdge` | overlapping cycles, repeated search, an edge weight that encodes a priority | acyclic result; only cycle edges severed; embeddings survive; it ends |
| Emission (`emit/raw/generator.go`, `fileasm`, `typemap/mapper.go`, `handles.go`) | the output tree, work list, `Referenced`, `Blocked`, `writtenFiles` | `EmitAll`, `emitNamespace`, `writeFile`, `pruneStale` | runs killed or failing between writes, filtered runs, changing metadata | imports exist and are acyclic; self-cleaning; hand-written files survive; it ends |
| Metadata update (`fetch.go`, `main.go`, `win32meta/io.go`) | winmd, `PROVENANCE.json`, the IR cache | `fetch-metadata`, `ingest`, `ReadAll` | two files that must agree, torn writes, schema bumps | fetch does not lie; a re-ingest cures the cache; stamps are true |
| Ingest projection (`win32meta/ingest`) | indices over the winmd | `Ingest`, `projectTypeDef` | a row that does not decode is dropped, and what is numbered after it shifts | slots are those of the winmd; what is dropped is reported |
| Functions and methods (`functions.go`, `interfaces.go`) | the function being shaped, claimed names | `planSliceParams`, `shapeParam`, `buildReturnShape`, `buildFunction`, `buildComMethod` | parameters that refer to each other by index, cases that shadow each other, words added after the fact | it compiles; every native word is there once, at its place, in a register its dispatch can fill; no status is lost |
| Structs (`sizes.go`, `types.go`, `archstructs.go`, `computeSkippedTypes`) | `archStructs`, `SkippedTypes` | layout engine, two fixpoints, `buildStructTree` | layouts per architecture, packing, a dry run that must predict the real one, a census of leaves that decides in which registers a struct travels | Go's layout is C's; nothing undefined is named; skips do not spread; descriptors follow both ABIs |
| Other emitters (constants, enums, delegates, handles) | claimed names, type names, the copies two passes per architecture start from | one builder per construct | everything of a namespace shares one set of names; names are taken, reserved and given back | no identifier twice; types and functions keep their names; closers call what exists; no silent loss |
| Registry (`pipeline/loader.go`) | function owners, interface index | `LoadAll`, `VtableStartSlot` | chains of base interfaces that dangle, close or cross a severed import | slots are those of the winmd |
| Validate, diff, coverage, ratchet | none, or a baseline file | reports | - | see section 6 |
| Generated bindings, examples, acceptance tests | - | - | - | not modelled: generated code and demonstrations |

### How they interact

Generated code keeps one `Proc` per export and calls `Addr` before `SyscallN`
or `win32.Call` (Loader -> CallPlan/NativeCalls). Every pointer it passes for
writing follows `OutParam`'s rule (NativeCalls). `fetch-metadata` feeds `ingest`,
which feeds `LoadAll`; `New` computes the blocked imports from the registry and
hands them to the mapper, whose `Referenced` set drives `EmitAll`'s work list
(MetadataUpdate -> BlockedImports -> Emission). For each namespace of that list
`emitNamespace` builds construct after construct over one set of names (Package).
The severed imports and the
skipped types decide how a struct's fields degrade (Structs), layouts decide how a
function passes its composites (Signatures), and the leaf census becomes the
descriptor `Call` plans by (Structs -> CallPlan). The emitter's `maxCallWords` is
a promise to the trampolines' stack area (kept by Signatures, tested in CallPlan).

## 2. Modules

| Module | Models | State | Actions |
|---|---|---|---|
| `Loader` | `loader.go` | the two Onces as mutex + done flag, the fields they guard, the module files on disk | one per step of `sync.Once.Do`'s fast and slow path, `LoadSystemDLL`, `GetProcAddress`, `Return` (the answer or the panic of `Addr`), `ServiceFile` |
| `ExportTable` | what callers may rely on | one verdict per export, decided once | `Decide`, `Reply` |
| `CallPlan` | one `Call`: planner, trampoline contract, finish | the call frame; words are tokens `<<argument, part>>` | one per kind of argument per planner, `EndPlan`, `CalleeReturns` (external: the ABI), the finish functions |
| `NativeCalls` | `framePool` and out-pointers under concurrent and nested calls | calls, frames, pool, where each pointee lives; a frame's field remembers for which call it was written | `Get` ... `Put`, a direct `SyscallN`, the callee's write, callbacks, stack moves, the two panics, unwinding, collection |
| `ImportGraph` | reachability, acyclicity, what breaking cycles means | | |
| `BlockedImports` | `cycles.go` | edges, blocked, the depth-first search step by step | one per branch of `visit`, `Sever`, `NoCycle` |
| `Emission` | `EmitAll` over an output tree | metadata, tree, the run's locals | `Start`, `Pick`, `OpenFile`/`WriteContent` (a write is a truncation and a fill), `Discover`, `Prune`, failures, `Crash`, `Ingest` between runs |
| `Signatures` | `buildFunction`, `buildComMethod` | one signature on its way from metadata to Go: plans, declarations, words, descriptors, return, claimed names | `PlanSlices`, one per way to shape a parameter or a return, the skips, `Emit` |
| `Structs` | layouts, variants, skipped types, the leaf census and the descriptors of by-value structs | a registry of structs, the two sets, the declarations and descriptors per architecture | one per step of the fixpoints, per namespace of a round and of the emission |
| `Package` | the winmd's rows up to package-level declarations | rows, IR, the generator's name state, declarations, methods with slots, diagnostics | `Ingest`, one per construct and outcome, the two architecture passes, `DeclareProcs`, `BuildCloser` |
| `MetadataUpdate` | `fetch-metadata`, `ingest`, the IR files | winmd, record, cache | one per write; `Kill` anywhere; publication and tool upgrades |
| `LoaderProofs`, `CallPlanProofs`, `NativeCallsProofs`, `BlockedImportsProofs`, `SignaturesProofs`, `StructsProofs`, `PackageProofs`, `CommandsProofs` (on `Emission` and `MetadataUpdate`) | the theorems of section 4 | | |

`Emission` composes what `BlockedImports` promises: its `Start` takes any set of
severed edges that `Breaks` the cycles (`ImportGraph`), which the search is
proved to deliver (`PromiseKeptCorrect`). `NativeCalls` and `CallPlan` split `Call` along the
line between one plan's contents and who owns the frame. `Package`, `Structs` and
`Signatures` split the emitter: who gets which name, what a struct looks like,
what a function does.

Abstractions worth knowing. *Loader*: an image is missing, present without the
export, or present with it; addresses are the export's identity. *CallPlan*:
argument bytes are tokens, so "in the right place" is visible while values are
not. *NativeCalls*: escape analysis decides per call whether a variable the code
does not force to the heap is on the heap or the stack. *BlockedImports*:
namespaces are numbers in the order of their names; of several lightest edges
any may be severed (the code picks one by name). *Emission*: a package has a
types file, a handles file and `doc.go`; the work list is a set, taken in any
order. *Signatures*: a Go type is the class that marshalling tells apart; a word
is where its value comes from (`param`, `slice`, `len`, `out`, `ret`, `self`,
`null`) and for which parameter. No parameter is both reserved and a result.
*Structs*: enums and typedefs are natives; a Go type is its size and alignment or
the struct it names; nested types hold nested types at any depth; exported names do not
collide. What C and the Go compiler make of a list of members (`Place`) is
defined apart from the layout engine, and so is what makes a struct an HFA
(`CLeaves`). *Package*: what is inside a construct is one flag, whether it builds;
a row has its place among the rows of its name, of which the last one that projects
stays where the IR is a map (`Ingested`);
names are a few that get in each other's way, `Export` joins two of them, and a
namespace's rows are taken in the sorted order of their names; only diagnostics
that report a loss are kept; `IsExternal` is false, as the function is in this
repository. *MetadataUpdate*: a version's content is
its number.

## 3. Runs

| Run | Question | Bounds, and why they are enough |
|---|---|---|
| `loader` | Do all goroutines get one verdict, about the mapped image, found once, without a racy read? Is `Loader` an implementation of `ExportTable`? Does every `Find` and `Addr` return? | 2 goroutines (a winner and a waiter or a late fast path), 2 exports of one module (they share its Once: one waits for the other's export, or for its module); any servicing of the file. The theorems drop the bounds. |
| `call_plan` | Placement, order, alignment, complete returns, stack area | all sequences of up to 5 of 8 shapes on both architectures (an HFA of four and one of three doubles exhaust the 8 V registers within 3), up to 9 of the three shapes 16-byte alignment matters for (X registers run out and the stack goes on), all return shapes of 1 to 18 bytes and all HFAs, x64 call sites up to the generator's limit of 45 words |
| `call_overflow` | Does the same limit protect arm64? (no) | HFAs of four doubles |
| `frames` | Exclusive frames, fresh frames, own results, writes that reach Go (but on which route?), ends | 2 goroutines, 3 calls (nesting depth 3, or two goroutines at once), 3 frames, every route the generator emits, the unguarded one included, one move of each stack in a callback: a word can be made before and after it |
| `cycles` | Acyclic rest, only cycles severed, embeddings kept, end | all graphs over 3 namespaces with no, one and 1001 references per edge, and embeddings of one or two interfaces: two-cycles that share a node, three-cycles, tails into a cycle, ties, references that outweigh an embedding |
| `emission` | Imports, cleanliness, hand-written files, end | 3 runs, full or filtered, over 5 metadata trees, of which one has closers of other namespaces and one flattens a typedef along a severed edge; a failure or kill at every step; a third run is what finds the traces of a second that was interrupted after a first |
| `metadata` | Does fetch tell the truth and ingest cure the cache? | 2 versions, 2 schemas, 5 commands, killed anywhere |
| `signatures` | Does the emitted function compile and pass what the callee reads? | all sequences of up to 3 buffers and counts with any index, in range or not; all of up to 2 parameters of any type with any return; taken names; 43 to 46 words with and without `self` and a hidden result pointer. A pair and a third party is what a wrong pairing needs; shaping looks at one parameter at a time |
| `structs` | Is Go's layout C's on both architectures, is every name defined, is nothing skipped without need, is a by-value struct described as it is passed? | 24,000 trees of three structs in two namespaces (a difference or a skip must pass through a container to a container), a thousand of them with a nested type in a nested type beside another, two hundred with two in one of which each may fail; 600 trees of floats with up to five leaves (one more than an HFA has), a chain of ten, at the limit of the rounds, types without a size |
| `nested_dangling` | Is every nested type that is named declared? (no) | the trees with two nested types in a third |
| `hfa_unions` | Is a union of floats described by the rule? (no) | unions of one to three members |
| `package` | Does every name stand for one thing, does nothing get lost in silence, are slots and closers right? | all sets of up to four of 31 rows that want the same seven names (who takes, who is refused, who gives back, who comes later), pairs of rows of one kind and name with any two others, all chains of three interfaces over two namespaces, handles with any free functions over three |

Deadlock is checked where the system never stops (the loader: callers may always
call). The other runs end when their bound is used up, or like
`ComputeBlockedImports` by returning.

**Fairness.** `Loader` and `NativeCalls`: weak fairness of each goroutine's
steps; the Go scheduler is preemptive, a `sync.Once` waiter is woken when the
mutex is released, and the kernel's loader and callees are assumed to return.
Nobody has to make a call, no file has to be serviced, and a panicking goroutine
either recovers or unwinds. `BlockedImports` and `Emission`: a single-threaded
process that is not killed goes on (weak fairness of its steps; `Crash` is never
forced).

### What the runs found

The three violation runs each show a sentence of the repository that the code
does not keep; `PROJECT.json` quotes the sentences.

* `call_overflow`: the generator bounds argument *words*; on arm64 one HFA
  argument takes up to four stack words, so a site within the limit can make
  `Call` panic. The x64 half of the claim holds exactly (`call_plan`).
* `nested_dangling`: a nested type that fails returns the types nested in it, and
  counts as emitted; its struct then names a type that is not declared.
* `hfa_unions`: the census adds up the leaves of all members of a union, so a
  union of two floats has one element too many, and four floats overlaid with a
  struct of the same four have eight and lose the V registers. Latent: no such
  union is passed by value today.

Three gaps have no run of their own: each is one step of the model once the metadata
for it is there. The properties except them, in their formulas and comments:

* *Silent losses.* "Everything the metadata declares is emitted unless a diagnostic
  below says otherwise" (`docs/COVERAGE.md:7-8`) does not hold, and `NoSilentLoss` is
  about what the generator is given. Enums, typedefs, delegates and interfaces are keyed
  by name (`ingest.go:269-279`): of two rows of one name, as architecture variants have,
  the earlier is lost unreported. So are a function without an import, a delegate without
  an Invoke, a constant without a value, and a function after the first of its
  identifier. A typedef with a free function that is no handle, such as a pointer, gets
  neither a closer nor a diagnostic, against `handles.go:17-19` ("Everything else is
  skipped with a diagnostic"); of 153 closers COVERAGE.md accounts for 152.
* *Import cycles.* A closer of another namespace's function adds an import (`handles.go:81`)
  that the cycle breaker never weighed, even along a severed edge, and the function
  takes the handle, so its package imports the handle's. The golden tree shows the two
  importing each other, `testdata/golden/test/shapes/shapes_handles.go:8` and
  `test/other/other_functions.go:12`, although `golden_test.go:408-409` has the edge
  severed. `NoImportCycle` without `Unweighed` fails in the `emission` run (metadata
  `Closing`). Nor is that import entered in `mapper.Referenced`: a filtered run may emit
  a package without one it imports (`ImportsExist` excepts it). In the committed
  bindings every `*_handles.go` imports the runtime only.
* *Out-pointers.* Slices (`functions.go:244`) and callers' pointers (`functions.go:414`)
  reach `SyscallN` without `OutParam`, so they may point into the caller's stack, against
  `outparam.go:17-19`, and a callee that calls back before it writes may lose the write.
  `WritesReachGo` excepts this route, which is common in the committed bindings.

Also seen while modelling, none of it with the metadata in use unless it says so:

* *Metadata.* With `--version` or `--force` (`FetchFlags`) and a kill,
  `FetchTellsTheTruth` fails, as the check for "up to date" never looks into the
  winmd. A fetch killed between the winmd and its record makes the next ingest
  stamp the previous version on the new IR. With a version that drops a namespace
  (`NamespacesOf`), `CacheIsWinmd` fails, as ingest never removes a file.
* *Emission.* `mapper.Referenced` still holds what the dry run over all structs
  marked, so a filtered run emits more than the closure of its filter (with any
  metadata). A file truncated by a killed run has no generated header and is never
  pruned; `SelfCleaning` therefore speaks of files that have one. Where
  the mapper flattens a typedef of a severed namespace
  (`mapper.go:164-167`, "a raw shape that needs no import") the shape may be a
  type of a third namespace: it is imported, and that edge was never counted
  (`Unweighed`). With A naming a typedef of B whose shape is C's, B severed from A and
  C naming A, there is a cycle for this reason too. `NoImportCycle` is what holds:
  no cycle without such an import or a closer's.
* *Cycles.* A namespace that embeds one interface of another loses the embedding when
  every other import of the cycle weighs as much, from a thousand references on, which
  `cycles.go` allows and large namespaces reach; `EmbeddingsKept` says what the bonus does buy.
* *Structs.* A struct that can be emitted from one architecture's variant only
  is not a skipped type, and on the other architecture references to it name
  nothing; `NothingUndefined` leaves this case out. A chain of eleven structs
  that fall one after the other exceeds the ten rounds (`SkippedExactly`).
  The dry run builds no typedefs, so a struct that loses its name to a typedef
  is not a skipped type either, and it builds no enums. The descriptor of a
  struct that differs per architecture has the amd64 layout.
* *Package.* Functions are taken in byte order, and 'F' sorts before 'f': `FooW`
  can take the bare name `Foo` before a function `foo` comes, which is reported as
  a duplicate. Nested types claim their names as values do, so a member of an enum
  can cost a struct its emission. Of two types that export to one identifier the
  loser is reported, but references to it name the winner. The callee of a closer
  may not be declared (a type or a constant took its name, it exists on x86 only,
  or it lost its -W); `ClosersCallFunctions` lists these cases. A method the ingester
  cannot decode shifts the slots after it (it is reported, `SlotsMatchWinmd` says
  so). The variables that hold an interface's call specs (`interfaces.go:115-118`)
  are not claimed.
* *Ratchet.* Diagnostics of the ingester reach no baseline (`main.go:122-127`
  prints them with `-v`), texts without a namespace merge under `normalize`, and
  the files are written before the comparison fails (`main.go:176-190`).
* *Signatures.* `retValElement` does not look at `IsReserved`: a reserved result
  would be elevated and not NULL.

## 4. Proofs

Each run checks its properties on an instance; the theorems say them for every
value of the constants: any number of goroutines, arguments, namespaces, rows or
runs. Each proof module has one invariant, `IInv` (with what the constants say of
a state, `Inv`; with an account of every row, `Account`; `FrameInv` for `CallPlan`), one lemma per action or group of
actions, and under it one step per conjunct the action can disturb. TLC checked
every `IInv` on its run's instance before it was proved.

| Module | Theorems | Hypotheses beyond the named ASSUMEs |
|---|---|---|
| `LoaderProofs` | `TypeCorrect`, `InvariantCorrect`, `SameAnswerCorrect`, `AnswerMatchesImageCorrect`, `AtMostOneLookupCorrect`, `NoDataRaceCorrect`, `ResultsAreFinalCorrect` (an action property), `Implements` (the refinement of `ExportTable`) | none; finiteness is not assumed |
| `CallPlanProofs` | `FrameCorrect`, `TypeCorrect`, `PlacedWholeCorrect`, `NoBackfillCorrect` | none |
| | `CallNeverPanicsCorrect` | on arm64 no argument needs more than one stack word (`OneStackWord`) |
| | `ReturnCompleteCorrect` | on arm64 a returned HFA has the size its elements add up to (`ExactHFAs`) |
| `NativeCallsProofs` | `TypeCorrect`, `InvariantCorrect`, `FrameExclusiveCorrect`, `CalleeSeesItsCallCorrect`, `OwnResultCorrect`, `WritesReachGoCorrect` | none |
| `BlockedImportsProofs` | `TypeCorrect`, `InvariantCorrect`, `ResultAcyclicCorrect`, `OnlyCyclesSeveredCorrect`, `EmbeddingsKeptCorrect`, `PromiseKeptCorrect` | none; references and embeddings are any numbers |
| `CommandsProofs` (Emission) | `TypeCorrect`, `InvariantCorrect`, `SelfCleaningCorrect`, `ImportsExistCorrect`, `NoImportCycleCorrect`, `OnlyItsOwnCorrect` (an action property) | none |
| `CommandsProofs` (MetadataUpdate) | `UpdateTypeCorrect` | none |
| | `FetchTellsTheTruthCorrect` | `fetch-metadata` is run without flags |
| | `CacheIsWinmdCorrect` | no `--version`; no version drops a namespace |
| `SignaturesProofs` | `TypeCorrect`, `InvariantCorrect`, `NamesDeclaredCorrect`, `WordsAreTheirsCorrect`, `DispatchCarriesCorrect`, `ReturnKeptCorrect` | none |
| `StructsProofs` | `TypeCorrect`, `InvariantCorrect`, `GoMatchesCCorrect`, `DescriptorIsABICorrect` | none |
| | `NothingUndefinedCorrect` | no chain of embedded structs is longer than the rounds (`Shallow`) |
| | `SkippedExactlyCorrect` | `Shallow`, and nothing that is embedded is empty (`Filled`) |
| `PackageProofs` | `TypeCorrect`, `InvariantCorrect`, `AccountCorrect`, `DeclaredOnceCorrect`, `NoSilentLossCorrect`, `SlotsMatchWinmdCorrect` | none |
| | `NamesKeptCorrect`, `ClosersCallFunctionsCorrect` | what function names of a namespace have to be like (`FunctionNames`) |

`CommandsProofs` extends two models, so `MetadataUpdate` calls its parts
`UpdateInit`, `UpdateNext`, `UpdateSpec`.

### The hypotheses

Where a property needs something the code does not enforce, the theorem says so,
and section 3 says what happens without it. `OneStackWord` is what tells the
scalar, pointer and small-composite call sites from those of `call_overflow`, whose
HFAs of four doubles do make `Call` panic. `ExactHFAs` holds of every census but
that of a union (`hfa_unions`). The workflow's
check runs `fetch-metadata` without flags; its update names with `--version` the
version the check found, which is the flag's harmless use.
`FunctionNames`: functions of a namespace that export to one identifier are
one function in several variants, and an -W variant sorts after the function that has
the bare name. It holds of the 18,301 functions in the committed bindings, and TLC
evaluates it for the rows of the `package` run.
`Shallow`: structs embed each other by value at most ten deep, as many times as
`computeSkippedTypes` goes over them; in the committed bindings (16,600 structs) it is
five. `Filled`: an empty struct that is embedded has a size of zero, which
`blob` cannot represent, so the container of a severed one is skipped with it; of the 2,556
empty structs in the bindings none is embedded by value. TLC evaluates `Filled` for the
registries of the `structs` run, whose longest chain has the ten structs `Shallow` allows.

Where a property has an exception instead, it is in the formula and its comment:
`WritesReachGo` (a converted pointer whose stack has moved), `NoImportCycle` (`Unweighed`
imports), `ImportsExist` (a closer's import in a filtered run), `EmbeddingsKept` (cycles
that are as costly), `NothingUndefined` (nested types that hold others), `NoSilentLoss`
(what ingest drops), `ClosersCallFunctions`. Section 3 says what happens in these cases.

### The arguments

None of the properties is inductive: that nothing is wrong yet says nothing
about what the next step finds. What each invariant adds:

*Loader.* Who is where. A mutex is held exactly by the goroutine inside that
Once's body, so bodies exclude each other (`OnceInv`); before a Once is done its
fields are untouched or the holder's to write, afterwards they describe one image
and one lookup (`DllInv`, `ProcInv`); every answer given is the one the fields now
hold (`AnswerInv`).

*CallPlan.* What is not used yet. On arm64 the registers from the next one on are
untouched, no token is of an argument still to come, and a class with an argument
on the stack has no next register (`ARM64Inv`). Every `put` then either fills
registers from the next one on or appends to the stack (`Grown`), and a file that
grew by one argument holds the others where they were (`GrownHolds`); that it is
behind them gives the order, and `CompositeGrows` its alignment. On x64 the
invariant gives every word in closed form (`AMD64Inv`), from which
`AMD64Places` reads off the positions. For the limit on arm64, the first argument
that spills has at least three in registers before it (`SpillInv`), so 45
arguments leave at most 42 words. `ReturnInv` follows the bytes of the result from
the callee's registers or memory into the buffer, one step per size class.

*NativeCalls.* Who holds what. A call between `Get` and `Put` has a frame, no other
has the same one and the pool has not (`HoldsFrame`, `FrameExclusive`). Therefore the
plan still stands when the trampoline loads it, and the capture when the result is
read (`PlanStands`, `CaptureStands`), whatever other goroutines and nested calls did
in between. A pointee on the heap does not move, and one on a stack was converted
straight into `SyscallN`'s arguments; when it lost a write its stack has moved since the
word was made, and never moves back (`StackPointees`).

*BlockedImports.* The stack of the depth-first search is a path of
edges, the grey nodes are those on it, what a node has not looked at yet is a
subset of its targets (`StackInv`, `LookedInv`), and every finished node
has a `rank` above those of all its targets. When no cycle is found all nodes are
finished and a set of them has one of least rank, so the rest is acyclic. That step
needs least elements of a set of naturals; induction cannot be instantiated, so
`LeastNatural` derives them from the well-foundedness of `<` on `Nat`. Edges only
disappear, so a cycle found now was one before (`OnlyCyclesSevered`), and as the edge
severed is a lightest one the others of its cycle make up in references for the
interfaces they lack (`NoLighter`, `EmbeddingsKept`).
`PromiseKeptCorrect` is what `Emission`'s `Start` takes for granted: the two models
are composed by assume and guarantee.

*Emission.* What a run owes. Every file of a namespace done is written
(`FilesInv`), everything reachable from what was emitted is emitted or in the work
list (`WorkInv`), what is generated in the tree and not by this run is still there
for `Prune` to see (`TreeInv`), and it writes one file at a time (`WriterInv`). An
import that was weighed and is not severed is an edge the breaker left, so a cycle of
such imports would be one of its acyclic rest.

*Signatures.* The word and the descriptor of parameter `j` are functions of the
plans alone (`WordOf`, `DescriptorOf`). Plans are made before shaping and refer to
parameters in range (`PlansInv`); while parameter `k` is next, words, declarations
and descriptors are those of the parameters before it (`ShapedUpTo`); results put
in front move all of them by one (`ResultInv`). `self` and the hidden result pointer are
put before all others and in this order (`LeadInv`), and what is emitted through
`win32.Call` has passed the test of its words after both were added (`WithinLimit`).

*Package.* Of the rows of a name whose kind is a key of a Go map one reaches the IR
(`OneIngested`); what is said of a type is said of that row. Every declaration that the architectures now being built can see
(`Visible`) has its name claimed, and no type waits for that name; during a pass
over one architecture the same is so of the other one's declarations and the copies
in `saved` (`ClaimsInv`). So a clash arises neither within a pass nor between the
two, although they share no names. `Accounted` says of each row a stage is through with
(`Took`) what became of it: it is declared, it is in the diagnostics, or it was
turned down, and then there is a `Rival` that still has the name (`WaitInv`,
`ReasonInv`). Names are given back between the passes, so a rival has to be
found among what is declared at the end. The members of an enum are accounted for
together (`MembersDeclared`): all are declared, or the enum is reported. `OriginInv` traces every name of a function to
the row that took it; that two functions do not take each other's follows from
the order they come in. For the slots `MethodsInv` fixes those of each emitted
interface, which the code counts along the base chain (`VtableStartSlot`) and the winmd
along the set of ancestors (`Ancestors`). The two agree by induction on the number of
keys the code has not met yet.

*Structs.* The two fixpoints leave structs that either are emitted per architecture or
look the same on both (`ArchInv`, `SharedLayout`). Each round settles the structs one
level deeper: embedded no deeper than the rounds, a struct is skipped or can be
emitted (`SettledInv`, with `Depth`), hence the dry run over all namespaces predicts the
emission that follows (`DryRunCorrect`). What is declared of a struct is closed under
the names it uses as its nested types are built from the inside, by induction along
their numbers (`SubsClosed`); one that fails without leaving others behind fails what
holds it (`NestedDeclared`). That Go's layout is C's is in three steps, each
one by induction along the order of definition. The engine places members by rounding
up, C by the least multiple; they agree on every list of members (`EngineIsC`, `CIsEngine`).
Packing only matters where `sameLayout` sees it. What is emitted is
either a blob of the size and the alignment that C has, or fields that Go places as
the engine did (`GoIsEngine`).

The engine's census (`f32`, `f64`, `other`) is a number, the ARM64 rule is about the set
of scalars at their offsets. In a struct without unions each scalar is counted once,
since what is placed one behind the other has no offset in common (`Pieces`); with unions
a class that occurs has a count above zero, which is enough where a struct holds an
integer, as it is never an HFA. `Counted` says both, `RowCounted` has it for arrays, and
`CensusCounts` for all structs, by induction along the order of definition. The
descriptors are made with the amd64 layout: outside `archStructs` scalars (`SharedLeaves`)
and census are those of arm64. A struct without a layout has no descriptor
(`Passed`), so the depth of embedding does not matter here.

*MetadataUpdate.* Without flags a fetch wants the latest version (`LatestOnly`), and
the record of the latest version stands only beside its winmd: the record is written
second, and a fetch about to replace the winmd has not found its target on record
(`FetchInv`). An ingest has written what it has taken off its list, and any other
file has the name of a namespace that the winmd has (`IngestInv`), so a full one
overwrites it.

### Only model-checked

Liveness: `EveryCallReturns`, `EveryCallEnds`, `Terminates`, `RunEnds`. The prover
has no rules for fairness. Every invariant and action property of a passing run is a
theorem.

Induction over data cannot be cited from the library, whose induction theorems take an
operator as a parameter. Where it is needed here (the layouts of `Structs`, the slots of
`Package`, the ranks of `BlockedImports`) a lemma takes the set of counterexamples, a
concrete set of naturals, and its least element contradicts the step; `LeastNatural` and
its like derive that from the well-foundedness of `<`. Recursive functions are unfolded
once by a lemma on the domain they are defined over (`Recursion` in `StructsProofs`).

## 5. Plan

Modelled first: what every generated function runs through (`Loader`, `Call`),
then what decides whether the output compiles (cycles, emission), its input, and
the constructs of a package (`Structs`, `Signatures`, `Package`). None of the modules
declares a RECURSIVE operator. Then the proofs, in the same order. The plan is
carried out; what was left out on the way is in section 6.

## 6. Not modelled, and why

Rendering, identifier and literal formatting (text); decoding of winmd tables (a
library, and data without control); validate, diff and coverage (they change no
state); the ABI tests (text of generated tests); `IUnknown` (one vtable call per
method, reference counts are the callee's) and the error and string conversions
(functions of one value); examples and acceptance tests.

The ratchet compares two lists of texts. That it notices a new loss holds by the
definition of a set difference; what could be wrong is its premise, that every
loss leaves a text. `NoSilentLoss` of `Package` proves it of what the generator is
given; it is not so of everything the winmd declares (section 3, *Silent losses*).

The generated packages are 99 % of the lines of the repository's implementation,
1.16 of 1.18 million. They hold no logic of their own: a function, a method, a
struct and a closer each have one of a few shapes, and these are modelled where
they are decided, at the emitter (`Signatures`, `Structs`, `Package`), for all
packages at once. What the definitions map to is therefore a small share of all
lines, and 3,600 of the 8,000 non-test lines of `cmd`, `internal` and
`bindings/runtime`, comments and declarations included.

Of *Structs*, a pointer to a nested type is a native, so only nested types held by value
are named; and Go's padding after a trailing field of size zero is not modelled, an
embedded empty struct being the only way to such a field (`Filled`).

Concurrency inside Windows is reduced to what the code relies on: a mapped image
does not change, a callee returns its value as the ABI says.

## 7. Running

    tlc -workers 2 -config MCLoader.cfg MCLoader     # a run: its .cfg, its module
    tlapm LoaderProofs.tla                           # a proof module

`tlapm StructsProofs.tla` takes about ten minutes, `PackageProofs` and `CallPlanProofs` a few,
the other proof modules less.
