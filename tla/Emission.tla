------------------------------ MODULE Emission ------------------------------
(***************************************************************************)
(* "generate bindings": internal/codegen/emit/raw/generator.go over the     *)
(* metadata tree cmd/generate ingest left, with the references that         *)
(* internal/codegen/typemap/mapper.go qualifies.                            *)
(*                                                                          *)
(* EmitAll works through a list of namespaces, writes each one's package    *)
(* file by file, chases the namespaces it referenced, and at the end prunes *)
(* the generated files it did not write. Runs follow one another on the     *)
(* same output tree, full or filtered, over metadata that changes between   *)
(* them; a run may fail or be killed at any point.                          *)
(***************************************************************************)
EXTENDS Naturals, FiniteSets, ImportGraph

CONSTANTS
  Namespaces,   \* every namespace some winmd has
  Metadatas,    \* the metadata trees the run tries, each a function from the
                \* namespaces it has to what they declare
  Filters,      \* the values of --namespace the run tries; {} is "all"
  MaxRuns,      \* bound: generator runs
  None          \* no namespace, no file

\* What a namespace declares, as far as emission tells apart: the namespaces
\* that its structs, its other constructs and the underlying shapes of its
\* typedefs name, those it names by a typedef with such a shape, the namespace
\* whose function frees one of its handles and the one that declares what this
\* function takes, and the files with a body.
NamespaceMeta ==
  [structs : SUBSET Namespaces, others : SUBSET Namespaces, shapes : SUBSET Namespaces,
   typedefs : SUBSET Namespaces, freeFunc : Namespaces \cup {None},
   freeParam : Namespaces \cup {None}, bodies : SUBSET {"types", "handles"}]

ASSUME EmissionAssumption ==
  /\ IsFiniteSet(Namespaces) /\ None \notin Namespaces
  /\ \A m \in Metadatas : DOMAIN m \subseteq Namespaces /\ m \in [DOMAIN m -> NamespaceMeta]
  /\ \A m \in Metadatas : \A n \in DOMAIN m :
       m[n].freeFunc # None => m[n].freeFunc \in DOMAIN m /\ "handles" \in m[n].bodies
  /\ Filters \subseteq SUBSET Namespaces
  /\ MaxRuns \in Nat

\* A package's files, in the order emitNamespace writes them; "user" is a
\* hand-written file beside them.
Order == [types |-> 1, handles |-> 2, doc |-> 3]
Files == Namespaces \X {"types", "handles", "doc", "user"}
Contents == {"absent", "generated", "empty", "hand"}

\* Every namespace that d, the declarations of one, names.
Named(d) == d.structs \cup d.others \cup d.shapes \cup d.typedefs

VARIABLES
  metadata,     \* metadata/win32, as LoadAll reads it
  tree,         \* bindings/win32: the content of every file
  phase,        \* "idle", "pick", "write", "prune"
  outcome,      \* of the last run: "none", "ok", "error", "killed"
  filter,       \* EmitAll's argument
  blocked,      \* mapper.Blocked
  referenced,   \* mapper.Referenced
  pending, emitted, writtenFiles,
  current,      \* the namespace emitNamespace is at ...
  todo,         \* ... and its files still to be written
  opened,       \* the file os.WriteFile has truncated and not yet filled
  runs

runVars == <<filter, blocked, referenced, pending, emitted, writtenFiles, current, todo, opened>>
vars == <<metadata, tree, phase, outcome, runVars, runs>>

Loaded == DOMAIN metadata

\* Namespaces WalkNamespaceRefs sees n name, and the graph they form.
Refs(n) == Named(metadata[n]) \ {n}
Edges == {e \in Loaded \X Namespaces : e[2] \in Refs(e[1])}

\* What emitting n asks the mapper for: what n names, and, converted by a closer,
\* what the free function takes.
Asked(n) == (Refs(n) \cup {metadata[n].freeParam}) \ {n, None}

\* Mutant of Qualified: severed edges are not looked at.
Qualified_IgnoresBlocked(n, targets, B) == targets \ {n}

\* What resolving n's references into targets qualifies: a reference along a
\* severed edge is flattened, a typedef to its underlying shape, which is then
\* resolved in n.
Qualified(n, targets, B) ==
  LET flattened == {m \in targets \cap metadata[n].typedefs : <<n, m>> \in B /\ m \in Loaded}
      shapes == UNION {metadata[m].shapes : m \in flattened}
  IN  {m \in (targets \cup shapes) \ {n} : <<n, m>> \notin B}

\* The imports of the package emitted for n: what the mapper qualified, and the
\* package of the function a Close helper calls, which the mapper is not asked for.
Closer(n) == {metadata[n].freeFunc} \ {n, None}
Imports(n) == Qualified(n, Asked(n), blocked) \cup Closer(n)

\* writeFile writes no file for an empty body; doc.go is always written.
Kinds(n) == metadata[n].bodies \cup {"doc"}

Init ==
  /\ metadata \in Metadatas
  /\ tree = [f \in Files |-> IF f[2] = "user" THEN "hand" ELSE "absent"]
  /\ phase = "idle" /\ outcome = "none" /\ runs = 0
  /\ filter = {} /\ blocked = {} /\ referenced = {} /\ pending = {} /\ emitted = {}
  /\ writtenFiles = {} /\ current = None /\ todo = {} /\ opened = None

\* Between runs the metadata is ingested anew.
Ingest ==
  /\ phase = "idle" /\ runs < MaxRuns
  /\ metadata' \in Metadatas \ {metadata}
  /\ outcome' = "none"
  /\ UNCHANGED <<tree, phase, runVars, runs>>

\* New and EmitAll up to the loop: the imports to sever (what cycles.go
\* promises), the dry run over the structs of all that is loaded, the work list.
Start(F) ==
  /\ phase = "idle" /\ runs < MaxRuns
  /\ runs' = runs + 1 /\ phase' = "pick" /\ outcome' = "none"
  /\ filter' = F
  /\ \E B \in SUBSET Edges :
       /\ Breaks(Namespaces, Edges, B)
       /\ blocked' = B
       /\ referenced' = UNION {Qualified(n, metadata[n].structs, B) : n \in Loaded}
  /\ pending' = IF F = {} THEN Loaded ELSE F
  /\ emitted' = {} /\ writtenFiles' = {} /\ current' = None /\ todo' = {} /\ opened' = None
  /\ UNCHANGED <<metadata, tree>>

\* The run is over. What it left in memory is of no use after an error.
End(result) ==
  /\ phase' = "idle" /\ outcome' = result
  /\ IF result = "ok" THEN UNCHANGED runVars
     ELSE /\ filter' = {} /\ blocked' = {} /\ referenced' = {} /\ pending' = {}
          /\ emitted' = {} /\ writtenFiles' = {} /\ current' = None /\ todo' = {}
          /\ opened' = None
  /\ UNCHANGED <<metadata, runs>>

\* The loop takes a namespace off the list. The list is sorted and may name one
\* twice (the second time it is skipped); here it is a set, in any order.
Pick(n) ==
  /\ phase = "pick" /\ n \in pending /\ n \in Loaded
  /\ phase' = "write"
  /\ pending' = pending \ {n} /\ emitted' = emitted \cup {n}
  /\ current' = n /\ todo' = Kinds(n)
  /\ UNCHANGED <<metadata, tree, outcome, filter, blocked, referenced, writtenFiles, opened, runs>>

NotLoaded(n) ==
  /\ phase = "pick" /\ n \in pending /\ n \notin Loaded
  /\ End("error") /\ UNCHANGED tree

NextFile == <<current, CHOOSE k \in todo : \A j \in todo : Order[k] <= Order[j]>>

\* writeFile: recorded, assembled; os.WriteFile then truncates the file ...
OpenFile ==
  /\ phase = "write" /\ todo # {} /\ opened = None
  /\ writtenFiles' = writtenFiles \cup {NextFile}
  /\ tree' = [tree EXCEPT ![NextFile] = "empty"]
  /\ opened' = NextFile
  /\ UNCHANGED <<metadata, phase, outcome, filter, blocked, referenced, pending, emitted,
                 current, todo, runs>>

\* ... unless rendering or gofmt failed, or the directory could not be made ...
AssembleFails ==
  /\ phase = "write" /\ todo # {} /\ opened = None
  /\ End("error") /\ UNCHANGED tree

\* ... and writes it,
WriteContent ==
  /\ opened # None
  /\ tree' = [tree EXCEPT ![opened] = "generated"]
  /\ todo' = todo \ {opened[2]} /\ opened' = None
  /\ UNCHANGED <<metadata, phase, outcome, filter, blocked, referenced, pending, emitted,
                 writtenFiles, current, runs>>

\* or cannot: the disk is full.
WriteFails ==
  /\ opened # None
  /\ End("error") /\ UNCHANGED tree

\* Mutants of Discover: references are not chased; what was emitted is queued
\* again.
Discover_NoChase ==
  /\ phase = "write" /\ todo = {}
  /\ phase' = "pick" /\ current' = None
  /\ UNCHANGED <<metadata, tree, outcome, filter, blocked, referenced, pending, emitted,
                 writtenFiles, todo, opened, runs>>

Discover_Again ==
  /\ phase = "write" /\ todo = {}
  /\ referenced' = referenced \cup Qualified(current, Asked(current), blocked)
  /\ pending' = pending \cup referenced'
  /\ phase' = "pick" /\ current' = None
  /\ UNCHANGED <<metadata, tree, outcome, filter, blocked, emitted, writtenFiles, todo, opened,
                 runs>>

\* emitNamespace returned: chase what has been referenced so far.
Discover ==
  /\ phase = "write" /\ todo = {}
  /\ referenced' = referenced \cup Qualified(current, Asked(current), blocked)
  /\ pending' = pending \cup (referenced' \ emitted)
  /\ phase' = "pick" /\ current' = None
  /\ UNCHANGED <<metadata, tree, outcome, filter, blocked, emitted, writtenFiles, todo, opened,
                 runs>>

StartPrune ==
  /\ phase = "pick" /\ pending = {}
  /\ phase' = "prune"
  /\ UNCHANGED <<metadata, tree, outcome, runVars, runs>>

\* Mutants of Stale: the sweep always limited to the packages written; the
\* header not looked at.
Stale_Local(f) ==
  f \notin writtenFiles /\ f[1] \in {g[1] : g \in writtenFiles} /\ tree[f] = "generated"

Stale_AnyFile(f) ==
  /\ f \notin writtenFiles
  /\ filter = {} \/ f[1] \in {g[1] : g \in writtenFiles}
  /\ tree[f] # "absent"

\* Only what carries the generated header is deleted, by a filtered run only in
\* packages it wrote to.
Stale(f) ==
  /\ f \notin writtenFiles
  /\ filter = {} \/ f[1] \in {g[1] : g \in writtenFiles}
  /\ tree[f] = "generated"

Prune(f) ==
  /\ phase = "prune" /\ Stale(f)
  /\ tree' = [tree EXCEPT ![f] = "absent"]
  /\ UNCHANGED <<metadata, phase, outcome, runVars, runs>>

PruneFails ==
  /\ phase = "prune" /\ \E f \in Files : Stale(f)
  /\ End("error") /\ UNCHANGED tree

Finish ==
  /\ phase = "prune" /\ ~\E f \in Files : Stale(f)
  /\ End("ok") /\ UNCHANGED tree

\* External: the process is killed.
Crash ==
  /\ phase # "idle"
  /\ End("killed") /\ UNCHANGED tree

Run ==
  \/ \E n \in Namespaces : Pick(n) \/ NotLoaded(n)
  \/ OpenFile \/ AssembleFails \/ WriteContent \/ WriteFails \/ Discover
  \/ StartPrune \/ (\E f \in Files : Prune(f)) \/ PruneFails \/ Finish

Next == Ingest \/ (\E F \in Filters : Start(F)) \/ Run \/ Crash

Spec == Init /\ [][Next]_vars

\* A process that is not killed goes on.
FairSpec == Spec /\ WF_vars(Run)

-----------------------------------------------------------------------------
(* Properties *)

Succeeded == phase = "idle" /\ outcome = "ok"

\* The tree holds only files the emitters can write, and the run's work list
\* only namespaces of the registry.
TypeOK ==
  /\ metadata \in Metadatas
  /\ tree \in [Files -> Contents]
  /\ phase \in {"idle", "pick", "write", "prune"}
  /\ outcome \in {"none", "ok", "error", "killed"}
  /\ filter \subseteq Namespaces /\ blocked \subseteq Namespaces \X Namespaces
  /\ referenced \subseteq Namespaces /\ pending \subseteq Namespaces
  /\ emitted \subseteq Namespaces
  /\ writtenFiles \subseteq Files
  /\ current \in Namespaces \cup {None} /\ todo \subseteq {"types", "handles", "doc"}
  /\ opened \in Files \cup {None}
  /\ runs \in 0..MaxRuns

\* A hand-written file next to generated ones survives every run, the failed
\* and the killed ones too (pruneStale: "never touch hand-written files").
HandWrittenKept == \A n \in Namespaces : tree'[<<n, "user">>] = tree[<<n, "user">>]

\* A filtered run deletes nothing outside the packages it emitted.
FilteredPruneLocal ==
  \A f \in Files : filter # {} /\ tree'[f] = "absent" => tree[f] = "absent" \/ f[1] \in emitted

\* No step of any sequence of runs deletes or overwrites what is not the run's own.
OnlyItsOwn == [][HandWrittenKept /\ FilteredPruneLocal]_vars

\* The output is self-cleaning: whatever failed or killed runs over other
\* metadata left behind, after a full run that succeeded the generated files of
\* the tree are those of the current metadata (runBindings: "files from an
\* earlier run that this run does not rewrite are pruned"; of a file that a
\* killed run had truncated nobody can tell who made it).
SelfCleaning ==
  Succeeded /\ filter = {} =>
    {f \in Files : tree[f] = "generated"} =
      {f \in Files : f[1] \in Loaded /\ f[2] \in metadata[f[1]].bodies \cup {"doc"}}

\* "Generated packages must always compile", part one: when a run succeeds every
\* package it emitted finds the packages it imports, all their files written; of
\* a filtered run only those that the mapper recorded (mapper.Referenced), which
\* the package a closer calls is not.
ImportsExist ==
  Succeeded => \A n \in emitted :
    \A m \in Qualified(n, Asked(n), blocked) \cup (IF filter = {} THEN Closer(n) ELSE {}) :
      m \in Loaded /\ \A k \in {"doc"} \cup metadata[m].bodies : tree[<<m, k>>] = "generated"

\* Imports that ComputeBlockedImports neither weighed nor left: made by a closer,
\* or by the shape of a typedef flattened along a severed edge.
Unweighed ==
  {e \in Loaded \X Namespaces :
     \/ e[2] \in {metadata[e[1]].freeFunc, metadata[e[1]].freeParam}
     \/ \E t \in metadata[e[1]].typedefs \cap Loaded :
          <<e[1], t>> \in blocked /\ e[2] \in metadata[t].shapes} \ (Edges \ blocked)

AllImports == {e \in emitted \X Namespaces : e[2] \in Imports(e[1])}

\* Part two: every import cycle among the packages a run has emitted goes through
\* an import that was not weighed; the mapper qualifies nothing else along a
\* severed edge, flattened or not. Through the others there are cycles: with the
\* metadata Closing of the run, as in the golden tree of the emitter's tests.
NoImportCycle == Succeeded => Acyclic(Namespaces, AllImports \ Unweighed)

\* EmitAll's work list runs empty: every run ends.
RunEnds == phase # "idle" ~> phase = "idle"

(* The inductive invariant of a run, by what each part is about.             *)

\* While a run goes on, and after one that succeeded until the next.
Active == phase # "idle" \/ outcome = "ok"

\* Nothing is open between namespaces; the file that is open is the current
\* namespace's and still to be written.
WriterInv ==
  /\ phase # "write" => current = None /\ todo = {} /\ opened = None
  /\ phase = "write" =>
       /\ current \in emitted /\ todo \subseteq Kinds(current)
       /\ opened # None => opened \in ({current} \X todo) \cap writtenFiles

\* writtenFiles is what was emitted, up to the files still to be written.
FilesInv ==
  Active =>
    /\ emitted \subseteq Loaded
    /\ \A f \in writtenFiles : f[1] \in emitted /\ f[2] \in Kinds(f[1])
    /\ \A n \in emitted : \A k \in Kinds(n) :
         \/ n = current /\ k \in todo
         \/ <<n, k>> \in writtenFiles /\ tree[<<n, k>>] = "generated"

\* The work list: everything when nothing is filtered, and whatever an emitted
\* namespace names.
WorkInv ==
  Active =>
    /\ filter = {} => Loaded \subseteq pending \cup emitted
    /\ phase \in {"idle", "prune"} => pending = {}
    /\ \A n \in emitted : n # current => Qualified(n, Asked(n), blocked) \subseteq pending \cup emitted

\* The sweep leaves hand-written files, and after it no foreign generated ones.
TreeInv ==
  /\ \A n \in Namespaces : tree[<<n, "user">>] = "hand"
  /\ Succeeded /\ filter = {} =>
       \A f \in Files : tree[f] = "generated" => f \in writtenFiles

IInv ==
  /\ TypeOK /\ WriterInv /\ FilesInv /\ WorkInv /\ TreeInv
  /\ Active => Acyclic(Namespaces, Edges \ blocked)
=============================================================================
