--------------------------- MODULE MetadataUpdate ---------------------------
(***************************************************************************)
(* From NuGet to the IR cache: cmd/generate's fetch-metadata and ingest     *)
(* commands and internal/win32meta/io.go.                                   *)
(*                                                                          *)
(* fetch-metadata replaces metadata/winmd/Windows.Win32.winmd and then the  *)
(* PROVENANCE.json beside it; ingest projects the winmd into one            *)
(* metadata/win32/<namespace>.w32meta.json per namespace; bindings, validate*)
(* and diff load every file of that directory. New versions are published,  *)
(* the tool itself is upgraded (with the schema of its IR), and a command   *)
(* may fail or be killed between any two writes, or within one.             *)
(***************************************************************************)
EXTENDS Integers, FiniteSets

CONSTANTS
  Versions,       \* 1..k: versions of the metadata package, in publishing order
  IRNamespaces,   \* every namespace some version has
  NamespacesOf,   \* NamespacesOf[v]: the namespaces of version v
  FetchFlags,     \* the flags fetch-metadata may be given: "version", "force"
  Killable,       \* TRUE when a command may be killed
  MaxSchema,      \* bound: upgrades of the tool
  MaxCommands     \* bound: commands run

ASSUME UpdateAssumption ==
  /\ Versions \subseteq Nat \ {0} /\ 1 \in Versions
  /\ NamespacesOf \in [Versions -> SUBSET IRNamespaces]
  /\ FetchFlags \subseteq {"version", "force"} /\ Killable \in BOOLEAN
  /\ MaxSchema \in Nat \ {0} /\ MaxCommands \in Nat

\* A file that is not there, and one that was truncated and not written.
Absent == 0
Torn == -1
NoFile == [state |-> "absent", content |-> 0, stamp |-> 0, schema |-> 0]
TornFile == [NoFile EXCEPT !.state = "torn"]
\* The IR of a namespace as version v has it, with the winmd_version and
\* schema_version that are written into it.
IRFile(v, stamp, s) == [state |-> "ok", content |-> v, stamp |-> stamp, schema |-> s]

VARIABLES
  latest,         \* the newest version on NuGet
  schema,         \* CurrentSchemaVersion of the tool in use
  winmd,          \* the version Windows.Win32.winmd holds
  provenance,     \* the version PROVENANCE.json records for it
  cache,          \* metadata/win32, per namespace
  pc,             \* the command that runs, and where it is
  target,         \* fetch-metadata: the version it wants
  only, unwritten, \* ingest: --namespace, and the files it still has to write
  report,         \* what the last command said
  commands

updateVars == <<latest, schema, winmd, provenance, cache, pc, target, only, unwritten, report, commands>>

PCs == {"idle", "check", "download", "winmd", "provenance", "recording", "open", "ir"}

UpdateInit ==
  /\ latest = 1 /\ schema = 1
  /\ winmd = Absent /\ provenance = Absent
  /\ cache = [n \in IRNamespaces |-> NoFile]
  /\ pc = "idle" /\ target = 0 /\ only = {} /\ unwritten = {} /\ report = "none" /\ commands = 0

\* External: a version is published; the tool is upgraded to a new IR schema.
Publish ==
  /\ pc = "idle" /\ latest + 1 \in Versions
  /\ latest' = latest + 1
  /\ UNCHANGED <<schema, winmd, provenance, cache, pc, target, only, unwritten, report, commands>>

UpgradeTool ==
  /\ pc = "idle" /\ schema < MaxSchema
  /\ schema' = schema + 1
  /\ report' = "none"
  /\ UNCHANGED <<latest, winmd, provenance, cache, pc, target, only, unwritten, commands>>

RunCommand(first) ==
  /\ pc = "idle" /\ commands < MaxCommands
  /\ commands' = commands + 1 /\ report' = "none" /\ pc' = first
  /\ UNCHANGED <<latest, schema, winmd, provenance, cache, only, unwritten>>

\* The command returns; its locals are gone.
Exit(said) ==
  /\ pc' = "idle" /\ report' = said
  /\ target' = 0 /\ only' = {} /\ unwritten' = {}
  /\ UNCHANGED <<latest, schema, commands>>

\* runFetchMetadata: the version asked for, or the latest published.
Fetch(v, force) ==
  /\ v = latest \/ ("version" \in FetchFlags /\ v \in 1..latest)
  /\ force => "force" \in FetchFlags
  /\ RunCommand(IF force THEN "download" ELSE "check")
  /\ target' = v

\* Up to date when the recorded version is the target and a winmd is there.
\* An unreadable record is no record.
UpToDate == provenance = target /\ winmd # Absent

AlreadyCurrent ==
  /\ pc = "check" /\ UpToDate
  /\ pc' = "idle" /\ report' = "up-to-date"
  /\ UNCHANGED <<latest, schema, winmd, provenance, cache, target, only, unwritten, commands>>

Outdated ==
  /\ pc = "check" /\ ~UpToDate
  /\ pc' = "download"
  /\ UNCHANGED <<latest, schema, winmd, provenance, cache, target, only, unwritten, report, commands>>

\* Mutant of Download: the record is written first.
Download_RecordFirst ==
  /\ pc = "download"
  /\ winmd' = Torn /\ provenance' = target /\ pc' = "winmd"
  /\ UNCHANGED <<latest, schema, cache, target, only, unwritten, report, commands>>

\* External: NuGet serves the package, or does not (or did not say which version
\* is the latest).
Download ==
  /\ pc = "download"
  /\ winmd' = Torn /\ pc' = "winmd"
  /\ UNCHANGED <<latest, schema, provenance, cache, target, only, unwritten, report, commands>>

DownloadFails ==
  /\ pc = "download" \/ (pc = "check" /\ target = latest)
  /\ Exit("error") /\ UNCHANGED <<winmd, provenance, cache>>

\* os.WriteFile of the winmd is through; then nuget.WriteProvenance truncates
\* and writes the record.
WinmdWritten ==
  /\ pc = "winmd"
  /\ winmd' = target /\ pc' = "provenance"
  /\ UNCHANGED <<latest, schema, provenance, cache, target, only, unwritten, report, commands>>

OpenProvenance ==
  /\ pc = "provenance"
  /\ provenance' = Torn /\ pc' = "recording"
  /\ UNCHANGED <<latest, schema, winmd, cache, target, only, unwritten, report, commands>>

ProvenanceWritten ==
  /\ pc = "recording"
  /\ provenance' = target /\ pc' = "idle" /\ report' = "updated"
  /\ UNCHANGED <<latest, schema, winmd, cache, target, only, unwritten, commands>>

\* runIngest: a winmd that is missing or torn does not open.
RunIngest ==
  /\ RunCommand("open") /\ target' = 0

OpenFails ==
  /\ pc = "open" /\ winmd \in {Absent, Torn}
  /\ Exit("error") /\ UNCHANGED <<winmd, provenance, cache>>

\* With --namespace only some of the namespaces are written.
Project(names) ==
  /\ pc = "open" /\ winmd \notin {Absent, Torn}
  /\ only' = names
  /\ unwritten' = IF names = {} THEN NamespacesOf[winmd] ELSE NamespacesOf[winmd] \cap names
  /\ pc' = "ir"
  /\ UNCHANGED <<latest, schema, winmd, provenance, cache, target, report, commands>>

\* The version stamped into a file is the one the record names ("" when the
\* record cannot be read).
Stamp == IF provenance = Torn THEN Absent ELSE provenance

\* Mutant of WriteIR: a file that is there is kept.
WriteIR_KeepsExisting(n) ==
  /\ pc = "ir" /\ n \in unwritten
  /\ CASE cache[n].state = "absent" -> cache' = [cache EXCEPT ![n] = TornFile] /\ UNCHANGED unwritten
       [] cache[n].state = "ok"     -> UNCHANGED cache /\ unwritten' = unwritten \ {n}
       [] cache[n].state = "torn"   ->
            /\ cache' = [cache EXCEPT ![n] = IRFile(winmd, Stamp, schema)]
            /\ unwritten' = unwritten \ {n}
  /\ UNCHANGED <<latest, schema, winmd, provenance, pc, target, only, report, commands>>

\* win32meta.Write truncates and fills the file of one namespace.
WriteIR(n) ==
  /\ pc = "ir" /\ n \in unwritten
  /\ IF cache[n].state # "torn"
     THEN cache' = [cache EXCEPT ![n] = TornFile] /\ UNCHANGED unwritten
     ELSE /\ cache' = [cache EXCEPT ![n] = IRFile(winmd, Stamp, schema)]
          /\ unwritten' = unwritten \ {n}
  /\ UNCHANGED <<latest, schema, winmd, provenance, pc, target, only, report, commands>>

Ingested ==
  /\ pc = "ir" /\ unwritten = {}
  /\ pc' = "idle" /\ report' = IF only = {} THEN "ingested" ELSE "filtered"
  /\ UNCHANGED <<latest, schema, winmd, provenance, cache, target, only, unwritten, commands>>

\* External: the process is killed, or a write fails.
Kill ==
  /\ Killable /\ pc # "idle"
  /\ Exit("killed") /\ UNCHANGED <<winmd, provenance, cache>>

\* win32meta.Read of one file, ReadAll of the directory.
Readable(file) == file.state = "ok" /\ file.schema = schema
ReadAll ==
  LET files == {n \in IRNamespaces : cache[n].state # "absent"} IN
  IF \A n \in files : Readable(cache[n]) THEN files ELSE {}

UpdateNext ==
  \/ Publish \/ UpgradeTool \/ Kill
  \/ \E v \in Versions, force \in BOOLEAN : Fetch(v, force)
  \/ AlreadyCurrent \/ Outdated \/ Download \/ DownloadFails
  \/ WinmdWritten \/ OpenProvenance \/ ProvenanceWritten
  \/ RunIngest \/ OpenFails \/ Ingested
  \/ \E names \in SUBSET IRNamespaces : Project(names)
  \/ \E n \in IRNamespaces : WriteIR(n)

UpdateSpec == UpdateInit /\ [][UpdateNext]_updateVars

-----------------------------------------------------------------------------
(* Properties *)

IRFiles == [state : {"absent", "torn", "ok"}, content : Versions \cup {0},
            stamp : Versions \cup {0}, schema : 0..MaxSchema]

\* The winmd, its record and the cache files keep the shapes their writers
\* give them.
UpdateTypeOK ==
  /\ latest \in Versions /\ schema \in 1..MaxSchema
  /\ winmd \in Versions \cup {Absent, Torn} /\ provenance \in Versions \cup {Absent, Torn}
  /\ cache \in [IRNamespaces -> IRFiles]
  /\ pc \in PCs /\ target \in Versions \cup {0} /\ only \subseteq IRNamespaces
  /\ unwritten \subseteq IRNamespaces
  /\ report \in {"none", "error", "killed", "up-to-date", "updated", "ingested", "filtered"}
  /\ commands \in 0..MaxCommands

\* fetch-metadata leaves the winmd alone only when it is the version asked for,
\* and has it afterwards otherwise, whatever an earlier fetch was doing when it
\* died (runFetchMetadata: "when the committed winmd already matches, it exits
\* without changes").
FetchTellsTheTruth == report \in {"up-to-date", "updated"} => winmd = target

\* A stale cache is cured by re-ingesting it: after a complete ingest the tool
\* that made it can load the cache, whatever older tools and killed ingests left
\* there, and what it loads is the winmd, no more and no less (Read: "re-run
\* ingest"; CurrentSchemaVersion: "readers reject files with a different version
\* so stale caches are re-ingested").
CacheIsWinmd ==
  report = "ingested" =>
    /\ ReadAll = NamespacesOf[winmd]
    /\ \A n \in NamespacesOf[winmd] : cache[n].content = winmd

(* The inductive invariants: of fetch-metadata without flags, and of ingest. *)

\* A command reports as it returns, and ingest writes from a winmd that opened.
Commanded ==
  /\ report # "none" => pc = "idle"
  /\ pc = "ir" => winmd \in Versions

\* A fetch wants the latest version; nothing newer was ever fetched or recorded.
LatestOnly ==
  /\ pc \in {"check", "download", "winmd", "provenance", "recording"} => target = latest
  /\ winmd <= latest /\ provenance <= latest

\* The record of the latest version stands only beside the latest winmd: a fetch
\* that is about to replace the winmd does not find its own target recorded.
FetchInv ==
  /\ Commanded /\ LatestOnly
  /\ provenance = latest => winmd = latest
  /\ pc \in {"download", "winmd", "provenance"} => provenance # target
  /\ pc \in {"provenance", "recording"} => winmd = target
  /\ FetchTellsTheTruth

\* The file of namespace n is what the tool in use writes for it.
Current(n) == Readable(cache[n]) /\ cache[n].content = winmd

\* A namespace with a file is one of every later version; what a full ingest
\* has already written is current, and stays so until the next command.
IngestInv ==
  /\ Commanded /\ LatestOnly
  /\ \A n \in IRNamespaces : cache[n].state # "absent" =>
       /\ n \in NamespacesOf[latest]
       /\ winmd \in Versions => n \in NamespacesOf[winmd]
  /\ pc = "ir" =>
       /\ unwritten \subseteq NamespacesOf[winmd]
       /\ only = {} => \A n \in NamespacesOf[winmd] \ unwritten : Current(n)
  /\ report = "ingested" =>
       winmd \in Versions /\ \A n \in NamespacesOf[winmd] : Current(n)
=============================================================================
