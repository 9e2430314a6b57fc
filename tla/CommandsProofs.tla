--------------------------- MODULE CommandsProofs ---------------------------
(***************************************************************************)
(* What the commands of cmd/generate leave on disk, failed and killed ones  *)
(* included. fetch-metadata never vouches for a winmd it did not write, and *)
(* a full ingest cures any cache, for any number of versions, namespaces,   *)
(* schemas and commands; and the output tree of "generate bindings", for    *)
(* any namespaces, metadata, filters and sequence of runs.                  *)
(***************************************************************************)
EXTENDS MetadataUpdate, Emission, TLAPS

-----------------------------------------------------------------------------
(* fetch-metadata and ingest: MetadataUpdate *)

\* Nothing has been fetched or ingested at start.
LEMMA UpdateInitTypeOK == UpdateInit => UpdateTypeOK /\ Commanded
BY UpdateAssumption DEF UpdateInit, UpdateTypeOK, Commanded, PCs, NoFile, IRFiles, Absent, Torn

\* No command, killed or not, leaves the types.
LEMMA UpdateNextTypeOK == UpdateTypeOK /\ Commanded /\ [UpdateNext]_updateVars => UpdateTypeOK' /\ Commanded'
<1> SUFFICES ASSUME UpdateTypeOK, Commanded, [UpdateNext]_updateVars PROVE UpdateTypeOK' /\ Commanded'
  OBVIOUS
<1> USE UpdateAssumption DEF UpdateTypeOK, Commanded, PCs, Absent, Torn
<1>1. CASE Publish
  BY <1>1 DEF Publish
<1>2. CASE UpgradeTool
  BY <1>2 DEF UpgradeTool
<1>3. CASE Kill
  BY <1>3 DEF Kill, Exit
<1>4. ASSUME NEW v \in Versions, NEW force \in BOOLEAN, Fetch(v, force) PROVE UpdateTypeOK' /\ Commanded'
  BY <1>4 DEF Fetch, RunCommand
<1>5. CASE AlreadyCurrent
  BY <1>5 DEF AlreadyCurrent, UpToDate
<1>6. CASE Outdated
  BY <1>6 DEF Outdated, UpToDate
<1>7. CASE Download
  BY <1>7 DEF Download
<1>8. CASE DownloadFails
  BY <1>8 DEF DownloadFails, Exit
<1>9. CASE WinmdWritten
  BY <1>9 DEF WinmdWritten
<1>10. CASE OpenProvenance
  BY <1>10 DEF OpenProvenance
<1>11. CASE ProvenanceWritten
  BY <1>11 DEF ProvenanceWritten
<1>12. CASE RunIngest
  BY <1>12 DEF RunIngest, RunCommand
<1>13. CASE OpenFails
  BY <1>13 DEF OpenFails, Exit
<1>14. CASE Ingested
  BY <1>14 DEF Ingested
<1>15. ASSUME NEW names \in SUBSET IRNamespaces, Project(names) PROVE UpdateTypeOK' /\ Commanded'
  BY <1>15 DEF Project
<1>16. ASSUME NEW n \in IRNamespaces, WriteIR(n) PROVE UpdateTypeOK' /\ Commanded'
  <2>1. TornFile \in IRFiles
    BY DEF TornFile, NoFile, IRFiles
  <2>2. IRFile(winmd, Stamp, schema) \in IRFiles
    BY <1>16 DEF WriteIR, IRFile, IRFiles, Stamp
  <2> QED
    BY <1>16, <2>1, <2>2 DEF WriteIR
<1>17. CASE UNCHANGED updateVars
  BY <1>17 DEF updateVars
<1> QED
  BY <1>1, <1>2, <1>3, <1>4, <1>5, <1>6, <1>7, <1>8, <1>9, <1>10, <1>11, <1>12,
     <1>13, <1>14, <1>15, <1>16, <1>17 DEF UpdateNext

\* Every file and every field of a command keeps its type.
THEOREM UpdateTypeCorrect == UpdateSpec => []UpdateTypeOK
<1>1. UpdateInit => UpdateTypeOK /\ Commanded
  BY UpdateInitTypeOK
<1>2. UpdateTypeOK /\ Commanded /\ [UpdateNext]_updateVars => UpdateTypeOK' /\ Commanded'
  BY UpdateNextTypeOK
<1> QED
  BY <1>1, <1>2, PTL DEF UpdateSpec

\* Without --force and --version a winmd is replaced only while its record names
\* an older version or none, wherever the command dies.
LEMMA NextFetchInv ==
  ASSUME FetchFlags = {}
  PROVE  UpdateTypeOK /\ FetchInv /\ [UpdateNext]_updateVars => FetchInv'
<1> SUFFICES ASSUME UpdateTypeOK, FetchInv, [UpdateNext]_updateVars PROVE FetchInv'
  OBVIOUS
<1> USE UpdateAssumption DEF UpdateTypeOK, Commanded, FetchInv, LatestOnly, FetchTellsTheTruth, Absent, Torn
<1>1. CASE Publish
  BY <1>1 DEF Publish
<1>2. CASE UpgradeTool
  BY <1>2 DEF UpgradeTool
<1>3. CASE Kill
  BY <1>3 DEF Kill, Exit
<1>4. ASSUME NEW v \in Versions, NEW force \in BOOLEAN, Fetch(v, force) PROVE FetchInv'
  BY <1>4 DEF Fetch, RunCommand
<1>5. CASE AlreadyCurrent
  BY <1>5 DEF AlreadyCurrent, UpToDate
<1>6. CASE Outdated
  BY <1>6 DEF Outdated, UpToDate
<1>7. CASE Download
  BY <1>7 DEF Download
<1>8. CASE DownloadFails
  BY <1>8 DEF DownloadFails, Exit
<1>9. CASE WinmdWritten
  BY <1>9 DEF WinmdWritten
<1>10. CASE OpenProvenance
  BY <1>10 DEF OpenProvenance
<1>11. CASE ProvenanceWritten
  BY <1>11 DEF ProvenanceWritten
<1>12. CASE RunIngest
  BY <1>12 DEF RunIngest, RunCommand
<1>13. CASE OpenFails
  BY <1>13 DEF OpenFails, Exit
<1>14. CASE Ingested
  BY <1>14 DEF Ingested
<1>15. ASSUME NEW names \in SUBSET IRNamespaces, Project(names) PROVE FetchInv'
  BY <1>15 DEF Project
<1>16. ASSUME NEW n \in IRNamespaces, WriteIR(n) PROVE FetchInv'
  BY <1>16 DEF WriteIR
<1>17. CASE UNCHANGED updateVars
  BY <1>17 DEF updateVars
<1> QED
  BY <1>1, <1>2, <1>3, <1>4, <1>5, <1>6, <1>7, <1>8, <1>9, <1>10, <1>11, <1>12,
     <1>13, <1>14, <1>15, <1>16, <1>17 DEF UpdateNext

\* Without --version a winmd is only ever replaced by one with as many
\* namespaces, so that a full ingest replaces every file.
LEMMA NextIngestInv ==
  ASSUME "version" \notin FetchFlags,
         \A v, w \in Versions : v <= w => NamespacesOf[v] \subseteq NamespacesOf[w]
  PROVE  UpdateTypeOK /\ IngestInv /\ [UpdateNext]_updateVars => IngestInv'
<1> SUFFICES ASSUME UpdateTypeOK, IngestInv, [UpdateNext]_updateVars PROVE IngestInv'
  OBVIOUS
<1> USE UpdateAssumption
    DEF UpdateTypeOK, Commanded, IngestInv, LatestOnly, Current, Readable, Absent, Torn
<1>1. CASE Publish
  BY <1>1 DEF Publish
<1>2. CASE UpgradeTool
  BY <1>2 DEF UpgradeTool
<1>3. CASE Kill
  BY <1>3 DEF Kill, Exit
<1>4. ASSUME NEW v \in Versions, NEW force \in BOOLEAN, Fetch(v, force) PROVE IngestInv'
  BY <1>4 DEF Fetch, RunCommand
<1>5. CASE AlreadyCurrent
  BY <1>5 DEF AlreadyCurrent, UpToDate
<1>6. CASE Outdated
  BY <1>6 DEF Outdated, UpToDate
<1>7. CASE Download
  BY <1>7 DEF Download
<1>8. CASE DownloadFails
  BY <1>8 DEF DownloadFails, Exit
<1>9. CASE WinmdWritten
  BY <1>9 DEF WinmdWritten
<1>10. CASE OpenProvenance
  BY <1>10 DEF OpenProvenance
<1>11. CASE ProvenanceWritten
  BY <1>11 DEF ProvenanceWritten
<1>12. CASE RunIngest
  BY <1>12 DEF RunIngest, RunCommand
<1>13. CASE OpenFails
  BY <1>13 DEF OpenFails, Exit
<1>14. CASE Ingested
  BY <1>14 DEF Ingested
<1>15. ASSUME NEW names \in SUBSET IRNamespaces, Project(names) PROVE IngestInv'
  BY <1>15 DEF Project
<1>16. ASSUME NEW n \in IRNamespaces, WriteIR(n) PROVE IngestInv'
  <2>1. \/ cache' = [cache EXCEPT ![n] = TornFile] /\ UNCHANGED unwritten
        \/ /\ cache' = [cache EXCEPT ![n] = IRFile(winmd, Stamp, schema)]
           /\ unwritten' = unwritten \ {n}
    BY <1>16 DEF WriteIR
  <2>2. n \in unwritten
    BY <1>16 DEF WriteIR
  <2> QED
    BY <1>16, <2>1, <2>2 DEF WriteIR, TornFile, NoFile, IRFile, IRFiles
<1>17. CASE UNCHANGED updateVars
  BY <1>17 DEF updateVars
<1> QED
  BY <1>1, <1>2, <1>3, <1>4, <1>5, <1>6, <1>7, <1>8, <1>9, <1>10, <1>11, <1>12,
     <1>13, <1>14, <1>15, <1>16, <1>17 DEF UpdateNext

\* fetch-metadata says "up to date" or "updated" only of the winmd that is there,
\* given that no flag sends it back to an older version or makes it rewrite the
\* one on record.
THEOREM FetchTellsTheTruthCorrect ==
  ASSUME FetchFlags = {}
  PROVE  UpdateSpec => []FetchTellsTheTruth
<1>1. UpdateInit => FetchInv
  BY UpdateAssumption DEF UpdateInit, FetchInv, Commanded, LatestOnly, FetchTellsTheTruth, Absent
<1>2. UpdateTypeOK /\ FetchInv /\ [UpdateNext]_updateVars => FetchInv'
  BY NextFetchInv
<1>3. FetchInv => FetchTellsTheTruth
  BY DEF FetchInv
<1> QED
  BY <1>1, <1>2, <1>3, UpdateTypeCorrect, PTL DEF UpdateSpec

\* After a full ingest the cache is the winmd, whatever older tools and killed
\* ingests left there, when no namespace disappears from one version to the next
\* and no older version is fetched: ingest deletes no file.
THEOREM CacheIsWinmdCorrect ==
  ASSUME "version" \notin FetchFlags,
         \A v, w \in Versions : v <= w => NamespacesOf[v] \subseteq NamespacesOf[w]
  PROVE  UpdateSpec => []CacheIsWinmd
<1>1. UpdateInit => IngestInv
  BY UpdateAssumption DEF UpdateInit, IngestInv, Commanded, LatestOnly, NoFile, Absent
<1>2. UpdateTypeOK /\ IngestInv /\ [UpdateNext]_updateVars => IngestInv'
  BY NextIngestInv
<1>3. UpdateTypeOK /\ IngestInv => CacheIsWinmd
  BY UpdateAssumption DEF UpdateTypeOK, IngestInv, CacheIsWinmd, ReadAll, Readable, Current
<1> QED
  BY <1>1, <1>2, <1>3, UpdateTypeCorrect, PTL DEF UpdateSpec

-----------------------------------------------------------------------------
(* generate bindings: Emission *)


\* What the loaded metadata say of a namespace has its type.
LEMMA MetadataTypes ==
  ASSUME TypeOK
  PROVE  /\ Loaded \subseteq Namespaces
         /\ \A n \in Loaded :
              /\ metadata[n].structs \subseteq Namespaces /\ metadata[n].others \subseteq Namespaces
              /\ metadata[n].shapes \subseteq Namespaces /\ metadata[n].typedefs \subseteq Namespaces
              /\ metadata[n].freeFunc \in Namespaces \cup {None}
              /\ metadata[n].freeParam \in Namespaces \cup {None}
              /\ Refs(n) \subseteq Namespaces /\ Asked(n) \subseteq Namespaces
              /\ Kinds(n) \subseteq {"types", "handles", "doc"} /\ "doc" \in Kinds(n)
<1>1. Loaded \subseteq Namespaces /\ metadata \in [Loaded -> NamespaceMeta]
  BY EmissionAssumption DEF TypeOK, Loaded
<1> QED
  BY <1>1 DEF NamespaceMeta, Refs, Asked, Named, Kinds

\* The mapper qualifies references to namespaces only.
LEMMA QualifiedType ==
  ASSUME TypeOK, NEW n \in Loaded, NEW targets \in SUBSET Namespaces, NEW B
  PROVE  Qualified(n, targets, B) \subseteq Namespaces
<1> SUFFICES ASSUME NEW m \in Qualified(n, targets, B) PROVE m \in Namespaces
  OBVIOUS
<1>1. m \in targets \/ \E t \in Loaded : m \in metadata[t].shapes
  BY DEF Qualified
<1> QED
  BY <1>1, MetadataTypes

\* emitNamespace has a first file while files are left, and it is one of the
\* current namespace that is still to be written.
LEMMA NextFileIsNext ==
  ASSUME TypeOK, todo # {}, current \in Namespaces
  PROVE  NextFile \in Files /\ NextFile[1] = current /\ NextFile[2] \in todo
<1> DEFINE k == CHOOSE k \in todo : \A j \in todo : Order[k] <= Order[j]
<1>1. todo \subseteq {"types", "handles", "doc"}
  BY DEF TypeOK
<1>2. \E i \in todo : \A j \in todo : Order[i] <= Order[j]
  <2>1. Order["types"] = 1 /\ Order["handles"] = 2 /\ Order["doc"] = 3
    BY DEF Order
  <2>2. CASE "types" \in todo
    BY <1>1, <2>1, <2>2
  <2>3. CASE "types" \notin todo /\ "handles" \in todo
    BY <1>1, <2>1, <2>3
  <2>4. CASE todo = {"doc"}
    BY <2>4, <2>1
  <2> QED
    BY <1>1, <2>2, <2>3, <2>4
<1>3. k \in todo
  BY <1>2
<1>4. NextFile = <<current, k>>
  BY DEF NextFile
<1> HIDE DEF k
<1> QED
  BY <1>1, <1>3, <1>4 DEF Files

\* An empty tree but for what is written by hand, and no run.
LEMMA InitIInv == Init => IInv
<1> SUFFICES ASSUME Init PROVE IInv
  OBVIOUS
<1>1. TypeOK
  BY EmissionAssumption DEF Init, TypeOK, Files, Contents
<1>2. WriterInv /\ FilesInv /\ WorkInv /\ TreeInv /\ ~Active
  BY DEF Init, WriterInv, FilesInv, WorkInv, TreeInv, Active, Succeeded, Files
<1> QED
  BY <1>1, <1>2 DEF IInv

\* No step of a run, and no ingest between runs, leaves the types.
LEMMA NextTypeOK == TypeOK /\ WriterInv /\ FilesInv /\ [Next]_vars => TypeOK'
<1> SUFFICES ASSUME TypeOK, WriterInv, FilesInv, [Next]_vars PROVE TypeOK'
  OBVIOUS
<1> USE EmissionAssumption, MetadataTypes DEF TypeOK, runVars, Contents
<1>1. CASE Ingest
  BY <1>1 DEF Ingest
<1>2. ASSUME NEW F \in Filters, Start(F) PROVE TypeOK'
  <2>1. PICK B \in SUBSET Edges :
          /\ blocked' = B
          /\ referenced' = UNION {Qualified(n, metadata[n].structs, B) : n \in Loaded}
    BY <1>2 DEF Start
  <2>2. referenced' \subseteq Namespaces
    BY <2>1, QualifiedType
  <2>3. blocked' \subseteq Namespaces \X Namespaces
    BY <2>1 DEF Edges
  <2> QED
    BY <1>2, <2>2, <2>3 DEF Start
<1>3. ASSUME NEW n \in Namespaces, Pick(n) PROVE TypeOK'
  BY <1>3 DEF Pick
<1>4. ASSUME NEW n \in Namespaces, NotLoaded(n) PROVE TypeOK'
  BY <1>4 DEF NotLoaded, End
<1>5. CASE OpenFile
  <2>1. NextFile \in Files
    BY <1>5, NextFileIsNext DEF OpenFile, WriterInv
  <2> QED
    BY <1>5, <2>1 DEF OpenFile
<1>6. CASE AssembleFails
  BY <1>6 DEF AssembleFails, End
<1>7. CASE WriteContent
  BY <1>7 DEF WriteContent
<1>8. CASE WriteFails
  BY <1>8 DEF WriteFails, End
<1>9. CASE Discover
  <2>1. Qualified(current, Asked(current), blocked) \subseteq Namespaces
    BY <1>9, QualifiedType DEF Discover, WriterInv, FilesInv, Active
  <2> QED
    BY <1>9, <2>1 DEF Discover
<1>10. CASE StartPrune
  BY <1>10 DEF StartPrune
<1>11. ASSUME NEW f \in Files, Prune(f) PROVE TypeOK'
  BY <1>11 DEF Prune
<1>12. CASE PruneFails
  BY <1>12 DEF PruneFails, End
<1>13. CASE Finish
  BY <1>13 DEF Finish, End
<1>14. CASE Crash
  BY <1>14 DEF Crash, End
<1>15. CASE UNCHANGED vars
  BY <1>15 DEF vars
<1> QED
  BY <1>1, <1>2, <1>3, <1>4, <1>5, <1>6, <1>7, <1>8, <1>9, <1>10, <1>11, <1>12,
     <1>13, <1>14, <1>15 DEF Next, Run

\* Every step of a run keeps the account of what is written, pending and stale.
LEMMA NextIInv == IInv /\ [Next]_vars => IInv'
<1> SUFFICES ASSUME IInv, [Next]_vars PROVE IInv'
  OBVIOUS
<1> DEFINE Severed == Active => Acyclic(Namespaces, Edges \ blocked)
<1> USE DEF IInv, TypeOK, runVars
<1>0. TypeOK'
  BY NextTypeOK
<1>a. /\ Loaded \subseteq Namespaces
      /\ \A n \in Loaded : Kinds(n) \subseteq {"types", "handles", "doc"}
  BY MetadataTypes
<1>b. ASSUME UNCHANGED <<metadata, blocked>>
      PROVE  \A n : Qualified(n, Asked(n), blocked)' = Qualified(n, Asked(n), blocked)
  BY <1>b DEF Qualified, Asked, Refs, Loaded
<1>1. CASE Ingest
  BY <1>0, <1>1 DEF Ingest, WriterInv, FilesInv, WorkInv, TreeInv, Active, Succeeded
<1>2. ASSUME NEW F \in Filters, Start(F) PROVE IInv'
  <2>1. WriterInv' /\ FilesInv' /\ WorkInv' /\ TreeInv'
    BY <1>2 DEF Start, WriterInv, FilesInv, WorkInv, TreeInv, Active, Succeeded, Loaded
  <2>2. Acyclic(Namespaces, Edges \ blocked)'
    BY <1>2 DEF Start, Breaks, Edges, Refs, Loaded, Acyclic
  <2> QED
    BY <1>0, <2>1, <2>2
<1>3. ASSUME NEW n \in Namespaces, Pick(n) PROVE IInv'
  <2>1. WriterInv'
    BY <1>3 DEF Pick, WriterInv, Kinds
  <2>2. FilesInv'
    BY <1>3 DEF Pick, WriterInv, FilesInv, Active, Loaded, Kinds
  <2>3. WorkInv'
    BY <1>3, <1>b, EmissionAssumption DEF Pick, WriterInv, WorkInv, Active, Loaded
  <2>4. TreeInv'
    BY <1>3 DEF Pick, TreeInv, Succeeded
  <2>5. Severed'
    BY <1>3 DEF Pick, Active, Edges, Refs, Loaded, Acyclic
  <2> QED
    BY <1>0, <2>1, <2>2, <2>3, <2>4, <2>5
<1>4. ASSUME NEW result \in {"error", "killed"}, End(result), UNCHANGED tree PROVE IInv'
  BY <1>0, <1>4 DEF End, WriterInv, FilesInv, WorkInv, TreeInv, Active, Succeeded
<1>5. CASE OpenFile
  <2>0. /\ NextFile \in Files /\ NextFile[1] = current /\ NextFile[2] \in todo
        /\ NextFile = <<current, NextFile[2]>>
    BY <1>5, NextFileIsNext DEF OpenFile, WriterInv, Files
  <2>1. WriterInv'
    BY <1>5, <2>0 DEF OpenFile, WriterInv, Kinds
  <2>2. FilesInv'
    BY <1>5, <1>a, <2>0 DEF OpenFile, WriterInv, FilesInv, Active, Loaded, Kinds, Files
  <2>3. WorkInv'
    BY <1>5, <1>b DEF OpenFile, WorkInv, Active, Loaded
  <2>4. TreeInv'
    BY <1>5, <2>0 DEF OpenFile, TreeInv, Succeeded, Files
  <2>5. Severed'
    BY <1>5 DEF OpenFile, Active, Edges, Refs, Loaded, Acyclic
  <2> QED
    BY <1>0, <2>1, <2>2, <2>3, <2>4, <2>5
<1>6. CASE AssembleFails
  BY <1>4, <1>6 DEF AssembleFails
<1>7. CASE WriteContent
  <2>0. /\ phase = "write" /\ opened \in Files /\ opened[1] = current /\ opened[2] \in todo
        /\ opened = <<current, opened[2]>> /\ opened \in writtenFiles
    BY <1>7 DEF WriteContent, WriterInv, Files
  <2>1. WriterInv'
    BY <1>7, <2>0 DEF WriteContent, WriterInv, Kinds
  <2>2. FilesInv'
    <3>1. ASSUME NEW n \in emitted, NEW k \in Kinds(n)
          PROVE  <<n, k>> \in Files /\ (<<n, k>> = opened <=> n = current /\ k = opened[2])
      <4>1. n \in Namespaces /\ k \in {"types", "handles", "doc"}
        BY <1>a, <2>0 DEF FilesInv, Active
      <4> QED
        BY <2>0, <4>1 DEF Files
    <3>2. \A n : Kinds(n)' = Kinds(n)
      BY <1>7 DEF WriteContent, Kinds
    <3> QED
      BY <1>7, <2>0, <3>1, <3>2 DEF WriteContent, FilesInv, Active, Loaded
  <2>3. WorkInv'
    BY <1>7, <1>b DEF WriteContent, WorkInv, Active, Loaded
  <2>4. TreeInv'
    BY <1>7, <2>0 DEF WriteContent, TreeInv, Succeeded, Files
  <2>5. Severed'
    BY <1>7 DEF WriteContent, Active, Edges, Refs, Loaded, Acyclic
  <2> QED
    BY <1>0, <2>1, <2>2, <2>3, <2>4, <2>5
<1>8. CASE WriteFails
  BY <1>4, <1>8 DEF WriteFails
<1>9. CASE Discover
  <2>1. WriterInv'
    BY <1>9 DEF Discover, WriterInv, Kinds
  <2>2. FilesInv'
    BY <1>9 DEF Discover, WriterInv, FilesInv, Active, Loaded, Kinds
  <2>3. WorkInv'
    BY <1>9, <1>b DEF Discover, WriterInv, WorkInv, Active, Loaded
  <2>4. TreeInv'
    BY <1>9 DEF Discover, TreeInv, Succeeded
  <2>5. Severed'
    BY <1>9 DEF Discover, Active, Edges, Refs, Loaded, Acyclic
  <2> QED
    BY <1>0, <2>1, <2>2, <2>3, <2>4, <2>5
<1>10. CASE StartPrune
  <2>1. WriterInv' /\ TreeInv'
    BY <1>10 DEF StartPrune, WriterInv, TreeInv, Succeeded, Kinds
  <2>2. FilesInv'
    BY <1>10 DEF StartPrune, FilesInv, Active, Loaded, Kinds
  <2>3. WorkInv'
    BY <1>10, <1>b DEF StartPrune, WorkInv, Active, Loaded
  <2>4. Severed'
    BY <1>10 DEF StartPrune, Active, Edges, Refs, Loaded, Acyclic
  <2> QED
    BY <1>0, <2>1, <2>2, <2>3, <2>4
<1>11. ASSUME NEW f \in Files, Prune(f) PROVE IInv'
  <2>1. WriterInv'
    BY <1>11 DEF Prune, WriterInv, Kinds
  <2>2. FilesInv'
    BY <1>11 DEF Prune, Stale, FilesInv, Active, Loaded, Kinds
  <2>3. WorkInv'
    BY <1>11, <1>b DEF Prune, WorkInv, Active, Loaded
  <2>4. TreeInv'
    BY <1>11 DEF Prune, Stale, TreeInv, Succeeded
  <2>5. Severed'
    BY <1>11 DEF Prune, Active, Edges, Refs, Loaded, Acyclic
  <2> QED
    BY <1>0, <2>1, <2>2, <2>3, <2>4, <2>5
<1>12. CASE PruneFails
  BY <1>4, <1>12 DEF PruneFails
<1>13. CASE Finish
  <2>1. WriterInv'
    BY <1>13 DEF Finish, End, WriterInv, Kinds
  <2>2. FilesInv'
    BY <1>13 DEF Finish, End, FilesInv, Active, Loaded, Kinds
  <2>3. WorkInv'
    BY <1>13, <1>b DEF Finish, End, WorkInv, Active, Loaded
  <2>4. TreeInv'
    BY <1>13 DEF Finish, End, Stale, TreeInv, Succeeded
  <2>5. Severed'
    BY <1>13 DEF Finish, End, Active, Edges, Refs, Loaded, Acyclic
  <2> QED
    BY <1>0, <2>1, <2>2, <2>3, <2>4, <2>5
<1>14. CASE Crash
  BY <1>4, <1>14 DEF Crash
<1>15. CASE UNCHANGED vars
  <2>1. WriterInv' /\ TreeInv'
    BY <1>15 DEF vars, WriterInv, TreeInv, Succeeded, Kinds
  <2>2. FilesInv'
    BY <1>15 DEF vars, FilesInv, Active, Loaded, Kinds
  <2>4. WorkInv'
    BY <1>15, <1>b DEF vars, WorkInv, Active, Loaded
  <2>3. Severed'
    BY <1>15 DEF vars, Active, Edges, Refs, Loaded, Acyclic
  <2> QED
    BY <1>0, <2>1, <2>2, <2>3, <2>4
<1>16. ASSUME NEW n \in Namespaces, NotLoaded(n) PROVE IInv'
  BY <1>4, <1>16 DEF NotLoaded
<1> QED
  BY <1>1, <1>2, <1>3, <1>5, <1>6, <1>7, <1>8, <1>9, <1>10, <1>11, <1>12, <1>13,
     <1>14, <1>15, <1>16 DEF Next, Run

\* What a run has written, has still to write and may delete, at every step.
THEOREM InvariantCorrect == Spec => []IInv
<1>1. Init => IInv
  BY InitIInv
<1>2. IInv /\ [Next]_vars => IInv'
  BY NextIInv
<1> QED
  BY <1>1, <1>2, PTL DEF Spec

\* Every variable of a run keeps its type.
THEOREM TypeCorrect == Spec => []TypeOK
<1>1. IInv => TypeOK
  BY DEF IInv
<1> QED
  BY <1>1, InvariantCorrect, PTL

\* A full run that succeeds leaves the generated files of the current metadata
\* and no others, whatever runs came before it and wherever they stopped.
THEOREM SelfCleaningCorrect == Spec => []SelfCleaning
<1>1. IInv => SelfCleaning
  <2> SUFFICES ASSUME IInv, Succeeded, filter = {}, NEW f \in Files
               PROVE  tree[f] = "generated" <=> f[1] \in Loaded /\ f[2] \in Kinds(f[1])
    BY DEF SelfCleaning, Kinds
  <2>1. emitted = Loaded /\ ~(\E n \in emitted : n = current)
    BY EmissionAssumption DEF IInv, TypeOK, FilesInv, WorkInv, WriterInv, Active, Succeeded
  <2>2. tree[f] = "generated" => f[1] \in Loaded /\ f[2] \in Kinds(f[1])
    BY <2>1 DEF IInv, TreeInv, FilesInv, Active, Succeeded
  <2>3. f = <<f[1], f[2]>>
    BY DEF Files
  <2>4. f[1] \in Loaded /\ f[2] \in Kinds(f[1]) => tree[f] = "generated"
    BY <2>1, <2>3 DEF IInv, FilesInv, Active, Succeeded
  <2> QED
    BY <2>2, <2>4
<1> QED
  BY <1>1, InvariantCorrect, PTL

\* When a run succeeds every package it emitted finds its imports written: those
\* of a full run as everything loaded is emitted, those of a filtered run as what
\* the mapper recorded is chased.
THEOREM ImportsExistCorrect == Spec => []ImportsExist
<1>1. IInv => ImportsExist
  <2> SUFFICES ASSUME IInv, Succeeded, NEW n \in emitted,
                      NEW m \in Qualified(n, Asked(n), blocked)
                                  \cup (IF filter = {} THEN Closer(n) ELSE {})
               PROVE  m \in Loaded /\ \A k \in Kinds(m) : tree[<<m, k>>] = "generated"
    BY DEF ImportsExist, Kinds
  <2> USE DEF IInv, TypeOK, Active, Succeeded
  <2>1. current = None /\ pending = {} /\ emitted \subseteq Loaded /\ Loaded \subseteq Namespaces
    BY MetadataTypes DEF WriterInv, FilesInv, WorkInv
  <2>2. m \in emitted
    <3>1. CASE m \in Qualified(n, Asked(n), blocked)
      BY <3>1, <2>1, EmissionAssumption DEF WorkInv
    <3>2. CASE filter = {} /\ m \in Closer(n)
      <4>1. m = metadata[n].freeFunc /\ m # None
        BY <3>2 DEF Closer
      <4>2. n \in DOMAIN metadata /\ metadata \in Metadatas
        BY <2>1 DEF Loaded
      <4>3. m \in Loaded
        BY <4>1, <4>2, EmissionAssumption DEF Loaded
      <4> QED
        BY <3>2, <4>3, <2>1 DEF WorkInv
    <3> QED
      BY <3>1, <3>2
  <2> QED
    BY <2>1, <2>2, EmissionAssumption DEF FilesInv
<1> QED
  BY <1>1, InvariantCorrect, PTL

\* A graph with fewer edges has no more cycles.
LEMMA FewerEdges ==
  ASSUME NEW E, NEW F, F \subseteq E, Acyclic(Namespaces, E)
  PROVE  Acyclic(Namespaces, F)
BY DEF Acyclic

\* Given what cycles.go promises, every import cycle a run has emitted goes through
\* an import of a closer, or of the shape of a flattened typedef, that was not
\* weighed: for any metadata.
THEOREM NoImportCycleCorrect == Spec => []NoImportCycle
<1>1. IInv => NoImportCycle
  <2> SUFFICES ASSUME IInv, Succeeded PROVE AllImports \ Unweighed \subseteq Edges \ blocked
    BY FewerEdges DEF NoImportCycle, IInv, Active, Succeeded
  <2>1. emitted \subseteq Loaded
    BY DEF IInv, FilesInv, Active, Succeeded
  <2> SUFFICES ASSUME NEW n \in emitted, NEW m \in Namespaces, m \in Imports(n),
                      <<n, m>> \notin Unweighed
               PROVE  <<n, m>> \in Edges \ blocked
    BY DEF AllImports
  <2>2. n \in Loaded
    BY <2>1
  <2>3. CASE m \in {metadata[n].freeFunc, metadata[n].freeParam}
    BY <2>2, <2>3 DEF Unweighed
  <2>4. CASE m \notin {metadata[n].freeFunc, metadata[n].freeParam}
    <3>1. m \in Qualified(n, Asked(n), blocked)
      BY <2>4 DEF Imports, Closer
    <3>2. <<n, m>> \notin blocked
      BY <3>1 DEF Qualified
    <3>3. CASE m \in Asked(n)
      BY <2>2, <2>4, <3>2, <3>3 DEF Asked, Edges
    <3>4. CASE m \notin Asked(n)
      <4>1. PICK t \in metadata[n].typedefs \cap Loaded :
              <<n, t>> \in blocked /\ m \in metadata[t].shapes
        BY <3>1, <3>4 DEF Qualified
      <4> QED
        BY <2>2, <4>1 DEF Unweighed
    <3> QED
      BY <3>3, <3>4
  <2> QED
    BY <2>3, <2>4
<1> QED
  BY <1>1, InvariantCorrect, PTL

\* No step of any sequence of runs touches a hand-written file, and no filtered
\* run deletes outside the packages it emitted.
THEOREM OnlyItsOwnCorrect == Spec => OnlyItsOwn
<1>1. IInv /\ IInv' /\ [Next]_vars => [HandWrittenKept /\ FilteredPruneLocal]_vars
  <2> SUFFICES ASSUME IInv, IInv', Next PROVE HandWrittenKept /\ FilteredPruneLocal
    OBVIOUS
  <2> USE DEF IInv, TypeOK, runVars
  <2>1. HandWrittenKept
    BY DEF HandWrittenKept, TreeInv
  <2>2. FilteredPruneLocal
    <3>1. ASSUME NEW f \in Files, Prune(f) PROVE FilteredPruneLocal
      BY <3>1 DEF Prune, Stale, FilteredPruneLocal, FilesInv, Active
    <3>2. CASE OpenFile \/ WriteContent
      BY <3>2 DEF OpenFile, WriteContent, FilteredPruneLocal, Contents
    <3>3. CASE UNCHANGED tree
      BY <3>3 DEF FilteredPruneLocal
    <3> QED
      BY <3>1, <3>2, <3>3 DEF Next, Run, Ingest, Start, Pick, NotLoaded, AssembleFails,
         WriteFails, Discover, StartPrune, PruneFails, Finish, Crash
  <2> QED
    BY <2>1, <2>2
<1> QED
  BY <1>1, InvariantCorrect, PTL DEF Spec, OnlyItsOwn
=============================================================================
