----------------------------- MODULE EvidenceOps -----------------------------
(***************************************************************************)
(* Whoever reads both evidence stores, beside any number of ingestion      *)
(* processes, and who drops one of them:                                   *)
(*   validate_ingestion.py      - counts rows, then points, and compares   *)
(*   demo_data_snapshots.py     - backs SQLite up, then snapshots Qdrant   *)
(*   export_handoff.py          - lists chunks, then their documents       *)
(*   an analysis (agent-api)    - searches rows and points, in any order   *)
(*   init_collection --recreate - deletes the collection, then creates it  *)
(* Each of the first four reads twice and stops nobody: what it concludes  *)
(* or writes must survive what happens between its reads.                  *)
(***************************************************************************)
EXTENDS Ingestion, Integers, FiniteSets

CONSTANTS
    AllowedDelta,   \* --qdrant-allowed-delta
    NotTaken,       \* what the manifest says of a store that was skipped
    ExportLimit     \* --limit of export_handoff.py

ASSUME OpsAssumption == AllowedDelta \in Nat /\ ExportLimit \in Nat \ {0}

VARIABLES
    collection,     \* the Qdrant collection exists
    dropped,        \* history: the points that were deleted with the collection
    auditPc,        \* "idle", "counted", "ok", "mismatch" or "error"
    countedRows,    \* the rows the validator counted (it keeps their number)
    countedPoints,  \* the points Qdrant counted for it
    backupPc,       \* "idle", "copied", "written" or "error"
    savedRows,      \* the rows in the SQLite backup file
    savedPoints,    \* the points in the Qdrant snapshot
    exportPc,       \* "idle", "listed", "written" or "error"
    listed,         \* the chunks that build_handoff_export has fetched
    described,      \* the documents it has fetched for them, with chunk_count
    evidence        \* the chunks an analysis has retrieved so far

collectionVars == <<collection, dropped>>
auditVars == <<auditPc, countedRows, countedPoints>>
backupVars == <<backupPc, savedRows, savedPoints>>
exportVars == <<exportPc, listed, described>>
readerVars == <<auditVars, backupVars, exportVars, evidence>>
opsVars == <<vars, collectionVars, readerVars>>

OpsInit ==
    /\ Init
    /\ collection = FALSE
    /\ dropped = {}
    /\ auditPc = "idle"
    /\ countedRows = {}
    /\ countedPoints = {}
    /\ backupPc = "idle"
    /\ savedRows = NotTaken
    /\ savedPoints = NotTaken
    /\ exportPc = "idle"
    /\ listed = {}
    /\ described = <<>>
    /\ evidence = {}

-----------------------------------------------------------------------------
\* validate_qdrant_count, its first read: SELECT count(*) FROM chunks.
CountRows ==
    /\ auditPc \in {"idle", "ok", "mismatch", "error"}
    /\ auditPc' = "counted"
    /\ countedRows' = chunks
    /\ countedPoints' = {}

Distance(m, n) == IF m >= n THEN m - n ELSE n - m

\* Mutation: the delta is taken without its absolute value.
Bug_OneSidedDelta ==
    /\ auditPc = "counted"
    /\ collection
    /\ countedPoints' = points
    /\ auditPc' = IF Cardinality(countedRows) - Cardinality(points) <= AllowedDelta
                  THEN "ok" ELSE "mismatch"
    /\ UNCHANGED countedRows

\* fetch_qdrant_point_count and the verdict on the two numbers.
CountPoints ==
    /\ auditPc = "counted"
    /\ collection
    /\ countedPoints' = points
    /\ auditPc' = IF Distance(Cardinality(countedRows), Cardinality(points)) <= AllowedDelta
                  THEN "ok" ELSE "mismatch"
    /\ UNCHANGED countedRows

\* The count request fails (there may be no collection): RuntimeError, no verdict.
CountFails ==
    /\ auditPc = "counted"
    /\ auditPc' = "error"
    /\ UNCHANGED <<countedRows, countedPoints>>

AuditStep ==
    /\ CountRows \/ CountPoints \/ CountFails
    /\ UNCHANGED <<vars, collectionVars, backupVars, exportVars, evidence>>

-----------------------------------------------------------------------------
\* backup_sqlite_database copies one committed state; --skip-sqlite copies none.
BackupSqlite ==
    /\ backupPc \in {"idle", "written", "error"}
    /\ backupPc' = "copied"
    /\ savedRows' \in {chunks, NotTaken}
    /\ savedPoints' = NotTaken

\* create_qdrant_snapshot (or --skip-qdrant), then the manifest names both.
SnapshotQdrant ==
    /\ backupPc = "copied"
    /\ backupPc' = "written"
    /\ savedPoints' \in (IF collection THEN {points} ELSE {}) \union {NotTaken}
    /\ UNCHANGED savedRows

\* Qdrant (without the collection, say) or the disk refuses: exit code 1 and no
\* manifest.
BackupFails ==
    /\ backupPc \in {"idle", "written", "error", "copied"}
    /\ backupPc' = "error"
    /\ savedRows' = NotTaken
    /\ savedPoints' = NotTaken

\* Mutation: main() takes the snapshot first and the copy second.
Bug_SnapshotFirst ==
    \/ /\ backupPc \in {"idle", "written", "error"}
       /\ backupPc' = "copied"
       /\ savedPoints' \in (IF collection THEN {points} ELSE {}) \union {NotTaken}
       /\ savedRows' = NotTaken
    \/ /\ backupPc = "copied"
       /\ backupPc' = "written"
       /\ savedRows' \in {chunks, NotTaken}
       /\ UNCHANGED savedPoints
    \/ BackupFails

\* main(): the copy first, the snapshot second.
Backup == BackupSqlite \/ SnapshotQdrant \/ BackupFails

BackupStep ==
    /\ Backup
    /\ UNCHANGED <<vars, collectionVars, auditVars, exportVars, evidence>>

-----------------------------------------------------------------------------
ChunksOf(f) == {c \in chunks : c.filing = f}

\* What the filters and the limit may leave of the chunks that have a document.
Selections == {cs \in SUBSET {c \in chunks : c.filing \in docs} :
                 Cardinality(cs) <= ExportLimit}

\* fetch_chunk_rows: chunks joined with their documents.
ListChunks ==
    /\ exportPc \in {"idle", "written", "error"}
    /\ exportPc' = "listed"
    /\ listed' \in Selections
    /\ described' = <<>>

\* fetch_document_rows, a transaction of its own, then write_handoff_export.
DescribeDocuments ==
    /\ exportPc = "listed"
    /\ exportPc' = "written"
    /\ described' = [f \in {c.filing : c \in listed} \cap docs |-> Cardinality(ChunksOf(f))]
    /\ UNCHANGED listed

\* SQLite or the disk refuses: exit code 1 and no export.
ExportFails ==
    /\ exportPc \in {"idle", "written", "error", "listed"}
    /\ exportPc' = "error"
    /\ listed' = {}
    /\ described' = <<>>

\* Mutation: all documents are described first, and the chunks listed after them.
Bug_DocumentsFirst ==
    \/ /\ exportPc \in {"idle", "written", "error"}
       /\ exportPc' = "listed"
       /\ listed' = {}
       /\ described' = [f \in docs |-> Cardinality(ChunksOf(f))]
    \/ /\ exportPc = "listed"
       /\ exportPc' = "written"
       /\ listed' \in Selections
       /\ described' = [f \in {c.filing : c \in listed'} \cap DOMAIN described |-> described[f]]
    \/ ExportFails

\* build_handoff_export: the chunks first, their documents second.
Export == ListChunks \/ DescribeDocuments \/ ExportFails

ExportStep ==
    /\ Export
    /\ UNCHANGED <<vars, collectionVars, auditVars, backupVars, evidence>>

-----------------------------------------------------------------------------
\* bm25_search (or recent_chunks) for a ticker: committed rows only.
SearchRows ==
    \E f \in Filings : evidence' = evidence \union ChunksOf(f)

\* QdrantSearchClient.search for a ticker: a hit becomes evidence out of the
\* point's own payload, without a look at SQLite.  Without a collection it finds
\* what it finds when the request fails: nothing.
SearchVectors ==
    \E f \in Filings : evidence' = evidence \union {c \in points : c.filing = f}

\* hybrid_retrieve for each ticker of a plan; the next analysis starts anew.
SearchStep ==
    /\ SearchRows \/ SearchVectors \/ evidence' = {}
    /\ UNCHANGED <<vars, collectionVars, auditVars, backupVars, exportVars>>

-----------------------------------------------------------------------------
\* init_collection --recreate, its DELETE: whatever is loaded or being loaded.
\* "Use only before loading demo data", says its help; nothing checks that.
DropCollection ==
    /\ collection
    /\ collection' = FALSE
    /\ dropped' = dropped \union points
    /\ points' = {}
    /\ UNCHANGED <<pc, plan, at, fresh, txDocs, writer, docs, chunks, readerVars>>

\* create_collection's PUT, at the first start or after the DELETE (and possibly
\* never: the script may fail in between).
CreateCollection ==
    /\ ~collection
    /\ collection' = TRUE
    /\ UNCHANGED <<dropped, vars, readerVars>>

\* upsert_vectors raises while there is no collection: the points stay as they are.
IngestionStep ==
    /\ Next
    /\ ~collection => points' = points
    /\ UNCHANGED <<collectionVars, readerVars>>

OpsNext ==
    \/ IngestionStep
    \/ DropCollection
    \/ CreateCollection
    \/ AuditStep
    \/ BackupStep
    \/ ExportStep
    \/ SearchStep

OpsSpec == OpsInit /\ [][OpsNext]_opsVars

-----------------------------------------------------------------------------
\* Every variable holds values of its type.
OpsTypeOK ==
    /\ TypeOK
    /\ collection \in BOOLEAN
    /\ dropped \subseteq Chunk
    /\ auditPc \in {"idle", "counted", "ok", "mismatch", "error"}
    /\ countedRows \subseteq Chunk
    /\ countedPoints \subseteq Chunk
    /\ backupPc \in {"idle", "copied", "written", "error"}
    /\ savedRows = NotTaken \/ savedRows \subseteq Chunk
    /\ savedPoints = NotTaken \/ savedPoints \subseteq Chunk
    /\ exportPc \in {"idle", "listed", "written", "error"}
    /\ listed \subseteq Chunk
    /\ DOMAIN described \subseteq Filings /\ \A f \in DOMAIN described : described[f] \in Nat
    /\ evidence \subseteq Chunk

\* A row without its vector lost it with the collection: ingestion itself never
\* separates the two.  (No later run brings the vector back: every text of the
\* row is known to SQLite, so that _ingest_filing skips it.)
LacksDroppedOnly == chunks \subseteq points \union dropped

\* Two numbers are enough, and racing an ingestion does no harm: when the
\* validator says "in sync", each counted row had its point or lost it to
\* --recreate, and but for rows that did the points without a row are at most
\* allowed_delta.  validate_qdrant_count reads SQLite first.  (Orphans of failed
\* runs make up for dropped vectors: then the stores are "in sync" unjoined.)
InSyncMeansJoined ==
    auditPc = "ok" =>
        /\ countedRows \ countedPoints \subseteq dropped
        /\ Cardinality(countedPoints \ countedRows)
             <= Cardinality(countedRows \ countedPoints) + AllowedDelta

\* The pair of files a manifest names restores to joined stores, as far as
\* --recreate left them joined: main() copies SQLite before Qdrant, so that a
\* snapshot has the vector of every row in the copy that was not dropped.
BackupsJoin ==
    backupPc = "written" /\ savedRows # NotTaken /\ savedPoints # NotTaken =>
        savedRows \ savedPoints \subseteq dropped

\* A hand-off is whole although its two queries see two states of a running
\* ingestion: each chunk's document is described, with no fewer chunks than are
\* listed of it, and the qdrant_point_id of each chunk finds its point, also
\* when the file is used later ("matching qdrant_point_id", the worker's
\* README), unless --recreate deletes it.
HandoffsResolve ==
    exportPc = "written" =>
        /\ listed \subseteq points \union dropped
        /\ {c.filing : c \in listed} = DOMAIN described
        /\ \A f \in DOMAIN described :
             Cardinality({c \in listed : c.filing = f}) <= described[f]

\* Whatever an analysis cites is a point of the collection, and stays one until
\* --recreate: the two searches read two stores at two moments of an ingestion
\* that may fail in between, and rows come after their points.
CitationsHavePoints == evidence \subseteq points \union dropped
=============================================================================
