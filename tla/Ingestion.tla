------------------------------ MODULE Ingestion ------------------------------
(***************************************************************************)
(* The ingestion worker (services/ingestion-worker): any number of         *)
(* `python ingest.py` processes, started, killed and started again by an   *)
(* operator, that write filing chunks to Qdrant and to one SQLite file.    *)
(*                                                                         *)
(* Python's sqlite3 opens a transaction at the first INSERT.  It is        *)
(* upsert_document's, so a process holds the database's only write lock    *)
(* from there to the next commit: over the embedding calls, and, when a    *)
(* filing brings no new chunk, over the next filing's download too.        *)
(* Qdrant takes part in no transaction.                                    *)
(***************************************************************************)
EXTENDS Naturals, Sequences

CONSTANTS
    Runs,       \* the processes; a re-run of the command is another process
    NoRun,      \* writer = NoRun: nobody holds the SQLite write lock
    Filings,    \* SEC filings (documents.id is a hash of ticker:accession)
    Hashes,     \* text_hash values
    Texts,      \* Texts[f]: the hashes of the chunks of filing f, in order
    Plans       \* the filings a command line selects, sorted by filed_at

ASSUME IngestionAssumption ==
    /\ NoRun \notin Runs
    /\ Texts \in [Filings -> Seq(Hashes)]
    /\ Plans \subseteq Seq(Filings)

VARIABLES
    pc,         \* pc[r]: where process r is
    plan,       \* plan[r]: the filings it works through
    at,         \* at[r]: the index of the filing it is at
    fresh,      \* fresh[r]: new_chunks of _ingest_filing
    txDocs,     \* txDocs[r]: documents upserted in r's open transaction
    writer,     \* the process that holds the SQLite write lock
    docs,       \* committed rows of `documents`
    chunks,     \* committed rows of `chunks`
    points      \* points of the Qdrant collection

store == <<docs, chunks, points>>
vars == <<pc, plan, at, fresh, txDocs, writer, store>>

\* A chunk id is a fresh uuid4: here, who cut the chunk out of what, and when.
Chunk == [run : Runs, at : Nat, filing : Filings, pos : Nat, text : Hashes]

Current(r) == plan[r][at[r]]

\* chunk_document's output for the filing that process r is at.
Cut(r) ==
    {[run |-> r, at |-> at[r], filing |-> Current(r), pos |-> i,
      text |-> Texts[Current(r)][i]] : i \in DOMAIN Texts[Current(r)]}

\* The chunks of cs whose text no committed row has (get_existing_hashes).
Unseen(cs) == {c \in cs : \A row \in chunks : row.text # c.text}

Init ==
    /\ pc = [r \in Runs |-> "idle"]
    /\ plan = [r \in Runs |-> <<>>]
    /\ at = [r \in Runs |-> 1]
    /\ fresh = [r \in Runs |-> {}]
    /\ txDocs = [r \in Runs |-> {}]
    /\ writer = NoRun
    /\ docs = {}
    /\ chunks = {}
    /\ points = {}

-----------------------------------------------------------------------------
\* ingest, _ingest_ticker: the process connects and lists its filings.
Begin(r, p) ==
    /\ pc[r] = "idle"
    /\ pc' = [pc EXCEPT ![r] = "next"]
    /\ plan' = [plan EXCEPT ![r] = p]
    /\ at' = [at EXCEPT ![r] = 1]
    /\ UNCHANGED <<fresh, txDocs, writer, store>>

\* _ingest_filing up to the first hash check: download, parse, chunk, and drop
\* the chunks whose text some row holds.  The check reads committed rows only
\* and is not part of the transaction that will insert them.
PrepareFiling(r) ==
    /\ pc[r] = "next"
    /\ at[r] \in DOMAIN plan[r]
    /\ fresh' = [fresh EXCEPT ![r] = Unseen(Cut(r))]
    /\ pc' = [pc EXCEPT ![r] = "checked"]
    /\ UNCHANGED <<plan, at, txDocs, writer, store>>

\* Mutation: the document is upserted for filings without new chunks only.
Bug_NoDocument(r) ==
    /\ pc[r] = "checked"
    /\ writer \in {NoRun, r}
    /\ writer' = r
    /\ IF fresh[r] = {}
       THEN /\ pc' = [pc EXCEPT ![r] = "next"]
            /\ at' = [at EXCEPT ![r] = @ + 1]
            /\ txDocs' = [txDocs EXCEPT ![r] = @ \union {Current(r)}]
       ELSE /\ pc' = [pc EXCEPT ![r] = "embedding"]
            /\ UNCHANGED <<at, txDocs>>
    /\ UNCHANGED <<plan, fresh, store>>

\* Mutation: a filing without new chunks is tried again.
Bug_StaysAtFiling(r) ==
    /\ pc[r] = "checked"
    /\ writer \in {NoRun, r}
    /\ writer' = r
    /\ txDocs' = [txDocs EXCEPT ![r] = @ \union {Current(r)}]
    /\ pc' = [pc EXCEPT ![r] = IF fresh[r] = {} THEN "next" ELSE "embedding"]
    /\ UNCHANGED <<plan, at, fresh, store>>

\* upsert_document: takes the write lock (or goes on holding it) until the
\* next commit.  Without new chunks _ingest_filing returns 0 and commits
\* nothing: the row stays in the open transaction.
UpsertDocument(r) ==
    /\ pc[r] = "checked"
    /\ writer \in {NoRun, r}
    /\ writer' = r
    /\ txDocs' = [txDocs EXCEPT ![r] = @ \union {Current(r)}]
    /\ IF fresh[r] = {}
       THEN /\ pc' = [pc EXCEPT ![r] = "next"]
            /\ at' = [at EXCEPT ![r] = @ + 1]
       ELSE /\ pc' = [pc EXCEPT ![r] = "embedding"]
            /\ UNCHANGED at
    /\ UNCHANGED <<plan, fresh, store>>

\* Mutation: an error of client.upsert is logged and swallowed.
Bug_ErrorSwallowed(r) ==
    /\ pc[r] = "embedding"
    /\ points' \in {points, points \union fresh[r]}
    /\ pc' = [pc EXCEPT ![r] = "published"]
    /\ UNCHANGED <<plan, at, fresh, txDocs, writer, docs, chunks>>

\* embed_texts returned one vector per new chunk and upsert_vectors was
\* acknowledged.
PublishVectors(r) ==
    /\ pc[r] = "embedding"
    /\ points' = points \union fresh[r]
    /\ pc' = [pc EXCEPT ![r] = "published"]
    /\ UNCHANGED <<plan, at, fresh, txDocs, writer, docs, chunks>>

\* Mutation: upsert_chunks trusts the check _ingest_filing made.
Bug_NoRecheck(r) ==
    /\ pc[r] = "published"
    /\ chunks' = chunks \union fresh[r]
    /\ docs' = docs \union txDocs[r]
    /\ txDocs' = [txDocs EXCEPT ![r] = {}]
    /\ fresh' = [fresh EXCEPT ![r] = {}]
    /\ writer' = NoRun
    /\ at' = [at EXCEPT ![r] = @ + 1]
    /\ pc' = [pc EXCEPT ![r] = "next"]
    /\ UNCHANGED <<plan, points>>

\* Mutation: INSERT OR IGNORE on a unique text_hash keeps one of two equal texts.
Bug_UniqueText(r) ==
    /\ pc[r] = "published"
    /\ chunks' = chunks \union
         {c \in Unseen(fresh[r]) : \A d \in fresh[r] : d.text = c.text => d.pos >= c.pos}
    /\ docs' = docs \union txDocs[r]
    /\ txDocs' = [txDocs EXCEPT ![r] = {}]
    /\ fresh' = [fresh EXCEPT ![r] = {}]
    /\ writer' = NoRun
    /\ at' = [at EXCEPT ![r] = @ + 1]
    /\ pc' = [pc EXCEPT ![r] = "next"]
    /\ UNCHANGED <<plan, points>>

\* upsert_chunks repeats the hash check, now under the write lock, inserts what
\* is left, and _ingest_filing commits: document and chunk rows become visible
\* together (the insert trigger fills chunks_fts in the same transaction).
CommitFiling(r) ==
    /\ pc[r] = "published"
    /\ chunks' = chunks \union Unseen(fresh[r])
    /\ docs' = docs \union txDocs[r]
    /\ txDocs' = [txDocs EXCEPT ![r] = {}]
    /\ fresh' = [fresh EXCEPT ![r] = {}]
    /\ writer' = NoRun
    /\ at' = [at EXCEPT ![r] = @ + 1]
    /\ pc' = [pc EXCEPT ![r] = "next"]
    /\ UNCHANGED <<plan, points>>

\* Mutation: ingest without the commit after the loop.
Bug_NoFinalCommit(r) ==
    /\ pc[r] = "next"
    /\ at[r] \notin DOMAIN plan[r]
    /\ txDocs' = [txDocs EXCEPT ![r] = {}]
    /\ writer' = IF writer = r THEN NoRun ELSE writer
    /\ pc' = [pc EXCEPT ![r] = "done"]
    /\ UNCHANGED <<plan, at, fresh, store>>

\* ingest: the final commit saves the documents that brought no new chunk.
Finish(r) ==
    /\ pc[r] = "next"
    /\ at[r] \notin DOMAIN plan[r]
    /\ docs' = docs \union txDocs[r]
    /\ txDocs' = [txDocs EXCEPT ![r] = {}]
    /\ writer' = IF writer = r THEN NoRun ELSE writer
    /\ pc' = [pc EXCEPT ![r] = "done"]
    /\ UNCHANGED <<plan, at, fresh, chunks, points>>

-----------------------------------------------------------------------------
Live(r) == pc[r] \in {"next", "checked", "embedding", "published"}

\* The process ends early: conn.close() in `finally`, or the operating system
\* after a kill, rolls the open transaction back and frees the write lock.
Stop(r) ==
    /\ pc' = [pc EXCEPT ![r] = "failed"]
    /\ txDocs' = [txDocs EXCEPT ![r] = {}]
    /\ fresh' = [fresh EXCEPT ![r] = {}]
    /\ writer' = IF writer = r THEN NoRun ELSE writer
    /\ UNCHANGED <<plan, at, docs, chunks>>

\* An exception (SEC, parser, gateway, Qdrant, SQLite) or a kill, at any point.
Abort(r) ==
    /\ Live(r)
    /\ Stop(r)
    /\ UNCHANGED points

\* client.upsert raises (a timeout, say) after Qdrant applied the request.
PublishUnacknowledged(r) ==
    /\ pc[r] = "embedding"
    /\ points' = points \union fresh[r]
    /\ Stop(r)

\* sqlite3.connect's busy timeout: upsert_document gives up waiting for the
\* lock that another process holds and raises "database is locked".
LockTimeout(r) ==
    /\ pc[r] = "checked"
    /\ writer \notin {NoRun, r}
    /\ Stop(r)
    /\ UNCHANGED points

Step(r) ==
    \/ PrepareFiling(r)
    \/ UpsertDocument(r)
    \/ PublishVectors(r)
    \/ CommitFiling(r)
    \/ Finish(r)
    \/ LockTimeout(r)

Next ==
    \E r \in Runs :
        \/ \E p \in Plans : Begin(r, p)
        \/ Step(r)
        \/ Abort(r)
        \/ PublishUnacknowledged(r)

Spec == Init /\ [][Next]_vars

\* A started process keeps running: every network call it awaits has a timeout
\* and so has its wait for the lock.  Nothing makes an operator start one.
FairSpec == Spec /\ \A r \in Runs : WF_vars(Step(r))

-----------------------------------------------------------------------------
(***************************************************************************)
(* Properties                                                              *)
(***************************************************************************)

\* Every variable holds values of its type.
TypeOK ==
    /\ pc \in [Runs -> {"idle", "next", "checked", "embedding", "published",
                        "done", "failed"}]
    /\ plan \in [Runs -> Seq(Filings)]
    /\ at \in [Runs -> Nat]
    /\ fresh \in [Runs -> SUBSET Chunk]
    /\ txDocs \in [Runs -> SUBSET Filings]
    /\ writer \in Runs \union {NoRun}
    /\ docs \subseteq Filings
    /\ chunks \subseteq Chunk
    /\ points \subseteq Chunk

\* Two stores, no common transaction: whatever crashes, a chunk row that
\* keyword search can return has its vector in Qdrant (the join key of
\* docs/ingestion-output-contract.md).  _ingest_filing publishes first.
RowsHaveVectors == chunks \subseteq points

\* De-duplication by text_hash under concurrent processes: rows with the same
\* text were cut out of one filing in one go.  The early check of a process may
\* be stale by the time it inserts; the check under the write lock may not.
TextsStoredOnce ==
    \A c, d \in chunks : c.text = d.text => c.run = d.run /\ c.at = d.at

\* chunks.document_id references documents(id): no chunk row is visible
\* without the document row its process upserted in the same transaction.
RowsHaveDocuments == \A c \in chunks : c.filing \in docs

\* Each text of filing f is the text of one of these chunks.
Covered(cs, f) == \A i \in DOMAIN Texts[f] : \E c \in cs : c.text = Texts[f][i]

\* "Re-running the same command is safe ... it only ingests what's missing"
\* (README.md): once a run completes, every text of every filing it selected is
\* stored, by itself, an earlier run that failed half-way, or a concurrent one.
CompletedRunsCover ==
    \A r \in Runs : pc[r] = "done" =>
        \A i \in DOMAIN plan[r] : Covered(chunks, plan[r][i]) /\ plan[r][i] \in docs

\* A point without a row (an orphan) has a cause: its process failed, or has
\* not committed it yet, or lost the race for the text to another process.
OrphanCause(v) ==
    \/ pc[v.run] = "failed"
    \/ pc[v.run] = "published" /\ v \in fresh[v.run]
    \/ \E c \in chunks : c.text = v.text /\ c.run # v.run

OrphansExplained == \A v \in points \ chunks : OrphanCause(v)

\* Whoever works on an open transaction holds the write lock, and no lock
\* survives its process.
LockHeldByLiveWriter ==
    /\ writer # NoRun => Live(writer)
    /\ \A r \in Runs :
         pc[r] \in {"embedding", "published"} \/ txDocs[r] # {} => writer = r

\* Ingestion keeps the promise of the evidence index.
Index == INSTANCE EvidenceIndex
ImplementsEvidenceIndex == Index!Spec

\* A started process ends, even when others hold the lock it waits for.
RunsEnd == \A r \in Runs : Live(r) ~> pc[r] \in {"done", "failed"}

-----------------------------------------------------------------------------
(***************************************************************************)
(* The inductive invariant behind the safety properties                    *)
(***************************************************************************)

Working(r) == pc[r] \in {"checked", "embedding", "published"}

\* A process stays within its plan, and within it while it works on a filing.
InPlan ==
    \A r \in Runs :
        /\ at[r] \in 1 .. Len(plan[r]) + 1
        /\ Working(r) => at[r] \in DOMAIN plan[r]

\* new_chunks belong to the filing at hand; the process itself has stored none
\* of their texts; they are in Qdrant once upsert_vectors returned.
BatchSound(r) ==
    /\ \A c \in fresh[r] :
         /\ c.run = r /\ c.at = at[r] /\ c.filing = Current(r)
         /\ \A row \in chunks : row.text = c.text => row.run # r
    /\ fresh[r] # {} => Working(r)
    /\ pc[r] = "published" => fresh[r] \subseteq points

BatchesSound == \A r \in Runs : BatchSound(r)

\* The document of the filing at hand is upserted before its chunks are.
DocumentsFirst ==
    \A r \in Runs : pc[r] \in {"embedding", "published"} => Current(r) \in txDocs[r]

\* What a process has been through is stored or waits for its next commit; of
\* the filing at hand, each text is stored or among new_chunks.
Behind(r) ==
    pc[r] # "failed" =>
        \A i \in 1 .. at[r] - 1 :
            Covered(chunks, plan[r][i]) /\ plan[r][i] \in docs \union txDocs[r]

AtHand(r) == Working(r) => Covered(chunks \union fresh[r], Current(r))

Over(r) == pc[r] = "done" => txDocs[r] = {} /\ at[r] \notin DOMAIN plan[r]

Progress(r) == Behind(r) /\ AtHand(r) /\ Over(r)

ProgressCovered == \A r \in Runs : Progress(r)

IInv ==
    /\ TypeOK
    /\ InPlan
    /\ BatchesSound
    /\ DocumentsFirst
    /\ LockHeldByLiveWriter
    /\ RowsHaveVectors
    /\ TextsStoredOnce
    /\ RowsHaveDocuments
    /\ OrphansExplained
    /\ ProgressCovered
=============================================================================
