# Finance Context Agent: TLA+ models, model checking and proofs

This directory models the Finance Context Agent (FinContext): an ingestion
worker that turns SEC filings into citation-ready evidence in two stores, and
an Agent API that answers questions about a portfolio out of that evidence.
Paths below are relative to the repository root (`src/`).

## 1. The system

| Component | Source | State it keeps | Operations |
|---|---|---|---|
| Ingestion worker | `services/ingestion-worker/ingest.py`, `worker/db.py`, `worker/vector_store.py` | one SQLite file (`documents`, `chunks`, `chunks_fts`), one Qdrant collection, an open transaction per process | `ingest`, `_ingest_ticker`, `_ingest_filing`, `upsert_document`, `upsert_vectors`, `upsert_chunks` |
| Parser and chunker | `worker/parsers/sec_html.py`, `worker/chunking.py` | the tree that tables are taken out of while it is read | `parse_html`, `chunk_document` |
| Embedding client | `worker/embeddings.py` | none | `embed_texts`, in batches |
| SEC client | `worker/sec_client.py` | a rate limiter, a cache directory of filings shared by all processes | `get_filings`, `download_filing` |
| Operator's tools | `validate_ingestion.py`, `export_handoff.py`, `infra/ops/demo_data_snapshots.py`, `infra/qdrant/init_collection.py` | backup files, hand-off files, the collection | count validation, hand-off export, backup and snapshot, `--recreate` |
| Agent API | `services/agent-api/main.py`, `app/clients/db.py` | `portfolios`, `holdings`, `analysis_jobs` in the same SQLite file; background tasks in memory | upload, start, `run_job`, poll, findings, documents, diff, chat |
| Analysis graph | `app/graph.py`, `app/agents/*` | one `AnalysisState` per run | planner, retrieval, disclosure change, memo |
| Hybrid retrieval | `app/retrieval.py`, `app/clients/qdrant.py` | none | keyword and vector search, fusion, rerank, diversity |
| Inference gateway | `services/inference-gateway/` | a window of the last 1000 request records | proxying, streaming, `/metrics` |
| Embedding service | `services/embedding-service/main.py` | two lazily loaded models | embed, rerank |
| Demo UI | `apps/demo-ui/src/App.jsx`, `lib/apiClient.js` | React state per tab, the active portfolio | start, poll, load findings, memo, diff, documents |
| Scripts | `scripts/dev_up.sh`, `scripts/dev_down.sh`, `infra/ops/vm_preflight.py` | pid files | start, stop, probe |

How they interact:

* `ingest.py` is an ordinary command: several may run at once, any may be killed
  and run again.  It writes Qdrant first and SQLite second.  The two share no
  transaction; what joins them is the chunk id.
* Python's `sqlite3` opens a transaction at the first INSERT, which is
  `upsert_document`'s.  The process then holds the file's only write lock until
  its next `commit()`: over the calls to the gateway and to Qdrant, and, for
  filings that bring no new chunk, over following downloads as well.
* The Agent API writes its jobs into the same file, each write a connection and
  a transaction of its own, with SQLite's five-second busy timeout.  So an
  ingestion run can make the API's writes fail.
* The API reads chunks (keyword search) and points (vector search) while
  ingestion adds to them, and reads a job's row and its results in two
  transactions while `run_job` writes them.
* `init_collection.py --recreate` deletes the Qdrant collection and creates it
  again.  It looks at nothing else: SQLite may hold rows, ingestion may be running.

What is hard here: two stores without a common transaction; checks made before
a lock and used after it; failures in the middle of a pipeline and re-runs of
all of it; a background task whose failure handler writes to the resource that
failed; readers that combine two reads.  The full list, with lines, is under
`hazards` in `PROJECT.json`.

What makes the parts correct:

* evidence: each chunk row has its vector; each text is stored once; a row is
  visible only with its document; a completed run has stored everything it
  selected; a vector without a row has a known cause;
* tools: an "in sync" verdict, a pair of backups and a hand-off mean what they say
  although nothing stops ingestion meanwhile, but for points that the operator
  deleted;
* parsing and chunking: an item's chunks say all the text under one of its headings,
  wherever the markup puts wrappers and however often the heading is matched;
* jobs: what a client is told about a job agrees with the job; it is never told
  of an older analysis than one it had accepted; what has ended stays as it is;
  an unfinished row is the trace of a runner that exists or was lost;
* both together: an analysis cites only what is, or was, a point of the collection;
* acquisition: a chunk is stored with its own vector; a re-run adds what is
  missing;
* analysis: a memo cites only what was retrieved, and failures stay visible;
* console: what is shown is what its label and its boxes say.

## 2. Modules and how they correspond to the code

Every definition that models code has its source lines under `map` in
`PROJECT.json`.  The names of actions are the code's where it has one.
Operators named `Bug_...` are no part of a specification: each is a plausible
mistake in the definition that follows it, and the mutants in `PROJECT.json` say
which property such a mistake violates.

```
 EvidenceIndex  <--implemented by--  Ingestion  <--extends--  EvidenceOps (all readers)
                                        ^  text of filings
                                        |                FilingCache   ModelCalls
                                  SharedDatabase               \         /
                                        |  busy <- write lock   Acquisition
                                   AnalysisJobs <-- DemoConsole (over HTTP)
                                        |  (outcomes)
 AnalysisGraph  <--implemented by--  Analysis
                                        |  extends
                               AnalysisGraph, Retrieval --extends--> SectionDiversity

 FilingChunks --extends--> SectionParsing, Chunking (one section of a filing)

 Ordering, TokenCounter: operators on lists and texts, without state
```

| Module | Models | State | Steps |
|---|---|---|---|
| `EvidenceIndex` | what ingestion promises its readers (abstract) | `chunks`, `points` | `Publish` adds points; `Commit` adds rows whose points exist and whose texts are new |
| `Ingestion` | any number of `ingest.py` processes over one SQLite file and one Qdrant collection | committed `documents`, `chunks`; `points`; `writer` (who holds the write lock) and the open transaction; per process its place in its plan and its batch | one action per statement that touches a store: `PrepareFiling`, `UpsertDocument`, `PublishVectors`, `CommitFiling`, `Finish`; the ways to fail: `Stop` (killed), `Abort` (an exception), `PublishUnacknowledged` (Qdrant applied it, the answer was lost), `LockTimeout` |
| `EvidenceOps` | whoever reads both stores beside `Ingestion` (validator, backups, hand-off export, the searches of an analysis), and `--recreate` | what was counted, copied, listed, found; whether there is a collection; the points dropped with it | `CountRows` before `CountPoints`, `BackupSqlite` before `SnapshotQdrant`, `ListChunks` before `DescribeDocuments`, the failure of each; `SearchRows` and `SearchVectors` in any order; `DropCollection` at any time, `CreateCollection` |
| `AnalysisJobs` | `POST /api/analyze`, `run_job`, `GET /api/findings`, restarts | the table's columns as functions of the job; `runner` (where the background task is); `ask` (where a request is) | one action per transaction, and its refusal by the busy lock |
| `SharedDatabase` | `Ingestion` and `AnalysisJobs` (`INSTANCE ... WITH busy <- writer # NoRun`) on one file | both | steps of either |
| `SectionParsing` | `sec_html.py`: blocks, headings, sections, tables taken out of the tree | the tree, its blocks, where sections start, what is gone from the tree, the section under construction, the sections kept | `TakeBlock` (one turn of `_build_section`'s loop), `EndSection` (what `extract_sections` does with its result) |
| `Chunking` | `chunk_document` on one section | sentences consumed, units, chunks, the open piece, the tokens of its joints and those that the loop has counted | one action per branch of `_split_long_paragraph`, `windows` and `_chunk_text` |
| `FilingChunks` | a filing from its page to its chunks: `SectionParsing`, then `Chunking` for each section | both; `filed`: the chunks with their item | steps of either, `OpenSection`, `FileSection` |
| `Ordering` | `sorted` and list comprehensions: a set listed in an order, a list filtered, lists flattened | none | none |
| `TokenCounter` | `TokenCounter.count`: how many tokens a text, a list of parts, has, and what joining texts may add | none | none |
| `AnalysisGraph` | the four nodes, each of which may fail or be answered anything; retrieval returns any evidence of the planned tickers | the fields of `AnalysisState` | `Planner`, `Retrieval`, `Change`, `Memo` |
| `SectionDiversity` | `apply_section_diversity` | the list, the index, what is taken | `TakeOrSkip` |
| `Retrieval` | `hybrid_retrieve`; extends `SectionDiversity` | per ticker what was found; the list in its three orders | `Search`, `SearchKeywordsOnly`, `SearchFallsBack`, `SearchRaises`, `Merge`, `Rerank`, `Select` |
| `Analysis` | `AnalysisGraph` with `Retrieval` inside its second node; implements `AnalysisGraph` | both | the other nodes, `StartRetrieval`, steps of `Retrieval`, `EvidenceArrives`, `RetrievalRaises` |
| `FilingCache` | the cache directory of `sec_client.py` | per file what is in it; per process where it is | `ReadCached`, `Miss`, `OpenToWrite`, `WritePart`, `CloseWritten`, `FetchFails`, `Stop` |
| `ModelCalls` | `EmbeddingClient`, and what comes back to it from the gateway's `_proxy_json` | per client its texts, vectors and attempt | `Post`, `PostFails`, `Answer`, `AnswerFails`, `TimesOut` |
| `Acquisition` | `FilingCache` and `ModelCalls` in one ingestion process | `stored`: chunks with their vectors | `ChunkFiling`, `StoreFiling`, `FilingFails`, `Kill` |
| `DemoConsole` | App.jsx with its seven tabs around `AgentApiClient` | what the mounted tab shows and says; calls under way; the active portfolio | one action per handler and per answer |

`Ingestion` and `Acquisition` look at one process from two sides.  `Ingestion`
takes the text of a filing as given and follows transactions; `Acquisition`
leaves the write lock out and follows where text and vectors come from, so that
a text may be half of a file.

Some choices that a reader of the code may wonder about:

* Sorting is defined without recursion: the n-th of a sorted list is the member with
  n - 1 members before it.  So the modules that sort, filter or flatten can be proved
  about, and TLC evaluates the same definitions.
* A text is its hash; a chunk is a record of the process, filing and position
  it was cut at, so that the fresh `uuid4` of each cut is a different chunk.
* A transaction's uncommitted rows are part of the process's state.  A crash
  loses them, a commit adds them all at once.
* A piece of text is an interval of the section's tokens; counted as a whole it may
  have more: `Joint` bounds what joining two texts adds.  With words as tokens that is
  nothing, with tiktoken a blank line after a word is a token.  `_chunk_text` counts
  its units one by one (`counted`) and its chunks as a whole (`Whole`), and so does the
  model.  What a joint adds is any number up to `Joint`.
* `--recreate` is two requests.  Between them there is no collection: an upsert, a
  count, a snapshot then fails, a search finds nothing.  `dropped` is a history of the
  points that were deleted.
* Nondeterminism stands for what the code does not determine: the order in
  which SQLite ranks equal scores, the similarity of vectors, a model's text,
  whether a service answers.
* History variables (`interrupted`, `readEarly`, `meanwhile`, `reasoner`, `known`
  of a request) are only read by properties.

## 3. Runs

| Run | Instance | What it shows |
|---|---|---|
| `ingestion` | 3 processes, each may be killed or fail at any step and is run again; 3 filings | The stores join, each text is stored once, rows have documents, completed runs have stored everything, orphans have a cause, runs end, and the processes implement `EvidenceIndex` |
| `evidence_ops` | 2 processes, 2 filings, hand-offs of up to 2 chunks, an analysis, `--recreate` at any time | But for points dropped by `--recreate`: rows have their vectors; an in-sync verdict means that the rows counted have their points; the two backups join; a hand-off describes the documents of its chunks and its point ids resolve; what an analysis cites is a point |
| `analysis_jobs` | 2 analyses, 2 portfolios, 1 client that asks again and again, restarts, refused writes | Answers match the job, are not of an older job than the client knew of, ended jobs stay as they are, unfinished rows are explained, runners stop |
| `shared_database_failures` (violation) | 1 analysis beside 2 processes | A failure of `run_job` is not always persisted (section 6) |
| `chunking` | every tree of up to 6 nodes with 2 items; 6 larger pages of the kinds EDGAR has; every section of up to 4 sentences, the longest of which needs 3 windows | An item's chunks say all the text under one of its headings and nothing else, tables stay apart and are kept; units partition the text; chunks lose nothing, are full, bounded but for joints, and overlap |
| `hard_limit` (violation) | the same | A chunk may exceed the hard limit (section 6) |
| `tables_lost` (violation) | the same | Of an item whose heading is matched twice, tables may be lost (section 6) |
| `analysis` | 2 tickers, 6 chunks of 3 filings, every ranking, outage and reranker reply, memo replies of up to 2 sentences | A memo cites what was retrieved, changes span periods, a state without an error is complete; agreement of the rankings counts, reranking loses and invents nothing, outages alone do not leave a portfolio without evidence, the selection leaves nothing out without a cause; `Analysis` implements `AnalysisGraph` |
| `section_diversity_drift` (violation) | the same | The selection may leave the older 10-K out (section 6) |
| `acquisition` | 2 processes, 3 runs between them, a filing of 3 parts in 2 batches | Vectors belong to their texts, gaps have a cause, runs end |
| `acquisition_rerun` (violation) | 1 process, 2 runs | A re-run after a kill may miss a filing's text for good (section 6) |
| `demo_console` | 7 tabs, 3 tab switches, 3 calls, 2 uploads, 2 analyses | Callouts agree with data, data with what was asked |

Why the bounds are enough to meet the cases of interest:

* `ingestion`: the hazards need a process that fails half-way, one that
  overtakes it and one that waits for the lock.  Filings share a text
  (boilerplate), one repeats a text, one brings nothing new and so keeps the
  transaction open over the next filing.
* `analysis_jobs`: two jobs are enough for "newest" to be ambiguous and for one
  to overtake the other; initial states are taken up to renaming (`MCInit`).
* `chunking` (pages): six nodes are enough for a heading in two wrappers followed by
  a table, for a table around headings and for a wrapper that reaches over the next
  heading; two items give each section a next one.  Texts alone at the top of a page
  are left out there, since no block collects them (section 6); the larger pages
  combine a table of contents, repeated boilerplate and page layout by tables, and
  separate two headings of one item by contents or by a table around the first one.
* `chunking` (sections): the five sizes are small but keep the order that
  100 < 200 < 600 < 1000 < 1200 has in the code; four sentences let each branch
  follow each other one.  `Joint` is 1: a blank line is one token.
* `analysis`: caps and limits keep their order (3 and 2 are the code's own);
  a budget and the final limit can each be the reason for leaving a chunk out.
  `Scale` makes all shares whole numbers.  Qdrant lacks some of the rows; anchors are
  shared by years as in the code; a plan may name a ticker twice.
* `evidence_ops`: two processes are enough for orphans to make up for dropped points
  in the counts, and the searches may repeat before, between and after two uploads.
* `acquisition`: two attempts instead of three reach the last attempt; a filing of
  three parts makes a full batch and a rest.  `MaxRuns` bounds the runs: two writers
  may overlap, or one be killed, and a third run reads what they left.
* `demo_console`: `MaxCalls` and `MaxSwitches` are enough for two overlapping calls
  of one tab, and for an upload that is answered while another tab has loaded
  findings.
* Symmetry (`evidence_ops`, `shared_database_failures`) is used only where all properties
  are invariants; processes, jobs and portfolios are interchangeable there.
* `CHECK_DEADLOCK FALSE` everywhere: a command ends, an analysis ends, a page has
  had its calls.

Fairness.  `Ingestion` and `Acquisition` assume weak fairness of `Step(r)` of a
process: all it waits for has a timeout (busy timeout, 30 s, 60 s), so that some
outcome, failure included, is always to come.  Nothing is assumed of kills, of
operators, or of the gateway, whose silence is an outcome (`TimesOut`).
`AnalysisJobs` assumes weak fairness of `RunStep(j)`, a coroutine of the API's
event loop; nothing is assumed of `OthersWrite`, so a foreign writer may hold the
lock for ever and runners must stop all the same.  `DemoConsole` assumes none:
`fetch` has no timeout there, and nothing is promised to end.

## 4. Proofs

The theorems hold for all values of the constants that satisfy the named
assumptions; TLC evaluates these in every run.  The assumptions say no more than
that sizes are numbers in the code's order, plans are sequences of filings, and
sentinels are not among the values they stand beside.

* `IngestionProofs`: the invariant `IInv` has the properties of the run and
  four strengthenings without which it is not inductive.  `InPlan`: a process at
  work is within its plan.  `BatchesSound`: the batch at hand consists of cuts of
  the current filing, and is complete.  `DocumentsFirst`: before chunks are
  inserted the transaction holds the document.  `ProgressCovered`: the
  texts of all filings behind a process are in committed rows, their documents
  there or in its open transaction, and the texts of the filing at hand are
  stored or in its batch.  The last is what makes `CompletedRunsCover`
  provable: a text found by the hash check is in a row that no one deletes.
  `LockHeldByLiveWriter` carries the argument that two commits never interleave,
  on which `TextsStoredOnce` rests.  `IngestionImplementsEvidenceIndex` maps each
  step to `Publish`, to `Commit` or to a stutter.
* `BesideIngestionProofs`, the readers: `IngestionBesideTools` is the step that makes
  `--recreate` provable.  Points and dropped points together behave as the points of
  `Ingestion` (`Kept == INSTANCE IngestionProofs WITH points <- points \union dropped`),
  so `IInv` holds of them, and `RowsLackDroppedOnly` is `RowsHaveVectors` there.
  `OpsInv` adds that what was counted or copied first is still in the stores
  (`ReadsSound`), which is why the order SQLite, then Qdrant matters; that stores and
  dropped points are finite; and that what a hand-off lists is stored for good with its
  document, so that the second query can only find more.
  `CitationsAlwaysHavePoints` follows from the same.
  The Agent API: `ApiBesideIngestion` shows that the composition implements
  `AnalysisJobs` with the ingestion's lock as `busy`, so all of its theorems hold
  there.
* `AnalysisJobsProofs`: `JobsIInv` says for each place of a runner what its row holds
  (`RunnerSound`), and that what a request has read stays true (`RequestSound`).
  One lemma per kind of step.  `EndIsAlwaysFinal` is an action property from it.
* `OrderingProofs`: a finite set in a strict order is listed once each and in order
  (`OrderedLists`, from `RankGrows`: a member that comes later has more members before
  it), and what follows for filtered and flattened lists.  `LowestNumber` stands in for
  induction on numbers where a proof needs a first or a least one.
* `ChunkingProofs`, one section: `ChunkingIInv` describes the open piece: it follows the
  last unit (`Splitting`), the open chunk follows the last chunk with an overlap
  (`Assembling`), and the units end where the sentences taken do (`Consumed`).  The
  last, with `TokensAddUp`, is what makes `NothingLost` reach the last token of the
  section.  `Assembling` also says what `current_tokens` is worth: no less than the
  units' own tokens, no more than the tokens of the chunk (`Count <= counted` and
  `counted <= Whole`).  No assumption but `Joint \in Nat` is made of joints.
* `ChunkingProofs`, a filing: `FilingIInv` says that what is gone from the tree is the
  tables of the blocks taken, with all that is in them (`RemovedTables`); that a section
  kept has all the text under one heading and says nothing from elsewhere
  (`SectionsFromHeadings`); that text under any heading leaves its item a section with
  words (`TextCollected`), since of several sections the longest is kept; that each
  table removed is in a list of a section kept, where headings are unique
  (`RemovedTablesKept`); and that what is filed is all the text and tables of the sections
  behind (`SectionsFiled`).  The step from a section to its chunks is
  `AllPhrasesChunked`: each token of a section is in some chunk, so each phrase is.
  Trees need no induction: a node is its interval of the page, and intervals nest
  (`TreesNest`).
* `AnalysisProofs`, the selection: `SelectionIInv` says that each chunk passed over has a
  budget that is spent and that budgets stay spent.  `PeriodsAlwaysSurvive` needs
  that the cap per date is the smaller one.
* `AnalysisProofs`, the graph: `GraphIInv` says what a node may rely on although any node
  before it may have failed: what later nodes write is still as it was at the start
  (`Untouched`), an error is marked and without one each node has done its work
  (`ErrorsMarked`), changes are pairs of retrieved chunks (`ChangesRetrieved`).
  `RateTellsRemoval` is the lemma behind the pass rate: two finite numbers, of the
  citations and of those that pass, are equal exactly if no sentence was removed.
  Names and replies are arbitrary there.
* `AnalysisProofs`, the retrieval: `AnalysisIInv` says that what a ticker's searches found
  is ranked evidence of that ticker and something if SQLite has something
  (`FoundFused`), that the candidates are what the plan's tickers brought
  (`CandidatesOfTickers`), and in which stage the selection runs (`SelectionInTurn`).
  From it `AnalysisImplementsGraph` maps each step to a step of `AnalysisGraph` or to a
  stutter, so that the theorems about the graph hold of the composition
  (`AnalysisKeepsItsPromises`).  `AgreementKept` is about sums of reciprocal ranks in
  whole shares: a chunk that is earlier in both rankings has the higher score.
  `EvidenceIfAny` follows the evidence through merging, reranking and selection, none of
  which empties a list.
* `AcquisitionProofs`: `AcquisitionIInv` covers the cache and the client together.
  `FilesFilled`: what a file lacks is still to be written by a process at work on it, or
  its writer was killed.  `TextsWhole`: a text read is whole or excused.
  `CallsWithinFiling`: the batches at hand are of the filing at hand and, with what is
  stored, all of it.  `VectorsInStep`: the vectors so far are those of the first texts.
  `PassedStored`: filings behind a run are stored.
* `DemoConsoleProofs`: `ConsoleIInv` says what a call under way has to do with the tab
  that will get its answer: it was sent by a button of that tab (`CallsOfTab`), asked
  for what the tab is still about unless the history names a cause
  (`AskedIsCurrent`), and is alone unless calls overlap (`OverlapMarked`).  A tab
  that is opened has no calls of its own, which is why losing the state of the old
  tab matters.

What proving changed in the model.  An earlier form of `HeadedTextFiled` asked that text
under a heading bring its own words into the item's chunks.  That holds on every page
of six nodes and is false on larger ones: two lines of contents in one block are a
paragraph to the code, so after `heading, contents, heading, text` the longer section is
the one of the contents.  The property now says what the code does provide, all the text
under one of the headings; two pages in `MCChunking` are of this kind.  `NothingLost` used
to end at the last unit; it now ends at the section's last token.

Every safety, action and refinement property of a passing run is a theorem.  Only
model-checked is liveness (`RunsEnd`, `RunnersStop`, `AcquisitionEnds`), since the prover
does not reason about fairness.

The type invariants of `Ingestion`, `EvidenceOps`, `AnalysisJobs`, `Chunking`,
`FilingChunks`, `SectionDiversity`, `AnalysisGraph`, `Acquisition` and `DemoConsole` are
theorems and need no run of their own.

## 5. Properties worth an argument

* `RowsHaveVectors` depends on the order of two calls in `_ingest_filing` alone.
* `TextsStoredOnce` does not follow from the hash check in `_ingest_filing`, which
  another process can invalidate, but from the second one in `upsert_chunks`,
  which runs under the write lock that `upsert_document` has taken.
* `OrphansExplained`: a point without a row is the trace of a run that failed, is
  under way, or was overtaken by another between its upsert and its commit.
* `InSyncMeansJoined` would be false if points were counted before rows.  It does not
  promise joined stores after `--recreate`: orphans of failed runs can make up for as
  many dropped points, and then the validator says "in sync" of stores that are not.
* `LacksDroppedOnly`: `--recreate` beside loaded data or a running ingestion is the only
  way to a row without a vector, and a lasting one (section 6).
* `SizesBounded` is what the loop's arithmetic gives: `current_tokens` leaves blank
  lines out, so a chunk may exceed the limit by its joints, and the last one by a merged
  piece besides.
* `HandoffsResolve` holds without a transaction around the two queries only because
  chunks are listed before documents, rows are never deleted and documents become visible no later than their chunks.
* `HeadedTextFiled` has to survive that one heading is several blocks, that a table of
  contents has the same headings, that nested blocks say everything twice and that
  tables are gone when a later heading reaches them: whichever section of an item is
  kept, nothing under its heading is missing from the index.
* `TablesIsolated`: what a block says depends on which tables were taken out of the
  tree by the blocks before it.
* `FindingsNotOlder` is what the code provides in place of "the most recent completed
  job" (section 6).  It holds although `created_at` is read before the INSERT waits
  for the lock: what decides is that a client learns of a job only after it.
* `CleanMeansComplete` is what `run_job` takes for granted when it calls a job
  completed; the agents establish it, each on its own failure paths.
* `VectorsMatchTexts` holds because each attempt is a connection's own request and
  answers are sorted by index; `zip(..., strict=True)` then checks lengths only.
* `GapsExplained` says how far the cache can be trusted: files that were written
  to the end and read after that are never the cause of a gap.
* `ShownIsAsked` rests on tabs losing their state when they are left.

## 6. Where the code and its documents disagree

Shown by a run:

* `shared_database_failures`: `main.py:250` "background jobs must persist
  failures"; the handler's own write may find the database locked, and the row
  stays queued or running for ever.
* `section_diversity_drift`: `retrieval.py:70` promises that caps stop one period
  from "crowding out older periods the disclosure-drift diff step needs"; 10-Q and
  10-K share a budget, the drift step compares filings of one type.
* `acquisition_rerun`: `README.md:271` calls re-runs safe, also after "a previous run
  that failed partway through"; a run killed in `write_text` leaves a file that is
  trusted from then on.  A ticker map cut short in the same way makes every later
  run fail until it is deleted by hand.

* `hard_limit`: `docs/data-and-retrieval.md:163` has "1,200 tokens" as a "Hard limit", and
  `test_chunking.py:52` asserts the limit of its text; `chunking.py:204` adds units up
  without the blank lines between them, and `:211` appends a small last piece to a chunk
  whatever its size.
* `tables_lost`: `docs/data-and-retrieval.md:174` "Each table becomes its own chunk
  regardless of size"; where the heading is in nested blocks, each of them starts a
  section, words in tables do not count, and of two sections without words the first,
  empty one is kept (`sec_html.py:109`).

Where a passing run shows what the code does instead of what a document says:

* `chunking`, `NothingLost`: `docs/data-and-retrieval.md:164` "Discard tiny fragments
  that have no retrievable value"; no piece is discarded, a small one is appended to
  the chunk before it or kept as the only one (`chunking.py:208`).
* `analysis_jobs`, `FindingsNotOlder`: `docs/api-contracts.md:154` "returns findings from
  the most recent completed job", or of the `job_id` given; `main.py:358` takes no
  `job_id` and looks at the newest job of any status, so that while one runs, or after
  one stored nothing, the findings of an older one cannot be had.
* `evidence_ops`, `LacksDroppedOnly`: `README.md:271` "Re-running the same command is
  safe [...] it only ingests what's missing"; after `--recreate` on loaded data
  (`init_collection.py:70`, which the VM playbook allows "when everyone agrees") a
  re-run restores no point, since each text is known to SQLite by its hash.
* `demo_console`, `LabelsHonest`: `App.jsx:5` "staying honest about backend state".  That
  is true of the callouts.  The chips (`App.jsx:328`, `530`, `619`) follow the probe and
  not the data: live data loaded while the probe is pending, or after it failed, stand
  beside "Sample data" or "Sample memo".  `ChipsHonest` in `DemoConsole` states what does
  not hold; added to `MCDemoConsole.cfg`, TLC refutes it in five states (the probe fails,
  a tab is opened, its load succeeds).

Observed while modelling, without a run of their own:

* `vector_store.py` does not de-duplicate by `text_hash` as the worker's README
  (line 41) says: a re-run after a failed commit publishes a text again.
* An analysis may cite a point that has no row in SQLite (`qdrant.py:95`), although
  `docs/ingestion-output-contract.md:77` calls the ids a join key.
* A low citation pass rate does not bring the fallback memo
  (`analyst_memo.py:12` against `:160`); the outage of the memo model does, without
  marking the state as partial (`docs/agent-design.md:413` against `:164`).
* Changes with a confidence below 0.3 are kept (`docs/agent-design.md:284` against
  `disclosure_change.py:87`).
* `GET /api/diff` compares the first with the last of the twelve newest chunks of a
  section (`main.py:392`, `clients/db.py:134`).  A section of twelve chunks in the newest
  filing, which is the rule, is compared with itself, where
  `docs/architecture.md:141` has a comparison of two filing years.
* Blocks are matched at every level of nesting: nested blocks say a text again (only a
  paragraph that repeats another to the letter is dropped), and a wrapper that reaches
  over the next heading brings the next item's text into its section (`SectionsEnd` is
  about the blocks that start before the next heading, to their end).  Of several
  sections of an item the one with most words is kept, which may be that of a line of a
  table of contents: with a wrapper after its last line, or with two lines in one block.
  Text that no block tag encloses is in no section.
* Citation anchors have no date, so one anchor stands for the same paragraph of
  several filings (`docs/demo-plan.md:91` against `analyst_memo.py:123`).
* The gateway's README (line 64) says `/metrics` is about the last 1,000 requests.
  Answers that are not JSON, the gateway's own errors and its timeouts leave no record,
  a stream is recorded as status 200 whatever it carried, and a restart empties the
  window (`main.py:27`).
* The console probes the API once.  If it goes down later, a failed load leaves the
  sample on screen with an error text and a chip that says "Can load live".
  `normalizeBenchmark` takes any non-empty answer for metrics.

## 7. What is not modelled

* In the parser: the regular expressions that recognise a heading (a text is one, a
  line of contents, or other) and the markup of tables.
* Risk scores, wording, prompts, confidence values: no control depends on them.
* FTS query syntax, BM25 and vector similarity: arbitrary rankings.
* The validator's other three checks (FTS rows, anchors, the summary of documents)
  read one row or one state each; its FTS count may differ while ingestion runs,
  which the operator sees as a mismatch that a second call does not confirm.
* The read-only endpoints (job, documents, diff, benchmark) answer from one SELECT or
  from constants; chat runs the graph once and stores nothing.
* The SEC rate limiter: real time, and never contended, since a process downloads one
  filing after the other.  URL building and the selection of filings by date and type.
* The embedding service's lazy loading: two first requests may load a model twice, with
  the same answers.  Health checks and `/metrics` formatting.
* Development scripts (pid files, one command at a time), VM preflight (a list of
  independent probes), schemas (types only), evals (fixtures).
* The gateway's metrics window (section 6, in memory, read by a panel only), streaming
  and its routes other than the embeddings'.
* Joints that save a token (a text joined of two may have fewer tokens than they have),
  and pieces whose count changes when they are cut out of a text.
* Rendering in the console other than callouts and chips; formatting and previews in the hand-off file.

## 8. Plan

Order of work: evidence stores (`EvidenceIndex`, `Ingestion`, `EvidenceOps`), jobs
(`AnalysisJobs`), their composition (`SharedDatabase`), the pure algorithms
(`Ordering`, `Chunking`, `SectionDiversity`, `SectionParsing`), the pipelines (`FilingChunks`,
`Retrieval`, `AnalysisGraph`, `Analysis`), the edges (`FilingCache`, `ModelCalls`,
`Acquisition`, `DemoConsole`).  All of these exist.  Left:

1. `DemoConsole` over `AnalysisJobs` instead of arbitrary answers.
2. `GET /api/diff` beside `Retrieval`, with what section 6 says of it as a run.
