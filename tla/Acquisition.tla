----------------------------- MODULE Acquisition -----------------------------
(***************************************************************************)
(* How ingestion processes come by the text of their filings (FilingCache) *)
(* and by its vectors (ModelCalls), up to the rows they store.  The module *)
(* Ingestion takes a filing's text as given; here it may be half a file.   *)
(* The write lock of SQLite, which Ingestion models, is left out: without  *)
(* it there are more interleavings, not fewer.                             *)
(* Each part of a file is one chunk.                                       *)
(***************************************************************************)
EXTENDS FilingCache, ModelCalls

ASSUME SameProcesses == Clients = Procs

VARIABLE stored     \* the chunks in both stores, each with its vector

acquisitionVars == <<cacheVars, callsVars, stored>>

Filings == {Files[i] : i \in 2..Len(Files)}
StoredTexts == {s.text : s \in stored}

AcquisitionInit ==
    /\ CacheInit
    /\ CallsInit
    /\ stored = {}

-----------------------------------------------------------------------------
\* get_company_record and get_filings have what they need.
TakeTickers(p) ==
    /\ File(p) = TickerMap
    /\ Proceed(p)
    /\ UNCHANGED <<callsVars, stored>>

\* parse, chunk and get_existing_hashes: without a new chunk the filing is
\* done with, otherwise the new ones are embedded, in order.
ChunkFiling(p) ==
    /\ cachePc[p] = "text"
    /\ File(p) # TickerMap
    /\ embedPc[p] = "idle"
    /\ LET new == {i \in text[p] : <<File(p), i>> \notin StoredTexts}
           order == Ascending(new)
       IN  IF new = {}
           THEN Proceed(p) /\ UNCHANGED callsVars
           ELSE /\ StartEmbedding(p, [k \in DOMAIN order |-> <<File(p), order[k]>>])
                /\ UNCHANGED cacheVars
    /\ UNCHANGED stored

\* The call of embed_texts is over, and what it kept is gone.
EmbedderIdle(p) ==
    /\ embedPc' = [embedPc EXCEPT ![p] = "idle"]
    /\ texts' = [texts EXCEPT ![p] = <<>>]
    /\ vectors' = [vectors EXCEPT ![p] = <<>>]
    /\ attempt' = [attempt EXCEPT ![p] = 0]

\* zip(new_chunks, vectors, strict=True), upsert_vectors, upsert_chunks, commit.
StoreFiling(p) ==
    /\ embedPc[p] = "embedded"
    /\ stored' = stored \cup {[text |-> texts[p][i], vector |-> vectors[p][i]] : i \in DOMAIN texts[p]}
    /\ Proceed(p)
    /\ EmbedderIdle(p)

\* Mutation: the error is caught, and the run goes on with the next filing.
Bug_SkipsFiling(p) ==
    /\ cachePc[p] = "text"
    /\ File(p) # TickerMap
    /\ embedPc[p] \in {"idle", "embedded", "gaveUp"}
    /\ Proceed(p)
    /\ EmbedderIdle(p)
    /\ UNCHANGED stored

\* The parser, upsert_document (the database is locked), the embedding client
\* or one of the stores fails: the run ends.
FilingFails(p) ==
    /\ cachePc[p] = "text"
    /\ File(p) # TickerMap
    /\ embedPc[p] \in {"idle", "embedded", "gaveUp"}
    /\ Goto(p, "failed")
    /\ text' = [text EXCEPT ![p] = {}]
    /\ EmbedderIdle(p)
    /\ UNCHANGED <<disk, wanted, written, runs, interrupted, readEarly, stored>>

\* A kill ends the calls of the process.
Kill(p) ==
    /\ Stop(p)
    /\ EmbedderIdle(p)
    /\ UNCHANGED stored

Start(p) == Begin(p) /\ UNCHANGED <<callsVars, stored>>

\* One attempt at the current batch.
Embed(p) == Post(p) \/ PostFails(p) \/ TimesOut(p) \/ Answer(p) \/ AnswerFails(p)

\* What the process does by itself: every call it waits for has a timeout.
Step(p) ==
    \/ CacheStep(p) /\ UNCHANGED <<callsVars, stored>>
    \/ TakeTickers(p)
    \/ ChunkFiling(p)
    \/ Embed(p) /\ UNCHANGED <<cacheVars, stored>>
    \/ StoreFiling(p)
    \/ FilingFails(p)

AcquisitionNext == \E p \in Procs : Start(p) \/ Step(p) \/ Kill(p)

AcquisitionSpec ==
    /\ AcquisitionInit
    /\ [][AcquisitionNext]_acquisitionVars
    /\ \A p \in Procs : WF_acquisitionVars(Step(p))

-----------------------------------------------------------------------------
\* A chunk is stored with its own vector, however the backend orders its
\* answers, whichever of its attempts fail (embeddings.py: batching, sorting
\* and retries; ingest.py: the zip).
VectorsMatchTexts == \A s \in stored : s.vector = s.text

\* If a run has ended well, a chunk of its filings is missing only where the
\* file had been left half-written or was read while being written: without
\* either, nothing of a filing is lost (sec_client.py, download_filing).
GapsExplained ==
    \A p \in Procs : cachePc[p] = "ended" =>
      \A f \in Filings \ (interrupted \cup readEarly) : {f} \X Whole(f) \subseteq StoredTexts

\* Every run ends, if only with an error: the gateway may be silent, but
\* each attempt times out and there are three of them.
AcquisitionEnds == \A p \in Procs : Live(p) ~> ~Live(p)

\* README.md: "Re-running the same command is safe: ... it only ingests
\* what's missing (... filings from a previous run that failed partway
\* through)".  After a run that ended well, nothing is missing.
RerunsComplete ==
    \A p \in Procs : cachePc[p] = "ended" =>
      \A f \in Filings : {f} \X Whole(f) \subseteq StoredTexts
=============================================================================
