----------------------------- MODULE FilingCache -----------------------------
(***************************************************************************)
(* The cache directory of worker/sec_client.py, which every ingestion      *)
(* process of a host shares and nothing ever cleans: company_tickers.json  *)
(* and one file per filing.  A file that exists is trusted; one that does  *)
(* not is fetched and then written in place: open(..., "w") empties it,    *)
(* and its parts follow.  So a file is seen, and may stay, half-written.   *)
(***************************************************************************)
EXTENDS Naturals, Sequences

CONSTANTS
    Procs,          \* ingestion processes
    Files,          \* what a process reads, in order: the ticker map, then filings
    Parts,          \* Parts[f]: how many writes file f takes
    Absent,         \* the content of a file that does not exist
    MaxRuns         \* bound: how often the command is given

FileSet == {Files[i] : i \in DOMAIN Files}

ASSUME FilesAssumption ==
    /\ Files \in Seq(FileSet)
    /\ Files # <<>>
    /\ \A i \in 2 .. Len(Files) : Files[i] # Files[1]
    /\ Parts \in [FileSet -> Nat \ {0}]
    /\ \A f \in FileSet : \A parts \in SUBSET (1 .. Parts[f]) : parts # Absent
    /\ MaxRuns \in Nat

TickerMap == Files[1]
Whole(f) == 1..Parts[f]

VARIABLES
    disk,           \* disk[f]: Absent, or the parts in the file; others are missing or NUL
    cachePc,        \* where a process is with the file it wants
    wanted,         \* the index in Files of that file
    written,        \* how many parts of it the process has written
    text,           \* the parts of the text that download_filing returned
    runs,           \* how often the command was given so far
    interrupted,    \* history: files whose writer was stopped half-way
    readEarly       \* history: files read while another process was writing them

cacheVars == <<disk, cachePc, wanted, written, text, runs, interrupted, readEarly>>

File(p) == Files[wanted[p]]
Live(p) == cachePc[p] \notin {"idle", "ended", "failed", "killed"}
WritersBut(p, f) == {q \in Procs \ {p} : cachePc[q] = "writing" /\ File(q) = f}

CacheInit ==
    /\ disk = [f \in FileSet |-> Absent]
    /\ cachePc = [p \in Procs |-> "idle"]
    /\ wanted = [p \in Procs |-> 1]
    /\ written = [p \in Procs |-> 0]
    /\ text = [p \in Procs |-> {}]
    /\ runs = 0
    /\ interrupted = {}
    /\ readEarly = {}

Goto(p, to) == cachePc' = [cachePc EXCEPT ![p] = to]

-----------------------------------------------------------------------------
\* The command starts, or is run again after any end.
Begin(p) ==
    /\ ~Live(p)
    /\ runs < MaxRuns
    /\ runs' = runs + 1
    /\ Goto(p, "looking")
    /\ wanted' = [wanted EXCEPT ![p] = 1]
    /\ UNCHANGED <<disk, written, text, interrupted, readEarly>>

\* The file exists: it is read as it is.  json.loads refuses a ticker map
\* that is not whole, and the run ends; a filing is parsed whatever is in it.
ReadCached(p) ==
    /\ cachePc[p] = "looking"
    /\ disk[File(p)] # Absent
    /\ IF File(p) = TickerMap /\ disk[File(p)] # Whole(File(p))
       THEN Goto(p, "failed") /\ UNCHANGED text
       ELSE Goto(p, "text") /\ text' = [text EXCEPT ![p] = disk[File(p)]]
    /\ readEarly' = IF WritersBut(p, File(p)) # {} THEN readEarly \cup {File(p)} ELSE readEarly
    /\ UNCHANGED <<disk, wanted, written, runs, interrupted>>

\* It does not: the request goes out, through the process's own rate limiter.
Miss(p) ==
    /\ cachePc[p] = "looking"
    /\ disk[File(p)] = Absent
    /\ Goto(p, "fetching")
    /\ UNCHANGED <<disk, wanted, written, text, runs, interrupted, readEarly>>

\* The answer is there, write_text opens the file, whatever another process
\* has put there since, and empties it.
OpenToWrite(p) ==
    /\ cachePc[p] = "fetching"
    /\ Goto(p, "writing")
    /\ disk' = [disk EXCEPT ![File(p)] = {}]
    /\ written' = [written EXCEPT ![p] = 0]
    /\ UNCHANGED <<wanted, text, runs, interrupted, readEarly>>

\* The next part is written at this process's own offset.
WritePart(p) ==
    /\ cachePc[p] = "writing"
    /\ written[p] < Parts[File(p)]
    /\ written' = [written EXCEPT ![p] = @ + 1]
    /\ disk' = [disk EXCEPT ![File(p)] = @ \cup {written[p] + 1}]
    /\ UNCHANGED <<cachePc, wanted, text, runs, interrupted, readEarly>>

\* The process goes on with the text it fetched, not with the file.
CloseWritten(p) ==
    /\ cachePc[p] = "writing"
    /\ written[p] = Parts[File(p)]
    /\ Goto(p, "text")
    /\ text' = [text EXCEPT ![p] = Whole(File(p))]
    /\ written' = [written EXCEPT ![p] = 0]
    /\ UNCHANGED <<disk, wanted, runs, interrupted, readEarly>>

\* The request fails (HTTPStatusError, a timeout), or the list of filings
\* does: nothing catches it below main, and the run ends.
FetchFails(p) ==
    /\ \/ cachePc[p] = "fetching"
       \/ cachePc[p] = "text" /\ File(p) = TickerMap
    /\ Goto(p, "failed")
    /\ UNCHANGED <<disk, wanted, written, text, runs, interrupted, readEarly>>

\* The process is killed, or write_text meets a full disk.  Either leaves the
\* file with what was written so far.
Stop(p) ==
    /\ Live(p)
    /\ Goto(p, "killed")
    /\ text' = [text EXCEPT ![p] = {}]
    /\ interrupted' = IF cachePc[p] = "writing" THEN interrupted \cup {File(p)} ELSE interrupted
    /\ UNCHANGED <<disk, wanted, written, runs, readEarly>>

\* The process is through with a file: the loops of _ingest_ticker go on.
Proceed(p) ==
    /\ cachePc[p] = "text"
    /\ IF wanted[p] < Len(Files)
       THEN Goto(p, "looking") /\ wanted' = [wanted EXCEPT ![p] = @ + 1]
       ELSE Goto(p, "ended") /\ UNCHANGED wanted
    /\ text' = [text EXCEPT ![p] = {}]
    /\ UNCHANGED <<disk, written, runs, interrupted, readEarly>>

\* What gets a process its next text; Proceed is for its reader to take.
CacheStep(p) ==
    \/ ReadCached(p)
    \/ Miss(p)
    \/ OpenToWrite(p)
    \/ WritePart(p)
    \/ CloseWritten(p)
    \/ FetchFails(p)
=============================================================================
