--------------------------- MODULE SharedDatabase ---------------------------
(***************************************************************************)
(* The Agent API at work while filings are ingested.  The two share the    *)
(* SQLite file, whose write lock only one of them can have: what           *)
(* AnalysisJobs calls `busy` is an ingestion process that holds it.  (What *)
(* an analysis reads of the evidence meanwhile is part of EvidenceOps.)    *)
(***************************************************************************)
EXTENDS Ingestion

CONSTANTS Jobs, Portfolios, Requests, NoJob

VARIABLES
    runner, target, status, created, results, outcome, clock, portfolios, ask

API == INSTANCE AnalysisJobs WITH busy <- writer # NoRun

apiVars == <<runner, target, status, created, results, outcome, clock, portfolios, ask>>
sharedVars == <<vars, apiVars>>

SharedInit ==
    /\ Init
    /\ API!Init

WorkerStep == Next /\ UNCHANGED apiVars

ApiStep == UNCHANGED vars /\ API!ApiNext

SharedNext == WorkerStep \/ ApiStep

SharedSpec == SharedInit /\ [][SharedNext]_sharedVars

-----------------------------------------------------------------------------
\* Seen from the API, ingestion does nothing but take and free the write lock:
\* what holds of AnalysisJobs holds beside any number of ingestion processes.
ImplementsAnalysisJobs == API!Spec

\* main.py, at run_job's handler: "background jobs must persist failures".
FailuresPersisted == API!FailuresPersisted
=============================================================================
