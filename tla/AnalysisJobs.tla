---------------------------- MODULE AnalysisJobs ----------------------------
(***************************************************************************)
(* The Agent API's analysis jobs (services/agent-api): POST /api/analyze   *)
(* inserts a row of `analysis_jobs` and leaves run_job behind as a         *)
(* background task; GET /api/findings reads that row twice while the       *)
(* runner writes it.  Every write is a connection and a transaction of its *)
(* own on a file that other processes write too: a write finds the lock    *)
(* taken, waits five seconds and raises "database is locked".              *)
(*                                                                         *)
(* Left out: the columns no decision reads (stage and progress follow the  *)
(* status, citation_pass_rate and findings_count the results).             *)
(***************************************************************************)
EXTENDS Naturals

CONSTANTS
    Jobs,           \* job ids (uuid4) and the calls of start_analysis that draw them
    Portfolios,     \* portfolio ids
    Requests,       \* clients of GET /api/findings/{portfolio_id}, one request at a time
    NoJob           \* the job of a request that has none

ASSUME JobsAssumption == NoJob \notin Jobs

VARIABLES
    runner,         \* runner[j]: where start_analysis, then run_job, is for job j
    target,         \* target[j]: request.portfolio_id
    status,         \* the column; "none": no row is committed
    created,        \* created_at, on the API's clock
    results,        \* results_json
    outcome,        \* outcome[j]: what analyze returned to the runner
    clock,
    portfolios,     \* committed rows of `portfolios` (with their holdings)
    ask,            \* ask[q]: request q of GET /api/findings
    busy            \* another process holds the SQLite write lock

jobs == <<runner, target, status, created, results, outcome>>
apiVars == <<jobs, clock, portfolios, ask>>
vars == <<apiVars, busy>>

\* The final state of a graph run: without error; with an error and a memo;
\* with an error and no memo (the memo node itself failed).
Outcomes == {"clean", "partial", "memoless"}

Ended == {"completed", "failed"}

Rows(p) == {j \in Jobs : status[j] # "none" /\ target[j] = p}

\* Mutation: ORDER BY created_at without DESC.
Bug_OldestFirst(p) == {j \in Rows(p) : \A k \in Rows(p) : created[j] <= created[k]}

\* ORDER BY created_at DESC LIMIT 1; between equal stamps SQLite may pick either.
Latest(p) == {j \in Rows(p) : \A k \in Rows(p) : created[k] <= created[j]}

Init ==
    /\ runner = [j \in Jobs |-> "none"]
    /\ target \in [Jobs -> Portfolios]
    /\ status = [j \in Jobs |-> "none"]
    /\ created = [j \in Jobs |-> 0]
    /\ results = [j \in Jobs |-> "none"]
    /\ outcome = [j \in Jobs |-> "none"]
    /\ clock = 0
    /\ portfolios = {}
    /\ ask \in [Requests -> [at : {"idle"}, portfolio : Portfolios, job : {NoJob}, known : {{}}]]
    /\ busy = FALSE

-----------------------------------------------------------------------------
\* upload_portfolio, create_portfolio: the portfolio and its holdings in one
\* transaction.  When the lock is taken it raises and nothing changes.
UploadPortfolio(p) ==
    /\ p \notin portfolios
    /\ ~busy
    /\ portfolios' = portfolios \union {p}
    /\ UNCHANGED <<jobs, clock, ask, busy>>

\* start_analysis: create_job reads the clock before its INSERT waits for the lock.
StartAnalysis(j) ==
    /\ runner[j] = "none"
    /\ clock' \in {clock, clock + 1}
    /\ created' = [created EXCEPT ![j] = clock']
    /\ runner' = [runner EXCEPT ![j] = "stamped"]
    /\ UNCHANGED <<target, status, results, outcome, portfolios, ask, busy>>

\* The INSERT commits; the response goes out and run_job is scheduled.
InsertJob(j) ==
    /\ runner[j] = "stamped"
    /\ ~busy
    /\ target[j] \in portfolios
    /\ status' = [status EXCEPT ![j] = "queued"]
    /\ runner' = [runner EXCEPT ![j] = "queued"]
    /\ UNCHANGED <<target, created, results, outcome, clock, portfolios, ask, busy>>

\* The INSERT fails (foreign key, or the lock): status 500, no row, no runner.
InsertRefused(j) ==
    /\ runner[j] = "stamped"
    /\ busy \/ target[j] \notin portfolios
    /\ runner' = [runner EXCEPT ![j] = "rejected"]
    /\ UNCHANGED <<target, status, created, results, outcome, clock, portfolios, ask, busy>>

-----------------------------------------------------------------------------
\* run_job, first update_job.
MarkRunning(j) ==
    /\ runner[j] = "queued"
    /\ ~busy
    /\ status' = [status EXCEPT ![j] = "running"]
    /\ runner' = [runner EXCEPT ![j] = "analyzing"]
    /\ UNCHANGED <<target, created, results, outcome, clock, portfolios, ask, busy>>

\* analyze returns the final state of the graph.
Analyze(j) ==
    /\ runner[j] = "analyzing"
    /\ \E o \in Outcomes : outcome' = [outcome EXCEPT ![j] = o]
    /\ runner' = [runner EXCEPT ![j] = "analyzed"]
    /\ UNCHANGED <<target, status, created, results, clock, portfolios, ask, busy>>

\* analyze raises (the nodes catch their own errors; the graph around them may not).
AnalyzeRaises(j) ==
    /\ runner[j] = "analyzing"
    /\ runner' = [runner EXCEPT ![j] = "failing"]
    /\ UNCHANGED <<target, status, created, results, outcome, clock, portfolios, ask, busy>>

\* Mutation: the status is written first, the results with the step after it.
Bug_StatusFirst(j) ==
    /\ runner[j] = "analyzed"
    /\ ~busy
    /\ status' = [status EXCEPT ![j] = IF outcome[j] = "clean" THEN "completed" ELSE "failed"]
    /\ runner' = [runner EXCEPT ![j] = "stored"]
    /\ UNCHANGED <<target, created, results, outcome, clock, portfolios, ask, busy>>

\* store_results, before the status says that there are any.
StoreResults(j) ==
    /\ runner[j] = "analyzed"
    /\ ~busy
    /\ results' = [results EXCEPT ![j] = outcome[j]]
    /\ runner' = [runner EXCEPT ![j] = "stored"]
    /\ UNCHANGED <<target, status, created, outcome, clock, portfolios, ask, busy>>

\* The second update_job: an analysis that reports an error is a failed job.
Complete(j) ==
    /\ runner[j] = "stored"
    /\ ~busy
    /\ status' = [status EXCEPT ![j] = IF outcome[j] = "clean" THEN "completed" ELSE "failed"]
    /\ runner' = [runner EXCEPT ![j] = "returned"]
    /\ UNCHANGED <<target, created, results, outcome, clock, portfolios, ask, busy>>

\* Mutation: the runner waits for the lock without a timeout.
Bug_WaitForever(j) ==
    /\ runner[j] \in {"queued", "analyzed", "stored"}
    /\ busy
    /\ UNCHANGED vars

\* One of the three writes above raises "database is locked": on to the handler.
WriteRefused(j) ==
    /\ runner[j] \in {"queued", "analyzed", "stored"}
    /\ busy
    /\ runner' = [runner EXCEPT ![j] = "failing"]
    /\ UNCHANGED <<target, status, created, results, outcome, clock, portfolios, ask, busy>>

\* Mutation: the handler logs the failure and does not save it.
Bug_OnlyLogged(j) ==
    /\ runner[j] = "failing"
    /\ runner' = [runner EXCEPT ![j] = "returned"]
    /\ UNCHANGED <<target, status, created, results, outcome, clock, portfolios, ask, busy>>

\* except Exception: the handler's update_job.
SaveFailure(j) ==
    /\ runner[j] = "failing"
    /\ ~busy
    /\ status' = [status EXCEPT ![j] = "failed"]
    /\ runner' = [runner EXCEPT ![j] = "returned"]
    /\ UNCHANGED <<target, created, results, outcome, clock, portfolios, ask, busy>>

\* That write may find the lock taken as well, and nobody catches its exception.
SaveFailureRefused(j) ==
    /\ runner[j] = "failing"
    /\ busy
    /\ runner' = [runner EXCEPT ![j] = "lost"]
    /\ UNCHANGED <<target, status, created, results, outcome, clock, portfolios, ask, busy>>

-----------------------------------------------------------------------------
Pending == {"asked", "found"}

\* Request q comes to know of a job, or that there is none.
Moves(q, at, job, known) ==
    ask' = [ask EXCEPT ![q] =
              [at |-> at, portfolio |-> ask[q].portfolio, job |-> job, known |-> known]]

\* A client asks for the findings of its portfolio; `known` are the analyses of
\* it that had been accepted by then.
Ask(q) ==
    /\ ask[q].at \notin Pending
    /\ Moves(q, "asked", NoJob, Rows(ask[q].portfolio))
    /\ UNCHANGED <<jobs, clock, portfolios, busy>>

\* get_findings, its first read: latest_job_for_portfolio.  No row is a 404; the
\* row of a job that has not ended is a 202.
FindLatest(q) ==
    /\ ask[q].at = "asked"
    /\ \/ /\ Rows(ask[q].portfolio) = {}
          /\ Moves(q, "no_job", NoJob, ask[q].known)
       \/ \E j \in Latest(ask[q].portfolio) :
            Moves(q, IF status[j] \in Ended THEN "found" ELSE "in_progress", j, ask[q].known)
    /\ UNCHANGED <<jobs, clock, portfolios, busy>>

Answer(j) == CASE results[j] = "none"     -> "no_results"
               [] results[j] = "memoless" -> "no_memo"
               [] OTHER                   -> "answered"

\* Its second read, in another connection: load_results; then the response.
LoadResults(q) ==
    /\ ask[q].at = "found"
    /\ Moves(q, Answer(ask[q].job), ask[q].job, ask[q].known)
    /\ UNCHANGED <<jobs, clock, portfolios, busy>>

-----------------------------------------------------------------------------
Running == {"queued", "analyzing", "analyzed", "stored", "failing"}

\* Mutation: at its start the API marks the rows it finds as failed, all of them.
Bug_SweepAll ==
    /\ runner' = [j \in Jobs |-> IF runner[j] \in Running THEN "killed" ELSE runner[j]]
    /\ status' = [j \in Jobs |-> IF status[j] = "none" THEN "none" ELSE "failed"]
    /\ ask' = [q \in Requests |-> [ask[q] EXCEPT !.at = "idle", !.job = NoJob, !.known = {}]]
    /\ UNCHANGED <<target, created, results, outcome, clock, portfolios, busy>>

\* The API process is stopped or dies, and is started again: its background
\* tasks and its requests are gone, and nothing looks for unfinished rows.
Restart ==
    /\ runner' = [j \in Jobs |-> IF runner[j] = "stamped" THEN "rejected"
                             ELSE IF runner[j] \in Running THEN "killed" ELSE runner[j]]
    /\ ask' = [q \in Requests |-> [ask[q] EXCEPT !.at = "idle", !.job = NoJob, !.known = {}]]
    /\ UNCHANGED <<target, status, created, results, outcome, clock, portfolios, busy>>

\* Another process (ingest.py) takes the write lock or frees it.
OthersWrite ==
    /\ busy' \in BOOLEAN
    /\ UNCHANGED apiVars

RunStep(j) ==
    \/ MarkRunning(j)
    \/ Analyze(j)
    \/ AnalyzeRaises(j)
    \/ StoreResults(j)
    \/ Complete(j)
    \/ WriteRefused(j)
    \/ SaveFailure(j)
    \/ SaveFailureRefused(j)

JobStep(j) == StartAnalysis(j) \/ InsertJob(j) \/ InsertRefused(j) \/ RunStep(j)

RequestStep(q) == Ask(q) \/ FindLatest(q) \/ LoadResults(q)

ApiNext ==
    \/ \E p \in Portfolios : UploadPortfolio(p)
    \/ \E j \in Jobs : JobStep(j)
    \/ \E q \in Requests : RequestStep(q)
    \/ Restart

Next == ApiNext \/ OthersWrite

Spec == Init /\ [][Next]_vars

\* The event loop and its threads go on; the gateway's calls time out.
FairSpec == Spec /\ \A j \in Jobs : WF_vars(RunStep(j))

-----------------------------------------------------------------------------
(***************************************************************************)
(* Properties                                                              *)
(***************************************************************************)

JobStates == {"none", "stamped", "rejected", "returned", "lost", "killed"} \union Running

\* Every variable holds values of its type.
JobsTypeOK ==
    /\ runner \in [Jobs -> JobStates]
    /\ target \in [Jobs -> Portfolios]
    /\ status \in [Jobs -> {"none", "queued", "running"} \union Ended]
    /\ created \in [Jobs -> Nat]
    /\ results \in [Jobs -> {"none"} \union Outcomes]
    /\ outcome \in [Jobs -> {"none"} \union Outcomes]
    /\ clock \in Nat
    /\ portfolios \subseteq Portfolios
    /\ ask \in [Requests -> [at : {"idle", "no_job", "in_progress", "no_results", "no_memo",
                                   "answered"} \union Pending,
                             portfolio : Portfolios, job : Jobs \union {NoJob},
                             known : SUBSET Jobs]]
    /\ busy \in BOOLEAN

\* What a poller of GET /api/jobs sees last stays: no step of a runner, a
\* handler or a restart touches the row of a job that has ended.
EndIsFinal ==
    [][\A j \in Jobs : status[j] \in Ended =>
          status'[j] = status[j] /\ results'[j] = results[j]]_vars

\* A request reads the row and the results in two transactions, with the runner
\* writing between them.  Told "completed" it always finds a memo; told
\* "failed" it finds what was stored, if anything was.
AnswerMatchesJob(q) ==
    LET j == ask[q].job IN
    /\ ask[q].at = "answered" =>
         \/ status[j] = "completed" /\ results[j] = "clean"
         \/ status[j] = "failed" /\ results[j] \in {"clean", "partial"}
    /\ ask[q].at = "no_memo" => status[j] = "failed" /\ results[j] = "memoless"
    /\ ask[q].at = "no_results" => status[j] = "failed" /\ results[j] = "none"

AnswersMatchJob == \A q \in Requests : AnswerMatchesJob(q)

\* A client that got an analysis accepted and then asks for findings is never
\* told of an older analysis, nor that there is none: latest_job_for_portfolio
\* takes the newest job whatever its status.  (docs/api-contracts.md promises the
\* "most recent completed job": while the newest is under way or has failed, the
\* code answers 202 or 404 although an older job has findings.)
NotOlder(q) ==
    /\ ask[q].at = "no_job" => ask[q].known = {}
    /\ ask[q].job # NoJob => \A k \in ask[q].known : created[k] <= created[ask[q].job]

FindingsNotOlder == \A q \in Requests : NotOlder(q)

\* A row that no runner works on any more has ended, or its runner was lost to
\* a restart or to a failure that it could not save.
UnfinishedExplained ==
    \A j \in Jobs : status[j] \in {"queued", "running"} => runner[j] \in Running \union {"lost", "killed"}

\* No runner runs for ever.
RunnersStop == \A j \in Jobs : runner[j] \in Running ~> runner[j] \in {"returned", "lost", "killed"}

\* main.py, at run_job's handler: "background jobs must persist failures".
FailuresPersisted == \A j \in Jobs : runner[j] = "lost" => status[j] \in Ended

-----------------------------------------------------------------------------
(***************************************************************************)
(* The inductive invariant behind the safety properties                    *)
(***************************************************************************)

\* Where a runner is tells what its row holds.
RunnerSound(j) ==
    /\ runner[j] \in {"none", "stamped", "rejected"} => status[j] = "none"
    /\ runner[j] \in {"none", "stamped", "queued", "analyzing", "analyzed"} => results[j] = "none"
    /\ runner[j] = "queued" => status[j] = "queued"
    /\ runner[j] \in {"analyzing", "analyzed", "stored"} => status[j] = "running"
    /\ runner[j] \in {"analyzed", "stored"} => outcome[j] \in Outcomes
    /\ runner[j] = "stored" => results[j] = outcome[j]
    /\ runner[j] \in {"failing", "lost", "killed"} => status[j] \in {"queued", "running"}
    /\ runner[j] = "returned" => status[j] \in Ended
    /\ status[j] = "completed" => results[j] = "clean"

\* What a request has learnt so far holds on.
RequestSound(q) ==
    /\ ask[q].known \subseteq Rows(ask[q].portfolio)
    /\ ask[q].job # NoJob => status[ask[q].job] # "none"
    /\ ask[q].at = "found" => status[ask[q].job] \in Ended
    /\ ask[q].at \in {"found", "answered", "no_memo", "no_results"} => ask[q].job # NoJob
    /\ ask[q].at = "asked" => ask[q].job = NoJob

JobsIInv ==
    /\ JobsTypeOK
    /\ \A j \in Jobs : RunnerSound(j)
    /\ \A q \in Requests : RequestSound(q) /\ AnswerMatchesJob(q) /\ NotOlder(q)
=============================================================================
