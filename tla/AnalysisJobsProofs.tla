------------------------- MODULE AnalysisJobsProofs -------------------------
(***************************************************************************)
(* Proofs of the safety properties of AnalysisJobs, for any number of      *)
(* jobs, portfolios and clients.  The heart is RowFrame: what no step of   *)
(* the API may take back from the table of jobs.  A request that is half   *)
(* way between its two reads is right because of it.                       *)
(***************************************************************************)
EXTENDS AnalysisJobs, TLAPS

\* No step takes a row back, moves its stamp, or touches the row of an ended job.
RowFrame ==
    /\ target' = target
    /\ \A j \in Jobs :
         /\ status[j] # "none" => status'[j] # "none" /\ created'[j] = created[j]
         /\ status[j] \in Ended => status'[j] = status[j] /\ results'[j] = results[j]

-----------------------------------------------------------------------------
\* The initial states are sound.
LEMMA InitSound == Init => JobsIInv
  <1>1. SUFFICES ASSUME Init PROVE JobsIInv
    OBVIOUS
  <1>2. JobsTypeOK
    BY <1>1 DEF Init, JobsTypeOK, JobStates, Running, Pending, Outcomes, Ended
  <1>3. ASSUME NEW j \in Jobs PROVE RunnerSound(j)
    BY <1>1, <1>3 DEF Init, RunnerSound, Ended
  <1>4. ASSUME NEW q \in Requests
        PROVE RequestSound(q) /\ AnswerMatchesJob(q) /\ NotOlder(q)
    <2>1. ask[q].at = "idle" /\ ask[q].job = NoJob /\ ask[q].known = {}
      BY <1>1, <1>4 DEF Init
    <2>2. QED
      BY <2>1 DEF RequestSound, AnswerMatchesJob, NotOlder
  <1>5. QED
    BY <1>2, <1>3, <1>4 DEF JobsIInv

-----------------------------------------------------------------------------
\* The steps of one job keep the types, the frame and the runner's soundness,
\* and leave the requests alone.
JobGood == JobsTypeOK' /\ RowFrame /\ ask' = ask /\ \A j \in Jobs : RunnerSound(j)'

LEMMA JobStepSound ==
    ASSUME JobsIInv, NEW j \in Jobs, JobStep(j)
    PROVE  JobGood
  <1> USE DEF Outcomes, Ended, Running, JobStates
  <1>0. JobsTypeOK /\ RunnerSound(j) /\ \A k \in Jobs : RunnerSound(k)
    BY DEF JobsIInv
  <1>1. CASE StartAnalysis(j)
    <2>1. clock' \in Nat
      BY <1>0, <1>1 DEF StartAnalysis, JobsTypeOK
    <2>2. JobsTypeOK'
      BY <1>0, <1>1, <2>1 DEF StartAnalysis, JobsTypeOK
    <2>3. RowFrame
      BY <1>0, <1>1 DEF StartAnalysis, JobsTypeOK, RunnerSound, RowFrame
    <2>4. ASSUME NEW k \in Jobs PROVE RunnerSound(k)'
      BY <1>0, <1>1, <2>4 DEF StartAnalysis, JobsTypeOK, RunnerSound
    <2>5. QED
      BY <1>1, <2>2, <2>3, <2>4 DEF JobGood, StartAnalysis
  <1>2. CASE InsertJob(j)
    <2>1. JobsTypeOK'
      BY <1>0, <1>2 DEF InsertJob, JobsTypeOK
    <2>2. RowFrame
      BY <1>0, <1>2 DEF InsertJob, JobsTypeOK, RunnerSound, RowFrame
    <2>3. ASSUME NEW k \in Jobs PROVE RunnerSound(k)'
      BY <1>0, <1>2, <2>3 DEF InsertJob, JobsTypeOK, RunnerSound
    <2>4. QED
      BY <1>2, <2>1, <2>2, <2>3 DEF JobGood, InsertJob
  <1>3. CASE InsertRefused(j)
    <2>1. JobsTypeOK'
      BY <1>0, <1>3 DEF InsertRefused, JobsTypeOK
    <2>2. RowFrame
      BY <1>0, <1>3 DEF InsertRefused, JobsTypeOK, RunnerSound, RowFrame
    <2>3. ASSUME NEW k \in Jobs PROVE RunnerSound(k)'
      BY <1>0, <1>3, <2>3 DEF InsertRefused, JobsTypeOK, RunnerSound
    <2>4. QED
      BY <1>3, <2>1, <2>2, <2>3 DEF JobGood, InsertRefused
  <1>4. CASE MarkRunning(j)
    <2>1. JobsTypeOK'
      BY <1>0, <1>4 DEF MarkRunning, JobsTypeOK
    <2>2. RowFrame
      BY <1>0, <1>4 DEF MarkRunning, JobsTypeOK, RunnerSound, RowFrame
    <2>3. ASSUME NEW k \in Jobs PROVE RunnerSound(k)'
      BY <1>0, <1>4, <2>3 DEF MarkRunning, JobsTypeOK, RunnerSound
    <2>4. QED
      BY <1>4, <2>1, <2>2, <2>3 DEF JobGood, MarkRunning
  <1>5. CASE Analyze(j)
    <2>1. JobsTypeOK'
      BY <1>0, <1>5 DEF Analyze, JobsTypeOK
    <2>2. RowFrame
      BY <1>0, <1>5 DEF Analyze, JobsTypeOK, RunnerSound, RowFrame
    <2>3. ASSUME NEW k \in Jobs PROVE RunnerSound(k)'
      BY <1>0, <1>5, <2>3 DEF Analyze, JobsTypeOK, RunnerSound
    <2>4. QED
      BY <1>5, <2>1, <2>2, <2>3 DEF JobGood, Analyze
  <1>6. CASE AnalyzeRaises(j)
    <2>1. JobsTypeOK'
      BY <1>0, <1>6 DEF AnalyzeRaises, JobsTypeOK
    <2>2. RowFrame
      BY <1>0, <1>6 DEF AnalyzeRaises, JobsTypeOK, RunnerSound, RowFrame
    <2>3. ASSUME NEW k \in Jobs PROVE RunnerSound(k)'
      BY <1>0, <1>6, <2>3 DEF AnalyzeRaises, JobsTypeOK, RunnerSound
    <2>4. QED
      BY <1>6, <2>1, <2>2, <2>3 DEF JobGood, AnalyzeRaises
  <1>7. CASE StoreResults(j)
    <2>1. JobsTypeOK'
      BY <1>0, <1>7 DEF StoreResults, JobsTypeOK
    <2>2. RowFrame
      BY <1>0, <1>7 DEF StoreResults, JobsTypeOK, RunnerSound, RowFrame
    <2>3. ASSUME NEW k \in Jobs PROVE RunnerSound(k)'
      BY <1>0, <1>7, <2>3 DEF StoreResults, JobsTypeOK, RunnerSound
    <2>4. QED
      BY <1>7, <2>1, <2>2, <2>3 DEF JobGood, StoreResults
  <1>8. CASE Complete(j)
    <2>1. JobsTypeOK'
      BY <1>0, <1>8 DEF Complete, JobsTypeOK
    <2>2. RowFrame
      BY <1>0, <1>8 DEF Complete, JobsTypeOK, RunnerSound, RowFrame
    <2>3. ASSUME NEW k \in Jobs PROVE RunnerSound(k)'
      BY <1>0, <1>8, <2>3 DEF Complete, JobsTypeOK, RunnerSound
    <2>4. QED
      BY <1>8, <2>1, <2>2, <2>3 DEF JobGood, Complete
  <1>9. CASE WriteRefused(j)
    <2>1. JobsTypeOK'
      BY <1>0, <1>9 DEF WriteRefused, JobsTypeOK
    <2>2. RowFrame
      BY <1>0, <1>9 DEF WriteRefused, JobsTypeOK, RunnerSound, RowFrame
    <2>3. ASSUME NEW k \in Jobs PROVE RunnerSound(k)'
      BY <1>0, <1>9, <2>3 DEF WriteRefused, JobsTypeOK, RunnerSound
    <2>4. QED
      BY <1>9, <2>1, <2>2, <2>3 DEF JobGood, WriteRefused
  <1>10. CASE SaveFailure(j)
    <2>1. JobsTypeOK'
      BY <1>0, <1>10 DEF SaveFailure, JobsTypeOK
    <2>2. RowFrame
      BY <1>0, <1>10 DEF SaveFailure, JobsTypeOK, RunnerSound, RowFrame
    <2>3. ASSUME NEW k \in Jobs PROVE RunnerSound(k)'
      BY <1>0, <1>10, <2>3 DEF SaveFailure, JobsTypeOK, RunnerSound
    <2>4. QED
      BY <1>10, <2>1, <2>2, <2>3 DEF JobGood, SaveFailure
  <1>11. CASE SaveFailureRefused(j)
    <2>1. JobsTypeOK'
      BY <1>0, <1>11 DEF SaveFailureRefused, JobsTypeOK
    <2>2. RowFrame
      BY <1>0, <1>11 DEF SaveFailureRefused, JobsTypeOK, RunnerSound, RowFrame
    <2>3. ASSUME NEW k \in Jobs PROVE RunnerSound(k)'
      BY <1>0, <1>11, <2>3 DEF SaveFailureRefused, JobsTypeOK, RunnerSound
    <2>4. QED
      BY <1>11, <2>1, <2>2, <2>3 DEF JobGood, SaveFailureRefused
  <1>12. QED
    BY <1>1, <1>2, <1>3, <1>4, <1>5, <1>6, <1>7, <1>8, <1>9, <1>10, <1>11
    DEF JobStep, RunStep

-----------------------------------------------------------------------------
\* What a request has learnt survives whatever jobs do meanwhile.
LEMMA FrameKeepsRequests ==
    ASSUME JobsIInv, JobsTypeOK', RowFrame, ask' = ask, NEW q \in Requests
    PROVE  RequestSound(q)' /\ AnswerMatchesJob(q)' /\ NotOlder(q)'
  <1> USE DEF Ended
  <1> DEFINE j == ask[q].job
  <1>1. /\ RequestSound(q) /\ AnswerMatchesJob(q) /\ NotOlder(q)
        /\ j \in Jobs \union {NoJob}
        /\ ask[q].known \subseteq Jobs
    BY DEF JobsIInv, JobsTypeOK
  <1>2. j # NoJob => j \in Jobs /\ status[j] # "none"
    BY <1>1 DEF RequestSound
  <1>3. \A k \in ask[q].known : k \in Jobs /\ status[k] # "none" /\ target[k] = ask[q].portfolio
    BY <1>1 DEF RequestSound, Rows
  <1>4. RequestSound(q)'
    BY <1>1, <1>2, <1>3 DEF RequestSound, Rows, RowFrame
  <1>5. AnswerMatchesJob(q)'
    BY <1>1, <1>2, JobsAssumption DEF AnswerMatchesJob, RequestSound, RowFrame
  <1>6. NotOlder(q)'
    BY <1>1, <1>2, <1>3 DEF NotOlder, RowFrame
  <1>7. QED
    BY <1>4, <1>5, <1>6

\* All that a request's step changes is what that request knows.
LEMMA MoveSound ==
    ASSUME JobsIInv, NEW q \in Requests,
           UNCHANGED <<jobs, clock, portfolios, busy>>,
           NEW at \in {"idle", "no_job", "in_progress", "no_results", "no_memo", "answered"}
                       \union Pending,
           NEW job \in Jobs \union {NoJob}, NEW known \in SUBSET Jobs,
           Moves(q, at, job, known),
           RequestSound(q)', AnswerMatchesJob(q)', NotOlder(q)'
    PROVE  JobsIInv'
  <1>0. JobsTypeOK
    BY DEF JobsIInv
  <1>1. JobsTypeOK'
    BY <1>0 DEF JobsTypeOK, Moves, jobs
  <1>2. ASSUME NEW p \in Requests
        PROVE RequestSound(p)' /\ AnswerMatchesJob(p)' /\ NotOlder(p)'
    <2>1. CASE p = q
      BY <2>1
    <2>2. CASE p # q
      <3>1. ask'[p] = ask[p] /\ RequestSound(p) /\ AnswerMatchesJob(p) /\ NotOlder(p)
        BY <1>0, <2>2 DEF JobsIInv, JobsTypeOK, Moves
      <3>2. QED
        BY <3>1 DEF RequestSound, AnswerMatchesJob, NotOlder, Rows, jobs
    <2>3. QED
      BY <2>1, <2>2
  <1>3. \A k \in Jobs : RunnerSound(k)'
    BY DEF JobsIInv, RunnerSound, jobs
  <1>4. QED
    BY <1>1, <1>2, <1>3 DEF JobsIInv

\* What Moves writes is what the request reads next.
LEMMA MoveRead ==
    ASSUME JobsTypeOK, NEW q \in Requests, NEW at, NEW job, NEW known, Moves(q, at, job, known)
    PROVE  /\ ask'[q].at = at /\ ask'[q].job = job /\ ask'[q].known = known
           /\ ask'[q].portfolio = ask[q].portfolio
  BY DEF JobsTypeOK, Moves

LEMMA RequestStepSound ==
    ASSUME JobsIInv, NEW q \in Requests, RequestStep(q)
    PROVE  JobsIInv'
  <1> USE DEF Pending
  <1>0. /\ JobsTypeOK
        /\ RequestSound(q) /\ AnswerMatchesJob(q) /\ NotOlder(q)
        /\ ask[q].known \in SUBSET Jobs
        /\ Rows(ask[q].portfolio) \in SUBSET Jobs
    BY DEF JobsIInv, JobsTypeOK, Rows
  <1>1. CASE Ask(q)
    <2>1. /\ Moves(q, "asked", NoJob, Rows(ask[q].portfolio))
          /\ UNCHANGED <<jobs, clock, portfolios, busy>>
      BY <1>1 DEF Ask
    <2>2. RequestSound(q)' /\ AnswerMatchesJob(q)' /\ NotOlder(q)'
      BY <1>0, <2>1, MoveRead DEF RequestSound, AnswerMatchesJob, NotOlder, Rows, jobs
    <2>3. QED
      BY <1>0, <2>1, <2>2, MoveSound
  <1>2. CASE FindLatest(q)
    <2>0. /\ UNCHANGED <<jobs, clock, portfolios, busy>>
          /\ ask[q].at = "asked"
          /\ ask[q].known \subseteq Rows(ask[q].portfolio)
      BY <1>0, <1>2 DEF FindLatest, RequestSound
    <2>1. CASE Rows(ask[q].portfolio) = {} /\ Moves(q, "no_job", NoJob, ask[q].known)
      <3>1. RequestSound(q)' /\ AnswerMatchesJob(q)' /\ NotOlder(q)'
        BY <1>0, <2>0, <2>1, MoveRead DEF RequestSound, AnswerMatchesJob, NotOlder, Rows, jobs
      <3>2. QED
        BY <1>0, <2>0, <2>1, <3>1, MoveSound
    <2>2. ASSUME NEW j \in Latest(ask[q].portfolio),
                 Moves(q, IF status[j] \in Ended THEN "found" ELSE "in_progress", j, ask[q].known)
          PROVE  JobsIInv'
      <3> DEFINE told == IF status[j] \in Ended THEN "found" ELSE "in_progress"
      <3>1. /\ j \in Jobs /\ status[j] # "none"
            /\ \A k \in Rows(ask[q].portfolio) : created[k] <= created[j]
        BY DEF Latest, Rows
      <3>2. told \in {"found", "in_progress"} /\ Moves(q, told, j, ask[q].known)
        BY <2>2
      <3>3. told = "found" => status[j] \in Ended
        OBVIOUS
      <3> HIDE DEF told
      <3>4. RequestSound(q)' /\ AnswerMatchesJob(q)' /\ NotOlder(q)'
        BY <1>0, <2>0, <3>1, <3>2, <3>3, JobsAssumption, MoveRead
        DEF RequestSound, AnswerMatchesJob, NotOlder, Rows, jobs
      <3>5. QED
        BY <1>0, <2>0, <3>1, <3>2, <3>4, MoveSound
    <2>3. QED
      BY <1>2, <2>1, <2>2 DEF FindLatest
  <1>3. CASE LoadResults(q)
    <2> DEFINE j == ask[q].job
    <2>0. /\ UNCHANGED <<jobs, clock, portfolios, busy>>
          /\ Moves(q, Answer(j), j, ask[q].known)
          /\ ask[q].at = "found"
      BY <1>3 DEF LoadResults
    <2>1. /\ j \in Jobs /\ j # NoJob /\ status[j] \in Ended /\ RunnerSound(j)
      BY <1>0, <2>0 DEF RequestSound, JobsIInv, JobsTypeOK
    <2>2. /\ results[j] \in {"none"} \union Outcomes
          /\ status[j] = "completed" => results[j] = "clean"
      BY <1>0, <2>1 DEF JobsTypeOK, RunnerSound
    <2>3. /\ Answer(j) \in {"no_results", "no_memo", "answered"}
          /\ Answer(j) = "no_results" => results[j] = "none"
          /\ Answer(j) = "no_memo" => results[j] = "memoless"
          /\ Answer(j) = "answered" => results[j] \in {"clean", "partial"}
      BY <2>2 DEF Answer, Outcomes
    <2>4. RequestSound(q)'
      BY <1>0, <2>0, <2>1, <2>3, MoveRead DEF RequestSound, Rows, Ended, jobs
    <2>5. AnswerMatchesJob(q)'
      BY <1>0, <2>0, <2>1, <2>2, <2>3, MoveRead DEF AnswerMatchesJob, Ended, jobs
    <2>6. NotOlder(q)'
      BY <1>0, <2>0, <2>1, <2>3, MoveRead DEF NotOlder, jobs
    <2>7. QED
      BY <1>0, <2>0, <2>1, <2>3, <2>4, <2>5, <2>6, MoveSound
  <1>4. QED
    BY <1>1, <1>2, <1>3 DEF RequestStep

-----------------------------------------------------------------------------
LEMMA UploadSound ==
    ASSUME JobsIInv, NEW p \in Portfolios, UploadPortfolio(p)
    PROVE  JobsIInv'
  <1>1. UNCHANGED <<jobs, clock, ask, busy>> /\ portfolios' = portfolios \union {p}
    BY DEF UploadPortfolio
  <1>2. JobsTypeOK'
    BY <1>1 DEF JobsIInv, JobsTypeOK, jobs
  <1>3. RowFrame
    BY <1>1 DEF RowFrame, jobs
  <1>4. \A j \in Jobs : RunnerSound(j)'
    BY <1>1 DEF JobsIInv, RunnerSound, jobs
  <1>5. QED
    BY <1>1, <1>2, <1>3, <1>4, FrameKeepsRequests DEF JobsIInv

\* A restart loses runners and requests; the table stays.
LEMMA RestartSound ==
    ASSUME JobsIInv, Restart
    PROVE  JobsIInv'
  <1>1. /\ UNCHANGED <<target, status, created, results, outcome, clock, portfolios, busy>>
        /\ JobsTypeOK
    BY DEF Restart, JobsIInv
  <1>2. ASSUME NEW j \in Jobs PROVE RunnerSound(j)' /\ runner'[j] \in JobStates
    <2>1. RunnerSound(j) /\ runner[j] \in JobStates
      BY <1>1 DEF JobsIInv, JobsTypeOK
    <2>2. runner'[j] = IF runner[j] = "stamped" THEN "rejected"
                       ELSE IF runner[j] \in Running THEN "killed" ELSE runner[j]
      BY DEF Restart
    <2>3. QED
      BY <1>1, <2>1, <2>2 DEF RunnerSound, Running, JobStates
  <1>3. ASSUME NEW q \in Requests
        PROVE /\ ask'[q].at = "idle" /\ ask'[q].job = NoJob /\ ask'[q].known = {}
              /\ ask'[q] = [at |-> "idle", portfolio |-> ask[q].portfolio,
                            job |-> NoJob, known |-> {}]
    BY <1>1 DEF Restart, JobsTypeOK
  <1>4. JobsTypeOK'
    <2>1. runner' \in [Jobs -> JobStates]
      BY <1>2 DEF Restart
    <2>2. ask' = [q \in Requests |-> [at |-> "idle", portfolio |-> ask[q].portfolio,
                                      job |-> NoJob, known |-> {}]]
      BY <1>3 DEF Restart
    <2>3. QED
      BY <1>1, <2>1, <2>2 DEF JobsTypeOK
  <1>5. ASSUME NEW q \in Requests
        PROVE RequestSound(q)' /\ AnswerMatchesJob(q)' /\ NotOlder(q)'
    BY <1>3 DEF RequestSound, AnswerMatchesJob, NotOlder
  <1>6. QED
    BY <1>2, <1>4, <1>5 DEF JobsIInv

LEMMA OthersSound ==
    ASSUME JobsIInv, UNCHANGED apiVars, busy' \in BOOLEAN
    PROVE  JobsIInv'
  BY DEF JobsIInv, JobsTypeOK, RunnerSound, RequestSound, AnswerMatchesJob, NotOlder, Rows,
         apiVars, jobs

-----------------------------------------------------------------------------
\* JobsIInv is inductive.
THEOREM JobsInvariant == Spec => []JobsIInv
  <1>1. Init => JobsIInv
    BY InitSound
  <1>2. JobsIInv /\ [Next]_vars => JobsIInv'
    <2> SUFFICES ASSUME JobsIInv, [Next]_vars PROVE JobsIInv'
      OBVIOUS
    <2>1. ASSUME NEW p \in Portfolios, UploadPortfolio(p) PROVE JobsIInv'
      BY <2>1, UploadSound
    <2>2. ASSUME NEW j \in Jobs, JobStep(j) PROVE JobsIInv'
      <3>1. JobGood
        BY <2>2, JobStepSound
      <3>2. QED
        BY <3>1, FrameKeepsRequests DEF JobGood, JobsIInv
    <2>3. ASSUME NEW q \in Requests, RequestStep(q) PROVE JobsIInv'
      BY <2>3, RequestStepSound
    <2>4. CASE Restart
      BY <2>4, RestartSound
    <2>5. CASE OthersWrite
      BY <2>5, OthersSound DEF OthersWrite
    <2>6. CASE UNCHANGED vars
      <3>1. busy' = busy /\ busy \in BOOLEAN /\ UNCHANGED apiVars
        BY <2>6 DEF vars, JobsIInv, JobsTypeOK
      <3>2. QED
        BY <3>1, OthersSound
    <2>7. QED
      BY <2>1, <2>2, <2>3, <2>4, <2>5, <2>6 DEF Next, ApiNext
  <1>3. QED
    BY <1>1, <1>2, PTL DEF Spec

\* Every variable of the API keeps its type.
THEOREM JobsTypeCorrect == Spec => []JobsTypeOK
  <1>1. JobsIInv => JobsTypeOK
    BY DEF JobsIInv
  <1>2. QED
    BY <1>1, JobsInvariant, PTL

\* get_findings answers rightly although run_job writes between its two reads.
THEOREM AnswersAlwaysMatchJob == Spec => []AnswersMatchJob
  <1>1. JobsIInv => AnswersMatchJob
    BY DEF JobsIInv, AnswersMatchJob
  <1>2. QED
    BY <1>1, JobsInvariant, PTL

\* A client whose analysis was accepted is never shown an older one.
THEOREM FindingsNeverOlder == Spec => []FindingsNotOlder
  <1>1. JobsIInv => FindingsNotOlder
    BY DEF JobsIInv, FindingsNotOlder
  <1>2. QED
    BY <1>1, JobsInvariant, PTL

\* An unfinished row has a runner, or one that was lost or killed.
THEOREM UnfinishedAlwaysExplained == Spec => []UnfinishedExplained
  <1>1. ASSUME JobsIInv PROVE UnfinishedExplained
    <2>1. ASSUME NEW j \in Jobs, status[j] \in {"queued", "running"}
          PROVE  runner[j] \in Running \union {"lost", "killed"}
      <3>1. RunnerSound(j) /\ runner[j] \in JobStates
        BY <1>1, <2>1 DEF JobsIInv, JobsTypeOK
      <3>2. QED
        BY <2>1, <3>1 DEF RunnerSound, JobStates, Ended
    <2>2. QED
      BY <2>1 DEF UnfinishedExplained
  <1>2. QED
    BY <1>1, JobsInvariant, PTL

\* No step touches the row of a job that has ended.
THEOREM EndIsAlwaysFinal == Spec => EndIsFinal
  <1> DEFINE Final == \A j \in Jobs : status[j] \in Ended =>
                        status'[j] = status[j] /\ results'[j] = results[j]
  <1>1. JobsIInv /\ [Next]_vars => [Final]_vars
    <2> SUFFICES ASSUME JobsIInv, Next PROVE Final
      BY DEF vars
    <2>1. ASSUME NEW j \in Jobs, JobStep(j) PROVE Final
      BY <2>1, JobStepSound DEF JobGood, RowFrame
    <2>2. ASSUME NEW p \in Portfolios, UploadPortfolio(p) PROVE Final
      BY <2>2 DEF UploadPortfolio, jobs
    <2>3. ASSUME NEW q \in Requests, RequestStep(q) PROVE Final
      BY <2>3 DEF RequestStep, Ask, FindLatest, LoadResults, jobs
    <2>4. CASE Restart
      BY <2>4 DEF Restart
    <2>5. CASE OthersWrite
      BY <2>5 DEF OthersWrite, apiVars, jobs
    <2>6. QED
      BY <2>1, <2>2, <2>3, <2>4, <2>5 DEF Next, ApiNext
  <1>2. QED
    BY <1>1, JobsInvariant, PTL DEF Spec, EndIsFinal
=============================================================================
