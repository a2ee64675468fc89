--------------------------- MODULE MCAnalysisJobs ---------------------------
(***************************************************************************)
(* Small instance of AnalysisJobs: two analyses, of one portfolio or of    *)
(* two, and one client that asks for findings again and again.             *)
(***************************************************************************)
EXTENDS AnalysisJobs

CONSTANTS j1, j2, p1, p2, q1

\* The other initial states are these with other names, or ask for a portfolio
\* of which there is no analysis.  (Symmetry would not do for a liveness property.)
MCInit == Init /\ ask[q1].portfolio = p1 /\ target[j1] = p1

MCFairSpec == MCInit /\ [][Next]_vars /\ \A j \in Jobs : WF_vars(RunStep(j))
=============================================================================
