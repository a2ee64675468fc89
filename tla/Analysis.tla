------------------------------ MODULE Analysis ------------------------------
(***************************************************************************)
(* One analysis with its retrieval in full: the filing_retrieval node of   *)
(* AnalysisGraph calls hybrid_retrieve, which is Retrieval, and the nodes  *)
(* after it work on what that returns.  AnalysisGraph, where retrieval is  *)
(* one step that returns anything, is what this one implements.            *)
(***************************************************************************)
EXTENDS AnalysisGraph, Retrieval

ASSUME AnalysisAssumption ==
    /\ Chunks \subseteq Store
    /\ \A c, d \in Store :
         c.group = d.group <=> SameSection(c, d) /\ c.type = d.type

AnalysisVars == <<GraphVars, RetrievalVars>>

AnalysisInit == GraphInit /\ RetrievalInit

\* The other three nodes.
OtherNode == (Planner \/ Change \/ Memo) /\ UNCHANGED RetrievalVars

NothingToRetrieve ==
    /\ node = "retrieval" /\ node' = "change"
    /\ Skipped
    /\ UNCHANGED RetrievalVars

\* filing_retrieval awaits hybrid_retrieve.  A plan may name a ticker twice.
StartRetrieval ==
    /\ node = "retrieval" /\ plan # NoPlan
    /\ \E targets \in Plans : Members(targets) = plan /\ Retrieve(targets)
    /\ UNCHANGED GraphVars

RetrievalStep == RetrievalNext /\ UNCHANGED GraphVars

\* The variables of Retrieval are hybrid_retrieve's locals.
RetrievalOver ==
    /\ node = "retrieval" /\ node' = "change"
    /\ stage' = "idle"
    /\ tickers' = <<>> /\ found' = <<>> /\ candidates' = <<>> /\ reply' = <<>>
    /\ pass' = "idle" /\ ordered' = <<>> /\ at' = 1 /\ taken' = {}

EvidenceArrives ==
    /\ pass = "done"
    /\ retrieved' = {ordered[i] : i \in taken}
    /\ RetrievalOver
    /\ UNCHANGED <<holdings, plan, changes, memo, error, partial, reasoner>>

RetrievalRaises ==
    /\ stage = "failed"
    /\ Fails("retrieval failed")
    /\ RetrievalOver

AnalysisNext ==
    \/ OtherNode \/ NothingToRetrieve
    \/ StartRetrieval \/ RetrievalStep \/ EvidenceArrives \/ RetrievalRaises

AnalysisSpec == AnalysisInit /\ [][AnalysisNext]_AnalysisVars

-----------------------------------------------------------------------------
(***************************************************************************)
(* Properties                                                              *)
(***************************************************************************)

\* Every step is a step of AnalysisGraph: whatever the two stores rank, whichever
\* service is down and whatever the reranker answers, the nodes see evidence of the
\* plan's tickers only, or the mark of a failed retrieval.
ImplementsGraph == GraphSpec
=============================================================================
