-------------------------- MODULE DemoConsoleProofs --------------------------
(***************************************************************************)
(* Proofs about DemoConsole, for any ids, any number of calls and of tabs. *)
(* The argument is ConsoleIInv: what a call that is under way still has to *)
(* do with the tab that will receive its answer.                           *)
(***************************************************************************)
EXTENDS DemoConsole, TLAPS

Ids == Tickers \union Portfolios \union Jobs \union {SamplePortfolio, NoId}

CallsTyped ==
    /\ sent \in Nat
    /\ calls \subseteq [n : Nat, mount : Nat, act : {"load", "upload", "start", "refresh"}, key : Ids]

\* A call of the tab that is mounted was sent by a button of that tab.
CallsOfTab ==
    \A c \in calls : c.mount = mount =>
        /\ c.act = "load" => tab \in LoadTabs
        /\ c.act = "upload" => tab = "portfolio"
        /\ c.act \in {"start", "refresh"} => tab = "analysis"

\* What the tab has asked for is still what it is about, unless the history says why not.
AskedIsCurrent ==
    \A c \in calls : c.mount = mount =>
        /\ c.act = "load" /\ tab \in FindingsTabs /\ "upload" \notin meanwhile
             => c.key = activePortfolio
        /\ c.act = "refresh" /\ "overlap" \notin meanwhile /\ "typed" \notin meanwhile
             => c.key = jobBox

\* Two calls of one tab overlap.
OverlapMarked ==
    \A c, d \in calls : c.mount = mount /\ d.mount = mount /\ c # d => "overlap" \in meanwhile

ConsoleIInv ==
    /\ ConsoleTypeOK /\ CallsTyped /\ CallsOfTab /\ AskedIsCurrent /\ OverlapMarked
    /\ LabelsHonest /\ ShownIsAsked

-----------------------------------------------------------------------------
(***************************************************************************)
(* The invariant                                                           *)
(***************************************************************************)

LEMMA InitConsole == ConsoleInit => ConsoleIInv
BY ConsoleAssumption
   DEF ConsoleInit, ConsoleIInv, ConsoleTypeOK, CallsTyped, CallsOfTab, AskedIsCurrent,
       OverlapMarked, LabelsHonest, CalloutSaysSample, ShownIsAsked, Sample, Tabs

\* A step without calls in it that leaves the tab and what it shows alone.
LEMMA ProbedKeeps == ConsoleIInv /\ Probed => ConsoleIInv'
<1> SUFFICES ASSUME ConsoleIInv, Probed PROVE ConsoleIInv'
  OBVIOUS
<1>1. status' = status \/ (status \in {"online", "offline"} /\ status' \in {"online", "offline"})
  BY DEF Probed, AdjustStatus, DefaultStatus
<1>2. ConsoleTypeOK' /\ CallsTyped'
  BY <1>1 DEF ConsoleIInv, ConsoleTypeOK, CallsTyped, Probed
<1>3. CallsOfTab' /\ AskedIsCurrent' /\ OverlapMarked' /\ ShownIsAsked'
  BY DEF ConsoleIInv, CallsOfTab, AskedIsCurrent, OverlapMarked, ShownIsAsked, Probed
<1>4. LabelsHonest'
  BY <1>1 DEF ConsoleIInv, LabelsHonest, CalloutSaysSample, Probed
<1> QED
  BY <1>2, <1>3, <1>4 DEF ConsoleIInv

\* A new tab has no calls of its own.
LEMMA OpenTabKeeps ==
    ASSUME ConsoleIInv, NEW t \in Tabs, OpenTab(t)
    PROVE  ConsoleIInv'
<1>1. \A c \in calls' : c.mount # mount'
  BY DEF ConsoleIInv, ConsoleTypeOK, CallsTyped, OpenTab
<1>2. CallsOfTab' /\ AskedIsCurrent' /\ OverlapMarked'
  BY <1>1 DEF CallsOfTab, AskedIsCurrent, OverlapMarked
<1>3. CallsTyped'
  BY DEF ConsoleIInv, CallsTyped, OpenTab
<1>4. ConsoleTypeOK'
  <2>1. mount' \in 0 .. MaxSwitches
    BY ConsoleAssumption DEF ConsoleIInv, ConsoleTypeOK, OpenTab
  <2>2. \A c \in calls' : c.mount <= mount' /\ c.n < sent'
    BY DEF ConsoleIInv, ConsoleTypeOK, CallsTyped, OpenTab
  <2> QED
    BY <2>1, <2>2, ConsoleAssumption
       DEF ConsoleIInv, ConsoleTypeOK, OpenTab, DefaultStatus, Sample
<1>5. LabelsHonest' /\ ShownIsAsked'
  BY DEF OpenTab, LabelsHonest, CalloutSaysSample, ShownIsAsked, Sample, DefaultStatus
<1> QED
  BY <1>2, <1>3, <1>4, <1>5 DEF ConsoleIInv

\* What the user selects or types is not what the data shown are of.
LEMMA InputKeeps ==
    ASSUME ConsoleIInv,
           UNCHANGED <<backend, tab, mount, activePortfolio, status, data, calls, sent, issued>>,
           selection' \in Tickers,
           portfolioBox' \in Portfolios \union {SamplePortfolio, NoId},
           \/ jobBox' = jobBox /\ meanwhile' = meanwhile
           \/ jobBox' \in Jobs \union {NoId} /\ meanwhile' = meanwhile \union {"typed"}
    PROVE  ConsoleIInv'
<1>1. ConsoleTypeOK' /\ CallsTyped' /\ CallsOfTab'
  BY DEF ConsoleIInv, ConsoleTypeOK, CallsTyped, CallsOfTab
<1>2. AskedIsCurrent' /\ OverlapMarked'
  BY DEF ConsoleIInv, AskedIsCurrent, OverlapMarked
<1>3. LabelsHonest'
  BY DEF ConsoleIInv, LabelsHonest, CalloutSaysSample
<1>4. ShownIsAsked'
  BY DEF ConsoleIInv, ShownIsAsked
<1> QED
  BY <1>1, <1>2, <1>3, <1>4 DEF ConsoleIInv

\* A button of the tab sends a call about what the tab is about.
LEMMA SendKeeps ==
    ASSUME ConsoleIInv, NEW act \in {"load", "upload", "start", "refresh"}, NEW key \in Ids,
           Send(act, key),
           act = "load" => tab \in LoadTabs /\ (tab \in FindingsTabs => key = activePortfolio),
           act = "upload" => tab = "portfolio",
           act \in {"start", "refresh"} => tab = "analysis",
           act = "refresh" => key = jobBox
    PROVE  ConsoleIInv'
<1> DEFINE call == [n |-> sent, mount |-> mount, act |-> act, key |-> key]
<1>1. /\ sent' = sent + 1 /\ calls' = calls \union {call} /\ status' = "busy"
      /\ UNCHANGED <<backend, tab, mount, activePortfolio, data, selection, portfolioBox, jobBox, issued>>
      /\ meanwhile \subseteq meanwhile' /\ meanwhile' \subseteq meanwhile \union {"overlap"}
      /\ (\E c \in calls : c.mount = mount) => "overlap" \in meanwhile'
  BY DEF Send
<1>2. CallsTyped'
  BY <1>1 DEF ConsoleIInv, CallsTyped, ConsoleTypeOK
<1>3. ConsoleTypeOK'
  <2>1. \A c \in calls' : c.mount <= mount' /\ c.n < sent'
    BY <1>1 DEF ConsoleIInv, ConsoleTypeOK, CallsTyped
  <2> QED
    BY <1>1, <2>1 DEF ConsoleIInv, ConsoleTypeOK
<1>4. CallsOfTab' /\ AskedIsCurrent'
  BY <1>1 DEF ConsoleIInv, CallsOfTab, AskedIsCurrent
<1>5. OverlapMarked'
  BY <1>1 DEF ConsoleIInv, OverlapMarked
<1>6. LabelsHonest' /\ ShownIsAsked'
  BY <1>1 DEF ConsoleIInv, LabelsHonest, CalloutSaysSample, ShownIsAsked
<1> QED
  BY <1>2, <1>3, <1>4, <1>5, <1>6 DEF ConsoleIInv

LEMMA RefuseKeeps == ConsoleIInv /\ Refuse => ConsoleIInv'
<1> SUFFICES ASSUME ConsoleIInv, Refuse PROVE ConsoleIInv'
  OBVIOUS
<1>1. ConsoleTypeOK' /\ CallsTyped' /\ CallsOfTab'
  BY DEF Refuse, ConsoleIInv, ConsoleTypeOK, CallsTyped, CallsOfTab
<1>2. AskedIsCurrent' /\ OverlapMarked' /\ LabelsHonest' /\ ShownIsAsked'
  BY DEF Refuse, ConsoleIInv, AskedIsCurrent, OverlapMarked,
         LabelsHonest, CalloutSaysSample, ShownIsAsked
<1> QED
  BY <1>1, <1>2 DEF ConsoleIInv

LEMMA ButtonKeeps ==
    ASSUME ConsoleIInv, Load \/ UploadPortfolio \/ StartAnalysis \/ RefreshJob
    PROVE  ConsoleIInv'
<1>1. activePortfolio \in Ids /\ selection \in Ids /\ portfolioBox \in Ids /\ jobBox \in Ids /\ NoId \in Ids
  BY DEF ConsoleIInv, ConsoleTypeOK, Ids
<1>2. ASSUME Load PROVE ConsoleIInv'
  <2> DEFINE key == IF tab \in FindingsTabs THEN activePortfolio ELSE selection
  <2>1. tab \in LoadTabs /\ Send("load", key)
    BY <1>2 DEF Load
  <2>2. key \in Ids /\ (tab \in FindingsTabs => key = activePortfolio)
    BY <1>1
  <2> HIDE DEF key
  <2> QED
    BY <2>1, <2>2, SendKeeps
<1>3. ASSUME UploadPortfolio PROVE ConsoleIInv'
  BY <1>1, <1>3, SendKeeps, RefuseKeeps DEF UploadPortfolio
<1>4. ASSUME StartAnalysis PROVE ConsoleIInv'
  <2>1. tab = "analysis" /\ (Refuse \/ Send("start", portfolioBox))
    BY <1>4 DEF StartAnalysis
  <2> QED
    BY <1>1, <2>1, SendKeeps, RefuseKeeps
<1>5. ASSUME RefreshJob PROVE ConsoleIInv'
  <2>1. tab = "analysis" /\ (Refuse \/ Send("refresh", jobBox))
    BY <1>5 DEF RefreshJob
  <2> QED
    BY <1>1, <2>1, SendKeeps, RefuseKeeps
<1> QED
  BY <1>2, <1>3, <1>4, <1>5

-----------------------------------------------------------------------------
\* What every answer does: the call is gone, and no tab is opened or box typed in.
Answering(c) ==
    /\ c \in calls /\ calls' = calls \ {c}
    /\ UNCHANGED <<backend, tab, mount, selection, portfolioBox, sent>>
    /\ issued \subseteq issued' /\ issued' \subseteq Portfolios \union Jobs

\* The answers that come to a tab that is gone, and the calls that fail.
LEMMA UnheardKeeps ==
    ASSUME ConsoleIInv, NEW c, Answering(c),
           UNCHANGED <<activePortfolio, data, jobBox, meanwhile>>,
           status' = status \/ status' = "error"
    PROVE  ConsoleIInv'
<1>1. ConsoleTypeOK' /\ CallsTyped' /\ CallsOfTab'
  BY DEF Answering, ConsoleIInv, ConsoleTypeOK, CallsTyped, CallsOfTab
<1>2. AskedIsCurrent' /\ OverlapMarked'
  BY DEF Answering, ConsoleIInv, AskedIsCurrent, OverlapMarked
<1>3. LabelsHonest' /\ ShownIsAsked'
  BY DEF Answering, ConsoleIInv, LabelsHonest, CalloutSaysSample, ShownIsAsked
<1> QED
  BY <1>1, <1>2, <1>3 DEF ConsoleIInv

\* The answer of a load or of a refresh is shown, or a sample is.
LEMMA ShownKeeps ==
    ASSUME ConsoleIInv, NEW c, Answering(c), c.mount = mount, c.act \in {"load", "refresh"},
           UNCHANGED <<activePortfolio, jobBox, meanwhile>>,
           \/ data' = Live(c.key) /\ status' = "live"
           \/ data' = Sample /\ status' = "noLive"
    PROVE  ConsoleIInv'
<1>1. c.key \in Ids /\ NoId \in Ids
  BY DEF Answering, ConsoleIInv, CallsTyped, Ids
<1>2. data' \in [live : BOOLEAN, of : Ids]
  <2>1. CASE data' = Live(c.key)
    BY <1>1, <2>1 DEF Live
  <2>2. CASE data' = Sample
    BY <1>1, <2>2 DEF Sample
  <2> QED
    BY <2>1, <2>2
<1>3. ConsoleTypeOK' /\ CallsTyped' /\ CallsOfTab'
  BY <1>2 DEF Answering, ConsoleIInv, ConsoleTypeOK, CallsTyped, CallsOfTab, Ids
<1>4. AskedIsCurrent' /\ OverlapMarked'
  BY DEF Answering, ConsoleIInv, AskedIsCurrent, OverlapMarked
<1>5. LabelsHonest'
  BY DEF LabelsHonest, CalloutSaysSample, Live, Sample
<1>6. ShownIsAsked'
  <2>1. tab \in FindingsTabs => c.act = "load"
    BY DEF Answering, ConsoleIInv, CallsOfTab, FindingsTabs
  <2>2. tab = "analysis" => c.act = "refresh"
    BY DEF Answering, ConsoleIInv, CallsOfTab, LoadTabs, FindingsTabs
  <2>3. /\ tab \in FindingsTabs /\ "upload" \notin meanwhile => c.key = activePortfolio
        /\ tab = "analysis" /\ meanwhile \cap {"overlap", "typed"} = {} => c.key = jobBox
    BY <2>1, <2>2 DEF Answering, ConsoleIInv, AskedIsCurrent
  <2> QED
    BY <2>3 DEF Answering, ShownIsAsked, Live, Sample
<1> QED
  BY <1>3, <1>4, <1>5, <1>6 DEF ConsoleIInv

LEMMA LoadedKeeps ==
    ASSUME ConsoleIInv, NEW c \in calls, Loaded(c) \/ Refreshed(c)
    PROVE  ConsoleIInv'
<1>1. Answering(c) /\ UNCHANGED <<activePortfolio, jobBox, meanwhile>> /\ c.act \in {"load", "refresh"}
  BY DEF Loaded, Refreshed, Answered, Answering, ConsoleIInv, ConsoleTypeOK
<1>2. CASE c.mount = mount
  <2>1. \/ data' = Live(c.key) /\ status' = "live"
        \/ data' = Sample /\ status' = "noLive"
    BY <1>2 DEF Loaded, Refreshed, Mounted
  <2> QED
    BY <1>1, <1>2, <2>1, ShownKeeps
<1>3. CASE c.mount # mount
  <2>1. UNCHANGED <<data, status>>
    BY <1>3 DEF Loaded, Refreshed, Mounted
  <2> QED
    BY <1>1, <2>1, UnheardKeeps
<1> QED
  BY <1>2, <1>3

LEMMA FailureKeeps ==
    ASSUME ConsoleIInv, NEW c \in calls, CallFails(c)
    PROVE  ConsoleIInv'
<1>1. issued \subseteq issued' /\ issued' \subseteq Portfolios \union Jobs
  BY DEF CallFails, ConsoleIInv, ConsoleTypeOK
<1>2. Answering(c) /\ UNCHANGED <<activePortfolio, data, jobBox, meanwhile>>
  BY <1>1 DEF CallFails, Answered, Answering
<1>3. status' = status \/ status' = "error"
  BY DEF CallFails
<1> QED
  BY <1>2, <1>3, UnheardKeeps

\* An upload is answered: its tab shows it, or is gone and the history says so.
LEMMA UploadedKeeps ==
    ASSUME ConsoleIInv, NEW c \in calls, Uploaded(c)
    PROVE  ConsoleIInv'
<1>1. PICK id \in (Portfolios \ issued) \union {NoId} :
         /\ issued' = issued \union ({id} \ {NoId})
         /\ HandOn(c, id)
         /\ IF Mounted(c) THEN data' = [live |-> id # NoId, of |-> id] /\ status' = "uploaded"
                          ELSE UNCHANGED <<data, status>>
  BY DEF Uploaded
<1>2. c.act = "upload" /\ Answering(c) /\ UNCHANGED jobBox
  BY <1>1 DEF Uploaded, Answered, Answering, ConsoleIInv, ConsoleTypeOK
<1>3. activePortfolio' \in (issued' \cap Portfolios) \union {SamplePortfolio}
  BY <1>1 DEF HandOn, ConsoleIInv, ConsoleTypeOK
<1>4. data' = data \/ (data' \in [live : BOOLEAN, of : Ids] /\ status' = "uploaded")
  <2>1. CASE ~Mounted(c)
    BY <1>1, <2>1
  <2>2. CASE Mounted(c)
    <3>1. data' = [live |-> id # NoId, of |-> id] /\ status' = "uploaded"
      BY <1>1, <2>2
    <3>2. (id # NoId) \in BOOLEAN /\ id \in Ids
      BY DEF Ids
    <3>3. [live |-> id # NoId, of |-> id] \in [live : BOOLEAN, of : Ids]
      BY <3>2, Zenon
    <3> QED
      BY <3>1, <3>3, Zenon
  <2> QED
    BY <2>1, <2>2
<1>5. /\ status' = status \/ status' = "uploaded"
      /\ meanwhile' \subseteq meanwhile \union {"upload"} /\ meanwhile \subseteq meanwhile'
  BY <1>1 DEF HandOn
<1>6. ConsoleTypeOK' /\ CallsTyped'
  BY <1>2, <1>3, <1>4, <1>5 DEF Answering, ConsoleIInv, ConsoleTypeOK, CallsTyped, Ids
<1>7. CallsOfTab' /\ OverlapMarked'
  BY <1>2, <1>5 DEF Answering, ConsoleIInv, CallsOfTab, OverlapMarked
<1>8. \/ tab \notin FindingsTabs /\ tab # "analysis"
      \/ ~Mounted(c) /\ "upload" \in meanwhile'
  BY <1>1, <1>2 DEF HandOn, Mounted, ConsoleIInv, CallsOfTab, FindingsTabs
<1>9. AskedIsCurrent'
  BY <1>2, <1>5, <1>8 DEF Answering, ConsoleIInv, AskedIsCurrent
<1>10. LabelsHonest'
  BY <1>1 DEF ConsoleIInv, LabelsHonest, CalloutSaysSample
<1>11. ShownIsAsked'
  BY <1>1, <1>2, <1>5, <1>8 DEF Answering, ConsoleIInv, ShownIsAsked
<1> QED
  BY <1>6, <1>7, <1>9, <1>10, <1>11 DEF ConsoleIInv

\* An analysis is started: its job is put in the box and shown.
LEMMA StartedKeeps ==
    ASSUME ConsoleIInv, NEW c \in calls, Started(c)
    PROVE  ConsoleIInv'
<1>1. PICK j \in (Jobs \ issued) \union {NoId} :
         /\ issued' = issued \union ({j} \ {NoId})
         /\ IF Mounted(c) THEN ShowJob(c, j) ELSE UNCHANGED <<data, status, jobBox>>
  BY DEF Started
<1>2. c.act = "start" /\ Answering(c) /\ UNCHANGED <<activePortfolio, meanwhile>>
  BY <1>1 DEF Started, Answered, Answering, ConsoleIInv, ConsoleTypeOK
<1>3. CASE ~Mounted(c)
  BY <1>1, <1>2, <1>3, UnheardKeeps
<1>4. CASE Mounted(c)
  <2>1. data' = [live |-> TRUE, of |-> j] /\ status' = "live" /\ jobBox' = j
    BY <1>1, <1>4 DEF ShowJob, Live
  <2>2. data' \in [live : BOOLEAN, of : Ids] /\ jobBox' \in Jobs \union {NoId}
    BY <2>1 DEF Ids
  <2>3. ConsoleTypeOK' /\ CallsTyped' /\ CallsOfTab'
    BY <1>2, <2>1, <2>2
       DEF Answering, ConsoleIInv, ConsoleTypeOK, CallsTyped, CallsOfTab, Ids
  <2>4. tab = "analysis"
    BY <1>2, <1>4 DEF Mounted, ConsoleIInv, CallsOfTab
  <2>5. OverlapMarked'
    BY <1>2 DEF Answering, ConsoleIInv, OverlapMarked
  <2>6. AskedIsCurrent'
    <3>1. ASSUME NEW d \in calls', d.mount = mount, d.act = "refresh" PROVE "overlap" \in meanwhile
      BY <1>2, <1>4, <3>1 DEF Mounted, Answering, ConsoleIInv, OverlapMarked
    <3> QED
      BY <1>2, <2>4, <3>1 DEF Answering, ConsoleIInv, AskedIsCurrent, FindingsTabs
  <2>7. LabelsHonest' /\ ShownIsAsked'
    BY <1>2, <2>1, <2>4 DEF Answering, LabelsHonest, CalloutSaysSample, ShownIsAsked,
                             FindingsTabs
  <2> QED
    BY <2>3, <2>5, <2>6, <2>7 DEF ConsoleIInv
<1> QED
  BY <1>3, <1>4

-----------------------------------------------------------------------------
LEMMA ConsoleKeeps == ConsoleIInv /\ [ConsoleNext]_consoleVars => ConsoleIInv'
<1> SUFFICES ASSUME ConsoleIInv, [ConsoleNext]_consoleVars PROVE ConsoleIInv'
  OBVIOUS
<1>1. CASE UNCHANGED consoleVars
  <2>1. ConsoleTypeOK' /\ CallsTyped' /\ CallsOfTab'
    BY <1>1 DEF consoleVars, tabVars, ConsoleIInv, ConsoleTypeOK, CallsTyped, CallsOfTab
  <2>2. AskedIsCurrent' /\ OverlapMarked' /\ LabelsHonest' /\ ShownIsAsked'
    BY <1>1 DEF consoleVars, tabVars, ConsoleIInv, AskedIsCurrent, OverlapMarked,
                   LabelsHonest, CalloutSaysSample, ShownIsAsked
  <2> QED
    BY <2>1, <2>2 DEF ConsoleIInv
<1>2. selection \in Tickers /\ portfolioBox \in Portfolios \union {SamplePortfolio, NoId}
  BY DEF ConsoleIInv, ConsoleTypeOK
<1>3. ASSUME NEW k \in Tickers, SelectTicker(k) PROVE ConsoleIInv'
  BY <1>2, <1>3, InputKeeps DEF SelectTicker
<1>4. ASSUME NEW p \in Portfolios \union {NoId}, TypePortfolio(p) PROVE ConsoleIInv'
  BY <1>2, <1>4, InputKeeps DEF TypePortfolio
<1>5. ASSUME NEW j \in Jobs \union {NoId}, TypeJob(j) PROVE ConsoleIInv'
  BY <1>2, <1>5, InputKeeps DEF TypeJob
<1>6. ASSUME NEW c \in calls, Loaded(c) \/ Uploaded(c) \/ Started(c) \/ Refreshed(c) \/ CallFails(c)
      PROVE  ConsoleIInv'
  BY <1>6, LoadedKeeps, UploadedKeeps, StartedKeeps, FailureKeeps
<1> QED
  BY <1>1, <1>3, <1>4, <1>5, <1>6, ProbedKeeps, OpenTabKeeps, ButtonKeeps DEF ConsoleNext

-----------------------------------------------------------------------------
(***************************************************************************)
(* Theorems                                                                *)
(***************************************************************************)

\* In whatever order the probe and the calls are answered, the console keeps ConsoleIInv.
THEOREM ConsoleInvariant == ConsoleSpec => []ConsoleIInv
<1> QED
  BY InitConsole, ConsoleKeeps, PTL DEF ConsoleSpec

\* The console's state keeps its types, and only an uploaded portfolio or the
\* sample is ever active (App.jsx).
THEOREM ConsoleTypeCorrect == ConsoleSpec => []ConsoleTypeOK
<1>1. ConsoleIInv => ConsoleTypeOK
  BY DEF ConsoleIInv
<1> QED
  BY <1>1, ConsoleInvariant, PTL

\* For any number of overlapping calls and switched tabs, the callout never calls
\* live data a sample, nor a sample live data (App.jsx: the status effects and the
\* load handlers).
THEOREM LabelsAlwaysHonest == ConsoleSpec => []LabelsHonest
<1>1. ConsoleIInv => LabelsHonest
  BY DEF ConsoleIInv
<1> QED
  BY <1>1, ConsoleInvariant, PTL

\* Live data are of what the tab is about, except for the two causes that the
\* history names (App.jsx: no answer is checked against the state it comes to).
THEOREM ShownAlwaysAsked == ConsoleSpec => []ShownIsAsked
<1>1. ConsoleIInv => ShownIsAsked
  BY DEF ConsoleIInv
<1> QED
  BY <1>1, ConsoleInvariant, PTL
=============================================================================
