----------------------------- MODULE DemoConsole -----------------------------
(***************************************************************************)
(* The state of the React console (App.jsx) around its asynchronous calls  *)
(* of the Agent API (apiClient.js).  One tab is mounted at a time and its  *)
(* state is lost when another is opened, but its calls stay under way: the *)
(* setters of a tab that is gone do nothing, while App's                   *)
(* setActivePortfolioId, handed to the upload as a callback, still works.  *)
(* Buttons are never disabled and no call is ever cancelled, so answers    *)
(* come in any order.  A text is reduced to what it says of the data shown *)
(* beside it.                                                              *)
(***************************************************************************)
EXTENDS Naturals, FiniteSets

CONSTANTS
    Tickers, FirstTicker,       \* what Drift and Evidence let the user select
    Portfolios, SamplePortfolio,\* ids that uploads bring, and the sample's
    Jobs,                       \* ids that analyses bring
    NoId,                       \* an empty text box, an answer without an id
    MaxCalls,                   \* bound: calls sent
    MaxSwitches                 \* bound: tabs opened

ASSUME ConsoleAssumption ==
    /\ FirstTicker \in Tickers
    /\ SamplePortfolio \notin Portfolios
    /\ NoId \notin Portfolios \cup Jobs \cup {SamplePortfolio}
    /\ MaxCalls \in Nat /\ MaxSwitches \in Nat

FindingsTabs == {"risk", "memo"}
LoadTabs == FindingsTabs \cup {"drift", "evidence", "benchmark"}
Tabs == LoadTabs \cup {"portfolio", "analysis"}

VARIABLES
    backend,            \* "checking", "online" or "offline": one probe, at start
    tab,                \* the tab that is mounted
    mount,              \* how many tabs were opened before it
    activePortfolio,    \* App's activePortfolioId
    status,             \* what the tab's callout says
    data,               \* what it shows: [live, of]; its sample if not live
    selection,          \* the ticker (and section) selected
    portfolioBox,       \* the text boxes of the Analysis tab
    jobBox,
    calls,              \* calls that are not answered yet
    sent,               \* how many calls were sent
    issued,             \* ids the API has given out
    meanwhile           \* history: what befell this mount, of "upload", "overlap", "typed"

tabVars == <<status, data, selection, portfolioBox, jobBox>>
consoleVars == <<backend, tab, mount, activePortfolio, tabVars, calls, sent, issued, meanwhile>>

Sample == [live |-> FALSE, of |-> NoId]
Live(id) == [live |-> TRUE, of |-> id]

\* ONLINE_STATUS and OFFLINE_STATUS, the first of the texts that say "sample".
DefaultStatus(state) == IF state = "online" THEN "online" ELSE "offline"

ConsoleInit ==
    /\ backend = "checking"
    /\ tab = "portfolio"
    /\ mount = 0
    /\ activePortfolio = SamplePortfolio
    /\ status = "offline"
    /\ data = Sample
    /\ selection = FirstTicker
    /\ portfolioBox = SamplePortfolio
    /\ jobBox = NoId
    /\ calls = {}
    /\ sent = 0
    /\ issued = {}
    /\ meanwhile = {}

CalloutSaysSample == status \in {"online", "offline", "noLive"}

\* "Sample data" and "Sample memo" for backendOnline = false; the benchmark's
\* source label.  (The portfolio's "Sample preview" is about the holdings, which
\* are always the sample's.)
ChipSaysSample ==
    \/ tab \in FindingsTabs \cup {"drift"} /\ backend # "online"
    \/ tab = "benchmark" /\ ~data.live

-----------------------------------------------------------------------------
\* Mutation: the effect sets the default text whatever stands there.
Bug_EffectForgets(state) == status' = DefaultStatus(state)

\* useEffect on backendOnline: only a default text is replaced.
AdjustStatus(state) ==
    status' = IF status \in {"online", "offline"} THEN DefaultStatus(state) ELSE status

\* The health probe of App's effect is answered, or fails.
Probed ==
    /\ backend = "checking"
    /\ backend' \in {"online", "offline"}
    /\ AdjustStatus(backend')
    /\ UNCHANGED <<tab, mount, activePortfolio, data, selection, portfolioBox, jobBox,
                   calls, sent, issued, meanwhile>>

\* Mutation: tabs are hidden, and stay mounted.
Bug_KeepsState(t) ==
    /\ t # tab /\ mount < MaxSwitches
    /\ tab' = t
    /\ mount' = mount + 1
    /\ meanwhile' = {}
    /\ UNCHANGED <<backend, activePortfolio, tabVars, calls, sent, issued>>

\* setActiveTab: the old tab is unmounted, the new one starts anew.
OpenTab(t) ==
    /\ t # tab /\ mount < MaxSwitches
    /\ tab' = t
    /\ mount' = mount + 1
    /\ status' = DefaultStatus(backend)
    /\ data' = Sample
    /\ selection' = FirstTicker
    /\ portfolioBox' = activePortfolio
    /\ jobBox' = NoId
    /\ meanwhile' = {}
    /\ UNCHANGED <<backend, activePortfolio, calls, sent, issued>>

\* The user selects a ticker or a section.
SelectTicker(k) ==
    /\ tab \in {"drift", "evidence"}
    /\ selection' = k
    /\ UNCHANGED <<backend, tab, mount, activePortfolio, status, data, portfolioBox, jobBox,
                   calls, sent, issued, meanwhile>>

\* The user types into a box of the Analysis tab.
TypePortfolio(p) ==
    /\ tab = "analysis"
    /\ portfolioBox' = p
    /\ UNCHANGED <<backend, tab, mount, activePortfolio, status, data, selection, jobBox,
                   calls, sent, issued, meanwhile>>

TypeJob(j) ==
    /\ tab = "analysis"
    /\ jobBox' = j
    /\ meanwhile' = meanwhile \cup {"typed"}
    /\ UNCHANGED <<backend, tab, mount, activePortfolio, status, data, selection, portfolioBox,
                   calls, sent, issued>>

-----------------------------------------------------------------------------
\* AgentApiClient.request is called and the callout says that it is.
Send(act, key) ==
    /\ sent < MaxCalls
    /\ sent' = sent + 1
    /\ calls' = calls \cup {[n |-> sent, mount |-> mount, act |-> act, key |-> key]}
    /\ status' = "busy"
    /\ meanwhile' = IF \E c \in calls : c.mount = mount
                    THEN meanwhile \cup {"overlap"} ELSE meanwhile
    /\ UNCHANGED <<backend, tab, mount, activePortfolio, data, selection, portfolioBox, jobBox, issued>>

\* A handler that finds its file or its text box empty says so.
Refuse ==
    /\ status' = "prompt"
    /\ UNCHANGED <<backend, tab, mount, activePortfolio, data, selection, portfolioBox, jobBox,
                   calls, sent, issued, meanwhile>>

Load ==
    /\ tab \in LoadTabs
    /\ Send("load", IF tab \in FindingsTabs THEN activePortfolio ELSE selection)

\* A file may have been chosen, or not.
UploadPortfolio ==
    /\ tab = "portfolio"
    /\ Send("upload", NoId) \/ Refuse

StartAnalysis ==
    /\ tab = "analysis"
    /\ IF portfolioBox = NoId THEN Refuse ELSE Send("start", portfolioBox)

RefreshJob ==
    /\ tab = "analysis"
    /\ IF jobBox = NoId THEN Refuse ELSE Send("refresh", jobBox)

-----------------------------------------------------------------------------
Mounted(c) == c.mount = mount
Answered(c) == calls' = calls \ {c}

\* The answers with status 200 or 202 as the normalizers see them: records,
\* none (202 has a detail only), or a text that was no JSON, in which
\* normalizeBenchmark alone finds something to show.
Answers == {"records", "none", "text"}
Usable(answer) == answer = "records" \/ (answer = "text" /\ tab = "benchmark")

Loaded(c) ==
    /\ c.act = "load"
    /\ Answered(c)
    /\ \E answer \in Answers :
         IF ~Mounted(c) THEN UNCHANGED <<data, status>>
         ELSE IF Usable(answer) THEN data' = Live(c.key) /\ status' = "live"
         ELSE data' = Sample /\ status' = "noLive"
    /\ UNCHANGED <<backend, tab, mount, activePortfolio, selection, portfolioBox, jobBox,
                   sent, issued, meanwhile>>

\* onPortfolioUploaded is App's setter: it works for a tab that is gone too.
HandOn(c, id) ==
    /\ activePortfolio' = IF id = NoId THEN activePortfolio ELSE id
    /\ meanwhile' = IF Mounted(c) THEN meanwhile ELSE meanwhile \cup {"upload"}

Uploaded(c) ==
    /\ c.act = "upload"
    /\ Answered(c)
    /\ \E id \in (Portfolios \ issued) \cup {NoId} :
         /\ issued' = issued \cup ({id} \ {NoId})
         /\ HandOn(c, id)
         /\ IF Mounted(c) THEN data' = [live |-> id # NoId, of |-> id] /\ status' = "uploaded"
                          ELSE UNCHANGED <<data, status>>
    /\ UNCHANGED <<backend, tab, mount, selection, portfolioBox, jobBox, sent>>

\* Mutation: the box keeps the job before.
Bug_BoxStays(c, j) == data' = Live(j) /\ status' = "live" /\ UNCHANGED jobBox

ShowJob(c, j) == data' = Live(j) /\ status' = "live" /\ jobBox' = j

Started(c) ==
    /\ c.act = "start"
    /\ Answered(c)
    /\ \E j \in (Jobs \ issued) \cup {NoId} :
         /\ issued' = issued \cup ({j} \ {NoId})
         /\ IF Mounted(c) THEN ShowJob(c, j) ELSE UNCHANGED <<data, status, jobBox>>
    /\ UNCHANGED <<backend, tab, mount, activePortfolio, selection, portfolioBox, sent, meanwhile>>

\* The payload is of the job that was asked for, whatever the box holds now.
Refreshed(c) ==
    /\ c.act = "refresh"
    /\ Answered(c)
    /\ IF Mounted(c) THEN data' = Live(c.key) /\ status' = "live" ELSE UNCHANGED <<data, status>>
    /\ UNCHANGED <<backend, tab, mount, activePortfolio, selection, portfolioBox, jobBox,
                   sent, issued, meanwhile>>

\* fetch throws, the status is an error (ApiError), or a normalizer throws.
\* The API may have done what it was asked.
CallFails(c) ==
    /\ Answered(c)
    /\ \E lost \in SUBSET ((IF c.act = "upload" THEN Portfolios
                            ELSE IF c.act = "start" THEN Jobs ELSE {}) \ issued) :
         Cardinality(lost) <= 1 /\ issued' = issued \cup lost
    /\ status' = IF Mounted(c) THEN "error" ELSE status
    /\ UNCHANGED <<backend, tab, mount, activePortfolio, data, selection, portfolioBox, jobBox,
                   sent, meanwhile>>

ConsoleNext ==
    \/ Probed
    \/ \E t \in Tabs : OpenTab(t)
    \/ \E k \in Tickers : SelectTicker(k)
    \/ \E p \in issued \cap Portfolios : TypePortfolio(p)
    \/ TypePortfolio(NoId)
    \/ \E j \in issued \cap Jobs : TypeJob(j)
    \/ TypeJob(NoId)
    \/ Load
    \/ UploadPortfolio
    \/ StartAnalysis
    \/ RefreshJob
    \/ \E c \in calls : Loaded(c) \/ Uploaded(c) \/ Started(c) \/ Refreshed(c) \/ CallFails(c)

ConsoleSpec == ConsoleInit /\ [][ConsoleNext]_consoleVars

-----------------------------------------------------------------------------
\* Every variable keeps its type; the active portfolio is the sample's or one
\* that an upload brought (App.jsx: the check of newPortfolioId).
ConsoleTypeOK ==
    /\ backend \in {"checking", "online", "offline"}
    /\ tab \in Tabs
    /\ mount \in 0..MaxSwitches
    /\ activePortfolio \in (issued \cap Portfolios) \cup {SamplePortfolio}
    /\ status \in {"online", "offline", "busy", "prompt", "live", "noLive", "uploaded", "error"}
    /\ data \in [live : BOOLEAN, of : Tickers \cup Portfolios \cup Jobs \cup {SamplePortfolio, NoId}]
    /\ selection \in Tickers
    /\ portfolioBox \in Portfolios \cup {SamplePortfolio, NoId}
    /\ jobBox \in Jobs \cup {NoId}
    /\ \A c \in calls : c.mount <= mount /\ c.n < sent
    /\ issued \subseteq Portfolios \cup Jobs
    /\ meanwhile \subseteq {"upload", "overlap", "typed"}

\* A callout that says the data are a sample never stands beside live data,
\* nor one that says they are live beside a sample, in whatever order the probe
\* and overlapping calls are answered (the status effects and load handlers of
\* App.jsx).  The chips are another matter: see ChipsHonest.
LabelsHonest ==
    /\ CalloutSaysSample => ~data.live
    /\ status = "live" => data.live

\* The same of the chips, which does not hold: they know the probe and not the
\* data, so that live data loaded while the probe is pending or after it failed
\* stand beside a chip that says "Sample data" or "Sample memo".
ChipsHonest == ChipSaysSample => ~data.live

\* Live findings are of the portfolio that is active, except after the upload
\* of a tab that is gone was answered; a job's payload is of the job in the
\* box, except after overlapping calls or typing (App.jsx: RiskScoresTab,
\* AnalystMemoTab, AnalysisTab and the state they lose when unmounted).
ShownIsAsked ==
    data.live =>
      /\ tab \in FindingsTabs /\ "upload" \notin meanwhile => data.of = activePortfolio
      /\ tab = "analysis" /\ meanwhile \cap {"overlap", "typed"} = {} => data.of = jobBox
=============================================================================
