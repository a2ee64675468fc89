--------------------------- MODULE AnalysisGraph ---------------------------
(***************************************************************************)
(* One analysis (services/agent-api/app/graph.py, app/agents): four nodes  *)
(* in a row hand an AnalysisState on.  A node may fail and the next one    *)
(* runs all the same, on whatever is there; every call of a model may fail *)
(* or answer anything.                                                     *)
(*                                                                         *)
(* Left out: the values of scores and confidences; wording, and the cut    *)
(* of a summary after 1200 characters.  Evidence and changes are sets here *)
(* and lists in the code: where a list's order decides, any order may have *)
(* been the case.                                                          *)
(***************************************************************************)
EXTENDS Naturals, Sequences, FiniteSets

CONSTANTS
    Tickers,        \* 1, 2, ...: the largest holding first
    MaxTargets,     \* holdings the default plan looks at
    Store,          \* the chunks that the two stores have
    Names,          \* what a sentence of a memo may cite
    Replies,        \* what the memo model may write
    NoPlan

\* A group is a ticker, a section and a filing type.
ASSUME GraphAssumption ==
    /\ Tickers \subseteq Nat
    /\ \A c \in Store : c.date \in Nat /\ c.index \in Nat
    /\ \A c, d \in Store : c.group = d.group => c.ticker = d.ticker
    /\ IsFiniteSet(Names)
    /\ Replies \subseteq Seq(SUBSET Names)
    /\ \A ts \in SUBSET Tickers : ts # NoPlan

NoMemo == <<>>

VARIABLES
    node,           \* the node that runs next
    holdings, plan, retrieved, changes, memo, error, partial,   \* AnalysisState
    reasoner        \* what became of the memo model's call: did, text

GraphVars == <<node, holdings, plan, retrieved, changes, memo, error, partial, reasoner>>
Findings == <<holdings, plan, retrieved, changes, memo>>

GraphInit ==
    /\ node = "planner"
    /\ holdings = {} /\ plan = NoPlan
    /\ retrieved = {} /\ changes = {}
    /\ memo = NoMemo
    /\ error = "none" /\ partial = FALSE
    /\ reasoner = [did |-> "unused", text |-> <<>>]

\* `except Exception` in each node: the state that the node was given, marked.
Fails(cause) ==
    /\ error' = cause
    /\ partial' = TRUE
    /\ UNCHANGED <<Findings, reasoner>>

-----------------------------------------------------------------------------
\* The targets of default_plan: the holdings with the largest weights.
Largest(hs) == {t \in hs : Cardinality({u \in hs : u < t}) < MaxTargets}

\* The model's targets: any tickers it names, the largest holdings if none.
NamedTargets(hs) == {IF ts = {} THEN Largest(hs) ELSE ts : ts \in SUBSET Tickers}

\* portfolio_context_planner: holdings from SQLite, a plan from the model or,
\* should that fail in any way, the default one.
Planner ==
    /\ node = "planner"
    /\ node' = "retrieval"
    /\ \/ Fails("planner failed")
       \/ /\ holdings' = {} /\ plan' = {}
          /\ error' = "no holdings" /\ partial' = TRUE
          /\ UNCHANGED <<retrieved, changes, memo, reasoner>>
       \/ /\ holdings' \in (SUBSET Tickers) \ {{}}
          /\ plan' \in {Largest(holdings')} \union NamedTargets(holdings')
          /\ UNCHANGED <<retrieved, changes, memo, error, partial, reasoner>>

\* hybrid_retrieve: some of what the stores have for the plan's tickers.
Retrieves ==
    /\ retrieved' \in SUBSET {c \in Store : c.ticker \in plan}
    /\ UNCHANGED <<holdings, plan, changes, memo, reasoner>>

\* Nothing to retrieve for; an earlier error stays.
Skipped == plan = NoPlan /\ Fails(IF error = "none" THEN "skipped" ELSE error)

\* filing_retrieval: skipped without a plan.
Retrieval ==
    /\ node = "retrieval"
    /\ node' = "change"
    /\ \/ Skipped
       \/ plan # NoPlan /\ Fails("retrieval failed")
       \/ plan # NoPlan /\ Retrieves /\ UNCHANGED <<error, partial>>

-----------------------------------------------------------------------------
InGroup(g) == {c \in retrieved : c.group = g}

Oldest(cs) == {c \in cs : \A d \in cs : c.date <= d.date}
Newest(cs) == {c \in cs : \A d \in cs : d.date <= c.date}
First(cs) == {c \in cs : \A d \in cs : c.index <= d.index}

\* Mutation: the first chunk of the group and the last one, in the order of
\* their numbers.
Bug_PairsByIndex(g) ==
    {p \in InGroup(g) \X InGroup(g) :
        /\ p[1] \in First(InGroup(g))
        /\ \A d \in InGroup(g) : d.index <= p[2].index
        /\ p[1].text # p[2].text}

\* Of the oldest and of the newest filing of a group with two dates, the first
\* chunk each, if the texts differ.
Pairs(g) ==
    {p \in First(Oldest(InGroup(g))) \X First(Newest(InGroup(g))) :
        p[1].date # p[2].date /\ p[1].text # p[2].text}

\* disclosure_change classifies the pair of each comparable group.  What the
\* model calls boilerplate, or by no known type, is no change.
Change ==
    /\ node = "change"
    /\ node' = "memo"
    /\ \/ Fails("change failed")
       \/ \E material \in SUBSET {c.group : c \in retrieved} :
          \E pair \in [material -> UNION {Pairs(g) : g \in material}] :
             /\ \A g \in material : pair[g] \in Pairs(g)
             /\ changes' = {[old |-> pair[g][1], new |-> pair[g][2]] : g \in material}
             /\ UNCHANGED <<holdings, plan, retrieved, memo, error, partial, reasoner>>

-----------------------------------------------------------------------------
\* What a citation may name: a retrieved chunk's id or its citation anchor.
ValidIds == {c.id : c \in retrieved} \union {c.anchor : c \in retrieved}

\* A text is a sequence of sentences, a sentence the set of names it cites.
Cited(text) ==
    UNION {{<<i, n>> : n \in text[i]} : i \in DOMAIN text}

Passed(text) == {m \in Cited(text) : m[2] \in ValidIds}

\* The sentences at some places of a text.
At(places, text) == [i \in places |-> text[i]]

\* Mutation: a sentence stays if any of its citations is valid.
Bug_KeepsAnyValid(text) ==
    At({i \in DOMAIN text : text[i] = {} \/ text[i] \intersect ValidIds # {}}, text)

\* remove_unverified_sentences: what stays of a text, each sentence at its place.
Verified(text) == At({i \in DOMAIN text : text[i] \subseteq ValidIds}, text)

\* The first n of a list of S's members, whichever they are.
Some(n, S) == IF Cardinality(S) <= n THEN {S} ELSE {s \in SUBSET S : Cardinality(s) = n}

\* What the risk score of a holding cites: changes of the ticker, else evidence.
ScoreCitations(t) ==
    LET own == {d.new : d \in {e \in changes : e.new.ticker = t}} IN
    IF own # {} THEN Some(3, own) ELSE Some(2, {c \in retrieved : c.ticker = t})

\* Mutation: the pass rate is taken of the verified text.
Bug_RateOfVerified(text) ==
    \E scores \in [holdings -> UNION {ScoreCitations(t) : t \in holdings}],
       drifts \in Some(5, changes) :
        /\ \A t \in holdings : scores[t] \in ScoreCitations(t)
        /\ memo' = [summary |-> Verified(text), drifts |-> drifts, scores |-> scores,
                    evidence |-> retrieved,
                    passed |-> Cardinality(Passed(Verified(text))),
                    cited |-> Cardinality(Cited(Verified(text)))]
        /\ UNCHANGED <<holdings, plan, retrieved, changes, error, partial>>

\* fallback_memo, its summary replaced by what is verified of a text.  The
\* fallback's own summary cites nothing: it stands here as the empty text.
Writes(text) ==
    \E scores \in [holdings -> UNION {ScoreCitations(t) : t \in holdings}],
       drifts \in Some(5, changes) :
        /\ \A t \in holdings : scores[t] \in ScoreCitations(t)
        /\ memo' = [summary |-> Verified(text), drifts |-> drifts, scores |-> scores,
                    evidence |-> retrieved,
                    passed |-> Cardinality(Passed(text)), cited |-> Cardinality(Cited(text))]
        /\ UNCHANGED <<holdings, plan, retrieved, changes, error, partial>>

\* Mutation: a memo that cannot be written leaves no mark.
Bug_FailsUnmarked ==
    /\ node = "memo"
    /\ node' = "end"
    /\ \/ UNCHANGED <<Findings, error, partial, reasoner>>
       \/ reasoner' = [did |-> "failed", text |-> <<>>] /\ Writes(<<>>)
       \/ \E text \in Replies :
            reasoner' = [did |-> "answered", text |-> text] /\ Writes(text)

\* analyst_memo: a model that fails leaves the fallback memo, with pass rate 1.
Memo ==
    /\ node = "memo"
    /\ node' = "end"
    /\ \/ Fails("memo failed")
       \/ reasoner' = [did |-> "failed", text |-> <<>>] /\ Writes(<<>>)
       \/ \E text \in Replies :
            reasoner' = [did |-> "answered", text |-> text] /\ Writes(text)

GraphNext == Planner \/ Retrieval \/ Change \/ Memo

GraphSpec == GraphInit /\ [][GraphNext]_GraphVars

-----------------------------------------------------------------------------
(***************************************************************************)
(* Properties                                                              *)
(***************************************************************************)

\* Every variable keeps its type.
GraphTypeOK ==
    /\ node \in {"planner", "retrieval", "change", "memo", "end"}
    /\ holdings \subseteq Tickers
    /\ plan = NoPlan \/ plan \subseteq Tickers
    /\ retrieved \subseteq Store
    /\ changes \subseteq [old : Store, new : Store]
    /\ partial \in BOOLEAN

\* Whatever failed before and whatever the model writes, all that a memo cites,
\* in its text, its changes, its scores and its evidence, was retrieved by this
\* analysis, and a holding's score cites filings of that holding.  The pass rate
\* tells whether anything was taken out of the text (analyst_memo.py).
MemoGrounded ==
    memo # NoMemo =>
        /\ \A i \in DOMAIN memo.summary : memo.summary[i] \subseteq ValidIds
        /\ \A d \in memo.drifts : {d.old, d.new} \subseteq retrieved
        /\ \A t \in DOMAIN memo.scores : \A c \in memo.scores[t] : c \in retrieved /\ c.ticker = t
        /\ memo.evidence \subseteq retrieved
        /\ reasoner.did = "answered" => (memo.passed = memo.cited <=> memo.summary = reasoner.text)

\* A change compares the oldest filing that was retrieved of a section with the
\* newest one, never two of one day, and a section changes once.
DriftsSpanPeriods ==
    \A d \in changes :
        /\ d.old.group = d.new.group
        /\ d.old.date < d.new.date
        /\ \A c \in InGroup(d.new.group) : d.old.date <= c.date /\ c.date <= d.new.date
        /\ \A e \in changes : e.new.group = d.new.group => e = d

\* What run_job takes for granted: a state without an error, or not marked as
\* partial, has a memo, about holdings that exist.  (AnalysisJobs: "clean".)
CleanMeansComplete ==
    node = "end" /\ (error = "none" \/ ~partial) => memo # NoMemo /\ holdings # {} /\ plan # NoPlan
=============================================================================
