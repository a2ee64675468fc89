------------------------------ MODULE Retrieval ------------------------------
(***************************************************************************)
(* hybrid_retrieve (services/agent-api/app/retrieval.py) for one plan: for *)
(* each ticker at the same time a keyword search in SQLite and a vector    *)
(* search in Qdrant, reciprocal rank fusion of the two; then one list of   *)
(* the best chunks, a reranker, and SectionDiversity's selection.          *)
(*                                                                         *)
(* Scores are multiples of 1 / Scale, so that sums are exact.              *)
(***************************************************************************)
EXTENDS SectionDiversity, Ordering, Integers

CONSTANTS
    Plans,          \* target_tickers of a RetrievalPlan
    Rows,           \* chunks that match a plan's filters in SQLite
    Points,         \* ... in Qdrant
    SourceLimit,    \* per_source_limit
    RankOffset,     \* k of reciprocal_rank_fusion
    Scale,
    RerankTop,      \* rerank_top_n
    ReplyLimit      \* bound: the longest answer of the reranker

ASSUME RetrievalAssumption ==
    /\ {SourceLimit, RankOffset, RerankTop} \subseteq Nat \ {0}
    /\ {ReplyLimit, Scale} \subseteq Nat
    /\ Scale # 0
    /\ \A targets \in Plans : targets \in Seq({targets[i] : i \in DOMAIN targets})
    /\ Rows \union Points \subseteq Chunks
    /\ \A r \in 1 .. SourceLimit : Scale % (RankOffset + r) = 0

VARIABLES
    stage,      \* where hybrid_retrieve is
    tickers,    \* target_tickers
    found,      \* found[i]: what retrieve_for_ticker has for tickers[i]
    candidates, \* the chunks sent to the reranker
    reply       \* the indices it answered, from 0

RetrievalVars == <<stage, tickers, found, candidates, reply, SelectionVars>>

RetrievalInit ==
    /\ stage = "idle"
    /\ tickers = <<>>
    /\ found = <<>>
    /\ candidates = <<>> /\ reply = <<>>
    /\ SelectionInit

\* hybrid_retrieve is called: a task for each ticker.
Retrieve(targets) ==
    /\ stage = "idle"
    /\ stage' = "searching"
    /\ tickers' = targets
    /\ UNCHANGED <<found, candidates, reply, SelectionVars>>

Of(t, cs) == {c \in cs : c.ticker = t}

\* The rankings of at most SourceLimit members of cs.
Rankings(cs) ==
    {s \in UNION {[1 .. n -> cs] : n \in 0 .. SourceLimit} :
        \A i, j \in DOMAIN s : s[i] = s[j] => i = j}

Members(s) == {s[i] : i \in DOMAIN s}

\* Mutation: no filter by ticker.
Bug_RecentOfAll(t) ==
    {s \in Rankings(Rows) : Len(s) = SourceLimit /\
        \A i \in DOMAIN s : \A c \in Rows \ {s[j] : j \in 1 .. i} : c.date <= s[i].date}

\* recent_chunks: the newest rows, whatever the query.
Recent(t) ==
    {s \in Rankings(Of(t, Rows)) :
        /\ Len(s) < SourceLimit => Members(s) = Of(t, Rows)
        /\ \A i \in DOMAIN s : \A c \in Of(t, Rows) \ {s[j] : j \in 1 .. i} : c.date <= s[i].date}

\* Mutation: the lowest score first.
Bug_Ascending(score, earlier) ==
    Ordered(DOMAIN score,
            {p \in (DOMAIN score) \X (DOMAIN score) :
                \/ score[p[1]] < score[p[2]]
                \/ score[p[1]] = score[p[2]] /\ p \in earlier})

\* Python's stable sort: the highest score first, equals in their order so far.
BestFirst(score, earlier) ==
    Ordered(DOMAIN score,
            {p \in (DOMAIN score) \X (DOMAIN score) :
                \/ score[p[1]] > score[p[2]]
                \/ score[p[1]] = score[p[2]] /\ p \in earlier})

AsListed(s) == {p \in (DOMAIN s) \X (DOMAIN s) : p[1] < p[2]}

\* What a chunk scores for its rank in one list.
Share(c, ranking) ==
    IF c \in Members(ranking)
    THEN Scale \div (RankOffset + CHOOSE r \in DOMAIN ranking : ranking[r] = c)
    ELSE 0

\* reciprocal_rank_fusion
Fused(keyword, vector) ==
    LET both == keyword \o Kept(vector, {i \in DOMAIN vector : vector[i] \notin Members(keyword)})
        score == [i \in DOMAIN both |-> Share(both[i], keyword) + Share(both[i], vector)]
        order == BestFirst(score, AsListed(both))
    IN  [n \in DOMAIN both |-> [chunk |-> both[order[n]], score |-> score[order[n]]]]

-----------------------------------------------------------------------------
\* retrieve_for_ticker returns for tickers[i].
Found(i, keyword, vector) ==
    /\ found' = [j \in DOMAIN found \union {i} |->
                    IF j = i
                    THEN [keyword |-> keyword, vector |-> vector, fused |-> Fused(keyword, vector)]
                    ELSE found[j]]
    /\ UNCHANGED <<stage, tickers, candidates, reply, SelectionVars>>

Searching(i) == stage = "searching" /\ i \in DOMAIN tickers \ DOMAIN found

\* Both searches return.  A keyword search that SQLite refuses returns nothing;
\* so does a vector search if Qdrant is down.
Search(i) ==
    /\ Searching(i)
    /\ \E keyword \in Rankings(Of(tickers[i], Rows)), vector \in Rankings(Of(tickers[i], Points)) :
        /\ keyword # <<>> \/ vector # <<>>
        /\ Found(i, keyword, vector)

\* No embedding of the query: the keyword search is run alone.
SearchKeywordsOnly(i) ==
    /\ Searching(i)
    /\ \E keyword \in Rankings(Of(tickers[i], Rows)) \ {<<>>} : Found(i, keyword, <<>>)

\* Mutation: a ticker without a match has no evidence.
Bug_NoFallback(i) ==
    /\ Searching(i)
    /\ Found(i, <<>>, <<>>)

\* Neither search has a match.
SearchFallsBack(i) ==
    /\ Searching(i)
    /\ \E recent \in Recent(tickers[i]) : Found(i, recent, <<>>)

\* recent_chunks, or a row that is no ChunkRow, raises.  So does a payload that is
\* none: the handler then awaits the keyword search a second time, which no
\* coroutine permits.  gather hands on whichever it is, for all tickers.
SearchRaises(i) ==
    /\ Searching(i)
    /\ stage' = "failed"
    /\ UNCHANGED <<tickers, found, candidates, reply, SelectionVars>>

\* The best of all tickers, by score.
Merge ==
    /\ stage = "searching"
    /\ DOMAIN found = DOMAIN tickers
    /\ candidates' =
         LET merged == Flattened([i \in DOMAIN tickers |-> found[i].fused])
             order == BestFirst([n \in DOMAIN merged |-> merged[n].score], AsListed(merged))
         IN  [n \in {k \in DOMAIN order : k <= RerankTop} |-> merged[order[n]].chunk]
    /\ found' = <<>>
    /\ stage' = "merged"
    /\ UNCHANGED <<tickers, reply, SelectionVars>>

-----------------------------------------------------------------------------
\* What a reranker may answer to n documents: any indices, in any order.
Answers(n) == UNION {[1 .. k -> -1 .. n] : k \in 0 .. ReplyLimit}

\* The candidates that the indices name.
Chosen(indices) ==
    LET inRange == Kept(indices, {k \in DOMAIN indices : indices[k] \in 0 .. Len(candidates) - 1})
    IN  [i \in DOMAIN inRange |-> candidates[inRange[i] + 1]]

\* The candidates that the reranker has not named.
Others(named) == Kept(candidates, {i \in DOMAIN candidates : candidates[i] \notin Members(named)})

\* Mutation: the reranker's answer is all there is.
Bug_OnlyNamed ==
    /\ stage = "merged"
    /\ stage' = "reranked"
    /\ \/ ordered' = candidates /\ reply' = <<>>
       \/ /\ reply' \in Answers(Len(candidates))
          /\ ordered' = Chosen(reply')
    /\ Call
    /\ UNCHANGED <<tickers, found, candidates>>

\* The reranker fails, or the chunks it names come first and the others after.
Rerank ==
    /\ stage = "merged"
    /\ stage' = "reranked"
    /\ \/ ordered' = candidates /\ reply' = <<>>
       \/ /\ reply' \in Answers(Len(candidates))
          /\ ordered' = Chosen(reply') \o Others(Chosen(reply'))
    /\ Call
    /\ UNCHANGED <<tickers, found, candidates>>

-----------------------------------------------------------------------------
\* apply_section_diversity
Select ==
    /\ stage = "reranked"
    /\ TakeOrSkip \/ Return
    /\ UNCHANGED <<stage, tickers, found, candidates, reply>>

RetrievalNext ==
    \/ \E i \in DOMAIN tickers :
        Search(i) \/ SearchKeywordsOnly(i) \/ SearchFallsBack(i) \/ SearchRaises(i)
    \/ Merge \/ Rerank \/ Select

-----------------------------------------------------------------------------
(***************************************************************************)
(* Properties                                                              *)
(***************************************************************************)

\* Where both searches prefer one chunk to another, fusion does: whatever the
\* lengths of the two lists and wherever else the chunks stand.
AgreementKept ==
    \A i \in DOMAIN found : LET f == found[i] IN
        \A p, q \in DOMAIN f.fused :
            LET c == f.fused[p].chunk
                d == f.fused[q].chunk
                Prefers(s) == \E m \in DOMAIN s : s[m] = c /\ \A n \in 1 .. m : s[n] # d
            IN  Prefers(f.keyword) /\ Prefers(f.vector) => p < q

\* A reranker that repeats itself, leaves documents out or names some that do not
\* exist takes no evidence away and brings none in.
RerankKeepsAll ==
    stage = "reranked" => Members(ordered) = Members(candidates)

\* Outages of the gateway, of Qdrant or of the reranker leave a plan with evidence
\* if SQLite has any for it.
EvidenceIfAny ==
    pass = "done" /\ (\E i \in DOMAIN tickers : Of(tickers[i], Rows) # {}) => taken # {}
=============================================================================
