----------------------------- MODULE MCAnalysis -----------------------------
(***************************************************************************)
(* Small instance of Analysis.  Ticker 1 has a section in three filings,   *)
(* one of them a 10-Q and the newest one with two chunks; ticker 2 has one *)
(* in two.  As in chunking.py an anchor has no date, so the same paragraph *)
(* of another year has the same anchor.  Qdrant lacks some of the rows.    *)
(***************************************************************************)
EXTENDS Analysis

MCChunk(id, anchor, ticker, type, date, index, text) ==
    [id |-> id, anchor |-> anchor, ticker |-> ticker, section |-> "item_1a", type |-> type,
     date |-> date, index |-> index, text |-> text, group |-> <<ticker, "item_1a", type>>]

MCRows ==
    {MCChunk("k1", "p1", 1, "10-K", 3, 2, "x"), MCChunk("k2", "p2", 1, "10-K", 3, 1, "y"),
     MCChunk("q1", "r1", 1, "10-Q", 2, 1, "x"), MCChunk("k3", "p1", 1, "10-K", 1, 2, "x"),
     MCChunk("b1", "q1", 2, "10-K", 3, 1, "z"), MCChunk("b2", "q1", 2, "10-K", 1, 1, "x")}
MCPoints == {c \in MCRows : c.id \in {"k1", "q1", "k3"}}

MCPlans == {<<>>, <<1>>, <<1, 2>>, <<2, 2>>}
MCScale == 61 * 62 * 63 * 64

\* "c0" names no chunk.
MCNames == {"c0", "k1", "p1", "k3"}
MCSentences == {{}, {"c0"}, {"k1"}, {"p1"}, {"c0", "k3"}}
MCReplies == UNION {[1 .. n -> MCSentences] : n \in 0 .. 2}
=============================================================================
