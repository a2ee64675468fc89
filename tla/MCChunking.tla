----------------------------- MODULE MCChunking -----------------------------
(***************************************************************************)
(* Small instance of FilingChunks.  The five sizes keep the order they     *)
(* have in chunking.py (100 < 200 < 600 < 1000 < 1200).  Filings are       *)
(*   - one section of up to MCLength sentences of all sizes, the longest   *)
(*     of which needs three windows;                                       *)
(*   - every tree of at most MCNodes nodes with two items;                 *)
(*   - a few larger pages of the kinds that EDGAR has.                     *)
(***************************************************************************)
EXTENDS FilingChunks, SequencesExt

CONSTANTS MCLength, MCNodes

MCTokens == {1, 2, 5, 8, 17}
MCSentences == [tokens : MCTokens, opens : BOOLEAN]
MCSections ==
    {s \in UNION {[1 .. n -> MCSentences] : n \in 0 .. MCLength} : s # <<>> => s[1].opens}

\* Trees are written with positions relative to their first node.
MCShift(d, n) == [i \in DOMAIN d |-> [d[i] EXCEPT !.last = @ + n]]
MCThen(d, e) == d \o MCShift(e, Len(d))
MCPage(ds) == FoldLeft(MCThen, <<>>, ds)
MCElement(kind, ds) ==
    LET inner == MCPage(ds)
    IN  <<[kind |-> kind, last |-> 1 + Len(inner), id |-> 0, tokens |-> 0]>> \o MCShift(inner, 1)
MCLeaf(kind, id, tokens) == <<[kind |-> kind, last |-> 1, id |-> id, tokens |-> tokens]>>

Div(ds) == MCElement("block", ds)
Table(ds) == MCElement("table", ds)
Heading(i) == MCLeaf("heading", i, 1)
Toc == MCLeaf("toc", 0, 1)
Words(id) == MCLeaf("text", id, 1)

\* The heading of item 1, then a block for each paragraph of s.
MCFlat(s) ==
    LET Paragraph(i) ==
            LET n == CHOOSE n \in i .. Len(s) :
                       /\ \A j \in i + 1 .. n : ~s[j].opens
                       /\ n < Len(s) => s[n + 1].opens
            IN  Div([j \in 1 .. n + 1 - i |-> MCLeaf("text", i + j, s[i + j - 1].tokens)])
        opening == SelectSeq([i \in DOMAIN s |-> i], LAMBDA i : s[i].opens)
    IN  MCPage(<<Div(<<Heading(1)>>)>> \o [p \in DOMAIN opening |-> Paragraph(opening[p])])

\* The shapes of trees of n nodes: for each node the last one under it.  No text
\* stands alone at the top.
MCShapes(n) ==
    {l \in [1 .. n -> 1 .. n] :
        /\ \A i \in 1 .. n : l[i] >= i /\ \A m \in i .. l[i] : l[m] <= l[i]
        /\ \A m \in 1 .. n : l[m] = m => \E i \in 1 .. m - 1 : m <= l[i]}

\* A text of its own or a heading at each leaf, a block or a table above.
MCTree(l, label) ==
    [i \in DOMAIN l |->
        IF l[i] > i
        THEN [kind |-> IF label[i] = 1 THEN "table" ELSE "block", last |-> l[i], id |-> 0, tokens |-> 0]
        ELSE [kind |-> IF label[i] > 0 THEN "heading" ELSE "text", last |-> i,
              id |-> IF label[i] > 0 THEN label[i] ELSE i, tokens |-> 1]]

MCTrees ==
    {MCTree(l, label) : l \in UNION {MCShapes(n) : n \in 0 .. MCNodes}, label \in [1 .. MCNodes -> 0 .. 2]}

MCPages ==
    {\* a table of contents with links, boilerplate twice, a table, wrapped headings
     MCPage(<<Table(<<Div(<<Heading(1)>>), Toc, Div(<<Heading(2)>>)>>), Div(<<Words(9)>>),
              Div(<<Div(<<Heading(1)>>)>>), Div(<<Words(1)>>), Div(<<Words(9)>>),
              Div(<<Words(9)>>), Table(<<Words(5)>>),
              Div(<<Div(<<Heading(2)>>)>>), Div(<<Words(2)>>), Div(<<Table(<<Words(6)>>)>>)>>),
     \* all of the filing in one element, after a list of its items
     MCPage(<<Div(<<Heading(1)>>), Div(<<Heading(2)>>),
              Div(<<Div(<<Heading(1)>>), Div(<<Words(1)>>), Table(<<Words(5)>>),
                    Div(<<Heading(2)>>), Div(<<Words(2)>>), Table(<<Words(6)>>)>>)>>),
     \* page layout by tables, a table in a table
     MCPage(<<Table(<<Div(<<Heading(1)>>), Div(<<Words(1), Words(2)>>),
                      Table(<<Words(5), Table(<<Words(6)>>)>>)>>),
              Div(<<Toc>>), Div(<<Words(3), Table(<<Words(7)>>), Words(4)>>)>>),
     \* contents without links, a heading that is matched three times
     MCPage(<<Div(<<Toc>>), Div(<<Toc>>), Div(<<Div(<<Div(<<Heading(2)>>)>>)>>),
              Table(<<Words(5)>>), Div(<<Words(1)>>), Div(<<Toc>>), Table(<<Words(5)>>)>>),
     \* an item laid out in a table, and referred to later on; contents in one block
     MCPage(<<Table(<<Div(<<Heading(1)>>), Div(<<Words(1)>>), Div(<<Words(2)>>)>>),
              Div(<<Heading(1)>>), Div(<<Words(3)>>)>>),
     MCPage(<<Div(<<Heading(1)>>), Div(<<Toc, Toc>>), Div(<<Heading(1)>>), Div(<<Words(1)>>)>>)}

MCDocuments == {MCFlat(s) : s \in MCSections} \union MCTrees \union MCPages
=============================================================================
