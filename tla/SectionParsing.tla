--------------------------- MODULE SectionParsing ---------------------------
(***************************************************************************)
(* How the ingestion worker finds the sections of a filing in its HTML     *)
(* (services/ingestion-worker/worker/parsers/sec_html.py).  All elements   *)
(* of a few tags are blocks, nested ones as well; a block whose whole text *)
(* is an item's heading starts a section, which takes the blocks up to the *)
(* next such one; tables are taken out of the tree while a section is      *)
(* built; and of several sections of one item the longest is kept.         *)
(*                                                                         *)
(* A filing is its tree in document order.  Elements of other tags do not  *)
(* matter: their texts belong to what encloses them.                       *)
(***************************************************************************)
EXTENDS Ordering, TokenCounter, Functions

CONSTANTS
    ItemCount,      \* SECTION_DEFS: items 1 .. ItemCount, in its order
    Documents       \* filings

Items == 1 .. ItemCount

\* An element of BLOCK_TAGS, or a text: the heading of item `id`, a line of a table
\* of contents, anything else.  n + 1 .. last are the nodes under node n.
Texts == {"heading", "toc", "text"}
Node == [kind : {"block", "table"} \union Texts, last : Nat, id : Nat, tokens : Nat]

Document(d) ==
    /\ d \in Seq(Node)
    /\ \A n \in DOMAIN d :
         /\ d[n].last \in n .. Len(d)
         /\ \A m \in n .. d[n].last : d[m].last <= d[n].last
         /\ d[n].kind \in Texts => d[n].last = n /\ d[n].tokens > 0
         /\ d[n].kind = "heading" => d[n].id \in Items

ASSUME ParsingAssumption ==
    /\ ItemCount \in Nat
    /\ \A d \in Documents : Document(d)

VARIABLES
    doc,                \* the filing
    blocks,             \* its blocks, in order
    starts,             \* where in `blocks` sections start
    gone,               \* the nodes that decompose() has removed
    start,              \* the heading at hand: an index of starts
    at,                 \* the block that comes next: an index of blocks
    paragraphs, tables, \* _build_section's lists
    sections            \* extract_sections' dictionary, by item

ParsingVars == <<doc, blocks, starts, gone, start, at, paragraphs, tables, sections>>

-----------------------------------------------------------------------------
Under(n) == n .. doc[n].last

Phrase(n) == [kind |-> doc[n].kind, id |-> doc[n].id, tokens |-> doc[n].tokens]

\* get_text of node n, once the nodes `removed` are out of the tree.
Said(n, removed) ==
    LET ns == Ascending({m \in Under(n) \ removed : doc[m].kind \in Texts})
    IN  [i \in DOMAIN ns |-> Phrase(ns[i])]

IsA(kind, text) == Len(text) = 1 /\ text[1].kind = kind

\* Visible: with any text at all.
VisibleBlocks ==
    Ascending({n \in DOMAIN doc : doc[n].kind \in {"block", "table"} /\ Said(n, {}) # <<>>})

\* _find_section_starts
SectionStarts == Ascending({b \in DOMAIN blocks : IsA("heading", Said(blocks[b], {}))})

ItemAt(s) == Said(blocks[starts[s]], {})[1].id

\* Mutation: a section ends where one of another item starts.
Bug_NextItem(s) ==
    LET others == {r \in DOMAIN starts : r > s /\ ItemAt(r) # ItemAt(s)}
    IN  IF others = {} THEN Len(blocks) + 1
        ELSE starts[CHOOSE r \in others : \A q \in others : r <= q]

\* _next_section_pos
NextStart(s) == IF s + 1 \in DOMAIN starts THEN starts[s + 1] ELSE Len(blocks) + 1

\* Blocks and headings are found before anything is removed.
ParsingInit ==
    /\ doc \in Documents
    /\ blocks = VisibleBlocks
    /\ starts = SectionStarts
    /\ gone = {}
    /\ start = 1
    /\ at = IF starts = <<>> THEN 1 ELSE starts[1] + 1
    /\ paragraphs = <<>> /\ tables = <<>>
    /\ sections = <<>>

-----------------------------------------------------------------------------
\* The tables that are still in a block, the block itself among them.
TablesOf(block) == {t \in Under(block) \ gone : doc[t].kind = "table"}

\* Of a table in a table nothing is left when its turn comes.
Outermost(ts) == {t \in ts : \A u \in ts \ {t} : t \notin Under(u)}

Without(ts) == gone \union UNION {Under(t) : t \in ts}

NonEmpty(texts) == Kept(texts, {i \in DOMAIN texts : texts[i] # <<>>})

\* Block after block: `out` are converted, `text` is left.
Collects(out, text) ==
    /\ tables' = tables \o NonEmpty([i \in DOMAIN out |-> Said(out[i], gone)])
    /\ paragraphs' = IF text = <<>> \/ IsA("toc", text) THEN paragraphs ELSE Append(paragraphs, text)
    /\ gone' = Without(TablesOf(blocks[at]))
    /\ at' = at + 1
    /\ UNCHANGED <<doc, blocks, starts, start, sections>>

\* Mutation: the block's text is read before its tables are removed.
Bug_TextFirst ==
    /\ start \in DOMAIN starts
    /\ at < NextStart(start)
    /\ Collects(Ascending(Outermost(TablesOf(blocks[at]))), Said(blocks[at], gone))

\* Mutation: only a table that is a block of its own is converted; the others go.
Bug_InnerTablesDropped ==
    /\ start \in DOMAIN starts
    /\ at < NextStart(start)
    /\ Collects(Ascending({blocks[at]} \intersect TablesOf(blocks[at])),
                Said(blocks[at], Without(TablesOf(blocks[at]))))

\* _build_section, one block: its tables are converted and removed, from the tree
\* and so from all that comes later; what is left is a paragraph.
TakeBlock ==
    /\ start \in DOMAIN starts
    /\ at < NextStart(start)
    /\ Collects(Ascending(Outermost(TablesOf(blocks[at]))),
                Said(blocks[at], Without(TablesOf(blocks[at]))))

\* _dedupe_preserve_order
Deduped(s) == Kept(s, {i \in DOMAIN s : \A j \in 1 .. i - 1 : s[j] # s[i]})

\* The NormalizedSection of the heading at hand.
Section ==
    LET body == Deduped(paragraphs)
    IN  [paragraphs |-> body, tables |-> Deduped(tables),
         words |-> TokensOf(Flattened(body))]

\* Mutation: the first section of an item is kept.
Bug_FirstWins(item) == item \notin DOMAIN sections

\* A section takes the place of a shorter one of its item.
Wins(item) == item \in DOMAIN sections => Section.words > sections[item].words

EndSection ==
    /\ start \in DOMAIN starts
    /\ at >= NextStart(start)
    /\ sections' = LET i == ItemAt(start) IN
                   IF Wins(i)
                   THEN [j \in DOMAIN sections \union {i} |-> IF j = i THEN Section ELSE sections[j]]
                   ELSE sections
    /\ start' = start + 1
    /\ at' = IF start' \in DOMAIN starts THEN starts[start'] + 1 ELSE at
    /\ paragraphs' = <<>> /\ tables' = <<>>
    /\ UNCHANGED <<doc, blocks, starts, gone>>

ParsingNext == TakeBlock \/ EndSection

\* extract_sections returns.
Parsed == start \notin DOMAIN starts
=============================================================================
