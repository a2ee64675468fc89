---------------------------- MODULE FilingChunks ----------------------------
(***************************************************************************)
(* What becomes of a downloaded filing before it is embedded: its sections *)
(* are found (SectionParsing), and chunk_document cuts each one, in the    *)
(* order of SECTION_DEFS, into paragraph chunks (Chunking) and one chunk   *)
(* per table.                                                              *)
(***************************************************************************)
EXTENDS Chunking, SectionParsing

VARIABLES
    item,       \* the item whose section was opened last; 0: none yet
    open,       \* chunk_section is at work on it
    filed       \* chunk_document's list

FilingVars == <<vars, ParsingVars, item, open, filed>>

FilingInit ==
    /\ ParsingInit
    /\ phase = "done" /\ sentences = <<>> /\ units = <<>> /\ chunks = <<>>
    /\ k = 1 /\ from = 1 /\ pos = 0 /\ joints = 0 /\ counted = 0 /\ rest = 0
    /\ item = 0 /\ open = FALSE
    /\ filed = <<>>

ParseStep == ParsingNext /\ UNCHANGED <<vars, item, open, filed>>

-----------------------------------------------------------------------------
\* The text of a section: here each phrase is a sentence.
SentencesOf(ps) ==
    Flattened([p \in DOMAIN ps |->
                  [i \in DOMAIN ps[p] |-> [tokens |-> ps[p][i].tokens, opens |-> i = 1]]])

\* chunk_document goes on to the next section.
OpenSection ==
    /\ Parsed /\ ~open
    /\ \E i \in DOMAIN sections :
         /\ item < i /\ \A j \in DOMAIN sections : item < j => i <= j
         /\ item' = i
         /\ sentences' = SentencesOf(sections[i].paragraphs)
    /\ open' = TRUE
    /\ phase' = "split" /\ units' = <<>> /\ chunks' = <<>>
    /\ k' = 1 /\ from' = 1 /\ pos' = 0 /\ joints' = 0 /\ counted' = 0 /\ rest' = 0
    /\ UNCHANGED <<ParsingVars, filed>>

ChunkStep == Next /\ UNCHANGED <<ParsingVars, item, open, filed>>

\* The phrases that places m .. n of a section are of.
Between(m, n) ==
    LET ps == Flattened(sections[item].paragraphs) IN
    {ps[i] : i \in {i \in DOMAIN ps : TokensBefore(ps, i) < n /\ m <= TokensBefore(ps, i + 1)}}

ChunkOf(kind, number, said) == [item |-> item, kind |-> kind, number |-> number, said |-> said]

TableChunks ==
    [i \in DOMAIN sections[item].tables |-> ChunkOf("table", i, Range(sections[item].tables[i]))]

\* Mutation: tables are chunked only in sections that have text.
Bug_TablesNeedText ==
    /\ open /\ phase = "done"
    /\ filed' = filed
         \o [i \in DOMAIN chunks |-> ChunkOf("paragraph", i, Between(chunks[i].from, chunks[i].to))]
         \o (IF chunks = <<>> THEN <<>> ELSE TableChunks)
    /\ open' = FALSE
    /\ UNCHANGED <<vars, ParsingVars, item>>

\* chunk_section returns: paragraph chunks, then each table whatever its size.  The
\* item, the kind and the number of a chunk make its citation anchor, its place in
\* the list is its chunk_index.
FileSection ==
    /\ open /\ phase = "done"
    /\ filed' = filed
         \o [i \in DOMAIN chunks |-> ChunkOf("paragraph", i, Between(chunks[i].from, chunks[i].to))]
         \o TableChunks
    /\ open' = FALSE
    /\ UNCHANGED <<vars, ParsingVars, item>>

FilingNext == ParseStep \/ OpenSection \/ ChunkStep \/ FileSection

FilingSpec == FilingInit /\ [][FilingNext]_FilingVars

-----------------------------------------------------------------------------
(***************************************************************************)
(* Properties                                                              *)
(***************************************************************************)

Finished == Parsed /\ ~open /\ \A i \in DOMAIN sections : i <= item

\* What the chunks of a kind say in an item's section.
FiledAs(i, kind) ==
    UNION {filed[n].said : n \in {n \in DOMAIN filed : filed[n].item = i /\ filed[n].kind = kind}}

HeadingsOf(i) == {s \in DOMAIN starts : ItemAt(s) = i}

\* The blocks after heading s and before any other heading.
BlocksUnder(s) ==
    {blocks[b] : b \in {b \in DOMAIN blocks :
        starts[s] < b /\ \A r \in DOMAIN starts : ~(starts[s] < starts[r] /\ starts[r] <= b)}}

InTable(n) == \E t \in 1 .. n - 1 : doc[t].kind = "table" /\ n \in Under(t)

\* What block n says outside tables, lines of contents apart.
TextIn(n) ==
    {Phrase(m) : m \in {m \in Under(n) : doc[m].kind \in {"heading", "text"} /\ ~InTable(m)}}

TextUnder(s) == UNION {TextIn(n) : n \in BlocksUnder(s)}

SaidUnder(s) == {Phrase(n) : n \in UNION {Under(b) : b \in BlocksUnder(s)}}

\* No text is lost between the page and the index: where an item's heading is
\* matched several times (nested tags, a table of contents) and text is under any of
\* them, then what the item's chunks say is under one of them, to its last word.
HeadedTextFiled ==
    Finished =>
        \A i \in Items : (\E s \in HeadingsOf(i) : TextUnder(s) # {}) =>
            /\ FiledAs(i, "paragraph") # {}
            /\ \E s \in HeadingsOf(i) :
                 /\ TextUnder(s) \subseteq FiledAs(i, "paragraph")
                 /\ FiledAs(i, "paragraph") \subseteq SaidUnder(s)

\* A section ends where the next item's heading is: chunks cite an item only for
\* what the blocks say that start after one of its headings and before the next one.
SectionsEnd ==
    Finished =>
        \A i \in Items :
            \/ FiledAs(i, "paragraph") \union FiledAs(i, "table") = {}
            \/ \E s \in HeadingsOf(i) :
                 FiledAs(i, "paragraph") \union FiledAs(i, "table")
                   \subseteq SaidUnder(s)

SpokenIn(texts) == UNION {Range(text) : text \in Range(texts)}

\* What a table says becomes running text only for an item whose heading is inside
\* the table (a page laid out as one).
TablesIsolated ==
    \A i \in DOMAIN sections : \A p \in SpokenIn(sections[i].paragraphs) :
        \E n \in {m \in DOMAIN doc : Phrase(m) = p} :
            \A t \in {t \in 1 .. n - 1 : doc[t].kind = "table" /\ n \in Under(t)} :
                \E s \in HeadingsOf(i) : blocks[starts[s]] \in Under(t)

TablesUnder(s) ==
    {t \in UNION {Under(b) : b \in BlocksUnder(s)} : doc[t].kind = "table" /\ Said(t, {}) # <<>>}

InTableChunk(t) ==
    \E n \in DOMAIN filed : filed[n].kind = "table" /\ Range(Said(t, {})) \subseteq filed[n].said

OneHeadingEach == \A i \in Items : \A r, s \in HeadingsOf(i) : r = s

\* Where each item has one heading, each table under one is in a table chunk.
TablesKept ==
    Finished /\ OneHeadingEach =>
        \A s \in DOMAIN starts : \A t \in TablesUnder(s) : InTableChunk(t)

\* docs/data-and-retrieval.md: "Each table becomes its own chunk regardless of size".
TablesBecomeChunks ==
    Finished => \A s \in DOMAIN starts : \A t \in TablesUnder(s) : InTableChunk(t)

-----------------------------------------------------------------------------
(***************************************************************************)
(* The inductive invariant behind the properties                           *)
(***************************************************************************)

Phrases == [kind : Texts, id : Nat, tokens : Nat \ {0}]

\* Blocks and headings are those found at first.
FilingRead == doc \in Documents /\ blocks = VisibleBlocks /\ starts = SectionStarts

ParsingTypeOK ==
    /\ FilingRead
    /\ gone \subseteq DOMAIN doc
    /\ start \in 1 .. Len(starts) + 1
    /\ start \in DOMAIN starts => at \in starts[start] + 1 .. NextStart(start)
    /\ {paragraphs, tables} \subseteq Seq(Seq(Phrases))
    /\ DOMAIN sections \subseteq Items
    /\ \A i \in DOMAIN sections :
         {sections[i].paragraphs, sections[i].tables} \subseteq Seq(Seq(Phrases))

\* The blocks taken so far.
Taken ==
    {b \in DOMAIN blocks : \E s \in DOMAIN starts :
        /\ s <= start
        /\ starts[s] < b /\ b < IF s = start THEN at ELSE NextStart(s)}

\* What is removed is the tables of the blocks taken, with all that is in them.
RemovedTables ==
    /\ \A n \in gone : Under(n) \subseteq gone
    /\ \A b \in Taken : {t \in Under(blocks[b]) : doc[t].kind = "table"} \subseteq gone
    /\ \A n \in gone : \E b \in Taken : \E t \in Under(blocks[b]) :
          doc[t].kind = "table" /\ n \in Under(t)

\* The phrase is in no table that does not have heading s in it as well.
RunsUnder(s, p) ==
    \E n \in {m \in DOMAIN doc : Phrase(m) = p} :
        \A t \in {t \in 1 .. n - 1 : doc[t].kind = "table" /\ n \in Under(t)} :
            blocks[starts[s]] \in Under(t)

\* These lists of a section are from under heading s, its text from outside tables.
ComesFrom(s, paras, tabs) ==
    /\ \A text \in Range(paras) \union Range(tabs) : Range(text) \subseteq SaidUnder(s)
    /\ \A text \in Range(paras) : \A p \in Range(text) : RunsUnder(s, p)

SectionsFromHeadings ==
    /\ start \in DOMAIN starts => ComesFrom(start, paragraphs, tables)
    /\ start \notin DOMAIN starts => paragraphs = <<>> /\ tables = <<>>
    /\ \A i \in DOMAIN sections : \E s \in HeadingsOf(i) :
          /\ s < start /\ ComesFrom(s, sections[i].paragraphs, sections[i].tables)
          /\ TextUnder(s) \subseteq SpokenIn(sections[i].paragraphs)

\* The text of the blocks taken is in the paragraphs at hand, and that of the whole
\* section in those kept for its item: of one heading all, and some if there is any.
TextCollected ==
    /\ start \in DOMAIN starts =>
         \A b \in DOMAIN blocks : starts[start] < b /\ b < at => TextIn(blocks[b]) \subseteq SpokenIn(paragraphs)
    /\ \A i \in DOMAIN sections :
         sections[i].words \in Nat /\ (sections[i].words > 0 => SpokenIn(sections[i].paragraphs) # {})
    /\ \A s \in DOMAIN starts : s < start /\ TextUnder(s) # {} =>
         ItemAt(s) \in DOMAIN sections /\ sections[ItemAt(s)].words > 0

\* What a removed table says is in one of the tables kept.
RemovedTablesKept ==
    OneHeadingEach =>
        \A t \in gone : doc[t].kind = "table" /\ Said(t, {}) # <<>> =>
            \E text \in Range(tables) \union UNION {Range(sections[i].tables) : i \in DOMAIN sections} :
                Range(Said(t, {})) \subseteq Range(text)

FiledChunk == [item : Items, kind : {"paragraph", "table"}, number : Nat, said : SUBSET Phrases]

\* What is filed is of the sections up to `item`, and has all their text and tables.
SectionsFiled ==
    /\ item \in 0 .. ItemCount
    /\ ~Parsed => item = 0 /\ ~open /\ filed = <<>>
    /\ open => item \in DOMAIN sections /\ sentences = SentencesOf(sections[item].paragraphs)
    /\ filed \in Seq(FiledChunk)
    /\ \A r \in Range(filed) :
         /\ r.item \in DOMAIN sections
         /\ \A p \in r.said :
              \E text \in Range(sections[r.item].paragraphs) \union Range(sections[r.item].tables) :
                  p \in Range(text)
    /\ \A i \in DOMAIN sections : i < item \/ (i = item /\ ~open) =>
         /\ \A text \in Range(sections[i].tables) : \E r \in Range(filed) :
              r.kind = "table" /\ Range(text) \subseteq r.said
         /\ \A p \in SpokenIn(sections[i].paragraphs) : \E r \in Range(filed) :
              r.item = i /\ r.kind = "paragraph" /\ p \in r.said

FilingIInv ==
    /\ ParsingTypeOK
    /\ RemovedTables
    /\ SectionsFromHeadings
    /\ TextCollected
    /\ RemovedTablesKept
    /\ SectionsFiled
    /\ ChunkingIInv
=============================================================================
