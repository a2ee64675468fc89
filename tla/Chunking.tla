------------------------------ MODULE Chunking ------------------------------
(***************************************************************************)
(* How the ingestion worker cuts the text of a filing section into chunks  *)
(* (services/ingestion-worker/worker/chunking.py): first into units of at  *)
(* most MaxTokens, paragraphs where they fit and groups of sentences where *)
(* they do not; then into chunks that overlap.                             *)
(*                                                                         *)
(* A text is its places 1, 2, ..., the tokens of its sentences; a piece of *)
(* it is an interval of them, with the tokens of its joints beside them.   *)
(***************************************************************************)
EXTENDS TokenCounter

CONSTANTS
    MaxTokens, TargetMin, TargetMax, MinTokens, Overlap,
    Sections        \* the section texts: sequences of sentences

\* opens: the sentence is the first one of a paragraph.
Sentence == [tokens : Nat \ {0}, opens : BOOLEAN]

ASSUME ChunkingAssumption ==
    /\ MaxTokens \in Nat \ {0}
    /\ TargetMin \in Nat
    /\ TargetMax \in Nat
    /\ MinTokens \in Nat
    /\ Overlap \in Nat
    /\ Sections \subseteq Seq(Sentence)

VARIABLES
    phase,          \* "split" (_iter_text_units), "chunk" (_chunk_text) or "done"
    sentences,      \* the section
    k,              \* the sentence, or the unit, that comes next
    from, pos,      \* the open group, or current_parts, is from .. pos
    joints,         \* the tokens that its joints add
    counted,        \* current_tokens of _chunk_text
    rest,           \* tokens of an overlong sentence still to be windowed
    units, chunks

vars == <<phase, sentences, k, from, pos, joints, counted, rest, units, chunks>>

LesserOf(m, n) == IF m <= n THEN m ELSE n

\* The sentences' own tokens in the open piece (_split_long_paragraph's
\* current_tokens), and its tokens when it is counted as a whole.
Count == (pos + 1) - from
Whole == Count + joints

Init ==
    /\ phase = "split"
    /\ sentences \in Sections
    /\ k = 1
    /\ from = 1
    /\ pos = 0
    /\ joints = 0
    /\ counted = 0
    /\ rest = 0
    /\ units = <<>>
    /\ chunks = <<>>

-----------------------------------------------------------------------------
Piece == [from |-> from, to |-> pos, joints |-> joints]

\* The open group ends here.
Closed == IF Count > 0 THEN Append(units, Piece) ELSE units

\* A sentence starts another group in another paragraph, or where the tokens of
\* the sentences, counted one by one, would be more than MaxTokens.  (A paragraph
\* of at most MaxTokens, which _iter_text_units yields as it is, never gets there.)
StartsGroup(s) == s.opens \/ Count + s.tokens > MaxTokens

\* A sentence that fits joins the open group or starts the next one.
TakeSentence ==
    /\ phase = "split" /\ rest = 0
    /\ k \in DOMAIN sentences
    /\ LET s == sentences[k] IN
         /\ s.tokens <= MaxTokens
         /\ pos' = pos + s.tokens
         /\ IF StartsGroup(s)
            THEN units' = Closed /\ from' = pos + 1 /\ joints' = 0
            ELSE /\ \E gap \in Joins(Count) : joints' = joints + gap
                 /\ UNCHANGED <<units, from>>
    /\ k' = k + 1
    /\ UNCHANGED <<phase, sentences, counted, rest, chunks>>

\* An overlong sentence ends the group and is cut into windows without overlap.
OpenOverlong ==
    /\ phase = "split" /\ rest = 0
    /\ k \in DOMAIN sentences
    /\ sentences[k].tokens > MaxTokens
    /\ units' = Closed
    /\ from' = pos + 1
    /\ joints' = 0
    /\ rest' = sentences[k].tokens
    /\ k' = k + 1
    /\ UNCHANGED <<phase, sentences, pos, counted, chunks>>

\* Mutation: TokenCounter.windows steps over a token between two windows.
Bug_WindowGap ==
    /\ phase = "split" /\ rest > 0
    /\ LET n == LesserOf(rest, MaxTokens) IN
         /\ units' = Append(units, [from |-> pos + 1, to |-> pos + n, joints |-> 0])
         /\ rest' = IF rest > n THEN rest - (n + 1) ELSE 0
         /\ pos' = IF rest > n THEN pos + n + 1 ELSE pos + n
         /\ from' = pos' + 1
    /\ UNCHANGED <<phase, sentences, k, joints, counted, chunks>>

TakeWindow ==
    /\ phase = "split" /\ rest > 0
    /\ LET n == LesserOf(rest, MaxTokens) IN
         /\ units' = Append(units, [from |-> pos + 1, to |-> pos + n, joints |-> 0])
         /\ rest' = rest - n
         /\ pos' = pos + n
         /\ from' = pos + n + 1
    /\ UNCHANGED <<phase, sentences, k, joints, counted, chunks>>

EndSplit ==
    /\ phase = "split" /\ rest = 0
    /\ k \notin DOMAIN sentences
    /\ units' = Closed
    /\ phase' = "chunk"
    /\ k' = 1
    /\ from' = 1
    /\ pos' = 0
    /\ joints' = 0
    /\ UNCHANGED <<sentences, counted, rest, chunks>>

-----------------------------------------------------------------------------
Span(u) == (u.to + 1) - u.from
Size(u) == Span(u) + u.joints

Chunk == [from |-> from, to |-> pos, joints |-> joints, size |-> Whole]

\* Mutation: a chunk is saved as soon as it would grow over TargetMax.
Bug_IgnoresTargetMin(n) ==
    /\ Count > 0
    /\ counted + n > TargetMax

\* should_flush or would_exceed_hard_max, before a unit of n tokens.  The tokens
\* of the joints between the units are not among those counted.
Flushes(n) ==
    /\ Count > 0
    /\ \/ counted >= TargetMin /\ counted + n > TargetMax
       \/ counted + n > MaxTokens

Extend ==
    /\ phase = "chunk"
    /\ k \in DOMAIN units
    /\ ~Flushes(Size(units[k]))
    /\ pos' = units[k].to
    /\ \E gap \in Joins(Count) : joints' = joints + gap + units[k].joints
    /\ counted' = counted + Size(units[k])
    /\ k' = k + 1
    /\ UNCHANGED <<phase, sentences, from, rest, units, chunks>>

LastTokens == LesserOf(Overlap, Whole)

\* Mutation: the overlap is kept whatever the unit's size.
Bug_KeepsOverlap(gap, n) == LastTokens

\* Mutation: the next chunk starts without the tail.
Bug_NoOverlap(gap, n) == 0

\* counter.tail(emitted, overlap_tokens), unless it and the unit are too large,
\* counted as they are joined.
Carried(gap, n) == IF LastTokens + gap + n > MaxTokens THEN 0 ELSE LastTokens

\* The joints there may be in the last t tokens of the open piece.
JointsIn(t) == {j \in 0 .. joints : t <= Count + j /\ (t > 0 => j < t) /\ (t = 0 => j = 0)}

\* Mutation: the unit that did not fit is left out of the next chunk.
Bug_SkipsUnit ==
    /\ phase = "chunk"
    /\ k \in DOMAIN units
    /\ Flushes(Size(units[k]))
    /\ chunks' = Append(chunks, Chunk)
    /\ from' = units[k].to + 1
    /\ pos' = units[k].to
    /\ joints' = 0
    /\ counted' = 0
    /\ k' = k + 1
    /\ UNCHANGED <<phase, sentences, rest, units>>

\* The chunk is saved; its tail and the unit start the next one.
Flush ==
    /\ phase = "chunk"
    /\ k \in DOMAIN units
    /\ Flushes(Size(units[k]))
    /\ chunks' = Append(chunks, Chunk)
    /\ \E gap \in Joins(Overlap) :
         LET t == Carried(gap, Size(units[k])) IN
         \E j \in JointsIn(t) :
            /\ from' = (pos + 1) - (t - j)
            /\ joints' = (IF t > 0 THEN j + gap ELSE 0) + units[k].joints
            /\ counted' = (IF t > 0 THEN t + gap ELSE 0) + Size(units[k])
    /\ pos' = units[k].to
    /\ k' = k + 1
    /\ UNCHANGED <<phase, sentences, rest, units>>

\* The last piece: a chunk of its own or, when it is smaller than MinTokens and
\* not all there is, appended to the chunk before it, overlap and all.
EndChunks ==
    /\ phase = "chunk"
    /\ k \notin DOMAIN units
    /\ phase' = "done"
    /\ IF Count = 0 THEN UNCHANGED chunks
       ELSE IF Whole >= MinTokens \/ chunks = <<>> THEN chunks' = Append(chunks, Chunk)
       ELSE \E gap \in 0 .. Joint :
              chunks' = [chunks EXCEPT ![Len(chunks)] =
                           [from |-> @.from, to |-> pos, joints |-> @.joints + gap + joints,
                            size |-> @.size + gap + Whole]]
    /\ UNCHANGED <<sentences, k, from, pos, joints, counted, rest, units>>

Next ==
    \/ TakeSentence \/ OpenOverlong \/ TakeWindow \/ EndSplit
    \/ Extend \/ Flush \/ EndChunks

Spec == Init /\ [][Next]_vars

-----------------------------------------------------------------------------
(***************************************************************************)
(* Properties                                                              *)
(***************************************************************************)

\* Every variable holds values of its type; no unit and no chunk is empty.
TypeOK ==
    /\ phase \in {"split", "chunk", "done"}
    /\ sentences \in Seq(Sentence)
    /\ k \in Nat \ {0}
    /\ from \in Nat \ {0}
    /\ pos \in Nat
    /\ joints \in Nat
    /\ counted \in Nat
    /\ rest \in Nat
    /\ units \in Seq([from : Nat \ {0}, to : Nat \ {0}, joints : Nat])
    /\ chunks \in Seq([from : Nat \ {0}, to : Nat \ {0}, joints : Nat, size : Nat \ {0}])

\* Pieces that neither overlap nor leave a place out, and each fits but for its
\* joints.
Partition(us) ==
    /\ us # <<>> => us[1].from = 1
    /\ \A i \in DOMAIN us :
         /\ us[i].from <= us[i].to
         /\ Size(us[i]) <= MaxTokens + us[i].joints
         /\ i > 1 => us[i].from = us[i - 1].to + 1

\* Whatever the lengths of sentences and paragraphs, the units are a partition
\* of the text: what _iter_text_units owes _chunk_text.
UnitsPartition == Partition(units)

\* The chunks of a section hold its whole text, in order: they start with its
\* first token, end with its last, and leave no gap in between.  No piece is too
\* small to be kept: docs/data-and-retrieval.md:164 would have fragments below
\* MinTokens discarded, where _chunk_text appends them to the chunk before or,
\* in a short section, keeps them as its only chunk.
NothingLost ==
    phase = "done" /\ sentences # <<>> =>
        /\ chunks # <<>>
        /\ chunks[1].from = 1
        /\ chunks[Len(chunks)].to = TokensOf(sentences)
        /\ \A i \in 2 .. Len(chunks) :
             chunks[i].from <= chunks[i - 1].to + 1 /\ chunks[i - 1].to < chunks[i].to

\* What the loop's additions allow, and no more: a chunk is larger than MaxTokens
\* by the tokens of its joints at most, and the last one by less than MinTokens
\* besides (what the merge in EndChunks can add).
SizesBounded ==
    \A i \in DOMAIN chunks :
        \/ chunks[i].size <= MaxTokens + chunks[i].joints
        \/ i = Len(chunks) /\ chunks[i].size < MaxTokens + MinTokens + chunks[i].joints

\* docs/data-and-retrieval.md:163: "Max chunk size | 1,200 tokens | Hard limit".
HardLimit == \A i \in DOMAIN chunks : chunks[i].size <= MaxTokens

\* The unit right after the places of chunk c.
NextUnits(us, c) == {us[i] : i \in {i \in DOMAIN us : us[i].from = c.to + 1}}

\* A chunk is smaller than the target only where the unit after it does not fit
\* any more.
Full(us, c) ==
    \E u \in NextUnits(us, c) : c.size >= TargetMin \/ c.size + Size(u) > MaxTokens

ChunksFull == \A i \in 2 .. Len(chunks) : Full(units, chunks[i - 1])

\* "100-token overlap": a chunk starts with the last Overlap tokens of the one
\* before (all of it, if it has fewer; some of them may be of its joints), unless
\* the unit after leaves no room.
Overlaps(us, c, d) ==
    LET t == LesserOf(Overlap, c.size)
        kept == (c.to + 1) - d.from
    IN  \/ kept <= t /\ t <= kept + c.joints
        \/ \E u \in NextUnits(us, c) : t + Joint + Size(u) > MaxTokens

OverlapKept == \A i \in 2 .. Len(chunks) : Overlaps(units, chunks[i - 1], chunks[i])

-----------------------------------------------------------------------------
(***************************************************************************)
(* The inductive invariant behind the properties                           *)
(***************************************************************************)

\* Piece b comes right after chunk a.
Follows(us, a, b) ==
    /\ b.from <= a.to + 1
    /\ a.to < b.to
    /\ Full(us, a)
    /\ Overlaps(us, a, b)

\* Where the units end, which is where the sentences taken do.
UnitsEnd == IF units = <<>> THEN 0 ELSE units[Len(units)].to

Consumed ==
    IF phase = "split"
    THEN k \in 1 .. Len(sentences) + 1 /\ pos + rest = TokensBefore(sentences, k)
    ELSE UnitsEnd = TokensOf(sentences)

\* While units are cut: the open group starts after the last unit and fits.
Splitting ==
    phase = "split" =>
        /\ from <= pos + 1
        /\ Count <= MaxTokens
        /\ rest > 0 => from = pos + 1 /\ joints = 0
        /\ from = UnitsEnd + 1
        /\ counted = 0 /\ chunks = <<>>

\* While chunks are cut: current_parts end with the last unit taken, fit, and
\* follow the last chunk saved.
Assembling ==
    phase = "chunk" =>
        /\ k \in 1 .. Len(units) + 1
        /\ k = 1 => pos = 0 /\ from = 1 /\ chunks = <<>>
        /\ k > 1 => pos = units[k - 1].to /\ from <= pos
        /\ Count <= MaxTokens
        /\ Count <= counted /\ counted <= Whole
        /\ chunks = <<>> => from = 1
        /\ chunks # <<>> => Follows(units, chunks[Len(chunks)], Piece)
        /\ \A i \in DOMAIN chunks : chunks[i].size <= MaxTokens + chunks[i].joints

Assembled ==
    phase = "done" /\ units # <<>> =>
        chunks # <<>> /\ chunks[Len(chunks)].to = units[Len(units)].to

ChunksJoined ==
    /\ chunks # <<>> => chunks[1].from = 1
    /\ \A i \in 2 .. Len(chunks) : Follows(units, chunks[i - 1], chunks[i])

ChunkingIInv ==
    /\ TypeOK
    /\ UnitsPartition
    /\ Consumed
    /\ Splitting
    /\ Assembling
    /\ Assembled
    /\ ChunksJoined
    /\ SizesBounded
=============================================================================
