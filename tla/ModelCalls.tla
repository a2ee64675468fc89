------------------------------ MODULE ModelCalls ------------------------------
(***************************************************************************)
(* The ingestion worker's EmbeddingClient, and what comes back to it from  *)
(* the inference gateway.  The client gives a call up after 60 s and tries *)
(* again.  The gateway goes on with a call that was given up, up to 120 s, *)
(* but nobody reads its answer, and a gateway that is started anew breaks  *)
(* the connection: to the client each is a failed attempt.                 *)
(* A text stands for its vector as well.                                   *)
(***************************************************************************)
EXTENDS Ordering, Functions

CONSTANTS
    Clients,        \* embedding clients, one in each ingestion process
    BatchSize,      \* DEFAULT_BATCH_SIZE, 256
    Attempts,       \* how often _embed_batch tries, 3
    Wrong           \* a vector that has not EXPECTED_DIMENSIONS

ASSUME CallsAssumption ==
    /\ BatchSize \in Nat \ {0}
    /\ Attempts \in Nat \ {0}

VARIABLES
    embedPc,        \* "idle", "ready", "waiting", "embedded" or "gaveUp"
    texts,          \* the texts embed_texts was called with
    vectors,        \* the vectors it has collected
    attempt         \* failed attempts at the current batch

callsVars == <<embedPc, texts, vectors, attempt>>

CallsInit ==
    /\ embedPc = [c \in Clients |-> "idle"]
    /\ texts = [c \in Clients |-> <<>>]
    /\ vectors = [c \in Clients |-> <<>>]
    /\ attempt = [c \in Clients |-> 0]

-----------------------------------------------------------------------------
\* embed_texts: every batch in turn, then the vectors are returned.
StartEmbedding(c, ts) ==
    /\ embedPc[c] = "idle"
    /\ embedPc' = [embedPc EXCEPT ![c] = "ready"]
    /\ texts' = [texts EXCEPT ![c] = ts]
    /\ vectors' = [vectors EXCEPT ![c] = <<>>]
    /\ attempt' = [attempt EXCEPT ![c] = 0]

\* _batches: the batch that follows the vectors collected so far.
Batch(c) ==
    LET rest == SubSeq(texts[c], Len(vectors[c]) + 1, Len(texts[c]))
    IN  IF Len(rest) <= BatchSize THEN rest ELSE SubSeq(rest, 1, BatchSize)

\* The request of an attempt reaches the gateway.
Post(c) ==
    /\ embedPc[c] = "ready"
    /\ embedPc' = [embedPc EXCEPT ![c] = "waiting"]
    /\ UNCHANGED <<texts, vectors, attempt>>

\* Mutation: the attempts are not counted.
Bug_TriesForever(c) ==
    /\ embedPc' = [embedPc EXCEPT ![c] = "ready"]
    /\ UNCHANGED <<texts, vectors, attempt>>

\* What the except clause does: another attempt, after a back-off, or a
\* RuntimeError that drops the vectors of all batches.
AttemptFails(c) ==
    /\ attempt' = [attempt EXCEPT ![c] = @ + 1]
    /\ IF attempt[c] + 1 < Attempts
       THEN embedPc' = [embedPc EXCEPT ![c] = "ready"] /\ UNCHANGED vectors
       ELSE /\ embedPc' = [embedPc EXCEPT ![c] = "gaveUp"]
            /\ vectors' = [vectors EXCEPT ![c] = <<>>]
    /\ UNCHANGED texts

\* The gateway cannot be reached.
PostFails(c) ==
    /\ embedPc[c] = "ready"
    /\ AttemptFails(c)

\* No answer within 60 s.
TimesOut(c) ==
    /\ embedPc[c] = "waiting"
    /\ AttemptFails(c)

-----------------------------------------------------------------------------
\* Mutation: the items are taken in the order they come in.
Bug_AsReceived(items) == [i \in DOMAIN items |-> items[i].vector]

\* _parse_embedding_response: a stable sort by index, 0 where it is missing.
Parsed(items) ==
    LET before == {p \in (DOMAIN items) \X (DOMAIN items) :
                     \/ items[p[1]].index < items[p[2]].index
                     \/ items[p[1]].index = items[p[2]].index /\ p[1] < p[2]}
        order == Ordered(DOMAIN items, before)
    IN  [i \in DOMAIN items |-> items[order[i]].vector]

\* _validate_vectors: the number of vectors and the size of each.
Valid(found, input) ==
    /\ Len(found) = Len(input)
    /\ \A i \in DOMAIN found : found[i] # Wrong

Item(i, v) == [index |-> i, vector |-> v]

\* What a backend answers: the items of the batch in any order with their
\* indices, in order without, all but the last, or one of another size.
Replies(input) ==
    {[i \in DOMAIN input |-> Item(o[i] - 1, input[o[i]])] :
        o \in Injection(DOMAIN input, DOMAIN input)}
    \cup {[i \in DOMAIN input |-> Item(0, input[i])],
          [i \in 1..(Len(input) - 1) |-> Item(i - 1, input[i])],
          [i \in DOMAIN input |-> Item(i - 1, IF i = 1 THEN Wrong ELSE input[i])]}

\* A usable answer: the vectors are added to the others.
Accept(c, found) ==
    /\ vectors' = [vectors EXCEPT ![c] = @ \o found]
    /\ attempt' = [attempt EXCEPT ![c] = 0]
    /\ embedPc' = [embedPc EXCEPT ![c] =
                     IF Len(vectors[c] \o found) < Len(texts[c]) THEN "ready" ELSE "embedded"]
    /\ UNCHANGED texts

\* JSON with status 200 comes back: the client uses it or tries again.
Answer(c) ==
    /\ embedPc[c] = "waiting"
    /\ \E items \in Replies(Batch(c)) :
         IF Valid(Parsed(items), Batch(c)) THEN Accept(c, Parsed(items)) ELSE AttemptFails(c)

\* An error status, text instead of JSON or a broken connection comes back.
AnswerFails(c) ==
    /\ embedPc[c] = "waiting"
    /\ AttemptFails(c)
=============================================================================
