--------------------------- MODULE IngestionProofs ---------------------------
(***************************************************************************)
(* Proofs about Ingestion, for any processes, filings and texts.           *)
(***************************************************************************)
EXTENDS Ingestion, TLAPS

USE IngestionAssumption

\* The texts of a filing are hashes and its positions are naturals.
LEMMA TextsType ==
    ASSUME NEW f \in Filings
    PROVE  /\ DOMAIN Texts[f] \subseteq Nat
           /\ \A i \in DOMAIN Texts[f] : Texts[f][i] \in Hashes
  <1>1. Texts[f] \in Seq(Hashes)
    OBVIOUS
  <1>2. QED
    BY <1>1

\* A position of a plan names a filing.
LEMMA PlanType ==
    ASSUME NEW p \in Seq(Filings), NEW i \in DOMAIN p
    PROVE  p[i] \in Filings
  OBVIOUS

\* What a process cuts out of the filing it is at is a set of chunks.
LEMMA CutType ==
    ASSUME TypeOK, NEW r \in Runs, at[r] \in DOMAIN plan[r]
    PROVE  Current(r) \in Filings /\ Cut(r) \subseteq Chunk
  <1>1. Current(r) \in Filings
    BY PlanType DEF TypeOK, Current
  <1>2. \A i \in DOMAIN Texts[Current(r)] : i \in Nat /\ Texts[Current(r)][i] \in Hashes
    BY <1>1, TextsType
  <1>3. QED
    BY <1>1, <1>2 DEF Cut, Chunk, TypeOK

-----------------------------------------------------------------------------
\* Type correctness, given that the working processes are within their plans.
LEMMA TypeStep ==
    ASSUME TypeOK, InPlan, [Next]_vars
    PROVE  TypeOK'
  <1> USE DEF TypeOK
  <1>1. ASSUME NEW r \in Runs, NEW p \in Plans, Begin(r, p)
        PROVE  TypeOK'
    <2>1. p \in Seq(Filings)
      OBVIOUS
    <2>2. QED
      BY <1>1, <2>1 DEF Begin, store
  <1>2. ASSUME NEW r \in Runs, PrepareFiling(r)
        PROVE  TypeOK'
    BY <1>2, CutType DEF PrepareFiling, Unseen, store
  <1>3. ASSUME NEW r \in Runs, UpsertDocument(r)
        PROVE  TypeOK'
    <2>1. Current(r) \in Filings
      BY <1>3, CutType DEF UpsertDocument, InPlan, Working
    <2>2. QED
      BY <1>3, <2>1 DEF UpsertDocument, store
  <1>4. ASSUME NEW r \in Runs, PublishVectors(r)
        PROVE  TypeOK'
    BY <1>4 DEF PublishVectors
  <1>5. ASSUME NEW r \in Runs, CommitFiling(r)
        PROVE  TypeOK'
    BY <1>5 DEF CommitFiling, Unseen
  <1>6. ASSUME NEW r \in Runs, Finish(r)
        PROVE  TypeOK'
    BY <1>6 DEF Finish
  <1>7. ASSUME NEW r \in Runs, Stop(r), points' \in {points, points \union fresh[r]}
        PROVE  TypeOK'
    BY <1>7 DEF Stop
  <1>8. CASE UNCHANGED vars
    BY <1>8 DEF vars, store
  <1>9. QED
    BY <1>1, <1>2, <1>3, <1>4, <1>5, <1>6, <1>7, <1>8
    DEF Next, Step, Abort, PublishUnacknowledged, LockTimeout

-----------------------------------------------------------------------------
\* The other conjuncts of the inductive invariant, one lemma each.  The three
\* ways to end early are one step in every proof: Stop, with or without the
\* points of an upsert that was applied but not acknowledged.

LEMMA InPlanStep ==
    ASSUME TypeOK, InPlan, [Next]_vars
    PROVE  InPlan'
  <1> USE DEF TypeOK, InPlan, Working
  <1>1. ASSUME NEW r \in Runs, NEW p \in Plans, Begin(r, p)
        PROVE  InPlan'
    <2>1. p \in Seq(Filings)
      OBVIOUS
    <2>2. QED
      BY <1>1, <2>1 DEF Begin
  <1>2. ASSUME NEW r \in Runs, PrepareFiling(r)
        PROVE  InPlan'
    BY <1>2 DEF PrepareFiling
  <1>3. ASSUME NEW r \in Runs, UpsertDocument(r)
        PROVE  InPlan'
    <2>1. at[r] \in Nat /\ at[r] \in 1 .. Len(plan[r])
      BY <1>3 DEF UpsertDocument
    <2>2. CASE fresh[r] = {}
      BY <1>3, <2>1, <2>2 DEF UpsertDocument
    <2>3. CASE fresh[r] # {}
      BY <1>3, <2>1, <2>3 DEF UpsertDocument
    <2>4. QED
      BY <2>2, <2>3
  <1>4. ASSUME NEW r \in Runs, PublishVectors(r)
        PROVE  InPlan'
    BY <1>4 DEF PublishVectors
  <1>5. ASSUME NEW r \in Runs, CommitFiling(r)
        PROVE  InPlan'
    BY <1>5 DEF CommitFiling
  <1>6. ASSUME NEW r \in Runs, Finish(r)
        PROVE  InPlan'
    BY <1>6 DEF Finish
  <1>7. ASSUME NEW r \in Runs, Stop(r)
        PROVE  InPlan'
    BY <1>7 DEF Stop
  <1>8. CASE UNCHANGED vars
    BY <1>8 DEF vars
  <1>9. QED
    BY <1>1, <1>2, <1>3, <1>4, <1>5, <1>6, <1>7, <1>8
    DEF Next, Step, Abort, PublishUnacknowledged, LockTimeout

LEMMA BatchesSoundStep ==
    ASSUME TypeOK, InPlan, BatchesSound, [Next]_vars
    PROVE  BatchesSound'
  <1> USE DEF TypeOK, BatchesSound, BatchSound, Working
  <1>1. ASSUME NEW r \in Runs, NEW p \in Plans, Begin(r, p)
        PROVE  BatchesSound'
    BY <1>1 DEF Begin, Current, store
  <1>2. ASSUME NEW r \in Runs, PrepareFiling(r)
        PROVE  BatchesSound'
    <2>1. \A c \in Unseen(Cut(r)) :
             /\ c.run = r /\ c.at = at[r] /\ c.filing = Current(r)
             /\ \A row \in chunks : row.text # c.text
      BY DEF Unseen, Cut
    <2>2. QED
      BY <1>2, <2>1 DEF PrepareFiling, Current, store
  <1>3. ASSUME NEW r \in Runs, UpsertDocument(r)
        PROVE  BatchesSound'
    <2>1. ASSUME NEW q \in Runs, q # r
          PROVE  BatchSound(q)'
      BY <1>3, <2>1 DEF UpsertDocument, Current, store
    <2>2. CASE fresh[r] = {}
      BY <1>3, <2>1, <2>2 DEF UpsertDocument, store
    <2>3. CASE fresh[r] # {}
      BY <1>3, <2>1, <2>3 DEF UpsertDocument, Current, store
    <2>4. QED
      BY <2>2, <2>3
  <1>4. ASSUME NEW r \in Runs, PublishVectors(r)
        PROVE  BatchesSound'
    BY <1>4 DEF PublishVectors, Current
  <1>5. ASSUME NEW r \in Runs, CommitFiling(r)
        PROVE  BatchesSound'
    BY <1>5 DEF CommitFiling, Unseen, Current
  <1>6. ASSUME NEW r \in Runs, Finish(r)
        PROVE  BatchesSound'
    BY <1>6 DEF Finish, Current
  <1>7. ASSUME NEW r \in Runs, Stop(r), points' \in {points, points \union fresh[r]}
        PROVE  BatchesSound'
    BY <1>7 DEF Stop, Current
  <1>8. CASE UNCHANGED vars
    BY <1>8 DEF vars, store, Current
  <1>9. QED
    BY <1>1, <1>2, <1>3, <1>4, <1>5, <1>6, <1>7, <1>8
    DEF Next, Step, Abort, PublishUnacknowledged, LockTimeout

LEMMA DocumentsFirstStep ==
    ASSUME TypeOK, DocumentsFirst, [Next]_vars
    PROVE  DocumentsFirst'
  <1> USE DEF TypeOK, DocumentsFirst, Current
  <1>1. ASSUME NEW r \in Runs, NEW p \in Plans, Begin(r, p)
        PROVE  DocumentsFirst'
    BY <1>1 DEF Begin
  <1>2. ASSUME NEW r \in Runs, PrepareFiling(r)
        PROVE  DocumentsFirst'
    BY <1>2 DEF PrepareFiling
  <1>3. ASSUME NEW r \in Runs, UpsertDocument(r)
        PROVE  DocumentsFirst'
    BY <1>3 DEF UpsertDocument
  <1>4. ASSUME NEW r \in Runs, PublishVectors(r)
        PROVE  DocumentsFirst'
    BY <1>4 DEF PublishVectors
  <1>5. ASSUME NEW r \in Runs, CommitFiling(r)
        PROVE  DocumentsFirst'
    BY <1>5 DEF CommitFiling
  <1>6. ASSUME NEW r \in Runs, Finish(r)
        PROVE  DocumentsFirst'
    BY <1>6 DEF Finish
  <1>7. ASSUME NEW r \in Runs, Stop(r)
        PROVE  DocumentsFirst'
    BY <1>7 DEF Stop
  <1>8. CASE UNCHANGED vars
    BY <1>8 DEF vars
  <1>9. QED
    BY <1>1, <1>2, <1>3, <1>4, <1>5, <1>6, <1>7, <1>8
    DEF Next, Step, Abort, PublishUnacknowledged, LockTimeout

LEMMA LockStep ==
    ASSUME TypeOK, LockHeldByLiveWriter, [Next]_vars
    PROVE  LockHeldByLiveWriter'
  <1> USE DEF TypeOK, LockHeldByLiveWriter, Live
  <1>1. ASSUME NEW r \in Runs, NEW p \in Plans, Begin(r, p)
        PROVE  LockHeldByLiveWriter'
    BY <1>1 DEF Begin
  <1>2. ASSUME NEW r \in Runs, PrepareFiling(r)
        PROVE  LockHeldByLiveWriter'
    BY <1>2 DEF PrepareFiling
  <1>3. ASSUME NEW r \in Runs, UpsertDocument(r)
        PROVE  LockHeldByLiveWriter'
    BY <1>3 DEF UpsertDocument
  <1>4. ASSUME NEW r \in Runs, PublishVectors(r)
        PROVE  LockHeldByLiveWriter'
    BY <1>4 DEF PublishVectors
  <1>5. ASSUME NEW r \in Runs, CommitFiling(r)
        PROVE  LockHeldByLiveWriter'
    BY <1>5 DEF CommitFiling
  <1>6. ASSUME NEW r \in Runs, Finish(r)
        PROVE  LockHeldByLiveWriter'
    BY <1>6 DEF Finish
  <1>7. ASSUME NEW r \in Runs, Stop(r)
        PROVE  LockHeldByLiveWriter'
    BY <1>7 DEF Stop
  <1>8. CASE UNCHANGED vars
    BY <1>8 DEF vars
  <1>9. QED
    BY <1>1, <1>2, <1>3, <1>4, <1>5, <1>6, <1>7, <1>8
    DEF Next, Step, Abort, PublishUnacknowledged, LockTimeout

-----------------------------------------------------------------------------
\* What a step does to the two stores: all that the store invariants need.
LEMMA StoreStep ==
    ASSUME [Next]_vars
    PROVE  \/ UNCHANGED store
           \/ UNCHANGED <<docs, chunks>> /\ points \subseteq points'
           \/ \E r \in Runs : CommitFiling(r)
           \/ UNCHANGED <<chunks, points>> /\ docs \subseteq docs'
  BY DEF Next, Step, Begin, PrepareFiling, UpsertDocument, PublishVectors, Finish,
         Abort, PublishUnacknowledged, LockTimeout, Stop, vars, store

LEMMA RowsHaveVectorsStep ==
    ASSUME BatchesSound, RowsHaveVectors, [Next]_vars
    PROVE  RowsHaveVectors'
  <1>1. ASSUME NEW r \in Runs, CommitFiling(r)
        PROVE  RowsHaveVectors'
    BY <1>1 DEF CommitFiling, Unseen, BatchesSound, BatchSound, RowsHaveVectors
  <1>2. QED
    BY <1>1, StoreStep DEF RowsHaveVectors, store

\* Under the write lock the second hash check sees every committed row, and
\* what it lets through is one process's batch for one filing.
LEMMA TextsStoredOnceStep ==
    ASSUME BatchesSound, TextsStoredOnce, [Next]_vars
    PROVE  TextsStoredOnce'
  <1>1. ASSUME NEW r \in Runs, CommitFiling(r)
        PROVE  TextsStoredOnce'
    BY <1>1 DEF CommitFiling, Unseen, BatchesSound, BatchSound, TextsStoredOnce
  <1>2. QED
    BY <1>1, StoreStep DEF TextsStoredOnce, store

LEMMA RowsHaveDocumentsStep ==
    ASSUME BatchesSound, DocumentsFirst, RowsHaveDocuments, [Next]_vars
    PROVE  RowsHaveDocuments'
  <1>1. ASSUME NEW r \in Runs, CommitFiling(r)
        PROVE  RowsHaveDocuments'
    BY <1>1 DEF CommitFiling, Unseen, BatchesSound, BatchSound, DocumentsFirst,
                RowsHaveDocuments
  <1>2. QED
    BY <1>1, StoreStep DEF RowsHaveDocuments, store

LEMMA OrphansExplainedStep ==
    ASSUME TypeOK, BatchesSound, OrphansExplained, [Next]_vars
    PROVE  OrphansExplained'
  <1> SUFFICES ASSUME NEW v \in points', v \notin chunks'
               PROVE  OrphanCause(v)'
    BY DEF OrphansExplained
  <1>1. v \in points => v.run \in Runs /\ (v \notin chunks => OrphanCause(v))
    BY DEF OrphansExplained, TypeOK, Chunk
  <1>2. \A r \in Runs : \A c \in fresh[r] : c.run = r
    BY DEF BatchesSound, BatchSound
  <1> USE DEF OrphanCause
  <1>3. ASSUME NEW r \in Runs, NEW p \in Plans, Begin(r, p)
        PROVE  OrphanCause(v)'
    BY <1>1, <1>3 DEF Begin, store, TypeOK
  <1>4. ASSUME NEW r \in Runs, PrepareFiling(r)
        PROVE  OrphanCause(v)'
    BY <1>1, <1>4 DEF PrepareFiling, store, TypeOK
  <1>5. ASSUME NEW r \in Runs, UpsertDocument(r)
        PROVE  OrphanCause(v)'
    BY <1>1, <1>5 DEF UpsertDocument, store, TypeOK
  <1>6. ASSUME NEW r \in Runs, PublishVectors(r)
        PROVE  OrphanCause(v)'
    BY <1>1, <1>2, <1>6 DEF PublishVectors, TypeOK
  <1>7. ASSUME NEW r \in Runs, CommitFiling(r)
        PROVE  OrphanCause(v)'
    <2>1. v \in points /\ chunks \subseteq chunks' /\ v \notin chunks
      BY <1>7 DEF CommitFiling
    <2>2. CASE v \in fresh[r]
      <3>1. PICK row \in chunks : row.text = v.text
        BY <1>7, <2>2 DEF CommitFiling, Unseen
      <3>2. row.run # v.run
        BY <1>2, <2>2, <3>1 DEF BatchesSound, BatchSound
      <3>3. QED
        BY <2>1, <3>1, <3>2
    <2>3. CASE v \notin fresh[r]
      BY <1>1, <1>7, <2>1, <2>3 DEF CommitFiling, TypeOK
    <2>4. QED
      BY <2>2, <2>3
  <1>8. ASSUME NEW r \in Runs, Finish(r)
        PROVE  OrphanCause(v)'
    BY <1>1, <1>8 DEF Finish, TypeOK
  <1>9. ASSUME NEW r \in Runs, Stop(r), points' \in {points, points \union fresh[r]}
        PROVE  OrphanCause(v)'
    BY <1>1, <1>2, <1>9 DEF Stop, TypeOK
  <1>10. CASE UNCHANGED vars
    BY <1>1, <1>10 DEF vars, store
  <1>11. QED
    BY <1>3, <1>4, <1>5, <1>6, <1>7, <1>8, <1>9, <1>10
    DEF Next, Step, Abort, PublishUnacknowledged, LockTimeout

LEMMA CoveredMonotone ==
    ASSUME NEW cs, NEW ds, cs \subseteq ds, NEW f, Covered(cs, f)
    PROVE  Covered(ds, f)
  BY DEF Covered

\* The first hash check drops a chunk only if a row has its text.
LEMMA UnseenCovers ==
    ASSUME NEW cs, NEW f, Covered(cs, f)
    PROVE  Covered(chunks \union Unseen(cs), f)
  BY DEF Covered, Unseen

LEMMA CutCovers ==
    ASSUME NEW r
    PROVE  Covered(Cut(r), Current(r))
  <1> SUFFICES ASSUME NEW i \in DOMAIN Texts[Current(r)]
               PROVE  \E c \in Cut(r) : c.text = Texts[Current(r)][i]
    BY DEF Covered
  <1> DEFINE c == [run |-> r, at |-> at[r], filing |-> Current(r), pos |-> i,
                   text |-> Texts[Current(r)][i]]
  <1>1. c \in Cut(r)
    BY DEF Cut
  <1>2. c.text = Texts[Current(r)][i]
    OBVIOUS
  <1>3. QED
    BY <1>1, <1>2

\* Rows and documents are only added.
LEMMA StoresGrow ==
    ASSUME [Next]_vars
    PROVE  chunks \subseteq chunks' /\ docs \subseteq docs'
  BY StoreStep DEF CommitFiling, store

\* A process does not lose what it covered by another one's step.
LEMMA ProgressFrame ==
    ASSUME NEW q \in Runs, Progress(q), chunks \subseteq chunks', docs \subseteq docs',
           pc'[q] = pc[q], plan'[q] = plan[q], at'[q] = at[q], fresh'[q] = fresh[q],
           txDocs'[q] = txDocs[q]
    PROVE  Progress(q)'
  <1>1. Current(q)' = Current(q) /\ chunks \union fresh[q] \subseteq chunks' \union fresh'[q]
    BY DEF Current
  <1>2. Behind(q)'
    BY CoveredMonotone DEF Progress, Behind
  <1>3. AtHand(q)'
    BY <1>1, CoveredMonotone DEF Progress, AtHand, Working
  <1>4. QED
    BY <1>2, <1>3 DEF Progress, Over

LEMMA ProgressStep ==
    ASSUME TypeOK, InPlan, DocumentsFirst, LockHeldByLiveWriter, ProgressCovered, [Next]_vars
    PROVE  ProgressCovered'
  <1>1. chunks \subseteq chunks' /\ docs \subseteq docs'
    BY StoresGrow
  <1>2. \A q \in Runs : Progress(q)
    BY DEF ProgressCovered
  \* It is enough to look at the process that takes the step.
  <1>3. ASSUME NEW r \in Runs, Progress(r)',
               \A q \in Runs \ {r} :
                  /\ pc'[q] = pc[q] /\ plan'[q] = plan[q] /\ at'[q] = at[q]
                  /\ fresh'[q] = fresh[q] /\ txDocs'[q] = txDocs[q]
        PROVE  ProgressCovered'
    <2>1. ASSUME NEW q \in Runs, q # r
          PROVE  Progress(q)'
      BY <1>1, <1>2, <1>3, <2>1, ProgressFrame
    <2>2. QED
      BY <1>3, <2>1 DEF ProgressCovered
  <1>4. ASSUME NEW r \in Runs, NEW p \in Plans, Begin(r, p)
        PROVE  ProgressCovered'
    <2>1. pc'[r] = "next" /\ at'[r] = 1
      BY <1>4 DEF Begin, TypeOK
    <2>2. Progress(r)'
      BY <2>1 DEF Progress, Behind, AtHand, Over, Working
    <2>3. QED
      BY <1>3, <1>4, <2>2 DEF Begin, TypeOK
  <1>5. ASSUME NEW r \in Runs, PrepareFiling(r)
        PROVE  ProgressCovered'
    <2>1. /\ pc[r] = "next" /\ pc'[r] = "checked" /\ fresh'[r] = Unseen(Cut(r))
          /\ UNCHANGED <<at, plan, docs, chunks, txDocs>>
      BY <1>5 DEF PrepareFiling, store, TypeOK
    <2>2. AtHand(r)'
      <3>1. Covered(chunks \union Unseen(Cut(r)), Current(r))
        BY CutCovers, UnseenCovers
      <3>2. QED
        BY <2>1, <3>1 DEF AtHand, Current
    <2>3. Behind(r)' /\ Over(r)'
      BY <1>2, <2>1 DEF Progress, Behind, Over
    <2>4. QED
      BY <1>3, <1>5, <2>2, <2>3 DEF Progress, PrepareFiling, TypeOK
  <1>6. ASSUME NEW r \in Runs, UpsertDocument(r)
        PROVE  ProgressCovered'
    <2>1. /\ pc[r] = "checked" /\ Working(r) /\ fresh' = fresh /\ plan' = plan
          /\ chunks' = chunks /\ docs' = docs
          /\ txDocs'[r] = txDocs[r] \union {Current(r)}
      BY <1>6 DEF UpsertDocument, store, Working, TypeOK
    <2>2. Covered(chunks \union fresh[r], Current(r))
      BY <1>2, <2>1 DEF Progress, AtHand
    <2>3. CASE fresh[r] = {}
      <3>1. pc'[r] = "next" /\ at'[r] = at[r] + 1 /\ at[r] \in Nat
        BY <1>6, <2>3 DEF UpsertDocument, TypeOK
      <3>2. Covered(chunks, Current(r))
        BY <2>2, <2>3, CoveredMonotone
      <3>3. Behind(r)'
        <4>1. \A i \in 1 .. at'[r] - 1 : i = at[r] \/ i \in 1 .. at[r] - 1
          BY <3>1
        <4>2. QED
          BY <1>2, <2>1, <3>1, <3>2, <4>1 DEF Progress, Behind, Current
      <3>4. QED
        BY <1>3, <1>6, <3>1, <3>3 DEF Progress, AtHand, Over, Working, UpsertDocument, TypeOK
    <2>4. CASE fresh[r] # {}
      <3>1. pc'[r] = "embedding" /\ at' = at
        BY <1>6, <2>4 DEF UpsertDocument, TypeOK
      <3>2. AtHand(r)'
        BY <2>1, <2>2, <3>1 DEF AtHand, Current
      <3>3. Behind(r)' /\ Over(r)'
        BY <1>2, <2>1, <3>1 DEF Progress, Behind, Over
      <3>4. QED
        BY <1>3, <1>6, <3>2, <3>3 DEF Progress, UpsertDocument, TypeOK
    <2>5. QED
      BY <2>3, <2>4
  <1>7. ASSUME NEW r \in Runs, PublishVectors(r)
        PROVE  ProgressCovered'
    <2>1. /\ pc[r] = "embedding" /\ Working(r) /\ pc'[r] = "published"
          /\ UNCHANGED <<plan, at, fresh, txDocs, docs, chunks>>
      BY <1>7 DEF PublishVectors, Working, TypeOK
    <2>2. Progress(r)'
      BY <1>2, <2>1 DEF Progress, Behind, AtHand, Over, Current
    <2>3. QED
      BY <1>3, <1>7, <2>2 DEF PublishVectors, TypeOK
  <1>8. ASSUME NEW r \in Runs, CommitFiling(r)
        PROVE  ProgressCovered'
    <2>1. /\ pc[r] = "published" /\ Working(r) /\ pc'[r] = "next"
          /\ at[r] \in Nat /\ at'[r] = at[r] + 1 /\ plan' = plan
          /\ chunks' = chunks \union Unseen(fresh[r]) /\ docs' = docs \union txDocs[r]
      BY <1>8 DEF CommitFiling, Working, TypeOK
    <2>2. Covered(chunks', Current(r))
      <3>1. Covered(chunks \union fresh[r], Current(r))
        BY <1>2, <2>1 DEF Progress, AtHand
      <3>2. \A c \in chunks \union fresh[r] : \E d \in chunks' : d.text = c.text
        BY <2>1 DEF Unseen
      <3>3. QED
        BY <3>1, <3>2 DEF Covered
    <2>3. Current(r) \in docs'
      BY <2>1 DEF DocumentsFirst
    <2>4. \A i \in 1 .. at[r] - 1 : Covered(chunks', plan[r][i]) /\ plan[r][i] \in docs'
      BY <1>1, <1>2, <2>1, CoveredMonotone DEF Progress, Behind
    <2>5. \A i \in 1 .. at'[r] - 1 : i = at[r] \/ i \in 1 .. at[r] - 1
      BY <2>1
    <2>6. Progress(r)'
      BY <2>1, <2>2, <2>3, <2>4, <2>5 DEF Progress, Behind, AtHand, Over, Working, Current
    <2>7. QED
      BY <1>3, <1>8, <2>6 DEF CommitFiling, TypeOK
  <1>9. ASSUME NEW r \in Runs, Finish(r)
        PROVE  ProgressCovered'
    <2>1. /\ pc[r] = "next" /\ pc'[r] = "done" /\ at[r] \notin DOMAIN plan[r]
          /\ txDocs'[r] = {} /\ docs' = docs \union txDocs[r]
          /\ UNCHANGED <<plan, at, chunks>>
      BY <1>9 DEF Finish, TypeOK
    <2>2. Progress(r)'
      BY <1>2, <2>1 DEF Progress, Behind, AtHand, Over, Working
    <2>3. QED
      BY <1>3, <1>9, <2>2 DEF Finish, TypeOK
  <1>10. ASSUME NEW r \in Runs, Stop(r)
         PROVE  ProgressCovered'
    <2>1. Progress(r)'
      BY <1>10 DEF Stop, Progress, Behind, AtHand, Over, Working, TypeOK
    <2>2. QED
      BY <1>3, <1>10, <2>1 DEF Stop, TypeOK
  <1>11. CASE UNCHANGED vars
    BY <1>1, <1>2, <1>11, ProgressFrame DEF ProgressCovered, vars
  <1>12. QED
    BY <1>4, <1>5, <1>6, <1>7, <1>8, <1>9, <1>10, <1>11
    DEF Next, Step, Abort, PublishUnacknowledged, LockTimeout

-----------------------------------------------------------------------------
LEMMA InitInvariant == Init => IInv
  BY DEF Init, IInv, TypeOK, InPlan, BatchesSound, BatchSound, DocumentsFirst,
         LockHeldByLiveWriter, RowsHaveVectors, TextsStoredOnce, RowsHaveDocuments,
         OrphansExplained, ProgressCovered, Progress, Behind, AtHand, Over, Working

LEMMA InvariantStep == IInv /\ [Next]_vars => IInv'
  BY TypeStep, InPlanStep, BatchesSoundStep, DocumentsFirstStep, LockStep,
     RowsHaveVectorsStep, TextsStoredOnceStep, RowsHaveDocumentsStep,
     OrphansExplainedStep, ProgressStep
  DEF IInv

LEMMA Invariance == Spec => []IInv
  BY InitInvariant, InvariantStep, PTL DEF Spec

\* Type correctness, for every set of processes, filings and plans.
THEOREM IngestionTypeCorrect == Spec => []TypeOK
  <1>1. IInv => TypeOK
    BY DEF IInv
  <1>2. QED
    BY <1>1, Invariance, PTL

\* The join key never dangles: every committed chunk row has its Qdrant point.
THEOREM RowsAlwaysHaveVectors == Spec => []RowsHaveVectors
  <1>1. IInv => RowsHaveVectors
    BY DEF IInv
  <1>2. QED
    BY <1>1, Invariance, PTL

\* De-duplication holds for any number of concurrent processes and crashes.
THEOREM TextsAlwaysStoredOnce == Spec => []TextsStoredOnce
  <1>1. IInv => TextsStoredOnce
    BY DEF IInv
  <1>2. QED
    BY <1>1, Invariance, PTL

\* No committed chunk row without its document row.
THEOREM RowsAlwaysHaveDocuments == Spec => []RowsHaveDocuments
  <1>1. IInv => RowsHaveDocuments
    BY DEF IInv
  <1>2. QED
    BY <1>1, Invariance, PTL

\* Every orphan vector comes from a failed process, an uncommitted batch or a
\* lost race.
THEOREM OrphansAlwaysExplained == Spec => []OrphansExplained
  <1>1. IInv => OrphansExplained
    BY DEF IInv
  <1>2. QED
    BY <1>1, Invariance, PTL

\* The write lock is held by a live process, and by the one that writes.
THEOREM LockAlwaysHeldByLiveWriter == Spec => []LockHeldByLiveWriter
  <1>1. IInv => LockHeldByLiveWriter
    BY DEF IInv
  <1>2. QED
    BY <1>1, Invariance, PTL

\* A completed run has stored all it selected, whatever failed before it.
THEOREM CompletedRunsAlwaysCover == Spec => []CompletedRunsCover
  <1>1. IInv => CompletedRunsCover
    <2> SUFFICES ASSUME IInv, NEW r \in Runs, pc[r] = "done", NEW i \in DOMAIN plan[r]
                 PROVE  Covered(chunks, plan[r][i]) /\ plan[r][i] \in docs
      BY DEF CompletedRunsCover
    <2>1. Progress(r) /\ at[r] \in 1 .. Len(plan[r]) + 1 /\ plan[r] \in Seq(Filings)
      BY DEF IInv, ProgressCovered, InPlan, TypeOK
    <2>2. i \in 1 .. at[r] - 1
      BY <2>1 DEF Progress, Over
    <2>3. QED
      BY <2>1, <2>2 DEF Progress, Behind, Over
  <1>2. QED
    BY <1>1, Invariance, PTL

\* Ingestion implements the abstract evidence index: each of its steps
\* publishes points, commits the new rows of one filing, or does neither.
THEOREM IngestionImplementsEvidenceIndex == Spec => ImplementsEvidenceIndex
  <1>1. Init => Index!Init
    BY DEF Init, Index!Init
  <1>2. IInv /\ [Next]_vars => [Index!Next]_<<chunks, points>>
    <2> SUFFICES ASSUME IInv, [Next]_vars
                 PROVE  [Index!Next]_<<chunks, points>>
      OBVIOUS
    <2>1. ASSUME NEW r \in Runs, CommitFiling(r)
          PROVE  Index!Commit
      <3>1. /\ chunks' = chunks \union Unseen(fresh[r]) /\ points' = points
            /\ fresh[r] \subseteq points
            /\ \A c \in fresh[r] : c.filing = Current(r)
        BY <2>1 DEF CommitFiling, IInv, BatchesSound, BatchSound
      <3>2. QED
        BY <3>1 DEF Index!Commit, Unseen
    <2>2. CASE UNCHANGED <<docs, chunks>> /\ points \subseteq points'
      BY <2>2 DEF Index!Next, Index!Publish
    <2>3. QED
      BY <2>1, <2>2, StoreStep DEF Index!Next, store
  <1>3. QED
    BY <1>1, <1>2, Invariance, PTL DEF Spec, ImplementsEvidenceIndex, Index!Spec
=============================================================================
