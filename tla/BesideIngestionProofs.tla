------------------------ MODULE BesideIngestionProofs ------------------------
(***************************************************************************)
(* Proofs about the two systems that share ingestion's data: the Agent API *)
(* (SharedDatabase), where neither side breaks what holds of the other     *)
(* alone, and the readers of the evidence (EvidenceOps), whose conclusions *)
(* from two racing reads are true of all that --recreate has not dropped.  *)
(* Each theorem names the specification that it is about, and the          *)
(* variables of the other system do not occur in it.                       *)
(***************************************************************************)
EXTENDS SharedDatabase, EvidenceOps, IngestionProofs, FiniteSetTheorems

-----------------------------------------------------------------------------
(***************************************************************************)
(* The Agent API beside ingestion                                          *)
(***************************************************************************)

LEMMA SharedStep ==
    ASSUME [SharedNext]_sharedVars
    PROVE  /\ [Next]_vars
           /\ [API!Next]_<<apiVars, writer # NoRun>>
  <1>1. CASE WorkerStep
    <2>1. (writer # NoRun)' \in BOOLEAN
      OBVIOUS
    <2>2. API!OthersWrite
      BY <1>1, <2>1 DEF WorkerStep, API!OthersWrite, API!apiVars, API!jobs, apiVars
    <2>3. QED
      BY <1>1, <2>2 DEF WorkerStep, API!Next
  <1>2. CASE ApiStep
    BY <1>2 DEF ApiStep, API!Next
  <1>3. CASE UNCHANGED sharedVars
    BY <1>3 DEF sharedVars, vars, apiVars
  <1>4. QED
    BY <1>1, <1>2, <1>3 DEF SharedNext

\* The processes beside the API are an Ingestion: all that is proved there holds.
THEOREM IngestionBesideApi == SharedSpec => Spec
  <1>1. SharedInit => Init
    BY DEF SharedInit
  <1>2. [SharedNext]_sharedVars => [Next]_vars
    BY SharedStep
  <1>3. QED
    BY <1>1, <1>2, PTL DEF SharedSpec, Spec

\* The API beside any number of ingestion processes is an AnalysisJobs whose
\* `busy` is their write lock: all that is proved there holds here.
THEOREM ApiBesideIngestion == SharedSpec => API!Spec
  <1>1. SharedInit => API!Init
    BY DEF SharedInit
  <1>2. [SharedNext]_sharedVars => [API!Next]_(API!vars)
    BY SharedStep DEF API!vars, API!apiVars, API!jobs, apiVars
  <1>3. QED
    BY <1>1, <1>2, PTL DEF SharedSpec, API!Spec

-----------------------------------------------------------------------------
(***************************************************************************)
(* The readers of the evidence beside ingestion.  With the points that     *)
(* were deleted with the collection added to those that it has, ingestion  *)
(* is as it is without --recreate, and all that is proved of it holds.     *)
(***************************************************************************)

Kept == INSTANCE IngestionProofs WITH points <- points \union dropped

LEMMA PlacesFinite ==
    ASSUME NEW n \in Nat
    PROVE  IsFiniteSet(1 .. n)
  BY FS_Interval

USE IngestionAssumption, OpsAssumption

LEMMA KeptNext ==
    ASSUME Next, UNCHANGED dropped
    PROVE  Kept!Next
  <1>1. ASSUME NEW r \in Runs, NEW p \in Plans, Begin(r, p)
        PROVE  Kept!Begin(r, p)
    BY <1>1 DEF Begin, Kept!Begin, store, Kept!store
  <1>2. ASSUME NEW r \in Runs, PrepareFiling(r)
        PROVE  Kept!PrepareFiling(r)
    BY <1>2 DEF PrepareFiling, Kept!PrepareFiling, Unseen, Kept!Unseen, Cut, Kept!Cut,
                Current, Kept!Current, store, Kept!store
  <1>3. ASSUME NEW r \in Runs, UpsertDocument(r)
        PROVE  Kept!UpsertDocument(r)
    BY <1>3 DEF UpsertDocument, Kept!UpsertDocument, Current, Kept!Current, store, Kept!store
  <1>4. ASSUME NEW r \in Runs, PublishVectors(r)
        PROVE  Kept!PublishVectors(r)
    BY <1>4 DEF PublishVectors, Kept!PublishVectors
  <1>5. ASSUME NEW r \in Runs, CommitFiling(r)
        PROVE  Kept!CommitFiling(r)
    BY <1>5 DEF CommitFiling, Kept!CommitFiling, Unseen, Kept!Unseen
  <1>6. ASSUME NEW r \in Runs, Finish(r)
        PROVE  Kept!Finish(r)
    BY <1>6 DEF Finish, Kept!Finish
  <1>7. ASSUME NEW r \in Runs, LockTimeout(r)
        PROVE  Kept!LockTimeout(r)
    BY <1>7 DEF LockTimeout, Kept!LockTimeout, Stop, Kept!Stop
  <1>8. ASSUME NEW r \in Runs, Abort(r)
        PROVE  Kept!Abort(r)
    BY <1>8 DEF Abort, Kept!Abort, Stop, Kept!Stop, Live, Kept!Live
  <1>9. ASSUME NEW r \in Runs, PublishUnacknowledged(r)
        PROVE  Kept!PublishUnacknowledged(r)
    BY <1>9 DEF PublishUnacknowledged, Kept!PublishUnacknowledged, Stop, Kept!Stop
  <1>10. QED
    BY <1>1, <1>2, <1>3, <1>4, <1>5, <1>6, <1>7, <1>8, <1>9
    DEF Next, Kept!Next, Step, Kept!Step

\* The other steps move points to the dropped ones, or leave ingestion alone.
LEMMA KeptStep ==
    ASSUME [OpsNext]_opsVars
    PROVE  /\ [Kept!Next]_(Kept!vars)
           /\ dropped \subseteq dropped'
  <1>1. CASE IngestionStep
    BY <1>1, KeptNext DEF IngestionStep, collectionVars
  <1>2. CASE DropCollection
    BY <1>2 DEF DropCollection, Kept!vars, Kept!store
  <1>3. CASE UNCHANGED <<vars, dropped>>
    BY <1>3 DEF vars, store, Kept!vars, Kept!store
  <1>4. QED
    BY <1>1, <1>2, <1>3
    DEF OpsNext, CreateCollection, AuditStep, BackupStep, ExportStep, SearchStep, opsVars,
        collectionVars

\* Beside the readers, and with the collection dropped at any time, ingestion
\* is what Ingestion says, but for the dropped points.
THEOREM IngestionBesideTools == OpsSpec => Kept!Spec
  <1>1. OpsInit => Kept!Init
    BY DEF OpsInit, Init, Kept!Init
  <1>2. [OpsNext]_opsVars => [Kept!Next]_(Kept!vars)
    BY KeptStep
  <1>3. QED
    BY <1>1, <1>2, PTL DEF OpsSpec, Kept!Spec

\* Both stores, what is on its way into them and what was dropped are finite.
StoresFinite ==
    /\ IsFiniteSet(points)
    /\ IsFiniteSet(dropped)
    /\ \A r \in Runs : IsFiniteSet(fresh[r])

\* The rows a tool has read and not yet compared are still there, so they have
\* their points or lost them to --recreate; what it has compared was taken in
\* that order.
ReadsSound ==
    /\ auditPc = "counted" => countedRows \subseteq chunks
    /\ auditPc \in {"ok", "mismatch"} =>
         /\ countedRows \ countedPoints \subseteq dropped
         /\ IsFiniteSet(countedRows) /\ IsFiniteSet(countedPoints)
    /\ auditPc = "ok" =>
         Distance(Cardinality(countedRows), Cardinality(countedPoints)) <= AllowedDelta
    /\ backupPc = "copied" /\ savedRows # NotTaken => savedRows \subseteq chunks
    /\ BackupsJoin

\* What is handed off is stored for good, with its documents.
HandoffSound ==
    /\ listed \subseteq chunks
    /\ \A c \in listed : c.filing \in docs
    /\ HandoffsResolve

OpsInv ==
    /\ Kept!IInv
    /\ OpsTypeOK
    /\ StoresFinite
    /\ ReadsSound
    /\ HandoffSound
    /\ CitationsHavePoints

\* What the other conjuncts of OpsInv rest on.
LEMMA StoresJoined ==
    ASSUME Kept!IInv
    PROVE  /\ TypeOK /\ InPlan
           /\ LacksDroppedOnly
           /\ dropped \subseteq Chunk
  <1>1. Kept!TypeOK /\ Kept!InPlan /\ Kept!RowsHaveVectors
    BY DEF Kept!IInv
  <1>2. TypeOK /\ dropped \subseteq Chunk
    BY <1>1 DEF TypeOK, Kept!TypeOK, Chunk, Kept!Chunk
  <1>3. QED
    BY <1>1, <1>2 DEF InPlan, Kept!InPlan, Working, Kept!Working,
                      LacksDroppedOnly, Kept!RowsHaveVectors

\* What no step takes back.
LEMMA OpsGrow ==
    ASSUME [OpsNext]_opsVars
    PROVE  /\ chunks \subseteq chunks' /\ docs \subseteq docs' /\ dropped \subseteq dropped'
           /\ points \union dropped \subseteq points' \union dropped'
  <1>1. [Kept!Next]_(Kept!vars) /\ dropped \subseteq dropped'
    BY KeptStep
  <1>2. chunks \subseteq chunks' /\ docs \subseteq docs'
    BY <1>1, Kept!StoresGrow
  <1>3. points \union dropped \subseteq points' \union dropped'
    BY <1>1, Kept!StoreStep DEF Kept!store, Kept!CommitFiling
  <1>4. QED
    BY <1>1, <1>2, <1>3

-----------------------------------------------------------------------------
\* A filing is cut into finitely many chunks.
LEMMA CutFinite ==
    ASSUME TypeOK, NEW r \in Runs, at[r] \in DOMAIN plan[r]
    PROVE  IsFiniteSet(Cut(r))
  <1> DEFINE T == Texts[Current(r)]
             c(i) == [run |-> r, at |-> at[r], filing |-> Current(r), pos |-> i,
                      text |-> T[i]]
             f == [i \in DOMAIN T |-> c(i)]
  <1>1. T \in Seq(Hashes)
    BY CutType
  <1>2. IsFiniteSet(DOMAIN T)
    <2> HIDE DEF T
    <2>1. DOMAIN T = 1 .. Len(T) /\ Len(T) \in Nat
      BY <1>1
    <2>2. IsFiniteSet(1 .. Len(T))
      BY <2>1, PlacesFinite
    <2>3. QED
      BY <2>1, <2>2
  <1>3. Cut(r) = {c(i) : i \in DOMAIN T}
    BY DEF Cut
  <1>4. f \in Surjection(DOMAIN T, Cut(r))
    <2> HIDE DEF T
    <2>1. \A i \in DOMAIN T : f[i] = c(i)
      OBVIOUS
    <2>2. f \in [DOMAIN T -> Cut(r)]
      BY <1>3
    <2>3. \A x \in Cut(r) : \E i \in DOMAIN T : f[i] = x
      BY <1>3, <2>1
    <2>4. QED
      BY <2>2, <2>3 DEF Surjection
  <1>5. QED
    BY <1>2, <1>4, FS_Surjection

LEMMA StoresFiniteStep ==
    ASSUME TypeOK, InPlan, StoresFinite, [Next]_vars, UNCHANGED dropped
    PROVE  StoresFinite'
  <1> USE DEF TypeOK, StoresFinite
  <1>1. IsFiniteSet({})
    BY FS_EmptySet
  <1>2. ASSUME NEW r \in Runs
        PROVE  IsFiniteSet(points \union fresh[r])
    BY FS_Union
  <1>3. ASSUME NEW r \in Runs, PrepareFiling(r)
        PROVE  StoresFinite'
    <2>1. IsFiniteSet(Cut(r))
      BY <1>3, CutFinite DEF PrepareFiling
    <2>2. Unseen(Cut(r)) \in SUBSET Cut(r)
      BY DEF Unseen
    <2>3. IsFiniteSet(Unseen(Cut(r)))
      BY <2>1, <2>2, FS_Subset
    <2>4. QED
      BY <1>3, <2>3 DEF PrepareFiling, store
  <1>4. ASSUME NEW r \in Runs, PublishVectors(r)
        PROVE  StoresFinite'
    BY <1>2, <1>4 DEF PublishVectors
  <1>5. ASSUME NEW r \in Runs, CommitFiling(r)
        PROVE  StoresFinite'
    BY <1>1, <1>5 DEF CommitFiling
  <1>6. ASSUME NEW r \in Runs, Stop(r), points' \in {points, points \union fresh[r]}
        PROVE  StoresFinite'
    BY <1>1, <1>2, <1>6 DEF Stop
  <1>7. CASE UNCHANGED <<points, fresh>>
    BY <1>7
  <1>8. QED
    BY <1>3, <1>4, <1>5, <1>6, <1>7
    DEF Next, Step, Begin, UpsertDocument, Finish, Abort, PublishUnacknowledged,
        LockTimeout, vars, store

LEMMA OpsFiniteStep ==
    ASSUME OpsInv, [OpsNext]_opsVars
    PROVE  StoresFinite'
  <1>1. TypeOK /\ InPlan /\ StoresFinite
    BY StoresJoined DEF OpsInv
  <1>2. CASE IngestionStep
    BY <1>1, <1>2, StoresFiniteStep DEF IngestionStep, collectionVars
  <1>3. CASE DropCollection
    <2>1. IsFiniteSet({}) /\ IsFiniteSet(dropped \union points)
      BY <1>1, FS_EmptySet, FS_Union DEF StoresFinite
    <2>2. QED
      BY <1>1, <1>3, <2>1 DEF DropCollection, StoresFinite
  <1>4. CASE UNCHANGED <<vars, dropped>>
    BY <1>1, <1>4 DEF StoresFinite, vars, store
  <1>5. QED
    BY <1>2, <1>3, <1>4
    DEF OpsNext, CreateCollection, AuditStep, BackupStep, ExportStep, SearchStep, opsVars,
        collectionVars

\* The rows are finitely many; so are those of a document, and those listed of it
\* are some of them.
LEMMA RowsFinite ==
    ASSUME LacksDroppedOnly, StoresFinite
    PROVE  IsFiniteSet(chunks)
  <1>1. IsFiniteSet(points \union dropped)
    BY FS_Union DEF StoresFinite
  <1>2. QED
    BY <1>1, FS_Subset DEF LacksDroppedOnly

LEMMA ListedCounted ==
    ASSUME LacksDroppedOnly, StoresFinite, HandoffSound, NEW f
    PROVE  /\ Cardinality(ChunksOf(f)) \in Nat
           /\ Cardinality({c \in listed : c.filing = f}) <= Cardinality(ChunksOf(f))
  <1>1. ChunksOf(f) \subseteq chunks /\ {c \in listed : c.filing = f} \subseteq ChunksOf(f)
    BY DEF ChunksOf, HandoffSound
  <1>2. IsFiniteSet(ChunksOf(f))
    BY <1>1, RowsFinite, FS_Subset
  <1>3. QED
    BY <1>1, <1>2, FS_Subset, FS_CardinalityType

-----------------------------------------------------------------------------
LEMMA ReadsSoundStep ==
    ASSUME OpsInv, [OpsNext]_opsVars
    PROVE  ReadsSound'
  <1>1. /\ ReadsSound /\ StoresFinite /\ IsFiniteSet(chunks)
        /\ chunks \subseteq points \union dropped
        /\ chunks \subseteq chunks' /\ dropped \subseteq dropped'
    BY StoresJoined, RowsFinite, OpsGrow DEF OpsInv, LacksDroppedOnly
  <1>2. CASE UNCHANGED <<auditVars, backupVars>>
    BY <1>1, <1>2 DEF ReadsSound, BackupsJoin, Distance, auditVars, backupVars
  <1>3. CASE AuditStep
    <2>1. UNCHANGED <<chunks, points, dropped, backupVars>>
      BY <1>3 DEF AuditStep, vars, store, collectionVars
    <2>2. CASE CountRows
      BY <1>1, <2>1, <2>2 DEF CountRows, ReadsSound, BackupsJoin, backupVars
    <2>3. CASE CountPoints
      <3>1. countedRows \subseteq chunks
        BY <1>1, <2>3 DEF CountPoints, ReadsSound
      <3>2. IsFiniteSet(countedRows)
        BY <1>1, <3>1, FS_Subset
      <3>3. QED
        BY <1>1, <2>1, <2>3, <3>1, <3>2
        DEF CountPoints, ReadsSound, BackupsJoin, StoresFinite, backupVars
    <2>4. CASE CountFails
      BY <1>1, <2>1, <2>4 DEF CountFails, ReadsSound, BackupsJoin, backupVars
    <2>5. QED
      BY <1>3, <2>2, <2>3, <2>4 DEF AuditStep
  <1>4. CASE BackupStep
    <2>1. UNCHANGED <<chunks, points, dropped, auditVars>>
      BY <1>4 DEF BackupStep, vars, store, collectionVars
    <2>2. CASE BackupSqlite
      BY <1>1, <2>1, <2>2 DEF BackupSqlite, ReadsSound, BackupsJoin, Distance, auditVars
    <2>3. CASE SnapshotQdrant
      BY <1>1, <2>1, <2>3 DEF SnapshotQdrant, ReadsSound, BackupsJoin, Distance, auditVars
    <2>4. CASE BackupFails
      BY <1>1, <2>1, <2>4 DEF BackupFails, ReadsSound, BackupsJoin, Distance, auditVars
    <2>5. QED
      BY <1>4, <2>2, <2>3, <2>4 DEF BackupStep, Backup
  <1>5. QED
    BY <1>2, <1>3, <1>4
    DEF OpsNext, IngestionStep, DropCollection, CreateCollection, ExportStep, SearchStep,
        opsVars, readerVars

LEMMA HandoffStep ==
    ASSUME OpsInv, [OpsNext]_opsVars
    PROVE  HandoffSound'
  <1>1. /\ HandoffSound /\ LacksDroppedOnly
        /\ chunks \subseteq chunks' /\ docs \subseteq docs'
        /\ points \union dropped \subseteq points' \union dropped'
    BY StoresJoined, OpsGrow DEF OpsInv
  <1>2. CASE UNCHANGED exportVars
    BY <1>1, <1>2 DEF HandoffSound, HandoffsResolve, exportVars
  <1>3. CASE ExportStep
    <2>1. UNCHANGED <<docs, chunks, points, dropped>>
      BY <1>3 DEF ExportStep, vars, store, collectionVars
    <2>2. CASE ListChunks
      BY <1>1, <2>1, <2>2 DEF ListChunks, Selections, HandoffSound, HandoffsResolve
    <2>3. CASE DescribeDocuments
      <3>1. /\ exportPc' = "written" /\ listed' = listed
            /\ DOMAIN described' = {c.filing : c \in listed} \cap docs
            /\ \A f \in DOMAIN described' : described'[f] = Cardinality(ChunksOf(f))
        BY <2>3 DEF DescribeDocuments
      <3>2. \A f : Cardinality({c \in listed : c.filing = f}) <= Cardinality(ChunksOf(f))
        BY <1>1, ListedCounted DEF OpsInv
      <3>3. {c.filing : c \in listed} = DOMAIN described'
        BY <1>1, <3>1 DEF HandoffSound
      <3>4. listed \subseteq points \union dropped
        BY <1>1 DEF HandoffSound, LacksDroppedOnly
      <3>5. HandoffsResolve'
        BY <2>1, <3>1, <3>2, <3>3, <3>4 DEF HandoffsResolve
      <3>6. QED
        BY <1>1, <2>1, <3>1, <3>5 DEF HandoffSound
    <2>4. CASE ExportFails
      BY <1>1, <2>1, <2>4 DEF ExportFails, HandoffSound, HandoffsResolve
    <2>5. QED
      BY <1>3, <2>2, <2>3, <2>4 DEF ExportStep, Export
  <1>4. QED
    BY <1>2, <1>3
    DEF OpsNext, IngestionStep, DropCollection, CreateCollection, AuditStep, BackupStep,
        SearchStep, opsVars, readerVars

LEMMA CitationsStep ==
    ASSUME OpsInv, [OpsNext]_opsVars
    PROVE  CitationsHavePoints'
  <1>1. /\ evidence \subseteq points \union dropped /\ chunks \subseteq points \union dropped
        /\ points \union dropped \subseteq points' \union dropped'
    BY StoresJoined, OpsGrow DEF OpsInv, CitationsHavePoints, LacksDroppedOnly
  <1>2. CASE evidence' = evidence
    BY <1>1, <1>2 DEF CitationsHavePoints
  <1>3. CASE SearchStep
    BY <1>1, <1>3 DEF SearchStep, SearchRows, SearchVectors, ChunksOf, CitationsHavePoints
  <1>4. QED
    BY <1>2, <1>3
    DEF OpsNext, IngestionStep, DropCollection, CreateCollection, AuditStep, BackupStep,
        ExportStep, opsVars, readerVars

LEMMA OpsTypeStep ==
    ASSUME OpsInv, Kept!IInv', [OpsNext]_opsVars
    PROVE  OpsTypeOK'
  <1>1. TypeOK' /\ dropped' \subseteq Chunk
    BY DEF Kept!IInv, Kept!TypeOK, TypeOK, Chunk, Kept!Chunk
  <1>2. OpsTypeOK /\ chunks \subseteq Chunk /\ points \subseteq Chunk /\ docs \subseteq Filings
    BY DEF OpsInv, OpsTypeOK, TypeOK
  <1>3. CASE IngestionStep \/ DropCollection \/ CreateCollection \/ UNCHANGED opsVars
    BY <1>1, <1>2, <1>3
    DEF IngestionStep, DropCollection, CreateCollection, opsVars, OpsTypeOK, collectionVars,
        readerVars, auditVars, backupVars, exportVars
  <1>4. CASE AuditStep
    BY <1>1, <1>2, <1>4
    DEF AuditStep, CountRows, CountPoints, CountFails, OpsTypeOK, collectionVars,
        backupVars, exportVars
  <1>5. CASE BackupStep
    BY <1>1, <1>2, <1>5
    DEF BackupStep, Backup, BackupSqlite, SnapshotQdrant, BackupFails, OpsTypeOK,
        collectionVars, auditVars, exportVars
  <1>6. CASE ExportStep
    <2>1. \A f : Cardinality(ChunksOf(f)) \in Nat
      BY StoresJoined, ListedCounted DEF OpsInv
    <2>2. /\ exportPc' \in {"idle", "listed", "written", "error"}
          /\ listed' \subseteq Chunk
          /\ DOMAIN described' \subseteq Filings
          /\ \A f \in DOMAIN described' : described'[f] \in Nat
      <3>1. CASE ListChunks
        BY <1>2, <3>1 DEF ListChunks, Selections
      <3>2. CASE DescribeDocuments
        BY <1>2, <2>1, <3>2 DEF DescribeDocuments, OpsTypeOK
      <3>3. CASE ExportFails
        BY <3>3 DEF ExportFails
      <3>4. QED
        BY <1>6, <3>1, <3>2, <3>3 DEF ExportStep, Export
    <2>3. UNCHANGED <<collectionVars, auditVars, backupVars, evidence>>
      BY <1>6 DEF ExportStep
    <2>4. QED
      BY <1>1, <1>2, <2>2, <2>3 DEF OpsTypeOK, collectionVars, auditVars, backupVars
  <1>7. CASE SearchStep
    BY <1>1, <1>2, <1>7
    DEF SearchStep, SearchRows, SearchVectors, ChunksOf, OpsTypeOK, collectionVars,
        auditVars, backupVars, exportVars
  <1>8. QED
    BY <1>3, <1>4, <1>5, <1>6, <1>7 DEF OpsNext

LEMMA OpsInvariance == OpsSpec => []OpsInv
  <1>1. OpsInit => OpsInv
    <2> SUFFICES ASSUME OpsInit
                 PROVE  OpsInv
      OBVIOUS
    <2>1. Kept!IInv
      BY Kept!InitInvariant DEF OpsInit, Init, Kept!Init
    <2>2. OpsTypeOK
      <3>1. TypeOK
        BY <2>1, StoresJoined
      <3>2. DOMAIN described = {}
        BY DEF OpsInit
      <3>3. QED
        BY <3>1, <3>2 DEF OpsInit, OpsTypeOK
    <2>3. StoresFinite
      BY FS_EmptySet DEF OpsInit, Init, StoresFinite
    <2>4. QED
      BY <2>1, <2>2, <2>3
      DEF OpsInit, OpsInv, ReadsSound, BackupsJoin, HandoffSound, HandoffsResolve,
          CitationsHavePoints
  <1>2. OpsInv /\ [OpsNext]_opsVars => OpsInv'
    <2> SUFFICES ASSUME OpsInv, [OpsNext]_opsVars
                 PROVE  OpsInv'
      OBVIOUS
    <2>1. Kept!IInv'
      BY KeptStep, Kept!InvariantStep DEF OpsInv
    <2>2. QED
      BY <2>1, OpsTypeStep, OpsFiniteStep, ReadsSoundStep, HandoffStep, CitationsStep DEF OpsInv
  <1>3. QED
    BY <1>1, <1>2, PTL DEF OpsSpec

\* Type correctness of the composed system.
THEOREM OpsTypeCorrect == OpsSpec => []OpsTypeOK
  <1>1. OpsInv => OpsTypeOK
    BY DEF OpsInv
  <1>2. QED
    BY <1>1, OpsInvariance, PTL

\* Whatever crashes and whenever the collection is dropped, a row without its
\* vector lost it to --recreate.
THEOREM RowsLackDroppedOnly == OpsSpec => []LacksDroppedOnly
  <1>1. OpsInv => LacksDroppedOnly
    BY StoresJoined DEF OpsInv
  <1>2. QED
    BY <1>1, OpsInvariance, PTL

\* The validator's verdict "in sync" is true of all that was not dropped, although
\* it compares two numbers read at different moments of a running ingestion.
THEOREM InSyncAlwaysMeansJoined == OpsSpec => []InSyncMeansJoined
  <1>1. OpsInv => InSyncMeansJoined
    <2> SUFFICES ASSUME OpsInv, auditPc = "ok"
                 PROVE  /\ countedRows \ countedPoints \subseteq dropped
                        /\ Cardinality(countedPoints \ countedRows)
                             <= Cardinality(countedRows \ countedPoints) + AllowedDelta
      BY DEF InSyncMeansJoined
    <2> DEFINE m == Cardinality(countedRows)
               n == Cardinality(countedPoints)
               k == Cardinality(countedRows \cap countedPoints)
    <2>1. /\ countedRows \ countedPoints \subseteq dropped
          /\ IsFiniteSet(countedRows) /\ IsFiniteSet(countedPoints)
          /\ Distance(m, n) <= AllowedDelta
      BY DEF OpsInv, ReadsSound
    <2>2. m \in Nat /\ n \in Nat /\ k \in Nat
      BY <2>1, FS_Intersection, FS_CardinalityType
    <2>3. Cardinality(countedPoints \cap countedRows) = k
      <3>1. countedPoints \cap countedRows = countedRows \cap countedPoints
        OBVIOUS
      <3>2. QED
        BY <3>1
    <2>4. /\ Cardinality(countedPoints \ countedRows) = n - k
          /\ Cardinality(countedRows \ countedPoints) = m - k
      <3>1. Cardinality(countedPoints \ countedRows) = n - Cardinality(countedPoints \cap countedRows)
        BY <2>1, FS_Difference
      <3>2. Cardinality(countedRows \ countedPoints) = m - k
        BY <2>1, FS_Difference
      <3>3. QED
        BY <2>3, <3>1, <3>2
    <2>5. n - m <= AllowedDelta
      BY <2>1, <2>2 DEF Distance
    <2> HIDE DEF m, n, k
    <2>6. n - k <= m - k + AllowedDelta
      BY <2>2, <2>5
    <2>7. QED
      BY <2>1, <2>4, <2>6
  <1>2. QED
    BY <1>1, OpsInvariance, PTL

\* A backup and a snapshot named by one manifest restore to joined stores, but
\* for what was dropped, whatever ingestion does between the two.
THEOREM BackupsAlwaysJoin == OpsSpec => []BackupsJoin
  <1>1. OpsInv => BackupsJoin
    BY DEF OpsInv, ReadsSound
  <1>2. QED
    BY <1>1, OpsInvariance, PTL

\* A hand-off describes the document of each chunk and counts no fewer chunks than
\* it lists, and its point ids stay good until they are dropped, whatever ingestion
\* does meanwhile.
THEOREM HandoffsAlwaysResolve == OpsSpec => []HandoffsResolve
  <1>1. OpsInv => HandoffsResolve
    BY DEF OpsInv, HandoffSound
  <1>2. QED
    BY <1>1, OpsInvariance, PTL

\* Whatever an analysis cites has its point in Qdrant, and keeps it until it is
\* dropped with the collection.
THEOREM CitationsAlwaysHavePoints == OpsSpec => []CitationsHavePoints
  <1>1. OpsInv => CitationsHavePoints
    BY DEF OpsInv
  <1>2. QED
    BY <1>1, OpsInvariance, PTL
=============================================================================
