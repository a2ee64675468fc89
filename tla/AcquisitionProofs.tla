-------------------------- MODULE AcquisitionProofs --------------------------
(***************************************************************************)
(* Proofs about Acquisition, for any processes, files, batch size and      *)
(* number of attempts.  The argument is AcquisitionIInv: a file that has   *)
(* parts missing has a writer who will still write them, or is excused;    *)
(* the vectors of a call are those of its first texts; and what a run has  *)
(* passed is stored.                                                       *)
(***************************************************************************)
EXTENDS Acquisition, OrderingProofs, SequenceTheorems

Texts == FileSet \X Nat

CacheTypeOK ==
    /\ \A f \in FileSet : disk[f] = Absent \/ disk[f] \subseteq Whole(f)
    /\ DOMAIN disk = FileSet
    /\ cachePc \in [Procs -> {"idle", "looking", "fetching", "writing", "text",
                              "ended", "failed", "killed"}]
    /\ wanted \in [Procs -> 1 .. Len(Files)]
    /\ written \in [Procs -> Nat]
    /\ text \in [Procs -> SUBSET Nat]
    /\ \A p \in Procs : IsFiniteSet(text[p])
    /\ interrupted \subseteq FileSet
    /\ readEarly \subseteq FileSet

ClientsTypeOK ==
    /\ embedPc \in [Clients -> {"idle", "ready", "waiting", "embedded", "gaveUp"}]
    /\ texts \in [Clients -> Seq(Texts)]
    /\ vectors \in [Clients -> Seq(Texts)]
    /\ attempt \in [Clients -> 0 .. Attempts]

\* Every variable keeps its type.
AcquisitionTypeOK ==
    /\ CacheTypeOK
    /\ ClientsTypeOK
    /\ stored \subseteq [text : Texts, vector : Texts]

\* A writer still writes part i of f.
ToBeWritten(f, i) ==
    \E q \in Procs : cachePc[q] = "writing" /\ File(q) = f /\ written[q] < i

\* What is missing in a file is still written, unless a writer was stopped.
FilesFilled ==
    /\ \A p \in Procs : cachePc[p] = "writing" =>
         disk[File(p)] # Absent /\ written[p] <= Parts[File(p)]
    /\ \A f \in FileSet \ interrupted : disk[f] # Absent =>
         \A i \in Whole(f) : i \in disk[f] \/ ToBeWritten(f, i)

Excused == interrupted \cup readEarly

TextsWhole ==
    \A p \in Procs : cachePc[p] = "text" =>
        text[p] = Whole(File(p)) \/ File(p) \in Excused

\* A call of the embedding client is about the filing that its process is at.
CallsWithinFiling ==
    \A p \in Procs : embedPc[p] # "idle" =>
        /\ cachePc[p] = "text" /\ File(p) # TickerMap
        /\ \A i \in text[p] :
             <<File(p), i>> \in StoredTexts \cup {texts[p][k] : k \in DOMAIN texts[p]}

\* The vectors collected so far are those of the first texts.
VectorsInStep ==
    \A c \in Clients :
        /\ Len(vectors[c]) <= Len(texts[c])
        /\ \A k \in 1 .. Len(vectors[c]) : vectors[c][k] = texts[c][k]
        /\ embedPc[c] \in {"ready", "waiting"} => Len(vectors[c]) < Len(texts[c])
        /\ embedPc[c] \in {"ready", "waiting"} => attempt[c] < Attempts
        /\ embedPc[c] = "embedded" => Len(vectors[c]) = Len(texts[c])
        /\ embedPc[c] = "idle" => texts[c] = <<>>

\* A run has stored all of the filings it is past.
PassedStored ==
    \A p \in Procs : \A k \in 2 .. Len(Files) :
        /\ k < wanted[p] \/ cachePc[p] = "ended"
        /\ Files[k] \notin Excused
        => {Files[k]} \X Whole(Files[k]) \subseteq StoredTexts

AcquisitionIInv ==
    /\ AcquisitionTypeOK
    /\ FilesFilled /\ TextsWhole /\ CallsWithinFiling
    /\ VectorsInStep /\ VectorsMatchTexts /\ PassedStored

-----------------------------------------------------------------------------
(***************************************************************************)
(* The files                                                               *)
(***************************************************************************)

LEMMA FilesType ==
    /\ Len(Files) \in Nat \ {0}
    /\ \A k \in 1 .. Len(Files) : Files[k] \in FileSet
    /\ \A f \in FileSet : Parts[f] \in Nat \ {0}
    /\ TickerMap \in FileSet
    /\ \A k \in 2 .. Len(Files) : Files[k] # TickerMap
<1>1. Files \in Seq(FileSet) /\ Files # <<>>
  BY FilesAssumption
<1>2. Len(Files) \in Nat \ {0} /\ DOMAIN Files = 1 .. Len(Files)
  BY <1>1, EmptySeq, LenProperties
<1> QED
  BY <1>2, FilesAssumption DEF FileSet, TickerMap

\* The file that a process is at is one of the files.
LEMMA FileType ==
    ASSUME CacheTypeOK, NEW p \in Procs
    PROVE  File(p) \in FileSet /\ Parts[File(p)] \in Nat \ {0}
  BY FilesType DEF CacheTypeOK, File

\* The cache's part of FilingFails.
LeavesFiling(p) ==
    /\ cachePc[p] = "text"
    /\ Goto(p, "failed")
    /\ text' = [text EXCEPT ![p] = {}]
    /\ UNCHANGED <<disk, wanted, written, runs, interrupted, readEarly>>

CacheMove(p) == Begin(p) \/ CacheStep(p) \/ Proceed(p) \/ Stop(p) \/ LeavesFiling(p)

\* A move is one process's, and no excuse is taken back.
LEMMA MoveOfOne ==
    ASSUME CacheTypeOK, NEW p \in Procs, CacheMove(p)
    PROVE  /\ \A q \in Procs \ {p} :
                /\ cachePc'[q] = cachePc[q] /\ wanted'[q] = wanted[q]
                /\ written'[q] = written[q] /\ text'[q] = text[q]
           /\ Excused \subseteq Excused'
  BY DEF CacheTypeOK, CacheMove, CacheStep, Begin, ReadCached, Miss, OpenToWrite, WritePart,
         CloseWritten, FetchFails, Proceed, Stop, LeavesFiling, Goto, Excused

LEMMA CacheTypeKept ==
    ASSUME CacheTypeOK, FilesFilled, NEW p \in Procs, CacheMove(p)
    PROVE  CacheTypeOK'
<1>1. /\ File(p) \in FileSet /\ Parts[File(p)] \in Nat /\ Len(Files) \in Nat \ {0}
      /\ \A f \in FileSet : Parts[f] \in Nat
      /\ IsFiniteSet({}) /\ IsFiniteSet(Whole(File(p)))
  <2>1. File(p) \in FileSet /\ Parts[File(p)] \in Nat
    BY FileType
  <2>2. IsFiniteSet(1 .. Parts[File(p)])
    BY <2>1, FS_Interval
  <2> QED
    BY <2>1, <2>2, FilesType, FS_EmptySet DEF Whole
<1>2. CASE Begin(p)
  BY <1>1, <1>2 DEF Begin, Goto, CacheTypeOK
<1>3. CASE ReadCached(p)
  <2>1. disk[File(p)] \subseteq Nat /\ IsFiniteSet(disk[File(p)])
    <3>1. disk[File(p)] \subseteq Whole(File(p))
      BY <1>1, <1>3 DEF ReadCached, CacheTypeOK
    <3> QED
      BY <1>1, <3>1, FS_Subset DEF Whole
  <2> QED
    BY <1>1, <1>3, <2>1 DEF ReadCached, Goto, CacheTypeOK
<1>4. CASE Miss(p)
  BY <1>4 DEF Miss, Goto, CacheTypeOK
<1>5. CASE OpenToWrite(p)
  BY <1>1, <1>5 DEF OpenToWrite, Goto, CacheTypeOK
<1>6. CASE WritePart(p)
  <2>1. disk[File(p)] # Absent
    BY <1>6 DEF WritePart, FilesFilled
  <2>2. disk[File(p)] \cup {written[p] + 1} \subseteq Whole(File(p))
    BY <1>1, <1>6, <2>1 DEF WritePart, CacheTypeOK, Whole
  <2> QED
    BY <1>1, <1>6, <2>2 DEF WritePart, CacheTypeOK
<1>7. CASE CloseWritten(p)
  BY <1>1, <1>7 DEF CloseWritten, Goto, CacheTypeOK, Whole
<1>8. CASE FetchFails(p)
  BY <1>8 DEF FetchFails, Goto, CacheTypeOK
<1>9. CASE Proceed(p)
  <2>1. wanted' \in [Procs -> 1 .. Len(Files)]
    <3>1. wanted[p] \in Nat /\ wanted[p] >= 1 /\ wanted \in [Procs -> 1 .. Len(Files)]
      BY <1>1 DEF CacheTypeOK
    <3>2. CASE wanted[p] < Len(Files) /\ wanted' = [wanted EXCEPT ![p] = @ + 1]
      <4>1. wanted[p] + 1 \in 1 .. Len(Files)
        BY <1>1, <3>1, <3>2
      <4> QED
        BY <3>1, <3>2, <4>1
    <3>3. CASE wanted' = wanted
      BY <3>1, <3>3
    <3> QED
      BY <1>9, <3>2, <3>3 DEF Proceed
  <2>2. cachePc' = [cachePc EXCEPT ![p] = "looking"] \/ cachePc' = [cachePc EXCEPT ![p] = "ended"]
    BY <1>9 DEF Proceed, Goto
  <2> QED
    <3>1. /\ text' \in [Procs -> SUBSET Nat]
          /\ \A q \in Procs : IsFiniteSet(text'[q])
      BY <1>1, <1>9 DEF Proceed, CacheTypeOK
    <3> QED
      BY <1>9, <2>1, <2>2, <3>1 DEF Proceed, CacheTypeOK
<1>10. CASE Stop(p)
  BY <1>1, <1>10 DEF Stop, Goto, CacheTypeOK
<1>11. CASE LeavesFiling(p)
  <2>1. /\ text' \in [Procs -> SUBSET Nat]
        /\ \A q \in Procs : IsFiniteSet(text'[q])
    BY <1>1, <1>11 DEF LeavesFiling, CacheTypeOK
  <2> QED
    BY <1>11, <2>1 DEF LeavesFiling, Goto, CacheTypeOK
<1> QED
  BY <1>2, <1>3, <1>4, <1>5, <1>6, <1>7, <1>8, <1>9, <1>10, <1>11 DEF CacheMove, CacheStep

\* Where no writer comes and a writer only goes if it is noted, files stay filled.
LEMMA FilledWithoutWriter ==
    ASSUME CacheTypeOK, FilesFilled, NEW p \in Procs, CacheMove(p),
           disk' = disk, interrupted \subseteq interrupted',
           cachePc[p] = "writing" => File(p) \in interrupted',
           cachePc'[p] # "writing"
    PROVE  FilesFilled'
<1>1. \A q \in Procs \ {p} :
        cachePc'[q] = cachePc[q] /\ File(q)' = File(q) /\ written'[q] = written[q]
  BY MoveOfOne DEF File
<1>2. ASSUME NEW f \in FileSet \ interrupted', NEW i \in Whole(f), ToBeWritten(f, i)
      PROVE  ToBeWritten(f, i)'
  BY <1>1, <1>2 DEF ToBeWritten
<1> QED
  BY <1>1, <1>2 DEF FilesFilled

\* Files stay filled, or are being filled.
LEMMA FilledKept ==
    ASSUME CacheTypeOK, FilesFilled, NEW p \in Procs, CacheMove(p)
    PROVE  FilesFilled'
<1>1. \A q \in Procs \ {p} :
        cachePc'[q] = cachePc[q] /\ File(q)' = File(q) /\ written'[q] = written[q]
  BY MoveOfOne DEF File
<1>2. File(p) \in FileSet /\ Parts[File(p)] \in Nat \ {0}
  BY FileType
<1>3. CASE OpenToWrite(p)
  <2>1. /\ cachePc'[p] = "writing" /\ written'[p] = 0 /\ File(p)' = File(p)
        /\ disk' = [disk EXCEPT ![File(p)] = {}] /\ interrupted' = interrupted
        /\ cachePc[p] = "fetching"
    BY <1>3 DEF OpenToWrite, Goto, CacheTypeOK, File
  <2>2. {} # Absent
    BY <1>2, FilesAssumption
  <2>3. \A q \in Procs : cachePc'[q] = "writing" =>
          disk'[File(q)'] # Absent /\ written'[q] <= Parts[File(q)']
    <3>1. ASSUME NEW q \in Procs, cachePc'[q] = "writing"
          PROVE  disk'[File(q)'] # Absent /\ written'[q] <= Parts[File(q)']
      <4>1. CASE q = p
        BY <1>2, <2>1, <2>2, <4>1 DEF CacheTypeOK
      <4>2. CASE q # p
        BY <1>1, <2>1, <2>2, <3>1, <4>2, FileType DEF FilesFilled, CacheTypeOK
      <4> QED
        BY <4>1, <4>2
    <3> QED
      BY <3>1
  <2>4. ASSUME NEW f \in FileSet \ interrupted, disk'[f] # Absent, NEW i \in Whole(f)
        PROVE  i \in disk'[f] \/ ToBeWritten(f, i)'
    <3>1. CASE f = File(p)
      BY <1>2, <2>1, <3>1 DEF ToBeWritten, Whole
    <3>2. CASE f # File(p)
      <4>1. disk'[f] = disk[f]
        BY <2>1, <3>2 DEF CacheTypeOK
      <4>2. i \in disk[f] \/ ToBeWritten(f, i)
        BY <2>4, <4>1 DEF FilesFilled
      <4> QED
        BY <1>1, <2>1, <4>1, <4>2 DEF ToBeWritten
    <3> QED
      BY <3>1, <3>2
  <2> QED
    BY <2>1, <2>3, <2>4 DEF FilesFilled
<1>4. CASE WritePart(p)
  <2>1. /\ cachePc' = cachePc /\ cachePc[p] = "writing" /\ File(p)' = File(p)
        /\ written[p] \in Nat /\ written'[p] = written[p] + 1
        /\ written[p] < Parts[File(p)] /\ interrupted' = interrupted
        /\ disk' = [disk EXCEPT ![File(p)] = @ \cup {written[p] + 1}]
    BY <1>4 DEF WritePart, CacheTypeOK, File
  <2>2. disk[File(p)] # Absent
    BY <2>1 DEF FilesFilled
  <2>3. disk'[File(p)] = disk[File(p)] \cup {written[p] + 1} /\ disk'[File(p)] # Absent
    <3>1. disk[File(p)] \cup {written[p] + 1} \in SUBSET (1 .. Parts[File(p)])
      BY <1>2, <2>1, <2>2 DEF CacheTypeOK, Whole
    <3> QED
      BY <1>2, <2>1, <3>1, FilesAssumption DEF CacheTypeOK
  <2>4. \A q \in Procs : cachePc'[q] = "writing" =>
          disk'[File(q)'] # Absent /\ written'[q] <= Parts[File(q)']
    <3>1. written'[p] <= Parts[File(p)']
      BY <1>2, <2>1
    <3> QED
      BY <1>1, <2>1, <2>3, <3>1, FileType DEF FilesFilled, CacheTypeOK
  <2>5. ASSUME NEW f \in FileSet \ interrupted, disk'[f] # Absent, NEW i \in Whole(f)
        PROVE  i \in disk'[f] \/ ToBeWritten(f, i)'
    <3>1. disk[f] # Absent /\ disk[f] \subseteq disk'[f]
      BY <2>1, <2>2, <2>3, <2>5 DEF CacheTypeOK
    <3>2. CASE i \in disk[f]
      BY <3>1, <3>2
    <3>3. CASE i \notin disk[f]
      <4>1. PICK q \in Procs : cachePc[q] = "writing" /\ File(q) = f /\ written[q] < i
        BY <2>5, <3>1, <3>3 DEF FilesFilled, ToBeWritten
      <4>2. CASE q = p /\ i = written[p] + 1
        BY <2>3, <4>1, <4>2
      <4>3. CASE q = p /\ i # written[p] + 1
        <5>1. i \in Nat
          BY FilesType DEF Whole
        <5>2. written'[p] < i
          BY <2>1, <4>1, <4>3, <5>1
        <5> QED
          BY <2>1, <4>1, <4>3, <5>2 DEF ToBeWritten
      <4>4. CASE q # p
        BY <1>1, <4>1, <4>4 DEF ToBeWritten
      <4> QED
        BY <4>2, <4>3, <4>4
    <3> QED
      BY <3>2, <3>3
  <2> QED
    BY <2>1, <2>4, <2>5 DEF FilesFilled
<1>5. CASE CloseWritten(p)
  <2>1. /\ cachePc'[p] = "text" /\ written[p] = Parts[File(p)]
        /\ disk' = disk /\ interrupted' = interrupted
    BY <1>5 DEF CloseWritten, Goto, CacheTypeOK
  <2>2. ASSUME NEW f \in FileSet, NEW i \in Whole(f), ToBeWritten(f, i)
        PROVE  ToBeWritten(f, i)'
    <3>1. PICK q \in Procs : cachePc[q] = "writing" /\ File(q) = f /\ written[q] < i
      BY <2>2 DEF ToBeWritten
    \* All parts of its own file are written.
    <3>2. q # p
      BY <2>1, <3>1, <1>2 DEF Whole
    <3> QED
      BY <1>1, <3>1, <3>2 DEF ToBeWritten
  <2> QED
    BY <1>1, <2>1, <2>2 DEF FilesFilled
<1>6. CASE Begin(p) \/ ReadCached(p) \/ Miss(p) \/ FetchFails(p) \/ Proceed(p) \/ LeavesFiling(p)
  <2>1. /\ disk' = disk /\ interrupted' = interrupted
        /\ cachePc[p] # "writing" /\ cachePc'[p] # "writing"
    BY <1>6 DEF Begin, ReadCached, Miss, FetchFails, Proceed, LeavesFiling, Goto, Live, CacheTypeOK
  <2> QED
    BY <2>1, FilledWithoutWriter
<1>7. CASE Stop(p)
  <2>1. /\ disk' = disk /\ interrupted \subseteq interrupted'
        /\ cachePc[p] = "writing" => File(p) \in interrupted'
        /\ cachePc'[p] # "writing"
    BY <1>7 DEF Stop, Goto, CacheTypeOK
  <2> QED
    BY <2>1, FilledWithoutWriter
<1> QED
  BY <1>3, <1>4, <1>5, <1>6, <1>7 DEF CacheMove, CacheStep

\* A text is whole, unless its file was read early or its writer stopped.
LEMMA TextsKept ==
    ASSUME CacheTypeOK, FilesFilled, TextsWhole, NEW p \in Procs, CacheMove(p)
    PROVE  TextsWhole'
<1>1. \A q \in Procs \ {p} : cachePc'[q] = cachePc[q] /\ File(q)' = File(q) /\ text'[q] = text[q]
  BY MoveOfOne DEF File
<1>2. Excused \subseteq Excused'
  BY MoveOfOne
<1>3. File(p) \in FileSet
  BY FileType
<1>4. cachePc'[p] = "text" => text'[p] = Whole(File(p)') \/ File(p)' \in Excused'
  <2>1. CASE ReadCached(p)
    <3>1. SUFFICES ASSUME cachePc'[p] = "text", File(p) \notin Excused'
                   PROVE  disk[File(p)] = Whole(File(p))
      BY <2>1 DEF ReadCached, Goto, CacheTypeOK, File
    <3>2. disk[File(p)] # Absent /\ WritersBut(p, File(p)) = {} /\ cachePc[p] = "looking"
      BY <2>1, <3>1 DEF ReadCached, Excused
    <3>3. ~ \E i : ToBeWritten(File(p), i)
      BY <3>2 DEF WritersBut, ToBeWritten
    <3>4. File(p) \notin interrupted
      BY <1>2, <3>1 DEF Excused
    <3>5. Whole(File(p)) \subseteq disk[File(p)]
      BY <1>3, <3>2, <3>3, <3>4 DEF FilesFilled
    <3> QED
      BY <1>3, <3>2, <3>5 DEF CacheTypeOK
  <2>2. CASE CloseWritten(p)
    BY <2>2 DEF CloseWritten, CacheTypeOK, File
  <2>3. CASE ~ReadCached(p) /\ ~CloseWritten(p)
    BY <2>3 DEF CacheMove, CacheStep, Begin, Miss, OpenToWrite, WritePart, FetchFails, Proceed,
                Stop, LeavesFiling, Goto, CacheTypeOK
  <2> QED
    BY <2>1, <2>2, <2>3
<1> QED
  BY <1>1, <1>2, <1>4 DEF TextsWhole

-----------------------------------------------------------------------------
(***************************************************************************)
(* Batches and answers                                                     *)
(***************************************************************************)

LEMMA PartOfSequence ==
    ASSUME NEW S, NEW s \in Seq(S), NEW a \in Nat \ {0}, NEW b \in Nat, b <= Len(s), a <= b
    PROVE  /\ SubSeq(s, a, b) \in Seq(S)
           /\ Len(SubSeq(s, a, b)) = b - a + 1
           /\ \A i \in 1 .. (b - a + 1) : SubSeq(s, a, b)[i] = s[a + i - 1]
<1>1. \A i \in a .. b : s[i] \in S
  BY LenProperties
<1>2. /\ SubSeq(s, a, b) \in Seq(S)
      /\ Len(SubSeq(s, a, b)) = IF a <= b THEN b - a + 1 ELSE 0
      /\ \A i \in 1 .. b - a + 1 : SubSeq(s, a, b)[i] = s[a + i - 1]
  BY <1>1, SubSeqProperties
<1> QED
  BY <1>2

\* The next batch follows the vectors, and is not empty.
LEMMA BatchIsNext ==
    ASSUME ClientsTypeOK, VectorsInStep, NEW c \in Clients, embedPc[c] \in {"ready", "waiting"}
    PROVE  /\ Batch(c) \in Seq(Texts)
           /\ Len(Batch(c)) \in 1 .. BatchSize
           /\ Len(vectors[c]) + Len(Batch(c)) <= Len(texts[c])
           /\ \A i \in 1 .. Len(Batch(c)) : Batch(c)[i] = texts[c][Len(vectors[c]) + i]
<1> DEFINE n == Len(vectors[c])
           m == Len(texts[c])
           rest == SubSeq(texts[c], n + 1, m)
<1>1. /\ texts[c] \in Seq(Texts) /\ n \in Nat /\ m \in Nat /\ n < m
      /\ BatchSize \in Nat \ {0}
  BY CallsAssumption DEF ClientsTypeOK, VectorsInStep
<1>2. /\ rest \in Seq(Texts) /\ Len(rest) = m - n
      /\ \A i \in 1 .. (m - n) : rest[i] = texts[c][n + i]
  <2> HIDE DEF n, m
  <2>1. n + 1 \in Nat \ {0} /\ n + 1 <= m /\ m <= Len(texts[c])
    BY <1>1 DEF m
  <2>2. /\ rest \in Seq(Texts) /\ Len(rest) = m - (n + 1) + 1
        /\ \A i \in 1 .. (m - (n + 1) + 1) : rest[i] = texts[c][n + 1 + i - 1]
    BY <1>1, <2>1, PartOfSequence
  <2>3. m - (n + 1) + 1 = m - n /\ \A i \in 1 .. (m - n) : n + 1 + i - 1 = n + i
    BY <1>1
  <2> QED
    BY <2>2, <2>3
<1> HIDE DEF rest, n, m
<1>3. CASE Len(rest) <= BatchSize
  <2>1. Batch(c) = rest
    BY <1>3 DEF Batch, rest, n, m
  <2> QED
    BY <1>1, <1>2, <1>3, <2>1 DEF n, m
<1>4. CASE ~(Len(rest) <= BatchSize)
  <2>1. Batch(c) = SubSeq(rest, 1, BatchSize)
    BY <1>4 DEF Batch, rest, n, m
  <2>2. /\ Batch(c) \in Seq(Texts) /\ Len(Batch(c)) = BatchSize - 1 + 1
        /\ \A i \in 1 .. (BatchSize - 1 + 1) : Batch(c)[i] = rest[1 + i - 1]
    BY <1>1, <1>2, <1>4, <2>1, PartOfSequence
  <2>3. /\ BatchSize - 1 + 1 = BatchSize /\ BatchSize < m - n
        /\ \A i \in 1 .. BatchSize : 1 + i - 1 = i
    BY <1>1, <1>2, <1>4
  <2>4. \A i \in 1 .. BatchSize : Batch(c)[i] = texts[c][n + i]
    <3>1. SUFFICES ASSUME NEW i \in 1 .. BatchSize
                   PROVE  Batch(c)[i] = texts[c][n + i]
      OBVIOUS
    <3>2. i \in 1 .. (m - n)
      BY <1>1, <2>3
    <3>3. Batch(c)[i] = rest[1 + i - 1]
      BY <2>2, <2>3
    <3> QED
      BY <1>2, <2>3, <3>2, <3>3
  <2>5. Len(Batch(c)) = BatchSize
    BY <2>2, <2>3
  <2>6. n + BatchSize <= m
    BY <1>1, <2>3
  <2> QED
    BY <1>1, <2>2, <2>4, <2>5, <2>6 DEF n, m
<1> QED
  BY <1>3, <1>4

\* The order that _parse_embedding_response puts items in.
ComesFirst(items, i, j) ==
    \/ items[i].index < items[j].index
    \/ items[i].index = items[j].index /\ i < j

\* The place of each of n items in that order.
RanksOf(rank, items, n) ==
    /\ n \in Nat /\ DOMAIN items = 1 .. n
    /\ rank \in Bijection(1 .. n, 1 .. n)
    /\ \A i, j \in 1 .. n : ComesFirst(items, i, j) <=> rank[i] < rank[j]

\* Items whose ranks are known are put each at its rank.
LEMMA ParsedByRank ==
    ASSUME NEW n, NEW items, NEW rank, RanksOf(rank, items, n)
    PROVE  \A k \in 1 .. n : \E i \in 1 .. n :
             rank[i] = k /\ Parsed(items)[k] = items[i].vector
<1> DEFINE before == {p \in (1 .. n) \X (1 .. n) :
                        \/ items[p[1]].index < items[p[2]].index
                        \/ items[p[1]].index = items[p[2]].index /\ p[1] < p[2]}
<1>0. /\ n \in Nat /\ DOMAIN items = 1 .. n /\ rank \in Bijection(1 .. n, 1 .. n)
      /\ \A i, j \in 1 .. n : ComesFirst(items, i, j) <=> rank[i] < rank[j]
  BY DEF RanksOf
<1>1. \A x, y \in 1 .. n : <<x, y>> \in before <=> rank[x] < rank[y]
  BY <1>0 DEF ComesFirst
<1>2. Parsed(items) = [k \in 1 .. n |-> items[Ordered(1 .. n, before)[k]].vector]
  BY <1>0 DEF Parsed
<1> HIDE DEF before
<1>3. \A k \in 1 .. n : Ordered(1 .. n, before)[k] \in 1 .. n /\ rank[Ordered(1 .. n, before)[k]] = k
  BY <1>0, <1>1, OrderedByRank
<1> QED
  BY <1>2, <1>3

\* Whatever the order and the indices of an answer, if it is valid its vectors are
\* those of the batch, each at its place.
LEMMA ValidAnswer ==
    ASSUME NEW input \in Seq(Texts), input # <<>>, NEW items \in Replies(input),
           Valid(Parsed(items), input)
    PROVE  Parsed(items) = input
<1> DEFINE n == Len(input)
           id == [i \in 1 .. n |-> i]
<1>1. n \in Nat \ {0} /\ DOMAIN input = 1 .. n /\ input \in [1 .. n -> Texts]
  BY EmptySeq, LenProperties
<1>2. id \in Bijection(1 .. n, 1 .. n)
  BY Fun_IsBij
<1>3. Parsed(items) = [k \in DOMAIN items |-> Parsed(items)[k]]
  BY DEF Parsed
<1>4. CASE \E o \in Injection(1 .. n, 1 .. n) :
             items = [i \in 1 .. n |-> Item(o[i] - 1, input[o[i]])]
  <2>1. PICK o \in Injection(1 .. n, 1 .. n) :
             items = [i \in 1 .. n |-> Item(o[i] - 1, input[o[i]])]
    BY <1>4
  <2>2. IsFiniteSet(1 .. n) /\ Cardinality(1 .. n) = n
    BY <1>1, FS_Interval
  <2>3. o \in Bijection(1 .. n, 1 .. n)
    BY <2>2, FS_Injection DEF Bijection
  <2>4. o \in [1 .. n -> 1 .. n] /\ \A i, j \in 1 .. n : o[i] = o[j] => i = j
    BY <2>1 DEF Injection, IsInjective
  <2>5. \A i \in 1 .. n : items[i].index = o[i] - 1 /\ items[i].vector = input[o[i]]
    BY <2>1 DEF Item
  <2>6. \A i, j \in 1 .. n : ComesFirst(items, i, j) <=> o[i] < o[j]
    BY <2>4, <2>5 DEF ComesFirst
  <2>7. \A k \in 1 .. n : \E i \in 1 .. n : o[i] = k /\ Parsed(items)[k] = items[i].vector
    <3>1. DOMAIN items = 1 .. n
      BY <2>1
    <3>2. n \in Nat
      BY <1>1
    <3>3. RanksOf(o, items, n)
      BY <2>3, <2>6, <3>1, <3>2 DEF RanksOf
    <3> HIDE DEF n
    <3> QED
      BY <3>3, ParsedByRank
  <2>8. \A k \in 1 .. n : Parsed(items)[k] = input[k]
    <3>1. ASSUME NEW k \in 1 .. n PROVE Parsed(items)[k] = input[k]
      <4>1. PICK i \in 1 .. n : o[i] = k /\ Parsed(items)[k] = items[i].vector
        BY <2>7
      <4> QED
        BY <2>5, <4>1
    <3> QED
      BY <3>1
  <2> QED
    BY <1>1, <1>3, <2>1, <2>8
<1>5. CASE items = [i \in 1 .. n |-> Item(0, input[i])]
  <2>1. \A i \in 1 .. n : items[i].index = 0 /\ items[i].vector = input[i]
    BY <1>5 DEF Item
  <2>2. \A i, j \in 1 .. n : ComesFirst(items, i, j) <=> id[i] < id[j]
    BY <2>1 DEF ComesFirst
  <2>3. \A k \in 1 .. n : Parsed(items)[k] = items[k].vector
    <3>1. DOMAIN items = 1 .. n
      BY <1>5
    <3>0. n \in Nat
      BY <1>1
    <3> HIDE DEF id, n
    <3>2. RanksOf(id, items, n)
      BY <1>2, <2>2, <3>0, <3>1 DEF RanksOf
    <3>3. \A k \in 1 .. n : \E i \in 1 .. n : id[i] = k /\ Parsed(items)[k] = items[i].vector
      BY <3>2, ParsedByRank
    <3> QED
      BY <3>3 DEF id, n
  <2>4. \A k \in 1 .. n : Parsed(items)[k] = input[k]
    BY <2>1, <2>3
  <2> QED
    BY <1>1, <1>3, <1>5, <2>4
<1>6. CASE items = [i \in 1 .. (n - 1) |-> Item(i - 1, input[i])]
  <2>1. Len(Parsed(items)) = n - 1
    BY <1>1, <1>3, <1>6
  <2> QED
    BY <1>1, <2>1 DEF Valid
<1>7. CASE items = [i \in 1 .. n |-> Item(i - 1, IF i = 1 THEN Wrong ELSE input[i])]
  <2>1. \A i \in 1 .. n : items[i].index = i - 1
    BY <1>7 DEF Item
  <2>2. \A i, j \in 1 .. n : ComesFirst(items, i, j) <=> id[i] < id[j]
    BY <2>1 DEF ComesFirst
  <2>3. \A k \in 1 .. n : Parsed(items)[k] = items[k].vector
    <3>1. DOMAIN items = 1 .. n
      BY <1>7
    <3>0. n \in Nat
      BY <1>1
    <3> HIDE DEF id, n
    <3>2. RanksOf(id, items, n)
      BY <1>2, <2>2, <3>0, <3>1 DEF RanksOf
    <3>3. \A k \in 1 .. n : \E i \in 1 .. n : id[i] = k /\ Parsed(items)[k] = items[i].vector
      BY <3>2, ParsedByRank
    <3> QED
      BY <3>3 DEF id, n
  <2>4. Parsed(items)[1] = Wrong
    <3>1. 1 \in 1 .. n
      BY <1>1
    <3>2. items[1].vector = Wrong
      BY <1>7, <3>1 DEF Item
    <3> QED
      BY <2>3, <3>1, <3>2
  <2> QED
    BY <1>1, <1>3, <1>7, <2>4 DEF Valid
<1> QED
  BY <1>1, <1>4, <1>5, <1>6, <1>7 DEF Replies

-----------------------------------------------------------------------------
(***************************************************************************)
(* The embedding client                                                    *)
(***************************************************************************)

\* What the client's part of any step keeps.
CallsFine == ClientsTypeOK /\ VectorsInStep

LEMMA EmptyTexts == <<>> \in Seq(Texts) /\ Len(<<>>) = 0
  BY EmptySeq

\* A failed attempt.
LEMMA AttemptFailsKeeps ==
    ASSUME ClientsTypeOK, VectorsInStep, NEW c \in Clients,
           embedPc[c] \in {"ready", "waiting"}, AttemptFails(c)
    PROVE  /\ ClientsTypeOK' /\ VectorsInStep' /\ texts' = texts
           /\ embedPc'[c] # "idle" /\ \A d \in Clients \ {c} : embedPc'[d] = embedPc[d]
<1>1. /\ attempt[c] \in Nat /\ attempt[c] < Attempts /\ Attempts \in Nat \ {0}
      /\ \A d \in Clients : Len(vectors[d]) \in Nat /\ Len(texts[d]) \in Nat
  BY CallsAssumption DEF ClientsTypeOK, VectorsInStep
<1>2. attempt[c] + 1 \in 0 .. Attempts
  BY <1>1
<1>3. attempt' \in [Clients -> 0 .. Attempts] /\ attempt'[c] = attempt[c] + 1
  BY <1>2 DEF AttemptFails, ClientsTypeOK
<1>4. CASE attempt[c] + 1 < Attempts
  <2>1. /\ embedPc' = [embedPc EXCEPT ![c] = "ready"] /\ vectors' = vectors /\ texts' = texts
        /\ attempt' = [attempt EXCEPT ![c] = @ + 1]
    BY <1>4 DEF AttemptFails
  <2>2. ClientsTypeOK'
    BY <1>3, <2>1 DEF ClientsTypeOK
  <2>3. VectorsInStep'
    BY <1>1, <1>3, <1>4, <2>1 DEF VectorsInStep, ClientsTypeOK
  <2> QED
    BY <1>1, <2>1, <2>2, <2>3 DEF ClientsTypeOK
<1>5. CASE ~(attempt[c] + 1 < Attempts)
  <2>1. /\ embedPc' = [embedPc EXCEPT ![c] = "gaveUp"] /\ texts' = texts
        /\ vectors' = [vectors EXCEPT ![c] = <<>>]
        /\ attempt' = [attempt EXCEPT ![c] = @ + 1]
    BY <1>5 DEF AttemptFails
  <2>2. ClientsTypeOK'
    BY <1>3, <2>1, EmptyTexts DEF ClientsTypeOK
  <2>3. vectors'[c] = <<>> /\ \A d \in Clients \ {c} : vectors'[d] = vectors[d]
    BY <2>1 DEF ClientsTypeOK
  <2>4. VectorsInStep'
    BY <1>1, <2>1, <2>3, EmptyTexts DEF VectorsInStep, ClientsTypeOK
  <2> QED
    BY <1>1, <2>1, <2>2, <2>3, <2>4, EmptyTexts DEF ClientsTypeOK
<1> QED
  BY <1>4, <1>5

\* A usable answer adds the next texts' vectors.
LEMMA AcceptKeeps ==
    ASSUME ClientsTypeOK, VectorsInStep, NEW c \in Clients,
           embedPc[c] = "waiting", Accept(c, Batch(c))
    PROVE  /\ ClientsTypeOK' /\ VectorsInStep' /\ texts' = texts
           /\ embedPc'[c] # "idle"
           /\ \A d \in Clients \ {c} : embedPc'[d] = embedPc[d]
<1> DEFINE n == Len(vectors[c])
           b == Len(Batch(c))
           both == vectors[c] \o Batch(c)
<1>1. /\ n \in Nat /\ Len(texts[c]) \in Nat /\ vectors[c] \in Seq(Texts)
      /\ BatchSize \in Nat \ {0} /\ Attempts \in Nat \ {0}
      /\ \A k \in 1 .. n : vectors[c][k] = texts[c][k]
  BY CallsAssumption DEF ClientsTypeOK, VectorsInStep
<1>2. /\ Batch(c) \in Seq(Texts) /\ b \in 1 .. BatchSize /\ n + b <= Len(texts[c])
      /\ \A i \in 1 .. b : Batch(c)[i] = texts[c][n + i]
  BY BatchIsNext
<1>3. /\ both \in Seq(Texts) /\ Len(both) = n + b
      /\ \A k \in 1 .. (n + b) : both[k] = IF k <= n THEN vectors[c][k] ELSE Batch(c)[k - n]
  BY <1>1, <1>2, ConcatProperties
<1>4. \A k \in 1 .. (n + b) : both[k] = texts[c][k]
  <2>1. SUFFICES ASSUME NEW k \in 1 .. (n + b)
                 PROVE  both[k] = texts[c][k]
    OBVIOUS
  <2> HIDE DEF n, b, both
  <2>2. CASE k <= n
    BY <1>1, <1>3, <2>2
  <2>3. CASE ~(k <= n)
    <3>1. k - n \in 1 .. b /\ n + (k - n) = k
      BY <1>1, <1>2, <2>3
    <3> QED
      BY <1>2, <1>3, <2>3, <3>1
  <2> QED
    BY <2>2, <2>3
<1>5. /\ vectors' = [vectors EXCEPT ![c] = both] /\ texts' = texts
      /\ attempt' = [attempt EXCEPT ![c] = 0]
      /\ embedPc' = [embedPc EXCEPT ![c] = IF Len(both) < Len(texts[c]) THEN "ready" ELSE "embedded"]
  BY DEF Accept
<1>6. /\ vectors'[c] = both /\ attempt'[c] = 0
      /\ embedPc'[c] = IF Len(both) < Len(texts[c]) THEN "ready" ELSE "embedded"
      /\ \A d \in Clients \ {c} :
           embedPc'[d] = embedPc[d] /\ vectors'[d] = vectors[d] /\ attempt'[d] = attempt[d]
  BY <1>5 DEF ClientsTypeOK
<1> HIDE DEF n, b, both
<1>7. ClientsTypeOK'
  <2>1. vectors' \in [Clients -> Seq(Texts)]
    BY <1>3, <1>5 DEF ClientsTypeOK
  <2>2. attempt' \in [Clients -> 0 .. Attempts]
    BY <1>1, <1>5 DEF ClientsTypeOK
  <2> QED
    BY <1>5, <2>1, <2>2 DEF ClientsTypeOK
<1>8. Len(both) <= Len(texts[c])
  BY <1>1, <1>2, <1>3
<1>9. VectorsInStep'
  <2>1. ASSUME NEW d \in Clients \ {c}
        PROVE  /\ Len(vectors'[d]) <= Len(texts'[d])
               /\ \A k \in 1 .. Len(vectors'[d]) : vectors'[d][k] = texts'[d][k]
               /\ embedPc'[d] \in {"ready", "waiting"} => Len(vectors'[d]) < Len(texts'[d])
               /\ embedPc'[d] \in {"ready", "waiting"} => attempt'[d] < Attempts
               /\ embedPc'[d] = "embedded" => Len(vectors'[d]) = Len(texts'[d])
               /\ embedPc'[d] = "idle" => texts'[d] = <<>>
    BY <1>5, <1>6 DEF VectorsInStep
  <2>2. /\ Len(vectors'[c]) <= Len(texts'[c])
        /\ \A k \in 1 .. Len(vectors'[c]) : vectors'[c][k] = texts'[c][k]
        /\ embedPc'[c] \in {"ready", "waiting"} => Len(vectors'[c]) < Len(texts'[c])
        /\ embedPc'[c] \in {"ready", "waiting"} => attempt'[c] < Attempts
        /\ embedPc'[c] = "embedded" => Len(vectors'[c]) = Len(texts'[c])
        /\ embedPc'[c] # "idle"
    <3>1. Len(both) \in Nat /\ ~(Len(both) < Len(texts[c])) => Len(both) = Len(texts[c])
      BY <1>1, <1>2, <1>3, <1>8
    <3> QED
      BY <1>1, <1>3, <1>4, <1>5, <1>6, <1>8, <3>1
  <2> QED
    BY <2>1, <2>2 DEF VectorsInStep
<1> QED
  BY <1>5, <1>6, <1>7, <1>9

\* One attempt, whatever becomes of it.
LEMMA EmbedKeeps ==
    ASSUME CallsFine, NEW c \in Clients, Embed(c)
    PROVE  /\ CallsFine' /\ texts' = texts
           /\ embedPc[c] # "idle" /\ embedPc'[c] # "idle"
           /\ \A d \in Clients \ {c} : embedPc'[d] = embedPc[d]
<1>1. ClientsTypeOK /\ VectorsInStep
  BY DEF CallsFine
<1>2. CASE Post(c)
  <2>1. /\ embedPc[c] = "ready" /\ embedPc' = [embedPc EXCEPT ![c] = "waiting"]
        /\ UNCHANGED <<texts, vectors, attempt>>
    BY <1>2 DEF Post
  <2>2. ClientsTypeOK'
    BY <1>1, <2>1 DEF ClientsTypeOK
  <2>3. VectorsInStep'
    BY <1>1, <2>1 DEF VectorsInStep, ClientsTypeOK
  <2> QED
    BY <1>1, <2>1, <2>2, <2>3 DEF CallsFine, ClientsTypeOK
<1>3. ASSUME embedPc[c] \in {"ready", "waiting"}, AttemptFails(c)
      PROVE  /\ CallsFine' /\ texts' = texts
             /\ embedPc[c] # "idle" /\ embedPc'[c] # "idle"
             /\ \A d \in Clients \ {c} : embedPc'[d] = embedPc[d]
  <2>1. /\ ClientsTypeOK' /\ VectorsInStep' /\ texts' = texts
        /\ embedPc'[c] # "idle" /\ \A d \in Clients \ {c} : embedPc'[d] = embedPc[d]
    BY <1>1, <1>3, AttemptFailsKeeps
  <2> QED
    BY <1>3, <2>1 DEF CallsFine
<1>4. CASE PostFails(c)
  BY <1>3, <1>4 DEF PostFails
<1>5. CASE TimesOut(c)
  BY <1>3, <1>5 DEF TimesOut
<1>6. CASE AnswerFails(c)
  BY <1>3, <1>6 DEF AnswerFails
<1>7. CASE Answer(c)
  <2>1. embedPc[c] = "waiting"
    BY <1>7 DEF Answer
  <2>2. PICK items \in Replies(Batch(c)) :
          IF Valid(Parsed(items), Batch(c)) THEN Accept(c, Parsed(items)) ELSE AttemptFails(c)
    BY <1>7 DEF Answer
  <2>3. CASE Valid(Parsed(items), Batch(c))
    <3>1. Batch(c) \in Seq(Texts) /\ Batch(c) # <<>>
      <4>1. Batch(c) \in Seq(Texts) /\ Len(Batch(c)) \in 1 .. BatchSize
        BY <1>1, <2>1, BatchIsNext
      <4> QED
        BY <4>1, EmptyTexts
    <3>2. Accept(c, Batch(c))
      BY <2>2, <2>3, <3>1, ValidAnswer
    <3>3. /\ ClientsTypeOK' /\ VectorsInStep' /\ texts' = texts
          /\ embedPc'[c] # "idle"
          /\ \A d \in Clients \ {c} : embedPc'[d] = embedPc[d]
      BY <1>1, <2>1, <3>2, AcceptKeeps
    <3> QED
      BY <2>1, <3>3 DEF CallsFine
  <2>4. CASE ~Valid(Parsed(items), Batch(c))
    BY <1>3, <2>1, <2>2, <2>4
  <2> QED
    BY <2>3, <2>4
<1> QED
  BY <1>2, <1>4, <1>5, <1>6, <1>7 DEF Embed

\* The end of a call of embed_texts.
LEMMA IdleKeeps ==
    ASSUME CallsFine, NEW c \in Clients, EmbedderIdle(c)
    PROVE  /\ CallsFine' /\ embedPc'[c] = "idle"
           /\ \A d \in Clients \ {c} : embedPc'[d] = embedPc[d] /\ texts'[d] = texts[d]
<1>1. ClientsTypeOK /\ VectorsInStep
  BY DEF CallsFine
<1>2. /\ embedPc' = [embedPc EXCEPT ![c] = "idle"] /\ texts' = [texts EXCEPT ![c] = <<>>]
      /\ vectors' = [vectors EXCEPT ![c] = <<>>] /\ attempt' = [attempt EXCEPT ![c] = 0]
  BY DEF EmbedderIdle
<1>3. ClientsTypeOK'
  BY <1>1, <1>2, EmptyTexts, CallsAssumption DEF ClientsTypeOK
<1>4. /\ embedPc'[c] = "idle" /\ texts'[c] = <<>> /\ vectors'[c] = <<>>
      /\ \A d \in Clients \ {c} : /\ embedPc'[d] = embedPc[d] /\ texts'[d] = texts[d]
                                  /\ vectors'[d] = vectors[d] /\ attempt'[d] = attempt[d]
  BY <1>1, <1>2 DEF ClientsTypeOK
<1>5. VectorsInStep'
  BY <1>1, <1>4, EmptyTexts DEF VectorsInStep
<1> QED
  BY <1>3, <1>4, <1>5 DEF CallsFine

\* The start of one.
LEMMA StartKeeps ==
    ASSUME CallsFine, NEW c \in Clients, NEW ts \in Seq(Texts), ts # <<>>, StartEmbedding(c, ts)
    PROVE  /\ CallsFine' /\ embedPc'[c] # "idle" /\ texts'[c] = ts
           /\ \A d \in Clients \ {c} : embedPc'[d] = embedPc[d] /\ texts'[d] = texts[d]
<1>1. ClientsTypeOK /\ VectorsInStep
  BY DEF CallsFine
<1>2. /\ embedPc' = [embedPc EXCEPT ![c] = "ready"] /\ texts' = [texts EXCEPT ![c] = ts]
      /\ vectors' = [vectors EXCEPT ![c] = <<>>] /\ attempt' = [attempt EXCEPT ![c] = 0]
  BY DEF StartEmbedding
<1>3. ClientsTypeOK'
  BY <1>1, <1>2, EmptyTexts, CallsAssumption DEF ClientsTypeOK
<1>4. /\ embedPc'[c] = "ready" /\ texts'[c] = ts /\ vectors'[c] = <<>> /\ attempt'[c] = 0
      /\ \A d \in Clients \ {c} : /\ embedPc'[d] = embedPc[d] /\ texts'[d] = texts[d]
                                  /\ vectors'[d] = vectors[d] /\ attempt'[d] = attempt[d]
  BY <1>1, <1>2 DEF ClientsTypeOK
<1>5. VectorsInStep'
  <2>1. Len(ts) \in Nat \ {0} /\ Attempts \in Nat \ {0}
    BY EmptySeq, CallsAssumption
  <2> QED
    BY <1>1, <1>4, <2>1, EmptyTexts DEF VectorsInStep
<1> QED
  BY <1>3, <1>4, <1>5 DEF CallsFine

-----------------------------------------------------------------------------
(***************************************************************************)
(* Files, calls and rows together                                          *)
(***************************************************************************)

LEMMA InitFine == AcquisitionInit => AcquisitionIInv
<1> SUFFICES ASSUME AcquisitionInit PROVE AcquisitionIInv
  OBVIOUS
<1>1. /\ disk = [f \in FileSet |-> Absent] /\ cachePc = [p \in Procs |-> "idle"]
      /\ wanted = [p \in Procs |-> 1] /\ written = [p \in Procs |-> 0]
      /\ text = [p \in Procs |-> {}] /\ interrupted = {} /\ readEarly = {}
      /\ embedPc = [c \in Clients |-> "idle"] /\ texts = [c \in Clients |-> <<>>]
      /\ vectors = [c \in Clients |-> <<>>] /\ attempt = [c \in Clients |-> 0]
      /\ stored = {}
  BY DEF AcquisitionInit, CacheInit, CallsInit
<1>2. Len(Files) \in Nat \ {0}
  BY FilesType
<1>3. CacheTypeOK
  BY <1>1, <1>2, FS_EmptySet DEF CacheTypeOK
<1>4. ClientsTypeOK
  BY <1>1, EmptyTexts, CallsAssumption DEF ClientsTypeOK
<1>5. FilesFilled /\ TextsWhole
  BY <1>1 DEF FilesFilled, TextsWhole
<1>6. CallsWithinFiling
  BY <1>1, SameProcesses DEF CallsWithinFiling
<1>7. VectorsInStep
  BY <1>1, EmptyTexts DEF VectorsInStep
<1>8. VectorsMatchTexts
  BY <1>1 DEF VectorsMatchTexts
<1>9. PassedStored
  BY <1>1, <1>2 DEF PassedStored
<1> QED
  BY <1>1, <1>3, <1>4, <1>5, <1>6, <1>7, <1>8, <1>9
     DEF AcquisitionIInv, AcquisitionTypeOK

\* A step of the files that does not touch the call under way.
LEMMA FilesStepKeeps ==
    ASSUME AcquisitionIInv, NEW p \in Procs, CacheMove(p), CallsFine', stored \subseteq stored',
           VectorsMatchTexts', stored' \subseteq [text : Texts, vector : Texts],
           \A q \in Procs \ {p} : embedPc'[q] = embedPc[q] /\ texts'[q] = texts[q],
           embedPc'[p] = "idle",
           \* The process passes a filing only with all of its text stored.
           cachePc[p] = "text" /\ (cachePc'[p] = "ended" \/ wanted'[p] > wanted[p]) =>
             File(p) = TickerMap \/ \A i \in text[p] : <<File(p), i>> \in StoredTexts'
    PROVE  AcquisitionIInv'
<1>1. CacheTypeOK /\ FilesFilled /\ TextsWhole /\ CallsWithinFiling /\ PassedStored
  BY DEF AcquisitionIInv, AcquisitionTypeOK
<1>2. CacheTypeOK' /\ FilesFilled' /\ TextsWhole' /\ Excused \subseteq Excused'
  BY <1>1, CacheTypeKept, FilledKept, TextsKept, MoveOfOne
<1>3. \A q \in Procs \ {p} : /\ cachePc'[q] = cachePc[q] /\ wanted'[q] = wanted[q]
                             /\ text'[q] = text[q]
  BY <1>1, MoveOfOne
<1>4. StoredTexts \subseteq StoredTexts'
  BY DEF StoredTexts
<1>5. CallsWithinFiling'
  <2>1. ASSUME NEW q \in Procs, embedPc'[q] # "idle"
        PROVE  /\ cachePc'[q] = "text" /\ File(q)' # TickerMap
               /\ \A i \in text'[q] :
                    <<File(q)', i>> \in StoredTexts' \cup {texts'[q][k] : k \in DOMAIN texts'[q]}
    <3>1. q # p
      BY <2>1
    <3>2. /\ embedPc'[q] = embedPc[q] /\ texts'[q] = texts[q] /\ cachePc'[q] = cachePc[q]
          /\ File(q)' = File(q) /\ text'[q] = text[q]
      BY <1>3, <3>1 DEF File
    <3> QED
      BY <1>1, <1>4, <2>1, <3>2 DEF CallsWithinFiling
  <2> QED
    BY <2>1 DEF CallsWithinFiling
<1>6. PassedStored'
  <2>1. SUFFICES ASSUME NEW q \in Procs, NEW k \in 2 .. Len(Files),
                        k < wanted'[q] \/ cachePc'[q] = "ended", Files[k] \notin Excused'
                 PROVE  {Files[k]} \X Whole(Files[k]) \subseteq StoredTexts'
    BY DEF PassedStored
  <2>2. Files[k] \notin Excused
    BY <1>2, <2>1
  <2>3. CASE k < wanted[q] \/ cachePc[q] = "ended"
    BY <1>1, <1>4, <2>2, <2>3 DEF PassedStored
  <2>4. CASE ~(k < wanted[q] \/ cachePc[q] = "ended")
    <3>1. q = p
      BY <1>3, <2>1, <2>4
    <3>2. wanted[p] \in 1 .. Len(Files) /\ k \in Nat /\ Len(Files) \in Nat
      BY <1>1, FilesType DEF CacheTypeOK
    \* Only Proceed gets that far, and by one filing.
    <3>3. cachePc[p] = "text" /\ k = wanted[p] /\ (cachePc'[p] = "ended" \/ wanted'[p] > wanted[p])
      <4>1. CASE Proceed(p)
        <5>1. CASE wanted[p] < Len(Files)
          <6>1. cachePc'[p] = "looking" /\ wanted'[p] = wanted[p] + 1 /\ cachePc[p] = "text"
            BY <1>1, <4>1, <5>1 DEF Proceed, Goto, CacheTypeOK
          <6> QED
            BY <2>1, <2>4, <3>1, <3>2, <6>1
        <5>2. CASE ~(wanted[p] < Len(Files))
          <6>1. cachePc'[p] = "ended" /\ wanted'[p] = wanted[p] /\ cachePc[p] = "text"
            BY <1>1, <4>1, <5>2 DEF Proceed, Goto, CacheTypeOK
          <6> QED
            BY <2>1, <2>4, <3>1, <3>2, <5>2, <6>1
        <5> QED
          BY <5>1, <5>2
      <4>2. CASE Begin(p)
        <5>1. wanted'[p] = 1 /\ cachePc'[p] = "looking"
          BY <1>1, <4>2 DEF Begin, Goto, CacheTypeOK
        <5> QED
          BY <2>1, <3>1, <3>2, <5>1
      <4>3. CASE CacheStep(p) \/ Stop(p) \/ LeavesFiling(p)
        <5>1. wanted'[p] = wanted[p] /\ (cachePc'[p] = "ended" => cachePc[p] = "ended")
          BY <1>1, <4>3 DEF CacheStep, ReadCached, Miss, OpenToWrite, WritePart, CloseWritten,
                            FetchFails, Stop, LeavesFiling, Goto, CacheTypeOK
        <5> QED
          BY <2>1, <2>4, <3>1, <5>1
      <4> QED
        BY <4>1, <4>2, <4>3 DEF CacheMove
    <3>4. File(p) = Files[k] /\ File(p) # TickerMap
      BY <3>3, FilesType DEF File
    <3>5. text[p] = Whole(File(p))
      BY <1>1, <2>2, <3>3, <3>4 DEF TextsWhole
    <3> QED
      BY <3>3, <3>4, <3>5
  <2> QED
    BY <2>3, <2>4
<1> QED
  BY <1>2, <1>5, <1>6 DEF AcquisitionIInv, AcquisitionTypeOK, CallsFine

\* A step of the calls that leaves the files and the rows alone.
LEMMA CallsStepKeeps ==
    ASSUME AcquisitionIInv, CallsFine', UNCHANGED <<cacheVars, stored>>, CallsWithinFiling'
    PROVE  AcquisitionIInv'
<1>1. /\ disk' = disk /\ cachePc' = cachePc /\ wanted' = wanted /\ written' = written
      /\ text' = text /\ interrupted' = interrupted /\ readEarly' = readEarly /\ stored' = stored
  BY DEF cacheVars
<1>2. CacheTypeOK' /\ VectorsMatchTexts' /\ stored' \subseteq [text : Texts, vector : Texts]
  BY <1>1 DEF AcquisitionIInv, AcquisitionTypeOK, CacheTypeOK, VectorsMatchTexts
<1>3. FilesFilled'
  BY <1>1 DEF AcquisitionIInv, FilesFilled, ToBeWritten, File
<1>4. TextsWhole' /\ PassedStored'
  BY <1>1 DEF AcquisitionIInv, TextsWhole, PassedStored, Excused, StoredTexts, File
<1> QED
  BY <1>2, <1>3, <1>4 DEF AcquisitionIInv, AcquisitionTypeOK, CallsFine

LEMMA CallsUnchanged ==
    ASSUME CallsFine, UNCHANGED callsVars
    PROVE  CallsFine' /\ embedPc' = embedPc /\ texts' = texts
  BY DEF CallsFine, ClientsTypeOK, VectorsInStep, callsVars

\* The chunks of a filing that are not stored yet are all embedded, in their order.
LEMMA ChunkFilingKeeps ==
    ASSUME AcquisitionIInv, CallsFine, NEW p \in Procs, ChunkFiling(p)
    PROVE  AcquisitionIInv'
<1> DEFINE new == {i \in text[p] : <<File(p), i>> \notin StoredTexts}
           order == Ascending(new)
           ts == [k \in DOMAIN order |-> <<File(p), order[k]>>]
<1>1. /\ cachePc[p] = "text" /\ File(p) # TickerMap /\ embedPc[p] = "idle" /\ stored' = stored
      /\ IF new = {} THEN Proceed(p) /\ UNCHANGED callsVars
                     ELSE StartEmbedding(p, ts) /\ UNCHANGED cacheVars
  BY DEF ChunkFiling
<1>2. /\ CacheTypeOK /\ CallsWithinFiling /\ FilesFilled /\ VectorsMatchTexts
      /\ stored \subseteq [text : Texts, vector : Texts] /\ p \in Clients
  BY SameProcesses DEF AcquisitionIInv, AcquisitionTypeOK
<1>3. CASE new = {}
  <2>1. CallsFine' /\ embedPc' = embedPc /\ texts' = texts /\ Proceed(p)
    BY <1>1, <1>3, CallsUnchanged
  <2>2. VectorsMatchTexts' /\ StoredTexts' = StoredTexts
    BY <1>1, <1>2 DEF VectorsMatchTexts, StoredTexts
  <2>3. \A i \in text[p] : <<File(p), i>> \in StoredTexts'
    BY <1>3, <2>2
  <2> QED
    BY <1>1, <1>2, <2>1, <2>2, <2>3, FilesStepKeeps DEF CacheMove
<1>4. CASE new # {}
  <2>1. File(p) \in FileSet /\ text[p] \in SUBSET Nat
    BY <1>2, FileType DEF CacheTypeOK
  <2>2. IsFiniteSet(new)
    <3>1. IsFiniteSet(text[p]) /\ new \subseteq text[p]
      BY <1>2 DEF CacheTypeOK
    <3> QED
      BY <3>1, FS_Subset
  <2>3. /\ Cardinality(new) \in Nat
        /\ order \in [1 .. Cardinality(new) -> new]
        /\ \A x \in new : \E k \in 1 .. Cardinality(new) : order[k] = x
    BY <2>1, <2>2, AscendingLists
  <2> HIDE DEF order, new
  <2>4. ts \in [1 .. Cardinality(new) -> Texts] /\ DOMAIN ts = 1 .. Cardinality(new)
    BY <2>1, <2>3 DEF Texts, new
  <2>5. ts \in Seq(Texts)
    BY <2>3, <2>4
  <2>6. ts # <<>>
    BY <1>4, <2>3, <2>4
  <2>7. /\ CallsFine' /\ embedPc'[p] # "idle" /\ texts'[p] = ts
        /\ \A d \in Clients \ {p} : embedPc'[d] = embedPc[d] /\ texts'[d] = texts[d]
    BY <1>1, <1>2, <1>4, <2>5, <2>6, StartKeeps
  <2>8. /\ cachePc' = cachePc /\ wanted' = wanted /\ text' = text /\ StoredTexts' = StoredTexts
        /\ UNCHANGED cacheVars
    BY <1>1, <1>4 DEF cacheVars, StoredTexts
  <2>9. CallsWithinFiling'
    <3>1. ASSUME NEW i \in text[p]
          PROVE  <<File(p), i>> \in StoredTexts \cup {ts[k] : k \in DOMAIN ts}
      <4>1. CASE i \in new
        BY <2>3, <2>4, <4>1
      <4>2. CASE i \notin new
        BY <4>2 DEF new
      <4> QED
        BY <4>1, <4>2
    <3>2. \A q \in Procs : File(q)' = File(q)
      BY <2>8 DEF File
    <3>3. ASSUME NEW q \in Procs, embedPc'[q] # "idle"
          PROVE  /\ cachePc'[q] = "text" /\ File(q)' # TickerMap
                 /\ \A i \in text'[q] :
                      <<File(q)', i>> \in StoredTexts' \cup {texts'[q][k] : k \in DOMAIN texts'[q]}
      <4>1. CASE q = p
        BY <1>1, <2>7, <2>8, <3>1, <3>2, <4>1
      <4>2. CASE q # p
        <5>1. embedPc'[q] = embedPc[q] /\ texts'[q] = texts[q]
          BY <2>7, <4>2, SameProcesses
        <5> QED
          BY <1>2, <2>8, <3>2, <3>3, <5>1 DEF CallsWithinFiling
      <4> QED
        BY <4>1, <4>2
    <3> QED
      BY <3>3 DEF CallsWithinFiling
  <2> QED
    BY <1>1, <2>7, <2>8, <2>9, CallsStepKeeps
<1> QED
  BY <1>3, <1>4

\* What is stored is what was embedded.
LEMMA StoreFilingKeeps ==
    ASSUME AcquisitionIInv, CallsFine, NEW p \in Procs, StoreFiling(p)
    PROVE  AcquisitionIInv'
<1>1. /\ embedPc[p] = "embedded" /\ Proceed(p) /\ EmbedderIdle(p)
      /\ stored' = stored \cup {[text |-> texts[p][i], vector |-> vectors[p][i]] : i \in DOMAIN texts[p]}
  BY DEF StoreFiling
<1>2. /\ CallsWithinFiling /\ VectorsMatchTexts /\ p \in Clients
      /\ stored \subseteq [text : Texts, vector : Texts]
      /\ ClientsTypeOK /\ VectorsInStep
  BY SameProcesses DEF AcquisitionIInv, AcquisitionTypeOK
<1>3. /\ texts[p] \in Seq(Texts) /\ DOMAIN texts[p] = 1 .. Len(texts[p])
      /\ \A i \in DOMAIN texts[p] : vectors[p][i] = texts[p][i] /\ texts[p][i] \in Texts
  <2>1. texts[p] \in Seq(Texts) /\ Len(vectors[p]) = Len(texts[p])
    BY <1>1, <1>2 DEF ClientsTypeOK, VectorsInStep
  <2>2. DOMAIN texts[p] = 1 .. Len(texts[p]) /\ \A i \in 1 .. Len(texts[p]) : texts[p][i] \in Texts
    BY <2>1
  <2> QED
    BY <1>2, <2>1, <2>2 DEF VectorsInStep
<1>4. /\ CallsFine' /\ embedPc'[p] = "idle"
      /\ \A d \in Clients \ {p} : embedPc'[d] = embedPc[d] /\ texts'[d] = texts[d]
  BY <1>1, <1>2, IdleKeeps
<1>5. \A s \in stored' : s \in [text : Texts, vector : Texts] /\ s.vector = s.text
  BY <1>1, <1>2, <1>3 DEF VectorsMatchTexts
<1>6. StoredTexts' = StoredTexts \cup {texts[p][k] : k \in DOMAIN texts[p]}
  <2> DEFINE rows == {[text |-> texts[p][i], vector |-> vectors[p][i]] : i \in DOMAIN texts[p]}
  <2>1. stored' = stored \cup rows
    BY <1>1
  <2>2. {s.text : s \in rows} = {texts[p][k] : k \in DOMAIN texts[p]}
    <3>1. ASSUME NEW x
          PROVE  x \in {s.text : s \in rows} <=> x \in {texts[p][k] : k \in DOMAIN texts[p]}
      <4>1. x \in {s.text : s \in rows} <=> \E s \in rows : x = s.text
        OBVIOUS
      <4>2. ASSUME NEW s \in rows, x = s.text
            PROVE  \E k \in DOMAIN texts[p] : x = texts[p][k]
        <5>1. PICK k \in DOMAIN texts[p] : s = [text |-> texts[p][k], vector |-> vectors[p][k]]
          OBVIOUS
        <5> QED
          BY <4>2, <5>1
      <4>3. ASSUME NEW k \in DOMAIN texts[p], x = texts[p][k]
            PROVE  \E s \in rows : x = s.text
        <5>1. [text |-> texts[p][k], vector |-> vectors[p][k]] \in rows
          OBVIOUS
        <5>2. [text |-> texts[p][k], vector |-> vectors[p][k]].text = x
          BY <4>3
        <5> HIDE DEF rows
        <5> QED
          BY <5>1, <5>2
      <4> QED
        BY <4>1, <4>2, <4>3
    <3> QED
      BY <3>1
  <2>3. {s.text : s \in stored \cup rows} = {s.text : s \in stored} \cup {s.text : s \in rows}
    <3> HIDE DEF rows
    <3> QED
      OBVIOUS
  <2> QED
    BY <2>1, <2>2, <2>3 DEF StoredTexts
<1>7. \A i \in text[p] : <<File(p), i>> \in StoredTexts'
  BY <1>1, <1>2, <1>6 DEF CallsWithinFiling
<1>8. VectorsMatchTexts' /\ stored' \subseteq [text : Texts, vector : Texts] /\ stored \subseteq stored'
  BY <1>1, <1>5 DEF VectorsMatchTexts
<1> QED
  BY <1>1, <1>4, <1>7, <1>8, SameProcesses, FilesStepKeeps DEF CacheMove

LEMMA AcquisitionKeeps ==
    ASSUME AcquisitionIInv, [AcquisitionNext]_acquisitionVars
    PROVE  AcquisitionIInv'
<1>1. /\ CacheTypeOK /\ CallsWithinFiling /\ VectorsMatchTexts /\ CallsFine
      /\ stored \subseteq [text : Texts, vector : Texts]
  BY DEF AcquisitionIInv, AcquisitionTypeOK, CallsFine
<1>2. ASSUME stored' = stored
      PROVE  /\ VectorsMatchTexts' /\ stored \subseteq stored' /\ StoredTexts' = StoredTexts
             /\ stored' \subseteq [text : Texts, vector : Texts]
  BY <1>1, <1>2 DEF VectorsMatchTexts, StoredTexts
\* The steps of the files alone: no call is under way.
<1>3. ASSUME NEW p \in Procs, Begin(p) \/ CacheStep(p) \/ TakeTickers(p),
             UNCHANGED <<callsVars, stored>>
      PROVE  AcquisitionIInv'
  <2>1. CallsFine' /\ embedPc' = embedPc /\ texts' = texts /\ stored' = stored
    BY <1>1, <1>3, CallsUnchanged
  <2>2. CacheMove(p)
    BY <1>3 DEF CacheMove, TakeTickers
  <2>3. cachePc[p] # "text" \/ File(p) = TickerMap
    BY <1>3 DEF Begin, Live, CacheStep, ReadCached, Miss, OpenToWrite, WritePart, CloseWritten,
                FetchFails, TakeTickers
  <2>4. embedPc'[p] = "idle"
    BY <1>1, <2>1, <2>3 DEF CallsWithinFiling
  <2> QED
    BY <1>2, <2>1, <2>2, <2>3, <2>4, FilesStepKeeps
\* The ends of a process: the call under way ends with it.
<1>4. ASSUME NEW p \in Procs, FilingFails(p) \/ Kill(p)
      PROVE  AcquisitionIInv'
  <2>1. EmbedderIdle(p) /\ stored' = stored
    BY <1>4 DEF FilingFails, Kill
  <2>2. CacheMove(p)
    BY <1>4 DEF FilingFails, Kill, CacheMove, LeavesFiling
  <2>3. /\ CallsFine' /\ embedPc'[p] = "idle"
        /\ \A q \in Procs \ {p} : embedPc'[q] = embedPc[q] /\ texts'[q] = texts[q]
    BY <1>1, <2>1, SameProcesses, IdleKeeps
  <2>4. cachePc'[p] # "ended" /\ wanted' = wanted
    BY <1>1, <1>4 DEF FilingFails, Kill, Stop, Goto, CacheTypeOK
  <2>5. ~(wanted'[p] > wanted[p])
    <3>1. wanted[p] \in Int
      BY <1>1, FilesType DEF CacheTypeOK
    <3> QED
      BY <2>4, <3>1
  <2> QED
    BY <1>2, <2>1, <2>2, <2>3, <2>4, <2>5, FilesStepKeeps
<1>5. ASSUME NEW p \in Procs, Embed(p), UNCHANGED <<cacheVars, stored>>
      PROVE  AcquisitionIInv'
  <2>1. /\ CallsFine' /\ texts' = texts /\ embedPc[p] # "idle"
        /\ \A q \in Procs \ {p} : embedPc'[q] = embedPc[q]
    BY <1>1, <1>5, SameProcesses, EmbedKeeps
  <2>2. cachePc' = cachePc /\ wanted' = wanted /\ text' = text /\ StoredTexts' = StoredTexts
    BY <1>5 DEF cacheVars, StoredTexts
  <2>3. CallsWithinFiling'
    <3>1. \A q \in Procs : embedPc'[q] # "idle" => embedPc[q] # "idle"
      BY <2>1
    <3>2. \A q \in Procs : File(q)' = File(q)
      BY <2>2 DEF File
    <3> QED
      BY <1>1, <2>1, <2>2, <3>1, <3>2 DEF CallsWithinFiling
  <2> QED
    BY <1>5, <2>1, <2>3, CallsStepKeeps
<1>6. CASE UNCHANGED acquisitionVars
  <2>1. UNCHANGED callsVars /\ UNCHANGED <<cacheVars, stored>>
    BY <1>6 DEF acquisitionVars
  <2>2. CallsFine' /\ embedPc' = embedPc /\ texts' = texts
    BY <1>1, <2>1, CallsUnchanged
  <2>3. CallsWithinFiling'
    BY <1>1, <2>1, <2>2 DEF CallsWithinFiling, File, StoredTexts, cacheVars
  <2> QED
    BY <2>1, <2>2, <2>3, CallsStepKeeps
<1>7. ASSUME NEW p \in Procs, ChunkFiling(p) \/ StoreFiling(p)
      PROVE  AcquisitionIInv'
  BY <1>1, <1>7, ChunkFilingKeeps, StoreFilingKeeps
<1>8. ASSUME NEW p \in Procs, Start(p) \/ Step(p) \/ Kill(p)
      PROVE  AcquisitionIInv'
  BY <1>3, <1>4, <1>5, <1>7, <1>8 DEF Start, Step, TakeTickers
<1> QED
  BY <1>6, <1>8 DEF AcquisitionNext

-----------------------------------------------------------------------------
(***************************************************************************)
(* Theorems                                                                *)
(***************************************************************************)

\* Every reachable state of the ingestion processes' acquisition satisfies the
\* inductive invariant.
THEOREM AcquisitionInvariant == AcquisitionSpec => []AcquisitionIInv
  BY InitFine, AcquisitionKeeps, PTL DEF AcquisitionSpec

\* sec_client.py, embeddings.py: every variable keeps its type.
THEOREM AcquisitionTypeCorrect == AcquisitionSpec => []AcquisitionTypeOK
<1>1. AcquisitionIInv => AcquisitionTypeOK
  BY DEF AcquisitionIInv
<1> QED
  BY <1>1, AcquisitionInvariant, PTL

\* A chunk is stored with its own vector, for any batch size and number of
\* attempts, whatever order, indices and lengths the backend answers with.
THEOREM VectorsAlwaysMatchTexts == AcquisitionSpec => []VectorsMatchTexts
<1>1. AcquisitionIInv => VectorsMatchTexts
  BY DEF AcquisitionIInv
<1> QED
  BY <1>1, AcquisitionInvariant, PTL

\* A run that ended well has stored all of every filing of whose file no writer
\* was stopped and no half was read.
THEOREM GapsAlwaysExplained == AcquisitionSpec => []GapsExplained
<1>1. ASSUME AcquisitionIInv, NEW p \in Procs, cachePc[p] = "ended",
             NEW f \in Filings \ (interrupted \cup readEarly)
      PROVE  {f} \X Whole(f) \subseteq StoredTexts
  <2>1. PICK k \in 2 .. Len(Files) : f = Files[k]
    BY <1>1 DEF Filings
  <2> QED
    BY <1>1, <2>1 DEF AcquisitionIInv, PassedStored, Excused
<1>2. AcquisitionIInv => GapsExplained
  BY <1>1 DEF GapsExplained
<1> QED
  BY <1>2, AcquisitionInvariant, PTL
=============================================================================
