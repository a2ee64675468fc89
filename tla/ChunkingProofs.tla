--------------------------- MODULE ChunkingProofs ---------------------------
(***************************************************************************)
(* Proofs about Chunking, for any section and any five sizes: the chunks   *)
(* hold the whole text in order, are as large as they should be and        *)
(* overlap as they should.  The argument is ChunkingIInv: the open piece   *)
(* follows the last chunk as a chunk of its own would.                     *)
(*                                                                         *)
(* Then about FilingChunks, for any filing: no text under a heading is     *)
(* lost, sections end where the next heading is, tables do not become      *)
(* running text, and where each item has one heading no table is lost.     *)
(* The argument is FilingIInv: what is removed from the tree is the tables *)
(* of the blocks taken so far, all else these blocks say is in the         *)
(* paragraphs at hand or in those of a section kept, and each removed      *)
(* table is in a list of some section.                                     *)
(***************************************************************************)
EXTENDS FilingChunks, OrderingProofs

Unit == [from : Nat \ {0}, to : Nat \ {0}, joints : Nat]
Saved == [from : Nat \ {0}, to : Nat \ {0}, joints : Nat, size : Nat \ {0}]

-----------------------------------------------------------------------------
(***************************************************************************)
(* Lemmas about sequences of pieces                                        *)
(***************************************************************************)

\* Tokens add up, part by part.
LEMMA TokensAddUp ==
    ASSUME NEW text, NEW N \in Nat, DOMAIN text = 1 .. N, \A i \in 1 .. N : text[i].tokens \in Nat
    PROVE  /\ TokensBefore(text, 1) = 0
           /\ \A i \in 1 .. N + 1 : TokensBefore(text, i) \in Nat
           /\ \A i \in 1 .. N : /\ TokensBefore(text, i + 1) = TokensBefore(text, i) + text[i].tokens
                              /\ TokensBefore(text, i + 1) <= TokensBefore(text, N + 1)
<1> DEFINE row == [i \in 1 .. N |-> {i} \X (1 .. text[i].tokens)]
           first(n) == {i \in 1 .. N : i < n}
           before(n) == UNION {row[i] : i \in first(n)}
<1>1. \A n : TokensBefore(text, n) = Cardinality(before(n))
  BY DEF TokensBefore
<1>2. \A i \in 1 .. N : row[i] = {i} \X (1 .. text[i].tokens)
  OBVIOUS
<1>3. ASSUME NEW i \in 1 .. N
      PROVE  IsFiniteSet(row[i]) /\ Cardinality(row[i]) = text[i].tokens
  <2>1. IsFiniteSet({i}) /\ Cardinality({i}) = 1
    BY FS_Singleton
  <2>2. IsFiniteSet(1 .. text[i].tokens) /\ Cardinality(1 .. text[i].tokens) = text[i].tokens
    <3>1. PICK n \in Nat : n = text[i].tokens
      OBVIOUS
    <3>2. 1 \in Int /\ n \in Int
      BY <3>1
    <3>3. IsFiniteSet(1 .. n) /\ Cardinality(1 .. n) = IF 1 > n THEN 0 ELSE n - 1 + 1
      BY <3>2, FS_Interval
    <3>4. Cardinality(1 .. n) = n
      BY <3>1, <3>3
    <3> QED
      BY <3>1, <3>3, <3>4
  <2>3. row[i] = {i} \X (1 .. text[i].tokens)
    BY <1>2
  <2> HIDE DEF row
  <2>4. /\ IsFiniteSet({i} \X (1 .. text[i].tokens))
        /\ Cardinality({i} \X (1 .. text[i].tokens)) = Cardinality({i}) * Cardinality(1 .. text[i].tokens)
    BY <2>1, <2>2, FS_Product
  <2>5. text[i].tokens \in Nat
    OBVIOUS
  <2>6. 1 * text[i].tokens = text[i].tokens
    BY <2>5
  <2> QED
    BY <2>1, <2>2, <2>3, <2>4, <2>6
<1> HIDE DEF row
<1>4. \A n : IsFiniteSet(before(n))
  <2>1. ASSUME NEW n
        PROVE  IsFiniteSet(first(n))
    <3>1. IsFiniteSet(1 .. N)
      BY FS_Interval
    <3> QED
      BY <3>1, FS_Subset
  <2>2. \A n : \A i \in first(n) : IsFiniteSet(row[i])
    BY <1>3
  <2> HIDE DEF first
  <2> QED
    BY <2>1, <2>2, FiniteUnion
<1>5. before(1) = {}
  OBVIOUS
<1>6. ASSUME NEW i \in 1 .. N
      PROVE  /\ before(i + 1) = before(i) \union row[i]
             /\ before(i) \intersect row[i] = {}
             /\ before(i + 1) \subseteq before(N + 1)
  <2>1. \A j : j \in first(i + 1) <=> j \in first(i) \/ j = i
    OBVIOUS
  <2>2. \A j \in first(i + 1) : j \in first(N + 1)
    OBVIOUS
  <2>3. \A j \in first(i) : j \in 1 .. N /\ j # i
    OBVIOUS
  <2>4. \A j \in 1 .. N : \A x \in row[j] : x[1] = j
    BY <1>2
  <2> HIDE DEF first
  <2> QED
    BY <2>1, <2>2, <2>3, <2>4
<1> HIDE DEF before
<1>7. TokensBefore(text, 1) = 0
  BY <1>1, <1>5, FS_EmptySet
<1>8. \A n : TokensBefore(text, n) \in Nat
  BY <1>1, <1>4, FS_CardinalityType
<1>9. ASSUME NEW i \in 1 .. N
      PROVE  /\ TokensBefore(text, i + 1) = TokensBefore(text, i) + text[i].tokens
             /\ TokensBefore(text, i + 1) <= TokensBefore(text, N + 1)
  <2>1. Cardinality(before(i) \union row[i]) = Cardinality(before(i)) + Cardinality(row[i]) - Cardinality(before(i) \intersect row[i])
    BY <1>3, <1>4, FS_Union
  <2>2. Cardinality(before(i) \intersect row[i]) = 0
    BY <1>6, FS_EmptySet
  <2>3. Cardinality(before(i + 1)) <= Cardinality(before(N + 1))
    BY <1>4, <1>6, FS_Subset
  <2>4. Cardinality(before(i + 1)) = TokensBefore(text, i) + text[i].tokens
    <3>1. Cardinality(before(i)) \in Nat /\ text[i].tokens \in Nat
      BY <1>1, <1>8
    <3>2. Cardinality(before(i) \union row[i]) = Cardinality(before(i)) + text[i].tokens
      BY <1>3, <2>1, <2>2, <3>1
    <3> QED
      BY <1>1, <1>6, <3>2
  <2> QED
    BY <1>1, <2>3, <2>4
<1> QED
  BY <1>7, <1>8, <1>9

\* What matters of the parts is how many there are, and their tokens.
LEMMA TokensOnly ==
    ASSUME NEW s, NEW t, DOMAIN s = DOMAIN t, \A i \in DOMAIN s : s[i].tokens = t[i].tokens
    PROVE  \A n : TokensBefore(s, n) = TokensBefore(t, n)
<1>1. SUFFICES ASSUME NEW n
               PROVE  {{i} \X (1 .. s[i].tokens) : i \in {i \in DOMAIN s : i < n}}
                        = {{i} \X (1 .. t[i].tokens) : i \in {i \in DOMAIN t : i < n}}
  BY DEF TokensBefore
<1> QED
  OBVIOUS

\* The sizes are numbers.
LEMMA SizesAreNat ==
    /\ MaxTokens \in Nat \ {0} /\ TargetMin \in Nat /\ TargetMax \in Nat
    /\ MinTokens \in Nat /\ Overlap \in Nat /\ Joint \in Nat
BY ChunkingAssumption, TokenAssumption

\* A unit that starts where the last one ends, and fits, may be appended.
LEMMA PartitionAppend ==
    ASSUME NEW us \in Seq(Unit), Partition(us),
           NEW u \in Unit, u.from <= u.to, Size(u) <= MaxTokens + u.joints,
           u.from = IF us = <<>> THEN 1 ELSE us[Len(us)].to + 1
    PROVE  /\ Append(us, u) \in Seq(Unit)
           /\ Partition(Append(us, u))
           /\ Append(us, u)[Len(Append(us, u))] = u
           /\ Append(us, u) # <<>>
<1> DEFINE vs == Append(us, u)
<1>1. /\ vs \in Seq(Unit)
      /\ Len(vs) = Len(us) + 1
      /\ DOMAIN vs = 1 .. Len(us) + 1
      /\ DOMAIN us = 1 .. Len(us)
      /\ Len(us) \in Nat
      /\ \A i \in 1 .. Len(us) : vs[i] = us[i]
      /\ vs[Len(us) + 1] = u
      /\ vs # <<>>
      /\ us = <<>> <=> Len(us) = 0
  <2>1. /\ vs \in Seq(Unit)
        /\ Len(vs) = Len(us) + 1
        /\ Len(us) \in Nat
        /\ DOMAIN us = 1 .. Len(us)
    OBVIOUS
  <2>2. DOMAIN vs = 1 .. Len(us) + 1
    BY <2>1
  <2>3. \A i \in 1 .. Len(us) : vs[i] = us[i]
    OBVIOUS
  <2>4. vs[Len(us) + 1] = u
    OBVIOUS
  <2>5. us = <<>> <=> Len(us) = 0
    OBVIOUS
  <2> HIDE DEF vs
  <2>6. vs # <<>>
    BY <2>1
  <2> QED
    BY <2>1, <2>2, <2>3, <2>4, <2>5, <2>6
<1> HIDE DEF vs
<1>2. vs[1].from = 1
  <2>1. CASE us = <<>>
    BY <1>1, <2>1
  <2>2. CASE us # <<>>
    BY <1>1, <2>2 DEF Partition
  <2> QED
    BY <2>1, <2>2
<1>3. ASSUME NEW i \in DOMAIN vs
      PROVE  /\ vs[i].from <= vs[i].to
             /\ Size(vs[i]) <= MaxTokens + vs[i].joints
             /\ i > 1 => vs[i].from = vs[i - 1].to + 1
  <2>1. CASE i <= Len(us)
    BY <1>1, <2>1 DEF Partition
  <2>2. CASE i = Len(us) + 1
    BY <1>1, <2>2
  <2> QED
    BY <1>1, <2>1, <2>2
<1> QED
  BY <1>1, <1>2, <1>3 DEF Partition, vs

\* Units of a partition lie in order, each after the one before.
LEMMA UnitFacts ==
    ASSUME TypeOK, UnitsPartition, NEW i \in DOMAIN units
    PROVE  /\ units[i] \in Unit
           /\ units[i].from <= units[i].to
           /\ units[i].joints \in Nat
           /\ Span(units[i]) \in Nat \ {0}
           /\ Span(units[i]) <= MaxTokens
           /\ Size(units[i]) = Span(units[i]) + units[i].joints
           /\ i = 1 => units[i].from = 1
           /\ i > 1 => /\ i - 1 \in DOMAIN units
                       /\ units[i].from = units[i - 1].to + 1
<1>1. /\ units \in Seq(Unit)
      /\ Len(units) \in Nat
      /\ DOMAIN units = 1 .. Len(units)
      /\ i \in 1 .. Len(units)
  BY DEF TypeOK, Unit
<1>2. units # <<>>
  BY <1>1
<1>3. units[i] \in Unit
  BY <1>1
<1>4. /\ units[1].from = 1
      /\ units[i].from <= units[i].to
      /\ Size(units[i]) <= MaxTokens + units[i].joints
      /\ i > 1 => units[i].from = units[i - 1].to + 1
  BY <1>1, <1>2 DEF UnitsPartition, Partition
<1>5. Span(units[i]) \in Nat \ {0} /\ units[i].joints \in Nat
  BY <1>3, <1>4 DEF Span, Unit
<1>6. Size(units[i]) = Span(units[i]) + units[i].joints
  BY DEF Size
<1>7. Span(units[i]) <= MaxTokens
  BY <1>4, <1>5, <1>6, SizesAreNat
<1>8. i > 1 => i - 1 \in DOMAIN units
  BY <1>1
<1> QED
  BY <1>3, <1>4, <1>5, <1>6, <1>7, <1>8

\* Closing the open group keeps a partition, which then ends before pos + 1.
LEMMA ClosedSound ==
    ASSUME TypeOK, UnitsPartition, from <= pos + 1, Count <= MaxTokens,
           from = IF units = <<>> THEN 1 ELSE units[Len(units)].to + 1
    PROVE  /\ Closed \in Seq(Unit)
           /\ Partition(Closed)
           /\ pos + 1 = IF Closed = <<>> THEN 1 ELSE Closed[Len(Closed)].to + 1
<1>1. CASE Count > 0
  <2>1. /\ Piece \in Unit
        /\ Piece.from <= Piece.to
        /\ Size(Piece) <= MaxTokens + Piece.joints
        /\ Piece.from = from
        /\ Piece.to = pos
    <3>1. pos \in Nat \ {0} /\ from \in Nat \ {0} /\ from <= pos
      <4>1. pos \in Nat /\ from \in Nat \ {0}
        BY DEF TypeOK
      <4> QED
        BY <1>1, <4>1 DEF Count
    <3>2. Piece.from = from /\ Piece.to = pos /\ Piece.joints = joints /\ joints \in Nat
      BY DEF Piece, TypeOK
    <3>3. Piece \in Unit
      BY <3>1, <3>2 DEF Piece, Unit
    <3>4. Size(Piece) = Count + joints
      BY <3>2 DEF Size, Span, Count
    <3>5. Size(Piece) <= MaxTokens + Piece.joints
      BY <3>1, <3>2, <3>4, SizesAreNat DEF Count
    <3> QED
      BY <3>1, <3>2, <3>3, <3>5
  <2>2. units \in Seq(Unit) /\ Partition(units)
    BY DEF TypeOK, UnitsPartition, Unit
  <2> QED
    BY <1>1, <2>1, <2>2, PartitionAppend DEF Closed
<1>2. CASE ~(Count > 0)
  BY <1>2 DEF Closed, Count, TypeOK, UnitsPartition, Unit
<1> QED
  BY <1>1, <1>2

\* A chunk that follows the last one may be appended.
LEMMA JoinedAppend ==
    ASSUME NEW us, NEW cs \in Seq(Saved), NEW c \in Saved,
           cs = <<>> => c.from = 1,
           cs # <<>> => cs[1].from = 1 /\ Follows(us, cs[Len(cs)], c),
           \A i \in 2 .. Len(cs) : Follows(us, cs[i - 1], cs[i])
    PROVE  /\ Append(cs, c) \in Seq(Saved)
           /\ Append(cs, c) # <<>>
           /\ Append(cs, c)[1].from = 1
           /\ \A i \in 2 .. Len(Append(cs, c)) : Follows(us, Append(cs, c)[i - 1], Append(cs, c)[i])
           /\ Len(Append(cs, c)) = Len(cs) + 1
           /\ Append(cs, c)[Len(cs) + 1] = c
           /\ \A i \in 1 .. Len(cs) : Append(cs, c)[i] = cs[i]
<1> DEFINE ds == Append(cs, c)
<1>1. /\ ds \in Seq(Saved)
      /\ Len(ds) = Len(cs) + 1
      /\ Len(cs) \in Nat
      /\ \A i \in 1 .. Len(cs) : ds[i] = cs[i]
      /\ ds[Len(cs) + 1] = c
      /\ ds # <<>>
      /\ cs = <<>> <=> Len(cs) = 0
  <2>1. ds \in Seq(Saved) /\ Len(ds) = Len(cs) + 1 /\ Len(cs) \in Nat
    OBVIOUS
  <2>2. \A i \in 1 .. Len(cs) : ds[i] = cs[i]
    OBVIOUS
  <2>3. ds[Len(cs) + 1] = c
    OBVIOUS
  <2>4. cs = <<>> <=> Len(cs) = 0
    OBVIOUS
  <2>5. ds # <<>>
    <3> HIDE DEF ds
    <3> QED
      BY <2>1
  <2> QED
    BY <2>1, <2>2, <2>3, <2>4, <2>5
<1> HIDE DEF ds
<1>2. ds[1].from = 1
  <2>1. CASE cs = <<>>
    BY <1>1, <2>1
  <2>2. CASE cs # <<>>
    BY <1>1, <2>2
  <2> QED
    BY <2>1, <2>2
<1>3. ASSUME NEW i \in 2 .. Len(ds)
      PROVE  Follows(us, ds[i - 1], ds[i])
  <2>1. CASE i <= Len(cs)
    <3>1. ds[i] = cs[i] /\ ds[i - 1] = cs[i - 1] /\ i \in 2 .. Len(cs)
      BY <1>1, <2>1
    <3> QED
      BY <3>1
  <2>2. CASE i = Len(cs) + 1
    <3>1. ds[i] = c /\ ds[i - 1] = cs[Len(cs)] /\ cs # <<>>
      BY <1>1, <2>2
    <3> QED
      BY <3>1
  <2> QED
    BY <1>1, <2>1, <2>2
<1> QED
  BY <1>1, <1>2, <1>3 DEF ds

\* A longer piece, from the same place on, follows what a shorter one does.
LEMMA FollowsFurther ==
    ASSUME NEW us, NEW a, NEW b, NEW c, Follows(us, a, b), c.from = b.from,
           a.to \in Nat, b.to \in Nat, c.to \in Nat, b.to <= c.to
    PROVE  Follows(us, a, c)
<1>1. a.to < c.to
  BY DEF Follows
<1> QED
  BY <1>1 DEF Follows, Overlaps

-----------------------------------------------------------------------------
(***************************************************************************)
(* Each step keeps the invariant                                           *)
(***************************************************************************)

\* The tokens of the sentences taken, one sentence more.
LEMMA SentenceTaken ==
    ASSUME TypeOK
    PROVE  /\ Len(sentences) \in Nat /\ DOMAIN sentences = 1 .. Len(sentences)
           /\ TokensBefore(sentences, 1) = 0
           /\ \A i \in 1 .. Len(sentences) + 1 : TokensBefore(sentences, i) \in Nat
           /\ \A i \in 1 .. Len(sentences) :
                /\ sentences[i].tokens \in Nat \ {0}
                /\ TokensBefore(sentences, i + 1) = TokensBefore(sentences, i) + sentences[i].tokens
                /\ TokensBefore(sentences, i + 1) <= TokensOf(sentences)
<1>1. Len(sentences) \in Nat /\ DOMAIN sentences = 1 .. Len(sentences)
      /\ \A i \in 1 .. Len(sentences) : sentences[i] \in Sentence
  BY DEF TypeOK
<1>2. \A i \in 1 .. Len(sentences) : sentences[i].tokens \in Nat \ {0}
  BY <1>1 DEF Sentence
<1> QED
  BY <1>1, <1>2, TokensAddUp DEF TokensOf

\* Once all units are cut, none is added.
LEMMA ConsumedStays ==
    ASSUME Consumed, phase # "split", phase' # "split", UNCHANGED <<sentences, units>>
    PROVE  Consumed'
BY DEF Consumed, UnitsEnd, TokensOf

\* The tokens a joint adds are a number.
LEMMA JoinsAreNat == \A n : Joins(n) \subseteq Nat
BY SizesAreNat DEF Joins

\* The invariant holds before the first sentence.
LEMMA InitSound == Init => ChunkingIInv
<1> SUFFICES ASSUME Init PROVE ChunkingIInv
  OBVIOUS
<1>1. TypeOK
  BY ChunkingAssumption DEF Init, TypeOK
<1>2. UnitsPartition
  BY DEF Init, UnitsPartition, Partition
<1>3. Splitting
  BY SizesAreNat DEF Init, Splitting, Count, UnitsEnd
<1>4. Assembling /\ Assembled /\ ChunksJoined /\ SizesBounded
  BY DEF Init, Assembling, Assembled, ChunksJoined, SizesBounded
<1>5. Consumed
  BY <1>1, SentenceTaken DEF Init, Consumed
<1> QED
  BY <1>1, <1>2, <1>3, <1>4, <1>5 DEF ChunkingIInv

\* What the steps of the first loop share.
LEMMA SplitStep ==
    ASSUME ChunkingIInv, phase = "split", phase' = "split",
           sentences' = sentences, k' \in Nat \ {0}, chunks' = chunks, rest' \in Nat,
           pos' \in Nat, from' \in Nat \ {0}, joints' \in Nat, counted' = counted,
           units' \in Seq(Unit), Partition(units'),
           from' <= pos' + 1, (pos' + 1) - from' <= MaxTokens,
           rest' > 0 => from' = pos' + 1 /\ joints' = 0,
           from' = IF units' = <<>> THEN 1 ELSE units'[Len(units')].to + 1,
           k' \in 1 .. Len(sentences) + 1, pos' + rest' = TokensBefore(sentences, k')
    PROVE  ChunkingIInv'
<1>1. TypeOK'
  BY DEF ChunkingIInv, TypeOK, Unit
<1>2. UnitsPartition'
  BY DEF UnitsPartition, Partition, Size, Span
<1>3. Splitting'
  BY DEF ChunkingIInv, Splitting, Count, UnitsEnd
<1>4. chunks = <<>>
  BY DEF ChunkingIInv, Splitting
<1>5. Assembling' /\ Assembled' /\ ChunksJoined' /\ SizesBounded'
  BY <1>4 DEF Assembling, Assembled, ChunksJoined, SizesBounded
<1>6. Consumed'
  BY DEF Consumed, TokensBefore
<1> QED
  BY <1>1, <1>2, <1>3, <1>5, <1>6 DEF ChunkingIInv

\* What closing the open group gives while units are cut.
LEMMA ClosedNow ==
    ASSUME ChunkingIInv, phase = "split"
    PROVE  /\ Closed \in Seq(Unit)
           /\ Partition(Closed)
           /\ pos + 1 = IF Closed = <<>> THEN 1 ELSE Closed[Len(Closed)].to + 1
BY ClosedSound DEF ChunkingIInv, Splitting, UnitsEnd

\* A sentence joins the open group, or starts the next one.
LEMMA TakeSentenceSound == ChunkingIInv /\ TakeSentence => ChunkingIInv'
<1> SUFFICES ASSUME ChunkingIInv, TakeSentence PROVE ChunkingIInv'
  OBVIOUS
<1>1. phase = "split" /\ phase' = "split"
  BY DEF TakeSentence
<1>2. PICK n \in Nat \ {0} :
         /\ n = sentences[k].tokens
         /\ n <= MaxTokens
         /\ pos' = pos + n
         /\ IF StartsGroup(sentences[k])
            THEN units' = Closed /\ from' = pos + 1 /\ joints' = 0
            ELSE /\ \E gap \in Joins(Count) : joints' = joints + gap
                 /\ units' = units /\ from' = from
  <2>1. sentences[k].tokens \in Nat \ {0}
    <3>1. sentences \in Seq(Sentence) /\ k \in DOMAIN sentences
      BY DEF TakeSentence, ChunkingIInv, TypeOK
    <3>2. sentences[k] \in Sentence
      BY <3>1
    <3> QED
      BY <3>2 DEF Sentence
  <2> QED
    BY <2>1 DEF TakeSentence
<1>3. /\ sentences' = sentences /\ k' \in Nat \ {0} /\ chunks' = chunks
      /\ rest = 0 /\ rest' = 0 /\ pos \in Nat /\ pos' \in Nat /\ from \in Nat \ {0}
      /\ counted' = counted /\ joints' \in Nat
  <2>1. TypeOK
    BY DEF ChunkingIInv
  <2>6. counted' = counted
    BY DEF TakeSentence
  <2>7. joints' \in Nat
    <3>1. joints' = 0 \/ \E gap \in Joins(Count) : joints' = joints + gap
      BY <1>2
    <3>2. joints \in Nat
      BY <2>1 DEF TypeOK
    <3> QED
      BY <3>1, <3>2, JoinsAreNat
  <2>2. sentences' = sentences /\ k' = k + 1 /\ chunks' = chunks /\ rest = 0 /\ rest' = rest
    BY DEF TakeSentence
  <2>3. k \in Nat \ {0} /\ pos \in Nat /\ from \in Nat \ {0}
    BY <2>1 DEF TypeOK
  <2>4. k' \in Nat \ {0}
    BY <2>2, <2>3
  <2>5. pos' \in Nat
    BY <1>2, <2>3
  <2> QED
    BY <2>2, <2>3, <2>4, <2>5, <2>6, <2>7
<1>6. k' \in 1 .. Len(sentences) + 1 /\ pos' + rest' = TokensBefore(sentences, k')
  <2>1. k \in 1 .. Len(sentences) /\ k' = k + 1 /\ pos + rest = TokensBefore(sentences, k)
    BY <1>1 DEF ChunkingIInv, Consumed, TypeOK, TakeSentence
  <2>2. TokensBefore(sentences, k + 1) = TokensBefore(sentences, k) + n
    BY <1>2, <2>1, SentenceTaken DEF ChunkingIInv
  <2> QED
    BY <1>2, <1>3, <2>1, <2>2, SentenceTaken DEF ChunkingIInv
<1>4. CASE StartsGroup(sentences[k])
  <2>1. /\ units' \in Seq(Unit) /\ Partition(units')
        /\ from' = IF units' = <<>> THEN 1 ELSE units'[Len(units')].to + 1
        /\ from' = pos + 1
    BY <1>1, <1>2, <1>4, ClosedNow
  <2>2. from' \in Nat \ {0} /\ from' <= pos' + 1 /\ (pos' + 1) - from' <= MaxTokens
    <3>1. from' = pos + 1 /\ pos' = pos + n /\ n <= MaxTokens
      BY <1>2, <2>1
    <3> QED
      BY <1>3, <3>1, SizesAreNat
  <2> QED
    BY <1>1, <1>3, <1>6, <2>1, <2>2, SplitStep
<1>5. CASE ~StartsGroup(sentences[k])
  <2>1. /\ units' = units /\ from' = from
        /\ (pos + 1) - from + n <= MaxTokens
    <3>1. ~(Count + n > MaxTokens)
      BY <1>2, <1>5 DEF StartsGroup
    <3> QED
      BY <1>2, <1>3, <1>5, <3>1, SizesAreNat DEF Count
  <2>2. /\ units' \in Seq(Unit) /\ Partition(units')
        /\ from' = IF units' = <<>> THEN 1 ELSE units'[Len(units')].to + 1
        /\ from <= pos + 1
    BY <1>1, <2>1 DEF ChunkingIInv, TypeOK, UnitsPartition, Splitting, Unit, UnitsEnd
  <2>3. from' \in Nat \ {0} /\ from' <= pos' + 1 /\ (pos' + 1) - from' <= MaxTokens
    <3>1. from' = from /\ pos' = pos + n /\ from <= pos + 1
      BY <1>2, <2>1, <2>2
    <3> QED
      BY <1>3, <2>1, <3>1, SizesAreNat
  <2> QED
    BY <1>1, <1>3, <1>6, <2>2, <2>3, SplitStep
<1> QED
  BY <1>4, <1>5

\* An overlong sentence ends the group.
LEMMA OpenOverlongSound == ChunkingIInv /\ OpenOverlong => ChunkingIInv'
<1> SUFFICES ASSUME ChunkingIInv, OpenOverlong PROVE ChunkingIInv'
  OBVIOUS
<1>1. /\ phase = "split" /\ phase' = "split"
      /\ sentences' = sentences /\ k' \in Nat \ {0} /\ chunks' = chunks
      /\ rest' \in Nat /\ pos' = pos /\ pos \in Nat /\ from' = pos + 1
      /\ units' = Closed /\ joints' = 0 /\ counted' = counted
  <2>1. sentences[k] \in Sentence
    BY DEF OpenOverlong, ChunkingIInv, TypeOK
  <2> QED
    BY <2>1 DEF OpenOverlong, ChunkingIInv, TypeOK, Sentence
<1>2. /\ units' \in Seq(Unit) /\ Partition(units')
      /\ from' = IF units' = <<>> THEN 1 ELSE units'[Len(units')].to + 1
  BY <1>1, ClosedNow
<1>3. /\ from' \in Nat \ {0} /\ from' <= pos' + 1 /\ from' = pos' + 1
      /\ (pos' + 1) - from' <= MaxTokens
  BY <1>1, SizesAreNat
<1>4. k' \in 1 .. Len(sentences) + 1 /\ pos' + rest' = TokensBefore(sentences, k')
  <2>1. /\ k \in 1 .. Len(sentences) /\ k' = k + 1 /\ pos + rest = TokensBefore(sentences, k)
        /\ rest = 0 /\ rest' = sentences[k].tokens
    BY <1>1 DEF ChunkingIInv, Consumed, TypeOK, OpenOverlong
  <2>2. TokensBefore(sentences, k + 1) = TokensBefore(sentences, k) + sentences[k].tokens
    BY <2>1, SentenceTaken DEF ChunkingIInv
  <2> QED
    BY <1>1, <2>1, <2>2, SentenceTaken DEF ChunkingIInv
<1> QED
  BY <1>1, <1>2, <1>3, <1>4, SplitStep

\* A window of an overlong sentence is a unit.
LEMMA TakeWindowSound == ChunkingIInv /\ TakeWindow => ChunkingIInv'
<1> SUFFICES ASSUME ChunkingIInv, TakeWindow PROVE ChunkingIInv'
  OBVIOUS
<1> DEFINE n == LesserOf(rest, MaxTokens)
           u == [from |-> pos + 1, to |-> pos + n, joints |-> 0]
<1>1. /\ rest \in Nat /\ rest > 0 /\ pos \in Nat /\ MaxTokens \in Nat \ {0}
      /\ n \in Nat \ {0} /\ n <= rest /\ n <= MaxTokens
  BY SizesAreNat DEF TakeWindow, ChunkingIInv, TypeOK, LesserOf
<1>2. /\ phase = "split" /\ phase' = "split"
      /\ sentences' = sentences /\ k' \in Nat \ {0} /\ chunks' = chunks
      /\ rest' = rest - n /\ pos' = pos + n /\ from' = pos + n + 1
      /\ units' = Append(units, u) /\ joints' = joints /\ counted' = counted
  BY DEF TakeWindow, ChunkingIInv, TypeOK
<1> HIDE DEF n
<1>3. /\ u \in Unit /\ u.from <= u.to /\ Size(u) <= MaxTokens + u.joints
      /\ u.from = pos + 1 /\ u.to = pos + n
  BY <1>1 DEF Unit, Size, Span
<1>9. joints = 0
  BY <1>1, <1>2 DEF ChunkingIInv, Splitting
<1>4. /\ from = pos + 1
      /\ from = IF units = <<>> THEN 1 ELSE units[Len(units)].to + 1
      /\ units \in Seq(Unit) /\ Partition(units)
  BY <1>1, <1>2 DEF ChunkingIInv, Splitting, TypeOK, UnitsPartition, Unit, UnitsEnd
<1> HIDE DEF u
<1>5. /\ units' \in Seq(Unit) /\ Partition(units')
      /\ units' # <<>> /\ units'[Len(units')] = u
  BY <1>2, <1>3, <1>4, PartitionAppend
<1>6. from' = IF units' = <<>> THEN 1 ELSE units'[Len(units')].to + 1
  BY <1>2, <1>3, <1>5
<1>7. /\ rest' \in Nat /\ pos' \in Nat /\ from' \in Nat \ {0}
      /\ from' = pos' + 1 /\ from' <= pos' + 1 /\ (pos' + 1) - from' <= MaxTokens
  BY <1>1, <1>2
<1>8. k' \in 1 .. Len(sentences) + 1 /\ pos' + rest' = TokensBefore(sentences, k')
  <2>1. /\ k \in 1 .. Len(sentences) + 1 /\ k' = k
        /\ pos + rest = TokensBefore(sentences, k)
    BY <1>2 DEF ChunkingIInv, Consumed, TakeWindow
  <2> QED
    BY <1>1, <1>2, <2>1
<1> QED
  BY <1>2, <1>5, <1>6, <1>7, <1>8, <1>9, SplitStep

\* The last group is closed, and the first chunk begun.
LEMMA EndSplitSound == ChunkingIInv /\ EndSplit => ChunkingIInv'
<1> SUFFICES ASSUME ChunkingIInv, EndSplit PROVE ChunkingIInv'
  OBVIOUS
<1>1. /\ phase = "split" /\ phase' = "chunk" /\ sentences' = sentences
      /\ k' = 1 /\ from' = 1 /\ pos' = 0 /\ rest' = rest
      /\ units' = Closed /\ chunks' = chunks /\ joints' = 0 /\ counted' = counted
  BY DEF EndSplit
<1>2. chunks = <<>>
  BY <1>1 DEF ChunkingIInv, Splitting
<1>3. units' \in Seq(Unit) /\ Partition(units')
  BY <1>1, ClosedNow
<1>4. TypeOK'
  BY <1>1, <1>3 DEF ChunkingIInv, TypeOK, Unit
<1>5. UnitsPartition'
  BY <1>3 DEF UnitsPartition, Partition, Size
<1>6. Assembling'
  <2>1. Len(units') \in Nat
    BY <1>3
  <2>2. counted = 0
    BY <1>1 DEF ChunkingIInv, Splitting
  <2> QED
    BY <1>1, <1>2, <2>1, <2>2, SizesAreNat DEF Assembling, Count, Whole
<1>7. Splitting' /\ Assembled'
  BY <1>1 DEF Splitting, Assembled
<1>8. ChunksJoined' /\ SizesBounded'
  BY <1>1, <1>2 DEF ChunksJoined, SizesBounded
<1>9. Consumed'
  <2>1. /\ k \in 1 .. Len(sentences) + 1 /\ k \notin DOMAIN sentences
        /\ rest = 0 /\ pos + rest = TokensBefore(sentences, k) /\ pos \in Nat
    BY <1>1 DEF ChunkingIInv, Consumed, EndSplit, TypeOK
  <2>2. k = Len(sentences) + 1
    BY <2>1, SentenceTaken DEF ChunkingIInv
  <2>3. pos = TokensOf(sentences)
    BY <2>1, <2>2 DEF TokensOf
  <2>4. UnitsEnd' = pos
    <3>1. pos + 1 = IF units' = <<>> THEN 1 ELSE units'[Len(units')].to + 1
      BY <1>1, ClosedNow
    <3>2. units' # <<>> => units'[Len(units')] \in Unit
      BY <1>3
    <3>3. units' # <<>> => units'[Len(units')].to \in Nat
      BY <3>2 DEF Unit
    <3> QED
      BY <2>1, <3>1, <3>3 DEF UnitsEnd
  <2> QED
    BY <1>1, <2>3, <2>4 DEF Consumed, TokensOf
<1> QED
  BY <1>4, <1>5, <1>6, <1>7, <1>8, <1>9 DEF ChunkingIInv

\* The unit at k starts right after pos.
LEMMA UnitAtHand ==
    ASSUME ChunkingIInv, phase = "chunk", k \in DOMAIN units
    PROVE  /\ pos \in Nat /\ from \in Nat \ {0} /\ from <= pos + 1
           /\ joints \in Nat /\ counted \in Nat /\ Count \in Nat
           /\ Count <= counted /\ counted <= Count + joints
           /\ k = 1 => pos = 0 /\ from = 1 /\ chunks = <<>>
           /\ k > 1 => from <= pos
           /\ Span(units[k]) \in Nat \ {0} /\ Span(units[k]) <= MaxTokens
           /\ units[k].joints \in Nat
           /\ Size(units[k]) = Span(units[k]) + units[k].joints
           /\ units[k].from = pos + 1
           /\ units[k].to = pos + Span(units[k])
           /\ k \in Nat \ {0} /\ k <= Len(units) /\ Len(units) \in Nat
<1>1. /\ units[k] \in Unit
      /\ units[k].from <= units[k].to
      /\ Span(units[k]) \in Nat \ {0} /\ Span(units[k]) <= MaxTokens
      /\ units[k].joints \in Nat
      /\ Size(units[k]) = Span(units[k]) + units[k].joints
      /\ k = 1 => units[k].from = 1
      /\ k > 1 => k - 1 \in DOMAIN units /\ units[k].from = units[k - 1].to + 1
  BY UnitFacts DEF ChunkingIInv
<1>2. /\ k \in Nat \ {0} /\ k <= Len(units) /\ Len(units) \in Nat
      /\ pos \in Nat /\ from \in Nat \ {0} /\ joints \in Nat /\ counted \in Nat
  BY DEF ChunkingIInv, TypeOK
<1>3. /\ k = 1 => pos = 0 /\ from = 1 /\ chunks = <<>>
      /\ k > 1 => pos = units[k - 1].to /\ from <= pos
      /\ Count <= counted /\ counted <= Count + joints
  BY DEF ChunkingIInv, Assembling, Whole
<1>4. units[k].from = pos + 1
  BY <1>1, <1>2, <1>3
<1>5. units[k].to = pos + Span(units[k])
  BY <1>1, <1>2, <1>4 DEF Span, Unit
<1>6. from <= pos + 1 /\ Count \in Nat
  BY <1>2, <1>3 DEF Count
<1> QED
  BY <1>1, <1>2, <1>3, <1>4, <1>5, <1>6

\* A unit that fits joins the open piece.
LEMMA ExtendSound == ChunkingIInv /\ Extend => ChunkingIInv'
<1> SUFFICES ASSUME ChunkingIInv, Extend PROVE ChunkingIInv'
  OBVIOUS
<1> DEFINE n == Size(units[k])
           m == Span(units[k])
           j == units[k].joints
<1>1. /\ phase = "chunk" /\ phase' = "chunk" /\ k \in DOMAIN units
      /\ ~Flushes(n) /\ pos' = units[k].to /\ k' = k + 1
      /\ sentences' = sentences /\ from' = from /\ rest' = rest
      /\ units' = units /\ chunks' = chunks /\ counted' = counted + n
  BY DEF Extend
<1>2. /\ pos \in Nat /\ from \in Nat \ {0} /\ from <= pos + 1
      /\ joints \in Nat /\ counted \in Nat /\ Count \in Nat
      /\ Count <= counted /\ counted <= Count + joints
      /\ k = 1 => pos = 0 /\ from = 1 /\ chunks = <<>>
      /\ k > 1 => from <= pos
      /\ m \in Nat \ {0} /\ m <= MaxTokens /\ j \in Nat /\ n = m + j
      /\ units[k].to = pos + m
      /\ k \in Nat \ {0} /\ k <= Len(units) /\ Len(units) \in Nat
  BY <1>1, UnitAtHand
<1>9. PICK gap \in Nat : joints' = joints + gap + j
  <2>1. \E gap \in Joins(Count) : joints' = joints + gap + j
    BY DEF Extend
  <2> QED
    BY <2>1, JoinsAreNat
<1> HIDE DEF n, m, j
<1>3. Count' = Count + m /\ Count' <= MaxTokens
  <2>1. Count' = Count + m
    BY <1>1, <1>2 DEF Count
  <2>2. CASE k = 1
    <3>1. Count = 0
      BY <1>2, <2>2 DEF Count
    <3> QED
      BY <1>2, <2>1, <3>1
  <2>3. CASE k > 1
    <3>1. Count > 0
      BY <1>2, <2>3 DEF Count
    <3>2. ~(counted + n > MaxTokens)
      BY <1>1, <3>1 DEF Flushes
    <3> QED
      BY <1>2, <2>1, <3>2, SizesAreNat
  <2> QED
    BY <1>2, <2>2, <2>3
<1>10. Count' <= counted' /\ counted' <= Whole' /\ joints' \in Nat /\ counted' \in Nat
  <2>1. Whole' = Count' + joints'
    BY DEF Whole
  <2> QED
    BY <1>1, <1>2, <1>3, <1>9, <2>1
<1>4. TypeOK'
  BY <1>1, <1>2, <1>10 DEF ChunkingIInv, TypeOK
<1>5. UnitsPartition' /\ ChunksJoined' /\ SizesBounded'
  BY <1>1 DEF ChunkingIInv, UnitsPartition, ChunksJoined, SizesBounded
<1>6. Assembling'
  <2>1. k' \in 1 .. Len(units') + 1
    BY <1>1, <1>2
  <2>2. k' > 1 /\ pos' = units'[k' - 1].to /\ from' <= pos'
    BY <1>1, <1>2
  <2>3. ASSUME chunks # <<>>
        PROVE  Follows(units, chunks[Len(chunks)], Piece')
    <3>1. Follows(units, chunks[Len(chunks)], Piece)
      BY <1>1, <2>3 DEF ChunkingIInv, Assembling
    <3>2. chunks[Len(chunks)].to \in Nat
      <4>1. chunks \in Seq(Saved)
        BY DEF ChunkingIInv, TypeOK, Saved
      <4>2. Len(chunks) \in DOMAIN chunks
        BY <2>3, <4>1
      <4>3. chunks[Len(chunks)] \in Saved
        BY <4>1, <4>2
      <4> QED
        BY <4>3 DEF Saved
    <3>3. /\ Piece.from = from /\ Piece.to = pos
          /\ Piece'.from = from /\ Piece'.to = pos + m
      BY <1>1, <1>2 DEF Piece
    <3>4. Piece.to \in Nat /\ Piece'.to \in Nat /\ Piece.to <= Piece'.to
      BY <1>2, <3>3
    <3> HIDE DEF Piece
    <3> QED
      BY <3>1, <3>2, <3>3, <3>4, FollowsFurther
  <2>4. chunks = <<>> => from' = 1
    BY <1>1 DEF ChunkingIInv, Assembling
  <2>5. \A i \in DOMAIN chunks : chunks[i].size <= MaxTokens + chunks[i].joints
    BY <1>1 DEF ChunkingIInv, Assembling
  <2> QED
    BY <1>1, <1>3, <1>10, <2>1, <2>2, <2>3, <2>4, <2>5 DEF Assembling
<1>7. Splitting' /\ Assembled'
  BY <1>1 DEF Splitting, Assembled
<1>8. Consumed'
  BY <1>1, ConsumedStays DEF ChunkingIInv
<1> QED
  BY <1>4, <1>5, <1>6, <1>7, <1>8 DEF ChunkingIInv

\* current_parts as a chunk: it may be appended to the others.
LEMMA ChunkSound ==
    ASSUME ChunkingIInv, phase = "chunk", Count > 0
    PROVE  /\ Chunk \in Saved
           /\ Chunk.from = from /\ Chunk.to = pos /\ Chunk.size = Whole /\ Chunk.joints = joints
           /\ chunks \in Seq(Saved)
           /\ Append(chunks, Chunk) \in Seq(Saved)
           /\ Append(chunks, Chunk) # <<>>
           /\ Append(chunks, Chunk)[1].from = 1
           /\ \A i \in 2 .. Len(Append(chunks, Chunk)) :
                Follows(units, Append(chunks, Chunk)[i - 1], Append(chunks, Chunk)[i])
           /\ Len(Append(chunks, Chunk)) = Len(chunks) + 1
           /\ Append(chunks, Chunk)[Len(chunks) + 1] = Chunk
           /\ \A i \in 1 .. Len(Append(chunks, Chunk)) :
                Append(chunks, Chunk)[i].size <= MaxTokens + Append(chunks, Chunk)[i].joints
<1>1. pos \in Nat /\ from \in Nat \ {0} /\ joints \in Nat /\ chunks \in Seq(Saved)
  BY DEF ChunkingIInv, TypeOK, Saved
<1>2. k \in 1 .. Len(units) + 1 /\ from <= pos /\ pos # 0
  BY <1>1 DEF Count, ChunkingIInv, Assembling
<1>3. /\ Chunk \in Saved
      /\ Chunk.from = from /\ Chunk.to = pos /\ Chunk.size = Whole /\ Chunk.joints = joints
  <2>1. Whole \in Nat \ {0}
    BY <1>1, <1>2 DEF Whole, Count
  <2> QED
    BY <1>1, <1>2, <2>1 DEF Chunk, Saved
<1>4. /\ chunks = <<>> => Chunk.from = 1
      /\ chunks # <<>> => chunks[1].from = 1 /\ Follows(units, chunks[Len(chunks)], Chunk)
  <2>1. /\ chunks = <<>> => from = 1
        /\ chunks # <<>> => chunks[1].from = 1 /\ Follows(units, chunks[Len(chunks)], Piece)
    BY DEF ChunkingIInv, Assembling, ChunksJoined
  <2>2. Piece.from = Chunk.from /\ Piece.to = Chunk.to
    BY <1>3 DEF Piece
  <2> HIDE DEF Piece, Chunk
  <2>3. Follows(units, chunks[Len(chunks)], Piece) => Follows(units, chunks[Len(chunks)], Chunk)
    BY <2>2 DEF Follows, Overlaps
  <2> QED
    BY <1>3, <2>1, <2>3
<1>5. \A i \in 2 .. Len(chunks) : Follows(units, chunks[i - 1], chunks[i])
  BY DEF ChunkingIInv, ChunksJoined
<1>6. /\ \A i \in DOMAIN chunks : chunks[i].size <= MaxTokens + chunks[i].joints
      /\ Chunk.size <= MaxTokens + Chunk.joints
  <2>1. Count <= MaxTokens /\ Count \in Nat
    BY <1>1, <1>2 DEF ChunkingIInv, Assembling, Count
  <2> QED
    BY <1>1, <1>3, <2>1, SizesAreNat DEF ChunkingIInv, Assembling, Whole
<1> HIDE DEF Chunk
<1>9. /\ chunks = <<>> => Chunk.from = 1
      /\ chunks # <<>> => chunks[1].from = 1 /\ Follows(units, chunks[Len(chunks)], Chunk)
      /\ \A i \in 2 .. Len(chunks) : Follows(units, chunks[i - 1], chunks[i])
      /\ chunks \in Seq(Saved) /\ Chunk \in Saved
  BY <1>1, <1>3, <1>4, <1>5
<1>7. /\ Append(chunks, Chunk) \in Seq(Saved)
      /\ Append(chunks, Chunk) # <<>>
      /\ Append(chunks, Chunk)[1].from = 1
      /\ \A i \in 2 .. Len(Append(chunks, Chunk)) :
           Follows(units, Append(chunks, Chunk)[i - 1], Append(chunks, Chunk)[i])
      /\ Len(Append(chunks, Chunk)) = Len(chunks) + 1
      /\ Append(chunks, Chunk)[Len(chunks) + 1] = Chunk
      /\ \A i \in 1 .. Len(chunks) : Append(chunks, Chunk)[i] = chunks[i]
  BY <1>9, JoinedAppend
<1>8. ASSUME NEW i \in 1 .. Len(Append(chunks, Chunk))
      PROVE  Append(chunks, Chunk)[i].size <= MaxTokens + Append(chunks, Chunk)[i].joints
  <2>1. Len(chunks) \in Nat /\ DOMAIN chunks = 1 .. Len(chunks)
    BY <1>1
  <2>2. CASE i <= Len(chunks)
    BY <1>6, <1>7, <2>1, <2>2
  <2>3. CASE i = Len(chunks) + 1
    BY <1>6, <1>7, <2>3
  <2> QED
    BY <1>7, <2>1, <2>2, <2>3
<1> QED
  BY <1>1, <1>3, <1>7, <1>8

\* The open piece is saved, and the next one starts with its tail.
LEMMA FlushSound == ChunkingIInv /\ Flush => ChunkingIInv'
<1> SUFFICES ASSUME ChunkingIInv, Flush PROVE ChunkingIInv'
  OBVIOUS
<1> DEFINE n == Size(units[k])
           m == Span(units[k])
           uj == units[k].joints
<1>1. /\ phase = "chunk" /\ phase' = "chunk" /\ k \in DOMAIN units
      /\ Flushes(n) /\ pos' = units[k].to /\ k' = k + 1
      /\ chunks' = Append(chunks, Chunk)
      /\ sentences' = sentences /\ rest' = rest /\ units' = units
  BY DEF Flush
<1>19. PICK gap \in Joins(Overlap) :
         LET t == Carried(gap, n) IN
         \E j \in JointsIn(t) :
           /\ from' = (pos + 1) - (t - j)
           /\ joints' = (IF t > 0 THEN j + gap ELSE 0) + uj
           /\ counted' = (IF t > 0 THEN t + gap ELSE 0) + n
  BY DEF Flush
<1> DEFINE t == Carried(gap, n)
<1>2. PICK j \in JointsIn(t) :
        /\ from' = (pos + 1) - (t - j)
        /\ joints' = (IF t > 0 THEN j + gap ELSE 0) + uj
        /\ counted' = (IF t > 0 THEN t + gap ELSE 0) + n
  BY <1>19
<1>3. /\ pos \in Nat /\ from \in Nat \ {0} /\ from <= pos + 1
      /\ joints \in Nat /\ counted \in Nat
      /\ Count <= counted /\ counted <= Count + joints
      /\ m \in Nat \ {0} /\ m <= MaxTokens /\ uj \in Nat /\ n = m + uj
  BY <1>1, UnitAtHand
<1>20. units[k].from = pos + 1 /\ units[k].to = pos + m
  BY <1>1, UnitAtHand
<1>21. k \in Nat \ {0} /\ k <= Len(units) /\ Len(units) \in Nat
  BY <1>1, UnitAtHand
<1>22. n \in Nat \ {0} /\ m \in Nat \ {0} /\ uj \in Nat /\ n = m + uj /\ m <= MaxTokens
  BY <1>3
<1>4. gap \in Nat /\ gap <= Joint
  BY SizesAreNat DEF Joins
<1>5. /\ j \in Nat /\ j <= joints /\ t <= Count + j
      /\ t > 0 => j < t
      /\ t = 0 => j = 0
  BY <1>3 DEF JointsIn
<1> HIDE DEF n, m, uj
<1>6. /\ Count \in Nat \ {0} /\ Count > 0 /\ Whole = Count + joints
      /\ Whole \in Nat \ {0}
      /\ Whole >= TargetMin \/ Whole + n > MaxTokens
  <2>1. /\ Count > 0
        /\ counted >= TargetMin \/ counted + n > MaxTokens
    BY <1>1 DEF Flushes
  <2>2. Count \in Nat \ {0} /\ Whole = Count + joints
    BY <1>3, <2>1 DEF Count, Whole
  <2> QED
    BY <1>3, <2>1, <2>2, SizesAreNat
<1>7. LastTokens \in Nat /\ LastTokens = LesserOf(Overlap, Whole)
  BY <1>6, SizesAreNat DEF LastTokens, LesserOf
<1>8. /\ t \in Nat
      /\ \/ t = LastTokens /\ ~(LastTokens + gap + n > MaxTokens)
         \/ t = 0 /\ LastTokens + gap + n > MaxTokens
  BY <1>7 DEF Carried
<1> HIDE DEF t
<1>9. /\ from' = (pos + 1) - (t - j)
      /\ joints' = (IF t > 0 THEN j + gap ELSE 0) + uj
      /\ counted' = (IF t > 0 THEN t + gap ELSE 0) + n
  BY <1>2 DEF t
<1>10. /\ Chunk \in Saved
       /\ Chunk.from = from /\ Chunk.to = pos /\ Chunk.size = Whole /\ Chunk.joints = joints
       /\ chunks' \in Seq(Saved) /\ chunks' # <<>> /\ chunks'[1].from = 1
       /\ \A i \in 2 .. Len(chunks') : Follows(units, chunks'[i - 1], chunks'[i])
       /\ chunks'[Len(chunks')] = Chunk
       /\ \A i \in 1 .. Len(chunks') : chunks'[i].size <= MaxTokens + chunks'[i].joints
  BY <1>1, <1>6, ChunkSound
<1>11. /\ from' \in Nat \ {0} /\ pos' \in Nat \ {0} /\ pos' = pos + m
       /\ from' <= pos' /\ from' <= pos + 1
       /\ joints' \in Nat /\ counted' \in Nat
       /\ Count' = (t - j) + m /\ Count' <= MaxTokens
       /\ Count' <= counted' /\ counted' <= Whole'
  <2>1. t - j \in Nat /\ t - j <= Count
    <3>1. Count \in Nat /\ t \in Nat /\ j \in Nat /\ t <= Count + j /\ j <= t
      BY <1>5, <1>6, <1>8
    <3> QED
      BY <3>1
  <2>2. Count = (pos + 1) - from /\ pos' = pos + m
    BY <1>1, <1>20 DEF Count
  <2>3. from' \in Nat \ {0} /\ from' <= pos + 1
    BY <1>3, <1>9, <2>1, <2>2
  <2>4. pos' \in Nat \ {0} /\ from' <= pos'
    BY <1>3, <2>2, <2>3
  <2>5. Count' = (t - j) + m
    <3>1. Count' = (pos' + 1) - from'
      BY DEF Count
    <3>2. /\ pos \in Nat /\ m \in Nat /\ t \in Nat /\ j \in Nat
          /\ pos' = pos + m /\ from' = (pos + 1) - (t - j)
      BY <1>3, <1>5, <1>8, <1>9, <2>2
    <3> QED
      BY <3>1, <3>2
  <2>6. Whole' = Count' + joints'
    BY DEF Whole
  <2>7. ASSUME t = 0
        PROVE  /\ joints' \in Nat /\ counted' \in Nat /\ Count' <= MaxTokens
               /\ Count' <= counted' /\ counted' <= Whole'
    <3>1. j = 0 /\ joints' = uj /\ counted' = n
      BY <1>5, <1>9, <1>22, <2>7
    <3> QED
      BY <1>22, <2>5, <2>6, <2>7, <3>1
  <2>8. ASSUME t > 0
        PROVE  /\ joints' \in Nat /\ counted' \in Nat /\ Count' <= MaxTokens
               /\ Count' <= counted' /\ counted' <= Whole'
    <3>1. t + gap + n <= MaxTokens
      <4>1. t = LastTokens /\ ~(LastTokens + gap + n > MaxTokens)
        BY <1>8, <2>8
      <4> QED
        BY <1>4, <1>8, <1>22, <4>1, SizesAreNat
    <3>2. joints' = j + gap + uj /\ counted' = t + gap + n
      BY <1>9, <2>8
    <3>3. j \in Nat /\ t \in Nat
      BY <1>5, <1>8
    <3> QED
      BY <1>4, <1>22, <2>1, <2>5, <2>6, <3>1, <3>2, <3>3, SizesAreNat
  <2> QED
    BY <1>8, <2>2, <2>3, <2>4, <2>5, <2>7, <2>8
<1>12. Follows(units, Chunk, Piece')
  <2>1. Piece'.from = from' /\ Piece'.to = pos + m
    BY <1>11 DEF Piece
  <2>2. units[k] \in NextUnits(units, Chunk)
    <3>1. units[k].from = Chunk.to + 1
      BY <1>10, <1>20
    <3> HIDE DEF Chunk
    <3> QED
      BY <1>1, <3>1 DEF NextUnits
  <2>3. from' <= Chunk.to + 1 /\ Chunk.to < pos + m
    BY <1>3, <1>10, <1>11
  <2> HIDE DEF Piece, Chunk
  <2>4. Full(units, Chunk)
    BY <1>6, <1>10, <2>2 DEF Full, n
  <2>5. Overlaps(units, Chunk, Piece')
    <3>1. LesserOf(Overlap, Chunk.size) = LastTokens
      BY <1>7, <1>10
    <3>2. CASE t = LastTokens /\ ~(LastTokens + gap + n > MaxTokens)
      <4>3. /\ pos \in Nat /\ t \in Nat /\ j \in Nat /\ joints \in Nat /\ j <= joints
            /\ Chunk.to = pos /\ Chunk.joints = joints
            /\ Piece'.from = (pos + 1) - (t - j)
        BY <1>3, <1>5, <1>8, <1>9, <1>10, <2>1
      <4>1. (Chunk.to + 1) - Piece'.from = t - j
        BY <4>3
      <4>2. t - j <= t /\ t <= (t - j) + Chunk.joints
        BY <4>3
      <4> QED
        BY <3>1, <3>2, <4>1, <4>2 DEF Overlaps
    <3>3. CASE LastTokens + gap + n > MaxTokens
      <4>1. LastTokens + Joint + n > MaxTokens
        BY <1>4, <1>7, <1>22, <3>3, SizesAreNat
      <4> QED
        BY <2>2, <3>1, <4>1 DEF Overlaps, n
    <3> QED
      BY <1>8, <3>2, <3>3
  <2> QED
    BY <2>1, <2>3, <2>4, <2>5 DEF Follows
<1>13. TypeOK'
  <2>1. k' \in Nat \ {0}
    BY <1>1, <1>21
  <2>2. chunks' \in Seq([from : Nat \ {0}, to : Nat \ {0}, joints : Nat, size : Nat \ {0}])
    BY <1>10 DEF Saved
  <2>3. TypeOK
    BY DEF ChunkingIInv
  <2> QED
    BY <1>1, <1>11, <2>1, <2>2, <2>3 DEF TypeOK
<1>14. UnitsPartition'
  BY <1>1 DEF ChunkingIInv, UnitsPartition
<1>15. ChunksJoined' /\ SizesBounded'
  BY <1>1, <1>10 DEF ChunksJoined, SizesBounded
<1>16. Assembling'
  <2>1. k' \in 1 .. Len(units') + 1 /\ k' > 1 /\ k' - 1 = k
    BY <1>1, <1>21
  <2>2. k' > 1 /\ pos' = units'[k' - 1].to /\ from' <= pos'
    BY <1>1, <1>11, <2>1
  <2>3. DOMAIN chunks' = 1 .. Len(chunks')
    BY <1>10
  <2>4. \A i \in DOMAIN chunks' : chunks'[i].size <= MaxTokens + chunks'[i].joints
    BY <1>10, <2>3
  <2>5. chunks' # <<>> /\ Follows(units', chunks'[Len(chunks')], Piece')
    BY <1>1, <1>10, <1>12
  <2>6. Count' <= MaxTokens /\ Count' <= counted' /\ counted' <= Whole'
    BY <1>11
  <2> QED
    BY <2>1, <2>2, <2>4, <2>5, <2>6 DEF Assembling
<1>17. Splitting' /\ Assembled'
  BY <1>1 DEF Splitting, Assembled
<1>18. Consumed'
  BY <1>1, ConsumedStays DEF ChunkingIInv
<1> QED
  BY <1>13, <1>14, <1>15, <1>16, <1>17, <1>18 DEF ChunkingIInv

\* The last piece, as a chunk of its own or appended to the one before.
LEMMA EndChunksSound == ChunkingIInv /\ EndChunks => ChunkingIInv'
<1> SUFFICES ASSUME ChunkingIInv, EndChunks PROVE ChunkingIInv'
  OBVIOUS
<1>1. /\ phase = "chunk" /\ phase' = "done" /\ k \notin DOMAIN units
      /\ sentences' = sentences /\ k' = k /\ from' = from /\ pos' = pos
      /\ rest' = rest /\ units' = units /\ joints' = joints /\ counted' = counted
  BY DEF EndChunks
<1>2. /\ pos \in Nat /\ from \in Nat \ {0} /\ k \in Nat \ {0} /\ joints \in Nat
      /\ units \in Seq(Unit) /\ Len(units) \in Nat /\ DOMAIN units = 1 .. Len(units)
      /\ k = Len(units) + 1
  <2>1. k \in 1 .. Len(units) + 1
    BY <1>1 DEF ChunkingIInv, Assembling
  <2>2. /\ pos \in Nat /\ from \in Nat \ {0} /\ k \in Nat \ {0} /\ joints \in Nat
        /\ units \in Seq(Unit)
    BY DEF ChunkingIInv, TypeOK, Unit
  <2>3. Len(units) \in Nat /\ DOMAIN units = 1 .. Len(units)
    BY <2>2
  <2>4. k = Len(units) + 1
    BY <1>1, <2>1, <2>3
  <2> QED
    BY <2>2, <2>3, <2>4
<1>3. /\ chunks \in Seq(Saved) /\ Len(chunks) \in Nat
      /\ DOMAIN chunks = 1 .. Len(chunks)
      /\ chunks = <<>> <=> Len(chunks) = 0
  BY DEF ChunkingIInv, TypeOK, Saved
<1>4. UnitsPartition' /\ Consumed' /\ Splitting' /\ Assembling'
  BY <1>1, ConsumedStays DEF ChunkingIInv, UnitsPartition, Splitting, Assembling
<1>10. from <= pos + 1 /\ Count \in Nat /\ Whole = Count + joints
  <2>1. from <= pos + 1
    BY <1>1, <1>2 DEF ChunkingIInv, Assembling
  <2> QED
    BY <1>2, <2>1 DEF Count, Whole
<1>5. units # <<>> => pos = units[Len(units)].to /\ Count > 0
  <2>1. units # <<>> => k > 1 /\ k - 1 = Len(units)
    BY <1>2
  <2>2. k > 1 => pos = units[k - 1].to /\ from <= pos
    BY <1>1 DEF ChunkingIInv, Assembling
  <2> QED
    BY <1>2, <2>1, <2>2 DEF Count
<1>6. TypeOK' <=> chunks' \in Seq(Saved)
  BY <1>1 DEF ChunkingIInv, TypeOK, Saved
<1>7. CASE Count = 0
  <2>1. chunks' = chunks
    BY <1>7 DEF EndChunks
  <2>2. Assembled'
    BY <1>1, <1>5, <1>7 DEF Assembled
  <2>3. ChunksJoined' /\ SizesBounded'
    BY <1>1, <2>1 DEF ChunkingIInv, ChunksJoined, SizesBounded
  <2> QED
    BY <1>3, <1>4, <1>6, <2>1, <2>2, <2>3 DEF ChunkingIInv
<1>8. CASE Count # 0 /\ (Whole >= MinTokens \/ chunks = <<>>)
  <2>1. chunks' = Append(chunks, Chunk)
    BY <1>8 DEF EndChunks
  <2>2. Count > 0
    BY <1>8, <1>10
  <2>3. /\ Chunk.to = pos
        /\ chunks' \in Seq(Saved) /\ chunks' # <<>> /\ chunks'[1].from = 1
        /\ \A i \in 2 .. Len(chunks') : Follows(units, chunks'[i - 1], chunks'[i])
        /\ chunks'[Len(chunks')] = Chunk
        /\ \A i \in 1 .. Len(chunks') : chunks'[i].size <= MaxTokens + chunks'[i].joints
    BY <1>1, <2>1, <2>2, ChunkSound
  <2>4. Assembled'
    BY <1>1, <1>5, <2>3 DEF Assembled
  <2>5. ChunksJoined' /\ SizesBounded'
    <3>1. DOMAIN chunks' = 1 .. Len(chunks')
      BY <2>3
    <3> QED
      BY <1>1, <2>3, <3>1 DEF ChunksJoined, SizesBounded
  <2> QED
    BY <1>4, <1>6, <2>3, <2>4, <2>5 DEF ChunkingIInv
<1>9. CASE Count # 0 /\ ~(Whole >= MinTokens \/ chunks = <<>>)
  <2> DEFINE last == Len(chunks)
             old == chunks[last]
  <2>1. PICK gap \in 0 .. Joint :
          chunks' = [chunks EXCEPT ![last] =
                       [from |-> old.from, to |-> pos, joints |-> old.joints + gap + joints,
                        size |-> old.size + gap + Whole]]
    BY <1>9 DEF EndChunks
  <2> DEFINE c == [from |-> old.from, to |-> pos, joints |-> old.joints + gap + joints,
                   size |-> old.size + gap + Whole]
  <2>2. chunks # <<>> /\ Whole < MinTokens /\ Whole \in Nat /\ gap \in Nat
    BY <1>2, <1>9, <1>10, SizesAreNat
  <2>3. /\ last \in 1 .. Len(chunks) /\ last \in Nat \ {0}
        /\ old \in Saved
        /\ old.size <= MaxTokens + old.joints
        /\ Follows(units, old, Piece)
    <3>1. last \in 1 .. Len(chunks)
      BY <1>3, <2>2
    <3> QED
      BY <1>1, <1>3, <2>2, <3>1 DEF ChunkingIInv, Assembling
  <2>11. old = chunks[last]
    OBVIOUS
  <2> HIDE DEF old
  <2>4. /\ c.from = old.from /\ c.to = pos
        /\ old.to < pos /\ old.to \in Nat
        /\ c \in Saved
        /\ c.size < MaxTokens + MinTokens + c.joints
    <3>1. Piece.to = pos
      BY DEF Piece
    <3>2. old.to < pos
      BY <2>3, <3>1 DEF Follows
    <3>3. /\ old.from \in Nat \ {0} /\ old.to \in Nat \ {0}
          /\ old.size \in Nat \ {0} /\ old.joints \in Nat
      BY <2>3 DEF Saved
    <3>4. pos \in Nat \ {0}
      BY <1>2, <3>2, <3>3
    <3>8. old.joints + gap + joints \in Nat /\ old.size + gap + Whole \in Nat \ {0}
      <4>1. joints \in Nat /\ gap \in Nat /\ Whole \in Nat
        BY <1>2, <2>2
      <4> QED
        BY <3>3, <4>1
    <3>5. c \in Saved
      BY <3>3, <3>4, <3>8 DEF Saved
    <3>6. c.size = old.size + gap + Whole /\ c.joints = old.joints + gap + joints
      OBVIOUS
    <3>7. c.size < MaxTokens + MinTokens + c.joints
      <4>1. old.size + gap + Whole < MaxTokens + MinTokens + (old.joints + gap + joints)
        <5>1. old.size <= MaxTokens + old.joints /\ Whole < MinTokens
          BY <2>2, <2>3
        <5>2. joints \in Nat /\ gap \in Nat /\ Whole \in Nat /\ old.size \in Nat /\ old.joints \in Nat
          BY <1>2, <2>2, <3>3
        <5>3. MaxTokens \in Nat /\ MinTokens \in Nat
          BY SizesAreNat
        <5> QED
          BY <5>1, <5>2, <5>3
      <4> HIDE DEF c
      <4> QED
        BY <3>6, <4>1
    <3> QED
      BY <3>2, <3>3, <3>5, <3>7
  <2> HIDE DEF c
  <2>5. /\ chunks' \in Seq(Saved) /\ Len(chunks') = last
        /\ chunks'[last] = c
        /\ \A i \in 1 .. last : i # last => chunks'[i] = chunks[i]
        /\ chunks' # <<>>
        /\ DOMAIN chunks' = 1 .. last
    <3>5. chunks' = [chunks EXCEPT ![last] = c]
      BY <2>1 DEF c
    <3>1. chunks' \in Seq(Saved) /\ Len(chunks') = last
      BY <1>3, <2>3, <2>4, <3>5
    <3>2. DOMAIN chunks' = 1 .. last
      BY <3>1
    <3>3. /\ chunks'[last] = c
          /\ \A i \in 1 .. last : i # last => chunks'[i] = chunks[i]
      BY <1>3, <2>3, <3>5
    <3>4. chunks' # <<>>
      BY <2>3, <3>1
    <3> QED
      BY <3>1, <3>2, <3>3, <3>4
  <2> HIDE DEF last
  <2>6. Assembled'
    BY <1>1, <1>5, <2>4, <2>5 DEF Assembled
  <2>7. chunks'[1].from = 1
    <3>1. chunks[1].from = 1
      BY <2>2 DEF ChunkingIInv, ChunksJoined
    <3>2. CASE last = 1
      BY <2>4, <2>5, <2>11, <3>1, <3>2
    <3>3. CASE last # 1
      <4>1. 1 \in 1 .. last
        BY <2>3
      <4>2. chunks'[1] = chunks[1]
        BY <2>5, <3>3, <4>1
      <4> QED
        BY <3>1, <4>2
    <3> QED
      BY <3>2, <3>3
  <2>8. ASSUME NEW i \in 2 .. last
        PROVE  Follows(units, chunks'[i - 1], chunks'[i])
    <3>1. Follows(units, chunks[i - 1], chunks[i])
      BY <2>8 DEF ChunkingIInv, ChunksJoined, last
    <3>2. chunks'[i - 1] = chunks[i - 1] /\ i - 1 \in 1 .. last
      <4>1. i - 1 \in 1 .. last /\ i - 1 # last
        BY <2>3, <2>8
      <4> QED
        BY <2>5, <4>1
    <3>3. CASE i # last
      <4>1. i \in 1 .. last
        BY <2>3, <2>8
      <4>2. chunks'[i] = chunks[i]
        BY <2>5, <3>3, <4>1
      <4> QED
        BY <3>1, <3>2, <4>2
    <3>4. CASE i = last
      <4>1. chunks[i - 1] \in Saved
        BY <1>3, <2>3, <3>2 DEF last
      <4>2. chunks[i - 1].to \in Nat
        BY <4>1 DEF Saved
      <4>3. Follows(units, chunks[i - 1], old)
        BY <2>11, <3>1, <3>4
      <4>4. Follows(units, chunks[i - 1], c)
        BY <1>2, <2>4, <4>2, <4>3, FollowsFurther
      <4> QED
        BY <2>5, <3>2, <3>4, <4>4
    <3> QED
      BY <3>3, <3>4
  <2>9. ChunksJoined'
    BY <1>1, <2>5, <2>7, <2>8 DEF ChunksJoined
  <2>10. SizesBounded'
    <3>1. \A i \in DOMAIN chunks : chunks[i].size <= MaxTokens + chunks[i].joints
      BY <1>1 DEF ChunkingIInv, Assembling
    <3>2. ASSUME NEW i \in 1 .. last
          PROVE  \/ chunks'[i].size <= MaxTokens + chunks'[i].joints
                 \/ i = last /\ chunks'[i].size < MaxTokens + MinTokens + chunks'[i].joints
      <4>1. CASE i = last
        BY <2>4, <2>5, <4>1
      <4>2. CASE i # last
        BY <1>3, <2>5, <3>1, <3>2, <4>2 DEF last
      <4> QED
        BY <4>1, <4>2
    <3> QED
      BY <2>5, <3>2 DEF SizesBounded
  <2> QED
    BY <1>4, <1>6, <2>5, <2>6, <2>9, <2>10 DEF ChunkingIInv
<1> QED
  BY <1>7, <1>8, <1>9

\* Where there is text there are units, and they end where it does.
LEMMA AllTextChunked == ChunkingIInv => NothingLost
<1> SUFFICES ASSUME ChunkingIInv, phase = "done", sentences # <<>>
             PROVE  /\ chunks # <<>>
                    /\ chunks[1].from = 1
                    /\ chunks[Len(chunks)].to = TokensOf(sentences)
                    /\ \A i \in 2 .. Len(chunks) :
                         chunks[i].from <= chunks[i - 1].to + 1 /\ chunks[i - 1].to < chunks[i].to
  BY DEF NothingLost
<1>1. /\ Len(sentences) \in Nat /\ 1 \in 1 .. Len(sentences)
      /\ TokensBefore(sentences, 1) = 0 /\ TokensBefore(sentences, 2) \in Nat \ {0}
      /\ TokensBefore(sentences, 2) <= TokensOf(sentences)
  <2>1. TypeOK
    BY DEF ChunkingIInv
  <2>2. 1 \in 1 .. Len(sentences) /\ 2 \in 1 .. Len(sentences) + 1
    BY <2>1 DEF TypeOK
  <2> QED
    BY <2>1, <2>2, SentenceTaken
<1>2. TokensOf(sentences) # 0
  BY <1>1, SentenceTaken DEF TokensOf, ChunkingIInv
<1>3. units # <<>> /\ units[Len(units)].to = TokensOf(sentences)
  BY <1>2 DEF ChunkingIInv, Consumed, UnitsEnd
<1> QED
  BY <1>3 DEF ChunkingIInv, Assembled, ChunksJoined, Follows

\* Steps that leave the chunker alone keep its invariant.
LEMMA StutterSound == ChunkingIInv /\ UNCHANGED vars => ChunkingIInv'
<1> SUFFICES ASSUME ChunkingIInv, UNCHANGED vars PROVE ChunkingIInv'
  OBVIOUS
<1>1. /\ phase' = phase /\ sentences' = sentences /\ k' = k /\ from' = from /\ pos' = pos
      /\ joints' = joints /\ counted' = counted /\ rest' = rest
      /\ units' = units /\ chunks' = chunks
  BY DEF vars
<1>2. TypeOK'
  BY <1>1 DEF ChunkingIInv, TypeOK
<1>3. UnitsPartition' /\ SizesBounded' /\ ChunksJoined' /\ Assembled'
  BY <1>1 DEF ChunkingIInv, UnitsPartition, SizesBounded, ChunksJoined, Assembled
<1>4. Consumed' /\ Splitting' /\ Assembling'
  <2>1. Count' = Count /\ Whole' = Whole /\ Piece' = Piece /\ UnitsEnd' = UnitsEnd
    BY <1>1 DEF Count, Whole, Piece, UnitsEnd
  <2> QED
    BY <1>1, <2>1 DEF ChunkingIInv, Consumed, Splitting, Assembling
<1> QED
  BY <1>2, <1>3, <1>4 DEF ChunkingIInv

-----------------------------------------------------------------------------
(***************************************************************************)
(* The theorems                                                            *)
(***************************************************************************)

\* Where the loops of _iter_text_units and _chunk_text are tells what they
\* have cut so far.
THEOREM ChunkingInvariant == Spec => []ChunkingIInv
<1>1. Init => ChunkingIInv
  BY InitSound
<1>2. ChunkingIInv /\ [Next]_vars => ChunkingIInv'
  BY TakeSentenceSound, OpenOverlongSound, TakeWindowSound, EndSplitSound, ExtendSound,
     FlushSound, EndChunksSound, StutterSound DEF Next
<1> QED
  BY <1>1, <1>2, PTL DEF Spec

\* Every variable of the chunker keeps its type.
THEOREM ChunkingTypeCorrect == Spec => []TypeOK
<1>1. ChunkingIInv => TypeOK
  BY DEF ChunkingIInv
<1> QED
  BY <1>1, ChunkingInvariant, PTL

\* Units partition the text and fit the limit, whatever its sentences.
THEOREM UnitsAlwaysPartition == Spec => []UnitsPartition
<1>1. ChunkingIInv => UnitsPartition
  BY DEF ChunkingIInv
<1> QED
  BY <1>1, ChunkingInvariant, PTL

\* The chunks of a section hold its whole text, in order.
THEOREM NothingEverLost == Spec => []NothingLost
<1>1. ChunkingIInv => NothingLost
  BY AllTextChunked
<1> QED
  BY <1>1, ChunkingInvariant, PTL

\* What _chunk_text's additions allow, however many tokens the joints add: no
\* chunk but the last exceeds the limit by more than its joints, and the last one
\* by less than MinTokens besides.
THEOREM SizesAlwaysBounded == Spec => []SizesBounded
<1>1. ChunkingIInv => SizesBounded
  BY DEF ChunkingIInv
<1> QED
  BY <1>1, ChunkingInvariant, PTL

\* A chunk is smaller than the target only where the next unit did not fit.
THEOREM ChunksAlwaysFull == Spec => []ChunksFull
<1>1. ChunkingIInv => ChunksFull
  BY DEF ChunkingIInv, ChunksFull, ChunksJoined, Follows
<1> QED
  BY <1>1, ChunkingInvariant, PTL

\* Consecutive chunks overlap, unless the next unit leaves no room for it.
THEOREM OverlapAlwaysKept == Spec => []OverlapKept
<1>1. ChunkingIInv => OverlapKept
  BY DEF ChunkingIInv, OverlapKept, ChunksJoined, Follows
<1> QED
  BY <1>1, ChunkingInvariant, PTL

-----------------------------------------------------------------------------
(***************************************************************************)
(* Filings: what is read before the first section is built                 *)
(***************************************************************************)

\* A node lies under what encloses it, with all that is under it.
LEMMA TreesNest ==
    ASSUME FilingRead
    PROVE  /\ DOMAIN doc \subseteq Nat /\ IsFiniteSet(DOMAIN doc)
           /\ \A n \in DOMAIN doc :
                /\ doc[n] \in Node
                /\ n \in Under(n) /\ Under(n) \subseteq DOMAIN doc
                /\ \A m \in Under(n) : n <= m /\ Under(m) \subseteq Under(n)
                /\ \A m \in DOMAIN doc : \A x \in Under(n) \intersect Under(m) :
                     n <= m => m \in Under(n)
           /\ \A n \in DOMAIN doc : doc[n].kind \in Texts => Phrase(n) \in Phrases
           /\ \A n \in DOMAIN doc : doc[n].kind = "heading" => doc[n].id \in Items
<1>1. Document(doc)
  BY ParsingAssumption DEF FilingRead
<1>2. DOMAIN doc = 1 .. Len(doc) /\ Len(doc) \in Nat /\ \A n \in DOMAIN doc : doc[n] \in Node
  BY <1>1 DEF Document
<1>3. IsFiniteSet(DOMAIN doc)
  BY <1>2, FS_Interval
<1>4. \A n \in DOMAIN doc : doc[n].last \in n .. Len(doc)
  BY <1>1 DEF Document
<1>5. \A n \in DOMAIN doc : n \in Under(n) /\ Under(n) \subseteq DOMAIN doc
  BY <1>2, <1>4 DEF Under
<1>6. ASSUME NEW n \in DOMAIN doc, NEW m \in Under(n)
      PROVE  n <= m /\ Under(m) \subseteq Under(n)
  <2>1. doc[m].last <= doc[n].last
    BY <1>1, <1>6 DEF Document, Under
  <2>2. m \in DOMAIN doc
    BY <1>5, <1>6
  <2> QED
    BY <1>2, <1>4, <2>1, <2>2 DEF Under
<1>7. ASSUME NEW n \in DOMAIN doc, NEW m \in DOMAIN doc,
             NEW x \in Under(n) \intersect Under(m), n <= m
      PROVE  m \in Under(n)
  BY <1>2, <1>4, <1>7 DEF Under
<1>8. ASSUME NEW n \in DOMAIN doc, doc[n].kind \in Texts
      PROVE  Phrase(n) \in Phrases
  <2>1. doc[n].tokens > 0
    BY <1>1, <1>8 DEF Document
  <2> QED
    BY <1>2, <1>8, <2>1 DEF Phrase, Phrases, Node
<1>9. \A n \in DOMAIN doc : doc[n].kind = "heading" => doc[n].id \in Items
  BY <1>1 DEF Document
<1> QED
  BY <1>2, <1>3, <1>5, <1>6, <1>7, <1>8, <1>9

\* The texts that get_text finds under node n.
TextsIn(n, removed) == {m \in Under(n) \ removed : doc[m].kind \in Texts}

\* get_text: every one of them, in order.
LEMMA SaidLists ==
    ASSUME FilingRead, NEW n \in DOMAIN doc, NEW removed
    PROVE  /\ Said(n, removed) \in Seq(Phrases)
           /\ \A p : p \in Range(Said(n, removed)) <=> \E m \in TextsIn(n, removed) : p = Phrase(m)
           /\ Said(n, removed) = <<>> <=> TextsIn(n, removed) = {}
<1> DEFINE ns == TextsIn(n, removed)
           order == Ascending(ns)
           N == Cardinality(ns)
<1>1. ns \subseteq DOMAIN doc
  BY TreesNest DEF TextsIn
<1>2. ns \in SUBSET Nat /\ IsFiniteSet(ns)
  BY <1>1, TreesNest, FS_Subset
<1>3. \A m \in ns : Phrase(m) \in Phrases
  BY <1>1, TreesNest DEF TextsIn
<1>4. Said(n, removed) = [i \in DOMAIN order |-> Phrase(order[i])]
  BY DEF Said, TextsIn
<1> HIDE DEF ns
<1>5. /\ N \in Nat /\ order \in [1 .. N -> ns]
      /\ \A x \in ns : \E i \in 1 .. N : order[i] = x
  BY <1>2, AscendingLists
<1> HIDE DEF order, N
<1>6. Said(n, removed) = [i \in 1 .. N |-> Phrase(order[i])]
  BY <1>4, <1>5
<1>7. Said(n, removed) \in [1 .. N -> Phrases]
  BY <1>3, <1>5, <1>6
<1> DEFINE said == Said(n, removed)
<1>8. said \in Seq(Phrases) /\ DOMAIN said = 1 .. N /\ \A i \in 1 .. N : said[i] = Phrase(order[i])
  BY <1>5, <1>6, <1>7
<1> HIDE DEF said
<1>9. \A p : p \in Range(said) <=> \E m \in ns : p = Phrase(m)
  BY <1>5, <1>8 DEF Range
<1>10. said = <<>> <=> ns = {}
  <2>1. said = <<>> <=> N = 0
    BY <1>5, <1>8
  <2>2. N = 0 <=> ns = {}
    BY <1>5
  <2> QED
    BY <2>1, <2>2
<1> QED
  BY <1>8, <1>9, <1>10 DEF said, ns

\* The blocks with a text, in order, and those of them that are headings.
LEMMA BlocksAreRead ==
    ASSUME FilingRead
    PROVE  /\ Len(blocks) \in Nat /\ DOMAIN blocks = 1 .. Len(blocks)
           /\ \A b \in DOMAIN blocks : blocks[b] \in DOMAIN doc
           /\ \A b, c \in DOMAIN blocks : b < c <=> blocks[b] < blocks[c]
           /\ \A n \in DOMAIN doc : doc[n].kind = "table" /\ Said(n, {}) # <<>> =>
                \E b \in DOMAIN blocks : blocks[b] = n
           /\ Len(starts) \in Nat /\ DOMAIN starts = 1 .. Len(starts)
           /\ \A s \in DOMAIN starts : starts[s] \in DOMAIN blocks
           /\ \A r, s \in DOMAIN starts : r < s <=> starts[r] < starts[s]
           /\ \A s \in DOMAIN starts : ItemAt(s) \in Items
<1> DEFINE visible == {n \in DOMAIN doc : doc[n].kind \in {"block", "table"} /\ Said(n, {}) # <<>>}
           headings == {b \in DOMAIN blocks : IsA("heading", Said(blocks[b], {}))}
<1>1. blocks = Ascending(visible) /\ starts = Ascending(headings)
  BY DEF FilingRead, VisibleBlocks, SectionStarts
<1>2. visible \in SUBSET Nat /\ IsFiniteSet(visible)
  BY TreesNest, FS_Subset
<1>3. \A n \in DOMAIN doc : doc[n].kind = "table" /\ Said(n, {}) # <<>> => n \in visible
  OBVIOUS
<1>4. visible \subseteq DOMAIN doc
  OBVIOUS
<1> HIDE DEF visible
<1>5. /\ Cardinality(visible) \in Nat /\ blocks \in [1 .. Cardinality(visible) -> visible]
      /\ \A x \in visible : \E n \in 1 .. Cardinality(visible) : blocks[n] = x
      /\ \A m, n \in 1 .. Cardinality(visible) : m < n <=> blocks[m] < blocks[n]
  BY <1>1, <1>2, AscendingLists
<1>6. Len(blocks) = Cardinality(visible) /\ DOMAIN blocks = 1 .. Len(blocks)
  BY <1>5
<1>7. headings \in SUBSET Nat /\ IsFiniteSet(headings) /\ headings \subseteq DOMAIN blocks
  <2>1. IsFiniteSet(DOMAIN blocks)
    BY <1>5, <1>6, FS_Interval
  <2> QED
    BY <1>5, <1>6, <2>1, FS_Subset
<1>8. \A b \in headings : IsA("heading", Said(blocks[b], {}))
  OBVIOUS
<1> HIDE DEF headings
<1>9. /\ Cardinality(headings) \in Nat /\ starts \in [1 .. Cardinality(headings) -> headings]
      /\ \A m, n \in 1 .. Cardinality(headings) : m < n <=> starts[m] < starts[n]
  BY <1>1, <1>7, AscendingLists
<1>10. Len(starts) = Cardinality(headings) /\ DOMAIN starts = 1 .. Len(starts)
  BY <1>9
<1>11. ASSUME NEW s \in DOMAIN starts
       PROVE  ItemAt(s) \in Items
  <2> DEFINE n == blocks[starts[s]]
             text == Said(n, {})
  <2>1. starts[s] \in headings /\ n \in DOMAIN doc
    BY <1>4, <1>5, <1>6, <1>7, <1>9, <1>10
  <2>2. text \in Seq(Phrases) /\ \A p : p \in Range(text) <=> \E m \in TextsIn(n, {}) : p = Phrase(m)
    BY <2>1, SaidLists
  <2>3. Len(text) = 1 /\ text[1].kind = "heading"
    BY <1>8, <2>1 DEF IsA
  <2> HIDE DEF text, n
  <2>4. text[1] \in Range(text)
    BY <2>2, <2>3 DEF Range
  <2>5. PICK m \in TextsIn(n, {}) : text[1] = Phrase(m)
    BY <2>2, <2>4
  <2>6. m \in DOMAIN doc /\ doc[m].kind = "heading" /\ text[1].id = doc[m].id
    BY <2>1, <2>3, <2>5, TreesNest DEF TextsIn, Phrase
  <2>7. text[1].id \in Items
    BY <2>6, TreesNest
  <2> QED
    BY <2>7 DEF ItemAt, text, n
<1> QED
  BY <1>3, <1>4, <1>5, <1>6, <1>7, <1>9, <1>10, <1>11

\* What is read from the filing stays as it is.
LEMMA ReadOnly ==
    ASSUME UNCHANGED <<doc, blocks, starts>>
    PROVE  /\ FilingRead' = FilingRead
           /\ \A n : Under(n)' = Under(n) /\ Phrase(n)' = Phrase(n)
           /\ \A n, removed : Said(n, removed)' = Said(n, removed)
           /\ \A s : /\ ItemAt(s)' = ItemAt(s) /\ NextStart(s)' = NextStart(s)
                     /\ BlocksUnder(s)' = BlocksUnder(s)
           /\ \A i : HeadingsOf(i)' = HeadingsOf(i)
<1>1. \A n : Under(n)' = Under(n)
  BY DEF Under
<1>2. \A n : Phrase(n)' = Phrase(n)
  BY DEF Phrase
<1>3. \A n, removed : Said(n, removed)' = Said(n, removed)
  BY DEF Said, Under, Phrase
<1>4. VisibleBlocks' = VisibleBlocks /\ SectionStarts' = SectionStarts
  BY DEF VisibleBlocks, SectionStarts, Said, Under, Phrase, IsA
<1>5. \A s : ItemAt(s)' = ItemAt(s)
  BY DEF ItemAt, Said, Under, Phrase
<1>6. \A s : NextStart(s)' = NextStart(s) /\ BlocksUnder(s)' = BlocksUnder(s)
  BY DEF NextStart, BlocksUnder
<1>7. \A i : HeadingsOf(i)' = HeadingsOf(i)
  BY DEF HeadingsOf, ItemAt, Said, Under, Phrase
<1> QED
  BY <1>1, <1>2, <1>3, <1>4, <1>5, <1>6, <1>7 DEF FilingRead

-----------------------------------------------------------------------------
(***************************************************************************)
(* Filings: the sections                                                   *)
(***************************************************************************)

\* Where the next section starts.
LEMMA NextStarts ==
    ASSUME FilingRead, NEW s \in DOMAIN starts
    PROVE  /\ NextStart(s) \in Nat /\ NextStart(s) <= Len(blocks) + 1
           /\ starts[s] < NextStart(s)
           /\ \A r \in DOMAIN starts : s < r => NextStart(s) <= starts[r]
<1>1. /\ Len(blocks) \in Nat /\ DOMAIN blocks = 1 .. Len(blocks)
      /\ Len(starts) \in Nat /\ DOMAIN starts = 1 .. Len(starts)
      /\ \A r \in DOMAIN starts : starts[r] \in DOMAIN blocks
      /\ \A r, q \in DOMAIN starts : r < q <=> starts[r] < starts[q]
  BY BlocksAreRead
<1>2. CASE s + 1 \in DOMAIN starts
  <2>1. NextStart(s) = starts[s + 1] /\ s < s + 1
    BY <1>1, <1>2 DEF NextStart
  <2>2. \A r \in DOMAIN starts : s < r => s + 1 = r \/ s + 1 < r
    BY <1>1
  <2>3. \A r \in DOMAIN starts : starts[r] \in Nat /\ starts[r] <= Len(blocks)
    BY <1>1
  <2>4. ASSUME NEW r \in DOMAIN starts, s < r
        PROVE  starts[s + 1] <= starts[r]
    BY <1>1, <1>2, <2>2, <2>3, <2>4
  <2> QED
    BY <1>1, <1>2, <2>1, <2>3, <2>4
<1>3. CASE s + 1 \notin DOMAIN starts
  <2>1. NextStart(s) = Len(blocks) + 1
    BY <1>3 DEF NextStart
  <2>2. \A r \in DOMAIN starts : ~(s < r)
    BY <1>1, <1>3
  <2> QED
    BY <1>1, <2>1, <2>2
<1> QED
  BY <1>2, <1>3

\* The blocks between two headings are those under the first of them.
LEMMA BlocksBetween ==
    ASSUME FilingRead, NEW s \in DOMAIN starts, NEW n
    PROVE  n \in BlocksUnder(s) <=>
             \E b \in DOMAIN blocks : starts[s] < b /\ b < NextStart(s) /\ n = blocks[b]
<1>1. /\ DOMAIN blocks = 1 .. Len(blocks) /\ Len(blocks) \in Nat
      /\ Len(starts) \in Nat /\ DOMAIN starts = 1 .. Len(starts)
      /\ \A r \in DOMAIN starts : starts[r] \in DOMAIN blocks
      /\ \A r, q \in DOMAIN starts : r < q <=> starts[r] < starts[q]
  BY BlocksAreRead
<1>2. ASSUME NEW b \in DOMAIN blocks, starts[s] < b
      PROVE  b < NextStart(s) <=> \A r \in DOMAIN starts : ~(starts[s] < starts[r] /\ starts[r] <= b)
  <2>1. \A r \in DOMAIN starts : starts[r] \in Nat
    BY <1>1
  <2>2. ASSUME b < NextStart(s), NEW r \in DOMAIN starts, starts[s] < starts[r], starts[r] <= b
        PROVE  FALSE
    <3>1. s < r
      BY <1>1, <2>2
    <3>2. NextStart(s) <= starts[r] /\ NextStart(s) \in Nat
      BY <3>1, NextStarts
    <3> QED
      BY <1>1, <2>1, <2>2, <3>2
  <2>3. ASSUME ~(b < NextStart(s))
        PROVE  \E r \in DOMAIN starts : starts[s] < starts[r] /\ starts[r] <= b
    <3>1. CASE s + 1 \in DOMAIN starts
      <4>1. NextStart(s) = starts[s + 1] /\ s < s + 1
        BY <1>1, <3>1 DEF NextStart
      <4>2. starts[s] < starts[s + 1] /\ starts[s + 1] <= b
        BY <1>1, <2>1, <2>3, <3>1, <4>1
      <4> QED
        BY <3>1, <4>2
    <3>2. CASE s + 1 \notin DOMAIN starts
      BY <1>1, <2>3, <3>2 DEF NextStart
    <3> QED
      BY <3>1, <3>2
  <2> QED
    BY <2>2, <2>3
<1>3. n \in BlocksUnder(s) <=>
        \E b \in DOMAIN blocks :
           /\ starts[s] < b
           /\ \A r \in DOMAIN starts : ~(starts[s] < starts[r] /\ starts[r] <= b)
           /\ n = blocks[b]
  BY DEF BlocksUnder
<1> QED
  BY <1>2, <1>3

\* A step of _build_section is at a block after the heading.
LEMMA AtBlock ==
    ASSUME ParsingTypeOK, start \in DOMAIN starts, at < NextStart(start)
    PROVE  /\ at \in DOMAIN blocks /\ blocks[at] \in DOMAIN doc
           /\ starts[start] \in DOMAIN blocks /\ starts[start] < at
           /\ blocks[at] \in BlocksUnder(start)
           /\ \A b \in Taken : b \in DOMAIN blocks /\ b < at
           /\ \A b \in DOMAIN blocks : starts[start] < b /\ b < at => b \in Taken
<1>1. FilingRead /\ at \in starts[start] + 1 .. NextStart(start)
  BY DEF ParsingTypeOK
<1>2. /\ DOMAIN blocks = 1 .. Len(blocks) /\ Len(blocks) \in Nat
      /\ \A b \in DOMAIN blocks : blocks[b] \in DOMAIN doc
      /\ Len(starts) \in Nat /\ DOMAIN starts = 1 .. Len(starts)
      /\ \A r \in DOMAIN starts : starts[r] \in DOMAIN blocks
  BY <1>1, BlocksAreRead
<1>3. /\ NextStart(start) \in Nat /\ NextStart(start) <= Len(blocks) + 1
  BY <1>1, NextStarts
<1>4. at \in DOMAIN blocks /\ starts[start] \in DOMAIN blocks /\ starts[start] < at
  BY <1>1, <1>2, <1>3
<1>5. blocks[at] \in BlocksUnder(start)
  BY <1>1, <1>4, BlocksBetween
<1>6. ASSUME NEW b \in Taken
      PROVE  b \in DOMAIN blocks /\ b < at
  <2>1. PICK s \in DOMAIN starts : /\ s <= start /\ b \in DOMAIN blocks
                                   /\ b < IF s = start THEN at ELSE NextStart(s)
    BY <1>6 DEF Taken
  <2>2. CASE s = start
    BY <2>1, <2>2
  <2>3. CASE s # start
    <3>1. s < start
      BY <1>2, <2>1, <2>3
    <3>2. NextStart(s) \in Nat /\ NextStart(s) <= starts[start]
      BY <1>1, <3>1, NextStarts
    <3> QED
      BY <1>2, <1>4, <2>1, <2>3, <3>2
  <2> QED
    BY <2>2, <2>3
<1>7. \A b \in DOMAIN blocks : starts[start] < b /\ b < at => b \in Taken
  BY <1>2 DEF Taken
<1> QED
  BY <1>2, <1>4, <1>5, <1>6, <1>7

\* TakeBlock takes the block at hand, EndSection none.
LEMMA TakenGrows ==
    ASSUME ParsingTypeOK, start \in DOMAIN starts, at < NextStart(start),
           at' = at + 1, UNCHANGED <<doc, blocks, starts, start>>
    PROVE  Taken' = Taken \union {at}
<1>1. at \in DOMAIN blocks /\ at \in Nat /\ starts[start] < at
  BY AtBlock, BlocksAreRead DEF ParsingTypeOK
<1>2. \A s : NextStart(s)' = NextStart(s)
  BY ReadOnly
<1>3. \A b \in DOMAIN blocks : b \in Nat
  BY BlocksAreRead DEF ParsingTypeOK
<1>4. start \in Nat
  BY DEF ParsingTypeOK
<1>5. \A b : b \in Taken' <=> /\ b \in DOMAIN blocks
                              /\ \E s \in DOMAIN starts :
                                   s <= start /\ starts[s] < b /\ b < IF s = start THEN at + 1 ELSE NextStart(s)
  BY <1>2 DEF Taken
<1>6. \A b : b \in Taken <=> /\ b \in DOMAIN blocks
                             /\ \E s \in DOMAIN starts :
                                  s <= start /\ starts[s] < b /\ b < IF s = start THEN at ELSE NextStart(s)
  BY DEF Taken
<1>7. ASSUME NEW b \in Taken'
      PROVE  b \in Taken \/ b = at
  <2>1. b \in DOMAIN blocks
    BY <1>5
  <2>2. PICK s \in DOMAIN starts :
           s <= start /\ starts[s] < b /\ b < IF s = start THEN at + 1 ELSE NextStart(s)
    BY <1>5, <1>7
  <2>3. b < at + 1 => b < at \/ b = at
    BY <1>1, <1>3, <2>1
  <2> QED
    BY <1>6, <2>1, <2>2, <2>3
<1>8. ASSUME NEW b \in Taken
      PROVE  b \in Taken'
  <2>1. b \in DOMAIN blocks /\ b \in Nat
    BY <1>3, <1>6
  <2>2. PICK s \in DOMAIN starts :
           s <= start /\ starts[s] < b /\ b < IF s = start THEN at ELSE NextStart(s)
    BY <1>6, <1>8
  <2>3. b < at => b < at + 1
    BY <1>1, <2>1
  <2> QED
    BY <1>5, <2>1, <2>2, <2>3
<1>9. at \in Taken'
  BY <1>1, <1>4, <1>5
<1> QED
  BY <1>7, <1>8, <1>9

\* The end of a section takes no block.
LEMMA TakenStays ==
    ASSUME ParsingTypeOK, start \in DOMAIN starts, at >= NextStart(start),
           start' = start + 1,
           at' = IF start' \in DOMAIN starts THEN starts[start'] + 1 ELSE at,
           UNCHANGED <<doc, blocks, starts>>
    PROVE  Taken' = Taken
<1>1. FilingRead /\ at \in starts[start] + 1 .. NextStart(start)
  BY DEF ParsingTypeOK
<1>2. /\ \A b \in DOMAIN blocks : b \in Nat
      /\ DOMAIN starts = 1 .. Len(starts) /\ Len(starts) \in Nat
      /\ \A s \in DOMAIN starts : starts[s] \in Nat
  BY <1>1, BlocksAreRead
<1>3. NextStart(start) \in Nat /\ at = NextStart(start)
  BY <1>1, <1>2, NextStarts
<1>4. \A s : NextStart(s)' = NextStart(s)
  BY ReadOnly
<1>5. \A b : b \in Taken' <=> /\ b \in DOMAIN blocks
                              /\ \E s \in DOMAIN starts :
                                   /\ s <= start + 1 /\ starts[s] < b
                                   /\ b < IF s = start + 1 THEN starts[s] + 1 ELSE NextStart(s)
  BY <1>4 DEF Taken
<1>6. \A b : b \in Taken <=> /\ b \in DOMAIN blocks
                             /\ \E s \in DOMAIN starts :
                                  s <= start /\ starts[s] < b /\ b < IF s = start THEN at ELSE NextStart(s)
  BY DEF Taken
<1>7. ASSUME NEW b \in Taken'
      PROVE  b \in Taken
  <2>1. b \in DOMAIN blocks /\ b \in Nat
    BY <1>2, <1>5, <1>7
  <2>2. PICK s \in DOMAIN starts : /\ s <= start + 1 /\ starts[s] < b
                                   /\ b < IF s = start + 1 THEN starts[s] + 1 ELSE NextStart(s)
    BY <1>5, <1>7
  <2>3. s # start + 1
    BY <1>2, <2>1, <2>2
  <2>4. s <= start
    BY <1>2, <2>2, <2>3
  <2> QED
    BY <1>3, <1>6, <2>1, <2>2, <2>3, <2>4
<1>8. ASSUME NEW b \in Taken
      PROVE  b \in Taken'
  <2>1. b \in DOMAIN blocks
    BY <1>6, <1>8
  <2>2. PICK s \in DOMAIN starts :
           s <= start /\ starts[s] < b /\ b < IF s = start THEN at ELSE NextStart(s)
    BY <1>6, <1>8
  <2>3. s # start + 1 /\ s <= start + 1
    BY <1>2, <2>2
  <2> QED
    BY <1>3, <1>5, <2>1, <2>2, <2>3
<1> QED
  BY <1>7, <1>8

\* A table that is still there when its block is taken is still whole.
LEMMA TablesWhole ==
    ASSUME ParsingTypeOK, RemovedTables, start \in DOMAIN starts, at < NextStart(start),
           NEW t \in Under(blocks[at]), doc[t].kind = "table", t \notin gone
    PROVE  Under(t) \intersect gone = {}
<1>1. FilingRead /\ gone \subseteq DOMAIN doc
  BY DEF ParsingTypeOK
<1>2. /\ at \in DOMAIN blocks /\ blocks[at] \in DOMAIN doc
      /\ \A b \in Taken : b \in DOMAIN blocks /\ b < at
  BY AtBlock
<1>3. SUFFICES ASSUME NEW n \in gone, n \in Under(t)
               PROVE  FALSE
  OBVIOUS
<1>4. PICK b \in Taken : \E u \in Under(blocks[b]) : doc[u].kind = "table" /\ n \in Under(u)
  BY <1>3 DEF RemovedTables
<1>5. PICK u \in Under(blocks[b]) : doc[u].kind = "table" /\ n \in Under(u)
  BY <1>4
<1>6. blocks[b] \in DOMAIN doc /\ blocks[b] < blocks[at]
  BY <1>1, <1>2, BlocksAreRead
<1>7. u \in DOMAIN doc /\ t \in DOMAIN doc /\ blocks[at] <= t /\ blocks[b] <= u
  BY <1>1, <1>2, <1>6, TreesNest
<1>8. u \in gone
  BY <1>5 DEF RemovedTables
<1>9. Under(u) \subseteq gone
  BY <1>8 DEF RemovedTables
<1>10. u \in Nat /\ t \in Nat /\ blocks[at] \in Nat /\ blocks[b] \in Nat
  BY <1>1, <1>2, <1>6, <1>7, TreesNest
<1>11. CASE u <= t
  <2>1. t \in Under(u)
    BY <1>1, <1>3, <1>5, <1>7, <1>11, TreesNest
  <2> QED
    BY <1>9, <2>1
<1>12. CASE t <= u
  <2>1. u \in Under(t)
    BY <1>1, <1>3, <1>5, <1>7, <1>12, TreesNest
  <2>2. blocks[b] <= t
    BY <1>6, <1>7, <1>10
  <2>3. u \in Under(t) \intersect Under(blocks[b])
    BY <2>1
  <2>4. t \in Under(blocks[b])
    BY <1>1, <1>6, <1>7, <2>2, <2>3, TreesNest
  <2> QED
    BY <2>4 DEF RemovedTables
<1> QED
  BY <1>10, <1>11, <1>12

\* What a block says once its tables are gone is in no table, unless the section's
\* heading is in it too.
LEMMA TextIsOutside ==
    ASSUME ParsingTypeOK, RemovedTables, start \in DOMAIN starts, at < NextStart(start),
           NEW n \in TextsIn(blocks[at], Without(TablesOf(blocks[at])))
    PROVE  RunsUnder(start, Phrase(n))
<1> DEFINE block == blocks[at]
           heading == blocks[starts[start]]
<1>1. FilingRead
  BY DEF ParsingTypeOK
<1>2. /\ at \in DOMAIN blocks /\ block \in DOMAIN doc
      /\ starts[start] \in DOMAIN blocks /\ starts[start] < at
      /\ \A b \in DOMAIN blocks : starts[start] < b /\ b < at => b \in Taken
  BY AtBlock
<1>3. n \in Under(block) /\ n \notin Without(TablesOf(block)) /\ doc[n].kind \in Texts
  BY DEF TextsIn
<1>4. n \in DOMAIN doc
  BY <1>1, <1>2, <1>3, TreesNest
<1>5. /\ heading \in DOMAIN doc /\ heading < block
      /\ \A b \in DOMAIN blocks : b \in Nat
  BY <1>1, <1>2, BlocksAreRead
<1>6. n \notin gone /\ \A t \in TablesOf(block) : n \notin Under(t)
  BY <1>3 DEF Without
<1>7. ASSUME NEW t \in 1 .. n - 1, doc[t].kind = "table", n \in Under(t)
      PROVE  heading \in Under(t)
  <2>1. t \in DOMAIN doc /\ t \in Nat /\ block \in Nat /\ heading \in Nat
    <3>1. n \in 1 .. Len(doc)
      BY <1>1, <1>4, ParsingAssumption DEF FilingRead, Document
    <3>2. DOMAIN doc = 1 .. Len(doc) /\ Len(doc) \in Nat
      BY <1>1, ParsingAssumption DEF FilingRead, Document
    <3> QED
      BY <1>2, <1>5, <3>1, <3>2
  <2>2. ~(block <= t)
    <3>1. SUFFICES ASSUME block <= t
                   PROVE  FALSE
      OBVIOUS
    <3>2. t \in Under(block)
      BY <1>1, <1>2, <1>3, <1>7, <2>1, <3>1, TreesNest
    <3>3. t \in gone
      BY <1>6, <1>7, <3>2 DEF TablesOf
    <3>4. Under(t) \subseteq gone
      BY <3>3 DEF RemovedTables
    <3> QED
      BY <1>6, <1>7, <3>4
  <2>3. block \in Under(t)
    <3>1. t <= block
      BY <2>1, <2>2
    <3> QED
      BY <1>1, <1>2, <1>3, <1>7, <2>1, <3>1, TreesNest
  <2>4. Said(t, {}) # <<>>
    <3>1. n \in TextsIn(t, {})
      BY <1>3, <1>7 DEF TextsIn
    <3> QED
      BY <1>1, <2>1, <3>1, SaidLists
  <2>5. PICK b \in DOMAIN blocks : blocks[b] = t
    BY <1>1, <1>7, <2>1, <2>4, BlocksAreRead
  <2>6. b < at
    BY <1>1, <1>2, <2>1, <2>2, <2>5, BlocksAreRead
  <2>7. ~(starts[start] < b)
    <3>1. SUFFICES ASSUME starts[start] < b
                   PROVE  FALSE
      OBVIOUS
    <3>2. b \in Taken
      BY <1>2, <2>6, <3>1
    <3>3. t \in Under(blocks[b])
      BY <1>1, <2>1, <2>5, TreesNest
    <3>4. t \in gone
      BY <1>7, <3>2, <3>3 DEF RemovedTables
    <3>5. Under(t) \subseteq gone
      BY <3>4 DEF RemovedTables
    <3> QED
      BY <1>6, <1>7, <3>5
  <2>8. t <= heading
    <3>1. starts[start] = b \/ b < starts[start]
      BY <1>2, <1>5, <2>7
    <3>2. b < starts[start] => blocks[b] < heading
      BY <1>1, <1>2, BlocksAreRead
    <3> QED
      BY <2>1, <2>5, <3>1, <3>2
  <2>9. doc[t].last \in Nat
    BY <1>1, <2>1, TreesNest DEF Node
  <2> QED
    BY <1>5, <2>1, <2>3, <2>8, <2>9 DEF Under
<1> QED
  BY <1>4, <1>7 DEF RunsUnder

\* Of the tables that are left in a block the outermost are converted; each table
\* is in one of them.
LEMMA OutermostFound ==
    ASSUME FilingRead, NEW ts \in SUBSET DOMAIN doc, NEW t \in ts
    PROVE  \E u \in Outermost(ts) : t \in Under(u)
<1> DEFINE around == {u \in ts : t \in Under(u)}
<1>1. around \in SUBSET Nat
  BY TreesNest
<1>2. t \in around
  BY TreesNest
<1>3. \A x \in around : x \in ts /\ t \in Under(x) /\ x \in DOMAIN doc /\ x \in Nat
  BY <1>1
<1>4. \A x \in ts : t \in Under(x) => x \in around
  OBVIOUS
<1> HIDE DEF around
<1>5. PICK u \in around : \A x \in around : u <= x
  BY <1>1, <1>2, LowestNumber
<1>6. ASSUME NEW v \in ts, v # u, u \in Under(v)
      PROVE  FALSE
  <2>1. u \in DOMAIN doc /\ v \in DOMAIN doc /\ t \in Under(u)
    BY <1>3
  <2>2. t \in Under(v) /\ v <= u
    BY <1>6, <2>1, TreesNest
  <2>3. v \in around /\ v \in Nat /\ u \in Nat
    BY <1>3, <1>4, <2>2
  <2> QED
    BY <1>5, <1>6, <2>2, <2>3
<1> QED
  BY <1>3, <1>6 DEF Outermost

\* What one block adds to the tables: each is what an outermost one says, and what
\* any of them says is in one of them.
Converted == Ascending(Outermost(TablesOf(blocks[at])))

\* What a block loses is in one of its tables that are converted.
LEMMA TablesConverted ==
    ASSUME ParsingTypeOK, RemovedTables, start \in DOMAIN starts, at < NextStart(start)
    PROVE  LET texts == NonEmpty([i \in DOMAIN Converted |-> Said(Converted[i], gone)])
           IN  /\ texts \in Seq(Seq(Phrases))
               /\ \A text \in Range(texts) : \A p \in Range(text) :
                     \E n \in Under(blocks[at]) : p = Phrase(n)
               /\ \A t \in TablesOf(blocks[at]) : Said(t, {}) # <<>> =>
                     \E text \in Range(texts) : Range(Said(t, {})) \subseteq Range(text)
<1> DEFINE block == blocks[at]
           outer == Outermost(TablesOf(block))
           N == Cardinality(outer)
           says == [i \in DOMAIN Converted |-> Said(Converted[i], gone)]
           full == {i \in DOMAIN says : says[i] # <<>>}
           texts == NonEmpty(says)
<1>1. FilingRead
  BY DEF ParsingTypeOK
<1>2. block \in DOMAIN doc
  BY AtBlock
<1>3. \A t \in TablesOf(block) : /\ t \in Under(block) /\ t \in DOMAIN doc /\ t \notin gone
                                 /\ doc[t].kind = "table"
  BY <1>1, <1>2, TreesNest DEF TablesOf
<1>4. outer \subseteq TablesOf(block)
  BY DEF Outermost
<1>5. outer \in SUBSET Nat /\ IsFiniteSet(outer)
  <2>1. outer \subseteq DOMAIN doc
    BY <1>3, <1>4
  <2> QED
    BY <1>1, <2>1, TreesNest, FS_Subset
<1>6. \A t \in TablesOf(block) : \E u \in outer : t \in Under(u)
  BY <1>1, <1>3, OutermostFound
<1>7. Converted = Ascending(outer)
  BY DEF Converted
<1> HIDE DEF outer, block
<1>8. /\ N \in Nat /\ Converted \in [1 .. N -> outer]
      /\ \A u \in outer : \E i \in 1 .. N : Converted[i] = u
  BY <1>5, <1>7, AscendingLists
<1> HIDE DEF N
<1>9. \A i \in 1 .. N : Converted[i] \in TablesOf(block) /\ Converted[i] \in DOMAIN doc
  BY <1>3, <1>4, <1>8
<1>10. \A i \in 1 .. N : Said(Converted[i], gone) \in Seq(Phrases)
  BY <1>1, <1>9, SaidLists
<1>11. says \in [1 .. N -> Seq(Phrases)] /\ \A i \in 1 .. N : says[i] = Said(Converted[i], gone)
  BY <1>8, <1>10
<1> HIDE DEF says
<1>12. says \in Seq(Seq(Phrases)) /\ DOMAIN says = 1 .. N
  BY <1>8, <1>11
<1>13. full \in SUBSET DOMAIN says
  OBVIOUS
<1>14. texts = Kept(says, full)
  BY DEF NonEmpty
<1>15. \A i \in DOMAIN says : i \in full <=> says[i] # <<>>
  OBVIOUS
<1> HIDE DEF texts, full
<1>16. /\ texts \in Seq(Seq(Phrases))
       /\ {texts[n] : n \in DOMAIN texts} = {says[i] : i \in full}
  <2>1. /\ Kept(says, full) \in Seq(Seq(Phrases))
        /\ {Kept(says, full)[n] : n \in DOMAIN Kept(says, full)} = {says[i] : i \in full}
    BY <1>12, <1>13, KeptLists
  <2> QED
    BY <1>14, <2>1
<1>17. Range(texts) = {says[i] : i \in full}
  BY <1>16 DEF Range
<1>18. ASSUME NEW text \in Range(texts), NEW p \in Range(text)
       PROVE  \E n \in Under(block) : p = Phrase(n)
  <2>1. PICK i \in 1 .. N : text = Said(Converted[i], gone)
    BY <1>11, <1>12, <1>13, <1>17
  <2>2. PICK n \in TextsIn(Converted[i], gone) : p = Phrase(n)
    BY <1>1, <1>9, <1>18, <2>1, SaidLists
  <2>3. Under(Converted[i]) \subseteq Under(block)
    BY <1>1, <1>2, <1>3, <1>9, TreesNest DEF block
  <2> QED
    BY <2>2, <2>3 DEF TextsIn
<1>19. ASSUME NEW t \in TablesOf(block), Said(t, {}) # <<>>
       PROVE  \E text \in Range(texts) : Range(Said(t, {})) \subseteq Range(text)
  <2>1. PICK u \in outer : t \in Under(u)
    BY <1>6
  <2>2. PICK i \in 1 .. N : Converted[i] = u
    BY <1>8
  <2>3. u \in TablesOf(block) /\ u \in DOMAIN doc /\ t \in DOMAIN doc
    BY <1>3, <1>9, <2>2
  <2>4. Under(u) \intersect gone = {}
    BY <1>3, <2>3, TablesWhole DEF block
  <2>5. Under(t) \subseteq Under(u)
    BY <1>1, <2>1, <2>3, TreesNest
  <2>6. TextsIn(t, {}) \subseteq TextsIn(u, gone)
    BY <2>4, <2>5 DEF TextsIn
  <2>7. Range(Said(t, {})) \subseteq Range(Said(u, gone))
    <3>1. SUFFICES ASSUME NEW p \in Range(Said(t, {}))
                   PROVE  p \in Range(Said(u, gone))
      OBVIOUS
    <3>2. PICK m \in TextsIn(t, {}) : p = Phrase(m)
      BY <1>1, <2>3, SaidLists
    <3>3. m \in TextsIn(u, gone)
      BY <2>6
    <3> QED
      BY <1>1, <2>3, <3>2, <3>3, SaidLists
  <2>8. Said(u, gone) # <<>>
    <3>1. TextsIn(t, {}) # {}
      BY <1>1, <1>19, <2>3, SaidLists
    <3>2. TextsIn(u, gone) # {}
      BY <2>6, <3>1
    <3> QED
      BY <1>1, <2>3, <3>2, SaidLists
  <2>9. Said(u, gone) \in Range(texts)
    BY <1>11, <1>12, <1>15, <1>17, <2>2, <2>8
  <2> QED
    BY <2>7, <2>9
<1> QED
  BY <1>16, <1>18, <1>19 DEF texts, says, block

-----------------------------------------------------------------------------
\* A list without its repetitions has the same members.
LEMMA DedupedLists ==
    ASSUME NEW T, NEW s \in Seq(T)
    PROVE  Deduped(s) \in Seq(T) /\ Range(Deduped(s)) = Range(s)
<1> DEFINE first == {i \in DOMAIN s : \A j \in 1 .. i - 1 : s[j] # s[i]}
<1>1. DOMAIN s = 1 .. Len(s) /\ Len(s) \in Nat
  OBVIOUS
<1>2. ASSUME NEW i \in DOMAIN s
      PROVE  \E j \in first : s[j] = s[i]
  <2> DEFINE same == {j \in DOMAIN s : s[j] = s[i]}
  <2>1. same \in SUBSET Nat /\ i \in same
    BY <1>1
  <2>2. \A j \in DOMAIN s : j \in same <=> s[j] = s[i]
    OBVIOUS
  <2>3. same \subseteq DOMAIN s
    OBVIOUS
  <2> HIDE DEF same
  <2>4. PICK j \in same : \A x \in same : j <= x
    BY <2>1, LowestNumber
  <2>5. j \in DOMAIN s /\ s[j] = s[i]
    BY <2>2, <2>3
  <2>6. \A x \in 1 .. j - 1 : x \in DOMAIN s /\ ~(j <= x)
    BY <1>1, <2>5
  <2>7. \A x \in 1 .. j - 1 : s[x] # s[j]
    BY <2>2, <2>4, <2>5, <2>6
  <2> QED
    BY <2>5, <2>7
<1>3. Deduped(s) = Kept(s, first)
  BY DEF Deduped
<1>4. first \in SUBSET DOMAIN s
  OBVIOUS
<1> HIDE DEF first
<1>5. /\ Kept(s, first) \in Seq(T)
      /\ {Kept(s, first)[n] : n \in DOMAIN Kept(s, first)} = {s[i] : i \in first}
  BY <1>4, KeptLists
<1>6. Range(Deduped(s)) = {s[i] : i \in first}
  BY <1>3, <1>5 DEF Range
<1>7. {s[i] : i \in first} = {s[i] : i \in DOMAIN s}
  BY <1>2, <1>4
<1> QED
  BY <1>3, <1>5, <1>6, <1>7 DEF Range

\* The members of two lists joined.
LEMMA RangesJoin ==
    ASSUME NEW T, NEW s \in Seq(T), NEW t \in Seq(T)
    PROVE  /\ s \o t \in Seq(T)
           /\ \A x : x \in Range(s \o t) <=> x \in Range(s) \/ x \in Range(t)
<1>1. /\ DOMAIN s = 1 .. Len(s) /\ Len(s) \in Nat /\ DOMAIN t = 1 .. Len(t) /\ Len(t) \in Nat
      /\ s \o t \in Seq(T) /\ DOMAIN (s \o t) = 1 .. Len(s) + Len(t)
      /\ \A i \in 1 .. Len(s) + Len(t) : (s \o t)[i] = IF i <= Len(s) THEN s[i] ELSE t[i - Len(s)]
  OBVIOUS
<1>2. ASSUME NEW x \in Range(s)
      PROVE  x \in Range(s \o t)
  <2>1. PICK i \in DOMAIN s : x = s[i]
    BY DEF Range
  <2>2. i \in 1 .. Len(s) + Len(t) /\ (s \o t)[i] = x
    BY <1>1, <2>1
  <2> QED
    BY <1>1, <2>2 DEF Range
<1>3. ASSUME NEW x \in Range(t)
      PROVE  x \in Range(s \o t)
  <2>1. PICK i \in DOMAIN t : x = t[i]
    BY DEF Range
  <2>2. Len(s) + i \in 1 .. Len(s) + Len(t) /\ (s \o t)[Len(s) + i] = x
    BY <1>1, <2>1
  <2> QED
    BY <1>1, <2>2 DEF Range
<1>4. ASSUME NEW x \in Range(s \o t)
      PROVE  x \in Range(s) \/ x \in Range(t)
  <2>1. PICK i \in 1 .. Len(s) + Len(t) : x = (s \o t)[i]
    BY <1>1 DEF Range
  <2>2. CASE i <= Len(s)
    BY <1>1, <2>1, <2>2 DEF Range
  <2>3. CASE ~(i <= Len(s))
    <3>1. i - Len(s) \in DOMAIN t
      BY <1>1, <2>3
    <3> QED
      BY <1>1, <2>1, <2>3, <3>1 DEF Range
  <2> QED
    BY <2>2, <2>3
<1> QED
  BY <1>1, <1>2, <1>3, <1>4

\* The members of a list with one more.
LEMMA RangeGrows ==
    ASSUME NEW T, NEW s \in Seq(T), NEW x \in T
    PROVE  /\ Append(s, x) \in Seq(T)
           /\ \A y : y \in Range(Append(s, x)) <=> y \in Range(s) \/ y = x
<1>1. /\ DOMAIN s = 1 .. Len(s) /\ Len(s) \in Nat
      /\ Append(s, x) \in Seq(T) /\ DOMAIN Append(s, x) = 1 .. Len(s) + 1
      /\ \A i \in 1 .. Len(s) : Append(s, x)[i] = s[i]
      /\ Append(s, x)[Len(s) + 1] = x
  OBVIOUS
<1>2. \A i : i \in 1 .. Len(s) + 1 <=> i \in 1 .. Len(s) \/ i = Len(s) + 1
  BY <1>1
<1> QED
  BY <1>1, <1>2 DEF Range

-----------------------------------------------------------------------------
(***************************************************************************)
(* Filings: a block is taken                                               *)
(***************************************************************************)

\* The step, as the lemmas use it.
BlockTaken ==
    /\ ParsingTypeOK /\ RemovedTables
    /\ start \in DOMAIN starts /\ at < NextStart(start)
    /\ gone' = Without(TablesOf(blocks[at])) /\ at' = at + 1
    /\ UNCHANGED <<doc, blocks, starts, start, sections>>
    /\ \E texts \in Seq(Seq(Phrases)) :
         /\ tables' = tables \o texts
         /\ \A text \in Range(texts) : \A p \in Range(text) :
               \E n \in Under(blocks[at]) : p = Phrase(n)
         /\ \A t \in TablesOf(blocks[at]) : Said(t, {}) # <<>> =>
               \E text \in Range(texts) : Range(Said(t, {})) \subseteq Range(text)
    /\ LET text == Said(blocks[at], Without(TablesOf(blocks[at])))
       IN  \/ paragraphs' = paragraphs /\ (text = <<>> \/ IsA("toc", text))
           \/ paragraphs' = Append(paragraphs, text)

\* TakeBlock is such a step.
LEMMA TakeBlockTakes ==
    ASSUME ParsingTypeOK, RemovedTables, TakeBlock
    PROVE  BlockTaken
<1> DEFINE texts == NonEmpty([i \in DOMAIN Converted |-> Said(Converted[i], gone)])
<1>1. start \in DOMAIN starts /\ at < NextStart(start)
  BY DEF TakeBlock
<1>2. /\ tables' = tables \o texts
      /\ gone' = Without(TablesOf(blocks[at])) /\ at' = at + 1
      /\ UNCHANGED <<doc, blocks, starts, start, sections>>
      /\ LET text == Said(blocks[at], Without(TablesOf(blocks[at])))
         IN  \/ paragraphs' = paragraphs /\ (text = <<>> \/ IsA("toc", text))
             \/ paragraphs' = Append(paragraphs, text)
  BY DEF TakeBlock, Collects, Converted
<1>3. /\ texts \in Seq(Seq(Phrases))
      /\ \A text \in Range(texts) : \A p \in Range(text) :
            \E n \in Under(blocks[at]) : p = Phrase(n)
      /\ \A t \in TablesOf(blocks[at]) : Said(t, {}) # <<>> =>
            \E text \in Range(texts) : Range(Said(t, {})) \subseteq Range(text)
  BY <1>1, TablesConverted
<1> HIDE DEF texts
<1> QED
  BY <1>1, <1>2, <1>3 DEF BlockTaken

\* What is removed with the tables of the block at hand.
LEMMA RemovedWith ==
    ASSUME ParsingTypeOK, start \in DOMAIN starts, at < NextStart(start)
    PROVE  /\ Without(TablesOf(blocks[at])) \subseteq DOMAIN doc
           /\ gone \subseteq Without(TablesOf(blocks[at]))
           /\ \A n \in Without(TablesOf(blocks[at])) :
                n \in gone \/ \E t \in TablesOf(blocks[at]) : n \in Under(t)
           /\ \A t \in TablesOf(blocks[at]) :
                /\ t \in Under(blocks[at]) /\ t \in DOMAIN doc /\ doc[t].kind = "table"
                /\ t \notin gone /\ Under(t) \subseteq Without(TablesOf(blocks[at]))
           /\ \A t \in Under(blocks[at]) : doc[t].kind = "table" =>
                t \in gone \/ t \in TablesOf(blocks[at])
<1>1. FilingRead /\ gone \subseteq DOMAIN doc /\ blocks[at] \in DOMAIN doc
  BY AtBlock DEF ParsingTypeOK
<1>2. \A t \in TablesOf(blocks[at]) : t \in Under(blocks[at]) /\ doc[t].kind = "table" /\ t \notin gone
  BY DEF TablesOf
<1>3. \A t \in TablesOf(blocks[at]) : t \in DOMAIN doc /\ Under(t) \subseteq DOMAIN doc
  BY <1>1, <1>2, TreesNest
<1>4. \A t \in Under(blocks[at]) : doc[t].kind = "table" => t \in gone \/ t \in TablesOf(blocks[at])
  BY DEF TablesOf
<1>5. \A n : n \in Without(TablesOf(blocks[at])) <=>
               n \in gone \/ \E t \in TablesOf(blocks[at]) : n \in Under(t)
  BY DEF Without
<1> QED
  BY <1>1, <1>2, <1>3, <1>4, <1>5

\* The types after a block.
LEMMA TakeBlockTypes == BlockTaken => ParsingTypeOK'
<1> SUFFICES ASSUME BlockTaken PROVE ParsingTypeOK'
  OBVIOUS
<1>1. /\ ParsingTypeOK /\ FilingRead /\ start \in DOMAIN starts /\ at < NextStart(start)
      /\ at' = at + 1 /\ UNCHANGED <<doc, blocks, starts, start, sections>>
  BY DEF BlockTaken, ParsingTypeOK
<1>2. FilingRead' /\ NextStart(start)' = NextStart(start)
  BY <1>1, ReadOnly
<1>3. gone' \subseteq DOMAIN doc
  BY <1>1, RemovedWith DEF BlockTaken
<1>4. at' \in starts[start] + 1 .. NextStart(start)
  <2>1. at \in DOMAIN blocks /\ starts[start] \in DOMAIN blocks /\ starts[start] < at
    BY <1>1, AtBlock
  <2>2. at \in Nat /\ starts[start] \in Nat /\ NextStart(start) \in Nat
    BY <1>1, <2>1, BlocksAreRead, NextStarts
  <2> QED
    BY <1>1, <2>1, <2>2
<1>5. paragraphs \in Seq(Seq(Phrases)) /\ tables \in Seq(Seq(Phrases))
  BY <1>1 DEF ParsingTypeOK
<1>6. tables' \in Seq(Seq(Phrases))
  <2>1. PICK texts \in Seq(Seq(Phrases)) : tables' = tables \o texts
    BY DEF BlockTaken
  <2> QED
    BY <1>5, <2>1, RangesJoin
<1>7. paragraphs' \in Seq(Seq(Phrases))
  <2> DEFINE text == Said(blocks[at], Without(TablesOf(blocks[at])))
  <2>1. text \in Seq(Phrases)
    BY <1>1, AtBlock, SaidLists
  <2>2. paragraphs' = paragraphs \/ paragraphs' = Append(paragraphs, text)
    BY DEF BlockTaken
  <2> HIDE DEF text
  <2>3. Append(paragraphs, text) \in Seq(Seq(Phrases))
    BY <1>5, <2>1, RangeGrows
  <2> QED
    BY <1>5, <2>2, <2>3
<1> QED
  BY <1>1, <1>2, <1>3, <1>4, <1>6, <1>7 DEF ParsingTypeOK

\* What is removed is still the tables of the blocks taken.
LEMMA TakeBlockRemoves == BlockTaken => RemovedTables'
<1> SUFFICES ASSUME BlockTaken PROVE RemovedTables'
  OBVIOUS
<1> DEFINE block == blocks[at]
<1>1. /\ ParsingTypeOK /\ FilingRead /\ RemovedTables
      /\ start \in DOMAIN starts /\ at < NextStart(start) /\ gone' = Without(TablesOf(block))
      /\ at' = at + 1 /\ UNCHANGED <<doc, blocks, starts, start>>
  BY DEF BlockTaken, ParsingTypeOK
<1>2. /\ gone \subseteq gone'
      /\ \A n \in gone' : n \in gone \/ \E t \in TablesOf(block) : n \in Under(t)
      /\ \A t \in TablesOf(block) : /\ t \in Under(block) /\ t \in DOMAIN doc
                                    /\ doc[t].kind = "table" /\ Under(t) \subseteq gone'
      /\ \A t \in Under(block) : doc[t].kind = "table" => t \in gone \/ t \in TablesOf(block)
  BY <1>1, RemovedWith
<1>3. Taken' = Taken \union {at}
  BY <1>1, TakenGrows
<1>4. \A n : Under(n)' = Under(n)
  BY <1>1, ReadOnly
<1> HIDE DEF block
<1>5. ASSUME NEW n \in gone'
      PROVE  Under(n) \subseteq gone'
  <2>1. CASE n \in gone
    BY <1>1, <1>2, <2>1 DEF RemovedTables
  <2>2. CASE \E t \in TablesOf(block) : n \in Under(t)
    <3>1. PICK t \in TablesOf(block) : n \in Under(t)
      BY <2>2
    <3>2. Under(n) \subseteq Under(t)
      BY <1>1, <1>2, <3>1, TreesNest
    <3> QED
      BY <1>2, <3>2
  <2> QED
    BY <1>2, <1>5, <2>1, <2>2
<1>6. ASSUME NEW b \in Taken', NEW t \in Under(blocks[b]), doc[t].kind = "table"
      PROVE  t \in gone'
  <2>1. CASE b \in Taken
    BY <1>1, <1>2, <1>6, <2>1 DEF RemovedTables
  <2>2. CASE b = at
    <3>1. t \in gone \/ t \in TablesOf(block)
      BY <1>2, <1>6, <2>2 DEF block
    <3>2. t \in TablesOf(block) => t \in Under(t)
      BY <1>1, <1>2, TreesNest
    <3> QED
      BY <1>2, <3>1, <3>2
  <2> QED
    BY <1>3, <1>6, <2>1, <2>2
<1>7. ASSUME NEW n \in gone'
      PROVE  \E b \in Taken' : \E t \in Under(blocks[b]) : doc[t].kind = "table" /\ n \in Under(t)
  <2>1. CASE n \in gone
    BY <1>1, <1>3, <2>1 DEF RemovedTables
  <2>2. CASE \E t \in TablesOf(block) : n \in Under(t)
    BY <1>2, <1>3, <2>2 DEF block
  <2> QED
    BY <1>2, <1>7, <2>1, <2>2
<1>8. \A b \in Taken' : {t \in Under(blocks[b]) : doc[t].kind = "table"} \subseteq gone'
  BY <1>6
<1> QED
  BY <1>1, <1>4, <1>5, <1>7, <1>8 DEF RemovedTables

\* What is under a heading, and where text runs, are matters of the filing only.
LEMMA SourcesStay ==
    ASSUME UNCHANGED <<doc, blocks, starts>>
    PROVE  /\ \A s, paras, tabs : ComesFrom(s, paras, tabs)' = ComesFrom(s, paras, tabs)
           /\ \A n : TextIn(n)' = TextIn(n)
           /\ \A s : TextUnder(s)' = TextUnder(s)
BY DEF ComesFrom, SaidUnder, RunsUnder, Phrase, Under, BlocksUnder, TextUnder, TextIn, InTable

\* What a block adds to the lists is from under the heading.
LEMMA TakeBlockSources == BlockTaken /\ SectionsFromHeadings => SectionsFromHeadings'
<1> SUFFICES ASSUME BlockTaken, SectionsFromHeadings PROVE SectionsFromHeadings'
  OBVIOUS
<1> DEFINE block == blocks[at]
           text == Said(block, Without(TablesOf(block)))
           under == {Phrase(n) : n \in UNION {Under(b) : b \in BlocksUnder(start)}}
<1>1. /\ ParsingTypeOK /\ FilingRead /\ RemovedTables
      /\ start \in DOMAIN starts /\ at < NextStart(start)
      /\ UNCHANGED <<doc, blocks, starts, start, sections>>
  BY DEF BlockTaken, ParsingTypeOK
<1>2. block \in DOMAIN doc /\ block \in BlocksUnder(start)
  BY <1>1, AtBlock
<1>3. \A n \in Under(block) : Phrase(n) \in under
  BY <1>2
<1>4. \A t : Range(t) \subseteq SaidUnder(start) <=> \A p \in Range(t) : p \in under
  BY DEF SaidUnder
<1>5. paragraphs \in Seq(Seq(Phrases)) /\ tables \in Seq(Seq(Phrases))
  BY <1>1 DEF ParsingTypeOK
<1>6. ComesFrom(start, paragraphs, tables)
  BY <1>1 DEF SectionsFromHeadings
<1> HIDE DEF under
<1>7. text \in Seq(Phrases) /\ Range(text) \subseteq SaidUnder(start) /\ \A p \in Range(text) : RunsUnder(start, p)
  <2>1. /\ text \in Seq(Phrases)
        /\ \A p : p \in Range(text) <=> \E m \in TextsIn(block, Without(TablesOf(block))) : p = Phrase(m)
    BY <1>1, <1>2, SaidLists
  <2>2. \A m \in TextsIn(block, Without(TablesOf(block))) : m \in Under(block) /\ RunsUnder(start, Phrase(m))
    BY <1>1, TextIsOutside DEF TextsIn
  <2> HIDE DEF text, block
  <2> QED
    BY <1>3, <1>4, <2>1, <2>2
<1>8. PICK texts \in Seq(Seq(Phrases)) :
         /\ tables' = tables \o texts
         /\ \A t \in Range(texts) : \A p \in Range(t) : \E n \in Under(block) : p = Phrase(n)
  BY DEF BlockTaken
<1>9. paragraphs' = paragraphs \/ paragraphs' = Append(paragraphs, text)
  BY DEF BlockTaken
<1> HIDE DEF text, block
<1>10. \A t \in Range(tables') : Range(t) \subseteq SaidUnder(start)
  <2>1. \A t : t \in Range(tables') <=> t \in Range(tables) \/ t \in Range(texts)
    BY <1>5, <1>8, RangesJoin
  <2>2. \A t \in Range(texts) : Range(t) \subseteq SaidUnder(start)
    BY <1>3, <1>4, <1>8
  <2> QED
    BY <1>6, <2>1, <2>2 DEF ComesFrom
<1>11. \A t \in Range(paragraphs') : Range(t) \subseteq SaidUnder(start) /\ \A p \in Range(t) : RunsUnder(start, p)
  <2>1. \A t : t \in Range(paragraphs') => t \in Range(paragraphs) \/ t = text
    <3>1. \A t : t \in Range(Append(paragraphs, text)) <=> t \in Range(paragraphs) \/ t = text
      BY <1>5, <1>7, RangeGrows
    <3> QED
      BY <1>9, <3>1
  <2>2. \A t \in Range(paragraphs) : Range(t) \subseteq SaidUnder(start) /\ \A p \in Range(t) : RunsUnder(start, p)
    BY <1>6 DEF ComesFrom
  <2> QED
    BY <1>7, <2>1, <2>2
<1>12. ComesFrom(start, paragraphs', tables')
  BY <1>10, <1>11 DEF ComesFrom
<1>13. /\ \A s, paras, tabs : ComesFrom(s, paras, tabs)' = ComesFrom(s, paras, tabs)
       /\ \A i : HeadingsOf(i)' = HeadingsOf(i)
       /\ \A s : TextUnder(s)' = TextUnder(s)
  BY <1>1, SourcesStay, ReadOnly
<1>14. ComesFrom(start, paragraphs, tables)'
  BY <1>1, <1>12, <1>13
<1> QED
  BY <1>1, <1>13, <1>14 DEF SectionsFromHeadings, SpokenIn

\* What a block says outside tables is still there when its tables are gone.
LEMMA TextRemains ==
    ASSUME ParsingTypeOK, RemovedTables, start \in DOMAIN starts, at < NextStart(start),
           NEW p \in TextIn(blocks[at])
    PROVE  /\ p \in Range(Said(blocks[at], Without(TablesOf(blocks[at]))))
           /\ p.kind # "toc"
<1> DEFINE removed == Without(TablesOf(blocks[at]))
<1>1. PICK m \in Under(blocks[at]) : /\ p = Phrase(m) /\ doc[m].kind \in {"heading", "text"}
                                    /\ ~InTable(m)
  BY DEF TextIn
<1>2. FilingRead /\ blocks[at] \in DOMAIN doc /\ m \in DOMAIN doc
  BY <1>1, AtBlock, TreesNest DEF ParsingTypeOK
<1>3. ASSUME NEW t \in DOMAIN doc, doc[t].kind = "table", m \in Under(t)
      PROVE  FALSE
  <2>1. t <= m /\ t # m /\ t \in Nat /\ m \in Nat /\ DOMAIN doc = 1 .. Len(doc)
    BY <1>1, <1>2, <1>3, TreesNest, ParsingAssumption DEF FilingRead, Document
  <2>2. t \in 1 .. m - 1
    BY <1>3, <2>1
  <2> QED
    BY <1>1, <1>3, <2>2 DEF InTable
<1>4. m \notin gone
  <2>1. SUFFICES ASSUME m \in gone PROVE FALSE
    OBVIOUS
  <2>2. PICK b \in Taken : \E t \in Under(blocks[b]) : doc[t].kind = "table" /\ m \in Under(t)
    BY <2>1 DEF RemovedTables
  <2>3. PICK t \in Under(blocks[b]) : doc[t].kind = "table" /\ m \in Under(t)
    BY <2>2
  <2>4. b \in DOMAIN blocks
    BY DEF Taken
  <2>5. t \in DOMAIN doc
    BY <1>2, <2>3, <2>4, BlocksAreRead, TreesNest
  <2> QED
    BY <1>3, <2>3, <2>5
<1>5. m \notin removed
  BY <1>3, <1>4, RemovedWith
<1> HIDE DEF removed
<1>6. m \in TextsIn(blocks[at], removed)
  BY <1>1, <1>5 DEF TextsIn, Texts
<1>7. p \in Range(Said(blocks[at], removed))
  BY <1>1, <1>2, <1>6, SaidLists
<1>8. p.kind = doc[m].kind
  BY <1>1 DEF Phrase
<1> QED
  BY <1>1, <1>7, <1>8 DEF removed

\* What a block says is collected, lines of contents apart.
LEMMA TakeBlockCollects == BlockTaken /\ TextCollected => TextCollected'
<1> SUFFICES ASSUME BlockTaken, TextCollected PROVE TextCollected'
  OBVIOUS
<1> DEFINE text == Said(blocks[at], Without(TablesOf(blocks[at])))
<1>1. /\ ParsingTypeOK /\ FilingRead /\ RemovedTables
      /\ start \in DOMAIN starts /\ at < NextStart(start) /\ at' = at + 1
      /\ UNCHANGED <<doc, blocks, starts, start, sections>>
  BY DEF BlockTaken, ParsingTypeOK
<1>2. /\ \A n : TextIn(n)' = TextIn(n)
      /\ \A s : TextUnder(s)' = TextUnder(s)
      /\ \A s : ItemAt(s)' = ItemAt(s)
  BY <1>1, SourcesStay, ReadOnly
<1>3. text \in Seq(Phrases) /\ paragraphs \in Seq(Seq(Phrases))
  BY <1>1, AtBlock, SaidLists DEF ParsingTypeOK
<1>4. \A p \in TextIn(blocks[at]) : p \in Range(text) /\ p.kind # "toc"
  BY <1>1, TextRemains
<1>5. \/ paragraphs' = paragraphs /\ (text = <<>> \/ IsA("toc", text))
      \/ paragraphs' = Append(paragraphs, text)
  BY DEF BlockTaken
<1> HIDE DEF text
<1>6. SpokenIn(paragraphs) \subseteq SpokenIn(paragraphs') /\ TextIn(blocks[at]) \subseteq SpokenIn(paragraphs')
  <2>1. CASE paragraphs' = paragraphs /\ (text = <<>> \/ IsA("toc", text))
    <3>1. ASSUME NEW p \in TextIn(blocks[at])
          PROVE  FALSE
      <4>1. PICK i \in DOMAIN text : p = text[i]
        BY <1>4 DEF Range
      <4>2. Len(text) = 1 /\ text[1].kind = "toc"
        BY <1>3, <2>1, <4>1 DEF IsA
      <4>3. i = 1
        BY <1>3, <4>1, <4>2
      <4> QED
        BY <1>4, <4>1, <4>2, <4>3
    <3> QED
      BY <2>1, <3>1
  <2>2. CASE paragraphs' = Append(paragraphs, text)
    <3>1. \A t : t \in Range(paragraphs') <=> t \in Range(paragraphs) \/ t = text
      BY <1>3, <2>2, RangeGrows
    <3> QED
      BY <1>4, <3>1 DEF SpokenIn
  <2> QED
    BY <1>5, <2>1, <2>2
<1>7. ASSUME NEW b \in DOMAIN blocks, starts[start] < b, b < at'
      PROVE  TextIn(blocks[b]) \subseteq SpokenIn(paragraphs')
  <2>1. b \in Nat /\ at \in Nat
    BY <1>1, AtBlock, BlocksAreRead
  <2>2. b < at \/ b = at
    BY <1>1, <1>7, <2>1
  <2> QED
    BY <1>1, <1>6, <1>7, <2>2 DEF TextCollected
<1> QED
  BY <1>1, <1>2, <1>7 DEF TextCollected, SpokenIn

\* What a block loses is in the list of tables.
LEMMA TakeBlockKeeps == BlockTaken /\ RemovedTablesKept => RemovedTablesKept'
<1> SUFFICES ASSUME BlockTaken, RemovedTablesKept, OneHeadingEach',
                    NEW t \in gone', doc'[t].kind = "table", Said(t, {})' # <<>>
             PROVE  \E text \in Range(tables')
                            \union UNION {Range(sections'[i].tables) : i \in DOMAIN sections'} :
                       Range(Said(t, {})') \subseteq Range(text)
  BY DEF RemovedTablesKept
<1>1. /\ ParsingTypeOK /\ FilingRead /\ RemovedTables
      /\ start \in DOMAIN starts /\ at < NextStart(start)
      /\ UNCHANGED <<doc, blocks, starts, start, sections>>
      /\ gone' = Without(TablesOf(blocks[at]))
  BY DEF BlockTaken, ParsingTypeOK
<1>2. Said(t, {})' = Said(t, {}) /\ (OneHeadingEach' => OneHeadingEach) /\ doc[t].kind = "table"
  <2>1. \A i : HeadingsOf(i)' = HeadingsOf(i)
    BY <1>1, ReadOnly
  <2> QED
    BY <1>1, <2>1, ReadOnly DEF OneHeadingEach
<1>3. PICK texts \in Seq(Seq(Phrases)) :
         /\ tables' = tables \o texts
         /\ \A u \in TablesOf(blocks[at]) : Said(u, {}) # <<>> =>
               \E text \in Range(texts) : Range(Said(u, {})) \subseteq Range(text)
  BY DEF BlockTaken
<1>4. \A text : text \in Range(tables') <=> text \in Range(tables) \/ text \in Range(texts)
  BY <1>1, <1>3, RangesJoin DEF ParsingTypeOK
<1>5. CASE t \in gone
  <2>1. PICK text \in Range(tables) \union UNION {Range(sections[i].tables) : i \in DOMAIN sections} :
           Range(Said(t, {})) \subseteq Range(text)
    BY <1>2, <1>5 DEF RemovedTablesKept
  <2> QED
    BY <1>1, <1>2, <1>4, <2>1
<1>6. CASE t \notin gone
  <2>1. PICK u \in TablesOf(blocks[at]) : t \in Under(u)
    BY <1>1, <1>6, RemovedWith
  <2>2. t \in TablesOf(blocks[at])
    <3>1. u \in Under(blocks[at]) /\ blocks[at] \in DOMAIN doc
      BY <1>1, AtBlock, RemovedWith
    <3>2. t \in Under(blocks[at])
      BY <1>1, <2>1, <3>1, TreesNest
    <3> QED
      BY <1>2, <1>6, <3>2 DEF TablesOf
  <2>3. PICK text \in Range(texts) : Range(Said(t, {})) \subseteq Range(text)
    BY <1>2, <1>3, <2>2
  <2> QED
    BY <1>2, <1>4, <2>3
<1> QED
  BY <1>5, <1>6

-----------------------------------------------------------------------------
(***************************************************************************)
(* Filings: a section ends                                                 *)
(***************************************************************************)

\* The step, as the lemmas use it.
SectionEnded ==
    /\ ParsingTypeOK /\ SectionsFromHeadings /\ TextCollected
    /\ start \in DOMAIN starts /\ at >= NextStart(start)
    /\ start' = start + 1
    /\ at' = IF start' \in DOMAIN starts THEN starts[start'] + 1 ELSE at
    /\ paragraphs' = <<>> /\ tables' = <<>>
    /\ UNCHANGED <<doc, blocks, starts, gone>>
    /\ LET i == ItemAt(start)
           new == [j \in DOMAIN sections \union {i} |-> IF j = i THEN Section ELSE sections[j]]
       IN  /\ \/ sections' = sections /\ ~(Section.words > sections[i].words)
              \/ sections' = new /\ (i \in DOMAIN sections => Section.words > sections[i].words)
           /\ i \notin DOMAIN sections => sections' = new

\* The section has what was collected for it.
LEMMA SectionLists ==
    ASSUME ParsingTypeOK
    PROVE  /\ {Section.paragraphs, Section.tables} \subseteq Seq(Seq(Phrases))
           /\ Range(Section.paragraphs) = Range(paragraphs)
           /\ Range(Section.tables) = Range(tables)
<1>1. Section.paragraphs = Deduped(paragraphs) /\ Section.tables = Deduped(tables)
  BY DEF Section
<1>2. paragraphs \in Seq(Seq(Phrases)) /\ tables \in Seq(Seq(Phrases))
  BY DEF ParsingTypeOK
<1>3. Deduped(paragraphs) \in Seq(Seq(Phrases)) /\ Range(Deduped(paragraphs)) = Range(paragraphs)
  BY <1>2, DedupedLists
<1>4. Deduped(tables) \in Seq(Seq(Phrases)) /\ Range(Deduped(tables)) = Range(tables)
  BY <1>2, DedupedLists
<1> QED
  BY <1>1, <1>3, <1>4

\* EndSection is such a step.
LEMMA EndSectionEnds ==
    ASSUME ParsingTypeOK, SectionsFromHeadings, TextCollected, EndSection
    PROVE  SectionEnded
BY DEF EndSection, SectionEnded, Wins

\* What the sections are afterwards.
LEMMA SectionsAfter ==
    ASSUME SectionEnded, NEW i \in DOMAIN sections'
    PROVE  \/ i \in DOMAIN sections /\ sections'[i] = sections[i]
           \/ i = ItemAt(start) /\ sections'[i] = Section
BY DEF SectionEnded

\* The section at hand has all the text under its heading, and counts its words.
LEMMA SectionWhole ==
    ASSUME SectionEnded
    PROVE  /\ TextUnder(start) \subseteq SpokenIn(Section.paragraphs)
           /\ Section.words \in Nat
           /\ Section.words > 0 <=> SpokenIn(Section.paragraphs) # {}
<1>1. /\ ParsingTypeOK /\ FilingRead /\ TextCollected
      /\ start \in DOMAIN starts /\ at >= NextStart(start)
  BY DEF SectionEnded, ParsingTypeOK
<1>2. /\ Section.paragraphs \in Seq(Seq(Phrases))
      /\ SpokenIn(Section.paragraphs) = SpokenIn(paragraphs)
  BY <1>1, SectionLists DEF SpokenIn
<1>3. TextUnder(start) \subseteq SpokenIn(paragraphs)
  <2>1. SUFFICES ASSUME NEW n \in BlocksUnder(start)
                 PROVE  TextIn(n) \subseteq SpokenIn(paragraphs)
    BY DEF TextUnder
  <2>2. PICK b \in DOMAIN blocks : starts[start] < b /\ b < NextStart(start) /\ n = blocks[b]
    BY <1>1, BlocksBetween
  <2>3. b < at
    BY <1>1, <2>2, BlocksAreRead, NextStarts DEF ParsingTypeOK
  <2> QED
    BY <1>1, <2>2, <2>3 DEF TextCollected
<1> DEFINE body == Section.paragraphs
           all == Flattened(body)
<1>4. Section.words = TokensOf(all)
  BY DEF Section
<1>5. body \in Seq(Seq(Phrases))
  BY <1>2
<1> HIDE DEF body
<1>6. /\ all \in Seq(Phrases)
      /\ \A n \in DOMAIN all : \E i \in DOMAIN body : \E l \in DOMAIN body[i] : all[n] = body[i][l]
      /\ \A i \in DOMAIN body : \A l \in DOMAIN body[i] : \E n \in DOMAIN all : all[n] = body[i][l]
  BY <1>5, FlattenedLists
<1> HIDE DEF all
<1>7. SpokenIn(body) # {} <=> all # <<>>
  <2>1. SpokenIn(body) # {} <=> \E i \in DOMAIN body : \E l \in DOMAIN body[i] : TRUE
    BY DEF SpokenIn, Range
  <2>2. all # <<>> <=> \E n \in DOMAIN all : TRUE
    BY <1>6
  <2> QED
    BY <1>6, <2>1, <2>2
<1>8. TokensOf(all) \in Nat /\ (TokensOf(all) > 0 <=> all # <<>>)
  <2>1. DOMAIN all = 1 .. Len(all) /\ Len(all) \in Nat /\ \A n \in 1 .. Len(all) : all[n] \in Phrases
    BY <1>6
  <2>2. \A n \in 1 .. Len(all) : all[n].tokens \in Nat \ {0}
    BY <2>1 DEF Phrases
  <2>3. /\ TokensBefore(all, 1) = 0
        /\ \A n \in 1 .. Len(all) + 1 : TokensBefore(all, n) \in Nat
        /\ \A n \in 1 .. Len(all) : /\ TokensBefore(all, n + 1) = TokensBefore(all, n) + all[n].tokens
                                   /\ TokensBefore(all, n + 1) <= TokensBefore(all, Len(all) + 1)
    BY <2>1, <2>2, TokensAddUp
  <2>4. TokensOf(all) \in Nat
    BY <2>1, <2>3 DEF TokensOf
  <2>5. CASE all = <<>>
    BY <2>3, <2>5 DEF TokensOf
  <2>6. CASE all # <<>>
    <3>1. 1 \in 1 .. Len(all) /\ all[1].tokens \in Nat \ {0} /\ 2 \in 1 .. Len(all) + 1
      BY <1>6, <2>1, <2>2, <2>6
    <3>2. TokensBefore(all, 2) = all[1].tokens /\ TokensBefore(all, 2) <= TokensOf(all)
      BY <2>3, <3>1 DEF TokensOf
    <3> QED
      BY <2>4, <2>6, <3>1, <3>2
  <2> QED
    BY <2>4, <2>5, <2>6
<1> QED
  BY <1>2, <1>3, <1>4, <1>7, <1>8 DEF body

\* The longest section of an item is kept: with text, if any of them has text.
LEMMA EndSectionCollects == SectionEnded => TextCollected'
<1> SUFFICES ASSUME SectionEnded PROVE TextCollected'
  OBVIOUS
<1> DEFINE item0 == ItemAt(start)
           new == [j \in DOMAIN sections \union {item0} |-> IF j = item0 THEN Section ELSE sections[j]]
<1>1. /\ ParsingTypeOK /\ FilingRead /\ TextCollected
      /\ start \in DOMAIN starts /\ start' = start + 1
      /\ at' = IF start' \in DOMAIN starts THEN starts[start'] + 1 ELSE at
      /\ UNCHANGED <<doc, blocks, starts>>
  BY DEF SectionEnded, ParsingTypeOK
<1>2. /\ \A n : TextIn(n)' = TextIn(n)
      /\ \A s : TextUnder(s)' = TextUnder(s)
      /\ \A s : ItemAt(s)' = ItemAt(s)
  BY <1>1, SourcesStay, ReadOnly
<1>3. /\ start \in Nat /\ \A s \in DOMAIN starts : s \in Nat /\ starts[s] \in Nat
      /\ \A b \in DOMAIN blocks : b \in Nat
  BY <1>1, BlocksAreRead
<1>4. /\ TextUnder(start) \subseteq SpokenIn(Section.paragraphs)
      /\ Section.words \in Nat
      /\ Section.words > 0 <=> SpokenIn(Section.paragraphs) # {}
  BY SectionWhole
<1>5. \/ /\ sections' = sections /\ item0 \in DOMAIN sections
         /\ ~(Section.words > sections[item0].words)
      \/ sections' = new /\ (item0 \in DOMAIN sections => Section.words > sections[item0].words)
  <2>1. item0 \in DOMAIN sections \/ sections' = new
    BY DEF SectionEnded
  <2> QED
    BY <2>1 DEF SectionEnded
<1>6. \A i \in DOMAIN sections :
         sections[i].words \in Nat /\ (sections[i].words > 0 => SpokenIn(sections[i].paragraphs) # {})
  BY <1>1 DEF TextCollected
<1>7. ASSUME NEW i \in DOMAIN sections'
      PROVE  sections'[i].words \in Nat
             /\ (sections'[i].words > 0 => SpokenIn(sections'[i].paragraphs) # {})
  BY <1>4, <1>6, SectionsAfter
<1>8. ASSUME NEW s \in DOMAIN starts, s < start + 1, TextUnder(s) # {}
      PROVE  ItemAt(s) \in DOMAIN sections' /\ sections'[ItemAt(s)].words > 0
  <2>1. CASE s < start
    <3>1. ItemAt(s) \in DOMAIN sections /\ sections[ItemAt(s)].words > 0
      BY <1>1, <1>8, <2>1 DEF TextCollected
    <3>2. CASE sections' = sections
      BY <3>1, <3>2
    <3>3. CASE sections' = new /\ (item0 \in DOMAIN sections => Section.words > sections[item0].words)
      <4>1. CASE ItemAt(s) = item0
        BY <1>4, <1>6, <3>1, <3>3, <4>1
      <4>2. CASE ItemAt(s) # item0
        BY <3>1, <3>3, <4>2
      <4> QED
        BY <4>1, <4>2
    <3> QED
      BY <1>5, <3>2, <3>3
  <2>2. CASE s = start
    <3>1. Section.words > 0 /\ ItemAt(s) = item0
      BY <1>4, <1>8, <2>2
    <3> QED
      BY <1>4, <1>5, <1>6, <3>1
  <2> QED
    BY <1>3, <1>8, <2>1, <2>2
<1>9. start' \in DOMAIN starts =>
        \A b \in DOMAIN blocks : ~(starts[start'] < b /\ b < at')
  BY <1>1, <1>3
<1> QED
  BY <1>1, <1>2, <1>7, <1>8, <1>9 DEF TextCollected, SpokenIn

\* The types after a section.
LEMMA EndSectionTypes == SectionEnded => ParsingTypeOK'
<1> SUFFICES ASSUME SectionEnded PROVE ParsingTypeOK'
  OBVIOUS
<1>1. /\ ParsingTypeOK /\ FilingRead /\ start \in DOMAIN starts
      /\ start' = start + 1
      /\ at' = IF start' \in DOMAIN starts THEN starts[start'] + 1 ELSE at
      /\ paragraphs' = <<>> /\ tables' = <<>>
      /\ UNCHANGED <<doc, blocks, starts, gone>>
  BY DEF SectionEnded, ParsingTypeOK
<1>2. FilingRead' /\ \A s : NextStart(s)' = NextStart(s)
  BY <1>1, ReadOnly
<1>3. /\ Len(starts) \in Nat /\ DOMAIN starts = 1 .. Len(starts)
      /\ \A s \in DOMAIN starts : starts[s] \in Nat /\ NextStart(s) \in Nat /\ starts[s] < NextStart(s)
  BY <1>1, BlocksAreRead, NextStarts
<1>4. start' \in 1 .. Len(starts) + 1
  BY <1>1, <1>3
<1>5. start' \in DOMAIN starts => at' \in starts[start'] + 1 .. NextStart(start')
  BY <1>1, <1>3
<1>6. ASSUME NEW i \in DOMAIN sections'
      PROVE  /\ i \in Items
             /\ {sections'[i].paragraphs, sections'[i].tables} \subseteq Seq(Seq(Phrases))
  <2>1. CASE i \in DOMAIN sections /\ sections'[i] = sections[i]
    BY <1>1, <2>1 DEF ParsingTypeOK
  <2>2. CASE i = ItemAt(start) /\ sections'[i] = Section
    <3>1. ItemAt(start) \in Items
      BY <1>1, BlocksAreRead
    <3>2. {Section.paragraphs, Section.tables} \subseteq Seq(Seq(Phrases))
      BY <1>1, SectionLists
    <3> QED
      BY <2>2, <3>1, <3>2
  <2> QED
    BY <2>1, <2>2, SectionsAfter
<1>7. paragraphs' \in Seq(Seq(Phrases)) /\ tables' \in Seq(Seq(Phrases))
  BY <1>1
<1>8. NextStart(start)' = NextStart(start')
  BY <1>1 DEF NextStart
<1>9. start' \in DOMAIN starts' => at' \in starts'[start'] + 1 .. NextStart(start)'
  BY <1>1, <1>5, <1>8
<1>10. gone' \subseteq DOMAIN doc'
  BY <1>1 DEF ParsingTypeOK
<1> QED
  BY <1>1, <1>2, <1>4, <1>6, <1>7, <1>9, <1>10 DEF ParsingTypeOK

\* The end of a section removes nothing.
LEMMA EndSectionRemoves == SectionEnded /\ RemovedTables => RemovedTables'
<1> SUFFICES ASSUME SectionEnded, RemovedTables PROVE RemovedTables'
  OBVIOUS
<1>1. Taken' = Taken
  BY TakenStays DEF SectionEnded
<1>2. UNCHANGED <<doc, blocks, starts, gone>>
  BY DEF SectionEnded
<1>3. \A n : Under(n)' = Under(n)
  BY <1>2, ReadOnly
<1> QED
  BY <1>1, <1>2, <1>3 DEF RemovedTables

\* A section that is kept comes from its heading.
LEMMA EndSectionSources == SectionEnded => SectionsFromHeadings'
<1> SUFFICES ASSUME SectionEnded PROVE SectionsFromHeadings'
  OBVIOUS
<1>1. /\ ParsingTypeOK /\ SectionsFromHeadings /\ start \in DOMAIN starts /\ start' = start + 1
      /\ paragraphs' = <<>> /\ tables' = <<>> /\ UNCHANGED <<doc, blocks, starts>>
  BY DEF SectionEnded
<1>2. /\ \A s, paras, tabs : ComesFrom(s, paras, tabs)' = ComesFrom(s, paras, tabs)
      /\ \A i : HeadingsOf(i)' = HeadingsOf(i)
      /\ \A t : TextUnder(t)' = TextUnder(t)
  BY <1>1, SourcesStay, ReadOnly
<1>3. ComesFrom(start', paragraphs', tables')
  <2>1. Range(<<>>) = {}
    BY DEF Range
  <2> QED
    BY <1>1, <2>1 DEF ComesFrom
<1>4. start \in Nat /\ \A s \in DOMAIN starts : s \in Nat
  BY <1>1, BlocksAreRead DEF ParsingTypeOK
<1>5. ASSUME NEW i \in DOMAIN sections'
      PROVE  \E s \in HeadingsOf(i) :
                /\ s < start' /\ ComesFrom(s, sections'[i].paragraphs, sections'[i].tables)
                /\ TextUnder(s) \subseteq SpokenIn(sections'[i].paragraphs)
  <2>1. CASE i \in DOMAIN sections /\ sections'[i] = sections[i]
    <3>1. PICK s \in HeadingsOf(i) :
             /\ s < start /\ ComesFrom(s, sections[i].paragraphs, sections[i].tables)
             /\ TextUnder(s) \subseteq SpokenIn(sections[i].paragraphs)
      BY <1>1, <2>1 DEF SectionsFromHeadings
    <3>2. s \in Nat
      BY <1>4 DEF HeadingsOf
    <3> QED
      BY <1>1, <1>4, <2>1, <3>1, <3>2
  <2>2. CASE i = ItemAt(start) /\ sections'[i] = Section
    <3>1. start \in HeadingsOf(i)
      BY <1>1, <2>2 DEF HeadingsOf
    <3>2. ComesFrom(start, paragraphs, tables)
      BY <1>1 DEF SectionsFromHeadings
    <3>3. ComesFrom(start, Section.paragraphs, Section.tables)
      BY <1>1, <3>2, SectionLists DEF ComesFrom
    <3>4. start < start'
      BY <1>1, <1>4
    <3> QED
      BY <2>2, <3>1, <3>3, <3>4, SectionWhole
  <2> QED
    BY <2>1, <2>2, SectionsAfter
<1>6. ComesFrom(start, paragraphs, tables)'
  BY <1>2, <1>3
<1>7. ASSUME NEW i \in DOMAIN sections'
      PROVE  \E s \in HeadingsOf(i)' :
                /\ s < start' /\ ComesFrom(s, sections[i].paragraphs, sections[i].tables)'
                /\ TextUnder(s)' \subseteq SpokenIn(sections'[i].paragraphs)
  <2>1. PICK s \in HeadingsOf(i) :
                /\ s < start' /\ ComesFrom(s, sections'[i].paragraphs, sections'[i].tables)
                /\ TextUnder(s) \subseteq SpokenIn(sections'[i].paragraphs)
    BY <1>5
  <2>2. ComesFrom(s, sections[i].paragraphs, sections[i].tables)'
    BY <1>2, <2>1
  <2> QED
    BY <1>2, <2>1, <2>2
<1> QED
  BY <1>1, <1>6, <1>7 DEF SectionsFromHeadings, SpokenIn

\* With one heading for each item, no section takes the place of another.
LEMMA EndSectionKeeps == SectionEnded /\ RemovedTablesKept => RemovedTablesKept'
<1> SUFFICES ASSUME SectionEnded, RemovedTablesKept, OneHeadingEach',
                    NEW t \in gone', doc'[t].kind = "table", Said(t, {})' # <<>>
             PROVE  \E i \in DOMAIN sections' : \E text \in Range(sections'[i].tables) :
                       Range(Said(t, {})') \subseteq Range(text)
  BY DEF RemovedTablesKept
<1>1. /\ ParsingTypeOK /\ FilingRead /\ SectionsFromHeadings /\ start \in DOMAIN starts
      /\ UNCHANGED <<doc, blocks, starts, gone>>
  BY DEF SectionEnded, ParsingTypeOK
<1>2. Said(t, {})' = Said(t, {}) /\ OneHeadingEach
  <2>1. \A i : HeadingsOf(i)' = HeadingsOf(i)
    BY <1>1, ReadOnly
  <2> QED
    BY <1>1, <2>1, ReadOnly DEF OneHeadingEach
<1>3. PICK text \in Range(tables) \union UNION {Range(sections[i].tables) : i \in DOMAIN sections} :
         Range(Said(t, {})) \subseteq Range(text)
  BY <1>1, <1>2 DEF RemovedTablesKept
<1>4. ItemAt(start) \in Items /\ start \in Nat
  BY <1>1, BlocksAreRead
<1>5. ItemAt(start) \notin DOMAIN sections
  <2>1. SUFFICES ASSUME ItemAt(start) \in DOMAIN sections
                 PROVE  FALSE
    OBVIOUS
  <2>2. PICK s \in HeadingsOf(ItemAt(start)) : s < start
    BY <1>1, <2>1 DEF SectionsFromHeadings
  <2>3. start \in HeadingsOf(ItemAt(start))
    BY <1>1 DEF HeadingsOf
  <2>4. s = start
    BY <1>2, <1>4, <2>2, <2>3 DEF OneHeadingEach
  <2> QED
    BY <1>4, <2>2, <2>4
<1>6. /\ ItemAt(start) \in DOMAIN sections' /\ sections'[ItemAt(start)] = Section
      /\ \A i \in DOMAIN sections : i \in DOMAIN sections' /\ sections'[i] = sections[i]
  BY <1>5 DEF SectionEnded
<1>7. CASE text \in Range(tables)
  <2>1. text \in Range(Section.tables)
    BY <1>1, <1>7, SectionLists
  <2> QED
    BY <1>2, <1>3, <1>6, <2>1
<1>8. CASE \E i \in DOMAIN sections : text \in Range(sections[i].tables)
  BY <1>2, <1>3, <1>6, <1>8
<1> QED
  BY <1>3, <1>7, <1>8

-----------------------------------------------------------------------------
(***************************************************************************)
(* Filings: sections are chunked and filed                                 *)
(***************************************************************************)

Parsing ==
    ParsingTypeOK /\ RemovedTables /\ SectionsFromHeadings /\ TextCollected /\ RemovedTablesKept

\* Steps that leave the parser alone keep its invariant.
LEMMA ParsingStays == Parsing /\ UNCHANGED ParsingVars => Parsing'
<1> SUFFICES ASSUME Parsing, UNCHANGED ParsingVars PROVE Parsing'
  OBVIOUS
<1>1. UNCHANGED <<doc, blocks, starts, gone, start, at, paragraphs, tables, sections>>
  BY DEF ParsingVars
<1>2. /\ FilingRead' = FilingRead
      /\ \A n : Under(n)' = Under(n)
      /\ \A n, removed : Said(n, removed)' = Said(n, removed)
      /\ \A s : NextStart(s)' = NextStart(s)
      /\ \A i : HeadingsOf(i)' = HeadingsOf(i)
      /\ \A s, paras, tabs : ComesFrom(s, paras, tabs)' = ComesFrom(s, paras, tabs)
      /\ \A n : TextIn(n)' = TextIn(n)
      /\ \A s : TextUnder(s)' = TextUnder(s)
      /\ \A s : ItemAt(s)' = ItemAt(s)
  BY <1>1, ReadOnly, SourcesStay
<1>3. NextStart(start)' = NextStart(start)
  BY <1>1 DEF NextStart
<1>4. ParsingTypeOK'
  BY <1>1, <1>2, <1>3 DEF Parsing, ParsingTypeOK
<1>5. Taken' = Taken
  BY <1>1, <1>2 DEF Taken
<1>6. RemovedTables'
  BY <1>1, <1>2, <1>5 DEF Parsing, RemovedTables
<1>7. SectionsFromHeadings'
  <2>1. ComesFrom(start, paragraphs, tables)' = ComesFrom(start, paragraphs, tables)
    BY <1>1, <1>2
  <2>2. \A s, i : ComesFrom(s, sections[i].paragraphs, sections[i].tables)'
                    = ComesFrom(s, sections[i].paragraphs, sections[i].tables)
    BY <1>1, <1>2
  <2> QED
    BY <1>1, <1>2, <2>1, <2>2 DEF Parsing, SectionsFromHeadings, SpokenIn
<1>8. RemovedTablesKept'
  BY <1>1, <1>2 DEF Parsing, RemovedTablesKept, OneHeadingEach
<1>9. TextCollected'
  BY <1>1, <1>2 DEF Parsing, TextCollected, SpokenIn
<1> QED
  BY <1>4, <1>6, <1>7, <1>8, <1>9 DEF Parsing

\* A step of the parser finds no section open, and files nothing.
LEMMA NothingFiledYet ==
    ASSUME SectionsFiled, start \in DOMAIN starts, start' \in Nat, ParsingTypeOK',
           UNCHANGED <<starts, item, open, filed>>
    PROVE  SectionsFiled'
<1>1. item = 0 /\ ~open /\ filed = <<>>
  BY DEF SectionsFiled, Parsed
<1>2. item' = 0 /\ ~open' /\ filed' = <<>> /\ Range(filed') = {}
  BY <1>1 DEF Range
<1>3. \A i \in DOMAIN sections' : i \in Nat /\ i > 0
  BY DEF ParsingTypeOK, Items
<1>4. filed' \in Seq(FiledChunk)
  BY <1>2
<1>5. item' \in 0 .. ItemCount
  BY <1>2, ParsingAssumption
<1>6. \A i \in DOMAIN sections' : ~(i < item') /\ i # item'
  BY <1>2, <1>3
<1> QED
  BY <1>2, <1>4, <1>5, <1>6 DEF SectionsFiled

\* The parser keeps its invariant, and touches nothing else.
LEMMA ParseStepSound ==
    Parsing /\ SectionsFiled /\ ParseStep => Parsing' /\ SectionsFiled' /\ UNCHANGED vars
<1> SUFFICES ASSUME Parsing, SectionsFiled, ParseStep
             PROVE  Parsing' /\ SectionsFiled' /\ UNCHANGED vars
  OBVIOUS
<1>1. UNCHANGED <<vars, item, open, filed>>
  BY DEF ParseStep
<1>2. CASE TakeBlock
  <2>1. BlockTaken
    BY <1>2, TakeBlockTakes DEF Parsing
  <2>2. Parsing'
    BY <2>1, TakeBlockTypes, TakeBlockRemoves, TakeBlockSources, TakeBlockCollects,
       TakeBlockKeeps DEF Parsing
  <2>3. start \in DOMAIN starts /\ start' \in Nat /\ UNCHANGED starts
    BY <2>1 DEF BlockTaken, ParsingTypeOK
  <2> QED
    BY <1>1, <2>2, <2>3, NothingFiledYet DEF Parsing
<1>3. CASE EndSection
  <2>1. SectionEnded
    BY <1>3, EndSectionEnds DEF Parsing
  <2>2. Parsing'
    BY <2>1, EndSectionTypes, EndSectionRemoves, EndSectionSources,
       EndSectionCollects, EndSectionKeeps DEF Parsing
  <2>3. start \in DOMAIN starts /\ start' \in Nat /\ UNCHANGED starts
    BY <2>1 DEF SectionEnded, ParsingTypeOK
  <2> QED
    BY <1>1, <2>2, <2>3, NothingFiledYet DEF Parsing
<1> QED
  BY <1>2, <1>3 DEF ParseStep, ParsingNext

\* A function on 1 .. n is a list.
LEMMA FunctionIsList ==
    ASSUME NEW T, NEW n \in Nat, NEW s \in [1 .. n -> T]
    PROVE  s \in Seq(T)
OBVIOUS

\* The text of a section is a list of sentences, one for each of its phrases.
LEMMA SentencesTyped ==
    ASSUME NEW ps \in Seq(Seq(Phrases))
    PROVE  /\ SentencesOf(ps) \in Seq(Sentence)
           /\ DOMAIN SentencesOf(ps) = DOMAIN Flattened(ps)
           /\ \A n \in DOMAIN Flattened(ps) : SentencesOf(ps)[n].tokens = Flattened(ps)[n].tokens
<1> DEFINE row(p) == [i \in DOMAIN ps[p] |-> [tokens |-> ps[p][i].tokens, opens |-> i = 1]]
           rows == [p \in DOMAIN ps |-> row(p)]
<1>1. DOMAIN ps = 1 .. Len(ps) /\ Len(ps) \in Nat /\ \A p \in DOMAIN ps : ps[p] \in Seq(Phrases)
  OBVIOUS
<1>2. ASSUME NEW p \in DOMAIN ps
      PROVE  row(p) \in Seq(Sentence)
  <2>1. DOMAIN ps[p] = 1 .. Len(ps[p]) /\ Len(ps[p]) \in Nat /\ \A i \in DOMAIN ps[p] : ps[p][i] \in Phrases
    BY <1>1
  <2>2. \A i \in DOMAIN ps[p] : [tokens |-> ps[p][i].tokens, opens |-> i = 1] \in Sentence
    <3>1. \A i \in DOMAIN ps[p] : ps[p][i].tokens \in Nat \ {0}
      BY <2>1 DEF Phrases
    <3>2. \A i : (i = 1) \in BOOLEAN
      OBVIOUS
    <3> QED
      BY <3>1, <3>2 DEF Sentence
  <2>3. row(p) \in [1 .. Len(ps[p]) -> Sentence]
    BY <2>1, <2>2
  <2> HIDE DEF row
  <2> QED
    BY <2>1, <2>3, FunctionIsList
<1>3. \A p \in DOMAIN ps : /\ DOMAIN row(p) = DOMAIN ps[p]
                           /\ \A i \in DOMAIN ps[p] : row(p)[i].tokens = ps[p][i].tokens
  OBVIOUS
<1> HIDE DEF row
<1>4. rows \in [1 .. Len(ps) -> Seq(Sentence)]
  BY <1>1, <1>2
<1>5. SentencesOf(ps) = Flattened(rows)
  BY DEF SentencesOf, row
<1>6. DOMAIN rows = DOMAIN ps /\ \A p \in DOMAIN ps : rows[p] = row(p)
  OBVIOUS
<1> HIDE DEF rows
<1>7. rows \in Seq(Seq(Sentence))
  BY <1>1, <1>4, FunctionIsList
<1>8. \A p \in DOMAIN ps : DOMAIN rows[p] = DOMAIN ps[p]
  BY <1>3, <1>6
<1>9. Flattened(rows) \in Seq(Sentence)
  BY <1>7, FlattenedLists
<1>10. /\ DOMAIN Flattened(rows) = DOMAIN Flattened(ps)
       /\ \A n \in DOMAIN Flattened(ps) : \E p \in DOMAIN ps : \E i \in DOMAIN ps[p] :
            Flattened(ps)[n] = ps[p][i] /\ Flattened(rows)[n] = rows[p][i]
  BY <1>6, <1>7, <1>8, FlattenedAlike
<1>11. ASSUME NEW n \in DOMAIN Flattened(ps)
       PROVE  Flattened(rows)[n].tokens = Flattened(ps)[n].tokens
  BY <1>3, <1>6, <1>10
<1> QED
  BY <1>5, <1>9, <1>10, <1>11

\* A section that is opened starts as Chunking does, with its text.
LEMMA OpenSectionSound ==
    Parsing /\ SectionsFiled /\ ChunkingIInv /\ OpenSection => SectionsFiled' /\ ChunkingIInv'
<1> SUFFICES ASSUME Parsing, SectionsFiled, OpenSection
             PROVE  SectionsFiled' /\ ChunkingIInv'
  OBVIOUS
<1>1. PICK i \in DOMAIN sections :
         /\ item < i /\ \A j \in DOMAIN sections : item < j => i <= j
         /\ item' = i
         /\ sentences' = SentencesOf(sections[i].paragraphs)
  BY DEF OpenSection
<1>2. /\ Parsed /\ ~open /\ open' = TRUE
      /\ phase' = "split" /\ units' = <<>> /\ chunks' = <<>>
      /\ k' = 1 /\ from' = 1 /\ pos' = 0 /\ joints' = 0 /\ counted' = 0 /\ rest' = 0
      /\ UNCHANGED <<starts, start, sections, filed>>
  BY DEF OpenSection, ParsingVars
<1>3. DOMAIN sections \subseteq Items /\ sections[i].paragraphs \in Seq(Seq(Phrases))
  BY DEF Parsing, ParsingTypeOK
<1>4. sentences' \in Seq(Sentence)
  BY <1>1, <1>3, SentencesTyped
<1>5. ChunkingIInv'
  <2>1. TypeOK'
    BY <1>2, <1>4 DEF TypeOK
  <2>2. Consumed'
    <3>1. /\ DOMAIN sentences' = 1 .. Len(sentences') /\ Len(sentences') \in Nat
          /\ \A n \in 1 .. Len(sentences') : sentences'[n].tokens \in Nat
      <4>1. /\ DOMAIN sentences' = 1 .. Len(sentences') /\ Len(sentences') \in Nat
            /\ \A n \in 1 .. Len(sentences') : sentences'[n] \in Sentence
        BY <1>4
      <4> QED
        BY <4>1 DEF Sentence
    <3>2. TokensBefore(sentences', 1) = 0
      BY <3>1, TokensAddUp
    <3>3. TokensBefore(sentences, k)' = 0
      BY <1>2, <3>2 DEF TokensBefore
    <3> QED
      BY <1>2, <3>1, <3>3 DEF Consumed
  <2> QED
    BY <1>2, <2>1, <2>2, SizesAreNat
       DEF ChunkingIInv, UnitsPartition, Partition, Splitting, Assembling, Assembled, ChunksJoined,
           SizesBounded, Count, UnitsEnd
<1>6. item \in Nat /\ \A j \in DOMAIN sections : j \in 1 .. ItemCount /\ j \in Nat
  BY <1>3 DEF SectionsFiled, Items
<1>7. ASSUME NEW j \in DOMAIN sections, j < item'
      PROVE  j < item \/ j = item
  BY <1>1, <1>6, <1>7
<1>8. item' \in 0 .. ItemCount /\ item' \in DOMAIN sections'
  BY <1>1, <1>2, <1>6
<1>9. Parsed'
  BY <1>2 DEF Parsed
<1>10. \A j \in DOMAIN sections' : j < item' \/ (j = item' /\ ~open') =>
          /\ \A text \in Range(sections'[j].tables) : \E r \in Range(filed') :
               r.kind = "table" /\ Range(text) \subseteq r.said
          /\ \A p \in SpokenIn(sections'[j].paragraphs) : \E r \in Range(filed') :
               r.item = j /\ r.kind = "paragraph" /\ p \in r.said
  BY <1>2, <1>7 DEF SectionsFiled
<1>11. sentences' = SentencesOf(sections'[item'].paragraphs)
  BY <1>1, <1>2
<1> QED
  BY <1>2, <1>5, <1>8, <1>9, <1>10, <1>11 DEF SectionsFiled, SpokenIn, SentencesOf

\* What a chunk of the open section says is in one of its lists.
LEMMA ChunksSay ==
    ASSUME Parsing, item \in DOMAIN sections
    PROVE  /\ \A m, n : \A p \in Between(m, n) :
                 p \in Phrases /\ \E text \in Range(sections[item].paragraphs) : p \in Range(text)
           /\ \A i \in DOMAIN sections[item].tables :
                 /\ i \in Nat
                 /\ sections[item].tables[i] \in Range(sections[item].tables)
                 /\ Range(sections[item].tables[i]) \subseteq Phrases
<1>1. sections[item].paragraphs \in Seq(Seq(Phrases)) /\ sections[item].tables \in Seq(Seq(Phrases))
  BY DEF Parsing, ParsingTypeOK
<1>2. ASSUME NEW m, NEW n, NEW p \in Between(m, n)
      PROVE  p \in Phrases /\ \E text \in Range(sections[item].paragraphs) : p \in Range(text)
  <2> DEFINE ss == sections[item].paragraphs
  <2>1. PICK i \in DOMAIN Flattened(ss) : p = Flattened(ss)[i]
    BY <1>2 DEF Between
  <2>2. ss \in Seq(Seq(Phrases))
    BY <1>1
  <2> HIDE DEF ss
  <2>3. PICK j \in DOMAIN ss : \E l \in DOMAIN ss[j] : p = ss[j][l]
    BY <2>1, <2>2, FlattenedLists
  <2>4. ss[j] \in Seq(Phrases) /\ ss[j] \in Range(ss)
    BY <2>2, <2>3 DEF Range
  <2>5. p \in Phrases /\ p \in Range(ss[j])
    BY <2>3, <2>4 DEF Range
  <2> QED
    BY <2>4, <2>5 DEF ss
<1>3. ASSUME NEW i \in DOMAIN sections[item].tables
      PROVE  /\ i \in Nat
             /\ sections[item].tables[i] \in Range(sections[item].tables)
             /\ Range(sections[item].tables[i]) \subseteq Phrases
  <2> DEFINE ss == sections[item].tables
  <2>1. ss \in Seq(Seq(Phrases)) /\ i \in DOMAIN ss
    BY <1>1, <1>3
  <2> HIDE DEF ss
  <2>2. i \in Nat /\ ss[i] \in Seq(Phrases) /\ ss[i] \in Range(ss)
    BY <2>1 DEF Range
  <2>3. Range(ss[i]) \subseteq Phrases
    BY <2>2 DEF Range
  <2> QED
    BY <2>2, <2>3 DEF ss
<1> QED
  BY <1>2, <1>3

\* Chunks are listed, and run from one token to another.
LEMMA ChunksAreIntervals ==
    ASSUME TypeOK
    PROVE  /\ DOMAIN chunks = 1 .. Len(chunks) /\ Len(chunks) \in Nat
           /\ \A c \in DOMAIN chunks : chunks[c].from \in Nat /\ chunks[c].to \in Nat
<1>1. chunks \in Seq(Saved)
  BY DEF TypeOK, Saved
<1>2. DOMAIN chunks = 1 .. Len(chunks) /\ Len(chunks) \in Nat /\ \A c \in DOMAIN chunks : chunks[c] \in Saved
  BY <1>1
<1> QED
  BY <1>2 DEF Saved

\* Every token of a chunked text is in a chunk.
LEMMA TokenInChunk ==
    ASSUME ChunkingIInv, phase = "done", NEW q \in 1 .. TokensOf(sentences)
    PROVE  \E c \in DOMAIN chunks : chunks[c].from <= q /\ q <= chunks[c].to
<1>1. /\ TypeOK /\ DOMAIN chunks = 1 .. Len(chunks) /\ Len(chunks) \in Nat
      /\ \A c \in DOMAIN chunks : chunks[c].from \in Nat /\ chunks[c].to \in Nat
  BY ChunksAreIntervals DEF ChunkingIInv
<1>2. TokensOf(sentences) \in Nat /\ (sentences = <<>> => TokensOf(sentences) = 0)
  <2>1. Len(sentences) + 1 \in 1 .. Len(sentences) + 1
    BY <1>1 DEF TypeOK
  <2> QED
    BY <1>1, <2>1, SentenceTaken DEF TokensOf
<1>3. /\ chunks # <<>> /\ chunks[1].from = 1 /\ chunks[Len(chunks)].to = TokensOf(sentences)
      /\ \A i \in 2 .. Len(chunks) : chunks[i].from <= chunks[i - 1].to + 1
  BY <1>2, AllTextChunked DEF NothingLost
<1> DEFINE C == {c \in DOMAIN chunks : q <= chunks[c].to}
<1>4. /\ C \in SUBSET Nat /\ Len(chunks) \in C
      /\ \A c : c \in C <=> c \in 1 .. Len(chunks) /\ q <= chunks[c].to
  BY <1>1, <1>2, <1>3
<1> HIDE DEF C
<1>5. PICK c \in C : \A x \in C : c <= x
  BY <1>4, LowestNumber
<1>6. c \in 1 .. Len(chunks) /\ q <= chunks[c].to
  BY <1>4
<1>7. CASE c = 1
  <2>1. 1 <= q
    BY <1>2
  <2> QED
    BY <1>3, <1>6, <1>7, <2>1
<1>8. CASE c # 1
  <2>1. c \in 2 .. Len(chunks) /\ c - 1 \in 1 .. Len(chunks) /\ ~(c <= c - 1)
    BY <1>1, <1>6, <1>8
  <2>2. ~(q <= chunks[c - 1].to)
    BY <1>4, <1>5, <2>1
  <2>3. chunks[c].from <= chunks[c - 1].to + 1
    BY <1>3, <2>1
  <2>4. chunks[c].from \in Nat /\ chunks[c - 1].to \in Nat /\ q \in Nat
    BY <1>1, <1>2, <2>1
  <2>5. chunks[c].from <= q
    BY <2>2, <2>3, <2>4
  <2> QED
    BY <1>1, <1>6, <2>5
<1> QED
  BY <1>7, <1>8

\* All that the open section says as running text is in its chunks.
LEMMA AllPhrasesChunked ==
    ASSUME Parsing, ChunkingIInv, phase = "done", item \in DOMAIN sections,
           sentences = SentencesOf(sections[item].paragraphs),
           NEW p \in SpokenIn(sections[item].paragraphs)
    PROVE  \E c \in DOMAIN chunks : p \in Between(chunks[c].from, chunks[c].to)
<1> DEFINE ss == sections[item].paragraphs
           all == Flattened(ss)
<1>1. ss \in Seq(Seq(Phrases)) /\ sentences = SentencesOf(ss) /\ p \in SpokenIn(ss)
  BY DEF Parsing, ParsingTypeOK
<1>3. \A m, n : Between(m, n) = {all[i] : i \in {i \in DOMAIN all :
                    TokensBefore(all, i) < n /\ m <= TokensBefore(all, i + 1)}}
  BY DEF Between
<1> HIDE DEF ss
<1>4. /\ all \in Seq(Phrases)
      /\ \A i \in DOMAIN ss : \A l \in DOMAIN ss[i] : \E n \in DOMAIN all : all[n] = ss[i][l]
  BY <1>1, FlattenedLists
<1>5. DOMAIN sentences = DOMAIN all /\ \A n \in DOMAIN all : sentences[n].tokens = all[n].tokens
  BY <1>1, SentencesTyped
<1>6. \E i \in DOMAIN ss : \E l \in DOMAIN ss[i] : p = ss[i][l]
  BY <1>1 DEF SpokenIn, Range
<1> HIDE DEF all
<1>7. PICK n \in DOMAIN all : all[n] = p
  BY <1>4, <1>6
<1>8. DOMAIN all = 1 .. Len(all) /\ Len(all) \in Nat /\ \A i \in 1 .. Len(all) : all[i].tokens \in Nat \ {0}
  <2>1. DOMAIN all = 1 .. Len(all) /\ Len(all) \in Nat /\ \A i \in 1 .. Len(all) : all[i] \in Phrases
    BY <1>4
  <2> QED
    BY <2>1 DEF Phrases
<1>9. /\ TokensBefore(all, n) \in Nat
      /\ TokensBefore(all, n + 1) = TokensBefore(all, n) + all[n].tokens
      /\ TokensBefore(all, n + 1) <= TokensBefore(all, Len(all) + 1)
  <2>1. n \in 1 .. Len(all) /\ n \in 1 .. Len(all) + 1
    BY <1>7, <1>8
  <2> QED
    BY <1>8, <2>1, TokensAddUp
<1>10. TokensOf(sentences) = TokensBefore(all, Len(all) + 1)
  <2>1. TypeOK
    BY DEF ChunkingIInv
  <2>2. Len(sentences) = Len(all)
    BY <1>4, <1>5, <2>1 DEF TypeOK
  <2>3. TokensBefore(sentences, Len(all) + 1) = TokensBefore(all, Len(all) + 1)
    BY <1>5, TokensOnly
  <2> QED
    BY <2>2, <2>3 DEF TokensOf
<1>11. TokensBefore(all, Len(all) + 1) \in Nat
  <2>1. Len(all) + 1 \in 1 .. Len(all) + 1
    BY <1>8
  <2> QED
    BY <1>8, <2>1, TokensAddUp
<1> DEFINE q == TokensBefore(all, n) + 1
<1>12. q \in 1 .. TokensOf(sentences) /\ q <= TokensBefore(all, n + 1) /\ TokensBefore(all, n) < q
       /\ q \in Nat /\ TokensBefore(all, n + 1) \in Nat
  BY <1>7, <1>8, <1>9, <1>10, <1>11
<1> HIDE DEF q
<1>13. PICK c \in DOMAIN chunks : chunks[c].from <= q /\ q <= chunks[c].to
  BY <1>12, TokenInChunk
<1>14. chunks[c].from \in Nat /\ chunks[c].to \in Nat
  BY ChunksAreIntervals DEF ChunkingIInv
<1>15. TokensBefore(all, n) < chunks[c].to /\ chunks[c].from <= TokensBefore(all, n + 1)
  BY <1>9, <1>12, <1>13, <1>14
<1> QED
  BY <1>3, <1>7, <1>15

\* chunk_section returns: what is appended is the open section's.
LEMMA FileSectionSound ==
    Parsing /\ SectionsFiled /\ ChunkingIInv /\ FileSection => SectionsFiled'
<1> SUFFICES ASSUME Parsing, SectionsFiled, ChunkingIInv, FileSection
             PROVE  SectionsFiled'
  OBVIOUS
<1> DEFINE paras ==
        [i \in DOMAIN chunks |-> ChunkOf("paragraph", i, Between(chunks[i].from, chunks[i].to))]
<1>1. /\ open /\ ~open' /\ item \in DOMAIN sections /\ Parsed
      /\ phase = "done" /\ sentences = SentencesOf(sections[item].paragraphs)
      /\ UNCHANGED <<starts, start, sections, item>>
  BY DEF FileSection, SectionsFiled, ParsingVars
<1>2. filed' = filed \o (paras \o TableChunks)
  <2>1. filed' = (filed \o paras) \o TableChunks
    BY DEF FileSection
  <2>2. filed \in Seq(FiledChunk)
    BY DEF SectionsFiled
  <2> QED
    BY <2>1
<1>3. item \in Items
  BY <1>1 DEF Parsing, ParsingTypeOK
<1>4. /\ paras \in Seq(FiledChunk)
      /\ \A r \in Range(paras) : r.item = item /\ \A p \in r.said :
            \E text \in Range(sections[item].paragraphs) : p \in Range(text)
      /\ \A p \in SpokenIn(sections[item].paragraphs) : \E r \in Range(paras) :
            r.item = item /\ r.kind = "paragraph" /\ p \in r.said
  <2>1. DOMAIN chunks = 1 .. Len(chunks) /\ Len(chunks) \in Nat
    BY DEF ChunkingIInv, TypeOK
  <2>2. ASSUME NEW i \in DOMAIN chunks
        PROVE  /\ paras[i] \in FiledChunk /\ paras[i].item = item /\ paras[i].kind = "paragraph"
               /\ paras[i].said = Between(chunks[i].from, chunks[i].to)
    <3>1. Between(chunks[i].from, chunks[i].to) \subseteq Phrases
      BY <1>1, ChunksSay
    <3>2. i \in Nat
      BY <2>1
    <3> QED
      BY <1>3, <3>1, <3>2 DEF ChunkOf, FiledChunk
  <2>3. DOMAIN paras = 1 .. Len(chunks)
    BY <2>1
  <2>4. \A i \in DOMAIN paras : \A p \in paras[i].said :
           \E text \in Range(sections[item].paragraphs) : p \in Range(text)
    BY <1>1, <2>1, <2>2, <2>3, ChunksSay
  <2>5. paras \in [1 .. Len(chunks) -> FiledChunk]
    BY <2>1, <2>2
  <2> HIDE DEF paras
  <2>6. \A p \in SpokenIn(sections[item].paragraphs) : \E i \in DOMAIN chunks : p \in paras[i].said
    BY <1>1, <2>2, AllPhrasesChunked
  <2> QED
    BY <2>1, <2>2, <2>3, <2>4, <2>5, <2>6, FunctionIsList DEF Range
<1>5. /\ TableChunks \in Seq(FiledChunk)
      /\ \A r \in Range(TableChunks) : r.item = item /\ \A p \in r.said :
            \E text \in Range(sections[item].tables) : p \in Range(text)
      /\ \A text \in Range(sections[item].tables) : \E r \in Range(TableChunks) :
            r.kind = "table" /\ r.said = Range(text)
  <2> DEFINE ss == sections[item].tables
  <2>1. ss \in Seq(Seq(Phrases))
    BY <1>1 DEF Parsing, ParsingTypeOK
  <2>2. \A i \in DOMAIN ss : i \in Nat /\ ss[i] \in Range(ss) /\ Range(ss[i]) \subseteq Phrases
    BY <1>1, ChunksSay
  <2>3. DOMAIN TableChunks = DOMAIN ss
        /\ \A i \in DOMAIN ss : TableChunks[i] = ChunkOf("table", i, Range(ss[i]))
    BY DEF TableChunks
  <2> HIDE DEF ss
  <2>4. \A i \in DOMAIN ss :
          /\ TableChunks[i] \in FiledChunk /\ TableChunks[i].item = item
          /\ TableChunks[i].kind = "table" /\ TableChunks[i].said = Range(ss[i])
    BY <1>3, <2>2, <2>3 DEF ChunkOf, FiledChunk
  <2>5. TableChunks \in Seq(FiledChunk)
    <3>1. DOMAIN ss = 1 .. Len(ss) /\ Len(ss) \in Nat
      BY <2>1
    <3>2. TableChunks = [i \in 1 .. Len(ss) |-> TableChunks[i]]
      BY <2>3, <3>1 DEF TableChunks
    <3> QED
      BY <2>4, <3>1, <3>2, FunctionIsList
  <2>6. /\ \A r \in Range(TableChunks) : r.item = item /\ \A p \in r.said :
            \E text \in Range(ss) : p \in Range(text)
        /\ \A text \in Range(ss) : \E r \in Range(TableChunks) :
            r.kind = "table" /\ r.said = Range(text)
    BY <2>2, <2>3, <2>4 DEF Range
  <2> QED
    BY <2>5, <2>6 DEF ss
<1> HIDE DEF paras
<1>6. filed' \in Seq(FiledChunk)
      /\ \A r : r \in Range(filed') <=> r \in Range(filed) \/ r \in Range(paras) \/ r \in Range(TableChunks)
  <2>1. filed \in Seq(FiledChunk)
    BY DEF SectionsFiled
  <2>2. paras \o TableChunks \in Seq(FiledChunk)
        /\ \A r : r \in Range(paras \o TableChunks) <=> r \in Range(paras) \/ r \in Range(TableChunks)
    BY <1>4, <1>5, RangesJoin
  <2> DEFINE new == paras \o TableChunks
  <2>3. filed' = filed \o new
    BY <1>2
  <2>4. new \in Seq(FiledChunk)
        /\ \A r : r \in Range(new) <=> r \in Range(paras) \/ r \in Range(TableChunks)
    BY <2>2
  <2> HIDE DEF new
  <2>5. filed \o new \in Seq(FiledChunk)
        /\ \A r : r \in Range(filed \o new) <=> r \in Range(filed) \/ r \in Range(new)
    BY <2>1, <2>4, RangesJoin
  <2> QED
    BY <2>3, <2>4, <2>5
<1>7. ASSUME NEW r \in Range(filed')
      PROVE  /\ r.item \in DOMAIN sections
             /\ \A p \in r.said :
                  \E text \in Range(sections[r.item].paragraphs) \union Range(sections[r.item].tables) :
                      p \in Range(text)
  <2>1. CASE r \in Range(filed)
    BY <2>1 DEF SectionsFiled
  <2>2. CASE r \in Range(paras)
    BY <1>1, <1>4, <2>2
  <2>3. CASE r \in Range(TableChunks)
    BY <1>1, <1>5, <2>3
  <2> QED
    BY <1>6, <2>1, <2>2, <2>3
<1>8. ASSUME NEW i \in DOMAIN sections, i < item \/ i = item
      PROVE  /\ \A text \in Range(sections[i].tables) : \E r \in Range(filed') :
                  r.kind = "table" /\ Range(text) \subseteq r.said
             /\ \A p \in SpokenIn(sections[i].paragraphs) : \E r \in Range(filed') :
                  r.item = i /\ r.kind = "paragraph" /\ p \in r.said
  <2>1. CASE i < item
    BY <1>6, <2>1 DEF SectionsFiled
  <2>2. CASE i = item
    BY <1>4, <1>5, <1>6, <2>2
  <2> QED
    BY <1>8, <2>1, <2>2
<1>9. item' \in 0 .. ItemCount /\ Parsed'
  BY <1>1 DEF SectionsFiled, Parsed
<1> QED
  BY <1>1, <1>6, <1>7, <1>8, <1>9 DEF SectionsFiled, SpokenIn

\* The steps of Chunking leave alone what is parsed and filed.
LEMMA ChunkStepSound ==
    FilingIInv /\ ChunkStep => FilingIInv'
<1> SUFFICES ASSUME FilingIInv, ChunkStep PROVE FilingIInv'
  OBVIOUS
<1>1. Next /\ UNCHANGED <<ParsingVars, item, open, filed>>
  BY DEF ChunkStep
<1>2. Parsing'
  BY <1>1, ParsingStays DEF FilingIInv, Parsing
<1>3. SectionsFiled'
  <2>1. sentences' = sentences
    BY <1>1 DEF Next, TakeSentence, OpenOverlong, TakeWindow, EndSplit, Extend, Flush, EndChunks
  <2> QED
    BY <1>1, <2>1 DEF FilingIInv, SectionsFiled, Parsed, ParsingVars, SpokenIn, SentencesOf
<1>4. ChunkingIInv'
  BY <1>1, TakeSentenceSound, OpenOverlongSound, TakeWindowSound, EndSplitSound, ExtendSound,
     FlushSound, EndChunksSound DEF Next, FilingIInv
<1> QED
  BY <1>2, <1>3, <1>4 DEF FilingIInv, Parsing

\* The invariant at the start.
LEMMA FilingInitSound == FilingInit => FilingIInv
<1> SUFFICES ASSUME FilingInit PROVE FilingIInv
  OBVIOUS
<1>1. /\ FilingRead /\ gone = {} /\ start = 1
      /\ at = IF starts = <<>> THEN 1 ELSE starts[1] + 1
      /\ paragraphs = <<>> /\ tables = <<>> /\ sections = <<>>
      /\ item = 0 /\ ~open /\ filed = <<>>
  BY DEF FilingInit, ParsingInit, FilingRead
<1>2. /\ Len(starts) \in Nat /\ DOMAIN starts = 1 .. Len(starts)
      /\ \A s \in DOMAIN starts : starts[s] \in Nat
  BY <1>1, BlocksAreRead
<1>3. start \in DOMAIN starts =>
        /\ at = starts[start] + 1
        /\ NextStart(start) \in Nat /\ starts[start] < NextStart(start)
  BY <1>1, <1>2, NextStarts
<1>4. DOMAIN sections = {} /\ Range(paragraphs) = {} /\ Range(tables) = {} /\ Range(filed) = {}
  BY <1>1 DEF Range
<1>5. ParsingTypeOK
  <2>1. start \in 1 .. Len(starts) + 1
    BY <1>1, <1>2
  <2>2. start \in DOMAIN starts => at \in starts[start] + 1 .. NextStart(start)
    BY <1>2, <1>3
  <2>3. {paragraphs, tables} \subseteq Seq(Seq(Phrases))
    BY <1>1
  <2> QED
    BY <1>1, <1>4, <2>1, <2>2, <2>3 DEF ParsingTypeOK
<1>6. RemovedTables
  <2>1. ASSUME NEW b \in Taken
        PROVE  FALSE
    <3>1. PICK s \in DOMAIN starts : /\ s <= 1 /\ starts[s] < b /\ b \in DOMAIN blocks
                                     /\ b < IF s = 1 THEN at ELSE NextStart(s)
      BY <1>1, <2>1 DEF Taken
    <3>2. s = 1
      BY <1>2, <3>1
    <3>3. b \in Nat
      BY <1>1, <3>1, BlocksAreRead
    <3> QED
      BY <1>1, <1>2, <1>3, <3>1, <3>2, <3>3
  <2> QED
    BY <1>1, <2>1 DEF RemovedTables
<1>7. SectionsFromHeadings /\ RemovedTablesKept
  BY <1>1, <1>4 DEF SectionsFromHeadings, ComesFrom, RemovedTablesKept
<1>8. SectionsFiled
  BY <1>1, <1>4, ParsingAssumption DEF SectionsFiled
<1>9. ChunkingIInv
  <2>1. /\ phase = "done" /\ sentences = <<>> /\ units = <<>> /\ chunks = <<>>
        /\ k = 1 /\ from = 1 /\ pos = 0 /\ joints = 0 /\ counted = 0 /\ rest = 0
    BY DEF FilingInit
  <2>2. TypeOK
    BY <2>1 DEF TypeOK
  <2>3. Consumed
    BY <2>1, <2>2, SentenceTaken DEF Consumed, UnitsEnd, TokensOf
  <2> QED
    BY <2>1, <2>2, <2>3, SizesAreNat
       DEF ChunkingIInv, UnitsPartition, Partition, Splitting, Assembling, Assembled, ChunksJoined,
           SizesBounded, Count
<1>10. TextCollected
  <2>1. \A s \in DOMAIN starts : ~(s < start)
    BY <1>1, <1>2
  <2>2. \A b \in DOMAIN blocks : b \in Nat
    BY <1>1, BlocksAreRead
  <2>3. start \in DOMAIN starts => \A b \in DOMAIN blocks : ~(starts[start] < b /\ b < at)
    BY <1>2, <1>3, <2>2
  <2> QED
    BY <1>4, <2>1, <2>3 DEF TextCollected
<1> QED
  BY <1>5, <1>6, <1>7, <1>8, <1>9, <1>10 DEF FilingIInv

\* A stuttering step keeps the invariant.
LEMMA FilingStutterSound == FilingIInv /\ UNCHANGED FilingVars => FilingIInv'
<1> SUFFICES ASSUME FilingIInv, UNCHANGED FilingVars PROVE FilingIInv'
  OBVIOUS
<1>1. UNCHANGED <<vars, ParsingVars, item, open, filed>>
  BY DEF FilingVars
<1>2. Parsing' /\ ChunkingIInv'
  BY <1>1, ParsingStays, StutterSound DEF FilingIInv, Parsing
<1>3. SectionsFiled'
  BY <1>1 DEF FilingIInv, SectionsFiled, Parsed, ParsingVars, vars, SpokenIn, SentencesOf
<1> QED
  BY <1>2, <1>3 DEF FilingIInv, Parsing

-----------------------------------------------------------------------------
(***************************************************************************)
(* Filings: the theorems                                                   *)
(***************************************************************************)

\* From the page to the list of chunks, the parser and the chunker are where
\* FilingIInv says they are.
THEOREM FilingInvariant == FilingSpec => []FilingIInv
<1>1. FilingInit => FilingIInv
  BY FilingInitSound
<1>2. FilingIInv /\ [FilingNext]_FilingVars => FilingIInv'
  <2> SUFFICES ASSUME FilingIInv, [FilingNext]_FilingVars PROVE FilingIInv'
    OBVIOUS
  <2>1. Parsing /\ SectionsFiled /\ ChunkingIInv /\ TypeOK
    BY DEF FilingIInv, Parsing, ChunkingIInv
  <2>2. CASE ParseStep
    <3>1. Parsing' /\ SectionsFiled' /\ UNCHANGED vars
      BY <2>1, <2>2, ParseStepSound
    <3> QED
      BY <2>1, <3>1, StutterSound DEF FilingIInv, Parsing
  <2>3. CASE OpenSection
    <3>1. Parsing'
      BY <2>1, <2>3, ParsingStays DEF OpenSection
    <3> QED
      BY <2>1, <2>3, <3>1, OpenSectionSound DEF FilingIInv, Parsing
  <2>4. CASE ChunkStep
    BY <2>4, ChunkStepSound
  <2>5. CASE FileSection
    <3>1. Parsing' /\ ChunkingIInv'
      BY <2>1, <2>5, ParsingStays, StutterSound DEF FileSection
    <3> QED
      BY <2>1, <2>5, <3>1, FileSectionSound DEF FilingIInv, Parsing
  <2>6. CASE UNCHANGED FilingVars
    BY <2>6, FilingStutterSound
  <2> QED
    BY <2>2, <2>3, <2>4, <2>5, <2>6 DEF FilingNext
<1> QED
  BY <1>1, <1>2, PTL DEF FilingSpec

\* Every variable keeps its type from the page to the chunks.
THEOREM FilingTypeCorrect == FilingSpec => [](ParsingTypeOK /\ TypeOK)
<1>1. FilingIInv => ParsingTypeOK /\ TypeOK
  BY DEF FilingIInv, ChunkingIInv
<1> QED
  BY <1>1, FilingInvariant, PTL

\* The chunks of each section of a filing are as those of any text are.
THEOREM FiledTextChunked ==
    FilingSpec => [](UnitsPartition /\ NothingLost /\ SizesBounded /\ ChunksFull /\ OverlapKept)
<1>1. ChunkingIInv => UnitsPartition /\ NothingLost /\ SizesBounded /\ ChunksFull /\ OverlapKept
  BY AllTextChunked DEF ChunkingIInv, ChunksFull, OverlapKept, ChunksJoined, Follows
<1>2. FilingIInv => ChunkingIInv
  BY DEF FilingIInv
<1> QED
  BY <1>1, <1>2, FilingInvariant, PTL

\* Whatever the page, what its tables say is running text only for items whose
\* heading is inside the table.
THEOREM TablesAlwaysIsolated == FilingSpec => []TablesIsolated
<1>1. FilingIInv => TablesIsolated
  <2> SUFFICES ASSUME FilingIInv,
                      NEW i \in DOMAIN sections, NEW p \in SpokenIn(sections[i].paragraphs)
               PROVE  \E n \in {m \in DOMAIN doc : Phrase(m) = p} :
                        \A t \in {t \in 1 .. n - 1 : doc[t].kind = "table" /\ n \in Under(t)} :
                            \E s \in HeadingsOf(i) : blocks[starts[s]] \in Under(t)
    BY DEF TablesIsolated
  <2>1. PICK s \in HeadingsOf(i) : ComesFrom(s, sections[i].paragraphs, sections[i].tables)
    BY DEF FilingIInv, SectionsFromHeadings
  <2>2. RunsUnder(s, p)
    BY <2>1 DEF ComesFrom, SpokenIn
  <2> QED
    BY <2>1, <2>2 DEF RunsUnder
<1> QED
  BY <1>1, FilingInvariant, PTL

\* What is filed of an item is in a list of its section.
LEMMA FiledInSection ==
    ASSUME FilingIInv, NEW i, NEW kind, NEW p \in FiledAs(i, kind)
    PROVE  /\ i \in DOMAIN sections
           /\ \E text \in Range(sections[i].paragraphs) \union Range(sections[i].tables) : p \in Range(text)
<1>1. PICK n \in DOMAIN filed : filed[n].item = i /\ p \in filed[n].said
  BY DEF FiledAs
<1>2. filed[n] \in Range(filed)
  BY <1>1 DEF Range
<1> QED
  BY <1>1, <1>2 DEF FilingIInv, SectionsFiled

\* Whatever the page, an item's chunks say what one of its sections does, up to
\* the next heading of any item.
THEOREM SectionsAlwaysEnd == FilingSpec => []SectionsEnd
<1>1. FilingIInv => SectionsEnd
  <2> SUFFICES ASSUME FilingIInv, NEW i \in Items
               PROVE  \/ FiledAs(i, "paragraph") \union FiledAs(i, "table") = {}
                      \/ \E s \in HeadingsOf(i) :
                           FiledAs(i, "paragraph") \union FiledAs(i, "table")
                             \subseteq SaidUnder(s)
    BY DEF SectionsEnd
  <2>1. ASSUME NEW kind, NEW p \in FiledAs(i, kind)
        PROVE  /\ i \in DOMAIN sections
               /\ \E text \in Range(sections[i].paragraphs) \union Range(sections[i].tables) : p \in Range(text)
    BY <2>1, FiledInSection
  <2>2. CASE i \in DOMAIN sections
    <3>1. PICK s \in HeadingsOf(i) : ComesFrom(s, sections[i].paragraphs, sections[i].tables)
      BY <2>2 DEF FilingIInv, SectionsFromHeadings
    <3> QED
      BY <2>1, <3>1 DEF ComesFrom
  <2>3. CASE i \notin DOMAIN sections
    BY <2>1, <2>3
  <2> QED
    BY <2>2, <2>3
<1> QED
  BY <1>1, FilingInvariant, PTL

\* Whatever the page, where text is under a heading of an item its chunks say all
\* the text there is under one of them, and no more than is there.
THEOREM HeadedTextAlwaysFiled == FilingSpec => []HeadedTextFiled
<1>1. FilingIInv => HeadedTextFiled
  <2> SUFFICES ASSUME FilingIInv, Finished, NEW i \in Items,
                      NEW r \in HeadingsOf(i), TextUnder(r) # {}
               PROVE  /\ FiledAs(i, "paragraph") # {}
                      /\ \E s \in HeadingsOf(i) :
                           /\ TextUnder(s) \subseteq FiledAs(i, "paragraph")
                           /\ FiledAs(i, "paragraph") \subseteq SaidUnder(s)
    BY DEF HeadedTextFiled
  <2>1. /\ ParsingTypeOK /\ FilingRead /\ start \notin DOMAIN starts
        /\ r \in DOMAIN starts /\ ItemAt(r) = i
    BY DEF FilingIInv, ParsingTypeOK, Finished, Parsed, HeadingsOf
  <2>2. r < start
    BY <2>1, BlocksAreRead DEF ParsingTypeOK
  <2>3. i \in DOMAIN sections /\ SpokenIn(sections[i].paragraphs) # {}
    BY <2>1, <2>2 DEF FilingIInv, TextCollected
  <2>4. PICK s \in HeadingsOf(i) : /\ ComesFrom(s, sections[i].paragraphs, sections[i].tables)
                                  /\ TextUnder(s) \subseteq SpokenIn(sections[i].paragraphs)
    BY <2>3 DEF FilingIInv, SectionsFromHeadings
  <2>5. i < item \/ (i = item /\ ~open)
    BY <2>1, <2>3 DEF Finished, ParsingTypeOK, Items, FilingIInv, SectionsFiled
  <2>6. SpokenIn(sections[i].paragraphs) \subseteq FiledAs(i, "paragraph")
    <3>1. SUFFICES ASSUME NEW p \in SpokenIn(sections[i].paragraphs)
                   PROVE  p \in FiledAs(i, "paragraph")
      OBVIOUS
    <3>2. PICK c \in Range(filed) : c.item = i /\ c.kind = "paragraph" /\ p \in c.said
      BY <2>3, <2>5, <3>1 DEF FilingIInv, SectionsFiled
    <3>3. PICK n \in DOMAIN filed : c = filed[n]
      BY <3>2 DEF Range
    <3> QED
      BY <3>2, <3>3 DEF FiledAs
  <2>7. FiledAs(i, "paragraph") \subseteq SaidUnder(s)
    BY <2>4, FiledInSection DEF ComesFrom
  <2> QED
    BY <2>3, <2>4, <2>6, <2>7
<1> QED
  BY <1>1, FilingInvariant, PTL

\* Whatever the page, where each item has one heading no table under one is lost.
THEOREM TablesAlwaysKept == FilingSpec => []TablesKept
<1>1. FilingIInv => TablesKept
  <2> SUFFICES ASSUME FilingIInv, Finished, OneHeadingEach,
                      NEW s \in DOMAIN starts, NEW t \in TablesUnder(s)
               PROVE  InTableChunk(t)
    BY DEF TablesKept
  <2>1. ParsingTypeOK /\ FilingRead
    BY DEF FilingIInv, ParsingTypeOK
  <2>2. start \notin DOMAIN starts
    BY DEF Finished, Parsed
  <2>3. PICK n \in BlocksUnder(s) : t \in Under(n) /\ doc[t].kind = "table" /\ Said(t, {}) # <<>>
    BY DEF TablesUnder
  <2>4. PICK b \in DOMAIN blocks : starts[s] < b /\ b < NextStart(s) /\ n = blocks[b]
    BY <2>1, <2>3, BlocksBetween
  <2>5. s < start
    BY <2>1, <2>2, BlocksAreRead DEF ParsingTypeOK
  <2>6. b \in Taken
    <3>1. s <= start /\ s # start
      BY <2>1, <2>5, BlocksAreRead DEF ParsingTypeOK
    <3> QED
      BY <2>4, <3>1 DEF Taken
  <2>7. t \in gone
    BY <2>3, <2>4, <2>6 DEF FilingIInv, RemovedTables
  <2>8. Range(tables) = {}
    BY <2>2 DEF FilingIInv, SectionsFromHeadings, Range
  <2>9. PICK i \in DOMAIN sections : \E text \in Range(sections[i].tables) : Range(Said(t, {})) \subseteq Range(text)
    BY <2>3, <2>7, <2>8 DEF FilingIInv, RemovedTablesKept
  <2>10. PICK text \in Range(sections[i].tables) : Range(Said(t, {})) \subseteq Range(text)
    BY <2>9
  <2>11. i < item \/ (i = item /\ ~open)
    BY <2>1 DEF Finished, ParsingTypeOK, Items, FilingIInv, SectionsFiled
  <2>12. PICK r \in Range(filed) : r.kind = "table" /\ Range(text) \subseteq r.said
    BY <2>10, <2>11 DEF FilingIInv, SectionsFiled
  <2> QED
    BY <2>10, <2>12 DEF InTableChunk, Range
<1> QED
  BY <1>1, FilingInvariant, PTL
=============================================================================
