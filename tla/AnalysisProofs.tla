--------------------------- MODULE AnalysisProofs ---------------------------
(***************************************************************************)
(* Proofs about one analysis, for any holdings, stores, limits and replies *)
(* of the models and of the reranker: the selection (SectionDiversity),    *)
(* the four nodes (AnalysisGraph), and the two with the retrieval between  *)
(* them (Analysis).                                                        *)
(* Three inductive invariants carry them.  SelectionIInv: a budget once    *)
(* spent stays spent, because `selected` only grows.  GraphIInv: what each *)
(* node may rely on, given that any node before it may have failed.        *)
(* AnalysisIInv: what a retrieval has at hand is evidence of its tickers.  *)
(***************************************************************************)
EXTENDS Analysis, OrderingProofs

-----------------------------------------------------------------------------
(***************************************************************************)
(* The selection                                                           *)
(***************************************************************************)

\* A larger set of the indices has spent at least as much.
LEMMA SubsetSpends ==
    ASSUME NEW S, NEW T, IsFiniteSet(T), S \subseteq T, NEW n \in Nat, Cardinality(S) >= n
    PROVE  Cardinality(T) >= n
<1>1. IsFiniteSet(S) /\ Cardinality(S) <= Cardinality(T)
  BY FS_Subset
<1>2. Cardinality(S) \in Nat /\ Cardinality(T) \in Nat
  BY <1>1, FS_CardinalityType
<1> QED
  BY <1>1, <1>2

LEMMA InitEstablishes == SelectionInit => SelectionIInv
<1> SUFFICES ASSUME SelectionInit PROVE SelectionIInv
  OBVIOUS
<1>1. \A c : InPeriod(c) = {}
  BY DEF SelectionInit, InPeriod
<1>2. IsFiniteSet({}) /\ Cardinality({}) = 0
  BY FS_EmptySet
<1>3. DOMAIN ordered = {}
  BY DEF SelectionInit
<1>4. SelectionTypeOK
  BY <1>2, <1>3, SectionDiversityAssumption DEF SelectionInit, SelectionTypeOK
<1> QED
  BY <1>2, <1>3, <1>4, SectionDiversityAssumption DEF SelectionInit, SelectionIInv, Full

\* What a pass of the loop that takes a chunk does to the invariant.
LEMMA TakeKeeps ==
    ASSUME SelectionIInv, TakeOrSkip, ~Spent(ordered[at])
    PROVE  SelectionIInv'
<1> DEFINE c == ordered[at]
<1>1. /\ pass = "selecting" /\ at \in DOMAIN ordered /\ at \in Nat \ {0}
      /\ at' = at + 1
      /\ taken' = taken \union {at}
      /\ ordered' = ordered
      /\ ordered \in Seq(Chunks)
      /\ IsFiniteSet(taken) /\ taken \subseteq DOMAIN ordered
      /\ \A i \in taken : i < at
      /\ DOMAIN ordered = 1 .. Len(ordered) /\ Len(ordered) \in Nat
      /\ MaxPerSection \in Nat /\ MaxPerDate \in Nat /\ FinalLimit \in Nat
  BY SectionDiversityAssumption DEF SelectionIInv, SelectionTypeOK, TakeOrSkip
<1>2. /\ IsFiniteSet(taken')
      /\ Cardinality(taken') = Cardinality(taken) + 1
      /\ Cardinality(taken) \in Nat
  <2>1. at \notin taken
    BY <1>1
  <2> QED
    BY <1>1, <2>1, FS_AddElement, FS_CardinalityType
<1>3. pass' \in {"selecting", "done"} /\ (pass' = "done" <=> Cardinality(taken') >= FinalLimit)
  BY <1>1 DEF TakeOrSkip
<1>4. SelectionTypeOK'
  <2>1. Cardinality(taken') <= FinalLimit
    \* The loop is still running, so it was not full before.
    <3>1. Cardinality(taken) < FinalLimit
      BY <1>1, <1>2 DEF SelectionIInv, Full
    <3> QED
      BY <3>1, <1>1, <1>2
  <2>2. \A i \in taken' : i < at'
    BY <1>1
  <2> QED
    BY <1>1, <1>3, <2>1, <2>2 DEF SelectionTypeOK
<1>5. ASSUME NEW i \in DOMAIN ordered \ taken', i < at'
      PROVE  Spent(ordered[i])'
  <2>1. i < at /\ i \in DOMAIN ordered \ taken
    BY <1>1, <1>5
  <2>2. Spent(ordered[i])
    BY <2>1 DEF SelectionIInv
  <2>3. /\ InSection(ordered[i]) \subseteq InSection(ordered[i])'
        /\ InPeriod(ordered[i]) \subseteq InPeriod(ordered[i])'
    BY <1>1 DEF InSection, InPeriod
  <2>4. IsFiniteSet(InSection(ordered[i])') /\ IsFiniteSet(InPeriod(ordered[i])')
    <3>1. InSection(ordered[i])' \subseteq taken' /\ InPeriod(ordered[i])' \subseteq taken'
      BY DEF InSection, InPeriod
    <3> QED
      BY <1>2, <3>1, FS_Subset
  <2> QED
    BY <1>1, <2>2, <2>3, <2>4, SubsetSpends DEF Spent
<1>6. ASSUME NEW i \in DOMAIN ordered
      PROVE  Cardinality(InPeriod(ordered[i])') <= MaxPerDate
  <2>1. IsFiniteSet(InPeriod(ordered[i])) /\ Cardinality(InPeriod(ordered[i])) \in Nat
    <3>1. InPeriod(ordered[i]) \subseteq taken
      BY DEF InPeriod
    <3> QED
      BY <1>1, <3>1, FS_Subset, FS_CardinalityType
  <2>2. CASE SamePeriod(c, ordered[i])
    <3>1. InPeriod(ordered[i])' = InPeriod(ordered[i]) \union {at}
      BY <1>1, <2>2 DEF InPeriod
    <3>2. InPeriod(ordered[i]) = InPeriod(c)
      BY <2>2 DEF InPeriod, SamePeriod, SameSection
    <3>3. Cardinality(InPeriod(c)) < MaxPerDate
      BY <2>1, <3>2, <1>1 DEF Spent
    <3>4. Cardinality(InPeriod(ordered[i])') = Cardinality(InPeriod(ordered[i])) + 1
      <4>1. at \notin InPeriod(ordered[i])
        BY <1>1 DEF InPeriod
      <4> QED
        BY <2>1, <3>1, <4>1, FS_AddElement
    <3>5. IsFiniteSet(InPeriod(ordered[i])') /\ Cardinality(InPeriod(ordered[i])') \in Nat
      BY <2>1, <3>1, FS_AddElement, FS_CardinalityType
    <3> QED
      BY <1>1, <2>1, <3>2, <3>3, <3>4, <3>5
  <2>3. CASE ~SamePeriod(c, ordered[i])
    <3>1. InPeriod(ordered[i])' = InPeriod(ordered[i])
      BY <1>1, <2>3 DEF InPeriod
    <3> QED
      BY <3>1 DEF SelectionIInv
  <2> QED
    BY <2>2, <2>3
<1>7. (IF pass = "done" THEN Full \/ at \notin DOMAIN ordered ELSE ~Full)'
  BY <1>3 DEF Full
<1> QED
  BY <1>1, <1>2, <1>3, <1>4, <1>5, <1>6, <1>7 DEF SelectionIInv

LEMMA NextPreserves == SelectionIInv /\ [SelectionNext]_SelectionVars => SelectionIInv'
<1> SUFFICES ASSUME SelectionIInv, [SelectionNext]_SelectionVars PROVE SelectionIInv'
  OBVIOUS
<1>1. CASE Call
  <2>1. taken = {} /\ taken' = {} /\ at' = 1 /\ pass' = "selecting"
    \* Before the call the list is empty.
    BY <1>1 DEF Call, SelectionIInv, SelectionTypeOK
  <2>2. ordered' \in Seq(Chunks)
    BY <1>1, SectionDiversityAssumption DEF Call
  <2>3. IsFiniteSet({}) /\ Cardinality({}) = 0
    BY FS_EmptySet
  <2>4. SelectionTypeOK'
    BY <2>1, <2>2, <2>3, SectionDiversityAssumption DEF SelectionTypeOK
  <2>5. \A i \in DOMAIN ordered' : Cardinality(InPeriod(ordered[i])') <= MaxPerDate
    <3>1. ASSUME NEW i \in DOMAIN ordered'
          PROVE  Cardinality(InPeriod(ordered[i])') = 0
      <4>1. InPeriod(ordered[i])' = {}
        BY <2>1 DEF InPeriod
      <4> QED
        BY <4>1, <2>3, Zenon
    <3>2. 0 <= MaxPerDate
      BY SectionDiversityAssumption
    <3> QED
      BY <3>1, <3>2
  <2>6. \A i \in DOMAIN ordered' : ~(i < at')
    BY <2>1, <2>2
  <2>7. ~Full'
    BY <2>1, <2>3, SectionDiversityAssumption DEF Full
  <2> QED
    BY <2>1, <2>3, <2>4, <2>5, <2>6, <2>7, SectionDiversityAssumption DEF SelectionIInv
<1>2. CASE TakeOrSkip /\ ~Spent(ordered[at])
  BY <1>2, TakeKeeps
<1>3. CASE TakeOrSkip /\ Spent(ordered[at])
  <2>1. /\ pass = "selecting" /\ at \in Nat \ {0} /\ at' = at + 1
        /\ pass' = pass /\ taken' = taken /\ ordered' = ordered
        /\ ordered \in Seq(Chunks) /\ \A i \in taken : i < at
        /\ taken \subseteq DOMAIN ordered
    BY <1>3 DEF TakeOrSkip, SelectionIInv, SelectionTypeOK
  <2>2. \A i \in DOMAIN ordered : Spent(ordered[i])' = Spent(ordered[i])
    BY <2>1 DEF Spent, InSection, InPeriod
  <2>3. \A i \in DOMAIN ordered : InPeriod(ordered[i])' = InPeriod(ordered[i])
    BY <2>1 DEF InPeriod
  <2>4. ASSUME NEW i \in DOMAIN ordered \ taken, i < at + 1
        PROVE  Spent(ordered[i])'
    <3>1. CASE i = at
      BY <3>1, <1>3, <2>2
    <3>2. CASE i # at
      <4>1. i < at
        BY <2>1, <2>4, <3>2
      <4> QED
        BY <4>1, <2>2 DEF SelectionIInv
    <3> QED
      BY <3>1, <3>2
  <2>5. SelectionTypeOK'
    BY <2>1 DEF SelectionIInv, SelectionTypeOK
  <2>6. ~Full'
    BY <2>1 DEF SelectionIInv, Full
  <2> QED
    BY <2>1, <2>3, <2>4, <2>5, <2>6 DEF SelectionIInv
<1>4. CASE Return
  BY <1>4 DEF Return, SelectionIInv, SelectionTypeOK, Full, Spent, InSection, InPeriod
<1>5. CASE UNCHANGED SelectionVars
  BY <1>5 DEF SelectionVars, SelectionIInv, SelectionTypeOK, Full, Spent, InSection, InPeriod
<1> QED
  BY <1>1, <1>2, <1>3, <1>4, <1>5 DEF SelectionNext

\* Every reachable state of apply_section_diversity satisfies SelectionIInv.
THEOREM SelectionInvariant == SelectionSpec => []SelectionIInv
  BY InitEstablishes, NextPreserves, PTL DEF SelectionSpec

\* apply_section_diversity: types, and never more than FinalLimit chunks.
THEOREM SelectionTypeCorrect == SelectionSpec => []SelectionTypeOK
<1>1. SelectionIInv => SelectionTypeOK
  BY DEF SelectionIInv
<1> QED
  BY <1>1, SelectionInvariant, PTL

\* apply_section_diversity leaves no chunk out that the caps have room for.
LEMMA LeftOutFollows == SelectionIInv => LeftOutForCause
<1> SUFFICES ASSUME SelectionIInv, pass = "done", ~Full,
                    NEW i \in DOMAIN ordered \ taken
             PROVE  Spent(ordered[i])
  BY DEF LeftOutForCause
<1>1. at \notin DOMAIN ordered /\ at \in Nat \ {0} /\ ordered \in Seq(Chunks)
  BY DEF SelectionIInv, SelectionTypeOK
<1>2. i < at
  BY <1>1
<1> QED
  BY <1>2 DEF SelectionIInv

THEOREM LeftOutAlwaysForCause == SelectionSpec => []LeftOutForCause
  BY LeftOutFollows, SelectionInvariant, PTL

\* If the selection had one date of the section only, its share of the budget
\* would leave room for the other date.
LEMMA PeriodsFollow == SelectionIInv => PeriodsSurvive
<1> SUFFICES ASSUME SelectionIInv, pass = "done", ~Full,
                    NEW i \in DOMAIN ordered, NEW j \in DOMAIN ordered,
                    SameSection(ordered[i], ordered[j]),
                    ordered[i].date # ordered[j].date,
                    \A m, n \in InSection(ordered[i]) : ordered[m].date = ordered[n].date
             PROVE  FALSE
  BY DEF PeriodsSurvive
<1> DEFINE own == InSection(ordered[i])
<1>1. InSection(ordered[j]) = own
  BY DEF InSection, SameSection
<1>2. /\ MaxPerSection \in Nat \ {0} /\ MaxPerDate \in Nat \ {0}
      /\ MaxPerDate < MaxPerSection
  BY SectionDiversityAssumption
<1>3. /\ IsFiniteSet(own) /\ Cardinality(own) \in Nat
      /\ own \subseteq taken /\ taken \subseteq DOMAIN ordered
  BY FS_Subset, FS_CardinalityType DEF InSection, SelectionIInv, SelectionTypeOK
<1>4. Cardinality(own) < MaxPerSection
  <2>1. CASE own = {}
    BY <2>1, <1>2, FS_EmptySet
  <2>2. CASE own # {}
    <3>1. PICK k \in own : TRUE
      BY <2>2
    <3>2. own = InPeriod(ordered[k])
      BY <3>1 DEF InSection, InPeriod, SamePeriod, SameSection
    <3>3. Cardinality(own) <= MaxPerDate
      BY <3>1, <3>2, <1>3 DEF SelectionIInv
    <3> QED
      BY <3>3, <1>2, <1>3
  <2> QED
    BY <2>1, <2>2
\* A chunk of the section whose date has no share is taken: its budgets are not
\* spent.
<1>5. ASSUME NEW k \in {i, j}, k \notin taken
      PROVE  InPeriod(ordered[k]) # {}
  <2>1. Spent(ordered[k])
    BY <1>5, LeftOutFollows DEF LeftOutForCause
  <2>2. Cardinality(InSection(ordered[k])) < MaxPerSection
    BY <1>1, <1>4, <1>5
  <2>3. Cardinality(InPeriod(ordered[k])) >= MaxPerDate
    BY <2>1, <2>2, <1>1, <1>2, <1>3 DEF Spent
  <2> QED
    BY <2>3, <1>2, FS_EmptySet
<1>6. ASSUME NEW k \in {i, j}
      PROVE  \E m \in own : ordered[m].date = ordered[k].date
  <2>1. CASE k \in taken
    BY <2>1, <1>6 DEF InSection, SameSection
  <2>2. CASE k \notin taken
    <3>1. PICK m \in InPeriod(ordered[k]) : TRUE
      BY <1>5, <1>6, <2>2
    <3> QED
      BY <3>1, <1>6 DEF InPeriod, SamePeriod, InSection, SameSection
  <2> QED
    BY <2>1, <2>2
<1> QED
  BY <1>6

\* apply_section_diversity keeps two dates of every section it is given in two
\* dates, for any caps of which the one on a date is the smaller.
THEOREM PeriodsAlwaysSurvive == SelectionSpec => []PeriodsSurvive
  BY PeriodsFollow, SelectionInvariant, PTL

-----------------------------------------------------------------------------
(***************************************************************************)
(* The four nodes                                                          *)
(***************************************************************************)

\* A node writes once: what later nodes write is still as at the start.
Untouched ==
    /\ node \in {"planner", "retrieval"} => retrieved = {}
    /\ node \in {"planner", "retrieval", "change"} => changes = {}
    /\ node # "end" => memo = NoMemo

\* An error is marked, and without one each node has done its work.
ErrorsMarked ==
    /\ error = "none" <=> ~partial
    /\ node # "planner" /\ error = "none" => holdings # {} /\ plan # NoPlan
    /\ node = "end" /\ error = "none" => memo # NoMemo

ChangesRetrieved == changes \subseteq [old : retrieved, new : retrieved]

GraphIInv ==
    /\ GraphTypeOK /\ Untouched /\ ErrorsMarked
    /\ ChangesRetrieved /\ DriftsSpanPeriods /\ MemoGrounded

\* The citations of a reply are finitely many, and those that pass are some of them.
LEMMA CitedFinite ==
    ASSUME NEW text \in Seq(SUBSET Names)
    PROVE  IsFiniteSet(Cited(text)) /\ Passed(text) \subseteq Cited(text)
<1>1. Cited(text) \subseteq (1 .. Len(text)) \X Names
  BY DEF Cited
<1>2. IsFiniteSet(1 .. Len(text))
  BY FS_Interval
<1>3. IsFiniteSet((1 .. Len(text)) \X Names)
  BY <1>2, FS_Product, GraphAssumption
<1>4. IsFiniteSet(Cited(text))
  BY <1>1, <1>3, FS_Subset
<1> QED
  BY <1>4 DEF Passed

\* The pass rate of a reply is 1 exactly if all of it stays.
LEMMA RateTellsRemoval ==
    ASSUME NEW text \in Seq(SUBSET Names)
    PROVE  Cardinality(Passed(text)) = Cardinality(Cited(text)) <=> Verified(text) = text
<1>1. IsFiniteSet(Cited(text)) /\ Passed(text) \subseteq Cited(text)
  BY CitedFinite
<1>2. Cardinality(Passed(text)) = Cardinality(Cited(text)) => Passed(text) = Cited(text)
  BY <1>1, FS_Subset
<1>3. Passed(text) = Cited(text) <=> \A i \in DOMAIN text : text[i] \subseteq ValidIds
  <2>1. \A m : m \in Cited(text) <=> \E i \in DOMAIN text : \E n \in text[i] : m = <<i, n>>
    BY DEF Cited
  <2>2. ASSUME Passed(text) = Cited(text), NEW i \in DOMAIN text, NEW n \in text[i]
        PROVE  n \in ValidIds
    <3>1. <<i, n>> \in Passed(text)
      BY <2>1, <2>2
    <3> QED
      BY <3>1 DEF Passed
  <2>3. ASSUME \A i \in DOMAIN text : text[i] \subseteq ValidIds, NEW m \in Cited(text)
        PROVE  m \in Passed(text)
    BY <2>1, <2>3 DEF Passed
  <2> QED
    BY <2>2, <2>3 DEF Passed
<1>4. (\A i \in DOMAIN text : text[i] \subseteq ValidIds) => Verified(text) = text
  <2> HAVE \A i \in DOMAIN text : text[i] \subseteq ValidIds
  <2>1. {i \in DOMAIN text : text[i] \subseteq ValidIds} = DOMAIN text
    OBVIOUS
  <2>2. text = [i \in DOMAIN text |-> text[i]]
    OBVIOUS
  <2> QED
    BY <2>1, <2>2 DEF Verified, At
<1>5. Verified(text) = text => \A i \in DOMAIN text : text[i] \subseteq ValidIds
  <2>1. DOMAIN Verified(text) = {i \in DOMAIN text : text[i] \subseteq ValidIds}
    BY DEF Verified, At
  <2> QED
    BY <2>1
<1> QED
  BY <1>2, <1>3, <1>4, <1>5

\* The first of a list's members are members.
LEMMA SomeAreMembers ==
    ASSUME NEW n, NEW S, NEW s \in Some(n, S)
    PROVE  s \subseteq S
BY DEF Some

\* What the score of a holding cites.
LEMMA ScoresCiteHolding ==
    ASSUME ChangesRetrieved, NEW t, NEW s \in ScoreCitations(t), NEW c \in s
    PROVE  c \in retrieved /\ c.ticker = t
<1> DEFINE own == {d.new : d \in {e \in changes : e.new.ticker = t}}
<1>1. CASE own # {}
  <2>1. c \in own
    BY <1>1, SomeAreMembers DEF ScoreCitations
  <2> QED
    BY <2>1 DEF ChangesRetrieved
<1>2. CASE own = {}
  BY <1>2, SomeAreMembers DEF ScoreCitations
<1> QED
  BY <1>1, <1>2

\* The chunks of a pair are the ends of the group's time.
LEMMA PairSpansGroup ==
    ASSUME GraphTypeOK, NEW g, NEW p \in Pairs(g)
    PROVE  /\ p[1] \in InGroup(g) /\ p[2] \in InGroup(g)
           /\ p[1].date < p[2].date
           /\ \A c \in InGroup(g) : p[1].date <= c.date /\ c.date <= p[2].date
<1>1. PICK old \in First(Oldest(InGroup(g))), new \in First(Newest(InGroup(g))) :
        p = <<old, new>> /\ old.date # new.date
  BY DEF Pairs
<1>2. old \in InGroup(g) /\ new \in InGroup(g)
  BY DEF First, Oldest, Newest
<1>3. \A c \in InGroup(g) : old.date <= c.date /\ c.date <= new.date
  BY DEF First, Oldest, Newest
<1>4. old.date \in Nat /\ new.date \in Nat
  BY <1>2, GraphAssumption DEF InGroup, GraphTypeOK
<1> QED
  BY <1>1, <1>2, <1>3, <1>4

LEMMA InitGraph == GraphInit => GraphIInv
BY DEF GraphInit, GraphIInv, GraphTypeOK, Untouched, ErrorsMarked, ChangesRetrieved,
       DriftsSpanPeriods, MemoGrounded, NoMemo

\* A node that fails hands on what it was given.
LEMMA FailureKeeps ==
    ASSUME GraphIInv, node \in {"planner", "retrieval", "change", "memo"}, NEW cause, cause # "none",
           Fails(cause), node' \in {"retrieval", "change", "memo", "end"},
           node = "planner" => node' = "retrieval", node = "retrieval" => node' = "change",
           node = "change" => node' = "memo", node = "memo" => node' = "end"
    PROVE  GraphIInv'
<1>1. UNCHANGED <<holdings, plan, retrieved, changes, memo, reasoner>> /\ partial' = TRUE /\ error' # "none"
  BY DEF Fails, Findings
<1>2. GraphTypeOK'
  BY <1>1 DEF GraphIInv, GraphTypeOK
<1>3. Untouched' /\ ErrorsMarked'
  BY <1>1 DEF GraphIInv, Untouched, ErrorsMarked
<1>4. ChangesRetrieved' /\ DriftsSpanPeriods'
  BY <1>1 DEF GraphIInv, ChangesRetrieved, DriftsSpanPeriods, InGroup
<1>5. MemoGrounded'
  BY <1>1 DEF GraphIInv, MemoGrounded, ValidIds
<1> QED
  BY <1>2, <1>3, <1>4, <1>5 DEF GraphIInv

LEMMA PlannerKeeps == GraphIInv /\ Planner => GraphIInv'
<1> SUFFICES ASSUME GraphIInv, Planner PROVE GraphIInv'
  OBVIOUS
<1>1. node = "planner" /\ node' = "retrieval"
  BY DEF Planner
<1>2. retrieved = {} /\ changes = {} /\ memo = NoMemo
  BY <1>1 DEF GraphIInv, Untouched
<1>3. CASE Fails("planner failed")
  BY <1>1, <1>3, FailureKeeps
<1>4. ASSUME UNCHANGED <<retrieved, changes, memo, reasoner>>,
             holdings' \subseteq Tickers, plan' \subseteq Tickers,
             error' = "none" <=> ~partial', partial' \in BOOLEAN,
             error' = "none" => holdings' # {}
      PROVE  GraphIInv'
  <2>1. plan' # NoPlan
    BY <1>4, GraphAssumption
  <2>2. GraphTypeOK' /\ Untouched' /\ ErrorsMarked'
    BY <1>1, <1>2, <1>4, <2>1 DEF GraphIInv, GraphTypeOK, Untouched, ErrorsMarked
  <2>3. ChangesRetrieved' /\ DriftsSpanPeriods' /\ MemoGrounded'
    BY <1>2, <1>4 DEF ChangesRetrieved, DriftsSpanPeriods, MemoGrounded
  <2> QED
    BY <2>2, <2>3 DEF GraphIInv
<1>5. CASE /\ holdings' = {} /\ plan' = {}
           /\ error' = "no holdings" /\ partial' = TRUE
           /\ UNCHANGED <<retrieved, changes, memo, reasoner>>
  BY <1>4, <1>5
<1>6. CASE /\ holdings' \in (SUBSET Tickers) \ {{}}
           /\ plan' \in {Largest(holdings')} \union NamedTargets(holdings')
           /\ UNCHANGED <<retrieved, changes, memo, error, partial, reasoner>>
  <2>1. holdings' \subseteq Tickers /\ holdings' # {}
    BY <1>6
  <2>2. Largest(holdings') \subseteq Tickers
    BY <2>1 DEF Largest
  <2>3. plan' \subseteq Tickers
    BY <1>6, <2>2 DEF NamedTargets
  <2>4. (error' = "none" <=> ~partial') /\ partial' \in BOOLEAN
    BY <1>6 DEF GraphIInv, ErrorsMarked, GraphTypeOK
  <2> QED
    BY <1>4, <1>6, <2>1, <2>3, <2>4
<1> QED
  BY <1>3, <1>5, <1>6 DEF Planner

LEMMA RetrievalKeeps == GraphIInv /\ Retrieval => GraphIInv'
<1> SUFFICES ASSUME GraphIInv, Retrieval PROVE GraphIInv'
  OBVIOUS
<1>1. node = "retrieval" /\ node' = "change"
  BY DEF Retrieval
<1>2. CASE Skipped
  <2>1. (IF error = "none" THEN "skipped" ELSE error) # "none"
    OBVIOUS
  <2> QED
    BY <1>1, <1>2, <2>1, FailureKeeps DEF Skipped
<1>3. CASE Fails("retrieval failed")
  BY <1>1, <1>3, FailureKeeps
<1>4. CASE Retrieves /\ UNCHANGED <<error, partial>>
  <2>1. changes' = {} /\ memo' = NoMemo /\ changes = {} /\ memo = NoMemo
    BY <1>1, <1>4 DEF GraphIInv, Untouched, Retrieves
  <2>2. retrieved' \subseteq Store
    BY <1>4 DEF Retrieves
  <2>3. GraphTypeOK' /\ Untouched' /\ ErrorsMarked'
    BY <1>1, <1>4, <2>1, <2>2 DEF GraphIInv, GraphTypeOK, Untouched, ErrorsMarked, Retrieves
  <2>4. ChangesRetrieved' /\ DriftsSpanPeriods' /\ MemoGrounded'
    BY <2>1 DEF ChangesRetrieved, DriftsSpanPeriods, MemoGrounded
  <2> QED
    BY <2>3, <2>4 DEF GraphIInv
<1> QED
  BY <1>2, <1>3, <1>4 DEF Retrieval

LEMMA ChangeKeeps == GraphIInv /\ Change => GraphIInv'
<1> SUFFICES ASSUME GraphIInv, Change PROVE GraphIInv'
  OBVIOUS
<1>1. node = "change" /\ node' = "memo"
  BY DEF Change
<1>2. CASE Fails("change failed")
  BY <1>1, <1>2, FailureKeeps
<1>3. ASSUME NEW material \in SUBSET {c.group : c \in retrieved},
             NEW pair \in [material -> UNION {Pairs(g) : g \in material}],
             \A g \in material : pair[g] \in Pairs(g),
             changes' = {[old |-> pair[g][1], new |-> pair[g][2]] : g \in material},
             UNCHANGED <<holdings, plan, retrieved, memo, error, partial, reasoner>>
      PROVE  GraphIInv'
  <2>1. ASSUME NEW g \in material
        PROVE  /\ pair[g][1] \in InGroup(g) /\ pair[g][2] \in InGroup(g)
               /\ pair[g][1].date < pair[g][2].date
               /\ \A c \in InGroup(g) : pair[g][1].date <= c.date /\ c.date <= pair[g][2].date
    BY <1>3, PairSpansGroup DEF GraphIInv
  <2>2. \A g : InGroup(g) \subseteq retrieved /\ \A c \in InGroup(g) : c.group = g
    BY DEF InGroup
  <2>3. ASSUME NEW d \in changes'
        PROVE  \E g \in material : d = [old |-> pair[g][1], new |-> pair[g][2]] /\ d.new.group = g
    BY <1>3, <2>1, <2>2
  <2>4. ChangesRetrieved'
    BY <1>3, <2>1, <2>2 DEF ChangesRetrieved
  <2>5. DriftsSpanPeriods'
    <3> SUFFICES ASSUME NEW d \in changes'
                 PROVE  /\ d.old.group = d.new.group
                        /\ d.old.date < d.new.date
                        /\ \A c \in InGroup(d.new.group) : d.old.date <= c.date /\ c.date <= d.new.date
                        /\ \A e \in changes' : e.new.group = d.new.group => e = d
      BY <1>3 DEF DriftsSpanPeriods, InGroup
    <3>1. PICK g \in material : d = [old |-> pair[g][1], new |-> pair[g][2]] /\ d.new.group = g
      BY <2>3
    <3>2. d.old.group = g
      BY <3>1, <2>1, <2>2
    <3>3. \A e \in changes' : e.new.group = d.new.group => e = d
      BY <2>3, <3>1
    <3> QED
      BY <3>1, <3>2, <3>3, <2>1
  <2>6. GraphTypeOK'
    BY <1>1, <1>3, <2>4 DEF GraphIInv, GraphTypeOK, ChangesRetrieved
  <2>7. Untouched' /\ ErrorsMarked'
    BY <1>1, <1>3 DEF GraphIInv, Untouched, ErrorsMarked
  <2>8. MemoGrounded'
    BY <1>1, <1>3 DEF GraphIInv, Untouched, MemoGrounded
  <2> QED
    BY <2>4, <2>5, <2>6, <2>7, <2>8 DEF GraphIInv
<1> QED
  BY <1>2, <1>3 DEF Change

\* What Writes does to the invariant, for the reply that the reasoner gave or for
\* the empty text.
LEMMA WritesKeeps ==
    ASSUME GraphIInv, node = "memo", node' = "end", NEW text \in Seq(SUBSET Names), Writes(text),
           reasoner'.did = "answered" => reasoner'.text = text
    PROVE  GraphIInv'
<1>1. PICK scores \in [holdings -> UNION {ScoreCitations(t) : t \in holdings}],
           drifts \in Some(5, changes) :
        /\ \A t \in holdings : scores[t] \in ScoreCitations(t)
        /\ memo' = [summary |-> Verified(text), drifts |-> drifts, scores |-> scores,
                    evidence |-> retrieved,
                    passed |-> Cardinality(Passed(text)), cited |-> Cardinality(Cited(text))]
        /\ UNCHANGED <<holdings, plan, retrieved, changes, error, partial>>
  BY DEF Writes
<1>2. memo' # NoMemo
  BY <1>1 DEF NoMemo
<1>3. drifts \subseteq changes
  BY SomeAreMembers
<1>4. GraphTypeOK'
  BY <1>1 DEF GraphIInv, GraphTypeOK
<1>5. Untouched' /\ ErrorsMarked'
  BY <1>1, <1>2 DEF GraphIInv, Untouched, ErrorsMarked
<1>6. ChangesRetrieved' /\ DriftsSpanPeriods'
  BY <1>1 DEF GraphIInv, ChangesRetrieved, DriftsSpanPeriods, InGroup
<1>7. MemoGrounded'
  <2>1. \A i \in DOMAIN Verified(text) : Verified(text)[i] \subseteq ValidIds
    BY DEF Verified, At
  <2>2. \A d \in drifts : {d.old, d.new} \subseteq retrieved
    BY <1>3 DEF GraphIInv, ChangesRetrieved
  <2>3. \A t \in DOMAIN scores : \A c \in scores[t] : c \in retrieved /\ c.ticker = t
    BY <1>1, ScoresCiteHolding DEF GraphIInv
  <2>4. Cardinality(Passed(text)) = Cardinality(Cited(text)) <=> Verified(text) = text
    BY RateTellsRemoval
  <2>5. ValidIds' = ValidIds /\ retrieved' = retrieved
    BY <1>1 DEF ValidIds
  <2>6. /\ memo'.summary = Verified(text) /\ memo'.drifts = drifts /\ memo'.scores = scores
        /\ memo'.evidence = retrieved
        /\ memo'.passed = Cardinality(Passed(text)) /\ memo'.cited = Cardinality(Cited(text))
    BY <1>1
  <2> QED
    BY <2>1, <2>2, <2>3, <2>4, <2>5, <2>6 DEF MemoGrounded
<1> QED
  BY <1>4, <1>5, <1>6, <1>7 DEF GraphIInv

LEMMA MemoKeeps == GraphIInv /\ Memo => GraphIInv'
<1> SUFFICES ASSUME GraphIInv, Memo PROVE GraphIInv'
  OBVIOUS
<1>1. node = "memo" /\ node' = "end"
  BY DEF Memo
<1>2. CASE Fails("memo failed")
  BY <1>1, <1>2, FailureKeeps
<1>3. CASE reasoner' = [did |-> "failed", text |-> <<>>] /\ Writes(<<>>)
  <2>1. <<>> \in Seq(SUBSET Names)
    OBVIOUS
  <2> QED
    BY <1>1, <1>3, <2>1, WritesKeeps
<1>4. ASSUME NEW text \in Replies, reasoner' = [did |-> "answered", text |-> text], Writes(text)
      PROVE  GraphIInv'
  <2>1. text \in Seq(SUBSET Names)
    BY GraphAssumption
  <2> QED
    BY <1>1, <1>4, <2>1, WritesKeeps
<1> QED
  BY <1>2, <1>3, <1>4 DEF Memo

LEMMA GraphKeeps == GraphIInv /\ [GraphNext]_GraphVars => GraphIInv'
<1> SUFFICES ASSUME GraphIInv, [GraphNext]_GraphVars PROVE GraphIInv'
  OBVIOUS
<1>1. CASE UNCHANGED GraphVars
  BY <1>1 DEF GraphVars, GraphIInv, GraphTypeOK, Untouched, ErrorsMarked, ChangesRetrieved,
              DriftsSpanPeriods, MemoGrounded, InGroup, ValidIds
<1> QED
  BY <1>1, PlannerKeeps, RetrievalKeeps, ChangeKeeps, MemoKeeps DEF GraphNext

\* Whatever fails and whatever the models answer, an analysis keeps GraphIInv.
THEOREM GraphInvariant == GraphSpec => []GraphIInv
<1> QED
  BY InitGraph, GraphKeeps, PTL DEF GraphSpec

\* AnalysisState keeps its types through the four nodes (graph.py).
THEOREM GraphTypeCorrect == GraphSpec => []GraphTypeOK
<1>1. GraphIInv => GraphTypeOK
  BY DEF GraphIInv
<1> QED
  BY <1>1, GraphInvariant, PTL

\* No memo, for any reply of the model, cites what was not retrieved, and its pass
\* rate tells whether sentences were removed (analyst_memo.py).
THEOREM MemoAlwaysGrounded == GraphSpec => []MemoGrounded
<1>1. GraphIInv => MemoGrounded
  BY DEF GraphIInv
<1> QED
  BY <1>1, GraphInvariant, PTL

\* Any change is between the two ends of what was retrieved of a section, once per
\* section (disclosure_change.py).
THEOREM DriftsAlwaysSpanPeriods == GraphSpec => []DriftsSpanPeriods
<1>1. GraphIInv => DriftsSpanPeriods
  BY DEF GraphIInv
<1> QED
  BY <1>1, GraphInvariant, PTL

\* A state that run_job calls completed has a memo, holdings and a plan.
THEOREM CleanAlwaysComplete == GraphSpec => []CleanMeansComplete
<1>1. GraphIInv => CleanMeansComplete
  BY DEF GraphIInv, ErrorsMarked, CleanMeansComplete
<1> QED
  BY <1>1, GraphInvariant, PTL

-----------------------------------------------------------------------------
(***************************************************************************)
(* The retrieval                                                           *)
(***************************************************************************)

\* What a retrieval may return.
Evidence == {c \in Chunks : \E i \in DOMAIN tickers : c.ticker = tickers[i]}

\* SQLite has something for the plan.
SomeRows == \E i \in DOMAIN tickers : Of(tickers[i], Rows) # {}

TickersListed == Len(tickers) \in Nat /\ DOMAIN tickers = 1 .. Len(tickers)

\* What retrieve_for_ticker has returned so far.
FoundFused ==
    /\ DOMAIN found \subseteq DOMAIN tickers
    /\ stage = "idle" => DOMAIN found = {}
    /\ \A i \in DOMAIN found :
         /\ found[i].keyword \in Rankings(Of(tickers[i], Chunks))
         /\ found[i].vector \in Rankings(Of(tickers[i], Chunks))
         /\ found[i].fused = Fused(found[i].keyword, found[i].vector)
         /\ Of(tickers[i], Rows) # {} => found[i].keyword # <<>> \/ found[i].vector # <<>>

\* The list that the reranker is given, or was.
CandidatesOfTickers ==
    stage \in {"merged", "reranked"} =>
        candidates \in Seq(Evidence) /\ (SomeRows => candidates # <<>>)

\* The selection runs once the candidates are reranked, and only then.
SelectionInTurn == stage = "reranked" <=> pass # "idle"

\* A retrieval is under way for the plan of the node.
Planned == stage # "idle" => node = "retrieval" /\ plan # NoPlan /\ Members(tickers) = plan

AnalysisIInv ==
    /\ TickersListed /\ FoundFused /\ CandidatesOfTickers
    /\ SelectionInTurn /\ RerankKeepsAll /\ SelectionIInv
    /\ Planned

\* The best first: each place once, and a higher score earlier.
LEMMA BestFirstLists ==
    ASSUME NEW P, IsFiniteSet(P), NEW score \in [P -> Nat], NEW earlier, StrictOrder(P, earlier)
    PROVE  LET s == BestFirst(score, earlier)
           IN  /\ Cardinality(P) \in Nat
               /\ s \in [1 .. Cardinality(P) -> P]
               /\ \A x \in P : \E n \in 1 .. Cardinality(P) : s[n] = x
               /\ \A m, n \in 1 .. Cardinality(P) : score[s[m]] > score[s[n]] => m < n
<1> DEFINE before == {p \in P \X P : \/ score[p[1]] > score[p[2]]
                                     \/ score[p[1]] = score[p[2]] /\ p \in earlier}
<1>1. \A x, y \in P : <<x, y>> \in before <=>
        \/ score[x] > score[y]
        \/ score[x] = score[y] /\ <<x, y>> \in earlier
  OBVIOUS
<1>2. \A x \in P : score[x] \in Nat
  OBVIOUS
<1>3. BestFirst(score, earlier) = Ordered(P, before)
  BY DEF BestFirst
<1> HIDE DEF before
<1>4. StrictOrder(P, before)
  <2>1. ASSUME NEW x \in P
        PROVE  <<x, x>> \notin before
    <3>1. <<x, x>> \notin earlier
      BY DEF StrictOrder
    <3>2. score[x] \in Nat /\ ~(score[x] > score[x])
      BY <1>2
    <3> QED
      BY <1>1, <3>1, <3>2
  <2>2. ASSUME NEW x \in P, NEW y \in P, NEW z \in P, <<x, y>> \in before, <<y, z>> \in before
        PROVE  <<x, z>> \in before
    <3>1. <<x, y>> \in earlier /\ <<y, z>> \in earlier => <<x, z>> \in earlier
      BY DEF StrictOrder
    <3> QED
      BY <1>1, <1>2, <2>2, <3>1
  <2>3. ASSUME NEW x \in P, NEW y \in P
        PROVE  x = y \/ <<x, y>> \in before \/ <<y, x>> \in before
    <3>1. x = y \/ <<x, y>> \in earlier \/ <<y, x>> \in earlier
      BY DEF StrictOrder
    <3> QED
      BY <1>1, <1>2, <3>1
  <2> QED
    BY <2>1, <2>2, <2>3 DEF StrictOrder
<1>5. /\ Cardinality(P) \in Nat
      /\ Ordered(P, before) \in [1 .. Cardinality(P) -> P]
      /\ \A x \in P : \E n \in 1 .. Cardinality(P) : Ordered(P, before)[n] = x
      /\ \A m, n \in 1 .. Cardinality(P) :
           m < n <=> <<Ordered(P, before)[m], Ordered(P, before)[n]>> \in before
  BY <1>4, OrderedLists
<1> QED
  BY <1>1, <1>3, <1>5

\* A ranking lists at most SourceLimit chunks, none twice.
LEMMA RankingsList ==
    ASSUME NEW cs, NEW s \in Rankings(cs)
    PROVE  /\ s \in Seq(cs) /\ Len(s) \in 0 .. SourceLimit /\ DOMAIN s = 1 .. Len(s)
           /\ \A i, j \in DOMAIN s : s[i] = s[j] => i = j
           /\ s = <<>> <=> DOMAIN s = {}
<1>1. PICK n \in 0 .. SourceLimit : s \in [1 .. n -> cs]
  BY DEF Rankings
<1>2. SourceLimit \in Nat /\ n \in Nat
  BY RetrievalAssumption
<1>3. s \in Seq(cs) /\ Len(s) = n /\ DOMAIN s = 1 .. Len(s)
  BY <1>1, <1>2
<1>4. \A i, j \in DOMAIN s : s[i] = s[j] => i = j
  BY DEF Rankings
<1>5. s = <<>> <=> DOMAIN s = {}
  BY <1>3
<1> QED
  BY <1>2, <1>3, <1>4, <1>5

LEMMA RankingsGrow ==
    ASSUME NEW cs, NEW ds, cs \subseteq ds
    PROVE  Rankings(cs) \subseteq Rankings(ds)
<1> SUFFICES ASSUME NEW s \in Rankings(cs)
             PROVE  s \in Rankings(ds)
  OBVIOUS
<1>1. PICK n \in 0 .. SourceLimit : s \in [1 .. n -> cs]
  BY DEF Rankings
<1>2. s \in [1 .. n -> ds]
  BY <1>1
<1> QED
  BY <1>2 DEF Rankings

\* The share of a rank, and that a better rank has a larger one.
LEMMA SharesFall ==
    ASSUME NEW r \in 1 .. SourceLimit
    PROVE  /\ Scale \div (RankOffset + r) \in Nat \ {0}
           /\ \A q \in 1 .. SourceLimit :
                r < q => Scale \div (RankOffset + r) > Scale \div (RankOffset + q)
<1>1. /\ Scale \in Nat \ {0} /\ RankOffset \in Nat \ {0} /\ SourceLimit \in Nat
      /\ \A q \in 1 .. SourceLimit : Scale % (RankOffset + q) = 0
  BY RetrievalAssumption
<1>2. ASSUME NEW q \in 1 .. SourceLimit
      PROVE  /\ Scale \div (RankOffset + q) \in Nat \ {0}
             /\ Scale = (RankOffset + q) * (Scale \div (RankOffset + q))
  <2> DEFINE n == RankOffset + q
  <2>1. n \in Nat \ {0} /\ Scale % n = 0
    BY <1>1
  <2> HIDE DEF n
  <2>2. Scale \div n \in Int /\ Scale = (n * (Scale \div n)) + (Scale % n)
    BY <1>1, <2>1, Z3
  <2>3. Scale = n * (Scale \div n)
    BY <1>1, <2>1, <2>2
  <2>4. Scale \div n > 0
    BY <1>1, <2>1, <2>2, <2>3, Z3
  <2> QED
    BY <2>2, <2>3, <2>4 DEF n
<1>3. ASSUME NEW q \in 1 .. SourceLimit, r < q
      PROVE  Scale \div (RankOffset + r) > Scale \div (RankOffset + q)
  <2> DEFINE m == RankOffset + r
             n == RankOffset + q
             k == Scale \div m
             l == Scale \div n
  <2>1. m \in Nat /\ n \in Nat /\ m < n
    BY <1>1, <1>3
  <2>2. k \in Nat \ {0} /\ l \in Nat \ {0} /\ m * k = n * l
    <3>1. Scale = m * k /\ k \in Nat \ {0}
      BY <1>2
    <3>2. Scale = n * l /\ l \in Nat \ {0}
      BY <1>2
    <3> QED
      BY <3>1, <3>2
  <2> HIDE DEF m, n, k, l
  <2>3. ASSUME k <= l PROVE FALSE
    <3>1. m * k <= m * l
      BY <2>1, <2>2, <2>3, Z3
    <3>2. m * l < n * l
      BY <2>1, <2>2, Z3
    <3>3. m * k \in Int /\ m * l \in Int /\ n * l \in Int
      BY <2>1, <2>2
    <3> QED
      BY <2>2, <3>1, <3>2, <3>3
  <2>4. k > l
    BY <2>2, <2>3
  <2> QED
    BY <2>4 DEF k, l, m, n
<1> QED
  BY <1>2, <1>3

\* What a chunk scores: nothing, or the share of its one rank.
LEMMA ShareOfRank ==
    ASSUME NEW cs, NEW s \in Rankings(cs), NEW c
    PROVE  /\ Share(c, s) \in Nat
           /\ c \notin Members(s) => Share(c, s) = 0
           /\ \A m \in DOMAIN s : s[m] = c => Share(c, s) = Scale \div (RankOffset + m)
<1>1. DOMAIN s \subseteq 1 .. SourceLimit
  BY RankingsList, RetrievalAssumption
<1>2. ASSUME NEW m \in DOMAIN s, s[m] = c
      PROVE  Share(c, s) = Scale \div (RankOffset + m)
  <2>1. c \in Members(s)
    BY <1>2 DEF Members
  <2>2. (CHOOSE r \in DOMAIN s : s[r] = c) = m
    <3>1. \A r \in DOMAIN s : s[r] = c => r = m
      BY <1>2, RankingsList
    <3> QED
      BY <1>2, <3>1
  <2> QED
    BY <2>1, <2>2 DEF Share
<1>3. c \notin Members(s) => Share(c, s) = 0
  BY DEF Share
<1>4. Share(c, s) \in Nat
  <2>1. CASE c \notin Members(s)
    BY <1>3, <2>1
  <2>2. CASE c \in Members(s)
    <3>1. PICK m \in DOMAIN s : s[m] = c
      BY <2>2 DEF Members
    <3> QED
      BY <1>1, <1>2, <3>1, SharesFall
  <2> QED
    BY <2>1, <2>2
<1> QED
  BY <1>2, <1>3, <1>4

\* The chunk that a search prefers scores more for it.
LEMMA PreferredScoresMore ==
    ASSUME NEW cs, NEW s \in Rankings(cs), NEW c, NEW d,
           NEW m \in DOMAIN s, s[m] = c, \A n \in 1 .. m : s[n] # d
    PROVE  Share(c, s) > Share(d, s)
<1>1. DOMAIN s \subseteq 1 .. SourceLimit /\ DOMAIN s = 1 .. Len(s) /\ Len(s) \in Nat
  BY RankingsList, RetrievalAssumption
<1>2. Share(c, s) = Scale \div (RankOffset + m) /\ Share(c, s) \in Nat \ {0}
  <2>1. Share(c, s) = Scale \div (RankOffset + m)
    BY ShareOfRank
  <2> QED
    BY <1>1, <2>1, SharesFall
<1>3. CASE d \notin Members(s)
  BY <1>2, <1>3, ShareOfRank
<1>4. ASSUME NEW k \in DOMAIN s, s[k] = d
      PROVE  Share(c, s) > Share(d, s)
  <2>1. m < k
    BY <1>1, <1>4
  <2>2. Share(d, s) = Scale \div (RankOffset + k)
    BY <1>4, ShareOfRank
  <2> QED
    BY <1>1, <1>2, <2>1, <2>2, SharesFall
<1> QED
  BY <1>3, <1>4 DEF Members

\* The order that a list is in.
LEMMA AsListedOrders ==
    ASSUME NEW T, NEW s \in Seq(T)
    PROVE  StrictOrder(DOMAIN s, AsListed(s)) /\ StrictOrder(1 .. Len(s), AsListed(s))
<1>1. DOMAIN s = 1 .. Len(s) /\ Len(s) \in Nat
  OBVIOUS
<1>2. \A x, y \in DOMAIN s : <<x, y>> \in AsListed(s) <=> x < y
  BY DEF AsListed
<1>3. \A x \in DOMAIN s : x \in Nat
  BY <1>1
<1>4. StrictOrder(DOMAIN s, AsListed(s))
  BY <1>2, <1>3 DEF StrictOrder
<1> QED
  BY <1>1, <1>4

\* RankedChunk of retrieval.py.
RankedChunk(cs) == [chunk : cs, score : Nat]

\* reciprocal_rank_fusion: the chunks of both lists, a higher sum of shares earlier.
LEMMA FusionRanks ==
    ASSUME NEW cs, NEW keyword \in Rankings(cs), NEW vector \in Rankings(cs)
    PROVE  LET f == Fused(keyword, vector)
           IN  /\ Len(f) \in Nat /\ DOMAIN f = 1 .. Len(f)
               /\ f \in Seq(RankedChunk(cs))
               /\ \A n \in DOMAIN f :
                    /\ f[n].chunk \in cs /\ f[n].score \in Nat
                    /\ f[n].score = Share(f[n].chunk, keyword) + Share(f[n].chunk, vector)
               /\ \A m, n \in DOMAIN f : f[m].score > f[n].score => m < n
               /\ keyword # <<>> \/ vector # <<>> => DOMAIN f # {}
<1> DEFINE rest == Kept(vector, {i \in DOMAIN vector : vector[i] \notin Members(keyword)})
           both == keyword \o rest
           score == [i \in DOMAIN both |-> Share(both[i], keyword) + Share(both[i], vector)]
           order == BestFirst(score, AsListed(both))
<1>1. keyword \in Seq(cs) /\ vector \in Seq(cs)
  BY RankingsList
<1>2. /\ rest \in Seq(cs)
      /\ {rest[n] : n \in DOMAIN rest} = {vector[i] : i \in {j \in DOMAIN vector : vector[j] \notin Members(keyword)}}
  BY <1>1, KeptLists
<1> HIDE DEF rest
<1>3. /\ both \in Seq(cs) /\ DOMAIN both = 1 .. Len(both) /\ Len(both) \in Nat
      /\ Len(both) = Len(keyword) + Len(rest)
  BY <1>1, <1>2
<1> HIDE DEF both
<1>4. score \in [1 .. Len(both) -> Nat]
  <2>1. \A c : Share(c, keyword) \in Nat /\ Share(c, vector) \in Nat
    BY ShareOfRank
  <2>2. \A i \in 1 .. Len(both) : Share(both[i], keyword) + Share(both[i], vector) \in Nat
    BY <2>1
  <2> QED
    BY <1>3, <2>2
<1>5. StrictOrder(1 .. Len(both), AsListed(both))
  BY <1>3, AsListedOrders
<1>6. IsFiniteSet(1 .. Len(both)) /\ Cardinality(1 .. Len(both)) = Len(both)
  BY <1>3, FS_Interval
<1> HIDE DEF score
<1>7. /\ order \in [1 .. Len(both) -> 1 .. Len(both)]
      /\ \A m, n \in 1 .. Len(both) : score[order[m]] > score[order[n]] => m < n
  BY <1>4, <1>5, <1>6, BestFirstLists
<1> HIDE DEF order
<1> DEFINE f == [n \in 1 .. Len(both) |-> [chunk |-> both[order[n]], score |-> score[order[n]]]]
<1>8. Fused(keyword, vector) = f
  BY <1>3 DEF Fused, f, order, score, both, rest
<1>9. ASSUME NEW n \in 1 .. Len(both)
      PROVE  /\ f[n].chunk \in cs /\ f[n].score \in Nat /\ f[n].score = score[order[n]]
             /\ f[n].score = Share(f[n].chunk, keyword) + Share(f[n].chunk, vector)
  <2>1. order[n] \in 1 .. Len(both)
    BY <1>7
  <2>2. both[order[n]] \in cs
    BY <1>3, <2>1
  <2>3. score[order[n]] \in Nat
    BY <1>4, <2>1
  <2>4. score[order[n]] = Share(both[order[n]], keyword) + Share(both[order[n]], vector)
    BY <1>3, <2>1 DEF score
  <2> QED
    BY <2>2, <2>3, <2>4
<1>10. Len(f) = Len(both) /\ DOMAIN f = 1 .. Len(both) /\ f \in Seq(RankedChunk(cs))
  <2>1. f \in Seq(RankedChunk(cs))
    <3>1. f \in [1 .. Len(both) -> RankedChunk(cs)]
      BY <1>9 DEF RankedChunk
    <3> QED
      BY <1>3, <3>1
  <2> QED
    BY <1>3, <2>1
<1>11. keyword # <<>> \/ vector # <<>> => Len(both) # 0
  <2>1. CASE keyword # <<>>
    BY <1>1, <1>2, <1>3, <2>1
  <2>2. CASE keyword = <<>> /\ vector # <<>>
    <3>1. Members(keyword) = {}
      BY <2>2 DEF Members
    <3>2. 1 \in DOMAIN vector
      BY <1>1, <2>2
    <3>3. vector[1] \in {rest[n] : n \in DOMAIN rest}
      BY <1>2, <3>1, <3>2
    <3>4. DOMAIN rest # {}
      BY <3>3
    <3> QED
      BY <1>1, <1>2, <1>3, <3>4
  <2> QED
    BY <2>1, <2>2
<1> HIDE DEF f
<1>12. \A m, n \in 1 .. Len(both) : f[m].score > f[n].score => m < n
  BY <1>7, <1>9
<1>13. keyword # <<>> \/ vector # <<>> => 1 .. Len(both) # {}
  BY <1>3, <1>11
<1> QED
  BY <1>3, <1>8, <1>9, <1>10, <1>12, <1>13

\* What was found is evidence of the tickers, and scored.
LEMMA FoundIsEvidence ==
    ASSUME FoundFused, NEW i \in DOMAIN found
    PROVE  /\ Len(found[i].fused) \in Nat /\ DOMAIN found[i].fused = 1 .. Len(found[i].fused)
           /\ found[i].fused \in Seq(RankedChunk(Evidence))
           /\ \A n \in DOMAIN found[i].fused :
                found[i].fused[n].chunk \in Evidence /\ found[i].fused[n].score \in Nat
           /\ Of(tickers[i], Rows) # {} => DOMAIN found[i].fused # {}
<1>1. /\ found[i].keyword \in Rankings(Of(tickers[i], Chunks))
      /\ found[i].vector \in Rankings(Of(tickers[i], Chunks))
      /\ found[i].fused = Fused(found[i].keyword, found[i].vector)
      /\ Of(tickers[i], Rows) # {} => found[i].keyword # <<>> \/ found[i].vector # <<>>
      /\ i \in DOMAIN tickers
  BY DEF FoundFused
<1>2. Of(tickers[i], Chunks) \subseteq Evidence
  BY <1>1 DEF Of, Evidence
<1> DEFINE f == found[i].fused
<1>3. /\ Len(f) \in Nat /\ DOMAIN f = 1 .. Len(f)
      /\ f \in Seq(RankedChunk(Of(tickers[i], Chunks)))
      /\ \A n \in DOMAIN f : f[n].chunk \in Of(tickers[i], Chunks) /\ f[n].score \in Nat
      /\ Of(tickers[i], Rows) # {} => DOMAIN f # {}
  <2>1. LET g == Fused(found[i].keyword, found[i].vector)
        IN  /\ Len(g) \in Nat /\ DOMAIN g = 1 .. Len(g)
            /\ g \in Seq(RankedChunk(Of(tickers[i], Chunks)))
            /\ \A n \in DOMAIN g : g[n].chunk \in Of(tickers[i], Chunks) /\ g[n].score \in Nat
            /\ found[i].keyword # <<>> \/ found[i].vector # <<>> => DOMAIN g # {}
    BY <1>1, FusionRanks
  <2> QED
    BY <1>1, <2>1
<1> HIDE DEF f
<1>4. f \in Seq(RankedChunk(Evidence))
  <2>1. RankedChunk(Of(tickers[i], Chunks)) \subseteq RankedChunk(Evidence)
    BY <1>2 DEF RankedChunk
  <2>2. f \in [1 .. Len(f) -> RankedChunk(Of(tickers[i], Chunks))]
    BY <1>3
  <2>3. f \in [1 .. Len(f) -> RankedChunk(Evidence)]
    BY <2>1, <2>2
  <2> QED
    BY <1>3, <2>3
<1> QED
  BY <1>2, <1>3, <1>4 DEF f

\* The merged list is of what was found, and empty only if nothing was.
LEMMA MergeLists ==
    ASSUME TickersListed, FoundFused, Merge
    PROVE  candidates' \in Seq(Evidence) /\ (SomeRows => candidates' # <<>>)
<1> DEFINE fused == [i \in DOMAIN tickers |-> found[i].fused]
           merged == Flattened(fused)
           score == [n \in DOMAIN merged |-> merged[n].score]
           order == BestFirst(score, AsListed(merged))
           kept == {k \in DOMAIN order : k <= RerankTop}
           T == RankedChunk(Evidence)
<1>1. DOMAIN found = DOMAIN tickers /\ Len(tickers) \in Nat /\ DOMAIN tickers = 1 .. Len(tickers)
  BY DEF Merge, TickersListed
<1>2. candidates' = [n \in kept |-> merged[order[n]].chunk]
  BY DEF Merge
<1>3. \A i \in DOMAIN tickers : found[i].fused \in Seq(T)
  BY <1>1, FoundIsEvidence
<1>4. fused \in Seq(Seq(T))
  <2>1. fused \in [1 .. Len(tickers) -> Seq(T)]
    BY <1>1, <1>3
  <2> HIDE DEF fused, T
  <2> QED
    BY <1>1, <2>1
<1>5. SomeRows => \E i \in DOMAIN fused : \E k \in DOMAIN fused[i] : TRUE
  <2>1. SUFFICES ASSUME SomeRows
                 PROVE  \E i \in DOMAIN fused : \E k \in DOMAIN fused[i] : TRUE
    OBVIOUS
  <2>2. PICK i \in DOMAIN tickers : Of(tickers[i], Rows) # {}
    BY <2>1 DEF SomeRows
  <2>3. PICK k \in DOMAIN found[i].fused : TRUE
    BY <1>1, <2>2, FoundIsEvidence
  <2>4. i \in DOMAIN fused /\ k \in DOMAIN fused[i]
    BY <2>3
  <2> QED
    BY <2>4
<1> HIDE DEF fused, T
<1>6. /\ merged \in Seq(T)
      /\ SomeRows => \E n \in DOMAIN merged : TRUE
  <2>1. /\ merged \in Seq(T)
        /\ \A i \in DOMAIN fused : \A k \in DOMAIN fused[i] :
              \E n \in DOMAIN merged : merged[n] = fused[i][k]
    BY <1>4, FlattenedLists
  <2> HIDE DEF merged
  <2> QED
    BY <1>5, <2>1
<1> HIDE DEF merged
<1> DEFINE L == Len(merged)
<1>7. L \in Nat /\ DOMAIN merged = 1 .. L /\ \A n \in 1 .. L : merged[n] \in T
  BY <1>6
<1>8. \A n \in 1 .. L : merged[n].chunk \in Evidence /\ merged[n].score \in Nat
  BY <1>7 DEF T, RankedChunk
<1>9. score \in [1 .. L -> Nat]
  BY <1>7, <1>8
<1>10. IsFiniteSet(1 .. L) /\ Cardinality(1 .. L) = L
  BY <1>7, FS_Interval
<1>11. StrictOrder(1 .. L, AsListed(merged))
  BY <1>6, AsListedOrders
<1> HIDE DEF score
<1>12. order \in [1 .. L -> 1 .. L]
  BY <1>9, <1>10, <1>11, BestFirstLists
<1>13. DOMAIN order = 1 .. L /\ \A n \in 1 .. L : merged[order[n]].chunk \in Evidence
  BY <1>8, <1>12
<1> HIDE DEF order
<1>14. RerankTop \in Nat \ {0}
  BY RetrievalAssumption
<1>15. PICK M \in 0 .. L : kept = 1 .. M /\ (L # 0 => M # 0)
  <2>1. CASE L <= RerankTop
    BY <1>7, <1>13, <1>14, <2>1
  <2>2. CASE L > RerankTop
    BY <1>7, <1>13, <1>14, <2>2
  <2> QED
    BY <1>7, <1>14, <2>1, <2>2
<1>16. SomeRows => L # 0
  BY <1>6, <1>7
<1>17. \A n \in kept : merged[order[n]].chunk \in Evidence
  BY <1>13
<1> HIDE DEF kept, L
<1>18. candidates' \in [1 .. M -> Evidence] /\ M \in Nat
  BY <1>2, <1>7, <1>15, <1>17
<1> QED
  BY <1>15, <1>16, <1>18

\* Of the reranker's answer and the candidates comes a list of the candidates.
LEMMA RerankedLists ==
    ASSUME NEW T, candidates \in Seq(T), NEW answer \in Answers(Len(candidates))
    PROVE  LET named == Chosen(answer)
           IN  /\ named \o Others(named) \in Seq(T)
               /\ Members(named \o Others(named)) = Members(candidates)
<1> DEFINE inside == {k \in DOMAIN answer : answer[k] \in 0 .. Len(candidates) - 1}
           inRange == Kept(answer, inside)
           named == Chosen(answer)
           left == {i \in DOMAIN candidates : candidates[i] \notin Members(named)}
<1>1. answer \in Seq(Int)
  <2>1. PICK k \in 0 .. ReplyLimit : answer \in [1 .. k -> -1 .. Len(candidates)]
    BY DEF Answers
  <2>2. answer \in [1 .. k -> Int] /\ k \in Nat
    BY <2>1, RetrievalAssumption
  <2> QED
    BY <2>2
<1>2. DOMAIN candidates = 1 .. Len(candidates) /\ Len(candidates) \in Nat
      /\ \A i \in DOMAIN candidates : candidates[i] \in T
  OBVIOUS
<1>3. /\ inRange \in Seq(Int)
      /\ {inRange[n] : n \in DOMAIN inRange} = {answer[k] : k \in inside}
  BY <1>1, KeptLists
<1> HIDE DEF inRange
<1>4. named = [i \in DOMAIN inRange |-> candidates[inRange[i] + 1]]
  BY DEF Chosen, inRange, inside
<1>5. \A n \in DOMAIN inRange : inRange[n] + 1 \in DOMAIN candidates
  <2>1. ASSUME NEW n \in DOMAIN inRange PROVE inRange[n] + 1 \in DOMAIN candidates
    <3>1. inRange[n] \in {answer[k] : k \in inside}
      BY <1>3
    <3>2. inRange[n] \in 0 .. Len(candidates) - 1
      BY <3>1
    <3> QED
      BY <1>2, <3>2
  <2> QED
    BY <2>1
<1>6. named \in Seq(T)
  <2>1. DOMAIN inRange = 1 .. Len(inRange) /\ Len(inRange) \in Nat
    BY <1>3
  <2>2. named \in [1 .. Len(inRange) -> T]
    BY <1>2, <1>4, <1>5, <2>1
  <2> QED
    BY <2>1, <2>2
<1>7. Members(named) \subseteq Members(candidates)
  BY <1>4, <1>5 DEF Members
<1> HIDE DEF named
<1>8. Others(named) \in Seq(T) /\ Members(Others(named)) = {candidates[i] : i \in left}
  <2>1. left \in SUBSET DOMAIN candidates
    OBVIOUS
  <2>2. Others(named) = Kept(candidates, left)
    BY DEF Others
  <2> HIDE DEF left
  <2>3. /\ Kept(candidates, left) \in Seq(T)
        /\ {Kept(candidates, left)[n] : n \in DOMAIN Kept(candidates, left)} = {candidates[i] : i \in left}
    BY <2>1, KeptLists
  <2> QED
    BY <2>2, <2>3 DEF Members
<1>9. named \o Others(named) \in Seq(T)
  BY <1>6, <1>8
<1>10. Members(named \o Others(named)) = Members(named) \cup Members(Others(named))
  <2> DEFINE rest == Others(named)
  <2>1. /\ Len(named) \in Nat /\ DOMAIN named = 1 .. Len(named)
        /\ Len(rest) \in Nat /\ DOMAIN rest = 1 .. Len(rest)
    BY <1>6, <1>8
  <2> HIDE DEF rest
  <2>2. /\ DOMAIN (named \o rest) = 1 .. Len(named) + Len(rest)
        /\ \A n \in 1 .. Len(named) : (named \o rest)[n] = named[n]
        /\ \A n \in 1 .. Len(rest) : (named \o rest)[Len(named) + n] = rest[n]
        /\ \A n \in 1 .. Len(named) + Len(rest) :
             (named \o rest)[n] = IF n <= Len(named) THEN named[n] ELSE rest[n - Len(named)]
    BY <1>6, <1>8, <2>1 DEF rest
  <2>3. ASSUME NEW n \in 1 .. Len(named) + Len(rest)
        PROVE  (named \o rest)[n] \in Members(named) \cup Members(rest)
    <3>1. CASE n <= Len(named)
      BY <2>1, <2>2, <3>1 DEF Members
    <3>2. CASE n > Len(named)
      <4>1. n - Len(named) \in 1 .. Len(rest)
        BY <2>1, <3>2
      <4> QED
        BY <2>1, <2>2, <3>2, <4>1 DEF Members
    <3> QED
      BY <2>1, <3>1, <3>2
  <2>4. ASSUME NEW n \in 1 .. Len(rest)
        PROVE  rest[n] \in Members(named \o rest)
    <3>1. Len(named) + n \in 1 .. Len(named) + Len(rest)
      BY <2>1
    <3> QED
      BY <2>2, <3>1 DEF Members
  <2>5. ASSUME NEW n \in 1 .. Len(named)
        PROVE  named[n] \in Members(named \o rest)
    <3>1. n \in 1 .. Len(named) + Len(rest)
      BY <2>1
    <3> QED
      BY <2>2, <3>1 DEF Members
  <2>6. Members(named \o rest) \subseteq Members(named) \cup Members(rest)
    BY <2>2, <2>3 DEF Members
  <2>7. Members(named) \cup Members(rest) \subseteq Members(named \o rest)
    BY <2>1, <2>4, <2>5 DEF Members
  <2> QED
    BY <2>6, <2>7 DEF rest
<1>11. Members(candidates) \subseteq Members(named) \cup {candidates[i] : i \in left}
  BY DEF Members
<1>12. {candidates[i] : i \in left} \subseteq Members(candidates)
  BY DEF Members
<1> QED
  BY <1>7, <1>8, <1>9, <1>10, <1>11, <1>12 DEF named

-----------------------------------------------------------------------------
(***************************************************************************)
(* The nodes and the retrieval together                                    *)
(***************************************************************************)

LEMMA InitAnalysis == AnalysisInit => AnalysisIInv
<1> SUFFICES ASSUME AnalysisInit PROVE AnalysisIInv
  OBVIOUS
<1>1. /\ stage = "idle" /\ pass = "idle" /\ tickers = <<>> /\ found = <<>>
      /\ DOMAIN found = {} /\ SelectionInit
  BY DEF AnalysisInit, RetrievalInit, SelectionInit
<1>2. SelectionIInv
  BY <1>1, InitEstablishes
<1> QED
  BY <1>1, <1>2 DEF AnalysisIInv, TickersListed, FoundFused, CandidatesOfTickers,
                    SelectionInTurn, RerankKeepsAll, Planned

\* A step of hybrid_retrieve without the selection's variables.
Searches == \E i \in DOMAIN tickers :
    Search(i) \/ SearchKeywordsOnly(i) \/ SearchFallsBack(i) \/ SearchRaises(i)

\* What one ticker's retrieve_for_ticker returns.
LEMMA FoundKeeps ==
    ASSUME AnalysisIInv, UNCHANGED GraphVars, NEW i, Searching(i),
           NEW keyword \in Rankings(Of(tickers[i], Chunks)),
           NEW vector \in Rankings(Of(tickers[i], Chunks)),
           Of(tickers[i], Rows) # {} => keyword # <<>> \/ vector # <<>>,
           Found(i, keyword, vector)
    PROVE  AnalysisIInv'
<1>1. /\ stage' = "searching" /\ stage = "searching" /\ tickers' = tickers
      /\ i \in DOMAIN tickers \ DOMAIN found
      /\ UNCHANGED SelectionVars
  BY DEF Found, Searching
<1>2. /\ DOMAIN found' = DOMAIN found \cup {i}
      /\ found'[i] = [keyword |-> keyword, vector |-> vector, fused |-> Fused(keyword, vector)]
      /\ \A j \in DOMAIN found : found'[j] = found[j]
  BY <1>1 DEF Found
<1>3. FoundFused'
  <2>1. \A j \in DOMAIN found' :
          /\ found'[j].keyword \in Rankings(Of(tickers[j], Chunks))
          /\ found'[j].vector \in Rankings(Of(tickers[j], Chunks))
          /\ found'[j].fused = Fused(found'[j].keyword, found'[j].vector)
          /\ Of(tickers[j], Rows) # {} => found'[j].keyword # <<>> \/ found'[j].vector # <<>>
    <3>1. ASSUME NEW j \in DOMAIN found'
          PROVE  /\ found'[j].keyword \in Rankings(Of(tickers[j], Chunks))
                 /\ found'[j].vector \in Rankings(Of(tickers[j], Chunks))
                 /\ found'[j].fused = Fused(found'[j].keyword, found'[j].vector)
                 /\ Of(tickers[j], Rows) # {} => found'[j].keyword # <<>> \/ found'[j].vector # <<>>
      <4>1. CASE j = i
        BY <1>2, <4>1
      <4>2. CASE j # i
        BY <1>2, <3>1, <4>2 DEF AnalysisIInv, FoundFused
      <4> QED
        BY <4>1, <4>2
    <3> QED
      BY <3>1
  <2>2. DOMAIN found' \subseteq DOMAIN tickers
    BY <1>1, <1>2 DEF AnalysisIInv, FoundFused
  <2> QED
    BY <1>1, <2>1, <2>2 DEF FoundFused
<1>4. SelectionIInv'
  BY <1>1, NextPreserves DEF AnalysisIInv
<1>5. pass' = pass
  BY <1>1 DEF SelectionVars
<1> QED
  BY <1>1, <1>3, <1>4, <1>5 DEF AnalysisIInv, TickersListed, CandidatesOfTickers, SelectionInTurn,
                                RerankKeepsAll, Planned, GraphVars

\* recent_chunks leaves a ticker without evidence only if there is no row of it.
LEMMA RecentIfAny ==
    ASSUME NEW t, NEW s \in Recent(t), Of(t, Rows) # {}
    PROVE  s # <<>>
<1>1. s \in Rankings(Of(t, Rows)) /\ (Len(s) < SourceLimit => Members(s) = Of(t, Rows))
  BY DEF Recent
<1>2. CASE Len(s) < SourceLimit
  BY <1>1, <1>2 DEF Members
<1>3. CASE ~(Len(s) < SourceLimit)
  <2>1. Len(s) \in 0 .. SourceLimit /\ SourceLimit \in Nat \ {0}
    BY <1>1, RankingsList, RetrievalAssumption
  <2>2. Len(s) # 0
    BY <1>3, <2>1
  <2>3. s \in Seq(Of(t, Rows))
    BY <1>1, RankingsList
  <2> QED
    BY <2>2, <2>3
<1> QED
  BY <1>2, <1>3

LEMMA SearchesKeep ==
    ASSUME AnalysisIInv, UNCHANGED GraphVars, Searches
    PROVE  AnalysisIInv'
<1>1. PICK i \in DOMAIN tickers : Search(i) \/ SearchKeywordsOnly(i) \/ SearchFallsBack(i) \/ SearchRaises(i)
  BY DEF Searches
<1>2. /\ Rankings(Of(tickers[i], Rows)) \subseteq Rankings(Of(tickers[i], Chunks))
      /\ Rankings(Of(tickers[i], Points)) \subseteq Rankings(Of(tickers[i], Chunks))
  <2>1. /\ Of(tickers[i], Rows) \subseteq Of(tickers[i], Chunks)
        /\ Of(tickers[i], Points) \subseteq Of(tickers[i], Chunks)
    BY RetrievalAssumption DEF Of
  <2> QED
    BY <2>1, RankingsGrow
<1>3. <<>> \in Rankings(Of(tickers[i], Chunks))
  <2>1. <<>> \in [1 .. 0 -> Of(tickers[i], Chunks)] /\ 0 \in 0 .. SourceLimit
    BY RetrievalAssumption
  <2>2. \A j, k \in DOMAIN <<>> : <<>>[j] = <<>>[k] => j = k
    OBVIOUS
  <2> QED
    BY <2>1, <2>2 DEF Rankings
<1>4. CASE Search(i)
  <2>1. PICK keyword \in Rankings(Of(tickers[i], Rows)), vector \in Rankings(Of(tickers[i], Points)) :
          (keyword # <<>> \/ vector # <<>>) /\ Found(i, keyword, vector)
    BY <1>4 DEF Search
  <2> QED
    BY <1>2, <1>4, <2>1, FoundKeeps DEF Search
<1>5. CASE SearchKeywordsOnly(i)
  <2>1. PICK keyword \in Rankings(Of(tickers[i], Rows)) \ {<<>>} : Found(i, keyword, <<>>)
    BY <1>5 DEF SearchKeywordsOnly
  <2> QED
    BY <1>2, <1>3, <1>5, <2>1, FoundKeeps DEF SearchKeywordsOnly
<1>6. CASE SearchFallsBack(i)
  <2>1. PICK recent \in Recent(tickers[i]) : Found(i, recent, <<>>)
    BY <1>6 DEF SearchFallsBack
  <2>2. recent \in Rankings(Of(tickers[i], Rows))
    BY DEF Recent
  <2>3. Of(tickers[i], Rows) # {} => recent # <<>>
    BY RecentIfAny
  <2> QED
    BY <1>2, <1>3, <1>6, <2>1, <2>2, <2>3, FoundKeeps DEF SearchFallsBack
<1>7. CASE SearchRaises(i)
  <2>1. /\ stage' = "failed" /\ stage = "searching" /\ tickers' = tickers /\ found' = found
        /\ UNCHANGED SelectionVars
    BY <1>7 DEF SearchRaises, Searching
  <2>2. SelectionIInv' /\ pass' = pass
    BY <2>1, NextPreserves DEF AnalysisIInv, SelectionVars
  <2> QED
    BY <2>1, <2>2 DEF AnalysisIInv, TickersListed, FoundFused, CandidatesOfTickers, SelectionInTurn,
                      RerankKeepsAll, Planned, GraphVars
<1> QED
  BY <1>1, <1>4, <1>5, <1>6, <1>7

LEMMA MergeKeeps ==
    ASSUME AnalysisIInv, UNCHANGED GraphVars, Merge
    PROVE  AnalysisIInv'
<1>1. /\ stage = "searching" /\ stage' = "merged" /\ tickers' = tickers /\ found' = <<>>
      /\ UNCHANGED SelectionVars
  BY DEF Merge
<1>2. candidates' \in Seq(Evidence) /\ (SomeRows => candidates' # <<>>)
  BY MergeLists DEF AnalysisIInv
<1>3. Evidence' = Evidence /\ SomeRows' = SomeRows
  BY <1>1 DEF Evidence, SomeRows
<1>4. SelectionIInv' /\ pass' = pass
  BY <1>1, NextPreserves DEF AnalysisIInv, SelectionVars
<1>5. FoundFused'
  <2>1. DOMAIN found' = {}
    BY <1>1
  <2> QED
    BY <2>1 DEF FoundFused
<1> QED
  BY <1>1, <1>2, <1>3, <1>4, <1>5 DEF AnalysisIInv, TickersListed, CandidatesOfTickers,
                                      SelectionInTurn, RerankKeepsAll, Planned, GraphVars

LEMMA RerankKeeps ==
    ASSUME AnalysisIInv, UNCHANGED GraphVars, Rerank
    PROVE  AnalysisIInv'
<1>1. /\ stage = "merged" /\ stage' = "reranked" /\ Call
      /\ UNCHANGED <<tickers, found, candidates>>
  BY DEF Rerank
<1>2. candidates \in Seq(Evidence) /\ (SomeRows => candidates # <<>>)
  BY <1>1 DEF AnalysisIInv, CandidatesOfTickers
<1>3. Members(ordered') = Members(candidates)
  <2>1. CASE ordered' = candidates
    BY <2>1
  <2>2. ASSUME reply' \in Answers(Len(candidates)),
               ordered' = Chosen(reply') \o Others(Chosen(reply'))
        PROVE  Members(ordered') = Members(candidates)
    BY <1>2, <2>2, RerankedLists
  <2> QED
    BY <2>1, <2>2 DEF Rerank
<1>4. SelectionIInv' /\ pass' = "selecting"
  BY <1>1, NextPreserves DEF AnalysisIInv, SelectionNext, Call
<1>5. Evidence' = Evidence /\ SomeRows' = SomeRows /\ FoundFused' /\ TickersListed'
  BY <1>1 DEF AnalysisIInv, Evidence, SomeRows, FoundFused, TickersListed
<1> QED
  BY <1>1, <1>2, <1>3, <1>4, <1>5 DEF AnalysisIInv, CandidatesOfTickers, SelectionInTurn,
                                      RerankKeepsAll, Planned, GraphVars, Members

LEMMA SelectKeeps ==
    ASSUME AnalysisIInv, UNCHANGED GraphVars, Select
    PROVE  AnalysisIInv'
<1>1. /\ stage = "reranked" /\ UNCHANGED <<stage, tickers, found, candidates, reply>>
      /\ TakeOrSkip \/ Return
  BY DEF Select
<1>2. SelectionIInv'
  BY <1>1, NextPreserves DEF AnalysisIInv, SelectionNext
<1>3. ordered' = ordered /\ pass' # "idle"
  BY <1>1 DEF TakeOrSkip, Return
<1>4. Evidence' = Evidence /\ SomeRows' = SomeRows /\ FoundFused' /\ TickersListed'
  BY <1>1 DEF AnalysisIInv, Evidence, SomeRows, FoundFused, TickersListed
<1> QED
  BY <1>1, <1>2, <1>3, <1>4 DEF AnalysisIInv, CandidatesOfTickers, SelectionInTurn,
                                RerankKeepsAll, Planned, GraphVars, Members

\* The end of a retrieval resets its variables, which is where they started.
LEMMA OverKeeps ==
    ASSUME RetrievalOver
    PROVE  AnalysisIInv'
<1>1. /\ stage' = "idle" /\ pass' = "idle" /\ tickers' = <<>> /\ found' = <<>>
      /\ ordered' = <<>> /\ at' = 1 /\ taken' = {}
  BY DEF RetrievalOver
<1>2. SelectionIInv'
  <2>1. IsFiniteSet(taken') /\ Cardinality(taken') = 0
    BY <1>1, FS_EmptySet
  <2>2. SelectionTypeOK'
    BY <1>1, <2>1, SectionDiversityAssumption DEF SelectionTypeOK
  <2>3. DOMAIN ordered' = {}
    BY <1>1
  <2> QED
    BY <1>1, <2>1, <2>2, <2>3, SectionDiversityAssumption DEF SelectionIInv, Full
<1> QED
  BY <1>1, <1>2 DEF AnalysisIInv, TickersListed, FoundFused, CandidatesOfTickers,
                    SelectionInTurn, RerankKeepsAll, Planned

LEMMA AnalysisKeeps ==
    ASSUME AnalysisIInv, [AnalysisNext]_AnalysisVars
    PROVE  AnalysisIInv'
<1>1. ASSUME UNCHANGED RetrievalVars, stage = "idle" \/ UNCHANGED GraphVars
      PROVE  AnalysisIInv'
  <2>1. UNCHANGED <<stage, tickers, found, candidates, reply>> /\ UNCHANGED SelectionVars
    BY <1>1 DEF RetrievalVars
  <2>2. SelectionIInv' /\ pass' = pass /\ ordered' = ordered
    BY <2>1, NextPreserves DEF AnalysisIInv, SelectionVars
  <2>3. TickersListed' /\ FoundFused' /\ CandidatesOfTickers'
    BY <2>1 DEF AnalysisIInv, TickersListed, FoundFused, CandidatesOfTickers, Evidence, SomeRows
  <2>4. SelectionInTurn' /\ RerankKeepsAll' /\ Planned'
    BY <1>1, <2>1, <2>2 DEF AnalysisIInv, SelectionInTurn, RerankKeepsAll, Members, Planned, GraphVars
  <2> QED
    BY <2>2, <2>3, <2>4 DEF AnalysisIInv
<1>2. CASE OtherNode \/ NothingToRetrieve
  <2>1. stage = "idle"
    BY <1>2 DEF AnalysisIInv, Planned, OtherNode, Planner, Change, Memo, NothingToRetrieve, Skipped
  <2> QED
    BY <1>1, <1>2, <2>1 DEF OtherNode, NothingToRetrieve
<1>3. CASE StartRetrieval
  <2>1. PICK targets \in Plans : Members(targets) = plan /\ Retrieve(targets)
    BY <1>3 DEF StartRetrieval
  <2>2. /\ stage = "idle" /\ stage' = "searching" /\ tickers' = targets /\ found' = found
        /\ UNCHANGED SelectionVars /\ UNCHANGED GraphVars /\ node = "retrieval" /\ plan # NoPlan
    BY <1>3, <2>1 DEF StartRetrieval, Retrieve
  <2>3. SelectionIInv' /\ pass' = pass
    BY <2>2, NextPreserves DEF AnalysisIInv, SelectionVars
  <2>4. TickersListed'
    <3>1. targets \in Seq({targets[i] : i \in DOMAIN targets})
      BY RetrievalAssumption
    <3> QED
      BY <2>2, <3>1 DEF TickersListed
  <2>5. FoundFused'
    BY <2>2 DEF AnalysisIInv, FoundFused
  <2> QED
    BY <2>1, <2>2, <2>3, <2>4, <2>5 DEF AnalysisIInv, CandidatesOfTickers, SelectionInTurn,
                                        RerankKeepsAll, Planned, GraphVars
<1>4. CASE RetrievalStep
  BY <1>4, SearchesKeep, MergeKeeps, RerankKeeps, SelectKeeps
     DEF RetrievalStep, RetrievalNext, Searches
<1>5. CASE EvidenceArrives \/ RetrievalRaises
  BY <1>5, OverKeeps DEF EvidenceArrives, RetrievalRaises
<1>6. CASE UNCHANGED AnalysisVars
  BY <1>1, <1>6 DEF AnalysisVars
<1> QED
  BY <1>2, <1>3, <1>4, <1>5, <1>6 DEF AnalysisNext

-----------------------------------------------------------------------------
(***************************************************************************)
(* Theorems about the whole                                                *)
(***************************************************************************)

\* hybrid_retrieve, filing_retrieval: what a retrieval has at hand is evidence of
\* the plan's tickers, whatever is down and whatever is answered.
THEOREM AnalysisInvariant == AnalysisSpec => []AnalysisIInv
  BY InitAnalysis, AnalysisKeeps, PTL DEF AnalysisSpec

\* A step of an analysis is one of AnalysisGraph's or none.
LEMMA AnalysisStepIsGraphStep ==
    ASSUME AnalysisIInv, [AnalysisNext]_AnalysisVars
    PROVE  [GraphNext]_GraphVars
<1>1. CASE OtherNode
  BY <1>1 DEF OtherNode, GraphNext
<1>2. CASE NothingToRetrieve
  BY <1>2 DEF NothingToRetrieve, GraphNext, Retrieval
<1>3. CASE StartRetrieval \/ RetrievalStep \/ UNCHANGED AnalysisVars
  BY <1>3 DEF StartRetrieval, RetrievalStep, AnalysisVars
<1>4. CASE EvidenceArrives
  <2>1. /\ pass = "done" /\ retrieved' = {ordered[i] : i \in taken}
        /\ node = "retrieval" /\ node' = "change"
        /\ UNCHANGED <<holdings, plan, changes, memo, error, partial, reasoner>>
    BY <1>4 DEF EvidenceArrives, RetrievalOver
  <2>2. stage = "reranked" /\ plan # NoPlan /\ Members(tickers) = plan
    BY <2>1 DEF AnalysisIInv, SelectionInTurn, Planned
  <2>3. Members(ordered) = Members(candidates) /\ candidates \in Seq(Evidence)
    BY <2>2 DEF AnalysisIInv, RerankKeepsAll, CandidatesOfTickers
  <2>4. Members(candidates) \subseteq Evidence
    BY <2>3 DEF Members
  <2>5. Evidence \subseteq {c \in Store : c.ticker \in plan}
    BY <2>2, AnalysisAssumption DEF Evidence, Members
  <2>6. taken \subseteq DOMAIN ordered
    BY DEF AnalysisIInv, SelectionIInv, SelectionTypeOK
  <2>7. retrieved' \subseteq {c \in Store : c.ticker \in plan}
    BY <2>1, <2>3, <2>4, <2>5, <2>6 DEF Members
  <2> QED
    BY <2>1, <2>2, <2>7 DEF GraphNext, Retrieval, Retrieves
<1>5. CASE RetrievalRaises
  <2>1. plan # NoPlan
    BY <1>5 DEF RetrievalRaises, AnalysisIInv, Planned
  <2> QED
    BY <1>5, <2>1 DEF RetrievalRaises, RetrievalOver, GraphNext, Retrieval
<1> QED
  BY <1>1, <1>2, <1>3, <1>4, <1>5 DEF AnalysisNext

\* An analysis with its retrieval in full implements AnalysisGraph, for any stores,
\* plans, limits and answers: the nodes see evidence of the plan's tickers only, or
\* the mark of a failed retrieval (retrieval.py, filing_retrieval.py).
THEOREM AnalysisImplementsGraph == AnalysisSpec => ImplementsGraph
<1>1. AnalysisInit => GraphInit
  BY DEF AnalysisInit
<1> QED
  BY <1>1, AnalysisStepIsGraphStep, AnalysisInvariant, PTL DEF AnalysisSpec, GraphSpec, ImplementsGraph

\* So what holds of the four nodes holds of them with their retrieval in full.
THEOREM AnalysisKeepsItsPromises ==
    AnalysisSpec => [](MemoGrounded /\ DriftsSpanPeriods /\ CleanMeansComplete)
  BY AnalysisImplementsGraph, MemoAlwaysGrounded, DriftsAlwaysSpanPeriods, CleanAlwaysComplete, PTL
     DEF ImplementsGraph

\* The selection inside an analysis leaves nothing out without a cause and keeps two
\* dates of a section.
THEOREM AnalysisSelectsFairly == AnalysisSpec => [](LeftOutForCause /\ PeriodsSurvive)
<1>1. AnalysisIInv => LeftOutForCause /\ PeriodsSurvive
  BY LeftOutFollows, PeriodsFollow DEF AnalysisIInv
<1> QED
  BY <1>1, AnalysisInvariant, PTL

\* reciprocal_rank_fusion puts a chunk first that both searches put first, for any
\* limit, any offset and any two rankings.
THEOREM AgreementAlwaysKept == AnalysisSpec => []AgreementKept
<1>1. ASSUME AnalysisIInv, NEW i \in DOMAIN found,
             NEW p \in DOMAIN found[i].fused, NEW q \in DOMAIN found[i].fused,
             NEW m \in DOMAIN found[i].keyword,
             found[i].keyword[m] = found[i].fused[p].chunk,
             \A n \in 1 .. m : found[i].keyword[n] # found[i].fused[q].chunk,
             NEW k \in DOMAIN found[i].vector,
             found[i].vector[k] = found[i].fused[p].chunk,
             \A n \in 1 .. k : found[i].vector[n] # found[i].fused[q].chunk
      PROVE  p < q
  <2> DEFINE keyword == found[i].keyword
             vector == found[i].vector
             f == found[i].fused
             cs == Of(tickers[i], Chunks)
  <2>1. keyword \in Rankings(cs) /\ vector \in Rankings(cs) /\ f = Fused(keyword, vector)
    BY <1>1 DEF AnalysisIInv, FoundFused
  <2>2. Share(f[p].chunk, keyword) > Share(f[q].chunk, keyword)
    BY <1>1, <2>1, PreferredScoresMore
  <2>3. Share(f[p].chunk, vector) > Share(f[q].chunk, vector)
    BY <1>1, <2>1, PreferredScoresMore
  <2>4. /\ Share(f[p].chunk, keyword) \in Nat /\ Share(f[q].chunk, keyword) \in Nat
        /\ Share(f[p].chunk, vector) \in Nat /\ Share(f[q].chunk, vector) \in Nat
    BY <2>1, ShareOfRank
  <2>5. /\ f[p].score = Share(f[p].chunk, keyword) + Share(f[p].chunk, vector)
        /\ f[q].score = Share(f[q].chunk, keyword) + Share(f[q].chunk, vector)
        /\ f[p].score > f[q].score => p < q
    <3>1. p \in DOMAIN f /\ q \in DOMAIN f
      OBVIOUS
    <3> HIDE DEF f, keyword, vector
    <3> QED
      BY <2>1, <3>1, FusionRanks
  <2> QED
    BY <2>2, <2>3, <2>4, <2>5
<1>2. AnalysisIInv => AgreementKept
  BY <1>1 DEF AgreementKept
<1> QED
  BY <1>2, AnalysisInvariant, PTL

\* No answer of the reranker takes evidence away or brings any in (hybrid_retrieve).
THEOREM RerankAlwaysKeepsAll == AnalysisSpec => []RerankKeepsAll
<1>1. AnalysisIInv => RerankKeepsAll
  BY DEF AnalysisIInv
<1> QED
  BY <1>1, AnalysisInvariant, PTL

\* If SQLite has a row for a ticker of the plan, a retrieval that ends without an
\* error returns something, for any limits (hybrid_retrieve, apply_section_diversity).
THEOREM EvidenceAlwaysIfAny == AnalysisSpec => []EvidenceIfAny
<1>1. ASSUME AnalysisIInv, pass = "done", SomeRows
      PROVE  taken # {}
  <2>1. SelectionIInv /\ stage = "reranked"
    BY <1>1 DEF AnalysisIInv, SelectionInTurn
  <2>2. Members(ordered) = Members(candidates) /\ candidates \in Seq(Evidence) /\ candidates # <<>>
    BY <1>1, <2>1 DEF AnalysisIInv, RerankKeepsAll, CandidatesOfTickers
  <2>3. PICK i \in DOMAIN ordered : TRUE
    <3>1. 1 \in DOMAIN candidates
      BY <2>2
    <3> QED
      BY <2>2, <3>1 DEF Members
  <2> SUFFICES ASSUME taken = {} PROVE FALSE
    OBVIOUS
  <2>4. Cardinality({}) = 0 /\ InSection(ordered[i]) = {} /\ InPeriod(ordered[i]) = {}
    BY FS_EmptySet DEF InSection, InPeriod
  <2>5. ~Full /\ ~Spent(ordered[i])
    BY <2>4, SectionDiversityAssumption DEF Full, Spent
  <2>6. Spent(ordered[i])
    BY <1>1, <2>1, <2>3, <2>5, LeftOutFollows DEF LeftOutForCause
  <2> QED
    BY <2>5, <2>6
<1>2. AnalysisIInv => EvidenceIfAny
  BY <1>1 DEF EvidenceIfAny, SomeRows
<1> QED
  BY <1>2, AnalysisInvariant, PTL
=============================================================================
