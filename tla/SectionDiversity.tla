-------------------------- MODULE SectionDiversity --------------------------
(***************************************************************************)
(* apply_section_diversity (services/agent-api/app/retrieval.py): from a   *)
(* list of chunks, the best first, it takes at most FinalLimit, and at     *)
(* most MaxPerSection of a ticker's section of which at most MaxPerDate    *)
(* are of one filing date.  The list may name a chunk twice.               *)
(***************************************************************************)
EXTENDS Naturals, Sequences, FiniteSets

CONSTANTS
    Chunks,         \* evidence chunks
    MaxPerSection,  \* max_per_section_per_ticker
    MaxPerDate,     \* max_per_section_per_date
    FinalLimit      \* limit

ASSUME SectionDiversityAssumption ==
    /\ {MaxPerSection, MaxPerDate, FinalLimit} \subseteq Nat \ {0}
    /\ MaxPerDate < MaxPerSection

VARIABLES
    pass,       \* "idle" before the call, "selecting" in the loop, "done"
    ordered,    \* the list
    at,         \* the index that the loop looks at next
    taken       \* the indices of the chunks in `selected`

SelectionVars == <<pass, ordered, at, taken>>

SelectionInit ==
    /\ pass = "idle"
    /\ ordered = <<>>
    /\ at = 1
    /\ taken = {}

Call ==
    /\ pass = "idle"
    /\ pass' = "selecting"
    /\ ordered' \in Seq(Chunks)
    /\ UNCHANGED <<at, taken>>

SameSection(c, d) == c.ticker = d.ticker /\ c.section = d.section
SamePeriod(c, d) == SameSection(c, d) /\ c.date = d.date

\* Of the indices taken, those that count for the two budgets of chunk c.
InSection(c) == {i \in taken : SameSection(ordered[i], c)}
InPeriod(c) == {i \in taken : SamePeriod(ordered[i], c)}

\* Mutation: no cap on one period.
Bug_NoDateCap(c) == Cardinality(InSection(c)) >= MaxPerSection

\* Either budget of c is spent.
Spent(c) ==
    \/ Cardinality(InSection(c)) >= MaxPerSection
    \/ Cardinality(InPeriod(c)) >= MaxPerDate

\* Mutation: the first chunk over a cap ends the loop.
Bug_Break ==
    /\ pass = "selecting"
    /\ at \in DOMAIN ordered
    /\ at' = at + 1
    /\ IF Spent(ordered[at])
       THEN pass' = "done" /\ UNCHANGED taken
       ELSE /\ taken' = taken \union {at}
            /\ pass' = IF Cardinality(taken') >= FinalLimit THEN "done" ELSE pass
    /\ UNCHANGED ordered

\* One pass of the loop.
TakeOrSkip ==
    /\ pass = "selecting"
    /\ at \in DOMAIN ordered
    /\ at' = at + 1
    /\ IF Spent(ordered[at])
       THEN UNCHANGED <<pass, taken>>
       ELSE /\ taken' = taken \union {at}
            /\ pass' = IF Cardinality(taken') >= FinalLimit THEN "done" ELSE pass
    /\ UNCHANGED ordered

\* The list is at its end.
Return ==
    /\ pass = "selecting"
    /\ at \notin DOMAIN ordered
    /\ pass' = "done"
    /\ UNCHANGED <<ordered, at, taken>>

SelectionNext == Call \/ TakeOrSkip \/ Return

SelectionSpec == SelectionInit /\ [][SelectionNext]_SelectionVars

-----------------------------------------------------------------------------
(***************************************************************************)
(* Properties                                                              *)
(***************************************************************************)

SelectionTypeOK ==
    /\ pass \in {"idle", "selecting", "done"}
    /\ at \in Nat \ {0}
    /\ ordered \in Seq(Chunks)
    /\ taken \subseteq DOMAIN ordered
    /\ \A i \in taken : i < at
    /\ Cardinality(taken) <= FinalLimit

Full == Cardinality(taken) >= FinalLimit

\* The selection is as large as the caps permit: a chunk is left out because its
\* section or its filing already has its share, or because the selection is full.
LeftOutForCause ==
    pass = "done" /\ ~Full => \A i \in DOMAIN ordered \ taken : Spent(ordered[i])

\* The comment in apply_section_diversity, for sections: no filing period takes
\* its section's whole budget, so a section that the list has of two dates is in
\* the selection with two dates, unless that is full.
PeriodsSurvive ==
    pass = "done" /\ ~Full =>
        \A i, j \in DOMAIN ordered :
            SameSection(ordered[i], ordered[j]) /\ ordered[i].date # ordered[j].date =>
                \E m, n \in InSection(ordered[i]) : ordered[m].date # ordered[n].date

\* Why: at any time each chunk looked at is taken or has a budget spent, and no
\* period has more than its share.
SelectionIInv ==
    /\ SelectionTypeOK
    /\ IsFiniteSet(taken)
    /\ \A i \in DOMAIN ordered \ taken : i < at => Spent(ordered[i])
    /\ \A i \in DOMAIN ordered : Cardinality(InPeriod(ordered[i])) <= MaxPerDate
    /\ pass = "idle" => ordered = <<>> /\ at = 1
    /\ IF pass = "done" THEN Full \/ at \notin DOMAIN ordered ELSE ~Full

\* The same comment, for what it is about: the caps stop one period from "crowding
\* out older periods the disclosure-drift diff step needs to compare against".
\* That step compares filings of one type.
DriftPeriodsSurvive ==
    pass = "done" /\ ~Full =>
        \A i, j \in DOMAIN ordered :
            LET OfType(m) == ordered[m].type = ordered[i].type IN
            SameSection(ordered[i], ordered[j]) /\ OfType(j) /\ ordered[i].date # ordered[j].date =>
                \E m, n \in InSection(ordered[i]) :
                    OfType(m) /\ OfType(n) /\ ordered[m].date # ordered[n].date
=============================================================================
