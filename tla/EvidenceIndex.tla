---------------------------- MODULE EvidenceIndex ----------------------------
(***************************************************************************)
(* What the ingestion side promises its readers, whatever the number of    *)
(* ingestion processes, their crashes and their re-runs.  Evidence lives   *)
(* in two stores that share no transaction:                                *)
(*   chunks - the committed rows of the SQLite table `chunks`              *)
(*   points - the points of the Qdrant collection, keyed by chunk id       *)
(* A chunk is a record with at least a field `text` (its text_hash) and a  *)
(* field `filing`.                                                         *)
(***************************************************************************)

VARIABLES chunks, points

Init ==
    /\ chunks = {}
    /\ points = {}

\* Vectors reach Qdrant first; nothing that is indexed is taken back.
Publish ==
    /\ points \subseteq points'
    /\ UNCHANGED chunks

\* A transaction makes the new rows of one filing visible: each row already has
\* its point, and no row repeats a text another filing's row holds.
Commit ==
    LET rows == chunks' \ chunks IN
    /\ chunks \subseteq chunks'
    /\ rows \subseteq points
    /\ \A c, d \in rows : c.filing = d.filing
    /\ \A c \in rows, d \in chunks : c.text # d.text
    /\ UNCHANGED points

Next == Publish \/ Commit

Spec == Init /\ [][Next]_<<chunks, points>>
=============================================================================
