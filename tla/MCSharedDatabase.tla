-------------------------- MODULE MCSharedDatabase --------------------------
(***************************************************************************)
(* Small instance of SharedDatabase: one analysis beside two ingestion     *)
(* processes, of two filings that share a text.                            *)
(***************************************************************************)
EXTENDS SharedDatabase, TLC

CONSTANTS r1, r2, j1, p1

MCHashes == {"a", "b"}
MCFilings == {"f1", "f2"}
MCTexts == [f1 |-> <<"a">>, f2 |-> <<"a", "b">>]
MCPlans == {<<"f1", "f2">>}

MCSymmetry == Permutations({r1, r2})
=============================================================================
