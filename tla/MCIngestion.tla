---------------------------- MODULE MCIngestion ----------------------------
(***************************************************************************)
(* Small instances of Ingestion: three filings, of which the second        *)
(* repeats a text of the first (boilerplate), the third brings nothing of  *)
(* its own, and the first holds one text twice.                            *)
(***************************************************************************)
EXTENDS Ingestion

CONSTANTS r1, r2, r3

MCHashes == {"a", "b", "c"}
MCFilings == {"f1", "f2", "f3"}
MCTexts == [f1 |-> <<"a", "b", "a">>, f2 |-> <<"b", "c">>, f3 |-> <<"b">>]
MCPlans == {<<"f1", "f3", "f2">>, <<"f2", "f3">>}
\* No text twice in a filing: the duplicates the violation run finds are not those.
MCPlainTexts == [f1 |-> <<"a", "b">>, f2 |-> <<"c">>, f3 |-> <<"b">>]
=============================================================================
