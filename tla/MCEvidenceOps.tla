---------------------------- MODULE MCEvidenceOps ----------------------------
(***************************************************************************)
(* Small instance of EvidenceOps: two processes, so that one can leave     *)
(* orphans behind while the other goes on, and two filings that share a    *)
(* text.                                                                   *)
(***************************************************************************)
EXTENDS EvidenceOps, TLC

CONSTANTS r1, r2

MCHashes == {"a", "b"}
MCFilings == {"f1", "f2"}
MCTexts == [f1 |-> <<"a">>, f2 |-> <<"a", "b">>]
MCPlans == {<<"f1", "f2">>, <<"f2">>}

MCSymmetry == Permutations({r1, r2})

\* The readers share nothing but the stores, which they do not change, so that
\* each behaviour of one is found without the others: one reader at a time.
OneReader ==
    \/ auditPc = "idle" /\ backupPc = "idle" /\ exportPc = "idle"
    \/ auditPc = "idle" /\ backupPc = "idle" /\ evidence = {}
    \/ auditPc = "idle" /\ exportPc = "idle" /\ evidence = {}
    \/ backupPc = "idle" /\ exportPc = "idle" /\ evidence = {}

MCSpec == OpsInit /\ [][OpsNext /\ OneReader']_opsVars
=============================================================================
