------------------------------ MODULE Ordering ------------------------------
(***************************************************************************)
(* Lists put in order, as Python's sorted and its list comprehensions do   *)
(* it.  An order is the set of pairs whose first member comes first.       *)
(***************************************************************************)
EXTENDS Naturals, Sequences, FiniteSets

\* The members of S in the order `before`: each has as many before it in the
\* list as in S.
Ordered(S, before) ==
    [n \in 1 .. Cardinality(S) |->
        CHOOSE x \in S : Cardinality({y \in S : <<y, x>> \in before}) = n - 1]

\* Numbers, the lowest first.
Ascending(S) ==
    [n \in 1 .. Cardinality(S) |-> CHOOSE x \in S : Cardinality({y \in S : y < x}) = n - 1]

\* What is left of a list of which only the indices in K are kept.
Kept(s, K) ==
    LET order == Ascending(K) IN [n \in DOMAIN order |-> s[order[n]]]

\* The places of a list of lists, list by list.
Places(ss) == UNION {{i} \X DOMAIN ss[i] : i \in DOMAIN ss}
Precedes(p, q) == p[1] < q[1] \/ (p[1] = q[1] /\ p[2] < q[2])

\* All lists in one.
Flattened(ss) ==
    LET order == Ordered(Places(ss), {e \in Places(ss) \X Places(ss) : Precedes(e[1], e[2])})
    IN  [n \in DOMAIN order |-> ss[order[n][1]][order[n][2]]]
=============================================================================
