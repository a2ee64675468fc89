---------------------------- MODULE TokenCounter ----------------------------
(***************************************************************************)
(* How many tokens texts have (TokenCounter in chunking.py).  A text is a  *)
(* list of parts, each a record with the number of tokens it has alone.    *)
(* The tokens of the parts, counted through, are its places; counted as a  *)
(* whole it has the tokens of its joints as well.  A joint costs nothing   *)
(* where words are counted (the fallback); with tiktoken a blank line      *)
(* after a word is a token of its own, and so is a blank before a digit.   *)
(* (Left out: a joint that saves a token, which only makes a text smaller, *)
(* and pieces whose count changes when they are cut out of a text.)        *)
(***************************************************************************)
EXTENDS Naturals, Sequences, FiniteSets

CONSTANT Joint      \* the tokens that joining two texts can add, at most

ASSUME TokenAssumption == Joint \in Nat

\* The places before part n: the tokens of the parts before it, each a pair of
\* its part and its place there.
TokensBefore(text, n) ==
    Cardinality(UNION {{i} \X (1 .. text[i].tokens) : i \in {i \in DOMAIN text : i < n}})

TokensOf(text) == TokensBefore(text, Len(text) + 1)

\* What joining a part to a text of n places may add to the count of both.
Joins(n) == IF n > 0 THEN 0 .. Joint ELSE {0}
=============================================================================
