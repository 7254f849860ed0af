------------------------------ MODULE InOrder ------------------------------
(***************************************************************************)
(* Selecting and ordering, as the loops and the calls of package sort in   *)
(* the code do it: the members of a set in a given order, and the elements *)
(* of a sequence at given indices.  An element's place is the number of    *)
(* elements before it, which is what lets the proofs count.                *)
(***************************************************************************)
EXTENDS Integers, Sequences, FiniteSets

\* A finite list, whatever it holds.
IsList(s) == s \in Seq({s[i] : i \in DOMAIN s})

\* The members of the finite set S, those that come first in the order R first.
Ranked(S, R) ==
    [k \in 1..Cardinality(S) |->
        CHOOSE x \in S : Cardinality({y \in S : <<y, x>> \in R}) = k - 1]

Ascending(S) == {p \in S \X S : p[1] < p[2]}

\* The elements of s at the indices in S, in the order of s: what a loop that
\* appends the elements it does not skip makes of s.
Where(s, S) ==
    LET at == Ranked(S, Ascending(S)) IN [k \in 1..Cardinality(S) |-> s[at[k]]]

Occurrences(e, s) == Cardinality({k \in DOMAIN s : s[k] = e})
=============================================================================
