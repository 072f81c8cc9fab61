------------------------------- MODULE Lists -------------------------------
(***************************************************************************)
(* Parts and sums of sequences.  They are what SelectSeq and FoldSeq give, *)
(* in the form in which the proofs count: by position.                     *)
(***************************************************************************)
EXTENDS Integers, Sequences, FiniteSets

\* How many of the positions N come before n.
Rank(N, n) == Cardinality({m \in N : m < n})

\* The elements of s at the positions N, in their order: the kth has k - 1 of them
\* before it (WHERE on a table that is sorted).
Chosen(s, N) == [k \in 1..Cardinality(N) |-> s[CHOOSE n \in N : Rank(N, n) = k - 1]]

\* The sum of the first n numbers of a sequence, for each n.
Sums(a) == LET sum[n \in 0..Len(a)] == IF n = 0 THEN 0 ELSE sum[n - 1] + a[n]
           IN  sum

SumOf(a) == Sums(a)[Len(a)]
=============================================================================
