------------------------------- MODULE Order -------------------------------
(***************************************************************************)
(* Sorting: a finite set as the sequence of its members in an order, which *)
(* is a set of pairs.                                                      *)
(***************************************************************************)
EXTENDS Integers, Sequences, SequencesExt, FiniteSetsExt

(* k - 1 of the members come before the k-th.                              *)
Ranked(S, less) ==
  [k \in 1 .. Cardinality(S) |->
     CHOOSE a \in S : Cardinality({b \in S : <<b, a>> \in less}) = k - 1]

(* A set of numbers from the least to the greatest.                        *)
Ascending(S) ==
  CHOOSE w \in [1 .. Cardinality(S) -> S] : \A i, j \in DOMAIN w : i < j => w[i] < w[j]

(* The elements of a sequence at some of its positions.                    *)
Chosen(seq, positions) ==
  LET at == Ascending(positions) IN [k \in DOMAIN at |-> seq[at[k]]]
=============================================================================
