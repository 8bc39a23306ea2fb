------------------------------ MODULE PoolSeq ------------------------------
(* The free lists and queues of the pools, as sequences without repetition. *)
EXTENDS Naturals, Sequences

InSeq(x, s) == \E i \in 1..Len(s) : s[i] = x

Distinct(s) == \A i, j \in 1..Len(s) : s[i] = s[j] => i = j
=============================================================================
