----------------------------- MODULE PartialSums ------------------------------
(***************************************************************************)
(* Running totals: where the pages of each row begin among the pages of a  *)
(* batch (flashinfer_backend.py), what part of the probability lies on     *)
(* some tokens (sampler.py).                                               *)
(***************************************************************************)
EXTENDS Integers, Sequences

\* After none, one, ... of the terms.
Sums(terms) ==
    LET sum[i \in 0 .. Len(terms)] == IF i = 0 THEN 0 ELSE sum[i - 1] + terms[i]
    IN  sum

SumOf(terms) == Sums(terms)[Len(terms)]
=============================================================================
