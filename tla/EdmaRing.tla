----------------------------- MODULE EdmaRing -----------------------------
(***************************************************************************)
(* The descriptor rings of edma_tx_rx.c.  A ring of n entries has the      *)
(* indices 0..n - 1; it is empty when the indices of its producer and its  *)
(* consumer are equal, so that one entry always stays free.                *)
(***************************************************************************)
EXTENDS Naturals

(* variant: the index does not wrap                                        *)
Succ_NoWrap(i, n) == i + 1

(* The index after i.                                                      *)
Succ(i, n) == IF i + 1 = n THEN 0 ELSE i + 1

(* The code wraps some indices with the mask n - 1, which keeps the 16     *)
(* bits of an index that it should if n is a power of two.                 *)
IsMask(n) == \E w \in 1..16 : n = 2^w

(* What is between a consumer at c and a producer at p.                    *)
Between(c, p, n) ==
  {i \in 0..n - 1 : IF c <= p THEN c <= i /\ i < p ELSE c <= i \/ i < p}
=============================================================================
