------------------------- MODULE MCValidationQueue -------------------------
(* Finite instances of ValidationQueue.                                    *)
EXTENDS ValidationQueue, TLC

Symmetry == Permutations(Workers) \cup Permutations(Coupons \ TopMerchant)

(* Once a key was lost under its job nothing more is claimed of the jobs.  *)
NoKeyLostYet == ~fault

=============================================================================
