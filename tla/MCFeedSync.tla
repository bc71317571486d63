----------------------------- MODULE MCFeedSync -----------------------------
(* Finite instances of FeedSync: two offers of two merchants, which the    *)
(* other feed lists as well, so that two runs can insert the same merchants*)
(* in either order.                                                        *)
EXTENDS FeedSync, TLC

CONSTANTS o1, o2, l1, l2, m1, m2

TwoMerchants == (o1 :> m1) @@ (o2 :> m2) @@ (l1 :> m1) @@ (l2 :> m2)

=============================================================================
