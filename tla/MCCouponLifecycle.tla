-------------------------- MODULE MCCouponLifecycle --------------------------
(* Finite instances of CouponLifecycle: the sessions are model values, and *)
(* sessions of one kind are interchangeable.                               *)
EXTENDS CouponLifecycle, TLC

Symmetry == Permutations(Validators) \cup Permutations(Voters)
              \cup Permutations(Feeds) \cup Permutations(Ips)

=============================================================================
