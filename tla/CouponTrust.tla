----------------------------- MODULE CouponTrust -----------------------------
(***************************************************************************)
(* What the catalogue promises of one coupon, seen from outside: a badge   *)
(* (the status shown) and the verdict of the last conclusive check.  The   *)
(* badge turns to a verdict only when a check gives it; a new verdict is   *)
(* never ignored by a badge that already shows one; a supplier or the      *)
(* clock may take a badge away, and a new listing starts untested.         *)
(***************************************************************************)

VARIABLES badge, verdict

trustVars == <<badge, verdict>>

Decided == {"valid", "invalid"}

TrustInit == badge = "unverified" /\ verdict = "none"

(* A conclusive check.  A badge taken away while the check ran may stay so.*)
Verify(result) ==
  /\ verdict' = result
  /\ badge' = result \/ (badge' = badge /\ badge \notin Decided)

Withdraw == badge' = "expired" /\ UNCHANGED verdict

ListAgain == badge' = "unverified" /\ UNCHANGED verdict

TrustNext == (\E result \in Decided : Verify(result)) \/ Withdraw \/ ListAgain

Spec == TrustInit /\ [][TrustNext]_trustVars

(* The badge never contradicts the verdict.                                *)
Honest == badge \in Decided => badge = verdict

=============================================================================
