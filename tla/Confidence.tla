----------------------------- MODULE Confidence -----------------------------
(* The confidence of a coupon (core/confidence.py), in hundredths of a     *)
(* percent: 0.85 is 8500.                                                  *)
EXTENDS Integers

Base(result) ==
  CASE result = "valid"        -> 8500
    [] result = "unverifiable" -> 4000
    [] result = "invalid"      -> 500
    [] OTHER                   -> 3000

Rounded(num, den) == (2 * num + den) \div (2 * den)

\* Mutant: a single vote weighs as much as the check.
ConfidenceOfFew(result, up, total) ==
  IF total = 0 THEN Base(result) ELSE Rounded(Base(result) + 10000 * up, total + 1)

(* The weight of the crowd, n/(n+5), reaches its cap 1/2 at five votes.    *)
ComputeConfidence(result, up, total) ==
  IF total = 0 THEN Base(result)
  ELSE IF total <= 5 THEN Rounded(5 * Base(result) + 10000 * up, total + 5)
  ELSE Rounded(total * Base(result) + 10000 * up, 2 * total)

=============================================================================
