----------------------------- MODULE MCReminders -----------------------------
(* Finite instances of Reminders.                                          *)
EXTENDS Reminders

(* What send_email may do: a mail accepted; refused, or no provider; the   *)
(* answer lost to a timeout although the mail went out; the same with the  *)
(* fallback provider sending it again.                                     *)
AllOutcomes == {[copies |-> 1, ok |-> TRUE], [copies |-> 0, ok |-> FALSE],
                [copies |-> 1, ok |-> FALSE], [copies |-> 2, ok |-> TRUE]}
PlainOutcomes == {[copies |-> 1, ok |-> TRUE], [copies |-> 0, ok |-> FALSE]}

=============================================================================
