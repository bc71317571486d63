----------------------------- MODULE MCLlmBudget -----------------------------
(* Finite instances of LlmBudget.                                          *)
EXTENDS LlmBudget

=============================================================================
