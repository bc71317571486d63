--------------------------- MODULE MCTrialCatalog ---------------------------
(* Finite instances of TrialCatalog.  The titles x and X differ in case    *)
(* only; d is the default title.                                           *)
EXTENDS TrialCatalog, TLC

CONSTANTS x, X, d, t1, t2

CaseBlind == (x :> x) @@ (X :> x) @@ (d :> d)

CuratedOffers == {[title |-> x, type |-> t1]}

(* The LLM may find nothing, name the curated offer in another case, give  *)
(* it another type beside an untitled offer, or name two offers of a type. *)
LlmAnswers ==
  {<<>>,
   <<[title |-> X, type |-> t2], [title |-> Untitled, type |-> t1]>>,
   <<[title |-> X, type |-> t1]>>,
   <<[title |-> d, type |-> t1], [title |-> X, type |-> t1]>>}

=============================================================================
