---- MODULE MCFeedBatch ----
(* Six entries: the same code under two spellings, one of them with a bare *)
(* number; a paused one; one without a reference, of a merchant that is    *)
(* near the first; a deal of a merchant with an empty key; and one whose   *)
(* code is a placeholder.                                                  *)
EXTENDS FeedBatch

MCKey == [m1 |-> "myntra", m1b |-> "myntra", m2 |-> "mynntra", m3 |-> "mynntraa", m4 |-> ""]

Pairs == {"myntra", "mynntra", "mynntraa"}
MCPairScore == [p \in Pairs \X Pairs |->
  IF p[1] = p[2] THEN 100
  ELSE IF p \in {<<"myntra", "mynntraa">>, <<"mynntraa", "myntra">>} THEN 86
  ELSE IF p \in {<<"myntra", "mynntra">>, <<"mynntra", "myntra">>} THEN 92
  ELSE 93]

MCUpper == [save |-> "SAVE", SAVE |-> "SAVE", na |-> "N/A", MORE |-> "MORE"]

Says(words, pct, rup) == [words |-> words, pct |-> pct, rup |-> rup]

Entry == [ref |-> "r1", merchant |-> "m1", code |-> "save", live |-> TRUE, chip |-> NoText,
          title |-> NoText, body |-> NoText, hint |-> "none", number |-> NoValue, ends |-> None,
          link |-> "shop", category |-> "shopping", kind |-> "code", wallet |-> FALSE]

Labelled == [Entry EXCEPT !.title = Says({"off"}, 20, 499), !.hint = "fixed", !.ends = "soon",
                          !.chip = Says({}, NoValue, 300)]
Spelled == [Entry EXCEPT !.ref = "r2", !.merchant = "m1b", !.code = "SAVE", !.number = 100,
                         !.body = Says({"sign up"}, NoValue, NoValue), !.wallet = TRUE]
Shifty == [Entry EXCEPT !.ref = "r3", !.merchant = "m3", !.live = FALSE, !.title = Says({"off"}, 100, 0),
                        !.hint = "percentage", !.category = "ai"]
NoRef == [Entry EXCEPT !.ref = None, !.merchant = "m2", !.code = "MORE", !.hint = "cashback",
                       !.title = Says({"cashback"}, 10, NoValue), !.category = "travel", !.wallet = TRUE]
Deal == [Entry EXCEPT !.ref = "r5", !.merchant = "m4", !.code = None, !.kind = "no_code",
                      !.category = "food", !.title = Says({"gift"}, NoValue, NoValue),
                      !.body = Says({"shipping"}, NoValue, 499)]
Absent == [Entry EXCEPT !.ref = "r6", !.merchant = "m2", !.code = "na", !.hint = "percentage",
                        !.title = Says({"off"}, 100, NoValue)]

MCOffers == {Labelled, Spelled, Shifty, NoRef, Deal, Absent}
MCListings == {l \in [1 .. 4 -> MCOffers] : \A i, j \in 1 .. 4 : l[i] = l[j] => i = j}
MCLinks == [m1 |-> "tracked", m4 |-> "tracked"]
MCPlaceholders == {"N/A"}
====
