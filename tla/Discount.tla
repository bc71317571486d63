------------------------------ MODULE Discount ------------------------------
(* The discount of an offer: the parsers of the feeds, the refinement by a *)
(* structured label, and the reconciliation with the human text            *)
(* (scrapers/desidime.py, scrapers/linkmydeals_feed.py,                    *)
(* scheduler/import_editorial.py, scrapers/normalize.py).                  *)
(*                                                                         *)
(* A text is what the parsers can find in it: the words it holds, its      *)
(* first percentage and its first rupee amount.                            *)
EXTENDS Integers

NoValue == -1
NoText == [words |-> {}, pct |-> NoValue, rup |-> NoValue]

Values == Nat \cup {NoValue}
Texts == [words : SUBSET STRING, pct : Values, rup : Values]
Types == {"percentage", "fixed", "cashback", "bogo", "free_shipping", "unknown"}

Label(type, value) == [type |-> type, value |-> value]

First(t, u) == IF t # NoText THEN t ELSE u

Join(t, u) == [words |-> t.words \cup u.words,
               pct |-> IF t.pct # NoValue THEN t.pct ELSE u.pct,
               rup |-> IF t.rup # NoValue THEN t.rup ELSE u.rup]

(* scrapers/desidime.py, shared by the feeds *)
ParseDiscount(t) ==
  IF "shipping" \in t.words THEN Label("free_shipping", NoValue)
  ELSE IF "cashback" \in t.words THEN Label("cashback", NoValue)
  ELSE IF "bogo" \in t.words THEN Label("bogo", NoValue)
  ELSE IF t.pct # NoValue THEN Label("percentage", t.pct)
  ELSE IF t.rup # NoValue THEN Label("fixed", t.rup)
  ELSE Label("unknown", NoValue)

(* A structured label replaces the type and leaves the value.              *)
MapDiscount(hint, t) ==
  LET parsed == ParseDiscount(t)
  IN Label(IF hint = "none" THEN parsed.type ELSE hint, parsed.value)

(* LinkMyDeals also has a number to fall back to.                          *)
MapDiscountValue(hint, t, number) ==
  LET mapped == MapDiscount(hint, t)
  IN Label(mapped.type, IF mapped.value = NoValue THEN number ELSE mapped.value)

(* scheduler/import_editorial.py: the discount of a headline *)
EditorialDiscount(t) ==
  IF "cashback" \in t.words THEN Label("cashback", t.pct)
  ELSE IF "bogo" \in t.words THEN Label("bogo", NoValue)
  ELSE IF t.pct # NoValue THEN Label("percentage", t.pct)
  ELSE IF "off" \in t.words /\ t.rup # NoValue THEN Label("fixed", t.rup)
  ELSE Label("unknown", NoValue)

(* "Rs 499" becomes "499 rupees", which no parser takes for an amount.     *)
MaskCurrency(t) == [t EXCEPT !.rup = NoValue]

Plausible(p) == 0 < p /\ p <= 95

\* Mutant: an implausible feed value is kept.
SanitizeTrustingFeed(l, t) ==
  IF "cashback" \in t.words THEN Label("cashback", IF Plausible(t.pct) THEN t.pct ELSE NoValue)
  ELSE IF "bogo" \in t.words THEN Label("bogo", NoValue)
  ELSE IF "shipping" \in t.words /\ t.pct = NoValue /\ t.rup = NoValue
       THEN Label("free_shipping", NoValue)
  ELSE IF Plausible(t.pct) THEN Label("percentage", t.pct)
  ELSE IF t.rup > 0 THEN Label("fixed", t.rup)
  ELSE l

\* Mutant: free shipping wins over an amount in the text.
SanitizeShippingFirst(l, t) ==
  IF "shipping" \in t.words THEN Label("free_shipping", NoValue)
  ELSE SanitizeTrustingFeed(l, t)

(* scrapers/normalize.py: the text is the source of truth; a feed value    *)
(* without support in it is kept unless it is nonsense.                    *)
SanitizeDiscount(l, t) ==
  IF "cashback" \in t.words THEN Label("cashback", IF Plausible(t.pct) THEN t.pct ELSE NoValue)
  ELSE IF "bogo" \in t.words THEN Label("bogo", NoValue)
  ELSE IF "shipping" \in t.words /\ t.pct = NoValue /\ t.rup = NoValue
       THEN Label("free_shipping", NoValue)
  ELSE IF Plausible(t.pct) THEN Label("percentage", t.pct)
  ELSE IF t.rup > 0 THEN Label("fixed", t.rup)
  ELSE IF \/ l.type = "percentage" /\ ~Plausible(l.value)
          \/ l.type = "fixed" /\ l.value = 0
       THEN Label("unknown", NoValue)
  ELSE IF l.type \in {"free_shipping", "bogo"} THEN Label(l.type, NoValue)
  ELSE l

=============================================================================
