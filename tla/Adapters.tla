------------------------------ MODULE Adapters ------------------------------
(* What each source adapter makes of one entry of its supplier's feed: a   *)
(* raw coupon, or nothing (scrapers/*_feed.py, inrdeals.py, desidime.py,   *)
(* scheduler/import_editorial.py).                                         *)
(*                                                                         *)
(* An entry has a chip (a short structured discount text), a title and a   *)
(* body, a hint (the discount type its label names, or "none"), and a      *)
(* number; which of them an adapter reads is the adapter's business.  Live *)
(* says that the status it carries is one the adapter takes.               *)
EXTENDS Normalize

Paged == {"Cuelinks", "Involve Asia", "Feedico"}
Sources == Paged \cup {"Admitad", "vCommission", "INRDeals", "Desidime",
                       "LinkMyDeals", "Editorial curation"}

Nothing == [merchant |-> None]

Raw(offer, code, text, label) ==
  [merchant |-> offer.merchant, code |-> code, ref |-> offer.ref, reveal |-> FALSE,
   text |-> text, label |-> label, ends |-> None, link |-> offer.link]

CuelinksOffer(offer) ==
  IF ~offer.live \/ offer.merchant = None \/ offer.ref = None THEN Nothing
  ELSE Raw(offer, offer.code, First(offer.title, offer.body),
           MapDiscount(offer.hint, Join(offer.title, offer.body)))

InvolveAsiaOffer(offer) ==
  IF ~offer.live \/ offer.merchant = None \/ offer.ref = None THEN Nothing
  ELSE Raw(offer, offer.code, First(offer.title, offer.body),
           MapDiscount(offer.hint, Join(offer.title, offer.body)))

(* No status; a code stands in for a missing reference.                    *)
FeedicoOffer(offer) ==
  IF offer.merchant = None \/ (offer.code = None /\ offer.ref = None) THEN Nothing
  ELSE Raw(offer, offer.code, First(offer.title, offer.body),
           ParseDiscount(Join(offer.title, offer.body)))

(* The bare list has neither codes nor tracked links.                      *)
AdmitadCoupon(offer, site) ==
  IF ~offer.live \/ offer.merchant = None \/ offer.ref = None THEN Nothing
  ELSE [Raw(offer, IF site THEN offer.code ELSE None, First(offer.body, offer.title),
            ParseDiscount(Join(offer.chip, Join(offer.title, offer.body))))
         EXCEPT !.ends = offer.ends, !.link = IF site THEN offer.link ELSE None]

(* The tracked link comes from the campaign the offer belongs to.          *)
VCommissionCoupon(offer, links) ==
  IF ~offer.live \/ offer.merchant = None \/ offer.ref = None \/ offer.code = None
  THEN Nothing
  ELSE [Raw(offer, offer.code, offer.body, ParseDiscount(offer.body))
         EXCEPT !.link = IF offer.merchant \in DOMAIN links THEN links[offer.merchant] ELSE None]

VCommissionDeal(offer, links) ==
  IF ~offer.live \/ offer.merchant = None \/ offer.ref = None THEN Nothing
  ELSE LET text == First(offer.body, offer.title)
       IN [Raw(offer, None, text, ParseDiscount(text))
            EXCEPT !.link = IF offer.merchant \in DOMAIN links THEN links[offer.merchant] ELSE None]

InrdealsCoupon(offer) ==
  IF offer.merchant = None \/ offer.code = None THEN Nothing
  ELSE Raw(offer, offer.code, First(offer.title, offer.chip),
           ParseDiscount(Join(offer.chip, offer.title)))

(* A card hides its code behind a reveal, which is not followed.           *)
DesidimeCard(offer) ==
  IF offer.merchant = None \/ offer.ref = None THEN Nothing
  ELSE [Raw(offer, None, First(offer.body, offer.title),
            ParseDiscount(First(offer.chip, offer.title))) EXCEPT !.reveal = TRUE]

(* A suspended offer goes to the suspension list instead.                  *)
LinkMyDealsOffer(offer) ==
  IF ~offer.live \/ offer.merchant = None \/ offer.ref = None THEN Nothing
  ELSE Raw(offer, offer.code, First(offer.title, offer.body),
           MapDiscountValue(offer.hint, Join(offer.body, offer.title), offer.number))

(* The rows of a curated file that are coupons or deals of a merchant of   *)
(* their own: a free trial, a wallet or bank intermediary and a bank       *)
(* offer are not.                                                          *)
Keep(offer) ==
  IF offer.category = "ai" THEN "skip"
  ELSE IF offer.wallet /\ offer.category # "travel" THEN "skip"
  ELSE IF offer.kind = "code" /\ offer.code # None THEN "code"
  ELSE IF offer.kind = "no_code" /\ offer.category \in {"food", "shopping"} THEN "deal"
  ELSE "skip"

(* A freebie's minimum order is masked, so that it is not read as the      *)
(* discount.                                                               *)
ComposeDescription(offer) ==
  IF EditorialDiscount(offer.title).type = "unknown" THEN MaskCurrency(offer.body) ELSE offer.body

EditorialRow(offer) ==
  IF Keep(offer) = "skip" THEN Nothing
  ELSE [Raw(offer, IF Keep(offer) = "code" THEN offer.code ELSE None,
            ComposeDescription(offer), EditorialDiscount(offer.title)) EXCEPT !.ends = offer.ends]

=============================================================================
