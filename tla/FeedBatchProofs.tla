--------------------------- MODULE FeedBatchProofs ---------------------------
(***************************************************************************)
(* Theorems about FeedBatch, for any feed, any likeness of merchant names  *)
(* and any changes the supplier makes while a source is pulled.            *)
(***************************************************************************)
EXTENDS FeedBatch, FiniteSetTheorems, WellFoundedInduction, TLAPS

----------------------------------------------------------------------------
(* What the adapters make of an entry is a raw coupon or nothing.          *)

Labels == [type : Types, value : Values]

RawTexts == {offer.title : offer \in Offers} \cup {offer.chip : offer \in Offers}
            \cup {offer.body : offer \in Offers} \cup {MaskCurrency(offer.body) : offer \in Offers}

LEMMA OffersAre ==
  ASSUME NEW offer \in Offers
  PROVE  /\ offer.merchant \in DOMAIN Key \cup {None} /\ offer.code \in DOMAIN Upper \cup {None}
         /\ offer.chip \in Texts /\ offer.title \in Texts /\ offer.body \in Texts
         /\ offer.hint \in Types \cup {"none"} /\ offer.number \in Values
         /\ offer.merchant = None => Keep(offer) = "skip"
  BY BatchAssumption

LEMMA ParsedIsLabel ==
  ASSUME NEW t \in Texts
  PROVE  ParseDiscount(t) \in Labels /\ EditorialDiscount(t) \in Labels
<1>. t.pct \in Values /\ t.rup \in Values /\ NoValue \in Values
  BY DEF Texts, Values
<1>1. \A type \in Types, value \in Values : Label(type, value) \in Labels
  BY DEF Label, Labels
<1>. HIDE DEF Values
<1>2. {"free_shipping", "cashback", "bogo", "percentage", "fixed", "unknown"} \subseteq Types
  BY DEF Types
<1>. HIDE DEF Types, Labels
<1>3. ParseDiscount(t) \in Labels
  BY <1>1, <1>2 DEF ParseDiscount
<1>4. EditorialDiscount(t) \in Labels
  BY <1>1, <1>2 DEF EditorialDiscount
<1>. QED  BY <1>3, <1>4

LEMMA TextOps ==
  ASSUME NEW t \in Texts, NEW u \in Texts
  PROVE  Join(t, u) \in Texts /\ First(t, u) \in {t, u}
  BY DEF Join, First, Texts

LEMMA MappedIsLabel ==
  ASSUME NEW t \in Texts, NEW hint \in Types \cup {"none"}, NEW number \in Values
  PROVE  MapDiscount(hint, t) \in Labels /\ MapDiscountValue(hint, t, number) \in Labels
<1>1. MapDiscount(hint, t) \in Labels
  BY ParsedIsLabel DEF MapDiscount, Label, Labels
<1>2. MapDiscountValue(hint, t, number) \in Labels
  BY <1>1 DEF MapDiscountValue, Label, Labels
<1>. QED  BY <1>1, <1>2

LEMMA RawIsRaw ==
  ASSUME NEW offer \in Offers, offer.merchant # None, NEW code \in DOMAIN Upper \cup {None},
         NEW text \in RawTexts, NEW label \in Labels,
         NEW ends \in {None, offer.ends}, NEW reveal \in BOOLEAN,
         NEW link \in {None, offer.link} \cup {Links[m] : m \in DOMAIN Links}
  PROVE  [merchant |-> offer.merchant, code |-> code, ref |-> offer.ref, reveal |-> reveal,
          text |-> text, label |-> label, ends |-> ends, link |-> link] \in Raws
<1>1. offer.merchant \in DOMAIN Key
  BY OffersAre
<1>2. /\ offer.ref \in {o.ref : o \in Offers}
      /\ ends \in {None} \cup {o.ends : o \in Offers}
      /\ link \in {None} \cup {o.link : o \in Offers} \cup {Links[m] : m \in DOMAIN Links}
  OBVIOUS
<1>. QED  BY <1>1, <1>2 DEF Raws, RawTexts, Labels

LEMMA OfferTexts ==
  ASSUME NEW offer \in Offers
  PROVE  {offer.title, offer.chip, offer.body, MaskCurrency(offer.body)} \subseteq RawTexts
  BY DEF RawTexts

(* Every adapter, with the links of vCommission or without.                *)
LEMMA MapOfferIsRaw ==
  ASSUME source \in Sources, site \in BOOLEAN, links \in {<<>>, Links}, NEW offer \in Offers
  PROVE  MapOffer(offer) \in Raws \cup {Nothing}
<1>. DEFINE mapped == MapOffer(offer)
            linked == IF offer.merchant \in DOMAIN links THEN links[offer.merchant] ELSE None
<1>1. /\ offer.chip \in Texts /\ offer.title \in Texts /\ offer.body \in Texts
      /\ offer.hint \in Types \cup {"none"} /\ offer.number \in Values
      /\ offer.code \in DOMAIN Upper \cup {None}
  BY OffersAre
<1>2. linked \in {None} \cup {Links[m] : m \in DOMAIN Links}
  <2>1. CASE links = <<>>
    BY <2>1
  <2>2. CASE links = Links
    BY <2>2
  <2>. QED  BY <2>1, <2>2
<1>. HIDE DEF linked
<1>3. ASSUME offer.merchant # None, NEW code \in {None, offer.code}, NEW text \in RawTexts, NEW label \in Labels
      PROVE  Raw(offer, code, text, label) \in Raws
  BY <1>1, <1>3, RawIsRaw DEF Raw
<1>4. ASSUME NEW raw \in Raws, NEW ends \in {None, offer.ends}, NEW link \in {None, offer.link, linked}
      PROVE  /\ [raw EXCEPT !.ends = ends, !.link = link] \in Raws
             /\ [raw EXCEPT !.ends = ends] \in Raws
             /\ [raw EXCEPT !.link = link] \in Raws
             /\ [raw EXCEPT !.reveal = TRUE] \in Raws
  <2>1. ends \in {None} \cup {o.ends : o \in Offers}
    OBVIOUS
  <2>2. link \in {None} \cup {o.link : o \in Offers} \cup {Links[m] : m \in DOMAIN Links}
    BY <1>2
  <2>3. [raw EXCEPT !.ends = ends] \in Raws
    BY <2>1 DEF Raws
  <2>4. [raw EXCEPT !.link = link] \in Raws /\ [raw EXCEPT !.reveal = TRUE] \in Raws
    BY <2>2 DEF Raws
  <2>5. [raw EXCEPT !.ends = ends, !.link = link] \in Raws
    BY <2>2, <2>3 DEF Raws
  <2>. QED  BY <2>3, <2>4, <2>5
<1>5. \A t, u \in {offer.title, offer.chip, offer.body} :
        First(t, u) \in RawTexts /\ First(t, u) \in Texts /\ Join(t, u) \in Texts
  <2>. SUFFICES ASSUME NEW t \in {offer.title, offer.chip, offer.body},
                       NEW u \in {offer.title, offer.chip, offer.body}
                PROVE  First(t, u) \in RawTexts /\ First(t, u) \in Texts /\ Join(t, u) \in Texts
    OBVIOUS
  <2>1. t \in Texts /\ u \in Texts
    BY <1>1
  <2>2. t \in RawTexts /\ u \in RawTexts
    BY OfferTexts
  <2>. QED  BY <2>1, <2>2, TextOps
<1>6. offer.body \in RawTexts /\ MaskCurrency(offer.body) \in RawTexts
  BY OfferTexts
<1>7. CASE source = "Cuelinks"
  <2>. DEFINE text == First(offer.title, offer.body)
              label == MapDiscount(offer.hint, Join(offer.title, offer.body))
  <2>1. mapped = CuelinksOffer(offer)
    BY <1>7 DEF MapOffer
  <2>2. text \in RawTexts
    BY <1>5
  <2>3. label \in Labels
    BY <1>1, <1>5, MappedIsLabel
  <2>4. CuelinksOffer(offer) = Nothing \/ (offer.merchant # None /\ CuelinksOffer(offer) = Raw(offer, offer.code, text, label))
    BY DEF CuelinksOffer
  <2>. HIDE DEF text, label, mapped
  <2>. QED  BY <1>3, <2>1, <2>2, <2>3, <2>4 DEF mapped
<1>8. CASE source = "Involve Asia"
  <2>. DEFINE text == First(offer.title, offer.body)
              label == MapDiscount(offer.hint, Join(offer.title, offer.body))
  <2>1. mapped = InvolveAsiaOffer(offer)
    BY <1>8 DEF MapOffer
  <2>2. text \in RawTexts
    BY <1>5
  <2>3. label \in Labels
    BY <1>1, <1>5, MappedIsLabel
  <2>4. InvolveAsiaOffer(offer) = Nothing \/ (offer.merchant # None /\ InvolveAsiaOffer(offer) = Raw(offer, offer.code, text, label))
    BY DEF InvolveAsiaOffer
  <2>. HIDE DEF text, label, mapped
  <2>. QED  BY <1>3, <2>1, <2>2, <2>3, <2>4 DEF mapped
<1>9. CASE source = "Feedico"
  <2>. DEFINE text == First(offer.title, offer.body)
              label == ParseDiscount(Join(offer.title, offer.body))
  <2>1. mapped = FeedicoOffer(offer)
    BY <1>9 DEF MapOffer
  <2>2. text \in RawTexts
    BY <1>5
  <2>3. label \in Labels
    BY <1>1, <1>5, ParsedIsLabel
  <2>4. FeedicoOffer(offer) = Nothing \/ (offer.merchant # None /\ FeedicoOffer(offer) = Raw(offer, offer.code, text, label))
    BY DEF FeedicoOffer
  <2>. HIDE DEF text, label, mapped
  <2>. QED  BY <1>3, <2>1, <2>2, <2>3, <2>4 DEF mapped
<1>10. CASE source = "Admitad"
  <2>. DEFINE text == First(offer.body, offer.title)
              label == ParseDiscount(Join(offer.chip, Join(offer.title, offer.body)))
              code == IF site THEN offer.code ELSE None
              link == IF site THEN offer.link ELSE None
  <2>1. mapped = AdmitadCoupon(offer, site)
    BY <1>10 DEF MapOffer
  <2>2. Join(offer.chip, Join(offer.title, offer.body)) \in Texts
    BY <1>1, <1>5, TextOps
  <2>3. label \in Labels
    BY <2>2, ParsedIsLabel
  <2>4. text \in RawTexts
    BY <1>5
  <2>5. \/ AdmitadCoupon(offer, site) = Nothing
        \/ /\ offer.merchant # None
           /\ AdmitadCoupon(offer, site)
                = [Raw(offer, code, text, label) EXCEPT !.ends = offer.ends, !.link = link]
    BY DEF AdmitadCoupon
  <2>6. code \in {None, offer.code} /\ link \in {None, offer.link, linked}
    OBVIOUS
  <2>. HIDE DEF text, label, code, link, mapped
  <2>7. offer.merchant # None => [Raw(offer, code, text, label) EXCEPT !.ends = offer.ends, !.link = link] \in Raws
    BY <1>3, <1>4, <2>3, <2>4, <2>6
  <2>. QED  BY <2>1, <2>5, <2>7 DEF mapped
<1>11. CASE source = "vCommission"
  <2>. DEFINE text == First(offer.body, offer.title)
  <2>1. text \in RawTexts /\ text \in Texts
    BY <1>5
  <2>2. ParseDiscount(offer.body) \in Labels /\ ParseDiscount(text) \in Labels
    BY <1>1, <2>1, ParsedIsLabel
  <2>3. \/ VCommissionCoupon(offer, links) = Nothing
        \/ /\ offer.merchant # None
           /\ VCommissionCoupon(offer, links)
                = [Raw(offer, offer.code, offer.body, ParseDiscount(offer.body)) EXCEPT !.link = linked]
    BY DEF VCommissionCoupon, linked
  <2>4. \/ VCommissionDeal(offer, links) = Nothing
        \/ /\ offer.merchant # None
           /\ VCommissionDeal(offer, links)
                = [Raw(offer, None, text, ParseDiscount(text)) EXCEPT !.link = linked]
    BY DEF VCommissionDeal, linked
  <2>. HIDE DEF text
  <2>5. VCommissionCoupon(offer, links) \in Raws \cup {Nothing}
    BY <1>3, <1>4, <1>6, <2>2, <2>3
  <2>6. VCommissionDeal(offer, links) \in Raws \cup {Nothing}
    BY <1>3, <1>4, <2>1, <2>2, <2>4
  <2>. QED  BY <1>11, <2>5, <2>6 DEF MapOffer
<1>12. CASE source = "INRDeals"
  <2>. DEFINE text == First(offer.title, offer.chip)
              label == ParseDiscount(Join(offer.chip, offer.title))
  <2>1. mapped = InrdealsCoupon(offer)
    BY <1>12 DEF MapOffer
  <2>2. text \in RawTexts
    BY <1>5
  <2>3. label \in Labels
    BY <1>1, <1>5, ParsedIsLabel
  <2>4. InrdealsCoupon(offer) = Nothing \/ (offer.merchant # None /\ InrdealsCoupon(offer) = Raw(offer, offer.code, text, label))
    BY DEF InrdealsCoupon
  <2>. HIDE DEF text, label, mapped
  <2>. QED  BY <1>3, <2>1, <2>2, <2>3, <2>4 DEF mapped
<1>13. CASE source = "Desidime"
  <2>. DEFINE text == First(offer.body, offer.title)
              label == ParseDiscount(First(offer.chip, offer.title))
  <2>1. mapped = DesidimeCard(offer)
    BY <1>13 DEF MapOffer
  <2>2. text \in RawTexts
    BY <1>5
  <2>3. label \in Labels
    BY <1>5, ParsedIsLabel
  <2>4. \/ DesidimeCard(offer) = Nothing
        \/ /\ offer.merchant # None
           /\ DesidimeCard(offer) = [Raw(offer, None, text, label) EXCEPT !.reveal = TRUE]
    BY DEF DesidimeCard
  <2>. HIDE DEF text, label, mapped
  <2>. QED  BY <1>3, <1>4, <2>1, <2>2, <2>3, <2>4 DEF mapped
<1>14. CASE source = "LinkMyDeals"
  <2>. DEFINE text == First(offer.title, offer.body)
              label == MapDiscountValue(offer.hint, Join(offer.body, offer.title), offer.number)
  <2>1. mapped = LinkMyDealsOffer(offer)
    BY <1>14 DEF MapOffer
  <2>2. text \in RawTexts
    BY <1>5
  <2>3. label \in Labels
    BY <1>1, <1>5, MappedIsLabel
  <2>4. LinkMyDealsOffer(offer) = Nothing \/ (offer.merchant # None /\ LinkMyDealsOffer(offer) = Raw(offer, offer.code, text, label))
    BY DEF LinkMyDealsOffer
  <2>. HIDE DEF text, label, mapped
  <2>. QED  BY <1>3, <2>1, <2>2, <2>3, <2>4 DEF mapped
<1>15. CASE source = "Editorial curation"
  <2>. DEFINE code == IF Keep(offer) = "code" THEN offer.code ELSE None
              text == ComposeDescription(offer)
              label == EditorialDiscount(offer.title)
  <2>1. mapped = EditorialRow(offer)
    BY <1>15 DEF MapOffer
  <2>2. text \in RawTexts
    BY <1>6 DEF ComposeDescription
  <2>3. label \in Labels
    BY <1>1, ParsedIsLabel
  <2>4. Keep(offer) # "skip" => offer.merchant # None
    BY OffersAre
  <2>5. \/ EditorialRow(offer) = Nothing
        \/ /\ Keep(offer) # "skip"
           /\ EditorialRow(offer) = [Raw(offer, code, text, label) EXCEPT !.ends = offer.ends]
    BY DEF EditorialRow
  <2>6. code \in {None, offer.code}
    OBVIOUS
  <2>. HIDE DEF code, text, label, mapped
  <2>7. offer.merchant # None => [Raw(offer, code, text, label) EXCEPT !.ends = offer.ends] \in Raws
    BY <1>3, <1>4, <2>2, <2>3, <2>6
  <2>. QED  BY <2>1, <2>4, <2>5, <2>7 DEF mapped
<1>. QED  BY <1>7, <1>8, <1>9, <1>10, <1>11, <1>12, <1>13, <1>14, <1>15 DEF Sources, Paged

----------------------------------------------------------------------------
(* The label of one reading, reconciled with its text.                     *)

LEMMA RawTextsAreTexts == RawTexts \subseteq Texts
<1>1. \A offer \in Offers : {offer.chip, offer.title, offer.body} \subseteq Texts
  BY BatchAssumption
<1>2. \A t \in Texts : MaskCurrency(t) \in Texts
  BY DEF MaskCurrency, Texts, Values
<1>. QED  BY <1>1, <1>2 DEF RawTexts

LEMMA Sanitized ==
  ASSUME NEW l \in Labels, NEW t \in Texts
  PROVE  LET s == SanitizeDiscount(l, t)
         IN /\ s \in Labels
            /\ s.type = "percentage" => Plausible(s.value)
            /\ s.type = "fixed" => s.value # 0
            /\ Named(t) # "unknown" => s.type = Named(t)
            /\ Named(t) = "percentage" => s.value = t.pct
            /\ Named(t) = "fixed" => s.value = t.rup
<1>. DEFINE Fine(s) ==
       /\ s \in Labels
       /\ s.type = "percentage" => Plausible(s.value)
       /\ s.type = "fixed" => s.value # 0
       /\ Named(t) # "unknown" => s.type = Named(t)
       /\ Named(t) = "percentage" => s.value = t.pct
       /\ Named(t) = "fixed" => s.value = t.rup
<1>. SUFFICES Fine(SanitizeDiscount(l, t))
  OBVIOUS
<1>1. /\ t.pct \in Nat \cup {NoValue} /\ t.rup \in Nat \cup {NoValue}
      /\ l.type \in Types /\ l.value \in Nat \cup {NoValue}
  BY DEF Texts, Labels, Values
<1>2. \A type \in Types, value \in Nat \cup {NoValue} :
        Label(type, value) \in Labels /\ Label(type, value).type = type /\ Label(type, value).value = value
  BY DEF Label, Labels, Values
<1>3. {"free_shipping", "cashback", "bogo", "percentage", "fixed", "unknown"} \subseteq Types
  BY DEF Types
<1>4. NoValue \in Nat \cup {NoValue} /\ ~Plausible(NoValue) /\ NoValue = -1
  BY DEF NoValue, Plausible
<1>. DEFINE cashback == "cashback" \in t.words
            bogo == "bogo" \in t.words
            shipping == "shipping" \in t.words /\ t.pct = NoValue /\ t.rup = NoValue
            silent == ~cashback /\ ~bogo /\ ~shipping /\ ~Plausible(t.pct) /\ ~(t.rup > 0)
            nonsense == (l.type = "percentage" /\ ~Plausible(l.value)) \/ (l.type = "fixed" /\ l.value = 0)
<1>5. ASSUME cashback PROVE Fine(SanitizeDiscount(l, t))
  <2>. DEFINE value == IF Plausible(t.pct) THEN t.pct ELSE NoValue
  <2>1. SanitizeDiscount(l, t) = Label("cashback", value)
    BY <1>5 DEF SanitizeDiscount
  <2>2. Named(t) = "cashback"
    BY <1>5 DEF Named
  <2>3. value \in Nat \cup {NoValue}
    BY <1>1, <1>4
  <2>. HIDE DEF value
  <2>4. Fine(Label("cashback", value))
    BY <1>2, <1>3, <2>2, <2>3
  <2>. QED  BY <2>1, <2>4
<1>6. ASSUME bogo, ~cashback PROVE Fine(SanitizeDiscount(l, t))
  <2>1. SanitizeDiscount(l, t) = Label("bogo", NoValue)
    BY <1>6 DEF SanitizeDiscount
  <2>2. Named(t) = "bogo"
    BY <1>6 DEF Named
  <2>3. Fine(Label("bogo", NoValue))
    BY <1>2, <1>3, <1>4, <2>2
  <2>. QED  BY <2>1, <2>3
<1>7. ASSUME shipping, ~bogo, ~cashback PROVE Fine(SanitizeDiscount(l, t))
  <2>1. SanitizeDiscount(l, t) = Label("free_shipping", NoValue)
    BY <1>7 DEF SanitizeDiscount
  <2>2. ~Plausible(t.pct) /\ ~(t.rup > 0) /\ t.words \cap {"cashback", "bogo"} = {}
    BY <1>4, <1>7
  <2>3. Named(t) = "free_shipping"
    BY <1>7, <2>2 DEF Named
  <2>4. Fine(Label("free_shipping", NoValue))
    BY <1>2, <1>3, <1>4, <2>3
  <2>. QED  BY <2>1, <2>4
<1>8. ASSUME Plausible(t.pct), ~bogo, ~cashback PROVE Fine(SanitizeDiscount(l, t))
  <2>1. ~shipping /\ t.pct # NoValue /\ t.words \cap {"cashback", "bogo"} = {}
    BY <1>4, <1>8
  <2>2. SanitizeDiscount(l, t) = Label("percentage", t.pct)
    BY <1>8, <2>1 DEF SanitizeDiscount
  <2>3. Named(t) = "percentage"
    BY <1>8, <2>1 DEF Named
  <2>4. Fine(Label("percentage", t.pct))
    BY <1>1, <1>2, <1>3, <1>8, <2>3
  <2>. QED  BY <2>2, <2>4
<1>9. ASSUME t.rup > 0, ~Plausible(t.pct), ~bogo, ~cashback PROVE Fine(SanitizeDiscount(l, t))
  <2>1. ~shipping /\ t.rup # NoValue /\ t.rup # 0 /\ t.words \cap {"cashback", "bogo"} = {}
    BY <1>1, <1>4, <1>9
  <2>2. SanitizeDiscount(l, t) = Label("fixed", t.rup)
    BY <1>9, <2>1 DEF SanitizeDiscount
  <2>3. Named(t) = "fixed"
    BY <1>9, <2>1 DEF Named
  <2>4. Fine(Label("fixed", t.rup))
    BY <1>1, <1>2, <1>3, <2>1, <2>3
  <2>. QED  BY <2>2, <2>4
<1>10. ASSUME silent PROVE Fine(SanitizeDiscount(l, t))
  <2>1. Named(t) = "unknown"
    BY <1>10 DEF Named
  <2>2. \/ nonsense /\ SanitizeDiscount(l, t) = Label("unknown", NoValue)
        \/ l.type \in {"free_shipping", "bogo"} /\ SanitizeDiscount(l, t) = Label(l.type, NoValue)
        \/ ~nonsense /\ SanitizeDiscount(l, t) = l
    BY <1>10 DEF SanitizeDiscount
  <2>3. Fine(Label("unknown", NoValue)) /\ Fine(Label("bogo", NoValue)) /\ Fine(Label("free_shipping", NoValue))
    BY <1>2, <1>3, <1>4, <2>1
  <2>4. ~nonsense => Fine(l)
    BY <2>1
  <2>. QED  BY <2>2, <2>3, <2>4
<1>. QED  BY <1>5, <1>6, <1>7, <1>8, <1>9, <1>10

----------------------------------------------------------------------------
(* Merchants.                                                              *)

LEMMA SetHasLeast ==
  ASSUME NEW T \in SUBSET Nat, T # {}
  PROVE  \E x \in T : \A y \in T : x <= y
<1>1. PICK x \in T : \A y \in T : ~(<<y, x>> \in OpToRel(<, Nat))
  BY NatLessThanWellFounded, WFMin, Zenon
<1>2. ASSUME NEW y \in T PROVE x <= y
  <2>1. <<y, x>> \in Nat \X Nat
    OBVIOUS
  <2>2. ~(y < x)
    BY <1>1, <2>1 DEF OpToRel
  <2>. QED  BY <2>2
<1>. QED  BY <1>2

LEMMA HasLeast ==
  ASSUME NEW T, T # {}, NEW f, \A k \in T : f[k] \in Nat
  PROVE  \E x \in T : \A y \in T : f[x] <= f[y]
<1>. DEFINE V == {f[k] : k \in T}
<1>1. V \in SUBSET Nat /\ V # {}
  OBVIOUS
<1>. HIDE DEF V
<1>2. PICK v \in V : \A y \in V : v <= y
  BY <1>1, SetHasLeast
<1>. QED  BY <1>2 DEF V

Registrations == [key : Keys, name : DOMAIN Key]

KnownOk(known) ==
  /\ known \in Seq(Registrations)
  /\ \A i \in DOMAIN known : known[i].key = Key[known[i].name]

LEMMA KeysAre ==
  /\ \A name \in DOMAIN Key : Key[name] # NoKey => Key[name] \in Keys
  /\ NoKey \notin Keys
  /\ \A k, l \in Keys : Score[<<k, l>>] \in Nat /\ Score[<<k, l>>] <= 100
<1>1. Score \in [Keys \X Keys -> 0 .. 100]
  BY KeyAssumption
<1>2. \A k, l \in Keys : Score[<<k, l>>] \in 0 .. 100
  <2>. HIDE DEF Keys
  <2>. QED  BY <1>1
<1>3. \A k, l \in Keys : Score[<<k, l>>] \in Nat /\ Score[<<k, l>>] <= 100
  <2>1. \A n \in 0 .. 100 : n \in Nat /\ n <= 100
    OBVIOUS
  <2>. QED  BY <1>2, <2>1
<1>4. (\A name \in DOMAIN Key : Key[name] # NoKey => Key[name] \in Keys) /\ NoKey \notin Keys
  BY DEF Keys
<1>. QED  BY <1>3, <1>4

LEMMA KnownEntry ==
  ASSUME NEW known, KnownOk(known), NEW i \in DOMAIN known
  PROVE  known[i].key \in Keys /\ known[i].name \in DOMAIN Key /\ known[i].key = Key[known[i].name]
<1>1. known[i] \in Registrations
  BY DEF KnownOk
<1>. QED  BY <1>1 DEF KnownOk, Registrations

(* There is a first one of the most alike.                                 *)
LEMMA BestIsKnown ==
  ASSUME NEW known, KnownOk(known), known # <<>>, NEW k \in Keys
  PROVE  Best(k, known) \in DOMAIN known
<1>. DEFINE D == DOMAIN known
            score == [i \in D |-> Score[<<k, known[i].key>>]]
            unlike == [i \in D |-> 100 - score[i]]
<1>1. D = 1 .. Len(known) /\ Len(known) \in Nat /\ D # {}
  BY DEF KnownOk
<1>2. \A i \in D : known[i].key \in Keys
  BY KnownEntry
<1>4. ASSUME NEW i \in D PROVE score[i] \in Nat /\ unlike[i] \in Nat
  <2>1. known[i].key \in Keys
    BY <1>2
  <2>2. Score[<<k, known[i].key>>] \in Nat /\ Score[<<k, known[i].key>>] <= 100
    BY <2>1, KeysAre
  <2>. QED  BY <2>2
<1>5. PICK a \in D : \A j \in D : unlike[a] <= unlike[j]
  <2>. HIDE DEF D, unlike
  <2>. QED  BY <1>1, <1>4, HasLeast
<1>. DEFINE A == {i \in D : score[i] = score[a]}
<1>6. PICK b \in A : \A j \in A : b <= j
  <2>1. A \in SUBSET Nat /\ A # {}
    BY <1>1
  <2>. HIDE DEF A
  <2>. QED  BY <2>1, SetHasLeast
<1>7. ASSUME NEW j \in D
      PROVE  \/ Score[<<k, known[j].key>>] < Score[<<k, known[b].key>>]
             \/ Score[<<k, known[j].key>>] = Score[<<k, known[b].key>>] /\ b <= j
  <2>1. b \in D /\ score[b] = score[a] /\ score[j] <= score[a]
    <3>1. b \in D /\ score[b] = score[a]
      BY <1>6
    <3>2. unlike[a] <= unlike[j] /\ score[a] \in Nat /\ score[j] \in Nat
      BY <1>4, <1>5
    <3>3. unlike[a] = 100 - score[a] /\ unlike[j] = 100 - score[j]
      OBVIOUS
    <3>. HIDE DEF D, score, unlike
    <3>4. score[j] <= score[a]
      BY <3>2, <3>3
    <3>. QED  BY <3>1, <3>4
  <2>2. score[j] = score[a] => b <= j
    BY <1>6
  <2>3. score[j] = Score[<<k, known[j].key>>] /\ score[b] = Score[<<k, known[b].key>>]
    BY <2>1
  <2>. QED  BY <1>4, <2>1, <2>2, <2>3
<1>8. b \in D
  BY <1>6
<1>. QED  BY <1>7, <1>8 DEF Best

LEMMA MatchIsNear ==
  ASSUME NEW known, KnownOk(known), NEW name \in DOMAIN Key
  PROVE  /\ MatchCanonicalMerchant(name, known) \in DOMAIN Key
         /\ Near(Key[name], Key[MatchCanonicalMerchant(name, known)])
<1>. DEFINE k == Key[name]
            b == Best(k, known)
            match == MatchCanonicalMerchant(name, known)
<1>1. match = name \/ (k # NoKey /\ known # <<>> /\ ~(Score[<<k, known[b].key>>] < Threshold) /\ match = known[b].name)
  BY DEF MatchCanonicalMerchant
<1>2. CASE match = name
  BY <1>2 DEF Near
<1>3. CASE k # NoKey /\ known # <<>> /\ ~(Score[<<k, known[b].key>>] < Threshold) /\ match = known[b].name
  <2>1. k \in Keys
    BY <1>3, KeysAre
  <2>2. b \in DOMAIN known
    BY <1>3, <2>1, BestIsKnown
  <2>. HIDE DEF b, k
  <2>4. known[b].key \in Keys /\ known[b].name \in DOMAIN Key /\ known[b].key = Key[known[b].name]
    BY <2>2, KnownEntry
  <2>5. Score[<<k, known[b].key>>] \in Nat
    BY <2>1, <2>4, KeysAre
  <2>6. Score[<<k, known[b].key>>] >= Threshold
    BY <1>3, <2>5 DEF Threshold
  <2>. QED  BY <1>3, <2>1, <2>4, <2>6, KeysAre DEF Near, k
<1>. QED  BY <1>1, <1>2, <1>3

LEMMA RegisteredIsOk ==
  ASSUME NEW known, KnownOk(known), NEW name \in DOMAIN Key
  PROVE  KnownOk(Registered(name, known))
<1>. DEFINE new == [key |-> Key[name], name |-> name]
<1>1. CASE Registered(name, known) = known
  BY <1>1
<1>2. CASE Key[name] # NoKey /\ Registered(name, known) = Append(known, new)
  <2>1. new \in Registrations /\ new.key = Key[new.name]
    BY <1>2, KeysAre DEF Registrations
  <2>. HIDE DEF new
  <2>. QED  BY <1>2, <2>1 DEF KnownOk
<1>. QED  BY <1>1, <1>2 DEF Registered

----------------------------------------------------------------------------
(* Rows.                                                                   *)

Merchants == {Key[name] : name \in DOMAIN Key}
Codes == {NormalizeCode(code) : code \in {None} \cup DOMAIN Upper}
Refs == {offer.ref : offer \in Offers}
Ends == {None} \cup {offer.ends : offer \in Offers}

BatchRows == [merchant : Merchants, code : Codes, ref : Refs, reveal : BOOLEAN,
              text : RawTexts, label : Labels, ends : Ends, sources : Seq(Raws)]

LEMMA RawFields ==
  ASSUME NEW raw \in Raws
  PROVE  /\ raw.merchant \in DOMAIN Key /\ raw.code \in {None} \cup DOMAIN Upper
         /\ raw.ref \in Refs /\ raw.reveal \in BOOLEAN /\ raw.text \in RawTexts
         /\ raw.label \in Labels /\ raw.ends \in Ends
<1>. DEFINE Shown == {None} \cup {offer.link : offer \in Offers} \cup {Links[m] : m \in DOMAIN Links}
<1>1. Raws = [merchant : DOMAIN Key, code : {None} \cup DOMAIN Upper, ref : Refs, reveal : BOOLEAN,
              text : RawTexts, label : Labels, ends : Ends, link : Shown]
  BY DEF Raws, Refs, RawTexts, Labels, Ends
<1>. HIDE DEF Shown
<1>. QED  BY <1>1

(* What a reader of the text takes the offer for is what the row says.     *)
Follows(row) ==
  LET t == row.sources[1].text
  IN Named(t) # "unknown" =>
       /\ row.text = t
       /\ row.label.type = Named(t)
       /\ row.label.type = "percentage" => row.label.value = t.pct
       /\ row.label.type = "fixed" => row.label.value = t.rup

Odd(raw) ==
  LET l == SanitizeDiscount(raw.label, raw.text)
  IN l.value = 0 \/ (l.type = "unknown" /\ l.value # NoValue)

(* A label that no odd reading went into: a typed duplicate can complete   *)
(* it without making it absurd.                                            *)
Sane(label) ==
  /\ label.value # 0
  /\ label.type = "unknown" => label.value = NoValue
  /\ label.type = "percentage" => Plausible(label.value)

SourceOf(raw, row) ==
  /\ Identified(raw)
  /\ NormalizeCode(raw.code) = row.code
  /\ Near(Key[raw.merchant], row.merchant)

Sound(row) ==
  /\ row \in BatchRows
  /\ row.sources # <<>>
  /\ \A j \in DOMAIN row.sources : SourceOf(row.sources[j], row)
  /\ Follows(row)
  /\ (\A j \in DOMAIN row.sources : ~Odd(row.sources[j])) => Sane(row.label)

LEMMA NamedSilent == Named(NoText) = "unknown"
  BY DEF Named, NoText, NoValue, Plausible

LEMMA NamedTells ==
  ASSUME NEW t \in Texts
  PROVE  /\ Named(t) = "percentage" => Plausible(t.pct) /\ t.pct # NoValue
         /\ Named(t) = "fixed" => t.rup > 0 /\ t.rup # NoValue
  BY DEF Named, NoValue, Plausible, Texts, Values

LEMMA RowIsSound ==
  ASSUME NEW known, KnownOk(known), NEW raw \in Raws, Identified(raw)
  PROVE  Sound(Row(raw, known)) /\ Row(raw, known).sources = <<raw>>
<1>. DEFINE merchant == Key[MatchCanonicalMerchant(raw.merchant, known)]
            code == NormalizeCode(raw.code)
            label == SanitizeDiscount(raw.label, raw.text)
            reveal == raw.reveal \/ NormalizeCode(raw.code) = None
            row == Row(raw, known)
<1>1. /\ raw.text \in RawTexts /\ raw.text \in Texts /\ raw.label \in Labels
      /\ raw.ref \in Refs /\ raw.ends \in Ends
  BY RawFields, RawTextsAreTexts
<1>2. merchant \in Merchants /\ Near(Key[raw.merchant], merchant)
  BY RawFields, MatchIsNear DEF Merchants
<1>3. code \in Codes
  BY RawFields DEF Codes
<1>4. reveal \in BOOLEAN
  BY RawFields
<1>5. /\ label \in Labels
      /\ label.type = "percentage" => Plausible(label.value)
      /\ Named(raw.text) # "unknown" => label.type = Named(raw.text)
      /\ Named(raw.text) = "percentage" => label.value = raw.text.pct
      /\ Named(raw.text) = "fixed" => label.value = raw.text.rup
  BY <1>1, Sanitized
<1>6. <<raw>> \in Seq(Raws) /\ <<raw>> # <<>> /\ DOMAIN <<raw>> = {1} /\ <<raw>>[1] = raw
  <2>. HIDE DEF Raws
  <2>. QED  OBVIOUS
<1>7. Odd(raw) <=> label.value = 0 \/ (label.type = "unknown" /\ label.value # NoValue)
  BY DEF Odd
<1>8. row = [merchant |-> merchant, code |-> code, ref |-> raw.ref, reveal |-> reveal,
             text |-> raw.text, label |-> label, ends |-> raw.ends, sources |-> <<raw>>]
  BY DEF Row
<1>9. code = NormalizeCode(raw.code)
  OBVIOUS
<1>. HIDE DEF merchant, code, label, reveal, row
<1>10. row \in BatchRows
  BY <1>1, <1>2, <1>3, <1>4, <1>5, <1>6, <1>8 DEF BatchRows
<1>11. /\ row.sources = <<raw>> /\ row.text = raw.text /\ row.label = label
       /\ row.code = code /\ row.merchant = merchant
  BY <1>8
<1>12. SourceOf(raw, row)
  BY <1>2, <1>9, <1>11 DEF SourceOf
<1>13. Follows(row)
  BY <1>5, <1>6, <1>11 DEF Follows
<1>14. ~Odd(raw) => Sane(row.label)
  BY <1>5, <1>7, <1>11 DEF Sane
<1>. QED  BY <1>6, <1>10, <1>11, <1>12, <1>13, <1>14 DEF Sound, row

LEMMA SameIdentity ==
  ASSUME NEW r, NEW s, Identity(r) = Identity(s)
  PROVE  r.merchant = s.merchant /\ r.code = s.code
  BY DEF Identity

LEMMA MergedIsSound ==
  ASSUME NEW old, Sound(old), NEW new, Sound(new), NEW raw \in Raws, new.sources = <<raw>>,
         Identity(old) = Identity(new)
  PROVE  LET merged == Merge(old, new)
         IN /\ Sound(merged) /\ Identity(merged) = Identity(old)
            /\ merged.sources = Append(old.sources, raw)
<1>. DEFINE text == First(old.text, new.text)
            label == MergeLabel(old.label, new.label)
            ends == IF old.ends = None THEN new.ends ELSE old.ends
            sources == old.sources \o new.sources
            merged == Merge(old, new)
<1>1. /\ old.text \in RawTexts /\ new.text \in RawTexts /\ old.label \in Labels /\ new.label \in Labels
      /\ old.ends \in Ends /\ new.ends \in Ends /\ old.sources \in Seq(Raws)
  <2>. HIDE DEF Raws
  <2>. QED  BY DEF Sound, BatchRows
<1>2. /\ sources = Append(old.sources, raw) /\ sources \in Seq(Raws)
      /\ Len(sources) = Len(old.sources) + 1 /\ Len(old.sources) \in Nat
      /\ DOMAIN sources = 1 .. Len(old.sources) + 1 /\ DOMAIN old.sources = 1 .. Len(old.sources)
      /\ sources[Len(old.sources) + 1] = raw
      /\ \A j \in DOMAIN old.sources : sources[j] = old.sources[j]
  <2>. HIDE DEF Raws
  <2>. QED  BY <1>1
<1>3. text \in RawTexts
  BY <1>1, TextOps, RawTextsAreTexts
<1>4. label.type \in Types /\ label.value \in Values /\ label \in Labels
  BY <1>1 DEF MergeLabel, Labels
<1>5. ends \in Ends
  BY <1>1
<1>6. merged = [old EXCEPT !.text = text, !.label = label, !.ends = ends, !.sources = sources]
  BY DEF Merge
<1>7. /\ text = IF old.text # NoText THEN old.text ELSE new.text
      /\ label.type = IF old.label.type = "unknown" THEN new.label.type ELSE old.label.type
      /\ label.value = IF old.label.value = NoValue THEN new.label.value ELSE old.label.value
  BY DEF First, MergeLabel
<1>. HIDE DEF text, label, ends, sources, merged
<1>8. old \in BatchRows
  BY DEF Sound
<1>9. /\ merged \in BatchRows
      /\ merged.merchant = old.merchant /\ merged.code = old.code /\ merged.ref = old.ref
      /\ merged.text = text /\ merged.label = label /\ merged.sources = sources
  <2>1. sources \in Seq(Raws)
    BY <1>2
  <2>. DEFINE RawLists == Seq(Raws)
  <2>2. BatchRows = [merchant : Merchants, code : Codes, ref : Refs, reveal : BOOLEAN,
                     text : RawTexts, label : Labels, ends : Ends, sources : RawLists]
    BY DEF BatchRows
  <2>3. sources \in RawLists
    BY <2>1
  <2>. HIDE DEF RawLists
  <2>. QED  BY <1>3, <1>4, <1>5, <1>6, <1>8, <2>2, <2>3
<1>10. Identity(merged) = Identity(old)
  BY <1>9 DEF Identity
<1>11. ASSUME NEW j \in DOMAIN sources PROVE SourceOf(sources[j], merged)
  <2>1. CASE j \in DOMAIN old.sources
    <3>1. SourceOf(old.sources[j], old)
      BY <2>1 DEF Sound
    <3>. QED  BY <1>2, <1>9, <2>1, <3>1 DEF SourceOf
  <2>2. CASE j \notin DOMAIN old.sources
    <3>1. sources[j] = raw
      BY <1>2, <2>2
    <3>2. SourceOf(raw, new)
      <4>1. 1 \in DOMAIN new.sources /\ new.sources[1] = raw
        OBVIOUS
      <4>. QED  BY <4>1 DEF Sound
    <3>. QED  BY <1>9, <3>1, <3>2, SameIdentity DEF SourceOf
  <2>. QED  BY <2>1, <2>2
<1>12. Follows(merged)
  <2>. DEFINE t == old.sources[1].text
  <2>1. 1 \in DOMAIN old.sources
    BY <1>1, <1>2 DEF Sound
  <2>2. sources[1] = old.sources[1]
    BY <1>2, <2>1
  <2>3. t \in Texts
    <3>1. old.sources[1] \in Raws
      <4>. HIDE DEF Raws
      <4>. QED  BY <1>1, <2>1
    <3>. QED  BY <3>1, RawFields, RawTextsAreTexts
  <2>4. Named(t) # "unknown" =>
          /\ old.text = t /\ old.label.type = Named(t)
          /\ old.label.type = "percentage" => old.label.value = t.pct
          /\ old.label.type = "fixed" => old.label.value = t.rup
    BY DEF Sound, Follows
  <2>. HIDE DEF t
  <2>5. Named(t) # "unknown" =>
          /\ text = t /\ label.type = Named(t)
          /\ label.type = "percentage" => label.value = t.pct
          /\ label.type = "fixed" => label.value = t.rup
    BY <1>7, <2>3, <2>4, NamedSilent, NamedTells
  <2>. QED  BY <1>9, <2>2, <2>5 DEF Follows, t
<1>13. ASSUME \A j \in DOMAIN sources : ~Odd(sources[j]) PROVE Sane(label)
  <2>1. Sane(old.label)
    <3>1. \A j \in DOMAIN old.sources : ~Odd(old.sources[j])
      BY <1>2, <1>13
    <3>. QED  BY <3>1 DEF Sound
  <2>2. Sane(new.label)
    <3>1. ~Odd(raw) /\ \A j \in DOMAIN new.sources : new.sources[j] = raw
      BY <1>2, <1>13
    <3>. QED  BY <3>1 DEF Sound
  <2>3. ~Plausible(NoValue)
    BY DEF Plausible, NoValue
  <2>. QED  BY <1>7, <2>1, <2>2, <2>3 DEF Sane
<1>14. sources # <<>>
  BY <1>2
<1>15. Sound(merged)
  BY <1>9, <1>11, <1>12, <1>13, <1>14 DEF Sound
<1>. QED  BY <1>2, <1>9, <1>10, <1>15 DEF merged

----------------------------------------------------------------------------
(* The batch.                                                              *)

Start == [known |-> <<>>, rows |-> <<>>]

(* The loop over the raw coupons is what it reads: no accumulator is       *)
(* missing.                                                                *)
LEMMA NormalizeDefined ==
  ASSUME NEW raws, Len(raws) \in Nat
  PROVE  \E after : /\ after[0] = Start
                    /\ \A n \in 1 .. Len(raws) : after[n] = Absorb(after[n - 1], raws[n])
                    /\ NormalizeAndDedupe(raws) = after[Len(raws)].rows
<1>. DEFINE Body(f, n) == IF n = 0 THEN Start ELSE Absorb(f[n - 1], raws[n])
            Defined(m) == \E f : f = [n \in 0 .. m |-> Body(f, n)]
            T == {m \in Nat : ~Defined(m)}
<1>1. \A m \in Nat : Defined(m)
  <2>. SUFFICES ASSUME T # {} PROVE FALSE
    OBVIOUS
  <2>1. PICK m \in T : \A k \in T : m <= k
    <3>. HIDE DEF T
    <3>. T \in SUBSET Nat
      BY DEF T
    <3>. QED  BY SetHasLeast
  <2>2. m # 0
    <3>. DEFINE f == [n \in 0 .. 0 |-> Start]
    <3>1. f = [n \in 0 .. 0 |-> Body(f, n)]
      OBVIOUS
    <3>2. Defined(0)
      BY <3>1
    <3>. QED  BY <2>1, <3>2
  <2>3. m - 1 \in Nat /\ m - 1 \notin T
    <3>1. m \in Nat
      BY <2>1
    <3>2. m - 1 \in Nat /\ ~(m <= m - 1)
      BY <2>2, <3>1
    <3>. HIDE DEF T
    <3>. QED  BY <2>1, <3>2
  <2>4. PICK g : g = [n \in 0 .. m - 1 |-> Body(g, n)]
    BY <2>3
  <2>. DEFINE h == [n \in 0 .. m |-> IF n = m THEN Absorb(g[m - 1], raws[m]) ELSE g[n]]
  <2>5. ASSUME NEW n \in 0 .. m PROVE h[n] = Body(h, n)
    <3>1. CASE n = m
      <4>1. m - 1 \in 0 .. m /\ m - 1 # m
        BY <2>3
      <4>. QED  BY <2>2, <3>1, <4>1
    <3>2. CASE n # m /\ n = 0
      <4>1. 0 \in 0 .. m - 1
        BY <2>3
      <4>2. g[0] = Start
        BY <2>4, <4>1
      <4>. QED  BY <3>2, <4>2
    <3>3. CASE n # m /\ n # 0
      <4>1. n \in 0 .. m - 1 /\ n - 1 \in 0 .. m /\ n - 1 # m
        BY <2>3, <3>3
      <4>2. g[n] = Absorb(g[n - 1], raws[n])
        BY <2>4, <3>3, <4>1
      <4>. QED  BY <3>3, <4>1, <4>2
    <3>. QED  BY <3>1, <3>2, <3>3
  <2>6. h = [n \in 0 .. m |-> Body(h, n)]
    <3>. HIDE DEF Body
    <3>. QED  BY <2>5
  <2>. QED  BY <2>1, <2>6
<1>2. PICK g : g = [n \in 0 .. Len(raws) |-> Body(g, n)]
  BY <1>1
<1>. DEFINE after == CHOOSE f : f = [n \in 0 .. Len(raws) |-> IF n = 0 THEN Start ELSE Absorb(f[n - 1], raws[n])]
<1>3. after = [n \in 0 .. Len(raws) |-> Body(after, n)]
  <2>. DEFINE P(f) == f = [n \in 0 .. Len(raws) |-> Body(f, n)]
  <2>1. \E f : P(f)
    BY <1>2
  <2>2. P(CHOOSE f : P(f))
    BY <2>1
  <2>. QED  BY <2>2
<1>4. NormalizeAndDedupe(raws) = after[Len(raws)].rows
  BY DEF NormalizeAndDedupe, Start
<1>. HIDE DEF after
<1>5. after[0] = Start
  BY <1>3
<1>6. ASSUME NEW n \in 1 .. Len(raws) PROVE after[n] = Absorb(after[n - 1], raws[n])
  BY <1>3, <1>6
<1>. QED  BY <1>4, <1>5, <1>6

(* After the first n readings.                                             *)
TimesOf(raws, n, raw) == {m \in 1 .. n : raws[m] = raw}

Kept(rows, raws, n) ==
  \A raw \in Raws : Identified(raw) =>
    /\ IsFiniteSet(Places(rows, raw))
    /\ Cardinality(Places(rows, raw)) = Cardinality(TimesOf(raws, n, raw))

Distinct(rows) == \A i, j \in DOMAIN rows : Identity(rows[i]) = Identity(rows[j]) => i = j

FromReadings(rows, raws, n) ==
  \A i \in DOMAIN rows : \A j \in DOMAIN rows[i].sources : \E m \in 1 .. n : rows[i].sources[j] = raws[m]

Accumulated(acc, raws, n) ==
  /\ KnownOk(acc.known)
  /\ acc.rows \in Seq(BatchRows)
  /\ \A i \in DOMAIN acc.rows : Sound(acc.rows[i])
  /\ Distinct(acc.rows)
  /\ FromReadings(acc.rows, raws, n)
  /\ Kept(acc.rows, raws, n)

Position(rows, at) ==
  /\ at = <<at[1], at[2]>>
  /\ at[1] \in DOMAIN rows
  /\ at[2] \in DOMAIN rows[at[1]].sources

LEMMA PlacesAre ==
  ASSUME NEW rows, NEW raw, NEW at
  PROVE  at \in Places(rows, raw) <=> Position(rows, at) /\ rows[at[1]].sources[at[2]] = raw
<1>. DEFINE all == UNION {{i} \X DOMAIN rows[i].sources : i \in DOMAIN rows}
<1>1. ASSUME at \in all PROVE Position(rows, at)
  <2>1. PICK i \in DOMAIN rows : at \in {i} \X DOMAIN rows[i].sources
    BY <1>1
  <2>. QED  BY <2>1 DEF Position
<1>2. ASSUME Position(rows, at) PROVE at \in all
  <2>1. at \in {at[1]} \X DOMAIN rows[at[1]].sources /\ at[1] \in DOMAIN rows
    BY <1>2 DEF Position
  <2>. QED  BY <2>1
<1>. QED  BY <1>1, <1>2 DEF Places

(* One reading more in one place more.                                     *)
LEMMA OnePlaceMore ==
  ASSUME NEW rows, NEW more, NEW i, NEW k, NEW raw,
         ~Position(rows, <<i, k>>),
         \A at : Position(more, at) <=> Position(rows, at) \/ at = <<i, k>>,
         \A at : Position(rows, at) => more[at[1]].sources[at[2]] = rows[at[1]].sources[at[2]],
         more[i].sources[k] = raw,
         NEW raws, NEW n \in Nat, raws[n + 1] = raw, Kept(rows, raws, n)
  PROVE  Kept(more, raws, n + 1)
<1>. SUFFICES ASSUME NEW r \in Raws, Identified(r)
              PROVE  /\ IsFiniteSet(Places(more, r))
                     /\ Cardinality(Places(more, r)) = Cardinality(TimesOf(raws, n + 1, r))
  BY DEF Kept
<1>1. /\ IsFiniteSet(Places(rows, r))
      /\ Cardinality(Places(rows, r)) = Cardinality(TimesOf(raws, n, r))
  BY DEF Kept
<1>2. IsFiniteSet(TimesOf(raws, n, r)) /\ n + 1 \notin TimesOf(raws, n, r)
  <2>1. TimesOf(raws, n, r) \in SUBSET (1 .. n) /\ IsFiniteSet(1 .. n)
    BY FS_Interval DEF TimesOf
  <2>. QED  BY <2>1, FS_Subset
<1>3. CASE r = raw
  <2>1. Places(more, r) = Places(rows, r) \cup {<<i, k>>}
    <3>1. ASSUME NEW at PROVE at \in Places(more, r) <=> at \in Places(rows, r) \/ at = <<i, k>>
      <4>1. CASE at = <<i, k>>
        <5>1. Position(more, at) /\ at[1] = i /\ at[2] = k
          BY <4>1
        <5>. QED  BY <1>3, <4>1, <5>1, PlacesAre
      <4>2. CASE at # <<i, k>>
        <5>1. Position(more, at) <=> Position(rows, at)
          BY <4>2
        <5>2. Position(rows, at) => more[at[1]].sources[at[2]] = rows[at[1]].sources[at[2]]
          OBVIOUS
        <5>. QED  BY <4>2, <5>1, <5>2, PlacesAre
      <4>. QED  BY <4>1, <4>2
    <3>. QED  BY <3>1
  <2>2. <<i, k>> \notin Places(rows, r)
    BY PlacesAre
  <2>3. TimesOf(raws, n + 1, r) = TimesOf(raws, n, r) \cup {n + 1}
    BY <1>3 DEF TimesOf
  <2>4. /\ IsFiniteSet(Places(rows, r) \cup {<<i, k>>})
        /\ Cardinality(Places(rows, r) \cup {<<i, k>>}) = Cardinality(Places(rows, r)) + 1
    BY <1>1, <2>2, FS_AddElement
  <2>5. Cardinality(TimesOf(raws, n, r) \cup {n + 1}) = Cardinality(TimesOf(raws, n, r)) + 1
    BY <1>2, FS_AddElement
  <2>. QED  BY <1>1, <2>1, <2>3, <2>4, <2>5
<1>4. CASE r # raw
  <2>1. Places(more, r) = Places(rows, r)
    <3>1. ASSUME NEW at PROVE at \in Places(more, r) <=> at \in Places(rows, r)
      <4>1. CASE at = <<i, k>>
        <5>1. Position(more, at) /\ at[1] = i /\ at[2] = k /\ ~Position(rows, at)
          BY <4>1
        <5>. QED  BY <1>4, <5>1, PlacesAre
      <4>2. CASE at # <<i, k>>
        <5>1. Position(more, at) <=> Position(rows, at)
          BY <4>2
        <5>2. Position(rows, at) => more[at[1]].sources[at[2]] = rows[at[1]].sources[at[2]]
          OBVIOUS
        <5>. QED  BY <5>1, <5>2, PlacesAre
      <4>. QED  BY <4>1, <4>2
    <3>2. Places(more, r) \subseteq Places(rows, r) /\ Places(rows, r) \subseteq Places(more, r)
      BY <3>1
    <3>. QED  BY <3>2
  <2>2. TimesOf(raws, n + 1, r) = TimesOf(raws, n, r)
    BY <1>4 DEF TimesOf
  <2>. QED  BY <1>1, <2>1, <2>2
<1>. QED  BY <1>3, <1>4

LEMMA SameRowsKept ==
  ASSUME NEW rows, NEW raws, NEW n \in Nat, ~Identified(raws[n + 1]), Kept(rows, raws, n)
  PROVE  Kept(rows, raws, n + 1)
<1>1. ASSUME NEW r \in Raws, Identified(r) PROVE TimesOf(raws, n + 1, r) = TimesOf(raws, n, r)
  BY <1>1 DEF TimesOf
<1>. QED  BY <1>1 DEF Kept

LEMMA FromMoreReadings ==
  ASSUME NEW rows, NEW raws, NEW n \in Nat, FromReadings(rows, raws, n)
  PROVE  FromReadings(rows, raws, n + 1)
BY DEF FromReadings

(* A reading of a new identity becomes a row of its own.                   *)
LEMMA AppendKeeps ==
  ASSUME NEW rows \in Seq(BatchRows), NEW row \in BatchRows, NEW raw \in Raws, row.sources = <<raw>>,
         \A i \in DOMAIN rows : Identity(rows[i]) # Identity(row),
         Distinct(rows), NEW raws, NEW n \in Nat, raws[n + 1] = raw,
         FromReadings(rows, raws, n), Kept(rows, raws, n)
  PROVE  LET more == Append(rows, row)
         IN Distinct(more) /\ FromReadings(more, raws, n + 1) /\ Kept(more, raws, n + 1)
<1>. DEFINE more == Append(rows, row)
            i == Len(rows) + 1
<1>1. /\ Len(rows) \in Nat /\ DOMAIN rows = 1 .. Len(rows) /\ DOMAIN more = 1 .. i
      /\ more[i] = row /\ \A j \in DOMAIN rows : more[j] = rows[j]
  <2>. HIDE DEF BatchRows
  <2>. QED  OBVIOUS
<1>2. DOMAIN row.sources = {1} /\ row.sources[1] = raw
  OBVIOUS
<1>. HIDE DEF more
<1>3. i \notin DOMAIN rows /\ DOMAIN more = DOMAIN rows \cup {i}
  BY <1>1
<1>. HIDE DEF i
<1>4. Distinct(more)
  BY <1>1, <1>3 DEF Distinct
<1>5. FromReadings(more, raws, n + 1)
  <2>. SUFFICES ASSUME NEW j \in DOMAIN more, NEW l \in DOMAIN more[j].sources
                PROVE  \E m \in 1 .. n + 1 : more[j].sources[l] = raws[m]
    BY DEF FromReadings
  <2>1. CASE j \in DOMAIN rows
    BY <1>1, <2>1 DEF FromReadings
  <2>2. CASE j = i
    <3>1. more[j].sources[l] = raw
      BY <1>1, <1>2, <2>2
    <3>2. n + 1 \in 1 .. n + 1
      OBVIOUS
    <3>. QED  BY <3>1, <3>2
  <2>. QED  BY <1>3, <2>1, <2>2
<1>6. Kept(more, raws, n + 1)
  <2>1. ~Position(rows, <<i, 1>>)
    BY <1>3 DEF Position
  <2>2. ASSUME NEW at PROVE Position(more, at) <=> Position(rows, at) \/ at = <<i, 1>>
    <3>1. CASE at[1] \in DOMAIN rows
      <4>1. more[at[1]] = rows[at[1]] /\ at[1] # i /\ at[1] \in DOMAIN more
        BY <1>1, <1>3, <3>1
      <4>2. at # <<i, 1>>
        BY <4>1
      <4>3. Position(more, at) <=> at = <<at[1], at[2]>> /\ at[2] \in DOMAIN rows[at[1]].sources
        BY <4>1 DEF Position
      <4>4. Position(rows, at) <=> at = <<at[1], at[2]>> /\ at[2] \in DOMAIN rows[at[1]].sources
        BY <3>1 DEF Position
      <4>. QED  BY <4>2, <4>3, <4>4
    <3>2. CASE at[1] = i
      <4>1. Position(more, at) <=> at = <<at[1], at[2]>> /\ at[2] \in DOMAIN more[i].sources
        BY <1>3, <3>2 DEF Position
      <4>2. at = <<i, 1>> <=> at = <<at[1], at[2]>> /\ at[2] = 1
        BY <3>2
      <4>3. ~Position(rows, at)
        BY <1>3, <3>2 DEF Position
      <4>4. more[i] = row
        BY <1>1
      <4>. QED  BY <1>2, <4>1, <4>2, <4>3, <4>4
    <3>3. CASE at[1] \notin DOMAIN rows /\ at[1] # i
      BY <1>3, <3>3 DEF Position
    <3>. QED  BY <3>1, <3>2, <3>3
  <2>3. ASSUME NEW at, Position(rows, at) PROVE more[at[1]].sources[at[2]] = rows[at[1]].sources[at[2]]
    BY <1>1, <2>3 DEF Position
  <2>4. more[i].sources[1] = raw
    BY <1>1, <1>2
  <2>. QED  BY <2>1, <2>2, <2>3, <2>4, OnePlaceMore
<1>. QED  BY <1>4, <1>5, <1>6 DEF more

(* A reading of an identity that has a row becomes one more of its sources.*)
LEMMA MergeKeeps ==
  ASSUME NEW rows \in Seq(BatchRows), NEW i \in DOMAIN rows, NEW raw \in Raws, NEW merged \in BatchRows,
         rows[i].sources \in Seq(Raws), merged.sources = Append(rows[i].sources, raw),
         Identity(merged) = Identity(rows[i]),
         Distinct(rows), NEW raws, NEW n \in Nat, raws[n + 1] = raw,
         FromReadings(rows, raws, n), Kept(rows, raws, n)
  PROVE  LET more == [rows EXCEPT ![i] = merged]
         IN Distinct(more) /\ FromReadings(more, raws, n + 1) /\ Kept(more, raws, n + 1)
<1>. DEFINE more == [rows EXCEPT ![i] = merged]
            k == Len(rows[i].sources) + 1
<1>1. /\ Len(rows[i].sources) \in Nat /\ DOMAIN rows[i].sources = 1 .. Len(rows[i].sources)
      /\ DOMAIN merged.sources = 1 .. k
      /\ merged.sources[k] = raw
      /\ \A l \in DOMAIN rows[i].sources : merged.sources[l] = rows[i].sources[l]
  <2>. DEFINE old == rows[i].sources
  <2>1. old \in Seq(Raws) /\ merged.sources = Append(old, raw)
    OBVIOUS
  <2>. HIDE DEF Raws, old
  <2>2. /\ Len(old) \in Nat /\ DOMAIN old = 1 .. Len(old)
        /\ DOMAIN merged.sources = 1 .. Len(old) + 1 /\ merged.sources[Len(old) + 1] = raw
        /\ \A l \in DOMAIN old : merged.sources[l] = old[l]
    BY <2>1
  <2>. QED  BY <2>2 DEF old
<1>2. k \notin DOMAIN rows[i].sources /\ DOMAIN merged.sources = DOMAIN rows[i].sources \cup {k}
  BY <1>1
<1>3. DOMAIN more = DOMAIN rows /\ more[i] = merged /\ \A j \in DOMAIN rows : j # i => more[j] = rows[j]
  OBVIOUS
<1>. HIDE DEF more, k
<1>4. Distinct(more)
  <2>1. \A j \in DOMAIN rows : Identity(more[j]) = Identity(rows[j])
    BY <1>3
  <2>. QED  BY <1>3, <2>1 DEF Distinct
<1>5. FromReadings(more, raws, n + 1)
  <2>. SUFFICES ASSUME NEW j \in DOMAIN more, NEW l \in DOMAIN more[j].sources
                PROVE  \E m \in 1 .. n + 1 : more[j].sources[l] = raws[m]
    BY DEF FromReadings
  <2>1. CASE l \in DOMAIN rows[j].sources
    <3>1. more[j].sources[l] = rows[j].sources[l]
      BY <1>1, <1>3, <2>1
    <3>. QED  BY <1>3, <2>1, <3>1 DEF FromReadings
  <2>2. CASE l \notin DOMAIN rows[j].sources
    <3>1. j = i /\ l = k
      BY <1>2, <1>3, <2>2
    <3>2. more[j].sources[l] = raw
      BY <1>1, <1>3, <3>1
    <3>3. n + 1 \in 1 .. n + 1
      OBVIOUS
    <3>. QED  BY <3>2, <3>3
  <2>. QED  BY <2>1, <2>2
<1>6. Kept(more, raws, n + 1)
  <2>1. ~Position(rows, <<i, k>>)
    BY <1>2 DEF Position
  <2>2. ASSUME NEW at PROVE Position(more, at) <=> Position(rows, at) \/ at = <<i, k>>
    <3>1. CASE at[1] = i
      <4>1. Position(more, at) <=> at = <<at[1], at[2]>> /\ at[2] \in DOMAIN merged.sources
        BY <1>3, <3>1 DEF Position
      <4>2. Position(rows, at) <=> at = <<at[1], at[2]>> /\ at[2] \in DOMAIN rows[i].sources
        BY <3>1 DEF Position
      <4>3. at = <<i, k>> <=> at = <<at[1], at[2]>> /\ at[2] = k
        BY <3>1
      <4>. QED  BY <1>2, <4>1, <4>2, <4>3
    <3>2. CASE at[1] # i
      BY <1>3, <3>2 DEF Position
    <3>. QED  BY <3>1, <3>2
  <2>3. ASSUME NEW at, Position(rows, at) PROVE more[at[1]].sources[at[2]] = rows[at[1]].sources[at[2]]
    <3>1. /\ at[1] \in DOMAIN rows /\ at[2] \in DOMAIN rows[at[1]].sources
      BY <2>3 DEF Position
    <3>2. CASE at[1] = i
      <4>1. more[at[1]] = merged /\ at[2] \in DOMAIN rows[i].sources
        BY <1>3, <3>1, <3>2
      <4>. QED  BY <1>1, <3>2, <4>1
    <3>3. CASE at[1] # i
      BY <1>3, <3>1, <3>3
    <3>. QED  BY <3>2, <3>3
  <2>4. more[i].sources[k] = raw
    BY <1>1, <1>3
  <2>. QED  BY <2>1, <2>2, <2>3, <2>4, OnePlaceMore
<1>. QED  BY <1>4, <1>5, <1>6 DEF more

LEMMA AbsorbKeeps ==
  ASSUME NEW acc, NEW raws, NEW n \in Nat, Accumulated(acc, raws, n),
         NEW raw \in Raws, raws[n + 1] = raw
  PROVE  Accumulated(Absorb(acc, raw), raws, n + 1)
<1>. DEFINE row == Row(raw, acc.known)
            rows == acc.rows
            same == {i \in DOMAIN rows : Identity(rows[i]) = Identity(row)}
            i == CHOOSE j \in same : TRUE
            merged == Merge(rows[i], row)
            next == IF ~Identified(raw) THEN rows
                    ELSE IF same = {} THEN Append(rows, row)
                    ELSE [rows EXCEPT ![i] = merged]
<1>1. Absorb(acc, raw) = [known |-> Registered(raw.merchant, acc.known), rows |-> next]
  BY DEF Absorb
<1>. HIDE DEF next, merged, i, same, row, rows
<1>2. KnownOk(Registered(raw.merchant, acc.known))
  BY RawFields, RegisteredIsOk DEF Accumulated
<1>3. /\ rows \in Seq(BatchRows) /\ \A j \in DOMAIN rows : Sound(rows[j])
      /\ Distinct(rows) /\ FromReadings(rows, raws, n) /\ Kept(rows, raws, n)
  BY DEF Accumulated, rows
<1>. DEFINE Ok(more) == /\ more \in Seq(BatchRows)
                        /\ \A j \in DOMAIN more : Sound(more[j])
                        /\ Distinct(more)
                        /\ FromReadings(more, raws, n + 1)
                        /\ Kept(more, raws, n + 1)
<1>4. CASE ~Identified(raw)
  <2>1. next = rows
    BY <1>4 DEF next
  <2>2. Ok(rows)
    BY <1>3, <1>4, SameRowsKept, FromMoreReadings
  <2>. QED  BY <1>1, <1>2, <2>1, <2>2 DEF Accumulated
<1>5. CASE Identified(raw) /\ same = {}
  <2>1. next = Append(rows, row)
    BY <1>5 DEF next
  <2>2. Sound(row) /\ row.sources = <<raw>> /\ row \in BatchRows
    BY <1>5, RowIsSound DEF row, Accumulated, Sound
  <2>3. \A j \in DOMAIN rows : Identity(rows[j]) # Identity(row)
    BY <1>5 DEF same
  <2>. DEFINE more == Append(rows, row)
  <2>4. Distinct(more) /\ FromReadings(more, raws, n + 1) /\ Kept(more, raws, n + 1)
    BY <1>3, <2>2, <2>3, AppendKeeps
  <2>5. more \in Seq(BatchRows) /\ \A j \in DOMAIN more : Sound(more[j])
    <3>. HIDE DEF BatchRows
    <3>. QED  BY <1>3, <2>2
  <2>. HIDE DEF more
  <2>. QED  BY <1>1, <1>2, <2>1, <2>4, <2>5 DEF Accumulated, more
<1>6. CASE Identified(raw) /\ same # {}
  <2>1. next = [rows EXCEPT ![i] = merged]
    BY <1>6 DEF next
  <2>2. i \in DOMAIN rows /\ Identity(rows[i]) = Identity(row)
    BY <1>6 DEF i, same
  <2>3. Sound(row) /\ row.sources = <<raw>>
    BY <1>6, RowIsSound DEF row, Accumulated
  <2>4. Sound(rows[i])
    BY <1>3, <2>2
  <2>5. Sound(merged) /\ Identity(merged) = Identity(rows[i]) /\ merged.sources = Append(rows[i].sources, raw)
    BY <2>2, <2>3, <2>4, MergedIsSound DEF merged
  <2>6. merged \in BatchRows
    BY <2>5 DEF Sound
  <2>7. rows[i].sources \in Seq(Raws)
    <3>. HIDE DEF Raws
    <3>. QED  BY <2>4 DEF Sound, BatchRows
  <2>. DEFINE more == [rows EXCEPT ![i] = merged]
  <2>8. Distinct(more) /\ FromReadings(more, raws, n + 1) /\ Kept(more, raws, n + 1)
    BY <1>3, <2>2, <2>5, <2>6, <2>7, MergeKeeps
  <2>9. more \in Seq(BatchRows) /\ \A j \in DOMAIN more : Sound(more[j])
    <3>. HIDE DEF BatchRows
    <3>. QED  BY <1>3, <2>2, <2>5, <2>6
  <2>. HIDE DEF more
  <2>. QED  BY <1>1, <1>2, <2>1, <2>8, <2>9 DEF Accumulated, more
<1>. QED  BY <1>4, <1>5, <1>6

LEMMA BatchIsAccumulated ==
  ASSUME NEW raws \in Seq(Raws)
  PROVE  \E acc : Accumulated(acc, raws, Len(raws)) /\ NormalizeAndDedupe(raws) = acc.rows
<1>1. Len(raws) \in Nat /\ \A n \in 1 .. Len(raws) : raws[n] \in Raws
  <2>. HIDE DEF Raws
  <2>. QED  OBVIOUS
<1>2. PICK after : /\ after[0] = Start
                   /\ \A n \in 1 .. Len(raws) : after[n] = Absorb(after[n - 1], raws[n])
                   /\ NormalizeAndDedupe(raws) = after[Len(raws)].rows
  BY <1>1, NormalizeDefined
<1>. DEFINE Holds(n) == Accumulated(after[n], raws, n)
            T == {n \in Nat : n <= Len(raws) /\ ~Holds(n)}
<1>3. Holds(0)
  <2>1. Start.known = <<>> /\ Start.rows = <<>>
    BY DEF Start
  <2>2. KnownOk(<<>>) /\ <<>> \in Seq(BatchRows)
    BY DEF KnownOk
  <2>3. Distinct(<<>>) /\ FromReadings(<<>>, raws, 0) /\ \A j \in DOMAIN <<>> : Sound(<<>>[j])
    BY DEF Distinct, FromReadings
  <2>4. Kept(<<>>, raws, 0)
    <3>1. ASSUME NEW r PROVE Places(<<>>, r) = {} /\ TimesOf(raws, 0, r) = {}
      BY PlacesAre DEF TimesOf, Position
    <3>. QED  BY <3>1, FS_EmptySet DEF Kept
  <2>. QED  BY <1>2, <2>1, <2>2, <2>3, <2>4 DEF Accumulated
<1>4. T = {}
  <2>. SUFFICES ASSUME T # {} PROVE FALSE
    OBVIOUS
  <2>1. PICK n \in T : \A k \in T : n <= k
    <3>. T \in SUBSET Nat
      OBVIOUS
    <3>. HIDE DEF T
    <3>. QED  BY SetHasLeast
  <2>2. n # 0
    BY <1>3, <2>1
  <2>3. n - 1 \in Nat /\ n - 1 <= Len(raws) /\ n \in 1 .. Len(raws) /\ Holds(n - 1) /\ (n - 1) + 1 = n
    BY <1>1, <2>1, <2>2
  <2>4. after[n] = Absorb(after[n - 1], raws[n]) /\ raws[n] \in Raws
    BY <1>1, <1>2, <2>3
  <2>5. Accumulated(Absorb(after[n - 1], raws[n]), raws, (n - 1) + 1)
    BY <2>3, <2>4, AbsorbKeeps
  <2>6. Holds(n)
    BY <2>3, <2>4, <2>5
  <2>. QED  BY <2>1, <2>6
<1>5. Holds(Len(raws))
  BY <1>1, <1>4
<1>. QED  BY <1>2, <1>5

----------------------------------------------------------------------------
(* What a page leaves in the rows read.                                    *)

LEMMA ReadDefined ==
  ASSUME Len(listing) \in Nat
  PROVE  \E after : /\ after[0] = active
                    /\ \A n \in 1 .. Len(listing) :
                         after[n] = IF OnPage(n) THEN Take(after[n - 1], listing[n]) ELSE after[n - 1]
                    /\ ReadRows = after[Len(listing)]
<1>. DEFINE Body(f, n) == IF n = 0 THEN active
                          ELSE IF OnPage(n) THEN Take(f[n - 1], listing[n]) ELSE f[n - 1]
            Defined(m) == \E f : f = [n \in 0 .. m |-> Body(f, n)]
            T == {m \in Nat : ~Defined(m)}
<1>1. \A m \in Nat : Defined(m)
  <2>. SUFFICES ASSUME T # {} PROVE FALSE
    OBVIOUS
  <2>1. PICK m \in T : \A k \in T : m <= k
    <3>. HIDE DEF T
    <3>. T \in SUBSET Nat
      BY DEF T
    <3>. QED  BY SetHasLeast
  <2>2. m # 0
    <3>. DEFINE f == [n \in 0 .. 0 |-> active]
    <3>1. f = [n \in 0 .. 0 |-> Body(f, n)]
      OBVIOUS
    <3>2. Defined(0)
      BY <3>1
    <3>. QED  BY <2>1, <3>2
  <2>3. m - 1 \in Nat /\ m - 1 \notin T
    <3>1. m \in Nat
      BY <2>1
    <3>2. m - 1 \in Nat /\ ~(m <= m - 1)
      BY <2>2, <3>1
    <3>. HIDE DEF T
    <3>. QED  BY <2>1, <3>2
  <2>4. PICK g : g = [n \in 0 .. m - 1 |-> Body(g, n)]
    BY <2>3
  <2>. DEFINE last == IF OnPage(m) THEN Take(g[m - 1], listing[m]) ELSE g[m - 1]
              h == [n \in 0 .. m |-> IF n = m THEN last ELSE g[n]]
  <2>5. ASSUME NEW n \in 0 .. m PROVE h[n] = Body(h, n)
    <3>1. CASE n = m
      <4>1. m - 1 \in 0 .. m /\ m - 1 # m
        BY <2>3
      <4>. QED  BY <2>2, <3>1, <4>1
    <3>2. CASE n # m /\ n = 0
      <4>1. 0 \in 0 .. m - 1
        BY <2>3
      <4>2. g[0] = active
        BY <2>4, <4>1
      <4>. QED  BY <3>2, <4>2
    <3>3. CASE n # m /\ n # 0
      <4>1. n \in 0 .. m - 1 /\ n - 1 \in 0 .. m /\ n - 1 # m
        BY <2>3, <3>3
      <4>2. g[n] = IF OnPage(n) THEN Take(g[n - 1], listing[n]) ELSE g[n - 1]
        BY <2>4, <3>3, <4>1
      <4>. QED  BY <3>3, <4>1, <4>2
    <3>. QED  BY <3>1, <3>2, <3>3
  <2>6. h = [n \in 0 .. m |-> Body(h, n)]
    <3>. HIDE DEF Body
    <3>. QED  BY <2>5
  <2>. QED  BY <2>1, <2>6
<1>2. PICK g : g = [n \in 0 .. Len(listing) |-> Body(g, n)]
  BY <1>1
<1>. DEFINE after == CHOOSE f : f = [n \in 0 .. Len(listing) |->
                                       IF n = 0 THEN active
                                       ELSE IF OnPage(n) THEN Take(f[n - 1], listing[n]) ELSE f[n - 1]]
<1>3. after = [n \in 0 .. Len(listing) |-> Body(after, n)]
  <2>. DEFINE P(f) == f = [n \in 0 .. Len(listing) |-> Body(f, n)]
  <2>1. \E f : P(f)
    BY <1>2
  <2>2. P(CHOOSE f : P(f))
    BY <2>1
  <2>. QED  BY <2>2
<1>4. ReadRows = after[Len(listing)]
  BY DEF ReadRows
<1>. HIDE DEF after
<1>5. after[0] = active
  BY <1>3
<1>6. ASSUME NEW n \in 1 .. Len(listing)
      PROVE  after[n] = IF OnPage(n) THEN Take(after[n - 1], listing[n]) ELSE after[n - 1]
  BY <1>3, <1>6
<1>. QED  BY <1>4, <1>5, <1>6

LEMMA TakeIsRaws ==
  ASSUME source \in Sources, site \in BOOLEAN, links \in {<<>>, Links},
         NEW taken \in Seq(Raws), NEW offer \in Offers
  PROVE  Take(taken, offer) \in Seq(Raws)
<1>1. Take(taken, offer) \in {taken, Append(taken, MapOffer(offer))}
      /\ (MapOffer(offer) = Nothing => Take(taken, offer) = taken)
  BY DEF Take
<1>2. MapOffer(offer) \in Raws \cup {Nothing}
  BY MapOfferIsRaw
<1>. HIDE DEF Raws
<1>. QED  BY <1>1, <1>2

LEMMA ReadRowsIsRaws ==
  ASSUME source \in Sources, site \in BOOLEAN, links \in {<<>>, Links},
         listing \in Seq(Offers), active \in Seq(Raws)
  PROVE  ReadRows \in Seq(Raws)
<1>1. Len(listing) \in Nat /\ \A n \in 1 .. Len(listing) : listing[n] \in Offers
  OBVIOUS
<1>2. PICK after : /\ after[0] = active
                   /\ \A n \in 1 .. Len(listing) :
                        after[n] = IF OnPage(n) THEN Take(after[n - 1], listing[n]) ELSE after[n - 1]
                   /\ ReadRows = after[Len(listing)]
  BY <1>1, ReadDefined
<1>. DEFINE T == {n \in Nat : n <= Len(listing) /\ after[n] \notin Seq(Raws)}
<1>. HIDE DEF Raws
<1>3. T = {}
  <2>. SUFFICES ASSUME T # {} PROVE FALSE
    OBVIOUS
  <2>1. PICK n \in T : \A k \in T : n <= k
    <3>. T \in SUBSET Nat
      OBVIOUS
    <3>. HIDE DEF T
    <3>. QED  BY SetHasLeast
  <2>2. n # 0
    BY <1>2, <2>1
  <2>3. n - 1 \in Nat /\ n \in 1 .. Len(listing) /\ after[n - 1] \in Seq(Raws)
    BY <1>1, <2>1, <2>2
  <2>4. Take(after[n - 1], listing[n]) \in Seq(Raws)
    BY <1>1, <2>3, TakeIsRaws
  <2>. QED  BY <1>2, <2>1, <2>3, <2>4
<1>. QED  BY <1>1, <1>2, <1>3

----------------------------------------------------------------------------
(* A pull.                                                                 *)

LEMMA ElementsOfSeq ==
  ASSUME NEW S, NEW q \in Seq(S)
  PROVE  Range(q) \subseteq S
<1>1. \A k \in DOMAIN q : q[k] \in S
  OBVIOUS
<1>. QED  BY <1>1 DEF Range

LEMMA SecondPart ==
  ASSUME NEW S, NEW q \in Seq(S), NEW r \in Seq(S), NEW k \in Len(q) + 1 .. Len(q) + Len(r)
  PROVE  (q \o r)[k] = r[k - Len(q)]
OBVIOUS

LEMMA RemoveAtIs ==
  ASSUME NEW q \in Seq(Offers), NEW i \in DOMAIN q
  PROVE  /\ RemoveAt(q, i) \in Seq(Offers) /\ Len(RemoveAt(q, i)) = Len(q) - 1
         /\ \A k \in 1 .. Len(q) - 1 : RemoveAt(q, i)[k] = IF k < i THEN q[k] ELSE q[k + 1]
<1>. DEFINE before == SubSeq(q, 1, i - 1)
            behind == SubSeq(q, i + 1, Len(q))
<1>1. Len(q) \in Nat /\ i \in 1 .. Len(q)
  OBVIOUS
<1>2. /\ before \in Seq(Offers) /\ Len(before) = i - 1
      /\ \A k \in 1 .. i - 1 : before[k] = q[k]
  BY <1>1
<1>3. /\ behind \in Seq(Offers) /\ Len(behind) = Len(q) - i
      /\ \A k \in 1 .. Len(q) - i : behind[k] = q[k + i]
  BY <1>1
<1>4. RemoveAt(q, i) = before \o behind
  BY DEF RemoveAt
<1>. HIDE DEF before, behind
<1>5. before \o behind \in Seq(Offers) /\ Len(before \o behind) = Len(q) - 1
  BY <1>1, <1>2, <1>3
<1>6. ASSUME NEW k \in 1 .. Len(q) - 1
      PROVE  (before \o behind)[k] = IF k < i THEN q[k] ELSE q[k + 1]
  <2>1. CASE k < i
    BY <1>1, <1>2, <1>3, <2>1
  <2>2. CASE ~(k < i)
    <3>1. (before \o behind)[k] = behind[k - (i - 1)]
      <4>1. k \in Len(before) + 1 .. Len(before) + Len(behind)
        BY <1>1, <1>2, <1>3, <2>2
      <4>2. (before \o behind)[k] = behind[k - Len(before)]
        BY <1>2, <1>3, <4>1, SecondPart
      <4>. QED  BY <1>2, <4>2
    <3>2. k - (i - 1) \in 1 .. Len(q) - i /\ (k - (i - 1)) + i = k + 1
      BY <1>1, <2>2
    <3>. QED  BY <1>3, <2>2, <3>1, <3>2
  <2>. QED  BY <2>1, <2>2
<1>. QED  BY <1>4, <1>5, <1>6

LEMMA RemoveAtLeaves ==
  ASSUME NEW q \in Seq(Offers), NEW i \in DOMAIN q
  PROVE  Range(q) \ {q[i]} \subseteq Range(RemoveAt(q, i))
<1>. SUFFICES ASSUME NEW k \in DOMAIN q, k # i
              PROVE  \E l \in DOMAIN RemoveAt(q, i) : RemoveAt(q, i)[l] = q[k]
  BY DEF Range
<1>. DEFINE l == IF k < i THEN k ELSE k - 1
<1>1. k \in 1 .. Len(q) /\ i \in 1 .. Len(q) /\ Len(q) \in Nat
  OBVIOUS
<1>2. /\ RemoveAt(q, i) \in Seq(Offers) /\ Len(RemoveAt(q, i)) = Len(q) - 1
      /\ \A n \in 1 .. Len(q) - 1 : RemoveAt(q, i)[n] = IF n < i THEN q[n] ELSE q[n + 1]
  BY RemoveAtIs
<1>3. DOMAIN RemoveAt(q, i) = 1 .. Len(q) - 1
  BY <1>2
<1>4. l \in 1 .. Len(q) - 1 /\ (IF l < i THEN q[l] ELSE q[l + 1]) = q[k]
  <2>1. CASE k < i
    BY <1>1, <2>1
  <2>2. CASE ~(k < i)
    <3>1. l = k - 1 /\ ~(l < i) /\ l + 1 = k /\ l \in 1 .. Len(q) - 1
      BY <1>1, <2>2
    <3>. QED  BY <3>1
  <2>. QED  BY <2>1, <2>2
<1>. HIDE DEF l
<1>. QED  BY <1>2, <1>3, <1>4

LEMMA ListedIs ==
  ASSUME NEW q \in Seq(Offers), NEW offer \in Offers
  PROVE  /\ <<offer>> \o q \in Seq(Offers) /\ q \o <<offer>> \in Seq(Offers)
         /\ Range(q) \subseteq Range(<<offer>> \o q) /\ Range(q) \subseteq Range(q \o <<offer>>)
<1>1. /\ Len(q) \in Nat /\ DOMAIN q = 1 .. Len(q)
      /\ <<offer>> \in Seq(Offers) /\ Len(<<offer>>) = 1
  OBVIOUS
<1>2. <<offer>> \o q \in Seq(Offers) /\ q \o <<offer>> \in Seq(Offers)
  OBVIOUS
<1>3. \A k \in DOMAIN q : k + 1 \in DOMAIN (<<offer>> \o q) /\ (<<offer>> \o q)[k + 1] = q[k]
  BY <1>1
<1>4. \A k \in DOMAIN q : k \in DOMAIN (q \o <<offer>>) /\ (q \o <<offer>>)[k] = q[k]
  BY <1>1
<1>. QED  BY <1>2, <1>3, <1>4 DEF Range

(* What a pull has at each of its steps: raw coupons, and when it is done  *)
(* the batch they become.                                                  *)
Pull ==
  /\ source \in Sources
  /\ listing \in Seq(Offers)
  /\ changes \in 0 .. MaxChanges /\ withdrawn \in 0 .. changes
  /\ phase \in {"connect", "pull", "deals", "pulled", "done", "failed"}
  /\ page \in 0 .. MaxPages - 1
  /\ site \in BOOLEAN /\ cut \in BOOLEAN
  /\ links \in {<<>>, Links}
  /\ active \in Seq(Raws)
  /\ steady \subseteq Range(listing)
  /\ batch = IF phase = "done" THEN NormalizeAndDedupe(active) ELSE <<>>

LEMMA PullInit == Init => Pull
<1>. SUFFICES ASSUME Init PROVE Pull
  OBVIOUS
<1>1. listing \in Seq(Offers)
  BY BatchAssumption DEF Init
<1>2. <<>> \in Seq(Raws)
  <2>. HIDE DEF Raws
  <2>. QED  OBVIOUS
<1>3. 0 \in 0 .. MaxPages - 1 /\ 0 \in 0 .. MaxChanges /\ 0 \in 0 .. 0
  BY BatchAssumption
<1>. QED  BY <1>1, <1>2, <1>3 DEF Init, Pull

LEMMA PullNext == Pull /\ [Next]_vars => Pull'
<1>. SUFFICES ASSUME Pull, [Next]_vars PROVE Pull'
  OBVIOUS
<1>. USE DEF Pull
<1>0. /\ <<>> \in Seq(Raws)
      /\ MaxPages \in Nat \ {0} /\ MaxChanges \in Nat /\ 0 \in 0 .. MaxPages - 1
  <2>1. <<>> \in Seq(Raws)
    <3>. HIDE DEF Raws
    <3>. QED  OBVIOUS
  <2>. QED  BY <2>1, BatchAssumption
<1>1. CASE Connect
  <2>1. links' \in {<<>>, Links}
    BY <1>1 DEF Connect, CampaignLinks
  <2>2. site' \in BOOLEAN
    BY <1>1 DEF Connect, AdSpaces
  <2>. QED  BY <1>1, <2>1, <2>2 DEF Connect
<1>2. CASE ReadPage
  <2>1. active' \in Seq(Raws)
    BY <1>2, ReadRowsIsRaws DEF ReadPage
  <2>2. page' \in 0 .. MaxPages - 1
    <3>1. page' \in {0, page + 1} /\ (page' = page + 1 => page' = 0 \/ page + 1 # MaxPages)
      BY <1>2 DEF ReadPage, Over
    <3>. QED  BY <1>0, <3>1
  <2>3. cut' \in BOOLEAN
    BY <1>2 DEF ReadPage, Barren, Over, LastPage
  <2>4. phase' \in {"pull", "deals", "pulled"} /\ phase # "done"
    BY <1>2 DEF ReadPage
  <2>5. UNCHANGED <<source, listing, changes, site, links, batch, steady, withdrawn>>
    BY <1>2 DEF ReadPage
  <2>. QED  BY <2>1, <2>2, <2>3, <2>4, <2>5
<1>3. CASE RequestFails
  BY <1>0, <1>3 DEF RequestFails
<1>4. CASE Normalise
  <2>1. UNCHANGED <<source, listing, changes, page, site, links, active, steady, withdrawn, cut>>
    BY <1>4 DEF Normalise
  <2>2. phase' = "done" /\ batch' = NormalizeAndDedupe(active')
    BY <1>4, <2>1 DEF Normalise
  <2>. QED  BY <2>1, <2>2
<1>5. CASE NextPull
  <2>1. UNCHANGED <<source, listing, changes>>
    BY <1>5 DEF NextPull
  <2>2. /\ phase' = "connect" /\ page' = 0 /\ active' = <<>> /\ batch' = <<>> /\ site' = TRUE
        /\ links' = <<>> /\ steady' = Range(listing) /\ withdrawn' = 0 /\ cut' = FALSE
    BY <1>5 DEF NextPull
  <2>3. withdrawn' \in 0 .. changes' /\ changes' \in 0 .. MaxChanges /\ page' \in 0 .. MaxPages - 1
    BY <1>0, <2>1, <2>2
  <2>4. Range(listing)' = Range(listing)
    BY <2>1
  <2>. QED  BY <1>0, <2>1, <2>2, <2>3, <2>4
<1>6. CASE Lists
  <2>1. PICK offer \in Offers : listing' = <<offer>> \o listing \/ listing' = listing \o <<offer>>
    BY <1>6 DEF Lists
  <2>2. listing' \in Seq(Offers) /\ Range(listing) \subseteq Range(listing')
    BY <2>1, ListedIs
  <2>3. changes' \in 0 .. MaxChanges /\ withdrawn' \in 0 .. changes'
    BY <1>0, <1>6 DEF Lists
  <2>4. UNCHANGED <<source, phase, page, site, links, active, batch, steady, withdrawn, cut>>
    BY <1>6 DEF Lists
  <2>. QED  BY <2>2, <2>3, <2>4
<1>7. CASE Withdraws
  <2>1. PICK i \in DOMAIN listing : listing' = RemoveAt(listing, i) /\ steady' = steady \ {listing[i]}
    BY <1>7 DEF Withdraws
  <2>2. listing' \in Seq(Offers) /\ Range(listing) \ {listing[i]} \subseteq Range(listing')
    BY <2>1, RemoveAtIs, RemoveAtLeaves
  <2>3. changes' \in 0 .. MaxChanges /\ withdrawn' \in 0 .. changes'
    BY <1>0, <1>7 DEF Withdraws
  <2>4. UNCHANGED <<source, phase, page, site, links, active, batch, cut>>
    BY <1>7 DEF Withdraws
  <2>. QED  BY <2>1, <2>2, <2>3, <2>4
<1>8. CASE UNCHANGED vars
  BY <1>8 DEF vars
<1>. QED  BY <1>1, <1>2, <1>3, <1>4, <1>5, <1>6, <1>7, <1>8 DEF Next

LEMMA PullAlways == Spec => []Pull
BY PullInit, PullNext, PTL DEF Spec

(* The pull is always at one of its steps, what it has read are raw        *)
(* coupons of the source's own entries, and only a finished pull has a     *)
(* batch.                                                                  *)
THEOREM TypeCorrect == Spec => []TypeOK
<1>1. Pull => TypeOK
  <2>. SUFFICES ASSUME Pull PROVE TypeOK
    OBVIOUS
  <2>1. Range(listing) \subseteq Offers /\ Range(active) \subseteq Raws
    BY ElementsOfSeq DEF Pull
  <2>2. DOMAIN links \subseteq DOMAIN Links
    BY DEF Pull
  <2>. QED  BY <2>1, <2>2 DEF Pull, TypeOK
<1>. QED  BY <1>1, PullAlways, PTL

(* The facts of a finished batch.                                          *)
LEMMA DoneIsAccumulated ==
  ASSUME Pull, phase = "done"
  PROVE  \E acc : Accumulated(acc, active, Len(active)) /\ batch = acc.rows
BY BatchIsAccumulated DEF Pull

LEMMA BatchIsSound ==
  ASSUME Pull
  PROVE  \A row \in Range(batch) : Sound(row)
<1>1. CASE phase = "done"
  <2>1. PICK acc : Accumulated(acc, active, Len(active)) /\ batch = acc.rows
    BY <1>1, DoneIsAccumulated
  <2>. QED  BY <2>1 DEF Accumulated, Range
<1>2. CASE phase # "done"
  BY <1>2 DEF Pull, Range
<1>. QED  BY <1>1, <1>2

(* Deduplication loses nothing and lends nothing: in a finished batch      *)
(* every identified reading is a source as often as it was read, of rows   *)
(* with its code and a merchant near its spelling, and no identity has two *)
(* rows, whatever likeness of names the matcher reports.                   *)
THEOREM NothingIsLost == Spec => []SourcesAreKept
<1>1. Pull => SourcesAreKept
  <2>. SUFFICES ASSUME Pull, phase = "done"
                PROVE  /\ \A raw \in Readings :
                            Cardinality(Places(batch, raw)) = Cardinality({n \in DOMAIN active : active[n] = raw})
                       /\ \A row \in Range(batch) : \A raw \in Range(row.sources) :
                            /\ raw \in Readings
                            /\ NormalizeCode(raw.code) = row.code
                            /\ Near(Key[raw.merchant], row.merchant)
                       /\ \A i, j \in DOMAIN batch : Identity(batch[i]) = Identity(batch[j]) => i = j
    BY DEF SourcesAreKept
  <2>1. PICK acc : Accumulated(acc, active, Len(active)) /\ batch = acc.rows
    BY DoneIsAccumulated
  <2>2. DOMAIN active = 1 .. Len(active) /\ Range(active) \subseteq Raws
    <3>. HIDE DEF Raws
    <3>. QED  BY ElementsOfSeq DEF Pull
  <2>3. ASSUME NEW raw \in Readings
        PROVE  Cardinality(Places(batch, raw)) = Cardinality({n \in DOMAIN active : active[n] = raw})
    <3>1. raw \in Raws /\ Identified(raw)
      BY <2>2, <2>3 DEF Readings
    <3>2. TimesOf(active, Len(active), raw) = {n \in DOMAIN active : active[n] = raw}
      BY <2>2 DEF TimesOf
    <3>. QED  BY <2>1, <3>1, <3>2 DEF Accumulated, Kept
  <2>4. ASSUME NEW row \in Range(batch), NEW raw \in Range(row.sources)
        PROVE  /\ raw \in Readings
               /\ NormalizeCode(raw.code) = row.code
               /\ Near(Key[raw.merchant], row.merchant)
    <3>1. PICK i \in DOMAIN batch : row = batch[i]
      BY DEF Range
    <3>2. PICK j \in DOMAIN row.sources : raw = row.sources[j]
      BY DEF Range
    <3>3. SourceOf(raw, row)
      BY <3>2, BatchIsSound DEF Sound
    <3>4. \E m \in DOMAIN active : raw = active[m]
      BY <2>1, <2>2, <3>1, <3>2 DEF Accumulated, FromReadings
    <3>. QED  BY <3>3, <3>4 DEF SourceOf, Readings, Range
  <2>5. \A i, j \in DOMAIN batch : Identity(batch[i]) = Identity(batch[j]) => i = j
    BY <2>1 DEF Accumulated, Distinct
  <2>. QED  BY <2>3, <2>4, <2>5
<1>. QED  BY <1>1, PullAlways, PTL

(* The chip a visitor sees never contradicts the text next to it, whatever *)
(* the feed's label said and whatever duplicates were merged into the row. *)
THEOREM TextDecides == Spec => []LabelFollowsText
<1>1. Pull => LabelFollowsText
  <2>. SUFFICES ASSUME Pull, NEW row \in Range(batch) PROVE Follows(row)
    BY DEF LabelFollowsText, Follows
  <2>. QED  BY BatchIsSound DEF Sound
<1>. QED  BY <1>1, PullAlways, PTL

(* No "100% off" and no flat zero, unless a reading of the row came with a *)
(* number of no known type or with a zero.                                 *)
THEOREM NoAbsurdLabel == Spec => []LabelIsPlausible
<1>1. Pull => LabelIsPlausible
  <2>. SUFFICES ASSUME Pull, NEW row \in Range(batch), \A raw \in Range(row.sources) : ~Odd(raw)
                PROVE  /\ row.label.type = "percentage" => Plausible(row.label.value)
                       /\ row.label.type = "fixed" => row.label.value # 0
    BY DEF LabelIsPlausible, Odd
  <2>1. \A j \in DOMAIN row.sources : ~Odd(row.sources[j])
    BY DEF Range
  <2>. QED  BY <2>1, BatchIsSound DEF Sound, Sane
<1>. QED  BY <1>1, PullAlways, PTL

----------------------------------------------------------------------------
(* The rank of an entry among those of a kind: its place in what is        *)
(* fetched, and what the supplier's changes do to it.                      *)

Ranked(q, W, k) == {j \in 1 .. k : q[j] \in W}
Rank(q, W, k) == Cardinality(Ranked(q, W, k))

LEMMA RankIs ==
  ASSUME NEW q, NEW W, NEW k \in Nat
  PROVE  /\ IsFiniteSet(Ranked(q, W, k))
         /\ Rank(q, W, k) \in Nat /\ Rank(q, W, k) <= k
         /\ k = 0 => Rank(q, W, k) = 0
<1>1. IsFiniteSet(1 .. k) /\ Cardinality(1 .. k) = k
  BY FS_Interval
<1>2. Ranked(q, W, k) \in SUBSET (1 .. k)
  BY DEF Ranked
<1>3. IsFiniteSet(Ranked(q, W, k)) /\ Rank(q, W, k) <= k
  BY <1>1, <1>2, FS_Subset DEF Rank
<1>4. Rank(q, W, k) \in Nat
  BY <1>3, FS_CardinalityType DEF Rank
<1>. QED  BY <1>3, <1>4

LEMMA RankStep ==
  ASSUME NEW q, NEW W, NEW k \in Nat
  PROVE  Rank(q, W, k + 1) = IF q[k + 1] \in W THEN Rank(q, W, k) + 1 ELSE Rank(q, W, k)
<1>1. IsFiniteSet(Ranked(q, W, k)) /\ k + 1 \notin Ranked(q, W, k)
  BY RankIs DEF Ranked
<1>2. CASE q[k + 1] \in W
  <2>1. Ranked(q, W, k + 1) = Ranked(q, W, k) \cup {k + 1}
    BY <1>2 DEF Ranked
  <2>2. Cardinality(Ranked(q, W, k) \cup {k + 1}) = Cardinality(Ranked(q, W, k)) + 1
    BY <1>1, FS_AddElement
  <2>. QED  BY <1>2, <2>1, <2>2 DEF Rank
<1>3. CASE q[k + 1] \notin W
  <2>1. Ranked(q, W, k + 1) = Ranked(q, W, k)
    BY <1>3 DEF Ranked
  <2>. QED  BY <1>3, <2>1 DEF Rank
<1>. QED  BY <1>2, <1>3

LEMMA RankGrows ==
  ASSUME NEW q, NEW W, NEW j \in Nat, NEW k \in Nat, j <= k
  PROVE  Rank(q, W, j) <= Rank(q, W, k)
<1>1. Ranked(q, W, j) \in SUBSET Ranked(q, W, k)
  BY DEF Ranked
<1>2. IsFiniteSet(Ranked(q, W, k))
  BY RankIs
<1>. QED  BY <1>1, <1>2, FS_Subset DEF Rank

LEMMA RankIsOwn ==
  ASSUME NEW q, NEW W, NEW k \in Nat \ {0}, q[k] \in W
  PROVE  /\ Rank(q, W, k) >= 1
         /\ \A j \in Nat : j < k => Rank(q, W, j) < Rank(q, W, k)
<1>1. k - 1 \in Nat /\ (k - 1) + 1 = k
  OBVIOUS
<1>2. Rank(q, W, k) = Rank(q, W, k - 1) + 1 /\ Rank(q, W, k - 1) \in Nat
  <2>1. Rank(q, W, (k - 1) + 1) = Rank(q, W, k - 1) + 1
    BY <1>1, RankStep
  <2>. QED  BY <1>1, <2>1, RankIs
<1>3. ASSUME NEW j \in Nat, j < k PROVE Rank(q, W, j) < Rank(q, W, k)
  <2>1. j <= k - 1
    BY <1>3
  <2>2. Rank(q, W, j) <= Rank(q, W, k - 1) /\ Rank(q, W, j) \in Nat
    BY <1>1, <2>1, RankGrows, RankIs
  <2>. QED  BY <1>2, <2>2
<1>. QED  BY <1>2, <1>3

(* What comes before an entry is no less when the list grows in front.     *)
LEMMA RankInFront ==
  ASSUME NEW q \in Seq(Offers), NEW offer \in Offers, NEW W, NEW k \in 1 .. Len(q)
  PROVE  Rank(<<offer>> \o q, W, k + 1) >= Rank(q, W, k)
<1>. DEFINE r == <<offer>> \o q
            A == Ranked(q, W, k)
            B == Ranked(r, W, k + 1)
            f == [j \in A |-> j + 1]
<1>1. \A j \in 1 .. k : r[j + 1] = q[j] /\ j \in Nat
  OBVIOUS
<1>2. k \in Nat
  OBVIOUS
<1>. HIDE DEF r
<1>3. f \in Injection(A, B)
  <2>1. \A j \in A : f[j] \in B
    BY <1>1, <1>2 DEF Ranked
  <2>2. \A j, l \in A : f[j] = f[l] => j = l
    BY <1>2 DEF Ranked
  <2>. QED  BY <2>1, <2>2, Zenon DEF Injection, IsInjective
<1>4. IsFiniteSet(B)
  BY <1>2, RankIs
<1>5. Cardinality(A) <= Cardinality(B) /\ Cardinality(A) \in Nat /\ Cardinality(B) \in Nat
  <2>1. Cardinality(A) <= Cardinality(B)
    BY <1>3, <1>4, FS_Injection
  <2>. QED  BY <1>2, <2>1, RankIs DEF Rank
<1>. QED  BY <1>5 DEF Rank, r

LEMMA RankBehind ==
  ASSUME NEW q \in Seq(Offers), NEW offer \in Offers, NEW W, NEW k \in 1 .. Len(q)
  PROVE  Rank(q \o <<offer>>, W, k) = Rank(q, W, k)
<1>1. \A j \in 1 .. k : (q \o <<offer>>)[j] = q[j]
  OBVIOUS
<1>2. Ranked(q \o <<offer>>, W, k) = Ranked(q, W, k)
  BY <1>1 DEF Ranked
<1>. QED  BY <1>2 DEF Rank

(* And at most one less when an entry is withdrawn.                        *)
LEMMA RankAfterRemoval ==
  ASSUME NEW q \in Seq(Offers), NEW i \in DOMAIN q, NEW W, NEW k \in 1 .. Len(q) - 1
  PROVE  IF k < i THEN Rank(RemoveAt(q, i), W, k) = Rank(q, W, k)
                  ELSE Rank(RemoveAt(q, i), W, k) >= Rank(q, W, k + 1) - 1
<1>. DEFINE r == RemoveAt(q, i)
<1>1. \A j \in 1 .. Len(q) - 1 : r[j] = IF j < i THEN q[j] ELSE q[j + 1]
  BY RemoveAtIs
<1>2. Len(q) \in Nat /\ i \in 1 .. Len(q) /\ i \in Nat /\ k \in Nat
  OBVIOUS
<1>. HIDE DEF r
<1>3. CASE k < i
  <2>1. \A j \in 1 .. k : r[j] = q[j]
    BY <1>1, <1>2, <1>3
  <2>2. Ranked(r, W, k) = Ranked(q, W, k)
    BY <2>1 DEF Ranked
  <2>. QED  BY <1>3, <2>2 DEF Rank, r
<1>4. CASE ~(k < i)
  <2>. DEFINE All == Ranked(q, W, k + 1)
              A == All \ {i}
              B == Ranked(r, W, k)
              f == [j \in A |-> IF j < i THEN j ELSE j - 1]
  <2>1. ASSUME NEW j \in A PROVE f[j] \in B
    <3>1. j \in 1 .. k + 1 /\ q[j] \in W /\ j # i
      BY DEF Ranked
    <3>2. CASE j < i
      <4>1. j \in 1 .. k /\ r[j] = q[j] /\ f[j] = j
        <5>1. j < k + 1 /\ j \in 1 .. Len(q) - 1
          BY <1>2, <1>4, <3>1, <3>2
        <5>2. r[j] = q[j]
          BY <1>1, <3>2, <5>1
        <5>. QED  BY <3>1, <3>2, <5>1, <5>2
      <4>. QED  BY <3>1, <4>1 DEF Ranked
    <3>3. CASE ~(j < i)
      <4>1. j - 1 \in 1 .. k /\ j - 1 \in 1 .. Len(q) - 1 /\ ~(j - 1 < i) /\ (j - 1) + 1 = j /\ f[j] = j - 1
        BY <1>2, <1>4, <3>1, <3>3
      <4>2. r[j - 1] = q[j]
        BY <1>1, <4>1
      <4>. QED  BY <3>1, <4>1, <4>2 DEF Ranked
    <3>. QED  BY <3>2, <3>3
  <2>2. ASSUME NEW j \in A, NEW l \in A, f[j] = f[l] PROVE j = l
    <3>1. j \in Nat /\ l \in Nat /\ j # i /\ l # i
      BY DEF Ranked
    <3>2. f[j] = (IF j < i THEN j ELSE j - 1) /\ f[l] = (IF l < i THEN l ELSE l - 1)
      OBVIOUS
    <3>. QED  BY <1>2, <2>2, <3>1, <3>2
  <2>3. f \in Injection(A, B)
    <3>1. f \in [A -> B]
      BY <2>1
    <3>. HIDE DEF f, A, B
    <3>. QED  BY <2>2, <3>1 DEF Injection, IsInjective
  <2>4. IsFiniteSet(B) /\ IsFiniteSet(All) /\ Cardinality(All) \in Nat /\ Cardinality(B) \in Nat
    BY <1>2, RankIs DEF Rank
  <2>5. Cardinality(A) <= Cardinality(B)
    BY <2>3, <2>4, FS_Injection
  <2>6. Cardinality(A) = IF i \in All THEN Cardinality(All) - 1 ELSE Cardinality(All)
    BY <2>4, FS_RemoveElement
  <2>7. Cardinality(B) >= Cardinality(All) - 1
    <3>. HIDE DEF A, B, All
    <3>. QED  BY <2>4, <2>5, <2>6
  <2>. QED  BY <1>4, <2>7 DEF Rank, r
<1>. QED  BY <1>3, <1>4

----------------------------------------------------------------------------
(* No entry that stayed is skipped.                                        *)

FedEntries == {offer \in Offers : Fed(offer)}

LEMMA PlaceIsRank ==
  ASSUME listing \in Seq(Offers), NEW k \in 0 .. Len(listing)
  PROVE  Place(k) = Rank(listing, FedEntries, k)
<1>1. \A j \in 1 .. k : listing[j] \in Offers
  OBVIOUS
<1>2. {j \in 1 .. k : Fed(listing[j])} = Ranked(listing, FedEntries, k)
  BY <1>1 DEF Ranked, FedEntries
<1>. QED  BY <1>2 DEF Place, Rank

LEMMA PlaceIs ==
  ASSUME listing \in Seq(Offers)
  PROVE  /\ Count \in Nat
         /\ \A k \in DOMAIN listing :
              /\ Place(k) \in Nat /\ Place(k) <= Count /\ Place(k) <= Len(listing)
              /\ Fed(listing[k]) => Place(k) >= 1
         /\ \A j, k \in DOMAIN listing : Fed(listing[k]) /\ j < k => Place(j) < Place(k)
<1>1. Len(listing) \in Nat /\ DOMAIN listing = 1 .. Len(listing) /\ \A k \in DOMAIN listing : listing[k] \in Offers
  OBVIOUS
<1>2. Count = Rank(listing, FedEntries, Len(listing)) /\ Count \in Nat
  BY <1>1, PlaceIsRank, RankIs DEF Count
<1>3. ASSUME NEW k \in DOMAIN listing
      PROVE  /\ Place(k) = Rank(listing, FedEntries, k)
             /\ Place(k) \in Nat /\ Place(k) <= Count /\ Place(k) <= Len(listing)
  <2>1. k \in Nat /\ k <= Len(listing) /\ k \in 0 .. Len(listing)
    BY <1>1
  <2>2. Place(k) = Rank(listing, FedEntries, k)
    BY <2>1, PlaceIsRank
  <2>3. Place(k) \in Nat /\ Place(k) <= k
    BY <2>1, <2>2, RankIs
  <2>4. Place(k) <= Count
    BY <1>1, <1>2, <2>1, <2>2, RankGrows
  <2>. QED  BY <1>1, <2>1, <2>2, <2>3, <2>4
<1>4. ASSUME NEW k \in DOMAIN listing, Fed(listing[k])
      PROVE  /\ Place(k) >= 1
             /\ \A j \in DOMAIN listing : j < k => Place(j) < Place(k)
  <2>1. listing[k] \in FedEntries /\ k \in Nat \ {0}
    BY <1>1, <1>4 DEF FedEntries
  <2>2. /\ Rank(listing, FedEntries, k) >= 1
        /\ \A j \in Nat : j < k => Rank(listing, FedEntries, j) < Rank(listing, FedEntries, k)
    BY <2>1, RankIsOwn
  <2>. QED  BY <1>1, <1>3, <2>2
<1>. QED  BY <1>2, <1>3, <1>4

(* An offer is among the rows read, or one that repeats it is.             *)
ReadBy(taken, offer) ==
  \E i \in DOMAIN taken : taken[i] = MapOffer(offer) \/ Repeats(MapOffer(offer), taken[i])

Holding(before, taken) == \A i \in DOMAIN before : \E j \in DOMAIN taken : taken[j] = before[i]

LEMMA TakeReads ==
  ASSUME source \in Sources, site \in BOOLEAN, links \in {<<>>, Links},
         NEW taken \in Seq(Raws), NEW offer \in Offers
  PROVE  /\ Holding(taken, Take(taken, offer))
         /\ MapOffer(offer) # Nothing => ReadBy(Take(taken, offer), offer)
<1>. DEFINE raw == MapOffer(offer)
            seen == \E i \in DOMAIN taken : Repeats(raw, taken[i])
<1>1. raw \in Raws \cup {Nothing}
  BY MapOfferIsRaw
<1>2. Take(taken, offer) = IF raw = Nothing \/ seen THEN taken ELSE Append(taken, raw)
  BY DEF Take
<1>3. CASE raw = Nothing \/ seen
  BY <1>2, <1>3 DEF Holding, ReadBy
<1>4. CASE ~(raw = Nothing \/ seen)
  <2>. DEFINE more == Append(taken, raw)
  <2>1. /\ Len(taken) + 1 \in DOMAIN more /\ more[Len(taken) + 1] = raw
        /\ \A i \in DOMAIN taken : i \in DOMAIN more /\ more[i] = taken[i]
    <3>1. raw \in Raws
      BY <1>1, <1>4
    <3>. HIDE DEF Raws, raw
    <3>. QED  BY <3>1
  <2>2. Take(taken, offer) = more
    BY <1>2, <1>4
  <2>. HIDE DEF more
  <2>. QED  BY <2>1, <2>2 DEF Holding, ReadBy
<1>. QED  BY <1>3, <1>4

LEMMA ReadStays ==
  ASSUME NEW before, NEW taken, Holding(before, taken), NEW offer, ReadBy(before, offer)
  PROVE  ReadBy(taken, offer)
BY DEF Holding, ReadBy

LEMMA ReadRowsReads ==
  ASSUME source \in Sources, site \in BOOLEAN, links \in {<<>>, Links},
         listing \in Seq(Offers), active \in Seq(Raws)
  PROVE  /\ Holding(active, ReadRows)
         /\ \A k \in DOMAIN listing :
              OnPage(k) /\ MapOffer(listing[k]) # Nothing => ReadBy(ReadRows, listing[k])
<1>1. Len(listing) \in Nat /\ DOMAIN listing = 1 .. Len(listing) /\ \A n \in 1 .. Len(listing) : listing[n] \in Offers
  OBVIOUS
<1>2. PICK after : /\ after[0] = active
                   /\ \A n \in 1 .. Len(listing) :
                        after[n] = IF OnPage(n) THEN Take(after[n - 1], listing[n]) ELSE after[n - 1]
                   /\ ReadRows = after[Len(listing)]
  BY <1>1, ReadDefined
<1>. DEFINE Want(k) == OnPage(k) /\ MapOffer(listing[k]) # Nothing
            Holds(n) == /\ after[n] \in Seq(Raws)
                        /\ Holding(active, after[n])
                        /\ \A k \in 1 .. n : Want(k) => ReadBy(after[n], listing[k])
            T == {n \in Nat : n <= Len(listing) /\ ~Holds(n)}
<1>. HIDE DEF Raws
<1>3. Holds(0)
  BY <1>2 DEF Holding
<1>4. T = {}
  <2>. SUFFICES ASSUME T # {} PROVE FALSE
    OBVIOUS
  <2>1. PICK n \in T : \A k \in T : n <= k
    <3>. T \in SUBSET Nat
      OBVIOUS
    <3>. HIDE DEF T
    <3>. QED  BY SetHasLeast
  <2>2. n # 0
    BY <1>3, <2>1
  <2>3. n - 1 \in Nat /\ n \in 1 .. Len(listing) /\ Holds(n - 1)
    BY <1>1, <2>1, <2>2
  <2>. DEFINE before == after[n - 1]
              taken == Take(before, listing[n])
  <2>4. /\ before \in Seq(Raws) /\ Holding(active, before)
        /\ \A k \in 1 .. n - 1 : Want(k) => ReadBy(before, listing[k])
    BY <2>3
  <2>5. listing[n] \in Offers
    BY <1>1, <2>3
  <2>6. /\ taken \in Seq(Raws) /\ Holding(before, taken)
        /\ MapOffer(listing[n]) # Nothing => ReadBy(taken, listing[n])
    BY <2>4, <2>5, TakeIsRaws, TakeReads
  <2>7. after[n] = IF OnPage(n) THEN taken ELSE before
    BY <1>2, <2>3
  <2>. HIDE DEF before, taken
  <2>8. Holds(n)
    <3>1. \A k \in 1 .. n : k = n \/ k \in 1 .. n - 1
      BY <2>3
    <3>2. CASE ~OnPage(n)
      BY <2>4, <2>7, <3>1, <3>2
    <3>3. CASE OnPage(n)
      <4>1. Holding(active, taken)
        BY <2>4, <2>6 DEF Holding
      <4>2. \A k \in 1 .. n - 1 : Want(k) => ReadBy(taken, listing[k])
        BY <2>4, <2>6, ReadStays
      <4>. QED  BY <2>6, <2>7, <3>1, <3>3, <4>1, <4>2
    <3>. QED  BY <3>2, <3>3
  <2>. QED  BY <2>1, <2>8
<1>5. Holds(Len(listing))
  BY <1>1, <1>4
<1>. QED  BY <1>1, <1>2, <1>5

(* The pages read have passed the entry at k.                              *)
PassedAt(k) ==
  CASE phase = "pull"              -> Fed(listing[k]) /\ Place(k) <= page * Size
    [] phase = "deals"             -> Fed(listing[k]) => Place(k) <= page * Size
    [] phase \in {"pulled", "done"} -> TRUE
    [] OTHER                       -> FALSE

Missing ==
  {offer \in steady : /\ MapOffer(offer) # Nothing /\ ~Read(offer)
                      /\ \E k \in DOMAIN listing : listing[k] = offer /\ PassedAt(k)}

Stage ==
  /\ source \notin Paged \cup {"Admitad", "vCommission"} => page = 0
  /\ phase = "deals" => source = "vCommission"
  /\ phase = "connect" => page = 0

(* Of the entries that stayed and that the pages have passed, no more are  *)
(* unread than were withdrawn.                                             *)
FewMissing == ~cut => IsFiniteSet(Missing) /\ Cardinality(Missing) <= withdrawn

Skips == Stage /\ FewMissing

LEMMA Products ==
  ASSUME NEW p \in Nat, NEW s \in Nat
  PROVE  p * s \in Nat /\ (p + 1) * s = p * s + s /\ 0 * s = 0
OBVIOUS

LEMMA SizeIs ==
  ASSUME listing \in Seq(Offers)
  PROVE  Size \in Nat
BY BatchAssumption DEF Size

LEMMA NoneMissing ==
  ASSUME Pull', phase' \notin {"pull", "deals", "pulled", "done"}
  PROVE  FewMissing'
<1>1. \A k : ~PassedAt(k)'
  BY DEF PassedAt
<1>2. Missing' = {}
  BY <1>1 DEF Missing
<1>3. withdrawn' \in Nat
  BY DEF Pull
<1>. QED  BY <1>2, <1>3, FS_EmptySet DEF FewMissing

LEMMA NoMoreMissing ==
  ASSUME Pull, Pull', FewMissing, cut' = TRUE \/ cut = FALSE, withdrawn' = withdrawn,
         ~cut' => Missing' \subseteq Missing
  PROVE  FewMissing'
<1>. SUFFICES ASSUME ~cut' PROVE IsFiniteSet(Missing') /\ Cardinality(Missing') <= withdrawn'
  BY DEF FewMissing
<1>1. IsFiniteSet(Missing) /\ Cardinality(Missing) <= withdrawn
  BY DEF FewMissing
<1>2. IsFiniteSet(Missing') /\ Cardinality(Missing') <= Cardinality(Missing)
  BY <1>1, FS_Subset
<1>3. Cardinality(Missing) \in Nat /\ Cardinality(Missing') \in Nat /\ withdrawn \in Nat
  BY <1>1, <1>2, FS_CardinalityType DEF Pull
<1>. QED  BY <1>1, <1>2, <1>3

LEMMA SkipsRead ==
  ASSUME Pull, Pull', Skips, ReadPage
  PROVE  Skips'
<1>. DEFINE taken == ReadRows
<1>1. /\ phase \in {"pull", "deals"}
      /\ active' = taken
      /\ cut' = (cut \/ Barren(taken) \/ (Over(taken) /\ ~LastPage(taken)))
      /\ page' = IF Over(taken) THEN 0 ELSE page + 1
      /\ phase' = IF ~Over(taken) THEN phase
                  ELSE IF source = "vCommission" /\ phase = "pull" THEN "deals" ELSE "pulled"
      /\ UNCHANGED <<source, listing, changes, site, links, batch, steady, withdrawn>>
  BY DEF ReadPage
<1>2. /\ Holding(active, taken)
      /\ \A k \in DOMAIN listing :
           OnPage(k) /\ MapOffer(listing[k]) # Nothing => ReadBy(taken, listing[k])
  BY ReadRowsReads DEF Pull
<1>3. ASSUME NEW offer
      PROVE  /\ MapOffer(offer)' = MapOffer(offer)
             /\ Read(offer) <=> ReadBy(active, offer)
             /\ Read(offer)' <=> ReadBy(taken, offer)
  <2>1. MapOffer(offer)' = MapOffer(offer)
    BY <1>1 DEF MapOffer
  <2>2. Read(offer) <=> ReadBy(active, offer)
    BY DEF Read, ReadBy
  <2>3. ASSUME NEW seen PROVE Repeats(MapOffer(offer), seen)' <=> Repeats(MapOffer(offer), seen)
    BY <1>1, <2>1 DEF Repeats
  <2>. HIDE DEF taken
  <2>4. Read(offer)' <=> ReadBy(taken, offer)
    BY <1>1, <2>1, <2>3 DEF Read, ReadBy, Repeats
  <2>. QED  BY <2>1, <2>2, <2>4
<1>4. /\ listing \in Seq(Offers) /\ Len(listing) \in Nat /\ DOMAIN listing = 1 .. Len(listing)
      /\ page \in Nat /\ Size \in Nat /\ Size' = Size
      /\ page * Size \in Nat /\ (page + 1) * Size = page * Size + Size /\ 0 * Size = 0
  <2>1. listing \in Seq(Offers) /\ Len(listing) \in Nat /\ DOMAIN listing = 1 .. Len(listing) /\ page \in Nat
    BY DEF Pull
  <2>2. Size \in Nat /\ Size' = Size
    BY <1>1, <2>1, SizeIs DEF Size
  <2>. QED  BY <2>1, <2>2, Products
<1>. HIDE DEF taken
<1>5. ASSUME ~cut', NEW k \in DOMAIN listing, PassedAt(k)'
      PROVE  PassedAt(k) \/ OnPage(k)
  <2>1. Place(k) \in Nat /\ Place(k) <= Count /\ Place(k) <= Len(listing) /\ Count \in Nat
        /\ (Fed(listing[k]) => Place(k) >= 1)
    BY <1>4, PlaceIs
  <2>2. CASE ~Over(taken)
    <3>1. phase' = phase /\ page' = page + 1
      BY <1>1, <2>2
    <3>2. Fed(listing[k])' = Fed(listing[k]) /\ Place(k)' = Place(k)
      BY <1>1, <3>1 DEF Fed, Place
    <3>3. phase = "pull" => Fed(listing[k]) /\ Place(k) <= page * Size + Size
      BY <1>1, <1>4, <1>5, <3>1, <3>2 DEF PassedAt
    <3>4. phase = "deals" => (Fed(listing[k]) => Place(k) <= page * Size + Size)
      BY <1>1, <1>4, <1>5, <3>1, <3>2 DEF PassedAt
    <3>5. Fed(listing[k]) /\ Place(k) <= page * Size + Size => Place(k) <= page * Size \/ OnPage(k)
      BY <1>4, <2>1 DEF OnPage
    <3>6. CASE phase = "pull"
      BY <3>3, <3>5, <3>6 DEF PassedAt
    <3>7. CASE phase = "deals"
      BY <3>4, <3>5, <3>7 DEF PassedAt
    <3>. QED  BY <1>1, <3>6, <3>7
  <2>3. CASE Over(taken)
    <3>1. LastPage(taken) /\ ~Barren(taken)
      BY <1>1, <1>5, <2>3
    <3>2. CASE source \in Paged
      <4>1. page * Size >= Count
        <5>1. taken = active
          BY <3>1, <3>2 DEF LastPage, Paged
        <5>2. ~(page * Size < Count)
          BY <3>1, <3>2, <5>1 DEF Barren
        <5>. QED  BY <1>4, <2>1, <5>2
      <4>2. source # "vCommission" /\ phase = "pull"
        BY <1>1, <3>2 DEF Paged, Skips, Stage
      <4>3. Fed(listing[k])
        BY <4>2 DEF Fed
      <4>. QED  BY <1>4, <2>1, <4>1, <4>2, <4>3 DEF PassedAt
    <3>3. CASE source \in {"Admitad", "vCommission"}
      <4>1. Count <= page * Size + Size
        <5>1. source \notin Paged
          BY <3>3 DEF Paged
        <5>2. (page + 1) * Size >= Count
          BY <3>1, <3>3, <5>1 DEF LastPage
        <5>. QED  BY <1>4, <2>1, <5>2
      <4>2. CASE Fed(listing[k])
        <5>1. Place(k) <= page * Size \/ OnPage(k)
          BY <1>4, <2>1, <4>1, <4>2 DEF OnPage
        <5>. QED  BY <1>1, <4>2, <5>1 DEF PassedAt
      <4>3. CASE ~Fed(listing[k]) /\ phase = "deals"
        BY <4>3 DEF PassedAt
      <4>4. CASE ~Fed(listing[k]) /\ phase = "pull"
        <5>1. source = "vCommission" /\ phase' = "deals" /\ page' = 0
          BY <1>1, <2>3, <4>4 DEF Fed
        <5>2. Fed(listing[k])'
          BY <1>1, <4>4, <5>1 DEF Fed
        <5>. DEFINE W == {offer \in Offers : Fed(offer)'}
        <5>3. listing[k] \in W /\ k \in Nat \ {0}
          BY <1>1, <1>4, <5>2
        <5>4. Place(k)' = Rank(listing, W, k)
          <6>1. \A j \in 1 .. k : listing[j] \in Offers
            BY <1>4
          <6>2. {j \in 1 .. k : Fed(listing[j])'} = Ranked(listing, W, k)
            BY <1>1, <6>1 DEF Ranked, Fed
          <6>. QED  BY <1>1, <6>2 DEF Place, Rank
        <5>. HIDE DEF W
        <5>5. Place(k)' >= 1 /\ Place(k)' \in Nat
          BY <5>3, <5>4, RankIsOwn, RankIs
        <5>6. Place(k)' <= 0 * Size
          BY <1>1, <1>4, <1>5, <5>1, <5>2 DEF PassedAt
        <5>. QED  BY <1>4, <5>5, <5>6
      <4>. QED  BY <1>1, <4>2, <4>3, <4>4
    <3>4. CASE source \notin Paged \cup {"Admitad", "vCommission"}
      <4>1. page = 0 /\ phase = "pull" /\ Size = Len(listing)
        BY <1>1, <3>4 DEF Skips, Stage, Size
      <4>2. Fed(listing[k])
        BY <3>4 DEF Fed
      <4>3. page * Size = 0
        BY <1>4, <4>1
      <4>. QED  BY <1>4, <2>1, <4>1, <4>2, <4>3 DEF OnPage
    <3>. QED  BY <3>2, <3>3, <3>4
  <2>. QED  BY <2>2, <2>3
<1>6. ~cut' => Missing' \subseteq Missing
  <2>. SUFFICES ASSUME ~cut', NEW offer \in Missing' PROVE offer \in Missing
    OBVIOUS
  <2>1. offer \in steady /\ MapOffer(offer) # Nothing /\ ~ReadBy(taken, offer)
    BY <1>1, <1>3 DEF Missing
  <2>2. PICK k \in DOMAIN listing : listing[k] = offer /\ PassedAt(k)'
    BY <1>1 DEF Missing
  <2>3. PassedAt(k) \/ OnPage(k)
    BY <1>5, <2>2
  <2>4. ~OnPage(k)
    BY <1>2, <2>1, <2>2
  <2>5. ~Read(offer)
    BY <1>2, <1>3, <2>1, ReadStays
  <2>. QED  BY <2>1, <2>2, <2>3, <2>4, <2>5 DEF Missing
<1>7. FewMissing'
  <2>1. cut' = TRUE \/ cut = FALSE
    BY <1>1 DEF Pull
  <2>. QED  BY <1>1, <1>6, <2>1, NoMoreMissing DEF Skips
<1>8. Stage'
  <2>1. source \notin Paged \cup {"Admitad", "vCommission"} => LastPage(taken)
    BY DEF LastPage
  <2>. QED  BY <1>1, <2>1 DEF Skips, Stage, Over
<1>. QED  BY <1>7, <1>8 DEF Skips

(* A change of the list moves an entry, but not what has been read.        *)
LEMMA ListChanges ==
  ASSUME Pull, Pull', Stage, UNCHANGED <<source, phase, page, site, links, active>>
  PROVE  /\ \A offer : MapOffer(offer)' = MapOffer(offer) /\ (Read(offer)' <=> Read(offer))
         /\ \A offer : Fed(offer)' <=> Fed(offer)
         /\ \A k \in DOMAIN listing : Place(k) = Rank(listing, FedEntries, k)
         /\ \A k \in DOMAIN listing' : Place(k)' = Rank(listing', FedEntries, k)
         /\ page * Size \in Nat /\ page' * Size' = page * Size
<1>1. ASSUME NEW offer PROVE MapOffer(offer)' = MapOffer(offer) /\ (Read(offer)' <=> Read(offer))
  <2>1. MapOffer(offer)' = MapOffer(offer)
    BY DEF MapOffer
  <2>. QED  BY <2>1 DEF Read, Repeats
<1>2. ASSUME NEW offer PROVE Fed(offer)' <=> Fed(offer)
  BY DEF Fed
<1>3. /\ listing \in Seq(Offers) /\ listing' \in Seq(Offers)
      /\ DOMAIN listing = 1 .. Len(listing) /\ DOMAIN listing' = 1 .. Len(listing')
      /\ Len(listing) \in Nat /\ Len(listing') \in Nat
  BY DEF Pull
<1>4. ASSUME NEW k \in DOMAIN listing PROVE Place(k) = Rank(listing, FedEntries, k)
  BY <1>3, PlaceIsRank
<1>5. ASSUME NEW k \in DOMAIN listing' PROVE Place(k)' = Rank(listing', FedEntries, k)
  <2>1. \A j \in 1 .. k : listing'[j] \in Offers
    BY <1>3
  <2>2. {j \in 1 .. k : Fed(listing[j])'} = Ranked(listing', FedEntries, k)
    BY <2>1 DEF Ranked, FedEntries, Fed
  <2>. QED  BY <2>2 DEF Place, Rank
<1>6. page * Size \in Nat /\ page' * Size' = page * Size
  <2>1. page \in Nat /\ page' = page /\ source' = source /\ Size \in Nat
    BY <1>3, SizeIs DEF Pull
  <2>2. CASE source \in Paged \cup {"Admitad", "vCommission"}
    <3>1. Size' = Size
      BY <2>1, <2>2 DEF Size
    <3>. QED  BY <2>1, <3>1, Products
  <2>3. CASE source \notin Paged \cup {"Admitad", "vCommission"}
    <3>1. page = 0 /\ page' = 0
      BY <2>1, <2>3 DEF Stage
    <3>2. Size' \in Nat
      <4>1. Size' = Len(listing')
        BY <2>1, <2>3 DEF Size
      <4>. QED  BY <1>3, <4>1
    <3>. QED  BY <2>1, <3>1, <3>2, Products
  <2>. QED  BY <2>2, <2>3
<1>. QED  BY <1>1, <1>2, <1>4, <1>5, <1>6

(* An entry that a change brings at most one place forward was passed      *)
(* before, unless it was the next to be read.                              *)
LEMMA PassedBefore ==
  ASSUME Pull, Pull', Stage, UNCHANGED <<source, phase, page, site, links, active>>,
         NEW k \in DOMAIN listing', NEW l \in DOMAIN listing, listing'[k] = listing[l],
         NEW d \in {0, 1}, Place(k)' >= Place(l) - d, PassedAt(k)'
  PROVE  PassedAt(l) \/ (d = 1 /\ Fed(listing[l]) /\ Place(l) = page * Size + 1)
<1>1. /\ page * Size \in Nat /\ page' * Size' = page * Size /\ phase' = phase
      /\ Place(l) \in Nat
  BY ListChanges, PlaceIs DEF Pull
<1>2. Fed(listing[k])' <=> Fed(listing[l])
  BY DEF Fed
<1>3. Place(k)' \in Nat
  <2>1. Place(k)' = Rank(listing', FedEntries, k)
    BY ListChanges
  <2>2. k \in Nat
    BY DEF Pull
  <2>. QED  BY <2>1, <2>2, RankIs
<1>4. Place(k)' <= page * Size => Place(l) <= page * Size \/ (d = 1 /\ Place(l) = page * Size + 1)
  BY <1>1, <1>3
<1>5. CASE phase = "pull"
  BY <1>1, <1>2, <1>4, <1>5 DEF PassedAt
<1>6. CASE phase = "deals"
  BY <1>1, <1>2, <1>4, <1>6 DEF PassedAt
<1>7. CASE phase \notin {"pull", "deals"}
  BY <1>1, <1>7 DEF PassedAt
<1>. QED  BY <1>5, <1>6, <1>7

LEMMA SkipsLists ==
  ASSUME Pull, Pull', Skips, Lists
  PROVE  Skips'
<1>1. UNCHANGED <<source, phase, page, site, links, active, batch, steady, withdrawn, cut>>
  BY DEF Lists
<1>2. PICK offer \in Offers \ Range(listing) : listing' = <<offer>> \o listing \/ listing' = listing \o <<offer>>
  BY DEF Lists
<1>3. /\ \A o : MapOffer(o)' = MapOffer(o) /\ (Read(o)' <=> Read(o))
      /\ \A k \in DOMAIN listing : Place(k) = Rank(listing, FedEntries, k)
      /\ \A k \in DOMAIN listing' : Place(k)' = Rank(listing', FedEntries, k)
  BY <1>1, ListChanges DEF Skips
<1>4. listing \in Seq(Offers) /\ Len(listing) \in Nat /\ DOMAIN listing = 1 .. Len(listing)
  BY DEF Pull
<1>5. ASSUME NEW k \in DOMAIN listing', listing'[k] \in Range(listing), PassedAt(k)'
      PROVE  \E l \in DOMAIN listing : listing[l] = listing'[k] /\ PassedAt(l)
  <2>1. listing'[k] # offer
    BY <1>2, <1>5
  <2>2. PICK l \in DOMAIN listing : listing[l] = listing'[k] /\ Place(k)' >= Place(l)
    <3>1. CASE listing' = <<offer>> \o listing
      <4>1. k \in 1 .. Len(listing) + 1 /\ k # 1 /\ k - 1 \in DOMAIN listing /\ (k - 1) + 1 = k
            /\ listing[k - 1] = listing'[k]
        BY <1>4, <2>1, <3>1
      <4>2. Rank(<<offer>> \o listing, FedEntries, (k - 1) + 1) >= Rank(listing, FedEntries, k - 1)
        BY <1>4, <4>1, RankInFront
      <4>3. Place(k)' >= Place(k - 1)
        BY <1>3, <3>1, <4>1, <4>2
      <4>. QED  BY <4>1, <4>3
    <3>2. CASE listing' = listing \o <<offer>>
      <4>1. k \in DOMAIN listing /\ listing[k] = listing'[k]
        BY <1>4, <2>1, <3>2
      <4>2. Rank(listing \o <<offer>>, FedEntries, k) = Rank(listing, FedEntries, k)
        BY <1>4, <4>1, RankBehind
      <4>3. Place(k)' = Place(k) /\ Place(k) \in Nat
        BY <1>3, <1>4, <3>2, <4>1, <4>2, PlaceIs
      <4>. QED  BY <4>1, <4>3
    <3>. QED  BY <1>2, <3>1, <3>2
  <2>3. Place(k)' >= Place(l) - 0
    <3>1. Place(l) \in Nat
      BY <1>4, PlaceIs
    <3>. QED  BY <2>2, <3>1
  <2>4. PassedAt(l)
    BY <1>1, <1>5, <2>2, <2>3, PassedBefore DEF Skips
  <2>. QED  BY <2>2, <2>4
<1>6. Missing' \subseteq Missing
  <2>. SUFFICES ASSUME NEW o \in Missing' PROVE o \in Missing
    OBVIOUS
  <2>1. o \in steady /\ MapOffer(o) # Nothing /\ ~Read(o)
    BY <1>1, <1>3 DEF Missing
  <2>2. PICK k \in DOMAIN listing' : listing'[k] = o /\ PassedAt(k)'
    BY DEF Missing
  <2>3. o \in Range(listing)
    BY <2>1 DEF Pull
  <2>. QED  BY <1>5, <2>1, <2>2, <2>3 DEF Missing
<1>7. FewMissing'
  <2>1. cut' = TRUE \/ cut = FALSE
    BY <1>1 DEF Pull
  <2>. QED  BY <1>1, <1>6, <2>1, NoMoreMissing DEF Skips
<1>. QED  BY <1>1, <1>7 DEF Skips, Stage

LEMMA SkipsWithdraws ==
  ASSUME Pull, Pull', Skips, Withdraws
  PROVE  Skips'
<1>1. /\ UNCHANGED <<source, phase, page, site, links, active, batch, cut>>
      /\ withdrawn' = withdrawn + 1
  BY DEF Withdraws
<1>2. PICK i \in DOMAIN listing : listing' = RemoveAt(listing, i) /\ steady' = steady \ {listing[i]}
  BY DEF Withdraws
<1>3. /\ \A o : MapOffer(o)' = MapOffer(o) /\ (Read(o)' <=> Read(o))
      /\ \A k \in DOMAIN listing : Place(k) = Rank(listing, FedEntries, k)
      /\ \A k \in DOMAIN listing' : Place(k)' = Rank(listing', FedEntries, k)
  BY <1>1, ListChanges DEF Skips
<1>4. listing \in Seq(Offers) /\ Len(listing) \in Nat /\ DOMAIN listing = 1 .. Len(listing)
  BY DEF Pull
<1>. DEFINE Following(l) == Fed(listing[l]) /\ Place(l) = page * Size + 1
<1>5. ASSUME NEW k \in DOMAIN listing', PassedAt(k)'
      PROVE  \E l \in DOMAIN listing : listing[l] = listing'[k] /\ (PassedAt(l) \/ Following(l))
  <2>1. /\ k \in 1 .. Len(listing) - 1
        /\ listing'[k] = IF k < i THEN listing[k] ELSE listing[k + 1]
    <3>1. /\ listing' \in Seq(Offers) /\ Len(listing') = Len(listing) - 1
          /\ \A n \in 1 .. Len(listing) - 1 : listing'[n] = IF n < i THEN listing[n] ELSE listing[n + 1]
      BY <1>2, <1>4, RemoveAtIs
    <3>2. DOMAIN listing' = 1 .. Len(listing) - 1
      BY <3>1
    <3>. QED  BY <3>1, <3>2
  <2>2. PICK l \in DOMAIN listing : listing'[k] = listing[l] /\ Place(k)' >= Place(l) - 1
    <3>1. CASE k < i
      <4>1. k \in DOMAIN listing /\ listing'[k] = listing[k] /\ Place(k) \in Nat
        BY <1>4, <2>1, <3>1, PlaceIs
      <4>2. Rank(RemoveAt(listing, i), FedEntries, k) = Rank(listing, FedEntries, k)
        BY <1>4, <2>1, <3>1, RankAfterRemoval
      <4>3. Place(k)' = Place(k)
        BY <1>2, <1>3, <4>1, <4>2
      <4>. QED  BY <4>1, <4>3
    <3>2. CASE ~(k < i)
      <4>1. k + 1 \in DOMAIN listing /\ listing'[k] = listing[k + 1]
        BY <1>4, <2>1, <3>2
      <4>2. Rank(RemoveAt(listing, i), FedEntries, k) >= Rank(listing, FedEntries, k + 1) - 1
        BY <1>4, <2>1, <3>2, RankAfterRemoval
      <4>3. Place(k)' >= Place(k + 1) - 1
        BY <1>2, <1>3, <4>1, <4>2
      <4>. QED  BY <4>1, <4>3
    <3>. QED  BY <3>1, <3>2
  <2>3. PassedAt(l) \/ Following(l)
    BY <1>1, <1>5, <2>2, PassedBefore DEF Skips
  <2>. QED  BY <2>2, <2>3
<1>6. \A k, l \in DOMAIN listing : Following(k) /\ Following(l) => k = l
  <2>1. ASSUME NEW k \in DOMAIN listing, NEW l \in DOMAIN listing, Following(k), Following(l), k < l
        PROVE  FALSE
    <3>1. Place(k) < Place(l) /\ Place(k) = Place(l) /\ Place(k) \in Nat
      BY <1>4, <2>1, PlaceIs
    <3>. QED  BY <3>1
  <2>. HIDE DEF Following
  <2>. QED  BY <1>4, <2>1
<1>7. PICK one : \A l \in DOMAIN listing : Following(l) => listing[l] = one
  <2>. HIDE DEF Following
  <2>1. CASE \E l \in DOMAIN listing : Following(l)
    BY <1>6, <2>1
  <2>. QED  BY <2>1
<1>. HIDE DEF Following
<1>8. Missing' \subseteq Missing \cup {one}
  <2>. SUFFICES ASSUME NEW o \in Missing', o # one PROVE o \in Missing
    OBVIOUS
  <2>1. o \in steady /\ MapOffer(o) # Nothing /\ ~Read(o)
    BY <1>2, <1>3 DEF Missing
  <2>2. PICK k \in DOMAIN listing' : listing'[k] = o /\ PassedAt(k)'
    BY DEF Missing
  <2>3. PICK l \in DOMAIN listing : listing[l] = o /\ (PassedAt(l) \/ Following(l))
    BY <1>5, <2>2
  <2>. QED  BY <1>7, <2>1, <2>3 DEF Missing
<1>9. FewMissing'
  <2>. SUFFICES ASSUME ~cut PROVE IsFiniteSet(Missing') /\ Cardinality(Missing') <= withdrawn + 1
    BY <1>1 DEF FewMissing
  <2>1. IsFiniteSet(Missing) /\ Cardinality(Missing) <= withdrawn
    BY DEF Skips, FewMissing
  <2>2. /\ IsFiniteSet(Missing \cup {one})
        /\ Cardinality(Missing \cup {one}) = IF one \in Missing THEN Cardinality(Missing) ELSE Cardinality(Missing) + 1
    BY <2>1, FS_AddElement
  <2>3. IsFiniteSet(Missing') /\ Cardinality(Missing') <= Cardinality(Missing \cup {one})
    BY <1>8, <2>2, FS_Subset
  <2>4. Cardinality(Missing) \in Nat /\ Cardinality(Missing') \in Nat /\ withdrawn \in Nat
    BY <2>1, <2>3, FS_CardinalityType DEF Pull
  <2>. QED  BY <2>1, <2>2, <2>3, <2>4
<1>. QED  BY <1>1, <1>9 DEF Skips, Stage

LEMMA SkipsInit == Init => Skips
<1>. SUFFICES ASSUME Init PROVE Skips
  OBVIOUS
<1>1. Stage
  BY DEF Init, Stage
<1>2. Missing = {}
  BY DEF Missing, PassedAt, Init
<1>. QED  BY <1>1, <1>2, FS_EmptySet DEF Skips, FewMissing, Init

LEMMA SkipsNext == Pull /\ Pull' /\ Skips /\ [Next]_vars => Skips'
<1>. SUFFICES ASSUME Pull, Pull', Skips, [Next]_vars PROVE Skips'
  OBVIOUS
<1>1. CASE Connect
  <2>1. phase' = "pull" /\ page = 0 /\ UNCHANGED <<source, listing, page, active, steady, withdrawn, cut>>
    BY <1>1 DEF Connect, Skips, Stage
  <2>2. ASSUME NEW k \in DOMAIN listing, PassedAt(k)' PROVE FALSE
    <3>1. /\ listing' \in Seq(Offers) /\ listing' = listing /\ Len(listing) \in Nat
          /\ DOMAIN listing = 1 .. Len(listing) /\ \A j \in DOMAIN listing : listing[j] \in Offers
      BY <2>1 DEF Pull
    <3>. DEFINE W == {offer \in Offers : Fed(offer)'}
    <3>2. {j \in 1 .. k : Fed(listing[j])'} = Ranked(listing, W, k)
      BY <2>1, <3>1 DEF Ranked, Fed
    <3>3. Place(k)' = Rank(listing, W, k)
      BY <2>1, <3>2 DEF Place, Rank
    <3>4. Fed(listing[k])' /\ Place(k)' <= 0 * Size'
      BY <2>1, <2>2 DEF PassedAt
    <3>5. listing[k] \in W /\ k \in Nat \ {0}
      BY <2>1, <3>1, <3>4
    <3>. HIDE DEF W
    <3>6. Place(k)' >= 1 /\ Place(k)' \in Nat
      BY <3>3, <3>5, RankIsOwn, RankIs
    <3>7. Size' \in Nat
      BY <3>1, BatchAssumption DEF Size
    <3>8. 0 * Size' = 0
      BY <3>7, Products
    <3>. QED  BY <3>4, <3>6, <3>8
  <2>3. Missing' = {}
    BY <2>1, <2>2 DEF Missing
  <2>4. FewMissing'
    BY <2>3, FS_EmptySet DEF FewMissing, Pull
  <2>5. Stage'
    BY <2>1 DEF Stage
  <2>. QED  BY <2>4, <2>5 DEF Skips
<1>2. CASE ReadPage
  BY <1>2, SkipsRead
<1>3. CASE RequestFails
  <2>1. phase' = "failed" /\ page' = 0 /\ source' = source
    BY <1>3 DEF RequestFails
  <2>. QED  BY <2>1, NoneMissing DEF Skips, Stage
<1>4. CASE Normalise
  <2>1. /\ phase = "pulled" /\ phase' = "done"
        /\ UNCHANGED <<source, listing, page, site, links, active, steady, withdrawn, cut>>
    BY <1>4 DEF Normalise
  <2>2. \A offer : MapOffer(offer)' = MapOffer(offer)
    BY <2>1 DEF MapOffer
  <2>3. \A offer : Read(offer)' <=> Read(offer)
    BY <2>1, <2>2 DEF Read, Repeats
  <2>4. \A k : PassedAt(k)
    BY <2>1 DEF PassedAt
  <2>5. Missing' \subseteq Missing
    BY <2>1, <2>2, <2>3, <2>4 DEF Missing
  <2>6. cut' = TRUE \/ cut = FALSE
    BY <2>1 DEF Pull
  <2>7. FewMissing'
    BY <2>1, <2>5, <2>6, NoMoreMissing DEF Skips
  <2>. QED  BY <2>1, <2>7 DEF Skips, Stage
<1>5. CASE NextPull
  <2>1. phase' = "connect" /\ page' = 0 /\ source' = source
    BY <1>5 DEF NextPull
  <2>. QED  BY <2>1, NoneMissing DEF Skips, Stage
<1>6. CASE Lists
  BY <1>6, SkipsLists
<1>7. CASE Withdraws
  BY <1>7, SkipsWithdraws
<1>8. CASE UNCHANGED vars
  <2>1. /\ UNCHANGED <<source, phase, page, site, links, active>> /\ UNCHANGED <<listing, steady, withdrawn, cut>>
    BY <1>8 DEF vars
  <2>2. \A offer : MapOffer(offer)' = MapOffer(offer) /\ (Read(offer)' <=> Read(offer))
    BY <2>1, ListChanges DEF Skips
  <2>3. \A k : PassedAt(k)' <=> PassedAt(k)
    BY <2>1 DEF PassedAt, Fed, Place, Size
  <2>4. Missing' = Missing
    BY <2>1, <2>2, <2>3 DEF Missing
  <2>. QED  BY <2>1, <2>4 DEF Skips, FewMissing, Stage
<1>. QED  BY <1>1, <1>2, <1>3, <1>4, <1>5, <1>6, <1>7, <1>8 DEF Next

(* Pages that shift under the pull: entries added while it runs only make  *)
(* it read some twice, and each entry withdrawn costs it one other at      *)
(* most, for any page size, any list and any number of changes.            *)
THEOREM ShiftingPagesSkipFew == Spec => []NoOfferSkipped
<1>1. Pull /\ Skips => NoOfferSkipped
  <2>. SUFFICES ASSUME Pull, Skips, phase \in {"pulled", "done"}, ~cut
                PROVE  Cardinality({offer \in steady : MapOffer(offer) # Nothing /\ ~Read(offer)}) <= withdrawn
    BY DEF NoOfferSkipped
  <2>1. \A k : PassedAt(k)
    BY DEF PassedAt
  <2>2. \A offer \in steady : \E k \in DOMAIN listing : listing[k] = offer
    BY DEF Pull, Range
  <2>3. Missing = {offer \in steady : MapOffer(offer) # Nothing /\ ~Read(offer)}
    BY <2>1, <2>2 DEF Missing
  <2>. QED  BY <2>3 DEF Skips, FewMissing
<1>2. Pull /\ Skips /\ [Next]_vars => (Pull /\ Skips)'
  BY PullNext, SkipsNext
<1>3. Init => Pull /\ Skips
  BY PullInit, SkipsInit
<1>. QED  BY <1>1, <1>2, <1>3, PTL DEF Spec

=============================================================================
