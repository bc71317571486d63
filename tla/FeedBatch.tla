----------------------------- MODULE FeedBatch ------------------------------
(* One pull of a source, page by page, while its supplier keeps changing   *)
(* the list, and the batch of rows that the pipeline is given.             *)
(*                                                                         *)
(* Bounds: PageSize and MaxPages are those of the adapters, scaled down;   *)
(* the supplier changes its list MaxChanges times.                         *)
EXTENDS Adapters, FiniteSets, SequencesExt

CONSTANTS Offers, Listings, Links, PageSize, MaxPages, MaxChanges

ASSUME BatchAssumption ==
  /\ PageSize \in Nat \ {0}
  /\ MaxPages \in Nat \ {0}
  /\ MaxChanges \in Nat
  /\ Listings \subseteq Seq(Offers)
  /\ \A offer \in Offers :
       /\ offer.merchant \in DOMAIN Key \cup {None} /\ offer.code \in DOMAIN Upper \cup {None}
       /\ {offer.chip, offer.title, offer.body} \subseteq Texts
       /\ offer.hint \in Types \cup {"none"} /\ offer.number \in Values
       /\ offer.merchant = None => Keep(offer) = "skip"

VARIABLES source,    \* the adapter at work
          listing,   \* the supplier's list, as the next request would find it
          changes,   \* how often the supplier has changed it
          phase,     \* "connect", "pull", "deals" (vCommission), "pulled", "done" or "failed"
          page,      \* the pages read
          site,      \* Admitad: the ad space was found
          links,     \* vCommission: the tracked link of each campaign
          active,    \* the raw coupons read
          batch,     \* the rows they become
          steady,    \* history: the entries listed since the pull began
          withdrawn, \* history: the entries withdrawn since then
          cut        \* history: the pull ended at a barren page or at the page limit

vars == <<source, listing, changes, phase, page, site, links, active, batch,
          steady, withdrawn, cut>>

Init ==
  /\ source \in Sources
  /\ listing \in Listings
  /\ changes = 0
  /\ phase = "connect"
  /\ page = 0
  /\ site = TRUE
  /\ links = <<>>
  /\ active = <<>>
  /\ batch = <<>>
  /\ steady = Range(listing)
  /\ withdrawn = 0
  /\ cut = FALSE

-----------------------------------------------------------------------------
(* Reading.                                                                *)

(* Admitad: the first joined ad space, if the websites call finds one.     *)
AdSpaces == IF source = "Admitad" THEN BOOLEAN ELSE {TRUE}

(* vCommission: the tracked link of each campaign that has one.            *)
CampaignLinks == IF source = "vCommission" THEN Links ELSE <<>>

(* What a source needs before its first page, the token included.          *)
Connect ==
  /\ phase = "connect"
  /\ phase' = "pull"
  /\ site' \in AdSpaces
  /\ links' = CampaignLinks
  /\ UNCHANGED <<source, listing, changes, page, active, batch, steady, withdrawn, cut>>

MapOffer(offer) ==
  CASE source = "Cuelinks"           -> CuelinksOffer(offer)
    [] source = "Involve Asia"       -> InvolveAsiaOffer(offer)
    [] source = "Feedico"            -> FeedicoOffer(offer)
    [] source = "Admitad"            -> AdmitadCoupon(offer, site)
    [] source = "vCommission"        -> IF offer.code # None THEN VCommissionCoupon(offer, links)
                                        ELSE VCommissionDeal(offer, links)
    [] source = "INRDeals"           -> InrdealsCoupon(offer)
    [] source = "Desidime"           -> DesidimeCard(offer)
    [] source = "LinkMyDeals"        -> LinkMyDealsOffer(offer)
    [] source = "Editorial curation" -> EditorialRow(offer)

(* vCommission lists coupons and deals apart.                              *)
Fed(offer) == source = "vCommission" => (offer.code # None <=> phase = "pull")

(* The place of an entry in the list that is fetched.                      *)
Place(k) == Cardinality({j \in 1 .. k : Fed(listing[j])})

Count == Place(Len(listing))

Size == IF source \in Paged \cup {"Admitad", "vCommission"} THEN PageSize ELSE Len(listing)

OnPage(k) == Fed(listing[k]) /\ Place(k) \in page * Size + 1 .. (page + 1) * Size

(* What the adapter recognises a repeated entry by.                        *)
Repeats(raw, seen) ==
  /\ source \in Paged \cup {"Admitad"}
  /\ IF source = "Feedico" /\ raw.ref = None
     THEN raw.merchant = seen.merchant /\ raw.code = seen.code /\ seen.ref = None
     ELSE raw.ref = seen.ref

Take(taken, offer) ==
  LET raw == MapOffer(offer)
  IN IF raw = Nothing \/ \E i \in DOMAIN taken : Repeats(raw, taken[i]) THEN taken
     ELSE Append(taken, raw)

ReadRows ==
  LET after[n \in 0 .. Len(listing)] ==
        IF n = 0 THEN active
        ELSE IF OnPage(n) THEN Take(after[n - 1], listing[n]) ELSE after[n - 1]
  IN after[Len(listing)]

Barren(taken) == source \in Paged /\ page * Size < Count /\ taken = active

\* Mutant: the offset of the page after next decides.
LastPageEarly(taken) ==
  CASE source \in Paged                     -> taken = active
    [] source \in {"Admitad", "vCommission"} -> (page + 2) * Size >= Count
    [] OTHER                                -> TRUE

LastPage(taken) ==
  CASE source \in Paged                     -> taken = active
    [] source \in {"Admitad", "vCommission"} -> (page + 1) * Size >= Count
    [] OTHER                                -> TRUE

\* Mutant: one page past the limit is read.
OverBeyond(taken) == LastPage(taken) \/ page = MaxPages

Over(taken) == LastPage(taken) \/ page + 1 = MaxPages

ReadPage ==
  /\ phase \in {"pull", "deals"}
  /\ LET taken == ReadRows
     IN /\ active' = taken
        /\ cut' = (cut \/ Barren(taken) \/ (Over(taken) /\ ~LastPage(taken)))
        /\ page' = IF Over(taken) THEN 0 ELSE page + 1
        /\ phase' = IF ~Over(taken) THEN phase
                    ELSE IF source = "vCommission" /\ phase = "pull" THEN "deals" ELSE "pulled"
  /\ UNCHANGED <<source, listing, changes, site, links, batch, steady, withdrawn>>

(* A refused or unreachable request ends the pull with nothing.            *)
RequestFails ==
  /\ phase \in {"connect", "pull", "deals"}
  /\ source # "Editorial curation"
  /\ phase' = "failed"
  /\ page' = 0
  /\ active' = <<>>
  /\ UNCHANGED <<source, listing, changes, site, links, batch, steady, withdrawn, cut>>

-----------------------------------------------------------------------------
(* The batch, and the next pull.                                           *)

Normalise ==
  /\ phase = "pulled"
  /\ phase' = "done"
  /\ batch' = NormalizeAndDedupe(active)
  /\ UNCHANGED <<source, listing, changes, page, site, links, active, steady, withdrawn, cut>>

NextPull ==
  /\ phase \in {"done", "failed"}
  /\ phase' = "connect"
  /\ page' = 0
  /\ active' = <<>>
  /\ batch' = <<>>
  /\ site' = TRUE
  /\ links' = <<>>
  /\ steady' = Range(listing)
  /\ withdrawn' = 0
  /\ cut' = FALSE
  /\ UNCHANGED <<source, listing, changes>>

-----------------------------------------------------------------------------
(* The supplier, at any time between two requests.                         *)

Lists ==
  /\ changes < MaxChanges
  /\ \E offer \in Offers \ Range(listing) :
       \/ listing' = <<offer>> \o listing
       \/ listing' = listing \o <<offer>>
  /\ changes' = changes + 1
  /\ UNCHANGED <<source, phase, page, site, links, active, batch, steady, withdrawn, cut>>

Withdraws ==
  /\ changes < MaxChanges
  /\ \E i \in DOMAIN listing :
       /\ listing' = RemoveAt(listing, i)
       /\ steady' = steady \ {listing[i]}
  /\ withdrawn' = withdrawn + 1
  /\ changes' = changes + 1
  /\ UNCHANGED <<source, phase, page, site, links, active, batch, cut>>

Next ==
  \/ Connect
  \/ ReadPage
  \/ RequestFails
  \/ Normalise
  \/ NextPull
  \/ Lists
  \/ Withdraws

Spec == Init /\ [][Next]_vars

-----------------------------------------------------------------------------
(* Properties.                                                             *)

Raws == [merchant : DOMAIN Key, code : {None} \cup DOMAIN Upper,
         ref : {offer.ref : offer \in Offers}, reveal : BOOLEAN,
         text : {offer.title : offer \in Offers} \cup {offer.chip : offer \in Offers}
                \cup {offer.body : offer \in Offers}
                \cup {MaskCurrency(offer.body) : offer \in Offers},
         label : [type : Types, value : Values],
         ends : {None} \cup {offer.ends : offer \in Offers}, link : {None} \cup {offer.link : offer \in Offers}
                                                          \cup {Links[m] : m \in DOMAIN Links}]

(* The pull is at one of its steps, what it has read are raw coupons of    *)
(* the source's own entries, and only a finished pull has a batch.         *)
TypeOK ==
  /\ source \in Sources
  /\ Range(listing) \subseteq Offers
  /\ changes \in 0 .. MaxChanges /\ withdrawn \in 0 .. changes
  /\ phase \in {"connect", "pull", "deals", "pulled", "done", "failed"}
  /\ page \in 0 .. MaxPages - 1
  /\ site \in BOOLEAN /\ cut \in BOOLEAN
  /\ DOMAIN links \subseteq DOMAIN Links
  /\ Range(active) \subseteq Raws
  /\ steady \subseteq Range(listing)
  /\ batch # <<>> => phase = "done"

Read(offer) ==
  \E i \in DOMAIN active : active[i] = MapOffer(offer) \/ Repeats(MapOffer(offer), active[i])

(* Pages that shift under the pull: entries added while it runs only make  *)
(* it read some twice, and each entry withdrawn costs it one other at      *)
(* most.  A pull cut short by its page limit or by a page that added       *)
(* nothing is not held to this.                                            *)
NoOfferSkipped ==
  phase \in {"pulled", "done"} /\ ~cut =>
    Cardinality({offer \in steady : MapOffer(offer) # Nothing /\ ~Read(offer)}) <= withdrawn

Readings == {raw \in Range(active) : Identified(raw)}

(* Where a reading is a source: <<row, position in its sources>>.          *)
Places(rows, raw) ==
  {at \in UNION {{i} \X DOMAIN rows[i].sources : i \in DOMAIN rows} : rows[at[1]].sources[at[2]] = raw}

(* Deduplication loses nothing and lends nothing: every identified reading *)
(* is a source as often as it was read, and of rows that carry its code    *)
(* and a merchant near its spelling only; no identity has two rows.        *)
SourcesAreKept ==
  phase = "done" =>
    /\ \A raw \in Readings :
         Cardinality(Places(batch, raw)) = Cardinality({n \in DOMAIN active : active[n] = raw})
    /\ \A row \in Range(batch) : \A raw \in Range(row.sources) :
         /\ raw \in Readings
         /\ NormalizeCode(raw.code) = row.code
         /\ Near(Key[raw.merchant], row.merchant)
    /\ \A i, j \in DOMAIN batch : Identity(batch[i]) = Identity(batch[j]) => i = j

(* What a reader of the text takes the offer for, if it says.              *)
Named(t) ==
  CASE "cashback" \in t.words -> "cashback"
    [] "bogo" \in t.words /\ "cashback" \notin t.words -> "bogo"
    [] t.words \cap {"cashback", "bogo"} = {} /\ Plausible(t.pct) -> "percentage"
    [] t.words \cap {"cashback", "bogo"} = {} /\ ~Plausible(t.pct) /\ t.rup > 0 -> "fixed"
    [] t.words \cap {"cashback", "bogo"} = {} /\ "shipping" \in t.words
         /\ t.pct = NoValue /\ t.rup = NoValue -> "free_shipping"
    [] OTHER -> "unknown"

(* The chip a visitor sees never contradicts the text next to it: whatever *)
(* the feed's label said and whatever duplicates were merged, a row whose  *)
(* first reading has a telling text bears the type and the amount it tells.*)
LabelFollowsText ==
  \A row \in Range(batch) :
    LET t == row.sources[1].text
    IN Named(t) # "unknown" =>
         /\ row.text = t
         /\ row.label.type = Named(t)
         /\ row.label.type = "percentage" => row.label.value = t.pct
         /\ row.label.type = "fixed" => row.label.value = t.rup

(* No "100% off": a percentage shown lies in 1..95 and a flat amount is    *)
(* not zero, unless some reading of the row came with a number of no       *)
(* known type or a zero of another one (a cashback by its label), which a  *)
(* typed duplicate then turns into its own.                                *)
LabelIsPlausible ==
  \A row \in Range(batch) :
    \/ \E raw \in Range(row.sources) :
          LET l == SanitizeDiscount(raw.label, raw.text)
          IN l.value = 0 \/ (l.type = "unknown" /\ l.value # NoValue)
    \/ /\ row.label.type = "percentage" => Plausible(row.label.value)
       /\ row.label.type = "fixed" => row.label.value # 0

=============================================================================
