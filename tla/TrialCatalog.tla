---------------------------- MODULE TrialCatalog ----------------------------
(***************************************************************************)
(* The free-trial offers of one tool and what writes them: the extraction  *)
(* (a pricing page read by an LLM), the live verification, and the seeding *)
(* script, which retires, deduplicates and overwrites offers; and the      *)
(* cancel reminders that refer to an offer.                                *)
(*                                                                         *)
(* Extraction and verification are database sessions that hold their copy  *)
(* of the rows over minutes of HTTP, and at the commit write the columns   *)
(* that differ from the copy; a session keeps the columns it may change.  A*)
(* row that was deleted meanwhile makes the whole commit fail              *)
(* (StaleDataError).  The seeding does nothing but SQL and is one step.    *)
(* Facts other than title and type, their source and the score are left    *)
(* out: the score orders lists, and decides the status of a check.         *)
(***************************************************************************)
EXTENDS Integers, FiniteSets, Sequences, SequencesExt

CONSTANTS
  Extractors,     \* concurrent extractions of the tool
  Verifiers,      \* concurrent verification runs
  Reminders,      \* reminders users may set
  Titles, Name,   \* titles, and the title without case and spacing
  Default,        \* the title given to an offer the LLM did not title
  Types,          \* offer types
  Answers,        \* what the LLM may extract: sequences of titles and types
  Curated,        \* the rows of the seeding: title and type
  Retired,        \* titles the seeding removes
  VerifyLimit,    \* offers one verification run takes
  ReverifyAfter,  \* trial_reverify_hours
  MaxId,          \* bound: offers ever inserted
  MaxTime,        \* bound: last tick of the clock
  MaxSeeds,       \* bound: runs of the seeding
  MaxPages        \* bound: versions of the pricing page

Untitled == "untitled"
Absent == "absent"
Never == 0
NoId == 0
Unset == -1
Ids == 1 .. MaxId
Sessions == Extractors \cup Verifiers

ASSUME TrialAssumption ==
  /\ Extractors \cap Verifiers = {}
  /\ Name \in [Titles -> Titles]
  /\ Default \in Titles
  /\ Titles \cap {Untitled, Absent} = {}
  /\ Answers \subseteq Seq([title : Titles \cup {Untitled}, type : Types])
  /\ Curated \subseteq [title : Titles, type : Types] /\ IsFiniteSet(Curated)
  /\ \A a, b \in Curated : a.title = b.title => a = b
  /\ Retired \subseteq Titles
  /\ {VerifyLimit, ReverifyAfter, MaxId, MaxSeeds} \subseteq Nat
  /\ {MaxTime, MaxPages} \subseteq Nat \ {0}

VARIABLES
  offers,      \* offers[i]: the trial_offers row with id i, or NoRow
  lastId,      \* the last id given out
  reminder,    \* reminder[r]: the offer_id of a reminder, Unset before it exists
  page,        \* the version of the pricing page
  session,     \* session[s]: what an extraction or a verification has loaded
  verdict,     \* history: the status the last committed check of an offer gave
  now, seeds

vars == <<offers, lastId, reminder, page, session, verdict, now, seeds>>

Status == {"unverified", "likely_active", "verified", "broken"}
NoRow == [title |-> Absent]
Row == [title : Titles, type : Types, hash : 0 .. MaxPages, status : Status,
        verifiedAt : 0 .. MaxTime]

Idle == [task |-> "none", page |-> 0, rows |-> [i \in Ids |-> NoRow], status |-> [i \in {} |-> "none"]]

Listed(rows) == {i \in Ids : rows[i] # NoRow}

Init ==
  /\ offers = [i \in Ids |-> NoRow]
  /\ lastId = 0
  /\ reminder = [r \in Reminders |-> Unset]
  /\ page = 1
  /\ session = [s \in Sessions |-> Idle]
  /\ verdict = [i \in Ids |-> "none"]
  /\ now = 1 /\ seeds = 0

----------------------------------------------------------------------------
(* Extraction.                                                             *)

Facts(row) == IF row = NoRow THEN NoRow ELSE [title |-> row.title, type |-> row.type]

(* The page is fetched and the rows loaded.  A page whose hash is on any   *)
(* row was read before and the LLM is not asked; a thin or blocked page    *)
(* ends the task as well.                                                  *)
FetchPage(e) ==
  /\ session[e].task = "none"
  /\ \A i \in Listed(offers) : offers[i].hash # page
  /\ session' = [session EXCEPT ![e] = [Idle EXCEPT !.task = "extract", !.page = page,
                                                    !.rows = [i \in Ids |-> Facts(offers[i])]]]
  /\ UNCHANGED <<offers, lastId, reminder, page, verdict, now, seeds>>

(* The maps by_title and by_type hold the first row, in the order of an    *)
(* unordered SELECT, of each title and type.                               *)
Firsts(keyOf, Keys) ==
  {f \in [Keys -> DOMAIN keyOf \cup {NoId}] :
     \A k \in Keys : LET of == {i \in DOMAIN keyOf : keyOf[i] = k}
                     IN IF of = {} THEN f[k] = NoId ELSE f[k] \in of}

NameOf(row) == Name[row.title]

\* Mutant: rows are matched by their type only.
MatchByType(acc, eo) == acc.byType[eo.type]

Match(acc, eo) ==
  IF eo.title # Untitled /\ acc.byTitle[Name[eo.title]] # NoId
  THEN acc.byTitle[Name[eo.title]] ELSE acc.byType[eo.type]

NewOffer(eo) ==
  [title |-> IF eo.title = Untitled THEN Default ELSE eo.title, type |-> eo.type]

\* Mutant: a row that was new is new again for the next offer.
ApplyOfferUncounted(acc, eo) ==
  LET known == Match(acc, eo) # NoId
      i == IF known THEN Match(acc, eo) ELSE acc.lastId + 1
  IN [acc EXCEPT !.rows[i] = NewOffer(eo)]

(* One extracted offer lands on the row it matches, or on a new one.  The  *)
(* maps learn the new title and, for a new row, its type; they forget none.*)
ApplyOffer(acc, eo) ==
  LET known == Match(acc, eo) # NoId
      i == IF known THEN Match(acc, eo) ELSE acc.lastId + 1
      row == IF known THEN acc.rows[i] ELSE NewOffer(eo)
  IN [rows    |-> [acc.rows EXCEPT ![i] =
                     [title |-> IF eo.title = Untitled THEN row.title ELSE eo.title,
                      type  |-> eo.type]],
      byTitle |-> IF eo.title = Untitled THEN acc.byTitle
                  ELSE [acc.byTitle EXCEPT ![Name[eo.title]] = i],
      byType  |-> IF known THEN acc.byType ELSE [acc.byType EXCEPT ![eo.type] = i],
      lastId  |-> IF known THEN acc.lastId ELSE i]

(* The offers of an answer are applied in the order the LLM gives them.    *)
ApplyAnswer(base, answer) ==
  LET after[n \in 0 .. Len(answer)] ==
        IF n = 0 THEN base ELSE ApplyOffer(after[n - 1], answer[n])
  IN after[Len(answer)]

Column(db, loaded, new) == IF new # loaded THEN new ELSE db

\* Mutant: what the page was seen to offer counts as active.
FlushClaiming(db, loaded, new, hash) ==
  IF new = NoRow THEN db
  ELSE [title |-> new.title, type |-> new.type, hash |-> hash, status |-> "likely_active",
        verifiedAt |-> IF loaded = NoRow THEN Never ELSE db.verifiedAt]

(* The flush: an inserted row, or the changed columns of a loaded one.  All*)
(* of them get the hash of the page.                                       *)
FlushFacts(db, loaded, new, hash) ==
  IF new = NoRow THEN db
  ELSE IF loaded = NoRow
  THEN [title |-> new.title, type |-> new.type, hash |-> hash,
        status |-> "unverified", verifiedAt |-> Never]
  ELSE [db EXCEPT !.title = Column(@, loaded.title, new.title),
                  !.type = Column(@, loaded.type, new.type), !.hash = hash]

NoneDeleted(loaded) == loaded \subseteq Listed(offers)

(* The ids of new rows are taken from the sequence at the flush.           *)
CommitExtraction(e, answer) ==
  LET loaded == session[e].rows
  IN /\ session[e].task = "extract"
     /\ NoneDeleted(Listed(loaded))
     /\ lastId + Len(answer) <= MaxId
     /\ \E byTitle \in Firsts([i \in Listed(loaded) |-> NameOf(loaded[i])], Titles),
             byType \in Firsts([i \in Listed(loaded) |-> loaded[i].type], Types) :
          LET after == ApplyAnswer([rows |-> loaded, byTitle |-> byTitle,
                                    byType |-> byType, lastId |-> lastId], answer)
          IN /\ offers' = [i \in Ids |->
                  FlushFacts(offers[i], loaded[i], after.rows[i], session[e].page)]
             /\ lastId' = after.lastId
     /\ session' = [session EXCEPT ![e] = Idle]
     /\ UNCHANGED <<reminder, page, verdict, now, seeds>>

----------------------------------------------------------------------------
(* Verification.                                                           *)

TierWeight(tier) == CASE tier = 1 -> 50 [] tier = 2 -> 85 [] OTHER -> 100
Reliability(source) == IF source = "vendor_page" THEN 100 ELSE 70

(* In hundredths of a point, for a check of this moment without feedback   *)
(* and without a check from India.  The status is the same for the two     *)
(* sources that offers of this system have.                                *)
ComputeTrialConfidence(tier, source) ==
  3500 + 25 * TierWeight(tier) + 1000 + 10 * Reliability(source) + 850

StatusFor(score) ==
  IF score >= 8000 THEN "verified" ELSE IF score >= 5500 THEN "likely_active" ELSE "unverified"

(* The cascade: the link, the marks of a trial on the page, the LLM.       *)
VerifyOffer(link, marks, confirmed) ==
  IF link = "dead" THEN [tier |-> 0, dead |-> TRUE, inconclusive |-> FALSE]
  ELSE IF link = "blocked" THEN [tier |-> 0, dead |-> FALSE, inconclusive |-> TRUE]
  ELSE [tier |-> IF marks THEN 2 ELSE IF confirmed THEN 3 ELSE 1,
        dead |-> FALSE, inconclusive |-> FALSE]

Outcome == {VerifyOffer(link, marks, confirmed) :
              link \in {"alive", "dead", "blocked"}, marks \in BOOLEAN, confirmed \in BOOLEAN}

NewStatus(outcome) ==
  IF outcome.dead THEN "broken"
  ELSE IF outcome.inconclusive THEN "unverified"
  ELSE StatusFor(ComputeTrialConfidence(outcome.tier, "manual"))

Due(i) ==
  /\ offers[i] # NoRow
  /\ offers[i].verifiedAt = Never \/ now - offers[i].verifiedAt > ReverifyAfter

(* The runs one sweep may take: the due offers, those never verified first,*)
(* then the longest ago, up to the limit.                                  *)
Batches ==
  LET due == {i \in Ids : Due(i)}
  IN {taken \in SUBSET due :
        /\ Cardinality(taken) = IF Cardinality(due) < VerifyLimit THEN Cardinality(due) ELSE VerifyLimit
        /\ \A i \in taken, j \in due \ taken : offers[i].verifiedAt <= offers[j].verifiedAt}

LoadForVerification(v, task, taken) ==
  /\ session[v].task = "none"
  /\ taken # {}
  /\ session' = [session EXCEPT ![v] = [Idle EXCEPT !.task = task,
                    !.status = [i \in taken |-> offers[i].status]]]
  /\ UNCHANGED <<offers, lastId, reminder, page, verdict, now, seeds>>

VerifySweep(v) == \E taken \in Batches : LoadForVerification(v, "sweep", taken)

(* verify_trial: one offer, due or not, in a session of its own.           *)
VerifyOne(v) == \E i \in Listed(offers) : LoadForVerification(v, "single", {i})

\* Mutant: only a conclusive check leaves a time.
RecordConclusive(row, loaded, outcome) ==
  [row EXCEPT !.status = Column(@, loaded, NewStatus(outcome)),
              !.verifiedAt = IF outcome.inconclusive THEN @ ELSE now]

RecordVerification(row, loaded, outcome) ==
  [row EXCEPT !.status = Column(@, loaded, NewStatus(outcome)), !.verifiedAt = now]

(* One commit for all the offers of the run.                               *)
CommitVerification(v, outcome) ==
  LET loaded == session[v].status
      taken == DOMAIN loaded
  IN /\ session[v].task \in {"sweep", "single"}
     /\ NoneDeleted(taken)
     /\ offers' = [i \in Ids |-> IF i \in taken
          THEN RecordVerification(offers[i], loaded[i], outcome[i]) ELSE offers[i]]
     /\ verdict' = [i \in Ids |-> IF i \in taken THEN NewStatus(outcome[i]) ELSE verdict[i]]
     /\ session' = [session EXCEPT ![v] = Idle]
     /\ UNCHANGED <<lastId, reminder, page, now, seeds>>

(* A task ends without a commit: a crash, no answer of the LLM, an answer  *)
(* that is no JSON, or a row of its copy is gone.                          *)
Abort(s) ==
  /\ session[s].task # "none"
  /\ session' = [session EXCEPT ![s] = Idle]
  /\ UNCHANGED <<offers, lastId, reminder, page, verdict, now, seeds>>

FailStale(v) == ~NoneDeleted(DOMAIN session[v].status) /\ Abort(v)

----------------------------------------------------------------------------
(* The seeding script.                                                     *)

Titled(rows, title) == {i \in Listed(rows) : rows[i].title = title}

(* Of every retired title one row goes; a SELECT takes any of them.        *)
Retirements(rows) ==
  {gone \in SUBSET Listed(rows) :
     \A title \in Titles : Cardinality(gone \cap Titled(rows, title)) =
       IF title \in Retired /\ Titled(rows, title) # {} THEN 1 ELSE 0}

Without(rows, gone) == [i \in Ids |-> IF i \in gone THEN NoRow ELSE rows[i]]

(* _offer_rank: verified first, then the latest check, then the oldest id. *)
Better(rows, i, j) ==
  LET badge(k) == IF rows[k].status = "verified" THEN 1 ELSE 0
  IN \/ badge(i) > badge(j)
     \/ badge(i) = badge(j) /\ rows[i].verifiedAt > rows[j].verifiedAt
     \/ badge(i) = badge(j) /\ rows[i].verifiedAt = rows[j].verifiedAt /\ i < j

Twins(rows, i) == {j \in Listed(rows) : NameOf(rows[j]) = NameOf(rows[i])}

Kept(rows, i) == CHOOSE k \in Twins(rows, i) : \A j \in Twins(rows, i) \ {k} : Better(rows, k, j)

Duplicates(rows) == {i \in Listed(rows) : Kept(rows, i) # i}

\* Mutant: the reminders of a duplicate are not moved.
MovedNowhere(rows, to) ==
  [r \in Reminders |-> IF to[r] \in Duplicates(rows) THEN NoId ELSE to[r]]

\* Mutant: reminders keep the id of the duplicate that is deleted.
MovedNever(rows, to) == to

Moved(rows, to) ==
  [r \in Reminders |-> IF to[r] \in Duplicates(rows) THEN Kept(rows, to[r]) ELSE to[r]]

CuratedRow(row, c) ==
  [row EXCEPT !.type = c.type, !.status = "unverified"]

NewCurated(c) ==
  [title |-> c.title, type |-> c.type, hash |-> 0,
   status |-> "unverified", verifiedAt |-> Never]

(* Every curated row overwrites the offer of exactly its title, or is a new*)
(* one; the ids follow the order of the rows.                              *)
Upserted(rows) ==
  LET missing == SetToSeq({c \in Curated : Titled(rows, c.title) = {}})
      known == {c \in Curated : Titled(rows, c.title) # {}}
  IN [i \in Ids |->
        IF i > lastId /\ i <= lastId + Len(missing) THEN NewCurated(missing[i - lastId])
        ELSE IF \E c \in known : i \in Titled(rows, c.title)
        THEN CuratedRow(rows[i], CHOOSE c \in known : i \in Titled(rows, c.title))
        ELSE rows[i]]

(* A row that is deleted takes the offer_id of its reminders with it (ON   *)
(* DELETE SET NULL).                                                       *)
Seed ==
  /\ seeds < MaxSeeds
  /\ lastId + Cardinality(Curated) <= MaxId
  /\ \E gone \in Retirements(offers) :
       LET kept == Without(offers, gone)
           cut == [r \in Reminders |-> IF reminder[r] \in gone THEN NoId ELSE reminder[r]]
           deduped == Without(kept, Duplicates(kept))
       IN /\ reminder' = Moved(kept, cut)
          /\ offers' = Upserted(deduped)
          /\ lastId' = lastId + Cardinality({c \in Curated : Titled(deduped, c.title) = {}})
          /\ verdict' = [i \in Ids |-> IF deduped[i] = NoRow THEN "none" ELSE verdict[i]]
  /\ seeds' = seeds + 1
  /\ UNCHANGED <<page, session, now>>

----------------------------------------------------------------------------
SetReminder(r) ==
  /\ reminder[r] = Unset
  /\ \E i \in Listed(offers) : reminder' = [reminder EXCEPT ![r] = i]
  /\ UNCHANGED <<offers, lastId, page, session, verdict, now, seeds>>

PageChanges ==
  /\ page < MaxPages
  /\ page' = page + 1
  /\ UNCHANGED <<offers, lastId, reminder, session, verdict, now, seeds>>

Tick ==
  /\ now < MaxTime
  /\ now' = now + 1
  /\ UNCHANGED <<offers, lastId, reminder, page, session, verdict, seeds>>

Extract(e) == FetchPage(e) \/ \E answer \in Answers : CommitExtraction(e, answer)

FinishVerification(v) ==
  \/ \E outcome \in [DOMAIN session[v].status -> Outcome] : CommitVerification(v, outcome)
  \/ FailStale(v)

Next ==
  \/ \E e \in Extractors : Extract(e)
  \/ \E v \in Verifiers : VerifySweep(v) \/ VerifyOne(v) \/ FinishVerification(v)
  \/ \E s \in Sessions : Abort(s)
  \/ Seed
  \/ \E r \in Reminders : SetReminder(r)
  \/ PageChanges
  \/ Tick

Spec == Init /\ [][Next]_vars

(* The beat starts a sweep for ever; sweeps may be killed, not all of them,*)
(* and no run lasts for ever.                                              *)
FinishSweep(v) == session[v].task = "sweep" /\ FinishVerification(v)

FairSpec ==
  Spec /\ \A v \in Verifiers : /\ SF_vars(VerifySweep(v)) /\ SF_vars(FinishSweep(v))
                               /\ WF_vars(FinishVerification(v))

----------------------------------------------------------------------------
(* Properties.                                                             *)

(* Every variable has its type, and ids beyond the last one are unused.    *)
TypeOK ==
  /\ offers \in [Ids -> Row \cup {NoRow}]
  /\ lastId \in 0 .. MaxId
  /\ \A i \in Ids : i > lastId => offers[i] = NoRow
  /\ reminder \in [Reminders -> Ids \cup {NoId, Unset}]
  /\ page \in 1 .. MaxPages
  /\ \A s \in Sessions :
       /\ session[s].task \in {"none", "extract", "sweep", "single"} /\ session[s].page \in 0 .. MaxPages
       /\ session[s].rows \in [Ids -> [title : Titles, type : Types] \cup {NoRow}]
       /\ session[s].status \in UNION {[taken -> Status] : taken \in SUBSET Ids}
  /\ verdict \in [Ids -> Status \cup {"none"}]
  /\ now \in 1 .. MaxTime /\ seeds \in 0 .. MaxSeeds

(* With one verification at a time, an offer that claims anything claims   *)
(* what its latest check found, whatever the extraction and the seeding    *)
(* wrote between load and commit; the seeding may only take the claim back.*)
StatusIsLastVerdict ==
  (\A v, w \in Verifiers : v = w) =>
    \A i \in Listed(offers) : offers[i].status \in {"unverified", verdict[i]}

(* A reminder never points to a row that is gone.                          *)
ReminderHasOffer ==
  \A r \in Reminders : reminder[r] \in {Unset, NoId} \cup Listed(offers)

(* A reminder loses its offer only by a retirement: the deduplication moves*)
(* it to the copy that stays (seed_trials.py:429).                         *)
ReminderKeepsOffer ==
  [][\A r \in Reminders :
       (reminder[r] \in Ids /\ reminder'[r] = NoId) => offers[reminder[r]].title \in Retired]_vars

Distinct(rows) ==
  \A i, j \in Listed(rows) :
    (NameOf(rows[i]) = NameOf(rows[j]) /\ NameOf(rows[i]) # Name[Default]) => i = j

(* An extraction whose copy is current never makes a second row of a title *)
(* it knows, in whatever order and with whatever types the LLM names them; *)
(* offers without a title share the default one (trial_extraction.py:182). *)
ExtractionKeepsTitlesApart ==
  [][\A e \in Extractors :
       (session[e].task = "extract" /\ session[e].rows = [i \in Ids |-> Facts(offers[i])] /\ Distinct(offers)
          /\ session'[e].task = "none") => Distinct(offers')]_vars

(* Every offer that is due is verified in the end, or is gone: the limit   *)
(* of a run, the order of the selection and rows deleted under a run starve*)
(* nobody.                                                                 *)
DueIsVerified == \A i \in Ids : []<>~Due(i)

=============================================================================
