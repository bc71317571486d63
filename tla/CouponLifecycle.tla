--------------------------- MODULE CouponLifecycle ---------------------------
(***************************************************************************)
(* One coupon row and everything that writes it: the checkout validation   *)
(* job, the feedback endpoint, the feed syncs (re-listing, suspension, end *)
(* date backfill) and the hourly staleness sweep.                          *)
(*                                                                         *)
(* Every handler is a database session: it SELECTs the row, works on the   *)
(* copy it loaded, and commits.  The session factory (models/base.py) takes*)
(* no row locks and the isolation level is READ COMMITTED, so between the  *)
(* SELECT and the commit the row may change under it; the flush then writes*)
(* only the columns whose value differs from the value loaded.  Any session*)
(* may die before its commit and leaves nothing behind.                    *)
(*                                                                         *)
(* No handler relates two coupons, so one row is modelled.  Time is counted*)
(* in ticks; a time column that is NULL is Never.                          *)
(***************************************************************************)
EXTENDS Integers, FiniteSets, Confidence

CONSTANTS
  Validators,        \* worker slots that may hold a validation job of this coupon
  Voters,            \* concurrent requests of the feedback endpoint
  Feeds,             \* concurrent feed syncs and imports
  Sweepers,          \* concurrent runs of expire_stale_coupons
  Ips,               \* client address hashes
  EndDates,          \* end dates a feed may state
  Editorial,         \* is the coupon listed by the editorial import?
  ServeFreshness,    \* serve_freshness_hours
  StaleExpire,       \* stale_expire_hours
  EditorialExpire,   \* editorial_expire_days
  VoteWindow,        \* the 24 h during which an address votes once
  MaxTime,           \* bound: last tick of the clock
  MaxVotes           \* bound: votes stored

Sessions == Validators \cup Voters \cup Feeds \cup Sweepers

ASSUME SessionsAssumption ==
  /\ Validators \cap (Voters \cup Feeds \cup Sweepers) = {}
  /\ Voters \cap (Feeds \cup Sweepers) = {}
  /\ Feeds \cap Sweepers = {}
ASSUME ParametersAssumption ==
  /\ EndDates \subseteq Nat \ {0}
  /\ Editorial \in BOOLEAN
  /\ {ServeFreshness, StaleExpire, EditorialExpire, VoteWindow} \subseteq Nat
  /\ {MaxTime, MaxVotes} \subseteq Nat

VARIABLES
  row,        \* the committed coupon row
  log,        \* the committed validation_logs of the coupon
  votes,      \* its committed user_feedback rows: totals, last vote of each address
  session,    \* session[s]: what session s has loaded and means to write
  supplier,   \* history: the last thing a feed committed about the coupon
  now         \* the clock

vars == <<row, log, votes, session, supplier, now>>

Never == 0

Status == {"unverified", "valid", "invalid", "expired"}
Decisive == {"valid", "invalid"}
Result == Decisive \cup {"unverifiable"}

Row == [status : Status, confidence : Nat, validatedAt : Nat, checkedAt : Nat,
        streak : Nat, expiresAt : Nat, lastSeen : Nat]
Entry == [at : Nat, result : Result]
Vote == [ip : Ips, worked : BOOLEAN, at : Nat]
Tally == [up : Nat, total : Nat, last : [Ips -> Nat]]

----------------------------------------------------------------------------
LowConfidence == 3000

Count(tally, vote) ==
  [up    |-> tally.up + (IF vote.worked THEN 1 ELSE 0),
   total |-> tally.total + 1,
   last  |-> [tally.last EXCEPT ![vote.ip] = IF vote.at > @ THEN vote.at ELSE @]]

CountAll(tally, ballots) ==
  IF ballots = {} THEN tally ELSE Count(tally, CHOOSE vote \in ballots : TRUE)

LatestValidation(entries) ==
  IF entries = {} THEN "none"
  ELSE (CHOOSE e \in entries : \A f \in entries : f.at <= e.at).result

----------------------------------------------------------------------------
(* Sessions: load, compute, flush.                                         *)

NewRow == [status |-> "unverified", confidence |-> 0, validatedAt |-> Never,
           checkedAt |-> Never, streak |-> 0, expiresAt |-> Never, lastSeen |-> 1]

Idle == [task |-> "none", loaded |-> NewRow, new |-> NewRow, entries |-> {}, ballots |-> {}]

(* What the unit of work emits for one column: an UPDATE when the value    *)
(* differs from the one loaded, else nothing.                              *)
Column(db, loaded, new) == IF new # loaded THEN new ELSE db

\* Mutant: the whole row is written back, not the changed columns.
FlushWholeRow(db, loaded, new) == new

Flush(db, loaded, new) ==
  [status      |-> Column(db.status, loaded.status, new.status),
   confidence  |-> Column(db.confidence, loaded.confidence, new.confidence),
   validatedAt |-> Column(db.validatedAt, loaded.validatedAt, new.validatedAt),
   checkedAt   |-> Column(db.checkedAt, loaded.checkedAt, new.checkedAt),
   streak      |-> Column(db.streak, loaded.streak, new.streak),
   expiresAt   |-> Column(db.expiresAt, loaded.expiresAt, new.expiresAt),
   lastSeen    |-> Column(db.lastSeen, loaded.lastSeen, new.lastSeen)]

Init ==
  /\ row = NewRow
  /\ log = {}
  /\ votes = [up |-> 0, total |-> 0, last |-> [ip \in Ips |-> Never]]
  /\ session = [s \in Sessions |-> Idle]
  /\ supplier = "listed"
  /\ now = 1

(* Session s, which has loaded the row, is ready to commit new, with log   *)
(* entries and votes to insert.                                            *)
Prepare(s, task, new, entries, ballots) ==
  /\ session[s].task = "none"
  /\ session' = [session EXCEPT ![s] = [task |-> task, loaded |-> row, new |-> new,
                                        entries |-> entries, ballots |-> ballots]]
  /\ UNCHANGED <<row, log, votes, supplier, now>>

----------------------------------------------------------------------------
(* The validation job.                                                     *)

(* session.get(Coupon), then the browser run starts.                       *)
ValidatorLoads(s) == Prepare(s, "checking", row, {}, {})

\* Mutants: no early return for an inconclusive result; the streak not reset; the
\* confirmation stamp moved by every attempt.
RecordWithoutEarlyReturn(loaded, result, at, up, total) ==
  [loaded EXCEPT !.checkedAt = at, !.streak = 0, !.validatedAt = at, !.status = result,
                 !.confidence = ComputeConfidence(result, up, total)]
RecordKeepingStreak(loaded, result, at, up, total) ==
  IF result = "unverifiable"
  THEN [loaded EXCEPT !.checkedAt = at, !.streak = @ + 1]
  ELSE [loaded EXCEPT !.checkedAt = at, !.validatedAt = at, !.status = result,
                      !.confidence = ComputeConfidence(result, up, total)]
RecordStampingAttempts(loaded, result, at, up, total) ==
  IF result = "unverifiable"
  THEN [loaded EXCEPT !.checkedAt = at, !.streak = @ + 1, !.validatedAt = at]
  ELSE [loaded EXCEPT !.checkedAt = at, !.streak = 0, !.validatedAt = at, !.status = result,
                      !.confidence = ComputeConfidence(result, up, total)]

RecordValidationResult(loaded, result, at, up, total) ==
  IF result = "unverifiable"
  THEN [loaded EXCEPT !.checkedAt = at, !.streak = @ + 1]
  ELSE [loaded EXCEPT !.checkedAt = at, !.streak = 0, !.validatedAt = at,
                      !.status = result,
                      !.confidence = ComputeConfidence(result, up, total)]

Attempts == log \cup UNION {session[s].entries : s \in Sessions}

(* The browser run ends with a result stamped now; the votes are counted   *)
(* and the new values computed on the row loaded when the job began.  Two  *)
(* results never carry the same microsecond, hence never the same tick.    *)
ValidatorChecks(s, result) ==
  /\ session[s].task = "checking"
  /\ \A e \in Attempts : e.at # now
  /\ session' = [session EXCEPT
       ![s].task = "validate",
       ![s].new = RecordValidationResult(session[s].loaded, result, now,
                                         votes.up, votes.total),
       ![s].entries = {[at |-> now, result |-> result]}]
  /\ UNCHANGED <<row, log, votes, supplier, now>>

----------------------------------------------------------------------------
(* The feedback endpoint: one vote per address and window, then confidence *)
(* recomputed from the latest log entry, whatever its result.              *)

Recent(ip) == votes.last[ip] # Never /\ votes.last[ip] >= now - VoteWindow

SubmitFeedback(s, ip, worked) ==
  LET ballots == IF Recent(ip) THEN {} ELSE {[ip |-> ip, worked |-> worked, at |-> now]}
      counted == CountAll(votes, ballots)
  IN  /\ counted.total <= MaxVotes
      /\ Prepare(s, "feedback",
                 [row EXCEPT !.confidence = ComputeConfidence(LatestValidation(log),
                                               counted.up, counted.total)],
                 {}, ballots)

----------------------------------------------------------------------------
(* The feeds.                                                              *)

\* Mutant: an affiliate listing is trusted without a check.
RelistAsValid(s, ends) ==
  Prepare(s, "relist",
    [row EXCEPT !.lastSeen = IF now > @ THEN now ELSE @,
                !.status = IF @ = "expired" THEN "valid" ELSE @],
    {}, {})

(* A feed lists the coupon again, with an end date or with none: an expired*)
(* row comes back as unverified unless its end date has passed.            *)
Relist(s, ends) ==
  LET until == IF ends = Never THEN row.expiresAt ELSE ends
  IN  Prepare(s, "relist",
        [row EXCEPT !.lastSeen = IF now > @ THEN now ELSE @,
                    !.expiresAt = until,
                    !.status = IF @ = "expired" /\ ~(until # Never /\ until < now)
                               THEN "unverified" ELSE @],
        {}, {})

(* The supplier suspends the offer.                                        *)
ExpireSuspended(s) ==
  Prepare(s, "suspend", [row EXCEPT !.status = "expired"], {}, {})

(* The editorial backfill sets an end date without touching last_seen.     *)
BackfillExpiry(s, when) ==
  Prepare(s, "backfill",
    [row EXCEPT !.expiresAt = when,
                !.status = IF @ = "expired" /\ when > now THEN "unverified" ELSE @],
    {}, {})

----------------------------------------------------------------------------
(* The staleness sweep.                                                    *)

PastEndDate(r, t) == r.expiresAt # Never /\ r.expiresAt < t

Window == IF Editorial THEN EditorialExpire ELSE StaleExpire

StaleAndUntrusted(r, t) ==
  /\ r.expiresAt = Never
  /\ r.confidence < LowConfidence
  /\ \/ r.validatedAt # Never /\ r.validatedAt < t - StaleExpire
     \/ r.validatedAt = Never /\ r.lastSeen < t - Window

\* Mutant: only the confidence rule, the end date forgotten.
ExpireUndatedOnly(s) ==
  Prepare(s, "sweep",
    [row EXCEPT !.status = IF StaleAndUntrusted(row, now) THEN "expired" ELSE @], {}, {})

ExpireStale(s) ==
  Prepare(s, "sweep",
    [row EXCEPT !.status = IF PastEndDate(row, now) \/ StaleAndUntrusted(row, now)
                           THEN "expired" ELSE @],
    {}, {})

----------------------------------------------------------------------------
(* The end of a session, and the clock.                                    *)

Commit(s) ==
  /\ session[s].task \notin {"none", "checking"}
  /\ row' = Flush(row, session[s].loaded, session[s].new)
  /\ log' = log \cup session[s].entries
  /\ votes' = CountAll(votes, session[s].ballots)
  /\ supplier' = CASE session[s].task \in {"relist", "backfill"} -> "listed"
                   [] session[s].task = "suspend" -> "suspended"
                   [] OTHER -> supplier
  /\ session' = [session EXCEPT ![s] = Idle]
  /\ UNCHANGED now

(* The process dies, a time limit strikes or the database rolls back.      *)
Abort(s) ==
  /\ session[s].task # "none"
  /\ session' = [session EXCEPT ![s] = Idle]
  /\ UNCHANGED <<row, log, votes, supplier, now>>

Tick ==
  /\ now < MaxTime
  /\ now' = now + 1
  /\ UNCHANGED <<row, log, votes, session, supplier>>

Validation(s) == ValidatorLoads(s) \/ \E result \in Result : ValidatorChecks(s, result)
Feedback(s) == \E ip \in Ips, worked \in BOOLEAN : SubmitFeedback(s, ip, worked)
Feed(s) == \/ \E ends \in EndDates \cup {Never} : Relist(s, ends)
           \/ ExpireSuspended(s)
           \/ \E when \in EndDates : BackfillExpiry(s, when)

Next ==
  \/ \E s \in Validators : Validation(s)
  \/ \E s \in Voters : Feedback(s)
  \/ \E s \in Feeds : Feed(s)
  \/ \E s \in Sweepers : ExpireStale(s)
  \/ \E s \in Sessions : Commit(s) \/ Abort(s)
  \/ Tick

Spec == Init /\ [][Next]_vars

(* Celery beat runs the sweep every hour whatever else happens; a sweep    *)
(* that is killed is started again, and not killed for ever.               *)
SweepFairness ==
  \A s \in Sweepers : WF_vars(ExpireStale(s)) /\ SF_vars(Commit(s))

FairSpec == Spec /\ SweepFairness

----------------------------------------------------------------------------
(* Properties.                                                             *)

SessionType ==
  [task : {"none", "checking", "validate", "feedback", "relist", "suspend",
           "backfill", "sweep"},
   loaded : Row, new : Row, entries : SUBSET Entry, ballots : SUBSET Vote]

(* Every variable keeps the type its column or its field has.              *)
TypeOK ==
  /\ row \in Row
  /\ log \subseteq Entry
  /\ votes \in Tally
  /\ session \in [Sessions -> SessionType]
  /\ supplier \in {"listed", "suspended"}
  /\ now \in Nat

Verdicts(entries) == {e \in entries : e.result \in Decisive}

Checked(entries, result) == \E e \in entries : e.result = result

(* Whatever the interleaving of jobs, votes, feeds and sweeps, and however *)
(* many of each, the row never carries a verdict or a verification time    *)
(* that no logged check gave: record_validation_result is the only source  *)
(* of trust ("must earn valid via the real validation worker").            *)
BadgeBackedByCheck ==
  /\ row.status \in Decisive => Checked(log, row.status)
  /\ row.validatedAt # Never =>
       \E e \in log : e.at = row.validatedAt /\ e.result \in Decisive

(* While one validation job at a time is outstanding, a row that shows a   *)
(* verdict shows the one of the latest decisive check, and its stamp is    *)
(* that check's, although the job works on a row loaded minutes before and *)
(* the sweep, the feeds and the voters write the same row meanwhile.       *)
RowShowsLastVerdict ==
  /\ row.status \in Decisive =>
       \E e \in log : e.at = row.validatedAt /\ e.result = row.status
  /\ \A e \in log : e.result \in Decisive => e.at <= row.validatedAt

(* The circuit breaker counts right: the streak is the number of attempts  *)
(* since the last decisive one, none lost to a concurrent write.           *)
StreakCountsInconclusive ==
  row.streak = Cardinality({e \in log : e.at > row.validatedAt})

(* The default listing of the coupons endpoint.                            *)
Served == /\ row.status = "valid"
          /\ row.validatedAt # Never
          /\ row.validatedAt >= now - ServeFreshness

(* What the default listing serves passed a check inside the window: "only *)
(* codes we've actually verified".                                         *)
ServedWasVerified ==
  Served => \E e \in log : e.result = "valid" /\ e.at >= now - ServeFreshness

(* Neither the check times nor last_seen ever go back, although each is    *)
(* computed from a copy of the row that may be out of date.                *)
ClocksAdvance ==
  [][/\ row'.validatedAt >= row.validatedAt
     /\ row'.checkedAt >= row.checkedAt
     /\ row'.lastSeen >= row.lastSeen]_vars

(* The crowd never weighs more than a check: whatever votes and jobs       *)
(* overlap, the confidence lies half-way at most between what some logged  *)
(* check (or none) gives and certainty either way, so that votes alone     *)
(* never lift an untested code to the level of a verified one.             *)
CrowdWeighsAtMostHalf ==
  row.confidence # NewRow.confidence =>
    \E result \in {"none"} \cup {e.result : e \in log} :
      Base(result) <= 2 * row.confidence + 1 /\ 2 * row.confidence <= Base(result) + 10001

(* A row past its stated end date does not stay listed: the sweep gets it, *)
(* whoever else brings it back in between.                                 *)
PastEndDateIsExpired ==
  PastEndDate(row, now) ~> (row.status = "expired" \/ ~PastEndDate(row, now))

(* A suspended coupon that no feed lists again shows as valid only by a    *)
(* check that now commits: no stale copy of another session revives it.     *)
RevivedByCheck ==
  [][(supplier = "suspended" /\ supplier' = "suspended"
        /\ row.status # "valid" /\ row'.status = "valid")
     => \E e \in log' \ log : e.result = "valid"]_vars

(* An inconclusive check is not evidence the code changed: while the last  *)
(* decisive check passed, a feedback request that nothing overtakes leaves *)
(* the confidence at what that check and the votes give.                   *)
InconclusiveDoesNotTaint ==
  [][\A s \in Voters :
       /\ session[s].task = "feedback" /\ session[s].loaded = row
       /\ LatestValidation(Verdicts(log)) = "valid"
       /\ Commit(s)
       => row'.confidence = ComputeConfidence("valid", votes'.up, votes'.total)]_vars

----------------------------------------------------------------------------
(* With one job at a time the row implements the abstract badge.           *)

Trust == INSTANCE CouponTrust WITH badge <- row.status,
                                   verdict <- LatestValidation(Verdicts(log))

(* The visible status and the log together are a badge in the sense of     *)
(* CouponTrust: no handler, at whatever moment it commits, makes them      *)
(* disagree.                                                               *)
ImplementsTrust == Trust!Spec

=============================================================================
