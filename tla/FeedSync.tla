------------------------------ MODULE FeedSync ------------------------------
(***************************************************************************)
(* The feed syncs: sync_linkmydeals, which pulls what the supplier changed *)
(* since a cursor kept on the source row, and a feed that pulls its whole  *)
(* list every time (Cuelinks and the others), writing the same merchants.  *)
(*                                                                         *)
(* A run is a database session.  ingest_raw works in one transaction: the  *)
(* flush at the first savepoint locks the source row, so the ingests of one*)
(* feed exclude each other; rows are inserted one savepoint at a time, and *)
(* a row that fails costs only itself.  The suspended offers and the cursor*)
(* follow in two more transactions, the outcome in a last one.  A coupon   *)
(* row stays locked from its flush to the commit, so its update is placed  *)
(* at the commit; expire_suspended reads and writes in one step for the    *)
(* same reason.  Votes, checks and sweeps are those of CouponLifecycle.    *)
(***************************************************************************)
EXTENDS Integers, FiniteSets

CONSTANTS
  Syncs,        \* runs of sync_linkmydeals that may overlap
  Pulls,        \* runs of a feed that pulls its whole list
  Casts,        \* bound: the sets of runs that one behaviour may hold
  Offers,       \* the offers of the incremental supplier
  Listed,       \* the offers of the other feed
  Merchants,
  MerchantOf,   \* the merchant of an offer
  Texts,        \* what an active offer may say: its description and discount
  FirstText,    \* what every offer says at first
  Bad,          \* offers whose row violates a constraint of the database
  StaleAfter,   \* source_stale_hours
  MaxTime,      \* bound: last tick of the clock
  MaxChanges,   \* bound: changes the supplier makes
  MaxFaults     \* bound: crashes, failed and unreadable answers, database errors

Suspended == "suspended"
Unchanged == "unchanged"
Absent == "absent"
Never == 0
Runs == Syncs \cup Pulls
Rows == Offers \cup Listed

ASSUME FeedAssumption ==
  /\ Syncs \cap Pulls = {}
  /\ Offers \cap Listed = {}
  /\ MerchantOf \in [Rows -> Merchants]
  /\ FirstText \in Texts
  /\ Texts \cap {Suspended, Unchanged, Absent} = {}
  /\ Bad \subseteq Rows
  /\ Casts \subseteq SUBSET Runs
  /\ {StaleAfter, MaxTime, MaxChanges, MaxFaults} \subseteq Nat
  /\ MaxTime > 0

VARIABLES
  supplier,   \* supplier[o]: what the supplier says of o, and since when
  coupons,    \* coupons[o]: is the row of o live or expired, and its text
  merchants,  \* the committed merchants
  source,     \* the sources row of the incremental feed
  run,        \* run[r]: the progress of a run
  missed,     \* history: offers a failed row, an unreadable answer or an older run lost
  stamped,    \* history: when the run that last stamped a success on LinkMyDeals began
  cast,       \* the runs of this behaviour
  now, changes, faults

vars == <<supplier, coupons, merchants, source, run, missed, stamped, cast, now, changes, faults>>

SourceRow == [exists : BOOLEAN, cursor : Nat, lastSuccess : Nat, rate : {"none", "zero", "some"},
              error : {"none", "failed"}]
NoSource == [exists |-> FALSE, cursor |-> Never, lastSuccess |-> Never, rate |-> "none", error |-> "none"]

Quiet == [o \in Offers |-> Unchanged]

Idle == [phase |-> "idle", cursor |-> Never, runTs |-> Never, rate |-> "none", answer |-> Quiet,
         raw |-> {}, todo |-> {}, row |-> Absent, inserted |-> {}, failed |-> {}, error |-> "none"]

Init ==
  /\ supplier = [o \in Offers |-> [says |-> FirstText, changed |-> 1]]
  /\ coupons = [o \in Offers |-> [status |-> Absent, text |-> FirstText]]
  /\ merchants = {}
  /\ source = NoSource
  /\ run = [r \in Runs |-> Idle]
  /\ missed = {}
  /\ stamped = Never
  /\ cast \in Casts
  /\ now = 1 /\ changes = 0 /\ faults = 0

(* The row shows what the supplier says.  A suspended offer that was never *)
(* listed has no row to expire.                                            *)
Agrees(o, shown) ==
  IF supplier[o].says = Suspended THEN shown[o].status # "live"
  ELSE shown[o].status = "live" /\ shown[o].text = supplier[o].says

----------------------------------------------------------------------------
(* The pull.                                                               *)

(* The cursor is read and the time of the run taken before the pull.       *)
StartSync(r) ==
  /\ run[r].phase = "idle" /\ r \in cast
  /\ run' = [run EXCEPT ![r] = IF r \in Syncs
       THEN [Idle EXCEPT !.phase = "pull", !.runTs = now,
                         !.cursor = source.cursor, !.rate = source.rate]
       ELSE [Idle EXCEPT !.phase = "pull"]]
  /\ UNCHANGED <<supplier, coupons, merchants, source, missed, stamped, cast, now, changes, faults>>

(* What the supplier answers to an incremental pull (all without a cursor).*)
Answer(cursor) ==
  [o \in Offers |-> IF supplier[o].changed >= cursor THEN supplier[o].says ELSE Unchanged]

Scrape(r) ==
  /\ run[r].phase = "pull"
  /\ LET answer == IF r \in Syncs THEN Answer(run[r].cursor) ELSE Quiet
         raw == IF r \in Syncs THEN {o \in Offers : answer[o] \notin {Suspended, Unchanged}}
                ELSE Listed
     IN run' = [run EXCEPT ![r].phase = "pulled", ![r].answer = answer,
                           ![r].raw = raw, ![r].todo = raw]
  /\ UNCHANGED <<supplier, coupons, merchants, source, missed, stamped, cast, now, changes, faults>>

(* A 200 answer without an offers list is an empty batch like a quiet one. *)
ScrapeUnreadable(r) ==
  /\ run[r].phase = "pull" /\ faults < MaxFaults
  /\ run' = [run EXCEPT ![r].phase = "pulled"]
  /\ missed' = missed \cup (IF r \in Syncs
                            THEN {o \in Offers : Answer(run[r].cursor)[o] # Unchanged} ELSE {})
  /\ faults' = faults + 1
  /\ UNCHANGED <<supplier, coupons, merchants, source, stamped, cast, now, changes>>

(* A missing API key, an HTTP or a database error ends the run; the open   *)
(* transaction is rolled back and the error goes to the source row.        *)
Raise(r) ==
  /\ run[r].phase \notin {"idle", "ended"} /\ faults < MaxFaults
  /\ run' = [run EXCEPT ![r] = [Idle EXCEPT !.phase = "ended", !.error = "failed"]]
  /\ faults' = faults + 1
  /\ UNCHANGED <<supplier, coupons, merchants, source, missed, stamped, cast, now, changes>>

(* A restart kills the process: nothing of the open transaction remains.   *)
Crash(r) ==
  /\ run[r].phase # "idle" /\ faults < MaxFaults
  /\ run' = [run EXCEPT ![r] = Idle]
  /\ faults' = faults + 1
  /\ UNCHANGED <<supplier, coupons, merchants, source, missed, stamped, cast, now, changes>>

----------------------------------------------------------------------------
(* ingest_raw.                                                             *)

Ingesting(r) == run[r].phase \in {"ingest", "insert"}
SameFeed(r) == IF r \in Syncs THEN Syncs ELSE Pulls
Locked(r) == \E t \in SameFeed(r) \ {r} : Ingesting(t)

BeginIngest(r) ==
  /\ run[r].phase = "pulled" /\ ~Locked(r)
  /\ run' = [run EXCEPT ![r].phase = "ingest"]
  /\ UNCHANGED <<supplier, coupons, merchants, source, missed, stamped, cast, now, changes, faults>>

(* Get-or-create of a source that another run is just creating: the insert *)
(* waits for that transaction, and fails if it commits.                    *)
InsertSourceWaits(r) ==
  /\ run[r].phase = "pulled" /\ r \in Syncs /\ Locked(r) /\ ~source.exists
  /\ run' = [run EXCEPT ![r].phase = "racing"]
  /\ UNCHANGED <<supplier, coupons, merchants, source, missed, stamped, cast, now, changes, faults>>

InsertSource(r) ==
  /\ run[r].phase = "racing" /\ ~Locked(r)
  /\ run' = [run EXCEPT ![r] = IF source.exists
                               THEN [Idle EXCEPT !.phase = "ended", !.error = "failed"]
                               ELSE [@ EXCEPT !.phase = "ingest"]]
  /\ UNCHANGED <<supplier, coupons, merchants, source, missed, stamped, cast, now, changes, faults>>

(* One row, its merchant found: upserted, or the savepoint rolled back.    *)
UpsertRow(r, o) ==
  /\ run[r].phase = "ingest" /\ o \in run[r].todo
  /\ MerchantOf[o] \in merchants \cup run[r].inserted
  /\ run' = [run EXCEPT ![r].todo = @ \ {o},
                        ![r].failed = IF o \in Bad THEN @ \cup {o} ELSE @]
  /\ UNCHANGED <<supplier, coupons, merchants, source, missed, stamped, cast, now, changes, faults>>

(* The merchant was not found: the session is about to insert it.          *)
MissMerchant(r, o) ==
  /\ run[r].phase = "ingest" /\ o \in run[r].todo
  /\ MerchantOf[o] \notin merchants \cup run[r].inserted
  /\ run' = [run EXCEPT ![r].phase = "insert", ![r].row = o]
  /\ UNCHANGED <<supplier, coupons, merchants, source, missed, stamped, cast, now, changes, faults>>

WaitsFor(r, t) == t # r /\ run[r].phase = "insert" /\ MerchantOf[run[r].row] \in run[t].inserted

\* Mutant: the savepoint of a row that is done stays open.
RowStillOpen(r, failed, inserted) ==
  run' = [run EXCEPT ![r].todo = @ \ {run[r].row},
                     ![r].failed = @ \cup failed, ![r].inserted = @ \cup inserted]

RowDone(r, failed, inserted) ==
  run' = [run EXCEPT ![r].phase = "ingest", ![r].row = Absent, ![r].todo = @ \ {run[r].row},
                     ![r].failed = @ \cup failed, ![r].inserted = @ \cup inserted]

(* The insert: it waits for a session that inserted the merchant and has   *)
(* not committed, and violates the unique constraint if one has meanwhile. *)
InsertMerchant(r) ==
  /\ run[r].phase = "insert"
  /\ \A t \in Runs : ~WaitsFor(r, t)
  /\ LET o == run[r].row
     IN IF MerchantOf[o] \in merchants \/ o \in Bad
        THEN RowDone(r, {o}, {}) ELSE RowDone(r, {}, {MerchantOf[o]})
  /\ UNCHANGED <<supplier, coupons, merchants, source, missed, stamped, cast, now, changes, faults>>

(* Two sessions that wait for each other: PostgreSQL fails one statement.  *)
(* The ingests of one feed exclude each other, so a longer ring is not met.*)
BreakDeadlock(r) ==
  /\ \E t \in Runs : WaitsFor(r, t) /\ WaitsFor(t, r)
  /\ RowDone(r, {run[r].row}, {})
  /\ UNCHANGED <<supplier, coupons, merchants, source, missed, stamped, cast, now, changes, faults>>

\* Mutant: the batch is never committed.
UpsertNothing(r) == coupons

(* Seen again: a row that exists gets the current text and, when expired,  *)
(* becomes live again.                                                     *)
Upsert(r) ==
  [o \in Offers |-> IF o \in run[r].raw \ run[r].failed
                    THEN [status |-> "live", text |-> run[r].answer[o]] ELSE coupons[o]]

(* An offer that showed what the supplier says, and no longer does, was    *)
(* overwritten by a run with an older answer.                              *)
SetBack(r, after) == {o \in Offers : r \in Syncs /\ Agrees(o, coupons) /\ ~Agrees(o, after)}

Clean(r) == run[r].raw # {} /\ run[r].failed = {}

Rate(r) == IF run[r].raw = {} THEN "zero" ELSE "some"

(* The commit of ingest_raw.  The rate is written when it differs from the *)
(* one sync_linkmydeals loaded when it began.                              *)
CommitIngest(r) ==
  /\ run[r].phase = "ingest" /\ run[r].todo = {}
  /\ coupons' = IF r \in Syncs THEN Upsert(r) ELSE coupons
  /\ merchants' = merchants \cup run[r].inserted
  /\ source' = IF r \in Pulls THEN source ELSE
       [source EXCEPT !.exists = TRUE,
                      !.lastSuccess = IF Clean(r) THEN now ELSE @,
                      !.rate = IF Rate(r) # run[r].rate THEN Rate(r) ELSE @]
  /\ missed' = ((missed \ {o \in Offers : o \in run[r].raw /\ Agrees(o, coupons')})
                 \cup {o \in run[r].failed \cap Offers : ~Agrees(o, coupons')})
                 \cup SetBack(r, coupons')
  /\ stamped' = IF r \in Syncs /\ Clean(r) THEN run[r].runTs ELSE stamped
  /\ run' = [run EXCEPT ![r] = IF r \in Syncs
       THEN [@ EXCEPT !.phase = "expire", !.inserted = {}, !.raw = {}, !.rate = "none"]
       ELSE [Idle EXCEPT !.phase = "ended"]]
  /\ UNCHANGED <<supplier, cast, now, changes, faults>>

----------------------------------------------------------------------------
(* After the ingest: suspensions, cursor, outcome.                         *)

\* Mutant: the suspended offers are not looked at.
ExpiredNever(r) == coupons

Expired(r) ==
  [o \in Offers |-> IF run[r].answer[o] = Suspended /\ coupons[o].status = "live"
                       /\ MerchantOf[o] \in merchants
                    THEN [coupons[o] EXCEPT !.status = "expired"] ELSE coupons[o]]

ExpireSuspended(r) ==
  /\ run[r].phase = "expire"
  /\ coupons' = Expired(r)
  /\ missed' = (missed \ {o \in Offers : run[r].answer[o] = Suspended /\ Agrees(o, coupons')})
                 \cup SetBack(r, coupons')
  /\ run' = [run EXCEPT ![r].phase = "cursor"]
  /\ UNCHANGED <<supplier, merchants, source, stamped, cast, now, changes, faults>>

\* Mutant: the cursor is the time at which the run ends.
NewCursorAtEnd(r) == now

NewCursor(r) == run[r].runTs

(* A run without failed rows stamps a success, however little it brought.  *)
AdvanceCursor(r) ==
  /\ run[r].phase = "cursor"
  /\ source' = [source EXCEPT !.cursor = NewCursor(r),
                              !.lastSuccess = IF run[r].failed = {} THEN now ELSE @]
  /\ stamped' = IF run[r].failed = {} THEN run[r].runTs ELSE stamped
  /\ run' = [run EXCEPT ![r] = [Idle EXCEPT !.phase = "ended"]]
  /\ UNCHANGED <<supplier, coupons, merchants, missed, cast, now, changes, faults>>

(* _record_feed_outcome: an error makes the source row if there is none.   *)
RecordOutcome(r) ==
  /\ run[r].phase = "ended"
  /\ LET e == run[r].error
     IN source' = IF r \in Pulls THEN source ELSE
          [source EXCEPT !.exists = @ \/ e # "none", !.error = e]
  /\ run' = [run EXCEPT ![r] = Idle]
  /\ UNCHANGED <<supplier, coupons, merchants, missed, stamped, cast, now, changes, faults>>

----------------------------------------------------------------------------
SupplierChanges(o, says) ==
  /\ changes < MaxChanges
  /\ says # supplier[o].says
  /\ supplier' = [supplier EXCEPT ![o] = [says |-> says, changed |-> now]]
  /\ missed' = missed \ {o}
  /\ changes' = changes + 1
  /\ UNCHANGED <<coupons, merchants, source, run, stamped, cast, now, faults>>

Tick ==
  /\ now < MaxTime
  /\ now' = now + 1
  /\ UNCHANGED <<supplier, coupons, merchants, source, run, missed, stamped, cast, changes, faults>>

Ingest(r) ==
  \/ BeginIngest(r) \/ InsertSourceWaits(r) \/ InsertSource(r)
  \/ \E o \in Rows : UpsertRow(r, o) \/ MissMerchant(r, o)
  \/ InsertMerchant(r) \/ BreakDeadlock(r)
  \/ CommitIngest(r)

Proceed(r) ==
  \/ StartSync(r) \/ Scrape(r) \/ Ingest(r)
  \/ ExpireSuspended(r) \/ AdvanceCursor(r) \/ RecordOutcome(r)

Fail(r) == ScrapeUnreadable(r) \/ Raise(r) \/ Crash(r)

Next ==
  \/ \E r \in Runs : Proceed(r) \/ Fail(r)
  \/ \E o \in Offers : \E says \in Texts \cup {Suspended} : SupplierChanges(o, says)
  \/ Tick

Spec == Init /\ [][Next]_vars

(* The beat starts a sync for ever, a worker carries it through unless it  *)
(* fails, and the failures are finitely many.                              *)
FairSpec == Spec /\ \A r \in Runs : WF_vars(Proceed(r))

----------------------------------------------------------------------------
(* What /health and check_source_staleness say of a feed.                  *)

Stale == source.lastSuccess = Never \/ now - source.lastSuccess > StaleAfter

Degraded == source.exists /\ (Stale \/ source.rate = "zero")

----------------------------------------------------------------------------
(* Properties.                                                             *)

Time == 0 .. MaxTime
Says == Texts \cup {Suspended, Unchanged}

RunRecord == [phase : {"idle", "pull", "pulled", "racing", "ingest", "insert", "expire", "cursor", "ended"},
              cursor : Time, runTs : Time, rate : {"none", "zero", "some"},
              answer : [Offers -> Says], raw : SUBSET Rows, todo : SUBSET Rows,
              row : Rows \cup {Absent}, inserted : SUBSET Merchants, failed : SUBSET Rows,
              error : {"none", "failed"}]

(* Every variable has its type; a run holds a row to insert exactly while  *)
(* it is inserting the merchant of that row, one that is not done yet.     *)
TypeOK ==
  /\ supplier \in [Offers -> [says : Texts \cup {Suspended}, changed : Time]]
  /\ coupons \in [Offers -> [status : {Absent, "live", "expired"}, text : Texts]]
  /\ merchants \subseteq Merchants
  /\ source \in SourceRow
  /\ run \in [Runs -> RunRecord]
  /\ \A r \in Runs : run[r].phase = "insert" => run[r].row \in run[r].todo
  /\ missed \subseteq Offers
  /\ stamped \in Time
  /\ cast \in Casts
  /\ now \in Time /\ changes \in 0 .. MaxChanges /\ faults \in 0 .. MaxFaults

(* The cursor never passes a change that is not in the catalogue: an offer *)
(* last changed before it shows what the supplier says.  A crash or a pull *)
(* that fails loses nothing; only a row that failed, a 200 answer that held*)
(* no list, and a run that overlapped a newer one do (tasks.py:175).       *)
CursorCoversApplied ==
  \A o \in Offers \ missed :
    supplier[o].changed < source.cursor => Agrees(o, coupons)

(* When /health calls the feed ok, every active offer changed before the   *)
(* run that last stamped a success is shown as it is.  Not so a suspension:*)
(* ingest_raw stamps the success before expire_suspended has run.          *)
HealthyMeansShown ==
  (source.exists /\ ~Degraded) =>
    \A o \in Offers \ missed :
      (supplier[o].says # Suspended /\ supplier[o].changed < stamped) => Agrees(o, coupons)

(* What the supplier says of an offer is shown in the end, or the offer is *)
(* among those a failed row, an unreadable answer or an older run lost:    *)
(* waiting for merchants other feeds insert never stops a run for good.    *)
ChangesArrive == \A o \in Offers : []<>(Agrees(o, coupons) \/ o \in missed)

=============================================================================
