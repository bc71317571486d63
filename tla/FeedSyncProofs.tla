---------------------------- MODULE FeedSyncProofs ----------------------------
(***************************************************************************)
(* Theorems about FeedSync, for any number of overlapping runs, any offers,*)
(* merchants and texts, and any number of crashes and errors.              *)
(***************************************************************************)
EXTENDS FeedSync, TLAPS

----------------------------------------------------------------------------
(* The strengthening.  What a run holds covers the changes made before it  *)
(* began, up to the offers listed in lost: an offer that the run will not  *)
(* write is shown as it is, or was until another run set it back.          *)

Open == {"pulled", "racing", "ingest", "insert"}

SyncCovers(u, lost) ==
  /\ u.runTs <= now /\ u.cursor <= now
  /\ u.phase \in Open => u.raw = {o \in Offers : u.answer[o] \notin {Suspended, Unchanged}}
  /\ \A o \in Offers \ lost :
       /\ (u.phase = "pull" /\ supplier[o].changed < u.cursor) => Agrees(o, coupons)
       /\ (u.phase \in Open /\ supplier[o].changed < u.runTs) =>
            Agrees(o, coupons) \/ u.answer[o] = supplier[o].says
       /\ (u.phase = "expire" /\ supplier[o].changed < u.runTs) =>
            Agrees(o, coupons) \/ (u.answer[o] = Suspended /\ supplier[o].says = Suspended)
       /\ (u.phase = "cursor" /\ supplier[o].changed < u.runTs) => Agrees(o, coupons)

(* A run that has not scraped holds nothing; of the rows one has done, all *)
(* but the failed ones have their merchant.                                *)
HasMerchants(u) ==
  /\ u.phase = "pull" => u.raw = {} /\ u.todo = {} /\ u.answer = Quiet
  /\ u.phase \in {"pulled", "racing"} => u.todo = u.raw
  /\ u.phase \in {"ingest", "insert"} =>
       \A o \in u.raw \ (u.todo \cup u.failed) : MerchantOf[o] \in merchants \cup u.inserted

Covers(r, u, lost) ==
  /\ HasMerchants(u)
  /\ r \in Pulls => u.phase \in {"idle", "pull", "pulled", "ingest", "insert", "ended"}
  /\ r \in Syncs => SyncCovers(u, lost)

(* A success stamp vouches for the active offers changed before its run.   *)
StampCovers ==
  \A o \in Offers \ missed :
    (supplier[o].says # Suspended /\ supplier[o].changed < stamped) => Agrees(o, coupons)

RowsHaveMerchant ==
  \A o \in Offers : coupons[o].status # Absent => MerchantOf[o] \in merchants

FeedInv ==
  /\ TypeOK
  /\ source.cursor <= now /\ stamped <= now
  /\ \A r \in Runs : Covers(r, run[r], missed)
  /\ RowsHaveMerchant
  /\ CursorCoversApplied
  /\ StampCovers

----------------------------------------------------------------------------
(* Steps that change what a run holds and nothing else.                    *)

LEMMA RunReplaced ==
  ASSUME TypeOK, NEW r \in Runs, NEW u \in RunRecord, run' = [run EXCEPT ![r] = u],
         u.phase = "insert" => u.row \in u.todo
  PROVE  /\ run' \in [Runs -> RunRecord]
         /\ run'[r] = u
         /\ \A t \in Runs \ {r} : run'[t] = run[t]
         /\ \A t \in Runs : run'[t].phase = "insert" => run'[t].row \in run'[t].todo
BY DEF TypeOK

LEMMA RunOnly ==
  ASSUME FeedInv, NEW r \in Runs, NEW u \in RunRecord, run' = [run EXCEPT ![r] = u],
         u.phase = "insert" => u.row \in u.todo,
         UNCHANGED <<supplier, coupons, merchants, source, stamped, cast, now, changes>>,
         missed \subseteq missed', missed' \subseteq Offers, faults' \in 0 .. MaxFaults,
         Covers(r, u, missed')
  PROVE  FeedInv'
<1>1. TypeOK
  BY DEF FeedInv
<1>2. /\ run' \in [Runs -> RunRecord]
      /\ run'[r] = u
      /\ \A t \in Runs \ {r} : run'[t] = run[t]
      /\ \A t \in Runs : run'[t].phase = "insert" => run'[t].row \in run'[t].todo
  BY <1>1, RunReplaced
<1>3. TypeOK'
  BY <1>1, <1>2 DEF TypeOK
<1>4. \A o \in Offers : Agrees(o, coupons)' <=> Agrees(o, coupons)
  BY DEF Agrees
<1>5. \A t \in Runs : Covers(t, run[t], missed)'
  <2>1. ASSUME NEW t \in Runs \ {r} PROVE Covers(t, run[t], missed)'
    <3>1. Covers(t, run[t], missed) /\ run'[t] = run[t]
      BY <1>2 DEF FeedInv
    <3>. QED  BY <1>4, <3>1 DEF Covers, SyncCovers, HasMerchants
  <2>2. Covers(r, run[r], missed)'
    BY <1>2, <1>4 DEF Covers, SyncCovers, HasMerchants
  <2>. QED  BY <2>1, <2>2
<1>6. (source.cursor <= now /\ stamped <= now)' /\ RowsHaveMerchant'
  BY DEF FeedInv, RowsHaveMerchant
<1>7. CursorCoversApplied' /\ StampCovers'
  BY <1>4 DEF FeedInv, CursorCoversApplied, StampCovers
<1>. QED  BY <1>3, <1>5, <1>6, <1>7 DEF FeedInv

LEMMA IdleRun ==
  ASSUME TypeOK
  PROVE  Idle \in RunRecord /\ now \in Nat
BY FeedAssumption DEF TypeOK, Idle, RunRecord, Quiet, Says, Time, Never

(* A run that does not run covers whatever it must.                        *)
LEMMA IdleCovers ==
  ASSUME FeedInv, NEW r \in Runs, NEW e \in {"none", "failed"}
  PROVE  \A u : u \in {Idle, [Idle EXCEPT !.phase = "ended", !.error = e],
                      [Idle EXCEPT !.phase = "ended"]} =>
           u \in RunRecord /\ Covers(r, u, missed) /\ u.phase # "insert"
<1>. SUFFICES ASSUME NEW u \in {Idle, [Idle EXCEPT !.phase = "ended", !.error = e],
                               [Idle EXCEPT !.phase = "ended"]}
              PROVE  u \in RunRecord /\ Covers(r, u, missed) /\ u.phase # "insert"
  OBVIOUS
<1>1. Idle \in RunRecord /\ now \in Nat
  BY IdleRun DEF FeedInv
<1>2. u \in RunRecord
  <2>1. [Idle EXCEPT !.phase = "ended", !.error = e] \in RunRecord
    BY <1>1 DEF RunRecord
  <2>2. [Idle EXCEPT !.phase = "ended"] \in RunRecord
    BY <1>1 DEF RunRecord
  <2>. QED  BY <1>1, <2>1, <2>2
<1>3. u.phase \in {"idle", "ended"} /\ u.runTs = 0 /\ u.cursor = 0
  <2>. DEFINE Fields(v) == v.phase \in {"idle", "ended"} /\ v.runTs = 0 /\ v.cursor = 0
  <2>1. Fields(Idle) /\ Fields([Idle EXCEPT !.phase = "ended"])
    BY DEF Idle, Never
  <2>2. Fields([Idle EXCEPT !.phase = "ended", !.error = e])
    BY DEF Idle, Never
  <2>. QED  BY <2>1, <2>2
<1>4. Covers(r, u, missed) /\ u.phase # "insert"
  BY <1>1, <1>3 DEF Covers, SyncCovers, HasMerchants, Open
<1>. QED  BY <1>2, <1>4

(* The run is killed, or ends with an error.                               *)
LEMMA EndedInv ==
  ASSUME FeedInv, NEW r \in Runs, Raise(r) \/ Crash(r)
  PROVE  FeedInv'
<1>1. \E u \in {Idle, [Idle EXCEPT !.phase = "ended", !.error = "failed"]} :
        run' = [run EXCEPT ![r] = u]
  BY DEF Raise, Crash
<1>2. PICK u : /\ run' = [run EXCEPT ![r] = u]
               /\ u \in RunRecord /\ Covers(r, u, missed) /\ u.phase # "insert"
  BY <1>1, IdleCovers
<1>3. missed \subseteq Offers /\ faults' \in 0 .. MaxFaults
  BY FeedAssumption DEF FeedInv, TypeOK, Raise, Crash
<1>. QED  BY <1>2, <1>3, RunOnly DEF Raise, Crash

(* The cursor and the time are read before the pull.                       *)
LEMMA StartInv ==
  ASSUME FeedInv, NEW r \in Runs, StartSync(r)
  PROVE  FeedInv'
<1>1. TypeOK /\ missed \subseteq Offers /\ faults' \in 0 .. MaxFaults
  BY DEF FeedInv, TypeOK, StartSync
<1>2. CASE r \in Syncs
  <2>. DEFINE u == [Idle EXCEPT !.phase = "pull", !.runTs = now,
                                !.cursor = source.cursor, !.rate = source.rate]
  <2>1. run' = [run EXCEPT ![r] = u]
    BY <1>2 DEF StartSync
  <2>2. source.cursor \in Time /\ now \in Time
    BY FeedAssumption DEF FeedInv, TypeOK, SourceRow, Time
  <2>3. source.rate \in {"none", "zero", "some"}
    BY <1>1 DEF TypeOK, SourceRow
  <2>4. u \in RunRecord
    BY <1>1, <2>2, <2>3, IdleRun DEF RunRecord
  <2>5. /\ u.phase = "pull" /\ u.runTs = now /\ u.cursor = source.cursor
        /\ u.raw = {} /\ u.todo = {} /\ u.answer = Quiet
    BY DEF Idle
  <2>. HIDE DEF u
  <2>6. Covers(r, u, missed)
    <3>1. r \notin Pulls
      BY <1>2, FeedAssumption
    <3>. QED  BY <2>2, <2>5, <3>1 DEF Covers, SyncCovers, HasMerchants, Open, FeedInv, CursorCoversApplied, Time
  <2>. QED  BY <1>1, <2>1, <2>4, <2>5, <2>6, RunOnly DEF StartSync
<1>3. CASE r \notin Syncs
  <2>. DEFINE u == [Idle EXCEPT !.phase = "pull"]
  <2>1. run' = [run EXCEPT ![r] = u]
    BY <1>3 DEF StartSync
  <2>2. u \in RunRecord
    BY <1>1, IdleRun DEF RunRecord
  <2>3. u.phase = "pull" /\ u.raw = {} /\ u.todo = {} /\ u.answer = Quiet
    BY DEF Idle, Never
  <2>. HIDE DEF u
  <2>4. Covers(r, u, missed)
    BY <1>1, <1>3, <2>3, IdleRun DEF Covers, SyncCovers, HasMerchants, Open
  <2>. QED  BY <1>1, <2>1, <2>2, <2>3, <2>4, RunOnly DEF StartSync
<1>. QED  BY <1>2, <1>3

LEMMA AnswerType ==
  ASSUME TypeOK, NEW cursor
  PROVE  /\ Answer(cursor) \in [Offers -> Says]
         /\ Quiet \in [Offers -> Says]
BY DEF TypeOK, Answer, Quiet, Says

(* What changed since the cursor is in the answer, the rest was shown.     *)
LEMMA ScrapeInv ==
  ASSUME FeedInv, NEW r \in Runs, Scrape(r)
  PROVE  FeedInv'
<1>. DEFINE answer == IF r \in Syncs THEN Answer(run[r].cursor) ELSE Quiet
            raw == IF r \in Syncs THEN {o \in Offers : answer[o] \notin {Suspended, Unchanged}}
                   ELSE Listed
            u == [run[r] EXCEPT !.phase = "pulled", !.answer = answer, !.raw = raw, !.todo = raw]
<1>1. TypeOK /\ missed \subseteq Offers /\ faults' \in 0 .. MaxFaults
  BY DEF FeedInv, TypeOK, Scrape
<1>2. run[r] \in RunRecord /\ run[r].phase = "pull" /\ Covers(r, run[r], missed)
  BY DEF FeedInv, TypeOK, Scrape
<1>3. answer \in [Offers -> Says] /\ raw \subseteq Rows
  BY <1>1, AnswerType DEF Rows
<1>4. run' = [run EXCEPT ![r] = u]
  BY <1>1 DEF Scrape, TypeOK
<1>5. r \in Syncs => /\ raw = {o \in Offers : answer[o] \notin {Suspended, Unchanged}}
                     /\ \A o \in Offers : supplier[o].changed >= run[r].cursor =>
                                            answer[o] = supplier[o].says
  BY DEF Answer
<1>6. r \notin Syncs => r \in Pulls
  BY DEF Runs
<1>. HIDE DEF answer, raw
<1>7. u \in RunRecord
  BY <1>2, <1>3 DEF RunRecord
<1>8. /\ u.phase = "pulled" /\ u.answer = answer /\ u.raw = raw /\ u.todo = raw
      /\ u.runTs = run[r].runTs /\ u.cursor = run[r].cursor
  BY <1>2 DEF RunRecord
<1>. HIDE DEF u
<1>9. Covers(r, u, missed)
  <2>1. run[r].cursor \in Nat /\ \A o \in Offers : supplier[o].changed \in Nat
    BY <1>1, <1>2 DEF TypeOK, RunRecord, Time
  <2>2. r \in Syncs => SyncCovers(u, missed)
    BY <1>2, <1>5, <1>8, <2>1 DEF Covers, SyncCovers, Open
  <2>. QED  BY <1>8, <2>2 DEF Covers, HasMerchants
<1>. QED  BY <1>1, <1>4, <1>7, <1>8, <1>9, RunOnly DEF Scrape

(* An unreadable answer loses what it held.                                *)
LEMMA UnreadableInv ==
  ASSUME FeedInv, NEW r \in Runs, ScrapeUnreadable(r)
  PROVE  FeedInv'
<1>. DEFINE u == [run[r] EXCEPT !.phase = "pulled"]
<1>1. TypeOK /\ run[r] \in RunRecord /\ run[r].phase = "pull" /\ Covers(r, run[r], missed)
  BY DEF FeedInv, TypeOK, ScrapeUnreadable
<1>2. faults' \in 0 .. MaxFaults
  BY FeedAssumption DEF FeedInv, TypeOK, ScrapeUnreadable
<1>3. run' = [run EXCEPT ![r] = u]
  BY <1>1 DEF ScrapeUnreadable, TypeOK
<1>4. u \in RunRecord
  BY <1>1 DEF RunRecord
<1>5. /\ u.phase = "pulled" /\ u.answer = run[r].answer /\ u.raw = run[r].raw
      /\ u.todo = run[r].todo /\ u.runTs = run[r].runTs /\ u.cursor = run[r].cursor
  BY <1>1 DEF RunRecord
<1>. HIDE DEF u
<1>6. missed \subseteq missed' /\ missed' \subseteq Offers
  BY <1>1 DEF ScrapeUnreadable, TypeOK
<1>7. r \in Syncs => \A o \in Offers \ missed' :
                       o \notin missed /\ ~(supplier[o].changed >= run[r].cursor)
  BY <1>1, FeedAssumption DEF ScrapeUnreadable, Answer, TypeOK, Suspended, Unchanged
<1>8. run[r].raw = {} /\ run[r].todo = {} /\ run[r].answer = Quiet
  BY <1>1 DEF Covers, HasMerchants
<1>9. Covers(r, u, missed')
  <2>1. run[r].cursor \in Nat /\ \A o \in Offers : supplier[o].changed \in Nat
    BY <1>1 DEF TypeOK, RunRecord, Time
  <2>2. r \in Syncs => SyncCovers(u, missed')
    BY <1>1, <1>5, <1>7, <1>8, <2>1 DEF Covers, SyncCovers, Open, Quiet
  <2>. QED  BY <1>5, <1>8, <2>2 DEF Covers, HasMerchants
<1>. QED  BY <1>2, <1>3, <1>4, <1>5, <1>6, <1>9, RunOnly DEF ScrapeUnreadable

----------------------------------------------------------------------------
(* The rows of a batch, one savepoint at a time.                           *)

(* A run that goes on with the batch keeps what it answers for.            *)
LEMMA BatchGoesOn ==
  ASSUME FeedInv, NEW r \in Runs, run[r].phase \in Open,
         NEW u \in RunRecord, run' = [run EXCEPT ![r] = u], u.phase \in Open,
         u.raw = run[r].raw, u.answer = run[r].answer,
         u.runTs = run[r].runTs, u.cursor = run[r].cursor,
         u.phase = "racing" => r \in Syncs,
         u.phase \in {"racing", "pulled"} => u.todo = u.raw,
         u.phase = "insert" => u.row \in u.todo,
         u.phase \in {"ingest", "insert"} =>
           \A o \in u.raw \ (u.todo \cup u.failed) : MerchantOf[o] \in merchants \cup u.inserted,
         UNCHANGED <<supplier, coupons, merchants, source, missed, stamped, cast, now, changes, faults>>
  PROVE  FeedInv'
<1>1. TypeOK /\ run[r] \in RunRecord /\ Covers(r, run[r], missed)
  BY DEF FeedInv, TypeOK
<1>2. Covers(r, u, missed)
  <2>1. r \in Syncs => SyncCovers(u, missed)
    BY <1>1 DEF Covers, SyncCovers, Open
  <2>2. HasMerchants(u)
    BY DEF HasMerchants, Open
  <2>3. r \in Pulls => r \notin Syncs
    BY FeedAssumption
  <2>. QED  BY <2>1, <2>2, <2>3 DEF Covers, Open
<1>3. missed \subseteq missed' /\ missed' \subseteq Offers /\ faults' \in 0 .. MaxFaults
  BY <1>1 DEF TypeOK
<1>4. Covers(r, u, missed')
  BY <1>2
<1>. QED  BY <1>3, <1>4, RunOnly

(* A row is done: upserted under its merchant, or failed.                  *)
LEMMA RowDoneInv ==
  ASSUME FeedInv, NEW r \in Runs, run[r].phase = "insert",
         NEW failed \in SUBSET Rows, NEW inserted \in SUBSET Merchants,
         RowDone(r, failed, inserted),
         run[r].row \in failed \/ MerchantOf[run[r].row] \in inserted,
         UNCHANGED <<supplier, coupons, merchants, source, missed, stamped, cast, now, changes, faults>>
  PROVE  FeedInv'
<1>. DEFINE u == [run[r] EXCEPT !.phase = "ingest", !.row = Absent,
                                !.todo = run[r].todo \ {run[r].row},
                                !.failed = run[r].failed \cup failed,
                                !.inserted = run[r].inserted \cup inserted]
<1>1. TypeOK /\ run[r] \in RunRecord /\ Covers(r, run[r], missed)
  BY DEF FeedInv, TypeOK
<1>2. run' = [run EXCEPT ![r] = u]
  BY <1>1 DEF RowDone, TypeOK
<1>3. u \in RunRecord
  BY <1>1 DEF RunRecord
<1>4. /\ u.phase = "ingest" /\ u.todo = run[r].todo \ {run[r].row}
      /\ u.failed = run[r].failed \cup failed /\ u.inserted = run[r].inserted \cup inserted
      /\ u.raw = run[r].raw /\ u.answer = run[r].answer
      /\ u.runTs = run[r].runTs /\ u.cursor = run[r].cursor
  BY <1>1 DEF RunRecord
<1>. HIDE DEF u
<1>5. \A o \in u.raw \ (u.todo \cup u.failed) : MerchantOf[o] \in merchants \cup u.inserted
  BY <1>1, <1>4 DEF Covers, HasMerchants
<1>6. run[r].phase \in Open /\ u.phase \in Open
  BY <1>4 DEF Open
<1>. QED  BY <1>2, <1>3, <1>4, <1>5, <1>6, BatchGoesOn

LEMMA InsertInv ==
  ASSUME FeedInv, NEW r \in Runs, InsertMerchant(r) \/ BreakDeadlock(r)
  PROVE  FeedInv'
<1>. DEFINE o == run[r].row
<1>1. run[r].phase = "insert"
  BY DEF InsertMerchant, BreakDeadlock, WaitsFor
<1>2. o \in Rows /\ MerchantOf[o] \in Merchants
  BY <1>1, FeedAssumption DEF FeedInv, TypeOK, RunRecord
<1>3. RowDone(r, {o}, {}) \/ RowDone(r, {}, {MerchantOf[o]})
  BY DEF InsertMerchant, BreakDeadlock
<1>4. UNCHANGED <<supplier, coupons, merchants, source, missed, stamped, cast, now, changes, faults>>
  BY DEF InsertMerchant, BreakDeadlock
<1>5. CASE RowDone(r, {o}, {})
  <2>1. {o} \in SUBSET Rows /\ {} \in SUBSET Merchants /\ o \in {o}
    BY <1>2
  <2>. HIDE DEF o
  <2>2. o = run[r].row
    BY DEF o
  <2>. QED  BY <1>1, <1>4, <1>5, <2>1, <2>2, RowDoneInv
<1>6. CASE RowDone(r, {}, {MerchantOf[o]})
  <2>1. {} \in SUBSET Rows /\ {MerchantOf[o]} \in SUBSET Merchants
    BY <1>2
  <2>. QED  BY <1>1, <1>4, <1>6, <2>1, RowDoneInv
<1>. QED  BY <1>3, <1>5, <1>6

(* The other steps of ingest_raw before its commit.                        *)
LEMMA IngestInv ==
  ASSUME FeedInv, NEW r \in Runs,
         \/ BeginIngest(r) \/ InsertSourceWaits(r)
         \/ \E o \in Rows : UpsertRow(r, o) \/ MissMerchant(r, o)
  PROVE  FeedInv'
<1>1. TypeOK /\ run[r] \in RunRecord /\ Covers(r, run[r], missed)
  BY DEF FeedInv, TypeOK
<1>2. ASSUME NEW phase \in {"ingest", "racing"}, run[r].phase = "pulled",
             phase = "racing" => r \in Syncs, run' = [run EXCEPT ![r].phase = phase],
             UNCHANGED <<supplier, coupons, merchants, source, missed, stamped, cast, now, changes, faults>>
      PROVE  FeedInv'
  <2>. DEFINE u == [run[r] EXCEPT !.phase = phase]
  <2>1. run' = [run EXCEPT ![r] = u]
    BY <1>1, <1>2 DEF TypeOK
  <2>2. u \in RunRecord
    BY <1>1 DEF RunRecord
  <2>3. /\ u.phase = phase /\ u.todo = run[r].todo /\ u.failed = run[r].failed
        /\ u.inserted = run[r].inserted /\ u.raw = run[r].raw /\ u.answer = run[r].answer
        /\ u.runTs = run[r].runTs /\ u.cursor = run[r].cursor
    BY <1>1 DEF RunRecord
  <2>. HIDE DEF u
  <2>4. u.todo = u.raw /\ u.phase \in Open /\ run[r].phase \in Open
    BY <1>1, <1>2, <2>3 DEF Covers, HasMerchants, Open
  <2>. QED  BY <1>2, <2>1, <2>2, <2>3, <2>4, BatchGoesOn
<1>3. ASSUME NEW o \in Rows, UpsertRow(r, o) PROVE FeedInv'
  <2>. DEFINE lost == IF o \in Bad THEN run[r].failed \cup {o} ELSE run[r].failed
              u == [run[r] EXCEPT !.todo = run[r].todo \ {o}, !.failed = lost]
  <2>1. run' = [run EXCEPT ![r] = u]
    BY <1>1, <1>3 DEF UpsertRow, TypeOK
  <2>2. lost \in SUBSET Rows
    BY <1>1 DEF RunRecord
  <2>3. run[r].failed \subseteq lost
    OBVIOUS
  <2>. HIDE DEF lost
  <2>4. u \in RunRecord
    BY <1>1, <2>2 DEF RunRecord
  <2>5. /\ u.phase = run[r].phase /\ u.todo = run[r].todo \ {o} /\ u.failed = lost
        /\ u.inserted = run[r].inserted /\ u.raw = run[r].raw /\ u.answer = run[r].answer
        /\ u.runTs = run[r].runTs /\ u.cursor = run[r].cursor
    BY <1>1 DEF RunRecord
  <2>. HIDE DEF u
  <2>6. run[r].phase = "ingest" /\ MerchantOf[o] \in merchants \cup run[r].inserted
    BY <1>3 DEF UpsertRow
  <2>7. \A p \in u.raw \ (u.todo \cup u.failed) : MerchantOf[p] \in merchants \cup u.inserted
    BY <1>1, <2>3, <2>5, <2>6 DEF Covers, HasMerchants
  <2>8. u.phase \in Open /\ run[r].phase \in Open /\ u.phase = "ingest"
    BY <2>5, <2>6 DEF Open
  <2>. QED  BY <1>3, <2>1, <2>4, <2>5, <2>7, <2>8, BatchGoesOn DEF UpsertRow
<1>4. ASSUME NEW o \in Rows, MissMerchant(r, o) PROVE FeedInv'
  <2>. DEFINE u == [run[r] EXCEPT !.phase = "insert", !.row = o]
  <2>1. run' = [run EXCEPT ![r] = u]
    BY <1>1, <1>4 DEF MissMerchant, TypeOK
  <2>2. u \in RunRecord
    BY <1>1 DEF RunRecord
  <2>3. /\ u.phase = "insert" /\ u.row = o /\ u.todo = run[r].todo /\ u.failed = run[r].failed
        /\ u.inserted = run[r].inserted /\ u.raw = run[r].raw /\ u.answer = run[r].answer
        /\ u.runTs = run[r].runTs /\ u.cursor = run[r].cursor
    BY <1>1 DEF RunRecord
  <2>. HIDE DEF u
  <2>4. run[r].phase = "ingest" /\ o \in run[r].todo
    BY <1>4 DEF MissMerchant
  <2>5. \A p \in u.raw \ (u.todo \cup u.failed) : MerchantOf[p] \in merchants \cup u.inserted
    BY <1>1, <2>3, <2>4 DEF Covers, HasMerchants
  <2>6. u.phase \in Open /\ run[r].phase \in Open
    BY <2>3, <2>4 DEF Open
  <2>. QED  BY <1>4, <2>1, <2>2, <2>3, <2>4, <2>5, <2>6, BatchGoesOn DEF MissMerchant
<1>5. CASE BeginIngest(r)
  BY <1>2, <1>5 DEF BeginIngest
<1>6. CASE InsertSourceWaits(r)
  BY <1>2, <1>6 DEF InsertSourceWaits
<1>. QED  BY <1>3, <1>4, <1>5, <1>6

(* A source that another run created meanwhile ends the run.               *)
LEMMA InsertSourceInv ==
  ASSUME FeedInv, NEW r \in Runs, InsertSource(r)
  PROVE  FeedInv'
<1>1. TypeOK /\ run[r] \in RunRecord /\ Covers(r, run[r], missed) /\ run[r].phase = "racing"
  BY DEF FeedInv, TypeOK, InsertSource
<1>2. CASE source.exists
  <2>1. \E u \in {Idle, [Idle EXCEPT !.phase = "ended", !.error = "failed"]} :
          run' = [run EXCEPT ![r] = u]
    BY <1>2 DEF InsertSource
  <2>2. PICK u : /\ run' = [run EXCEPT ![r] = u]
                 /\ u \in RunRecord /\ Covers(r, u, missed) /\ u.phase # "insert"
    BY <2>1, IdleCovers
  <2>3. missed \subseteq Offers /\ faults' \in 0 .. MaxFaults
    BY <1>1 DEF TypeOK, InsertSource
  <2>. QED  BY <2>2, <2>3, RunOnly DEF InsertSource
<1>3. CASE ~source.exists
  <2>. DEFINE u == [run[r] EXCEPT !.phase = "ingest"]
  <2>1. run' = [run EXCEPT ![r] = u]
    BY <1>3 DEF InsertSource
  <2>2. u \in RunRecord
    BY <1>1 DEF RunRecord
  <2>3. /\ u.phase = "ingest" /\ u.todo = run[r].todo
        /\ u.raw = run[r].raw /\ u.answer = run[r].answer
        /\ u.runTs = run[r].runTs /\ u.cursor = run[r].cursor
    BY <1>1 DEF RunRecord
  <2>. HIDE DEF u
  <2>4. u.todo = u.raw /\ u.phase \in Open /\ run[r].phase \in Open
    BY <1>1, <2>3 DEF Covers, HasMerchants, Open
  <2>. QED  BY <2>1, <2>2, <2>3, <2>4, BatchGoesOn DEF InsertSource
<1>. QED  BY <1>2, <1>3

----------------------------------------------------------------------------
(* Steps that write the catalogue, and the supplier's own.                 *)

(* An offer that is not listed as missed after the step was changed now, or*)
(* is shown as it is, or was not shown before and is as it was.            *)
Faithful ==
  \A o \in Offers \ missed' :
    \/ supplier'[o].changed = now
    \/ supplier'[o] = supplier[o] /\ Agrees(o, coupons)'
    \/ supplier'[o] = supplier[o] /\ o \notin missed /\ ~Agrees(o, coupons)

(* Such a step disturbs no other run, and no promise made before.          *)
LEMMA FaithfulKeeps ==
  ASSUME FeedInv, Faithful, now' = now, merchants \subseteq merchants'
  PROVE  /\ \A t \in Runs : run'[t] = run[t] => Covers(t, run[t], missed)'
         /\ source'.cursor = source.cursor => CursorCoversApplied'
         /\ stamped' = stamped => StampCovers'
<1>1. /\ TypeOK /\ now \in Nat /\ source.cursor <= now /\ stamped <= now
      /\ source.cursor \in Nat /\ stamped \in Nat
  BY FeedAssumption DEF FeedInv, TypeOK, Time, SourceRow
<1>2. ASSUME NEW t \in Runs, run'[t] = run[t] PROVE Covers(t, run[t], missed)'
  <2>1. Covers(t, run[t], missed) /\ run[t].runTs \in Nat /\ run[t].cursor \in Nat
    BY <1>1 DEF FeedInv, TypeOK, RunRecord, Time
  <2>2. HasMerchants(run[t])'
    BY <1>2, <2>1 DEF Covers, HasMerchants
  <2>3. t \in Syncs => SyncCovers(run[t], missed)'
    BY <1>1, <1>2, <2>1 DEF Covers, SyncCovers, Faithful
  <2>. QED  BY <1>2, <2>1, <2>2, <2>3 DEF Covers
<1>3. source'.cursor = source.cursor => CursorCoversApplied'
  BY <1>1 DEF FeedInv, Faithful, CursorCoversApplied
<1>4. stamped' = stamped => StampCovers'
  BY <1>1 DEF FeedInv, Faithful, StampCovers
<1>. QED  BY <1>2, <1>3, <1>4

LEMMA SupplierInv ==
  ASSUME FeedInv, NEW o \in Offers, NEW says \in Texts \cup {Suspended}, SupplierChanges(o, says)
  PROVE  FeedInv'
<1>1. TypeOK
  BY DEF FeedInv
<1>2. TypeOK'
  <2>1. supplier' \in [Offers -> [says : Texts \cup {Suspended}, changed : Time]]
    BY <1>1 DEF TypeOK, SupplierChanges
  <2>2. changes' \in 0 .. MaxChanges
    BY <1>1, FeedAssumption DEF TypeOK, SupplierChanges
  <2>. QED  BY <1>1, <2>1, <2>2 DEF TypeOK, SupplierChanges
<1>3. Faithful
  <2>1. supplier'[o].changed = now /\ \A p \in Offers \ {o} : supplier'[p] = supplier[p]
    BY <1>1 DEF TypeOK, SupplierChanges
  <2>2. \A p \in Offers \ {o} : Agrees(p, coupons)' <=> Agrees(p, coupons)
    BY <2>1 DEF Agrees, SupplierChanges
  <2>. QED  BY <2>1, <2>2 DEF Faithful, SupplierChanges
<1>4. UNCHANGED <<coupons, merchants, source, run, stamped, now>>
  BY DEF SupplierChanges
<1>5. (\A t \in Runs : Covers(t, run[t], missed)') /\ CursorCoversApplied' /\ StampCovers'
  BY <1>3, <1>4, FaithfulKeeps
<1>. QED  BY <1>2, <1>4, <1>5 DEF FeedInv, RowsHaveMerchant

LEMMA TickInv ==
  ASSUME FeedInv, Tick
  PROVE  FeedInv'
<1>1. TypeOK /\ now \in Nat /\ now' = now + 1 /\ now' \in Time
  BY FeedAssumption DEF FeedInv, TypeOK, Tick, Time
<1>2. UNCHANGED <<supplier, coupons, merchants, source, run, missed, stamped, cast, changes, faults>>
  BY DEF Tick
<1>3. TypeOK'
  BY <1>1, <1>2 DEF TypeOK
<1>4. \A o \in Offers : Agrees(o, coupons)' <=> Agrees(o, coupons)
  BY <1>2 DEF Agrees
<1>5. CursorCoversApplied' /\ StampCovers' /\ RowsHaveMerchant'
  BY <1>2, <1>4 DEF FeedInv, CursorCoversApplied, StampCovers, RowsHaveMerchant
<1>6. ASSUME NEW t \in Runs PROVE Covers(t, run[t], missed)'
  <2>1. Covers(t, run[t], missed) /\ run[t].runTs \in Nat /\ run[t].cursor \in Nat
    BY <1>1 DEF FeedInv, TypeOK, RunRecord, Time
  <2>. QED  BY <1>1, <1>2, <1>4, <2>1 DEF Covers, SyncCovers, HasMerchants
<1>7. (source.cursor <= now /\ stamped <= now)'
  <2>1. source.cursor \in Nat /\ stamped \in Nat
    BY <1>1 DEF TypeOK, SourceRow, Time
  <2>. QED  BY <1>1, <1>2, <2>1 DEF FeedInv
<1>. QED  BY <1>3, <1>5, <1>6, <1>7 DEF FeedInv

----------------------------------------------------------------------------
(* The commit of ingest_raw, the suspensions, the cursor, the outcome.     *)

(* The batch of a sync is written as it was answered.                      *)
LEMMA UpsertType ==
  ASSUME FeedInv, NEW r \in Syncs, run[r].phase \in Open
  PROVE  /\ Upsert(r) \in [Offers -> [status : {Absent, "live", "expired"}, text : Texts]]
         /\ \A o \in Offers : Upsert(r)[o] =
              IF o \in run[r].raw \ run[r].failed
              THEN [status |-> "live", text |-> run[r].answer[o]] ELSE coupons[o]
<1>1. TypeOK /\ r \in Runs /\ run[r] \in RunRecord /\ SyncCovers(run[r], missed)
  BY DEF FeedInv, TypeOK, Runs, Covers
<1>2. \A o \in Offers : o \in run[r].raw => run[r].answer[o] \in Texts
  BY <1>1 DEF SyncCovers, RunRecord, Says
<1>. QED  BY <1>1, <1>2 DEF Upsert, TypeOK

(* The commit of ingest_raw is faithful, whatever the run had failed.      *)
LEMMA CommitFaithful ==
  ASSUME FeedInv, NEW r \in Runs, CommitIngest(r)
  PROVE  Faithful
<1>1. supplier' = supplier
  BY DEF CommitIngest
<1>2. \A o \in Offers : Agrees(o, coupons)' <=> Agrees(o, coupons')
  BY <1>1 DEF Agrees
<1>3. ASSUME NEW o \in Offers \ missed', o \in missed PROVE Agrees(o, coupons')
  BY <1>3 DEF CommitIngest
<1>4. ASSUME NEW o \in Offers \ missed', Agrees(o, coupons) PROVE Agrees(o, coupons')
  <2>1. o \notin SetBack(r, coupons')
    BY DEF CommitIngest
  <2>2. r \notin Syncs => coupons' = coupons
    BY DEF CommitIngest
  <2>. QED  BY <1>4, <2>1, <2>2 DEF SetBack
<1>. QED  BY <1>1, <1>2, <1>3, <1>4 DEF Faithful

(* An active offer of the answer is in the catalogue now.                  *)
LEMMA CommitShows ==
  ASSUME FeedInv, NEW r \in Syncs, CommitIngest(r)
  PROVE  \A o \in Offers \ missed' : supplier[o].changed < run[r].runTs =>
           \/ Agrees(o, coupons')
           \/ run[r].answer[o] = Suspended /\ supplier[o].says = Suspended
<1>. SUFFICES ASSUME NEW o \in Offers \ missed', supplier[o].changed < run[r].runTs,
                     ~Agrees(o, coupons')
              PROVE  run[r].answer[o] = Suspended /\ supplier[o].says = Suspended
  OBVIOUS
<1>1. r \in Runs /\ run[r].phase = "ingest" /\ run[r].phase \in Open
  BY DEF Runs, CommitIngest, Open
<1>2. TypeOK /\ run[r] \in RunRecord /\ SyncCovers(run[r], missed)
  BY <1>1 DEF FeedInv, TypeOK, Covers
<1>3. o \notin missed /\ ~Agrees(o, coupons)
  BY CommitFaithful, <1>1 DEF CommitIngest, SetBack
<1>4. run[r].answer[o] = supplier[o].says
  BY <1>1, <1>2, <1>3 DEF SyncCovers
<1>5. CASE o \in run[r].raw
  <2>1. o \notin run[r].failed
    BY DEF CommitIngest
  <2>2. coupons'[o] = [status |-> "live", text |-> run[r].answer[o]]
    BY <1>1, <1>5, <2>1, UpsertType DEF CommitIngest
  <2>3. run[r].answer[o] # Suspended
    BY <1>1, <1>2, <1>5 DEF SyncCovers
  <2>. QED  BY <1>4, <2>2, <2>3 DEF Agrees
<1>6. CASE o \notin run[r].raw
  <2>1. supplier[o].says # Unchanged
    BY <1>2, FeedAssumption DEF TypeOK, Suspended, Unchanged
  <2>. QED  BY <1>1, <1>2, <1>4, <1>6, <2>1 DEF SyncCovers
<1>. QED  BY <1>5, <1>6

LEMMA CommitIngestInv ==
  ASSUME FeedInv, NEW r \in Runs, CommitIngest(r)
  PROVE  FeedInv'
<1>1. /\ TypeOK /\ run[r] \in RunRecord /\ Covers(r, run[r], missed)
      /\ run[r].phase = "ingest" /\ run[r].todo = {} /\ run[r].phase \in Open
      /\ now \in Time /\ now \in Nat
  BY FeedAssumption DEF FeedInv, TypeOK, CommitIngest, Open, Time
<1>2. Faithful /\ merchants' = merchants \cup run[r].inserted
  BY CommitFaithful DEF CommitIngest
<1>3. /\ \A t \in Runs : run'[t] = run[t] => Covers(t, run[t], missed)'
      /\ source'.cursor = source.cursor => CursorCoversApplied'
      /\ stamped' = stamped => StampCovers'
  BY <1>2, FaithfulKeeps DEF CommitIngest
<1>4. merchants' \subseteq Merchants /\ missed' \subseteq Offers
  <2>1. missed' \subseteq Offers
    BY <1>1 DEF CommitIngest, TypeOK, SetBack
  <2>. QED  BY <1>1, <1>2, <2>1 DEF TypeOK, RunRecord
<1>5. source' \in SourceRow /\ source'.cursor = source.cursor
  <2>1. Rate(r) \in {"none", "zero", "some"}
    BY DEF Rate
  <2>. DEFINE last == IF Clean(r) THEN now ELSE source.lastSuccess
              rate == IF Rate(r) # run[r].rate THEN Rate(r) ELSE source.rate
  <2>2. CASE r \in Pulls
    BY <1>1, <2>2 DEF CommitIngest, TypeOK
  <2>3. CASE r \notin Pulls
    <3>1. source' = [source EXCEPT !.exists = TRUE, !.lastSuccess = last, !.rate = rate]
      BY <2>3 DEF CommitIngest
    <3>2. source \in SourceRow /\ last \in Nat /\ rate \in {"none", "zero", "some"}
      BY <1>1, <2>1 DEF TypeOK, SourceRow
    <3>. HIDE DEF last, rate
    <3>. QED  BY <3>1, <3>2 DEF SourceRow
  <2>. QED  BY <2>2, <2>3
<1>6. CASE r \in Syncs
  <2>. DEFINE u == [run[r] EXCEPT !.phase = "expire", !.inserted = {}, !.raw = {}, !.rate = "none"]
  <2>1. run' = [run EXCEPT ![r] = u]
    BY <1>6 DEF CommitIngest
  <2>2. u \in RunRecord
    BY <1>1 DEF RunRecord
  <2>3. /\ u.phase = "expire" /\ u.answer = run[r].answer
        /\ u.runTs = run[r].runTs /\ u.cursor = run[r].cursor
    BY <1>1 DEF RunRecord
  <2>. HIDE DEF u
  <2>4. /\ run' \in [Runs -> RunRecord] /\ run'[r] = u
        /\ \A t \in Runs \ {r} : run'[t] = run[t]
        /\ \A t \in Runs : run'[t].phase = "insert" => run'[t].row \in run'[t].todo
    BY <1>1, <2>1, <2>2, <2>3, RunReplaced
  <2>5. \A o \in Offers \ missed' : supplier[o].changed < run[r].runTs =>
           \/ Agrees(o, coupons')
           \/ run[r].answer[o] = Suspended /\ supplier[o].says = Suspended
    BY <1>6, CommitShows
  <2>6. supplier' = supplier /\ now' = now /\ \A o \in Offers : Agrees(o, coupons)' <=> Agrees(o, coupons')
    BY DEF CommitIngest, Agrees
  <2>7. r \notin Pulls
    BY <1>6, FeedAssumption
  <2>8. Covers(r, run[r], missed)'
    <3>1. SyncCovers(run[r], missed)'
      BY <1>1, <1>6, <2>3, <2>4, <2>5, <2>6 DEF SyncCovers, Covers, Open
    <3>2. HasMerchants(run[r])'
      BY <2>3, <2>4 DEF HasMerchants
    <3>. QED  BY <2>7, <3>1, <3>2 DEF Covers
  <2>9. StampCovers' /\ (stamped' \in Time /\ stamped' <= now')
    <3>1. CASE stamped' = run[r].runTs
      <4>1. run[r].runTs \in Time /\ run[r].runTs <= now
        BY <1>1, <1>6 DEF Covers, SyncCovers, RunRecord
      <4>. QED  BY <2>5, <2>6, <3>1, <4>1 DEF StampCovers
    <3>2. CASE stamped' = stamped
      BY <1>1, <1>3, <2>6, <3>2 DEF TypeOK, FeedInv
    <3>. QED  BY <3>1, <3>2 DEF CommitIngest
  <2>10. coupons' \in [Offers -> [status : {Absent, "live", "expired"}, text : Texts]]
    BY <1>1, <1>6, UpsertType DEF CommitIngest
  <2>11. RowsHaveMerchant'
    <3>1. \A o \in Offers : coupons'[o] # coupons[o] => o \in run[r].raw \ run[r].failed
      BY <1>1, <1>6, UpsertType DEF CommitIngest
    <3>2. \A o \in run[r].raw \ run[r].failed : MerchantOf[o] \in merchants'
      BY <1>1, <1>2 DEF Covers, HasMerchants
    <3>. QED  BY <1>2, <3>1, <3>2 DEF FeedInv, RowsHaveMerchant
  <2>12. TypeOK'
    BY <1>1, <1>4, <1>5, <2>4, <2>9, <2>10 DEF TypeOK, CommitIngest
  <2>13. \A t \in Runs : Covers(t, run[t], missed)'
    BY <1>3, <2>4, <2>8
  <2>14. (source.cursor <= now)'
    BY <1>5, <2>6 DEF FeedInv
  <2>. QED  BY <1>3, <1>5, <2>9, <2>11, <2>12, <2>13, <2>14 DEF FeedInv
<1>7. CASE r \notin Syncs
  <2>. DEFINE u == [Idle EXCEPT !.phase = "ended"]
  <2>1. run' = [run EXCEPT ![r] = u] /\ UNCHANGED <<supplier, coupons, cast, now, changes, faults, stamped>>
    BY <1>7 DEF CommitIngest
  <2>2. u \in RunRecord
    BY IdleCovers
  <2>3. /\ u.phase = "ended"
    BY DEF Idle
  <2>. HIDE DEF u
  <2>4. /\ run' \in [Runs -> RunRecord] /\ run'[r] = u
        /\ \A t \in Runs \ {r} : run'[t] = run[t]
        /\ \A t \in Runs : run'[t].phase = "insert" => run'[t].row \in run'[t].todo
    BY <1>1, <2>1, <2>2, <2>3, RunReplaced
  <2>5. Covers(r, run[r], missed)'
    BY <1>7, <2>3, <2>4 DEF Covers, HasMerchants
  <2>6. TypeOK'
    BY <1>1, <1>4, <1>5, <2>1, <2>4 DEF TypeOK
  <2>7. \A t \in Runs : Covers(t, run[t], missed)'
    BY <1>3, <2>4, <2>5
  <2>8. RowsHaveMerchant' /\ (source.cursor <= now /\ stamped <= now)'
    BY <1>2, <1>5, <2>1 DEF FeedInv, RowsHaveMerchant
  <2>. QED  BY <1>3, <1>5, <2>1, <2>6, <2>7, <2>8 DEF FeedInv
<1>. QED  BY <1>6, <1>7

(* Offers the answer calls suspended are withdrawn; a live row has its     *)
(* merchant, so none is passed over.                                       *)
LEMMA ExpireInv ==
  ASSUME FeedInv, NEW r \in Runs, ExpireSuspended(r)
  PROVE  FeedInv'
<1>. DEFINE u == [run[r] EXCEPT !.phase = "cursor"]
<1>1. /\ TypeOK /\ run[r] \in RunRecord /\ Covers(r, run[r], missed)
      /\ run[r].phase = "expire" /\ r \in Syncs /\ r \notin Pulls
  BY DEF FeedInv, TypeOK, ExpireSuspended, Covers, Runs
<1>2. /\ supplier' = supplier /\ now' = now /\ merchants' = merchants
      /\ \A o \in Offers : Agrees(o, coupons)' <=> Agrees(o, coupons')
  BY DEF ExpireSuspended, Agrees
<1>3. run' = [run EXCEPT ![r] = u]
  BY <1>1 DEF ExpireSuspended, TypeOK
<1>4. u \in RunRecord
  BY <1>1 DEF RunRecord
<1>5. /\ u.phase = "cursor" /\ u.runTs = run[r].runTs /\ u.cursor = run[r].cursor
  BY <1>1 DEF RunRecord
<1>. HIDE DEF u
<1>6. /\ run' \in [Runs -> RunRecord] /\ run'[r] = u
      /\ \A t \in Runs \ {r} : run'[t] = run[t]
      /\ \A t \in Runs : run'[t].phase = "insert" => run'[t].row \in run'[t].todo
  BY <1>1, <1>3, <1>4, <1>5, RunReplaced
<1>7. /\ coupons' \in [Offers -> [status : {Absent, "live", "expired"}, text : Texts]]
      /\ \A o \in Offers : coupons'[o] =
           IF run[r].answer[o] = Suspended /\ coupons[o].status = "live"
              /\ MerchantOf[o] \in merchants
           THEN [coupons[o] EXCEPT !.status = "expired"] ELSE coupons[o]
  BY <1>1 DEF ExpireSuspended, Expired, TypeOK
<1>8. Faithful
  <2>1. ASSUME NEW o \in Offers \ missed', o \in missed PROVE Agrees(o, coupons')
    BY <2>1 DEF ExpireSuspended
  <2>2. ASSUME NEW o \in Offers \ missed', Agrees(o, coupons) PROVE Agrees(o, coupons')
    BY <1>1, <2>2 DEF ExpireSuspended, SetBack
  <2>. QED  BY <1>2, <2>1, <2>2 DEF Faithful
<1>9. /\ \A t \in Runs : run'[t] = run[t] => Covers(t, run[t], missed)'
      /\ CursorCoversApplied' /\ StampCovers'
  BY <1>2, <1>8, FaithfulKeeps DEF ExpireSuspended
<1>10. ASSUME NEW o \in Offers \ missed', supplier[o].changed < run[r].runTs
       PROVE  Agrees(o, coupons')
  <2>. SUFFICES ASSUME ~Agrees(o, coupons') PROVE FALSE
    OBVIOUS
  <2>1. o \notin missed /\ ~Agrees(o, coupons)
    BY <1>1, <1>2, <1>8 DEF ExpireSuspended, SetBack
  <2>2. run[r].answer[o] = Suspended /\ supplier[o].says = Suspended
    BY <1>1, <1>10, <2>1 DEF Covers, SyncCovers
  <2>3. coupons[o].status = "live" /\ MerchantOf[o] \in merchants
    BY <2>1, <2>2 DEF Agrees, FeedInv, RowsHaveMerchant, Absent
  <2>4. coupons'[o].status = "expired"
    BY <1>1, <1>7, <2>2, <2>3 DEF TypeOK
  <2>. QED  BY <2>2, <2>4 DEF Agrees
<1>11. Covers(r, run[r], missed)'
  BY <1>1, <1>2, <1>5, <1>6, <1>10 DEF Covers, SyncCovers, HasMerchants, Open
<1>12. RowsHaveMerchant'
  BY <1>1, <1>2, <1>7 DEF FeedInv, RowsHaveMerchant, TypeOK
<1>13. TypeOK'
  <2>1. missed' \subseteq Offers
    BY <1>1 DEF ExpireSuspended, SetBack, TypeOK
  <2>. QED  BY <1>1, <1>6, <1>7, <2>1 DEF TypeOK, ExpireSuspended
<1>14. \A t \in Runs : Covers(t, run[t], missed)'
  BY <1>6, <1>9, <1>11
<1>15. (source.cursor <= now /\ stamped <= now)'
  BY DEF FeedInv, ExpireSuspended
<1>. QED  BY <1>9, <1>12, <1>13, <1>14, <1>15 DEF FeedInv

(* The end of a run writes the source row and nothing of the catalogue.    *)
LEMMA EndInv ==
  ASSUME FeedInv, NEW r \in Runs, NEW u \in RunRecord, run' = [run EXCEPT ![r] = u],
         u.phase # "insert", Covers(r, u, missed),
         UNCHANGED <<supplier, coupons, merchants, missed, cast, now, changes, faults>>,
         source' \in SourceRow, stamped' \in Time, source'.cursor <= now, stamped' <= now,
         source'.cursor = source.cursor \/
           \A o \in Offers \ missed : supplier[o].changed < source'.cursor => Agrees(o, coupons),
         stamped' = stamped \/
           \A o \in Offers \ missed : supplier[o].changed < stamped' => Agrees(o, coupons)
  PROVE  FeedInv'
<1>1. TypeOK
  BY DEF FeedInv
<1>2. /\ run' \in [Runs -> RunRecord] /\ run'[r] = u
      /\ \A t \in Runs \ {r} : run'[t] = run[t]
      /\ \A t \in Runs : run'[t].phase = "insert" => run'[t].row \in run'[t].todo
  BY <1>1, RunReplaced
<1>3. TypeOK'
  BY <1>1, <1>2 DEF TypeOK
<1>4. \A o \in Offers : Agrees(o, coupons)' <=> Agrees(o, coupons)
  BY DEF Agrees
<1>5. ASSUME NEW t \in Runs PROVE Covers(t, run[t], missed)'
  <2>1. Covers(t, run'[t], missed)
    BY <1>2 DEF FeedInv
  <2>. QED  BY <1>4, <2>1 DEF Covers, SyncCovers, HasMerchants
<1>6. CursorCoversApplied' /\ StampCovers' /\ RowsHaveMerchant'
  BY <1>4 DEF FeedInv, CursorCoversApplied, StampCovers, RowsHaveMerchant
<1>. QED  BY <1>3, <1>5, <1>6 DEF FeedInv

LEMMA AdvanceInv ==
  ASSUME FeedInv, NEW r \in Runs, AdvanceCursor(r)
  PROVE  FeedInv'
<1>. DEFINE last == IF run[r].failed = {} THEN now ELSE source.lastSuccess
            u == [Idle EXCEPT !.phase = "ended"]
<1>1. /\ TypeOK /\ run[r] \in RunRecord /\ Covers(r, run[r], missed)
      /\ run[r].phase = "cursor" /\ r \in Syncs
  BY DEF FeedInv, TypeOK, AdvanceCursor, Covers, Runs
<1>2. run[r].runTs \in Time /\ run[r].runTs \in Nat /\ run[r].runTs <= now
  BY <1>1, FeedAssumption DEF Covers, SyncCovers, RunRecord, Time
<1>3. \A o \in Offers \ missed : supplier[o].changed < run[r].runTs => Agrees(o, coupons)
  BY <1>1 DEF Covers, SyncCovers
<1>4. source' = [source EXCEPT !.cursor = run[r].runTs, !.lastSuccess = last]
  BY DEF AdvanceCursor, NewCursor
<1>5. last \in Nat /\ source \in SourceRow
  BY <1>1, FeedAssumption DEF TypeOK, SourceRow, Time
<1>. HIDE DEF last
<1>6. source' \in SourceRow /\ source'.cursor = run[r].runTs
  BY <1>2, <1>4, <1>5 DEF SourceRow
<1>7. stamped' = stamped \/ stamped' = run[r].runTs
  BY DEF AdvanceCursor
<1>8. stamped' \in Time /\ stamped' <= now
  BY <1>1, <1>2, <1>7 DEF FeedInv, TypeOK
<1>9. u \in RunRecord /\ Covers(r, u, missed) /\ u.phase # "insert"
  BY IdleCovers
<1>10. run' = [run EXCEPT ![r] = u]
  BY DEF AdvanceCursor
<1>. HIDE DEF u
<1>. QED  BY <1>2, <1>3, <1>6, <1>7, <1>8, <1>9, <1>10, EndInv DEF AdvanceCursor

LEMMA RecordInv ==
  ASSUME FeedInv, NEW r \in Runs, RecordOutcome(r)
  PROVE  FeedInv'
<1>1. TypeOK /\ run[r] \in RunRecord /\ source \in SourceRow
  BY DEF FeedInv, TypeOK
<1>2. source' \in SourceRow /\ source'.cursor = source.cursor
  <2>1. run[r].error \in {"none", "failed"}
    BY <1>1 DEF RunRecord
  <2>. QED  BY <1>1, <2>1 DEF RecordOutcome, SourceRow
<1>3. Idle \in RunRecord /\ Covers(r, Idle, missed) /\ Idle.phase # "insert"
  BY IdleCovers
<1>4. stamped' \in Time /\ stamped' <= now /\ stamped' = stamped /\ source'.cursor <= now
  BY <1>2 DEF FeedInv, TypeOK, RecordOutcome
<1>5. run' = [run EXCEPT ![r] = Idle]
  BY DEF RecordOutcome
<1>. QED  BY <1>2, <1>3, <1>4, <1>5, EndInv DEF RecordOutcome

----------------------------------------------------------------------------
(* The theorems.                                                           *)

LEMMA InitInv == Init => FeedInv
<1>. SUFFICES ASSUME Init PROVE FeedInv
  OBVIOUS
<1>1. 0 \in Time /\ 1 \in Time /\ 0 \in 0 .. MaxChanges /\ 0 \in 0 .. MaxFaults
  BY FeedAssumption DEF Time
<1>2. Idle \in RunRecord
  BY <1>1, FeedAssumption DEF Idle, RunRecord, Quiet, Says, Never
<1>3. Idle.phase = "idle" /\ Idle.runTs = 0 /\ Idle.cursor = 0
  BY DEF Idle, Never
<1>4. TypeOK
  <2>1. NoSource \in SourceRow
    BY DEF NoSource, SourceRow, Never
  <2>2. supplier \in [Offers -> [says : Texts \cup {Suspended}, changed : Time]]
    BY <1>1, FeedAssumption DEF Init
  <2>3. coupons \in [Offers -> [status : {Absent, "live", "expired"}, text : Texts]]
    BY FeedAssumption DEF Init
  <2>4. run \in [Runs -> RunRecord] /\ \A r \in Runs : run[r] = Idle
    BY <1>2 DEF Init
  <2>. QED  BY <1>1, <1>3, <2>1, <2>2, <2>3, <2>4 DEF Init, TypeOK, Never
<1>5. \A r \in Runs : Covers(r, run[r], missed)
  BY <1>3 DEF Init, Covers, SyncCovers, HasMerchants, Open
<1>6. source.cursor = 0 /\ stamped = 0 /\ now = 1 /\ \A o \in Offers : supplier[o].changed = 1
  BY DEF Init, NoSource, Never
<1>7. CursorCoversApplied /\ StampCovers
  BY <1>6 DEF CursorCoversApplied, StampCovers
<1>8. RowsHaveMerchant
  BY DEF Init, RowsHaveMerchant
<1>. QED  BY <1>4, <1>5, <1>6, <1>7, <1>8 DEF FeedInv

LEMMA NextInv == FeedInv /\ [Next]_vars => FeedInv'
<1>. SUFFICES ASSUME FeedInv, [Next]_vars PROVE FeedInv'
  OBVIOUS
<1>1. ASSUME NEW r \in Runs, Ingest(r) PROVE FeedInv'
  BY <1>1, IngestInv, InsertSourceInv, InsertInv, CommitIngestInv DEF Ingest
<1>2. ASSUME NEW r \in Runs, Proceed(r) PROVE FeedInv'
  BY <1>1, <1>2, StartInv, ScrapeInv, ExpireInv, AdvanceInv, RecordInv DEF Proceed
<1>3. ASSUME NEW r \in Runs, Fail(r) PROVE FeedInv'
  BY <1>3, UnreadableInv, EndedInv DEF Fail
<1>4. ASSUME NEW o \in Offers, NEW says \in Texts \cup {Suspended}, SupplierChanges(o, says)
      PROVE  FeedInv'
  BY <1>4, SupplierInv
<1>5. CASE Tick
  BY <1>5, TickInv
<1>6. CASE UNCHANGED vars
  BY <1>6 DEF vars, FeedInv, TypeOK, Covers, SyncCovers, HasMerchants, Agrees,
              CursorCoversApplied, StampCovers, RowsHaveMerchant
<1>. QED  BY <1>2, <1>3, <1>4, <1>5, <1>6 DEF Next

LEMMA FeedInvariant == Spec => []FeedInv
BY InitInv, NextInv, PTL DEF Spec

(* Every variable keeps its type, and a run its bookkeeping of the batch.  *)
THEOREM TypeCorrect == Spec => []TypeOK
<1>1. FeedInv => TypeOK
  BY DEF FeedInv
<1>. QED  BY <1>1, FeedInvariant, PTL

(* However many syncs overlap, die or fail, the cursor never passes a      *)
(* change that the catalogue does not show and no listed loss explains.    *)
THEOREM CursorIsHonest == Spec => []CursorCoversApplied
<1>1. FeedInv => CursorCoversApplied
  BY DEF FeedInv
<1>. QED  BY <1>1, FeedInvariant, PTL

(* A source that /health calls ok shows the active offers as they were     *)
(* when the run began that last stamped a success.                         *)
THEOREM HealthIsHonest == Spec => []HealthyMeansShown
<1>1. FeedInv => HealthyMeansShown
  BY DEF FeedInv, StampCovers, HealthyMeansShown
<1>. QED  BY <1>1, FeedInvariant, PTL

=============================================================================
