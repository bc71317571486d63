--------------------------- MODULE ValidationQueue ---------------------------
(***************************************************************************)
(* How coupons get to the checkout validator: the half-hourly sweep and the*)
(* feed syncs select the coupons that are due and queue one job for each,  *)
(* guarded by a pending key in Redis with a time to live; the worker slots *)
(* take jobs from the queue, record a result, delete the key and only then *)
(* acknowledge the message.                                                *)
(*                                                                         *)
(* Redis calls may fail, a hung job is killed by its hard time limit, and  *)
(* the container that runs the workers and the beat may be restarted at any*)
(* moment: unacknowledged messages are then delivered again.               *)
(*                                                                         *)
(* Time is relative (ages and remaining times to live), so behaviours are  *)
(* unbounded.  The tick is longer than a job's hard limit and than the     *)
(* period of the sweep.                                                    *)
(***************************************************************************)
EXTENDS Integers, Sequences, FiniteSets

CONSTANTS
  Coupons,           \* coupons with a code and a registered validator
  NoCoupon,          \* what an idle slot holds
  TopMerchant,       \* those whose merchant has a priority
  Workers,           \* the slots of the worker
  Sweeps,            \* runs of enqueue_revalidations
  Feeds,             \* feed syncs and imports, which queue what was never confirmed
  Results,           \* what a check may return
  Limit,             \* how many coupons one selection returns
  RevalidateAfter,   \* validate_top_merchant_revalidate_hours
  Backoff,           \* validate_unverifiable_backoff_hours
  StreakThreshold,   \* validate_unverifiable_streak_threshold
  PendingTtl,        \* _PENDING_TTL_SECONDS
  Outages,           \* may Redis calls fail?
  Restarts,          \* may the container be restarted?
  MaxMessages        \* bound: messages waiting for a worker

Producers == Sweeps \cup Feeds

ASSUME ProducersAssumption == Sweeps \cap Feeds = {}
ASSUME QueueAssumption ==
  /\ IsFiniteSet(Coupons) /\ IsFiniteSet(Workers)
  /\ NoCoupon \notin Coupons
  /\ TopMerchant \subseteq Coupons
  /\ Results \subseteq {"valid", "invalid", "unverifiable"}
  /\ {Limit, RevalidateAfter, Backoff, StreakThreshold, PendingTtl} \subseteq Nat \ {0}
  /\ MaxMessages \in Nat
  /\ {Outages, Restarts} \subseteq BOOLEAN

VARIABLES
  coupon,     \* coupon[c]: age of the last attempt, streak, last verdict
  key,        \* key[c]: time the pending key of c has to live, 0 when there is none
  ready,      \* ready[k]: the list of the validation queue for priority step k
  orphans,    \* orphans[c]: unacknowledged messages of c whose worker died
  worker,     \* worker[w]: the job the slot holds
  producer,   \* producer[p]: the rest of the selection p is queuing
  swept,      \* has a sweep selected during this tick?
  fault       \* history: a key was lost while its job was outstanding

vars == <<coupon, key, ready, orphans, worker, producer, swept, fault>>

NeverChecked == -1
Oldest == IF RevalidateAfter > Backoff THEN RevalidateAfter ELSE Backoff

Coupon == [age : -1 .. Oldest, streak : 0 .. StreakThreshold,
           verdict : {"none", "valid", "invalid"}]
Message == [coupon : Coupons, prio : 0 .. 2]

(* The broker keeps one list per priority step and puts a message on the   *)
(* list of the largest step that does not exceed its priority.             *)
Steps == {0, 3, 6, 9}
StepOf(prio) == CHOOSE k \in Steps : k <= prio /\ \A j \in Steps : j <= prio => j <= k

----------------------------------------------------------------------------
(* Selection.                                                              *)

TriedOften(c) == coupon[c].streak >= StreakThreshold

Due(c) ==
  \/ coupon[c].age = NeverChecked
  \/ coupon[c].age >= (IF TriedOften(c) THEN Backoff ELSE RevalidateAfter)

Priority(c) ==
  CASE coupon[c].age = NeverChecked -> 0
    [] coupon[c].age # NeverChecked /\ coupon[c].verdict = "valid" /\ c \in TopMerchant
         /\ ~TriedOften(c) -> 1
    [] OTHER -> 2

Before(c, d) == \/ Priority(c) < Priority(d)
                \/ Priority(c) = Priority(d) /\ coupon[c].age > coupon[d].age

(* The due coupons in order of priority, then oldest attempt first, cut at *)
(* the limit; ties fall either way.                                        *)
Selections ==
  LET due == {c \in Coupons : Due(c)}
      n   == IF Cardinality(due) < Limit THEN Cardinality(due) ELSE Limit
  IN  {list \in [1 .. n -> due] :
         /\ \A i, j \in 1 .. n : i < j => list[i] # list[j] /\ ~Before(list[j], list[i])
         /\ \A c \in due \ {list[i] : i \in 1 .. n} :
              \A i \in 1 .. n : ~Before(c, list[i])}

(* The members of S in the order of the list.                              *)
Restricted(list, S) ==
  {kept \in [1 .. Cardinality(S) -> S] :
     \A i, j \in 1 .. Cardinality(S) : i < j =>
       \E k, l \in 1 .. Len(list) : k < l /\ list[k] = kept[i] /\ list[l] = kept[j]}

NeverConfirmed(list) ==
  {c \in Coupons : coupon[c].verdict = "none" /\ \E i \in 1 .. Len(list) : list[i] = c}

----------------------------------------------------------------------------
(* The initial state: freshly imported coupons, nothing queued.            *)

NoLoop == [phase |-> "idle", list |-> <<>>]
NoJob == [phase |-> "idle", coupon |-> NoCoupon, late |-> FALSE]

Init ==
  /\ coupon = [c \in Coupons |-> [age |-> NeverChecked, streak |-> 0, verdict |-> "none"]]
  /\ key = [c \in Coupons |-> 0]
  /\ ready = [k \in Steps |-> <<>>]
  /\ orphans = [c \in Coupons |-> 0]
  /\ worker = [w \in Workers |-> NoJob]
  /\ producer = [p \in Producers |-> NoLoop]
  /\ swept = FALSE
  /\ fault = FALSE

----------------------------------------------------------------------------
(* Producers.                                                              *)

Loop(list) == IF list = <<>> THEN NoLoop ELSE [phase |-> "looping", list |-> list]

(* The selection is read once, before the first key is set.  A sweep queues*)
(* each coupon with its priority; a feed keeps, after the cut, the coupons *)
(* no check ever confirmed, and queues them first.                         *)
Select(p) ==
  /\ producer[p].phase = "idle"
  /\ \E chosen \in Selections :
       \E kept \in IF p \in Feeds THEN Restricted(chosen, NeverConfirmed(chosen)) ELSE {chosen} :
         producer' = [producer EXCEPT ![p] = Loop(
           [i \in 1 .. Len(kept) |->
              [coupon |-> kept[i], prio |-> IF p \in Feeds THEN 0 ELSE Priority(kept[i])]])]
  /\ swept' = (swept \/ p \in Sweeps)
  /\ UNCHANGED <<coupon, key, ready, orphans, worker, fault>>

\* Mutants: the key without NX, and the key without a time to live.
ReserveAlways(p) ==
  /\ producer[p].phase = "looping"
  /\ key' = [key EXCEPT ![Head(producer[p].list).coupon] = PendingTtl]
  /\ producer' = [producer EXCEPT ![p].phase = "reserved"]
  /\ UNCHANGED <<coupon, ready, orphans, worker, swept, fault>>
ReserveForEver(p) ==
  LET c == Head(producer[p].list).coupon IN
  /\ producer[p].phase = "looping"
  /\ IF key[c] = 0
     THEN /\ key' = [key EXCEPT ![c] = -1]
          /\ producer' = [producer EXCEPT ![p].phase = "reserved"]
     ELSE /\ producer' = [producer EXCEPT ![p] = Loop(Tail(@.list))]
          /\ UNCHANGED key
  /\ UNCHANGED <<coupon, ready, orphans, worker, swept, fault>>

(* SET pending NX EX: refused when a key is there.                         *)
Reserve(p) ==
  LET c == Head(producer[p].list).coupon IN
  /\ producer[p].phase = "looping"
  /\ IF key[c] = 0
     THEN /\ key' = [key EXCEPT ![c] = PendingTtl]
          /\ producer' = [producer EXCEPT ![p].phase = "reserved"]
     ELSE /\ producer' = [producer EXCEPT ![p] = Loop(Tail(@.list))]
          /\ UNCHANGED key
  /\ UNCHANGED <<coupon, ready, orphans, worker, swept, fault>>

(* The SET fails: "falls back to plain queuing".                           *)
ReserveUnreachable(p) ==
  /\ Outages
  /\ producer[p].phase = "looping"
  /\ producer' = [producer EXCEPT ![p].phase = "reserved"]
  /\ fault' = TRUE
  /\ UNCHANGED <<coupon, key, ready, orphans, worker, swept>>

Waiting == Len(ready[0]) + Len(ready[3]) + Len(ready[6]) + Len(ready[9])

Send(p) ==
  LET m == Head(producer[p].list) IN
  /\ producer[p].phase = "reserved"
  /\ Waiting < MaxMessages
  /\ ready' = [ready EXCEPT ![StepOf(m.prio)] = Append(@, m)]
  /\ producer' = [producer EXCEPT ![p] = Loop(Tail(@.list))]
  /\ UNCHANGED <<coupon, key, orphans, worker, swept, fault>>

(* apply_async raises outside the try: the loop ends and the key stays.    *)
SendFails(p) ==
  /\ Outages
  /\ producer[p].phase = "reserved"
  /\ producer' = [producer EXCEPT ![p] = NoLoop]
  /\ UNCHANGED <<coupon, key, ready, orphans, worker, swept, fault>>

----------------------------------------------------------------------------
(* Workers.                                                                *)

NextStep == CHOOSE k \in Steps : /\ ready[k] # <<>>
                                 /\ \A j \in Steps : ready[j] # <<>> => k <= j

Deliver(w) ==
  /\ worker[w].phase = "idle"
  /\ \E k \in Steps : ready[k] # <<>>
  /\ worker' = [worker EXCEPT ![w] = [phase |-> "running", coupon |-> Head(ready[NextStep]).coupon,
                                      late |-> FALSE]]
  /\ ready' = [ready EXCEPT ![NextStep] = Tail(@)]
  /\ UNCHANGED <<coupon, key, orphans, producer, swept, fault>>

(* What a recorded result leaves of a coupon.                              *)
Attempted(tried, result) ==
  IF result = "unverifiable"
  THEN [tried EXCEPT !.age = 0,
                     !.streak = IF tried.streak < StreakThreshold
                                THEN tried.streak + 1 ELSE tried.streak]
  ELSE [age |-> 0, streak |-> 0, verdict |-> result]

(* The check ends with a result and its session commits.                   *)
Record(w, result) ==
  LET c == worker[w].coupon IN
  /\ worker[w].phase = "running"
  /\ coupon' = [coupon EXCEPT ![c] = Attempted(coupon[c], result)]
  /\ worker' = [worker EXCEPT ![w].phase = "ended"]
  /\ UNCHANGED <<key, ready, orphans, producer, swept, fault>>

(* An exception, validation switched off, or no validator: no result.      *)
EndWithoutResult(w) ==
  /\ worker[w].phase = "running"
  /\ worker' = [worker EXCEPT ![w].phase = "ended"]
  /\ UNCHANGED <<coupon, key, ready, orphans, producer, swept, fault>>

(* The finally block deletes the key, whoever set it.                      *)
ClearPending(w) ==
  /\ worker[w].phase = "ended"
  /\ worker' = [worker EXCEPT ![w].phase = "cleared"]
  /\ \/ key' = [key EXCEPT ![worker[w].coupon] = 0]
     \/ Outages /\ UNCHANGED key
  /\ UNCHANGED <<coupon, ready, orphans, producer, swept, fault>>

Acknowledge(w) ==
  /\ worker[w].phase = "cleared"
  /\ worker' = [worker EXCEPT ![w] = NoJob]
  /\ UNCHANGED <<coupon, key, ready, orphans, producer, swept, fault>>

(* The hard time limit kills the process: no finally, and the message is   *)
(* acknowledged as failed.                                                 *)
HardKill(w) ==
  /\ worker[w].phase \in {"running", "ended"}
  /\ worker' = [worker EXCEPT ![w] = NoJob]
  /\ UNCHANGED <<coupon, key, ready, orphans, producer, swept, fault>>

----------------------------------------------------------------------------
(* The container, the broker and the clock.                                *)

Holding(c) == {w \in Workers : worker[w].phase # "idle" /\ worker[w].coupon = c}

(* The container stops: workers and producers vanish with what they did not*)
(* finish.  A job whose key is gone but whose message is not acknowledged  *)
(* will be delivered again without one.                                    *)
Restart ==
  /\ Restarts
  /\ \E w \in Workers : worker[w].phase # "idle"
  /\ orphans' = [c \in Coupons |-> orphans[c] + Cardinality(Holding(c))]
  /\ worker' = [w \in Workers |-> NoJob]
  /\ producer' = [p \in Producers |-> NoLoop]
  /\ fault' = (fault \/ \E w \in Workers : worker[w].phase = "cleared")
  /\ UNCHANGED <<coupon, key, ready, swept>>

(* The broker puts an unacknowledged message back where it is taken next   *)
(* among those of its priority, which orphans does not remember.           *)
Restore(c) ==
  /\ orphans[c] > 0
  /\ orphans' = [orphans EXCEPT ![c] = @ - 1]
  /\ \E prio \in 0 .. 2 :
       ready' = [ready EXCEPT ![StepOf(prio)] = <<[coupon |-> c, prio |-> prio]>> \o @]
  /\ UNCHANGED <<coupon, key, worker, producer, swept, fault>>

(* The places where a job of c that is not done may be: on a list, in the  *)
(* hands of a producer, in a worker slot, cut off by a restart.            *)
Places(c) ==
  (UNION {{<<"list", k, i>> : i \in {j \in 1 .. Len(ready[k]) : ready[k][j].coupon = c}} :
           k \in Steps})
  \cup {<<"producer", p, 0>> : p \in {q \in Producers : /\ producer[q].phase = "reserved"
                                                        /\ Head(producer[q].list).coupon = c}}
  \cup {<<"slot", w, 0>> : w \in {v \in Holding(c) : worker[v].phase # "cleared"}}
  \cup {<<"orphan", n, 0>> : n \in 1 .. orphans[c]}

(* No job outlasts two ticks, and a sweep runs in each.                    *)
Tick ==
  /\ swept
  /\ \A w \in Workers : ~worker[w].late
  /\ coupon' = [c \in Coupons |->
       [coupon[c] EXCEPT !.age = IF @ = NeverChecked \/ @ = Oldest THEN @ ELSE @ + 1]]
  /\ key' = [c \in Coupons |-> IF key[c] > 0 THEN key[c] - 1 ELSE key[c]]
  /\ worker' = [w \in Workers |->
       [worker[w] EXCEPT !.late = worker[w].phase # "idle"]]
  /\ swept' = FALSE
  /\ fault' = (fault \/ \E c \in Coupons : key[c] = 1 /\ Places(c) # {})
  /\ UNCHANGED <<ready, orphans, producer>>

Produce(p) ==
  Select(p) \/ Reserve(p) \/ ReserveUnreachable(p) \/ Send(p) \/ SendFails(p)

Work(w) ==
  \/ Deliver(w) \/ \E result \in Results : Record(w, result)
  \/ EndWithoutResult(w) \/ ClearPending(w) \/ Acknowledge(w) \/ HardKill(w)

Next ==
  \/ \E p \in Producers : Produce(p)
  \/ \E w \in Workers : Work(w)
  \/ \E c \in Coupons : Restore(c)
  \/ Restart
  \/ Tick

Spec == Init /\ [][Next]_vars

RecordFor(c) == \E w \in Workers, result \in Results :
                  Record(w, result) /\ worker[w].coupon = c

(* Beat starts the sweep for ever and its loop goes on; workers keep taking*)
(* and ending jobs; the broker restores what is not acknowledged; time goes*)
(* on.  The hard time limit does not strike the same coupon for ever: a    *)
(* validator turns its own failures and its soft time limit into a result. *)
Fairness ==
  /\ \A p \in Sweeps : WF_vars(Select(p)) /\ WF_vars(Reserve(p)) /\ WF_vars(Send(p))
  /\ \A w \in Workers : WF_vars(Work(w))
  /\ \A c \in Coupons : WF_vars(Restore(c)) /\ SF_vars(RecordFor(c))
  /\ WF_vars(Tick)

FairSpec == Spec /\ Fairness

----------------------------------------------------------------------------
(* Properties.                                                             *)

TypeOK ==
  /\ coupon \in [Coupons -> Coupon]
  /\ key \in [Coupons -> 0 .. PendingTtl]
  /\ ready \in [Steps -> Seq(Message)]
  /\ orphans \in [Coupons -> Nat]
  /\ worker \in [Workers -> [phase : {"idle", "running", "ended", "cleared"},
                             coupon : Coupons \cup {NoCoupon}, late : BOOLEAN]]
  /\ \A w \in Workers : (worker[w].phase = "idle") <=> (worker[w].coupon = NoCoupon)
  /\ producer \in [Producers -> [phase : {"idle", "looping", "reserved"},
                                 list : Seq(Message)]]
  /\ \A p \in Producers : (producer[p].phase = "idle") <=> (producer[p].list = <<>>)
  /\ {swept, fault} \subseteq BOOLEAN

(* While no key was lost under its job (its time to live ran out in the    *)
(* backlog, Redis failed, or a restart fell between the deletion of the key*)
(* and the acknowledgement), a coupon has one job at most, in one place,   *)
(* whatever number of sweeps and feeds queue from lists read long ago and  *)
(* whatever jobs are killed or delivered again meanwhile.                  *)
OneJobUnlessKeyLost ==
  ~fault => \A c \in Coupons : \A x, y \in Places(c) : x = y

(* "New codes and top-merchant re-validation jump ahead": a slot takes no  *)
(* message while one that was queued with a higher priority (a lower       *)
(* number) is waiting.                                                     *)
NewCodesJumpAhead ==
  [][\A w \in Workers :
       Deliver(w) => \A k \in Steps : \A i \in 1 .. Len(ready[k]) :
                       Head(ready[NextStep]).prio <= ready[k][i].prio]_vars

(* Every coupon that is due gets a new attempt: a leaked key ends with its *)
(* time to live, a lost message is queued again, the cut at the limit and  *)
(* the priorities starve nobody.                                           *)
DueIsTried == \A c \in Coupons : Due(c) ~> coupon[c].age = 0

=============================================================================
