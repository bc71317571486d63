------------------------ MODULE ValidationQueueProofs ------------------------
(***************************************************************************)
(* Theorems about ValidationQueue, for any coupons, workers, sweeps and    *)
(* feeds, and any limits and times: its types, and the single job of a     *)
(* coupon while no pending key is lost.                                    *)
(***************************************************************************)
EXTENDS ValidationQueue, SequenceTheorems, FiniteSetTheorems, TLAPS

----------------------------------------------------------------------------
(* The lists of the broker.                                                *)

LEMMA StepOfIsStep == \A prio \in 0 .. 2 : StepOf(prio) \in Steps
BY DEF StepOf, Steps

LEMMA NextStepIsStep ==
  ASSUME NEW k \in Steps, ready[k] # <<>>
  PROVE  NextStep \in Steps /\ ready[NextStep] # <<>>
BY DEF NextStep, Steps

LEMMA AppendPositions ==
  ASSUME NEW s \in Seq(Message), NEW m \in Message
  PROVE  /\ Append(s, m) \in Seq(Message)
         /\ Len(Append(s, m)) = Len(s) + 1
         /\ \A i \in 1 .. Len(s) : Append(s, m)[i] = s[i]
         /\ Append(s, m)[Len(s) + 1] = m
OBVIOUS

LEMMA FrontPositions ==
  ASSUME NEW s \in Seq(Message), NEW m \in Message
  PROVE  /\ <<m>> \o s \in Seq(Message)
         /\ Len(<<m>> \o s) = Len(s) + 1
         /\ (<<m>> \o s)[1] = m
         /\ \A i \in 2 .. Len(s) + 1 : (<<m>> \o s)[i] = s[i - 1]
OBVIOUS

LEMMA TailPositions ==
  ASSUME NEW s \in Seq(Message), s # <<>>
  PROVE  /\ Head(s) \in Message /\ Head(s) = s[1]
         /\ Tail(s) \in Seq(Message)
         /\ Len(s) \in Nat \ {0} /\ Len(Tail(s)) = Len(s) - 1
         /\ \A i \in 1 .. Len(s) - 1 : Tail(s)[i] = s[i + 1]
BY HeadTailProperties, EmptySeq

----------------------------------------------------------------------------
(* Type correctness.                                                       *)

Slot == [phase : {"idle", "running", "ended", "cleared"},
         coupon : Coupons \cup {NoCoupon}, late : BOOLEAN]
Batch == [phase : {"idle", "looping", "reserved"}, list : Seq(Message)]

LEMMA LoopType ==
  ASSUME NEW list \in Seq(Message)
  PROVE  /\ Loop(list) \in Batch
         /\ Loop(list).phase = "idle" <=> Loop(list).list = <<>>
         /\ Loop(list).phase # "reserved"
BY DEF Loop, NoLoop, Batch

LEMMA InitType == Init => TypeOK
<1>. SUFFICES ASSUME Init PROVE TypeOK
  OBVIOUS
<1>1. NoJob \in Slot /\ NoLoop \in Batch /\ <<>> \in Seq(Message)
  BY DEF NoJob, NoLoop, Slot, Batch
<1>2. [age |-> NeverChecked, streak |-> 0, verdict |-> "none"] \in Coupon
  BY QueueAssumption DEF Coupon, NeverChecked, Oldest
<1>3. 0 \in 0 .. PendingTtl
  BY QueueAssumption
<1>. QED  BY <1>1, <1>2, <1>3 DEF Init, TypeOK, Slot, Batch, NoJob, NoLoop

LEMMA PriorityType == \A c \in Coupons : Priority(c) \in 0 .. 2
BY DEF Priority

LEMMA SelectType ==
  ASSUME TypeOK, NEW p \in Producers, Select(p) PROVE TypeOK'
<1>1. PICK chosen \in Selections :
        \E kept \in IF p \in Feeds THEN Restricted(chosen, NeverConfirmed(chosen)) ELSE {chosen} :
          producer' = [producer EXCEPT ![p] = Loop(
            [i \in 1 .. Len(kept) |->
               [coupon |-> kept[i], prio |-> IF p \in Feeds THEN 0 ELSE Priority(kept[i])]])]
  BY DEF Select
<1>2. PICK kept \in IF p \in Feeds THEN Restricted(chosen, NeverConfirmed(chosen)) ELSE {chosen} :
          producer' = [producer EXCEPT ![p] = Loop(
            [i \in 1 .. Len(kept) |->
               [coupon |-> kept[i], prio |-> IF p \in Feeds THEN 0 ELSE Priority(kept[i])]])]
  BY <1>1
<1>3. kept \in Seq(Coupons)
  <2>1. CASE p \in Feeds
    <3>. DEFINE S == NeverConfirmed(chosen)
    <3>1. kept \in [1 .. Cardinality(S) -> S]
      BY <1>2, <2>1 DEF Restricted
    <3>2. S \subseteq Coupons
      BY DEF NeverConfirmed
    <3>3. Cardinality(S) \in Nat
      BY <3>2, QueueAssumption, FS_Subset, FS_CardinalityType
    <3>. HIDE DEF S
    <3>4. kept \in [1 .. Cardinality(S) -> Coupons]
      BY <3>1, <3>2
    <3>. QED  BY <3>3, <3>4, SeqDef
  <2>2. CASE p \notin Feeds
    <3>. DEFINE due == {c \in Coupons : Due(c)}
                n == IF Cardinality(due) < Limit THEN Cardinality(due) ELSE Limit
    <3>1. kept \in [1 .. n -> due]
      BY <1>2, <2>2 DEF Selections
    <3>2. n \in Nat
      <4>1. IsFiniteSet(due)
        BY QueueAssumption, FS_Subset
      <4>. QED  BY <4>1, QueueAssumption, FS_CardinalityType
    <3>. HIDE DEF n
    <3>3. kept \in [1 .. n -> Coupons]
      BY <3>1
    <3>. QED  BY <3>2, <3>3, SeqDef
  <2>. QED  BY <2>1, <2>2
<1>. DEFINE list == [i \in 1 .. Len(kept) |->
                       [coupon |-> kept[i], prio |-> IF p \in Feeds THEN 0 ELSE Priority(kept[i])]]
<1>4. list \in Seq(Message)
  <2>1. Len(kept) \in Nat /\ \A i \in 1 .. Len(kept) : kept[i] \in Coupons
    BY <1>3, LenProperties
  <2>2. \A i \in 1 .. Len(kept) :
          [coupon |-> kept[i], prio |-> IF p \in Feeds THEN 0 ELSE Priority(kept[i])] \in Message
    BY <2>1, PriorityType DEF Message
  <2>3. list \in [1 .. Len(kept) -> Message]
    BY <2>2
  <2>. QED  BY <2>1, <2>3, SeqDef, ZenonT(40)
<1>5. producer' = [producer EXCEPT ![p] = Loop(list)]
  BY <1>2
<1>6. swept' \in BOOLEAN /\ UNCHANGED <<coupon, key, ready, orphans, worker, fault>>
  BY DEF Select, TypeOK
<1>. HIDE DEF list
<1>. QED  BY <1>4, <1>5, <1>6, LoopType DEF TypeOK, Batch

LEMMA ProduceType ==
  ASSUME TypeOK, NEW p \in Producers, Produce(p) PROVE TypeOK'
<1>1. /\ producer[p] \in Batch
      /\ producer[p].phase = "idle" <=> producer[p].list = <<>>
  BY DEF TypeOK, Batch
<1>. DEFINE m == Head(producer[p].list)
            rest == Tail(producer[p].list)
<1>2. producer[p].phase # "idle" => m \in Message /\ rest \in Seq(Message)
  BY <1>1, TailPositions DEF Batch
<1>3. producer[p].phase # "idle" => Loop(rest) \in Batch /\ (Loop(rest).phase = "idle" <=> Loop(rest).list = <<>>)
  BY <1>2, LoopType
<1>4. [producer[p] EXCEPT !.phase = "reserved"] \in Batch
  BY <1>1 DEF Batch
<1>5. m \in Message => m.coupon \in Coupons /\ m.prio \in 0 .. 2
  BY DEF Message
<1>6. PendingTtl \in 0 .. PendingTtl
  BY QueueAssumption
<1>7. ASSUME NEW u, u \in Batch, u.phase = "idle" <=> u.list = <<>>, producer' = [producer EXCEPT ![p] = u]
      PROVE  /\ producer' \in [Producers -> Batch]
             /\ \A q \in Producers : (producer'[q].phase = "idle") <=> (producer'[q].list = <<>>)
  BY <1>7 DEF TypeOK, Batch
<1>8. producer[p].phase # "idle" =>
        /\ [producer[p] EXCEPT !.phase = "reserved"].phase = "reserved"
        /\ [producer[p] EXCEPT !.phase = "reserved"].list # <<>>
  BY <1>1 DEF Batch
<1>. HIDE DEF m, rest
<1>9. CASE Reserve(p)
  <2>1. /\ producer[p].phase = "looping"
        /\ \/ /\ key' = [key EXCEPT ![m.coupon] = PendingTtl]
              /\ producer' = [producer EXCEPT ![p] = [producer[p] EXCEPT !.phase = "reserved"]]
           \/ UNCHANGED key /\ producer' = [producer EXCEPT ![p] = Loop(rest)]
        /\ UNCHANGED <<coupon, ready, orphans, worker, swept, fault>>
    BY <1>9 DEF Reserve, m, rest, TypeOK
  <2>2. /\ producer' \in [Producers -> Batch]
        /\ \A q \in Producers : (producer'[q].phase = "idle") <=> (producer'[q].list = <<>>)
    BY <2>1, <1>3, <1>4, <1>7, <1>8
  <2>3. key' \in [Coupons -> 0 .. PendingTtl]
    BY <2>1, <1>6 DEF TypeOK
  <2>. QED  BY <2>1, <2>2, <2>3 DEF TypeOK, Batch
<1>10. CASE ReserveUnreachable(p)
  <2>1. /\ producer[p].phase = "looping"
        /\ producer' = [producer EXCEPT ![p] = [producer[p] EXCEPT !.phase = "reserved"]]
        /\ UNCHANGED <<coupon, key, ready, orphans, worker, swept>> /\ fault' \in BOOLEAN
    BY <1>10 DEF ReserveUnreachable, TypeOK
  <2>2. /\ producer' \in [Producers -> Batch]
        /\ \A q \in Producers : (producer'[q].phase = "idle") <=> (producer'[q].list = <<>>)
    BY <2>1, <1>4, <1>7, <1>8
  <2>. QED  BY <2>1, <2>2 DEF TypeOK, Batch
<1>11. CASE Send(p)
  <2>1. /\ producer[p].phase = "reserved"
        /\ ready' = [ready EXCEPT ![StepOf(m.prio)] = Append(@, m)]
        /\ producer' = [producer EXCEPT ![p] = Loop(rest)]
        /\ UNCHANGED <<coupon, key, orphans, worker, swept, fault>>
    BY <1>11 DEF Send, m, rest
  <2>2. /\ producer' \in [Producers -> Batch]
        /\ \A q \in Producers : (producer'[q].phase = "idle") <=> (producer'[q].list = <<>>)
    BY <2>1, <1>3, <1>7
  <2>3. StepOf(m.prio) \in Steps /\ m \in Message
    BY <2>1, <1>2, <1>5, StepOfIsStep
  <2>4. ready' \in [Steps -> Seq(Message)]
    BY <2>1, <2>3, AppendPositions DEF TypeOK
  <2>. QED  BY <2>1, <2>2, <2>4 DEF TypeOK, Batch
<1>12. CASE SendFails(p)
  <2>1. NoLoop \in Batch /\ NoLoop.phase = "idle" /\ NoLoop.list = <<>>
    BY DEF NoLoop, Batch
  <2>2. /\ producer' \in [Producers -> Batch]
        /\ \A q \in Producers : (producer'[q].phase = "idle") <=> (producer'[q].list = <<>>)
    BY <1>12, <2>1, <1>7 DEF SendFails
  <2>. QED  BY <1>12, <2>2 DEF SendFails, TypeOK, Batch
<1>. QED  BY <1>9, <1>10, <1>11, <1>12, SelectType DEF Produce

LEMMA AttemptedType ==
  ASSUME NEW tried \in Coupon, NEW result \in Results
  PROVE  Attempted(tried, result) \in Coupon
<1>1. 0 \in -1 .. Oldest /\ 0 \in 0 .. StreakThreshold /\ StreakThreshold \in Nat
  BY QueueAssumption DEF Oldest
<1>2. CASE result = "unverifiable"
  <2>. DEFINE streak == IF tried.streak < StreakThreshold THEN tried.streak + 1 ELSE tried.streak
  <2>1. streak \in 0 .. StreakThreshold
    BY <1>1 DEF Coupon
  <2>2. Attempted(tried, result) = [tried EXCEPT !.age = 0, !.streak = streak]
    BY <1>2 DEF Attempted
  <2>. HIDE DEF streak
  <2>. QED  BY <1>1, <2>1, <2>2 DEF Coupon
<1>3. CASE result # "unverifiable"
  BY <1>1, <1>3, QueueAssumption DEF Attempted, Coupon
<1>. QED  BY <1>2, <1>3

LEMMA WorkType ==
  ASSUME TypeOK, NEW w \in Workers, Work(w) PROVE TypeOK'
<1>1. worker[w] \in Slot /\ (worker[w].phase = "idle" <=> worker[w].coupon = NoCoupon)
  BY DEF TypeOK, Slot
<1>2. ASSUME NEW u \in Slot, u.phase = "idle" <=> u.coupon = NoCoupon,
             worker' = [worker EXCEPT ![w] = u]
      PROVE  /\ worker' \in [Workers -> Slot]
             /\ \A v \in Workers : (worker'[v].phase = "idle") <=> (worker'[v].coupon = NoCoupon)
  BY <1>2 DEF TypeOK, Slot
<1>3. ASSUME NEW phase \in {"ended", "cleared"}, worker[w].phase # "idle",
             worker' = [worker EXCEPT ![w].phase = phase]
      PROVE  /\ worker' \in [Workers -> Slot]
             /\ \A v \in Workers : (worker'[v].phase = "idle") <=> (worker'[v].coupon = NoCoupon)
  <2>. DEFINE u == [worker[w] EXCEPT !.phase = phase]
  <2>1. u \in Slot /\ u.phase = phase /\ u.coupon = worker[w].coupon
    BY <1>1 DEF Slot
  <2>2. worker' = [worker EXCEPT ![w] = u]
    BY <1>3 DEF TypeOK
  <2>. HIDE DEF u
  <2>. QED  BY <1>1, <1>2, <1>3, <2>1, <2>2
<1>4. NoJob \in Slot /\ NoJob.phase = "idle" /\ NoJob.coupon = NoCoupon
  BY DEF NoJob, Slot
<1>5. CASE Deliver(w)
  <2>. DEFINE k == NextStep
              u == [phase |-> "running", coupon |-> Head(ready[k]).coupon, late |-> FALSE]
  <2>1. k \in Steps /\ ready[k] # <<>>
    BY <1>5, NextStepIsStep DEF Deliver
  <2>2. Head(ready[k]) \in Message /\ Tail(ready[k]) \in Seq(Message)
    BY <2>1, TailPositions DEF TypeOK
  <2>3. /\ worker' = [worker EXCEPT ![w] = u]
        /\ ready' = [ready EXCEPT ![k] = Tail(ready[k])]
        /\ UNCHANGED <<coupon, key, orphans, producer, swept, fault>>
    BY <1>5 DEF Deliver
  <2>. HIDE DEF k
  <2>4. u \in Slot /\ u.phase # "idle" /\ u.coupon # NoCoupon
    BY <2>2, QueueAssumption DEF Slot, Message
  <2>. HIDE DEF u
  <2>. QED  BY <1>2, <2>1, <2>2, <2>3, <2>4 DEF TypeOK, Slot
<1>6. ASSUME NEW result \in Results, Record(w, result) PROVE TypeOK'
  <2>. DEFINE c == worker[w].coupon
              rec == Attempted(coupon[c], result)
  <2>1. c \in Coupons /\ coupon[c] \in Coupon
    BY <1>1, <1>6 DEF Record, Slot, TypeOK
  <2>3. rec \in Coupon
    BY <2>1, <1>6, AttemptedType
  <2>4. coupon' = [coupon EXCEPT ![c] = rec]
    BY <1>6 DEF Record
  <2>. HIDE DEF rec, c
  <2>5. coupon' \in [Coupons -> Coupon]
    BY <2>1, <2>3, <2>4 DEF TypeOK
  <2>. QED  BY <1>3, <1>6, <2>5 DEF Record, TypeOK, Slot
<1>7. CASE EndWithoutResult(w)
  BY <1>3, <1>7 DEF EndWithoutResult, TypeOK, Slot
<1>8. CASE ClearPending(w)
  <2>1. 0 \in 0 .. PendingTtl
    BY QueueAssumption
  <2>2. key' \in [Coupons -> 0 .. PendingTtl]
    BY <1>8, <2>1 DEF ClearPending, TypeOK
  <2>. QED  BY <1>3, <1>8, <2>2 DEF ClearPending, TypeOK, Slot
<1>9. CASE Acknowledge(w) \/ HardKill(w)
  BY <1>2, <1>4, <1>9 DEF Acknowledge, HardKill, TypeOK, Slot
<1>. QED  BY <1>5, <1>6, <1>7, <1>8, <1>9 DEF Work

LEMMA HoldingCount == \A c \in Coupons : IsFiniteSet(Holding(c)) /\ Cardinality(Holding(c)) \in Nat
<1>. SUFFICES ASSUME NEW c \in Coupons PROVE IsFiniteSet(Holding(c))
  BY FS_CardinalityType
<1>1. Holding(c) \subseteq Workers
  BY DEF Holding
<1>. QED  BY <1>1, QueueAssumption, FS_Subset

LEMMA NextType == TypeOK /\ [Next]_vars => TypeOK'
<1>. SUFFICES ASSUME TypeOK, [Next]_vars PROVE TypeOK'
  OBVIOUS
<1>1. ASSUME NEW c \in Coupons, Restore(c) PROVE TypeOK'
  <2>1. PICK prio \in 0 .. 2 :
          ready' = [ready EXCEPT ![StepOf(prio)] = <<[coupon |-> c, prio |-> prio]>> \o @]
    BY <1>1 DEF Restore
  <2>2. StepOf(prio) \in Steps /\ [coupon |-> c, prio |-> prio] \in Message
    BY StepOfIsStep DEF Message
  <2>3. ready' \in [Steps -> Seq(Message)]
    BY <2>1, <2>2, FrontPositions DEF TypeOK
  <2>4. orphans' \in [Coupons -> Nat]
    BY <1>1 DEF Restore, TypeOK
  <2>. QED  BY <1>1, <2>3, <2>4 DEF Restore, TypeOK
<1>2. CASE Restart
  <2>1. orphans' \in [Coupons -> Nat]
    BY <1>2, HoldingCount DEF Restart, TypeOK
  <2>2. NoJob \in Slot /\ NoLoop \in Batch
    BY DEF NoJob, NoLoop, Slot, Batch
  <2>. QED  BY <1>2, <2>1, <2>2 DEF Restart, TypeOK, Slot, Batch, NoJob, NoLoop
<1>3. CASE Tick
  <2>1. coupon' \in [Coupons -> Coupon]
    <3>1. ASSUME NEW c \in Coupons
          PROVE  [coupon[c] EXCEPT !.age = IF @ = NeverChecked \/ @ = Oldest THEN @ ELSE @ + 1] \in Coupon
      <4>. DEFINE age == IF coupon[c].age = NeverChecked \/ coupon[c].age = Oldest
                         THEN coupon[c].age ELSE coupon[c].age + 1
      <4>1. Oldest \in Nat /\ coupon[c] \in Coupon
        BY QueueAssumption DEF Oldest, TypeOK
      <4>2. age \in -1 .. Oldest
        BY <4>1 DEF NeverChecked, Coupon
      <4>. HIDE DEF age
      <4>3. [coupon[c] EXCEPT !.age = age] \in Coupon
        BY <4>1, <4>2 DEF Coupon
      <4>. QED  BY <4>3 DEF age
    <3>. QED  BY <1>3, <3>1 DEF Tick
  <2>2. key' \in [Coupons -> 0 .. PendingTtl]
    BY <1>3, QueueAssumption DEF Tick, TypeOK
  <2>3. /\ worker' \in [Workers -> Slot]
        /\ \A w \in Workers : worker'[w].phase = worker[w].phase /\ worker'[w].coupon = worker[w].coupon
    <3>1. ASSUME NEW w \in Workers
          PROVE  /\ [worker[w] EXCEPT !.late = worker[w].phase # "idle"] \in Slot
                 /\ [worker[w] EXCEPT !.late = worker[w].phase # "idle"].phase = worker[w].phase
                 /\ [worker[w] EXCEPT !.late = worker[w].phase # "idle"].coupon = worker[w].coupon
      BY ZenonT(40) DEF TypeOK, Slot
    <3>. QED  BY <1>3, <3>1 DEF Tick
  <2>4. /\ swept' \in BOOLEAN /\ fault' \in BOOLEAN
        /\ UNCHANGED <<ready, orphans, producer>>
    BY <1>3 DEF Tick, TypeOK
  <2>. QED  BY <2>1, <2>2, <2>3, <2>4 DEF TypeOK, Slot
<1>4. CASE UNCHANGED vars
  BY <1>4 DEF vars, TypeOK
<1>. QED  BY <1>1, <1>2, <1>3, <1>4, ProduceType, WorkType DEF Next

(* Every variable keeps its type: no producer is left with an empty batch, *)
(* no idle slot with a coupon.                                             *)
THEOREM TypeCorrect == Spec => []TypeOK
BY InitType, NextType, PTL DEF Spec

----------------------------------------------------------------------------
(* One job, in one place.  The four kinds of place, and the invariant:     *)
(* while no key was lost, a coupon is once at most in a place of each kind,*)
(* in places of one kind only, and its key is set as long as it is in any. *)

Listed(k, i, c) == i \in 1 .. Len(ready[k]) /\ ready[k][i].coupon = c
Reserved(p, c) == producer[p].phase = "reserved" /\ Head(producer[p].list).coupon = c
InSlot(w, c) == worker[w].phase \in {"running", "ended"} /\ worker[w].coupon = c

OnList(c) == \E k \in Steps : \E i \in Nat : Listed(k, i, c)
InHand(c) == \E p \in Producers : Reserved(p, c)
Running(c) == \E w \in Workers : InSlot(w, c)
CutOff(c) == orphans[c] > 0

ListedOnce(c) == \A k, l \in Steps : \A i, j \in Nat :
                   Listed(k, i, c) /\ Listed(l, j, c) => k = l /\ i = j
ReservedOnce(c) == \A p, q \in Producers : Reserved(p, c) /\ Reserved(q, c) => p = q
RunningOnce(c) == \A w, v \in Workers : InSlot(w, c) /\ InSlot(v, c) => w = v
Once(c) == ListedOnce(c) /\ ReservedOnce(c) /\ RunningOnce(c) /\ orphans[c] <= 1

OneKind(c) ==
  /\ OnList(c) => ~InHand(c) /\ ~Running(c) /\ ~CutOff(c)
  /\ InHand(c) => ~Running(c) /\ ~CutOff(c)
  /\ Running(c) => ~CutOff(c)

Outstanding(c) == OnList(c) \/ InHand(c) \/ Running(c) \/ CutOff(c)

OneJob(c) == Once(c) /\ OneKind(c) /\ (Outstanding(c) => key[c] > 0)

QueueInv == TypeOK /\ (~fault => \A c \in Coupons : OneJob(c))

LEMMA PlaceKinds ==
  ASSUME TypeOK, NEW c \in Coupons, NEW x
  PROVE  x \in Places(c) <=>
           \/ \E k \in Steps : \E i \in Nat : Listed(k, i, c) /\ x = <<"list", k, i>>
           \/ \E p \in Producers : Reserved(p, c) /\ x = <<"producer", p, 0>>
           \/ \E w \in Workers : InSlot(w, c) /\ x = <<"slot", w, 0>>
           \/ \E n \in 1 .. orphans[c] : x = <<"orphan", n, 0>>
<1>1. x \in UNION {{<<"list", k, i>> : i \in {j \in 1 .. Len(ready[k]) : ready[k][j].coupon = c}} : k \in Steps}
        <=> \E k \in Steps : \E i \in Nat : Listed(k, i, c) /\ x = <<"list", k, i>>
  <2>1. \A k \in Steps : Len(ready[k]) \in Nat
    BY DEF TypeOK
  <2>. QED  BY <2>1 DEF Listed
<1>2. \A w \in Workers : w \in {v \in Holding(c) : worker[v].phase # "cleared"} <=> InSlot(w, c)
  BY DEF InSlot, Holding, TypeOK
<1>3. {v \in Holding(c) : worker[v].phase # "cleared"} \subseteq Workers
  BY DEF Holding
<1>4. x \in {<<"slot", w, 0>> : w \in {v \in Holding(c) : worker[v].phase # "cleared"}}
        <=> \E w \in Workers : InSlot(w, c) /\ x = <<"slot", w, 0>>
  BY <1>2, <1>3
<1>5. x \in {<<"producer", p, 0>> : p \in {q \in Producers : /\ producer[q].phase = "reserved"
                                                        /\ Head(producer[q].list).coupon = c}}
        <=> \E p \in Producers : Reserved(p, c) /\ x = <<"producer", p, 0>>
  BY DEF Reserved
<1>. QED  BY <1>1, <1>4, <1>5 DEF Places

LEMMA InvImpliesOneJob == QueueInv => OneJobUnlessKeyLost
<1>. SUFFICES ASSUME QueueInv, ~fault, NEW c \in Coupons, NEW x \in Places(c), NEW y \in Places(c)
              PROVE  x = y
  BY DEF OneJobUnlessKeyLost
<1>1. TypeOK /\ Once(c) /\ OneKind(c) /\ orphans[c] \in Nat
  BY DEF QueueInv, OneJob, TypeOK
<1>2. CASE OnList(c)
  <2>1. ~InHand(c) /\ ~Running(c) /\ orphans[c] = 0 /\ ListedOnce(c)
    BY <1>1, <1>2 DEF OneKind, CutOff, Once
  <2>2. \A z \in Places(c) : \E k \in Steps : \E i \in Nat : Listed(k, i, c) /\ z = <<"list", k, i>>
    BY <1>1, <2>1, PlaceKinds DEF InHand, Running
  <2>3. PICK k \in Steps, i \in Nat : Listed(k, i, c) /\ x = <<"list", k, i>>
    BY <2>2
  <2>4. PICK l \in Steps, j \in Nat : Listed(l, j, c) /\ y = <<"list", l, j>>
    BY <2>2
  <2>. QED  BY <2>1, <2>3, <2>4 DEF ListedOnce
<1>3. CASE InHand(c)
  <2>1. ~OnList(c) /\ ~Running(c) /\ orphans[c] = 0 /\ ReservedOnce(c)
    BY <1>1, <1>3 DEF OneKind, CutOff, Once
  <2>2. \A z \in Places(c) : \E p \in Producers : Reserved(p, c) /\ z = <<"producer", p, 0>>
    BY <1>1, <2>1, PlaceKinds DEF OnList, Running
  <2>. QED  BY <2>1, <2>2 DEF ReservedOnce
<1>4. CASE Running(c)
  <2>1. ~OnList(c) /\ ~InHand(c) /\ orphans[c] = 0 /\ RunningOnce(c)
    BY <1>1, <1>4 DEF OneKind, CutOff, Once
  <2>2. \A z \in Places(c) : \E w \in Workers : InSlot(w, c) /\ z = <<"slot", w, 0>>
    BY <1>1, <2>1, PlaceKinds DEF OnList, InHand
  <2>. QED  BY <2>1, <2>2 DEF RunningOnce
<1>5. CASE ~OnList(c) /\ ~InHand(c) /\ ~Running(c)
  <2>1. \A z \in Places(c) : \E n \in 1 .. orphans[c] : z = <<"orphan", n, 0>>
    BY <1>1, <1>5, PlaceKinds DEF OnList, InHand, Running
  <2>2. orphans[c] <= 1
    BY <1>1 DEF Once
  <2>. QED  BY <1>1, <2>1, <2>2
<1>. QED  BY <1>2, <1>3, <1>4, <1>5

LEMMA InitQueue == Init => QueueInv
<1>. SUFFICES ASSUME Init PROVE QueueInv
  OBVIOUS
<1>1. TypeOK
  BY InitType
<1>2. ASSUME NEW c \in Coupons PROVE OneJob(c)
  <2>1. ~OnList(c) /\ ~InHand(c) /\ ~Running(c) /\ orphans[c] = 0
    BY DEF Init, OnList, InHand, Running, Listed, Reserved, InSlot, NoLoop, NoJob
  <2>. QED  BY <2>1 DEF OneJob, Once, OneKind, Outstanding, ListedOnce, ReservedOnce,
                        RunningOnce, OnList, InHand, Running, CutOff
<1>. QED  BY <1>1, <1>2 DEF QueueInv

(* A coupon a step does not put anywhere new keeps its single job.         *)
LEMMA Bystander ==
  ASSUME NEW c \in Coupons, OneJob(c), orphans[c] \in Nat, orphans'[c] \in Nat,
         OnList(c)' => OnList(c), ListedOnce(c)',
         \A p \in Producers : Reserved(p, c)' => Reserved(p, c),
         \A w \in Workers : InSlot(w, c)' => InSlot(w, c),
         orphans'[c] <= orphans[c],
         key[c] > 0 => key'[c] > 0
  PROVE  OneJob(c)'
<1>1. (InHand(c)' => InHand(c)) /\ (Running(c)' => Running(c)) /\ (CutOff(c)' => CutOff(c))
  BY DEF InHand, Running, CutOff
<1>2. Once(c)'
  BY DEF OneJob, Once, ReservedOnce, RunningOnce
<1>3. OneKind(c)' /\ (Outstanding(c)' => Outstanding(c))
  BY <1>1 DEF OneJob, OneKind, Outstanding
<1>. QED  BY <1>2, <1>3 DEF OneJob

(* The lists of a coupon none of whose messages moved.                     *)
LEMMA SameLists ==
  ASSUME NEW c \in Coupons, ListedOnce(c),
         \A k \in Steps : \A i \in Nat : Listed(k, i, c)' => Listed(k, i, c)
  PROVE  (OnList(c)' => OnList(c)) /\ ListedOnce(c)'
BY DEF OnList, ListedOnce

(* A producer that reserves nothing adds no place.                         *)
LEMMA NothingReserved ==
  ASSUME QueueInv, ~fault, TypeOK', NEW p \in Producers, NEW c \in Coupons,
         UNCHANGED <<key, ready, orphans, worker>>,
         \A q \in Producers \ {p} : producer'[q] = producer[q],
         producer'[p].phase # "reserved"
  PROVE  OneJob(c)'
<1>1. OneJob(c) /\ orphans[c] \in Nat /\ orphans'[c] = orphans[c]
  BY DEF QueueInv, TypeOK
<1>2. (OnList(c)' => OnList(c)) /\ ListedOnce(c)'
  BY <1>1, SameLists DEF Listed, OneJob, Once
<1>. QED  BY <1>1, <1>2, Bystander DEF Reserved, InSlot

LEMMA SelectOnce ==
  ASSUME QueueInv, ~fault, TypeOK', NEW p \in Producers, Select(p), NEW c \in Coupons
  PROVE  OneJob(c)'
<1>1. \A list : Loop(list).phase # "reserved"
  BY DEF Loop, NoLoop
<1>2. PICK list : producer' = [producer EXCEPT ![p] = Loop(list)]
  BY DEF Select
<1>3. /\ \A q \in Producers \ {p} : producer'[q] = producer[q]
      /\ producer'[p].phase # "reserved"
  BY <1>1, <1>2 DEF QueueInv, TypeOK
<1>4. UNCHANGED <<key, ready, orphans, worker>>
  BY DEF Select
<1>. QED  BY <1>3, <1>4, NothingReserved

LEMMA ReserveOnce ==
  ASSUME QueueInv, ~fault, TypeOK', NEW p \in Producers, Reserve(p), NEW c \in Coupons
  PROVE  OneJob(c)'
<1>. DEFINE d == Head(producer[p].list).coupon
<1>1. producer[p].phase = "looping" /\ producer \in [Producers -> Batch]
  BY DEF Reserve, QueueInv, TypeOK, Batch
<1>2. producer[p].list # <<>> /\ producer[p].list \in Seq(Message)
  BY <1>1 DEF QueueInv, TypeOK, Batch
<1>3. d \in Coupons
  BY <1>2, TailPositions DEF Message
<1>4. CASE key[d] # 0
  <2>1. /\ producer' = [producer EXCEPT ![p] = Loop(Tail(producer[p].list))]
        /\ UNCHANGED <<key, ready, orphans, worker>>
    BY <1>4 DEF Reserve
  <2>2. Loop(Tail(producer[p].list)).phase # "reserved"
    BY DEF Loop, NoLoop
  <2>. QED  BY <1>1, <2>1, <2>2, NothingReserved
<1>5. CASE key[d] = 0
  <2>1. /\ key' = [key EXCEPT ![d] = PendingTtl]
        /\ producer' = [producer EXCEPT ![p] = [producer[p] EXCEPT !.phase = "reserved"]]
        /\ UNCHANGED <<ready, orphans, worker>>
    BY <1>1, <1>5 DEF Reserve
  <2>2. /\ producer'[p].list = producer[p].list
        /\ \A q \in Producers \ {p} : producer'[q] = producer[q]
    BY <1>1, <2>1 DEF Batch
  <2>3. /\ \A q \in Producers : Reserved(q, c)' => Reserved(q, c) \/ (q = p /\ c = d)
        /\ \A k \in Steps : \A i \in Nat : Listed(k, i, c)' <=> Listed(k, i, c)
        /\ \A w \in Workers : InSlot(w, c)' <=> InSlot(w, c)
        /\ orphans'[c] = orphans[c] /\ orphans[c] \in Nat
    BY <2>1, <2>2 DEF Reserved, Listed, InSlot, QueueInv, TypeOK
  <2>4. key \in [Coupons -> Nat] /\ PendingTtl > 0
    BY QueueAssumption DEF QueueInv, TypeOK
  <2>5. OneJob(c)
    BY DEF QueueInv
  <2>. HIDE DEF d
  <2>6. CASE c # d
    <3>1. (OnList(c)' => OnList(c)) /\ ListedOnce(c)'
      BY <2>3, <2>5, SameLists DEF OneJob, Once
    <3>. QED  BY <1>3, <2>1, <2>3, <2>4, <2>5, <2>6, <3>1, Bystander
  <2>7. CASE c = d
    <3>1. ~OnList(c) /\ ~InHand(c) /\ ~Running(c) /\ orphans[c] = 0
      BY <1>5, <2>3, <2>4, <2>5, <2>7 DEF OneJob, Outstanding, CutOff
    <3>2. ~OnList(c)' /\ ~Running(c)' /\ orphans'[c] = 0 /\ ~CutOff(c)'
      BY <2>3, <3>1 DEF OnList, Running, CutOff
    <3>3. ListedOnce(c)' /\ RunningOnce(c)'
      BY <3>2 DEF OnList, Running, ListedOnce, RunningOnce
    <3>4. ReservedOnce(c)'
      BY <2>3, <3>1 DEF InHand, ReservedOnce
    <3>5. key'[c] > 0
      BY <1>3, <2>1, <2>4, <2>7
    <3>. QED  BY <3>2, <3>3, <3>4, <3>5 DEF OneJob, Once, OneKind
  <2>. QED  BY <2>6, <2>7
<1>. QED  BY <1>4, <1>5

(* A message goes from the hand of its producer to the end of a list.      *)
LEMMA SendOnce ==
  ASSUME QueueInv, ~fault, TypeOK', NEW p \in Producers, Send(p), NEW c \in Coupons
  PROVE  OneJob(c)'
<1>. DEFINE m == Head(producer[p].list)
            s == StepOf(m.prio)
            n == Len(ready[s]) + 1
<1>1. /\ producer[p].phase = "reserved" /\ producer[p].list # <<>>
      /\ producer[p].list \in Seq(Message)
  BY DEF Send, QueueInv, TypeOK
<1>2. m \in Message
  BY <1>1, TailPositions
<1>3. s \in Steps
  BY <1>2, StepOfIsStep DEF Message
<1>4. /\ ready' = [ready EXCEPT ![s] = Append(ready[s], m)]
      /\ producer' = [producer EXCEPT ![p] = Loop(Tail(producer[p].list))]
      /\ UNCHANGED <<key, orphans, worker>>
  BY DEF Send
<1>5. Loop(Tail(producer[p].list)).phase # "reserved"
  BY DEF Loop, NoLoop
<1>6. Reserved(p, m.coupon)
  BY <1>1 DEF Reserved
<1>. HIDE DEF m, s
<1>7. /\ \A q \in Producers : Reserved(q, c)' => q # p /\ Reserved(q, c)
      /\ \A w \in Workers : InSlot(w, c)' <=> InSlot(w, c)
      /\ orphans'[c] = orphans[c] /\ orphans[c] \in Nat /\ key'[c] = key[c]
  BY <1>4, <1>5 DEF Reserved, InSlot, QueueInv, TypeOK
<1>8. \A k \in Steps : \A i \in Nat :
        Listed(k, i, c)' => Listed(k, i, c) \/ (k = s /\ i = n /\ c = m.coupon)
  <2>1. ready[s] \in Seq(Message) /\ ready \in [Steps -> Seq(Message)]
    BY <1>3 DEF QueueInv, TypeOK
  <2>2. ready'[s] = Append(ready[s], m) /\ \A k \in Steps \ {s} : ready'[k] = ready[k]
    BY <1>3, <1>4, <2>1
  <2>3. /\ Len(ready'[s]) = n /\ ready'[s][n] = m /\ n \in Nat
        /\ \A i \in 1 .. n - 1 : ready'[s][i] = ready[s][i]
    BY <1>2, <2>1, <2>2, AppendPositions
  <2>. HIDE DEF n
  <2>4. n - 1 = Len(ready[s])
    BY <2>1 DEF n
  <2>. QED  BY <2>2, <2>3, <2>4, SMTT(30) DEF Listed
<1>9. OneJob(c)
  BY DEF QueueInv
<1>. HIDE DEF n
<1>10. CASE c # m.coupon
  <2>1. (OnList(c)' => OnList(c)) /\ ListedOnce(c)'
    BY <1>8, <1>9, <1>10, SameLists DEF OneJob, Once
  <2>. QED  BY <1>7, <1>9, <2>1, Bystander
<1>11. CASE c = m.coupon
  <2>1. InHand(c) /\ ~OnList(c) /\ ~Running(c) /\ orphans[c] = 0
    BY <1>6, <1>7, <1>9, <1>11 DEF InHand, OneJob, OneKind, CutOff
  <2>2. ~InHand(c)'
    BY <1>6, <1>7, <1>9, <1>11 DEF InHand, OneJob, Once, ReservedOnce
  <2>3. ~Running(c)' /\ orphans'[c] = 0 /\ ~CutOff(c)'
    BY <1>7, <2>1 DEF Running, CutOff
  <2>4. ListedOnce(c)'
    BY <1>8, <2>1 DEF OnList, ListedOnce
  <2>5. ReservedOnce(c)' /\ RunningOnce(c)'
    BY <2>2, <2>3 DEF InHand, Running, ReservedOnce, RunningOnce
  <2>6. key'[c] > 0
    BY <1>7, <1>9, <2>1 DEF OneJob, Outstanding
  <2>. QED  BY <2>2, <2>3, <2>4, <2>5, <2>6 DEF OneJob, Once, OneKind
<1>. QED  BY <1>10, <1>11

(* A slot that ends its job, or loses it, adds no place.                   *)
LEMMA SlotLeft ==
  ASSUME QueueInv, ~fault, TypeOK', NEW w \in Workers, NEW c \in Coupons,
         UNCHANGED <<ready, orphans, producer>>,
         key[c] > 0 => key'[c] > 0,
         \A v \in Workers : InSlot(v, c)' => InSlot(v, c)
  PROVE  OneJob(c)'
<1>1. OneJob(c) /\ orphans[c] \in Nat /\ orphans'[c] = orphans[c]
  BY DEF QueueInv, TypeOK
<1>2. (OnList(c)' => OnList(c)) /\ ListedOnce(c)'
  BY <1>1, SameLists DEF Listed, OneJob, Once
<1>. QED  BY <1>1, <1>2, Bystander DEF Reserved

LEMMA EndOnce ==
  ASSUME QueueInv, ~fault, TypeOK', NEW w \in Workers, NEW c \in Coupons,
         \/ \E result \in Results : Record(w, result)
         \/ EndWithoutResult(w) \/ Acknowledge(w) \/ HardKill(w)
  PROVE  OneJob(c)'
<1>1. UNCHANGED <<key, ready, orphans, producer>>
  BY DEF Record, EndWithoutResult, Acknowledge, HardKill
<1>2. \A v \in Workers \ {w} : worker'[v] = worker[v]
  BY DEF Record, EndWithoutResult, Acknowledge, HardKill, QueueInv, TypeOK
<1>3. InSlot(w, c)' => InSlot(w, c)
  <2>1. CASE Acknowledge(w) \/ HardKill(w)
    <3>1. worker'[w].phase = "idle"
      BY <2>1 DEF Acknowledge, HardKill, NoJob, QueueInv, TypeOK
    <3>. QED  BY <3>1 DEF InSlot
  <2>2. CASE EndWithoutResult(w) \/ \E result \in Results : Record(w, result)
    <3>1. worker[w].phase = "running" /\ worker' = [worker EXCEPT ![w].phase = "ended"]
      BY <2>2 DEF EndWithoutResult, Record
    <3>2. worker'[w].coupon = worker[w].coupon
      BY <3>1 DEF QueueInv, TypeOK
    <3>. QED  BY <3>1, <3>2 DEF InSlot
  <2>. QED  BY <2>1, <2>2
<1>. QED  BY <1>1, <1>2, <1>3, SlotLeft DEF InSlot

(* The key goes, and with it the only place of its coupon.                 *)
LEMMA ClearOnce ==
  ASSUME QueueInv, ~fault, TypeOK', NEW w \in Workers, NEW c \in Coupons, ClearPending(w)
  PROVE  OneJob(c)'
<1>. DEFINE d == worker[w].coupon
<1>1. InSlot(w, d) /\ d \in Coupons
  BY DEF ClearPending, InSlot, QueueInv, TypeOK
<1>2. /\ UNCHANGED <<ready, orphans, producer>>
      /\ worker'[w].phase = "cleared"
      /\ \A v \in Workers \ {w} : worker'[v] = worker[v]
      /\ c # d => key'[c] = key[c]
  BY DEF ClearPending, QueueInv, TypeOK
<1>. HIDE DEF d
<1>3. \A v \in Workers : InSlot(v, c)' => v # w /\ InSlot(v, c)
  BY <1>2 DEF InSlot
<1>4. CASE c # d
  BY <1>2, <1>3, <1>4, SlotLeft
<1>5. CASE c = d
  <2>1. OneJob(c) /\ orphans[c] \in Nat
    BY DEF QueueInv, TypeOK
  <2>2. ~OnList(c) /\ ~InHand(c) /\ orphans[c] = 0 /\ RunningOnce(c)
    BY <1>1, <1>5, <2>1 DEF OneJob, Once, OneKind, Running, CutOff
  <2>3. ~OnList(c)' /\ ~InHand(c)' /\ ~CutOff(c)' /\ orphans'[c] = 0
    BY <1>2, <2>2 DEF OnList, InHand, CutOff, Listed, Reserved
  <2>4. ~Running(c)'
    BY <1>1, <1>3, <1>5, <2>2 DEF Running, RunningOnce
  <2>. QED  BY <2>3, <2>4 DEF OneJob, Once, OneKind, Outstanding, ListedOnce, ReservedOnce,
                             RunningOnce, OnList, InHand, Running
<1>. QED  BY <1>4, <1>5

(* The first message of a list goes to a slot; the others move up.         *)
LEMMA DeliverOnce ==
  ASSUME QueueInv, ~fault, TypeOK', NEW w \in Workers, NEW c \in Coupons, Deliver(w)
  PROVE  OneJob(c)'
<1>1. PICK k \in Steps : k = NextStep /\ ready[k] # <<>>
  BY NextStepIsStep DEF Deliver
<1>. DEFINE d == Head(ready[k]).coupon
<1>2. /\ worker' = [worker EXCEPT ![w] = [phase |-> "running", coupon |-> d, late |-> FALSE]]
      /\ ready' = [ready EXCEPT ![k] = Tail(ready[k])]
      /\ UNCHANGED <<key, orphans, producer>>
  BY <1>1 DEF Deliver
<1>3. ready[k] \in Seq(Message) /\ ready \in [Steps -> Seq(Message)]
  BY <1>1 DEF QueueInv, TypeOK
<1>4. /\ Head(ready[k]) = ready[k][1] /\ Len(ready[k]) \in Nat \ {0}
      /\ Len(Tail(ready[k])) = Len(ready[k]) - 1
      /\ \A i \in 1 .. Len(ready[k]) - 1 : Tail(ready[k])[i] = ready[k][i + 1]
  BY <1>1, <1>3, TailPositions
<1>5. Listed(k, 1, d)
  BY <1>4 DEF Listed
<1>. HIDE DEF d
<1>6. ready'[k] = Tail(ready[k]) /\ \A l \in Steps \ {k} : ready'[l] = ready[l]
  BY <1>1, <1>2, <1>3
<1>7. \A i \in Nat : Listed(k, i, c)' => i > 0 /\ Listed(k, i + 1, c)
  BY <1>4, <1>6 DEF Listed
<1>8. \A l \in Steps \ {k} : \A i \in Nat : Listed(l, i, c)' => Listed(l, i, c)
  BY <1>6 DEF Listed
<1>9. /\ OneJob(c) /\ orphans[c] \in Nat /\ orphans'[c] = orphans[c] /\ key'[c] = key[c]
      /\ \A p \in Producers : Reserved(p, c)' <=> Reserved(p, c)
      /\ \A v \in Workers : InSlot(v, c)' => InSlot(v, c) \/ (v = w /\ c = d)
  BY <1>2 DEF QueueInv, TypeOK, Reserved, InSlot
<1>10. ListedOnce(c)
  BY <1>9 DEF OneJob, Once
<1>11. OnList(c)' => OnList(c)
  <2>1. \A i \in Nat : i + 1 \in Nat
    OBVIOUS
  <2>. QED  BY <1>1, <1>7, <1>8, <2>1 DEF OnList
<1>12. ListedOnce(c)'
  <2>. SUFFICES ASSUME NEW l \in Steps, NEW j \in Steps, NEW x \in Nat, NEW y \in Nat,
                       Listed(l, x, c)', Listed(j, y, c)'
                PROVE  l = j /\ x = y
    BY DEF ListedOnce
  <2>1. \A i \in Nat : i + 1 \in Nat
    OBVIOUS
  <2>2. CASE l = k /\ j = k
    <3>1. Listed(k, x + 1, c) /\ Listed(k, y + 1, c)
      BY <1>7, <2>2
    <3>2. x + 1 = y + 1
      BY <1>1, <1>10, <2>1, <3>1 DEF ListedOnce
    <3>. QED  BY <2>2, <3>2
  <2>3. CASE l = k /\ j # k
    BY <1>1, <1>7, <1>8, <1>10, <2>1, <2>3 DEF ListedOnce
  <2>4. CASE l # k /\ j = k
    BY <1>1, <1>7, <1>8, <1>10, <2>1, <2>4 DEF ListedOnce
  <2>5. CASE l # k /\ j # k
    BY <1>8, <1>10, <2>5 DEF ListedOnce
  <2>. QED  BY <2>2, <2>3, <2>4, <2>5
<1>13. CASE c # d
  BY <1>9, <1>11, <1>12, <1>13, Bystander
<1>14. CASE c = d
  <2>1. OnList(c)
    BY <1>1, <1>5, <1>14 DEF OnList
  <2>2. ~InHand(c) /\ ~Running(c) /\ orphans[c] = 0
    BY <1>9, <2>1 DEF OneJob, OneKind, CutOff
  <2>3. ~OnList(c)'
    <3>1. \A l \in Steps : \A i \in Nat : Listed(l, i, c) => l = k /\ i = 1
      BY <1>1, <1>5, <1>10, <1>14 DEF ListedOnce
    <3>2. ASSUME NEW i \in Nat, Listed(k, i, c)' PROVE FALSE
      <4>1. i > 0 /\ Listed(k, i + 1, c) /\ i + 1 \in Nat
        BY <1>7, <3>2
      <4>. QED  BY <1>1, <3>1, <4>1
    <3>. QED  BY <1>8, <3>1, <3>2 DEF OnList
  <2>4. ~InHand(c)' /\ orphans'[c] = 0 /\ ~CutOff(c)'
    BY <1>9, <2>2 DEF InHand, CutOff
  <2>5. RunningOnce(c)'
    BY <1>9, <2>2 DEF Running, RunningOnce
  <2>6. ReservedOnce(c)'
    BY <2>4 DEF InHand, ReservedOnce
  <2>7. key'[c] > 0
    BY <1>9, <2>1 DEF OneJob, Outstanding
  <2>. QED  BY <1>12, <2>3, <2>4, <2>5, <2>6, <2>7 DEF OneJob, Once, OneKind
<1>. QED  BY <1>13, <1>14

(* The container stops: the slot's job is cut off, and its key remains.    *)
LEMMA RestartOnce ==
  ASSUME QueueInv, ~fault', TypeOK', NEW c \in Coupons, Restart
  PROVE  OneJob(c)'
<1>1. ~fault /\ \A w \in Workers : worker[w].phase # "cleared"
  BY DEF Restart
<1>2. OneJob(c) /\ orphans[c] \in Nat
  BY <1>1 DEF QueueInv, TypeOK
<1>3. /\ UNCHANGED <<key, ready>>
      /\ orphans'[c] = orphans[c] + Cardinality(Holding(c))
      /\ \A w \in Workers : worker'[w].phase = "idle"
      /\ \A p \in Producers : producer'[p].phase = "idle"
  BY DEF Restart, NoJob, NoLoop
<1>4. ~InHand(c)' /\ ~Running(c)'
  BY <1>3 DEF InHand, Running, Reserved, InSlot
<1>5. ReservedOnce(c)' /\ RunningOnce(c)'
  BY <1>4 DEF InHand, Running, ReservedOnce, RunningOnce
<1>6. (OnList(c)' <=> OnList(c)) /\ ListedOnce(c)'
  BY <1>2, <1>3 DEF Listed, OnList, ListedOnce, OneJob, Once
<1>7. \A w \in Workers : w \in Holding(c) <=> InSlot(w, c)
  BY <1>1 DEF Holding, InSlot, QueueInv, TypeOK
<1>8. CASE Running(c)
  <2>1. PICK w \in Workers : InSlot(w, c)
    BY <1>8 DEF Running
  <2>2. Holding(c) = {w}
    <3>1. Holding(c) \subseteq Workers
      BY DEF Holding
    <3>. QED  BY <1>2, <1>7, <2>1, <3>1 DEF OneJob, Once, RunningOnce
  <2>3. orphans[c] = 0 /\ ~OnList(c) /\ key[c] > 0
    BY <1>2, <1>8 DEF OneJob, OneKind, Outstanding, CutOff
  <2>4. orphans'[c] = 1
    <3>1. Cardinality({w}) = 1
      BY FS_Singleton
    <3>. QED  BY <1>3, <2>2, <2>3, <3>1
  <2>. QED  BY <1>3, <1>4, <1>5, <1>6, <2>3, <2>4 DEF OneJob, Once, OneKind
<1>9. CASE ~Running(c)
  <2>1. Holding(c) = {}
    <3>1. Holding(c) \subseteq Workers
      BY DEF Holding
    <3>. QED  BY <1>7, <1>9, <3>1 DEF Running
  <2>2. orphans'[c] = orphans[c]
    BY <1>2, <1>3, <2>1, FS_EmptySet
  <2>. QED  BY <1>2, <1>3, <1>4, <1>5, <1>6, <2>2
            DEF OneJob, Once, OneKind, Outstanding, CutOff
<1>. QED  BY <1>8, <1>9

(* A message cut off comes back at the front of a list; others move down.  *)
LEMMA RestoreOnce ==
  ASSUME QueueInv, ~fault, TypeOK', NEW d \in Coupons, Restore(d), NEW c \in Coupons
  PROVE  OneJob(c)'
<1>1. PICK prio \in 0 .. 2 :
        ready' = [ready EXCEPT ![StepOf(prio)] = <<[coupon |-> d, prio |-> prio]>> \o @]
  BY DEF Restore
<1>. DEFINE m == [coupon |-> d, prio |-> prio]
<1>2. PICK k \in Steps : k = StepOf(prio)
  BY StepOfIsStep
<1>3. ready[k] \in Seq(Message) /\ ready \in [Steps -> Seq(Message)] /\ m \in Message
  BY DEF QueueInv, TypeOK, Message
<1>4. m.coupon = d
  OBVIOUS
<1>. HIDE DEF m
<1>5. ready'[k] = <<m>> \o ready[k] /\ \A l \in Steps \ {k} : ready'[l] = ready[l]
  BY <1>1, <1>2, <1>3 DEF m
<1>6. /\ Len(ready[k]) \in Nat /\ Len(ready'[k]) = Len(ready[k]) + 1
      /\ ready'[k][1] = m
      /\ \A i \in 2 .. Len(ready[k]) + 1 : ready'[k][i] = ready[k][i - 1]
  BY <1>3, <1>5, FrontPositions, LenProperties
<1>7. \A i \in Nat : Listed(k, i, c)' =>
        \/ i = 1 /\ c = d
        \/ i - 1 \in Nat /\ Listed(k, i - 1, c)
  BY <1>4, <1>6 DEF Listed
<1>8. \A l \in Steps \ {k} : \A i \in Nat : Listed(l, i, c)' => Listed(l, i, c)
  BY <1>5 DEF Listed
<1>9. /\ OneJob(c) /\ orphans[c] \in Nat /\ key'[c] = key[c]
      /\ orphans'[c] = IF c = d THEN orphans[c] - 1 ELSE orphans[c]
      /\ \A p \in Producers : Reserved(p, c)' <=> Reserved(p, c)
      /\ \A v \in Workers : InSlot(v, c)' <=> InSlot(v, c)
  BY DEF Restore, QueueInv, TypeOK, Reserved, InSlot
<1>10. ListedOnce(c)
  BY <1>9 DEF OneJob, Once
<1>11. CASE c # d
  <2>1. \A i \in Nat : Listed(k, i, c)' => i - 1 \in Nat /\ Listed(k, i - 1, c)
    BY <1>7, <1>11
  <2>2. OnList(c)' => OnList(c)
    BY <1>8, <2>1 DEF OnList
  <2>3. ListedOnce(c)'
    <3>. SUFFICES ASSUME NEW l \in Steps, NEW j \in Steps, NEW x \in Nat, NEW y \in Nat,
                         Listed(l, x, c)', Listed(j, y, c)'
                  PROVE  l = j /\ x = y
      BY DEF ListedOnce
    <3>1. CASE l = k /\ j = k
      <4>1. /\ x - 1 \in Nat /\ Listed(k, x - 1, c)
            /\ y - 1 \in Nat /\ Listed(k, y - 1, c)
        BY <2>1, <3>1
      <4>2. x - 1 = y - 1
        BY <1>10, <4>1 DEF ListedOnce
      <4>. QED  BY <3>1, <4>2
    <3>2. CASE l = k /\ j # k
      BY <1>8, <1>10, <2>1, <3>2 DEF ListedOnce
    <3>3. CASE l # k /\ j = k
      BY <1>8, <1>10, <2>1, <3>3 DEF ListedOnce
    <3>4. CASE l # k /\ j # k
      BY <1>8, <1>10, <3>4 DEF ListedOnce
    <3>. QED  BY <3>1, <3>2, <3>3, <3>4
  <2>. QED  BY <1>9, <1>11, <2>2, <2>3, Bystander
<1>12. CASE c = d
  <2>1. orphans[c] > 0
    BY <1>12 DEF Restore
  <2>2. ~OnList(c) /\ ~InHand(c) /\ ~Running(c) /\ orphans[c] <= 1 /\ key[c] > 0
    BY <1>9, <2>1 DEF OneJob, Once, OneKind, Outstanding, CutOff
  <2>3. orphans'[c] = 0 /\ ~CutOff(c)'
    BY <1>9, <1>12, <2>1, <2>2 DEF CutOff
  <2>4. ~InHand(c)' /\ ~Running(c)' /\ ReservedOnce(c)' /\ RunningOnce(c)'
    BY <1>9, <2>2 DEF InHand, Running, ReservedOnce, RunningOnce
  <2>5. \A l \in Steps : \A i \in Nat : Listed(l, i, c)' => l = k /\ i = 1
    BY <1>7, <1>8, <2>2 DEF OnList
  <2>6. ListedOnce(c)'
    BY <2>5 DEF ListedOnce
  <2>. QED  BY <1>9, <2>2, <2>3, <2>4, <2>6 DEF OneJob, Once, OneKind
<1>. QED  BY <1>11, <1>12

(* A tick that loses no key leaves every outstanding job one.              *)
LEMMA TickOnce ==
  ASSUME QueueInv, ~fault', TypeOK', NEW c \in Coupons, Tick
  PROVE  OneJob(c)'
<1>1. ~fault /\ ~(key[c] = 1 /\ Places(c) # {})
  BY DEF Tick
<1>2. OneJob(c) /\ key[c] \in Nat /\ TypeOK
  BY <1>1 DEF QueueInv, TypeOK
<1>3. Outstanding(c) => Places(c) # {}
  <2>1. CASE OnList(c)
    BY <1>2, <2>1, PlaceKinds DEF OnList
  <2>2. CASE InHand(c)
    BY <1>2, <2>2, PlaceKinds DEF InHand
  <2>3. CASE Running(c)
    BY <1>2, <2>3, PlaceKinds DEF Running
  <2>4. CASE CutOff(c)
    <3>1. 1 \in 1 .. orphans[c]
      BY <1>2, <2>4 DEF CutOff, TypeOK
    <3>. QED  BY <1>2, <3>1, PlaceKinds
  <2>. QED  BY <2>1, <2>2, <2>3, <2>4 DEF Outstanding
<1>4. Outstanding(c) => key'[c] > 0
  <2>1. key'[c] = IF key[c] > 0 THEN key[c] - 1 ELSE key[c]
    BY DEF Tick
  <2>. QED  BY <1>1, <1>2, <1>3, <2>1 DEF OneJob
<1>5. \A w \in Workers : worker'[w].phase = worker[w].phase /\ worker'[w].coupon = worker[w].coupon
  BY <1>2 DEF Tick, TypeOK
<1>6. UNCHANGED <<ready, producer, orphans>>
  BY DEF Tick
<1>7. /\ \A k \in Steps : \A i \in Nat : Listed(k, i, c)' <=> Listed(k, i, c)
      /\ \A p \in Producers : Reserved(p, c)' <=> Reserved(p, c)
      /\ \A w \in Workers : InSlot(w, c)' <=> InSlot(w, c)
  BY <1>5, <1>6 DEF Listed, Reserved, InSlot
<1>8. Once(c)'
  BY <1>2, <1>6, <1>7 DEF OneJob, Once, ListedOnce, ReservedOnce, RunningOnce
<1>9. /\ OnList(c)' <=> OnList(c)
      /\ InHand(c)' <=> InHand(c)
      /\ Running(c)' <=> Running(c)
      /\ CutOff(c)' <=> CutOff(c)
  BY <1>6, <1>7 DEF OnList, InHand, Running, CutOff
<1>. QED  BY <1>2, <1>4, <1>8, <1>9 DEF OneJob, OneKind, Outstanding

LEMMA NextQueue == QueueInv /\ [Next]_vars => QueueInv'
<1>. SUFFICES ASSUME QueueInv, [Next]_vars PROVE QueueInv'
  OBVIOUS
<1>1. TypeOK'
  BY NextType DEF QueueInv
<1>2. fault => fault'
  BY DEF Next, Produce, Work, Select, Reserve, ReserveUnreachable, Send, SendFails, Deliver,
         Record, EndWithoutResult, ClearPending, Acknowledge, HardKill, Restore, Restart,
         Tick, vars
<1>. SUFFICES ASSUME ~fault', NEW c \in Coupons PROVE OneJob(c)'
  BY <1>1 DEF QueueInv
<1>3. ~fault
  BY <1>2
<1>4. ASSUME NEW p \in Producers, Produce(p) PROVE OneJob(c)'
  <2>1. CASE SendFails(p)
    <3>1. /\ \A q \in Producers \ {p} : producer'[q] = producer[q]
          /\ producer'[p].phase # "reserved"
      BY <2>1 DEF SendFails, NoLoop, QueueInv, TypeOK
    <3>. QED  BY <1>1, <1>3, <2>1, <3>1, NothingReserved DEF SendFails
  <2>2. ~ReserveUnreachable(p)
    BY DEF ReserveUnreachable
  <2>. QED  BY <1>1, <1>3, <1>4, <2>1, <2>2, SelectOnce, ReserveOnce, SendOnce DEF Produce
<1>5. ASSUME NEW w \in Workers, Work(w) PROVE OneJob(c)'
  BY <1>1, <1>3, <1>5, DeliverOnce, EndOnce, ClearOnce DEF Work
<1>6. ASSUME NEW d \in Coupons, Restore(d) PROVE OneJob(c)'
  BY <1>1, <1>3, <1>6, RestoreOnce
<1>7. CASE Restart
  BY <1>1, <1>7, RestartOnce
<1>8. CASE Tick
  BY <1>1, <1>8, TickOnce
<1>9. CASE UNCHANGED vars
  <2>1. OneJob(c)
    BY <1>3 DEF QueueInv
  <2>. QED  BY <1>9, <2>1 DEF vars, OneJob, Once, OneKind, Outstanding, ListedOnce, ReservedOnce,
                              RunningOnce, OnList, InHand, Running, CutOff, Listed, Reserved, InSlot
<1>. QED  BY <1>4, <1>5, <1>6, <1>7, <1>8, <1>9 DEF Next

(* While no pending key was lost under its job, a coupon has one job, in   *)
(* one place, however many sweeps, feeds and slots there are, and whatever *)
(* was killed, restarted or delivered again.                               *)
THEOREM OneJobQueued == Spec => []OneJobUnlessKeyLost
BY InitQueue, NextQueue, InvImpliesOneJob, PTL DEF Spec

=============================================================================
