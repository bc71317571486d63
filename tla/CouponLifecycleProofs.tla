------------------------ MODULE CouponLifecycleProofs ------------------------
(***************************************************************************)
(* Theorems about CouponLifecycle, for any number of sessions, any set of  *)
(* addresses and end dates, and any windows.                               *)
(***************************************************************************)
EXTENDS CouponLifecycle, FiniteSetTheorems, TLAPS

----------------------------------------------------------------------------
(* The score is a natural number, so the confidence column keeps its type. *)

(* Rounding to four decimals of a non-negative fraction.                   *)
LEMMA RoundedType ==
  ASSUME NEW num \in Nat, NEW den \in Nat \ {0}
  PROVE  Rounded(num, den) \in Nat
<1>. DEFINE n == 2 * num + den
            d == 2 * den
<1>1. n \in Nat /\ d \in Nat /\ d > 0
  OBVIOUS
<1>2. ASSUME NEW p \in Nat, NEW q \in Nat, q > 0 PROVE p \div q \in Nat
  BY <1>2
<1>. QED  BY <1>1, <1>2 DEF Rounded

(* compute_confidence of any latest result and any vote count.             *)
LEMMA ComputeConfidenceType ==
  ASSUME NEW result, NEW up \in Nat, NEW total \in Nat
  PROVE  ComputeConfidence(result, up, total) \in Nat
<1>. DEFINE b == Base(result)
<1>1. b \in Nat
  BY DEF Base
<1>. HIDE DEF b
<1>2. CASE total = 0
  BY <1>1, <1>2 DEF ComputeConfidence, b
<1>3. CASE total # 0 /\ total <= 5
  <2>1. 5 * b + 10000 * up \in Nat /\ total + 5 \in Nat \ {0}
    BY <1>1
  <2>2. Rounded(5 * b + 10000 * up, total + 5) \in Nat
    BY <2>1, RoundedType
  <2>. QED  BY <1>3, <2>2 DEF ComputeConfidence, b
<1>4. CASE total # 0 /\ ~(total <= 5)
  <2>1. total * b + 10000 * up \in Nat /\ 2 * total \in Nat \ {0}
    BY <1>1, <1>4
  <2>2. Rounded(total * b + 10000 * up, 2 * total) \in Nat
    BY <2>1, RoundedType
  <2>. QED  BY <1>4, <2>2 DEF ComputeConfidence, b
<1>. QED  BY <1>2, <1>3, <1>4

(* Counting a vote keeps a tally a tally.                                  *)
LEMMA CountAllType ==
  ASSUME NEW tally \in Tally, NEW ballots \in SUBSET Vote
  PROVE  CountAll(tally, ballots) \in Tally
<1>1. ASSUME NEW vote \in Vote PROVE Count(tally, vote) \in Tally
  <2>1. tally.up + (IF vote.worked THEN 1 ELSE 0) \in Nat /\ tally.total + 1 \in Nat
    BY DEF Tally
  <2>2. [tally.last EXCEPT ![vote.ip] = IF vote.at > @ THEN vote.at ELSE @] \in [Ips -> Nat]
    BY DEF Tally, Vote
  <2>. QED  BY <2>1, <2>2 DEF Count, Tally
<1>2. ballots # {} => (CHOOSE vote \in ballots : TRUE) \in Vote
  OBVIOUS
<1>. QED  BY <1>1, <1>2 DEF CountAll

----------------------------------------------------------------------------
(* Type correctness.                                                       *)

Task == {"none", "checking", "validate", "feedback", "relist", "suspend", "backfill", "sweep"}

(* A session that loads the typed row and prepares a typed one keeps types.*)
LEMMA PrepareType ==
  ASSUME TypeOK, NEW s \in Sessions, NEW task \in Task, NEW new \in Row,
         NEW entries \in SUBSET Entry, NEW ballots \in SUBSET Vote,
         Prepare(s, task, new, entries, ballots)
  PROVE  TypeOK'
<1>. DEFINE u == [task |-> task, loaded |-> row, new |-> new,
                  entries |-> entries, ballots |-> ballots]
<1>1. u \in SessionType
  BY DEF TypeOK, SessionType, Task
<1>2. session' = [session EXCEPT ![s] = u]
  BY DEF Prepare
<1>. HIDE DEF u
<1>3. session' \in [Sessions -> SessionType]
  BY <1>1, <1>2 DEF TypeOK
<1>. QED  BY <1>3 DEF TypeOK, Prepare

(* The flush mixes columns of three typed rows into a typed row.           *)
LEMMA FlushType ==
  ASSUME NEW db \in Row, NEW loaded \in Row, NEW new \in Row
  PROVE  Flush(db, loaded, new) \in Row
BY DEF Flush, Column, Row

(* A finished check leaves a typed copy of the row.                        *)
LEMMA RecordType ==
  ASSUME NEW loaded \in Row, NEW result \in Result, NEW at \in Nat,
         NEW up \in Nat, NEW total \in Nat
  PROVE  RecordValidationResult(loaded, result, at, up, total) \in Row
<1>. DEFINE c == ComputeConfidence(result, up, total)
<1>1. c \in Nat
  BY ComputeConfidenceType
<1>. HIDE DEF c
<1>2. CASE result = "unverifiable"
  <2>1. RecordValidationResult(loaded, result, at, up, total)
          = [loaded EXCEPT !.checkedAt = at, !.streak = loaded.streak + 1]
    BY <1>2 DEF RecordValidationResult
  <2>2. loaded.streak + 1 \in Nat
    BY DEF Row
  <2>. QED  BY <2>1, <2>2 DEF Row
<1>3. CASE result # "unverifiable"
  <2>1. result \in Status
    BY <1>3 DEF Result, Decisive, Status
  <2>2. RecordValidationResult(loaded, result, at, up, total)
          = [loaded EXCEPT !.checkedAt = at, !.streak = 0, !.validatedAt = at,
                           !.status = result, !.confidence = c]
    BY <1>3 DEF RecordValidationResult, c
  <2>3. [loaded EXCEPT !.checkedAt = at, !.streak = 0] \in Row
    BY DEF Row
  <2>4. \A r \in Row : [r EXCEPT !.validatedAt = at, !.status = result] \in Row
    BY <2>1 DEF Row
  <2>5. \A r \in Row : [r EXCEPT !.confidence = c] \in Row
    BY <1>1 DEF Row
  <2>. QED  BY <2>2, <2>3, <2>4, <2>5
<1>. QED  BY <1>2, <1>3

LEMMA InitType == Init => TypeOK
<1>. SUFFICES ASSUME Init PROVE TypeOK
  OBVIOUS
<1>1. Idle \in SessionType
  BY DEF Idle, NewRow, SessionType, Row, Status, Never
<1>2. votes \in Tally
  BY DEF Init, Tally, Never
<1>. QED  BY <1>1, <1>2 DEF Init, TypeOK, NewRow, Row, Status, Never

LEMMA CommitType ==
  ASSUME TypeOK, NEW s \in Sessions, Commit(s)
  PROVE  TypeOK'
<1>1. session[s] \in SessionType /\ Idle \in SessionType
  BY DEF TypeOK, Idle, NewRow, SessionType, Row, Status, Never
<1>2. row' \in Row
  BY <1>1, FlushType DEF Commit, TypeOK, SessionType
<1>3. log' \subseteq Entry
  BY <1>1 DEF Commit, TypeOK, SessionType
<1>4. votes' \in Tally
  BY <1>1, CountAllType DEF Commit, TypeOK, SessionType
<1>8. supplier' \in {"listed", "suspended"}
  BY DEF Commit, TypeOK
<1>9. session' \in [Sessions -> SessionType]
  BY <1>1 DEF Commit, TypeOK
<1>. QED  BY <1>2, <1>3, <1>4, <1>8, <1>9 DEF Commit, TypeOK

LEMMA ValidatorChecksType ==
  ASSUME TypeOK, NEW s \in Sessions, NEW result \in Result, ValidatorChecks(s, result)
  PROVE  TypeOK'
<1>. DEFINE new == RecordValidationResult(session[s].loaded, result, now,
                                          votes.up, votes.total)
            made == {[at |-> now, result |-> result]}
<1>1. session[s] \in SessionType /\ now \in Nat
  BY DEF TypeOK
<1>2. new \in Row
  <2>1. votes.up \in Nat /\ votes.total \in Nat
    BY DEF TypeOK, Tally
  <2>. QED  BY <1>1, <2>1, RecordType DEF SessionType
<1>3. made \subseteq Entry
  BY <1>1 DEF Entry
<1>4. session' = [session EXCEPT ![s].task = "validate", ![s].new = new, ![s].entries = made]
  BY DEF ValidatorChecks
<1>. HIDE DEF new, made
<1>5. session' = [session EXCEPT ![s] = [session[s] EXCEPT !.task = "validate",
                                                          !.new = new, !.entries = made]]
  BY <1>4 DEF TypeOK
<1>6. [session[s] EXCEPT !.task = "validate", !.new = new, !.entries = made] \in SessionType
  BY <1>1, <1>2, <1>3 DEF SessionType
<1>7. session' \in [Sessions -> SessionType]
  BY <1>5, <1>6 DEF TypeOK
<1>. QED  BY <1>7 DEF ValidatorChecks, TypeOK

LEMMA SubmitFeedbackType ==
  ASSUME TypeOK, NEW s \in Sessions, NEW ip \in Ips, NEW worked \in BOOLEAN,
         SubmitFeedback(s, ip, worked)
  PROVE  TypeOK'
<1>. DEFINE ballots == IF Recent(ip) THEN {} ELSE {[ip |-> ip, worked |-> worked, at |-> now]}
            counted == CountAll(votes, ballots)
            c == ComputeConfidence(LatestValidation(log), counted.up, counted.total)
<1>2. ballots \subseteq Vote
  BY DEF TypeOK, Vote
<1>3. Prepare(s, "feedback", [row EXCEPT !.confidence = c], {}, ballots)
  BY DEF SubmitFeedback
<1>. HIDE DEF ballots
<1>4. counted \in Tally
  BY <1>2, CountAllType DEF TypeOK
<1>. HIDE DEF counted
<1>5. c \in Nat
  BY <1>4, ComputeConfidenceType DEF Tally
<1>. HIDE DEF c
<1>6. [row EXCEPT !.confidence = c] \in Row
  BY <1>5 DEF TypeOK, Row
<1>7. "feedback" \in Task /\ {} \in SUBSET Entry
  BY DEF Task
<1>. QED  BY <1>2, <1>3, <1>6, <1>7, PrepareType

(* The feeds, the import and the sweep change typed columns only.          *)
LEMMA FeedType ==
  ASSUME TypeOK, NEW s \in Sessions, Feed(s) \/ ExpireStale(s) \/ ValidatorLoads(s)
  PROVE  TypeOK'
<1>1. row \in Row /\ now \in Nat /\ EndDates \cup {Never} \subseteq Nat
  BY ParametersAssumption DEF TypeOK, Never
<1>2. ASSUME NEW ends \in EndDates \cup {Never}, Relist(s, ends)
      PROVE  TypeOK'
  <2>. DEFINE until == IF ends = Never THEN row.expiresAt ELSE ends
              seen == IF now > row.lastSeen THEN now ELSE row.lastSeen
              status == IF row.status = "expired" /\ ~(until # Never /\ until < now)
                        THEN "unverified" ELSE row.status
  <2>1. until \in Nat /\ seen \in Nat /\ status \in Status
    BY <1>1 DEF Row, Status
  <2>2. Prepare(s, "relist", [row EXCEPT !.lastSeen = seen, !.expiresAt = until,
                                         !.status = status], {}, {})
    BY <1>2 DEF Relist
  <2>. HIDE DEF until, seen, status
  <2>3. [row EXCEPT !.lastSeen = seen, !.expiresAt = until, !.status = status] \in Row
    BY <1>1, <2>1 DEF Row
  <2>. QED  BY <2>2, <2>3, PrepareType DEF Task
<1>3. CASE ExpireSuspended(s)
  <2>1. [row EXCEPT !.status = "expired"] \in Row
    BY <1>1 DEF Row, Status
  <2>. QED  BY <1>3, <2>1, PrepareType DEF ExpireSuspended, Task
<1>4. ASSUME NEW when \in EndDates, BackfillExpiry(s, when)
      PROVE  TypeOK'
  <2>. DEFINE status == IF row.status = "expired" /\ when > now THEN "unverified" ELSE row.status
  <2>1. when \in Nat /\ status \in Status
    BY <1>1 DEF Row, Status
  <2>2. Prepare(s, "backfill", [row EXCEPT !.expiresAt = when, !.status = status], {}, {})
    BY <1>4 DEF BackfillExpiry
  <2>. HIDE DEF status
  <2>3. [row EXCEPT !.expiresAt = when, !.status = status] \in Row
    BY <1>1, <2>1 DEF Row
  <2>. QED  BY <2>2, <2>3, PrepareType DEF Task
<1>5. CASE ExpireStale(s)
  <2>. DEFINE status == IF PastEndDate(row, now) \/ StaleAndUntrusted(row, now)
                        THEN "expired" ELSE row.status
  <2>1. status \in Status
    BY <1>1 DEF Row, Status
  <2>2. Prepare(s, "sweep", [row EXCEPT !.status = status], {}, {})
    BY <1>5 DEF ExpireStale
  <2>. HIDE DEF status
  <2>3. [row EXCEPT !.status = status] \in Row
    BY <1>1, <2>1 DEF Row
  <2>. QED  BY <2>2, <2>3, PrepareType DEF Task
<1>6. CASE ValidatorLoads(s)
  BY <1>1, <1>6, PrepareType DEF ValidatorLoads, Task
<1>. QED  BY <1>2, <1>3, <1>4, <1>5, <1>6 DEF Feed

LEMMA NextType == TypeOK /\ [Next]_vars => TypeOK'
<1>. SUFFICES ASSUME TypeOK, [Next]_vars PROVE TypeOK'
  OBVIOUS
<1>1. ASSUME NEW s \in Validators, Validation(s) PROVE TypeOK'
  <2>1. s \in Sessions
    BY DEF Sessions
  <2>. QED  BY <1>1, <2>1, FeedType, ValidatorChecksType DEF Validation
<1>2. ASSUME NEW s \in Voters, Feedback(s) PROVE TypeOK'
  <2>1. s \in Sessions
    BY DEF Sessions
  <2>. QED  BY <1>2, <2>1, SubmitFeedbackType DEF Feedback
<1>3. ASSUME NEW s \in Feeds, Feed(s) PROVE TypeOK'
  BY <1>3, FeedType DEF Sessions
<1>4. ASSUME NEW s \in Sweepers, ExpireStale(s) PROVE TypeOK'
  BY <1>4, FeedType DEF Sessions
<1>5. ASSUME NEW s \in Sessions, Commit(s) PROVE TypeOK'
  BY <1>5, CommitType
<1>6. ASSUME NEW s \in Sessions, Abort(s) PROVE TypeOK'
  <2>1. Idle \in SessionType
    BY DEF Idle, NewRow, SessionType, Row, Status, Never
  <2>. QED  BY <1>6, <2>1 DEF Abort, TypeOK
<1>7. CASE Tick
  BY <1>7 DEF Tick, TypeOK
<1>8. CASE UNCHANGED vars
  BY <1>8 DEF vars, TypeOK
<1>. QED  BY <1>1, <1>2, <1>3, <1>4, <1>5, <1>6, <1>7, <1>8 DEF Next

(* Every variable keeps its type, a tally of votes included.               *)
THEOREM TypeCorrect == Spec => []TypeOK
BY InitType, NextType, PTL DEF Spec


----------------------------------------------------------------------------
(* What a session may mean to write.  A bystander (a vote, a feed, a sweep)*)
(* keeps the columns of the check and never writes a verdict; a validation *)
(* job writes those of the one log entry it inserts.                       *)

KeepsVerdict(loaded, new) ==
  /\ new.validatedAt = loaded.validatedAt
  /\ new.streak = loaded.streak
  /\ new.status = loaded.status \/ new.status \notin Decisive

WritesResult(loaded, new, at, result) ==
  IF result = "unverifiable"
  THEN /\ new.status = loaded.status
       /\ new.validatedAt = loaded.validatedAt
       /\ new.streak = loaded.streak + 1
  ELSE new.status = result /\ new.validatedAt = at /\ new.streak = 0

WorkInv(u) ==
  /\ u.task # "validate" => u.entries = {} /\ KeepsVerdict(u.loaded, u.new)
  /\ u.task = "validate" =>
       \E at \in Nat, result \in Result :
         /\ u.entries = {[at |-> at, result |-> result]}
         /\ WritesResult(u.loaded, u.new, at, result)

SessionsInv == \A s \in Sessions : WorkInv(session[s])

LEMMA IdleWork == WorkInv(Idle)
BY DEF WorkInv, Idle, KeepsVerdict, NewRow

(* Every begin action of a handler loads the committed row, and all but the*)
(* check itself are bystanders.                                            *)
LEMMA BystanderPrepares ==
  ASSUME TypeOK, NEW s \in Sessions,
         \/ Feed(s) \/ ExpireStale(s) \/ ValidatorLoads(s) \/ Feedback(s)
  PROVE  \E task, new, ballots :
           /\ task \in Task \ {"none", "validate"}
           /\ Prepare(s, task, new, {}, ballots)
           /\ KeepsVerdict(row, new)
           /\ task = "checking" => new = row
           /\ task = "checking" <=> ValidatorLoads(s)
<1>1. row \in Row
  BY DEF TypeOK
<1>. DEFINE Goal(task, new, ballots) ==
              /\ Prepare(s, task, new, {}, ballots)
              /\ KeepsVerdict(row, new)
              /\ task = "checking" => new = row
              /\ task = "checking" <=> ValidatorLoads(s)
<1>2. ASSUME NEW task \in Task \ {"none", "validate", "checking"}, NEW new, NEW ballots,
             Prepare(s, task, new, {}, ballots), KeepsVerdict(row, new)
      PROVE  Goal(task, new, ballots)
  <2>1. session'[s].task = task
    BY <1>2 DEF Prepare, TypeOK
  <2>2. ValidatorLoads(s) => session'[s].task = "checking"
    BY DEF ValidatorLoads, Prepare, TypeOK
  <2>. QED  BY <1>2, <2>1, <2>2
<1>3. CASE Feed(s)
  <2>1. ASSUME NEW ends \in EndDates \cup {Never}, Relist(s, ends)
        PROVE  \E new : Prepare(s, "relist", new, {}, {}) /\ KeepsVerdict(row, new)
    <3>. DEFINE until == IF ends = Never THEN row.expiresAt ELSE ends
                seen == IF now > row.lastSeen THEN now ELSE row.lastSeen
                status == IF row.status = "expired" /\ ~(until # Never /\ until < now)
                          THEN "unverified" ELSE row.status
                new == [row EXCEPT !.lastSeen = seen, !.expiresAt = until, !.status = status]
    <3>1. Prepare(s, "relist", new, {}, {})
      BY <2>1 DEF Relist
    <3>2. status = row.status \/ status \notin Decisive
      BY DEF Decisive
    <3>. HIDE DEF until, seen, status
    <3>3. KeepsVerdict(row, new)
      BY <1>1, <3>2 DEF KeepsVerdict, Row
    <3>. QED  BY <3>1, <3>3
  <2>2. CASE ExpireSuspended(s)
    BY <1>1, <1>2, <2>2 DEF ExpireSuspended, KeepsVerdict, Row, Decisive, Task
  <2>3. ASSUME NEW when \in EndDates, BackfillExpiry(s, when)
        PROVE  \E new : Prepare(s, "backfill", new, {}, {}) /\ KeepsVerdict(row, new)
    <3>. DEFINE status == IF row.status = "expired" /\ when > now THEN "unverified"
                          ELSE row.status
                new == [row EXCEPT !.expiresAt = when, !.status = status]
    <3>1. Prepare(s, "backfill", new, {}, {})
      BY <2>3 DEF BackfillExpiry
    <3>2. status = row.status \/ status \notin Decisive
      BY DEF Decisive
    <3>. HIDE DEF status
    <3>3. KeepsVerdict(row, new)
      BY <1>1, <3>2 DEF KeepsVerdict, Row
    <3>. QED  BY <3>1, <3>3
  <2>. QED  BY <1>2, <1>3, <2>1, <2>2, <2>3 DEF Feed, Task
<1>4. CASE ExpireStale(s)
  BY <1>1, <1>2, <1>4 DEF ExpireStale, KeepsVerdict, Row, Decisive, Task
<1>5. CASE ValidatorLoads(s)
  BY <1>1, <1>5 DEF ValidatorLoads, KeepsVerdict, Task
<1>6. CASE Feedback(s)
  <2>1. PICK ip \in Ips, worked \in BOOLEAN : SubmitFeedback(s, ip, worked)
    BY <1>6 DEF Feedback
  <2>2. \A c : KeepsVerdict(row, [row EXCEPT !.confidence = c])
    BY <1>1 DEF KeepsVerdict, Row
  <2>3. \E c, ballots : Prepare(s, "feedback", [row EXCEPT !.confidence = c], {}, ballots)
    BY <2>1 DEF SubmitFeedback
  <2>. QED  BY <1>2, <2>2, <2>3 DEF Task
<1>. QED  BY <1>3, <1>4, <1>5, <1>6

(* A finished check writes the result it logs.                             *)
LEMMA CheckWrites ==
  ASSUME TypeOK, NEW s \in Sessions, NEW result \in Result, SessionsInv,
         ValidatorChecks(s, result)
  PROVE  /\ \A t \in Sessions \ {s} : session'[t] = session[t]
         /\ session[s].task = "checking" /\ session'[s].task = "validate"
         /\ session'[s].loaded = session[s].loaded
         /\ session'[s].entries = {[at |-> now, result |-> result]}
         /\ WritesResult(session[s].loaded, session'[s].new, now, result)
<1>. DEFINE new == RecordValidationResult(session[s].loaded, result, now,
                                          votes.up, votes.total)
            c == ComputeConfidence(result, votes.up, votes.total)
<1>1. session[s] \in SessionType /\ session[s].loaded \in Row
  BY DEF TypeOK, SessionType
<1>2. WritesResult(session[s].loaded, new, now, result)
  <2>1. CASE result = "unverifiable"
    BY <1>1, <2>1 DEF RecordValidationResult, WritesResult, Row
  <2>2. CASE result # "unverifiable"
    <3>1. new = [session[s].loaded EXCEPT !.checkedAt = now, !.streak = 0,
                    !.validatedAt = now, !.status = result, !.confidence = c]
      BY <2>2 DEF RecordValidationResult
    <3>. HIDE DEF new, c
    <3>2. new.status = result /\ new.validatedAt = now /\ new.streak = 0
      BY <1>1, <3>1 DEF Row
    <3>. QED  BY <2>2, <3>2 DEF WritesResult
  <2>. QED  BY <2>1, <2>2
<1>3. session' = [session EXCEPT ![s].task = "validate", ![s].new = new,
                                 ![s].entries = {[at |-> now, result |-> result]}]
  BY DEF ValidatorChecks
<1>. HIDE DEF new
<1>4. /\ session'[s].task = "validate" /\ session'[s].loaded = session[s].loaded
      /\ session'[s].new = new
      /\ session'[s].entries = {[at |-> now, result |-> result]}
  BY <1>1, <1>3 DEF TypeOK, SessionType
<1>5. \A t \in Sessions \ {s} : session'[t] = session[t]
  BY <1>3 DEF TypeOK
<1>. QED  BY <1>2, <1>4, <1>5 DEF ValidatorChecks

LEMMA NextSessions == TypeOK /\ SessionsInv /\ [Next]_vars => SessionsInv'
<1>. SUFFICES ASSUME TypeOK, SessionsInv, [Next]_vars PROVE SessionsInv'
  OBVIOUS
<1>. USE IdleWork
<1>1. ASSUME NEW s \in Sessions,
             Feed(s) \/ ExpireStale(s) \/ ValidatorLoads(s) \/ Feedback(s)
      PROVE  SessionsInv'
  <2>1. PICK task, new, ballots :
               /\ task \in Task \ {"none", "validate"}
               /\ Prepare(s, task, new, {}, ballots) /\ KeepsVerdict(row, new)
    BY <1>1, BystanderPrepares
  <2>2. WorkInv([task |-> task, loaded |-> row, new |-> new, entries |-> {}, ballots |-> ballots])
    BY <2>1 DEF WorkInv
  <2>. QED  BY <2>1, <2>2 DEF Prepare, SessionsInv, TypeOK
<1>2. ASSUME NEW s \in Sessions, NEW result \in Result, ValidatorChecks(s, result)
      PROVE  SessionsInv'
  <2>1. WorkInv(session'[s])
    BY <1>2, CheckWrites DEF WorkInv, TypeOK
  <2>. QED  BY <1>2, <2>1, CheckWrites DEF SessionsInv
<1>3. ASSUME NEW s \in Sessions, Commit(s) \/ Abort(s)
      PROVE  SessionsInv'
  BY <1>3 DEF Commit, Abort, SessionsInv, TypeOK
<1>4. CASE Tick \/ UNCHANGED vars
  BY <1>4 DEF Tick, vars, SessionsInv
<1>. QED
  BY <1>1, <1>2, <1>3, <1>4 DEF Next, Validation, Sessions

LEMMA InitSessions == Init => SessionsInv
BY IdleWork DEF Init, SessionsInv

----------------------------------------------------------------------------
(* Trust comes from checks only, whatever runs concurrently.               *)

LEMMA CommitVerdict ==
  ASSUME TypeOK, SessionsInv, NEW s \in Sessions, Commit(s)
  PROVE  LET u == session[s]
         IN  /\ row'.status = Column(row.status, u.loaded.status, u.new.status)
             /\ row'.validatedAt = Column(row.validatedAt, u.loaded.validatedAt, u.new.validatedAt)
             /\ row'.streak = Column(row.streak, u.loaded.streak, u.new.streak)
             /\ log' = log \cup u.entries
             /\ WorkInv(u)
             /\ u.task # "none" /\ u.task # "checking"
BY DEF Commit, Flush, SessionsInv

(* A verdict or a verification time on the row was given by a logged check.*)
THEOREM BadgeBacked == Spec => []BadgeBackedByCheck
<1>1. Init => BadgeBackedByCheck
  BY DEF Init, BadgeBackedByCheck, NewRow, Decisive, Never
<1>2. TypeOK /\ SessionsInv /\ BadgeBackedByCheck /\ [Next]_vars => BadgeBackedByCheck'
  <2>. SUFFICES ASSUME TypeOK, SessionsInv, BadgeBackedByCheck, [Next]_vars
                PROVE  BadgeBackedByCheck'
    OBVIOUS
  <2>1. ASSUME NEW s \in Sessions, Commit(s)
        PROVE  BadgeBackedByCheck'
    <3>. DEFINE u == session[s]
    <3>1. /\ row'.status = Column(row.status, u.loaded.status, u.new.status)
          /\ row'.validatedAt = Column(row.validatedAt, u.loaded.validatedAt, u.new.validatedAt)
          /\ log' = log \cup u.entries
          /\ WorkInv(u)
      BY <2>1, CommitVerdict
    <3>. HIDE DEF u
    <3>2. CASE u.task # "validate"
      BY <3>1, <3>2 DEF WorkInv, KeepsVerdict, Column, BadgeBackedByCheck, Checked
    <3>3. CASE u.task = "validate"
      <4>1. PICK at \in Nat, result \in Result :
                   /\ u.entries = {[at |-> at, result |-> result]}
                   /\ WritesResult(u.loaded, u.new, at, result)
        BY <3>1, <3>3 DEF WorkInv
      <4>2. [at |-> at, result |-> result] \in log'
        BY <3>1, <4>1
      <4>3. CASE result = "unverifiable"
        BY <3>1, <4>1, <4>3 DEF WritesResult, Column, BadgeBackedByCheck, Checked
      <4>4. CASE result # "unverifiable"
        <5>1. result \in Decisive
          BY <4>4 DEF Result
        <5>2. row'.status = row.status \/ row'.status = result
          BY <3>1, <4>1, <4>4 DEF WritesResult, Column
        <5>3. row'.validatedAt = row.validatedAt \/ row'.validatedAt = at
          BY <3>1, <4>1, <4>4 DEF WritesResult, Column
        <5>. QED  BY <3>1, <4>2, <5>1, <5>2, <5>3 DEF BadgeBackedByCheck, Checked
      <4>. QED  BY <4>3, <4>4
    <3>. QED  BY <3>2, <3>3
  <2>2. CASE UNCHANGED <<row, log>>
    BY <2>2 DEF BadgeBackedByCheck
  <2>3. \/ \E s \in Sessions : Commit(s)
        \/ UNCHANGED <<row, log>>
    BY DEF Next, Validation, Feedback, Feed, ValidatorLoads, ValidatorChecks, SubmitFeedback,
           Relist, ExpireSuspended, BackfillExpiry, ExpireStale, Prepare, Abort, Tick, vars
  <2>. QED  BY <2>1, <2>2, <2>3
<1>. QED  BY <1>1, <1>2, InitType, NextType, InitSessions, NextSessions, PTL DEF Spec

----------------------------------------------------------------------------
(* With one validation job outstanding at a time, the job owns the columns *)
(* of the check from its load to its commit, and a verdict on the row is   *)
(* the one it loaded; results are logged in the order of their times.      *)

OneJobAtATime == \A s, t \in Validators : s = t

InJob(u) == u.task \in {"checking", "validate"}

JobOwnsColumns ==
  \A s \in Sessions : InJob(session[s]) =>
    /\ s \in Validators
    /\ session[s].loaded.validatedAt = row.validatedAt
    /\ session[s].loaded.streak = row.streak
    /\ row.status \in Decisive => row.status = session[s].loaded.status

LogInOrder ==
  /\ now > 0
  /\ IsFiniteSet(log)
  /\ \A e \in log : e.at <= now
  /\ \A s \in Sessions : \A f \in session[s].entries :
       f.at > 0 /\ f.at <= now /\ \A e \in log : e.at < f.at

(* Every stamp on the row is an attempt in the log, or there is none.      *)
StampLogged ==
  row.validatedAt # Never => \E e \in log : e.at = row.validatedAt

JobInv == /\ TypeOK /\ SessionsInv
          /\ JobOwnsColumns /\ LogInOrder /\ StampLogged
          /\ RowShowsLastVerdict /\ StreakCountsInconclusive

LEMMA InitJob == Init => JobInv
<1>. SUFFICES ASSUME Init PROVE JobInv
  OBVIOUS
<1>1. row = NewRow /\ log = {} /\ now = 1 /\ \A s \in Sessions : session[s] = Idle
  BY DEF Init
<1>2. JobOwnsColumns
  BY <1>1 DEF JobOwnsColumns, InJob, Idle
<1>3. LogInOrder
  BY <1>1, FS_EmptySet DEF LogInOrder, Idle
<1>4. StampLogged /\ RowShowsLastVerdict
  BY <1>1 DEF StampLogged, RowShowsLastVerdict, NewRow, Never, Decisive
<1>5. {e \in log : e.at > row.validatedAt} = {}
  BY <1>1
<1>6. StreakCountsInconclusive
  BY <1>1, <1>5, FS_EmptySet DEF StreakCountsInconclusive, NewRow
<1>. QED  BY <1>2, <1>3, <1>4, <1>6, InitType, InitSessions DEF JobInv

(* A handler begins: nothing is committed, and a job loads the row as it is.*)
LEMMA BeginJob ==
  ASSUME JobInv, NEW s \in Sessions, ValidatorLoads(s) => s \in Validators,
         Feed(s) \/ ExpireStale(s) \/ ValidatorLoads(s) \/ Feedback(s)
  PROVE  /\ JobOwnsColumns' /\ LogInOrder' /\ UNCHANGED <<row, log>>
<1>1. PICK task, new, ballots :
             /\ task \in Task \ {"none", "validate"}
             /\ Prepare(s, task, new, {}, ballots)
             /\ KeepsVerdict(row, new)
             /\ task = "checking" => new = row
             /\ task = "checking" <=> ValidatorLoads(s)
  BY BystanderPrepares DEF JobInv
<1>. DEFINE u == [task |-> task, loaded |-> row, new |-> new, entries |-> {}, ballots |-> ballots]
<1>2. /\ session'[s] = u
      /\ \A t \in Sessions \ {s} : session'[t] = session[t]
      /\ UNCHANGED <<row, log, now>>
  BY <1>1 DEF Prepare, JobInv, TypeOK
<1>3. InJob(u) => s \in Validators
  BY <1>1 DEF InJob
<1>4. u.loaded = row /\ u.entries = {}
  OBVIOUS
<1>. HIDE DEF u
<1>5. JobOwnsColumns'
  BY <1>2, <1>3, <1>4 DEF JobInv, JobOwnsColumns, InJob
<1>6. LogInOrder'
  BY <1>2, <1>4 DEF JobInv, LogInOrder
<1>. QED  BY <1>2, <1>5, <1>6

(* A check ends: its result is later than everything logged.               *)
LEMMA CheckJob ==
  ASSUME JobInv, NEW s \in Sessions, NEW result \in Result, ValidatorChecks(s, result)
  PROVE  JobOwnsColumns' /\ LogInOrder' /\ UNCHANGED <<row, log>>
<1>1. /\ \A t \in Sessions \ {s} : session'[t] = session[t]
      /\ session[s].task = "checking"
      /\ session'[s].loaded = session[s].loaded
      /\ session'[s].entries = {[at |-> now, result |-> result]}
  BY CheckWrites DEF JobInv
<1>2. UNCHANGED <<row, log, now>> /\ \A e \in log : e.at # now
  BY DEF ValidatorChecks, Attempts
<1>3. JobOwnsColumns'
  BY <1>1, <1>2 DEF JobInv, JobOwnsColumns, InJob
<1>4. \A e \in log : e.at < now
  BY <1>2 DEF JobInv, LogInOrder, TypeOK, Entry
<1>5. LogInOrder'
  BY <1>1, <1>2, <1>4 DEF JobInv, LogInOrder, TypeOK
<1>. QED  BY <1>2, <1>3, <1>5

(* A bystander commits: no verdict appears, and the job's columns stay.    *)
LEMMA CommitBystander ==
  ASSUME JobInv, NEW s \in Sessions, Commit(s), session[s].task # "validate"
  PROVE  JobInv'
<1>1. /\ row'.status = row.status \/ row'.status \notin Decisive
      /\ row'.validatedAt = row.validatedAt
      /\ row'.streak = row.streak
      /\ log' = log
  BY CommitVerdict DEF JobInv, WorkInv, KeepsVerdict, Column
<1>2. /\ session'[s] = Idle /\ now' = now
      /\ \A t \in Sessions \ {s} : session'[t] = session[t]
  BY DEF Commit, JobInv, TypeOK
<1>3. JobOwnsColumns'
  BY <1>1, <1>2 DEF JobInv, JobOwnsColumns, InJob, Idle
<1>4. LogInOrder'
  BY <1>1, <1>2 DEF JobInv, LogInOrder, Idle
<1>5. StampLogged' /\ RowShowsLastVerdict'
  BY <1>1 DEF JobInv, StampLogged, RowShowsLastVerdict
<1>6. StreakCountsInconclusive'
  BY <1>1 DEF JobInv, StreakCountsInconclusive
<1>7. TypeOK' /\ SessionsInv'
  BY NextType, NextSessions DEF JobInv, Next
<1>. QED  BY <1>3, <1>4, <1>5, <1>6, <1>7 DEF JobInv

(* The job commits: its entry is the latest, and the row shows it.         *)
LEMMA CommitJob ==
  ASSUME OneJobAtATime, JobInv, NEW s \in Sessions, Commit(s), session[s].task = "validate"
  PROVE  JobInv'
<1>. DEFINE u == session[s]
<1>1. /\ row'.status = Column(row.status, u.loaded.status, u.new.status)
      /\ row'.validatedAt = Column(row.validatedAt, u.loaded.validatedAt, u.new.validatedAt)
      /\ row'.streak = Column(row.streak, u.loaded.streak, u.new.streak)
      /\ log' = log \cup u.entries
      /\ WorkInv(u)
  BY CommitVerdict DEF JobInv
<1>2. /\ s \in Validators
      /\ u.loaded.validatedAt = row.validatedAt
      /\ u.loaded.streak = row.streak
      /\ row.status \in Decisive => row.status = u.loaded.status
  BY DEF JobInv, JobOwnsColumns, InJob
<1>3. PICK at \in Nat, result \in Result :
             /\ u.entries = {[at |-> at, result |-> result]}
             /\ WritesResult(u.loaded, u.new, at, result)
  BY <1>1 DEF WorkInv
<1>4. /\ session'[s] = Idle /\ now' = now
      /\ \A t \in Sessions \ {s} : session'[t] = session[t]
  BY DEF Commit, JobInv, TypeOK
<1>. DEFINE new == [at |-> at, result |-> result]
<1>5. at > 0 /\ at <= now /\ \A e \in log : e.at < at
  <2>1. new \in session[s].entries
    BY <1>3
  <2>. QED  BY <2>1 DEF JobInv, LogInOrder
<1>6. /\ row.validatedAt \in Nat /\ row.streak \in Nat
      /\ \A e \in log : e.at \in Nat
      /\ row.validatedAt < at
  BY <1>5 DEF JobInv, TypeOK, Row, Entry, StampLogged, Never
<1>7. log' = log \cup {new}
  BY <1>1, <1>3
<1>. HIDE DEF u
<1>8. JobOwnsColumns'
  BY <1>2, <1>4 DEF JobInv, JobOwnsColumns, InJob, Idle, OneJobAtATime
<1>9. LogInOrder'
  <2>1. IsFiniteSet(log')
    BY <1>7, FS_AddElement DEF JobInv, LogInOrder
  <2>3. \A e \in log' : e.at <= now'
    BY <1>4, <1>5, <1>7 DEF JobInv, LogInOrder
  <2>2. \A t \in Sessions \ {s} : session[t].entries = {}
    <3>1. \A t \in Sessions \ {s} : session[t].task # "validate"
      BY <1>2 DEF JobInv, JobOwnsColumns, InJob, OneJobAtATime
    <3>. QED  BY <3>1 DEF JobInv, SessionsInv, WorkInv
  <2>. QED  BY <1>4, <2>1, <2>2, <2>3 DEF JobInv, LogInOrder, Idle
<1>10. TypeOK' /\ SessionsInv'
  BY NextType, NextSessions DEF JobInv, Next
<1>11. StampLogged' /\ RowShowsLastVerdict' /\ StreakCountsInconclusive'
  <2>1. CASE result = "unverifiable"
    <3>1. row'.status = row.status /\ row'.validatedAt = row.validatedAt
      BY <1>1, <1>3, <2>1 DEF WritesResult, Column
    <3>2. row'.streak = row.streak + 1
      BY <1>1, <1>2, <1>3, <1>6, <2>1 DEF WritesResult, Column
    <3>3. StampLogged' /\ RowShowsLastVerdict'
      BY <1>7, <2>1, <3>1 DEF JobInv, StampLogged, RowShowsLastVerdict, Decisive
    <3>. DEFINE since == {e \in log : e.at > row.validatedAt}
    <3>4. {e \in log' : e.at > row'.validatedAt} = since \cup {new}
      BY <1>6, <1>7, <3>1
    <3>5. new \notin since /\ IsFiniteSet(since)
      BY <1>5, <1>6, FS_Subset DEF JobInv, LogInOrder
    <3>6. Cardinality(since \cup {new}) = Cardinality(since) + 1
      BY <3>5, FS_AddElement
    <3>7. StreakCountsInconclusive'
      BY <3>2, <3>4, <3>6 DEF JobInv, StreakCountsInconclusive
    <3>. QED  BY <3>3, <3>7
  <2>2. CASE result # "unverifiable"
    <3>1. result \in Decisive /\ new.at = at /\ new.result = result
      BY <2>2 DEF Result
    <3>2. row'.validatedAt = at
      BY <1>1, <1>2, <1>3, <2>2 DEF WritesResult, Column
    <3>3. row'.status = result \/ row'.status \notin Decisive
      BY <1>1, <1>2, <1>3, <2>2 DEF WritesResult, Column
    <3>4. row'.streak = 0
      BY <1>1, <1>2, <1>3, <2>2 DEF WritesResult, Column
    <3>5. new \in log' /\ \A e \in log' : e.at <= at
      BY <1>5, <1>6, <1>7
    <3>6. StampLogged' /\ RowShowsLastVerdict'
      BY <3>1, <3>2, <3>3, <3>5 DEF StampLogged, RowShowsLastVerdict
    <3>7. {e \in log' : e.at > row'.validatedAt} = {}
      BY <1>6, <1>7, <3>2, <3>5
    <3>8. StreakCountsInconclusive'
      BY <3>4, <3>7, FS_EmptySet DEF StreakCountsInconclusive
    <3>. QED  BY <3>6, <3>8
  <2>. QED  BY <2>1, <2>2
<1>. QED  BY <1>8, <1>9, <1>10, <1>11 DEF JobInv

LEMMA NextJob == OneJobAtATime => (JobInv /\ [Next]_vars => JobInv')
<1>. SUFFICES ASSUME OneJobAtATime, JobInv, [Next]_vars PROVE JobInv'
  OBVIOUS
<1>1. TypeOK' /\ SessionsInv'
  BY NextType, NextSessions DEF JobInv
<1>2. ASSUME JobOwnsColumns', LogInOrder', UNCHANGED <<row, log>>
      PROVE  JobInv'
  BY <1>1, <1>2 DEF JobInv, StampLogged, RowShowsLastVerdict, StreakCountsInconclusive
<1>3. ASSUME NEW s \in Validators, Validation(s) PROVE JobInv'
  <2>1. s \in Sessions
    BY DEF Sessions
  <2>. QED  BY <1>2, <1>3, <2>1, BeginJob, CheckJob DEF Validation
<1>4. ASSUME NEW s \in Sessions \ Validators, Feedback(s) \/ Feed(s) \/ ExpireStale(s)
      PROVE  JobInv'
  <2>1. ASSUME ValidatorLoads(s) PROVE FALSE
    <3>1. PICK task, new, ballots :
                 task \in Task /\ Prepare(s, task, new, {}, ballots) /\ task # "checking"
      <4>1. CASE Feed(s)
        BY <4>1 DEF Feed, Relist, ExpireSuspended, BackfillExpiry, Task
      <4>2. CASE ExpireStale(s)
        BY <4>2 DEF ExpireStale, Task
      <4>3. CASE Feedback(s)
        BY <4>3 DEF Feedback, SubmitFeedback, Task
      <4>. QED  BY <1>4, <4>1, <4>2, <4>3
    <3>2. session'[s].task = task /\ session'[s].task = "checking"
      BY <2>1, <3>1 DEF ValidatorLoads, Prepare, JobInv, TypeOK
    <3>. QED  BY <3>1, <3>2
  <2>. QED  BY <1>2, <1>4, <2>1, BeginJob
<1>5. ASSUME NEW s \in Sessions, Commit(s) PROVE JobInv'
  BY <1>5, CommitJob, CommitBystander
<1>6. ASSUME NEW s \in Sessions, Abort(s) PROVE JobInv'
  <2>1. /\ session'[s] = Idle /\ UNCHANGED <<row, log, now>>
        /\ \A t \in Sessions \ {s} : session'[t] = session[t]
    BY <1>6 DEF Abort, JobInv, TypeOK
  <2>2. JobOwnsColumns' /\ LogInOrder'
    BY <2>1 DEF JobInv, JobOwnsColumns, LogInOrder, InJob, Idle
  <2>. QED  BY <1>2, <2>1, <2>2
<1>7. CASE Tick
  BY <1>2, <1>7 DEF Tick, JobInv, JobOwnsColumns, LogInOrder, TypeOK, Entry, SessionType
<1>8. CASE UNCHANGED vars
  BY <1>2, <1>8 DEF vars, JobInv, JobOwnsColumns, LogInOrder
<1>9. \A s \in Voters \cup Feeds \cup Sweepers : s \in Sessions \ Validators
  BY SessionsAssumption DEF Sessions
<1>. QED  BY <1>3, <1>4, <1>5, <1>6, <1>7, <1>8, <1>9 DEF Next

LEMMA JobInvariant ==
  ASSUME OneJobAtATime PROVE Spec => []JobInv
BY OneJobAtATime, InitJob, NextJob, PTL DEF Spec

(* With one outstanding job the row shows the last verdict and its stamp.  *)
THEOREM LastVerdictShown ==
  ASSUME OneJobAtATime PROVE Spec => []RowShowsLastVerdict
<1>1. JobInv => RowShowsLastVerdict
  BY DEF JobInv
<1>. QED  BY <1>1, JobInvariant, PTL

(* With one outstanding job the circuit breaker's count loses no attempt.  *)
THEOREM StreakExact ==
  ASSUME OneJobAtATime PROVE Spec => []StreakCountsInconclusive
<1>1. JobInv => StreakCountsInconclusive
  BY DEF JobInv
<1>. QED  BY <1>1, JobInvariant, PTL

(* With one outstanding job the default listing serves verified codes only.*)
THEOREM OnlyVerifiedServed ==
  ASSUME OneJobAtATime PROVE Spec => []ServedWasVerified
<1>1. RowShowsLastVerdict => ServedWasVerified
  BY DEF RowShowsLastVerdict, ServedWasVerified, Served, Decisive
<1>. QED  BY <1>1, LastVerdictShown, PTL

----------------------------------------------------------------------------
(* A check that a session is about to log is logged nowhere yet, so what   *)
(* its commit writes is always accompanied by a new entry.                 *)

EntriesFresh ==
  \A s \in Sessions : \A e \in session[s].entries :
    e \notin log /\ \A t \in Sessions \ {s} : e \notin session[t].entries

LEMMA NextFresh == TypeOK /\ SessionsInv /\ EntriesFresh /\ [Next]_vars => EntriesFresh'
<1>. SUFFICES ASSUME TypeOK, SessionsInv, EntriesFresh, [Next]_vars PROVE EntriesFresh'
  OBVIOUS
<1>1. ASSUME NEW s \in Sessions,
             Feed(s) \/ ExpireStale(s) \/ ValidatorLoads(s) \/ Feedback(s)
      PROVE  EntriesFresh'
  <2>1. PICK task, new, ballots : Prepare(s, task, new, {}, ballots)
    BY <1>1, BystanderPrepares
  <2>2. log' = log /\ \A t \in Sessions : session'[t].entries = IF t = s THEN {} ELSE session[t].entries
    BY <2>1 DEF Prepare, TypeOK
  <2>. QED  BY <2>2 DEF EntriesFresh
<1>2. ASSUME NEW s \in Sessions, NEW result \in Result, ValidatorChecks(s, result)
      PROVE  EntriesFresh'
  <2>. DEFINE entry == [at |-> now, result |-> result]
  <2>1. /\ log' = log
        /\ \A t \in Sessions : session'[t].entries = IF t = s THEN {entry} ELSE session[t].entries
    <3>1. session'[s].entries = {entry} /\ \A t \in Sessions \ {s} : session'[t] = session[t]
      BY <1>2, CheckWrites
    <3>2. log' = log
      BY <1>2 DEF ValidatorChecks
    <3>. HIDE DEF entry
    <3>. QED  BY <3>1, <3>2
  <2>2. entry \notin Attempts
    BY <1>2 DEF ValidatorChecks
  <2>3. entry \notin log /\ \A t \in Sessions : entry \notin session[t].entries
    BY <2>2 DEF Attempts
  <2>. HIDE DEF entry
  <2>. QED  BY <2>1, <2>3 DEF EntriesFresh
<1>3. ASSUME NEW s \in Sessions, Commit(s) \/ Abort(s)
      PROVE  EntriesFresh'
  <2>1. \A t \in Sessions : session'[t].entries = IF t = s THEN {} ELSE session[t].entries
    BY <1>3 DEF Commit, Abort, Idle, TypeOK
  <2>2. log' \subseteq log \cup session[s].entries
    BY <1>3 DEF Commit, Abort
  <2>. QED  BY <2>1, <2>2 DEF EntriesFresh
<1>4. CASE Tick \/ UNCHANGED vars
  BY <1>4 DEF Tick, vars, EntriesFresh
<1>. QED
  BY <1>1, <1>2, <1>3, <1>4 DEF Next, Validation, Sessions

(* A suspended coupon that no feed lists again shows as valid only by a    *)
(* check that commits then: no session that loaded the row before brings   *)
(* the badge back (pipeline.py:263).                                       *)
THEOREM RevivalNeedsCheck == Spec => RevivedByCheck
<1>1. Init => EntriesFresh
  BY DEF Init, Idle, EntriesFresh
<1>2. ASSUME TypeOK, SessionsInv, EntriesFresh, [Next]_vars,
             row.status # "valid", row'.status = "valid"
      PROVE  \E e \in log' \ log : e.result = "valid"
  <2>1. \/ \E s \in Sessions : Commit(s)
        \/ UNCHANGED row
    BY <1>2 DEF Next, Validation, Feedback, Feed, ValidatorLoads, ValidatorChecks, SubmitFeedback,
           Relist, ExpireSuspended, BackfillExpiry, ExpireStale, Prepare, Abort, Tick, vars
  <2>2. PICK s \in Sessions : Commit(s)
    BY <1>2, <2>1
  <2>. DEFINE u == session[s]
  <2>3. /\ row'.status = Column(row.status, u.loaded.status, u.new.status)
        /\ log' = log \cup u.entries
        /\ WorkInv(u)
    BY <1>2, <2>2, CommitVerdict
  <2>4. \A e \in u.entries : e \notin log
    BY <1>2 DEF EntriesFresh
  <2>. HIDE DEF u
  <2>5. u.new.status = "valid" /\ u.loaded.status # "valid"
    BY <1>2, <2>3 DEF Column
  <2>6. u.task = "validate"
    BY <2>3, <2>5 DEF WorkInv, KeepsVerdict, Decisive
  <2>7. PICK at \in Nat, result \in Result :
               /\ u.entries = {[at |-> at, result |-> result]}
               /\ WritesResult(u.loaded, u.new, at, result)
    BY <2>3, <2>6 DEF WorkInv
  <2>8. result = "valid"
    BY <2>5, <2>7 DEF WritesResult
  <2>. QED  BY <2>3, <2>4, <2>7, <2>8
<1>3. TypeOK /\ SessionsInv /\ EntriesFresh /\ [Next]_vars
        => [(supplier = "suspended" /\ supplier' = "suspended"
               /\ row.status # "valid" /\ row'.status = "valid")
            => \E e \in log' \ log : e.result = "valid"]_vars
  BY <1>2
<1>. QED
  BY <1>1, <1>3, InitType, NextType, InitSessions, NextSessions, NextFresh, PTL
     DEF Spec, RevivedByCheck

----------------------------------------------------------------------------
(* The check times and last_seen never go back, as long as one session at a*)
(* time writes each of them: one validation job, one feed.  A session then *)
(* writes a time that is not before the row's, although it computed it from*)
(* a copy, because nobody else has moved the column since.                 *)

OneFeedAtATime == \A s, t \in Feeds : s = t

ClockKept(loaded, new, seen) == new = loaded \/ (seen <= new /\ new <= now)

ClockWork(s, u) ==
  /\ ClockKept(u.loaded.checkedAt, u.new.checkedAt, row.checkedAt)
  /\ ClockKept(u.loaded.validatedAt, u.new.validatedAt, row.validatedAt)
  /\ ClockKept(u.loaded.lastSeen, u.new.lastSeen, row.lastSeen)
  /\ s \notin Validators =>
       u.new.checkedAt = u.loaded.checkedAt /\ u.new.validatedAt = u.loaded.validatedAt
  /\ s \notin Feeds => u.new.lastSeen = u.loaded.lastSeen

ClockInv ==
  /\ row.checkedAt <= now /\ row.validatedAt <= now /\ row.lastSeen <= now
  /\ \A s \in Sessions : ClockWork(s, session[s])

LEMMA ClockPrepares ==
  ASSUME TypeOK, NEW s \in Sessions,
         (s \in Feeds /\ Feed(s)) \/ ExpireStale(s) \/ ValidatorLoads(s) \/ Feedback(s)
  PROVE  \E task, new, ballots :
           /\ Prepare(s, task, new, {}, ballots)
           /\ new.checkedAt = row.checkedAt /\ new.validatedAt = row.validatedAt
           /\ new.lastSeen = row.lastSeen \/ (s \in Feeds /\ new.lastSeen = now /\ row.lastSeen < now)
<1>1. row \in Row /\ now \in Nat
  BY DEF TypeOK
<1>. DEFINE Goal(new) ==
       /\ new.checkedAt = row.checkedAt /\ new.validatedAt = row.validatedAt
       /\ new.lastSeen = row.lastSeen \/ (s \in Feeds /\ new.lastSeen = now /\ row.lastSeen < now)
<1>2. CASE s \in Feeds /\ Feed(s)
  <2>1. ASSUME NEW ends \in EndDates \cup {Never}, Relist(s, ends)
        PROVE  \E new : Prepare(s, "relist", new, {}, {}) /\ Goal(new)
    <3>. DEFINE until == IF ends = Never THEN row.expiresAt ELSE ends
                seen == IF now > row.lastSeen THEN now ELSE row.lastSeen
                status == IF row.status = "expired" /\ ~(until # Never /\ until < now)
                          THEN "unverified" ELSE row.status
                new == [row EXCEPT !.lastSeen = seen, !.expiresAt = until, !.status = status]
    <3>1. Prepare(s, "relist", new, {}, {})
      BY <2>1 DEF Relist
    <3>2. seen = row.lastSeen \/ (seen = now /\ row.lastSeen < now)
      BY <1>1 DEF Row
    <3>. HIDE DEF until, seen, status
    <3>3. Goal(new)
      BY <1>1, <1>2, <3>2 DEF Row
    <3>. QED  BY <3>1, <3>3
  <2>2. CASE ExpireSuspended(s)
    <3>1. Goal([row EXCEPT !.status = "expired"])
      BY <1>1 DEF Row
    <3>. QED  BY <2>2, <3>1 DEF ExpireSuspended
  <2>3. ASSUME NEW when \in EndDates, BackfillExpiry(s, when)
        PROVE  \E new : Prepare(s, "backfill", new, {}, {}) /\ Goal(new)
    <3>. DEFINE status == IF row.status = "expired" /\ when > now THEN "unverified"
                          ELSE row.status
                new == [row EXCEPT !.expiresAt = when, !.status = status]
    <3>1. Prepare(s, "backfill", new, {}, {})
      BY <2>3 DEF BackfillExpiry
    <3>. HIDE DEF status
    <3>2. Goal(new)
      BY <1>1 DEF Row
    <3>. QED  BY <3>1, <3>2
  <2>. QED  BY <1>2, <2>1, <2>2, <2>3 DEF Feed
<1>3. CASE ExpireStale(s)
  <2>1. \A status : Goal([row EXCEPT !.status = status])
    BY <1>1 DEF Row
  <2>2. \E status : Prepare(s, "sweep", [row EXCEPT !.status = status], {}, {})
    BY <1>3 DEF ExpireStale
  <2>. QED  BY <2>1, <2>2
<1>4. CASE ValidatorLoads(s)
  BY <1>4 DEF ValidatorLoads
<1>5. CASE Feedback(s)
  <2>1. PICK ip \in Ips, worked \in BOOLEAN : SubmitFeedback(s, ip, worked)
    BY <1>5 DEF Feedback
  <2>2. \A c : Goal([row EXCEPT !.confidence = c])
    BY <1>1 DEF Row
  <2>3. \E c, ballots : Prepare(s, "feedback", [row EXCEPT !.confidence = c], {}, ballots)
    BY <2>1 DEF SubmitFeedback
  <2>. QED  BY <2>2, <2>3
<1>. QED  BY <1>2, <1>3, <1>4, <1>5

(* The times a finished check writes, on the copy the job loaded.          *)
LEMMA CheckClocks ==
  ASSUME TypeOK, NEW s \in Sessions, NEW result \in Result, ValidatorChecks(s, result)
  PROVE  /\ session'[s].loaded = session[s].loaded
         /\ session'[s].new.checkedAt = now
         /\ session'[s].new.validatedAt \in {session[s].loaded.validatedAt, now}
         /\ session'[s].new.lastSeen = session[s].loaded.lastSeen
         /\ \A t \in Sessions \ {s} : session'[t] = session[t]
<1>. DEFINE loaded == session[s].loaded
            new == RecordValidationResult(loaded, result, now, votes.up, votes.total)
            c == ComputeConfidence(result, votes.up, votes.total)
<1>1. session[s] \in SessionType /\ loaded \in Row
  BY DEF TypeOK, SessionType
<1>2. session' = [session EXCEPT ![s].task = "validate", ![s].new = new,
                                 ![s].entries = {[at |-> now, result |-> result]}]
  BY DEF ValidatorChecks
<1>3. new = IF result = "unverifiable"
            THEN [loaded EXCEPT !.checkedAt = now, !.streak = loaded.streak + 1]
            ELSE [loaded EXCEPT !.checkedAt = now, !.streak = 0, !.validatedAt = now,
                                !.status = result, !.confidence = c]
  BY DEF RecordValidationResult
<1>. HIDE DEF new, c, loaded
<1>4. /\ new.checkedAt = now /\ new.validatedAt \in {loaded.validatedAt, now}
      /\ new.lastSeen = loaded.lastSeen
  BY <1>1, <1>3 DEF Row
<1>5. session'[s].loaded = session[s].loaded /\ session'[s].new = new
      /\ \A t \in Sessions \ {s} : session'[t] = session[t]
  BY <1>1, <1>2 DEF TypeOK, SessionType
<1>. QED  BY <1>4, <1>5 DEF loaded

LEMMA NextClock ==
  ASSUME OneJobAtATime, OneFeedAtATime, TypeOK, ClockInv, [Next]_vars
  PROVE  /\ ClockInv'
         /\ row'.validatedAt >= row.validatedAt
         /\ row'.checkedAt >= row.checkedAt
         /\ row'.lastSeen >= row.lastSeen
<1>. DEFINE Advance == /\ row'.validatedAt >= row.validatedAt
                       /\ row'.checkedAt >= row.checkedAt
                       /\ row'.lastSeen >= row.lastSeen
<1>1. /\ now \in Nat /\ row \in Row /\ session \in [Sessions -> SessionType]
      /\ row.checkedAt \in Nat /\ row.validatedAt \in Nat /\ row.lastSeen \in Nat
  BY DEF TypeOK, Row
<1>2. \A s \in Sessions :
        /\ session[s].new.checkedAt \in Nat /\ session[s].new.validatedAt \in Nat
        /\ session[s].new.lastSeen \in Nat
  BY <1>1 DEF SessionType, Row
<1>3. ASSUME NEW s \in Sessions,
             (s \in Feeds /\ Feed(s)) \/ ExpireStale(s) \/ ValidatorLoads(s) \/ Feedback(s)
      PROVE  ClockInv' /\ Advance
  <2>1. PICK task, new, ballots :
           /\ Prepare(s, task, new, {}, ballots)
           /\ new.checkedAt = row.checkedAt /\ new.validatedAt = row.validatedAt
           /\ new.lastSeen = row.lastSeen \/ (s \in Feeds /\ new.lastSeen = now /\ row.lastSeen < now)
    BY <1>3, ClockPrepares
  <2>2. /\ row' = row /\ now' = now
        /\ session'[s].loaded = row /\ session'[s].new = new
        /\ \A t \in Sessions \ {s} : session'[t] = session[t]
    BY <1>1, <2>1 DEF Prepare
  <2>3. ClockWork(s, session[s])'
    BY <1>1, <2>1, <2>2 DEF ClockWork, ClockKept
  <2>4. \A t \in Sessions \ {s} : ClockWork(t, session[t])'
    BY <2>2 DEF ClockInv, ClockWork, ClockKept
  <2>. QED  BY <1>1, <2>2, <2>3, <2>4 DEF ClockInv
<1>4. ASSUME NEW s \in Validators, NEW result \in Result, ValidatorChecks(s, result)
      PROVE  ClockInv' /\ Advance
  <2>1. s \in Sessions /\ s \notin Feeds
    BY SessionsAssumption DEF Sessions
  <2>2. row' = row /\ now' = now
    BY <1>4 DEF ValidatorChecks
  <2>3. ClockWork(s, session[s])'
    BY <1>1, <1>4, <2>1, <2>2, CheckClocks DEF ClockInv, ClockWork, ClockKept
  <2>4. \A t \in Sessions \ {s} : ClockWork(t, session[t])'
    BY <1>4, <2>1, <2>2, CheckClocks DEF ClockInv, ClockWork, ClockKept
  <2>. QED  BY <1>1, <2>2, <2>3, <2>4 DEF ClockInv
<1>5. ASSUME NEW s \in Sessions, Commit(s)
      PROVE  ClockInv' /\ Advance
  <2>. DEFINE u == session[s]
  <2>1. /\ row'.checkedAt = Column(row.checkedAt, u.loaded.checkedAt, u.new.checkedAt)
        /\ row'.validatedAt = Column(row.validatedAt, u.loaded.validatedAt, u.new.validatedAt)
        /\ row'.lastSeen = Column(row.lastSeen, u.loaded.lastSeen, u.new.lastSeen)
    BY <1>5 DEF Commit, Flush
  <2>2. ClockWork(s, u)
    BY DEF ClockInv
  <2>3. now' = now /\ session'[s] = Idle /\ \A t \in Sessions \ {s} : session'[t] = session[t]
    BY <1>1, <1>5 DEF Commit
  <2>4. Idle.new = Idle.loaded
    BY DEF Idle
  <2>. HIDE DEF u
  <2>5. Advance
    BY <1>1, <2>1, <2>2 DEF ClockWork, ClockKept, Column
  <2>6. row'.checkedAt <= now /\ row'.validatedAt <= now /\ row'.lastSeen <= now
    BY <1>1, <2>1, <2>2 DEF ClockInv, ClockWork, ClockKept, Column
  <2>7. ASSUME NEW t \in Sessions, t # s PROVE ClockWork(t, session[t])'
    <3>1. ClockWork(t, session[t]) /\ session'[t] = session[t]
      BY <2>3, <2>7 DEF ClockInv
    <3>2. CASE s \in Validators
      <4>1. t \notin Validators
        BY <2>7, <3>2 DEF OneJobAtATime
      <4>2. s \notin Feeds
        BY <3>2, SessionsAssumption
      <4>3. row'.lastSeen = row.lastSeen
        BY <2>1, <2>2, <4>2 DEF ClockWork, Column
      <4>. QED  BY <2>3, <3>1, <4>1, <4>3 DEF ClockWork, ClockKept
    <3>3. CASE s \notin Validators
      <4>1. row'.checkedAt = row.checkedAt /\ row'.validatedAt = row.validatedAt
        BY <2>1, <2>2, <3>3 DEF ClockWork, Column
      <4>2. CASE s \in Feeds
        <5>1. t \notin Feeds
          BY <2>7, <4>2 DEF OneFeedAtATime
        <5>. QED  BY <2>3, <3>1, <4>1, <5>1 DEF ClockWork, ClockKept
      <4>3. CASE s \notin Feeds
        <5>1. row'.lastSeen = row.lastSeen
          BY <2>1, <2>2, <4>3 DEF ClockWork, Column
        <5>. QED  BY <2>3, <3>1, <4>1, <5>1 DEF ClockWork, ClockKept
      <4>. QED  BY <4>2, <4>3
    <3>. QED  BY <3>2, <3>3
  <2>8. ClockWork(s, session[s])'
    BY <2>3, <2>4 DEF ClockWork, ClockKept
  <2>. QED  BY <2>3, <2>5, <2>6, <2>7, <2>8 DEF ClockInv
<1>6. ASSUME NEW s \in Sessions, Abort(s)
      PROVE  ClockInv' /\ Advance
  <2>1. /\ row' = row /\ now' = now /\ session'[s] = Idle
        /\ \A t \in Sessions \ {s} : session'[t] = session[t]
    BY <1>1, <1>6 DEF Abort
  <2>2. Idle.new = Idle.loaded
    BY DEF Idle
  <2>3. \A t \in Sessions : ClockWork(t, session[t])'
    BY <2>1, <2>2 DEF ClockInv, ClockWork, ClockKept
  <2>. QED  BY <1>1, <2>1, <2>3 DEF ClockInv
<1>7. CASE Tick \/ UNCHANGED vars
  <2>1. row' = row /\ session' = session /\ (now' = now \/ now' = now + 1)
    BY <1>7 DEF Tick, vars
  <2>2. \A t \in Sessions : ClockWork(t, session[t])'
    BY <1>1, <1>2, <2>1 DEF ClockInv, ClockWork, ClockKept
  <2>. QED  BY <1>1, <2>1, <2>2 DEF ClockInv
<1>. QED
  BY <1>3, <1>4, <1>5, <1>6, <1>7 DEF Next, Validation, Sessions

(* With one validation job and one feed session at a time, no commit of a  *)
(* copy, however old, takes a check time or last_seen back (pipeline.py:126 *)
(* and validation.py:127 write what they computed from the row they read). *)
THEOREM ClocksNeverGoBack == (OneJobAtATime /\ OneFeedAtATime) => (Spec => ClocksAdvance)
<1>. SUFFICES ASSUME OneJobAtATime, OneFeedAtATime PROVE Spec => ClocksAdvance
  OBVIOUS
<1>1. Init => ClockInv
  <2>. SUFFICES ASSUME Init PROVE ClockInv
    OBVIOUS
  <2>1. row = NewRow /\ now = 1 /\ \A s \in Sessions : session[s] = Idle
    BY DEF Init
  <2>2. Idle.new = Idle.loaded
    BY DEF Idle
  <2>. QED  BY <2>1, <2>2 DEF ClockInv, ClockWork, ClockKept, NewRow, Never
<1>2. TypeOK /\ ClockInv /\ [Next]_vars => ClockInv'
  BY NextClock
<1>3. TypeOK /\ ClockInv /\ [Next]_vars
        => [/\ row'.validatedAt >= row.validatedAt
            /\ row'.checkedAt >= row.checkedAt
            /\ row'.lastSeen >= row.lastSeen]_vars
  BY NextClock
<1>. QED  BY <1>1, <1>2, <1>3, InitType, NextType, PTL DEF Spec, ClocksAdvance

----------------------------------------------------------------------------
(***************************************************************************)
(* However many votes arrive and however votes, checks, feeds and sweeps   *)
(* overlap, the crowd never weighs more than a check.                      *)
(***************************************************************************)

----------------------------------------------------------------------------
(* The arithmetic of compute_confidence.                                   *)

(* Half-way at most between what the check gives and certainty.            *)
Half(b, c) == b <= 2 * c + 1 /\ 2 * c <= b + 10001

(* What div means.                                                         *)
LEMMA RoundedBounds ==
  ASSUME NEW num \in Nat, NEW den \in Nat \ {0}
  PROVE  /\ Rounded(num, den) \in Nat
         /\ (2 * den) * Rounded(num, den) <= 2 * num + den
         /\ 2 * num + den < (2 * den) * (Rounded(num, den) + 1)
<1>1. ASSUME NEW p \in Nat, NEW q \in Nat, q > 0
      PROVE  q * (p \div q) <= p /\ p < q * ((p \div q) + 1)
  BY <1>1
<1>2. 2 * num + den \in Nat /\ 2 * den \in Nat /\ 2 * den > 0
  OBVIOUS
<1>. QED  BY <1>1, <1>2, RoundedType DEF Rounded

LEMMA TimesMonotone ==
  ASSUME NEW t \in Nat, NEW a \in Nat, NEW b \in Nat, a <= b
  PROVE  t * a <= t * b
OBVIOUS

(* A fraction half-way at most stays so when it is rounded.                *)
LEMMA HalfWhenRounded ==
  ASSUME NEW b \in Nat, NEW num \in Nat, NEW den \in Nat \ {0},
         den * b <= 2 * num + den, 2 * num <= den * b + 10000 * den
  PROVE  Half(b, Rounded(num, den))
<1>. DEFINE q == Rounded(num, den)
<1>1. /\ q \in Nat
      /\ (2 * den) * q <= 2 * num + den
      /\ 2 * num + den < (2 * den) * (q + 1)
  BY RoundedBounds
<1>. HIDE DEF q
<1>2. b <= 2 * q + 1
  <2>. SUFFICES ASSUME 2 * q + 2 <= b PROVE FALSE
    BY <1>1
  <2>1. den * (2 * q + 2) <= den * b
    BY <1>1, TimesMonotone
  <2>2. (2 * den) * (q + 1) = den * (2 * q + 2)
    BY <1>1
  <2>. DEFINE x == den * (2 * q + 2)
              y == den * b
  <2>3. x \in Nat /\ y \in Nat
    BY <1>1
  <2>4. 2 * num + den < x /\ x <= y /\ y <= 2 * num + den
    BY <1>1, <2>1, <2>2
  <2>. HIDE DEF x, y
  <2>. QED  BY <2>3, <2>4
<1>3. 2 * q <= b + 10001
  <2>. SUFFICES ASSUME b + 10002 <= 2 * q PROVE FALSE
    BY <1>1
  <2>1. den * (b + 10002) <= den * (2 * q)
    BY <1>1, TimesMonotone
  <2>. DEFINE x == den * (2 * q)
              y == den * b
  <2>2. den * (b + 10002) = y + 10002 * den /\ (2 * den) * q = x
    BY <1>1
  <2>3. x \in Nat /\ y \in Nat
    BY <1>1
  <2>4. /\ y + 10002 * den <= x
        /\ x <= 2 * num + den
        /\ 2 * num <= y + 10000 * den
    BY <1>1, <2>1, <2>2
  <2>. HIDE DEF x, y
  <2>. QED  BY <2>3, <2>4
<1>4. Half(b, q)
  BY <1>2, <1>3 DEF Half
<1>. QED  BY <1>4 DEF q

(* compute_confidence of any result and any votes: up to five of them the  *)
(* weight is n/(n+5), each n a linear case; beyond, it is one half.        *)
LEMMA ConfidenceIsHalf ==
  ASSUME NEW result, NEW total \in Nat, NEW up \in 0 .. total
  PROVE  Half(Base(result), ComputeConfidence(result, up, total))
<1>. DEFINE b == Base(result)
            c == ComputeConfidence(result, up, total)
<1>. SUFFICES Half(b, c)
  OBVIOUS
<1>1. b \in 0 .. 10000 /\ b \in Nat
  BY DEF Base
<1>2. CASE total = 0
  <2>1. c = b
    BY <1>2 DEF ComputeConfidence
  <2>. HIDE DEF b, c
  <2>. QED  BY <1>1, <2>1 DEF Half
<1>3. CASE total # 0 /\ total <= 5
  <2>. DEFINE num == 5 * b + 10000 * up
              den == total + 5
  <2>1. c = Rounded(num, den)
    BY <1>3 DEF ComputeConfidence
  <2>. HIDE DEF b, c
  <2>2. num \in Nat /\ den \in Nat \ {0}
    BY <1>1
  <2>3. den * b <= 2 * num + den /\ 2 * num <= den * b + 10000 * den
    <3>1. total = 1 \/ total = 2 \/ total = 3 \/ total = 4 \/ total = 5
      BY <1>3
    <3>. QED  BY <1>1, <3>1
  <2>. HIDE DEF num, den
  <2>. QED  BY <1>1, <2>1, <2>2, <2>3, HalfWhenRounded
<1>4. CASE total # 0 /\ ~(total <= 5)
  <2>. DEFINE y == total * b
              num == y + 10000 * up
              den == 2 * total
  <2>1. c = Rounded(num, den)
    BY <1>4 DEF ComputeConfidence
  <2>. HIDE DEF b, c
  <2>2. y \in Nat /\ den \in Nat \ {0} /\ den * b = 2 * y
    BY <1>1, <1>4
  <2>. HIDE DEF y
  <2>3. num \in Nat /\ 2 * y <= 2 * num + den /\ 2 * num <= 2 * y + 10000 * den
    BY <2>2
  <2>. HIDE DEF num, den
  <2>. QED  BY <1>1, <2>1, <2>2, <2>3, HalfWhenRounded
<1>. QED  BY <1>2, <1>3, <1>4

----------------------------------------------------------------------------
(* The votes, the latest entry, and what a session means to write.         *)

(* No more votes worked than were cast.                                    *)
LEMMA CountKeepsShare ==
  ASSUME NEW tally \in Tally, NEW ballots \in SUBSET Vote, tally.up <= tally.total
  PROVE  CountAll(tally, ballots).up <= CountAll(tally, ballots).total
BY DEF CountAll, Count, Tally

(* The latest validation_log entry exists, so its result is one of the log.*)
HasLatest == log # {} => \E e \in log : \A f \in log : f.at <= e.at

(* A score that some logged check, or none, explains.                      *)
Explained(c, entries) ==
  \E result \in {"none"} \cup {e.result : e \in entries} : Half(Base(result), c)

ScoreInv(u) ==
  u.new.confidence # u.loaded.confidence => Explained(u.new.confidence, log \cup u.entries)

CrowdInv ==
  /\ votes.up <= votes.total
  /\ HasLatest
  /\ \A s \in Sessions : ScoreInv(session[s])
  /\ CrowdWeighsAtMostHalf

LEMMA LatestIsLogged ==
  ASSUME HasLatest
  PROVE  LatestValidation(log) \in {"none"} \cup {e.result : e \in log}
<1>1. CASE log = {}
  BY <1>1 DEF LatestValidation
<1>2. CASE log # {}
  <2>. DEFINE latest == CHOOSE e \in log : \A f \in log : f.at <= e.at
  <2>1. latest \in log
    BY <1>2 DEF HasLatest
  <2>. QED  BY <1>2, <2>1 DEF LatestValidation
<1>. QED  BY <1>1, <1>2

LEMMA ExplainedGrows ==
  ASSUME NEW c, NEW entries, NEW more, entries \subseteq more, Explained(c, entries)
  PROVE  Explained(c, more)
BY DEF Explained

LEMMA InitCrowd == Init => CrowdInv
<1>. SUFFICES ASSUME Init PROVE CrowdInv
  OBVIOUS
<1>1. votes.up <= votes.total /\ HasLatest
  BY DEF Init, HasLatest
<1>2. \A s \in Sessions : ScoreInv(session[s])
  BY DEF Init, ScoreInv, Idle
<1>3. CrowdWeighsAtMostHalf
  BY DEF Init, CrowdWeighsAtMostHalf
<1>. QED  BY <1>1, <1>2, <1>3 DEF CrowdInv

(* A handler that begins commits nothing; its session is all that changes. *)
LEMMA PreparedCrowd ==
  ASSUME TypeOK, CrowdInv, NEW s \in Sessions, NEW task, NEW new, NEW entries, NEW ballots,
         Prepare(s, task, new, entries, ballots),
         new.confidence # row.confidence => Explained(new.confidence, log)
  PROVE  CrowdInv'
<1>1. /\ session'[s].new = new /\ session'[s].loaded = row /\ session'[s].entries = entries
      /\ \A t \in Sessions \ {s} : session'[t] = session[t]
      /\ UNCHANGED <<row, log, votes>>
  BY DEF Prepare, TypeOK
<1>2. ScoreInv(session[s])'
  BY <1>1, ExplainedGrows DEF ScoreInv
<1>3. \A t \in Sessions : ScoreInv(session[t])'
  BY <1>1, <1>2 DEF CrowdInv, ScoreInv
<1>. QED  BY <1>1, <1>3 DEF CrowdInv, HasLatest, CrowdWeighsAtMostHalf

(* Only the check and the vote touch the score.                            *)
LEMMA OthersKeepScore ==
  ASSUME TypeOK, CrowdInv, NEW s \in Sessions, Feed(s) \/ ExpireStale(s) \/ ValidatorLoads(s)
  PROVE  CrowdInv'
<1>1. row \in Row
  BY DEF TypeOK
<1>. DEFINE Goal == \E task, new : Prepare(s, task, new, {}, {}) /\ new.confidence = row.confidence
<1>. SUFFICES Goal
  BY PreparedCrowd
<1>2. ASSUME NEW ends \in EndDates \cup {Never}, Relist(s, ends) PROVE Goal
  <2>. DEFINE until == IF ends = Never THEN row.expiresAt ELSE ends
              seen == IF now > row.lastSeen THEN now ELSE row.lastSeen
              status == IF row.status = "expired" /\ ~(until # Never /\ until < now)
                        THEN "unverified" ELSE row.status
              new == [row EXCEPT !.lastSeen = seen, !.expiresAt = until, !.status = status]
  <2>1. Prepare(s, "relist", new, {}, {})
    BY <1>2 DEF Relist
  <2>. HIDE DEF until, seen, status
  <2>2. new.confidence = row.confidence
    BY <1>1 DEF Row
  <2>. QED  BY <2>1, <2>2
<1>3. ASSUME NEW when \in EndDates, BackfillExpiry(s, when) PROVE Goal
  <2>. DEFINE status == IF row.status = "expired" /\ when > now THEN "unverified" ELSE row.status
              new == [row EXCEPT !.expiresAt = when, !.status = status]
  <2>1. Prepare(s, "backfill", new, {}, {})
    BY <1>3 DEF BackfillExpiry
  <2>. HIDE DEF status
  <2>2. new.confidence = row.confidence
    BY <1>1 DEF Row
  <2>. QED  BY <2>1, <2>2
<1>4. ASSUME NEW task, NEW st, Prepare(s, task, [row EXCEPT !.status = st], {}, {}) PROVE Goal
  <2>1. [row EXCEPT !.status = st].confidence = row.confidence
    BY <1>1 DEF Row
  <2>. QED  BY <1>4, <2>1
<1>5. CASE ExpireSuspended(s)
  BY <1>4, <1>5 DEF ExpireSuspended
<1>6. CASE ExpireStale(s)
  <2>. DEFINE status == IF PastEndDate(row, now) \/ StaleAndUntrusted(row, now)
                        THEN "expired" ELSE row.status
  <2>1. Prepare(s, "sweep", [row EXCEPT !.status = status], {}, {})
    BY <1>6 DEF ExpireStale
  <2>. HIDE DEF status, Goal
  <2>. QED  BY <1>4, <2>1
<1>7. CASE ValidatorLoads(s)
  BY <1>7 DEF ValidatorLoads
<1>. HIDE DEF Goal
<1>. QED  BY <1>2, <1>3, <1>5, <1>6, <1>7 DEF Feed

LEMMA FeedbackCrowd ==
  ASSUME TypeOK, CrowdInv, NEW s \in Sessions, Feedback(s)
  PROVE  CrowdInv'
<1>1. PICK ip \in Ips, worked \in BOOLEAN : SubmitFeedback(s, ip, worked)
  BY DEF Feedback
<1>. DEFINE ballots == IF Recent(ip) THEN {} ELSE {[ip |-> ip, worked |-> worked, at |-> now]}
            counted == CountAll(votes, ballots)
            latest == LatestValidation(log)
            c == ComputeConfidence(latest, counted.up, counted.total)
            new == [row EXCEPT !.confidence = c]
<1>2. Prepare(s, "feedback", new, {}, ballots)
  BY <1>1 DEF SubmitFeedback
<1>3. ballots \in SUBSET Vote
  BY DEF TypeOK, Vote
<1>. HIDE DEF ballots
<1>4. counted \in Tally /\ counted.up <= counted.total
  BY <1>3, CountAllType, CountKeepsShare DEF TypeOK, CrowdInv
<1>. HIDE DEF counted
<1>5. counted.total \in Nat /\ counted.up \in 0 .. counted.total
  BY <1>4 DEF Tally
<1>6. Half(Base(latest), c)
  BY <1>5, ConfidenceIsHalf
<1>7. latest \in {"none"} \cup {e.result : e \in log}
  BY LatestIsLogged DEF CrowdInv
<1>. HIDE DEF latest, c
<1>8. Explained(c, log)
  BY <1>6, <1>7 DEF Explained
<1>9. new.confidence = c
  BY DEF TypeOK, Row
<1>. QED  BY <1>2, <1>8, <1>9, PreparedCrowd

(* A check scores with its own result, which it logs in the same commit.   *)
LEMMA CheckCrowd ==
  ASSUME TypeOK, SessionsInv, CrowdInv, NEW s \in Sessions, NEW result \in Result,
         ValidatorChecks(s, result)
  PROVE  CrowdInv'
<1>. DEFINE loaded == session[s].loaded
            c == ComputeConfidence(result, votes.up, votes.total)
            new == RecordValidationResult(loaded, result, now, votes.up, votes.total)
            made == {[at |-> now, result |-> result]}
<1>1. loaded \in Row
  BY DEF TypeOK, SessionType
<1>2. Half(Base(result), c)
  <2>1. votes.total \in Nat /\ votes.up \in 0 .. votes.total
    BY DEF TypeOK, Tally, CrowdInv
  <2>. QED  BY <2>1, ConfidenceIsHalf
<1>3. new.confidence = loaded.confidence \/ new.confidence = c
  <2>1. \A k : [loaded EXCEPT !.checkedAt = now, !.streak = k].confidence = loaded.confidence
    BY <1>1 DEF Row
  <2>2. \A k : [loaded EXCEPT !.checkedAt = now, !.streak = 0, !.validatedAt = now,
                             !.status = result, !.confidence = k].confidence = k
    BY <1>1 DEF Row
  <2>. QED  BY <2>1, <2>2 DEF RecordValidationResult
<1>4. /\ session'[s].loaded = loaded /\ session'[s].entries = made
      /\ \A t \in Sessions \ {s} : session'[t] = session[t]
  BY CheckWrites
<1>5. session'[s].new = new
  BY DEF ValidatorChecks, TypeOK, SessionType
<1>6. UNCHANGED <<row, log, votes>>
  BY DEF ValidatorChecks
<1>. HIDE DEF new, c, loaded
<1>7. Explained(c, log \cup made)
  <2>1. \E e \in log \cup made : e.result = result
    <3>1. [at |-> now, result |-> result].result = result
      OBVIOUS
    <3>. QED  BY <3>1
  <2>2. result \in {e.result : e \in log \cup made}
    <3>. HIDE DEF made
    <3>. QED  BY <2>1
  <2>. QED  BY <1>2, <2>2 DEF Explained
<1>8. ScoreInv(session[s])'
  BY <1>3, <1>4, <1>5, <1>6, <1>7 DEF ScoreInv
<1>9. \A t \in Sessions : ScoreInv(session[t])'
  BY <1>4, <1>6, <1>8 DEF CrowdInv, ScoreInv
<1>. QED  BY <1>6, <1>9 DEF CrowdInv, HasLatest, CrowdWeighsAtMostHalf

(* A commit writes the score it computed, or leaves that of the row; the   *)
(* log it explains it with only grows.                                     *)
LEMMA CommitCrowd ==
  ASSUME TypeOK, SessionsInv, CrowdInv, NEW s \in Sessions, Commit(s)
  PROVE  CrowdInv'
<1>. DEFINE u == session[s]
<1>1. /\ row'.confidence = Column(row.confidence, u.loaded.confidence, u.new.confidence)
      /\ log' = log \cup u.entries
      /\ votes' = CountAll(votes, u.ballots)
      /\ session' = [session EXCEPT ![s] = Idle]
  BY DEF Commit, Flush
<1>2. u \in SessionType /\ ScoreInv(u) /\ WorkInv(u)
  BY DEF TypeOK, CrowdInv, SessionsInv
<1>3. votes'.up <= votes'.total
  <2>1. u.ballots \in SUBSET Vote
    BY <1>2 DEF SessionType
  <2>. HIDE DEF u
  <2>. QED  BY <1>1, <2>1, CountKeepsShare DEF TypeOK, CrowdInv
<1>. HIDE DEF u
<1>4. u.entries = {} \/ \E e : u.entries = {e} /\ e.at \in Nat
  BY <1>2 DEF WorkInv
<1>5. HasLatest'
  <2>1. CASE u.entries = {}
    BY <1>1, <2>1 DEF CrowdInv, HasLatest
  <2>2. ASSUME NEW e, u.entries = {e}, e.at \in Nat PROVE HasLatest'
    <3>1. log' = log \cup {e} /\ \A f \in log : f.at \in Nat
      BY <1>1, <2>2 DEF TypeOK, Entry
    <3>2. CASE log = {}
      BY <2>2, <3>1, <3>2 DEF HasLatest
    <3>3. ASSUME NEW m \in log, \A f \in log : f.at <= m.at PROVE HasLatest'
      <4>1. CASE m.at <= e.at
        BY <2>2, <3>1, <3>3, <4>1 DEF HasLatest
      <4>2. CASE ~(m.at <= e.at)
        BY <2>2, <3>1, <3>3, <4>2 DEF HasLatest
      <4>. QED  BY <4>1, <4>2
    <3>. QED  BY <3>2, <3>3 DEF CrowdInv, HasLatest
  <2>. QED  BY <1>4, <2>1, <2>2
<1>6. CrowdWeighsAtMostHalf'
  <2>1. row'.confidence = row.confidence \/ Explained(row'.confidence, log')
    BY <1>1, <1>2 DEF Column, ScoreInv
  <2>2. row.confidence # NewRow.confidence => Explained(row.confidence, log)
    BY DEF CrowdInv, CrowdWeighsAtMostHalf, Explained, Half
  <2>3. row'.confidence # NewRow.confidence => Explained(row'.confidence, log')
    BY <1>1, <2>1, <2>2, ExplainedGrows
  <2>. QED  BY <2>3 DEF CrowdWeighsAtMostHalf, Explained, Half
<1>7. \A t \in Sessions : ScoreInv(session[t])'
  <2>1. ScoreInv(session[s])'
    BY <1>1 DEF ScoreInv, Idle, TypeOK
  <2>2. ASSUME NEW t \in Sessions \ {s} PROVE ScoreInv(session[t])'
    <3>1. session'[t] = session[t] /\ ScoreInv(session[t])
      BY <1>1 DEF TypeOK, CrowdInv
    <3>. QED  BY <1>1, <3>1, ExplainedGrows DEF ScoreInv
  <2>. QED  BY <2>1, <2>2
<1>. QED  BY <1>3, <1>5, <1>6, <1>7 DEF CrowdInv

LEMMA NextCrowd == TypeOK /\ SessionsInv /\ CrowdInv /\ [Next]_vars => CrowdInv'
<1>. SUFFICES ASSUME TypeOK, SessionsInv, CrowdInv, [Next]_vars PROVE CrowdInv'
  OBVIOUS
<1>1. ASSUME NEW s \in Validators, Validation(s) PROVE CrowdInv'
  <2>1. s \in Sessions
    BY DEF Sessions
  <2>. QED  BY <1>1, <2>1, OthersKeepScore, CheckCrowd DEF Validation
<1>2. ASSUME NEW s \in Voters, Feedback(s) PROVE CrowdInv'
  BY <1>2, FeedbackCrowd DEF Sessions
<1>3. ASSUME NEW s \in Feeds \cup Sweepers, Feed(s) \/ ExpireStale(s) PROVE CrowdInv'
  BY <1>3, OthersKeepScore DEF Sessions
<1>4. ASSUME NEW s \in Sessions, Commit(s) PROVE CrowdInv'
  BY <1>4, CommitCrowd
<1>5. ASSUME NEW s \in Sessions, Abort(s) PROVE CrowdInv'
  <2>1. /\ session'[s] = Idle /\ UNCHANGED <<row, log, votes>>
        /\ \A t \in Sessions \ {s} : session'[t] = session[t]
    BY <1>5 DEF Abort, TypeOK
  <2>2. \A t \in Sessions : ScoreInv(session[t])'
    BY <2>1 DEF CrowdInv, ScoreInv, Idle
  <2>. QED  BY <2>1, <2>2 DEF CrowdInv, HasLatest, CrowdWeighsAtMostHalf
<1>6. CASE Tick \/ UNCHANGED vars
  BY <1>6 DEF Tick, vars, CrowdInv, HasLatest, ScoreInv, CrowdWeighsAtMostHalf
<1>. QED  BY <1>1, <1>2, <1>3, <1>4, <1>5, <1>6 DEF Next

(* Whatever votes and jobs overlap, and however many votes there are, the  *)
(* confidence is half-way at most between a logged check and certainty.    *)
THEOREM CrowdAtMostHalf == Spec => []CrowdWeighsAtMostHalf
<1>1. CrowdInv => CrowdWeighsAtMostHalf
  BY DEF CrowdInv
<1>. QED
  BY <1>1, InitType, NextType, InitSessions, NextSessions, InitCrowd, NextCrowd, PTL DEF Spec

----------------------------------------------------------------------------
(***************************************************************************)
(* With one validation job of a coupon at a time, CouponLifecycle          *)
(* implements CouponTrust: every step of every session is a step of the    *)
(* badge, or none.                                                         *)
(***************************************************************************)

Verdict == LatestValidation(Verdicts(log))

(* A result later than all others is the latest.                           *)
LEMMA LatestIsNew ==
  ASSUME NEW entries, NEW e, e.at \in Nat,
         \A f \in entries : f.at \in Nat /\ f.at < e.at
  PROVE  LatestValidation(entries \cup {e}) = e.result
<1>. DEFINE S == entries \cup {e}
            latest == CHOOSE d \in S : \A f \in S : f.at <= d.at
<1>1. e \in S /\ \A f \in S : f.at <= e.at
  OBVIOUS
<1>2. latest \in S /\ \A f \in S : f.at <= latest.at
  BY <1>1
<1>3. latest = e
  <2>1. e.at <= latest.at
    BY <1>1, <1>2
  <2>2. latest \in entries => latest.at \in Nat /\ latest.at < e.at
    OBVIOUS
  <2>. QED  BY <1>2, <2>1, <2>2
<1>4. S # {}
  OBVIOUS
<1>. QED  BY <1>3, <1>4 DEF LatestValidation

(* The new row is an untested badge without a verdict.                     *)
LEMMA InitTrust == Init => Trust!TrustInit
<1>. SUFFICES ASSUME Init PROVE Trust!TrustInit
  OBVIOUS
<1>1. row.status = "unverified" /\ Verdicts(log) = {}
  BY DEF Init, NewRow, Verdicts
<1>. QED  BY <1>1 DEF Trust!TrustInit, LatestValidation

(* The commit of a vote, a feed or a sweep takes the badge away, brings an *)
(* untested one, or leaves it.                                             *)
LEMMA BystanderTrust ==
  ASSUME JobInv, NEW s \in Sessions, Commit(s), session[s].task # "validate"
  PROVE  Trust!TrustNext \/ UNCHANGED Trust!trustVars
<1>1. /\ row'.status = row.status \/ row'.status \notin Decisive
      /\ log' = log
  BY CommitVerdict DEF JobInv, WorkInv, KeepsVerdict, Column
<1>2. row'.status \in Status
  BY NextType DEF JobInv, Next, TypeOK, Row
<1>3. Verdict' = Verdict
  BY <1>1 DEF Verdict
<1>. QED  BY <1>1, <1>2, <1>3 DEF Verdict, Status, Decisive, Trust!TrustNext, Trust!Withdraw,
                                  Trust!ListAgain, Trust!trustVars

(* The commit of a job is the conclusive check it logs, or no step.        *)
LEMMA JobTrust ==
  ASSUME JobInv, NEW s \in Sessions, Commit(s), session[s].task = "validate"
  PROVE  Trust!TrustNext \/ UNCHANGED Trust!trustVars
<1>. DEFINE u == session[s]
<1>1. /\ row'.status = Column(row.status, u.loaded.status, u.new.status)
      /\ log' = log \cup u.entries
      /\ WorkInv(u)
  BY CommitVerdict DEF JobInv
<1>2. row.status \in Decisive => row.status = u.loaded.status
  BY DEF JobInv, JobOwnsColumns, InJob
<1>3. PICK at \in Nat, result \in Result :
             /\ u.entries = {[at |-> at, result |-> result]}
             /\ WritesResult(u.loaded, u.new, at, result)
  BY <1>1 DEF WorkInv
<1>. DEFINE new == [at |-> at, result |-> result]
<1>4. \A e \in log : e.at \in Nat /\ e.at < at
  <2>1. new \in session[s].entries
    BY <1>3
  <2>. QED  BY <2>1 DEF JobInv, LogInOrder, TypeOK, Entry
<1>5. log' = log \cup {new}
  BY <1>1, <1>3
<1>. HIDE DEF u
<1>6. CASE result = "unverifiable"
  <2>1. row'.status = row.status
    BY <1>1, <1>3, <1>6 DEF WritesResult, Column
  <2>2. Verdicts(log)' = Verdicts(log)
    BY <1>5, <1>6 DEF Verdicts, Decisive
  <2>. QED  BY <2>1, <2>2 DEF Trust!trustVars
<1>7. CASE result # "unverifiable"
  <2>1. result \in Decisive
    BY <1>7 DEF Result
  <2>2. \/ row'.status = result
        \/ row'.status = row.status /\ row.status \notin Decisive
    BY <1>1, <1>2, <1>3, <1>7, <2>1 DEF WritesResult, Column
  <2>3. Verdicts(log)' = Verdicts(log) \cup {new}
    BY <1>5, <2>1 DEF Verdicts
  <2>4. LatestValidation(Verdicts(log) \cup {new}) = new.result
    BY <1>4, LatestIsNew DEF Verdicts
  <2>5. Verdict' = result
    BY <2>3, <2>4 DEF Verdict
  <2>6. Trust!Verify(result)
    BY <2>2, <2>5 DEF Verdict, Trust!Verify, Trust!Decided, Decisive
  <2>. QED  BY <2>1, <2>6 DEF Trust!TrustNext, Trust!Decided, Decisive
<1>. QED  BY <1>6, <1>7

LEMMA StepTrust ==
  JobInv /\ [Next]_vars => [Trust!TrustNext]_Trust!trustVars
<1>. SUFFICES ASSUME JobInv, [Next]_vars PROVE Trust!TrustNext \/ UNCHANGED Trust!trustVars
  OBVIOUS
<1>1. ASSUME NEW s \in Sessions, Commit(s)
      PROVE  Trust!TrustNext \/ UNCHANGED Trust!trustVars
  BY <1>1, BystanderTrust, JobTrust
<1>2. CASE UNCHANGED <<row, log>>
  <2>1. Verdict' = Verdict
    BY <1>2 DEF Verdict
  <2>. QED  BY <1>2, <2>1 DEF Verdict, Trust!trustVars
<1>3. \/ \E s \in Sessions : Commit(s)
      \/ UNCHANGED <<row, log>>
  BY DEF Next, Validation, Feedback, Feed, ValidatorLoads, ValidatorChecks, SubmitFeedback,
         Relist, ExpireSuspended, BackfillExpiry, ExpireStale, Prepare, Abort, Tick, vars
<1>. QED  BY <1>1, <1>2, <1>3

(* With one outstanding job, the row and the log of a coupon are a badge as*)
(* CouponTrust describes it, whatever votes, feeds and sweeps overlap it.  *)
THEOREM BadgeImplemented ==
  ASSUME OneJobAtATime PROVE Spec => ImplementsTrust
BY InitTrust, StepTrust, JobInvariant, PTL DEF Spec, ImplementsTrust, Trust!Spec

(* A badge never contradicts its verdict: read off the promise alone, and  *)
(* carried over to the row by the refinement.                              *)
THEOREM BadgeHonest ==
  ASSUME OneJobAtATime PROVE Spec => []Trust!Honest
<1>1. Trust!TrustInit => Trust!Honest
  BY DEF Trust!TrustInit, Trust!Honest, Trust!Decided
<1>2. Trust!Honest /\ [Trust!TrustNext]_Trust!trustVars => Trust!Honest'
  BY DEF Trust!Honest, Trust!TrustNext, Trust!Verify, Trust!Withdraw, Trust!ListAgain,
         Trust!trustVars, Trust!Decided
<1>. QED  BY <1>1, <1>2, BadgeImplemented, PTL DEF ImplementsTrust, Trust!Spec


=============================================================================
