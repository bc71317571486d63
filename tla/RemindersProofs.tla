--------------------------- MODULE RemindersProofs ---------------------------
(* Proofs about Reminders: types, truthful marks, and stops that are final,*)
(* for any number of reminders and of dispatches that overlap or die.      *)
EXTENDS Reminders, TLAPS

(***************************************************************************)
(* Types.                                                                  *)
(***************************************************************************)

LEMMA CountedType == ASSUME NEW n \in Nat PROVE Counted(n) \in 0 .. MaxMails /\ (n > 0 => Counted(n) > 0)
BY RemindersAssumption DEF Counted

LEMMA NoneType == NoReminder \in Reminder /\ NoRun \in Run
BY DEF NoReminder, NoRun, Reminder, Run, Status

LEMMA InitType == Init => TypeOK
<1>1. 0 \in 0 .. MaxMails
  BY RemindersAssumption
<1>. SUFFICES ASSUME Init PROVE TypeOK
  OBVIOUS
<1>2. reminder \in [Ids -> Reminder] /\ run \in [Dispatchers -> Run]
  BY NoneType DEF Init
<1>3. mails \in [Ids -> [Offsets -> 0 .. MaxMails]]
  BY <1>1 DEF Init
<1>. QED  BY <1>2, <1>3 DEF Init, TypeOK

LEMMA RequestType ==
  ASSUME TypeOK, NEW r \in Ids, Request(r) PROVE TypeOK'
<1>1. ASSUME NEW endsOn \in 1 .. LastDay, NEW offsets \in SUBSET Offsets,
             CreateReminder(r, endsOn, offsets)
      PROVE  TypeOK'
  <2>1. [status |-> "active", endsOn |-> endsOn, offsets |-> offsets, sent |-> {}] \in Reminder
    BY RemindersAssumption DEF Reminder, Status
  <2>. QED  BY <1>1, <2>1 DEF CreateReminder, TypeOK
<1>2. ASSUME NEW status \in Stopped, Stop(r, status) PROVE TypeOK'
  <2>1. [reminder[r] EXCEPT !.status = status] \in Reminder
    BY <1>2 DEF TypeOK, Reminder, Status
  <2>. QED  BY <1>2, <2>1 DEF Stop, TypeOK
<1>. QED  BY <1>1, <1>2 DEF Request

LEMMA StartType ==
  ASSUME TypeOK, NEW d \in Dispatchers, StartDispatch(d) PROVE TypeOK'
<1>. DEFINE active == {r \in Ids : reminder[r].status = "active"}
            past == {r \in active : reminder[r].endsOn < today}
            loaded == [r \in Ids |-> IF r \in active THEN reminder[r] ELSE NoReminder]
            todo == {x \in (active \ past) \X Offsets : x[2] \in DueOffsets(reminder[x[1]], today)}
            started == [phase |-> "sending", loaded |-> loaded, todo |-> todo,
                        newly |-> {}, expired |-> past]
<1>1. loaded \in [Ids -> Reminder]
  BY NoneType DEF TypeOK
<1>2. todo \subseteq Ids \X Offsets
  OBVIOUS
<1>3. past \subseteq Ids
  OBVIOUS
<1>4. /\ run' = [run EXCEPT ![d] = started]
      /\ UNCHANGED <<reminder, today, mails>> /\ mishap' \in BOOLEAN
  BY DEF StartDispatch, TypeOK
<1>. HIDE DEF active, past, loaded, todo
<1>5. started \in Run
  BY <1>1, <1>2, <1>3 DEF Run
<1>. HIDE DEF started
<1>. QED  BY <1>4, <1>5 DEF TypeOK

LEMMA SendType ==
  ASSUME TypeOK, NEW d \in Dispatchers, NEW r \in Ids, NEW o \in Offsets,
         NEW outcome \in Outcomes, SendReminder(d, r, o, outcome)
  PROVE  TypeOK'
<1>1. outcome.copies \in Nat /\ outcome.ok \in BOOLEAN
  BY RemindersAssumption
<1>2. mails[r][o] \in Nat /\ mails[r] \in [Offsets -> 0 .. MaxMails]
  BY RemindersAssumption DEF TypeOK
<1>3. Counted(mails[r][o] + outcome.copies) \in 0 .. MaxMails
  BY <1>1, <1>2, CountedType
<1>4. mails' \in [Ids -> [Offsets -> 0 .. MaxMails]]
  BY <1>2, <1>3 DEF SendReminder, TypeOK
<1>5. run[d] \in Run
  BY DEF TypeOK
<1>. DEFINE rest == run[d].todo \ {<<r, o>>}
            mailed == IF outcome.ok THEN run[d].newly \cup {<<r, o>>} ELSE run[d].newly
<1>6. rest \in SUBSET (Ids \X Offsets) /\ mailed \in SUBSET (Ids \X Offsets)
  BY <1>5 DEF Run
<1>7. run' \in [Dispatchers -> Run]
  <2>1. run' = [run EXCEPT ![d] = [run[d] EXCEPT !.todo = rest, !.newly = mailed]]
    BY DEF SendReminder, TypeOK
  <2>. HIDE DEF rest, mailed
  <2>2. [run[d] EXCEPT !.todo = rest, !.newly = mailed] \in Run
    BY <1>5, <1>6 DEF Run
  <2>. QED  BY <2>1, <2>2 DEF TypeOK
<1>. QED  BY <1>4, <1>7 DEF SendReminder, TypeOK

LEMMA FlushedType ==
  ASSUME TypeOK, NEW d \in Dispatchers, NEW r \in Ids
  PROVE  Flushed(d, r) \in Reminder
<1>1. reminder[r] \in Reminder /\ run[d].loaded[r] \in Reminder
  BY DEF TypeOK, Run
<1>2. Newly(d, r) \subseteq Offsets
  BY DEF Newly
<1>. QED  BY <1>1, <1>2 DEF Flushed, Reminder, Status

LEMMA NextType == TypeOK /\ [Next]_vars => TypeOK'
<1>. SUFFICES ASSUME TypeOK, [Next]_vars PROVE TypeOK'
  OBVIOUS
<1>1. ASSUME NEW d \in Dispatchers, FinishDispatch(d) PROVE TypeOK'
  <2>1. \A r \in Ids : Flushed(d, r) \in Reminder
    BY FlushedType
  <2>. QED  BY <1>1, <2>1, NoneType DEF FinishDispatch, TypeOK
<1>2. ASSUME NEW d \in Dispatchers, Crash(d) PROVE TypeOK'
  BY <1>2, NoneType DEF Crash, TypeOK
<1>3. CASE NextDay
  BY <1>3 DEF NextDay, TypeOK
<1>4. CASE UNCHANGED vars
  BY <1>4 DEF vars, TypeOK
<1>. QED  BY <1>1, <1>2, <1>3, <1>4, RequestType, StartType, SendType DEF Next, Dispatch

(* Every variable keeps its type.                                          *)
THEOREM TypeCorrect == Spec => []TypeOK
BY InitType, NextType, PTL DEF Spec

----------------------------------------------------------------------------
(* A mark stands for a mail.  Marks are written long after the mail, from  *)
(* copies, so the marks a dispatch has loaded and those it means to write  *)
(* must be covered as well.                                                *)

Mailed(r, o) == mails[r][o] > 0

MarksInv ==
  /\ TypeOK
  /\ MarkedWasMailed
  /\ \A d \in Dispatchers :
       /\ \A r \in Ids : \A o \in run[d].loaded[r].sent : Mailed(r, o)
       /\ \A r \in Ids, o \in Offsets : <<r, o>> \in run[d].newly => Mailed(r, o)

LEMMA InitMarks == Init => MarksInv
BY InitType DEF Init, MarksInv, MarkedWasMailed, NoReminder, NoRun

(* No mail is ever taken back.                                             *)
LEMMA MailsGrow ==
  ASSUME TypeOK, [Next]_vars, NEW r \in Ids, NEW o \in Offsets
  PROVE  Mailed(r, o) => Mailed(r, o)'
<1>1. CASE UNCHANGED mails
  BY <1>1 DEF Mailed
<1>2. ASSUME NEW d \in Dispatchers, NEW q \in Ids, NEW p \in Offsets,
             NEW outcome \in Outcomes, SendReminder(d, q, p, outcome)
      PROVE  Mailed(r, o) => Mailed(r, o)'
  <2>1. mails[q][p] \in Nat /\ outcome.copies \in Nat
    BY RemindersAssumption DEF TypeOK
  <2>2. mails[q][p] > 0 => Counted(mails[q][p] + outcome.copies) > 0
    BY <2>1, CountedType
  <2>3. mails' = [mails EXCEPT ![q][p] = Counted(@ + outcome.copies)]
    BY <1>2 DEF SendReminder
  <2>. QED  BY <2>2, <2>3 DEF Mailed, TypeOK
<1>. QED
  BY <1>1, <1>2 DEF Next, Request, CreateReminder, Stop, Dispatch, StartDispatch,
                    FinishDispatch, Crash, NextDay, vars

LEMMA NextMarks == MarksInv /\ [Next]_vars => MarksInv'
<1>. SUFFICES ASSUME MarksInv, [Next]_vars PROVE MarksInv'
  OBVIOUS
<1>1. TypeOK /\ TypeOK'
  BY NextType DEF MarksInv
<1>2. \A r \in Ids, o \in Offsets : Mailed(r, o) => Mailed(r, o)'
  BY <1>1, MailsGrow
<1>3. \A r \in Ids : reminder[r].sent \subseteq Offsets
  BY <1>1 DEF TypeOK, Reminder
<1>4. \A d \in Dispatchers, r \in Ids : run[d].loaded[r].sent \subseteq Offsets
  BY <1>1 DEF TypeOK, Run, Reminder
<1>. DEFINE RunMarked(u) ==
              /\ \A r \in Ids : \A o \in u.loaded[r].sent : Mailed(r, o)'
              /\ \A r \in Ids, o \in Offsets : <<r, o>> \in u.newly => Mailed(r, o)'
            RowMarked(row, r) == \A o \in row.sent : Mailed(r, o)'
<1>5. \A d \in Dispatchers : RunMarked(run[d])
  BY <1>2, <1>4 DEF MarksInv
<1>6. \A r \in Ids : RowMarked(reminder[r], r)
  BY <1>2, <1>3 DEF MarksInv, MarkedWasMailed, Mailed
<1>7. RunMarked(NoRun) /\ \A r \in Ids : RowMarked(NoReminder, r)
  BY DEF NoRun, NoReminder
<1>8. ASSUME \A d \in Dispatchers : RunMarked(run'[d]),
             \A r \in Ids : RowMarked(reminder'[r], r)
      PROVE  MarksInv'
  BY <1>1, <1>8 DEF MarksInv, MarkedWasMailed, Mailed
<1>. HIDE DEF RunMarked, RowMarked
<1>9. ASSUME NEW r \in Ids, Request(r) PROVE MarksInv'
  <2>1. ASSUME NEW endsOn, NEW offsets, CreateReminder(r, endsOn, offsets) PROVE MarksInv'
    <3>1. RowMarked([status |-> "active", endsOn |-> endsOn, offsets |-> offsets, sent |-> {}], r)
      BY DEF RowMarked
    <3>. QED  BY <1>1, <1>5, <1>6, <1>8, <2>1, <3>1 DEF CreateReminder, TypeOK
  <2>2. ASSUME NEW status, Stop(r, status) PROVE MarksInv'
    <3>1. RowMarked([reminder[r] EXCEPT !.status = status], r)
      BY <1>1, <1>6 DEF RowMarked, TypeOK, Reminder
    <3>. QED  BY <1>1, <1>5, <1>6, <1>8, <2>2, <3>1 DEF Stop, TypeOK
  <2>. QED  BY <1>9, <2>1, <2>2 DEF Request
<1>10. ASSUME NEW d \in Dispatchers, StartDispatch(d) PROVE MarksInv'
  <2>. DEFINE active == {r \in Ids : reminder[r].status = "active"}
              past == {r \in active : reminder[r].endsOn < today}
              loaded == [r \in Ids |-> IF r \in active THEN reminder[r] ELSE NoReminder]
              todo == {x \in (active \ past) \X Offsets : x[2] \in DueOffsets(reminder[x[1]], today)}
              u == [phase |-> "sending", loaded |-> loaded, todo |-> todo,
                    newly |-> {}, expired |-> past]
  <2>1. run' = [run EXCEPT ![d] = u] /\ UNCHANGED reminder
    BY <1>10 DEF StartDispatch
  <2>2. RunMarked(u)
    <3>1. \A r \in Ids : \A o \in loaded[r].sent : Mailed(r, o)'
      BY <1>6, <1>7 DEF RowMarked
    <3>2. u.loaded = loaded /\ u.newly = {}
      OBVIOUS
    <3>. HIDE DEF u, loaded
    <3>. QED  BY <3>1, <3>2 DEF RunMarked
  <2>. HIDE DEF u
  <2>. QED  BY <1>1, <1>5, <1>6, <1>8, <2>1, <2>2 DEF TypeOK
<1>11. ASSUME NEW d \in Dispatchers, NEW r \in Ids, NEW o \in Offsets, NEW outcome \in Outcomes,
              SendReminder(d, r, o, outcome)
       PROVE  MarksInv'
  <2>. DEFINE u == [run[d] EXCEPT !.todo = @ \ {<<r, o>>},
                                  !.newly = IF outcome.ok THEN @ \cup {<<r, o>>} ELSE @]
  <2>1. run' = [run EXCEPT ![d] = u] /\ UNCHANGED reminder
    BY <1>1, <1>11 DEF SendReminder, TypeOK
  <2>2. u.loaded = run[d].loaded
    BY <1>1 DEF TypeOK, Run
  <2>3. u.newly \subseteq run[d].newly \cup (IF outcome.ok THEN {<<r, o>>} ELSE {})
    BY <1>1 DEF TypeOK, Run
  <2>4. outcome.ok => Mailed(r, o)'
    <3>1. mails[r][o] \in Nat /\ outcome.copies \in Nat /\ (outcome.ok => outcome.copies > 0)
      BY <1>1, RemindersAssumption DEF TypeOK
    <3>2. outcome.ok => Counted(mails[r][o] + outcome.copies) > 0
      BY <3>1, CountedType
    <3>3. mails'[r][o] = Counted(mails[r][o] + outcome.copies)
      BY <1>1, <1>11 DEF SendReminder, TypeOK
    <3>. QED  BY <3>2, <3>3 DEF Mailed
  <2>. HIDE DEF u
  <2>5. RunMarked(u)
    BY <1>5, <2>2, <2>3, <2>4 DEF RunMarked
  <2>. QED  BY <1>1, <1>5, <1>6, <1>8, <2>1, <2>5 DEF TypeOK
<1>12. ASSUME NEW d \in Dispatchers, FinishDispatch(d) PROVE MarksInv'
  <2>1. \A r \in Ids : Flushed(d, r).sent \subseteq
                         reminder[r].sent \cup run[d].loaded[r].sent \cup Newly(d, r)
    BY <1>1 DEF Flushed, TypeOK, Reminder
  <2>2. \A r \in Ids : \A o \in Newly(d, r) : Mailed(r, o)'
    BY <1>5 DEF RunMarked, Newly
  <2>3. \A r \in Ids : RowMarked(Flushed(d, r), r)
    BY <1>5, <1>6, <2>1, <2>2 DEF RowMarked, RunMarked
  <2>. QED  BY <1>1, <1>5, <1>7, <1>8, <1>12, <2>3 DEF FinishDispatch, TypeOK
<1>13. ASSUME NEW d \in Dispatchers, Crash(d) PROVE MarksInv'
  BY <1>1, <1>5, <1>6, <1>7, <1>8, <1>13 DEF Crash, TypeOK
<1>14. CASE NextDay \/ UNCHANGED vars
  BY <1>5, <1>6, <1>8, <1>14 DEF NextDay, vars
<1>. QED  BY <1>9, <1>10, <1>11, <1>12, <1>13, <1>14 DEF Next, Dispatch

(* "Marked sent only when the send actually succeeds", whatever dispatches *)
(* overlap, and whatever the marks were computed from.                     *)
THEOREM MarksAreTrue == Spec => []MarkedWasMailed
<1>1. MarksInv => MarkedWasMailed
  BY DEF MarksInv
<1>. QED  BY <1>1, InitMarks, NextMarks, PTL DEF Spec

----------------------------------------------------------------------------
(* A stop is final: no step makes a stopped reminder active.               *)

LEMMA StopKept ==
  ASSUME TypeOK, [Next]_vars, NEW r \in Ids, reminder[r].status \in Stopped
  PROVE  reminder'[r].status # "active"
<1>1. reminder[r].status # "active" /\ reminder[r].status # "none"
  BY DEF Stopped
<1>2. CASE UNCHANGED reminder
  BY <1>1, <1>2
<1>3. ASSUME NEW q \in Ids, NEW endsOn, NEW offsets, CreateReminder(q, endsOn, offsets)
      PROVE  reminder'[r].status # "active"
  BY <1>1, <1>3 DEF CreateReminder, TypeOK
<1>4. ASSUME NEW q \in Ids, NEW status \in Stopped, Stop(q, status)
      PROVE  reminder'[r].status # "active"
  <2>1. reminder'[r].status \in {status, reminder[r].status}
    BY <1>4 DEF Stop, TypeOK, Reminder
  <2>. QED  BY <1>1, <2>1 DEF Stopped
<1>5. ASSUME NEW d \in Dispatchers, FinishDispatch(d) PROVE reminder'[r].status # "active"
  <2>1. Flushed(d, r).status \in {"expired", reminder[r].status}
    BY DEF Flushed, TypeOK, Reminder
  <2>. QED  BY <1>1, <1>5, <2>1 DEF FinishDispatch
<1>6. ASSUME NEW d \in Dispatchers, NEW q \in Ids, NEW o \in Offsets, NEW outcome \in Outcomes,
             SendReminder(d, q, o, outcome)
      PROVE  UNCHANGED reminder
  BY <1>6 DEF SendReminder
<1>7. CASE NextDay \/ UNCHANGED vars
  BY <1>2, <1>7 DEF NextDay, vars
<1>8. ASSUME NEW d \in Dispatchers, StartDispatch(d) \/ Crash(d) PROVE UNCHANGED reminder
  BY <1>8 DEF StartDispatch, Crash
<1>. QED  BY <1>2, <1>3, <1>4, <1>5, <1>6, <1>7, <1>8 DEF Next, Request, Dispatch

(* A user who stopped a reminder never finds it active again.              *)
THEOREM StopsAreFinal == Spec => StopIsFinal
<1>1. TypeOK /\ [Next]_vars =>
        [\A r \in Ids : reminder[r].status \in Stopped => reminder'[r].status # "active"]_vars
  BY StopKept
<1>. QED  BY <1>1, TypeCorrect, PTL DEF Spec, StopIsFinal

----------------------------------------------------------------------------
(* Each offset is mailed once.  Without a mishap one dispatch at most is   *)
(* under way; what is mailed is marked, in the row or in that dispatch;    *)
(* what it still means to mail is not; and the marks it loaded are those   *)
(* of the row.                                                             *)

Alone == \A d, e \in Dispatchers : run[d].phase # "idle" /\ run[e].phase # "idle" => d = e

MailedIsMarked ==
  \A r \in Ids, o \in Offsets : Mailed(r, o) =>
    /\ mails[r][o] = 1
    /\ reminder[r].status # "none"
    /\ o \in reminder[r].sent \/ \E d \in Dispatchers : <<r, o>> \in run[d].newly

TodoIsFresh ==
  \A d \in Dispatchers, r \in Ids, o \in Offsets :
    /\ <<r, o>> \in run[d].todo => o \notin reminder[r].sent /\ <<r, o>> \notin run[d].newly
    /\ <<r, o>> \in run[d].todo \cup run[d].newly =>
         reminder[r].status # "none" /\ run[d].loaded[r].sent = reminder[r].sent

IdleIsEmpty == \A d \in Dispatchers : run[d].phase = "idle" => run[d] = NoRun

OnceInv == TypeOK /\ IdleIsEmpty /\ (~mishap => Alone /\ MailedIsMarked /\ TodoIsFresh)

LEMMA InitOnce == Init => OnceInv
<1>. SUFFICES ASSUME Init PROVE OnceInv
  OBVIOUS
<1>1. TypeOK
  BY InitType
<1>2. \A d \in Dispatchers : run[d] = NoRun
  BY DEF Init
<1>3. NoRun.phase = "idle" /\ NoRun.todo = {} /\ NoRun.newly = {}
  BY DEF NoRun
<1>4. \A r \in Ids, o \in Offsets : ~Mailed(r, o)
  BY DEF Init, Mailed
<1>5. Alone /\ TodoIsFresh
  BY <1>2, <1>3 DEF Alone, TodoIsFresh
<1>. QED  BY <1>1, <1>2, <1>4, <1>5 DEF OnceInv, IdleIsEmpty, MailedIsMarked

LEMMA RequestOnce ==
  ASSUME OnceInv, TypeOK', NEW r \in Ids, Request(r) PROVE OnceInv'
<1>1. UNCHANGED <<run, mails, mishap>>
  BY DEF Request, CreateReminder, Stop
<1>2. /\ \A q \in Ids \ {r} : reminder'[q] = reminder[q]
      /\ \/ reminder'[r].sent = reminder[r].sent /\ reminder'[r].status # "none"
         \/ reminder[r].status = "none"
  <2>1. CASE \E endsOn \in 1 .. LastDay, offsets \in SUBSET Offsets : CreateReminder(r, endsOn, offsets)
    BY <2>1 DEF CreateReminder, OnceInv, TypeOK
  <2>2. ASSUME NEW status \in Stopped, Stop(r, status)
        PROVE  /\ \A q \in Ids \ {r} : reminder'[q] = reminder[q]
               /\ reminder'[r].sent = reminder[r].sent /\ reminder'[r].status # "none"
    <3>1. reminder'[r] = [reminder[r] EXCEPT !.status = status]
      BY <2>2 DEF Stop, OnceInv, TypeOK
    <3>2. reminder[r] \in Reminder
      BY DEF OnceInv, TypeOK
    <3>. QED  BY <2>2, <3>1, <3>2 DEF Stop, Stopped, OnceInv, TypeOK, Reminder
  <2>. QED  BY <2>1, <2>2 DEF Request
<1>3. ASSUME ~mishap PROVE (Alone /\ MailedIsMarked /\ TodoIsFresh)'
  <2>1. Alone /\ MailedIsMarked /\ TodoIsFresh
    BY <1>3 DEF OnceInv
  <2>2. Alone'
    BY <1>1, <2>1 DEF Alone
  <2>3. MailedIsMarked'
    <3>1. ASSUME NEW q \in Ids, NEW o \in Offsets, Mailed(q, o)
          PROVE  /\ mails[q][o] = 1
                 /\ reminder'[q].status # "none"
                 /\ o \in reminder'[q].sent \/ \E d \in Dispatchers : <<q, o>> \in run[d].newly
      <4>1. /\ mails[q][o] = 1 /\ reminder[q].status # "none"
            /\ o \in reminder[q].sent \/ \E d \in Dispatchers : <<q, o>> \in run[d].newly
        BY <2>1, <3>1 DEF MailedIsMarked
      <4>2. reminder'[q].sent = reminder[q].sent /\ reminder'[q].status # "none"
        BY <1>2, <4>1
      <4>. QED  BY <4>1, <4>2
    <3>. QED  BY <1>1, <3>1 DEF MailedIsMarked, Mailed
  <2>4. TodoIsFresh'
    BY <1>1, <1>2, <2>1, ZenonT(40) DEF TodoIsFresh
  <2>. QED  BY <2>2, <2>3, <2>4
<1>. QED  BY <1>1, <1>3 DEF OnceInv, IdleIsEmpty

LEMMA StartOnce ==
  ASSUME OnceInv, TypeOK', NEW d \in Dispatchers, StartDispatch(d) PROVE OnceInv'
<1>. DEFINE active == {r \in Ids : reminder[r].status = "active"}
            past == {r \in active : reminder[r].endsOn < today}
            loaded == [r \in Ids |-> IF r \in active THEN reminder[r] ELSE NoReminder]
            todo == {x \in (active \ past) \X Offsets : x[2] \in DueOffsets(reminder[x[1]], today)}
            u == [phase |-> "sending", loaded |-> loaded, todo |-> todo,
                  newly |-> {}, expired |-> past]
<1>1. /\ run' = [run EXCEPT ![d] = u] /\ UNCHANGED <<reminder, mails>>
      /\ run[d].phase = "idle"
      /\ mishap' = (mishap \/ \E e \in Dispatchers : run[e].phase # "idle")
  BY DEF StartDispatch
<1>2. /\ u.phase = "sending" /\ u.newly = {} /\ u.todo = todo /\ u.loaded = loaded
  OBVIOUS
<1>3. \A r \in Ids, o \in Offsets : <<r, o>> \in todo =>
        /\ o \notin reminder[r].sent
        /\ reminder[r].status # "none"
        /\ loaded[r].sent = reminder[r].sent
  BY DEF DueOffsets
<1>. HIDE DEF u, todo, loaded
<1>4. run'[d] = u /\ \A e \in Dispatchers \ {d} : run'[e] = run[e]
  BY <1>1 DEF OnceInv, TypeOK
<1>5. IdleIsEmpty'
  BY <1>2, <1>4 DEF IdleIsEmpty, OnceInv
<1>6. ASSUME ~mishap' PROVE (Alone /\ MailedIsMarked /\ TodoIsFresh)'
  <2>1. /\ Alone /\ MailedIsMarked /\ TodoIsFresh
        /\ \A e \in Dispatchers : run[e].phase = "idle"
    BY <1>1, <1>6 DEF OnceInv
  <2>2. \A e \in Dispatchers : run[e].newly = {}
    BY <2>1 DEF OnceInv, IdleIsEmpty, NoRun
  <2>3. Alone'
    BY <1>4, <2>1 DEF Alone
  <2>4. MailedIsMarked'
    BY <1>1, <2>1, <2>2 DEF MailedIsMarked, Mailed
  <2>5. TodoIsFresh'
    BY <1>1, <1>2, <1>3, <1>4, <2>1, ZenonT(40) DEF TodoIsFresh
  <2>. QED  BY <2>3, <2>4, <2>5
<1>. QED  BY <1>5, <1>6 DEF OnceInv

LEMMA SendOnce ==
  ASSUME OnceInv, TypeOK', NEW d \in Dispatchers, NEW r \in Ids, NEW o \in Offsets,
         NEW outcome \in Outcomes, SendReminder(d, r, o, outcome)
  PROVE  OnceInv'
<1>1. run[d] \in Run /\ mails[r][o] \in Nat
  BY DEF OnceInv, TypeOK
<1>2. /\ UNCHANGED reminder
      /\ \A e \in Dispatchers \ {d} : run'[e] = run[e]
      /\ run'[d].phase = run[d].phase /\ run'[d].loaded = run[d].loaded
      /\ run'[d].todo = run[d].todo \ {<<r, o>>}
      /\ run'[d].newly = IF outcome.ok THEN run[d].newly \cup {<<r, o>>} ELSE run[d].newly
  BY <1>1 DEF SendReminder, OnceInv, TypeOK, Run
<1>3. /\ mails'[r][o] = Counted(mails[r][o] + outcome.copies)
      /\ \A q \in Ids, p \in Offsets : <<q, p>> # <<r, o>> => mails'[q][p] = mails[q][p]
  BY DEF SendReminder, OnceInv, TypeOK
<1>4. <<r, o>> \in run[d].todo
  BY DEF SendReminder
<1>5. run[d].phase # "idle"
  BY <1>4 DEF OnceInv, IdleIsEmpty, NoRun
<1>6. IdleIsEmpty'
  BY <1>2, <1>5 DEF OnceInv, IdleIsEmpty
<1>7. ASSUME ~mishap' PROVE (Alone /\ MailedIsMarked /\ TodoIsFresh)'
  <2>1. ~mishap /\ outcome.copies = IF outcome.ok THEN 1 ELSE 0
    BY <1>7 DEF SendReminder
  <2>2. Alone /\ MailedIsMarked /\ TodoIsFresh
    BY <2>1 DEF OnceInv
  <2>3. Alone'
    BY <1>2, <2>2 DEF Alone
  <2>4. \A e \in Dispatchers : <<r, o>> \notin run[e].newly
    <3>1. <<r, o>> \notin run[d].newly
      BY <1>4, <2>2 DEF TodoIsFresh
    <3>2. \A e \in Dispatchers \ {d} : run[e].newly = {}
      BY <1>5, <2>2 DEF Alone, OnceInv, IdleIsEmpty, NoRun
    <3>. QED  BY <3>1, <3>2
  <2>5. mails[r][o] = 0
    BY <1>1, <1>4, <2>2, <2>4 DEF MailedIsMarked, TodoIsFresh, Mailed
  <2>6. mails'[r][o] = IF outcome.ok THEN 1 ELSE 0
    BY <1>3, <2>1, <2>5, RemindersAssumption DEF Counted
  <2>7. \A e \in Dispatchers : run[e].newly \subseteq run'[e].newly
    BY <1>2
  <2>8. MailedIsMarked'
    <3>1. ASSUME NEW q \in Ids, NEW p \in Offsets, Mailed(q, p)', <<q, p>> # <<r, o>>
          PROVE  /\ mails'[q][p] = 1 /\ reminder'[q].status # "none"
                 /\ p \in reminder'[q].sent \/ \E e \in Dispatchers : <<q, p>> \in run'[e].newly
      BY <1>2, <1>3, <2>2, <2>7, <3>1 DEF MailedIsMarked, Mailed
    <3>2. ASSUME Mailed(r, o)'
          PROVE  /\ mails'[r][o] = 1 /\ reminder'[r].status # "none"
                 /\ <<r, o>> \in run'[d].newly
      BY <1>2, <1>4, <2>2, <2>6, <3>2 DEF Mailed, TodoIsFresh
    <3>. QED  BY <3>1, <3>2 DEF MailedIsMarked
  <2>9. ASSUME NEW e \in Dispatchers, NEW q \in Ids, NEW p \in Offsets
        PROVE  /\ <<q, p>> \in run'[e].todo =>
                    p \notin reminder'[q].sent /\ <<q, p>> \notin run'[e].newly
               /\ <<q, p>> \in run'[e].todo \cup run'[e].newly =>
                    /\ reminder'[q].status # "none"
                    /\ run'[e].loaded[q].sent = reminder'[q].sent
    <3>1. CASE e # d
      BY <1>2, <2>2, <3>1 DEF TodoIsFresh
    <3>2. CASE e = d
      <4>1. <<q, p>> \in run'[d].todo => <<q, p>> \in run[d].todo /\ <<q, p>> # <<r, o>>
        BY <1>2
      <4>2. <<q, p>> \in run'[d].newly => <<q, p>> \in run[d].newly \/ <<q, p>> = <<r, o>>
        BY <1>2
      <4>3. <<q, p>> \in run'[d].todo \cup run'[d].newly =>
              <<q, p>> \in run[d].todo \cup run[d].newly
        BY <1>4, <4>1, <4>2
      <4>. QED  BY <1>2, <2>2, <3>2, <4>1, <4>2, <4>3 DEF TodoIsFresh
    <3>. QED  BY <3>1, <3>2
  <2>10. TodoIsFresh'
    BY <2>9 DEF TodoIsFresh
  <2>. QED  BY <2>3, <2>8, <2>10
<1>. QED  BY <1>6, <1>7 DEF OnceInv

LEMMA FinishOnce ==
  ASSUME OnceInv, TypeOK', NEW d \in Dispatchers, FinishDispatch(d) PROVE OnceInv'
<1>1. /\ UNCHANGED <<mails, mishap>> /\ run[d].phase = "sending" /\ run[d].todo = {}
      /\ run'[d] = NoRun /\ \A e \in Dispatchers \ {d} : run'[e] = run[e]
      /\ \A r \in Ids : reminder'[r] = Flushed(d, r)
  BY DEF FinishDispatch, OnceInv, TypeOK
<1>2. NoRun.phase = "idle" /\ NoRun.todo = {} /\ NoRun.newly = {}
  BY DEF NoRun
<1>3. \A r \in Ids :
        /\ Flushed(d, r).sent = IF Newly(d, r) = {} THEN reminder[r].sent
                                ELSE run[d].loaded[r].sent \cup Newly(d, r)
        /\ Flushed(d, r).status \in {"expired", reminder[r].status}
  BY DEF Flushed, OnceInv, TypeOK, Reminder
<1>4. IdleIsEmpty'
  BY <1>1 DEF OnceInv, IdleIsEmpty
<1>5. ASSUME ~mishap PROVE (Alone /\ MailedIsMarked /\ TodoIsFresh)'
  <2>1. Alone /\ MailedIsMarked /\ TodoIsFresh
    BY <1>5 DEF OnceInv
  <2>2. \A e \in Dispatchers \ {d} : run[e] = NoRun
    BY <1>1, <2>1 DEF Alone, OnceInv, IdleIsEmpty
  <2>3. \A e \in Dispatchers : run'[e] = NoRun
    BY <1>1, <2>2
  <2>4. ASSUME NEW r \in Ids
        PROVE  reminder'[r].sent = reminder[r].sent \cup Newly(d, r)
    <3>1. Newly(d, r) # {} => run[d].loaded[r].sent = reminder[r].sent
      BY <2>1 DEF TodoIsFresh, Newly
    <3>. QED  BY <1>1, <1>3, <3>1
  <2>5. MailedIsMarked'
    <3>1. ASSUME NEW r \in Ids, NEW o \in Offsets, Mailed(r, o)
          PROVE  o \in reminder'[r].sent /\ reminder'[r].status # "none" /\ mails[r][o] = 1
      <4>1. o \in reminder[r].sent \/ <<r, o>> \in run[d].newly
        BY <1>2, <2>1, <2>2, <3>1 DEF MailedIsMarked
      <4>. QED  BY <1>1, <1>3, <2>1, <2>4, <3>1, <4>1, ZenonT(40) DEF MailedIsMarked, Newly
    <3>. QED  BY <1>1, <3>1 DEF MailedIsMarked, Mailed
  <2>6. Alone' /\ TodoIsFresh'
    BY <1>2, <2>3 DEF Alone, TodoIsFresh
  <2>. QED  BY <2>5, <2>6
<1>. QED  BY <1>1, <1>4, <1>5 DEF OnceInv

LEMMA NextOnce == OnceInv /\ [Next]_vars => OnceInv'
<1>. SUFFICES ASSUME OnceInv, [Next]_vars PROVE OnceInv'
  OBVIOUS
<1>1. TypeOK'
  BY NextType DEF OnceInv
<1>2. ASSUME NEW d \in Dispatchers, Crash(d) PROVE OnceInv'
  <2>1. mishap' /\ \A e \in Dispatchers : run'[e] \in {NoRun, run[e]}
    BY <1>2 DEF Crash, OnceInv, TypeOK
  <2>. QED  BY <1>1, <2>1 DEF OnceInv, IdleIsEmpty
<1>3. CASE NextDay \/ UNCHANGED vars
  BY <1>1, <1>3 DEF NextDay, vars, OnceInv, IdleIsEmpty, Alone, MailedIsMarked, TodoIsFresh, Mailed
<1>. QED  BY <1>1, <1>2, <1>3, RequestOnce, StartOnce, SendOnce, FinishOnce DEF Next, Dispatch

(* "So we never send the same reminder twice", as long as no dispatch dies *)
(* or overlaps another and no provider's answer is lost.                   *)
THEOREM MailedOnce == Spec => []MailedOnceUnlessMishap
<1>1. OnceInv => MailedOnceUnlessMishap
  <2>1. ASSUME OnceInv, ~mishap, NEW r \in Ids, NEW o \in Offsets PROVE mails[r][o] <= 1
    <3>1. mails[r][o] \in Nat
      BY <2>1 DEF OnceInv, TypeOK
    <3>2. mails[r][o] > 0 => mails[r][o] = 1
      BY <2>1 DEF OnceInv, MailedIsMarked, Mailed
    <3>. QED  BY <3>1, <3>2
  <2>. QED  BY <2>1 DEF MailedOnceUnlessMishap
<1>. QED  BY <1>1, InitOnce, NextOnce, PTL DEF Spec

=============================================================================
