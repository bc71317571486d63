------------------------------ MODULE Reminders ------------------------------
(***************************************************************************)
(* Cancel reminders: the endpoints that create and stop them, and the      *)
(* dispatch that mails what is due and marks it sent.                      *)
(*                                                                         *)
(* A dispatch is one database session over many mails: it SELECTs the      *)
(* active reminders once, sends mail after mail (each up to two provider   *)
(* calls of 30 s) and commits the marks at the very end.  Requests come in *)
(* meanwhile, the process may die in between, and a dispatch whose message *)
(* was delivered again may run beside another.  Nothing locks the rows, and*)
(* a commit writes the columns that changed in its own copy, no others.    *)
(***************************************************************************)
EXTENDS Integers, FiniteSets

CONSTANTS
  Ids,           \* reminders that may be created
  Dispatchers,   \* concurrent runs of dispatch_due_reminders
  Offsets,       \* day offsets a user may ask for
  Outcomes,      \* what send_email may do: mails delivered, and its answer
  LastDay,       \* bound: last day of the calendar
  MaxMails       \* bound: mails counted per offset, that many or more

ASSUME RemindersAssumption ==
  /\ Offsets \subseteq 0 .. 60
  /\ Outcomes \subseteq [copies : Nat, ok : BOOLEAN]
  /\ \A outcome \in Outcomes : outcome.ok => outcome.copies > 0
  /\ LastDay \in Nat
  /\ MaxMails \in Nat \ {0}

VARIABLES
  reminder,   \* reminder[r]: the committed row
  run,        \* run[d]: the dispatch d is in the middle of
  today,      \* the calendar
  mails,      \* history: mails[r][o], reminder mails of r for offset o delivered
  mishap      \* history: a run died, ran beside another, or a provider's answer was lost

vars == <<reminder, run, today, mails, mishap>>

Stopped == {"cancelled", "unsubscribed"}
Status == {"none", "active", "expired"} \cup Stopped
Reminder == [status : Status, endsOn : Nat, offsets : SUBSET Offsets, sent : SUBSET Offsets]
Run == [phase : {"idle", "sending"}, loaded : [Ids -> Reminder],
        todo : SUBSET (Ids \X Offsets), newly : SUBSET (Ids \X Offsets),
        expired : SUBSET Ids]

NoReminder == [status |-> "none", endsOn |-> 0, offsets |-> {}, sent |-> {}]
NoRun == [phase |-> "idle", loaded |-> [r \in Ids |-> NoReminder],
          todo |-> {}, newly |-> {}, expired |-> {}]

Init ==
  /\ reminder = [r \in Ids |-> NoReminder]
  /\ run = [d \in Dispatchers |-> NoRun]
  /\ today = 1
  /\ mails = [r \in Ids |-> [o \in Offsets |-> 0]]
  /\ mishap = FALSE

----------------------------------------------------------------------------
(* The endpoints.                                                          *)

(* An end date in the past is refused; no valid offset means {3, 1}.       *)
CreateReminder(r, endsOn, offsets) ==
  /\ reminder[r].status = "none"
  /\ endsOn >= today
  /\ offsets # {}
  /\ reminder' = [reminder EXCEPT ![r] = [status |-> "active", endsOn |-> endsOn,
                                          offsets |-> offsets, sent |-> {}]]
  /\ UNCHANGED <<run, today, mails, mishap>>

(* Both links work whatever the status is.                                 *)
Stop(r, status) ==
  /\ reminder[r].status # "none"
  /\ reminder' = [reminder EXCEPT ![r].status = status]
  /\ UNCHANGED <<run, today, mails, mishap>>

----------------------------------------------------------------------------
(* The dispatch.                                                           *)

DueOffsets(row, day) ==
  {o \in row.offsets \ row.sent : 0 <= row.endsOn - day /\ row.endsOn - day <= o}

(* Reminders past their end date are to expire; of the others, every due   *)
(* offset is to be mailed.                                                 *)
StartDispatch(d) ==
  LET active == {r \in Ids : reminder[r].status = "active"}
      past   == {r \in active : reminder[r].endsOn < today}
  IN  /\ run[d].phase = "idle"
      /\ run' = [run EXCEPT ![d] =
           [phase   |-> "sending",
            loaded  |-> [r \in Ids |-> IF r \in active THEN reminder[r] ELSE NoReminder],
            todo    |-> {x \in (active \ past) \X Offsets :
                           x[2] \in DueOffsets(reminder[x[1]], today)},
            newly   |-> {},
            expired |-> past]]
      /\ mishap' = (mishap \/ \E e \in Dispatchers : run[e].phase # "idle")
      /\ UNCHANGED <<reminder, today, mails>>

Counted(n) == IF n > MaxMails THEN MaxMails ELSE n

\* Mutant: the mark is set whatever send returned.
SendMarkingAlways(d, r, o, outcome) ==
  /\ <<r, o>> \in run[d].todo
  /\ \A p \in Offsets : <<r, p>> \in run[d].todo => p <= o
  /\ mails' = [mails EXCEPT ![r][o] = Counted(@ + outcome.copies)]
  /\ run' = [run EXCEPT ![d].todo = @ \ {<<r, o>>}, ![d].newly = @ \cup {<<r, o>>}]
  /\ mishap' = (mishap \/ outcome.copies # (IF outcome.ok THEN 1 ELSE 0))
  /\ UNCHANGED <<reminder, today>>

(* The largest offset of a reminder first; only an accepted mail is marked.*)
SendReminder(d, r, o, outcome) ==
  /\ <<r, o>> \in run[d].todo
  /\ \A p \in Offsets : <<r, p>> \in run[d].todo => p <= o
  /\ mails' = [mails EXCEPT ![r][o] = Counted(@ + outcome.copies)]
  /\ run' = [run EXCEPT ![d].todo = @ \ {<<r, o>>},
                        ![d].newly = IF outcome.ok THEN @ \cup {<<r, o>>} ELSE @]
  /\ mishap' = (mishap \/ outcome.copies # (IF outcome.ok THEN 1 ELSE 0))
  /\ UNCHANGED <<reminder, today>>

Newly(d, r) == {o \in Offsets : <<r, o>> \in run[d].newly}

\* Mutants: the whole row written back; the marks of this run replacing the others;
\* a status outside the enumeration.
FlushRow(d, r) ==
  IF run[d].loaded[r].status # "active" THEN reminder[r]
  ELSE [run[d].loaded[r] EXCEPT !.sent = @ \cup Newly(d, r),
                                !.status = IF r \in run[d].expired THEN "expired" ELSE @]
FlushForgetting(d, r) ==
  [reminder[r] EXCEPT
     !.sent = IF Newly(d, r) = {} THEN @ ELSE Newly(d, r),
     !.status = IF r \in run[d].expired THEN "expired" ELSE @]

FlushDone(d, r) ==
  [reminder[r] EXCEPT
     !.sent = IF Newly(d, r) = {} THEN @ ELSE run[d].loaded[r].sent \cup Newly(d, r),
     !.status = IF r \in run[d].expired THEN "expired"
                ELSE IF Newly(d, r) = {} THEN @ ELSE "sent"]

(* What the commit makes of row r: sent_offsets is rewritten from the copy *)
(* when something was mailed, status when the reminder is past.            *)
Flushed(d, r) ==
  [reminder[r] EXCEPT
     !.sent = IF Newly(d, r) = {} THEN @ ELSE run[d].loaded[r].sent \cup Newly(d, r),
     !.status = IF r \in run[d].expired THEN "expired" ELSE @]

FinishDispatch(d) ==
  /\ run[d].phase = "sending"
  /\ run[d].todo = {}
  /\ reminder' = [r \in Ids |-> Flushed(d, r)]
  /\ run' = [run EXCEPT ![d] = NoRun]
  /\ UNCHANGED <<today, mails, mishap>>

(* The process dies: what was mailed stays mailed, the marks are lost.     *)
Crash(d) ==
  /\ run[d].phase = "sending"
  /\ run' = [run EXCEPT ![d] = NoRun]
  /\ mishap' = TRUE
  /\ UNCHANGED <<reminder, today, mails>>

NextDay ==
  /\ today < LastDay
  /\ today' = today + 1
  /\ UNCHANGED <<reminder, run, mails, mishap>>

Request(r) ==
  \/ \E endsOn \in 1 .. LastDay, offsets \in SUBSET Offsets : CreateReminder(r, endsOn, offsets)
  \/ \E status \in Stopped : Stop(r, status)

Dispatch(d) ==
  \/ StartDispatch(d)
  \/ \E r \in Ids, o \in Offsets, outcome \in Outcomes : SendReminder(d, r, o, outcome)
  \/ FinishDispatch(d)
  \/ Crash(d)

Next == \/ \E r \in Ids : Request(r)
        \/ \E d \in Dispatchers : Dispatch(d)
        \/ NextDay

Spec == Init /\ [][Next]_vars

(* Beat starts a dispatch for ever; one that is killed is started again; it*)
(* is not killed for ever, nor does the provider refuse a mail for ever.   *)
Accepted(d, r, o) == \E outcome \in Outcomes : outcome.ok /\ SendReminder(d, r, o, outcome)

Fairness ==
  \A d \in Dispatchers :
    /\ WF_vars(StartDispatch(d))
    /\ WF_vars(\E r \in Ids, o \in Offsets, outcome \in Outcomes : SendReminder(d, r, o, outcome))
    /\ SF_vars(FinishDispatch(d))
    /\ \A r \in Ids, o \in Offsets : SF_vars(Accepted(d, r, o))

FairSpec == Spec /\ Fairness

----------------------------------------------------------------------------
(* Properties.                                                             *)

TypeOK ==
  /\ reminder \in [Ids -> Reminder]
  /\ run \in [Dispatchers -> Run]
  /\ today \in Nat
  /\ mails \in [Ids -> [Offsets -> 0 .. MaxMails]]
  /\ mishap \in BOOLEAN

(* "Marked sent only when the send actually succeeds": a mark stands for a *)
(* mail that was delivered, although marks are written long after, from a  *)
(* copy, and perhaps by a run that overlaps another.                       *)
MarkedWasMailed == \A r \in Ids : \A o \in reminder[r].sent : mails[r][o] > 0

(* A user who stopped a reminder never finds it active again: a dispatch   *)
(* that loaded it before cannot undo the request.                          *)
StopIsFinal ==
  [][\A r \in Ids : reminder[r].status \in Stopped => reminder'[r].status # "active"]_vars

(* As long as no run dies, overlaps another or loses a provider's answer,  *)
(* each offset of a reminder is mailed once at most: "so we never send the *)
(* same reminder twice".                                                   *)
MailedOnceUnlessMishap ==
  ~mishap => \A r \in Ids, o \in Offsets : mails[r][o] <= 1

(* Nothing is lost: a reminder that is due is mailed, stopped by its user, *)
(* or past its end date.                                                   *)
DueIsMailed ==
  \A r \in Ids, o \in Offsets :
    (reminder[r].status = "active" /\ o \in DueOffsets(reminder[r], today)) ~>
      (mails[r][o] > 0 \/ reminder[r].status \in Stopped \/ reminder[r].endsOn < today)

=============================================================================
