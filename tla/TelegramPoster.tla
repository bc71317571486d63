---------------------------- MODULE TelegramPoster ----------------------------
(***************************************************************************)
(* The beat task that posts newly verified coupons and trials to the       *)
(* channel: it takes the freshest of each, asks a Redis set whether an item*)
(* was posted, sends it, and then marks it.  Every Redis call that fails   *)
(* counts as "no" or as nothing, every send that fails as not sent; runs   *)
(* may overlap and may be killed between any two calls.                    *)
(***************************************************************************)
EXTENDS Integers, FiniteSets, Sequences, SequencesExt

CONSTANTS
  Coupons, Trials,  \* what may be verified, and posted
  Runs,             \* runs of the task that may overlap
  Refused,          \* items whose text Telegram does not accept
  Window,           \* how many of each kind a run looks at
  Limit,            \* telegram_post_max_per_run
  MaxFaults         \* bound: failed calls and killed runs

Items == Coupons \cup Trials

ASSUME PosterAssumption ==
  /\ Coupons \cap Trials = {}
  /\ IsFiniteSet(Items)
  /\ Refused \subseteq Items
  /\ {Window, Limit, MaxFaults} \subseteq Nat

VARIABLES
  coupons,   \* the verified coupons, freshest first
  trials,    \* the verified trials, freshest first
  posted,    \* the set tg:posted
  run,       \* run[r]: where a run stands
  sent,      \* history: the items the channel showed
  repeats,   \* history: how many messages showed an item again
  faults,    \* history: failed calls and killed runs
  overlap    \* history: two runs were under way at once

vars == <<coupons, trials, posted, run, sent, repeats, faults, overlap>>

Idle == [step |-> "idle", phase |-> "coupons", rest |-> <<>>, count |-> 0]

Init ==
  /\ coupons = <<>> /\ trials = <<>>
  /\ posted = {}
  /\ run = [r \in Runs |-> Idle]
  /\ sent = {} /\ repeats = 0
  /\ faults = 0 /\ overlap = FALSE

Freshest(list) == SubSeq(list, 1, IF Len(list) < Window THEN Len(list) ELSE Window)

----------------------------------------------------------------------------
(* A run.                                                                  *)

\* Mutant: one item too many.
LimitPassed(r) == run[r].count > Limit

LimitReached(r) == run[r].count >= Limit

Item(r) == Head(run[r].rest)

AtItem(r, step) == run[r].step = step /\ run[r].rest # <<>>

Mishap == faults < MaxFaults /\ faults' = faults + 1

(* The coupons are read first; the objects serve the whole loop.           *)
Start(r) ==
  /\ run[r].step = "idle"
  /\ run' = [run EXCEPT ![r] = [Idle EXCEPT !.step = "check", !.rest = Freshest(coupons)]]
  /\ overlap' = (overlap \/ \E s \in Runs : run[s].step # "idle")
  /\ UNCHANGED <<coupons, trials, posted, sent, repeats, faults>>

PassOver(r) == run' = [run EXCEPT ![r] = [@ EXCEPT !.step = "check", !.rest = Tail(run[r].rest)]]

(* is_posted answers yes.                                                  *)
Skip(r) ==
  /\ AtItem(r, "check") /\ ~LimitReached(r)
  /\ Item(r) \in posted
  /\ PassOver(r)
  /\ UNCHANGED <<coupons, trials, posted, sent, repeats, faults, overlap>>

\* Mutant: the item is sent whatever is_posted says.
TryAlways(r) ==
  /\ AtItem(r, "check") /\ ~LimitReached(r)
  /\ run' = [run EXCEPT ![r].step = "send"]
  /\ UNCHANGED <<coupons, trials, posted, sent, repeats, faults, overlap>>

Try(r) ==
  /\ AtItem(r, "check") /\ ~LimitReached(r)
  /\ Item(r) \notin posted
  /\ run' = [run EXCEPT ![r].step = "send"]
  /\ UNCHANGED <<coupons, trials, posted, sent, repeats, faults, overlap>>

(* Redis does not answer: is_posted returns False.                         *)
TryBlind(r) ==
  /\ AtItem(r, "check") /\ ~LimitReached(r)
  /\ Item(r) \in posted
  /\ Mishap
  /\ run' = [run EXCEPT ![r].step = "send"]
  /\ UNCHANGED <<coupons, trials, posted, sent, repeats, overlap>>

(* The channel shows an item, for the first time or again.                 *)
Show(i) ==
  /\ sent' = sent \cup {i}
  /\ repeats' = IF i \in sent THEN repeats + 1 ELSE repeats

SendMessage(r) ==
  /\ AtItem(r, "send")
  /\ Item(r) \notin Refused
  /\ Show(Item(r))
  /\ run' = [run EXCEPT ![r].step = "mark"]
  /\ UNCHANGED <<coupons, trials, posted, faults, overlap>>

\* Mutant: an item that was refused counts against the limit.
SendRefusedCounted(r) ==
  /\ AtItem(r, "send")
  /\ Item(r) \in Refused
  /\ run' = [run EXCEPT ![r] = [@ EXCEPT !.step = "check", !.rest = Tail(run[r].rest),
                                    !.count = run[r].count + 1]]
  /\ UNCHANGED <<coupons, trials, posted, sent, repeats, faults, overlap>>

\* Mutant: an item is marked whether or not it was sent.
SendRefusedMarked(r) ==
  /\ AtItem(r, "send")
  /\ Item(r) \in Refused
  /\ run' = [run EXCEPT ![r].step = "mark"]
  /\ UNCHANGED <<coupons, trials, posted, sent, repeats, faults, overlap>>

SendRefused(r) ==
  /\ AtItem(r, "send")
  /\ Item(r) \in Refused
  /\ PassOver(r)
  /\ UNCHANGED <<coupons, trials, posted, sent, repeats, faults, overlap>>

(* The request fails, before or after the channel showed the message.      *)
SendFails(r) ==
  /\ AtItem(r, "send")
  /\ Item(r) \notin Refused
  /\ Mishap
  /\ Show(Item(r)) \/ UNCHANGED <<sent, repeats>>
  /\ PassOver(r)
  /\ UNCHANGED <<coupons, trials, posted, overlap>>

Counted(r) ==
  run' = [run EXCEPT ![r] = [@ EXCEPT !.step = "check", !.rest = Tail(run[r].rest),
                                    !.count = run[r].count + 1]]

MarkPosted(r) ==
  /\ AtItem(r, "mark")
  /\ posted' = posted \cup {Item(r)}
  /\ Counted(r)
  /\ UNCHANGED <<coupons, trials, sent, repeats, faults, overlap>>

(* Redis does not answer: mark_posted does nothing, the run goes on.       *)
MarkLost(r) ==
  /\ AtItem(r, "mark")
  /\ Mishap
  /\ Counted(r)
  /\ UNCHANGED <<coupons, trials, posted, sent, repeats, overlap>>

LoopEnds(r, phase) ==
  /\ run[r].step = "check" /\ run[r].phase = phase
  /\ run[r].rest = <<>> \/ LimitReached(r)

(* The trials are read when the coupons are done.                          *)
LoadTrials(r) ==
  /\ LoopEnds(r, "coupons")
  /\ run' = [run EXCEPT ![r] = [@ EXCEPT !.phase = "trials", !.rest = Freshest(trials)]]
  /\ UNCHANGED <<coupons, trials, posted, sent, repeats, faults, overlap>>

Finish(r) ==
  /\ LoopEnds(r, "trials")
  /\ run' = [run EXCEPT ![r] = Idle]
  /\ UNCHANGED <<coupons, trials, posted, sent, repeats, faults, overlap>>

Crash(r) ==
  /\ run[r].step # "idle"
  /\ Mishap
  /\ run' = [run EXCEPT ![r] = Idle]
  /\ UNCHANGED <<coupons, trials, posted, sent, repeats, overlap>>

----------------------------------------------------------------------------
(* What validation does meanwhile: a pass puts an item in front, a failure *)
(* takes it off the list, on which an item is once at most.                *)
Verify(i) ==
  /\ \/ i \in Coupons /\ coupons' = <<i>> \o RemoveFirst(coupons, i) /\ UNCHANGED trials
     \/ i \in Trials /\ trials' = <<i>> \o RemoveFirst(trials, i) /\ UNCHANGED coupons
  /\ UNCHANGED <<posted, run, sent, repeats, faults, overlap>>

Withdraw(i) ==
  /\ i \in ToSet(coupons \o trials)
  /\ coupons' = RemoveFirst(coupons, i)
  /\ trials' = RemoveFirst(trials, i)
  /\ UNCHANGED <<posted, run, sent, repeats, faults, overlap>>

Proceed(r) ==
  \/ Start(r) \/ Skip(r) \/ Try(r) \/ SendMessage(r) \/ SendRefused(r)
  \/ MarkPosted(r) \/ LoadTrials(r) \/ Finish(r)

Next ==
  \/ \E r \in Runs : Proceed(r) \/ TryBlind(r) \/ SendFails(r) \/ MarkLost(r) \/ Crash(r)
  \/ \E i \in Items : Verify(i) \/ Withdraw(i)

Spec == Init /\ [][Next]_vars

(* The beat starts the task for ever and every call has a time limit.      *)
FairSpec == Spec /\ \A r \in Runs : WF_vars(Proceed(r))

----------------------------------------------------------------------------
(* Properties.                                                             *)

(* Every variable has its type; no run counts more than its limit.         *)
TypeOK ==
  /\ coupons \in Seq(Coupons) /\ trials \in Seq(Trials)
  /\ posted \subseteq Items
  /\ \A r \in Runs :
       /\ run[r].step \in {"idle", "check", "send", "mark"}
       /\ run[r].phase \in {"coupons", "trials"}
       /\ run[r].rest \in Seq(Items)
       /\ run[r].count \in 0 .. Limit
  /\ sent \subseteq Items /\ repeats \in Nat
  /\ faults \in 0 .. MaxFaults /\ overlap \in BOOLEAN

(* No item is hidden from the channel by a mark that stands for nothing.   *)
MarkedWasSent == posted \subseteq sent

(* "So an item is never posted twice": while runs do not overlap, every    *)
(* call that fails and every run that dies repeats one message at most.    *)
RepeatsAreMishaps == ~overlap => repeats <= faults

Shown(i) == i \in ToSet(Freshest(coupons) \o Freshest(trials))

(* A verified item that stays among the freshest is posted, whatever the   *)
(* limit per run, the failures, and the items Telegram refuses for ever.   *)
FreshIsPosted ==
  \A i \in Items \ Refused : Shown(i) ~> (i \in posted \/ ~Shown(i))

=============================================================================
