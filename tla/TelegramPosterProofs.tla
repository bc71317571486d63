------------------------- MODULE TelegramPosterProofs -------------------------
(***************************************************************************)
(* Theorems about TelegramPoster, for any finite sets of items, any runs,  *)
(* any window and any limit.                                               *)
(***************************************************************************)
EXTENDS TelegramPoster, FiniteSetTheorems, WellFoundedInduction, TLAPS

(* Runs keep the shape of their record.                                    *)
RunOf(A, B, C, D) == [step : A, phase : B, rest : C, count : D]

Shaped ==
  /\ run = [r \in Runs |-> run[r]]
  /\ \A r \in Runs : \E A, B, C, D : run[r] \in RunOf(A, B, C, D)

(* What a step of a run does to the run: the others stay as they are.      *)
Moves(r) ==
  /\ Shaped'
  /\ \A s \in Runs : s # r => run'[s] = run[s]

LEMMA RecordMoves ==
  ASSUME Shaped, NEW r \in Runs, NEW new, run' = [run EXCEPT ![r] = new],
         NEW A, NEW B, NEW C, NEW D, new \in RunOf(A, B, C, D)
  PROVE  Moves(r) /\ run'[r] = new
<1>1. run' = [s \in Runs |-> IF s = r THEN new ELSE run[s]]
  BY DEF Shaped
<1>2. \A s \in Runs : \E P, Q, R, S : run'[s] \in RunOf(P, Q, R, S)
  BY <1>1 DEF Shaped
<1>. QED  BY <1>1, <1>2 DEF Shaped, Moves

LEMMA PassOverMoves ==
  ASSUME Shaped, NEW r \in Runs, PassOver(r)
  PROVE  Moves(r) /\ run'[r].step = "check"
<1>1. PICK A, B, C, D : run[r] \in RunOf(A, B, C, D)
  BY DEF Shaped
<1>. DEFINE new == [run[r] EXCEPT !.step = "check", !.rest = Tail(run[r].rest)]
<1>2. run' = [run EXCEPT ![r] = new]
  BY <1>1 DEF PassOver, RunOf
<1>3. new \in RunOf({"check"}, B, {Tail(run[r].rest)}, D) /\ new.step = "check"
  BY <1>1 DEF RunOf
<1>. HIDE DEF new
<1>. QED  BY <1>2, <1>3, RecordMoves

LEMMA CountedMoves ==
  ASSUME Shaped, NEW r \in Runs, Counted(r)
  PROVE  Moves(r) /\ run'[r].step = "check"
<1>1. PICK A, B, C, D : run[r] \in RunOf(A, B, C, D)
  BY DEF Shaped
<1>. DEFINE new == [run[r] EXCEPT !.step = "check", !.rest = Tail(run[r].rest),
                            !.count = run[r].count + 1]
<1>2. run' = [run EXCEPT ![r] = new]
  BY <1>1 DEF Counted, RunOf
<1>3. new \in RunOf({"check"}, B, {Tail(run[r].rest)}, {run[r].count + 1}) /\ new.step = "check"
  BY <1>1 DEF RunOf
<1>. HIDE DEF new
<1>. QED  BY <1>2, <1>3, RecordMoves

LEMMA StepMoves ==
  ASSUME Shaped, NEW r \in Runs, NEW step, run' = [run EXCEPT ![r].step = step]
  PROVE  Moves(r) /\ run'[r].step = step /\ run'[r].rest = run[r].rest
<1>1. PICK A, B, C, D : run[r] \in RunOf(A, B, C, D)
  BY DEF Shaped
<1>. DEFINE new == [run[r] EXCEPT !.step = step]
<1>2. run' = [run EXCEPT ![r] = new]
  BY <1>1 DEF Shaped, RunOf
<1>3. new \in RunOf(A \cup {step}, B, C, D) /\ new.step = step /\ new.rest = run[r].rest
  BY <1>1 DEF RunOf
<1>. HIDE DEF new
<1>. QED  BY <1>2, <1>3, RecordMoves

LEMMA IdleMoves ==
  ASSUME Shaped, NEW r \in Runs, run' = [run EXCEPT ![r] = Idle]
  PROVE  Moves(r) /\ run'[r].step = "idle"
<1>1. PICK A, B, C, D : run[r] \in RunOf(A, B, C, D)
  BY DEF Shaped
<1>. DEFINE new == Idle
<1>2. run' = [run EXCEPT ![r] = new]
  BY <1>1 DEF Shaped, RunOf
<1>3. new \in RunOf({"idle"}, {"coupons"}, {<<>>}, {0}) /\ new.step = "idle"
  BY <1>1 DEF RunOf, Idle
<1>. HIDE DEF new
<1>. QED  BY <1>2, <1>3, RecordMoves

LEMMA StartMoves ==
  ASSUME Shaped, NEW r \in Runs, Start(r)
  PROVE  Moves(r) /\ run'[r].step = "check"
<1>1. PICK A, B, C, D : run[r] \in RunOf(A, B, C, D)
  BY DEF Shaped
<1>. DEFINE new == [Idle EXCEPT !.step = "check", !.rest = Freshest(coupons)]
<1>2. run' = [run EXCEPT ![r] = new]
  BY <1>1 DEF Start, RunOf
<1>3. new \in RunOf({"check"}, {"coupons"}, {Freshest(coupons)}, {0}) /\ new.step = "check"
  BY <1>1 DEF RunOf, Idle
<1>. HIDE DEF new
<1>. QED  BY <1>2, <1>3, RecordMoves

LEMMA LoadTrialsMoves ==
  ASSUME Shaped, NEW r \in Runs, LoadTrials(r)
  PROVE  Moves(r) /\ run'[r].step = "check"
<1>1. PICK A, B, C, D : run[r] \in RunOf(A, B, C, D)
  BY DEF Shaped
<1>. DEFINE new == [run[r] EXCEPT !.phase = "trials", !.rest = Freshest(trials)]
<1>2. run' = [run EXCEPT ![r] = new]
  BY <1>1 DEF LoadTrials, RunOf
<1>3. new \in RunOf({"check"}, {"trials"}, {Freshest(trials)}, D) /\ new.step = "check"
  BY <1>1 DEF RunOf, LoadTrials, LoopEnds
<1>. HIDE DEF new
<1>. QED  BY <1>2, <1>3, RecordMoves

----------------------------------------------------------------------------
(* Marks.                                                                  *)

MarkInv ==
  /\ Shaped
  /\ MarkedWasSent
  /\ \A r \in Runs : AtItem(r, "mark") => Item(r) \in sent

(* A step that shows or marks nothing, and leads no run to its mark.       *)
LEMMA QuietKeepsMarks ==
  ASSUME MarkInv, NEW r \in Runs, Moves(r), run'[r].step # "mark",
         sent \subseteq sent', posted' \subseteq posted \cup (IF AtItem(r, "mark") THEN {Item(r)} ELSE {})
  PROVE  MarkInv'
<1>1. MarkedWasSent'
  BY DEF MarkInv, MarkedWasSent
<1>2. ASSUME NEW s \in Runs, AtItem(s, "mark")' PROVE Item(s)' \in sent'
  BY <1>2 DEF MarkInv, Moves, AtItem, Item
<1>. QED  BY <1>1, <1>2 DEF MarkInv, Moves

LEMMA RunKeepsMarks ==
  ASSUME MarkInv, NEW r \in Runs,
         Proceed(r) \/ TryBlind(r) \/ SendFails(r) \/ MarkLost(r) \/ Crash(r)
  PROVE  MarkInv'
<1>. USE DEF MarkInv
<1>1. CASE Start(r)
  BY <1>1, StartMoves, QuietKeepsMarks DEF Start
<1>2. CASE Skip(r)
  BY <1>2, PassOverMoves, QuietKeepsMarks DEF Skip
<1>3. CASE Try(r) \/ TryBlind(r)
  BY <1>3, StepMoves, QuietKeepsMarks DEF Try, TryBlind
<1>4. CASE SendMessage(r)
  <2>1. Moves(r) /\ run'[r].rest = run[r].rest
    BY <1>4, StepMoves DEF SendMessage
  <2>2. sent' = sent \cup {Item(r)} /\ posted' = posted
    BY <1>4 DEF SendMessage, Show
  <2>3. ASSUME NEW s \in Runs, AtItem(s, "mark")' PROVE Item(s)' \in sent'
    BY <2>1, <2>2, <2>3 DEF Moves, AtItem, Item
  <2>. QED  BY <2>1, <2>2, <2>3 DEF Moves, MarkedWasSent
<1>5. CASE SendRefused(r)
  BY <1>5, PassOverMoves, QuietKeepsMarks DEF SendRefused
<1>6. CASE SendFails(r)
  <2>1. Moves(r) /\ run'[r].step = "check"
    BY <1>6, PassOverMoves DEF SendFails
  <2>2. sent \subseteq sent' /\ posted' = posted
    BY <1>6 DEF SendFails, Show
  <2>. QED  BY <2>1, <2>2, QuietKeepsMarks
<1>7. CASE MarkPosted(r)
  BY <1>7, CountedMoves, QuietKeepsMarks DEF MarkPosted
<1>8. CASE MarkLost(r)
  BY <1>8, CountedMoves, QuietKeepsMarks DEF MarkLost
<1>9. CASE LoadTrials(r)
  BY <1>9, LoadTrialsMoves, QuietKeepsMarks DEF LoadTrials
<1>10. CASE Finish(r) \/ Crash(r)
  BY <1>10, IdleMoves, QuietKeepsMarks DEF Finish, Crash
<1>. QED  BY <1>1, <1>2, <1>3, <1>4, <1>5, <1>6, <1>7, <1>8, <1>9, <1>10 DEF Proceed

LEMMA InitMarks == Init => MarkInv
<1>. SUFFICES ASSUME Init PROVE MarkInv
  OBVIOUS
<1>1. run = [r \in Runs |-> Idle] /\ posted = {}
  BY DEF Init
<1>2. Idle \in RunOf({"idle"}, {"coupons"}, {<<>>}, {0}) /\ Idle.step = "idle"
  BY DEF Idle, RunOf
<1>3. Shaped
  BY <1>1, <1>2 DEF Shaped
<1>4. \A r \in Runs : ~AtItem(r, "mark")
  BY <1>1, <1>2 DEF AtItem
<1>. QED  BY <1>1, <1>3, <1>4 DEF MarkInv, MarkedWasSent

LEMMA NextMarks == MarkInv /\ [Next]_vars => MarkInv'
<1>1. ASSUME MarkInv, UNCHANGED <<posted, run, sent>> PROVE MarkInv'
  BY <1>1 DEF MarkInv, Shaped, MarkedWasSent, AtItem, Item
<1>2. ASSUME NEW i, Verify(i) \/ Withdraw(i) PROVE UNCHANGED <<posted, run, sent>>
  BY <1>2 DEF Verify, Withdraw
<1>. QED  BY <1>1, <1>2, RunKeepsMarks DEF Next, vars

(* No item is hidden from the channel by a mark that stands for nothing,   *)
(* however the runs overlap, fail or die (telegram_poster.py:86).          *)
THEOREM MarksAreTrue == Spec => []MarkedWasSent
<1>1. MarkInv => MarkedWasSent
  BY DEF MarkInv
<1>. QED  BY <1>1, InitMarks, NextMarks, PTL DEF Spec

----------------------------------------------------------------------------
(* Repeats.  A message owed to a mishap is one that may still repeat: of an*)
(* item that was shown, is not marked, and is not about to be; or of a     *)
(* marked item that a run which could not see the mark is about to send.   *)

AtMark(i) == \E r \in Runs : AtItem(r, "mark") /\ Item(r) = i
AtSend(i) == \E r \in Runs : AtItem(r, "send") /\ Item(r) = i

Owed == {i \in sent : i \notin posted /\ ~AtMark(i)} \cup {i \in posted : AtSend(i)}

Alone == \A r, s \in Runs : run[r].step # "idle" /\ run[s].step # "idle" => r = s

RepeatInv ==
  /\ MarkInv
  /\ IsFiniteSet(sent) /\ IsFiniteSet(posted)
  /\ repeats \in Nat /\ faults \in Nat
  /\ ~overlap => Alone /\ repeats + Cardinality(Owed) <= faults

LEMMA OwedIsFinite ==
  ASSUME IsFiniteSet(sent), IsFiniteSet(posted)
  PROVE  IsFiniteSet(Owed)
<1>1. IsFiniteSet(sent \cup posted)
  BY FS_Union
<1>2. Owed \subseteq sent \cup posted
  BY DEF Owed
<1>. QED  BY <1>1, <1>2, FS_Subset

(* The balance after a step, by what it does to the messages owed.         *)
LEMMA Balance ==
  ASSUME NEW A, NEW B, IsFiniteSet(A), NEW n \in Nat, NEW k \in Nat, n + Cardinality(A) <= k
  PROVE  /\ B \subseteq A => n + Cardinality(B) <= k
         /\ \A i : B \subseteq A \cup {i} => n + Cardinality(B) <= k + 1
         /\ \A i \in A : B \subseteq A \ {i} => n + 1 + Cardinality(B) <= k
<1>1. Cardinality(A) \in Nat
  BY FS_CardinalityType
<1>2. ASSUME B \subseteq A PROVE n + Cardinality(B) <= k
  BY <1>1, <1>2, FS_Subset, FS_CardinalityType
<1>3. ASSUME NEW i, B \subseteq A \cup {i} PROVE n + Cardinality(B) <= k + 1
  <2>1. /\ IsFiniteSet(A \cup {i})
        /\ Cardinality(A \cup {i}) <= Cardinality(A) + 1
        /\ Cardinality(A \cup {i}) \in Nat
    <3>1. IsFiniteSet(A \cup {i})
      BY FS_AddElement
    <3>2. Cardinality(A \cup {i}) = IF i \in A THEN Cardinality(A) ELSE Cardinality(A) + 1
      BY FS_AddElement
    <3>. QED  BY <1>1, <3>1, <3>2
  <2>2. Cardinality(B) \in Nat /\ Cardinality(B) <= Cardinality(A \cup {i})
    BY <1>3, <2>1, FS_Subset, FS_CardinalityType
  <2>. QED  BY <1>1, <2>1, <2>2
<1>4. ASSUME NEW i \in A, B \subseteq A \ {i} PROVE n + 1 + Cardinality(B) <= k
  <2>1. /\ IsFiniteSet(A \ {i})
        /\ Cardinality(A \ {i}) = Cardinality(A) - 1
    BY <1>4, FS_RemoveElement
  <2>2. Cardinality(B) \in Nat /\ Cardinality(B) <= Cardinality(A \ {i})
    BY <1>4, <2>1, FS_Subset, FS_CardinalityType
  <2>. QED  BY <1>1, <2>1, <2>2
<1>. QED  BY <1>2, <1>3, <1>4

----------------------------------------------------------------------------
(* What is owed when one run at most is under way.                         *)

LEMMA OwedAtItem ==
  ASSUME Alone, NEW r \in Runs, run[r].step # "idle"
  PROVE  Owed = IF AtItem(r, "mark") THEN (sent \ posted) \ {Item(r)}
                ELSE IF AtItem(r, "send") THEN (sent \ posted) \cup ({Item(r)} \cap posted)
                ELSE sent \ posted
<1>1. \A s \in Runs : run[s].step # "idle" => s = r
  BY DEF Alone
<1>2. \A i : AtMark(i) <=> AtItem(r, "mark") /\ Item(r) = i
  BY <1>1 DEF AtMark, AtItem
<1>3. \A i : AtSend(i) <=> AtItem(r, "send") /\ Item(r) = i
  BY <1>1 DEF AtSend, AtItem
<1>4. ~(AtItem(r, "mark") /\ AtItem(r, "send"))
  BY DEF AtItem
<1>. QED  BY <1>2, <1>3, <1>4 DEF Owed

LEMMA AloneAfter ==
  ASSUME Alone, NEW r \in Runs, run[r].step # "idle", Moves(r)
  PROVE  Alone'
BY DEF Alone, Moves

(* A run that goes on to the next item, or ends, is at no mark and no send.*)
LEMMA OwedAfter ==
  ASSUME Alone, NEW r \in Runs, run[r].step # "idle", Moves(r),
         run'[r].step \in {"check", "idle"}
  PROVE  Owed' = sent' \ posted'
<1>1. \A s \in Runs : run'[s].step \in {"check", "idle"}
  BY DEF Alone, Moves
<1>2. \A i : ~AtMark(i)' /\ ~AtSend(i)'
  BY <1>1 DEF AtMark, AtSend, AtItem
<1>. QED  BY <1>2 DEF Owed

LEMMA RunKeepsBalance ==
  ASSUME RepeatInv, ~overlap', NEW r \in Runs,
         Proceed(r) \/ TryBlind(r) \/ SendFails(r) \/ MarkLost(r) \/ Crash(r)
  PROVE  /\ Alone' /\ repeats' + Cardinality(Owed') <= faults'
         /\ repeats' \in Nat /\ faults' \in Nat
<1>. DEFINE i == Item(r)
<1>1. ~overlap
  BY DEF Proceed, Start, Skip, Try, TryBlind, SendMessage, SendRefused, SendFails,
         MarkPosted, MarkLost, LoadTrials, Finish, Crash
<1>2. Shaped /\ Alone /\ IsFiniteSet(Owed) /\ repeats + Cardinality(Owed) <= faults
      /\ repeats \in Nat /\ faults \in Nat
      /\ posted \subseteq sent
      /\ (AtItem(r, "mark") => i \in sent)
  BY <1>1, OwedIsFinite DEF RepeatInv, MarkInv, MarkedWasSent
<1>3. ASSUME Owed' \subseteq Owed, UNCHANGED <<repeats, faults>>
      PROVE  repeats' + Cardinality(Owed') <= faults'
  BY <1>2, <1>3, Balance
<1>4. ASSUME NEW j, Owed' \subseteq Owed \cup {j}, UNCHANGED repeats, faults' = faults + 1
      PROVE  repeats' + Cardinality(Owed') <= faults'
  BY <1>2, <1>4, Balance
<1>5. CASE Start(r)
  <2>1. run[r].step = "idle" /\ \A s \in Runs : run[s].step = "idle"
    BY <1>5 DEF Start
  <2>2. Moves(r) /\ run'[r].step = "check"
    BY <1>2, <1>5, StartMoves
  <2>3. Alone'
    BY <2>1, <2>2 DEF Alone, Moves
  <2>4. \A j : ~AtMark(j)' /\ ~AtSend(j)'
    BY <2>1, <2>2 DEF AtMark, AtSend, AtItem, Moves
  <2>5. \A j : ~AtMark(j) /\ ~AtSend(j)
    BY <2>1 DEF AtMark, AtSend, AtItem
  <2>6. UNCHANGED <<sent, posted, repeats, faults>>
    BY <1>5 DEF Start
  <2>7. Owed' \subseteq Owed
    BY <2>4, <2>5, <2>6 DEF Owed
  <2>. QED  BY <1>2, <1>3, <2>3, <2>6, <2>7
<1>6. CASE Skip(r) \/ LoadTrials(r) \/ Finish(r)
  <2>1. run[r].step = "check" /\ UNCHANGED <<sent, posted, repeats, faults>>
    BY <1>6 DEF Skip, LoadTrials, Finish, LoopEnds, AtItem
  <2>2. Moves(r) /\ run'[r].step \in {"check", "idle"}
    BY <1>2, <1>6, PassOverMoves, LoadTrialsMoves, IdleMoves DEF Skip, Finish
  <2>3. Owed = sent \ posted
    BY <1>2, <2>1, OwedAtItem DEF AtItem
  <2>4. Owed' = sent' \ posted' /\ Alone'
    BY <1>2, <2>1, <2>2, OwedAfter, AloneAfter
  <2>. QED  BY <1>2, <1>3, <2>1, <2>3, <2>4
<1>7. CASE Try(r) \/ TryBlind(r)
  <2>1. AtItem(r, "check") /\ UNCHANGED <<sent, posted, repeats>>
        /\ run' = [run EXCEPT ![r].step = "send"]
    BY <1>7 DEF Try, TryBlind
  <2>2. Moves(r) /\ run'[r].step = "send" /\ run'[r].rest = run[r].rest
    BY <1>2, <2>1, StepMoves
  <2>3. Owed = sent \ posted
    BY <1>2, <2>1, OwedAtItem DEF AtItem
  <2>4. Alone'
    BY <1>2, <2>1, <2>2, AloneAfter DEF AtItem
  <2>5. \A j : ~AtMark(j)' /\ (AtSend(j)' => j = i)
    BY <1>2, <2>1, <2>2 DEF AtMark, AtSend, AtItem, Item, Alone, Moves
  <2>6. Owed' \subseteq Owed \cup ({i} \cap posted)
    BY <2>1, <2>3, <2>5 DEF Owed
  <2>7. CASE Try(r)
    BY <1>2, <1>3, <2>4, <2>6, <2>7 DEF Try
  <2>8. CASE TryBlind(r)
    BY <1>2, <1>4, <2>1, <2>4, <2>6, <2>8 DEF TryBlind, Mishap
  <2>. QED  BY <1>7, <2>7, <2>8
<1>8. CASE SendMessage(r)
  <2>1. /\ AtItem(r, "send") /\ UNCHANGED <<posted, faults>>
        /\ sent' = sent \cup {i} /\ repeats' = IF i \in sent THEN repeats + 1 ELSE repeats
        /\ run' = [run EXCEPT ![r].step = "mark"]
    BY <1>8 DEF SendMessage, Show
  <2>2. Moves(r) /\ run'[r].step = "mark" /\ run'[r].rest = run[r].rest
    BY <1>2, <2>1, StepMoves
  <2>3. ~AtItem(r, "mark") /\ run[r].step # "idle"
    BY <2>1 DEF AtItem
  <2>4. Owed = (sent \ posted) \cup ({i} \cap posted)
    BY <1>2, <2>1, <2>3, OwedAtItem
  <2>5. Alone'
    BY <1>2, <2>2, <2>3, AloneAfter
  <2>6. \A j : ~AtSend(j)' /\ (j = i => AtMark(j)')
    BY <1>2, <2>1, <2>2, <2>3 DEF AtMark, AtSend, AtItem, Item, Alone, Moves
  <2>7. Owed' \subseteq Owed \ {i}
    BY <2>1, <2>4, <2>6 DEF Owed
  <2>8. CASE i \in sent
    <3>1. i \in Owed
      BY <2>4, <2>8
    <3>. QED  BY <1>2, <2>1, <2>5, <2>7, <2>8, <3>1, Balance
  <2>9. CASE i \notin sent
    <3>1. Owed' \subseteq Owed /\ UNCHANGED <<repeats, faults>>
      BY <2>1, <2>7, <2>9
    <3>. QED  BY <1>2, <1>3, <2>5, <3>1
  <2>. QED  BY <2>8, <2>9
<1>9. CASE SendRefused(r) \/ SendFails(r)
  <2>1. AtItem(r, "send") /\ UNCHANGED posted
    BY <1>9 DEF SendRefused, SendFails
  <2>2. ~AtItem(r, "mark") /\ run[r].step # "idle"
    BY <2>1 DEF AtItem
  <2>3. Moves(r) /\ run'[r].step = "check"
    BY <1>2, <1>9, PassOverMoves DEF SendRefused, SendFails
  <2>4. Owed = (sent \ posted) \cup ({i} \cap posted)
    BY <1>2, <2>1, <2>2, OwedAtItem
  <2>5. Owed' = sent' \ posted' /\ Alone'
    BY <1>2, <2>2, <2>3, OwedAfter, AloneAfter
  <2>6. CASE UNCHANGED <<sent, repeats, faults>>
    BY <1>2, <1>3, <2>1, <2>4, <2>5, <2>6
  <2>7. CASE UNCHANGED <<sent, repeats>> /\ Mishap
    <3>1. Owed' \subseteq Owed \cup {i} /\ faults' = faults + 1
      BY <2>1, <2>4, <2>5, <2>7 DEF Mishap
    <3>. QED  BY <1>2, <1>4, <2>5, <2>7, <3>1
  <2>8. CASE Show(i) /\ Mishap
    <3>1. /\ sent' = sent \cup {i} /\ faults' = faults + 1
          /\ repeats' = IF i \in sent THEN repeats + 1 ELSE repeats
      BY <2>8 DEF Show, Mishap
    <3>2. CASE i \in sent
      <4>1. Owed' \subseteq Owed /\ repeats' = repeats + 1
        BY <2>1, <2>4, <2>5, <3>1, <3>2
      <4>2. repeats + Cardinality(Owed') <= faults
        BY <1>2, <4>1, Balance
      <4>3. IsFiniteSet(Owed')
        BY <1>2, <4>1, FS_Subset
      <4>4. Cardinality(Owed') \in Nat
        BY <4>3, FS_CardinalityType
      <4>. QED  BY <1>2, <2>5, <3>1, <4>1, <4>2, <4>4
    <3>3. CASE i \notin sent
      <4>1. Owed' \subseteq Owed \cup {i} /\ UNCHANGED repeats
        BY <2>1, <2>4, <2>5, <3>1, <3>3
      <4>. QED  BY <1>2, <1>4, <2>5, <3>1, <4>1
    <3>. QED  BY <3>2, <3>3
  <2>. QED  BY <1>9, <2>6, <2>7, <2>8 DEF SendRefused, SendFails
<1>10. CASE MarkPosted(r) \/ MarkLost(r)
  <2>1. AtItem(r, "mark") /\ UNCHANGED <<sent, repeats>> /\ i \in sent
    BY <1>2, <1>10 DEF MarkPosted, MarkLost
  <2>2. run[r].step # "idle"
    BY <2>1 DEF AtItem
  <2>3. Moves(r) /\ run'[r].step = "check"
    BY <1>2, <1>10, CountedMoves DEF MarkPosted, MarkLost
  <2>4. Owed = (sent \ posted) \ {i}
    BY <1>2, <2>1, <2>2, OwedAtItem
  <2>5. Owed' = sent' \ posted' /\ Alone'
    BY <1>2, <2>2, <2>3, OwedAfter, AloneAfter
  <2>6. CASE MarkPosted(r)
    BY <1>2, <1>3, <2>1, <2>4, <2>5, <2>6 DEF MarkPosted
  <2>7. CASE MarkLost(r)
    BY <1>2, <1>4, <2>1, <2>4, <2>5, <2>7 DEF MarkLost, Mishap
  <2>. QED  BY <1>10, <2>6, <2>7
<1>11. CASE Crash(r)
  <2>1. run[r].step # "idle" /\ UNCHANGED <<sent, posted, repeats>> /\ faults' = faults + 1
        /\ Moves(r) /\ run'[r].step = "idle"
    BY <1>2, <1>11, IdleMoves DEF Crash, Mishap
  <2>2. sent \ posted \subseteq Owed \cup {i}
    BY <1>2, <2>1, OwedAtItem
  <2>3. Owed' = sent' \ posted' /\ Alone'
    BY <1>2, <2>1, OwedAfter, AloneAfter
  <2>4. Owed' \subseteq Owed \cup {i} /\ UNCHANGED repeats
    BY <2>1, <2>2, <2>3
  <2>. QED  BY <1>2, <1>4, <2>1, <2>3, <2>4
<1>. QED  BY <1>5, <1>6, <1>7, <1>8, <1>9, <1>10, <1>11 DEF Proceed

LEMMA InitRepeats == Init => RepeatInv
<1>. SUFFICES ASSUME Init PROVE RepeatInv
  OBVIOUS
<1>1. sent = {} /\ posted = {} /\ repeats = 0 /\ faults = 0
  BY DEF Init
<1>2. Alone
  BY DEF Init, Idle, Alone
<1>3. Owed = {}
  BY <1>1 DEF Owed
<1>4. Cardinality(Owed) = 0 /\ IsFiniteSet(sent) /\ IsFiniteSet(posted)
  BY <1>1, <1>3, FS_EmptySet
<1>. QED  BY <1>1, <1>2, <1>4, InitMarks DEF RepeatInv

LEMMA NextRepeats == RepeatInv /\ [Next]_vars => RepeatInv'
<1>1. ASSUME RepeatInv, UNCHANGED <<posted, run, sent, repeats, faults, overlap>>, MarkInv'
      PROVE  RepeatInv'
  <2>1. Owed' = Owed /\ Alone' = Alone
    BY <1>1 DEF Owed, AtMark, AtSend, AtItem, Item, Alone
  <2>. QED  BY <1>1, <2>1 DEF RepeatInv
<1>2. ASSUME NEW i, Verify(i) \/ Withdraw(i)
      PROVE  UNCHANGED <<posted, run, sent, repeats, faults, overlap>>
  BY <1>2 DEF Verify, Withdraw
<1>3. ASSUME RepeatInv, NEW r \in Runs, MarkInv',
             Proceed(r) \/ TryBlind(r) \/ SendFails(r) \/ MarkLost(r) \/ Crash(r)
      PROVE  RepeatInv'
  <2>1. sent' \subseteq sent \cup {Item(r)} /\ posted' \subseteq posted \cup {Item(r)}
    BY <1>3 DEF Proceed, Start, Skip, Try, TryBlind, SendMessage, SendRefused, SendFails, Show,
                MarkPosted, MarkLost, LoadTrials, Finish, Crash
  <2>2. IsFiniteSet(sent \cup {Item(r)}) /\ IsFiniteSet(posted \cup {Item(r)})
    BY <1>3, FS_AddElement DEF RepeatInv
  <2>3. IsFiniteSet(sent') /\ IsFiniteSet(posted')
    BY <2>1, <2>2, FS_Subset
  <2>4. repeats' \in Nat /\ faults' \in Nat
    BY <1>3 DEF RepeatInv, Proceed, Start, Skip, Try, TryBlind, SendMessage, SendRefused,
                SendFails, Show, Mishap, MarkPosted, MarkLost, LoadTrials, Finish, Crash
  <2>5. ~overlap' => Alone' /\ repeats' + Cardinality(Owed') <= faults'
    BY <1>3, RunKeepsBalance
  <2>. QED  BY <1>3, <2>3, <2>4, <2>5 DEF RepeatInv
<1>4. RepeatInv /\ [Next]_vars => MarkInv'
  BY NextMarks DEF RepeatInv
<1>5. ASSUME RepeatInv, UNCHANGED vars PROVE RepeatInv'
  BY <1>1, <1>4, <1>5 DEF vars
<1>. QED  BY <1>1, <1>2, <1>3, <1>4, <1>5 DEF Next

(* While no two runs overlap, every call that fails and every run that dies*)
(* repeats one message at most, for any number of items and any mishaps.   *)
THEOREM MishapsRepeatOnce == Spec => []RepeatsAreMishaps
<1>1. RepeatInv => RepeatsAreMishaps
  <2>1. ASSUME RepeatInv, ~overlap PROVE repeats <= faults
    <3>1. Cardinality(Owed) \in Nat
      BY <2>1, OwedIsFinite, FS_CardinalityType DEF RepeatInv
    <3>. QED  BY <2>1, <3>1 DEF RepeatInv
  <2>. QED  BY <2>1 DEF RepeatsAreMishaps
<1>. QED  BY <1>1, InitRepeats, NextRepeats, PTL DEF Spec

----------------------------------------------------------------------------
(* Types.                                                                  *)

LEMMA SetHasLeast ==
  ASSUME NEW T \in SUBSET Nat, T # {}
  PROVE  \E x \in T : \A y \in T : x <= y
<1>1. PICK x \in T : \A y \in T : ~(<<y, x>> \in OpToRel(<, Nat))
  BY NatLessThanWellFounded, WFMin, Zenon
<1>2. ASSUME NEW y \in T PROVE x <= y
  <2>1. <<y, x>> \in Nat \X Nat
    OBVIOUS
  <2>2. ~(y < x)
    BY <1>1, <2>1 DEF OpToRel
  <2>. QED  BY <2>2
<1>. QED  BY <1>2

(* A list without one of its items is a list of the same kind.             *)
LEMMA RemoveFirstType ==
  ASSUME NEW S, NEW list \in Seq(S), NEW i
  PROVE  RemoveFirst(list, i) \in Seq(S)
<1>. DEFINE I == {k \in 1 .. Len(list) : list[k] = i}
<1>1. CASE I = {}
  BY <1>1 DEF RemoveFirst
<1>2. CASE I # {}
  <2>1. SelectInSeq(list, LAMBDA v : v = i) = Min(I)
    BY <1>2 DEF SelectInSeq
  <2>2. Min(I) \in I
    <3>1. I \in SUBSET Nat
      OBVIOUS
    <3>. HIDE DEF I
    <3>. QED  BY <1>2, <3>1, SetHasLeast DEF Min
  <2>. DEFINE k == Min(I)
  <2>3. k \in 1 .. Len(list)
    BY <2>2
  <2>. HIDE DEF k
  <2>4. SubSeq(list, 1, k - 1) \in Seq(S) /\ SubSeq(list, k + 1, Len(list)) \in Seq(S)
    BY <2>3
  <2>5. RemoveFirst(list, i) = RemoveAt(list, k)
    BY <1>2, <2>1 DEF RemoveFirst, k
  <2>. QED  BY <2>4, <2>5 DEF RemoveAt
<1>. QED  BY <1>1, <1>2

LEMMA FreshestType ==
  ASSUME NEW S, NEW list \in Seq(S)
  PROVE  Freshest(list) \in Seq(S)
<1>1. Window \in Nat /\ Len(list) \in Nat
  BY PosterAssumption
<1>. DEFINE n == IF Len(list) < Window THEN Len(list) ELSE Window
<1>2. n \in Nat /\ n <= Len(list)
  BY <1>1
<1>3. SubSeq(list, 1, n) \in Seq(S)
  <2>. HIDE DEF n
  <2>. QED  BY <1>2
<1>. QED  BY <1>3 DEF Freshest

LEMMA SmallerSeq ==
  ASSUME NEW S, NEW T, S \subseteq T, NEW list \in Seq(S)
  PROVE  list \in Seq(T)
OBVIOUS

RunRecords == [step : {"idle", "check", "send", "mark"}, phase : {"coupons", "trials"},
               rest : Seq(Items), count : 0 .. Limit]

(* A run that sends or marks has room for one more message.                *)
RunsTyped ==
  /\ run \in [Runs -> RunRecords]
  /\ \A r \in Runs : run[r].step \in {"send", "mark"} => run[r].count < Limit

Fields ==
  /\ coupons \in Seq(Coupons) /\ trials \in Seq(Trials)
  /\ posted \subseteq Items /\ sent \subseteq Items /\ repeats \in Nat
  /\ faults \in 0 .. MaxFaults /\ overlap \in BOOLEAN

LEMMA RunTyped ==
  ASSUME RunsTyped, NEW r \in Runs, NEW new \in RunRecords,
         run' = [run EXCEPT ![r] = new], new.step \in {"send", "mark"} => new.count < Limit
  PROVE  RunsTyped'
<1>1. run' \in [Runs -> RunRecords]
  BY DEF RunsTyped
<1>2. run'[r] = new /\ \A s \in Runs : s # r => run'[s] = run[s]
  BY DEF RunsTyped
<1>. QED  BY <1>1, <1>2 DEF RunsTyped

LEMMA IdleTyped == Idle \in RunRecords /\ Idle.step = "idle"
<1>1. 0 \in 0 .. Limit /\ <<>> \in Seq(Items)
  BY PosterAssumption
<1>. QED  BY <1>1 DEF Idle, RunRecords

LEMMA StepTyped ==
  ASSUME RunsTyped, NEW r \in Runs, NEW step \in {"send", "mark"},
         run' = [run EXCEPT ![r].step = step], run[r].count < Limit
  PROVE  RunsTyped'
<1>. DEFINE new == [run[r] EXCEPT !.step = step]
<1>1. run[r] \in RunRecords
  BY DEF RunsTyped
<1>2. new \in RunRecords /\ new.count = run[r].count
  BY <1>1 DEF RunRecords
<1>3. run' = [run EXCEPT ![r] = new]
  BY DEF RunsTyped
<1>. HIDE DEF new
<1>. QED  BY <1>2, <1>3, RunTyped

LEMMA PassOverTyped ==
  ASSUME RunsTyped, NEW r \in Runs, run[r].rest # <<>>, PassOver(r)
  PROVE  RunsTyped'
<1>. DEFINE new == [run[r] EXCEPT !.step = "check", !.rest = Tail(run[r].rest)]
<1>1. run[r] \in RunRecords
  BY DEF RunsTyped
<1>2. Tail(run[r].rest) \in Seq(Items)
  BY <1>1 DEF RunRecords
<1>3. new \in RunRecords /\ new.step = "check"
  BY <1>1, <1>2 DEF RunRecords
<1>4. run' = [run EXCEPT ![r] = new]
  BY DEF PassOver, RunsTyped
<1>. HIDE DEF new
<1>. QED  BY <1>3, <1>4, RunTyped

LEMMA CountedTyped ==
  ASSUME RunsTyped, NEW r \in Runs, AtItem(r, "mark"), Counted(r)
  PROVE  RunsTyped'
<1>. DEFINE new == [run[r] EXCEPT !.step = "check", !.rest = Tail(run[r].rest),
                            !.count = run[r].count + 1]
<1>1. run[r] \in RunRecords /\ run[r].count < Limit /\ run[r].rest # <<>>
  BY DEF RunsTyped, AtItem
<1>2. Tail(run[r].rest) \in Seq(Items)
  BY <1>1 DEF RunRecords
<1>3. run[r].count + 1 \in 0 .. Limit
  BY <1>1, PosterAssumption DEF RunRecords
<1>4. new \in RunRecords /\ new.step = "check"
  BY <1>1, <1>2, <1>3 DEF RunRecords
<1>5. run' = [run EXCEPT ![r] = new]
  BY DEF Counted, RunsTyped
<1>. HIDE DEF new
<1>. QED  BY <1>4, <1>5, RunTyped

LEMMA LoadTyped ==
  ASSUME RunsTyped, Fields, NEW r \in Runs
  PROVE  /\ Start(r) => RunsTyped'
         /\ LoadTrials(r) => RunsTyped'
<1>1. Freshest(coupons) \in Seq(Items) /\ Freshest(trials) \in Seq(Items)
  BY FreshestType, SmallerSeq DEF Fields, Items
<1>2. ASSUME Start(r) PROVE RunsTyped'
  <2>. DEFINE new == [Idle EXCEPT !.step = "check", !.rest = Freshest(coupons)]
  <2>1. new \in RunRecords /\ new.step = "check"
    BY <1>1, IdleTyped DEF RunRecords
  <2>2. run' = [run EXCEPT ![r] = new]
    BY <1>2 DEF Start
  <2>. HIDE DEF new
  <2>. QED  BY <2>1, <2>2, RunTyped
<1>3. ASSUME LoadTrials(r) PROVE RunsTyped'
  <2>. DEFINE new == [run[r] EXCEPT !.phase = "trials", !.rest = Freshest(trials)]
  <2>1. run[r] \in RunRecords /\ run[r].step = "check"
    BY <1>3 DEF RunsTyped, LoadTrials, LoopEnds
  <2>2. new \in RunRecords /\ new.step = "check"
    BY <1>1, <2>1 DEF RunRecords
  <2>3. run' = [run EXCEPT ![r] = new]
    BY <1>3 DEF LoadTrials, RunsTyped
  <2>. HIDE DEF new
  <2>. QED  BY <2>2, <2>3, RunTyped
<1>. QED  BY <1>2, <1>3

LEMMA MishapTyped == Fields /\ Mishap => faults' \in 0 .. MaxFaults
BY PosterAssumption DEF Fields, Mishap

LEMMA RunKeepsTypes ==
  ASSUME RunsTyped, Fields, NEW r \in Runs,
         Proceed(r) \/ TryBlind(r) \/ SendFails(r) \/ MarkLost(r) \/ Crash(r)
  PROVE  RunsTyped' /\ Fields'
<1>0. run[r] \in RunRecords
  BY DEF RunsTyped
<1>1. run[r].rest # <<>> => Item(r) \in Items
  BY <1>0 DEF RunRecords, Item
<1>2. ~LimitReached(r) => run[r].count < Limit
  BY <1>0, PosterAssumption DEF RunRecords, LimitReached
<1>3. run[r].step \in {"send", "mark"} => run[r].count < Limit
  BY DEF RunsTyped
<1>4. ASSUME run' = [run EXCEPT ![r] = Idle] PROVE RunsTyped'
  BY <1>4, IdleTyped, RunTyped
<1>5. CASE Start(r)
  BY <1>5, LoadTyped DEF Start, Fields
<1>6. CASE LoadTrials(r)
  BY <1>6, LoadTyped DEF LoadTrials, Fields
<1>7. CASE Skip(r) \/ SendRefused(r)
  BY <1>7, PassOverTyped DEF Skip, SendRefused, AtItem, Fields
<1>8. CASE Try(r)
  BY <1>2, <1>8, StepTyped DEF Try, Fields
<1>9. CASE TryBlind(r)
  BY <1>2, <1>9, StepTyped, MishapTyped DEF TryBlind, Fields
<1>10. CASE SendMessage(r)
  <2>1. RunsTyped'
    BY <1>3, <1>10, StepTyped DEF SendMessage, AtItem
  <2>2. sent' \subseteq Items /\ repeats' \in Nat
    BY <1>1, <1>10 DEF SendMessage, Show, AtItem, Fields
  <2>. QED  BY <1>10, <2>1, <2>2 DEF SendMessage, Fields
<1>11. CASE SendFails(r)
  <2>1. RunsTyped'
    BY <1>11, PassOverTyped DEF SendFails, AtItem
  <2>2. sent' \subseteq Items /\ repeats' \in Nat
    BY <1>1, <1>11 DEF SendFails, Show, AtItem, Fields
  <2>. QED  BY <1>11, <2>1, <2>2, MishapTyped DEF SendFails, Fields
<1>12. CASE MarkPosted(r)
  <2>1. RunsTyped'
    BY <1>12, CountedTyped DEF MarkPosted
  <2>2. posted' \subseteq Items
    BY <1>1, <1>12 DEF MarkPosted, AtItem, Fields
  <2>. QED  BY <1>12, <2>1, <2>2 DEF MarkPosted, Fields
<1>13. CASE MarkLost(r)
  BY <1>13, CountedTyped, MishapTyped DEF MarkLost, Fields
<1>14. CASE Finish(r)
  BY <1>4, <1>14 DEF Finish, Fields
<1>15. CASE Crash(r)
  BY <1>4, <1>15, MishapTyped DEF Crash, Fields
<1>. QED  BY <1>5, <1>6, <1>7, <1>8, <1>9, <1>10, <1>11, <1>12, <1>13, <1>14, <1>15 DEF Proceed

LEMMA InitTypes == Init => RunsTyped /\ Fields
<1>. SUFFICES ASSUME Init PROVE RunsTyped /\ Fields
  OBVIOUS
<1>1. run \in [Runs -> RunRecords] /\ \A r \in Runs : run[r] = Idle
  BY IdleTyped DEF Init
<1>2. RunsTyped
  BY <1>1, IdleTyped DEF RunsTyped
<1>3. faults \in 0 .. MaxFaults
  BY PosterAssumption DEF Init
<1>4. coupons \in Seq(Coupons) /\ trials \in Seq(Trials)
  <2>1. \A S : <<>> \in Seq(S)
    OBVIOUS
  <2>. QED  BY <2>1 DEF Init
<1>5. /\ posted \subseteq Items /\ sent \subseteq Items /\ repeats \in Nat
      /\ overlap \in BOOLEAN
  BY DEF Init
<1>. QED  BY <1>2, <1>3, <1>4, <1>5 DEF Fields

LEMMA NextTypes == RunsTyped /\ Fields /\ [Next]_vars => (RunsTyped /\ Fields)'
<1>. SUFFICES ASSUME RunsTyped, Fields, [Next]_vars PROVE RunsTyped' /\ Fields'
  OBVIOUS
<1>1. ASSUME NEW r \in Runs,
             Proceed(r) \/ TryBlind(r) \/ SendFails(r) \/ MarkLost(r) \/ Crash(r)
      PROVE  RunsTyped' /\ Fields'
  BY <1>1, RunKeepsTypes
<1>2. ASSUME NEW i \in Items, Verify(i) PROVE RunsTyped' /\ Fields'
  <2>1. RemoveFirst(coupons, i) \in Seq(Coupons) /\ RemoveFirst(trials, i) \in Seq(Trials)
    BY RemoveFirstType DEF Fields
  <2>2. coupons' \in Seq(Coupons) /\ trials' \in Seq(Trials)
    <3>1. ASSUME i \in Coupons, coupons' = <<i>> \o RemoveFirst(coupons, i)
          PROVE  coupons' \in Seq(Coupons)
      <4>1. <<i>> \in Seq(Coupons)
        BY <3>1
      <4>. QED  BY <2>1, <3>1, <4>1
    <3>2. ASSUME i \in Trials, trials' = <<i>> \o RemoveFirst(trials, i)
          PROVE  trials' \in Seq(Trials)
      <4>1. <<i>> \in Seq(Trials)
        BY <3>2
      <4>. QED  BY <2>1, <3>2, <4>1
    <3>. QED  BY <1>2, <3>1, <3>2 DEF Verify, Fields
  <2>. QED  BY <1>2, <2>2 DEF Verify, Fields, RunsTyped
<1>3. ASSUME NEW i \in Items, Withdraw(i) PROVE RunsTyped' /\ Fields'
  <2>1. RemoveFirst(coupons, i) \in Seq(Coupons) /\ RemoveFirst(trials, i) \in Seq(Trials)
    BY RemoveFirstType DEF Fields
  <2>. QED  BY <1>3, <2>1 DEF Withdraw, Fields, RunsTyped
<1>4. CASE UNCHANGED vars
  BY <1>4 DEF vars, Fields, RunsTyped
<1>. QED  BY <1>1, <1>2, <1>3, <1>4 DEF Next

(* Every variable keeps its type, and no run sends more than its limit     *)
(* (post_new_to_telegram).                                                 *)
THEOREM TypeCorrect == Spec => []TypeOK
<1>1. RunsTyped /\ Fields => TypeOK
  <2>. SUFFICES ASSUME RunsTyped, Fields PROVE TypeOK
    OBVIOUS
  <2>1. \A r \in Runs : run[r] \in RunRecords
    BY DEF RunsTyped
  <2>. QED  BY <2>1 DEF RunRecords, Fields, TypeOK
<1>. QED  BY <1>1, InitTypes, NextTypes, PTL DEF Spec

=============================================================================
