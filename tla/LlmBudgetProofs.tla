--------------------------- MODULE LlmBudgetProofs ---------------------------
(***************************************************************************)
(* However many sweeps overlap, whatever fails or dies and whenever the    *)
(* day changes, the bill of a day exceeds the budget by one call of every  *)
(* sweep at most, beside what never reached the counter and what the       *)
(* verification uses.  For any tools, runs, providers and costs.           *)
(***************************************************************************)
EXTENDS LlmBudget, FiniteSetTheorems, WellFoundedInduction, TLAPS

----------------------------------------------------------------------------
(* Least and greatest.                                                     *)

LEMMA SetHasLeast ==
  ASSUME NEW T \in SUBSET Nat, T # {}
  PROVE  \E x \in T : \A y \in T : x <= y
<1>1. PICK x \in T : \A y \in T : ~(<<y, x>> \in OpToRel(<, Nat))
  BY NatLessThanWellFounded, WFMin, Zenon
<1>2. ASSUME NEW y \in T PROVE x <= y
  <2>1. <<y, x>> \in Nat \X Nat
    OBVIOUS
  <2>2. ~(y < x)
    BY <1>1, <2>1 DEF OpToRel
  <2>. QED  BY <2>2
<1>. QED  BY <1>2

(* The element with the fewest elements above it is the greatest.          *)
LEMMA SetHasGreatest ==
  ASSUME NEW S \in SUBSET Nat, S # {}, IsFiniteSet(S)
  PROVE  \E k \in S : \A j \in S : j <= k
<1>. DEFINE Above(k) == {j \in S : k < j}
            Sizes == {Cardinality(Above(k)) : k \in S}
<1>1. ASSUME NEW k \in S PROVE IsFiniteSet(Above(k)) /\ Cardinality(Above(k)) \in Nat
  BY FS_Subset, FS_CardinalityType
<1>2. Sizes \in SUBSET Nat /\ Sizes # {}
  BY <1>1
<1>3. PICK n \in Sizes : \A m \in Sizes : n <= m
  <2>. HIDE DEF Sizes
  <2>. QED  BY <1>2, SetHasLeast
<1>4. PICK k \in S : n = Cardinality(Above(k))
  OBVIOUS
<1>5. ASSUME NEW j \in S PROVE j <= k
  <2>. SUFFICES ASSUME k < j PROVE FALSE
    OBVIOUS
  <2>. j \in Nat /\ k \in Nat /\ S \subseteq Nat
    OBVIOUS
  <2>1. /\ Above(j) \in SUBSET Above(k) /\ j \in Above(k) /\ j \notin Above(j)
        /\ IsFiniteSet(Above(k))
        /\ Cardinality(Above(k)) \in Nat /\ Cardinality(Above(j)) \in Nat
    <3>1. Above(j) \in SUBSET Above(k)
      <4>1. \A i \in S : j < i => k < i
        OBVIOUS
      <4>. QED  BY <4>1
    <3>2. j \in Above(k) /\ j \notin Above(j)
      OBVIOUS
    <3>. QED  BY <1>1, <3>1, <3>2
  <2>2. Cardinality(Above(k)) <= Cardinality(Above(j))
    BY <1>3, <1>4
  <2>3. Cardinality(Above(j)) <= Cardinality(Above(k))
        /\ (Cardinality(Above(k)) = Cardinality(Above(j)) => Above(k) = Above(j))
    <3>. HIDE DEF Above
    <3>. QED  BY <2>1, FS_Subset
  <2>4. Cardinality(Above(k)) = Cardinality(Above(j))
    <3>. HIDE DEF Above
    <3>. QED  BY <2>1, <2>2, <2>3
  <2>. QED  BY <2>1, <2>3, <2>4
<1>. QED  BY <1>5

LEMMA MaxCostIsGreatest == MaxCost \in Costs /\ \A j \in Costs : j <= MaxCost
BY BudgetAssumption, SetHasGreatest DEF MaxCost

LEMMA ConstantsAreNat ==
  /\ NumTools \in Nat /\ Providers \in Nat /\ Cap \in Nat /\ Budget \in Nat
  /\ MaxUnchecked \in Nat /\ MaxFaults \in Nat /\ MaxCost \in Nat
  /\ Costs \subseteq Nat /\ Unavailable \notin Costs /\ Failed \notin Costs
BY BudgetAssumption, MaxCostIsGreatest DEF Unavailable, Failed

(* The answer of the cascade is one provider's answer, or none.            *)
LEMMA AnswerIsACost ==
  ASSUME NEW tries \in Tries
  PROVE  LlmExtract(tries) \in Costs \cup {Unavailable}
<1>. DEFINE answers == {p \in DOMAIN tries : tries[p] # Failed}
<1>1. CASE answers = {}
  BY <1>1 DEF LlmExtract
<1>2. CASE answers # {}
  <2>1. answers \in SUBSET Nat /\ \A p \in answers : tries[p] \in Costs
    BY ConstantsAreNat DEF Tries
  <2>2. \E p \in answers : \A q \in answers : p <= q
    <3>. HIDE DEF answers
    <3>. QED  BY <1>2, <2>1, SetHasLeast
  <2>3. (CHOOSE p \in answers : \A q \in answers : p <= q) \in answers
    <3>. HIDE DEF answers
    <3>. QED  BY <2>2
  <2>4. LlmExtract(tries) = tries[CHOOSE p \in answers : \A q \in answers : p <= q]
    BY <1>2 DEF LlmExtract
  <2>. QED  BY <2>1, <2>3, <2>4
<1>. QED  BY <1>1, <1>2

----------------------------------------------------------------------------
(* Types.                                                                  *)

RunRecords == [step : {"idle", "look", "ask", "add"}, tool : 0 .. NumTools + 1,
               processed : 0 .. Cap, tokens : Costs \cup {0}]

(* A sweep that asks or adds has room for one more tool; the verification  *)
(* neither looks nor asks.                                                 *)
RunsInv ==
  /\ run \in [Extractors \cup Checkers -> RunRecords]
  /\ \A x \in Extractors :
       run[x].step \in {"ask", "add"} => run[x].processed < Cap /\ run[x].tool \in Tools
  /\ \A v \in Checkers : run[v].step \in {"idle", "add"}

LEMMA IdleIsARun == Idle \in RunRecords
BY ConstantsAreNat DEF Idle, RunRecords

(* The shapes a step gives a record.                                       *)
LEMMA RecordMade ==
  ASSUME NEW rec \in RunRecords, NEW t \in Costs \cup {0}
  PROVE  /\ [rec EXCEPT !.step = "ask"] \in RunRecords
         /\ [rec EXCEPT !.step = "ask"].step = "ask"
         /\ [rec EXCEPT !.step = "ask"].tool = rec.tool
         /\ [rec EXCEPT !.step = "ask"].processed = rec.processed
         /\ [rec EXCEPT !.step = "add", !.tokens = t] \in RunRecords
         /\ [rec EXCEPT !.step = "add", !.tokens = t].step = "add"
         /\ [rec EXCEPT !.step = "add", !.tokens = t].tool = rec.tool
         /\ [rec EXCEPT !.step = "add", !.tokens = t].processed = rec.processed
         /\ [rec EXCEPT !.step = "add", !.tokens = t].tokens = t
BY DEF RunRecords

LEMMA RecordMoves ==
  ASSUME NEW rec \in RunRecords, rec.tool \in Tools
  PROVE  /\ [rec EXCEPT !.step = "look", !.tool = rec.tool + 1, !.tokens = 0] \in RunRecords
         /\ [rec EXCEPT !.step = "look", !.tool = rec.tool + 1, !.tokens = 0].step = "look"
         /\ rec.processed < Cap =>
              /\ [rec EXCEPT !.step = "look", !.tool = rec.tool + 1,
                             !.processed = rec.processed + 1, !.tokens = 0] \in RunRecords
              /\ [rec EXCEPT !.step = "look", !.tool = rec.tool + 1,
                             !.processed = rec.processed + 1, !.tokens = 0].step = "look"
<1>1. rec.tool + 1 \in 0 .. NumTools + 1
  BY ConstantsAreNat DEF Tools
<1>2. rec.processed < Cap => rec.processed + 1 \in 0 .. Cap
  BY ConstantsAreNat DEF RunRecords
<1>. QED  BY <1>1, <1>2 DEF RunRecords

(* What a step of one run does to the runs.                                *)
Stays(x, rec) == run' = [run EXCEPT ![x] = rec]

LEMMA OneRunMoves ==
  ASSUME RunsInv, NEW x \in Extractors \cup Checkers, NEW rec \in RunRecords, Stays(x, rec),
         x \in Extractors /\ rec.step \in {"ask", "add"} => rec.processed < Cap /\ rec.tool \in Tools,
         x \in Checkers => rec.step \in {"idle", "add"}
  PROVE  /\ RunsInv'
         /\ run'[x] = rec
         /\ \A y \in Extractors \cup Checkers : y # x => run'[y] = run[y]
<1>1. run' \in [Extractors \cup Checkers -> RunRecords]
  BY DEF Stays, RunsInv
<1>2. run'[x] = rec /\ \A y \in Extractors \cup Checkers : y # x => run'[y] = run[y]
  BY DEF Stays, RunsInv
<1>3. \A y \in Extractors :
        run'[y].step \in {"ask", "add"} => run'[y].processed < Cap /\ run'[y].tool \in Tools
  BY <1>2 DEF RunsInv
<1>4. \A v \in Checkers : run'[v].step \in {"idle", "add"}
  BY <1>2 DEF RunsInv
<1>. QED  BY <1>1, <1>2, <1>3, <1>4 DEF RunsInv

(* A step takes one run from one stage to another.                         *)
Moves(x, from, to) ==
  /\ RunsInv'
  /\ run[x].step = from /\ run'[x].step = to
  /\ \A y \in Extractors \cup Checkers : y # x => run'[y] = run[y]

LEMMA ExtractorIsNoChecker ==
  ASSUME NEW x \in Extractors
  PROVE  x \in Extractors \cup Checkers /\ x \notin Checkers
BY BudgetAssumption

LEMMA MoveMoves ==
  ASSUME RunsInv, NEW x \in Extractors, run[x].tool \in Tools, Move(x)
  PROVE  Moves(x, run[x].step, "look")
<1>. DEFINE rec == [run[x] EXCEPT !.step = "look", !.tool = run[x].tool + 1, !.tokens = 0]
<1>1. x \in Extractors \cup Checkers /\ run[x] \in RunRecords /\ x \notin Checkers
  BY ExtractorIsNoChecker DEF RunsInv
<1>2. rec \in RunRecords /\ rec.step = "look"
  BY <1>1, RecordMoves
<1>3. Stays(x, rec)
  BY <1>1 DEF Move, Stays, RunsInv
<1>. HIDE DEF rec
<1>. QED  BY <1>1, <1>2, <1>3, OneRunMoves DEF Moves

LEMMA ProcessedMoves ==
  ASSUME RunsInv, NEW x \in Extractors, run[x].step = "add", Processed(x)
  PROVE  Moves(x, "add", "look")
<1>. DEFINE rec == [run[x] EXCEPT !.step = "look", !.tool = run[x].tool + 1,
                                  !.processed = run[x].processed + 1, !.tokens = 0]
<1>1. /\ x \in Extractors \cup Checkers /\ run[x] \in RunRecords /\ x \notin Checkers
      /\ run[x].tool \in Tools /\ run[x].processed < Cap
  BY ExtractorIsNoChecker DEF RunsInv
<1>2. rec \in RunRecords /\ rec.step = "look"
  BY <1>1, RecordMoves
<1>3. Stays(x, rec)
  BY <1>1 DEF Processed, Stays, RunsInv
<1>. HIDE DEF rec
<1>. QED  BY <1>1, <1>2, <1>3, OneRunMoves DEF Moves

LEMMA IdleAgain ==
  ASSUME RunsInv, NEW x \in Extractors \cup Checkers, Stays(x, Idle)
  PROVE  Moves(x, run[x].step, "idle")
<1>1. Idle.step = "idle"
  BY DEF Idle
<1>. QED  BY <1>1, IdleIsARun, OneRunMoves DEF Moves

LEMMA Starts ==
  ASSUME RunsInv, NEW x \in Extractors, StartSweep(x)
  PROVE  Moves(x, "idle", "look")
<1>. DEFINE rec == [Idle EXCEPT !.step = "look", !.tool = 1]
<1>1. rec \in RunRecords /\ rec.step = "look"
  <2>1. 1 \in 0 .. NumTools + 1
    BY ConstantsAreNat
  <2>. QED  BY <2>1, IdleIsARun DEF RunRecords
<1>2. Stays(x, rec) /\ run[x].step = "idle"
  BY DEF StartSweep, Stays
<1>. HIDE DEF rec
<1>. QED  BY <1>1, <1>2, OneRunMoves, ExtractorIsNoChecker DEF Moves

LEMMA Asks ==
  ASSUME RunsInv, NEW x \in Extractors, AtTool(x, "look"), ~CapReached(x),
         run' = [run EXCEPT ![x].step = "ask"]
  PROVE  Moves(x, "look", "ask")
<1>. DEFINE rec == [run[x] EXCEPT !.step = "ask"]
<1>1. x \in Extractors \cup Checkers /\ run[x] \in RunRecords /\ x \notin Checkers
  BY ExtractorIsNoChecker DEF RunsInv
<1>2. run[x].processed < Cap /\ run[x].tool \in Tools /\ run[x].step = "look"
  BY <1>1, ConstantsAreNat DEF AtTool, CapReached, RunRecords
<1>3. /\ rec \in RunRecords /\ rec.step = "ask" /\ rec.tool = run[x].tool
      /\ rec.processed = run[x].processed
  BY <1>1, RecordMade
<1>4. Stays(x, rec)
  BY <1>1 DEF Stays, RunsInv
<1>. HIDE DEF rec
<1>. QED  BY <1>1, <1>2, <1>3, <1>4, OneRunMoves DEF Moves

(* The tokens of an answer are in hand until they are added.               *)
LEMMA Holds ==
  ASSUME RunsInv, NEW x \in Extractors \cup Checkers, NEW t \in Costs,
         x \in Extractors => run[x].processed < Cap /\ run[x].tool \in Tools,
         run' = [run EXCEPT ![x].step = "add", ![x].tokens = t]
  PROVE  Moves(x, run[x].step, "add") /\ run'[x].tokens = t
<1>. DEFINE rec == [run[x] EXCEPT !.step = "add", !.tokens = t]
<1>1. run[x] \in RunRecords
  BY DEF RunsInv
<1>2. /\ rec \in RunRecords /\ rec.step = "add" /\ rec.tool = run[x].tool
      /\ rec.processed = run[x].processed /\ rec.tokens = t
  <2>1. t \in Costs \cup {0}
    OBVIOUS
  <2>. QED  BY <1>1, <2>1, RecordMade
<1>3. Stays(x, rec)
  BY <1>1 DEF Stays, RunsInv
<1>. HIDE DEF rec
<1>. QED  BY <1>1, <1>2, <1>3, OneRunMoves DEF Moves

(* One stage after the other.                                              *)
Charged(x) ==
  \E t \in Costs :
    /\ Charge(t)
    /\ \/ Moves(x, "ask", "add") /\ run'[x].tokens = t
       \/ Moves(x, "ask", "look") /\ t = 0

LEMMA SweepMoves ==
  ASSUME RunsInv, NEW x \in Extractors
  PROVE  /\ StartSweep(x) => Moves(x, "idle", "look")
         /\ Skip(x) => Moves(x, "look", "look")
         /\ AskAboutTool(x) => Moves(x, "look", "ask")
         /\ LookBlind(x) => Moves(x, "look", "look") \/ Moves(x, "look", "ask")
         /\ EndSweep(x) => Moves(x, "look", "idle")
         /\ Extract(x) => Charged(x)
         /\ ExtractUnfit(x) => Moves(x, "ask", "look")
         /\ ExtractUnavailable(x) => Moves(x, "ask", "idle")
         /\ AddTokens(x) => Moves(x, "add", "look")
         /\ AddLost(x) => Moves(x, "add", "look")
<1>1. x \in Extractors \cup Checkers
  BY ExtractorIsNoChecker
<1>2. StartSweep(x) => Moves(x, "idle", "look")
  BY Starts
<1>3. Skip(x) => Moves(x, "look", "look")
  BY MoveMoves DEF Skip, AtTool
<1>4. AskAboutTool(x) => Moves(x, "look", "ask")
  BY Asks DEF AskAboutTool
<1>5. LookBlind(x) => Moves(x, "look", "look") \/ Moves(x, "look", "ask")
  <2>. SUFFICES ASSUME LookBlind(x) PROVE Moves(x, "look", "look") \/ Moves(x, "look", "ask")
    OBVIOUS
  <2>1. AtTool(x, "look") /\ ~CapReached(x) /\ (Move(x) \/ run' = [run EXCEPT ![x].step = "ask"])
    BY DEF LookBlind
  <2>2. run[x].step = "look" /\ run[x].tool \in Tools
    BY <2>1 DEF AtTool
  <2>. QED  BY <2>1, <2>2, MoveMoves, Asks
<1>6. EndSweep(x) => Moves(x, "look", "idle")
  BY <1>1, IdleAgain DEF EndSweep, Stays
<1>7. Extract(x) => Charged(x)
  <2>. SUFFICES ASSUME Extract(x) PROVE Charged(x)
    OBVIOUS
  <2>1. AtTool(x, "ask") /\ run[x].step = "ask" /\ run[x].tool \in Tools
    BY DEF Extract, AtTool
  <2>2. PICK tries \in Tries :
          /\ LlmExtract(tries) # Unavailable /\ Charge(LlmExtract(tries))
          /\ IF LlmExtract(tries) > 0
             THEN run' = [run EXCEPT ![x].step = "add", ![x].tokens = LlmExtract(tries)]
             ELSE Move(x)
    BY DEF Extract
  <2>. DEFINE t == LlmExtract(tries)
  <2>3. t \in Costs /\ t \in Nat
    BY <2>2, AnswerIsACost, ConstantsAreNat
  <2>. HIDE DEF t
  <2>4. run[x].processed < Cap
    BY <2>1 DEF RunsInv
  <2>5. CASE t > 0
    BY <1>1, <2>1, <2>2, <2>3, <2>4, <2>5, Holds DEF Charged, t
  <2>6. CASE t = 0
    <3>1. Move(x)
      BY <2>2, <2>6 DEF t
    <3>. QED  BY <2>1, <2>2, <2>3, <2>6, <3>1, MoveMoves DEF Charged, t
  <2>. QED  BY <2>3, <2>5, <2>6
<1>8. ExtractUnfit(x) => Moves(x, "ask", "look")
  BY MoveMoves DEF ExtractUnfit, AtTool
<1>9. ExtractUnavailable(x) => Moves(x, "ask", "idle")
  BY <1>1, IdleAgain DEF ExtractUnavailable, AtTool, Stays
<1>10. AddTokens(x) => Moves(x, "add", "look")
  BY ProcessedMoves DEF AddTokens, AtTool
<1>11. AddLost(x) => Moves(x, "add", "look")
  BY ProcessedMoves DEF AddLost, AtTool
<1>. QED  BY <1>2, <1>3, <1>4, <1>5, <1>6, <1>7, <1>8, <1>9, <1>10, <1>11

LEMMA ConfirmMoves ==
  ASSUME RunsInv, NEW v \in Checkers, Confirm(v)
  PROVE  \E t \in Costs : /\ Charge(t) /\ unchecked' = unchecked + t
                          /\ Moves(v, "idle", "add")
<1>1. PICK tries \in Tries :
        /\ LlmExtract(tries) > 0
        /\ Charge(LlmExtract(tries))
        /\ unchecked' = unchecked + LlmExtract(tries)
        /\ run' = [run EXCEPT ![v].step = "add", ![v].tokens = LlmExtract(tries)]
  BY DEF Confirm
<1>2. v \in Extractors \cup Checkers /\ v \notin Extractors /\ run[v].step = "idle"
  BY BudgetAssumption DEF Confirm
<1>. DEFINE t == LlmExtract(tries)
<1>3. t \in Costs
  BY <1>1, AnswerIsACost DEF Unavailable
<1>4. /\ t > 0 /\ Charge(t) /\ unchecked' = unchecked + t
      /\ run' = [run EXCEPT ![v].step = "add", ![v].tokens = t]
  BY <1>1
<1>. HIDE DEF t
<1>5. Moves(v, "idle", "add")
  BY <1>2, <1>3, <1>4, Holds
<1>. QED  BY <1>3, <1>4, <1>5

LEMMA ConfirmedMoves ==
  ASSUME RunsInv, NEW v \in Checkers, AddConfirmed(v)
  PROVE  Moves(v, "add", "idle")
BY IdleAgain DEF AddConfirmed, Stays

LEMMA CrashMoves ==
  ASSUME RunsInv, NEW x \in Extractors \cup Checkers, Crash(x)
  PROVE  Moves(x, run[x].step, "idle")
BY IdleAgain DEF Crash, Stays

LEMMA RecordHasTypes ==
  ASSUME NEW rec \in RunRecords
  PROVE  /\ rec.step \in {"idle", "look", "ask", "add"}
         /\ rec.tool \in 0 .. NumTools + 1
         /\ rec.processed \in 0 .. Cap
         /\ rec.tokens \in Costs \cup {0}
         /\ rec.tokens \in Nat /\ rec.tokens <= MaxCost
<1>1. /\ rec.step \in {"idle", "look", "ask", "add"}
      /\ rec.tool \in 0 .. NumTools + 1
      /\ rec.processed \in 0 .. Cap
      /\ rec.tokens \in Costs \cup {0}
  BY DEF RunRecords
<1>2. CASE rec.tokens = 0
  BY <1>1, <1>2, ConstantsAreNat
<1>3. CASE rec.tokens \in Costs
  BY <1>1, <1>3, ConstantsAreNat, MaxCostIsGreatest
<1>. QED  BY <1>1, <1>2, <1>3

LEMMA RunsHaveTypes ==
  ASSUME RunsInv
  PROVE  \A x \in Extractors \cup Checkers :
           /\ run[x].step \in {"idle", "look", "ask", "add"}
           /\ run[x].tool \in 0 .. NumTools + 1
           /\ run[x].processed \in 0 .. Cap
           /\ run[x].tokens \in Costs \cup {0}
           /\ run[x].tokens \in Nat /\ run[x].tokens <= MaxCost
<1>1. \A x \in Extractors \cup Checkers : run[x] \in RunRecords
  BY DEF RunsInv
<1>. QED  BY <1>1, RecordHasTypes

(* The counters are natural numbers.                                       *)
Counters ==
  /\ used \in Nat /\ spent \in Nat /\ unchecked \in Nat /\ uncounted \in Nat
  /\ known \subseteq Tools \ Restless
  /\ blind \in BOOLEAN /\ faults \in 0 .. MaxFaults

LEMMA MachineHasTypes == Counters /\ RunsInv => TypeOK
BY RunsHaveTypes DEF Counters, TypeOK

LEMMA InitMachine == Init => Counters /\ RunsInv
<1>. SUFFICES ASSUME Init PROVE Counters /\ RunsInv
  OBVIOUS
<1>1. Counters
  <2>1. /\ used \in Nat /\ spent \in Nat /\ unchecked \in Nat /\ uncounted \in Nat
        /\ known \subseteq Tools \ Restless /\ blind \in BOOLEAN
    BY DEF Init
  <2>2. faults \in 0 .. MaxFaults
    BY ConstantsAreNat DEF Init
  <2>. QED  BY <2>1, <2>2 DEF Counters
<1>2. run \in [Extractors \cup Checkers -> RunRecords]
  BY IdleIsARun DEF Init
<1>3. \A x \in Extractors \cup Checkers : run[x].step = "idle"
  BY DEF Init, Idle
<1>. QED  BY <1>1, <1>2, <1>3 DEF RunsInv

LEMMA MishapCounts == Counters /\ Mishap => faults' \in 0 .. MaxFaults
BY ConstantsAreNat DEF Counters, Mishap

LEMMA SweepCounters ==
  ASSUME Counters, RunsInv, NEW x \in Extractors, Proceed(x) \/ Fail(x)
  PROVE  Counters'
<1>1. run[x].tokens \in Nat /\ x \in Extractors \cup Checkers
  BY RunsHaveTypes, ExtractorIsNoChecker
<1>2. CASE StartSweep(x) \/ AskAboutTool(x) \/ EndSweep(x)
  BY <1>2 DEF Counters, StartSweep, AskAboutTool, EndSweep
<1>3. CASE Skip(x)
  BY <1>3, MishapCounts DEF Counters, Skip
<1>4. CASE Extract(x)
  <2>1. PICK t \in Costs : Charge(t)
    BY <1>4, SweepMoves DEF Charged
  <2>2. spent' \in Nat
    BY <2>1, ConstantsAreNat DEF Charge, Counters
  <2>3. known' \subseteq Tools \ Restless
    BY <1>4 DEF Counters, Extract, AtTool
  <2>. QED  BY <1>4, <2>2, <2>3 DEF Counters, Extract
<1>5. CASE AddTokens(x)
  BY <1>1, <1>5 DEF Counters, AddTokens
<1>6. CASE LookBlind(x)
  BY <1>6, MishapCounts DEF Counters, LookBlind
<1>7. CASE ExtractUnfit(x)
  <2>1. spent' \in Nat /\ uncounted' \in Nat
    BY <1>7, ConstantsAreNat DEF Charge, Counters, ExtractUnfit
  <2>. QED  BY <1>7, <2>1, MishapCounts DEF Counters, ExtractUnfit
<1>8. CASE ExtractUnavailable(x)
  BY <1>8, MishapCounts DEF Counters, ExtractUnavailable
<1>9. CASE AddLost(x)
  BY <1>1, <1>9, MishapCounts DEF Counters, AddLost
<1>. QED  BY <1>2, <1>3, <1>4, <1>5, <1>6, <1>7, <1>8, <1>9 DEF Proceed, Fail

LEMMA NextMachine == Counters /\ RunsInv /\ [Next]_vars => (Counters /\ RunsInv)'
<1>. SUFFICES ASSUME Counters, RunsInv, [Next]_vars PROVE Counters' /\ RunsInv'
  OBVIOUS
<1>1. ASSUME NEW x \in Extractors, Proceed(x) \/ Fail(x) PROVE Counters' /\ RunsInv'
  <2>1. RunsInv'
    BY <1>1, SweepMoves DEF Proceed, Fail, Moves, Charged
  <2>. QED  BY <1>1, <2>1, SweepCounters
<1>2. ASSUME NEW v \in Checkers, Confirm(v) PROVE Counters' /\ RunsInv'
  <2>1. PICK t \in Costs : /\ Charge(t) /\ unchecked' = unchecked + t /\ Moves(v, "idle", "add")
    BY <1>2, ConfirmMoves
  <2>2. spent' \in Nat /\ unchecked' \in Nat
    BY <2>1, ConstantsAreNat DEF Charge, Counters
  <2>. QED  BY <1>2, <2>1, <2>2 DEF Counters, Confirm, Moves
<1>3. ASSUME NEW v \in Checkers, AddConfirmed(v) PROVE Counters' /\ RunsInv'
  <2>1. run[v].tokens \in Nat
    BY RunsHaveTypes
  <2>2. used' \in Nat
    BY <1>3, <2>1 DEF Counters, AddConfirmed
  <2>3. RunsInv'
    BY <1>3, ConfirmedMoves DEF Moves
  <2>. QED  BY <1>3, <2>2, <2>3 DEF Counters, AddConfirmed
<1>4. ASSUME NEW x \in Extractors \cup Checkers, Crash(x) PROVE Counters' /\ RunsInv'
  <2>1. run[x].tokens \in Nat
    BY RunsHaveTypes
  <2>2. uncounted' \in Nat /\ faults' \in 0 .. MaxFaults
    BY <1>4, <2>1, MishapCounts DEF Counters, Crash
  <2>3. RunsInv'
    BY <1>4, CrashMoves DEF Moves
  <2>. QED  BY <1>4, <2>2, <2>3 DEF Counters, Crash
<1>5. CASE Midnight
  BY <1>5 DEF Midnight, Counters, RunsInv
<1>6. CASE UNCHANGED vars
  BY <1>6 DEF vars, Counters, RunsInv
<1>. QED  BY <1>1, <1>2, <1>3, <1>4, <1>5, <1>6 DEF Next

(* Every variable keeps its type, and no sweep asks about more than Cap    *)
(* tools (extract_due_trials).                                             *)
THEOREM TypeCorrect == Spec => []TypeOK
BY InitMachine, NextMachine, MachineHasTypes, PTL DEF Spec

----------------------------------------------------------------------------
(* The bill.  A token in flight is a pair of a sweep and a number: those a *)
(* sweep holds and has not added yet.  Every sweep has MaxCost places for  *)
(* them; the places of a sweep that is asking are not yet decided on, those*)
(* of all others are spared.                                               *)

Places == Extractors \X (1 .. MaxCost)
PlacesOf(x, t) == {x} \X (1 .. t)
InFlight == {p \in Places : run[p[1]].step = "add" /\ p[2] <= run[p[1]].tokens}
Spared == {p \in Places : run[p[1]].step # "ask"}

(* What was charged is counted, in flight, or excused.                     *)
Accounted == spent <= used + Cardinality(InFlight) + unchecked + uncounted

(* While Redis answers: beyond the budget are only tokens of sweeps that   *)
(* have asked.                                                             *)
Restrained == ~blind => spent < Budget + Cardinality(Spared) + unchecked + uncounted

BillInv == Counters /\ RunsInv /\ Accounted /\ Restrained

LEMMA PlacesAreFinite ==
  /\ IsFiniteSet(Places) /\ Cardinality(Places) = Cardinality(Extractors) * MaxCost
  /\ \A S \in SUBSET Places : IsFiniteSet(S) /\ Cardinality(S) \in Nat
                              /\ Cardinality(S) <= Cardinality(Places)
<1>1. IsFiniteSet(1 .. MaxCost) /\ Cardinality(1 .. MaxCost) = MaxCost
  BY ConstantsAreNat, FS_Interval
<1>2. IsFiniteSet(Places) /\ Cardinality(Places) = Cardinality(Extractors) * MaxCost
  BY <1>1, BudgetAssumption, FS_Product DEF Places
<1>3. ASSUME NEW S \in SUBSET Places
      PROVE  IsFiniteSet(S) /\ Cardinality(S) \in Nat /\ Cardinality(S) <= Cardinality(Places)
  BY <1>2, FS_Subset, FS_CardinalityType
<1>. QED  BY <1>2, <1>3

LEMMA PlacesCount ==
  ASSUME NEW x \in Extractors, NEW t \in Nat, t <= MaxCost
  PROVE  /\ PlacesOf(x, t) \in SUBSET Places
         /\ IsFiniteSet(PlacesOf(x, t)) /\ Cardinality(PlacesOf(x, t)) = t
<1>1. IsFiniteSet(1 .. t) /\ Cardinality(1 .. t) = t
  BY FS_Interval
<1>2. IsFiniteSet({x}) /\ Cardinality({x}) = 1
  BY FS_Singleton
<1>3. IsFiniteSet(PlacesOf(x, t)) /\ Cardinality(PlacesOf(x, t)) = 1 * t
  <2>1. IsFiniteSet({x} \X (1 .. t)) /\ Cardinality({x} \X (1 .. t)) = Cardinality({x}) * Cardinality(1 .. t)
    BY <1>1, <1>2, FS_Product
  <2>. QED  BY <1>1, <1>2, <2>1 DEF PlacesOf
<1>4. 1 .. t \subseteq 1 .. MaxCost
  BY ConstantsAreNat
<1>. QED  BY <1>3, <1>4 DEF PlacesOf, Places

(* Taking places apart, and putting them together.                         *)
LEMMA ApartAdds ==
  ASSUME NEW S \in SUBSET Places, NEW T \in SUBSET Places, S \cap T = {}
  PROVE  Cardinality(S \cup T) = Cardinality(S) + Cardinality(T)
<1>1. IsFiniteSet(S) /\ IsFiniteSet(T) /\ Cardinality(S) \in Nat /\ Cardinality(T) \in Nat
  BY PlacesAreFinite
<1>2. Cardinality(S \cup T) = Cardinality(S) + Cardinality(T) - Cardinality(S \cap T)
  BY <1>1, FS_Union
<1>3. Cardinality(S \cap T) = 0
  BY FS_EmptySet
<1>. QED  BY <1>1, <1>2, <1>3

(* What a move of one sweep does to the tokens in flight.                  *)
LEMMA FlightOnMove ==
  ASSUME RunsInv, NEW x \in Extractors, NEW from, NEW to, Moves(x, from, to)
  PROVE  /\ from # "add" /\ to # "add" => InFlight' = InFlight
         /\ from # "add" /\ to = "add" =>
              Cardinality(InFlight') = Cardinality(InFlight) + run'[x].tokens
         /\ from = "add" /\ to # "add" =>
              Cardinality(InFlight) = Cardinality(InFlight') + run[x].tokens
<1>1. \A p \in Places : p[1] \in Extractors /\ p[2] \in 1 .. MaxCost /\ p = <<p[1], p[2]>>
  BY DEF Places
<1>2. \A y \in Extractors : y # x => run'[y] = run[y]
  BY DEF Moves
<1>3. run[x].step = from /\ run'[x].step = to
  BY DEF Moves
<1>. DEFINE Rest == {p \in Places : p[1] # x /\ run[p[1]].step = "add" /\ p[2] <= run[p[1]].tokens}
<1>4. Rest' = Rest
  BY <1>1, <1>2
<1>5. from # "add" => InFlight = Rest
  BY <1>3 DEF InFlight
<1>6. to # "add" => InFlight' = Rest'
  BY <1>3 DEF InFlight
<1>7. run[x].tokens \in Nat /\ run[x].tokens <= MaxCost
  BY RunsHaveTypes, ExtractorIsNoChecker
<1>8. run'[x].tokens \in Nat /\ run'[x].tokens <= MaxCost
  <2>1. RunsInv'
    BY DEF Moves
  <2>2. run'[x] \in RunRecords
    BY <2>1, ExtractorIsNoChecker DEF RunsInv
  <2>. QED  BY <2>2, RecordHasTypes
<1>9. from = "add" => InFlight = Rest \cup PlacesOf(x, run[x].tokens)
  BY <1>1, <1>3, <1>7, ConstantsAreNat DEF InFlight, PlacesOf, Places
<1>10. to = "add" => InFlight' = Rest' \cup PlacesOf(x, run'[x].tokens)
  BY <1>1, <1>3, <1>8, ConstantsAreNat DEF InFlight, PlacesOf, Places
<1>11. Rest \in SUBSET Places /\ Rest \cap PlacesOf(x, run[x].tokens) = {}
       /\ Rest \cap PlacesOf(x, run'[x].tokens) = {}
  BY DEF PlacesOf
<1>. HIDE DEF Rest
<1>12. /\ from # "add" /\ to = "add" =>
            Cardinality(InFlight') = Cardinality(InFlight) + run'[x].tokens
  BY <1>4, <1>5, <1>8, <1>10, <1>11, PlacesCount, ApartAdds
<1>13. /\ from = "add" /\ to # "add" =>
            Cardinality(InFlight) = Cardinality(InFlight') + run[x].tokens
  BY <1>4, <1>6, <1>7, <1>9, <1>11, PlacesCount, ApartAdds
<1>. QED  BY <1>4, <1>5, <1>6, <1>12, <1>13

(* What it does to the places that are spared.                             *)
LEMMA SparedOnMove ==
  ASSUME RunsInv, NEW x \in Extractors, NEW from, NEW to, Moves(x, from, to)
  PROVE  /\ from # "ask" /\ to # "ask" => Spared' = Spared
         /\ from = "ask" /\ to # "ask" => Cardinality(Spared') = Cardinality(Spared) + MaxCost
         /\ from # "add" => InFlight \in SUBSET Spared'
<1>1. \A p \in Places : p[1] \in Extractors /\ p[2] \in 1 .. MaxCost /\ p = <<p[1], p[2]>>
  BY DEF Places
<1>2. \A y \in Extractors : y # x => run'[y] = run[y]
  BY DEF Moves
<1>3. run[x].step = from /\ run'[x].step = to
  BY DEF Moves
<1>4. from # "ask" /\ to # "ask" => Spared' = Spared
  BY <1>1, <1>2, <1>3 DEF Spared
<1>5. from = "ask" /\ to # "ask" =>
        /\ Spared' = Spared \cup PlacesOf(x, MaxCost)
        /\ Spared \cap PlacesOf(x, MaxCost) = {}
  BY <1>1, <1>2, <1>3, ConstantsAreNat DEF Spared, PlacesOf, Places
<1>6. Spared \in SUBSET Places
  BY DEF Spared
<1>7. from = "ask" /\ to # "ask" => Cardinality(Spared') = Cardinality(Spared) + MaxCost
  BY <1>5, <1>6, ConstantsAreNat, PlacesCount, ApartAdds
<1>8. from # "add" => InFlight \in SUBSET Spared'
  BY <1>1, <1>2, <1>3 DEF InFlight, Spared
<1>. QED  BY <1>4, <1>7, <1>8

LEMMA PlacesHeld ==
  /\ IsFiniteSet(InFlight) /\ Cardinality(InFlight) \in Nat
  /\ IsFiniteSet(Spared) /\ Cardinality(Spared) \in Nat
  /\ Cardinality(Spared) <= Cardinality(Extractors) * MaxCost
<1>1. InFlight \in SUBSET Places /\ Spared \in SUBSET Places
  BY DEF InFlight, Spared
<1>. QED  BY <1>1, PlacesAreFinite

LEMMA PlacesHeldNext ==
  /\ IsFiniteSet(InFlight') /\ Cardinality(InFlight') \in Nat
  /\ IsFiniteSet(Spared') /\ Cardinality(Spared') \in Nat
<1>1. InFlight' \in SUBSET Places /\ Spared' \in SUBSET Places
  BY DEF InFlight, Spared, Places
<1>. QED  BY <1>1, PlacesAreFinite

(* Without an answer the books stay as they are, and without a new question*)
(* the places that are spared become no fewer.                             *)
LEMMA QuietBill ==
  ASSUME Counters, Counters', Accounted, Restrained, NEW lost \in Nat,
         UNCHANGED <<unchecked, spent>>, uncounted' = uncounted + lost,
         blind' = blind,
         used' + Cardinality(InFlight') + lost >= used + Cardinality(InFlight),
         Cardinality(Spared') >= Cardinality(Spared)
  PROVE  Accounted' /\ Restrained'
<1>1. /\ used \in Nat /\ spent \in Nat /\ unchecked \in Nat /\ uncounted \in Nat /\ used' \in Nat
  BY DEF Counters
<1>2. Accounted'
  BY <1>1, PlacesHeld, PlacesHeldNext DEF Accounted
<1>3. Restrained'
  BY <1>1, PlacesHeld, PlacesHeldNext, ConstantsAreNat DEF Restrained
<1>. QED  BY <1>2, <1>3

LEMMA SweepBill ==
  ASSUME BillInv, Counters', NEW x \in Extractors, Proceed(x) \/ Fail(x)
  PROVE  Accounted' /\ Restrained'
<1>. USE PlacesHeld, PlacesHeldNext, ConstantsAreNat
<1>1. /\ Counters /\ RunsInv /\ Accounted /\ Restrained
      /\ used \in Nat /\ spent \in Nat /\ unchecked \in Nat /\ uncounted \in Nat
  BY DEF BillInv, Counters
<1>2. CASE StartSweep(x) \/ Skip(x) \/ EndSweep(x) \/ ExtractUnavailable(x)
  <2>1. Moves(x, "idle", "look") \/ Moves(x, "look", "look") \/ Moves(x, "look", "idle")
        \/ Moves(x, "ask", "idle")
    BY <1>1, <1>2, SweepMoves
  <2>2. InFlight' = InFlight
    BY <1>1, <2>1, FlightOnMove
  <2>3. Cardinality(Spared') >= Cardinality(Spared)
    BY <1>1, <2>1, SparedOnMove
  <2>4. UNCHANGED <<used, unchecked, spent, uncounted, blind>>
    BY <1>2 DEF StartSweep, Skip, EndSweep, ExtractUnavailable
  <2>. QED  BY <1>1, <2>2, <2>3, <2>4, QuietBill
<1>3. CASE AskAboutTool(x)
  <2>1. Moves(x, "look", "ask")
    BY <1>1, <1>3, SweepMoves
  <2>2. InFlight' = InFlight /\ InFlight \in SUBSET Spared'
    BY <1>1, <2>1, FlightOnMove, SparedOnMove
  <2>3. UNCHANGED <<used, unchecked, spent, uncounted, blind>> /\ used < Budget
    BY <1>3 DEF AskAboutTool, BudgetRemains
  <2>4. Cardinality(InFlight) <= Cardinality(Spared')
    BY <2>2, FS_Subset
  <2>5. Accounted'
    BY <1>1, <2>2, <2>3 DEF Accounted
  <2>6. spent' < Budget + Cardinality(Spared') + unchecked' + uncounted'
    BY <1>1, <2>3, <2>4 DEF Accounted
  <2>. QED  BY <2>5, <2>6 DEF Restrained
<1>4. CASE LookBlind(x)
  <2>1. Moves(x, "look", "look") \/ Moves(x, "look", "ask")
    BY <1>1, <1>4, SweepMoves
  <2>2. InFlight' = InFlight
    BY <1>1, <2>1, FlightOnMove
  <2>3. UNCHANGED <<used, unchecked, spent, uncounted>> /\ blind'
    BY <1>4 DEF LookBlind
  <2>. QED  BY <1>1, <2>2, <2>3 DEF Accounted, Restrained
<1>5. CASE Extract(x)
  <2>1. PICK t \in Costs : /\ Charge(t)
                           /\ \/ Moves(x, "ask", "add") /\ run'[x].tokens = t
                              \/ Moves(x, "ask", "look") /\ t = 0
    BY <1>1, <1>5, SweepMoves DEF Charged
  <2>2. t \in Nat /\ t <= MaxCost /\ spent' = spent + t
    BY <2>1, MaxCostIsGreatest DEF Charge
  <2>3. Cardinality(InFlight') = Cardinality(InFlight) + t
    <3>1. CASE Moves(x, "ask", "add") /\ run'[x].tokens = t
      BY <1>1, <3>1, FlightOnMove
    <3>2. CASE Moves(x, "ask", "look") /\ t = 0
      BY <1>1, <3>2, FlightOnMove
    <3>. QED  BY <2>1, <3>1, <3>2
  <2>4. Cardinality(Spared') = Cardinality(Spared) + MaxCost
    <3>1. CASE Moves(x, "ask", "add")
      BY <1>1, <3>1, SparedOnMove
    <3>2. CASE Moves(x, "ask", "look")
      BY <1>1, <3>2, SparedOnMove
    <3>. QED  BY <2>1, <3>1, <3>2
  <2>5. UNCHANGED <<used, unchecked, uncounted, blind>>
    BY <1>5 DEF Extract
  <2>6. Accounted'
    BY <1>1, <2>2, <2>3, <2>5 DEF Accounted
  <2>7. Restrained'
    BY <1>1, <2>2, <2>4, <2>5 DEF Restrained
  <2>. QED  BY <2>6, <2>7
<1>6. CASE ExtractUnfit(x)
  <2>1. Moves(x, "ask", "look")
    BY <1>1, <1>6, SweepMoves
  <2>2. InFlight' = InFlight /\ Cardinality(Spared') = Cardinality(Spared) + MaxCost
    BY <1>1, <2>1, FlightOnMove, SparedOnMove
  <2>3. PICK t \in Costs : spent' = spent + t /\ uncounted' = uncounted + t
    BY <1>6 DEF ExtractUnfit, Charge
  <2>4. UNCHANGED <<used, unchecked, blind>> /\ t \in Nat
    BY <1>6 DEF ExtractUnfit
  <2>5. Accounted'
    BY <1>1, <2>2, <2>3, <2>4 DEF Accounted
  <2>6. Restrained'
    BY <1>1, <2>2, <2>3, <2>4 DEF Restrained
  <2>. QED  BY <2>5, <2>6
<1>7. CASE AddTokens(x) \/ AddLost(x)
  <2>1. Moves(x, "add", "look")
    BY <1>1, <1>7, SweepMoves
  <2>2. /\ Cardinality(InFlight) = Cardinality(InFlight') + run[x].tokens
        /\ Spared' = Spared
    BY <1>1, <2>1, FlightOnMove, SparedOnMove
  <2>3. run[x].tokens \in Nat
    BY <1>1, RunsHaveTypes, ExtractorIsNoChecker
  <2>4. CASE AddTokens(x)
    <3>1. used' = used + run[x].tokens /\ UNCHANGED <<unchecked, spent, uncounted, blind>>
      BY <2>4 DEF AddTokens
    <3>. QED  BY <1>1, <2>2, <2>3, <3>1 DEF Accounted, Restrained
  <2>5. CASE AddLost(x)
    <3>1. uncounted' = uncounted + run[x].tokens /\ UNCHANGED <<unchecked, spent, used, blind>>
      BY <2>5 DEF AddLost
    <3>. QED  BY <1>1, <2>2, <2>3, <3>1 DEF Accounted, Restrained
  <2>. QED  BY <1>7, <2>4, <2>5
<1>. QED  BY <1>2, <1>3, <1>4, <1>5, <1>6, <1>7 DEF Proceed, Fail

(* The verification and its crashes touch no sweep.                        *)
LEMMA CheckerMoves ==
  ASSUME NEW v \in Checkers, NEW from, NEW to, Moves(v, from, to)
  PROVE  InFlight' = InFlight /\ Spared' = Spared
<1>1. \A y \in Extractors : run'[y] = run[y]
  BY ExtractorIsNoChecker DEF Moves
<1>2. \A p \in Places : p[1] \in Extractors
  BY DEF Places
<1>. QED  BY <1>1, <1>2 DEF InFlight, Spared

LEMMA CrashBill ==
  ASSUME BillInv, Counters', NEW x \in Extractors \cup Checkers, Crash(x)
  PROVE  Accounted' /\ Restrained'
<1>. USE PlacesHeld, PlacesHeldNext, ConstantsAreNat
<1>1. /\ Counters /\ RunsInv /\ Accounted /\ Restrained
      /\ used \in Nat /\ spent \in Nat /\ unchecked \in Nat /\ uncounted \in Nat
  BY DEF BillInv, Counters
<1>2. Moves(x, run[x].step, "idle") /\ run[x].tokens \in Nat
  BY <1>1, CrashMoves, RunsHaveTypes
<1>3. UNCHANGED <<used, unchecked, spent, blind>> /\ uncounted' = uncounted + run[x].tokens
  BY DEF Crash
<1>4. Cardinality(InFlight') + run[x].tokens >= Cardinality(InFlight)
  <2>1. CASE x \in Checkers
    BY <1>2, <2>1, CheckerMoves
  <2>2. CASE x \in Extractors
    BY <1>1, <1>2, <2>2, FlightOnMove
  <2>. QED  BY <2>1, <2>2
<1>5. Cardinality(Spared') >= Cardinality(Spared)
  <2>1. CASE x \in Checkers
    BY <1>2, <2>1, CheckerMoves
  <2>2. CASE x \in Extractors
    BY <1>1, <1>2, <2>2, SparedOnMove
  <2>. QED  BY <2>1, <2>2
<1>. QED  BY <1>1, <1>2, <1>3, <1>4, <1>5, QuietBill

LEMMA InitBill == Budget > 0 => (Init => BillInv)
<1>. SUFFICES ASSUME Budget > 0, Init PROVE BillInv
  OBVIOUS
<1>1. Counters /\ RunsInv
  BY InitMachine
<1>2. Accounted /\ Restrained
  BY PlacesHeld, ConstantsAreNat DEF Init, Accounted, Restrained
<1>. QED  BY <1>1, <1>2 DEF BillInv

LEMMA NextBill == Budget > 0 => (BillInv /\ [Next]_vars => BillInv')
<1>. SUFFICES ASSUME Budget > 0, BillInv, [Next]_vars PROVE Accounted' /\ Restrained'
  BY NextMachine DEF BillInv
<1>. USE PlacesHeld, PlacesHeldNext, ConstantsAreNat
<1>1. /\ Counters /\ RunsInv /\ Accounted /\ Restrained /\ Counters'
      /\ used \in Nat /\ spent \in Nat /\ unchecked \in Nat /\ uncounted \in Nat
  BY NextMachine DEF BillInv, Counters
<1>2. ASSUME NEW x \in Extractors, Proceed(x) \/ Fail(x) PROVE Accounted' /\ Restrained'
  BY <1>1, <1>2, SweepBill
<1>3. ASSUME NEW v \in Checkers, Confirm(v) PROVE Accounted' /\ Restrained'
  <2>1. PICK t \in Costs : spent' = spent + t /\ unchecked' = unchecked + t /\ Moves(v, "idle", "add")
    BY <1>1, <1>3, ConfirmMoves DEF Charge
  <2>2. InFlight' = InFlight /\ Spared' = Spared /\ UNCHANGED <<used, uncounted, blind>> /\ t \in Nat
    BY <1>3, <2>1, CheckerMoves DEF Confirm
  <2>. QED  BY <1>1, <2>1, <2>2 DEF Accounted, Restrained
<1>4. ASSUME NEW v \in Checkers, AddConfirmed(v) PROVE Accounted' /\ Restrained'
  <2>1. InFlight' = InFlight /\ Spared' = Spared
    BY <1>1, <1>4, ConfirmedMoves, CheckerMoves
  <2>2. /\ used' = used + run[v].tokens /\ run[v].tokens \in Nat
        /\ UNCHANGED <<spent, unchecked, uncounted, blind>>
    BY <1>1, <1>4, RunsHaveTypes DEF AddConfirmed
  <2>. QED  BY <1>1, <2>1, <2>2 DEF Accounted, Restrained
<1>5. ASSUME NEW x \in Extractors \cup Checkers, Crash(x) PROVE Accounted' /\ Restrained'
  BY <1>1, <1>5, CrashBill
<1>6. CASE Midnight
  BY <1>1, <1>6 DEF Midnight, Accounted, Restrained
<1>7. CASE UNCHANGED vars
  <2>1. InFlight' = InFlight /\ Spared' = Spared
    BY <1>7 DEF vars, InFlight, Spared
  <2>. QED  BY <1>1, <1>7, <2>1 DEF vars, Accounted, Restrained
<1>. QED  BY <1>2, <1>3, <1>4, <1>5, <1>6, <1>7 DEF Next

(* With any positive budget: while Redis answers, the day's bill exceeds it*)
(* by one call of every sweep at most, beside what the verification uses   *)
(* and what failed calls cost (budget_remaining, add_tokens_today).        *)
THEOREM OvershootIsBounded == Budget > 0 => (Spec => []OvershootBounded)
<1>1. BillInv => OvershootBounded
  <2>. SUFFICES ASSUME BillInv, ~blind
                PROVE  spent < Budget + Cardinality(Extractors) * MaxCost + unchecked + uncounted
    BY DEF OvershootBounded
  <2>1. /\ spent \in Nat /\ unchecked \in Nat /\ uncounted \in Nat
        /\ spent < Budget + Cardinality(Spared) + unchecked + uncounted
    BY DEF BillInv, Counters, Restrained
  <2>2. Cardinality(Extractors) \in Nat
    BY BudgetAssumption, FS_CardinalityType
  <2>. DEFINE most == Cardinality(Extractors) * MaxCost
  <2>3. most \in Nat /\ Cardinality(Spared) <= most /\ Cardinality(Spared) \in Nat
    BY <2>2, PlacesHeld, ConstantsAreNat
  <2>. HIDE DEF most
  <2>4. spent < Budget + most + unchecked + uncounted
    BY <2>1, <2>3, ConstantsAreNat
  <2>. QED  BY <2>4 DEF most
<1>. SUFFICES ASSUME Budget > 0 PROVE Spec => []OvershootBounded
  OBVIOUS
<1>2. Init => BillInv
  BY InitBill
<1>3. BillInv /\ [Next]_vars => BillInv'
  BY NextBill
<1>. QED  BY <1>1, <1>2, <1>3, PTL DEF Spec

=============================================================================
