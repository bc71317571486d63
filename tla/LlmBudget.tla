------------------------------ MODULE LlmBudget ------------------------------
(***************************************************************************)
(* The daily token budget of the LLM: the extraction sweeps, which look at *)
(* the counter in Redis before every tool, and the live verification of    *)
(* trials, which only adds to it.  What was used is added after the answer,*)
(* so runs that overlap do not see each other's calls, and what fails after*)
(* the provider was paid is never added.                                   *)
(***************************************************************************)
EXTENDS Integers, FiniteSets

CONSTANTS
  NumTools,     \* the live tools, in the order of the SELECT
  Restless,     \* tools whose page is never known: it changes, or has no offers
  Extractors,   \* overlapping runs of extract_due_trials
  Checkers,     \* overlapping runs of the trial verification
  Providers,    \* the configured providers, in the order they are tried
  Costs,        \* tokens a provider may report for an answer
  Cap,          \* tools one run asks the LLM about
  Budget,       \* llm_daily_token_budget
  MaxUnchecked, \* bound: tokens the verification uses in a day
  MaxFaults     \* bound: pages that do not load, calls that fail, runs killed

Tools == 1 .. NumTools
Failed == -1
Unavailable == -1
MaxCost == CHOOSE k \in Costs : \A j \in Costs : j <= k

ASSUME BudgetAssumption ==
  /\ {NumTools, Providers, Cap, Budget, MaxUnchecked, MaxFaults} \subseteq Nat
  /\ Restless \subseteq Tools
  /\ Extractors \cap Checkers = {} /\ IsFiniteSet(Extractors)
  /\ Costs \subseteq Nat /\ Costs # {} /\ IsFiniteSet(Costs)

VARIABLES
  used,       \* llm:tokens:<today> in Redis
  known,      \* tools whose offers carry the hash of the page
  run,        \* run[x]: where a run stands
  spent,      \* history: tokens the providers charged today
  unchecked,  \* history: those charged to the verification
  uncounted,  \* history: those that never reached the counter
  blind,      \* history: Redis did not answer a look at the counter today
  faults      \* history: what failed so far

vars == <<used, known, run, spent, unchecked, uncounted, blind, faults>>

Idle == [step |-> "idle", tool |-> 0, processed |-> 0, tokens |-> 0]

Init ==
  /\ used = 0 /\ known = {}
  /\ run = [x \in Extractors \cup Checkers |-> Idle]
  /\ spent = 0 /\ unchecked = 0 /\ uncounted = 0 /\ blind = FALSE
  /\ faults = 0

(* The first provider that answers is the answer; what the ones before it  *)
(* charged is not reported.                                                *)
LlmExtract(tries) ==
  LET answers == {p \in DOMAIN tries : tries[p] # Failed}
  IN IF answers = {} THEN Unavailable
     ELSE tries[CHOOSE p \in answers : \A q \in answers : p <= q]

Tries == [1 .. Providers -> Costs \cup {Failed}]

Charge(tokens) == spent' = spent + tokens

Mishap == faults < MaxFaults /\ faults' = faults + 1

----------------------------------------------------------------------------
(* The extraction sweep.                                                   *)

StartSweep(x) ==
  /\ run[x].step = "idle"
  /\ run' = [run EXCEPT ![x] = [Idle EXCEPT !.step = "look", !.tool = 1]]
  /\ UNCHANGED <<used, known, spent, unchecked, uncounted, blind, faults>>

AtTool(x, step) == run[x].step = step /\ run[x].tool \in Tools

Move(x) == run' = [run EXCEPT ![x] = [@ EXCEPT !.step = "look", !.tool = run[x].tool + 1,
                                                   !.tokens = 0]]

\* Mutant: one tool too many.
CapPassed(x) == run[x].processed > Cap

CapReached(x) == run[x].processed >= Cap

\* Mutant: the budget is looked at before the loop only.
RemainsAtStart(x) == run[x].tool = 1 => used < Budget

BudgetRemains(x) == used < Budget

\* Mutant: a tool that was skipped counts as processed.
SkipCounted(x) ==
  /\ AtTool(x, "look") /\ ~CapReached(x) /\ BudgetRemains(x)
  /\ run' = [run EXCEPT ![x] = [@ EXCEPT !.tool = @ + 1, !.processed = @ + 1]]
  /\ IF run[x].tool \in known THEN UNCHANGED faults ELSE Mishap
  /\ UNCHANGED <<used, known, spent, unchecked, uncounted, blind>>

(* The page is as it was, or does not load: no LLM call.                   *)
Skip(x) ==
  /\ AtTool(x, "look") /\ ~CapReached(x) /\ BudgetRemains(x)
  /\ Move(x)
  /\ IF run[x].tool \in known THEN UNCHANGED faults ELSE Mishap
  /\ UNCHANGED <<used, known, spent, unchecked, uncounted, blind>>

AskAboutTool(x) ==
  /\ AtTool(x, "look") /\ ~CapReached(x) /\ BudgetRemains(x)
  /\ run[x].tool \notin known
  /\ run' = [run EXCEPT ![x].step = "ask"]
  /\ UNCHANGED <<used, known, spent, unchecked, uncounted, blind, faults>>

(* Redis does not answer: nothing seems to be used.                        *)
LookBlind(x) ==
  /\ AtTool(x, "look") /\ ~CapReached(x) /\ ~BudgetRemains(x)
  /\ IF run[x].tool \in known THEN Move(x) ELSE run' = [run EXCEPT ![x].step = "ask"]
  /\ blind' = TRUE
  /\ Mishap
  /\ UNCHANGED <<used, known, spent, unchecked, uncounted>>

EndSweep(x) ==
  /\ run[x].step = "look"
  /\ run[x].tool \notin Tools \/ CapReached(x) \/ ~BudgetRemains(x)
  /\ run' = [run EXCEPT ![x] = Idle]
  /\ UNCHANGED <<used, known, spent, unchecked, uncounted, blind, faults>>

(* The offers are committed with the hash of the page.                     *)
Extract(x) ==
  /\ AtTool(x, "ask")
  /\ \E tries \in Tries :
       LET tokens == LlmExtract(tries)
       IN /\ tokens # Unavailable
          /\ Charge(tokens)
          /\ IF tokens > 0 THEN run' = [run EXCEPT ![x].step = "add", ![x].tokens = tokens] ELSE Move(x)
  /\ known' = known \cup ({run[x].tool} \ Restless)
  /\ UNCHANGED <<used, unchecked, uncounted, blind, faults>>

(* An answer that does not fit the schema: its tokens are not returned.    *)
ExtractUnfit(x) ==
  /\ AtTool(x, "ask")
  /\ \E tokens \in Costs : Charge(tokens) /\ uncounted' = uncounted + tokens
  /\ Move(x)
  /\ Mishap
  /\ UNCHANGED <<used, known, unchecked, blind>>

(* No provider answers: the sweep ends.                                    *)
ExtractUnavailable(x) ==
  /\ AtTool(x, "ask")
  /\ \E tries \in Tries : LlmExtract(tries) = Unavailable
  /\ run' = [run EXCEPT ![x] = Idle]
  /\ Mishap
  /\ UNCHANGED <<used, known, spent, unchecked, uncounted, blind>>

Processed(x) ==
  run' = [run EXCEPT ![x] = [@ EXCEPT !.step = "look", !.tool = run[x].tool + 1,
                                      !.processed = run[x].processed + 1, !.tokens = 0]]

AddTokens(x) ==
  /\ AtTool(x, "add")
  /\ used' = used + run[x].tokens
  /\ Processed(x)
  /\ UNCHANGED <<known, spent, unchecked, uncounted, blind, faults>>

(* Redis does not answer: the tokens are not added, the run goes on.       *)
AddLost(x) ==
  /\ AtTool(x, "add")
  /\ uncounted' = uncounted + run[x].tokens
  /\ Processed(x)
  /\ Mishap
  /\ UNCHANGED <<used, known, spent, unchecked, blind>>

----------------------------------------------------------------------------
(* The third tier of the verification: ask, then add, without a look.      *)

Confirm(v) ==
  /\ run[v].step = "idle"
  /\ \E tries \in Tries :
       LET tokens == LlmExtract(tries)
       IN /\ tokens > 0
          /\ unchecked + tokens <= MaxUnchecked
          /\ Charge(tokens)
          /\ unchecked' = unchecked + tokens
          /\ run' = [run EXCEPT ![v].step = "add", ![v].tokens = tokens]
  /\ UNCHANGED <<used, known, uncounted, blind, faults>>

AddConfirmed(v) ==
  /\ run[v].step = "add"
  /\ used' = used + run[v].tokens
  /\ run' = [run EXCEPT ![v] = Idle]
  /\ UNCHANGED <<known, spent, unchecked, uncounted, blind, faults>>

----------------------------------------------------------------------------
(* A run dies; what it would have added is lost.                           *)
Crash(x) ==
  /\ run[x].step # "idle"
  /\ Mishap
  /\ uncounted' = uncounted + run[x].tokens
  /\ run' = [run EXCEPT ![x] = Idle]
  /\ UNCHANGED <<used, known, spent, unchecked, blind>>

(* The key of the new day.  A call that is under way is added to it.       *)
Midnight ==
  /\ spent > 0 \/ used > 0
  /\ used' = 0 /\ spent' = 0 /\ unchecked' = 0 /\ uncounted' = 0 /\ blind' = FALSE
  /\ UNCHANGED <<known, run, faults>>

Fail(x) == LookBlind(x) \/ ExtractUnfit(x) \/ ExtractUnavailable(x) \/ AddLost(x)

Proceed(x) ==
  StartSweep(x) \/ Skip(x) \/ AskAboutTool(x) \/ EndSweep(x) \/ Extract(x) \/ AddTokens(x)

Next ==
  \/ \E x \in Extractors : Proceed(x) \/ Fail(x)
  \/ \E v \in Checkers : Confirm(v) \/ AddConfirmed(v)
  \/ \E x \in Extractors \cup Checkers : Crash(x)
  \/ Midnight

Spec == Init /\ [][Next]_vars

(* The beat starts a sweep for ever, and every call has a time limit.      *)
FairSpec == Spec /\ WF_vars(Midnight) /\ \A x \in Extractors : WF_vars(Proceed(x))

----------------------------------------------------------------------------
(* Properties.                                                             *)

(* Every variable has its type; a run asks about Cap tools at most.        *)
TypeOK ==
  /\ {used, spent, unchecked, uncounted} \subseteq Nat
  /\ known \subseteq Tools \ Restless
  /\ \A x \in Extractors \cup Checkers :
       /\ run[x].step \in {"idle", "look", "ask", "add"}
       /\ run[x].tool \in 0 .. NumTools + 1
       /\ run[x].processed \in 0 .. Cap
       /\ run[x].tokens \in Costs \cup {0}
  /\ blind \in BOOLEAN /\ faults \in 0 .. MaxFaults

(* While Redis answers, the day's bill exceeds the budget by one call of   *)
(* every sweep under way, by what the verification uses, and by what was   *)
(* charged for calls that failed: never by more, however sweeps overlap.   *)
OvershootBounded ==
  ~blind => spent < Budget + Cardinality(Extractors) * MaxCost + unchecked + uncounted

(* Unless the verification uses up the budget, every tool whose page can   *)
(* be remembered is read: the cap and the tools read before it at every    *)
(* sweep do not starve it (with fewer of them than Cap).                   *)
ToolsAreRead == <>[](unchecked = 0) => \A t \in Tools \ Restless : <>(t \in known)

=============================================================================
