------------------------------- MODULE SeqLoop -------------------------------
(***************************************************************************)
(* The sequential director loop: run_loop of src/src/haetae/loop.py from   *)
(* the moment the specification is pinned (max_parallel <= 1), and the     *)
(* chain of runs that --continue-from makes out of it.                     *)
(*                                                                         *)
(* One director thread asks a brain (an LLM) for the next decision, lets   *)
(* an independent critic judge a work order, has an executor build it and  *)
(* a gate judge the whole specification.  The brain, critic, executor and  *)
(* gate are the environment: every answer they can give is a choice.       *)
(* Between any two calls the run may be interrupted (SIGINT), a call may   *)
(* report exhausted credit or a stall, the process may die, and a write of *)
(* state.yaml may fail.                                                    *)
(*                                                                         *)
(* Abstractions: a work order is the unit it names and the signature of    *)
(* its contents (decomp_signature); a gate's failing checks are one value  *)
(* (fixation_fail_digest); one accounted cost is one token.  The critic's  *)
(* own cost, events, transitions and log lines are left out.               *)
(***************************************************************************)
EXTENDS Scheduler, FiniteSets

CONSTANTS
  NumSigs,          \* contents a work order can have; the pinned
                    \* specification's order for unit u has contents u
  Digests,          \* fingerprints of failing checks, 0 (none) excluded
  MaxIters,         \* max_iters
  ReplanRetries,    \* replan_retries
  DecompRetries,    \* decomp_retries
  RenameBound,      \* rename_block_bound
  FixationEscalate, \* fixation_escalate
  MaxTokens,        \* max_tokens (--max-tokens); spending beyond it is not
                    \* told apart
  MaxRuns,          \* bound: runs in a chain of resumptions
  MaxFaults         \* bound: failed writes and deaths of the process

Stranger == NumUnits + 1      \* a unit id the plan does not have
AnyUnit  == Units \cup {Stranger}
Sigs     == 1 .. NumSigs

ASSUME SeqLoopAssumption ==
  /\ NumSigs \in Nat /\ NumSigs >= NumUnits
  /\ Digests \subseteq Nat \ {0}
  /\ {MaxIters, ReplanRetries, DecompRetries, RenameBound} \subseteq Nat
  /\ {FixationEscalate, MaxTokens, MaxRuns, MaxFaults} \subseteq Nat

Order   == [unit : AnyUnit, sig : Sigs]
NoOrder == [unit |-> NoUnit, sig |-> 0]  \* a missing or blank next_order

OrderAction == {"next_order", "retry"}
PlainAction == {"stop", "escalate", "replan_approach", "propose_spec_change"}
Decision    == [action : OrderAction \cup PlainAction \cup {"none"},
                order : Order \cup {NoOrder}]
NoDecision  == [action |-> "none", order |-> NoOrder]

Terminal == {"done", "escalated", "stopped_budget", "stopped_stuck",
             "stopped_credit", "stopped_interrupted"}
Status   == Terminal \cup {"running"}

\* The verdicts aggregate_verdict can return; a gate never says done.
GateVerdict == {"pass", "fail_recoverable", "ambiguous"}

VARIABLES
  pc,        \* where the director thread is
  run,       \* number of the run in the chain
  plan,      \* state.plan
  status,    \* state.status
  iters,     \* loop counter
  worked,    \* worked_unit: the unit last dispatched in this run
  decision,  \* the decision under consideration, later the order being built
  parses,    \* replan attempts used for the current decision
  decomps,   \* decisions the critic rejected in this iteration
  rejected,  \* rejected_decomp_signatures: contents -> first rejected unit
  renames,   \* rename_block_count
  streak,    \* per unit: the last fail digest and how often it repeated
  spent,     \* state.budget.spent.tokens
  charges,   \* history: times this iteration's replan cost was accounted
  disk,      \* what state.yaml of the latest run in the chain holds
  faults,    \* failed writes and deaths so far
  gated,     \* history: units a gate has judged a build of, in any run
  passed     \* history: the gate of this run has passed

loopVars == <<worked, decision, parses, decomps, renames, streak>>
history  == <<gated, passed>>
vars == <<pc, run, plan, status, iters, loopVars, rejected, spent, charges,
          disk, faults, history>>

Live == {"iterate", "replan", "critic", "decided", "build", "verify", "finish"}

FreshPlan   == [u \in Units |-> "pending"]
NoStreak    == [u \in AnyUnit |-> [digest |-> 0, length |-> 0]]
NoRejection == [s \in Sigs |-> NoUnit]
NoFile      == [readable |-> FALSE, plan |-> FreshPlan]

TypeOK ==
  /\ pc \in Live \cup {"exit", "aborted", "dead"}
  /\ run \in 1 .. MaxRuns \cup {1}
  /\ plan \in Plan
  /\ status \in Status
  /\ iters \in 0 .. MaxIters
  /\ worked \in AnyUnit \cup {NoUnit}
  /\ decision \in Decision
  /\ parses \in 0 .. ReplanRetries
  /\ decomps \in 0 .. DecompRetries
  /\ rejected \in [Sigs -> AnyUnit \cup {NoUnit}]
  /\ renames \in Nat
  /\ streak \in [AnyUnit -> [digest : Digests \cup {0}, length : Nat]]
  /\ spent \in 0 .. MaxTokens + 1
  /\ charges \in Nat
  /\ disk \in [readable : BOOLEAN, plan : Plan]
  /\ faults \in 0 .. MaxFaults
  /\ gated \subseteq Units
  /\ passed \in BOOLEAN

-----------------------------------------------------------------------------
(* Helpers of the loop *)

SetPlanState(p, u, s) == [v \in Units |-> IF v = u THEN s ELSE p[v]]

\* _advance_done: accept the unit, unless it was given up.
AdvanceDone(p, u) ==
  [v \in Units |-> IF v = u /\ p[v] # "failed" THEN "done" ELSE p[v]]

\* Slip: the last statement of the loop is forgotten.
SealNothing(p) == p

\* The last statement of the loop for a done run: started means done.
SealPlan(p) ==
  [u \in Units |-> IF p[u] = "pending" THEN "pending" ELSE "done"]

\* _fallback_order: the pinned specification's own work order for a unit.
FallbackOrder(u) ==
  IF u \in Units THEN [unit |-> u, sig |-> u] ELSE NoOrder

\* _fallback_target_unit: the unit being worked on, else the first ready one.
FallbackTarget(w) ==
  IF w \in Units /\ plan[w] \in {"pending", "in_progress"}
  THEN w
  ELSE FirstReady(plan, {})

\* The order an order action leads to; NoOrder if there is nothing to build.
Resolved ==
  IF decision.order = NoOrder
  THEN FallbackOrder(FallbackTarget(worked))
  ELSE decision.order

IsUnitDone(u) == u \in Units /\ plan[u] = "done"

\* An order for a unit that is already done is moved to the first ready one.
Redirected ==
  LET other == FallbackOrder(FallbackTarget(NoUnit))
  IN  IF IsUnitDone(Resolved.unit) /\ other # NoOrder
      THEN other
      ELSE Resolved

\* The critic rejected these contents under another unit id.
RenameEvasion(o) == rejected[o.sig] \notin {NoUnit, o.unit}

\* Slip: one failure too many.
FixatedLate(s) ==
  /\ FixationEscalate >= 2
  /\ s.digest # 0
  /\ s.length > FixationEscalate

\* is_fixated over the unit's history of digests.
Fixated(s) ==
  /\ FixationEscalate >= 2
  /\ s.digest # 0
  /\ s.length >= FixationEscalate

Extend(s, d) ==
  [digest |-> d, length |-> IF d = s.digest THEN s.length + 1 ELSE 1]

(***************************************************************************)
(* try_save: write state.yaml and swallow every failure.  write_text       *)
(* truncates the file first, so a failed write may leave it unreadable.    *)
(***************************************************************************)
SaveOver(old, p) ==
  \/ /\ disk' = [readable |-> TRUE, plan |-> p]
     /\ UNCHANGED faults
  \/ /\ faults < MaxFaults
     /\ faults' = faults + 1
     /\ disk' \in {old, [old EXCEPT !.readable = FALSE]}

Save(p) == SaveOver(disk, p)

NoSave == UNCHANGED <<disk, faults>>

\* The locals of an iteration, and of the whole loop, once they are dead.
EndIteration ==
  /\ decision' = NoDecision
  /\ parses' = 0
  /\ decomps' = 0

EndLoop ==
  /\ EndIteration
  /\ iters' = 0
  /\ worked' = NoUnit
  /\ renames' = 0
  /\ streak' = NoStreak
  /\ charges' = 0

\* The run stops itself: set the terminal status and leave the loop.
StopWith(s) ==
  /\ status' = s
  /\ pc' = "finish"

\* account: n costs are added to the budget.
Account(n) == spent' = IF spent + n > MaxTokens THEN MaxTokens + 1 ELSE spent + n

\* The replan cost of this iteration is accounted n times.
ChargeReplan(n) ==
  /\ Account(n)
  /\ charges' = charges + n

Init ==
  /\ pc = "iterate"
  /\ run = 1
  /\ plan = FreshPlan
  /\ status = "running"
  /\ iters = 0
  /\ worked = NoUnit
  /\ decision = NoDecision
  /\ parses = 0
  /\ decomps = 0
  /\ rejected = NoRejection
  /\ renames = 0
  /\ streak = NoStreak
  /\ spent = 0
  /\ charges = 0
  /\ disk = NoFile
  /\ faults = 0
  /\ gated = {}
  /\ passed = FALSE

-----------------------------------------------------------------------------
(* One iteration: budget check, replan attempts, decomposition critic *)

BeginIteration ==
  /\ pc = "iterate"
  /\ iters < MaxIters
  /\ spent <= MaxTokens
  /\ iters' = iters + 1
  /\ pc' = "replan"
  /\ charges' = 0
  /\ NoSave
  /\ UNCHANGED <<run, plan, status, loopVars, rejected, spent, history>>

BudgetStop ==
  /\ pc = "iterate"
  /\ iters < MaxIters
  /\ spent > MaxTokens
  /\ iters' = iters + 1
  /\ StopWith("stopped_budget")
  /\ NoSave
  /\ UNCHANGED <<run, plan, loopVars, rejected, spent, charges, history>>

OutOfIterations ==
  /\ pc = "iterate"
  /\ iters = MaxIters
  /\ pc' = "finish"
  /\ NoSave
  /\ UNCHANGED <<run, plan, status, iters, loopVars, rejected, spent, charges,
                 history>>

\* Slip: off by one.
OneAttemptTooMany == parses <= ReplanRetries

AttemptsLeft == parses < ReplanRetries

\* One more attempt if any is left, otherwise go on with the decision so far.
RetryReplan ==
  IF AttemptsLeft
  THEN parses' = parses + 1 /\ UNCHANGED pc
  ELSE pc' = "decided" /\ UNCHANGED parses

\* The answer is empty or does not parse: an earlier decision is kept.
ReplanUnparsable ==
  /\ pc = "replan"
  /\ RetryReplan
  /\ NoSave
  /\ UNCHANGED <<run, plan, status, iters, worked, decision, decomps, rejected,
                 renames, streak, spent, charges, history>>

\* The answer wants a work order but its unit or goal is blank.
ReplanDegenerate ==
  /\ pc = "replan"
  /\ \E a \in OrderAction :
        decision' = [action |-> a, order |-> NoOrder]
  /\ RetryReplan
  /\ NoSave
  /\ UNCHANGED <<run, plan, status, iters, worked, decomps, rejected, renames,
                 streak, spent, charges, history>>

ReplanAnswer ==
  /\ pc = "replan"
  /\ \/ /\ decision' \in [action : OrderAction, order : Order]
        /\ pc' = "critic"
     \/ /\ decision' \in [action : PlainAction, order : {NoOrder}]
        /\ pc' = "decided"
  /\ NoSave
  /\ UNCHANGED <<run, plan, status, iters, worked, parses, decomps, rejected,
                 renames, streak, spent, charges, history>>

\* Progress, or the critic is off or could not answer: it never raises.
CriticAccepts ==
  /\ pc = "critic"
  /\ pc' = "decided"
  /\ NoSave
  /\ UNCHANGED <<run, plan, status, iters, loopVars, rejected, spent, charges,
                 history>>

(***************************************************************************)
(* Weak: the contents are registered under the first unit they were        *)
(* rejected for.  The brain is asked again while retries are left; after   *)
(* that the weak order goes through.                                       *)
(***************************************************************************)
\* Slip: the registry is overwritten instead of setdefault.
RegisterLatest(o) == rejected' = [rejected EXCEPT ![o.sig] = o.unit]

RegisterRejection(o) ==
  rejected' = [rejected EXCEPT ![o.sig] = IF @ = NoUnit THEN o.unit ELSE @]

CriticRejects ==
  /\ pc = "critic"
  /\ RegisterRejection(decision.order)
  /\ IF decomps < DecompRetries
     THEN /\ decomps' = decomps + 1
          /\ parses' = 0
          /\ decision' = NoDecision
          /\ pc' = "replan"
          /\ Save(plan)
     ELSE /\ pc' = "decided"
          /\ NoSave
          /\ UNCHANGED <<decomps, parses, decision>>
  /\ UNCHANGED <<run, plan, status, iters, worked, renames, streak, spent,
                 charges, history>>

-----------------------------------------------------------------------------
(* Acting on the decision *)

OrderDecided ==
  /\ pc = "decided"
  /\ decision.action \in OrderAction \cup {"none"}

\* A replan that failed altogether is accounted before its fallback.
FailedReplanCharge == IF decision.action = "none" THEN 1 ELSE 0

NothingToBuild ==
  /\ OrderDecided
  /\ Resolved = NoOrder
  /\ StopWith("escalated")
  /\ ChargeReplan(FailedReplanCharge)
  /\ NoSave
  /\ UNCHANGED <<run, plan, iters, loopVars, rejected, history>>

\* A done unit is ordered again and every unit is done.
RecogniseDone ==
  /\ OrderDecided
  /\ IsUnitDone(Resolved.unit)
  /\ AllDone(plan)
  /\ StopWith("done")
  /\ ChargeReplan(FailedReplanCharge)
  /\ NoSave
  /\ UNCHANGED <<run, plan, iters, loopVars, rejected, history>>

Orders ==
  /\ OrderDecided
  /\ Resolved # NoOrder
  /\ ~(IsUnitDone(Resolved.unit) /\ AllDone(plan))

BlockRename ==
  /\ Orders
  /\ RenameEvasion(Redirected)
  /\ renames' = renames + 1
  /\ ChargeReplan(FailedReplanCharge + 1)
  /\ IF renames' > RenameBound
     THEN /\ plan' = SetPlanState(plan, worked, "failed")
          /\ StopWith("escalated")
          /\ UNCHANGED <<decision, parses, decomps>>
     ELSE /\ pc' = "iterate"
          /\ EndIteration
          /\ UNCHANGED <<plan, status>>
  /\ Save(plan')
  /\ UNCHANGED <<run, iters, worked, streak, rejected, history>>

(***************************************************************************)
(* Moving on to another unit accepts the unit worked on so far.            *)
(***************************************************************************)
\* Slip: the unit left behind is not accepted.
AcceptNothing(o) == plan

Accepted(o) == IF worked # o.unit THEN AdvanceDone(plan, worked) ELSE plan

Dispatch ==
  /\ Orders
  /\ ~RenameEvasion(Redirected)
  /\ plan' = SetPlanState(Accepted(Redirected), Redirected.unit, "in_progress")
  /\ worked' = Redirected.unit
  /\ decision' = [action |-> "next_order", order |-> Redirected]
  /\ pc' = "build"
  /\ ChargeReplan(FailedReplanCharge)
  /\ Save(plan')
  /\ UNCHANGED <<run, status, iters, parses, decomps, renames, streak, rejected,
                 history>>

Build ==
  /\ pc = "build"
  /\ pc' = "verify"
  /\ NoSave
  /\ UNCHANGED <<run, plan, status, iters, loopVars, rejected, spent, charges,
                 history>>

(***************************************************************************)
(* gate.judge over the whole specification, the audit event (saved before  *)
(* the plan is updated), completion, and the fixation guard.               *)
(***************************************************************************)
AfterVerdict(v, u) == IF v = "pass" THEN AdvanceDone(plan, u) ELSE plan

\* Slip: one passing gate is taken for completion.
CompletesOnPass(v, p) == v = "pass"

Completes(v, p) == v = "pass" /\ AllDone(p)

Verify(v, d) ==
  LET u     == decision.order.unit
      judged == AfterVerdict(v, u)
      ended  == Completes(v, judged)
      grown  == Extend(streak[u], d)
      stuck  == ~ended /\ Fixated(grown)
  IN
  /\ pc = "verify"
  /\ gated' = gated \cup ({u} \cap Units)
  /\ passed' = (passed \/ v = "pass")
  /\ streak' = IF ended \/ FixationEscalate < 2 THEN streak
               ELSE [streak EXCEPT ![u] = grown]
  /\ plan' = IF stuck THEN SetPlanState(judged, u, "failed") ELSE judged
  /\ status' = IF ended THEN "done" ELSE IF stuck THEN "escalated" ELSE status
  /\ pc' = IF ended \/ stuck THEN "finish" ELSE "iterate"
  /\ EndIteration
  /\ Account(2)
  /\ charges' = charges + 1
  /\ Save(plan)
  /\ UNCHANGED <<run, iters, worked, renames, rejected>>

\* Only failing checks give a fingerprint.
VerifyAny ==
  \/ \E d \in Digests : Verify("fail_recoverable", d)
  \/ \E v \in GateVerdict \ {"fail_recoverable"} : Verify(v, 0)

BrainStops ==
  /\ pc = "decided"
  /\ decision.action = "stop"
  /\ StopWith("done")
  /\ ChargeReplan(1)
  /\ NoSave
  /\ UNCHANGED <<run, plan, iters, loopVars, rejected, history>>

BrainEscalates ==
  /\ pc = "decided"
  /\ decision.action = "escalate"
  /\ StopWith("escalated")
  /\ plan' = SetPlanState(plan, worked, "failed")
  /\ ChargeReplan(1)
  /\ NoSave
  /\ UNCHANGED <<run, iters, loopVars, rejected, history>>

BrainResets ==
  /\ pc = "decided"
  /\ decision.action = "replan_approach"
  /\ pc' = "iterate"
  /\ EndIteration
  /\ ChargeReplan(1)
  /\ NoSave
  /\ UNCHANGED <<run, plan, status, iters, worked, renames, streak, rejected,
                 history>>

\* apply_spec_change: an evidenced assumption is applied and the loop goes on.
SpecChangeApplied ==
  /\ pc = "decided"
  /\ decision.action = "propose_spec_change"
  /\ pc' = "iterate"
  /\ EndIteration
  /\ ChargeReplan(1)
  /\ Save(plan)
  /\ UNCHANGED <<run, plan, status, iters, worked, renames, streak, rejected,
                 history>>

\* Anything else, or a proposal without a body, goes to the human.
SpecChangeRefused ==
  /\ pc = "decided"
  /\ decision.action = "propose_spec_change"
  /\ StopWith("escalated")
  /\ \/ ChargeReplan(1)
     \/ UNCHANGED <<spent, charges>>
  /\ NoSave
  /\ UNCHANGED <<run, plan, iters, loopVars, rejected, history>>

Finish ==
  /\ pc = "finish"
  /\ plan' = IF status = "done" THEN SealPlan(plan) ELSE plan
  /\ status' = IF status = "running" THEN "stopped_stuck" ELSE status
  /\ pc' = "exit"
  /\ EndLoop
  /\ Save(plan')
  /\ UNCHANGED <<run, rejected, spent, history>>

-----------------------------------------------------------------------------
(* What can cut a run short, and how it is taken up again *)

AbortWith(s) ==
  /\ status' = IF status = "running" THEN s ELSE status
  /\ pc' = "aborted"
  /\ EndLoop
  /\ Save(plan)
  /\ UNCHANGED <<run, plan, rejected, spent, history>>

\* CodexUsageLimitError: the critic swallows it, every other call raises it.
CreditExhausted == pc \in {"replan", "build", "verify"} /\ AbortWith("stopped_credit")

\* CodexStalled: the judge degrades to ambiguous, the critic swallows it.
Stalled == pc \in {"replan", "build"} /\ AbortWith("escalated")

\* KeyboardInterrupt, at any point.
Interrupted == pc \in Live /\ AbortWith("stopped_interrupted")

\* SIGKILL, or an exception run_loop does not catch: nothing is saved.
Die ==
  /\ pc \in Live
  /\ faults < MaxFaults
  /\ faults' = faults + 1
  /\ disk' \in {disk, [disk EXCEPT !.readable = FALSE]}
  /\ pc' = "dead"
  /\ EndLoop
  /\ UNCHANGED <<run, plan, status, rejected, spent, history>>

(***************************************************************************)
(* --continue-from with the same order (load_resume, _init_resume_state):  *)
(* a unit the parent's state.yaml has as done stays done, everything else  *)
(* is to be built; an unreadable file means everything is.  The new run    *)
(* has a state.yaml of its own, and nothing else of the parent.            *)
(***************************************************************************)
\* Slip: a unit that was being built is taken over as done.
InheritedWithStarted ==
  [u \in Units |->
     IF disk.readable /\ disk.plan[u] \in {"done", "in_progress"}
     THEN "done" ELSE "pending"]

Inherited ==
  [u \in Units |->
     IF disk.readable /\ disk.plan[u] = "done" THEN "done" ELSE "pending"]

Resume ==
  /\ pc \in {"exit", "aborted", "dead"}
  /\ run < MaxRuns
  /\ run' = run + 1
  /\ pc' = "iterate"
  /\ plan' = Inherited
  /\ status' = "running"
  /\ rejected' = NoRejection
  /\ spent' = 0
  /\ IF DoneUnits(plan') # {}
     THEN SaveOver(NoFile, plan')
     ELSE disk' = NoFile /\ UNCHANGED faults
  /\ passed' = FALSE
  /\ UNCHANGED <<iters, loopVars, charges, gated>>

-----------------------------------------------------------------------------
Loop ==
  \/ BeginIteration \/ BudgetStop \/ OutOfIterations
  \/ ReplanUnparsable \/ ReplanDegenerate \/ ReplanAnswer
  \/ CriticAccepts \/ CriticRejects
  \/ NothingToBuild \/ RecogniseDone \/ BlockRename \/ Dispatch
  \/ Build \/ VerifyAny
  \/ BrainStops \/ BrainEscalates \/ BrainResets
  \/ SpecChangeApplied \/ SpecChangeRefused
  \/ Finish

Disturbance == CreditExhausted \/ Stalled \/ Interrupted \/ Die

Next == Loop \/ Disturbance \/ Resume

(***************************************************************************)
(* Every call of the loop returns or raises (the executor, the judge and   *)
(* the codex client are bounded by timeouts), so the loop keeps stepping.  *)
(* Nothing obliges a disturbance or a resumption to happen.                *)
(***************************************************************************)
Spec == Init /\ [][Next]_vars /\ WF_vars(Loop)

-----------------------------------------------------------------------------
(* Properties *)

(***************************************************************************)
(* A unit counts as done, in memory or in state.yaml, only if some run of  *)
(* the chain had a gate judge a build of it: neither a crash, a torn or    *)
(* failed write, a resumption nor the sealing of a done run turns a unit   *)
(* nobody built into a finished one (_init_resume_state, _advance_done).   *)
(***************************************************************************)
DoneWasGated ==
  /\ DoneUnits(plan) \subseteq gated
  /\ disk.readable => DoneUnits(disk.plan) \subseteq gated

(***************************************************************************)
(* At most one unit is under work, the one the loop dispatched last: the   *)
(* brain moving on never strands a unit in_progress, whatever it orders    *)
(* (a done unit, an unknown unit, the same unit again), loop.py:1421-1426. *)
(***************************************************************************)
OneUnitUnderWork ==
  pc \in Live => \A u \in Units : plan[u] = "in_progress" => u = worked

(***************************************************************************)
(* The critic's rejection cannot be escaped by renaming: within a run,     *)
(* rejected contents stay registered for the first unit they were rejected *)
(* for, and are never dispatched for another one (loop.py:1300, 1385).     *)
(***************************************************************************)
RejectionHolds ==
  [][run' = run =>
       \A s \in Sigs : rejected[s] # NoUnit =>
         /\ rejected'[s] = rejected[s]
         /\ pc # "build" /\ pc' = "build" /\ decision'.order.sig = s
              => decision'.order.unit = rejected[s]]_vars

(***************************************************************************)
(* A run that reports done was stopped by the brain, or has every unit     *)
(* done; and every unit is done only once a gate of this run has passed,   *)
(* unless the run inherited them as done or the brain moved on from the    *)
(* last one to a unit the plan does not have, which the loop takes for     *)
(* acceptance and never asks back (loop.py:1372-1380, 1421-1426,           *)
(* 1473-1483).                                                             *)
(***************************************************************************)
DoneIsEarned ==
  /\ pc = "finish" /\ status = "done" =>
       decision.action = "stop" \/ AllDone(plan)
  /\ pc \in Live /\ AllDone(plan) =>
       passed \/ run > 1 \/ worked = Stranger

(***************************************************************************)
(* No silent churn: as soon as a unit has failed FixationEscalate times in *)
(* a row in the same way, even with other units built in between, the run  *)
(* has given the unit up and gone to the human (loop.py:1484-1506).        *)
(***************************************************************************)
NoSilentChurn ==
  FixationEscalate >= 2 =>
    \A u \in Units :
      streak[u].digest # 0 /\ streak[u].length >= FixationEscalate
        => status = "escalated" /\ plan[u] = "failed"

(***************************************************************************)
(* A run keeps the promise of RunLifecycle: a terminal status it has set   *)
(* is the one it ends with, though SIGINT, a stall or exhausted credit may *)
(* come between the two (_finalize_interrupt); a run that ends by itself   *)
(* as done leaves no unit half way; and every run ends.                    *)
(***************************************************************************)
LifecycleStatus ==
  IF pc \in Live THEN "running" ELSE IF pc = "dead" THEN "dead" ELSE status

Lifecycle == INSTANCE RunLifecycle WITH
  status  <- LifecycleStatus,
  verdict <- IF status = "running" THEN "none" ELSE status,
  cut     <- pc = "aborted"

ImplementsLifecycle == Lifecycle!Spec

(***************************************************************************)
(* What the code's comments say of the loop, and the loop does not do.     *)
(***************************************************************************)

\* loop.py:1372: dispatching a unit that is already done is blocked.
DoneIsNotRebuilt ==
  [][pc = "decided" /\ pc' = "build" => ~IsUnitDone(decision'.order.unit)]_vars

\* loop.py:1331: a failed replan is honestly accounted, so once.
ReplanAccountedOnce == charges <= 1

\* loop.py:1373: completion recognised without the brain's stop is a fact of
\* the gate, so in a run that inherits nothing its gate has passed.
RecognitionIsGateFact ==
  pc = "finish" /\ status = "done" /\ decision.action # "stop" /\ run = 1
    => passed
==============================================================================
