------------------------------- MODULE ParLoop -------------------------------
(***************************************************************************)
(* The parallel director loop: _parallel_loop of src/src/haetae/loop.py,   *)
(* with the git side of src/src/haetae/worktree.py.                        *)
(*                                                                         *)
(* The main thread dispatches ready units one by one (the brain writes     *)
(* each work order, the unit gets a worktree branched from main), waits    *)
(* for workers, and handles what finished: merge, retry, another approach, *)
(* or escalation.  A worker builds and gates its unit in its own thread    *)
(* and finishes at any time.  When every unit is merged the integration    *)
(* gate judges main.                                                       *)
(*                                                                         *)
(* Abstractions: main is the set of builds its history contains; a build   *)
(* is a unit and the number of its worktree.  Feedback texts, tiers, costs *)
(* and events are left out, and so is state.yaml, which SeqLoop models.    *)
(***************************************************************************)
EXTENDS Scheduler, FiniteSets, Sequences

CONSTANTS
  Scope,           \* Scope[u]: the files unit u declares it touches
  MaxParallel,     \* max_parallel
  Burst,           \* max_parallel_burst
  MaxIters,        \* max_iters: outcomes handled in a run
  UnitRetries,     \* unit_retries
  OrAlternatives,  \* or_alternatives
  AttemptBudget,   \* unit_attempt_budget; large means off
  TokenBudget,     \* unit_token_budget is set
  MaxRefFaults     \* bound: times git cannot tell the HEAD of main

EffBurst == IF Burst > MaxParallel THEN Burst ELSE MaxParallel

ASSUME ParLoopAssumption ==
  /\ {MaxParallel, Burst, MaxIters, UnitRetries} \subseteq Nat
  /\ {OrAlternatives, AttemptBudget, MaxRefFaults} \subseteq Nat
  /\ TokenBudget \in BOOLEAN
  /\ EffBurst > 1            \* otherwise run_loop takes the sequential path
  /\ \A u \in Units : IsFiniteSet(Scope[u])

Build == Units \X Nat        \* number 0: seeded from the parent run
NoRef == {<<NoUnit, 0>>}     \* None where a commit is expected

Terminal == {"none", "done", "escalated", "stuck", "budget"}

VARIABLES
  pc,        \* where the main thread is
  terminal,  \* terminal
  status,    \* state.status
  plan,      \* state.plan
  todo,      \* what is left of the list dispatch_ready walks
  work,      \* per unit: its worker, idle, running or with a result
  batch,     \* results of the last wait still to be handled
  total,     \* total_attempts
  attempts,  \* attempts_of
  alts,      \* alt_count
  climbs,    \* escalation_of
  overspent, \* units whose unit_tokens_of has reached unit_token_budget
  built,     \* worktrees created for the unit
  base,      \* per unit: main when its worktree was branched
  main,      \* builds in the history of main
  mergeSeq,  \* merge_seq
  ckpt,      \* pre_merge_ckpt
  resetDone, \* semantic_reset_done
  integAlt,  \* integration_alt
  clean,     \* checkpoint_C
  refFaults, \* git failures so far
  dropped    \* history: builds a reset of main has discarded

counters == <<total, attempts, alts, climbs, overspent>>
git      == <<main, mergeSeq, ckpt, resetDone, clean, refFaults, dropped>>
trees    == <<built, base>>
vars == <<pc, terminal, status, plan, todo, work, batch, counters, trees, git,
          integAlt>>

Live == {"ready", "dispatch", "wait", "handle", "over", "gate"}

InFlight == {u \in Units : work[u] # "idle"}
Finished == {u \in Units : work[u] \notin {"idle", "running"}}

First(S) == CHOOSE u \in S : \A v \in S : u <= v

TypeOK ==
  /\ pc \in Live \cup {"exit", "aborted", "dead"}
  /\ terminal \in Terminal
  /\ status \in {"running", "done", "escalated", "stopped_stuck",
                 "stopped_budget", "stopped_credit", "stopped_interrupted"}
  /\ plan \in Plan
  /\ todo \subseteq Units
  /\ work \in [Units -> {"idle", "running", "pass", "fail", "credit"}]
  /\ batch \subseteq Finished
  /\ total \in Nat
  /\ attempts \in [Units -> 0 .. UnitRetries]
  /\ alts \in [Units -> 0 .. OrAlternatives]
  /\ climbs \in [Units -> Nat]
  /\ overspent \subseteq Units
  /\ built \in [Units -> Nat]
  /\ base \in [Units -> SUBSET Build]
  /\ main \subseteq Build
  /\ mergeSeq \in Seq(Units)
  /\ ckpt \in [Units -> (SUBSET Build) \cup {NoRef}]
  /\ resetDone \subseteq Units
  /\ integAlt \in 0 .. OrAlternatives
  /\ clean \in (SUBSET Build) \cup {NoRef}
  /\ refFaults \in 0 .. MaxRefFaults
  /\ dropped \subseteq Build

(***************************************************************************)
(* A run starts with nothing, or with the units a parent run left done,    *)
(* whose code was copied and committed to main before anything branches.   *)
(***************************************************************************)
Init ==
  /\ pc = "ready"
  /\ terminal = "none"
  /\ status = "running"
  /\ plan \in [Units -> {"pending", "done"}]
  /\ todo = {}
  /\ work = [u \in Units |-> "idle"]
  /\ batch = {}
  /\ total = 0
  /\ attempts = [u \in Units |-> 0]
  /\ alts = [u \in Units |-> 0]
  /\ climbs = [u \in Units |-> 0]
  /\ overspent = {}
  /\ built = [u \in Units |-> 0]
  /\ base = [u \in Units |-> {}]
  /\ main = {<<u, 0>> : u \in DoneUnits(plan)}
  /\ mergeSeq = <<>>
  /\ ckpt = [u \in Units |-> NoRef]
  /\ resetDone = {}
  /\ integAlt = 0
  /\ clean = NoRef
  /\ refFaults = 0
  /\ dropped = {}

-----------------------------------------------------------------------------
(* dispatch_ready *)

\* The token budget is exhausted: it never recovers, nothing more starts.
OverBudget ==
  /\ pc = "ready"
  /\ terminal' = "budget"
  /\ pc' = "wait"
  /\ UNCHANGED <<status, plan, todo, work, batch, counters, trees, git, integAlt>>

BeginDispatch ==
  /\ pc = "ready"
  /\ todo' = ReadyUnits(plan, InFlight)
  /\ pc' = "dispatch"
  /\ UNCHANGED <<terminal, status, plan, work, batch, counters, trees, git,
                 integAlt>>

\* Slip: a burst slot goes to any ready unit.
AnyMayBurst(u) == TRUE

MayBurst(u) == IsDisjointFrom(u, InFlight, Scope)

\* A slot is free for u: beyond the base cap only if it conflicts with nobody.
Slot(u) ==
  /\ Cardinality(InFlight) < EffBurst
  /\ Cardinality(InFlight) >= MaxParallel => MayBurst(u)

EndDispatch ==
  /\ pc = "dispatch"
  /\ todo = {} \/ Cardinality(InFlight) >= EffBurst
  /\ todo' = {}
  /\ pc' = "wait"
  /\ UNCHANGED <<terminal, status, plan, work, batch, counters, trees, git,
                 integAlt>>

\* u is put off until the next call.
PutOff ==
  /\ pc = "dispatch"
  /\ todo # {}
  /\ Cardinality(InFlight) < EffBurst
  /\ ~Slot(First(todo))
  /\ todo' = todo \ {First(todo)}
  /\ UNCHANGED <<pc, terminal, status, plan, work, batch, counters, trees, git,
                 integAlt>>

\* gen_order gives a work order and the worktree is branched from main.
Dispatch ==
  /\ pc = "dispatch"
  /\ todo # {}
  /\ LET u == First(todo) IN
     /\ Slot(u)
     /\ todo' = todo \ {u}
     /\ built' = [built EXCEPT ![u] = @ + 1]
     /\ base' = [base EXCEPT ![u] = main]
     /\ plan' = [plan EXCEPT ![u] = "in_progress"]
     /\ work' = [work EXCEPT ![u] = "running"]
  /\ UNCHANGED <<pc, terminal, status, batch, counters, git, integAlt>>

\* gen_order gives no order: the brain stops, or escalates, or wants what the
\* parallel loop does not do.
NoOrder ==
  /\ pc = "dispatch"
  /\ todo # {}
  /\ Slot(First(todo))
  /\ terminal' \in {"done", "escalated"}
  /\ todo' = {}
  /\ pc' = "wait"
  /\ UNCHANGED <<status, plan, work, batch, counters, trees, git, integAlt>>

-----------------------------------------------------------------------------
(* Workers, and the main thread waiting for them *)

(***************************************************************************)
(* _exec_and_gate: a stall or any other exception than exhausted credit    *)
(* counts as a failed build.                                               *)
(***************************************************************************)
WorkerEnds(u) ==
  /\ work[u] = "running"
  /\ \E r \in {"pass", "fail", "credit"} : work' = [work EXCEPT ![u] = r]
  /\ UNCHANGED <<pc, terminal, status, plan, todo, batch, counters, trees, git,
                 integAlt>>

\* wait(FIRST_COMPLETED) returns every worker that has finished by then.
Collect ==
  /\ pc = "wait"
  /\ terminal = "none"
  /\ Finished # {}
  /\ batch' = Finished
  /\ pc' = "handle"
  /\ UNCHANGED <<terminal, status, plan, todo, work, counters, trees, git,
                 integAlt>>

(***************************************************************************)
(* The round is over: nothing in flight, or a terminal.  Leaving the pool  *)
(* waits for the workers still running; their results are not looked at.   *)
(***************************************************************************)
RoundEnds ==
  /\ pc = "wait"
  /\ terminal # "none" \/ InFlight = {}
  /\ InFlight = Finished
  /\ work' = [u \in Units |-> "idle"]
  /\ batch' = {}
  /\ pc' = "over"
  /\ UNCHANGED <<terminal, status, plan, todo, counters, trees, git, integAlt>>

-----------------------------------------------------------------------------
(* handle_outcome, for the results of one wait in the order of unit ids *)

\* u's result is dealt with: t is the terminal it decides, "none" if none.
\* The rest of the batch is handled even then.
Handled(u, t) ==
  /\ work' = [work EXCEPT ![u] = "idle"]
  /\ batch' = batch \ {u}
  /\ total' = total + 1
  /\ terminal' = IF t # "none" THEN t
                 ELSE IF terminal = "none" /\ total + 1 >= MaxIters THEN "stuck"
                 ELSE terminal
  /\ pc' = IF batch' # {} THEN "handle"
           ELSE IF terminal' = "none" THEN "ready" ELSE "wait"
  /\ UNCHANGED <<status, todo, trees, integAlt>>

Result(u, r) == pc = "handle" /\ u = First(batch) /\ work[u] = r

\* add_unit_tokens: the tokens of this outcome may be those that reach the
\* budget of the unit.
Spends(u) ==
  \/ UNCHANGED overspent
  \/ TokenBudget /\ overspent' = overspent \cup {u}

\* Slip: only the retries of the current approach count.
CeilingOfApproach(u) == attempts[u] >= AttemptBudget \/ u \in overspent'

\* unit_ceiling_hit, asked after the tokens of the outcome were added.
Ceiling(u) == climbs[u] >= AttemptBudget \/ u \in overspent'

\* rev-parse or reset fails: every caller goes on without it.
GitFails == refFaults < MaxRefFaults /\ refFaults' = refFaults + 1

\* The HEAD of main as _record_head reports it.
HeadIs(ref) == \/ ref = main /\ UNCHANGED refFaults
               \/ ref = NoRef /\ GitFails

GiveUp(u) ==
  /\ plan' = [plan EXCEPT ![u] = "failed"]
  /\ UNCHANGED <<attempts, alts, climbs, git>>
  /\ Handled(u, "escalated")

\* Slip: the unit is not put back.
StillInProgress(u) == plan

BackToPending(u) == [plan EXCEPT ![u] = "pending"]

\* Slip: one retry more than allowed.
OneRetryTooMany(u) == attempts[u] <= UnitRetries

RetryLeft(u) == attempts[u] < UnitRetries

Retry(u) ==
  /\ RetryLeft(u)
  /\ plan' = BackToPending(u)
  /\ attempts' = [attempts EXCEPT ![u] = @ + 1]
  /\ climbs' = [climbs EXCEPT ![u] = @ + 1]
  /\ UNCHANGED <<alts, git>>
  /\ Handled(u, "none")

Exhausted(u) == ~Ceiling(u) /\ ~RetryLeft(u)

GateFailRetries(u) == Result(u, "fail") /\ ~Ceiling(u) /\ Retry(u)

AlternativeLeft(u) == alts[u] < OrAlternatives

\* Another approach to the unit: its retries start again.
GateFailAlternative(u) ==
  /\ Result(u, "fail")
  /\ Exhausted(u)
  /\ AlternativeLeft(u)
  /\ plan' = BackToPending(u)
  /\ alts' = [alts EXCEPT ![u] = @ + 1]
  /\ attempts' = [attempts EXCEPT ![u] = 0]
  /\ climbs' = [climbs EXCEPT ![u] = @ + 1]
  /\ UNCHANGED git
  /\ Handled(u, "none")

GateFailGivesUp(u) ==
  /\ Result(u, "fail")
  /\ Ceiling(u) \/ (Exhausted(u) /\ ~AlternativeLeft(u))
  /\ GiveUp(u)

(***************************************************************************)
(* The branch of u goes into main with everything it was branched from.    *)
(* The HEAD before the merge is kept only if git could tell it.            *)
(***************************************************************************)
Merge(u) ==
  /\ Result(u, "pass")
  /\ plan' = [plan EXCEPT ![u] = "done"]
  /\ main' = main \cup base[u] \cup {<<u, built[u]>>}
  /\ \E ref \in {main, NoRef} :
       /\ HeadIs(ref)
       /\ ckpt' = IF ref = NoRef THEN ckpt ELSE [ckpt EXCEPT ![u] = ref]
       /\ mergeSeq' = IF ref = NoRef THEN mergeSeq ELSE Append(mergeSeq, u)
  /\ UNCHANGED <<attempts, alts, climbs, resetDone, clean, dropped>>
  /\ Handled(u, "none")

Merged == {mergeSeq[i] : i \in DOMAIN mergeSeq}

LastMerge(s) == CHOOSE i \in DOMAIN mergeSeq :
                  /\ mergeSeq[i] = s
                  /\ \A j \in DOMAIN mergeSeq : mergeSeq[j] = s => j <= i

\* contract_consuming_siblings: merged siblings that share a file or a
\* declared dependency with u.
Consumers(u) ==
  {s \in DoneUnits(plan) \ {u} : \/ Scope[u] \cap Scope[s] # {}
                                 \/ u \in Deps[s]
                                 \/ s \in Deps[u]}

Anchors(u) == {LastMerge(s) : s \in {c \in Consumers(u) \cap Merged :
                                       ckpt[c] # NoRef}}

MayResetConsumers(u) == u \notin resetDone /\ Anchors(u) # {}

\* Slip: only the unit in conflict is built again.
UnmergedAlone(u, cut) == {u}

\* The units to build again: what was merged from position cut on, and u.
Unmerged(u, cut) == {mergeSeq[i] : i \in cut .. Len(mergeSeq)} \cup {u}

(***************************************************************************)
(* _semantic_consumer_reset: a conflict in no file. Main goes back to      *)
(* before the earliest merged consumer of u's contract.                    *)
(***************************************************************************)
SemanticReset(u) ==
  /\ Result(u, "pass")
  /\ ~Ceiling(u)
  /\ MayResetConsumers(u)
  /\ LET cut   == First(Anchors(u))
         ref   == ckpt[mergeSeq[cut]]
         reset == Unmerged(u, cut)
     IN  /\ main' = ref
         /\ dropped' = dropped \cup (main \ ref)
         /\ mergeSeq' = SubSeq(mergeSeq, 1, cut - 1)
         /\ ckpt' = [v \in Units |-> IF v \in reset THEN NoRef ELSE ckpt[v]]
         /\ plan' = [v \in Units |-> IF v \in reset THEN "pending" ELSE plan[v]]
         /\ attempts' = [v \in Units |-> IF v \in reset THEN 0 ELSE attempts[v]]
  /\ resetDone' = resetDone \cup {u}
  /\ climbs' = [climbs EXCEPT ![u] = @ + 1]
  /\ UNCHANGED <<alts, clean, refFaults>>
  /\ Handled(u, "none")

\* A conflict in files, or in none when the consumers cannot be reset: the
\* unit is built again on the main of then.
ConflictRetries(u) == Result(u, "pass") /\ ~Ceiling(u) /\ Retry(u)

ConflictGivesUp(u) ==
  /\ Result(u, "pass")
  /\ Ceiling(u) \/ Exhausted(u)
  /\ GiveUp(u)

HandleOutcome(u) ==
  /\ Spends(u)
  /\ \/ GateFailRetries(u)
     \/ GateFailAlternative(u)
     \/ GateFailGivesUp(u)
     \/ Merge(u)
     \/ SemanticReset(u)
     \/ ConflictRetries(u)
     \/ ConflictGivesUp(u)

-----------------------------------------------------------------------------
(* Between rounds: the integration gate, its alternatives, and the end *)

\* Slip: an exhausted budget is not mapped to a status.
StatusForgetsBudget(t) ==
  CASE t = "done" -> "done" [] t = "escalated" -> "escalated"
    [] t = "stuck" -> "stopped_stuck" [] OTHER -> "running"

StatusOf(t) ==
  CASE t = "done" -> "done" [] t = "escalated" -> "escalated"
    [] t = "stuck" -> "stopped_stuck" [] t = "budget" -> "stopped_budget"

Exit(s) ==
  /\ pc' = "exit"
  /\ status' = s
  /\ UNCHANGED <<terminal, todo, work, batch, counters, trees>>

ExitOnTerminal ==
  /\ pc = "over"
  /\ terminal # "none"
  /\ Exit(StatusOf(terminal))
  /\ UNCHANGED <<plan, git, integAlt>>

\* The round went through and left something undone: nothing can be ready.
ExitStuck ==
  /\ pc = "over"
  /\ terminal = "none"
  /\ ~AllDone(plan)
  /\ Exit("stopped_stuck")
  /\ UNCHANGED <<plan, git, integAlt>>

ToIntegration ==
  /\ pc = "over"
  /\ terminal = "none"
  /\ AllDone(plan)
  /\ pc' = "gate"
  /\ UNCHANGED <<terminal, status, plan, todo, work, batch, counters, trees,
                 git, integAlt>>

IntegrationPasses ==
  /\ pc = "gate"
  /\ Exit("done")
  /\ UNCHANGED <<plan, git, integAlt>>

\* Units that depend on one of owners, directly or through others.
Dependents(owners) ==
  {u \in Units : \A S \in SUBSET Units :
     (owners \subseteq S /\ \A v \in Units : Deps[v] \cap S # {} => v \in S)
       => u \in S}

\* reset_main_to(checkpoint_C), which may be unknown or fail.
BackToClean ==
  \/ /\ clean # NoRef
     /\ main' = clean
     /\ dropped' = dropped \cup (main \ clean)
     /\ UNCHANGED refFaults
  \/ /\ clean = NoRef \/ GitFails
     /\ clean = NoRef => UNCHANGED refFaults
     /\ UNCHANGED <<main, dropped>>

(***************************************************************************)
(* The first alternative notes main as the clean checkpoint, a later one   *)
(* starts by going back to it. The implicated units (those that own a      *)
(* failed criterion and what depends on them, or all) are built again.     *)
(***************************************************************************)
IntegrationAlternative ==
  /\ pc = "gate"
  /\ integAlt < OrAlternatives
  /\ integAlt' = integAlt + 1
  /\ IF integAlt = 0
     THEN \E ref \in {main, NoRef} :
            HeadIs(ref) /\ clean' = ref /\ UNCHANGED <<main, dropped>>
     ELSE BackToClean /\ UNCHANGED clean
  /\ \E owners \in (SUBSET Units) \ {{}} :
       LET reset == owners \cup Dependents(owners) IN
       /\ plan' = [u \in Units |-> IF u \in reset THEN "pending" ELSE plan[u]]
       /\ attempts' = [u \in Units |-> IF u \in reset THEN 0 ELSE attempts[u]]
  /\ pc' = "ready"
  /\ UNCHANGED <<terminal, status, todo, work, batch, total, alts, climbs,
                 overspent, trees, mergeSeq, ckpt, resetDone>>

IntegrationGivesUp ==
  /\ pc = "gate"
  /\ integAlt = OrAlternatives
  /\ BackToClean
  /\ Exit("escalated")
  /\ UNCHANGED <<plan, mergeSeq, ckpt, resetDone, clean, integAlt>>

-----------------------------------------------------------------------------
(* Exceptions: leaving the pool waits for the workers, then run_loop or    *)
(* _parallel_loop seals the status, and every worktree is removed.         *)

AbortWith(s) ==
  /\ pc' = "aborted"
  /\ status' = s
  /\ work' = [u \in Units |-> "idle"]
  /\ batch' = {}
  /\ UNCHANGED <<terminal, plan, todo, counters, trees, git, integAlt>>

\* The brain is asked for a work order.
AsksBrain == pc = "dispatch" /\ todo # {} /\ Slot(First(todo))

\* Credit runs out in a worker, in gen_order or in the integration gate.
CreditExhausted ==
  /\ \/ AsksBrain \/ pc = "gate"
     \/ pc = "handle" /\ work[First(batch)] = "credit"
  /\ AbortWith("stopped_credit")

\* The brain stalls: the gate's judge absorbs a stall, gen_order does not.
BrainStalls == AsksBrain /\ AbortWith("escalated")

\* Ctrl-C or the dashboard's stop.
Interrupted == pc \in Live /\ AbortWith("stopped_interrupted")

(***************************************************************************)
(* No handler takes an error of git in wm.create, nor another error of the *)
(* provider: the process dies and the saved status stays "running".        *)
(***************************************************************************)
Dies ==
  /\ AsksBrain \/ pc = "gate"
  /\ pc' = "dead"
  /\ UNCHANGED <<terminal, status, plan, todo, work, batch, counters, trees,
                 git, integAlt>>

Main ==
  \/ OverBudget \/ BeginDispatch \/ PutOff \/ Dispatch \/ NoOrder \/ EndDispatch
  \/ Collect \/ RoundEnds
  \/ \E u \in Units : HandleOutcome(u)
  \/ ExitOnTerminal \/ ExitStuck \/ ToIntegration
  \/ IntegrationPasses \/ IntegrationAlternative \/ IntegrationGivesUp
  \/ CreditExhausted \/ BrainStalls \/ Dies

Next ==
  \/ Main
  \/ \E u \in Units : WorkerEnds(u)
  \/ Interrupted

(***************************************************************************)
(* The main thread goes on, and a worker ends: the idle and absolute       *)
(* timeouts of the provider bound each call.                               *)
(***************************************************************************)
Spec == /\ Init /\ [][Next]_vars
        /\ WF_vars(Main)
        /\ \A u \in Units : WF_vars(WorkerEnds(u))

-----------------------------------------------------------------------------
(* Properties *)

\* Of any more than max_parallel units at work at once, one shares no file
\* with the others: the burst never adds a merge conflict (dispatch_ready).
BurstIsDisjoint ==
  \A S \in SUBSET InFlight : Cardinality(S) > MaxParallel =>
    \E u \in S : IsDisjointFrom(u, S \ {u}, Scope)

\* While the loop goes on, a unit marked in_progress has a worker or a result
\* to come: no path of handle_outcome leaves one behind, never to be built.
InProgressIsInFlight ==
  pc \in {"ready", "dispatch", "wait", "handle", "gate"} =>
    \A u \in Units : plan[u] = "in_progress" => work[u] # "idle"

\* The history ref holds a build of u.
Within(u, ref) == \E b \in ref : b[1] = u

\* The unit was not on main when main was noted as the clean checkpoint.
MissedByClean(u) == clean # NoRef /\ ~Within(u, clean)

\* A unit merged while git could not tell the HEAD: _semantic_consumer_reset
\* does not know it, and once it has taken it off main, so does checkpoint_C.
Unanchored(u) == refFaults > 0 /\ (ckpt[u] = NoRef \/ MissedByClean(u))

\* A unit recorded done has a build on main, whatever was merged, un-merged
\* and reset before.
DoneIsOnMain ==
  \A u \in DoneUnits(plan) : Unanchored(u) \/ Within(u, main)

\* A unit is built on a main that holds what it depends on, whatever resets
\* main and the plan went through in between.
DependenciesInBase ==
  \A u \in InFlight : \A d \in Deps[u] \cap Units :
    refFaults > 0 \/ Within(d, base[u])

(***************************************************************************)
(* Each dispatch of a unit after its first has one cause, and each cause    *)
(* sends it out at most once: a failure or a conflict of its own, which    *)
(* unit_attempt_budget limits, an integration alternative, or the one      *)
(* semantic reset another unit may cause.  No interleaving of them builds  *)
(* a unit more often than these limits add up to.                          *)
(***************************************************************************)
DispatchesAreBounded ==
  \A u \in Units :
    /\ climbs[u] <= AttemptBudget
    /\ built[u] <= 1 + climbs[u] + integAlt + Cardinality(resetDone \ {u})

\* unit_attempt_budget is a ceiling on what retries, other approaches and
\* integration alternatives of a unit add up to (loop.py:2132): no unit is
\* dispatched again more often than it says.
CeilingHolds == \A u \in Units : built[u] <= 1 + AttemptBudget

\* Every run ends, and unless the process died its status says how.
Ends == <>(pc = "dead" \/ (pc \in {"exit", "aborted"} /\ status # "running"))

\* What _semantic_consumer_reset took off main is rebuilt, not merged again.
UnmergedStaysOut == main \cap dropped = {}

\* Un-merging only takes builds off main: the checkpoint it goes back to is
\* part of main's history, so nothing an abandoned integration alternative
\* left comes back with it (_semantic_consumer_reset, reset_main_to).
UnmergeGoesBack ==
  [][resetDone' # resetDone => main' \subseteq main]_vars
==============================================================================
