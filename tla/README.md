# A TLA+ development for haetae

haetae is an autonomous director: it takes one order, pins a specification (units
of work, their dependencies, acceptance criteria), and then loops. An LLM (the
*brain*) proposes the next decision, an independent *critic* judges a work order,
an *executor* (codex or a local model) builds it, and a *gate* judges the result
against the pinned criteria. The loop decides when to stop, retry, change the
approach, or ask a human. Runs can be interrupted and continued.

The LLMs are not modelled: every answer they can give is a choice of the
environment. What is modelled is the deterministic code around them: when a unit
counts as done, what happens to it when another is taken up, what a reset of main
takes off, how a run ends and what the next one believes.

## 1. The system

| Part | Source | State it keeps | Operations | Hard about it |
|---|---|---|---|---|
| DAG scheduler | `scheduler.py` | none | `ready_units`, `is_disjoint_from`, `all_done`, `is_stuck` | dependencies are free strings: may name nothing, may be cyclic |
| Sequential loop | `loop.py` `run_loop` | `State` (status, plan, budget, rejected contents), locals (unit worked on, digests of failures, blocked renames) | one iteration: budget, replan with retries, critic, fallback, redirect, rename guard, dispatch, gate, fixation guard | what the brain may order in which sequence; exceptions at every call; four ways to be done |
| Parallel loop | `loop.py` `_parallel_loop` | plan, futures, attempts, alternatives, merge record, checkpoints | `dispatch_ready`, `gen_order`, `run_round`, `handle_outcome`, `_semantic_consumer_reset`, integration alternatives | workers end in any order while main is merged into and reset |
| Worktrees | `worktree.py` | main, one branch and worktree per unit in flight, recorded checkpoints | `create`, `merge`, `head_ref`, `checkpoint`, `reset_main_to`, `cleanup_all` | a branch carries the main it was cut from |
| OR-nodes | `or_node.py` | none | `implicated_units`, `contract_consuming_siblings`, `is_fixated` | how far a reset must reach |
| Replan, parsing | `replan.py`, `parsing.py`, `llm.py` | none | one decision out of an LLM's text | blank and unparsable answers |
| Decomposition critic | `decomp_critic.py` | none (registry in `State`) | weak / progress, signature of contents | renaming a rejected order |
| Spec change | `spec_change.py` | the specification | apply, or escalate | what may change without a human |
| Preparation of a run | `loop.py` (before the loop), `intake.py`, `spec_critic.py`, `run.py` | the specification, the parent's verified units, the plan as seeded | continue from a parent, synthesise with repairs, critique, two nudges, evidence contract, reuse | which of several rewritten specifications decides what; units taken over as done |
| Capabilities | `capability.py`, `capability_search.py` | the allowlist a human keeps, across runs | discover, prove, adopt or escalate | a later run finds other candidates than the human saw |
| Gate | `gate.py`, `judge.py`, `run_harness.py`, `shadow.py`, `deps.py` | hash of the manifest last installed | select criteria, install, run, judge, check, aggregate; a shadow gate after it | precedence of failed, skipped, missing evidence; a harness without criteria of its own |
| Metering | `metering.py` | per-call usage | drain, combine, account | paths that account twice or never |
| Codex provider | `providers/codex.py`, `executors.py` | subprocess, reader thread, queue, one `-o` file | stream with an idle and an absolute timer, retry; or wait | timers that expire while the answer is on its way; children that outlive codex |
| Local builder | `providers/local_agent.py` | chat, usage, what was applied | a bounded loop of turns, each checked by smoke, self-test, runtime smoke | the builder's checks are not the gate's |
| Run entry | `run.py` | run directory, `meta.json` | run, continue, resume, answer signals | what of a parent run survives |
| Run manager | `dashboard.py` | registry of subprocesses, records, `meta.json` | launch, stop, list, one thread per request | races of stop with the natural end, ids chosen without a lock |
| Observation | `heartbeat.py`, `transcript.py`, `dashboard.py` | two sidecar files, the event stream of a viewer | register, beat, unregister a call; follow the files | written by all threads, read while written |
| Text and advice | `skills.py`, `skill_learner.py`, `research.py`, `scaffold.py`, `artifacts.py`, `gate_signals.py` | files | advise, scaffold, classify | I/O and text |

How they interact. The sequential loop calls everything synchronously from one
thread; an exception of any call ends the run (`stopped_credit`, `escalated`,
`stopped_interrupted`) or, if nobody catches it, the process. `state.yaml` is
written after each step, best effort and not atomically; a later run reads it. The
parallel loop keeps the brain, the worktrees and the merges on the main thread and
runs executor and unit gate in a pool; the threads share nothing but the futures and
the telemetry writers. The dashboard is another process: it shares with a run its
directory (`meta.json`, `state.yaml`, the sidecars) and the signals it sends.

What makes each part correct: the scheduler hands out a unit only when what it
depends on is done; a loop calls a unit done only if it was judged, loses no unit,
repeats no failure silently and ends with one status; main holds what the plan
calls done and nothing that was taken off it; a resumed run believes no more than
was earned. Before the loop the bar is settled once and what is reused was verified
against it; a gate passes on evidence alone; a call of a provider ends, with its own
answer or an error; a run can be stopped by who launched it, and what is recorded and
shown of it is true.

## 2. Modules

| Module | What it is |
|---|---|
| `Scheduler` | the pure functions of `scheduler.py` as operators on a plan |
| `RunLifecycle` | abstract specification: what one run promises to the reader of its final state, whichever loop ran it; a terminal status is never revised from the moment it is decided on (`verdict`), before it is reported |
| `SeqLoop` | `run_loop` from the pinned specification on, and the chain of runs made by resumption with the same order; implements `RunLifecycle` |
| `ParLoop` | `_parallel_loop` with the git side of `worktree.py` and the consumer search of `or_node.py` |
| `MCSeqLoop`, `MCParLoop` | the instances TLC checks |
| `SchedulerProofs`, `SeqLoopProofs`, `ParLoopProofs`, `GateProofs` | theorems about the module they are named for, with their proofs |
| `PreparationProofs`, `ProviderProofs`, `DashboardProofs` | theorems about `Preparation` and `Capabilities`; about `CodexCall` and `LocalAgent`; about `RunManager` and `Sidecar` within `Dashboard` |
| `PipelineProofs` | that the parts of `Pipeline` keep, within the whole, what is proved of them |
| `Preparation` | what a run does before its loop |
| `Capabilities` | the governed pre-flight, over runs between which a human approves |
| `CodexCall` | one call of codex with its reader thread, timers and retries |
| `LocalAgent` | the local builder's turns over a series of work orders |
| `Gate` | a series of gate calls on one work directory, and the shadow gate |
| `Pipeline` | composes the last five: what the loops call and take as one step |
| `RunManager` | launch, stop and status under request threads, beside the processes |
| `Sidecar` | the telemetry files under several threads, and the viewer's stream |
| `Dashboard` | composes the last two |

### Scheduler

Unit ids are numbered in dictionary order, so the sorted list of ready units is a
set and its head the minimum. `Deps` may name units that do not exist, as nothing
in the code checks it.

### SeqLoop

`pc` says where the director thread is: `iterate` (top of the while loop), `replan`
(about to ask the brain), `critic`, `decided` (acting on the decision), `build`,
`verify`, `finish` (after the loop), then `exit`, `aborted` (a caught exception) or
`dead`. The other variables carry the names of the code's (`worked` is
`worked_unit`, `rejected` is `rejected_decomp_signatures`, `renames` is
`rename_block_count`); `disk` is what `state.yaml` holds; `gated`, `passed` and
`charges` are history.

Each action is one pass of the code between two calls to the environment. `Verify`
is the longest: it counts the cost, saves the event *before* the plan is updated (as
the code does, so a crash there loses the update), accepts the unit on a pass,
recognises completion, and runs the fixation guard. `Dispatch` accepts the unit
left behind, marks the new one and saves, in that order.

Abstractions. A work order is a unit id, possibly one the plan does not have, and
the signature of its contents; signature `u` is that of the pinned specification's
own order for unit `u`. The failing checks of a gate are one value. Each accounted
cost is one token. The critic's own cost, events and log lines are left out.

Disturbances, at each call that can raise them: exhausted credit (not in the
critic, which swallows it), a stall (not in the critic and not in the judge), an
interrupt anywhere, the death of the process anywhere, and a failed or torn write
at any save. `Resume` starts the next run of the chain from what `disk` holds.

### ParLoop

The main thread is `ready` (about to call `dispatch_ready`), in `dispatch` (walking
the ready list), `wait` (for a worker), `handle` (results of one wait, in the order
of unit ids), `over` (between rounds), `gate` (integration gate), then `exit`,
`aborted` or `dead`. `work[u]` is the unit's worker: idle, running, or finished
with a result not yet handled, so in flight is what is not idle, as in the code.

Main is the set of *builds* in its history, a build being a unit and the number of
its worktree (0: seeded from a parent run). Branching copies main to `base[u]`;
merging adds the unit's build **and its base**, as a git merge brings every commit
of the branch; a reset puts an earlier set back. That is all the properties need to
tell apart, and what makes the two findings about resets visible. Whether a merge
conflicts, and whether in named files, is a choice: git may refuse a merge for other
reasons than the content.

`attempts`, `alts` and `climbs` are `attempts_of`, `or_attempts_of` and
`escalation_of`; `unit_ceiling_hit` reads the last and the tokens of the unit, of which
`overspent` keeps whether they have reached `unit_token_budget` (`Spends`: any outcome
may be the one that does, if `TokenBudget` says that budget is set). `built[u]` is history:
how often the unit was dispatched.

Left out: feedback texts, tiers, costs, events; the replan and critic retries inside
`gen_order` are one choice between an order (`Dispatch`) and none (`NoOrder`); the
exhausted global token budget and a stall are choices too. `state.yaml` is not modelled
again: SeqLoop does.

### Preparation

`prep` names the next step of `run_loop`'s prelude; the steps are taken in the code's
order: synthesis, critique and at most one resynthesis, the two nudges each behind its
check, the evidence contract, the initial state, the capability pre-flight, reuse. A
specification is a record: which answer its criteria come from, whether they require
evidence fields, and per unit whether it is labelled `reuse_of`, whether its criteria
and scope are the parent's (what `unit_bar_signature` compares), whether it has
dependencies, and whether it produces the trace or is a scaffold. A nudge returns a
whole new specification; `AdoptDeps` and `AdoptScope` take from it what the code does.
`Continue` and `Resume` start from any parent: with or without a readable
`spec.yaml` and `state.yaml`, with the same or another order, that worked in `work/` or
elsewhere, inside a git work tree that tracks its files or not.

### Capabilities

A chain of runs: `Discover` finds any candidates, curated or remote, `Decide` is
`governed_capability_preflight` over all requests, `Approve` is the human extending the
allowlist between runs by a candidate or by the name of the capability.

### CodexCall

Three processes: codex (external: it may print, end its turn, leave a child that holds
its stdout, exit, or hang), the reader thread, the caller. `main` is where the caller
is: `spawn`, `get` (on the queue), `reap`, `communicate` (not streamed), `done`. Time is
left out: `Idle` may happen whenever the queue is empty, and of a call that has a
`max_duration` (`limited`) that time may be up at any moment (`TimeUp`), which the caller
notices when it takes the next line, as in the code. codex may print for ever: `MaxLines`
bounds the lines printed and not yet taken, not the lines of an attempt, of which only the
kinds are kept. All attempts share the
`-o` file `message`.

### LocalAgent

One turn is `Chat`, `Apply`, `Verify`. A tree is described by what the checks can
tell: whether it has tests, and one defect at most. `Smoke`, `Selftest` and
`RuntimeSmoke` say which defect which check sees, per stack and test command, with the
code's ways of skipping a check (tool missing, out of time, exit codes that do not
count). The self-test does not run the gate's command but what `_selftest_cmd` or
`_selftest_js_cmd` makes of it. `Form` says how they relate: `same` in effect; `bare`, a
runner called by its name, which the self-test starts with `python -m` or `npx`; `other`, a
command of which the self-test drops a part. `TestCode` is the exit code of the runner as
the self-test starts it, `GateCodes` the codes the raw command may have in the gate's
shell: a bare `vitest` is not found there, a bare `pytest` does not find a module of the
root (`rooted`), and of an `other` command anything may come.

### Gate

`gate` walks through `CompositeGate.judge`: `install`, `run`, `judge`, `rest`, then the
shadow gate, then the verdict is handed over. A call's arguments say which criteria the
specification has and to which unit they are tagged, whether there is an evidence
contract and a judge. A trace says what a run printed and how it ended: a run that crashed
or ran out of time keeps its output, so `died` fulfils a contract (`Printed`) without having
booted (`Booted`). The shadow gate goes through the same code on the same directory
with another judge: its verdict is only compared, but its installation is real.

### RunManager

One thread per HTTP request: `req[r].pc` is where it is, and each step is one access to
something shared: the runs directory, the registry `reg`, a record `rec`,
`meta.json` (`write_text` is two steps, truncate and write), a process. The processes
themselves write `meta.json` if it is absent, answer SIGINT by cleaning up and exit 0
(or die of it before they handle it), and end whenever they like. `Restart` is the
server going away: registry and requests are lost, processes are not.

### Sidecar

Every thread registers a call in both writers, beats, and unregisters, as
`observe_call` does; a flush is `OpenTmp` (which truncates), `WriteTmp` and `Replace`,
on inodes, so that a thread that still holds a renamed file writes into it. The viewer
is `_stream`: modification times first, then the heartbeat, then the state. `saw` is
FALSE whenever some file differs from what the stream last polled. Any step of a flush may
fail (`FlushFails`): `_flush` swallows it, the file under the name stays as it was and
nobody tries again. The history `lost` names the files whose last flush failed.

### Pipeline and Dashboard

Their parts share nothing but what each part takes as arbitrary input (the work
directory, the process of the run), so an initial choice of one part is enough: the
state spaces add up instead of multiplying, and every part is checked in every state it
can reach. `Dashboard` adds one history variable, `final`: the ids whose `meta.json` has
said a terminal status.

## 3. Runs

All runs are over finite chains of iterations, requests, turns or calls, so the systems
stop: deadlock is not checked, and termination is a property of its own where the code
promises it (`Ends`, `ImplementsLifecycle`, `StopEnds`, `CallEnds`).

| Run | Bounds | Shows |
|---|---|---|
| `SeqLoop_safety` | 2 units, the second built on the first; 3 iterations, 1 replan retry, 1 critic retry, 1 blocked rename allowed, 2 tokens, 2 runs, 1 fault | `TypeOK`, `DoneWasGated`, `OneUnitUnderWork`, `DoneIsEarned`, `NoSilentChurn`, `RejectionHolds`; `ImplementsLifecycle`: refinement of `RunLifecycle`, with its fairness, so every run ends, and with the one status it decided on; about 749 000 states |
| `ParLoop_safety` | 4 units, 2 after 1; 1 and 3 touch one file, 2 another, 4 depends on an id that names no unit, so it is done from the start or never; cap 1, burst 2; 4 outcomes, 1 retry, 1 alternative (unit and integration), attempt budget 2, a token budget, 1 git failure | `TypeOK`, `BurstIsDisjoint`, `InProgressIsInFlight`, `DoneIsOnMain`, `DependenciesInBase`, `DispatchesAreBounded`, `Ends`; about 828 000 states |
| `SeqLoop_ReplanAccountedOnce` | 2 units | violated: finding 1 |
| `SeqLoop_DoneIsNotRebuilt` | 2 units | violated: finding 2 |
| `SeqLoop_RecognitionIsGateFact` | 2 units, 4 iterations, 1 run | violated: finding 3 |
| `ParLoop_CeilingHolds` | 2 independent units, 1 retry, 1 integration alternative, attempt budget 1 | violated: finding 4 |
| `ParLoop_UnmergedStaysOut` | 3 units, two of them on the first; 2 at once | violated: finding 5 |
| `ParLoop_UnmergeGoesBack` | 2 units sharing a file, 2 integration alternatives | violated: finding 6 |
| `Dashboard_runs` | manager: 2 request threads, one id per time stamp, 2 launches, 2 launches and restarts together; telemetry: one calling thread, 1 transcript kept, 1 file at a time left behind by a failed flush | `ManagedIsReachable`, `StatusIsTruth`, `TerminalStays`, `StopEnds`; `NeverReadInPart`, `IdleShowsNoCall`, `StreamCatchesUp`; both type invariants; about 507 000 states |
| `Sidecar_NeverReadInPart` | 2 calling threads | violated: finding 7 |
| `Pipeline_runs` | preparation: 2 units, parents that worked in `work/`, 1 repair; capabilities: 2 requests, 2 runs; codex: 1 retry, 2 lines not yet taken; builder: 2 turns, 2 orders; gate: 2 calls, 1 manifest | `BarIsSettled`, `ReuseOnlyVerified`, `ContractIsCarried`; `NothingUnapproved`; `AnswerIsOfItsAttempt`, `OneCodexAtATime`, `CallEnds`; `ReportedSpend`, `GreenIsGreenAtTheGate`; `NoFakePass`, `HollowHarnessIsCaught`, `FailedInstallIsRetried`; the type invariants; about 1.04 million states |
| `Preparation_SeededDoneHasItsCode` | 2 units, parents that worked in a `--workdir` of their own | violated: finding 8 |

Why the bounds are enough. Two units and one unknown id give every case of
"another unit, done / not done / unknown", and with three iterations one of them
can be left and taken up again and a failure can repeat twice around another build.
Two runs and one fault give each crash, each torn write and a resumption from it.
With three buildable units the parallel loop has one in flight across a reset of the other
two; with four outcomes a unit can fail up to its ceiling, and an integration alternative
can rebuild what a round built.
The constants of a chain, not of the code, are `MaxRuns`, `MaxFaults`,
`MaxRefFaults`, `MaxLost`; beyond `MaxTokens` spending is not told apart.

In the parts the loops call, two units are enough for a contract that has the choice
between two carriers and for a reuse next to a rebuild; the repairs of an answer are
independent, so one stands for the two of the code. Two attempts of codex are what
shares one `-o` file and one directory; two lines let an item precede the end of the
turn. Two turns and two orders let a failure be fed back, a later turn fail, and
something of an earlier order survive. Two calls of the gate let an installation be
skipped, and the third and fourth installer are the shadow's.

With one id a second launch is one that did not see the first; a launch that did takes
the next id, and runs of different ids share neither record nor file. Two request threads give launch against launch,
stop against the end, stop against stop, listing against either. Two calling threads
break the sidecars (finding 7): `Dashboard_runs` therefore checks the telemetry with
one calling thread, as in the sequential loop, where it must hold and does.

Exemptions stated in the properties, because the code really behaves so:

- `DoneIsEarned` exempts a run that inherited its units and one whose brain moved on
  to an unknown unit id (finding 3 shows that path).
- `DoneIsOnMain` exempts a unit merged while git could not tell HEAD (`Unanchored`): it
  is missing from the merge record, and a later semantic reset takes its build off main
  while the plan keeps it done. It stays exempt when it is merged again, with an anchor,
  if the clean checkpoint was noted in between: that checkpoint misses it
  (`MissedByClean`), and so does main once an exhausted integration goes back there. The
  bounds of `ParLoop_safety` never showed the second half; the attempt to prove the
  property without it did. `DependenciesInBase` is stated for runs in which git told
  every HEAD.
- `RejectionHolds` is stated within a run: a resumed run starts without the registry.
- `ManagedIsReachable`, `StatusIsTruth` and `TerminalStays` exempt two launches that took
  the same id: nothing locks the choice (`Shared`).
- `IdleShowsNoCall` exempts a file whose last flush failed (`lost`): it may show a call for
  ever, as `_flush` swallows the failure.
- `StatusIsTruth` allows a process to outlive the SIGKILL it was sent, as `stop` does not
  wait for it.
- `OneCodexAtATime` speaks of the children of a codex that was killed in a streamed call:
  `_terminate_process` returns at once when codex itself has exited, and
  `subprocess.run` kills codex alone.
- `CallEnds` leaves out the client's call without a time limit, which has none, and a
  streamed call without `max_duration`, which is the default, while codex goes on printing:
  that one ends unless codex prints for ever.
- `GreenIsGreenAtTheGate` is about a tree with tests, the tools there and in time. It exempts
  a plain `pytest` command without collectable tests and the commands the self-test changes
  (`Unmirrored`): a bare `vitest`, a bare `pytest` whose tests import a module of the root,
  and any command of which it drops a part.
- `Gate` assumes distinct criterion ids, which `models.py` does not enforce.
- `ContractIsCarried` leaves out a resumed run, which takes the parent's contract as it is.

Fairness. `SeqLoop` assumes weak fairness of the loop's own steps; `ParLoop` of the
main thread and of each worker. The code justifies it: each call to a provider is
bounded by an idle timeout and, if it is given, an absolute one (`CallEnds` shows it for codex), checks run
with timeouts, and nothing else blocks. Nothing obliges an interrupt, a fault or a
resumption to happen. `CodexCall` assumes the reader thread and the caller go on and that
the time of a call that has a `max_duration` passes, and nothing of codex, which may print
for ever. Only with `--codex-max-duration` (off by default) is every call of the loops
bounded, so the fairness of `build` and of the workers leaves out a codex that never stops
printing. `RunManager` assumes a request that has begun goes on
and SIGKILL kills; a process may ignore the other signals for ever. `Sidecar` assumes a
flush goes on and an open stream keeps polling; nobody is obliged to make a call.

## 4. Findings

1. **A failed replan is accounted twice** (`loop.py:1331`, then `1452`). When no
   answer of the brain parses, the cost is accounted and the fallback order's event
   accounts it again. The comment there says a failed replan is accounted honestly.
2. **A done unit is built again** (`loop.py:1381`). An order for a done unit is
   redirected to the first ready one; if none is ready because another has failed or
   waits for one that has, the done unit is dispatched, against the comment at 1372.
3. **Done without a gate** (`loop.py:1375`, `1425`). Moving on to a unit id the plan
   does not have accepts the unit left behind although it failed; a second step of
   the kind makes all units done, and ordering a done unit then ends the run as done
   "as a fact of the gate" that no gate has established.
4. **The attempt ceiling is passed** (`loop.py:2391`). The comments at 1779 and 2133 call
   `escalation_of` the number of re-dispatches over all layers, retries, alternatives and
   integration alternatives, and set a ceiling on it. An integration alternative puts units
   back to pending and their retries to 0 without counting, and the semantic reset
   (2012-2021) re-sends siblings the same way, so a unit at its budget is dispatched again.
   What the code does keep is `DispatchesAreBounded`: the budget bounds failures and
   conflicts; each alternative, and each semantic reset another unit causes, adds one.
5. **An un-merged build returns** (`loop.py:2007`). The semantic reset takes a
   sibling off main while a unit branched from the old main is in flight; merging
   that unit brings the sibling's old commits back while the plan has it pending.
6. **An abandoned alternative returns** (`loop.py:2371`). Going back to the clean
   checkpoint before a further integration alternative leaves `merge_seq` and
   `pre_merge_ckpt` as they were. A semantic reset then picks a checkpoint of the
   abandoned alternative, and main moves forward to it. Needs `--or-alternatives` of
   at least 2 (the default is 1).
7. **Telemetry is read in part** (`heartbeat.py:154`, `transcript.py:205`). Threads of the
   parallel loop write a sidecar through one temporary file, outside the lock: one
   truncates what another is about to rename. An empty or garbled file gets the final
   name although the docstring promises that the dashboard never reads a part.
8. **Done without its code** (`run.py:683`). `load_resume`, which is what
   `--continue-from` calls, seeds from the parent's `work/` or run directory and not from
   the place `_resolve_seed_src` would find, which only `load_continuation` asks, and the
   program does not call that. Of a parent that had a `--workdir` of its own the units are done and their code
   is not there, against the comment at 505 and the docstring at 551. The same comes of
   a `work/` inside a git work tree that does not track it: `git ls-files` lists
   nothing, and nothing is seeded (`untracked` in the model).

Seen in the models and not counted as findings, as no text says otherwise: a run
whose last merge is outcome number `max_iters` is `stopped_stuck` with every unit
done; the brain's stop in the parallel loop drops results in flight and skips the
integration gate; an escalation inside an integration alternative leaves main as
that alternative made it; a provider error that is neither credit nor a stall kills
the process with `running` saved; two launches in one second may share an id; a child of
a codex that has exited survives the kill; a streamed codex without `max_duration` that
keeps printing is never stopped; a sidecar whose last flush failed shows a call for ever; the second nudge may take back the
dependencies of the first; the shadow gate may install what the first gate could not.

## 5. What is proved

All for every value of the constants that the modules' named assumptions allow:

- the loops: every number of units, dependency relation, scope, contents, digests, worker
  count and bound, from `SchedulerAssumption` (there is a unit; dependencies are sets of
  ids), `SeqLoopAssumption` (the bounds are naturals; each unit has a content of its own)
  and `ParLoopAssumption` (the bounds are naturals, scopes are finite, more than one
  worker is allowed: with one, `run_loop` takes the sequential path);
- the parts of `Pipeline`: every decomposition and every number of repairs, runs, retries,
  lines, turns, orders, calls and manifests, for each part and for the whole;
- the dashboard: any set of request threads, every number of ids, launches and restarts
  (`ManagerAssumption`); any finite set of calling threads and any positive cap
  (`SidecarAssumption`).

| Theorem | Says |
|---|---|
| `FirstReadyIsReady` | the scheduler picks no unit exactly if none is ready; otherwise its pick is pending, not in flight, has its dependencies done, and no ready unit comes before it |
| `StuckHasCause` | if every dependency names a unit and there is no cycle of them, a plan is stuck only because a unit failed or was left in progress |
| `TypeCorrect` | `Spec => []TypeOK` |
| `DoneWasGatedAlways`, `OneUnitUnderWorkAlways`, `DoneIsEarnedAlways`, `NoSilentChurnAlways` | the safety invariants of `SeqLoop` |
| `RejectionAlwaysHolds` | the action property on rejected contents |
| `GateTypeCorrect`, `NoFakePassAlways`, `HollowHarnessIsAlwaysCaught`, `FailedInstallIsAlwaysRetried` | the invariants of `Gate` |
| `CodexTypesHold`, `AnswerIsAlwaysOfItsAttempt`, `OneCodexAlways` | the invariants of `CodexCall` |
| `PreparationTypesHold`, `ReuseIsAlwaysVerified`, `ContractIsAlwaysCarried`, `BarStaysSettled` | the invariants and the action property of `Preparation` |
| `NothingIsEverUnapproved` | the invariant of `Capabilities` |
| `LocalTypesHold`, `SpendIsAlwaysReported`, `GreenIsAlwaysGreenAtTheGate` | the invariants of `LocalAgent` |
| `PartsAreAsSpecified`, `PipelineIsSafe` | a behaviour of `Pipeline` is one of each part's module, so all of the above holds of the whole |
| `ParTypesHold`, `DoneStaysOnMain`, `DependenciesAreInBase`, `NoneIsLeftInProgress`, `DispatchesStayBounded`, `BurstStaysDisjoint` | the safety invariants of `ParLoop` |
| `BuildsOfAUnit` | a unit is dispatched at most `AttemptBudget + OrAlternatives + NumUnits` times |
| `ManagerTypesHold`, `ManagedStaysInReach`, `StatusStaysTrue` | the invariants of `RunManager` |
| `TerminalIsFinal` | the invariant of `Dashboard` on `meta.json`: a terminal status once recorded is final |
| `SidecarTypesHold` | the types of `Sidecar`, with the cap on kept transcripts, for any number of threads |
| `OneThreadIsReadWhole`, `OneThreadIdlesUnseen` | the invariants of `Sidecar` if one thread calls models |
| `LifecycleSafety` | the initial states and every step of `SeqLoop` are those of `RunLifecycle`, or stutters |

The argument. The four invariants of `SeqLoop` are not inductive: nothing in `DoneWasGated` says
why moving on from a unit may mark it done. The inductive invariant `Accountable`
adds that the unit worked on has been gated whenever the loop is not between its
dispatch and its verdict (`WorkedWasGated`), that what is built is what is worked on
(`WorkedIsOrdered`), that giving a unit up or deciding to end leaves the loop
(`EndingStops`), and that a finished run has no locals left for the next
(`AtRest`). `SaveClaims` is the lemma about `state.yaml`: whatever a failed write
leaves behind claims no more than the old file or the new plan. The step lemma
has one case per action. `LifecycleSafety` needs type correctness and that a run
outside the loop carries a terminal status (`EndIsNamed`), and that while the loop is in
an iteration no terminal status has been decided on (`Undecided`), so that none is revised.

`Gate`: `RestIsStrict` shows the promises of the one step that gives a verdict; a verdict
is then only handed over (`VerdictIsLast`). For the installation the history `failed` is
tied to the code's own state: the hash beside the manifest never names a content whose
last installation failed (`SidecarIsGood`), and an installation is skipped only for the
content it names (`CachedIsCurrent`), which the shadow gate cannot change under it.
`CodexCall`: attempts follow one another (`OneAtATime`, `NotBegun`), the reader reports
the end of the output only when codex is gone, so that the caller leaves none behind
(`LeftBehind`), and the `-o` file shared by the attempts is blank or the attempt's own
once codex has exited with 0 (`FileIsOwn`); the answer is read only then.
`Preparation`: nothing is seeded before the reuse is evaluated, save in a pure
resumption (`SeededLate`), and the contract is that of the specification as it is in
the end (`ContractIsDrawn`); `PurposeFacts` and `NudgeFacts` are about what the steps
before it adopt. `LocalAgent`: `CheckedIsGreen` compares the smoke and the self-test with
the exit codes the command may have at the gate, tree by tree and form by form; the tree
given back is the one the last step checked.

`ParLoop`: nothing in `DoneIsOnMain` says why a reset keeps what it does not mean to
take off. The inductive core is `RecordInv`, which ties plan, merge record, checkpoints
and main together. `AnchorsKeep`: main as it was before a unit `s` was last merged held
every unit `v` the record knows, unless `v` was merged since (`MergedSince`).
`_semantic_consumer_reset` goes back to the earliest such anchor and sends back every
unit merged since, so whatever is left done was in that anchor
(`SemanticResetKeepsRecord`); merging moves a unit to the end of the record and main only
grows (`MergeKeepsRecord`); going back to the clean checkpoint leaves the record as it
was, for which `CleanIsComplete` is needed: the checkpoint is noted when all units are
done (`BackToCleanKeepsRecord`). `DependenciesInBase` follows at dispatch, where what is
on the list still is ready (`TodoIsReady`) and is branched from that main. `DispatchesAreBounded`
is about dispatches made; the inductive `DispatchesArePaid` says that of a unit that is
pending, to be dispatched again, the next one is paid for as well, by a failure counted in
`climbs`, an integration alternative or the semantic reset of another unit.
`BurstIsDisjoint` is inductive with types alone; `InProgressIsInFlight` needs
`GateIsComplete`, as an integration alternative sends back units wholesale.

`RunManager`: `StatusIsTruth` looks at the launch an id has now. The inductive form
`MetaIsTrue` says that a terminal status is true of *some* launch under that id whose own
request is over; that is never taken back, since an exit and a SIGKILL are final
(`GoesOn`), and if the id is not shared that launch is the only one (`OneOfItsId`). What a
request believes between two of its accesses is `RequestKnows`: the label it is about to
write is already true of the launch it looked up. That the registry only names launches
whose request is over (`RegistryIsTrue`) is what makes a stale lookup harmless. `TerminalIsFinal` follows:
an id that has ever had a terminal status on record is over, and stays over if it is not
shared (`FinalIsOver`), and of an id that is over nothing but its truth is written again.

`Sidecar`: with any number of threads `_evict` leaves no more ended calls than the cap
(`EvictKeeps`; `Without` lists the places kept by rank, and `RanksCount` shows that the
ranks are the numbers from 1 on), each thread has at most one call that has not ended
(`CallsKept`), and so the length is bounded (`CapHolds`); that some inode is always
unused is a count of those that are open or named (`OneIsUnused`). With one thread,
`OneThreadInv` says in `WritesAlone` that the temporary file exists exactly while the one
flush is between opening and renaming it, is never the file under the name, and holds
the payload of this flush when it is renamed. The hypothesis is needed: two threads share
the temporary file, and finding 7 is the counterexample.

`ParLoop` does not implement `RunLifecycle`, and no refinement is claimed: when the
brain stops the run (`loop.py:1969`) results in flight are dropped and units stay in
progress in a run that reports done.

Model-checked only: liveness (`Ends`, `StopEnds`, `StreamCatchesUp`, `CallEnds`, the
fairness half of `ImplementsLifecycle`), which is out of the prover's reach. Every
invariant and every action property of the passing runs is also proved. The properties of
the eight violated runs are false and have nothing to prove.

## 6. Not modelled

Prompts, the parsing of LLM text, prices, log lines and web pages: data that no
property here tells apart. Scaffolding (`scaffold.py`): fixed files, written once
before the loop. Skills and research: text in prompts. The learner (`skill_learner.py`)
runs after a run has ended and writes advice for others. Registry search
(`capability_search.py`): an external service, any answer of which `Discover` allows.
`gate_signals.py`, `artifacts.py`: pure descriptions of finished reports and of
constants. `demo.py`: a mock wiring of the loop. The validation of launch options, the
lineage, the log tail and the pages of the dashboard read and refuse, and change nothing.
The HTTP stream of the local builder is one outcome of a turn: that a stream cut before
`[DONE]` is taken as a complete reply shows in the model as a reply whose edits fail
their checks.

## 7. Plan

1. *(done)* `Scheduler`, `RunLifecycle`, `SeqLoop` with refinement and proofs.
2. *(done)* `ParLoop`: workers, merges, resets, integration alternatives.
3. *(done)* `Gate`, with installation and the shadow gate.
4. *(done)* `CodexCall`, `LocalAgent`: the providers.
5. *(done)* `RunManager`, `Sidecar`: the dashboard and what it reads.
6. *(done)* `Preparation`, `Capabilities`: before the loop.
7. *(done)* Proofs for `Gate`, the providers, `Preparation`, `Capabilities`.
8. *(done)* Proofs for `ParLoop`, `RunManager`, `Sidecar` and for the composition
   `Pipeline`.
9. What several threads may still rely on in the sidecars, as a theorem: a file is only
   ever spoilt while two flushes of it overlap. What a run of `ParLoop` promises of its
   final state, as an abstract specification that allows for the brain's stop, and the
   refinement.
10. The classification of `spec_change.py` and the granularity and overlap signals of
   `decomp_critic.py` as operators, with lemmas.

Runs are kept to one per question; a run of a component is at most five minutes.
