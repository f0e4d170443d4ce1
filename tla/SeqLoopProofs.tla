---------------------------- MODULE SeqLoopProofs ----------------------------
(***************************************************************************)
(* Invariants of the sequential loop, for every number of units, work      *)
(* order contents, retries, faults and runs.                               *)
(***************************************************************************)
EXTENDS SeqLoop, SchedulerProofs

Files == [readable : BOOLEAN, plan : Plan]

-----------------------------------------------------------------------------
(* The operators the actions are built from *)

\* The bounds are naturals and every unit is a known content and unit id.
LEMMA ConstantTypes ==
  /\ NumUnits \in Nat \ {0}
  /\ NoUnit \notin AnyUnit
  /\ Units \subseteq AnyUnit
  /\ Units \subseteq Sigs
  /\ MaxIters \in Nat /\ ReplanRetries \in Nat /\ DecompRetries \in Nat
  /\ MaxTokens \in Nat /\ MaxFaults \in Nat /\ MaxRuns \in Nat
BY SchedulerAssumption, SeqLoopAssumption
   DEF NoUnit, AnyUnit, Units, Stranger, Sigs

\* What the plan helpers return is a plan.
LEMMA PlanTypes ==
  ASSUME NEW p \in Plan
  PROVE  /\ \A u, s : s \in PlanState => SetPlanState(p, u, s) \in Plan
         /\ \A u : AdvanceDone(p, u) \in Plan
         /\ SealPlan(p) \in Plan
BY DEF Plan, PlanState, SetPlanState, AdvanceDone, SealPlan

\* try_save keeps the file and the fault counter well typed.
LEMMA SaveType ==
  ASSUME NEW p \in Plan, NEW old \in Files, faults \in 0 .. MaxFaults,
         SaveOver(old, p)
  PROVE  disk' \in Files /\ faults' \in 0 .. MaxFaults
<1>1. CASE /\ disk' = [readable |-> TRUE, plan |-> p]
           /\ UNCHANGED faults
  BY <1>1 DEF Files
<1>2. CASE /\ faults < MaxFaults
           /\ faults' = faults + 1
           /\ disk' \in {old, [old EXCEPT !.readable = FALSE]}
  <2>1. faults' \in 0 .. MaxFaults
    BY <1>2, ConstantTypes
  <2>2. [old EXCEPT !.readable = FALSE] \in Files
    BY DEF Files
  <2>. QED
    BY <1>2, <2>1, <2>2
<1>. QED
  BY <1>1, <1>2 DEF SaveOver

\* Accounting keeps the counters well typed.
LEMMA ChargeType ==
  ASSUME NEW n \in Nat, TypeOK
  PROVE  /\ Account(n) => spent' \in 0 .. MaxTokens + 1
         /\ ChargeReplan(n) => /\ spent' \in 0 .. MaxTokens + 1
                               /\ charges' \in Nat
<1>1. Account(n) => spent' \in 0 .. MaxTokens + 1
  BY ConstantTypes DEF Account, TypeOK
<1>2. charges \in Nat
  BY DEF TypeOK
<1>. QED
  BY <1>1, <1>2 DEF ChargeReplan

\* Falling back yields an order or none.
LEMMA ResolvedType ==
  ASSUME TypeOK
  PROVE  Resolved \in Order \cup {NoOrder}
<1>1. FallbackOrder(FallbackTarget(worked)) \in Order \cup {NoOrder}
  BY ConstantTypes DEF FallbackOrder, Order
<1>. QED
  BY <1>1 DEF Resolved, TypeOK, Decision

(***************************************************************************)
(* An order to build is an order: moving it to another unit keeps it one   *)
(* (loop.py:1381-1384).                                                    *)
(***************************************************************************)
LEMMA RedirectedType ==
  ASSUME TypeOK, Resolved # NoOrder
  PROVE  Redirected \in Order
<1>1. FallbackOrder(FallbackTarget(NoUnit)) \in Order \cup {NoOrder}
  BY ConstantTypes DEF FallbackOrder, Order
<1>. QED
  BY <1>1, ResolvedType DEF Redirected

\* The empty records, plans and registries are well typed.
LEMMA InitialTypes ==
  /\ FreshPlan \in Plan
  /\ NoFile \in Files
  /\ NoDecision \in Decision
  /\ NoRejection \in [Sigs -> AnyUnit \cup {NoUnit}]
  /\ NoStreak \in [AnyUnit -> [digest : Digests \cup {0}, length : Nat]]
BY DEF FreshPlan, NoFile, Files, Plan, PlanState, NoDecision, Decision,
       NoRejection, NoStreak

-----------------------------------------------------------------------------
(* Type correctness *)

\* The initial states are well typed.
LEMMA TypeInit == Init => TypeOK
<1>. SUFFICES ASSUME Init PROVE TypeOK
  OBVIOUS
<1>1. /\ pc \in Live \cup {"exit", "aborted", "dead"}
      /\ run \in 1 .. MaxRuns \cup {1}
      /\ status \in Status
      /\ gated \subseteq Units
      /\ passed \in BOOLEAN
  BY DEF Init, Live, Status
<1>2. /\ iters \in 0 .. MaxIters
      /\ worked \in AnyUnit \cup {NoUnit}
      /\ parses \in 0 .. ReplanRetries
      /\ decomps \in 0 .. DecompRetries
      /\ renames \in Nat
      /\ spent \in 0 .. MaxTokens + 1
      /\ charges \in Nat
      /\ faults \in 0 .. MaxFaults
  BY ConstantTypes DEF Init
<1>. QED
  BY <1>1, <1>2, InitialTypes DEF Init, TypeOK, Files

\* A caught exception leaves the state well typed.
LEMMA AbortType ==
  ASSUME TypeOK, NEW s \in Terminal, AbortWith(s)
  PROVE  TypeOK'
<1>1. disk' \in Files /\ faults' \in 0 .. MaxFaults
  BY SaveType DEF AbortWith, Save, TypeOK, Files
<1>2. status' \in Status
  BY DEF AbortWith, TypeOK, Status
<1>. QED
  BY <1>1, <1>2, ConstantTypes, InitialTypes
     DEF TypeOK, AbortWith, EndLoop, EndIteration, history, Files

\* Every step of the loop preserves the types.
LEMMA TypeStep == TypeOK /\ [Next]_vars => TypeOK'
<1>. SUFFICES ASSUME TypeOK, [Next]_vars PROVE TypeOK'
  OBVIOUS
<1>. USE ConstantTypes, InitialTypes
     DEF NoSave, EndIteration, EndLoop, StopWith, loopVars, history, Live,
         Status, Terminal
<1>1. CASE BeginIteration
  BY <1>1 DEF TypeOK, BeginIteration
<1>2. CASE BudgetStop
  BY <1>2 DEF TypeOK, BudgetStop
<1>3. CASE OutOfIterations
  BY <1>3 DEF TypeOK, OutOfIterations
<1>4. CASE ReplanUnparsable
  <2>1. parses' \in 0 .. ReplanRetries
    BY <1>4 DEF ReplanUnparsable, RetryReplan, AttemptsLeft, TypeOK
  <2>2. pc' \in Live
    BY <1>4 DEF ReplanUnparsable, RetryReplan
  <2>. QED
    BY <1>4, <2>1, <2>2 DEF TypeOK, ReplanUnparsable
<1>5. CASE ReplanDegenerate
  <2>1. parses' \in 0 .. ReplanRetries
    BY <1>5 DEF ReplanDegenerate, RetryReplan, AttemptsLeft, TypeOK
  <2>2. pc' \in Live
    BY <1>5 DEF ReplanDegenerate, RetryReplan
  <2>3. decision' \in Decision
    BY <1>5 DEF ReplanDegenerate, Decision
  <2>. QED
    BY <1>5, <2>1, <2>2, <2>3 DEF TypeOK, ReplanDegenerate
<1>6. CASE ReplanAnswer
  <2>1. decision' \in Decision
    BY <1>6 DEF ReplanAnswer, Decision
  <2>2. pc' \in Live
    BY <1>6 DEF ReplanAnswer
  <2>. QED
    BY <1>6, <2>1, <2>2 DEF TypeOK, ReplanAnswer
<1>7. CASE CriticAccepts
  BY <1>7 DEF TypeOK, CriticAccepts
<1>8. CASE CriticRejects
  <2>1. decision.order.unit \in AnyUnit \cup {NoUnit}
    BY DEF TypeOK, Decision, Order, NoOrder
  <2>2. rejected' \in [Sigs -> AnyUnit \cup {NoUnit}]
    BY <1>8, <2>1 DEF CriticRejects, RegisterRejection, TypeOK
  <2>3. disk' \in Files /\ faults' \in 0 .. MaxFaults
    BY <1>8, SaveType DEF CriticRejects, Save, TypeOK, Files
  <2>4. decomps' \in 0 .. DecompRetries /\ parses' \in 0 .. ReplanRetries
    BY <1>8 DEF CriticRejects, TypeOK
  <2>5. decision' \in Decision /\ pc' \in Live
    BY <1>8 DEF CriticRejects, TypeOK
  <2>. QED
    BY <1>8, <2>2, <2>3, <2>4, <2>5 DEF TypeOK, CriticRejects, Files
<1>9. CASE NothingToBuild
  <2>1. spent' \in 0 .. MaxTokens + 1 /\ charges' \in Nat
    BY <1>9, ChargeType DEF NothingToBuild, FailedReplanCharge
  <2>. QED
    BY <1>9, <2>1 DEF TypeOK, NothingToBuild
<1>10. CASE RecogniseDone
  <2>1. spent' \in 0 .. MaxTokens + 1 /\ charges' \in Nat
    BY <1>10, ChargeType DEF RecogniseDone, FailedReplanCharge
  <2>. QED
    BY <1>10, <2>1 DEF TypeOK, RecogniseDone
<1>11. CASE BlockRename
  <2>1. spent' \in 0 .. MaxTokens + 1 /\ charges' \in Nat
    <3>1. FailedReplanCharge + 1 \in Nat
      BY DEF FailedReplanCharge
    <3>. QED
      BY <1>11, <3>1, ChargeType DEF BlockRename
  <2>2. plan' \in Plan
    <3>1. plan' = plan \/ plan' = SetPlanState(plan, worked, "failed")
      BY <1>11 DEF BlockRename
    <3>2. plan \in Plan /\ "failed" \in PlanState
      BY DEF TypeOK, PlanState
    <3>3. SetPlanState(plan, worked, "failed") \in Plan
      BY <3>2, PlanTypes
    <3>. QED
      BY <3>1, <3>2, <3>3
  <2>3. disk' \in Files /\ faults' \in 0 .. MaxFaults
    BY <1>11, <2>2, SaveType DEF BlockRename, Save, TypeOK, Files
  <2>4. renames' \in Nat
    BY <1>11 DEF BlockRename, TypeOK
  <2>5. /\ pc' \in Live
        /\ status' \in Status
        /\ decision' \in Decision
        /\ parses' \in 0 .. ReplanRetries
        /\ decomps' \in 0 .. DecompRetries
    BY <1>11 DEF BlockRename, TypeOK
  <2>. QED
    BY <1>11, <2>1, <2>2, <2>3, <2>4, <2>5 DEF TypeOK, BlockRename, Files
<1>12. CASE Dispatch
  <2>1. spent' \in 0 .. MaxTokens + 1 /\ charges' \in Nat
    BY <1>12, ChargeType DEF Dispatch, FailedReplanCharge
  <2>2. Redirected \in Order
    BY <1>12, RedirectedType DEF Dispatch, Orders
  <2>3. plan' \in Plan
    BY <1>12, PlanTypes DEF Dispatch, Accepted, TypeOK, PlanState
  <2>4. disk' \in Files /\ faults' \in 0 .. MaxFaults
    BY <1>12, <2>3, SaveType DEF Dispatch, Save, TypeOK, Files
  <2>5. worked' \in AnyUnit /\ decision' \in Decision
    BY <1>12, <2>2 DEF Dispatch, Order, Decision, OrderAction
  <2>. QED
    BY <1>12, <2>1, <2>3, <2>4, <2>5 DEF TypeOK, Dispatch, Files
<1>13. CASE Build
  BY <1>13 DEF TypeOK, Build
<1>14. CASE VerifyAny
  <2>. SUFFICES ASSUME NEW v \in GateVerdict, NEW d \in Digests \cup {0},
                       Verify(v, d)
                PROVE  TypeOK'
    BY <1>14 DEF VerifyAny, GateVerdict
  <2>. DEFINE u == decision.order.unit
              grown == Extend(streak[u], d)
  <2>1. AfterVerdict(v, u) \in Plan /\ plan' \in Plan
    BY PlanTypes DEF Verify, AfterVerdict, TypeOK, PlanState
  <2>2. disk' \in Files /\ faults' \in 0 .. MaxFaults
    BY SaveType DEF Verify, Save, TypeOK, Files
  <2>3. streak' \in [AnyUnit -> [digest : Digests \cup {0}, length : Nat]]
    <3>1. u \in AnyUnit =>
            grown \in [digest : Digests \cup {0}, length : Nat]
      BY DEF Extend, TypeOK
    <3>2. streak' = streak \/ streak' = [streak EXCEPT ![u] = grown]
      BY DEF Verify
    <3>. QED
      BY <3>1, <3>2 DEF TypeOK
  <2>4. spent' \in 0 .. MaxTokens + 1 /\ charges' \in Nat
    <3>1. spent' \in 0 .. MaxTokens + 1
      BY ChargeType DEF Verify
    <3>2. charges' \in Nat
      BY DEF Verify, TypeOK
    <3>. QED
      BY <3>1, <3>2
  <2>5. /\ pc' \in Live
        /\ status' \in Status
        /\ gated' \subseteq Units
        /\ passed' \in BOOLEAN
    BY DEF Verify, TypeOK
  <2>. QED
    BY <2>1, <2>2, <2>3, <2>4, <2>5 DEF TypeOK, Verify, Files
<1>15. CASE BrainStops
  <2>1. spent' \in 0 .. MaxTokens + 1 /\ charges' \in Nat
    BY <1>15, ChargeType DEF BrainStops
  <2>. QED
    BY <1>15, <2>1 DEF TypeOK, BrainStops
<1>16. CASE BrainEscalates
  <2>1. spent' \in 0 .. MaxTokens + 1 /\ charges' \in Nat
    BY <1>16, ChargeType DEF BrainEscalates
  <2>2. plan' \in Plan
    BY <1>16, PlanTypes DEF BrainEscalates, TypeOK, PlanState
  <2>. QED
    BY <1>16, <2>1, <2>2 DEF TypeOK, BrainEscalates
<1>17. CASE BrainResets
  <2>1. spent' \in 0 .. MaxTokens + 1 /\ charges' \in Nat
    BY <1>17, ChargeType DEF BrainResets
  <2>. QED
    BY <1>17, <2>1 DEF TypeOK, BrainResets
<1>18. CASE SpecChangeApplied
  <2>1. spent' \in 0 .. MaxTokens + 1 /\ charges' \in Nat
    BY <1>18, ChargeType DEF SpecChangeApplied
  <2>2. disk' \in Files /\ faults' \in 0 .. MaxFaults
    BY <1>18, SaveType DEF SpecChangeApplied, Save, TypeOK, Files
  <2>. QED
    BY <1>18, <2>1, <2>2 DEF TypeOK, SpecChangeApplied, Files
<1>19. CASE SpecChangeRefused
  <2>1. spent' \in 0 .. MaxTokens + 1 /\ charges' \in Nat
    BY <1>19, ChargeType DEF SpecChangeRefused, TypeOK
  <2>. QED
    BY <1>19, <2>1 DEF TypeOK, SpecChangeRefused
<1>20. CASE Finish
  <2>1. plan' \in Plan
    BY <1>20, PlanTypes DEF Finish, TypeOK
  <2>2. disk' \in Files /\ faults' \in 0 .. MaxFaults
    BY <1>20, <2>1, SaveType DEF Finish, Save, TypeOK, Files
  <2>. QED
    BY <1>20, <2>1, <2>2 DEF TypeOK, Finish, Files
<1>21. CASE CreditExhausted
  BY <1>21, AbortType DEF CreditExhausted
<1>22. CASE Stalled
  BY <1>22, AbortType DEF Stalled
<1>23. CASE Interrupted
  BY <1>23, AbortType DEF Interrupted
<1>24. CASE Die
  <2>1. faults' \in 0 .. MaxFaults
    BY <1>24 DEF Die, TypeOK
  <2>2. disk' \in Files
    <3>1. disk \in Files
      BY DEF TypeOK, Files
    <3>2. [disk EXCEPT !.readable = FALSE] \in Files
      BY <3>1 DEF Files
    <3>. QED
      BY <1>24, <3>1, <3>2 DEF Die
  <2>. QED
    BY <1>24, <2>1, <2>2 DEF TypeOK, Die, Files
<1>25. CASE Resume
  <2>1. plan' \in Plan
    BY <1>25 DEF Resume, Inherited, Plan, PlanState
  <2>2. disk' \in Files /\ faults' \in 0 .. MaxFaults
    BY <1>25, <2>1, SaveType DEF Resume, TypeOK
  <2>3. run' \in 1 .. MaxRuns
    BY <1>25 DEF Resume, TypeOK
  <2>4. /\ pc' \in Live
        /\ status' \in Status
        /\ rejected' \in [Sigs -> AnyUnit \cup {NoUnit}]
        /\ passed' \in BOOLEAN
    BY <1>25 DEF Resume
  <2>5. spent' \in 0 .. MaxTokens + 1
    BY <1>25 DEF Resume
  <2>6. UNCHANGED <<iters, loopVars, charges, gated>>
    BY <1>25 DEF Resume
  <2>. QED
    BY <2>1, <2>2, <2>3, <2>4, <2>5, <2>6 DEF TypeOK, Files
<1>26. CASE UNCHANGED vars
  BY <1>26 DEF TypeOK, vars
<1>. QED
  BY <1>1, <1>2, <1>3, <1>4, <1>5, <1>6, <1>7, <1>8, <1>9, <1>10, <1>11,
     <1>12, <1>13, <1>14, <1>15, <1>16, <1>17, <1>18, <1>19, <1>20, <1>21,
     <1>22, <1>23, <1>24, <1>25, <1>26 DEF Next, Loop, Disturbance

\* The loop never leaves the states it is described by (TypeOK).
THEOREM TypeCorrect == Spec => []TypeOK
<1>1. Init => TypeOK
  BY TypeInit
<1>2. TypeOK /\ [Next]_vars => TypeOK'
  BY TypeStep
<1>. QED
  BY <1>1, <1>2, PTL DEF Spec

-----------------------------------------------------------------------------
(* The inductive invariant *)

(***************************************************************************)
(* Between two builds the unit worked on last has been gated; this is why  *)
(* moving on from it may count as acceptance.                              *)
(***************************************************************************)
WorkedWasGated ==
  pc \in Live \ {"build", "verify"} /\ worked \in Units => worked \in gated

\* What is being built and judged is the unit worked on.
WorkedIsOrdered ==
  pc \in {"build", "verify"} => worked = decision.order.unit

\* Giving a unit up, or ending in any other way, stops the loop.
EndingStops ==
  pc \in Live =>
    /\ status # "running" => pc = "finish"
    /\ \A u \in Units : plan[u] = "failed" => status = "escalated"

\* A run that is over has no locals.
AtRest ==
  pc \notin Live => worked = NoUnit /\ streak = NoStreak

Accountable ==
  /\ DoneWasGated
  /\ OneUnitUnderWork
  /\ DoneIsEarned
  /\ NoSilentChurn
  /\ WorkedWasGated
  /\ WorkedIsOrdered
  /\ EndingStops
  /\ AtRest

(***************************************************************************)
(* Whatever a write of state.yaml leaves behind, the file claims no more   *)
(* than what was written or what it held before.                           *)
(***************************************************************************)
LEMMA SaveClaims ==
  ASSUME NEW p \in Plan, NEW old \in Files, SaveOver(old, p), NEW G,
         DoneUnits(p) \subseteq G,
         old.readable => DoneUnits(old.plan) \subseteq G
  PROVE  disk'.readable => DoneUnits(disk'.plan) \subseteq G
<1>1. CASE disk' = [readable |-> TRUE, plan |-> p]
  BY <1>1
<1>2. CASE disk' \in {old, [old EXCEPT !.readable = FALSE]}
  BY <1>2 DEF Files
<1>. QED
  BY <1>1, <1>2 DEF SaveOver

\* The inductive invariant holds initially.
LEMMA AccountableInit == Init => Accountable
<1>. SUFFICES ASSUME Init PROVE Accountable
  OBVIOUS
<1>1. NumUnits \in Units
  BY ConstantTypes DEF Units
<1>2. DoneUnits(plan) = {} /\ ~AllDone(plan)
  BY <1>1 DEF Init, FreshPlan, DoneUnits, AllDone
<1>3. DoneWasGated /\ OneUnitUnderWork /\ DoneIsEarned
  BY <1>2 DEF Init, DoneWasGated, OneUnitUnderWork, DoneIsEarned, NoFile,
              FreshPlan
<1>4. NoSilentChurn
  BY ConstantTypes DEF Init, NoSilentChurn, NoStreak
<1>5. WorkedWasGated /\ WorkedIsOrdered /\ EndingStops /\ AtRest
  BY ConstantTypes DEF Init, WorkedWasGated, WorkedIsOrdered, EndingStops,
              AtRest, FreshPlan, Live
<1>. QED
  BY <1>3, <1>4, <1>5 DEF Accountable

(***************************************************************************)
(* A step that only moves the loop, and possibly saves the plan it has.    *)
(***************************************************************************)
LEMMA SavedClaims ==
  ASSUME TypeOK, DoneWasGated, Save(plan)
  PROVE  disk'.readable => DoneUnits(disk'.plan) \subseteq gated
BY SaveClaims DEF Save, TypeOK, Files, DoneWasGated

\* A caught exception preserves the inductive invariant.
LEMMA AbortAccountable ==
  ASSUME TypeOK, Accountable, NEW s \in Terminal, AbortWith(s)
  PROVE  Accountable'
<1>1. DoneWasGated'
  BY SavedClaims DEF AbortWith, Accountable, DoneWasGated, history
<1>2. NoSilentChurn'
  BY ConstantTypes
     DEF AbortWith, EndLoop, NoSilentChurn, NoStreak
<1>. QED
  BY <1>1, <1>2 DEF AbortWith, EndLoop, Accountable, OneUnitUnderWork,
     DoneIsEarned, WorkedWasGated, WorkedIsOrdered, EndingStops, AtRest, Live

\* Every step of the loop, disturbances and resumption included, preserves it.
LEMMA AccountableStep ==
  TypeOK /\ Accountable /\ [Next]_vars => Accountable'
<1>. SUFFICES ASSUME TypeOK, Accountable, [Next]_vars PROVE Accountable'
  OBVIOUS
<1>. USE DEF NoSave, EndIteration, EndLoop, StopWith, loopVars, history, Live,
         Accountable, DoneWasGated, OneUnitUnderWork, DoneIsEarned,
         NoSilentChurn, WorkedWasGated, WorkedIsOrdered, EndingStops, AtRest
<1>1. CASE BeginIteration
  BY <1>1 DEF BeginIteration
<1>2. CASE BudgetStop
  BY <1>2 DEF BudgetStop
<1>3. CASE OutOfIterations
  BY <1>3 DEF OutOfIterations
<1>4. CASE ReplanUnparsable
  <2>1. pc = "replan" /\ pc' \in {"replan", "decided"}
    BY <1>4 DEF ReplanUnparsable, RetryReplan
  <2>. QED
    BY <1>4, <2>1 DEF ReplanUnparsable
<1>5. CASE ReplanDegenerate
  <2>1. pc = "replan" /\ pc' \in {"replan", "decided"}
    BY <1>5 DEF ReplanDegenerate, RetryReplan
  <2>. QED
    BY <1>5, <2>1 DEF ReplanDegenerate
<1>6. CASE ReplanAnswer
  BY <1>6 DEF ReplanAnswer
<1>7. CASE CriticAccepts
  BY <1>7 DEF CriticAccepts
<1>8. CASE CriticRejects
  <2>1. pc = "critic" /\ pc' \in {"replan", "decided"}
    BY <1>8 DEF CriticRejects
  <2>2. DoneWasGated'
    BY <1>8, SavedClaims DEF CriticRejects
  <2>. QED
    BY <1>8, <2>1, <2>2 DEF CriticRejects
<1>9. CASE NothingToBuild
  BY <1>9 DEF NothingToBuild, OrderDecided
<1>10. CASE RecogniseDone
  BY <1>10 DEF RecogniseDone, OrderDecided
<1>11. CASE BlockRename
  <2>1. pc = "decided" /\ status = "running"
    BY <1>11 DEF BlockRename, Orders, OrderDecided
  <2>2. \/ /\ plan' = plan
           /\ status' = status
           /\ pc' = "iterate"
        \/ /\ plan' = SetPlanState(plan, worked, "failed")
           /\ status' = "escalated"
           /\ pc' = "finish"
    BY <1>11 DEF BlockRename
  <2>3. /\ DoneUnits(plan') \subseteq DoneUnits(plan)
        /\ \A u \in Units : plan'[u] = "in_progress" =>
                              plan[u] = "in_progress"
        /\ \A u \in Units : plan'[u] = "failed" =>
                              plan[u] = "failed" \/ status' = "escalated"
        /\ AllDone(plan') => AllDone(plan)
    BY <2>2 DEF SetPlanState, DoneUnits, AllDone
  <2>4. DoneWasGated'
    <3>1. "failed" \in PlanState /\ plan \in Plan
      BY DEF PlanState, TypeOK
    <3>2. plan' \in Plan
      BY <2>2, <3>1, PlanTypes
    <3>. QED
      BY <1>11, <2>3, <3>2, SaveClaims DEF BlockRename, Save, TypeOK, Files
  <2>. QED
    BY <1>11, <2>1, <2>2, <2>3, <2>4 DEF BlockRename
<1>12. CASE Dispatch
  <2>1. pc = "decided" /\ status = "running" /\ pc' = "build"
    BY <1>12 DEF Dispatch, Orders, OrderDecided
  <2>2. Redirected \in Order
    BY <1>12, RedirectedType DEF Dispatch, Orders
  <2>. DEFINE o == Redirected
  <2>3. \A u \in Units :
          plan'[u] = IF u = o.unit THEN "in_progress"
                     ELSE IF u = worked /\ plan[u] # "failed" THEN "done"
                     ELSE plan[u]
    BY <1>12 DEF Dispatch, Accepted, AdvanceDone, SetPlanState
  <2>4. DoneUnits(plan') \subseteq gated
    BY <2>1, <2>3 DEF DoneUnits
  <2>5. DoneWasGated'
    <3>1. plan' \in Plan
      BY <1>12, PlanTypes DEF Dispatch, Accepted, TypeOK, PlanState
    <3>. QED
      BY <1>12, <2>4, <3>1, SaveClaims DEF Dispatch, Save, TypeOK, Files
  <2>6. worked' = o.unit /\ decision'.order.unit = o.unit
    BY <1>12 DEF Dispatch
  <2>7. OneUnitUnderWork'
    BY <2>1, <2>3, <2>6
  <2>8. EndingStops'
    BY <1>12, <2>1, <2>3 DEF Dispatch
  <2>9. DoneIsEarned'
    <3>1. CASE o.unit \in Units
      BY <2>1, <2>3, <3>1 DEF AllDone
    <3>2. CASE o.unit \notin Units
      BY <2>1, <2>2, <2>6, <3>2 DEF Order, AnyUnit
    <3>. QED
      BY <3>1, <3>2
  <2>10. NoSilentChurn'
    BY <1>12, <2>1 DEF Dispatch
  <2>. QED
    BY <2>1, <2>5, <2>6, <2>7, <2>8, <2>9, <2>10
<1>13. CASE Build
  BY <1>13 DEF Build
<1>14. CASE VerifyAny
  <2>. SUFFICES ASSUME NEW v \in GateVerdict, NEW d \in Digests \cup {0},
                       Verify(v, d)
                PROVE  Accountable'
    BY <1>14 DEF VerifyAny, GateVerdict
  <2>. DEFINE u == decision.order.unit
              judged == AfterVerdict(v, u)
              ended  == Completes(v, judged)
              grown  == Extend(streak[u], d)
              stuck  == ~ended /\ Fixated(grown)
  <2>1. /\ pc = "verify"
        /\ status = "running"
        /\ worked = u
        /\ worked' = worked
        /\ pc' \in {"iterate", "finish"}
        /\ gated' = gated \cup ({u} \cap Units)
        /\ passed' = (passed \/ v = "pass")
        /\ run' = run
    BY DEF Verify
  <2>2. /\ ended  => status' = "done" /\ pc' = "finish" /\ plan' = judged
        /\ stuck  => /\ status' = "escalated" /\ pc' = "finish"
                     /\ plan' = SetPlanState(judged, u, "failed")
        /\ ~ended /\ ~stuck => /\ status' = "running" /\ pc' = "iterate"
                               /\ plan' = judged
    BY <2>1 DEF Verify
  <2>3. \A w \in Units : judged[w] = IF w = u /\ v = "pass" /\ plan[w] # "failed"
                                     THEN "done" ELSE plan[w]
    BY DEF AfterVerdict, AdvanceDone
  <2>4. \A w \in Units : \/ plan'[w] = judged[w]
                         \/ /\ w = u /\ stuck
                            /\ plan'[w] = "failed"
    BY <2>2 DEF SetPlanState
  <2>5. DoneWasGated'
    <3>1. DoneUnits(plan') \subseteq gated'
      BY <2>1, <2>3, <2>4 DEF DoneUnits
    <3>2. disk'.readable => DoneUnits(disk'.plan) \subseteq gated
      BY SavedClaims DEF Verify
    <3>. QED
      BY <2>1, <3>1, <3>2
  <2>6. OneUnitUnderWork' /\ EndingStops'
    BY <2>1, <2>2, <2>3, <2>4
  <2>7. DoneIsEarned'
    <3>1. AllDone(plan') => passed' \/ AllDone(plan)
      BY <2>1, <2>3, <2>4 DEF AllDone
    <3>2. pc' = "finish" /\ status' = "done" => AllDone(plan')
      BY <2>2 DEF Completes
    <3>. QED
      BY <2>1, <3>1, <3>2
  <2>8. NoSilentChurn'
    <3>. SUFFICES ASSUME FixationEscalate >= 2,
                         NEW w \in Units,
                         streak'[w].digest # 0,
                         streak'[w].length >= FixationEscalate
                  PROVE  status' = "escalated" /\ plan'[w] = "failed"
      OBVIOUS
    <3>1. streak'[w] # streak[w]
      BY <2>1
    <3>2. w = u /\ streak'[w] = grown /\ ~ended
      BY <3>1, ConstantTypes DEF Verify, TypeOK
    <3>3. stuck
      BY <3>2 DEF Fixated
    <3>. QED
      BY <2>2, <3>2, <3>3 DEF SetPlanState
  <2>. QED
    BY <2>1, <2>5, <2>6, <2>7, <2>8
<1>15. CASE BrainStops
  BY <1>15 DEF BrainStops
<1>16. CASE BrainEscalates
  <2>1. /\ pc = "decided" /\ status = "running"
        /\ pc' = "finish" /\ status' = "escalated"
        /\ plan' = SetPlanState(plan, worked, "failed")
    BY <1>16 DEF BrainEscalates
  <2>2. /\ DoneUnits(plan') \subseteq DoneUnits(plan)
        /\ \A u \in Units : plan'[u] = "in_progress" =>
                              plan[u] = "in_progress"
        /\ AllDone(plan') => AllDone(plan)
    BY <2>1 DEF SetPlanState, DoneUnits, AllDone
  <2>. QED
    BY <1>16, <2>1, <2>2 DEF BrainEscalates
<1>17. CASE BrainResets
  BY <1>17 DEF BrainResets
<1>18. CASE SpecChangeApplied
  <2>1. DoneWasGated'
    BY <1>18, SavedClaims DEF SpecChangeApplied
  <2>. QED
    BY <1>18, <2>1 DEF SpecChangeApplied
<1>19. CASE SpecChangeRefused
  BY <1>19 DEF SpecChangeRefused
<1>20. CASE Finish
  <2>1. pc = "finish" /\ pc' = "exit" /\ gated' = gated
    BY <1>20 DEF Finish
  <2>2. DoneUnits(plan') \subseteq gated
    <3>1. CASE status = "done"
      <4>1. \A u \in Units : plan[u] \in {"pending", "in_progress", "done"}
        BY <2>1, <3>1 DEF TypeOK, Plan, PlanState
      <4>2. \A u \in Units : plan[u] # "pending" => u \in gated
        BY <2>1, <4>1 DEF DoneUnits
      <4>. QED
        BY <1>20, <3>1, <4>2 DEF Finish, SealPlan, DoneUnits
    <3>2. CASE status # "done"
      BY <1>20, <3>2 DEF Finish
    <3>. QED
      BY <3>1, <3>2
  <2>3. DoneWasGated'
    <3>1. plan' \in Plan
      BY <1>20, PlanTypes DEF Finish, TypeOK
    <3>. QED
      BY <1>20, <2>1, <2>2, <3>1, SaveClaims DEF Finish, Save, TypeOK, Files
  <2>4. NoSilentChurn'
    BY <1>20, ConstantTypes DEF Finish, NoStreak
  <2>. QED
    BY <1>20, <2>1, <2>3, <2>4 DEF Finish
<1>21. CASE CreditExhausted
  <2>1. "stopped_credit" \in Terminal
    BY DEF Terminal
  <2>. QED
    BY <1>21, <2>1, AbortAccountable DEF CreditExhausted
<1>22. CASE Stalled
  <2>1. "escalated" \in Terminal
    BY DEF Terminal
  <2>. QED
    BY <1>22, <2>1, AbortAccountable DEF Stalled
<1>23. CASE Interrupted
  <2>1. "stopped_interrupted" \in Terminal
    BY DEF Terminal
  <2>. QED
    BY <1>23, <2>1, AbortAccountable DEF Interrupted
<1>24. CASE Die
  <2>1. disk'.readable => disk'.plan = disk.plan /\ disk.readable
    BY <1>24 DEF Die, TypeOK
  <2>2. NoSilentChurn'
    BY <1>24, ConstantTypes DEF Die, NoStreak
  <2>. QED
    BY <1>24, <2>1, <2>2 DEF Die
<1>25. CASE Resume
  <2>1. /\ pc \notin Live /\ pc' = "iterate"
        /\ status' = "running"
        /\ gated' = gated
        /\ worked' = NoUnit /\ streak' = NoStreak
        /\ run' > 1
    BY <1>25 DEF Resume, TypeOK
  <2>2. \A u \in Units : plan'[u] = IF disk.readable /\ disk.plan[u] = "done"
                                    THEN "done" ELSE "pending"
    BY <1>25 DEF Resume, Inherited
  <2>3. DoneUnits(plan') \subseteq gated
    BY <2>2 DEF DoneUnits
  <2>4. disk'.readable => DoneUnits(disk'.plan) \subseteq gated
    <3>1. CASE DoneUnits(plan') # {}
      <4>1. plan' \in Plan
        BY <1>25 DEF Resume, Inherited, Plan, PlanState
      <4>2. SaveOver(NoFile, plan')
        BY <1>25, <3>1 DEF Resume
      <4>3. NoFile \in Files /\ ~NoFile.readable
        BY InitialTypes DEF NoFile
      <4>. QED
        BY <2>3, <4>1, <4>2, <4>3, SaveClaims
    <3>2. CASE DoneUnits(plan') = {}
      BY <1>25, <3>2 DEF Resume, NoFile
    <3>. QED
      BY <3>1, <3>2
  <2>5. NoSilentChurn'
    BY <2>1, ConstantTypes DEF NoStreak
  <2>. QED
    BY <2>1, <2>2, <2>3, <2>4, <2>5, ConstantTypes
<1>26. CASE UNCHANGED vars
  BY <1>26 DEF vars
<1>. QED
  BY <1>1, <1>2, <1>3, <1>4, <1>5, <1>6, <1>7, <1>8, <1>9, <1>10, <1>11, <1>12,
     <1>13, <1>14, <1>15, <1>16, <1>17, <1>18, <1>19, <1>20, <1>21, <1>22,
     <1>23, <1>24, <1>25, <1>26 DEF Next, Loop, Disturbance

\* The inductive invariant holds in every state.
LEMMA AccountableAlways == Spec => []Accountable
<1>1. Init => Accountable
  BY AccountableInit
<1>2. TypeOK /\ Accountable /\ [Next]_vars => Accountable'
  BY AccountableStep
<1>. QED
  BY <1>1, <1>2, TypeCorrect, PTL DEF Spec

-----------------------------------------------------------------------------
(* What the invariant gives *)

\* No crash, torn write, resumption or seal makes a unit done that no gate
\* has judged a build of (DoneWasGated).
THEOREM DoneWasGatedAlways == Spec => []DoneWasGated
<1>1. Accountable => DoneWasGated
  BY DEF Accountable
<1>. QED
  BY <1>1, AccountableAlways, PTL

\* No order of the brain strands a unit in_progress (OneUnitUnderWork).
THEOREM OneUnitUnderWorkAlways == Spec => []OneUnitUnderWork
<1>1. Accountable => OneUnitUnderWork
  BY DEF Accountable
<1>. QED
  BY <1>1, AccountableAlways, PTL

\* What stands behind a run that reports done (DoneIsEarned).
THEOREM DoneIsEarnedAlways == Spec => []DoneIsEarned
<1>1. Accountable => DoneIsEarned
  BY DEF Accountable
<1>. QED
  BY <1>1, AccountableAlways, PTL

\* A unit that keeps failing in the same way ends the run (NoSilentChurn).
THEOREM NoSilentChurnAlways == Spec => []NoSilentChurn
<1>1. Accountable => NoSilentChurn
  BY DEF Accountable
<1>. QED
  BY <1>1, AccountableAlways, PTL

(***************************************************************************)
(* Rejected contents stay rejected, and are built for no other unit        *)
(* (RejectionHolds): only the critic writes the registry, with setdefault, *)
(* and only a dispatch that is no rename leads to a build.                 *)
(***************************************************************************)
RejectionStep ==
  run' = run =>
    \A s \in Sigs : rejected[s] # NoUnit =>
      /\ rejected'[s] = rejected[s]
      /\ pc # "build" /\ pc' = "build" /\ decision'.order.sig = s
           => decision'.order.unit = rejected[s]

\* No step loses a rejection or builds rejected contents for another unit.
LEMMA RejectionStepHolds == TypeOK /\ [Next]_vars => RejectionStep
<1>. SUFFICES ASSUME TypeOK, [Next]_vars, run' = run PROVE RejectionStep
  BY DEF RejectionStep
<1>1. CASE Dispatch
  BY <1>1 DEF Dispatch, RenameEvasion, RejectionStep
<1>2. CASE CriticRejects
  <2>1. \A s \in Sigs : rejected[s] # NoUnit => rejected'[s] = rejected[s]
    BY <1>2 DEF CriticRejects, RegisterRejection, TypeOK
  <2>2. pc' # "build"
    BY <1>2 DEF CriticRejects
  <2>. QED
    BY <2>1, <2>2 DEF RejectionStep
<1>3. CASE Resume
  BY <1>3 DEF Resume, TypeOK
<1>4. ASSUME ~Dispatch, ~CriticRejects, ~Resume
      PROVE  rejected' = rejected /\ (pc # "build" => pc' # "build")
  <2>. USE DEF StopWith
  <2>1. CASE BeginIteration \/ BudgetStop \/ OutOfIterations
    BY <2>1 DEF BeginIteration, BudgetStop, OutOfIterations
  <2>2. CASE ReplanUnparsable \/ ReplanDegenerate \/ ReplanAnswer \/ CriticAccepts
    BY <2>2 DEF ReplanUnparsable, ReplanDegenerate, ReplanAnswer,
                CriticAccepts, RetryReplan
  <2>3. CASE NothingToBuild \/ RecogniseDone \/ BlockRename \/ Build
    BY <2>3 DEF NothingToBuild, RecogniseDone, BlockRename, Build
  <2>4. CASE VerifyAny
    BY <2>4 DEF VerifyAny, Verify
  <2>5. CASE \/ BrainStops \/ BrainEscalates \/ BrainResets
             \/ SpecChangeApplied \/ SpecChangeRefused \/ Finish
    BY <2>5 DEF BrainStops, BrainEscalates, BrainResets, SpecChangeApplied,
                SpecChangeRefused, Finish
  <2>6. CASE Disturbance
    BY <2>6 DEF Disturbance, CreditExhausted, Stalled, Interrupted, Die,
                AbortWith
  <2>7. CASE UNCHANGED vars
    BY <2>7 DEF vars
  <2>. QED
    BY <1>4, <2>1, <2>2, <2>3, <2>4, <2>5, <2>6, <2>7 DEF Next, Loop
<1>. QED
  BY <1>1, <1>2, <1>3, <1>4 DEF RejectionStep

\* Rejected contents cannot be dispatched under another name in the same run
\* (loop.py:1300, 1385).
THEOREM RejectionAlwaysHolds == Spec => RejectionHolds
<1>1. TypeOK /\ [Next]_vars => [RejectionStep]_vars
  BY RejectionStepHolds
<1>2. Spec => [][RejectionStep]_vars
  BY <1>1, TypeCorrect, PTL DEF Spec
<1>3. Spec => RejectionHolds
  BY <1>2 DEF RejectionHolds, RejectionStep
<1>. QED
  BY <1>3

-----------------------------------------------------------------------------
(* The safety part of the refinement *)

\* A step of the loop other than Finish leaves the run going, and sets a
\* terminal status only to leave the loop.
LEMMA LoopStaysLive ==
  ASSUME Loop, ~Finish
  PROVE  /\ pc \in Live \ {"finish"} /\ pc' \in Live
         /\ status' = status \/ (pc' = "finish" /\ status' \in Terminal)
<1>. USE DEF StopWith, Live, Terminal
<1>1. CASE BeginIteration \/ BudgetStop \/ OutOfIterations
  BY <1>1 DEF BeginIteration, BudgetStop, OutOfIterations
<1>2. CASE ReplanUnparsable \/ ReplanDegenerate \/ ReplanAnswer
  BY <1>2 DEF ReplanUnparsable, ReplanDegenerate, ReplanAnswer, RetryReplan
<1>3. CASE CriticAccepts \/ CriticRejects
  BY <1>3 DEF CriticAccepts, CriticRejects
<1>4. CASE NothingToBuild \/ RecogniseDone \/ BlockRename \/ Dispatch
  BY <1>4 DEF NothingToBuild, RecogniseDone, BlockRename, Dispatch,
              Orders, OrderDecided
<1>5. CASE Build \/ VerifyAny
  BY <1>5 DEF Build, VerifyAny, Verify
<1>6. CASE \/ BrainStops \/ BrainEscalates \/ BrainResets
           \/ SpecChangeApplied \/ SpecChangeRefused
  BY <1>6 DEF BrainStops, BrainEscalates, BrainResets, SpecChangeApplied,
              SpecChangeRefused
<1>. QED
  BY <1>1, <1>2, <1>3, <1>4, <1>5, <1>6 DEF Loop

\* Up to the end of the loop nothing is decided.
Undecided == pc \in Live \ {"finish"} => status = "running"

\* A terminal status is set once.
LEMMA UndecidedAlways == Spec => []Undecided
<1>1. Init => Undecided
  BY DEF Init, Undecided
<1>2. Undecided /\ [Next]_vars => Undecided'
  <2>. SUFFICES ASSUME Undecided, [Next]_vars PROVE Undecided'
    OBVIOUS
  <2>. USE DEF Undecided
  <2>1. CASE Finish
    BY <2>1 DEF Finish, Live
  <2>2. CASE Disturbance
    BY <2>2 DEF Disturbance, CreditExhausted, Stalled, Interrupted, Die, AbortWith, Live
  <2>3. CASE Resume
    BY <2>3 DEF Resume
  <2>4. CASE UNCHANGED vars
    BY <2>4 DEF vars
  <2>5. CASE Loop /\ ~Finish
    BY <2>5, LoopStaysLive
  <2>. QED
    BY <2>1, <2>2, <2>3, <2>4, <2>5 DEF Next
<1>. QED
  BY <1>1, <1>2, PTL DEF Spec

\* A run that is over says how it ended.
EndIsNamed == pc \in {"exit", "aborted"} => status \in Terminal

\* Outside the loop the status of the run is terminal, unless it died.
LEMMA EndIsNamedAlways == Spec => []EndIsNamed
<1>1. Init => EndIsNamed
  BY DEF Init, EndIsNamed
<1>2. TypeOK /\ EndIsNamed /\ [Next]_vars => EndIsNamed'
  <2>. SUFFICES ASSUME TypeOK, EndIsNamed, [Next]_vars PROVE EndIsNamed'
    OBVIOUS
  <2>. USE DEF EndIsNamed
  <2>1. CASE Finish
    BY <2>1 DEF Finish, TypeOK, Status, Terminal
  <2>2. CASE Disturbance
    BY <2>2 DEF Disturbance, CreditExhausted, Stalled, Interrupted, Die,
                AbortWith, TypeOK, Status, Terminal
  <2>3. CASE Resume
    BY <2>3 DEF Resume
  <2>4. CASE UNCHANGED vars
    BY <2>4 DEF vars
  <2>5. CASE Loop /\ ~Finish
    BY <2>5, LoopStaysLive DEF Live
  <2>. QED
    BY <2>1, <2>2, <2>3, <2>4, <2>5 DEF Next
<1>. QED
  BY <1>1, <1>2, TypeCorrect, PTL DEF Spec

(***************************************************************************)
(* Every step of the loop is a step, or a stutter, of RunLifecycle: the    *)
(* part of ImplementsLifecycle that no fairness is needed for.             *)
(***************************************************************************)
THEOREM LifecycleSafety ==
  Spec => Lifecycle!Init /\ [][Lifecycle!Next]_(Lifecycle!vars)
<1>0. Lifecycle!Units = Units /\ Lifecycle!Plan = Plan
  BY DEF Lifecycle!Units, Units, Lifecycle!Plan, Plan, Lifecycle!PlanState,
         PlanState
<1>1. Init => Lifecycle!Init
  BY <1>0 DEF Init, Lifecycle!Init, LifecycleStatus, Live, FreshPlan
<1>2. TypeOK /\ TypeOK' /\ EndIsNamed /\ Undecided /\ [Next]_vars
        => [Lifecycle!Next]_(Lifecycle!vars)
  <2>. SUFFICES ASSUME TypeOK, TypeOK', EndIsNamed, Undecided, [Next]_vars
                PROVE  [Lifecycle!Next]_(Lifecycle!vars)
    OBVIOUS
  <2>. USE DEF LifecycleStatus
  <2>0. plan' \in Plan
    BY DEF TypeOK
  <2>1. CASE Loop /\ ~Finish
    <3>1. /\ pc \in Live /\ pc' \in Live
          /\ status' = status \/ (status = "running" /\ status' \in Terminal)
      BY <2>1, LoopStaysLive DEF Undecided
    <3>2. Lifecycle!Work
      BY <1>0, <2>0, <3>1
         DEF Lifecycle!Work, Lifecycle!Decides, Lifecycle!Terminal, Terminal, Live
    <3>. QED
      BY <3>2 DEF Lifecycle!Next
  <2>2. CASE Finish
    <3>1. status' \in Terminal
      BY <2>2 DEF Finish, TypeOK, Status, Terminal
    <3>2. status' = "done" => Lifecycle!Settled(plan')
      BY <1>0, <2>2 DEF Finish, Lifecycle!Settled, SealPlan
    <3>3. Lifecycle!Conclude
      BY <1>0, <2>0, <2>2, <3>1, <3>2
         DEF Finish, Lifecycle!Conclude, Lifecycle!Decides, Lifecycle!Terminal, Terminal, Live
    <3>. QED
      BY <3>3 DEF Lifecycle!Next
  <2>3. CASE CreditExhausted \/ Stalled \/ Interrupted
    <3>1. PICK s \in Terminal : AbortWith(s) /\ pc \in Live
      BY <2>3 DEF CreditExhausted, Stalled, Interrupted, Terminal, Live
    <3>2. status' \in Terminal
      BY <3>1 DEF AbortWith, TypeOK, Status
    <3>3. Lifecycle!CutShort
      BY <3>1, <3>2
         DEF AbortWith, Lifecycle!CutShort, Lifecycle!Decides, Lifecycle!Terminal, Terminal, Live
    <3>. QED
      BY <3>3 DEF Lifecycle!Next
  <2>4. CASE Die
    <3>1. Lifecycle!Vanish
      BY <2>4 DEF Die, Lifecycle!Vanish, Live
    <3>. QED
      BY <3>1 DEF Lifecycle!Next
  <2>5. CASE Resume
    <3>1. LifecycleStatus # "running"
      BY <2>5 DEF Resume, EndIsNamed, Terminal, Live
    <3>2. Lifecycle!Settled(plan')
      BY <1>0, <2>5 DEF Resume, Inherited, Lifecycle!Settled
    <3>3. Lifecycle!Resume
      BY <1>0, <2>0, <2>5, <3>1, <3>2 DEF Resume, Lifecycle!Resume, Live
    <3>. QED
      BY <3>3 DEF Lifecycle!Next
  <2>6. CASE UNCHANGED vars
    BY <2>6 DEF vars, Lifecycle!vars
  <2>. QED
    BY <2>1, <2>2, <2>3, <2>4, <2>5, <2>6 DEF Next, Disturbance
<1>. QED
  BY <1>1, <1>2, TypeCorrect, EndIsNamedAlways, UndecidedAlways, PTL DEF Spec
==============================================================================
