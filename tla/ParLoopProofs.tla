---------------------------- MODULE ParLoopProofs ----------------------------
(***************************************************************************)
(* Proofs about ParLoop, for every number of units and of workers, every   *)
(* dependency relation and scope, and all bounds.                          *)
(*                                                                         *)
(* What the plan, the merge record, the checkpoints and main say of each   *)
(* other is in AnchorsKeep: going back to where a merged unit was merged   *)
(* loses no build of a unit the merge record knows, but for those merged   *)
(* since, which are built again.                                           *)
(***************************************************************************)
EXTENDS ParLoop, SchedulerProofs, SequenceTheorems

\* What is dispatched was ready when the list was made, and still is.
TodoIsReady ==
  pc = "dispatch" =>
    \A u \in todo : plan[u] = "pending" /\ Deps[u] \subseteq DoneUnits(plan)

\* Results are handled before anything else goes on.
BatchIsHandled == pc # "handle" => batch = {}

GateIsComplete == pc = "gate" => AllDone(plan)

CleanIsNoted == integAlt = 0 => clean = NoRef

\* The units _semantic_consumer_reset can account for: those it has an anchor
\* of and, as long as git has told every HEAD, all that are done.
Known(u) == ckpt[u] # NoRef \/ (refFaults = 0 /\ plan[u] = "done")

KnownIsOnMain == \A u \in Units : Known(u) => Within(u, main) \/ MissedByClean(u)

\* A merge of v is on record that no merge of s follows.
MergedSince(v, s) ==
  \E i \in DOMAIN mergeSeq :
    mergeSeq[i] = v /\ \A j \in DOMAIN mergeSeq : mergeSeq[j] = s => j <= i

AnchorsKeep ==
  \A s, v \in Units :
    ckpt[s] # NoRef /\ Known(v) =>
      MergedSince(v, s) \/ Within(v, ckpt[s]) \/ MissedByClean(v)

CleanIsComplete ==
  refFaults = 0 /\ clean # NoRef => \A u \in Units : Within(u, clean)

RecordInv == KnownIsOnMain /\ AnchorsKeep /\ CleanIsComplete

MainInv ==
  /\ TypeOK /\ BatchIsHandled
  /\ TodoIsReady /\ GateIsComplete /\ CleanIsNoted
  /\ RecordInv /\ DependenciesInBase

-----------------------------------------------------------------------------
(* The operators the actions are built from *)

\* The bounds are naturals, and unit ids are positive.
LEMMA Bounds ==
  /\ MaxParallel \in Nat /\ EffBurst \in Nat
  /\ UnitRetries \in Nat /\ OrAlternatives \in Nat
  /\ AttemptBudget \in Nat /\ MaxRefFaults \in Nat
  /\ Units \subseteq Nat /\ NoUnit \notin Units
BY SchedulerAssumption, ParLoopAssumption DEF EffBurst, Units, NoUnit

\* The head of a nonempty sorted list of ids is its least element.
LEMMA FirstIsLeast ==
  ASSUME NEW S \in SUBSET Nat, S # {}
  PROVE  First(S) \in S /\ \A v \in S : First(S) <= v
BY LeastExists DEF First

\* A merged unit has a last merge on record.
LEMMA LastMergeIsLast ==
  ASSUME mergeSeq \in Seq(Units), NEW s \in Merged
  PROVE  /\ LastMerge(s) \in DOMAIN mergeSeq
         /\ mergeSeq[LastMerge(s)] = s
         /\ \A j \in DOMAIN mergeSeq : mergeSeq[j] = s => j <= LastMerge(s)
<1>. DEFINE at    == {i \in DOMAIN mergeSeq : mergeSeq[i] = s}
            after == {Len(mergeSeq) - i : i \in at}
<1>1. DOMAIN mergeSeq = 1 .. Len(mergeSeq) /\ Len(mergeSeq) \in Nat
  OBVIOUS
<1>2. at # {} /\ at \subseteq 1 .. Len(mergeSeq)
  BY <1>1 DEF Merged
<1>3. after \in SUBSET Nat /\ after # {}
  BY <1>1, <1>2
<1>4. PICK d \in after : \A e \in after : d <= e
  BY <1>3, LeastExists
<1>5. PICK i \in at : d = Len(mergeSeq) - i
  OBVIOUS
<1>6. \A j \in at : j <= i
  <2>1. \A j \in at : Len(mergeSeq) - i <= Len(mergeSeq) - j
    BY <1>4, <1>5
  <2>. QED
    BY <1>1, <1>2, <2>1
<1>. QED
  BY <1>6 DEF LastMerge

\* The anchors of a unit are merges on record.
LEMMA AnchorsAreMerges ==
  ASSUME mergeSeq \in Seq(Units), NEW u
  PROVE  /\ Anchors(u) \subseteq DOMAIN mergeSeq
         /\ Anchors(u) \subseteq Nat
         /\ \A i \in Anchors(u) : /\ mergeSeq[i] \in Merged \cap Units
                                  /\ i = LastMerge(mergeSeq[i])
                                  /\ ckpt[mergeSeq[i]] # NoRef
<1>1. ASSUME NEW i \in Anchors(u)
      PROVE  /\ i \in DOMAIN mergeSeq
             /\ mergeSeq[i] \in Merged
             /\ i = LastMerge(mergeSeq[i])
             /\ ckpt[mergeSeq[i]] # NoRef
  <2>1. PICK s \in Consumers(u) \cap Merged : ckpt[s] # NoRef /\ i = LastMerge(s)
    BY DEF Anchors
  <2>2. i \in DOMAIN mergeSeq /\ mergeSeq[i] = s
    BY <2>1, LastMergeIsLast
  <2>. QED
    BY <2>1, <2>2
<1>2. DOMAIN mergeSeq = 1 .. Len(mergeSeq) /\ \A i \in DOMAIN mergeSeq : mergeSeq[i] \in Units
  OBVIOUS
<1>. QED
  BY <1>1, <1>2

\* No history of main is the missing commit.
LEMMA HistoriesAreRefs ==
  ASSUME NEW ref \in SUBSET Build
  PROVE  ref # NoRef
<1>1. <<NoUnit, 0>> \notin Build
  BY Bounds DEF Build
<1>. QED
  BY <1>1 DEF NoRef

\* What a result that is dealt with leaves well typed.
LEMMA HandledTypes ==
  ASSUME TypeOK, NEW u \in Units, NEW t \in {"none", "escalated"},
         pc = "handle", Handled(u, t)
  PROVE  /\ pc' \in Live
         /\ terminal' \in Terminal
         /\ status' = status /\ todo' = todo
         /\ work' \in [Units -> {"idle", "running", "pass", "fail", "credit"}]
         /\ (batch \subseteq Finished)'
         /\ total' \in Nat
         /\ built' = built /\ base' = base /\ integAlt' = integAlt
         /\ pc' \in {"handle", "ready", "wait"}
         /\ pc' # "handle" => batch' = {}
<1>. USE DEF TypeOK, Handled
<1>1. pc' \in {"handle", "ready", "wait"} /\ (pc' # "handle" => batch' = {})
  OBVIOUS
<1>2. terminal' \in Terminal
  BY DEF Terminal
<1>3. work' \in [Units -> {"idle", "running", "pass", "fail", "credit"}]
  OBVIOUS
<1>4. (batch \subseteq Finished)'
  BY DEF Finished
<1>. QED
  BY <1>1, <1>2, <1>3, <1>4 DEF Live, trees

-----------------------------------------------------------------------------
(* Types *)

\* What handle_outcome writes of the run's records, and of git.
RecordTypes ==
  /\ plan \in Plan
  /\ attempts \in [Units -> 0 .. UnitRetries]
  /\ alts \in [Units -> 0 .. OrAlternatives]
  /\ climbs \in [Units -> Nat]

GitTypes ==
  /\ main \subseteq Build
  /\ mergeSeq \in Seq(Units)
  /\ ckpt \in [Units -> (SUBSET Build) \cup {NoRef}]
  /\ resetDone \subseteq Units
  /\ clean \in (SUBSET Build) \cup {NoRef}
  /\ refFaults \in 0 .. MaxRefFaults
  /\ dropped \subseteq Build

\* Dealing with a result keeps types, if its records do.
LEMMA HandledKeepsTypes ==
  ASSUME TypeOK, NEW u \in Units, NEW t \in {"none", "escalated"},
         pc = "handle", Handled(u, t), RecordTypes', GitTypes',
         overspent' \subseteq Units
  PROVE  TypeOK' /\ BatchIsHandled'
<1>1. /\ pc' \in Live
      /\ terminal' \in Terminal
      /\ status' = status /\ todo' = todo
      /\ work' \in [Units -> {"idle", "running", "pass", "fail", "credit"}]
      /\ (batch \subseteq Finished)'
      /\ total' \in Nat
      /\ built' = built /\ base' = base /\ integAlt' = integAlt
      /\ pc' # "handle" => batch' = {}
  BY HandledTypes
<1>2. TypeOK'
  BY <1>1 DEF TypeOK, RecordTypes, GitTypes
<1>. QED
  BY <1>1, <1>2 DEF BatchIsHandled

\* The un-merge of consumers keeps git's side well typed.
LEMMA SemanticResetTypes ==
  ASSUME TypeOK, NEW u \in Units, SemanticReset(u)
  PROVE  RecordTypes' /\ GitTypes'
<1>. DEFINE cut == First(Anchors(u))
            s0  == mergeSeq[cut]
<1>1. mergeSeq \in Seq(Units) /\ Anchors(u) # {}
  BY DEF TypeOK, SemanticReset, MayResetConsumers
<1>2. Anchors(u) \subseteq Nat
  BY <1>1, AnchorsAreMerges
<1>3. cut \in Anchors(u)
  BY <1>1, <1>2, FirstIsLeast
<1>4. /\ s0 \in Units /\ ckpt[s0] # NoRef
      /\ cut \in 1 .. Len(mergeSeq)
  BY <1>1, <1>3, AnchorsAreMerges
<1>5. ckpt[s0] \subseteq Build
  BY <1>4 DEF TypeOK
<1>6. mergeSeq' \in Seq(Units)
  <2>1. mergeSeq' = SubSeq(mergeSeq, 1, cut - 1)
    BY DEF SemanticReset
  <2>2. \A i \in 1 .. cut - 1 : mergeSeq[i] \in Units
    BY <1>1, <1>4
  <2>. QED
    BY <1>4, <2>1, <2>2, SubSeqProperties
<1>7. main' \subseteq Build /\ dropped' \subseteq Build
  BY <1>5 DEF SemanticReset, TypeOK
<1>8. /\ ckpt' \in [Units -> (SUBSET Build) \cup {NoRef}]
      /\ plan' \in Plan
      /\ attempts' \in [Units -> 0 .. UnitRetries]
  BY Bounds DEF SemanticReset, TypeOK, Plan, PlanState
<1>9. /\ alts' = alts /\ resetDone' = resetDone \cup {u}
      /\ clean' = clean /\ refFaults' = refFaults
      /\ climbs' = [climbs EXCEPT ![u] = @ + 1]
  BY DEF SemanticReset
<1>10. RecordTypes'
  BY <1>8, <1>9 DEF RecordTypes, TypeOK
<1>11. GitTypes'
  BY <1>6, <1>7, <1>8, <1>9 DEF GitTypes, TypeOK
<1>. QED
  BY <1>10, <1>11

\* A merge keeps them well typed.
LEMMA MergeTypes ==
  ASSUME TypeOK, NEW u \in Units, Merge(u)
  PROVE  RecordTypes' /\ GitTypes'
<1>1. <<u, built[u]>> \in Build /\ base[u] \subseteq Build
  BY DEF TypeOK, Build
<1>2. main' \subseteq Build
  BY <1>1 DEF Merge, TypeOK
<1>3. PICK ref \in {main, NoRef} :
        /\ HeadIs(ref)
        /\ ckpt' = IF ref = NoRef THEN ckpt ELSE [ckpt EXCEPT ![u] = ref]
        /\ mergeSeq' = IF ref = NoRef THEN mergeSeq ELSE Append(mergeSeq, u)
  BY DEF Merge
<1>4. refFaults' \in 0 .. MaxRefFaults
  BY <1>3, Bounds DEF HeadIs, GitFails, TypeOK
<1>5. mergeSeq' \in Seq(Units)
  BY <1>3, AppendProperties DEF TypeOK
<1>6. ckpt' \in [Units -> (SUBSET Build) \cup {NoRef}]
  BY <1>3 DEF TypeOK
<1>7. plan' \in Plan
  BY DEF Merge, TypeOK, Plan, PlanState
<1>8. UNCHANGED <<attempts, alts, climbs, resetDone, clean, dropped>>
  BY DEF Merge
<1>. QED
  BY <1>2, <1>4, <1>5, <1>6, <1>7, <1>8 DEF RecordTypes, GitTypes, TypeOK

\* Handling a result keeps everything well typed.
LEMMA HandleOutcomeTypes ==
  ASSUME TypeOK, NEW u \in Units, HandleOutcome(u)
  PROVE  TypeOK' /\ BatchIsHandled'
<1>. USE Bounds DEF Result
<1>1. pc = "handle" /\ overspent' \subseteq Units
  <2>1. pc = "handle" /\ Spends(u)
    BY DEF HandleOutcome, GateFailRetries, GateFailAlternative,
           GateFailGivesUp, Merge, SemanticReset, ConflictRetries,
           ConflictGivesUp
  <2>. QED
    BY <2>1 DEF Spends, TypeOK
<1>2. ASSUME Retry(u)
      PROVE  TypeOK' /\ BatchIsHandled'
  <2>1. plan' \in Plan
    BY <1>2 DEF Retry, BackToPending, TypeOK, Plan, PlanState
  <2>2. attempts' \in [Units -> 0 .. UnitRetries]
    BY <1>2 DEF Retry, RetryLeft, TypeOK
  <2>3. alts' = alts /\ climbs' \in [Units -> Nat]
    BY <1>2 DEF Retry, TypeOK
  <2>4. RecordTypes'
    BY <2>1, <2>2, <2>3 DEF TypeOK, RecordTypes
  <2>5. GitTypes'
    BY <1>2 DEF Retry, git, TypeOK, GitTypes
  <2>. QED
    BY <1>1, <1>2, <2>4, <2>5, HandledKeepsTypes DEF Retry
<1>3. ASSUME GiveUp(u)
      PROVE  TypeOK' /\ BatchIsHandled'
  <2>1. RecordTypes'
    BY <1>3 DEF GiveUp, TypeOK, RecordTypes, Plan, PlanState
  <2>2. GitTypes'
    BY <1>3 DEF GiveUp, git, TypeOK, GitTypes
  <2>. QED
    BY <1>1, <1>3, <2>1, <2>2, HandledKeepsTypes DEF GiveUp
<1>4. CASE GateFailAlternative(u)
  <2>1. plan' \in Plan
    BY <1>4 DEF GateFailAlternative, BackToPending, TypeOK, Plan, PlanState
  <2>2. attempts' \in [Units -> 0 .. UnitRetries]
    BY <1>4 DEF GateFailAlternative, TypeOK
  <2>3. alts' \in [Units -> 0 .. OrAlternatives]
    BY <1>4 DEF GateFailAlternative, AlternativeLeft, TypeOK
  <2>4. climbs' \in [Units -> Nat]
    BY <1>4 DEF GateFailAlternative, TypeOK
  <2>5. RecordTypes'
    BY <2>1, <2>2, <2>3, <2>4 DEF RecordTypes
  <2>6. GitTypes'
    BY <1>4 DEF GateFailAlternative, git, TypeOK, GitTypes
  <2>. QED
    BY <1>1, <1>4, <2>5, <2>6, HandledKeepsTypes DEF GateFailAlternative
<1>5. CASE Merge(u)
  BY <1>1, <1>5, MergeTypes, HandledKeepsTypes DEF Merge
<1>6. CASE SemanticReset(u)
  BY <1>1, <1>6, SemanticResetTypes, HandledKeepsTypes DEF SemanticReset
<1>. QED
  BY <1>2, <1>3, <1>4, <1>5, <1>6
     DEF HandleOutcome, GateFailRetries, GateFailGivesUp, ConflictRetries,
         ConflictGivesUp

\* Dispatching a unit keeps everything well typed.
LEMMA DispatchTypes ==
  ASSUME TypeOK, BatchIsHandled, Dispatch
  PROVE  TypeOK' /\ BatchIsHandled'
<1>. DEFINE u == First(todo)
<1>1. u \in Units
  BY Bounds, FirstIsLeast DEF Dispatch, TypeOK
<1>2. /\ pc = "dispatch" /\ pc' = pc /\ batch = {} /\ batch' = {}
      /\ todo' \subseteq Units
      /\ built' = [built EXCEPT ![u] = @ + 1]
      /\ base' = [base EXCEPT ![u] = main]
      /\ plan' = [plan EXCEPT ![u] = "in_progress"]
      /\ work' = [work EXCEPT ![u] = "running"]
      /\ UNCHANGED <<terminal, status, total, attempts, alts, climbs,
                     overspent, main, mergeSeq, ckpt, resetDone, clean, refFaults, dropped,
                     integAlt>>
  BY DEF Dispatch, BatchIsHandled, TypeOK, counters, git
<1>3. plan' \in Plan
  BY <1>2 DEF TypeOK, Plan, PlanState
<1>4. built' \in [Units -> Nat] /\ base' \in [Units -> SUBSET Build]
  BY <1>1, <1>2 DEF TypeOK
<1>5. work' \in [Units -> {"idle", "running", "pass", "fail", "credit"}]
  BY <1>2 DEF TypeOK
<1>. QED
  BY <1>2, <1>3, <1>4, <1>5 DEF TypeOK, BatchIsHandled

\* Going back to the clean checkpoint keeps the git side well typed.
LEMMA BackToCleanTypes ==
  ASSUME TypeOK, BackToClean
  PROVE  /\ main' \subseteq Build /\ dropped' \subseteq Build
         /\ refFaults' \in 0 .. MaxRefFaults
<1>1. CASE clean # NoRef /\ main' = clean /\ dropped' = dropped \cup (main \ clean)
           /\ UNCHANGED refFaults
  <2>1. clean \subseteq Build
    BY <1>1 DEF TypeOK
  <2>. QED
    BY <1>1, <2>1 DEF TypeOK
<1>2. CASE /\ clean = NoRef \/ GitFails
           /\ clean = NoRef => UNCHANGED refFaults
           /\ UNCHANGED <<main, dropped>>
  BY <1>2, Bounds DEF TypeOK, GitFails
<1>. QED
  BY <1>1, <1>2 DEF BackToClean

\* So does an integration alternative.
LEMMA AlternativeTypes ==
  ASSUME TypeOK, BatchIsHandled, IntegrationAlternative
  PROVE  TypeOK' /\ BatchIsHandled'
<1>1. /\ main' \subseteq Build /\ dropped' \subseteq Build
      /\ refFaults' \in 0 .. MaxRefFaults
      /\ clean' \in (SUBSET Build) \cup {NoRef}
  <2>1. CASE integAlt = 0
    <3>1. PICK ref \in {main, NoRef} : HeadIs(ref) /\ clean' = ref
                                       /\ UNCHANGED <<main, dropped>>
      BY <2>1 DEF IntegrationAlternative
    <3>2. refFaults' \in 0 .. MaxRefFaults
      BY <3>1, Bounds DEF HeadIs, GitFails, TypeOK
    <3>. QED
      BY <3>1, <3>2 DEF TypeOK
  <2>2. CASE integAlt # 0
    <3>1. BackToClean /\ UNCHANGED clean
      BY <2>2 DEF IntegrationAlternative
    <3>. QED
      BY <3>1, BackToCleanTypes DEF TypeOK
  <2>. QED
    BY <2>1, <2>2
<1>2. PICK owners \in (SUBSET Units) \ {{}} :
        LET reset == owners \cup Dependents(owners) IN
        /\ plan' = [u \in Units |-> IF u \in reset THEN "pending" ELSE plan[u]]
        /\ attempts' = [u \in Units |-> IF u \in reset THEN 0 ELSE attempts[u]]
  BY DEF IntegrationAlternative
<1>3. plan' \in Plan /\ attempts' \in [Units -> 0 .. UnitRetries]
  BY <1>2, Bounds DEF TypeOK, Plan, PlanState
<1>4. /\ pc' \in Live /\ pc = "gate" /\ pc' = "ready"
      /\ integAlt' \in 0 .. OrAlternatives
      /\ UNCHANGED <<terminal, status, todo, work, batch, total, alts, climbs,
                     overspent, built, base, mergeSeq, ckpt, resetDone>>
  BY Bounds DEF IntegrationAlternative, TypeOK, trees, Live
<1>5. (batch \subseteq Finished)'
  BY <1>4 DEF TypeOK, Finished
<1>. QED
  BY <1>1, <1>3, <1>4, <1>5 DEF TypeOK, BatchIsHandled

\* No step leaves anything ill typed, nor a result of an earlier wait behind.
LEMMA NextTypes ==
  ASSUME TypeOK, BatchIsHandled, [Next]_vars
  PROVE  TypeOK' /\ BatchIsHandled'
<1>. USE DEF vars, counters, git, trees, Live, Terminal
<1>1. CASE OverBudget
  BY <1>1 DEF OverBudget, TypeOK, Finished, BatchIsHandled
<1>2. CASE BeginDispatch
  BY <1>2 DEF BeginDispatch, ReadyUnits, TypeOK, Finished, BatchIsHandled
<1>3. CASE PutOff
  BY <1>3 DEF PutOff, TypeOK, Finished, BatchIsHandled
<1>4. CASE Dispatch
  BY <1>4, DispatchTypes
<1>5. CASE NoOrder
  BY <1>5 DEF NoOrder, TypeOK, Finished, BatchIsHandled
<1>6. CASE EndDispatch
  BY <1>6 DEF EndDispatch, TypeOK, Finished, BatchIsHandled
<1>7. CASE Collect
  BY <1>7 DEF Collect, TypeOK, Finished, BatchIsHandled
<1>8. CASE RoundEnds
  BY <1>8 DEF RoundEnds, TypeOK, Finished, BatchIsHandled
<1>9. ASSUME NEW u \in Units, HandleOutcome(u)
      PROVE  TypeOK' /\ BatchIsHandled'
  BY <1>9, HandleOutcomeTypes
<1>10. CASE ExitOnTerminal
  BY <1>10 DEF ExitOnTerminal, Exit, StatusOf, TypeOK, Finished, BatchIsHandled
<1>11. CASE ExitStuck
  BY <1>11 DEF ExitStuck, Exit, TypeOK, Finished, BatchIsHandled
<1>12. CASE ToIntegration
  BY <1>12 DEF ToIntegration, TypeOK, Finished, BatchIsHandled
<1>13. CASE IntegrationPasses
  BY <1>13 DEF IntegrationPasses, Exit, TypeOK, Finished, BatchIsHandled
<1>14. CASE IntegrationAlternative
  BY <1>14, AlternativeTypes
<1>15. CASE IntegrationGivesUp
  <2>1. /\ main' \subseteq Build /\ dropped' \subseteq Build
        /\ refFaults' \in 0 .. MaxRefFaults
    BY <1>15, BackToCleanTypes DEF IntegrationGivesUp
  <2>. QED
    BY <1>15, <2>1 DEF IntegrationGivesUp, Exit, TypeOK, Finished, BatchIsHandled
<1>16. ASSUME NEW s \in {"stopped_credit", "escalated", "stopped_interrupted"},
              AbortWith(s)
       PROVE  TypeOK' /\ BatchIsHandled'
  BY <1>16 DEF AbortWith, TypeOK, Finished, BatchIsHandled
<1>17. CASE Dies
  BY <1>17 DEF Dies, AsksBrain, TypeOK, Finished, BatchIsHandled
<1>18. ASSUME NEW u \in Units, WorkerEnds(u)
       PROVE  TypeOK' /\ BatchIsHandled'
  <2>1. (batch \subseteq Finished)'
    BY <1>18 DEF WorkerEnds, TypeOK, Finished
  <2>. QED
    BY <1>18, <2>1 DEF WorkerEnds, TypeOK, BatchIsHandled
<1>19. CASE UNCHANGED vars
  BY <1>19 DEF TypeOK, Finished, BatchIsHandled
<1>. QED
  BY <1>1, <1>2, <1>3, <1>4, <1>5, <1>6, <1>7, <1>8, <1>9, <1>10, <1>11, <1>12,
     <1>13, <1>14, <1>15, <1>16, <1>17, <1>18, <1>19
     DEF Next, Main, CreditExhausted, BrainStalls, Interrupted

-----------------------------------------------------------------------------
(* The merge record, the checkpoints and main *)

\* Nothing is known after a step of what neither became done nor was anchored.
LEMMA StillKnown ==
  ASSUME TypeOK, TypeOK', NEW v \in Units,
         ckpt'[v] = ckpt[v], plan'[v] = "done" => plan[v] = "done",
         refFaults' >= refFaults, Known(v)'
  PROVE  Known(v)
BY DEF Known, TypeOK

\* Forgetting that units are done, or one more failure of git, loses nothing.
LEMMA ForgettingKeepsRecord ==
  ASSUME TypeOK, TypeOK', RecordInv,
         UNCHANGED <<main, mergeSeq, ckpt, clean>>,
         \A v \in Units : plan'[v] = "done" => plan[v] = "done",
         refFaults' >= refFaults
  PROVE  RecordInv'
<1>. USE DEF RecordInv
<1>1. \A v \in Units : Known(v)' => Known(v)
  BY StillKnown
<1>2. \A v \in Units : MissedByClean(v)' <=> MissedByClean(v)
  BY DEF MissedByClean, Within
<1>3. KnownIsOnMain'
  BY <1>1, <1>2 DEF KnownIsOnMain, Within
<1>4. AnchorsKeep'
  BY <1>1, <1>2 DEF AnchorsKeep, Within, MergedSince
<1>5. CleanIsComplete'
  BY DEF CleanIsComplete, Within, TypeOK
<1>. QED
  BY <1>3, <1>4, <1>5

\* Append keeps what was on record and puts the new merge after it.
LEMMA MergeIsLast ==
  ASSUME mergeSeq \in Seq(Units), NEW u \in Units,
         mergeSeq' = Append(mergeSeq, u)
  PROVE  /\ \A s \in Units : MergedSince(u, s)'
         /\ \A s \in Units \ {u}, v \in Units :
              MergedSince(v, s) => MergedSince(v, s)'
<1>. DEFINE n == Len(mergeSeq)
<1>1. /\ n \in Nat /\ DOMAIN mergeSeq = 1 .. n
      /\ mergeSeq' \in Seq(Units) /\ Len(mergeSeq') = n + 1
      /\ \A i \in 1 .. n : mergeSeq'[i] = mergeSeq[i]
      /\ mergeSeq'[n + 1] = u
  BY AppendProperties
<1>2. DOMAIN mergeSeq' = 1 .. n + 1
  BY <1>1
<1>3. \A s \in Units : MergedSince(u, s)'
  <2>1. n + 1 \in DOMAIN mergeSeq' /\ \A j \in DOMAIN mergeSeq' : j <= n + 1
    BY <1>1, <1>2
  <2>. QED
    BY <1>1, <2>1 DEF MergedSince
<1>4. ASSUME NEW s \in Units \ {u}, NEW v \in Units, MergedSince(v, s)
      PROVE  MergedSince(v, s)'
  <2>1. PICK i \in DOMAIN mergeSeq :
          mergeSeq[i] = v /\ \A j \in DOMAIN mergeSeq : mergeSeq[j] = s => j <= i
    BY <1>4 DEF MergedSince
  <2>2. i \in DOMAIN mergeSeq' /\ mergeSeq'[i] = v
    BY <1>1, <1>2, <2>1
  <2>3. ASSUME NEW j \in DOMAIN mergeSeq', mergeSeq'[j] = s
        PROVE  j <= i
    <3>1. j \in 1 .. n
      BY <1>1, <1>2, <2>3
    <3>. QED
      BY <1>1, <2>1, <2>3, <3>1
  <2>. QED
    BY <2>2, <2>3 DEF MergedSince
<1>. QED
  BY <1>3, <1>4

(***************************************************************************)
(* A merge: the unit's anchor is main as it was, which holds all that is   *)
(* known; without an anchor git has failed, and u is not known.            *)
(***************************************************************************)
LEMMA MergeKeepsRecord ==
  ASSUME TypeOK, TypeOK', RecordInv, NEW u \in Units, Merge(u)
  PROVE  RecordInv'
<1>. USE DEF RecordInv
<1>1. PICK ref \in {main, NoRef} :
        /\ HeadIs(ref)
        /\ ckpt' = IF ref = NoRef THEN ckpt ELSE [ckpt EXCEPT ![u] = ref]
        /\ mergeSeq' = IF ref = NoRef THEN mergeSeq ELSE Append(mergeSeq, u)
  BY DEF Merge
<1>2. /\ main' = main \cup base[u] \cup {<<u, built[u]>>}
      /\ plan' = [plan EXCEPT ![u] = "done"]
      /\ clean' = clean
  BY DEF Merge
<1>3. Within(u, main)' /\ \A v \in Units : Within(v, main) => Within(v, main)'
  <2>1. <<u, built[u]>> \in main' /\ <<u, built[u]>>[1] = u
    BY <1>2
  <2>2. main \subseteq main'
    BY <1>2
  <2>. QED
    BY <2>1, <2>2 DEF Within
<1>4. \A v \in Units : MissedByClean(v)' <=> MissedByClean(v)
  BY <1>2 DEF MissedByClean, Within
<1>5. \A v \in Units \ {u} : plan'[v] = plan[v] /\ ckpt'[v] = ckpt[v]
  BY <1>1, <1>2 DEF TypeOK, Plan
<1>6. refFaults' >= refFaults /\ (ref = NoRef => refFaults' > 0)
  <2>1. main # NoRef
    BY HistoriesAreRefs DEF TypeOK
  <2>. QED
    BY <1>1, <2>1, Bounds DEF HeadIs, GitFails, TypeOK
<1>7. \A v \in Units \ {u} : Known(v)' => Known(v)
  BY <1>5, <1>6, StillKnown
<1>8. KnownIsOnMain'
  BY <1>3, <1>4, <1>7 DEF KnownIsOnMain
<1>9. CleanIsComplete'
  BY <1>2, <1>6 DEF CleanIsComplete, Within, TypeOK
<1>10. CASE ref = NoRef
  <2>1. ckpt' = ckpt /\ mergeSeq' = mergeSeq
    BY <1>1, <1>10
  <2>2. \A v \in Units : Known(v)' => Known(v)
    BY <1>6, <1>10, <2>1 DEF Known
  <2>3. AnchorsKeep'
    BY <1>4, <2>1, <2>2 DEF AnchorsKeep, MergedSince, Within
  <2>. QED
    BY <1>8, <1>9, <2>3
<1>11. CASE ref # NoRef
  <2>1. /\ ref = main /\ mergeSeq' = Append(mergeSeq, u)
        /\ ckpt'[u] = main
    BY <1>1, <1>11 DEF TypeOK
  <2>2. /\ \A s \in Units : MergedSince(u, s)'
        /\ \A s \in Units \ {u}, v \in Units :
             MergedSince(v, s) => MergedSince(v, s)'
    BY <2>1, MergeIsLast DEF TypeOK
  <2>3. ASSUME NEW s \in Units, NEW v \in Units, ckpt'[s] # NoRef, Known(v)'
        PROVE  MergedSince(v, s)' \/ Within(v, ckpt[s])' \/ MissedByClean(v)'
    <3>1. CASE v = u
      BY <2>2, <3>1
    <3>2. CASE v # u /\ s = u
      <4>1. Within(v, main) \/ MissedByClean(v)
        BY <1>7, <2>3, <3>2 DEF KnownIsOnMain
      <4>. QED
        BY <1>4, <2>1, <3>2, <4>1 DEF Within
    <3>3. CASE v # u /\ s # u
      <4>1. MergedSince(v, s) \/ Within(v, ckpt[s]) \/ MissedByClean(v)
        BY <1>5, <1>7, <2>3, <3>3 DEF AnchorsKeep
      <4>. QED
        BY <1>4, <1>5, <2>2, <3>3, <4>1 DEF Within
    <3>. QED
      BY <3>1, <3>2, <3>3
  <2>4. AnchorsKeep'
    BY <2>3 DEF AnchorsKeep
  <2>. QED
    BY <1>8, <1>9, <2>4
<1>. QED
  BY <1>10, <1>11

(***************************************************************************)
(* _semantic_consumer_reset: main goes back to before the merge at         *)
(* position cut, and whatever was merged from there on is built again: all *)
(* else that is known was there by then.                                   *)
(***************************************************************************)
LEMMA SemanticResetKeepsRecord ==
  ASSUME TypeOK, TypeOK', RecordInv, NEW u \in Units, SemanticReset(u)
  PROVE  RecordInv'
<1>. USE DEF RecordInv
<1>. DEFINE cut   == First(Anchors(u))
            s0    == mergeSeq[cut]
            reset == Unmerged(u, cut)
<1>1. /\ main' = ckpt[s0]
      /\ mergeSeq' = SubSeq(mergeSeq, 1, cut - 1)
      /\ ckpt' = [v \in Units |-> IF v \in reset THEN NoRef ELSE ckpt[v]]
      /\ plan' = [v \in Units |-> IF v \in reset THEN "pending" ELSE plan[v]]
      /\ clean' = clean /\ refFaults' = refFaults
  BY DEF SemanticReset
<1>2. mergeSeq \in Seq(Units) /\ Anchors(u) # {}
  BY DEF TypeOK, SemanticReset, MayResetConsumers
<1>3. cut \in Anchors(u)
  <2>1. Anchors(u) \subseteq Nat
    BY <1>2, AnchorsAreMerges
  <2>. QED
    BY <1>2, <2>1, FirstIsLeast
<1>4. /\ s0 \in Units /\ s0 \in Merged /\ ckpt[s0] # NoRef
      /\ cut = LastMerge(s0)
      /\ cut \in DOMAIN mergeSeq
  BY <1>2, <1>3, AnchorsAreMerges
<1>5. /\ cut \in Nat /\ Len(mergeSeq) \in Nat
      /\ DOMAIN mergeSeq = 1 .. Len(mergeSeq) /\ cut \in 1 .. Len(mergeSeq)
  BY <1>2, <1>4
<1>6. \A i \in DOMAIN mergeSeq : i >= cut => mergeSeq[i] \in reset
  BY <1>5 DEF Unmerged
<1>7. ASSUME NEW v \in Units, v \in reset
      PROVE  ckpt'[v] = NoRef /\ ~Known(v)'
  BY <1>1, <1>7 DEF Known
<1>8. ASSUME NEW v \in Units, Known(v)'
      PROVE  v \notin reset /\ Known(v)
  <2>1. v \notin reset
    BY <1>7, <1>8
  <2>2. ckpt'[v] = ckpt[v] /\ plan'[v] = plan[v]
    BY <1>1, <2>1
  <2>. QED
    BY <1>1, <1>8, <2>1, <2>2 DEF Known
<1>9. ASSUME NEW v \in Units, v \notin reset
      PROVE  ~MergedSince(v, s0)
  <2>1. SUFFICES ASSUME NEW i \in DOMAIN mergeSeq, mergeSeq[i] = v,
                        \A j \in DOMAIN mergeSeq : mergeSeq[j] = s0 => j <= i
                 PROVE  FALSE
    BY DEF MergedSince
  <2>2. cut <= i
    BY <1>4, <2>1
  <2>. QED
    BY <1>5, <1>6, <1>9, <2>1, <2>2
<1>10. \A v \in Units : MissedByClean(v)' <=> MissedByClean(v)
  BY <1>1 DEF MissedByClean, Within
<1>11. KnownIsOnMain'
  <2>1. ASSUME NEW v \in Units, Known(v)'
        PROVE  Within(v, main)' \/ MissedByClean(v)'
    <3>1. Within(v, ckpt[s0]) \/ MissedByClean(v)
      BY <1>4, <1>8, <1>9, <2>1 DEF AnchorsKeep
    <3>. QED
      BY <1>1, <1>10, <3>1 DEF Within
  <2>. QED
    BY <2>1 DEF KnownIsOnMain
<1>12. /\ DOMAIN mergeSeq' = 1 .. cut - 1
       /\ \A i \in 1 .. cut - 1 : mergeSeq'[i] = mergeSeq[i]
  <2>1. \A i \in 1 .. cut - 1 : mergeSeq[i] \in Units
    BY <1>2, <1>5
  <2>2. /\ mergeSeq' \in Seq(Units)
        /\ Len(mergeSeq') = cut - 1
        /\ \A i \in 1 .. cut - 1 : mergeSeq'[i] = mergeSeq[i]
    BY <1>1, <1>5, <2>1, SubSeqProperties
  <2>. QED
    BY <2>2
<1>13. ASSUME NEW s \in Units, NEW v \in Units, v \notin reset, MergedSince(v, s)
       PROVE  MergedSince(v, s)'
  <2>1. PICK i \in DOMAIN mergeSeq :
          mergeSeq[i] = v /\ \A j \in DOMAIN mergeSeq : mergeSeq[j] = s => j <= i
    BY <1>13 DEF MergedSince
  <2>2. i \in 1 .. cut - 1
    BY <1>5, <1>6, <1>13, <2>1
  <2>3. \A j \in DOMAIN mergeSeq' : mergeSeq'[j] = s => j <= i
    BY <1>5, <1>12, <2>1
  <2>. QED
    BY <1>12, <2>1, <2>2, <2>3 DEF MergedSince
<1>14. AnchorsKeep'
  <2>1. ASSUME NEW s \in Units, NEW v \in Units, ckpt'[s] # NoRef, Known(v)'
        PROVE  MergedSince(v, s)' \/ Within(v, ckpt[s])' \/ MissedByClean(v)'
    <3>1. ckpt'[s] = ckpt[s]
      BY <1>1, <1>7, <2>1
    <3>2. MergedSince(v, s) \/ Within(v, ckpt[s]) \/ MissedByClean(v)
      BY <1>8, <2>1, <3>1 DEF AnchorsKeep
    <3>. QED
      BY <1>8, <1>10, <1>13, <2>1, <3>1, <3>2 DEF Within
  <2>. QED
    BY <2>1 DEF AnchorsKeep
<1>15. CleanIsComplete'
  BY <1>1 DEF CleanIsComplete, Within
<1>. QED
  BY <1>11, <1>14, <1>15

\* Going back to the clean checkpoint: what it missed is exempt.
LEMMA BackToCleanKeepsRecord ==
  ASSUME TypeOK, TypeOK', RecordInv, BackToClean,
         UNCHANGED <<mergeSeq, ckpt, clean>>,
         \A v \in Units : plan'[v] = "done" => plan[v] = "done"
  PROVE  RecordInv'
<1>. USE DEF RecordInv
<1>1. CASE clean # NoRef /\ main' = clean /\ UNCHANGED refFaults
  <2>1. ASSUME NEW v \in Units, Known(v)'
        PROVE  Known(v)
    <3>1. ckpt'[v] = ckpt[v] /\ refFaults' >= refFaults
      BY <1>1 DEF TypeOK
    <3>. QED
      BY <2>1, <3>1, StillKnown
  <2>2. \A v \in Units : MissedByClean(v)' <=> MissedByClean(v)
    BY DEF MissedByClean, Within
  <2>3. KnownIsOnMain'
    BY <1>1, <2>2 DEF KnownIsOnMain, MissedByClean, Within
  <2>4. AnchorsKeep'
    BY <2>1, <2>2 DEF AnchorsKeep, Within, MergedSince
  <2>5. CleanIsComplete'
    BY <1>1 DEF CleanIsComplete, Within
  <2>. QED
    BY <2>3, <2>4, <2>5
<1>2. CASE /\ clean = NoRef \/ GitFails
           /\ clean = NoRef => UNCHANGED refFaults
           /\ UNCHANGED <<main, dropped>>
  <2>1. refFaults' >= refFaults
    BY <1>2, Bounds DEF GitFails, TypeOK
  <2>. QED
    BY <1>2, <2>1, ForgettingKeepsRecord
<1>. QED
  BY <1>1, <1>2 DEF BackToClean

(***************************************************************************)
(* The first integration alternative notes main as the clean checkpoint:   *)
(* every unit is done by then, and if git never failed every one is on it. *)
(***************************************************************************)
LEMMA AlternativeKeepsRecord ==
  ASSUME TypeOK, TypeOK', RecordInv, GateIsComplete, CleanIsNoted,
         IntegrationAlternative
  PROVE  RecordInv'
<1>. USE DEF RecordInv
<1>1. /\ \A v \in Units : plan'[v] = "done" => plan[v] = "done"
      /\ UNCHANGED <<mergeSeq, ckpt>>
  BY DEF IntegrationAlternative
<1>2. CASE integAlt # 0
  BY <1>1, <1>2, BackToCleanKeepsRecord DEF IntegrationAlternative
<1>3. CASE integAlt = 0
  <2>1. PICK ref \in {main, NoRef} : HeadIs(ref) /\ clean' = ref
                                     /\ UNCHANGED <<main, dropped>>
    BY <1>3 DEF IntegrationAlternative
  <2>2. clean = NoRef /\ \A v \in Units : ~MissedByClean(v)
    BY <1>3 DEF CleanIsNoted, MissedByClean
  <2>3. CASE ref = NoRef
    <3>1. refFaults' >= refFaults
      BY <2>1, Bounds DEF HeadIs, GitFails, TypeOK
    <3>. QED
      BY <1>1, <2>1, <2>2, <2>3, <3>1, ForgettingKeepsRecord
  <2>4. CASE ref = main /\ ref # NoRef
    <3>1. clean' = main /\ main' = main /\ refFaults' = refFaults
      BY <2>1, <2>4 DEF HeadIs
    <3>2. \A v \in Units : Known(v)' => Known(v)
      BY <1>1, <3>1 DEF Known
    <3>3. \A v \in Units : Known(v) => Within(v, main)
      BY <2>2 DEF KnownIsOnMain
    <3>4. KnownIsOnMain'
      BY <3>1, <3>2, <3>3 DEF KnownIsOnMain, Within
    <3>5. AnchorsKeep'
      BY <1>1, <2>2, <3>2 DEF AnchorsKeep, MergedSince, Within
    <3>6. CleanIsComplete'
      <4>1. \A v \in Units : plan[v] = "done"
        <5>1. pc = "gate"
          BY DEF IntegrationAlternative
        <5>. QED
          BY <5>1 DEF GateIsComplete, AllDone
      <4>. QED
        BY <3>1, <3>3, <4>1 DEF CleanIsComplete, Known, Within
    <3>. QED
      BY <3>4, <3>5, <3>6
  <2>. QED
    BY <2>1, <2>3, <2>4
<1>. QED
  BY <1>2, <1>3

-----------------------------------------------------------------------------
(* The inductive invariant *)

\* git never un-fails.
LEMMA RefFaultsGrow ==
  ASSUME TypeOK, NEW ref, HeadIs(ref) \/ BackToClean
  PROVE  refFaults' >= refFaults
BY Bounds DEF HeadIs, BackToClean, GitFails, TypeOK

\* Units that are not dispatched keep what they were branched from.
LEMMA BasesKept ==
  ASSUME TypeOK, TypeOK', DependenciesInBase, base' = base, InFlight' \subseteq InFlight,
         refFaults' >= refFaults
  PROVE  DependenciesInBase'
<1>1. refFaults > 0 => refFaults' > 0
  BY DEF TypeOK
<1>. QED
  BY <1>1 DEF DependenciesInBase, Within

\* A step that writes neither plan nor git and dispatches nothing.
LEMMA QuietStep ==
  ASSUME MainInv, TypeOK', BatchIsHandled',
         UNCHANGED <<plan, main, mergeSeq, ckpt, clean, refFaults, base, integAlt>>,
         InFlight' \subseteq InFlight,
         pc' = "dispatch" => pc = "dispatch" /\ todo' \subseteq todo,
         pc' = "gate" => pc = "gate"
  PROVE  MainInv'
<1>. refFaults' >= refFaults
  BY DEF MainInv, TypeOK
<1>1. RecordInv'
  BY ForgettingKeepsRecord DEF MainInv
<1>2. DependenciesInBase'
  BY BasesKept DEF MainInv
<1>3. TodoIsReady' /\ GateIsComplete' /\ CleanIsNoted'
  BY DEF MainInv, TodoIsReady, GateIsComplete, CleanIsNoted, DoneUnits, AllDone
<1>. QED
  BY <1>1, <1>2, <1>3 DEF MainInv

(***************************************************************************)
(* Dispatch: what the unit depends on is done; if git never failed it is   *)
(* therefore known, on main, and the clean checkpoint misses nothing.      *)
(***************************************************************************)
LEMMA DispatchKeepsMainInv ==
  ASSUME MainInv, TypeOK', BatchIsHandled', Dispatch
  PROVE  MainInv'
<1>. DEFINE u == First(todo)
<1>1. /\ pc = "dispatch" /\ pc' = "dispatch" /\ todo' = todo \ {u}
      /\ base' = [base EXCEPT ![u] = main]
      /\ plan' = [plan EXCEPT ![u] = "in_progress"]
      /\ work' = [work EXCEPT ![u] = "running"]
      /\ UNCHANGED <<main, mergeSeq, ckpt, clean, refFaults, integAlt>>
  BY DEF Dispatch, MainInv, TypeOK, git
<1>2. u \in Units /\ u \in todo
  BY Bounds, FirstIsLeast DEF Dispatch, MainInv, TypeOK
<1>3. plan[u] = "pending" /\ Deps[u] \subseteq DoneUnits(plan)
  BY <1>1, <1>2 DEF MainInv, TodoIsReady
<1>4. \A v \in Units : plan'[v] = "done" <=> plan[v] = "done"
  BY <1>1, <1>2, <1>3 DEF MainInv, TypeOK, Plan
<1>5. RecordInv'
  <2>1. refFaults' >= refFaults
    BY <1>1 DEF MainInv, TypeOK
  <2>. QED
    BY <1>1, <1>4, <2>1, ForgettingKeepsRecord DEF MainInv
<1>6. TodoIsReady'
  <2>1. DoneUnits(plan)' = DoneUnits(plan)
    BY <1>4 DEF DoneUnits
  <2>2. \A v \in todo' : plan'[v] = "pending" /\ Deps[v] \subseteq DoneUnits(plan)
    BY <1>1 DEF MainInv, TypeOK, TodoIsReady, Plan
  <2>. QED
    BY <2>1, <2>2 DEF TodoIsReady
<1>7. DependenciesInBase'
  <2>1. SUFFICES ASSUME NEW v \in InFlight', NEW d \in Deps[v] \cap Units,
                        refFaults = 0
                 PROVE  Within(d, base'[v])
    <3>1. refFaults \in Nat /\ refFaults' = refFaults
      BY <1>1, Bounds DEF MainInv, TypeOK
    <3>. QED
      BY <2>1, <3>1 DEF DependenciesInBase, Within
  <2>2. CASE v = u
    <3>1. plan[d] = "done"
      BY <1>3, <2>2 DEF DoneUnits
    <3>2. Within(d, main) \/ MissedByClean(d)
      BY <2>1, <3>1 DEF MainInv, RecordInv, KnownIsOnMain, Known
    <3>3. ~MissedByClean(d)
      BY <2>1 DEF MainInv, RecordInv, CleanIsComplete, MissedByClean
    <3>4. base'[v] = main
      BY <1>1, <1>2, <2>2 DEF MainInv, TypeOK
    <3>. QED
      BY <3>2, <3>3, <3>4
  <2>3. CASE v # u
    <3>1. v \in InFlight /\ base'[v] = base[v]
      BY <1>1, <2>1, <2>3 DEF InFlight, MainInv, TypeOK
    <3>. QED
      BY <2>1, <3>1 DEF MainInv, DependenciesInBase
  <2>. QED
    BY <2>2, <2>3
<1>8. GateIsComplete' /\ CleanIsNoted'
  BY <1>1 DEF MainInv, GateIsComplete, CleanIsNoted
<1>. QED
  BY <1>5, <1>6, <1>7, <1>8 DEF MainInv

\* Handling a result.
LEMMA HandleOutcomeKeepsMainInv ==
  ASSUME MainInv, TypeOK', BatchIsHandled', NEW u \in Units, HandleOutcome(u)
  PROVE  MainInv'
<1>1. ASSUME NEW t \in {"none", "escalated"}, pc = "handle", Handled(u, t),
             clean' = clean, refFaults' >= refFaults, RecordInv'
      PROVE  MainInv'
  <2>1. pc' \in {"handle", "ready", "wait"} /\ base' = base /\ integAlt' = integAlt
    BY <1>1, HandledTypes DEF MainInv
  <2>2. work' = [work EXCEPT ![u] = "idle"]
    BY <1>1 DEF Handled
  <2>3. InFlight' \subseteq InFlight
    BY <2>2 DEF InFlight, MainInv, TypeOK
  <2>4. DependenciesInBase'
    BY <1>1, <2>1, <2>3, BasesKept DEF MainInv
  <2>5. TodoIsReady' /\ GateIsComplete' /\ CleanIsNoted'
    BY <1>1, <2>1 DEF MainInv, TodoIsReady, GateIsComplete, CleanIsNoted
  <2>. QED
    BY <1>1, <2>4, <2>5 DEF MainInv
<1>2. ASSUME NEW t \in {"none", "escalated"}, pc = "handle", Handled(u, t),
             UNCHANGED git, plan' \in {[plan EXCEPT ![u] = "pending"],
                                       [plan EXCEPT ![u] = "failed"]}
      PROVE  MainInv'
  <2>1. \A v \in Units : plan'[v] = "done" => plan[v] = "done"
    BY <1>2 DEF MainInv, TypeOK, Plan
  <2>2. refFaults' >= refFaults
    BY <1>2 DEF git, MainInv, TypeOK
  <2>3. RecordInv'
    BY <1>2, <2>1, <2>2, ForgettingKeepsRecord DEF git, MainInv
  <2>. QED
    BY <1>1, <1>2, <2>2, <2>3 DEF git
<1>3. pc = "handle"
  BY DEF HandleOutcome, GateFailRetries, GateFailAlternative, GateFailGivesUp,
         Merge, SemanticReset, ConflictRetries, ConflictGivesUp, Result
<1>4. CASE Merge(u)
  <2>1. RecordInv'
    BY <1>4, MergeKeepsRecord DEF MainInv
  <2>2. refFaults' >= refFaults
    BY <1>4, RefFaultsGrow DEF Merge, MainInv
  <2>. QED
    BY <1>1, <1>3, <1>4, <2>1, <2>2 DEF Merge
<1>5. CASE SemanticReset(u)
  <2>1. RecordInv'
    BY <1>5, SemanticResetKeepsRecord DEF MainInv
  <2>2. Handled(u, "none") /\ clean' = clean /\ refFaults' = refFaults
    BY <1>5 DEF SemanticReset
  <2>3. refFaults' >= refFaults
    BY <2>2 DEF MainInv, TypeOK
  <2>. QED
    BY <1>1, <1>3, <2>1, <2>2, <2>3
<1>6. CASE GateFailAlternative(u)
  BY <1>2, <1>3, <1>6 DEF GateFailAlternative, BackToPending
<1>7. CASE Retry(u)
  BY <1>2, <1>3, <1>7 DEF Retry, BackToPending
<1>8. CASE GiveUp(u)
  BY <1>2, <1>3, <1>8 DEF GiveUp
<1>. QED
  BY <1>4, <1>5, <1>6, <1>7, <1>8
     DEF HandleOutcome, GateFailRetries, GateFailGivesUp, ConflictRetries,
         ConflictGivesUp

\* Every step.
LEMMA NextKeepsMainInv ==
  ASSUME MainInv, [Next]_vars
  PROVE  MainInv'
<1>. USE DEF vars, counters, git, trees
<1>1. TypeOK' /\ BatchIsHandled'
  BY NextTypes DEF MainInv
<1>2. ASSUME OverBudget \/ PutOff \/ NoOrder \/ EndDispatch \/ Collect
             \/ ExitOnTerminal \/ ExitStuck \/ IntegrationPasses \/ Dies
             \/ UNCHANGED vars
      PROVE  MainInv'
  <2>1. /\ UNCHANGED <<plan, main, mergeSeq, ckpt, clean, refFaults, base,
                       integAlt, work>>
        /\ pc' = "dispatch" => pc = "dispatch" /\ todo' \subseteq todo
        /\ pc' = "gate" => pc = "gate"
    BY <1>2 DEF OverBudget, PutOff, NoOrder, EndDispatch, Collect,
                ExitOnTerminal, ExitStuck, IntegrationPasses, Exit, Dies
  <2>2. InFlight' \subseteq InFlight
    BY <2>1 DEF InFlight
  <2>. QED
    BY <1>1, <2>1, <2>2, QuietStep
<1>3. ASSUME NEW s, RoundEnds \/ AbortWith(s)
      PROVE  MainInv'
  <2>1. InFlight' \subseteq InFlight
    BY <1>3 DEF RoundEnds, AbortWith, InFlight
  <2>. QED
    BY <1>1, <1>3, <2>1, QuietStep DEF RoundEnds, AbortWith
<1>4. ASSUME NEW u \in Units, WorkerEnds(u)
      PROVE  MainInv'
  <2>1. InFlight' \subseteq InFlight
    BY <1>4 DEF WorkerEnds, InFlight, MainInv, TypeOK
  <2>. QED
    BY <1>1, <1>4, <2>1, QuietStep DEF WorkerEnds
<1>5. CASE BeginDispatch
  <2>1. TodoIsReady'
    BY <1>5 DEF BeginDispatch, TodoIsReady, ReadyUnits, DoneUnits
  <2>2. RecordInv'
    <3>1. /\ UNCHANGED <<main, mergeSeq, ckpt, clean, plan>>
          /\ refFaults' = refFaults
      BY <1>5 DEF BeginDispatch
    <3>2. refFaults \in Nat
      BY Bounds DEF MainInv, TypeOK
    <3>3. TypeOK /\ RecordInv /\ refFaults' >= refFaults
      BY <3>1, <3>2 DEF MainInv
    <3>. QED
      BY <1>1, <3>1, <3>3, ForgettingKeepsRecord
  <2>3. DependenciesInBase'
    BY <1>1, <1>5, BasesKept DEF BeginDispatch, MainInv, TypeOK, InFlight
  <2>4. GateIsComplete' /\ CleanIsNoted'
    BY <1>5 DEF BeginDispatch, MainInv, GateIsComplete, CleanIsNoted
  <2>. QED
    BY <1>1, <2>1, <2>2, <2>3, <2>4 DEF MainInv
<1>6. CASE ToIntegration
  <2>1. GateIsComplete' /\ CleanIsNoted' /\ TodoIsReady'
    BY <1>6 DEF ToIntegration, MainInv, GateIsComplete, AllDone, CleanIsNoted,
                TodoIsReady
  <2>2. RecordInv'
    <3>1. /\ UNCHANGED <<main, mergeSeq, ckpt, clean, plan>>
          /\ refFaults' = refFaults
      BY <1>6 DEF ToIntegration
    <3>2. refFaults \in Nat
      BY Bounds DEF MainInv, TypeOK
    <3>3. TypeOK /\ RecordInv /\ refFaults' >= refFaults
      BY <3>1, <3>2 DEF MainInv
    <3>. QED
      BY <1>1, <3>1, <3>3, ForgettingKeepsRecord
  <2>3. DependenciesInBase'
    <3>1. /\ base' = base /\ InFlight' = InFlight
          /\ refFaults' = refFaults /\ refFaults \in Nat
      BY <1>6, Bounds DEF ToIntegration, MainInv, TypeOK, InFlight
    <3>. QED
      BY <1>1, <3>1, BasesKept DEF MainInv
  <2>. QED
    BY <1>1, <2>1, <2>2, <2>3 DEF MainInv
<1>7. CASE Dispatch
  BY <1>1, <1>7, DispatchKeepsMainInv
<1>8. ASSUME NEW u \in Units, HandleOutcome(u)
      PROVE  MainInv'
  BY <1>1, <1>8, HandleOutcomeKeepsMainInv
<1>9. CASE IntegrationAlternative
  <2>1. RecordInv'
    BY <1>1, <1>9, AlternativeKeepsRecord DEF MainInv
  <2>2. refFaults' >= refFaults
    BY <1>9, RefFaultsGrow DEF IntegrationAlternative, MainInv
  <2>3. DependenciesInBase'
    BY <1>1, <1>9, <2>2, BasesKept DEF IntegrationAlternative, MainInv, InFlight
  <2>4. integAlt' # 0
    BY <1>9, Bounds DEF IntegrationAlternative, MainInv, TypeOK
  <2>5. GateIsComplete' /\ CleanIsNoted' /\ TodoIsReady'
    BY <1>9, <2>4 DEF IntegrationAlternative, GateIsComplete, CleanIsNoted,
                      TodoIsReady
  <2>. QED
    BY <1>1, <2>1, <2>3, <2>5 DEF MainInv
<1>10. CASE IntegrationGivesUp
  <2>1. RecordInv'
    BY <1>1, <1>10, BackToCleanKeepsRecord DEF IntegrationGivesUp, MainInv
  <2>2. refFaults' >= refFaults
    BY <1>10, RefFaultsGrow DEF IntegrationGivesUp, MainInv
  <2>3. DependenciesInBase'
    BY <1>1, <1>10, <2>2, BasesKept DEF IntegrationGivesUp, Exit, MainInv, InFlight
  <2>4. GateIsComplete' /\ CleanIsNoted' /\ TodoIsReady'
    BY <1>10 DEF IntegrationGivesUp, Exit, MainInv, GateIsComplete,
                 CleanIsNoted, TodoIsReady
  <2>. QED
    BY <1>1, <2>1, <2>3, <2>4 DEF MainInv
<1>. QED
  BY <1>2, <1>3, <1>4, <1>5, <1>6, <1>7, <1>8, <1>9, <1>10
     DEF Next, Main, CreditExhausted, BrainStalls, Interrupted

\* A run starts with nothing in flight and the seeded units on main.
LEMMA InitMainInv == Init => MainInv
<1>. SUFFICES ASSUME Init PROVE MainInv
  OBVIOUS
<1>. USE Bounds DEF Init
<1>1. TypeOK
  <2>1. plan \in Plan /\ main \subseteq Build
    BY DEF Plan, PlanState, DoneUnits, Build
  <2>. QED
    BY <2>1 DEF TypeOK, Live, Terminal
<1>2. KnownIsOnMain
  <2>1. ASSUME NEW u \in Units, plan[u] = "done"
        PROVE  Within(u, main)
    <3>1. <<u, 0>> \in main /\ <<u, 0>>[1] = u
      BY <2>1 DEF DoneUnits
    <3>. QED
      BY <3>1 DEF Within
  <2>. QED
    BY <2>1 DEF KnownIsOnMain, Known
<1>3. AnchorsKeep /\ CleanIsComplete
  BY DEF AnchorsKeep, CleanIsComplete
<1>4. DependenciesInBase
  BY DEF DependenciesInBase, InFlight
<1>5. BatchIsHandled /\ TodoIsReady /\ GateIsComplete /\ CleanIsNoted
  BY DEF BatchIsHandled, TodoIsReady, GateIsComplete, CleanIsNoted
<1>. QED
  BY <1>1, <1>2, <1>3, <1>4, <1>5 DEF MainInv, RecordInv

\* The invariant of the whole loop.
LEMMA MainInvAlways == Spec => []MainInv
<1>1. Init => MainInv
  BY InitMainInv
<1>2. MainInv /\ [Next]_vars => MainInv'
  BY NextKeepsMainInv
<1>. QED
  BY <1>1, <1>2, PTL DEF Spec

-----------------------------------------------------------------------------
(* What it gives *)

(***************************************************************************)
(* Every variable keeps its type: no unit's retries or approaches exceed   *)
(* their number, the integration gate gets no more alternatives than       *)
(* allowed, and only results are ever handled.                             *)
(***************************************************************************)
THEOREM ParTypesHold == Spec => []TypeOK
<1>1. MainInv => TypeOK
  BY DEF MainInv
<1>. QED
  BY <1>1, MainInvAlways, PTL

(***************************************************************************)
(* Whatever was merged, un-merged and reset, a unit recorded done has a    *)
(* build on main, but for those merged while git could not tell the HEAD   *)
(* (handle_outcome, _semantic_consumer_reset, _integration_or_retry).      *)
(***************************************************************************)
THEOREM DoneStaysOnMain == Spec => []DoneIsOnMain
<1>1. ASSUME MainInv
      PROVE  DoneIsOnMain
  <2>1. SUFFICES ASSUME NEW u \in Units, plan[u] = "done", ~Unanchored(u)
                 PROVE  Within(u, main)
    BY DEF DoneIsOnMain, DoneUnits
  <2>2. refFaults = 0 \/ (ckpt[u] # NoRef /\ ~MissedByClean(u))
    BY <1>1, <2>1, Bounds DEF Unanchored, MainInv, TypeOK
  <2>3. refFaults = 0 => ~MissedByClean(u)
    BY <1>1 DEF MainInv, RecordInv, CleanIsComplete, MissedByClean
  <2>4. Known(u)
    BY <2>1, <2>2 DEF Known
  <2>. QED
    BY <1>1, <2>2, <2>3, <2>4 DEF MainInv, RecordInv, KnownIsOnMain
<1>. QED
  BY <1>1, MainInvAlways, PTL

(***************************************************************************)
(* As long as git tells the HEAD of main, a unit is built on a main that   *)
(* holds every unit it depends on (dispatch_ready, wm.create).             *)
(***************************************************************************)
THEOREM DependenciesAreInBase == Spec => []DependenciesInBase
<1>1. MainInv => DependenciesInBase
  BY DEF MainInv
<1>. QED
  BY <1>1, MainInvAlways, PTL

\* Results not yet handled are of units in flight, and the integration gate
\* runs when every unit is done: no unit is left in progress when it sends
\* units back to be built.
InProgressInv == MainInv /\ InProgressIsInFlight

(***************************************************************************)
(* While the loop goes on, a unit in progress is in flight: each of the    *)
(* seven ways handle_outcome has to deal with a result takes its unit out  *)
(* of in_progress.                                                         *)
(***************************************************************************)
THEOREM NoneIsLeftInProgress == Spec => []InProgressIsInFlight
<1>. DEFINE Going == {"ready", "dispatch", "wait", "handle", "gate"}
<1>1. Init => InProgressInv
  <2>1. Init => InProgressIsInFlight
    BY DEF Init, InProgressIsInFlight
  <2>. QED
    BY <2>1, InitMainInv DEF InProgressInv
<1>2. ASSUME InProgressInv, [Next]_vars
      PROVE  InProgressInv'
  <2>. USE DEF vars, counters, git, trees
  <2>1. MainInv'
    BY <1>2, NextKeepsMainInv DEF InProgressInv
  <2>. SUFFICES InProgressIsInFlight'
    BY <2>1 DEF InProgressInv
  <2>2. MainInv /\ TypeOK /\ InProgressIsInFlight
    BY <1>2 DEF InProgressInv, MainInv
  <2>3. CASE plan' = plan /\ work' = work /\ (pc' \in Going => pc \in Going)
    BY <2>2, <2>3 DEF InProgressIsInFlight
  <2>4. CASE pc' \notin Going
    BY <2>4 DEF InProgressIsInFlight
  <2>5. CASE pc' = "gate"
    BY <2>1, <2>5 DEF MainInv, GateIsComplete, AllDone, InProgressIsInFlight
  <2>6. CASE Dispatch
    BY <2>2, <2>6 DEF Dispatch, InProgressIsInFlight, TypeOK, Plan
  <2>7. ASSUME NEW u \in Units, HandleOutcome(u)
        PROVE  InProgressIsInFlight'
    <3>1. pc = "handle" /\ work' = [work EXCEPT ![u] = "idle"]
      BY <2>7
         DEF HandleOutcome, GateFailRetries, GateFailAlternative,
             GateFailGivesUp, Merge, SemanticReset, ConflictRetries,
             ConflictGivesUp, Result, Handled, Retry, GiveUp
    <3>2. /\ plan'[u] # "in_progress"
          /\ \A v \in Units \ {u} : plan'[v] = "in_progress"
               => plan[v] = "in_progress"
      <4>1. CASE SemanticReset(u)
        BY <4>1 DEF SemanticReset, Unmerged
      <4>2. CASE \E s \in {"pending", "done", "failed"} :
                   plan' = [plan EXCEPT ![u] = s]
        BY <2>2, <4>2 DEF TypeOK, Plan
      <4>. QED
        BY <2>7, <4>1, <4>2
           DEF HandleOutcome, GateFailRetries, GateFailAlternative,
               GateFailGivesUp, Merge, ConflictRetries, ConflictGivesUp,
               Retry, GiveUp, BackToPending
    <3>. QED
      BY <2>2, <3>1, <3>2 DEF InProgressIsInFlight, TypeOK
  <2>8. ASSUME NEW u \in Units, WorkerEnds(u)
        PROVE  InProgressIsInFlight'
    BY <2>2, <2>8 DEF WorkerEnds, InProgressIsInFlight, TypeOK
  <2>9. CASE IntegrationAlternative
    BY <2>2, <2>9 DEF IntegrationAlternative, MainInv, GateIsComplete, AllDone,
                      InProgressIsInFlight
  <2>. QED
    BY <1>2, <2>1, <2>3, <2>4, <2>5, <2>6, <2>7, <2>8, <2>9
       DEF InProgressInv, Next, Main, OverBudget, BeginDispatch, PutOff,
           NoOrder, EndDispatch, Collect, RoundEnds, ExitOnTerminal, ExitStuck,
           ToIntegration, IntegrationPasses, IntegrationGivesUp, Exit,
           CreditExhausted, BrainStalls, Interrupted, AbortWith, Dies
<1>3. InProgressInv => InProgressIsInFlight
  BY DEF InProgressInv
<1>. QED
  BY <1>1, <1>2, <1>3, PTL DEF Spec

\* The dispatches of u so far, and the one it waits for, all have their cause.
Resets(u) == Cardinality(resetDone \ {u})
Causes(u) == climbs[u] + integAlt + Resets(u)

DispatchesArePaid ==
  \A u \in Units :
    /\ climbs[u] <= AttemptBudget
    /\ built[u] <= Causes(u) + 1
    /\ plan[u] = "pending" => built[u] <= Causes(u)

\* What counts the causes are naturals.
LEMMA CausesAreCounted ==
  ASSUME TypeOK
  PROVE  /\ IsFiniteSet(Units) /\ IsFiniteSet(resetDone)
         /\ integAlt \in Nat
         /\ \A u \in Units : Resets(u) \in Nat
         /\ \A u \in Units : Causes(u) \in Nat
<1>1. IsFiniteSet(Units)
  BY SchedulerAssumption, FS_Interval DEF Units
<1>2. IsFiniteSet(resetDone)
  BY <1>1, FS_Subset DEF TypeOK
<1>0. integAlt \in Nat
  BY Bounds DEF TypeOK
<1>3. ASSUME NEW u \in Units
      PROVE  Resets(u) \in Nat
  BY <1>2, FS_Subset, FS_CardinalityType DEF Resets
<1>4. ASSUME NEW u \in Units
      PROVE  Causes(u) \in Nat
  <2>1. climbs[u] \in Nat
    BY DEF TypeOK
  <2>. QED
    BY <1>0, <1>3, <2>1 DEF Causes
<1>. QED
  BY <1>0, <1>1, <1>2, <1>3, <1>4

\* A failure or a conflict of u, and a semantic reset it causes, counts for u;
\* the reset counts for every other unit as well, once.
LEMMA OutcomeKeepsPaid ==
  ASSUME TypeOK, TypeOK', DispatchesArePaid, NEW u \in Units, HandleOutcome(u)
  PROVE  DispatchesArePaid'
<1>. USE DEF DispatchesArePaid
<1>1. built' = built /\ integAlt' = integAlt
  BY DEF HandleOutcome, GateFailRetries, GateFailAlternative, GateFailGivesUp,
         Merge, SemanticReset, ConflictRetries, ConflictGivesUp, Handled, Retry,
         GiveUp, trees
<1>2. \A v \in Units : built[v] \in Nat /\ climbs[v] \in Nat
  BY DEF TypeOK
<1>3. CASE /\ UNCHANGED <<climbs, resetDone>>
           /\ \E s \in {"done", "failed"} : plan' = [plan EXCEPT ![u] = s]
  <2>1. \A v \in Units : plan'[v] = "pending" => plan[v] = "pending"
    BY <1>3 DEF TypeOK, Plan
  <2>. QED
    BY <1>1, <1>3, <2>1 DEF Causes, Resets
<1>4. ASSUME ~Ceiling(u), climbs' = [climbs EXCEPT ![u] = @ + 1]
      PROVE  /\ \A v \in Units : climbs'[v] <= AttemptBudget
             /\ climbs'[u] = climbs[u] + 1
             /\ \A v \in Units \ {u} : climbs'[v] = climbs[v]
  <2>1. climbs[u] < AttemptBudget /\ AttemptBudget \in Nat
    BY <1>2, <1>4, Bounds DEF Ceiling
  <2>2. DOMAIN climbs = Units
    BY DEF TypeOK
  <2>3. /\ climbs'[u] = climbs[u] + 1
        /\ \A v \in Units \ {u} : climbs'[v] = climbs[v]
    BY <1>4, <2>2
  <2>. QED
    BY <1>2, <2>1, <2>3
<1>5. CASE /\ ~Ceiling(u) /\ climbs' = [climbs EXCEPT ![u] = @ + 1]
           /\ UNCHANGED resetDone
           /\ plan' = BackToPending(u)
  <2>0. Resets(u)' = Resets(u) /\ Resets(u) \in Nat /\ integAlt \in Nat
    BY <1>5, CausesAreCounted DEF Resets
  <2>1. Causes(u)' = Causes(u) + 1
    BY <1>1, <1>2, <1>4, <1>5, <2>0 DEF Causes
  <2>2. \A v \in Units \ {u} : Causes(v)' = Causes(v) /\ plan'[v] = plan[v]
    BY <1>1, <1>4, <1>5 DEF Causes, Resets, BackToPending, TypeOK, Plan
  <2>3. built'[u] <= Causes(u)' /\ built'[u] <= Causes(u)' + 1
    <3>1. built[u] <= Causes(u) + 1 /\ Causes(u) \in Nat /\ built[u] \in Nat
      BY <1>2, CausesAreCounted
    <3>. QED
      BY <1>1, <2>1, <3>1
  <2>. QED
    BY <1>1, <1>4, <1>5, <2>2, <2>3
<1>6. CASE /\ ~Ceiling(u) /\ climbs' = [climbs EXCEPT ![u] = @ + 1]
           /\ u \notin resetDone /\ resetDone' = resetDone \cup {u}
  <2>1. ASSUME NEW v \in Units
        PROVE  Causes(v)' = Causes(v) + 1
    <3>1. Resets(v) \in Nat /\ integAlt \in Nat /\ climbs[v] \in Nat
      BY CausesAreCounted DEF TypeOK
    <3>2. CASE v = u
      <4>1. resetDone' \ {u} = resetDone \ {u}
        BY <1>6
      <4>2. Resets(v)' = Resets(v)
        BY <3>2, <4>1 DEF Resets
      <4>3. climbs'[v] = climbs[v] + 1
        BY <1>4, <1>6, <3>2
      <4>. QED
        BY <1>1, <3>1, <4>2, <4>3 DEF Causes
    <3>3. CASE v # u
      <4>1. /\ resetDone' \ {v} = (resetDone \ {v}) \cup {u}
            /\ u \notin resetDone \ {v}
        BY <1>6, <3>3
      <4>2. IsFiniteSet(resetDone \ {v})
        BY CausesAreCounted, FS_Subset
      <4>3. Cardinality(resetDone' \ {v}) = Cardinality(resetDone \ {v}) + 1
        BY <4>1, <4>2, FS_AddElement
      <4>4. Resets(v)' = Resets(v) + 1
        BY <4>3 DEF Resets
      <4>5. climbs'[v] = climbs[v]
        BY <1>4, <1>6, <3>3
      <4>. QED
        BY <1>1, <3>1, <4>4, <4>5 DEF Causes
    <3>. QED
      BY <3>2, <3>3
  <2>2. ASSUME NEW v \in Units
        PROVE  built'[v] <= Causes(v)' /\ built'[v] <= Causes(v)' + 1
    <3>1. built[v] <= Causes(v) + 1 /\ Causes(v) \in Nat /\ built[v] \in Nat
      BY <1>2, CausesAreCounted
    <3>. QED
      BY <1>1, <2>1, <3>1
  <2>. QED
    BY <1>4, <1>6, <2>2
<1>. QED
  BY <1>3, <1>5, <1>6
     DEF HandleOutcome, GateFailRetries, GateFailAlternative, GateFailGivesUp,
         Merge, SemanticReset, MayResetConsumers, ConflictRetries,
         ConflictGivesUp, Retry, GiveUp, Exhausted, git

(***************************************************************************)
(* However retries, other approaches, conflicts, semantic resets and       *)
(* integration alternatives interleave, a unit is dispatched once and then *)
(* once for each of them at most.                                          *)
(***************************************************************************)
THEOREM DispatchesStayBounded == Spec => []DispatchesAreBounded
<1>1. Init => DispatchesArePaid
  <2>1. SUFFICES ASSUME Init PROVE DispatchesArePaid
    OBVIOUS
  <2>2. \A u \in Units : Causes(u) = 0 /\ built[u] = 0 /\ climbs[u] = 0
    <3>1. \A u \in Units : Cardinality(resetDone \ {u}) = 0
      <4>1. \A u \in Units : resetDone \ {u} = {}
        BY <2>1 DEF Init
      <4>. QED
        BY <4>1, FS_EmptySet
    <3>. QED
      BY <2>1, <3>1 DEF Init, Causes, Resets
  <2>. QED
    BY <2>2, Bounds DEF DispatchesArePaid
<1>2. ASSUME TypeOK, TypeOK', TodoIsReady, DispatchesArePaid, [Next]_vars
      PROVE  DispatchesArePaid'
  <2>. USE DEF vars, counters, git, trees
  <2>1. CASE UNCHANGED <<built, plan, climbs, integAlt, resetDone>>
    BY <1>2, <2>1 DEF DispatchesArePaid, Causes, Resets
  <2>2. CASE Dispatch
    <3>1. PICK u \in todo : u = First(todo)
      BY <1>2, <2>2, Bounds, FirstIsLeast DEF Dispatch, TypeOK
    <3>2. u \in Units /\ plan[u] = "pending"
      BY <1>2, <2>2, <3>1 DEF Dispatch, TodoIsReady, TypeOK
    <3>3. /\ built' = [built EXCEPT ![u] = @ + 1]
          /\ plan' = [plan EXCEPT ![u] = "in_progress"]
          /\ UNCHANGED <<climbs, integAlt, resetDone>>
      BY <2>2, <3>1 DEF Dispatch
    <3>4. \A v \in Units : Causes(v)' = Causes(v)
      BY <3>3 DEF Causes, Resets
    <3>5. built'[u] = built[u] + 1 /\ built[u] \in Nat /\ plan'[u] = "in_progress"
      BY <1>2, <3>2, <3>3 DEF TypeOK, Plan
    <3>6. \A v \in Units \ {u} : built'[v] = built[v] /\ plan'[v] = plan[v]
      BY <1>2, <3>3 DEF TypeOK, Plan
    <3>7. Causes(u) \in Nat /\ built[u] <= Causes(u)
      BY <1>2, <3>2, CausesAreCounted DEF DispatchesArePaid
    <3>8. built'[u] <= Causes(u)' + 1
      BY <3>2, <3>4, <3>5, <3>7
    <3>9. ASSUME NEW v \in Units
          PROVE  /\ climbs'[v] <= AttemptBudget
                 /\ built'[v] <= Causes(v)' + 1
                 /\ plan'[v] = "pending" => built'[v] <= Causes(v)'
      <4>1. CASE v = u
        BY <1>2, <3>2, <3>3, <3>5, <3>8, <4>1 DEF DispatchesArePaid
      <4>2. CASE v # u
        BY <1>2, <3>3, <3>4, <3>6, <4>2 DEF DispatchesArePaid
      <4>. QED
        BY <4>1, <4>2
    <3>. QED
      BY <3>9 DEF DispatchesArePaid
  <2>3. ASSUME NEW u \in Units, HandleOutcome(u)
        PROVE  DispatchesArePaid'
    BY <1>2, <2>3, OutcomeKeepsPaid
  <2>4. CASE IntegrationAlternative
    <3>1. UNCHANGED <<built, climbs, resetDone>> /\ integAlt' = integAlt + 1
      BY <2>4 DEF IntegrationAlternative
    <3>2. \A v \in Units : Causes(v)' = Causes(v) + 1
      <4>1. ASSUME NEW v \in Units
            PROVE  Causes(v)' = Causes(v) + 1
        <5>1. Resets(v)' = Resets(v) /\ Resets(v) \in Nat
          BY <1>2, <3>1, CausesAreCounted DEF Resets
        <5>2. climbs[v] \in Nat /\ integAlt \in Nat
          BY <1>2, Bounds DEF TypeOK
        <5>. QED
          BY <3>1, <5>1, <5>2 DEF Causes
      <4>. QED
        BY <4>1
    <3>3. ASSUME NEW v \in Units
          PROVE  /\ climbs'[v] <= AttemptBudget
                 /\ built'[v] <= Causes(v)' + 1
                 /\ plan'[v] = "pending" => built'[v] <= Causes(v)'
      <4>1. built[v] \in Nat /\ Causes(v) \in Nat /\ built[v] <= Causes(v) + 1
        BY <1>2, CausesAreCounted DEF DispatchesArePaid, TypeOK
      <4>. QED
        BY <1>2, <3>1, <3>2, <4>1 DEF DispatchesArePaid
    <3>. QED
      BY <3>3 DEF DispatchesArePaid
  <2>5. ASSUME NEW u \in Units, WorkerEnds(u)
        PROVE  DispatchesArePaid'
    BY <2>1, <2>5 DEF WorkerEnds
  <2>. QED
    BY <1>2, <2>1, <2>2, <2>3, <2>4, <2>5
       DEF Next, Main, OverBudget, BeginDispatch, PutOff, NoOrder, EndDispatch,
           Collect, RoundEnds, ExitOnTerminal, ExitStuck, ToIntegration,
           IntegrationPasses, IntegrationGivesUp, Exit, CreditExhausted,
           BrainStalls, Interrupted, AbortWith, Dies
<1>3. TypeOK /\ DispatchesArePaid => DispatchesAreBounded
  <2>1. SUFFICES ASSUME TypeOK, DispatchesArePaid, NEW u \in Units
                 PROVE  1 + climbs[u] + integAlt + Cardinality(resetDone \ {u})
                          = Causes(u) + 1
    BY DEF DispatchesArePaid, DispatchesAreBounded
  <2>2. Resets(u) \in Nat /\ climbs[u] \in Nat /\ integAlt \in Nat
    BY <2>1, CausesAreCounted DEF TypeOK
  <2>. QED
    BY <2>2 DEF Causes, Resets
<1>4. MainInv => TodoIsReady
  BY DEF MainInv
<1>. QED
  BY <1>1, <1>2, <1>3, <1>4, ParTypesHold, MainInvAlways, PTL DEF Spec

\* A run builds a unit at most unit_attempt_budget + or_alternatives times and
\* once more per unit of the plan, however it goes: the bound the code does keep.
THEOREM BuildsOfAUnit ==
  Spec => [](\A u \in Units : built[u] <= AttemptBudget + OrAlternatives + NumUnits)
<1>1. ASSUME TypeOK, DispatchesAreBounded, NEW u \in Units
      PROVE  built[u] <= AttemptBudget + OrAlternatives + NumUnits
  <2>1. Cardinality(resetDone \ {u}) <= NumUnits - 1
    <3>1. IsFiniteSet(Units) /\ Cardinality(Units) = NumUnits
      BY SchedulerAssumption, FS_Interval DEF Units
    <3>2. Cardinality(Units \ {u}) = NumUnits - 1 /\ IsFiniteSet(Units \ {u})
      BY <3>1, FS_RemoveElement
    <3>3. resetDone \ {u} \subseteq Units \ {u}
      BY <1>1 DEF TypeOK
    <3>. QED
      BY <3>2, <3>3, FS_Subset
  <2>2. /\ built[u] \in Nat /\ climbs[u] \in Nat /\ integAlt \in Nat
        /\ integAlt <= OrAlternatives /\ Cardinality(resetDone \ {u}) \in Nat
    <3>1. Cardinality(resetDone \ {u}) \in Nat
      BY <1>1, CausesAreCounted DEF Resets
    <3>2. integAlt \in Nat /\ integAlt <= OrAlternatives
      BY <1>1, Bounds DEF TypeOK
    <3>. QED
      BY <1>1, <3>1, <3>2 DEF TypeOK
  <2>. QED
    BY <1>1, <2>1, <2>2, Bounds, SchedulerAssumption DEF DispatchesAreBounded
<1>2. TypeOK /\ DispatchesAreBounded =>
        \A u \in Units : built[u] <= AttemptBudget + OrAlternatives + NumUnits
  BY <1>1
<1>. QED
  BY <1>2, ParTypesHold, DispatchesStayBounded, PTL

(***************************************************************************)
(* The burst is safe: whenever more than max_parallel units are at work,   *)
(* some of them was let in last, and it shared no file with the others.    *)
(***************************************************************************)
THEOREM BurstStaysDisjoint == Spec => []BurstIsDisjoint
<1>1. IsFiniteSet(Units)
  BY SchedulerAssumption, FS_Interval DEF Units
<1>2. Init => BurstIsDisjoint
  <2>1. SUFFICES ASSUME Init PROVE BurstIsDisjoint
    OBVIOUS
  <2>2. InFlight = {}
    BY <2>1 DEF Init, InFlight
  <2>3. \A S \in SUBSET InFlight : Cardinality(S) = 0
    BY <2>2, FS_EmptySet
  <2>. QED
    BY <2>3, Bounds DEF BurstIsDisjoint
<1>3. ASSUME TypeOK, BurstIsDisjoint, [Next]_vars
      PROVE  BurstIsDisjoint'
  <2>. USE DEF vars, counters, git, trees
  <2>1. CASE InFlight' \subseteq InFlight
    BY <1>3, <2>1 DEF BurstIsDisjoint
  <2>2. CASE Dispatch
    <3>. DEFINE u == First(todo)
    <3>1. Slot(u) /\ work' = [work EXCEPT ![u] = "running"]
      BY <2>2 DEF Dispatch
    <3>2. InFlight' \subseteq InFlight \cup {u}
      BY <1>3, <3>1 DEF InFlight, TypeOK
    <3>3. SUFFICES ASSUME NEW S \in SUBSET InFlight', Cardinality(S) > MaxParallel
                   PROVE  \E v \in S : IsDisjointFrom(v, S \ {v}, Scope)
      BY DEF BurstIsDisjoint
    <3>4. CASE S \subseteq InFlight
      BY <1>3, <3>3, <3>4 DEF BurstIsDisjoint
    <3>5. CASE u \in S /\ u \notin InFlight
      <4>1. IsFiniteSet(InFlight) /\ IsFiniteSet(S)
        <5>1. InFlight \subseteq Units /\ S \subseteq Units
          BY DEF InFlight
        <5>. QED
          BY <1>1, <5>1, FS_Subset
      <4>2. S \ {u} \subseteq InFlight
        BY <3>2
      <4>3. /\ Cardinality(S \ {u}) = Cardinality(S) - 1
            /\ Cardinality(S) \in Nat /\ Cardinality(S \ {u}) \in Nat
            /\ Cardinality(InFlight) \in Nat
            /\ Cardinality(S \ {u}) <= Cardinality(InFlight)
        BY <3>5, <4>1, <4>2, FS_RemoveElement, FS_Subset, FS_CardinalityType
      <4>4. Cardinality(InFlight) >= MaxParallel
        BY <3>3, <4>3, Bounds
      <4>5. IsDisjointFrom(u, InFlight, Scope)
        BY <3>1, <4>4 DEF Slot, MayBurst
      <4>. QED
        BY <3>5, <4>2, <4>5 DEF IsDisjointFrom
    <3>. QED
      BY <3>2, <3>4, <3>5
  <2>3. CASE work' = work
    BY <2>1, <2>3 DEF InFlight
  <2>4. CASE work' = [u \in Units |-> "idle"]
    BY <2>1, <2>4 DEF InFlight
  <2>5. ASSUME NEW u \in Units, HandleOutcome(u)
        PROVE  InFlight' \subseteq InFlight
    <3>1. work' = [work EXCEPT ![u] = "idle"]
      BY <2>5
         DEF HandleOutcome, GateFailRetries, GateFailAlternative,
             GateFailGivesUp, Merge, SemanticReset, ConflictRetries,
             ConflictGivesUp, Handled, Retry, GiveUp
    <3>. QED
      BY <1>3, <3>1 DEF InFlight, TypeOK
  <2>6. ASSUME NEW u \in Units, WorkerEnds(u)
        PROVE  InFlight' \subseteq InFlight
    BY <1>3, <2>6 DEF WorkerEnds, InFlight, TypeOK
  <2>. QED
    BY <1>3, <2>1, <2>2, <2>3, <2>4, <2>5, <2>6
       DEF Next, Main, OverBudget, BeginDispatch, PutOff, NoOrder, EndDispatch,
           Collect, RoundEnds, ExitOnTerminal, ExitStuck, ToIntegration,
           IntegrationPasses, IntegrationAlternative, IntegrationGivesUp, Exit,
           CreditExhausted, BrainStalls, Interrupted, AbortWith, Dies
<1>. QED
  BY <1>2, <1>3, ParTypesHold, PTL DEF Spec
=============================================================================
