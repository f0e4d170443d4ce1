--------------------------- MODULE SchedulerProofs ---------------------------
(***************************************************************************)
(* Facts about the scheduler's functions, for every plan and every set of  *)
(* dependencies.                                                           *)
(***************************************************************************)
EXTENDS Scheduler, FiniteSetTheorems, WellFoundedInduction, TLAPS

(***************************************************************************)
(* A nonempty set of naturals has a least element.  (Of the intervals      *)
(* 0 .. u, take one that strictly contains no other.)                      *)
(***************************************************************************)
LEMMA LeastExists ==
  ASSUME NEW S \in SUBSET Nat, S # {}
  PROVE  \E u \in S : \A v \in S : u <= v
<1>. DEFINE below == {0 .. u : u \in S}
<1>1. S \subseteq Nat
  OBVIOUS
<1>2. below \subseteq FiniteSubsetsOf(Nat)
  <2>1. \A u \in S : 0 .. u \subseteq Nat /\ IsFiniteSet(0 .. u)
    BY <1>1, FS_Interval
  <2>. QED
    BY <2>1 DEF FiniteSubsetsOf
<1>3. PICK b \in below :
        \A c \in below : ~ (<<c, b>> \in StrictSubsetOrdering(Nat))
  <2>1. below # {}
    OBVIOUS
  <2>. QED
    BY <1>2, <2>1, FS_StrictSubsetOrderingWellFounded, WFMin
<1>4. PICK u \in S : b = 0 .. u
  OBVIOUS
<1>5. ASSUME NEW v \in S
      PROVE  u <= v
  <2>1. SUFFICES ASSUME v < u
                 PROVE  FALSE
    BY <1>1
  <2>2. 0 .. v \subseteq 0 .. u /\ u \in 0 .. u /\ u \notin 0 .. v
    BY <1>1, <2>1
  <2>3. 0 .. v \in below
    OBVIOUS
  <2>4. <<0 .. v, 0 .. u>> \in StrictSubsetOrdering(Nat)
    BY <1>1, <2>2 DEF StrictSubsetOrdering
  <2>. QED
    BY <1>3, <1>4, <2>3, <2>4
<1>. QED
  BY <1>5

(***************************************************************************)
(* A nonempty set of unit ids has a first one in dictionary order: the     *)
(* head of a sorted nonempty list exists.                                  *)
(***************************************************************************)
LEMMA FirstExists ==
  ASSUME NEW S \in SUBSET Units, S # {}
  PROVE  \E u \in S : \A v \in S : u <= v
  BY LeastExists, SchedulerAssumption DEF Units

(***************************************************************************)
(* The unit dispatched when the order names none is the first ready one in *)
(* dictionary order, which makes the choice a function of the plan: it is  *)
(* pending, not in flight, with its dependencies done, and no ready unit   *)
(* comes before it; there is none only when nothing is ready               *)
(* (scheduler.py:14-31, loop.py:400-410).                                  *)
(***************************************************************************)
THEOREM FirstReadyIsReady ==
  ASSUME NEW plan, NEW inFlight
  PROVE  LET u == FirstReady(plan, inFlight)
         IN  /\ u = NoUnit <=> ReadyUnits(plan, inFlight) = {}
             /\ u # NoUnit =>
                  /\ u \in Units \ inFlight
                  /\ plan[u] = "pending" /\ Deps[u] \subseteq DoneUnits(plan)
                  /\ \A v \in ReadyUnits(plan, inFlight) : u <= v
<1>. DEFINE ready == ReadyUnits(plan, inFlight)
            u == FirstReady(plan, inFlight)
<1>1. ready \in SUBSET Units
  BY DEF ReadyUnits
<1>2. CASE ready = {}
  BY <1>2 DEF FirstReady
<1>3. CASE ready # {}
  <2>1. \E v \in ready : \A w \in ready : v <= w
    BY <1>1, <1>3, FirstExists
  <2>2. u \in ready /\ \A v \in ready : u <= v
    BY <1>3, <2>1 DEF FirstReady
  <2>3. NoUnit \notin Units
    BY SchedulerAssumption DEF NoUnit, Units
  <2>4. u \in Units \ inFlight /\ plan[u] = "pending" /\ Deps[u] \subseteq DoneUnits(plan)
    BY <2>2 DEF ReadyUnits
  <2>. QED
    BY <1>1, <1>3, <2>2, <2>3, <2>4
<1>. QED
  BY <1>2, <1>3

\* d is a dependency of u.
DependsOn ==
  {p \in Units \X Units : p[1] \in Deps[p[2]]}

(***************************************************************************)
(* A plan is only ever stuck for a reason: if the dependencies have no     *)
(* cycle and name units of the plan, a stuck plan has a unit that failed   *)
(* or that was started and not given back to the scheduler.  With a cycle, *)
(* or with a dependency on an unknown id, the claim is false: the          *)
(* specification is not validated against either.                          *)
(***************************************************************************)
THEOREM StuckHasCause ==
  ASSUME NEW plan \in Plan,
         IsWellFoundedOn(DependsOn, Units),
         \A u \in Units : Deps[u] \subseteq Units,
         IsStuck(plan, {})
  PROVE  \E u \in Units : plan[u] \in {"failed", "in_progress"}
<1>. SUFFICES ASSUME \A u \in Units : plan[u] \in {"pending", "done"}
              PROVE  FALSE
  BY DEF Plan, PlanState
<1>. DEFINE waiting == {u \in Units : plan[u] = "pending"}
<1>1. waiting # {}
  BY DEF IsStuck, AllDone
<1>2. PICK u \in waiting : \A d \in waiting : ~ (<<d, u>> \in DependsOn)
  <2>. waiting \subseteq Units
    OBVIOUS
  <2>. QED
    BY <1>1, WFMin
<1>3. Deps[u] \subseteq DoneUnits(plan)
  BY <1>2 DEF DependsOn, DoneUnits
<1>4. u \in ReadyUnits(plan, {})
  BY <1>2, <1>3 DEF ReadyUnits
<1>. QED
  BY <1>4 DEF IsStuck
==============================================================================
