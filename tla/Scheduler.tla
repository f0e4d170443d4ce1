------------------------------ MODULE Scheduler ------------------------------
(***************************************************************************)
(* The deterministic DAG scheduler of src/src/haetae/scheduler.py: pure    *)
(* functions of the plan (one state per unit), the units' dependencies and *)
(* the set of units in flight.                                             *)
(*                                                                         *)
(* Unit ids are numbered in their dictionary order, so the sorted list the *)
(* code returns is the set and its head is the smallest member.            *)
(***************************************************************************)
EXTENDS Integers

CONSTANTS
  NumUnits,   \* number of units of the specification's decomposition
  Deps        \* Deps[u]: the unit ids unit u declares it depends on

Units == 1 .. NumUnits

(***************************************************************************)
(* A dependency is a free string of the synthesised specification: nothing *)
(* checks that it names a unit, nor that the dependencies have no cycle.   *)
(***************************************************************************)
ASSUME SchedulerAssumption ==
  /\ NumUnits \in Nat \ {0}
  /\ Deps \in [Units -> SUBSET Nat]

PlanState == {"pending", "in_progress", "done", "failed"}

Plan == [Units -> PlanState]

NoUnit == 0   \* Python's None where a unit id is expected

(***************************************************************************)
(* ready_units: pending, not in flight, every dependency done. A           *)
(* dependency that names no unit is never done.                            *)
(***************************************************************************)
DoneUnits(plan) == {u \in Units : plan[u] = "done"}

ReadyUnits(plan, inFlight) ==
  {u \in Units : /\ plan[u] = "pending"
                 /\ u \notin inFlight
                 /\ Deps[u] \subseteq DoneUnits(plan)}

\* The head of the sorted list ready_units returns, NoUnit if it is empty.
FirstReady(plan, inFlight) ==
  LET ready == ReadyUnits(plan, inFlight)
  IN  IF ready = {} THEN NoUnit
      ELSE CHOOSE u \in ready : \A v \in ready : u <= v

AllDone(plan) == \A u \in Units : plan[u] = "done"

\* is_stuck: nothing in flight, nothing ready, something not done.
IsStuck(plan, inFlight) ==
  /\ inFlight = {}
  /\ ReadyUnits(plan, inFlight) = {}
  /\ ~AllDone(plan)

(***************************************************************************)
(* is_disjoint_from: both sides declare a file scope and share no file.    *)
(***************************************************************************)
IsDisjointFrom(unit, others, scopeOf) ==
  /\ scopeOf[unit] # {}
  /\ \A o \in others : scopeOf[o] # {} /\ scopeOf[unit] \cap scopeOf[o] = {}
==============================================================================
