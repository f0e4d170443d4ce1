------------------------------ MODULE Dashboard ------------------------------
(***************************************************************************)
(* The dashboard server (dashboard.py): started with --allow-run it        *)
(* launches, stops and lists runs (RunManager); without it launch and stop *)
(* are refused (403) and it follows a run somebody else started (Sidecar). *)
(* The two share no state but the process of the run, so that a server     *)
(* that does one of them stands for a server that does both.               *)
(***************************************************************************)
EXTENDS RunManager, Sidecar

VARIABLES
  allowRun, \* --allow-run
  final     \* history: ids whose meta.json has said a terminal status

vars == <<allowRun, final, managerVars, sidecarVars>>

Init ==
  /\ allowRun \in BOOLEAN
  /\ final = {}
  /\ ManagerInit /\ SidecarInit
  /\ allowRun => stream.pc = "gone"

Next ==
  \/ /\ allowRun /\ ManagerNext
     /\ final' = final \cup {i \in Id : meta'[i] \in Terminal}
     /\ UNCHANGED <<allowRun, sidecarVars>>
  \/ ~allowRun /\ SidecarNext /\ UNCHANGED <<allowRun, final, managerVars>>

\* A request that began goes on and its waits have a time limit; SIGKILL is
\* not without effect, SIGINT and SIGTERM may be.  A flush makes no blocking
\* call, and an open stream only sleeps between two polls.
Fairness ==
  /\ \A r \in Req : WF_managerVars(allowRun /\ RequestStep(r))
  /\ \A p \in Launch : WF_managerVars(allowRun /\ Killed(p))
  /\ \A t \in Thread : WF_sidecarVars(~allowRun /\ FlushStep(t))
  /\ WF_sidecarVars(~allowRun /\ StreamStep)

Spec == Init /\ [][Next]_vars /\ Fairness

-----------------------------------------------------------------------------
(***************************************************************************)
(* A terminal status, once in meta.json, is final: however often requests, *)
(* restarts and the process's own _write_cli_meta truncate and rewrite the *)
(* file afterwards, it never says "running" again, unless two launches     *)
(* come to share the id (dashboard.py:_persist_status, _write_meta).       *)
(***************************************************************************)
TerminalStays == \A i \in final : meta[i] = "running" => Shared(i)
=============================================================================
