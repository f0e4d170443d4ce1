---------------------------- MODULE RunLifecycle -----------------------------
(***************************************************************************)
(* What one run of the director promises to whoever reads its final state, *)
(* whichever loop executed it (run_loop or _parallel_loop of loop.py):     *)
(*                                                                         *)
(*   - while it runs, units change state and nothing is reported;          *)
(*   - it ends with one terminal status, which is never revised from the   *)
(*     moment it is decided on, whatever cuts the run short before it is   *)
(*     reported;                                                           *)
(*   - if it ends by itself as done, no unit is left half way              *)
(*     (in_progress) or given up (failed);                                 *)
(*   - a run whose process died can only be followed by a new run, which   *)
(*     knows each unit as done or as still to build;                       *)
(*   - it does end.                                                        *)
(***************************************************************************)
EXTENDS Scheduler

VARIABLES
  status,   \* "running", a terminal status, or "dead": the process is gone
  verdict,  \* the terminal status it has decided on, or "none"
  cut,      \* the run was ended by an exception, not by its own decision
  plan      \* the state of each unit

vars == <<status, verdict, cut, plan>>

Terminal == {"done", "escalated", "stopped_budget", "stopped_stuck",
             "stopped_credit", "stopped_interrupted"}

Settled(p) == \A u \in Units : p[u] \in {"pending", "done"}

Init ==
  /\ status = "running"
  /\ verdict = "none"
  /\ cut = FALSE
  /\ plan = [u \in Units |-> "pending"]

Decides(s) == verdict' = s /\ verdict \in {"none", s}

Work ==
  /\ status = "running"
  /\ plan' \in Plan
  /\ UNCHANGED verdict \/ \E s \in Terminal : Decides(s)
  /\ UNCHANGED <<status, cut>>

Conclude ==
  /\ status = "running"
  /\ status' \in Terminal
  /\ Decides(status')
  /\ plan' \in Plan
  /\ status' = "done" => Settled(plan')
  /\ UNCHANGED cut

CutShort ==
  /\ status = "running"
  /\ status' \in Terminal
  /\ Decides(status')
  /\ cut' = TRUE
  /\ UNCHANGED plan

Vanish ==
  /\ status = "running"
  /\ status' = "dead"
  /\ UNCHANGED <<verdict, cut, plan>>

Resume ==
  /\ status # "running"
  /\ status' = "running"
  /\ verdict' = "none"
  /\ cut' = FALSE
  /\ plan' \in Plan
  /\ Settled(plan')

Next == Work \/ Conclude \/ CutShort \/ Vanish \/ Resume

Spec == Init /\ [][Next]_vars /\ WF_vars(Conclude)
==============================================================================
