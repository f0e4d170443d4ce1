-------------------------------- MODULE Gate --------------------------------
(***************************************************************************)
(* The gate of a unit or of the whole project: CompositeGate.judge         *)
(* (gate.py) with ensure_deps (deps.py), run_artifact (run_harness.py) and *)
(* LLMJudge (judge.py), and ShadowComparingGate around it (shadow.py).     *)
(*                                                                         *)
(* A call is given a specification and a unit, or none for the integration *)
(* gate.  It installs the dependencies unless the manifest is the one it   *)
(* last installed, executes the run criteria, has them and the judge       *)
(* criteria judged, and runs the commands of the others.                   *)
(*                                                                         *)
(* Abstractions: a specification has at most one criterion of each kind,   *)
(* so that criterion identifiers are distinct (models.py does not enforce  *)
(* it); of a trace only its form and how much of the contract it carries   *)
(* are kept; commands and judges (external) may answer anything.           *)
(***************************************************************************)
EXTENDS Naturals

CONSTANTS
  MaxCalls,  \* bound: calls of the gate
  Manifests  \* manifests the builders write: 1 .. Manifests, 0: none

ASSUME GateAssumption == MaxCalls \in Nat /\ Manifests \in Nat

Kind  == {"machine", "judge", "run"}
Trace == {"unrun", "crash", "died", "odd", "some", "all"}
Said  == {"unasked", "pass", "fail", "unclear"}
Ended == {"unrun", "ok", "bad", "nocmd"}
Installed == {"none", "cached", "ok", "failed"}

VARIABLES
  gate,    \* where judge() is
  arg,     \* its arguments: the tag of each criterion of the specification,
           \* whether the run criterion has a command, whether there is a
           \* contract, a judge client, and a unit
  deps,    \* the work directory: manifest, lock file, hash sidecar
  failed,  \* manifests whose last installation failed
  install, \* what ensure_deps did
  raw,     \* what was observed: the trace of the run criterion, what the
           \* judge said of it, and of the judge criterion, the command's end
  smoke,   \* the trace of a harness's check of itself
  verdict, \* what judge() returned, or that it raised
  sink,    \* what the shadow judge left in the sink
  gates    \* calls so far

gateVars == <<gate, arg, deps, failed, install, raw, smoke, verdict, sink, gates>>

Unseen == [trace |-> "unrun", run |-> "unasked", judge |-> "unasked",
           machine |-> "unrun"]

Args == [tag : [Kind -> {"absent", "here", "elsewhere"}], cmd : BOOLEAN,
         contract : BOOLEAN, client : BOOLEAN, unit : BOOLEAN]

\* For the integration gate all tags are the same.
Calls == {a \in Args : a.unit \/ \A k \in Kind : a.tag[k] # "here"}

NoArgs == [tag |-> [k \in Kind |-> "absent"], cmd |-> FALSE,
           contract |-> FALSE, client |-> FALSE, unit |-> FALSE]

GateTypeOK ==
  /\ gate \in {"idle", "install", "run", "judge", "rest", "shadow", "returned"}
  /\ arg \in Args
  /\ deps \in [manifest : 0 .. Manifests, lock : BOOLEAN,
               sidecar : {<<0, FALSE>>} \cup (1 .. Manifests) \X BOOLEAN]
  /\ failed \subseteq (1 .. Manifests) \X BOOLEAN
  /\ install \in Installed
  /\ raw \in [trace : Trace, run : Said, judge : Said, machine : Ended]
  /\ smoke \in Trace
  /\ verdict \in {"none", "pass", "fail_recoverable", "ambiguous", "raised"}
  /\ sink \in {"nothing", "agreed", "differed", "inverted"}
  /\ gates \in 0 .. MaxCalls

GateInit ==
  /\ gate = "idle"
  /\ arg = NoArgs
  /\ deps = [manifest |-> 0, lock |-> FALSE, sidecar |-> <<0, FALSE>>]
  /\ failed = {} /\ install = "none"
  /\ raw = Unseen /\ smoke = "unrun"
  /\ verdict = "none" /\ sink = "nothing" /\ gates = 0

-----------------------------------------------------------------------------
(* Which criteria, and what an observation is worth *)

\* select_criteria: the unit's own ones, or all of them.
Selected ==
  {k \in Kind : IF arg.unit THEN arg.tag[k] = "here" ELSE arg.tag[k] # "absent"}

\* The unit whose contract it is checks its own harness.
IsHarness == arg.unit /\ arg.contract

\* _harness_self_check: by the first run criterion that has a command.
Exercised == IsHarness /\ arg.tag["run"] # "absent" /\ arg.cmd

\* An odd trace is no JSON (it may have been cut at the cap), or carries no
\* field of the contract.  A run that crashed or ran out of time keeps what it
\* printed: "died" had printed every field, "crash" had not.
Printed(t) == t \in {"died", "all"}
Booted(t) == t \in {"odd", "some", "all"}

\* Slip: a criterion the judge says nothing clear of counts as passed.
Lenient(s) == CASE s \in {"pass", "unclear"} -> "pass"
                [] s = "fail" -> "fail"
                [] OTHER -> "skipped"

\* LLMJudge: what the judge does not clearly say is skipped, as everything is
\* when it stalls or its output does not parse.
Judged(s) == CASE s = "pass" -> "pass"
               [] s = "fail" -> "fail"
               [] OTHER -> "skipped"

\* _judge_run_acs: without a judge, that it boots is enough.
RunStatus ==
  IF ~arg.cmd THEN "skipped"
  ELSE IF arg.client THEN Judged(raw.run)
  ELSE IF Booted(raw.trace) THEN "pass" ELSE "fail"

\* CheckRunner._run_check; a judge criterion gets here without a judge.
CheckStatus(e) == CASE e = "ok" -> "pass"
                    [] e = "nocmd" -> "skipped"
                    [] OTHER -> "fail"

Status(k, end) ==
  CASE k = "run" -> RunStatus
    [] k = "judge" -> IF arg.client THEN Judged(raw.judge) ELSE "skipped"
    [] k = "machine" -> CheckStatus(end)

\* check_evidence_contract: at integration every field, if anything was run, be
\* it that the run crashed after; _harness_self_check: the harness boots and
\* emits some field.
ContractReport ==
  IF arg.contract /\ ~IsHarness /\ raw.trace # "unrun"
  THEN {IF Printed(raw.trace) THEN "pass" ELSE "fail"} ELSE {}

HarnessReport(t) ==
  IF Exercised
  THEN {IF t \in {"some", "all"} THEN "pass" ELSE "fail"} ELSE {}

InstallReport == IF install = "failed" THEN {"fail"} ELSE {}

\* Slip: the worst status is handed on as it is.
Worst(reports) ==
  IF "fail" \in reports THEN "fail"
  ELSE IF "skipped" \in reports THEN "skipped" ELSE "pass"

\* aggregate_verdict
Aggregate(reports) ==
  IF "fail" \in reports THEN "fail_recoverable"
  ELSE IF "skipped" \in reports THEN "ambiguous" ELSE "pass"

-----------------------------------------------------------------------------
(* judge() *)

\* Slip: a unit without criteria of its own passes, its harness unseen.
CallSkippingHarness ==
  /\ gate = "idle" /\ gates < MaxCalls
  /\ gates' = gates + 1
  /\ arg' \in Calls
  /\ \E m \in 0 .. Manifests : deps' = [deps EXCEPT !.manifest = m]
  /\ IF arg'.unit /\ (Selected = {})'
     THEN gate' = "returned" /\ verdict' = "pass"
     ELSE gate' = "install" /\ verdict' = "none"
  /\ UNCHANGED <<failed, sink, install, raw, smoke>>

\* The builder has worked on the directory; a call begins.
Call ==
  /\ gate = "idle" /\ gates < MaxCalls
  /\ gates' = gates + 1
  /\ arg' \in Calls
  /\ \E m \in 0 .. Manifests : deps' = [deps EXCEPT !.manifest = m]
  /\ IF arg'.unit /\ (Selected = {})' /\ ~IsHarness'
     THEN gate' = "returned" /\ verdict' = "pass"
     ELSE gate' = "install" /\ verdict' = "none"
  /\ UNCHANGED <<failed, sink, install, raw, smoke>>

\* _manifest_hash: of the manifest and of the lock file beside it.
Digest == <<deps.manifest, deps.lock>>

\* Slip: the hash is recorded before the installer is run.
EnsureRecordingFirst(i) ==
  \/ /\ i = "none" /\ deps.manifest = 0
     /\ UNCHANGED <<deps, failed>>
  \/ /\ i = "cached" /\ deps.manifest # 0 /\ deps.sidecar = Digest
     /\ UNCHANGED <<deps, failed>>
  \/ /\ i \in {"ok", "failed"} /\ deps.manifest # 0 /\ deps.sidecar # Digest
     /\ failed' = IF i = "ok" THEN failed \ {Digest} ELSE failed \cup {Digest}
     /\ deps' = [deps EXCEPT !.sidecar = Digest, !.lock = @ \/ i = "ok"]

\* ensure_deps: npm may write a lock file, after the hash was taken.
EnsureDeps(i) ==
  \/ /\ i = "none" /\ deps.manifest = 0
     /\ UNCHANGED <<deps, failed>>
  \/ /\ i = "cached" /\ deps.manifest # 0 /\ deps.sidecar = Digest
     /\ UNCHANGED <<deps, failed>>
  \/ /\ i = "ok" /\ deps.manifest # 0 /\ deps.sidecar # Digest
     /\ failed' = failed \ {Digest}
     /\ \E lock \in {deps.lock, TRUE} :
          deps' = [deps EXCEPT !.sidecar = Digest, !.lock = lock]
  \/ /\ i = "failed" /\ deps.manifest # 0 /\ deps.sidecar # Digest
     /\ failed' = failed \cup {Digest}
     /\ UNCHANGED deps

Install ==
  /\ gate = "install" /\ gate' = "run"
  /\ \E i \in Installed : EnsureDeps(i) /\ install' = i
  /\ UNCHANGED <<arg, raw, smoke, verdict, sink, gates>>

\* A model call that fails in another way than by a stall is not caught.
JudgeRaises == gate' = "returned" /\ verdict' = "raised"

\* run_artifact, and judge_run_criteria where there is a judge.
Run ==
  /\ gate = "run"
  /\ IF "run" \notin Selected \/ ~arg.cmd
     THEN gate' = "judge" /\ UNCHANGED <<raw, verdict>>
     ELSE \E t \in Trace \ {"unrun"} :
            IF arg.client
            THEN \/ \E s \in Said \ {"unasked"} :
                      /\ raw' = [raw EXCEPT !.trace = t, !.run = s]
                      /\ gate' = "judge" /\ UNCHANGED verdict
                 \/ raw' = [raw EXCEPT !.trace = t] /\ JudgeRaises
            ELSE /\ raw' = [raw EXCEPT !.trace = t]
                 /\ gate' = "judge" /\ UNCHANGED verdict
  /\ UNCHANGED <<arg, deps, failed, install, smoke, sink, gates>>

\* judge_criteria
Judge ==
  /\ gate = "judge"
  /\ IF "judge" \notin Selected \/ ~arg.client
     THEN gate' = "rest" /\ UNCHANGED <<raw, verdict>>
     ELSE \/ \E s \in Said \ {"unasked"} :
               /\ raw' = [raw EXCEPT !.judge = s]
               /\ gate' = "rest" /\ UNCHANGED verdict
          \/ JudgeRaises /\ UNCHANGED raw
  /\ UNCHANGED <<arg, deps, failed, install, smoke, sink, gates>>

\* The other criteria, the harness's check of itself, and the verdict.
Rest ==
  /\ gate = "rest"
  /\ \E end \in IF "machine" \in Selected THEN Ended \ {"unrun"} ELSE {"unrun"},
        t \in IF Exercised THEN Trace \ {"unrun"} ELSE {"unrun"} :
       /\ raw' = [raw EXCEPT !.machine = end]
       /\ smoke' = t
       /\ verdict' = Aggregate({Status(k, end) : k \in Selected}
                               \cup ContractReport \cup HarnessReport(t)
                               \cup InstallReport)
  /\ gate' \in {"shadow", "returned"}     \* with a shadow judge, or without
  /\ UNCHANGED <<arg, deps, failed, install, sink, gates>>

\* compare_verdicts
Compared(v) ==
  IF v = verdict THEN "agreed"
  ELSE IF verdict = "pass" /\ v = "fail_recoverable" THEN "inverted" ELSE "differed"

\* ShadowComparingGate: a second gate, with another judge, goes through all of
\* the same; its verdict is only recorded and what it raises is swallowed, but
\* it may install what the first one could not.
Shadow ==
  /\ gate = "shadow" /\ gate' = "returned"
  /\ \E i \in Installed : EnsureDeps(i)
  /\ \/ \E v \in {"pass", "fail_recoverable", "ambiguous"} : sink' = Compared(v)
     \/ UNCHANGED sink
  /\ UNCHANGED <<arg, install, raw, smoke, verdict, gates>>

\* Nothing of a call is left but the work directory.
HandOver ==
  /\ gate = "returned" /\ gate' = "idle"
  /\ arg' = NoArgs /\ install' = "none" /\ raw' = Unseen /\ smoke' = "unrun"
  /\ verdict' = "none" /\ sink' = "nothing"
  /\ UNCHANGED <<deps, failed, gates>>

GateNext == Call \/ Install \/ Run \/ Judge \/ Rest \/ Shadow \/ HandOver

GateSpec == GateInit /\ [][GateNext]_gateVars

-----------------------------------------------------------------------------
(* Properties *)

\* A pass rests on every selected criterion: its command ended well, the judge
\* passed it in so many words, or, without a judge, the artifact booted.  No
\* stall, no garbled or missing answer, no failed installation and no other
\* judge's opinion makes a pass ("가짜 pass 금지").
NoFakePass ==
  verdict = "pass" =>
    /\ install # "failed"
    /\ \A k \in Selected :
         CASE k = "machine" -> raw.machine = "ok"
           [] k = "judge" -> arg.client /\ raw.judge = "pass"
           [] k = "run" -> IF arg.client THEN raw.run = "pass" ELSE Booted(raw.trace)

\* The unit that builds the trace harness passes only if the harness was run
\* and printed some field of the evidence contract, also when the unit has no
\* criterion of its own; at integration whatever was run printed every field
\* (that it did not crash after is for the judge to say).
HollowHarnessIsCaught ==
  verdict = "pass" =>
    /\ Exercised => smoke \in {"some", "all"}
    /\ (~arg.unit /\ arg.contract) => raw.trace = "unrun" \/ Printed(raw.trace)

\* An installation is skipped only for a manifest that was last installed with
\* success: a failed one is tried again at the next gate, not taken as done,
\* whichever of the two gates tried it last.
FailedInstallIsRetried == install = "cached" => Digest \notin failed
=============================================================================
