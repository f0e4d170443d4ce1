----------------------------- MODULE RunManager -----------------------------
(***************************************************************************)
(* The control surface of the dashboard: RunManager of dashboard.py, whose *)
(* launch, stop and status resolution run in one thread per HTTP request,  *)
(* beside the processes it spawns, as far as run.py:main touches meta.json *)
(* and answers signals.                                                    *)
(*                                                                         *)
(* Each step of a request is a call that reads or writes what another      *)
(* thread or process shares: the runs directory, the registry, a record in *)
(* it, meta.json (write_text truncates and then writes) or a process.      *)
(*                                                                         *)
(* Abstractions: the orders launched give the same time stamp and slug, so *)
(* that run ids are the base (1) and its numbered variants; of meta.json   *)
(* the status is kept, of an exit code whether it is 0.  Requests that are *)
(* refused (400, 403, 404) change nothing and are left out.                *)
(***************************************************************************)
EXTENDS Naturals, FiniteSets

CONSTANTS
  Req,        \* threads of the server that serve requests
  MaxId,      \* bound: run ids of one base
  MaxLaunch,  \* bound: processes launched
  MaxEvents   \* bound: processes launched and restarts of the server

ASSUME ManagerAssumption ==
  MaxId \in Nat \ {0} /\ MaxLaunch \in Nat \ {0} /\ MaxEvents \in Nat

Launch   == 1 .. MaxLaunch
Id       == 1 .. MaxId
Terminal == {"stopped", "finished", "failed"}
Status   == Terminal \cup {"running"}

VARIABLES
  dirs,    \* ids with a directory in runs_dir
  reg,     \* _runs: per id, the launch its record is about (0: no record)
  rec,     \* per launch: the status in that record
  meta,    \* per id: meta.json, absent, empty, garbled, or the status it has
  proc,    \* per launch: the process
  sig,     \* per launch: signals sent to it while it lives
  req,     \* per request thread: where it is, the id, launch, status it has
  restarts \* restarts of the server

managerVars == <<dirs, reg, rec, meta, proc, sig, req, restarts>>

IdleReq == [pc |-> "idle", id |-> 0, p |-> 0, status |-> "running"]

ManagerTypeOK ==
  /\ dirs \subseteq Id
  /\ reg \in [Id -> 0 .. MaxLaunch]
  /\ rec \in [Launch -> Status]
  /\ meta \in [Id -> {"absent", "empty", "garbled"} \cup Status]
  /\ proc \in [Launch ->
       [st : {"none", "starting", "truncate", "write", "run", "cleaning", "exited"},
        id : 0 .. MaxId, ok : BOOLEAN, server : 0 .. MaxEvents]]
  /\ sig \in [Launch -> SUBSET {"INT", "TERM", "KILL"}]
  /\ req \in [Req ->
       [pc : {"idle", "spawn", "truncate", "write", "register", "intWait",
              "termWait", "seal", "label", "read", "rewrite", "overwrite"},
        id : 0 .. MaxId, p : 0 .. MaxLaunch, status : Status]]
  /\ restarts \in 0 .. MaxEvents

ManagerInit ==
  /\ dirs = {}
  /\ reg = [i \in Id |-> 0]
  /\ rec = [p \in Launch |-> "running"]
  /\ meta = [i \in Id |-> "absent"]
  /\ proc = [p \in Launch |-> [st |-> "none", id |-> 0, ok |-> FALSE, server |-> 0]]
  /\ sig = [p \in Launch |-> {}]
  /\ req = [r \in Req |-> IdleReq]
  /\ restarts = 0

Launches == Cardinality({p \in Launch : proc[p].st # "none"})
Alive(p) == proc[p].st \notin {"none", "exited"}
Begin(r, pc, i, p) ==
  req' = [req EXCEPT ![r] = [pc |-> pc, id |-> i, p |-> p, status |-> "running"]]
Goto(r, pc) == req' = [req EXCEPT ![r].pc = pc]
Done(r)     == req' = [req EXCEPT ![r] = IdleReq]

\* write_text on an open file: what another writer put there since it was
\* truncated is overwritten, its tail perhaps not.
Written(i, s) == {s} \cup IF meta[i] = "empty" THEN {} ELSE {"garbled"}

-----------------------------------------------------------------------------
(* launch *)

\* _unique_run_id: neither the directory nor the registry is locked.
FreeId == {i \in Id : /\ i \notin dirs /\ reg[i] = 0
                      /\ \A j \in 1 .. i - 1 : j \in dirs \/ reg[j] # 0}

PickId(r) ==
  /\ req[r].pc = "idle"
  /\ \E i \in FreeId : Begin(r, "spawn", i, 0)
  /\ UNCHANGED <<dirs, reg, rec, meta, proc, sig, restarts>>

\* mkdir with exist_ok, then Popen.  If that fails the directory stays (500).
Spawn(r) ==
  /\ req[r].pc = "spawn"
  /\ dirs' = dirs \cup {req[r].id}
  /\ \/ \E p \in Launch :
          /\ Launches + restarts < MaxEvents
          /\ proc[p].st = "none" /\ \A q \in 1 .. p - 1 : proc[q].st # "none"
          /\ proc' = [proc EXCEPT ![p] = [st |-> "starting", id |-> req[r].id,
                                          ok |-> FALSE, server |-> restarts]]
          /\ req' = [req EXCEPT ![r].pc = "truncate", ![r].p = p]
     \/ Done(r) /\ UNCHANGED proc
  /\ UNCHANGED <<reg, rec, meta, sig, restarts>>

\* Slip: a launch whose meta.json cannot be written is given up.
TruncateOrGiveUp(r) ==
  /\ req[r].pc = "truncate"
  /\ \/ meta' = [meta EXCEPT ![req[r].id] = "empty"] /\ Goto(r, "write")
     \/ Done(r) /\ UNCHANGED meta
  /\ UNCHANGED <<dirs, reg, rec, proc, sig, restarts>>

\* _write_meta.  A failure to write is swallowed.
TruncateMeta(r) ==
  /\ req[r].pc = "truncate"
  /\ \/ meta' = [meta EXCEPT ![req[r].id] = "empty"] /\ Goto(r, "write")
     \/ Goto(r, "register") /\ UNCHANGED meta
  /\ UNCHANGED <<dirs, reg, rec, proc, sig, restarts>>

WriteMeta(r) ==
  /\ req[r].pc = "write"
  /\ \E m \in Written(req[r].id, "running") : meta' = [meta EXCEPT ![req[r].id] = m]
  /\ Goto(r, "register")
  /\ UNCHANGED <<dirs, reg, rec, proc, sig, restarts>>

\* Slip: the process is in the registry before its meta.json is written.
RegisterEarly(r) ==
  /\ req[r].pc \in {"truncate", "register"}
  /\ reg' = [reg EXCEPT ![req[r].id] = req[r].p]
  /\ IF req[r].pc = "register" THEN Done(r) ELSE UNCHANGED req
  /\ UNCHANGED <<dirs, rec, meta, proc, sig, restarts>>

Register(r) ==
  /\ req[r].pc = "register"
  /\ reg' = [reg EXCEPT ![req[r].id] = req[r].p]
  /\ Done(r)
  /\ UNCHANGED <<dirs, rec, meta, proc, sig, restarts>>

-----------------------------------------------------------------------------
(* stop *)

Send(p, s) == sig' = IF proc[p].st = "exited" THEN sig
                     ELSE [sig EXCEPT ![p] = @ \cup {s}]

StopRun(r) ==
  /\ req[r].pc = "idle"
  /\ \E i \in Id :
       /\ reg[i] # 0
       /\ Send(reg[i], "INT")
       /\ Begin(r, "intWait", i, reg[i])
  /\ UNCHANGED <<dirs, reg, rec, meta, proc, restarts>>

\* popen.wait returns
Waited(r) ==
  /\ req[r].pc \in {"intWait", "termWait"}
  /\ proc[req[r].p].st = "exited"
  /\ Goto(r, "seal")
  /\ UNCHANGED <<dirs, reg, rec, meta, proc, sig, restarts>>

\* Slip: SIGTERM is believed to be enough: the second wait has no limit.
WaitForever(r) ==
  /\ req[r].pc = "intWait" /\ proc[req[r].p].st # "exited"
  /\ Send(req[r].p, "TERM") /\ Goto(r, "termWait")
  /\ UNCHANGED <<dirs, reg, rec, meta, proc, restarts>>

\* popen.wait times out: SIGTERM, then SIGKILL, after which it is not awaited.
Escalate(r) ==
  /\ req[r].pc \in {"intWait", "termWait"} /\ proc[req[r].p].st # "exited"
  /\ \/ req[r].pc = "intWait" /\ Send(req[r].p, "TERM") /\ Goto(r, "termWait")
     \/ req[r].pc = "termWait" /\ Send(req[r].p, "KILL") /\ Goto(r, "seal")
  /\ UNCHANGED <<dirs, reg, rec, meta, proc, restarts>>

Seal(r) ==
  /\ req[r].pc = "seal"
  /\ rec' = [rec EXCEPT ![req[r].p] = "stopped"]
  /\ req' = [req EXCEPT ![r].pc = "read", ![r].status = "stopped"]
  /\ UNCHANGED <<dirs, reg, meta, proc, sig, restarts>>

-----------------------------------------------------------------------------
(* list_runs, status_of, _live_status *)

\* Slip: what does not run any more has finished.
ExitIsSuccess(r) ==
  /\ req[r].pc = "idle"
  /\ \E i \in Id :
       /\ meta[i] \in Status /\ reg[i] # 0
       /\ rec[reg[i]] # "stopped" /\ proc[reg[i]].st = "exited"
       /\ req' = [req EXCEPT ![r] = [pc |-> "label", id |-> i, p |-> reg[i],
                                     status |-> "finished"]]
  /\ UNCHANGED <<dirs, reg, rec, meta, proc, sig, restarts>>

\* A run is listed if its meta.json can be read; its record, if there is one,
\* is polled unless it says stopped.  What is still running changes nothing.
PollRun(r) ==
  /\ req[r].pc = "idle"
  /\ \E i \in Id :
       /\ meta[i] \in Status /\ reg[i] # 0
       /\ rec[reg[i]] # "stopped" /\ proc[reg[i]].st = "exited"
       /\ rec[reg[i]] = "running" \/ meta[i] # rec[reg[i]]   \* else it repeats itself
       /\ req' = [req EXCEPT ![r] =
            [pc |-> "label", id |-> i, p |-> reg[i],
             status |-> IF proc[reg[i]].ok THEN "finished" ELSE "failed"]]
  /\ UNCHANGED <<dirs, reg, rec, meta, proc, sig, restarts>>

\* Slip: a process that cannot be polled has an unknown status.
LabelUnknown(r) ==
  /\ req[r].pc = "label"
  /\ rec' = [rec EXCEPT ![req[r].p] = "unknown"]
  /\ Goto(r, "read")
  /\ UNCHANGED <<dirs, reg, meta, proc, sig, restarts>>

Label(r) ==
  /\ req[r].pc = "label"
  /\ rec' = [rec EXCEPT ![req[r].p] = req[r].status]
  /\ Goto(r, "read")
  /\ UNCHANGED <<dirs, reg, meta, proc, sig, restarts>>

\* _persist_status: read, and if the status differs truncate and write.
ReadMeta(r) ==
  /\ req[r].pc = "read"
  /\ IF meta[req[r].id] \in Status \ {req[r].status} THEN Goto(r, "rewrite") ELSE Done(r)
  /\ UNCHANGED <<dirs, reg, rec, meta, proc, sig, restarts>>

Rewrite(r) ==
  /\ req[r].pc = "rewrite"
  /\ \/ meta' = [meta EXCEPT ![req[r].id] = "empty"] /\ Goto(r, "overwrite")
     \/ Done(r) /\ UNCHANGED meta
  /\ UNCHANGED <<dirs, reg, rec, proc, sig, restarts>>

Overwrite(r) ==
  /\ req[r].pc = "overwrite"
  /\ \E m \in Written(req[r].id, req[r].status) : meta' = [meta EXCEPT ![req[r].id] = m]
  /\ Done(r)
  /\ UNCHANGED <<dirs, reg, rec, proc, sig, restarts>>

-----------------------------------------------------------------------------
(* The process of a run: main, _write_cli_meta *)

Exits(p, ok) ==
  /\ proc' = [proc EXCEPT ![p].st = "exited", ![p].ok = ok]
  /\ sig' = [sig EXCEPT ![p] = {}]
OnlyProc == UNCHANGED <<dirs, reg, rec, meta, req, restarts>>

\* It writes a meta.json unless there is one.
CheckMeta(p) ==
  /\ proc[p].st = "starting" /\ "KILL" \notin sig[p]
  /\ proc' = [proc EXCEPT ![p].st =
                IF meta[proc[p].id] = "absent" THEN "truncate" ELSE "run"]
  /\ OnlyProc /\ UNCHANGED sig

CliTruncate(p) ==
  /\ proc[p].st = "truncate" /\ "KILL" \notin sig[p]
  /\ meta' = [meta EXCEPT ![proc[p].id] = "empty"]
  /\ proc' = [proc EXCEPT ![p].st = "write"]
  /\ UNCHANGED <<dirs, reg, rec, sig, req, restarts>>

CliWrite(p) ==
  /\ proc[p].st = "write" /\ "KILL" \notin sig[p]
  /\ \E m \in Written(proc[p].id, "running") : meta' = [meta EXCEPT ![proc[p].id] = m]
  /\ proc' = [proc EXCEPT ![p].st = "run"]
  /\ UNCHANGED <<dirs, reg, rec, sig, req, restarts>>

\* run returns or raises; before it is called, something may be refused.
End(p) ==
  /\ Alive(p)
  /\ \/ proc[p].st \in {"run", "cleaning"} /\ Exits(p, TRUE)
     \/ proc[p].st \in {"starting", "run"} /\ Exits(p, FALSE)
  /\ OnlyProc

\* KeyboardInterrupt: caught around run, which cleans up and returns 0;
\* fatal before it.
Interrupted(p) ==
  /\ Alive(p) /\ "INT" \in sig[p] /\ proc[p].st # "cleaning"
  /\ IF proc[p].st # "run" THEN Exits(p, FALSE)
     ELSE proc' = [proc EXCEPT ![p].st = "cleaning"] /\ UNCHANGED sig
  /\ OnlyProc

Terminated(p) == Alive(p) /\ "TERM" \in sig[p] /\ Exits(p, FALSE) /\ OnlyProc
Killed(p)     == Alive(p) /\ "KILL" \in sig[p] /\ Exits(p, FALSE) /\ OnlyProc

\* The server ends and is started again: its registry is empty, what its
\* threads were doing is not continued.  A Ctrl-C also reaches the processes.
Restart ==
  /\ Launches + restarts < MaxEvents
  /\ restarts' = restarts + 1
  /\ reg' = [i \in Id |-> 0]
  /\ rec' = [p \in Launch |-> "running"]
  /\ req' = [r \in Req |-> IdleReq]
  /\ \E interrupt \in BOOLEAN :
       sig' = [p \in Launch |-> sig[p] \cup IF interrupt /\ Alive(p) THEN {"INT"} ELSE {}]
  /\ UNCHANGED <<dirs, meta, proc>>

LaunchStep(r) == Spawn(r) \/ TruncateMeta(r) \/ WriteMeta(r) \/ Register(r)
StopStep(r)   == Waited(r) \/ Escalate(r) \/ Seal(r)
StatusStep(r) == Label(r) \/ ReadMeta(r) \/ Rewrite(r) \/ Overwrite(r)
RequestStep(r) == LaunchStep(r) \/ StopStep(r) \/ StatusStep(r)
ProcStep(p)   == \/ CheckMeta(p) \/ CliTruncate(p) \/ CliWrite(p) \/ End(p)
                 \/ Interrupted(p) \/ Terminated(p) \/ Killed(p)

ManagerNext ==
  \/ \E r \in Req : PickId(r) \/ StopRun(r) \/ PollRun(r) \/ RequestStep(r)
  \/ \E p \in Launch : ProcStep(p)
  \/ Restart

-----------------------------------------------------------------------------
\* Two launches that chose the same id: there is no lock to prevent it.
Shared(i) == Cardinality({p \in Launch : proc[p].id = i}) > 1

Launching(p) == \E r \in Req : req[r].p = p /\ req[r].pc \in {"truncate", "write", "register"}

(***************************************************************************)
(* A process this server launched and did not share its id can be stopped: *)
(* as long as it lives its record is the one under its id, or the launch   *)
(* is still under way (dashboard.py:launch, _unique_run_id).               *)
(***************************************************************************)
ManagedIsReachable ==
  \A p \in Launch :
    Alive(p) /\ proc[p].server = restarts /\ ~Launching(p) /\ ~Shared(proc[p].id)
      => reg[proc[p].id] = p

(***************************************************************************)
(* What meta.json says of a run that has its id to itself is true: a       *)
(* terminal status only for a process that is gone or was sent SIGKILL,    *)
(* "finished" only for exit code 0, "failed" only for another.             *)
(***************************************************************************)
StatusIsTruth ==
  \A p \in Launch :
    LET m == meta[proc[p].id]
    IN  proc[p].st # "none" /\ ~Shared(proc[p].id) =>
          /\ m \in Terminal => ~Alive(p) \/ "KILL" \in sig[p]
          /\ m = "finished" => proc[p].ok
          /\ m = "failed" => ~proc[p].ok

(***************************************************************************)
(* A stop ends the process it is about, whatever that does with the        *)
(* signals, if the server is not restarted before it could escalate.       *)
(***************************************************************************)
StopEnds ==
  \A p \in Launch :
    (proc[p].server = restarts /\ \E r \in Req : req[r].p = p /\ req[r].pc = "intWait")
      ~> (~Alive(p) \/ proc[p].server # restarts)
=============================================================================
