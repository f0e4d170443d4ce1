--------------------------- MODULE DashboardProofs ---------------------------
(***************************************************************************)
(* Proofs about the dashboard and the telemetry it reads, for any number   *)
(* of request threads, run ids, launches and restarts.                     *)
(*                                                                         *)
(* The manager: what a terminal status in meta.json says is true of one    *)
(* launch whose request is over, and stays true of it (MetaIsTrue). That   *)
(* is why a request about another launch of the same id is the only thing  *)
(* that can make it wrong.                                                 *)
(*                                                                         *)
(* The sidecars: _evict picks from what it is given and leaves no more     *)
(* ended calls than the cap (EvictKeeps, CallsKept), so that one of a      *)
(* file's inodes is always unused. With one thread, whatever is open to be *)
(* written is the temporary file of the one flush under way (WritesAlone), *)
(* and what is under the name is a whole sidecar (OneThreadInv).           *)
(***************************************************************************)
EXTENDS Dashboard, FiniteSetTheorems, SequenceTheorems, TLAPS

-----------------------------------------------------------------------------
(* The manager: the inductive invariant *)

LaunchPc == {"truncate", "write", "register"}
StatusPc == {"label", "read", "rewrite", "overwrite"}
AboutPc  == {"intWait", "termWait", "seal"} \cup StatusPc

Launched(p) == p \in Launch /\ proc[p].st # "none"

\* The request that launched p is over, one way or another.
Settled(p) == Launched(p) /\ ~Launching(p)

Gone(p) == ~Alive(p) \/ "KILL" \in sig[p]

SaysTruth(p, s) ==
  /\ s = "stopped"  => Gone(p)
  /\ s = "finished" => proc[p].st = "exited" /\ proc[p].ok = TRUE
  /\ s = "failed"   => proc[p].st = "exited" /\ proc[p].ok = FALSE

\* What a request knows of the launch it is about.
RequestKnows(r) ==
  LET p == req[r].p
  IN  /\ req[r].pc # "idle" => req[r].id \in Id
      /\ req[r].pc \in LaunchPc \cup AboutPc => Launched(p) /\ proc[p].id = req[r].id
      /\ req[r].pc \in AboutPc => Settled(p)
      /\ req[r].pc = "seal" => Gone(p)
      /\ req[r].pc \in StatusPc => req[r].status \in Terminal /\ SaysTruth(p, req[r].status)

LaunchedOnce ==
  \A r, s \in Req :
    {req[r].pc, req[s].pc} \subseteq LaunchPc /\ req[r].p = req[s].p => r = s

LaunchesAreTyped ==
  \A p \in Launch :
    IF Launched(p) THEN proc[p].id \in Id /\ proc[p].server <= restarts
                   ELSE proc[p].id = 0

RegistryIsTrue ==
  \A i \in Id : reg[i] # 0 => Settled(reg[i]) /\ proc[reg[i]].id = i

MetaIsTrue ==
  \A i \in Id : meta[i] \in Terminal =>
    \E p \in Launch : Settled(p) /\ proc[p].id = i /\ SaysTruth(p, meta[i])

ManagerInv ==
  /\ ManagerTypeOK
  /\ \A r \in Req : RequestKnows(r)
  /\ LaunchedOnce /\ LaunchesAreTyped
  /\ RegistryIsTrue /\ MetaIsTrue
  /\ ManagedIsReachable

-----------------------------------------------------------------------------
(* The manager: what every step leaves alone *)

\* The bounds, and that 0 is no launch.
LEMMA Bounds ==
  /\ MaxId \in Nat /\ MaxLaunch \in Nat /\ MaxEvents \in Nat
  /\ Launch = 1 .. MaxLaunch /\ 0 \notin Launch
  /\ Id = 1 .. MaxId /\ 0 \notin Id
BY ManagerAssumption DEF Launch, Id

(***************************************************************************)
(* A launched process keeps its id and its server, an exit is final and so *)
(* is what was sent with SIGKILL.                                          *)
(***************************************************************************)
GoesOn ==
  \A p \in Launch : Launched(p) =>
    /\ proc'[p].st # "none"
    /\ proc'[p].id = proc[p].id /\ proc'[p].server = proc[p].server
    /\ proc[p].st = "exited" => proc'[p].st = "exited" /\ proc'[p].ok = proc[p].ok
    /\ Gone(p) => Gone(p)'

\* A request, on its way, does nothing to a process but signal it.
LEMMA SignalsGoOn ==
  ASSUME ManagerTypeOK, proc' = proc,
         \A p \in Launch : Alive(p) => sig[p] \subseteq sig'[p]
  PROVE  GoesOn
BY DEF GoesOn, Launched, Gone, Alive

\* Sending a signal only adds to what was sent.
LEMMA SendAdds ==
  ASSUME ManagerTypeOK, NEW q, NEW s, Send(q, s)
  PROVE  \A p \in Launch : sig[p] \subseteq sig'[p]
BY DEF Send, ManagerTypeOK

\* Nothing is changed of the requests but r's record.
OnlyRequest(r) == \A s \in Req \ {r} : req'[s] = req[s]

\* A request changes its own record and no other's.
LEMMA RequestIsAlone ==
  ASSUME ManagerTypeOK, NEW r \in Req,
         PickId(r) \/ StopRun(r) \/ PollRun(r) \/ RequestStep(r)
  PROVE  OnlyRequest(r)
BY DEF PickId, StopRun, PollRun, RequestStep, LaunchStep, StopStep, StatusStep,
       Spawn, TruncateMeta, WriteMeta, Register, Waited, Escalate, Seal, Label,
       ReadMeta, Rewrite, Overwrite, Begin, Goto, Done, OnlyRequest, ManagerTypeOK

\* What a process does changes no other.
LEMMA ProcessesGoOn ==
  ASSUME ManagerTypeOK, NEW q \in Launch, ProcStep(q)
  PROVE  /\ GoesOn
         /\ \A p \in Launch : proc'[p].st # "none" => proc[p].st # "none"
         /\ UNCHANGED <<reg, rec, req, restarts, dirs>>
<1>1. UNCHANGED <<reg, rec, req, restarts, dirs>>
  BY DEF ProcStep, CheckMeta, CliTruncate, CliWrite, End, Interrupted,
         Terminated, Killed, OnlyProc
<1>2. proc[q].st \notin {"none", "exited"}
  BY DEF ProcStep, CheckMeta, CliTruncate, CliWrite, End, Interrupted,
         Terminated, Killed, Alive
<1>3. CASE \E st \in {"truncate", "write", "run", "cleaning"} :
             proc' = [proc EXCEPT ![q].st = st] /\ sig' = sig
  BY <1>2, <1>3, <1>1 DEF GoesOn, Launched, Gone, Alive, ManagerTypeOK
<1>4. CASE \E ok \in BOOLEAN : Exits(q, ok)
  BY <1>2, <1>4, <1>1 DEF Exits, GoesOn, Launched, Gone, Alive, ManagerTypeOK
<1>. QED
  BY <1>3, <1>4
     DEF ProcStep, CheckMeta, CliTruncate, CliWrite, End, Interrupted,
         Terminated, Killed

\* No step undoes what a launched process is, or was sent.
LEMMA NextGoesOn ==
  ASSUME ManagerTypeOK, ManagerNext
  PROVE  GoesOn
<1>1. ASSUME NEW r \in Req, PickId(r) \/ PollRun(r)
      PROVE  GoesOn
  BY <1>1, SignalsGoOn DEF PickId, PollRun
<1>2. ASSUME NEW r \in Req, StopRun(r)
      PROVE  GoesOn
  <2>1. PICK i \in Id : Send(reg[i], "INT")
    BY <1>2 DEF StopRun
  <2>. QED
    BY <1>2, <2>1, SendAdds, SignalsGoOn DEF StopRun
<1>3. ASSUME NEW r \in Req, Spawn(r)
      PROVE  GoesOn
  BY <1>3 DEF Spawn, GoesOn, Launched, Gone, Alive, ManagerTypeOK
<1>4. ASSUME NEW r \in Req, TruncateMeta(r) \/ WriteMeta(r) \/ Register(r)
      PROVE  GoesOn
  BY <1>4, SignalsGoOn DEF TruncateMeta, WriteMeta, Register
<1>5. ASSUME NEW r \in Req, StopStep(r)
      PROVE  GoesOn
  <2>1. CASE Waited(r) \/ Seal(r)
    BY <2>1, SignalsGoOn DEF Waited, Seal
  <2>2. CASE Escalate(r)
    BY <2>2, SendAdds, SignalsGoOn DEF Escalate
  <2>. QED
    BY <1>5, <2>1, <2>2 DEF StopStep
<1>6. ASSUME NEW r \in Req, StatusStep(r)
      PROVE  GoesOn
  BY <1>6, SignalsGoOn DEF StatusStep, Label, ReadMeta, Rewrite, Overwrite
<1>7. ASSUME NEW p \in Launch, ProcStep(p)
      PROVE  GoesOn
  BY <1>7, ProcessesGoOn
<1>8. CASE Restart
  <2>1. proc' = proc
    BY <1>8 DEF Restart
  <2>2. \A p \in Launch : sig[p] \subseteq sig'[p]
    BY <1>8 DEF Restart
  <2>. QED
    BY <2>1, <2>2, SignalsGoOn
<1>. QED
  BY <1>1, <1>2, <1>3, <1>4, <1>5, <1>6, <1>7, <1>8
     DEF ManagerNext, RequestStep, LaunchStep

\* A request launches what it launched before, or a launch that is new.
LEMMA LaunchesBegin ==
  ASSUME ManagerTypeOK, NEW r \in Req,
         PickId(r) \/ StopRun(r) \/ PollRun(r) \/ RequestStep(r),
         req'[r].pc \in LaunchPc
  PROVE  \/ req[r].pc \in LaunchPc /\ req[r].p = req'[r].p
         \/ Spawn(r) /\ req'[r].p \in Launch /\ ~Launched(req'[r].p)
<1>1. CASE Spawn(r)
  <2>1. ~Done(r)
    BY DEF Done, IdleReq, LaunchPc, ManagerTypeOK
  <2>2. PICK x \in Launch : /\ proc[x].st = "none"
                            /\ req' = [req EXCEPT ![r].pc = "truncate", ![r].p = x]
    BY <1>1, <2>1 DEF Spawn
  <2>3. req'[r].p = x
    BY <2>2 DEF ManagerTypeOK
  <2>. QED
    BY <1>1, <2>2, <2>3 DEF Launched
<1>2. CASE PickId(r) \/ StopRun(r) \/ PollRun(r)
  <2>1. req'[r].pc \in {"spawn", "intWait", "label"}
    BY <1>2 DEF PickId, StopRun, PollRun, Begin, ManagerTypeOK
  <2>. QED
    BY <2>1 DEF LaunchPc
<1>3. CASE Register(r)
  BY <1>3 DEF Register, Done, IdleReq, LaunchPc, ManagerTypeOK
<1>4. CASE StopStep(r)
  BY <1>4 DEF StopStep, Waited, Escalate, Seal, Goto, LaunchPc, ManagerTypeOK
<1>5. CASE StatusStep(r)
  BY <1>5 DEF StatusStep, Label, ReadMeta, Rewrite, Overwrite, Goto, Done,
              IdleReq, LaunchPc, ManagerTypeOK
<1>6. CASE TruncateMeta(r) \/ WriteMeta(r)
  BY <1>6 DEF TruncateMeta, WriteMeta, Goto, LaunchPc, ManagerTypeOK
<1>. QED
  BY <1>1, <1>2, <1>3, <1>4, <1>5, <1>6 DEF RequestStep, LaunchStep

\* A launch that is over does not begin again.
LEMMA SettledStays ==
  ASSUME ManagerTypeOK, ManagerNext, NEW p, Settled(p)
  PROVE  Settled(p)'
<1>1. p \in Launch /\ proc[p].st # "none" /\ ~Launching(p)
  BY DEF Settled, Launched
<1>2. Launched(p)'
  BY <1>1, NextGoesOn DEF GoesOn, Launched
<1>3. CASE req' = req
  BY <1>1, <1>2, <1>3 DEF Settled, Launching
<1>4. CASE Restart
  BY <1>2, <1>4 DEF Restart, Settled, Launching, IdleReq
<1>5. ASSUME NEW r \in Req,
             PickId(r) \/ StopRun(r) \/ PollRun(r) \/ RequestStep(r)
      PROVE  ~Launching(p)'
  <2>1. OnlyRequest(r)
    BY <1>5, RequestIsAlone
  <2>2. req'[r].pc \in LaunchPc /\ req'[r].p = p => req[r].pc \in LaunchPc /\ req[r].p = p
    BY <1>1, <1>5, LaunchesBegin DEF Launched
  <2>. QED
    BY <1>1, <2>1, <2>2 DEF Launching, OnlyRequest, LaunchPc
<1>6. ASSUME NEW q \in Launch, ProcStep(q)
      PROVE  req' = req
  BY <1>6, ProcessesGoOn
<1>. QED
  BY <1>2, <1>3, <1>4, <1>5, <1>6 DEF ManagerNext, Settled

\* What was true of a launched process stays true.
LEMMA TruthStays ==
  ASSUME GoesOn, NEW p, Launched(p), NEW s, SaysTruth(p, s)
  PROVE  SaysTruth(p, s)'
BY DEF GoesOn, SaysTruth, Launched, Gone

\* A request that does not move keeps knowing what it knew.
LEMMA KnowsStays ==
  ASSUME ManagerTypeOK, ManagerNext, NEW r \in Req, RequestKnows(r),
         req'[r] = req[r]
  PROVE  RequestKnows(r)'
<1>. DEFINE p == req[r].p
<1>1. GoesOn
  BY NextGoesOn
<1>2. req[r].pc \in AboutPc => Settled(p)'
  BY SettledStays DEF RequestKnows
<1>3. req[r].pc \in LaunchPc \cup AboutPc => Launched(p)' /\ proc'[p].id = req[r].id
  BY <1>1 DEF RequestKnows, GoesOn, Launched
<1>4. req[r].pc = "seal" => Gone(p)'
  BY <1>1 DEF RequestKnows, GoesOn, Launched, AboutPc
<1>5. req[r].pc \in StatusPc => SaysTruth(p, req[r].status)'
  BY TruthStays, <1>1 DEF RequestKnows, AboutPc
<1>. QED
  BY <1>2, <1>3, <1>4, <1>5 DEF RequestKnows, Gone, Alive, Settled, Launched,
     Launching, SaysTruth

-----------------------------------------------------------------------------
(* The manager: types *)

\* A status that is written is what is read, or not to be read.
LEMMA WrittenTypes ==
  ASSUME NEW i, NEW s \in Status
  PROVE  Written(i, s) \subseteq {"absent", "empty", "garbled"} \cup Status
BY DEF Written

\* The record of a launch keeps its type whatever its state becomes.
LEMMA ProcTypes ==
  ASSUME ManagerTypeOK, NEW q \in Launch, ProcStep(q)
  PROVE  ManagerTypeOK'
<1>. DEFINE Meta == {"absent", "empty", "garbled"} \cup Status
<1>1. UNCHANGED <<reg, rec, req, restarts, dirs>>
  BY ProcessesGoOn
<1>2. ASSUME meta' \in [Id -> Meta],
             \/ sig' = sig /\ \E st \in {"truncate", "write", "run", "cleaning"} :
                                proc' = [proc EXCEPT ![q].st = st]
             \/ \E ok \in BOOLEAN : Exits(q, ok)
      PROVE  ManagerTypeOK'
  <2>. DEFINE St      == {"none", "starting", "truncate", "write", "run", "cleaning", "exited"}
              Process == [st : St, id : 0 .. MaxId, ok : BOOLEAN, server : 0 .. MaxEvents]
  <2>1. proc \in [Launch -> Process] /\ sig \in [Launch -> SUBSET {"INT", "TERM", "KILL"}]
    BY DEF ManagerTypeOK
  <2>2. \A x \in Process : \A c \in St, b \in BOOLEAN :
          [x EXCEPT !.st = c] \in Process /\ [x EXCEPT !.st = c, !.ok = b] \in Process
    OBVIOUS
  <2>. HIDE DEF Process
  <2>3. CASE \E st \in {"truncate", "write", "run", "cleaning"} :
               proc' = [proc EXCEPT ![q].st = st] /\ sig' = sig
    <3>1. PICK c \in St : proc' = [proc EXCEPT ![q] = [proc[q] EXCEPT !.st = c]]
      BY <2>1, <2>3
    <3>2. proc' \in [Launch -> Process]
      BY <2>1, <2>2, <3>1
    <3>. QED
      BY <1>1, <1>2, <2>1, <2>3, <3>2 DEF ManagerTypeOK, Process
  <2>4. CASE \E ok \in BOOLEAN : Exits(q, ok)
    <3>1. PICK ok \in BOOLEAN :
            proc' = [proc EXCEPT ![q].st = "exited", ![q].ok = ok] /\ sig' = [sig EXCEPT ![q] = {}]
      BY <2>4 DEF Exits
    <3>2. proc' = [proc EXCEPT ![q] = [proc[q] EXCEPT !.st = "exited", !.ok = ok]]
      BY <2>1, <3>1 DEF Process
    <3>3. proc' \in [Launch -> Process]
      BY <2>1, <2>2, <3>2
    <3>4. sig' \in [Launch -> SUBSET {"INT", "TERM", "KILL"}]
      BY <2>1, <3>1
    <3>. QED
      BY <1>1, <1>2, <3>3, <3>4 DEF ManagerTypeOK, Process
  <2>. QED
    BY <1>2, <2>3, <2>4
<1>3. CASE CliTruncate(q)
  BY <1>2, <1>3 DEF CliTruncate, ManagerTypeOK
<1>4. CASE CliWrite(q)
  <2>1. PICK m \in Written(proc[q].id, "running") : meta' = [meta EXCEPT ![proc[q].id] = m]
    BY <1>4 DEF CliWrite
  <2>2. m \in Meta
    BY WrittenTypes DEF Status
  <2>3. meta' \in [Id -> Meta]
    BY <2>1, <2>2 DEF ManagerTypeOK
  <2>. QED
    BY <1>2, <1>4, <2>3 DEF CliWrite
<1>5. CASE CheckMeta(q) \/ End(q) \/ Interrupted(q) \/ Terminated(q) \/ Killed(q)
  <2>1. meta' \in [Id -> Meta]
    BY <1>5 DEF CheckMeta, End, Interrupted, Terminated, Killed, OnlyProc, ManagerTypeOK
  <2>. QED
    BY <1>2, <1>5, <2>1 DEF CheckMeta, End, Interrupted, Terminated, Killed
<1>. QED
  BY <1>3, <1>4, <1>5 DEF ProcStep

Pc == {"idle", "spawn", "truncate", "write", "register"} \cup AboutPc

Record == [pc : Pc, id : 0 .. MaxId, p : 0 .. MaxLaunch, status : Status]

\* The updates requests make to their record keep its type.
LEMMA RecordTypes ==
  ASSUME NEW rs \in [Req -> Record], NEW r \in Req
  PROVE  /\ \A x \in Record : [rs EXCEPT ![r] = x] \in [Req -> Record]
         /\ \A c \in Pc : [rs EXCEPT ![r].pc = c] \in [Req -> Record]
         /\ \A q \in 0 .. MaxLaunch : [rs EXCEPT ![r].p = q] \in [Req -> Record]
         /\ \A t \in Status : [rs EXCEPT ![r].status = t] \in [Req -> Record]
         /\ IdleReq \in Record
<1>1. /\ \A x \in Record, c \in Pc : [x EXCEPT !.pc = c] \in Record
      /\ \A x \in Record, q \in 0 .. MaxLaunch : [x EXCEPT !.p = q] \in Record
      /\ \A x \in Record, t \in Status : [x EXCEPT !.status = t] \in Record
  BY DEF Record
<1>2. IdleReq \in Record
  BY Bounds DEF IdleReq, Record, Pc, Status
<1>. QED
  BY <1>1, <1>2

\* Signals, launches and statuses are what they are.
LEMMA RequestTypes ==
  ASSUME ManagerTypeOK, NEW r \in Req,
         PickId(r) \/ StopRun(r) \/ PollRun(r) \/ RequestStep(r),
         req[r].pc # "idle" => req[r].id \in Id
  PROVE  ManagerTypeOK'
<1>. DEFINE Meta == {"absent", "empty", "garbled"} \cup Status
<1>0. req \in [Req -> Record]
  BY DEF ManagerTypeOK, Record, Pc, AboutPc, StatusPc
<1>1. ASSUME req' \in [Req -> Record],
             UNCHANGED <<dirs, reg, rec, meta, proc, sig, restarts>>
      PROVE  ManagerTypeOK'
  BY <1>1 DEF ManagerTypeOK, Record, Pc, AboutPc, StatusPc
<1>2. ASSUME req' \in [Req -> Record], meta' \in [Id -> Meta],
             UNCHANGED <<dirs, reg, rec, proc, sig, restarts>>
      PROVE  ManagerTypeOK'
  BY <1>2 DEF ManagerTypeOK, Record, Pc, AboutPc, StatusPc
<1>3. ASSUME req' \in [Req -> Record],
             sig' \in [Launch -> SUBSET {"INT", "TERM", "KILL"}],
             UNCHANGED <<dirs, reg, rec, meta, proc, restarts>>
      PROVE  ManagerTypeOK'
  BY <1>3 DEF ManagerTypeOK, Record, Pc, AboutPc, StatusPc
<1>4. ASSUME req' \in [Req -> Record], rec' \in [Launch -> Status],
             UNCHANGED <<dirs, reg, meta, proc, sig, restarts>>
      PROVE  ManagerTypeOK'
  BY <1>4 DEF ManagerTypeOK, Record, Pc, AboutPc, StatusPc
<1>5. /\ \A i : meta' = [meta EXCEPT ![i] = "empty"] => meta' \in [Id -> Meta]
      /\ \A i, m : meta' = [meta EXCEPT ![i] = m] /\ m \in Meta => meta' \in [Id -> Meta]
      /\ meta' = meta => meta' \in [Id -> Meta]
  BY DEF ManagerTypeOK
<1>6. \A c \in Pc : Goto(r, c) => req' \in [Req -> Record]
  BY <1>0, RecordTypes DEF Goto
<1>7. Done(r) => req' \in [Req -> Record]
  BY <1>0, RecordTypes DEF Done
<1>8. \A c \in Pc, i \in Id, p \in 0 .. MaxLaunch :
        Begin(r, c, i, p) => req' \in [Req -> Record]
  <2>1. \A c \in Pc, i \in Id, p \in 0 .. MaxLaunch :
          [pc |-> c, id |-> i, p |-> p, status |-> "running"] \in Record
    BY Bounds DEF Record, Status
  <2>. QED
    BY <1>0, <2>1, RecordTypes DEF Begin
<1>9. {"idle", "spawn", "truncate", "write", "register", "intWait", "termWait",
       "seal", "label", "read", "rewrite", "overwrite"} \subseteq Pc
  BY DEF Pc, AboutPc, StatusPc
<1>11. CASE PickId(r)
  <2>1. PICK i \in FreeId : Begin(r, "spawn", i, 0)
    BY <1>11 DEF PickId
  <2>2. i \in Id
    BY DEF FreeId
  <2>3. 0 \in 0 .. MaxLaunch
    BY Bounds
  <2>. QED
    BY <1>1, <1>8, <1>9, <1>11, <2>1, <2>2, <2>3 DEF PickId
<1>12. CASE StopRun(r)
  <2>1. PICK i \in Id : Send(reg[i], "INT") /\ Begin(r, "intWait", i, reg[i])
    BY <1>12 DEF StopRun
  <2>2. sig' \in [Launch -> SUBSET {"INT", "TERM", "KILL"}]
    BY <2>1 DEF Send, ManagerTypeOK
  <2>3. reg[i] \in 0 .. MaxLaunch
    BY DEF ManagerTypeOK
  <2>. QED
    BY <1>3, <1>8, <1>9, <1>12, <2>1, <2>2, <2>3 DEF StopRun
<1>13. CASE PollRun(r)
  <2>1. PICK i \in Id :
          req' = [req EXCEPT ![r] =
            [pc |-> "label", id |-> i, p |-> reg[i],
             status |-> IF proc[reg[i]].ok THEN "finished" ELSE "failed"]]
    BY <1>13 DEF PollRun
  <2>2. reg[i] \in 0 .. MaxLaunch /\ i \in 0 .. MaxId
    BY Bounds DEF ManagerTypeOK
  <2>3. [pc |-> "label", id |-> i, p |-> reg[i],
         status |-> IF proc[reg[i]].ok THEN "finished" ELSE "failed"] \in Record
    BY <1>9, <2>2 DEF Record, Status, Terminal
  <2>4. req' \in [Req -> Record]
    BY <1>0, <2>1, <2>3, RecordTypes
  <2>. QED
    BY <1>1, <1>13, <2>4 DEF PollRun
<1>14. CASE Spawn(r)
  <2>1. dirs' \subseteq Id /\ UNCHANGED <<reg, rec, meta, sig, restarts>>
    BY <1>14 DEF Spawn, ManagerTypeOK
  <2>2. CASE Done(r) /\ UNCHANGED proc
    BY <1>7, <2>1, <2>2 DEF ManagerTypeOK, Record, Pc, AboutPc, StatusPc
  <2>3. CASE \E p \in Launch :
          /\ proc' = [proc EXCEPT ![p] = [st |-> "starting", id |-> req[r].id,
                                          ok |-> FALSE, server |-> restarts]]
          /\ req' = [req EXCEPT ![r].pc = "truncate", ![r].p = p]
    <3>1. PICK p \in Launch :
          /\ proc' = [proc EXCEPT ![p] = [st |-> "starting", id |-> req[r].id,
                                          ok |-> FALSE, server |-> restarts]]
          /\ req' = [req EXCEPT ![r].pc = "truncate", ![r].p = p]
      BY <2>3
    <3>2. [req EXCEPT ![r].pc = "truncate"] \in [Req -> Record]
      BY <1>0, <1>9, RecordTypes
    <3>3. p \in 0 .. MaxLaunch
      BY Bounds
    <3>4. req' \in [Req -> Record]
      BY <3>1, <3>2, <3>3, RecordTypes
    <3>5. [st |-> "starting", id |-> req[r].id, ok |-> FALSE, server |-> restarts]
            \in [st : {"none", "starting", "truncate", "write", "run", "cleaning", "exited"},
                 id : 0 .. MaxId, ok : BOOLEAN, server : 0 .. MaxEvents]
      BY <1>0 DEF Record, ManagerTypeOK
    <3>. QED
      BY <2>1, <3>1, <3>4, <3>5 DEF ManagerTypeOK, Record, Pc, AboutPc, StatusPc
  <2>. QED
    BY <1>14, <2>2, <2>3 DEF Spawn
<1>15. CASE TruncateMeta(r)
  BY <1>2, <1>5, <1>6, <1>9, <1>15 DEF TruncateMeta
<1>16. CASE WriteMeta(r)
  <2>1. PICK m \in Written(req[r].id, "running") : meta' = [meta EXCEPT ![req[r].id] = m]
    BY <1>16 DEF WriteMeta
  <2>2. m \in Meta
    BY WrittenTypes DEF Status
  <2>. QED
    BY <1>2, <1>5, <1>6, <1>9, <1>16, <2>1, <2>2 DEF WriteMeta
<1>17. CASE Register(r)
  <2>1. req' \in [Req -> Record]
    BY <1>7, <1>17 DEF Register
  <2>2. req[r].p \in 0 .. MaxLaunch
    BY <1>0 DEF Record
  <2>3. reg' \in [Id -> 0 .. MaxLaunch] /\ UNCHANGED <<dirs, rec, meta, proc, sig, restarts>>
    BY <1>17, <2>2 DEF Register, ManagerTypeOK
  <2>. QED
    BY <2>1, <2>3 DEF ManagerTypeOK, Record, Pc, AboutPc, StatusPc
<1>18. CASE StopStep(r)
  <2>1. CASE Waited(r)
    BY <1>1, <1>6, <1>9, <2>1 DEF Waited
  <2>2. CASE Escalate(r)
    <3>1. sig' \in [Launch -> SUBSET {"INT", "TERM", "KILL"}]
      BY <2>2 DEF Escalate, Send, ManagerTypeOK
    <3>. QED
      BY <1>3, <1>6, <1>9, <2>2, <3>1 DEF Escalate
  <2>3. CASE Seal(r)
    <3>1. [req EXCEPT ![r].pc = "read"] \in [Req -> Record]
      BY <1>0, <1>9, RecordTypes
    <3>2. req' \in [Req -> Record]
      BY <2>3, <3>1, RecordTypes DEF Seal, Status, Terminal
    <3>3. rec' \in [Launch -> Status]
      BY <2>3 DEF Seal, Status, Terminal, ManagerTypeOK
    <3>. QED
      BY <1>4, <2>3, <3>2, <3>3 DEF Seal
  <2>. QED
    BY <1>18, <2>1, <2>2, <2>3 DEF StopStep
<1>19. CASE StatusStep(r)
  <2>0. req[r].status \in Status
    BY <1>0 DEF Record
  <2>1. CASE Label(r)
    <3>1. rec' \in [Launch -> Status]
      BY <2>0, <2>1 DEF Label, ManagerTypeOK
    <3>. QED
      BY <1>4, <1>6, <1>9, <2>1, <3>1 DEF Label
  <2>2. CASE ReadMeta(r)
    BY <1>1, <1>6, <1>7, <1>9, <2>2 DEF ReadMeta
  <2>3. CASE Rewrite(r)
    BY <1>2, <1>5, <1>6, <1>7, <1>9, <2>3 DEF Rewrite
  <2>4. CASE Overwrite(r)
    <3>1. PICK m \in Written(req[r].id, req[r].status) :
            meta' = [meta EXCEPT ![req[r].id] = m]
      BY <2>4 DEF Overwrite
    <3>2. m \in Meta
      BY <2>0, WrittenTypes
    <3>. QED
      BY <1>2, <1>5, <1>7, <2>4, <3>1, <3>2 DEF Overwrite
  <2>. QED
    BY <1>19, <2>1, <2>2, <2>3, <2>4 DEF StatusStep
<1>. QED
  BY <1>11, <1>12, <1>13, <1>14, <1>15, <1>16, <1>17, <1>18, <1>19
     DEF RequestStep, LaunchStep

\* A restart of the server keeps them too.
LEMMA RestartTypes ==
  ASSUME ManagerTypeOK, Restart
  PROVE  ManagerTypeOK'
<1>. USE Bounds DEF Status, Terminal
<1>1. restarts' \in 0 .. MaxEvents
  <2>1. Launches \in Nat
    <3>1. IsFiniteSet(Launch)
      BY FS_Interval
    <3>2. IsFiniteSet({p \in Launch : proc[p].st # "none"})
      BY <3>1, FS_Subset
    <3>. QED
      BY <3>2, FS_CardinalityType DEF Launches
  <2>2. Launches + restarts < MaxEvents /\ restarts' = restarts + 1
    BY DEF Restart
  <2>. QED
    BY <2>1, <2>2 DEF ManagerTypeOK
<1>2. sig' \in [Launch -> SUBSET {"INT", "TERM", "KILL"}]
  BY DEF Restart, ManagerTypeOK
<1>3. req' \in [Req -> [pc : {"idle", "spawn", "truncate", "write", "register", "intWait",
                              "termWait", "seal", "label", "read", "rewrite", "overwrite"},
                        id : 0 .. MaxId, p : 0 .. MaxLaunch, status : Status]]
  BY DEF Restart, IdleReq
<1>4. /\ reg' \in [Id -> 0 .. MaxLaunch] /\ rec' \in [Launch -> Status]
      /\ UNCHANGED <<dirs, meta, proc>>
  BY DEF Restart
<1>. QED
  BY <1>1, <1>2, <1>3, <1>4 DEF ManagerTypeOK

-----------------------------------------------------------------------------
(* The manager: what a request knows *)

\* Of a launch whose request is over, the next request finds what it needs.
LEMMA KnowsOfSettled ==
  ASSUME NEW r \in Req, NEW p, NEW i \in Id, NEW t,
         Settled(p)', proc'[p].id = i,
         req'[r].p = p, req'[r].id = i, req'[r].status = t,
         req'[r].pc \in AboutPc,
         req'[r].pc = "seal" => Gone(p)',
         req'[r].pc \in StatusPc => t \in Terminal /\ SaysTruth(p, t)'
  PROVE  RequestKnows(r)'
BY DEF RequestKnows, AboutPc, StatusPc, LaunchPc, Settled, Launched, Launching,
       Gone, Alive, SaysTruth

\* A request that is over knows nothing.
LEMMA IdleKnows ==
  ASSUME NEW r \in Req, req'[r].pc = "idle"
  PROVE  RequestKnows(r)'
BY DEF RequestKnows, LaunchPc, AboutPc, StatusPc

\* A request that moves on knows what its next step needs.
LEMMA ActorKnows ==
  ASSUME ManagerInv, ManagerNext, NEW r \in Req,
         PickId(r) \/ StopRun(r) \/ PollRun(r) \/ RequestStep(r)
  PROVE  RequestKnows(r)'
<1>. PICK p, i0, t0 : p = req[r].p /\ i0 = req[r].id /\ t0 = req[r].status
  OBVIOUS
<1>0. /\ ManagerTypeOK /\ RequestKnows(r) /\ RegistryIsTrue
      /\ GoesOn /\ \A q : Settled(q) => Settled(q)'
  BY NextGoesOn, SettledStays DEF ManagerInv
<1>1. req \in [Req -> Record] /\ req[r] \in Record
  BY <1>0 DEF ManagerTypeOK, Record, Pc, AboutPc, StatusPc
<1>2. \A q : Launched(q) => proc'[q].id = proc[q].id /\ Launched(q)' /\ (Gone(q) => Gone(q)')
  BY <1>0 DEF GoesOn, Launched
<1>3. \A c : Goto(r, c) => /\ req'[r].pc = c /\ req'[r].p = p
                           /\ req'[r].id = i0 /\ req'[r].status = t0
  BY <1>1 DEF Goto, Record
<1>4. Done(r) => req'[r].pc = "idle"
  BY <1>1 DEF Done, IdleReq
<1>5. \A c, i, q : Begin(r, c, i, q) => req'[r].pc = c /\ req'[r].id = i /\ req'[r].p = q
  BY <1>1 DEF Begin
<1>6. req[r].pc \in AboutPc =>
        Settled(p)' /\ proc'[p].id = i0 /\ i0 \in Id /\ Launched(p)
  <2>1. SUFFICES ASSUME req[r].pc \in AboutPc
                 PROVE  Settled(p) /\ proc[p].id = i0 /\ i0 \in Id /\ Launched(p)
    BY <1>0, <1>2
  <2>. QED
    BY <1>0, <2>1 DEF RequestKnows, AboutPc, StatusPc, Settled
<1>11. CASE PickId(r)
  <2>1. PICK i \in FreeId : Begin(r, "spawn", i, 0)
    BY <1>11 DEF PickId
  <2>2. req'[r].pc = "spawn" /\ req'[r].id \in Id
    BY <1>5, <2>1 DEF FreeId
  <2>. QED
    BY <2>2 DEF RequestKnows, LaunchPc, AboutPc, StatusPc
<1>12. CASE StopRun(r)
  <2>. PICK i \in Id : reg[i] # 0 /\ Begin(r, "intWait", i, reg[i])
    BY <1>12 DEF StopRun
  <2>1. PICK q : q = reg[i] /\ q # 0 /\ Begin(r, "intWait", i, reg[i])
    OBVIOUS
  <2>2. Settled(q) /\ proc[q].id = i
    BY <1>0, <2>1 DEF RegistryIsTrue
  <2>3. Settled(q)' /\ proc'[q].id = i
    BY <1>0, <1>2, <2>2 DEF Settled
  <2>4. req'[r].pc = "intWait" /\ req'[r].id = i /\ req'[r].p = q
    BY <1>5, <2>1
  <2>5. PICK t : t = req'[r].status
    OBVIOUS
  <2>. QED
    BY <2>3, <2>4, <2>5, KnowsOfSettled DEF AboutPc, StatusPc
<1>13. CASE PollRun(r)
  <2>. PICK i \in Id :
         /\ reg[i] # 0 /\ proc[reg[i]].st = "exited"
         /\ req' = [req EXCEPT ![r] =
              [pc |-> "label", id |-> i, p |-> reg[i],
               status |-> IF proc[reg[i]].ok THEN "finished" ELSE "failed"]]
         /\ UNCHANGED <<reg, proc, sig>>
    BY <1>13 DEF PollRun
  <2>1. PICK q :
          /\ q = reg[i] /\ q # 0 /\ proc[q].st = "exited"
          /\ req' = [req EXCEPT ![r] =
               [pc |-> "label", id |-> i, p |-> q,
                status |-> IF proc[q].ok THEN "finished" ELSE "failed"]]
          /\ UNCHANGED <<reg, proc, sig>>
    OBVIOUS
  <2>2. Settled(q) /\ proc[q].id = i
    BY <1>0, <2>1 DEF RegistryIsTrue
  <2>3. /\ req'[r].pc = "label" /\ req'[r].id = i /\ req'[r].p = q
        /\ req'[r].status = IF proc[q].ok THEN "finished" ELSE "failed"
    BY <1>1, <2>1
  <2>4. Settled(q)' /\ proc'[q].id = i
    BY <1>0, <1>2, <2>2 DEF Settled
  <2>5. proc[q].ok \in BOOLEAN
    BY <1>0, <2>2 DEF Settled, Launched, ManagerTypeOK
  <2>6. CASE proc[q].ok = TRUE
    <3>1. req'[r].status = "finished"
      BY <2>3, <2>6
    <3>2. SaysTruth(q, "finished")'
      BY <2>1, <2>6 DEF SaysTruth
    <3>. QED
      BY <2>3, <2>4, <3>1, <3>2, KnowsOfSettled DEF AboutPc, StatusPc, Terminal
  <2>7. CASE proc[q].ok = FALSE
    <3>1. req'[r].status = "failed"
      BY <2>3, <2>7
    <3>2. SaysTruth(q, "failed")'
      BY <2>1, <2>7 DEF SaysTruth
    <3>. QED
      BY <2>3, <2>4, <3>1, <3>2, KnowsOfSettled DEF AboutPc, StatusPc, Terminal
  <2>. QED
    BY <2>5, <2>6, <2>7
<1>14. CASE Spawn(r)
  <2>1. CASE Done(r)
    BY <1>4, <2>1, IdleKnows
  <2>2. CASE \E x \in Launch :
          /\ proc' = [proc EXCEPT ![x] = [st |-> "starting", id |-> req[r].id,
                                          ok |-> FALSE, server |-> restarts]]
          /\ req' = [req EXCEPT ![r].pc = "truncate", ![r].p = x]
    <3>1. PICK x \in Launch :
          /\ proc' = [proc EXCEPT ![x] = [st |-> "starting", id |-> req[r].id,
                                          ok |-> FALSE, server |-> restarts]]
          /\ req' = [req EXCEPT ![r].pc = "truncate", ![r].p = x]
      BY <2>2
    <3>2. req'[r].pc = "truncate" /\ req'[r].p = x /\ req'[r].id = req[r].id
      BY <1>1, <3>1 DEF Record
    <3>3. proc'[x].st = "starting" /\ proc'[x].id = req[r].id
      BY <1>0, <3>1 DEF ManagerTypeOK
    <3>4. req[r].id \in Id
      BY <1>0, <1>14 DEF Spawn, RequestKnows
    <3>. QED
      BY <3>2, <3>3, <3>4 DEF RequestKnows, Launched, LaunchPc, AboutPc, StatusPc
  <2>. QED
    BY <1>14, <2>1, <2>2 DEF Spawn
<1>15. CASE TruncateMeta(r) \/ WriteMeta(r)
  <2>1. /\ req[r].pc \in LaunchPc /\ req'[r].pc \in {"write", "register"}
        /\ req'[r].p = p /\ req'[r].id = req[r].id
    BY <1>3, <1>15 DEF TruncateMeta, WriteMeta, LaunchPc
  <2>2. Launched(p) /\ proc[p].id = req[r].id /\ req[r].id \in Id
    BY <1>0, <2>1 DEF RequestKnows, LaunchPc
  <2>3. proc' = proc
    BY <1>15 DEF TruncateMeta, WriteMeta
  <2>. QED
    BY <2>1, <2>2, <2>3 DEF RequestKnows, Launched, LaunchPc, AboutPc, StatusPc
<1>16. CASE Register(r) \/ Overwrite(r)
  BY <1>4, <1>16, IdleKnows DEF Register, Overwrite
<1>17. CASE Waited(r)
  <2>1. /\ req[r].pc \in AboutPc /\ req'[r].pc = "seal"
        /\ req'[r].p = p /\ req'[r].id = i0 /\ req'[r].status = t0
        /\ proc[p].st = "exited"
    BY <1>3, <1>17 DEF Waited, AboutPc
  <2>2. Gone(p)'
    BY <1>2, <1>6, <2>1 DEF Gone, Alive
  <2>. QED
    BY <1>6, <2>1, <2>2, KnowsOfSettled DEF AboutPc, StatusPc
<1>18. CASE Escalate(r)
  <2>1. /\ req[r].pc \in AboutPc
        /\ req'[r].p = p /\ req'[r].id = i0 /\ req'[r].status = t0
        /\ \/ req'[r].pc = "termWait"
           \/ req'[r].pc = "seal" /\ Send(p, "KILL")
    BY <1>3, <1>18 DEF Escalate, AboutPc
  <2>2. proc' = proc
    BY <1>18 DEF Escalate
  <2>3. Send(p, "KILL") => Gone(p)'
    BY <1>0, <1>6, <2>1, <2>2 DEF Send, Gone, Alive, Launched, ManagerTypeOK
  <2>. QED
    BY <1>6, <2>1, <2>3, KnowsOfSettled DEF AboutPc, StatusPc
<1>19. CASE Seal(r)
  <2>1. /\ req[r].pc = "seal" /\ req'[r].pc = "read"
        /\ req'[r].p = p /\ req'[r].id = i0 /\ req'[r].status = "stopped"
    BY <1>1, <1>19 DEF Seal, Record
  <2>2. Gone(p)
    BY <1>0, <2>1 DEF RequestKnows
  <2>3. SaysTruth(p, "stopped")'
    BY <1>2, <1>6, <2>1, <2>2 DEF SaysTruth, AboutPc
  <2>. QED
    BY <1>6, <2>1, <2>3, KnowsOfSettled DEF AboutPc, StatusPc, Terminal
<1>20. CASE Label(r) \/ ReadMeta(r) \/ Rewrite(r)
  <2>1. CASE Done(r)
    BY <1>4, <2>1, IdleKnows
  <2>2. CASE ~Done(r)
    <3>1. /\ req[r].pc \in StatusPc /\ req'[r].pc \in StatusPc
          /\ req'[r].p = p /\ req'[r].id = i0 /\ req'[r].status = t0
      BY <1>3, <1>20, <2>2 DEF Label, ReadMeta, Rewrite, StatusPc
    <3>2. Launched(p) /\ t0 \in Terminal /\ SaysTruth(p, t0)
      BY <1>0, <1>6, <3>1 DEF RequestKnows, AboutPc
    <3>3. SaysTruth(p, t0)'
      BY <1>0, <3>2, TruthStays
    <3>. QED
      BY <1>6, <3>1, <3>2, <3>3, KnowsOfSettled DEF AboutPc, StatusPc
  <2>. QED
    BY <2>1, <2>2
<1>. QED
  BY <1>11, <1>12, <1>13, <1>14, <1>15, <1>16, <1>17, <1>18, <1>19, <1>20
     DEF RequestStep, LaunchStep, StopStep, StatusStep

-----------------------------------------------------------------------------
(* The manager: the invariant is inductive *)

\* Two requests do not launch the same process.
LEMMA LaunchedOnceStays ==
  ASSUME ManagerInv, ManagerNext
  PROVE  LaunchedOnce'
<1>0. ManagerTypeOK /\ LaunchedOnce /\ \A r \in Req : RequestKnows(r)
  BY DEF ManagerInv
<1>1. CASE req' = req
  BY <1>0, <1>1 DEF LaunchedOnce
<1>2. CASE Restart
  BY <1>2 DEF Restart, IdleReq, LaunchedOnce, LaunchPc
<1>3. ASSUME NEW a \in Req,
             PickId(a) \/ StopRun(a) \/ PollRun(a) \/ RequestStep(a)
      PROVE  LaunchedOnce'
  <2>1. SUFFICES ASSUME NEW s \in Req \ {a}, req'[a].pc \in LaunchPc,
                        req'[s].pc \in LaunchPc, req'[a].p = req'[s].p
                 PROVE  FALSE
    <3>1. OnlyRequest(a)
      BY <1>0, <1>3, RequestIsAlone
    <3>. QED
      BY <1>0, <2>1, <3>1 DEF LaunchedOnce, OnlyRequest
  <2>2. req'[s] = req[s]
    BY <1>0, <1>3, RequestIsAlone DEF OnlyRequest
  <2>3. Launched(req'[a].p)
    BY <1>0, <2>1, <2>2 DEF RequestKnows
  <2>4. req[a].pc \in LaunchPc /\ req[a].p = req'[a].p
    BY <1>0, <1>3, <2>1, <2>3, LaunchesBegin
  <2>. QED
    BY <1>0, <2>1, <2>2, <2>4 DEF LaunchedOnce
<1>4. ASSUME NEW q \in Launch, ProcStep(q)
      PROVE  req' = req
  BY <1>0, <1>4, ProcessesGoOn
<1>. QED
  BY <1>1, <1>2, <1>3, <1>4 DEF ManagerNext

\* What was not launched is as it was, or is launched under a request's id.
LEMMA NoneIsNew ==
  ASSUME ManagerTypeOK, ManagerNext, NEW p \in Launch, ~Launched(p)
  PROVE  \/ proc'[p] = proc[p]
         \/ \E r \in Req : /\ Spawn(r) /\ Launched(p)' /\ Launching(p)'
                           /\ proc'[p].id = req[r].id /\ proc'[p].server = restarts
<1>1. CASE proc' = proc
  BY <1>1
<1>2. ASSUME NEW r \in Req, Spawn(r), proc' # proc
      PROVE  \/ proc'[p] = proc[p]
             \/ /\ Launched(p)' /\ Launching(p)'
                /\ proc'[p].id = req[r].id /\ proc'[p].server = restarts
  <2>1. PICK x \in Launch :
          /\ proc' = [proc EXCEPT ![x] = [st |-> "starting", id |-> req[r].id,
                                          ok |-> FALSE, server |-> restarts]]
          /\ req' = [req EXCEPT ![r].pc = "truncate", ![r].p = x]
    BY <1>2 DEF Spawn
  <2>2. req'[r].pc = "truncate" /\ req'[r].p = x
    BY <2>1 DEF ManagerTypeOK
  <2>3. CASE p = x
    <3>1. Launching(p)'
      BY <2>2, <2>3 DEF Launching
    <3>2. /\ proc'[p].st = "starting" /\ proc'[p].id = req[r].id
          /\ proc'[p].server = restarts
      BY <2>1, <2>3 DEF ManagerTypeOK
    <3>. QED
      BY <3>1, <3>2 DEF Launched
  <2>. QED
    BY <2>1, <2>3 DEF ManagerTypeOK
<1>3. ASSUME NEW q \in Launch, ProcStep(q)
      PROVE  proc'[p] = proc[p]
  <2>1. p # q
    BY <1>3 DEF ProcStep, CheckMeta, CliTruncate, CliWrite, End, Interrupted,
                Terminated, Killed, Alive, Launched
  <2>. QED
    BY <1>3, <2>1 DEF ProcStep, CheckMeta, CliTruncate, CliWrite, End, Interrupted,
                      Terminated, Killed, Exits, ManagerTypeOK
<1>4. ASSUME NEW r \in Req,
             PickId(r) \/ StopRun(r) \/ PollRun(r) \/ RequestStep(r), ~Spawn(r)
      PROVE  proc' = proc
  BY <1>4 DEF PickId, StopRun, PollRun, RequestStep, LaunchStep, StopStep, StatusStep,
       TruncateMeta, WriteMeta, Register, Waited, Escalate, Seal, Label,
       ReadMeta, Rewrite, Overwrite
<1>5. CASE Restart
  BY <1>5 DEF Restart
<1>. QED
  BY <1>1, <1>2, <1>3, <1>4, <1>5 DEF ManagerNext, RequestStep, LaunchStep

\* Only a restart counts as one.
LEMMA RestartsCount ==
  ASSUME ManagerTypeOK, ManagerNext
  PROVE  /\ restarts \in Nat
         /\ restarts' = restarts \/ (Restart /\ restarts' = restarts + 1)
<1>1. ASSUME NEW r \in Req,
             PickId(r) \/ StopRun(r) \/ PollRun(r) \/ RequestStep(r)
      PROVE  restarts' = restarts
  BY <1>1 DEF PickId, StopRun, PollRun, RequestStep, LaunchStep, StopStep, StatusStep,
       Spawn, TruncateMeta, WriteMeta, Register, Waited, Escalate, Seal, Label,
       ReadMeta, Rewrite, Overwrite
<1>2. ASSUME NEW q \in Launch, ProcStep(q)
      PROVE  restarts' = restarts
  BY <1>2, ProcessesGoOn
<1>3. Restart => restarts' = restarts + 1
  BY DEF Restart
<1>4. restarts \in Nat
  BY Bounds DEF ManagerTypeOK
<1>. QED
  BY <1>1, <1>2, <1>3, <1>4 DEF ManagerNext

\* A launch has an id of the server that is not later than the last one.
LEMMA LaunchesStayTyped ==
  ASSUME ManagerInv, ManagerNext
  PROVE  LaunchesAreTyped'
<1>0. ManagerTypeOK /\ LaunchesAreTyped /\ GoesOn /\ \A r \in Req : RequestKnows(r)
  BY NextGoesOn DEF ManagerInv
<1>1. restarts \in Nat /\ restarts' \in {restarts, restarts + 1}
  BY <1>0, RestartsCount
<1>2. SUFFICES ASSUME NEW p \in Launch
      PROVE  IF Launched(p)' THEN proc'[p].id \in Id /\ proc'[p].server <= restarts'
                             ELSE proc'[p].id = 0
  BY DEF LaunchesAreTyped, Launched
<1>3. CASE Launched(p)
  <2>1. /\ Launched(p)' /\ proc'[p].id = proc[p].id
        /\ proc'[p].server = proc[p].server
    BY <1>0, <1>3 DEF GoesOn, Launched
  <2>2. proc[p].id \in Id /\ proc[p].server <= restarts /\ proc[p].server \in Nat
    BY <1>0, <1>3, Bounds DEF LaunchesAreTyped, ManagerTypeOK
  <2>. QED
    BY <1>1, <2>1, <2>2
<1>4. CASE ~Launched(p) /\ proc'[p] = proc[p]
  BY <1>0, <1>4 DEF LaunchesAreTyped, Launched
<1>5. CASE ~Launched(p) /\ proc'[p] # proc[p]
  <2>1. PICK r \in Req : /\ Spawn(r) /\ Launched(p)'
                         /\ proc'[p].id = req[r].id /\ proc'[p].server = restarts
    BY <1>0, <1>5, NoneIsNew
  <2>2. req[r].id \in Id
    BY <1>0, <2>1 DEF Spawn, RequestKnows
  <2>. QED
    BY <1>1, <2>1, <2>2
<1>. QED
  BY <1>3, <1>4, <1>5

\* The registry of a step: as it was, or emptied, or one launch is added.
LEMMA RegistrySteps ==
  ASSUME ManagerTypeOK, ManagerNext
  PROVE  \/ reg' = reg
         \/ Restart /\ reg' = [i \in Id |-> 0]
         \/ \E r \in Req : Register(r)
<1>1. ASSUME NEW r \in Req,
             PickId(r) \/ StopRun(r) \/ PollRun(r) \/ RequestStep(r), ~Register(r)
      PROVE  reg' = reg
  BY <1>1 DEF PickId, StopRun, PollRun, RequestStep, LaunchStep, StopStep, StatusStep,
       Spawn, TruncateMeta, WriteMeta, Waited, Escalate, Seal, Label,
       ReadMeta, Rewrite, Overwrite
<1>2. ASSUME NEW q \in Launch, ProcStep(q)
      PROVE  reg' = reg
  BY <1>2, ProcessesGoOn
<1>3. CASE Restart
  BY <1>3 DEF Restart
<1>. QED
  BY <1>1, <1>2, <1>3 DEF ManagerNext, RequestStep, LaunchStep

\* The launch a request registers is over with that, and is the one of its id.
LEMMA RegisterSettles ==
  ASSUME ManagerInv, ManagerNext, NEW r \in Req, Register(r), NEW p, p = req[r].p
  PROVE  /\ Settled(p)' /\ proc'[p].id = req[r].id /\ Launching(p)
         /\ req[r].id \in Id /\ reg' = [reg EXCEPT ![req[r].id] = p]
<1>1. /\ ManagerTypeOK /\ LaunchedOnce /\ RequestKnows(r)
      /\ req[r].pc = "register" /\ proc' = proc
      /\ reg' = [reg EXCEPT ![req[r].id] = p]
  BY DEF ManagerInv, Register
<1>2. Launched(p) /\ proc[p].id = req[r].id /\ req[r].id \in Id
  BY <1>1 DEF RequestKnows, LaunchPc
<1>3. req'[r].pc = "idle" /\ \A s \in Req \ {r} : req'[s] = req[s]
  BY <1>1 DEF Register, Done, IdleReq, ManagerTypeOK
<1>4. \A s \in Req : ~(req'[s].pc \in LaunchPc /\ req'[s].p = p)
  BY <1>1, <1>3 DEF LaunchedOnce, LaunchPc
<1>5. Launched(p)'
  BY <1>1, <1>2 DEF Launched
<1>6. Settled(p)'
  BY <1>4, <1>5 DEF Settled, Launching, LaunchPc
<1>7. Launching(p)
  BY <1>1 DEF Launching
<1>. QED
  BY <1>1, <1>2, <1>6, <1>7

\* What the registry refers to is a launch of that id whose request is over.
LEMMA RegistryStaysTrue ==
  ASSUME ManagerInv, ManagerNext
  PROVE  RegistryIsTrue'
<1>0. /\ ManagerTypeOK /\ RegistryIsTrue /\ GoesOn
      /\ \A q : Settled(q) => Settled(q)'
  BY NextGoesOn, SettledStays DEF ManagerInv
<1>1. ASSUME NEW i \in Id, NEW q, q = reg[i], q # 0
      PROVE  Settled(q)' /\ proc'[q].id = i
  BY <1>0, <1>1 DEF RegistryIsTrue, Settled, GoesOn, Launched
<1>2. CASE reg' = reg
  BY <1>1, <1>2 DEF RegistryIsTrue, Settled, Launched, Launching
<1>3. CASE Restart /\ reg' = [i \in Id |-> 0]
  BY <1>3 DEF RegistryIsTrue
<1>4. ASSUME NEW r \in Req, Register(r)
      PROVE  RegistryIsTrue'
  <2>0. PICK p : p = req[r].p
    OBVIOUS
  <2>1. /\ Settled(p)' /\ proc'[p].id = req[r].id
        /\ reg' = [reg EXCEPT ![req[r].id] = p]
    BY <1>4, <2>0, RegisterSettles
  <2>2. \A i \in Id : reg'[i] = IF i = req[r].id THEN p ELSE reg[i]
    BY <1>0, <2>1 DEF ManagerTypeOK
  <2>. QED
    BY <1>1, <2>1, <2>2 DEF RegistryIsTrue, Settled, Launched, Launching
<1>. QED
  BY <1>0, <1>2, <1>3, <1>4, RegistrySteps

\* A step that writes meta.json: "running" or what cannot be read, or, by a
\* request that knows it to be true, a terminal status.
LEMMA MetaSteps ==
  ASSUME ManagerTypeOK, ManagerNext, NEW i \in Id, meta'[i] # meta[i],
         meta'[i] \in Terminal
  PROVE  \E r \in Req : /\ Overwrite(r) /\ req[r].id = i
                       /\ meta'[i] = req[r].status
<1>. DEFINE NotTerminal == {"absent", "empty", "garbled", "running"}
<1>0. NotTerminal \cap Terminal = {}
  BY DEF Terminal
<1>1. ASSUME NEW j, NEW m \in NotTerminal, meta' = [meta EXCEPT ![j] = m]
      PROVE  FALSE
  <2>1. meta'[i] = m \/ meta'[i] = meta[i]
    BY <1>1 DEF ManagerTypeOK
  <2>. QED
    BY <1>0, <1>1, <2>1
<1>2. ASSUME NEW j, \E m \in Written(j, "running") : meta' = [meta EXCEPT ![j] = m]
      PROVE  FALSE
  BY <1>1, <1>2 DEF Written
<1>3. ASSUME NEW r \in Req,
             PickId(r) \/ StopRun(r) \/ PollRun(r) \/ RequestStep(r), ~Overwrite(r)
      PROVE  FALSE
  <2>1. CASE TruncateMeta(r) \/ Rewrite(r)
    BY <1>1, <2>1 DEF TruncateMeta, Rewrite
  <2>2. CASE WriteMeta(r)
    BY <1>2, <2>2 DEF WriteMeta
  <2>3. CASE ~(TruncateMeta(r) \/ Rewrite(r) \/ WriteMeta(r))
    BY <1>3, <2>3 DEF PickId, StopRun, PollRun, RequestStep, LaunchStep, StopStep,
       StatusStep, Spawn, Register, Waited, Escalate, Seal, Label, ReadMeta
  <2>. QED
    BY <2>1, <2>2, <2>3
<1>4. ASSUME NEW q \in Launch, ProcStep(q)
      PROVE  FALSE
  <2>1. CASE CliTruncate(q)
    BY <1>1, <2>1 DEF CliTruncate
  <2>2. CASE CliWrite(q)
    BY <1>2, <2>2 DEF CliWrite
  <2>3. CASE ~(CliTruncate(q) \/ CliWrite(q))
    BY <1>4, <2>3 DEF ProcStep, CheckMeta, End, Interrupted, Terminated, Killed, OnlyProc
  <2>. QED
    BY <2>1, <2>2, <2>3
<1>5. CASE Restart
  BY <1>5 DEF Restart
<1>6. PICK r \in Req : Overwrite(r)
  BY <1>3, <1>4, <1>5 DEF ManagerNext
<1>7. PICK m \in Written(req[r].id, req[r].status) : meta' = [meta EXCEPT ![req[r].id] = m]
  BY <1>6 DEF Overwrite
<1>8. m \notin NotTerminal
  BY <1>1, <1>7
<1>9. m = req[r].status
  BY <1>7, <1>8 DEF Written
<1>10. req[r].id = i /\ meta'[i] = m
  BY <1>7 DEF ManagerTypeOK
<1>. QED
  BY <1>6, <1>9, <1>10

\* A terminal status is true of a launch of that id whose request is over.
LEMMA MetaStaysTrue ==
  ASSUME ManagerInv, ManagerNext
  PROVE  MetaIsTrue'
<1>0. /\ ManagerTypeOK /\ MetaIsTrue /\ GoesOn /\ \A r \in Req : RequestKnows(r)
      /\ \A q : Settled(q) => Settled(q)'
  BY NextGoesOn, SettledStays DEF ManagerInv
<1>. SUFFICES ASSUME NEW i \in Id, meta'[i] \in Terminal
              PROVE  \E p \in Launch : /\ Settled(p)' /\ proc'[p].id = i
                                       /\ SaysTruth(p, meta[i])'
  BY DEF MetaIsTrue
<1>1. PICK m \in Terminal : m = meta'[i]
  OBVIOUS
<1>2. PICK p \in Launch : Settled(p) /\ proc[p].id = i /\ SaysTruth(p, m)
  <2>1. CASE meta'[i] = meta[i]
    BY <1>0, <1>1, <2>1 DEF MetaIsTrue
  <2>2. CASE meta'[i] # meta[i]
    <3>1. PICK r \in Req : Overwrite(r) /\ req[r].id = i /\ m = req[r].status
      BY <1>0, <1>1, <2>2, MetaSteps
    <3>2. req[r].pc \in StatusPc
      BY <3>1 DEF Overwrite, StatusPc
    <3>3. /\ Settled(req[r].p) /\ proc[req[r].p].id = i
          /\ SaysTruth(req[r].p, req[r].status)
      BY <1>0, <3>1, <3>2 DEF RequestKnows, AboutPc
    <3>. QED
      BY <3>1, <3>3 DEF Settled, Launched
  <2>. QED
    BY <2>1, <2>2
<1>3. Launched(p)
  BY <1>2 DEF Settled
<1>4. Settled(p)' /\ proc'[p].id = i /\ SaysTruth(p, m)'
  <2>1. SaysTruth(p, m)'
    BY <1>0, <1>2, <1>3, TruthStays
  <2>. QED
    BY <1>0, <1>2, <1>3, <2>1 DEF GoesOn
<1>5. SaysTruth(p, meta[i])'
  BY <1>1, <1>4 DEF SaysTruth
<1>. QED
  BY <1>4, <1>5

\* An id that is not shared is one launch's.
LEMMA OneOfItsId ==
  ASSUME ManagerTypeOK, NEW i, ~Shared(i), NEW p \in Launch, NEW q \in Launch,
         proc[p].id = i, proc[q].id = i
  PROVE  p = q
<1>. DEFINE S == {x \in Launch : proc[x].id = i}
<1>1. SUFFICES ASSUME p # q PROVE FALSE
  OBVIOUS
<1>2. IsFiniteSet(Launch)
  BY FS_Interval, Bounds
<1>3. IsFiniteSet(S) /\ Cardinality(S) \in Nat
  BY <1>2, FS_Subset, FS_CardinalityType
<1>4. IsFiniteSet(S \ {p}) /\ Cardinality(S \ {p}) = Cardinality(S) - 1
  BY <1>3, FS_RemoveElement
<1>5. Cardinality((S \ {p}) \ {q}) = Cardinality(S \ {p}) - 1
  BY <1>1, <1>4, FS_RemoveElement
<1>6. Cardinality((S \ {p}) \ {q}) \in Nat
  BY <1>4, FS_Subset, FS_CardinalityType
<1>7. Cardinality(S) > 1
  BY <1>3, <1>4, <1>5, <1>6
<1>. QED
  BY <1>7 DEF Shared

\* An id that is shared stays so.
LEMMA SharedStays ==
  ASSUME ManagerInv, ManagerNext, NEW i \in Id, Shared(i)
  PROVE  Shared(i)'
<1>. DEFINE S == {x \in Launch : proc[x].id = i}
            T == {x \in Launch : proc'[x].id = i}
<1>1. \A x \in Launch : Launched(x) \/ proc[x].id = 0
  BY DEF ManagerInv, LaunchesAreTyped
<1>2. GoesOn
  BY NextGoesOn DEF ManagerInv
<1>3. S \subseteq T
  BY <1>1, <1>2, Bounds DEF GoesOn
<1>4. IsFiniteSet(T)
  <2>1. IsFiniteSet(Launch)
    BY FS_Interval, Bounds
  <2>. QED
    BY <2>1, FS_Subset
<1>5. /\ Cardinality(S) \in Nat /\ Cardinality(T) \in Nat
      /\ Cardinality(S) <= Cardinality(T)
  BY <1>3, <1>4, FS_Subset, FS_CardinalityType
<1>. QED
  BY <1>5 DEF Shared

\* A launch under way ends with its registration, or with the server.
LEMMA LaunchingGoesOn ==
  ASSUME ManagerTypeOK, ManagerNext, ~Restart, ~\E r \in Req : Register(r),
         NEW p, Launching(p)
  PROVE  Launching(p)'
<1>1. PICK s \in Req : req[s].p = p /\ req[s].pc \in {"truncate", "write", "register"}
  BY DEF Launching
<1>2. CASE req'[s] = req[s]
  BY <1>1, <1>2 DEF Launching
<1>3. ASSUME NEW r \in Req,
             PickId(r) \/ StopRun(r) \/ PollRun(r) \/ RequestStep(r),
             r = s
      PROVE  Launching(p)'
  <2>1. TruncateMeta(s) \/ WriteMeta(s)
    BY <1>1, <1>3 DEF PickId, StopRun, PollRun, RequestStep, LaunchStep, StopStep,
       StatusStep, Spawn, Waited, Escalate, Seal, Label, ReadMeta, Rewrite, Overwrite
  <2>2. req'[s].pc \in {"write", "register"} /\ req'[s].p = p
    BY <1>1, <2>1 DEF TruncateMeta, WriteMeta, Goto, ManagerTypeOK
  <2>. QED
    BY <2>2 DEF Launching
<1>4. ASSUME NEW r \in Req,
             PickId(r) \/ StopRun(r) \/ PollRun(r) \/ RequestStep(r),
             r # s
      PROVE  req'[s] = req[s]
  BY <1>4, RequestIsAlone DEF OnlyRequest
<1>5. ASSUME NEW q \in Launch, ProcStep(q)
      PROVE  req' = req
  BY <1>5, ProcessesGoOn
<1>. QED
  BY <1>2, <1>3, <1>4, <1>5 DEF ManagerNext

\* What this server launched alone under its id is in the registry.
LEMMA ManagedStaysReachable ==
  ASSUME ManagerInv, ManagerNext
  PROVE  ManagedIsReachable'
<1>0. /\ ManagerTypeOK /\ ManagedIsReachable /\ LaunchesAreTyped /\ GoesOn
      /\ \A r \in Req : RequestKnows(r)
  BY NextGoesOn DEF ManagerInv
<1>1. SUFFICES ASSUME NEW p \in Launch, NEW i, i = proc'[p].id, Alive(p)',
                      proc'[p].server = restarts', ~Launching(p)', ~Shared(i)'
               PROVE  reg'[i] = p
  <2>1. \A p \in Launch : \A i : i = proc'[p].id =>
          (Shared(i)' <=> Cardinality({x \in Launch : proc'[x].id = proc'[p].id}) > 1)
    BY DEF Shared
  <2>. QED
    BY <1>1, <2>1 DEF ManagedIsReachable, Alive, Launching, Shared
<1>2. Launched(p)
  BY <1>0, <1>1, NoneIsNew DEF Launched, Alive
<1>3. Alive(p) /\ proc[p].id = i /\ i \in Id /\ proc[p].server = restarts'
  BY <1>0, <1>1, <1>2 DEF GoesOn, Launched, Alive, LaunchesAreTyped
<1>4. restarts' = restarts /\ ~Restart
  <2>1. proc[p].server <= restarts /\ restarts \in Nat
    BY <1>0, <1>2, RestartsCount DEF LaunchesAreTyped, Launched
  <2>2. Restart => restarts' = restarts + 1
    BY DEF Restart
  <2>. QED
    BY <1>0, <1>3, <2>1, <2>2, RestartsCount
<1>5. ~Shared(i)
  BY <1>1, <1>3, SharedStays
<1>6. CASE \E r \in Req : Register(r)
  <2>. PICK r \in Req : Register(r)
    BY <1>6
  <2>1. PICK q : Register(r) /\ q = req[r].p
    OBVIOUS
  <2>2. /\ Settled(q)' /\ proc'[q].id = req[r].id /\ Launching(q)
        /\ req[r].id \in Id /\ reg' = [reg EXCEPT ![req[r].id] = q] /\ proc' = proc
    BY <2>1, RegisterSettles DEF Register
  <2>3. CASE req[r].id = i
    <3>1. q \in Launch /\ proc[q].id = i
      BY <2>2, <2>3 DEF Settled, Launched
    <3>2. p = q
      BY <1>0, <1>3, <1>5, <3>1, OneOfItsId
    <3>. QED
      BY <1>0, <2>2, <2>3, <3>2 DEF ManagerTypeOK
  <2>4. CASE req[r].id # i
    <3>1. ~Launching(p)
      <4>1. SUFFICES ASSUME NEW s \in Req, req[s].p = p,
                            req[s].pc \in {"truncate", "write", "register"}
                     PROVE  FALSE
        BY DEF Launching
      <4>2. proc[p].id = req[s].id
        BY <1>0, <4>1 DEF RequestKnows, LaunchPc
      <4>3. s # r
        BY <1>3, <2>4, <4>2
      <4>4. req'[s] = req[s]
        BY <1>0, <2>1, <4>3 DEF Register, Done, ManagerTypeOK
      <4>. QED
        BY <1>1, <4>1, <4>4 DEF Launching
    <3>2. reg[i] = p
      BY <1>0, <1>3, <1>4, <1>5, <3>1 DEF ManagedIsReachable
    <3>. QED
      BY <1>0, <1>3, <2>2, <2>4, <3>2 DEF ManagerTypeOK
  <2>. QED
    BY <2>3, <2>4
<1>7. CASE ~\E r \in Req : Register(r)
  <2>1. reg' = reg
    BY <1>0, <1>4, <1>7, RegistrySteps
  <2>2. ~Launching(p)
    BY <1>0, <1>1, <1>2, <1>4, <1>7, LaunchingGoesOn
  <2>. QED
    BY <1>0, <1>3, <1>4, <1>5, <2>1, <2>2 DEF ManagedIsReachable
<1>. QED
  BY <1>6, <1>7

\* Every step of the manager keeps the invariant.
LEMMA ManagerStepKeepsInv ==
  ASSUME ManagerInv, ManagerNext
  PROVE  ManagerInv'
<1>0. ManagerTypeOK /\ \A r \in Req : RequestKnows(r)
  BY DEF ManagerInv
<1>1. ManagerTypeOK'
  <2>1. ASSUME NEW r \in Req,
               PickId(r) \/ StopRun(r) \/ PollRun(r) \/ RequestStep(r)
        PROVE  ManagerTypeOK'
    <3>1. req[r].pc # "idle" => req[r].id \in Id
      BY <1>0 DEF RequestKnows
    <3>. QED
      BY <1>0, <2>1, <3>1, RequestTypes
  <2>2. ASSUME NEW q \in Launch, ProcStep(q)
        PROVE  ManagerTypeOK'
    BY <1>0, <2>2, ProcTypes
  <2>. QED
    BY <1>0, <2>1, <2>2, RestartTypes DEF ManagerNext
<1>2. ASSUME NEW s \in Req
      PROVE  RequestKnows(s)'
  <2>1. CASE req'[s] = req[s]
    BY <1>0, <2>1, KnowsStays
  <2>2. ASSUME NEW r \in Req,
               PickId(r) \/ StopRun(r) \/ PollRun(r) \/ RequestStep(r)
        PROVE  RequestKnows(s)'
    <3>1. CASE s = r
      BY <2>2, <3>1, ActorKnows
    <3>2. CASE s # r
      BY <1>0, <2>1, <2>2, <3>2, RequestIsAlone DEF OnlyRequest
    <3>. QED
      BY <3>1, <3>2
  <2>3. ASSUME NEW q \in Launch, ProcStep(q)
        PROVE  RequestKnows(s)'
    BY <1>0, <2>1, <2>3, ProcessesGoOn
  <2>4. CASE Restart
    <3>1. req'[s].pc = "idle"
      BY <2>4 DEF Restart, IdleReq
    <3>. QED
      BY <3>1, IdleKnows
  <2>. QED
    BY <2>2, <2>3, <2>4 DEF ManagerNext
<1>. QED
  BY <1>1, <1>2, LaunchedOnceStays, LaunchesStayTyped, RegistryStaysTrue,
     MetaStaysTrue, ManagedStaysReachable
     DEF ManagerInv

\* A server that was just started has nothing to be wrong about.
LEMMA ManagerStartsInInv ==
  ASSUME ManagerInit
  PROVE  ManagerInv
<1>. USE Bounds DEF ManagerInit
<1>1. ManagerTypeOK
  BY DEF ManagerTypeOK, IdleReq, Status, Terminal
<1>2. \A r \in Req : req[r].pc = "idle"
  BY DEF IdleReq
<1>3. (\A r \in Req : RequestKnows(r)) /\ LaunchedOnce
  BY <1>2 DEF RequestKnows, LaunchedOnce, LaunchPc, AboutPc, StatusPc
<1>4. \A p \in Launch : ~Launched(p) /\ ~Alive(p) /\ proc[p].id = 0
  BY DEF Launched, Alive
<1>5. LaunchesAreTyped /\ RegistryIsTrue /\ ManagedIsReachable
  BY <1>4 DEF LaunchesAreTyped, RegistryIsTrue, ManagedIsReachable
<1>6. MetaIsTrue
  BY DEF MetaIsTrue, Terminal
<1>. QED
  BY <1>1, <1>3, <1>5, <1>6 DEF ManagerInv

\* The invariant is about the manager's state alone.
LEMMA ManagerStuttersInInv ==
  ASSUME ManagerInv, UNCHANGED managerVars
  PROVE  ManagerInv'
BY DEF managerVars, ManagerInv, ManagerTypeOK, RequestKnows, Launched, Settled, Launching,
       Gone, Alive, SaysTruth, LaunchedOnce, LaunchesAreTyped, RegistryIsTrue, MetaIsTrue,
       ManagedIsReachable, Shared

\* A step of the dashboard is one of the manager's or leaves it alone.
LEMMA DashboardStepIsManagerStep ==
  ASSUME [Next]_vars
  PROVE  ManagerNext \/ UNCHANGED managerVars
BY DEF Next, vars, managerVars

\* The invariant holds in every state of every behaviour.
LEMMA ManagerInvAlways == Spec => []ManagerInv
<1>1. Init => ManagerInv
  BY ManagerStartsInInv DEF Init
<1>2. ManagerInv /\ [Next]_vars => ManagerInv'
  BY DashboardStepIsManagerStep, ManagerStepKeepsInv, ManagerStuttersInInv
<1>. QED
  BY <1>1, <1>2, PTL DEF Spec

-----------------------------------------------------------------------------
(* The manager: the theorems *)

(***************************************************************************)
(* Requests, processes and restarts keep the types of what they share.     *)
(***************************************************************************)
THEOREM ManagerTypesHold == Spec => []ManagerTypeOK
<1>1. ManagerInv => ManagerTypeOK
  BY DEF ManagerInv
<1>. QED
  BY <1>1, ManagerInvAlways, PTL

(***************************************************************************)
(* A living process that this server launched, alone under its id, is the  *)
(* one the registry has under that id (dashboard.py: launch, stop): no     *)
(* interleaving of launches loses it.                                      *)
(***************************************************************************)
THEOREM ManagedStaysInReach == Spec => []ManagedIsReachable
<1>1. ManagerInv => ManagedIsReachable
  BY DEF ManagerInv
<1>. QED
  BY <1>1, ManagerInvAlways, PTL

\* Under an id that is not shared the launch meta.json speaks of is its own.
LEMMA MetaSpeaksOfIt ==
  ASSUME ManagerInv, NEW p \in Launch, Launched(p), NEW i, i = proc[p].id, ~Shared(i),
         meta[i] \in Terminal
  PROVE  Settled(p) /\ SaysTruth(p, meta[i]) /\ Gone(p)
<1>1. i \in Id
  BY DEF ManagerInv, LaunchesAreTyped
<1>2. PICK q \in Launch : Settled(q) /\ proc[q].id = i /\ SaysTruth(q, meta[i])
  BY <1>1 DEF ManagerInv, MetaIsTrue
<1>3. q = p
  BY <1>2, OneOfItsId DEF ManagerInv
<1>4. Gone(p)
  BY <1>2, <1>3 DEF SaysTruth, Gone, Alive, Terminal
<1>. QED
  BY <1>2, <1>3, <1>4

(***************************************************************************)
(* What meta.json says of a run that has its id to itself is true: a       *)
(* terminal status only of a process that is gone or was sent SIGKILL,     *)
(* "finished" and "failed" by its exit code (dashboard.py:_live_status,    *)
(* stop, _persist_status, beside main's own _write_cli_meta).              *)
(***************************************************************************)
THEOREM StatusStaysTrue == Spec => []StatusIsTruth
<1>1. ManagerInv => StatusIsTruth
  <2>1. SUFFICES ASSUME ManagerInv, NEW p \in Launch, NEW m, m = meta[proc[p].id],
                        proc[p].st # "none", ~Shared(proc[p].id)
                 PROVE  /\ m \in Terminal => ~Alive(p) \/ "KILL" \in sig[p]
                        /\ m = "finished" => proc[p].ok
                        /\ m = "failed" => ~proc[p].ok
    BY DEF StatusIsTruth
  <2>2. Launched(p)
    BY <2>1 DEF Launched
  <2>3. m \in Terminal => SaysTruth(p, m) /\ Gone(p)
    BY <2>1, <2>2, MetaSpeaksOfIt
  <2>. QED
    BY <2>3 DEF SaysTruth, Gone, Terminal
<1>. QED
  BY <1>1, ManagerInvAlways, PTL

\* The launch of an id is over: its request is, and it can write no more.
Over(i) ==
  /\ meta[i] # "running"
  /\ \E p \in Launch : Settled(p) /\ proc[p].id = i /\ Gone(p)

\* Of the steps that write "running", none is about a launch that is over.
LEMMA RunningIsWrittenFirst ==
  ASSUME ManagerInv, ManagerNext, NEW i \in Id, ~Shared(i), Over(i),
         meta'[i] = "running"
  PROVE  FALSE
<1>0. /\ ManagerTypeOK /\ LaunchesAreTyped /\ \A r \in Req : RequestKnows(r)
      /\ meta[i] # "running"
  BY DEF ManagerInv, Over
<1>1. ASSUME NEW j, NEW m, m # "running", meta' = [meta EXCEPT ![j] = m]
      PROVE  FALSE
  BY <1>0, <1>1 DEF ManagerTypeOK
<1>2. ASSUME NEW p \in Launch, Launched(p), proc[p].id = i, ~Gone(p) \/ Launching(p)
      PROVE  FALSE
  <2>1. PICK q \in Launch : Settled(q) /\ proc[q].id = i /\ Gone(q)
    BY DEF Over
  <2>2. q = p
    BY <1>0, <1>2, <2>1, OneOfItsId
  <2>. QED
    BY <1>2, <2>1, <2>2 DEF Settled
<1>3. ASSUME NEW r \in Req,
             PickId(r) \/ StopRun(r) \/ PollRun(r) \/ RequestStep(r)
      PROVE  FALSE
  <2>1. CASE TruncateMeta(r) \/ Rewrite(r)
    BY <1>0, <1>1, <2>1 DEF TruncateMeta, Rewrite
  <2>2. CASE WriteMeta(r)
    <3>1. PICK p : p = req[r].p
      OBVIOUS
    <3>2. req[r].pc = "write" /\ req[r].id = i
      BY <1>0, <2>2 DEF WriteMeta, ManagerTypeOK
    <3>3. Launched(p) /\ proc[p].id = i /\ Launching(p)
      BY <1>0, <3>1, <3>2 DEF RequestKnows, LaunchPc, Launching
    <3>. QED
      BY <1>2, <3>3 DEF Launched
  <2>3. CASE Overwrite(r)
    <3>1. PICK m \in Written(req[r].id, req[r].status) : meta' = [meta EXCEPT ![req[r].id] = m]
      BY <2>3 DEF Overwrite
    <3>2. req[r].status # "running"
      BY <1>0, <2>3 DEF RequestKnows, Overwrite, StatusPc, Terminal
    <3>3. m # "running"
      BY <3>1, <3>2 DEF Written
    <3>. QED
      BY <1>1, <3>1, <3>3
  <2>4. CASE ~(TruncateMeta(r) \/ Rewrite(r) \/ WriteMeta(r) \/ Overwrite(r))
    BY <1>0, <1>3, <2>4 DEF PickId, StopRun, PollRun, RequestStep, LaunchStep, StopStep,
       StatusStep, Spawn, Register, Waited, Escalate, Seal, Label, ReadMeta
  <2>. QED
    BY <2>1, <2>2, <2>3, <2>4
<1>4. ASSUME NEW q \in Launch, ProcStep(q)
      PROVE  FALSE
  <2>1. CASE CliTruncate(q)
    BY <1>0, <1>1, <2>1 DEF CliTruncate
  <2>2. CASE CliWrite(q)
    <3>1. proc[q].st = "write" /\ "KILL" \notin sig[q] /\ proc[q].id = i
      BY <1>0, <2>2 DEF CliWrite, ManagerTypeOK
    <3>2. Launched(q) /\ ~Gone(q)
      BY <3>1 DEF Launched, Gone, Alive
    <3>. QED
      BY <1>2, <3>1, <3>2
  <2>3. CASE ~(CliTruncate(q) \/ CliWrite(q))
    BY <1>0, <1>4, <2>3 DEF ProcStep, CheckMeta, End, Interrupted, Terminated, Killed, OnlyProc
  <2>. QED
    BY <2>1, <2>2, <2>3
<1>5. CASE Restart
  BY <1>0, <1>5 DEF Restart
<1>. QED
  BY <1>3, <1>4, <1>5 DEF ManagerNext

\* An id that had a terminal status stays over, unless it comes to be shared.
FinalIsOver == final \subseteq Id /\ \A i \in final : Shared(i) \/ Over(i)

\* What makes an id final also makes it over.
LEMMA TerminalIsOver ==
  ManagerInv => \A i \in Id : meta[i] \in Terminal => Over(i)
<1>. SUFFICES ASSUME ManagerInv, NEW i \in Id, meta[i] \in Terminal
              PROVE  Over(i)
  OBVIOUS
<1>1. PICK p \in Launch : Settled(p) /\ proc[p].id = i /\ SaysTruth(p, meta[i])
  BY DEF ManagerInv, MetaIsTrue
<1>2. Gone(p)
  BY <1>1 DEF SaysTruth, Gone, Alive, Terminal
<1>. QED
  BY <1>1, <1>2 DEF Over, Terminal

\* No step of the manager begins what is over again.
LEMMA OverStays ==
  ASSUME ManagerInv, ManagerInv', ManagerNext, FinalIsOver,
         final' = final \cup {i \in Id : meta'[i] \in Terminal}
  PROVE  FinalIsOver'
<1>1. ASSUME NEW i \in final
      PROVE  Shared(i)' \/ Over(i)'
  <2>0. i \in Id
    BY DEF FinalIsOver
  <2>1. CASE Shared(i)
    BY <2>0, <2>1, SharedStays
  <2>2. CASE ~Shared(i)
    <3>1. Over(i)
      BY <2>2 DEF FinalIsOver
    <3>2. meta'[i] # "running"
      BY <2>0, <2>2, <3>1, RunningIsWrittenFirst
    <3>3. PICK p \in Launch : Settled(p) /\ proc[p].id = i /\ Gone(p)
      BY <3>1 DEF Over
    <3>4. GoesOn /\ Settled(p)' /\ Launched(p)
      BY <3>3, NextGoesOn, SettledStays DEF ManagerInv, Settled
    <3>5. proc'[p].id = i /\ Gone(p)'
      BY <3>3, <3>4 DEF GoesOn
    <3>. QED
      BY <3>2, <3>4, <3>5 DEF Over
  <2>. QED
    BY <2>1, <2>2
<1>2. (ManagerInv => \A i \in Id : meta[i] \in Terminal => Over(i))'
  BY TerminalIsOver, PTL
<1>. QED
  BY <1>1, <1>2 DEF FinalIsOver

(***************************************************************************)
(* A terminal status is final under an id that is not shared, however long *)
(* ago it was on record and however often the file was truncated since:    *)
(* neither the launch that is still writing its meta.json nor the process  *)
(* that found none can be late for it (dashboard.py:_write_meta,           *)
(* run.py:_write_cli_meta).                                                *)
(***************************************************************************)
THEOREM TerminalIsFinal == Spec => []TerminalStays
<1>1. Init => FinalIsOver
  BY DEF Init, FinalIsOver
<1>2. ManagerInv /\ ManagerInv' /\ FinalIsOver /\ [Next]_vars => FinalIsOver'
  <2>1. ASSUME FinalIsOver, UNCHANGED <<final, managerVars>>
        PROVE  FinalIsOver'
    BY <2>1 DEF FinalIsOver, Over, Shared, Settled, Launched, Launching, Gone, Alive,
                managerVars
  <2>2. CASE UNCHANGED <<final, managerVars>>
    BY <2>1, <2>2
  <2>3. CASE ManagerNext /\ final' = final \cup {i \in Id : meta'[i] \in Terminal}
    BY <2>3, OverStays
  <2>. QED
    BY <2>2, <2>3 DEF Next, vars
<1>3. FinalIsOver => TerminalStays
  BY DEF FinalIsOver, Over, TerminalStays
<1>. QED
  BY <1>1, <1>2, <1>3, ManagerInvAlways, PTL DEF Spec

-----------------------------------------------------------------------------
(* The sidecars: places in a sequence *)

Rank(K, i) == Cardinality({j \in K : j <= i})

\* Of two places, the later one has the greater rank.
LEMMA RanksGrow ==
  ASSUME NEW K \in SUBSET Nat, IsFiniteSet(K), NEW i \in K, NEW j \in K, i < j
  PROVE  Rank(K, i) < Rank(K, j)
<1>. DEFINE A == {x \in K : x <= i}
            B == {x \in K : x <= j}
<1>1. IsFiniteSet(B)
  BY FS_Subset
<1>2. A \subseteq B /\ A # B
  <2>1. j \in B /\ j \notin A
    OBVIOUS
  <2>2. \A x \in Nat : x <= i => x <= j
    OBVIOUS
  <2>3. A \subseteq B
    BY <2>2
  <2>. QED
    BY <2>1, <2>3
<1>3. Cardinality(A) <= Cardinality(B) /\ Cardinality(A) # Cardinality(B)
  BY <1>1, <1>2, FS_Subset
<1>4. Cardinality(A) \in Nat /\ Cardinality(B) \in Nat
  BY <1>1, <1>2, FS_Subset, FS_CardinalityType
<1>. QED
  BY <1>3, <1>4 DEF Rank

\* Every number up to their count is the rank of one of the places, and of one only.
LEMMA RanksCount ==
  ASSUME NEW K \in SUBSET Nat, IsFiniteSet(K)
  PROVE  /\ Cardinality(K) \in Nat
         /\ \A i \in K : Rank(K, i) \in 1 .. Cardinality(K)
         /\ \A i, j \in K : Rank(K, i) = Rank(K, j) => i = j
         /\ \A k \in 1 .. Cardinality(K) : \E i \in K : Rank(K, i) = k
<1>. DEFINE n == Cardinality(K)
            rank == [i \in K |-> Rank(K, i)]
<1>1. n \in Nat
  BY FS_CardinalityType
<1>2. ASSUME NEW i \in K
      PROVE  Rank(K, i) \in 1 .. n
  <2>. DEFINE A == {x \in K : x <= i}
  <2>1. IsFiniteSet(A) /\ Cardinality(A) \in Nat /\ Cardinality(A) <= n
    BY FS_Subset, FS_CardinalityType
  <2>2. i \in A
    OBVIOUS
  <2>3. Cardinality(A) # 0
    BY <2>1, <2>2, FS_EmptySet
  <2>. QED
    BY <1>1, <2>1, <2>3 DEF Rank
<1>3. ASSUME NEW i \in K, NEW j \in K, Rank(K, i) = Rank(K, j)
      PROVE  i = j
  <2>1. Rank(K, i) \in Nat /\ Rank(K, j) \in Nat
    BY <1>2
  <2>2. i \in Nat /\ j \in Nat
    OBVIOUS
  <2>3. ~(i < j) /\ ~(j < i)
    BY <1>3, <2>1, RanksGrow
  <2>. QED
    BY <2>2, <2>3
<1>4. rank \in Injection(K, 1 .. n)
  BY <1>2, <1>3 DEF Injection, IsInjective
<1>5. IsFiniteSet(1 .. n) /\ Cardinality(1 .. n) = n
  BY <1>1, FS_Interval
<1>6. rank \in Surjection(K, 1 .. n)
  BY <1>4, <1>5, FS_Injection
<1>. QED
  BY <1>1, <1>2, <1>3, <1>6 DEF Surjection

\* r has, of the n elements of s, some that are not in drop, each once.
Picks(r, s, n, drop) ==
  \E c \in Nat : \E place \in [1 .. c -> 1 .. n] :
    /\ \A k \in 1 .. c : place[k] \notin drop
    /\ \A k, l \in 1 .. c : place[k] = place[l] => k = l
    /\ r = [k \in 1 .. c |-> s[place[k]]]

\* That is what Without does.
LEMMA WithoutPicks ==
  ASSUME NEW s, NEW n \in Nat, DOMAIN s = 1 .. n, NEW drop
  PROVE  Picks(Without(s, drop), s, n, drop)
<1>. DEFINE keep == (DOMAIN s) \ drop
            c == Cardinality(keep)
            place == [k \in 1 .. c |-> CHOOSE i \in keep : Rank(keep, i) = k]
<1>1. keep \in SUBSET Nat /\ IsFiniteSet(keep)
  <2>1. IsFiniteSet(1 .. n)
    BY FS_Interval
  <2>. QED
    BY <2>1, FS_Subset
<1>2. c \in Nat /\ \A k \in 1 .. c : \E i \in keep : Rank(keep, i) = k
  BY <1>1, RanksCount
<1>3. \A k \in 1 .. c : place[k] \in keep /\ Rank(keep, place[k]) = k
  BY <1>2
<1>4. Without(s, drop) = [k \in 1 .. c |-> s[place[k]]]
  BY DEF Without, Rank
<1>. HIDE DEF place, c
<1>5. place \in [1 .. c -> 1 .. n]
  BY <1>3 DEF place
<1>6. \A k \in 1 .. c : place[k] \notin drop
  BY <1>3
<1>7. \A k, l \in 1 .. c : place[k] = place[l] => k = l
  BY <1>3
<1>. HIDE DEF keep
<1>. QED
  BY <1>2, <1>4, <1>5, <1>6, <1>7 DEF Picks

\* What is picked with some places left out is picked.
LEMMA PicksOfAll ==
  ASSUME NEW r, NEW s, NEW n, NEW drop, Picks(r, s, n, drop)
  PROVE  Picks(r, s, n, {})
BY DEF Picks

Ended(s) == {i \in DOMAIN s : s[i] = "ended"}

\* Evict picks from s, and no more ended calls than the cap.
LEMMA EvictKeeps ==
  ASSUME NEW s, NEW n \in Nat, DOMAIN s = 1 .. n, Len(s) = n
  PROVE  Picks(Evict(s), s, n, {}) /\ Cardinality(Ended(Evict(s))) <= RunCap
<1>. DEFINE K == {i \in 1 .. n : s[i] = "ended"}
            drop == {i \in DOMAIN s : /\ s[i] = "ended"
                                      /\ Cardinality({j \in 1 .. i : s[j] = "ended"}) + RunCap <= n}
<1>1. RunCap \in Nat
  BY SidecarAssumption
<1>2. Evict(s) = Without(s, drop)
  BY DEF Evict
<1>3. Picks(Evict(s), s, n, drop)
  <2>. HIDE DEF drop
  <2>. QED
    BY <1>2, WithoutPicks
<1>. PICK c \in Nat : \E place \in [1 .. c -> 1 .. n] :
       /\ \A k \in 1 .. c : place[k] \notin drop
       /\ \A k, l \in 1 .. c : place[k] = place[l] => k = l
       /\ Evict(s) = [k \in 1 .. c |-> s[place[k]]]
  BY <1>3 DEF Picks
<1>4. PICK place \in [1 .. c -> 1 .. n] :
        /\ \A k \in 1 .. c : place[k] \notin drop
        /\ \A k, l \in 1 .. c : place[k] = place[l] => k = l
        /\ Evict(s) = [k \in 1 .. c |-> s[place[k]]]
  OBVIOUS
<1>5. K \in SUBSET Nat /\ IsFiniteSet(K) /\ Cardinality(K) \in Nat /\ Cardinality(K) <= n
  <2>1. IsFiniteSet(1 .. n) /\ Cardinality(1 .. n) = n
    BY FS_Interval
  <2>2. K \in SUBSET (1 .. n)
    OBVIOUS
  <2>. QED
    BY <2>1, <2>2, FS_Subset, FS_CardinalityType
<1>6. /\ \A i \in K : Rank(K, i) \in 1 .. Cardinality(K)
      /\ \A i, j \in K : Rank(K, i) = Rank(K, j) => i = j
  BY <1>5, RanksCount
<1>7. ASSUME NEW i \in K
      PROVE  Cardinality({j \in 1 .. i : s[j] = "ended"}) = Rank(K, i)
  <2>1. {j \in 1 .. i : s[j] = "ended"} = {j \in K : j <= i}
    OBVIOUS
  <2>. QED
    BY <2>1 DEF Rank
<1>8. ASSUME NEW i \in K, i \notin drop
      PROVE  Rank(K, i) \in 1 .. n /\ n < Rank(K, i) + RunCap
  <2>1. Rank(K, i) \in 1 .. n
    <3>. HIDE DEF K
    <3>. QED
      BY <1>5, <1>6
  <2>2. ~(Rank(K, i) + RunCap <= n)
    BY <1>7, <1>8
  <2>. QED
    BY <1>1, <2>1, <2>2
<1>. DEFINE E == {k \in 1 .. c : s[place[k]] = "ended"}
            low == IF RunCap <= n THEN n - RunCap + 1 ELSE 1
            f == [k \in E |-> Rank(K, place[k])]
<1>9. \A k \in E : place[k] \in K /\ place[k] \notin drop
  BY <1>4
<1>10. \A k \in E : f[k] \in low .. n
  <2>. HIDE DEF K, drop
  <2>. QED
    BY <1>1, <1>8, <1>9
<1>11. \A k, l \in E : f[k] = f[l] => k = l
  <2>. HIDE DEF K, drop
  <2>. QED
    BY <1>4, <1>6, <1>9
<1>12. f \in Injection(E, low .. n)
  <2>. HIDE DEF low, E
  <2>. QED
    BY <1>10, <1>11 DEF Injection, IsInjective
<1>13. IsFiniteSet(low .. n) /\ Cardinality(low .. n) \in Nat /\ Cardinality(low .. n) <= RunCap
  <2>1. low \in Int /\ IF low > n THEN RunCap >= 0 ELSE n - low + 1 <= RunCap
    BY <1>1
  <2>. HIDE DEF low
  <2>2. IsFiniteSet(low .. n) /\ Cardinality(low .. n) = IF low > n THEN 0 ELSE n - low + 1
    BY <2>1, FS_Interval
  <2>. QED
    BY <1>1, <2>1, <2>2
<1>14. Cardinality(E) <= RunCap
  <2>. HIDE DEF E, low, f
  <2>1. Cardinality(E) <= Cardinality(low .. n) /\ IsFiniteSet(E)
    BY <1>12, <1>13, FS_Injection
  <2>2. Cardinality(E) \in Nat
    BY <2>1, FS_CardinalityType
  <2>. QED
    BY <1>1, <1>13, <2>1, <2>2
<1>15. Ended(Evict(s)) = E
  <2>. HIDE DEF drop, K
  <2>. QED
    BY <1>4 DEF Ended
<1>16. Picks(Evict(s), s, n, {})
  <2>. HIDE DEF drop
  <2>. QED
    BY <1>3, PicksOfAll
<1>. QED
  BY <1>14, <1>15, <1>16

-----------------------------------------------------------------------------
(* The sidecars: the inductive invariants *)

\* A thread has at most one transcript that has not ended, while it is in
\* that call; of those that have there are no more than the cap.
CallsKept ==
  /\ calls \in Seq(Thread \cup {"ended"})
  /\ \A i, j \in DOMAIN calls : calls[i] = calls[j] /\ calls[i] # "ended" => i = j
  /\ \A i \in DOMAIN calls :
       calls[i] # "ended" => at[calls[i]] \in {"in", "unregistered"}
  /\ Cardinality(Ended(calls)) <= RunCap

\* A flush is of one of the files.
FlushesAreOfFiles == \A t \in Thread : flush[t].step # "none" => flush[t].file \in File

SidecarInv == SidecarTypeOK /\ FlushesAreOfFiles /\ CallsKept

\* What one thread that writes alone leaves of a file, wherever it is in a flush.
WritesAlone(t, f) ==
  LET file == disk[f]
      In(step) == flush[t].file = f /\ flush[t].step = step
  IN  /\ file.data[0] = Blank
      /\ file.cur # 0 => file.data[file.cur].form = "whole" /\ file.tmp # file.cur
      /\ In("write") \/ In("replace") => file.tmp # 0
      /\ In("write") => /\ flush[t].fd = file.tmp /\ file.data[file.tmp] = Blank
                        /\ flush[t].on = Payload(f)
      /\ In("replace") => file.data[file.tmp] = [form |-> "whole", on |-> Payload(f)]
      /\ Payload(f) = {} => \/ f \in lost \/ flush[t].file = f
                            \/ file.data[file.cur].on = {}

OneThreadInv ==
  /\ \A f \in File : WritesAlone(Director, f)
  /\ flush[Director].file = "none" => flush[Director].step = "none"
  /\ flush[Director].step = "none" => flush[Director].file = "none"
  /\ at[Director] \in {"out", "unregistered"} => acts = {}

-----------------------------------------------------------------------------
(* The sidecars: the transcripts kept *)

\* As many transcripts as the cap, and one more per thread, is all there is.
LEMMA CapHolds ==
  ASSUME CallsKept
  PROVE  Len(calls) <= RunCap + Cardinality(Thread)
<1>. PICK n \in Nat : DOMAIN calls = 1 .. n /\ Len(calls) = n
  BY DEF CallsKept
<1>. DEFINE R == {i \in 1 .. n : calls[i] # "ended"}
            f == [i \in R |-> calls[i]]
<1>1. /\ IsFiniteSet(1 .. n) /\ Cardinality(1 .. n) = n
      /\ IsFiniteSet(Thread) /\ RunCap \in Nat
  BY FS_Interval, SidecarAssumption
<1>2. \A i \in R : calls[i] \in Thread
  BY DEF CallsKept
<1>3. f \in Injection(R, Thread)
  BY <1>2 DEF Injection, IsInjective, CallsKept
<1>4. Cardinality(R) <= Cardinality(Thread) /\ IsFiniteSet(R)
  BY <1>1, <1>3, FS_Injection
<1>5. IsFiniteSet(Ended(calls))
  BY <1>1, FS_Subset DEF Ended
<1>6. 1 .. n = R \cup Ended(calls) /\ R \cap Ended(calls) = {}
  BY DEF Ended
<1>7. n = Cardinality(R) + Cardinality(Ended(calls))
  <2>1. Cardinality(R \cap Ended(calls)) = 0
    BY <1>6, FS_EmptySet
  <2>2. Cardinality(R) \in Nat /\ Cardinality(Ended(calls)) \in Nat
    BY <1>4, <1>5, FS_CardinalityType
  <2>3. Cardinality(R \cup Ended(calls))
          = Cardinality(R) + Cardinality(Ended(calls)) - Cardinality(R \cap Ended(calls))
    BY <1>4, <1>5, FS_Union
  <2>4. Cardinality(R \cup Ended(calls)) = n
    BY <1>1, <1>6, Zenon
  <2>. HIDE DEF R
  <2>. QED
    BY <2>1, <2>2, <2>3, <2>4
<1>8. /\ Cardinality(R) \in Nat /\ Cardinality(Ended(calls)) \in Nat
      /\ Cardinality(Thread) \in Nat
  BY <1>1, <1>4, <1>5, FS_CardinalityType
<1>9. Cardinality(Ended(calls)) <= RunCap
  BY DEF CallsKept
<1>. HIDE DEF R
<1>. QED
  BY <1>1, <1>4, <1>7, <1>8, <1>9

\* A call begins with a transcript of its own.
LEMMA StartedIsKept ==
  ASSUME SidecarTypeOK, CallsKept, NEW t \in Thread, StartTranscript(t)
  PROVE  CallsKept' /\ \A i \in DOMAIN calls' : calls'[i] = t \/ \E j \in DOMAIN calls : calls'[i] = calls[j]
<1>. PICK n \in Nat : DOMAIN calls = 1 .. n /\ Len(calls) = n
  BY DEF CallsKept
<1>1. /\ calls' \in Seq(Thread \cup {"ended"}) /\ DOMAIN calls' = 1 .. n + 1
      /\ \A i \in 1 .. n + 1 : calls'[i] = IF i = n + 1 THEN t ELSE calls[i]
  BY DEF StartTranscript, CallsKept
<1>2. /\ at[t] = "registered" /\ at'[t] = "in"
      /\ \A u \in Thread \ {t} : at'[u] = at[u]
  BY DEF StartTranscript, SidecarTypeOK
<1>3. \A i \in 1 .. n : calls[i] # t /\ (calls[i] # "ended" => calls[i] \in Thread \ {t})
  BY <1>2, SidecarAssumption DEF CallsKept
<1>4. t # "ended"
  BY SidecarAssumption
<1>5. Ended(calls') = Ended(calls)
  BY <1>1, <1>4 DEF Ended
<1>6. \A i, j \in 1 .. n + 1 : calls'[i] = calls'[j] /\ calls'[i] # "ended" => i = j
  <2>1. \A i, j \in 1 .. n : calls[i] = calls[j] /\ calls[i] # "ended" => i = j
    BY DEF CallsKept
  <2>2. \A i \in 1 .. n + 1 : i = n + 1 \/ i \in 1 .. n
    OBVIOUS
  <2>. QED
    BY <1>1, <1>3, <2>1, <2>2
<1>7. \A i \in 1 .. n + 1 : calls'[i] # "ended" => at'[calls'[i]] \in {"in", "unregistered"}
  <2>1. \A i \in 1 .. n : calls[i] # "ended" => at[calls[i]] \in {"in", "unregistered"}
    BY DEF CallsKept
  <2>2. \A i \in 1 .. n + 1 : i = n + 1 \/ i \in 1 .. n
    OBVIOUS
  <2>. QED
    BY <1>1, <1>2, <1>3, <2>1, <2>2
<1>8. \A i \in DOMAIN calls' : calls'[i] = t \/ \E j \in DOMAIN calls : calls'[i] = calls[j]
  BY <1>1
<1>9. Cardinality(Ended(calls')) <= RunCap
  BY <1>5 DEF CallsKept
<1>. QED
  BY <1>1, <1>6, <1>7, <1>8, <1>9 DEF CallsKept

\* A call that ends leaves its transcript among those that may be evicted.
LEMMA EndedIsKept ==
  ASSUME SidecarTypeOK, CallsKept, NEW t \in Thread, EndTranscript(t)
  PROVE  /\ CallsKept'
         /\ \A i \in DOMAIN calls' :
              calls'[i] # "ended" => calls'[i] # t /\ \E j \in DOMAIN calls : calls'[i] = calls[j]
<1>. PICK n \in Nat : DOMAIN calls = 1 .. n /\ Len(calls) = n
  BY DEF CallsKept
<1>. PICK s : s = [i \in DOMAIN calls |-> IF calls[i] = t THEN "ended" ELSE calls[i]]
  OBVIOUS
<1>1. DOMAIN s = 1 .. n /\ Len(s) = n
  OBVIOUS
<1>2. Picks(Evict(s), s, n, {}) /\ Cardinality(Ended(Evict(s))) <= RunCap
  BY <1>1, EvictKeeps
<1>. PICK c \in Nat : \E place \in [1 .. c -> 1 .. n] :
       /\ \A k \in 1 .. c : place[k] \notin {}
       /\ \A k, l \in 1 .. c : place[k] = place[l] => k = l
       /\ Evict(s) = [k \in 1 .. c |-> s[place[k]]]
  BY <1>2 DEF Picks
<1>. PICK place \in [1 .. c -> 1 .. n] :
       /\ \A k \in 1 .. c : place[k] \notin {}
       /\ \A k, l \in 1 .. c : place[k] = place[l] => k = l
       /\ Evict(s) = [k \in 1 .. c |-> s[place[k]]]
  OBVIOUS
<1>3. calls' = [k \in 1 .. c |-> s[place[k]]]
  BY DEF EndTranscript
<1>4. \A i \in 1 .. n : s[i] # "ended" => s[i] = calls[i] /\ calls[i] # t /\ calls[i] \in Thread
  BY DEF CallsKept
<1>5. \A i \in 1 .. n : s[i] \in Thread \cup {"ended"}
  BY <1>4
<1>6. calls' \in Seq(Thread \cup {"ended"}) /\ DOMAIN calls' = 1 .. c
  BY <1>3, <1>5, IsASeq
<1>7. /\ at'[t] = "out" /\ \A u \in Thread \ {t} : at'[u] = at[u]
  BY DEF EndTranscript, SidecarTypeOK
<1>8. \A k, l \in 1 .. c : calls'[k] = calls'[l] /\ calls'[k] # "ended" => k = l
  <2>1. \A i, j \in 1 .. n : s[i] = s[j] /\ s[i] # "ended" => i = j
    BY <1>4 DEF CallsKept
  <2>. QED
    BY <1>2, <1>3, <2>1
<1>9. \A k \in 1 .. c : calls'[k] # "ended" => at'[calls'[k]] \in {"in", "unregistered"}
  <2>1. \A i \in 1 .. n : s[i] # "ended" => at'[s[i]] \in {"in", "unregistered"}
    BY <1>4, <1>7 DEF CallsKept
  <2>. QED
    BY <1>3, <2>1
<1>10. Cardinality(Ended(calls')) <= RunCap
  BY <1>2 DEF EndTranscript
<1>11. \A k \in 1 .. c :
         calls'[k] # "ended" => calls'[k] # t /\ \E j \in 1 .. n : calls'[k] = calls[j]
  BY <1>3, <1>4
<1>12. CallsKept'
  BY <1>6, <1>8, <1>9, <1>10 DEF CallsKept
<1>13. \A i \in DOMAIN calls' : calls'[i] # "ended"
           => calls'[i] # t /\ \E j \in DOMAIN calls : calls'[i] = calls[j]
  BY <1>6, <1>11
<1>. QED
  BY <1>12, <1>13

\* The other steps of a thread leave the transcripts as they are.
LEMMA CallsStayKept ==
  ASSUME SidecarTypeOK, CallsKept, [SidecarNext]_sidecarVars
  PROVE  CallsKept'
<1>1. ASSUME NEW t \in Thread, StartHeartbeat(t) \/ Unregister(t)
      PROVE  CallsKept'
  <2>1. /\ calls' = calls /\ at'[t] \in {"registered", "unregistered"}
        /\ at[t] = "in" => at'[t] = "unregistered"
        /\ at[t] \in {"out", "in"}
        /\ \A u \in Thread \ {t} : at'[u] = at[u]
    BY <1>1 DEF StartHeartbeat, Unregister, SidecarTypeOK
  <2>2. \A i \in DOMAIN calls : calls[i] # "ended" => calls[i] \in Thread
    BY DEF CallsKept
  <2>. QED
    BY <2>1, <2>2 DEF CallsKept
<1>2. ASSUME UNCHANGED <<at, calls>>
      PROVE  CallsKept'
  BY <1>2 DEF CallsKept, Ended
<1>3. ASSUME NEW t \in Thread, StartTranscript(t)
      PROVE  CallsKept'
  BY <1>3, StartedIsKept
<1>4. ASSUME NEW t \in Thread, EndTranscript(t)
      PROVE  CallsKept'
  BY <1>4, EndedIsKept
<1>5. ASSUME NEW t \in Thread, FlushStep(t) \/ Beat(t)
      PROVE  UNCHANGED <<at, calls>>
  BY <1>5 DEF FlushStep, OpenTmp, WriteTmp, Replace, FlushFails, Beat
<1>6. ASSUME SaveState \/ Die \/ StreamStep \/ Disconnect \/ UNCHANGED sidecarVars
      PROVE  UNCHANGED <<at, calls>>
  BY <1>6 DEF SaveState, Die, StreamStep, Poll, ReadHeartbeat, Push, Disconnect,
              sidecarVars, runVars
<1>. QED
  BY <1>1, <1>2, <1>3, <1>4, <1>5, <1>6 DEF SidecarNext, CallStep

-----------------------------------------------------------------------------
(* The sidecars: types *)

Flushing == [file : File \cup {"none"}, step : {"none", "open", "write", "replace"},
             on : SUBSET Thread, fd : Inode]
Files    == [File -> [cur : Inode, tmp : Inode, data : [Inode -> Data]]]

\* The updates a flush makes to its record keep its type.
LEMMA FlushTypes ==
  ASSUME NEW fl \in [Thread -> Flushing], NEW t \in Thread
  PROVE  /\ \A c \in {"none", "open", "write", "replace"} :
              [fl EXCEPT ![t].step = c] \in [Thread -> Flushing]
         /\ \A i \in Inode : [fl EXCEPT ![t].fd = i] \in [Thread -> Flushing]
         /\ \A S \in SUBSET Thread : [fl EXCEPT ![t].on = S] \in [Thread -> Flushing]
<1>1. /\ \A x \in Flushing, c \in {"none", "open", "write", "replace"} :
            [x EXCEPT !.step = c] \in Flushing
      /\ \A x \in Flushing, i \in Inode : [x EXCEPT !.fd = i] \in Flushing
      /\ \A x \in Flushing, S \in SUBSET Thread : [x EXCEPT !.on = S] \in Flushing
  BY DEF Flushing
<1>. QED
  BY <1>1

\* The updates of one thread to a file keep the files typed.
LEMMA FileTypes ==
  ASSUME NEW fs \in Files, NEW f \in File
  PROVE  /\ \A i \in Inode : [fs EXCEPT ![f].tmp = i] \in Files
         /\ \A i \in Inode, d \in Data : [fs EXCEPT ![f].data[i] = d] \in Files
<1>. DEFINE Names == [cur : Inode, tmp : Inode, data : [Inode -> Data]]
<1>1. /\ \A x \in Names, i \in Inode : [x EXCEPT !.tmp = i] \in Names
      /\ \A x \in Names, i \in Inode, d \in Data : [x EXCEPT !.data[i] = d] \in Names
  OBVIOUS
<1>2. fs \in [File -> Names]
  BY DEF Files
<1>3. Files = [File -> Names]
  BY DEF Files
<1>. HIDE DEF Names
<1>. QED
  BY <1>1, <1>2, <1>3

\* There is one inode more than what the names and the threads can refer to.
LEMMA OneIsUnused ==
  ASSUME SidecarTypeOK, NEW f \in File, disk[f].tmp = 0
  PROVE  /\ UnusedInode(f) \in Inode \ {0, disk[f].cur}
         /\ 0 \in Inode
<1>. DEFINE fds  == {flush[t].fd : t \in Thread}
            used == {0, disk[f].cur} \cup fds
<1>1. IsFiniteSet(Thread) /\ Cardinality(Thread) \in Nat
  BY SidecarAssumption, FS_CardinalityType
<1>2. IsFiniteSet(fds) /\ Cardinality(fds) <= Cardinality(Thread)
  <2>. DEFINE g == [t \in Thread |-> flush[t].fd]
  <2>1. g \in Surjection(Thread, fds)
    BY DEF Surjection
  <2>. QED
    BY <1>1, <2>1, FS_Surjection
<1>3. IsFiniteSet(used) /\ Cardinality(used) <= Cardinality(Thread) + 2
  <2>1. used = (fds \cup {0}) \cup {disk[f].cur}
    OBVIOUS
  <2>. HIDE DEF fds, used
  <2>2. /\ IsFiniteSet(fds \cup {0}) /\ Cardinality(fds) \in Nat
        /\ Cardinality(fds \cup {0}) \in {Cardinality(fds), Cardinality(fds) + 1}
    BY <1>2, FS_AddElement, FS_CardinalityType
  <2>3. /\ IsFiniteSet((fds \cup {0}) \cup {disk[f].cur})
        /\ Cardinality((fds \cup {0}) \cup {disk[f].cur})
             \in {Cardinality(fds \cup {0}), Cardinality(fds \cup {0}) + 1}
    BY <2>2, FS_AddElement
  <2>. QED
    BY <1>1, <1>2, <2>1, <2>2, <2>3
<1>4. Cardinality(Inode) = Cardinality(Thread) + 3 /\ 0 \in Inode
  BY <1>1, FS_Interval DEF Inode
<1>5. \E i \in Inode : i \notin used
  <2>. HIDE DEF used
  <2>1. SUFFICES ASSUME Inode \subseteq used PROVE FALSE
    OBVIOUS
  <2>2. Cardinality(Inode) <= Cardinality(used)
    BY <1>3, <2>1, FS_Subset
  <2>3. Cardinality(used) \in Nat
    BY <1>3, FS_CardinalityType
  <2>. QED
    BY <1>1, <1>3, <1>4, <2>2, <2>3
<1>6. \E i \in Inode \ {0, disk[f].cur, disk[f].tmp} :
        \A t \in Thread : flush[t].file = f => flush[t].fd # i
  BY <1>5
<1>. QED
  BY <1>4, <1>6 DEF UnusedInode

\* What a flush that begins leaves of the flushes.
LEMMA BegunFlush ==
  ASSUME SidecarTypeOK, 0 \in Inode, NEW t \in Thread, NEW f \in File, Flushes(t, f)
  PROVE  /\ flush' \in [Thread -> Flushing]
         /\ flush'[t].file = f /\ flush'[t].step = "open"
BY DEF SidecarTypeOK, Flushes, NoFlush, Flushing

\* open(tmp): the file has an inode of its own for it, empty.
LEMMA OpenedFlush ==
  ASSUME SidecarTypeOK, NEW t \in Thread, OpenTmp(t), flush[t].file \in File
  PROVE  LET f == flush[t].file
             i == IF disk[f].tmp # 0 THEN disk[f].tmp ELSE UnusedInode(f)
         IN  /\ i \in Inode \ {0}
             /\ disk' \in Files /\ flush' \in [Thread -> Flushing] /\ saw' \in BOOLEAN
             /\ disk'[f].cur = disk[f].cur /\ disk'[f].tmp = i
             /\ disk'[f].data = [disk[f].data EXCEPT ![i] = Blank]
             /\ \A g \in File \ {f} : disk'[g] = disk[g]
             /\ flush'[t].file = f /\ flush'[t].step = "write"
             /\ flush'[t].fd = i /\ flush'[t].on = Payload(f)
             /\ lost' = lost
<1>. PICK f, i, S :
       /\ f \in File
       /\ f = flush[t].file /\ S = Payload(f)
       /\ i = IF disk[f].tmp # 0 THEN disk[f].tmp ELSE UnusedInode(f)
  OBVIOUS
<1>0. disk \in Files /\ flush \in [Thread -> Flushing]
  BY DEF SidecarTypeOK, Files, Flushing
<1>1. i \in Inode /\ i # 0
  BY <1>0, OneIsUnused DEF Files
<1>2. S \in SUBSET Thread
  <2>1. calls \in Seq(Thread \cup {"ended"}) /\ acts \subseteq Thread
    BY DEF SidecarTypeOK
  <2>2. ToSet(calls) \subseteq Thread \cup {"ended"}
    BY <2>1 DEF ToSet
  <2>. QED
    BY <2>1, <2>2 DEF Payload
<1>3. /\ disk' = [disk EXCEPT ![f].tmp = i, ![f].data[i] = Blank]
      /\ flush' = [flush EXCEPT ![t].step = "write", ![t].fd = i, ![t].on = S]
      /\ saw' = (saw /\ i # disk[f].cur)
  BY DEF OpenTmp
<1>4. Blank \in Data
  BY DEF Blank, Data
<1>5. /\ disk'[f].cur = disk[f].cur /\ disk'[f].tmp = i
      /\ disk'[f].data = [disk[f].data EXCEPT ![i] = Blank]
      /\ \A g \in File \ {f} : disk'[g] = disk[g]
  BY <1>0, <1>1, <1>3 DEF Files
<1>6. disk' \in Files
  <2>1. disk' = [disk EXCEPT ![f].tmp = i, ![f].data[i] = Blank]
    BY <1>3
  <2>2. [disk EXCEPT ![f].tmp = i] \in Files
    BY <1>0, <1>1, FileTypes
  <2>. QED
    BY <1>1, <1>4, <2>1, <2>2, FileTypes
<1>7. flush' \in [Thread -> Flushing]
  <2>1. [flush EXCEPT ![t].step = "write"] \in [Thread -> Flushing]
    BY <1>0, FlushTypes
  <2>2. [flush EXCEPT ![t].step = "write", ![t].fd = i] \in [Thread -> Flushing]
    BY <1>1, <2>1, FlushTypes
  <2>. QED
    BY <1>2, <1>3, <2>2, FlushTypes
<1>8. /\ flush'[t].file = f /\ flush'[t].step = "write"
      /\ flush'[t].fd = i /\ flush'[t].on = S
  <2>1. flush[t] \in Flushing
    BY <1>0
  <2>2. flush'[t] = [flush[t] EXCEPT !.step = "write", !.fd = i, !.on = S]
    BY <1>0, <1>3
  <2>. QED
    BY <2>1, <2>2 DEF Flushing
<1>9. saw' \in BOOLEAN /\ lost' = lost
  BY <1>3 DEF SidecarTypeOK, OpenTmp
<1>. QED
  BY <1>1, <1>5, <1>6, <1>7, <1>8, <1>9

\* write: what the inode that was opened has then.
LEMMA WrittenFlush ==
  ASSUME SidecarTypeOK, NEW t \in Thread, WriteTmp(t), flush[t].file \in File, 0 \in Inode
  PROVE  LET f == flush[t].file
             i == flush[t].fd
         IN  /\ disk' \in Files /\ flush' \in [Thread -> Flushing] /\ saw' \in BOOLEAN
             /\ disk'[f].cur = disk[f].cur /\ disk'[f].tmp = disk[f].tmp
             /\ \E d \in Data :
                  /\ disk'[f].data = [disk[f].data EXCEPT ![i] = d]
                  /\ \/ d = [form |-> "whole", on |-> flush[t].on]
                     \/ disk[f].data[i].form # "empty"
             /\ \A g \in File \ {f} : disk'[g] = disk[g]
             /\ flush'[t].file = f /\ flush'[t].step = "replace"
             /\ lost' = lost
<1>. PICK f, i, S : f \in File /\ f = flush[t].file /\ i = flush[t].fd /\ S = flush[t].on
  OBVIOUS
<1>0. disk \in Files /\ flush \in [Thread -> Flushing]
  BY DEF SidecarTypeOK, Files, Flushing
<1>1. i \in Inode /\ S \in SUBSET Thread
  BY <1>0 DEF Flushing
<1>. PICK d \in {[form |-> "whole", on |-> S]} \cup
               (IF disk[f].data[i].form = "empty" THEN {}
                ELSE {[Blank EXCEPT !.form = "garbled"]}) :
       disk' = [disk EXCEPT ![f].data[i] = d]
  BY DEF WriteTmp
<1>2. d \in Data
  BY <1>1 DEF Data, Blank
<1>3. d = [form |-> "whole", on |-> S] \/ disk[f].data[i].form # "empty"
  OBVIOUS
<1>4. /\ disk'[f].cur = disk[f].cur /\ disk'[f].tmp = disk[f].tmp
      /\ disk'[f].data = [disk[f].data EXCEPT ![i] = d]
      /\ \A g \in File \ {f} : disk'[g] = disk[g]
  <2>. PICK x : x = disk[f]
    OBVIOUS
  <2>1. disk'[f] = [x EXCEPT !.data[i] = d]
    BY <1>0 DEF Files
  <2>2. \A g \in File \ {f} : disk'[g] = disk[g]
    BY <1>0 DEF Files
  <2>3. x \in [cur : Inode, tmp : Inode, data : [Inode -> Data]]
    BY <1>0 DEF Files
  <2>4. /\ disk'[f].cur = x.cur /\ disk'[f].tmp = x.tmp
        /\ disk'[f].data = [x.data EXCEPT ![i] = d]
    BY <2>1, <2>3
  <2>. QED
    BY <2>2, <2>4
<1>5. disk' \in Files
  BY <1>0, <1>1, <1>2, FileTypes
<1>6. flush' = [flush EXCEPT ![t].step = "replace", ![t].fd = 0]
  BY DEF WriteTmp
<1>7. flush' \in [Thread -> Flushing]
  <2>1. [flush EXCEPT ![t].step = "replace"] \in [Thread -> Flushing]
    BY <1>0, FlushTypes
  <2>. QED
    BY <1>6, <2>1, FlushTypes
<1>8. flush'[t].file = f /\ flush'[t].step = "replace"
  BY <1>0, <1>6 DEF Flushing
<1>9. saw' \in BOOLEAN /\ lost' = lost
  BY DEF WriteTmp, SidecarTypeOK
<1>. QED
  BY <1>2, <1>3, <1>4, <1>5, <1>7, <1>8, <1>9

\* os.replace: what was the temporary file is the file.
LEMMA ReplacedFlush ==
  ASSUME SidecarTypeOK, NEW t \in Thread, Replace(t), flush[t].file \in File, 0 \in Inode
  PROVE  LET f == flush[t].file
         IN  /\ disk' \in Files /\ flush' \in [Thread -> Flushing] /\ saw' \in BOOLEAN
             /\ \A g \in File \ {f} : disk'[g] = disk[g]
             /\ flush'[t] = NoFlush
             /\ disk[f].tmp # 0
             /\ disk'[f].cur = disk[f].tmp /\ disk'[f].tmp = 0
             /\ disk'[f].data = [disk[f].data EXCEPT ![disk[f].cur] = Blank]
             /\ lost' = lost \ {f}
<1>. PICK f \in File : f = flush[t].file
  OBVIOUS
<1>0. disk \in Files /\ flush \in [Thread -> Flushing]
  BY DEF SidecarTypeOK, Files, Flushing
<1>1. NoFlush \in Flushing
  BY DEF NoFlush, Flushing
<1>2. flush' \in [Thread -> Flushing] /\ flush'[t] = NoFlush
  BY <1>0, <1>1 DEF Replace
<1>3. saw' \in BOOLEAN /\ lost' = lost \ {f}
  BY DEF Replace
<1>4. /\ disk[f].tmp # 0
      /\ disk' = [disk EXCEPT ![f].cur = disk[f].tmp, ![f].tmp = 0,
                              ![f].data[disk[f].cur] = Blank]
  BY DEF Replace
<1>5. /\ disk'[f].cur = disk[f].tmp /\ disk'[f].tmp = 0
      /\ disk'[f].data = [disk[f].data EXCEPT ![disk[f].cur] = Blank]
      /\ \A g \in File \ {f} : disk'[g] = disk[g]
  BY <1>0, <1>4 DEF Files
<1>6. Blank \in Data
  BY DEF Blank, Data
<1>7. disk' \in Files
  BY <1>0, <1>4, <1>6 DEF Files
<1>. QED
  BY <1>2, <1>3, <1>4, <1>5, <1>7

\* A flush that fails changes at most what is in the inode it opened.
LEMMA FailedFlush ==
  ASSUME SidecarTypeOK, NEW t \in Thread, FlushFails(t), flush[t].file \in File, 0 \in Inode
  PROVE  LET f == flush[t].file
             i == flush[t].fd
         IN  /\ disk' \in Files /\ flush' \in [Thread -> Flushing] /\ saw' \in BOOLEAN
             /\ \A g \in File \ {f} : disk'[g] = disk[g]
             /\ flush'[t] = NoFlush
             /\ \/ disk' = disk
                \/ /\ flush[t].step = "write"
                   /\ disk'[f].cur = disk[f].cur /\ disk'[f].tmp = disk[f].tmp
                   /\ \A j \in Inode \ {i} : disk'[f].data[j] = disk[f].data[j]
             /\ lost' = lost \cup {f}
<1>. PICK f, i : f \in File /\ f = flush[t].file /\ i = flush[t].fd
  OBVIOUS
<1>0. disk \in Files /\ flush \in [Thread -> Flushing]
  BY DEF SidecarTypeOK, Files, Flushing
<1>1. NoFlush \in Flushing /\ i \in Inode
  BY <1>0 DEF NoFlush, Flushing
<1>2. flush' \in [Thread -> Flushing] /\ flush'[t] = NoFlush
  BY <1>0, <1>1 DEF FlushFails
<1>3. saw' \in BOOLEAN /\ lost' = lost \cup {f}
  BY DEF FlushFails, SidecarTypeOK
<1>4. CASE disk' = disk
  BY <1>0, <1>2, <1>3, <1>4
<1>5. CASE /\ flush[t].step = "write"
           /\ disk' = [disk EXCEPT ![f].data[i] = [Blank EXCEPT !.form = "garbled"]]
  <2>. PICK d : d = [Blank EXCEPT !.form = "garbled"]
    OBVIOUS
  <2>1. d \in Data
    BY DEF Data, Blank
  <2>2. disk' = [disk EXCEPT ![f].data[i] = d]
    BY <1>5
  <2>3. disk' \in Files
    BY <1>0, <1>1, <2>1, <2>2, FileTypes
  <2>. PICK x : x = disk[f]
    OBVIOUS
  <2>4. disk'[f] = [x EXCEPT !.data[i] = d] /\ \A g \in File \ {f} : disk'[g] = disk[g]
    BY <1>0, <2>2 DEF Files
  <2>5. x \in [cur : Inode, tmp : Inode, data : [Inode -> Data]]
    BY <1>0 DEF Files
  <2>6. /\ disk'[f].cur = x.cur /\ disk'[f].tmp = x.tmp
        /\ \A j \in Inode \ {i} : disk'[f].data[j] = x.data[j]
    BY <2>4, <2>5
  <2>7. flush[t].step = "write" /\ \A g \in File \ {f} : disk'[g] = disk[g]
    BY <1>5, <2>4
  <2>. QED
    BY <1>2, <1>3, <2>3, <2>6, <2>7
<1>6. \/ disk' = disk
      \/ /\ flush[t].step = "write"
         /\ disk' = [disk EXCEPT ![f].data[i] = [Blank EXCEPT !.form = "garbled"]]
  BY DEF FlushFails
<1>. QED
  BY <1>4, <1>5, <1>6

\* Of the types of what the run shares, without the transcripts' length.
Typed ==
  /\ alive \in BOOLEAN
  /\ at \in [Thread -> {"out", "registered", "in", "unregistered"}]
  /\ acts \subseteq Thread
  /\ flush \in [Thread -> Flushing]
  /\ disk \in Files
  /\ lost \subseteq File
  /\ stateYaml \in {"absent", "empty", "whole"}
  /\ saw \in BOOLEAN
  /\ stream \in [pc : {"poll", "heartbeat", "state", "gone"}, active : BOOLEAN]
  /\ shown \in View

\* The steps keep them, and what is flushed is a file.
LEMMA SidecarTypesStay ==
  ASSUME SidecarInv, [SidecarNext]_sidecarVars
  PROVE  Typed' /\ FlushesAreOfFiles'
<1>0. SidecarTypeOK /\ FlushesAreOfFiles /\ Typed /\ 0 \in Inode
  <2>1. 0 \in Inode
    BY SidecarAssumption, FS_CardinalityType DEF Inode
  <2>. QED
    BY <2>1 DEF SidecarInv, SidecarTypeOK, Typed, Flushing, Files
<1>1. ASSUME NEW t \in Thread, FlushStep(t) \/ CallStep(t)
      PROVE  \A u \in Thread \ {t} : flush'[u] = flush[u]
  BY <1>0, <1>1 DEF FlushStep, OpenTmp, WriteTmp, Replace, FlushFails, CallStep, StartHeartbeat,
     StartTranscript, Beat, Unregister, EndTranscript, Flushes, Typed
<1>2. ASSUME NEW t \in Thread, CallStep(t)
      PROVE  Typed' /\ FlushesAreOfFiles'
  <2>1. PICK f \in File : Flushes(t, f)
    BY <1>2 DEF CallStep, StartHeartbeat, StartTranscript, Beat, Unregister,
                EndTranscript, File
  <2>2. flush' \in [Thread -> Flushing] /\ flush'[t].file = f
    BY <1>0, <2>1, BegunFlush
  <2>3. FlushesAreOfFiles'
    BY <1>0, <1>1, <1>2, <2>2 DEF FlushesAreOfFiles
  <2>4. /\ at' \in [Thread -> {"out", "registered", "in", "unregistered"}]
        /\ acts' \subseteq Thread
        /\ UNCHANGED <<alive, disk, lost, stateYaml, viewVars>>
    BY <1>0, <1>2 DEF CallStep, StartHeartbeat, StartTranscript, Beat, Unregister,
                      EndTranscript, Typed
  <2>. QED
    BY <1>0, <2>2, <2>3, <2>4 DEF Typed, viewVars
<1>3. ASSUME NEW t \in Thread, FlushStep(t)
      PROVE  Typed' /\ FlushesAreOfFiles'
  <2>1. PICK f, i, S :
          f \in File /\ flush[t].file = f /\ flush[t].fd = i /\ flush[t].on = S
    BY <1>0, <1>3 DEF FlushStep, OpenTmp, WriteTmp, Replace, FlushFails, InFlush, FlushesAreOfFiles
  <2>2. UNCHANGED <<alive, at, acts, stateYaml, stream, shown>>
    BY <1>3 DEF FlushStep, OpenTmp, WriteTmp, Replace, FlushFails
  <2>3. /\ disk' \in Files /\ flush' \in [Thread -> Flushing] /\ saw' \in BOOLEAN
        /\ flush'[t].file = f \/ flush'[t] = NoFlush
        /\ lost' \subseteq File
    <3>1. CASE OpenTmp(t)
      BY <1>0, <2>1, <3>1, OpenedFlush DEF Typed
    <3>2. CASE WriteTmp(t)
      BY <1>0, <2>1, <3>2, WrittenFlush DEF Typed
    <3>3. CASE Replace(t)
      BY <1>0, <2>1, <3>3, ReplacedFlush DEF Typed
    <3>4. CASE FlushFails(t)
      BY <1>0, <2>1, <3>4, FailedFlush DEF Typed
    <3>. QED
      BY <1>3, <3>1, <3>2, <3>3, <3>4 DEF FlushStep
  <2>4. FlushesAreOfFiles'
    BY <1>0, <1>1, <1>3, <2>1, <2>3 DEF FlushesAreOfFiles, NoFlush
  <2>. QED
    BY <1>0, <2>2, <2>3, <2>4 DEF Typed
<1>4. CASE SaveState \/ Die
  BY <1>0, <1>4 DEF SaveState, Die, viewVars, Typed, FlushesAreOfFiles
<1>5. CASE StreamStep \/ Disconnect
  <2>1. Typed'
    <3>1. CASE Poll
      BY <1>0, <3>1 DEF Poll, runVars, Typed
    <3>2. CASE ReadHeartbeat
      BY <1>0, <3>2 DEF ReadHeartbeat, HeartbeatActive, Readable, runVars, Typed
    <3>3. CASE Push
      BY <1>0, <3>3 DEF Push, LoadView, View, runVars, Typed
    <3>4. CASE Disconnect
      BY <1>0, <3>4 DEF Disconnect, runVars, Typed
    <3>. QED
      BY <1>5, <3>1, <3>2, <3>3, <3>4 DEF StreamStep
  <2>2. flush' = flush
    BY <1>5 DEF StreamStep, Poll, ReadHeartbeat, Push, Disconnect, runVars
  <2>. QED
    BY <1>0, <2>1, <2>2 DEF FlushesAreOfFiles
<1>6. CASE UNCHANGED sidecarVars
  BY <1>0, <1>6 DEF sidecarVars, runVars, viewVars, Typed, FlushesAreOfFiles
<1>. QED
  BY <1>2, <1>3, <1>4, <1>5, <1>6 DEF SidecarNext

\* Every step of the run and of its viewer keeps the invariant.
LEMMA SidecarStepKeepsInv ==
  ASSUME SidecarInv, [SidecarNext]_sidecarVars
  PROVE  SidecarInv'
<1>1. Typed' /\ FlushesAreOfFiles'
  BY SidecarTypesStay
<1>2. CallsKept'
  BY CallsStayKept DEF SidecarInv
<1>3. (CallsKept => Len(calls) <= RunCap + Cardinality(Thread))'
  BY CapHolds, PTL
<1>. QED
  BY <1>1, <1>2, <1>3 DEF SidecarInv, SidecarTypeOK, Typed, CallsKept, Flushing, Files

\* A run starts without sidecars.
LEMMA SidecarStartsInInv ==
  ASSUME SidecarInit
  PROVE  SidecarInv
<1>1. 0 \in Inode
  BY SidecarAssumption, FS_CardinalityType DEF Inode
<1>2. Typed /\ FlushesAreOfFiles
  BY <1>1 DEF SidecarInit, Typed, FlushesAreOfFiles, Files, Flushing, NoFlush, File,
              Blank, Data, View
<1>3. CallsKept
  <2>1. Cardinality({}) = 0 /\ RunCap \in Nat
    BY FS_EmptySet, SidecarAssumption
  <2>2. calls = <<>> /\ Ended(calls) = {}
    BY DEF SidecarInit, Ended
  <2>3. Cardinality(Ended(calls)) = 0
    BY <2>1, <2>2, Zenon
  <2>4. Cardinality(Ended(calls)) <= RunCap
    BY <2>1, <2>3
  <2>. QED
    BY <2>2, <2>4 DEF CallsKept
<1>4. Len(calls) <= RunCap + Cardinality(Thread)
  BY <1>3, CapHolds
<1>. QED
  BY <1>2, <1>3, <1>4 DEF SidecarInv, SidecarTypeOK, Typed, CallsKept, Flushing, Files

-----------------------------------------------------------------------------
(* The sidecars: one thread *)

\* A flush does to a file what one writer does, and nothing to the other file.
LEMMA FlushWritesAlone ==
  ASSUME SidecarInv, OneThreadInv, NEW t, t = Director, FlushStep(t)
  PROVE  \A g \in File : WritesAlone(t, g)'
<1>0. /\ SidecarTypeOK /\ FlushesAreOfFiles /\ t \in Thread /\ 0 \in Inode
      /\ \A g \in File : WritesAlone(t, g)
      /\ disk \in Files /\ flush \in [Thread -> Flushing]
  <2>1. 0 \in Inode
    BY SidecarAssumption, FS_CardinalityType DEF Inode
  <2>. QED
    BY <2>1, SidecarAssumption DEF SidecarInv, SidecarTypeOK, Flushing, Files, OneThreadInv
<1>1. PICK f, i, S : f \in File /\ flush[t].file = f /\ flush[t].fd = i /\ flush[t].on = S
  BY <1>0 DEF FlushStep, OpenTmp, WriteTmp, Replace, FlushFails, InFlush, FlushesAreOfFiles
<1>2. UNCHANGED <<acts, calls>>
  BY DEF FlushStep, OpenTmp, WriteTmp, Replace, FlushFails
<1>3. \A g : Payload(g)' = Payload(g)
  BY <1>2 DEF Payload
<1>4. ASSUME NEW g \in File, g # f, disk'[g] = disk[g], flush'[t].file \in {f, "none"},
             g \in lost => g \in lost'
      PROVE  WritesAlone(t, g)'
  BY <1>0, <1>1, <1>3, <1>4 DEF WritesAlone, File
<1>5. CASE OpenTmp(t)
  <2>. DEFINE j == IF disk[f].tmp # 0 THEN disk[f].tmp ELSE UnusedInode(f)
  <2>1. flush[t].step = "open" /\ disk[f].data[0] = Blank
    BY <1>0, <1>1, <1>5 DEF OpenTmp, InFlush, WritesAlone
  <2>2. /\ j \in Inode \ {0}
        /\ disk'[f].cur = disk[f].cur /\ disk'[f].tmp = j
        /\ disk'[f].data = [disk[f].data EXCEPT ![j] = Blank]
        /\ \A g \in File \ {f} : disk'[g] = disk[g]
        /\ flush'[t].file = f /\ flush'[t].step = "write"
        /\ flush'[t].fd = j /\ flush'[t].on = Payload(f)
        /\ lost' = lost
    BY <1>0, <1>1, <1>5, OpenedFlush
  <2>3. j # disk[f].cur
    <3>1. CASE disk[f].tmp = 0
      BY <1>0, <1>1, <3>1, OneIsUnused
    <3>2. CASE disk[f].tmp # 0
      BY <1>0, <1>1, <3>2 DEF WritesAlone
    <3>. QED
      BY <3>1, <3>2
  <2>. HIDE DEF j
  <2>4. WritesAlone(t, f)'
    BY <1>0, <1>1, <1>3, <2>1, <2>2, <2>3 DEF WritesAlone, Files
  <2>. QED
    BY <1>4, <2>2, <2>4
<1>6. CASE WriteTmp(t)
  <2>1. /\ flush[t].step = "write" /\ disk[f].tmp # 0
        /\ i = disk[f].tmp /\ disk[f].data[i] = Blank /\ S = Payload(f)
    BY <1>0, <1>1, <1>6 DEF WriteTmp, InFlush, WritesAlone
  <2>2. PICK d \in Data :
           /\ disk'[f].cur = disk[f].cur /\ disk'[f].tmp = disk[f].tmp
           /\ disk'[f].data = [disk[f].data EXCEPT ![i] = d]
           /\ d = [form |-> "whole", on |-> S] \/ disk[f].data[i].form # "empty"
           /\ \A g \in File \ {f} : disk'[g] = disk[g]
           /\ flush'[t].file = f /\ flush'[t].step = "replace"
           /\ lost' = lost
    <3>1. flush[t].file \in File
      BY <1>1
    <3>2. \E d \in Data :
            /\ disk'[f].data = [disk[f].data EXCEPT ![i] = d]
            /\ d = [form |-> "whole", on |-> S] \/ disk[f].data[i].form # "empty"
      BY <1>0, <1>1, <1>6, <3>1, WrittenFlush
    <3>3. /\ disk'[f].cur = disk[f].cur /\ disk'[f].tmp = disk[f].tmp
          /\ \A g \in File \ {f} : disk'[g] = disk[g]
          /\ flush'[t].file = f /\ flush'[t].step = "replace"
          /\ lost' = lost
      BY <1>0, <1>1, <1>6, <3>1, WrittenFlush
    <3>. QED
      BY <3>2, <3>3
  <2>3. d = [form |-> "whole", on |-> Payload(f)]
    BY <2>1, <2>2 DEF Blank
  <2>4. WritesAlone(t, f)'
    BY <1>0, <1>1, <1>3, <2>1, <2>2, <2>3 DEF WritesAlone, Files
  <2>. QED
    BY <1>4, <2>2, <2>4
<1>7. CASE Replace(t)
  <2>1. /\ flush[t].step = "replace" /\ disk[f].tmp # 0
        /\ disk[f].data[disk[f].tmp] = [form |-> "whole", on |-> Payload(f)]
        /\ disk[f].cur # 0 => disk[f].tmp # disk[f].cur
        /\ disk[f].data[0] = Blank
    BY <1>0, <1>1, <1>7 DEF Replace, InFlush, WritesAlone
  <2>2. /\ flush'[t] = NoFlush
        /\ disk'[f].cur = disk[f].tmp /\ disk'[f].tmp = 0
        /\ disk'[f].data = [disk[f].data EXCEPT ![disk[f].cur] = Blank]
        /\ \A g \in File \ {f} : disk'[g] = disk[g]
        /\ lost' = lost \ {f}
    BY <1>0, <1>1, <1>7, <2>1, ReplacedFlush
  <2>3. WritesAlone(t, f)'
    BY <1>0, <1>1, <1>3, <2>1, <2>2 DEF WritesAlone, Files, NoFlush, File
  <2>. QED
    BY <1>4, <2>2, <2>3 DEF NoFlush
<1>8. CASE FlushFails(t)
  <2>1. /\ flush'[t] = NoFlush /\ lost' = lost \cup {f}
        /\ \A g \in File \ {f} : disk'[g] = disk[g]
    BY <1>0, <1>1, <1>8, FailedFlush
  <2>2. /\ disk'[f].cur = disk[f].cur /\ disk'[f].tmp = disk[f].tmp
        /\ \A j \in Inode : j # disk[f].tmp \/ j = 0 => disk'[f].data[j] = disk[f].data[j]
    <3>1. CASE disk' = disk
      BY <3>1
    <3>2. CASE /\ flush[t].step = "write"
               /\ disk'[f].cur = disk[f].cur /\ disk'[f].tmp = disk[f].tmp
               /\ \A j \in Inode \ {i} : disk'[f].data[j] = disk[f].data[j]
      <4>1. i = disk[f].tmp /\ i # 0
        BY <1>0, <1>1, <3>2 DEF WritesAlone
      <4>. QED
        BY <3>2, <4>1
    <3>. QED
      BY <1>0, <1>1, <1>8, <3>1, <3>2, FailedFlush
  <2>3. disk[f].cur \in Inode /\ WritesAlone(t, f)
    BY <1>0, <1>1 DEF Files
  <2>4. WritesAlone(t, f)'
    BY <1>0, <1>1, <1>3, <2>1, <2>2, <2>3 DEF WritesAlone, NoFlush, File
  <2>. QED
    BY <1>4, <2>1, <2>4 DEF NoFlush
<1>. QED
  BY <1>5, <1>6, <1>7, <1>8 DEF FlushStep

\* A call's own steps only begin a flush, of the file whose payload they change.
LEMMA CallWritesNothing ==
  ASSUME SidecarInv, OneThreadInv, NEW t, t = Director, Thread = {Director}, CallStep(t)
  PROVE  OneThreadInv'
<1>0. /\ SidecarTypeOK /\ t \in Thread /\ Thread = {t} /\ 0 \in Inode /\ acts \subseteq {t}
      /\ \A g \in File : WritesAlone(t, g)
      /\ flush[t].step = "none" /\ flush[t].file = "none"
  <2>1. 0 \in Inode
    BY SidecarAssumption, FS_CardinalityType DEF Inode
  <2>2. flush[t].step = "none"
    BY DEF CallStep, StartHeartbeat, StartTranscript, Beat, Unregister, EndTranscript, Free
  <2>. QED
    BY <2>1, <2>2 DEF SidecarInv, SidecarTypeOK, OneThreadInv
<1>1. PICK f \in File :
        /\ Flushes(t, f) /\ disk' = disk /\ lost' = lost
        /\ \A g \in File : g = f \/ Payload(g)' = Payload(g) \/ Payload(g)' # {}
  <2>1. CASE StartHeartbeat(t)
    <3>1. Payload("heartbeat")' # {} /\ Flushes(t, "heartbeat") /\ disk' = disk /\ lost' = lost /\ calls' = calls
      BY <2>1 DEF StartHeartbeat, Payload
    <3>. QED
      BY <3>1 DEF Payload, File
  <2>2. CASE StartTranscript(t) \/ EndTranscript(t)
    <3>1. Flushes(t, "transcripts") /\ disk' = disk /\ lost' = lost /\ acts' = acts
      BY <2>2 DEF StartTranscript, EndTranscript
    <3>. QED
      BY <3>1 DEF Payload, File
  <2>3. CASE Unregister(t)
    <3>1. Flushes(t, "heartbeat") /\ disk' = disk /\ lost' = lost /\ calls' = calls
      BY <2>3 DEF Unregister
    <3>. QED
      BY <3>1 DEF Payload, File
  <2>4. CASE Beat(t)
    BY <2>4 DEF Beat, Payload
  <2>. QED
    BY <2>1, <2>2, <2>3, <2>4 DEF CallStep
<1>2. flush'[t].file = f /\ flush'[t].step = "open"
  BY <1>0, <1>1, BegunFlush
<1>3. \A g \in File : WritesAlone(t, g)'
  <2>1. SUFFICES ASSUME NEW g \in File
                 PROVE  WritesAlone(t, g)'
    OBVIOUS
  <2>2. /\ disk[g].data[0] = Blank
        /\ disk[g].cur # 0 => /\ disk[g].data[disk[g].cur].form = "whole"
                              /\ disk[g].tmp # disk[g].cur
        /\ Payload(g) = {} => g \in lost \/ disk[g].data[disk[g].cur].on = {}
    BY <1>0 DEF WritesAlone, File
  <2>. QED
    BY <1>1, <1>2, <2>2 DEF WritesAlone
<1>4. at'[t] \in {"out", "unregistered"} => acts' = {}
  <2>1. CASE StartHeartbeat(t) \/ StartTranscript(t) \/ Beat(t)
    BY <1>0, <2>1 DEF StartHeartbeat, StartTranscript, Beat, SidecarTypeOK
  <2>2. CASE Unregister(t)
    BY <1>0, <2>2 DEF Unregister
  <2>3. CASE EndTranscript(t)
    BY <2>3 DEF EndTranscript, OneThreadInv
  <2>. QED
    BY <2>1, <2>2, <2>3 DEF CallStep
<1>. QED
  BY <1>2, <1>3, <1>4 DEF OneThreadInv, WritesAlone, File

\* One thread, whatever the stream does meanwhile and wherever the process dies.
LEMMA OneThreadStep ==
  ASSUME SidecarInv, OneThreadInv, Thread = {Director}, [SidecarNext]_sidecarVars
  PROVE  OneThreadInv'
<1>1. CASE CallStep(Director)
  BY <1>1, CallWritesNothing
<1>2. CASE FlushStep(Director)
  <2>1. \A g \in File : WritesAlone(Director, g)'
    BY <1>2, FlushWritesAlone
  <2>2. SidecarInv'
    BY SidecarStepKeepsInv
  <2>3. \/ flush'[Director].file = flush[Director].file /\ flush[Director].file \in File
           /\ flush'[Director].step # "none"
        \/ flush'[Director] = NoFlush
    <3>1. flush[Director].file \in File /\ Director \in Thread /\ SidecarTypeOK /\ 0 \in Inode
      <4>1. 0 \in Inode /\ Director \in Thread
        BY SidecarAssumption, FS_CardinalityType DEF Inode
      <4>. QED
        BY <1>2, <4>1 DEF FlushStep, OpenTmp, WriteTmp, Replace, FlushFails, InFlush, SidecarInv,
                         FlushesAreOfFiles
    <3>. QED
      BY <1>2, <3>1, OpenedFlush, WrittenFlush, ReplacedFlush, FailedFlush DEF FlushStep
  <2>4. UNCHANGED <<at, acts>>
    BY <1>2 DEF FlushStep, OpenTmp, WriteTmp, Replace, FlushFails
  <2>. QED
    BY <2>1, <2>3, <2>4 DEF OneThreadInv, NoFlush, File
<1>3. CASE UNCHANGED <<at, acts, calls, flush, disk, lost>>
  <2>1. \A g : Payload(g)' = Payload(g)
    BY <1>3 DEF Payload
  <2>. QED
    BY <1>3, <2>1 DEF OneThreadInv, WritesAlone
<1>4. SaveState \/ Die \/ StreamStep \/ Disconnect \/ UNCHANGED sidecarVars
        => UNCHANGED <<at, acts, calls, flush, disk, lost>>
  BY DEF SaveState, Die, StreamStep, Poll, ReadHeartbeat, Push, Disconnect, sidecarVars,
         runVars
<1>. QED
  BY <1>1, <1>2, <1>3, <1>4 DEF SidecarNext

\* The thread that writes alone has written nothing yet.
LEMMA OneThreadStarts ==
  ASSUME SidecarInit
  PROVE  OneThreadInv
<1>1. Director \in Thread /\ 0 \in Inode
  BY SidecarAssumption, FS_CardinalityType DEF Inode
<1>2. \A f \in File : /\ disk[f].cur = 0 /\ disk[f].tmp = 0 /\ disk[f].data[0] = Blank
  BY <1>1 DEF SidecarInit
<1>3. flush[Director] = NoFlush /\ acts = {}
  BY <1>1 DEF SidecarInit
<1>. QED
  BY <1>2, <1>3 DEF OneThreadInv, WritesAlone, NoFlush, Blank

\* A step of the dashboard is one of the sidecars' or leaves them alone.
LEMMA DashboardStepIsSidecarStep ==
  ASSUME [Next]_vars
  PROVE  [SidecarNext]_sidecarVars
BY DEF Next, vars

\* The invariant holds in every state of every behaviour.
LEMMA SidecarInvAlways == Spec => []SidecarInv
<1>1. Init => SidecarInv
  BY SidecarStartsInInv DEF Init
<1>2. SidecarInv /\ [Next]_vars => SidecarInv'
  BY DashboardStepIsSidecarStep, SidecarStepKeepsInv
<1>. QED
  BY <1>1, <1>2, PTL DEF Spec

\* So does that of one thread.
LEMMA OneThreadInvAlways ==
  ASSUME Thread = {Director}
  PROVE  Spec => []OneThreadInv
<1>1. Init => OneThreadInv
  BY OneThreadStarts DEF Init
<1>2. SidecarInv /\ OneThreadInv /\ [Next]_vars => OneThreadInv'
  BY DashboardStepIsSidecarStep, OneThreadStep
<1>. QED
  BY <1>1, <1>2, SidecarInvAlways, PTL DEF Spec

-----------------------------------------------------------------------------
(* The sidecars: the theorems *)

(***************************************************************************)
(* Whatever flushes overlap, the names refer to inodes there are, and the  *)
(* transcripts kept are no more than the cap and one per thread            *)
(* (transcript.py:_evict_locked).                                          *)
(***************************************************************************)
THEOREM SidecarTypesHold == Spec => []SidecarTypeOK
<1>1. SidecarInv => SidecarTypeOK
  BY DEF SidecarInv
<1>. QED
  BY <1>1, SidecarInvAlways, PTL

(***************************************************************************)
(* If one thread calls models, the dashboard never reads a part of a       *)
(* sidecar, at whatever point of whichever flush the process ends          *)
(* (heartbeat.py and transcript.py: _default_write).                       *)
(***************************************************************************)
THEOREM OneThreadIsReadWhole ==
  ASSUME Thread = {Director}
  PROVE  Spec => []NeverReadInPart
<1>1. OneThreadInv => NeverReadInPart
  BY DEF OneThreadInv, WritesAlone, NeverReadInPart, Readable
<1>. QED
  BY <1>1, OneThreadInvAlways, PTL

(***************************************************************************)
(* If one thread calls models, a sidecar shows no call between two calls,  *)
(* unless its last flush failed: the flush of finish has the last word     *)
(* (heartbeat.py:finish, transcript.py:finish).                            *)
(***************************************************************************)
THEOREM OneThreadIdlesUnseen ==
  ASSUME Thread = {Director}
  PROVE  Spec => []IdleShowsNoCall
<1>1. SidecarInv /\ OneThreadInv => IdleShowsNoCall
  <2>1. SUFFICES ASSUME SidecarInv, OneThreadInv, at[Director] = "out",
                        flush[Director].step = "none", NEW f \in File \ lost
                 PROVE  disk[f].data[disk[f].cur].on = {}
    BY SidecarAssumption DEF IdleShowsNoCall
  <2>2. acts = {} /\ flush[Director].file = "none" /\ WritesAlone(Director, f)
    BY <2>1 DEF OneThreadInv
  <2>3. ToSet(calls) \subseteq {"ended"}
    BY <2>1 DEF SidecarInv, CallsKept, ToSet
  <2>4. Payload(f) = {}
    BY <2>2, <2>3 DEF Payload
  <2>. QED
    BY <2>2, <2>4 DEF WritesAlone, File
<1>. QED
  BY <1>1, SidecarInvAlways, OneThreadInvAlways, PTL
=============================================================================
