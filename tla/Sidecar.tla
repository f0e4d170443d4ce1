------------------------------- MODULE Sidecar -------------------------------
(***************************************************************************)
(* The telemetry a run leaves beside its state.yaml, and the viewer that   *)
(* follows it: HeartbeatWriter (heartbeat.py) and TranscriptWriter         *)
(* (transcript.py) as observe_call (providers/codex.py) uses them around   *)
(* every model call, _save_state (loop.py), and the server-sent-event      *)
(* stream with load_view of dashboard.py.                                  *)
(*                                                                         *)
(* Every thread of the run that calls a model registers the call in both   *)
(* writers, reports events, and unregisters it.  The tables are locked;    *)
(* a flush computes its payload under the lock and writes it without one,  *)
(* to a temporary file all threads share, which it then renames.           *)
(*                                                                         *)
(* Abstractions: a payload is the set of threads it shows in a call; time  *)
(* is left out, so whether a beat is throttled is a choice; a modification *)
(* time always differs after a write.                                      *)
(***************************************************************************)
EXTENDS Naturals, FiniteSets, Sequences, SequencesExt

CONSTANTS
  Thread,    \* threads of the run that call models
  Director,  \* the one that synthesises, before there is a state.yaml
  RunCap,    \* _RUN_CAP: calls transcripts.json keeps
  MaxLost    \* bound: sidecars a failed flush left behind, at a time

ASSUME SidecarAssumption ==
  /\ IsFiniteSet(Thread) /\ "ended" \notin Thread
  /\ Director \in Thread
  /\ RunCap \in Nat \ {0} /\ MaxLost \in Nat

File  == {"heartbeat", "transcripts"}
Inode == 0 .. Cardinality(Thread) + 2        \* 0: no such file
Data  == [form : {"empty", "whole", "garbled"}, on : SUBSET Thread]
Blank == [form |-> "empty", on |-> {}]
View  == {"nothing", "error", "synthesizing", "pre_synth_failed", "state"}

VARIABLES
  alive,     \* the process of the run is alive
  at,        \* per thread: where observe_call is
  acts,      \* _acts: calls the heartbeat shows
  calls,     \* _calls: the transcripts kept, oldest first: whose call it is,
             \* or "ended"
  flush,     \* per thread: the flush it is in
  disk,      \* per sidecar: the file, its temporary file, their inodes
  lost,      \* history: the sidecars whose last flush failed
  stateYaml, \* state.yaml
  saw,       \* the stream: the signature it saw is that of the files now
  stream,    \* the stream: where it is, and what it has read
  shown      \* what it last sent

runVars  == <<alive, at, acts, calls, flush, disk, lost, stateYaml>>
viewVars == <<saw, stream, shown>>
sidecarVars == <<runVars, viewVars>>

NoFlush == [file |-> "none", step |-> "none", on |-> {}, fd |-> 0]

SidecarTypeOK ==
  /\ alive \in BOOLEAN
  /\ at \in [Thread -> {"out", "registered", "in", "unregistered"}]
  /\ acts \subseteq Thread
  /\ calls \in Seq(Thread \cup {"ended"})
  /\ Len(calls) <= RunCap + Cardinality(Thread)
  /\ flush \in [Thread ->
       [file : File \cup {"none"}, step : {"none", "open", "write", "replace"},
        on : SUBSET Thread, fd : Inode]]
  /\ disk \in [File -> [cur : Inode, tmp : Inode, data : [Inode -> Data]]]
  /\ lost \subseteq File
  /\ stateYaml \in {"absent", "empty", "whole"}
  /\ saw \in BOOLEAN
  /\ stream \in [pc : {"poll", "heartbeat", "state", "gone"}, active : BOOLEAN]
  /\ shown \in View

SidecarInit ==
  /\ alive = TRUE
  /\ at = [t \in Thread |-> "out"]
  /\ acts = {}
  /\ calls = <<>>
  /\ flush = [t \in Thread |-> NoFlush]
  /\ disk = [f \in File |->
              [cur |-> 0, tmp |-> 0, data |-> [i \in Inode |-> Blank]]]
  /\ lost = {}
  /\ stateYaml = "absent"
  /\ saw = FALSE
  /\ stream \in [pc : {"poll", "gone"}, active : {FALSE}]
  /\ shown = "nothing"

-----------------------------------------------------------------------------
(* observe_call *)

Free(t) == alive /\ flush[t].step = "none"

\* _flush of a sidecar begins, past its throttle.
Flushes(t, f) ==
  flush' = [flush EXCEPT ![t] = [NoFlush EXCEPT !.file = f, !.step = "open"]]

\* heartbeat.start.  Only synthesis calls a model before there is a state.
StartHeartbeat(t) ==
  /\ Free(t) /\ at[t] = "out"
  /\ t # Director => stateYaml # "absent"
  /\ t = Director => stateYaml # "empty"      \* it is not in _save_state
  /\ acts' = acts \cup {t}
  /\ at' = [at EXCEPT ![t] = "registered"]
  /\ Flushes(t, "heartbeat")
  /\ UNCHANGED <<alive, calls, disk, lost, stateYaml, viewVars>>

\* transcript.start
StartTranscript(t) ==
  /\ Free(t) /\ at[t] = "registered"
  /\ calls' = Append(calls, t)
  /\ at' = [at EXCEPT ![t] = "in"]
  /\ Flushes(t, "transcripts")
  /\ UNCHANGED <<alive, acts, disk, lost, stateYaml, viewVars>>

\* heartbeat.beat or transcript.output: an event of the call, not throttled.
Beat(t) ==
  /\ Free(t) /\ at[t] = "in"
  /\ \E f \in File : Flushes(t, f)
  /\ UNCHANGED <<alive, at, acts, calls, disk, lost, stateYaml, viewVars>>

\* Slip: the last flush is subject to the throttle.
UnregisterThrottled(t) ==
  /\ Free(t) /\ at[t] = "in"
  /\ acts' = acts \ {t}
  /\ at' = [at EXCEPT ![t] = "unregistered"]
  /\ Flushes(t, "heartbeat") \/ UNCHANGED flush
  /\ UNCHANGED <<alive, calls, disk, lost, stateYaml, viewVars>>

\* heartbeat.finish
Unregister(t) ==
  /\ Free(t) /\ at[t] = "in"
  /\ acts' = acts \ {t}
  /\ at' = [at EXCEPT ![t] = "unregistered"]
  /\ Flushes(t, "heartbeat")
  /\ UNCHANGED <<alive, calls, disk, lost, stateYaml, viewVars>>

\* What s has at the places not in drop, in order.
Without(s, drop) ==
  LET keep == (DOMAIN s) \ drop
      place(k) == CHOOSE i \in keep : Cardinality({j \in keep : j <= i}) = k
  IN  [k \in 1 .. Cardinality(keep) |-> s[place(k)]]

\* Slip: the cap is left to the reader.
NoEviction(s) == s

\* _evict_locked: what exceeds the cap, the oldest ended calls first.
Evict(s) ==
  Without(s, {i \in DOMAIN s :
    /\ s[i] = "ended"
    /\ Cardinality({j \in 1 .. i : s[j] = "ended"}) + RunCap <= Len(s)})

\* transcript.finish
EndTranscript(t) ==
  /\ Free(t) /\ at[t] = "unregistered"
  /\ calls' = Evict([i \in DOMAIN calls |->
                IF calls[i] = t THEN "ended" ELSE calls[i]])
  /\ at' = [at EXCEPT ![t] = "out"]
  /\ Flushes(t, "transcripts")
  /\ UNCHANGED <<alive, acts, disk, lost, stateYaml, viewVars>>

-----------------------------------------------------------------------------
(* _flush and _default_write: one action per file operation *)

InFlush(t, step) == alive /\ flush[t].step = step

Payload(f) ==
  IF f = "heartbeat" THEN acts
  ELSE ToSet(calls) \ {"ended"}

UnusedInode(f) ==
  CHOOSE i \in Inode \ {0, disk[f].cur, disk[f].tmp} :
    \A t \in Thread : flush[t].file = f => flush[t].fd # i

\* Slip: no temporary file.
OpenInPlace(t) ==
  /\ InFlush(t, "open")
  /\ LET f == flush[t].file
         i == IF disk[f].cur # 0 THEN disk[f].cur ELSE UnusedInode(f)
     IN  /\ disk' = [disk EXCEPT ![f].cur = i, ![f].data[i] = Blank]
         /\ flush' = [flush EXCEPT ![t].step = "write", ![t].fd = i,
                            ![t].on = Payload(f)]
         /\ saw' = FALSE
  /\ UNCHANGED <<alive, at, acts, calls, lost, stateYaml, stream, shown>>

\* The payload, computed under the lock after the flush was decided, and
\* open(tmp, "w"), which truncates what another thread may be writing.
OpenTmp(t) ==
  /\ InFlush(t, "open")
  /\ LET f == flush[t].file
         i == IF disk[f].tmp # 0 THEN disk[f].tmp ELSE UnusedInode(f)
     IN  /\ disk' = [disk EXCEPT ![f].tmp = i, ![f].data[i] = Blank]
         /\ flush' = [flush EXCEPT ![t].step = "write", ![t].fd = i,
                            ![t].on = Payload(f)]
         /\ saw' = (saw /\ i # disk[f].cur)
  /\ UNCHANGED <<alive, at, acts, calls, lost, stateYaml, stream, shown>>

\* write: at offset 0 of the inode it opened, whatever its name is by now.
\* What another thread wrote there is overwritten, its tail perhaps not.
WriteTmp(t) ==
  /\ InFlush(t, "write")
  /\ LET f == flush[t].file
         i == flush[t].fd
         mine == [form |-> "whole", on |-> flush[t].on]
     IN  /\ \E d \in {mine} \cup
                     IF disk[f].data[i].form = "empty" THEN {}
                     ELSE {[Blank EXCEPT !.form = "garbled"]} :
              disk' = [disk EXCEPT ![f].data[i] = d]
         /\ saw' = (saw /\ i # disk[f].cur)
  /\ flush' = [flush EXCEPT ![t].step = "replace", ![t].fd = 0]
  /\ UNCHANGED <<alive, at, acts, calls, lost, stateYaml, stream, shown>>

\* os.replace
Replace(t) ==
  /\ InFlush(t, "replace")
  /\ LET f == flush[t].file
     IN  /\ disk[f].tmp # 0
         /\ disk' = [disk EXCEPT ![f].cur = disk[f].tmp, ![f].tmp = 0,
                       ![f].data[disk[f].cur] = Blank]
         /\ lost' = lost \ {f}
  /\ saw' = FALSE
  /\ flush' = [flush EXCEPT ![t] = NoFlush]
  /\ UNCHANGED <<alive, at, acts, calls, stateYaml, stream, shown>>

(***************************************************************************)
(* Any of the three fails, as os.replace must if another thread was first, *)
(* and _flush swallows it: the file stays as it was. A write that fails    *)
(* leaves a part of the payload in what it opened.                         *)
(***************************************************************************)
FlushFails(t) ==
  /\ alive /\ flush[t].step # "none"
  /\ Cardinality(lost \cup {flush[t].file}) <= MaxLost
  /\ LET f == flush[t].file
         i == flush[t].fd
     IN  /\ lost' = lost \cup {f}
         /\ IF flush[t].step = "write"
            THEN /\ disk' = [disk EXCEPT ![f].data[i] = [Blank EXCEPT !.form = "garbled"]]
                 /\ saw' = (saw /\ i # disk[f].cur)
            ELSE UNCHANGED <<disk, saw>>
  /\ flush' = [flush EXCEPT ![t] = NoFlush]
  /\ UNCHANGED <<alive, at, acts, calls, stateYaml, stream, shown>>

\* _save_state writes state.yaml in place: it is empty for a moment.
SaveState ==
  /\ alive
  /\ at[Director] = "out" /\ flush[Director].step = "none"
  /\ stateYaml' = IF stateYaml = "empty" THEN "whole" ELSE "empty"
  /\ saw' = FALSE
  /\ UNCHANGED <<alive, at, acts, calls, flush, disk, lost, stream, shown>>

\* The process ends between two steps of its threads.
Die ==
  /\ alive
  /\ alive' = FALSE
  /\ UNCHANGED <<at, acts, calls, flush, disk, lost, stateYaml, viewVars>>

-----------------------------------------------------------------------------
(* The dashboard: _stream and load_view *)

Readable(f) == disk[f].cur # 0 /\ disk[f].data[disk[f].cur].form = "whole"

\* load_heartbeat and _heartbeat_active
HeartbeatActive ==
  Readable("heartbeat") /\ disk["heartbeat"].data[disk["heartbeat"].cur].on # {}

\* load_view, for a run that has its meta.json
LoadView(active) ==
  CASE stateYaml = "whole" -> "state"
    [] stateYaml = "empty" -> "error"
    [] stateYaml = "absent" /\ active -> "synthesizing"
    [] OTHER -> "pre_synth_failed"

\* Slip: only the modification time of state.yaml is followed; the others
\* are looked at when it changed.
PollState ==
  /\ stream.pc = "poll" /\ ~saw /\ stateYaml # "absent"
  /\ stream' = [stream EXCEPT !.pc = "heartbeat"]
  /\ saw' = TRUE
  /\ UNCHANGED <<runVars, shown>>

\* The three modification times are read, one after the other, before the
\* view: what changes after that differs from them the next time.
Poll ==
  /\ stream.pc = "poll" /\ ~saw
  /\ stream' = [stream EXCEPT !.pc = "heartbeat"]
  /\ saw' = TRUE
  /\ UNCHANGED <<runVars, shown>>

ReadHeartbeat ==
  /\ stream.pc = "heartbeat"
  /\ stream' = [pc |-> "state", active |-> HeartbeatActive]
  /\ UNCHANGED <<runVars, saw, shown>>

Push ==
  /\ stream.pc = "state"
  /\ shown' = LoadView(stream.active)
  /\ stream' = [pc |-> "poll", active |-> FALSE]
  /\ UNCHANGED <<runVars, saw>>

\* The browser goes away: a write fails and the handler returns.
Disconnect ==
  /\ stream.pc # "gone"
  /\ stream' = [pc |-> "gone", active |-> FALSE]
  /\ UNCHANGED <<runVars, saw, shown>>

FlushStep(t) == OpenTmp(t) \/ WriteTmp(t) \/ Replace(t) \/ FlushFails(t)
CallStep(t)  == \/ StartHeartbeat(t) \/ StartTranscript(t) \/ Beat(t)
                \/ Unregister(t) \/ EndTranscript(t)
StreamStep   == Poll \/ ReadHeartbeat \/ Push

SidecarNext ==
  \/ \E t \in Thread : FlushStep(t) \/ CallStep(t)
  \/ SaveState \/ Die
  \/ StreamStep \/ Disconnect

SidecarSpec == SidecarInit /\ [][SidecarNext]_sidecarVars

-----------------------------------------------------------------------------
(***************************************************************************)
(* A sidecar is written atomically, so that the dashboard never reads a    *)
(* part of it (heartbeat.py:151, transcript.py:202).  One thread keeps     *)
(* this; several share one temporary file and one can truncate or rename   *)
(* what another is writing.                                                *)
(***************************************************************************)
NeverReadInPart == \A f \in File : disk[f].cur # 0 => Readable(f)

(***************************************************************************)
(* When no call and no flush is under way in a living process, a sidecar   *)
(* whose last flush did not fail shows no call: no flush of finish is      *)
(* given up for the throttle or overtaken by an earlier one, if one thread *)
(* calls (heartbeat.py:107, transcript.py:133). One that failed may show a *)
(* call for ever: nothing tries again (heartbeat.py:147).                  *)
(***************************************************************************)
IdleShowsNoCall ==
  (alive /\ \A t \in Thread : at[t] = "out" /\ flush[t].step = "none") =>
    \A f \in File \ lost : disk[f].data[disk[f].cur].on = {}

(***************************************************************************)
(* An open stream does not go on showing what the files said before: when  *)
(* the run writes nothing for a while, or is dead, it comes to show what   *)
(* load_view makes of the files as they are (dashboard.py:_stream reads    *)
(* the three modification times, and reads them before the view).          *)
(***************************************************************************)
Quiet == alive => (\A t \in Thread : flush[t].step = "none") /\ stateYaml # "empty"
UpToDate == stream.pc = "gone" \/ shown = LoadView(HeartbeatActive)

StreamCatchesUp == Quiet ~> (UpToDate \/ ~Quiet)
==============================================================================
