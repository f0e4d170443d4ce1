------------------------------ MODULE CodexCall ------------------------------
(***************************************************************************)
(* One call of `codex exec`: exec_codex_with_usage (providers/codex.py) as *)
(* CodexClient._run and CodexExecutor._run use it.                         *)
(*                                                                         *)
(* With an idle timeout the call is streamed: a reader thread moves the    *)
(* lines codex prints from the pipe to a queue, the caller takes them from *)
(* the queue and, when none comes for idle_timeout seconds, kills codex    *)
(* and its group and starts again, stall_retries times; it does so too     *)
(* when a line comes after max_duration, which by default is not given.    *)
(* Without an idle timeout it waits for the end of the process.  All       *)
(* attempts share one `-o` file.                                           *)
(*                                                                         *)
(* Abstractions: time is left out, so a timer may expire whenever it runs; *)
(* codex (external) prints items, for ever if it likes, at the end of a    *)
(* turn a turn.completed line with the message in the `-o` file, may leave *)
(* a child that holds its stdout, closes its stdout only by exiting, and   *)
(* rewrites the file (perhaps with an empty message) whenever it exits     *)
(* with 0.  Of the lines an attempt printed only their kinds are kept.     *)
(***************************************************************************)
EXTENDS Naturals, Sequences, FiniteSets, SequencesExt

CONSTANTS
  StallRetries, \* stall_retries
  MaxLines      \* bound: lines printed and not yet taken by the caller

ASSUME CodexAssumption == StallRetries \in Nat /\ MaxLines \in Nat

Attempt == 1 .. StallRetries + 1
Error   == {"CodexError", "CodexExecutorError", "CodexUsageLimitError",
            "CodexStalled"}

VARIABLES
  call,    \* whose call it is, whether it is streamed, and whether with a
           \* max_duration
  main,    \* where the caller is
  attempt, \* the attempt it is at
  proc,    \* per attempt: the codex process
  kids,    \* attempts with a child process of codex still alive
  pipe,    \* codex's stdout, not yet read
  q,       \* the queue from the reader to the caller
  lines,   \* the kinds of lines in stdout_lines of this attempt
  late,    \* max_duration has passed since this attempt was started
  message, \* the `-o` file: the attempt that wrote the message, 0: none
  out      \* what the call returned or raised

codexVars == <<call, main, attempt, proc, kids, pipe, q, lines, late, message, out>>
callVars  == <<call, main, attempt, out>>

Pending == [kind |-> "none", text |-> 0, usage |-> FALSE]

CallKind ==
  {c \in [role : {"client", "builder"}, streams : BOOLEAN, limited : BOOLEAN] :
     c.limited => c.streams}

CodexTypeOK ==
  /\ call \in CallKind
  /\ main \in {"spawn", "get", "reap", "communicate", "done"}
  /\ attempt \in Attempt
  /\ proc \in [Attempt -> {"none", "runs", "exit0", "exit1", "limit", "killed"}]
  /\ kids \subseteq Attempt
  /\ pipe \in Seq({"item", "turn"})
  /\ q \in Seq({"item", "turn", "eof"})
  /\ lines \subseteq {"item", "turn"}
  /\ late \in BOOLEAN
  /\ message \in {0} \cup Attempt
  /\ out \in [kind : Error \cup {"none", "answer"}, text : {0} \cup Attempt,
              usage : BOOLEAN]

CodexInit ==
  /\ call \in CallKind
  /\ main = "spawn" /\ attempt = 1
  /\ proc = [a \in Attempt |-> "none"]
  /\ kids = {}
  /\ pipe = <<>> /\ q = <<>> /\ lines = {} /\ late = FALSE
  /\ message = 0
  /\ out = Pending

-----------------------------------------------------------------------------
(* codex, and what it starts (external) *)

Runs == proc[attempt] = "runs"

Emit ==
  /\ Runs /\ Len(pipe) + Len(q) < MaxLines
  /\ \/ pipe' = Append(pipe, "item") /\ UNCHANGED message
     \/ pipe' = Append(pipe, "turn") /\ message' = attempt
  /\ UNCHANGED <<callVars, proc, kids, q, lines, late>>

StartChild ==
  /\ Runs
  /\ kids' = kids \cup {attempt}
  /\ UNCHANGED <<callVars, proc, pipe, q, lines, late, message>>

CodexExits ==
  /\ Runs
  /\ \E rc \in {"exit0", "exit1", "limit"} :
       /\ proc' = [proc EXCEPT ![attempt] = rc]
       /\ message' = IF rc = "exit0" /\ message # attempt THEN 0 ELSE message
  /\ UNCHANGED <<callVars, kids, pipe, q, lines, late>>

ChildEnds ==
  /\ \E a \in kids : kids' = kids \ {a}
  /\ UNCHANGED <<callVars, proc, pipe, q, lines, late, message>>

-----------------------------------------------------------------------------
(* The reader thread of _stream_codex *)

Eof == pipe = <<>> /\ ~Runs /\ attempt \notin kids

ReadLine ==
  /\ main = "get" /\ pipe # <<>>
  /\ lines' = lines \cup {Head(pipe)}
  /\ q' = Append(q, Head(pipe))
  /\ pipe' = Tail(pipe)
  /\ UNCHANGED <<callVars, proc, kids, late, message>>

ReadEof ==
  /\ main = "get" /\ Eof /\ "eof" \notin ToSet(q)
  /\ q' = Append(q, "eof")
  /\ UNCHANGED <<callVars, proc, kids, pipe, lines, late, message>>

-----------------------------------------------------------------------------
(* The caller *)

Return(o) == main' = "done" /\ out' = o /\ UNCHANGED attempt

\* CodexExecutor._run keeps the types CodexUsageLimitError and CodexStalled,
\* which its caller routes on, and wraps any other CodexError.
Raise(kind) ==
  Return([Pending EXCEPT !.kind =
            IF call.role = "builder" /\ kind = "CodexError"
            THEN "CodexExecutorError" ELSE kind])

\* Popen; the queue and the lines are new for every attempt.
Spawn ==
  /\ main = "spawn"
  /\ \/ /\ proc' = [proc EXCEPT ![attempt] = "runs"]
        /\ main' = IF call.streams THEN "get" ELSE "communicate"
        /\ UNCHANGED <<attempt, out>>
     \/ Raise("CodexError") /\ UNCHANGED proc     \* FileNotFoundError
  /\ pipe' = <<>> /\ q' = <<>> /\ lines' = {} /\ late' = FALSE
  /\ UNCHANGED <<call, kids, message>>

\* Slip: what was stalled is only no longer read.
LeaveRunning == UNCHANGED <<proc, kids>>

\* _terminate_process: nothing is done when codex itself has exited.
Terminate ==
  IF Runs
  THEN /\ proc' = [proc EXCEPT ![attempt] = "killed"]
       /\ kids' = kids \ {attempt}
  ELSE UNCHANGED <<proc, kids>>

\* Slip: a stalled attempt is always repeated.
StallAgain ==
  /\ Terminate
  /\ attempt' = attempt + 1 /\ main' = "spawn"
  /\ UNCHANGED <<out, call, pipe, lines, late, message>>

\* CodexStalled, and _run_streaming_with_retries
Stall ==
  /\ Terminate
  /\ IF attempt <= StallRetries
     THEN attempt' = attempt + 1 /\ main' = "spawn" /\ UNCHANGED out
     ELSE Raise("CodexStalled")
  /\ UNCHANGED <<call, pipe, lines, late, message>>

\* Slip: only the silence of a process that is gone counts.
IdleOnlyWhenGone == main = "get" /\ q = <<>> /\ ~Runs /\ Stall /\ UNCHANGED q

\* q.get expires; a line may be on its way from codex.
Idle == main = "get" /\ q = <<>> /\ Stall /\ UNCHANGED q

\* q.get gives an item; after max_duration a line stalls the attempt too.
Get ==
  /\ main = "get" /\ q # <<>>
  /\ q' = Tail(q)
  /\ IF late /\ Head(q) # "eof"
     THEN Stall
     ELSE /\ main' = IF Head(q) = "eof" THEN "reap" ELSE "get"
          /\ UNCHANGED <<call, attempt, out, proc, kids, pipe, lines, late, message>>

TimeUp ==
  /\ main = "get" /\ call.limited /\ ~late
  /\ late' = TRUE
  /\ UNCHANGED <<callVars, proc, kids, pipe, q, lines, message>>

\* Slip: the return code is not looked at.
TakeMessage(rc, printed) ==
  IF message = 0
  THEN Raise("CodexError")
  ELSE Return([kind |-> "answer", text |-> message, usage |-> "turn" \in printed])

\* The tail of exec_codex_with_usage, with _parse_usage of what was printed.
Finish(rc, printed) ==
  CASE rc = "limit" -> Raise("CodexUsageLimitError")
    [] rc # "exit0" \/ message = 0 -> Raise("CodexError")
    [] OTHER -> Return([kind |-> "answer", text |-> message,
                        usage |-> "turn" \in printed])

\* proc.wait, after EOF.
Reap ==
  /\ main = "reap"
  /\ Finish(proc[attempt], lines)
  /\ UNCHANGED <<call, proc, kids, pipe, q, lines, late, message>>

\* subprocess.run: the output ends as in a streamed call.
Communicate ==
  /\ main = "communicate" /\ ~Runs /\ attempt \notin kids
  /\ Finish(proc[attempt], ToSet(pipe))
  /\ UNCHANGED <<call, proc, kids, pipe, q, lines, late, message>>

\* Its timeout, which only the builder has, kills codex but not its group.
Expire ==
  /\ main = "communicate" /\ call.role = "builder"
  /\ proc' = [proc EXCEPT ![attempt] = IF Runs THEN "killed" ELSE @]
  /\ Raise("CodexError")
  /\ UNCHANGED <<call, kids, pipe, q, lines, late, message>>

CodexStep  == Emit \/ StartChild \/ CodexExits \/ ChildEnds
ReaderStep == ReadLine \/ ReadEof
CallerStep == Spawn \/ Idle \/ Get \/ Reap \/ Communicate \/ Expire

CodexNext == CodexStep \/ ReaderStep \/ CallerStep \/ TimeUp

CodexSpec == CodexInit /\ [][CodexNext]_codexVars
               /\ WF_codexVars(ReaderStep) /\ WF_codexVars(CallerStep)
               /\ WF_codexVars(TimeUp)

-----------------------------------------------------------------------------
(* Properties *)

\* The answer is the message of the attempt that ended well, never one a
\* killed attempt left in the file both share; its usage was printed by the
\* same attempt.
AnswerIsOfItsAttempt ==
  out.kind = "answer" => out.text = attempt /\ proc[attempt] = "exit0"

\* There is never a second codex at work on the same directory, and none is
\* left behind when the call has ended, however it ended; of a streamed call
\* no child of a codex that was killed is left either ("멈춘 codex 프로세스와
\* *그 자식들*까지 정리한다"; the children of one that had exited are).
OneCodexAtATime ==
  /\ Cardinality({a \in Attempt : proc[a] = "runs"}) <= 1
  /\ main \in {"spawn", "done"} => \A a \in Attempt : proc[a] # "runs"
  /\ call.streams => \A a \in kids : proc[a] # "killed"

\* A call with a time limit, the max_duration of a streamed one or the timeout
\* of another, ends whatever codex does and whatever holds its stdout; one that
\* is streamed without a limit, as by default, ends unless codex prints for ever.
CallEnds ==
  /\ (call.limited \/ (~call.streams /\ call.role = "builder")) ~> (main = "done")
  /\ call.streams ~> (main = "done" \/ pipe # <<>>)
=============================================================================
