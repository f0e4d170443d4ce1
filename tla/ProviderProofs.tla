---------------------------- MODULE ProviderProofs ----------------------------
(***************************************************************************)
(* Proofs about the providers.                                             *)
(*                                                                         *)
(* CodexCall, for any number of retries and however much is printed, with  *)
(* or without a max_duration. Attempts follow one another: those before    *)
(* the current one are over and those after it have not begun              *)
(* (OneAtATime), the caller leaves the queue only when codex is gone or    *)
(* has been killed (LeftBehind), and the shared `-o` file holds, once      *)
(* codex has exited with 0, its own message or none (FileIsOwn).           *)
(*                                                                         *)
(* LocalAgent, for any number of turns and of work orders. While an order  *)
(* is worked on it has no result (NoResultYet), every turn is paid for at  *)
(* most once (OncePerTurn), and a tree is given back in the step that      *)
(* checked it: what was not found wanting then is what the gate sees.      *)
(***************************************************************************)
EXTENDS CodexCall, LocalAgent, FiniteSetTheorems, TLAPS

-----------------------------------------------------------------------------
(* A call of codex *)

OneAtATime == \A a \in Attempt : a # attempt => proc[a] # "runs"

NotBegun == /\ \A a \in Attempt : a > attempt => proc[a] = "none"
            /\ main = "spawn" => proc[attempt] = "none"

LeftBehind ==
  /\ main \in {"spawn", "reap", "done"} => proc[attempt] # "runs"
  /\ (main = "get" /\ "eof" \in ToSet(q)) => proc[attempt] # "runs"

Mode == /\ main \in {"get", "reap"} => call.streams
        /\ main = "communicate" => ~call.streams

KidsDie == call.streams => \A a \in kids : proc[a] # "killed"

FileIsOwn == proc[attempt] = "exit0" => message \in {0, attempt}

AnswerIsOwn ==
  out.kind = "answer" =>
    main = "done" /\ out.text = attempt /\ proc[attempt] = "exit0"

CodexInv ==
  /\ CodexTypeOK
  /\ OneAtATime /\ NotBegun /\ LeftBehind /\ Mode /\ KidsDie
  /\ FileIsOwn /\ AnswerIsOwn

\* The queue: what is left after taking the first was there before, and what
\* is there after an element is added was there or is the element.
LEMMA QueueFacts ==
  ASSUME NEW S, NEW s \in Seq(S)
  PROVE  /\ s # <<>> => Head(s) \in S /\ Tail(s) \in Seq(S) /\ Len(Tail(s)) = Len(s) - 1
         /\ s # <<>> => ToSet(Tail(s)) \subseteq ToSet(s)
         /\ \A e \in S : /\ Append(s, e) \in Seq(S)
                         /\ Len(Append(s, e)) = Len(s) + 1
                         /\ ToSet(Append(s, e)) \subseteq ToSet(s) \cup {e}
  <1>1. ASSUME s # <<>> PROVE ToSet(Tail(s)) \subseteq ToSet(s)
    BY <1>1 DEF ToSet
  <1>2. ASSUME NEW e \in S PROVE ToSet(Append(s, e)) \subseteq ToSet(s) \cup {e}
    BY DEF ToSet
  <1> QED BY <1>1, <1>2

\* In the initial state no codex has begun.
LEMMA CodexInvInit == CodexInit => CodexInv
  <1> SUFFICES ASSUME CodexInit PROVE CodexInv
    OBVIOUS
  <1>1. CodexTypeOK
    <2>1. late \in BOOLEAN /\ call \in CallKind
      BY Zenon DEF CodexInit
    <2>2. 1 \in Attempt
      BY CodexAssumption DEF Attempt
    <2>3. Pending \in [kind : Error \cup {"none", "answer"}, text : {0} \cup Attempt,
                       usage : BOOLEAN]
      BY DEF Pending
    <2>4. /\ main \in {"spawn", "get", "reap", "communicate", "done"} /\ attempt \in Attempt
          /\ kids \subseteq Attempt /\ lines \subseteq {"item", "turn"}
          /\ pipe \in Seq({"item", "turn"}) /\ q \in Seq({"item", "turn", "eof"})
      BY <2>2 DEF CodexInit
    <2>5. /\ proc \in [Attempt -> {"none", "runs", "exit0", "exit1", "limit", "killed"}]
          /\ message \in {0} \cup Attempt
      BY DEF CodexInit
    <2> QED BY <2>1, <2>3, <2>4, <2>5, Zenon DEF CodexInit, CodexTypeOK
  <1>2. OneAtATime /\ NotBegun /\ LeftBehind /\ Mode
    BY CodexAssumption DEF CodexInit, OneAtATime, NotBegun, LeftBehind, Mode, Attempt
  <1>3. KidsDie /\ FileIsOwn /\ AnswerIsOwn
    BY DEF CodexInit, KidsDie, FileIsOwn, AnswerIsOwn, Pending, Attempt, CodexTypeOK
  <1> QED BY <1>1, <1>2, <1>3 DEF CodexInv

\* After a stall the next attempt is to be begun, or the call has ended.
LEMMA StallMoves ==
  ASSUME CodexInv, Stall
  PROVE  \/ attempt' = attempt + 1 /\ attempt' \in Attempt /\ main' = "spawn" /\ out' = out
         \/ attempt' = attempt /\ main' = "done" /\ out' = [Pending EXCEPT !.kind = "CodexStalled"]
  BY CodexAssumption DEF Stall, Raise, Return, CodexInv, CodexTypeOK, Attempt

\* What the caller does with a stalled attempt: it is over, and either the next
\* one is to be begun or the call has ended with an error.
LEMMA StallFacts ==
  ASSUME CodexInv, Stall
  PROVE  /\ UNCHANGED <<call, pipe, lines, late, message>>
         /\ proc' \in [Attempt -> {"none", "runs", "exit0", "exit1", "limit", "killed"}]
         /\ proc'[attempt] # "runs"
         /\ \A a \in Attempt : a # attempt => proc'[a] = proc[a]
         /\ kids' \subseteq kids
         /\ proc'[attempt] = "killed" /\ attempt \in kids' => proc[attempt] = "killed"
         /\ \/ attempt' = attempt + 1 /\ attempt' \in Attempt /\ main' = "spawn" /\ out' = out
            \/ attempt' = attempt /\ main' = "done" /\ out' = [Pending EXCEPT !.kind = "CodexStalled"]
  <1>1. attempt \in Attempt /\ proc \in [Attempt -> {"none", "runs", "exit0", "exit1", "limit", "killed"}]
    BY DEF CodexInv, CodexTypeOK
  <1>2. Terminate /\ UNCHANGED <<call, pipe, lines, late, message>>
    BY DEF Stall
  <1>3. CASE Runs
    <2>1. proc' = [proc EXCEPT ![attempt] = "killed"] /\ kids' = kids \ {attempt}
      BY <1>2, <1>3 DEF Terminate
    <2> QED BY <1>1, <1>2, <2>1, StallMoves
  <1>4. CASE ~Runs
    <2>1. proc' = proc /\ kids' = kids
      BY <1>2, <1>4 DEF Terminate
    <2> QED BY <1>1, <1>2, <1>4, <2>1, StallMoves DEF Runs
  <1> QED BY <1>3, <1>4

\* The call raises an error, or returns the message of a codex that exited well.
LEMMA FinishFacts ==
  ASSUME CodexInv, NEW rc, NEW printed, Finish(rc, printed)
  PROVE  /\ main' = "done" /\ attempt' = attempt
         /\ out' \in [kind : Error \cup {"none", "answer"}, text : {0} \cup Attempt,
                     usage : BOOLEAN]
         /\ out'.kind = "answer" => out'.text = message /\ message # 0 /\ rc = "exit0"
  <1>0. message \in {0} \cup Attempt
    BY DEF CodexInv, CodexTypeOK
  <1>1. CASE rc = "limit"
    BY <1>1 DEF Finish, Raise, Return, Pending, Error
  <1>2. CASE rc # "limit" /\ (rc # "exit0" \/ message = 0)
    BY <1>2 DEF Finish, Raise, Return, Pending, Error
  <1>3. CASE rc = "exit0" /\ message # 0
    <2>1. Return([kind |-> "answer", text |-> message, usage |-> "turn" \in printed])
      BY <1>3 DEF Finish
    <2>2. ("turn" \in printed) \in BOOLEAN
      OBVIOUS
    <2> QED BY <1>0, <1>3, <2>1, <2>2 DEF Return
  <1> QED BY <1>1, <1>2, <1>3

\* Every step keeps the types, for any number of lines and of retries.
LEMMA CodexTypeStep == CodexInv /\ [CodexNext]_codexVars => CodexTypeOK'
  <1> SUFFICES ASSUME CodexInv, [CodexNext]_codexVars PROVE CodexTypeOK'
    OBVIOUS
  <1> USE CodexAssumption
  <1>0. CodexTypeOK
    BY DEF CodexInv
  <1>1. CASE Emit
    <2>1. PICK e \in {"item", "turn"} : pipe' = Append(pipe, e)
      BY <1>1 DEF Emit
    <2>2. pipe' \in Seq({"item", "turn"})
      BY <1>0, <2>1, QueueFacts DEF CodexTypeOK
    <2> QED BY <1>0, <1>1, <2>2 DEF Emit, CodexTypeOK, callVars
  <1>2. CASE StartChild
    BY <1>0, <1>2 DEF StartChild, CodexTypeOK, callVars
  <1>3. CASE CodexExits
    BY <1>0, <1>3 DEF CodexExits, CodexTypeOK, callVars
  <1>4. CASE ChildEnds
    BY <1>0, <1>4 DEF ChildEnds, CodexTypeOK, callVars
  <1>5. CASE ReadLine
    <2>1. /\ Head(pipe) \in {"item", "turn"}
          /\ Tail(pipe) \in Seq({"item", "turn"})
      BY <1>0, <1>5, QueueFacts DEF ReadLine, CodexTypeOK
    <2>2. lines' \subseteq {"item", "turn"}
      BY <1>0, <1>5, <2>1 DEF ReadLine, CodexTypeOK
    <2>3. q' \in Seq({"item", "turn", "eof"})
      BY <1>0, <1>5, <2>1, QueueFacts DEF ReadLine, CodexTypeOK
    <2> QED BY <1>0, <1>5, <2>1, <2>2, <2>3 DEF ReadLine, CodexTypeOK, callVars
  <1>6. CASE ReadEof
    <2>1. q' \in Seq({"item", "turn", "eof"})
      BY <1>0, <1>6, QueueFacts DEF ReadEof, CodexTypeOK
    <2> QED BY <1>0, <1>6, <2>1 DEF ReadEof, CodexTypeOK, callVars
  <1>7. CASE Spawn
    <2>1. /\ pipe' \in Seq({"item", "turn"}) /\ lines' \subseteq {"item", "turn"}
          /\ q' \in Seq({"item", "turn", "eof"}) /\ late' = FALSE
      BY <1>7 DEF Spawn
    <2> QED BY <1>0, <1>7, <2>1 DEF Spawn, CodexTypeOK, Raise, Return, Pending, Error
  <1>8. CASE Idle
    <2>1. Stall /\ q' = q
      BY <1>8 DEF Idle
    <2> QED BY <1>0, <2>1, StallFacts DEF CodexTypeOK, Pending, Error
  <1>9. CASE Get
    <2>1. q' \in Seq({"item", "turn", "eof"})
      BY <1>0, <1>9, QueueFacts DEF Get, CodexTypeOK
    <2>2. CASE Stall
      BY <1>0, <2>1, <2>2, StallFacts DEF CodexTypeOK, Pending, Error
    <2>3. CASE ~Stall
      BY <1>0, <1>9, <2>1, <2>3 DEF CodexTypeOK, Get
    <2> QED BY <2>2, <2>3
  <1>10. CASE Reap
    <2>1. Finish(proc[attempt], lines)
      BY <1>10 DEF Reap
    <2> QED BY <1>0, <1>10, <2>1, FinishFacts DEF Reap, CodexTypeOK
  <1>11. CASE Communicate
    <2>1. Finish(proc[attempt], ToSet(pipe))
      BY <1>11 DEF Communicate
    <2> QED BY <1>0, <1>11, <2>1, FinishFacts DEF Communicate, CodexTypeOK
  <1>12. CASE Expire
    BY <1>0, <1>12 DEF Expire, Raise, Return, Pending, CodexTypeOK, Error
  <1>13. CASE TimeUp
    BY <1>0, <1>13 DEF TimeUp, CodexTypeOK, callVars
  <1>14. CASE UNCHANGED codexVars
    BY <1>0, <1>14 DEF codexVars, CodexTypeOK
  <1> QED BY <1>1, <1>2, <1>3, <1>4, <1>5, <1>6, <1>7, <1>8, <1>9, <1>10, <1>11, <1>12,
             <1>13, <1>14 DEF CodexNext, CodexStep, ReaderStep, CallerStep

\* codex and what it starts keep the invariant.
LEMMA CodexStepKeeps == ASSUME CodexInv, CodexStep, CodexTypeOK' PROVE CodexInv'
  <1>0. CodexTypeOK /\ attempt \in Attempt /\ Attempt \subseteq Nat
    BY CodexAssumption DEF CodexInv, CodexTypeOK, Attempt
  <1>1. CASE Emit
    BY <1>0, <1>1 DEF Emit, Runs, callVars, CodexInv, OneAtATime, NotBegun, LeftBehind, Mode,
       KidsDie, FileIsOwn, AnswerIsOwn
  <1>2. CASE StartChild
    BY <1>0, <1>2 DEF StartChild, Runs, callVars, CodexInv, OneAtATime, NotBegun, LeftBehind,
       Mode, KidsDie, FileIsOwn, AnswerIsOwn
  <1>3. CASE CodexExits
    <2>1. PICK rc \in {"exit0", "exit1", "limit"} :
            /\ proc' = [proc EXCEPT ![attempt] = rc]
            /\ message' = IF rc = "exit0" /\ message # attempt THEN 0 ELSE message
      BY <1>3 DEF CodexExits
    <2>2. /\ UNCHANGED <<call, main, attempt, out, kids, q>>
          /\ proc[attempt] = "runs" /\ proc'[attempt] = rc
          /\ \A a \in Attempt : a # attempt => proc'[a] = proc[a]
      BY <1>0, <1>3, <2>1 DEF CodexExits, Runs, callVars, CodexTypeOK
    <2>3. OneAtATime' /\ NotBegun' /\ LeftBehind' /\ Mode'
      BY <1>0, <2>1, <2>2 DEF CodexInv, OneAtATime, NotBegun, LeftBehind, Mode
    <2>4. KidsDie' /\ FileIsOwn' /\ AnswerIsOwn'
      BY <1>0, <2>1, <2>2 DEF CodexInv, KidsDie, FileIsOwn, AnswerIsOwn, LeftBehind, CodexTypeOK
    <2> QED BY <2>3, <2>4 DEF CodexInv
  <1>4. CASE ChildEnds
    BY <1>0, <1>4 DEF ChildEnds, callVars, CodexInv, OneAtATime, NotBegun, LeftBehind, Mode,
       KidsDie, FileIsOwn, AnswerIsOwn
  <1> QED BY <1>1, <1>2, <1>3, <1>4 DEF CodexStep

\* The reader says that the output has ended only when codex has.
LEMMA ReaderStepKeeps == ASSUME CodexInv, ReaderStep, CodexTypeOK' PROVE CodexInv'
  <1>0. CodexTypeOK
    BY DEF CodexInv
  <1>1. CASE ReadLine
    <2>1. /\ Head(pipe) \in {"item", "turn"} /\ q \in Seq({"item", "turn", "eof"})
      BY <1>0, <1>1, QueueFacts DEF ReadLine, CodexTypeOK
    <2>2. ToSet(q') \subseteq ToSet(q) \cup {Head(pipe)}
      BY <1>1, <2>1, QueueFacts DEF ReadLine
    <2>3. "eof" \in ToSet(q') => "eof" \in ToSet(q)
      BY <2>1, <2>2
    <2> QED BY <1>0, <1>1, <2>3 DEF ReadLine, callVars, CodexInv, OneAtATime, NotBegun,
               LeftBehind, Mode, KidsDie, FileIsOwn, AnswerIsOwn
  <1>2. CASE ReadEof
    <2>1. proc[attempt] # "runs"
      BY <1>2 DEF ReadEof, Eof, Runs
    <2> QED BY <1>0, <1>2, <2>1 DEF ReadEof, callVars, CodexInv, OneAtATime, NotBegun,
               LeftBehind, Mode, KidsDie, FileIsOwn, AnswerIsOwn
  <1> QED BY <1>1, <1>2 DEF ReaderStep

\* A stalled attempt is over before the next one is begun.
LEMMA StallKeeps ==
  ASSUME CodexInv, Stall, main = "get", CodexTypeOK' PROVE CodexInv'
  <1>0. CodexTypeOK /\ Attempt \subseteq Nat
    BY CodexAssumption DEF CodexInv, CodexTypeOK, Attempt
  <1>1. call' = call /\ message' = message /\ proc'[attempt] # "runs" /\ call.streams
        /\ (\A a \in Attempt : a # attempt => proc'[a] = proc[a])
        /\ kids' \subseteq kids
        /\ (proc'[attempt] = "killed" /\ attempt \in kids' => proc[attempt] = "killed")
    BY StallFacts DEF CodexInv, Mode
  <1>2. KidsDie'
    BY <1>0, <1>1 DEF CodexInv, KidsDie, CodexTypeOK
  <1>3. out.kind # "answer" /\ attempt \in Attempt
    BY <1>0 DEF CodexInv, AnswerIsOwn, CodexTypeOK
  <1>4. \A a \in Attempt : proc'[a] # "runs"
    BY <1>1 DEF CodexInv, OneAtATime
  <1>5. CASE attempt' = attempt + 1 /\ attempt' \in Attempt /\ main' = "spawn" /\ out' = out
    <2>1. \A a \in Attempt : a >= attempt' => proc'[a] = "none"
      BY <1>0, <1>1, <1>3, <1>5 DEF CodexInv, NotBegun
    <2>2. OneAtATime' /\ NotBegun' /\ LeftBehind' /\ Mode'
      BY <1>0, <1>4, <1>5, <2>1 DEF OneAtATime, NotBegun, LeftBehind, Mode
    <2>3. FileIsOwn' /\ AnswerIsOwn'
      BY <1>0, <1>3, <1>5, <2>1 DEF FileIsOwn, AnswerIsOwn
    <2> QED BY <1>2, <2>2, <2>3 DEF CodexInv
  <1>6. CASE attempt' = attempt /\ main' = "done" /\ out' = [Pending EXCEPT !.kind = "CodexStalled"]
    <2>1. out'.kind = "CodexStalled"
      BY <1>6 DEF Pending
    <2>2. OneAtATime' /\ NotBegun' /\ LeftBehind' /\ Mode' /\ AnswerIsOwn'
      BY <1>0, <1>1, <1>3, <1>4, <1>6, <2>1
         DEF CodexInv, OneAtATime, NotBegun, LeftBehind, Mode, AnswerIsOwn
    <2>3. proc'[attempt] = "exit0" => proc[attempt] = "exit0"
      BY StallFacts, <1>3 DEF Stall, Terminate, Runs, CodexInv, CodexTypeOK
    <2> QED BY <1>1, <1>2, <1>6, <2>2, <2>3 DEF CodexInv, FileIsOwn
  <1> QED BY <1>5, <1>6, StallFacts

\* The caller takes the answer of a codex that has exited, and never leaves one
\* at work when it goes on.
LEMMA CallerStepKeeps == ASSUME CodexInv, CallerStep, CodexTypeOK' PROVE CodexInv'
  <1>0. CodexTypeOK /\ attempt \in Attempt /\ Attempt \subseteq Nat
    BY CodexAssumption DEF CodexInv, CodexTypeOK, Attempt
  <1>1. CASE Spawn
    <2>1. UNCHANGED <<call, kids, message, attempt>> /\ proc[attempt] = "none" /\ main = "spawn"
          /\ out.kind # "answer"
      BY <1>0, <1>1 DEF Spawn, Return, Raise, CodexInv, NotBegun, AnswerIsOwn
    <2>2. CASE /\ proc' = [proc EXCEPT ![attempt] = "runs"]
               /\ main' = IF call.streams THEN "get" ELSE "communicate"
               /\ UNCHANGED out
      <3>1. q' = <<>> /\ ToSet(q') = {}
        BY <1>1 DEF Spawn, ToSet
      <3>2. proc'[attempt] = "runs" /\ \A a \in Attempt : a # attempt => proc'[a] = proc[a]
        BY <1>0, <2>2 DEF CodexTypeOK
      <3>3. OneAtATime' /\ NotBegun' /\ LeftBehind' /\ Mode'
        BY <1>0, <2>1, <2>2, <3>1, <3>2 DEF CodexInv, OneAtATime, NotBegun, LeftBehind, Mode
      <3>4. KidsDie' /\ FileIsOwn' /\ AnswerIsOwn'
        BY <1>0, <2>1, <2>2, <3>2 DEF CodexInv, KidsDie, FileIsOwn, AnswerIsOwn, CodexTypeOK
      <3> QED BY <3>3, <3>4 DEF CodexInv
    <2>3. CASE Raise("CodexError") /\ UNCHANGED proc
      <3>1. main' = "done" /\ out'.kind # "answer"
        BY <2>3 DEF Raise, Return, Pending
      <3> QED BY <1>0, <2>1, <2>3, <3>1 DEF CodexInv, OneAtATime, NotBegun, LeftBehind, Mode,
                 KidsDie, FileIsOwn, AnswerIsOwn
    <2> QED BY <1>1, <2>2, <2>3 DEF Spawn
  <1>2. CASE Idle
    BY <1>2, StallKeeps DEF Idle
  <1>3. CASE Get
    <2>1. CASE Stall
      BY <1>3, <2>1, StallKeeps DEF Get
    <2>2. CASE ~Stall
      <3>1. /\ main = "get" /\ q # <<>> /\ q' = Tail(q)
            /\ main' = IF Head(q) = "eof" THEN "reap" ELSE "get"
            /\ UNCHANGED <<call, attempt, out, proc, kids, message>>
        BY <1>3, <2>2 DEF Get
      <3>2. ToSet(q') \subseteq ToSet(q) /\ Head(q) \in ToSet(q)
        BY <1>0, <3>1, QueueFacts DEF CodexTypeOK, ToSet
      <3> QED BY <1>0, <3>1, <3>2 DEF CodexInv, OneAtATime, NotBegun, LeftBehind, Mode,
                 KidsDie, FileIsOwn, AnswerIsOwn
    <2> QED BY <2>1, <2>2
  <1>4. CASE Reap \/ Communicate
    <2>1. /\ \E printed : Finish(proc[attempt], printed)
          /\ UNCHANGED <<call, proc, kids, q, message>>
          /\ proc[attempt] # "runs"
      BY <1>4 DEF Reap, Communicate, Runs, CodexInv, LeftBehind
    <2>2. /\ main' = "done" /\ attempt' = attempt
          /\ out'.kind = "answer" => out'.text = message /\ message # 0 /\ proc[attempt] = "exit0"
      BY <2>1, FinishFacts
    <2> QED BY <1>0, <2>1, <2>2 DEF CodexInv, OneAtATime, NotBegun, LeftBehind, Mode, KidsDie,
               FileIsOwn, AnswerIsOwn
  <1>5. CASE Expire
    <2>1. /\ main' = "done" /\ attempt' = attempt /\ out'.kind # "answer" /\ ~call.streams
          /\ UNCHANGED <<call, kids, q, message>>
      BY <1>5 DEF Expire, Raise, Return, Pending, CodexInv, Mode
    <2>2. /\ proc'[attempt] # "runs" /\ (proc'[attempt] = "exit0" => proc[attempt] = "exit0")
          /\ \A a \in Attempt : a # attempt => proc'[a] = proc[a]
      BY <1>0, <1>5 DEF Expire, Runs, CodexTypeOK
    <2> QED BY <1>0, <2>1, <2>2 DEF CodexInv, OneAtATime, NotBegun, LeftBehind, Mode, KidsDie,
               FileIsOwn, AnswerIsOwn
  <1> QED BY <1>1, <1>2, <1>3, <1>4, <1>5 DEF CallerStep

\* Every step keeps the invariant.
LEMMA CodexInvStep == CodexInv /\ [CodexNext]_codexVars => CodexInv'
  <1> SUFFICES ASSUME CodexInv, [CodexNext]_codexVars PROVE CodexInv'
    OBVIOUS
  <1>1. CodexTypeOK'
    BY CodexTypeStep
  <1>2. CASE UNCHANGED codexVars
    BY <1>2 DEF codexVars, CodexInv, CodexTypeOK, OneAtATime, NotBegun, LeftBehind, Mode,
       KidsDie, FileIsOwn, AnswerIsOwn, Attempt
  <1>3. CASE TimeUp
    BY <1>1, <1>3 DEF TimeUp, callVars, CodexInv, OneAtATime, NotBegun, LeftBehind, Mode,
       KidsDie, FileIsOwn, AnswerIsOwn, Attempt
  <1> QED BY <1>1, <1>2, <1>3, CodexStepKeeps, ReaderStepKeeps, CallerStepKeeps DEF CodexNext

\* The answer is the message of the attempt that exited with 0, and at most
\* the current attempt is at work.
LEMMA CodexInvSays ==
  CodexInv => CodexTypeOK /\ AnswerIsOfItsAttempt /\ OneCodexAtATime
  <1> SUFFICES ASSUME CodexInv
               PROVE  CodexTypeOK /\ AnswerIsOfItsAttempt /\ OneCodexAtATime
    OBVIOUS
  <1>1. CodexTypeOK /\ AnswerIsOfItsAttempt
    BY DEF CodexInv, AnswerIsOwn, AnswerIsOfItsAttempt
  <1>2. OneCodexAtATime
    <2> DEFINE running == {a \in Attempt : proc[a] = "runs"}
    <2>1. running \subseteq {attempt}
      BY DEF CodexInv, OneAtATime
    <2>2. IsFiniteSet({attempt}) /\ Cardinality({attempt}) = 1
      BY FS_Singleton
    <2>3. Cardinality(running) <= 1
      BY <2>1, <2>2, FS_Subset
    <2>4. main \in {"spawn", "done"} => \A a \in Attempt : proc[a] # "runs"
      BY DEF CodexInv, OneAtATime, LeftBehind
    <2> QED BY <2>3, <2>4 DEF OneCodexAtATime, CodexInv, KidsDie
  <1> QED BY <1>1, <1>2

\* A call of codex, whether or not its reader thread and its caller go on.
CodexSafety == CodexInit /\ [][CodexNext]_codexVars

\* Nothing of it depends on who goes on when.
LEMMA CodexIsSafe ==
  CodexSafety => [](CodexTypeOK /\ AnswerIsOfItsAttempt /\ OneCodexAtATime)
BY CodexInvInit, CodexInvStep, CodexInvSays, PTL DEF CodexSafety

\* However often a call is retried its attempts are those it was given, and
\* what it answers is an answer or one of the errors the code names.
THEOREM CodexTypesHold == CodexSpec => []CodexTypeOK
BY CodexIsSafe, PTL DEF CodexSpec, CodexSafety

\* The answer of every call is the message of the attempt that ended well.
THEOREM AnswerIsAlwaysOfItsAttempt == CodexSpec => []AnswerIsOfItsAttempt
BY CodexIsSafe, PTL DEF CodexSpec, CodexSafety

\* No two codex are ever at work for one call, however often it is retried, and
\* none when it has ended.
THEOREM OneCodexAlways == CodexSpec => []OneCodexAtATime
BY CodexIsSafe, PTL DEF CodexSpec, CodexSafety

-----------------------------------------------------------------------------
(* A unit built by the local builder *)

NoResultYet == step # "idle" => result = "none"

OncePerTurn == spent <= turn /\ (step = "chat" => spent < turn)

LocalInv ==
  /\ LocalTypeOK
  /\ NoResultYet /\ OncePerTurn /\ ReportedSpend /\ GreenIsGreenAtTheGate

\* A tree with tests, a test command and its tools, that neither check found
\* wanting, passes the command at the gate; but for the cases left out.
LEMMA CheckedIsGreen ==
  ASSUME LocalTypeOK, ~Smoke, NEW odd, ~Selftest(odd),
         order.installed, tree.tests, Tests(order.cmd),
         ~(order.cmd = "pytest" /\ Has("undiscovered")), ~Unmirrored
  PROVE  GateCodes = {0}
  <1>1. order.cmd \in {"pytest", "pytest -k", "unittest", "vitest"} /\ tree.defect \in Defect
    BY DEF LocalTypeOK, Order, Command, Tests
  <1>2. TestCode(order.cmd) \notin {1, 2} /\ order.form # "other"
    BY DEF Selftest, Unmirrored
  <1>3. ~Has("undiscovered") \/ order.cmd = "vitest"
    BY <1>1 DEF Smoke, Stack, PytestCollect, UnittestDiscover, Has
  <1>4. TestCode(order.cmd) = 0
    <2>1. CASE Has("undiscovered")
      BY <1>1, <1>2, <1>3, <2>1 DEF TestCode
    <2>2. CASE ~Has("undiscovered")
      BY <1>1, <1>2, <2>2 DEF TestCode
    <2> QED BY <2>1, <2>2
  <1> QED BY <1>2, <1>4 DEF GateCodes, Unmirrored

\* Leaving gives a result; going on, a turn more.
LEMMA LeaveOrAgain ==
  ASSUME LocalTypeOK, Leave \/ Again
  PROVE  \/ turn' = turn /\ step' = "idle" /\ result' \in {"summary", "LocalAgentError"}
         \/ /\ turn' = turn + 1 /\ turn' \in 0 .. MaxTurns /\ step' = "chat"
            /\ result' = result
  BY LocalAssumption DEF Leave, Again, LocalTypeOK

\* Every step keeps the invariant.
LEMMA LocalStep == LocalInv /\ [LocalNext]_localVars => LocalInv'
  <1> SUFFICES ASSUME LocalInv, [LocalNext]_localVars PROVE LocalInv'
    OBVIOUS
  <1>0. LocalTypeOK
    BY DEF LocalInv
  <1> USE LocalAssumption
  <1>1. CASE Begin
    <2>0. /\ units' \in 0 .. MaxUnits /\ turn' \in 0 .. MaxTurns
          /\ lastUsage' \in 0 .. MaxTurns /\ spent' \in 0 .. MaxTurns
          /\ reply' \in [edits : {"none", "inside", "outside", "directory"}, done : BOOLEAN]
      BY <1>0, <1>1 DEF Begin, LocalTypeOK, NoReply
    <2>1. LocalTypeOK'
      BY <1>0, <1>1, <2>0 DEF Begin, LocalTypeOK
    <2> QED BY <1>0, <1>1, <2>1 DEF Begin, LocalInv, NoResultYet, OncePerTurn, ReportedSpend,
               GreenIsGreenAtTheGate
  <1>2. CASE Chat
    <2>1. result' # "summary" /\ NoResultYet'
      BY <1>2 DEF Chat, LocalInv, NoResultYet
    <2>2. /\ spent' = lastUsage' /\ spent' \in Nat /\ spent' <= turn
          /\ UNCHANGED <<order, turn, tree, applied, any, slow, units>>
          /\ step' \in {"apply", "idle"} /\ result' \in {result, "LocalAgentError"}
          /\ reply' \in [edits : {"none", "inside", "outside", "directory"}, done : BOOLEAN]
      BY <1>0, <1>2 DEF Chat, LocalInv, LocalTypeOK, OncePerTurn, ReportedSpend
    <2> QED BY <1>0, <2>1, <2>2 DEF LocalInv, LocalTypeOK, OncePerTurn, ReportedSpend,
               GreenIsGreenAtTheGate
  <1>3. CASE Apply
    <2>1. /\ UNCHANGED <<order, turn, reply, slow, lastUsage, spent, units>>
          /\ applied' \in BOOLEAN /\ any' \in BOOLEAN /\ step' \in {"idle", "verify"}
          /\ step' = "verify" => result' = result
          /\ step' = "idle" => result' = "OSError"
          /\ tree' \in [defect : Defect, tests : BOOLEAN]
          /\ step = "apply"
      BY <1>0, <1>3 DEF Apply, LocalTypeOK
    <2>2. result' \in {"none", "OSError"}
      BY <2>1 DEF LocalInv, NoResultYet
    <2> QED BY <1>0, <2>1, <2>2 DEF LocalInv, LocalTypeOK, NoResultYet, OncePerTurn,
               ReportedSpend, GreenIsGreenAtTheGate
  <1>4. CASE Verify
    <2>1. /\ UNCHANGED <<order, tree, reply, applied, any, lastUsage, spent, units>>
          /\ Leave \/ Again
          /\ slow' \in BOOLEAN /\ result = "none"
      BY <1>4 DEF Verify, LocalInv, NoResultYet
    <2>2. LocalTypeOK' /\ NoResultYet'
      BY <1>0, <2>1, LeaveOrAgain DEF LocalTypeOK, NoResultYet
    <2>3. OncePerTurn' /\ ReportedSpend'
      BY <1>0, <2>1, LeaveOrAgain DEF LocalInv, LocalTypeOK, OncePerTurn, ReportedSpend
    <2>4. ASSUME result' = "summary", applied', turn' < MaxTurns, ~slow',
                 order'.checks = {"smoke", "selftest"}
          PROVE  ~Smoke /\ \E odd \in BOOLEAN : ~Selftest(odd)
      <3>1. Made = {"smoke", "selftest", "runtime"}
        BY <2>1, <2>4 DEF Made
      <3>2. ~Again
        BY <1>0, <2>1, <2>4 DEF Again, Leave, LocalTypeOK
      <3>3. PICK odd \in BOOLEAN : \A k \in Made : ~Fails(k, odd)
        <4>1. PICK tardy \in SUBSET Made, odd \in BOOLEAN :
                /\ slow' = (tardy # {})
                /\ IF applied /\ Made # {}
                   THEN IF \E k \in Made \ tardy : Fails(k, odd) THEN Again ELSE Leave
                   ELSE /\ tardy = {}
                        /\ IF reply.done \/ reply.edits = "none" THEN Leave ELSE Again
          BY <1>4 DEF Verify
        <4>2. tardy = {} /\ applied /\ Made # {}
          BY <2>1, <2>4, <3>1, <4>1
        <4> QED BY <3>2, <4>1, <4>2
      <3> QED BY <3>1, <3>3 DEF Fails
    <2>5. GreenIsGreenAtTheGate'
      BY <1>0, <2>1, <2>4, CheckedIsGreen DEF GreenIsGreenAtTheGate, Has, Selftest, GateCodes, TestCode, Unmirrored
    <2> QED BY <2>2, <2>3, <2>5 DEF LocalInv
  <1>5. CASE UNCHANGED localVars
    <2>1. LocalTypeOK' /\ NoResultYet' /\ OncePerTurn' /\ ReportedSpend'
      BY <1>0, <1>5 DEF localVars, LocalInv, LocalTypeOK, NoResultYet, OncePerTurn, ReportedSpend
    <2>2. /\ GateCodes' = GateCodes /\ (Unmirrored' <=> Unmirrored)
          /\ Has("undiscovered")' <=> Has("undiscovered")
      BY <1>5 DEF localVars, GateCodes, TestCode, Has, Unmirrored
    <2>3. GreenIsGreenAtTheGate'
      BY <1>5, <2>2 DEF localVars, LocalInv, GreenIsGreenAtTheGate
    <2> QED BY <2>1, <2>3 DEF LocalInv
  <1> QED BY <1>1, <1>2, <1>3, <1>4, <1>5 DEF LocalNext

\* A builder that has no order yet has nothing to answer for.
LEMMA LocalStarts == LocalInit => LocalInv
  <1> SUFFICES ASSUME LocalInit PROVE LocalInv
    OBVIOUS
  <1>1. [defect |-> "none", tests |-> FALSE] \in [defect : Defect, tests : BOOLEAN]
    BY DEF Defect
  <1>2. NoReply \in [edits : {"none", "inside", "outside", "directory"}, done : BOOLEAN]
    BY DEF NoReply
  <1>3. LocalTypeOK
    <2>1. /\ turn \in 0 .. MaxTurns /\ units \in 0 .. MaxUnits
          /\ lastUsage \in 0 .. MaxTurns /\ spent \in 0 .. MaxTurns
      BY LocalAssumption DEF LocalInit
    <2>2. applied \in BOOLEAN /\ any \in BOOLEAN /\ slow \in BOOLEAN
      BY Zenon DEF LocalInit
    <2>3. /\ tree \in [defect : Defect, tests : BOOLEAN]
          /\ reply \in [edits : {"none", "inside", "outside", "directory"}, done : BOOLEAN]
          /\ step \in {"idle", "chat", "apply", "verify"}
          /\ result \in {"none", "summary", "LocalAgentError", "OSError"}
      BY <1>1, <1>2, Zenon DEF LocalInit
    <2> QED BY <2>1, <2>2, <2>3, Zenon DEF LocalInit, LocalTypeOK
  <1> QED BY <1>3 DEF LocalInit, LocalInv, NoResultYet, OncePerTurn, ReportedSpend,
             GreenIsGreenAtTheGate

\* What the builder gives back before its turns ran out, as having passed its
\* smoke and its self-test, passes at the gate, for every tree and number of
\* turns and for every command the self-test does not change.
THEOREM GreenIsAlwaysGreenAtTheGate == LocalSpec => []GreenIsGreenAtTheGate
  <1>1. LocalInv => GreenIsGreenAtTheGate
    BY DEF LocalInv
  <1> QED BY <1>1, LocalStarts, LocalStep, PTL DEF LocalSpec

\* The turns of an order and what they cost stay within the cap on turns, and
\* an order ends with a summary or one of the two errors the code raises.
THEOREM LocalTypesHold == LocalSpec => []LocalTypeOK
  <1>1. LocalInv => LocalTypeOK
    BY DEF LocalInv
  <1> QED BY <1>1, LocalStarts, LocalStep, PTL DEF LocalSpec

\* However an order ends, and after whatever orders, last_usage is what its own
\* answered turns have cost.
THEOREM SpendIsAlwaysReported == LocalSpec => []ReportedSpend
  <1>1. LocalInv => ReportedSpend
    BY DEF LocalInv
  <1> QED BY <1>1, LocalStarts, LocalStep, PTL DEF LocalSpec
=============================================================================
