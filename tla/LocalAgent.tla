----------------------------- MODULE LocalAgent -----------------------------
(***************************************************************************)
(* The builder that drives a local model: LocalAgentExecutor.run           *)
(* (providers/local_agent.py), with the checks it makes of its own work    *)
(* (builder_smoke, builder_selftest, integration_runtime_smoke).           *)
(*                                                                         *)
(* Up to MaxTurns turns of a chat; the files a reply carries are written   *)
(* to the work directory, whatever checks can be run there are run, and    *)
(* what they say goes into the next turn.  One executor serves the units   *)
(* of a run one after another.                                             *)
(*                                                                         *)
(* Abstractions: a tree is what the checks can tell of it, its test files  *)
(* and at most one defect; the amount of a turn's usage is one token, or   *)
(* unknown; the text of a reply and of the summary is left out.            *)
(***************************************************************************)
EXTENDS Naturals

CONSTANTS
  MaxTurns, \* max_turns
  MaxUnits  \* bound: work orders given to the executor

ASSUME LocalAssumption == MaxTurns \in Nat \ {0} /\ MaxUnits \in Nat

\* "rooted": the tests import a module of the root that only `python -m`, which
\* has the current directory on its path, finds.
Defect == {"none", "syntax", "import", "undiscovered", "red", "rooted", "crash"}

\* The stack of the work directory and the test command among the unit's
\* local checks, as _detect_stack tells the first by the second.
Command == {"pytest", "pytest -k", "unittest", "vitest", "", "js"}
Stack(c) == IF c \in {"vitest", "js"} THEN "js" ELSE "python"
Tests(c) == c \notin {"", "js"}      \* _selftest_cmd, _selftest_js_cmd

\* What the self-test makes of the command, which the gate hands to a shell as
\* it is: "same" in effect (python -m pytest, npx vitest run); "bare": a runner
\* called by its name, which the self-test starts with python -m or npx;
\* "other": a leading cd or assignment, a second test command, an interpreter
\* of its own, are dropped, and the self-test says nothing of the command.
Form == {"same", "bare", "other"}

Order == {o \in [cmd : Command, form : Form, harness : BOOLEAN, installed : BOOLEAN,
                 checks : {{}, {"smoke"}, {"smoke", "selftest"}}] :
            /\ ~Tests(o.cmd) => o.form = "same"
            /\ o.cmd = "unittest" => o.form # "bare"}

VARIABLES
  order,     \* the unit: its command, whether it is the integration unit with
             \* a runtime smoke harness; what is installed; callbacks given
  step,      \* where run() is
  turn,      \* the turn it is in
  tree,      \* the work directory
  reply,     \* the model's last reply
  applied,   \* some file of the last reply was written
  any,       \* applied_all is not empty
  slow,      \* some check of the last turn ran out of time
  lastUsage, \* last_usage: tokens, 0: None
  spent,     \* tokens the endpoint reported for this order
  result,    \* what run() returned or raised
  units      \* work orders so far

localVars == <<order, step, turn, tree, reply, applied, any, slow, lastUsage,
               spent, result, units>>

NoReply == [edits |-> "none", done |-> FALSE]

LocalTypeOK ==
  /\ order \in Order
  /\ step \in {"idle", "chat", "apply", "verify"}
  /\ turn \in 0 .. MaxTurns
  /\ tree \in [defect : Defect, tests : BOOLEAN]
  /\ reply \in [edits : {"none", "inside", "outside", "directory"}, done : BOOLEAN]
  /\ applied \in BOOLEAN /\ any \in BOOLEAN
  /\ slow \in BOOLEAN
  /\ lastUsage \in 0 .. MaxTurns /\ spent \in 0 .. MaxTurns
  /\ result \in {"none", "summary", "LocalAgentError", "OSError"}
  /\ units \in 0 .. MaxUnits

LocalInit ==
  /\ order \in Order
  /\ step = "idle" /\ turn = 0
  /\ tree = [defect |-> "none", tests |-> FALSE]
  /\ reply = NoReply
  /\ applied = FALSE /\ any = FALSE /\ slow = FALSE
  /\ lastUsage = 0 /\ spent = 0
  /\ result = "none" /\ units = 0

-----------------------------------------------------------------------------
(* What the checks see of a tree.  A tool that is missing skips its check;  *)
(* only `npx --no-install` of a missing runner fails it.                    *)

Has(d) == tree.defect = d

\* _smoke_pytest_collect: exit 5, no test collected, counts only with -k.
PytestCollect ==
  order.installed /\ (Has("import") \/ (order.cmd = "pytest -k" /\ Has("undiscovered")))

\* _smoke_unittest_discover, unless _smoke_conventions leaves pytest alone.
UnittestDiscover ==
  order.cmd \notin {"pytest", "pytest -k"} /\ (Has("import") \/ Has("undiscovered"))

\* _builder_smoke_js: node --check and tsc, then vitest list.
SmokeJs ==
  order.installed /\ (Has("syntax") \/ (tree.tests /\ Has("import")))

Smoke ==
  IF Stack(order.cmd) = "js"
  THEN SmokeJs
  ELSE Has("syntax") \/ (tree.tests /\ (PytestCollect \/ UnittestDiscover))

\* The exit code of test command c in the tree, its runner started with
\* python -m or npx --no-install.
TestCode(c) ==
  CASE ~order.installed /\ c \in {"pytest", "pytest -k"} -> 127
    [] ~order.installed /\ c = "vitest" -> 1
    [] ~tree.tests \/ Has("undiscovered") -> IF c = "vitest" THEN 1 ELSE 5
    [] Has("syntax") \/ Has("import") -> 2
    [] Has("red") -> 1
    [] OTHER -> 0

\* The exit code of the command at the gate, of "other" left open: a bare vitest
\* is not on the path of the shell, a bare pytest leaves the root off its own.
GateCodes ==
  CASE order.form = "other" -> {0, 1, 2, 5, 127}
    [] order.form = "bare" /\ order.cmd = "vitest" -> {127}
    [] order.form = "bare" /\ TestCode(order.cmd) = 0 /\ Has("rooted") -> {2}
    [] OTHER -> {TestCode(order.cmd)}

\* builder_selftest and _builder_selftest_js; odd: whether what is left of an
\* "other" command happens to fail.
Selftest(odd) ==
  /\ tree.tests /\ Tests(order.cmd)
  /\ IF order.form = "other" THEN odd ELSE TestCode(order.cmd) \in {1, 2}

RuntimeSmoke == order.harness /\ order.installed /\ (Has("crash") \/ Has("syntax"))

Fails(k, odd) == CASE k = "smoke" -> Smoke
                   [] k = "selftest" -> Selftest(odd)
                   [] k = "runtime" -> RuntimeSmoke

\* The checks made after edits were applied; verify must have been given.
Made == IF "smoke" \in order.checks THEN order.checks \cup {"runtime"} ELSE {}

-----------------------------------------------------------------------------
(* run() *)

\* Slip: last_usage is not reset.
BeginKeepingUsage ==
  /\ step = "idle" /\ units < MaxUnits
  /\ units' = units + 1
  /\ turn' = 1 /\ any' = FALSE /\ applied' = FALSE /\ slow' = FALSE
  /\ spent' = 0
  /\ result' = "none" /\ reply' = NoReply
  /\ step' = "chat"
  /\ UNCHANGED <<order, tree, lastUsage>>

Begin ==
  /\ step = "idle" /\ units < MaxUnits
  /\ units' = units + 1
  /\ turn' = 1 /\ any' = FALSE /\ applied' = FALSE /\ slow' = FALSE
  /\ lastUsage' = 0 /\ spent' = 0
  /\ result' = "none" /\ reply' = NoReply
  /\ step' = "chat"
  /\ UNCHANGED <<order, tree>>

\* _chat: the endpoint may fail or stall, which leaves what is done so far.
Chat ==
  /\ step = "chat"
  /\ \/ /\ \E n \in {0, 1} : spent' = spent + n /\ lastUsage' = lastUsage + n
        /\ reply' \in [edits : {"none", "inside", "outside", "directory"},
                       done : BOOLEAN]
        /\ step' = "apply"
        /\ UNCHANGED result
     \/ /\ result' = "LocalAgentError"
        /\ step' = "idle"
        /\ UNCHANGED <<spent, lastUsage, reply>>
  /\ UNCHANGED <<order, turn, tree, applied, any, slow, units>>

\* parse_edits, apply_edits: a path outside the work directory is skipped, one
\* that names a directory stops the run after the files before it.
Apply ==
  /\ step = "apply"
  /\ applied' = (reply.edits = "inside")
  /\ any' = (any \/ applied')
  /\ IF reply.edits \in {"inside", "directory"}
     THEN tree' \in {t \in [defect : Defect, tests : BOOLEAN] :
                       t.defect \in {"undiscovered", "red", "rooted"} => t.tests}
     ELSE UNCHANGED tree
  /\ IF reply.edits = "directory"
     THEN result' = "OSError" /\ step' = "idle"
     ELSE step' = "verify" /\ UNCHANGED result
  /\ UNCHANGED <<order, turn, reply, slow, lastUsage, spent, units>>

Leave ==
  /\ result' = IF any THEN "summary" ELSE "LocalAgentError"
  /\ step' = "idle"
  /\ UNCHANGED turn

\* Slip: as long as a check fails there is another turn.
AgainUntilGreen == turn' = turn + 1 /\ step' = "chat" /\ UNCHANGED result

Again ==
  IF turn < MaxTurns
  THEN turn' = turn + 1 /\ step' = "chat" /\ UNCHANGED result
  ELSE Leave

\* Slip: after a failed smoke the other checks are not made, and the turn ends.
VerifyOnce ==
  /\ step = "verify"
  /\ slow' = FALSE
  /\ IF applied /\ Made # {}
     THEN IF Smoke THEN Again ELSE Leave
     ELSE IF reply.done \/ reply.edits = "none" THEN Leave ELSE Again
  /\ UNCHANGED <<order, tree, reply, applied, any, lastUsage, spent, units>>

Verify ==
  /\ step = "verify"
  /\ \E tardy \in SUBSET Made, odd \in BOOLEAN :
       /\ slow' = (tardy # {})
       /\ IF applied /\ Made # {}
          THEN IF \E k \in Made \ tardy : Fails(k, odd) THEN Again ELSE Leave
          ELSE /\ tardy = {}
               /\ IF reply.done \/ reply.edits = "none" THEN Leave ELSE Again
  /\ UNCHANGED <<order, tree, reply, applied, any, lastUsage, spent, units>>

LocalNext == Begin \/ Chat \/ Apply \/ Verify

LocalSpec == LocalInit /\ [][LocalNext]_localVars

-----------------------------------------------------------------------------
(* Properties *)

\* Whatever way an order ends, last_usage is what its turns are known to have
\* cost: the turns before a stall count, those of an earlier order do not.
ReportedSpend == lastUsage = spent

\* The self-test is known not to show what the gate will.
Unmirrored ==
  \/ order.form = "other"
  \/ order.form = "bare" /\ (order.cmd = "vitest" \/ Has("rooted"))

\* A tree the builder gives back before its turns ran out, as one that passed
\* its smoke and its self-test, passes the unit's test command at the gate
\* too ("스모크 통과인데 gate가 테스트를 못 찾던 불일치를 빌더-측서 잡는다"), when the
\* tools are there and in time and the tree has tests.  Not so where the code
\* itself lets them differ: pytest without -k and no collectable test, and the
\* commands the self-test changes (Unmirrored).
GreenIsGreenAtTheGate ==
  (/\ result = "summary" /\ applied /\ turn < MaxTurns
   /\ order.checks = {"smoke", "selftest"} /\ ~slow
   /\ order.installed /\ tree.tests /\ Tests(order.cmd)
   /\ ~(order.cmd = "pytest" /\ Has("undiscovered"))
   /\ ~Unmirrored)
  => GateCodes = {0}
=============================================================================
