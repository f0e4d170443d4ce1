----------------------------- MODULE Preparation -----------------------------
(***************************************************************************)
(* What a run does before its loop: main's --continue-from (load_resume,   *)
(* run.py), the prelude of run_loop (loop.py) with synthesis and its two   *)
(* nudges (intake.py), the spec critic (spec_critic.py), the evidence      *)
(* contract and the reuse of the parent's verified units.                  *)
(*                                                                         *)
(* Abstractions: of a specification only what the steps tell apart is      *)
(* kept: which synthesis its criteria come from, and per unit what decides *)
(* reuse and the contract.  Whether integration units lack dependencies,   *)
(* or scopes overlap, is left open.  The capability pre-flight is module   *)
(* Capabilities.  Prompts, contexts and costs are left out.                *)
(***************************************************************************)
EXTENDS Naturals

CONSTANTS
  Unit,         \* the decomposition
  Place,        \* where a parent may have worked: its run directory's work/,
                \* elsewhere (its --workdir), or here, in this run's --workdir
  SynthRetries  \* synth_retries

ASSUME PreparationAssumption ==
  /\ Place \subseteq {"work", "elsewhere", "here"}
  /\ SynthRetries \in Nat

VARIABLES
  prep,     \* where the preparation is
  mode,     \* how the run relates to a parent
  manifest, \* the parent's units that are known to be done
  code,     \* those of them whose code is in the work directory
  spec,     \* the specification
  tries,    \* repairs asked for in the synthesis going on
  plan      \* units of the plan seeded as done

prepVars == <<prep, mode, manifest, code, spec, tries, plan>>

Final == {"loop", "escalated", "stopped_credit", "stopped", "crashed", "refused"}

\* A unit: whether it is labelled reuse_of and, if it is, whether its criteria
\* and its scope are the parent's; whether it has dependencies; what it is for:
\* a harness produces the trace, a scaffold at most owns evidence.
UnitSpec ==
  {s \in [label : BOOLEAN, crit : BOOLEAN, scope : BOOLEAN, deps : BOOLEAN,
          kind : {"plain", "harness", "scaffold"}] :
     s.crit \/ s.scope => s.label}

Source == {"parent", "first", "stronger", "nudged"}

PreparationTypeOK ==
  /\ prep \in Final \cup {"load", "synthesize", "critique", "resynthesize",
                          "deps", "nudge_deps", "scope", "nudge_scope",
                          "contract", "init", "capability", "reuse"}
  /\ mode \in {"fresh", "incremental", "resume"}
  /\ manifest \subseteq Unit /\ code \subseteq Unit /\ plan \subseteq Unit
  /\ spec \in [unit : [Unit -> UnitSpec], criteria : Source, fields : BOOLEAN,
               contract : SUBSET Unit]
  /\ tries \in 0 .. SynthRetries

NoUnit == [label |-> FALSE, crit |-> FALSE, scope |-> FALSE, kind |-> "plain",
           deps |-> FALSE]
NoSpec == [unit |-> [u \in Unit |-> NoUnit], criteria |-> "parent",
           fields |-> FALSE, contract |-> {}]

PreparationInit ==
  /\ prep = "load" /\ mode = "fresh"
  /\ manifest = {} /\ code = {} /\ plan = {}
  /\ spec = NoSpec /\ tries = 0

-----------------------------------------------------------------------------
(* harness_units, and the evidence contract *)

Candidates(s)  == {u \in Unit : s.unit[u].kind # "plain"}
Foundations(s) == {u \in Unit : s.unit[u].kind = "scaffold" /\ ~s.unit[u].deps}

\* Slip: whoever mentions evidence carries the contract.
EveryCandidate(s) == Candidates(s)

\* A foundation carries the contract only if there is no producer.
Harness(s) ==
  IF Candidates(s) \subseteq Foundations(s)
  THEN Candidates(s)
  ELSE Candidates(s) \ Foundations(s)

\* Whether run criteria require fields; if so, what the units are for.
Purposes(s) ==
  {s} \cup
  {[s EXCEPT !.unit = [u \in Unit |-> [s.unit[u] EXCEPT !.kind = kind[u]]],
             !.fields = TRUE] : kind \in [Unit -> {"plain", "harness", "scaffold"}]}

WithContract(s) ==
  [s EXCEPT !.contract = IF s.fields THEN Harness(s) ELSE {}]

-----------------------------------------------------------------------------
(* --continue-from: load_resume *)

\* A parent: whether its spec.yaml and state.yaml can be read, whether it had
\* the same order; where it worked, and whether that is a git work tree that
\* does not track what was built.
Parent == [spec : BOOLEAN, state : BOOLEAN, same : BOOLEAN, at : Place,
           untracked : BOOLEAN, done : SUBSET Unit]

\* seed_workdir_from_parent: the tracked files of work/, or else of the run
\* directory, which has the side files of the run and no code.
Seeded(p) ==
  IF p.at = "here" \/ (p.at = "work" /\ ~p.untracked) THEN p.done ELSE {}

\* _load_parent_state, build_reuse_manifest
Verified(p) == IF p.spec /\ p.state THEN p.done ELSE {}

Fresh ==
  /\ prep = "load"
  /\ prep' = "synthesize" /\ mode' = "fresh"
  /\ UNCHANGED <<manifest, code, spec, tries, plan>>

\* ContinuationError: no such parent, or no directory to seed from.
Refuse == prep = "load" /\ prep' = "refused"
          /\ UNCHANGED <<mode, manifest, code, spec, tries, plan>>

\* is_pure_resume: the parent's specification is taken over as it is.
Resume ==
  /\ prep = "load"
  /\ \E p \in Parent :
       /\ p.spec /\ p.same
       /\ code' = Seeded(p) /\ manifest' = Verified(p)
       /\ \E s \in Purposes(NoSpec) : spec' = WithContract(s)
  /\ prep' = "init" /\ mode' = "resume"
  /\ UNCHANGED <<tries, plan>>

\* Another order, no spec.yaml, or --resynthesize.
Continue ==
  /\ prep = "load"
  /\ \E p \in Parent : code' = Seeded(p) /\ manifest' = Verified(p)
  /\ prep' = "synthesize" /\ mode' = "incremental"
  /\ UNCHANGED <<spec, tries, plan>>

-----------------------------------------------------------------------------
(* synthesize: a first answer, or a repaired one *)

Goto(s) == prep' = s /\ tries' = 0

\* Slip: an answer that is no YAML is asked for again whatever was tried.
RepairForever == tries' = tries + 1 /\ UNCHANGED <<prep, spec>>

Repair == tries < SynthRetries /\ tries' = tries + 1 /\ UNCHANGED <<prep, spec>>

\* Only an incremental run has a parent whose units can be named; what its
\* units are for is not looked at before the contract.
Drafted == {s \in UnitSpec : s.kind = "plain"}
Unlabelled == {s \in Drafted : ~s.label}

Draft(from) ==
  \E un \in [Unit -> IF mode = "incremental" THEN Drafted ELSE Unlabelled] :
    spec' = [NoSpec EXCEPT !.unit = un, !.criteria = from]

\* CodexUsageLimitError, CodexStalled, any other.
Raised == \E e \in {"stopped_credit", "escalated", "crashed"} : Goto(e) /\ UNCHANGED spec

\* The first synthesis; no valid answer: _escalated_no_spec.
Synthesize ==
  /\ prep = "synthesize"
  /\ \/ Draft("first") /\ Goto("critique")
     \/ Repair
     \/ Goto("escalated") /\ UNCHANGED spec
     \/ Raised
  /\ UNCHANGED <<mode, manifest, code, plan>>

\* critique_spec never raises; only a soft verdict with a gap is acted on.
Critique ==
  /\ prep = "critique"
  /\ prep' \in {"deps", "resynthesize"}
  /\ UNCHANGED <<mode, manifest, code, spec, tries, plan>>

\* Once; without a valid answer the first specification stays.
Resynthesize ==
  /\ prep = "resynthesize"
  /\ \/ Draft("stronger") /\ Goto("deps")
     \/ Repair
     \/ Goto("deps") /\ UNCHANGED spec
     \/ Raised
  /\ UNCHANGED <<mode, manifest, code, plan>>

-----------------------------------------------------------------------------
(* nudge_integration_deps and nudge_disjoint_scope *)

\* What is read of a restructured specification, besides its set of units.
Restructured == [criteria : {"nudged"}, deps : SUBSET Unit, scope : SUBSET Unit]

\* Slip: the restructured specification is taken over.
AdoptAll(d) ==
  [spec EXCEPT !.criteria = d.criteria,
     !.unit = [u \in Unit |-> [spec.unit[u] EXCEPT
                 !.deps = u \in d.deps]]]

\* _adopt_deps_only
AdoptDeps(d) ==
  [spec EXCEPT
     !.unit = [u \in Unit |-> [spec.unit[u] EXCEPT
                 !.deps = u \in d.deps]]]

\* _adopt_scope_only: the dependencies as well.
AdoptScope(d) ==
  [spec EXCEPT
     !.unit = [u \in Unit |-> [spec.unit[u] EXCEPT
                 !.deps = u \in d.deps,
                 !.scope = u \in d.scope /\ spec.unit[u].label]]]

CheckDeps ==
  /\ prep = "deps" /\ prep' \in {"nudge_deps", "scope"}
  /\ UNCHANGED <<mode, manifest, code, spec, tries, plan>>

CheckScope ==
  /\ prep = "scope" /\ prep' \in {"nudge_scope", "contract"}
  /\ UNCHANGED <<mode, manifest, code, spec, tries, plan>>

\* Whatever goes wrong, and with other units, the specification stays.
NudgeDeps ==
  /\ prep = "nudge_deps"
  /\ \/ Goto("scope") /\ spec' \in {spec} \cup {AdoptDeps(d) : d \in Restructured}
     \/ Repair
  /\ UNCHANGED <<mode, manifest, code, plan>>

NudgeScope ==
  /\ prep = "nudge_scope"
  /\ \/ Goto("contract") /\ spec' \in {spec} \cup {AdoptScope(d) : d \in Restructured}
     \/ Repair
  /\ UNCHANGED <<mode, manifest, code, plan>>

-----------------------------------------------------------------------------
(* From the specification to the plan *)

\* extract_evidence_contracts
Contract ==
  /\ prep = "contract" /\ prep' = "init"
  /\ \E s \in Purposes(spec) : spec' = WithContract(s)
  /\ UNCHANGED <<mode, manifest, code, tries, plan>>

\* _init_state, _init_resume_state; spec.yaml is saved.
InitState ==
  /\ prep = "init" /\ prep' = "capability"
  /\ plan' = IF mode = "resume" THEN manifest ELSE {}
  /\ UNCHANGED <<mode, manifest, code, spec, tries>>

\* governed_capability_preflight
Preflight ==
  /\ prep = "capability" /\ prep' \in {"reuse", "escalated"}
  /\ UNCHANGED <<mode, manifest, code, spec, tries, plan>>

\* Slip: the label is taken at its word.
TrustLabel ==
  /\ prep = "reuse" /\ prep' = "loop"
  /\ \E reuse \in BOOLEAN :
       plan' = IF mode = "incremental" /\ reuse
               THEN {u \in manifest : spec.unit[u].label}
               ELSE plan
  /\ UNCHANGED <<mode, manifest, code, spec, tries>>

\* evaluate_reuse: the label, and the bar of the specification as it is now
\* against the parent's; not with --no-reuse.
Reuse ==
  /\ prep = "reuse" /\ prep' = "loop"
  /\ \E reuse \in BOOLEAN :
       plan' = IF mode = "incremental" /\ reuse
               THEN {u \in manifest : LET s == spec.unit[u]
                                      IN s.label /\ s.crit /\ s.scope}
               ELSE plan
  /\ UNCHANGED <<mode, manifest, code, spec, tries>>

\* KeyboardInterrupt
Interrupt ==
  /\ prep \notin Final \cup {"load"}
  /\ Goto("stopped")
  /\ UNCHANGED <<mode, manifest, code, spec, plan>>

PreparationNext ==
  \/ Fresh \/ Refuse \/ Resume \/ Continue
  \/ Synthesize \/ Critique \/ Resynthesize
  \/ CheckDeps \/ NudgeDeps \/ CheckScope \/ NudgeScope
  \/ Contract \/ InitState \/ Preflight \/ Reuse
  \/ Interrupt

PreparationSpec == PreparationInit /\ [][PreparationNext]_prepVars

-----------------------------------------------------------------------------
(* Properties *)

\* Once the critic has had its say the criteria do not change: a nudge that
\* rewrites them changes dependencies and scopes alone ("anti-erosion"), and a
\* resumed run goes by its parent's.
BarIsSettled ==
  [][prep \notin {"load", "synthesize", "resynthesize"} => spec'.criteria = spec.criteria]_prepVars

\* A unit that the loop will not build is one the parent verified, against the
\* criteria and the scope the unit has in the end, after both nudges.
ReuseOnlyVerified ==
  prep = "loop" =>
    \A u \in plan :
      /\ u \in manifest
      /\ mode # "fresh"
      /\ mode = "incremental" => spec.unit[u].crit /\ spec.unit[u].scope

\* Fields the run criteria require are somebody's to emit if there is anybody
\* who could, and a foundation's only if there is nobody else, given the
\* dependencies the unit has in the end.
ContractIsCarried ==
  prep = "loop" /\ spec.fields /\ mode # "resume" =>
    /\ Candidates(spec) # {} => spec.contract # {}
    /\ \A u \in spec.contract :
         u \in Foundations(spec) => Candidates(spec) \subseteq Foundations(spec)

\* "코드가 시딩된 main에 존재" (build_reuse_manifest): a unit seeded as done has
\* its code in the work directory.
SeededDoneHasItsCode == prep = "loop" => plan \subseteq code
=============================================================================
