-------------------------- MODULE PreparationProofs --------------------------
(***************************************************************************)
(* Proofs about what comes before the loop.                                *)
(*                                                                         *)
(* Preparation, for any decomposition, any number of repairs and every     *)
(* parent.                                                                 *)
(*                                                                         *)
(* Nothing is seeded before it is known how the run relates to its parent  *)
(* (SeededLate), what is seeded is in the manifest (SeededIsKnown), and    *)
(* the contract, once drawn, is that of the units as they are then         *)
(* (ContractIsDrawn).                                                      *)
(*                                                                         *)
(* Capabilities, for any number of runs: what is adopted or executed was   *)
(* decided on this run's candidates and on an allowlist that only grows.   *)
(***************************************************************************)
EXTENDS Preparation, Capabilities, TLAPS

SeededIsKnown == plan \subseteq manifest /\ (mode = "fresh" => manifest = {})

SeededLate == /\ prep = "load" => mode = "fresh"
              /\ prep # "loop" /\ mode # "resume" => plan = {}

Planned == {"init", "capability", "reuse", "loop"}

ContractIsDrawn ==
  prep \in Planned => spec.contract = IF spec.fields THEN Harness(spec) ELSE {}

PrepInv ==
  /\ PreparationTypeOK
  /\ SeededIsKnown /\ SeededLate /\ ContractIsDrawn /\ ReuseOnlyVerified

SpecType == [unit : [Unit -> UnitSpec], criteria : Source, fields : BOOLEAN,
          contract : SUBSET Unit]

-----------------------------------------------------------------------------
\* Finding out what the units are for changes neither labels nor criteria, and
\* the contract is drawn from the units it is given.
LEMMA PurposeFacts ==
  ASSUME NEW s \in SpecType, NEW t \in Purposes(s)
  PROVE  /\ WithContract(t) \in SpecType
         /\ WithContract(t).criteria = s.criteria
         /\ WithContract(t).contract =
              IF WithContract(t).fields THEN Harness(WithContract(t)) ELSE {}
  <1>1. t \in SpecType /\ t.criteria = s.criteria
    <2>1. CASE t = s
      BY <2>1
    <2>2. CASE t # s
      <3>1. PICK kind \in [Unit -> {"plain", "harness", "scaffold"}] :
              t = [s EXCEPT !.unit = [u \in Unit |-> [s.unit[u] EXCEPT !.kind = kind[u]]],
                            !.fields = TRUE]
        BY <2>2 DEF Purposes
      <3>2. \A u \in Unit : [s.unit[u] EXCEPT !.kind = kind[u]] \in UnitSpec
        BY <3>1 DEF SpecType, UnitSpec
      <3> QED BY <3>1, <3>2 DEF SpecType
    <2> QED BY <2>1, <2>2
  <1>2. Harness(t) \subseteq Unit
    BY DEF Harness, Candidates
  <1>3. /\ WithContract(t).unit = t.unit /\ WithContract(t).criteria = t.criteria
        /\ WithContract(t).fields = t.fields
        /\ WithContract(t).contract = IF t.fields THEN Harness(t) ELSE {}
        /\ WithContract(t) \in SpecType
    BY <1>1, <1>2 DEF WithContract, SpecType
  <1>4. Harness(WithContract(t)) = Harness(t)
    BY <1>3 DEF Harness, Candidates, Foundations
  <1> QED BY <1>1, <1>3, <1>4

\* What a nudge adopts is a specification with the criteria it had.
LEMMA NudgeFacts ==
  ASSUME NEW d \in Restructured, spec \in SpecType
  PROVE  /\ AdoptDeps(d) \in SpecType /\ AdoptDeps(d).criteria = spec.criteria
         /\ AdoptScope(d) \in SpecType /\ AdoptScope(d).criteria = spec.criteria
  <1>0. /\ \A s \in UnitSpec, b \in BOOLEAN : [s EXCEPT !.deps = b] \in UnitSpec
        /\ \A s \in UnitSpec, b, c \in BOOLEAN :
             (c => s.label) => [s EXCEPT !.deps = b, !.scope = c] \in UnitSpec
    BY DEF UnitSpec
  <1>1. ASSUME NEW u \in Unit PROVE [spec.unit[u] EXCEPT !.deps = u \in d.deps] \in UnitSpec
    <2>1. spec.unit[u] \in UnitSpec /\ (u \in d.deps) \in BOOLEAN
      BY DEF SpecType
    <2> QED BY <2>1, <1>0, Zenon
  <1>2. ASSUME NEW u \in Unit
        PROVE  [spec.unit[u] EXCEPT !.deps = u \in d.deps,
                  !.scope = u \in d.scope /\ spec.unit[u].label] \in UnitSpec
    <2>1. spec.unit[u] \in UnitSpec /\ (u \in d.deps) \in BOOLEAN
          /\ (u \in d.scope /\ spec.unit[u].label) \in BOOLEAN
          /\ (u \in d.scope /\ spec.unit[u].label => spec.unit[u].label)
      BY DEF SpecType
    <2> QED BY <2>1, <1>0, Zenon
  <1> QED BY <1>1, <1>2 DEF AdoptDeps, AdoptScope, SpecType

\* A draft is a specification.
LEMMA DraftFacts ==
  ASSUME NEW from \in Source, Draft(from) PROVE spec' \in SpecType
  BY DEF Draft, Drafted, Unlabelled, NoSpec, SpecType

\* The specification there is before there is one.
LEMMA NoSpecFacts == NoSpec \in SpecType
  BY DEF NoSpec, NoUnit, SpecType, UnitSpec, Source

\* A step that asks for a repair, or raises, leaves the specification alone.
LEMMA AskFacts ==
  ASSUME PreparationTypeOK
  PROVE  /\ Repair => tries' \in 0 .. SynthRetries /\ UNCHANGED <<prep, spec>>
         /\ Raised => /\ prep' \in {"stopped_credit", "escalated", "crashed"}
                      /\ tries' = 0 /\ UNCHANGED spec
  BY PreparationAssumption DEF PreparationTypeOK, Repair, Raised, Goto

\* Loading a parent or none.
LEMMA LoadStep ==
  ASSUME PrepInv, Fresh \/ Refuse \/ Resume \/ Continue PROVE PrepInv'
  <1>0. PreparationTypeOK /\ prep = "load" /\ mode = "fresh" /\ plan = {}
    BY DEF PrepInv, SeededLate, Fresh, Refuse, Resume, Continue
  <1>1. CASE Fresh \/ Refuse
    BY <1>0, <1>1 DEF Fresh, Refuse, PrepInv, PreparationTypeOK, SeededIsKnown, SeededLate,
       ContractIsDrawn, ReuseOnlyVerified, Planned, Final
  <1>2. CASE Resume
    <2>1. PICK p \in Parent : p.spec /\ code' = Seeded(p) /\ manifest' = Verified(p)
      BY <1>2 DEF Resume
    <2>2. PICK s \in Purposes(NoSpec) : spec' = WithContract(s)
      BY <1>2 DEF Resume
    <2>3. code' \subseteq Unit /\ manifest' \subseteq Unit
      BY <2>1 DEF Parent, Seeded, Verified
    <2>4. spec' \in SpecType /\ ContractIsDrawn'
      BY <2>2, NoSpecFacts, PurposeFacts DEF ContractIsDrawn
    <2> QED BY <1>0, <1>2, <2>3, <2>4 DEF Resume, PrepInv, PreparationTypeOK, SpecType,
               SeededIsKnown, SeededLate, ReuseOnlyVerified
  <1>3. CASE Continue
    <2>1. PICK p \in Parent : code' = Seeded(p) /\ manifest' = Verified(p)
      BY <1>3 DEF Continue
    <2>2. code' \subseteq Unit /\ manifest' \subseteq Unit
      BY <2>1 DEF Parent, Seeded, Verified
    <2> QED BY <1>0, <1>3, <2>2 DEF Continue, PrepInv, PreparationTypeOK,
               SeededIsKnown, SeededLate, ContractIsDrawn, ReuseOnlyVerified, Planned
  <1> QED BY <1>1, <1>2, <1>3

\* Synthesis, the critic and the nudges.
LEMMA ThinkStep ==
  ASSUME PrepInv,
         Synthesize \/ Critique \/ Resynthesize \/ CheckDeps \/ NudgeDeps \/ CheckScope
           \/ NudgeScope
  PROVE  PrepInv'
  <1>0. /\ PreparationTypeOK /\ spec \in SpecType /\ 0 \in 0 .. SynthRetries
        /\ (mode # "resume" => plan = {}) /\ prep # "loop" /\ UNCHANGED <<mode, manifest, code, plan>>
    BY PreparationAssumption DEF PrepInv, SeededLate, SpecType, PreparationTypeOK, Synthesize,
       Critique, Resynthesize, CheckDeps, NudgeDeps, CheckScope, NudgeScope
  <1>1. /\ spec' \in SpecType /\ tries' \in 0 .. SynthRetries
        /\ prep' \in {"synthesize", "critique", "escalated", "stopped_credit", "crashed",
                     "deps", "resynthesize", "nudge_deps", "scope", "nudge_scope", "contract"}
    <2>1. CASE Synthesize
      BY <1>0, <2>1, DraftFacts, AskFacts DEF Synthesize, Goto, Source
    <2>2. CASE Resynthesize
      BY <1>0, <2>2, DraftFacts, AskFacts DEF Resynthesize, Goto, Source
    <2>3. CASE Critique \/ CheckDeps \/ CheckScope
      BY <1>0, <2>3 DEF Critique, CheckDeps, CheckScope, PreparationTypeOK
    <2>4. CASE NudgeDeps
      BY <1>0, <2>4, NudgeFacts, AskFacts DEF NudgeDeps, Goto
    <2>5. CASE NudgeScope
      BY <1>0, <2>5, NudgeFacts, AskFacts DEF NudgeScope, Goto
    <2> QED BY <2>1, <2>2, <2>3, <2>4, <2>5
  <1>2. PreparationTypeOK'
    BY <1>0, <1>1 DEF PreparationTypeOK, SpecType, Final
  <1>3. SeededIsKnown' /\ SeededLate' /\ ContractIsDrawn' /\ ReuseOnlyVerified'
    BY <1>0, <1>1 DEF PrepInv, SeededIsKnown, SeededLate, ContractIsDrawn, ReuseOnlyVerified, Planned
  <1> QED BY <1>2, <1>3 DEF PrepInv

\* The contract, the state, the capability pre-flight and the reuse.
LEMMA PlanStep ==
  ASSUME PrepInv, Contract \/ InitState \/ Preflight \/ Reuse \/ Interrupt
  PROVE  PrepInv'
  <1>0. PreparationTypeOK /\ spec \in SpecType
    BY DEF PrepInv, SpecType, PreparationTypeOK
  <1>1. CASE Contract
    <2>1. PICK s \in Purposes(spec) : spec' = WithContract(s)
      BY <1>1 DEF Contract
    <2>2. spec' \in SpecType /\ ContractIsDrawn'
      BY <1>0, <2>1, PurposeFacts DEF ContractIsDrawn
    <2> QED BY <1>0, <1>1, <2>2 DEF Contract, PrepInv, PreparationTypeOK, SpecType, SeededIsKnown,
               SeededLate, ReuseOnlyVerified
  <1>2. CASE InitState \/ Preflight
    BY <1>0, <1>2 DEF InitState, Preflight, PrepInv, PreparationTypeOK, SeededIsKnown,
       SeededLate, ContractIsDrawn, ReuseOnlyVerified, Planned, Final, Harness, Candidates,
       Foundations
  <1>3. CASE Reuse
    <2>1. PICK reuse \in BOOLEAN :
            plan' = IF mode = "incremental" /\ reuse
                    THEN {u \in manifest : LET s == spec.unit[u]
                                           IN s.label /\ s.crit /\ s.scope}
                    ELSE plan
      BY <1>3 DEF Reuse
    <2>2. UNCHANGED <<mode, manifest, code, spec, tries>> /\ prep = "reuse" /\ prep' = "loop"
      BY <1>3 DEF Reuse
    <2>3. plan' \subseteq manifest
      BY <2>1 DEF PrepInv, SeededIsKnown
    <2>4. ContractIsDrawn'
      BY <2>2 DEF PrepInv, ContractIsDrawn, Planned, Harness, Candidates, Foundations
    <2>5. ReuseOnlyVerified'
      BY <2>1, <2>2, <2>3 DEF PrepInv, SeededIsKnown, SeededLate, ReuseOnlyVerified
    <2> QED BY <1>0, <2>2, <2>3, <2>4, <2>5 DEF PrepInv, PreparationTypeOK, SeededIsKnown,
               SeededLate, Final
  <1>4. CASE Interrupt
    BY <1>0, <1>4, PreparationAssumption DEF Interrupt, Goto, PrepInv, PreparationTypeOK,
       SeededIsKnown, SeededLate, ContractIsDrawn, ReuseOnlyVerified, Planned, Final
  <1> QED BY <1>1, <1>2, <1>3, <1>4

\* The invariant holds at first and is kept by every step.
LEMMA PrepInvHolds ==
  /\ PreparationInit => PrepInv
  /\ PrepInv /\ [PreparationNext]_prepVars => PrepInv'
  <1>1. PreparationInit => PrepInv
    BY NoSpecFacts, PreparationAssumption DEF PreparationInit, PrepInv, PreparationTypeOK, SpecType,
       SeededIsKnown, SeededLate, ContractIsDrawn, ReuseOnlyVerified, Planned, Final
  <1>2. PrepInv /\ UNCHANGED prepVars => PrepInv'
    BY DEF prepVars, PrepInv, PreparationTypeOK, SeededIsKnown, SeededLate, ContractIsDrawn,
       ReuseOnlyVerified, Planned, Harness, Candidates, Foundations
  <1> QED BY <1>1, <1>2, LoadStep, ThinkStep, PlanStep DEF PreparationNext

-----------------------------------------------------------------------------

\* However often it is drafted, repaired and nudged, the specification is one,
\* no phase retries more often than it may, and the preparation ends in one of
\* the statuses run_loop returns.
THEOREM PreparationTypesHold == PreparationSpec => []PreparationTypeOK
  <1>1. PrepInv => PreparationTypeOK
    BY DEF PrepInv
  <1> QED BY <1>1, PrepInvHolds, PTL DEF PreparationSpec

\* What is seeded as done is in the parent's manifest and, after a synthesis, has
\* the parent's criteria and scope in the final specification.
THEOREM ReuseIsAlwaysVerified == PreparationSpec => []ReuseOnlyVerified
  <1>1. PrepInv => ReuseOnlyVerified
    BY DEF PrepInv
  <1> QED BY <1>1, PrepInvHolds, PTL DEF PreparationSpec

\* Evidence that somebody could emit is somebody's to emit, a foundation's last.
THEOREM ContractIsAlwaysCarried == PreparationSpec => []ContractIsCarried
  <1>1. ASSUME PrepInv, prep = "loop", spec.fields
        PROVE  /\ Candidates(spec) # {} => spec.contract # {}
               /\ \A u \in spec.contract :
                    u \in Foundations(spec) => Candidates(spec) \subseteq Foundations(spec)
    <2>1. spec.contract = Harness(spec)
      BY <1>1 DEF PrepInv, ContractIsDrawn, Planned
    <2> QED BY <2>1 DEF Harness
  <1>2. PrepInv => ContractIsCarried
    BY <1>1 DEF ContractIsCarried
  <1> QED BY <1>2, PrepInvHolds, PTL DEF PreparationSpec

\* No step after the critic's, of whatever nudge, changes the criteria.
THEOREM BarStaysSettled == PreparationSpec => BarIsSettled
  <1>1. ASSUME PrepInv, [PreparationNext]_prepVars,
               prep \notin {"load", "synthesize", "resynthesize"}
        PROVE  spec'.criteria = spec.criteria
    <2>1. spec \in SpecType /\ PreparationTypeOK
      BY <1>1 DEF PrepInv, PreparationTypeOK, SpecType
    <2>2. CASE NudgeDeps \/ NudgeScope
      BY <2>1, <2>2, NudgeFacts, AskFacts DEF NudgeDeps, NudgeScope
    <2>3. CASE Contract
      <3>1. PICK s \in Purposes(spec) : spec' = WithContract(s)
        BY <2>3 DEF Contract
      <3> QED BY <2>1, <3>1, PurposeFacts
    <2>4. CASE Critique \/ CheckDeps \/ CheckScope \/ InitState \/ Preflight \/ Reuse
               \/ Interrupt \/ UNCHANGED prepVars
      BY <2>4 DEF Critique, CheckDeps, CheckScope, InitState, Preflight, Reuse, Interrupt, prepVars
    <2> QED BY <1>1, <2>2, <2>3, <2>4 DEF PreparationNext, Fresh, Refuse, Resume, Continue,
               Synthesize, Resynthesize
  <1> QED BY <1>1, PrepInvHolds, PTL DEF PreparationSpec, BarIsSettled

-----------------------------------------------------------------------------
(* The capability pre-flight *)

CapabilitiesInv ==
  /\ allowlist \subseteq Candidate \cup {"capability"}
  /\ found \in [Requests -> SUBSET Candidate]
  /\ NothingUnapproved

\* A candidate is approved exactly when it, or its capability, is listed.
LEMMA ApprovedIsListed ==
  ASSUME CapabilitiesInv, NEW c \in Candidate
  PROVE  c \in Approved <=> {c, "capability"} \cap allowlist # {}
  BY DEF Approved, Candidate, CapabilitiesInv

\* No step adopts, executes or goes on without approval, and none approves
\* but the human's.
LEMMA CapabilitiesStep ==
  CapabilitiesInv /\ [CapabilitiesNext]_capabilityVars => CapabilitiesInv'
  <1> SUFFICES ASSUME CapabilitiesInv, [CapabilitiesNext]_capabilityVars
               PROVE  CapabilitiesInv'
    OBVIOUS
  <1>1. CASE Approve
    BY <1>1 DEF Approve, CapabilitiesInv, NothingUnapproved
  <1>2. CASE Discover
    BY <1>2 DEF Discover, CapabilitiesInv, NothingUnapproved
  <1>3. CASE Decide
    <2>1. /\ UNCHANGED <<allowlist, found>>
          /\ found \in [Requests -> SUBSET Candidate]
      BY <1>3 DEF Decide, CapabilitiesInv
    <2>2. executed' \subseteq {"curated"}
      BY <1>3, <2>1 DEF Decide, Poc, Candidate
    <2>3. \A c \in provenance' : c \in Candidate /\ c \in Approved
      BY <1>3, <2>1 DEF Decide, Resolved
    <2>4. run' = "loop" => \A r \in Requests : \E c \in found[r] : c \in Candidate /\ c \in Approved
      BY <1>3, <2>1 DEF Decide, Resolved
    <2> QED BY <2>1, <2>2, <2>3, <2>4, ApprovedIsListed DEF CapabilitiesInv, NothingUnapproved
  <1>4. CASE UNCHANGED capabilityVars
    BY <1>4 DEF capabilityVars, CapabilitiesInv, NothingUnapproved
  <1> QED BY <1>1, <1>2, <1>3, <1>4 DEF CapabilitiesNext

\* Nothing is adopted that a human has not listed and no remote candidate is
\* executed, over however many runs of the order.
THEOREM NothingIsEverUnapproved == CapabilitiesSpec => []NothingUnapproved
  <1>1. CapabilitiesInit => CapabilitiesInv
    BY DEF CapabilitiesInit, CapabilitiesInv, NothingUnapproved
  <1>2. CapabilitiesInv => NothingUnapproved
    BY DEF CapabilitiesInv
  <1> QED BY <1>1, <1>2, CapabilitiesStep, PTL DEF CapabilitiesSpec
=============================================================================
