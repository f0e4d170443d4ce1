---------------------------- MODULE PipelineProofs ----------------------------
(***************************************************************************)
(* Proofs about Pipeline: each part behaves, inside the whole, as its own  *)
(* module says, so that what is proved of the parts is true of the whole.  *)
(***************************************************************************)
EXTENDS Pipeline, PreparationProofs, ProviderProofs, GateProofs

\* At first every part is as it is before it is run by itself.
LEMMA PartsStart ==
  Init => /\ PreparationInit /\ CapabilitiesInit
          /\ CodexInit /\ LocalInit /\ GateInit
BY DEF Init

\* A step of one part leaves the others alone.
LEMMA OnePartMoves ==
  [Next]_vars => /\ [PreparationNext]_prepVars
                 /\ [CapabilitiesNext]_capabilityVars
                 /\ [CodexNext]_codexVars
                 /\ [LocalNext]_localVars
                 /\ [GateNext]_gateVars
BY DEF Next, vars, partVars

(***************************************************************************)
(* What run_loop calls are behaviours of the modules of the parts: the     *)
(* preparation, the pre-flight, a call of codex, a unit of the local       *)
(* builder and a gate share no state but what each takes as it finds it.   *)
(* Of the call of codex its safety part: only a call that is under way     *)
(* must go on.                                                             *)
(***************************************************************************)
THEOREM PartsAreAsSpecified ==
  Spec => /\ PreparationSpec /\ CapabilitiesSpec
          /\ CodexSafety /\ LocalSpec /\ GateSpec
BY PartsStart, OnePartMoves, PTL
   DEF Spec, PreparationSpec, CapabilitiesSpec, CodexSafety, LocalSpec, GateSpec

(***************************************************************************)
(* Nothing is reused or adopted that was not verified or approved, a call  *)
(* of codex answers with its own message, the local builder bills what it  *)
(* spent, and a gate passes on evidence alone; the criteria do not move    *)
(* after the critic. True of the whole as well.                            *)
(***************************************************************************)
THEOREM PipelineIsSafe ==
  Spec => /\ [](PreparationTypeOK /\ ReuseOnlyVerified /\ ContractIsCarried)
          /\ BarIsSettled
          /\ []NothingUnapproved
          /\ [](CodexTypeOK /\ AnswerIsOfItsAttempt /\ OneCodexAtATime)
          /\ [](LocalTypeOK /\ ReportedSpend /\ GreenIsGreenAtTheGate)
          /\ [](GateTypeOK /\ NoFakePass /\ HollowHarnessIsCaught
               /\ FailedInstallIsRetried)
<1>1. PreparationSpec => [](PreparationTypeOK /\ ReuseOnlyVerified /\ ContractIsCarried)
  BY PreparationTypesHold, ReuseIsAlwaysVerified, ContractIsAlwaysCarried, PTL
<1>2. LocalSpec => [](LocalTypeOK /\ ReportedSpend /\ GreenIsGreenAtTheGate)
  BY LocalTypesHold, SpendIsAlwaysReported, GreenIsAlwaysGreenAtTheGate, PTL
<1>3. GateSpec => [](GateTypeOK /\ NoFakePass /\ HollowHarnessIsCaught
                   /\ FailedInstallIsRetried)
  BY GateTypeCorrect, NoFakePassAlways, HollowHarnessIsAlwaysCaught,
     FailedInstallIsAlwaysRetried, PTL
<1>. QED
  BY <1>1, <1>2, <1>3, CodexIsSafe, BarStaysSettled, NothingIsEverUnapproved,
     PartsAreAsSpecified, PTL
=============================================================================
