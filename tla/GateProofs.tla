------------------------------ MODULE GateProofs ------------------------------
(***************************************************************************)
(* Proofs about Gate, for any number of calls and of manifests.            *)
(*                                                                         *)
(* The verdict is judged when it is given (Rest) and does not change until *)
(* it is handed over; before that, no verdict is out (VerdictIsLast).  The *)
(* installation is a matter of the hash sidecar alone: the manifest it     *)
(* names is never one whose last installation failed (SidecarIsGood), and  *)
(* what was skipped is what it names (CachedIsCurrent).                    *)
(***************************************************************************)
EXTENDS Gate, TLAPS

VerdictIsLast == verdict = "pass" => gate \in {"returned", "shadow"}

IdleIsClean == gate = "idle" => install = "none"

SidecarIsGood == deps.sidecar \notin failed

CachedIsCurrent == install = "cached" => deps.sidecar = Digest

GateInv ==
  /\ GateTypeOK
  /\ VerdictIsLast /\ IdleIsClean
  /\ NoFakePass /\ HollowHarnessIsCaught

InstallInv ==
  /\ GateTypeOK
  /\ IdleIsClean
  /\ SidecarIsGood /\ CachedIsCurrent

-----------------------------------------------------------------------------

\* The verdict is one of three, and a pass only without a bad report.
LEMMA AggregateIsStrict ==
  ASSUME NEW reports
  PROVE  /\ Aggregate(reports) \in {"pass", "fail_recoverable", "ambiguous"}
         /\ Aggregate(reports) = "pass" => "fail" \notin reports /\ "skipped" \notin reports
  BY DEF Aggregate

\* Installing changes nothing but the lock and the hash beside the manifest,
\* which stay in their type.
LEMMA EnsureDepsTypes ==
  ASSUME GateTypeOK, NEW i \in Installed, EnsureDeps(i)
  PROVE  /\ deps' \in [manifest : 0 .. Manifests, lock : BOOLEAN,
               sidecar : {<<0, FALSE>>} \cup (1 .. Manifests) \X BOOLEAN]
         /\ failed' \subseteq (1 .. Manifests) \X BOOLEAN
  <1> USE GateAssumption
  <1>1. deps.manifest # 0 => Digest \in (1 .. Manifests) \X BOOLEAN
    BY DEF GateTypeOK, Digest
  <1>2. CASE deps.manifest # 0 /\ i \in {"ok", "failed"}
    BY <1>1, <1>2 DEF GateTypeOK, EnsureDeps
  <1>3. CASE ~(deps.manifest # 0 /\ i \in {"ok", "failed"})
    BY <1>3 DEF GateTypeOK, EnsureDeps
  <1> QED BY <1>2, <1>3

\* Every step keeps the types, whatever is installed, said or observed.
LEMMA GateTypeStep == GateTypeOK /\ [GateNext]_gateVars => GateTypeOK'
  <1> SUFFICES ASSUME GateTypeOK, [GateNext]_gateVars PROVE GateTypeOK'
    OBVIOUS
  <1> USE GateAssumption
  <1>1. CASE Call
    <2>1. arg' \in Args
      BY <1>1 DEF Call, Calls
    <2>2. deps' \in [manifest : 0 .. Manifests, lock : BOOLEAN,
               sidecar : {<<0, FALSE>>} \cup (1 .. Manifests) \X BOOLEAN]
      BY <1>1 DEF GateTypeOK, Call
    <2>3. gates' \in 0 .. MaxCalls
      BY <1>1 DEF GateTypeOK, Call
    <2>4. /\ gate' \in {"returned", "install"} /\ verdict' \in {"pass", "none"}
          /\ UNCHANGED <<failed, sink, install, raw, smoke>>
      BY <1>1 DEF Call
    <2> QED BY <2>1, <2>2, <2>3, <2>4 DEF GateTypeOK
  <1>2. CASE Install
    <2>1. PICK i \in Installed : EnsureDeps(i) /\ install' = i
      BY <1>2 DEF Install
    <2> QED BY <1>2, <2>1, EnsureDepsTypes DEF Install, GateTypeOK
  <1>3. CASE Run
    <2>1. /\ UNCHANGED <<arg, deps, failed, install, smoke, sink, gates>>
          /\ gate' \in {"judge", "returned"} /\ verdict' \in {verdict, "raised"}
      BY <1>3 DEF Run, JudgeRaises
    <2>2. \/ raw' = raw
          \/ \E t \in Trace, s \in Said : raw' = [raw EXCEPT !.trace = t, !.run = s]
          \/ \E t \in Trace : raw' = [raw EXCEPT !.trace = t]
      BY <1>3 DEF Run, JudgeRaises
    <2>3. raw' \in [trace : Trace, run : Said, judge : Said, machine : Ended]
      BY <2>2 DEF GateTypeOK
    <2> QED BY <2>1, <2>3 DEF GateTypeOK
  <1>4. CASE Judge
    BY <1>4 DEF GateTypeOK, Judge, JudgeRaises, Said
  <1>5. CASE Rest
    BY <1>5 DEF GateTypeOK, Rest, Aggregate, Trace, Ended
  <1>6. CASE Shadow
    <2>1. PICK i \in Installed : EnsureDeps(i)
      BY <1>6 DEF Shadow
    <2> QED BY <1>6, <2>1, EnsureDepsTypes DEF Shadow, GateTypeOK, Compared
  <1>7. CASE HandOver
    BY <1>7 DEF GateTypeOK, HandOver, NoArgs, Args, Kind, Unseen, Trace, Said, Ended, Installed
  <1>8. CASE UNCHANGED gateVars
    BY <1>8 DEF GateTypeOK, gateVars
  <1> QED BY <1>1, <1>2, <1>3, <1>4, <1>5, <1>6, <1>7, <1>8 DEF GateNext

\* The initial state has the types.
LEMMA GateTypeInit == GateInit => GateTypeOK
  BY GateAssumption DEF GateInit, GateTypeOK, NoArgs, Args, Kind, Unseen, Trace, Said,
     Ended, Installed

\* Of the verdict of Rest: a pass has every selected criterion, the harness and
\* the contract behind it.
LEMMA RestIsStrict ==
  ASSUME GateTypeOK, Rest PROVE (NoFakePass /\ HollowHarnessIsCaught)'
  <1>1. PICK end \in IF "machine" \in Selected THEN Ended \ {"unrun"} ELSE {"unrun"},
             t \in IF Exercised THEN Trace \ {"unrun"} ELSE {"unrun"} :
          /\ raw' = [raw EXCEPT !.machine = end]
          /\ smoke' = t
          /\ verdict' = Aggregate({Status(k, end) : k \in Selected}
                               \cup ContractReport \cup HarnessReport(t)
                               \cup InstallReport)
    BY DEF Rest
  <1>2. arg' = arg /\ install' = install
    BY DEF Rest
  <1>3. /\ raw'.machine = end /\ raw'.trace = raw.trace
        /\ raw'.run = raw.run /\ raw'.judge = raw.judge
    BY <1>1 DEF GateTypeOK
  <1>4. Selected' = Selected /\ (Exercised' <=> Exercised)
    BY <1>2 DEF Selected, Exercised, IsHarness
  <1> SUFFICES ASSUME verdict' = "pass" PROVE (NoFakePass /\ HollowHarnessIsCaught)'
    BY DEF NoFakePass, HollowHarnessIsCaught
  <1> DEFINE bad == {"fail", "skipped"}
  <1>5. /\ \A k \in Selected : Status(k, end) \notin bad
        /\ \A s \in ContractReport \cup HarnessReport(t) \cup InstallReport : s \notin bad
    BY <1>1, AggregateIsStrict
  <1>6. install' # "failed"
    BY <1>2, <1>5 DEF InstallReport
  <1>7. "machine" \in Selected => raw'.machine = "ok"
    BY <1>3, <1>5 DEF Status, CheckStatus, Ended
  <1>8. "judge" \in Selected => arg.client /\ raw'.judge = "pass"
    BY <1>3, <1>5 DEF Status, Judged
  <1>9. "run" \in Selected => IF arg.client THEN raw'.run = "pass" ELSE Booted(raw'.trace)
    BY <1>3, <1>5 DEF Status, RunStatus, Judged
  <1>10. NoFakePass'
    BY <1>2, <1>4, <1>6, <1>7, <1>8, <1>9 DEF NoFakePass, Selected, Kind
  <1>11. Exercised => t \in {"some", "all"}
    BY <1>5 DEF HarnessReport
  <1>12. ~arg.unit /\ arg.contract => raw.trace = "unrun" \/ Printed(raw.trace)
    BY <1>5 DEF ContractReport, IsHarness
  <1> QED BY <1>1, <1>2, <1>3, <1>4, <1>10, <1>11, <1>12 DEF HollowHarnessIsCaught

\* Every step keeps the invariant about verdicts.
LEMMA GateStep == GateInv /\ [GateNext]_gateVars => GateInv'
  <1> SUFFICES ASSUME GateInv, [GateNext]_gateVars PROVE GateInv'
    OBVIOUS
  <1>0. GateTypeOK /\ GateTypeOK'
    BY GateTypeStep DEF GateInv
  <1> DEFINE Rests == VerdictIsLast' /\ IdleIsClean' /\ NoFakePass' /\ HollowHarnessIsCaught'
  <1>1. CASE Call
    <2>1. install' = "none"
      BY <1>1 DEF Call, GateInv, IdleIsClean
    <2>2. VerdictIsLast' /\ IdleIsClean'
      BY <1>1, <2>1 DEF Call, VerdictIsLast, IdleIsClean
    <2>3. CASE verdict' = "pass"
      <3>1. arg'.unit /\ Selected' = {} /\ ~IsHarness'
        BY <1>1, <2>3 DEF Call
      <3>2. NoFakePass'
        BY <2>1, <3>1 DEF NoFakePass
      <3>3. HollowHarnessIsCaught'
        BY <3>1 DEF HollowHarnessIsCaught, Exercised
      <3> QED BY <2>2, <3>2, <3>3, <1>0 DEF GateInv
    <2>4. CASE verdict' # "pass"
      BY <2>2, <2>4, <1>0 DEF GateInv, NoFakePass, HollowHarnessIsCaught
    <2> QED BY <2>3, <2>4
  <1>2. CASE Install
    <2>1. verdict' # "pass" /\ gate' = "run"
      BY <1>2 DEF Install, GateInv, VerdictIsLast
    <2> QED BY <2>1, <1>0 DEF GateInv, NoFakePass, HollowHarnessIsCaught, VerdictIsLast, IdleIsClean
  <1>3. CASE Run
    <2>1. verdict' # "pass" /\ gate' # "idle"
      BY <1>3 DEF Run, JudgeRaises, GateInv, VerdictIsLast
    <2> QED BY <2>1, <1>0 DEF GateInv, NoFakePass, HollowHarnessIsCaught, VerdictIsLast, IdleIsClean
  <1>4. CASE Judge
    <2>1. verdict' # "pass" /\ gate' # "idle"
      BY <1>4 DEF Judge, JudgeRaises, GateInv, VerdictIsLast
    <2> QED BY <2>1, <1>0 DEF GateInv, NoFakePass, HollowHarnessIsCaught, VerdictIsLast, IdleIsClean
  <1>5. CASE Rest
    <2>1. gate' \in {"shadow", "returned"}
      BY <1>5 DEF Rest
    <2> QED BY <2>1, <1>0, <1>5, RestIsStrict DEF GateInv, VerdictIsLast, IdleIsClean
  <1>6. CASE Shadow
    <2>1. /\ UNCHANGED <<arg, install, raw, smoke, verdict>>
          /\ gate' = "returned"
      BY <1>6 DEF Shadow
    <2> QED BY <2>1, <1>0 DEF GateInv, VerdictIsLast, IdleIsClean, NoFakePass,
              HollowHarnessIsCaught, Selected, Exercised, IsHarness
  <1>7. CASE HandOver
    <2>1. verdict' = "none" /\ install' = "none"
      BY <1>7 DEF HandOver
    <2> QED BY <2>1, <1>0 DEF GateInv, NoFakePass, HollowHarnessIsCaught, VerdictIsLast, IdleIsClean
  <1>8. CASE UNCHANGED gateVars
    BY <1>8, <1>0 DEF GateInv, gateVars, VerdictIsLast, IdleIsClean, NoFakePass,
       HollowHarnessIsCaught, Selected, Exercised, IsHarness
  <1> QED BY <1>1, <1>2, <1>3, <1>4, <1>5, <1>6, <1>7, <1>8 DEF GateNext

\* An installation leaves a sidecar that names no failed manifest, and does
\* nothing where it names the current one.
LEMMA EnsureDepsIsHonest ==
  ASSUME GateTypeOK, SidecarIsGood, NEW i \in Installed, EnsureDeps(i)
  PROVE  /\ SidecarIsGood'
         /\ i = "cached" => UNCHANGED <<deps, failed>> /\ deps.sidecar = Digest
         /\ deps.sidecar = Digest => UNCHANGED <<deps, failed>>
  <1>1. CASE i = "ok"
    <2>1. deps'.sidecar = Digest
      BY <1>1 DEF EnsureDeps, GateTypeOK
    <2> QED BY <1>1, <2>1 DEF EnsureDeps, SidecarIsGood
  <1>2. CASE i = "failed"
    BY <1>2 DEF EnsureDeps, SidecarIsGood
  <1>3. CASE i \in {"none", "cached"}
    BY <1>3 DEF EnsureDeps, SidecarIsGood
  <1> QED BY <1>1, <1>2, <1>3 DEF Installed

\* Every step keeps the invariant about installations.
LEMMA InstallStep == InstallInv /\ [GateNext]_gateVars => InstallInv'
  <1> SUFFICES ASSUME InstallInv, [GateNext]_gateVars PROVE InstallInv'
    OBVIOUS
  <1>0. GateTypeOK /\ GateTypeOK'
    BY GateTypeStep DEF InstallInv
  <1>1. CASE Call
    <2>1. deps'.sidecar = deps.sidecar /\ failed' = failed /\ install' = "none"
      BY <1>1, <1>0 DEF Call, GateTypeOK, InstallInv, IdleIsClean
    <2> QED BY <2>1, <1>0 DEF InstallInv, IdleIsClean, SidecarIsGood, CachedIsCurrent
  <1>2. CASE Install
    <2>1. PICK i \in Installed : EnsureDeps(i) /\ install' = i
      BY <1>2 DEF Install
    <2>2. SidecarIsGood' /\ (i = "cached" => UNCHANGED <<deps, failed>> /\ deps.sidecar = Digest)
      BY <1>0, <2>1, EnsureDepsIsHonest DEF InstallInv
    <2>3. CachedIsCurrent'
      BY <2>1, <2>2 DEF CachedIsCurrent, Digest
    <2> QED BY <1>0, <1>2, <2>2, <2>3 DEF InstallInv, IdleIsClean, Install
  <1>3. CASE Shadow
    <2>1. PICK i \in Installed : EnsureDeps(i)
      BY <1>3 DEF Shadow
    <2>2. SidecarIsGood' /\ (deps.sidecar = Digest => UNCHANGED <<deps, failed>>)
      BY <1>0, <2>1, EnsureDepsIsHonest DEF InstallInv
    <2>3. CachedIsCurrent'
      BY <1>3, <2>2 DEF CachedIsCurrent, Digest, InstallInv, Shadow
    <2> QED BY <1>0, <1>3, <2>2, <2>3 DEF InstallInv, IdleIsClean, Shadow
  <1>4. CASE Run \/ Judge \/ Rest
    <2>1. UNCHANGED <<deps, failed, install>> /\ gate' # "idle"
      BY <1>4 DEF Run, Judge, Rest, JudgeRaises
    <2> QED BY <1>0, <2>1 DEF InstallInv, IdleIsClean, SidecarIsGood, CachedIsCurrent, Digest
  <1>5. CASE HandOver
    BY <1>0, <1>5 DEF HandOver, InstallInv, IdleIsClean, SidecarIsGood, CachedIsCurrent
  <1>6. CASE UNCHANGED gateVars
    BY <1>0, <1>6 DEF gateVars, InstallInv, IdleIsClean, SidecarIsGood, CachedIsCurrent, Digest
  <1> QED BY <1>1, <1>2, <1>3, <1>4, <1>5, <1>6 DEF GateNext

-----------------------------------------------------------------------------

\* Every state of every run has the declared types, for any number of calls and
\* of manifests.
THEOREM GateTypeCorrect == GateSpec => []GateTypeOK
  BY GateTypeInit, GateTypeStep, PTL DEF GateSpec

\* A pass rests on every selected criterion, in every call of every gate.
THEOREM NoFakePassAlways == GateSpec => []NoFakePass
  <1>1. GateInit => GateInv
    BY GateTypeInit DEF GateInit, GateInv, VerdictIsLast, IdleIsClean, NoFakePass,
       HollowHarnessIsCaught
  <1>2. GateInv => NoFakePass
    BY DEF GateInv
  <1> QED BY <1>1, <1>2, GateStep, PTL DEF GateSpec

\* A harness that was not seen to print evidence does not pass.
THEOREM HollowHarnessIsAlwaysCaught == GateSpec => []HollowHarnessIsCaught
  <1>1. GateInit => GateInv
    BY GateTypeInit DEF GateInit, GateInv, VerdictIsLast, IdleIsClean, NoFakePass,
       HollowHarnessIsCaught
  <1>2. GateInv => HollowHarnessIsCaught
    BY DEF GateInv
  <1> QED BY <1>1, <1>2, GateStep, PTL DEF GateSpec

\* A failed installation is tried again, by whichever gate comes next.
THEOREM FailedInstallIsAlwaysRetried == GateSpec => []FailedInstallIsRetried
  <1>1. GateInit => InstallInv
    BY GateTypeInit DEF GateInit, InstallInv, IdleIsClean, SidecarIsGood, CachedIsCurrent
  <1>2. InstallInv => FailedInstallIsRetried
    BY DEF InstallInv, SidecarIsGood, CachedIsCurrent, FailedInstallIsRetried
  <1> QED BY <1>1, <1>2, InstallStep, PTL DEF GateSpec
=============================================================================
