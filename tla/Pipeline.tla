------------------------------- MODULE Pipeline -------------------------------
(***************************************************************************)
(* What the director loop calls and takes as one step: the preparation of  *)
(* a run, the capability pre-flight, a call of codex, a unit built by the  *)
(* local builder, and a gate.  Modules SeqLoop and ParLoop abstract from   *)
(* them.  They share no state but the work directory, which each of these  *)
(* modules takes as it finds it, so that one of them at a time is run.     *)
(***************************************************************************)
EXTENDS Preparation, Capabilities, CodexCall, LocalAgent, Gate

VARIABLE part \* the part that is run

partVars == <<prepVars, capabilityVars, codexVars, localVars, gateVars>>
vars     == <<part, partVars>>

Init ==
  /\ part \in {"preparation", "capabilities", "codex", "local", "gate"}
  /\ PreparationInit /\ CapabilitiesInit /\ CodexInit /\ LocalInit /\ GateInit
  /\ part # "codex" => call = [role |-> "client", streams |-> FALSE,
                                limited |-> FALSE]
  /\ part # "local" => order = [cmd |-> "", form |-> "same", harness |-> FALSE,
                                installed |-> FALSE, checks |-> {}]

Next ==
  \/ /\ part = "preparation" /\ PreparationNext
     /\ UNCHANGED <<part, capabilityVars, codexVars, localVars, gateVars>>
  \/ /\ part = "capabilities" /\ CapabilitiesNext
     /\ UNCHANGED <<part, prepVars, codexVars, localVars, gateVars>>
  \/ /\ part = "codex" /\ CodexNext
     /\ UNCHANGED <<part, prepVars, capabilityVars, localVars, gateVars>>
  \/ /\ part = "local" /\ LocalNext
     /\ UNCHANGED <<part, prepVars, capabilityVars, codexVars, gateVars>>
  \/ /\ part = "gate" /\ GateNext
     /\ UNCHANGED <<part, prepVars, capabilityVars, codexVars, localVars>>

\* Of a call of codex the reader thread and the caller go on, as a wait of the
\* caller has a time limit, and so does the clock.  Nothing is assumed of codex
\* itself.
Fairness ==
  /\ WF_codexVars(part = "codex" /\ ReaderStep)
  /\ WF_codexVars(part = "codex" /\ CallerStep)
  /\ WF_codexVars(part = "codex" /\ TimeUp)

Spec == Init /\ [][Next]_vars /\ Fairness
=============================================================================
