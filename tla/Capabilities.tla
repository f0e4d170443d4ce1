----------------------------- MODULE Capabilities -----------------------------
(***************************************************************************)
(* Governed acquisition of capabilities: governed_capability_preflight     *)
(* (capability.py) as the prelude of run_loop uses it, over runs between   *)
(* which a human extends the allowlist.                                    *)
(*                                                                         *)
(* Abstractions: per request at most one candidate of the curated registry *)
(* and one of a remote search; a name the allowlist may hold stands for    *)
(* the candidate, or for the capability both are candidates of.            *)
(***************************************************************************)
EXTENDS Naturals

CONSTANT MaxRuns \* bound: runs of the same order

ASSUME CapabilitiesAssumption == MaxRuns \in Nat

Candidate == {"curated", "remote"}
Requests  == 1 .. 2

VARIABLES
  run,        \* where the run is
  allowlist,  \* --capability-allowlist
  found,      \* candidates of each request
  executed,   \* candidates whose live proof of concept was run
  provenance, \* what was adopted
  runs        \* runs so far

capabilityVars == <<run, allowlist, found, executed, provenance, runs>>

CapabilitiesInit ==
  /\ run = "none" /\ runs = 0
  /\ allowlist = {}
  /\ found = [r \in Requests |-> {}]
  /\ executed = {} /\ provenance = {}

\* is_approved: by the identifier, or by the capability.
Approved == IF "capability" \in allowlist THEN Candidate ELSE allowlist

\* The human reviews what was escalated, or knows better.
Approve ==
  /\ run \in {"none", "escalated"}
  /\ \E a \in (Candidate \cup {"capability"}) \ allowlist :
       allowlist' = allowlist \cup {a}
  /\ UNCHANGED <<run, found, executed, provenance, runs>>

\* discover, and discover_remote, which may find something else each time.
Discover ==
  /\ run \in {"none", "escalated"} /\ runs < MaxRuns
  /\ run' = "preflight" /\ runs' = runs + 1
  /\ found' \in [Requests -> SUBSET Candidate]
  /\ executed' = {} /\ provenance' = {}
  /\ UNCHANGED allowlist

\* run_poc of a candidate: with a runner for curated ones, when one is given.
Poc(cs, runner) == IF runner THEN cs \ {"remote"} ELSE {}

Resolved == {r \in Requests : found[r] \cap Approved # {}}

\* Slip: a request that has any approved candidate lets the run go on.
DecideByAny ==
  /\ run = "preflight"
  /\ executed' = {}
  /\ provenance' = UNION {found[r] \cap Approved : r \in Resolved}
  /\ run' = IF Resolved # {} THEN "loop" ELSE "escalated"
  /\ UNCHANGED <<allowlist, found, runs>>

\* Approved candidates are adopted, also when another request is escalated.
Decide ==
  /\ run = "preflight"
  /\ \E runner \in BOOLEAN :
       executed' = Poc(UNION {IF r \in Resolved THEN found[r] \cap Approved ELSE found[r] :
                                r \in Requests}, runner)
  /\ provenance' = UNION {found[r] \cap Approved : r \in Resolved}
  /\ run' = IF Resolved = Requests THEN "loop" ELSE "escalated"
  /\ UNCHANGED <<allowlist, found, runs>>

CapabilitiesNext == Approve \/ Discover \/ Decide

CapabilitiesSpec == CapabilitiesInit /\ [][CapabilitiesNext]_capabilityVars

-----------------------------------------------------------------------------
(* Properties *)

\* Nothing is adopted but what a human has listed, no remote candidate is ever
\* executed ("원격 후보는 실행 0"), and the run goes on only when each of its
\* requests has a listed candidate among those found this time, whatever an
\* earlier run found.
NothingUnapproved ==
  /\ \A c \in provenance : {c, "capability"} \cap allowlist # {}
  /\ executed \subseteq {"curated"}
  /\ run = "loop" =>
       \A r \in Requests : \E c \in found[r] : {c, "capability"} \cap allowlist # {}
=============================================================================
