--------------------------- MODULE GateLifecycle ---------------------------
(***************************************************************************)
(* What the GO-Gate promises about a request, without handlers, clocks or  *)
(* a database: a request is decided once, the external action is performed *)
(* at most once and only for an approved request, its outcome is settled   *)
(* only after it was performed, and evidence is attested only for a        *)
(* settled outcome and agrees with it.                                     *)
(***************************************************************************)
EXTENDS Naturals

CONSTANT Requests

VARIABLES
    phase,      \* phase[r]: the status of request r, "NONE" before it exists
    performed,  \* performed[r]: how often the external action was performed
    attested    \* attested[r]: what the evidence receipt of r says, if any

lifecycleVars == <<phase, performed, attested>>

Phases == {"NONE", "WAITING_FOR_GO", "APPROVED", "REJECTED", "EXPIRED",
           "EXECUTING", "EXECUTED", "FAILED"}

Attestations == {"none", "VERIFIED", "FAILED"}

\* The verdict a receipt must carry for each settled phase.
Attests(p) == IF p = "EXECUTED" THEN "VERIFIED" ELSE "FAILED"

LifecycleInit ==
    /\ phase = [r \in Requests |-> "NONE"]
    /\ performed = [r \in Requests |-> 0]
    /\ attested = [r \in Requests |-> "none"]

Move(r, from, to) ==
    /\ phase[r] = from
    /\ phase' = [phase EXCEPT ![r] = to]
    /\ UNCHANGED <<performed, attested>>

Submit(r)  == \E p \in {"WAITING_FOR_GO", "REJECTED"} : Move(r, "NONE", p)
Decide(r)  == \E p \in {"APPROVED", "REJECTED"} : Move(r, "WAITING_FOR_GO", p)
Lapse(r)   == Move(r, "APPROVED", "EXPIRED")
Begin(r)   == Move(r, "APPROVED", "EXECUTING")

Perform(r) ==
    /\ phase[r] = "EXECUTING"
    /\ performed[r] = 0
    /\ performed' = [performed EXCEPT ![r] = 1]
    /\ UNCHANGED <<phase, attested>>

Conclude(r) ==
    /\ performed[r] = 1
    /\ \E p \in {"EXECUTED", "FAILED"} : Move(r, "EXECUTING", p)

Attest(r) ==
    /\ phase[r] \in {"EXECUTED", "FAILED"}
    /\ attested[r] = "none"
    /\ attested' = [attested EXCEPT ![r] = Attests(phase[r])]
    /\ UNCHANGED <<phase, performed>>

LifecycleNext ==
    \E r \in Requests : \/ Submit(r) \/ Decide(r) \/ Lapse(r) \/ Begin(r)
                        \/ Perform(r) \/ Conclude(r) \/ Attest(r)

Lifecycle == LifecycleInit /\ [][LifecycleNext]_lifecycleVars
=============================================================================
