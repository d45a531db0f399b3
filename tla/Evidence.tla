------------------------------ MODULE Evidence ------------------------------
(***************************************************************************)
(* The way of the evidence: the gate (GoGate) writes a receipt and its     *)
(* outbox event in one transaction, and the workers of the outbox (Outbox) *)
(* hand the event to the handler main.ts registers for                     *)
(* "evidence-receipt.created".                                             *)
(*                                                                         *)
(* A receipt has one event, which goes by the key of its request.  The     *)
(* event is in the outbox from the commit of the receipt's transaction:    *)
(* workers, in this process or another, may run it while the call that     *)
(* wrote the receipt still stands before its next await.                   *)
(***************************************************************************)
EXTENDS GoGate

CONSTANTS
    Workers,
    NoWorker,
    Lease,
    MaxAttempts,
    BaseRetry,
    MaxLag,
    MaxSlips

ASSUME DispatchAssumption ==
    /\ NoWorker \notin Workers
    /\ Lease \in Nat \ {0}
    /\ MaxAttempts \in Nat \ {0}
    /\ BaseRetry \in Nat \ {0}
    /\ MaxLag \in 0 .. Lease
    /\ MaxSlips \in Nat

VARIABLES
    event,      \* event[k]: the outbox row of the receipt of request k
    worker,
    delivered,  \* requests whose receipt was handled at least once (history)
    overran,
    slips

Dispatch == INSTANCE Outbox WITH Events <- Keys, Handled <- Keys, NoEvent <- NoKey

dispatchVars == <<event, worker, delivered, overran, slips>>
evidenceVars == <<vars, dispatchVars>>

EvidenceInit == Init /\ Dispatch!Init

-----------------------------------------------------------------------------
\* What a step of the gate adds to the outbox is inserted in its transaction.
Queued ==
    IF outbox' = outbox
    THEN UNCHANGED dispatchVars
    ELSE \E k \in outbox' \ outbox : Dispatch!Enqueue(k)

Serve(h) == Proceed(h) /\ Queued

GateNext == Next /\ Queued

\* The dispatcher reads and writes the outbox alone.
Attend(w) == Dispatch!Work(w) /\ UNCHANGED vars

Pass == Dispatch!Tick /\ UNCHANGED vars

\* What a worker does, and what happens to it.
Attended(w) == (Dispatch!Work(w) \/ Dispatch!Crash(w)) /\ UNCHANGED vars

DispatchNext == Pass \/ \E w \in Workers : Attended(w)

EvidenceNext == GateNext \/ DispatchNext

EvidenceSpec == EvidenceInit /\ [][EvidenceNext]_evidenceVars

-----------------------------------------------------------------------------
(* Fairness: a call, once begun, runs on: the event loop resumes every       *)
(* continuation, statements return or throw, and so does the adapter; the    *)
(* loops of the workers go on, and time passes for them.                     *)
FairEvidenceSpec ==
    /\ EvidenceSpec
    /\ \A h \in Calls : WF_evidenceVars(Serve(h))
    /\ \A w \in Workers : WF_evidenceVars(Attend(w))
    /\ WF_evidenceVars(Pass)

-----------------------------------------------------------------------------
(* Properties *)

\* The handler runs on the receipt of k, or has run.
Heard(k) ==
    \/ k \in delivered
    \/ \E w \in Workers : Dispatch!Busy(w) /\ worker[w].event = k

\* The request was approved and executed, once, and its receipt says how that
\* came out.
Concluded(k) ==
    /\ row[k].status \in {"EXECUTED", "FAILED"}
    /\ receipt[k].verification = IF row[k].status = "EXECUTED" THEN "VERIFIED" ELSE "FAILED"
    /\ effects[k] = <<receipt[k].executionId>>
    /\ <<"WAITING_FOR_GO", "APPROVED">> \in moves[k]

\* What a handler is told stays true: the outcome is concluded before the first
\* worker claims its event, and no call in flight, whatever it has read before,
\* changes it from then on.
HeardStands ==
    \A k \in Keys : Heard(k) => Concluded(k) /\ UNCHANGED <<row[k], receipt[k], effects[k]>>

HeardOutcomesStand == [][HeardStands]_evidenceVars

\* Of every execution that began, the receipt's event is in the end taken out
\* of the outbox, with the outcome in the audit log, unless a call on the
\* request was lost.
EvidenceIsDispatched ==
    \A k \in Keys : row[k].status = "EXECUTING" ~>
        \/ k \in faulted
        \/ /\ event[k].status \in {"SUCCEEDED", "FAILED"}
           /\ Audited(k, <<"EXECUTING", row[k].status>>)
=============================================================================
