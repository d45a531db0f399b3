--------------------------- MODULE EvidenceProofs ---------------------------
(***************************************************************************)
(* Proofs about Evidence, for any calls, requests and workers: that its    *)
(* gate is GoGate and its dispatcher Outbox, so that all that is proved of *)
(* the two holds of them together, and what the handler of a receipt can   *)
(* rely on.                                                                *)
(***************************************************************************)
EXTENDS Evidence, GoGateProofs

\* The theorems about the outbox, for the events of the receipts.
Proved == INSTANCE OutboxProofs WITH Events <- Keys, Handled <- Keys, NoEvent <- NoKey

-----------------------------------------------------------------------------
(* The parts. *)

\* The gate of Evidence is GoGate: a step of the dispatcher is none of the gate.
LEMMA GateStep == [EvidenceNext]_evidenceVars => [Next]_vars
  BY DEF EvidenceNext, GateNext, DispatchNext, Pass, Attended, evidenceVars

THEOREM GateIsGoGate == EvidenceSpec => Spec
  BY GateStep, PTL DEF EvidenceSpec, EvidenceInit, Spec

\* The two instances of Outbox are one.
LEMMA SameStart == Dispatch!Init <=> Proved!Init
  BY DEF Dispatch!Init, Dispatch!Poll, Proved!Init, Proved!Poll

LEMMA SameTick == Dispatch!Tick <=> Proved!Tick
  BY DEF Dispatch!Tick, Dispatch!Overrunning, Dispatch!Holder, Dispatch!Busy, Dispatch!Later,
         Proved!Tick, Proved!Overrunning, Proved!Holder, Proved!Busy, Proved!Later

LEMMA SameEnqueue == \A k \in Keys : Dispatch!Enqueue(k) <=> Proved!Enqueue(k)
  BY DEF Dispatch!Enqueue, Proved!Enqueue

LEMMA SameBusy == \A w \in Workers : Dispatch!Busy(w) <=> Proved!Busy(w)
  BY DEF Dispatch!Busy, Proved!Busy

LEMMA SameWork ==
    \A w \in Workers : /\ Dispatch!Work(w) <=> Proved!Work(w)
                       /\ Dispatch!Crash(w) <=> Proved!Crash(w)
  <1> SUFFICES ASSUME NEW w \in Workers
               PROVE  /\ Dispatch!Work(w) <=> Proved!Work(w)
                      /\ Dispatch!Crash(w) <=> Proved!Crash(w)
    OBVIOUS
  <1> USE DEF Dispatch!Poll, Dispatch!Sleep, Dispatch!Down, Proved!Poll, Proved!Sleep, Proved!Down
  <1>1. Dispatch!Find(w) <=> Proved!Find(w)
    BY DEF Dispatch!Find, Dispatch!Stale, Dispatch!Candidates, Dispatch!Released,
           Dispatch!Unlocked, Dispatch!Locked,
           Proved!Find, Proved!Stale, Proved!Candidates, Proved!Released,
           Proved!Unlocked, Proved!Locked
  <1>2. Dispatch!Take(w) <=> Proved!Take(w)
    BY DEF Dispatch!Take, Dispatch!Released, Dispatch!Unlocked, Dispatch!Claimed,
           Dispatch!Available,
           Proved!Take, Proved!Released, Proved!Unlocked, Proved!Claimed, Proved!Available
  <1>3. Dispatch!Handle(w) <=> Proved!Handle(w)
    BY DEF Dispatch!Handle, Dispatch!GivesUp, Proved!Handle, Proved!GivesUp
  <1>4. /\ Dispatch!MarkSucceeded(w) <=> Proved!MarkSucceeded(w)
        /\ Dispatch!MarkRetry(w) <=> Proved!MarkRetry(w)
        /\ Dispatch!MarkFailed(w) <=> Proved!MarkFailed(w)
    BY DEF Dispatch!MarkSucceeded, Dispatch!MarkRetry, Dispatch!MarkFailed, Dispatch!Mark,
           Dispatch!Holds, Dispatch!Locked, Dispatch!Unlocked, Dispatch!Backoff,
           Proved!MarkSucceeded, Proved!MarkRetry, Proved!MarkFailed, Proved!Mark,
           Proved!Holds, Proved!Locked, Proved!Unlocked, Proved!Backoff
  <1>5. /\ Dispatch!Wake(w) <=> Proved!Wake(w)
        /\ Dispatch!Restart(w) <=> Proved!Restart(w)
        /\ Dispatch!Crash(w) <=> Proved!Crash(w)
    BY DEF Dispatch!Wake, Dispatch!Restart, Dispatch!Crash,
           Proved!Wake, Proved!Restart, Proved!Crash
  <1> QED
    BY <1>1, <1>2, <1>3, <1>4, <1>5 DEF Dispatch!Work, Proved!Work

\* A step of the dispatcher, as OutboxProofs knows it.
LEMMA DispatcherStep ==
    ASSUME DispatchNext
    PROVE  /\ Proved!Tick \/ \E w \in Workers : Proved!Work(w) \/ Proved!Crash(w)
           /\ UNCHANGED vars
  BY SameTick, SameWork DEF DispatchNext, Pass, Attended

\* What a step of the gate does to the outbox: it leaves it alone, or inserts
\* one event.
LEMMA GateQueues ==
    ASSUME GateNext
    PROVE  \/ outbox' = outbox /\ UNCHANGED dispatchVars
           \/ \E k \in outbox' \ outbox : Dispatch!Enqueue(k)
  BY DEF GateNext, Queued

LEMMA GateAdds ==
    ASSUME TypeInv, TypeInv', [Next]_vars
    PROVE  outbox' = outbox \/ \E k \in Keys : outbox' = outbox \cup {k}
  <1>1. CASE Rests
    BY <1>1 DEF Rests
  <1>2. ASSUME NEW h \in Calls, Shaped(h)
        PROVE  outbox' = outbox \/ \E k \in Keys : outbox' = outbox \cup {k}
    BY <1>2 DEF Shaped, Arrives, Leaves, Drops, Decides, Checks, Flies, Wins, Attests,
                RecordsReceipt, RecordsMove, TypeInv, Running
  <1> QED BY <1>1, <1>2, StepShapes

\* The dispatcher of Evidence is Outbox, whose events come from the gate.
LEMMA DispatchStep ==
    ASSUME TypeInv, TypeInv', [EvidenceNext]_evidenceVars
    PROVE  [Proved!Next]_dispatchVars
  <1>1. CASE GateNext
    <2>1. outbox' \subseteq Keys
      BY DEF TypeInv, TypeOK
    <2> QED BY <1>1, <2>1, GateQueues, SameEnqueue DEF Proved!Next
  <1>2. CASE DispatchNext
    BY <1>2, DispatcherStep DEF Proved!Next
  <1>3. CASE UNCHANGED evidenceVars
    BY <1>3 DEF evidenceVars
  <1> QED BY <1>1, <1>2, <1>3 DEF EvidenceNext

LEMMA EvidenceTypes == EvidenceSpec => []TypeInv
  BY GateIsGoGate, TypeAlways, PTL

LEMMA DispatcherInit == EvidenceInit => Proved!Init
  BY SameStart DEF EvidenceInit

LEMMA DispatcherIsProved == EvidenceSpec => Proved!Spec
  <1>1. TypeInv /\ TypeInv' /\ [EvidenceNext]_evidenceVars => [Proved!Next]_(Proved!vars)
    BY DispatchStep DEF Proved!vars, dispatchVars
  <1> QED BY <1>1, DispatcherInit, EvidenceTypes, PTL DEF EvidenceSpec, Proved!Spec

\* Every behaviour of the two together is, for its events, one of Outbox.
THEOREM DispatcherIsOutbox == EvidenceSpec => Dispatch!Spec
  <1>1. TypeInv /\ TypeInv' /\ [EvidenceNext]_evidenceVars => [Dispatch!Next]_(Dispatch!vars)
    BY DispatchStep, SameTick, SameEnqueue, SameWork
       DEF Proved!Next, Dispatch!Next, Dispatch!vars, dispatchVars
  <1>2. EvidenceInit => Dispatch!Init
    BY DEF EvidenceInit
  <1> QED BY <1>1, <1>2, EvidenceTypes, PTL DEF EvidenceSpec, Dispatch!Spec

\* The invariant of the outbox, with this module's constants.
LEMMA OutboxAlways == EvidenceSpec => []Proved!Inv
  <1>1. Proved!Spec => []Proved!Inv
    BY Proved!AlwaysInv, DispatchAssumption, NoKeyAssumption DEF Proved!AlwaysInv
  <1> QED BY <1>1, DispatcherIsProved, PTL

-----------------------------------------------------------------------------
(* The coupling: what is in the outbox is what the gate has put there, and   *)
(* what a worker runs or has delivered was in the outbox.                    *)

Coupled ==
    \A k \in Keys : /\ event[k].status # "NONE" <=> k \in outbox
                    /\ k \in delivered => k \in outbox

LEMMA StepCoupled ==
    ASSUME TypeInv, TypeInv', Proved!Inv, Coupled, [EvidenceNext]_evidenceVars
    PROVE  Coupled'
  <1>0. event \in [Keys -> Proved!Row]
    BY DEF Proved!Inv, Proved!TypeOK
  <1>1. CASE GateNext
    <2>1. CASE outbox' = outbox /\ UNCHANGED dispatchVars
      BY <2>1 DEF dispatchVars, Coupled
    <2>2. ASSUME NEW k \in outbox' \ outbox, Dispatch!Enqueue(k) PROVE Coupled'
      <3>1. k \in Keys
        BY <2>2 DEF TypeInv, TypeOK
      <3>2. outbox' = outbox \cup {k}
        BY <1>1, <2>2, GateAdds DEF GateNext
      <3>3. /\ event'[k].status = "PENDING"
            /\ \A j \in Keys : j # k => event'[j] = event[j]
            /\ delivered' = delivered
        BY <1>0, <2>2, <3>1 DEF Dispatch!Enqueue, Proved!Row
      <3> QED BY <3>1, <3>2, <3>3 DEF Coupled
    <2> QED BY <1>1, <2>1, <2>2, GateQueues
  <1>2. CASE DispatchNext
    <2>1. \A k \in Keys : /\ event'[k].status = "NONE" <=> event[k].status = "NONE"
                          /\ k \in delivered' => k \in delivered \/ event[k].status # "NONE"
      BY <1>2, DispatcherStep, Proved!DispatcherQueuesNothing, DispatchAssumption,
         NoKeyAssumption DEF Proved!DispatcherQueuesNothing
    <2> QED BY <1>2, <2>1, DispatcherStep DEF Coupled, vars
  <1>3. CASE UNCHANGED evidenceVars
    BY <1>3 DEF evidenceVars, vars, dispatchVars, Coupled
  <1> QED BY <1>1, <1>2, <1>3 DEF EvidenceNext

LEMMA CoupledAlways == EvidenceSpec => []Coupled
  <1>1. EvidenceInit => Coupled
    BY DEF EvidenceInit, Init, Dispatch!Init, Coupled
  <1>2. TypeInv /\ TypeInv' /\ Proved!Inv /\ Coupled /\ [EvidenceNext]_evidenceVars => Coupled'
    BY StepCoupled
  <1> QED BY <1>1, <1>2, EvidenceTypes, OutboxAlways, PTL DEF EvidenceSpec

\* A receipt and its event come together: neither is ever there without the
\* other.
QueueMatchesReceipts ==
    \A k \in Keys : event[k].status # "NONE" <=> receipt[k] # NoReceipt

\* The outbox has the events of the receipts there are, and no other
\* (PrismaEvidenceReceiptWritePort.create).
THEOREM QueueMatches == EvidenceSpec => []QueueMatchesReceipts
  <1>1. ReceiptMatchesOutcome /\ Coupled => QueueMatchesReceipts
    BY DEF ReceiptMatchesOutcome, Coupled, QueueMatchesReceipts
  <1> QED BY <1>1, CoupledAlways, GateIsGoGate, ReceiptsMatchOutcomes, PTL

-----------------------------------------------------------------------------
(* What handlers hear. *)

\* Once there is a receipt, the row, the receipt and the effects of the request
\* stay as they are, whatever the calls in flight do.
LEMMA ReceiptFreezes ==
    ASSUME TypeInv, TypeInv', ExecutionOwned, ReceiptsInv, [Next]_vars,
           NEW k \in Keys, receipt[k] # NoReceipt
    PROVE  UNCHANGED <<row[k], receipt[k], effects[k]>>
  <1> USE DEF TypeInv, TypeOK
  <1>0. row[k].status \in {"EXECUTED", "FAILED"}
    BY DEF ReceiptsInv, ReceiptOf
  <1>1. CASE Rests
    BY <1>1 DEF Rests
  <1>2. ASSUME NEW h \in Calls, Shaped(h)
        PROVE  UNCHANGED <<row[k], receipt[k], effects[k]>>
    <2>1. CASE Wins(h)
      BY <1>0, <2>1, WinFacts DEF Wins
    <2>2. CASE Flies(h)
      <3>1. CASE UNCHANGED effects
        BY <2>2, <3>1 DEF Flies
      <3>2. CASE call[h].at = "calling"
        <4>1. call[h].key \in Keys /\ row[call[h].key].status = "EXECUTING"
          BY <3>2 DEF Running, ExecutionOwned, Executing
        <4> QED BY <1>0, <2>2, <4>1 DEF Flies
      <3> QED BY <2>2, <3>1, <3>2 DEF Flies
    <2>3. CASE Attests(h)
      BY <2>3 DEF Attests
    <2>4. CASE ~Wins(h) /\ ~Flies(h) /\ ~Attests(h)
      BY <1>2, <2>4 DEF Shaped, Arrives, Leaves, Drops, Decides, Checks,
                        RecordsReceipt, RecordsMove
    <2> QED BY <2>1, <2>2, <2>3, <2>4
  <1> QED BY <1>1, <1>2, StepShapes

\* A handler runs, or has run, on the receipt of a request that has one.
LEMMA HeardIsReceipted ==
    ASSUME Proved!Inv, Coupled, ReceiptsInv, NEW k \in Keys, Heard(k)
    PROVE  receipt[k] # NoReceipt
  <1>1. k \in outbox
    <2>1. CASE k \in delivered
      BY <2>1 DEF Coupled
    <2>2. ASSUME NEW w \in Workers, Dispatch!Busy(w), worker[w].event = k
          PROVE  k \in outbox
      <3>1. event[k].status # "NONE"
        BY <2>2, SameBusy DEF Proved!Inv, Proved!LoopSound
      <3> QED BY <3>1 DEF Coupled
    <2> QED BY <2>1, <2>2 DEF Heard
  <1> QED BY <1>1 DEF ReceiptsInv, ReceiptOf

LEMMA ReceiptConcludes ==
    ASSUME ReceiptsInv, EffectOnceAndApproved, NEW k \in Keys, receipt[k] # NoReceipt
    PROVE  Concluded(k)
  <1>1. ReceiptOf(k)
    BY DEF ReceiptsInv
  <1>2. effects[k] = <<receipt[k].executionId>>
    BY <1>1 DEF ReceiptOf
  <1>3. effects[k] # <<>>
    BY <1>2
  <1>4. /\ row[k].status \in {"EXECUTED", "FAILED"}
        /\ receipt[k].verification = IF row[k].status = "EXECUTED" THEN "VERIFIED" ELSE "FAILED"
    BY <1>1 DEF ReceiptOf
  <1> QED BY <1>2, <1>3, <1>4 DEF EffectOnceAndApproved, Concluded

\* What the handler of a receipt is told is concluded when the first worker
\* claims the event and stays true for ever, although the calls that raced for
\* the request may still run (outbox-worker.ts, gate.ts).
THEOREM WhatIsHeardStands == EvidenceSpec => HeardOutcomesStand
  <1>1. ASSUME TypeInv, TypeInv', ExecutionOwned, EffectOnceAndApproved, ReceiptsInv,
               Proved!Inv, Coupled, [Next]_vars
        PROVE  HeardStands
    BY <1>1, HeardIsReceipted, ReceiptConcludes, ReceiptFreezes DEF HeardStands
  <1>2. /\ TypeInv /\ TypeInv' /\ ExecutionOwned /\ EffectOnceAndApproved /\ ReceiptsInv
        /\ Proved!Inv /\ Coupled /\ [EvidenceNext]_evidenceVars
        => [HeardStands]_evidenceVars
    BY <1>1, GateStep
  <1> QED
    BY <1>2, GateIsGoGate, EvidenceTypes, ExecutionIsOwned, EffectIsOnceAndApproved,
       ReceiptsAlways, OutboxAlways, CoupledAlways, PTL DEF EvidenceSpec, HeardOutcomesStand
=============================================================================
