------------------------------- MODULE GoGate -------------------------------
(***************************************************************************)
(* GoGateService (apps/api/src/gate.ts) over its database port             *)
(* (PrismaGoGateRequestReadPort and PrismaEvidenceReceiptWritePort in      *)
(* apps/api/src/prisma-ports.ts).                                          *)
(*                                                                         *)
(* Every HTTP request in flight is a call h \in Calls.  A call runs one of *)
(* the service's methods; between two awaits of the method other calls     *)
(* run, the clock advances, or the call is lost (process crash, database   *)
(* or audit error).  A row of go_gate_requests is named by its unique      *)
(* idempotency key.                                                        *)
(*                                                                         *)
(* Definitions that stand right before another and are used nowhere        *)
(* (MatchesAny, LapsedEarly, ...) are the faulty variants the properties   *)
(* are tried against; they are no part of Spec.                            *)
(***************************************************************************)
EXTENDS Integers, Sequences

CONSTANTS
    Calls,      \* concurrent invocations of the service
    Keys,       \* idempotency keys, one per request row
    NoKey,      \* the key of an idle call
    GoExpiry,   \* GO_EXPIRY_MS, in ticks
    MaxClock    \* bound on the clock

ASSUME NoKeyAssumption == NoKey \notin Keys
ASSUME GoExpiryAssumption == GoExpiry \in Nat \ {0}
ASSUME MaxClockAssumption == MaxClock \in Nat

VARIABLES
    row,       \* row[k]: the request row, status "NONE" when there is none
    decisions, \* decisions[k]: outcomes of the policy decisions recorded for k
    receipt,   \* receipt[k]: the evidence receipt of request k
    outbox,    \* keys whose evidence-receipt.created event was enqueued
    audit,     \* the audit log, in the order the sink appended
    effects,   \* effects[k]: execution ids the external adapter was called with
    moves,     \* moves[k]: status changes row k made (history)
    faulted,   \* keys on which some call was lost half way (history)
    clock,     \* the application clock
    call       \* call[h]: where invocation h is and what it holds

vars == <<row, decisions, receipt, outbox, audit, effects, moves, faulted, clock, call>>

-----------------------------------------------------------------------------
Status == {"NONE", "WAITING_FOR_GO", "APPROVED", "REJECTED", "EXPIRED",
           "EXECUTING", "EXECUTED", "FAILED"}

\* The columns of a row the service reads back; executionId n stands for
\* exec-<id>-n and 0 for null, expiresAt 0 for null.
Row == [status: Status, expiresAt: Nat, executionId: Nat, attempt: Nat]
NoRow == [status |-> "NONE", expiresAt |-> 0, executionId |-> 0, attempt |-> 0]

Verification == {"none", "VERIFIED", "FAILED"}
Receipt == [verification: Verification, executionId: Nat]
NoReceipt == [verification |-> "none", executionId |-> 0]

\* An audit event of the gate. A transition event carries the states before
\* and after; the receipt's event carries no previous state.
AuditEvent == [key: Keys, action: {"transition", "receipt"},
               previous: Status, new: Status]

Points == {"idle", "decide", "create", "approve", "reject", "execute",
           "approving", "rejecting", "expiring", "claiming", "calling",
           "awaiting", "settling", "receipt", "auditReceipt", "audit"}
Verdict == {"none", "allow", "deny", "verified", "failed", "error"}

\* seen: the row the call will report as previousState; wrote: the row its last
\* update returned; stamp: the time it captured before its update; begun: the
\* time it started (history).
Call == [at: Points, key: Keys \cup {NoKey}, seen: Row, wrote: Row,
         stamp: Nat, verdict: Verdict, begun: Nat]
Idle == [at |-> "idle", key |-> NoKey, seen |-> NoRow, wrote |-> NoRow,
         stamp |-> 0, verdict |-> "none", begun |-> 0]

TypeOK ==
    /\ row \in [Keys -> Row]
    /\ decisions \in [Keys -> SUBSET {"allow", "deny"}]
    /\ receipt \in [Keys -> Receipt]
    /\ outbox \subseteq Keys
    /\ audit \in Seq(AuditEvent)
    /\ effects \in [Keys -> Seq(Nat)]
    /\ moves \in [Keys -> SUBSET (Status \X Status)]
    /\ faulted \subseteq Keys
    /\ clock \in Nat
    /\ call \in [Calls -> Call]

Init ==
    /\ row = [k \in Keys |-> NoRow]
    /\ decisions = [k \in Keys |-> {}]
    /\ receipt = [k \in Keys |-> NoReceipt]
    /\ outbox = {}
    /\ audit = <<>>
    /\ effects = [k \in Keys |-> <<>>]
    /\ moves = [k \in Keys |-> {}]
    /\ faulted = {}
    /\ clock = 1
    /\ call = [h \in Calls |-> Idle]

-----------------------------------------------------------------------------
\* The method returns or throws: the invocation is over.
Finish(h) == call' = [call EXCEPT ![h] = Idle]

\* The database port's transition: UPDATE ... WHERE id AND status [AND
\* expires_at > after] in one statement; the row's history grows with it.
MatchesAny(k, expected) == TRUE
Matches(k, expected) == row[k].status = expected

Write(k, new) ==
    /\ row' = [row EXCEPT ![k] = new]
    /\ moves' = [moves EXCEPT ![k] = @ \cup {<<row[k].status, new.status>>}]

\* A conditional update on behalf of h. The winner goes on to `next`, reporting
\* `previous` as the state before; its time stamp is of no further use. The
\* loser throws a conflict.
Transition(h, matches, new, previous, next) ==
    \/ /\ matches
       /\ Write(call[h].key, new)
       /\ call' = [call EXCEPT ![h] = [@ EXCEPT !.at = next, !.seen = previous,
                                                !.wrote = new, !.stamp = 0]]
    \/ /\ ~matches
       /\ Finish(h)
       /\ UNCHANGED <<row, moves>>

-----------------------------------------------------------------------------
(* requestExecution *)

\* findByIdempotencyKey: an existing row is returned as it is.
RequestLookup(h, k) ==
    /\ call[h].at = "idle"
    /\ row[k].status = "NONE"
    /\ call' = [call EXCEPT ![h] = [Idle EXCEPT !.at = "decide", !.key = k,
                                                !.begun = clock]]
    /\ UNCHANGED <<row, decisions, receipt, outbox, audit, effects, moves, faulted, clock>>

DenialsOnly(recorded, verdict) == IF verdict = "deny" THEN recorded \cup {verdict} ELSE recorded
WithDecision(recorded, verdict) == recorded \cup {verdict}

\* policy.evaluate and the PolicyDecision row; the policy decides either way.
RequestDecide(h) ==
    /\ call[h].at = "decide"
    /\ \E v \in {"allow", "deny"} :
          /\ decisions' = [decisions EXCEPT ![call[h].key] = WithDecision(@, v)]
          /\ call' = [call EXCEPT ![h] = [@ EXCEPT !.at = "create", !.verdict = v]]
    /\ UNCHANGED <<row, receipt, outbox, audit, effects, moves, faulted, clock>>

BirthStatusDefaulted(verdict) == IF verdict = "allow" THEN "READY" ELSE "REJECTED"
BirthStatus(verdict) == IF verdict = "allow" THEN "WAITING_FOR_GO" ELSE "REJECTED"

\* The insert fails on the unique key when another call created the row first.
RequestCreate(h) ==
    /\ call[h].at = "create"
    /\ Transition(h, Matches(call[h].key, "NONE"),
           [NoRow EXCEPT !.status = BirthStatus(call[h].verdict)],
           NoRow, "audit")
    /\ UNCHANGED <<decisions, receipt, outbox, audit, effects, faulted, clock>>

-----------------------------------------------------------------------------
(* approve, reject and execute: findById, then the checks on what was read *)

Read(h, k, method) ==
    /\ call[h].at = "idle"
    /\ row[k].status # "NONE"
    /\ call' = [call EXCEPT ![h] = [Idle EXCEPT !.at = method, !.key = k,
                                                !.seen = row[k],
                                                !.begun = clock]]
    /\ UNCHANGED <<row, decisions, receipt, outbox, audit, effects, moves, faulted, clock>>

\* Approve and reject check the status they read; `now` is captured here and
\* the conditional update runs later.
Check(h, method, next) ==
    /\ call[h].at = method
    /\ \/ /\ call[h].seen.status = "WAITING_FOR_GO"
          /\ call' = [call EXCEPT ![h] = [@ EXCEPT !.at = next, !.stamp = clock]]
       \/ /\ call[h].seen.status # "WAITING_FOR_GO"
          /\ Finish(h)
    /\ UNCHANGED <<row, decisions, receipt, outbox, audit, effects, moves, faulted, clock>>

ApproveCheck(h) == Check(h, "approve", "approving")
RejectCheck(h) == Check(h, "reject", "rejecting")

Approve(h) ==
    /\ call[h].at = "approving"
    /\ LET k == call[h].key IN
       Transition(h, Matches(k, "WAITING_FOR_GO"),
           [row[k] EXCEPT !.status = "APPROVED",
                          !.expiresAt = call[h].stamp + GoExpiry],
           call[h].seen, "audit")
    /\ UNCHANGED <<decisions, receipt, outbox, audit, effects, faulted, clock>>

Reject(h) ==
    /\ call[h].at = "rejecting"
    /\ LET k == call[h].key IN
       Transition(h, Matches(k, "WAITING_FOR_GO"),
           [row[k] EXCEPT !.status = "REJECTED"], call[h].seen, "audit")
    /\ UNCHANGED <<decisions, receipt, outbox, audit, effects, faulted, clock>>

\* The approval read has no deadline or it has passed.
LapsedEarly(seen, now) == seen.expiresAt <= now + GoExpiry
Lapsed(seen, now) == seen.expiresAt = 0 \/ seen.expiresAt <= now

\* Which action types have an adapter is configuration of the instance that
\* runs the call: with none, the call ends and the row stays APPROVED.
ExecuteCheckUntimed(h) ==
    /\ call[h].at = "execute"
    /\ \/ /\ call[h].seen.status # "APPROVED"
          /\ Finish(h)
       \/ /\ call[h].seen.status = "APPROVED"
          /\ call' = [call EXCEPT ![h].at = "claiming"]
    /\ UNCHANGED <<row, decisions, receipt, outbox, audit, effects, moves, faulted, clock>>

ExecuteCheck(h) ==
    /\ call[h].at = "execute"
    /\ \/ /\ call[h].seen.status # "APPROVED"
          /\ Finish(h)
       \/ /\ call[h].seen.status = "APPROVED"
          /\ Lapsed(call[h].seen, clock)
          /\ call' = [call EXCEPT ![h].at = "expiring"]
       \/ /\ call[h].seen.status = "APPROVED"
          /\ ~Lapsed(call[h].seen, clock)
          /\ \/ call' = [call EXCEPT ![h] = [@ EXCEPT !.at = "claiming", !.stamp = clock]]
             \/ Finish(h)
    /\ UNCHANGED <<row, decisions, receipt, outbox, audit, effects, moves, faulted, clock>>

\* Expires what was APPROVED; only the call whose update matched audits it.
Expire(h) ==
    /\ call[h].at = "expiring"
    /\ LET k == call[h].key IN
       Transition(h, Matches(k, "APPROVED"),
           [row[k] EXCEPT !.status = "EXPIRED"], call[h].seen, "audit")
    /\ UNCHANGED <<decisions, receipt, outbox, audit, effects, faulted, clock>>

\* APPROVED -> EXECUTING, conditional on the deadline as well: the time
\* compared with it was captured before the update ran. The settling update
\* reports the row written here as its previous state.
ClaimMatchesDeadlineOnly(k, after) == row[k].expiresAt > after
ClaimMatches(k, after) == Matches(k, "APPROVED") /\ row[k].expiresAt > after

ClaimedRow(k, seen) ==
    [row[k] EXCEPT !.status = "EXECUTING",
                   !.executionId = IF seen.executionId # 0
                                   THEN seen.executionId ELSE seen.attempt + 1,
                   !.attempt = seen.attempt + 1]

ReportsStateRead(h, written) == call[h].seen
ReportsStateWritten(h, written) == written

Claim(h) ==
    /\ call[h].at = "claiming"
    /\ LET k == call[h].key
           new == ClaimedRow(k, call[h].seen)
       IN  Transition(h, ClaimMatches(k, call[h].stamp), new,
                      ReportsStateWritten(h, new), "calling")
    /\ UNCHANGED <<decisions, receipt, outbox, audit, effects, faulted, clock>>

CallAdapter(h) ==
    /\ call[h].at = "calling"
    /\ effects' = [effects EXCEPT ![call[h].key] = Append(@, call[h].wrote.executionId)]
    /\ call' = [call EXCEPT ![h].at = "awaiting"]
    /\ UNCHANGED <<row, decisions, receipt, outbox, audit, moves, faulted, clock>>

\* The adapter's promise resolves with ok true or not, or rejects; whatever it
\* does, the outcome is settled next.
AfterAdapterRetrying(verdict) == IF verdict = "error" THEN "calling" ELSE "settling"
AfterAdapter(verdict) == "settling"

AdapterSettles(h) ==
    /\ call[h].at = "awaiting"
    /\ \E v \in {"verified", "failed", "error"} :
          call' = [call EXCEPT ![h] = [@ EXCEPT !.at = AfterAdapter(v), !.verdict = v]]
    /\ UNCHANGED <<row, decisions, receipt, outbox, audit, effects, moves, faulted, clock>>

\* Only ok = true counts as executed; a failed outcome gets its receipt too.
OutcomeStatus(verdict) == IF verdict = "verified" THEN "EXECUTED" ELSE "FAILED"

AfterSettlingSuccessOnly(verdict) == IF verdict = "verified" THEN "receipt" ELSE "audit"
AfterSettling(verdict) == "receipt"

Settle(h) ==
    /\ call[h].at = "settling"
    /\ LET k == call[h].key IN
       Transition(h, Matches(k, "EXECUTING"),
           [row[k] EXCEPT !.status = OutcomeStatus(call[h].verdict)],
           call[h].seen, AfterSettling(call[h].verdict))
    /\ UNCHANGED <<decisions, receipt, outbox, audit, effects, faulted, clock>>

\* createEvidenceReceipt: the receipt and its outbox event are written in one
\* transaction; the receipt's request id is unique.
VerificationLenient(verdict) == IF verdict = "error" THEN "FAILED" ELSE "VERIFIED"
VerificationOf(verdict) == IF verdict = "verified" THEN "VERIFIED" ELSE "FAILED"

WriteReceipt(h) ==
    /\ call[h].at = "receipt"
    /\ LET k == call[h].key IN
       \/ /\ receipt[k] = NoReceipt
          /\ receipt' = [receipt EXCEPT ![k] =
                [verification |-> VerificationOf(call[h].verdict),
                 executionId |-> call[h].wrote.executionId]]
          /\ outbox' = outbox \cup {k}
          /\ call' = [call EXCEPT ![h].at = "auditReceipt"]
       \/ /\ receipt[k] # NoReceipt
          /\ Finish(h)
          /\ UNCHANGED <<receipt, outbox>>
    /\ UNCHANGED <<row, decisions, audit, effects, moves, faulted, clock>>

\* The receipt's audit event, appended before the transition's.
AuditReceiptForgotten(h) ==
    /\ call[h].at = "auditReceipt"
    /\ call' = [call EXCEPT ![h].at = "audit"]
    /\ UNCHANGED <<row, decisions, receipt, outbox, audit, effects, moves, faulted, clock>>

AuditReceipt(h) ==
    /\ call[h].at = "auditReceipt"
    /\ audit' = Append(audit, [key |-> call[h].key, action |-> "receipt",
                               previous |-> "NONE",
                               new |-> call[h].wrote.status])
    /\ call' = [call EXCEPT ![h].at = "audit"]
    /\ UNCHANGED <<row, decisions, receipt, outbox, effects, moves, faulted, clock>>

\* The last audit event of a method, with the states the method holds.
Audit(h) ==
    /\ call[h].at = "audit"
    /\ audit' = Append(audit, [key |-> call[h].key, action |-> "transition",
                               previous |-> call[h].seen.status,
                               new |-> call[h].wrote.status])
    /\ Finish(h)
    /\ UNCHANGED <<row, decisions, receipt, outbox, effects, moves, faulted, clock>>

-----------------------------------------------------------------------------
\* The process dies, or a database or audit call throws: nothing catches it,
\* so the method ends where it is.
Lose(h) ==
    /\ call[h].at # "idle"
    /\ faulted' = faulted \cup {call[h].key}
    /\ Finish(h)
    /\ UNCHANGED <<row, decisions, receipt, outbox, audit, effects, moves, clock>>

Tick ==
    /\ clock < MaxClock
    /\ clock' = clock + 1
    /\ UNCHANGED <<row, decisions, receipt, outbox, audit, effects, moves, faulted, call>>

\* Steps a call takes on its own once it has begun.
Proceed(h) ==
    \/ RequestDecide(h) \/ RequestCreate(h)
    \/ ApproveCheck(h) \/ Approve(h) \/ RejectCheck(h) \/ Reject(h)
    \/ ExecuteCheck(h) \/ Expire(h) \/ Claim(h)
    \/ CallAdapter(h) \/ AdapterSettles(h) \/ Settle(h)
    \/ WriteReceipt(h) \/ AuditReceipt(h) \/ Audit(h)

Begin(h) ==
    \E k \in Keys : \/ RequestLookup(h, k)
                    \/ \E m \in {"approve", "reject", "execute"} : Read(h, k, m)

Next == Tick \/ \E h \in Calls : Begin(h) \/ Proceed(h) \/ Lose(h)

Spec == Init /\ [][Next]_vars

-----------------------------------------------------------------------------
(* Properties *)

Executing(h, k) ==
    /\ call[h].key = k
    /\ call[h].at \in {"calling", "awaiting", "settling"}

Quiet(k) == \A h \in Calls : call[h].key # k

\* An EXECUTING row belongs to exactly one running execute call, whatever the
\* number of parallel calls; only a lost call leaves it with none (nothing in
\* the service picks such a row up again).
ExecutionOwned ==
    \A k \in Keys :
        /\ \A g, h \in Calls : Executing(g, k) /\ Executing(h, k) => g = h
        /\ \A h \in Calls : Executing(h, k) => row[k].status = "EXECUTING"
        /\ row[k].status = "EXECUTING" =>
              k \in faulted \/ \E h \in Calls : Executing(h, k)

\* The external action runs at most once per request, only after a recorded
\* approval, and under the execution id the row keeps.
EffectOnceAndApproved ==
    \A k \in Keys : effects[k] # <<>> =>
        /\ effects[k] = <<row[k].executionId>>
        /\ <<"WAITING_FOR_GO", "APPROVED">> \in moves[k]
        /\ row[k].status \in {"EXECUTING", "EXECUTED", "FAILED"}

\* An execute call that arrives at or after the deadline never reaches the
\* adapter, although it decides on a row read earlier.
LateCallNeverExecutes ==
    \A h \in Calls, k \in Keys :
        Executing(h, k) => call[h].begun < row[k].expiresAt

\* A request becomes EXPIRED only when its approval really has passed its
\* deadline, although the update that expires it does not look at it.
ExpiresOnlyWhenLapsed ==
    [][\A k \in Keys : row'[k].status = "EXPIRED" /\ row[k].status # "EXPIRED"
          => row[k].expiresAt <= clock]_vars

\* A request was admitted or refused by a policy decision that is on record.
DecisionOnRecord ==
    \A k \in Keys :
        /\ <<"NONE", "WAITING_FOR_GO">> \in moves[k] => "allow" \in decisions[k]
        /\ <<"NONE", "REJECTED">> \in moves[k] => "deny" \in decisions[k]

\* A receipt exists only for a settled execution, says what the row says,
\* names the execution the adapter ran, and its event is in the outbox.
ReceiptMatchesOutcome ==
    \A k \in Keys :
        /\ receipt[k] # NoReceipt =>
              /\ row[k].status \in {"EXECUTED", "FAILED"}
              /\ receipt[k].verification = "VERIFIED" <=> row[k].status = "EXECUTED"
              /\ effects[k] = <<receipt[k].executionId>>
        /\ k \in outbox <=> receipt[k] # NoReceipt

\* No audit event describes a transition that did not happen, and none is
\* recorded twice: the state a method read before its conditional update is the
\* state the update changed, and of two calls only the one that won reports it.
AuditTruthful ==
    /\ \A i \in DOMAIN audit : LET e == audit[i] IN
          IF e.action = "transition"
          THEN <<e.previous, e.new>> \in moves[e.key]
          ELSE e.new = row[e.key].status /\ receipt[e.key] # NoReceipt
    /\ \A i, j \in DOMAIN audit : audit[i] = audit[j] => i = j

Audited(k, move) ==
    \E i \in DOMAIN audit : audit[i] = [key |-> k, action |-> "transition",
                                        previous |-> move[1], new |-> move[2]]

ReceiptAudited(k) ==
    \E i \in DOMAIN audit : audit[i].key = k /\ audit[i].action = "receipt"

\* When nothing was lost and no call is running, every transition of the row
\* but the one to EXECUTING, and the receipt, are in the audit log.
AuditComplete ==
    \A k \in Keys : Quiet(k) /\ k \notin faulted =>
        /\ \A m \in moves[k] : m[2] # "EXECUTING" => Audited(k, m)
        /\ receipt[k] # NoReceipt => ReceiptAudited(k)

\* ADR-008: "Every transition emits a go-gate.* audit event with
\* previousState/newState", the one to EXECUTING included.
EveryTransitionAudited ==
    \A k \in Keys : Quiet(k) /\ k \notin faulted =>
        \A m \in moves[k] : Audited(k, m)

\* The service implements the lifecycle it promises.
Promise == INSTANCE GateLifecycle WITH
    Requests  <- Keys,
    phase     <- [k \in Keys |-> row[k].status],
    performed <- [k \in Keys |-> Len(effects[k])],
    attested  <- [k \in Keys |-> receipt[k].verification]

ImplementsLifecycle == Promise!Lifecycle
=============================================================================
