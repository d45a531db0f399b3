---------------------------- MODULE GoGateProofs ----------------------------
(***************************************************************************)
(* Theorems about GoGate for any number of calls and requests: its         *)
(* invariants and action properties, and the refinement of GateLifecycle.  *)
(***************************************************************************)
EXTENDS GoGate, TLAPS

\* A running call works on a request.
Running == \A h \in Calls : call[h].at # "idle" => call[h].key \in Keys

TypeInv == TypeOK /\ Running

\* Every variable keeps its type, and a running call has a request: for any
\* set of calls and keys (GoGateService, gate.ts).
LEMMA InitTypeInv == Init => TypeInv
  BY NoKeyAssumption
  DEF Init, TypeInv, TypeOK, Running, Row, NoRow, Status, Receipt, NoReceipt,
      Verification, Call, Idle, Points, Verdict

\* What a conditional update does to the types (transition, prisma-ports.ts).
LEMMA TransitionType ==
  ASSUME TypeInv, NEW h \in Calls, call[h].at # "idle",
         NEW matches \in BOOLEAN, NEW new \in Row, NEW previous \in Row,
         NEW next \in Points,
         Transition(h, matches, new, previous, next)
  PROVE  /\ row' \in [Keys -> Row]
         /\ moves' \in [Keys -> SUBSET (Status \X Status)]
         /\ call' \in [Calls -> Call]
         /\ Running'
  <1> USE DEF TypeInv, TypeOK, Running
  <1>k. call[h].key \in Keys
    OBVIOUS
  <1>1. CASE matches
    <2>1. Write(call[h].key, new)
      BY <1>1 DEF Transition
    <2>2. row' \in [Keys -> Row] /\ moves' \in [Keys -> SUBSET (Status \X Status)]
      BY <2>1, <1>k DEF Write, Row
    <2> DEFINE c == [call[h] EXCEPT !.at = next, !.seen = previous,
                                    !.wrote = new, !.stamp = 0]
    <2>3. call' = [call EXCEPT ![h] = c]
      BY <1>1 DEF Transition
    <2>4. c \in Call /\ c.key = call[h].key
      BY DEF Call
    <2> HIDE DEF c
    <2>5. call' \in [Calls -> Call] /\ Running'
      BY <2>3, <2>4, <1>k
    <2> QED BY <2>2, <2>5
  <1>2. CASE ~matches
    <2>1. call' = [call EXCEPT ![h] = Idle] /\ UNCHANGED <<row, moves>>
      BY <1>2 DEF Transition, Finish
    <2>2. Idle \in Call
      BY DEF Idle, Call, Points, Row, NoRow, Status, Verdict
    <2> QED BY <2>1, <2>2 DEF Idle
  <1> QED BY <1>1, <1>2

\* A call that only moves on keeps the types.
LEMMA MoveOnType ==
  ASSUME TypeInv, NEW h \in Calls, NEW c \in Call,
         c.at # "idle" => c.key \in Keys,
         call' = [call EXCEPT ![h] = c]
  PROVE  call' \in [Calls -> Call] /\ Running'
  BY DEF TypeInv, TypeOK, Running

LEMMA IdleType == Idle \in Call /\ Idle.at = "idle" /\ Idle.key = NoKey
  BY DEF Idle, Call, Points, Row, NoRow, Status, Verdict

\* The row a request is inserted as.
LEMMA BirthRowType ==
  ASSUME NEW v \in Verdict
  PROVE  [NoRow EXCEPT !.status = BirthStatus(v)] \in Row
  <1>1. CASE v = "allow"
    BY <1>1 DEF BirthStatus, NoRow, Row, Status
  <1>2. CASE v # "allow"
    BY <1>2 DEF BirthStatus, NoRow, Row, Status
  <1> QED BY <1>1, <1>2

\* Appending keeps the type of a log.
LEMMA AppendType ==
  ASSUME NEW S, NEW s \in Seq(S), NEW e \in S
  PROVE  Append(s, e) \in Seq(S)
  OBVIOUS

\* Every step of the gate keeps the types.
LEMMA StepTypeInv == TypeInv /\ [Next]_vars => TypeInv'
  <1> SUFFICES ASSUME TypeInv, [Next]_vars PROVE TypeInv'
    OBVIOUS
  <1> USE DEF TypeInv, TypeOK
  <1>0. /\ NoRow \in Row /\ NoReceipt \in Receipt
        /\ \A s \in {"approve", "reject", "execute", "decide"} : s \in Points
    BY DEF NoRow, Row, Status, NoReceipt, Receipt, Verification, Points
  <1>1. CASE UNCHANGED vars
    BY <1>1 DEF vars, Running
  <1>2. CASE Tick
    BY <1>2 DEF Tick, Running
  <1>3. ASSUME NEW h \in Calls, NEW k \in Keys, RequestLookup(h, k) PROVE TypeInv'
    <2> DEFINE c == [Idle EXCEPT !.at = "decide", !.key = k, !.begun = clock]
    <2>1. c \in Call /\ c.key = k
      BY <1>0, IdleType DEF Call
    <2>2. call' = [call EXCEPT ![h] = c]
      BY <1>3 DEF RequestLookup
    <2> HIDE DEF c
    <2>3. call' \in [Calls -> Call] /\ Running'
      BY <2>1, <2>2, MoveOnType
    <2> QED BY <1>3, <2>3 DEF RequestLookup
  <1>4. ASSUME NEW h \in Calls, NEW k \in Keys,
               NEW m \in {"approve", "reject", "execute"}, Read(h, k, m)
        PROVE  TypeInv'
    <2> DEFINE c == [Idle EXCEPT !.at = m, !.key = k, !.seen = row[k], !.begun = clock]
    <2>1. c \in Call /\ c.key = k
      BY <1>0, IdleType DEF Call
    <2>2. call' = [call EXCEPT ![h] = c]
      BY <1>4 DEF Read
    <2> HIDE DEF c
    <2>3. call' \in [Calls -> Call] /\ Running'
      BY <2>1, <2>2, MoveOnType
    <2> QED BY <1>4, <2>3 DEF Read
  <1>5. ASSUME NEW h \in Calls, Lose(h) PROVE TypeInv'
    <2>1. call' \in [Calls -> Call] /\ Running'
      BY <1>5, IdleType, MoveOnType DEF Lose, Finish
    <2> QED BY <1>5, <2>1 DEF Lose, Running
  <1>6. ASSUME NEW h \in Calls, Proceed(h) PROVE TypeInv'
    <2>1. CASE RequestDecide(h)
      <3>1. PICK v \in {"allow", "deny"} :
              /\ decisions' = [decisions EXCEPT ![call[h].key] = WithDecision(@, v)]
              /\ call' = [call EXCEPT ![h] = [@ EXCEPT !.at = "create", !.verdict = v]]
        BY <2>1 DEF RequestDecide
      <3> DEFINE c == [call[h] EXCEPT !.at = "create", !.verdict = v]
      <3>2. "create" \in Points /\ v \in Verdict /\ call[h].key \in Keys
        BY <2>1 DEF Points, Verdict, RequestDecide, Running
      <3>5. c \in Call /\ c.key = call[h].key
        BY <3>2 DEF Call
      <3>3. call' = [call EXCEPT ![h] = c]
        BY <3>1
      <3> HIDE DEF c
      <3>4. call' \in [Calls -> Call] /\ Running'
        BY <3>2, <3>3, <3>5, MoveOnType
      <3>6. decisions' \in [Keys -> SUBSET {"allow", "deny"}]
        BY <3>1 DEF WithDecision
      <3> QED BY <2>1, <3>4, <3>6 DEF RequestDecide
    <2>2. CASE RequestCreate(h)
      <3> DEFINE k == call[h].key
                 new == [NoRow EXCEPT !.status = BirthStatus(call[h].verdict)]
      <3>1. call[h] \in Call /\ k \in Keys /\ row[k] \in Row /\ call[h].at # "idle"
        BY <2>2 DEF RequestCreate, Running
      <3>2. new \in Row
        <4>1. call[h].verdict \in Verdict
          BY <3>1 DEF Call
        <4> QED BY <4>1, BirthRowType
      <3>3. "audit" \in Points /\ NoRow \in Row
        BY <1>0, <3>1, <3>2 DEF Points, Call
      <3>4. Transition(h, Matches(k, "NONE"), new, NoRow, "audit")
        BY <2>2 DEF RequestCreate, ReportsStateWritten, AfterSettling
      <3>5. (Matches(k, "NONE")) \in BOOLEAN
        BY DEF Matches, ClaimMatches
      <3> HIDE DEF new, k
      <3>6. /\ row' \in [Keys -> Row]
            /\ moves' \in [Keys -> SUBSET (Status \X Status)]
            /\ call' \in [Calls -> Call]
            /\ Running'
        BY <3>1, <3>2, <3>3, <3>4, <3>5, TransitionType
      <3> QED BY <2>2, <3>6 DEF RequestCreate
    <2>3. CASE Approve(h)
      <3> DEFINE k == call[h].key
                 new == [row[k] EXCEPT !.status = "APPROVED", !.expiresAt = call[h].stamp + GoExpiry]
      <3>1. call[h] \in Call /\ k \in Keys /\ row[k] \in Row /\ call[h].at # "idle"
        BY <2>3 DEF Approve, Running
      <3>2. new \in Row
        <4>1. call[h].stamp \in Nat
          BY <3>1 DEF Call
        <4>2. call[h].stamp + GoExpiry \in Nat /\ "APPROVED" \in Status
          BY <4>1, GoExpiryAssumption DEF Status
        <4> HIDE DEF k
        <4> QED BY <3>1, <4>2 DEF Row
      <3>3. "audit" \in Points /\ call[h].seen \in Row
        BY <1>0, <3>1, <3>2 DEF Points, Call
      <3>4. Transition(h, Matches(k, "WAITING_FOR_GO"), new, call[h].seen, "audit")
        BY <2>3 DEF Approve, ReportsStateWritten, AfterSettling
      <3>5. (Matches(k, "WAITING_FOR_GO")) \in BOOLEAN
        BY DEF Matches, ClaimMatches
      <3> HIDE DEF new, k
      <3>6. /\ row' \in [Keys -> Row]
            /\ moves' \in [Keys -> SUBSET (Status \X Status)]
            /\ call' \in [Calls -> Call]
            /\ Running'
        BY <3>1, <3>2, <3>3, <3>4, <3>5, TransitionType
      <3> QED BY <2>3, <3>6 DEF Approve
    <2>4. CASE Reject(h)
      <3> DEFINE k == call[h].key
                 new == [row[k] EXCEPT !.status = "REJECTED"]
      <3>1. call[h] \in Call /\ k \in Keys /\ row[k] \in Row /\ call[h].at # "idle"
        BY <2>4 DEF Reject, Running
      <3>2. new \in Row
        BY <1>0, <3>1 DEF Row, Status, Call
      <3>3. "audit" \in Points /\ call[h].seen \in Row
        BY <1>0, <3>1, <3>2 DEF Points, Call
      <3>4. Transition(h, Matches(k, "WAITING_FOR_GO"), new, call[h].seen, "audit")
        BY <2>4 DEF Reject, ReportsStateWritten, AfterSettling
      <3>5. (Matches(k, "WAITING_FOR_GO")) \in BOOLEAN
        BY DEF Matches, ClaimMatches
      <3> HIDE DEF new, k
      <3>6. /\ row' \in [Keys -> Row]
            /\ moves' \in [Keys -> SUBSET (Status \X Status)]
            /\ call' \in [Calls -> Call]
            /\ Running'
        BY <3>1, <3>2, <3>3, <3>4, <3>5, TransitionType
      <3> QED BY <2>4, <3>6 DEF Reject
    <2>5. CASE Expire(h)
      <3> DEFINE k == call[h].key
                 new == [row[k] EXCEPT !.status = "EXPIRED"]
      <3>1. call[h] \in Call /\ k \in Keys /\ row[k] \in Row /\ call[h].at # "idle"
        BY <2>5 DEF Expire, Running
      <3>2. new \in Row
        BY <1>0, <3>1 DEF Row, Status, Call
      <3>3. "audit" \in Points /\ call[h].seen \in Row
        BY <1>0, <3>1, <3>2 DEF Points, Call
      <3>4. Transition(h, Matches(k, "APPROVED"), new, call[h].seen, "audit")
        BY <2>5 DEF Expire, ReportsStateWritten, AfterSettling
      <3>5. (Matches(k, "APPROVED")) \in BOOLEAN
        BY DEF Matches, ClaimMatches
      <3> HIDE DEF new, k
      <3>6. /\ row' \in [Keys -> Row]
            /\ moves' \in [Keys -> SUBSET (Status \X Status)]
            /\ call' \in [Calls -> Call]
            /\ Running'
        BY <3>1, <3>2, <3>3, <3>4, <3>5, TransitionType
      <3> QED BY <2>5, <3>6 DEF Expire
    <2>6. CASE Claim(h)
      <3> DEFINE k == call[h].key
                 new == ClaimedRow(k, call[h].seen)
      <3>1. call[h] \in Call /\ k \in Keys /\ row[k] \in Row /\ call[h].at # "idle"
        BY <2>6 DEF Claim, Running
      <3>2. new \in Row
        <4>1. call[h].seen \in Row
          BY <3>1 DEF Call
        <4>2. call[h].seen.executionId \in Nat /\ call[h].seen.attempt + 1 \in Nat
          BY <4>1 DEF Row
        <4>3. "EXECUTING" \in Status
          BY DEF Status
        <4> DEFINE id == IF call[h].seen.executionId # 0
                         THEN call[h].seen.executionId ELSE call[h].seen.attempt + 1
        <4>4. id \in Nat
          BY <4>2
        <4>5. new = [row[k] EXCEPT !.status = "EXECUTING", !.executionId = id,
                                   !.attempt = call[h].seen.attempt + 1]
          BY DEF ClaimedRow
        <4> HIDE DEF id, new, k
        <4> QED BY <3>1, <4>2, <4>3, <4>4, <4>5 DEF Row
      <3>3. "calling" \in Points /\ new \in Row
        BY <1>0, <3>1, <3>2 DEF Points, Call
      <3>4. Transition(h, ClaimMatches(k, call[h].stamp), new, new, "calling")
        BY <2>6 DEF Claim, ReportsStateWritten, AfterSettling
      <3>5. (ClaimMatches(k, call[h].stamp)) \in BOOLEAN
        BY DEF Matches, ClaimMatches
      <3> HIDE DEF new, k
      <3>6. /\ row' \in [Keys -> Row]
            /\ moves' \in [Keys -> SUBSET (Status \X Status)]
            /\ call' \in [Calls -> Call]
            /\ Running'
        BY <3>1, <3>2, <3>3, <3>4, <3>5, TransitionType
      <3> QED BY <2>6, <3>6 DEF Claim
    <2>7. CASE Settle(h)
      <3> DEFINE k == call[h].key
                 new == [row[k] EXCEPT !.status = OutcomeStatus(call[h].verdict)]
      <3>1. call[h] \in Call /\ k \in Keys /\ row[k] \in Row /\ call[h].at # "idle"
        BY <2>7 DEF Settle, Running
      <3>2. new \in Row
        BY <1>0, <3>1 DEF Row, Status, Call, OutcomeStatus
      <3>3. "receipt" \in Points /\ call[h].seen \in Row
        BY <1>0, <3>1, <3>2 DEF Points, Call
      <3>4. Transition(h, Matches(k, "EXECUTING"), new, call[h].seen, "receipt")
        BY <2>7 DEF Settle, ReportsStateWritten, AfterSettling
      <3>5. (Matches(k, "EXECUTING")) \in BOOLEAN
        BY DEF Matches, ClaimMatches
      <3> HIDE DEF new, k
      <3>6. /\ row' \in [Keys -> Row]
            /\ moves' \in [Keys -> SUBSET (Status \X Status)]
            /\ call' \in [Calls -> Call]
            /\ Running'
        BY <3>1, <3>2, <3>3, <3>4, <3>5, TransitionType
      <3> QED BY <2>7, <3>6 DEF Settle
    <2>8. ASSUME NEW m \in {"approve", "reject"}, NEW next \in {"approving", "rejecting"},
                 Check(h, m, next)
          PROVE  TypeInv'
      <3> DEFINE c == [call[h] EXCEPT !.at = next, !.stamp = clock]
      <3>1. call[h] \in Call /\ call[h].key \in Keys /\ next \in Points
        BY <2>8 DEF Check, Running, Points
      <3>2. c \in Call /\ c.key = call[h].key
        BY <3>1 DEF Call
      <3>3. call' = [call EXCEPT ![h] = c] \/ call' = [call EXCEPT ![h] = Idle]
        BY <2>8 DEF Check, Finish
      <3> HIDE DEF c
      <3>4. call' \in [Calls -> Call] /\ Running'
        BY <3>1, <3>2, <3>3, IdleType, MoveOnType
      <3> QED BY <2>8, <3>4 DEF Check
    <2>9. CASE ExecuteCheck(h)
      <3> DEFINE c == [call[h] EXCEPT !.at = "claiming", !.stamp = clock]
                 d == [call[h] EXCEPT !.at = "expiring"]
      <3>1. call[h] \in Call /\ call[h].key \in Keys /\ {"claiming", "expiring"} \subseteq Points
        BY <2>9 DEF ExecuteCheck, Running, Points
      <3>2. c \in Call /\ c.key = call[h].key
        BY <3>1 DEF Call
      <3>3. d \in Call /\ d.key = call[h].key
        BY <3>1 DEF Call
      <3>4. \/ call' = [call EXCEPT ![h] = c]
            \/ call' = [call EXCEPT ![h] = d]
            \/ call' = [call EXCEPT ![h] = Idle]
        BY <2>9 DEF ExecuteCheck, Finish
      <3> HIDE DEF c, d
      <3>5. call' \in [Calls -> Call] /\ Running'
        BY <3>1, <3>2, <3>3, <3>4, IdleType, MoveOnType
      <3> QED BY <2>9, <3>5 DEF ExecuteCheck
    <2>10. CASE CallAdapter(h)
      <3> DEFINE c == [call[h] EXCEPT !.at = "awaiting"]
      <3>1. call[h] \in Call /\ call[h].key \in Keys /\ "awaiting" \in Points
        BY <2>10 DEF CallAdapter, Running, Points
      <3>2. c \in Call /\ c.key = call[h].key /\ call[h].wrote.executionId \in Nat
        BY <3>1 DEF Call, Row
      <3>3. call' = [call EXCEPT ![h] = c]
        BY <2>10 DEF CallAdapter
      <3>4. effects' \in [Keys -> Seq(Nat)]
        BY <2>10, <3>1, <3>2 DEF CallAdapter
      <3> HIDE DEF c
      <3>5. call' \in [Calls -> Call] /\ Running'
        BY <3>1, <3>2, <3>3, MoveOnType
      <3> QED BY <2>10, <3>4, <3>5 DEF CallAdapter
    <2>11. CASE AdapterSettles(h)
      <3>1. PICK v \in {"verified", "failed", "error"} :
              call' = [call EXCEPT ![h] = [@ EXCEPT !.at = "settling", !.verdict = v]]
        BY <2>11 DEF AdapterSettles, AfterAdapter
      <3> DEFINE c == [call[h] EXCEPT !.at = "settling", !.verdict = v]
      <3>2. /\ call[h] \in Call /\ call[h].key \in Keys
            /\ "settling" \in Points /\ v \in Verdict
        BY <2>11 DEF AdapterSettles, Running, Points, Verdict
      <3>3. c \in Call /\ c.key = call[h].key
        BY <3>2 DEF Call
      <3>4. call' = [call EXCEPT ![h] = c]
        BY <3>1
      <3> HIDE DEF c
      <3>5. call' \in [Calls -> Call] /\ Running'
        BY <3>2, <3>3, <3>4, MoveOnType
      <3> QED BY <2>11, <3>5 DEF AdapterSettles
    <2>12. CASE WriteReceipt(h)
      <3> DEFINE c == [call[h] EXCEPT !.at = "auditReceipt"]
                 k == call[h].key
                 r == [verification |-> VerificationOf(call[h].verdict),
                       executionId |-> call[h].wrote.executionId]
      <3>1. call[h] \in Call /\ k \in Keys /\ "auditReceipt" \in Points
        BY <2>12 DEF WriteReceipt, Running, Points
      <3>2. c \in Call /\ c.key = k /\ call[h].wrote.executionId \in Nat
        BY <3>1 DEF Call, Row
      <3>3. r \in Receipt
        BY <3>2 DEF Receipt, Verification, VerificationOf
      <3>4. call' = [call EXCEPT ![h] = c] \/ call' = [call EXCEPT ![h] = Idle]
        BY <2>12 DEF WriteReceipt, Finish
      <3>5. \/ receipt' = [receipt EXCEPT ![k] = r] /\ outbox' = outbox \cup {k}
            \/ UNCHANGED <<receipt, outbox>>
        BY <2>12 DEF WriteReceipt
      <3> HIDE DEF c, r, k
      <3>6. receipt' \in [Keys -> Receipt] /\ outbox' \subseteq Keys
        BY <3>1, <3>3, <3>5
      <3>7. call' \in [Calls -> Call] /\ Running'
        BY <3>1, <3>2, <3>4, IdleType, MoveOnType DEF k
      <3> QED BY <2>12, <3>6, <3>7 DEF WriteReceipt
    <2>13. CASE AuditReceipt(h)
      <3> DEFINE c == [call[h] EXCEPT !.at = "audit"]
                 e == [key |-> call[h].key, action |-> "receipt",
                       previous |-> "NONE", new |-> call[h].wrote.status]
      <3>1. call[h] \in Call /\ call[h].key \in Keys /\ "audit" \in Points
        BY <2>13 DEF AuditReceipt, Running, Points
      <3>2. c \in Call /\ c.key = call[h].key /\ call[h].wrote.status \in Status
        BY <3>1 DEF Call, Row
      <3>3. e \in AuditEvent
        BY <3>1, <3>2 DEF AuditEvent, Status
      <3>4. call' = [call EXCEPT ![h] = c] /\ audit' = Append(audit, e)
        BY <2>13 DEF AuditReceipt
      <3> HIDE DEF c, e
      <3>5. call' \in [Calls -> Call] /\ Running'
        BY <3>1, <3>2, <3>4, MoveOnType
      <3>6. audit' \in Seq(AuditEvent)
        BY <3>3, <3>4, AppendType
      <3> QED BY <2>13, <3>5, <3>6 DEF AuditReceipt
    <2>14. CASE Audit(h)
      <3> DEFINE e == [key |-> call[h].key, action |-> "transition",
                       previous |-> call[h].seen.status, new |-> call[h].wrote.status]
      <3>1. call[h] \in Call /\ call[h].key \in Keys
        BY <2>14 DEF Audit, Running
      <3>2. call[h].seen.status \in Status /\ call[h].wrote.status \in Status
        BY <3>1 DEF Call, Row
      <3>3. e \in AuditEvent
        BY <3>1, <3>2 DEF AuditEvent
      <3>4. call' = [call EXCEPT ![h] = Idle] /\ audit' = Append(audit, e)
        BY <2>14 DEF Audit, Finish
      <3> HIDE DEF e
      <3>5. call' \in [Calls -> Call] /\ Running'
        BY <3>4, IdleType, MoveOnType
      <3>6. audit' \in Seq(AuditEvent)
        BY <3>3, <3>4, AppendType
      <3> QED BY <2>14, <3>5, <3>6 DEF Audit
    <2>15. CASE ApproveCheck(h)
      BY <2>8, <2>15 DEF ApproveCheck
    <2>16. CASE RejectCheck(h)
      BY <2>8, <2>16 DEF RejectCheck
    <2> QED
      BY <1>6, <2>1, <2>2, <2>3, <2>4, <2>5, <2>6, <2>7, <2>9, <2>10, <2>11,
         <2>12, <2>13, <2>14, <2>15, <2>16 DEF Proceed
  <1> QED BY <1>1, <1>2, <1>3, <1>4, <1>5, <1>6 DEF Next, Begin

\* Every variable keeps its type, for any set of calls and keys.
THEOREM TypeCorrect == Spec => []TypeOK
  <1>1. Spec => []TypeInv
    BY InitTypeInv, StepTypeInv, PTL DEF Spec
  <1>2. TypeInv => TypeOK
    BY DEF TypeInv
  <1> QED BY <1>1, <1>2, PTL

-----------------------------------------------------------------------------
(* The kinds of steps, as far as rows, executions and effects go *)

InFlight(c) == c.at \in {"calling", "awaiting", "settling"}

Others(h) == \A g \in Calls : g # h => call'[g] = call[g]

\* A call that executes nothing does something that touches no row.
Aside(h) ==
    /\ ~InFlight(call[h]) /\ ~InFlight(call'[h]) /\ Others(h)
    /\ UNCHANGED <<row, moves, effects, faulted>>

\* The moves a row makes before its execution begins.
EarlyMoves ==
    {<<"NONE", "WAITING_FOR_GO">>, <<"NONE", "REJECTED">>,
     <<"WAITING_FOR_GO", "APPROVED">>, <<"WAITING_FOR_GO", "REJECTED">>,
     <<"APPROVED", "EXPIRED">>}

\* A call moves a row that no call executes.
Prepares(h) ==
    /\ ~InFlight(call[h]) /\ ~InFlight(call'[h]) /\ Others(h)
    /\ \E k \in Keys, new \in Row :
          /\ <<row[k].status, new.status>> \in EarlyMoves
          /\ Write(k, new)
    /\ UNCHANGED <<effects, faulted>>

\* A call begins to execute.
Begins(h) ==
    /\ ~InFlight(call[h]) /\ Others(h)
    /\ \E k \in Keys, new \in Row :
          /\ row[k].status = "APPROVED" /\ new.status = "EXECUTING"
          /\ Write(k, new)
          /\ call'[h].at = "calling" /\ call'[h].key = k /\ call'[h].wrote = new
    /\ UNCHANGED <<effects, faulted>>

\* The adapter is called for the row the call claimed, or answers.
Performs(h) ==
    /\ call[h].at = "calling" /\ Others(h)
    /\ effects' = [effects EXCEPT ![call[h].key] = Append(@, call[h].wrote.executionId)]
    /\ call'[h].at = "awaiting" /\ call'[h].key = call[h].key
    /\ call'[h].wrote = call[h].wrote
    /\ UNCHANGED <<row, moves, faulted>>

Answers(h) ==
    /\ call[h].at = "awaiting" /\ Others(h)
    /\ call'[h].at = "settling" /\ call'[h].key = call[h].key
    /\ call'[h].wrote = call[h].wrote
    /\ UNCHANGED <<row, moves, effects, faulted>>

\* The outcome is written, unless the row is EXECUTING no more.
Settles(h) ==
    /\ call[h].at = "settling" /\ ~InFlight(call'[h]) /\ Others(h)
    /\ \/ /\ row[call[h].key].status = "EXECUTING"
          /\ \E s \in {"EXECUTED", "FAILED"} :
                Write(call[h].key, [row[call[h].key] EXCEPT !.status = s])
       \/ /\ row[call[h].key].status # "EXECUTING"
          /\ UNCHANGED <<row, moves>>
    /\ UNCHANGED <<effects, faulted>>

\* A call is lost.
IsLost(h) ==
    /\ call[h].at # "idle" /\ ~InFlight(call'[h]) /\ Others(h)
    /\ faulted' = faulted \cup {call[h].key}
    /\ UNCHANGED <<row, moves, effects>>

\* What a call that finishes looks like.
LEMMA FinishFacts ==
  ASSUME TypeInv, NEW h \in Calls, call' = [call EXCEPT ![h] = Idle]
  PROVE  ~InFlight(call'[h]) /\ Others(h)
  BY IdleType DEF TypeInv, TypeOK, InFlight, Others

\* What a conditional update does to the calls.
LEMMA TransitionFacts ==
  ASSUME TypeInv, TypeInv', NEW h \in Calls, call[h].at # "idle",
         NEW m \in BOOLEAN, NEW new, NEW previous,
         NEW next \in Points, Transition(h, m, new, previous, next)
  PROVE  /\ Others(h) /\ call[h].key \in Keys
         /\ \/ /\ m /\ Write(call[h].key, new) /\ new \in Row
               /\ call'[h].at = next /\ call'[h].key = call[h].key
               /\ call'[h].wrote = new
            \/ /\ ~m /\ UNCHANGED <<row, moves>> /\ ~InFlight(call'[h])
  <1> USE DEF TypeInv, TypeOK
  <1>1. CASE m
    <2> DEFINE c == [call[h] EXCEPT !.at = next, !.seen = previous,
                                    !.wrote = new, !.stamp = 0]
    <2>1. call' = [call EXCEPT ![h] = c] /\ Write(call[h].key, new)
      BY <1>1 DEF Transition
    <2>2. c.at = next /\ c.key = call[h].key /\ c.wrote = new
      BY DEF Call
    <2> HIDE DEF c
    <2>3. call[h].key \in Keys
      BY DEF Running
    <2>4. row'[call[h].key] = new /\ row'[call[h].key] \in Row
      BY <2>1, <2>3 DEF Write
    <2> QED BY <1>1, <2>1, <2>2, <2>3, <2>4 DEF Others
  <1>2. CASE ~m
    BY <1>2, FinishFacts DEF Transition, Finish, Running
  <1> QED BY <1>1, <1>2

\* The steps of a call that only move it on.
LEMMA AsideSteps ==
  ASSUME TypeInv, NEW h \in Calls,
         \/ \E k \in Keys : RequestLookup(h, k)
         \/ \E k \in Keys : \E m \in {"approve", "reject", "execute"} : Read(h, k, m)
         \/ RequestDecide(h) \/ ApproveCheck(h) \/ RejectCheck(h) \/ ExecuteCheck(h)
         \/ WriteReceipt(h) \/ AuditReceipt(h) \/ Audit(h)
  PROVE  Aside(h)
  <1> USE DEF TypeInv, TypeOK
  <1>0. call \in [Calls -> Call] /\ call[h] \in Call
    OBVIOUS
  <1>1. CASE \E k \in Keys : RequestLookup(h, k)
    <2>1. PICK k \in Keys : RequestLookup(h, k)
      BY <1>1
    <2> DEFINE c == [Idle EXCEPT !.at = "decide", !.key = k, !.begun = clock]
    <2>2. c.at = "decide" /\ call' = [call EXCEPT ![h] = c] /\ call[h].at = "idle"
      BY <2>1 DEF RequestLookup, Idle
    <2> HIDE DEF c
    <2> QED BY <1>0, <2>1, <2>2 DEF RequestLookup, Aside, Others, InFlight
  <1>2. CASE \E k \in Keys : \E m \in {"approve", "reject", "execute"} : Read(h, k, m)
    <2>1. PICK k \in Keys, m \in {"approve", "reject", "execute"} : Read(h, k, m)
      BY <1>2
    <2> DEFINE c == [Idle EXCEPT !.at = m, !.key = k, !.seen = row[k], !.begun = clock]
    <2>2. c.at = m /\ call' = [call EXCEPT ![h] = c] /\ call[h].at = "idle"
      BY <2>1 DEF Read, Idle
    <2> HIDE DEF c
    <2> QED BY <1>0, <2>1, <2>2 DEF Read, Aside, Others, InFlight
  <1>3. CASE RequestDecide(h)
    <2>1. PICK v \in {"allow", "deny"} :
            call' = [call EXCEPT ![h] = [@ EXCEPT !.at = "create", !.verdict = v]]
      BY <1>3 DEF RequestDecide
    <2> DEFINE c == [call[h] EXCEPT !.at = "create", !.verdict = v]
    <2>2. c.at = "create"
      BY <1>0 DEF Call
    <2>3. call' = [call EXCEPT ![h] = c]
      BY <2>1
    <2> HIDE DEF c
    <2> QED BY <1>0, <1>3, <2>2, <2>3 DEF RequestDecide, Aside, Others, InFlight
  <1>4. ASSUME NEW m \in {"approve", "reject"}, NEW next \in {"approving", "rejecting"},
               Check(h, m, next)
        PROVE  Aside(h)
    <2> DEFINE c == [call[h] EXCEPT !.at = next, !.stamp = clock]
    <2>1. c.at = next
      BY <1>0 DEF Call
    <2>2. call' = [call EXCEPT ![h] = c] \/ call' = [call EXCEPT ![h] = Idle]
      BY <1>4 DEF Check, Finish
    <2> HIDE DEF c
    <2> QED BY <1>0, <1>4, <2>1, <2>2, IdleType DEF Check, Aside, Others, InFlight
  <1>5. CASE ExecuteCheck(h)
    <2> DEFINE c == [call[h] EXCEPT !.at = "claiming", !.stamp = clock]
               d == [call[h] EXCEPT !.at = "expiring"]
    <2>1. c.at = "claiming" /\ d.at = "expiring"
      BY <1>0 DEF Call
    <2>2. \/ call' = [call EXCEPT ![h] = c]
          \/ call' = [call EXCEPT ![h] = d]
          \/ call' = [call EXCEPT ![h] = Idle]
      BY <1>5 DEF ExecuteCheck, Finish
    <2> HIDE DEF c, d
    <2> QED BY <1>0, <1>5, <2>1, <2>2, IdleType DEF ExecuteCheck, Aside, Others, InFlight
  <1>6. CASE WriteReceipt(h)
    <2> DEFINE c == [call[h] EXCEPT !.at = "auditReceipt"]
    <2>1. c.at = "auditReceipt"
      BY <1>0 DEF Call
    <2>2. call' = [call EXCEPT ![h] = c] \/ call' = [call EXCEPT ![h] = Idle]
      BY <1>6 DEF WriteReceipt, Finish
    <2> HIDE DEF c
    <2> QED BY <1>0, <1>6, <2>1, <2>2, IdleType DEF WriteReceipt, Aside, Others, InFlight
  <1>7. CASE AuditReceipt(h)
    <2> DEFINE c == [call[h] EXCEPT !.at = "audit"]
    <2>1. c.at = "audit" /\ call' = [call EXCEPT ![h] = c]
      BY <1>0, <1>7 DEF Call, AuditReceipt
    <2> HIDE DEF c
    <2> QED BY <1>0, <1>7, <2>1 DEF AuditReceipt, Aside, Others, InFlight
  <1>8. CASE Audit(h)
    BY <1>0, <1>8, IdleType DEF Audit, Finish, Aside, Others, InFlight
  <1>9. CASE ApproveCheck(h) \/ RejectCheck(h)
    BY <1>4, <1>9 DEF ApproveCheck, RejectCheck
  <1> QED BY <1>1, <1>2, <1>3, <1>5, <1>6, <1>7, <1>8, <1>9

\* Every step is one of the kinds.
LEMMA StepKinds ==
  ASSUME TypeInv, TypeInv', [Next]_vars
  PROVE  \/ UNCHANGED <<row, moves, effects, faulted, call>>
         \/ \E h \in Calls :
               \/ Aside(h) \/ Prepares(h) \/ Begins(h) \/ Performs(h)
               \/ Answers(h) \/ Settles(h) \/ IsLost(h)
  <1> USE DEF TypeInv, TypeOK
  <1>1. CASE UNCHANGED vars
    BY <1>1 DEF vars
  <1>2. CASE Tick
    BY <1>2 DEF Tick
  <1>3. ASSUME NEW h \in Calls, Begin(h) PROVE Aside(h)
    BY <1>3, AsideSteps DEF Begin
  <1>4. ASSUME NEW h \in Calls, Lose(h) PROVE IsLost(h)
    BY <1>4, FinishFacts DEF Lose, Finish, IsLost
  <1>5. ASSUME NEW h \in Calls, Proceed(h)
        PROVE  \/ Aside(h) \/ Prepares(h) \/ Begins(h) \/ Performs(h)
               \/ Answers(h) \/ Settles(h)
    <2> DEFINE k == call[h].key
    <2>0. /\ call[h] \in Call
          /\ {"audit", "calling", "receipt"} \subseteq Points
      BY DEF Points
    <2>a. call[h].at # "idle" => k \in Keys /\ row[k] \in Row
      BY DEF Running
    <2>1. CASE RequestCreate(h)
      <3> DEFINE new == [NoRow EXCEPT !.status = BirthStatus(call[h].verdict)]
                 m == Matches(k, "NONE")
      <3>1. Transition(h, m, new, NoRow, "audit")
        BY <2>1 DEF RequestCreate, ReportsStateWritten, AfterSettling
      <3>2. new.status \in {"WAITING_FOR_GO", "REJECTED"}
        BY <2>0 DEF BirthStatus, NoRow
      <3>3. call[h].at = "create" /\ UNCHANGED <<effects, faulted>> /\ m \in BOOLEAN
        BY <2>1 DEF RequestCreate, Matches, ClaimMatches
      <3>4. m => row[k].status = "NONE"
        BY DEF Matches, ClaimMatches
      <3> HIDE DEF new, m
      <3>5. /\ Others(h) /\ k \in Keys
            /\ \/ /\ m /\ Write(k, new) /\ new \in Row
                  /\ call'[h].at = "audit" /\ call'[h].key = k /\ call'[h].wrote = new
               \/ /\ ~m /\ UNCHANGED <<row, moves>> /\ ~InFlight(call'[h])
        BY <2>0, <3>1, <3>3, TransitionFacts
      <3> QED
        BY <3>2, <3>3, <3>4, <3>5 DEF Prepares, Aside, InFlight, EarlyMoves
    <2>2. CASE Approve(h)
      <3> DEFINE new == [row[k] EXCEPT !.status = "APPROVED", !.expiresAt = call[h].stamp + GoExpiry]
                 was == call[h].seen
                 m == Matches(k, "WAITING_FOR_GO")
      <3>1. Transition(h, m, new, was, "audit")
        BY <2>2 DEF Approve, ReportsStateWritten, AfterSettling
      <3>2. new.status = "APPROVED"
        BY <2>a, <2>0 DEF Row
      <3>3. call[h].at = "approving" /\ UNCHANGED <<effects, faulted>> /\ m \in BOOLEAN
        BY <2>2 DEF Approve, Matches, ClaimMatches
      <3>4. m => row[k].status = "WAITING_FOR_GO"
        BY DEF Matches, ClaimMatches
      <3> HIDE DEF new, m, was
      <3>5. /\ Others(h) /\ k \in Keys
            /\ \/ /\ m /\ Write(k, new) /\ new \in Row
                  /\ call'[h].at = "audit" /\ call'[h].key = k /\ call'[h].wrote = new
               \/ /\ ~m /\ UNCHANGED <<row, moves>> /\ ~InFlight(call'[h])
        BY <2>0, <3>1, <3>3, TransitionFacts
      <3> QED
        BY <3>2, <3>3, <3>4, <3>5 DEF Prepares, Aside, InFlight, EarlyMoves
    <2>3. CASE Reject(h)
      <3> DEFINE new == [row[k] EXCEPT !.status = "REJECTED"]
                 was == call[h].seen
                 m == Matches(k, "WAITING_FOR_GO")
      <3>1. Transition(h, m, new, was, "audit")
        BY <2>3 DEF Reject, ReportsStateWritten, AfterSettling
      <3>2. new.status = "REJECTED"
        BY <2>a, <2>0 DEF Row
      <3>3. call[h].at = "rejecting" /\ UNCHANGED <<effects, faulted>> /\ m \in BOOLEAN
        BY <2>3 DEF Reject, Matches, ClaimMatches
      <3>4. m => row[k].status = "WAITING_FOR_GO"
        BY DEF Matches, ClaimMatches
      <3> HIDE DEF new, m, was
      <3>5. /\ Others(h) /\ k \in Keys
            /\ \/ /\ m /\ Write(k, new) /\ new \in Row
                  /\ call'[h].at = "audit" /\ call'[h].key = k /\ call'[h].wrote = new
               \/ /\ ~m /\ UNCHANGED <<row, moves>> /\ ~InFlight(call'[h])
        BY <2>0, <3>1, <3>3, TransitionFacts
      <3> QED
        BY <3>2, <3>3, <3>4, <3>5 DEF Prepares, Aside, InFlight, EarlyMoves
    <2>4. CASE Expire(h)
      <3> DEFINE new == [row[k] EXCEPT !.status = "EXPIRED"]
                 was == call[h].seen
                 m == Matches(k, "APPROVED")
      <3>1. Transition(h, m, new, was, "audit")
        BY <2>4 DEF Expire, ReportsStateWritten, AfterSettling
      <3>2. new.status = "EXPIRED"
        BY <2>a, <2>0 DEF Row
      <3>3. call[h].at = "expiring" /\ UNCHANGED <<effects, faulted>> /\ m \in BOOLEAN
        BY <2>4 DEF Expire, Matches, ClaimMatches
      <3>4. m => row[k].status = "APPROVED"
        BY DEF Matches, ClaimMatches
      <3> HIDE DEF new, m, was
      <3>5. /\ Others(h) /\ k \in Keys
            /\ \/ /\ m /\ Write(k, new) /\ new \in Row
                  /\ call'[h].at = "audit" /\ call'[h].key = k /\ call'[h].wrote = new
               \/ /\ ~m /\ UNCHANGED <<row, moves>> /\ ~InFlight(call'[h])
        BY <2>0, <3>1, <3>3, TransitionFacts
      <3> QED
        BY <3>2, <3>3, <3>4, <3>5 DEF Prepares, Aside, InFlight, EarlyMoves
    <2>5. CASE Claim(h)
      <3> DEFINE new == ClaimedRow(k, call[h].seen)
                 m == ClaimMatches(k, call[h].stamp)
      <3>1. Transition(h, m, new, new, "calling")
        BY <2>5 DEF Claim, ReportsStateWritten, AfterSettling
      <3>2. new.status = "EXECUTING"
        BY <2>a, <2>0 DEF Row, ClaimedRow
      <3>3. call[h].at = "claiming" /\ UNCHANGED <<effects, faulted>> /\ m \in BOOLEAN
        BY <2>5 DEF Claim, Matches, ClaimMatches
      <3>4. m => row[k].status = "APPROVED"
        BY DEF Matches, ClaimMatches
      <3> HIDE DEF new, m
      <3>5. /\ Others(h) /\ k \in Keys
            /\ \/ /\ m /\ Write(k, new) /\ new \in Row
                  /\ call'[h].at = "calling" /\ call'[h].key = k /\ call'[h].wrote = new
               \/ /\ ~m /\ UNCHANGED <<row, moves>> /\ ~InFlight(call'[h])
        BY <2>0, <3>1, <3>3, TransitionFacts
      <3> QED
        BY <3>2, <3>3, <3>4, <3>5 DEF Begins, Aside, InFlight
    <2>6. CASE CallAdapter(h)
      <3> DEFINE c == [call[h] EXCEPT !.at = "awaiting"]
      <3>1. c.at = "awaiting" /\ c.key = k /\ c.wrote = call[h].wrote
        BY <2>0 DEF Call
      <3>2. call' = [call EXCEPT ![h] = c]
        BY <2>6 DEF CallAdapter
      <3> HIDE DEF c
      <3> QED BY <2>6, <3>1, <3>2 DEF CallAdapter, Performs, Others
    <2>7. CASE AdapterSettles(h)
      <3>1. PICK v \in {"verified", "failed", "error"} :
              call' = [call EXCEPT ![h] = [@ EXCEPT !.at = "settling", !.verdict = v]]
        BY <2>7 DEF AdapterSettles, AfterAdapter
      <3> DEFINE c == [call[h] EXCEPT !.at = "settling", !.verdict = v]
      <3>2. c.at = "settling" /\ c.key = k /\ c.wrote = call[h].wrote
        BY <2>0 DEF Call
      <3>3. call' = [call EXCEPT ![h] = c]
        BY <3>1
      <3> HIDE DEF c
      <3> QED BY <2>7, <3>2, <3>3 DEF AdapterSettles, Answers, Others
    <2>8. CASE Settle(h)
      <3> DEFINE s == OutcomeStatus(call[h].verdict)
                 new == [row[k] EXCEPT !.status = s]
                 was == call[h].seen
                 m == Matches(k, "EXECUTING")
      <3>1. Transition(h, m, new, was, "receipt")
        BY <2>8 DEF Settle, AfterSettling
      <3>2. s \in {"EXECUTED", "FAILED"}
        BY DEF OutcomeStatus
      <3>3. call[h].at = "settling" /\ UNCHANGED <<effects, faulted>> /\ m \in BOOLEAN
        BY <2>8 DEF Settle, Matches
      <3>4. m <=> row[k].status = "EXECUTING"
        BY DEF Matches
      <3> HIDE DEF new, m, was, s
      <3>5. /\ Others(h) /\ k \in Keys
            /\ \/ /\ m /\ Write(k, new) /\ new \in Row
                  /\ call'[h].at = "receipt" /\ call'[h].key = k /\ call'[h].wrote = new
               \/ /\ ~m /\ UNCHANGED <<row, moves>> /\ ~InFlight(call'[h])
        BY <2>0, <3>1, <3>3, TransitionFacts
      <3>6. m => \E t \in {"EXECUTED", "FAILED"} : Write(k, [row[k] EXCEPT !.status = t])
        BY <3>2, <3>5 DEF new
      <3> QED BY <3>3, <3>4, <3>5, <3>6 DEF Settles, InFlight
    <2>9. CASE \/ RequestDecide(h) \/ ApproveCheck(h) \/ RejectCheck(h) \/ ExecuteCheck(h)
               \/ WriteReceipt(h) \/ AuditReceipt(h) \/ Audit(h)
      BY <2>9, AsideSteps
    <2> QED
      BY <1>5, <2>1, <2>2, <2>3, <2>4, <2>5, <2>6, <2>7, <2>8, <2>9 DEF Proceed
  <1> QED BY <1>1, <1>2, <1>3, <1>4, <1>5 DEF Next

-----------------------------------------------------------------------------
(* Ownership of executions: ExecutionOwned is inductive over the step kinds *)

LEMMA InitOwned == Init => ExecutionOwned
  BY DEF Init, ExecutionOwned, Executing, Idle, NoRow

LEMMA StepOwned ==
  ASSUME TypeInv, TypeInv', ExecutionOwned, [Next]_vars
  PROVE  ExecutionOwned'
  <1> USE DEF TypeInv, TypeOK
  <1> DEFINE Ex(g, k) == call[g].key = k /\ InFlight(call[g])
             Owned(k) ==
               /\ \A g, h \in Calls : Ex(g, k) /\ Ex(h, k) => g = h
               /\ \A h \in Calls : Ex(h, k) => row[k].status = "EXECUTING"
               /\ row[k].status = "EXECUTING" =>
                     k \in faulted \/ \E h \in Calls : Ex(h, k)
  <1>a. \A k \in Keys : Owned(k)
    BY DEF ExecutionOwned, Executing, InFlight
  <1>b. SUFFICES ASSUME NEW k \in Keys PROVE Owned(k)'
    BY DEF ExecutionOwned, Executing, InFlight
  <1>c. Owned(k)
    BY <1>a
  <1>0. CASE UNCHANGED <<row, moves, effects, faulted, call>>
    BY <1>0, <1>c DEF InFlight
  <1>1. ASSUME NEW h \in Calls, Aside(h) PROVE Owned(k)'
    <2>1. \A g \in Calls : Ex(g, k)' <=> Ex(g, k)
      BY <1>1 DEF Aside, Others, InFlight
    <2> QED BY <1>1, <1>c, <2>1 DEF Aside
  <1>2. ASSUME NEW h \in Calls, Prepares(h) PROVE Owned(k)'
    <2>1. \A g \in Calls : Ex(g, k)' <=> Ex(g, k)
      BY <1>2 DEF Prepares, Others, InFlight
    <2>2. row'[k].status = "EXECUTING" <=> row[k].status = "EXECUTING"
      BY <1>2 DEF Prepares, Write, EarlyMoves
    <2> QED BY <1>2, <1>c, <2>1, <2>2 DEF Prepares
  <1>3. ASSUME NEW h \in Calls, Begins(h) PROVE Owned(k)'
    <2>1. PICK j \in Keys, new \in Row :
            /\ row[j].status = "APPROVED" /\ new.status = "EXECUTING"
            /\ Write(j, new)
            /\ call'[h].at = "calling" /\ call'[h].key = j
      BY <1>3 DEF Begins
    <2>2. CASE j = k
      <3>1. row'[k].status = "EXECUTING" /\ row[k].status # "EXECUTING"
        BY <2>1, <2>2 DEF Write
      <3>2. \A g \in Calls : Ex(g, k)' <=> g = h
        BY <1>3, <1>c, <2>1, <2>2, <3>1 DEF Begins, Others, InFlight
      <3> QED BY <3>1, <3>2
    <2>3. CASE j # k
      <3>1. row'[k] = row[k]
        BY <2>1, <2>3 DEF Write
      <3>2. \A g \in Calls : Ex(g, k)' <=> Ex(g, k)
        BY <1>3, <2>1, <2>3 DEF Begins, Others, InFlight
      <3> QED BY <1>3, <1>c, <3>1, <3>2 DEF Begins
    <2> QED BY <2>2, <2>3
  <1>4. ASSUME NEW h \in Calls, Performs(h) \/ Answers(h) PROVE Owned(k)'
    <2>1. \A g \in Calls : Ex(g, k)' <=> Ex(g, k)
      BY <1>4 DEF Performs, Answers, Others, InFlight
    <2> QED BY <1>4, <1>c, <2>1 DEF Performs, Answers
  <1>5. ASSUME NEW h \in Calls, Settles(h) PROVE Owned(k)'
    <2>1. CASE call[h].key = k
      <3>1. Ex(h, k) /\ ~Ex(h, k)' /\ row[k].status = "EXECUTING"
        BY <1>5, <1>c, <2>1 DEF Settles, InFlight
      <3>2. \A g \in Calls : ~Ex(g, k)'
        BY <1>5, <1>c, <3>1 DEF Settles, Others, InFlight
      <3>3. row'[k].status # "EXECUTING"
        BY <1>5, <2>1, <3>1 DEF Settles, Write, Row
      <3> QED BY <3>2, <3>3
    <2>2. CASE call[h].key # k
      <3>1. \A g \in Calls : Ex(g, k)' <=> Ex(g, k)
        BY <1>5, <2>2 DEF Settles, Others, InFlight
      <3>2. row'[k] = row[k]
        BY <1>5, <2>2 DEF Settles, Write
      <3> QED BY <1>5, <1>c, <3>1, <3>2 DEF Settles
    <2> QED BY <2>1, <2>2
  <1>6. ASSUME NEW h \in Calls, IsLost(h) PROVE Owned(k)'
    <2>1. \A g \in Calls : g # h => (Ex(g, k)' <=> Ex(g, k))
      BY <1>6 DEF IsLost, Others, InFlight
    <2>2. ~Ex(h, k)' /\ (Ex(h, k) => k \in faulted') /\ faulted \subseteq faulted'
      BY <1>6 DEF IsLost
    <2> QED BY <1>6, <1>c, <2>1, <2>2 DEF IsLost
  <1> QED
    BY <1>0, <1>1, <1>2, <1>3, <1>4, <1>5, <1>6, StepKinds

\* An EXECUTING row is owned by exactly one running execute call unless a call
\* on it was lost: for any number of calls and requests (GoGateService.execute).
THEOREM ExecutionIsOwned == Spec => []ExecutionOwned
  <1>1. TypeInv /\ TypeInv' /\ ExecutionOwned /\ [Next]_vars => ExecutionOwned'
    BY StepOwned
  <1> QED BY InitTypeInv, StepTypeInv, InitOwned, <1>1, PTL DEF Spec

-----------------------------------------------------------------------------
(* At most one effect.  EffectOnceAndApproved is not inductive: nothing in   *)
(* it says that a claimed row has no effect yet, nor that the call that runs *)
(* the adapter holds the row's execution id.                                 *)

EffectsOf(k) ==
    /\ row[k].status \notin {"EXECUTING", "EXECUTED", "FAILED"} => effects[k] = <<>>
    /\ effects[k] # <<>> => effects[k] = <<row[k].executionId>>
    /\ row[k].status \in {"APPROVED", "EXPIRED", "EXECUTING", "EXECUTED", "FAILED"} =>
          <<"WAITING_FOR_GO", "APPROVED">> \in moves[k]

FlightOf(h, k) ==
    call[h].key = k /\ InFlight(call[h]) =>
        /\ call[h].wrote.executionId = row[k].executionId
        /\ call[h].at = "calling" <=> effects[k] = <<>>

EffectsInv ==
    \A k \in Keys : EffectsOf(k) /\ \A h \in Calls : FlightOf(h, k)

LEMMA InitEffects == Init => EffectsInv
  BY DEF Init, EffectsInv, EffectsOf, FlightOf, InFlight, Idle, NoRow

LEMMA StepEffects ==
  ASSUME TypeInv, TypeInv', ExecutionOwned, EffectsInv, [Next]_vars
  PROVE  EffectsInv'
  <1> USE DEF TypeInv, TypeOK
  <1>a. /\ \A g, h \in Calls, k \in Keys :
             call[g].key = k /\ call[h].key = k /\ InFlight(call[g]) /\ InFlight(call[h]) => g = h
        /\ \A h \in Calls, k \in Keys :
             call[h].key = k /\ InFlight(call[h]) => row[k].status = "EXECUTING"
    BY DEF ExecutionOwned, Executing, InFlight
  <1>b. SUFFICES ASSUME NEW k \in Keys
                 PROVE  EffectsOf(k)' /\ \A g \in Calls : FlightOf(g, k)'
    BY DEF EffectsInv
  <1>c. EffectsOf(k) /\ \A g \in Calls : FlightOf(g, k)
    BY DEF EffectsInv
  <1>d. \A g \in Calls : call[g].at # "idle" => call[g].key \in Keys
    BY DEF Running
  <1>0. CASE UNCHANGED <<row, moves, effects, faulted, call>>
    BY <1>0, <1>c DEF EffectsOf, FlightOf, InFlight
  <1>1. ASSUME NEW h \in Calls, Aside(h)
        PROVE  EffectsOf(k)' /\ \A g \in Calls : FlightOf(g, k)'
    <2>1. EffectsOf(k)'
      BY <1>1, <1>c DEF Aside, EffectsOf
    <2>2. ASSUME NEW g \in Calls PROVE FlightOf(g, k)'
      <3>1. CASE g = h
        BY <1>1, <3>1 DEF Aside, FlightOf, InFlight
      <3>2. CASE g # h
        BY <1>1, <1>c, <3>2 DEF Aside, Others, FlightOf, InFlight
      <3> QED BY <3>1, <3>2
    <2> QED BY <2>1, <2>2
  <1>2. ASSUME NEW h \in Calls, Prepares(h)
        PROVE  EffectsOf(k)' /\ \A g \in Calls : FlightOf(g, k)'
    <2>1. PICK j \in Keys, new \in Row :
            <<row[j].status, new.status>> \in EarlyMoves /\ Write(j, new)
      BY <1>2 DEF Prepares
    <2>2. EffectsOf(k)'
      <3>1. CASE j = k
        BY <1>2, <1>c, <2>1, <3>1 DEF Prepares, EffectsOf, EarlyMoves, Write
      <3>2. CASE j # k
        BY <1>2, <1>c, <2>1, <3>2 DEF Prepares, EffectsOf, Write
      <3> QED BY <3>1, <3>2
    <2>3. ASSUME NEW g \in Calls PROVE FlightOf(g, k)'
      <3>1. CASE g = h
        BY <1>2, <3>1 DEF Prepares, FlightOf, InFlight
      <3>2. CASE g # h /\ call[g].key = k /\ InFlight(call[g])
        <4>1. j # k
          BY <1>a, <2>1, <3>2 DEF EarlyMoves
        <4> QED BY <1>2, <1>c, <2>1, <3>2, <4>1 DEF Prepares, Others, FlightOf, InFlight, Write
      <3>3. CASE g # h /\ ~(call[g].key = k /\ InFlight(call[g]))
        BY <1>2, <3>3 DEF Prepares, Others, FlightOf, InFlight
      <3> QED BY <3>1, <3>2, <3>3
    <2> QED BY <2>2, <2>3
  <1>3. ASSUME NEW h \in Calls, Begins(h)
        PROVE  EffectsOf(k)' /\ \A g \in Calls : FlightOf(g, k)'
    <2>1. PICK j \in Keys, new \in Row :
            /\ row[j].status = "APPROVED" /\ new.status = "EXECUTING"
            /\ Write(j, new)
            /\ call'[h].at = "calling" /\ call'[h].key = j /\ call'[h].wrote = new
      BY <1>3 DEF Begins
    <2>2. effects' = effects
      BY <1>3 DEF Begins
    <2>3. EffectsOf(k)'
      <3>1. CASE j = k
        BY <1>c, <2>1, <2>2, <3>1 DEF EffectsOf, Write
      <3>2. CASE j # k
        BY <1>c, <2>1, <2>2, <3>2 DEF EffectsOf, Write
      <3> QED BY <3>1, <3>2
    <2>4. ASSUME NEW g \in Calls PROVE FlightOf(g, k)'
      <3>1. CASE g = h
        BY <1>c, <2>1, <2>2, <3>1 DEF EffectsOf, FlightOf, Write
      <3>2. CASE g # h /\ call[g].key = k /\ InFlight(call[g])
        <4>1. j # k
          BY <1>a, <2>1, <3>2
        <4> QED BY <1>3, <1>c, <2>1, <2>2, <3>2, <4>1 DEF Begins, Others, FlightOf, InFlight, Write
      <3>3. CASE g # h /\ ~(call[g].key = k /\ InFlight(call[g]))
        BY <1>3, <3>3 DEF Begins, Others, FlightOf, InFlight
      <3> QED BY <3>1, <3>2, <3>3
    <2> QED BY <2>3, <2>4
  <1>4. ASSUME NEW h \in Calls, Performs(h)
        PROVE  EffectsOf(k)' /\ \A g \in Calls : FlightOf(g, k)'
    <2>1. CASE call[h].key = k
      <3>1. /\ effects[k] = <<>> /\ row[k].status = "EXECUTING"
            /\ call[h].wrote.executionId = row[k].executionId
        BY <1>4, <1>a, <1>c, <2>1 DEF Performs, FlightOf, InFlight
      <3>2. effects'[k] = <<row[k].executionId>> /\ row' = row /\ moves' = moves
        BY <1>4, <2>1, <3>1 DEF Performs
      <3>3. EffectsOf(k)'
        BY <1>c, <3>1, <3>2 DEF EffectsOf
      <3>4. \A g \in Calls : g # h => ~(call'[g].key = k /\ InFlight(call'[g]))
        BY <1>4, <1>a, <2>1 DEF Performs, Others, InFlight
      <3>5. FlightOf(h, k)'
        <4>1. call'[h].at = "awaiting" /\ call'[h].wrote.executionId = row'[k].executionId
          BY <1>4, <3>1, <3>2 DEF Performs
        <4>2. effects'[k] # <<>>
          BY <3>2
        <4> QED BY <4>1, <4>2 DEF FlightOf
      <3> QED BY <3>3, <3>4, <3>5 DEF FlightOf
    <2>2. CASE call[h].key # k
      <3>1. effects'[k] = effects[k] /\ row' = row /\ moves' = moves
        BY <1>4, <1>d, <2>2 DEF Performs
      <3> QED BY <1>4, <1>c, <2>2, <3>1 DEF Performs, Others, EffectsOf, FlightOf, InFlight
    <2> QED BY <2>1, <2>2
  <1>5. ASSUME NEW h \in Calls, Answers(h)
        PROVE  EffectsOf(k)' /\ \A g \in Calls : FlightOf(g, k)'
    <2>1. EffectsOf(k)'
      BY <1>5, <1>c DEF Answers, EffectsOf
    <2>2. FlightOf(h, k)'
      BY <1>5, <1>c DEF Answers, FlightOf, InFlight
    <2>3. \A g \in Calls : g # h => FlightOf(g, k)'
      BY <1>5, <1>c DEF Answers, Others, FlightOf, InFlight
    <2> QED BY <2>1, <2>2, <2>3
  <1>6. ASSUME NEW h \in Calls, Settles(h)
        PROVE  EffectsOf(k)' /\ \A g \in Calls : FlightOf(g, k)'
    <2>1. CASE call[h].key = k
      <3>1. PICK s \in {"EXECUTED", "FAILED"} : Write(k, [row[k] EXCEPT !.status = s])
        BY <1>6, <1>a, <2>1 DEF Settles, InFlight
      <3>2. /\ row'[k].status = s /\ row'[k].executionId = row[k].executionId
            /\ effects' = effects /\ moves[k] \subseteq moves'[k]
        BY <1>6, <3>1 DEF Settles, Write, Row
      <3>3. row[k].status = "EXECUTING"
        BY <1>6, <1>a, <2>1 DEF Settles, InFlight
      <3>4. EffectsOf(k)'
        BY <1>c, <3>2, <3>3 DEF EffectsOf
      <3>5. \A g \in Calls : ~(call'[g].key = k /\ InFlight(call'[g]))
        BY <1>6, <1>a, <2>1 DEF Settles, Others, InFlight
      <3> QED BY <3>4, <3>5 DEF FlightOf
    <2>2. CASE call[h].key # k
      <3>1. row'[k] = row[k] /\ moves'[k] = moves[k] /\ effects' = effects
        BY <1>6, <2>2 DEF Settles, Write
      <3> QED BY <1>6, <1>c, <2>2, <3>1 DEF Settles, Others, EffectsOf, FlightOf, InFlight
    <2> QED BY <2>1, <2>2
  <1>7. ASSUME NEW h \in Calls, IsLost(h)
        PROVE  EffectsOf(k)' /\ \A g \in Calls : FlightOf(g, k)'
    <2>1. EffectsOf(k)'
      BY <1>7, <1>c DEF IsLost, EffectsOf
    <2>2. FlightOf(h, k)' /\ \A g \in Calls : g # h => FlightOf(g, k)'
      BY <1>7, <1>c DEF IsLost, Others, FlightOf, InFlight
    <2> QED BY <2>1, <2>2
  <1> QED
    BY <1>0, <1>1, <1>2, <1>3, <1>4, <1>5, <1>6, <1>7, StepKinds

\* The external action runs at most once per request, only after a recorded
\* approval and under the row's execution id (GoGateService.execute).
THEOREM EffectIsOnceAndApproved == Spec => []EffectOnceAndApproved
  <1>1. TypeInv /\ TypeInv' /\ ExecutionOwned /\ EffectsInv /\ [Next]_vars => EffectsInv'
    BY StepEffects
  <1>2. TypeInv /\ TypeInv' /\ ExecutionOwned /\ [Next]_vars => ExecutionOwned'
    BY StepOwned
  <1>3. TypeInv /\ EffectsInv => EffectOnceAndApproved
    BY DEF EffectsInv, EffectsOf, EffectOnceAndApproved
  <1> QED
    BY InitTypeInv, StepTypeInv, InitOwned, InitEffects, <1>1, <1>2, <1>3, PTL DEF Spec

-----------------------------------------------------------------------------
(* Deadlines, decisions, receipts, audit events and the refinement.  Every   *)
(* step is brought into one of eleven shapes, which say what it does to the  *)
(* call and to the rest; the invariants that follow go by shape.             *)

\* The call still has to report what it did.
Reporting(c) == c.at \in {"receipt", "auditReceipt", "audit"}

\* What a running call keeps from one await to the next.
Continues(c, d) == d.key = c.key /\ d.begun = c.begun

\* Nothing happens, or time passes.
Rests ==
    /\ UNCHANGED <<row, decisions, receipt, outbox, audit, effects, moves, faulted, call>>
    /\ clock <= clock'

\* A call arrives, its method having looked for the row.
Arrives(h) ==
    /\ Others(h) /\ call[h].at = "idle"
    /\ call'[h].at \in {"decide", "approve", "reject", "execute"}
    /\ call'[h].key \in Keys /\ call'[h].begun = clock
    /\ call'[h].at = "execute" => call'[h].seen = row[call'[h].key]
    /\ UNCHANGED <<row, decisions, receipt, outbox, audit, effects, moves, faulted, clock>>

\* A call returns or throws, with nothing to report or beaten to the receipt.
Leaves(h) ==
    /\ Others(h) /\ call'[h] = Idle
    /\ Reporting(call[h]) => call[h].at = "receipt" /\ receipt[call[h].key] # NoReceipt
    /\ UNCHANGED <<row, decisions, receipt, outbox, audit, effects, moves, faulted, clock>>

\* A call is lost.
Drops(h) ==
    /\ Others(h) /\ call'[h] = Idle
    /\ faulted' = faulted \cup {call[h].key}
    /\ UNCHANGED <<row, decisions, receipt, outbox, audit, effects, moves, clock>>

\* The policy decides.
Decides(h) ==
    /\ Others(h) /\ Continues(call[h], call'[h])
    /\ call[h].at = "decide" /\ call'[h].at = "create"
    /\ call'[h].verdict \in {"allow", "deny"}
    /\ decisions' = [decisions EXCEPT ![call[h].key] = @ \cup {call'[h].verdict}]
    /\ UNCHANGED <<row, receipt, outbox, audit, effects, moves, faulted, clock>>

\* A check on what was read lets the call go on.
Checks(h) ==
    /\ Others(h) /\ Continues(call[h], call'[h]) /\ call'[h].seen = call[h].seen
    /\ \/ /\ call[h].at \in {"approve", "reject"}
          /\ call'[h].at \in {"approving", "rejecting"}
          /\ call[h].seen.status = "WAITING_FOR_GO"
       \/ /\ call[h].at = "execute" /\ call'[h].at = "expiring"
          /\ call[h].seen.status = "APPROVED" /\ Lapsed(call[h].seen, clock)
       \/ /\ call[h].at = "execute" /\ call'[h].at = "claiming"
          /\ call[h].seen.status = "APPROVED" /\ call'[h].stamp = clock
    /\ UNCHANGED <<row, decisions, receipt, outbox, audit, effects, moves, faulted, clock>>

\* The adapter is called, or answers.
Flies(h) ==
    /\ Others(h) /\ Continues(call[h], call'[h])
    /\ call'[h].seen = call[h].seen /\ call'[h].wrote = call[h].wrote
    /\ \/ /\ call[h].at = "calling" /\ call'[h].at = "awaiting"
          /\ effects' = [effects EXCEPT ![call[h].key] = Append(@, call[h].wrote.executionId)]
       \/ /\ call[h].at = "awaiting" /\ call'[h].at = "settling" /\ UNCHANGED effects
    /\ UNCHANGED <<row, decisions, receipt, outbox, audit, moves, faulted, clock>>

\* A conditional update matches: r is the row and n what replaces it.
Updates(h, r, n) ==
    LET c == call[h]
        d == call'[h]
    IN  \/ /\ c.at = "create" /\ d.at = "audit" /\ d.seen.status = "NONE"
           /\ r.status = "NONE" /\ n.status = BirthStatus(c.verdict)
        \/ /\ c.at \in {"approving", "rejecting"} /\ d.at = "audit" /\ d.seen = c.seen
           /\ r.status = "WAITING_FOR_GO" /\ n.status \in {"APPROVED", "REJECTED"}
        \/ /\ c.at = "expiring" /\ d.at = "audit" /\ d.seen = c.seen
           /\ r.status = "APPROVED" /\ n.status = "EXPIRED" /\ n.expiresAt = r.expiresAt
        \/ /\ c.at = "claiming" /\ d.at = "calling" /\ d.seen.status = "EXECUTING"
           /\ r.status = "APPROVED" /\ r.expiresAt > c.stamp
           /\ n.status = "EXECUTING" /\ n.expiresAt = r.expiresAt
        \/ /\ c.at = "settling" /\ d.at = "receipt" /\ d.seen = c.seen /\ d.verdict = c.verdict
           /\ r.status = "EXECUTING" /\ n.status = OutcomeStatus(c.verdict)
           /\ n.expiresAt = r.expiresAt /\ n.executionId = r.executionId

Wins(h) ==
    /\ Others(h) /\ Continues(call[h], call'[h]) /\ call[h].key \in Keys
    /\ call'[h].wrote \in Row
    /\ Write(call[h].key, call'[h].wrote)
    /\ Updates(h, row[call[h].key], call'[h].wrote)
    /\ UNCHANGED <<decisions, receipt, outbox, audit, effects, faulted, clock>>

\* The receipt is written, the receipt's event recorded, the call's event recorded.
Attests(h) ==
    /\ Others(h) /\ Continues(call[h], call'[h])
    /\ call[h].at = "receipt" /\ call'[h].at = "auditReceipt"
    /\ call'[h].seen = call[h].seen /\ call'[h].wrote = call[h].wrote
    /\ receipt[call[h].key] = NoReceipt
    /\ receipt' = [receipt EXCEPT ![call[h].key] =
          [verification |-> VerificationOf(call[h].verdict),
           executionId |-> call[h].wrote.executionId]]
    /\ outbox' = outbox \cup {call[h].key}
    /\ UNCHANGED <<row, decisions, audit, effects, moves, faulted, clock>>

ReceiptEvent(c) ==
    [key |-> c.key, action |-> "receipt", previous |-> "NONE", new |-> c.wrote.status]
TransitionEvent(c) ==
    [key |-> c.key, action |-> "transition", previous |-> c.seen.status, new |-> c.wrote.status]

RecordsReceipt(h) ==
    /\ Others(h) /\ Continues(call[h], call'[h])
    /\ call[h].at = "auditReceipt" /\ call'[h].at = "audit"
    /\ call'[h].seen = call[h].seen /\ call'[h].wrote = call[h].wrote
    /\ audit' = Append(audit, ReceiptEvent(call[h]))
    /\ UNCHANGED <<row, decisions, receipt, outbox, effects, moves, faulted, clock>>

RecordsMove(h) ==
    /\ Others(h) /\ call[h].at = "audit" /\ call'[h] = Idle
    /\ audit' = Append(audit, TransitionEvent(call[h]))
    /\ UNCHANGED <<row, decisions, receipt, outbox, effects, moves, faulted, clock>>

Shaped(h) ==
    \/ Arrives(h) \/ Leaves(h) \/ Drops(h) \/ Decides(h) \/ Checks(h) \/ Flies(h) \/ Wins(h)
    \/ Attests(h) \/ RecordsReceipt(h) \/ RecordsMove(h)

-----------------------------------------------------------------------------
\* A call that finishes because a check failed or an update did not match.
LEMMA FinishLeaves ==
    ASSUME TypeInv, NEW h \in Calls, Finish(h), ~Reporting(call[h]),
           UNCHANGED <<row, decisions, receipt, outbox, audit, effects, moves, faulted, clock>>
    PROVE  Leaves(h)
  BY DEF TypeInv, TypeOK, Finish, Leaves, Others

\* A conditional update, taken apart.
LEMMA UpdateOrLeave ==
    ASSUME TypeInv, NEW h \in Calls, NEW m \in BOOLEAN, NEW new, NEW previous, NEW next,
           Transition(h, m, new, previous, next), ~Reporting(call[h]),
           UNCHANGED <<decisions, receipt, outbox, audit, effects, faulted, clock>>
    PROVE  \/ Leaves(h)
           \/ /\ m /\ Write(call[h].key, new) /\ Others(h) /\ Continues(call[h], call'[h])
              /\ call'[h].at = next /\ call'[h].seen = previous /\ call'[h].wrote = new
              /\ call'[h].verdict = call[h].verdict
  <1> USE DEF TypeInv, TypeOK
  <1>1. CASE m
    <2> DEFINE c == [call[h] EXCEPT !.at = next, !.seen = previous, !.wrote = new, !.stamp = 0]
    <2>1. call' = [call EXCEPT ![h] = c] /\ Write(call[h].key, new)
      BY <1>1 DEF Transition
    <2>2. /\ c.at = next /\ c.key = call[h].key /\ c.seen = previous /\ c.wrote = new
          /\ c.verdict = call[h].verdict /\ c.begun = call[h].begun
      BY DEF Call
    <2> HIDE DEF c
    <2>3. call'[h] = c /\ Others(h)
      BY <2>1 DEF Others
    <2> QED BY <1>1, <2>1, <2>2, <2>3 DEF Continues
  <1>2. CASE ~m
    BY <1>2, FinishLeaves DEF Transition
  <1> QED BY <1>1, <1>2

\* Steps that replace the call by c.
LEMMA Replaced ==
    ASSUME TypeInv, NEW h \in Calls, NEW c, call' = [call EXCEPT ![h] = c]
    PROVE  call'[h] = c /\ Others(h)
  BY DEF TypeInv, TypeOK, Others

LEMMA ShapeOfCreate ==
    ASSUME TypeInv, TypeInv', NEW h \in Calls, RequestCreate(h)
    PROVE  Shaped(h)
  <1> USE DEF TypeInv, TypeOK
  <1> DEFINE k == call[h].key
             new == [NoRow EXCEPT !.status = BirthStatus(call[h].verdict)]
             m == Matches(k, "NONE")
  <1>1. Transition(h, m, new, NoRow, "audit")
    BY DEF RequestCreate
  <1>2. /\ call[h].at = "create" /\ k \in Keys /\ m \in BOOLEAN
        /\ (m => row[k].status = "NONE")
        /\ UNCHANGED <<decisions, receipt, outbox, audit, effects, faulted, clock>>
    BY DEF RequestCreate, Running, Matches
  <1>3. new.status = BirthStatus(call[h].verdict) /\ NoRow.status = "NONE" /\ call[h].verdict \in Verdict
    BY DEF NoRow, Call
  <1>4. new \in Row
    BY <1>3, BirthRowType
  <1> HIDE DEF new, k, m
  <1>5. \/ Leaves(h)
        \/ /\ m /\ Write(call[h].key, new) /\ Others(h) /\ Continues(call[h], call'[h])
           /\ call'[h].at = "audit" /\ call'[h].seen = NoRow /\ call'[h].wrote = new
    BY <1>1, <1>2, UpdateOrLeave DEF Reporting
  <1>6. CASE m /\ Write(call[h].key, new) /\ Others(h) /\ Continues(call[h], call'[h])
             /\ call'[h].at = "audit" /\ call'[h].seen = NoRow /\ call'[h].wrote = new
    <2>1. Updates(h, row[call[h].key], call'[h].wrote)
      BY <1>2, <1>3, <1>6 DEF Updates, k
    <2> QED BY <1>2, <1>4, <1>6, <2>1 DEF Shaped, Wins, k
  <1> QED BY <1>5, <1>6 DEF Shaped

\* approve, reject and execute's expiry report the row they read.
LEMMA ShapeOfDecision ==
    ASSUME TypeInv, TypeInv', NEW h \in Calls, Approve(h) \/ Reject(h) \/ Expire(h)
    PROVE  Shaped(h)
  <1> USE DEF TypeInv, TypeOK
  <1> DEFINE k == call[h].key
             approved == [row[k] EXCEPT !.status = "APPROVED", !.expiresAt = call[h].stamp + GoExpiry]
             rejected == [row[k] EXCEPT !.status = "REJECTED"]
             expired == [row[k] EXCEPT !.status = "EXPIRED"]
  <1>1. /\ call[h].at \in {"approving", "rejecting", "expiring"} /\ k \in Keys
        /\ UNCHANGED <<decisions, receipt, outbox, audit, effects, faulted, clock>>
    BY DEF Approve, Reject, Expire, Running
  <1>2. row[k] \in Row /\ call[h].stamp \in Nat /\ call[h].stamp + GoExpiry \in Nat
    BY <1>1, GoExpiryAssumption DEF Call
  <1>3. /\ approved.status = "APPROVED" /\ rejected.status = "REJECTED"
        /\ expired.status = "EXPIRED" /\ expired.expiresAt = row[k].expiresAt
        /\ {approved, rejected, expired} \subseteq Row
    BY <1>2 DEF Row, Status
  <1> HIDE DEF approved, rejected, expired
  <1>4. ASSUME NEW new \in {approved, rejected, expired}, NEW s \in {"WAITING_FOR_GO", "APPROVED"},
               Transition(h, Matches(k, s), new, call[h].seen, "audit"),
               \/ call[h].at \in {"approving", "rejecting"} /\ s = "WAITING_FOR_GO" /\ new # expired
               \/ call[h].at = "expiring" /\ s = "APPROVED" /\ new = expired
        PROVE  Shaped(h)
    <2> DEFINE m == Matches(k, s)
    <2>1. m \in BOOLEAN /\ (m => row[k].status = s) /\ Transition(h, m, new, call[h].seen, "audit")
      BY <1>4 DEF Matches
    <2> HIDE DEF m
    <2>2. \/ Leaves(h)
          \/ /\ m /\ Write(call[h].key, new) /\ Others(h) /\ Continues(call[h], call'[h])
             /\ call'[h].at = "audit" /\ call'[h].seen = call[h].seen /\ call'[h].wrote = new
      BY <1>1, <2>1, UpdateOrLeave DEF Reporting
    <2>3. CASE m /\ Write(call[h].key, new) /\ Others(h) /\ Continues(call[h], call'[h])
               /\ call'[h].at = "audit" /\ call'[h].seen = call[h].seen /\ call'[h].wrote = new
      <3>1. Updates(h, row[call[h].key], call'[h].wrote)
        BY <1>3, <1>4, <2>1, <2>3 DEF Updates, k
      <3> QED BY <1>1, <1>3, <2>3, <3>1 DEF Shaped, Wins, k
    <2> QED BY <2>2, <2>3 DEF Shaped
  <1>5. approved # expired /\ rejected # expired
    BY <1>3
  <1>6. CASE Approve(h)
    <2>1. Transition(h, Matches(k, "WAITING_FOR_GO"), approved, call[h].seen, "audit")
      BY <1>6 DEF Approve, approved
    <2> QED BY <1>4, <1>5, <1>6, <2>1 DEF Approve
  <1>7. CASE Reject(h)
    <2>1. Transition(h, Matches(k, "WAITING_FOR_GO"), rejected, call[h].seen, "audit")
      BY <1>7 DEF Reject, rejected
    <2> QED BY <1>4, <1>5, <1>7, <2>1 DEF Reject
  <1>8. CASE Expire(h)
    <2>1. Transition(h, Matches(k, "APPROVED"), expired, call[h].seen, "audit")
      BY <1>8 DEF Expire, expired
    <2> QED BY <1>4, <1>8, <2>1 DEF Expire
  <1> QED BY <1>6, <1>7, <1>8

LEMMA ShapeOfClaim ==
    ASSUME TypeInv, TypeInv', NEW h \in Calls, Claim(h)
    PROVE  Shaped(h)
  <1> USE DEF TypeInv, TypeOK
  <1> DEFINE k == call[h].key
             new == ClaimedRow(k, call[h].seen)
             m == ClaimMatches(k, call[h].stamp)
  <1>1. Transition(h, m, new, new, "calling")
    BY DEF Claim, ReportsStateWritten
  <1>2. /\ call[h].at = "claiming" /\ k \in Keys /\ m \in BOOLEAN
        /\ (m => row[k].status = "APPROVED" /\ row[k].expiresAt > call[h].stamp)
        /\ UNCHANGED <<decisions, receipt, outbox, audit, effects, faulted, clock>>
    BY DEF Claim, Running, Matches, ClaimMatches
  <1>3. new.status = "EXECUTING" /\ new.expiresAt = row[k].expiresAt
    BY <1>2 DEF ClaimedRow, Row
  <1> HIDE DEF new, k, m
  <1>5. \/ Leaves(h)
        \/ /\ m /\ Write(call[h].key, new) /\ Others(h) /\ Continues(call[h], call'[h])
           /\ call'[h].at = "calling" /\ call'[h].seen = new /\ call'[h].wrote = new
    BY <1>1, <1>2, UpdateOrLeave DEF Reporting
  <1>6. CASE m /\ Write(call[h].key, new) /\ Others(h) /\ Continues(call[h], call'[h])
             /\ call'[h].at = "calling" /\ call'[h].seen = new /\ call'[h].wrote = new
    <2>1. Updates(h, row[call[h].key], call'[h].wrote)
      BY <1>2, <1>3, <1>6 DEF Updates, k
    <2>2. row'[k] = new /\ new \in Row
      BY <1>2, <1>6 DEF Write, k
    <2> QED BY <1>2, <1>6, <2>1, <2>2 DEF Shaped, Wins, k
  <1> QED BY <1>5, <1>6 DEF Shaped

LEMMA ShapeOfSettle ==
    ASSUME TypeInv, TypeInv', NEW h \in Calls, Settle(h)
    PROVE  Shaped(h)
  <1> USE DEF TypeInv, TypeOK
  <1> DEFINE k == call[h].key
             s == OutcomeStatus(call[h].verdict)
             new == [row[k] EXCEPT !.status = s]
             m == Matches(k, "EXECUTING")
  <1>1. Transition(h, m, new, call[h].seen, "receipt")
    BY DEF Settle, AfterSettling
  <1>2. /\ call[h].at = "settling" /\ k \in Keys /\ m \in BOOLEAN
        /\ (m => row[k].status = "EXECUTING")
        /\ UNCHANGED <<decisions, receipt, outbox, audit, effects, faulted, clock>>
    BY DEF Settle, Running, Matches
  <1>3. /\ new.status = s /\ new.expiresAt = row[k].expiresAt
        /\ new.executionId = row[k].executionId
    BY <1>2 DEF Row
  <1> HIDE DEF new, k, m, s
  <1>5. \/ Leaves(h)
        \/ /\ m /\ Write(call[h].key, new) /\ Others(h) /\ Continues(call[h], call'[h])
           /\ call'[h].at = "receipt" /\ call'[h].seen = call[h].seen /\ call'[h].wrote = new
           /\ call'[h].verdict = call[h].verdict
    BY <1>1, <1>2, UpdateOrLeave DEF Reporting
  <1>6. CASE m /\ Write(call[h].key, new) /\ Others(h) /\ Continues(call[h], call'[h])
             /\ call'[h].at = "receipt" /\ call'[h].seen = call[h].seen /\ call'[h].wrote = new
             /\ call'[h].verdict = call[h].verdict
    <2>1. Updates(h, row[call[h].key], call'[h].wrote)
      BY <1>2, <1>3, <1>6 DEF Updates, k, s
    <2>2. row'[k] = new /\ new \in Row
      BY <1>2, <1>6 DEF Write, k
    <2> QED BY <1>2, <1>6, <2>1, <2>2 DEF Shaped, Wins, k
  <1> QED BY <1>5, <1>6 DEF Shaped

LEMMA ShapeOfArrival ==
    ASSUME TypeInv, NEW h \in Calls, Begin(h)
    PROVE  Shaped(h)
  <1>1. ASSUME NEW k \in Keys, RequestLookup(h, k) PROVE Shaped(h)
    <2> DEFINE c == [Idle EXCEPT !.at = "decide", !.key = k, !.begun = clock]
    <2>1. c.at = "decide" /\ c.key = k /\ c.begun = clock
      BY DEF Idle
    <2>2. call' = [call EXCEPT ![h] = c]
      BY <1>1 DEF RequestLookup
    <2> HIDE DEF c
    <2>3. call'[h] = c /\ Others(h)
      BY <2>2, Replaced
    <2> QED BY <1>1, <2>1, <2>3 DEF RequestLookup, Shaped, Arrives
  <1>2. ASSUME NEW k \in Keys, NEW m \in {"approve", "reject", "execute"}, Read(h, k, m)
        PROVE  Shaped(h)
    <2> DEFINE c == [Idle EXCEPT !.at = m, !.key = k, !.seen = row[k], !.begun = clock]
    <2>1. c.at = m /\ c.key = k /\ c.begun = clock /\ c.seen = row[k]
      BY DEF Idle
    <2>2. call' = [call EXCEPT ![h] = c]
      BY <1>2 DEF Read
    <2> HIDE DEF c
    <2>3. call'[h] = c /\ Others(h)
      BY <2>2, Replaced
    <2> QED BY <1>2, <2>1, <2>3 DEF Read, Shaped, Arrives
  <1> QED BY <1>1, <1>2 DEF Begin

\* The policy's decision, the checks and the adapter.
LEMMA ShapeOfProgress ==
    ASSUME TypeInv, NEW h \in Calls,
           \/ RequestDecide(h) \/ ApproveCheck(h) \/ RejectCheck(h) \/ ExecuteCheck(h)
           \/ CallAdapter(h) \/ AdapterSettles(h)
    PROVE  Shaped(h)
  <1>0. call[h] \in Call
    BY DEF TypeInv, TypeOK
  <1>1. CASE RequestDecide(h)
    <2>1. PICK v \in {"allow", "deny"} :
            /\ decisions' = [decisions EXCEPT ![call[h].key] = WithDecision(@, v)]
            /\ call' = [call EXCEPT ![h] = [@ EXCEPT !.at = "create", !.verdict = v]]
      BY <1>1 DEF RequestDecide
    <2> DEFINE c == [call[h] EXCEPT !.at = "create", !.verdict = v]
    <2>2. c.at = "create" /\ c.verdict = v /\ c.key = call[h].key /\ c.begun = call[h].begun
      BY <1>0 DEF Call
    <2>3. call' = [call EXCEPT ![h] = c]
      BY <2>1
    <2> HIDE DEF c
    <2>4. call'[h] = c /\ Others(h)
      BY <2>3, Replaced
    <2>5. decisions' = [decisions EXCEPT ![call[h].key] = @ \cup {v}]
      BY <2>1 DEF WithDecision
    <2> QED BY <1>1, <2>2, <2>4, <2>5 DEF RequestDecide, Shaped, Decides, Continues
  <1>2. ASSUME NEW m \in {"approve", "reject"}, NEW next \in {"approving", "rejecting"},
               Check(h, m, next)
        PROVE  Shaped(h)
    <2> DEFINE c == [call[h] EXCEPT !.at = next, !.stamp = clock]
    <2>1. /\ c.at = next /\ c.key = call[h].key /\ c.begun = call[h].begun
          /\ c.seen = call[h].seen
      BY <1>0 DEF Call
    <2>2. \/ call' = [call EXCEPT ![h] = c] /\ call[h].seen.status = "WAITING_FOR_GO"
          \/ Finish(h)
      BY <1>2 DEF Check
    <2> HIDE DEF c
    <2>3. CASE call' = [call EXCEPT ![h] = c] /\ call[h].seen.status = "WAITING_FOR_GO"
      <3>1. call'[h] = c /\ Others(h)
        BY <2>3, Replaced
      <3> QED BY <1>2, <2>1, <2>3, <3>1 DEF Check, Shaped, Checks, Continues
    <2>4. CASE Finish(h)
      BY <1>2, <2>4, FinishLeaves DEF Check, Shaped, Reporting
    <2> QED BY <2>2, <2>3, <2>4
  <1>3. CASE ExecuteCheck(h)
    <2> DEFINE c == [call[h] EXCEPT !.at = "claiming", !.stamp = clock]
               e == [call[h] EXCEPT !.at = "expiring"]
    <2>1. /\ c.at = "claiming" /\ c.key = call[h].key /\ c.begun = call[h].begun
          /\ c.seen = call[h].seen /\ c.stamp = clock
      BY <1>0 DEF Call
    <2>2. /\ e.at = "expiring" /\ e.key = call[h].key /\ e.begun = call[h].begun
          /\ e.seen = call[h].seen
      BY <1>0 DEF Call
    <2>3. \/ call' = [call EXCEPT ![h] = c] /\ call[h].seen.status = "APPROVED"
          \/ /\ call' = [call EXCEPT ![h] = e] /\ call[h].seen.status = "APPROVED"
             /\ Lapsed(call[h].seen, clock)
          \/ Finish(h)
      BY <1>3 DEF ExecuteCheck
    <2> HIDE DEF c, e
    <2>4. CASE call' = [call EXCEPT ![h] = c] /\ call[h].seen.status = "APPROVED"
      <3>1. call'[h] = c /\ Others(h)
        BY <2>4, Replaced
      <3> QED BY <1>3, <2>1, <2>4, <3>1 DEF ExecuteCheck, Shaped, Checks, Continues
    <2>5. CASE call' = [call EXCEPT ![h] = e] /\ call[h].seen.status = "APPROVED"
               /\ Lapsed(call[h].seen, clock)
      <3>1. call'[h] = e /\ Others(h)
        BY <2>5, Replaced
      <3> QED BY <1>3, <2>2, <2>5, <3>1 DEF ExecuteCheck, Shaped, Checks, Continues
    <2>6. CASE Finish(h)
      BY <1>3, <2>6, FinishLeaves DEF ExecuteCheck, Shaped, Reporting
    <2> QED BY <2>3, <2>4, <2>5, <2>6
  <1>4. CASE CallAdapter(h)
    <2> DEFINE c == [call[h] EXCEPT !.at = "awaiting"]
    <2>1. /\ c.at = "awaiting" /\ c.key = call[h].key /\ c.begun = call[h].begun
          /\ c.seen = call[h].seen /\ c.wrote = call[h].wrote
      BY <1>0 DEF Call
    <2>2. call' = [call EXCEPT ![h] = c]
      BY <1>4 DEF CallAdapter
    <2> HIDE DEF c
    <2>3. call'[h] = c /\ Others(h)
      BY <2>2, Replaced
    <2> QED BY <1>4, <2>1, <2>3 DEF CallAdapter, Shaped, Flies, Continues
  <1>5. CASE AdapterSettles(h)
    <2>1. PICK v \in {"verified", "failed", "error"} :
            call' = [call EXCEPT ![h] = [@ EXCEPT !.at = "settling", !.verdict = v]]
      BY <1>5 DEF AdapterSettles, AfterAdapter
    <2> DEFINE c == [call[h] EXCEPT !.at = "settling", !.verdict = v]
    <2>2. /\ c.at = "settling" /\ c.key = call[h].key /\ c.begun = call[h].begun
          /\ c.seen = call[h].seen /\ c.wrote = call[h].wrote
      BY <1>0 DEF Call
    <2>3. call' = [call EXCEPT ![h] = c]
      BY <2>1
    <2> HIDE DEF c
    <2>4. call'[h] = c /\ Others(h)
      BY <2>3, Replaced
    <2> QED BY <1>5, <2>2, <2>4 DEF AdapterSettles, Shaped, Flies, Continues
  <1> QED BY <1>1, <1>2, <1>3, <1>4, <1>5 DEF ApproveCheck, RejectCheck

\* Receipt and audit events, and calls that are lost.
LEMMA ShapeOfReport ==
    ASSUME TypeInv, NEW h \in Calls,
           WriteReceipt(h) \/ AuditReceipt(h) \/ Audit(h) \/ Lose(h)
    PROVE  Shaped(h)
  <1>0. call[h] \in Call
    BY DEF TypeInv, TypeOK
  <1>1. CASE WriteReceipt(h)
    <2> DEFINE c == [call[h] EXCEPT !.at = "auditReceipt"]
    <2>1. /\ c.at = "auditReceipt" /\ c.key = call[h].key /\ c.begun = call[h].begun
          /\ c.seen = call[h].seen /\ c.wrote = call[h].wrote
      BY <1>0 DEF Call
    <2>2. CASE receipt[call[h].key] = NoReceipt
      <3>1. call' = [call EXCEPT ![h] = c]
        BY <1>1, <2>2 DEF WriteReceipt
      <3> HIDE DEF c
      <3>2. call'[h] = c /\ Others(h)
        BY <3>1, Replaced
      <3> QED BY <1>1, <2>1, <2>2, <3>2 DEF WriteReceipt, Shaped, Attests, Continues
    <2>3. CASE receipt[call[h].key] # NoReceipt
      <3>1. call' = [call EXCEPT ![h] = Idle]
        BY <1>1, <2>3 DEF WriteReceipt, Finish
      <3>2. call'[h] = Idle /\ Others(h)
        BY <3>1, Replaced
      <3> QED BY <1>1, <2>3, <3>2 DEF WriteReceipt, Shaped, Leaves, Reporting
    <2> QED BY <2>2, <2>3
  <1>2. CASE AuditReceipt(h)
    <2> DEFINE c == [call[h] EXCEPT !.at = "audit"]
    <2>1. /\ c.at = "audit" /\ c.key = call[h].key /\ c.begun = call[h].begun
          /\ c.seen = call[h].seen /\ c.wrote = call[h].wrote
      BY <1>0 DEF Call
    <2>2. call' = [call EXCEPT ![h] = c]
      BY <1>2 DEF AuditReceipt
    <2> HIDE DEF c
    <2>3. call'[h] = c /\ Others(h)
      BY <2>2, Replaced
    <2> QED BY <1>2, <2>1, <2>3 DEF AuditReceipt, Shaped, RecordsReceipt, ReceiptEvent, Continues
  <1>3. CASE Audit(h)
    <2>1. call'[h] = Idle /\ Others(h)
      BY <1>3, Replaced DEF Audit, Finish
    <2> QED BY <1>3, <2>1 DEF Audit, Shaped, RecordsMove, TransitionEvent
  <1>4. CASE Lose(h)
    <2>1. call'[h] = Idle /\ Others(h)
      BY <1>4, Replaced DEF Lose, Finish
    <2> QED BY <1>4, <2>1 DEF Lose, Shaped, Drops
  <1> QED BY <1>1, <1>2, <1>3, <1>4

LEMMA StepShapes ==
    ASSUME TypeInv, TypeInv', [Next]_vars
    PROVE  Rests \/ \E h \in Calls : Shaped(h)
  <1>1. clock \in Nat
    BY DEF TypeInv, TypeOK
  <1>2. CASE UNCHANGED vars
    BY <1>1, <1>2 DEF vars, Rests
  <1>3. CASE Tick
    BY <1>1, <1>3 DEF Tick, Rests
  <1>4. ASSUME NEW h \in Calls, Begin(h) \/ Proceed(h) \/ Lose(h) PROVE Shaped(h)
    BY <1>4, ShapeOfArrival, ShapeOfProgress, ShapeOfReport, ShapeOfCreate, ShapeOfDecision,
       ShapeOfClaim, ShapeOfSettle DEF Proceed
  <1> QED BY <1>2, <1>3, <1>4 DEF Next

-----------------------------------------------------------------------------
(* Deadlines *)

\* The call goes by an approval it has read.
Holding(c) ==
    c.at \in {"claiming", "expiring"} \/ (c.at = "execute" /\ c.seen.status = "APPROVED")

TimedOf(c) ==
    /\ c.begun <= clock
    /\ c.at = "claiming" => c.begun <= c.stamp
    /\ Holding(c) => /\ row[c.key].status \notin {"NONE", "WAITING_FOR_GO"}
                     /\ row[c.key].expiresAt = c.seen.expiresAt
    /\ c.at = "expiring" => c.seen.expiresAt <= clock
    /\ InFlight(c) => c.begun < row[c.key].expiresAt

TimedInv == \A h \in Calls : call[h].at # "idle" => TimedOf(call[h])

\* What a conditional update leaves of the row.
LEMMA WinFacts ==
    ASSUME TypeInv, TypeInv', NEW h \in Calls, Wins(h)
    PROVE  /\ call[h].key \in Keys /\ row[call[h].key] \in Row /\ call'[h].wrote \in Row
           /\ row[call[h].key].status \in {"NONE", "WAITING_FOR_GO", "APPROVED", "EXECUTING"}
           /\ call'[h].wrote.status # "NONE"
           /\ row[call[h].key].status \in {"APPROVED", "EXECUTING"} =>
                 /\ call'[h].wrote.expiresAt = row[call[h].key].expiresAt
                 /\ call'[h].wrote.status \in {"EXPIRED", "EXECUTING", "EXECUTED", "FAILED"}
           /\ row' = [row EXCEPT ![call[h].key] = call'[h].wrote]
           /\ row'[call[h].key] = call'[h].wrote
           /\ moves' = [moves EXCEPT ![call[h].key] =
                          @ \cup {<<row[call[h].key].status, call'[h].wrote.status>>}]
           /\ call[h].at \in {"create", "approving", "rejecting", "expiring", "claiming", "settling"}
  <1>1. /\ call[h].key \in Keys /\ row[call[h].key] \in Row /\ call'[h].wrote \in Row
        /\ row \in [Keys -> Row]
    BY DEF Wins, TypeInv, TypeOK
  <1>2. Write(call[h].key, call'[h].wrote) /\ Updates(h, row[call[h].key], call'[h].wrote)
    BY DEF Wins
  <1> QED BY <1>1, <1>2 DEF Updates, Write, BirthStatus, OutcomeStatus

LEMMA StepTimed ==
    ASSUME TypeInv, TypeInv', ExecutionOwned, TimedInv, [Next]_vars
    PROVE  TimedInv'
  <1> USE DEF TypeInv, TypeOK
  <1>a. /\ clock \in Nat /\ clock' \in Nat
        /\ \A g \in Calls : /\ call[g] \in Call /\ call[g].begun \in Nat
                            /\ call[g].at # "idle" => call[g].key \in Keys
    BY DEF Call, Running
  <1>b. \A g \in Calls : call[g].at # "idle" /\ InFlight(call[g])
           => row[call[g].key].status = "EXECUTING"
    BY <1>a DEF ExecutionOwned, Executing, InFlight
  <1>c. ASSUME Rests PROVE TimedInv'
    <2> SUFFICES ASSUME NEW g \in Calls, call[g].at # "idle" PROVE TimedOf(call[g])'
      BY <1>c DEF Rests, TimedInv
    <2>1. TimedOf(call[g]) /\ call[g].seen.expiresAt \in Nat
      BY <1>a DEF TimedInv, Call, Row
    <2> QED BY <1>a, <1>c, <2>1 DEF Rests, TimedOf, Holding, InFlight
  <1>d. ASSUME NEW h \in Calls, Shaped(h) PROVE TimedInv'
    <2>1. ASSUME NEW g \in Calls, g # h, call[g].at # "idle" PROVE TimedOf(call[g])'
      <3>1. TimedOf(call[g]) /\ call'[g] = call[g] /\ clock' = clock
        BY <1>d, <2>1 DEF TimedInv, Shaped, Others, Arrives, Leaves, Drops, Decides, Checks, Flies,
                          Wins, Attests, RecordsReceipt, RecordsMove
      <3>2. CASE row' = row
        BY <3>1, <3>2 DEF TimedOf, Holding, InFlight
      <3>3. CASE Wins(h)
        <4>1. CASE call[h].key = call[g].key
          <5>1. /\ row'[call[h].key] = call'[h].wrote
                /\ call'[h].wrote.status # "NONE"
                /\ row[call[h].key].status \in {"APPROVED", "EXECUTING"} =>
                     /\ call'[h].wrote.expiresAt = row[call[h].key].expiresAt
                     /\ call'[h].wrote.status # "WAITING_FOR_GO"
                /\ row[call[h].key].status \in {"NONE", "WAITING_FOR_GO", "APPROVED", "EXECUTING"}
            BY <3>3, WinFacts
          <5> QED BY <1>b, <2>1, <3>1, <4>1, <5>1 DEF TimedOf, Holding, InFlight
        <4>2. CASE call[h].key # call[g].key
          <5>1. row'[call[g].key] = row[call[g].key]
            BY <1>a, <2>1, <3>3, <4>2, WinFacts
          <5> QED BY <3>1, <5>1 DEF TimedOf, Holding, InFlight
        <4> QED BY <4>1, <4>2
      <3>4. row' = row \/ Wins(h)
        BY <1>d DEF Shaped, Arrives, Leaves, Drops, Decides, Checks, Flies, Attests,
                    RecordsReceipt, RecordsMove
      <3> QED BY <3>2, <3>3, <3>4
    <2>2. ASSUME call'[h].at # "idle" PROVE TimedOf(call[h])'
      <3>0. call[h].at # "idle" => TimedOf(call[h])
        BY DEF TimedInv
      <3>1. CASE Arrives(h)
        <4>1. call'[h].at = "execute" => call'[h].seen = row[call'[h].key]
          BY <3>1 DEF Arrives
        <4> QED BY <1>a, <3>1, <4>1 DEF Arrives, TimedOf, Holding, InFlight
      <3>2. CASE Leaves(h) \/ Drops(h) \/ RecordsMove(h)
        BY <2>2, <3>2, IdleType DEF Leaves, Drops, RecordsMove
      <3>3. CASE Decides(h)
        BY <3>0, <3>3 DEF Decides, Continues, TimedOf, Holding, InFlight
      <3>4. CASE Checks(h)
        <4>1. call[h].seen \in Row
          BY <1>a DEF Call
        <4>2. Lapsed(call[h].seen, clock) => call[h].seen.expiresAt <= clock
          BY <1>a, <4>1 DEF Lapsed, Row
        <4> QED BY <1>a, <3>0, <3>4, <4>2 DEF Checks, Continues, TimedOf, Holding, InFlight
      <3>5. CASE Flies(h)
        BY <3>0, <3>5 DEF Flies, Continues, TimedOf, Holding, InFlight
      <3>6. CASE Wins(h)
        <4>1. /\ row'[call[h].key] = call'[h].wrote /\ call[h].key \in Keys
              /\ row[call[h].key] \in Row /\ call'[h].key = call[h].key
              /\ call'[h].begun = call[h].begun /\ clock' = clock
          BY <3>6, WinFacts DEF Wins, Continues
        <4>2. Updates(h, row[call[h].key], call'[h].wrote)
          BY <3>6 DEF Wins
        <4>3. call[h].stamp \in Nat /\ call[h].begun \in Nat
              /\ row[call[h].key].expiresAt \in Nat
          BY <1>a, <4>1 DEF Call, Row
        <4>4. call'[h].at \in {"audit", "receipt"} \/
              (call'[h].at = "calling" /\ call[h].at = "claiming"
               /\ row[call[h].key].expiresAt > call[h].stamp
               /\ call'[h].wrote.expiresAt = row[call[h].key].expiresAt)
          BY <4>2 DEF Updates
        <4>5. TimedOf(call[h])
          BY <3>0, <4>2 DEF Updates
        <4> QED BY <4>1, <4>3, <4>4, <4>5 DEF TimedOf, Holding, InFlight
      <3>7. CASE Attests(h) \/ RecordsReceipt(h)
        BY <3>0, <3>7 DEF Attests, RecordsReceipt, Continues, TimedOf, Holding, InFlight
      <3> QED BY <1>d, <3>1, <3>2, <3>3, <3>4, <3>5, <3>6, <3>7 DEF Shaped
    <2>3. \A g \in Calls : g # h => call'[g] = call[g]
      BY <1>d DEF Shaped, Others, Arrives, Leaves, Drops, Decides, Checks, Flies,
                  Wins, Attests, RecordsReceipt, RecordsMove
    <2> QED BY <2>1, <2>2, <2>3 DEF TimedInv
  <1> QED BY <1>c, <1>d, StepShapes

LEMMA TypeAlways == Spec => []TypeInv
  <1> QED BY InitTypeInv, StepTypeInv, PTL DEF Spec

LEMMA TimedAlways == Spec => []TimedInv
  <1>1. Init => TimedInv
    BY DEF Init, TimedInv, Idle
  <1>2. TypeInv /\ TypeInv' /\ ExecutionOwned /\ TimedInv /\ [Next]_vars => TimedInv'
    BY StepTimed
  <1> QED BY <1>1, <1>2, TypeAlways, ExecutionIsOwned, PTL DEF Spec

\* An execute call that arrived when the approval had lapsed never reaches the
\* adapter (GoGateService.execute).
THEOREM LateCallsNeverExecute == Spec => []LateCallNeverExecutes
  <1>1. TimedInv => LateCallNeverExecutes
    BY DEF TimedInv, TimedOf, LateCallNeverExecutes, Executing, InFlight
  <1> QED BY <1>1, TimedAlways, PTL

\* Only lapsed approvals expire, although the update that expires a row does
\* not look at its deadline (GoGateService.execute).
THEOREM OnlyLapsedExpire == Spec => ExpiresOnlyWhenLapsed
  <1>1. ASSUME TypeInv, TypeInv', TimedInv, [Next]_vars
        PROVE  [\A k \in Keys : row'[k].status = "EXPIRED" /\ row[k].status # "EXPIRED"
                  => row[k].expiresAt <= clock]_vars
    <2> SUFFICES ASSUME NEW k \in Keys, row'[k].status = "EXPIRED", row[k].status # "EXPIRED"
                 PROVE  row[k].expiresAt <= clock
      OBVIOUS
    <2>1. row' # row
      OBVIOUS
    <2>2. PICK h \in Calls : Wins(h)
      BY <1>1, <2>1, StepShapes DEF Rests, Shaped, Arrives, Leaves, Drops, Decides, Checks, Flies,
                                    Attests, RecordsReceipt, RecordsMove
    <2>3. call[h].key = k /\ row'[k] = call'[h].wrote
      BY <1>1, <2>2, WinFacts DEF TypeInv, TypeOK
    <2>4. Updates(h, row[k], call'[h].wrote)
      BY <2>2, <2>3 DEF Wins
    <2>5. call[h].at = "expiring"
      BY <2>3, <2>4 DEF Updates, BirthStatus, OutcomeStatus
    <2>6. TimedOf(call[h])
      BY <1>1, <2>5 DEF TimedInv
    <2> QED BY <2>3, <2>5, <2>6 DEF TimedOf, Holding
  <1> QED BY <1>1, TypeAlways, TimedAlways, PTL DEF Spec, ExpiresOnlyWhenLapsed

-----------------------------------------------------------------------------
(* Decisions *)

DecidedInv ==
    /\ DecisionOnRecord
    /\ \A h \in Calls : call[h].at = "create" =>
          call[h].verdict \in decisions[call[h].key] \cap {"allow", "deny"}

LEMMA StepDecided ==
    ASSUME TypeInv, TypeInv', DecidedInv, [Next]_vars
    PROVE  DecidedInv'
  <1> USE DEF TypeInv, TypeOK
  <1>1. CASE Rests
    BY <1>1 DEF Rests, DecidedInv, DecisionOnRecord
  <1>2. ASSUME NEW h \in Calls, Shaped(h) PROVE DecidedInv'
    <2>0. decisions' = decisions \/ Decides(h)
      BY <1>2 DEF Shaped, Arrives, Leaves, Drops, Checks, Flies, Wins, Attests, RecordsReceipt,
                  RecordsMove
    <2>1. \A k \in Keys : decisions[k] \subseteq decisions'[k]
      <3>1. CASE Decides(h)
        <4>1. PICK v : decisions' = [decisions EXCEPT ![call[h].key] = @ \cup {v}]
          BY <3>1 DEF Decides
        <4>2. decisions \in [Keys -> SUBSET {"allow", "deny"}]
          OBVIOUS
        <4> QED BY <4>1, <4>2
      <3> QED BY <2>0, <3>1
    <2>2. ASSUME NEW g \in Calls, call'[g].at = "create"
          PROVE  call'[g].verdict \in decisions'[call'[g].key] \cap {"allow", "deny"}
      <3>1. CASE g = h
        <4>1. Decides(h)
          BY <1>2, <2>2, <3>1, IdleType
             DEF Shaped, Arrives, Leaves, Drops, Checks, Flies, Wins, Updates, Attests,
                 RecordsReceipt, RecordsMove
        <4>2. call[h].key \in Keys
          BY <4>1 DEF Decides, Running
        <4> QED BY <3>1, <4>1, <4>2 DEF Decides, Continues
      <3>2. CASE g # h
        <4>1. call'[g] = call[g]
          BY <1>2, <3>2 DEF Shaped, Others, Arrives, Leaves, Drops, Decides, Checks, Flies,
                            Wins, Attests, RecordsReceipt, RecordsMove
        <4>2. call[g].key \in Keys
          BY <2>2, <4>1 DEF Running
        <4> QED BY <2>1, <2>2, <4>1, <4>2 DEF DecidedInv
      <3> QED BY <3>1, <3>2
    <2>3. DecisionOnRecord'
      <3>1. CASE moves' = moves
        BY <2>1, <3>1 DEF DecidedInv, DecisionOnRecord
      <3>2. CASE Wins(h)
        <4> DEFINE k == call[h].key
                   p == <<row[k].status, call'[h].wrote.status>>
        <4>1. /\ k \in Keys /\ decisions' = decisions
              /\ moves' = [moves EXCEPT ![k] = @ \cup {p}]
          BY <3>2, WinFacts DEF Wins
        <4>2. Updates(h, row[k], call'[h].wrote)
          BY <3>2 DEF Wins
        <4>3. /\ p = <<"NONE", "WAITING_FOR_GO">> => "allow" \in decisions[k]
              /\ p = <<"NONE", "REJECTED">> => "deny" \in decisions[k]
          <5>1. CASE call[h].at = "create"
            <6>1. call[h].verdict \in decisions[k] \cap {"allow", "deny"}
              BY <5>1 DEF DecidedInv
            <6> QED BY <4>2, <5>1, <6>1 DEF Updates, BirthStatus
          <5>2. CASE call[h].at # "create"
            <6>1. row[k].status # "NONE"
              BY <4>2, <5>2 DEF Updates
            <6> QED BY <6>1
          <5> QED BY <5>1, <5>2
        <4> HIDE DEF p, k
        <4> SUFFICES ASSUME NEW j \in Keys
                     PROVE  /\ <<"NONE", "WAITING_FOR_GO">> \in moves'[j] => "allow" \in decisions[j]
                            /\ <<"NONE", "REJECTED">> \in moves'[j] => "deny" \in decisions[j]
          BY <4>1 DEF DecisionOnRecord
        <4> QED BY <4>1, <4>3 DEF DecidedInv, DecisionOnRecord
      <3>3. moves' = moves \/ Wins(h)
        BY <1>2 DEF Shaped, Arrives, Leaves, Drops, Decides, Checks, Flies, Attests,
                    RecordsReceipt, RecordsMove
      <3> QED BY <3>1, <3>2, <3>3
    <2> QED BY <2>2, <2>3 DEF DecidedInv
  <1> QED BY <1>1, <1>2, StepShapes

\* Every request there is was let in or refused by a recorded decision of the
\* policy (GoGateService.requestExecution).
THEOREM DecisionsAreOnRecord == Spec => []DecisionOnRecord
  <1>1. Init => DecidedInv
    BY DEF Init, DecidedInv, DecisionOnRecord, Idle
  <1>2. TypeInv /\ TypeInv' /\ DecidedInv /\ [Next]_vars => DecidedInv'
    BY StepDecided
  <1>3. DecidedInv => DecisionOnRecord
    BY DEF DecidedInv
  <1> QED BY <1>1, <1>2, <1>3, TypeAlways, PTL DEF Spec

-----------------------------------------------------------------------------
(* The history of a row and the calls that have a part of it to report *)

\* The states a row has been through before it comes to state s: none of them
\* comes back.
Earlier(s) ==
    CASE s = "NONE" -> {}
      [] s = "WAITING_FOR_GO" -> {"NONE"}
      [] s \in {"APPROVED", "REJECTED"} -> {"NONE", "WAITING_FOR_GO"}
      [] s \in {"EXPIRED", "EXECUTING"} -> {"NONE", "WAITING_FOR_GO", "APPROVED"}
      [] OTHER -> {"NONE", "WAITING_FOR_GO", "APPROVED", "EXECUTING"}

\* The move a call reports.
MoveOf(c) == <<c.seen.status, c.wrote.status>>

SeenOf(c) ==
    /\ c.at \in {"approving", "rejecting"} => c.seen.status = "WAITING_FOR_GO"
    /\ c.at \in {"claiming", "expiring"} => c.seen.status = "APPROVED"
    /\ InFlight(c) => c.seen.status = "EXECUTING"
    /\ Reporting(c) => MoveOf(c) \in moves[c.key]
    /\ c.at \in {"receipt", "auditReceipt"} =>
          /\ c.seen.status = "EXECUTING"
          /\ c.wrote = row[c.key]
          /\ row[c.key].status \in {"EXECUTED", "FAILED"}

ReportsApart ==
    \A g, h \in Calls :
        /\ Reporting(call[g]) /\ Reporting(call[h])
        /\ call[g].key = call[h].key /\ MoveOf(call[g]) = MoveOf(call[h])
        => g = h

HistoryInv ==
    /\ \A k \in Keys : \A m \in moves[k] : m[1] \in Earlier(row[k].status)
    /\ \A h \in Calls : call[h].at # "idle" => SeenOf(call[h])
    /\ ReportsApart

\* The row moves to where it has never been, along a move it has never made.
LEMMA WinIsNew ==
    ASSUME TypeInv, TypeInv', HistoryInv, NEW h \in Calls, Wins(h)
    PROVE  /\ MoveOf(call'[h]) = <<row[call[h].key].status, call'[h].wrote.status>>
              \/ ~Reporting(call'[h])
           /\ <<row[call[h].key].status, call'[h].wrote.status>> \notin moves[call[h].key]
           /\ row[call[h].key].status \in Earlier(call'[h].wrote.status)
           /\ Earlier(row[call[h].key].status) \subseteq Earlier(call'[h].wrote.status)
  <1>1. Updates(h, row[call[h].key], call'[h].wrote)
    BY DEF Wins
  <1>2. call[h].key \in Keys
    BY WinFacts
  <1>3. SeenOf(call[h])
    BY <1>1 DEF HistoryInv, Updates
  <1>4. MoveOf(call'[h]) = <<row[call[h].key].status, call'[h].wrote.status>>
        \/ ~Reporting(call'[h])
    BY <1>1, <1>3 DEF Updates, SeenOf, MoveOf, Reporting, InFlight
  <1>5. row[call[h].key].status \notin Earlier(row[call[h].key].status)
    BY <1>1 DEF Updates, Earlier
  <1>6. <<row[call[h].key].status, call'[h].wrote.status>> \notin moves[call[h].key]
    BY <1>2, <1>5 DEF HistoryInv
  <1>7. /\ row[call[h].key].status \in Earlier(call'[h].wrote.status)
        /\ Earlier(row[call[h].key].status) \subseteq Earlier(call'[h].wrote.status)
    BY <1>1 DEF Updates, Earlier, BirthStatus, OutcomeStatus
  <1> QED BY <1>4, <1>6, <1>7

\* The shapes that touch neither rows nor their history.
LEMMA OnlyWinsMove ==
    ASSUME NEW h \in Calls, Shaped(h)
    PROVE  Wins(h) \/ UNCHANGED <<row, moves>>
  BY DEF Shaped, Arrives, Leaves, Drops, Decides, Checks, Flies, Attests, RecordsReceipt, RecordsMove

LEMMA OthersStay ==
    ASSUME NEW h \in Calls, Shaped(h)
    PROVE  \A g \in Calls : g # h => call'[g] = call[g]
  BY DEF Shaped, Others, Arrives, Leaves, Drops, Decides, Checks, Flies,
         Wins, Attests, RecordsReceipt, RecordsMove

LEMMA StepHistory ==
    ASSUME TypeInv, TypeInv', ExecutionOwned, HistoryInv, [Next]_vars
    PROVE  HistoryInv'
  <1> USE DEF TypeInv, TypeOK
  <1>a. \A g \in Calls : call[g].at # "idle" => call[g].key \in Keys
    BY DEF Running
  <1>1. CASE Rests
    BY <1>1 DEF Rests, HistoryInv, SeenOf, MoveOf, ReportsApart, Reporting, InFlight
  <1>2. ASSUME NEW h \in Calls, Shaped(h) PROVE HistoryInv'
    <2> DEFINE k == call[h].key
               p == <<row[k].status, call'[h].wrote.status>>
    <2>0. \A g \in Calls : g # h => call'[g] = call[g]
      BY <1>2, OthersStay
    <2>w. Wins(h) \/ UNCHANGED <<row, moves>>
      BY <1>2, OnlyWinsMove
    <2>1. ASSUME NEW j \in Keys, NEW m \in moves'[j] PROVE m[1] \in Earlier(row'[j].status)
      <3>1. CASE Wins(h)
        <4>1. /\ row' = [row EXCEPT ![k] = call'[h].wrote] /\ row'[k] = call'[h].wrote
              /\ moves' = [moves EXCEPT ![k] = @ \cup {p}]
          BY <3>1, WinFacts
        <4>2. /\ row[k].status \in Earlier(call'[h].wrote.status)
              /\ Earlier(row[k].status) \subseteq Earlier(call'[h].wrote.status)
          BY <3>1, WinIsNew
        <4>3. p[1] = row[k].status
          OBVIOUS
        <4> HIDE DEF p, k
        <4> QED BY <2>1, <4>1, <4>2, <4>3 DEF HistoryInv
      <3>2. CASE UNCHANGED <<row, moves>>
        BY <2>1, <3>2 DEF HistoryInv
      <3> QED BY <2>w, <3>1, <3>2
    <2>2. ASSUME NEW g \in Calls, g # h, call[g].at # "idle" PROVE SeenOf(call[g])'
      <3>1. SeenOf(call[g]) /\ call'[g] = call[g]
        BY <2>0, <2>2 DEF HistoryInv
      <3>2. CASE Wins(h)
        <4>0. /\ k \in Keys /\ call[g].key \in Keys
              /\ row' = [row EXCEPT ![k] = call'[h].wrote]
              /\ moves' = [moves EXCEPT ![k] = @ \cup {p}]
              /\ row[k].status \notin {"EXECUTED", "FAILED"}
          BY <1>a, <2>2, <3>2, WinFacts
        <4> HIDE DEF p, k
        <4>1. /\ moves[call[g].key] \subseteq moves'[call[g].key]
              /\ call[g].key # k => row'[call[g].key] = row[call[g].key]
              /\ row[k].status \notin {"EXECUTED", "FAILED"}
          BY <4>0
        <4> QED BY <3>1, <4>1 DEF SeenOf, MoveOf, Reporting, InFlight
      <3>3. CASE UNCHANGED <<row, moves>>
        BY <3>1, <3>3 DEF SeenOf, MoveOf, Reporting, InFlight
      <3> QED BY <2>w, <3>2, <3>3
    <2>3. ASSUME call'[h].at # "idle" PROVE SeenOf(call[h])'
      <3>0. call[h].at # "idle" => SeenOf(call[h])
        BY DEF HistoryInv
      <3>1. CASE Arrives(h) \/ Leaves(h) \/ Drops(h) \/ RecordsMove(h) \/ Decides(h)
        BY <2>3, <3>1, IdleType
           DEF Arrives, Leaves, Drops, RecordsMove, Decides, SeenOf, InFlight, Reporting
      <3>2. CASE Checks(h) \/ Flies(h) \/ Attests(h) \/ RecordsReceipt(h)
        BY <3>0, <3>2 DEF Checks, Flies, Attests, RecordsReceipt, Continues, SeenOf, MoveOf,
                          InFlight, Reporting
      <3>3. CASE Wins(h)
        <4>1. /\ row'[k] = call'[h].wrote /\ p \in moves'[k] /\ call'[h].key = k
          BY <3>3, WinFacts DEF Wins, Continues
        <4>2. MoveOf(call'[h]) = p \/ ~Reporting(call'[h])
          BY <3>3, WinIsNew
        <4>3. /\ call'[h].at \in {"audit", "calling", "receipt"}
              /\ call'[h].at = "calling" => call'[h].seen.status = "EXECUTING"
              /\ call'[h].at = "receipt" =>
                    /\ call[h].at = "settling" /\ call'[h].seen = call[h].seen
                    /\ call'[h].wrote.status \in {"EXECUTED", "FAILED"}
          BY <3>3 DEF Wins, Updates, OutcomeStatus
        <4> HIDE DEF p, k
        <4> QED BY <3>0, <4>1, <4>2, <4>3 DEF SeenOf, MoveOf, InFlight, Reporting
      <3> QED BY <1>2, <3>1, <3>2, <3>3 DEF Shaped
    <2>r. (\A f, g \in Calls :
              /\ Reporting(call'[f]) /\ Reporting(call'[g])
              /\ call'[f].key = call'[g].key /\ MoveOf(call'[f]) = MoveOf(call'[g])
              => f = g) => ReportsApart'
      BY DEF ReportsApart, Reporting, MoveOf
    <2>4. ReportsApart'
      <3>1. CASE Wins(h)
        <4>1. \A g \in Calls : g # h /\ Reporting(call[g]) /\ call[g].key = k
                => MoveOf(call[g]) \in moves[k]
          BY DEF HistoryInv, SeenOf, Reporting
        <4>2. /\ MoveOf(call'[h]) = p \/ ~Reporting(call'[h])
              /\ p \notin moves[k] /\ call'[h].key = k
          BY <3>1, WinIsNew DEF Wins, Continues
        <4> HIDE DEF p, k
        <4>3. ASSUME NEW g \in Calls, g # h, Reporting(call[g]), call[g].key = k,
                     Reporting(call'[h])
              PROVE  MoveOf(call[g]) # MoveOf(call'[h])
          BY <4>1, <4>2, <4>3
        <4> SUFFICES ASSUME NEW f \in Calls, NEW g \in Calls,
                            Reporting(call'[f]), Reporting(call'[g]), f # g,
                            call'[f].key = call'[g].key, MoveOf(call'[f]) = MoveOf(call'[g])
                     PROVE  FALSE
          BY <2>r
        <4>4. CASE f = h
          BY <2>0, <4>2, <4>3, <4>4
        <4>5. CASE g = h
          BY <2>0, <4>2, <4>3, <4>5
        <4>6. CASE f # h /\ g # h
          BY <2>0, <4>6 DEF HistoryInv, ReportsApart
        <4> QED BY <4>4, <4>5, <4>6
      <3>2. CASE ~Wins(h)
        <4>1. Reporting(call'[h]) =>
                 /\ Reporting(call[h]) /\ call'[h].key = call[h].key
                 /\ MoveOf(call'[h]) = MoveOf(call[h])
          BY <1>2, <3>2, IdleType
             DEF Shaped, Arrives, Leaves, Drops, Decides, Checks, Flies, Attests, RecordsReceipt,
                 RecordsMove, Reporting, MoveOf, Continues
        <4> SUFFICES ASSUME NEW f \in Calls, NEW g \in Calls,
                            Reporting(call'[f]), Reporting(call'[g]), f # g,
                            call'[f].key = call'[g].key, MoveOf(call'[f]) = MoveOf(call'[g])
                     PROVE  FALSE
          BY <2>r
        <4>2. \A e \in {f, g} :
                 /\ Reporting(call[e]) /\ call'[e].key = call[e].key
                 /\ MoveOf(call'[e]) = MoveOf(call[e])
          BY <2>0, <4>1
        <4> QED BY <4>2 DEF HistoryInv, ReportsApart
      <3> QED BY <3>1, <3>2
    <2> HIDE DEF p, k
    <2> QED BY <2>0, <2>1, <2>2, <2>3, <2>4 DEF HistoryInv
  <1> QED BY <1>1, <1>2, StepShapes

LEMMA HistoryAlways == Spec => []HistoryInv
  <1>1. Init => HistoryInv
    BY DEF Init, HistoryInv, ReportsApart, Reporting, Idle
  <1>2. TypeInv /\ TypeInv' /\ ExecutionOwned /\ HistoryInv /\ [Next]_vars => HistoryInv'
    BY StepHistory
  <1> QED BY <1>1, <1>2, TypeAlways, ExecutionIsOwned, PTL DEF Spec

\* Of the calls that settle a request there is one.
LEMMA OneSettles ==
    ASSUME HistoryInv, NEW g \in Calls, NEW h \in Calls, call[g].key = call[h].key,
           call[g].at \in {"receipt", "auditReceipt"}, call[h].at \in {"receipt", "auditReceipt"}
    PROVE  g = h
  <1>1. MoveOf(call[g]) = MoveOf(call[h])
    BY DEF HistoryInv, SeenOf, MoveOf
  <1> QED BY <1>1 DEF HistoryInv, ReportsApart, Reporting

-----------------------------------------------------------------------------
(* Receipts *)

ReceiptOf(k) ==
    /\ receipt[k] # NoReceipt =>
          /\ row[k].status \in {"EXECUTED", "FAILED"}
          /\ receipt[k].verification = "VERIFIED" <=> row[k].status = "EXECUTED"
          /\ receipt[k].verification \in {"VERIFIED", "FAILED"}
          /\ effects[k] = <<receipt[k].executionId>>
    /\ k \in outbox <=> receipt[k] # NoReceipt

DueOf(c) ==
    /\ c.at = "receipt" =>
          /\ receipt[c.key] = NoReceipt
          /\ c.wrote.status = OutcomeStatus(c.verdict)
          /\ effects[c.key] = <<c.wrote.executionId>>
    /\ c.at = "auditReceipt" => receipt[c.key] # NoReceipt

ReceiptsInv == (\A k \in Keys : ReceiptOf(k)) /\ \A h \in Calls : DueOf(call[h])

LEMMA StepReceipts ==
    ASSUME TypeInv, TypeInv', ExecutionOwned, EffectsInv, HistoryInv, ReceiptsInv, [Next]_vars
    PROVE  ReceiptsInv'
  <1> USE DEF TypeInv, TypeOK
  <1>a. \A g \in Calls : call[g].at # "idle" => call[g].key \in Keys
    BY DEF Running
  <1>b. ASSUME NEW g \in Calls, InFlight(call[g])
        PROVE  /\ row[call[g].key].status = "EXECUTING"
               /\ receipt[call[g].key] = NoReceipt
    <2>1. call[g].key \in Keys
      BY <1>a, <1>b DEF InFlight
    <2>2. row[call[g].key].status = "EXECUTING"
      BY <1>b, <2>1 DEF ExecutionOwned, Executing, InFlight
    <2> QED BY <2>1, <2>2 DEF ReceiptsInv, ReceiptOf
  <1>1. CASE Rests
    BY <1>1 DEF Rests, ReceiptsInv, ReceiptOf, DueOf
  <1>2. ASSUME NEW h \in Calls, Shaped(h) PROVE ReceiptsInv'
    <2> DEFINE k == call[h].key
    <2>0. \A g \in Calls : g # h => call'[g] = call[g]
      BY <1>2, OthersStay
    <2>1. CASE Wins(h)
      <3>1. /\ k \in Keys /\ row' = [row EXCEPT ![k] = call'[h].wrote]
            /\ row[k].status \notin {"EXECUTED", "FAILED"}
            /\ UNCHANGED <<receipt, outbox, effects>> /\ call'[h].key = k
        BY <2>1, WinFacts DEF Wins, Continues
      <3>2. receipt[k] = NoReceipt
        BY <3>1 DEF ReceiptsInv, ReceiptOf
      <3>3. ASSUME NEW j \in Keys PROVE ReceiptOf(j)'
        <4>1. ReceiptOf(j)
          BY DEF ReceiptsInv
        <4>2. CASE j = k
          BY <3>1, <3>2, <4>1, <4>2 DEF ReceiptOf
        <4>3. CASE j # k
          BY <3>1, <4>1, <4>3 DEF ReceiptOf
        <4> QED BY <4>2, <4>3
      <3>4. ASSUME NEW g \in Calls, g # h PROVE DueOf(call[g])'
        BY <2>0, <3>1, <3>4 DEF ReceiptsInv, DueOf
      <3>5. DueOf(call[h])'
        <4>1. CASE call'[h].at = "receipt"
          <5>1. /\ call[h].at = "settling" /\ call'[h].verdict = call[h].verdict
                /\ call'[h].wrote.status = OutcomeStatus(call[h].verdict)
                /\ call'[h].wrote.executionId = row[k].executionId
            BY <2>1, <4>1 DEF Wins, Updates
          <5>2. effects[k] = <<row[k].executionId>>
            BY <3>1, <5>1 DEF EffectsInv, EffectsOf, FlightOf, InFlight
          <5> QED BY <3>1, <3>2, <4>1, <5>1, <5>2 DEF DueOf
        <4>2. CASE call'[h].at # "receipt"
          <5>1. call'[h].at \in {"audit", "calling"}
            BY <2>1, <4>2 DEF Wins, Updates
          <5> QED BY <4>2, <5>1 DEF DueOf
        <4> QED BY <4>1, <4>2
      <3> QED BY <3>3, <3>4, <3>5 DEF ReceiptsInv
    <2>2. CASE Flies(h)
      <3>1. /\ InFlight(call[h]) /\ UNCHANGED <<row, receipt, outbox>>
            /\ call'[h].at \in {"awaiting", "settling"}
        BY <2>2 DEF Flies, InFlight
      <3>2. k \in Keys /\ receipt[k] = NoReceipt /\ row[k].status = "EXECUTING"
        BY <1>a, <1>b, <3>1 DEF InFlight
      <3>3. \A j \in Keys : j # k => effects'[j] = effects[j]
        BY <2>2, <3>2 DEF Flies
      <3>4. ASSUME NEW j \in Keys PROVE ReceiptOf(j)'
        <4>1. ReceiptOf(j)
          BY DEF ReceiptsInv
        <4> QED BY <3>1, <3>2, <3>3, <4>1 DEF ReceiptOf
      <3>5. ASSUME NEW g \in Calls PROVE DueOf(call[g])'
        <4>1. CASE g = h
          BY <3>1, <4>1 DEF DueOf
        <4>2. CASE g # h
          <5>1. DueOf(call[g]) /\ call'[g] = call[g]
            BY <2>0, <4>2 DEF ReceiptsInv
          <5>2. CASE call[g].at = "receipt"
            <6>1. row[call[g].key].status \in {"EXECUTED", "FAILED"} /\ call[g].key \in Keys
              BY <1>a, <5>2 DEF HistoryInv, SeenOf
            <6>2. call[g].key # k
              BY <3>2, <6>1
            <6> QED BY <3>1, <3>3, <5>1, <5>2, <6>1, <6>2 DEF DueOf
          <5>3. CASE call[g].at # "receipt"
            BY <3>1, <5>1, <5>3 DEF DueOf
          <5> QED BY <5>2, <5>3
        <4> QED BY <4>1, <4>2
      <3> QED BY <3>4, <3>5 DEF ReceiptsInv
    <2>3. CASE Attests(h)
      <3>1. /\ k \in Keys /\ UNCHANGED <<row, effects>> /\ call'[h].key = k
            /\ call'[h].at = "auditReceipt" /\ call[h].at = "receipt"
            /\ outbox' = outbox \cup {k}
        BY <1>a, <2>3 DEF Attests, Continues
      <3> DEFINE r == [verification |-> VerificationOf(call[h].verdict),
                       executionId |-> call[h].wrote.executionId]
      <3>2. receipt' = [receipt EXCEPT ![k] = r]
        BY <2>3 DEF Attests
      <3>3. /\ call[h].wrote.status = OutcomeStatus(call[h].verdict)
            /\ effects[k] = <<call[h].wrote.executionId>>
            /\ call[h].wrote = row[k] /\ row[k].status \in {"EXECUTED", "FAILED"}
        BY <3>1 DEF ReceiptsInv, DueOf, HistoryInv, SeenOf
      <3>4. /\ r.verification = "VERIFIED" <=> row[k].status = "EXECUTED"
            /\ r.verification \in {"VERIFIED", "FAILED"}
            /\ r.executionId = call[h].wrote.executionId
            /\ r # NoReceipt
        BY <3>3 DEF OutcomeStatus, VerificationOf, NoReceipt
      <3> HIDE DEF r
      <3>5. ASSUME NEW j \in Keys PROVE ReceiptOf(j)'
        <4>1. ReceiptOf(j)
          BY DEF ReceiptsInv
        <4>2. CASE j = k
          BY <3>1, <3>2, <3>3, <3>4, <4>2 DEF ReceiptOf
        <4>3. CASE j # k
          BY <3>1, <3>2, <4>1, <4>3 DEF ReceiptOf
        <4> QED BY <4>2, <4>3
      <3>6. ASSUME NEW g \in Calls PROVE DueOf(call[g])'
        <4>1. CASE g = h
          BY <3>1, <3>2, <3>4, <4>1 DEF DueOf
        <4>2. CASE g # h /\ call[g].at \in {"receipt", "auditReceipt"}
          <5>1. DueOf(call[g]) /\ call'[g] = call[g] /\ call[g].key \in Keys
            BY <1>a, <2>0, <4>2 DEF ReceiptsInv
          <5>2. call[g].key # k
            BY <3>1, <4>2, OneSettles
          <5> QED BY <3>1, <3>2, <5>1, <5>2 DEF DueOf
        <4>3. CASE g # h /\ call[g].at \notin {"receipt", "auditReceipt"}
          BY <2>0, <4>3 DEF DueOf
        <4> QED BY <4>1, <4>2, <4>3
      <3> QED BY <3>5, <3>6 DEF ReceiptsInv
    <2>4. CASE ~Wins(h) /\ ~Flies(h) /\ ~Attests(h)
      <3>1. /\ UNCHANGED <<row, effects, receipt, outbox>>
            /\ call'[h].at \notin {"receipt", "auditReceipt"}
        BY <1>2, <2>4, IdleType
           DEF Shaped, Arrives, Leaves, Drops, Decides, Checks, RecordsReceipt, RecordsMove
      <3>2. ASSUME NEW g \in Calls PROVE DueOf(call[g])'
        <4>1. CASE g = h
          BY <3>1, <4>1 DEF DueOf
        <4>2. CASE g # h
          BY <2>0, <3>1, <4>2 DEF ReceiptsInv, DueOf
        <4> QED BY <4>1, <4>2
      <3> QED BY <3>1, <3>2 DEF ReceiptsInv, ReceiptOf
    <2> QED BY <2>1, <2>2, <2>3, <2>4
  <1> QED BY <1>1, <1>2, StepShapes

LEMMA EffectsAlways == Spec => []EffectsInv
  <1>1. TypeInv /\ TypeInv' /\ ExecutionOwned /\ EffectsInv /\ [Next]_vars => EffectsInv'
    BY StepEffects
  <1> QED BY InitEffects, <1>1, TypeAlways, ExecutionIsOwned, PTL DEF Spec

LEMMA ReceiptsAlways == Spec => []ReceiptsInv
  <1>1. Init => ReceiptsInv
    BY DEF Init, ReceiptsInv, ReceiptOf, DueOf, Idle
  <1>2. TypeInv /\ TypeInv' /\ ExecutionOwned /\ EffectsInv /\ HistoryInv /\ ReceiptsInv /\ [Next]_vars
        => ReceiptsInv'
    BY StepReceipts
  <1> QED
    BY <1>1, <1>2, TypeAlways, ExecutionIsOwned, EffectsAlways, HistoryAlways, PTL DEF Spec

\* A receipt is of a settled execution, says what its row says, names what the
\* adapter ran, and comes with its event (GoGateService.createEvidenceReceipt).
THEOREM ReceiptsMatchOutcomes == Spec => []ReceiptMatchesOutcome
  <1>1. ReceiptsInv => ReceiptMatchesOutcome
    BY DEF ReceiptsInv, ReceiptOf, ReceiptMatchesOutcome
  <1> QED BY <1>1, ReceiptsAlways, PTL
-----------------------------------------------------------------------------
(* The audit log *)

SoundEvent(e) ==
    /\ e.action = "transition" => <<e.previous, e.new>> \in moves[e.key]
    /\ e.action = "receipt" => e.new = row[e.key].status /\ receipt[e.key] # NoReceipt

Unrecorded(c) ==
    /\ Reporting(c) => \A i \in DOMAIN audit : audit[i] # TransitionEvent(c)
    /\ c.at = "auditReceipt" => \A i \in DOMAIN audit : audit[i] # ReceiptEvent(c)

TruthInv ==
    /\ \A i \in DOMAIN audit : SoundEvent(audit[i])
    /\ \A i, j \in DOMAIN audit : audit[i] = audit[j] => i = j
    /\ \A h \in Calls : Unrecorded(call[h])

LEMMA AppendFacts ==
    ASSUME NEW S, NEW s \in Seq(S), NEW e \in S, NEW t, t = Append(s, e)
    PROVE  /\ DOMAIN t = DOMAIN s \cup {Len(s) + 1} /\ Len(s) + 1 \notin DOMAIN s
           /\ t[Len(s) + 1] = e /\ \A i \in DOMAIN s : t[i] = s[i]
  OBVIOUS

\* What was settled, moved or attested stays so.
LEMMA Monotone ==
    ASSUME TypeInv, TypeInv', ReceiptsInv, NEW h \in Calls, Shaped(h), NEW k \in Keys
    PROVE  /\ moves[k] \subseteq moves'[k]
           /\ receipt[k] # NoReceipt => receipt'[k] # NoReceipt /\ row'[k] = row[k]
  <1> USE DEF TypeInv, TypeOK
  <1>1. CASE Wins(h)
    <2>1. /\ call[h].key \in Keys /\ row[call[h].key].status \notin {"EXECUTED", "FAILED"}
          /\ row' = [row EXCEPT ![call[h].key] = call'[h].wrote]
          /\ moves' = [moves EXCEPT ![call[h].key] =
                         @ \cup {<<row[call[h].key].status, call'[h].wrote.status>>}]
          /\ receipt' = receipt
      BY <1>1, WinFacts DEF Wins
    <2>2. receipt[k] # NoReceipt => k # call[h].key
      BY <2>1 DEF ReceiptsInv, ReceiptOf
    <2> QED BY <2>1, <2>2
  <1>2. CASE Attests(h)
    <2>1. /\ UNCHANGED <<row, moves>> /\ receipt[call[h].key] = NoReceipt
          /\ \A j \in Keys : j # call[h].key => receipt'[j] = receipt[j]
      BY <1>2 DEF Attests
    <2> QED BY <2>1
  <1>3. CASE ~Wins(h) /\ ~Attests(h)
    BY <1>3 DEF Shaped, Arrives, Leaves, Drops, Decides, Checks, Flies, RecordsReceipt, RecordsMove
  <1> QED BY <1>1, <1>2, <1>3

LEMMA StepTruth ==
    ASSUME TypeInv, TypeInv', HistoryInv, ReceiptsInv, TruthInv, [Next]_vars
    PROVE  TruthInv'
  <1> USE DEF TypeInv, TypeOK
  <1>a. \A g \in Calls : call[g].at # "idle" => call[g].key \in Keys
    BY DEF Running
  <1>b. \A i \in DOMAIN audit : audit[i] \in AuditEvent
    OBVIOUS
  <1>1. CASE Rests
    BY <1>1 DEF Rests, TruthInv, SoundEvent, Unrecorded
  <1>2. ASSUME NEW h \in Calls, Shaped(h) PROVE TruthInv'
    <2>0. \A g \in Calls : g # h => call'[g] = call[g]
      BY <1>2, OthersStay
    <2>1. \A e \in AuditEvent : SoundEvent(e) => SoundEvent(e)'
      <3> SUFFICES ASSUME NEW e \in AuditEvent, SoundEvent(e) PROVE SoundEvent(e)'
        OBVIOUS
      <3>1. e.key \in Keys
        BY DEF AuditEvent
      <3>2. /\ moves[e.key] \subseteq moves'[e.key]
            /\ receipt[e.key] # NoReceipt => receipt'[e.key] # NoReceipt /\ row'[e.key] = row[e.key]
        BY <1>2, <3>1, Monotone
      <3> QED BY <3>2 DEF SoundEvent
    <2>2. CASE audit' = audit
      <3>1. ASSUME NEW g \in Calls PROVE Unrecorded(call[g])'
        <4>1. CASE g # h
          BY <2>0, <2>2, <4>1 DEF TruthInv, Unrecorded, Reporting, TransitionEvent, ReceiptEvent
        <4>2. CASE g = h /\ Wins(h)
          <5>1. /\ MoveOf(call'[h]) \notin moves[call'[h].key] \/ ~Reporting(call'[h])
                /\ call'[h].at # "auditReceipt"
            BY <4>2, WinIsNew DEF Wins, Continues, Updates
          <5>2. ASSUME Reporting(call'[h]), NEW i \in DOMAIN audit
                PROVE  audit[i] # TransitionEvent(call'[h])
            <6> SUFFICES ASSUME audit[i] = TransitionEvent(call'[h]) PROVE FALSE
              OBVIOUS
            <6>1. /\ audit[i].action = "transition" /\ audit[i].key = call'[h].key
                  /\ <<audit[i].previous, audit[i].new>> = MoveOf(call'[h])
              BY DEF TransitionEvent, MoveOf
            <6>2. <<audit[i].previous, audit[i].new>> \in moves[audit[i].key]
              BY <6>1 DEF TruthInv, SoundEvent
            <6> QED BY <5>1, <5>2, <6>1, <6>2
          <5> QED BY <2>2, <4>2, <5>1, <5>2
                  DEF Unrecorded, Reporting, TransitionEvent, ReceiptEvent
        <4>3. CASE g = h /\ Attests(h)
          <5>1. /\ Reporting(call[h]) /\ TransitionEvent(call'[h]) = TransitionEvent(call[h])
                /\ call'[h].key = call[h].key /\ receipt[call[h].key] = NoReceipt
            BY <4>3 DEF Attests, Continues, Reporting, TransitionEvent
          <5>2. ASSUME NEW i \in DOMAIN audit
                PROVE  /\ audit[i] # TransitionEvent(call'[h])
                       /\ audit[i] # ReceiptEvent(call'[h])
            <6>1. audit[i] # TransitionEvent(call[h])
              BY <5>1, <5>2 DEF TruthInv, Unrecorded
            <6>2. audit[i] # ReceiptEvent(call'[h])
              <7> SUFFICES ASSUME audit[i] = ReceiptEvent(call'[h]) PROVE FALSE
                OBVIOUS
              <7>1. audit[i].action = "receipt" /\ audit[i].key = call[h].key
                BY <5>1 DEF ReceiptEvent
              <7> QED BY <5>1, <7>1 DEF TruthInv, SoundEvent
            <6> QED BY <5>1, <6>1, <6>2
          <5> QED BY <2>2, <4>3, <5>2
                  DEF Unrecorded, Reporting, TransitionEvent, ReceiptEvent
        <4>4. CASE g = h /\ ~Wins(h) /\ ~Attests(h)
          <5>1. ~Reporting(call'[h])
            <6>1. audit' # audit \/ ~RecordsReceipt(h)
              BY DEF RecordsReceipt
            <6> QED BY <1>2, <2>2, <4>4, <6>1, IdleType
                    DEF Shaped, Arrives, Leaves, Drops, Decides, Checks, Flies, RecordsMove,
                        Reporting
          <5> QED BY <4>4, <5>1 DEF Unrecorded, Reporting
        <4> QED BY <4>1, <4>2, <4>3, <4>4
      <3>2. \A i \in DOMAIN audit : SoundEvent(audit[i])'
        BY <1>b, <2>1, <2>2 DEF TruthInv
      <3> QED BY <2>2, <3>1, <3>2 DEF TruthInv
    <2>3. CASE RecordsReceipt(h)
      <3> DEFINE e == ReceiptEvent(call[h])
      <3>1. /\ audit' = Append(audit, e) /\ UNCHANGED <<row, receipt, moves>>
            /\ call[h].at = "auditReceipt" /\ call'[h].at = "audit"
            /\ TransitionEvent(call'[h]) = TransitionEvent(call[h])
            /\ call[h].key \in Keys
        BY <1>a, <2>3 DEF RecordsReceipt, Continues, TransitionEvent
      <3>2. call[h].wrote = row[call[h].key] /\ receipt[call[h].key] # NoReceipt
        BY <3>1 DEF HistoryInv, SeenOf, ReceiptsInv, DueOf
      <3>3. e \in AuditEvent /\ SoundEvent(e)
        BY <3>1, <3>2 DEF ReceiptEvent, AuditEvent, SoundEvent, Row, Status
      <3>4. \A i \in DOMAIN audit : audit[i] # e
        BY <3>1 DEF TruthInv, Unrecorded
      <3>5. ASSUME NEW g \in Calls PROVE TransitionEvent(call[g]) # e
        BY DEF TransitionEvent, ReceiptEvent
      <3>6. ASSUME NEW g \in Calls, g # h, call[g].at = "auditReceipt"
            PROVE  ReceiptEvent(call[g]) # e
        <4>1. call[g].key # call[h].key
          BY <3>1, <3>6, OneSettles
        <4> QED BY <4>1 DEF ReceiptEvent
      <3>7. /\ DOMAIN audit' = DOMAIN audit \cup {Len(audit) + 1} /\ Len(audit) + 1 \notin DOMAIN audit
            /\ audit'[Len(audit) + 1] = e /\ \A i \in DOMAIN audit : audit'[i] = audit[i]
        <4> HIDE DEF e
        <4>1. audit \in Seq(AuditEvent) /\ e \in AuditEvent /\ audit' = Append(audit, e)
          BY <3>1, <3>3
        <4> HIDE DEF TypeInv, TypeOK
        <4> QED BY <4>1, AppendFacts
      <3> HIDE DEF e
      <3>8. \A i \in DOMAIN audit' : SoundEvent(audit[i])'
        <4> SUFFICES ASSUME NEW i \in DOMAIN audit' PROVE SoundEvent(audit[i])'
          OBVIOUS
        <4>1. CASE i \in DOMAIN audit
          <5>1. SoundEvent(audit[i]) /\ audit[i] \in AuditEvent
            BY <1>b, <4>1 DEF TruthInv
          <5> QED BY <2>1, <3>7, <4>1, <5>1 DEF SoundEvent
        <4>2. CASE i = Len(audit) + 1
          BY <2>1, <3>3, <3>7, <4>2 DEF SoundEvent
        <4> QED BY <3>7, <4>1, <4>2
      <3>9. \A i, j \in DOMAIN audit' : audit'[i] = audit'[j] => i = j
        BY <3>4, <3>7 DEF TruthInv
      <3>10. ASSUME NEW g \in Calls PROVE Unrecorded(call[g])'
        <4>1. CASE g = h
          <5>1. \A i \in DOMAIN audit' : audit'[i] # TransitionEvent(call[h])
            BY <3>1, <3>5, <3>7 DEF TruthInv, Unrecorded, Reporting
          <5> QED BY <3>1, <4>1, <5>1 DEF Unrecorded, TransitionEvent
        <4>2. CASE g # h
          <5>1. Unrecorded(call[g])
            BY DEF TruthInv
          <5>2. Reporting(call[g]) => \A i \in DOMAIN audit' : audit'[i] # TransitionEvent(call[g])
            BY <3>5, <3>7, <5>1 DEF Unrecorded
          <5>3. call[g].at = "auditReceipt" => \A i \in DOMAIN audit' : audit'[i] # ReceiptEvent(call[g])
            BY <3>6, <3>7, <4>2, <5>1 DEF Unrecorded
          <5> QED BY <2>0, <4>2, <5>2, <5>3 DEF Unrecorded, Reporting, TransitionEvent, ReceiptEvent
        <4> QED BY <4>1, <4>2
      <3> HIDE DEF TypeInv, TypeOK
      <3> QED BY <3>8, <3>9, <3>10 DEF TruthInv
    <2>4. CASE RecordsMove(h)
      <3> DEFINE e == TransitionEvent(call[h])
      <3>1. /\ audit' = Append(audit, e) /\ UNCHANGED <<row, receipt, moves>>
            /\ Reporting(call[h]) /\ ~Reporting(call'[h]) /\ call[h].key \in Keys
        BY <1>a, <2>4, IdleType DEF RecordsMove, Reporting
      <3>2. MoveOf(call[h]) \in moves[call[h].key]
        BY <3>1 DEF HistoryInv, SeenOf, Reporting
      <3>3. e \in AuditEvent /\ SoundEvent(e)
        <4>1. call[h].seen.status \in Status /\ call[h].wrote.status \in Status
          BY DEF Call, Row
        <4> QED BY <3>1, <3>2, <4>1 DEF TransitionEvent, AuditEvent, SoundEvent, MoveOf
      <3>4. \A i \in DOMAIN audit : audit[i] # e
        BY <3>1 DEF TruthInv, Unrecorded
      <3>5. ASSUME NEW g \in Calls PROVE ReceiptEvent(call[g]) # e
        BY DEF TransitionEvent, ReceiptEvent
      <3>6. ASSUME NEW g \in Calls, g # h, Reporting(call[g])
            PROVE  TransitionEvent(call[g]) # e
        <4>1. call[g].key # call[h].key \/ MoveOf(call[g]) # MoveOf(call[h])
          BY <3>1, <3>6 DEF HistoryInv, ReportsApart
        <4> QED BY <4>1 DEF TransitionEvent, MoveOf
      <3>7. /\ DOMAIN audit' = DOMAIN audit \cup {Len(audit) + 1} /\ Len(audit) + 1 \notin DOMAIN audit
            /\ audit'[Len(audit) + 1] = e /\ \A i \in DOMAIN audit : audit'[i] = audit[i]
        <4> HIDE DEF e
        <4>1. audit \in Seq(AuditEvent) /\ e \in AuditEvent /\ audit' = Append(audit, e)
          BY <3>1, <3>3
        <4> HIDE DEF TypeInv, TypeOK
        <4> QED BY <4>1, AppendFacts
      <3> HIDE DEF e
      <3>8. \A i \in DOMAIN audit' : SoundEvent(audit[i])'
        <4> SUFFICES ASSUME NEW i \in DOMAIN audit' PROVE SoundEvent(audit[i])'
          OBVIOUS
        <4>1. CASE i \in DOMAIN audit
          <5>1. SoundEvent(audit[i]) /\ audit[i] \in AuditEvent
            BY <1>b, <4>1 DEF TruthInv
          <5> QED BY <2>1, <3>7, <4>1, <5>1 DEF SoundEvent
        <4>2. CASE i = Len(audit) + 1
          BY <2>1, <3>3, <3>7, <4>2 DEF SoundEvent
        <4> QED BY <3>7, <4>1, <4>2
      <3>9. \A i, j \in DOMAIN audit' : audit'[i] = audit'[j] => i = j
        BY <3>4, <3>7 DEF TruthInv
      <3>10. ASSUME NEW g \in Calls PROVE Unrecorded(call[g])'
        <4>1. CASE g = h
          BY <3>1, <4>1 DEF Unrecorded, Reporting
        <4>2. CASE g # h
          <5>1. Unrecorded(call[g])
            BY DEF TruthInv
          <5>2. Reporting(call[g]) => \A i \in DOMAIN audit' : audit'[i] # TransitionEvent(call[g])
            BY <3>6, <3>7, <4>2, <5>1 DEF Unrecorded
          <5>3. call[g].at = "auditReceipt" => \A i \in DOMAIN audit' : audit'[i] # ReceiptEvent(call[g])
            BY <3>5, <3>7, <5>1 DEF Unrecorded
          <5> QED BY <2>0, <4>2, <5>2, <5>3 DEF Unrecorded, Reporting, TransitionEvent, ReceiptEvent
        <4> QED BY <4>1, <4>2
      <3> HIDE DEF TypeInv, TypeOK
      <3> QED BY <3>8, <3>9, <3>10 DEF TruthInv
    <2>5. audit' = audit \/ RecordsReceipt(h) \/ RecordsMove(h)
      BY <1>2 DEF Shaped, Arrives, Leaves, Drops, Decides, Checks, Flies, Wins, Attests
    <2> QED BY <2>2, <2>3, <2>4, <2>5
  <1> QED BY <1>1, <1>2, StepShapes

LEMMA TruthAlways == Spec => []TruthInv
  <1>1. Init => TruthInv
    BY DEF Init, TruthInv, Unrecorded, Reporting, Idle
  <1>2. TypeInv /\ TypeInv' /\ HistoryInv /\ ReceiptsInv /\ TruthInv /\ [Next]_vars => TruthInv'
    BY StepTruth
  <1> QED BY <1>1, <1>2, TypeAlways, HistoryAlways, ReceiptsAlways, PTL DEF Spec

\* No audit event describes a transition that did not happen, and none is there
\* twice (GoGateService's audit.append calls).
THEOREM AuditIsTruthful == Spec => []AuditTruthful
  <1>1. TypeInv /\ TruthInv => AuditTruthful
    <2> SUFFICES ASSUME TypeInv, TruthInv PROVE AuditTruthful
      OBVIOUS
    <2>1. ASSUME NEW i \in DOMAIN audit PROVE audit[i].action \in {"transition", "receipt"}
      <3>1. audit[i] \in AuditEvent
        BY DEF TypeInv, TypeOK
      <3> QED BY <3>1 DEF AuditEvent
    <2> QED BY <2>1 DEF TruthInv, SoundEvent, AuditTruthful
  <1> QED BY <1>1, TypeAlways, TruthAlways, PTL

-----------------------------------------------------------------------------
(* Nothing is missing from the audit log *)

Pending(k, m) ==
    \E g \in Calls : Reporting(call[g]) /\ call[g].key = k /\ MoveOf(call[g]) = m

ReceiptPending(k) == \E g \in Calls : call[g].at = "auditReceipt" /\ call[g].key = k

Accounted(k) ==
    k \notin faulted =>
        /\ \A m \in moves[k] : m[2] # "EXECUTING" => Audited(k, m) \/ Pending(k, m)
        /\ receipt[k] # NoReceipt => ReceiptAudited(k) \/ ReceiptPending(k)

LEMMA StepAccounted ==
    ASSUME TypeInv, TypeInv', HistoryInv, ReceiptsInv, \A k \in Keys : Accounted(k), [Next]_vars
    PROVE  \A k \in Keys : Accounted(k)'
  <1> USE DEF TypeInv, TypeOK
  <1>a. \A g \in Calls : call[g].at # "idle" => call[g].key \in Keys
    BY DEF Running
  <1>1. CASE Rests
    <2> SUFFICES ASSUME NEW k \in Keys, k \notin faulted' PROVE Accounted(k)'
      BY DEF Accounted
    <2>1. UNCHANGED <<receipt, audit, moves, faulted, call>> /\ Accounted(k)
      BY <1>1 DEF Rests
    <2>2. \A m : Audited(k, m) \/ Pending(k, m) => Audited(k, m)' \/ Pending(k, m)'
      BY <2>1 DEF Audited, Pending, Reporting, MoveOf
    <2>3. ReceiptAudited(k) \/ ReceiptPending(k) => ReceiptAudited(k)' \/ ReceiptPending(k)'
      BY <2>1 DEF ReceiptAudited, ReceiptPending
    <2> QED BY <2>1, <2>2, <2>3 DEF Accounted
  <1>2. ASSUME NEW h \in Calls, Shaped(h), NEW k \in Keys, k \notin faulted' PROVE Accounted(k)'
    <2>0. \A g \in Calls : g # h => call'[g] = call[g]
      BY <1>2, OthersStay
    <2>1. k \notin faulted
      BY <1>2 DEF Shaped, Arrives, Leaves, Drops, Decides, Checks, Flies, Wins, Attests,
                  RecordsReceipt, RecordsMove
    <2>2. /\ \A m : Audited(k, m) => Audited(k, m)'
          /\ ReceiptAudited(k) => ReceiptAudited(k)'
          /\ RecordsReceipt(h) /\ call[h].key = k => ReceiptAudited(k)'
          /\ RecordsMove(h) => \A m : call[h].key = k /\ m = MoveOf(call[h]) => Audited(k, m)'
      <3>1. CASE audit' = audit /\ ~RecordsReceipt(h) /\ ~RecordsMove(h)
        BY <3>1 DEF Audited, ReceiptAudited
      <3>2. ASSUME NEW e, audit' = Append(audit, e),
                   \/ RecordsReceipt(h) /\ e = ReceiptEvent(call[h])
                   \/ RecordsMove(h) /\ e = TransitionEvent(call[h])
            PROVE  /\ DOMAIN audit' = DOMAIN audit \cup {Len(audit) + 1}
                   /\ audit'[Len(audit) + 1] = e /\ \A i \in DOMAIN audit : audit'[i] = audit[i]
        BY <3>2
      <3>3. CASE RecordsReceipt(h)
        <4> DEFINE e == ReceiptEvent(call[h])
        <4>1. audit' = Append(audit, e) /\ e.key = call[h].key /\ e.action = "receipt"
          BY <3>3 DEF RecordsReceipt, ReceiptEvent
        <4>2. /\ DOMAIN audit' = DOMAIN audit \cup {Len(audit) + 1}
              /\ audit'[Len(audit) + 1] = e /\ \A i \in DOMAIN audit : audit'[i] = audit[i]
          BY <3>2, <3>3, <4>1
        <4>3. ~RecordsMove(h)
          BY <3>3 DEF RecordsReceipt, RecordsMove
        <4> HIDE DEF e
        <4>4. ASSUME NEW m, Audited(k, m) PROVE Audited(k, m)'
          BY <4>2, <4>4 DEF Audited
        <4>5. ReceiptAudited(k) => ReceiptAudited(k)'
          BY <4>2 DEF ReceiptAudited
        <4>6. call[h].key = k => ReceiptAudited(k)'
          <5>1. Len(audit) + 1 \in DOMAIN audit'
            BY <4>2
          <5> QED BY <4>1, <4>2, <5>1 DEF ReceiptAudited
        <4> QED BY <4>3, <4>4, <4>5, <4>6
      <3>4. CASE RecordsMove(h)
        <4> DEFINE e == TransitionEvent(call[h])
        <4>1. audit' = Append(audit, e)
          BY <3>4 DEF RecordsMove
        <4>2. /\ DOMAIN audit' = DOMAIN audit \cup {Len(audit) + 1}
              /\ audit'[Len(audit) + 1] = e /\ \A i \in DOMAIN audit : audit'[i] = audit[i]
          BY <3>2, <3>4, <4>1
        <4>3. ~RecordsReceipt(h)
          BY <3>4 DEF RecordsReceipt, RecordsMove
        <4>4. ASSUME NEW m, call[h].key = k, m = MoveOf(call[h])
              PROVE  e = [key |-> k, action |-> "transition", previous |-> m[1], new |-> m[2]]
          BY <4>4 DEF TransitionEvent, MoveOf
        <4> HIDE DEF e
        <4> QED BY <4>2, <4>3, <4>4 DEF Audited, ReceiptAudited
      <3>5. audit' = audit \/ RecordsReceipt(h) \/ RecordsMove(h)
        BY <1>2 DEF Shaped, Arrives, Leaves, Drops, Decides, Checks, Flies, Wins, Attests
      <3> QED BY <3>1, <3>3, <3>4, <3>5
    \* A report that is pending stays so, or is made.
    <2>3. ASSUME NEW m, Pending(k, m) PROVE Pending(k, m)' \/ Audited(k, m)'
      <3>1. PICK g \in Calls : Reporting(call[g]) /\ call[g].key = k /\ MoveOf(call[g]) = m
        BY <2>3 DEF Pending
      <3>2. CASE g # h
        <4>1. call'[g] = call[g]
          BY <2>0, <3>2
        <4> QED BY <3>1, <4>1 DEF Pending, Reporting, MoveOf
      <3>3. CASE g = h /\ RecordsMove(h)
        BY <2>2, <3>1, <3>3
      <3>4. CASE g = h /\ ~RecordsMove(h)
        <4>1. ~Leaves(h)
          <5>1. call[h].at = "receipt" => receipt[call[h].key] = NoReceipt
            BY DEF ReceiptsInv, DueOf
          <5> QED BY <3>1, <3>4, <5>1 DEF Leaves
        <4>2. Attests(h) \/ RecordsReceipt(h)
          BY <1>2, <3>1, <3>4, <4>1
             DEF Shaped, Arrives, Drops, Decides, Checks, Flies, Wins, Updates, Reporting
        <4>3. /\ Reporting(call'[h]) /\ call'[h].key = k /\ call'[h].seen = call[h].seen
              /\ call'[h].wrote = call[h].wrote
          BY <3>1, <3>4, <4>2 DEF Attests, RecordsReceipt, Continues, Reporting
        <4> QED BY <3>1, <3>4, <4>3 DEF Pending, Reporting, MoveOf
      <3> QED BY <3>2, <3>3, <3>4
    <2>4. ASSUME ReceiptPending(k) PROVE ReceiptPending(k)' \/ ReceiptAudited(k)'
      <3>1. PICK g \in Calls : call[g].at = "auditReceipt" /\ call[g].key = k
        BY <2>4 DEF ReceiptPending
      <3>2. CASE g # h
        BY <2>0, <3>1, <3>2 DEF ReceiptPending
      <3>3. CASE g = h
        <4>1. RecordsReceipt(h)
          <5>1. call[h].at = "auditReceipt" /\ call[h].key = k
            BY <3>1, <3>3
          <5> HIDE DEF TypeInv, TypeOK
          <5> QED BY <1>2, <5>1
             DEF Shaped, Arrives, Leaves, Drops, Decides, Checks, Flies, Wins, Updates, Attests,
                 RecordsMove, Reporting
        <4> QED BY <2>2, <3>1, <3>3, <4>1
      <3> QED BY <3>2, <3>3
    <2>5. ASSUME NEW m \in moves'[k], m[2] # "EXECUTING" PROVE Audited(k, m)' \/ Pending(k, m)'
      <3>1. CASE m \in moves[k]
        <4>1. Audited(k, m) \/ Pending(k, m)
          BY <2>1, <2>5, <3>1 DEF Accounted
        <4> QED BY <2>2, <2>3, <4>1
      <3>2. CASE m \notin moves[k]
        <4>1. Wins(h)
          BY <1>2, <2>5, <3>2, OnlyWinsMove
        <4>2. k = call[h].key /\ m = <<row[k].status, call'[h].wrote.status>>
          <5> DEFINE p == <<row[call[h].key].status, call'[h].wrote.status>>
          <5>1. call[h].key \in Keys /\ moves' = [moves EXCEPT ![call[h].key] = @ \cup {p}]
            BY <4>1, WinFacts
          <5> HIDE DEF p
          <5>2. k = call[h].key /\ m = p
            BY <2>5, <3>2, <5>1
          <5> QED BY <5>2 DEF p
        <4>3. call'[h].key = k
          BY <4>1, <4>2 DEF Wins, Continues
        <4>4. Reporting(call'[h])
          BY <2>5, <4>1, <4>2 DEF Wins, Updates, Reporting
        <4>5. MoveOf(call'[h]) = m
          BY <4>1, <4>2, <4>4, WinIsNew
        <4> QED BY <4>3, <4>4, <4>5 DEF Pending, Reporting, MoveOf
      <3> QED BY <3>1, <3>2
    <2>6. ASSUME receipt'[k] # NoReceipt PROVE ReceiptAudited(k)' \/ ReceiptPending(k)'
      <3>1. CASE receipt[k] # NoReceipt
        <4>1. ReceiptAudited(k) \/ ReceiptPending(k)
          BY <2>1, <3>1 DEF Accounted
        <4> QED BY <2>2, <2>4, <4>1
      <3>2. CASE receipt[k] = NoReceipt
        <4>1. Attests(h)
          BY <1>2, <2>6, <3>2
             DEF Shaped, Arrives, Leaves, Drops, Decides, Checks, Flies, Wins, RecordsReceipt,
                 RecordsMove
        <4>2. call[h].key = k
          BY <2>6, <3>2, <4>1 DEF Attests
        <4> QED BY <4>1, <4>2 DEF ReceiptPending, Attests, Continues
      <3> QED BY <3>1, <3>2
    <2> QED BY <2>5, <2>6 DEF Accounted
  <1>3. ASSUME NEW k \in Keys, k \in faulted' PROVE Accounted(k)'
    BY <1>3 DEF Accounted
  <1> QED BY <1>1, <1>2, <1>3, StepShapes

\* When no call is left on a request and none was lost, all it went through but
\* the move to EXECUTING is in the audit log (GoGateService's audit.append calls).
THEOREM AuditIsComplete == Spec => []AuditComplete
  <1> DEFINE Inv == \A k \in Keys : Accounted(k)
  <1>1. Init => Inv
    BY DEF Init, Accounted
  <1>2. TypeInv /\ TypeInv' /\ HistoryInv /\ ReceiptsInv /\ Inv /\ [Next]_vars => Inv'
    BY StepAccounted
  <1>3. Inv => AuditComplete
    BY DEF Accounted, AuditComplete, Pending, ReceiptPending, Quiet
  <1> HIDE DEF Inv
  <1> QED BY <1>1, <1>2, <1>3, TypeAlways, HistoryAlways, ReceiptsAlways, PTL DEF Spec
-----------------------------------------------------------------------------
(* The refinement: a conditional update that matches is a move of the        *)
(* lifecycle, the adapter's call performs, the receipt attests, and the rest *)
(* stutters.                                                                 *)

Phases == [k \in Keys |-> row[k].status]
Performed == [k \in Keys |-> Len(effects[k])]
Attested == [k \in Keys |-> receipt[k].verification]

LEMMA WinMoves ==
    ASSUME TypeInv, TypeInv', ExecutionOwned, EffectsInv, NEW h \in Calls, Wins(h)
    PROVE  Promise!LifecycleNext
  <1> USE DEF TypeInv, TypeOK
  <1>0. PICK k \in Keys, from \in Status, to \in Status :
           k = call[h].key /\ from = row[k].status /\ to = call'[h].wrote.status
    BY WinFacts DEF Row
  <1>1. /\ UNCHANGED <<effects, receipt>>
        /\ row' = [row EXCEPT ![k] = call'[h].wrote]
    BY <1>0, WinFacts DEF Wins
  <1>2. Phases[k] = from /\ Phases' = [Phases EXCEPT ![k] = to]
    BY <1>0, <1>1 DEF Phases
  <1>3. UNCHANGED <<Performed, Attested>>
    BY <1>1 DEF Performed, Attested
  <1>4. Updates(h, row[k], call'[h].wrote)
    BY <1>0 DEF Wins
  <1>5. call[h].at = "settling" => Performed[k] = 1
    <2> SUFFICES ASSUME call[h].at = "settling" PROVE Performed[k] = 1
      OBVIOUS
    <2>1. effects[k] # <<>> /\ (effects[k] # <<>> => effects[k] = <<row[k].executionId>>)
      BY <1>0 DEF EffectsInv, EffectsOf, FlightOf, InFlight
    <2> QED BY <1>1, <2>1 DEF Performed
  <1>6. \/ from = "NONE" /\ to \in {"WAITING_FOR_GO", "REJECTED"}
        \/ from = "WAITING_FOR_GO" /\ to \in {"APPROVED", "REJECTED"}
        \/ from = "APPROVED" /\ to \in {"EXPIRED", "EXECUTING"}
        \/ from = "EXECUTING" /\ to \in {"EXECUTED", "FAILED"} /\ Performed[k] = 1
    BY <1>0, <1>4, <1>5 DEF Updates, BirthStatus, OutcomeStatus
  <1>7. Promise!Move(k, from, to)
    BY <1>2, <1>3 DEF Promise!Move, Phases, Performed, Attested
  <1>8. \/ Promise!Submit(k) \/ Promise!Decide(k) \/ Promise!Lapse(k) \/ Promise!Begin(k)
        \/ Promise!Conclude(k)
    BY <1>6, <1>7 DEF Promise!Submit, Promise!Decide, Promise!Lapse, Promise!Begin,
                      Promise!Conclude, Performed
  <1> QED BY <1>8 DEF Promise!LifecycleNext

LEMMA FlightPerforms ==
    ASSUME TypeInv, TypeInv', ExecutionOwned, EffectsInv, NEW h \in Calls, Flies(h)
    PROVE  [Promise!LifecycleNext]_(Promise!lifecycleVars)
  <1> USE DEF TypeInv, TypeOK
  <1>1. CASE UNCHANGED effects
    BY <1>1 DEF Flies, Promise!lifecycleVars
  <1>2. CASE call[h].at = "calling"
    <2>0. PICK k \in Keys : k = call[h].key
      BY <1>2 DEF Running
    <2>1. InFlight(call[h]) /\ UNCHANGED <<row, receipt>>
      BY <1>2 DEF InFlight, Flies
    <2>2. effects' = [effects EXCEPT ![k] = Append(@, call[h].wrote.executionId)]
      BY <1>2, <2>0 DEF Flies
    <2>3. row[k].status = "EXECUTING"
      BY <2>0, <2>1 DEF ExecutionOwned, Executing, InFlight
    <2>4. effects[k] = <<>>
      BY <1>2, <2>0, <2>1 DEF EffectsInv, FlightOf
    <2>5. effects'[k] = <<call[h].wrote.executionId>>
      BY <2>2, <2>4
    <2>6. /\ Phases[k] = "EXECUTING" /\ Performed[k] = 0
          /\ Performed' = [Performed EXCEPT ![k] = 1]
          /\ UNCHANGED <<Phases, Attested>>
      BY <2>1, <2>2, <2>3, <2>4, <2>5 DEF Phases, Performed, Attested
    <2>7. Promise!Perform(k)
      BY <2>6 DEF Promise!Perform, Phases, Performed, Attested
    <2> QED BY <2>7 DEF Promise!LifecycleNext
  <1> QED BY <1>1, <1>2 DEF Flies

LEMMA ReceiptAttests ==
    ASSUME TypeInv, TypeInv', HistoryInv, ReceiptsInv, NEW h \in Calls, Attests(h)
    PROVE  Promise!LifecycleNext
  <1> USE DEF TypeInv, TypeOK
  <1>0. PICK k \in Keys : k = call[h].key
    BY DEF Attests, Running
  <1> DEFINE r == [verification |-> VerificationOf(call[h].verdict),
                   executionId |-> call[h].wrote.executionId]
  <1>1. /\ UNCHANGED <<row, effects>> /\ call[h].at = "receipt"
        /\ receipt[k] = NoReceipt /\ receipt' = [receipt EXCEPT ![k] = r]
    BY <1>0 DEF Attests
  <1>2. /\ row[k].status = OutcomeStatus(call[h].verdict)
        /\ row[k].status \in {"EXECUTED", "FAILED"}
    BY <1>0, <1>1 DEF HistoryInv, SeenOf, ReceiptsInv, DueOf
  <1>3. r.verification = Promise!Attests(row[k].status)
    BY <1>2 DEF OutcomeStatus, VerificationOf, Promise!Attests
  <1> HIDE DEF r
  <1>4. /\ Phases[k] \in {"EXECUTED", "FAILED"} /\ Attested[k] = "none"
        /\ UNCHANGED <<Phases, Performed>>
    BY <1>1, <1>2 DEF Phases, Performed, Attested, NoReceipt
  <1>5. Attested' = [Attested EXCEPT ![k] = Promise!Attests(Phases[k])]
    <2> DEFINE v == Promise!Attests(row[k].status)
    <2>1. Phases[k] = row[k].status /\ r.verification = v
      BY <1>3 DEF Phases
    <2> HIDE DEF v
    <2>2. Attested' = [Attested EXCEPT ![k] = v]
      BY <1>1, <2>1 DEF Attested
    <2> QED BY <2>1, <2>2 DEF v
  <1>6. Promise!Attest(k)
    BY <1>4, <1>5 DEF Promise!Attest, Phases, Performed, Attested
  <1> QED BY <1>6 DEF Promise!LifecycleNext

\* GoGateService implements the lifecycle it promises: every behaviour of any
\* number of calls is one of GateLifecycle.
THEOREM LifecycleImplemented == Spec => ImplementsLifecycle
  <1>1. Init => Promise!LifecycleInit
    BY DEF Init, Promise!LifecycleInit, NoRow, NoReceipt
  <1>2. ASSUME TypeInv, TypeInv', ExecutionOwned, EffectsInv, HistoryInv, ReceiptsInv, [Next]_vars
        PROVE  [Promise!LifecycleNext]_(Promise!lifecycleVars)
    <2>1. CASE UNCHANGED <<row, effects, receipt>>
      BY <2>1 DEF Promise!lifecycleVars
    <2>2. \/ UNCHANGED <<row, effects, receipt>>
          \/ \E h \in Calls : Wins(h) \/ Flies(h) \/ Attests(h)
      BY <1>2, StepShapes DEF Rests, Shaped, Arrives, Leaves, Drops, Decides, Checks,
                              RecordsReceipt, RecordsMove
    <2> QED BY <1>2, <2>1, <2>2, WinMoves, FlightPerforms, ReceiptAttests
  <1> QED
    BY <1>1, <1>2, TypeAlways, ExecutionIsOwned, EffectsAlways, HistoryAlways, ReceiptsAlways,
       PTL DEF Spec, ImplementsLifecycle, Promise!Lifecycle
=============================================================================
