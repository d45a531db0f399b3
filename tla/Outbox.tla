------------------------------- MODULE Outbox -------------------------------
(***************************************************************************)
(* The transactional outbox: OutboxDispatcher (apps/api/src/outbox.ts) and *)
(* the polling loop of OutboxWorker (outbox-worker.ts), one per API        *)
(* process, over PrismaOutboxEventPort (prisma-ports.ts).                  *)
(*                                                                         *)
(* Times are kept relative to now, which makes the state space finite      *)
(* without bounding time: due is availableAt - now, held is now - lockedAt.*)
(* Workers are named by their workerId, which is unique per live process.  *)
(*                                                                         *)
(* Definitions that stand right before another and are used nowhere are    *)
(* the faulty variants the properties are tried against.                   *)
(***************************************************************************)
EXTENDS Integers

CONSTANTS
    Workers,
    Events,
    Handled,      \* events whose type has a registered handler
    NoWorker,     \* lockedBy = null
    NoEvent,      \* a worker between events
    Lease,        \* leaseMs
    MaxAttempts,  \* maxAttempts
    BaseRetry,    \* baseRetryMs
    MaxLag,       \* most ticks from `now` in claimNext to its commit
    MaxSlips      \* bound on crashes, failed statements and overrun leases

ASSUME NoWorkerAssumption == NoWorker \notin Workers
ASSUME NoEventAssumption == NoEvent \notin Events
ASSUME HandledAssumption == Handled \subseteq Events
ASSUME LeaseAssumption == Lease \in Nat \ {0}
ASSUME MaxAttemptsAssumption == MaxAttempts \in Nat \ {0}
ASSUME BaseRetryAssumption == BaseRetry \in Nat \ {0}
ASSUME MaxLagAssumption == MaxLag \in 0 .. Lease
ASSUME MaxSlipsAssumption == MaxSlips \in Nat

VARIABLES
    event,      \* event[e]: the outbox row of e
    worker,     \* worker[w]: where the loop of w is and the claim it holds
    delivered,  \* events whose handler completed at least once (history)
    overran,    \* events whose live claim outlasted a lease (history)
    slips       \* crashes, failed statements and overrun leases so far

vars == <<event, worker, delivered, overran, slips>>

-----------------------------------------------------------------------------
OutboxStatus == {"NONE", "PENDING", "PROCESSING", "SUCCEEDED", "FAILED"}
Row == [status: OutboxStatus, attempts: Nat, due: Int, held: Nat,
        lockedBy: Workers \cup {NoWorker}]

\* At "claiming" the transaction of claimNext is open: event is its candidate,
\* lag the age of its `now`, and released the rows it has released and locked.
Points == {"polling", "claiming", "handling", "succeeding", "retrying", "failing",
           "sleeping", "down"}
Loop == [at: Points, event: Events \cup {NoEvent}, attempts: Nat,
         lag: 0 .. MaxLag, released: SUBSET Events]
Poll == [at |-> "polling", event |-> NoEvent, attempts |-> 0, lag |-> 0, released |-> {}]
Sleep == [Poll EXCEPT !.at = "sleeping"]
Down == [Poll EXCEPT !.at = "down"]

TypeOK ==
    /\ event \in [Events -> Row]
    /\ worker \in [Workers -> Loop]
    /\ delivered \subseteq Events
    /\ overran \subseteq Events
    /\ slips \in 0 .. MaxSlips
    /\ \A e \in Events : event[e].status = "PROCESSING" <=> event[e].lockedBy # NoWorker

Init ==
    /\ event = [e \in Events |-> [status |-> "NONE", attempts |-> 0, due |-> 0,
                                  held |-> 0, lockedBy |-> NoWorker]]
    /\ worker = [w \in Workers |-> Poll]
    /\ delivered = {}
    /\ overran = {}
    /\ slips = 0

-----------------------------------------------------------------------------
\* The row is inserted with the receipt, in the receipt's transaction.
Enqueue(e) ==
    /\ event[e].status = "NONE"
    /\ event' = [event EXCEPT ![e].status = "PENDING"]
    /\ UNCHANGED <<worker, delivered, overran, slips>>

-----------------------------------------------------------------------------
(* claimNext: one transaction, in READ COMMITTED, whose `now` was captured   *)
(* before it opened.  Until it commits others see the rows as they were, and *)
(* wait to update the ones it has released.                                  *)

UnlockedKeepingOwner(r) == [r EXCEPT !.held = 0]
Unlocked(r) == [r EXCEPT !.lockedBy = NoWorker, !.held = 0]

StaleNever(r, lag) == FALSE
Stale(r, lag) == r.status = "PROCESSING" /\ r.held - lag > Lease

\* The rows after those in S, whose leases ran out, were released.
Released(S) ==
    [e \in Events |-> IF e \in S THEN [Unlocked(event[e]) EXCEPT !.status = "PENDING"]
                      ELSE event[e]]

\* The release of another open transaction holds the lock of the row.
Locked(e) == \E w \in Workers : e \in worker[w].released

\* The available row with the oldest availableAt; rows available for longer
\* than MaxLag ticks are not told apart.
Candidates(rows, lag) ==
    LET ready == {e \in Events : rows[e].status = "PENDING" /\ rows[e].due <= -lag}
    IN  {e \in ready : \A f \in ready : rows[e].due <= rows[f].due}

\* The release of what ran out, and the read of the candidate: no other
\* transaction can touch the released rows in between.  With no candidate
\* the transaction commits and the loop sleeps.
Find(w) ==
    /\ worker[w].at = "polling"
    /\ \E lag \in 0 .. MaxLag :
          LET expired == {e \in Events : Stale(event[e], lag)}
              found == Candidates(Released(expired), lag)
          IN  /\ \A e \in expired : ~Locked(e)
              /\ \/ /\ \E e \in found :
                          worker' = [worker EXCEPT ![w] =
                              [Poll EXCEPT !.at = "claiming", !.event = e,
                                           !.lag = lag, !.released = expired]]
                    /\ UNCHANGED event
                 \/ /\ found = {}
                    /\ event' = Released(expired)
                    /\ worker' = [worker EXCEPT ![w] = Sleep]
    /\ UNCHANGED <<delivered, overran, slips>>

ClaimedKeepingAttempts(r, w, lag) ==
    [r EXCEPT !.status = "PROCESSING", !.lockedBy = w, !.held = lag]
Claimed(r, w, lag) ==
    [r EXCEPT !.status = "PROCESSING", !.attempts = @ + 1, !.lockedBy = w, !.held = lag]

\* The condition of the claim: UPDATE ... WHERE id AND PENDING.
AvailableToAny(r) == TRUE
Available(r) == r.status = "PENDING"

\* The conditional update, and the commit.  A candidate that was claimed in
\* the meantime is left alone and the loop sleeps; one that was claimed and
\* put back for a later retry is claimed now, whatever its availableAt.
Take(w) ==
    /\ worker[w].at = "claiming"
    /\ LET e == worker[w].event
           rows == Released(worker[w].released)
           claimed == Claimed(rows[e], w, worker[w].lag)
       IN  \/ /\ Available(rows[e])
              /\ event' = [rows EXCEPT ![e] = claimed]
              /\ worker' = [worker EXCEPT ![w] =
                    [Poll EXCEPT !.at = "handling", !.event = e, !.attempts = claimed.attempts]]
           \/ /\ ~Available(rows[e])
              /\ event' = rows
              /\ worker' = [worker EXCEPT ![w] = Sleep]
    /\ UNCHANGED <<delivered, overran, slips>>

-----------------------------------------------------------------------------
(* dispatchNext with a claimed event *)

Busy(w) == worker[w].at \in {"handling", "succeeding", "retrying", "failing"}

GivesUpLate(attempts) == attempts > MaxAttempts
GivesUp(attempts) == attempts >= MaxAttempts

\* The handler resolves or throws; with no handler the event is failed.
Handle(w) ==
    /\ worker[w].at = "handling"
    /\ LET e == worker[w].event IN
       \/ /\ e \in Handled
          /\ delivered' = delivered \cup {e}
          /\ worker' = [worker EXCEPT ![w].at = "succeeding"]
       \/ /\ e \in Handled
          /\ worker' = [worker EXCEPT ![w].at =
                IF GivesUp(worker[w].attempts) THEN "failing" ELSE "retrying"]
          /\ UNCHANGED delivered
       \/ /\ e \notin Handled
          /\ worker' = [worker EXCEPT ![w].at = "failing"]
          /\ UNCHANGED delivered
    /\ UNCHANGED <<event, overran, slips>>

\* The condition of every mark: UPDATE ... WHERE id AND PROCESSING AND lockedBy.
HoldsAny(w) == event[worker[w].event].status = "PROCESSING"
HoldsEver(w) == event[worker[w].event].status # "NONE"
Holds(w) ==
    /\ event[worker[w].event].status = "PROCESSING"
    /\ event[worker[w].event].lockedBy = w

\* A conditional mark that rewrites the row when the lease is still held; it
\* waits for a transaction that has released the row to end.
Mark(w, status, due) ==
    LET e == worker[w].event IN
    /\ ~Locked(e)
    /\ IF Holds(w)
       THEN event' = [event EXCEPT ![e] = [Unlocked(@) EXCEPT !.status = status, !.due = due]]
       ELSE UNCHANGED event

\* A lost lease makes dispatchNext throw, and the loop sleeps; after a
\* recorded success it polls again at once.
MarkSucceeded(w) ==
    /\ worker[w].at = "succeeding"
    /\ Mark(w, "SUCCEEDED", event[worker[w].event].due)
    /\ worker' = [worker EXCEPT ![w] = IF Holds(w) THEN Poll ELSE Sleep]
    /\ UNCHANGED <<delivered, overran, slips>>

Backoff(attempts) == BaseRetry * 2 ^ (IF attempts > 0 THEN attempts - 1 ELSE 0)

\* A retry is reported as PENDING and a lost lease throws: the loop sleeps.
MarkRetry(w) ==
    /\ worker[w].at = "retrying"
    /\ Mark(w, "PENDING", Backoff(worker[w].attempts))
    /\ worker' = [worker EXCEPT ![w] = Sleep]
    /\ UNCHANGED <<delivered, overran, slips>>

\* The result of markFailed is not looked at: dispatchNext returns FAILED and
\* the loop polls again at once, whether or not the lease was still held.
MarkFailed(w) ==
    /\ worker[w].at = "failing"
    /\ Mark(w, "FAILED", event[worker[w].event].due)
    /\ worker' = [worker EXCEPT ![w] = Poll]
    /\ UNCHANGED <<delivered, overran, slips>>

Wake(w) ==
    /\ worker[w].at = "sleeping"
    /\ worker' = [worker EXCEPT ![w] = Poll]
    /\ UNCHANGED <<event, delivered, overran, slips>>

-----------------------------------------------------------------------------
\* The process dies or is shut down in the middle of anything, or a statement
\* fails and start's catch makes the loop sleep; what an open claim has
\* released is rolled back.
Crash(w) ==
    /\ worker[w].at # "down"
    /\ slips < MaxSlips
    /\ slips' = slips + 1
    /\ \E s \in {Down, Sleep} : worker' = [worker EXCEPT ![w] = s]
    /\ UNCHANGED <<event, delivered, overran>>

Restart(w) ==
    /\ worker[w].at = "down"
    /\ worker' = [worker EXCEPT ![w] = Poll]
    /\ UNCHANGED <<event, delivered, overran, slips>>

\* Who runs e under the claim its row names.
Holder(w, e) == Busy(w) /\ worker[w].event = e /\ event[e].lockedBy = w

\* Events whose live holder outlives the lease in this tick.
Overrunning ==
    {e \in Events : /\ event[e].status = "PROCESSING"
                    /\ event[e].held = Lease
                    /\ \E w \in Workers : Holder(w, e)}

Later(r) ==
    [r EXCEPT !.due = IF r.due > -MaxLag THEN @ - 1 ELSE @,
              !.held = IF r.status = "PROCESSING" /\ r.held <= Lease + MaxLag
                       THEN @ + 1 ELSE @]

\* A claim commits within MaxLag ticks of its `now` (Prisma's transaction
\* timeouts), and a run outlives its lease at most MaxSlips times in all.
Tick ==
    /\ \A w \in Workers : worker[w].at = "claiming" => worker[w].lag < MaxLag
    /\ IF Overrunning = {} THEN UNCHANGED slips
       ELSE slips < MaxSlips /\ slips' = slips + 1
    /\ overran' = overran \cup Overrunning
    /\ event' = [e \in Events |-> Later(event[e])]
    /\ worker' = [w \in Workers |-> IF worker[w].at = "claiming"
                                     THEN [worker[w] EXCEPT !.lag = @ + 1]
                                     ELSE worker[w]]
    /\ UNCHANGED delivered

Work(w) ==
    \/ Find(w) \/ Take(w) \/ Handle(w) \/ Wake(w) \/ Restart(w)
    \/ MarkSucceeded(w) \/ MarkRetry(w) \/ MarkFailed(w)

Next ==
    \/ Tick
    \/ \E e \in Events : Enqueue(e)
    \/ \E w \in Workers : Work(w) \/ Crash(w)

Spec == Init /\ [][Next]_vars

-----------------------------------------------------------------------------
(* Fairness: the loop of a live process goes on polling (setTimeout fires   *)
(* and statements return), a dead process is restarted by its supervisor,   *)
(* and time passes.                                                         *)
FairSpec == Spec /\ WF_vars(Tick) /\ \A w \in Workers : WF_vars(Work(w))

-----------------------------------------------------------------------------
(* Properties *)

\* A claim ends in two ways: its own worker marks the event, or the lease has
\* run out and the event is released.  A worker whose lease was lost, and whose
\* event was claimed again, leaves the row alone, although marks compare only
\* the worker's name and not the attempt, and no claim with an old clock
\* reading takes an event away before its time.
ClaimsEnd ==
    \A e \in Events :
        /\ event[e].status = "PROCESSING"
        /\ event'[e].status # "PROCESSING" \/ event'[e].attempts # event[e].attempts
        => \/ event[e].held > Lease /\ event'[e].status \in {"PENDING", "PROCESSING"}
           \/ \E w \in Workers : /\ Holder(w, e)
                                 /\ worker[w].attempts = event[e].attempts
                                 /\ ~Busy(w)'

ClaimEndsByHolderOrLease == [][ClaimsEnd]_vars

\* Two workers run the same event only after a run of that very event outlived
\* its lease: no crash, restart, rollback or race of two claims leads to it.
OverlapNeedsOverrun ==
    \A v, w \in Workers : Busy(v) /\ Busy(w) /\ worker[v].event = worker[w].event /\ v # w
                          => worker[v].event \in overran

\* Two workers that run the same event hold different attempts of it, and a
\* worker never holds an attempt the row has not counted.
AttemptsTellClaimsApart ==
    \A v, w \in Workers : Busy(v) =>
        /\ worker[v].attempts <= event[worker[v].event].attempts
        /\ v # w /\ Busy(w) /\ worker[v].event = worker[w].event
              => worker[v].attempts # worker[w].attempts

\* Nothing in claimNext looks at the attempt limit, so a crash or an overrun
\* lease can take an event past it, but each by one attempt at most.
AttemptsPastLimitNeedSlips ==
    \A e \in Events : event[e].attempts <= MaxAttempts + slips

Fate(status) ==
    CASE status = "NONE" -> "absent"
      [] status \in {"PENDING", "PROCESSING"} -> "queued"
      [] status = "SUCCEEDED" -> "acknowledged"
      [] status = "FAILED" -> "given up"

\* The dispatcher implements at-least-once delivery: no acknowledgement before
\* a handler run completed, no way out of SUCCEEDED or FAILED.
Promise == INSTANCE OutboxDelivery WITH
    fate <- [e \in Events |-> Fate(event[e].status)]

ImplementsDelivery == Promise!Delivery

\* Every queued event is acknowledged or given up in the end, through crashes,
\* restarts, overrun leases and failing handlers.
EveryEventSettles ==
    \A e \in Events :
        event[e].status = "PENDING" ~> event[e].status \in {"SUCCEEDED", "FAILED"}

\* outbox.spec.ts: "marks the event permanently failed at the attempt limit":
\* when dispatchNext reports FAILED (the loop polls on), the row is FAILED.
ReportedFailureIsRecorded ==
    [][\A w \in Workers :
          worker[w].at = "failing" /\ worker'[w].at = "polling"
          => event'[worker[w].event].status = "FAILED"]_vars
=============================================================================
