---------------------------- MODULE OutboxProofs ----------------------------
(***************************************************************************)
(* Proofs about the outbox, for any number of workers and events, any      *)
(* lease, attempt limit and number of slips: the invariants of module      *)
(* Outbox, how claims end, and that the dispatcher implements              *)
(* OutboxDelivery.                                                         *)
(***************************************************************************)
EXTENDS Outbox, TLAPS

-----------------------------------------------------------------------------
(* The inductive invariant. *)

\* A row that was never queued counts no attempt.
Unqueued == \A e \in Events : event[e].status = "NONE" => event[e].attempts = 0

\* What the place a worker is at says of its event.
LoopSound ==
    \A w \in Workers :
        /\ worker[w].at = "claiming" \/ Busy(w) =>
              worker[w].event \in Events /\ event[worker[w].event].status # "NONE"
        /\ Busy(w) => worker[w].attempts <= event[worker[w].event].attempts
        /\ worker[w].at = "succeeding" => worker[w].event \in delivered
        /\ worker[w].at = "retrying" => worker[w].attempts < MaxAttempts

\* What an open claim has released stays as it found it, and is its alone: it
\* commits against rows whose lease is still over.
LocksHeld ==
    \A w \in Workers : \A e \in worker[w].released :
        /\ worker[w].at = "claiming"
        /\ event[e].status = "PROCESSING" /\ event[e].held > Lease
        /\ \A v \in Workers : v # w => e \notin worker[v].released

\* Workers that run the same event hold different attempts of it.
Apart ==
    \A v, w \in Workers :
        Busy(v) /\ Busy(w) /\ v # w /\ worker[v].event = worker[w].event
            => worker[v].attempts # worker[w].attempts

\* Who is named by the row of the event it runs, runs the latest attempt.
HolderCurrent ==
    \A w \in Workers, e \in Events : Holder(w, e) => worker[w].attempts = event[e].attempts

\* The claim of e is in time: its worker is alive and within the lease.
InTime(e) == event[e].held <= Lease /\ \E w \in Workers : Holder(w, e)

\* A worker holds the row of the event it runs as long as that was not overrun.
NothingLost ==
    \A w \in Workers : Busy(w) /\ worker[w].event \notin overran =>
        /\ event[worker[w].event].lockedBy = w
        /\ event[worker[w].event].held <= Lease

\* What is left of the attempts: a claim that uses up the last is in time, so
\* that another slip is needed before the event is available again.
Budget ==
    \A e \in Events :
        /\ event[e].attempts <= MaxAttempts + slips
        /\ event[e].status = "PENDING" => event[e].attempts < MaxAttempts + slips
        /\ event[e].status = "PROCESSING" /\ event[e].attempts = MaxAttempts + slips
               => InTime(e)

Inv ==
    /\ TypeOK
    /\ Unqueued
    /\ LoopSound
    /\ LocksHeld
    /\ Apart
    /\ HolderCurrent
    /\ NothingLost
    /\ Budget

LEMMA InitInv == Init => Inv
  BY NoWorkerAssumption, NoEventAssumption, MaxAttemptsAssumption, MaxSlipsAssumption,
     MaxLagAssumption, LeaseAssumption
     DEF Init, Inv, TypeOK, Row, OutboxStatus, Loop, Points, Poll, Unqueued, LoopSound,
         LocksHeld, Apart, HolderCurrent, NothingLost, Budget, Busy, InTime, Holder

-----------------------------------------------------------------------------
(* The types, unfolded once for the steps below. *)

LEMMA Types ==
    ASSUME Inv
    PROVE  /\ event \in [Events -> Row] /\ worker \in [Workers -> Loop]
           /\ slips \in Nat /\ MaxSlips \in Nat /\ MaxAttempts \in Nat /\ MaxAttempts > 0
           /\ Lease \in Nat /\ MaxLag \in Nat /\ MaxLag <= Lease
           /\ \A e \in Events : event[e].attempts \in Nat /\ event[e].held \in Nat
           /\ \A w \in Workers : /\ worker[w].attempts \in Nat
                                 /\ worker[w].lag \in 0 .. MaxLag
                                 /\ worker[w].released \subseteq Events
           /\ \A w \in Workers : Busy(w) => worker[w].event \in Events
           /\ \A e \in Events : event[e].status = "PROCESSING" <=> event[e].lockedBy # NoWorker
  BY MaxSlipsAssumption, MaxAttemptsAssumption, LeaseAssumption, MaxLagAssumption
     DEF Inv, TypeOK, LoopSound, Row, Loop

\* A worker between events.
LEMMA Rests ==
    ASSUME NEW s \in {Poll, Sleep, Down}
    PROVE  /\ s \in Loop /\ s.at \in {"polling", "sleeping", "down"}
           /\ s.released = {} /\ s.attempts = 0 /\ s.lag = 0
  BY MaxLagAssumption, LeaseAssumption DEF Loop, Points, Sleep, Down, Poll

-----------------------------------------------------------------------------
(* Claiming. *)

\* Releasing rows whose lease ran out makes them available and leaves the
\* others alone.
LEMMA ReleasedRows ==
    ASSUME Inv, NEW S \in SUBSET Events,
           \A e \in S : event[e].status = "PROCESSING" /\ event[e].held > Lease
    PROVE  /\ Released(S) \in [Events -> Row]
           /\ \A e \in Events :
                 /\ Released(S)[e].attempts = event[e].attempts
                 /\ e \notin S => Released(S)[e] = event[e]
                 /\ e \in S => /\ Released(S)[e].status = "PENDING"
                               /\ Released(S)[e].lockedBy = NoWorker
                 /\ Released(S)[e].status = "PROCESSING"
                       <=> Released(S)[e].lockedBy # NoWorker
<1>1. \A e \in Events : event[e] \in Row
  BY Types
<1>2. \A r \in Row : LET u == [Unlocked(r) EXCEPT !.status = "PENDING"]
                     IN  /\ u \in Row /\ u.attempts = r.attempts
                         /\ u.status = "PENDING" /\ u.lockedBy = NoWorker
  BY DEF Unlocked, Row, OutboxStatus
<1>3. ASSUME NEW e \in Events
      PROVE  /\ Released(S)[e] \in Row
             /\ Released(S)[e].attempts = event[e].attempts
             /\ e \notin S => Released(S)[e] = event[e]
             /\ e \in S => /\ Released(S)[e].status = "PENDING"
                           /\ Released(S)[e].lockedBy = NoWorker
  BY <1>1, <1>2 DEF Released
<1>4. \A e \in Events : Released(S)[e].status = "PROCESSING"
                            <=> Released(S)[e].lockedBy # NoWorker
  BY <1>3, Types
<1> QED
  BY <1>3, <1>4 DEF Released

\* The rows a claim releases can be those of an open transaction or those it
\* finds when it commits at once.
LEMMA ReleaseInv ==
    ASSUME Inv, NEW w \in Workers, ~Busy(w), NEW S \in SUBSET Events,
           \A e \in S : event[e].status = "PROCESSING" /\ event[e].held > Lease,
           \A v \in Workers : v # w => worker[v].released \cap S = {},
           event' = Released(S),
           worker' = [worker EXCEPT ![w] = Sleep],
           UNCHANGED <<delivered, overran, slips>>
    PROVE  Inv'
<1>1. event \in [Events -> Row] /\ worker \in [Workers -> Loop]
  BY Types
<1>2. /\ event' \in [Events -> Row]
      /\ \A e \in Events :
            /\ event'[e].attempts = event[e].attempts
            /\ e \notin S => event'[e] = event[e]
            /\ e \in S => event'[e].status = "PENDING" /\ event'[e].lockedBy = NoWorker
            /\ event'[e].status = "PROCESSING" <=> event'[e].lockedBy # NoWorker
  BY ReleasedRows
<1>3. /\ worker' \in [Workers -> Loop]
      /\ worker'[w].at = "sleeping" /\ worker'[w].released = {} /\ ~Busy(w)'
      /\ \A v \in Workers : v # w => worker'[v] = worker[v] /\ (Busy(v)' <=> Busy(v))
  <2>1. Sleep \in Loop /\ Sleep.at = "sleeping" /\ Sleep.released = {}
    BY Rests DEF Sleep, Poll
  <2> QED
    BY <2>1, <1>1 DEF Busy
<1>4. TypeOK' /\ Unqueued'
  BY <1>2, <1>3 DEF Inv, TypeOK, Unqueued
<1>5. LoopSound'
  <2> SUFFICES ASSUME NEW v \in Workers, worker'[v].at = "claiming" \/ Busy(v)'
               PROVE  /\ worker'[v].event \in Events /\ event'[worker'[v].event].status # "NONE"
                      /\ Busy(v)' => worker'[v].attempts <= event'[worker'[v].event].attempts
                      /\ worker'[v].at = "succeeding" => worker'[v].event \in delivered
                      /\ worker'[v].at = "retrying" => worker'[v].attempts < MaxAttempts
    BY DEF LoopSound, Busy
  <2>1. v # w /\ worker'[v] = worker[v] /\ (Busy(v)' <=> Busy(v))
    BY <1>3
  <2>2. worker[v].event \in Events /\ event[worker[v].event].status # "NONE"
    BY <2>1 DEF Inv, LoopSound
  <2>3. event'[worker[v].event].status # "NONE"
    BY <2>2, <1>2
  <2> QED
    BY <2>1, <2>2, <2>3, <1>2 DEF Inv, LoopSound
<1>6. LocksHeld'
  <2> SUFFICES ASSUME NEW v \in Workers, NEW e \in worker'[v].released
               PROVE  /\ worker'[v].at = "claiming"
                      /\ event'[e].status = "PROCESSING" /\ event'[e].held > Lease
                      /\ \A u \in Workers : u # v => e \notin worker'[u].released
    BY DEF LocksHeld
  <2>1. v # w /\ worker'[v] = worker[v] /\ e \in Events /\ e \notin S
    BY <1>3, Types
  <2> QED
    BY <2>1, <1>2, <1>3 DEF Inv, LocksHeld
<1>7. Apart'
  BY <1>3 DEF Inv, Apart
<1>8. \A v \in Workers, e \in Events : Holder(v, e)' <=> Holder(v, e) /\ e \notin S
  BY <1>2, <1>3, NoWorkerAssumption DEF Holder
<1>9. HolderCurrent'
  BY <1>2, <1>3, <1>8 DEF Inv, HolderCurrent, Holder
<1>10. NothingLost'
  <2> SUFFICES ASSUME NEW v \in Workers, Busy(v)', worker'[v].event \notin overran
               PROVE  /\ event'[worker'[v].event].lockedBy = v
                      /\ event'[worker'[v].event].held <= Lease
    BY DEF NothingLost
  <2>1. v # w /\ Busy(v) /\ worker'[v] = worker[v] /\ worker[v].event \in Events
    BY <1>3, Types
  <2>2. event[worker[v].event].lockedBy = v /\ event[worker[v].event].held <= Lease
    BY <2>1 DEF Inv, NothingLost
  <2>3. worker[v].event \notin S
    BY <2>1, <2>2, Types
  <2> QED
    BY <2>1, <2>2, <2>3, <1>2
<1>11. Budget'
  <2> SUFFICES ASSUME NEW e \in Events
               PROVE  /\ event'[e].attempts <= MaxAttempts + slips
                      /\ event'[e].status = "PENDING" => event'[e].attempts < MaxAttempts + slips
                      /\ event'[e].status = "PROCESSING"
                         /\ event'[e].attempts = MaxAttempts + slips => InTime(e)'
    BY DEF Budget
  <2>1. CASE e \notin S
    <3>1. InTime(e) => InTime(e)'
      BY <2>1, <1>2, <1>8 DEF InTime
    <3> QED
      BY <2>1, <3>1, <1>2 DEF Inv, Budget
  <2>2. CASE e \in S
    <3>1. ~InTime(e)
      BY <2>2, Types DEF InTime
    <3>2. event[e].attempts < MaxAttempts + slips
      BY <2>2, <3>1, Types DEF Inv, Budget
    <3> QED
      BY <2>2, <3>2, <1>2, Types
  <2> QED
    BY <2>1, <2>2
<1> QED
  BY <1>4, <1>5, <1>6, <1>7, <1>9, <1>10, <1>11 DEF Inv

LEMMA ClaimedRow ==
    ASSUME NEW r \in Row, NEW w \in Workers, NEW lag \in Nat
    PROVE  /\ Claimed(r, w, lag) \in Row
           /\ Claimed(r, w, lag).status = "PROCESSING"
           /\ Claimed(r, w, lag).attempts = r.attempts + 1
           /\ Claimed(r, w, lag).lockedBy = w
           /\ Claimed(r, w, lag).held = lag
<1> DEFINE n == r.attempts + 1
<1>1. n \in Nat
  BY DEF Row
<1>2. Claimed(r, w, lag) = [r EXCEPT !.status = "PROCESSING", !.attempts = n,
                                     !.lockedBy = w, !.held = lag]
  BY DEF Claimed
<1> HIDE DEF n
<1>3. /\ Claimed(r, w, lag).status = "PROCESSING" /\ Claimed(r, w, lag).attempts = n
      /\ Claimed(r, w, lag).lockedBy = w /\ Claimed(r, w, lag).held = lag
  BY <1>1, <1>2 DEF Row
<1>4. Claimed(r, w, lag) \in Row
  BY <1>1, <1>2 DEF Row, OutboxStatus
<1> QED
  BY <1>3, <1>4 DEF n

\* The rows a claim finds to release, and what it leaves of them.
LEMMA ExpiredRows ==
    ASSUME Inv, NEW lag \in 0 .. MaxLag
    PROVE  \A e \in {f \in Events : Stale(event[f], lag)} :
              event[e].status = "PROCESSING" /\ event[e].held > Lease
  BY Types DEF Stale

\* A transaction opens: nothing it does is seen before it commits.
LEMMA OpenInv ==
    ASSUME Inv, NEW w \in Workers, ~Busy(w), NEW lag \in 0 .. MaxLag, NEW e \in Events,
           NEW S \in SUBSET Events,
           \A f \in S : event[f].status = "PROCESSING" /\ event[f].held > Lease /\ ~Locked(f),
           event[e].status # "NONE",
           worker' = [worker EXCEPT ![w] = [Poll EXCEPT !.at = "claiming", !.event = e,
                                                        !.lag = lag, !.released = S]],
           UNCHANGED <<event, delivered, overran, slips>>
    PROVE  Inv'
<1>1. event \in [Events -> Row] /\ worker \in [Workers -> Loop]
  BY Types
<1>2. /\ worker' \in [Workers -> Loop]
      /\ worker'[w].at = "claiming" /\ worker'[w].event = e /\ worker'[w].released = S
      /\ ~Busy(w)'
      /\ \A v \in Workers : v # w => worker'[v] = worker[v] /\ (Busy(v)' <=> Busy(v))
  <2> DEFINE open == [Poll EXCEPT !.at = "claiming", !.event = e, !.lag = lag, !.released = S]
  <2>1. open \in Loop /\ open.at = "claiming" /\ open.event = e /\ open.released = S
    BY DEF Poll, Loop, Points
  <2> HIDE DEF open
  <2>2. worker' = [worker EXCEPT ![w] = open]
    BY DEF open
  <2> QED
    BY <2>1, <2>2, <1>1 DEF Busy
<1>3. TypeOK' /\ Unqueued'
  BY <1>2 DEF Inv, TypeOK, Unqueued
<1>4. LoopSound'
  BY <1>2 DEF Inv, LoopSound, Busy
<1>5. LocksHeld'
  <2>1. \A f \in S : \A v \in Workers : v # w => f \notin worker'[v].released
    BY <1>2 DEF Locked
  <2> QED
    BY <2>1, <1>2 DEF Inv, LocksHeld
<1>6. Apart'
  BY <1>2 DEF Inv, Apart
<1>7. \A v \in Workers, f \in Events : Holder(v, f)' <=> Holder(v, f)
  BY <1>2 DEF Holder
<1>8. HolderCurrent' /\ NothingLost'
  BY <1>2, <1>7 DEF Inv, HolderCurrent, NothingLost, Holder
<1>9. Budget'
  BY <1>7 DEF Inv, Budget, InTime
<1> QED
  BY <1>3, <1>4, <1>5, <1>6, <1>8, <1>9 DEF Inv

\* The claim commits: e is now run by w, and the other released rows are
\* available.
LEMMA TakenInv ==
    ASSUME Inv, NEW w \in Workers, ~Busy(w), NEW e \in Events, NEW S \in SUBSET Events,
           \A f \in S : event[f].status = "PROCESSING" /\ event[f].held > Lease,
           \A v \in Workers : v # w => worker[v].released \cap S = {},
           e \in S \/ event[e].status = "PENDING",
           event' \in [Events -> Row],
           event'[e].status = "PROCESSING", event'[e].lockedBy = w, event'[e].held <= Lease,
           event'[e].attempts = event[e].attempts + 1,
           \A f \in Events : f # e =>
               /\ f \notin S => event'[f] = event[f]
               /\ f \in S => /\ event'[f].status = "PENDING" /\ event'[f].lockedBy = NoWorker
                             /\ event'[f].attempts = event[f].attempts,
           worker' \in [Workers -> Loop],
           worker'[w].at = "handling", worker'[w].event = e, worker'[w].released = {},
           worker'[w].attempts = event[e].attempts + 1,
           \A v \in Workers : v # w => worker'[v] = worker[v],
           UNCHANGED <<delivered, overran, slips>>
    PROVE  Inv'
<1>1. Busy(w)' /\ \A v \in Workers : v # w => (Busy(v)' <=> Busy(v))
  BY DEF Busy
<1>2. event[e].status # "NONE"
  OBVIOUS
<1>3. TypeOK' /\ Unqueued'
  <2>1. \A f \in Events : event'[f].status = "PROCESSING" <=> event'[f].lockedBy # NoWorker
    BY Types, NoWorkerAssumption
  <2>2. Unqueued'
    BY DEF Inv, Unqueued
  <2> QED
    BY <2>1, <2>2 DEF Inv, TypeOK
\* The new attempt is past every other.
<1>4. \A v \in Workers : Busy(v) /\ worker[v].event = e
                            => worker[v].attempts < event[e].attempts + 1
  BY <1>2, Types DEF Inv, LoopSound
<1>5. LoopSound'
  <2> SUFFICES ASSUME NEW v \in Workers
               PROVE  /\ worker'[v].at = "claiming" \/ Busy(v)' =>
                            /\ worker'[v].event \in Events
                            /\ event'[worker'[v].event].status # "NONE"
                      /\ Busy(v)' => worker'[v].attempts <= event'[worker'[v].event].attempts
                      /\ worker'[v].at = "succeeding" => worker'[v].event \in delivered
                      /\ worker'[v].at = "retrying" => worker'[v].attempts < MaxAttempts
    BY DEF LoopSound
  <2>1. CASE v = w
    BY <2>1, <1>2, <1>1, Types
  <2>2. CASE v # w
    <3>1. worker[v].at = "claiming" \/ Busy(v) =>
              worker[v].event \in Events /\ event[worker[v].event].status # "NONE"
      BY DEF Inv, LoopSound
    <3>2. worker[v].event \in Events /\ event[worker[v].event].status # "NONE"
              => event'[worker[v].event].status # "NONE"
      OBVIOUS
    <3>3. Busy(v) => worker[v].attempts <= event'[worker[v].event].attempts
      BY <1>4, Types DEF Inv, LoopSound
    <3>4. worker'[v] = worker[v] /\ (Busy(v)' <=> Busy(v))
      BY <2>2, <1>1
    <3> QED
      BY <3>1, <3>2, <3>3, <3>4 DEF Inv, LoopSound
  <2> QED
    BY <2>1, <2>2
<1>6. LocksHeld'
  <2> SUFFICES ASSUME NEW v \in Workers, NEW f \in worker'[v].released
               PROVE  /\ worker'[v].at = "claiming"
                      /\ event'[f].status = "PROCESSING" /\ event'[f].held > Lease
                      /\ \A u \in Workers : u # v => f \notin worker'[u].released
    BY DEF LocksHeld
  <2>1. v # w /\ worker'[v] = worker[v] /\ f \in Events /\ f \notin S
    BY <1>1, Types
  <2>2. event[f].status = "PROCESSING" /\ event[f].held > Lease
    BY <2>1 DEF Inv, LocksHeld
  <2>3. event'[f] = event[f]
    BY <2>1, <2>2
  <2> QED
    BY <2>1, <2>2, <2>3, <1>1 DEF Inv, LocksHeld
<1>7. Apart'
  <2> SUFFICES ASSUME NEW u \in Workers, NEW v \in Workers, Busy(u)', Busy(v)', u # v,
                      worker'[u].event = worker'[v].event
               PROVE  worker'[u].attempts # worker'[v].attempts
    BY DEF Apart
  <2>1. CASE u = w
    BY <2>1, <1>2, <1>1, <1>4, Types
  <2>2. CASE v = w
    BY <2>2, <1>2, <1>1, <1>4, Types
  <2>3. CASE u # w /\ v # w
    BY <2>3, <1>1 DEF Inv, Apart
  <2> QED
    BY <2>1, <2>2, <2>3
<1>8. \A v \in Workers, f \in Events :
          Holder(v, f)' <=> (v = w /\ f = e) \/ (v # w /\ f # e /\ f \notin S /\ Holder(v, f))
  <2> SUFFICES ASSUME NEW v \in Workers, NEW f \in Events
               PROVE  Holder(v, f)' <=> \/ v = w /\ f = e
                                        \/ v # w /\ f # e /\ f \notin S /\ Holder(v, f)
    OBVIOUS
  <2>1. CASE v = w
    BY <2>1, <1>1 DEF Holder
  <2>2. CASE v # w /\ f = e
    BY <2>2 DEF Holder
  <2>3. CASE v # w /\ f # e
    BY <2>3, <1>1, NoWorkerAssumption DEF Holder
  <2> QED
    BY <2>1, <2>2, <2>3
<1>9. HolderCurrent'
  <2> SUFFICES ASSUME NEW v \in Workers, NEW f \in Events, Holder(v, f)'
               PROVE  worker'[v].attempts = event'[f].attempts
    BY DEF HolderCurrent
  <2>1. CASE v = w /\ f = e
    BY <2>1, <1>1
  <2>2. CASE v # w /\ f # e /\ f \notin S /\ Holder(v, f)
    BY <2>2, <1>1 DEF Inv, HolderCurrent
  <2> QED
    BY <2>1, <2>2, <1>8
<1>10. NothingLost'
  <2> SUFFICES ASSUME NEW v \in Workers, Busy(v)', worker'[v].event \notin overran
               PROVE  /\ event'[worker'[v].event].lockedBy = v
                      /\ event'[worker'[v].event].held <= Lease
    BY DEF NothingLost
  <2>1. CASE v = w
    BY <2>1, <1>1
  <2>2. CASE v # w
    <3>1. /\ worker'[v] = worker[v] /\ worker[v].event \in Events
          /\ event[worker[v].event].lockedBy = v /\ event[worker[v].event].held <= Lease
      BY <2>2, <1>1, Types DEF Inv, NothingLost
    <3>2. event[worker[v].event].status = "PROCESSING"
      BY <3>1, NoWorkerAssumption, Types
    <3>3. worker[v].event \notin S
      BY <3>1, Types
    <3>4. worker[v].event # e
      BY <3>2, <3>3
    <3> QED
      BY <3>1, <3>3, <3>4
  <2> QED
    BY <2>1, <2>2
<1>11. Budget'
  <2> SUFFICES ASSUME NEW f \in Events
               PROVE  /\ event'[f].attempts <= MaxAttempts + slips
                      /\ event'[f].status = "PENDING" => event'[f].attempts < MaxAttempts + slips
                      /\ event'[f].status = "PROCESSING"
                         /\ event'[f].attempts = MaxAttempts + slips => InTime(f)'
    BY DEF Budget
  <2>1. f \in S => event[f].attempts < MaxAttempts + slips
    <3>1. /\ event[f].attempts \in Nat /\ slips \in Nat /\ MaxAttempts \in Nat
          /\ event[f].held \in Nat /\ Lease \in Nat
      BY Types
    <3>2. f \in S => event[f].status = "PROCESSING" /\ ~InTime(f)
      BY <3>1 DEF InTime
    <3> QED
      BY <3>1, <3>2 DEF Inv, Budget
  <2>2. CASE f = e
    <3>1. event[e].attempts < MaxAttempts + slips
      BY <2>1, <2>2 DEF Inv, Budget
    <3>2. InTime(e)'
      BY <1>2, <1>8 DEF InTime
    <3>3. event[e].attempts \in Nat /\ slips \in Nat /\ MaxAttempts \in Nat
      BY Types
    <3> QED
      BY <2>2, <3>1, <3>2, <3>3
  <2>3. CASE f # e /\ f \notin S
    <3>1. InTime(f) /\ event[f].status = "PROCESSING" => InTime(f)'
      <4> SUFFICES ASSUME NEW v \in Workers, Holder(v, f), event[f].held <= Lease
                   PROVE  InTime(f)'
        BY DEF InTime
      <4>1. v # w
        BY <1>2 DEF Holder
      <4> QED
        BY <4>1, <2>3, <1>8 DEF InTime
    <3> QED
      BY <2>3, <3>1 DEF Inv, Budget
  <2>4. CASE f # e /\ f \in S
    BY <2>1, <2>4, Types
  <2> QED
    BY <2>2, <2>3, <2>4
<1> QED
  BY <1>3, <1>5, <1>6, <1>7, <1>9, <1>10, <1>11 DEF Inv

-----------------------------------------------------------------------------
(* Workers that let go of what they run, and marks. *)

\* A worker stops running its event: by a crash, which is a slip, or without
\* holding the row.
LEMMA LetGoInv ==
    ASSUME Inv, NEW w \in Workers, NEW s \in {Poll, Sleep, Down},
           worker' = [worker EXCEPT ![w] = s],
           UNCHANGED <<event, delivered, overran>>,
           slips' \in 0 .. MaxSlips,
           \/ slips' = slips + 1
           \/ slips' = slips /\ (Busy(w) => event[worker[w].event].lockedBy # w)
    PROVE  Inv'
<1>1. event \in [Events -> Row] /\ worker \in [Workers -> Loop]
  BY Types
<1>2. /\ worker' \in [Workers -> Loop] /\ ~Busy(w)'
      /\ worker'[w].at \in {"polling", "sleeping", "down"} /\ worker'[w].released = {}
      /\ \A v \in Workers : v # w => worker'[v] = worker[v] /\ (Busy(v)' <=> Busy(v))
  BY <1>1, Rests DEF Busy
<1>3. TypeOK' /\ Unqueued'
  BY <1>2 DEF Inv, TypeOK, Unqueued
<1>4. LoopSound' /\ LocksHeld' /\ Apart'
  BY <1>2 DEF Inv, LoopSound, LocksHeld, Apart
<1>5. \A v \in Workers, e \in Events : Holder(v, e)' <=> Holder(v, e) /\ v # w
  BY <1>2 DEF Holder
<1>6. HolderCurrent' /\ NothingLost'
  BY <1>2, <1>5 DEF Inv, HolderCurrent, NothingLost
<1>7. Budget'
  <2>1. CASE slips' = slips + 1
    BY <2>1, Types DEF Inv, Budget
  <2>2. CASE slips' = slips /\ (Busy(w) => event[worker[w].event].lockedBy # w)
    <3>1. \A e \in Events : InTime(e) => InTime(e)'
      BY <2>2, <1>5 DEF InTime, Holder
    <3> QED
      BY <2>2, <3>1 DEF Inv, Budget
  <2> QED
    BY <2>1, <2>2
<1> QED
  BY <1>3, <1>4, <1>6, <1>7 DEF Inv

LEMMA MarkInv ==
    ASSUME Inv, NEW w \in Workers, NEW s \in {Poll, Sleep},
           Busy(w), Holds(w),
           NEW status \in {"SUCCEEDED", "FAILED", "PENDING"}, NEW due \in Int,
           status = "PENDING" => worker[w].attempts < MaxAttempts,
           Mark(w, status, due),
           worker' = [worker EXCEPT ![w] = s],
           UNCHANGED <<delivered, overran, slips>>
    PROVE  Inv'
<1> DEFINE e == worker[w].event
<1>1. event \in [Events -> Row] /\ worker \in [Workers -> Loop]
  BY Types
<1>2. /\ e \in Events /\ event[e].status = "PROCESSING" /\ event[e].lockedBy = w
      /\ \A v \in Workers : e \notin worker[v].released
  BY Types DEF Holds, Mark, Locked
<1>3. /\ event' \in [Events -> Row]
      /\ event'[e].status = status /\ event'[e].lockedBy = NoWorker
      /\ event'[e].attempts = event[e].attempts
      /\ \A f \in Events : f # e => event'[f] = event[f]
  <2> HIDE DEF e
  <2>1. event' = [event EXCEPT ![e] = [Unlocked(event[e]) EXCEPT !.status = status, !.due = due]]
    BY DEF Mark, e
  <2>2. \A r \in Row : LET m == [Unlocked(r) EXCEPT !.status = status, !.due = due]
                       IN  /\ m \in Row /\ m.status = status /\ m.lockedBy = NoWorker
                           /\ m.attempts = r.attempts
    BY DEF Unlocked, Row, OutboxStatus
  <2> QED
    BY <2>1, <2>2, <1>1, <1>2
<1>4. /\ worker' \in [Workers -> Loop] /\ ~Busy(w)'
      /\ worker'[w].at \in {"polling", "sleeping"} /\ worker'[w].released = {}
      /\ \A v \in Workers : v # w => worker'[v] = worker[v] /\ (Busy(v)' <=> Busy(v))
  <2>1. s \in Loop /\ s.at \in {"polling", "sleeping"} /\ s.released = {}
    BY Rests DEF Poll, Sleep
  <2> QED
    BY <2>1, <1>1 DEF Busy
<1>5. Holder(w, e)
  BY <1>2 DEF Holder
<1> HIDE DEF e
<1>6. TypeOK' /\ Unqueued'
  <2>1. \A f \in Events : event'[f].status = "PROCESSING" <=> event'[f].lockedBy # NoWorker
    BY <1>2, <1>3, Types
  <2>2. Unqueued'
    BY <1>3 DEF Inv, Unqueued
  <2> QED
    BY <2>1, <2>2, <1>3, <1>4 DEF Inv, TypeOK
<1>7. LoopSound'
  <2> SUFFICES ASSUME NEW v \in Workers, v # w
               PROVE  /\ worker[v].at = "claiming" \/ Busy(v) =>
                            /\ worker[v].event \in Events
                            /\ event'[worker[v].event].status # "NONE"
                      /\ Busy(v) => worker[v].attempts <= event'[worker[v].event].attempts
                      /\ worker[v].at = "succeeding" => worker[v].event \in delivered
                      /\ worker[v].at = "retrying" => worker[v].attempts < MaxAttempts
    BY <1>4 DEF LoopSound
  <2>1. \A f \in Events : /\ event'[f].attempts = event[f].attempts
                          /\ event[f].status # "NONE" => event'[f].status # "NONE"
    BY <1>3
  <2> QED
    BY <2>1, Types DEF Inv, LoopSound
<1>8. LocksHeld'
  <2> SUFFICES ASSUME NEW v \in Workers, NEW f \in worker'[v].released
               PROVE  /\ worker'[v].at = "claiming"
                      /\ event'[f].status = "PROCESSING" /\ event'[f].held > Lease
                      /\ \A u \in Workers : u # v => f \notin worker'[u].released
    BY DEF LocksHeld
  <2>1. v # w /\ worker'[v] = worker[v] /\ f \in Events /\ f # e
    BY <1>2, <1>4, Types
  <2> QED
    BY <2>1, <1>3, <1>4 DEF Inv, LocksHeld
<1>9. Apart'
  BY <1>4 DEF Inv, Apart
<1>10. \A v \in Workers, f \in Events : Holder(v, f)' <=> Holder(v, f) /\ f # e
  <2> SUFFICES ASSUME NEW v \in Workers, NEW f \in Events
               PROVE  Holder(v, f)' <=> Holder(v, f) /\ f # e
    OBVIOUS
  <2>1. CASE f = e
    BY <2>1, <1>3, NoWorkerAssumption DEF Holder
  <2>2. CASE f # e /\ v = w
    BY <2>2, <1>4, <1>5 DEF Holder
  <2>3. CASE f # e /\ v # w
    BY <2>3, <1>3, <1>4 DEF Holder
  <2> QED
    BY <2>1, <2>2, <2>3
<1>11. HolderCurrent'
  <2> SUFFICES ASSUME NEW v \in Workers, NEW f \in Events, Holder(v, f)'
               PROVE  worker'[v].attempts = event'[f].attempts
    BY DEF HolderCurrent
  <2>1. Holder(v, f) /\ f # e
    BY <1>10
  <2>2. v # w
    BY <2>1, <1>5 DEF Holder
  <2> QED
    BY <2>1, <2>2, <1>3, <1>4 DEF Inv, HolderCurrent
<1>12. NothingLost'
  <2> SUFFICES ASSUME NEW v \in Workers, v # w, Busy(v), worker[v].event \notin overran
               PROVE  /\ event'[worker[v].event].lockedBy = v
                      /\ event'[worker[v].event].held <= Lease
    BY <1>4 DEF NothingLost
  <2>1. /\ worker[v].event \in Events
        /\ event[worker[v].event].lockedBy = v /\ event[worker[v].event].held <= Lease
    BY Types DEF Inv, NothingLost
  <2> QED
    BY <2>1, <1>2, <1>3
<1>13. Budget'
  <2> SUFFICES ASSUME NEW f \in Events
               PROVE  /\ event'[f].attempts <= MaxAttempts + slips
                      /\ event'[f].status = "PENDING" => event'[f].attempts < MaxAttempts + slips
                      /\ event'[f].status = "PROCESSING"
                         /\ event'[f].attempts = MaxAttempts + slips => InTime(f)'
    BY DEF Budget
  <2>1. CASE f = e
    <3>1. worker[w].attempts = event[e].attempts
      BY <1>2, <1>5 DEF Inv, HolderCurrent
    <3> QED
      BY <2>1, <3>1, <1>2, <1>3, Types DEF Inv, Budget
  <2>2. CASE f # e
    <3>1. InTime(f) => InTime(f)'
      BY <2>2, <1>3, <1>10 DEF InTime
    <3> QED
      BY <2>2, <3>1, <1>3 DEF Inv, Budget
  <2> QED
    BY <2>1, <2>2
<1> QED
  BY <1>6, <1>7, <1>8, <1>9, <1>11, <1>12, <1>13 DEF Inv

-----------------------------------------------------------------------------
(* The other steps. *)

LEMMA EnqueueInv ==
    ASSUME Inv, NEW e \in Events, Enqueue(e)
    PROVE  Inv'
<1>1. event \in [Events -> Row] /\ worker \in [Workers -> Loop]
  BY Types
<1>2. event[e].status = "NONE" /\ event[e].attempts = 0
  BY DEF Inv, Unqueued, Enqueue
<1>3. /\ event' \in [Events -> Row] /\ event'[e].status = "PENDING"
      /\ \A f \in Events : /\ f # e => event'[f] = event[f]
                           /\ event'[f].attempts = event[f].attempts
                           /\ event'[f].lockedBy = event[f].lockedBy
                           /\ event'[f].held = event[f].held
      /\ UNCHANGED <<worker, delivered, overran, slips>>
  BY <1>1 DEF Enqueue, Row, OutboxStatus
<1>4. \A w \in Workers : Busy(w)' <=> Busy(w)
  BY <1>3 DEF Busy
<1>5. TypeOK' /\ Unqueued'
  BY <1>2, <1>3 DEF Inv, TypeOK, Unqueued
<1>6. LoopSound'
  BY <1>3, <1>4 DEF Inv, LoopSound
<1>7. LocksHeld'
  <2>1. \A w \in Workers : e \notin worker[w].released
    BY <1>2 DEF Inv, LocksHeld
  <2> QED
    BY <2>1, <1>3, Types DEF Inv, LocksHeld
<1>8. \A w \in Workers, f \in Events : Holder(w, f)' <=> Holder(w, f)
  BY <1>3, <1>4 DEF Holder
<1>9. Apart' /\ HolderCurrent' /\ NothingLost'
  BY <1>3, <1>4, <1>8, Types DEF Inv, Apart, HolderCurrent, NothingLost
<1>10. Budget'
  <2>1. \A f \in Events : InTime(f)' <=> InTime(f)
    BY <1>3, <1>8 DEF InTime
  <2> QED
    BY <2>1, <1>2, <1>3, Types DEF Inv, Budget
<1> QED
  BY <1>5, <1>6, <1>7, <1>9, <1>10 DEF Inv

LEMMA HandleInv ==
    ASSUME Inv, NEW w \in Workers, Handle(w)
    PROVE  Inv'
<1>1. event \in [Events -> Row] /\ worker \in [Workers -> Loop]
  BY Types
<1>2. /\ UNCHANGED <<event, overran, slips>> /\ delivered \subseteq delivered'
      /\ Busy(w) /\ worker[w].at = "handling" /\ worker[w].event \in Events
      /\ delivered' \subseteq Events
  BY <1>1, HandledAssumption DEF Inv, TypeOK, LoopSound, Handle, Busy
<1>3. PICK at \in {"succeeding", "retrying", "failing"} :
          /\ worker' = [worker EXCEPT ![w].at = at]
          /\ at = "succeeding" => worker[w].event \in delivered'
          /\ at = "retrying" => ~GivesUp(worker[w].attempts)
  BY DEF Handle
<1>4. /\ worker' \in [Workers -> Loop] /\ worker'[w].at = at
      /\ \A v \in Workers : /\ v # w => worker'[v] = worker[v]
                            /\ worker'[v].event = worker[v].event
                            /\ worker'[v].attempts = worker[v].attempts
                            /\ worker'[v].released = worker[v].released
  BY <1>1, <1>3 DEF Loop, Points
<1>5. /\ at = "retrying" => worker[w].attempts < MaxAttempts
      /\ \A v \in Workers : Busy(v)' <=> Busy(v)
  BY <1>2, <1>3, <1>4, Types DEF GivesUp, Busy
<1>6. TypeOK' /\ Unqueued'
  BY <1>2, <1>4 DEF Inv, TypeOK, Unqueued
<1>7. LoopSound'
  <2> SUFFICES ASSUME NEW v \in Workers
               PROVE  /\ worker'[v].at = "claiming" \/ Busy(v)' =>
                            /\ worker'[v].event \in Events
                            /\ event'[worker'[v].event].status # "NONE"
                      /\ Busy(v)' => worker'[v].attempts <= event'[worker'[v].event].attempts
                      /\ worker'[v].at = "succeeding" => worker'[v].event \in delivered'
                      /\ worker'[v].at = "retrying" => worker'[v].attempts < MaxAttempts
    BY DEF LoopSound
  <2>1. CASE v = w
    BY <2>1, <1>2, <1>3, <1>4, <1>5 DEF Inv, LoopSound
  <2>2. CASE v # w
    BY <2>2, <1>2, <1>4, <1>5 DEF Inv, LoopSound
  <2> QED
    BY <2>1, <2>2
<1>8. LocksHeld'
  <2>1. worker[w].released = {}
    BY <1>2 DEF Inv, LocksHeld
  <2> QED
    BY <2>1, <1>2, <1>4 DEF Inv, LocksHeld
<1>9. \A v \in Workers, e \in Events : Holder(v, e)' <=> Holder(v, e)
  BY <1>2, <1>4, <1>5 DEF Holder
<1>10. Apart' /\ HolderCurrent' /\ NothingLost'
  BY <1>2, <1>4, <1>5, <1>9 DEF Inv, Apart, HolderCurrent, NothingLost
<1>11. Budget'
  BY <1>2, <1>9 DEF Inv, Budget, InTime
<1> QED
  BY <1>6, <1>7, <1>8, <1>10, <1>11 DEF Inv

\* Time passing changes no more of a row than its two ages.
LEMMA LaterRow ==
    ASSUME NEW r \in Row
    PROVE  /\ Later(r) \in Row
           /\ Later(r).status = r.status /\ Later(r).lockedBy = r.lockedBy
           /\ Later(r).attempts = r.attempts
           /\ Later(r).held = r.held \/ Later(r).held = r.held + 1
<1> DEFINE due == IF r.due > -MaxLag THEN r.due - 1 ELSE r.due
           held == IF r.status = "PROCESSING" /\ r.held <= Lease + MaxLag
                   THEN r.held + 1 ELSE r.held
<1>1. due \in Int /\ held \in Nat /\ (held = r.held \/ held = r.held + 1)
  BY LeaseAssumption, MaxLagAssumption DEF Row
<1>2. Later(r) = [r EXCEPT !.due = due, !.held = held]
  BY DEF Later
<1> HIDE DEF due, held
<1> QED
  BY <1>1, <1>2 DEF Row

LEMMA TickInv ==
    ASSUME Inv, Tick
    PROVE  Inv'
<1>1. event \in [Events -> Row] /\ worker \in [Workers -> Loop]
  BY Types
<1>2. /\ event' \in [Events -> Row]
      /\ \A e \in Events : /\ event'[e].status = event[e].status
                           /\ event'[e].lockedBy = event[e].lockedBy
                           /\ event'[e].attempts = event[e].attempts
                           /\ event'[e].held = event[e].held \/ event'[e].held = event[e].held + 1
      /\ UNCHANGED delivered
  BY <1>1, LaterRow DEF Tick
<1>3. /\ worker' \in [Workers -> Loop]
      /\ \A w \in Workers : /\ worker'[w].at = worker[w].at
                            /\ worker'[w].event = worker[w].event
                            /\ worker'[w].attempts = worker[w].attempts
                            /\ worker'[w].released = worker[w].released
  <2>1. ASSUME NEW w \in Workers
        PROVE  /\ worker'[w] \in Loop
               /\ worker'[w].at = worker[w].at /\ worker'[w].event = worker[w].event
               /\ worker'[w].attempts = worker[w].attempts
               /\ worker'[w].released = worker[w].released
    <3>1. worker[w] \in Loop
      BY <1>1
    <3>2. CASE worker[w].at = "claiming"
      <4>1. PICK n \in 0 .. MaxLag : n = worker[w].lag + 1
        BY <3>2, Types DEF Tick
      <4>2. worker'[w] = [worker[w] EXCEPT !.lag = n]
        BY <3>2, <4>1 DEF Tick
      <4> QED
        BY <3>1, <4>2 DEF Loop
    <3>3. CASE worker[w].at # "claiming"
      BY <3>1, <3>3 DEF Tick
    <3> QED
      BY <3>2, <3>3
  <2> QED
    BY <2>1 DEF Tick
<1>4. /\ slips' \in 0 .. MaxSlips
      /\ slips' = slips + 1 \/ (slips' = slips /\ Overrunning = {})
      /\ overran' = overran \cup Overrunning /\ overran' \subseteq Events
  BY Types DEF Inv, TypeOK, Tick, Overrunning
<1>5. \A w \in Workers : Busy(w)' <=> Busy(w)
  BY <1>3 DEF Busy
<1>6. \A w \in Workers, e \in Events : Holder(w, e)' <=> Holder(w, e)
  BY <1>2, <1>3, <1>5 DEF Holder
\* A live claim is within its lease after the tick, or its event overruns.
<1>7. ASSUME NEW e \in Events, NEW w \in Workers, Holder(w, e), event[e].held <= Lease,
             e \notin Overrunning
      PROVE  event'[e].held <= Lease
  <2>1. event[e].status = "PROCESSING"
    BY <1>7, NoWorkerAssumption, Types DEF Holder
  <2>2. event[e].held # Lease
    BY <2>1, <1>7 DEF Overrunning
  <2>3. event[e].held \in Nat /\ Lease \in Nat
    BY Types
  <2> QED
    BY <2>2, <2>3, <1>2, <1>7
<1>8. TypeOK' /\ Unqueued'
  BY <1>2, <1>3, <1>4 DEF Inv, TypeOK, Unqueued
<1>9. LoopSound'
  BY <1>2, <1>3, <1>5 DEF Inv, LoopSound
<1>10. LocksHeld'
  <2> SUFFICES ASSUME NEW v \in Workers, NEW f \in worker[v].released
               PROVE  /\ worker[v].at = "claiming"
                      /\ event'[f].status = "PROCESSING" /\ event'[f].held > Lease
                      /\ \A u \in Workers : u # v => f \notin worker[u].released
    BY <1>3 DEF LocksHeld
  <2>1. f \in Events /\ event[f].status = "PROCESSING" /\ event[f].held > Lease
    BY Types DEF Inv, LocksHeld
  <2> QED
    BY <2>1, <1>2, Types DEF Inv, LocksHeld
<1>11. Apart' /\ HolderCurrent'
  BY <1>2, <1>3, <1>5, <1>6 DEF Inv, Apart, HolderCurrent
<1>12. NothingLost'
  <2> SUFFICES ASSUME NEW w \in Workers, Busy(w), worker[w].event \notin overran'
               PROVE  /\ event'[worker[w].event].lockedBy = w
                      /\ event'[worker[w].event].held <= Lease
    BY <1>3, <1>5 DEF NothingLost
  <2>1. PICK e \in Events : e = worker[w].event
    BY Types
  <2>2. event[e].lockedBy = w /\ event[e].held <= Lease /\ e \notin Overrunning
    BY <2>1, <1>4 DEF Inv, NothingLost
  <2>3. Holder(w, e)
    BY <2>1, <2>2 DEF Holder
  <2> QED
    BY <2>1, <2>2, <2>3, <1>2, <1>7
<1>13. Budget'
  <2>1. CASE slips' = slips + 1
    BY <2>1, <1>2, Types DEF Inv, Budget
  <2>2. CASE slips' = slips /\ Overrunning = {}
    <3>1. \A e \in Events : InTime(e) => InTime(e)'
      BY <2>2, <1>6, <1>7 DEF InTime
    <3> QED
      BY <2>2, <3>1, <1>2 DEF Inv, Budget
  <2> QED
    BY <2>1, <2>2, <1>4
<1> QED
  BY <1>8, <1>9, <1>10, <1>11, <1>12, <1>13 DEF Inv

-----------------------------------------------------------------------------
(* The steps together. *)

\* The two outcomes of Find and of Take.
LEMMA FindInv ==
    ASSUME Inv, NEW w \in Workers, Find(w)
    PROVE  Inv'
<1>1. ~Busy(w) /\ UNCHANGED <<delivered, overran, slips>>
  BY DEF Find, Busy
<1>2. PICK lag \in 0 .. MaxLag :
          LET expired == {e \in Events : Stale(event[e], lag)}
              found == Candidates(Released(expired), lag)
          IN  /\ \A e \in expired : ~Locked(e)
              /\ \/ /\ \E e \in found :
                          worker' = [worker EXCEPT ![w] =
                              [Poll EXCEPT !.at = "claiming", !.event = e,
                                           !.lag = lag, !.released = expired]]
                    /\ UNCHANGED event
                 \/ /\ found = {}
                    /\ event' = Released(expired)
                    /\ worker' = [worker EXCEPT ![w] = Sleep]
  BY DEF Find
<1> DEFINE expired == {e \in Events : Stale(event[e], lag)}
<1>3. /\ expired \in SUBSET Events
      /\ \A e \in expired : event[e].status = "PROCESSING" /\ event[e].held > Lease
      /\ \A e \in expired : ~Locked(e)
  BY <1>2, ExpiredRows
<1>4. \/ /\ \E e \in Candidates(Released(expired), lag) :
               worker' = [worker EXCEPT ![w] =
                   [Poll EXCEPT !.at = "claiming", !.event = e,
                                !.lag = lag, !.released = expired]]
         /\ UNCHANGED event
      \/ event' = Released(expired) /\ worker' = [worker EXCEPT ![w] = Sleep]
  BY <1>2
<1> HIDE DEF expired
<1>5. ASSUME NEW e \in Candidates(Released(expired), lag)
      PROVE  e \in Events /\ event[e].status # "NONE"
  <2>1. e \in Events /\ Released(expired)[e].status = "PENDING"
    BY DEF Candidates
  <2> QED
    BY <2>1, <1>3, ReleasedRows
<1>6. CASE \E e \in Candidates(Released(expired), lag) :
             /\ worker' = [worker EXCEPT ![w] =
                   [Poll EXCEPT !.at = "claiming", !.event = e,
                                !.lag = lag, !.released = expired]]
             /\ UNCHANGED event
  BY <1>1, <1>3, <1>5, <1>6, OpenInv
<1>7. CASE event' = Released(expired) /\ worker' = [worker EXCEPT ![w] = Sleep]
  <2>1. \A v \in Workers : v # w => worker[v].released \cap expired = {}
    BY <1>3 DEF Locked
  <2> QED
    BY <2>1, <1>1, <1>3, <1>7, ReleaseInv
<1> QED
  BY <1>4, <1>6, <1>7

LEMMA TakeInv ==
    ASSUME Inv, NEW w \in Workers, Take(w)
    PROVE  Inv'
<1> DEFINE e == worker[w].event
           S == worker[w].released
           claimed == Claimed(Released(S)[e], w, worker[w].lag)
           run == [Poll EXCEPT !.at = "handling", !.event = e, !.attempts = claimed.attempts]
<1>1. /\ worker[w].at = "claiming" /\ ~Busy(w)
      /\ UNCHANGED <<delivered, overran, slips>>
      /\ \/ /\ Released(S)[e].status = "PENDING"
            /\ event' = [Released(S) EXCEPT ![e] = claimed]
            /\ worker' = [worker EXCEPT ![w] = run]
         \/ event' = Released(S) /\ worker' = [worker EXCEPT ![w] = Sleep]
  BY DEF Take, Busy, Available
<1>2. /\ event \in [Events -> Row] /\ worker \in [Workers -> Loop]
      /\ e \in Events /\ S \in SUBSET Events
      /\ \A f \in S : event[f].status = "PROCESSING" /\ event[f].held > Lease
      /\ \A v \in Workers : v # w => worker[v].released \cap S = {}
      /\ worker[w].lag \in Nat /\ worker[w].lag <= Lease
  BY <1>1, Types DEF Inv, LocksHeld, LoopSound
<1>3. /\ Released(S) \in [Events -> Row]
      /\ \A f \in Events :
            /\ Released(S)[f].attempts = event[f].attempts
            /\ f \notin S => Released(S)[f] = event[f]
            /\ f \in S => /\ Released(S)[f].status = "PENDING"
                          /\ Released(S)[f].lockedBy = NoWorker
  BY <1>2, ReleasedRows
<1>4. /\ claimed \in Row /\ claimed.status = "PROCESSING" /\ claimed.lockedBy = w
      /\ claimed.attempts = event[e].attempts + 1 /\ claimed.held <= Lease
  <2>1. Released(S)[e] \in Row /\ Released(S)[e].attempts = event[e].attempts
    BY <1>2, <1>3
  <2> HIDE DEF e, S
  <2> QED
    BY <2>1, <1>2, ClaimedRow
<1>5. /\ run \in Loop /\ run.at = "handling" /\ run.event = e /\ run.released = {}
      /\ run.attempts = event[e].attempts + 1
  <2>1. PICK n \in Nat : n = claimed.attempts
    BY <1>4 DEF Row
  <2>2. 0 \in 0 .. MaxLag
    BY Types
  <2>3. run = [Poll EXCEPT !.at = "handling", !.event = e, !.attempts = n]
    BY <2>1
  <2> HIDE DEF run, claimed, e
  <2> QED
    BY <2>1, <2>2, <2>3, <1>2, <1>4 DEF Poll, Loop, Points
<1> HIDE DEF e, S, claimed, run
<1>6. CASE event' = Released(S) /\ worker' = [worker EXCEPT ![w] = Sleep]
  BY <1>1, <1>2, <1>6, ReleaseInv
<1>7. CASE /\ Released(S)[e].status = "PENDING"
           /\ event' = [Released(S) EXCEPT ![e] = claimed]
           /\ worker' = [worker EXCEPT ![w] = run]
  <2>1. e \in S \/ event[e].status = "PENDING"
    BY <1>2, <1>3, <1>7
  <2>2. /\ event' \in [Events -> Row] /\ event'[e] = claimed
        /\ \A f \in Events : f # e => event'[f] = Released(S)[f]
    BY <1>2, <1>3, <1>4, <1>7
  <2>3. /\ worker' \in [Workers -> Loop] /\ worker'[w] = run
        /\ \A v \in Workers : v # w => worker'[v] = worker[v]
    BY <1>2, <1>5, <1>7
  <2> QED
    BY <2>1, <2>2, <2>3, <1>1, <1>2, <1>3, <1>4, <1>5, TakenInv
<1> QED
  BY <1>1, <1>6, <1>7

\* Where a worker that is about to mark its event stands.
LEMMA AboutToMark ==
    ASSUME Inv, NEW w \in Workers,
           worker[w].at \in {"succeeding", "retrying", "failing"}
    PROVE  /\ Busy(w) /\ worker[w].event \in Events
           /\ event[worker[w].event].due \in Int
           /\ Backoff(worker[w].attempts) \in Int
           /\ ~Holds(w) => event[worker[w].event].lockedBy # w
<1>1. Busy(w) /\ worker[w].event \in Events /\ worker[w].attempts \in Nat
  BY Types DEF Busy
<1>2. event[worker[w].event].due \in Int
  BY <1>1, Types DEF Row
<1>3. Backoff(worker[w].attempts) \in Int
  BY <1>1, BaseRetryAssumption, SMT DEF Backoff
<1>4. ~Holds(w) => event[worker[w].event].lockedBy # w
  BY <1>1, NoWorkerAssumption, Types DEF Holds
<1> QED
  BY <1>1, <1>2, <1>3, <1>4

LEMMA WorkInv ==
    ASSUME Inv, NEW w \in Workers, Work(w)
    PROVE  Inv'
<1>1. slips \in 0 .. MaxSlips
  BY DEF Inv, TypeOK
<1>2. CASE Find(w)
  BY <1>2, FindInv
<1>3. CASE Take(w)
  BY <1>3, TakeInv
<1>4. CASE Handle(w)
  BY <1>4, HandleInv
<1>5. CASE Wake(w)
  <2>1. ~Busy(w)
    BY <1>5 DEF Wake, Busy
  <2> QED
    BY <2>1, <1>1, <1>5, LetGoInv DEF Wake
<1>6. CASE Restart(w)
  <2>1. ~Busy(w)
    BY <1>6 DEF Restart, Busy
  <2> QED
    BY <2>1, <1>1, <1>6, LetGoInv DEF Restart
<1>7. ASSUME NEW s \in {Poll, Sleep}, NEW status \in {"SUCCEEDED", "FAILED", "PENDING"},
             NEW due \in Int,
             worker[w].at \in {"succeeding", "retrying", "failing"},
             status = "PENDING" => worker[w].attempts < MaxAttempts,
             Mark(w, status, due), worker' = [worker EXCEPT ![w] = s],
             UNCHANGED <<delivered, overran, slips>>
      PROVE  Inv'
  <2>1. CASE Holds(w)
    BY <2>1, <1>7, AboutToMark, MarkInv
  <2>2. CASE ~Holds(w)
    <3>1. event' = event /\ event[worker[w].event].lockedBy # w
      BY <2>2, <1>7, AboutToMark DEF Mark
    <3> QED
      BY <3>1, <1>1, <1>7, LetGoInv
  <2> QED
    BY <2>1, <2>2
<1>8. CASE MarkSucceeded(w)
  BY <1>7, <1>8, AboutToMark DEF MarkSucceeded
<1>9. CASE MarkRetry(w)
  <2>1. worker[w].attempts < MaxAttempts
    BY <1>9 DEF MarkRetry, Inv, LoopSound
  <2> QED
    BY <2>1, <1>7, <1>9, AboutToMark DEF MarkRetry
<1>10. CASE MarkFailed(w)
  BY <1>7, <1>10, AboutToMark DEF MarkFailed
<1> QED
  BY <1>2, <1>3, <1>4, <1>5, <1>6, <1>8, <1>9, <1>10 DEF Work

LEMMA NextInv == Inv /\ [Next]_vars => Inv'
<1> SUFFICES ASSUME Inv, [Next]_vars
             PROVE  Inv'
  OBVIOUS
<1>1. CASE Tick
  BY <1>1, TickInv
<1>2. CASE \E e \in Events : Enqueue(e)
  BY <1>2, EnqueueInv
<1>3. ASSUME NEW w \in Workers, Work(w)
      PROVE  Inv'
  BY <1>3, WorkInv
<1>4. ASSUME NEW w \in Workers, Crash(w)
      PROVE  Inv'
  <2>1. slips' = slips + 1 /\ slips' \in 0 .. MaxSlips
    BY <1>4, MaxSlipsAssumption DEF Crash, Inv, TypeOK
  <2>2. PICK s \in {Down, Sleep} : worker' = [worker EXCEPT ![w] = s]
    BY <1>4 DEF Crash
  <2> QED
    BY <2>1, <2>2, <1>4, LetGoInv DEF Crash
<1>5. CASE UNCHANGED vars
  BY <1>5 DEF vars, Inv, TypeOK, Unqueued, LoopSound, LocksHeld, Apart, HolderCurrent,
              NothingLost, Budget, InTime, Holder, Busy
<1> QED
  BY <1>1, <1>2, <1>3, <1>4, <1>5 DEF Next

LEMMA AlwaysInv == Spec => []Inv
  BY InitInv, NextInv, PTL DEF Spec

-----------------------------------------------------------------------------
(* The theorems. *)

\* The rows of the outbox and the loops of the workers are well formed: a row
\* is PROCESSING exactly while it names a worker.
THEOREM TypeCorrect == Spec => []TypeOK
<1>1. Inv => TypeOK
  BY DEF Inv
<1> QED
  BY <1>1, AlwaysInv, PTL

\* However many processes poll, and however their claims interleave, two run
\* the same event only after a run of that event outlived its lease.
THEOREM OverlapsNeedOverruns == Spec => []OverlapNeedsOverrun
<1>1. Inv => OverlapNeedsOverrun
  <2> SUFFICES ASSUME Inv, NEW v \in Workers, NEW w \in Workers, Busy(v), Busy(w), v # w,
                      worker[v].event = worker[w].event
               PROVE  worker[v].event \in overran
    BY DEF OverlapNeedsOverrun
  <2> QED
    BY DEF Inv, NothingLost
<1> QED
  BY <1>1, AlwaysInv, PTL

\* Concurrent runs of an event hold different attempts of it.
THEOREM AttemptsDistinct == Spec => []AttemptsTellClaimsApart
<1>1. Inv => AttemptsTellClaimsApart
  BY DEF Inv, LoopSound, Apart, AttemptsTellClaimsApart
<1> QED
  BY <1>1, AlwaysInv, PTL

\* Attempts past the limit are paid for by slips, one each.
THEOREM AttemptsBounded == Spec => []AttemptsPastLimitNeedSlips
<1>1. Inv => AttemptsPastLimitNeedSlips
  BY DEF Inv, Budget, AttemptsPastLimitNeedSlips
<1> QED
  BY <1>1, AlwaysInv, PTL

\* What an open claim holds locked can neither be marked nor claimed by anyone
\* else: when it commits, each of those rows is as it was released.
THEOREM ReleasesAreExclusive == Spec => []LocksHeld
<1>1. Inv => LocksHeld
  BY DEF Inv
<1> QED
  BY <1>1, AlwaysInv, PTL

\* What Find and Take do to a row: nothing, or release it, or claim it after a
\* release or while it is available.
LEMMA ClaimChangesRow ==
    ASSUME Inv, NEW w \in Workers, Find(w) \/ Take(w), NEW e \in Events
    PROVE  \/ event'[e] = event[e]
           \/ /\ event[e].status = "PENDING" \/ (event[e].status = "PROCESSING"
                                                 /\ event[e].held > Lease)
              /\ event'[e].status \in {"PENDING", "PROCESSING"}
<1>1. ASSUME NEW S \in SUBSET Events,
             \A f \in S : event[f].status = "PROCESSING" /\ event[f].held > Lease
      PROVE  \/ Released(S)[e] = event[e]
             \/ /\ event[e].status = "PROCESSING" /\ event[e].held > Lease
                /\ Released(S)[e].status = "PENDING"
  BY <1>1, ReleasedRows
<1>2. CASE Find(w)
  <2>1. PICK lag \in 0 .. MaxLag :
            \/ event' = event
            \/ event' = Released({f \in Events : Stale(event[f], lag)})
    BY <1>2 DEF Find
  <2>2. {f \in Events : Stale(event[f], lag)} \in SUBSET Events
    OBVIOUS
  <2> QED
    BY <2>1, <2>2, <1>1, ExpiredRows
<1>3. CASE Take(w)
  <2> DEFINE S == worker[w].released
             c == worker[w].event
  <2>1. /\ S \in SUBSET Events
        /\ \A f \in S : event[f].status = "PROCESSING" /\ event[f].held > Lease
        /\ c \in Events /\ worker[w].lag \in Nat
    BY <1>3, Types DEF Take, Inv, LocksHeld, LoopSound
  <2>2. /\ Released(S) \in [Events -> Row] /\ Released(S)[c] \in Row
        /\ \/ Released(S)[e] = event[e]
           \/ /\ event[e].status = "PROCESSING" /\ event[e].held > Lease
              /\ Released(S)[e].status = "PENDING"
    BY <2>1, <1>1, ReleasedRows
  <2>3. \/ event' = Released(S)
        \/ /\ Released(S)[c].status = "PENDING"
           /\ event' = [Released(S) EXCEPT ![c] = Claimed(@, w, worker[w].lag)]
    BY <1>3 DEF Take, Available
  <2>4. Claimed(Released(S)[c], w, worker[w].lag).status = "PROCESSING"
    BY <2>1, <2>2, ClaimedRow
  <2> HIDE DEF S, c
  <2>5. CASE event' = Released(S)
    BY <2>2, <2>5
  <2>6. CASE /\ Released(S)[c].status = "PENDING"
             /\ event' = [Released(S) EXCEPT ![c] = Claimed(@, w, worker[w].lag)]
    <3>1. CASE e = c
      <4>1. event'[e].status = "PROCESSING"
        BY <2>1, <2>2, <2>4, <2>6, <3>1
      <4> QED
        BY <4>1, <2>2, <2>6, <3>1
    <3>2. CASE e # c
      <4>1. event'[e] = Released(S)[e]
        BY <2>1, <2>2, <2>6, <3>2
      <4> QED
        BY <4>1, <2>2
    <3> QED
      BY <3>1, <3>2
  <2> QED
    BY <2>3, <2>5, <2>6
<1> QED
  BY <1>2, <1>3

\* A mark touches no row but that of the worker's own latest claim.
LEMMA MarkIsTheHolders ==
    ASSUME Inv, NEW w \in Workers, NEW s \in {Poll, Sleep},
           NEW status \in {"SUCCEEDED", "FAILED", "PENDING"}, NEW due \in Int,
           worker[w].at \in {"succeeding", "retrying", "failing"}, Mark(w, status, due),
           worker' = [worker EXCEPT ![w] = s],
           NEW e \in Events, event'[e] # event[e]
    PROVE  Holder(w, e) /\ worker[w].attempts = event[e].attempts /\ ~Busy(w)'
<1>1. event \in [Events -> Row] /\ worker \in [Workers -> Loop]
  BY Types
<1>2. Holds(w) /\ worker[w].event = e
  BY <1>1, AboutToMark DEF Mark
<1>3. Holder(w, e)
  BY <1>2, AboutToMark DEF Holds, Holder
<1>4. ~Busy(w)'
  BY <1>1, Rests DEF Busy
<1> QED
  BY <1>3, <1>4 DEF Inv, HolderCurrent

\* A claim ends by a mark of its own worker, or its lease has run out.
THEOREM ClaimsEndProperly == Spec => ClaimEndsByHolderOrLease
<1> DEFINE Ends(e) == /\ event[e].status = "PROCESSING"
                      /\ event'[e].status # "PROCESSING" \/ event'[e].attempts # event[e].attempts
           RanOut(e) == event[e].held > Lease /\ event'[e].status \in {"PENDING", "PROCESSING"}
           Marked(e) == \E w \in Workers : /\ Holder(w, e)
                                           /\ worker[w].attempts = event[e].attempts
                                           /\ ~Busy(w)'
<1>1. ASSUME Inv, [Next]_vars, NEW e \in Events, Ends(e)
      PROVE  RanOut(e) \/ Marked(e)
  <2>1. event \in [Events -> Row] /\ event[e] # event'[e]
    BY <1>1, Types
  <2>2. CASE Tick
    <3>1. event'[e].status = event[e].status /\ event'[e].attempts = event[e].attempts
      BY <2>1, <2>2, LaterRow DEF Tick
    <3> QED
      BY <3>1, <1>1
  <2>3. ASSUME NEW f \in Events, Enqueue(f) PROVE FALSE
    BY <2>1, <2>3, <1>1 DEF Enqueue, Row
  <2>4. ASSUME NEW w \in Workers, Find(w) \/ Take(w) PROVE RanOut(e)
    BY <2>1, <2>4, <1>1, ClaimChangesRow
  <2>5. ASSUME NEW w \in Workers, MarkSucceeded(w) \/ MarkRetry(w) \/ MarkFailed(w)
        PROVE  Marked(e)
    BY <2>1, <2>5, <1>1, MarkIsTheHolders, AboutToMark DEF MarkSucceeded, MarkRetry, MarkFailed
  <2>6. ASSUME NEW w \in Workers, Handle(w) \/ Wake(w) \/ Restart(w) \/ Crash(w)
        PROVE  FALSE
    BY <2>1, <2>6 DEF Handle, Wake, Restart, Crash
  <2>7. CASE UNCHANGED vars
    BY <2>1, <2>7 DEF vars
  <2> QED
    BY <2>2, <2>3, <2>4, <2>5, <2>6, <2>7, <1>1 DEF Next, Work
<1>2. Inv /\ [Next]_vars => [ClaimsEnd]_vars
  BY <1>1 DEF ClaimsEnd
<1> QED
  BY <1>2, AlwaysInv, PTL DEF Spec, ClaimEndsByHolderOrLease

-----------------------------------------------------------------------------
(* Who puts events into the outbox. *)

\* Only Enqueue does: a step of the dispatcher queues no event and makes none
\* vanish, and what it delivers was queued.
LEMMA DispatcherQueuesNothing ==
    Inv /\ (Tick \/ \E w \in Workers : Work(w) \/ Crash(w)) =>
        \A e \in Events :
            /\ event'[e].status = "NONE" <=> event[e].status = "NONE"
            /\ e \in delivered' => e \in delivered \/ event[e].status # "NONE"
<1> SUFFICES ASSUME Inv, Tick \/ \E w \in Workers : Work(w) \/ Crash(w), NEW e \in Events
             PROVE  /\ event'[e].status = "NONE" <=> event[e].status = "NONE"
                    /\ e \in delivered' => e \in delivered \/ event[e].status # "NONE"
  OBVIOUS
<1>1. event \in [Events -> Row]
  BY Types
<1>2. CASE Tick
  BY <1>1, <1>2, LaterRow DEF Tick
<1>3. ASSUME NEW w \in Workers, Find(w) \/ Take(w)
      PROVE  /\ event'[e].status = "NONE" <=> event[e].status = "NONE"
             /\ delivered' = delivered
  BY <1>3, ClaimChangesRow DEF Find, Take
<1>4. ASSUME NEW w \in Workers, Handle(w)
      PROVE  /\ event' = event
             /\ e \in delivered' => e \in delivered \/ event[e].status # "NONE"
  BY <1>4 DEF Handle, Inv, LoopSound, Busy
<1>5. ASSUME NEW w \in Workers, NEW status \in {"SUCCEEDED", "FAILED", "PENDING"},
             NEW due \in Int,
             worker[w].at \in {"succeeding", "retrying", "failing"}, Mark(w, status, due)
      PROVE  event'[e].status = "NONE" <=> event[e].status = "NONE"
  <2>1. CASE ~Holds(w) \/ worker[w].event # e
    BY <2>1, <1>1, <1>5 DEF Mark
  <2>2. CASE Holds(w) /\ worker[w].event = e
    BY <2>2, <1>1, <1>5 DEF Mark, Holds, Unlocked, Row
  <2> QED
    BY <2>1, <2>2
<1>6. ASSUME NEW w \in Workers, MarkSucceeded(w) \/ MarkRetry(w) \/ MarkFailed(w)
      PROVE  /\ event'[e].status = "NONE" <=> event[e].status = "NONE"
             /\ delivered' = delivered
  BY <1>5, <1>6, AboutToMark DEF MarkSucceeded, MarkRetry, MarkFailed
<1>7. ASSUME NEW w \in Workers, Wake(w) \/ Restart(w) \/ Crash(w)
      PROVE  event' = event /\ delivered' = delivered
  BY <1>7 DEF Wake, Restart, Crash
<1> QED
  BY <1>2, <1>3, <1>4, <1>6, <1>7 DEF Work

-----------------------------------------------------------------------------
(* The refinement.  The fate of an event depends on the status of its row:  *)
(* claiming, releasing and retrying leave it alone.                         *)

LEMMA FatesKept ==
    ASSUME \A e \in Events : Fate(event'[e].status) = Fate(event[e].status),
           delivered' = delivered
    PROVE  UNCHANGED Promise!deliveryVars
  BY DEF Promise!deliveryVars

\* One row gets a new status.
LEMMA FateSet ==
    ASSUME NEW e \in Events, \A f \in Events : f # e => event'[f] = event[f]
    PROVE  [f \in Events |-> Fate(event'[f].status)]
               = [[f \in Events |-> Fate(event[f].status)] EXCEPT ![e] = Fate(event'[e].status)]
  OBVIOUS

LEMMA ClaimStutters ==
    ASSUME Inv, NEW w \in Workers, Find(w) \/ Take(w)
    PROVE  UNCHANGED Promise!deliveryVars
<1>1. \A e \in Events : Fate(event'[e].status) = Fate(event[e].status)
  BY ClaimChangesRow DEF Fate
<1>2. delivered' = delivered
  BY DEF Find, Take
<1> QED
  BY <1>1, <1>2, FatesKept

LEMMA HandleDelivers ==
    ASSUME Inv, NEW w \in Workers, Handle(w)
    PROVE  [Promise!DeliveryNext]_(Promise!deliveryVars)
<1>1. event \in [Events -> Row] /\ worker \in [Workers -> Loop] /\ event' = event
  BY Types DEF Handle
<1>2. /\ worker[w].event \in Events
      /\ event[worker[w].event].status \in OutboxStatus \ {"NONE"}
  BY <1>1 DEF Inv, LoopSound, Handle, Busy, Row
<1>3. CASE delivered' = delivered
  BY <1>1, <1>3, FatesKept
<1>4. CASE delivered' = delivered \cup {worker[w].event}
  <2>1. Fate(event[worker[w].event].status) # "absent"
    BY <1>2 DEF Fate, OutboxStatus
  <2>2. Promise!Deliver(worker[w].event)
    BY <1>1, <1>2, <1>4, <2>1 DEF Promise!Deliver
  <2> QED
    BY <1>2, <2>2 DEF Promise!DeliveryNext
<1> QED
  BY <1>3, <1>4 DEF Handle

LEMMA MarkSettles ==
    ASSUME Inv, NEW w \in Workers, NEW status \in {"SUCCEEDED", "FAILED", "PENDING"},
           NEW due \in Int,
           worker[w].at \in {"succeeding", "retrying", "failing"},
           status = "SUCCEEDED" => worker[w].at = "succeeding",
           Mark(w, status, due), delivered' = delivered
    PROVE  [Promise!DeliveryNext]_(Promise!deliveryVars)
<1>1. CASE ~Holds(w)
  BY <1>1, FatesKept DEF Mark
<1>2. CASE Holds(w)
  <2>1. PICK e \in Events : e = worker[w].event
    BY AboutToMark
  <2>2. event[e].status = "PROCESSING"
    BY <1>2, <2>1 DEF Holds
  <2>3. event'[e].status = status /\ \A f \in Events : f # e => event'[f] = event[f]
    BY <1>2, <2>1 DEF Mark, Inv, TypeOK, Unlocked, Row
  <2>4. CASE status = "PENDING"
    <3>1. \A f \in Events : Fate(event'[f].status) = Fate(event[f].status)
      BY <2>2, <2>3, <2>4 DEF Fate
    <3> QED
      BY <3>1, FatesKept
  <2>5. CASE status = "SUCCEEDED"
    <3>1. e \in delivered
      BY <2>1, <2>5 DEF Inv, LoopSound
    <3>2. Fate(event[e].status) = "queued" /\ Fate(event'[e].status) = "acknowledged"
      BY <2>2, <2>3, <2>5 DEF Fate
    <3>3. Promise!Acknowledge(e)
      BY <2>3, <3>1, <3>2, FateSet DEF Promise!Acknowledge
    <3> QED
      BY <3>3 DEF Promise!DeliveryNext
  <2>6. CASE status = "FAILED"
    <3>1. Fate(event[e].status) = "queued" /\ Fate(event'[e].status) = "given up"
      BY <2>2, <2>3, <2>6 DEF Fate
    <3>2. Promise!GiveUp(e)
      BY <2>3, <3>1, FateSet DEF Promise!GiveUp
    <3> QED
      BY <3>2 DEF Promise!DeliveryNext
  <2> QED
    BY <2>4, <2>5, <2>6
<1> QED
  BY <1>1, <1>2

\* The outbox keeps the promise of at-least-once delivery: every behaviour of
\* any number of workers is one of OutboxDelivery.
THEOREM DeliveryImplemented == Spec => ImplementsDelivery
<1>1. Init => Promise!DeliveryInit
  BY DEF Init, Promise!DeliveryInit, Fate
<1>2. ASSUME Inv, [Next]_vars
      PROVE  [Promise!DeliveryNext]_(Promise!deliveryVars)
  <2>1. event \in [Events -> Row]
    BY <1>2 DEF Inv, TypeOK
  <2>2. CASE Tick
    <3>1. \A e \in Events : event'[e].status = event[e].status
      BY <2>1, <2>2, LaterRow DEF Tick
    <3> QED
      BY <3>1, <2>2, FatesKept DEF Tick
  <2>3. ASSUME NEW e \in Events, Enqueue(e)
        PROVE  [Promise!DeliveryNext]_(Promise!deliveryVars)
    <3>1. /\ event[e].status = "NONE" /\ event'[e].status = "PENDING"
          /\ \A f \in Events : f # e => event'[f] = event[f]
          /\ delivered' = delivered
      BY <2>1, <2>3 DEF Enqueue, Row
    <3>2. Fate(event[e].status) = "absent" /\ Fate(event'[e].status) = "queued"
      BY <3>1 DEF Fate
    <3>3. Promise!Queue(e)
      BY <3>1, <3>2, FateSet DEF Promise!Queue
    <3> QED
      BY <3>3 DEF Promise!DeliveryNext
  <2>4. ASSUME NEW w \in Workers, Wake(w) \/ Restart(w) \/ Crash(w)
        PROVE  UNCHANGED Promise!deliveryVars
    BY <2>4, FatesKept DEF Wake, Restart, Crash
  <2>5. ASSUME NEW w \in Workers, MarkSucceeded(w) \/ MarkRetry(w) \/ MarkFailed(w)
        PROVE  [Promise!DeliveryNext]_(Promise!deliveryVars)
    BY <1>2, <2>5, MarkSettles, AboutToMark DEF MarkSucceeded, MarkRetry, MarkFailed
  <2>6. CASE UNCHANGED vars
    BY <2>6, FatesKept DEF vars
  <2> QED
    BY <2>2, <2>3, <2>4, <2>5, <2>6, <1>2, ClaimStutters, HandleDelivers DEF Next, Work
<1> QED
  BY <1>1, <1>2, AlwaysInv, PTL DEF Spec, ImplementsDelivery, Promise!Delivery
=============================================================================
