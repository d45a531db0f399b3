------------------------------ MODULE RateLimit ------------------------------
(***************************************************************************)
(* The three rate limiters: rateLimitMiddleware (middleware.ts) in front   *)
(* of every request, allowed (auth-routes.ts) in front of a login, once    *)
(* for the address and once for the account, and allow (public-intake.ts)  *)
(* in front of an assessment.  Each keeps a map from keys to a window and  *)
(* a count in the memory of the process, which a restart empties.          *)
(*                                                                         *)
(* Definitions that stand right before another and are used nowhere are    *)
(* the faulty variants the properties are tried against.                   *)
(***************************************************************************)
EXTENDS Integers, Sequences, FiniteSets

CONSTANTS
    Ips,          \* addresses of clients
    Emails,       \* accounts named in logins
    Window,       \* Window[l]: rateWindowMs, WINDOW_MS
    Max,          \* Max[l]: rateLimitMax, MAX_ATTEMPTS
    MaxClock,     \* bound on time
    MaxRequests,  \* bound on requests
    MaxRestarts   \* bound on restarts of the process

VARIABLES
    clock,
    bucket,    \* bucket[k]: the window of key k; a count of 0 is no entry
    parsing,   \* parsing[r]: requests r let in whose body is being read
    requests,  \* number of requests so far
    restarts,  \* number of restarts so far
    passed     \* passed[k]: the passes of key k since the last restart (history)

vars == <<clock, bucket, parsing, requests, restarts, passed>>

-----------------------------------------------------------------------------
Limiters == {"api", "login", "intake"}
\* The prefixes ip: and user: keep the two kinds of login keys apart.
Keys == ({"api", "intake"} \X Ips) \cup ({"login"} \X (Ips \cup Emails))
Logins == [ip : Ips, email : Emails]
Intakes == [ip : Ips]

ASSUME KeysAssumption == Ips \cap Emails = {}
ASSUME WindowAssumption == Window \in [Limiters -> Nat \ {0}]
ASSUME MaxAssumption == Max \in [Limiters -> Nat \ {0}]
ASSUME BoundsAssumption == MaxClock \in Nat /\ MaxRequests \in Nat /\ MaxRestarts \in Nat

Bucket == [opened : Nat, count : Nat]
Absent == [opened |-> 0, count |-> 0]
Pass == [at : Nat, opened : Nat]

TypeOK ==
    /\ clock \in 0 .. MaxClock
    /\ bucket \in [Keys -> Bucket]
    /\ \A k \in Keys : bucket[k].opened <= clock
    /\ parsing \in [Logins \cup Intakes -> Nat]
    /\ requests \in 0 .. MaxRequests
    /\ restarts \in 0 .. MaxRestarts
    /\ passed \in [Keys -> Seq(Pass)]

Init ==
    /\ clock = 0
    /\ bucket = [k \in Keys |-> Absent]
    /\ parsing = [r \in Logins \cup Intakes |-> 0]
    /\ requests = 0
    /\ restarts = 0
    /\ passed = [k \in Keys |-> <<>>]

-----------------------------------------------------------------------------
Tick ==
    /\ clock < MaxClock
    /\ clock' = clock + 1
    /\ UNCHANGED <<bucket, parsing, requests, restarts, passed>>

Over(k) == clock - bucket[k].opened >= Window[k[1]]
Counted(k) == IF bucket[k].count = 0 \/ Over(k) THEN [opened |-> clock, count |-> 1]
              ELSE [bucket[k] EXCEPT !.count = @ + 1]

PassesOnceMore(k) == Counted(k).count <= Max[k[1]] + 1
Passes(k) == Counted(k).count <= Max[k[1]]

\* A refused request counts too, but the window does not move.
CountSliding(keys, through) ==
    /\ bucket' = [k \in Keys |-> IF k \notin keys THEN bucket[k]
                                 ELSE IF k \in through THEN Counted(k)
                                 ELSE [opened |-> clock, count |-> Counted(k).count]]
    /\ passed' = [k \in Keys |->
          IF k \in through THEN Append(passed[k], [at |-> clock, opened |-> Counted(k).opened])
          ELSE passed[k]]
Count(keys, through) ==
    /\ bucket' = [k \in Keys |-> IF k \in keys THEN Counted(k) ELSE bucket[k]]
    /\ passed' = [k \in Keys |->
          IF k \in through THEN Append(passed[k], [at |-> clock, opened |-> Counted(k).opened])
          ELSE passed[k]]

\* Any request: whatever is let in goes on to its route, a login or an
\* assessment only after its body is read.
Request(ip) ==
    /\ requests < MaxRequests
    /\ requests' = requests + 1
    /\ LET k == <<"api", ip>>
       IN  IF Passes(k)
           THEN /\ Count({k}, {k})
                /\ \/ UNCHANGED parsing
                   \/ \E r \in Logins \cup Intakes :
                         r.ip = ip /\ parsing' = [parsing EXCEPT ![r] = @ + 1]
           ELSE Count({k}, {}) /\ UNCHANGED parsing
    /\ UNCHANGED <<clock, restarts>>

ReachUnadmitted(r) == parsing' = [parsing EXCEPT ![r] = @ - 1]
Reach(r) == parsing[r] > 0 /\ parsing' = [parsing EXCEPT ![r] = @ - 1]

\* The account is asked about only if the address passes.
Login(r) ==
    /\ Reach(r)
    /\ LET ip == <<"login", r.ip>>
           user == <<"login", r.email>>
       IN  IF ~Passes(ip) THEN Count({ip}, {})
           ELSE IF ~Passes(user) THEN Count({ip, user}, {ip})
           ELSE Count({ip, user}, {ip, user})
    /\ UNCHANGED <<clock, requests, restarts>>

\* Here a refused request does not count.
Intake(r) ==
    /\ Reach(r)
    /\ LET k == <<"intake", r.ip>>
       IN  IF Passes(k) THEN Count({k}, {k}) ELSE UNCHANGED <<bucket, passed>>
    /\ UNCHANGED <<clock, requests, restarts>>

\* A body that cannot be read, or a login that does not fit its schema.
Unreadable(r) ==
    /\ Reach(r)
    /\ UNCHANGED <<clock, bucket, requests, restarts, passed>>

Restart ==
    /\ restarts < MaxRestarts
    /\ restarts' = restarts + 1
    /\ bucket' = [k \in Keys |-> Absent]
    /\ parsing' = [r \in Logins \cup Intakes |-> 0]
    /\ passed' = [k \in Keys |-> <<>>]
    /\ UNCHANGED <<clock, requests>>

Next ==
    \/ Tick
    \/ \E ip \in Ips : Request(ip)
    \/ \E r \in Logins : Login(r)
    \/ \E r \in Intakes : Intake(r)
    \/ \E r \in Logins \cup Intakes : Unreadable(r)
    \/ Restart

Spec == Init /\ [][Next]_vars

-----------------------------------------------------------------------------
\* What the limits come to: in the life of one process, no stretch of time as
\* long as the window sees more than twice the maximum pass for a key.  (At the
\* turn of two windows it may see nearly that; the maximum alone holds only
\* within one of the fixed windows.)
BurstBounded ==
    \A k \in Keys : \A i, j \in DOMAIN passed[k] :
        j >= i + 2 * Max[k[1]] => passed[k][j].at > passed[k][i].at + Window[k[1]]

Recent(k) == {i \in DOMAIN passed[k] : passed[k][i].at > clock - Window[k[1]]}
\* Nobody is refused but for the use made of the key in the last window: a
\* limiter with no room has let the maximum pass in less than a window.  So a
\* client that keeps quiet for a window is let in, however often it was refused
\* before, and refusals by address are not held against the account.
RefusalsDeserved ==
    \A k \in Keys : ~Passes(k) => Cardinality(Recent(k)) >= Max[k[1]]
=============================================================================
