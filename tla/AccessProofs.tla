---------------------------- MODULE AccessProofs ----------------------------
(***************************************************************************)
(* Proofs about requests, sessions and rules, for any callers, accounts,   *)
(* routes, rules and life of sessions: the invariants of module Access and *)
(* that only admins change the rules.                                      *)
(***************************************************************************)
EXTENDS Access, SequenceTheorems, TLAPS

-----------------------------------------------------------------------------
(* Policy evaluation. *)

\* Whatever rule sorting brings to the front, and however rows that tie come
\* from the database, it decides as ADR-008 promises.
LEMMA DecisionIsPromised ==
    ASSUME NEW rules \in SUBSET RuleRow, NEW permission, NEW roles,
           NEW allow \in Decisions(rules, permission, roles)
    PROVE  allow = Promised(rules, permission, roles)
<1> DEFINE matched == Matching(rules, permission, PolicyRoles(roles))
<1>1. CASE matched = {}
  BY <1>1 DEF Decisions, Promised
<1>2. CASE matched # {}
  <2>1. PICK r \in First(matched) : allow = (r.effect = "ALLOW")
    BY <1>2 DEF Decisions
  <2>2. /\ \A q \in matched : q.priority \in Int /\ q.effect \in {"ALLOW", "DENY"}
        /\ r \in matched /\ \A q \in matched : ~Before(q, r)
    BY DEF Matching, First, RuleRow, Effects
  <2> HIDE DEF matched
  <2>3. r \in Highest(matched)
    BY <2>2 DEF Highest, Before
  <2>4. ASSUME r.effect = "ALLOW", NEW q \in Highest(matched)
        PROVE  q.effect = "ALLOW"
    BY <2>2, <2>3, <2>4 DEF Highest, Before
  <2>5. (r.effect = "ALLOW") = (\A q \in Highest(matched) : q.effect = "ALLOW")
    BY <2>3, <2>4
  <2> QED
    BY <1>2, <2>1, <2>5 DEF Promised, matched
<1> QED
  BY <1>1, <1>2

-----------------------------------------------------------------------------
(* The inductive invariant. *)

\* The history of the table ends with the table; rows were named by writes.
PastSound ==
    /\ Len(past) > 0
    /\ past[Len(past)] = table
    /\ \A r \in table : r.id <= serial

\* Where a request is tells what it has done and may do.
PlaceSound(h) ==
    /\ call[h].at # "idle"
    /\ call[h].number \in 1 .. asked
    /\ call[h].verified <= clock
    /\ call[h].since \in 1 .. Len(past)
    /\ call[h].number \in refused <=> call[h].at = "denying"
    /\ call[h].number \in wrote <=> call[h].at = "auditing"
    /\ call[h].at \in {"reading", "writing", "auditing"} /\ call[h].route.kind = "policyRule"
           => "admin" \in call[h].roles
    \* A row that was not there when it was read is an account closed for good.
    /\ call[h].at \in {"writing", "auditing"} /\ call[h].route.does = "delete" /\ ~call[h].found
           => /\ call[h].at = "writing" /\ call[h].route.kind = "user"
              /\ account[call[h].target].status = "gone"

\* h was judged by a table there was since it came in.
Judged(h) ==
    call[h].at # "evaluating" =>
        \E v \in call[h].since .. Len(past) :
            (call[h].at # "denying")
                = Promised(past[v], call[h].route.permission, call[h].roles)

\* An account was active with these roles, at the earliest until t.
WasOf(u, roles, t) ==
    LET was == [roles |-> roles, status |-> "ACTIVE"]
    IN  \/ account[u] = was
        \/ \E f \in former : f.user = u /\ f.standing = was /\ f.until >= t

\* The roles of h were the account's less than a session, and the time the login
\* took, before it came in.
Recently(h) ==
    LET was == [roles |-> call[h].roles, status |-> "ACTIVE"]
    IN  \/ account[call[h].actor] = was
        \/ \E f \in former : /\ f.user = call[h].actor
                             /\ f.standing = was
                             /\ f.until + call[h].took + Ttl > call[h].verified

CallSound(h) == call[h] # Idle => PlaceSound(h) /\ Judged(h) /\ Recently(h)

\* What a login has read, and what a token says, was true when it was read.
ReadSound(u) ==
    login[u] # NoRead => /\ login[u].at <= clock
                         /\ WasOf(u, login[u].roles, login[u].at)
TokenSound(u) ==
    session[u] # NoToken =>
        /\ session[u].issued <= clock
        /\ WasOf(u, session[u].roles, session[u].issued - session[u].took)

SessionsSound == \A u \in Users : ReadSound(u) /\ TokenSound(u)

NumbersTellApart ==
    \A g, h \in Callers : call[g] # Idle /\ call[h] # Idle /\ g # h
                          => call[g].number # call[h].number

Inv ==
    /\ TypeOK
    /\ PastSound
    /\ \A h \in Callers : CallSound(h)
    /\ SessionsSound
    /\ NumbersTellApart
    /\ AuditFaithful

LEMMA InitInv == Init => Inv
<1> SUFFICES ASSUME Init PROVE Inv
  OBVIOUS
<1>1. table \in SUBSET RuleRow /\ \A q, r \in table : r.id <= 0 /\ (q.id = r.id => q = r)
  BY InitialTablesAssumption DEF Init
<1>2. /\ past \in Seq(SUBSET RuleRow) /\ Len(past) = 1 /\ past[1] = table
  BY <1>1 DEF Init
<1>3. TypeOK
  BY <1>1, <1>2, MaxClockAssumption, MaxRequestsAssumption, StandingsAssumption
     DEF Init, TypeOK
<1>4. PastSound
  BY <1>1, <1>2 DEF Init, PastSound
<1> QED
  BY <1>3, <1>4 DEF Inv, Init, CallSound, SessionsSound, ReadSound, TokenSound,
                    NumbersTellApart, AuditFaithful

-----------------------------------------------------------------------------
(* What a step of one request leaves of the others. *)

\* Histories only grow, and what an account was is kept when it changes.
Grows ==
    /\ asked' >= asked /\ clock' >= clock
    /\ Len(past') >= Len(past)
    /\ \A v \in 1 .. Len(past) : past'[v] = past[v]
    /\ former \subseteq former'
    /\ \A u \in Users :
          \/ account'[u] = account[u]
          \/ /\ account[u].status # "gone"
             /\ [user |-> u, standing |-> account[u], until |-> clock] \in former'

LEMMA Numbers ==
    ASSUME TypeOK
    PROVE  /\ asked \in Nat /\ clock \in Nat /\ serial \in Nat /\ Len(past) \in Nat
           /\ Ttl \in Nat \ {0}
           /\ \A h \in Callers : call[h] # Idle => call[h] \in Call
           /\ \A c \in Call : /\ c.at \in Points /\ c.actor \in Users /\ c.target \in Users
                              /\ c.verified \in Nat /\ c.took \in Nat /\ c.since \in Nat
                              /\ c.number \in Nat
                              /\ c.roles \in SUBSET Roles /\ c.id \in Int /\ c.found \in BOOLEAN
  BY MaxClockAssumption, MaxRequestsAssumption, TtlAssumption DEF TypeOK, Call

LEMMA JudgedKept ==
    ASSUME Inv, TypeOK', Grows, NEW g \in Callers, call[g] # Idle,
           call[g].at # "evaluating",
           call'[g].at = "denying" <=> call[g].at = "denying",
           call'[g].since = call[g].since, call'[g].route = call[g].route,
           call'[g].roles = call[g].roles
    PROVE  Judged(g)'
<1>1. /\ PlaceSound(g) /\ Judged(g) /\ call[g].since \in Nat
      /\ Len(past) \in Nat /\ Len(past') \in Nat
  BY Numbers DEF Inv, CallSound, TypeOK
<1>2. PICK v \in call[g].since .. Len(past) :
          (call[g].at # "denying")
              = Promised(past[v], call[g].route.permission, call[g].roles)
  BY <1>1 DEF Judged
<1>3. v \in 1 .. Len(past) /\ v \in call[g].since .. Len(past')
  BY <1>1, <1>2 DEF PlaceSound, Grows
<1>4. past'[v] = past[v]
  BY <1>3 DEF Grows
<1>5. (call'[g].at # "denying") = (call[g].at # "denying")
  OBVIOUS
<1> QED
  BY <1>2, <1>3, <1>4, <1>5 DEF Judged

LEMMA RecentlyKept ==
    ASSUME Inv, TypeOK', Grows, NEW g \in Callers, call[g] # Idle,
           call'[g].actor = call[g].actor, call'[g].roles = call[g].roles,
           call'[g].verified = call[g].verified, call'[g].took = call[g].took
    PROVE  Recently(g)'
<1>1. /\ Recently(g) /\ call[g].verified <= clock
      /\ clock \in Nat /\ Ttl \in Nat \ {0}
      /\ call[g].actor \in Users /\ call[g].verified \in Nat /\ call[g].took \in Nat
  BY Numbers DEF Inv, CallSound, PlaceSound
<1>2. CASE account[call[g].actor] = [roles |-> call[g].roles, status |-> "ACTIVE"]
  <2>1. CASE account'[call[g].actor] = account[call[g].actor]
    BY <1>2, <2>1 DEF Recently
  <2>2. CASE [user |-> call[g].actor, standing |-> account[call[g].actor],
              until |-> clock] \in former'
    <3>1. clock + call[g].took + Ttl > call[g].verified
      BY <1>1
    <3> QED
      BY <1>2, <2>2, <3>1 DEF Recently
  <2> QED
    BY <2>1, <2>2, <1>1 DEF Grows
<1>3. CASE \E f \in former : /\ f.user = call[g].actor
                             /\ f.standing = [roles |-> call[g].roles, status |-> "ACTIVE"]
                             /\ f.until + call[g].took + Ttl > call[g].verified
  BY <1>3 DEF Recently, Grows
<1> QED
  BY <1>1, <1>2, <1>3 DEF Recently

\* A request that did not move is as sound as before, if what happened to the
\* histories of refusals and writes is not about it.
LEMMA OthersSound ==
    ASSUME Inv, TypeOK', Grows, NEW g \in Callers,
           call'[g] = call[g],
           call[g] # Idle => /\ call[g].number \in refused' <=> call[g].number \in refused
                             /\ call[g].number \in wrote' <=> call[g].number \in wrote
    PROVE  CallSound(g)'
<1> SUFFICES ASSUME call[g] # Idle
             PROVE  PlaceSound(g)' /\ Judged(g)' /\ Recently(g)'
  BY DEF CallSound
<1>1. /\ PlaceSound(g) /\ call[g] \in Call
      /\ asked \in Nat /\ asked' \in Nat /\ clock \in Nat /\ clock' \in Nat
      /\ Len(past) \in Nat /\ Len(past') \in Nat
      /\ call[g].target \in Users /\ call[g].verified \in Nat
  BY Numbers, MaxClockAssumption, MaxRequestsAssumption DEF Inv, CallSound, TypeOK
<1>2. PlaceSound(g)'
  <2>1. account[call[g].target].status = "gone" => account'[call[g].target] = account[call[g].target]
    BY <1>1 DEF Grows
  <2> QED
    BY <1>1, <2>1 DEF PlaceSound, Grows
<1>3. CASE call[g].at = "evaluating"
  BY <1>2, <1>3, RecentlyKept DEF Judged
<1>4. CASE call[g].at # "evaluating"
  BY <1>2, <1>4, RecentlyKept, JudgedKept
<1> QED
  BY <1>3, <1>4

LEMMA WasOfKept ==
    ASSUME Inv, Grows, NEW u \in Users, NEW roles, NEW t \in Int, t <= clock,
           WasOf(u, roles, t)
    PROVE  WasOf(u, roles, t)'
  BY DEF WasOf, Grows

LEMMA ReadKept ==
    ASSUME Inv, Grows, NEW u \in Users, login'[u] = login[u], clock' \in Nat
    PROVE  ReadSound(u)'
<1> SUFFICES ASSUME login[u] # NoRead
             PROVE  login[u].at <= clock' /\ WasOf(u, login[u].roles, login[u].at)'
  BY DEF ReadSound, WasOf
<1>1. /\ login[u].at <= clock /\ WasOf(u, login[u].roles, login[u].at)
      /\ login[u].at \in Nat /\ clock \in Nat
  BY Numbers DEF Inv, SessionsSound, ReadSound, TypeOK, Read
<1> QED
  BY <1>1, WasOfKept DEF Grows

LEMMA TokenKept ==
    ASSUME Inv, Grows, NEW u \in Users, session'[u] = session[u], clock' \in Nat
    PROVE  TokenSound(u)'
<1> SUFFICES ASSUME session[u] # NoToken
             PROVE  /\ session[u].issued <= clock'
                    /\ WasOf(u, session[u].roles, session[u].issued - session[u].took)'
  BY DEF TokenSound, WasOf
<1> DEFINE t == session[u].issued - session[u].took
<1>1. /\ session[u].issued <= clock /\ WasOf(u, session[u].roles, t)
      /\ session[u].issued \in Nat /\ session[u].took \in Nat /\ clock \in Nat
  BY Numbers DEF Inv, SessionsSound, TokenSound, TypeOK, Token
<1>2. t \in Int /\ t <= clock
  BY <1>1
<1>3. session'[u].roles = session[u].roles /\ t' = t
  OBVIOUS
<1>4. session[u].issued <= clock'
  BY <1>1 DEF Grows
<1> HIDE DEF t
<1>5. WasOf(u, session[u].roles, t)'
  BY <1>1, <1>2, <1>3 DEF WasOf, Grows
<1> QED
  BY <1>4, <1>5 DEF t

LEMMA SessionsKept ==
    ASSUME Inv, TypeOK', Grows, UNCHANGED <<login, session>>
    PROVE  SessionsSound'
<1>1. clock' \in Nat
  BY MaxClockAssumption DEF TypeOK
<1> QED
  BY <1>1, ReadKept, TokenKept DEF SessionsSound

\* What a step of request h has to show: it moves to c, and if that is not the
\* end of it, c is a sound place; what it adds to the log is true, and when it
\* ends, what it did is told or known to be lost.
LEMMA MoveInv ==
    ASSUME Inv, TypeOK', PastSound', Grows,
           NEW h \in Callers, call[h] # Idle,
           NEW c, call' = [call EXCEPT ![h] = c],
           UNCHANGED <<asked, login, session>>,
           refused' \in {refused, refused \cup {call[h].number}},
           wrote' \in {wrote, wrote \cup {call[h].number}},
           \A e \in log' : \/ e \in log
                           \/ e.number \in (IF e.result = "FAILURE" THEN refused' ELSE wrote'),
           log \subseteq log', silent \subseteq silent',
           c # Idle => /\ c.number = call[h].number /\ c.actor = call[h].actor
                       /\ c.roles = call[h].roles /\ c.verified = call[h].verified
                       /\ c.took = call[h].took
                       /\ PlaceSound(h)' /\ Judged(h)',
           c = Idle => /\ call[h].number \in refused'
                             => Event(call[h].number, "FAILURE") \in log' \cup silent'
                       /\ call[h].number \in wrote'
                             => Event(call[h].number, "SUCCESS") \in log' \cup silent'
    PROVE  Inv'
<1> DEFINE n == call[h].number
<1>1. /\ call'[h] = c
      /\ \A g \in Callers : g # h => call'[g] = call[g]
  BY DEF Inv, TypeOK
<1>2. \A g \in Callers : g # h /\ call[g] # Idle => call[g].number # n
  BY DEF Inv, NumbersTellApart
<1>3. \A g \in Callers : CallSound(g)'
  <2>1. ASSUME NEW g \in Callers, g # h PROVE CallSound(g)'
    BY <2>1, <1>1, <1>2, OthersSound
  <2>2. CallSound(h)'
    BY <1>1, RecentlyKept DEF CallSound
  <2> QED
    BY <2>1, <2>2
<1>4. NumbersTellApart'
  BY <1>1 DEF Inv, NumbersTellApart
<1>5. SessionsSound'
  BY SessionsKept
<1>6. AuditFaithful'
  <2>1. \A e \in log' : e.number \in (IF e.result = "FAILURE" THEN refused' ELSE wrote')
    BY DEF Inv, AuditFaithful
  <2>2. \A m \in refused' : \/ Event(m, "FAILURE") \in log' \cup silent'
                            \/ \E g \in Callers : call'[g] # Idle /\ call'[g].number = m
    <3> SUFFICES ASSUME NEW m \in refused'
                 PROVE  \/ Event(m, "FAILURE") \in log' \cup silent'
                        \/ \E g \in Callers : call'[g] # Idle /\ call'[g].number = m
      OBVIOUS
    <3>1. CASE m = n
      BY <3>1, <1>1
    <3>2. CASE m # n
      BY <3>2, <1>1 DEF Inv, AuditFaithful
    <3> QED
      BY <3>1, <3>2
  <2>3. \A m \in wrote' : \/ Event(m, "SUCCESS") \in log' \cup silent'
                          \/ \E g \in Callers : call'[g] # Idle /\ call'[g].number = m
    <3> SUFFICES ASSUME NEW m \in wrote'
                 PROVE  \/ Event(m, "SUCCESS") \in log' \cup silent'
                        \/ \E g \in Callers : call'[g] # Idle /\ call'[g].number = m
      OBVIOUS
    <3>1. CASE m = n
      BY <3>1, <1>1
    <3>2. CASE m # n
      BY <3>2, <1>1 DEF Inv, AuditFaithful
    <3> QED
      BY <3>1, <3>2
  <2> QED
    BY <2>1, <2>2, <2>3 DEF AuditFaithful
<1> QED
  BY <1>3, <1>4, <1>5, <1>6 DEF Inv

-----------------------------------------------------------------------------
(* Steps of no request, and arrivals. *)

LEMMA CallsKept ==
    ASSUME Inv, TypeOK', PastSound', Grows, SessionsSound',
           UNCHANGED <<call, refused, wrote, log, silent>>
    PROVE  Inv'
<1>1. \A g \in Callers : CallSound(g)'
  BY OthersSound
<1>2. NumbersTellApart' /\ AuditFaithful'
  BY DEF Inv, NumbersTellApart, AuditFaithful
<1> QED
  BY <1>1, <1>2 DEF Inv

LEMMA TickInv ==
    ASSUME Inv, Tick
    PROVE  Inv'
<1>1. clock \in Nat /\ clock' \in 0 .. MaxClock /\ clock' >= clock
  BY MaxClockAssumption DEF Inv, TypeOK, Tick
<1>2. TypeOK'
  BY <1>1 DEF Inv, TypeOK, Tick
<1>3. Grows
  BY <1>1, MaxRequestsAssumption DEF Inv, TypeOK, Tick, Grows
<1>4. PastSound'
  BY DEF Inv, PastSound, Tick
<1> QED
  BY <1>2, <1>3, <1>4, SessionsKept, CallsKept DEF Tick

LEMMA GrowsUnchanged ==
    ASSUME TypeOK, UNCHANGED <<asked, clock, past, former, account>>
    PROVE  Grows
  BY Numbers DEF Grows

\* What happens to the login and the session of u leaves all else as it was.
LEMMA SessionInv ==
    ASSUME Inv, NEW u \in Users,
           NEW read \in Read \cup {NoRead}, login' = [login EXCEPT ![u] = read],
           NEW token \in Token \cup {NoToken}, session' = [session EXCEPT ![u] = token],
           ReadSound(u)', TokenSound(u)',
           UNCHANGED <<clock, account, table, call, serial, past, former, refused, wrote, log,
                       silent, asked>>
    PROVE  Inv'
<1>1. TypeOK' /\ PastSound' /\ Grows
  BY GrowsUnchanged DEF Inv, TypeOK, PastSound
<1>2. ASSUME NEW v \in Users, v # u
      PROVE  ReadSound(v)' /\ TokenSound(v)'
  <2>1. login'[v] = login[v] /\ session'[v] = session[v] /\ clock' \in Nat
    BY <1>2, Numbers DEF Inv, TypeOK
  <2> QED
    BY <1>1, <2>1, ReadKept, TokenKept
<1>3. SessionsSound'
  BY <1>2 DEF SessionsSound
<1> QED
  BY <1>1, <1>3, CallsKept

LEMMA AuthenticateInv ==
    ASSUME Inv, NEW u \in Users, AuthenticateCredentials(u)
    PROVE  Inv'
<1> DEFINE read == [roles |-> account[u].roles, at |-> clock]
<1>1. /\ clock \in Nat /\ account[u] \in Standing /\ account[u].status = "ACTIVE"
      /\ account[u] = [roles |-> account[u].roles, status |-> account[u].status]
  BY Numbers DEF Inv, TypeOK, Standing, AuthenticateCredentials
<1>2. read \in Read /\ login' = [login EXCEPT ![u] = read]
  BY <1>1 DEF Read, Standing, AuthenticateCredentials
<1>3. ReadSound(u)'
  <2>1. login'[u] = read
    BY <1>2 DEF Inv, TypeOK
  <2> QED
    BY <1>1, <2>1 DEF ReadSound, WasOf, AuthenticateCredentials
<1>4. session[u] \in Token \cup {NoToken} /\ session' = [session EXCEPT ![u] = session[u]]
  BY DEF Inv, TypeOK, AuthenticateCredentials
<1>5. TokenSound(u)'
  BY <1>1, TokenKept, GrowsUnchanged DEF Inv, AuthenticateCredentials
<1> QED
  BY <1>2, <1>3, <1>4, <1>5, SessionInv DEF AuthenticateCredentials

\* The time the login took leads back from the signing to the read.
LEMMA IssueInv ==
    ASSUME Inv, NEW u \in Users, IssueSession(u)
    PROVE  Inv'
<1> DEFINE token == [roles |-> login[u].roles, issued |-> clock, took |-> clock - login[u].at]
<1>1. /\ clock \in Nat /\ login[u] \in Read /\ login[u].at \in Nat
      /\ login[u].at <= clock /\ WasOf(u, login[u].roles, login[u].at)
  BY Numbers DEF Inv, TypeOK, SessionsSound, ReadSound, IssueSession, Read
<1>2. token \in Token /\ session' = [session EXCEPT ![u] = token]
  BY <1>1 DEF Token, Read, IssueSession
<1>3. clock - (clock - login[u].at) = login[u].at
  BY <1>1
<1>4. TokenSound(u)'
  <2>1. session'[u] = token
    BY <1>2 DEF Inv, TypeOK
  <2> QED
    BY <1>1, <1>3, <2>1 DEF TokenSound, WasOf, IssueSession
<1>5. login' = [login EXCEPT ![u] = NoRead] /\ login'[u] = NoRead
  BY DEF Inv, TypeOK, IssueSession
<1> QED
  BY <1>2, <1>4, <1>5, SessionInv DEF ReadSound, IssueSession

LEMMA LogoutInv ==
    ASSUME Inv, NEW u \in Users, Logout(u)
    PROVE  Inv'
<1>1. login[u] \in Read \cup {NoRead} /\ login' = [login EXCEPT ![u] = login[u]]
  BY DEF Inv, TypeOK, Logout
<1>2. session' = [session EXCEPT ![u] = NoToken] /\ session'[u] = NoToken
  BY DEF Inv, TypeOK, Logout
<1>3. ReadSound(u)'
  BY ReadKept, GrowsUnchanged, Numbers DEF Inv, Logout
<1> QED
  BY <1>1, <1>2, <1>3, SessionInv DEF TokenSound, Logout

LEMMA ArriveInv ==
    ASSUME Inv, NEW h \in Callers, Arrive(h)
    PROVE  Inv'
<1>1. PICK u \in Users, route \in Asked :
          /\ Valid(session[u])
          /\ call' = [call EXCEPT ![h] =
                [at |-> "evaluating", actor |-> u, roles |-> session[u].roles,
                 verified |-> clock, took |-> session[u].took, route |-> route, id |-> 0,
                 target |-> u, found |-> FALSE, since |-> Len(past), number |-> asked + 1]]
  BY DEF Arrive
<1> DEFINE c == [at |-> "evaluating", actor |-> u, roles |-> session[u].roles,
                 verified |-> clock, took |-> session[u].took, route |-> route, id |-> 0,
                 target |-> u, found |-> FALSE, since |-> Len(past), number |-> asked + 1]
<1>2. /\ asked \in Nat /\ clock \in Nat /\ Len(past) \in Nat /\ Len(past) > 0
      /\ asked' = asked + 1 /\ asked + 1 \in 0 .. MaxRequests
      /\ UNCHANGED <<clock, account, login, session, table, serial, past, former, refused, wrote,
                     log, silent>>
      /\ call[h] = Idle
  BY Numbers, MaxRequestsAssumption DEF Inv, PastSound, TypeOK, Arrive
<1>3. session[u] \in Token /\ clock < session[u].issued + Ttl
  BY <1>1 DEF Valid, Inv, TypeOK
<1>4. /\ c \in Call /\ c.at = "evaluating" /\ c.number = asked + 1 /\ c.verified = clock
      /\ c.since = Len(past) /\ c.actor = u /\ c.roles = session[u].roles
      /\ c.took = session[u].took
  BY <1>2, <1>3, AskedAssumption DEF Call, Points, Token
<1>5. call'[h] = c /\ \A g \in Callers : g # h => call'[g] = call[g]
  BY <1>1 DEF Inv, TypeOK
<1> HIDE DEF c
<1>6. \A m \in 1 .. asked : m \in 1 .. asked' /\ m # asked + 1
  BY <1>2
<1>7. TypeOK'
  <2>1. call' \in [Callers -> Call \cup {Idle}]
    BY <1>1, <1>4 DEF Inv, TypeOK, c
  <2>2. refused \cup wrote \subseteq 1 .. asked'
    BY <1>6 DEF Inv, TypeOK
  <2>3. log \cup silent \subseteq [number : 1 .. asked', result : {"SUCCESS", "FAILURE"}]
    BY <1>6 DEF Inv, TypeOK
  <2> QED
    BY <1>2, <2>1, <2>2, <2>3 DEF Inv, TypeOK
<1>8. Grows
  BY <1>2 DEF Grows
<1>9. PastSound'
  BY <1>2 DEF Inv, PastSound
<1>10. asked + 1 \notin refused /\ asked + 1 \notin wrote
  BY <1>6 DEF Inv, TypeOK
<1>11. PlaceSound(h)'
  BY <1>2, <1>4, <1>5, <1>10 DEF PlaceSound
<1>12. Judged(h)'
  BY <1>4, <1>5 DEF Judged
<1>13. Recently(h)'
  <2>1. WasOf(u, session[u].roles, session[u].issued - session[u].took)
    BY <1>1 DEF Inv, SessionsSound, TokenSound, Valid
  <2>2. ASSUME NEW f \in former, f.until >= session[u].issued - session[u].took
        PROVE  f.until + session[u].took + Ttl > clock
    <3>1. /\ f.until \in Nat /\ session[u].issued \in Nat /\ session[u].took \in Nat
          /\ Ttl \in Nat
      BY <1>3, Numbers DEF Inv, TypeOK, Token
    <3> QED
      BY <1>2, <1>3, <2>2, <3>1
  <2> QED
    BY <1>2, <1>4, <1>5, <2>1, <2>2 DEF WasOf, Recently
<1>14. \A g \in Callers : CallSound(g)'
  BY <1>2, <1>5, <1>7, <1>8, <1>11, <1>12, <1>13, OthersSound DEF CallSound
<1>15. NumbersTellApart'
  <2>1. ASSUME NEW g \in Callers, g # h, call[g] # Idle
        PROVE  call[g].number # asked + 1
    BY <1>6, <2>1 DEF Inv, CallSound, PlaceSound
  <2> QED
    BY <1>4, <1>5, <2>1 DEF Inv, NumbersTellApart
<1>16. SessionsSound'
  BY <1>2, <1>7, <1>8, SessionsKept
<1>17. AuditFaithful'
  BY <1>2, <1>5 DEF Inv, AuditFaithful
<1> QED
  BY <1>7, <1>9, <1>14, <1>15, <1>16, <1>17 DEF Inv

-----------------------------------------------------------------------------
(* Steps of a request that change nothing but where it is. *)

LEMMA Active ==
    ASSUME Inv, NEW h \in Callers, call[h].at \in Points \ {"idle"}
    PROVE  /\ call[h] # Idle /\ call[h] \in Call
           /\ PlaceSound(h) /\ Judged(h) /\ Recently(h)
  BY DEF Inv, CallSound, TypeOK, Idle

LEMMA Moved ==
    ASSUME NEW c \in Call, NEW p \in Points \ {"idle"}
    PROVE  /\ [c EXCEPT !.at = p] \in Call /\ [c EXCEPT !.at = p] # Idle
           /\ [c EXCEPT !.at = p].at = p
           /\ [c EXCEPT !.at = p].actor = c.actor /\ [c EXCEPT !.at = p].roles = c.roles
           /\ [c EXCEPT !.at = p].took = c.took
           /\ [c EXCEPT !.at = p].verified = c.verified /\ [c EXCEPT !.at = p].route = c.route
           /\ [c EXCEPT !.at = p].target = c.target /\ [c EXCEPT !.at = p].found = c.found
           /\ [c EXCEPT !.at = p].since = c.since /\ [c EXCEPT !.at = p].number = c.number
<1>1. [c EXCEPT !.at = p].at = p /\ Idle.at = "idle"
  BY DEF Call, Idle
<1>2. [c EXCEPT !.at = p] \in Call
  BY DEF Call
<1> QED
  BY <1>1, <1>2 DEF Call

LEMMA QuietMove ==
    ASSUME Inv, NEW h \in Callers, call[h] # Idle,
           call[h].at \notin {"denying", "auditing"},
           NEW c \in Call \cup {Idle}, call' = [call EXCEPT ![h] = c],
           UNCHANGED <<clock, account, login, session, table, serial, past, former, refused, wrote,
                       log, silent, asked>>,
           c # Idle =>
               /\ c.number = call[h].number /\ c.actor = call[h].actor
               /\ c.roles = call[h].roles /\ c.verified = call[h].verified
               /\ c.took = call[h].took
               /\ c.since = call[h].since /\ c.route = call[h].route
               /\ c.at \in {"serving", "reading", "writing"}
               /\ c.at # "serving" /\ c.route.kind = "policyRule" => "admin" \in c.roles
               /\ c.at = "writing" /\ c.route.does = "delete" /\ ~c.found
                      => c.route.kind = "user" /\ account[c.target].status = "gone"
               /\ call[h].at = "evaluating" => Judged(h)'
    PROVE  Inv'
<1>1. TypeOK' /\ PastSound' /\ Grows
  BY GrowsUnchanged DEF Inv, TypeOK, PastSound
<1>2. call'[h] = c /\ PlaceSound(h)
  BY DEF Inv, TypeOK, CallSound
<1>3. c # Idle => PlaceSound(h)'
  BY <1>2 DEF PlaceSound
<1>4. c # Idle => Judged(h)'
  BY <1>1, <1>2, JudgedKept
<1>5. call[h].number \notin refused' /\ call[h].number \notin wrote'
  BY <1>2 DEF PlaceSound
<1> QED
  BY <1>1, <1>3, <1>4, <1>5, MoveInv

LEMMA EvaluateInv ==
    ASSUME Inv, NEW h \in Callers, Evaluate(h)
    PROVE  Inv'
<1>1. call[h].at = "evaluating"
  BY DEF Evaluate
<1>2. /\ call[h] # Idle /\ call[h] \in Call /\ PlaceSound(h)
      /\ UNCHANGED <<clock, account, login, session, table, serial, past, former, wrote, log, silent,
                     asked>>
  BY <1>1, Active DEF Evaluate, Points
<1>3. PICK allow \in Decisions(table, call[h].route.permission, call[h].roles) :
          IF allow THEN /\ IF Enter(call[h].route, call[h].roles) = "idle" THEN End(h)
                           ELSE Goto(h, Enter(call[h].route, call[h].roles))
                        /\ UNCHANGED refused
          ELSE Goto(h, "denying") /\ refused' = refused \cup {call[h].number}
  BY DEF Evaluate
<1>4. /\ allow = Promised(past[Len(past)], call[h].route.permission, call[h].roles)
      /\ allow \in BOOLEAN
      /\ Len(past) \in call[h].since .. Len(past)
  <2>1. past[Len(past)] = table /\ table \in SUBSET RuleRow
    BY DEF Inv, PastSound, TypeOK
  <2>2. allow = Promised(table, call[h].route.permission, call[h].roles)
    BY <2>1, DecisionIsPromised
  <2>3. allow \in BOOLEAN
    BY <2>2 DEF Promised, Authorize
  <2> QED
    BY <1>2, <2>1, <2>2, <2>3, Numbers DEF PlaceSound, Inv
<1>5. CASE allow
  <2>1. CASE Enter(call[h].route, call[h].roles) = "idle"
    BY <1>1, <1>2, <1>3, <1>5, <2>1, QuietMove DEF End
  <2>2. CASE Enter(call[h].route, call[h].roles) # "idle"
    <3> DEFINE p == Enter(call[h].route, call[h].roles)
               c == [call[h] EXCEPT !.at = p]
    <3>1. /\ p \in {"serving", "reading", "writing"}
          /\ p # "serving" /\ call[h].route.kind = "policyRule" => "admin" \in call[h].roles
          /\ p = "writing" => call[h].route.does = "create"
      BY <2>2 DEF Enter
    <3>2. call' = [call EXCEPT ![h] = c] /\ UNCHANGED refused
      BY <1>3, <1>5, <2>2 DEF Goto
    <3> HIDE DEF p
    <3>3. /\ c \in Call /\ c # Idle /\ c.at = p
          /\ c.actor = call[h].actor /\ c.roles = call[h].roles
          /\ c.verified = call[h].verified /\ c.took = call[h].took /\ c.route = call[h].route
          /\ c.since = call[h].since /\ c.number = call[h].number
      BY <1>2, <3>1, Moved DEF Points
    <3>4. call'[h] = c
      BY <3>2 DEF Inv, TypeOK
    <3> HIDE DEF c
    <3>5. Judged(h)'
      BY <1>2, <1>4, <1>5, <3>1, <3>3, <3>4 DEF Judged
    <3> QED
      BY <1>1, <1>2, <3>1, <3>2, <3>3, <3>5, QuietMove
  <2> QED
    BY <2>1, <2>2
<1>6. CASE ~allow
  <2> DEFINE c == [call[h] EXCEPT !.at = "denying"]
  <2>1. call' = [call EXCEPT ![h] = c] /\ refused' = refused \cup {call[h].number}
    BY <1>3, <1>6 DEF Goto
  <2>2. /\ c \in Call /\ c # Idle /\ c.at = "denying"
        /\ c.actor = call[h].actor /\ c.roles = call[h].roles
        /\ c.verified = call[h].verified /\ c.took = call[h].took /\ c.route = call[h].route
        /\ c.since = call[h].since /\ c.number = call[h].number
    BY <1>2, Moved DEF Points
  <2> HIDE DEF c
  <2>3. call'[h] = c
    BY <2>1 DEF Inv, TypeOK
  <2>4. TypeOK' /\ PastSound' /\ Grows
    <3>1. refused' \subseteq 1 .. asked
      BY <1>2, <2>1 DEF Inv, TypeOK, PlaceSound
    <3> QED
      BY <1>2, <2>1, <2>2, <3>1, GrowsUnchanged DEF Inv, TypeOK, PastSound
  <2>5. PlaceSound(h)'
    BY <1>1, <1>2, <2>1, <2>2, <2>3 DEF PlaceSound
  <2>6. Judged(h)'
    BY <1>2, <1>4, <1>6, <2>2, <2>3 DEF Judged
  <2> QED
    BY <1>2, <2>1, <2>2, <2>4, <2>5, <2>6, MoveInv
<1> QED
  BY <1>4, <1>5, <1>6

LEMMA ReadPreviousInv ==
    ASSUME Inv, NEW h \in Callers, ReadPrevious(h)
    PROVE  Inv'
<1>1. call[h].at = "reading"
  BY DEF ReadPrevious
<1>2. /\ call[h] # Idle /\ call[h] \in Call /\ PlaceSound(h)
      /\ UNCHANGED <<clock, account, login, session, table, serial, past, former, refused, wrote,
                     log, silent, asked>>
  BY <1>1, Active DEF ReadPrevious, Points
<1>3. CASE \E r \in table : call' = [call EXCEPT ![h].at = "writing", ![h].id = r.id,
                                                 ![h].found = TRUE]
  <2>1. PICK r \in table : call' = [call EXCEPT ![h].at = "writing", ![h].id = r.id,
                                                ![h].found = TRUE]
    BY <1>3
  <2> DEFINE c == [call[h] EXCEPT !.at = "writing", !.id = r.id, !.found = TRUE]
  <2>2. call' = [call EXCEPT ![h] = c]
    BY <2>1 DEF Inv, TypeOK
  <2>3. /\ c \in Call /\ c.at = "writing" /\ c.found = TRUE
        /\ c.actor = call[h].actor /\ c.roles = call[h].roles
        /\ c.verified = call[h].verified /\ c.took = call[h].took /\ c.route = call[h].route
        /\ c.since = call[h].since /\ c.number = call[h].number
    <3>1. r.id \in Int
      BY DEF Inv, TypeOK, RuleRow
    <3> QED
      BY <1>2, <3>1 DEF Call, Points
  <2> HIDE DEF c
  <2> QED
    BY <1>1, <1>2, <2>2, <2>3, QuietMove DEF PlaceSound
<1>4. CASE /\ call[h].route.kind = "user"
           /\ \E u \in Users : call' = [call EXCEPT ![h].at = "writing", ![h].target = u,
                                                    ![h].found = account[u].status # "gone"]
  <2>1. PICK u \in Users : call' = [call EXCEPT ![h].at = "writing", ![h].target = u,
                                                ![h].found = account[u].status # "gone"]
    BY <1>4
  <2> DEFINE found == account[u].status # "gone"
             c == [call[h] EXCEPT !.at = "writing", !.target = u, !.found = found]
  <2>2. call' = [call EXCEPT ![h] = c]
    BY <2>1 DEF Inv, TypeOK
  <2>3. found \in BOOLEAN
    OBVIOUS
  <2>4. ~found => account[u].status = "gone"
    OBVIOUS
  <2> HIDE DEF found
  <2>5. /\ c \in Call /\ c.at = "writing" /\ c.found = found /\ c.target = u
        /\ c.actor = call[h].actor /\ c.roles = call[h].roles
        /\ c.verified = call[h].verified /\ c.took = call[h].took /\ c.route = call[h].route
        /\ c.since = call[h].since /\ c.number = call[h].number
    BY <1>2, <2>3 DEF Call, Points
  <2> HIDE DEF c
  <2> QED
    BY <1>1, <1>2, <1>4, <2>2, <2>4, <2>5, QuietMove DEF PlaceSound
<1> QED
  BY <1>3, <1>4 DEF ReadPrevious

\* A request ends that was neither refused nor has written.
LEMMA EndInv ==
    ASSUME Inv, NEW h \in Callers,
           call[h].at \in {"evaluating", "serving", "reading", "writing"}, End(h),
           UNCHANGED <<clock, account, login, session, table, serial, past, former, refused, wrote,
                       log, silent, asked>>
    PROVE  Inv'
<1>1. call[h] # Idle
  BY Active DEF Points
<1> QED
  BY <1>1, QuietMove DEF End

\* A request ends that was refused or has written, and what it did is told, or
\* known to be lost.
LEMMA ToldInv ==
    ASSUME Inv, NEW h \in Callers, call[h].at \in {"denying", "auditing"}, End(h),
           UNCHANGED <<clock, account, login, session, table, serial, past, former, refused, wrote,
                       asked>>,
           LET e == Event(call[h].number, IF call[h].at = "denying" THEN "FAILURE" ELSE "SUCCESS")
           IN  \/ log' = log \cup {e} /\ silent' = silent
               \/ silent' = silent \cup {e} /\ log' = log
    PROVE  Inv'
<1> DEFINE n == call[h].number
           e == Event(n, IF call[h].at = "denying" THEN "FAILURE" ELSE "SUCCESS")
<1>1. call[h] # Idle /\ call[h] \in Call /\ PlaceSound(h)
  BY Active DEF Points
<1>2. /\ n \in 1 .. asked
      /\ n \in refused <=> call[h].at = "denying"
      /\ n \in wrote <=> call[h].at = "auditing"
  BY <1>1 DEF PlaceSound
<1>3. e.number = n /\ e.result = (IF call[h].at = "denying" THEN "FAILURE" ELSE "SUCCESS")
  BY DEF Event
<1>4. /\ log' \cup silent' = log \cup silent \cup {e}
      /\ log' \subseteq log \cup {e} /\ log \subseteq log' /\ silent \subseteq silent'
  OBVIOUS
<1>5. e \in [number : 1 .. asked, result : {"SUCCESS", "FAILURE"}]
  BY <1>2 DEF Event
<1> HIDE DEF e
<1>6. TypeOK' /\ PastSound' /\ Grows
  <2>1. log' \cup silent' \subseteq [number : 1 .. asked, result : {"SUCCESS", "FAILURE"}]
    BY <1>4, <1>5 DEF Inv, TypeOK
  <2>2. call' \in [Callers -> Call \cup {Idle}]
    BY DEF Inv, TypeOK, End
  <2> QED
    BY <2>1, <2>2, GrowsUnchanged DEF Inv, TypeOK, PastSound
<1>7. \A x \in log' : \/ x \in log
                      \/ x.number \in (IF x.result = "FAILURE" THEN refused' ELSE wrote')
  BY <1>2, <1>3, <1>4
<1>8. /\ n \in refused' => Event(n, "FAILURE") \in log' \cup silent'
      /\ n \in wrote' => Event(n, "SUCCESS") \in log' \cup silent'
  BY <1>2, <1>4 DEF e
<1> QED
  BY <1>1, <1>4, <1>6, <1>7, <1>8, MoveInv DEF End

LEMMA LoseInv ==
    ASSUME Inv, NEW h \in Callers, Lose(h)
    PROVE  Inv'
<1>1. call[h] # Idle /\ call[h] \in Call /\ PlaceSound(h)
  BY DEF Lose, Inv, TypeOK, CallSound
<1>2. call[h].at \in Points \ {"idle"}
  BY <1>1 DEF PlaceSound, Call
<1>3. CASE call[h].at \in {"denying", "auditing"}
  <2>1. silent' = silent \cup
            {Event(call[h].number, IF call[h].at = "denying" THEN "FAILURE" ELSE "SUCCESS")}
    BY <1>3 DEF Lose
  <2> QED
    BY <1>3, <2>1, ToldInv DEF Lose
<1>4. CASE call[h].at \in {"evaluating", "serving", "reading", "writing"}
  <2>1. silent' = silent
    BY <1>4 DEF Lose
  <2> QED
    BY <1>4, <2>1, EndInv DEF Lose
<1> QED
  BY <1>2, <1>3, <1>4 DEF Points

LEMMA AuditInv ==
    ASSUME Inv, NEW h \in Callers, Audit(h)
    PROVE  Inv'
<1>1. call[h].at = "auditing" /\ PlaceSound(h)
  BY Active DEF Audit, Points
<1>2. ~(call[h].route.does = "delete" /\ ~call[h].found)
  BY <1>1 DEF PlaceSound
<1> QED
  BY <1>1, <1>2, ToldInv DEF Audit, Emit

LEMMA DenyInv ==
    ASSUME Inv, NEW h \in Callers, Deny(h)
    PROVE  Inv'
  BY ToldInv DEF Deny, Emit

-----------------------------------------------------------------------------
(* Steps that write. *)

LEMMA RuleWrittenInv ==
    ASSUME Inv, NEW h \in Callers,
           call[h].at = "writing", call[h].route.kind = "policyRule",
           NEW rows \in SUBSET RuleRow,
           \A q, r \in rows : q.id = r.id => q = r,
           \A r \in rows : r.id <= serial + 1,
           RuleWritten(h, rows),
           UNCHANGED <<clock, account, login, session, former, refused, log, silent, asked>>
    PROVE  Inv'
<1> DEFINE c == [call[h] EXCEPT !.at = "auditing"]
<1>1. /\ call[h] # Idle /\ call[h] \in Call /\ PlaceSound(h)
  BY Active DEF Points
<1>2. /\ table' = rows /\ past' = Append(past, rows) /\ serial' = serial + 1
      /\ wrote' = wrote \cup {call[h].number} /\ call' = [call EXCEPT ![h] = c]
  BY DEF RuleWritten, Wrote, Goto
<1>3. /\ c \in Call /\ c # Idle /\ c.at = "auditing"
      /\ c.actor = call[h].actor /\ c.roles = call[h].roles
      /\ c.verified = call[h].verified /\ c.took = call[h].took /\ c.route = call[h].route
      /\ c.target = call[h].target /\ c.found = call[h].found
      /\ c.since = call[h].since /\ c.number = call[h].number
  BY <1>1, Moved DEF Points
<1> HIDE DEF c
<1>4. /\ past \in Seq(SUBSET RuleRow) /\ Len(past) \in Nat
      /\ past' \in Seq(SUBSET RuleRow) /\ Len(past') = Len(past) + 1
      /\ past'[Len(past')] = rows
      /\ \A v \in 1 .. Len(past) : past'[v] = past[v]
  <2>1. past \in Seq(SUBSET RuleRow) /\ rows \in SUBSET RuleRow
    BY DEF Inv, TypeOK
  <2> QED
    BY <1>2, <2>1, AppendProperties
<1>5. TypeOK'
  <2>1. wrote' \subseteq 1 .. asked
    BY <1>1, <1>2 DEF Inv, TypeOK, PlaceSound
  <2>2. call' \in [Callers -> Call \cup {Idle}]
    BY <1>2, <1>3 DEF Inv, TypeOK
  <2>3. serial' \in Nat
    BY <1>2 DEF Inv, TypeOK
  <2> QED
    BY <1>2, <1>4, <2>1, <2>2, <2>3 DEF Inv, TypeOK
<1>6. PastSound'
  BY <1>2, <1>4 DEF PastSound
<1>7. Grows
  BY <1>4, Numbers DEF Inv, Grows
<1>8. call'[h] = c
  BY <1>2 DEF Inv, TypeOK
<1>9. PlaceSound(h)'
  <2>1. call[h].since \in 1 .. Len(past')
    BY <1>1, <1>4 DEF PlaceSound
  <2> QED
    BY <1>1, <1>2, <1>3, <1>8, <2>1 DEF PlaceSound
<1>10. Judged(h)'
  BY <1>1, <1>3, <1>5, <1>7, <1>8, JudgedKept
<1> QED
  BY <1>1, <1>2, <1>3, <1>5, <1>6, <1>7, <1>9, <1>10, MoveInv

LEMMA RowTyped ==
    ASSUME NEW input \in Rule, NEW id \in Int, NEW at \in Nat
    PROVE  Row(id, input, at) \in RuleRow /\ Row(id, input, at).id = id
  BY DEF Rule, RuleRow, Row

LEMMA MergedTyped ==
    ASSUME TypeOK, NEW input \in Rule, NEW given \in SUBSET RuleFields, NEW r \in RuleRow
    PROVE  Merged(r, input, given) \in RuleRow /\ Merged(r, input, given).id = r.id
<1>1. serial + 1 \in Nat
  BY DEF TypeOK
<1> QED
  BY <1>1 DEF Rule, RuleRow, Merged

LEMMA CreateRuleInv ==
    ASSUME Inv, NEW h \in Callers, CreateRule(h)
    PROVE  Inv'
<1>1. PICK input \in RuleInputs : RuleWritten(h, table \cup {Row(serial + 1, input, serial + 1)})
  BY DEF CreateRule
<1> DEFINE row == Row(serial + 1, input, serial + 1)
           rows == table \cup {row}
<1>2. serial + 1 \in Nat /\ serial + 1 \in Int /\ serial \in Nat /\ table \in SUBSET RuleRow
  BY DEF Inv, TypeOK
<1>3. row \in RuleRow /\ row.id = serial + 1
  BY <1>2, RowTyped, RuleInputsAssumption
<1> HIDE DEF row
<1>4. \A r \in table : r.id <= serial /\ r.id \in Int
  BY <1>2 DEF Inv, PastSound, RuleRow
<1>5. /\ rows \in SUBSET RuleRow
      /\ \A r \in rows : r.id <= serial + 1
      /\ \A r \in table : r.id # row.id
  BY <1>2, <1>3, <1>4
<1>6. \A q, r \in rows : q.id = r.id => q = r
  BY <1>5 DEF Inv, TypeOK
<1> QED
  BY <1>1, <1>5, <1>6, RuleWrittenInv DEF CreateRule, row

LEMMA UpdateRuleInv ==
    ASSUME Inv, NEW h \in Callers, UpdateRule(h)
    PROVE  Inv'
<1>1. CASE RowsOf(h) = {} /\ NotWritten(h)
  BY <1>1, EndInv DEF UpdateRule, NotWritten
<1>2. ASSUME NEW input \in RuleInputs, NEW given \in Given,
             RuleWritten(h, (table \ RowsOf(h)) \cup {Merged(r, input, given) : r \in RowsOf(h)})
      PROVE  Inv'
  <2> DEFINE rows == (table \ RowsOf(h)) \cup {Merged(r, input, given) : r \in RowsOf(h)}
  <2>1. /\ TypeOK /\ table \in SUBSET RuleRow /\ RowsOf(h) \subseteq table /\ serial \in Nat
        /\ \A r \in RowsOf(h) : r.id = call[h].id
        /\ \A r \in table \ RowsOf(h) : r.id # call[h].id
        /\ \A q, r \in table : q.id = r.id => q = r
    BY DEF Inv, TypeOK, RowsOf
  <2>2. \A r \in table : /\ Merged(r, input, given) \in RuleRow
                         /\ Merged(r, input, given).id = r.id
    BY <2>1, MergedTyped, RuleInputsAssumption, GivenAssumption
  <2>3. \A r \in table : r.id <= serial + 1
    BY <2>1 DEF Inv, PastSound, RuleRow
  <2>4. rows \in SUBSET RuleRow /\ \A r \in rows : r.id <= serial + 1
    BY <2>1, <2>2, <2>3
  <2>5. \A q, r \in rows : q.id = r.id => q = r
    BY <2>1, <2>2
  <2> QED
    BY <1>2, <2>4, <2>5, RuleWrittenInv DEF UpdateRule
<1> QED
  BY <1>1, <1>2 DEF UpdateRule

LEMMA DeleteRuleInv ==
    ASSUME Inv, NEW h \in Callers, DeleteRule(h)
    PROVE  Inv'
<1>1. CASE RowsOf(h) = {} /\ NotWritten(h)
  BY <1>1, EndInv DEF DeleteRule, NotWritten
<1>2. CASE RuleWritten(h, table \ RowsOf(h))
  <2> DEFINE rows == table \ RowsOf(h)
  <2>1. rows \in SUBSET RuleRow /\ \A q, r \in rows : q.id = r.id => q = r
    BY DEF Inv, TypeOK
  <2>2. \A r \in rows : r.id <= serial + 1
    BY DEF Inv, TypeOK, PastSound, RuleRow
  <2> QED
    BY <1>2, <2>1, <2>2, RuleWrittenInv DEF DeleteRule
<1> QED
  BY <1>1, <1>2 DEF DeleteRule

LEMMA UserWrittenInv ==
    ASSUME Inv, NEW h \in Callers,
           call[h].at = "writing", call[h].route.kind = "user",
           account[call[h].target].status # "gone",
           NEW standing \in Standing, UserWritten(h, standing),
           UNCHANGED <<clock, login, session, table, past, refused, log, silent, asked>>
    PROVE  Inv'
<1> DEFINE c == [call[h] EXCEPT !.at = "auditing"]
           u == call[h].target
<1>1. /\ call[h] # Idle /\ call[h] \in Call /\ PlaceSound(h) /\ u \in Users
  BY Active, Numbers DEF Points, Inv
<1>2. /\ account' = [account EXCEPT ![u] = standing]
      /\ former' = former \cup {[user |-> u, standing |-> account[u], until |-> clock]}
      /\ serial' = serial + 1
      /\ wrote' = wrote \cup {call[h].number} /\ call' = [call EXCEPT ![h] = c]
  BY DEF UserWritten, Wrote, Goto
<1>3. /\ c \in Call /\ c # Idle /\ c.at = "auditing"
      /\ c.actor = call[h].actor /\ c.roles = call[h].roles
      /\ c.verified = call[h].verified /\ c.took = call[h].took /\ c.route = call[h].route
      /\ c.target = call[h].target /\ c.found = call[h].found
      /\ c.since = call[h].since /\ c.number = call[h].number
  BY <1>1, Moved DEF Points
<1> HIDE DEF c, u
<1>4. TypeOK'
  <2>1. wrote' \subseteq 1 .. asked
    BY <1>1, <1>2 DEF Inv, TypeOK, PlaceSound
  <2>2. call' \in [Callers -> Call \cup {Idle}]
    BY <1>2, <1>3 DEF Inv, TypeOK
  <2>3. serial' \in Nat
    BY <1>2 DEF Inv, TypeOK
  <2>4. account' \in [Users -> Standing]
    BY <1>1, <1>2 DEF Inv, TypeOK
  <2>5. former' \subseteq [user : Users, standing : Standing, until : Nat]
    BY <1>1, <1>2, Numbers DEF Inv, TypeOK
  <2> QED
    BY <2>1, <2>2, <2>3, <2>4, <2>5 DEF Inv, TypeOK
<1>5. PastSound'
  BY <1>2 DEF Inv, PastSound, TypeOK, RuleRow
<1>6. Grows
  <2>1. \A v \in Users : v # u => account'[v] = account[v]
    BY <1>2 DEF Inv, TypeOK
  <2> QED
    BY <1>2, <2>1, Numbers DEF Inv, Grows, u
<1>7. call'[h] = c
  BY <1>2 DEF Inv, TypeOK
<1>8. PlaceSound(h)'
  BY <1>1, <1>2, <1>3, <1>7 DEF PlaceSound
<1>9. Judged(h)'
  BY <1>1, <1>3, <1>4, <1>6, <1>7, JudgedKept
<1> QED
  BY <1>1, <1>2, <1>3, <1>4, <1>5, <1>6, <1>8, <1>9, MoveInv

LEMMA ChangeUserInv ==
    ASSUME Inv, NEW h \in Callers, ChangeUser(h)
    PROVE  Inv'
<1>1. CASE account[call[h].target].status = "gone"
  BY <1>1, EndInv DEF ChangeUser
<1>2. CASE account[call[h].target].status # "gone"
  <2>1. Gone \in Standing /\ Standings \subseteq Standing
    BY StandingsAssumption DEF Gone, Standing
  <2>2. PICK standing \in Standing : UserWritten(h, standing)
    BY <1>2, <2>1 DEF ChangeUser
  <2> QED
    BY <1>2, <2>2, UserWrittenInv DEF ChangeUser
<1> QED
  BY <1>1, <1>2

-----------------------------------------------------------------------------
(* The theorems. *)

LEMMA NextInv == Inv /\ [Next]_vars => Inv'
<1> SUFFICES ASSUME Inv, [Next]_vars
             PROVE  Inv'
  OBVIOUS
<1>1. CASE Tick
  BY <1>1, TickInv
<1>2. CASE \E u \in Users : AuthenticateCredentials(u) \/ IssueSession(u) \/ Logout(u)
  BY <1>2, AuthenticateInv, IssueInv, LogoutInv
<1>3. ASSUME NEW h \in Callers,
             \/ Arrive(h) \/ Evaluate(h) \/ Deny(h) \/ Serve(h)
             \/ ReadPrevious(h) \/ ReadNothing(h)
             \/ CreateRule(h) \/ UpdateRule(h) \/ DeleteRule(h) \/ ChangeUser(h)
             \/ Audit(h) \/ Lose(h)
      PROVE  Inv'
  <2>1. CASE Serve(h) \/ ReadNothing(h)
    BY <2>1, EndInv DEF Serve, ReadNothing
  <2> QED
    BY <1>3, <2>1, ArriveInv, EvaluateInv, DenyInv, ReadPreviousInv, CreateRuleInv,
       UpdateRuleInv, DeleteRuleInv, ChangeUserInv, AuditInv, LoseInv
<1>4. CASE UNCHANGED vars
  <2>1. TypeOK' /\ PastSound' /\ Grows
    BY <1>4, GrowsUnchanged DEF vars, Inv, TypeOK, PastSound
  <2> QED
    BY <1>4, <2>1, SessionsKept, CallsKept DEF vars
<1> QED
  BY <1>1, <1>2, <1>3, <1>4 DEF Next

LEMMA AlwaysInv == Spec => []Inv
  BY InitInv, NextInv, PTL DEF Spec

\* Sessions, accounts, rules, requests and the histories are well formed; in
\* particular no two rules have the same id.
THEOREM TypeCorrect == Spec => []TypeOK
<1>1. Inv => TypeOK
  BY DEF Inv
<1> QED
  BY <1>1, AlwaysInv, PTL

\* Whatever rules there are, and however they change while requests are under
\* way, requireAuth decides as ADR-008 promises, by one table there has been
\* since the request came in.
THEOREM DecisionsAsPromised == Spec => []DecisionsFollowRules
<1>1. Inv => DecisionsFollowRules
  BY DEF Inv, CallSound, Judged, DecisionsFollowRules
<1> QED
  BY <1>1, AlwaysInv, PTL

\* No request acts with roles its account had lost a session's life, and the
\* time its login took from reading the account to signing, before.
THEOREM RolesAreRecent == Spec => []RolesHeldRecently
<1>1. Inv => RolesHeldRecently
  BY DEF Inv, CallSound, Recently, RolesHeldRecently
<1> QED
  BY <1>1, AlwaysInv, PTL

\* Refusals and writes are told by the audit log or known to be lost.
THEOREM AuditIsFaithful == Spec => []AuditFaithful
<1>1. Inv => AuditFaithful
  BY DEF Inv
<1> QED
  BY <1>1, AlwaysInv, PTL

\* The rules change only in a step of a request of an admin, whatever rules
\* were in force when it was let in.
THEOREM AdminsKeep == Spec => AdminsKeepTheRules
<1> DEFINE ByAdmin == \E h \in Callers : /\ call[h] # Idle /\ "admin" \in call[h].roles
                                         /\ call'[h] # call[h]
<1>1. ASSUME Inv, [Next]_vars, table' # table
      PROVE  ByAdmin
  <2>1. ASSUME NEW h \in Callers,
               call[h].at = "writing", call[h].route.kind = "policyRule",
               Goto(h, "auditing")
        PROVE  ByAdmin
    <3>1. call[h] # Idle /\ call[h] \in Call /\ PlaceSound(h)
      BY <2>1, <1>1, Active DEF Points
    <3>2. [call[h] EXCEPT !.at = "auditing"].at = "auditing"
      BY <3>1, Moved DEF Points
    <3>3. call'[h] # call[h]
      BY <2>1, <3>2, <1>1 DEF Goto, Inv, TypeOK
    <3> QED
      BY <2>1, <3>1, <3>3 DEF PlaceSound
  <2>2. \E h \in Callers : CreateRule(h) \/ UpdateRule(h) \/ DeleteRule(h)
    BY <1>1 DEF Next, vars, Tick, AuthenticateCredentials, IssueSession, Logout, Arrive, Evaluate,
                Deny, Serve, ReadPrevious, ReadNothing, ChangeUser, Audit, Lose
  <2>3. PICK h \in Callers : CreateRule(h) \/ UpdateRule(h) \/ DeleteRule(h)
    BY <2>2
  <2>4. call[h].at = "writing" /\ call[h].route.kind = "policyRule" /\ Goto(h, "auditing")
    BY <2>3, <1>1 DEF CreateRule, UpdateRule, DeleteRule, RuleWritten, NotWritten
  <2> QED
    BY <2>1, <2>4
<1>2. Inv /\ [Next]_vars => [table' # table => ByAdmin]_vars
  BY <1>1
<1> QED
  BY <1>2, AlwaysInv, PTL DEF Spec, AdminsKeepTheRules
=============================================================================
