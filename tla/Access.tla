------------------------------- MODULE Access -------------------------------
(***************************************************************************)
(* What stands between a request and the facades: the session              *)
(* (auth-routes.ts, production-auth.ts, authMiddleware), the decision of   *)
(* requireAuth (routes.ts), and the two facades whose writes change later  *)
(* decisions, PolicyRuleFacade and UserFacade (service-layer.ts).          *)
(*                                                                         *)
(* A session is a signed token that holds the roles the account had when   *)
(* the login read it; nothing of it is stored on the server.  Each await   *)
(* of a login or a request is a step: other requests change rules and      *)
(* accounts, and time passes, in between.                                  *)
(*                                                                         *)
(* Definitions that stand right before another and are used nowhere are    *)
(* the faulty variants the properties are tried against.                   *)
(***************************************************************************)
EXTENDS Policy, Sequences

CONSTANTS
    Callers,      \* requests in flight
    Users,        \* accounts
    Standings,    \* what an account may be set to
    RuleInputs,   \* what a rule may be set to
    Given,        \* the sets of fields an update may give
    Asked,        \* the routes requests are made to
    Ttl,          \* SESSION_TTL_SECONDS
    MaxClock,     \* bound on time
    MaxRequests,  \* bound on requests
    InitialTables \* the rules there may be at first

VARIABLES
    clock,
    account,  \* account[u]: roles and status of the row of u
    login,    \* login[u]: what the login under way for u has read
    session,  \* session[u]: the token the browser of u holds
    table,    \* the rows of PolicyRule
    call,     \* call[h]: where h is and what it has read
    serial,   \* number of the last write; names new rows and dates updates
    past,     \* the tables there have been, in order (history)
    former,   \* what accounts were and until when (history)
    refused,  \* requests requireAuth refused (history)
    wrote,    \* requests that changed a row (history)
    log,      \* requests the audit log tells of, with the result
    silent,   \* requests whose event could not be recorded (history)
    asked     \* number of requests so far; a request is known by its number

vars == <<clock, account, login, session, table, call, serial, past, former, refused, wrote, log,
          silent, asked>>

-----------------------------------------------------------------------------
RuleFields == {"resource", "action", "role", "effect", "priority", "enabled"}
Rule == [resource : STRING, action : STRING, role : STRING, effect : Effects,
         priority : Int, enabled : BOOLEAN]
RuleRow == [id : Int, resource : STRING, action : STRING, role : STRING, effect : Effects,
            priority : Int, enabled : BOOLEAN, updatedAt : Nat]
Standing == [roles : SUBSET Roles, status : {"ACTIVE", "INACTIVE", "gone"}]
Gone == [roles |-> {}, status |-> "gone"]
\* The roles of the row a login read, and when it read them (history).
Read == [roles : SUBSET Roles, at : Nat]
NoRead == [roles |-> {}, at |-> -1]
\* iat, and how long the login took from its read to iat (history).
Token == [roles : SUBSET Roles, issued : Nat, took : Nat]
NoToken == [roles |-> {}, issued |-> -1, took |-> 0]

ASSUME StandingsAssumption ==
    /\ Standings \subseteq Standing
    /\ \A s \in Standings : s.status # "gone"
ASSUME RuleInputsAssumption == RuleInputs \subseteq Rule
ASSUME GivenAssumption == \A g \in Given : g \subseteq RuleFields
ASSUME AskedAssumption == Asked \subseteq Routes
ASSUME TtlAssumption == Ttl \in Nat \ {0}
ASSUME MaxClockAssumption == MaxClock \in Nat
ASSUME MaxRequestsAssumption == MaxRequests \in Nat
ASSUME InitialTablesAssumption ==
    \A t \in InitialTables :
        /\ t \subseteq RuleRow
        /\ \A q, r \in t : r.id <= 0 /\ (q.id = r.id => q = r)

Points == {"idle", "evaluating", "denying", "serving", "reading", "writing", "auditing"}
Call == [at : Points, actor : Users, roles : SUBSET Roles, verified : Nat, took : Nat,
         route : Routes, id : Int, target : Users, found : BOOLEAN, since : Nat, number : Nat]
Idle == [at |-> "idle"]

Event(number, result) == [number |-> number, result |-> result]

TypeOK ==
    /\ clock \in 0 .. MaxClock
    /\ account \in [Users -> Standing]
    /\ login \in [Users -> Read \cup {NoRead}]
    /\ session \in [Users -> Token \cup {NoToken}]
    /\ table \subseteq RuleRow
    /\ \A q, r \in table : q.id = r.id => q = r
    /\ call \in [Callers -> Call \cup {Idle}]
    /\ serial \in Nat
    /\ past \in Seq(SUBSET RuleRow)
    /\ former \subseteq [user : Users, standing : Standing, until : Nat]
    /\ asked \in 0 .. MaxRequests
    /\ refused \cup wrote \subseteq 1 .. asked
    /\ log \cup silent \subseteq [number : 1 .. asked, result : {"SUCCESS", "FAILURE"}]

Init ==
    /\ clock = 0
    /\ account \in [Users -> {s \in Standings : s.status = "ACTIVE"}]
    /\ login = [u \in Users |-> NoRead]
    /\ session = [u \in Users |-> NoToken]
    /\ table \in InitialTables
    /\ call = [h \in Callers |-> Idle]
    /\ serial = 0
    /\ past = <<table>>
    /\ former = {}
    /\ refused = {} /\ wrote = {}
    /\ log = {} /\ silent = {}
    /\ asked = 0

-----------------------------------------------------------------------------
Tick ==
    /\ clock < MaxClock
    /\ clock' = clock + 1
    /\ UNCHANGED <<account, login, session, table, call, serial, past, former, refused, wrote, log,
                   silent, asked>>

\* authenticateCredentials: the row is read, and the login goes on if it is of
\* an active account whose password was given.  A login that was lost or given
\* up is started over.
AuthenticateCredentials(u) ==
    /\ account[u].status = "ACTIVE"
    /\ login' = [login EXCEPT ![u] = [roles |-> account[u].roles, at |-> clock]]
    /\ UNCHANGED <<clock, account, session, table, call, serial, past, former, refused, wrote,
                   log, silent, asked>>

\* issueSession, when the answer to the read has arrived: the account may have
\* changed since.  The cookie is set even if the audit event then fails.
IssueSession(u) ==
    /\ login[u] # NoRead
    /\ session' = [session EXCEPT ![u] = [roles |-> login[u].roles, issued |-> clock,
                                          took |-> clock - login[u].at]]
    /\ login' = [login EXCEPT ![u] = NoRead]
    /\ UNCHANGED <<clock, account, table, call, serial, past, former, refused, wrote, log,
                   silent, asked>>

\* The cookie is cleared; requests under way go on.
Logout(u) ==
    /\ session[u] # NoToken
    /\ session' = [session EXCEPT ![u] = NoToken]
    /\ UNCHANGED <<clock, account, login, table, call, serial, past, former, refused, wrote, log,
                   silent, asked>>

-----------------------------------------------------------------------------
ValidForEver(token) == token # NoToken
\* jwt.verify: a token is refused from the second it expires in.
Valid(token) == token # NoToken /\ clock < token.issued + Ttl

\* The actor of a request is what its token says.
Arrive(h) ==
    /\ call[h] = Idle
    /\ asked < MaxRequests
    /\ \E u \in Users, route \in Asked :
          /\ Valid(session[u])
          /\ call' = [call EXCEPT ![h] =
                [at |-> "evaluating", actor |-> u, roles |-> session[u].roles,
                 verified |-> clock, took |-> session[u].took, route |-> route, id |-> 0,
                 target |-> u, found |-> FALSE, since |-> Len(past), number |-> asked + 1]]
    /\ asked' = asked + 1
    /\ UNCHANGED <<clock, account, login, session, table, serial, past, former, refused, wrote, log,
                   silent>>

Goto(h, point) == call' = [call EXCEPT ![h].at = point]
End(h) == call' = [call EXCEPT ![h] = Idle]

\* New accounts are not among Users: creating one changes nothing here.
Writes(route) ==
    \/ route.kind = "policyRule" /\ route.does \in {"create", "update", "delete"}
    \/ route.kind = "user" /\ route.does \in {"update", "delete"}
\* Where an allowed request goes: PolicyRuleFacade.assertAdmin comes first and
\* throws, with no audit event of its own; then a facade that writes reads the
\* row as it was, unless it creates one.
EnterUnasked(route, roles) ==
    IF ~Writes(route) THEN "serving"
    ELSE IF route.does = "create" THEN "writing" ELSE "reading"
Enter(route, roles) ==
    IF ~Writes(route) THEN "serving"
    ELSE IF route.kind = "policyRule" /\ "admin" \notin roles THEN "idle"
    ELSE IF route.does = "create" THEN "writing" ELSE "reading"

\* requireAuth: the rules are read in one statement.
Evaluate(h) ==
    /\ call[h].at = "evaluating"
    /\ \E allow \in Decisions(table, call[h].route.permission, call[h].roles) :
          IF allow THEN /\ IF Enter(call[h].route, call[h].roles) = "idle" THEN End(h)
                           ELSE Goto(h, Enter(call[h].route, call[h].roles))
                        /\ UNCHANGED refused
          ELSE Goto(h, "denying") /\ refused' = refused \cup {call[h].number}
    /\ UNCHANGED <<clock, account, login, session, table, serial, past, former, wrote, log, silent,
                   asked>>

\* An event is recorded, or the failure to record it swallowed.
Emit(h, result) ==
    \/ log' = log \cup {Event(call[h].number, result)} /\ UNCHANGED silent
    \/ silent' = silent \cup {Event(call[h].number, result)} /\ UNCHANGED log

\* The refusal is recorded, then answered with 403.
Deny(h) ==
    /\ call[h].at = "denying"
    /\ Emit(h, "FAILURE")
    /\ End(h)
    /\ UNCHANGED <<clock, account, login, session, table, serial, past, former, refused, wrote,
                   asked>>

\* Every other facade's work, which is the subject of other modules.
Serve(h) ==
    /\ call[h].at = "serving"
    /\ End(h)
    /\ UNCHANGED <<clock, account, login, session, table, serial, past, former, refused, wrote, log,
                   silent, asked>>

-----------------------------------------------------------------------------
\* previous = await findById(id), for a rule or an account.
ReadPrevious(h) ==
    /\ call[h].at = "reading"
    /\ \/ /\ call[h].route.kind = "policyRule"
          /\ \E r \in table : call' = [call EXCEPT ![h].at = "writing", ![h].id = r.id,
                                                   ![h].found = TRUE]
       \/ /\ call[h].route.kind = "user"
          /\ \E u \in Users : call' = [call EXCEPT ![h].at = "writing", ![h].target = u,
                                                   ![h].found = account[u].status # "gone"]
    /\ UNCHANGED <<clock, account, login, session, table, serial, past, former, refused, wrote, log,
                   silent, asked>>

\* No such id: update and delete find nothing either, and answer 404.
ReadNothing(h) ==
    /\ call[h].at = "reading"
    /\ call[h].route.kind = "policyRule"
    /\ End(h)
    /\ UNCHANGED <<clock, account, login, session, table, serial, past, former, refused, wrote, log,
                   silent, asked>>

RowsOf(h) == {r \in table : r.id = call[h].id}
Row(id, input, at) ==
    [id |-> id, resource |-> input.resource, action |-> input.action, role |-> input.role,
     effect |-> input.effect, priority |-> input.priority, enabled |-> input.enabled,
     updatedAt |-> at]
MergedGivenOnly(row, input, given) ==
    [f \in given \cup {"id", "updatedAt"} |->
        IF f = "id" THEN row.id ELSE IF f = "updatedAt" THEN serial + 1 ELSE input[f]]
Merged(row, input, given) ==
    LET field(f) == IF f \in given THEN input ELSE row
    IN  [id |-> row.id, resource |-> field("resource").resource,
         action |-> field("action").action, role |-> field("role").role,
         effect |-> field("effect").effect, priority |-> field("priority").priority,
         enabled |-> field("enabled").enabled, updatedAt |-> serial + 1]

Wrote(h) ==
    /\ serial' = serial + 1
    /\ wrote' = wrote \cup {call[h].number}
NotWritten(h) == End(h) /\ UNCHANGED <<table, serial, past, wrote>>

RuleWritten(h, rows) ==
    /\ table' = rows
    /\ past' = Append(past, rows)
    /\ Wrote(h)
    /\ Goto(h, "auditing")

CreateRule(h) ==
    /\ call[h].at = "writing" /\ call[h].route.kind = "policyRule"
    /\ call[h].route.does = "create"
    /\ \E input \in RuleInputs : RuleWritten(h, table \cup {Row(serial + 1, input, serial + 1)})
    /\ UNCHANGED <<clock, account, login, session, former, refused, log, silent, asked>>

UpdateRule(h) ==
    /\ call[h].at = "writing" /\ call[h].route.kind = "policyRule"
    /\ call[h].route.does = "update"
    /\ \/ /\ RowsOf(h) # {}
          /\ \E input \in RuleInputs, given \in Given :
                RuleWritten(h, (table \ RowsOf(h)) \cup {Merged(r, input, given) : r \in RowsOf(h)})
       \/ RowsOf(h) = {} /\ NotWritten(h)
    /\ UNCHANGED <<clock, account, login, session, former, refused, log, silent, asked>>

DeleteRule(h) ==
    /\ call[h].at = "writing" /\ call[h].route.kind = "policyRule"
    /\ call[h].route.does = "delete"
    /\ \/ RowsOf(h) # {} /\ RuleWritten(h, table \ RowsOf(h))
       \/ RowsOf(h) = {} /\ NotWritten(h)
    /\ UNCHANGED <<clock, account, login, session, former, refused, log, silent, asked>>

UserWritten(h, standing) ==
    /\ account' = [account EXCEPT ![call[h].target] = standing]
    /\ former' = former \cup {[user |-> call[h].target, standing |-> account[call[h].target],
                               until |-> clock]}
    /\ Wrote(h)
    /\ Goto(h, "auditing")

\* Neither update nor delete touches the sessions of the account.
ChangeUser(h) ==
    /\ call[h].at = "writing" /\ call[h].route.kind = "user"
    /\ IF account[call[h].target].status = "gone"
       THEN End(h) /\ UNCHANGED <<account, former, serial, wrote>>
       ELSE \E standing \in IF call[h].route.does = "delete" THEN {Gone} ELSE Standings :
               UserWritten(h, standing)
    /\ UNCHANGED <<clock, login, session, table, past, refused, log, silent, asked>>

AuditUnlessDeleted(h) ==
    /\ call[h].at = "auditing"
    /\ IF call[h].route.does = "delete" THEN UNCHANGED <<log, silent>> ELSE Emit(h, "SUCCESS")
    /\ End(h)
    /\ UNCHANGED <<clock, account, login, session, table, serial, past, former, refused, wrote,
                   asked>>
\* auditSafely; a delete asks for `deleted && previous`.
Audit(h) ==
    /\ call[h].at = "auditing"
    /\ IF call[h].route.does = "delete" /\ ~call[h].found THEN UNCHANGED <<log, silent>>
       ELSE Emit(h, "SUCCESS")
    /\ End(h)
    /\ UNCHANGED <<clock, account, login, session, table, serial, past, former, refused, wrote,
                   asked>>

\* The process dies, or a statement fails.
Lose(h) ==
    /\ call[h] # Idle
    /\ End(h)
    /\ silent' = silent \cup
          CASE call[h].at = "denying" -> {Event(call[h].number, "FAILURE")}
            [] call[h].at = "auditing" -> {Event(call[h].number, "SUCCESS")}
            [] OTHER -> {}
    /\ UNCHANGED <<clock, account, login, session, table, serial, past, former, refused, wrote, log,
                   asked>>

Next ==
    \/ Tick
    \/ \E u \in Users : AuthenticateCredentials(u) \/ IssueSession(u) \/ Logout(u)
    \/ \E h \in Callers :
          \/ Arrive(h) \/ Evaluate(h) \/ Deny(h) \/ Serve(h)
          \/ ReadPrevious(h) \/ ReadNothing(h)
          \/ CreateRule(h) \/ UpdateRule(h) \/ DeleteRule(h) \/ ChangeUser(h)
          \/ Audit(h) \/ Lose(h)

Spec == Init /\ [][Next]_vars

-----------------------------------------------------------------------------
\* A request that got past requireAuth, or was refused by it, was judged as
\* ADR-008 promises by a table of rules that was current at some moment since
\* the request came in: never by an older one, never by parts of two.
DecisionsFollowRules ==
    \A h \in Callers : call[h] # Idle /\ call[h].at # "evaluating" =>
        \E v \in call[h].since .. Len(past) :
            (call[h].at # "denying")
                = Promised(past[v], call[h].route.permission, call[h].roles)

\* A role taken away, or an account closed, is used by no request that comes
\* in a session's life later, or later yet by the time the login of its token
\* took from reading the account to signing: a login that was overtaken by the
\* change hands out the old roles with a full life.
RolesHeldRecently ==
    \A h \in Callers : call[h] # Idle =>
        LET was == [roles |-> call[h].roles, status |-> "ACTIVE"]
        IN  \/ account[call[h].actor] = was
            \/ \E f \in former : /\ f.user = call[h].actor
                                 /\ f.standing = was
                                 /\ f.until + call[h].took + Ttl > call[h].verified

\* Rules are managed only by admins: no ALLOW rule, however wide, lets anybody
\* else change the rules.
AdminsKeepTheRules ==
    [][table' # table =>
         \E h \in Callers : /\ call[h] # Idle /\ "admin" \in call[h].roles
                            /\ call'[h] # call[h]]_vars

\* The audit log tells of every refusal of requireAuth and every change of a
\* rule or an account, unless recording it failed, and of nothing else.
AuditFaithful ==
    /\ \A e \in log : e.number \in (IF e.result = "FAILURE" THEN refused ELSE wrote)
    /\ \A n \in refused : \/ Event(n, "FAILURE") \in log \cup silent
                          \/ \E h \in Callers : call[h] # Idle /\ call[h].number = n
    /\ \A n \in wrote : \/ Event(n, "SUCCESS") \in log \cup silent
                        \/ \E h \in Callers : call[h] # Idle /\ call[h].number = n
=============================================================================
