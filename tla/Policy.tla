------------------------------- MODULE Policy -------------------------------
(***************************************************************************)
(* Policy rules and their evaluation: NAEOSPolicyAdapter.evaluate          *)
(* (policy-adapter.ts) over findForEvaluation (prisma-ports.ts), and the   *)
(* decision requireAuth (routes.ts) takes with the role matrix behind it.  *)
(*                                                                         *)
(* Definitions that stand right before another and are used nowhere are    *)
(* the faulty variants the properties are tried against.                   *)
(***************************************************************************)
EXTENDS Integers, Permissions

Star == "*"
Effects == {"ALLOW", "DENY"}

\* toAuthRole: the matrix takes a role it does not know for a member; ...
AuthRoles(roles) == {IF r \in Roles THEN r ELSE "member" : r \in roles}
\* ... toPolicyRoles: the rules leave it out.  Case is the only difference
\* between the roles of rules and of the matrix.
PolicyRoles(roles) == roles \cap Roles

\* findForEvaluation
Matching(table, permission, roles) ==
    {r \in table : /\ r.enabled
                   /\ r.resource \in {permission[1], Star}
                   /\ r.action \in {permission[2], Star}
                   /\ r.role \in roles \cup {Star}}

BeforeAllowFirst(r, q) ==
    \/ r.priority > q.priority
    \/ r.priority = q.priority /\ r.effect = "ALLOW" /\ q.effect = "DENY"
    \/ r.priority = q.priority /\ r.effect = q.effect /\ r.updatedAt < q.updatedAt
\* The order evaluate sorts by.
Before(r, q) ==
    \/ r.priority > q.priority
    \/ r.priority = q.priority /\ r.effect = "DENY" /\ q.effect = "ALLOW"
    \/ r.priority = q.priority /\ r.effect = q.effect /\ r.updatedAt < q.updatedAt

\* The rules that can come first: rows that tie stay in the database's order.
First(rules) == {r \in rules : \A q \in rules : ~Before(q, r)}

\* What requireAuth may decide.
Decisions(table, permission, roles) ==
    LET matched == Matching(table, permission, PolicyRoles(roles))
    IN  IF matched = {} THEN {Authorize(AuthRoles(roles), permission)}
        ELSE {r.effect = "ALLOW" : r \in First(matched)}

-----------------------------------------------------------------------------
\* What ADR-008 promises: the rules of the highest priority decide, all of them
\* have to allow it, and where no rule matches the matrix decides.
Highest(rules) == {r \in rules : \A q \in rules : q.priority <= r.priority}
Promised(table, permission, roles) ==
    LET matched == Matching(table, permission, PolicyRoles(roles))
    IN  IF matched = {} THEN Authorize(AuthRoles(roles), permission)
        ELSE \A r \in Highest(matched) : r.effect = "ALLOW"
=============================================================================
