------------------------------ MODULE MCAccess ------------------------------
(* Access on a small instance. *)
EXTENDS Access, TLC

CONSTANTS ann, bob, h1, h2

MCStandings ==
    {[roles |-> {"admin"}, status |-> "ACTIVE"], [roles |-> {"member"}, status |-> "ACTIVE"]}

MCRule(resource, action, role, effect, priority) ==
    [resource |-> resource, action |-> action, role |-> role, effect |-> effect,
     priority |-> priority, enabled |-> TRUE]

\* One that opens everything, one of the same priority that contradicts it, and
\* is disabled at first, and one that shuts the admins out of the rules.
Open == MCRule(Star, Star, Star, "ALLOW", 0)
Spare == MCRule("contact", Star, Star, "DENY", 0)
Shut == MCRule("policy", Star, "admin", "DENY", 1)

MCRuleInputs == {Shut}
MCGiven == {RuleFields, {"enabled"}}
MCInitialTables == {{Row(0, Open, 0), Row(-1, [Spare EXCEPT !.enabled = FALSE], 0)}}

MCAsked ==
    {Route("policyRule", does, "policy", "write") : does \in {"create", "update"}}
    \cup {Route("policyRule", "delete", "policy", "delete"), Route("user", "update", "user", "write"),
          Route("user", "delete", "user", "delete"), Route("contact", "delete", "contact", "delete")}

\* Sessions and the clock are looked at when a request comes: once no more do,
\* they are left alone.
SessionsMatter == asked = MaxRequests => UNCHANGED <<clock, login, session>>

Symmetry == Permutations(Users) \cup Permutations(Callers)

\* The web application offers what the matrix permits, and every page it offers
\* has a route that asks for the permission the page is offered for.
ASSUME WebOffersWhatIsPermitted ==
    /\ \A r \in Roles : WebPermissions[r] = RolePermissions[r]
    /\ \A item \in NavItems : \E route \in Routes : route.permission = item
=============================================================================
