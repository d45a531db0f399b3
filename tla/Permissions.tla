---------------------------- MODULE Permissions ----------------------------
(***************************************************************************)
(* The static matrix of roles and permissions (packages/auth), the copy of *)
(* it that decides what the web application offers (permissions.ts), and   *)
(* the routes of apps/api/src/routes.ts with the permission each asks for. *)
(* A permission is a pair of a resource and an action.                     *)
(***************************************************************************)
Crud == {"read", "write", "delete"}
Roles == {"admin", "manager", "member"}

\* Resources a manager handles without restriction.
Handled == {"contact", "lead", "activity", "task", "opportunity", "campaign", "follow-up",
            "contributor", "partner", "community", "investor", "use-case"}

AdminPermissions ==
    ((Handled \cup {"user", "company", "pipeline", "policy"}) \X Crud)
    \cup ({"go-gate"} \X {"read", "write", "approve", "execute"})
    \cup ({"analytics", "audit", "dashboard"} \X {"read"})

ManagerPermissions ==
    (Handled \X Crud)
    \cup ({"company"} \X {"read", "write"})
    \cup ({"go-gate"} \X {"read", "write", "approve"})
    \cup ({"user", "pipeline", "policy", "analytics", "audit", "dashboard"} \X {"read"})

MemberPermissions ==
    ((Handled \cup {"company", "pipeline", "go-gate", "analytics", "dashboard"}) \X {"read"})
    \cup ({"contact", "activity", "task", "follow-up", "go-gate"} \X {"write"})

RolePermissions ==
    [admin |-> AdminPermissions, manager |-> ManagerPermissions, member |-> MemberPermissions]

\* DefaultAuthorizationService.authorize: any role of the actor will do.
Authorize(roles, permission) == \E r \in roles : permission \in RolePermissions[r]

-----------------------------------------------------------------------------
\* The web application keeps a table of its own, ...
Everything == Handled \cup {"user", "company", "pipeline", "policy", "go-gate",
                            "analytics", "audit", "dashboard"}
Granting(read, write, delete, gate) ==
    (read \X {"read"}) \cup (write \X {"write"}) \cup (delete \X {"delete"})
    \cup ({"go-gate"} \X gate)
WebPermissions ==
    [admin |-> Granting(Everything, Everything \ {"analytics", "audit", "dashboard"},
                   Everything \ {"analytics", "audit", "dashboard", "go-gate"},
                   {"approve", "execute"}),
     manager |-> Granting(Everything, Handled \cup {"company", "go-gate"}, Handled, {"approve"}),
     member |-> Granting(Everything \ {"user", "audit", "policy"},
                   {"contact", "activity", "task", "follow-up", "go-gate"}, {}, {})]

Can(roles, permission) == \E r \in roles : permission \in WebPermissions[r]

\* ... which filters the entries of its sidebar.  Only three of the pages
\* themselves ask again (RequirePermission).
NavItems ==
    (Handled \cup {"dashboard", "company", "pipeline", "analytics", "go-gate", "policy",
                   "user", "audit"}) \X {"read"}

-----------------------------------------------------------------------------
\* Every handler of routes.ts but that of /me asks requireAuth for its
\* permission before anything else, parses its input, calls one facade method
\* and turns its result into a status.  For most resources the five handlers
\* are list, get, create, update and delete.
Route(kind, does, resource, action) ==
    [kind |-> kind, does |-> does, permission |-> <<resource, action>>]
Crudlike(kind, resource) ==
    {Route(kind, "list", resource, "read"), Route(kind, "get", resource, "read"),
     Route(kind, "create", resource, "write"), Route(kind, "update", resource, "write"),
     Route(kind, "delete", resource, "delete")}

UserRoutes         == Crudlike("user", "user")
CompanyRoutes      == Crudlike("company", "company")
ContactRoutes      == Crudlike("contact", "contact")
LeadRoutes         == Crudlike("lead", "lead")
ActivityRoutes     == Crudlike("activity", "activity")
TaskRoutes         == Crudlike("task", "task")
StageRoutes        == Crudlike("stage", "pipeline") \cup {Route("stage", "reorder", "pipeline", "write")}
OpportunityRoutes  == Crudlike("opportunity", "opportunity")
CampaignRoutes     == Crudlike("campaign", "campaign")
CampaignStepRoutes == Crudlike("step", "campaign")
FollowUpRoutes     == Crudlike("followUp", "follow-up")
ContributorRoutes  == Crudlike("contributor", "contributor")
PartnerRoutes      == Crudlike("partner", "partner")
CommunityRoutes    == Crudlike("community", "community")
InvestorRoutes     == Crudlike("investor", "investor")
UseCaseRoutes      == Crudlike("useCase", "use-case")
AnalyticsRoutes    == {Route("analytics", of, "analytics", "read") : of \in {"pipeline", "campaigns", "follow-ups"}}
DashboardRoutes    == {Route("dashboard", "get", "dashboard", "read")}
AuditRoutes        == {Route("audit", "list", "audit", "read")}
PolicyRoutes       == Crudlike("policyRule", "policy")
GoGateRoutes ==
    {Route("goGate", "list", "go-gate", "read"), Route("goGate", "get", "go-gate", "read"),
     Route("goGate", "receipt", "go-gate", "read"), Route("goGate", "request", "go-gate", "write"),
     Route("goGate", "approve", "go-gate", "approve"), Route("goGate", "reject", "go-gate", "approve"),
     Route("goGate", "execute", "go-gate", "execute")}

Routes ==
    UserRoutes \cup CompanyRoutes \cup ContactRoutes \cup LeadRoutes \cup ActivityRoutes
    \cup TaskRoutes \cup StageRoutes \cup OpportunityRoutes \cup CampaignRoutes
    \cup CampaignStepRoutes \cup FollowUpRoutes \cup ContributorRoutes \cup PartnerRoutes
    \cup CommunityRoutes \cup InvestorRoutes \cup UseCaseRoutes \cup AnalyticsRoutes
    \cup DashboardRoutes \cup AuditRoutes \cup PolicyRoutes \cup GoGateRoutes
=============================================================================
