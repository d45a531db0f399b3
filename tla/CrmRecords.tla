----------------------------- MODULE CrmRecords -----------------------------
(***************************************************************************)
(* The CRM records: the facades of apps/api/src/service-layer.ts over the  *)
(* Prisma ports (prisma-ports.ts) and the relations of schema.prisma.      *)
(*                                                                         *)
(* A call reads the row as it was, checks that its actor may write it,     *)
(* writes, and records an audit event.  Each is an await of its own, none  *)
(* in a transaction with another.  A record is an id; its row holds what   *)
(* it refers to (owner or assignee, company, contact, ...) and, for an     *)
(* opportunity, its stage.  Other columns tell nothing apart.              *)
(*                                                                         *)
(* Definitions that stand right before another and are used nowhere are    *)
(* the faulty variants the properties are tried against.                   *)
(***************************************************************************)
EXTENDS Integers, FiniteSets

CONSTANTS
    Callers,     \* requests in flight
    Records,     \* ids; a deleted id never comes back
    KindOf,      \* KindOf[r]: the table of r
    Privileged,  \* users with the role admin or manager
    Stages,      \* stages of an opportunity
    Initial,     \* Initial[r]: what r refers to, for the rows there at first
    MaxWrites    \* bound on the writes of a behaviour

VARIABLES
    row,     \* row[r]
    call,    \* call[h]: where h is, its arguments and what it has read
    writes,  \* number of writes so far; a write is known by its number
    log,     \* audit events: the write they tell of and the action
    silent,  \* writes whose audit event could not be recorded (history)
    moved    \* writes that changed an opportunity's stage (history)

vars == <<row, call, writes, log, silent, moved>>

-----------------------------------------------------------------------------
\* What tells the ports of prisma-ports.ts apart: the kinds a row must refer to,
\* and goes with when their row is deleted (onDelete Cascade), the kinds it may
\* refer to, and is cut loose from (SetNull), and the kinds a delete counts
\* before it.  All else is the same: Insert, Change, Remove below.
Port(bound, loose, counted) == [bound |-> bound, loose |-> loose, counted |-> counted]

UserPort         == Port({}, {}, {})
CompanyPortButTasks == Port({}, {"user"}, {"contact", "lead", "activity"})
CompanyPort      == Port({}, {"user"}, {"contact", "lead", "activity", "task"})
ContactPort      == Port({"company"}, {}, {})
LeadPort         == Port({"company"}, {"user"}, {})
ActivityPort     == Port({}, {"company", "contact", "user"}, {})
TaskPort         == Port({}, {"company", "user"}, {})
OpportunityPort  == Port({"company"}, {"user"}, {})
CampaignPort     == Port({}, {"user"}, {})
CampaignStepPort == Port({"campaign"}, {}, {})
FollowUpPort     == Port({"activity"}, {"user"}, {})
CommunityPort    == Port({}, {"user"}, {})
ContributorPort  == Port({}, {"community", "user"}, {})
PartnerPort      == Port({}, {"user"}, {})
InvestorPort     == Port({}, {"user"}, {})
UseCasePort      == Port({"opportunity"}, {"user"}, {})

Schema ==
    [user |-> UserPort, company |-> CompanyPort, contact |-> ContactPort, lead |-> LeadPort,
     activity |-> ActivityPort, task |-> TaskPort, opportunity |-> OpportunityPort,
     campaign |-> CampaignPort, step |-> CampaignStepPort, followUp |-> FollowUpPort,
     community |-> CommunityPort, contributor |-> ContributorPort, partner |-> PartnerPort,
     investor |-> InvestorPort, useCase |-> UseCasePort]

Kinds == DOMAIN Schema

\* How a facade checks an actor who is not privileged: whether it asks before
\* it reads, the kind of the row whose owner decides ("none" if no row does),
\* and what holds when the record has no such row.
Facade(first, scope, unscoped) == [first |-> first, scope |-> scope, unscoped |-> unscoped]

UserFacade         == Facade("reading", "none", "allow")
CompanyFacade      == Facade("reading", "none", "allow")
LeadFacade         == Facade("reading", "none", "allow")
ContactFacade      == Facade("reading", "company", "refuse")
ActivityFacade     == Facade("reading", "company", "self")
TaskFacade         == Facade("reading", "company", "self")
OpportunityFacade  == Facade("reading", "company", "allow")
CampaignFacade     == Facade("reading", "none", "self")
CampaignStepFacade == Facade("reading", "campaign", "refuse")
FollowUpFacade     == Facade("reading", "activity", "self")
ContributorFacade  == Facade("checking", "none", "refuse")
PartnerFacade      == Facade("checking", "none", "refuse")
CommunityFacade    == Facade("checking", "none", "refuse")
InvestorFacade     == Facade("checking", "none", "refuse")
UseCaseFacade      == Facade("checking", "none", "refuse")

Facades ==
    [user |-> UserFacade, company |-> CompanyFacade, contact |-> ContactFacade,
     lead |-> LeadFacade, activity |-> ActivityFacade, task |-> TaskFacade,
     opportunity |-> OpportunityFacade, campaign |-> CampaignFacade,
     step |-> CampaignStepFacade, followUp |-> FollowUpFacade,
     community |-> CommunityFacade, contributor |-> ContributorFacade,
     partner |-> PartnerFacade, investor |-> InvestorFacade, useCase |-> UseCaseFacade]

Of(S, kind) == {r \in S : KindOf[r] = kind}
NoStage == "none"

ASSUME KindOfAssumption == KindOf \in [Records -> Kinds]
ASSUME PrivilegedAssumption == \A u \in Privileged : u \in Records /\ KindOf[u] = "user"
ASSUME InitialAssumption ==
    /\ DOMAIN Initial \subseteq Records
    /\ \A r \in DOMAIN Initial :
          /\ Initial[r] \subseteq DOMAIN Initial
          /\ \A p \in Initial[r] : KindOf[p] \in Schema[KindOf[r]].bound \cup Schema[KindOf[r]].loose
          /\ \A kind \in Schema[KindOf[r]].bound : Of(Initial[r], kind) # {}
ASSUME StagesAssumption == NoStage \notin Stages
ASSUME MaxWritesAssumption == MaxWrites \in Nat

-----------------------------------------------------------------------------
Users == Of(Records, "user")
Actions == {"record", "stage"}
Event(write, action) == [write |-> write, action |-> action]

Row == [status : {"unborn", "live", "gone"}, links : SUBSET Records,
        stage : Stages \cup {NoStage}, since : Nat]
Empty(status) == [status |-> status, links |-> {}, stage |-> NoStage, since |-> 0]
IsLive(r) == row[r].status = "live"

\* What the deletion of a company is to spare ("move or delete them first").
Attached == {"contact", "lead", "activity", "task"}
Nobody == "nobody"

Call == [at : {"reading", "locating", "checking", "counting", "writing",
               "auditing", "auditingStage"},
         op : {"create", "update", "delete", "intake"}, actor : Users \cup {Nobody}, id : Records,
         links : SUBSET Records, stage : Stages \cup {NoStage},  \* the input
         was : Row,                     \* previous; null unless it is live
         company : SUBSET Records,      \* of the activity of a follow-up
         counts : [Attached -> {-1} \cup Nat],  \* writes when the kind was counted
         found : BOOLEAN,               \* whether a count was above 0
         wrote : Nat]
Idle == [at |-> "idle"]

TypeOK ==
    /\ row \in [Records -> Row]
    /\ \A r \in Records : row[r].stage # NoStage <=> IsLive(r) /\ KindOf[r] = "opportunity"
    /\ call \in [Callers -> Call \cup {Idle}]
    /\ writes \in Nat
    /\ log \cup silent \subseteq [write : 1 .. writes, action : Actions]
    /\ moved \subseteq 1 .. writes

StageInputs(kind) == IF kind = "opportunity" THEN Stages ELSE {NoStage}

Init ==
    /\ \E stage \in Stages :
          row = [r \in Records |->
                    IF r \notin DOMAIN Initial THEN Empty("unborn")
                    ELSE [Empty("live") EXCEPT !.links = Initial[r],
                             !.stage = IF KindOf[r] = "opportunity" THEN stage ELSE NoStage]]
    /\ call = [h \in Callers |-> Idle]
    /\ writes = 0
    /\ log = {}
    /\ silent = {}
    /\ moved = {}

-----------------------------------------------------------------------------
\* Inputs name at most one row of each kind the table refers to, and here, as
\* the fields do not depend on each other, at most one that is optional.
Inputs == [kind \in Kinds |->
    LET Referred(kinds) == {p \in Records : KindOf[p] \in kinds}
        Few(S) == {T \in SUBSET S : Cardinality(T) <= 1}
    IN  {S \cup T : S \in Few(Referred(Schema[kind].bound)), T \in Few(Referred(Schema[kind].loose))}]

\* Where a call goes when nothing has to be checked or read any more.
ToWrite(op, id) ==
    IF op = "delete" /\ Schema[KindOf[id]].counted # {} THEN "counting" ELSE "writing"
ToCheck(op, id) ==
    CASE Facades[KindOf[id]].scope = "activity" -> "locating"
      [] Facades[KindOf[id]].unscoped = "allow" /\ Facades[KindOf[id]].scope = "none" -> ToWrite(op, id)
      [] OTHER -> "checking"

Free(h) ==
    /\ call[h] = Idle
    /\ writes + Cardinality({g \in Callers : call[g] # Idle}) < MaxWrites

Begin(h, op, id, links, stage) ==
    /\ \E actor \in Users :
          call' = [call EXCEPT ![h] =
              [at |-> IF op # "create" THEN Facades[KindOf[id]].first ELSE ToCheck(op, id),
               op |-> op, actor |-> actor, id |-> id, links |-> links, stage |-> stage,
               was |-> Empty("unborn"), company |-> {}, counts |-> [k \in Attached |-> -1],
               found |-> FALSE, wrote |-> 0]]
    /\ UNCHANGED <<row, writes, log, silent, moved>>

\* Ids a new row may get: no call in flight can name them.
Fresh == {r \in Records : /\ row[r].status = "unborn"
                          /\ \A g \in Callers : call[g] # Idle => r \notin {call[g].id} \cup call[g].links}

Create(h) ==
    /\ Free(h)
    /\ \E r \in Fresh : \E links \in Inputs[KindOf[r]], stage \in StageInputs(KindOf[r]) :
          /\ \A kind \in Schema[KindOf[r]].bound : Of(links, kind) # {}
          /\ Begin(h, "create", r, links, stage)

Update(h) ==
    /\ Free(h)
    /\ \E r \in Records :
          \E links \in Inputs[KindOf[r]], stage \in {NoStage} \cup StageInputs(KindOf[r]) :
             Begin(h, "update", r, links, stage)

Delete(h) ==
    /\ Free(h)
    /\ \E r \in Records : Begin(h, "delete", r, {}, NoStage)

-----------------------------------------------------------------------------
Goto(h, point) == call' = [call EXCEPT ![h].at = point]
End(h) == call' = [call EXCEPT ![h] = Idle]

\* previous = await findById(id)
ReadPrevious(h) ==
    /\ call[h].at = "reading"
    /\ call' = [call EXCEPT ![h].was = row[call[h].id],
                  ![h].at = IF Facades[KindOf[call[h].id]].first = "checking"
                            THEN ToWrite(call[h].op, call[h].id)
                            ELSE ToCheck(call[h].op, call[h].id)]
    /\ UNCHANGED <<row, writes, log, silent, moved>>

\* input.<kind>Id ?? previous?.<kind>Id
Target(c, kind) ==
    IF Of(c.links, kind) # {} THEN Of(c.links, kind) ELSE Of(c.was.links, kind)

\* assertFollowUpAccess looks up the activity first.
Locate(h) ==
    /\ call[h].at = "locating"
    /\ call' = [call EXCEPT ![h].at = "checking",
                  ![h].company = Of(UNION {row[a].links : a \in Target(call[h], "activity")}, "company")]
    /\ UNCHANGED <<row, writes, log, silent, moved>>

\* assertCompanyAccess, assertCampaignAccess, assertSelfScoped, assertWriteAccess
MayWrite(c) ==
    LET facade == Facades[KindOf[c.id]]
        owned == IF facade.scope = "activity" THEN c.company ELSE Target(c, facade.scope)
    IN  \/ c.actor \in Privileged
        \/ c.op = "delete" /\ facade.first = "reading" /\ c.was.status # "live"
        \/ owned # {} /\ \A p \in owned : IsLive(p) /\ c.actor \in row[p].links
        \/ owned = {} /\ facade.unscoped = "allow"
        \/ owned = {} /\ facade.unscoped = "self" /\ c.actor \in Target(c, "user")

Check(h) ==
    LET c == call[h]
    IN  /\ c.at = "checking"
        /\ IF ~MayWrite(c) THEN End(h)
           ELSE IF Facades[KindOf[c.id]].first = "checking" /\ c.op # "create" THEN Goto(h, "reading")
           ELSE Goto(h, ToWrite(c.op, c.id))
        /\ UNCHANGED <<row, writes, log, silent, moved>>

-----------------------------------------------------------------------------
\* The rows that go with r: two levels suffice for the schema's relations.
Dependents(S) ==
    {q \in Records : \E p \in row[q].links \cap S : KindOf[p] \in Schema[KindOf[q]].bound}
DoomedDirectly(r) == {r} \cup Dependents({r})
Doomed(r) == {r} \cup Dependents({r} \cup Dependents({r}))

RowsWithout(r) ==
    [q \in Records |->
        IF q \in Doomed(r) THEN Empty("gone") ELSE [row[q] EXCEPT !.links = @ \ Doomed(r)]]

\* The row after an update: inputs replace links of their kind, all else stays.
MergedWithUndefined(c) ==
    LET old == row[c.id]
        new == {p \in old.links : Of(c.links, KindOf[p]) = {}} \cup c.links
    IN  [old EXCEPT !.links = new, !.stage = c.stage,
                    !.since = IF Of(new, "company") = Of(old.links, "company") THEN @ ELSE writes + 1]
Merged(c) ==
    LET old == row[c.id]
        new == {p \in old.links : Of(c.links, KindOf[p]) = {}} \cup c.links
    IN  [old EXCEPT !.links = new,
                    !.stage = IF c.stage = NoStage THEN @ ELSE c.stage,
                    !.since = IF Of(new, "company") = Of(old.links, "company") THEN @ ELSE writes + 1]

WrittenUnaudited(h, rows) ==
    /\ row' = rows
    /\ writes' = writes + 1
    /\ call' = [call EXCEPT ![h] =
           IF call[h].op = "delete" THEN Idle ELSE [@ EXCEPT !.at = "auditing", !.wrote = writes + 1]]
    /\ UNCHANGED <<log, silent, moved>>
Written(h, rows) ==
    /\ row' = rows
    /\ writes' = writes + 1
    /\ call' = [call EXCEPT ![h].at = "auditing", ![h].wrote = writes + 1]
    /\ moved' = IF rows[call[h].id].status = "live" /\ IsLive(call[h].id)
                   /\ rows[call[h].id].stage # row[call[h].id].stage
                THEN moved \cup {writes + 1} ELSE moved
    /\ UNCHANGED <<log, silent>>

NotWritten(h) == End(h) /\ UNCHANGED <<row, writes, log, silent, moved>>

\* A foreign key that names no row is INVALID_REFERENCE (400).
Insert(h) ==
    LET c == call[h]
    IN  /\ c.at = "writing" /\ c.op = "create"
        /\ IF \A p \in c.links : IsLive(p)
           THEN Written(h, [row EXCEPT ![c.id] =
                    [status |-> "live", links |-> c.links, stage |-> c.stage, since |-> writes + 1]])
           ELSE NotWritten(h)

\* A row that is not there is null: 404 and no event.
Change(h) ==
    LET c == call[h]
    IN  /\ c.at = "writing" /\ c.op = "update"
        /\ IF IsLive(c.id) /\ \A p \in c.links : IsLive(p)
           THEN Written(h, [row EXCEPT ![c.id] = Merged(c)])
           ELSE NotWritten(h)

\* `deleted && previous` decides on the event; a row that was not there when it
\* was read is not there now either.
Remove(h) ==
    /\ call[h].at = "writing" /\ call[h].op = "delete"
    /\ IF IsLive(call[h].id) THEN Written(h, RowsWithout(call[h].id)) ELSE NotWritten(h)

\* PrismaCompanyReadPort.delete: four counts that run side by side, ...
Count(h) ==
    /\ call[h].at = "counting"
    /\ \E k \in Schema[KindOf[call[h].id]].counted :
          /\ call[h].counts[k] = -1
          /\ call' = [call EXCEPT ![h].counts[k] = writes,
                        ![h].found = @ \/ \E r \in Of(Records, k) : call[h].id \in row[r].links]
    /\ UNCHANGED <<row, writes, log, silent, moved>>

\* ... then 409 if they found anything, or the DELETE.
RemoveCompany(h) ==
    /\ call[h].at = "counting"
    /\ \A k \in Schema[KindOf[call[h].id]].counted : call[h].counts[k] # -1
    /\ IF ~call[h].found /\ IsLive(call[h].id)
       THEN Written(h, RowsWithout(call[h].id))
       ELSE NotWritten(h)

\* POST /api/v1/public/assessment-intake: anybody, without a session, makes a
\* company with a contact, a lead and an activity in one transaction.  What is
\* recorded then is the lead; where that fails the answer is 500, not 201.
Unstaged(links) == [status |-> "live", links |-> links, stage |-> NoStage, since |-> writes + 1]
Intake(h) ==
    /\ Free(h)
    /\ \E company \in Of(Fresh, "company"), contact \in Of(Fresh, "contact"),
          lead \in Of(Fresh, "lead"), activity \in Of(Fresh, "activity") :
          /\ row' = [r \in Records |->
                CASE r = company -> Unstaged({})
                  [] r \in {contact, lead} -> Unstaged({company})
                  [] r = activity -> Unstaged({company, contact})
                  [] OTHER -> row[r]]
          /\ call' = [call EXCEPT ![h] =
                [at |-> "auditing", op |-> "intake", actor |-> Nobody, id |-> lead,
                 links |-> {company}, stage |-> NoStage, was |-> Empty("unborn"),
                 company |-> {}, counts |-> [k \in Attached |-> -1], found |-> FALSE,
                 wrote |-> writes + 1]]
    /\ writes' = writes + 1
    /\ UNCHANGED <<log, silent, moved>>

-----------------------------------------------------------------------------
\* opportunity.stage-changed follows if the stage differs from the one read.
StageDiffers(c) ==
    /\ c.op = "update"
    /\ c.was.status = "live"
    /\ c.stage # NoStage
    /\ c.was.stage # c.stage

\* auditSafely: a failure to record is logged to the console and forgotten.
Emit(h, action) ==
    \/ log' = log \cup {Event(call[h].wrote, action)} /\ UNCHANGED silent
    \/ silent' = silent \cup {Event(call[h].wrote, action)} /\ UNCHANGED log

Audit(h) ==
    /\ call[h].at = "auditing"
    /\ Emit(h, "record")
    /\ IF StageDiffers(call[h]) THEN Goto(h, "auditingStage") ELSE End(h)
    /\ UNCHANGED <<row, writes, moved>>

AuditStage(h) ==
    /\ call[h].at = "auditingStage"
    /\ Emit(h, "stage")
    /\ End(h)
    /\ UNCHANGED <<row, writes, moved>>

\* The process dies, or a statement fails (a unique column, the connection).
Lose(h) ==
    /\ call[h] # Idle
    /\ End(h)
    /\ silent' = silent \cup
          CASE call[h].at = "auditing" -> {Event(call[h].wrote, a) : a \in Actions}
            [] call[h].at = "auditingStage" -> {Event(call[h].wrote, "stage")}
            [] OTHER -> {}
    /\ UNCHANGED <<row, writes, log, moved>>

Next ==
    \E h \in Callers :
        \/ Create(h) \/ Update(h) \/ Delete(h)
        \/ ReadPrevious(h) \/ Locate(h) \/ Check(h)
        \/ Insert(h) \/ Change(h) \/ Remove(h) \/ Count(h) \/ RemoveCompany(h)
        \/ Intake(h)
        \/ Audit(h) \/ AuditStage(h) \/ Lose(h)

Spec == Init /\ [][Next]_vars

-----------------------------------------------------------------------------
\* Whatever creates, moves and cascading deletes overlap, a row refers to rows
\* that are there, and to the company, campaign, activity or opportunity without
\* which its kind cannot be.
NoOrphan ==
    \A r \in Records : IsLive(r) =>
        /\ \A p \in row[r].links : IsLive(p)
        /\ \A kind \in Schema[KindOf[r]].bound : Of(row[r].links, kind) # {}

\* A contact, lead, activity or task that a company's deletion removes or cuts
\* loose came to the company after that call had counted its kind: the counts
\* of PrismaCompanyReadPort.delete cover everything that was there before.
LossNeedsRace ==
    [][\A h \in Callers : \A r \in Records :
         /\ call[h] # Idle /\ call[h].at = "counting" /\ writes' # writes
         /\ call'[h] # Idle /\ call'[h].at = "auditing"
         /\ KindOf[r] \in Attached
         /\ call[h].id \in row[r].links
         => /\ call[h].counts[KindOf[r]] # -1
            /\ row[r].since > call[h].counts[KindOf[r]]]_vars

\* An audit event tells of a write that took place: a call that found nothing
\* to write, or lost its row to another, leaves none.  And a write whose call is
\* over has its event, unless recording it failed: no path through a facade, nor
\* the intake, writes and returns without recording it.
AuditFaithful ==
    /\ \A e \in log : e.write \in 1 .. writes
    /\ \A w \in 1 .. writes :
          \/ Event(w, "record") \in log \cup silent
          \/ \E h \in Callers : call[h] # Idle /\ call[h].wrote = w /\ call[h].at = "auditing"

\* docs/CRM-ROADMAP.md:63: "opportunity.stage-changed audit event emitted
\* whenever an opportunity moves between stages."
StageMovesAudited ==
    \A w \in moved :
        \/ Event(w, "stage") \in log \cup silent
        \/ \E h \in Callers : call[h] # Idle /\ call[h].wrote = w
=============================================================================
