CONSTANTS
    h1 = h1
    h2 = h2
    proposal = proposal
    won = won
    rep = rep
    boss = boss
    co = co
    client = client
    enquiry = enquiry
    contact = contact
    activity = activity
    opportunity = opportunity
    campaign = campaign
    step = step
    followUp = followUp
    useCase = useCase
    lead = lead
    task = task
    Callers = {h1, h2}
    Records = {rep, boss, co, client, lead, contact, activity, enquiry, task, opportunity, campaign,
        step, followUp, useCase}
    KindOf <- MCKindOf
    Privileged = {boss}
    Stages = {proposal, won}
    MaxWrites = 2
    Initial <- MCInitial
SYMMETRY Symmetry
SPECIFICATION Spec
INVARIANTS
    StageMovesAudited
CHECK_DEADLOCK FALSE
