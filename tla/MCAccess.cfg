CONSTANTS
    ann = ann
    bob = bob
    h1 = h1
    h2 = h2
    Users = {ann, bob}
    Callers = {h1, h2}
    Standings <- MCStandings
    RuleInputs <- MCRuleInputs
    Given <- MCGiven
    Asked <- MCAsked
    InitialTables <- MCInitialTables
    Ttl = 1
    MaxClock = 1
    MaxRequests = 2
SYMMETRY Symmetry
ACTION_CONSTRAINT SessionsMatter
SPECIFICATION Spec
INVARIANTS
    TypeOK
    DecisionsFollowRules
    RolesHeldRecently
    AuditFaithful
PROPERTIES
    AdminsKeepTheRules
CHECK_DEADLOCK FALSE
