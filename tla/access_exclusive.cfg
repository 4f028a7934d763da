\* Three clients of two users, one of whom at a time may have access, and the user is asked.
CONSTANTS
    c1 = c1  c2 = c2  c3 = c3  u1 = u1  u2 = u2  h1 = h1  h2 = h2
    Nobody = Nobody  ThisComputer = ThisComputer
    Clients = {c1, c2, c3}
    Users = {u1, u2}
    Hosts = {h1}
    HostOf <- HostOfAll
    AuthTypes = {"KeyFile"}
    Groups <- NoGroups
    Locations <- NoLocations
    LoggedOn <- AnybodyLoggedOn
    Configuration <- OneAtATimeAsked
    Verdicts <- RuleVerdicts
    WorkerMayDie = FALSE
SYMMETRY ClientSymmetry
SPECIFICATION Spec
INVARIANTS ExclusiveGrant SingleQuestion
