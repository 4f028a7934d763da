\* A re-check the user denies.
CONSTANTS
    c1 = c1  c2 = c2  c3 = c3  u1 = u1  u2 = u2  h1 = h1  h2 = h2
    Clients = {c1, c2, c3}
    Users = {u1}
    Hosts = {h1}
    HostOf <- OneHost
    AuthTypes = {"KeyFile"}
    Verdicts <- AlwaysAsk
    WorkerMayDie = FALSE
SYMMETRY ClientSymmetry
SPECIFICATION Spec
INVARIANTS DeniedIsNotServed
