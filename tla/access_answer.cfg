\* An answer after a worker has died.
CONSTANTS
    c1 = c1  c2 = c2  c3 = c3  u1 = u1  u2 = u2  h1 = h1  h2 = h2
    Clients = {c1, c2}
    Users = {u1}
    Hosts = {h1, h2}
    HostOf <- TwoHosts
    AuthTypes = {"KeyFile"}
    Verdicts <- AlwaysAsk
    WorkerMayDie = TRUE
SPECIFICATION Spec
PROPERTIES AnswerIsForTheAsked
