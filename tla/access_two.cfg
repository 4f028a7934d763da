\* Two clients, two users, any verdict at every check, workers that may die.
CONSTANTS
    c1 = c1  c2 = c2  c3 = c3  u1 = u1  u2 = u2  h1 = h1  h2 = h2
    Clients = {c1, c2}
    Users = {u1, u2}
    Hosts = {h1}
    HostOf <- OneHost
    AuthTypes = {"KeyFile", "Token"}
    Verdicts <- AnyVerdict
    WorkerMayDie = TRUE
SPECIFICATION FairSpec
INVARIANTS TypeOK ListIsTheGranted PendingWillBeAnswered ServedHasBeenDecided
PROPERTIES ChoiceSticks DenialIsFinal PendingIsResolved DeniedIsDisconnected ImplementsGate
