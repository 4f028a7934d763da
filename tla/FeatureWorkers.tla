--------------------------- MODULE FeatureWorkers ---------------------------
(***************************************************************************)
(* Worker processes of the Veyon server: FeatureWorkerManager starts one   *)
(* process per feature, queues the messages of features until the process  *)
(* has connected back and said who it is, forwards them, and forgets the   *)
(* worker when its connection closes or the feature stops it.  The worker  *)
(* side is FeatureWorkerManagerConnection.                                 *)
(*                                                                         *)
(* A managed system worker is a child process of the server; an unmanaged  *)
(* session worker runs as the logged-on user and is known to the server by *)
(* its connection only.  Starting one fails while nobody is logged on, and *)
(* the message is sent again after a while.                                *)
(***************************************************************************)
EXTENDS Naturals, Sequences, FiniteSets, Functions

CONSTANTS
    Features,        \* the features workers are started for
    Managed,         \* those with managed system workers
    StopsOnAnswer,   \* those that stop their worker when it answers
    MayStop,         \* those that may stop their worker at other times
    Procs,           \* processes, each started once: bounds the starts
    NoProc,
    MaxSent,         \* bound: messages sent per feature
    MayEnd,          \* may workers end on their own, and users log off?
    MayShutdown      \* may the server be shut down?

ASSUME FeatureWorkersAssumption ==
    /\ Features # {}
    /\ Managed \subseteq Features /\ StopsOnAnswer \subseteq Features /\ MayStop \subseteq Features
    /\ IsFiniteSet(Procs) /\ NoProc \notin Procs
    /\ MaxSent \in Nat
    /\ MayEnd \in BOOLEAN /\ MayShutdown \in BOOLEAN

VARIABLES
    up,          \* is the server running?
    stopping,    \* the features that do stop their worker at other times: chosen at the start
    loggedOn,    \* is a user logged on, so that session workers can start?
    workers,     \* m_workers
    retries,     \* messages waiting for UnmanagedSessionProcessRetryInterval
    killTimers,  \* processes that are killed when their timer fires
    sent,        \* how many messages each feature has sent
    state,       \* of each process
    feature,     \* the feature each process is started for
    socket,      \* the server's side of the connection of each process
    toServer,    \* what each process has written and the server not read
    toWorker,    \* what the server has written and the process not read
    handled      \* the messages each process has handled

processVars == <<state, feature, socket, toServer, toWorker, handled>>
managerVars == <<workers, retries, killTimers, sent>>
vars == <<up, stopping, loggedOn, managerVars, processVars>>

Messages == [feature : Features, number : 1..MaxSent]
\* An entry of m_workers; `present' tells whether there is one.
Worker   == [present : BOOLEAN, process : Procs \cup {NoProc}, socket : Procs \cup {NoProc},
             pending : Seq(Messages)]
NoWorker == [present |-> FALSE, process |-> NoProc, socket |-> NoProc, pending |-> <<>>]

Init ==
    /\ up = TRUE
    /\ stopping \in {{}, MayStop}
    /\ loggedOn \in BOOLEAN
    /\ workers = [f \in Features |-> NoWorker]
    /\ retries = {}
    /\ killTimers = {}
    /\ sent = [f \in Features |-> 0]
    /\ state = [p \in Procs |-> "Absent"]
    /\ feature = [p \in Procs |-> CHOOSE f \in Features : TRUE]
    /\ socket = [p \in Procs |-> "None"]
    /\ toServer = [p \in Procs |-> <<>>]
    /\ toWorker = [p \in Procs |-> <<>>]
    /\ handled = [p \in Procs |-> <<>>]

-----------------------------------------------------------------------------
(* FeatureWorkerManager                                                    *)

IsWorkerRunning(f) == workers[f].present

\* A process is started; it has not connected yet.
StartProcess(p, f) ==
    /\ state[p] = "Absent"
    /\ state' = [state EXCEPT ![p] = "Started"]
    /\ feature' = [feature EXCEPT ![p] = f]
    /\ UNCHANGED <<socket, toServer, toWorker, handled>>

\* Mutant: the message is put in front of the queue.
EnqueueFirst(f, message) ==
    /\ workers' = [workers EXCEPT ![f].pending = <<message>> \o @]
    /\ UNCHANGED processVars

\* sendMessage(): the message joins the queue of its worker.
Enqueue(f, message) ==
    /\ workers' = [workers EXCEPT ![f].pending = Append(@, message)]
    /\ UNCHANGED processVars

\* startManagedSystemWorker() or startUnmanagedSessionWorker(), called when no
\* worker is there to be stopped first, followed by sendMessage().
StartAndEnqueue(f, message) ==
    \E p \in Procs :
        /\ StartProcess(p, f)
        /\ workers' = [workers EXCEPT ![f] =
             [present |-> TRUE, process |-> IF f \in Managed THEN p ELSE NoProc,
              socket |-> NoProc, pending |-> <<message>>]]

SendMessageToManagedSystemWorker(f, message) ==
    /\ f \in Managed
    /\ IF IsWorkerRunning(f) THEN Enqueue(f, message) ELSE StartAndEnqueue(f, message)
    /\ UNCHANGED retries

\* Mutant: managed workers are started as session workers, too.
SendMessageToUnmanagedSessionWorkerOfAny(f, message, waiting) ==
    /\ \/ /\ IsWorkerRunning(f) /\ Enqueue(f, message) /\ retries' = waiting
       \/ /\ ~IsWorkerRunning(f) /\ loggedOn
          /\ StartAndEnqueue(f, message) /\ retries' = waiting
       \/ /\ ~IsWorkerRunning(f) /\ ~loggedOn
          /\ retries' = waiting \cup {message}
          /\ UNCHANGED <<workers, processVars>>

\* `waiting' are the other messages that wait for a retry.
SendMessageToUnmanagedSessionWorker(f, message, waiting) ==
    /\ f \notin Managed
    /\ \/ /\ IsWorkerRunning(f) /\ Enqueue(f, message) /\ retries' = waiting
       \/ /\ ~IsWorkerRunning(f) /\ loggedOn
          /\ StartAndEnqueue(f, message) /\ retries' = waiting
       \/ /\ ~IsWorkerRunning(f) /\ ~loggedOn
          /\ retries' = waiting \cup {message}
          /\ UNCHANGED <<workers, processVars>>

\* A feature sends its next message.
Send(f) ==
    /\ up /\ sent[f] < MaxSent
    /\ LET message == [feature |-> f, number |-> sent[f] + 1]
       IN  \/ SendMessageToManagedSystemWorker(f, message)
           \/ SendMessageToUnmanagedSessionWorker(f, message, retries)
    /\ sent' = [sent EXCEPT ![f] = @ + 1]
    /\ UNCHANGED <<up, stopping, loggedOn, killTimers>>

\* A retry timer fires.
Retry(message) ==
    /\ up /\ message \in retries
    /\ SendMessageToUnmanagedSessionWorker(message.feature, message, retries \ {message})
    /\ UNCHANGED <<up, stopping, loggedOn, killTimers, sent>>

CloseSockets(P) == socket' = [p \in Procs |-> IF p \in P THEN "Closed" ELSE socket[p]]
Forget(w, F)    == [f \in Features |-> IF f \in F THEN NoWorker ELSE w[f]]

StopWorker(f) ==
    /\ up /\ IsWorkerRunning(f)
    /\ CloseSockets({workers[f].socket})
    /\ killTimers' = killTimers \cup ({workers[f].process} \ {NoProc})
    /\ workers' = Forget(workers, {f})
    /\ UNCHANGED <<up, stopping, loggedOn, retries, sent, state, feature, toServer, toWorker, handled>>

\* sendPendingMessages(): the queues of all workers that have a socket are
\* emptied and written to it; what a worker that has ended is sent is lost.
Drained(w) ==
    [f \in Features |-> IF w[f].socket # NoProc THEN [w[f] EXCEPT !.pending = <<>>] ELSE w[f]]
Written(w) ==
    [p \in Procs |->
        LET F == {f \in Features : w[f].socket = p}
        IN  IF F = {} \/ state[p] # "Connected" THEN toWorker[p]
            ELSE toWorker[p] \o w[CHOOSE f \in F : TRUE].pending]

\* The timer that runs every 100 ms.
SendPendingMessages ==
    /\ up
    /\ \E f \in Features : workers[f].socket # NoProc /\ workers[f].pending # <<>>
    /\ workers' = Drained(workers)
    /\ toWorker' = Written(workers)
    /\ UNCHANGED <<up, stopping, loggedOn, retries, killTimers, sent, state, feature, socket, toServer, handled>>

\* Mutant: the connection is never taken for the worker's.
AttachNever(w, p) == w

\* The connection that says it is of feature f becomes the worker's if the
\* worker has none: it may well be one of an earlier process.
Attach(w, p) ==
    LET f == feature[p]
    IN  IF w[f].present /\ w[f].socket = NoProc THEN [w EXCEPT ![f].socket = p] ELSE w

\* processConnection(), for the next message: Init, or an answer that the
\* feature handles and may stop its worker upon.  A connection that is new to
\* the worker gets the messages that wait.  An answer counts as one of the
\* present worker whatever connection it came from.
ProcessConnection(p) ==
    LET f     == feature[p]
        w     == Attach(workers, p)
        isNew == w # workers
        stops == Head(toServer[p]) = "Answer" /\ IsWorkerRunning(f) /\ f \in StopsOnAnswer
        still == IF isNew THEN Drained(w) ELSE w
    IN  /\ up /\ socket[p] \in {"Open", "Lost"} /\ toServer[p] # <<>>
        /\ toServer' = [toServer EXCEPT ![p] = Tail(@)]
        /\ toWorker' = IF isNew THEN Written(w) ELSE toWorker
        /\ workers' = IF stops THEN Forget(still, {f}) ELSE still
        /\ CloseSockets(IF stops THEN {w[f].socket} ELSE {})
        /\ killTimers' = IF stops /\ w[f].process # NoProc
                         THEN killTimers \cup {w[f].process} ELSE killTimers
        /\ UNCHANGED <<up, stopping, loggedOn, retries, sent, state, feature, handled>>

\* Mutant: the worker of a closed connection is kept.
CloseConnectionOnly(p) ==
    /\ up /\ socket[p] = "Lost" /\ toServer[p] = <<>>
    /\ CloseSockets({p})
    /\ UNCHANGED <<up, stopping, loggedOn, managerVars, state, feature, toServer, toWorker, handled>>

\* Mutant: all workers are erased, whatever their socket.
CloseConnectionOfAll(p) ==
    /\ up /\ socket[p] = "Lost" /\ toServer[p] = <<>>
    /\ workers' = Forget(workers, Features)
    /\ CloseSockets({p})
    /\ UNCHANGED <<up, stopping, loggedOn, retries, killTimers, sent, state, feature, toServer, toWorker, handled>>

CloseConnection(p) ==
    /\ up /\ socket[p] = "Lost" /\ toServer[p] = <<>>
    /\ workers' = Forget(workers, {f \in Features : workers[f].socket = p})
    /\ CloseSockets({p})
    /\ UNCHANGED <<up, stopping, loggedOn, retries, killTimers, sent, state, feature, toServer, toWorker, handled>>

\* A killed process takes its end of the connection with it.
Ends(p) ==
    /\ state' = [state EXCEPT ![p] = "Ended"]
    /\ socket' = [socket EXCEPT ![p] = IF @ = "Open" THEN "Lost" ELSE @]
    /\ toWorker' = [toWorker EXCEPT ![p] = <<>>]
    /\ UNCHANGED <<feature, toServer, handled>>

KillTimer(p) ==
    /\ up /\ p \in killTimers
    /\ killTimers' = killTimers \ {p}
    /\ IF state[p] = "Ended" THEN UNCHANGED processVars ELSE Ends(p)
    /\ UNCHANGED <<up, stopping, loggedOn, workers, retries, sent>>

\* The destructor: the port is closed and all workers are stopped, connections
\* nobody owns are closed with the port; no timer fires any more.
Shutdown ==
    /\ MayShutdown /\ up
    /\ up' = FALSE
    /\ CloseSockets({p \in Procs : socket[p] \in {"Open", "Lost"}})
    /\ workers' = Forget(workers, Features)
    /\ retries' = {} /\ killTimers' = {}
    /\ UNCHANGED <<stopping, loggedOn, sent, state, feature, toServer, toWorker, handled>>

-----------------------------------------------------------------------------
(* Worker processes and the user session                                   *)

\* tryConnection() succeeds, and sendInitMessage() says for which feature.
Connect(p) ==
    /\ up /\ state[p] = "Started"
    /\ state' = [state EXCEPT ![p] = "Connected"]
    /\ socket' = [socket EXCEPT ![p] = "Open"]
    /\ toServer' = [toServer EXCEPT ![p] = <<"Init">>]
    /\ UNCHANGED <<up, stopping, loggedOn, managerVars, feature, toWorker, handled>>

\* receiveMessage(): the feature handles a message and may answer.
ReceiveMessage(p) ==
    /\ state[p] = "Connected" /\ toWorker[p] # <<>>
    /\ toWorker' = [toWorker EXCEPT ![p] = Tail(@)]
    /\ handled' = [handled EXCEPT ![p] = Append(@, Head(toWorker[p]))]
    /\ toServer' \in {toServer, IF socket[p] = "Open" THEN [toServer EXCEPT ![p] = Append(@, "Answer")] ELSE toServer}
    /\ UNCHANGED <<up, stopping, loggedOn, managerVars, state, feature, socket>>

\* The server has closed the connection: the worker exits.
LostConnection(p) ==
    /\ state[p] = "Connected" /\ socket[p] = "Closed"
    /\ Ends(p)
    /\ UNCHANGED <<up, stopping, loggedOn, managerVars>>

\* A worker ends on its own: the user has closed its window, or it crashed.
ExitProcess(p) ==
    /\ MayEnd /\ state[p] \in {"Started", "Connected"}
    /\ Ends(p)
    /\ UNCHANGED <<up, stopping, loggedOn, managerVars>>

LogOn ==
    /\ ~loggedOn /\ loggedOn' = TRUE
    /\ UNCHANGED <<up, stopping, managerVars, processVars>>

\* The processes of the session end with it.
LogOff ==
    /\ MayEnd /\ loggedOn /\ loggedOn' = FALSE
    /\ LET P == {p \in Procs : feature[p] \notin Managed /\ state[p] \in {"Started", "Connected"}}
       IN  /\ state' = [p \in Procs |-> IF p \in P THEN "Ended" ELSE state[p]]
           /\ socket' = [p \in Procs |-> IF p \in P /\ socket[p] = "Open" THEN "Lost" ELSE socket[p]]
           /\ toWorker' = [p \in Procs |-> IF p \in P THEN <<>> ELSE toWorker[p]]
    /\ UNCHANGED <<up, stopping, managerVars, feature, toServer, handled>>

-----------------------------------------------------------------------------
ManagerStep ==
    \/ \E f \in Features : Send(f) \/ (f \in stopping /\ StopWorker(f))
    \/ \E message \in retries : Retry(message)
    \/ SendPendingMessages
    \/ Shutdown

ProcessStep(p) ==
    \/ ProcessConnection(p)
    \/ CloseConnection(p)
    \/ KillTimer(p)
    \/ Connect(p)
    \/ ReceiveMessage(p)
    \/ LostConnection(p)
    \/ ExitProcess(p)

Next == ManagerStep \/ LogOn \/ LogOff \/ \E p \in Procs : ProcessStep(p)

Spec == Init /\ [][Next]_vars

\* The event loops of server and workers run, their timers fire, and the kernel
\* delivers what was written.  Nothing is assumed of features and users.
Fairness ==
    /\ WF_vars(SendPendingMessages)
    /\ \A message \in Messages : WF_vars(Retry(message))
    /\ \A p \in Procs :
         /\ WF_vars(ProcessConnection(p))
         /\ WF_vars(CloseConnection(p))
         /\ WF_vars(KillTimer(p))
         /\ WF_vars(Connect(p))
         /\ WF_vars(ReceiveMessage(p))
         /\ WF_vars(LostConnection(p))

FairSpec == Spec /\ Fairness

-----------------------------------------------------------------------------
(* Invariants                                                              *)

\* The values each variable takes.
TypeOK ==
    /\ up \in BOOLEAN /\ loggedOn \in BOOLEAN /\ stopping \subseteq MayStop
    /\ workers \in [Features -> Worker]
    /\ retries \subseteq {m \in Messages : m.feature \notin Managed}
    /\ killTimers \subseteq Procs
    /\ sent \in [Features -> 0..MaxSent]
    /\ state \in [Procs -> {"Absent", "Started", "Connected", "Ended"}]
    /\ feature \in [Procs -> Features]
    /\ socket \in [Procs -> {"None", "Open", "Lost", "Closed"}]
    /\ toServer \in [Procs -> Seq({"Init", "Answer"})]
    /\ toWorker \in [Procs -> Seq(Messages)]
    /\ handled \in [Procs -> Seq(Messages)]

\* The connection of a worker belongs to a process of the feature, and is one
\* whose end the server has yet to be told about, if it has ended: a worker is
\* never tied to a connection that was closed before.
WorkerHasLiveConnection ==
    \A f \in Features : LET p == workers[f].socket IN
        p # NoProc => feature[p] = f /\ socket[p] \in {"Open", "Lost"}

\* Every process handles the messages of its own feature only, even when the
\* processes of stopped workers connect and answer late; and one of a managed
\* worker handles them in the order they were sent, each once, whether they waited
\* for it to connect or not.
HandledInOrder ==
    \A p \in Procs :
        LET f     == feature[p]
            queue == handled[p] \o toWorker[p] \o (IF workers[f].socket = p THEN workers[f].pending ELSE <<>>)
        IN  /\ \A m \in Range(queue) : m.feature = f
            /\ f \in Managed => \A i, j \in DOMAIN queue : i < j => queue[i].number < queue[j].number

-----------------------------------------------------------------------------
(* Liveness                                                                *)

\* While a user is logged on and no worker ends or is stopped (other than upon
\* its answer), every message is handled: whether it was queued before the
\* worker connected or kept for a retry because nobody was logged on.
MessagesAreHandled ==
    \A m \in Messages :
        (m.feature \notin stopping /\ m.number <= sent[m.feature] /\ loggedOn) ~>
            \/ \E p \in Procs : m \in Range(handled[p]) \/ state[p] = "Ended" \/ socket[p] = "Closed"
            \/ ~loggedOn \/ ~up

\* A managed worker the server has forgotten ends: nothing is left running that
\* no message can reach any more.  It holds if workers are stopped upon their
\* answers, when they have connected, and at no other time.
ForgottenWorkerEnds ==
    \A p \in Procs :
        (/\ feature[p] \in Managed \ stopping /\ state[p] \in {"Started", "Connected"}
         /\ workers[feature[p]].process # p)
            ~> (state[p] = "Ended" \/ ~up)
=============================================================================
