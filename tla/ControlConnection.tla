------------------------- MODULE ControlConnection -------------------------
(***************************************************************************)
(* The master's side of a connection to one computer.                      *)
(*                                                                         *)
(* ComputerControlInterface lives in the main thread.  It owns the current *)
(* connection, shows a state of its own and has a watchdog timer.  Every   *)
(* connection is a thread (VncConnection::run) that connects, handles the  *)
(* messages of the server, closes and starts again until it is told to     *)
(* stop.  The two sides share only the flags and the state of the          *)
(* connection, which are atomics, and the signals the thread emits, which  *)
(* the main thread handles later and in order.                             *)
(*                                                                         *)
(* A call of the main thread that reads shared state and then writes it is *)
(* several steps here, as the thread may take steps in between.  The data  *)
(* of messages and framebuffers is left out.                               *)
(***************************************************************************)
EXTENDS Naturals, Sequences, FiniteSets, SequencesExt

CONSTANTS
    Conns,       \* connection objects, each created once: bounds the starts
    NoConn,
    Failures,    \* the states a failed attempt can end in
    MaxSignals   \* bound: signals of a connection that wait in the main thread

ASSUME ControlConnectionAssumption ==
    /\ IsFiniteSet(Conns) /\ NoConn \notin Conns
    /\ Failures # {}
    /\ Failures \subseteq {"HostOffline", "HostNameResolutionFailed", "ServerNotRunning",
                           "AuthenticationFailed", "ConnectionFailed"}
    /\ MaxSignals \in Nat \ {0}

VARIABLES
    pc,          \* where the thread of each connection is
    vncState,    \* VncConnection::m_state
    terminate,   \* ControlFlag::TerminateThread
    restart,     \* ControlFlag::RestartConnection
    deleteAfter, \* ControlFlag::DeleteAfterFinished
    registered,  \* does the client know its VeyonConnection?
    fate,        \* has the deletion of the object been scheduled or done?
    connection,  \* m_connection of the interface
    state,       \* m_state of the interface
    watchdog,    \* is m_connectionWatchdogTimer running?
    signals,     \* emitted by the threads, not yet handled by the main thread
    main         \* what the call the main thread is in the middle of does next

flags         == <<terminate, restart, deleteAfter>>
connVars      == <<pc, vncState, flags, registered, fate>>
interfaceVars == <<connection, state, watchdog>>
vars          == <<connVars, interfaceVars, signals, main>>

States      == {"Disconnected", "Connecting", "Connected"} \cup Failures
ThreadSteps == {"Loop", "Try", "Init", "Handle", "Wait", "Close", "Check", "Exit"}
Signal      == [conn : Conns, kind : {"stateChanged", "reply", "denied"}]

Init ==
    /\ pc = [c \in Conns |-> "New"]
    /\ vncState = [c \in Conns |-> "Disconnected"]
    /\ terminate = [c \in Conns |-> FALSE]
    /\ restart = [c \in Conns |-> FALSE]
    /\ deleteAfter = [c \in Conns |-> FALSE]
    /\ registered = [c \in Conns |-> FALSE]
    /\ fate = [c \in Conns |-> "Alive"]
    /\ connection = NoConn
    /\ state = "Disconnected"
    /\ watchdog = FALSE
    /\ signals = <<>>
    /\ main = "Idle"

IsRunning(c)  == pc[c] \in ThreadSteps
CanEmit(c)    == Len(SelectSeq(signals, LAMBDA s : s.conn = c)) < MaxSignals
Emit(c, kind) == signals' = Append(signals, [conn |-> c, kind |-> kind])

-----------------------------------------------------------------------------
(* The thread of a connection.                                             *)

Goto(c, step) == pc' = [pc EXCEPT ![c] = step]

\* setState() emits stateChanged() when the state is another one.
SetState(c, s) ==
    /\ vncState' = [vncState EXCEPT ![c] = s]
    /\ IF vncState[c] = s THEN UNCHANGED signals ELSE Emit(c, "stateChanged")

\* run(): the loop, after the rest of the minimum connection time has been slept,
\* and the start of establishConnection().
Loop(c) ==
    /\ pc[c] = "Loop"
    /\ IF terminate[c]
       THEN Goto(c, "Check") /\ UNCHANGED <<vncState, restart, signals>>
       ELSE /\ CanEmit(c)
            /\ SetState(c, "Connecting")
            /\ restart' = [restart EXCEPT ![c] = FALSE]
            /\ Goto(c, "Try")
    /\ UNCHANGED <<terminate, deleteAfter, registered, fate>>

\* The loop of establishConnection(), after the wait that follows a failure: a client is prepared and registered with
\* its VeyonConnection, unless that has let go of the connection.
Try(c) ==
    /\ pc[c] = "Try"
    /\ IF terminate[c]
       THEN Goto(c, "Close") /\ UNCHANGED registered
       ELSE /\ registered' = [registered EXCEPT ![c] = connection = c]
            /\ Goto(c, "Init")
    /\ UNCHANGED <<vncState, flags, fate, signals>>

\* rfbInitClient() returns with the outcome s.
InitClient(c) ==
    /\ pc[c] = "Init"
    /\ IF terminate[c]
       THEN Goto(c, "Close") /\ UNCHANGED <<vncState, signals>>
       ELSE \E s \in {"Connected"} \cup Failures :
              /\ CanEmit(c)
              /\ SetState(c, s)
              /\ Goto(c, IF s = "Connected" THEN "Handle" ELSE "Try")
    /\ UNCHANGED <<flags, registered, fate>>

\* The condition of the loop of handleConnection().
MayHandle(c) == vncState[c] = "Connected" /\ ~terminate[c] /\ ~restart[c]

\* Its next turn.
Handle(c) ==
    /\ pc[c] = "Handle"
    /\ Goto(c, IF MayHandle(c) THEN "Wait" ELSE "Close")
    /\ UNCHANGED <<vncState, flags, registered, fate, signals>>

\* WaitForMessage() finds nothing to read: updates are requested and events sent.
WaitTimeout(c) == Goto(c, IF terminate[c] THEN "Close" ELSE "Handle") /\ UNCHANGED signals

\* The connection is broken, or a message cannot be handled.
WaitFails(c) == Goto(c, "Close") /\ UNCHANGED signals

\* A feature message arrives; handleVeyonMessage() fails when there is no
\* VeyonConnection to give it to.
ReceiveMessage(c, kind) ==
    /\ ~terminate[c] /\ registered[c] /\ CanEmit(c)
    /\ Emit(c, kind)
    /\ Goto(c, "Handle")

Wait(c) ==
    /\ pc[c] = "Wait"
    /\ \/ WaitTimeout(c)
       \/ WaitFails(c)
       \/ \E kind \in {"reply", "denied"} : ReceiveMessage(c, kind)
    /\ UNCHANGED <<vncState, flags, registered, fate>>

CloseConnection(c) ==
    /\ pc[c] = "Close" /\ CanEmit(c)
    /\ SetState(c, "Disconnected")
    /\ Goto(c, "Loop")
    /\ UNCHANGED <<flags, registered, fate>>

ScheduleDeletion(c) == fate' = [fate EXCEPT ![c] = "Scheduled"]

\* Mutant: every thread that ends has its object deleted.
CheckDeletionAlways(c) ==
    /\ pc[c] = "Check"
    /\ ScheduleDeletion(c)
    /\ Goto(c, "Exit")
    /\ UNCHANGED <<vncState, flags, registered, signals>>

\* run(), after the loop.
CheckDeletion(c) ==
    /\ pc[c] = "Check"
    /\ IF deleteAfter[c] THEN ScheduleDeletion(c) ELSE UNCHANGED fate
    /\ Goto(c, "Exit")
    /\ UNCHANGED <<vncState, flags, registered, signals>>

\* The thread has returned: isRunning() is FALSE from now on.
Exit(c) ==
    /\ pc[c] = "Exit"
    /\ Goto(c, "Finished")
    /\ UNCHANGED <<vncState, flags, registered, fate, signals>>

Thread(c) ==
    /\ \/ Loop(c) \/ Try(c) \/ InitClient(c) \/ Handle(c) \/ Wait(c)
       \/ CloseConnection(c) \/ CheckDeletion(c) \/ Exit(c)
    /\ UNCHANGED <<interfaceVars, main>>

-----------------------------------------------------------------------------
(* The main thread: ComputerControlInterface and the calls of VncConnection *)
(* it makes.                                                                *)

\* start(), which calls stop() first: a new connection, whose thread is started.
\* With a connection there, that is the action Stop and then this one.
Start(c) ==
    /\ main = "Idle" /\ connection = NoConn /\ pc[c] = "New"
    /\ connection' = c
    /\ pc' = [pc EXCEPT ![c] = "Loop"]
    /\ watchdog' = FALSE
    /\ state' = "Disconnected"
    /\ UNCHANGED <<vncState, flags, registered, fate, signals, main>>

\* stop(), called by start() or by the destructor.
Stop ==
    /\ main = "Idle" /\ connection # NoConn
    /\ main' = "Drop"
    /\ UNCHANGED <<connVars, interfaceVars, signals>>

\* The rest of stop(), after the connection has been told to go.
FinishStop ==
    /\ connection' = NoConn
    /\ watchdog' = FALSE
    /\ state' = "Disconnected"
    /\ main' = "Idle"

\* VeyonConnection::stopAndDeleteLater(), and VncConnection::stopAndDeleteLater()
\* up to its reading of isRunning().
Drop ==
    /\ main = "Drop"
    /\ registered' = [registered EXCEPT ![connection] = FALSE]
    /\ IF IsRunning(connection)
       THEN main' = "Mark" /\ UNCHANGED <<fate, interfaceVars>>
       ELSE ScheduleDeletion(connection) /\ FinishStop
    /\ UNCHANGED <<pc, vncState, flags, signals>>

\* Mutant: the thread is told to stop before it is told to have itself deleted.
SetFlagsStopFirst(c) ==
    /\ terminate' = [terminate EXCEPT ![c] = @ \/ main = "Mark"]
    /\ deleteAfter' = [deleteAfter EXCEPT ![c] = @ \/ main = "Stop"]

\* stopAndDeleteLater() sets DeleteAfterFinished first and lets stop() set
\* TerminateThread then.
SetFlags(c) ==
    /\ deleteAfter' = [deleteAfter EXCEPT ![c] = @ \/ main = "Mark"]
    /\ terminate' = [terminate EXCEPT ![c] = @ \/ main = "Stop"]

\* VncConnection::stopAndDeleteLater() of a thread that was running.
MarkAndStop ==
    /\ main \in {"Mark", "Stop"}
    /\ SetFlags(connection)
    /\ IF main = "Mark"
       THEN main' = "Stop" /\ UNCHANGED interfaceVars
       ELSE FinishStop
    /\ UNCHANGED <<pc, vncState, restart, registered, fate, signals>>

\* Mutant: the thread is started with its flag still set.
RestartUncleared(c) ==
    /\ pc' = [pc EXCEPT ![c] = "Loop"]
    /\ UNCHANGED <<main, terminate>>

\* restart() of a thread that is not running.
RestartFinished(c) ==
    /\ terminate' = [terminate EXCEPT ![c] = FALSE]
    /\ pc' = [pc EXCEPT ![c] = "Loop"]
    /\ UNCHANGED main

\* The watchdog fires: restartConnection(), up to the reading of isRunning().
RestartConnection ==
    /\ main = "Idle" /\ watchdog
    /\ watchdog' = FALSE
    /\ IF connection # NoConn /\ ~IsRunning(connection)
       THEN RestartFinished(connection)
       ELSE /\ main' = IF connection = NoConn THEN main ELSE "Restart"
            /\ UNCHANGED <<terminate, pc>>
    /\ UNCHANGED <<vncState, restart, deleteAfter, registered, fate, connection, state, signals>>

\* restart() of a thread that was running.
RestartRunning ==
    /\ main = "Restart"
    /\ restart' = [restart EXCEPT ![connection] = TRUE]
    /\ main' = "Idle"
    /\ UNCHANGED <<pc, vncState, terminate, deleteAfter, registered, fate, interfaceVars, signals>>

\* Mutant: a failed access control is shown whatever the connection does.
ShownStateOnceDenied ==
    IF connection = NoConn THEN "Disconnected"
    ELSE IF state = "AccessControlFailed" THEN state
    ELSE vncState[connection]

\* Mutant: there is no state to show without a connection.
ShownStateOrNone == IF connection = NoConn THEN "None" ELSE vncState[connection]

\* The state updateState() gives the interface.
ShownState ==
    IF connection = NoConn THEN "Disconnected"
    ELSE IF state = "AccessControlFailed" /\ vncState[connection] = "Disconnected" THEN state
    ELSE vncState[connection]

UpdateState == state' = ShownState /\ UNCHANGED <<connection, watchdog, terminate>>

\* resetWatchdog(), once the interface is in state s.
ResetWatchdog(s) == watchdog' = (watchdog \/ s \in {"Connected", "AccessControlFailed"})

\* Any feature message other than the following one; it may be a reply to ping().
HandleReply == ResetWatchdog(state) /\ UNCHANGED <<connection, state, terminate>>

\* AccessControlProvider::handleFeatureMessage() calls setAccessControlFailed(),
\* which stops the connection the interface has now.
SetAccessControlFailed ==
    /\ state' = "AccessControlFailed"
    /\ terminate' = [c \in Conns |-> terminate[c] \/ c = connection]
    /\ ResetWatchdog("AccessControlFailed")
    /\ UNCHANGED connection

\* The main thread handles the next signal.
HandleSignal ==
    /\ main = "Idle" /\ signals # <<>>
    /\ \/ Head(signals).kind = "stateChanged" /\ UpdateState
       \/ Head(signals).kind = "reply" /\ HandleReply
       \/ Head(signals).kind = "denied" /\ SetAccessControlFailed
    /\ signals' = Tail(signals)
    /\ UNCHANGED <<pc, vncState, restart, deleteAfter, registered, fate, main>>

\* The timer of deleteLaterInMainThread() fires; the destructor waits for the
\* thread, which has nothing left to do.
Delete(c) ==
    /\ main = "Idle" /\ fate[c] = "Scheduled" /\ ~IsRunning(c)
    /\ fate' = [fate EXCEPT ![c] = "Deleted"]
    /\ UNCHANGED <<pc, vncState, flags, registered, interfaceVars, signals, main>>

Call == Drop \/ MarkAndStop \/ RestartRunning

Next ==
    \/ \E c \in Conns : Thread(c)
    \/ \E c \in Conns : Start(c)
    \/ Stop
    \/ Call
    \/ RestartConnection
    \/ HandleSignal
    \/ \E c \in Conns : Delete(c)

Spec == Init /\ [][Next]_vars

\* Every wait of a thread has a timeout (the message wait, the read and connect
\* timeouts, the retry interval), and the main thread runs an event loop that
\* handles signals and timers in turn: a deletion that is due is not put off for
\* ever by other events.  Nobody has to start or stop anything.
Fairness ==
    /\ \A c \in Conns : WF_vars(Thread(c)) /\ SF_vars(Delete(c))
    /\ WF_vars(Call)
    /\ WF_vars(RestartConnection)
    /\ WF_vars(HandleSignal)

FairSpec == Spec /\ Fairness

-----------------------------------------------------------------------------
(* Properties                                                              *)

TypeOK ==
    /\ pc \in [Conns -> ThreadSteps \cup {"New", "Finished"}]
    /\ vncState \in [Conns -> States]
    /\ terminate \in [Conns -> BOOLEAN]
    /\ restart \in [Conns -> BOOLEAN]
    /\ deleteAfter \in [Conns -> BOOLEAN]
    /\ registered \in [Conns -> BOOLEAN]
    /\ fate \in [Conns -> {"Alive", "Scheduled", "Deleted"}]
    /\ connection \in Conns \cup {NoConn}
    /\ state \in States \cup {"AccessControlFailed"}
    /\ watchdog \in BOOLEAN
    /\ signals \in Seq(Signal)
    /\ main \in {"Idle", "Drop", "Mark", "Stop", "Restart"}

\* Whenever the interface shows another state than its connection is in, either
\* the change is about to be signalled to it, or the computer has denied access
\* and the connection is closed or told to stop: updateState() never leaves a
\* wrong state behind.
ShownStateIsDue ==
    connection # NoConn /\ state # vncState[connection] =>
        \/ \E i \in DOMAIN signals : signals[i] = [conn |-> connection, kind |-> "stateChanged"]
        \/ /\ state = "AccessControlFailed"
           /\ vncState[connection] = "Disconnected" \/ terminate[connection]

\* An object whose deletion has been scheduled is no longer the connection of
\* the interface (unless stop() is just about to let go of it) and its thread
\* runs no more than the end of run(): nobody uses it once it is deleted.
DeletedIsUnused ==
    \A c \in Conns : fate[c] # "Alive" =>
        /\ connection = c => main \in {"Mark", "Stop"}
        /\ pc[c] \in {"Exit", "Finished"}

\* A connection that is dropped before it was told to stop for another reason is
\* deleted: by the thread if it sees DeleteAfterFinished, else by the caller.
DroppedIsDeleted ==
    \A c \in Conns :
        main = "Drop" /\ connection = c /\ ~terminate[c] ~> fate[c] = "Deleted"

\* A connection that has ended because access was denied tries to connect again
\* once the watchdog fires, provided that no message of an earlier attempt is left
\* that stops it anew.
DeniedIsRetried ==
    \A c \in Conns :
        connection = c /\ watchdog /\ signals = <<>> /\ (\A d \in Conns : ~IsRunning(d))
            ~> vncState[c] = "Connecting" \/ connection # c
=============================================================================
