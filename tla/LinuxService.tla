---------------------------- MODULE LinuxService ----------------------------
(***************************************************************************)
(* The system service on Linux.  It starts a server process in every       *)
(* graphical session of the login manager, or in the latest one only, and  *)
(* stops it with the session.  PlatformSessionManager gives each server    *)
(* the number its port derives from.                                       *)
(*                                                                         *)
(* The login manager announces sessions by signals and answers questions   *)
(* about them; the two are not in step: a session can be listed before its *)
(* signal arrives, and be closing or gone when it is handled.  A session   *)
(* that is not ready is tried again by a timer; nothing cancels a timer.   *)
(***************************************************************************)
EXTENDS Integers, Sequences, FiniteSets, FiniteSetsExt, Functions

CONSTANTS
    Sessions,             \* paths of the graphical sessions, not used twice by the login manager
    Configurations        \* the modes and maximumSessionCount() the service may be configured with;
                          \* Active behaves like Local here

ASSUME LinuxServiceAssumption ==
    Configurations \subseteq [mode : {"Local", "Active", "Multi"}, maximum : Nat]

VARIABLES
    config,           \* m_mode and m_maximumSessionCount of the session manager
    login,            \* the state of each session at the login manager
    environ,          \* sessions whose leader has an environment
    mature,           \* sessions older than minimumUserSessionLifetime
    signals,          \* signals of the login manager not yet handled
    connected,        \* do its signals arrive?
    running,          \* has run() been called?
    visiting,         \* sessions the loop of startServers() has yet to visit
    serverProcesses,  \* m_serverProcesses
    sessions,         \* m_sessions of the session manager
    deferred,         \* m_deferredServerSessions
    timers,           \* how many timers of deferServerStart() run for each session
    lost              \* servers that were replaced in m_serverProcesses but not stopped

loginVars   == <<login, environ, mature>>
serviceVars == <<serverProcesses, sessions, deferred, timers, lost>>
vars == <<config, loginVars, signals, connected, running, visiting, serviceVars>>

InvalidSessionId == -1
SessionIds       == 0..(config.maximum - 1)
Signal(type, s)  == [type |-> type, session |-> s]

\* An entry of m_serverProcesses: the process and the number it was created
\* with.  NotRunning: it has ended and ServerRestartInterval goes by.
Server(state, number) == [state |-> state, number |-> number]
NoServer              == Server("None", InvalidSessionId)
NoServers             == [s \in Sessions |-> NoServer]
NoSessions            == [s \in Sessions |-> InvalidSessionId]
Known(s)              == serverProcesses[s] # NoServer
AnyKnown              == \E s \in Sessions : Known(s)

Multi == config.mode = "Multi"

Init ==
    /\ config \in Configurations
    /\ login = [s \in Sessions |-> "Absent"]
    /\ environ = {} /\ mature = {}
    /\ signals = <<>>
    /\ connected \in BOOLEAN
    /\ running = FALSE
    /\ visiting = {}
    /\ serverProcesses = NoServers
    /\ sessions = NoSessions
    /\ deferred = {}
    /\ timers = [s \in Sessions |-> 0]
    /\ lost = {}

-----------------------------------------------------------------------------
(* The login manager.  What it emits while the service is not connected is *)
(* lost.                                                                   *)

Exists(s) == login[s] \notin {"Absent", "Removed"}
Listed    == {s \in Sessions : Exists(s)}

Emit(type, s) == signals' = IF connected THEN Append(signals, Signal(type, s)) ELSE signals

LoginManager == UNCHANGED <<config, connected, running, visiting, serviceVars>>

SessionNew(s) ==
    /\ LoginManager
    /\ login[s] = "Absent"
    /\ login' = [login EXCEPT ![s] = "Opening"]
    /\ Emit("SessionNew", s)
    /\ UNCHANGED <<environ, mature>>

SessionOpened(s) ==
    /\ LoginManager
    /\ login[s] = "Opening"
    /\ login' = [login EXCEPT ![s] = "Active"]
    /\ UNCHANGED <<environ, mature, signals>>

SessionClosing(s) ==
    /\ LoginManager
    /\ login[s] \in {"Opening", "Active"}
    /\ login' = [login EXCEPT ![s] = "Closing"]
    /\ UNCHANGED <<environ, mature, signals>>

SessionRemoved(s) ==
    /\ LoginManager
    /\ login[s] = "Closing"
    /\ login' = [login EXCEPT ![s] = "Removed"]
    /\ environ' = environ \ {s} /\ mature' = mature \ {s}
    /\ Emit("SessionRemoved", s)

\* The leader of the session has set up its environment.
EnvironmentReady(s) ==
    /\ LoginManager
    /\ Exists(s) /\ s \notin environ
    /\ environ' = environ \cup {s}
    /\ UNCHANGED <<login, mature, signals>>

Matures(s) ==
    /\ LoginManager
    /\ Exists(s) /\ s \notin mature
    /\ mature' = mature \cup {s}
    /\ UNCHANGED <<login, environ, signals>>

-----------------------------------------------------------------------------
(* PlatformSessionManager *)

\* openSession(s) with the map m: the number and the map afterwards.
\* Mutant: the loop ends at the maximum, not before.
OpenedNumberBeyond(m) == LET free == (SessionIds \cup {config.maximum}) \ Range(m)
                         IN  IF free = {} THEN InvalidSessionId ELSE Min(free)
OpenedNumber(m) == LET free == SessionIds \ Range(m)
                   IN  IF free = {} THEN InvalidSessionId ELSE Min(free)
OpenSession(m, s) == IF OpenedNumber(m) = InvalidSessionId THEN m ELSE [m EXCEPT ![s] = OpenedNumber(m)]

-----------------------------------------------------------------------------
(* Starting and stopping servers: the handlers share these. *)

\* Mutant: the numbers of the sessions are kept.
StopServersKeepingNumbers(S) ==
    /\ serverProcesses' = [s \in Sessions |-> IF s \in S THEN NoServer ELSE serverProcesses[s]]
    /\ UNCHANGED sessions

\* stopServer() of each session of S, with closeSession().
StopServers(S) ==
    /\ serverProcesses' = [s \in Sessions |-> IF s \in S THEN NoServer ELSE serverProcesses[s]]
    /\ sessions' = [s \in Sessions |-> IF s \in S THEN InvalidSessionId ELSE sessions[s]]

\* Mutant: a session that is in the list already gets no timer.
DeferServerStartOnce(s, t) ==
    /\ timers' = IF s \in deferred THEN t ELSE [t EXCEPT ![s] = @ + 1]
    /\ deferred' = deferred \cup {s}

\* deferServerStart(), with the timers t that run already.
DeferServerStart(s, t) ==
    /\ timers' = [t EXCEPT ![s] = @ + 1]
    /\ deferred' = deferred \cup {s}

\* getSessionState() answers Unknown, and getSessionType() Unspecified, for a
\* session that was removed.  In sessions of type TTY no server starts either:
\* they are not modelled.
Ignored(s)  == login[s] \notin {"Opening", "Active"}
\* Opening, or without an environment yet.  An active session has a leader.
NotReady(s) == login[s] = "Opening" \/ s \notin environ

\* Except in Multi mode the other servers are stopped first.
Remaining(all, none) == IF Multi THEN all ELSE none

LaunchServer(s) ==
    LET processes == Remaining(serverProcesses, NoServers)
        numbers   == Remaining(sessions, NoSessions)
    IN  /\ serverProcesses' = [processes EXCEPT ![s] = Server("Starting", OpenedNumber(numbers))]
        /\ sessions' = OpenSession(numbers, s)
        /\ lost' = lost \cup ({[session |-> s, state |-> processes[s].state]} \ {[session |-> s, state |-> "None"]})

\* startServer(), while the timers t run.
StartServer(s, t) ==
    \/ /\ Ignored(s)
       /\ timers' = t
       /\ UNCHANGED <<serverProcesses, sessions, deferred, lost>>
    \/ /\ ~Ignored(s) /\ NotReady(s)
       /\ DeferServerStart(s, t)
       /\ UNCHANGED <<serverProcesses, sessions, lost>>
    \/ /\ ~Ignored(s) /\ ~NotReady(s) /\ s \notin mature
       /\ StopServers(Remaining({}, Sessions))
       /\ DeferServerStart(s, t)
       /\ UNCHANGED lost
    \/ /\ ~Ignored(s) /\ ~NotReady(s) /\ s \in mature
       /\ LaunchServer(s)
       /\ deferred' = deferred \ {s}
       /\ timers' = t

-----------------------------------------------------------------------------
(* LinuxServiceCore: its handlers run one at a time in the event loop.     *)
(* The loop of startServers() asks the login manager about one session     *)
(* after the other.                                                        *)

Service == UNCHANGED <<config, loginVars>>
Handler == Service /\ running /\ visiting = {}

\* The retry after LoginManagerReconnectInterval.
ConnectToLoginManager ==
    /\ Handler
    /\ ~connected
    /\ connected' = TRUE
    /\ UNCHANGED <<signals, running, visiting, serviceVars>>

Run ==
    /\ Service
    /\ ~running
    /\ running' = TRUE
    /\ visiting' = Listed
    /\ UNCHANGED <<signals, connected, serviceVars>>

VisitSession(s) ==
    /\ Service
    /\ s \in visiting
    /\ visiting' = visiting \ {s}
    /\ IF ~Known(s) /\ s \notin deferred /\ (Multi \/ ~AnyKnown)
       THEN StartServer(s, timers)
       ELSE UNCHANGED serviceVars
    /\ UNCHANGED <<signals, connected, running>>

HandleSessionNew ==
    /\ Handler
    /\ signals # <<>> /\ Head(signals).type = "SessionNew"
    /\ signals' = Tail(signals)
    /\ StartServer(Head(signals).session, timers)
    /\ UNCHANGED <<connected, running, visiting>>

\* Mutant: a server that is about to be restarted is passed over.
HandleSessionRemovedIfRunning ==
    /\ Handler
    /\ signals # <<>> /\ Head(signals).type = "SessionRemoved"
    /\ signals' = Tail(signals)
    /\ LET s == Head(signals).session
       IN  IF serverProcesses[s].state \in {"Starting", "Running"}
           THEN /\ StopServers({s})
                /\ visiting' = IF Multi THEN {} ELSE Listed
           ELSE UNCHANGED <<serverProcesses, sessions, visiting>>
    /\ UNCHANGED <<connected, running, deferred, timers, lost>>

HandleSessionRemoved ==
    /\ Handler
    /\ signals # <<>> /\ Head(signals).type = "SessionRemoved"
    /\ signals' = Tail(signals)
    /\ LET s == Head(signals).session
       IN  IF Known(s)
           THEN /\ StopServers({s})
                /\ visiting' = IF Multi THEN {} ELSE Listed
           ELSE UNCHANGED <<serverProcesses, sessions, visiting>>
    /\ UNCHANGED <<connected, running, deferred, timers, lost>>

DeferredStart(s) ==
    /\ Handler
    /\ timers[s] > 0
    /\ StartServer(s, [timers EXCEPT ![s] = @ - 1])
    /\ UNCHANGED <<signals, connected, running, visiting>>

\* checkSessionState(), called when the process of s enters a state.
CheckSessionState(s, state) ==
    IF login[s] \in {"Closing", "Removed"}
    THEN StopServers({s})
    ELSE /\ serverProcesses' = [serverProcesses EXCEPT ![s].state = state]
         /\ UNCHANGED sessions

ProcessEvent == Handler /\ UNCHANGED <<signals, connected, running, visiting, deferred, timers>>

ServerRuns(s) ==
    /\ ProcessEvent
    /\ serverProcesses[s].state = "Starting"
    /\ CheckSessionState(s, "Running")
    /\ UNCHANGED lost

\* The server could not be started, or it has ended by itself.
ServerEnds(s) ==
    /\ ProcessEvent
    /\ serverProcesses[s].state \in {"Starting", "Running"}
    /\ CheckSessionState(s, "NotRunning")
    /\ UNCHANGED lost

RestartServer(s) ==
    /\ ProcessEvent
    /\ serverProcesses[s].state = "NotRunning"
    /\ CheckSessionState(s, "Starting")
    /\ UNCHANGED lost

\* A replaced server changes its state: checkSessionState() looks at the
\* server that took its place.
LostServerChanges(l) ==
    /\ ProcessEvent
    /\ \/ l.state = "Starting" /\ lost' = (lost \ {l}) \cup {[l EXCEPT !.state = "Running"]}
       \/ l.state # "NotRunning" /\ lost' = lost \ {l}
       \/ l.state = "NotRunning" /\ lost' = (lost \ {l}) \cup {[l EXCEPT !.state = "Starting"]}
    /\ CheckSessionState(l.session, serverProcesses[l.session].state)

-----------------------------------------------------------------------------
Next ==
    \/ \E s \in Sessions : \/ SessionNew(s) \/ SessionOpened(s) \/ SessionClosing(s) \/ SessionRemoved(s)
                           \/ EnvironmentReady(s) \/ Matures(s)
    \/ ConnectToLoginManager
    \/ Run
    \/ HandleSessionNew
    \/ HandleSessionRemoved
    \/ \E s \in Sessions : \/ VisitSession(s) \/ DeferredStart(s)
                           \/ ServerRuns(s) \/ ServerEnds(s) \/ RestartServer(s)
    \/ \E l \in lost : LostServerChanges(l)

Spec == Init /\ [][Next]_vars

\* The event loop of the service runs, and time goes by; what the users, the
\* login manager and the servers do is up to them.
Fairness ==
    /\ WF_vars(Run)
    /\ WF_vars(HandleSessionNew)
    /\ WF_vars(HandleSessionRemoved)
    /\ \A s \in Sessions : /\ WF_vars(Matures(s))
                           /\ WF_vars(VisitSession(s))
                           /\ WF_vars(DeferredStart(s))
                           /\ WF_vars(RestartServer(s))

FairSpec == Spec /\ Fairness

-----------------------------------------------------------------------------
(* Properties *)

ServerStates == {"Starting", "Running", "NotRunning"}

TypeOK ==
    /\ config \in Configurations
    /\ login \in [Sessions -> {"Absent", "Opening", "Active", "Closing", "Removed"}]
    /\ environ \subseteq Sessions /\ mature \subseteq Sessions
    /\ signals \in Seq([type : {"SessionNew", "SessionRemoved"}, session : Sessions])
    /\ connected \in BOOLEAN /\ running \in BOOLEAN
    /\ visiting \subseteq Sessions
    /\ serverProcesses \in [Sessions -> {NoServer} \cup [state : ServerStates, number : SessionIds \cup {InvalidSessionId}]]
    /\ sessions \in [Sessions -> SessionIds \cup {InvalidSessionId}]
    /\ deferred \subseteq Sessions
    /\ timers \in [Sessions -> Nat]
    /\ lost \subseteq [session : Sessions, state : ServerStates]

\* Except in Multi mode no two servers are ever alive together, whatever timers
\* are left of sessions that were deferred more than once.  In Multi mode a
\* session may get a second server when it is listed by startServers() before
\* its signal is handled; it never gets a third one.  The map of the session
\* manager, by which servers and masters find the number of a session, agrees
\* with the numbers the servers were created with, gives no number to two sessions
\* and keeps none for a session that has no server.
ServersAreApart ==
    /\ ~Multi => /\ lost = {}
                 /\ \A s, t \in Sessions : Known(s) /\ Known(t) => s = t
    /\ \A k, l \in lost : k.session = l.session => k = l
    /\ \A s \in Sessions :
         /\ serverProcesses[s].number # InvalidSessionId => sessions[s] = serverProcesses[s].number
         /\ sessions[s] # InvalidSessionId => Known(s) /\ \A t \in Sessions \ {s} : sessions[t] # sessions[s]

SignalPending(type, s) == \E i \in DOMAIN signals : signals[i] = Signal(type, s)

\* No signal having been missed, a session that was removed has no server in
\* m_serverProcesses any more once its signal was handled: neither a timer, nor
\* the loop of startServers(), nor a restart brings one back.
RemovedIsStopped ==
    connected => [](\A s \in Sessions : login[s] = "Removed" /\ ~SignalPending("SessionRemoved", s) => ~Known(s))

\* A session that is active, with its environment, and stays so.
Stays(s) == <>[](login[s] = "Active" /\ s \in environ)

\* No signal having been missed, such a session has a server in the end, which
\* is started again whenever it ends; except in Multi mode some session has,
\* provided that none is closed in the meantime.
ActiveIsServed ==
    connected => \A s \in Sessions :
        Stays(s) => \/ Multi /\ <>[]Known(s)
                    \/ ~Multi /\ <>[]AnyKnown
                    \/ ~Multi /\ <>(\E t \in Sessions : login[t] = "Closing")

\* stopServer() promises "to (re-)start server instances for preempted/suspended
\* sessions such as the login manager session" when another one is removed.
PreemptedIsRestarted ==
    connected /\ ~Multi => \A s \in Sessions : Stays(s) => <>[]AnyKnown
=============================================================================
