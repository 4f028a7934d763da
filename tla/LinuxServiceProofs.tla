-------------------------- MODULE LinuxServiceProofs --------------------------
(* Theorems about LinuxService, for any sessions and configurations.       *)
EXTENDS LinuxService, WellFoundedInduction, TLAPS

-----------------------------------------------------------------------------
(* Numbers                                                                 *)

\* openSession() finds a number that no session has, if there is one.
LEMMA OpenedNumberIsFree ==
    ASSUME config \in Configurations, NEW m
    PROVE  /\ OpenedNumber(m) \in SessionIds \cup {InvalidSessionId}
           /\ OpenedNumber(m) # InvalidSessionId => OpenedNumber(m) \notin Range(m)
<1> DEFINE free == SessionIds \ Range(m)
<1>1. SessionIds \subseteq Nat
  BY LinuxServiceAssumption DEF SessionIds
<1>2. CASE free = {}
  BY <1>2 DEF OpenedNumber
<1>3. CASE free # {}
  <2> DEFINE R == {ss \in Nat \X Nat : ss[1] < ss[2]}
  <2>1. IsWellFoundedOn(R, Nat)
    <3>1. OpToRel(<, Nat) = R
      BY DEF OpToRel
    <3>2. QED
      BY <3>1, NatLessThanWellFounded, Zenon
  <2> HIDE DEF R
  <2>2. PICK n \in free : \A k \in free : <<k, n>> \notin R
    BY <1>1, <1>3, <2>1, WFMin
  <2>3. \A k \in free : n <= k
    <3>1. ASSUME NEW k \in free, ~(n <= k) PROVE FALSE
      <4>1. k \in Nat /\ n \in Nat /\ k < n
        BY <1>1, <3>1
      <4>2. <<k, n>> \in R
        BY <4>1 DEF R
      <4>3. QED
        BY <2>2, <4>2
    <3>2. QED
      BY <3>1
  <2>4. Min(free) \in free
    BY <2>3, Zenon DEF Min
  <2>5. OpenedNumber(m) = Min(free)
    BY <1>3 DEF OpenedNumber
  <2>6. QED
    BY <2>4, <2>5
<1>4. QED
  BY <1>2, <1>3

-----------------------------------------------------------------------------
(* Types                                                                   *)

AnySignal == [type : {"SessionNew", "SessionRemoved"}, session : Sessions]

Entries == [state : ServerStates, number : SessionIds \cup {InvalidSessionId}]

\* There is a server exactly when it is in a state of one.
LEMMA KnownServers ==
    ASSUME TypeOK, NEW s \in Sessions
    PROVE  /\ Known(s) => serverProcesses[s] \in Entries
           /\ Known(s) <=> serverProcesses[s].state \in ServerStates
           /\ ~Known(s) => serverProcesses[s].state = "None" /\ serverProcesses[s].number = InvalidSessionId
BY DEF TypeOK, Known, NoServer, Server, Entries, ServerStates

LEMMA InitType == Init => TypeOK
<1> SUFFICES ASSUME Init PROVE TypeOK
  OBVIOUS
<1>1. login \in [Sessions -> {"Absent", "Opening", "Active", "Closing", "Removed"}]
  BY DEF Init
<1>2. /\ serverProcesses \in [Sessions -> {NoServer} \cup Entries]
      /\ sessions \in [Sessions -> SessionIds \cup {InvalidSessionId}]
      /\ timers \in [Sessions -> Nat]
  BY DEF Init, NoServers, NoSessions
<1>3. signals \in Seq(AnySignal)
  BY DEF Init
<1>4. QED
  BY <1>1, <1>2, <1>3 DEF Init, TypeOK, Entries, AnySignal

LEMMA StopServersType ==
    ASSUME TypeOK, UNCHANGED config, NEW S, StopServers(S)
    PROVE  /\ serverProcesses' \in [Sessions -> {NoServer} \cup Entries]'
           /\ sessions' \in [Sessions -> SessionIds \cup {InvalidSessionId}]'
BY DEF TypeOK, StopServers, Entries, SessionIds, NoServer, Server, ServerStates

LEMMA LaunchServerType ==
    ASSUME TypeOK, UNCHANGED config, NEW s \in Sessions, LaunchServer(s)
    PROVE  /\ serverProcesses' \in [Sessions -> {NoServer} \cup Entries]'
           /\ sessions' \in [Sessions -> SessionIds \cup {InvalidSessionId}]'
           /\ lost' \subseteq [session : Sessions, state : ServerStates]
<1> DEFINE processes == Remaining(serverProcesses, NoServers)
           numbers   == Remaining(sessions, NoSessions)
<1>1. /\ processes \in [Sessions -> {NoServer} \cup Entries]
      /\ numbers \in [Sessions -> SessionIds \cup {InvalidSessionId}]
  BY DEF TypeOK, Remaining, NoServers, NoSessions, Entries
<1>2. OpenedNumber(numbers) \in SessionIds \cup {InvalidSessionId}
  BY OpenedNumberIsFree DEF TypeOK
<1>3. Server("Starting", OpenedNumber(numbers)) \in Entries
  BY <1>2 DEF Server, Entries, ServerStates
<1>4. OpenSession(numbers, s) \in [Sessions -> SessionIds \cup {InvalidSessionId}]
  BY <1>1, <1>2 DEF OpenSession
<1>5. processes[s].state \in ServerStates \cup {"None"}
  BY <1>1 DEF Entries, NoServer, Server
<1>6. /\ serverProcesses' = [processes EXCEPT ![s] = Server("Starting", OpenedNumber(numbers))]
      /\ sessions' = OpenSession(numbers, s)
      /\ lost' = lost \cup ({[session |-> s, state |-> processes[s].state]} \ {[session |-> s, state |-> "None"]})
  BY DEF LaunchServer
<1> HIDE DEF processes, numbers
<1>7. /\ serverProcesses' \in [Sessions -> {NoServer} \cup Entries]
      /\ sessions' \in [Sessions -> SessionIds \cup {InvalidSessionId}]
  BY <1>1, <1>3, <1>4, <1>6
<1>8. lost' \subseteq [session : Sessions, state : ServerStates]
  BY <1>5, <1>6 DEF TypeOK
<1>9. QED
  BY <1>7, <1>8 DEF Entries, SessionIds

LEMMA StartServerType ==
    ASSUME TypeOK, UNCHANGED config, NEW s \in Sessions, NEW t \in [Sessions -> Nat], StartServer(s, t)
    PROVE  /\ serverProcesses' \in [Sessions -> {NoServer} \cup Entries]'
           /\ sessions' \in [Sessions -> SessionIds \cup {InvalidSessionId}]'
           /\ deferred' \subseteq Sessions /\ timers' \in [Sessions -> Nat]
           /\ lost' \subseteq [session : Sessions, state : ServerStates]
<1>1. CASE Ignored(s) /\ timers' = t /\ UNCHANGED <<serverProcesses, sessions, deferred, lost>>
  BY <1>1 DEF TypeOK, Entries, SessionIds
<1>2. CASE DeferServerStart(s, t) /\ UNCHANGED <<serverProcesses, sessions, lost>>
  BY <1>2 DEF TypeOK, Entries, SessionIds, DeferServerStart
<1>3. CASE StopServers(Remaining({}, Sessions)) /\ DeferServerStart(s, t) /\ UNCHANGED lost
  BY <1>3, StopServersType DEF TypeOK, DeferServerStart
<1>4. CASE LaunchServer(s) /\ deferred' = deferred \ {s} /\ timers' = t
  BY <1>4, LaunchServerType DEF TypeOK
<1>5. QED
  BY <1>1, <1>2, <1>3, <1>4 DEF StartServer

\* A handler that takes the next signal.
LEMMA SignalsType ==
    ASSUME TypeOK, signals # <<>>
    PROVE  /\ Tail(signals) \in Seq(AnySignal)
           /\ Head(signals).session \in Sessions
<1>1. signals \in Seq(AnySignal)
  BY DEF TypeOK, AnySignal
<1>2. Tail(signals) \in Seq(AnySignal) /\ Head(signals) \in AnySignal
  BY <1>1
<1>3. QED
  BY <1>2 DEF AnySignal

LEMMA EmitType ==
    ASSUME TypeOK, NEW s \in Sessions, NEW type \in {"SessionNew", "SessionRemoved"}, Emit(type, s)
    PROVE  signals' \in Seq(AnySignal)
<1>1. Signal(type, s) \in AnySignal /\ signals \in Seq(AnySignal)
  BY DEF Signal, AnySignal, TypeOK
<1>2. QED
  BY <1>1 DEF Emit

LEMMA LoginManagerType ==
    ASSUME TypeOK, NEW s \in Sessions,
           SessionNew(s) \/ SessionOpened(s) \/ SessionClosing(s) \/ SessionRemoved(s)
             \/ EnvironmentReady(s) \/ Matures(s)
    PROVE  TypeOK'
<1>1. signals' \in Seq(AnySignal)
  BY EmitType DEF SessionNew, SessionOpened, SessionClosing, SessionRemoved, EnvironmentReady, Matures, TypeOK, AnySignal
<1>2. /\ login' \in [Sessions -> {"Absent", "Opening", "Active", "Closing", "Removed"}]
      /\ environ' \subseteq Sessions /\ mature' \subseteq Sessions
  BY DEF SessionNew, SessionOpened, SessionClosing, SessionRemoved, EnvironmentReady, Matures, TypeOK
<1>3. LoginManager
  BY DEF SessionNew, SessionOpened, SessionClosing, SessionRemoved, EnvironmentReady, Matures
<1>4. QED
  BY <1>1, <1>2, <1>3 DEF LoginManager, serviceVars, TypeOK, SessionIds, AnySignal

LEMMA CheckSessionStateType ==
    ASSUME TypeOK, UNCHANGED config, NEW s \in Sessions, NEW state, CheckSessionState(s, state),
           IF Known(s) THEN state \in ServerStates ELSE state = "None"
    PROVE  /\ serverProcesses' \in [Sessions -> {NoServer} \cup Entries]'
           /\ sessions' \in [Sessions -> SessionIds \cup {InvalidSessionId}]'
<1>1. CASE StopServers({s})
  BY <1>1, StopServersType
<1>2. CASE serverProcesses' = [serverProcesses EXCEPT ![s].state = state] /\ UNCHANGED sessions
  <2>1. [serverProcesses[s] EXCEPT !.state = state] \in {NoServer} \cup Entries
    <3>1. CASE Known(s)
      BY <3>1, KnownServers DEF Entries
    <3>2. CASE ~Known(s)
      BY <3>2 DEF Known, NoServer, Server
    <3>3. QED
      BY <3>1, <3>2
  <2>2. serverProcesses' \in [Sessions -> {NoServer} \cup Entries]
    BY <1>2, <2>1 DEF TypeOK, Entries
  <2>3. QED
    BY <1>2, <2>2 DEF TypeOK, Entries, SessionIds
<1>3. QED
  BY <1>1, <1>2 DEF CheckSessionState

LEMMA NextType == TypeOK /\ [Next]_vars => TypeOK'
<1> SUFFICES ASSUME TypeOK, [Next]_vars PROVE TypeOK'
  OBVIOUS
<1>1. CASE UNCHANGED vars
  BY <1>1 DEF vars, loginVars, serviceVars, TypeOK, SessionIds
<1>2. CASE \E s \in Sessions : SessionNew(s) \/ SessionOpened(s) \/ SessionClosing(s) \/ SessionRemoved(s)
                               \/ EnvironmentReady(s) \/ Matures(s)
  BY <1>2, LoginManagerType
<1>3. CASE ConnectToLoginManager
  BY <1>3 DEF ConnectToLoginManager, Handler, Service, loginVars, serviceVars, TypeOK, SessionIds
<1>4. CASE Run
  BY <1>4 DEF Run, Listed, Service, loginVars, serviceVars, TypeOK, SessionIds
<1>5. CASE HandleSessionNew
  BY <1>5, SignalsType, StartServerType
     DEF HandleSessionNew, Handler, Service, loginVars, TypeOK, Entries, AnySignal
<1>6. CASE HandleSessionRemoved
  <2>1. /\ serverProcesses' \in [Sessions -> {NoServer} \cup Entries]'
        /\ sessions' \in [Sessions -> SessionIds \cup {InvalidSessionId}]'
    <3>1. CASE StopServers({Head(signals).session})
      BY <1>6, <3>1, StopServersType DEF HandleSessionRemoved, Handler, Service
    <3>2. CASE UNCHANGED <<serverProcesses, sessions>>
      BY <1>6, <3>2 DEF HandleSessionRemoved, Handler, Service, TypeOK, Entries, SessionIds
    <3>3. QED
      BY <1>6, <3>1, <3>2 DEF HandleSessionRemoved
  <2>2. visiting' \subseteq Sessions
    BY <1>6 DEF HandleSessionRemoved, Listed, TypeOK
  <2>3. QED
    BY <1>6, <2>1, <2>2, SignalsType DEF HandleSessionRemoved, Handler, Service, loginVars, TypeOK, Entries, AnySignal
<1>7. ASSUME NEW s \in Sessions, VisitSession(s) PROVE TypeOK'
  <2>1. CASE StartServer(s, timers)
    BY <1>7, <2>1, StartServerType DEF VisitSession, Service, loginVars, TypeOK, Entries, AnySignal
  <2>2. CASE UNCHANGED serviceVars
    BY <1>7, <2>2 DEF VisitSession, Service, loginVars, serviceVars, TypeOK, SessionIds
  <2>3. QED
    BY <1>7, <2>1, <2>2 DEF VisitSession
<1>8. ASSUME NEW s \in Sessions, DeferredStart(s) PROVE TypeOK'
  <2>1. [timers EXCEPT ![s] = @ - 1] \in [Sessions -> Nat]
    BY <1>8 DEF DeferredStart, TypeOK
  <2>2. QED
    BY <1>8, <2>1, StartServerType DEF DeferredStart, Handler, Service, loginVars, TypeOK, Entries, AnySignal
<1>9. ASSUME NEW s \in Sessions, ServerRuns(s) \/ ServerEnds(s) \/ RestartServer(s) PROVE TypeOK'
  <2>1. Known(s) /\ \E state \in ServerStates : CheckSessionState(s, state)
    BY <1>9, KnownServers DEF ServerRuns, ServerEnds, RestartServer, ServerStates
  <2>2. ProcessEvent /\ UNCHANGED lost
    BY <1>9 DEF ServerRuns, ServerEnds, RestartServer
  <2>3. QED
    BY <2>1, <2>2, CheckSessionStateType DEF ProcessEvent, Handler, Service, loginVars, TypeOK, Entries, AnySignal
<1>10. ASSUME NEW l \in lost, LostServerChanges(l) PROVE TypeOK'
  <2>1. l.session \in Sessions /\ l.state \in ServerStates
    BY DEF TypeOK
  <2>2. ProcessEvent /\ CheckSessionState(l.session, serverProcesses[l.session].state)
    BY <1>10 DEF LostServerChanges
  <2>3. lost' \subseteq [session : Sessions, state : ServerStates]
    <3>1. \A state \in ServerStates : [l EXCEPT !.state = state] \in [session : Sessions, state : ServerStates]
      BY DEF TypeOK
    <3>2. QED
      BY <1>10, <3>1 DEF LostServerChanges, TypeOK, ServerStates
  <2>4. IF Known(l.session) THEN serverProcesses[l.session].state \in ServerStates
                            ELSE serverProcesses[l.session].state = "None"
    BY <2>1, KnownServers
  <2>5. QED
    BY <2>1, <2>2, <2>3, <2>4, CheckSessionStateType DEF ProcessEvent, Handler, Service, loginVars, TypeOK, Entries, AnySignal
<1>11. QED
  BY <1>1, <1>2, <1>3, <1>4, <1>5, <1>6, <1>7, <1>8, <1>9, <1>10 DEF Next

\* Every variable has a value of its type.
THEOREM TypeCorrect == Spec => []TypeOK
BY InitType, NextType, PTL DEF Spec
-----------------------------------------------------------------------------
(* Servers of a session.  In Multi mode a session is started at most twice: *)
(* once because startServers() finds it, once because of its signal.  Each  *)
(* of the two is a chance, which a timer may defer but not multiply.        *)

NewPending(s) == \E i \in DOMAIN signals : signals[i] = Signal("SessionNew", s)
Count(b)      == IF b THEN 1 ELSE 0

\* The chances of s to be started that are left.
Chances(s) == timers[s] + Count(login[s] = "Absent" \/ NewPending(s)) + Count(~running \/ s \in visiting)
Replaced(s) == \E l \in lost : l.session = s
Servers(s) == Count(Known(s)) + Count(Replaced(s))

\* A session is announced once.
NewOnce == \A s \in Sessions :
    /\ login[s] = "Absent" => ~NewPending(s)
    /\ \A i, j \in DOMAIN signals : signals[i] = Signal("SessionNew", s) /\ signals[j] = signals[i] => i = j

StartsBounded == Multi => \A s \in Sessions : Chances(s) + Servers(s) <= 2

AInv == TypeOK /\ (visiting # {} => running) /\ NewOnce /\ StartsBounded /\ ServersAreApart

\* Handling the next signal.
LEMMA TakeSignal ==
    ASSUME TypeOK, NewOnce, signals # <<>>, signals' = Tail(signals), UNCHANGED login
    PROVE  /\ NewOnce'
           /\ \A s \in Sessions : NewPending(s)' => NewPending(s)
           /\ \A s \in Sessions : Head(signals) = Signal("SessionNew", s) => NewPending(s) /\ ~NewPending(s)'
<1>1. signals \in Seq(AnySignal)
  BY DEF TypeOK, AnySignal
<1>2. /\ Head(signals) = signals[1] /\ DOMAIN signals = 1..Len(signals) /\ Len(signals) \in Nat \ {0}
      /\ DOMAIN signals' = 1..(Len(signals) - 1)
      /\ \A i \in 1..(Len(signals) - 1) : signals'[i] = signals[i + 1]
  BY <1>1
<1>3. \A i \in DOMAIN signals' : i + 1 \in DOMAIN signals /\ signals'[i] = signals[i + 1] /\ i + 1 # 1 /\ i \in Int
  BY <1>2
<1>4. 1 \in DOMAIN signals
  BY <1>2
<1>5. ASSUME NEW s \in Sessions, NewPending(s)' PROVE NewPending(s)
  BY <1>3, <1>5 DEF NewPending, Signal
<1>6. ASSUME NEW s \in Sessions, Head(signals) = Signal("SessionNew", s) PROVE NewPending(s) /\ ~NewPending(s)'
  <2>1. NewPending(s)
    BY <1>2, <1>4, <1>6 DEF NewPending
  <2>2. ASSUME NEW i \in DOMAIN signals', signals'[i] = Signal("SessionNew", s) PROVE FALSE
    <3>1. signals[i + 1] = Signal("SessionNew", s) /\ signals[1] = Signal("SessionNew", s)
      BY <1>2, <1>3, <1>6, <2>2
    <3>2. i + 1 = 1
      BY <1>3, <1>4, <3>1 DEF NewOnce
    <3>3. QED
      BY <1>3, <3>2
  <2>3. QED
    BY <2>1, <2>2 DEF NewPending, Signal
<1>7. NewOnce'
  <2> SUFFICES ASSUME NEW s \in Sessions
               PROVE  /\ login[s] = "Absent" => ~NewPending(s)'
                      /\ \A i, j \in DOMAIN signals' :
                           signals'[i] = Signal("SessionNew", s) /\ signals'[j] = signals'[i] => i = j
    BY DEF NewOnce, Signal
  <2>1. login[s] = "Absent" => ~NewPending(s)'
    BY <1>5 DEF NewOnce
  <2>2. ASSUME NEW i \in DOMAIN signals', NEW j \in DOMAIN signals',
               signals'[i] = Signal("SessionNew", s), signals'[j] = signals'[i]
        PROVE  i = j
    <3>1. i + 1 = j + 1
      BY <1>3, <2>2 DEF NewOnce
    <3>2. QED
      BY <1>3, <3>1
  <2>3. QED
    BY <2>1, <2>2
<1>8. QED
  BY <1>5, <1>6, <1>7

\* A session is announced, or its removal is.
LEMMA AnnounceSession ==
    ASSUME TypeOK, NewOnce, NEW s \in Sessions, NEW type \in {"SessionNew", "SessionRemoved"}, Emit(type, s),
           login[s] = "Absent" \/ type = "SessionRemoved",
           \A r \in Sessions : login'[r] = "Absent" => login[r] = "Absent" /\ r # s
    PROVE  /\ NewOnce'
           /\ \A r \in Sessions : NewPending(r)' => NewPending(r) \/ (r = s /\ login[s] = "Absent")
<1>1. CASE UNCHANGED signals
  BY <1>1 DEF NewOnce, NewPending, Signal
<1>2. CASE signals' = Append(signals, Signal(type, s))
  <2> DEFINE e == Signal(type, s)
  <2>1. signals \in Seq(AnySignal) /\ e \in AnySignal
    BY DEF TypeOK, AnySignal, Signal
  <2>2. \A r \in Sessions : e = Signal("SessionNew", r) => r = s /\ login[s] = "Absent"
    BY DEF Signal
  <2> HIDE DEF e
  <2>3. /\ DOMAIN signals = 1..Len(signals) /\ DOMAIN signals' = 1..(Len(signals) + 1) /\ Len(signals) \in Nat
        /\ \A i \in 1..Len(signals) : signals'[i] = signals[i]
        /\ signals'[Len(signals) + 1] = e
    BY <1>2, <2>1 DEF e
  <2>4. \A i \in DOMAIN signals' : \/ i \in DOMAIN signals /\ signals'[i] = signals[i]
                                   \/ i = Len(signals) + 1 /\ signals'[i] = e
    BY <2>3
  <2>5. ASSUME NEW r \in Sessions, NewPending(r)' PROVE NewPending(r) \/ (r = s /\ login[s] = "Absent")
    BY <2>2, <2>4, <2>5 DEF NewPending, Signal
  <2>6. NewOnce'
    <3> SUFFICES ASSUME NEW r \in Sessions
                 PROVE  /\ login'[r] = "Absent" => ~NewPending(r)'
                        /\ \A i, j \in DOMAIN signals' :
                             signals'[i] = Signal("SessionNew", r) /\ signals'[j] = signals'[i] => i = j
      BY DEF NewOnce, Signal
    <3>1. login'[r] = "Absent" => ~NewPending(r)'
      BY <2>5 DEF NewOnce
    <3>2. ASSUME NEW i \in DOMAIN signals', NEW j \in DOMAIN signals',
                 signals'[i] = Signal("SessionNew", r), signals'[j] = signals'[i]
          PROVE  i = j
      <4>1. CASE i \in DOMAIN signals /\ j \in DOMAIN signals
        BY <2>3, <3>2, <4>1 DEF NewOnce
      <4>2. CASE i = Len(signals) + 1 /\ j = Len(signals) + 1
        BY <4>2
      <4>3. CASE (i = Len(signals) + 1 /\ j \in DOMAIN signals) \/ (j = Len(signals) + 1 /\ i \in DOMAIN signals)
        <5>1. NewPending(r) /\ e = Signal("SessionNew", r)
          BY <2>3, <3>2, <4>3 DEF NewPending
        <5>2. QED
          BY <2>2, <5>1 DEF NewOnce
      <4>4. QED
        BY <2>4, <4>1, <4>2, <4>3
    <3>3. QED
      BY <3>1, <3>2
  <2>7. QED
    BY <2>5, <2>6
<1>3. QED
  BY <1>1, <1>2 DEF Emit

\* No server is replaced: one of those that were may have changed or ended.
NoneReplaced == \/ UNCHANGED lost
                \/ Multi /\ \A k, l \in lost' : k.session = l.session => k = l

\* What a stopped server leaves behind.
LEMMA StopServersApart ==
    ASSUME TypeOK, ServersAreApart, UNCHANGED config, NoneReplaced, NEW S \in SUBSET Sessions, StopServers(S)
    PROVE  /\ ServersAreApart'
           /\ \A r \in Sessions : Known(r)' <=> Known(r) /\ r \notin S
<1>1. \A r \in Sessions : /\ serverProcesses'[r] = IF r \in S THEN NoServer ELSE serverProcesses[r]
                          /\ sessions'[r] = IF r \in S THEN InvalidSessionId ELSE sessions[r]
  BY DEF StopServers
<1>2. \A r \in Sessions : Known(r)' <=> Known(r) /\ r \notin S
  BY <1>1 DEF Known, NoServer, Server
<1>3. NoServer.number = InvalidSessionId
  BY DEF NoServer, Server
<1>4. QED
  BY <1>1, <1>2, <1>3 DEF ServersAreApart, Multi, InvalidSessionId, NoneReplaced

\* The server of s is started, as the only one or beside the others.
LEMMA LaunchServerApart ==
    ASSUME TypeOK, ServersAreApart, UNCHANGED config, NEW s \in Sessions, LaunchServer(s),
           Multi /\ Known(s) => ~Replaced(s)
    PROVE  /\ ServersAreApart'
           /\ Multi => \A r \in Sessions : Servers(r)' <= Servers(r) + Count(r = s)
<1> DEFINE n == OpenedNumber(Remaining(sessions, NoSessions))
<1>1. CASE ~Multi
  <2>1. \A r \in Sessions : NoServers[r].state = "None" /\ NoServers[r].number = InvalidSessionId
    BY DEF NoServers, NoServer, Server
  <2>2. lost' = {}
    BY <1>1, <2>1 DEF LaunchServer, Remaining, ServersAreApart
  <2>3. /\ serverProcesses' = [NoServers EXCEPT ![s] = Server("Starting", n)]
        /\ sessions' = IF n = InvalidSessionId THEN NoSessions ELSE [NoSessions EXCEPT ![s] = n]
    BY <1>1 DEF LaunchServer, Remaining, OpenSession
  <2> HIDE DEF n
  <2>4. \A r \in Sessions : /\ serverProcesses'[r] = IF r = s THEN Server("Starting", n) ELSE NoServer
                            /\ sessions'[r] = IF r = s THEN n ELSE InvalidSessionId
    BY <2>3 DEF NoServers, NoSessions
  <2>5. \A r \in Sessions : Known(r)' <=> r = s
    BY <2>4 DEF Known, NoServer, Server
  <2>6. Server("Starting", n).number = n /\ NoServer.number = InvalidSessionId
    BY DEF Server, NoServer
  <2>7. QED
    BY <1>1, <2>2, <2>4, <2>5, <2>6 DEF ServersAreApart, Multi
<1>2. CASE Multi
  <2>1. n # InvalidSessionId => n \notin Range(sessions)
    BY <1>2, OpenedNumberIsFree DEF TypeOK, Remaining
  <2>2. /\ serverProcesses' = [serverProcesses EXCEPT ![s] = Server("Starting", n)]
        /\ sessions' = IF n = InvalidSessionId THEN sessions ELSE [sessions EXCEPT ![s] = n]
        /\ lost' = lost \cup ({[session |-> s, state |-> serverProcesses[s].state]} \ {[session |-> s, state |-> "None"]})
    BY <1>2 DEF LaunchServer, Remaining, OpenSession
  <2> HIDE DEF n
  <2>3. \A r \in Sessions : /\ serverProcesses'[r] = IF r = s THEN Server("Starting", n) ELSE serverProcesses[r]
                            /\ sessions'[r] = IF r = s /\ n # InvalidSessionId THEN n ELSE sessions[r]
    BY <2>2 DEF TypeOK
  <2>4. \A r \in Sessions : Known(r)' <=> Known(r) \/ r = s
    BY <2>3 DEF Known, NoServer, Server
  <2>5. Server("Starting", n).number = n
    BY DEF Server
  <2>6. \A r \in Sessions : n # InvalidSessionId => sessions[r] # n
    BY <2>1 DEF TypeOK, Range
  <2>7. \A r \in Sessions :
          /\ serverProcesses'[r].number # InvalidSessionId => sessions'[r] = serverProcesses'[r].number
          /\ sessions'[r] # InvalidSessionId => Known(r)' /\ \A q \in Sessions \ {r} : sessions'[q] # sessions'[r]
    BY <2>3, <2>4, <2>5, <2>6 DEF ServersAreApart
  <2>8. CASE Known(s)
    <3>1. ~Replaced(s)
      BY <1>2, <2>8
    <3>2. \A k \in lost : k.session # s
      BY <3>1 DEF Replaced
    <3> DEFINE k == [session |-> s, state |-> serverProcesses[s].state]
    <3>3. k.session = s /\ lost' \subseteq lost \cup {k}
      BY <2>2
    <3> HIDE DEF k
    <3>4. \A i, j \in lost' : i.session = j.session => i = j
      BY <3>2, <3>3 DEF ServersAreApart
    <3>5. \A r \in Sessions : Replaced(r)' => Replaced(r) \/ r = s
      BY <3>3 DEF Replaced
    <3>6. \A r \in Sessions : Servers(r)' <= Servers(r) + Count(r = s)
      BY <2>4, <2>8, <3>1, <3>5 DEF Servers, Count
    <3>7. QED
      BY <1>2, <2>7, <3>4, <3>6 DEF ServersAreApart, Multi
  <2>9. CASE ~Known(s)
    <3>1. lost' = lost
      BY <2>2, <2>9, KnownServers
    <3>2. \A r \in Sessions : Replaced(r)' <=> Replaced(r)
      BY <3>1 DEF Replaced
    <3>3. \A r \in Sessions : Servers(r)' <= Servers(r) + Count(r = s)
      BY <2>4, <2>9, <3>2 DEF Servers, Count
    <3>4. QED
      BY <1>2, <2>7, <3>1, <3>3 DEF ServersAreApart, Multi
  <2>10. QED
    BY <2>8, <2>9
<1>3. QED
  BY <1>1, <1>2

\* startServer() uses up a chance of the session, or keeps it in a timer.
LEMMA StartServerApart ==
    ASSUME TypeOK, ServersAreApart, UNCHANGED config, NEW s \in Sessions, NEW t \in [Sessions -> Nat],
           StartServer(s, t), Multi /\ Known(s) => ~Replaced(s)
    PROVE  /\ ServersAreApart'
           /\ Multi => \A r \in Sessions : timers'[r] + Servers(r)' <= t[r] + Servers(r) + Count(r = s)
<1>1. CASE timers' = t /\ UNCHANGED <<serverProcesses, sessions, lost>>
  <2>1. ServersAreApart' /\ \A r \in Sessions : Servers(r)' = Servers(r)
    BY <1>1 DEF ServersAreApart, Known, Multi, Servers, Replaced
  <2>2. QED
    BY <1>1, <2>1 DEF Servers, Count
<1>2. CASE DeferServerStart(s, t) /\ UNCHANGED <<serverProcesses, sessions, lost>>
  <2>1. ServersAreApart' /\ \A r \in Sessions : Servers(r)' = Servers(r)
    BY <1>2 DEF ServersAreApart, Known, Multi, Servers, Replaced
  <2>2. \A r \in Sessions : timers'[r] = t[r] + Count(r = s)
    BY <1>2 DEF DeferServerStart, Count
  <2>3. QED
    BY <2>1, <2>2 DEF Servers, Count
<1>3. CASE StopServers(Remaining({}, Sessions)) /\ DeferServerStart(s, t) /\ UNCHANGED lost
  <2>1. ServersAreApart' /\ \A r \in Sessions : Known(r)' <=> Known(r) /\ r \notin Remaining({}, Sessions)
    BY <1>3, StopServersApart DEF Remaining, NoneReplaced
  <2>2. Multi => \A r \in Sessions : Servers(r)' = Servers(r)
    <3>1. Multi => \A r \in Sessions : Known(r)' <=> Known(r)
      BY <2>1 DEF Remaining
    <3>2. \A r \in Sessions : Replaced(r)' <=> Replaced(r)
      BY <1>3 DEF Replaced
    <3>3. QED
      BY <3>1, <3>2 DEF Servers, Count
  <2>3. \A r \in Sessions : timers'[r] = t[r] + Count(r = s)
    BY <1>3 DEF DeferServerStart, Count
  <2>4. QED
    BY <2>1, <2>2, <2>3 DEF Servers, Count
<1>4. CASE LaunchServer(s) /\ timers' = t
  <2>1. ServersAreApart' /\ (Multi => \A r \in Sessions : Servers(r)' <= Servers(r) + Count(r = s))
    BY <1>4, LaunchServerApart
  <2>2. QED
    BY <1>4, <2>1 DEF Servers, Count
<1>5. QED
  BY <1>1, <1>2, <1>3, <1>4 DEF StartServer

\* checkSessionState() stops the server or notes its state.
LEMMA CheckSessionStateApart ==
    ASSUME TypeOK, ServersAreApart, UNCHANGED config, NoneReplaced, NEW s \in Sessions, NEW state,
           CheckSessionState(s, state), Known(s) => state \in ServerStates, ~Known(s) => state = "None"
    PROVE  /\ ServersAreApart'
           /\ \A r \in Sessions : Known(r)' => Known(r)
<1>1. CASE StopServers({s})
  BY <1>1, StopServersApart
<1>2. CASE serverProcesses' = [serverProcesses EXCEPT ![s].state = state] /\ UNCHANGED sessions
  <2>1. \A r \in Sessions \ {s} : serverProcesses'[r] = serverProcesses[r]
    BY <1>2 DEF TypeOK
  <2>2. serverProcesses'[s] = [serverProcesses[s] EXCEPT !.state = state]
    BY <1>2 DEF TypeOK
  <2>3. serverProcesses'[s].state = state /\ serverProcesses'[s].number = serverProcesses[s].number
    <3>1. serverProcesses[s] \in {NoServer} \cup Entries
      BY DEF TypeOK, Entries
    <3>2. QED
      BY <2>2, <3>1 DEF NoServer, Server, Entries
  <2>4. Known(s)' <=> Known(s)
    <3>1. CASE Known(s)
      BY <2>3, <3>1 DEF Known, NoServer, Server, ServerStates
    <3>2. CASE ~Known(s)
      BY <2>2, <3>2 DEF Known, NoServer, Server
    <3>3. QED
      BY <3>1, <3>2
  <2>5. \A r \in Sessions : Known(r)' <=> Known(r)
    BY <2>1, <2>4 DEF Known, NoServer, Server
  <2>6. QED
    BY <1>2, <2>1, <2>3, <2>5 DEF ServersAreApart, Multi, NoneReplaced
<1>3. QED
  BY <1>1, <1>2 DEF CheckSessionState

LEMMA InitApart == Init => AInv
<1> SUFFICES ASSUME Init PROVE AInv
  OBVIOUS
<1>1. TypeOK
  BY InitType
<1>2. \A s \in Sessions : ~Known(s) /\ serverProcesses[s].number = InvalidSessionId /\ sessions[s] = InvalidSessionId
  BY DEF Init, Known, NoServers, NoSessions, NoServer, Server
<1>3. ServersAreApart
  BY <1>2 DEF Init, ServersAreApart
<1>4. \A s \in Sessions : ~NewPending(s) /\ ~Replaced(s)
  BY DEF Init, NewPending, Replaced
<1>5. NewOnce
  BY <1>4 DEF Init, NewOnce
<1>6. StartsBounded
  BY <1>2, <1>4 DEF Init, StartsBounded, Chances, Servers, Count
<1>7. QED
  BY <1>1, <1>3, <1>5, <1>6 DEF AInv, Init

\* The handlers that leave the servers as they are.
LEMMA SameServers ==
    ASSUME UNCHANGED <<config, serverProcesses, sessions, lost>>, ServersAreApart
    PROVE  ServersAreApart' /\ \A s \in Sessions : (Known(s)' <=> Known(s)) /\ Servers(s)' = Servers(s)
BY DEF ServersAreApart, Known, Multi, Servers, Replaced

LEMMA SameSignals ==
    ASSUME UNCHANGED signals, NewOnce, \A s \in Sessions : login'[s] = "Absent" => login[s] = "Absent"
    PROVE  NewOnce' /\ \A s \in Sessions : NewPending(s)' <=> NewPending(s)
BY DEF NewOnce, NewPending, Signal

LEMMA LoginManagerApart ==
    ASSUME AInv, TypeOK', NEW s \in Sessions,
           SessionNew(s) \/ SessionOpened(s) \/ SessionClosing(s) \/ SessionRemoved(s)
             \/ EnvironmentReady(s) \/ Matures(s)
    PROVE  AInv'
<1>1. LoginManager
  BY DEF SessionNew, SessionOpened, SessionClosing, SessionRemoved, EnvironmentReady, Matures
<1>2. \A r \in Sessions : login'[r] = "Absent" => login[r] = "Absent"
  BY DEF SessionNew, SessionOpened, SessionClosing, SessionRemoved, EnvironmentReady, Matures, AInv, TypeOK
<1>3. NewOnce' /\ \A r \in Sessions : NewPending(r)' => NewPending(r) \/ login[r] = "Absent"
  <2>1. CASE UNCHANGED signals
    BY <1>2, <2>1, SameSignals DEF AInv
  <2>2. CASE SessionNew(s)
    <3>1. \A r \in Sessions : login'[r] = "Absent" => r # s
      BY <2>2 DEF SessionNew, AInv, TypeOK
    <3>2. QED
      BY <1>2, <2>2, <3>1, AnnounceSession DEF SessionNew, AInv
  <2>3. CASE SessionRemoved(s)
    <3>1. \A r \in Sessions : login'[r] = "Absent" => r # s
      BY <2>3 DEF SessionRemoved, AInv, TypeOK
    <3>2. QED
      BY <1>2, <2>3, <3>1, AnnounceSession DEF SessionRemoved, AInv
  <2>4. QED
    BY <2>1, <2>2, <2>3 DEF SessionOpened, SessionClosing, EnvironmentReady, Matures
<1>4. ServersAreApart' /\ \A r \in Sessions : Servers(r)' = Servers(r)
  BY <1>1, SameServers DEF LoginManager, serviceVars, AInv
<1>5. \A r \in Sessions : Count(login[r] = "Absent" \/ NewPending(r))' <= Count(login[r] = "Absent" \/ NewPending(r))
  BY <1>2, <1>3 DEF Count
<1>6. \A r \in Sessions : Chances(r)' <= Chances(r)
  BY <1>1, <1>5 DEF LoginManager, serviceVars, Chances, AInv, TypeOK, Count
<1>7. StartsBounded'
  <2> SUFFICES ASSUME Multi, NEW r \in Sessions PROVE Chances(r)' + Servers(r)' <= 2
    BY <1>1 DEF StartsBounded, Multi, LoginManager
  <2>1. Chances(r) + Servers(r) <= 2
    BY DEF AInv, StartsBounded
  <2>2. Chances(r) \in Nat /\ Chances(r)' \in Nat /\ Servers(r) \in Nat
    BY DEF AInv, TypeOK, Chances, Servers, Count
  <2>3. QED
    BY <1>4, <1>6, <2>1, <2>2
<1>8. QED
  BY <1>1, <1>3, <1>4, <1>7 DEF AInv, LoginManager

LEMMA NextApart == AInv /\ [Next]_vars => AInv'
<1> SUFFICES ASSUME AInv, [Next]_vars PROVE AInv'
  OBVIOUS
<1>0. TypeOK'
  BY NextType DEF AInv
<1>1. CASE UNCHANGED vars
  <2>1. NewOnce' /\ \A s \in Sessions : NewPending(s)' <=> NewPending(s)
    BY <1>1, SameSignals DEF AInv, vars, loginVars
  <2>2. ServersAreApart' /\ \A s \in Sessions : Servers(s)' = Servers(s)
    BY <1>1, SameServers DEF vars, serviceVars, AInv
  <2>3. \A s \in Sessions : Chances(s)' = Chances(s)
    BY <1>1, <2>1 DEF Chances, vars, loginVars, serviceVars, Count
  <2>4. QED
    BY <1>0, <1>1, <2>1, <2>2, <2>3 DEF AInv, StartsBounded, Multi, vars
<1>2. CASE \E s \in Sessions : SessionNew(s) \/ SessionOpened(s) \/ SessionClosing(s) \/ SessionRemoved(s)
                               \/ EnvironmentReady(s) \/ Matures(s)
  BY <1>0, <1>2, LoginManagerApart
<1>3. CASE ConnectToLoginManager \/ Run
  <2>1. NewOnce' /\ \A s \in Sessions : NewPending(s)' <=> NewPending(s)
    BY <1>3, SameSignals DEF AInv, ConnectToLoginManager, Run, Handler, Service, loginVars
  <2>2. ServersAreApart' /\ \A s \in Sessions : Servers(s)' = Servers(s)
    BY <1>3, SameServers DEF AInv, ConnectToLoginManager, Run, Handler, Service, serviceVars
  <2>3. \A s \in Sessions : ~running' \/ s \in visiting' => ~running \/ s \in visiting
    BY <1>3 DEF ConnectToLoginManager, Run
  <2>4. \A s \in Sessions : Chances(s)' <= Chances(s)
    BY <1>3, <2>1, <2>3 DEF Chances, Count, ConnectToLoginManager, Run, Handler, Service, loginVars, serviceVars, AInv, TypeOK
  <2>5. StartsBounded'
    <3> SUFFICES ASSUME Multi, NEW r \in Sessions PROVE Chances(r)' + Servers(r)' <= 2
      BY <1>3 DEF StartsBounded, Multi, ConnectToLoginManager, Run, Handler, Service
    <3>1. Chances(r) + Servers(r) <= 2
      BY DEF AInv, StartsBounded
    <3>2. Chances(r) \in Nat /\ Chances(r)' \in Nat /\ Servers(r) \in Nat
      BY <1>0 DEF AInv, TypeOK, Chances, Servers, Count
    <3>3. QED
      BY <2>2, <2>4, <3>1, <3>2
  <2>6. (visiting # {} => running)'
    BY <1>3 DEF ConnectToLoginManager, Run, AInv
  <2>7. QED
    BY <1>0, <2>1, <2>2, <2>5, <2>6 DEF AInv
<1>4. CASE HandleSessionNew
  <2>1. PICK s \in Sessions : Head(signals) = Signal("SessionNew", s)
    <3>1. signals \in Seq(AnySignal)
      BY DEF AInv, TypeOK, AnySignal
    <3>2. Head(signals) \in AnySignal /\ Head(signals).type = "SessionNew"
      BY <1>4, <3>1 DEF HandleSessionNew
    <3>3. QED
      BY <3>2 DEF AnySignal, Signal
  <2>2. /\ NewOnce' /\ \A r \in Sessions : NewPending(r)' => NewPending(r)
        /\ NewPending(s) /\ ~NewPending(s)'
    <3>1. /\ NewOnce' /\ \A r \in Sessions : NewPending(r)' => NewPending(r)
          /\ \A r \in Sessions : Head(signals) = Signal("SessionNew", r) => NewPending(r) /\ ~NewPending(r)'
      <4>1. TypeOK /\ NewOnce /\ signals # <<>> /\ signals' = Tail(signals) /\ UNCHANGED login
        BY <1>4 DEF HandleSessionNew, Handler, Service, loginVars, AInv
      <4>2. QED
        BY <4>1, TakeSignal
    <3>2. QED
      BY <2>1, <3>1
  <2>3. login[s] # "Absent" /\ UNCHANGED <<config, login, running, visiting>>
    BY <1>4, <2>1, <2>2 DEF HandleSessionNew, Handler, Service, loginVars, AInv, NewOnce
  <2>4. Multi => timers[s] + Servers(s) <= 1
    <3> SUFFICES ASSUME Multi PROVE timers[s] + Servers(s) <= 1
      OBVIOUS
    <3>1. Chances(s) + Servers(s) <= 2
      BY <2>1 DEF AInv, StartsBounded
    <3>2. Count(login[s] = "Absent" \/ NewPending(s)) = 1 /\ Count(~running \/ s \in visiting) \in {0, 1}
      BY <2>2 DEF Count
    <3>3. timers[s] \in Nat /\ Servers(s) \in Nat
      BY <2>1 DEF AInv, TypeOK, Servers, Count
    <3>4. QED
      BY <3>1, <3>2, <3>3 DEF Chances
  <2>5. Multi /\ Known(s) => ~Replaced(s)
    BY <2>1, <2>4 DEF Servers, Count, AInv, TypeOK
  <2>6. StartServer(s, timers)
    BY <1>4, <2>1 DEF HandleSessionNew, Signal
  <2>7. /\ ServersAreApart'
        /\ Multi => \A r \in Sessions : timers'[r] + Servers(r)' <= timers[r] + Servers(r) + Count(r = s)
    BY <2>1, <2>3, <2>5, <2>6, StartServerApart DEF AInv, TypeOK
  <2>8. \A r \in Sessions : Count(login[r] = "Absent" \/ NewPending(r))' + Count(r = s)
                              <= Count(login[r] = "Absent" \/ NewPending(r))
    <3> SUFFICES ASSUME NEW r \in Sessions
                 PROVE  Count(login[r] = "Absent" \/ NewPending(r))' + Count(r = s)
                              <= Count(login[r] = "Absent" \/ NewPending(r))
      OBVIOUS
    <3>1. CASE r = s
      BY <2>2, <2>3, <3>1 DEF Count
    <3>2. CASE r # s
      BY <2>2, <2>3, <3>2 DEF Count
    <3>3. QED
      BY <3>1, <3>2
  <2>9. StartsBounded'
    <3> SUFFICES ASSUME Multi, NEW r \in Sessions PROVE Chances(r)' + Servers(r)' <= 2
      BY <2>3 DEF StartsBounded, Multi
    <3>1. Chances(r) + Servers(r) <= 2
      BY DEF AInv, StartsBounded
    <3>2. timers'[r] \in Nat /\ timers[r] \in Nat
      BY <1>0 DEF AInv, TypeOK
    <3>3. QED
      BY <2>3, <2>7, <2>8, <3>1, <3>2 DEF Chances, Servers, Count
  <2>10. QED
    BY <1>0, <2>2, <2>3, <2>7, <2>9 DEF AInv
<1>5. CASE HandleSessionRemoved
  <2> DEFINE s == Head(signals).session
  <2>1. s \in Sessions
    BY <1>5, SignalsType DEF HandleSessionRemoved, AInv
  <2> HIDE DEF s
  <2>2. NewOnce' /\ \A r \in Sessions : NewPending(r)' => NewPending(r)
    BY <1>5, TakeSignal DEF HandleSessionRemoved, Handler, Service, loginVars, AInv
  <2>3. ServersAreApart' /\ \A r \in Sessions : Servers(r)' <= Servers(r)
    <3>1. CASE StopServers({s})
      <4>1. ServersAreApart' /\ \A r \in Sessions : Known(r)' <=> Known(r) /\ r \notin {s}
        BY <1>5, <2>1, <3>1, StopServersApart DEF HandleSessionRemoved, Handler, Service, AInv, NoneReplaced
      <4>2. \A r \in Sessions : Replaced(r)' <=> Replaced(r)
        BY <1>5 DEF HandleSessionRemoved, Replaced
      <4>3. QED
        BY <4>1, <4>2 DEF Servers, Count
    <3>2. CASE UNCHANGED <<serverProcesses, sessions>>
      <4>1. ServersAreApart' /\ \A r \in Sessions : Servers(r)' = Servers(r)
        BY <1>5, <3>2, SameServers DEF HandleSessionRemoved, Handler, Service, AInv
      <4>2. QED
        BY <4>1 DEF Servers, Count
    <3>3. QED
      BY <1>5, <3>1, <3>2 DEF HandleSessionRemoved, s
  <2>4. UNCHANGED <<config, login, running, timers>> /\ (Multi => visiting' = {}) /\ running
    BY <1>5 DEF HandleSessionRemoved, Handler, Service, loginVars
  <2>5. \A r \in Sessions : Count(login[r] = "Absent" \/ NewPending(r))' <= Count(login[r] = "Absent" \/ NewPending(r))
    BY <2>2, <2>4 DEF Count
  <2>6. StartsBounded'
    <3> SUFFICES ASSUME Multi, NEW r \in Sessions PROVE Chances(r)' + Servers(r)' <= 2
      BY <2>4 DEF StartsBounded, Multi
    <3>1. Chances(r) + Servers(r) <= 2 /\ timers[r] \in Nat
      BY DEF AInv, StartsBounded, TypeOK
    <3>2. Count(~running \/ r \in visiting)' = 0
      BY <2>4 DEF Count
    <3>3. QED
      BY <2>3, <2>4, <2>5, <3>1, <3>2 DEF Chances, Servers, Count
  <2>7. QED
    BY <1>0, <2>2, <2>3, <2>4, <2>6 DEF AInv
<1>6. ASSUME NEW s \in Sessions, VisitSession(s) PROVE AInv'
  <2>1. NewOnce' /\ \A r \in Sessions : NewPending(r)' <=> NewPending(r)
    BY <1>6, SameSignals DEF VisitSession, Service, loginVars, AInv
  <2>2. UNCHANGED <<config, login, running>> /\ visiting' = visiting \ {s} /\ s \in visiting /\ running
    BY <1>6 DEF VisitSession, Service, loginVars, AInv
  <2>3. /\ ServersAreApart'
        /\ Multi => \A r \in Sessions : timers'[r] + Servers(r)' <= timers[r] + Servers(r) + Count(r = s)
    <3>1. CASE ~Known(s) /\ StartServer(s, timers)
      BY <2>2, <3>1, StartServerApart DEF AInv, TypeOK
    <3>2. CASE UNCHANGED serviceVars
      <4>1. ServersAreApart' /\ \A r \in Sessions : Servers(r)' = Servers(r)
        BY <2>2, <3>2, SameServers DEF serviceVars, AInv
      <4>2. QED
        BY <3>2, <4>1 DEF serviceVars, Servers, Count, AInv, TypeOK
    <3>3. QED
      BY <1>6, <3>1, <3>2 DEF VisitSession
  <2>4. \A r \in Sessions : Count(~running \/ r \in visiting)' + Count(r = s) = Count(~running \/ r \in visiting)
    BY <2>2 DEF Count
  <2>5. StartsBounded'
    <3> SUFFICES ASSUME Multi, NEW r \in Sessions PROVE Chances(r)' + Servers(r)' <= 2
      BY <2>2 DEF StartsBounded, Multi
    <3>1. Chances(r) + Servers(r) <= 2
      BY DEF AInv, StartsBounded
    <3>2. timers'[r] \in Nat /\ timers[r] \in Nat
      BY <1>0 DEF AInv, TypeOK
    <3>3. Count(login[r] = "Absent" \/ NewPending(r))' = Count(login[r] = "Absent" \/ NewPending(r))
      BY <2>1, <2>2 DEF Count
    <3>4. QED
      BY <2>3, <2>4, <3>1, <3>2, <3>3 DEF Chances, Servers, Count
  <2>6. QED
    BY <1>0, <2>1, <2>2, <2>3, <2>5 DEF AInv
<1>7. ASSUME NEW s \in Sessions, DeferredStart(s) PROVE AInv'
  <2> DEFINE t == [timers EXCEPT ![s] = @ - 1]
  <2>1. /\ t \in [Sessions -> Nat]
        /\ \A r \in Sessions : t[r] + Count(r = s) = timers[r]
    BY <1>7 DEF DeferredStart, AInv, TypeOK, Count
  <2>2. StartServer(s, t) /\ timers[s] > 0
    BY <1>7 DEF DeferredStart
  <2> HIDE DEF t
  <2>3. NewOnce' /\ \A r \in Sessions : NewPending(r)' <=> NewPending(r)
    BY <1>7, SameSignals DEF DeferredStart, Handler, Service, loginVars, AInv
  <2>4. UNCHANGED <<config, login, running, visiting>>
    BY <1>7 DEF DeferredStart, Handler, Service, loginVars
  <2>5. Multi /\ Known(s) => ~Replaced(s)
    <3> SUFFICES ASSUME Multi, Known(s) PROVE ~Replaced(s)
      OBVIOUS
    <3>1. Chances(s) + Servers(s) <= 2
      BY DEF AInv, StartsBounded
    <3>2. Chances(s) \in Nat \ {0}
      <4>1. timers[s] \in Nat \ {0}
        BY <2>2 DEF AInv, TypeOK
      <4>2. QED
        BY <4>1 DEF Chances, Count
    <3>3. Replaced(s) => Servers(s) = 2
      BY DEF Servers, Count
    <3>4. QED
      BY <3>1, <3>2, <3>3
  <2>6. /\ ServersAreApart'
        /\ Multi => \A r \in Sessions : timers'[r] + Servers(r)' <= t[r] + Servers(r) + Count(r = s)
    BY <2>1, <2>2, <2>4, <2>5, StartServerApart DEF AInv
  <2>7. StartsBounded'
    <3> SUFFICES ASSUME Multi, NEW r \in Sessions PROVE Chances(r)' + Servers(r)' <= 2
      BY <2>4 DEF StartsBounded, Multi
    <3>1. Chances(r) + Servers(r) <= 2
      BY DEF AInv, StartsBounded
    <3>2. timers'[r] \in Nat /\ timers[r] \in Nat /\ t[r] \in Nat
      BY <1>0, <2>1 DEF AInv, TypeOK
    <3>3. /\ Count(login[r] = "Absent" \/ NewPending(r))' = Count(login[r] = "Absent" \/ NewPending(r))
          /\ Count(~running \/ r \in visiting)' = Count(~running \/ r \in visiting)
      BY <2>3, <2>4 DEF Count
    <3>4. QED
      BY <2>1, <2>6, <3>1, <3>2, <3>3 DEF Chances, Servers, Count
  <2>8. QED
    BY <1>0, <2>3, <2>4, <2>6, <2>7 DEF AInv
<1>8. CASE /\ ProcessEvent
           /\ ServersAreApart'
           /\ Multi => \A r \in Sessions : Servers(r)' <= Servers(r)
  <2>1. NewOnce' /\ \A r \in Sessions : NewPending(r)' <=> NewPending(r)
    BY <1>8, SameSignals DEF ProcessEvent, Handler, Service, loginVars, AInv
  <2>2. UNCHANGED <<config, login, running, visiting, timers>>
    BY <1>8 DEF ProcessEvent, Handler, Service, loginVars
  <2>3. \A r \in Sessions : Chances(r)' = Chances(r)
    BY <2>1, <2>2 DEF Chances, Count
  <2>4. StartsBounded'
    BY <1>8, <2>2, <2>3 DEF StartsBounded, Multi, AInv, Chances, TypeOK, Servers, Count
  <2>5. QED
    BY <1>0, <1>8, <2>1, <2>2, <2>4 DEF AInv
<1>9. ASSUME NEW s \in Sessions, ServerRuns(s) \/ ServerEnds(s) \/ RestartServer(s) PROVE AInv'
  <2>1. Known(s) /\ \E state \in ServerStates : CheckSessionState(s, state)
    BY <1>9, KnownServers DEF ServerRuns, ServerEnds, RestartServer, ServerStates, AInv
  <2>2. ProcessEvent /\ UNCHANGED <<config, lost>>
    BY <1>9 DEF ServerRuns, ServerEnds, RestartServer, ProcessEvent, Handler, Service
  <2>3. ServersAreApart' /\ \A r \in Sessions : Known(r)' => Known(r)
    BY <2>1, <2>2, CheckSessionStateApart, KnownServers DEF AInv, NoneReplaced
  <2>4. \A r \in Sessions : Servers(r)' <= Servers(r)
    BY <2>2, <2>3 DEF Servers, Count, Replaced
  <2>5. QED
    BY <1>8, <2>2, <2>3, <2>4
<1>10. ASSUME NEW l \in lost, LostServerChanges(l) PROVE AInv'
  <2>1. Multi
    BY DEF AInv, ServersAreApart
  <2>2. l.session \in Sessions /\ l.state \in ServerStates
    BY DEF AInv, TypeOK
  <2>3. \A state \in ServerStates : [l EXCEPT !.state = state].session = l.session
    BY DEF AInv, TypeOK
  <2>4. ProcessEvent /\ CheckSessionState(l.session, serverProcesses[l.session].state)
    BY <1>10 DEF LostServerChanges
  <2>5. PICK m : m.session = l.session /\ lost' \subseteq (lost \ {l}) \cup {m}
    BY <1>10, <2>3 DEF LostServerChanges, ServerStates
  <2>6. NoneReplaced /\ \A r \in Sessions : Replaced(r)' => Replaced(r)
    BY <2>1, <2>5 DEF NoneReplaced, Replaced, AInv, ServersAreApart
  <2>7. ServersAreApart' /\ \A r \in Sessions : Known(r)' => Known(r)
    BY <2>2, <2>4, <2>6, CheckSessionStateApart, KnownServers DEF AInv, ProcessEvent, Handler, Service
  <2>8. \A r \in Sessions : Servers(r)' <= Servers(r)
    BY <2>6, <2>7 DEF Servers, Count
  <2>9. QED
    BY <1>8, <2>4, <2>7, <2>8
<1>11. QED
  BY <1>1, <1>2, <1>3, <1>4, <1>5, <1>6, <1>7, <1>9, <1>10 DEF Next

\* Except in Multi mode no two servers are alive together, in Multi mode a
\* session has two at most, and the numbers of the session manager are those of
\* the servers and differ: startServer(), stopServer(), openSession() and
\* closeSession() keep m_serverProcesses and m_sessions in step, however the
\* handlers, the timers and the login manager interleave.
THEOREM ApartCorrect == Spec => []ServersAreApart
<1>1. AInv => ServersAreApart
  BY DEF AInv
<1>2. QED
  BY <1>1, InitApart, NextApart, PTL DEF Spec

-----------------------------------------------------------------------------
(* Sessions that were removed                                              *)

RemovalPending(s) == SignalPending("SessionRemoved", s)

RemovedAreStopped == \A s \in Sessions : login[s] = "Removed" /\ ~RemovalPending(s) => ~Known(s)

RInv == AInv /\ connected /\ RemovedAreStopped

\* startServer() makes a server for a session only that opens or is active.
LEMMA StartedIsAlive ==
    ASSUME TypeOK, NEW s \in Sessions, NEW t, StartServer(s, t)
    PROVE  \A r \in Sessions : Known(r)' => Known(r) \/ (r = s /\ login[s] # "Removed")
<1>1. CASE UNCHANGED serverProcesses
  BY <1>1 DEF Known
<1>2. CASE StopServers(Remaining({}, Sessions))
  BY <1>2 DEF StopServers, Known
<1>3. CASE LaunchServer(s) /\ ~Ignored(s)
  <2>1. \A r \in Sessions \ {s} : serverProcesses'[r] \in {serverProcesses[r], NoServer}
    BY <1>3 DEF LaunchServer, Remaining, NoServers, TypeOK
  <2>2. login[s] # "Removed"
    BY <1>3 DEF Ignored
  <2>3. QED
    BY <2>1, <2>2 DEF Known
<1>4. QED
  BY <1>1, <1>2, <1>3 DEF StartServer

\* The signal that is taken is the only one that is not pending any more.
LEMMA TakenRemoval ==
    ASSUME TypeOK, signals # <<>>, signals' = Tail(signals), NEW s \in Sessions, RemovalPending(s)
    PROVE  RemovalPending(s)' \/ Head(signals) = Signal("SessionRemoved", s)
<1>1. signals \in Seq(AnySignal)
  BY DEF TypeOK, AnySignal
<1>2. /\ Head(signals) = signals[1] /\ DOMAIN signals = 1..Len(signals) /\ Len(signals) \in Nat
      /\ DOMAIN signals' = 1..(Len(signals) - 1)
      /\ \A i \in 1..(Len(signals) - 1) : signals'[i] = signals[i + 1]
  BY <1>1
<1>3. PICK i \in DOMAIN signals : signals[i] = Signal("SessionRemoved", s)
  BY DEF RemovalPending, SignalPending
<1>4. CASE i = 1
  BY <1>2, <1>3, <1>4
<1>5. CASE i # 1
  <2>1. i - 1 \in DOMAIN signals' /\ signals'[i - 1] = signals[i]
    BY <1>2, <1>5
  <2>2. QED
    BY <1>3, <2>1 DEF RemovalPending, SignalPending, Signal
<1>6. QED
  BY <1>4, <1>5

\* A removal that is announced is pending, and the others stay so.
LEMMA AnnouncedRemoval ==
    ASSUME TypeOK, connected, NEW s \in Sessions, NEW type \in {"SessionNew", "SessionRemoved"}, Emit(type, s)
    PROVE  /\ type = "SessionRemoved" => RemovalPending(s)'
           /\ \A r \in Sessions : RemovalPending(r) => RemovalPending(r)'
<1> DEFINE e == Signal(type, s)
<1>1. signals \in Seq(AnySignal) /\ e \in AnySignal
  BY DEF TypeOK, AnySignal, Signal
<1>2. signals' = Append(signals, e)
  BY DEF Emit
<1>3. type = "SessionRemoved" => e = Signal("SessionRemoved", s)
  OBVIOUS
<1> HIDE DEF e
<1>4. /\ DOMAIN signals = 1..Len(signals) /\ DOMAIN signals' = 1..(Len(signals) + 1) /\ Len(signals) \in Nat
      /\ \A i \in 1..Len(signals) : signals'[i] = signals[i]
      /\ signals'[Len(signals) + 1] = e
  BY <1>1, <1>2
<1>5. Len(signals) + 1 \in DOMAIN signals' /\ \A i \in DOMAIN signals : i \in DOMAIN signals' /\ signals'[i] = signals[i]
  BY <1>4
<1>6. QED
  BY <1>3, <1>4, <1>5 DEF RemovalPending, SignalPending, Signal

LEMMA NextRemoved == RInv /\ [Next]_vars => RInv'
<1> SUFFICES ASSUME RInv, [Next]_vars PROVE RInv'
  OBVIOUS
<1>0. AInv' /\ TypeOK
  BY NextApart DEF RInv, AInv
\* No server is started for a session that was removed, and no removal forgotten.
<1>1. CASE /\ connected'
           /\ \A r \in Sessions : /\ login'[r] = "Removed" => login[r] = "Removed" \/ RemovalPending(r)'
                                  /\ RemovalPending(r) => RemovalPending(r)' \/ ~Known(r)'
                                  /\ Known(r)' => Known(r) \/ login'[r] # "Removed"
  BY <1>0, <1>1 DEF RInv, RemovedAreStopped
<1>2. ASSUME UNCHANGED signals PROVE \A r \in Sessions : RemovalPending(r)' <=> RemovalPending(r)
  BY <1>2 DEF RemovalPending, SignalPending, Signal
<1>3. ASSUME UNCHANGED serverProcesses PROVE \A r \in Sessions : Known(r)' <=> Known(r)
  BY <1>3 DEF Known
<1>4. CASE UNCHANGED vars \/ ConnectToLoginManager \/ Run
  <2>1. UNCHANGED <<login, serverProcesses, signals>> /\ connected'
    BY <1>4 DEF vars, ConnectToLoginManager, Run, Handler, Service, loginVars, serviceVars, RInv
  <2>2. QED
    BY <1>1, <1>2, <1>3, <2>1
<1>5. ASSUME NEW s \in Sessions,
             SessionNew(s) \/ SessionOpened(s) \/ SessionClosing(s) \/ SessionRemoved(s)
               \/ EnvironmentReady(s) \/ Matures(s)
      PROVE  RInv'
  <2>1. connected' /\ UNCHANGED serverProcesses
    BY <1>5 DEF SessionNew, SessionOpened, SessionClosing, SessionRemoved, EnvironmentReady, Matures,
                LoginManager, serviceVars, RInv
  <2>2. CASE SessionNew(s)
    <3>1. \A r \in Sessions : RemovalPending(r) => RemovalPending(r)'
      BY <1>0, <2>2, AnnouncedRemoval DEF SessionNew, RInv
    <3>2. \A r \in Sessions : login'[r] = "Removed" => login[r] = "Removed"
      BY <1>0, <2>2 DEF SessionNew, TypeOK
    <3>3. QED
      BY <1>1, <1>3, <2>1, <3>1, <3>2
  <2>3. CASE SessionRemoved(s)
    <3>1. RemovalPending(s)' /\ \A r \in Sessions : RemovalPending(r) => RemovalPending(r)'
      BY <1>0, <2>3, AnnouncedRemoval DEF SessionRemoved, RInv
    <3>2. \A r \in Sessions : login'[r] = "Removed" => login[r] = "Removed" \/ r = s
      BY <1>0, <2>3 DEF SessionRemoved, TypeOK
    <3>3. QED
      BY <1>1, <1>3, <2>1, <3>1, <3>2
  <2>4. CASE SessionOpened(s) \/ SessionClosing(s) \/ EnvironmentReady(s) \/ Matures(s)
    <3>1. UNCHANGED signals /\ \A r \in Sessions : login'[r] = "Removed" => login[r] = "Removed"
      BY <1>0, <2>4 DEF SessionOpened, SessionClosing, EnvironmentReady, Matures, TypeOK
    <3>2. QED
      BY <1>1, <1>2, <1>3, <2>1, <3>1
  <2>5. QED
    BY <1>5, <2>2, <2>3, <2>4
<1>6. CASE HandleSessionNew
  <2>1. /\ signals # <<>> /\ Head(signals).type = "SessionNew" /\ signals' = Tail(signals)
        /\ connected' /\ UNCHANGED login /\ StartServer(Head(signals).session, timers)
    BY <1>6 DEF HandleSessionNew, Handler, Service, loginVars, RInv
  <2>2. \A r \in Sessions : Head(signals) # Signal("SessionRemoved", r)
    BY <2>1 DEF Signal
  <2>3. \A r \in Sessions : RemovalPending(r) => RemovalPending(r)'
    BY <1>0, <2>1, <2>2, TakenRemoval
  <2>4. \A r \in Sessions : Known(r)' => Known(r) \/ login[r] # "Removed"
    BY <1>0, <2>1, SignalsType, StartedIsAlive
  <2>5. QED
    BY <1>1, <2>1, <2>3, <2>4
<1>7. CASE HandleSessionRemoved
  <2>1. /\ signals # <<>> /\ Head(signals).type = "SessionRemoved" /\ signals' = Tail(signals)
        /\ connected' /\ UNCHANGED login
    BY <1>7 DEF HandleSessionRemoved, Handler, Service, loginVars, RInv
  <2>2. PICK s \in Sessions : s = Head(signals).session
    BY <1>0, <2>1, SignalsType
  <2>3. /\ ~Known(s)'
        /\ \A r \in Sessions : Known(r)' => Known(r)
    <3>1. CASE StopServers({s})
      BY <3>1 DEF StopServers, Known
    <3>2. CASE ~Known(s) /\ UNCHANGED serverProcesses
      BY <3>2 DEF Known
    <3>3. QED
      BY <1>7, <2>2, <3>1, <3>2 DEF HandleSessionRemoved
  <2>4. \A r \in Sessions : RemovalPending(r) => RemovalPending(r)' \/ r = s
    <3>1. \A r \in Sessions : Head(signals) = Signal("SessionRemoved", r) => r = s
      BY <2>2 DEF Signal
    <3>2. QED
      BY <1>0, <2>1, <3>1, TakenRemoval
  <2>5. QED
    BY <1>1, <2>1, <2>3, <2>4
<1>8. ASSUME NEW s \in Sessions, VisitSession(s) \/ DeferredStart(s) PROVE RInv'
  <2>1. connected' /\ UNCHANGED <<login, signals>>
    BY <1>8 DEF VisitSession, DeferredStart, Handler, Service, loginVars, RInv
  <2>2. (\E t : StartServer(s, t)) \/ UNCHANGED serverProcesses
    BY <1>8 DEF VisitSession, DeferredStart, serviceVars
  <2>3. \A r \in Sessions : Known(r)' => Known(r) \/ login[r] # "Removed"
    BY <1>0, <1>3, <2>2, StartedIsAlive
  <2>4. QED
    BY <1>1, <1>2, <2>1, <2>3
<1>9. ASSUME ProcessEvent, NEW s \in Sessions, NEW state, CheckSessionState(s, state), Known(s) \/ state = serverProcesses[s].state
      PROVE  RInv'
  <2>1. connected' /\ UNCHANGED <<login, signals>>
    BY <1>9 DEF ProcessEvent, Handler, Service, loginVars, RInv
  <2>2. \A r \in Sessions : Known(r)' => Known(r)
    <3>1. CASE StopServers({s})
      BY <3>1 DEF StopServers, Known
    <3>2. CASE serverProcesses' = [serverProcesses EXCEPT ![s].state = state]
      <4>1. \A r \in Sessions \ {s} : serverProcesses'[r] = serverProcesses[r]
        BY <1>0, <3>2 DEF TypeOK
      <4>2. CASE Known(s)
        BY <4>1, <4>2 DEF Known
      <4>3. CASE ~Known(s)
        <5>1. serverProcesses'[s] = [serverProcesses[s] EXCEPT !.state = serverProcesses[s].state]
          BY <1>0, <1>9, <3>2, <4>3 DEF TypeOK
        <5>2. serverProcesses'[s] = NoServer
          BY <4>3, <5>1 DEF Known, NoServer, Server
        <5>3. QED
          BY <4>1, <5>2 DEF Known, NoServer, Server
      <4>4. QED
        BY <4>2, <4>3
    <3>3. QED
      BY <1>9, <3>1, <3>2 DEF CheckSessionState
  <2>3. QED
    BY <1>1, <1>2, <2>1, <2>2
<1>10. ASSUME NEW s \in Sessions, ServerRuns(s) \/ ServerEnds(s) \/ RestartServer(s) PROVE RInv'
  <2>1. Known(s) /\ \E state : CheckSessionState(s, state)
    BY <1>0, <1>10, KnownServers DEF ServerRuns, ServerEnds, RestartServer, ServerStates
  <2>2. ProcessEvent
    BY <1>10 DEF ServerRuns, ServerEnds, RestartServer
  <2>3. QED
    BY <1>9, <2>1, <2>2
<1>11. ASSUME NEW l \in lost, LostServerChanges(l) PROVE RInv'
  BY <1>0, <1>9, <1>11 DEF LostServerChanges, TypeOK
<1>12. QED
  BY <1>4, <1>5, <1>6, <1>7, <1>8, <1>10, <1>11 DEF Next

\* When the service was connected to the login manager in time, a session that
\* was removed has no server once its signal is handled, and gets none later: a
\* timer of deferServerStart(), the loop of startServers() and the restart all
\* look at the session before they start or keep a server.
THEOREM RemovedCorrect == Spec => RemovedIsStopped
<1>1. Init /\ connected => RInv
  BY InitApart DEF RInv, RemovedAreStopped, Init
<1>2. RInv => \A s \in Sessions : login[s] = "Removed" /\ ~SignalPending("SessionRemoved", s) => ~Known(s)
  BY DEF RInv, RemovedAreStopped, RemovalPending
<1>3. QED
  BY <1>1, <1>2, NextRemoved, PTL DEF Spec, RemovedIsStopped
=============================================================================
