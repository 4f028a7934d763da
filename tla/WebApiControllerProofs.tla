------------------------ MODULE WebApiControllerProofs ------------------------
(* Theorems about WebApiController, for any threads, connections and limit. *)
EXTENDS WebApiController, FiniteSetTheorems, TLAPS

\* The steps that are about one request.
ThreadStep(t) ==
    \/ \E k \in RequestKinds, c \in Connections \cup {NoConnection} : StartRequest(t, k, c)
    \/ StartAuthentication(t)
    \/ RefuseControl(t) \/ LookupConnection(t) \/ LockConnection(t) \/ EndUse(t) \/ BeginClose(t)
    \/ RemoveConnection(t) \/ InsertConnection(t)
    \/ BeginCheck(t) \/ ControlFeature(t) \/ StartTimers(t) \/ CreateConnection(t)
    \/ AuthenticationSucceeds(t) \/ AuthenticationFails(t)

LEMMA NextCases ==
    ASSUME [Next]_vars
    PROVE  \/ UNCHANGED vars
           \/ \E t \in Threads : ThreadStep(t)
           \/ EndOfRequests \/ EndRemoval \/ CheckMap \/ EndCheck \/ EndEvent
           \/ \E c \in Connections : BeginRemoval(c) \/ BeginEvent(c) \/ DeleteConnection(c)
BY Zenon DEF Next, ThreadStep, RequestStep, Posted, Authenticated

-----------------------------------------------------------------------------
(* Types.  A request that is about to insert its connection has one: the   *)
(* type of the map rests on that.                                          *)

HaveConnection == \A t \in Threads : pc[t] \in PointerAt => conn[t] \in Connections

TInv == TypeOK /\ HaveConnection

LEMMA InitTInv == Init => TInv
<1> SUFFICES ASSUME Init PROVE TInv
  OBVIOUS
<1>1. worker \in [task : {"None", "Check", "Restart", "Event"}, conn : Connections \cup {NoConnection},
                  thread : Threads \cup {NoThread}]
  BY DEF Init, Idle
<1>2. pc \in [Threads -> PointerAt \cup {"Idle", "Checking", "Waiting", "Checked", "Removing", "Creating"}]
  BY DEF Init
<1>3. kind \in [Threads -> RequestKinds \cup {"None"}] /\ conn \in [Threads -> Connections \cup {NoConnection}]
  BY DEF Init
<1>4. object \in [Connections -> {"None", "Live", "Deleting"}]
  BY DEF Init
<1>5. HaveConnection
  BY DEF Init, HaveConnection, PointerAt, LockedAt
<1>6. QED
  BY <1>1, <1>2, <1>3, <1>4, <1>5 DEF Init, TInv, TypeOK

LEMMA DropPointersType ==
    ASSUME TypeOK, DropPointers
    PROVE  object' \in [Connections -> {"None", "Live", "Deleting"}]
BY DEF TypeOK, DropPointers

LEMMA ThreadStepKeepsTInv ==
    ASSUME TInv, NEW t \in Threads, ThreadStep(t)
    PROVE  TInv'
<1> USE DEF TInv, TypeOK, HaveConnection, Go, Finish, PointerAt, LockedAt
<1>1. CASE \E k \in RequestKinds, c \in Connections \cup {NoConnection} : StartRequest(t, k, c)
  BY <1>1 DEF StartRequest, MainThread
<1>2. CASE StartAuthentication(t)
  BY <1>2 DEF StartAuthentication, MainThread
<1>3. CASE RefuseControl(t) \/ LookupConnection(t) \/ LockConnection(t) \/ BeginClose(t)
  BY <1>3 DEF RefuseControl, LookupConnection, LockConnection, BeginClose, Request
<1>4. CASE EndUse(t) \/ AuthenticationFails(t)
  BY <1>4, DropPointersType DEF EndUse, AuthenticationFails, Request
<1>5. CASE RemoveConnection(t)
  BY <1>5, DropPointersType DEF RemoveConnection, Request
<1>6. CASE InsertConnection(t)
  BY <1>6 DEF InsertConnection, Request
<1>7. CASE AuthenticationSucceeds(t)
  BY <1>7 DEF AuthenticationSucceeds, Request
<1>8. CASE BeginCheck(t) \/ ControlFeature(t)
  BY <1>8 DEF BeginCheck, ControlFeature, WorkerIdle, WorkerThread, Working
<1>9. CASE StartTimers(t)
  BY <1>9, DropPointersType DEF StartTimers, WorkerIdle, WorkerThread
<1>10. CASE CreateConnection(t)
  BY <1>10 DEF CreateConnection, WorkerIdle, WorkerThread
<1>11. QED
  BY <1>1, <1>2, <1>3, <1>4, <1>5, <1>6, <1>7, <1>8, <1>9, <1>10 DEF ThreadStep

LEMMA NextTInv == TInv /\ [Next]_vars => TInv'
<1> SUFFICES ASSUME TInv, [Next]_vars PROVE TInv'
  OBVIOUS
<1> USE DEF TInv, TypeOK, HaveConnection, Go, Finish, PointerAt, LockedAt
<1>1. CASE UNCHANGED vars
  BY <1>1 DEF vars
<1>2. CASE \E t \in Threads : ThreadStep(t)
  BY <1>2, ThreadStepKeepsTInv
<1>3. CASE EndOfRequests \/ \E c \in Connections : BeginRemoval(c)
  BY <1>3 DEF EndOfRequests, BeginRemoval, MainThread
<1>4. CASE EndRemoval
  BY <1>4, DropPointersType DEF EndRemoval
<1>5. CASE CheckMap
  BY <1>5 DEF CheckMap, WorkerThread, Idle
<1>6. CASE EndCheck
  BY <1>6, DropPointersType DEF EndCheck, WorkerThread, Idle
<1>7. CASE EndEvent
  BY <1>7 DEF EndEvent, WorkerThread, Idle
<1>8. CASE \E c \in Connections : BeginEvent(c) \/ DeleteConnection(c)
  BY <1>8 DEF BeginEvent, DeleteConnection, WorkerIdle, WorkerThread, Working
<1>9. QED
  BY <1>1, <1>2, <1>3, <1>4, <1>5, <1>6, <1>7, <1>8, NextCases

\* Every variable has a value of its type, in particular the map holds
\* connections only.
THEOREM TypeCorrect == Spec => []TypeOK
<1>1. TInv => TypeOK
  BY DEF TInv
<1>2. QED
  BY <1>1, InitTInv, NextTInv, PTL DEF Spec

-----------------------------------------------------------------------------
(* Pointers.  Every step that takes a pointer away goes on with            *)
(* DropPointers, which leaves alone what others still refer to.            *)

\* What is referred to after the pointers were dropped was so before, or is
\* otherwise known to be there.
LEMMA DropPointersKeepsValid ==
    ASSUME TypeOK, PointersAreValid, DropPointers,
           \A c \in Connections : Referenced(c)' => Referenced(c),
           worker'.task = "Event" => worker' = worker
    PROVE  PointersAreValid'
BY DEF TypeOK, PointersAreValid, DropPointers

\* A step that creates no pointer and deletes nothing.
LEMMA NoNewPointer ==
    ASSUME TypeOK, PointersAreValid, UNCHANGED object,
           \A c \in Connections : Referenced(c)' => Referenced(c),
           worker'.task = "Event" => worker' = worker
    PROVE  PointersAreValid'
BY DEF TypeOK, PointersAreValid

LEMMA ThreadStepKeepsPointers ==
    ASSUME TInv, PointersAreValid, NEW t \in Threads, ThreadStep(t)
    PROVE  PointersAreValid'
<1> USE DEF TInv, TypeOK, Go, Finish, PointerAt, LockedAt, Referenced
<1>1. CASE \E k \in RequestKinds, c \in Connections \cup {NoConnection} : StartRequest(t, k, c)
  BY <1>1, NoNewPointer DEF StartRequest, MainThread
<1>2. CASE StartAuthentication(t)
  BY <1>2, NoNewPointer DEF StartAuthentication, MainThread
<1>3. CASE RefuseControl(t) \/ LookupConnection(t) \/ LockConnection(t) \/ BeginClose(t)
  BY <1>3, NoNewPointer DEF RefuseControl, LookupConnection, LockConnection, BeginClose, Request
<1>4. CASE EndUse(t) \/ AuthenticationFails(t)
  BY <1>4, DropPointersKeepsValid DEF EndUse, AuthenticationFails, Request
<1>5. CASE RemoveConnection(t)
  BY <1>5, DropPointersKeepsValid DEF RemoveConnection, Request
<1>6. CASE InsertConnection(t)
  BY <1>6, NoNewPointer DEF InsertConnection, Request
<1>7. CASE AuthenticationSucceeds(t)
  BY <1>7, NoNewPointer DEF AuthenticationSucceeds, Request
<1>8. CASE BeginCheck(t) \/ ControlFeature(t)
  BY <1>8, NoNewPointer DEF BeginCheck, ControlFeature, WorkerIdle, WorkerThread, Working
<1>9. CASE StartTimers(t)
  BY <1>9, DropPointersKeepsValid DEF StartTimers, WorkerIdle, WorkerThread
<1>10. CASE CreateConnection(t)
  BY <1>10 DEF CreateConnection, WorkerIdle, WorkerThread, Idle, PointersAreValid
<1>11. QED
  BY <1>1, <1>2, <1>3, <1>4, <1>5, <1>6, <1>7, <1>8, <1>9, <1>10 DEF ThreadStep

LEMMA NextPointers == TInv /\ PointersAreValid /\ [Next]_vars => PointersAreValid'
<1> SUFFICES ASSUME TInv, PointersAreValid, [Next]_vars PROVE PointersAreValid'
  OBVIOUS
<1> USE DEF TInv, TypeOK, Go, Finish, PointerAt, LockedAt, Referenced
<1>1. CASE UNCHANGED vars
  BY <1>1, NoNewPointer DEF vars
<1>2. CASE \E t \in Threads : ThreadStep(t)
  BY <1>2, ThreadStepKeepsPointers
<1>3. CASE EndOfRequests \/ \E c \in Connections : BeginRemoval(c)
  BY <1>3, NoNewPointer DEF EndOfRequests, BeginRemoval, MainThread
<1>4. CASE EndRemoval
  BY <1>4, DropPointersKeepsValid DEF EndRemoval
<1>5. CASE CheckMap
  BY <1>5, NoNewPointer DEF CheckMap, WorkerThread, Idle
<1>6. CASE EndCheck
  BY <1>6, DropPointersKeepsValid DEF EndCheck, WorkerThread, Idle
<1>7. CASE EndEvent
  BY <1>7, NoNewPointer DEF EndEvent, WorkerThread, Idle
<1>8. CASE \E c \in Connections : BeginEvent(c) \/ DeleteConnection(c)
  BY <1>8 DEF BeginEvent, DeleteConnection, WorkerIdle, WorkerThread, Working, Idle, PointersAreValid
<1>9. QED
  BY <1>1, <1>2, <1>3, <1>4, <1>5, <1>6, <1>7, <1>8, NextCases

\* What the map, a request or the worker thread refers to is never about to be
\* deleted, however requests, expiries and events interleave.
THEOREM PointersCorrect == Spec => []PointersAreValid
<1>1. Init => PointersAreValid
  BY DEF Init, PointersAreValid, Referenced, Idle, PointerAt, LockedAt
<1>2. QED
  BY <1>1, InitTInv, NextTInv, NextPointers, PTL DEF Spec

-----------------------------------------------------------------------------
(* The limit.  Finitely many connections are open, as each was inserted by *)
(* a step of its own.                                                      *)

\* Logins that have passed the check of the limit.
LoggingIn == {t \in Threads : pc[t] \in {"Creating", "Authenticating", "Inserting"}}

BInv == IsFiniteSet(connections) /\ OpenConnectionsBounded

LEMMA LoggingInFinite ==
    /\ IsFiniteSet(LoggingIn) /\ Cardinality(LoggingIn) \in Nat
    /\ Cardinality(LoggingIn) <= Cardinality(Threads) /\ Cardinality(Threads) \in Nat
BY FS_Subset, FS_CardinalityType, WebApiAssumption DEF LoggingIn

\* Steps by which no login begins and no connection is added.
LEMMA NothingNew ==
    ASSUME BInv, connections' \subseteq connections, LoggingIn' \subseteq LoggingIn
    PROVE  BInv'
<1>1. /\ IsFiniteSet(connections') /\ Cardinality(connections') <= Cardinality(connections)
      /\ Cardinality(connections) \in Nat /\ Cardinality(connections') \in Nat
  BY FS_Subset, FS_CardinalityType DEF BInv
<1>2. /\ Cardinality(LoggingIn') <= Cardinality(LoggingIn)
      /\ Cardinality(LoggingIn) \in Nat /\ Cardinality(LoggingIn') \in Nat
  BY LoggingInFinite, FS_Subset, FS_CardinalityType
<1>3. QED
  BY <1>1, <1>2, LoggingInFinite, WebApiAssumption DEF BInv, OpenConnectionsBounded, LoggingIn

\* A login that begins has found the map below its limit.
LEMMA LoginBegins ==
    ASSUME BInv, UNCHANGED connections, Cardinality(connections) < ConnectionLimit
    PROVE  BInv'
<1>1. Cardinality(LoggingIn') \in Nat /\ Cardinality(LoggingIn') <= Cardinality(Threads)
  <2>1. LoggingIn' \subseteq Threads
    BY DEF LoggingIn
  <2>2. QED
    BY <2>1, FS_Subset, FS_CardinalityType, WebApiAssumption
<1>2. Cardinality(connections) \in Nat /\ Cardinality(Threads) \in Nat
  BY FS_CardinalityType, WebApiAssumption DEF BInv
<1>3. QED
  BY <1>1, <1>2, WebApiAssumption DEF BInv, OpenConnectionsBounded, LoggingIn

\* A connection that is inserted ends a login.
LEMMA InsertionKeepsBound ==
    ASSUME TInv, BInv, NEW t \in Threads, InsertConnection(t)
    PROVE  BInv'
<1>1. t \in LoggingIn /\ LoggingIn' = LoggingIn \ {t}
  BY DEF TInv, TypeOK, InsertConnection, Go, LoggingIn
<1>2. Cardinality(LoggingIn') = Cardinality(LoggingIn) - 1 /\ Cardinality(LoggingIn) \in Nat
  BY <1>1, LoggingInFinite, FS_RemoveElement
<1>3. /\ IsFiniteSet(connections') /\ Cardinality(connections') \in Nat /\ Cardinality(connections) \in Nat
      /\ Cardinality(connections') <= Cardinality(connections) + 1
  <2>1. connections' = connections \cup {conn[t]} /\ IsFiniteSet(connections)
    BY DEF BInv, InsertConnection
  <2>2. /\ IsFiniteSet(connections \cup {conn[t]}) /\ Cardinality(connections) \in Nat
        /\ Cardinality(connections \cup {conn[t]}) \in {Cardinality(connections), Cardinality(connections) + 1}
    BY <2>1, FS_AddElement, FS_CardinalityType
  <2>3. QED
    BY <2>1, <2>2
<1>4. QED
  BY <1>2, <1>3, LoggingInFinite, WebApiAssumption DEF BInv, OpenConnectionsBounded, LoggingIn

LEMMA NextBInv == TInv /\ BInv /\ [Next]_vars => BInv'
<1> SUFFICES ASSUME TInv, BInv, [Next]_vars PROVE BInv'
  OBVIOUS
<1>1. ASSUME NEW t \in Threads, ThreadStep(t) PROVE BInv'
  <2>1. CASE StartAuthentication(t)
    BY <2>1, LoginBegins DEF StartAuthentication, MainThread
  <2>2. CASE InsertConnection(t)
    BY <2>2, InsertionKeepsBound
  <2>3. CASE ~StartAuthentication(t) /\ ~InsertConnection(t)
    <3>1. connections' \subseteq connections
      BY <1>1, <2>3 DEF ThreadStep, StartRequest, RefuseControl, LookupConnection, LockConnection, EndUse,
         BeginClose, RemoveConnection, BeginCheck, ControlFeature, StartTimers, CreateConnection,
         AuthenticationSucceeds, AuthenticationFails, MainThread, WorkerIdle, WorkerThread
    <3>2. LoggingIn' \subseteq LoggingIn
      BY <1>1, <2>3 DEF TInv, TypeOK, ThreadStep, StartRequest, RefuseControl, LookupConnection, LockConnection, EndUse,
         BeginClose, RemoveConnection, BeginCheck, ControlFeature, StartTimers, CreateConnection,
         AuthenticationSucceeds, AuthenticationFails, Go, Finish, LoggingIn
    <3>3. QED
      BY <3>1, <3>2, NothingNew
  <2>4. QED
    BY <2>1, <2>2, <2>3
<1>2. CASE UNCHANGED vars
  BY <1>2, NothingNew DEF vars, LoggingIn
<1>3. CASE EndOfRequests \/ EndRemoval \/ CheckMap \/ EndCheck \/ EndEvent
  BY <1>3, NothingNew DEF EndOfRequests, EndRemoval, CheckMap, EndCheck, EndEvent, MainThread, WorkerThread,
     Go, Finish, LoggingIn, TInv, TypeOK
<1>4. CASE \E c \in Connections : BeginRemoval(c) \/ BeginEvent(c) \/ DeleteConnection(c)
  BY <1>4, NothingNew DEF BeginRemoval, BeginEvent, DeleteConnection, MainThread, WorkerIdle, WorkerThread, LoggingIn
<1>5. QED
  BY <1>1, <1>2, <1>3, <1>4, NextCases

\* However many logins are under way, fewer than the threads exceed the limit.
THEOREM BoundCorrect == Spec => []OpenConnectionsBounded
<1>1. Init => BInv
  <2> SUFFICES ASSUME Init PROVE BInv
    OBVIOUS
  <2>1. connections = {} /\ LoggingIn = {}
    BY DEF Init, LoggingIn
  <2>2. IsFiniteSet({}) /\ Cardinality({}) = 0
    BY FS_EmptySet
  <2>3. Cardinality(Threads) \in Nat /\ Cardinality(Threads) # 0
    BY FS_CardinalityType, FS_EmptySet, WebApiAssumption
  <2>4. QED
    BY <2>1, <2>2, <2>3, WebApiAssumption DEF BInv, OpenConnectionsBounded, LoggingIn
<1>2. BInv => OpenConnectionsBounded
  BY DEF BInv
<1>3. QED
  BY <1>1, <1>2, InitTInv, NextTInv, NextBInv, PTL DEF Spec

-----------------------------------------------------------------------------
(* Locks.  A login returns its connection locked without having waited for *)
(* the lock, in a pointer that is new.                                     *)

Exclusive == \A t, u \in Threads :
    pc[t] \in LockedAt /\ pc[u] \in LockedAt /\ conn[t] = conn[u] => t = u

\* Nobody else knows the connection of a login before it is inserted.
Private == \A t \in Threads : pc[t] \in {"Authenticating", "Inserting"} =>
    conn[t] \notin connections /\ \A u \in Threads \ {t} : conn[u] # conn[t]

LInv == Exclusive /\ Private

LEMMA NextLInv == TInv /\ PointersAreValid /\ LInv /\ [Next]_vars => LInv'
<1> SUFFICES ASSUME TInv, PointersAreValid, LInv, [Next]_vars PROVE LInv'
  OBVIOUS
<1> USE DEF LInv, Exclusive, Private, TInv, TypeOK, HaveConnection, Go, Finish, LockedAt, PointerAt
<1>1. ASSUME NEW t \in Threads, ThreadStep(t) PROVE LInv'
  <2>1. CASE \E k \in RequestKinds, c \in Connections \cup {NoConnection} : StartRequest(t, k, c)
    BY <2>1, WebApiAssumption DEF StartRequest, MainThread, Answered
  <2>2. CASE StartAuthentication(t)
    BY <2>2 DEF StartAuthentication, MainThread
  <2>3. CASE LookupConnection(t) \/ BeginClose(t)
    BY <2>3 DEF LookupConnection, BeginClose, Request
  <2>4. CASE LockConnection(t)
    BY <2>4 DEF LockConnection, Request, Holders
  <2>5. CASE EndUse(t) \/ AuthenticationFails(t) \/ RemoveConnection(t)
    BY <2>5, WebApiAssumption DEF EndUse, AuthenticationFails, RemoveConnection, Request
  <2>6. CASE InsertConnection(t) \/ AuthenticationSucceeds(t)
    BY <2>6 DEF InsertConnection, AuthenticationSucceeds, Request
  <2>7. CASE BeginCheck(t) \/ ControlFeature(t)
    BY <2>7 DEF BeginCheck, ControlFeature, WorkerIdle, WorkerThread
  <2>8. CASE StartTimers(t)
    BY <2>8, WebApiAssumption DEF StartTimers, WorkerIdle, WorkerThread
  <2>9. CASE CreateConnection(t)
    BY <2>9 DEF CreateConnection, WorkerIdle, WorkerThread, Unused, PointersAreValid, Referenced
  <2>10. CASE RefuseControl(t)
    BY <2>10, WebApiAssumption DEF RefuseControl, Request
  <2>11. QED
    BY <1>1, <2>1, <2>2, <2>3, <2>4, <2>5, <2>6, <2>7, <2>8, <2>9, <2>10 DEF ThreadStep
<1>2. CASE UNCHANGED vars
  BY <1>2 DEF vars
<1>3. CASE EndOfRequests \/ EndRemoval \/ EndCheck \/ EndEvent
  BY <1>3 DEF EndOfRequests, EndRemoval, EndCheck, EndEvent, MainThread, WorkerThread
<1>4. CASE CheckMap
  BY <1>4, WebApiAssumption DEF CheckMap, WorkerThread
<1>5. CASE \E c \in Connections : BeginRemoval(c) \/ BeginEvent(c) \/ DeleteConnection(c)
  BY <1>5 DEF BeginRemoval, BeginEvent, DeleteConnection, MainThread, WorkerIdle, WorkerThread
<1>6. QED
  BY <1>1, <1>2, <1>3, <1>4, <1>5, NextCases

\* A connection is locked by one request at a time, even though the lock of a
\* new one is taken without waiting for it.
THEOREM LocksAreExclusive == Spec => []Exclusive
<1>1. Init => PointersAreValid
  BY DEF Init, PointersAreValid, Referenced, Idle, PointerAt, LockedAt
<1>2. Init => LInv
  BY DEF Init, LInv, Exclusive, Private, LockedAt
<1>3. LInv => Exclusive
  BY DEF LInv
<1>4. QED
  BY <1>1, <1>2, <1>3, InitTInv, NextTInv, NextPointers, NextLInv, PTL DEF Spec
=============================================================================
