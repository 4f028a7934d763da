-------------------------- MODULE WebApiController --------------------------
(***************************************************************************)
(* The requests of the Web API plugin.  Every request runs in a thread of  *)
(* a pool.  What concerns connections to computers is done by one worker   *)
(* thread, for which a request waits (runInWorkerThread()); timers of the  *)
(* worker thread close connections by slots of the main thread, which also *)
(* accepts the requests.                                                   *)
(*                                                                         *)
(* Threads meet in m_connectionsLock, which readers hold while they wait   *)
(* for a connection and which admits no reader while a writer waits, and   *)
(* in the lock of each connection: it is the one of its control interface, *)
(* which the worker thread takes for every event of the connection, too.   *)
(* The other critical sections wait for nothing: each is one step here.    *)
(***************************************************************************)
EXTENDS Naturals, FiniteSets

CONSTANTS
    Threads,          \* of m_threadPool
    Connections,      \* bound: connections that exist at the same time
    NoConnection,
    NoThread,
    ConnectionLimit   \* also setMaxThreadCount() of the pool, which has one thread at least

ASSUME WebApiAssumption ==
    /\ IsFiniteSet(Threads) /\ Threads # {}
    /\ ConnectionLimit \in Nat
    /\ NoConnection \notin Connections /\ NoThread \notin Threads

VARIABLES
    open,         \* do clients still send requests?
    pc,           \* where each request is
    kind,         \* what it asks for
    conn,         \* the connection it is about, by its UUID
    connections,  \* keys of m_connections
    object,       \* WebApiConnection objects: Live, or Deleting when the deleter has been posted
    main,         \* the connection the main thread is about to remove
    worker,       \* what the worker thread waits for, if anything
    crashed       \* a null connection was used: the program is gone

vars == <<open, pc, kind, conn, connections, object, main, worker, crashed>>

\* Requests that look up a connection after they have checked it.
UsingKinds   == {"Query", "Control"}
RequestKinds == UsingKinds \cup {"Close"}

\* Where a request has the connection locked; where it has a pointer to it.
LockedAt  == {"Using", "Controlling", "Inserting"}
PointerAt == LockedAt \cup {"Locking", "Authenticating", "Inserted"}

Idle                      == [task |-> "None", conn |-> NoConnection, thread |-> NoThread]
Working(task, c, t)       == [task |-> task, conn |-> c, thread |-> t]

Init ==
    /\ open = TRUE
    /\ pc = [t \in Threads |-> "Idle"]
    /\ kind = [t \in Threads |-> "None"]
    /\ conn = [t \in Threads |-> NoConnection]
    /\ connections = {}
    /\ object = [c \in Connections |-> "None"]
    /\ main = NoConnection
    /\ worker = Idle
    /\ crashed = FALSE

-----------------------------------------------------------------------------
(* The locks.  A request at Locking holds m_connectionsLock for reading,   *)
(* one at Inserting or Removing waits to write.                            *)

Holders(c) == {t \in Threads : pc[t] \in LockedAt /\ conn[t] = c}
Readers    == {t \in Threads : pc[t] = "Locking"}
Writers    == {t \in Threads : pc[t] \in {"Inserting", "Removing"}}
MayRead    == Writers = {} /\ main = NoConnection
MayWrite   == Readers = {}

\* The login of a connection in the map has been answered: its timers run and
\* its UUID is known.
Answered(c) == c \in connections /\ ~ \E t \in Threads : pc[t] = "Inserted" /\ conn[t] = c

\* The shared pointers to a connection.
Referenced(c) == \/ c \in connections
                 \/ \E t \in Threads : pc[t] \in PointerAt /\ conn[t] = c
                 \/ worker.task = "Restart" /\ worker.conn = c

\* Mutant: the slots of the timers capture the connection instead of its UUID,
\* so that it is never without a pointer.
KeepPointers == UNCHANGED object

\* The last pointer to a connection posts its deletion to the worker thread.
DropPointers == object' = [c \in Connections |-> IF object[c] = "Live" /\ ~Referenced(c)' THEN "Deleting" ELSE object[c]]

Go(t, p)  == pc' = [pc EXCEPT ![t] = p] /\ UNCHANGED kind
Finish(t) == /\ pc' = [pc EXCEPT ![t] = "Idle"]
             /\ kind' = [kind EXCEPT ![t] = "None"]
             /\ conn' = [conn EXCEPT ![t] = NoConnection]

-----------------------------------------------------------------------------
(* The main thread: accepts requests and removes expired connections.      *)

MainThread == ~crashed /\ main = NoConnection /\ UNCHANGED <<connections, object, worker, crashed>>

\* The UUID of a request is one that was the answer to a login; NoConnection
\* stands for one that is not or no more in the map.
StartRequest(t, k, c) ==
    /\ MainThread /\ open
    /\ Answered(c) \/ c = NoConnection
    /\ pc[t] = "Idle"
    /\ pc' = [pc EXCEPT ![t] = "Checking"]
    /\ kind' = [kind EXCEPT ![t] = k]
    /\ conn' = [conn EXCEPT ![t] = c]
    /\ UNCHANGED <<open, main>>

\* Mutant: the limit is forgotten.
StartAuthenticationAlways(t) ==
    /\ MainThread /\ open
    /\ pc[t] = "Idle" /\ MayRead
    /\ Go(t, "Creating")
    /\ UNCHANGED <<open, conn, main>>

\* performAuthentication() begins with the limit, which it checks with the read
\* lock; it keeps no lock.  One that has to wait for the lock is a request that
\* has not come yet.
StartAuthentication(t) ==
    /\ MainThread /\ open
    /\ pc[t] = "Idle" /\ MayRead
    /\ Cardinality(connections) < ConnectionLimit
    /\ Go(t, "Creating")
    /\ UNCHANGED <<open, conn, main>>

\* The clients are done.
EndOfRequests ==
    /\ MainThread /\ open
    /\ open' = FALSE
    /\ UNCHANGED <<pc, kind, conn, main>>

\* The idle time or the lifetime of a connection is over, and the main thread
\* begins the removeConnection() that was queued for it: it waits for the lock.
\* The timers of a connection that is not in the map any more are left out: their
\* removeConnection() waits for the lock, too, and then finds nothing to remove.
BeginRemoval(c) ==
    /\ MainThread
    /\ Answered(c)
    /\ main' = c
    /\ UNCHANGED <<open, pc, kind, conn>>

EndRemoval ==
    /\ ~crashed /\ main # NoConnection
    /\ MayWrite
    /\ connections' = connections \ {main}
    /\ main' = NoConnection
    /\ UNCHANGED <<open, pc, kind, conn, worker, crashed>>
    /\ DropPointers

-----------------------------------------------------------------------------
(* The requests. *)

Request == ~crashed /\ UNCHANGED <<open, main, worker>>

\* setFeatureStatus(): the feature is unknown or the data incomplete.
RefuseControl(t) ==
    /\ Request
    /\ pc[t] = "Checked" /\ kind[t] = "Control"
    /\ Finish(t)
    /\ UNCHANGED <<connections, object, crashed>>

\* lookupConnection() after a check: what it does not find is used all the same.
LookupConnection(t) ==
    /\ Request
    /\ pc[t] = "Checked" /\ kind[t] \in UsingKinds
    /\ MayRead
    /\ IF conn[t] \in connections
       THEN Go(t, "Locking") /\ UNCHANGED crashed
       ELSE crashed' = TRUE /\ UNCHANGED <<pc, kind>>
    /\ UNCHANGED <<conn, connections, object>>

\* LockingPointer takes the lock of the connection before the read lock is released.
LockConnection(t) ==
    /\ Request
    /\ pc[t] = "Locking" /\ Holders(conn[t]) = {}
    /\ Go(t, IF kind[t] = "Control" THEN "Controlling" ELSE "Using")
    /\ UNCHANGED <<conn, connections, object, crashed>>

EndUse(t) ==
    /\ Request
    /\ pc[t] = "Using"
    /\ Finish(t)
    /\ UNCHANGED <<connections, crashed>>
    /\ DropPointers

\* closeConnection() after its check.
BeginClose(t) ==
    /\ Request
    /\ pc[t] = "Checked" /\ kind[t] = "Close"
    /\ Go(t, "Removing")
    /\ UNCHANGED <<conn, connections, object, crashed>>

\* Mutant: the connection is deleted along with its entry.
RemoveAndDelete(t) ==
    /\ Request
    /\ pc[t] = "Removing" /\ MayWrite
    /\ connections' = connections \ {conn[t]}
    /\ Finish(t)
    /\ UNCHANGED crashed
    /\ object' = [c \in Connections |-> IF c = conn[t] /\ object[c] = "Live" THEN "Deleting" ELSE object[c]]

RemoveConnection(t) ==
    /\ Request
    /\ pc[t] = "Removing" /\ MayWrite
    /\ connections' = connections \ {conn[t]}
    /\ Finish(t)
    /\ UNCHANGED crashed
    /\ DropPointers

\* The computer has accepted the credentials: the new connection is locked.
AuthenticationSucceeds(t) ==
    /\ Request
    /\ pc[t] = "Authenticating"
    /\ Go(t, "Inserting")
    /\ UNCHANGED <<conn, connections, object, crashed>>

\* It has not, or one of the waits has timed out.
AuthenticationFails(t) ==
    /\ Request
    /\ pc[t] = "Authenticating"
    /\ Finish(t)
    /\ UNCHANGED <<connections, crashed>>
    /\ DropPointers

InsertConnection(t) ==
    /\ Request
    /\ pc[t] = "Inserting" /\ MayWrite
    /\ connections' = connections \cup {conn[t]}
    /\ Go(t, "Inserted")
    /\ UNCHANGED <<conn, object, crashed>>

-----------------------------------------------------------------------------
(* The worker thread: what is posted to it, the events of the connections, *)
(* and the timers.                                                         *)

WorkerThread == ~crashed /\ UNCHANGED <<open, connections, main, crashed>>
WorkerIdle   == WorkerThread /\ worker = Idle

\* A new connection; its UUID is not known to anyone.  Which one it is makes no
\* difference.
Unused(c) == /\ object[c] = "None" /\ c # main
             /\ \A t \in Threads : conn[t] # c

CreateConnection(t) ==
    /\ WorkerIdle
    /\ pc[t] = "Creating" /\ \E c \in Connections : Unused(c)
    /\ LET c == CHOOSE d \in Connections : Unused(d)
       IN  /\ object' = [object EXCEPT ![c] = "Live"]
           /\ conn' = [conn EXCEPT ![t] = c]
    /\ Go(t, "Authenticating")
    /\ UNCHANGED worker

\* checkConnection(): the map, then the connection's lock and its idle timer.
BeginCheck(t) ==
    /\ WorkerIdle
    /\ pc[t] = "Checking"
    /\ worker' = Working("Check", conn[t], t)
    /\ Go(t, "Waiting")
    /\ UNCHANGED <<conn, object>>

\* Mutant: m_connections[uuid] also inserts what it does not find.
CheckMapInserting ==
    /\ ~crashed /\ UNCHANGED <<open, main, crashed, object>>
    /\ worker.task = "Check" /\ MayRead
    /\ connections' = connections \cup {worker.conn}
    /\ worker' = [worker EXCEPT !.task = "Restart"]
    /\ UNCHANGED <<pc, kind, conn>>

CheckMap ==
    /\ WorkerThread
    /\ worker.task = "Check" /\ MayRead
    /\ IF worker.conn \in connections
       THEN worker' = [worker EXCEPT !.task = "Restart"] /\ UNCHANGED <<pc, kind, conn>>
       ELSE worker' = Idle /\ Finish(worker.thread)
    /\ UNCHANGED object

EndCheck ==
    /\ WorkerThread
    /\ worker.task = "Restart" /\ Holders(worker.conn) = {}
    /\ worker' = Idle
    /\ Go(worker.thread, "Checked")
    /\ UNCHANGED conn
    /\ DropPointers

\* An event of the control interface comes while a request has it locked
\* (otherwise it changes nothing here).
BeginEvent(c) ==
    /\ WorkerIdle
    /\ object[c] = "Live" /\ Holders(c) # {}
    /\ worker' = Working("Event", c, NoThread)
    /\ UNCHANGED <<pc, kind, conn, object>>

EndEvent ==
    /\ WorkerThread
    /\ worker.task = "Event" /\ Holders(worker.conn) = {}
    /\ worker' = Idle
    /\ UNCHANGED <<pc, kind, conn, object>>

\* setFeatureStatus(): the request keeps its lock while it waits.
ControlFeature(t) ==
    /\ WorkerIdle
    /\ pc[t] = "Controlling"
    /\ Go(t, "Using")
    /\ UNCHANGED <<conn, object, worker>>

\* The end of performAuthentication(): the timers are started.
StartTimers(t) ==
    /\ WorkerIdle
    /\ pc[t] = "Inserted"
    /\ Finish(t)
    /\ UNCHANGED worker
    /\ DropPointers

DeleteConnection(c) ==
    /\ WorkerIdle
    /\ object[c] = "Deleting"
    /\ object' = [object EXCEPT ![c] = "None"]
    /\ UNCHANGED <<pc, kind, conn, worker>>

-----------------------------------------------------------------------------
RequestStep(t) == \/ RefuseControl(t) \/ LookupConnection(t) \/ LockConnection(t) \/ EndUse(t)
                  \/ BeginClose(t) \/ RemoveConnection(t) \/ InsertConnection(t)
Posted(t)      == \/ BeginCheck(t) \/ ControlFeature(t) \/ StartTimers(t) \/ CreateConnection(t)
Authenticated(t) == AuthenticationSucceeds(t) \/ AuthenticationFails(t)

Next ==
    \/ \E t \in Threads : \/ \E k \in RequestKinds, c \in Connections \cup {NoConnection} : StartRequest(t, k, c)
                          \/ StartAuthentication(t)
                          \/ RequestStep(t) \/ Posted(t) \/ Authenticated(t)
    \/ EndOfRequests \/ EndRemoval \/ CheckMap \/ EndCheck \/ EndEvent
    \/ \E c \in Connections : BeginRemoval(c) \/ BeginEvent(c) \/ DeleteConnection(c)

Spec == Init /\ [][Next]_vars

\* Threads run, the waits of an authentication time out, lifetimes end.  That
\* the clients are done is assumed where it is needed.
Fairness ==
    /\ \A t \in Threads : WF_vars(RequestStep(t)) /\ WF_vars(Posted(t)) /\ WF_vars(Authenticated(t))
    /\ WF_vars(EndRemoval) /\ WF_vars(CheckMap) /\ WF_vars(EndCheck) /\ WF_vars(EndEvent)
    /\ \A c \in Connections : WF_vars(BeginRemoval(c)) /\ WF_vars(DeleteConnection(c))

FairSpec == Spec /\ Fairness

-----------------------------------------------------------------------------
(* Properties *)

TypeOK ==
    /\ open \in BOOLEAN /\ crashed \in BOOLEAN
    /\ pc \in [Threads -> PointerAt \cup {"Idle", "Checking", "Waiting", "Checked", "Removing", "Creating"}]
    /\ kind \in [Threads -> RequestKinds \cup {"None"}]
    /\ conn \in [Threads -> Connections \cup {NoConnection}]
    /\ connections \subseteq Connections
    /\ object \in [Connections -> {"None", "Live", "Deleting"}]
    /\ main \in Connections \cup {NoConnection}
    /\ worker \in [task : {"None", "Check", "Restart", "Event"}, conn : Connections \cup {NoConnection},
                   thread : Threads \cup {NoThread}]

\* The limit is checked before the authentication and the connection inserted
\* after it, so that logins under way at the same time exceed it - by less than
\* the number of threads, whatever is still on its way.
OpenConnectionsBounded ==
    Cardinality(connections) + Cardinality({t \in Threads : pc[t] \in {"Creating", "Authenticating", "Inserting"}})
        < ConnectionLimit + Cardinality(Threads)

\* What is in the map, or a request has a pointer to, or the worker thread is
\* about to restart the idle timer of, is not about to be deleted; and no
\* connection is deleted while an event of it waits for its lock.
PointersAreValid == \A c \in Connections :
    /\ Referenced(c) => object[c] = "Live"
    /\ worker.task = "Event" /\ worker.conn = c => object[c] # "None"

\* Who waits for whom; the worker thread waits for the readers when it, or a
\* writer that is served before it, has to wait for them.
AwaitedByWorker ==
    CASE worker.task = "Check" -> IF MayRead THEN {} ELSE UNION {Holders(conn[t]) : t \in Readers}
      [] worker.task \in {"Restart", "Event"} -> Holders(worker.conn)
      [] OTHER -> {}

\* A request that controls a feature keeps its connection while it waits for
\* the worker thread: when that one waits for the same connection, or for
\* readers that do, or for a new connection that waits to be inserted behind
\* such readers, both wait for ever.
HeldUp == \E t \in AwaitedByWorker :
    \/ pc[t] = "Controlling"
    \/ pc[t] = "Inserting" /\ \E u \in Readers : \E v \in Holders(conn[u]) : pc[v] = "Controlling"

\* Nothing else keeps requests from being answered, and connections that no one
\* uses any more from being closed and deleted.
RequestsEnd == ~open ~> \/ crashed \/ HeldUp
                        \/ /\ \A t \in Threads : pc[t] = "Idle"
                           /\ \A c \in Connections : object[c] = "None"
=============================================================================
