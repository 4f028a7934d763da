------------------------------ MODULE DemoServer ------------------------------
(***************************************************************************)
(* The demo server of a shared screen.  It is a client of the computer's   *)
(* VNC server, asks it for updates by a timer and keeps them in a queue,   *)
(* which starts anew with a key frame.  Every viewer is served by a thread *)
(* of its own, which goes through the queue under a lock.                  *)
(*                                                                         *)
(* The screen is a set of regions; an update maps some of them to the      *)
(* number of the change that gave them their content.  What matters is     *)
(* which pictures viewers get to see when queues start anew, viewers come  *)
(* and lag behind, the VNC server's connection breaks, and the process     *)
(* dies and is started again.                                              *)
(***************************************************************************)
EXTENDS Integers, Sequences, FiniteSets, FiniteSetsExt, Functions

CONSTANTS
    Viewers,
    Regions,      \* of the screen
    Corners,      \* regions that span the screen: their bounding rectangle is all of it
    ChangeSets,   \* the regions that may change at once
    MaxChanges,   \* bound: changes of the screen
    MemoryLimit,  \* m_memoryLimit, in updates: that their sizes differ is left out
    MaxInFlight   \* bound: updates the VNC server has sent that are not read yet

ASSUME DemoServerAssumption ==
    /\ IsFiniteSet(Regions) /\ Corners \subseteq Regions /\ Corners # {}
    /\ ChangeSets \subseteq (SUBSET Regions) \ {{}}
    /\ MaxChanges \in Nat /\ MemoryLimit \in Nat /\ MaxInFlight \in Nat \ {0}

VARIABLES
    changes,      \* the regions of each change of the screen so far
    dirty,        \* regions changed since the VNC server sent its last update
    requested,    \* which update the VNC server has been asked for
    inFlight,     \* updates it has sent
    server,       \* m_vncClientProtocol: Connecting, Running, or Disconnected for good;
                  \* Crashed if there is no process
    requestFull,  \* m_requestFullFramebufferUpdate
    messages,     \* m_framebufferUpdateMessages
    viewer,       \* the connection of each viewer
    shown         \* the picture each viewer was sent

screenVars == <<changes, dirty>>
vncVars    == <<requested, inFlight>>
serverVars == <<server, requestFull, messages>>
vars       == <<screenVars, vncVars, serverVars, viewer, shown>>

Nothing == -1
Blank   == [r \in Regions |-> Nothing]

\* The screen after the first n changes.
Picture(n) == [r \in Regions |-> Max({0} \cup {k \in 1..n : r \in changes[k]})]
Screen     == Picture(Len(changes))

Update(R)  == Restrict(Screen, R)
IsWhole(m) == DOMAIN m = Regions

\* A connection: `synced' tells whether m_keyFrame is the one of the server,
\* which counts up and never comes back to an earlier one; `index' is
\* m_framebufferUpdateMessageIndex.
Away     == [state |-> "Away", synced |-> FALSE, index |-> 0]
Accepted == [Away EXCEPT !.state = "Accepted"]
IsServed(v)   == viewer[v].state \in {"Accepted", "Running"}
NobodyServed  == \A v \in Viewers : ~IsServed(v)

Init ==
    /\ changes = <<>> /\ dirty = {}
    /\ requested = "None" /\ inFlight = <<>>
    /\ server = "Connecting"
    /\ requestFull = FALSE
    /\ messages = <<>>
    /\ viewer = [v \in Viewers |-> Away]
    /\ shown = [v \in Viewers |-> Blank]

-----------------------------------------------------------------------------
(* The screen and its VNC server.                                          *)

Change(R) ==
    /\ Len(changes) < MaxChanges
    /\ changes' = Append(changes, R)
    /\ dirty' = dirty \cup R
    /\ UNCHANGED <<vncVars, serverVars, viewer, shown>>

\* A request is answered as soon as there is something to send: everything if
\* it is not an incremental one.
SendUpdate ==
    /\ requested = "Full" \/ (requested = "Incremental" /\ dirty # {})
    /\ Len(inFlight) < MaxInFlight
    /\ inFlight' = Append(inFlight, Update(IF requested = "Full" THEN Regions ELSE dirty))
    /\ requested' = "None"
    /\ dirty' = {}
    /\ UNCHANGED <<changes, serverVars, viewer, shown>>

-----------------------------------------------------------------------------
(* DemoServer: one event loop.                                             *)

\* Mutant: a full update is requested when the queue is long, not regularly.
IsFullDueForMemory(elapsed) == requestFull

IsFullDue(elapsed) == requestFull \/ elapsed

\* The timer m_framebufferUpdateTimer fires; `elapsed' tells whether the key
\* frame interval is over.
RequestFramebufferUpdate(elapsed) ==
    /\ server = "Running"
    /\ requested' = IF IsFullDue(elapsed) THEN "Full" ELSE IF requested = "None" THEN "Incremental" ELSE requested
    /\ requestFull' = FALSE
    /\ UNCHANGED <<screenVars, inFlight, server, messages, viewer, shown>>

\* The bounding rectangle of the update is the screen.
IsFullUpdate(m) == Corners \subseteq DOMAIN m

\* Mutant: the memory limit is not looked at.
StartsKeyFrameIfFull(m) == IsFullUpdate(m)

StartsKeyFrame(m) == IsFullUpdate(m) \/ Len(messages) > 2 * MemoryLimit

\* Mutant: the key frame keeps its number.
EnqueueInSameFrame(m) ==
    /\ messages' = IF StartsKeyFrame(m) THEN <<m>> ELSE Append(messages, m)
    /\ requestFull' = (requestFull \/ Len(messages') > MemoryLimit)
    /\ UNCHANGED viewer

\* enqueueFramebufferUpdateMessage()
Enqueue(m) ==
    /\ messages' = IF StartsKeyFrame(m) THEN <<m>> ELSE Append(messages, m)
    /\ requestFull' = (requestFull \/ Len(messages') > MemoryLimit)
    /\ viewer' = [v \in Viewers |-> IF StartsKeyFrame(m) THEN [viewer[v] EXCEPT !.synced = FALSE] ELSE viewer[v]]

\* The quality is adapted by the bandwidth that the viewers get, a divisor: it
\* is zero when there is none.  Not so for the first key frame, nor for one that
\* comes within the same millisecond.
DividesByZero(m) == StartsKeyFrame(m) /\ messages # <<>> /\ NobodyServed

ReceiveUpdate ==
    /\ server = "Running" /\ inFlight # <<>>
    /\ Enqueue(Head(inFlight))
    /\ inFlight' = Tail(inFlight)
    /\ UNCHANGED <<screenVars, requested, server, shown>>

Crash ==
    /\ server = "Running" /\ inFlight # <<>>
    /\ DividesByZero(Head(inFlight))
    /\ server' = "Crashed"
    /\ viewer' = [v \in Viewers |-> Away]
    /\ requested' = "None" /\ inFlight' = <<>>
    /\ messages' = <<>> /\ requestFull' = FALSE
    /\ UNCHANGED <<screenVars, shown>>

\* The master sends its message that starts the demo server again and again.
StartDemoServer ==
    /\ server = "Crashed"
    /\ server' = "Connecting"
    /\ UNCHANGED <<screenVars, vncVars, requestFull, messages, viewer, shown>>

\* The connection to the VNC server breaks; reconnectToVncServer() starts anew.
LoseVncServer ==
    /\ server = "Running"
    /\ server' = "Connecting"
    /\ requested' = "None" /\ inFlight' = <<>>
    /\ UNCHANGED <<screenVars, requestFull, messages, viewer, shown>>

\* A connection that could not be established is not tried again.
ReconnectFails ==
    /\ server = "Connecting"
    /\ server' = "Disconnected"
    /\ UNCHANGED <<screenVars, vncVars, requestFull, messages, viewer, shown>>

\* start(), at the end of the VNC server's handshake.
Start ==
    /\ server = "Connecting"
    /\ server' = "Running"
    /\ requested' = "Full"
    /\ requestFull' = FALSE
    /\ viewer' = [v \in Viewers |-> IF viewer[v].state = "Pending" THEN Accepted ELSE viewer[v]]
    /\ UNCHANGED <<screenVars, inFlight, messages, shown>>

\* incomingConnection()
IncomingConnection(v) ==
    /\ server # "Crashed" /\ viewer[v].state = "Away"
    /\ viewer' = [viewer EXCEPT ![v] = IF server = "Running" THEN Accepted ELSE [Away EXCEPT !.state = "Pending"]]
    /\ shown' = [shown EXCEPT ![v] = Blank]
    /\ UNCHANGED <<screenVars, vncVars, serverVars>>

-----------------------------------------------------------------------------
(* DemoServerConnection: a thread per viewer.                              *)

\* The handshake with the viewer, which has the access token.
Authenticate(v) ==
    /\ viewer[v].state = "Accepted"
    /\ viewer' = [viewer EXCEPT ![v].state = "Running"]
    /\ UNCHANGED <<screenVars, vncVars, serverVars, shown>>

\* Where to go on in the queue.
Position(v) == IF ~viewer[v].synced \/ viewer[v].index > Len(messages) THEN 0 ELSE viewer[v].index

\* What the viewer shows of a region when all from there has been sent: what the
\* last update of the region has, or what was there before.
Sent(v, r) ==
    LET updates == {i \in Position(v) + 1..Len(messages) : r \in DOMAIN messages[i]}
    IN  IF updates = {} THEN shown[v][r] ELSE messages[Max(updates)][r]

\* sendFramebufferUpdate(), upon a request of the viewer, which makes one
\* whenever it has received an update, and by a timer while there is nothing to
\* send.
SendFramebufferUpdate(v) ==
    /\ viewer[v].state = "Running"
    /\ viewer' = [viewer EXCEPT ![v] = [@ EXCEPT !.synced = TRUE, !.index = Len(messages)]]
    /\ shown' = [shown EXCEPT ![v] = [r \in Regions |-> Sent(v, r)]]
    /\ UNCHANGED <<screenVars, vncVars, serverVars>>

\* The viewer closes the connection, or is refused.
Leave(v) ==
    /\ viewer[v].state # "Away"
    /\ viewer' = [viewer EXCEPT ![v] = Away]
    /\ UNCHANGED <<screenVars, vncVars, serverVars, shown>>

-----------------------------------------------------------------------------
Viewer(v) == \/ IncomingConnection(v) \/ Authenticate(v) \/ SendFramebufferUpdate(v) \/ Leave(v)

Next ==
    \/ \E R \in ChangeSets : Change(R)
    \/ SendUpdate
    \/ (\E elapsed \in BOOLEAN : RequestFramebufferUpdate(elapsed)) \/ ReceiveUpdate \/ Crash
    \/ StartDemoServer \/ LoseVncServer \/ ReconnectFails \/ Start
    \/ \E v \in Viewers : Viewer(v)

Spec == Init /\ [][Next]_vars

\* The timers of the server fire and the key frame interval ends, it reads what
\* it is sent, the VNC server answers, and viewers that are connected ask for
\* updates and are served.
Fairness ==
    /\ WF_vars(SendUpdate)
    /\ WF_vars(RequestFramebufferUpdate(TRUE))
    /\ WF_vars(ReceiveUpdate)
    /\ \A v \in Viewers : WF_vars(Authenticate(v)) /\ WF_vars(SendFramebufferUpdate(v))

FairSpec == Spec /\ Fairness

-----------------------------------------------------------------------------
(* Properties *)

Updates == UNION {[R -> 0..MaxChanges] : R \in (SUBSET Regions) \ {{}}}

\* Every variable has a value of its type.  The queue outgrows twice the limit
\* by one update at most.
TypeOK ==
    /\ changes \in Seq(ChangeSets) /\ Len(changes) <= MaxChanges
    /\ dirty \subseteq Regions
    /\ requested \in {"None", "Incremental", "Full"}
    /\ inFlight \in Seq(Updates) /\ Len(inFlight) <= MaxInFlight
    /\ server \in {"Connecting", "Running", "Disconnected", "Crashed"}
    /\ requestFull \in BOOLEAN
    /\ messages \in Seq(Updates) /\ Len(messages) <= 2 * MemoryLimit + 1
    /\ viewer \in [Viewers -> [state : {"Away", "Pending", "Accepted", "Running"}, synced : BOOLEAN, index : Nat]]
    /\ shown \in [Viewers -> [Regions -> Nothing..MaxChanges]]

\* While the queue starts with an update of the whole screen, a viewer that has
\* been sent updates of it shows a picture that was on the screen: it has missed
\* none, whether it came late, lagged behind an earlier key frame or was there
\* when the VNC server had to be connected again.  (A queue that starts with an
\* update of two corners, or because of the memory limit, does not promise so.)
PictureWasOnScreen ==
    messages # <<>> /\ IsWhole(messages[1]) =>
        \A v \in Viewers :
            viewer[v].synced => shown[v] = Picture(Max(Range(shown[v])))

\* Whoever stays connected to a server that runs shows the screen in the end, if
\* that no longer changes: whatever update a queue started with, another key
\* frame follows.
ViewersFollow ==
    \A v \in Viewers :
        <>[](server = "Running" /\ viewer[v].state = "Running") => <>[](shown[v] = Screen)
=============================================================================
