----------------------- MODULE ControlConnectionProofs -----------------------
(* Theorems about ControlConnection, for any connections, failures and     *)
(* number of signals that wait.                                            *)
EXTENDS ControlConnection, TLAPS

-----------------------------------------------------------------------------
(* Types                                                                   *)

LEMMA InitType == Init => TypeOK
<1> SUFFICES ASSUME Init PROVE TypeOK
  OBVIOUS
<1>1. pc \in [Conns -> ThreadSteps \cup {"New", "Finished"}]
  BY DEF Init
<1>2. vncState \in [Conns -> States] /\ fate \in [Conns -> {"Alive", "Scheduled", "Deleted"}]
  BY DEF Init, States
<1>3. signals \in Seq(Signal)
  BY DEF Init
<1>4. QED
  BY <1>1, <1>2, <1>3 DEF Init, TypeOK, States

LEMMA EmitType ==
    ASSUME TypeOK, NEW c \in Conns, NEW kind \in {"stateChanged", "reply", "denied"}, Emit(c, kind)
    PROVE  signals' \in Seq(Signal)
<1>1. [conn |-> c, kind |-> kind] \in Signal
  BY DEF Signal
<1>2. QED
  BY <1>1 DEF TypeOK, Emit

\* A thread enters a state, and announces it if it is another one.
LEMMA SetStateType ==
    ASSUME TypeOK, NEW c \in Conns, NEW s \in States, SetState(c, s)
    PROVE  vncState' \in [Conns -> States] /\ signals' \in Seq(Signal)
<1>1. vncState' \in [Conns -> States]
  BY DEF TypeOK, SetState
<1>2. signals' \in Seq(Signal)
  BY EmitType DEF TypeOK, SetState
<1>3. QED
  BY <1>1, <1>2

LEMMA ThreadType ==
    ASSUME TypeOK, NEW c \in Conns, Thread(c)
    PROVE  TypeOK'
<1> USE DEF TypeOK, Goto, ThreadSteps, flags, Thread, interfaceVars
<1>1. CASE Loop(c)
  <2>1. vncState' \in [Conns -> States] /\ signals' \in Seq(Signal)
    BY <1>1, SetStateType DEF Loop, States
  <2>2. QED
    BY <1>1, <2>1 DEF Loop
<1>2. CASE Try(c)
  BY <1>2 DEF Try
<1>3. CASE InitClient(c)
  <2>1. vncState' \in [Conns -> States] /\ signals' \in Seq(Signal)
    BY <1>3, SetStateType DEF InitClient, States
  <2>2. QED
    BY <1>3, <2>1 DEF InitClient
<1>4. CASE Handle(c)
  BY <1>4 DEF Handle
<1>5. CASE Wait(c)
  <2>1. signals' \in Seq(Signal)
    BY <1>5, EmitType DEF Wait, WaitTimeout, WaitFails, ReceiveMessage
  <2>2. QED
    BY <1>5, <2>1 DEF Wait, WaitTimeout, WaitFails, ReceiveMessage
<1>6. CASE CloseConnection(c)
  <2>1. vncState' \in [Conns -> States] /\ signals' \in Seq(Signal)
    BY <1>6, SetStateType DEF CloseConnection, States
  <2>2. QED
    BY <1>6, <2>1 DEF CloseConnection
<1>7. CASE CheckDeletion(c) \/ Exit(c)
  BY <1>7 DEF CheckDeletion, ScheduleDeletion, Exit
<1>8. QED
  BY <1>1, <1>2, <1>3, <1>4, <1>5, <1>6, <1>7

LEMMA HandleSignalType ==
    ASSUME TypeOK, HandleSignal
    PROVE  TypeOK'
<1> USE DEF TypeOK
<1>1. signals' \in Seq(Signal)
  BY DEF HandleSignal
<1>2. CASE UpdateState
  <2>1. ShownState \in States \cup {"AccessControlFailed"}
    BY DEF ShownState, States
  <2>2. QED
    BY <1>1, <1>2, <2>1 DEF HandleSignal, UpdateState
<1>3. CASE HandleReply \/ SetAccessControlFailed
  <2>1. watchdog' \in BOOLEAN
    BY <1>3, Zenon DEF HandleReply, SetAccessControlFailed, ResetWatchdog
  <2>2. terminate' \in [Conns -> BOOLEAN]
    BY <1>3 DEF HandleReply, SetAccessControlFailed
  <2>3. QED
    BY <1>1, <1>3, <2>1, <2>2 DEF HandleSignal, HandleReply, SetAccessControlFailed
<1>4. QED
  BY <1>1, <1>2, <1>3 DEF HandleSignal

LEMMA NextType == TypeOK /\ [Next]_vars => TypeOK'
<1> SUFFICES ASSUME TypeOK, [Next]_vars PROVE TypeOK'
  OBVIOUS
<1> USE DEF TypeOK, flags, connVars, interfaceVars
<1>1. CASE UNCHANGED vars
  BY <1>1 DEF vars
<1>2. CASE \E c \in Conns : Thread(c)
  BY <1>2, ThreadType
<1>3. CASE \E c \in Conns : Start(c)
  BY <1>3 DEF Start, ThreadSteps, States
<1>4. CASE Stop
  BY <1>4 DEF Stop
<1>5. CASE Drop
  BY <1>5 DEF Drop, ScheduleDeletion, FinishStop, States
<1>6. CASE MarkAndStop
  BY <1>6 DEF MarkAndStop, SetFlags, FinishStop, States
<1>7. CASE RestartConnection
  BY <1>7 DEF RestartConnection, RestartFinished, ThreadSteps
<1>8. CASE RestartRunning
  BY <1>8 DEF RestartRunning
<1>9. CASE HandleSignal
  BY <1>9, HandleSignalType
<1>10. CASE \E c \in Conns : Delete(c)
  BY <1>10 DEF Delete
<1>11. QED
  BY <1>1, <1>2, <1>3, <1>4, <1>5, <1>6, <1>7, <1>8, <1>9, <1>10 DEF Next, Call

\* Every variable has a value of its type.
THEOREM TypeCorrect == Spec => []TypeOK
BY InitType, NextType, PTL DEF Spec

-----------------------------------------------------------------------------
(* Deletion.  Whether an object is in use when it is deleted depends on    *)
(* who may set DeleteAfterFinished: only a call that is about to let go of *)
(* the connection.                                                         *)

\* The main thread is in the middle of a call about a connection only if there
\* is one, which has been started.
CallsHaveConnection ==
    /\ main # "Idle" => connection # NoConn
    /\ connection # NoConn => pc[connection] # "New"

\* A thread that may delete its object is not the connection of the interface,
\* unless stop() is just about to let go of it.
DeletersAreDropped ==
    \A c \in Conns : deleteAfter[c] => pc[c] # "New" /\ (connection = c => main = "Stop")

DInv == TypeOK /\ CallsHaveConnection /\ DeletersAreDropped /\ DeletedIsUnused

LEMMA InitDInv == Init => DInv
BY InitType DEF Init, DInv, CallsHaveConnection, DeletersAreDropped, DeletedIsUnused

LEMMA ThreadKeepsDInv ==
    ASSUME DInv, NEW c \in Conns, Thread(c)
    PROVE  DInv'
<1>1. TypeOK'
  BY ThreadType DEF DInv
<1> USE DEF DInv, TypeOK, CallsHaveConnection, DeletersAreDropped, DeletedIsUnused, Goto, flags, Thread, interfaceVars
<1>2. CASE Loop(c) \/ Try(c) \/ InitClient(c) \/ Handle(c) \/ Wait(c) \/ CloseConnection(c)
  <2>1. UNCHANGED <<fate, deleteAfter>> /\ pc[c] \notin {"New", "Exit", "Finished"}
    BY <1>2 DEF Loop, Try, InitClient, Handle, Wait, CloseConnection
  <2>2. \E s \in ThreadSteps : pc' = [pc EXCEPT ![c] = s]
    BY <1>2 DEF Loop, Try, InitClient, Handle, Wait, WaitTimeout, WaitFails, ReceiveMessage,
       CloseConnection, ThreadSteps
  <2>3. QED
    BY <1>1, <2>1, <2>2 DEF ThreadSteps
<1>3. CASE CheckDeletion(c)
  BY <1>1, <1>3 DEF CheckDeletion, ScheduleDeletion
<1>4. CASE Exit(c)
  BY <1>1, <1>4 DEF Exit
<1>5. QED
  BY <1>2, <1>3, <1>4

LEMMA NextDInv == DInv /\ [Next]_vars => DInv'
<1> SUFFICES ASSUME DInv, [Next]_vars PROVE DInv'
  OBVIOUS
<1>0. TypeOK'
  BY NextType DEF DInv
<1> USE ControlConnectionAssumption
    DEF DInv, TypeOK, CallsHaveConnection, DeletersAreDropped, DeletedIsUnused, flags, connVars, interfaceVars
<1>1. CASE UNCHANGED vars
  BY <1>0, <1>1 DEF vars
<1>2. CASE \E c \in Conns : Thread(c)
  BY <1>2, ThreadKeepsDInv
<1>3. CASE \E c \in Conns : Start(c)
  BY <1>0, <1>3 DEF Start
<1>4. CASE Stop
  BY <1>0, <1>4 DEF Stop
<1>5. CASE Drop
  BY <1>0, <1>5 DEF Drop, ScheduleDeletion, FinishStop, IsRunning, ThreadSteps
<1>6. CASE MarkAndStop
  BY <1>0, <1>6 DEF MarkAndStop, SetFlags, FinishStop
<1>7. CASE RestartConnection
  BY <1>0, <1>7 DEF RestartConnection, RestartFinished
<1>8. CASE RestartRunning
  BY <1>0, <1>8 DEF RestartRunning
<1>9. CASE HandleSignal
  BY <1>0, <1>9 DEF HandleSignal, UpdateState, HandleReply, SetAccessControlFailed
<1>10. CASE \E c \in Conns : Delete(c)
  BY <1>0, <1>10 DEF Delete
<1>11. QED
  BY <1>1, <1>2, <1>3, <1>4, <1>5, <1>6, <1>7, <1>8, <1>9, <1>10 DEF Next, Call

\* An object that is to be deleted is neither used by the interface nor does its
\* thread go on, although main thread and thread share only the flags.
THEOREM DeletionCorrect == Spec => []DeletedIsUnused
<1>1. DInv => DeletedIsUnused
  BY DEF DInv
<1>2. QED
  BY <1>1, InitDInv, NextDInv, PTL DEF Spec

-----------------------------------------------------------------------------
(* The state that is shown.  It may differ from the connection's while a   *)
(* signal waits; which it does until a later call of updateState().        *)

\* The thread closes before it ends or begins anew.
ClosedAtEnds == \A c \in Conns :
    pc[c] \in {"New", "Loop", "Check", "Exit", "Finished"} => vncState[c] = "Disconnected"

ChangeOf(c)   == [conn |-> c, kind |-> "stateChanged"]
Announced(c)  == \E i \in DOMAIN signals : signals[i] = ChangeOf(c)

ShInv == DInv /\ ClosedAtEnds /\ ShownStateIsDue

\* Signals stay until the main thread has handled them.
LEMMA EmitKeeps ==
    ASSUME TypeOK, NEW c \in Conns, NEW d \in Conns, NEW kind, Emit(d, kind)
    PROVE  /\ Announced(c) => Announced(c)'
           /\ c = d /\ kind = "stateChanged" => Announced(c)'
<1> DEFINE e == [conn |-> d, kind |-> kind]
<1>1. signals' = Append(signals, e) /\ signals \in Seq(Signal)
  BY DEF Emit, TypeOK
<1> HIDE DEF e
<1>2. /\ DOMAIN signals = 1..Len(signals) /\ DOMAIN signals' = 1..(Len(signals) + 1) /\ Len(signals) \in Nat
      /\ \A i \in 1..Len(signals) : signals'[i] = signals[i]
      /\ signals'[Len(signals) + 1] = e
  BY <1>1
<1>3. Announced(c) => Announced(c)'
  BY <1>2 DEF Announced, ChangeOf
<1>4. c = d /\ kind = "stateChanged" => e = ChangeOf(c)
  BY DEF e, ChangeOf
<1>5. QED
  BY <1>2, <1>3, <1>4 DEF Announced, ChangeOf

LEMMA TailKeeps ==
    ASSUME TypeOK, NEW c \in Conns, signals # <<>>, signals' = Tail(signals),
           Announced(c), Head(signals) # ChangeOf(c)
    PROVE  Announced(c)'
<1>1. /\ Head(signals) = signals[1] /\ DOMAIN signals = 1..Len(signals) /\ Len(signals) \in Nat
      /\ DOMAIN Tail(signals) = 1..(Len(signals) - 1)
      /\ \A i \in 1..(Len(signals) - 1) : Tail(signals)[i] = signals[i + 1]
  BY DEF TypeOK
<1>2. PICK i \in 1..Len(signals) : signals[i] = ChangeOf(c)
  BY <1>1 DEF Announced
<1>3. i - 1 \in 1..(Len(signals) - 1) /\ (i - 1) + 1 = i
  BY <1>1, <1>2
<1>4. signals'[i - 1] = ChangeOf(c)
  BY <1>1, <1>2, <1>3
<1>5. QED
  BY <1>1, <1>3, <1>4 DEF Announced, ChangeOf

\* A step of a thread that enters the state s: it is announced.
LEMMA SetStateAnnounces ==
    ASSUME ShInv, NEW c \in Conns, NEW s \in States, SetState(c, s),
           UNCHANGED <<interfaceVars, terminate>>
    PROVE  ShownStateIsDue'
<1> USE DEF ShInv, DInv, TypeOK, ShownStateIsDue, SetState, interfaceVars
<1>1. \A d \in Conns : Announced(d) => Announced(d)'
  BY EmitKeeps DEF Announced
<1>2. vncState[c] # s => Announced(c)'
  BY EmitKeeps
<1>3. QED
  BY <1>1, <1>2 DEF Announced, ChangeOf

LEMMA ThreadKeepsShInv ==
    ASSUME ShInv, NEW c \in Conns, Thread(c)
    PROVE  ClosedAtEnds' /\ ShownStateIsDue'
<1> USE DEF ShInv, DInv, TypeOK, ClosedAtEnds, Goto, flags, Thread
<1>1. CASE Loop(c)
  <2>1. CASE terminate[c]
    BY <1>1, <2>1 DEF Loop, ShownStateIsDue, interfaceVars
  <2>2. CASE ~terminate[c]
    <3>1. ShownStateIsDue'
      BY <1>1, <2>2, SetStateAnnounces DEF Loop, States
    <3>2. QED
      BY <1>1, <2>2, <3>1 DEF Loop, SetState
  <2>3. QED
    BY <2>1, <2>2
<1>2. CASE InitClient(c)
  <2>1. CASE terminate[c]
    BY <1>2, <2>1 DEF InitClient, ShownStateIsDue, interfaceVars
  <2>2. CASE ~terminate[c]
    <3>1. ShownStateIsDue'
      BY <1>2, <2>2, SetStateAnnounces DEF InitClient, States
    <3>2. QED
      BY <1>2, <2>2, <3>1 DEF InitClient, SetState
  <2>3. QED
    BY <2>1, <2>2
<1>3. CASE CloseConnection(c)
  <2>1. ShownStateIsDue'
    BY <1>3, SetStateAnnounces DEF CloseConnection, States
  <2>2. QED
    BY <1>3, <2>1 DEF CloseConnection, SetState
<1>4. CASE Wait(c)
  <2>1. ClosedAtEnds'
    BY <1>4 DEF Wait, WaitTimeout, WaitFails, ReceiveMessage
  <2>2. \A d \in Conns : Announced(d) => Announced(d)'
    <3>1. CASE UNCHANGED signals
      BY <3>1 DEF Announced
    <3>2. CASE \E kind \in {"reply", "denied"} : Emit(c, kind)
      BY <3>2, EmitKeeps
    <3>3. QED
      BY <1>4, <3>1, <3>2 DEF Wait, WaitTimeout, WaitFails, ReceiveMessage
  <2>3. ShownStateIsDue'
    BY <1>4, <2>2 DEF Wait, ShownStateIsDue, interfaceVars, Announced, ChangeOf
  <2>4. QED
    BY <2>1, <2>3
<1>5. CASE Try(c) \/ Handle(c) \/ CheckDeletion(c) \/ Exit(c)
  BY <1>5 DEF Try, Handle, CheckDeletion, Exit, ShownStateIsDue, interfaceVars
<1>6. QED
  BY <1>1, <1>2, <1>3, <1>4, <1>5

LEMMA HandleSignalKeepsShInv ==
    ASSUME ShInv, HandleSignal
    PROVE  ClosedAtEnds' /\ ShownStateIsDue'
<1> USE DEF ShInv, DInv, TypeOK
<1>1. ClosedAtEnds'
  BY DEF HandleSignal, ClosedAtEnds
<1>2. ShownStateIsDue'
  <2>1. CASE UpdateState
    BY <2>1 DEF HandleSignal, UpdateState, ShownState, ShownStateIsDue
  <2>2. CASE SetAccessControlFailed
    BY <2>2 DEF HandleSignal, SetAccessControlFailed, ShownStateIsDue
  <2>3. CASE Head(signals).kind = "reply" /\ HandleReply
    <3>1. ASSUME NEW c \in Conns, Announced(c) PROVE Announced(c)'
      <4>1. Head(signals) # ChangeOf(c)
        BY <2>3 DEF ChangeOf
      <4>2. QED
        BY <3>1, <4>1, TailKeeps DEF HandleSignal
    <3>2. QED
      BY <2>3, <3>1 DEF HandleSignal, HandleReply, ShownStateIsDue, Announced, ChangeOf
  <2>4. QED
    BY <2>1, <2>2, <2>3 DEF HandleSignal
<1>3. QED
  BY <1>1, <1>2

LEMMA NextShInv == ShInv /\ [Next]_vars => ShInv'
<1> SUFFICES ASSUME ShInv, [Next]_vars PROVE ClosedAtEnds' /\ ShownStateIsDue'
  BY NextDInv DEF ShInv
<1> USE DEF ShInv, DInv, TypeOK, ClosedAtEnds, ShownStateIsDue, flags, connVars, interfaceVars
<1>1. CASE UNCHANGED vars
  BY <1>1 DEF vars
<1>2. CASE \E c \in Conns : Thread(c)
  BY <1>2, ThreadKeepsShInv
<1>3. CASE \E c \in Conns : Start(c)
  BY <1>3 DEF Start
<1>4. CASE Stop
  BY <1>4 DEF Stop
<1>5. CASE Drop
  BY <1>5 DEF Drop, FinishStop
<1>6. CASE MarkAndStop
  BY <1>6 DEF MarkAndStop, SetFlags, FinishStop
<1>7. CASE RestartConnection
  BY <1>7 DEF RestartConnection, RestartFinished, IsRunning, ThreadSteps
<1>8. CASE RestartRunning
  BY <1>8 DEF RestartRunning
<1>9. CASE HandleSignal
  BY <1>9, HandleSignalKeepsShInv
<1>10. CASE \E c \in Conns : Delete(c)
  BY <1>10 DEF Delete
<1>11. QED
  BY <1>1, <1>2, <1>3, <1>4, <1>5, <1>6, <1>7, <1>8, <1>9, <1>10 DEF Next, Call

\* The interface never keeps showing another state than its connection's with
\* no signal on its way, unless access was denied.
THEOREM ShownStateCorrect == Spec => []ShownStateIsDue
<1>1. Init => ShInv
  BY InitDInv, ControlConnectionAssumption DEF Init, ShInv, ClosedAtEnds, ShownStateIsDue
<1>2. ShInv => ShownStateIsDue
  BY DEF ShInv
<1>3. QED
  BY <1>1, <1>2, NextShInv, PTL DEF Spec
=============================================================================
