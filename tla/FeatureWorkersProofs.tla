------------------------- MODULE FeatureWorkersProofs -------------------------
(* Theorems about FeatureWorkers, for any features, processes and bounds.  *)
EXTENDS FeatureWorkers, TLAPS

-----------------------------------------------------------------------------
(* Types                                                                   *)

SocketStates == {"None", "Open", "Lost", "Closed"}

LEMMA InitType == Init => TypeOK
<1> SUFFICES ASSUME Init PROVE TypeOK
  OBVIOUS
<1>1. NoWorker \in Worker
  BY DEF NoWorker, Worker
<1>2. workers \in [Features -> Worker]
  BY <1>1 DEF Init
<1>3. (CHOOSE f \in Features : TRUE) \in Features
  BY FeatureWorkersAssumption
<1>4. feature \in [Procs -> Features]
  BY <1>3 DEF Init
<1>5. /\ toServer \in [Procs -> Seq({"Init", "Answer"})]
      /\ toWorker \in [Procs -> Seq(Messages)] /\ handled \in [Procs -> Seq(Messages)]
  BY DEF Init
<1>6. /\ sent \in [Features -> 0..MaxSent]
      /\ state \in [Procs -> {"Absent", "Started", "Connected", "Ended"}]
      /\ socket \in [Procs -> SocketStates]
  BY FeatureWorkersAssumption DEF Init, SocketStates
<1>7. stopping \subseteq MayStop /\ up \in BOOLEAN /\ loggedOn \in BOOLEAN
      /\ retries \subseteq {m \in Messages : m.feature \notin Managed} /\ killTimers \subseteq Procs
  BY DEF Init
<1>8. QED
  BY <1>2, <1>4, <1>5, <1>6, <1>7 DEF TypeOK, SocketStates

\* What the entries of the workers look like, field by field.
LEMMA WorkerFields ==
    ASSUME NEW w \in Worker
    PROVE  /\ w.present \in BOOLEAN /\ w.process \in Procs \cup {NoProc} /\ w.socket \in Procs \cup {NoProc}
           /\ w.pending \in Seq(Messages)
           /\ \A q \in Seq(Messages) : [w EXCEPT !.pending = q] \in Worker
           /\ \A p \in Procs : [w EXCEPT !.socket = p] \in Worker
BY DEF Worker

LEMMA ForgetType ==
    ASSUME NEW w \in [Features -> Worker], NEW F
    PROVE  /\ Forget(w, F) \in [Features -> Worker]
           /\ \A f \in Features : Forget(w, F)[f] = IF f \in F THEN NoWorker ELSE w[f]
<1>1. NoWorker \in Worker
  BY DEF NoWorker, Worker
<1>2. QED
  BY <1>1 DEF Forget

LEMMA AttachType ==
    ASSUME TypeOK, NEW p \in Procs
    PROVE  Attach(workers, p) \in [Features -> Worker]
<1> DEFINE f == feature[p]
<1>1. f \in Features /\ workers \in [Features -> Worker]
  BY DEF TypeOK
<1>2. [workers[f] EXCEPT !.socket = p] \in Worker
  BY <1>1, WorkerFields
<1>3. [workers EXCEPT ![f].socket = p] \in [Features -> Worker]
  BY <1>1, <1>2
<1>4. QED
  BY <1>1, <1>3 DEF Attach

LEMMA DrainedType ==
    ASSUME NEW w \in [Features -> Worker]
    PROVE  Drained(w) \in [Features -> Worker]
<1>1. \A f \in Features : [w[f] EXCEPT !.pending = <<>>] \in Worker
  <2>1. <<>> \in Seq(Messages)
    OBVIOUS
  <2>2. QED
    BY <2>1, WorkerFields
<1>2. QED
  BY <1>1 DEF Drained

LEMMA WrittenType ==
    ASSUME TypeOK, NEW w \in [Features -> Worker]
    PROVE  Written(w) \in [Procs -> Seq(Messages)]
<1> SUFFICES ASSUME NEW p \in Procs, NEW F, F = {f \in Features : w[f].socket = p}, F # {}
             PROVE  toWorker[p] \o w[CHOOSE f \in F : TRUE].pending \in Seq(Messages)
  BY DEF Written, TypeOK
<1>1. (CHOOSE f \in F : TRUE) \in F
  OBVIOUS
<1>2. w[CHOOSE f \in F : TRUE].pending \in Seq(Messages)
  BY <1>1, WorkerFields
<1>3. toWorker[p] \in Seq(Messages)
  BY DEF TypeOK
<1>4. QED
  BY <1>2, <1>3

LEMMA EnqueueType ==
    ASSUME TypeOK, NEW f \in Features, NEW m \in Messages, Enqueue(f, m) \/ StartAndEnqueue(f, m)
    PROVE  /\ workers' \in [Features -> Worker]
           /\ state' \in [Procs -> {"Absent", "Started", "Connected", "Ended"}]
           /\ feature' \in [Procs -> Features]
           /\ UNCHANGED <<socket, toServer, toWorker, handled>>
<1>1. workers \in [Features -> Worker] /\ workers[f].pending \in Seq(Messages) /\ <<m>> \in Seq(Messages)
  BY WorkerFields DEF TypeOK
<1>2. CASE Enqueue(f, m)
  <2>1. Append(workers[f].pending, m) \in Seq(Messages)
    BY <1>1
  <2>2. [workers[f] EXCEPT !.pending = Append(workers[f].pending, m)] \in Worker
    BY <1>1, <2>1, WorkerFields
  <2>3. workers' = [workers EXCEPT ![f] = [workers[f] EXCEPT !.pending = Append(workers[f].pending, m)]]
    BY <1>1, <1>2 DEF Enqueue
  <2>4. QED
    BY <1>1, <1>2, <2>2, <2>3 DEF Enqueue, processVars, TypeOK
<1>3. CASE StartAndEnqueue(f, m)
  <2>1. PICK p \in Procs : /\ StartProcess(p, f)
                           /\ workers' = [workers EXCEPT ![f] =
                                [present |-> TRUE, process |-> IF f \in Managed THEN p ELSE NoProc,
                                 socket |-> NoProc, pending |-> <<m>>]]
    BY <1>3 DEF StartAndEnqueue
  <2>2. [present |-> TRUE, process |-> IF f \in Managed THEN p ELSE NoProc,
         socket |-> NoProc, pending |-> <<m>>] \in Worker
    BY <1>1 DEF Worker
  <2>3. workers' \in [Features -> Worker]
    BY <1>1, <2>1, <2>2
  <2>4. QED
    BY <2>1, <2>3 DEF StartProcess, TypeOK
<1>4. QED
  BY <1>2, <1>3

LEMMA CloseSocketsType ==
    ASSUME TypeOK, NEW P, CloseSockets(P)
    PROVE  socket' \in [Procs -> SocketStates]
BY DEF TypeOK, CloseSockets, SocketStates

LEMMA EndsType ==
    ASSUME TypeOK, NEW p \in Procs, Ends(p)
    PROVE  /\ state' \in [Procs -> {"Absent", "Started", "Connected", "Ended"}]
           /\ socket' \in [Procs -> SocketStates]
           /\ toWorker' \in [Procs -> Seq(Messages)]
           /\ UNCHANGED <<feature, toServer, handled>>
<1>1. <<>> \in Seq(Messages)
  OBVIOUS
<1>2. QED
  BY <1>1 DEF TypeOK, Ends, SocketStates

LEMMA NextType == TypeOK /\ [Next]_vars => TypeOK'
<1> SUFFICES ASSUME TypeOK, [Next]_vars PROVE TypeOK'
  OBVIOUS
<1>1. CASE UNCHANGED vars \/ LogOn
  BY <1>1 DEF LogOn, vars, managerVars, processVars, TypeOK
<1>2. ASSUME NEW f \in Features, Send(f) PROVE TypeOK'
  <2> DEFINE m == [feature |-> f, number |-> sent[f] + 1]
  <2>1. m \in Messages /\ sent[f] \in 0..MaxSent /\ sent[f] + 1 \in 0..MaxSent
    BY <1>2, FeatureWorkersAssumption DEF Send, TypeOK, Messages
  <2>2. sent' \in [Features -> 0..MaxSent]
    BY <1>2, <2>1 DEF Send, TypeOK
  <2>3. UNCHANGED <<up, stopping, loggedOn, killTimers>>
    BY <1>2 DEF Send
  <2>4. m.feature = f
    OBVIOUS
  <2>5. SendMessageToManagedSystemWorker(f, m) \/ SendMessageToUnmanagedSessionWorker(f, m, retries)
    BY <1>2 DEF Send
  <2> HIDE DEF m
  <2>6. retries' \subseteq {n \in Messages : n.feature \notin Managed}
    BY <2>1, <2>4, <2>5 DEF SendMessageToManagedSystemWorker, SendMessageToUnmanagedSessionWorker, TypeOK
  <2>7. CASE UNCHANGED <<workers, processVars>>
    BY <2>2, <2>3, <2>6, <2>7 DEF TypeOK, processVars
  <2>8. CASE Enqueue(f, m) \/ StartAndEnqueue(f, m)
    BY <2>1, <2>2, <2>3, <2>6, <2>8, EnqueueType DEF TypeOK
  <2>9. QED
    BY <2>5, <2>7, <2>8 DEF SendMessageToManagedSystemWorker, SendMessageToUnmanagedSessionWorker
<1>3. ASSUME NEW m \in retries, Retry(m) PROVE TypeOK'
  <2>1. m \in Messages /\ m.feature \in Features /\ m.feature \notin Managed
    BY DEF TypeOK, Messages
  <2>2. /\ UNCHANGED <<up, stopping, loggedOn, killTimers, sent>>
        /\ SendMessageToUnmanagedSessionWorker(m.feature, m, retries \ {m})
    BY <1>3 DEF Retry
  <2>3. retries' \subseteq {n \in Messages : n.feature \notin Managed}
    BY <2>1, <2>2 DEF SendMessageToUnmanagedSessionWorker, TypeOK
  <2>4. CASE UNCHANGED <<workers, processVars>>
    BY <2>2, <2>3, <2>4 DEF TypeOK, processVars
  <2>5. CASE Enqueue(m.feature, m) \/ StartAndEnqueue(m.feature, m)
    BY <2>1, <2>2, <2>3, <2>5, EnqueueType DEF TypeOK
  <2>6. QED
    BY <2>2, <2>4, <2>5 DEF SendMessageToUnmanagedSessionWorker
<1>4. ASSUME NEW f \in Features, StopWorker(f) PROVE TypeOK'
  <2>1. workers' \in [Features -> Worker] /\ socket' \in [Procs -> SocketStates]
    BY <1>4, ForgetType, CloseSocketsType DEF StopWorker, TypeOK
  <2>2. killTimers' \subseteq Procs
    BY <1>4, WorkerFields DEF StopWorker, TypeOK
  <2>3. QED
    BY <1>4, <2>1, <2>2 DEF StopWorker, TypeOK, SocketStates
<1>5. CASE SendPendingMessages
  BY <1>5, DrainedType, WrittenType DEF SendPendingMessages, TypeOK
<1>6. CASE Shutdown
  <2>1. workers' \in [Features -> Worker] /\ socket' \in [Procs -> SocketStates]
    BY <1>6, ForgetType, CloseSocketsType DEF Shutdown, TypeOK
  <2>2. QED
    BY <1>6, <2>1 DEF Shutdown, TypeOK, SocketStates
<1>7. ASSUME NEW p \in Procs, ProcessConnection(p) PROVE TypeOK'
  <2> DEFINE w == Attach(workers, p)
  <2>1. w \in [Features -> Worker]
    BY AttachType
  <2>2. \E F : workers' = Forget(Drained(w), F) \/ workers' = Forget(w, F) \/ workers' = Drained(w) \/ workers' = w
    BY <1>7 DEF ProcessConnection
  <2>3. toWorker' \in {toWorker, Written(w)}
    BY <1>7 DEF ProcessConnection
  <2>4. socket' \in [Procs -> SocketStates]
    BY <1>7, CloseSocketsType DEF ProcessConnection
  <2>5. killTimers' \subseteq Procs
    <3>1. w[feature[p]].process \in Procs \cup {NoProc}
      BY <2>1, WorkerFields DEF TypeOK
    <3>2. QED
      BY <1>7, <3>1 DEF ProcessConnection, TypeOK
  <2>6. toServer' \in [Procs -> Seq({"Init", "Answer"})]
    <3>1. toServer[p] \in Seq({"Init", "Answer"}) /\ toServer[p] # <<>>
      BY <1>7 DEF ProcessConnection, TypeOK
    <3>2. Tail(toServer[p]) \in Seq({"Init", "Answer"})
      BY <3>1
    <3>3. QED
      BY <1>7, <3>2 DEF ProcessConnection, TypeOK
  <2>7. workers' \in [Features -> Worker] /\ toWorker' \in [Procs -> Seq(Messages)]
    <3> HIDE DEF w
    <3>1. Drained(w) \in [Features -> Worker] /\ Written(w) \in [Procs -> Seq(Messages)]
      BY <2>1, DrainedType, WrittenType
    <3>2. \A F : Forget(w, F) \in [Features -> Worker] /\ Forget(Drained(w), F) \in [Features -> Worker]
      BY <2>1, <3>1, ForgetType
    <3>3. workers' \in [Features -> Worker]
      BY <2>1, <2>2, <3>1, <3>2
    <3>4. toWorker \in [Procs -> Seq(Messages)]
      BY DEF TypeOK
    <3>5. QED
      BY <2>3, <3>1, <3>3, <3>4
  <2>8. UNCHANGED <<up, stopping, loggedOn, retries, sent, state, feature, handled>>
    BY <1>7 DEF ProcessConnection
  <2>9. QED
    BY <2>4, <2>5, <2>6, <2>7, <2>8 DEF TypeOK, SocketStates
<1>8. ASSUME NEW p \in Procs, CloseConnection(p) PROVE TypeOK'
  <2>1. workers' \in [Features -> Worker] /\ socket' \in [Procs -> SocketStates]
    BY <1>8, ForgetType, CloseSocketsType DEF CloseConnection, TypeOK
  <2>2. QED
    BY <1>8, <2>1 DEF CloseConnection, TypeOK, SocketStates
<1>9. ASSUME NEW p \in Procs, KillTimer(p) \/ LostConnection(p) \/ ExitProcess(p) PROVE TypeOK'
  <2>1. /\ killTimers' \subseteq Procs
        /\ UNCHANGED <<up, stopping, loggedOn, workers, retries, sent>>
    BY <1>9 DEF KillTimer, LostConnection, ExitProcess, managerVars, TypeOK
  <2>2. CASE Ends(p)
    BY <2>1, <2>2, EndsType DEF TypeOK, SocketStates
  <2>3. CASE UNCHANGED processVars
    BY <2>1, <2>3 DEF TypeOK, processVars
  <2>4. QED
    BY <1>9, <2>2, <2>3 DEF KillTimer, LostConnection, ExitProcess
<1>10. ASSUME NEW p \in Procs, Connect(p) PROVE TypeOK'
  <2>1. <<"Init">> \in Seq({"Init", "Answer"})
    OBVIOUS
  <2>2. QED
    BY <1>10, <2>1 DEF Connect, managerVars, TypeOK
<1>11. ASSUME NEW p \in Procs, ReceiveMessage(p) PROVE TypeOK'
  <2>1. toWorker[p] \in Seq(Messages) /\ toWorker[p] # <<>> /\ handled[p] \in Seq(Messages)
    BY <1>11 DEF ReceiveMessage, TypeOK
  <2>2. Tail(toWorker[p]) \in Seq(Messages) /\ Append(handled[p], Head(toWorker[p])) \in Seq(Messages)
    BY <2>1
  <2>3. toWorker' \in [Procs -> Seq(Messages)] /\ handled' \in [Procs -> Seq(Messages)]
    BY <1>11, <2>2 DEF ReceiveMessage, TypeOK
  <2>4. toServer' \in [Procs -> Seq({"Init", "Answer"})]
    <3>1. Append(toServer[p], "Answer") \in Seq({"Init", "Answer"})
      BY DEF TypeOK
    <3>2. [toServer EXCEPT ![p] = Append(@, "Answer")] \in [Procs -> Seq({"Init", "Answer"})]
      BY <3>1 DEF TypeOK
    <3>3. QED
      BY <1>11, <3>2 DEF ReceiveMessage, TypeOK
  <2>5. QED
    BY <1>11, <2>3, <2>4 DEF ReceiveMessage, managerVars, TypeOK
<1>12. CASE LogOff
  <2>1. <<>> \in Seq(Messages)
    OBVIOUS
  <2>2. toWorker' \in [Procs -> Seq(Messages)]
    BY <1>12, <2>1 DEF LogOff, TypeOK
  <2>3. QED
    BY <1>12, <2>2 DEF LogOff, managerVars, TypeOK
<1>13. QED
  BY <1>1, <1>2, <1>3, <1>4, <1>5, <1>6, <1>7, <1>8, <1>9, <1>10, <1>11, <1>12
     DEF Next, ManagerStep, ProcessStep

\* Every variable has a value of its type.
THEOREM TypeCorrect == Spec => []TypeOK
BY InitType, NextType, PTL DEF Spec

-----------------------------------------------------------------------------
(* Queues.  What a process has handled, what is on its way to it and what  *)
(* waits for it are three pieces of one queue of messages: they move from  *)
(* piece to piece, and the last two may be dropped.                        *)

Own(q, f)     == \A i \in DOMAIN q : q[i].feature = f
Increasing(q) == \A i, j \in DOMAIN q : i < j => q[i].number < q[j].number
UpTo(q, n)    == \A i \in DOMAIN q : q[i].number <= n
Follows(q, r) == \A i \in DOMAIN q, j \in DOMAIN r : q[i].number < r[j].number

\* The three pieces of a queue of feature f, with numbers up to n.
Chain(h, o, q, f, n) ==
    /\ Own(h, f) /\ Own(o, f) /\ Own(q, f)
    /\ f \in Managed => /\ Increasing(h) /\ Increasing(o) /\ Increasing(q)
                        /\ Follows(h, o) /\ Follows(h, q) /\ Follows(o, q)
                        /\ UpTo(h, n) /\ UpTo(o, n) /\ UpTo(q, n)

LEMMA Elements ==
    ASSUME NEW q \in Seq(Messages)
    PROVE  /\ Len(q) \in Nat /\ DOMAIN q = 1..Len(q)
           /\ \A i \in DOMAIN q : i \in Nat /\ q[i].number \in Nat
<1>1. Len(q) \in Nat /\ DOMAIN q = 1..Len(q) /\ \A i \in DOMAIN q : i \in Nat /\ q[i] \in Messages
  OBVIOUS
<1>2. \A m \in Messages : m.number \in Nat
  BY FeatureWorkersAssumption DEF Messages
<1>3. QED
  BY <1>1, <1>2

\* The elements of two queues, one behind the other.
LEMMA Concatenation ==
    ASSUME NEW q \in Seq(Messages), NEW r \in Seq(Messages)
    PROVE  /\ q \o r \in Seq(Messages)
           /\ \A i \in DOMAIN (q \o r) :
                \/ i \in DOMAIN q /\ (q \o r)[i] = q[i]
                \/ /\ i \notin DOMAIN q /\ i > Len(q) /\ i - Len(q) \in DOMAIN r
                   /\ (q \o r)[i] = r[i - Len(q)]
<1>1. /\ q \o r \in Seq(Messages) /\ Len(q) \in Nat /\ Len(r) \in Nat
      /\ DOMAIN q = 1..Len(q) /\ DOMAIN r = 1..Len(r) /\ DOMAIN (q \o r) = 1..(Len(q) + Len(r))
  OBVIOUS
<1>2. \A i \in 1..(Len(q) + Len(r)) : (q \o r)[i] = IF i <= Len(q) THEN q[i] ELSE r[i - Len(q)]
  OBVIOUS
<1>3. QED
  BY <1>1, <1>2

LEMMA ConcatenationInOrder ==
    ASSUME NEW q \in Seq(Messages), NEW r \in Seq(Messages), NEW f, NEW n \in Nat
    PROVE  /\ Own(q, f) /\ Own(r, f) => Own(q \o r, f)
           /\ Increasing(q) /\ Increasing(r) /\ Follows(q, r) => Increasing(q \o r)
           /\ UpTo(q, n) /\ UpTo(r, n) => UpTo(q \o r, n)
           /\ \A s \in Seq(Messages) :
                /\ Follows(q, s) /\ Follows(r, s) => Follows(q \o r, s)
                /\ Follows(s, q) /\ Follows(s, r) => Follows(s, q \o r)
<1> DEFINE c == q \o r
<1>1. \A i \in DOMAIN c :
        \/ i \in DOMAIN q /\ c[i] = q[i]
        \/ i \notin DOMAIN q /\ i > Len(q) /\ i - Len(q) \in DOMAIN r /\ c[i] = r[i - Len(q)]
  BY Concatenation
<1>2. c \in Seq(Messages)
  BY Concatenation
<1> HIDE DEF c
<1>3. Own(q, f) /\ Own(r, f) => Own(c, f)
  BY <1>1 DEF Own
<1>4. UpTo(q, n) /\ UpTo(r, n) => UpTo(c, n)
  BY <1>1 DEF UpTo
<1>5. ASSUME NEW s \in Seq(Messages)
      PROVE  /\ Follows(q, s) /\ Follows(r, s) => Follows(c, s)
             /\ Follows(s, q) /\ Follows(s, r) => Follows(s, c)
  BY <1>1 DEF Follows
<1>6. ASSUME Increasing(q), Increasing(r), Follows(q, r),
             NEW i \in DOMAIN c, NEW j \in DOMAIN c, i < j
      PROVE  c[i].number < c[j].number
  <2>1. i \in Nat /\ j \in Nat /\ Len(q) \in Nat /\ DOMAIN q = 1..Len(q)
    BY <1>2, Elements
  <2>2. CASE i \in DOMAIN q /\ c[i] = q[i] /\ j \in DOMAIN q /\ c[j] = q[j]
    BY <1>6, <2>2 DEF Increasing
  <2>3. CASE i \in DOMAIN q /\ c[i] = q[i] /\ j - Len(q) \in DOMAIN r /\ c[j] = r[j - Len(q)]
    BY <1>6, <2>3 DEF Follows
  <2>4. CASE /\ i - Len(q) \in DOMAIN r /\ c[i] = r[i - Len(q)]
             /\ j - Len(q) \in DOMAIN r /\ c[j] = r[j - Len(q)]
    <3>1. i - Len(q) < j - Len(q)
      BY <1>6, <2>1
    <3>2. QED
      BY <1>6, <2>4, <3>1 DEF Increasing
  <2>5. QED
    BY <1>1, <1>6, <2>1, <2>2, <2>3, <2>4
<1>7. QED
  BY <1>3, <1>4, <1>5, <1>6 DEF Increasing, c

\* Queues of no message and of one.
LEMMA ShortQueues ==
    ASSUME NEW f, NEW n \in Nat
    PROVE  /\ Own(<<>>, f) /\ Increasing(<<>>) /\ UpTo(<<>>, n)
           /\ \A q \in Seq(Messages) : Follows(q, <<>>) /\ Follows(<<>>, q)
           /\ \A m \in Messages : /\ <<m>> \in Seq(Messages) /\ Increasing(<<m>>)
                                  /\ m.feature = f => Own(<<m>>, f)
                                  /\ m.number <= n => UpTo(<<m>>, n)
BY DEF Own, Increasing, UpTo, Follows

\* A queue is the one message at its head, and the others behind it.
LEMMA HeadAndTail ==
    ASSUME NEW q \in Seq(Messages), q # <<>>, NEW f, NEW n \in Nat
    PROVE  /\ Head(q) \in Messages /\ Tail(q) \in Seq(Messages)
           /\ Own(q, f) => Head(q).feature = f /\ Own(Tail(q), f)
           /\ Increasing(q) => Increasing(Tail(q)) /\ Follows(<<Head(q)>>, Tail(q))
           /\ UpTo(q, n) => Head(q).number <= n /\ UpTo(Tail(q), n)
           /\ \A s \in Seq(Messages) :
                /\ Follows(q, s) => Follows(<<Head(q)>>, s) /\ Follows(Tail(q), s)
                /\ Follows(s, q) => Follows(s, <<Head(q)>>) /\ Follows(s, Tail(q))
<1> DEFINE h == <<Head(q)>>
           t == Tail(q)
<1>1. Head(q) \in Messages /\ t \in Seq(Messages) /\ Head(q) = q[1] /\ Len(q) \in Nat /\ Len(q) >= 1
  OBVIOUS
<1>2. DOMAIN q = 1..Len(q) /\ DOMAIN t = 1..(Len(q) - 1) /\ \A i \in 1..(Len(q) - 1) : t[i] = q[i + 1]
  OBVIOUS
<1>3. DOMAIN h = {1} /\ h[1] = q[1]
  BY <1>1
<1> HIDE DEF h, t
<1>4. 1 \in DOMAIN q /\ \A i \in DOMAIN t : i \in Nat /\ i + 1 \in DOMAIN q /\ 1 < i + 1 /\ t[i] = q[i + 1]
  BY <1>1, <1>2
<1>5. Own(q, f) => q[1].feature = f /\ Own(t, f)
  BY <1>4 DEF Own
<1>6. Increasing(q) => Increasing(t) /\ Follows(h, t)
  BY <1>3, <1>4 DEF Increasing, Follows
<1>7. UpTo(q, n) => q[1].number <= n /\ UpTo(t, n)
  BY <1>4 DEF UpTo
<1>8. ASSUME NEW s \in Seq(Messages)
      PROVE  /\ Follows(q, s) => Follows(h, s) /\ Follows(t, s)
             /\ Follows(s, q) => Follows(s, h) /\ Follows(s, t)
  BY <1>3, <1>4 DEF Follows
<1>9. QED
  BY <1>1, <1>5, <1>6, <1>7, <1>8 DEF h, t

\* More messages have been sent.
LEMMA ChainLater ==
    ASSUME NEW h \in Seq(Messages), NEW o \in Seq(Messages), NEW q \in Seq(Messages), NEW f, NEW n \in Nat,
           Chain(h, o, q, f, n), NEW k \in Nat, n <= k
    PROVE  Chain(h, o, q, f, k)
<1>1. \A r \in Seq(Messages) : UpTo(r, n) => UpTo(r, k)
  BY Elements DEF UpTo
<1>2. QED
  BY <1>1 DEF Chain

\* The next message of the feature joins what waits.
LEMMA ChainAppend ==
    ASSUME NEW h \in Seq(Messages), NEW o \in Seq(Messages), NEW q \in Seq(Messages), NEW f, NEW n \in Nat,
           Chain(h, o, q, f, n), NEW m \in Messages, m.feature = f,
           NEW k \in Nat, f \in Managed => m.number = k /\ k = n + 1
    PROVE  Chain(h, o, Append(q, m), f, k)
<1>1. Append(q, m) = q \o <<m>> /\ <<m>> \in Seq(Messages)
  OBVIOUS
<1>2. Own(<<m>>, f) /\ Increasing(<<m>>) /\ (f \in Managed => UpTo(<<m>>, k))
  <2>1. f \in Managed => m.number <= k
    OBVIOUS
  <2>2. QED
    BY <2>1, ShortQueues
<1>3. f \in Managed => \A r \in {h, o, q} : UpTo(r, k) /\ Follows(r, <<m>>)
  <2> SUFFICES ASSUME f \in Managed, NEW r \in {h, o, q} PROVE UpTo(r, k) /\ Follows(r, <<m>>)
    OBVIOUS
  <2>1. UpTo(r, n) /\ r \in Seq(Messages)
    BY DEF Chain
  <2>2. \A i \in DOMAIN r : r[i].number \in Nat
    BY <2>1, Elements
  <2>3. QED
    BY <2>1, <2>2 DEF UpTo, Follows
<1>4. /\ Own(Append(q, m), f)
      /\ f \in Managed => /\ Increasing(Append(q, m)) /\ UpTo(Append(q, m), k)
                          /\ Follows(h, Append(q, m)) /\ Follows(o, Append(q, m))
  BY <1>1, <1>2, <1>3, ConcatenationInOrder DEF Chain
<1>5. QED
  BY <1>3, <1>4 DEF Chain

\* What waits is written; what is on its way, or waits, is dropped.
LEMMA ChainMove ==
    ASSUME NEW h \in Seq(Messages), NEW o \in Seq(Messages), NEW q \in Seq(Messages), NEW f, NEW n \in Nat,
           Chain(h, o, q, f, n)
    PROVE  /\ Chain(h, o \o q, <<>>, f, n)
           /\ Chain(h, <<>>, q, f, n) /\ Chain(h, o, <<>>, f, n) /\ Chain(<<>>, <<>>, q, f, n)
           /\ Chain(h, <<>>, <<>>, f, n) /\ Chain(<<>>, <<>>, <<>>, f, n)
<1>1. o \o q \in Seq(Messages) /\ <<>> \in Seq(Messages)
  OBVIOUS
<1>2. Chain(h, o \o q, <<>>, f, n)
  BY <1>1, ConcatenationInOrder, ShortQueues DEF Chain
<1>3. QED
  BY <1>1, <1>2, ShortQueues DEF Chain

\* The first message on its way is handled.
LEMMA ChainTake ==
    ASSUME NEW h \in Seq(Messages), NEW o \in Seq(Messages), NEW q \in Seq(Messages), NEW f, NEW n \in Nat,
           Chain(h, o, q, f, n), o # <<>>
    PROVE  Chain(Append(h, Head(o)), Tail(o), q, f, n)
<1>1. Head(o) \in Messages /\ Tail(o) \in Seq(Messages)
  OBVIOUS
<1>2. Append(h, Head(o)) = h \o <<Head(o)>> /\ <<Head(o)>> \in Seq(Messages)
  BY <1>1
<1>3. Own(<<Head(o)>>, f) /\ Increasing(<<Head(o)>>) /\ (UpTo(o, n) => UpTo(<<Head(o)>>, n))
  BY <1>1, HeadAndTail, ShortQueues DEF Chain
<1>4. /\ Own(Tail(o), f)
      /\ f \in Managed => /\ Increasing(Tail(o)) /\ UpTo(Tail(o), n) /\ Follows(Tail(o), q)
                          /\ Follows(<<Head(o)>>, Tail(o)) /\ Follows(<<Head(o)>>, q)
                          /\ Follows(h, <<Head(o)>>) /\ Follows(h, Tail(o))
  BY HeadAndTail DEF Chain
<1>5. /\ Own(Append(h, Head(o)), f)
      /\ f \in Managed => /\ Increasing(Append(h, Head(o))) /\ UpTo(Append(h, Head(o)), n)
                          /\ Follows(Append(h, Head(o)), Tail(o)) /\ Follows(Append(h, Head(o)), q)
  BY <1>1, <1>2, <1>3, <1>4, ConcatenationInOrder DEF Chain
<1>6. QED
  BY <1>4, <1>5 DEF Chain

\* The pieces together are a queue in order.
LEMMA ChainInOrder ==
    ASSUME NEW h \in Seq(Messages), NEW o \in Seq(Messages), NEW q \in Seq(Messages), NEW f, NEW n \in Nat,
           Chain(h, o, q, f, n)
    PROVE  Own(h \o o \o q, f) /\ (f \in Managed => Increasing(h \o o \o q))
<1>1. h \o o \in Seq(Messages)
  OBVIOUS
<1>2. Own(h \o o, f) /\ (f \in Managed => Increasing(h \o o) /\ Follows(h \o o, q))
  BY ConcatenationInOrder DEF Chain
<1>3. QED
  BY <1>1, <1>2, ConcatenationInOrder DEF Chain

-----------------------------------------------------------------------------
(* The workers, for entries w of m_workers, sockets s and messages o that  *)
(* are on their way.                                                       *)

Waiting(w, p) == IF w[feature[p]].socket = p THEN w[feature[p]].pending ELSE <<>>

\* The connection of a worker is one of its feature, and not closed.
Live(w, s) == \A f \in Features :
    w[f].socket # NoProc => w[f].present /\ feature[w[f].socket] = f /\ s[w[f].socket] \in {"Open", "Lost"}

\* A process gets its first message when its connection becomes a worker's,
\* which it is until it is closed.
Fresh(w, s, o) == \A p \in Procs :
    s[p] # "Closed" /\ w[feature[p]].socket # p => handled[p] = <<>> /\ o[p] = <<>>

Queued(w, o) ==
    /\ \A f \in Features : Chain(<<>>, <<>>, w[f].pending, f, sent[f])
    /\ \A p \in Procs : Chain(handled[p], o[p], Waiting(w, p), feature[p], sent[feature[p]])

\* Who has not connected yet has no socket.
Early(s) == \A p \in Procs : state[p] \in {"Absent", "Started"} => s[p] = "None"

WInv(w, s, o) == Live(w, s) /\ Fresh(w, s, o) /\ Queued(w, o) /\ Early(s)

HInv == TypeOK /\ WInv(workers, socket, toWorker)

\* The types that the lemmas about queues ask for.
LEMMA QueueTypes ==
    ASSUME TypeOK, NEW w \in [Features -> Worker]
    PROVE  /\ <<>> \in Seq(Messages)
           /\ \A f \in Features : /\ sent[f] \in Nat /\ w[f].pending \in Seq(Messages)
                                  /\ w[f].socket \in Procs \cup {NoProc}
           /\ \A p \in Procs : /\ feature[p] \in Features /\ handled[p] \in Seq(Messages)
                               /\ toWorker[p] \in Seq(Messages) /\ Waiting(w, p) \in Seq(Messages)
<1>1. <<>> \in Seq(Messages)
  OBVIOUS
<1>2. \A f \in Features : /\ w[f].pending \in Seq(Messages) /\ w[f].socket \in Procs \cup {NoProc}
  BY WorkerFields
<1>3. /\ \A f \in Features : sent[f] \in Nat
      /\ \A p \in Procs : feature[p] \in Features /\ handled[p] \in Seq(Messages) /\ toWorker[p] \in Seq(Messages)
  BY FeatureWorkersAssumption DEF TypeOK
<1>4. QED
  BY <1>1, <1>2, <1>3 DEF Waiting

\* A connection becomes the worker's: nothing was written to it before.
LEMMA AttachKeeps ==
    ASSUME HInv, NEW p \in Procs, socket[p] \in {"Open", "Lost"}
    PROVE  WInv(Attach(workers, p), socket, toWorker)
<1> DEFINE f == feature[p]
           w == Attach(workers, p)
<1>1. f \in Features /\ workers \in [Features -> Worker] /\ p # NoProc
  BY FeatureWorkersAssumption DEF HInv, TypeOK
<1>2. CASE w = workers
  BY <1>2 DEF HInv
<1>3. CASE workers[f].present /\ workers[f].socket = NoProc /\ w = [workers EXCEPT ![f].socket = p]
  <2>1. /\ w[f].socket = p /\ w[f].pending = workers[f].pending /\ w[f].present
        /\ \A g \in Features \ {f} : w[g] = workers[g]
    <3>1. w[f] = [workers[f] EXCEPT !.socket = p] /\ \A g \in Features \ {f} : w[g] = workers[g]
      BY <1>1, <1>3
    <3>2. workers[f] \in Worker
      BY <1>1
    <3>3. QED
      BY <1>3, <3>1, <3>2 DEF Worker
  <2> HIDE DEF w
  <2>2. handled[p] = <<>> /\ toWorker[p] = <<>>
    BY <1>1, <1>3 DEF HInv, WInv, Fresh
  <2>3. Live(w, socket)
    BY <1>1, <2>1 DEF HInv, WInv, Live
  <2>4. \A q \in Procs : workers[feature[q]].socket = q => w[feature[q]].socket = q
    BY <1>1, <1>3, <2>1, FeatureWorkersAssumption DEF HInv, TypeOK
  <2>5. Fresh(w, socket, toWorker)
    BY <2>4 DEF HInv, WInv, Fresh
  <2>6. \A g \in Features : w[g].pending = workers[g].pending
    BY <2>1
  <2>7. Waiting(w, p) = workers[f].pending
    BY <2>1 DEF Waiting
  <2>8. \A q \in Procs \ {p} : Waiting(w, q) = Waiting(workers, q)
    BY <1>1, <1>3, <2>1, FeatureWorkersAssumption DEF Waiting, HInv, TypeOK
  <2>9. Queued(w, toWorker)
    BY <1>1, <2>2, <2>6, <2>7, <2>8 DEF HInv, WInv, Queued
  <2>10. QED
    BY <2>3, <2>5, <2>9 DEF HInv, WInv, w
<1>4. QED
  BY <1>2, <1>3 DEF Attach

\* sendPendingMessages() moves what waits to the connections.
LEMMA DrainKeeps ==
    ASSUME TypeOK, NEW w \in [Features -> Worker], WInv(w, socket, toWorker)
    PROVE  WInv(Drained(w), socket, Written(w))
<1> DEFINE d == Drained(w)
           o == Written(w)
<1>1. \A f \in Features : /\ d[f].socket = w[f].socket /\ d[f].present = w[f].present
                          /\ d[f].pending = IF w[f].socket # NoProc THEN <<>> ELSE w[f].pending
  BY DEF Drained, Worker
<1>2. \A p \in Procs : o[p] = IF w[feature[p]].socket = p /\ state[p] = "Connected"
                              THEN toWorker[p] \o w[feature[p]].pending ELSE toWorker[p]
  <2> SUFFICES ASSUME NEW p \in Procs
               PROVE  o[p] = IF w[feature[p]].socket = p /\ state[p] = "Connected"
                             THEN toWorker[p] \o w[feature[p]].pending ELSE toWorker[p]
    OBVIOUS
  <2> DEFINE F == {f \in Features : w[f].socket = p}
  <2>1. o[p] = IF F = {} \/ state[p] # "Connected" THEN toWorker[p]
               ELSE toWorker[p] \o w[CHOOSE f \in F : TRUE].pending
    BY DEF Written
  <2> HIDE DEF o
  <2>2. feature[p] \in Features
    BY DEF TypeOK
  <2>3. F \subseteq {feature[p]}
    BY FeatureWorkersAssumption DEF WInv, Live
  <2>4. CASE F = {}
    BY <2>1, <2>2, <2>4
  <2>5. CASE F # {}
    <3>1. (CHOOSE f \in F : TRUE) \in F
      BY <2>5
    <3>2. (CHOOSE f \in F : TRUE) = feature[p] /\ w[feature[p]].socket = p
      BY <2>3, <3>1
    <3>3. QED
      BY <2>1, <2>5, <3>2
  <2>6. QED
    BY <2>4, <2>5
<1> HIDE DEF d, o
<1>3. Live(d, socket)
  BY <1>1 DEF WInv, Live
<1>4. \A p \in Procs : feature[p] \in Features
  BY DEF TypeOK
<1>5. Fresh(d, socket, o)
  BY <1>1, <1>2, <1>4 DEF WInv, Fresh
<1>6. Queued(d, o)
  <2>1. ASSUME NEW f \in Features PROVE Chain(<<>>, <<>>, d[f].pending, f, sent[f])
    <3>1. Chain(<<>>, <<>>, w[f].pending, f, sent[f])
      BY DEF WInv, Queued
    <3>2. Chain(<<>>, <<>>, <<>>, f, sent[f])
      BY <3>1, ChainMove, QueueTypes
    <3>3. QED
      BY <1>1, <3>1, <3>2
  <2>2. ASSUME NEW p \in Procs PROVE Chain(handled[p], o[p], Waiting(d, p), feature[p], sent[feature[p]])
    <3>1. Chain(handled[p], toWorker[p], Waiting(w, p), feature[p], sent[feature[p]])
      BY DEF WInv, Queued
    <3>2. /\ Chain(handled[p], toWorker[p] \o Waiting(w, p), <<>>, feature[p], sent[feature[p]])
          /\ Chain(handled[p], toWorker[p], <<>>, feature[p], sent[feature[p]])
      BY <1>4, <3>1, ChainMove, QueueTypes
    <3>3. CASE w[feature[p]].socket = p
      <4>1. Waiting(w, p) = w[feature[p]].pending /\ Waiting(d, p) = <<>>
        BY <1>1, <1>4, <3>3, FeatureWorkersAssumption DEF Waiting
      <4>2. QED
        BY <1>2, <3>2, <3>3, <4>1
    <3>4. CASE w[feature[p]].socket # p
      <4>1. Waiting(d, p) = <<>> /\ o[p] = toWorker[p]
        BY <1>1, <1>2, <1>4, <3>4 DEF Waiting
      <4>2. QED
        BY <3>2, <4>1
    <3>5. QED
      BY <3>3, <3>4
  <2>3. QED
    BY <2>1, <2>2 DEF Queued
<1>7. QED
  BY <1>3, <1>5, <1>6 DEF WInv, d, o

\* Workers are forgotten, with their connections closed.
LEMMA ForgetKeeps ==
    ASSUME TypeOK, NEW w \in [Features -> Worker], NEW F, NEW o \in [Procs -> Seq(Messages)], NEW r,
           WInv(w, socket, o),
           \A p \in Procs : r[p] = socket[p] \/ (r[p] = "Closed" /\ socket[p] # "None"),
           \A f \in Features : w[f].socket # NoProc =>
               IF f \in F THEN r[w[f].socket] = "Closed" ELSE r[w[f].socket] = socket[w[f].socket]
    PROVE  WInv(Forget(w, F), r, o)
<1> DEFINE v == Forget(w, F)
<1>1. \A f \in Features : v[f] = IF f \in F THEN NoWorker ELSE w[f]
  BY ForgetType
<1>2. NoWorker.socket = NoProc /\ NoWorker.pending = <<>>
  BY DEF NoWorker
<1>3. \A p \in Procs : feature[p] \in Features /\ p # NoProc
  BY FeatureWorkersAssumption DEF TypeOK
<1> HIDE DEF v
<1>4. Live(v, r)
  BY <1>1, <1>2 DEF WInv, Live
<1>5. Fresh(v, r, o)
  <2> SUFFICES ASSUME NEW p \in Procs, r[p] # "Closed", v[feature[p]].socket # p
               PROVE  handled[p] = <<>> /\ o[p] = <<>>
    BY DEF Fresh
  <2>1. w[feature[p]].socket # p
    BY <1>1, <1>3
  <2>2. QED
    BY <2>1 DEF WInv, Fresh
<1>6. Queued(v, o)
  <2>1. ASSUME NEW f \in Features PROVE Chain(<<>>, <<>>, v[f].pending, f, sent[f])
    <3>1. Chain(<<>>, <<>>, w[f].pending, f, sent[f])
      BY DEF WInv, Queued
    <3>2. Chain(<<>>, <<>>, <<>>, f, sent[f])
      BY <3>1, ChainMove, QueueTypes
    <3>3. QED
      BY <1>1, <1>2, <3>1, <3>2
  <2>2. ASSUME NEW p \in Procs PROVE Chain(handled[p], o[p], Waiting(v, p), feature[p], sent[feature[p]])
    <3>1. Chain(handled[p], o[p], Waiting(w, p), feature[p], sent[feature[p]])
      BY DEF WInv, Queued
    <3>2. Chain(handled[p], o[p], <<>>, feature[p], sent[feature[p]])
      BY <1>3, <3>1, ChainMove, QueueTypes
    <3>3. Waiting(v, p) \in {Waiting(w, p), <<>>}
      BY <1>1, <1>2, <1>3 DEF Waiting
    <3>4. QED
      BY <3>1, <3>2, <3>3
  <2>3. QED
    BY <2>1, <2>2 DEF Queued
<1>7. Early(r)
  BY DEF WInv, Early
<1>8. QED
  BY <1>4, <1>5, <1>6, <1>7 DEF WInv, v

\* A message joins the queue of a worker, which is started for it if there is none.
LEMMA EnqueueKeeps ==
    ASSUME HInv, TypeOK', NEW f \in Features, NEW m \in Messages, m.feature = f,
           \/ f \in Managed /\ m.number = sent[f] + 1 /\ sent' = [sent EXCEPT ![f] = @ + 1]
           \/ f \notin Managed /\ (sent' = sent \/ sent' = [sent EXCEPT ![f] = @ + 1]),
           Enqueue(f, m) \/ (~IsWorkerRunning(f) /\ StartAndEnqueue(f, m))
    PROVE  HInv'
<1>0. TypeOK /\ workers \in [Features -> Worker] /\ workers' \in [Features -> Worker]
  BY DEF HInv, TypeOK
<1>1. sent[f] \in Nat /\ sent'[f] \in Nat /\ sent[f] <= sent'[f] /\ \A g \in Features \ {f} : sent'[g] = sent[g]
  BY <1>0, FeatureWorkersAssumption DEF TypeOK
<1>2. f \in Managed => m.number = sent'[f] /\ sent'[f] = sent[f] + 1
  BY <1>0 DEF TypeOK
<1>3. UNCHANGED <<socket, toServer, toWorker, handled>>
  BY DEF Enqueue, StartAndEnqueue, StartProcess, processVars
<1>4. ASSUME NEW h \in Seq(Messages), NEW o \in Seq(Messages), NEW q \in Seq(Messages), NEW g \in Features,
             Chain(h, o, q, g, sent[g])
      PROVE  Chain(h, o, q, g, sent'[g])
  BY <1>1, <1>4, ChainLater
<1>5. CASE Enqueue(f, m)
  <2>1. /\ workers'[f].socket = workers[f].socket /\ workers'[f].present = workers[f].present
        /\ workers'[f].pending = Append(workers[f].pending, m)
        /\ \A g \in Features \ {f} : workers'[g] = workers[g]
    <3>1. workers'[f] = [workers[f] EXCEPT !.pending = Append(@, m)] /\ \A g \in Features \ {f} : workers'[g] = workers[g]
      BY <1>0, <1>5 DEF Enqueue
    <3>2. workers[f] \in Worker
      BY <1>0
    <3>3. QED
      BY <3>1, <3>2 DEF Worker
  <2>2. UNCHANGED <<feature, state>>
    BY <1>5 DEF Enqueue, processVars
  <2>3. \A p \in Procs : feature[p] \in Features
    BY <1>0 DEF TypeOK
  <2>4. Live(workers, socket)'
    BY <1>3, <2>1, <2>2 DEF HInv, WInv, Live
  <2>5. Fresh(workers, socket, toWorker)'
    BY <1>3, <2>1, <2>2, <2>3 DEF HInv, WInv, Fresh
  <2>6. Early(socket)'
    BY <1>3, <2>2 DEF HInv, WInv, Early
  <2>7. ASSUME NEW g \in Features PROVE Chain(<<>>, <<>>, workers'[g].pending, g, sent'[g])
    <3>1. Chain(<<>>, <<>>, workers[g].pending, g, sent[g])
      BY DEF HInv, WInv, Queued
    <3>2. CASE g = f
      <4>1. <<>> \in Seq(Messages) /\ workers[f].pending \in Seq(Messages) /\ Chain(<<>>, <<>>, workers[f].pending, f, sent[f])
        BY <1>0, <3>1, <3>2, QueueTypes
      <4>2. Chain(<<>>, <<>>, Append(workers[f].pending, m), f, sent'[f])
        BY <1>1, <1>2, <4>1, ChainAppend
      <4>3. QED
        BY <2>1, <3>2, <4>2
    <3>3. CASE g # f
      BY <1>1, <2>1, <3>1, <3>3
    <3>4. QED
      BY <3>2, <3>3
  <2>8. ASSUME NEW p \in Procs PROVE Chain(handled[p], toWorker[p], Waiting(workers, p)', feature[p], sent'[feature[p]])
    <3>1. Chain(handled[p], toWorker[p], Waiting(workers, p), feature[p], sent[feature[p]])
      BY DEF HInv, WInv, Queued
    <3>2. CASE feature[p] = f /\ workers[f].socket = p
      <4>1. Waiting(workers, p)' = Append(Waiting(workers, p), m)
        BY <2>1, <2>2, <3>2 DEF Waiting
      <4>2. QED
        BY <1>0, <1>1, <1>2, <3>1, <3>2, <4>1, ChainAppend, QueueTypes
    <3>3. CASE feature[p] # f \/ workers[f].socket # p
      <4>1. Waiting(workers, p)' = Waiting(workers, p)
        BY <2>1, <2>2, <2>3, <3>3 DEF Waiting
      <4>2. QED
        BY <1>0, <1>4, <3>1, <4>1, QueueTypes
    <3>4. QED
      BY <3>2, <3>3
  <2>9. Queued(workers, toWorker)'
    BY <1>3, <2>2, <2>7, <2>8 DEF Queued
  <2>10. QED
    BY <2>4, <2>5, <2>6, <2>9 DEF HInv, WInv
<1>6. CASE ~IsWorkerRunning(f) /\ StartAndEnqueue(f, m)
  <2>1. PICK p \in Procs : /\ StartProcess(p, f)
                           /\ workers' = [workers EXCEPT ![f] =
                                [present |-> TRUE, process |-> IF f \in Managed THEN p ELSE NoProc,
                                 socket |-> NoProc, pending |-> <<m>>]]
    BY <1>6 DEF StartAndEnqueue
  <2>2. /\ workers'[f].socket = NoProc /\ workers'[f].pending = <<m>>
        /\ \A g \in Features \ {f} : workers'[g] = workers[g]
    BY <1>0, <2>1
  <2>3. workers[f].socket = NoProc
    BY <1>6 DEF HInv, WInv, Live, IsWorkerRunning
  <2>4. /\ state[p] = "Absent" /\ state' = [state EXCEPT ![p] = "Started"]
        /\ feature'[p] = f /\ \A q \in Procs \ {p} : feature'[q] = feature[q]
    BY <1>0, <2>1 DEF StartProcess, TypeOK
  <2>5. socket[p] = "None" /\ p # NoProc /\ \A q \in Procs : feature[q] \in Features /\ q # NoProc
    BY <1>0, <2>4, FeatureWorkersAssumption DEF HInv, WInv, Early, TypeOK
  <2>6. \A g \in Features : workers[g].socket # p
    BY <2>5 DEF HInv, WInv, Live
  <2>7. handled[p] = <<>> /\ toWorker[p] = <<>>
    BY <2>5, <2>6 DEF HInv, WInv, Fresh
  <2>8. Live(workers, socket)'
    <3> SUFFICES ASSUME NEW g \in Features, workers'[g].socket # NoProc
                 PROVE  /\ workers'[g].present /\ feature'[workers'[g].socket] = g
                        /\ socket'[workers'[g].socket] \in {"Open", "Lost"}
      BY DEF Live
    <3>1. g # f /\ workers'[g] = workers[g]
      BY <2>2
    <3>2. workers[g].socket \in Procs \ {p}
      BY <1>0, <2>6, <3>1, QueueTypes
    <3>3. QED
      BY <1>3, <2>4, <3>1, <3>2 DEF HInv, WInv, Live
  <2>9. \A q \in Procs \ {p} : Waiting(workers, q)' = Waiting(workers, q)
                               /\ (workers'[feature'[q]].socket = q <=> workers[feature[q]].socket = q)
    BY <2>2, <2>3, <2>4, <2>5 DEF Waiting
  <2>10. Waiting(workers, p)' = <<>>
    BY <2>2, <2>4, <2>5 DEF Waiting
  <2>11. Fresh(workers, socket, toWorker)'
    BY <1>3, <2>7, <2>9 DEF HInv, WInv, Fresh
  <2>12. Early(socket)'
    BY <1>0, <1>3, <2>4, <2>5 DEF HInv, WInv, Early, TypeOK
  <2>13. Chain(<<>>, <<>>, <<>>, f, sent[f]) /\ Chain(<<>>, <<>>, <<>>, f, sent'[f])
    <3>1. Chain(<<>>, <<>>, workers[f].pending, f, sent[f])
      BY DEF HInv, WInv, Queued
    <3>2. Chain(<<>>, <<>>, <<>>, f, sent[f])
      BY <1>0, <3>1, ChainMove, QueueTypes
    <3>3. QED
      BY <1>0, <1>4, <3>2, QueueTypes
  <2>14. ASSUME NEW g \in Features PROVE Chain(<<>>, <<>>, workers'[g].pending, g, sent'[g])
    <3>1. CASE g = f
      <4>1. <<m>> = Append(<<>>, m)
        OBVIOUS
      <4>2. <<>> \in Seq(Messages)
        OBVIOUS
      <4>3. Chain(<<>>, <<>>, Append(<<>>, m), f, sent'[f])
        BY <1>1, <1>2, <2>13, <4>2, ChainAppend
      <4>4. QED
        BY <2>2, <3>1, <4>1, <4>3
    <3>2. CASE g # f
      BY <1>1, <2>2, <3>2 DEF HInv, WInv, Queued
    <3>3. QED
      BY <3>1, <3>2
  <2>15. ASSUME NEW q \in Procs
         PROVE  Chain(handled[q], toWorker[q], Waiting(workers, q)', feature'[q], sent'[feature'[q]])
    <3>1. CASE q = p
      BY <2>4, <2>7, <2>10, <2>13, <3>1
    <3>2. CASE q # p
      <4>1. Chain(handled[q], toWorker[q], Waiting(workers, q), feature[q], sent[feature[q]])
        BY DEF HInv, WInv, Queued
      <4>2. Chain(handled[q], toWorker[q], Waiting(workers, q), feature[q], sent'[feature[q]])
        BY <1>0, <1>4, <4>1, QueueTypes
      <4>3. QED
        BY <2>4, <2>9, <3>2, <4>2
    <3>3. QED
      BY <3>1, <3>2
  <2>16. Queued(workers, toWorker)'
    BY <1>3, <2>14, <2>15 DEF Queued
  <2>17. QED
    BY <2>8, <2>11, <2>12, <2>16 DEF HInv, WInv
<1>7. QED
  BY <1>5, <1>6

\* Steps of the manager that leave the processes and what was sent alone.
LEMMA SameProcesses ==
    ASSUME UNCHANGED <<feature, state, sent, handled>>, WInv(workers', socket', toWorker'), TypeOK'
    PROVE  HInv'
<1>1. Live(workers, socket)' /\ Fresh(workers, socket, toWorker)' /\ Early(socket)'
  BY DEF WInv, Live, Fresh, Early
<1>2. \A p \in Procs : Waiting(workers', p) = Waiting(workers, p)'
  BY DEF Waiting
<1>3. Queued(workers, toWorker)'
  BY <1>2 DEF WInv, Queued
<1>4. QED
  BY <1>1, <1>3 DEF HInv, WInv

\* Processes end, and take their ends of the connections with them.
LEMMA EndKeeps ==
    ASSUME HInv, TypeOK', UNCHANGED <<workers, sent, feature, handled>>,
           \A p \in Procs : /\ state'[p] \in {state[p], "Ended"}
                            /\ socket'[p] = socket[p] \/ (socket[p] = "Open" /\ socket'[p] = "Lost")
                            /\ toWorker'[p] \in {toWorker[p], <<>>}
    PROVE  HInv'
<1>0. TypeOK /\ workers \in [Features -> Worker] /\ \A f \in Features : workers[f].socket \in Procs \cup {NoProc}
  BY WorkerFields DEF HInv, TypeOK
<1>1. Live(workers, socket)'
  BY <1>0 DEF HInv, WInv, Live
<1>2. Fresh(workers, socket, toWorker)'
  BY DEF HInv, WInv, Fresh
<1>3. Early(socket)'
  BY DEF HInv, WInv, Early
<1>4. ASSUME NEW p \in Procs PROVE Chain(handled[p], toWorker'[p], Waiting(workers, p), feature[p], sent[feature[p]])
  <2>1. Chain(handled[p], toWorker[p], Waiting(workers, p), feature[p], sent[feature[p]])
    BY DEF HInv, WInv, Queued
  <2>2. Chain(handled[p], <<>>, Waiting(workers, p), feature[p], sent[feature[p]])
    BY <1>0, <2>1, ChainMove, QueueTypes
  <2>3. QED
    BY <2>1, <2>2
<1>5. \A p \in Procs : Waiting(workers, p)' = Waiting(workers, p)
  BY DEF Waiting
<1>6. Queued(workers, toWorker)'
  BY <1>4, <1>5 DEF HInv, WInv, Queued
<1>7. QED
  BY <1>1, <1>2, <1>3, <1>6 DEF HInv, WInv

LEMMA InitQueues == Init => HInv
<1> SUFFICES ASSUME Init PROVE HInv
  OBVIOUS
<1>1. TypeOK /\ workers \in [Features -> Worker]
  BY InitType DEF TypeOK
<1>2. \A f \in Features : workers[f].socket = NoProc /\ workers[f].pending = <<>> /\ sent[f] \in Nat
  BY <1>1, QueueTypes DEF Init, NoWorker
<1>3. \A p \in Procs : /\ handled[p] = <<>> /\ toWorker[p] = <<>> /\ socket[p] = "None" /\ p # NoProc
                       /\ feature[p] \in Features
  BY <1>1, FeatureWorkersAssumption DEF Init, TypeOK
<1>4. \A f \in Features, n \in Nat : Chain(<<>>, <<>>, <<>>, f, n)
  <2>1. <<>> \in Seq(Messages)
    OBVIOUS
  <2>2. QED
    BY <2>1, ShortQueues DEF Chain
<1>5. \A p \in Procs : Waiting(workers, p) = <<>>
  BY <1>2, <1>3 DEF Waiting
<1>6. Queued(workers, toWorker)
  BY <1>2, <1>3, <1>4, <1>5 DEF Queued
<1>7. Live(workers, socket) /\ Fresh(workers, socket, toWorker) /\ Early(socket)
  BY <1>2, <1>3 DEF Live, Fresh, Early
<1>8. QED
  BY <1>1, <1>6, <1>7 DEF HInv, WInv

\* A connection is taken for the worker's, what waits is written to it, and the
\* worker is stopped if the feature does so upon its answer.
LEMMA ProcessConnectionKeeps ==
    ASSUME HInv, TypeOK', NEW p \in Procs, ProcessConnection(p)
    PROVE  HInv'
<1> DEFINE f     == feature[p]
           w     == Attach(workers, p)
           isNew == w # workers
           stops == Head(toServer[p]) = "Answer" /\ IsWorkerRunning(f) /\ f \in StopsOnAnswer
           still == IF isNew THEN Drained(w) ELSE w
           o     == IF isNew THEN Written(w) ELSE toWorker
<1>1. TypeOK /\ w \in [Features -> Worker] /\ f \in Features
  BY AttachType DEF HInv, TypeOK
<1>2. /\ socket[p] \in {"Open", "Lost"}
      /\ toWorker' = o
      /\ workers' = IF stops THEN Forget(still, {f}) ELSE still
      /\ CloseSockets(IF stops THEN {w[f].socket} ELSE {})
      /\ UNCHANGED <<sent, state, feature, handled>>
  BY DEF ProcessConnection
<1>3. WInv(w, socket, toWorker)
  BY <1>2, AttachKeeps
<1> HIDE DEF w, isNew, stops, f
<1>4. WInv(still, socket, o) /\ still \in [Features -> Worker] /\ o \in [Procs -> Seq(Messages)]
  <2>1. WInv(Drained(w), socket, Written(w))
    BY <1>1, <1>3, DrainKeeps
  <2>2. Drained(w) \in [Features -> Worker] /\ Written(w) \in [Procs -> Seq(Messages)]
    BY <1>1, DrainedType, WrittenType
  <2>3. toWorker \in [Procs -> Seq(Messages)]
    BY <1>1 DEF TypeOK
  <2>4. QED
    BY <1>1, <1>3, <2>1, <2>2, <2>3
<1>5. still[f].socket = w[f].socket
  BY <1>1 DEF Drained, Worker
<1> HIDE DEF still, o
<1>6. WInv(workers', socket', o)
  <2>1. CASE stops
    <3>1. workers' = Forget(still, {f}) /\ CloseSockets({still[f].socket})
      BY <1>2, <1>5, <2>1
    <3>2. /\ \A q \in Procs : socket'[q] = IF q = still[f].socket THEN "Closed" ELSE socket[q]
          /\ \A q \in Procs : q = still[f].socket => socket[q] # "None"
      BY <1>1, <1>4, <3>1, FeatureWorkersAssumption DEF CloseSockets, WInv, Live
    <3>3. \A g \in Features : still[g].socket # NoProc =>
            IF g \in {f} THEN socket'[still[g].socket] = "Closed" ELSE socket'[still[g].socket] = socket[still[g].socket]
      <4> SUFFICES ASSUME NEW g \in Features, still[g].socket # NoProc
                   PROVE  IF g \in {f} THEN socket'[still[g].socket] = "Closed"
                                       ELSE socket'[still[g].socket] = socket[still[g].socket]
        OBVIOUS
      <4>1. still[g].socket \in Procs
        BY <1>4, WorkerFields
      <4>2. g # f => still[g].socket # still[f].socket
        BY <1>1, <1>4 DEF WInv, Live
      <4>3. QED
        BY <3>2, <4>1, <4>2
    <3>4. QED
      BY <1>1, <1>4, <3>1, <3>2, <3>3, ForgetKeeps
  <2>2. CASE ~stops
    <3>1. socket' = socket
      BY <1>1, <1>2, <2>2 DEF CloseSockets, TypeOK
    <3>2. QED
      BY <1>2, <1>4, <2>2, <3>1
  <2>3. QED
    BY <2>1, <2>2
<1>7. QED
  BY <1>2, <1>6, SameProcesses

LEMMA NextQueues == HInv /\ [Next]_vars => HInv'
<1> SUFFICES ASSUME HInv, [Next]_vars PROVE HInv'
  OBVIOUS
<1>0. TypeOK /\ TypeOK' /\ workers \in [Features -> Worker] /\ toWorker \in [Procs -> Seq(Messages)]
  BY NextType DEF HInv, TypeOK
<1>1. CASE UNCHANGED <<workers, sent, processVars>>
  BY <1>0, <1>1, SameProcesses DEF processVars, HInv
<1>2. CASE UNCHANGED vars \/ LogOn
  BY <1>1, <1>2 DEF vars, LogOn, managerVars
<1>3. ASSUME NEW f \in Features, Send(f) PROVE HInv'
  <2> DEFINE m == [feature |-> f, number |-> sent[f] + 1]
  <2>1. m \in Messages /\ m.feature = f /\ m.number = sent[f] + 1
    BY <1>0, <1>3, FeatureWorkersAssumption DEF Send, TypeOK, Messages
  <2>2. /\ SendMessageToManagedSystemWorker(f, m) \/ SendMessageToUnmanagedSessionWorker(f, m, retries)
        /\ sent' = [sent EXCEPT ![f] = @ + 1]
    BY <1>3 DEF Send
  <2> HIDE DEF m
  <2>3. CASE Enqueue(f, m) \/ (~IsWorkerRunning(f) /\ StartAndEnqueue(f, m))
    BY <1>0, <2>1, <2>2, <2>3, EnqueueKeeps
  <2>4. CASE UNCHANGED <<workers, processVars>>
    <3>1. \A n \in Features : sent[n] \in Nat /\ sent'[n] \in Nat /\ sent[n] <= sent'[n]
      BY <1>0, <2>2, FeatureWorkersAssumption DEF TypeOK
    <3>2. UNCHANGED <<socket, toWorker, handled, feature, state>>
      BY <2>4 DEF processVars
    <3>3. \A p \in Procs : Waiting(workers, p)' = Waiting(workers, p)
      BY <2>4, <3>2 DEF Waiting
    <3>4. \A g \in Features : Chain(<<>>, <<>>, workers[g].pending, g, sent'[g])
      BY <1>0, <3>1, ChainLater, QueueTypes DEF HInv, WInv, Queued
    <3>5. \A p \in Procs : Chain(handled[p], toWorker[p], Waiting(workers, p), feature[p], sent'[feature[p]])
      BY <1>0, <3>1, ChainLater, QueueTypes DEF HInv, WInv, Queued
    <3>6. Queued(workers, toWorker)'
      BY <2>4, <3>2, <3>3, <3>4, <3>5 DEF Queued
    <3>7. Live(workers, socket)' /\ Fresh(workers, socket, toWorker)' /\ Early(socket)'
      BY <2>4, <3>2 DEF HInv, WInv, Live, Fresh, Early
    <3>8. QED
      BY <1>0, <3>6, <3>7 DEF HInv, WInv
  <2>5. QED
    BY <2>2, <2>3, <2>4 DEF SendMessageToManagedSystemWorker, SendMessageToUnmanagedSessionWorker
<1>4. ASSUME NEW m \in retries, Retry(m) PROVE HInv'
  <2>1. m \in Messages /\ m.feature \in Features /\ m.feature \notin Managed /\ sent' = sent
    BY <1>0, <1>4 DEF Retry, TypeOK, Messages
  <2>2. CASE Enqueue(m.feature, m) \/ (~IsWorkerRunning(m.feature) /\ StartAndEnqueue(m.feature, m))
    BY <1>0, <2>1, <2>2, EnqueueKeeps
  <2>3. QED
    BY <1>1, <1>4, <2>1, <2>2 DEF Retry, SendMessageToUnmanagedSessionWorker
\* Workers are forgotten, and sockets closed: theirs, and none that was not open.
<1>5. ASSUME NEW F, workers' = Forget(workers, F), UNCHANGED <<sent, state, feature, handled, toWorker>>,
             NEW P, CloseSockets(P),
             \A p \in P \cap Procs : socket[p] # "None",
             \A f \in Features : workers[f].socket # NoProc => (workers[f].socket \in P <=> f \in F)
      PROVE  HInv'
  <2>1. \A p \in Procs : socket'[p] = socket[p] \/ (socket'[p] = "Closed" /\ socket[p] # "None")
    BY <1>5 DEF CloseSockets
  <2>2. \A f \in Features : workers[f].socket # NoProc =>
          IF f \in F THEN socket'[workers[f].socket] = "Closed" ELSE socket'[workers[f].socket] = socket[workers[f].socket]
    BY <1>0, <1>5, QueueTypes DEF CloseSockets
  <2>3. WInv(Forget(workers, F), socket', toWorker)
    BY <1>0, <2>1, <2>2, ForgetKeeps DEF HInv
  <2>4. QED
    BY <1>0, <1>5, <2>3, SameProcesses
<1>6. ASSUME NEW f \in Features, StopWorker(f) PROVE HInv'
  <2>1. /\ workers' = Forget(workers, {f}) /\ CloseSockets({workers[f].socket})
        /\ UNCHANGED <<sent, state, feature, handled, toWorker>>
    BY <1>6 DEF StopWorker
  <2>2. \A p \in {workers[f].socket} \cap Procs : socket[p] # "None"
    BY FeatureWorkersAssumption DEF HInv, WInv, Live
  <2>3. \A g \in Features : workers[g].socket # NoProc => (workers[g].socket \in {workers[f].socket} <=> g \in {f})
    BY DEF HInv, WInv, Live
  <2>4. QED
    BY <1>5, <2>1, <2>2, <2>3
<1>7. CASE SendPendingMessages
  BY <1>0, <1>7, DrainKeeps, SameProcesses DEF SendPendingMessages, HInv
<1>8. CASE Shutdown
  <2> DEFINE P == {p \in Procs : socket[p] \in {"Open", "Lost"}}
  <2>1. /\ workers' = Forget(workers, Features) /\ CloseSockets(P)
        /\ UNCHANGED <<sent, state, feature, handled, toWorker>>
    BY <1>8 DEF Shutdown
  <2>2. \A g \in Features : workers[g].socket # NoProc => (workers[g].socket \in P <=> g \in Features)
    BY <1>0, QueueTypes DEF HInv, WInv, Live
  <2>3. QED
    BY <1>5, <2>1, <2>2
<1>9. ASSUME NEW p \in Procs, CloseConnection(p) PROVE HInv'
  <2> DEFINE F == {f \in Features : workers[f].socket = p}
  <2>1. /\ workers' = Forget(workers, F) /\ CloseSockets({p}) /\ socket[p] = "Lost"
        /\ UNCHANGED <<sent, state, feature, handled, toWorker>>
    BY <1>9 DEF CloseConnection
  <2>2. \A g \in Features : workers[g].socket # NoProc => (workers[g].socket \in {p} <=> g \in F)
    OBVIOUS
  <2>3. QED
    BY <1>5, <2>1, <2>2
<1>10. ASSUME NEW p \in Procs, KillTimer(p) \/ LostConnection(p) \/ ExitProcess(p) PROVE HInv'
  <2>1. UNCHANGED <<workers, sent>>
    BY <1>10 DEF KillTimer, LostConnection, ExitProcess, managerVars
  <2>2. CASE Ends(p)
    <3>1. \A q \in Procs : /\ state'[q] \in {state[q], "Ended"}
                           /\ socket'[q] = socket[q] \/ (socket[q] = "Open" /\ socket'[q] = "Lost")
                           /\ toWorker'[q] \in {toWorker[q], <<>>}
      BY <1>0, <2>2 DEF Ends, TypeOK
    <3>2. UNCHANGED <<feature, handled>>
      BY <2>2 DEF Ends
    <3>3. QED
      BY <1>0, <2>1, <3>1, <3>2, EndKeeps
  <2>3. QED
    BY <1>1, <1>10, <2>1, <2>2 DEF KillTimer, LostConnection, ExitProcess
<1>11. CASE LogOff
  <2>1. \A q \in Procs : /\ state'[q] \in {state[q], "Ended"}
                         /\ socket'[q] = socket[q] \/ (socket[q] = "Open" /\ socket'[q] = "Lost")
                         /\ toWorker'[q] \in {toWorker[q], <<>>}
    BY <1>11 DEF LogOff
  <2>2. UNCHANGED <<workers, sent, feature, handled>>
    BY <1>11 DEF LogOff, managerVars
  <2>3. QED
    BY <1>0, <2>1, <2>2, EndKeeps
<1>12. ASSUME NEW p \in Procs, Connect(p) PROVE HInv'
  <2>1. UNCHANGED <<workers, sent, feature, handled, toWorker>> /\ state[p] = "Started"
    BY <1>12 DEF Connect, managerVars
  <2>2. \A q \in Procs : /\ state'[q] = IF q = p THEN "Connected" ELSE state[q]
                         /\ socket'[q] = IF q = p THEN "Open" ELSE socket[q]
    BY <1>0, <1>12 DEF Connect, TypeOK
  <2>3. socket[p] = "None"
    BY <2>1 DEF HInv, WInv, Early
  <2>4. Live(workers, socket)'
    BY <1>0, <2>1, <2>2, QueueTypes DEF HInv, WInv, Live
  <2>5. Fresh(workers, socket, toWorker)'
    BY <2>1, <2>2, <2>3 DEF HInv, WInv, Fresh
  <2>6. Early(socket)'
    BY <2>2 DEF HInv, WInv, Early
  <2>7. \A q \in Procs : Waiting(workers, q)' = Waiting(workers, q)
    BY <2>1 DEF Waiting
  <2>8. Queued(workers, toWorker)'
    BY <2>1, <2>7 DEF HInv, WInv, Queued
  <2>9. QED
    BY <1>0, <2>4, <2>5, <2>6, <2>8 DEF HInv, WInv
<1>13. ASSUME NEW p \in Procs, ReceiveMessage(p) PROVE HInv'
  <2>1. UNCHANGED <<workers, sent, feature, socket, state>> /\ toWorker[p] # <<>>
    BY <1>13 DEF ReceiveMessage, managerVars
  <2>2. /\ handled'[p] = Append(handled[p], Head(toWorker[p])) /\ toWorker'[p] = Tail(toWorker[p])
        /\ \A q \in Procs \ {p} : handled'[q] = handled[q] /\ toWorker'[q] = toWorker[q]
    BY <1>0, <1>13 DEF ReceiveMessage, TypeOK
  <2>3. Live(workers, socket)' /\ Early(socket)'
    BY <2>1 DEF HInv, WInv, Live, Early
  <2>4. Fresh(workers, socket, toWorker)'
    BY <2>1, <2>2 DEF HInv, WInv, Fresh
  <2>5. \A q \in Procs : Waiting(workers, q)' = Waiting(workers, q)
    BY <2>1 DEF Waiting
  <2>6. ASSUME NEW q \in Procs PROVE Chain(handled'[q], toWorker'[q], Waiting(workers, q), feature[q], sent[feature[q]])
    <3>1. Chain(handled[q], toWorker[q], Waiting(workers, q), feature[q], sent[feature[q]])
      BY DEF HInv, WInv, Queued
    <3>2. CASE q = p
      <4>1. /\ handled[p] \in Seq(Messages) /\ toWorker[p] \in Seq(Messages)
            /\ Waiting(workers, p) \in Seq(Messages) /\ sent[feature[p]] \in Nat
        BY <1>0, QueueTypes
      <4>2. Chain(Append(handled[p], Head(toWorker[p])), Tail(toWorker[p]), Waiting(workers, p),
                  feature[p], sent[feature[p]])
        BY <2>1, <3>1, <3>2, <4>1, ChainTake
      <4>3. QED
        BY <2>2, <3>2, <4>2
    <3>3. CASE q # p
      BY <2>2, <3>1, <3>3
    <3>4. QED
      BY <3>2, <3>3
  <2>7. Queued(workers, toWorker)'
    BY <2>1, <2>5, <2>6 DEF HInv, WInv, Queued
  <2>8. QED
    BY <1>0, <2>3, <2>4, <2>7 DEF HInv, WInv
<1>14. QED
  BY <1>0, <1>2, <1>3, <1>4, <1>6, <1>7, <1>8, <1>9, <1>10, <1>11, <1>12, <1>13, ProcessConnectionKeeps
     DEF Next, ManagerStep, ProcessStep

\* A worker is never tied to a connection of another feature, or to one that was
\* closed, whatever processes of stopped workers connect or answer late.
THEOREM ConnectionCorrect == Spec => []WorkerHasLiveConnection
<1>1. HInv => WorkerHasLiveConnection
  BY DEF HInv, WInv, Live, WorkerHasLiveConnection
<1>2. QED
  BY <1>1, InitQueues, NextQueues, PTL DEF Spec

\* A process handles messages of its own feature only, and one of a managed
\* worker each once and in the order they were sent: what was handled, what is on
\* its way and what waits for the connection remain pieces of one queue in order.
THEOREM OrderCorrect == Spec => []HandledInOrder
<1>1. HInv => HandledInOrder
  <2> SUFFICES ASSUME HInv, NEW p \in Procs,
                      NEW queue, queue = handled[p] \o toWorker[p] \o Waiting(workers, p)
               PROVE  /\ \A m \in Range(queue) : m.feature = feature[p]
                      /\ feature[p] \in Managed =>
                           \A i, j \in DOMAIN queue : i < j => queue[i].number < queue[j].number
    BY DEF HandledInOrder, Waiting
  <2>1. Chain(handled[p], toWorker[p], Waiting(workers, p), feature[p], sent[feature[p]])
    BY DEF HInv, WInv, Queued
  <2>2. TypeOK /\ workers \in [Features -> Worker]
    BY DEF HInv, TypeOK
  <2>3. Own(queue, feature[p]) /\ (feature[p] \in Managed => Increasing(queue))
    BY <2>1, <2>2, ChainInOrder, QueueTypes
  <2>4. QED
    BY <2>3 DEF Own, Increasing, Range
<1>2. QED
  BY <1>1, InitQueues, NextQueues, PTL DEF Spec
=============================================================================
