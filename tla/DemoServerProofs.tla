--------------------------- MODULE DemoServerProofs ---------------------------
(* Theorems about DemoServer, for any screen, any changes and any viewers.  *)
EXTENDS DemoServer, WellFoundedInduction, TLAPS

-----------------------------------------------------------------------------
(* The greatest number of a set                                            *)

LEMMA LeastNatural ==
    ASSUME NEW T \in SUBSET Nat, T # {}
    PROVE  \E x \in T : \A y \in T : x <= y
<1> DEFINE R == OpToRel(<, Nat)
<1>1. \E x \in T : \A y \in T : ~ (<<y, x>> \in R)
  <2>1. IsWellFoundedOn(R, Nat)
    BY NatLessThanWellFounded
  <2> HIDE DEF R
  <2>2. QED
    BY <2>1, WFMin
<1>2. \A x, y \in Nat : x < y => <<x, y>> \in R
  BY DEF OpToRel
<1> HIDE DEF R
<1>3. PICK x \in T : \A y \in T : ~ (<<y, x>> \in R)
  BY <1>1
<1>4. \A y \in T : ~ (y < x)
  BY <1>2, <1>3
<1>5. QED
  BY <1>4

\* What is bounded has a greatest element: the one with the least distance to the bound.
LEMMA MaxFacts ==
    ASSUME NEW N \in Int, NEW S \in SUBSET Int, S # {}, \A x \in S : x <= N
    PROVE  Max(S) \in S /\ \A x \in S : x <= Max(S)
<1> DEFINE T == {n \in Nat : N - n \in S}
<1>1. T \in SUBSET Nat /\ T # {}
  <2>1. PICK x \in S : x <= N
    OBVIOUS
  <2>2. N - x \in Nat /\ N - (N - x) = x
    BY <2>1
  <2>3. QED
    BY <2>1, <2>2
<1>2. \E t \in T : \A y \in T : t <= y
  <2> HIDE DEF T
  <2>1. QED
    BY <1>1, LeastNatural
<1>3. PICK t \in T : \A y \in T : t <= y
  BY <1>2
<1>4. ASSUME NEW y \in S PROVE N - t >= y
  <2>1. N - y \in Nat /\ N - (N - y) = y
    OBVIOUS
  <2>2. N - y \in T
    BY <2>1
  <2>3. t <= N - y
    BY <1>3, <2>2
  <2>4. QED
    BY <2>3
<1>5. N - t \in S
  OBVIOUS
<1> DEFINE P(x) == \A y \in S : x >= y
<1>6. \E x \in S : P(x)
  BY <1>4, <1>5
<1>7. Max(S) = CHOOSE x \in S : P(x)
  BY DEF Max
<1> HIDE DEF P
<1>8. (CHOOSE x \in S : P(x)) \in S /\ P(CHOOSE x \in S : P(x))
  BY <1>6
<1>9. QED
  BY <1>7, <1>8 DEF P

LEMMA MaxIs ==
    ASSUME NEW S \in SUBSET Int, NEW m \in S, \A x \in S : x <= m
    PROVE  Max(S) = m
<1>1. Max(S) \in S /\ m <= Max(S)
  BY MaxFacts
<1>2. Max(S) \in Int /\ m \in Int /\ Max(S) <= m
  BY <1>1
<1>3. \A a, b \in Int : a <= b /\ b <= a => a = b
  OBVIOUS
<1>4. QED
  BY <1>1, <1>2, <1>3

-----------------------------------------------------------------------------
(* Pictures and updates.  The level of an update is the number of changes  *)
(* there had been when it was made: its youngest region was changed last.  *)

Level(m) == Max(Range(m))

LEMMA Constants ==
    /\ Regions # {} /\ MaxChanges \in Nat /\ MemoryLimit \in Nat /\ MaxInFlight \in Nat \ {0}
    /\ Corners \subseteq Regions /\ \A R \in ChangeSets : R # {} /\ R \subseteq Regions
BY DemoServerAssumption

LEMMA PictureFacts ==
    ASSUME changes \in Seq(ChangeSets), NEW n \in 0..Len(changes)
    PROVE  /\ Picture(n) \in [Regions -> 0..n]
           /\ n # 0 => \A r \in changes[n] : r \in Regions /\ Picture(n)[r] = n
<1>1. Len(changes) \in Nat /\ n \in Nat
  OBVIOUS
<1>2. ASSUME NEW r \in Regions
      PROVE  Picture(n)[r] \in 0..n /\ (n # 0 /\ r \in changes[n] => Picture(n)[r] = n)
  <2> DEFINE S == {0} \cup {k \in 1..n : r \in changes[k]}
  <2>1. S \in SUBSET Int /\ 0 \in S /\ S # {} /\ \A x \in S : x \in 0..n
    <3>1. \A x \in {0} \cup 1..n : x \in Int /\ x \in 0..n
      BY <1>1
    <3>2. S \subseteq {0} \cup 1..n /\ 0 \in S
      OBVIOUS
    <3>3. QED
      BY <3>1, <3>2
  <2>2. n # 0 /\ r \in changes[n] => n \in S
    BY <1>1
  <2>3. Picture(n)[r] = Max(S)
    BY DEF Picture
  <2> HIDE DEF S
  <2>4. Max(S) \in S
    <3>1. n \in Int /\ \A x \in S : x <= n
      BY <1>1, <2>1
    <3>2. QED
      BY <2>1, <3>1, MaxFacts
  <2>5. n \in S => Max(S) = n
    BY <2>1, <1>1, MaxIs
  <2>6. Max(S) \in 0..n
    BY <2>1, <2>4
  <2>7. QED
    BY <2>2, <2>3, <2>5, <2>6
<1>3. n # 0 => changes[n] \subseteq Regions
  BY <1>1, Constants
<1>4. Picture(n) = [r \in Regions |-> Picture(n)[r]]
  BY DEF Picture
<1>5. QED
  BY <1>2, <1>3, <1>4

\* An update of at least the regions that were changed last.
LEMMA LevelIs ==
    ASSUME changes \in Seq(ChangeSets), NEW n \in 0..Len(changes),
           NEW R \in SUBSET Regions, R # {}, n # 0 => changes[n] \subseteq R
    PROVE  /\ Level(Restrict(Picture(n), R)) = n
           /\ Restrict(Picture(n), R) \in [R -> 0..n]
           /\ \A r \in R : Restrict(Picture(n), R)[r] = Picture(n)[r]
<1>1. /\ Picture(n) \in [Regions -> 0..n]
      /\ n # 0 => \A r \in changes[n] : r \in Regions /\ Picture(n)[r] = n
  BY PictureFacts
<1> DEFINE m == Restrict(Picture(n), R)
<1>2. m \in [R -> 0..n] /\ \A r \in R : m[r] = Picture(n)[r]
  BY <1>1 DEF Restrict
<1>3. \E r \in R : m[r] = n
  <2>1. CASE n = 0
    BY <1>2, <2>1
  <2>2. CASE n # 0
    <3>1. changes[n] # {}
      BY <2>2, Constants
    <3>2. QED
      BY <1>1, <1>2, <2>2, <3>1
  <2>3. QED
    BY <2>1, <2>2
<1> HIDE DEF m
<1>4. Range(m) \in SUBSET Int /\ n \in Range(m) /\ \A x \in Range(m) : x <= n
  BY <1>2, <1>3 DEF Range
<1>5. Level(m) = n
  BY <1>4, MaxIs DEF Level
<1>6. QED
  BY <1>2, <1>5 DEF m

LEMMA LevelOfPicture ==
    ASSUME changes \in Seq(ChangeSets), NEW n \in 0..Len(changes)
    PROVE  Max(Range(Picture(n))) = n
<1>1. n # 0 => changes[n] \subseteq Regions
  BY Constants
<1>2. Level(Restrict(Picture(n), Regions)) = n
  BY <1>1, LevelIs, Constants
<1>3. Restrict(Picture(n), Regions) = Picture(n)
  BY DEF Restrict, Picture
<1>4. QED
  BY <1>2, <1>3 DEF Level

-----------------------------------------------------------------------------
(* Types                                                                   *)

ViewerRecords == [state : {"Away", "Pending", "Accepted", "Running"}, synced : BOOLEAN, index : Nat]

LEMMA InitType == Init => TypeOK
<1> SUFFICES ASSUME Init PROVE TypeOK
  OBVIOUS
<1>1. Away \in ViewerRecords /\ viewer \in [Viewers -> ViewerRecords]
  BY DEF Init, Away, ViewerRecords
<1>2. Blank \in [Regions -> Nothing..MaxChanges] /\ shown \in [Viewers -> [Regions -> Nothing..MaxChanges]]
  BY Constants DEF Init, Blank, Nothing
<1>3. /\ changes \in Seq(ChangeSets) /\ Len(changes) <= MaxChanges
      /\ inFlight \in Seq(Updates) /\ Len(inFlight) <= MaxInFlight
      /\ messages \in Seq(Updates) /\ Len(messages) <= 2 * MemoryLimit + 1
  <2>1. /\ <<>> \in Seq(ChangeSets) /\ <<>> \in Seq(Updates) /\ Len(<<>>) = 0
    OBVIOUS
  <2>2. QED
    BY <2>1, Constants DEF Init
<1>4. QED
  BY <1>1, <1>2, <1>3 DEF Init, TypeOK, ViewerRecords

\* The regions of an update, and what it says of them.
LEMMA UpdateFacts ==
    ASSUME NEW m \in Updates
    PROVE  DOMAIN m \subseteq Regions /\ DOMAIN m # {} /\ \A r \in DOMAIN m : m[r] \in 0..MaxChanges
BY DEF Updates

LEMMA UpdateType ==
    ASSUME TypeOK, NEW R \in SUBSET Regions, R # {}
    PROVE  Update(R) \in Updates
<1>1. changes \in Seq(ChangeSets) /\ Len(changes) \in 0..Len(changes) /\ Len(changes) <= MaxChanges
  BY DEF TypeOK
<1>2. Picture(Len(changes)) \in [Regions -> 0..Len(changes)]
  BY <1>1, PictureFacts
<1>3. 0..Len(changes) \subseteq 0..MaxChanges
  BY <1>1, Constants
<1>4. Update(R) \in [R -> 0..MaxChanges]
  BY <1>2, <1>3 DEF Update, Restrict, Screen
<1>5. QED
  BY <1>4 DEF Updates

\* What is sent of the queue, and where it is.
LEMMA SentFacts ==
    ASSUME TypeOK, NEW v \in Viewers, NEW r \in Regions
    PROVE  /\ Position(v) \in 0..Len(messages)
           /\ \/ /\ \A i \in Position(v) + 1..Len(messages) : r \notin DOMAIN messages[i]
                 /\ Sent(v, r) = shown[v][r]
              \/ \E i \in Position(v) + 1..Len(messages) :
                     /\ r \in DOMAIN messages[i] /\ Sent(v, r) = messages[i][r]
                     /\ \A k \in i + 1..Len(messages) : r \notin DOMAIN messages[k]
<1>1. Len(messages) \in Nat /\ viewer[v].index \in Nat
  BY DEF TypeOK
<1>2. Position(v) \in 0..Len(messages)
  BY <1>1 DEF Position
<1> DEFINE S == {i \in Position(v) + 1..Len(messages) : r \in DOMAIN messages[i]}
<1>3. Sent(v, r) = IF S = {} THEN shown[v][r] ELSE messages[Max(S)][r]
  BY DEF Sent
<1>4. /\ S \subseteq Position(v) + 1..Len(messages) /\ \A i \in S : r \in DOMAIN messages[i]
      /\ \A i \in Position(v) + 1..Len(messages) : r \in DOMAIN messages[i] => i \in S
  OBVIOUS
<1> HIDE DEF S
<1>5. CASE S = {}
  BY <1>2, <1>3, <1>4, <1>5
<1>6. CASE S # {}
  <2>1. \A i \in Position(v) + 1..Len(messages) : i \in Int /\ i <= Len(messages)
    BY <1>1, <1>2
  <2>2. S \in SUBSET Int /\ Len(messages) \in Int /\ \A i \in S : i <= Len(messages)
    BY <1>1, <1>4, <2>1
  <2>3. Max(S) \in S /\ \A i \in S : i <= Max(S)
    BY <1>6, <2>2, MaxFacts
  <2>4. ASSUME NEW k \in Max(S) + 1..Len(messages) PROVE r \notin DOMAIN messages[k]
    <3>1. Max(S) \in Position(v) + 1..Len(messages)
      BY <1>4, <2>3
    <3>2. k \in Position(v) + 1..Len(messages) /\ ~(k <= Max(S))
      BY <1>1, <1>2, <3>1
    <3>3. k \notin S
      BY <2>3, <3>2
    <3>4. QED
      BY <1>4, <3>2, <3>3
  <2>5. QED
    BY <1>2, <1>3, <1>4, <1>6, <2>3, <2>4
<1>7. QED
  BY <1>5, <1>6

LEMMA SentType ==
    ASSUME TypeOK, NEW v \in Viewers, NEW r \in Regions
    PROVE  Sent(v, r) \in Nothing..MaxChanges
<1>1. /\ Position(v) \in 0..Len(messages)
      /\ \/ Sent(v, r) = shown[v][r]
         \/ \E i \in Position(v) + 1..Len(messages) :
                r \in DOMAIN messages[i] /\ Sent(v, r) = messages[i][r]
  BY SentFacts
<1>2. CASE Sent(v, r) = shown[v][r]
  BY <1>2 DEF TypeOK
<1>3. ASSUME NEW i \in Position(v) + 1..Len(messages),
             r \in DOMAIN messages[i], Sent(v, r) = messages[i][r]
      PROVE  Sent(v, r) \in Nothing..MaxChanges
  <2>1. messages \in Seq(Updates) /\ Len(messages) \in Nat
    BY DEF TypeOK
  <2>2. i \in 1..Len(messages)
    BY <1>1, <2>1
  <2>3. messages[i] \in Updates
    BY <2>1, <2>2
  <2>4. messages[i][r] \in 0..MaxChanges
    BY <1>3, <2>3, UpdateFacts
  <2>5. QED
    BY <1>3, <2>4, Constants DEF Nothing
<1>4. QED
  BY <1>1, <1>2, <1>3

LEMMA ViewerSteps ==
    ASSUME TypeOK, NEW v \in Viewers, Viewer(v)
    PROVE  TypeOK'
<1>1. /\ viewer \in [Viewers -> ViewerRecords] /\ shown \in [Viewers -> [Regions -> Nothing..MaxChanges]]
      /\ viewer[v] \in ViewerRecords
  BY DEF TypeOK, ViewerRecords
<1>2. UNCHANGED <<screenVars, vncVars, serverVars>>
  BY DEF Viewer, IncomingConnection, Authenticate, SendFramebufferUpdate, Leave
<1>3. /\ \E w \in ViewerRecords : viewer' = [viewer EXCEPT ![v] = w]
      /\ \E p \in [Regions -> Nothing..MaxChanges] : shown' = [shown EXCEPT ![v] = p] \/ shown' = shown
  <2>1. shown[v] \in [Regions -> Nothing..MaxChanges]
    BY <1>1
  <2>2. CASE IncomingConnection(v)
    <3>1. Accepted \in ViewerRecords /\ [Away EXCEPT !.state = "Pending"] \in ViewerRecords
      BY DEF Accepted, Away, ViewerRecords
    <3>2. Blank \in [Regions -> Nothing..MaxChanges]
      BY Constants DEF Blank, Nothing
    <3>3. QED
      BY <2>2, <3>1, <3>2 DEF IncomingConnection
  <2>3. CASE Authenticate(v)
    <3>1. [viewer[v] EXCEPT !.state = "Running"] \in ViewerRecords
      BY <1>1 DEF ViewerRecords
    <3>2. QED
      BY <1>1, <2>1, <2>3, <3>1 DEF Authenticate
  <2>4. CASE SendFramebufferUpdate(v)
    <3>1. [viewer[v] EXCEPT !.synced = TRUE, !.index = Len(messages)] \in ViewerRecords
      <4>1. Len(messages) \in Nat
        BY DEF TypeOK
      <4>2. QED
        BY <1>1, <4>1 DEF ViewerRecords
    <3>2. [r \in Regions |-> Sent(v, r)] \in [Regions -> Nothing..MaxChanges]
      BY SentType
    <3>3. QED
      BY <1>1, <2>4, <3>1, <3>2 DEF SendFramebufferUpdate
  <2>5. CASE Leave(v)
    <3>1. Away \in ViewerRecords
      BY DEF Away, ViewerRecords
    <3>2. QED
      BY <2>1, <2>5, <3>1 DEF Leave
  <2>6. QED
    BY <2>2, <2>3, <2>4, <2>5 DEF Viewer
<1>4. viewer' \in [Viewers -> ViewerRecords] /\ shown' \in [Viewers -> [Regions -> Nothing..MaxChanges]]
  BY <1>1, <1>3
<1>5. QED
  BY <1>2, <1>4 DEF TypeOK, ViewerRecords, screenVars, vncVars, serverVars

\* The head of the updates on their way, and what is left of them.
LEMMA NextInFlight ==
    ASSUME TypeOK, inFlight # <<>>
    PROVE  /\ Head(inFlight) \in Updates /\ Head(inFlight) = inFlight[1]
           /\ Tail(inFlight) \in Seq(Updates) /\ Len(inFlight) \in Nat \ {0}
           /\ Len(Tail(inFlight)) = Len(inFlight) - 1
           /\ \A i \in 1..Len(inFlight) - 1 : Tail(inFlight)[i] = inFlight[i + 1]
BY DEF TypeOK

LEMMA EnqueueType ==
    ASSUME TypeOK, NEW m \in Updates, Enqueue(m)
    PROVE  /\ messages' \in Seq(Updates) /\ Len(messages') <= 2 * MemoryLimit + 1
           /\ requestFull' \in BOOLEAN /\ viewer' \in [Viewers -> ViewerRecords]
<1>1. messages \in Seq(Updates) /\ Len(messages) \in Nat /\ viewer \in [Viewers -> ViewerRecords]
  BY DEF TypeOK, ViewerRecords
<1>2. messages' \in Seq(Updates) /\ Len(messages') <= 2 * MemoryLimit + 1
  <2>1. CASE StartsKeyFrame(m)
    <3>1. messages' = <<m>> /\ <<m>> \in Seq(Updates) /\ Len(<<m>>) = 1
      BY <2>1 DEF Enqueue
    <3>2. QED
      BY <3>1, Constants
  <2>2. CASE ~StartsKeyFrame(m)
    <3>1. messages' = Append(messages, m) /\ Len(messages) <= 2 * MemoryLimit
      BY <1>1, <2>2, Constants DEF Enqueue, StartsKeyFrame
    <3>2. Append(messages, m) \in Seq(Updates) /\ Len(Append(messages, m)) = Len(messages) + 1
      BY <1>1
    <3>3. QED
      BY <1>1, <3>1, <3>2, Constants
  <2>3. QED
    BY <2>1, <2>2
<1>3. requestFull' \in BOOLEAN
  BY DEF Enqueue, TypeOK
<1>4. \A v \in Viewers : [viewer[v] EXCEPT !.synced = FALSE] \in ViewerRecords
  BY <1>1 DEF ViewerRecords
<1>5. viewer' \in [Viewers -> ViewerRecords]
  BY <1>1, <1>4 DEF Enqueue
<1>6. QED
  BY <1>2, <1>3, <1>5

LEMMA NextType == TypeOK /\ [Next]_vars => TypeOK'
<1> SUFFICES ASSUME TypeOK, [Next]_vars PROVE TypeOK'
  OBVIOUS
<1> USE DEF screenVars, vncVars, serverVars
<1>1. CASE UNCHANGED vars
  BY <1>1 DEF vars, TypeOK
<1>2. ASSUME NEW R \in ChangeSets, Change(R) PROVE TypeOK'
  <2>1. changes' \in Seq(ChangeSets) /\ Len(changes') <= MaxChanges
    <3>1. changes \in Seq(ChangeSets) /\ Len(changes) < MaxChanges /\ changes' = Append(changes, R)
      BY <1>2 DEF TypeOK, Change
    <3>2. QED
      BY <3>1, Constants
  <2>2. dirty' \subseteq Regions
    BY <1>2, Constants DEF TypeOK, Change
  <2>3. QED
    BY <1>2, <2>1, <2>2 DEF Change, TypeOK
<1>3. CASE SendUpdate
  <2> DEFINE R == IF requested = "Full" THEN Regions ELSE dirty
  <2>1. R \in SUBSET Regions /\ R # {}
    BY <1>3, Constants DEF TypeOK, SendUpdate
  <2>2. inFlight' = Append(inFlight, Update(R)) /\ Len(inFlight) < MaxInFlight /\ inFlight \in Seq(Updates)
    BY <1>3 DEF TypeOK, SendUpdate
  <2> HIDE DEF R
  <2>3. Update(R) \in Updates
    BY <2>1, UpdateType
  <2>4. inFlight' \in Seq(Updates) /\ Len(inFlight') <= MaxInFlight
    BY <2>2, <2>3, Constants
  <2>5. QED
    BY <1>3, <2>4 DEF SendUpdate, TypeOK
<1>4. CASE \E elapsed \in BOOLEAN : RequestFramebufferUpdate(elapsed)
  BY <1>4 DEF RequestFramebufferUpdate, TypeOK
<1>5. CASE ReceiveUpdate
  <2>1. Head(inFlight) \in Updates /\ Enqueue(Head(inFlight))
    BY <1>5, NextInFlight DEF ReceiveUpdate
  <2>2. /\ messages' \in Seq(Updates) /\ Len(messages') <= 2 * MemoryLimit + 1
        /\ requestFull' \in BOOLEAN /\ viewer' \in [Viewers -> ViewerRecords]
    BY <2>1, EnqueueType
  <2>3. inFlight' \in Seq(Updates) /\ Len(inFlight') <= MaxInFlight
    <3>1. /\ Tail(inFlight) \in Seq(Updates) /\ Len(inFlight) \in Nat
          /\ Len(Tail(inFlight)) = Len(inFlight) - 1 /\ Len(inFlight) <= MaxInFlight
      BY <1>5, NextInFlight DEF ReceiveUpdate, TypeOK
    <3>2. QED
      BY <1>5, <3>1, Constants DEF ReceiveUpdate
  <2>4. QED
    BY <1>5, <2>2, <2>3 DEF ReceiveUpdate, TypeOK, ViewerRecords
<1>6. CASE Crash
  <2>1. Away \in ViewerRecords
    BY DEF Away, ViewerRecords
  <2>2. viewer' \in [Viewers -> ViewerRecords]
    BY <1>6, <2>1 DEF Crash
  <2>3. inFlight' = <<>> /\ messages' = <<>> /\ <<>> \in Seq(Updates) /\ Len(<<>>) = 0
    BY <1>6 DEF Crash
  <2>4. /\ inFlight' \in Seq(Updates) /\ Len(inFlight') <= MaxInFlight
        /\ messages' \in Seq(Updates) /\ Len(messages') <= 2 * MemoryLimit + 1
    BY <2>3, Constants
  <2>5. QED
    BY <1>6, <2>2, <2>4 DEF Crash, TypeOK, ViewerRecords
<1>7. CASE StartDemoServer \/ ReconnectFails
  BY <1>7 DEF StartDemoServer, ReconnectFails, TypeOK
<1>8. CASE LoseVncServer
  <2>1. inFlight' = <<>> /\ <<>> \in Seq(Updates) /\ Len(<<>>) = 0
    BY <1>8 DEF LoseVncServer
  <2>2. inFlight' \in Seq(Updates) /\ Len(inFlight') <= MaxInFlight
    BY <2>1, Constants
  <2>3. QED
    BY <1>8, <2>2 DEF LoseVncServer, TypeOK
<1>9. CASE Start
  <2>1. Accepted \in ViewerRecords
    BY DEF Accepted, Away, ViewerRecords
  <2>2. viewer' \in [Viewers -> ViewerRecords]
    BY <1>9, <2>1 DEF Start, TypeOK, ViewerRecords
  <2>3. QED
    BY <1>9, <2>2 DEF Start, TypeOK, ViewerRecords
<1>10. CASE \E v \in Viewers : Viewer(v)
  BY <1>10, ViewerSteps
<1>11. QED
  BY <1>1, <1>2, <1>3, <1>4, <1>5, <1>6, <1>7, <1>8, <1>9, <1>10 DEF Next

\* Every variable has a value of its type; in particular the queue never outgrows
\* twice the memory limit by more than one update, whatever viewers lag behind.
THEOREM TypeCorrect == Spec => []TypeOK
BY InitType, NextType, PTL DEF Spec

-----------------------------------------------------------------------------
(* The invariant.  The updates that are queued and those on their way are  *)
(* one stream, in which each takes up where the one before it ended.       *)

Stream == messages \o inFlight

\* Each update shows pictures that were on the screen.
Shots(q) ==
    \A i \in DOMAIN q : /\ Level(q[i]) \in 0..Len(changes)
                        /\ \A r \in DOMAIN q[i] : q[i][r] = Picture(Level(q[i]))[r]

\* What has changed from one to another is in one of the updates that follow the first.
Linked(q) ==
    \A i, j \in DOMAIN q, r \in Regions :
        i < j /\ (\A k \in i + 1..j : r \notin DOMAIN q[k])
        => Picture(Level(q[i]))[r] = Picture(Level(q[j]))[r]

\* What has changed since the last update is dirty, unless everything is asked for.
UpToDate ==
    server = "Running" /\ requested # "Full" =>
        Stream # <<>> /\ \A r \in Regions \ dirty : Picture(Level(Stream[Len(Stream)]))[r] = Screen[r]

DirtyIsNew == dirty # {} => changes # <<>> /\ changes[Len(changes)] \subseteq dirty

IdleUnlessRunning == server # "Running" => requested = "None" /\ inFlight = <<>>

StreamInv == Shots(Stream) /\ Linked(Stream) /\ UpToDate /\ DirtyIsNew /\ IdleUnlessRunning

\* Whoever has been sent updates of a whole screen shows the picture of the last one.
SyncedIsShot ==
    \A v \in Viewers : viewer[v].synced /\ messages # <<>> /\ IsWhole(messages[1]) =>
        /\ viewer[v].index \in 1..Len(messages)
        /\ shown[v] = Picture(Level(messages[viewer[v].index]))

PInv == TypeOK /\ StreamInv /\ SyncedIsShot

LEMMA StreamFacts ==
    ASSUME TypeOK
    PROVE  /\ Stream \in Seq(Updates) /\ Len(Stream) = Len(messages) + Len(inFlight)
           /\ DOMAIN Stream = 1..Len(Stream) /\ Len(messages) \in Nat /\ Len(inFlight) \in Nat
           /\ \A i \in 1..Len(messages) : Stream[i] = messages[i]
           /\ \A i \in 1..Len(inFlight) : Stream[Len(messages) + i] = inFlight[i]
<1>1. messages \in Seq(Updates) /\ inFlight \in Seq(Updates)
  BY DEF TypeOK
<1>2. QED
  BY <1>1 DEF Stream

\* A part of a stream is one.
LEMMA PartOfStream ==
    ASSUME NEW q \in Seq(Updates), Shots(q), Linked(q),
           NEW s \in Seq(Updates), NEW d \in Nat, d + Len(s) <= Len(q),
           \A i \in 1..Len(s) : s[i] = q[d + i]
    PROVE  Shots(s) /\ Linked(s)
<1>1. /\ DOMAIN s = 1..Len(s) /\ Len(s) \in Nat /\ DOMAIN q = 1..Len(q) /\ Len(q) \in Nat
      /\ \A i \in 1..Len(s) : d + i \in 1..Len(q)
  OBVIOUS
<1>2. Shots(s)
  BY <1>1 DEF Shots
<1>3. ASSUME NEW i \in DOMAIN s, NEW j \in DOMAIN s, NEW r \in Regions,
             i < j, \A k \in i + 1..j : r \notin DOMAIN s[k]
      PROVE  Picture(Level(s[i]))[r] = Picture(Level(s[j]))[r]
  <2>1. \A k \in d + i + 1..d + j : r \notin DOMAIN q[k]
    <3>1. ASSUME NEW k \in d + i + 1..d + j PROVE r \notin DOMAIN q[k]
      <4>1. k - d \in i + 1..j /\ k - d \in 1..Len(s) /\ d + (k - d) = k
        BY <1>1
      <4>2. r \notin DOMAIN s[k - d] /\ s[k - d] = q[k]
        BY <1>3, <4>1
      <4>3. QED
        BY <4>2
    <3>2. QED
      BY <3>1
  <2>2. d + i \in DOMAIN q /\ d + j \in DOMAIN q /\ d + i < d + j /\ s[i] = q[d + i] /\ s[j] = q[d + j]
    BY <1>1, <1>3
  <2>3. Picture(Level(q[d + i]))[r] = Picture(Level(q[d + j]))[r]
    BY <2>1, <2>2 DEF Linked
  <2>4. QED
    BY <2>2, <2>3
<1>4. QED
  BY <1>2, <1>3 DEF Linked

\* An update is added that has all that differs from the last one's picture.
LEMMA AppendToStream ==
    ASSUME NEW q \in Seq(Updates), Shots(q), Linked(q), NEW m \in Updates,
           Level(m) \in 0..Len(changes), \A r \in DOMAIN m : m[r] = Picture(Level(m))[r],
           q # <<>> => \A r \in Regions \ DOMAIN m : Picture(Level(q[Len(q)]))[r] = Picture(Level(m))[r]
    PROVE  Shots(Append(q, m)) /\ Linked(Append(q, m))
<1> DEFINE s == Append(q, m)
<1>1. /\ DOMAIN q = 1..Len(q) /\ Len(q) \in Nat /\ DOMAIN s = 1..Len(q) + 1
      /\ \A i \in 1..Len(q) : s[i] = q[i]
      /\ s[Len(q) + 1] = m
  OBVIOUS
<1> HIDE DEF s
<1>2. \A i \in 1..Len(q) + 1 : i \in 1..Len(q) \/ i = Len(q) + 1
  BY <1>1
<1>3. Shots(s)
  BY <1>1, <1>2 DEF Shots
<1>4. ASSUME NEW i \in DOMAIN s, NEW j \in DOMAIN s, NEW r \in Regions,
             i < j, \A k \in i + 1..j : r \notin DOMAIN s[k]
      PROVE  Picture(Level(s[i]))[r] = Picture(Level(s[j]))[r]
  <2>1. i \in 1..Len(q) /\ s[i] = q[i]
    BY <1>1, <1>4
  <2>2. CASE j \in 1..Len(q)
    <3>1. \A k \in i + 1..j : r \notin DOMAIN q[k]
      <4>1. \A k \in i + 1..j : k \in 1..Len(q)
        BY <1>1, <2>1, <2>2
      <4>2. QED
        BY <1>1, <1>4, <4>1
    <3>2. s[j] = q[j] /\ i \in DOMAIN q /\ j \in DOMAIN q
      BY <1>1, <2>1, <2>2
    <3>3. Picture(Level(q[i]))[r] = Picture(Level(q[j]))[r]
      BY <1>4, <3>1, <3>2 DEF Linked
    <3>4. QED
      BY <2>1, <3>2, <3>3
  <2>3. CASE j = Len(q) + 1
    <3>1. s[j] = m /\ r \notin DOMAIN m
      <4>1. j \in i + 1..j
        BY <1>1, <2>1, <2>3
      <4>2. QED
        BY <1>1, <1>4, <2>3, <4>1
    <3>2. q # <<>> /\ Len(q) \in DOMAIN q /\ i \in DOMAIN q /\ i <= Len(q)
      BY <1>1, <2>1
    <3>3. Picture(Level(q[Len(q)]))[r] = Picture(Level(m))[r]
      BY <3>1, <3>2
    <3>4. Picture(Level(q[i]))[r] = Picture(Level(q[Len(q)]))[r]
      <4>1. CASE i = Len(q)
        BY <4>1
      <4>2. CASE i < Len(q)
        <5>1. \A k \in i + 1..Len(q) : k \in i + 1..j /\ k \in 1..Len(q)
          BY <1>1, <2>1, <2>3
        <5>2. \A k \in i + 1..Len(q) : r \notin DOMAIN q[k]
          BY <1>1, <1>4, <5>1
        <5>3. QED
          BY <3>2, <4>2, <5>2 DEF Linked
      <4>3. QED
        BY <1>1, <2>1, <3>2, <4>1, <4>2
    <3>5. QED
      BY <2>1, <3>1, <3>3, <3>4
  <2>4. QED
    BY <1>1, <1>2, <2>2, <2>3
<1>5. Linked(s)
  BY <1>4 DEF Linked
<1>6. QED
  BY <1>3, <1>5 DEF s

\* What was on the screen remains so; the screen changes where it is changed.
LEMMA PicturesStay ==
    ASSUME TypeOK, NEW R \in ChangeSets, changes' = Append(changes, R)
    PROVE  /\ \A n \in 0..Len(changes) : Picture(n)' = Picture(n)
           /\ \A r \in Regions \ R : Screen'[r] = Screen[r]
           /\ Len(changes)' = Len(changes) + 1 /\ changes'[Len(changes)'] = R /\ Len(changes) \in Nat
<1>1. changes \in Seq(ChangeSets) /\ Len(changes) \in Nat
  BY DEF TypeOK
<1>2. /\ Len(changes)' = Len(changes) + 1 /\ changes'[Len(changes) + 1] = R
      /\ \A k \in 1..Len(changes) : changes'[k] = changes[k]
  BY <1>1
<1>3. ASSUME NEW n \in 0..Len(changes) PROVE Picture(n)' = Picture(n)
  <2>1. \A k \in 1..n : changes'[k] = changes[k]
    BY <1>1, <1>2
  <2>2. \A r \in Regions : {k \in 1..n : r \in changes'[k]} = {k \in 1..n : r \in changes[k]}
    BY <2>1
  <2>3. QED
    BY <2>2 DEF Picture
<1>4. ASSUME NEW r \in Regions \ R PROVE Screen'[r] = Screen[r]
  <2>1. \A k \in 1..Len(changes) + 1 : k \in 1..Len(changes) \/ k = Len(changes) + 1
    BY <1>1
  <2>2. {k \in 1..Len(changes) + 1 : r \in changes'[k]} = {k \in 1..Len(changes) : r \in changes[k]}
    BY <1>1, <1>2, <2>1
  <2>3. QED
    BY <1>2, <2>2 DEF Screen, Picture
<1>5. QED
  BY <1>1, <1>2, <1>3, <1>4

LEMMA NextStreamValue ==
    ASSUME NEW q, Shots(q), Linked(q), UNCHANGED changes, Stream' = q
    PROVE  Shots(Stream)' /\ Linked(Stream)'
<1>1. \A i \in DOMAIN q : Picture(Level(Stream[i]))' = Picture(Level(q[i]))
  BY DEF Picture
<1>2. Shots(Stream)'
  BY <1>1 DEF Shots
<1>3. Linked(Stream)'
  BY <1>1 DEF Linked
<1>4. QED
  BY <1>2, <1>3

LEMMA ChangeKeepsStream ==
    ASSUME TypeOK, StreamInv, NEW R \in ChangeSets, Change(R)
    PROVE  StreamInv'
<1> DEFINE q == Stream
<1>1. /\ q \in Seq(Updates) /\ DOMAIN q = 1..Len(q) /\ Len(q) \in Nat /\ Shots(q) /\ Linked(q)
  BY StreamFacts DEF StreamInv
<1>2. /\ Stream' = q /\ changes' = Append(changes, R) /\ dirty' = dirty \cup R
      /\ UNCHANGED <<requested, inFlight, server>>
  BY DEF Change, Stream, vncVars, serverVars
<1>3. /\ \A n \in 0..Len(changes) : Picture(n)' = Picture(n)
      /\ \A r \in Regions \ R : Screen'[r] = Screen[r]
      /\ Len(changes)' = Len(changes) + 1 /\ changes'[Len(changes)'] = R /\ Len(changes) \in Nat
  BY <1>2, PicturesStay
<1>4. \A i \in DOMAIN q : Level(q[i]) \in 0..Len(changes) /\ Level(q[i]) \in 0..Len(changes)'
  BY <1>1, <1>3 DEF Shots
<1>5. \A i \in DOMAIN q : Picture(Level(q[i]))' = Picture(Level(q[i]))
  <2>1. ASSUME NEW i \in DOMAIN q PROVE Picture(Level(Stream[i]))' = Picture(Level(Stream[i]))
    <3>1. PICK n \in 0..Len(changes) : n = Level(q[i])
      BY <1>4, <2>1
    <3>2. Picture(n)' = Picture(n)
      BY <1>3, <3>1
    <3>3. Level(Stream[i])' = n
      BY <1>2, <3>1
    <3>4. QED
      BY <3>1, <3>2, <3>3 DEF Picture
  <2>2. QED
    BY <2>1
<1>6. Shots(Stream)'
  BY <1>1, <1>2, <1>4, <1>5 DEF Shots
<1>7. Linked(Stream)'
  BY <1>1, <1>2, <1>5 DEF Linked
<1>8. UpToDate'
  <2>1. SUFFICES ASSUME server = "Running", requested # "Full"
                 PROVE  /\ Stream' # <<>>
                        /\ \A r \in Regions \ dirty' : Picture(Level(Stream[Len(Stream)]))'[r] = Screen'[r]
    BY <1>2 DEF UpToDate
  <2>2. q # <<>> /\ \A r \in Regions \ dirty : Picture(Level(q[Len(q)]))[r] = Screen[r]
    BY <2>1 DEF StreamInv, UpToDate
  <2>3. Len(q) \in DOMAIN q
    BY <1>1, <2>2
  <2>4. QED
    BY <1>2, <1>3, <1>5, <2>2, <2>3
<1>9. DirtyIsNew'
  <2>1. changes' # <<>>
    BY <1>2, <1>3
  <2>2. QED
    BY <1>2, <1>3, <2>1 DEF DirtyIsNew
<1>10. IdleUnlessRunning'
  BY <1>2 DEF StreamInv, IdleUnlessRunning
<1>11. QED
  BY <1>6, <1>7, <1>8, <1>9, <1>10 DEF StreamInv

LEMMA SendUpdateKeepsStream ==
    ASSUME TypeOK, StreamInv, SendUpdate
    PROVE  StreamInv'
<1> DEFINE R == IF requested = "Full" THEN Regions ELSE dirty
           n == Len(changes)
           m == Update(R)
           q == Stream
<1>1. /\ changes \in Seq(ChangeSets) /\ n \in 0..Len(changes) /\ n \in Nat
      /\ dirty \subseteq Regions /\ inFlight \in Seq(Updates) /\ messages \in Seq(Updates)
  BY DEF TypeOK
<1>2. R \in SUBSET Regions /\ R # {} /\ (n # 0 => changes[n] \subseteq R)
  <2>1. CASE requested = "Full"
    BY <1>1, <2>1, Constants
  <2>2. CASE requested # "Full"
    BY <1>1, <2>2 DEF SendUpdate, StreamInv, DirtyIsNew
  <2>3. QED
    BY <2>1, <2>2
<1>3. /\ server = "Running" /\ UNCHANGED <<server, changes>> /\ dirty' = {} /\ requested' = "None"
      /\ inFlight' = Append(inFlight, m) /\ UNCHANGED messages
  BY DEF SendUpdate, StreamInv, IdleUnlessRunning, serverVars
<1>4. requested # "Full" /\ q # <<>> => \A r \in Regions \ R : Picture(Level(q[Len(q)]))[r] = Screen[r]
  BY <1>3 DEF StreamInv, UpToDate
<1>5. requested = "Full" => R = Regions
  OBVIOUS
<1> HIDE DEF R
<1>6. m \in Updates
  BY <1>2, UpdateType
<1>7. /\ Level(m) = n /\ \A r \in R : m[r] = Picture(n)[r]
      /\ DOMAIN m = R /\ Screen = Picture(n)
  BY <1>1, <1>2, LevelIs DEF Update, Screen, Restrict
<1>8. q \in Seq(Updates) /\ Shots(q) /\ Linked(q) /\ Len(q) \in Nat
  BY StreamFacts DEF StreamInv
<1>9. Stream' = Append(q, m)
  <2> HIDE DEF m
  <2>1. messages \o Append(inFlight, m) = Append(messages \o inFlight, m)
    BY <1>1, <1>6
  <2>2. QED
    BY <1>3, <2>1 DEF Stream
<1> HIDE DEF n, m, q
<1>10. q # <<>> => \A r \in Regions \ DOMAIN m : Picture(Level(q[Len(q)]))[r] = Picture(Level(m))[r]
  BY <1>4, <1>5, <1>7
<1>11. Shots(Append(q, m)) /\ Linked(Append(q, m))
  BY <1>1, <1>6, <1>7, <1>8, <1>10, AppendToStream DEF n
<1>12. Shots(Stream)' /\ Linked(Stream)'
  BY <1>3, <1>9, <1>11, NextStreamValue
<1>13. UpToDate'
  <2>1. Stream' # <<>> /\ Stream'[Len(Stream')] = m
    BY <1>6, <1>8, <1>9
  <2>2. Level(Stream[Len(Stream)])' = Len(changes')
    BY <1>3, <1>7, <2>1 DEF n
  <2>3. \A r \in Regions \ dirty' : Picture(Level(Stream[Len(Stream)]))'[r] = Screen'[r]
    BY <2>2 DEF Picture, Screen
  <2>4. QED
    BY <2>1, <2>3 DEF UpToDate
<1>14. DirtyIsNew' /\ IdleUnlessRunning'
  BY <1>3 DEF DirtyIsNew, IdleUnlessRunning
<1>15. QED
  BY <1>12, <1>13, <1>14 DEF StreamInv

LEMMA ReceiveKeepsStream ==
    ASSUME TypeOK, StreamInv, ReceiveUpdate
    PROVE  StreamInv'
<1> DEFINE h == Head(inFlight)
           q == Stream
<1>1. /\ messages \in Seq(Updates) /\ Len(messages) \in Nat
      /\ inFlight \in Seq(Updates) /\ Len(inFlight) \in Nat /\ inFlight # <<>>
  BY DEF TypeOK, ReceiveUpdate
<1>2. /\ h \in Updates /\ Enqueue(h) /\ inFlight' = Tail(inFlight)
      /\ server = "Running" /\ UNCHANGED <<changes, dirty, requested, server>>
  BY <1>1, NextInFlight DEF ReceiveUpdate, screenVars
<1>3. /\ q \in Seq(Updates) /\ Shots(q) /\ Linked(q) /\ Len(q) = Len(messages) + Len(inFlight)
      /\ \A i \in 1..Len(inFlight) : q[Len(messages) + i] = inFlight[i]
  BY StreamFacts DEF StreamInv
<1>4. /\ Stream' = q \/ Stream' = inFlight
      /\ Stream' # <<>> /\ Stream'[Len(Stream')] = q[Len(q)]
  <2>1. CASE StartsKeyFrame(h)
    <3>1. messages' = <<h>>
      BY <1>2, <2>1 DEF Enqueue
    <3>2. <<Head(inFlight)>> \o Tail(inFlight) = inFlight
      BY <1>1
    <3>3. Stream' = inFlight
      BY <1>2, <3>1, <3>2 DEF Stream
    <3>4. q[Len(q)] = inFlight[Len(inFlight)]
      BY <1>1, <1>3
    <3>5. QED
      BY <1>1, <3>3, <3>4
  <2>2. CASE ~StartsKeyFrame(h)
    <3>1. messages' = Append(messages, h)
      BY <1>2, <2>2 DEF Enqueue
    <3>2. Append(messages, Head(inFlight)) \o Tail(inFlight) = messages \o inFlight
      BY <1>1
    <3>3. Stream' = q /\ q # <<>>
      BY <1>1, <1>2, <1>3, <3>1, <3>2 DEF Stream
    <3>4. QED
      BY <3>3
  <2>3. QED
    BY <2>1, <2>2
<1> HIDE DEF q
<1>5. Shots(inFlight) /\ Linked(inFlight)
  BY <1>1, <1>3, PartOfStream
<1>6. Shots(Stream)' /\ Linked(Stream)'
  BY <1>2, <1>3, <1>4, <1>5, NextStreamValue
<1>7. UpToDate'
  <2>1. SUFFICES ASSUME requested # "Full"
                 PROVE  \A r \in Regions \ dirty' : Picture(Level(Stream[Len(Stream)]))'[r] = Screen'[r]
    BY <1>2, <1>4 DEF UpToDate
  <2>2. \A r \in Regions \ dirty : Picture(Level(q[Len(q)]))[r] = Screen[r]
    BY <1>2, <2>1 DEF StreamInv, UpToDate, q
  <2>3. Picture(Level(Stream[Len(Stream)]))' = Picture(Level(q[Len(q)])) /\ Screen' = Screen
    BY <1>2, <1>4 DEF Picture, Screen
  <2>4. QED
    BY <1>2, <2>2, <2>3
<1>8. DirtyIsNew' /\ IdleUnlessRunning'
  BY <1>2 DEF StreamInv, DirtyIsNew, IdleUnlessRunning
<1>9. QED
  BY <1>6, <1>7, <1>8 DEF StreamInv

\* The connection to the VNC server, or the process, ends: what was on its way is lost.
LEMMA EndKeepsStream ==
    ASSUME TypeOK, StreamInv, UNCHANGED <<changes, dirty>>, messages' \in {messages, <<>>},
           inFlight' = <<>>, requested' = "None", server' # "Running"
    PROVE  StreamInv'
<1>1. messages \in Seq(Updates) /\ Len(messages) \in Nat /\ Len(inFlight) \in Nat /\ <<>> \in Seq(Updates)
  BY DEF TypeOK
<1>2. /\ Stream \in Seq(Updates) /\ Shots(Stream) /\ Linked(Stream)
      /\ Len(Stream) = Len(messages) + Len(inFlight)
      /\ \A i \in 1..Len(messages) : Stream[i] = messages[i]
  BY StreamFacts DEF StreamInv
<1>3. Stream' = messages'
  <2>1. messages' \in Seq(Updates)
    BY <1>1
  <2>2. messages' \o <<>> = messages'
    BY <2>1
  <2>3. QED
    BY <2>2 DEF Stream
<1>4. Shots(messages) /\ Linked(messages)
  <2>1. /\ 0 \in Nat /\ 0 + Len(messages) <= Len(Stream)
        /\ \A i \in 1..Len(messages) : messages[i] = Stream[0 + i]
    BY <1>1, <1>2
  <2>2. QED
    BY <1>1, <1>2, <2>1, PartOfStream
<1>5. Shots(<<>>) /\ Linked(<<>>)
  BY DEF Shots, Linked
<1>6. Shots(Stream)' /\ Linked(Stream)'
  BY <1>3, <1>4, <1>5, NextStreamValue
<1>7. UpToDate' /\ DirtyIsNew' /\ IdleUnlessRunning'
  BY DEF StreamInv, UpToDate, DirtyIsNew, IdleUnlessRunning
<1>8. QED
  BY <1>6, <1>7 DEF StreamInv

\* Steps that leave the stream alone.
LEMMA SameStreamKept ==
    ASSUME StreamInv, UNCHANGED <<changes, dirty, messages, inFlight>>,
           server' = "Running" /\ requested' # "Full" => server = "Running" /\ requested # "Full",
           server' # "Running" => requested' = "None" /\ inFlight' = <<>>
    PROVE  StreamInv'
<1>1. Stream' = Stream /\ Shots(Stream) /\ Linked(Stream)
  BY DEF Stream, StreamInv
<1>2. Shots(Stream)' /\ Linked(Stream)'
  BY <1>1, NextStreamValue
<1>3. UpToDate'
  <2>1. SUFFICES ASSUME server' = "Running", requested' # "Full"
                 PROVE  /\ Stream' # <<>>
                        /\ \A r \in Regions \ dirty' : Picture(Level(Stream[Len(Stream)]))'[r] = Screen'[r]
    BY DEF UpToDate
  <2>2. Stream # <<>> /\ \A r \in Regions \ dirty : Picture(Level(Stream[Len(Stream)]))[r] = Screen[r]
    BY <2>1 DEF StreamInv, UpToDate
  <2>3. Picture(Level(Stream[Len(Stream)]))' = Picture(Level(Stream[Len(Stream)])) /\ Screen' = Screen
    BY <1>1 DEF Picture, Screen
  <2>4. QED
    BY <1>1, <2>2, <2>3
<1>4. DirtyIsNew' /\ IdleUnlessRunning'
  BY DEF StreamInv, DirtyIsNew, IdleUnlessRunning
<1>5. QED
  BY <1>2, <1>3, <1>4 DEF StreamInv

LEMMA NextStreamInv == TypeOK /\ StreamInv /\ [Next]_vars => StreamInv'
<1> SUFFICES ASSUME TypeOK, StreamInv, [Next]_vars PROVE StreamInv'
  OBVIOUS
<1> USE DEF screenVars, vncVars, serverVars
<1>0. server # "Running" => requested = "None" /\ inFlight = <<>>
  BY DEF StreamInv, IdleUnlessRunning
<1>1. CASE UNCHANGED vars
  BY <1>0, <1>1, SameStreamKept DEF vars
<1>2. CASE \E R \in ChangeSets : Change(R)
  BY <1>2, ChangeKeepsStream
<1>3. CASE SendUpdate
  BY <1>3, SendUpdateKeepsStream
<1>4. CASE \E elapsed \in BOOLEAN : RequestFramebufferUpdate(elapsed)
  <2>1. /\ server = "Running" /\ UNCHANGED <<changes, dirty, messages, inFlight, server>>
        /\ requested = "Full" => requested' = "Full"
    BY <1>4 DEF RequestFramebufferUpdate
  <2>2. QED
    BY <2>1, SameStreamKept
<1>5. CASE ReceiveUpdate
  BY <1>5, ReceiveKeepsStream
<1>6. CASE Crash \/ LoseVncServer
  BY <1>6, EndKeepsStream DEF Crash, LoseVncServer
<1>7. CASE StartDemoServer \/ ReconnectFails
  BY <1>0, <1>7, SameStreamKept DEF StartDemoServer, ReconnectFails
<1>8. CASE Start
  BY <1>8, SameStreamKept DEF Start
<1>9. CASE \E v \in Viewers : Viewer(v)
  BY <1>0, <1>9, SameStreamKept DEF Viewer, IncomingConnection, Authenticate, SendFramebufferUpdate, Leave
<1>10. QED
  BY <1>1, <1>2, <1>3, <1>4, <1>5, <1>6, <1>7, <1>8, <1>9 DEF Next

-----------------------------------------------------------------------------
(* What viewers show                                                       *)

LEMMA MessagesAreStream ==
    ASSUME TypeOK, StreamInv
    PROVE  /\ messages \in Seq(Updates) /\ Len(messages) \in Nat
           /\ Shots(messages) /\ Linked(messages)
           /\ \A i \in 1..Len(messages) : Level(messages[i]) \in 0..Len(changes)
<1>1. messages \in Seq(Updates) /\ Len(messages) \in Nat /\ Len(inFlight) \in Nat
  BY DEF TypeOK
<1>2. /\ Stream \in Seq(Updates) /\ Shots(Stream) /\ Linked(Stream)
      /\ Len(Stream) = Len(messages) + Len(inFlight)
      /\ \A i \in 1..Len(messages) : Stream[i] = messages[i]
  BY StreamFacts DEF StreamInv
<1>3. /\ 0 \in Nat /\ 0 + Len(messages) <= Len(Stream)
      /\ \A i \in 1..Len(messages) : messages[i] = Stream[0 + i]
  BY <1>1, <1>2
<1>4. Shots(messages) /\ Linked(messages)
  BY <1>1, <1>2, <1>3, PartOfStream
<1>5. QED
  BY <1>1, <1>4 DEF Shots

\* A viewer is sent all there is.
LEMMA SentIsShot ==
    ASSUME PInv, NEW v \in Viewers, messages # <<>>, IsWhole(messages[1])
    PROVE  [r \in Regions |-> Sent(v, r)] = Picture(Level(messages[Len(messages)]))
<1> DEFINE last == Len(messages)
<1>1. /\ messages \in Seq(Updates) /\ last \in Nat /\ last # 0 /\ DOMAIN messages = 1..last
      /\ Shots(messages) /\ Linked(messages)
  BY MessagesAreStream DEF PInv
<1> HIDE DEF last
<1>2. ASSUME NEW r \in Regions, NEW i \in 1..last, \A k \in i + 1..last : r \notin DOMAIN messages[k]
      PROVE  Picture(Level(messages[i]))[r] = Picture(Level(messages[last]))[r]
  <2>1. CASE i = last
    BY <2>1
  <2>2. CASE i < last
    BY <1>1, <1>2, <2>2 DEF Linked
  <2>3. QED
    BY <1>1, <2>1, <2>2
<1>3. ASSUME NEW r \in Regions
      PROVE  Sent(v, r) = Picture(Level(messages[last]))[r]
  <2>1. /\ Position(v) \in 0..last
        /\ \/ /\ \A i \in Position(v) + 1..last : r \notin DOMAIN messages[i]
              /\ Sent(v, r) = shown[v][r]
           \/ \E i \in Position(v) + 1..last :
                  /\ r \in DOMAIN messages[i] /\ Sent(v, r) = messages[i][r]
                  /\ \A k \in i + 1..last : r \notin DOMAIN messages[k]
    BY SentFacts DEF PInv, last
  <2>2. CASE /\ \A i \in Position(v) + 1..last : r \notin DOMAIN messages[i]
             /\ Sent(v, r) = shown[v][r]
    <3>1. Position(v) # 0
      <4>1. r \in DOMAIN messages[1]
        BY DEF IsWhole
      <4>2. Position(v) = 0 => 1 \in Position(v) + 1..last
        BY <1>1
      <4>3. QED
        BY <2>2, <4>1, <4>2
    <3>2. viewer[v].synced /\ Position(v) = viewer[v].index /\ Position(v) \in 1..last
      BY <2>1, <3>1 DEF Position
    <3>3. shown[v] = Picture(Level(messages[Position(v)]))
      BY <3>2 DEF PInv, SyncedIsShot
    <3>4. QED
      BY <1>2, <2>2, <3>2, <3>3
  <2>3. ASSUME NEW i \in Position(v) + 1..last,
               r \in DOMAIN messages[i], Sent(v, r) = messages[i][r],
               \A k \in i + 1..last : r \notin DOMAIN messages[k]
        PROVE  Sent(v, r) = Picture(Level(messages[last]))[r]
    <3>1. i \in 1..last
      BY <1>1, <2>1
    <3>2. messages[i][r] = Picture(Level(messages[i]))[r]
      BY <1>1, <2>3, <3>1 DEF Shots
    <3>3. QED
      BY <1>2, <2>3, <3>1, <3>2
  <2>4. QED
    BY <2>1, <2>2, <2>3
<1>4. QED
  BY <1>3 DEF Picture, last

LEMMA NextSyncedIsShot == PInv /\ [Next]_vars => SyncedIsShot'
<1> SUFFICES ASSUME PInv, [Next]_vars,
                    NEW v \in Viewers, viewer'[v].synced, messages' # <<>>, IsWhole(messages'[1])
             PROVE  /\ viewer'[v].index \in 1..Len(messages')
                    /\ shown'[v] = Picture(Level(messages[viewer[v].index]))'
  BY DEF SyncedIsShot, IsWhole
<1> USE DEF screenVars, vncVars, serverVars
<1>1. /\ messages \in Seq(Updates) /\ Len(messages) \in Nat /\ viewer \in [Viewers -> ViewerRecords]
      /\ shown \in [Viewers -> [Regions -> Nothing..MaxChanges]]
      /\ \A i \in 1..Len(messages) : Level(messages[i]) \in 0..Len(changes)
  BY MessagesAreStream DEF PInv, TypeOK, ViewerRecords
<1>2. viewer[v].synced /\ messages # <<>> /\ IsWhole(messages[1]) =>
        /\ viewer[v].index \in 1..Len(messages)
        /\ shown[v] = Picture(Level(messages[viewer[v].index]))
  BY DEF PInv, SyncedIsShot
\* Nothing happens to this viewer, and its update remains where it is.
<1>3. ASSUME viewer'[v] = viewer[v], shown'[v] = shown[v], UNCHANGED changes,
             messages # <<>>, messages'[1] = messages[1], Len(messages') \in Nat, Len(messages) <= Len(messages'),
             \A i \in 1..Len(messages) : messages'[i] = messages[i]
      PROVE  /\ viewer'[v].index \in 1..Len(messages')
             /\ shown'[v] = Picture(Level(messages[viewer[v].index]))'
  <2>1. /\ viewer[v].index \in 1..Len(messages)
        /\ shown[v] = Picture(Level(messages[viewer[v].index]))
    BY <1>2, <1>3
  <2>2. messages'[viewer'[v].index] = messages[viewer[v].index]
    BY <1>3, <2>1
  <2>3. Picture(Level(messages[viewer[v].index]))' = Picture(Level(messages[viewer[v].index]))
    BY <1>3, <2>2 DEF Picture
  <2>4. QED
    BY <1>1, <1>3, <2>1, <2>3
<1>4. ASSUME UNCHANGED <<viewer, shown, changes, messages>>
      PROVE  /\ viewer'[v].index \in 1..Len(messages')
             /\ shown'[v] = Picture(Level(messages[viewer[v].index]))'
  BY <1>1, <1>3, <1>4
<1>5. ASSUME NEW R \in ChangeSets, Change(R)
      PROVE  /\ viewer'[v].index \in 1..Len(messages')
             /\ shown'[v] = Picture(Level(messages[viewer[v].index]))'
  <2>1. UNCHANGED <<viewer, shown, messages>> /\ changes' = Append(changes, R)
    BY <1>5 DEF Change
  <2>2. /\ viewer[v].index \in 1..Len(messages)
        /\ shown[v] = Picture(Level(messages[viewer[v].index]))
    BY <1>2, <2>1
  <2>3. PICK n \in 0..Len(changes) : n = Level(messages[viewer[v].index])
    BY <1>1, <2>2
  <2>4. Picture(n)' = Picture(n)
    BY <2>1, PicturesStay DEF PInv
  <2>5. Level(messages[viewer[v].index])' = n
    BY <2>1, <2>3
  <2>6. QED
    BY <2>1, <2>2, <2>3, <2>4, <2>5 DEF Picture
<1>6. CASE ReceiveUpdate
  <2> DEFINE h == Head(inFlight)
  <2>1. h \in Updates /\ Enqueue(h) /\ UNCHANGED <<shown, changes>>
    BY <1>6, NextInFlight DEF ReceiveUpdate, PInv
  <2>2. ~StartsKeyFrame(h)
    <3>1. [viewer[v] EXCEPT !.synced = FALSE].synced = FALSE
      BY <1>1 DEF ViewerRecords
    <3>2. QED
      BY <2>1, <3>1 DEF Enqueue
  <2>3. messages' = Append(messages, h) /\ viewer'[v] = viewer[v] /\ ~IsWhole(h)
    BY <2>1, <2>2, Constants DEF Enqueue, StartsKeyFrame, IsFullUpdate, IsWhole
  <2> HIDE DEF h
  <2>4. messages # <<>>
    <3>1. messages = <<>> => messages'[1] = h
      BY <2>1, <2>3
    <3>2. QED
      BY <2>3, <3>1
  <2>5. /\ Len(messages') = Len(messages) + 1 /\ 1 \in 1..Len(messages)
        /\ \A i \in 1..Len(messages) : messages'[i] = messages[i]
    BY <1>1, <2>1, <2>3, <2>4
  <2>6. QED
    BY <1>1, <1>3, <2>1, <2>3, <2>4, <2>5
<1>7. CASE Crash
  BY <1>7 DEF Crash
<1>8. CASE Start
  <2>1. viewer'[v] = viewer[v]
    BY <1>8 DEF Start, Accepted, Away
  <2>2. QED
    BY <1>1, <1>3, <1>8, <2>1 DEF Start
<1>9. ASSUME NEW w \in Viewers, Viewer(w), w # v
      PROVE  /\ viewer'[v].index \in 1..Len(messages')
             /\ shown'[v] = Picture(Level(messages[viewer[v].index]))'
  <2>1. viewer'[v] = viewer[v] /\ shown'[v] = shown[v] /\ UNCHANGED <<changes, messages>>
    BY <1>1, <1>9 DEF Viewer, IncomingConnection, Authenticate, SendFramebufferUpdate, Leave
  <2>2. QED
    BY <1>1, <1>3, <2>1
<1>10. CASE Viewer(v)
  <2>1. CASE IncomingConnection(v) \/ Leave(v)
    <3> DEFINE Pending == [Away EXCEPT !.state = "Pending"]
    <3>1. ~Away.synced /\ ~Accepted.synced /\ ~Pending.synced
      BY DEF Accepted, Away
    <3> HIDE DEF Pending
    <3>2. viewer'[v] \in {Away, Accepted, Pending}
      BY <1>1, <2>1 DEF IncomingConnection, Leave, Pending
    <3>3. QED
      BY <1>1, <3>1, <3>2
  <2>2. CASE Authenticate(v)
    <3>1. viewer'[v].index = viewer[v].index /\ viewer'[v].synced = viewer[v].synced
      BY <1>1, <2>2 DEF Authenticate, ViewerRecords
    <3>2. UNCHANGED <<changes, messages, shown>>
      BY <2>2 DEF Authenticate
    <3>3. QED
      BY <1>2, <3>1, <3>2 DEF Picture
  <2>3. CASE SendFramebufferUpdate(v)
    <3>1. UNCHANGED <<changes, messages>> /\ shown'[v] = [r \in Regions |-> Sent(v, r)]
      BY <1>1, <2>3 DEF SendFramebufferUpdate
    <3>2. viewer'[v].index = Len(messages)
      BY <1>1, <2>3 DEF SendFramebufferUpdate, ViewerRecords
    <3>3. shown'[v] = Picture(Level(messages[Len(messages)]))
      BY <3>1, SentIsShot
    <3>4. Len(messages) \in 1..Len(messages)
      BY <1>1, <3>1
    <3>5. QED
      BY <3>1, <3>2, <3>3, <3>4 DEF Picture
  <2>4. QED
    BY <1>10, <2>1, <2>2, <2>3 DEF Viewer
<1>11. QED
  BY <1>4, <1>5, <1>6, <1>7, <1>8, <1>9, <1>10
     DEF Next, vars, SendUpdate, RequestFramebufferUpdate, StartDemoServer, LoseVncServer, ReconnectFails

\* While the queue starts with an update of the whole screen, whoever has been sent
\* some of it shows a picture that was on the screen, however viewers come and lag
\* behind, key frames follow each other and the VNC server's connection breaks.
THEOREM PictureCorrect == Spec => []PictureWasOnScreen
<1>1. Init => PInv
  <2>1. Init => Stream = <<>> /\ messages = <<>>
    BY DEF Init, Stream
  <2>2. Init => StreamInv
    BY <2>1 DEF Init, StreamInv, Shots, Linked, UpToDate, DirtyIsNew, IdleUnlessRunning
  <2>3. QED
    BY <2>1, <2>2, InitType DEF PInv, SyncedIsShot
<1>2. PInv /\ [Next]_vars => PInv'
  BY NextType, NextStreamInv, NextSyncedIsShot DEF PInv
<1>3. PInv => PictureWasOnScreen
  <2> SUFFICES ASSUME PInv, NEW v \in Viewers, viewer[v].synced, messages # <<>>, IsWhole(messages[1])
               PROVE  shown[v] = Picture(Max(Range(shown[v])))
    BY DEF PictureWasOnScreen
  <2>1. viewer[v].index \in 1..Len(messages) /\ shown[v] = Picture(Level(messages[viewer[v].index]))
    BY DEF PInv, SyncedIsShot
  <2>2. PICK n \in 0..Len(changes) : n = Level(messages[viewer[v].index])
    BY <2>1, MessagesAreStream DEF PInv
  <2>3. Max(Range(Picture(n))) = n
    BY LevelOfPicture DEF PInv, TypeOK
  <2>4. QED
    BY <2>1, <2>2, <2>3
<1>4. QED
  BY <1>1, <1>2, <1>3, PTL DEF Spec
=============================================================================
