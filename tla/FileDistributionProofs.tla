------------------------ MODULE FileDistributionProofs ------------------------
(* Theorems about FileDistribution, for any computers, files and bounds.   *)
EXTENDS FileDistribution, TLAPS

-----------------------------------------------------------------------------
(* Types                                                                   *)

LEMMA SizeFacts ==
    /\ \A f \in Files : /\ Size[f] \in Nat \ {0}
                        /\ \A n \in Nat : n # 0 /\ n <= Size[f] => n \in ChunkNumbers
    /\ \A n \in ChunkNumbers : n \in Nat /\ n # 0
    /\ 1 \in ChunkNumbers
<1>1. \A f \in Files : Size[f] \in Nat \ {0}
  BY FileDistributionAssumption
<1>2. \A f \in Files, n \in Nat : n # 0 /\ n <= Size[f] => n \in ChunkNumbers
  BY <1>1 DEF ChunkNumbers
<1>3. \A n \in ChunkNumbers : n \in Nat /\ n # 0
  BY <1>1 DEF ChunkNumbers
<1>4. 1 \in ChunkNumbers
  <2>1. PICK f \in Files : TRUE
    BY FileDistributionAssumption
  <2>2. 1 <= Size[f]
    BY <1>1
  <2>3. QED
    BY <1>2, <2>2
<1>5. QED
  BY <1>1, <1>2, <1>3, <1>4

\* The fields of messages, and how messages are made.
LEMMA MessageFacts ==
    /\ \A m \in Messages :
         /\ m.id \in Ids /\ m.number \in {0} \cup ChunkNumbers
         /\ m.type \in {"Start", "Data"} => m.id # NoId
         /\ m.type = "Data" => m.number \in ChunkNumbers
         /\ m.type # "Data" => m.number = 0
    /\ \A id \in Ids :
         /\ id # NoId => Message("Start", id) \in Messages
         /\ \A n \in ChunkNumbers : id # NoId => DataMessage(id, n) \in Messages
         /\ \A type \in {"Finish", "Cancel", "StopWorker"} : Message(type, id) \in Messages
BY DEF Messages, Message, DataMessage

\* More transfers, more of everything.
LEMMA MoreTransfers ==
    ASSUME Len(transfers) \in Nat, Len(transfers)' \in Nat, Len(transfers) <= Len(transfers)'
    PROVE  /\ Ids \subseteq Ids' /\ Messages \subseteq Messages'
           /\ CurrentRecords \subseteq CurrentRecords' /\ Chunks \subseteq Chunks'
<1>1. Ids \subseteq Ids'
  BY DEF Ids
<1>2. QED
  BY <1>1 DEF Messages, CurrentRecords, Chunks

LEMMA SequencesOfMore == ASSUME NEW S, NEW T, S \subseteq T PROVE Seq(S) \subseteq Seq(T)
OBVIOUS

FileRecords == [present : BOOLEAN, chunks : Seq(Chunks)]

\* The types in two parts: what the controller keeps, and all else.
ControllerType ==
    /\ files \in Selections \cup {<<>>} /\ index \in 1..(Len(files) + 1)
    /\ fileState \in {"Open", "Transferring", "Finished"}
    /\ running \in BOOLEAN /\ overwrite \in BOOLEAN /\ checked \in BOOLEAN
    /\ transferId \in Ids
    /\ reader \in [active : BOOLEAN, pos : {0} \cup ChunkNumbers, ready : BOOLEAN]
    /\ transfers \in Seq([file : Files, overwrite : BOOLEAN, cancelled : BOOLEAN])
    /\ runs \in 0..MaxRuns
ComputersType ==
    /\ link \in [Computers -> {"Up", "Failing", "Down"}] /\ loggedOn \in [Computers -> BOOLEAN]
    /\ queue \in [Computers -> Seq(Messages)]
    /\ inbox \in [Computers -> Seq(Messages)] /\ retries \in [Computers -> SUBSET Messages]
    /\ worker \in [Computers -> {"None", "Running", "Quitting"}]
    /\ current \in [Computers -> CurrentRecords]
    /\ disk \in [Computers -> [Files -> FileRecords]]
    /\ lost \subseteq Computers \X Ids /\ late \subseteq Computers \X Ids
    /\ faults \in 0..MaxEvents

LEMMA TypeParts == TypeOK <=> ControllerType /\ ComputersType
BY DEF TypeOK, ControllerType, ComputersType, FileRecords

-----------------------------------------------------------------------------
(* The invariant                                                           *)

\* What the controller's variables say of each other: a file that is read is the
\* current one, its transfer the last one started, and its next chunk is not sent.
Reading ==
    /\ files \in Seq(Files)
    /\ running => index <= Len(files)
    /\ reader.ready => reader.active
    /\ checked => running /\ fileState = "Transferring" /\ reader.ready
    /\ running /\ fileState = "Transferring" => reader.active
    /\ reader.active =>
         /\ running /\ fileState # "Open"
         /\ transferId = Len(transfers) /\ transferId # NoId
         /\ reader.pos <= Size[files[index]]
         /\ reader.ready => reader.pos # 0
         /\ fileState = "Transferring" /\ ~reader.ready => reader.pos < Size[files[index]]

\* Of two pieces of one transfer, x is an earlier chunk than y.  (Only pieces with a
\* number are chunks, and messages put back, those of the transfers in L, come late.)
Earlier(L, c, x, y) ==
    (x.id = y.id /\ x.number # 0 /\ y.number # 0 /\ <<c, x.id>> \notin L) => x.number < y.number
Sorted(L, c, s)     == \A i, j \in DOMAIN s : i < j => Earlier(L, c, s[i], s[j])
Precedes(L, c, s, t) == \A x \in Range(s), y \in Range(t) : Earlier(L, c, x, y)

\* What has been written to each file of d, what the worker has not read yet (i) and
\* what the connection has not sent yet (q) are in order.
InLine(L, c, d, i, q) ==
    /\ Sorted(L, c, i) /\ Sorted(L, c, q) /\ Precedes(L, c, i, q)
    /\ \A f \in Files : /\ Sorted(L, c, d[f].chunks)
                        /\ Precedes(L, c, d[f].chunks, i) /\ Precedes(L, c, d[f].chunks, q)

\* All that has been sent to c and is not gone.
Pieces(c) == Range(inbox[c]) \cup Range(queue[c]) \cup UNION {Range(disk[c][f].chunks) : f \in Files}

\* No chunk after the one the reader is at has been sent, nor has this one if it
\* is still to be sent.
NotAhead(c) ==
    reader.active => \A x \in Pieces(c) :
        x.id = transferId /\ <<c, x.id>> \notin late =>
            /\ x.number <= reader.pos
            /\ reader.ready /\ fileState = "Transferring" => x.number < reader.pos

\* The chunks of a file are of one transfer, which is of this file.
OneTransfer(c) ==
    \A f \in Files : \A x, y \in Range(disk[c][f].chunks) :
        x.id = y.id /\ (x.id # NoId => transfers[x.id].file = f)

\* So is the file the worker has open, and it is of the current transfer.
OpenIsOwn(c) ==
    current[c].open =>
        /\ current[c].name \in Files /\ current[c].id # NoId
        /\ transfers[current[c].id].file = current[c].name
        /\ \A x \in Range(disk[c][current[c].name].chunks) : x.id = current[c].id

CInv(c) ==
    /\ InLine(late, c, disk[c], inbox[c], queue[c])
    /\ \A m \in retries[c] : <<c, m.id>> \in late
    /\ NotAhead(c) /\ OneTransfer(c) /\ OpenIsOwn(c)

WInv == Reading /\ \A c \in Computers : CInv(c)
LEMMA InitType == Init => TypeOK /\ Reading
<1> SUFFICES ASSUME Init PROVE TypeOK /\ Reading
  OBVIOUS
<1>1. Len(transfers) = 0 /\ Len(files) = 0 /\ NoId \in Ids
  BY DEF Init, Ids, NoId
<1>2. ControllerType
  <2>1. NoReader \in [active : BOOLEAN, pos : {0} \cup ChunkNumbers, ready : BOOLEAN]
    BY DEF NoReader
  <2>2. <<>> \in Seq([file : Files, overwrite : BOOLEAN, cancelled : BOOLEAN])
    OBVIOUS
  <2>3. 1 \in 1..(Len(files) + 1) /\ 0 \in 0..MaxRuns
    BY <1>1, FileDistributionAssumption
  <2>4. QED
    BY <1>1, <2>1, <2>2, <2>3 DEF Init, ControllerType
<1>3. disk \in [Computers -> [Files -> FileRecords]]
  <2>1. OldChunk \in Chunks
    BY <1>1, SizeFacts DEF OldChunk, Chunks
  <2>2. <<OldChunk>> \in Seq(Chunks) /\ <<>> \in Seq(Chunks)
    BY <2>1
  <2>3. /\ [present |-> TRUE, chunks |-> <<OldChunk>>] \in FileRecords
        /\ [present |-> FALSE, chunks |-> <<>>] \in FileRecords
    BY <2>2 DEF FileRecords
  <2>4. QED
    BY <2>3 DEF Init
<1>4. current \in [Computers -> CurrentRecords]
  <2>1. NoCurrent \in CurrentRecords
    BY <1>1 DEF NoCurrent, CurrentRecords
  <2>2. QED
    BY <2>1 DEF Init
<1>5. ComputersType
  <2>1. <<>> \in Seq(Messages) /\ {} \in SUBSET Messages /\ 0 \in 0..MaxEvents
    BY FileDistributionAssumption
  <2>2. queue \in [Computers -> Seq(Messages)] /\ inbox \in [Computers -> Seq(Messages)]
    BY <2>1 DEF Init
  <2>3. /\ retries \in [Computers -> SUBSET Messages] /\ faults \in 0..MaxEvents
        /\ worker \in [Computers -> {"None", "Running", "Quitting"}]
    BY <2>1 DEF Init
  <2>4. /\ link \in [Computers -> {"Up", "Failing", "Down"}] /\ loggedOn \in [Computers -> BOOLEAN]
        /\ lost \subseteq Computers \X Ids /\ late \subseteq Computers \X Ids
    BY DEF Init
  <2>5. QED
    BY <1>3, <1>4, <2>2, <2>3, <2>4 DEF ComputersType
<1>6. Reading
  BY DEF Init, Reading, NoReader
<1>7. QED
  BY <1>2, <1>5, <1>6, TypeParts

LEMMA ReadingIsTyped ==
    ASSUME TypeOK
    PROVE  /\ files \in Seq(Files) /\ Len(files) \in Nat /\ index \in Nat /\ index # 0
           /\ Len(transfers) \in Nat /\ transferId \in Nat /\ transferId <= Len(transfers)
           /\ index <= Len(files) => files[index] \in Files /\ Size[files[index]] \in Nat \ {0}
           /\ reader.active \in BOOLEAN /\ reader.ready \in BOOLEAN /\ reader.pos \in Nat
<1>1. files \in Seq(Files)
  <2>1. <<>> \in Seq(Files)
    OBVIOUS
  <2>2. QED
    BY <2>1, FileDistributionAssumption DEF TypeOK
<1>2. Len(files) \in Nat /\ index \in 1..(Len(files) + 1) /\ Len(transfers) \in Nat
  BY <1>1 DEF TypeOK
<1>3. index <= Len(files) => files[index] \in Files
  BY <1>1, <1>2
<1>4. reader.active \in BOOLEAN /\ reader.ready \in BOOLEAN /\ reader.pos \in {0} \cup ChunkNumbers
  BY DEF TypeOK
<1>5. reader.pos \in Nat
  BY <1>4, SizeFacts
<1>6. transferId \in Nat /\ transferId <= Len(transfers)
  BY <1>2 DEF TypeOK, Ids
<1>7. QED
  BY <1>1, <1>2, <1>3, <1>4, <1>5, <1>6, SizeFacts

\* What is sent is of the type of messages, and so is what is lost.
LEMMA SendAllType ==
    ASSUME NEW M, NEW I, \A m \in M : m.id \in I, NEW ms \in Seq(M),
           queue \in [Computers -> Seq(M)], lost \subseteq Computers \X I, SendAll(ms)
    PROVE  queue' \in [Computers -> Seq(M)] /\ lost' \subseteq Computers \X I
<1>1. \A c \in Computers : queue[c] \o ms \in Seq(M)
  OBVIOUS
<1>2. queue' \in [Computers -> Seq(M)]
  BY <1>1 DEF SendAll
<1>3. \A c \in Computers : Affected(c, Range(ms)) \subseteq Computers \X I
  <2>1. \A m \in Range(ms) : m \in M
    BY DEF Range
  <2>2. QED
    BY <2>1 DEF Affected
<1>4. lost' \subseteq Computers \X I
  BY <1>3 DEF SendAll
<1>5. QED
  BY <1>2, <1>4

\* The controller's steps leave everything else as it is, but for what they send.
LEMMA ControllerStepType ==
    ASSUME TypeOK, ControllerType', Len(transfers) <= Len(transfers)',
           UNCHANGED <<link, serverVars, workerVars, late, faults>>,
           UNCHANGED <<queue, lost>> \/ \E ms \in Seq(Messages') : SendAll(ms)
    PROVE  TypeOK'
<1> DEFINE M == Messages'
           I == Ids'
<1>1. Len(transfers) \in Nat /\ Len(transfers)' \in Nat
  BY DEF TypeOK, ControllerType
<1>2. Ids \subseteq I /\ Messages \subseteq M /\ CurrentRecords \subseteq CurrentRecords' /\ Chunks \subseteq Chunks'
  BY <1>1, MoreTransfers
<1>3. Seq(Messages) \subseteq Seq(M) /\ FileRecords \subseteq FileRecords'
  <2>1. Seq(Chunks) \subseteq Seq(Chunks')
    BY <1>2, SequencesOfMore
  <2>2. QED
    BY <1>2, <2>1, SequencesOfMore DEF FileRecords
<1>4. \A m \in M : m.id \in I
  BY DEF M, I, Messages
<1>5. queue \in [Computers -> Seq(M)] /\ lost \subseteq Computers \X I
  BY <1>2, <1>3 DEF TypeOK
<1> HIDE DEF M, I
<1>6. queue' \in [Computers -> Seq(M)] /\ lost' \subseteq Computers \X I
  <2>1. CASE UNCHANGED <<queue, lost>>
    BY <1>5, <2>1
  <2>2. ASSUME NEW ms \in Seq(M), SendAll(ms)
        PROVE  queue' \in [Computers -> Seq(M)] /\ lost' \subseteq Computers \X I
    BY <1>4, <1>5, <2>2, SendAllType
  <2>3. QED
    BY <2>1, <2>2 DEF M
<1>7. /\ inbox' \in [Computers -> Seq(M)] /\ retries' \in [Computers -> SUBSET M]
      /\ late' \subseteq Computers \X I
  BY <1>2, <1>3 DEF TypeOK, serverVars
<1>8. /\ current' \in [Computers -> CurrentRecords']
      /\ disk' \in [Computers -> [Files -> FileRecords']]
  BY <1>2, <1>3 DEF TypeOK, workerVars, FileRecords
<1>9. ComputersType'
  BY <1>6, <1>7, <1>8 DEF ComputersType, TypeOK, serverVars, M, I
<1>10. QED
  BY <1>9 DEF TypeOK, ControllerType, ComputersType, FileRecords

\* The controller's steps start at most one transfer, and change no file of another.
TransfersKept ==
    /\ Len(transfers) <= Len(transfers)'
    /\ \A t \in 1..Len(transfers) : transfers'[t].file = transfers[t].file

LEMMA StartRunType ==
    ASSUME TypeOK, Reading, NEW s \in Selections, StartRun(s)
    PROVE  TypeOK' /\ Reading' /\ TransfersKept
<1>1. Len(transfers) \in Nat /\ UNCHANGED transfers
  BY DEF StartRun, TypeOK
<1>2. s \in Seq(Files) /\ s # <<>>
  BY FileDistributionAssumption
<1>3. Len(s) \in Nat /\ 1 <= Len(s) /\ 1 \in 1..(Len(s) + 1)
  BY <1>2
<1>4. runs' \in 0..MaxRuns
  BY FileDistributionAssumption DEF StartRun, TypeOK
<1>5. ControllerType'
  BY <1>3, <1>4 DEF StartRun, TypeOK, ControllerType, Ids
<1>6. TypeOK'
  BY <1>1, <1>5, ControllerStepType DEF StartRun, Controller
<1>7. Reading'
  BY <1>2, <1>3 DEF StartRun, Controller, Reading
<1>8. QED
  BY <1>1, <1>6, <1>7 DEF TransfersKept

LEMMA OpenFileType ==
    ASSUME TypeOK, Reading, OpenFile
    PROVE  TypeOK' /\ Reading' /\ TransfersKept
<1> DEFINE t == [file |-> files[index], overwrite |-> overwrite, cancelled |-> FALSE]
           T == [file : Files, overwrite : BOOLEAN, cancelled : BOOLEAN]
<1>1. /\ files \in Seq(Files) /\ index <= Len(files) /\ files[index] \in Files
      /\ Len(transfers) \in Nat /\ Size[files[index]] \in Nat \ {0}
  BY ReadingIsTyped DEF OpenFile, Reading
<1>2. t \in T /\ transfers \in Seq(T)
  BY <1>1 DEF TypeOK
<1> HIDE DEF t, T
<1>3. /\ Append(transfers, t) \in Seq(T) /\ Len(Append(transfers, t)) = Len(transfers) + 1
      /\ \A i \in 1..Len(transfers) : Append(transfers, t)[i] = transfers[i]
  BY <1>2
<1>4. /\ transfers' = Append(transfers, t) /\ transferId' = Len(transfers) + 1
      /\ reader' = [NoReader EXCEPT !.active = TRUE] /\ fileState' = "Transferring"
      /\ running /\ ~checked
      /\ UNCHANGED <<files, index, running, overwrite, checked, runs>>
      /\ UNCHANGED <<link, serverVars, workerVars, late, faults>>
  BY DEF OpenFile, Controller, t
<1>5. transferId' \in Ids' /\ transferId' # NoId
  BY <1>1, <1>3, <1>4 DEF Ids, NoId
<1>6. reader' \in [active : BOOLEAN, pos : {0} \cup ChunkNumbers, ready : BOOLEAN]
  BY <1>4 DEF NoReader
<1>7. ControllerType'
  BY <1>3, <1>4, <1>5, <1>6 DEF TypeOK, ControllerType, T
<1>8. TransfersKept
  BY <1>1, <1>3, <1>4 DEF TransfersKept
<1>9. \E ms \in Seq(Messages') : SendAll(ms)
  <2>1. Message("Start", transferId') \in Messages'
    BY <1>5 DEF Message, Messages
  <2>2. <<Message("Start", transferId')>> \in Seq(Messages')
    BY <2>1
  <2>3. QED
    BY <2>2 DEF OpenFile
<1>10. TypeOK'
  BY <1>4, <1>7, <1>8, <1>9, ControllerStepType DEF TransfersKept
<1>11. Reading'
  BY <1>1, <1>3, <1>4, <1>5 DEF Reading, NoReader
<1>12. QED
  BY <1>8, <1>10, <1>11

LEMMA ReadChunkType ==
    ASSUME TypeOK, Reading, ReadChunk
    PROVE  TypeOK' /\ Reading' /\ TransfersKept
<1> DEFINE size == Size[files[index]]
           pos  == IF reader.pos < size THEN reader.pos + 1 ELSE reader.pos
<1>1. /\ files[index] \in Files /\ Len(transfers) \in Nat
      /\ size \in Nat \ {0} /\ reader.pos \in Nat /\ reader.pos <= size
  BY ReadingIsTyped DEF ReadChunk, Reading
<1>2. pos \in Nat /\ pos # 0 /\ pos <= size
  BY <1>1
<1>3. pos \in ChunkNumbers
  BY <1>1, <1>2, SizeFacts
<1>4. /\ reader' = [reader EXCEPT !.ready = TRUE, !.pos = pos]
      /\ UNCHANGED <<files, index, fileState, running, transferId, overwrite, checked, transfers, runs, queue, lost>>
      /\ UNCHANGED <<link, serverVars, workerVars, late, faults>>
      /\ reader.active /\ ~reader.ready /\ ~checked
  BY DEF ReadChunk, Controller
<1> HIDE DEF pos
<1>5. reader' = [active |-> reader.active, pos |-> pos, ready |-> TRUE]
  BY <1>4 DEF TypeOK
<1>6. ControllerType'
  BY <1>3, <1>4, <1>5 DEF TypeOK, ControllerType, Ids
<1>7. TypeOK'
  BY <1>1, <1>4, <1>6, ControllerStepType
<1>8. Reading'
  BY <1>2, <1>4, <1>5 DEF Reading
<1>9. QED
  BY <1>1, <1>4, <1>7, <1>8 DEF TransfersKept

LEMMA SendChunkType ==
    ASSUME TypeOK, Reading, SendChunk
    PROVE  /\ TypeOK' /\ Reading' /\ TransfersKept
           /\ DataMessage(transferId, reader.pos) \in Messages
<1>1. /\ files[index] \in Files /\ Len(transfers) \in Nat /\ transferId \in Ids /\ transferId # NoId
      /\ Size[files[index]] \in Nat \ {0} /\ reader.pos \in Nat
      /\ running /\ fileState = "Transferring" /\ reader.ready /\ reader.active
      /\ reader.pos <= Size[files[index]] /\ reader.pos # 0
  BY ReadingIsTyped DEF SendChunk, Reading, TypeOK
<1>2. reader.pos \in ChunkNumbers
  BY <1>1, SizeFacts
<1>3. /\ reader' = [reader EXCEPT !.ready = FALSE] /\ checked' = FALSE
      /\ fileState' = IF reader.pos >= Size[files[index]] THEN "Finished" ELSE "Transferring"
      /\ UNCHANGED <<files, index, running, transferId, overwrite, transfers, runs,
                     link, serverVars, workerVars, late, faults>>
      /\ SendAll(<<DataMessage(transferId, reader.pos)>>)
  BY DEF SendChunk
<1>4. reader' = [active |-> reader.active, pos |-> reader.pos, ready |-> FALSE]
  BY <1>3 DEF TypeOK
<1>5. ControllerType'
  BY <1>2, <1>3, <1>4 DEF TypeOK, ControllerType, Ids
<1>6. DataMessage(transferId, reader.pos) \in Messages
  BY <1>1, <1>2, MessageFacts
<1>7. Messages' = Messages
  BY <1>3 DEF Messages, Ids
<1>8. \E ms \in Seq(Messages') : SendAll(ms)
  <2>1. <<DataMessage(transferId, reader.pos)>> \in Seq(Messages')
    BY <1>6, <1>7
  <2>2. QED
    BY <1>3, <2>1
<1>9. TypeOK'
  BY <1>1, <1>3, <1>5, <1>8, ControllerStepType
<1>10. Reading'
  BY <1>1, <1>3, <1>4 DEF Reading
<1>11. QED
  BY <1>1, <1>3, <1>6, <1>9, <1>10 DEF TransfersKept

\* The messages at the end of a file and of a run.
LastMessages ==
    (IF reader.active THEN <<Message("Finish", transferId)>> ELSE <<>>)
      \o (IF index >= Len(files) THEN <<Message("StopWorker", NoId)>> ELSE <<>>)

LEMMA FinishFileType ==
    ASSUME TypeOK, Reading, FinishFile
    PROVE  TypeOK' /\ Reading' /\ TransfersKept /\ LastMessages \in Seq(Messages) /\ SendAll(LastMessages)
<1>1. /\ Len(transfers) \in Nat /\ Len(files) \in Nat /\ index \in Nat /\ index # 0 /\ index <= Len(files)
      /\ files \in Seq(Files) /\ NoId \in Ids
  BY ReadingIsTyped DEF FinishFile, Reading, Ids, NoId
<1>2. /\ SendAll(LastMessages)
      /\ transferId' \in {transferId, NoId}
      /\ running' = ~(index >= Len(files))
      /\ fileState' = IF index >= Len(files) THEN "Finished" ELSE "Open"
      /\ reader' = NoReader /\ index' = index + 1 /\ ~checked
      /\ UNCHANGED <<files, overwrite, checked, transfers, runs>>
      /\ UNCHANGED <<link, serverVars, workerVars, late, faults>>
  BY DEF FinishFile, Controller, LastMessages
<1>3. LastMessages \in Seq(Messages)
  <2>1. Message("Finish", transferId) \in Messages /\ Message("StopWorker", NoId) \in Messages
    BY <1>1, MessageFacts DEF TypeOK
  <2>2. QED
    BY <2>1 DEF LastMessages
<1>4. index' \in 1..(Len(files) + 1)
  BY <1>1, <1>2
<1>5. NoReader \in [active : BOOLEAN, pos : {0} \cup ChunkNumbers, ready : BOOLEAN]
  BY DEF NoReader
<1>6. ControllerType'
  BY <1>1, <1>2, <1>4, <1>5 DEF TypeOK, ControllerType, Ids
<1>7. Messages' = Messages
  BY <1>2 DEF Messages, Ids
<1>8. TypeOK'
  BY <1>1, <1>2, <1>3, <1>6, <1>7, ControllerStepType
<1>9. Reading'
  <2>1. ~reader'.active /\ ~reader'.ready
    BY <1>2 DEF NoReader
  <2>2. running' => index' <= Len(files)
    <3>1. index >= Len(files) => ~running'
      BY <1>2
    <3>2. index < Len(files) => index' <= Len(files)
      BY <1>1, <1>2
    <3>3. QED
      BY <1>1, <3>1, <3>2
  <2>3. fileState' # "Transferring" /\ ~checked'
    BY <1>2
  <2>4. QED
    BY <1>1, <1>2, <2>1, <2>2, <2>3 DEF Reading
<1>10. QED
  BY <1>1, <1>2, <1>3, <1>8, <1>9 DEF TransfersKept

LEMMA StopType ==
    ASSUME TypeOK, Reading, Stop
    PROVE  TypeOK' /\ Reading' /\ TransfersKept /\ Message("Cancel", transferId) \in Messages
<1> DEFINE T == [file : Files, overwrite : BOOLEAN, cancelled : BOOLEAN]
<1>1. Len(transfers) \in Nat /\ transfers \in Seq(T) /\ transferId \in Ids /\ files \in Seq(Files)
  BY ReadingIsTyped DEF TypeOK
<1> DEFINE stopped == [transfers[transferId] EXCEPT !.cancelled = TRUE]
<1>2. /\ running' = FALSE /\ reader' = NoReader /\ SendAll(<<Message("Cancel", transferId)>>)
      /\ transfers' = IF transferId = NoId THEN transfers
                                           ELSE [transfers EXCEPT ![transferId].cancelled = TRUE]
      /\ UNCHANGED <<files, index, fileState, transferId, overwrite, checked, runs>>
      /\ UNCHANGED <<link, serverVars, workerVars, late, faults>>
      /\ ~checked
  BY DEF Stop, Controller
<1>3. transfers' \in Seq(T) /\ Len(transfers)' = Len(transfers) /\ TransfersKept
  <2>1. CASE transferId = NoId
    BY <1>1, <1>2, <2>1 DEF TransfersKept
  <2>2. CASE transferId # NoId
    <3>1. transferId \in 1..Len(transfers)
      BY <1>1, <2>2 DEF Ids, NoId
    <3>2. transfers[transferId] \in T
      <4> HIDE DEF T
      <4>1. QED
        BY <1>1, <3>1
    <3>3. stopped \in T /\ stopped.file = transfers[transferId].file
      BY <3>2
    <3>4. transfers' = [transfers EXCEPT ![transferId] = stopped]
      BY <1>2, <2>2
    <3> HIDE DEF T, stopped
    <3>5. transfers' \in Seq(T) /\ Len(transfers') = Len(transfers)
      BY <1>1, <3>1, <3>3, <3>4
    <3>6. \A t \in 1..Len(transfers) : transfers'[t].file = transfers[t].file
      BY <1>1, <3>1, <3>3, <3>4
    <3>7. QED
      BY <1>1, <3>5, <3>6 DEF TransfersKept
  <2>3. QED
    BY <2>1, <2>2
<1>4. Messages' = Messages /\ Ids' = Ids
  BY <1>3 DEF Messages, Ids
<1>5. Message("Cancel", transferId) \in Messages
  BY <1>1, MessageFacts
<1>6. NoReader \in [active : BOOLEAN, pos : {0} \cup ChunkNumbers, ready : BOOLEAN]
  BY DEF NoReader
<1>7. ControllerType'
  BY <1>2, <1>3, <1>4, <1>6 DEF TypeOK, ControllerType
<1>8. \E ms \in Seq(Messages') : SendAll(ms)
  <2>1. <<Message("Cancel", transferId)>> \in Seq(Messages')
    BY <1>4, <1>5
  <2>2. QED
    BY <1>2, <2>1
<1>9. TypeOK'
  BY <1>1, <1>2, <1>3, <1>7, <1>8, ControllerStepType DEF TransfersKept
<1>10. Reading'
  BY <1>1, <1>2 DEF Reading, NoReader
<1>11. QED
  BY <1>3, <1>5, <1>9, <1>10

\* The steps that send and start nothing.
LEMMA SilentStepType ==
    ASSUME TypeOK, Reading, SkipFile \/ CheckQueues
    PROVE  TypeOK' /\ Reading' /\ TransfersKept
<1>1. Len(transfers) \in Nat /\ UNCHANGED <<transfers, queue, lost>> /\ files \in Seq(Files)
  BY ReadingIsTyped DEF SkipFile, CheckQueues
<1>2. ControllerType'
  BY DEF SkipFile, CheckQueues, TypeOK, ControllerType, Ids
<1>3. TypeOK'
  BY <1>1, <1>2, ControllerStepType DEF SkipFile, CheckQueues, Controller
<1>4. Reading'
  BY DEF SkipFile, CheckQueues, Controller, Reading
<1>5. QED
  BY <1>1, <1>3, <1>4 DEF TransfersKept

-----------------------------------------------------------------------------
(* Sequences of pieces in order                                            *)

LEMMA EmptyInOrder ==
    ASSUME NEW L, NEW c
    PROVE  Sorted(L, c, <<>>) /\ Range(<<>>) = {}
BY DEF Sorted, Range

LEMMA AppendInOrder ==
    ASSUME NEW L, NEW c, NEW S, NEW s \in Seq(S), NEW x \in S, Sorted(L, c, s),
           \A y \in Range(s) : Earlier(L, c, y, x)
    PROVE  /\ Append(s, x) \in Seq(S)
           /\ Range(Append(s, x)) = Range(s) \cup {x}
           /\ Sorted(L, c, Append(s, x))
<1>1. /\ Append(s, x) \in Seq(S) /\ DOMAIN Append(s, x) = 1..(Len(s) + 1)
      /\ \A i \in 1..Len(s) : Append(s, x)[i] = s[i]
      /\ Append(s, x)[Len(s) + 1] = x
      /\ DOMAIN s = 1..Len(s) /\ Len(s) \in Nat
  OBVIOUS
<1>2. Range(Append(s, x)) = Range(s) \cup {x}
  BY <1>1 DEF Range
<1>3. Sorted(L, c, Append(s, x))
  <2> SUFFICES ASSUME NEW i \in 1..(Len(s) + 1), NEW j \in 1..(Len(s) + 1), i < j
               PROVE  Earlier(L, c, Append(s, x)[i], Append(s, x)[j])
    BY <1>1 DEF Sorted
  <2>1. i \in 1..Len(s) /\ s[i] \in Range(s)
    BY <1>1 DEF Range
  <2>2. CASE j = Len(s) + 1
    BY <1>1, <2>1, <2>2
  <2>3. CASE j \in 1..Len(s)
    BY <1>1, <2>1, <2>3 DEF Sorted
  <2>4. QED
    BY <1>1, <2>2, <2>3
<1>4. QED
  BY <1>1, <1>2, <1>3

LEMMA JoinInOrder ==
    ASSUME NEW L, NEW c, NEW S, NEW s \in Seq(S), NEW t \in Seq(S),
           Sorted(L, c, s), Sorted(L, c, t), Precedes(L, c, s, t)
    PROVE  /\ s \o t \in Seq(S)
           /\ Range(s \o t) = Range(s) \cup Range(t)
           /\ Sorted(L, c, s \o t)
<1> DEFINE m == Len(s)  n == Len(t)
<1>1. /\ s \o t \in Seq(S) /\ DOMAIN (s \o t) = 1..(m + n)
      /\ \A i \in 1..(m + n) : (s \o t)[i] = IF i <= m THEN s[i] ELSE t[i - m]
      /\ DOMAIN s = 1..m /\ DOMAIN t = 1..n /\ m \in Nat /\ n \in Nat
  OBVIOUS
<1>2. Range(s \o t) = Range(s) \cup Range(t)
  <2>1. Range(s \o t) \subseteq Range(s) \cup Range(t)
    BY <1>1 DEF Range
  <2>2. \A i \in 1..m : s[i] \in Range(s \o t)
    BY <1>1 DEF Range
  <2>3. ASSUME NEW i \in 1..n PROVE t[i] \in Range(s \o t)
    <3>1. i + m \in 1..(m + n) /\ (s \o t)[i + m] = t[i]
      BY <1>1
    <3>2. QED
      BY <1>1, <3>1 DEF Range
  <2>4. QED
    BY <1>1, <2>1, <2>2, <2>3 DEF Range
<1>3. Sorted(L, c, s \o t)
  <2> SUFFICES ASSUME NEW i \in 1..(m + n), NEW j \in 1..(m + n), i < j
               PROVE  Earlier(L, c, (s \o t)[i], (s \o t)[j])
    BY <1>1 DEF Sorted
  <2>1. CASE j <= m
    BY <1>1, <2>1 DEF Sorted
  <2>2. CASE i > m
    <3>1. i - m \in 1..n /\ j - m \in 1..n /\ i - m < j - m
      BY <1>1, <2>2
    <3>2. QED
      BY <1>1, <2>2, <3>1 DEF Sorted
  <2>3. CASE i <= m /\ j > m
    <3>1. s[i] \in Range(s)
      BY <1>1, <2>3 DEF Range
    <3>2. j - m \in 1..n
      BY <1>1, <2>3
    <3>3. t[j - m] \in Range(t)
      BY <1>1, <3>2 DEF Range
    <3>4. QED
      BY <1>1, <2>3, <3>1, <3>3 DEF Precedes
  <2>4. QED
    BY <1>1, <2>1, <2>2, <2>3
<1>4. QED
  BY <1>1, <1>2, <1>3

LEMMA TailInOrder ==
    ASSUME NEW L, NEW c, NEW S, NEW s \in Seq(S), s # <<>>, Sorted(L, c, s)
    PROVE  /\ Head(s) \in S /\ Head(s) \in Range(s)
           /\ Tail(s) \in Seq(S) /\ Range(Tail(s)) \subseteq Range(s)
           /\ Sorted(L, c, Tail(s))
           /\ \A y \in Range(Tail(s)) : Earlier(L, c, Head(s), y)
<1>1. /\ Head(s) = s[1] /\ Tail(s) \in Seq(S) /\ Len(s) \in Nat /\ Len(s) # 0
      /\ DOMAIN s = 1..Len(s) /\ DOMAIN Tail(s) = 1..(Len(s) - 1)
      /\ \A i \in 1..(Len(s) - 1) : Tail(s)[i] = s[i + 1]
  OBVIOUS
<1>2. Head(s) \in S /\ Head(s) \in Range(s)
  BY <1>1 DEF Range
<1>3. \A i \in DOMAIN Tail(s) : i + 1 \in DOMAIN s /\ 1 < i + 1 /\ Tail(s)[i] = s[i + 1]
  BY <1>1
<1>4. Range(Tail(s)) \subseteq Range(s)
  BY <1>3 DEF Range
<1>5. Sorted(L, c, Tail(s))
  <2> SUFFICES ASSUME NEW i \in DOMAIN Tail(s), NEW j \in DOMAIN Tail(s), i < j
               PROVE  Earlier(L, c, Tail(s)[i], Tail(s)[j])
    BY DEF Sorted
  <2>1. i + 1 < j + 1
    BY <1>1
  <2>2. QED
    BY <1>3, <2>1 DEF Sorted
<1>6. \A y \in Range(Tail(s)) : Earlier(L, c, Head(s), y)
  <2> SUFFICES ASSUME NEW i \in DOMAIN Tail(s) PROVE Earlier(L, c, Head(s), Tail(s)[i])
    BY DEF Range
  <2>1. 1 \in DOMAIN s
    BY <1>1
  <2>2. QED
    BY <1>1, <1>3, <2>1 DEF Sorted
<1>7. QED
  BY <1>1, <1>2, <1>4, <1>5, <1>6

\* Where more is late, less has to be in order.
LEMMA LaterInLine ==
    ASSUME NEW L, NEW M, L \subseteq M, NEW c, NEW d, NEW i, NEW q, InLine(L, c, d, i, q)
    PROVE  InLine(M, c, d, i, q)
<1>1. \A x, y : Earlier(L, c, x, y) => Earlier(M, c, x, y)
  BY DEF Earlier
<1>2. QED
  BY <1>1 DEF InLine, Sorted, Precedes

\* More is sent: messages t behind those of the queue q.
LEMMA SentInLine ==
    ASSUME NEW L, NEW c, NEW d, NEW i, NEW S, NEW q \in Seq(S), NEW t \in Seq(S),
           InLine(L, c, d, i, q), Sorted(L, c, t),
           Precedes(L, c, i, t), Precedes(L, c, q, t),
           \A f \in Files : Precedes(L, c, d[f].chunks, t)
    PROVE  InLine(L, c, d, i, q \o t) /\ Range(q \o t) = Range(q) \cup Range(t)
<1>1. Range(q \o t) = Range(q) \cup Range(t) /\ Sorted(L, c, q \o t)
  BY JoinInOrder DEF InLine
<1>2. Precedes(L, c, i, q \o t) /\ \A f \in Files : Precedes(L, c, d[f].chunks, q \o t)
  BY <1>1 DEF InLine, Precedes
<1>3. QED
  BY <1>1, <1>2 DEF InLine

\* What has no number is no chunk: wherever it is sent, the order holds.
LEMMA PlainInLine ==
    ASSUME NEW L, NEW c, NEW d, NEW i, NEW S, NEW q \in Seq(S), NEW t \in Seq(S),
           InLine(L, c, d, i, q), \A x \in Range(t) : x.number = 0
    PROVE  InLine(L, c, d, i, q \o t) /\ Range(q \o t) = Range(q) \cup Range(t)
<1>1. \A x, y : y \in Range(t) => Earlier(L, c, x, y)
  BY DEF Earlier
<1>2. \A j \in DOMAIN t : t[j] \in Range(t)
  BY DEF Range
<1>3. Sorted(L, c, t) /\ Precedes(L, c, i, t) /\ Precedes(L, c, q, t)
  BY <1>1, <1>2 DEF Sorted, Precedes
<1>4. \A f \in Files : Precedes(L, c, d[f].chunks, t)
  BY <1>1 DEF Precedes
<1>5. QED
  BY <1>3, <1>4, SentInLine

\* The first message of the queue is delivered, or dropped.
LEMMA DeliveredInLine ==
    ASSUME NEW L, NEW c, NEW d, NEW S, NEW i \in Seq(S), NEW q \in Seq(S), q # <<>>,
           InLine(L, c, d, i, q)
    PROVE  /\ InLine(L, c, d, Append(i, Head(q)), Tail(q)) /\ InLine(L, c, d, i, Tail(q))
           /\ Head(q) \in S /\ Head(q) \in Range(q)
           /\ Append(i, Head(q)) \in Seq(S) /\ Tail(q) \in Seq(S)
           /\ Range(Append(i, Head(q))) = Range(i) \cup {Head(q)} /\ Range(Tail(q)) \subseteq Range(q)
<1>1. /\ Head(q) \in S /\ Head(q) \in Range(q) /\ Tail(q) \in Seq(S) /\ Range(Tail(q)) \subseteq Range(q)
      /\ Sorted(L, c, Tail(q)) /\ \A y \in Range(Tail(q)) : Earlier(L, c, Head(q), y)
  BY TailInOrder DEF InLine
<1>2. \A y \in Range(i) : Earlier(L, c, y, Head(q))
  BY <1>1 DEF InLine, Precedes
<1>3. /\ Append(i, Head(q)) \in Seq(S) /\ Range(Append(i, Head(q))) = Range(i) \cup {Head(q)}
      /\ Sorted(L, c, Append(i, Head(q)))
  BY <1>1, <1>2, AppendInOrder DEF InLine
<1>4. InLine(L, c, d, i, Tail(q))
  BY <1>1 DEF InLine, Precedes
<1>5. InLine(L, c, d, Append(i, Head(q)), Tail(q))
  <2>1. Precedes(L, c, Append(i, Head(q)), Tail(q))
    BY <1>1, <1>3 DEF InLine, Precedes
  <2>2. \A f \in Files : Precedes(L, c, d[f].chunks, Append(i, Head(q)))
    BY <1>1, <1>3 DEF InLine, Precedes
  <2>3. QED
    BY <1>3, <1>4, <2>1, <2>2 DEF InLine
<1>6. QED
  BY <1>1, <1>3, <1>4, <1>5

\* A message that was put back comes at last.
LEMMA LateInLine ==
    ASSUME NEW L, NEW c, NEW d, NEW S, NEW i \in Seq(S), NEW q, NEW m \in S,
           <<c, m.id>> \in L, InLine(L, c, d, i, q)
    PROVE  /\ InLine(L, c, d, Append(i, m), q)
           /\ Append(i, m) \in Seq(S) /\ Range(Append(i, m)) = Range(i) \cup {m}
<1>1. \A y : Earlier(L, c, y, m) /\ Earlier(L, c, m, y)
  BY DEF Earlier
<1>2. /\ Append(i, m) \in Seq(S) /\ Range(Append(i, m)) = Range(i) \cup {m}
      /\ Sorted(L, c, Append(i, m))
  BY <1>1, AppendInOrder DEF InLine
<1>3. Precedes(L, c, Append(i, m), q) /\ \A f \in Files : Precedes(L, c, d[f].chunks, Append(i, m))
  BY <1>1, <1>2 DEF InLine, Precedes
<1>4. QED
  BY <1>2, <1>3 DEF InLine

\* The first message is read; the files are the same, or one of them is empty.
LEMMA ReadInLine ==
    ASSUME NEW L, NEW c, NEW d, NEW e, NEW S, NEW i \in Seq(S), NEW q, i # <<>>,
           InLine(L, c, d, i, q),
           \A f \in Files : e[f].chunks = d[f].chunks \/ e[f].chunks = <<>>
    PROVE  /\ InLine(L, c, e, Tail(i), q)
           /\ Head(i) \in S /\ Head(i) \in Range(i)
           /\ Tail(i) \in Seq(S) /\ Range(Tail(i)) \subseteq Range(i)
<1>1. /\ Head(i) \in S /\ Head(i) \in Range(i) /\ Tail(i) \in Seq(S) /\ Range(Tail(i)) \subseteq Range(i)
      /\ Sorted(L, c, Tail(i))
  BY TailInOrder DEF InLine
<1>2. ASSUME NEW f \in Files
      PROVE  /\ Sorted(L, c, e[f].chunks)
             /\ Precedes(L, c, e[f].chunks, Tail(i)) /\ Precedes(L, c, e[f].chunks, q)
  <2>1. CASE e[f].chunks = d[f].chunks
    BY <1>1, <2>1 DEF InLine, Precedes
  <2>2. CASE e[f].chunks = <<>>
    BY <2>2, EmptyInOrder DEF Precedes
  <2>3. QED
    BY <2>1, <2>2
<1>3. QED
  BY <1>1, <1>2 DEF InLine, Precedes

\* From d to e, what the first message of i carries, x, is added to the file g.
Writes(d, e, i, g, x) ==
    /\ i \in Seq(Messages) /\ i # <<>> /\ g \in Files
    /\ d[g].chunks \in Seq(Chunks) /\ x \in Chunks
    /\ x.id = Head(i).id /\ x.number = Head(i).number
    /\ \A f \in Files : f # g => e[f].chunks = d[f].chunks
    /\ e[g].chunks = Append(d[g].chunks, x)

\* A chunk is written to a file g.
LEMMA WrittenInLine ==
    ASSUME NEW L, NEW c, NEW d, NEW e, NEW i, NEW q, NEW g, NEW x,
           InLine(L, c, d, i, q), Writes(d, e, i, g, x)
    PROVE  /\ InLine(L, c, e, Tail(i), q)
           /\ e[g].chunks \in Seq(Chunks) /\ Range(e[g].chunks) = Range(d[g].chunks) \cup {x}
           /\ Head(i) \in Messages /\ Head(i) \in Range(i)
           /\ Tail(i) \in Seq(Messages) /\ Range(Tail(i)) \subseteq Range(i)
<1> DEFINE h == Head(i)
<1>0. /\ i \in Seq(Messages) /\ i # <<>> /\ g \in Files
      /\ d[g].chunks \in Seq(Chunks) /\ x \in Chunks
      /\ x.id = h.id /\ x.number = h.number
      /\ \A f \in Files : f # g => e[f].chunks = d[f].chunks
      /\ e[g].chunks = Append(d[g].chunks, x)
  BY DEF Writes
<1>1. /\ h \in Messages /\ h \in Range(i) /\ Tail(i) \in Seq(Messages) /\ Range(Tail(i)) \subseteq Range(i)
      /\ Sorted(L, c, Tail(i)) /\ \A y \in Range(Tail(i)) : Earlier(L, c, h, y)
  BY <1>0, TailInOrder DEF InLine
<1>2. \A y : (Earlier(L, c, y, h) <=> Earlier(L, c, y, x)) /\ (Earlier(L, c, h, y) <=> Earlier(L, c, x, y))
  BY <1>0 DEF Earlier
<1> HIDE DEF h
<1>3. \A y \in Range(d[g].chunks) : Earlier(L, c, y, x)
  BY <1>0, <1>1, <1>2 DEF InLine, Precedes
<1>4. /\ e[g].chunks \in Seq(Chunks) /\ Range(e[g].chunks) = Range(d[g].chunks) \cup {x}
      /\ Sorted(L, c, e[g].chunks)
  BY <1>0, <1>3, AppendInOrder DEF InLine
<1>5. Precedes(L, c, e[g].chunks, Tail(i)) /\ Precedes(L, c, e[g].chunks, q)
  BY <1>0, <1>1, <1>2, <1>4 DEF InLine, Precedes
<1>6. ASSUME NEW f \in Files
      PROVE  /\ Sorted(L, c, e[f].chunks)
             /\ Precedes(L, c, e[f].chunks, Tail(i)) /\ Precedes(L, c, e[f].chunks, q)
  <2>1. CASE f = g
    BY <1>4, <1>5, <2>1
  <2>2. CASE f # g
    BY <1>0, <1>1, <2>2 DEF InLine, Precedes
  <2>3. QED
    BY <2>1, <2>2
<1>7. InLine(L, c, e, Tail(i), q)
  BY <1>1, <1>6 DEF InLine, Precedes
<1>8. QED
  BY <1>1, <1>4, <1>7 DEF h

-----------------------------------------------------------------------------
(* The steps of the controller                                             *)

\* Ids and numbers of all pieces are numbers, and the ids are of transfers.
LEMMA PieceFacts ==
    ASSUME TypeOK, NEW c \in Computers
    PROVE  /\ \A x \in Pieces(c) : x.id \in Ids /\ x.id \in Nat /\ x.number \in Nat
           /\ \A f \in Files : Range(disk[c][f].chunks) \subseteq Chunks
<1>1. Len(transfers) \in Nat
  BY ReadingIsTyped
<1>2. inbox[c] \in Seq(Messages) /\ queue[c] \in Seq(Messages)
  BY DEF TypeOK
<1>3. \A f \in Files : disk[c][f].chunks \in Seq(Chunks)
  BY DEF TypeOK
<1>4. \A m \in Messages : m.id \in Ids /\ m.number \in Nat
  BY MessageFacts, SizeFacts
<1>5. \A m \in Chunks : m.id \in Ids /\ m.number \in Nat
  BY SizeFacts DEF Chunks
<1>6. Range(inbox[c]) \subseteq Messages /\ Range(queue[c]) \subseteq Messages
  BY <1>2 DEF Range
<1>7. \A f \in Files : Range(disk[c][f].chunks) \subseteq Chunks
  BY <1>3 DEF Range
<1>8. \A x \in Pieces(c) : x.id \in Ids /\ x.number \in Nat
  BY <1>4, <1>5, <1>6, <1>7 DEF Pieces
<1>9. \A id \in Ids : id \in Nat
  BY <1>1 DEF Ids
<1>10. QED
  BY <1>7, <1>8, <1>9

\* What a step of the controller has to keep of CInv.
LEMMA ControllerKeepsCInv ==
    ASSUME TypeOK, TransfersKept, UNCHANGED <<serverVars, workerVars, late>>,
           NEW c \in Computers, CInv(c),
           InLine(late, c, disk[c], inbox[c], queue'[c]), NotAhead(c)'
    PROVE  CInv(c)'
<1>1. Len(transfers) \in Nat
  BY ReadingIsTyped
<1>2. \A id \in Ids : id # NoId => id \in 1..Len(transfers)
  BY <1>1 DEF Ids, NoId
<1>3. OneTransfer(c)'
  <2> SUFFICES ASSUME NEW f \in Files, NEW x \in Range(disk[c][f].chunks), NEW y \in Range(disk[c][f].chunks)
               PROVE  x.id = y.id /\ (x.id # NoId => transfers'[x.id].file = f)
    BY DEF OneTransfer, workerVars
  <2>1. x \in Chunks
    BY PieceFacts
  <2>2. x.id \in Ids
    BY <2>1 DEF Chunks
  <2>3. QED
    BY <1>2, <2>2 DEF CInv, OneTransfer, TransfersKept
<1>4. OpenIsOwn(c)'
  <2>1. current[c].id \in Ids
    BY DEF TypeOK, CurrentRecords
  <2>2. QED
    BY <1>2, <2>1 DEF CInv, OpenIsOwn, TransfersKept, workerVars
<1>5. InLine(late, c, disk[c], inbox[c], queue[c])' /\ \A m \in retries'[c] : <<c, m.id>> \in late'
  BY DEF CInv, serverVars, workerVars
<1>6. QED
  BY <1>3, <1>4, <1>5 DEF CInv

\* The controller sends messages that are no chunks.
LEMMA PlainSent ==
    ASSUME TypeOK, NEW c \in Computers, CInv(c), NEW S, Messages \subseteq S, NEW ms \in Seq(S),
           \A x \in Range(ms) : x.number = 0,
           SendAll(ms), UNCHANGED <<serverVars, workerVars, late>>
    PROVE  /\ InLine(late, c, disk[c], inbox[c], queue'[c])
           /\ Pieces(c)' \subseteq Pieces(c) \cup Range(ms)
<1>1. queue[c] \in Seq(S)
  <2>1. queue[c] \in Seq(Messages)
    BY DEF TypeOK
  <2>2. QED
    BY <2>1, SequencesOfMore
<1>2. queue'[c] = IF Connected(c) THEN queue[c] \o ms ELSE queue[c]
  BY DEF SendAll
<1>3. /\ InLine(late, c, disk[c], inbox[c], queue[c] \o ms)
      /\ Range(queue[c] \o ms) = Range(queue[c]) \cup Range(ms)
  BY <1>1, PlainInLine DEF CInv
<1>4. InLine(late, c, disk[c], inbox[c], queue'[c]) /\ Range(queue'[c]) \subseteq Range(queue[c]) \cup Range(ms)
  BY <1>2, <1>3 DEF CInv
<1>5. QED
  BY <1>4 DEF Pieces, serverVars, workerVars

LEMMA QuietStepKeepsCInv ==
    ASSUME TypeOK, Reading, TransfersKept, NEW c \in Computers, CInv(c),
           (\E s \in Selections : StartRun(s)) \/ SkipFile \/ CheckQueues \/ ReadChunk
    PROVE  CInv(c)'
<1>1. UNCHANGED <<queue, serverVars, workerVars, late, transferId>>
  BY DEF StartRun, SkipFile, CheckQueues, ReadChunk, Controller
<1>2. Pieces(c)' = Pieces(c)
  BY <1>1 DEF Pieces, serverVars, workerVars
<1>3. NotAhead(c)'
  <2>1. CASE (\E s \in Selections : StartRun(s)) \/ SkipFile
    BY <1>1, <1>2, <2>1 DEF StartRun, SkipFile, CInv, NotAhead, Reading
  <2>2. CASE CheckQueues
    BY <1>1, <1>2, <2>2 DEF CheckQueues, CInv, NotAhead
  <2>3. CASE ReadChunk
    <3> DEFINE size == Size[files[index]]
    <3>1. /\ size \in Nat /\ reader.pos \in Nat /\ reader.pos <= size /\ reader.active /\ ~reader.ready
          /\ fileState = "Transferring" => reader.pos < size
      BY <2>3, ReadingIsTyped DEF ReadChunk, Reading
    <3>2. reader'.pos = IF reader.pos < size THEN reader.pos + 1 ELSE reader.pos
      BY <2>3 DEF ReadChunk, TypeOK
    <3> HIDE DEF size
    <3> SUFFICES ASSUME NEW x \in Pieces(c), x.id = transferId, <<c, x.id>> \notin late
                 PROVE  /\ x.number <= reader'.pos
                        /\ fileState = "Transferring" => x.number < reader'.pos
      BY <1>1, <1>2, <2>3 DEF NotAhead, ReadChunk
    <3>3. x.number <= reader.pos /\ x.number \in Nat
      BY <3>1, PieceFacts DEF CInv, NotAhead
    <3>4. QED
      BY <3>1, <3>2, <3>3
  <2>4. QED
    BY <2>1, <2>2, <2>3
<1>4. InLine(late, c, disk[c], inbox[c], queue'[c])
  BY <1>1 DEF CInv
<1>5. QED
  BY <1>1, <1>3, <1>4, ControllerKeepsCInv

LEMMA OpenFileKeepsCInv ==
    ASSUME TypeOK, TypeOK', TransfersKept, NEW c \in Computers, CInv(c), OpenFile
    PROVE  CInv(c)'
<1> DEFINE m == Message("Start", transferId')
<1>1. /\ SendAll(<<m>>) /\ UNCHANGED <<serverVars, workerVars, late>>
      /\ transferId' = Len(transfers) + 1 /\ Len(transfers) \in Nat
      /\ reader' = [NoReader EXCEPT !.active = TRUE]
  BY ReadingIsTyped DEF OpenFile, Controller
<1>2. m.number = 0
  BY DEF Message
<1> HIDE DEF m
<1>3. /\ <<m>> \in Seq(Messages \cup {m}) /\ Messages \subseteq Messages \cup {m}
      /\ Range(<<m>>) = {m}
  BY DEF Range
<1>4. /\ InLine(late, c, disk[c], inbox[c], queue'[c])
      /\ Pieces(c)' \subseteq Pieces(c) \cup {m}
  BY <1>1, <1>2, <1>3, PlainSent
<1>5. NotAhead(c)'
  <2> SUFFICES ASSUME NEW x \in Pieces(c)', x.id = transferId'
               PROVE  x.number = 0
    BY <1>1 DEF NotAhead, NoReader
  <2>1. x \notin Pieces(c)
    <3>1. \A id \in Ids : id # Len(transfers) + 1
      BY <1>1 DEF Ids
    <3>2. QED
      BY <1>1, <3>1, PieceFacts
  <2>2. QED
    BY <1>2, <1>4, <2>1
<1>6. QED
  BY <1>1, <1>4, <1>5, ControllerKeepsCInv

LEMMA EndKeepsCInv ==
    ASSUME TypeOK, Reading, TransfersKept, NEW c \in Computers, CInv(c), FinishFile \/ Stop
    PROVE  CInv(c)'
<1>1. PICK ms \in Seq(Messages) : SendAll(ms) /\ \A x \in Range(ms) : x.number = 0
  <2>1. CASE Stop
    <3> DEFINE m == Message("Cancel", transferId)
    <3>1. m \in Messages /\ m.number = 0 /\ SendAll(<<m>>)
      BY <2>1, StopType DEF Message, Stop
    <3> HIDE DEF m
    <3>2. <<m>> \in Seq(Messages) /\ Range(<<m>>) = {m}
      BY <3>1 DEF Range
    <3>3. QED
      BY <3>1, <3>2
  <2>2. CASE FinishFile
    <3>1. LastMessages \in Seq(Messages) /\ SendAll(LastMessages)
      BY <2>2, FinishFileType
    <3>2. \A x \in Range(LastMessages) : x.number = 0
      <4> DEFINE a == Message("Finish", transferId)  b == Message("StopWorker", NoId)
      <4>1. a.number = 0 /\ b.number = 0
        BY DEF Message
      <4> HIDE DEF a, b
      <4>2. LastMessages \in Seq({a, b})
        <5>1. <<>> \in Seq({a, b}) /\ <<a>> \in Seq({a, b}) /\ <<b>> \in Seq({a, b})
          OBVIOUS
        <5> DEFINE s == IF reader.active THEN <<a>> ELSE <<>>
                   t == IF index >= Len(files) THEN <<b>> ELSE <<>>
        <5>2. s \in Seq({a, b}) /\ t \in Seq({a, b}) /\ LastMessages = s \o t
          BY <5>1 DEF LastMessages, a, b
        <5> HIDE DEF s, t
        <5>3. QED
          BY <5>2
      <4>3. \A x \in Range(LastMessages) : x \in {a, b}
        BY <4>2 DEF Range
      <4>4. QED
        BY <4>1, <4>3
    <3>3. QED
      BY <3>1, <3>2
  <2>3. QED
    BY <2>1, <2>2
<1>2. /\ UNCHANGED <<serverVars, workerVars, late>> /\ ~reader'.active
  BY DEF FinishFile, Stop, Controller, NoReader
<1>3. InLine(late, c, disk[c], inbox[c], queue'[c])
  BY <1>1, <1>2, PlainSent
<1>4. NotAhead(c)'
  BY <1>2 DEF NotAhead
<1>5. QED
  BY <1>2, <1>3, <1>4, ControllerKeepsCInv

LEMMA SendChunkKeepsCInv ==
    ASSUME TypeOK, Reading, TransfersKept, NEW c \in Computers, CInv(c), SendChunk
    PROVE  CInv(c)'
<1> DEFINE m == DataMessage(transferId, reader.pos)
<1>1. /\ m \in Messages /\ SendAll(<<m>>)
      /\ m.id = transferId /\ m.number = reader.pos
  BY SendChunkType DEF SendChunk, DataMessage
<1> HIDE DEF m
<1>2. /\ reader.active /\ reader.ready /\ fileState = "Transferring" /\ reader.pos \in Nat
      /\ UNCHANGED <<serverVars, workerVars, late, transferId>>
      /\ reader'.pos = reader.pos /\ ~reader'.ready
  BY ReadingIsTyped DEF SendChunk, Reading, TypeOK
<1>3. <<m>> \in Seq(Messages) /\ Range(<<m>>) = {m}
  BY <1>1 DEF Range
<1>4. \A x \in Pieces(c) : Earlier(late, c, x, m)
  BY <1>1, <1>2 DEF CInv, NotAhead, Earlier
<1>5. /\ Sorted(late, c, <<m>>)
      /\ Precedes(late, c, inbox[c], <<m>>) /\ Precedes(late, c, queue[c], <<m>>)
      /\ \A f \in Files : Precedes(late, c, disk[c][f].chunks, <<m>>)
  BY <1>3, <1>4 DEF Sorted, Precedes, Pieces
<1>6. queue[c] \in Seq(Messages)
  BY DEF TypeOK
<1>7. /\ InLine(late, c, disk[c], inbox[c], queue[c] \o <<m>>)
      /\ Range(queue[c] \o <<m>>) = Range(queue[c]) \cup {m}
  <2> DEFINE t == <<m>>
  <2>1. /\ InLine(late, c, disk[c], inbox[c], queue[c]) /\ t \in Seq(Messages)
        /\ Sorted(late, c, t) /\ Precedes(late, c, inbox[c], t) /\ Precedes(late, c, queue[c], t)
        /\ \A f \in Files : Precedes(late, c, disk[c][f].chunks, t)
    BY <1>3, <1>5 DEF CInv
  <2> HIDE DEF t
  <2>2. /\ InLine(late, c, disk[c], inbox[c], queue[c] \o t)
        /\ Range(queue[c] \o t) = Range(queue[c]) \cup Range(t)
    BY <1>6, <2>1, SentInLine
  <2>3. QED
    BY <1>3, <2>2 DEF t
<1>8. /\ InLine(late, c, disk[c], inbox[c], queue'[c])
      /\ Range(queue'[c]) \subseteq Range(queue[c]) \cup {m}
  BY <1>1, <1>7 DEF SendAll, CInv
<1>9. NotAhead(c)'
  <2> SUFFICES ASSUME NEW x \in Pieces(c)', x.id = transferId, <<c, x.id>> \notin late
               PROVE  x.number <= reader.pos
    BY <1>2 DEF NotAhead
  <2>1. x \in Pieces(c) \cup {m}
    BY <1>2, <1>8 DEF Pieces, serverVars, workerVars
  <2>2. QED
    BY <1>1, <1>2, <2>1 DEF CInv, NotAhead
<1>10. QED
  BY <1>2, <1>8, <1>9, ControllerKeepsCInv

-----------------------------------------------------------------------------
(* The steps of a computer and of the connection to it                     *)

\* What such a step leaves as it is.
OnlyAt(c) ==
    /\ UNCHANGED controllerVars /\ late \subseteq late'
    /\ \A d \in Computers \ {c} :
         /\ queue'[d] = queue[d] /\ inbox'[d] = inbox[d] /\ retries'[d] = retries[d]
         /\ disk'[d] = disk[d] /\ current'[d] = current[d]

LEMMA OthersKeepCInv ==
    ASSUME NEW c \in Computers, OnlyAt(c), NEW d \in Computers \ {c}, CInv(d)
    PROVE  CInv(d)'
<1>1. /\ UNCHANGED <<reader, fileState, transferId, transfers>> /\ late \subseteq late'
      /\ queue'[d] = queue[d] /\ inbox'[d] = inbox[d] /\ retries'[d] = retries[d]
      /\ disk'[d] = disk[d] /\ current'[d] = current[d]
  BY DEF OnlyAt, controllerVars
<1>2. InLine(late', d, disk'[d], inbox'[d], queue'[d])
  BY <1>1, LaterInLine DEF CInv
<1>3. NotAhead(d)'
  <2>1. Pieces(d)' = Pieces(d)
    BY <1>1 DEF Pieces
  <2>2. QED
    BY <1>1, <2>1 DEF CInv, NotAhead
<1>4. OneTransfer(d)' /\ OpenIsOwn(d)'
  BY <1>1 DEF CInv, OneTransfer, OpenIsOwn
<1>5. QED
  BY <1>1, <1>2, <1>3, <1>4 DEF CInv

\* What it has to keep of CInv where it takes place.
LEMMA ComputerKeepsCInv ==
    ASSUME NEW c \in Computers, OnlyAt(c), CInv(c),
           InLine(late', c, disk'[c], inbox'[c], queue'[c]),
           \A m \in retries'[c] : <<c, m.id>> \in late',
           \A x \in Pieces(c)' : \/ <<c, x.id>> \in late'
                                 \/ \E y \in Pieces(c) : y.id = x.id /\ y.number = x.number,
           OneTransfer(c)', OpenIsOwn(c)'
    PROVE  CInv(c)'
<1>1. UNCHANGED <<reader, fileState, transferId>> /\ late \subseteq late'
  BY DEF OnlyAt, controllerVars
<1>2. NotAhead(c)'
  BY <1>1 DEF CInv, NotAhead
<1>3. QED
  BY <1>2 DEF CInv

\* Steps that do not touch the files.
LEMMA SameFiles ==
    ASSUME NEW c \in Computers, CInv(c), UNCHANGED <<transfers, disk>>,
           current'[c].open => current[c].open /\ current'[c].name = current[c].name /\ current'[c].id = current[c].id
    PROVE  OneTransfer(c)' /\ OpenIsOwn(c)'
BY DEF CInv, OneTransfer, OpenIsOwn

\* The types of what is at each computer.
LEMMA TypeAt ==
    ASSUME TypeOK, NEW c \in Computers
    PROVE  /\ queue[c] \in Seq(Messages) /\ inbox[c] \in Seq(Messages) /\ retries[c] \subseteq Messages
           /\ worker[c] \in {"None", "Running", "Quitting"}
           /\ current[c] \in CurrentRecords /\ disk[c] \in [Files -> FileRecords]
           /\ link[c] \in {"Up", "Failing", "Down"} /\ loggedOn[c] \in BOOLEAN
           /\ DOMAIN queue = Computers /\ DOMAIN inbox = Computers /\ DOMAIN retries = Computers
           /\ DOMAIN worker = Computers /\ DOMAIN current = Computers /\ DOMAIN disk = Computers
BY DEF TypeOK, FileRecords

LEMMA AffectedType ==
    ASSUME NEW c \in Computers, NEW ms \in SUBSET Messages
    PROVE  Affected(c, ms) \subseteq Computers \X Ids
BY MessageFacts DEF Affected

\* A step that changes no transfer: the types, component by component.
LEMMA ComputerStepType ==
    ASSUME TypeOK, UNCHANGED controllerVars, NEW c \in Computers,
           \E t \in {"Up", "Failing", "Down"} : link' = [link EXCEPT ![c] = t],
           \E b \in BOOLEAN : loggedOn' = [loggedOn EXCEPT ![c] = b],
           \E q \in Seq(Messages) : queue' = [queue EXCEPT ![c] = q],
           \E i \in Seq(Messages) : inbox' = [inbox EXCEPT ![c] = i],
           \E r \in SUBSET Messages : retries' = [retries EXCEPT ![c] = r],
           \E w \in {"None", "Running", "Quitting"} : worker' = [worker EXCEPT ![c] = w],
           \E u \in CurrentRecords : current' = [current EXCEPT ![c] = u],
           \E e \in [Files -> FileRecords] : disk' = [disk EXCEPT ![c] = e],
           lost' \subseteq Computers \X Ids, late \subseteq late', late' \subseteq Computers \X Ids,
           faults' \in 0..MaxEvents
    PROVE  TypeOK' /\ OnlyAt(c)
<1>1. ControllerType' /\ Messages' = Messages /\ Ids' = Ids /\ CurrentRecords' = CurrentRecords
      /\ FileRecords' = FileRecords
  BY DEF controllerVars, TypeOK, ControllerType, Messages, Ids, CurrentRecords, FileRecords, Chunks
<1>2. /\ link' \in [Computers -> {"Up", "Failing", "Down"}] /\ loggedOn' \in [Computers -> BOOLEAN]
      /\ worker' \in [Computers -> {"None", "Running", "Quitting"}]
  BY DEF TypeOK
<1>3. queue' \in [Computers -> Seq(Messages)] /\ inbox' \in [Computers -> Seq(Messages)]
  BY DEF TypeOK
<1>4. retries' \in [Computers -> SUBSET Messages] /\ current' \in [Computers -> CurrentRecords]
  BY DEF TypeOK
<1>5. disk' \in [Computers -> [Files -> FileRecords]]
  BY DEF TypeOK, FileRecords
<1>6. OnlyAt(c)
  BY DEF OnlyAt, TypeOK
<1>7. ComputersType'
  BY <1>1, <1>2, <1>3, <1>4, <1>5 DEF ComputersType
<1>8. QED
  BY <1>1, <1>6, <1>7 DEF TypeOK, ControllerType, ComputersType, FileRecords

\* What ComputerStepType asks of the components that a step does not change.
LEMMA SameAt ==
    ASSUME TypeOK, NEW c \in Computers
    PROVE  /\ link' = link => \E t \in {"Up", "Failing", "Down"} : link' = [link EXCEPT ![c] = t]
           /\ loggedOn' = loggedOn => \E b \in BOOLEAN : loggedOn' = [loggedOn EXCEPT ![c] = b]
           /\ queue' = queue => \E q \in Seq(Messages) : queue' = [queue EXCEPT ![c] = q]
           /\ inbox' = inbox => \E i \in Seq(Messages) : inbox' = [inbox EXCEPT ![c] = i]
           /\ retries' = retries => \E r \in SUBSET Messages : retries' = [retries EXCEPT ![c] = r]
           /\ worker' = worker => \E w \in {"None", "Running", "Quitting"} : worker' = [worker EXCEPT ![c] = w]
           /\ current' = current => \E u \in CurrentRecords : current' = [current EXCEPT ![c] = u]
           /\ disk' = disk => \E e \in [Files -> FileRecords] : disk' = [disk EXCEPT ![c] = e]
           /\ UNCHANGED lost => lost' \subseteq Computers \X Ids
           /\ UNCHANGED late => late \subseteq late' /\ late' \subseteq Computers \X Ids
           /\ UNCHANGED faults => faults' \in 0..MaxEvents
<1>1. /\ link = [link EXCEPT ![c] = link[c]] /\ link[c] \in {"Up", "Failing", "Down"}
      /\ loggedOn = [loggedOn EXCEPT ![c] = loggedOn[c]] /\ loggedOn[c] \in BOOLEAN
      /\ worker = [worker EXCEPT ![c] = worker[c]] /\ worker[c] \in {"None", "Running", "Quitting"}
  BY DEF TypeOK
<1>2. /\ queue = [queue EXCEPT ![c] = queue[c]] /\ queue[c] \in Seq(Messages)
      /\ inbox = [inbox EXCEPT ![c] = inbox[c]] /\ inbox[c] \in Seq(Messages)
      /\ retries = [retries EXCEPT ![c] = retries[c]] /\ retries[c] \in SUBSET Messages
  BY DEF TypeOK
<1>3. /\ current = [current EXCEPT ![c] = current[c]] /\ current[c] \in CurrentRecords
      /\ disk = [disk EXCEPT ![c] = disk[c]] /\ disk[c] \in [Files -> FileRecords]
  BY DEF TypeOK, FileRecords
<1>4. lost \subseteq Computers \X Ids /\ late \subseteq Computers \X Ids /\ faults \in 0..MaxEvents
  BY DEF TypeOK
<1>5. QED
  BY <1>1, <1>2, <1>3, <1>4

LEMMA SendStep ==
    ASSUME TypeOK, NEW c \in Computers, CInv(c), Send(c)
    PROVE  TypeOK' /\ OnlyAt(c) /\ CInv(c)'
<1> DEFINE m == Head(queue[c])
<1>1. /\ queue[c] # <<>> /\ queue' = [queue EXCEPT ![c] = Tail(queue[c])]
      /\ UNCHANGED controllerVars /\ UNCHANGED <<link, loggedOn, current, disk, faults>>
  BY DEF Send, Deliver, PutBack, Lose, Fire, workerVars
<1>2. /\ queue[c] \in Seq(Messages) /\ queue[c] # <<>> /\ inbox[c] \in Seq(Messages)
      /\ InLine(late, c, disk[c], inbox[c], queue[c])
  BY <1>1, TypeAt DEF CInv
<1>3. /\ InLine(late, c, disk[c], Append(inbox[c], m), Tail(queue[c]))
      /\ InLine(late, c, disk[c], inbox[c], Tail(queue[c]))
      /\ m \in Messages /\ m \in Range(queue[c])
      /\ Append(inbox[c], m) \in Seq(Messages) /\ Tail(queue[c]) \in Seq(Messages)
      /\ Range(Append(inbox[c], m)) = Range(inbox[c]) \cup {m}
      /\ Range(Tail(queue[c])) \subseteq Range(queue[c])
  <2> DEFINE i == inbox[c]  q == queue[c]  d == disk[c]
  <2>1. i \in Seq(Messages) /\ q \in Seq(Messages) /\ q # <<>> /\ InLine(late, c, d, i, q)
    BY <1>2
  <2> HIDE DEF i, q, d
  <2>2. /\ InLine(late, c, d, Append(i, Head(q)), Tail(q)) /\ InLine(late, c, d, i, Tail(q))
        /\ Head(q) \in Messages /\ Head(q) \in Range(q)
        /\ Append(i, Head(q)) \in Seq(Messages) /\ Tail(q) \in Seq(Messages)
        /\ Range(Append(i, Head(q))) = Range(i) \cup {Head(q)} /\ Range(Tail(q)) \subseteq Range(q)
    BY <2>1, DeliveredInLine
  <2>3. QED
    BY <2>2 DEF i, q, d
<1> HIDE DEF m
<1>4. queue'[c] = Tail(queue[c]) /\ \E q \in Seq(Messages) : queue' = [queue EXCEPT ![c] = q]
  BY <1>1, <1>3 DEF TypeOK
<1>5. current'[c] = current[c] /\ disk'[c] = disk[c] /\ UNCHANGED transfers
  BY <1>1 DEF controllerVars
<1>6. OneTransfer(c)' /\ OpenIsOwn(c)'
  BY <1>1, <1>5, SameFiles
<1>7. {m} \in SUBSET Messages /\ Affected(c, {m}) \subseteq Computers \X Ids
  BY <1>3, AffectedType
<1>8. CASE Deliver(c)
  <2>1. inbox' = [inbox EXCEPT ![c] = Append(inbox[c], m)] /\ UNCHANGED <<retries, lost, late>>
    BY <1>8 DEF Deliver, PassToWorker, historyVars, m
  <2>2. inbox'[c] = Append(inbox[c], m) /\ \E i \in Seq(Messages) : inbox' = [inbox EXCEPT ![c] = i]
    BY <1>3, <2>1 DEF TypeOK
  <2>3. \E w \in {"None", "Running", "Quitting"} : worker' = [worker EXCEPT ![c] = w]
    BY <1>8, TypeAt DEF Deliver, PassToWorker
  <2>4. TypeOK' /\ OnlyAt(c)
    BY <1>1, <1>4, <2>1, <2>2, <2>3, SameAt, ComputerStepType
  <2>5. Pieces(c)' \subseteq Pieces(c)
    BY <1>3, <1>4, <1>5, <2>2 DEF Pieces
  <2>6. CInv(c)'
    <3>1. InLine(late', c, disk'[c], inbox'[c], queue'[c]) /\ \A n \in retries'[c] : <<c, n.id>> \in late'
      BY <1>3, <1>4, <1>5, <2>1, <2>2 DEF CInv
    <3>2. QED
      BY <1>6, <2>4, <2>5, <3>1, ComputerKeepsCInv
  <2>7. QED
    BY <2>4, <2>6
<1>9. CASE PutBack(c)
  <2>1. /\ retries' = [retries EXCEPT ![c] = retries[c] \cup {m}] /\ UNCHANGED <<inbox, worker, lost>>
        /\ late' = late \cup Affected(c, {m})
    BY <1>9 DEF PutBack, m
  <2>2. /\ retries'[c] = retries[c] \cup {m}
        /\ \E r \in SUBSET Messages : retries' = [retries EXCEPT ![c] = r]
    <3>1. retries[c] \cup {m} \in SUBSET Messages
      BY <1>3, TypeAt
    <3>2. QED
      BY <2>1, <3>1 DEF TypeOK
  <2>3. late \subseteq late' /\ late' \subseteq Computers \X Ids /\ <<c, m.id>> \in late'
    BY <1>7, <2>1 DEF TypeOK, Affected
  <2>4. TypeOK' /\ OnlyAt(c)
    BY <1>1, <1>4, <2>1, <2>2, <2>3, SameAt, ComputerStepType
  <2>5. Pieces(c)' \subseteq Pieces(c)
    BY <1>3, <1>4, <1>5, <2>1 DEF Pieces
  <2>6. CInv(c)'
    <3>1. InLine(late', c, disk'[c], inbox'[c], queue'[c])
      BY <1>3, <1>4, <1>5, <2>1, <2>3, LaterInLine
    <3>2. \A n \in retries'[c] : <<c, n.id>> \in late'
      BY <2>2, <2>3 DEF CInv
    <3>3. QED
      BY <1>6, <2>4, <2>5, <3>1, <3>2, ComputerKeepsCInv
  <2>7. QED
    BY <2>4, <2>6
<1>10. CASE Lose(c)
  <2>1. /\ lost' = lost \cup Affected(c, {m}) /\ UNCHANGED <<worker, inbox, retries, late>>
    BY <1>10 DEF Lose, m
  <2>2. lost' \subseteq Computers \X Ids
    BY <1>7, <2>1 DEF TypeOK
  <2>3. TypeOK' /\ OnlyAt(c)
    BY <1>1, <1>4, <2>1, <2>2, SameAt, ComputerStepType
  <2>4. Pieces(c)' \subseteq Pieces(c)
    BY <1>3, <1>4, <1>5, <2>1 DEF Pieces
  <2>5. CInv(c)'
    <3>1. InLine(late', c, disk'[c], inbox'[c], queue'[c]) /\ \A n \in retries'[c] : <<c, n.id>> \in late'
      BY <1>3, <1>4, <1>5, <2>1 DEF CInv
    <3>2. QED
      BY <1>6, <2>3, <2>4, <3>1, ComputerKeepsCInv
  <2>6. QED
    BY <2>3, <2>5
<1>11. QED
  BY <1>8, <1>9, <1>10 DEF Send

\* Connections that break and come back, users who log on or confirm.
LEMMA LinkStep ==
    ASSUME TypeOK, NEW c \in Computers, CInv(c), Fail(c) \/ Close(c) \/ Connect(c) \/ LogOn(c) \/ Confirm(c)
    PROVE  TypeOK' /\ OnlyAt(c) /\ CInv(c)'
<1>1. UNCHANGED controllerVars /\ UNCHANGED <<queue, retries, inbox, worker, disk, lost, late>>
  BY DEF Fail, Close, Connect, LogOn, Confirm, serverVars, workerVars, historyVars
<1>2. \E t \in {"Up", "Failing", "Down"} : link' = [link EXCEPT ![c] = t]
  BY SameAt DEF Fail, Close, Connect, LogOn, Confirm
<1>3. \E b \in BOOLEAN : loggedOn' = [loggedOn EXCEPT ![c] = b]
  BY SameAt DEF Fail, Close, Connect, LogOn, Confirm, serverVars
<1>4. faults' \in 0..MaxEvents
  BY FileDistributionAssumption DEF Fail, Close, Connect, LogOn, Confirm, TypeOK
<1>5. /\ \E u \in CurrentRecords : current' = [current EXCEPT ![c] = u]
      /\ current'[c].open = current[c].open /\ current'[c].name = current[c].name
      /\ current'[c].id = current[c].id
  <2>1. CASE Confirm(c)
    <3>1. [current[c] EXCEPT !.asking = FALSE] \in CurrentRecords
      BY TypeAt DEF CurrentRecords
    <3>2. current' = [current EXCEPT ![c] = [current[c] EXCEPT !.asking = FALSE]]
      BY <2>1 DEF Confirm
    <3>3. QED
      BY <3>1, <3>2, TypeAt DEF CurrentRecords
  <2>2. CASE current' = current
    BY <2>2, SameAt
  <2>3. QED
    BY <2>1, <2>2 DEF Fail, Close, Connect, LogOn, workerVars
<1>6. TypeOK' /\ OnlyAt(c)
  BY <1>1, <1>2, <1>3, <1>4, <1>5, SameAt, ComputerStepType
<1>7. OneTransfer(c)' /\ OpenIsOwn(c)'
  BY <1>1, <1>5, SameFiles DEF controllerVars
<1>8. Pieces(c)' = Pieces(c)
  BY <1>1 DEF Pieces
<1>9. CInv(c)'
  <2>1. InLine(late', c, disk'[c], inbox'[c], queue'[c]) /\ \A n \in retries'[c] : <<c, n.id>> \in late'
    BY <1>1 DEF CInv
  <2>2. QED
    BY <1>6, <1>7, <1>8, <2>1, ComputerKeepsCInv
<1>10. QED
  BY <1>6, <1>9

LEMMA RetryStep ==
    ASSUME TypeOK, NEW c \in Computers, CInv(c), NEW m \in retries[c], Retry(c, m)
    PROVE  TypeOK' /\ OnlyAt(c) /\ CInv(c)'
<1>1. /\ UNCHANGED controllerVars /\ UNCHANGED <<link, queue, loggedOn, current, disk, lost, late, faults>>
      /\ retries' = [retries EXCEPT ![c] = retries[c] \ {m}]
      /\ inbox' = [inbox EXCEPT ![c] = Append(inbox[c], m)]
  BY DEF Retry, PassToWorker, workerVars, historyVars
<1>2. /\ m \in Messages /\ <<c, m.id>> \in late /\ inbox[c] \in Seq(Messages)
      /\ InLine(late, c, disk[c], inbox[c], queue[c])
  BY TypeAt DEF CInv
<1>3. /\ InLine(late, c, disk[c], Append(inbox[c], m), queue[c])
      /\ Append(inbox[c], m) \in Seq(Messages) /\ Range(Append(inbox[c], m)) = Range(inbox[c]) \cup {m}
  BY <1>2, LateInLine
<1>4. inbox'[c] = Append(inbox[c], m) /\ \E i \in Seq(Messages) : inbox' = [inbox EXCEPT ![c] = i]
  BY <1>1, <1>3 DEF TypeOK
<1>5. retries'[c] \subseteq retries[c] /\ \E r \in SUBSET Messages : retries' = [retries EXCEPT ![c] = r]
  <2>1. retries[c] \ {m} \in SUBSET Messages
    BY TypeAt
  <2>2. QED
    BY <1>1, <2>1 DEF TypeOK
<1>6. \E w \in {"None", "Running", "Quitting"} : worker' = [worker EXCEPT ![c] = w]
  BY TypeAt DEF Retry, PassToWorker
<1>7. TypeOK' /\ OnlyAt(c)
  BY <1>1, <1>4, <1>5, <1>6, SameAt, ComputerStepType
<1>8. OneTransfer(c)' /\ OpenIsOwn(c)'
  BY <1>1, SameFiles DEF controllerVars
<1>9. \A x \in Pieces(c)' : x \in Pieces(c) \/ x = m
  BY <1>1, <1>3, <1>4 DEF Pieces
<1>10. CInv(c)'
  <2>1. InLine(late', c, disk'[c], inbox'[c], queue'[c]) /\ \A n \in retries'[c] : <<c, n.id>> \in late'
    BY <1>1, <1>3, <1>4, <1>5 DEF CInv
  <2>2. \A x \in Pieces(c)' : \/ <<c, x.id>> \in late'
                              \/ \E y \in Pieces(c) : y.id = x.id /\ y.number = x.number
    BY <1>1, <1>2, <1>9
  <2>3. QED
    BY <1>7, <1>8, <2>1, <2>2, ComputerKeepsCInv
<1>11. QED
  BY <1>7, <1>10

\* The process of the worker ends.
LEMMA EndWorkerStep ==
    ASSUME TypeOK, NEW c \in Computers, CInv(c), WorkerQuits(c) \/ WorkerDies(c)
    PROVE  TypeOK' /\ OnlyAt(c) /\ CInv(c)'
<1>1. /\ UNCHANGED controllerVars /\ UNCHANGED <<link, queue, loggedOn, retries, disk, late>>
      /\ worker' = [worker EXCEPT ![c] = "None"] /\ inbox' = [inbox EXCEPT ![c] = <<>>]
      /\ current' = [current EXCEPT ![c] = NoCurrent]
      /\ lost' = lost \cup Affected(c, Range(inbox[c]))
                      \cup (IF current[c].open THEN {<<c, current[c].id>>} ELSE {})
  BY DEF WorkerQuits, WorkerDies, EndWorker
<1>2. faults' \in 0..MaxEvents
  BY FileDistributionAssumption DEF WorkerQuits, WorkerDies, TypeOK
<1>3. lost' \subseteq Computers \X Ids
  <2>1. Range(inbox[c]) \in SUBSET Messages
    BY TypeAt DEF Range
  <2>2. Affected(c, Range(inbox[c])) \subseteq Computers \X Ids
    BY <2>1, AffectedType
  <2>3. current[c].id \in Ids
    BY TypeAt DEF CurrentRecords
  <2>4. QED
    BY <1>1, <2>2, <2>3 DEF TypeOK
<1>4. NoCurrent \in CurrentRecords /\ ~NoCurrent.open
  <2>1. NoId \in Ids
    BY ReadingIsTyped DEF Ids, NoId
  <2>2. QED
    BY <2>1 DEF NoCurrent, CurrentRecords
<1>5. /\ \E u \in CurrentRecords : current' = [current EXCEPT ![c] = u]
      /\ \E i \in Seq(Messages) : inbox' = [inbox EXCEPT ![c] = i]
      /\ \E w \in {"None", "Running", "Quitting"} : worker' = [worker EXCEPT ![c] = w]
  <2>1. <<>> \in Seq(Messages)
    OBVIOUS
  <2>2. QED
    BY <1>1, <1>4, <2>1
<1>6. TypeOK' /\ OnlyAt(c)
  BY <1>1, <1>2, <1>3, <1>5, SameAt, ComputerStepType
<1>7. inbox'[c] = <<>> /\ ~current'[c].open
  BY <1>1, <1>4, TypeAt
<1>8. OneTransfer(c)' /\ OpenIsOwn(c)'
  BY <1>1, <1>7, SameFiles DEF controllerVars
<1>9. Range(inbox'[c]) = {} /\ Sorted(late, c, inbox'[c])
  BY <1>7, EmptyInOrder
<1>10. Pieces(c)' \subseteq Pieces(c)
  BY <1>1, <1>9 DEF Pieces
<1>11. CInv(c)'
  <2>1. InLine(late', c, disk'[c], inbox'[c], queue'[c]) /\ \A n \in retries'[c] : <<c, n.id>> \in late'
    BY <1>1, <1>9 DEF CInv, InLine, Precedes
  <2>2. QED
    BY <1>6, <1>8, <1>10, <2>1, ComputerKeepsCInv
<1>12. QED
  BY <1>6, <1>11

\* What all handlers of the worker do.
LEMMA HandlesFacts ==
    ASSUME TypeOK, NEW c \in Computers, NEW type, Handles(c, type)
    PROVE  /\ inbox[c] \in Seq(Messages) /\ inbox[c] # <<>>
           /\ Head(inbox[c]) \in Messages /\ Head(inbox[c]).type = type
           /\ inbox'[c] = Tail(inbox[c]) /\ \E i \in Seq(Messages) : inbox' = [inbox EXCEPT ![c] = i]
           /\ UNCHANGED controllerVars /\ UNCHANGED transfers
           /\ UNCHANGED <<link, queue, loggedOn, retries, lost, late, faults>>
<1>1. inbox[c] \in Seq(Messages) /\ inbox[c] # <<>> /\ DOMAIN inbox = Computers
  BY TypeAt DEF Handles
<1>2. Head(inbox[c]) \in Messages /\ Tail(inbox[c]) \in Seq(Messages)
  BY <1>1
<1>3. inbox' = [inbox EXCEPT ![c] = Tail(inbox[c])] /\ Head(inbox[c]).type = type
  BY DEF Handles
<1>4. /\ UNCHANGED controllerVars /\ UNCHANGED transfers
      /\ UNCHANGED <<link, queue, loggedOn, retries, lost, late, faults>>
  BY DEF Handles, controllerVars, historyVars
<1>5. QED
  BY <1>1, <1>2, <1>3, <1>4

\* A handler that writes nothing, and may empty a file.
LEMMA HandlerKeepsCInv ==
    ASSUME TypeOK, NEW c \in Computers, CInv(c), NEW type, Handles(c, type),
           \E w \in {"None", "Running", "Quitting"} : worker' = [worker EXCEPT ![c] = w],
           \E u \in CurrentRecords : current' = [current EXCEPT ![c] = u],
           \E e \in [Files -> FileRecords] : disk' = [disk EXCEPT ![c] = e],
           \A f \in Files : disk'[c][f].chunks = disk[c][f].chunks \/ disk'[c][f].chunks = <<>>,
           OpenIsOwn(c)'
    PROVE  TypeOK' /\ OnlyAt(c) /\ CInv(c)'
<1>1. TypeOK' /\ OnlyAt(c)
  BY HandlesFacts, SameAt, ComputerStepType
<1>2. /\ InLine(late, c, disk'[c], Tail(inbox[c]), queue[c])
      /\ Range(Tail(inbox[c])) \subseteq Range(inbox[c])
  <2> DEFINE i == inbox[c]  d == disk[c]  e == disk'[c]  q == queue[c]
  <2>1. /\ InLine(late, c, d, i, q) /\ i \in Seq(Messages) /\ i # <<>>
        /\ \A f \in Files : e[f].chunks = d[f].chunks \/ e[f].chunks = <<>>
    BY HandlesFacts DEF CInv
  <2> HIDE DEF i, d, e, q
  <2>2. InLine(late, c, e, Tail(i), q) /\ Range(Tail(i)) \subseteq Range(i)
    BY <2>1, ReadInLine
  <2>3. QED
    BY <2>2 DEF i, d, e, q
<1>3. /\ inbox'[c] = Tail(inbox[c]) /\ queue'[c] = queue[c] /\ retries'[c] = retries[c]
      /\ late' = late /\ transfers' = transfers
  BY HandlesFacts
<1>4. \A f \in Files : Range(disk'[c][f].chunks) \subseteq Range(disk[c][f].chunks)
  BY EmptyInOrder
<1>5. OneTransfer(c)'
  <2> SUFFICES ASSUME NEW f \in Files, NEW x \in Range(disk'[c][f].chunks), NEW y \in Range(disk'[c][f].chunks)
               PROVE  x.id = y.id /\ (x.id # NoId => transfers[x.id].file = f)
    BY <1>3 DEF OneTransfer
  <2>1. x \in Range(disk[c][f].chunks) /\ y \in Range(disk[c][f].chunks)
    BY <1>4
  <2>2. QED
    BY <2>1 DEF CInv, OneTransfer
<1>6. Pieces(c)' \subseteq Pieces(c)
  <2>1. UNION {Range(disk'[c][f].chunks) : f \in Files} \subseteq UNION {Range(disk[c][f].chunks) : f \in Files}
    BY <1>4
  <2>2. QED
    BY <1>2, <1>3, <2>1 DEF Pieces
<1>7. InLine(late', c, disk'[c], inbox'[c], queue'[c]) /\ \A n \in retries'[c] : <<c, n.id>> \in late'
  BY <1>2, <1>3 DEF CInv
<1>8. QED
  BY <1>1, <1>5, <1>6, <1>7, ComputerKeepsCInv

\* What removing or emptying a file does to the files of a computer.
LEMMA EmptyFile ==
    ASSUME TypeOK, NEW c \in Computers, NEW g \in Files, NEW b \in BOOLEAN,
           disk' = [disk EXCEPT ![c][g] = [present |-> b, chunks |-> <<>>]]
    PROVE  /\ \E e \in [Files -> FileRecords] : disk' = [disk EXCEPT ![c] = e]
           /\ \A f \in Files : disk'[c][f].chunks = disk[c][f].chunks \/ disk'[c][f].chunks = <<>>
           /\ disk'[c][g].chunks = <<>>
<1> DEFINE none == [present |-> b, chunks |-> <<>>]
           e == [disk[c] EXCEPT ![g] = none]
<1>1. none \in FileRecords /\ none.chunks = <<>>
  <2>1. <<>> \in Seq(Chunks)
    OBVIOUS
  <2>2. QED
    BY <2>1 DEF FileRecords
<1> HIDE DEF none
<1>2. disk[c] \in [Files -> FileRecords] /\ c \in DOMAIN disk
  BY TypeAt
<1>3. e \in [Files -> FileRecords] /\ disk' = [disk EXCEPT ![c] = e] /\ disk'[c] = e
  BY <1>1, <1>2 DEF none
<1>4. \A f \in Files : e[f] = IF f = g THEN none ELSE disk[c][f]
  BY <1>2
<1>5. QED
  BY <1>1, <1>3, <1>4

LEMMA HandleStartStep ==
    ASSUME TypeOK, NEW c \in Computers, CInv(c), HandleStart(c)
    PROVE  TypeOK' /\ OnlyAt(c) /\ CInv(c)'
<1> DEFINE m == Head(inbox[c])
           t == transfers[m.id]
           refused  == [current[c] EXCEPT !.name = t.file, !.open = FALSE, !.asking = TRUE]
           accepted == [name |-> t.file, open |-> TRUE, id |-> m.id, asking |-> FALSE]
<1>1. Handles(c, "Start") /\ UNCHANGED worker
  BY DEF HandleStart
<1>2. m \in Messages /\ m.type = "Start" /\ m.id \in Ids /\ m.id # NoId /\ UNCHANGED transfers
  BY <1>1, HandlesFacts, MessageFacts
<1>3. t.file \in Files
  <2>1. m.id \in 1..Len(transfers)
    BY <1>2, ReadingIsTyped DEF Ids, NoId
  <2> DEFINE T == [file : Files, overwrite : BOOLEAN, cancelled : BOOLEAN]
  <2>2. transfers \in Seq(T)
    BY DEF TypeOK
  <2> HIDE DEF m, T
  <2>3. t \in T
    BY <2>1, <2>2
  <2>4. QED
    BY <2>3 DEF T
<1>4. refused \in CurrentRecords /\ accepted \in CurrentRecords /\ ~refused.open
  BY <1>2, <1>3, TypeAt DEF CurrentRecords
<1>5. c \in DOMAIN current /\ \E w \in {"None", "Running", "Quitting"} : worker' = [worker EXCEPT ![c] = w]
  BY <1>1, SameAt, TypeAt
<1>6. CASE current' = [current EXCEPT ![c] = refused] /\ UNCHANGED disk
  <2>1. (\E u \in CurrentRecords : current' = [current EXCEPT ![c] = u]) /\ ~current'[c].open
    BY <1>4, <1>5, <1>6
  <2>2. OpenIsOwn(c)'
    BY <2>1 DEF OpenIsOwn
  <2>3. \E e \in [Files -> FileRecords] : disk' = [disk EXCEPT ![c] = e]
    BY <1>6, SameAt
  <2>4. QED
    BY <1>1, <1>5, <1>6, <2>1, <2>2, <2>3, HandlerKeepsCInv
<1>7. CASE /\ current' = [current EXCEPT ![c] = accepted]
           /\ disk' = [disk EXCEPT ![c][t.file] = [present |-> TRUE, chunks |-> <<>>]]
  <2>1. /\ \E u \in CurrentRecords : current' = [current EXCEPT ![c] = u]
        /\ current'[c] = accepted
    BY <1>4, <1>5, <1>7
  <2>2. /\ \E e \in [Files -> FileRecords] : disk' = [disk EXCEPT ![c] = e]
        /\ \A f \in Files : disk'[c][f].chunks = disk[c][f].chunks \/ disk'[c][f].chunks = <<>>
        /\ disk'[c][t.file].chunks = <<>>
    BY <1>3, <1>7, EmptyFile
  <2>3. OpenIsOwn(c)'
    BY <1>2, <1>3, <2>1, <2>2, EmptyInOrder DEF OpenIsOwn
  <2>4. QED
    BY <1>1, <1>5, <2>1, <2>2, <2>3, HandlerKeepsCInv
<1>8. CASE /\ current' = [current EXCEPT ![c] = refused]
           /\ disk' = [disk EXCEPT ![c][t.file] = [present |-> TRUE, chunks |-> <<>>]]
  <2>1. (\E u \in CurrentRecords : current' = [current EXCEPT ![c] = u]) /\ ~current'[c].open
    BY <1>4, <1>5, <1>8
  <2>2. OpenIsOwn(c)'
    BY <2>1 DEF OpenIsOwn
  <2>3. /\ \E e \in [Files -> FileRecords] : disk' = [disk EXCEPT ![c] = e]
        /\ \A f \in Files : disk'[c][f].chunks = disk[c][f].chunks \/ disk'[c][f].chunks = <<>>
    BY <1>3, <1>8, EmptyFile
  <2>4. QED
    BY <1>1, <1>5, <2>1, <2>2, <2>3, HandlerKeepsCInv
<1>9. QED
  BY <1>6, <1>7, <1>8 DEF HandleStart, MayWrite, Refused, Emptied

LEMMA HandleDataStep ==
    ASSUME TypeOK, NEW c \in Computers, CInv(c), HandleData(c)
    PROVE  TypeOK' /\ OnlyAt(c) /\ CInv(c)'
<1> DEFINE m == Head(inbox[c])
           x == [id |-> m.id, number |-> m.number]
           g == current[c].name
<1>1. Handles(c, "Data") /\ UNCHANGED <<current, worker>>
  BY DEF HandleData
<1>2. /\ \E w \in {"None", "Running", "Quitting"} : worker' = [worker EXCEPT ![c] = w]
      /\ \E u \in CurrentRecords : current' = [current EXCEPT ![c] = u]
  BY <1>1, SameAt
<1>3. CASE UNCHANGED disk
  <2>1. \E e \in [Files -> FileRecords] : disk' = [disk EXCEPT ![c] = e]
    BY <1>3, SameAt
  <2>2. OpenIsOwn(c)'
    BY <1>1, <1>3, HandlesFacts DEF CInv, OpenIsOwn
  <2>3. QED
    BY <1>1, <1>2, <1>3, <2>1, <2>2, HandlerKeepsCInv
<1>4. CASE /\ m.id = current[c].id /\ current[c].open
           /\ disk' = [disk EXCEPT ![c][g].chunks = Append(disk[c][g].chunks, x)]
  <2>1. /\ g \in Files /\ current[c].id # NoId /\ transfers[current[c].id].file = g
        /\ \A y \in Range(disk[c][g].chunks) : y.id = current[c].id
    BY <1>4 DEF CInv, OpenIsOwn
  <2>2. x \in Chunks /\ x.id = m.id /\ x.number = m.number
    BY <1>1, HandlesFacts, MessageFacts DEF Chunks
  <2> HIDE DEF x
  <2>3. disk[c] \in [Files -> FileRecords] /\ c \in DOMAIN disk /\ disk[c][g] \in FileRecords
    BY <2>1, TypeAt
  <2> DEFINE longer == [disk[c][g] EXCEPT !.chunks = Append(disk[c][g].chunks, x)]
             e == [disk[c] EXCEPT ![g] = longer]
  <2>4. longer \in FileRecords /\ longer.chunks = Append(disk[c][g].chunks, x)
    <3>1. disk[c][g].chunks \in Seq(Chunks) /\ disk[c][g].present \in BOOLEAN
      BY <2>3 DEF FileRecords
    <3>2. Append(disk[c][g].chunks, x) \in Seq(Chunks)
      BY <2>2, <3>1
    <3>3. QED
      BY <2>3, <3>2 DEF FileRecords
  <2>5. disk' = [disk EXCEPT ![c] = e] /\ disk'[c] = e
    BY <1>4, <2>3
  <2> HIDE DEF longer, g
  <2>6. e \in [Files -> FileRecords] /\ \A f \in Files : e[f] = IF f = g THEN longer ELSE disk[c][f]
    BY <2>1, <2>3, <2>4
  <2> HIDE DEF e
  <2>7. TypeOK' /\ OnlyAt(c)
    <3>1. \E d \in [Files -> FileRecords] : disk' = [disk EXCEPT ![c] = d]
      BY <2>5, <2>6
    <3>2. QED
      BY <1>1, <1>2, <3>1, HandlesFacts, SameAt, ComputerStepType
  <2>8. /\ InLine(late, c, e, Tail(inbox[c]), queue[c])
        /\ Range(e[g].chunks) = Range(disk[c][g].chunks) \cup {x}
        /\ Head(inbox[c]) \in Range(inbox[c]) /\ Range(Tail(inbox[c])) \subseteq Range(inbox[c])
    <3> DEFINE i == inbox[c]  d == disk[c]  q == queue[c]
    <3>1. /\ InLine(late, c, d, i, q) /\ i \in Seq(Messages) /\ i # <<>>
          /\ Writes(d, e, i, g, x)
      BY <1>1, <2>1, <2>2, <2>3, <2>4, <2>6, HandlesFacts DEF CInv, FileRecords, Writes
    <3> HIDE DEF i, d, q
    <3>2. InLine(late, c, e, Tail(i), q)
      BY <3>1, WrittenInLine
    <3>3. Range(e[g].chunks) = Range(d[g].chunks) \cup {x}
      BY <3>1, WrittenInLine
    <3>4. Head(i) \in Range(i) /\ Range(Tail(i)) \subseteq Range(i)
      BY <3>1, TailInOrder DEF InLine
    <3>5. QED
      BY <3>2, <3>3, <3>4 DEF i, d, q
  <2>9. /\ inbox'[c] = Tail(inbox[c]) /\ queue'[c] = queue[c] /\ retries'[c] = retries[c]
        /\ late' = late /\ transfers' = transfers
    BY <1>1, HandlesFacts
  <2>10. \A f \in Files : f # g => disk'[c][f] = disk[c][f]
    BY <2>5, <2>6
  <2>11. \A y \in Range(disk'[c][g].chunks) : y.id = current[c].id
    BY <1>4, <2>1, <2>2, <2>5, <2>8
  <2>12. OneTransfer(c)'
    <3> SUFFICES ASSUME NEW f \in Files, NEW y \in Range(disk'[c][f].chunks), NEW z \in Range(disk'[c][f].chunks)
                 PROVE  y.id = z.id /\ (y.id # NoId => transfers[y.id].file = f)
      BY <2>9 DEF OneTransfer
    <3>1. CASE f = g
      BY <2>1, <2>11, <3>1
    <3>2. CASE f # g
      BY <2>10, <3>2 DEF CInv, OneTransfer
    <3>3. QED
      BY <3>1, <3>2
  <2>13. OpenIsOwn(c)'
    BY <1>1, <2>1, <2>9, <2>11 DEF OpenIsOwn, g
  <2>14. \A y \in Pieces(c)' : \E z \in Pieces(c) : z.id = y.id /\ z.number = y.number
    <3>1. \A y \in Pieces(c)' : y \in Pieces(c) \/ y = x
      BY <2>5, <2>8, <2>9, <2>10 DEF Pieces
    <3>2. m \in Pieces(c)
      BY <2>8 DEF Pieces
    <3>3. QED
      BY <2>2, <3>1, <3>2
  <2>15. InLine(late', c, disk'[c], inbox'[c], queue'[c]) /\ \A n \in retries'[c] : <<c, n.id>> \in late'
    BY <2>5, <2>8, <2>9 DEF CInv
  <2>16. QED
    BY <2>7, <2>12, <2>13, <2>14, <2>15, ComputerKeepsCInv
<1>5. QED
  BY <1>3, <1>4 DEF HandleData, IdMatches

LEMMA HandleCancelStep ==
    ASSUME TypeOK, NEW c \in Computers, CInv(c), HandleCancel(c)
    PROVE  TypeOK' /\ OnlyAt(c) /\ CInv(c)'
<1> DEFINE g == current[c].name
           closed == [current[c] EXCEPT !.open = FALSE]
<1>1. Handles(c, "Cancel") /\ UNCHANGED worker
  BY DEF HandleCancel
<1>2. \E w \in {"None", "Running", "Quitting"} : worker' = [worker EXCEPT ![c] = w]
  BY <1>1, SameAt
<1>3. CASE UNCHANGED <<disk, current>>
  <2>1. /\ \E e \in [Files -> FileRecords] : disk' = [disk EXCEPT ![c] = e]
        /\ \E u \in CurrentRecords : current' = [current EXCEPT ![c] = u]
    BY <1>3, SameAt
  <2>2. OpenIsOwn(c)'
    BY <1>1, <1>3, HandlesFacts DEF CInv, OpenIsOwn
  <2>3. QED
    BY <1>1, <1>2, <1>3, <2>1, <2>2, HandlerKeepsCInv
<1>4. CASE /\ g # NoFile
           /\ disk' = [disk EXCEPT ![c][g] = [present |-> FALSE, chunks |-> <<>>]]
           /\ current' = [current EXCEPT ![c].open = FALSE]
  <2>1. g \in Files /\ closed \in CurrentRecords /\ ~closed.open /\ c \in DOMAIN current
    BY <1>4, TypeAt DEF CurrentRecords
  <2>2. current' = [current EXCEPT ![c] = closed] /\ current'[c] = closed
    BY <1>4, <2>1
  <2>3. OpenIsOwn(c)'
    BY <2>1, <2>2 DEF OpenIsOwn
  <2>4. /\ \E e \in [Files -> FileRecords] : disk' = [disk EXCEPT ![c] = e]
        /\ \A f \in Files : disk'[c][f].chunks = disk[c][f].chunks \/ disk'[c][f].chunks = <<>>
    BY <1>4, <2>1, EmptyFile
  <2>5. QED
    BY <1>1, <1>2, <2>1, <2>2, <2>3, <2>4, HandlerKeepsCInv
<1>5. QED
  BY <1>3, <1>4 DEF HandleCancel

LEMMA HandleOtherStep ==
    ASSUME TypeOK, NEW c \in Computers, CInv(c), HandleFinish(c) \/ HandleStopWorker(c)
    PROVE  TypeOK' /\ OnlyAt(c) /\ CInv(c)'
<1>1. (\E type : Handles(c, type)) /\ UNCHANGED disk
  BY DEF HandleFinish, HandleStopWorker, workerVars
<1>2. \E w \in {"None", "Running", "Quitting"} : worker' = [worker EXCEPT ![c] = w]
  BY SameAt DEF HandleFinish, HandleStopWorker
<1>3. \E e \in [Files -> FileRecords] : disk' = [disk EXCEPT ![c] = e]
  BY <1>1, SameAt
<1>4. /\ \E u \in CurrentRecords : current' = [current EXCEPT ![c] = u]
      /\ OpenIsOwn(c)'
  <2>1. CASE HandleStopWorker(c)
    BY <1>1, <2>1, SameAt, HandlesFacts DEF HandleStopWorker, workerVars, CInv, OpenIsOwn
  <2>2. CASE HandleFinish(c)
    <3> DEFINE closed == [current[c] EXCEPT !.name = NoFile, !.open = FALSE]
    <3>1. closed \in CurrentRecords /\ ~closed.open /\ c \in DOMAIN current
      BY TypeAt DEF CurrentRecords
    <3>2. current' = [current EXCEPT ![c] = closed] /\ current'[c] = closed
      BY <2>2, <3>1 DEF HandleFinish
    <3>3. QED
      BY <3>1, <3>2 DEF OpenIsOwn
  <2>3. QED
    BY <2>1, <2>2
<1>5. QED
  BY <1>1, <1>2, <1>3, <1>4, HandlerKeepsCInv

-----------------------------------------------------------------------------
(* Theorems                                                                *)

LEMMA InitWInv == Init => WInv
<1> SUFFICES ASSUME Init, NEW c \in Computers PROVE CInv(c)
  BY InitType DEF WInv
<1>1. inbox[c] = <<>> /\ queue[c] = <<>> /\ retries[c] = {} /\ ~current[c].open /\ ~reader.active
  BY DEF Init, NoCurrent, NoReader
<1>2. \A f \in Files : disk[c][f].chunks \in {<<>>, <<OldChunk>>}
  BY DEF Init
<1>3. Range(<<OldChunk>>) = {OldChunk} /\ OldChunk.id = NoId /\ Sorted(late, c, <<OldChunk>>)
  BY DEF Range, OldChunk, Sorted
<1>4. InLine(late, c, disk[c], inbox[c], queue[c])
  BY <1>1, <1>2, <1>3, EmptyInOrder DEF InLine, Precedes
<1>5. OneTransfer(c)
  BY <1>2, <1>3, EmptyInOrder DEF OneTransfer
<1>6. QED
  BY <1>1, <1>4, <1>5 DEF CInv, NotAhead, OpenIsOwn

LEMMA ComputerStep ==
    ASSUME TypeOK, NEW c \in Computers, CInv(c), Computer(c)
    PROVE  TypeOK' /\ OnlyAt(c) /\ CInv(c)'
BY SendStep, LinkStep, RetryStep, EndWorkerStep,
   HandleStartStep, HandleDataStep, HandleCancelStep, HandleOtherStep
   DEF Computer, HandleMessage

LEMMA NextWInv == TypeOK /\ WInv /\ [Next]_vars => TypeOK' /\ WInv'
<1> SUFFICES ASSUME TypeOK, WInv, [Next]_vars PROVE TypeOK' /\ WInv'
  OBVIOUS
<1> USE DEF WInv
<1>1. CASE UNCHANGED vars
  <2>1. TypeOK'
    BY <1>1 DEF vars, controllerVars, serverVars, workerVars, historyVars, TypeOK, Ids, Messages,
                CurrentRecords, Chunks
  <2>2. Reading'
    BY <1>1 DEF vars, controllerVars, Reading
  <2>3. ASSUME NEW c \in Computers PROVE CInv(c)'
    BY <1>1 DEF vars, controllerVars, serverVars, workerVars, historyVars, CInv, NotAhead, Pieces,
                OneTransfer, OpenIsOwn
  <2>4. QED
    BY <2>1, <2>2, <2>3
<1>2. CASE (\E s \in Selections : StartRun(s)) \/ SkipFile \/ CheckQueues \/ ReadChunk
  <2>1. TypeOK' /\ Reading' /\ TransfersKept
    BY <1>2, StartRunType, SilentStepType, ReadChunkType
  <2>2. QED
    BY <1>2, <2>1, QuietStepKeepsCInv
<1>3. CASE OpenFile
  BY <1>3, OpenFileType, OpenFileKeepsCInv
<1>4. CASE SendChunk
  BY <1>4, SendChunkType, SendChunkKeepsCInv
<1>5. CASE FinishFile \/ Stop
  <2>1. TypeOK' /\ Reading' /\ TransfersKept
    BY <1>5, FinishFileType, StopType
  <2>2. QED
    BY <1>5, <2>1, EndKeepsCInv
<1>6. ASSUME NEW c \in Computers, Computer(c) PROVE TypeOK' /\ WInv'
  <2>1. TypeOK' /\ OnlyAt(c) /\ CInv(c)'
    BY <1>6, ComputerStep
  <2>2. Reading'
    BY <2>1 DEF OnlyAt, controllerVars, Reading
  <2>3. ASSUME NEW d \in Computers PROVE CInv(d)'
    BY <2>1, OthersKeepCInv
  <2>4. QED
    BY <2>1, <2>2, <2>3
<1>7. QED
  BY <1>1, <1>2, <1>3, <1>4, <1>5, <1>6 DEF Next, Process

\* Every variable has a value of its type: ids are those of transfers that have been
\* started, and the number of a chunk is never greater than its file is long.
THEOREM TypeCorrect == Spec => []TypeOK
<1>1. Init => TypeOK /\ WInv
  BY InitType, InitWInv
<1>2. QED
  BY <1>1, NextWInv, PTL DEF Spec

\* What is in a file came from one transfer, of this file, and each chunk of it was
\* written once and in order, whatever is lost and whoever dies, unless it was put back.
THEOREM OrderCorrect == Spec => []WrittenInOrder
<1>1. TypeOK /\ WInv => WrittenInOrder
  <2> SUFFICES ASSUME TypeOK, WInv, NEW c \in Computers, NEW f \in Files,
                      NEW i \in 1..Len(disk[c][f].chunks), NEW j \in 1..Len(disk[c][f].chunks)
               PROVE  LET chunks == disk[c][f].chunks
                      IN  /\ chunks[i].id = chunks[j].id
                          /\ chunks[i].id # NoId => transfers[chunks[i].id].file = f
                          /\ i < j /\ <<c, chunks[i].id>> \notin late => chunks[i].number < chunks[j].number
    BY DEF WrittenInOrder
  <2> DEFINE chunks == disk[c][f].chunks
  <2>1. chunks \in Seq(Chunks)
    BY DEF TypeOK
  <2>2. CInv(c) /\ Sorted(late, c, chunks)
    BY DEF WInv, CInv, InLine
  <2>3. /\ \A x, y \in Range(chunks) : x.id = y.id /\ (x.id # NoId => transfers[x.id].file = f)
    BY <2>2 DEF CInv, OneTransfer
  <2> HIDE DEF chunks
  <2>4. i \in DOMAIN chunks /\ j \in DOMAIN chunks
    BY <2>1 DEF chunks
  <2>5. chunks[i] \in Range(chunks) /\ chunks[j] \in Range(chunks)
    BY <2>4 DEF Range
  <2>6. chunks[i] \in Chunks /\ chunks[j] \in Chunks
    BY <2>1, <2>4
  <2>7. chunks[i].number # 0 /\ chunks[j].number # 0
    BY <2>6, SizeFacts DEF Chunks
  <2>8. i < j => Earlier(late, c, chunks[i], chunks[j])
    BY <2>2, <2>4 DEF Sorted
  <2>9. QED
    BY <2>3, <2>5, <2>7, <2>8 DEF Earlier, chunks
<1>2. Init => TypeOK /\ WInv
  BY InitType, InitWInv
<1>3. QED
  BY <1>1, <1>2, NextWInv, PTL DEF Spec
=============================================================================
