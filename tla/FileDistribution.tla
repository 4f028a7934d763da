-------------------------- MODULE FileDistribution --------------------------
(***************************************************************************)
(* Distribution of files by the file transfer plugin.  The master's        *)
(* FileTransferController cuts the chosen files into chunks and queues     *)
(* them on the connections of all computers; the servers forward every     *)
(* message to a worker process of the logged-on user, which writes the     *)
(* files.                                                                  *)
(*                                                                         *)
(* Between the two are a connection that may break and come back (what is  *)
(* queued while it is down is dropped, what was queued before is kept),    *)
(* the server's retries while nobody is logged on, each with a timer of    *)
(* its own, and a worker that ends when it is told to, while messages may  *)
(* be on their way to it.  FeatureWorkers models the manager of the        *)
(* workers in detail, ControlConnection the connection; here each is the   *)
(* queue it provides.                                                      *)
(***************************************************************************)
EXTENDS Naturals, Sequences, FiniteSets, Functions

CONSTANTS
    Computers,
    Files,
    NoFile,
    Size,         \* the chunks of each file; an empty file has one, an empty one
    Selections,   \* what may be chosen in the file dialog: sequences of files
    Unreadable,   \* files the master cannot open
    Unsure,       \* files a worker may fail to open
    Existing,     \* <<c, f>>: there is a file f on c at first
    MaxRuns,      \* bound: how often the user starts a distribution
    MaxEvents,    \* bound: distributions, connections that break and workers that die together
    MaxLate       \* bound: messages put back before a user logs on

ASSUME FileDistributionAssumption ==
    /\ Files # {} /\ NoFile \notin Files
    /\ Size \in [Files -> Nat \ {0}]
    /\ Selections \subseteq Seq(Files) \ {<<>>}
    /\ Unreadable \subseteq Files /\ Unsure \subseteq Files
    /\ Existing \subseteq Computers \X Files
    /\ MaxRuns \in Nat /\ MaxEvents \in Nat /\ MaxLate \in Nat

VARIABLES
    files,       \* m_files
    index,       \* m_currentFileIndex, from 1
    fileState,   \* m_fileState
    running,     \* is m_processTimer active?
    transferId,  \* m_currentTransferId
    overwrite,   \* OverwriteExistingFiles of m_flags
    reader,      \* m_fileReadThread: the last chunk it has read
    checked,     \* are the queues found empty and is the next chunk about to be sent?
    transfers,   \* history: the transfers started so far; their ids are 1, 2, ...
    link,        \* the connection to each computer: state() is Connected unless it is Down;
                 \* Failing when nothing reaches the server any more
    queue,       \* m_eventQueue of each connection
    loggedOn,    \* is a user logged on?
    retries,     \* messages waiting for UnmanagedSessionProcessRetryInterval
    inbox,       \* messages of the server the worker has not read
    worker,      \* the worker process
    current,     \* m_currentFile and m_currentTransferId of each worker
    disk,        \* the files on each computer
    lost,        \* history: <<c, t>>: a message of transfer t to c was lost
    late,        \* history: <<c, t>>: one was put back and came later
    faults, runs \* how many there have been

controllerVars == <<files, index, fileState, running, transferId, overwrite, reader, checked, transfers, runs>>
serverVars     == <<loggedOn, retries, inbox, worker>>
workerVars     == <<current, disk>>
historyVars    == <<lost, late>>
vars == <<controllerVars, link, queue, serverVars, workerVars, historyVars, faults>>

Connected(c) == link[c] # "Down"

NoId      == 0
NoReader  == [active |-> FALSE, pos |-> 0, ready |-> FALSE]
NoCurrent == [name |-> NoFile, open |-> FALSE, id |-> NoId, asking |-> FALSE]
\* A chunk that was on the disk before the first distribution.
OldChunk  == [id |-> NoId, number |-> 1]

MaxTransfers == MaxRuns * Cardinality(Files \ Unreadable)
\* The transfers started so far, and no transfer: every id that is used is one of these.
Ids          == 0..Len(transfers)
ChunkNumbers == UNION {1..Size[f] : f \in Files}
\* Only a Start and the Data always belong to a transfer; only Data has a number.
Messages     == [type : {"Start"}, id : Ids \ {NoId}, number : {0}]
                \cup [type : {"Data"}, id : Ids \ {NoId}, number : ChunkNumbers]
                \cup [type : {"Finish", "Cancel", "StopWorker"}, id : Ids, number : {0}]
Message(type, id)   == [type |-> type, id |-> id, number |-> 0]
DataMessage(id, n)  == [type |-> "Data", id |-> id, number |-> n]

\* The transfers of the messages ms to c, as members of `lost' or `late'.
Affected(c, ms) == {<<c, m.id>> : m \in ms}

Init ==
    /\ files = <<>> /\ index = 1
    /\ fileState = "Finished"
    /\ running = FALSE
    /\ transferId = NoId
    /\ overwrite = FALSE
    /\ reader = NoReader
    /\ checked = FALSE
    /\ transfers = <<>>
    /\ link = [c \in Computers |-> "Up"]
    /\ queue = [c \in Computers |-> <<>>]
    /\ loggedOn \in [Computers -> BOOLEAN]
    /\ retries = [c \in Computers |-> {}]
    /\ inbox = [c \in Computers |-> <<>>]
    /\ worker = [c \in Computers |-> "None"]
    /\ current = [c \in Computers |-> NoCurrent]
    /\ disk = [c \in Computers |-> [f \in Files |->
                 IF <<c, f>> \in Existing THEN [present |-> TRUE, chunks |-> <<OldChunk>>]
                                          ELSE [present |-> FALSE, chunks |-> <<>>]]]
    /\ lost = {} /\ late = {}
    /\ faults = 0 /\ runs = 0

-----------------------------------------------------------------------------
(* The master: FileTransferController.  Its slots run in the main thread,  *)
(* so that none comes between CheckQueues and SendChunk, which are one     *)
(* tick; the threads of the connections may.                               *)

\* sendFeatureMessage() for every interface, and enqueueEvent() of its
\* connection: messages to a computer that is not connected are dropped.
SendAll(ms) ==
    /\ queue' = [c \in Computers |-> IF Connected(c) THEN queue[c] \o ms ELSE queue[c]]
    /\ lost' = lost \cup UNION {Affected(c, Range(ms)) : c \in {d \in Computers : ~Connected(d)}}

Controller == /\ ~checked
              /\ UNCHANGED <<link, serverVars, workerVars, late, faults>>

\* The user chooses files and options in the dialogs: controlFeature() with
\* Initialize, then FileTransferDialog::accept().  The dialog is modal and
\* stays until the run has ended or is stopped.
StartRun(s) ==
    /\ Controller
    /\ ~running /\ runs < MaxRuns /\ runs + faults < MaxEvents
    /\ files' = s
    /\ index' = 1
    /\ fileState' = "Open"
    /\ overwrite' \in BOOLEAN
    /\ running' = TRUE
    /\ runs' = runs + 1
    /\ UNCHANGED <<transferId, reader, checked, transfers, queue, lost>>

\* openFile(); the index is always that of a file, as setFiles() is not called
\* while a run goes on.
OpenFile ==
    /\ Controller
    /\ running /\ fileState = "Open"
    /\ files[index] \notin Unreadable
    /\ reader' = [NoReader EXCEPT !.active = TRUE]
    /\ transferId' = Len(transfers) + 1
    /\ transfers' = Append(transfers, [file |-> files[index], overwrite |-> overwrite, cancelled |-> FALSE])
    /\ SendAll(<<Message("Start", transferId')>>)
    /\ fileState' = "Transferring"
    /\ UNCHANGED <<files, index, running, overwrite, checked, runs>>

\* The file cannot be opened: no transfer begins.
SkipFile ==
    /\ Controller
    /\ running /\ fileState = "Open"
    /\ files[index] \in Unreadable
    /\ fileState' = "Finished"
    /\ UNCHANGED <<files, index, running, transferId, overwrite, reader, checked, transfers, runs, queue, lost>>

\* Mutant: the position is advanced at the end of the file, too.
ReadChunkBeyond ==
    /\ Controller
    /\ reader.active /\ ~reader.ready
    /\ reader' = [reader EXCEPT !.ready = TRUE, !.pos = @ + 1]
    /\ UNCHANGED <<files, index, fileState, running, transferId, overwrite, checked, transfers, runs, queue, lost>>

\* FileReadThread::readNextChunk(); at the end of the file it reads nothing.  The
\* size of a file does not change while it is transferred: one that becomes
\* shorter would never be at its end.
ReadChunk ==
    /\ Controller
    /\ reader.active /\ ~reader.ready
    /\ reader' = [reader EXCEPT !.ready = TRUE,
                                !.pos = IF @ < Size[files[index]] THEN @ + 1 ELSE @]
    /\ UNCHANGED <<files, index, fileState, running, transferId, overwrite, checked, transfers, runs, queue, lost>>

\* Mutant: what a computer has queued counts although it is gone.
QueueEmptyOfAll(c) == queue[c] = <<>>

\* isMessageQueueEmpty(): of a computer that is not connected it is.
QueueEmpty(c) == Connected(c) => queue[c] = <<>>

\* While a file is transferred it has a reader: transferFile() never finds none.
\* transferFile() waits for all computers to catch up ...
CheckQueues ==
    /\ Controller
    /\ running /\ fileState = "Transferring"
    /\ reader.ready
    /\ \A c \in Computers : QueueEmpty(c)
    /\ checked' = TRUE
    /\ UNCHANGED <<files, index, fileState, running, transferId, overwrite, reader, transfers, runs, queue, lost>>

\* ... and sends them the chunk then.
SendChunk ==
    /\ checked
    /\ SendAll(<<DataMessage(transferId, reader.pos)>>)
    /\ reader' = [reader EXCEPT !.ready = FALSE]
    /\ fileState' = IF reader.pos >= Size[files[index]] THEN "Finished" ELSE "Transferring"
    /\ checked' = FALSE
    /\ UNCHANGED <<files, index, running, transferId, overwrite, transfers, runs,
                   link, serverVars, workerVars, late, faults>>

\* The third state of process(): finishFile() for a file that was opened,
\* then the next file or the end.
FinishFile ==
    /\ Controller
    /\ running /\ fileState = "Finished"
    /\ LET last     == index >= Len(files)
           finish   == IF reader.active THEN <<Message("Finish", transferId)>> ELSE <<>>
           stopping == IF last THEN <<Message("StopWorker", NoId)>> ELSE <<>>
       IN  /\ SendAll(finish \o stopping)
           /\ transferId' = IF reader.active THEN NoId ELSE transferId
           /\ running' = ~last
           /\ fileState' = IF last THEN "Finished" ELSE "Open"
    /\ reader' = NoReader
    /\ index' = index + 1
    /\ UNCHANGED <<files, overwrite, checked, transfers, runs>>

\* The user closes the dialog of a run: stop().  The transfer keeps its id.
Stop ==
    /\ Controller
    /\ running
    /\ running' = FALSE
    /\ reader' = NoReader
    /\ SendAll(<<Message("Cancel", transferId)>>)
    /\ transfers' = IF transferId = NoId THEN transfers
                                         ELSE [transfers EXCEPT ![transferId].cancelled = TRUE]
    /\ UNCHANGED <<files, index, fileState, transferId, overwrite, checked, runs>>

Process == OpenFile \/ SkipFile \/ CheckQueues \/ SendChunk \/ FinishFile

-----------------------------------------------------------------------------
(* The connection to a computer, VncConnection, and the server, which      *)
(* passes every message on: handleFeatureMessage() of the plugin and       *)
(* FeatureWorkerManager::sendMessageToUnmanagedSessionWorker().  What a    *)
(* connection still carries when it breaks is lost, so that a message is   *)
(* either passed on when it is sent or lost as all after it.               *)

\* Is there a worker for c, or can one be started?
WorkerPossible(c) == worker[c] # "None" \/ loggedOn[c]

PassToWorker(c, m) ==
    /\ worker' = [worker EXCEPT ![c] = IF @ = "None" THEN "Running" ELSE @]
    /\ inbox' = [inbox EXCEPT ![c] = Append(@, m)]

\* sendEvents()
Fire(c) ==
    /\ Connected(c) /\ queue[c] # <<>>
    /\ queue' = [queue EXCEPT ![c] = Tail(@)]
    /\ UNCHANGED <<controllerVars, link, loggedOn, workerVars, faults>>

Deliver(c) ==
    /\ link[c] = "Up" /\ Fire(c)
    /\ WorkerPossible(c)
    /\ PassToWorker(c, Head(queue[c]))
    /\ UNCHANGED <<retries, historyVars>>

\* No worker can be started: the server tries again later.
PutBack(c) ==
    /\ link[c] = "Up" /\ Fire(c)
    /\ ~WorkerPossible(c) /\ Cardinality(retries[c]) < MaxLate
    /\ retries' = [retries EXCEPT ![c] = @ \cup {Head(queue[c])}]
    /\ late' = late \cup Affected(c, {Head(queue[c])})
    /\ UNCHANGED <<worker, inbox, lost>>

Lose(c) ==
    /\ link[c] = "Failing" /\ Fire(c)
    /\ lost' = lost \cup Affected(c, {Head(queue[c])})
    /\ UNCHANGED <<worker, inbox, retries, late>>

Send(c) == Deliver(c) \/ PutBack(c) \/ Lose(c)

Fail(c) ==
    /\ link[c] = "Up" /\ runs + faults < MaxEvents
    /\ link' = [link EXCEPT ![c] = "Failing"]
    /\ faults' = faults + 1
    /\ UNCHANGED <<controllerVars, queue, serverVars, workerVars, historyVars>>

\* handleConnection() notices and closeConnection() follows.
Close(c) ==
    /\ link[c] = "Failing"
    /\ link' = [link EXCEPT ![c] = "Down"]
    /\ UNCHANGED <<controllerVars, queue, serverVars, workerVars, historyVars, faults>>

\* establishConnection(): the queue is what it was.
Connect(c) ==
    /\ link[c] = "Down"
    /\ link' = [link EXCEPT ![c] = "Up"]
    /\ UNCHANGED <<controllerVars, queue, serverVars, workerVars, historyVars, faults>>

\* The timer of one of the messages put back fires.
Retry(c, m) ==
    /\ m \in retries[c]
    /\ WorkerPossible(c)
    /\ retries' = [retries EXCEPT ![c] = @ \ {m}]
    /\ PassToWorker(c, m)
    /\ UNCHANGED <<controllerVars, link, queue, loggedOn, workerVars, historyVars, faults>>

LogOn(c) ==
    /\ ~loggedOn[c]
    /\ loggedOn' = [loggedOn EXCEPT ![c] = TRUE]
    /\ UNCHANGED <<controllerVars, link, queue, retries, inbox, worker, workerVars, historyVars, faults>>

-----------------------------------------------------------------------------
(* The worker: FileTransferPlugin::handleDistributeFilesMessage()          *)

\* The worker of c takes the next message, of the given type.
Handles(c, type) ==
    /\ worker[c] # "None" /\ ~current[c].asking
    /\ inbox[c] # <<>> /\ Head(inbox[c]).type = type
    /\ inbox' = [inbox EXCEPT ![c] = Tail(@)]
    /\ UNCHANGED <<controllerVars, link, queue, loggedOn, retries, historyVars, faults>>

IdMatches(c) == Head(inbox[c]).id = current[c].id

\* The file of the message, one that is there already only if it may be overwritten.
MayWrite(c, t) == disk[c][t.file].present => t.overwrite

\* The file is named, no file is open, and the user has to confirm a message;
\* the id of the transfer before stays.
Refused(c, t) == [current[c] EXCEPT !.name = t.file, !.open = FALSE, !.asking = TRUE]

Emptied(c, t) == [disk EXCEPT ![c][t.file] = [present |-> TRUE, chunks |-> <<>>]]

\* Mutant: the id of the transfer is not taken over.
HandleStartKeepingId(c) ==
    /\ Handles(c, "Start")
    /\ LET t == transfers[Head(inbox[c]).id]
           started == [current[c] EXCEPT !.name = t.file, !.open = TRUE]
       IN  \/ /\ ~MayWrite(c, t) \/ t.file \in Unsure
              /\ current' = [current EXCEPT ![c] = Refused(c, t)]
              /\ UNCHANGED disk
           \/ /\ MayWrite(c, t)
              /\ \/ current' = [current EXCEPT ![c] = started]
                 \/ t.file \in Unsure /\ current' = [current EXCEPT ![c] = Refused(c, t)]
              /\ disk' = Emptied(c, t)
    /\ UNCHANGED worker

\* The file before is closed.  A file that exists and is not to be overwritten
\* is refused; so is one that cannot be opened, which may be empty then, as
\* openFileSafely() looks for the owner of a file after it has truncated it.
HandleStart(c) ==
    /\ Handles(c, "Start")
    /\ LET t == transfers[Head(inbox[c]).id]
           started == [name |-> t.file, open |-> TRUE, id |-> Head(inbox[c]).id, asking |-> FALSE]
       IN  \/ /\ ~MayWrite(c, t) \/ t.file \in Unsure
              /\ current' = [current EXCEPT ![c] = Refused(c, t)]
              /\ UNCHANGED disk
           \/ /\ MayWrite(c, t)
              /\ \/ current' = [current EXCEPT ![c] = started]
                 \/ t.file \in Unsure /\ current' = [current EXCEPT ![c] = Refused(c, t)]
              /\ disk' = Emptied(c, t)
    /\ UNCHANGED worker

\* Mutant: chunks are written whatever transfer they belong to.
HandleAnyData(c) ==
    /\ Handles(c, "Data")
    /\ LET m == Head(inbox[c])
       IN  disk' = IF current[c].open
                   THEN [disk EXCEPT ![c][current[c].name].chunks = Append(@, [id |-> m.id, number |-> m.number])]
                   ELSE disk
    /\ UNCHANGED <<current, worker>>

\* Writing to a file that is not open does nothing.
HandleData(c) ==
    /\ Handles(c, "Data")
    /\ LET m == Head(inbox[c])
       IN  disk' = IF IdMatches(c) /\ current[c].open
                   THEN [disk EXCEPT ![c][current[c].name].chunks = Append(@, [id |-> m.id, number |-> m.number])]
                   ELSE disk
    /\ UNCHANGED <<current, worker>>

\* Mutant: whatever file is at hand is removed.
HandleAnyCancel(c) ==
    /\ Handles(c, "Cancel")
    /\ LET removing == current[c].name # NoFile
       IN  /\ disk' = IF removing THEN [disk EXCEPT ![c][current[c].name] = [present |-> FALSE, chunks |-> <<>>]]
                                  ELSE disk
           /\ current' = IF removing THEN [current EXCEPT ![c].open = FALSE] ELSE current
    /\ UNCHANGED worker

\* QFile::remove() closes the file; with an empty name it does nothing.
HandleCancel(c) ==
    /\ Handles(c, "Cancel")
    /\ LET removing == IdMatches(c) /\ current[c].name # NoFile
       IN  /\ disk' = IF removing THEN [disk EXCEPT ![c][current[c].name] = [present |-> FALSE, chunks |-> <<>>]]
                                  ELSE disk
           /\ current' = IF removing THEN [current EXCEPT ![c].open = FALSE] ELSE current
    /\ UNCHANGED worker

\* The id is not compared.
HandleFinish(c) ==
    /\ Handles(c, "Finish")
    /\ current' = [current EXCEPT ![c] = [@ EXCEPT !.name = NoFile, !.open = FALSE]]
    /\ UNCHANGED <<disk, worker>>

\* quit(): the messages that have been received are still handled.
HandleStopWorker(c) ==
    /\ Handles(c, "StopWorker")
    /\ worker' = [worker EXCEPT ![c] = "Quitting"]
    /\ UNCHANGED workerVars

HandleMessage(c) ==
    HandleStart(c) \/ HandleData(c) \/ HandleCancel(c) \/ HandleFinish(c) \/ HandleStopWorker(c)

\* The user confirms that a file is not received.
Confirm(c) ==
    /\ current[c].asking
    /\ current' = [current EXCEPT ![c].asking = FALSE]
    /\ UNCHANGED <<controllerVars, link, queue, serverVars, disk, historyVars, faults>>

\* The process ends, and with it what was sent to it.
EndWorker(c) ==
    /\ worker' = [worker EXCEPT ![c] = "None"]
    /\ inbox' = [inbox EXCEPT ![c] = <<>>]
    /\ current' = [current EXCEPT ![c] = NoCurrent]
    /\ lost' = lost \cup Affected(c, Range(inbox[c]))
                    \cup (IF current[c].open THEN {<<c, current[c].id>>} ELSE {})
    /\ UNCHANGED <<controllerVars, link, queue, loggedOn, retries, disk, late>>

WorkerQuits(c) ==
    /\ worker[c] = "Quitting" /\ ~current[c].asking
    /\ EndWorker(c)
    /\ UNCHANGED faults

WorkerDies(c) ==
    /\ worker[c] # "None" /\ runs + faults < MaxEvents
    /\ EndWorker(c)
    /\ faults' = faults + 1

-----------------------------------------------------------------------------
Computer(c) ==
    \/ Send(c) \/ Fail(c) \/ Close(c) \/ Connect(c)
    \/ LogOn(c)
    \/ \E m \in retries[c] : Retry(c, m)
    \/ HandleMessage(c) \/ Confirm(c)
    \/ WorkerQuits(c) \/ WorkerDies(c)

Next ==
    \/ \E s \in Selections : StartRun(s)
    \/ Process \/ ReadChunk \/ Stop
    \/ \E c \in Computers : Computer(c)

Spec == Init /\ [][Next]_vars

\* The controller's timer and reader, the threads of the connections, the
\* servers and the workers go on; the user of the master, faults and
\* reconnections need not.  Users log on because the messages put back for
\* them are bounded.
FairSpec ==
    /\ Spec
    /\ WF_vars(Process) /\ WF_vars(ReadChunk)
    /\ \A c \in Computers : WF_vars(Send(c)) /\ WF_vars(HandleMessage(c)) /\ WF_vars(LogOn(c))

-----------------------------------------------------------------------------
(* Properties                                                              *)

CurrentRecords == [name : Files \cup {NoFile}, open : BOOLEAN, id : Ids, asking : BOOLEAN]
Chunks         == [id : Ids, number : ChunkNumbers]

\* Every variable has a value of its type.
TypeOK ==
    /\ files \in Selections \cup {<<>>} /\ index \in 1..(Len(files) + 1)
    /\ fileState \in {"Open", "Transferring", "Finished"}
    /\ running \in BOOLEAN /\ overwrite \in BOOLEAN /\ checked \in BOOLEAN
    /\ transferId \in Ids
    /\ reader \in [active : BOOLEAN, pos : {0} \cup ChunkNumbers, ready : BOOLEAN]
    /\ transfers \in Seq([file : Files, overwrite : BOOLEAN, cancelled : BOOLEAN])
    /\ link \in [Computers -> {"Up", "Failing", "Down"}] /\ loggedOn \in [Computers -> BOOLEAN]
    /\ queue \in [Computers -> Seq(Messages)]
    /\ inbox \in [Computers -> Seq(Messages)] /\ retries \in [Computers -> SUBSET Messages]
    /\ worker \in [Computers -> {"None", "Running", "Quitting"}]
    /\ current \in [Computers -> CurrentRecords]
    /\ disk \in [Computers -> [Files -> [present : BOOLEAN, chunks : Seq(Chunks)]]]
    /\ lost \subseteq Computers \X Ids /\ late \subseteq Computers \X Ids
    /\ faults \in 0..MaxEvents /\ runs \in 0..MaxRuns

Whole(f, t) == [n \in 1..Size[f] |-> [id |-> t, number |-> n]]

\* What is in a file came from one transfer, of this file, each chunk once and
\* in order, whatever is lost, repeated or written by a worker that dies: the id
\* each message carries keeps the pieces of two transfers apart, and the queues of
\* VncConnection and of the server keep the order.  Only messages put back while
\* nobody was logged on come in any order.
WrittenInOrder ==
    \A c \in Computers, f \in Files :
        LET chunks == disk[c][f].chunks
        IN  \A i, j \in 1..Len(chunks) :
                /\ chunks[i].id = chunks[j].id
                /\ chunks[i].id # NoId => transfers[chunks[i].id].file = f
                /\ i < j /\ <<c, chunks[i].id>> \notin late => chunks[i].number < chunks[j].number

\* A cancellation removes the file of the transfer it is about, never one
\* that was there before or that another transfer has written
\* (CancelFileTransfer), on computers all messages have reached in order.
CancelRemovesItsOwn ==
    [][\A c \in Computers, f \in Files :
          (disk[c][f].present /\ ~disk'[c][f].present /\ \A t \in Ids : <<c, t>> \notin lost \cup late)
          => \A a \in Range(disk[c][f].chunks) : a.id # NoId /\ a.id = Head(inbox[c]).id]_vars

\* Every distribution ends: no computer can hold up the others for ever, as
\* one whose connection is lost is no longer waited for (isMessageQueueEmpty()).
DistributionEnds == running ~> ~running

\* A transfer on its way to a computer is written completely there, unless it is
\* cancelled, a message of it is lost, one for this computer is put back, the
\* connection is down, or the worker waits for its user: the file was refused,
\* or one before it.
UndisturbedIsReceived ==
    \A c \in Computers, t \in 1..MaxTransfers :
        (\E m \in Range(queue[c] \o inbox[c]) : m.type = "Start" /\ m.id = t) ~>
            \/ \E f \in Files : disk[c][f].chunks = Whole(f, t)
            \/ t <= Len(transfers) /\ transfers[t].cancelled
            \/ <<c, t>> \in lost \/ \E u \in Ids : <<c, u>> \in late
            \/ current[c].asking
            \/ ~Connected(c)
=============================================================================
