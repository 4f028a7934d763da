# Veyon in TLA+

Veyon is a classroom management system. A *master* application shows and
controls the computers of a room; a *server* on every computer lets masters in,
subject to authentication, access control rules and the consent of the person
at the computer; *workers* are helper processes the server starts in the user's
session; a *service* starts a server for every log-in session. This repository
is a distribution of Veyon with an additional location service.

This directory models the parts of that system whose correctness depends on the
order of events, checks the models with TLC on small instances and proves the
most important results with TLAPS. `PROJECT.json` lists components, runs,
mutants, the source lines behind every definition, findings, hazards and
theorems.

Contents: [inventory](#inventory) · [plan](#plan) · [modules](#modules) ·
[runs](#runs-and-bounds) · [fairness](#fairness) · [proofs](#proofs) ·
[results](#what-the-models-showed) · [limits](#what-is-not-shown)

## Inventory

How the parts talk to each other:

```
 master                                server (one thread)                 worker processes
 ComputerControlInterface              VncProxyServer/VncProxyConnection
   VncConnection (one thread each) --RFB--> VncServerProtocol
   FeatureMessage  ---------------->     ServerAuthenticationManager
                                         ServerAccessControlManager ----> DesktopAccessDialog
                                           AccessControlProvider (rules)       ^
                                         FeatureWorkerManager <--TCP, local--> FeatureWorkerManagerConnection
                                         VNC server (local) <-- forwarded RFB
 WebAPI: HTTP threads + worker thread, a VncConnection per session
 service (Linux/Windows): one server process per log-in session
```

### Server: connections, authentication, access control
*State:* per client the state of the RFB handshake, of authentication and of
access control; the list of clients with access; the open question; remembered
choices. *Operations:* accept, each step of the handshake, the check when a
client arrives and when another one leaves, the answer to the dialog, its
time-out, the end of its worker, the deferred close and deletion of
connections. *Hard:* everything is one event loop, but a decision is spread over
many events: the dialog answers later, while clients come, leave and are
checked again. *Correct when* nobody is served who was not authenticated and
decided about, the list of clients with access is what it says, a denial is
final, every question is resolved.

### Access control rules
*State:* the configuration. *Operations:* decide about a request; decide whether
everybody is denied. A pure algorithm of ordered rules with inverted conditions
and subjects that may be unknown. *Hard:* the combination of inversion, unknown
or absent subjects, order, and two evaluations (for a request and for nobody)
that should agree. *Correct when* each grant has a reason, the first rule that
applies decides, and the unknown match nothing.

### Feature workers
*State:* per feature a process, its socket, pending messages; kill timers;
retries. *Operations:* start (managed or as the user), send, accept, first
message, forward, stop, connection closed, destruction. *Hard:* processes are
identified by the feature they name in their first message; starts, stops and
ends overlap. *Correct when* messages reach the worker of their feature once
and in order, ended workers are forgotten and forgotten workers end.

### Master: control connections
*State:* a thread per computer with control flags, the connection's state, the
interface's view of it, its watchdog. *Operations:* start, stop and delete,
restart, denial by the server, signals queued to the main thread. *Hard:* flags
are shared by two threads without an order between them; the object is deleted
by either. *Correct when* nothing uses a deleted object, every dropped thread
ends and is deleted, the state shown follows the connection's, and a restart is
not lost.

### File transfer
*State:* the controller's file, position and transfer id; a queue per
connection; the worker's open file. *Operations:* select, open, send a chunk,
finish, cancel; write, remove, close; the collection of files as the reverse,
with an answer per step. *Hard:* connections break and come back with their old
queue, messages are put back while nobody is logged on, workers quit while
messages are under way. *Correct when* a file holds the pieces of one transfer
in order, and all of them unless some were lost; a cancellation removes its own
file; every run ends.

### Demo
*State:* a queue of framebuffer updates since the last key frame, a position in
it per viewer, the connection to the computer's VNC server. *Operations:* ask
for an update, add one, start a new key frame, send a viewer what it has not
seen, connect again. *Hard:* viewers come and lag behind while the queue starts
anew, for several reasons, and each is served by a thread. *Correct when* what a
viewer shows was on the screen, its queue is bounded, and it shows the current
screen in the end.

### Web API
*State:* a table of connections with timers, shared by the threads of a pool, one
worker thread and the main thread. *Operations:* authenticate, check, use,
control, close, time out. *Hard:* locks given up between a check and its use,
pointers to what another thread removes, a thread waited for while a lock it
needs is held. *Correct when* the limit holds, nothing in use is deleted,
requests end and connections go away.

### Services and sessions
*State:* server processes per session, deferred starts and their timers, session
numbers. *Operations:* sessions come, change and go; timers fire; processes end.
*Hard:* the login manager's signals and its answers are not in step, deferred
starts overlap with both, and no timer is ever cancelled. *Correct when* each
session that should have a server has exactly one, with a number of its own, and
a removed one has none.

### Location service
*State:* an event log and a file per device. *Operations:* report, list, purge,
by threads of one server. *Hard:* files are read, rewritten and appended to
without a lock. *Correct when* a purge loses no report and a reader sees whole
files. Not modelled.

### The rest
The directory of rooms and computers (a tree updated from a back end), the
configuration, authentication keys, the user interface of the master and the
configurator, the command line, the platform wrappers, the desktop features
(each forwards a message to a worker or calls the platform once), installation
scripts and fuzzing entry points are sequential or pure input and output; each
is listed in `PROJECT.json` with its reason. The hazards there name the lines
where something can go wrong that a test would hardly reach, with the
properties that speak about them.

## Plan

In this order, the behaviour that matters most first; each with an MC module
and a run of its own. Parameters are constants with named assumptions, every
handler is one action, invariants are conjunctions of named parts, and no module
declares a recursive operator, so that each can be proved about.

| | modules | abstract promise | theorems | state |
|-|---------|------------------|----------|-------|
| 1 | `ServerAccess` over `AccessGate` | a gate that serves nobody it has not granted | all invariants, refinement | proved |
| 2 | `AccessRules`, `AccessDecisions`, `RuledServerAccess` | – | equal groups, equal decision; grants are justified; one at a time | proved |
| 3 | `FeatureWorkers` | – | types, a live connection per worker, order | proved |
| 4 | `ControlConnection` | – | types, deleted objects are unused, shown state is due | proved |
| 5 | `FileDistribution` | – | types, written in order | proved |
| 6 | `LinuxService` | – | types, servers and numbers are apart, removed sessions | proved |
| 7 | `WebApiController` | – | the limit, pointers are valid | proved |
| 8 | `DemoServer` | – | types, the pictures were on the screen | proved |

What remains is `CancelRemovesItsOwn` of line 5, an action property. Not planned:
the forwarding of RFB messages, the monitoring features, the collection of files
and the location service, whose hazards weigh less than those above.

## Modules

| Module | Models |
|--------|--------|
| `ServerAccess` | a connection's way through the server: handshake, authentication, access control, dialog, deletion |
| `AccessGate` | what that way promises: a client is admitted only after it was granted, and grants are a set |
| `AccessRules` | operators for the evaluation of access control rules |
| `AccessDecisions` | a server that starts, is asked and sees users log on and off, deciding by `AccessRules` |
| `RuledServerAccess` | `ServerAccess` whose verdicts are those of `AccessRules` |
| `FeatureWorkers` | the server's worker manager and the worker processes |
| `ControlConnection` | a master's connection thread, its deletion and the interface that shows it |
| `FileDistribution` | the file transfer controller, the connections' queues, the servers and the workers that write |
| `LinuxService` | the service that starts and stops servers with the sessions of the login manager |
| `WebApiController` | the requests, the worker thread and the connection table of the web API |
| `DemoServer` | the demo server: its queue of updates, its viewers and its VNC server |
| `*Proofs` | the theorems about the module of that name |
| `MC*` | instances: values of the constants |

A definition preceded by a comment `Mutant:` is a faulty variant of the one after
it. It belongs to no specification; it shows which mistake a property detects.

### ServerAccess
One state machine per connection, as in `VncServerProtocol::read()`:
`protocolState` takes the handshake's states, `authState` those of
`VncServerClient::AuthState`, `accessControlState` likewise. `conn` is the socket
and the object: `Open`, `Dropped` once the socket is closed, `Absent` when the
object is deleted, which happens later (`deleteLater`) and runs
`removeClient()`. `m_clients`, `choices` (`m_desktopAccessChoices`), `dialog`
(what `DesktopAccessDialog` is asking), `listeners` (who is connected to its
`finished` signal) and `abortTimer` are the manager's and the dialog's. The
handlers are single actions: `CheckClient` is a whole `addClient()`,
`DeleteConnection` a whole `removeClient()`, with the new check of every other
client and the order of the list that results. Keys, passwords and tokens are
the nondeterministic outcome of an exchange; the verdict of the rules is drawn
from `Verdicts`, a constant, so that every theorem holds for any rules.
`RuledServerAccess` instantiates it with the real ones.

### AccessRules and AccessDecisions
A rule is a record with an action, an inversion flag and a function from
conditions to their parameters; a query holds what a request and the computer's
state provide. `MatchConditions`, `ProcessAccessControlRules` and `CheckAccess`
carry the names and the order of the code. Back ends (groups, locations) are
constant functions. `AccessDecisions` adds the state it is used in, a local user
who logs on and off and a server that chooses its listening address when it
starts.

### FeatureWorkers
`workers` is the map of the manager, an entry with process, socket and pending
messages. A process (`Procs`) is started once, connects, names its feature in
its first message, handles messages and ends; TCP connections are two queues.
`SendPendingMessages` is the timer's tick and also the one inside
`processConnection()`. Managed workers have a process the manager can kill;
session workers are known by their socket only. `stopping` is chosen at the start
and never changes: the features that stop their worker at any time, or only upon
its answer; so one instance serves the properties that hold for both and those
that hold for the latter.

### ControlConnection
The program counter of the connection's thread follows `run()`,
`establishConnection()` and `handleConnection()`, with a step at each place where
a control flag is read or the state is set, as the main thread may write flags
between any two. The calls of the main thread that are not atomic
(`stopAndDeleteLater()`, `restart()`) are split in the same way. Signals are
queued to the main thread. `fate` records what is to become of the object.

### FileDistribution
The controller's tick is `Process`; the check of all queues and the sending of
the chunk are two steps, as the connections' threads run in between. `queue` is
`m_eventQueue`: kept when the connection breaks, and what is added meanwhile is
dropped. A connection that `Fail`s delivers nothing more until it is closed;
what the server has not read then is lost. The server passes messages to a
worker or puts them back (`retries`), each with its own timer. `HandleStart` to
`HandleStopWorker` are the cases of `handleDistributeFilesMessage()`. The message
box about a file that is refused, because it exists or cannot be opened, stops
the worker until the user confirms it. Files in `Unsure` may or may not be opened,
and one that is not may have been emptied: on Linux `openFileSafely()` truncates
before it looks for the owner. The size of a file on the master is constant while
it is transferred. `lost` and
`late` record, for the properties only, whose messages were affected. One master
is modelled; opening files and folders after a transfer changes nothing here and
is left out.

### LinuxService
`login` is what the login manager answers about a session, `signals` what it has
announced and the service has not handled; what it announces before
`connectToLoginManager()` has succeeded is lost. `StartServer` has a disjunct for
each way out of `startServer()`: nothing to do, deferred because the session is
opening or has no environment, deferred because it is too young (by then the
other servers have been stopped), started. The loop of `startServers()` asks the
login manager about one session after the other, and is split accordingly
(`visiting`); no handler runs in between. `lost` holds the servers that were
replaced in `m_serverProcesses` without being stopped. Delays are
nondeterministic; the answer about an age is that it is reached or not. Sessions
of type TTY, leaders that are missing and the destructor are left out.

### WebApiController
One program counter per thread of the pool, with a step wherever a thread waits:
for `m_connectionsLock`, for a connection's lock (`LockedAt`), for the worker
thread. The read-write lock admits no reader while a writer waits, as a
recursive `QReadWriteLock` does. `worker` is what the worker thread is waiting
for, if anything; what is posted to it may be done in any order. A connection is
deleted in the worker thread when its last shared pointer is gone (`Referenced`,
`DropPointers`). Objects are taken in a fixed order, as a UUID is never used
twice. Authentication either succeeds or fails: the two waits have time-outs,
and what they miss ends in one. A login that waits for the lock before it checks
the limit is one that has not come yet. The removal of a connection by its timer
is modelled while it is in the table; a timer that runs out later waits for the
lock as a writer, too, and removes nothing, so that it delays readers and changes
nothing else. `crashed` is the use of the null pointer that
`lookupConnection()` may return.

### DemoServer
The screen is a set of regions whose content is the number of the change that
made it; an update is a function on some of them. `Enqueue` is
`enqueueFramebufferUpdateMessage()` with its three reasons for a key frame: a
whole update, one whose bounding rectangle is the screen (`IsFullUpdate`), and a
queue above twice the limit. `SendFramebufferUpdate` is what a viewer's thread
does under the lock; the picture that results is `shown`, in which every region
is as the last update of it says (`Sent`), as the updates are sent in order. `DividesByZero` is the
adaptation of the quality with no viewer, after which the process is gone until
the master's next `StartDemoServer`. Sizes are counted in updates. The end of a
demo, tokens that do not match (a viewer that leaves) and pixels are left out.

## Runs and bounds

TLC checks deadlock except where the system may really stop: `control` (the
interface may be stopped for good), `workers` (the server may be shut down and
processes are used up), `distribution` (the user need not start another run),
`service` (sessions are used up) and `webapi` (the clients are done, or what the
code may end in: a crash, or threads that wait for each other).

| Run | Instance | What it shows |
|-----|----------|---------------|
| `access_two` | 2 clients, 2 users, 1 host, 2 ways to authenticate, any verdict, workers may die (107 000 states) | list, pending questions and choices are consistent; who is served was authenticated and decided about; denials are final; each question is resolved unless workers keep dying; refused clients are disconnected; the handlers implement `AccessGate` |
| `access_exclusive` | 3 clients of 2 users, rules that admit one at a time and ask about it, symmetric (220 000) | one question is open; two at most have access or are asked about, never of one user and host |
| `rules` | 4 users incl. the unknown one, all conditions, inverted or not, in pairs of rules (91 000) | grants are justified; equal groups are treated alike; the check for everybody is exact for rules about the local state |
| `workers` | 2 processes, 2 features of both kinds, 2 messages each, stops at any time or upon an answer (67 000) | messages stay in their feature and in order and are handled; an entry's socket is alive; forgotten workers end |
| `control` | 2 connection objects, 1 signal of each queued at a time (172 000) | the shown state is due, deleted objects are unused, dropped ones deleted, denied ones retried |
| `distribution` | 1 computer, files of two chunks and of one, one that exists and may be refused all the same, one unreadable, two runs or one run and a fault (357 000) | what is written is of one transfer and in order, a cancellation removes its own file, undisturbed transfers arrive, runs end |
| `service` | 2 sessions; one server at a time, or one per session with one or two numbers (97 000) | servers and numbers are apart, removed sessions lose their server, active ones have one |
| `webapi` | 2 threads, limit 2, 3 connections (558 000) | the limit is exceeded by less than the threads, pointers are valid, requests and connections end |
| `demo` | 2 viewers, 3 regions, 3 changes, limit 1 update, 2 updates in flight (480 000) | the queue is bounded, pictures were on the screen, viewers follow |
| `access_denied`, `access_answer`, `service_preempted` | smallest instance that shows it | disagreements between the code and its comments, [below](#what-the-models-showed) |

Why the bounds are enough:

* *Clients.* The manager relates a client to the others as a set (is a question
  open, who has access, who is checked next). Two clients give every pair of
  states; the third in `access_exclusive` gives a granted one, an asked one and
  one that leaves, the second user one that is let in by a remembered choice while
  the user thinks about the other. The theorems hold for any number.
* *Rules.* A decision looks at one rule after the other; with pairs each
  condition occurs before and after one that denies.
* *Processes.* Two are a stopped one and its replacement, or the workers of two
  features; with three, which have also been checked, all of them exist
  together. `MaxSent` 2 is the least with an order.
* *Connections.* An interface has one connection and replaces it; the older one
  interacts only by signals still queued and its deletion. `MaxSignals` bounds
  how far the main thread may lag; the run has also been passed with 2.
* *Files.* Computers interact only in `allQueuesEmpty()`, where another one can
  delay but not change what is sent; so one computer shows what may happen to
  a file on each. `MaxEvents` counts runs and faults together, so there are two
  runs without or one run with a fault; `MaxLate` keeps the permutations of
  retried messages small.
* *Sessions.* Handlers look at one session and at whether there is another one
  with a server, so two are every case; a session has as many timers as its
  states make it.
* *Requests.* A lock has a holder and one that waits, a removal comes from a
  third side, the main thread, and the worker thread is a fourth. Three
  connections are as many as two threads can open at a limit of two, one more
  than the limit allows.
* *Demo.* Viewers do not know of each other; two are one that is served
  (without which the server crashes) and one that comes late. Three regions
  are two corners and something between them; a limit of one makes each reason
  for a key frame occur within three changes.

Each property has a mutant in `PROJECT.json`: a variant of one definition, such
as a missing reset, a dropped guard or a swapped order, that the run then finds
to violate it.

## Fairness

* *Server* (`ServerAccess`): clients need not send anything, users need not
  answer. Fair are the deletion of dropped connections (`deleteLater`), the
  close delay of refused ones and the polling check of clients that wait (timers
  of an event loop that runs). The abort timer of the dialog is fair unless it is
  started anew again and again (`RestartTimer`): `exec()` restarts it with each
  question, and a restarted timer that has not run out does nothing.
* *Workers:* the timer that forwards, the sockets' notifications, the kill
  timers and the retry timers are fair; log-ons, ends and stops are not. The
  kill timers stop being fair when the server is shut down, as no event loop
  runs any more.
* *Control connection:* each thread goes on (weak fairness), calls in progress
  and queued signals continue, and a scheduled deletion happens in spite of
  others being scheduled (strong fairness on `Delete`). The user need not do
  anything, connections need not succeed.
* *Distribution:* the controller's timer, the reader, the connections' threads
  and the workers go on: a connection whose peer does not read runs into the
  read time-out and is closed. Reconnections are not fair. Log-on is, only
  because the number of messages put back is bounded; in the code they leave the
  queue without that.
* *Linux service:* its event loop and its timers are fair and sessions get older;
  what users, login manager and server processes do is up to them. A signal that
  is handled at all is handled after finitely many others.
* *Web API:* each thread goes on, an authentication ends (it has time-outs),
  the lifetime of a connection does (its timer). That the clients stop sending
  requests is a premise of `RequestsEnd` and not a fairness condition; events
  of a connection are not fair.
* *Demo:* the request timer and the key frame interval, reading what has come, the
  VNC server's answers, and viewers that are connected. Neither the crash, nor
  breaking connections, nor the return of a server or a viewer is.

## Proofs

Eight modules hold the theorems; each extends the module it is about
(`ServerAccessProofs` is about `ServerAccess` and `RuledServerAccess`). A
theorem holds for any value of the constants that satisfies the module's named
assumption, which TLC evaluates on the runs: sets are finite where they are
counted or are processes or objects, constants have their types, "nobody" is not
somebody. Two of the assumptions say more: the web API has at least one thread
(`WebApiAssumption`), and the rules of a configuration are a sequence
(`AccessRulesAssumption`). `RuledSetting` is a premise and not an assumption:
[below](#ruled-access).

| Theorem | Statement | Run that shows it on an instance |
|---------|-----------|---|
| **`ServerAccessProofs`** | | |
| `TypeCorrect` | `Spec => []TypeOK` | `access_two` |
| `ListCorrect` | `m_clients` lists exactly the granted, each once | `access_two` |
| `PendingCorrect` | whoever is pending listens to the dialog, and its timer runs | `access_two` |
| `DenialCorrect` | a denied client stays denied until it is deleted | `access_two` |
| `ServedCorrect` | whoever is served has authenticated and been decided about | `access_two` |
| `SingleQuestionCorrect` | two clients never wait for one answer, if workers do not die | `access_exclusive` |
| `ChoiceSticksCorrect` | a remembered choice is never replaced | `access_two` |
| `GateImplemented` | `Spec => Gate!Spec`, the refinement of `AccessGate` | `access_two` |
| `ExclusiveCorrect` | of `RuledServerAccess`: under rules that admit one at a time, two clients at most have access or are asked about, never of one user and host | `access_exclusive` |
| **`AccessDecisionsProofs`** | | |
| `GrantCorrect` | a grant is owed to a rule that no applicable denial precedes | `rules` |
| `SameGroupsCorrect` | users of equal groups are treated alike | `rules` |
| `LocalRulesCorrect` | the check for everybody is exact for rules about the local state | `rules` |
| **`FeatureWorkersProofs`** | | |
| `TypeCorrect` | `Spec => []TypeOK` | `workers` |
| `ConnectionCorrect` | a worker's connection is one of its feature and not closed | `workers` |
| `OrderCorrect` | a process handles messages of its feature, a managed one each once and in order | `workers` |
| **`ControlConnectionProofs`** | | |
| `TypeCorrect` | `Spec => []TypeOK` | `control` |
| `DeletionCorrect` | an object to be deleted is used by nobody | `control` |
| `ShownStateCorrect` | the state shown is right, or about to be, or the denial | `control` |
| **`FileDistributionProofs`** | | |
| `TypeCorrect` | `Spec => []TypeOK` | `distribution` |
| `OrderCorrect` | a file holds chunks of one transfer, each once and in order | `distribution` |
| **`LinuxServiceProofs`** | | |
| `TypeCorrect` | `Spec => []TypeOK` | `service` |
| `ApartCorrect` | servers and session numbers are apart | `service` |
| `RemovedCorrect` | a removed session has no server once its signal is handled | `service` |
| **`WebApiControllerProofs`** | | |
| `TypeCorrect` | `Spec => []TypeOK` | `webapi` |
| `PointersCorrect` | nothing that is referred to is about to be deleted | `webapi` |
| `BoundCorrect` | the limit is exceeded by less than the number of threads | `webapi` |
| `LocksAreExclusive` | a connection is locked by one request at a time | – |
| **`DemoServerProofs`** | | |
| `TypeCorrect` | `Spec => []TypeOK`; with it the bound of the queue | `demo` |
| `PictureCorrect` | a viewer served from a whole update shows a picture that was on the screen | `demo` |

The proof that a step keeps an invariant has a case per action, and a lemma of
its own for the actions that do much. What the invariants say beyond the
theorems, and why that is needed:

### ServerAccess
*Inductive invariant.* `IInv` is `TypeOK`, `ListIsTheGranted` and
`PendingWillBeAnswered` together; they hold each other up. The answer of the
dialog appends the pending listeners to the list, which stays free of duplicates
because who is on it is granted and not pending. A deletion empties the list and
checks again exactly those who were on it: that nobody else keeps a grant, and
that no pending client is taken from the dialog, rests on the list being the
granted ones. There is one lemma per handler that touches access control
(`CheckClientKeepsIInv`, `FinishedKeepsIInv`, `DeleteConnectionKeepsIInv`); all
the handshake's handlers share `HandshakeKeepsIInv`.

*Who is served.* `ServedHasBeenDecided` is not inductive over `IInv`. `SInv`
adds what a client has behind it in every protocol state (`Handshaken`) and who
may be listening (`Questions`: clients about whom nothing is remembered, and
only one if workers do not die). `OneIsAsked` is the lemma about the new check of
everybody: at most one of them gets the dialog, none while it is in use.

*Refinement.* `Stage` maps a client's states to the gate's; a lemma maps each
handler to a step of the gate or a stutter: the answer of the dialog to `Grant`,
and `DeleteConnection`, which may withdraw the access of others and admits nobody,
to `Forget`.

### Ruled access
`RuledSetting` is the configuration the property is about: the verdicts are those
of the rules, the first of which denies access to a computer already being
accessed, nobody passes them by with a token, worker processes do not die (or an
answer is applied to a client it is not about, as `access_answer` shows), and what the
other rules say of a user while nobody is connected does not change with who is
logged on. `XInv` lies above `IInv` and `SInv` and adds `UndecidedByRules`: the
clients asked about are of users the rules send to the dialog. So a client that
comes while the question is open is let in only by a remembered choice, thus is
of another user or host, and with it the computer is being accessed.

The theorem was first meant to say that one client at a time has access, which
an earlier instance with a single user could not refute. The proof failed at the
answer of the dialog: `finishDesktopAccessConfirmation()` does not consult the
rules again. The property says now what holds, and the run has two users.

### AccessRules and AccessDecisions
The invariant `CInv` is only that the last decision is the one the rules give in
the current state; the work is in lemmas about the operators. Which rules apply
depends on the user only through its groups and through whether it is logged on
or connected (`SameGroupsCorrect`), and for rules about the local state neither on
the user nor on the computer (`LocalRulesCorrect`).

### FeatureWorkers
What a process has handled, what is on its way and what waits in the entry are
pieces of one queue (`Chain`): of the feature, increasing, each piece after the
one before, all up to the last message sent. `HInv` has it for every process and
adds `Live` (the theorem), `Fresh` (a process whose socket is no entry's, and
which has not been closed, has received nothing) and `Early` (a process that has not
connected has no socket). Without `Fresh`, a process that becomes the worker of an
entry late could bring a queue of its own.

### ControlConnection
`DInv` adds to `DeletedIsUnused` that a call of the main thread is about a
connection that has been started, and that only a connection about to be let go
of has `DeleteAfterFinished` (`DeletersAreDropped`): flags are all the two threads
share. `ShInv` adds that the thread closes its connection before it ends or tries
again (`ClosedAtEnds`), so that whoever restarts or drops it needs no signal.

### FileDistribution
`Reading` relates the controller's variables to each other: a file that is read
is the current one, its transfer the last one started, its next chunk unsent. `CInv`
is about one computer: what is in each file, what the worker has not read and what
the connection has not sent are in order one after the other (`InLine`), except for
transfers put back; none of it is ahead of the reader (`NotAhead`); a file's chunks
are of one transfer (`OneTransfer`), and the open file is of the current one
(`OpenIsOwn`), which is why a `Data` message may be appended. As almost all steps are of
one computer, `OnlyAt` reduces the invariant to the computer that acts.

### LinuxService
In Multi mode that a session has at most two servers is not inductive: nothing in
the state says that it cannot get another one. `AInv` counts the chances to be started that
a session has left, a timer, the signal that announces it and the loop of
`startServers()`, and bounds chances and servers together by two
(`StartsBounded`); a deferral turns one chance into another. `RInv` is for executions
whose first state has the connection to the login manager.

### WebApiController
`TInv` adds that a request that has a pointer has a connection (`HaveConnection`).
`PointersAreValid` is inductive over it: each step that takes a pointer away ends in
`DropPointers`, about which `DropPointersKeepsValid` is the lemma. `BInv` counts with
the cardinality theorems for finite sets; a login moves from the threads to the
table. `LInv` adds that nobody else knows the connection of a login before it is
inserted (`Private`).

### DemoServer
What is queued and what the VNC server has sent are one `Stream`. Its updates are
compared with the pictures of the screen by their `Level`, the youngest change
they show: each shows its regions as they were then (`Shots`), and what differs
between two of them is in one that lies between (`Linked`). `UpToDate`, about
the end of the stream, is what makes the next update take up where the last one
ended; it rests on the new request for everything after the VNC server was
connected again. Parts of a stream and a stream with one more update are streams
(`PartOfStream`, `AppendToStream`), which is all that a key frame and an ordinary
update do. A viewer that has been served holds the last picture up to its position
(`SyncedIsShot`), if the queue starts with a whole update: whatever it showed
before is covered then (`SentIsShot`). `Max` is defined by a choice, so that the greatest
number of a set exists has to be proved: it is the one with the least distance
from a bound (`LeastNatural`, from the library's theorem that `<` is well-founded).

### Model-checked only
* *Liveness* of every module: it holds under fairness, and the prover has no rules
  for when an action is enabled.
* `CancelRemovesItsOwn`, an action property whose invariant would have to relate the
  three queues of a computer to each other message by message, for the computers
  nothing was lost for.
* That an operator computes what a loop of the source computes is by reading.

## What the models showed

Disagreements between the code and what its comments say; each has a run that
ends in a counterexample.

* `access_denied`: clients that remain when one leaves are checked again, "as
  conditions might have changed". One that is being served and is now denied by
  the user is set to `Failed` and goes on being served.
* `access_answer`: when a worker dies with its question unanswered, the client
  it was about still listens; the answer about the next client decides about
  both.
* `service_preempted`: the service promises to start servers again "for preempted
  sessions" when the one that took their place is removed. If that one was too
  young for a server of its own, it has stopped the others and nothing starts
  them again.

Behaviour found on the way that contradicts no comment; the properties are
stated so as to leave it open:

* A feature stopped before its worker has connected and started again may get
  the stopped process as its worker. That one is killed after five seconds, the
  end of its connection removes the entry, and the other process lives on
  unknown (`ForgottenWorkerEnds` is checked for stops upon an answer).
* A process that dies before it connects leaves its entry for good.
* With a rule that denies access to a computer already being accessed, two
  clients can have access together: while the user thinks about one, another one
  of a user with a remembered "always" is let in, and
  `finishDesktopAccessConfirmation()` does not ask the rules again
  (`ExclusiveGrant` states how far that goes).
* There is one abort timer for all questions, and each question starts it anew.
  While worker processes die with their question open and other clients keep
  coming, the client of the first question may stay pending for ever
  (`PendingIsResolved` is promised unless workers die again and again).
* A client that waits for another one's dialog polls and may be overtaken for
  ever.
* A watchdog's restart comes to nothing if the thread has been told to end and
  still runs (`DeniedIsRetried` requires that it has ended).
* A file with a chunk lost in a broken connection is finished and announced like
  any other: `UndisturbedIsReceived` speaks of undisturbed transfers.
* A file that is refused because it belongs to somebody else may have been
  emptied before (`WrittenInOrder` and `UndisturbedIsReceived` allow for it).
* A file that becomes shorter while the master reads it is never at its end, and
  the run goes on sending empty chunks until it is stopped (not modelled).
* A run started right after another may lose its first messages with the worker
  that is quitting.
* A cancellation before the first file carries no id. Put back while nobody is
  logged on and delivered after the next run's start, it removes a file that was
  there before and that the start had refused (`CancelRemovesItsOwn` excludes
  computers with messages lost or put back).
* Chunks pile up in the queue of a connection that comes back between the
  check and the sending, one per break.
* The check whether any request is denied evaluates the rules for nobody: a rule
  that would allow a real request is passed over and the server listens on the
  local host only (`LocalRulesDenyEverybody` speaks of rules about the local
  state).
* A worker process that has not connected yet outlives a server that shuts down:
  its kill timer needs an event loop (`ForgottenWorkerEnds` is promised while the
  server is up).
* A connection dropped while its thread is ending for another reason, and has
  passed the check of the flag, is never deleted (`DroppedIsDeleted` excludes it).
* In Multi mode a session that is listed by `startServers()` before its signal
  is handled gets two servers, and only the second one is known. When all numbers
  are taken a server starts with the invalid one.
* The delay of a session that is too young is a number of seconds used as
  milliseconds: the service asks again and again until the session is old enough.
* Signals of the login manager are missed before the connection to it exists:
  `RemovedIsStopped` and `ActiveIsServed` have that as a premise.
* A web request that controls a feature keeps its connection locked while it
  waits for the worker thread, which may be waiting for that lock: both wait for
  ever (`HeldUp`), and all requests after them. Where readers are part of the circle
  it takes a third thread, which the run does not have.
* A connection closed between the check and the look-up of a request is used as
  a null pointer. Parallel logins exceed the limit of connections, by less than
  the number of threads.
* An update of two opposite corners counts as a full one, so a newcomer sees holes
  until the next key frame; likewise when the queue is cleared because of its
  size. Without a viewer the second key frame divides by zero. A failed attempt to
  connect to the VNC server again is the last one.

## What is not shown

* No cryptography: that a key is checked properly is outside the models.
* Messages are atomic. The length checks of the streams and of the RFB
  parsers, framebuffers and the forwarding between client and local VNC server
  are not modelled.
* Data races on plain memory, such as the main thread's writes into the RFB client
  of a connection, or the demo server's initial message that its threads read,
  are not modelled.
* In `FileDistribution` the last bytes of an old connection arrive before the
  first message of a new one, which has a handshake of several exchanges to
  make first.
* Two masters distributing to one computer share its worker; the model has one.
* The components listed in `PROJECT.json` as not modelled.
