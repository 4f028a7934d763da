---------------------------- MODULE ServerAccess ----------------------------
(***************************************************************************)
(* The path of a connection through the Veyon server: the RFB handshake of *)
(* VncServerProtocol, authentication (ServerAuthenticationManager), access *)
(* control (ServerAccessControlManager) with the desktop access dialog the *)
(* logged-on user answers in a worker process, and the end of a connection.*)
(*                                                                         *)
(* The server is single threaded: every action is one event handler of its *)
(* event loop.  A client that sends something wrong has its socket closed  *)
(* inside the handler; the connection object is deleted by a later event   *)
(* (deleteLater), and its destructor makes the access control manager      *)
(* check every remaining client again.                                     *)
(***************************************************************************)
EXTENDS Naturals, Sequences, FiniteSets, Functions

CONSTANTS
    Clients,       \* connection objects that may exist at the same time
    Users, Hosts,  \* user names clients claim, addresses they come from
    HostOf,        \* the host of each client
    AuthTypes,     \* ServerAuthenticationManager::supportedAuthTypes()
    Verdicts,      \* what checkAccess() may say of a user, a host and the
                   \* set of users already connected (see AccessRules)
    WorkerMayDie   \* may a worker process end with its question unanswered?

Verdict == {"Allow", "ToBeConfirmed", "Deny"}

ASSUME ServerAccessAssumption ==
    /\ IsFiniteSet(Clients)
    /\ Users # {}
    /\ HostOf \in [Clients -> Hosts]
    /\ AuthTypes \subseteq {"KeyFile", "Logon", "Token"}
    /\ Verdicts \in [Users \X Hosts \X SUBSET Users -> (SUBSET Verdict) \ {{}}]
    /\ WorkerMayDie \in BOOLEAN

VARIABLES
    conn,       \* "Absent", "Open", or "Dropped": closed and not yet deleted
    protocolState, authState, authType, username, accessControlState,
    m_clients,  \* the clients access was granted to, in that order
    listeners,  \* clients connected to DesktopAccessDialog::finished
    choices,    \* m_desktopAccessChoices: "Always"/"Never" remembered per key
    dialog,     \* the key the running dialog asks about, or NoKey
    abortTimer  \* is DesktopAccessDialog::m_abortTimer active?

gateVars   == <<conn, protocolState, authState, authType, username>>
accessVars == <<accessControlState, m_clients, listeners, choices>>
dialogVars == <<dialog, abortTimer>>
vars == <<gateVars, accessVars, dialogVars>>

Keys  == Users \X Hosts
NoKey == <<>>
Key(c) == <<username[c], HostOf[c]>>

\* The second authentication state of each authentication method.
SecondStage == [KeyFile |-> "Challenge", Logon |-> "Password", Token |-> "Token"]
NobodyYet == CHOOSE u \in Users : TRUE

ProtocolStates ==
    {"Disconnected", "Protocol", "SecurityInit", "AuthenticationTypes", "Authenticating",
     "AccessControl", "FramebufferInit", "Running", "Close", "Closing"}
AuthStates == {"Init", "Challenge", "Password", "Token", "Successful", "Failed"}
AccessControlStates == {"Init", "Waiting", "Pending", "Successful", "Failed"}

Init ==
    /\ conn = [c \in Clients |-> "Absent"]
    /\ protocolState = [c \in Clients |-> "Disconnected"]
    /\ authState = [c \in Clients |-> "Init"]
    /\ authType = [c \in Clients |-> "None"]
    /\ username = [c \in Clients |-> NobodyYet]
    /\ accessControlState = [c \in Clients |-> "Init"]
    /\ m_clients = <<>>
    /\ listeners = {}
    /\ choices = [k \in Keys |-> "None"]
    /\ dialog = NoKey
    /\ abortTimer = FALSE

-----------------------------------------------------------------------------
(* The RFB handshake and authentication                                    *)

Reading(c, state) == conn[c] = "Open" /\ protocolState[c] = state

Proceed(c, state) ==
    /\ protocolState' = [protocolState EXCEPT ![c] = state]
    /\ UNCHANGED conn

\* m_socket->close(), or the peer or the VNC server closing its socket: the
\* connection object is scheduled for deletion and nothing else changes yet.
CloseSocket(c) ==
    /\ conn' = [conn EXCEPT ![c] = "Dropped"]
    /\ UNCHANGED protocolState

\* checkForIncompleteAuthentication(), whenever the socket of the client closes.
CheckForIncompleteAuthentication(c) ==
    authState' = [authState EXCEPT ![c] =
                    IF protocolState[c] \in {"AuthenticationTypes", "Authenticating"} THEN "Failed" ELSE @]

AcceptConnection(c) ==
    /\ conn[c] = "Absent"
    /\ conn' = [conn EXCEPT ![c] = "Open"]
    /\ protocolState' = [protocolState EXCEPT ![c] = "Protocol"]
    /\ UNCHANGED <<authState, authType, username, accessVars, dialogVars>>

ReadProtocol(c) ==
    /\ Reading(c, "Protocol")
    /\ Proceed(c, "SecurityInit") \/ CloseSocket(c)
    /\ UNCHANGED <<authState, authType, username, accessVars, dialogVars>>

ReceiveSecurityTypeResponse(c) ==
    /\ Reading(c, "SecurityInit")
    /\ Proceed(c, "AuthenticationTypes") \/ CloseSocket(c)
    /\ UNCHANGED <<authState, authType, username, accessVars, dialogVars>>

\* Mutant: the chosen method is not looked up among the supported ones.
ReceiveAuthenticationTypeUnchecked(c) ==
    /\ Reading(c, "AuthenticationTypes")
    /\ \E t \in {"KeyFile", "Logon", "Token"}, u \in Users :
         /\ authType' = [authType EXCEPT ![c] = t]
         /\ username' = [username EXCEPT ![c] = u]
         /\ protocolState' = [protocolState EXCEPT ![c] = "Authenticating"]
         /\ authState' = [authState EXCEPT ![c] = SecondStage[t]]
    /\ UNCHANGED <<conn, accessVars, dialogVars>>

\* An authentication method that is not offered, or a user name that is too
\* long, closes the socket.  Otherwise the dummy message starts the method;
\* its challenge or public key may fail to be sent.
ReceiveAuthenticationTypeResponse(c) ==
    /\ Reading(c, "AuthenticationTypes")
    /\ \/ /\ CloseSocket(c) /\ CheckForIncompleteAuthentication(c)
          /\ UNCHANGED <<authType, username>>
       \/ \E t \in AuthTypes, u \in Users :
            /\ authType' = [authType EXCEPT ![c] = t]
            /\ username' = [username EXCEPT ![c] = u]
            /\ protocolState' = [protocolState EXCEPT ![c] = "Authenticating"]
            /\ \/ /\ authState' = [authState EXCEPT ![c] = SecondStage[t]]
                  /\ UNCHANGED conn
               \/ /\ t # "Token"
                  /\ authState' = [authState EXCEPT ![c] = "Failed"]
                  /\ conn' = [conn EXCEPT ![c] = "Dropped"]
    /\ UNCHANGED <<accessVars, dialogVars>>

\* The answer to the challenge, the password or the token: right or wrong.
ReceiveAuthenticationMessage(c) ==
    /\ Reading(c, "Authenticating")
    /\ authState[c] = SecondStage[authType[c]]
    /\ \/ /\ authState' = [authState EXCEPT ![c] = "Successful"]
          /\ Proceed(c, "AccessControl")
       \/ /\ authState' = [authState EXCEPT ![c] = "Failed"]
          /\ CloseSocket(c)
    /\ UNCHANGED <<authType, username, accessVars, dialogVars>>

-----------------------------------------------------------------------------
(* Access control                                                          *)

IsBusy == dialog # NoKey

\* Mutant: nobody counts as connected.
ConnectedUsersForgotten(S) == {}

ConnectedUsers(S) == {username[c] : c \in S}

\* Mutant: a remembered choice is not looked up.
OutcomeForgetful(c, verdict, busy) ==
    CASE authType[c] = "Token" \/ verdict = "Allow"         -> "Successful"
      [] authType[c] # "Token" /\ verdict = "Deny"          -> "Failed"
      [] authType[c] # "Token" /\ verdict = "ToBeConfirmed" ->
           IF busy THEN "Waiting" ELSE "Pending"

\* Mutant: the dialog is started although it is in use.
OutcomeImpatient(c, verdict, busy) ==
    CASE authType[c] = "Token" \/ verdict = "Allow"         -> "Successful"
      [] authType[c] # "Token" /\ verdict = "Deny"          -> "Failed"
      [] authType[c] # "Token" /\ verdict = "ToBeConfirmed" ->
           CASE choices[Key(c)] = "Always" -> "Successful"
             [] choices[Key(c)] = "Never"  -> "Failed"
             [] choices[Key(c)] = "None"   -> "Pending"

\* The access control state addClient() leaves a client in, given the verdict
\* of checkAccess() and whether the dialog is already in use.
Outcome(c, verdict, busy) ==
    CASE authType[c] = "Token" \/ verdict = "Allow"             -> "Successful"
      [] authType[c] # "Token" /\ verdict = "Deny"              -> "Failed"
      [] authType[c] # "Token" /\ verdict = "ToBeConfirmed"     ->
           CASE choices[Key(c)] = "Always" -> "Successful"
             [] choices[Key(c)] = "Never"  -> "Failed"
             [] choices[Key(c)] = "None"   -> IF busy THEN "Waiting" ELSE "Pending"

\* Mutant: the abort timer is not started.
AskWithoutTimer(c) ==
    /\ listeners' = listeners \cup {c}
    /\ dialog' = Key(c)
    /\ UNCHANGED abortTimer

\* DesktopAccessDialog::exec(), with the signal connections made before it.
AskAbout(c) ==
    /\ listeners' = listeners \cup {c}
    /\ dialog' = Key(c)
    /\ abortTimer' = TRUE

\* Mutant: a pending question does not hold the handshake up.
AfterAccessControlPending(c, s) ==
    /\ protocolState' =
         [protocolState EXCEPT ![c] = CASE s \in {"Successful", "Pending"} -> "FramebufferInit"
                                        [] s = "Failed"  -> "Closing"
                                        [] s = "Waiting" -> "AccessControl"]
    /\ UNCHANGED <<conn, authState, authType, username>>

\* What read() does with a client in state AccessControl once its access
\* control state is s.
AfterAccessControl(c, s) ==
    /\ protocolState' =
         [protocolState EXCEPT ![c] = CASE s = "Successful" -> "FramebufferInit"
                                        [] s = "Failed"     -> "Closing"
                                        [] OTHER            -> "AccessControl"]
    /\ UNCHANGED <<conn, authState, authType, username>>

\* Mutant: everybody not yet successful is checked again.
NeedsCheckWhenNotSuccessful(c) == accessControlState[c] # "Successful"

\* The guard of VeyonServerProtocol::performAccessControl().
NeedsCheck(c) == accessControlState[c] \in {"Init", "Waiting"}

\* A client that has just authenticated, or is waiting for the dialog, is
\* checked.  (The retry timer reads again even when the socket has closed.)
CheckClient(c) ==
    /\ conn[c] # "Absent" /\ protocolState[c] = "AccessControl"
    /\ NeedsCheck(c)
    /\ \E verdict \in Verdicts[<<username[c], HostOf[c], ConnectedUsers(Range(m_clients))>>] :
         LET s == Outcome(c, verdict, IsBusy)
         IN  /\ accessControlState' = [accessControlState EXCEPT ![c] = s]
             /\ m_clients' = IF s = "Successful" THEN Append(m_clients, c) ELSE m_clients
             /\ IF s = "Pending" THEN AskAbout(c) ELSE UNCHANGED <<listeners, dialogVars>>
             /\ AfterAccessControl(c, s)
    /\ UNCHANGED choices

\* The manager has already decided, or the user has answered.
ProceedAfterDecision(c) ==
    /\ conn[c] # "Absent" /\ protocolState[c] = "AccessControl"
    /\ accessControlState[c] \in {"Successful", "Failed"}
    /\ AfterAccessControl(c, accessControlState[c])
    /\ UNCHANGED <<accessVars, dialogVars>>

\* The server init message of the VNC server has arrived and the client has
\* sent its client init: from here on data is forwarded in both directions.
ProcessFramebufferInit(c) ==
    /\ Reading(c, "FramebufferInit")
    /\ Proceed(c, "Running")
    /\ UNCHANGED <<authState, authType, username, accessVars, dialogVars>>

-----------------------------------------------------------------------------
(* The desktop access dialog                                               *)

Choice == {"None", "Yes", "No", "Always", "Never"}

\* The sequences that list every member of S once.
Orderings(S) ==
    {t \in [1..Cardinality(S) -> S] : Range(t) = S /\ IsInjective(t)}

\* DesktopAccessDialog::finished: every listener evaluates the choice.
\* Listeners are notified in some order, and appended in it.
Finished(choice) ==
    LET granted  == choice \in {"Yes", "Always"}
        remember == choice \in {"Always", "Never"}
        about    == {Key(c) : c \in listeners}
    IN  /\ accessControlState' =
             [c \in Clients |-> IF c \notin listeners THEN accessControlState[c]
                                ELSE IF granted THEN "Successful" ELSE "Failed"]
        /\ IF granted
           THEN \E order \in Orderings(listeners) : m_clients' = m_clients \o order
           ELSE UNCHANGED m_clients
        /\ choices' = [k \in Keys |-> IF remember /\ k \in about THEN choice ELSE choices[k]]
        /\ listeners' = {}
        /\ dialog' = NoKey
        /\ abortTimer' = FALSE
        /\ UNCHANGED gateVars

\* The worker reports the user's choice; the worker is stopped.
ReportDesktopAccessChoice == \E choice \in Choice : IsBusy /\ Finished(choice)

\* Mutant: abort() stops the worker and tells nobody.
AbortSilently ==
    /\ abortTimer
    /\ abortTimer' = FALSE
    /\ dialog' = NoKey
    /\ UNCHANGED <<gateVars, accessVars>>

\* Thirty seconds have passed since the last exec(): the worker is stopped.
AbortDialog == abortTimer /\ Finished("None")

\* The worker's connection closes (its process ended, its session was closed)
\* before the user answered: FeatureWorkerManager forgets the worker, and
\* nobody tells the dialog.
LoseWorker ==
    /\ WorkerMayDie /\ IsBusy
    /\ dialog' = NoKey
    /\ UNCHANGED <<gateVars, accessVars, abortTimer>>

-----------------------------------------------------------------------------
(* The end of a connection                                                 *)

Disconnect(c) ==
    /\ conn[c] = "Open"
    /\ CloseSocket(c)
    /\ CheckForIncompleteAuthentication(c)
    /\ UNCHANGED <<authType, username, accessVars, dialogVars>>

\* read() in state Closing, by the retry timer, once the socket has closed.
ReadClosing(c) ==
    /\ conn[c] = "Dropped" /\ protocolState[c] = "Closing"
    /\ Proceed(c, "Close")
    /\ UNCHANGED <<authState, authType, username, accessVars, dialogVars>>

\* read() in state Close: runs when the client sends more data or a retry timer fires.
ReadClose(c) ==
    /\ Reading(c, "Close")
    /\ CloseSocket(c)
    /\ UNCHANGED <<authState, authType, username, accessVars, dialogVars>>

\* Mutant: the delayed close is not scheduled.
NeverClosed(c) == FALSE

\* AccessControlCloseDelay after the denial the socket is closed.
CloseDelayElapsed(c) ==
    /\ Reading(c, "Closing")
    /\ CloseSocket(c)
    /\ UNCHANGED <<authState, authType, username, accessVars, dialogVars>>

Before(list, a, b) ==
    \E i, j \in DOMAIN list : i < j /\ list[i] = a /\ list[j] = b

\* The sublists of list with the members S, each of them once.
Keep(list, S) ==
    {t \in Orderings(S) : \A a, b \in S : Before(t, a, b) => Before(list, a, b)}

\* Mutant: the client that goes is not taken off the list first.
RemainingWithItself(c) == Range(m_clients)

\* The clients removeClient(c) checks again, and those of them whose verdict
\* sends them to the dialog.
Remaining(c) == Range(m_clients) \ {c}
Asking(c, verdict) == {d \in Remaining(c) : Outcome(d, verdict[d], FALSE) = "Pending"}

\* The first of them to be checked gets the dialog if it is free.
First(S) == {d \in S : \A e \in S : e = d \/ Before(m_clients, d, e)}

RecheckOutcome(c, verdict, d) ==
    Outcome(d, verdict[d], IsBusy \/ d \notin First(Asking(c, verdict)))

\* Mutant: only a denial closes the connection.
StaysUnlessDenied(s) == s # "Failed"

\* Who is left connected by removeClient().
Stays(s) == s \in {"Successful", "Pending"}

\* Destruction of the connection object.  removeClient() empties the list and
\* adds the remaining clients one after the other: each verdict depends on
\* the users that were readmitted before it.  Who is neither readmitted nor
\* asked about is to be closed.  The object's memory is then free for another
\* connection.
DeleteConnection(c) ==
    /\ conn[c] = "Dropped"
    /\ \E verdict \in [Remaining(c) -> Verdict] :
         LET state(d) == RecheckOutcome(c, verdict, d)
             kept     == {d \in Remaining(c) : state(d) = "Successful"}
             asked    == {d \in Remaining(c) : state(d) = "Pending"}
         IN  /\ \A d \in Remaining(c) :
                  verdict[d] \in Verdicts[<<username[d], HostOf[d],
                                            ConnectedUsers({e \in kept : Before(m_clients, e, d)})>>]
             /\ accessControlState' =
                  [d \in Clients |-> IF d = c THEN "Init"
                                     ELSE IF d \in Remaining(c) THEN state(d)
                                     ELSE accessControlState[d]]
             /\ protocolState' =
                  [d \in Clients |-> IF d = c THEN "Disconnected"
                                     ELSE IF d \in Remaining(c) /\ ~Stays(state(d)) THEN "Close"
                                     ELSE protocolState[d]]
             /\ m_clients' \in Keep(m_clients, kept)
             /\ listeners' = (listeners \ {c}) \cup asked
             /\ dialog' = IF asked = {} THEN dialog ELSE Key(CHOOSE d \in asked : TRUE)
             /\ abortTimer' = (abortTimer \/ asked # {})
    /\ conn' = [conn EXCEPT ![c] = "Absent"]
    /\ authState' = [authState EXCEPT ![c] = "Init"]
    /\ authType' = [authType EXCEPT ![c] = "None"]
    /\ username' = [username EXCEPT ![c] = NobodyYet]
    /\ UNCHANGED choices

-----------------------------------------------------------------------------
ClientStep(c) ==
    \/ AcceptConnection(c)
    \/ ReadProtocol(c)
    \/ ReceiveSecurityTypeResponse(c)
    \/ ReceiveAuthenticationTypeResponse(c)
    \/ ReceiveAuthenticationMessage(c)
    \/ CheckClient(c)
    \/ ProceedAfterDecision(c)
    \/ ProcessFramebufferInit(c)
    \/ Disconnect(c)
    \/ ReadClosing(c)
    \/ ReadClose(c)
    \/ CloseDelayElapsed(c)
    \/ DeleteConnection(c)

DialogStep == ReportDesktopAccessChoice \/ AbortDialog \/ LoseWorker

Next == DialogStep \/ \E c \in Clients : ClientStep(c)

Spec == Init /\ [][Next]_vars

\* A new question: exec() starts the abort timer anew.
RestartTimer == ~(listeners' \subseteq listeners)

\* Timers of the event loop fire: the retry timer of readFromClient() while a
\* client is in access control, the delayed close, the dialog's abort timer
\* unless it is started anew again and again; deferred deletions are carried out.
\* Nothing is assumed of clients, of the user at the dialog or of worker processes.
Fairness ==
    /\ ([]<><<RestartTimer>>_vars) \/ WF_vars(AbortDialog)
    /\ \A c \in Clients :
         /\ WF_vars(CheckClient(c))
         /\ WF_vars(ProceedAfterDecision(c))
         /\ WF_vars(CloseDelayElapsed(c))
         /\ WF_vars(DeleteConnection(c))

FairSpec == Spec /\ Fairness

-----------------------------------------------------------------------------
(* The abstract gate ServerAccess implements                               *)

Stage(c) ==
    IF conn[c] = "Absent" THEN "Absent"
    ELSE IF conn[c] = "Dropped" \/ protocolState[c] \in {"Close", "Closing"} THEN "Closing"
    ELSE IF protocolState[c] \in {"FramebufferInit", "Running"} THEN "Admitted"
    ELSE IF protocolState[c] = "AccessControl" THEN "Authenticated"
    ELSE "Connected"

Gate == INSTANCE AccessGate
            WITH stage   <- [c \in Clients |-> Stage(c)],
                 granted <- {c \in Clients : accessControlState[c] = "Successful"}

\* Connections are served only after authentication and in a step where access
\* is granted; a connection that is being closed, by a denial, a failed
\* re-check or its socket, is never served again; a re-check admits nobody.
ImplementsGate == Gate!Spec

-----------------------------------------------------------------------------
(* Invariants                                                              *)

\* The values each variable takes; m_clients is a list of clients.
TypeOK ==
    /\ conn \in [Clients -> {"Absent", "Open", "Dropped"}]
    /\ protocolState \in [Clients -> ProtocolStates]
    /\ authState \in [Clients -> AuthStates]
    /\ authType \in [Clients -> AuthTypes \cup {"None"}]
    /\ username \in [Clients -> Users]
    /\ accessControlState \in [Clients -> AccessControlStates]
    /\ m_clients \in Seq(Clients)
    /\ listeners \subseteq Clients
    /\ choices \in [Keys -> {"None", "Always", "Never"}]
    /\ dialog \in Keys \cup {NoKey}
    /\ abortTimer \in BOOLEAN

\* The list connectedUsers() is computed from, which rules about already
\* connected users are decided by, lists exactly the clients whose access
\* control state is Successful, none of them twice and none that has been
\* deleted: whatever answers, denials, retries and re-checks came between.
ListIsTheGranted ==
    /\ Range(m_clients) = {c \in Clients : accessControlState[c] = "Successful"}
    /\ IsInjective(m_clients)
    /\ \A c \in Clients : accessControlState[c] # "Init" => conn[c] # "Absent"

\* A client left Pending is connected to the dialog's finished() signal, and
\* the abort timer is running: its question is answered whatever becomes of
\* the worker process.  Nobody else listens, and no question is shown without
\* the timer.
PendingWillBeAnswered ==
    /\ listeners = {c \in Clients : accessControlState[c] = "Pending"}
    /\ (listeners # {} \/ IsBusy) => abortTimer

\* A client that is served (framebuffer initialised or running) has
\* authenticated with a method the server offers, and is never one that still
\* waits for its turn at the dialog or has not been checked at all: removeClient()
\* closes who does not get the dialog.
ServedHasBeenDecided ==
    \A c \in Clients : protocolState[c] \in {"FramebufferInit", "Running"} =>
        /\ authState[c] = "Successful" /\ authType[c] \in AuthTypes
        /\ accessControlState[c] \notin {"Init", "Waiting"}

\* The dialog is asked about one client at a time: two connections never wait
\* for the same answer.  It holds as long as worker processes do not die with
\* their question unanswered.
SingleQuestion ==
    ~WorkerMayDie => \A c, d \in listeners : c = d

-----------------------------------------------------------------------------
(* What a step may never do                                                *)

\* A choice "always" or "never" that is remembered for a user and host is
\* never replaced: the user is not asked again, so no later answer, late
\* answer or timeout can overwrite it.
ChoiceSticks ==
    [][\A k \in Keys : choices[k] # "None" => choices'[k] = choices[k]]_vars

\* A connection that has been denied stays denied until it is deleted: no
\* retry, re-check or late answer of the dialog turns Failed into anything else.
DenialIsFinal ==
    [][\A c \in Clients : accessControlState[c] = "Failed" =>
         accessControlState'[c] = "Failed" \/ conn'[c] = "Absent"]_vars

\* Comment at ServerAccessControlManager.cpp:102-103: an access dialog is
\* active for one connection, others wait.  The answer the user gives is
\* about the user and host the dialog shows, so a client it admits has them.
AnswerIsForTheAsked ==
    [][\A c \in Clients :
         accessControlState[c] = "Pending" /\ accessControlState'[c] = "Successful"
           => Key(c) = dialog]_vars

\* Comment at ServerAccessControlManager.cpp:78-79: every remaining client is
\* forced to pass access control again.  A client that does not pass is not
\* served any longer.
DeniedIsNotServed ==
    \A c \in Clients :
        accessControlState[c] = "Failed" => protocolState[c] \notin {"FramebufferInit", "Running"}

-----------------------------------------------------------------------------
(* Liveness                                                                *)

\* Every question is answered: a client does not stay Pending for ever, even if
\* its worker dies, the user ignores the dialog or other clients come and go -
\* unless one worker after the other dies.  Then each next question starts the
\* only abort timer (DesktopAccessDialog::exec()) anew, and none is answered.
PendingIsResolved ==
    \/ []<><<LoseWorker>>_vars
    \/ \A c \in Clients : accessControlState[c] = "Pending" ~> accessControlState[c] # "Pending"

\* A client denied during its handshake is disconnected and deleted, even if
\* it sends nothing more.
DeniedIsDisconnected ==
    \A c \in Clients :
        (accessControlState[c] = "Failed" /\ protocolState[c] \in {"AccessControl", "Closing"})
            ~> conn[c] = "Absent"
=============================================================================
