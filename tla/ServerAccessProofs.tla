------------------------- MODULE ServerAccessProofs -------------------------
(* Theorems about ServerAccess, for any set of clients, rules and policies, *)
(* and, from "First rule" on, about RuledServerAccess, for any clients,     *)
(* users, hosts and rules that begin with one for a computer already being  *)
(* accessed.                                                                *)
EXTENDS RuledServerAccess, FiniteSetTheorems, TLAPS

-----------------------------------------------------------------------------
(* Lists                                                                   *)

\* A member of Orderings(S) is a list that has exactly the members S, each once.
LEMMA OrderingsAreLists ==
    ASSUME NEW S \in SUBSET Clients, NEW t \in Orderings(S)
    PROVE  t \in Seq(Clients) /\ Range(t) = S /\ IsInjective(t)
<1>1. Cardinality(S) \in Nat
  BY FS_Subset, FS_CardinalityType, ServerAccessAssumption
<1>2. QED
  BY <1>1 DEF Orderings

\* Appending a client that is not on a list adds it, and keeps the list free
\* of duplicates.
LEMMA AppendToList ==
    ASSUME NEW s \in Seq(Clients), NEW c \in Clients, IsInjective(s), c \notin Range(s)
    PROVE  /\ Append(s, c) \in Seq(Clients)
           /\ Range(Append(s, c)) = Range(s) \cup {c}
           /\ IsInjective(Append(s, c))
<1>1. /\ Append(s, c) \in Seq(Clients)
      /\ DOMAIN Append(s, c) = 1..(Len(s) + 1)
      /\ \A i \in 1..Len(s) : Append(s, c)[i] = s[i]
      /\ Append(s, c)[Len(s) + 1] = c
      /\ DOMAIN s = 1..Len(s) /\ Len(s) \in Nat
  OBVIOUS
<1>2. Range(Append(s, c)) = Range(s) \cup {c}
  BY <1>1 DEF Range
<1>3. IsInjective(Append(s, c))
  BY <1>1 DEF IsInjective, Range
<1>4. QED
  BY <1>1, <1>2, <1>3

\* Joining two lists with no common member.
LEMMA ConcatLists ==
    ASSUME NEW s \in Seq(Clients), NEW t \in Seq(Clients), IsInjective(s), IsInjective(t),
           Range(s) \cap Range(t) = {}
    PROVE  /\ s \o t \in Seq(Clients)
           /\ Range(s \o t) = Range(s) \cup Range(t)
           /\ IsInjective(s \o t)
<1> DEFINE m == Len(s)  n == Len(t)
<1>1. /\ s \o t \in Seq(Clients)
      /\ DOMAIN (s \o t) = 1..(m + n)
      /\ \A i \in 1..(m + n) : (s \o t)[i] = IF i <= m THEN s[i] ELSE t[i - m]
      /\ DOMAIN s = 1..m /\ DOMAIN t = 1..n /\ m \in Nat /\ n \in Nat
  OBVIOUS
<1>2. Range(s) \cup Range(t) \subseteq Range(s \o t)
  <2>1. ASSUME NEW i \in 1..m PROVE s[i] \in Range(s \o t)
    BY <1>1 DEF Range
  <2>2. ASSUME NEW i \in 1..n PROVE t[i] \in Range(s \o t)
    <3>1. i + m \in 1..(m + n) /\ (s \o t)[i + m] = t[i]
      BY <1>1
    <3>2. QED
      BY <3>1, <1>1 DEF Range
  <2>3. QED
    BY <2>1, <2>2, <1>1 DEF Range
<1>3. Range(s \o t) \subseteq Range(s) \cup Range(t)
  BY <1>1 DEF Range
<1>4. \A i \in 1..m, j \in 1..n : s[i] # t[j]
  BY <1>1 DEF Range
<1>5. IsInjective(s \o t)
  <2> SUFFICES ASSUME NEW i \in 1..(m + n), NEW j \in 1..(m + n), (s \o t)[i] = (s \o t)[j]
               PROVE  i = j
    BY <1>1 DEF IsInjective
  <2>1. CASE i <= m /\ j <= m
    BY <2>1, <1>1 DEF IsInjective
  <2>2. CASE i > m /\ j > m
    <3>1. i - m \in 1..n /\ j - m \in 1..n /\ t[i - m] = t[j - m]
      BY <2>2, <1>1
    <3>2. QED
      BY <3>1, <1>1 DEF IsInjective
  <2>3. CASE i <= m /\ j > m
    BY <2>3, <1>1, <1>4
  <2>4. CASE i > m /\ j <= m
    BY <2>4, <1>1, <1>4
  <2>5. QED
    BY <2>1, <2>2, <2>3, <2>4, <1>1
<1>6. QED
  BY <1>1, <1>2, <1>3, <1>5

-----------------------------------------------------------------------------
(* The inductive invariant: the three invariants hold each other up.       *)

IInv == TypeOK /\ ListIsTheGranted /\ PendingWillBeAnswered

LEMMA InitIInv == Init => IInv
<1> SUFFICES ASSUME Init PROVE IInv
  OBVIOUS
<1>1. NobodyYet \in Users
  BY ServerAccessAssumption DEF NobodyYet
<1>2. TypeOK
  <2>1. protocolState \in [Clients -> ProtocolStates] /\ authState \in [Clients -> AuthStates]
    BY DEF Init, ProtocolStates, AuthStates
  <2>2. accessControlState \in [Clients -> AccessControlStates] /\ username \in [Clients -> Users]
    BY <1>1 DEF Init, AccessControlStates
  <2>3. m_clients \in Seq(Clients)
    BY DEF Init
  <2>4. QED
    BY <2>1, <2>2, <2>3 DEF Init, TypeOK
<1>3. ListIsTheGranted
  BY DEF Init, ListIsTheGranted, Range, IsInjective
<1>4. PendingWillBeAnswered
  BY DEF Init, PendingWillBeAnswered, IsBusy
<1>5. QED
  BY <1>2, <1>3, <1>4 DEF IInv

\* The access control state addClient() leaves a client in is one of four.
LEMMA OutcomeType ==
    ASSUME TypeOK, NEW c \in Clients, NEW verdict \in Verdict, NEW busy \in BOOLEAN
    PROVE  /\ Outcome(c, verdict, busy) \in {"Successful", "Failed", "Waiting", "Pending"}
           /\ Outcome(c, verdict, busy) = "Pending" => ~busy
<1>1. Key(c) \in Keys
  BY ServerAccessAssumption DEF Key, Keys, TypeOK
<1>2. choices[Key(c)] \in {"None", "Always", "Never"}
  BY <1>1 DEF TypeOK
<1>3. QED
  BY <1>2 DEF Outcome, Verdict

\* Handlers of the handshake leave access control alone, and delete nobody.
LEMMA HandshakeKeepsIInv ==
    ASSUME IInv, UNCHANGED <<accessVars, dialogVars>>, TypeOK',
           \A c \in Clients : conn[c] # "Absent" => conn'[c] # "Absent"
    PROVE  IInv'
BY DEF IInv, ListIsTheGranted, PendingWillBeAnswered, IsBusy, accessVars, dialogVars

LEMMA CheckClientKeepsIInv ==
    ASSUME IInv, NEW c \in Clients, CheckClient(c)
    PROVE  IInv'
<1> USE DEF IInv
<1>1. PICK verdict \in Verdicts[<<username[c], HostOf[c], ConnectedUsers(Range(m_clients))>>] :
        LET s == Outcome(c, verdict, IsBusy)
        IN  /\ accessControlState' = [accessControlState EXCEPT ![c] = s]
            /\ m_clients' = IF s = "Successful" THEN Append(m_clients, c) ELSE m_clients
            /\ IF s = "Pending" THEN AskAbout(c) ELSE UNCHANGED <<listeners, dialogVars>>
            /\ AfterAccessControl(c, s)
  BY DEF CheckClient
<1> DEFINE s == Outcome(c, verdict, IsBusy)
<1>2. verdict \in Verdict
  <2>1. ConnectedUsers(Range(m_clients)) \in SUBSET Users
    BY DEF ConnectedUsers, TypeOK, Range
  <2>2. <<username[c], HostOf[c], ConnectedUsers(Range(m_clients))>> \in Users \X Hosts \X SUBSET Users
    BY <2>1, ServerAccessAssumption DEF TypeOK
  <2>3. QED
    BY <2>2, ServerAccessAssumption
<1>3. s \in {"Successful", "Failed", "Waiting", "Pending"} /\ (s = "Pending" => ~IsBusy)
  BY <1>2, OutcomeType DEF IsBusy
<1>4. Key(c) \in Keys
  BY ServerAccessAssumption DEF Key, Keys, TypeOK
<1>5. /\ conn[c] # "Absent" /\ accessControlState[c] \in {"Init", "Waiting"}
      /\ c \notin Range(m_clients) /\ c \notin listeners
      /\ UNCHANGED <<conn, authState, authType, username, choices>>
  BY DEF CheckClient, NeedsCheck, ListIsTheGranted, PendingWillBeAnswered, AfterAccessControl
<1>6. /\ Append(m_clients, c) \in Seq(Clients)
      /\ Range(Append(m_clients, c)) = Range(m_clients) \cup {c}
      /\ IsInjective(Append(m_clients, c))
  BY <1>5, AppendToList DEF TypeOK, ListIsTheGranted
<1> HIDE DEF s
<1>7. /\ accessControlState' = [accessControlState EXCEPT ![c] = s]
      /\ m_clients' = IF s = "Successful" THEN Append(m_clients, c) ELSE m_clients
      /\ IF s = "Pending" THEN AskAbout(c) ELSE UNCHANGED <<listeners, dialogVars>>
      /\ AfterAccessControl(c, s)
  BY <1>1 DEF s
<1>8. TypeOK'
  <2>1. protocolState' \in [Clients -> ProtocolStates]
    BY <1>3, <1>7 DEF AfterAccessControl, TypeOK, ProtocolStates
  <2>2. accessControlState' \in [Clients -> AccessControlStates]
    BY <1>3, <1>7 DEF TypeOK, AccessControlStates
  <2>3. m_clients' \in Seq(Clients)
    BY <1>6, <1>7 DEF TypeOK
  <2>4. listeners' \subseteq Clients /\ dialog' \in Keys \cup {NoKey} /\ abortTimer' \in BOOLEAN
    BY <1>4, <1>7 DEF TypeOK, AskAbout, dialogVars
  <2>5. QED
    BY <2>1, <2>2, <2>3, <2>4, <1>5 DEF TypeOK
<1>9. ListIsTheGranted'
  BY <1>3, <1>5, <1>6, <1>7 DEF ListIsTheGranted, TypeOK
<1>10. PendingWillBeAnswered'
  BY <1>3, <1>4, <1>5, <1>7 DEF PendingWillBeAnswered, TypeOK, AskAbout, dialogVars, IsBusy
<1>11. QED
  BY <1>8, <1>9, <1>10

LEMMA FinishedKeepsIInv ==
    ASSUME IInv, NEW choice \in Choice, Finished(choice)
    PROVE  IInv'
<1> USE DEF IInv
<1> DEFINE granted == choice \in {"Yes", "Always"}
<1>1. /\ accessControlState' =
            [c \in Clients |-> IF c \notin listeners THEN accessControlState[c]
                               ELSE IF granted THEN "Successful" ELSE "Failed"]
      /\ listeners' = {} /\ dialog' = NoKey /\ abortTimer' = FALSE
      /\ UNCHANGED gateVars
  BY DEF Finished
<1>2. choices' \in [Keys -> {"None", "Always", "Never"}]
  BY DEF Finished, TypeOK
<1>3. listeners = {c \in Clients : accessControlState[c] = "Pending"}
  BY DEF PendingWillBeAnswered
<1>4. /\ m_clients' \in Seq(Clients) /\ IsInjective(m_clients')
      /\ Range(m_clients') = IF granted THEN Range(m_clients) \cup listeners ELSE Range(m_clients)
  <2>1. CASE granted
    <3>1. PICK order \in Orderings(listeners) : m_clients' = m_clients \o order
      BY <2>1 DEF Finished
    <3>2. order \in Seq(Clients) /\ Range(order) = listeners /\ IsInjective(order)
      BY OrderingsAreLists DEF TypeOK
    <3>3. Range(m_clients) \cap Range(order) = {}
      BY <1>3, <3>2 DEF ListIsTheGranted
    <3>4. QED
      BY <2>1, <3>1, <3>2, <3>3, ConcatLists DEF TypeOK, ListIsTheGranted
  <2>2. CASE ~granted
    BY <2>2 DEF Finished, TypeOK, ListIsTheGranted
  <2>3. QED
    BY <2>1, <2>2
<1>5. TypeOK'
  BY <1>1, <1>2, <1>4 DEF TypeOK, AccessControlStates, gateVars
<1>6. ListIsTheGranted'
  BY <1>1, <1>3, <1>4 DEF ListIsTheGranted, gateVars
<1>7. PendingWillBeAnswered'
  BY <1>1, <1>3 DEF PendingWillBeAnswered, IsBusy
<1>8. QED
  BY <1>5, <1>6, <1>7

LEMMA DeleteConnectionKeepsIInv ==
    ASSUME IInv, NEW c \in Clients, DeleteConnection(c)
    PROVE  IInv'
<1> USE DEF IInv
<1>1. PICK verdict \in [Remaining(c) -> Verdict] :
        LET state(d) == RecheckOutcome(c, verdict, d)
            kept     == {d \in Remaining(c) : state(d) = "Successful"}
            asked    == {d \in Remaining(c) : state(d) = "Pending"}
        IN  /\ accessControlState' =
                 [d \in Clients |-> IF d = c THEN "Init"
                                    ELSE IF d \in Remaining(c) THEN state(d)
                                    ELSE accessControlState[d]]
            /\ protocolState' =
                 [d \in Clients |-> IF d = c THEN "Disconnected"
                                    ELSE IF d \in Remaining(c) /\ ~Stays(state(d)) THEN "Close"
                                    ELSE protocolState[d]]
            /\ m_clients' \in Keep(m_clients, kept)
            /\ listeners' = (listeners \ {c}) \cup asked
            /\ dialog' = IF asked = {} THEN dialog ELSE Key(CHOOSE d \in asked : TRUE)
            /\ abortTimer' = (abortTimer \/ asked # {})
  BY DEF DeleteConnection
<1> DEFINE state(d) == RecheckOutcome(c, verdict, d)
           kept  == {d \in Remaining(c) : state(d) = "Successful"}
           asked == {d \in Remaining(c) : state(d) = "Pending"}
<1>2. /\ accessControlState' =
           [d \in Clients |-> IF d = c THEN "Init"
                              ELSE IF d \in Remaining(c) THEN state(d)
                              ELSE accessControlState[d]]
      /\ protocolState' =
           [d \in Clients |-> IF d = c THEN "Disconnected"
                              ELSE IF d \in Remaining(c) /\ ~Stays(state(d)) THEN "Close"
                              ELSE protocolState[d]]
      /\ m_clients' \in Keep(m_clients, kept)
      /\ listeners' = (listeners \ {c}) \cup asked
      /\ dialog' = IF asked = {} THEN dialog ELSE Key(CHOOSE d \in asked : TRUE)
      /\ abortTimer' = (abortTimer \/ asked # {})
  BY <1>1
<1>3. Remaining(c) = {d \in Clients : accessControlState[d] = "Successful"} \ {c}
  BY DEF Remaining, ListIsTheGranted
<1>4. \A d \in Remaining(c) : state(d) \in {"Successful", "Failed", "Waiting", "Pending"}
  <2>1. SUFFICES ASSUME NEW d \in Remaining(c)
                 PROVE  RecheckOutcome(c, verdict, d) \in {"Successful", "Failed", "Waiting", "Pending"}
    OBVIOUS
  <2>2. d \in Clients /\ verdict[d] \in Verdict
    BY <1>3
  <2>3. (IsBusy \/ d \notin First(Asking(c, verdict))) \in BOOLEAN
    BY DEF IsBusy
  <2>4. QED
    BY <2>2, <2>3, OutcomeType DEF RecheckOutcome
<1> HIDE DEF state
<1>5. kept \subseteq Clients /\ asked \subseteq Clients
  BY <1>3
<1>6. m_clients' \in Seq(Clients) /\ Range(m_clients') = kept /\ IsInjective(m_clients')
  BY <1>2, <1>5, OrderingsAreLists DEF Keep
<1>7. conn[c] = "Dropped" /\ conn' = [conn EXCEPT ![c] = "Absent"] /\ UNCHANGED choices
  BY DEF DeleteConnection
<1>8. TypeOK'
  <2>1. accessControlState' \in [Clients -> AccessControlStates]
    BY <1>2, <1>4 DEF TypeOK, AccessControlStates
  <2>2. protocolState' \in [Clients -> ProtocolStates]
    BY <1>2 DEF TypeOK, ProtocolStates
  <2>3. dialog' \in Keys \cup {NoKey}
    <3>1. \A d \in Clients : Key(d) \in Keys
      BY ServerAccessAssumption DEF Key, Keys, TypeOK
    <3>2. asked # {} => (CHOOSE d \in asked : TRUE) \in asked
      OBVIOUS
    <3>3. QED
      BY <1>2, <1>5, <3>1, <3>2 DEF TypeOK
  <2>4. authState' \in [Clients -> AuthStates] /\ authType' \in [Clients -> AuthTypes \cup {"None"}]
    BY DEF DeleteConnection, TypeOK, AuthStates
  <2>5. username' \in [Clients -> Users]
    BY ServerAccessAssumption DEF DeleteConnection, TypeOK, NobodyYet
  <2>6. listeners' \subseteq Clients /\ abortTimer' \in BOOLEAN
    BY <1>2, <1>5 DEF TypeOK
  <2>7. QED
    BY <2>1, <2>2, <2>3, <2>4, <2>5, <2>6, <1>6, <1>7 DEF TypeOK
<1>9. ListIsTheGranted'
  <2>1. Range(m_clients') = {d \in Clients : accessControlState'[d] = "Successful"}
    BY <1>2, <1>3, <1>6
  <2>2. ASSUME NEW d \in Clients, accessControlState'[d] # "Init" PROVE conn'[d] # "Absent"
    <3>1. d # c /\ accessControlState[d] # "Init"
      BY <1>2, <1>3, <2>2
    <3>2. QED
      BY <3>1, <1>7 DEF ListIsTheGranted, TypeOK
  <2>3. QED
    BY <2>1, <2>2, <1>6 DEF ListIsTheGranted
<1>10. PendingWillBeAnswered'
  <2>1. listeners' = {d \in Clients : accessControlState'[d] = "Pending"}
    BY <1>2, <1>3, <1>4 DEF PendingWillBeAnswered
  <2>2. (listeners' # {} \/ dialog' # NoKey) => abortTimer'
    BY <1>2 DEF PendingWillBeAnswered, IsBusy
  <2>3. QED
    BY <2>1, <2>2 DEF PendingWillBeAnswered, IsBusy
<1>11. QED
  BY <1>8, <1>9, <1>10

LEMMA NextIInv == IInv /\ [Next]_vars => IInv'
<1> SUFFICES ASSUME IInv, [Next]_vars PROVE IInv'
  OBVIOUS
<1>1. CASE UNCHANGED vars
  BY <1>1 DEF IInv, TypeOK, ListIsTheGranted, PendingWillBeAnswered, IsBusy,
              vars, gateVars, accessVars, dialogVars
<1>2. CASE DialogStep
  <2>1. CASE ReportDesktopAccessChoice
    BY <2>1, FinishedKeepsIInv DEF ReportDesktopAccessChoice
  <2>2. CASE AbortDialog
    BY <2>2, FinishedKeepsIInv DEF AbortDialog, Choice
  <2>3. CASE LoseWorker
    BY <2>3 DEF LoseWorker, IInv, TypeOK, ListIsTheGranted, PendingWillBeAnswered, IsBusy,
                gateVars, accessVars
  <2>4. QED
    BY <1>2, <2>1, <2>2, <2>3 DEF DialogStep
<1>3. ASSUME NEW c \in Clients, ClientStep(c) PROVE IInv'
  <2> USE DEF IInv
  <2> DEFINE Untouched == UNCHANGED <<accessVars, dialogVars>>
             Alive == \A d \in Clients : conn[d] # "Absent" => conn'[d] # "Absent"
  <2>1. CASE AcceptConnection(c)
    <3>1. TypeOK' /\ Untouched /\ Alive
      BY <2>1 DEF AcceptConnection, TypeOK, ProtocolStates, accessVars, dialogVars
    <3>2. QED
      BY <3>1, HandshakeKeepsIInv
  <2>2. ASSUME Proceed(c, protocolState'[c]) \/ CloseSocket(c),
               protocolState'[c] \in ProtocolStates,
               UNCHANGED <<authState, authType, username, accessVars, dialogVars>>
        PROVE  IInv'
    <3>1. TypeOK' /\ Untouched /\ Alive
      BY <2>2 DEF Proceed, CloseSocket, TypeOK, accessVars, dialogVars
    <3>2. QED
      BY <3>1, HandshakeKeepsIInv
  <2>3. CASE ReadProtocol(c)
    BY <2>2, <2>3 DEF ReadProtocol, Reading, Proceed, CloseSocket, TypeOK, ProtocolStates
  <2>4. CASE ReceiveSecurityTypeResponse(c)
    BY <2>2, <2>4 DEF ReceiveSecurityTypeResponse, Reading, Proceed, CloseSocket, TypeOK, ProtocolStates
  <2>5. CASE ReceiveAuthenticationTypeResponse(c)
    <3>1. authState' \in [Clients -> AuthStates]
      BY <2>5, ServerAccessAssumption
         DEF ReceiveAuthenticationTypeResponse, CheckForIncompleteAuthentication, TypeOK,
             SecondStage, AuthStates
    <3>2. TypeOK' /\ Untouched /\ Alive
      BY <2>5, <3>1 DEF ReceiveAuthenticationTypeResponse, CloseSocket, TypeOK, ProtocolStates,
                        accessVars, dialogVars
    <3>3. QED
      BY <3>2, HandshakeKeepsIInv
  <2>6. CASE ReceiveAuthenticationMessage(c)
    <3>1. TypeOK' /\ Untouched /\ Alive
      BY <2>6 DEF ReceiveAuthenticationMessage, Proceed, CloseSocket, TypeOK, ProtocolStates,
                  AuthStates, accessVars, dialogVars
    <3>2. QED
      BY <3>1, HandshakeKeepsIInv
  <2>7. CASE CheckClient(c)
    BY <2>7, CheckClientKeepsIInv
  <2>8. CASE ProceedAfterDecision(c)
    <3>1. TypeOK' /\ Untouched /\ Alive
      BY <2>8 DEF ProceedAfterDecision, AfterAccessControl, TypeOK, ProtocolStates,
                  accessVars, dialogVars
    <3>2. QED
      BY <3>1, HandshakeKeepsIInv
  <2>9. CASE ProcessFramebufferInit(c)
    BY <2>2, <2>9 DEF ProcessFramebufferInit, Reading, Proceed, CloseSocket, TypeOK, ProtocolStates
  <2>10. CASE Disconnect(c) \/ ReadClosing(c) \/ ReadClose(c) \/ CloseDelayElapsed(c)
    <3>1. TypeOK' /\ Untouched /\ Alive
      BY <2>10 DEF Disconnect, ReadClosing, ReadClose, CloseDelayElapsed, CloseSocket, Proceed, Reading,
                   CheckForIncompleteAuthentication, TypeOK, ProtocolStates, AuthStates,
                   accessVars, dialogVars
    <3>2. QED
      BY <3>1, HandshakeKeepsIInv
  <2>11. CASE DeleteConnection(c)
    BY <2>11, DeleteConnectionKeepsIInv
  <2>12. QED
    BY <1>3, <2>1, <2>3, <2>4, <2>5, <2>6, <2>7, <2>8, <2>9, <2>10, <2>11 DEF ClientStep
<1>4. QED
  BY <1>1, <1>2, <1>3 DEF Next

\* The variables keep their types.
THEOREM TypeCorrect == Spec => []TypeOK
<1>1. IInv => TypeOK
  BY DEF IInv
<1>2. QED
  BY <1>1, InitIInv, NextIInv, PTL DEF Spec

\* m_clients lists exactly the clients whose access control state is
\* Successful, each once, whatever happens to connections, worker and dialog.
THEOREM ListCorrect == Spec => []ListIsTheGranted
<1>1. IInv => ListIsTheGranted
  BY DEF IInv
<1>2. QED
  BY <1>1, InitIInv, NextIInv, PTL DEF Spec

\* Every pending client listens to the dialog, and the abort timer runs.
THEOREM PendingCorrect == Spec => []PendingWillBeAnswered
<1>1. IInv => PendingWillBeAnswered
  BY DEF IInv
<1>2. QED
  BY <1>1, InitIInv, NextIInv, PTL DEF Spec

\* A denial is final: every step that changes a Failed access control state
\* deletes the connection.
THEOREM DenialCorrect == Spec => DenialIsFinal
<1>1. IInv /\ [Next]_vars =>
        [\A c \in Clients : accessControlState[c] = "Failed" =>
            accessControlState'[c] = "Failed" \/ conn'[c] = "Absent"]_vars
  <2> SUFFICES ASSUME IInv, Next, NEW c \in Clients, accessControlState[c] = "Failed"
               PROVE  accessControlState'[c] = "Failed" \/ conn'[c] = "Absent"
    OBVIOUS
  <2>1. c \notin listeners /\ c \notin Range(m_clients)
    BY DEF IInv, PendingWillBeAnswered, ListIsTheGranted
  <2>2. CASE DialogStep
    BY <2>1, <2>2 DEF DialogStep, ReportDesktopAccessChoice, AbortDialog, LoseWorker, Finished, accessVars
  <2>3. ASSUME NEW d \in Clients, ClientStep(d)
        PROVE  accessControlState'[c] = "Failed" \/ conn'[c] = "Absent"
    <3>1. CASE CheckClient(d)
      BY <3>1 DEF CheckClient, NeedsCheck, IInv, TypeOK
    <3>2. CASE DeleteConnection(d)
      BY <2>1, <3>2 DEF DeleteConnection, Remaining, IInv, TypeOK
    <3>3. CASE UNCHANGED accessVars
      BY <3>3 DEF accessVars
    <3>4. QED
      BY <2>3, <3>1, <3>2, <3>3
         DEF ClientStep, AcceptConnection, ReadProtocol, ReceiveSecurityTypeResponse,
             ReceiveAuthenticationTypeResponse, ReceiveAuthenticationMessage,
             ProceedAfterDecision, ProcessFramebufferInit, Disconnect, ReadClosing, ReadClose,
             CloseDelayElapsed
  <2>4. QED
    BY <2>2, <2>3 DEF Next
<1>2. QED
  BY <1>1, InitIInv, NextIInv, PTL DEF Spec, DenialIsFinal

-----------------------------------------------------------------------------
(* A second layer, above IInv: where access control and handshake meet.    *)

\* Who has been checked has authenticated first, with an offered method, and
\* is past the handshake; who is served has been decided.
Handshaken ==
    \A c \in Clients :
        /\ protocolState[c] \in {"Authenticating", "AccessControl", "FramebufferInit", "Running"}
             => authType[c] \in AuthTypes
        /\ protocolState[c] \in {"AccessControl", "FramebufferInit", "Running"}
             => authState[c] = "Successful"
        /\ accessControlState[c] # "Init"
             => protocolState[c] \in {"AccessControl", "FramebufferInit", "Running", "Close", "Closing"}
        /\ protocolState[c] \in {"FramebufferInit", "Running"}
             => accessControlState[c] \notin {"Init", "Waiting"}

\* Only undecided users and hosts are asked about, and one client at a time
\* as long as no worker dies.
Questions ==
    /\ \A c \in listeners : choices[Key(c)] = "None"
    /\ ~WorkerMayDie => /\ \A c, d \in listeners : c = d
                        /\ listeners # {} => IsBusy

SInv == Handshaken /\ Questions

LEMMA InitSInv == Init => SInv
BY DEF Init, SInv, Handshaken, Questions

\* Being checked again leaves at most one client with the dialog, and none
\* while it is in use.
LEMMA OneIsAsked ==
    ASSUME IInv, NEW c \in Clients, NEW verdict \in [Remaining(c) -> Verdict],
           NEW d \in Remaining(c), RecheckOutcome(c, verdict, d) = "Pending"
    PROVE  /\ ~IsBusy
           /\ d \in First(Asking(c, verdict))
           /\ choices[Key(d)] = "None"
           /\ \A e \in Remaining(c) : RecheckOutcome(c, verdict, e) = "Pending" => e = d
<1> USE DEF IInv
<1>1. Remaining(c) \subseteq Clients
  BY DEF Remaining, ListIsTheGranted
<1>2. \A e \in Remaining(c) : RecheckOutcome(c, verdict, e) = "Pending" =>
         ~IsBusy /\ e \in First(Asking(c, verdict))
  <2> SUFFICES ASSUME NEW e \in Remaining(c), RecheckOutcome(c, verdict, e) = "Pending"
               PROVE  ~IsBusy /\ e \in First(Asking(c, verdict))
    OBVIOUS
  <2>1. (IsBusy \/ e \notin First(Asking(c, verdict))) \in BOOLEAN
    BY DEF IsBusy
  <2>2. QED
    BY <1>1, <2>1, OutcomeType DEF RecheckOutcome
<1>3. choices[Key(d)] = "None"
  <2>1. Key(d) \in Keys /\ verdict[d] \in Verdict
    BY <1>1, ServerAccessAssumption DEF Key, Keys, TypeOK
  <2>2. choices[Key(d)] \in {"None", "Always", "Never"}
    BY <2>1 DEF TypeOK
  <2>3. QED
    BY <2>1, <2>2 DEF RecheckOutcome, Outcome, Verdict
<1>4. \A x, y \in First(Asking(c, verdict)) : x = y
  <2> SUFFICES ASSUME NEW x \in First(Asking(c, verdict)), NEW y \in First(Asking(c, verdict)), x # y
               PROVE  FALSE
    OBVIOUS
  <2>1. Before(m_clients, x, y) /\ Before(m_clients, y, x)
    BY DEF First
  <2>2. PICK i \in DOMAIN m_clients, j \in DOMAIN m_clients :
           i < j /\ m_clients[i] = x /\ m_clients[j] = y
    BY <2>1 DEF Before
  <2>3. PICK k \in DOMAIN m_clients, l \in DOMAIN m_clients :
           k < l /\ m_clients[k] = y /\ m_clients[l] = x
    BY <2>1 DEF Before
  <2>4. i = l /\ j = k
    BY <2>2, <2>3 DEF ListIsTheGranted, IsInjective
  <2>5. DOMAIN m_clients \subseteq Nat
    BY DEF TypeOK
  <2>6. QED
    BY <2>2, <2>3, <2>4, <2>5
<1>5. QED
  BY <1>2, <1>3, <1>4

LEMMA CheckClientKeepsSInv ==
    ASSUME IInv, SInv, NEW c \in Clients, CheckClient(c)
    PROVE  SInv'
<1> USE DEF IInv, SInv
<1>1. PICK verdict \in Verdicts[<<username[c], HostOf[c], ConnectedUsers(Range(m_clients))>>] :
        LET s == Outcome(c, verdict, IsBusy)
        IN  /\ accessControlState' = [accessControlState EXCEPT ![c] = s]
            /\ m_clients' = IF s = "Successful" THEN Append(m_clients, c) ELSE m_clients
            /\ IF s = "Pending" THEN AskAbout(c) ELSE UNCHANGED <<listeners, dialogVars>>
            /\ AfterAccessControl(c, s)
  BY DEF CheckClient
<1> DEFINE s == Outcome(c, verdict, IsBusy)
<1>2. verdict \in Verdict
  <2>1. ConnectedUsers(Range(m_clients)) \in SUBSET Users
    BY DEF ConnectedUsers, TypeOK, Range
  <2>2. <<username[c], HostOf[c], ConnectedUsers(Range(m_clients))>> \in Users \X Hosts \X SUBSET Users
    BY <2>1, ServerAccessAssumption DEF TypeOK
  <2>3. QED
    BY <2>2, ServerAccessAssumption
<1>3. s \in {"Successful", "Failed", "Waiting", "Pending"} /\ (s = "Pending" => ~IsBusy)
  BY <1>2, OutcomeType DEF IsBusy
<1>4. Key(c) \in Keys /\ choices[Key(c)] \in {"None", "Always", "Never"}
  BY ServerAccessAssumption DEF Key, Keys, TypeOK
<1>5. s = "Pending" => choices[Key(c)] = "None"
  BY <1>2, <1>4 DEF Outcome, Verdict
<1> HIDE DEF s
<1>6. /\ accessControlState' = [accessControlState EXCEPT ![c] = s]
      /\ IF s = "Pending" THEN AskAbout(c) ELSE UNCHANGED <<listeners, dialogVars>>
      /\ protocolState' =
           [protocolState EXCEPT ![c] = CASE s = "Successful" -> "FramebufferInit"
                                          [] s = "Failed"     -> "Closing"
                                          [] OTHER            -> "AccessControl"]
      /\ UNCHANGED <<conn, authState, authType, username, choices>>
      /\ protocolState[c] = "AccessControl"
  BY <1>1 DEF s, AfterAccessControl, CheckClient
<1>7. Handshaken'
  BY <1>3, <1>6 DEF Handshaken, TypeOK
<1>8. Questions'
  <2>1. CASE s = "Pending"
    <3>1. dialog' # NoKey /\ listeners' = listeners \cup {c} /\ ~IsBusy
      BY <1>3, <1>4, <1>6, <2>1 DEF AskAbout, Keys, NoKey
    <3>2. QED
      BY <3>1, <1>5, <1>6, <2>1 DEF Questions, IsBusy, Key
  <2>2. CASE s # "Pending"
    BY <1>6, <2>2 DEF Questions, IsBusy, Key, dialogVars
  <2>3. QED
    BY <2>1, <2>2
<1>9. QED
  BY <1>7, <1>8

LEMMA FinishedKeepsSInv ==
    ASSUME IInv, SInv, NEW choice \in Choice, Finished(choice)
    PROVE  SInv'
<1> USE DEF IInv, SInv
<1>1. Handshaken'
  BY DEF Handshaken, Finished, gateVars, TypeOK, PendingWillBeAnswered
<1>2. Questions'
  BY DEF Questions, Finished
<1>3. QED
  BY <1>1, <1>2

LEMMA DeleteConnectionKeepsSInv ==
    ASSUME IInv, SInv, NEW c \in Clients, DeleteConnection(c)
    PROVE  SInv'
<1> USE DEF IInv, SInv
<1>1. PICK verdict \in [Remaining(c) -> Verdict] :
        LET state(d) == RecheckOutcome(c, verdict, d)
            kept     == {d \in Remaining(c) : state(d) = "Successful"}
            asked    == {d \in Remaining(c) : state(d) = "Pending"}
        IN  /\ accessControlState' =
                 [d \in Clients |-> IF d = c THEN "Init"
                                    ELSE IF d \in Remaining(c) THEN state(d)
                                    ELSE accessControlState[d]]
            /\ protocolState' =
                 [d \in Clients |-> IF d = c THEN "Disconnected"
                                    ELSE IF d \in Remaining(c) /\ ~Stays(state(d)) THEN "Close"
                                    ELSE protocolState[d]]
            /\ listeners' = (listeners \ {c}) \cup asked
            /\ dialog' = IF asked = {} THEN dialog ELSE Key(CHOOSE d \in asked : TRUE)
  BY DEF DeleteConnection
<1> DEFINE asked == {d \in Remaining(c) : RecheckOutcome(c, verdict, d) = "Pending"}
<1>2. Remaining(c) = {d \in Clients : accessControlState[d] = "Successful"} \ {c}
  BY DEF Remaining, ListIsTheGranted
<1>3. /\ choices' = choices
      /\ authState' = [authState EXCEPT ![c] = "Init"]
      /\ authType' = [authType EXCEPT ![c] = "None"]
      /\ username' = [username EXCEPT ![c] = NobodyYet]
  BY DEF DeleteConnection
<1>4. Handshaken'
  <2> SUFFICES ASSUME NEW d \in Clients, d # c
               PROVE /\ protocolState'[d] \in {"Authenticating", "AccessControl", "FramebufferInit", "Running"}
                          => authType'[d] \in AuthTypes
                     /\ protocolState'[d] \in {"AccessControl", "FramebufferInit", "Running"}
                          => authState'[d] = "Successful"
                     /\ accessControlState'[d] # "Init"
                          => protocolState'[d] \in {"AccessControl", "FramebufferInit", "Running", "Close", "Closing"}
                     /\ protocolState'[d] \in {"FramebufferInit", "Running"}
                          => accessControlState'[d] \notin {"Init", "Waiting"}
    BY <1>1 DEF Handshaken
  <2>1. authType'[d] = authType[d] /\ authState'[d] = authState[d]
    BY <1>3 DEF TypeOK
  <2>2. CASE d \notin Remaining(c)
    BY <2>1, <2>2, <1>1 DEF Handshaken
  <2>3. CASE d \in Remaining(c)
    BY <2>1, <2>3, <1>1, <1>2 DEF Handshaken, Stays
  <2>4. QED
    BY <2>2, <2>3
<1>5. \A d \in Clients : d # c => Key(d)' = Key(d)
  BY <1>3 DEF Key, TypeOK
<1>6. Questions'
  <2>1. listeners' = (listeners \ {c}) \cup asked /\ c \notin asked /\ listeners \subseteq Clients
    BY <1>1, <1>2 DEF TypeOK
  <2>2. \A d \in listeners' : choices'[Key(d)'] = "None"
    BY <2>1, <1>2, <1>3, <1>5, OneIsAsked DEF Questions
  <2>3. CASE asked = {}
    <3>1. dialog' = dialog
      BY <1>1, <2>3
    <3>2. QED
      BY <2>1, <2>2, <2>3, <3>1 DEF Questions, IsBusy
  <2>4. CASE asked # {}
    <3>1. ~IsBusy /\ \A d, e \in asked : d = e
      BY <2>4, OneIsAsked
    <3>2. (CHOOSE d \in asked : TRUE) \in Clients
      BY <2>4, <1>2
    <3>3. dialog' # NoKey
      <4>1. dialog' = Key(CHOOSE d \in asked : TRUE)
        BY <1>1, <2>4
      <4>2. QED
        BY <4>1 DEF Key, NoKey
    <3>4. QED
      BY <2>1, <2>2, <3>1, <3>3 DEF Questions, IsBusy
  <2>5. QED
    BY <2>3, <2>4
<1>7. QED
  BY <1>4, <1>6

LEMMA NextSInv == IInv /\ SInv /\ [Next]_vars => SInv'
<1> SUFFICES ASSUME IInv, SInv, [Next]_vars PROVE SInv'
  OBVIOUS
<1> USE DEF IInv, SInv
<1>1. CASE UNCHANGED vars
  BY <1>1 DEF Handshaken, Questions, IsBusy, Key, vars, gateVars, accessVars, dialogVars
<1>2. CASE DialogStep
  <2>1. CASE ReportDesktopAccessChoice
    BY <2>1, FinishedKeepsSInv DEF ReportDesktopAccessChoice
  <2>2. CASE AbortDialog
    BY <2>2, FinishedKeepsSInv DEF AbortDialog, Choice
  <2>3. CASE LoseWorker
    BY <2>3 DEF LoseWorker, Handshaken, Questions, IsBusy, Key, gateVars, accessVars
  <2>4. QED
    BY <1>2, <2>1, <2>2, <2>3 DEF DialogStep
<1>3. ASSUME NEW c \in Clients, ClientStep(c) PROVE SInv'
  <2>1. ASSUME UNCHANGED <<username, accessVars, dialogVars>> PROVE Questions'
    BY <2>1 DEF Questions, IsBusy, Key, accessVars, dialogVars
  <2>2. CASE AcceptConnection(c)
    <3>1. accessControlState[c] = "Init"
      BY <2>2 DEF AcceptConnection, ListIsTheGranted
    <3>2. Handshaken'
      BY <2>2, <3>1 DEF AcceptConnection, Handshaken, TypeOK, accessVars
    <3>3. QED
      BY <2>1, <2>2, <3>2 DEF AcceptConnection
  <2>3. CASE ReadProtocol(c) \/ ReceiveSecurityTypeResponse(c)
    <3>1. Handshaken'
      BY <2>3 DEF ReadProtocol, ReceiveSecurityTypeResponse, Reading, Proceed, CloseSocket,
                  Handshaken, TypeOK, accessVars
    <3>2. QED
      BY <2>1, <2>3, <3>1 DEF ReadProtocol, ReceiveSecurityTypeResponse
  <2>4. CASE ReceiveAuthenticationTypeResponse(c)
    <3>1. accessControlState[c] = "Init" /\ c \notin listeners
      BY <2>4 DEF ReceiveAuthenticationTypeResponse, Reading, Handshaken, PendingWillBeAnswered
    <3>2. Handshaken'
      BY <2>4, <3>1 DEF ReceiveAuthenticationTypeResponse, CheckForIncompleteAuthentication, Reading,
                        CloseSocket, Handshaken, TypeOK, accessVars
    <3>3. \A d \in Clients : d # c => Key(d)' = Key(d)
      BY <2>4 DEF ReceiveAuthenticationTypeResponse, Key, TypeOK
    <3>4. Questions'
      BY <2>4, <3>1, <3>3 DEF ReceiveAuthenticationTypeResponse, Questions, IsBusy, TypeOK,
                              accessVars, dialogVars
    <3>5. QED
      BY <3>2, <3>4
  <2>5. CASE ReceiveAuthenticationMessage(c)
    <3>1. Handshaken'
      BY <2>5 DEF ReceiveAuthenticationMessage, Reading, Proceed, CloseSocket, Handshaken,
                  TypeOK, accessVars
    <3>2. QED
      BY <2>1, <2>5, <3>1 DEF ReceiveAuthenticationMessage
  <2>6. CASE CheckClient(c)
    BY <2>6, CheckClientKeepsSInv
  <2>7. CASE ProceedAfterDecision(c)
    <3>1. Handshaken'
      BY <2>7 DEF ProceedAfterDecision, AfterAccessControl, Handshaken, TypeOK, accessVars
    <3>2. QED
      BY <2>1, <2>7, <3>1 DEF ProceedAfterDecision, AfterAccessControl
  <2>8. CASE ProcessFramebufferInit(c)
    <3>1. Handshaken'
      BY <2>8 DEF ProcessFramebufferInit, Reading, Proceed, Handshaken, TypeOK, accessVars
    <3>2. QED
      BY <2>1, <2>8, <3>1 DEF ProcessFramebufferInit
  <2>9. CASE Disconnect(c) \/ ReadClosing(c) \/ ReadClose(c) \/ CloseDelayElapsed(c)
    <3>1. Handshaken'
      BY <2>9 DEF Disconnect, ReadClosing, ReadClose, CloseDelayElapsed, CloseSocket, Proceed, Reading,
                  CheckForIncompleteAuthentication, Handshaken, TypeOK, accessVars
    <3>2. QED
      BY <2>1, <2>9, <3>1 DEF Disconnect, ReadClosing, ReadClose, CloseDelayElapsed
  <2>10. CASE DeleteConnection(c)
    BY <2>10, DeleteConnectionKeepsSInv
  <2>11. QED
    BY <1>3, <2>2, <2>3, <2>4, <2>5, <2>6, <2>7, <2>8, <2>9, <2>10 DEF ClientStep
<1>4. QED
  BY <1>1, <1>2, <1>3 DEF Next

\* A served client has authenticated, and is never one that is still waiting
\* for the dialog or has not been checked.
THEOREM ServedCorrect == Spec => []ServedHasBeenDecided
<1>1. SInv => ServedHasBeenDecided
  BY DEF SInv, Handshaken, ServedHasBeenDecided
<1>2. Init => IInv /\ SInv
  BY InitIInv, InitSInv
<1>3. IInv /\ SInv /\ [Next]_vars => (IInv /\ SInv)'
  BY NextIInv, NextSInv
<1>4. QED
  BY <1>1, <1>2, <1>3, PTL DEF Spec

\* Unless workers die, two clients never wait for the same answer.
THEOREM SingleQuestionCorrect == Spec => []SingleQuestion
<1>1. SInv => SingleQuestion
  BY DEF SInv, Questions, SingleQuestion
<1>2. Init => IInv /\ SInv
  BY InitIInv, InitSInv
<1>3. IInv /\ SInv /\ [Next]_vars => (IInv /\ SInv)'
  BY NextIInv, NextSInv
<1>4. QED
  BY <1>1, <1>2, <1>3, PTL DEF Spec

\* A remembered choice is never replaced.
THEOREM ChoiceSticksCorrect == Spec => ChoiceSticks
<1>1. IInv /\ SInv /\ [Next]_vars =>
        [\A k \in Keys : choices[k] # "None" => choices'[k] = choices[k]]_vars
  <2> SUFFICES ASSUME IInv, SInv, Next, NEW k \in Keys, choices[k] # "None"
               PROVE  choices'[k] = choices[k]
    OBVIOUS
  <2>1. ASSUME NEW choice \in Choice, Finished(choice) PROVE choices'[k] = choices[k]
    BY <2>1 DEF Finished, SInv, Questions
  <2>2. CASE DialogStep
    BY <2>1, <2>2 DEF DialogStep, ReportDesktopAccessChoice, AbortDialog, LoseWorker, Choice, accessVars
  <2>3. ASSUME NEW c \in Clients, ClientStep(c) PROVE choices' = choices
    BY <2>3 DEF ClientStep, AcceptConnection, ReadProtocol, ReceiveSecurityTypeResponse,
                ReceiveAuthenticationTypeResponse, ReceiveAuthenticationMessage, CheckClient,
                ProceedAfterDecision, ProcessFramebufferInit, Disconnect, ReadClosing, ReadClose,
                CloseDelayElapsed, DeleteConnection, accessVars
  <2>4. QED
    BY <2>2, <2>3 DEF Next
<1>2. Init => IInv /\ SInv
  BY InitIInv, InitSInv
<1>3. IInv /\ SInv /\ [Next]_vars => (IInv /\ SInv)'
  BY NextIInv, NextSInv
<1>4. QED
  BY <1>1, <1>2, <1>3, PTL DEF Spec, ChoiceSticks

-----------------------------------------------------------------------------
(* ServerAccess implements AccessGate                                      *)

StageMap == [c \in Clients |-> Stage(c)]
Granted  == {c \in Clients : accessControlState[c] = "Successful"}

LEMMA StageType == TypeOK => StageMap \in [Clients -> Gate!Stages]
BY DEF StageMap, Stage, Gate!Stages, TypeOK

\* A handler that touches the connection of one client, and none of the
\* decisions, moves the stage of that client only.
LEMMA OneClientMoves ==
    ASSUME NEW c \in Clients, NEW to,
           \A d \in Clients : d # c => conn'[d] = conn[d] /\ protocolState'[d] = protocolState[d],
           Stage(c)' = to
    PROVE  StageMap' = [StageMap EXCEPT ![c] = to]
<1>1. \A d \in Clients : d # c => Stage(d)' = Stage(d)
  BY DEF Stage
<1>2. QED
  BY <1>1 DEF StageMap

LEMMA HandshakeImplements ==
    ASSUME IInv, SInv, NEW c \in Clients, UNCHANGED accessVars,
           \/ AcceptConnection(c) \/ ReadProtocol(c) \/ ReceiveSecurityTypeResponse(c)
           \/ ReceiveAuthenticationTypeResponse(c) \/ ReceiveAuthenticationMessage(c)
           \/ ProcessFramebufferInit(c) \/ Disconnect(c) \/ ReadClosing(c) \/ ReadClose(c) \/ CloseDelayElapsed(c)
           \/ ProceedAfterDecision(c)
    PROVE  [Gate!Next]_<<StageMap, Granted>>
<1> USE DEF IInv, TypeOK
<1> DEFINE Others == \A d \in Clients :
                       d # c => conn'[d] = conn[d] /\ protocolState'[d] = protocolState[d]
<1>1. UNCHANGED Granted
  BY DEF Granted, accessVars
<1>2. StageMap[c] = Stage(c)
  BY DEF StageMap
<1>3. ASSUME Others, Stage(c)' = Stage(c) PROVE [Gate!Next]_<<StageMap, Granted>>
  <2>1. StageMap' = [StageMap EXCEPT ![c] = Stage(c)]
    BY <1>3, OneClientMoves
  <2>2. StageMap' = StageMap
    BY <2>1, <1>2 DEF StageMap
  <2>3. QED
    BY <2>2, <1>1
<1>4. ASSUME Others, Stage(c)' = "Closing", Stage(c) # "Absent"
      PROVE  [Gate!Next]_<<StageMap, Granted>>
  <2>1. StageMap' = [StageMap EXCEPT ![c] = "Closing"]
    BY <1>4, OneClientMoves
  <2>2. Gate!Close(c)
    BY <2>1, <1>1, <1>2, <1>4 DEF Gate!Close, Gate!Advance, StageMap, Granted
  <2>3. QED
    BY <2>2 DEF Gate!Next
<1>5. CASE AcceptConnection(c)
  <2>0. /\ conn[c] = "Absent" /\ conn'[c] = "Open" /\ protocolState'[c] = "Protocol" /\ Others
    BY <1>5 DEF AcceptConnection
  <2>1. Others /\ Stage(c) = "Absent" /\ Stage(c)' = "Connected"
    BY <2>0 DEF Stage
  <2>2. StageMap' = [StageMap EXCEPT ![c] = "Connected"]
    BY <2>1, OneClientMoves
  <2>3. Gate!Connect(c)
    BY <2>1, <2>2, <1>1, <1>2 DEF Gate!Connect, Gate!Advance, StageMap, Granted
  <2>4. QED
    BY <2>3 DEF Gate!Next
<1>6. CASE ReadProtocol(c) \/ ReceiveSecurityTypeResponse(c) \/ ProcessFramebufferInit(c)
  <2>1. Others /\ Stage(c) # "Absent" /\ (Stage(c)' = Stage(c) \/ Stage(c)' = "Closing")
    BY <1>6 DEF ReadProtocol, ReceiveSecurityTypeResponse, ProcessFramebufferInit, Reading,
                Proceed, CloseSocket, Stage
  <2>2. QED
    BY <2>1, <1>3, <1>4
<1>7. CASE ReceiveAuthenticationTypeResponse(c)
  <2>1. Others /\ Stage(c) # "Absent" /\ (Stage(c)' = Stage(c) \/ Stage(c)' = "Closing")
    BY <1>7 DEF ReceiveAuthenticationTypeResponse, Reading, CloseSocket, Stage
  <2>2. QED
    BY <2>1, <1>3, <1>4
<1>8. CASE ReceiveAuthenticationMessage(c)
  <2>1. Others /\ Stage(c) = "Connected" /\ (Stage(c)' = "Authenticated" \/ Stage(c)' = "Closing")
    BY <1>8 DEF ReceiveAuthenticationMessage, Reading, Proceed, CloseSocket, Stage
  <2>2. ASSUME Stage(c)' = "Authenticated" PROVE [Gate!Next]_<<StageMap, Granted>>
    <3>1. StageMap' = [StageMap EXCEPT ![c] = "Authenticated"]
      BY <2>1, <2>2, OneClientMoves
    <3>2. Gate!Authenticate(c)
      BY <2>1, <3>1, <1>1, <1>2 DEF Gate!Authenticate, Gate!Advance, StageMap, Granted
    <3>3. QED
      BY <3>2 DEF Gate!Next
  <2>3. QED
    BY <2>1, <2>2, <1>4
<1>9. CASE Disconnect(c) \/ ReadClosing(c) \/ ReadClose(c) \/ CloseDelayElapsed(c)
  <2>1. Others /\ Stage(c) # "Absent" /\ Stage(c)' = "Closing"
    BY <1>9 DEF Disconnect, ReadClosing, ReadClose, CloseDelayElapsed, Reading, Proceed, CloseSocket, Stage
  <2>2. QED
    BY <2>1, <1>4
<1>10. CASE ProceedAfterDecision(c)
  <2>1. Others /\ UNCHANGED conn /\ protocolState[c] = "AccessControl" /\ conn[c] # "Absent"
    BY <1>10 DEF ProceedAfterDecision, AfterAccessControl
  <2>2. CASE conn[c] = "Dropped"
    BY <2>1, <2>2, <1>3 DEF Stage
  <2>3. CASE conn[c] = "Open" /\ accessControlState[c] = "Failed"
    <3>1. Stage(c) # "Absent" /\ Stage(c)' = "Closing"
      BY <1>10, <2>1, <2>3 DEF ProceedAfterDecision, AfterAccessControl, Stage
    <3>2. QED
      BY <2>1, <3>1, <1>4
  <2>4. CASE conn[c] = "Open" /\ accessControlState[c] = "Successful"
    <3>1. Stage(c) = "Authenticated" /\ Stage(c)' = "Admitted"
      BY <1>10, <2>1, <2>4 DEF ProceedAfterDecision, AfterAccessControl, Stage
    <3>2. StageMap' = [StageMap EXCEPT ![c] = "Admitted"]
      BY <2>1, <3>1, OneClientMoves
    <3>3. Gate!Admit(c)
      BY <2>4, <3>1, <3>2, <1>1, <1>2 DEF Gate!Admit, Gate!Advance, StageMap, Granted
    <3>4. QED
      BY <3>3 DEF Gate!Next
  <2>5. QED
    BY <2>1, <2>2, <2>3, <2>4, <1>10 DEF ProceedAfterDecision
<1>11. QED
  BY <1>5, <1>6, <1>7, <1>8, <1>9, <1>10

LEMMA CheckClientImplements ==
    ASSUME IInv, SInv, NEW c \in Clients, CheckClient(c)
    PROVE  [Gate!Next]_<<StageMap, Granted>>
<1> USE DEF IInv, TypeOK
<1>0. accessControlState' \in [Clients -> AccessControlStates]
  BY CheckClientKeepsIInv
<1>1. PICK s \in AccessControlStates :
        /\ accessControlState' = [accessControlState EXCEPT ![c] = s]
        /\ AfterAccessControl(c, s)
        /\ UNCHANGED conn /\ conn[c] # "Absent"
        /\ protocolState[c] = "AccessControl" /\ accessControlState[c] \in {"Init", "Waiting"}
  <2>1. PICK verdict : /\ accessControlState' = [accessControlState EXCEPT ![c] = Outcome(c, verdict, IsBusy)]
                       /\ AfterAccessControl(c, Outcome(c, verdict, IsBusy))
    BY DEF CheckClient
  <2>2. Outcome(c, verdict, IsBusy) \in AccessControlStates
    BY <1>0, <2>1
  <2>3. QED
    BY <2>1, <2>2 DEF CheckClient, NeedsCheck, AfterAccessControl
<1>2. protocolState' = [protocolState EXCEPT ![c] = CASE s = "Successful" -> "FramebufferInit"
                                                     [] s = "Failed"     -> "Closing"
                                                     [] OTHER            -> "AccessControl"]
  BY <1>1 DEF AfterAccessControl
<1>3. \A d \in Clients : d # c => conn'[d] = conn[d] /\ protocolState'[d] = protocolState[d]
  BY <1>1, <1>2
<1>4. Granted' = IF s = "Successful" THEN Granted \cup {c} ELSE Granted
  BY <1>1 DEF Granted
<1>5. StageMap[c] = Stage(c)
  BY DEF StageMap
<1>6. Stage(c) \in {"Authenticated", "Closing"}
  BY <1>1 DEF Stage
<1>7. ASSUME Stage(c)' = Stage(c) PROVE [Gate!Next]_<<StageMap, Granted>>
  <2>1. StageMap' = [StageMap EXCEPT ![c] = Stage(c)]
    BY <1>3, <1>7, OneClientMoves
  <2>2. StageMap' = StageMap
    BY <2>1, <1>5 DEF StageMap
  <2>3. CASE s = "Successful"
    <3>1. Gate!Grant({c})
      BY <2>2, <2>3, <1>4, <1>5, <1>6 DEF Gate!Grant, StageMap, Granted
    <3>2. QED
      BY <3>1 DEF Gate!Next
  <2>4. CASE s # "Successful"
    BY <2>2, <2>4, <1>4
  <2>5. QED
    BY <2>3, <2>4
<1>8. CASE conn[c] = "Dropped" \/ s \notin {"Successful", "Failed"}
  <2>1. Stage(c)' = Stage(c)
    BY <1>1, <1>2, <1>8 DEF Stage
  <2>2. QED
    BY <2>1, <1>7
<1>9. CASE conn[c] = "Open" /\ s = "Successful"
  <2>1. Stage(c) = "Authenticated" /\ Stage(c)' = "Admitted"
    BY <1>1, <1>2, <1>9 DEF Stage
  <2>2. StageMap' = [StageMap EXCEPT ![c] = "Admitted"]
    BY <1>3, <2>1, OneClientMoves
  <2>3. Gate!Admit(c)
    BY <2>1, <2>2, <1>4, <1>5, <1>9 DEF Gate!Admit, Gate!Advance, StageMap, Granted
  <2>4. QED
    BY <2>3 DEF Gate!Next
<1>10. CASE conn[c] = "Open" /\ s = "Failed"
  <2>1. Stage(c) = "Authenticated" /\ Stage(c)' = "Closing"
    BY <1>1, <1>2, <1>10 DEF Stage
  <2>2. StageMap' = [StageMap EXCEPT ![c] = "Closing"]
    BY <1>3, <2>1, OneClientMoves
  <2>3. Gate!Close(c)
    BY <2>1, <2>2, <1>4, <1>5, <1>10 DEF Gate!Close, Gate!Advance, StageMap, Granted
  <2>4. QED
    BY <2>3 DEF Gate!Next
<1>11. QED
  BY <1>1, <1>8, <1>9, <1>10

\* Everybody an answer of the dialog reaches has authenticated.
LEMMA FinishedImplements ==
    ASSUME IInv, SInv, NEW choice \in Choice, Finished(choice)
    PROVE  [Gate!Next]_<<StageMap, Granted>>
<1>1. StageMap' = StageMap
  BY DEF Finished, gateVars, StageMap, Stage
<1>2. Granted' = IF choice \in {"Yes", "Always"} THEN Granted \cup listeners ELSE Granted
  BY DEF Finished, Granted, IInv, TypeOK, PendingWillBeAnswered
<1>3. \A d \in listeners : d \in Clients /\ StageMap[d] \notin {"Absent", "Connected"}
  <2> SUFFICES ASSUME NEW d \in listeners PROVE d \in Clients /\ StageMap[d] \notin {"Absent", "Connected"}
    OBVIOUS
  <2>1. d \in Clients /\ accessControlState[d] = "Pending"
    BY DEF IInv, PendingWillBeAnswered
  <2>2. /\ conn[d] \in {"Open", "Dropped"}
        /\ protocolState[d] \in {"AccessControl", "FramebufferInit", "Running", "Close", "Closing"}
    BY <2>1 DEF IInv, SInv, TypeOK, ListIsTheGranted, Handshaken
  <2>3. Stage(d) \notin {"Absent", "Connected"}
    BY <2>2 DEF Stage
  <2>4. QED
    BY <2>1, <2>3 DEF StageMap
<1>4. CASE choice \in {"Yes", "Always"}
  <2>1. PICK S \in SUBSET Clients : S = listeners
    BY <1>3
  <2>2. Gate!Grant(S)
    BY <1>1, <1>2, <1>3, <1>4, <2>1 DEF Gate!Grant, StageMap, Granted
  <2>3. QED
    BY <2>2 DEF Gate!Next
<1>5. CASE choice \notin {"Yes", "Always"}
  BY <1>1, <1>2, <1>5
<1>6. QED
  BY <1>4, <1>5

LEMMA DeleteConnectionImplements ==
    ASSUME IInv, SInv, NEW c \in Clients, DeleteConnection(c)
    PROVE  [Gate!Next]_<<StageMap, Granted>>
<1> USE DEF IInv
<1>1. PICK verdict \in [Remaining(c) -> Verdict] :
        /\ accessControlState' =
             [d \in Clients |-> IF d = c THEN "Init"
                                ELSE IF d \in Remaining(c) THEN RecheckOutcome(c, verdict, d)
                                ELSE accessControlState[d]]
        /\ protocolState' =
             [d \in Clients |-> IF d = c THEN "Disconnected"
                                ELSE IF d \in Remaining(c) /\ ~Stays(RecheckOutcome(c, verdict, d))
                                THEN "Close" ELSE protocolState[d]]
  BY DEF DeleteConnection
<1> DEFINE S == {d \in Remaining(c) : ~Stays(RecheckOutcome(c, verdict, d))}
<1>2. Remaining(c) = Granted \ {c}
  BY DEF Remaining, ListIsTheGranted, Granted
<1>3. conn[c] = "Dropped" /\ conn' = [conn EXCEPT ![c] = "Absent"]
  BY DEF DeleteConnection
<1>4. Granted' \subseteq Granted \ {c} /\ S \subseteq Granted \ Granted'
  BY <1>1, <1>2 DEF Granted, Stays
<1>5. \A d \in S : conn[d] \in {"Open", "Dropped"} /\ d \in Clients
  BY <1>2 DEF Granted, ListIsTheGranted, TypeOK
<1>6. \A d \in Clients : StageMap'[d] = IF d = c THEN "Absent" ELSE IF d \in S THEN "Closing" ELSE Stage(d)
  <2> SUFFICES ASSUME NEW d \in Clients
               PROVE  Stage(d)' = IF d = c THEN "Absent" ELSE IF d \in S THEN "Closing" ELSE Stage(d)
    BY DEF StageMap
  <2>1. CASE d = c
    BY <2>1, <1>3 DEF Stage, TypeOK
  <2>2. CASE d # c /\ d \in S
    <3>1. protocolState'[d] = "Close" /\ conn'[d] \in {"Open", "Dropped"}
      BY <2>2, <1>1, <1>3, <1>5 DEF TypeOK
    <3>2. QED
      BY <2>2, <3>1 DEF Stage
  <2>3. CASE d # c /\ d \notin S
    <3>1. protocolState'[d] = protocolState[d] /\ conn'[d] = conn[d]
      BY <2>3, <1>1, <1>3 DEF TypeOK
    <3>2. QED
      BY <2>3, <3>1 DEF Stage
  <2>4. QED
    BY <2>1, <2>2, <2>3
<1>7. StageMap[c] = "Closing"
  BY <1>3 DEF StageMap, Stage
<1>8. StageMap' = [d \in Clients |-> IF d = c THEN "Absent" ELSE IF d \in S THEN "Closing" ELSE StageMap[d]]
  BY <1>6 DEF StageMap
<1>9. PICK T \in SUBSET Clients : T = S
  BY <1>5
<1> HIDE DEF S
<1>10. Gate!Forget(c, T)
  BY <1>4, <1>7, <1>8, <1>9 DEF Gate!Forget, StageMap, Granted
<1>11. QED
  BY <1>10 DEF Gate!Next

LEMMA StepImplements == IInv /\ SInv /\ [Next]_vars => [Gate!Next]_<<StageMap, Granted>>
<1> SUFFICES ASSUME IInv, SInv, [Next]_vars PROVE [Gate!Next]_<<StageMap, Granted>>
  OBVIOUS
<1>1. CASE UNCHANGED vars
  BY <1>1 DEF vars, gateVars, accessVars, StageMap, Stage, Granted
<1>2. CASE DialogStep
  <2>1. CASE LoseWorker
    BY <2>1 DEF LoseWorker, gateVars, accessVars, StageMap, Stage, Granted
  <2>2. QED
    BY <1>2, <2>1, FinishedImplements DEF DialogStep, ReportDesktopAccessChoice, AbortDialog, Choice
<1>3. ASSUME NEW c \in Clients, ClientStep(c) PROVE [Gate!Next]_<<StageMap, Granted>>
  <2>1. CASE CheckClient(c)
    BY <2>1, CheckClientImplements
  <2>2. CASE DeleteConnection(c)
    BY <2>2, DeleteConnectionImplements
  <2>3. CASE ~CheckClient(c) /\ ~DeleteConnection(c)
    <3>1. UNCHANGED accessVars
      BY <1>3, <2>3 DEF ClientStep, AcceptConnection, ReadProtocol, ReceiveSecurityTypeResponse,
            ReceiveAuthenticationTypeResponse, ReceiveAuthenticationMessage, ProceedAfterDecision,
            ProcessFramebufferInit, Disconnect, ReadClosing, ReadClose, CloseDelayElapsed
    <3>2. QED
      BY <1>3, <2>3, <3>1, HandshakeImplements DEF ClientStep
  <2>4. QED
    BY <2>1, <2>2, <2>3
<1>4. QED
  BY <1>1, <1>2, <1>3 DEF Next

\* Every behaviour of the server's handlers is one the abstract gate allows.
THEOREM GateImplemented == Spec => ImplementsGate
<1>1. Init => Gate!Init
  BY DEF Init, Gate!Init, Stage
<1>2. IInv /\ SInv /\ [Next]_vars => [Gate!Next]_<<[c \in Clients |-> Stage(c)],
                                     {c \in Clients : accessControlState[c] = "Successful"}>>
  BY StepImplements DEF StageMap, Granted
<1>3. Init => IInv /\ SInv
  BY InitIInv, InitSInv
<1>4. IInv /\ SInv /\ [Next]_vars => (IInv /\ SInv)'
  BY NextIInv, NextSInv
<1>5. QED
  BY <1>1, <1>2, <1>3, <1>4, PTL DEF Spec, Gate!Spec, ImplementsGate
-----------------------------------------------------------------------------
(* First rule: RuledServerAccess                                           *)

\* The configuration: rules are enabled, and the first of them denies access to a
\* computer that is being accessed.  What the others say of a user and a host, when
\* nobody is connected, does not depend on who uses the computer meanwhile.
DeniesSecondAccess ==
    LET rules == Configuration.rules
    IN  /\ ~Configuration.restrictedToGroups /\ Configuration.rulesEnabled
        /\ DOMAIN rules = 1..Len(rules) /\ Len(rules) \in Nat \ {0}
        /\ rules[1].action = "Deny" /\ ~rules[1].inverted /\ ~rules[1].ignored
        /\ DOMAIN rules[1].conditions = {"ComputerAlreadyBeingAccessed"}
        /\ \A u \in Users, h \in Hosts :
             \A v, w \in RuleVerdicts[<<u, h, {}>>] : v = w

\* The setting: these rules decide, nobody passes them by with a token, and worker
\* processes do not die with a question unanswered.
RuledSetting ==
    /\ Verdicts = RuleVerdicts /\ DeniesSecondAccess
    /\ "Token" \notin AuthTypes /\ ~WorkerMayDie

-----------------------------------------------------------------------------
(* What the rules say                                                      *)

\* Whoever asks while somebody is connected is denied access.
LEMMA SecondIsDenied ==
    ASSUME RuledSetting, NEW u \in Users, NEW h \in Hosts, NEW S \in SUBSET Users, S # {}
    PROVE  \A v \in Verdicts[<<u, h, S>>] : v = "Deny"
<1> DEFINE rules == Configuration.rules
<1>1. ASSUME NEW state \in LoggedOn
      PROVE  Rules!CheckAccess(Configuration, Rules!Query(u, h, S, state)) = "Deny"
  <2> DEFINE q == Rules!Query(u, h, S, state)
             first == Rules!ProcessAccessControlRules(rules, q)
  <2>1. q.connectedUsers = S
    BY DEF Rules!Query
  <2> HIDE DEF q
  <2>2. Rules!Applies(rules[1], q)
    <3>1. Rules!MatchConditions(rules[1], q)
      BY <2>1 DEF RuledSetting, DeniesSecondAccess, Rules!MatchConditions, Rules!Answerable, Rules!Holds
    <3>2. QED
      BY <3>1 DEF RuledSetting, DeniesSecondAccess, Rules!Applies
  <2>3. 1 \in DOMAIN rules /\ \A i \in DOMAIN rules : i \in Nat /\ 1 <= i
    BY DEF RuledSetting, DeniesSecondAccess
  <2>4. first = {1}
    BY <2>2, <2>3 DEF Rules!ProcessAccessControlRules
  <2> HIDE DEF first
  <2>5. (CHOOSE i \in first : TRUE) = 1
    BY <2>4
  <2>6. Rules!Decision(rules[1].action) = "Deny"
    BY DEF RuledSetting, DeniesSecondAccess, Rules!Decision
  <2>7. QED
    BY <2>4, <2>5, <2>6 DEF RuledSetting, DeniesSecondAccess, Rules!CheckAccess, first, q
<1>2. <<u, h, S>> \in Users \X Hosts \X SUBSET Users
  OBVIOUS
<1>3. RuleVerdicts[<<u, h, S>>] =
        {Rules!CheckAccess(Configuration, Rules!Query(u, h, S, state)) : state \in LoggedOn}
  BY <1>2 DEF RuleVerdicts
<1>4. QED
  BY <1>1, <1>3 DEF RuledSetting

-----------------------------------------------------------------------------
(* The invariant, a layer above IInv and SInv                              *)

\* The clients the user is asked about are of users and hosts the rules send to the
\* dialog when nobody is connected.
UndecidedByRules ==
    \A d \in listeners : "ToBeConfirmed" \in Verdicts[<<username[d], HostOf[d], {}>>]

XInv == ExclusiveGrant /\ UndecidedByRules

LEMMA InitXInv == Init => XInv
BY DEF Init, XInv, ExclusiveGrant, UndecidedByRules, Together, Range

\* Who has neither access nor a question loses or gains nothing.
LEMMA FewerTogether ==
    ASSUME ExclusiveGrant, Together' \subseteq Together, \A d \in Together' : Key(d)' = Key(d)
    PROVE  ExclusiveGrant'
BY DEF ExclusiveGrant

\* The handlers that leave access control alone change the name of no client that
\* has access or is asked about.
LEMMA SameTogetherKeepsXInv ==
    ASSUME IInv, XInv, UNCHANGED <<m_clients, listeners>>,
           \A d \in Together : username'[d] = username[d]
    PROVE  XInv'
<1>1. Together' = Together
  BY DEF Together
<1>2. ExclusiveGrant'
  BY <1>1, FewerTogether DEF XInv, Key
<1>3. UndecidedByRules'
  BY DEF XInv, UndecidedByRules, Together
<1>4. QED
  BY <1>2, <1>3 DEF XInv

\* A client with a verdict other than Deny comes when nobody has access.
LEMMA NotDeniedAlone ==
    ASSUME RuledSetting, IInv, NEW c \in Clients, NEW S \in SUBSET Clients,
           NEW verdict \in Verdicts[<<username[c], HostOf[c], ConnectedUsers(S)>>],
           verdict # "Deny"
    PROVE  S = {} /\ verdict \in Verdicts[<<username[c], HostOf[c], {}>>]
<1>1. username \in [Clients -> Users]
  BY DEF IInv, TypeOK
<1>2. ConnectedUsers(S) \in SUBSET Users
  BY <1>1 DEF ConnectedUsers
<1>3. username[c] \in Users /\ HostOf[c] \in Hosts
  BY <1>1, ServerAccessAssumption
<1>4. ConnectedUsers(S) = {}
  BY <1>2, <1>3, SecondIsDenied
<1>5. QED
  BY <1>4 DEF ConnectedUsers

LEMMA CheckClientKeepsXInv ==
    ASSUME RuledSetting, IInv, SInv, XInv, NEW c \in Clients, CheckClient(c)
    PROVE  XInv'
<1>1. PICK verdict \in Verdicts[<<username[c], HostOf[c], ConnectedUsers(Range(m_clients))>>] :
        LET s == Outcome(c, verdict, IsBusy)
        IN  /\ m_clients' = IF s = "Successful" THEN Append(m_clients, c) ELSE m_clients
            /\ IF s = "Pending" THEN AskAbout(c) ELSE UNCHANGED <<listeners, dialogVars>>
            /\ AfterAccessControl(c, s)
  BY DEF CheckClient
<1> DEFINE s == Outcome(c, verdict, IsBusy)
<1>2. /\ m_clients \in Seq(Clients) /\ Range(m_clients) \in SUBSET Clients
      /\ username \in [Clients -> Users] /\ listeners \subseteq Clients
  BY DEF IInv, TypeOK, Range
<1>3. Key(c) \in Keys /\ choices[Key(c)] \in {"None", "Always", "Never"}
  BY ServerAccessAssumption DEF Key, Keys, IInv, TypeOK
<1>4. verdict \in Verdict
  <2>1. ConnectedUsers(Range(m_clients)) \in SUBSET Users
    BY <1>2 DEF ConnectedUsers
  <2>2. <<username[c], HostOf[c], ConnectedUsers(Range(m_clients))>> \in Users \X Hosts \X SUBSET Users
    BY <1>2, <2>1, ServerAccessAssumption
  <2>3. QED
    BY <2>2, ServerAccessAssumption
<1>5. authType[c] # "Token"
  BY DEF CheckClient, SInv, Handshaken, RuledSetting
<1>6. c \notin Range(m_clients) /\ IsInjective(m_clients)
  BY DEF CheckClient, NeedsCheck, IInv, ListIsTheGranted
<1>7. Range(Append(m_clients, c)) = Range(m_clients) \cup {c}
  BY <1>2, <1>6, AppendToList
<1>8. IsBusy \in BOOLEAN
  BY DEF IsBusy
<1>9. /\ s \in {"Successful", "Pending"} => verdict # "Deny"
      /\ s = "Pending" => verdict = "ToBeConfirmed" /\ ~IsBusy
      /\ s = "Successful" => verdict = "Allow" \/ choices[Key(c)] = "Always"
  BY <1>3, <1>4, <1>5, <1>8 DEF Outcome, Verdict
<1> HIDE DEF s
<1>10. /\ m_clients' = IF s = "Successful" THEN Append(m_clients, c) ELSE m_clients
       /\ IF s = "Pending" THEN AskAbout(c) ELSE UNCHANGED <<listeners, dialogVars>>
       /\ UNCHANGED username
  BY <1>1 DEF s, AfterAccessControl
<1>11. \A d \in Clients : Key(d)' = Key(d)
  BY <1>10 DEF Key
<1>12. s \in {"Successful", "Pending"} =>
         Range(m_clients) = {} /\ verdict \in Verdicts[<<username[c], HostOf[c], {}>>]
  BY <1>2, <1>9, NotDeniedAlone
<1>13. CASE s = "Pending"
  <2>1. listeners = {}
    BY <1>9, <1>13 DEF SInv, Questions, RuledSetting
  <2>2. listeners' = {c} /\ m_clients' = m_clients
    BY <1>10, <1>13, <2>1 DEF AskAbout
  <2>3. Together' = {c}
    BY <1>12, <1>13, <2>2 DEF Together
  <2>4. ExclusiveGrant'
    BY <2>3 DEF ExclusiveGrant
  <2>5. UndecidedByRules'
    BY <1>9, <1>10, <1>12, <1>13, <2>2 DEF UndecidedByRules
  <2>6. QED
    BY <2>4, <2>5 DEF XInv
<1>14. CASE s = "Successful"
  <2>1. listeners' = listeners /\ m_clients' = Append(m_clients, c)
    BY <1>10, <1>14 DEF dialogVars
  <2>2. Together' = {c} \cup listeners
    BY <1>7, <1>12, <1>14, <2>1 DEF Together
  <2>3. \A d, e \in listeners : d = e
    BY DEF SInv, Questions, RuledSetting
  <2>4. \A d \in listeners : Key(d) # Key(c)
    <3> SUFFICES ASSUME NEW d \in listeners, Key(d) = Key(c) PROVE FALSE
      OBVIOUS
    <3>1. username[d] = username[c] /\ HostOf[d] = HostOf[c] /\ choices[Key(c)] = "None"
      BY DEF Key, SInv, Questions
    <3>2. "ToBeConfirmed" \in Verdicts[<<username[c], HostOf[c], {}>>]
      BY <3>1 DEF XInv, UndecidedByRules
    <3>3. verdict = "Allow"
      BY <1>9, <1>14, <3>1
    <3>4. username[c] \in Users /\ HostOf[c] \in Hosts
      BY <1>2, ServerAccessAssumption
    <3>5. QED
      BY <1>12, <1>14, <3>2, <3>3, <3>4 DEF RuledSetting, DeniesSecondAccess
  <2>5. ExclusiveGrant'
    <3>1. /\ \A b, d, e \in {c} \cup listeners : b = d \/ d = e \/ b = e
          /\ \A d, e \in {c} \cup listeners : Key(d) = Key(e) => d = e
      BY <2>3, <2>4
    <3>2. QED
      BY <1>2, <1>11, <2>2, <3>1 DEF ExclusiveGrant
  <2>6. UndecidedByRules'
    BY <1>10, <2>1 DEF XInv, UndecidedByRules
  <2>7. QED
    BY <2>5, <2>6 DEF XInv
<1>15. CASE s \notin {"Successful", "Pending"}
  <2>1. UNCHANGED <<m_clients, listeners>>
    BY <1>10, <1>15 DEF dialogVars
  <2>2. QED
    BY <1>10, <2>1, SameTogetherKeepsXInv
<1>16. QED
  BY <1>13, <1>14, <1>15

\* Those who are asked about move to the list or go.
LEMMA FinishedKeepsXInv ==
    ASSUME IInv, XInv, NEW choice \in Choice, Finished(choice)
    PROVE  XInv'
<1>1. listeners' = {} /\ UNCHANGED username
  BY DEF Finished, gateVars
<1>2. Range(m_clients') \subseteq Range(m_clients) \cup listeners
  <2>1. CASE m_clients' = m_clients
    BY <2>1
  <2>2. ASSUME NEW order \in Orderings(listeners), m_clients' = m_clients \o order
        PROVE  Range(m_clients') \subseteq Range(m_clients) \cup listeners
    <3>1. order \in Seq(Clients) /\ Range(order) = listeners /\ IsInjective(order)
      BY OrderingsAreLists DEF IInv, TypeOK
    <3>2. m_clients \in Seq(Clients) /\ IsInjective(m_clients)
      BY DEF IInv, TypeOK, ListIsTheGranted
    <3>3. Range(m_clients) \cap Range(order) = {}
      BY <3>1 DEF IInv, ListIsTheGranted, PendingWillBeAnswered
    <3>4. QED
      BY <2>2, <3>1, <3>2, <3>3, ConcatLists
  <2>3. QED
    BY <2>1, <2>2 DEF Finished
<1>3. Together' \subseteq Together
  BY <1>1, <1>2 DEF Together
<1>4. ExclusiveGrant'
  BY <1>1, <1>3, FewerTogether DEF XInv, Key
<1>5. UndecidedByRules'
  BY <1>1 DEF UndecidedByRules
<1>6. QED
  BY <1>4, <1>5 DEF XInv

LEMMA DeleteConnectionKeepsXInv ==
    ASSUME RuledSetting, IInv, SInv, XInv, NEW c \in Clients, DeleteConnection(c)
    PROVE  XInv'
<1>1. PICK verdict \in [Remaining(c) -> Verdict] :
        LET state(d) == RecheckOutcome(c, verdict, d)
            kept     == {d \in Remaining(c) : state(d) = "Successful"}
            asked    == {d \in Remaining(c) : state(d) = "Pending"}
        IN  /\ \A d \in Remaining(c) :
                 verdict[d] \in Verdicts[<<username[d], HostOf[d],
                                           ConnectedUsers({e \in kept : Before(m_clients, e, d)})>>]
            /\ m_clients' \in Keep(m_clients, kept)
            /\ listeners' = (listeners \ {c}) \cup asked
  BY DEF DeleteConnection
<1> DEFINE kept  == {d \in Remaining(c) : RecheckOutcome(c, verdict, d) = "Successful"}
           asked == {d \in Remaining(c) : RecheckOutcome(c, verdict, d) = "Pending"}
           before(d) == {e \in kept : Before(m_clients, e, d)}
<1>2. /\ Remaining(c) \subseteq Clients /\ c \notin Remaining(c)
      /\ Remaining(c) \subseteq Range(m_clients) /\ c \notin listeners \ {c}
  BY DEF Remaining, IInv, ListIsTheGranted
<1>3. /\ \A d \in Remaining(c) :
           verdict[d] \in Verdicts[<<username[d], HostOf[d], ConnectedUsers(before(d))>>]
      /\ m_clients' \in Keep(m_clients, kept)
      /\ listeners' = (listeners \ {c}) \cup asked
  BY <1>1
<1>4. \A d \in Clients : d # c => username'[d] = username[d]
  BY DEF DeleteConnection, IInv, TypeOK
<1>5. Range(m_clients') = kept
  <2>1. kept \in SUBSET Clients
    BY <1>2
  <2>2. m_clients' \in Orderings(kept)
    BY <1>3 DEF Keep
  <2> HIDE DEF kept
  <2>3. QED
    BY <2>1, <2>2, OrderingsAreLists
<1>6. /\ Together' \subseteq Together /\ c \notin Together' /\ Together' \subseteq Clients
  <2>1. Together' = kept \cup (listeners \ {c}) \cup asked
    BY <1>3, <1>5 DEF Together
  <2>2. listeners \subseteq Clients
    BY DEF IInv, TypeOK
  <2>3. QED
    BY <1>2, <2>1, <2>2 DEF Together
<1>7. ExclusiveGrant'
  BY <1>4, <1>6, FewerTogether DEF XInv, Key
<1>8. UndecidedByRules'
  <2> SUFFICES ASSUME NEW d \in listeners'
               PROVE  "ToBeConfirmed" \in Verdicts[<<username'[d], HostOf[d], {}>>]
    BY DEF UndecidedByRules
  <2>1. d \in Clients /\ username'[d] = username[d]
    BY <1>4, <1>6 DEF Together
  <2>2. CASE d \in listeners
    BY <2>1, <2>2 DEF XInv, UndecidedByRules
  <2>3. CASE d \in asked
    <3>1. verdict[d] \in Verdict /\ d \in Remaining(c)
      BY <2>3
    <3>2. verdict[d] = "ToBeConfirmed"
      BY <2>3, <3>1 DEF RecheckOutcome, Outcome, Verdict
    <3>3. before(d) \in SUBSET Clients
      BY <1>2
    <3>4. verdict[d] \in Verdicts[<<username[d], HostOf[d], ConnectedUsers(before(d))>>]
      BY <1>3, <3>1
    <3> HIDE DEF before
    <3>5. QED
      BY <2>1, <3>2, <3>3, <3>4, NotDeniedAlone
  <2>4. QED
    BY <1>3, <2>2, <2>3
<1>9. QED
  BY <1>7, <1>8 DEF XInv

LEMMA NextXInv == RuledSetting /\ IInv /\ SInv /\ XInv /\ [Next]_vars => XInv'
<1> SUFFICES ASSUME RuledSetting, IInv, SInv, XInv, [Next]_vars PROVE XInv'
  OBVIOUS
<1>1. CASE UNCHANGED vars
  BY <1>1, SameTogetherKeepsXInv DEF vars, gateVars, accessVars
<1>2. CASE DialogStep
  <2>1. CASE ReportDesktopAccessChoice
    BY <2>1, FinishedKeepsXInv DEF ReportDesktopAccessChoice
  <2>2. CASE AbortDialog
    BY <2>2, FinishedKeepsXInv DEF AbortDialog, Choice
  <2>3. CASE LoseWorker
    BY <2>3 DEF LoseWorker, RuledSetting
  <2>4. QED
    BY <1>2, <2>1, <2>2, <2>3 DEF DialogStep
<1>3. ASSUME NEW c \in Clients, ClientStep(c) PROVE XInv'
  <2>1. CASE CheckClient(c)
    BY <2>1, CheckClientKeepsXInv
  <2>2. CASE DeleteConnection(c)
    BY <2>2, DeleteConnectionKeepsXInv
  <2>3. CASE ReceiveAuthenticationTypeResponse(c)
    <3>1. accessControlState[c] = "Init"
      BY <2>3 DEF ReceiveAuthenticationTypeResponse, Reading, SInv, Handshaken
    <3>2. c \notin Together
      BY <3>1 DEF Together, IInv, ListIsTheGranted, PendingWillBeAnswered
    <3>3. Together \subseteq Clients
      BY DEF Together, IInv, ListIsTheGranted, TypeOK
    <3>4. \A d \in Together : username'[d] = username[d]
      BY <2>3, <3>2, <3>3 DEF ReceiveAuthenticationTypeResponse, IInv, TypeOK
    <3>5. UNCHANGED <<m_clients, listeners>>
      BY <2>3 DEF ReceiveAuthenticationTypeResponse, accessVars
    <3>6. QED
      BY <3>4, <3>5, SameTogetherKeepsXInv
  <2>4. CASE UNCHANGED <<username, accessVars>>
    BY <2>4, SameTogetherKeepsXInv DEF accessVars
  <2>5. QED
    BY <1>3, <2>1, <2>2, <2>3, <2>4
       DEF ClientStep, AcceptConnection, ReadProtocol, ReceiveSecurityTypeResponse,
           ReceiveAuthenticationMessage, ProceedAfterDecision, AfterAccessControl,
           ProcessFramebufferInit, Disconnect, ReadClosing, ReadClose, CloseDelayElapsed
<1>4. QED
  BY <1>1, <1>2, <1>3 DEF Next

\* With a first rule against a second access there are never three clients that have
\* access or are asked about, and never two of the same user and host.
THEOREM ExclusiveCorrect == RuledSetting => (Spec => []ExclusiveGrant)
<1> SUFFICES ASSUME RuledSetting PROVE Spec => []ExclusiveGrant
  OBVIOUS
<1>1. Init => IInv /\ SInv /\ XInv
  BY InitIInv, InitSInv, InitXInv
<1>2. IInv /\ SInv /\ XInv /\ [Next]_vars => (IInv /\ SInv /\ XInv)'
  BY NextIInv, NextSInv, NextXInv
<1>3. XInv => ExclusiveGrant
  BY DEF XInv
<1>4. QED
  BY <1>1, <1>2, <1>3, PTL DEF Spec
=============================================================================
