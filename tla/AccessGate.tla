----------------------------- MODULE AccessGate -----------------------------
(***************************************************************************)
(* What the server promises about its connections, whatever protocol,      *)
(* rules and dialogs decide: a connection is served only after it has      *)
(* authenticated and in a state where access is granted to it, one         *)
(* connection advances at a time, and one that is being closed is never    *)
(* served again.  Decisions may be reviewed for any number of connections  *)
(* when one of them goes.                                                  *)
(***************************************************************************)
CONSTANT Clients

VARIABLES
    stage,    \* how far each connection has come
    granted   \* the connections access is granted to

Stages == {"Absent", "Connected", "Authenticated", "Admitted", "Closing"}

Init == stage = [c \in Clients |-> "Absent"] /\ granted = {}

Advance(c, from, to) ==
    /\ stage[c] = from
    /\ stage' = [stage EXCEPT ![c] = to]

Connect(c)      == Advance(c, "Absent", "Connected") /\ UNCHANGED granted
Authenticate(c) == Advance(c, "Connected", "Authenticated") /\ UNCHANGED granted

\* Access may be granted in the step that admits, never later.
Admit(c) ==
    /\ Advance(c, "Authenticated", "Admitted")
    /\ c \in granted'
    /\ granted' \subseteq granted \cup {c}

Close(c) == Advance(c, stage[c], "Closing") /\ stage[c] # "Absent" /\ UNCHANGED granted

\* The user answers for some authenticated connections.
Grant(S) ==
    /\ \A c \in S : stage[c] \notin {"Absent", "Connected"}
    /\ granted' = granted \cup S
    /\ UNCHANGED stage

\* One connection goes.  Access of the others may be withdrawn, never granted;
\* who loses it may be closed, who keeps it stays.
Forget(c, S) ==
    /\ stage[c] = "Closing"
    /\ granted' \subseteq granted \ {c}
    /\ S \subseteq granted \ granted'
    /\ stage' = [d \in Clients |-> IF d = c THEN "Absent"
                                   ELSE IF d \in S THEN "Closing"
                                   ELSE stage[d]]

Next ==
    \/ \E c \in Clients : Connect(c) \/ Authenticate(c) \/ Admit(c) \/ Close(c)
    \/ \E S \in SUBSET Clients : Grant(S)
    \/ \E c \in Clients, S \in SUBSET Clients : Forget(c, S)

Spec == Init /\ [][Next]_<<stage, granted>>
=============================================================================
