--------------------------- MODULE MCServerAccess ---------------------------
(* Instances of ServerAccess for TLC. *)
EXTENDS ServerAccess, TLC

CONSTANTS c1, c2, c3, u1, u2, h1, h2

\* Everybody comes from the same host.
OneHost == [c \in Clients |-> h1]

\* The last client comes from a host of its own.
TwoHosts == [c \in Clients |-> IF c = c2 THEN h2 ELSE h1]

\* Rules whose conditions change all the time: any verdict, at every check.
AnyVerdict == [k \in Users \X Hosts \X SUBSET Users |-> Verdict]

\* The user is asked about everybody.
AlwaysAsk == [k \in Users \X Hosts \X SUBSET Users |-> {"ToBeConfirmed"}]

\* A rule with the condition AccessFromAlreadyConnectedUser before a rule that
\* asks the user.
ConnectedUserOrAsk ==
    [k \in Users \X Hosts \X SUBSET Users |->
        IF k[1] \in k[3] THEN {"Allow"} ELSE {"ToBeConfirmed"}]

ClientSymmetry == Permutations(Clients)
=============================================================================
