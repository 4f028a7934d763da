----------------------- MODULE MCRuledServerAccess -----------------------
(* Instances of RuledServerAccess for TLC. *)
EXTENDS RuledServerAccess, TLC

CONSTANTS c1, c2, c3, u1, u2, h1, h2

HostOfAll == [c \in Clients |-> h1]
NoGroups == [u \in Users \cup {Nobody} |-> {}]
NoLocations == [c \in Hosts \cup {ThisComputer} |-> {}]
AnybodyLoggedOn == {[localUser |-> Nobody, anyUserLoggedOn |-> b] : b \in BOOLEAN}

DenyIfAccessed ==
    [action |-> "Deny", inverted |-> FALSE, ignored |-> FALSE,
     conditions |-> "ComputerAlreadyBeingAccessed" :> [subject |-> "None", names |-> {}]]
CatchAll(action) ==
    [action |-> action, inverted |-> FALSE, ignored |-> TRUE, conditions |-> <<>>]
OneAtATime(action) ==
    [restrictedToGroups |-> FALSE, authorizedGroups |-> {}, rulesEnabled |-> TRUE,
     localConnectOnly |-> FALSE, rules |-> <<DenyIfAccessed, CatchAll(action)>>]
OneAtATimeAllowed == OneAtATime("Allow")
OneAtATimeAsked   == OneAtATime("AskForPermission")

ClientSymmetry == Permutations(Clients)
=============================================================================
