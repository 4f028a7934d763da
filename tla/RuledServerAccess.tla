------------------------- MODULE RuledServerAccess -------------------------
(***************************************************************************)
(* ServerAccess with the verdicts AccessRules gives: the rules see who is  *)
(* connected through connectedUsers(), which the connections themselves,   *)
(* their re-checks and the answers of the user keep changing.              *)
(***************************************************************************)
EXTENDS ServerAccess

CONSTANTS Nobody, ThisComputer, Groups, Locations, LoggedOn, Configuration

Rules == INSTANCE AccessRules
             WITH Users <- Users \cup {Nobody}, Computers <- Hosts \cup {ThisComputer},
                  NoName <- Nobody, Here <- ThisComputer,
                  GroupsOf <- Groups, LocationsOf <- Locations,
                  ConnectedUserSets <- SUBSET Users, Configurations <- {Configuration}

\* checkAccess() as the access control manager calls it, in the local states
\* LoggedOn.
RuleVerdicts ==
    [k \in Users \X Hosts \X SUBSET Users |->
        {Rules!CheckAccess(Configuration, Rules!Query(k[1], k[2], k[3], state)) : state \in LoggedOn}]

\* The clients that have access or the user is being asked about.
Together == Range(m_clients) \cup listeners

\* A rule that denies access to a computer already being accessed, before any
\* other, keeps it to one client that was not asked about, even though the clients
\* are all taken off the list and checked again whenever a connection goes.  The
\* rules are not asked again when the user answers, though: a client may be let in
\* while the user still thinks about another one, who is never of the same user
\* and host, and both have access then.  There are never three.
ExclusiveGrant ==
    /\ \A b, c, d \in Together : b = c \/ c = d \/ b = d
    /\ \A c, d \in Together : Key(c) = Key(d) => c = d
=============================================================================
