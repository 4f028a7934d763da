-------------------------- MODULE AccessDecisions --------------------------
(***************************************************************************)
(* A server that starts, listens on all addresses or on the local host     *)
(* only, and decides the requests that reach it by the rules of            *)
(* AccessRules, while users log on and off at the computer.  Which clients *)
(* have access at the time of a request is an input here; ServerAccess     *)
(* says how that set comes about.                                          *)
(***************************************************************************)
EXTENDS AccessRules

VARIABLES
    config,      \* the configuration in effect
    local,       \* who is logged on at this computer
    listening,   \* the addresses the server listens on: "None", "Any" or "LocalHost"
    lastCheck    \* the last request made in this state, and what was decided

vars == <<config, local, listening, lastCheck>>

-----------------------------------------------------------------------------
(* The server                                                              *)

NoCheck == [access |-> "None"]

Init ==
    /\ config \in Configurations
    /\ local \in LocalStates
    /\ listening = "None"
    /\ lastCheck = NoCheck

\* Somebody logs on or off, at this computer or in another session of it.
LogOnOrOff(state) ==
    /\ state # local
    /\ local' = state
    /\ lastCheck' = NoCheck
    /\ UNCHANGED <<config, listening>>

StartServer ==
    /\ listening = "None"
    /\ listening' = IF config.localConnectOnly \/ IsAccessToLocalComputerDenied(config, local)
                    THEN "LocalHost" ELSE "Any"
    /\ UNCHANGED <<config, local, lastCheck>>

StopServer ==
    /\ listening # "None"
    /\ listening' = "None"
    /\ lastCheck' = NoCheck
    /\ UNCHANGED <<config, local>>

\* A request that reaches the server, while users have access already.
Request(user, computer, users) ==
    /\ listening = "Any" \/ (listening = "LocalHost" /\ computer = Here)
    /\ LET q == Query(user, computer, users, local)
       IN  lastCheck' = [access |-> CheckAccess(config, q), query |-> q]
    /\ UNCHANGED <<config, local, listening>>

Next ==
    \/ \E state \in LocalStates : LogOnOrOff(state)
    \/ StartServer
    \/ StopServer
    \/ \E user \in Users, computer \in Computers, users \in ConnectedUserSets :
         Request(user, computer, users)

Spec == Init /\ [][Next]_vars

-----------------------------------------------------------------------------
(* Properties                                                              *)

ByRules == lastCheck # NoCheck /\ config.rulesEnabled /\ ~config.restrictedToGroups

\* Whoever is let in, or put to the user, by the rules owes it to a rule with
\* that action; no rule that denies and applies to the same request precedes it.
GrantIsJustified ==
    ByRules /\ lastCheck.access # "Deny" =>
        \E i \in DOMAIN config.rules :
            /\ config.rules[i].action = (IF lastCheck.access = "Allow" THEN "Allow" ELSE "AskForPermission")
            /\ Applies(config.rules[i], lastCheck.query)
            /\ \A j \in 1..i - 1 :
                 config.rules[j].action = "Deny" => ~Applies(config.rules[j], lastCheck.query)

\* Two users of the same groups, neither of whom is logged on here or has access
\* already, are treated alike.
SameGroupsSameDecision ==
    lastCheck # NoCheck =>
        \A u \in NamedUsers :
            LET q     == lastCheck.query
                apart == {q.localUser} \cup q.connectedUsers \cup {NoName}
            IN  GroupsOf[u] = GroupsOf[q.accessingUser] /\ {u, q.accessingUser} \cap apart = {} =>
                    CheckAccess(config, [q EXCEPT !.accessingUser = u]) = lastCheck.access

\* Is a rule about nothing but the local state, and evaluated?
IsLocalRule(rule) ==
    /\ ~rule.ignored
    /\ \A condition \in DOMAIN rule.conditions :
         \/ condition = "NoUserLoggedOn"
         \/ condition = "MemberOfUserGroup" /\ rule.conditions[condition].subject = "LocalUser"
         \/ condition = "LocatedAt" /\ rule.conditions[condition].subject = "LocalComputer"

\* If all rules are about the local state, a server listens on the local host
\* only when a rule would deny every request, and listens on all addresses
\* when that is not so.
LocalRulesDenyEverybody ==
    LET c == config
    IN  c.rulesEnabled /\ ~c.restrictedToGroups /\ (\A i \in DOMAIN c.rules : IsLocalRule(c.rules[i])) =>
            \A u \in Users, computer \in Computers, users \in ConnectedUserSets :
                LET q == Query(u, computer, users, local)
                IN  IsAccessToLocalComputerDenied(c, local) <=>
                        \E i \in ProcessAccessControlRules(c.rules, q) : c.rules[i].action = "Deny"
=============================================================================
