---------------------------- MODULE AccessRules ----------------------------
(***************************************************************************)
(* What AccessControlProvider decides: whether a request to access this    *)
(* computer is allowed, denied or put to its user, from the authorized     *)
(* groups or the ordered list of access control rules of the               *)
(* configuration, and whether the local state denies access to everybody.  *)
(*                                                                         *)
(* A pattern of a rule (a name, a regular expression or a wildcard) stands *)
(* for the set of the names it matches, {} for a pattern left empty.       *)
(***************************************************************************)
EXTENDS Naturals, Sequences, FiniteSets

CONSTANTS
    Users,           \* user names; NoName is the empty string
    Computers,       \* computers requests come from; Here is the local one
    NoName, Here,
    GroupsOf,        \* the groups of each user, from the user groups backend
    LocationsOf,     \* the locations of each computer, from the directory
    ConnectedUserSets, \* the sets of users who may have access already
    Configurations   \* the configurations administrators write

NamedUsers == Users \ {NoName}

\* The user of the server's session; somebody may be logged on in another one.
LocalStates == {s \in [localUser : Users, anyUserLoggedOn : BOOLEAN] :
                  s.localUser # NoName => s.anyUserLoggedOn}

Actions    == {"None", "Allow", "Deny", "AskForPermission"}
UserTests  == {"GroupsInCommon", "AccessFromLocalUser", "AccessFromAlreadyConnectedUser"}
OtherTests == {"SameLocation", "AccessFromLocalHost", "NoUserLoggedOn", "ComputerAlreadyBeingAccessed"}
Conditions == {"MemberOfUserGroup", "LocatedAt"} \cup UserTests \cup OtherTests
Subjects   == {"None", "AccessingUser", "AccessingComputer", "LocalUser", "LocalComputer"}

ASSUME AccessRulesAssumption ==
    /\ NoName \in Users /\ Here \in Computers
    /\ ConnectedUserSets \subseteq SUBSET NamedUsers
    /\ DOMAIN GroupsOf = Users /\ DOMAIN LocationsOf = Computers
    /\ \A config \in Configurations :
         /\ config.rules \in Seq({config.rules[i] : i \in DOMAIN config.rules})
         /\ \A i \in DOMAIN config.rules : /\ config.rules[i].action \in Actions
                                           /\ DOMAIN config.rules[i].conditions \subseteq Conditions

-----------------------------------------------------------------------------
(* Rules                                                                   *)

\* What a request brings to the rules, with the state of the computer.
Query(user, computer, users, state) ==
    [accessingUser |-> user, accessingComputer |-> computer, connectedUsers |-> users,
     localUser |-> state.localUser, localComputer |-> Here,
     anyUserLoggedOn |-> state.anyUserLoggedOn]

\* The user or computer a condition is about; NoName if the rule names none.
LookupUser(subject, q) ==
    CASE subject = "AccessingUser" -> q.accessingUser
      [] subject = "LocalUser"     -> q.localUser
      [] OTHER                     -> NoName
LookupComputer(subject, q) ==
    CASE subject = "AccessingComputer" -> q.accessingComputer
      [] subject = "LocalComputer"     -> q.localComputer
      [] OTHER                         -> NoName

\* A condition whose subject or argument is empty cannot be answered.
Answerable(condition, parameters, q) ==
    CASE condition = "MemberOfUserGroup" ->
           LookupUser(parameters.subject, q) # NoName /\ parameters.names # {}
      [] condition = "LocatedAt" ->
           LookupComputer(parameters.subject, q) # NoName /\ parameters.names # {}
      [] condition = "GroupsInCommon" -> q.accessingUser # NoName /\ q.localUser # NoName
      [] condition = "SameLocation" -> q.accessingComputer # NoName /\ q.localComputer # NoName
      [] OTHER -> TRUE

\* Mutant: the pattern is compared with the user's own name as well.
IsMemberOrNamed(user, names) == (GroupsOf[user] \cup {user}) \cap names # {}

IsMemberOfUserGroup(user, names) == GroupsOf[user] \cap names # {}
IsLocatedAt(computer, names)     == LocationsOf[computer] \cap names # {}
HaveGroupsInCommon(u1, u2)       == GroupsOf[u1] \cap GroupsOf[u2] # {}
HaveSameLocations(c1, c2)        == LocationsOf[c1] # {} /\ LocationsOf[c1] = LocationsOf[c2]

Holds(condition, parameters, q) ==
    CASE condition = "MemberOfUserGroup" ->
           IsMemberOfUserGroup(LookupUser(parameters.subject, q), parameters.names)
      [] condition = "LocatedAt" ->
           IsLocatedAt(LookupComputer(parameters.subject, q), parameters.names)
      [] condition = "GroupsInCommon" -> HaveGroupsInCommon(q.accessingUser, q.localUser)
      [] condition = "SameLocation" -> HaveSameLocations(q.accessingComputer, q.localComputer)
      [] condition = "AccessFromLocalHost" -> q.accessingComputer = Here
      [] condition = "AccessFromLocalUser" ->
           q.accessingUser # NoName /\ q.accessingUser = q.localUser
      [] condition = "AccessFromAlreadyConnectedUser" -> q.accessingUser \in q.connectedUsers
      [] condition = "NoUserLoggedOn" -> ~q.anyUserLoggedOn
      [] condition = "ComputerAlreadyBeingAccessed" -> q.connectedUsers # {}

\* All enabled conditions hold, or with inverted conditions none of them; a
\* rule without any condition does not match.
MatchConditions(rule, q) ==
    /\ DOMAIN rule.conditions # {}
    /\ \A condition \in DOMAIN rule.conditions :
         LET parameters == rule.conditions[condition]
         IN  /\ Answerable(condition, parameters, q)
             /\ Holds(condition, parameters, q) = ~rule.inverted

Applies(rule, q) ==
    /\ rule.action # "None"
    /\ rule.ignored \/ MatchConditions(rule, q)

\* The position of the rule that decides: the first that applies.
ProcessAccessControlRules(rules, q) ==
    LET applying == {i \in DOMAIN rules : Applies(rules[i], q)}
    IN  {i \in applying : \A j \in applying : i <= j}

ProcessAuthorizedGroups(c, user) == GroupsOf[user] \cap c.authorizedGroups # {}

\* What the action of a rule makes of a request.
Decision(action) ==
    CASE action = "Allow"            -> "Allow"
      [] action = "AskForPermission" -> "ToBeConfirmed"
      [] OTHER                       -> "Deny"

\* Mutant: who matches no rule is let in.
CheckAccessLenient(c, q) ==
    IF c.restrictedToGroups
    THEN IF ProcessAuthorizedGroups(c, q.accessingUser) THEN "Allow" ELSE "Deny"
    ELSE IF c.rulesEnabled
    THEN LET first == ProcessAccessControlRules(c.rules, q)
         IN  IF \E i \in first : Decision(c.rules[i].action) = "Deny" THEN "Deny" ELSE "Allow"
    ELSE "Allow"

CheckAccess(c, q) ==
    IF c.restrictedToGroups
    THEN IF ProcessAuthorizedGroups(c, q.accessingUser) THEN "Allow" ELSE "Deny"
    ELSE IF c.rulesEnabled
    THEN LET first == ProcessAccessControlRules(c.rules, q)
         IN  IF first = {} THEN "Deny"
             ELSE Decision(c.rules[CHOOSE i \in first : TRUE].action)
    ELSE "Allow"

\* Mutant: rules that are switched off count.
LocalDenialByAnyRule(c, state) ==
    /\ c.rulesEnabled
    /\ LET q        == Query(NoName, NoName, {}, state)
           matching == {i \in DOMAIN c.rules : MatchConditions(c.rules[i], q)}
       IN  \E i \in matching :
             c.rules[i].action \in {"None", "Deny"} /\ \A j \in matching : i <= j

\* Is access denied by a rule that matches a request of which nothing is known?
\* Neither the authorized groups nor rules that ignore their conditions count.
IsAccessToLocalComputerDenied(c, state) ==
    /\ c.rulesEnabled
    /\ LET q        == Query(NoName, NoName, {}, state)
           matching == {i \in DOMAIN c.rules :
                          c.rules[i].action # "None" /\ MatchConditions(c.rules[i], q)}
       IN  \E i \in matching : c.rules[i].action = "Deny" /\ \A j \in matching : i <= j
=============================================================================
