------------------------ MODULE AccessDecisionsProofs ------------------------
(* Theorems about AccessRules and AccessDecisions, for any users, groups,  *)
(* locations and configurations.                                           *)
EXTENDS AccessDecisions, TLAPS

-----------------------------------------------------------------------------
(* Rules                                                                   *)

\* The first rule that applies is chosen from those that are first.
LEMMA ChosenIsMember == ASSUME NEW S, S # {} PROVE (CHOOSE i \in S : TRUE) \in S
OBVIOUS

\* What a query depends on, user by user: nothing but the user's groups, unless
\* the user is logged on here or connected already.
LEMMA ConditionIgnoresName ==
    ASSUME NEW condition \in Conditions, NEW parameters, NEW q, NEW u,
           q.accessingUser \notin {q.localUser, NoName} \cup q.connectedUsers,
           u \notin {q.localUser, NoName} \cup q.connectedUsers,
           GroupsOf[u] = GroupsOf[q.accessingUser],
           q = Query(q.accessingUser, q.accessingComputer, q.connectedUsers, q)
    PROVE  LET r == [q EXCEPT !.accessingUser = u]
           IN  /\ Answerable(condition, parameters, r) = Answerable(condition, parameters, q)
               /\ Holds(condition, parameters, r) = Holds(condition, parameters, q)
<1> DEFINE r == [q EXCEPT !.accessingUser = u]
<1>1. /\ r.accessingUser = u /\ r.localUser = q.localUser /\ r.connectedUsers = q.connectedUsers
      /\ r.accessingComputer = q.accessingComputer /\ r.localComputer = q.localComputer
      /\ r.anyUserLoggedOn = q.anyUserLoggedOn
  BY DEF Query
<1> HIDE DEF r
<1>2. /\ GroupsOf[LookupUser(parameters.subject, r)] = GroupsOf[LookupUser(parameters.subject, q)]
      /\ LookupUser(parameters.subject, r) = NoName <=> LookupUser(parameters.subject, q) = NoName
      /\ LookupComputer(parameters.subject, r) = LookupComputer(parameters.subject, q)
  BY <1>1 DEF LookupUser, LookupComputer
<1>3. Answerable(condition, parameters, r) = Answerable(condition, parameters, q)
  BY <1>1, <1>2 DEF Answerable
<1>4. Holds(condition, parameters, r) = Holds(condition, parameters, q)
  <2>1. CASE condition = "MemberOfUserGroup"
    BY <2>1, <1>2 DEF Holds, IsMemberOfUserGroup
  <2>2. CASE condition = "LocatedAt"
    BY <2>2, <1>2 DEF Holds
  <2>3. CASE condition = "GroupsInCommon"
    BY <2>3, <1>1 DEF Holds, HaveGroupsInCommon
  <2>4. CASE condition \in OtherTests
    BY <2>4, <1>1 DEF Holds, OtherTests
  <2>5. CASE condition \in {"AccessFromLocalUser", "AccessFromAlreadyConnectedUser"}
    BY <2>5, <1>1 DEF Holds
  <2>6. QED
    BY <2>1, <2>2, <2>3, <2>4, <2>5 DEF Conditions, UserTests
<1>5. QED
  BY <1>3, <1>4 DEF r

\* Hence no rule tells two such users apart, and neither does the decision.
LEMMA DecisionIgnoresName ==
    ASSUME NEW c \in Configurations, NEW q, NEW u,
           q.accessingUser \notin {q.localUser, NoName} \cup q.connectedUsers,
           u \notin {q.localUser, NoName} \cup q.connectedUsers,
           GroupsOf[u] = GroupsOf[q.accessingUser],
           q = Query(q.accessingUser, q.accessingComputer, q.connectedUsers, q)
    PROVE  CheckAccess(c, [q EXCEPT !.accessingUser = u]) = CheckAccess(c, q)
<1> DEFINE r == [q EXCEPT !.accessingUser = u]
<1>1. r.accessingUser = u
  BY DEF Query
<1>2. ASSUME NEW i \in DOMAIN c.rules PROVE Applies(c.rules[i], r) = Applies(c.rules[i], q)
  <2>1. DOMAIN c.rules[i].conditions \subseteq Conditions
    BY AccessRulesAssumption
  <2>2. \A condition \in DOMAIN c.rules[i].conditions :
          /\ Answerable(condition, c.rules[i].conditions[condition], r)
               = Answerable(condition, c.rules[i].conditions[condition], q)
          /\ Holds(condition, c.rules[i].conditions[condition], r)
               = Holds(condition, c.rules[i].conditions[condition], q)
    BY <2>1, ConditionIgnoresName
  <2> HIDE DEF r
  <2>3. MatchConditions(c.rules[i], r) = MatchConditions(c.rules[i], q)
    BY <2>2 DEF MatchConditions
  <2>4. QED
    BY <2>3 DEF Applies
<1> HIDE DEF r
<1>3. ProcessAccessControlRules(c.rules, r) = ProcessAccessControlRules(c.rules, q)
  BY <1>2 DEF ProcessAccessControlRules
<1>4. ProcessAuthorizedGroups(c, r.accessingUser) = ProcessAuthorizedGroups(c, q.accessingUser)
  BY <1>1 DEF ProcessAuthorizedGroups
<1>5. CheckAccess(c, r) = CheckAccess(c, q)
  BY <1>3, <1>4 DEF CheckAccess
<1>6. QED
  BY <1>5 DEF r

-----------------------------------------------------------------------------
(* The last decision is the one the rules give in the present state.       *)

LastCheckIsCurrent ==
    lastCheck # NoCheck =>
        \E user \in Users, computer \in Computers, users \in ConnectedUserSets :
            lastCheck = [access |-> CheckAccess(config, Query(user, computer, users, local)),
                         query |-> Query(user, computer, users, local)]

CInv == config \in Configurations /\ LastCheckIsCurrent

LEMMA NextCInv == CInv /\ [Next]_vars => CInv'
<1> SUFFICES ASSUME CInv, [Next]_vars PROVE CInv'
  OBVIOUS
<1> USE DEF CInv, LastCheckIsCurrent
<1>1. CASE UNCHANGED vars
  BY <1>1 DEF vars
<1>2. CASE \E state \in LocalStates : LogOnOrOff(state)
  BY <1>2 DEF LogOnOrOff
<1>3. CASE StartServer
  BY <1>3 DEF StartServer
<1>4. CASE StopServer
  BY <1>4 DEF StopServer
<1>5. ASSUME NEW user \in Users, NEW computer \in Computers, NEW users \in ConnectedUserSets,
             Request(user, computer, users)
      PROVE  CInv'
  BY <1>5, Zenon DEF Request
<1>6. QED
  BY <1>1, <1>2, <1>3, <1>4, <1>5 DEF Next

LEMMA CInvCorrect == Spec => []CInv
<1>1. Init => CInv
  BY DEF Init, CInv, LastCheckIsCurrent
<1>2. QED
  BY <1>1, NextCInv, PTL DEF Spec

\* The decision of the rules is that of the first rule that applies.
LEMMA FirstRuleDecides ==
    ASSUME NEW c \in Configurations, NEW q, c.rulesEnabled, ~c.restrictedToGroups, CheckAccess(c, q) # "Deny"
    PROVE  \E i \in DOMAIN c.rules :
             /\ Decision(c.rules[i].action) = CheckAccess(c, q)
             /\ Applies(c.rules[i], q)
             /\ \A j \in DOMAIN c.rules : Applies(c.rules[j], q) => i <= j
<1> DEFINE first == ProcessAccessControlRules(c.rules, q)
           i     == CHOOSE k \in first : TRUE
<1>1. first # {} /\ CheckAccess(c, q) = Decision(c.rules[i].action)
  BY DEF CheckAccess
<1>2. i \in first
  BY <1>1, ChosenIsMember
<1> HIDE DEF i
<1>3. QED
  BY <1>1, <1>2 DEF ProcessAccessControlRules

\* Whoever is let in, or put to the user, owes it to a rule that says so and
\* that no denying rule precedes.
THEOREM GrantCorrect == Spec => []GrantIsJustified
<1>1. CInv => GrantIsJustified
  <2> SUFFICES ASSUME CInv, ByRules, lastCheck.access # "Deny"
               PROVE  \E i \in DOMAIN config.rules :
                        /\ config.rules[i].action = (IF lastCheck.access = "Allow" THEN "Allow" ELSE "AskForPermission")
                        /\ Applies(config.rules[i], lastCheck.query)
                        /\ \A j \in 1..i - 1 :
                             config.rules[j].action = "Deny" => ~Applies(config.rules[j], lastCheck.query)
    BY DEF GrantIsJustified
  <2>1. lastCheck.access = CheckAccess(config, lastCheck.query)
    BY DEF CInv, LastCheckIsCurrent, ByRules
  <2>2. PICK i \in DOMAIN config.rules :
          /\ Decision(config.rules[i].action) = lastCheck.access
          /\ Applies(config.rules[i], lastCheck.query)
          /\ \A j \in DOMAIN config.rules : Applies(config.rules[j], lastCheck.query) => i <= j
    BY <2>1, FirstRuleDecides DEF CInv, ByRules
  <2>3. config.rules[i].action = (IF lastCheck.access = "Allow" THEN "Allow" ELSE "AskForPermission")
    BY <2>2 DEF Decision
  <2>4. ASSUME NEW j \in 1..i - 1 PROVE ~Applies(config.rules[j], lastCheck.query)
    <3>1. config.rules \in Seq({config.rules[k] : k \in DOMAIN config.rules})
      BY AccessRulesAssumption DEF CInv
    <3>2. DOMAIN config.rules = 1..Len(config.rules) /\ Len(config.rules) \in Nat
      BY <3>1
    <3>3. j \in DOMAIN config.rules /\ ~(i <= j)
      BY <2>2, <3>2
    <3>4. QED
      BY <2>2, <3>3
  <2>5. QED
    BY <2>2, <2>3, <2>4
<1>2. QED
  BY <1>1, CInvCorrect, PTL

\* Two users of the same groups, neither logged on here nor connected, are
\* treated alike by whatever rules.
THEOREM SameGroupsCorrect == Spec => []SameGroupsSameDecision
<1>1. CInv => SameGroupsSameDecision
  <2> SUFFICES ASSUME CInv, lastCheck # NoCheck, NEW u \in NamedUsers,
                      GroupsOf[u] = GroupsOf[lastCheck.query.accessingUser],
                      {u, lastCheck.query.accessingUser}
                        \cap ({lastCheck.query.localUser} \cup lastCheck.query.connectedUsers \cup {NoName}) = {}
               PROVE  CheckAccess(config, [lastCheck.query EXCEPT !.accessingUser = u]) = lastCheck.access
    BY DEF SameGroupsSameDecision
  <2>1. /\ lastCheck.access = CheckAccess(config, lastCheck.query)
        /\ \E user, computer, users : lastCheck.query = Query(user, computer, users, local)
    BY DEF CInv, LastCheckIsCurrent
  <2> DEFINE q == lastCheck.query
  <2>2. q = Query(q.accessingUser, q.accessingComputer, q.connectedUsers, q)
    BY <2>1 DEF Query
  <2>3. QED
    BY <2>1, <2>2, DecisionIgnoresName DEF CInv
<1>2. QED
  BY <1>1, CInvCorrect, PTL

-----------------------------------------------------------------------------
(* Rules about the local state                                             *)

\* Such a rule matches every request, or none.
LEMMA LocalRuleIgnoresRequest ==
    ASSUME NEW rule, IsLocalRule(rule), NEW state, NEW user, NEW computer, NEW users
    PROVE  MatchConditions(rule, Query(user, computer, users, state))
             = MatchConditions(rule, Query(NoName, NoName, {}, state))
<1> DEFINE q == Query(user, computer, users, state)
           r == Query(NoName, NoName, {}, state)
<1>1. ASSUME NEW condition \in DOMAIN rule.conditions
      PROVE  /\ Answerable(condition, rule.conditions[condition], q) = Answerable(condition, rule.conditions[condition], r)
             /\ Holds(condition, rule.conditions[condition], q) = Holds(condition, rule.conditions[condition], r)
  <2>1. q.localUser = r.localUser /\ q.localComputer = r.localComputer /\ q.anyUserLoggedOn = r.anyUserLoggedOn
    BY DEF Query
  <2> HIDE DEF q, r
  <2>2. CASE condition = "NoUserLoggedOn"
    BY <2>1, <2>2 DEF Answerable, Holds
  <2>3. CASE condition = "MemberOfUserGroup" /\ rule.conditions[condition].subject = "LocalUser"
    BY <2>1, <2>3 DEF Answerable, Holds, LookupUser
  <2>4. CASE condition = "LocatedAt" /\ rule.conditions[condition].subject = "LocalComputer"
    BY <2>1, <2>4 DEF Answerable, Holds, LookupComputer
  <2>5. QED
    BY <2>2, <2>3, <2>4 DEF IsLocalRule
<1> HIDE DEF q, r
<1>2. MatchConditions(rule, q) = MatchConditions(rule, r)
  BY <1>1 DEF MatchConditions
<1>3. QED
  BY <1>2 DEF q, r

\* With rules about the local state only, the server keeps to the local host
\* exactly when a rule denies every request.
THEOREM LocalRulesCorrect == Spec => []LocalRulesDenyEverybody
<1>1. CInv => LocalRulesDenyEverybody
  <2> SUFFICES ASSUME config.rulesEnabled, \A i \in DOMAIN config.rules : IsLocalRule(config.rules[i]),
                      NEW u \in Users, NEW computer \in Computers, NEW users \in ConnectedUserSets
               PROVE  IsAccessToLocalComputerDenied(config, local) <=>
                        \E i \in ProcessAccessControlRules(config.rules, Query(u, computer, users, local)) :
                            config.rules[i].action = "Deny"
    BY DEF LocalRulesDenyEverybody
  <2> DEFINE q == Query(u, computer, users, local)
             matching == {i \in DOMAIN config.rules :
                            config.rules[i].action # "None" /\ MatchConditions(config.rules[i], Query(NoName, NoName, {}, local))}
  <2>1. \A i \in DOMAIN config.rules : Applies(config.rules[i], q) <=> i \in matching
    BY LocalRuleIgnoresRequest DEF Applies, IsLocalRule
  <2>2. ProcessAccessControlRules(config.rules, q) = {i \in matching : \A j \in matching : i <= j}
    BY <2>1 DEF ProcessAccessControlRules
  <2>3. IsAccessToLocalComputerDenied(config, local)
          <=> \E i \in matching : config.rules[i].action = "Deny" /\ \A j \in matching : i <= j
    BY DEF IsAccessToLocalComputerDenied
  <2>4. QED
    BY <2>2, <2>3
<1>2. QED
  BY <1>1, CInvCorrect, PTL
=============================================================================
