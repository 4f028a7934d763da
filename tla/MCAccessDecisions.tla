---------------------------- MODULE MCAccessDecisions ----------------------------
(* Instances of AccessDecisions for TLC: a school, teachers and students.  *)
EXTENDS AccessDecisions, TLC

CONSTANT MCUsers
MCConnected == {{}, {"alice"}, {"teacher", "alice"}}
MCComputers == {"here", "lab", "office"}
MCGroupsOf  == [u \in MCUsers |-> CASE u = "teacher" -> {"teachers", "staff"}
                                    [] u \in {"alice", "bob"} -> {"students"}
                                    [] u = "" -> {}]
MCLocationsOf == [c \in MCComputers |-> CASE c \in {"here", "lab"} -> {"room1"}
                                          [] c = "office" -> {"room2"}]

Parameters(subject, names) == [subject |-> subject, names |-> names]
Plain == Parameters("None", {})

Rule(action, inverted, conditions) ==
    [action |-> action, inverted |-> inverted, ignored |-> FALSE, conditions |-> conditions]
CatchAll(action) == [Rule(action, FALSE, [c \in {} |-> Plain]) EXCEPT !.ignored = TRUE]

IfTeacher     == "MemberOfUserGroup" :> Parameters("AccessingUser", {"teachers"})
IfAliceOrStaff == "MemberOfUserGroup" :> Parameters("AccessingUser", {"alice", "staff"})
IfStudentHere == "MemberOfUserGroup" :> Parameters("LocalUser", {"students"})
IfTeacherHere == "MemberOfUserGroup" :> Parameters("LocalUser", {"teachers", "staff"})
IfInRoom      == "LocatedAt" :> Parameters("LocalComputer", {"room1"})
IfFromRoom    == "LocatedAt" :> Parameters("AccessingComputer", {"room1"})
If(condition) == condition :> Plain

Configuration(groups, rulesEnabled, rules) ==
    [restrictedToGroups |-> groups # {}, authorizedGroups |-> groups,
     rulesEnabled |-> rulesEnabled, rules |-> rules, localConnectOnly |-> FALSE]
Ruled(rules) == Configuration({}, TRUE, rules)

\* One rule for every condition, inverted or not, and the ones switched off.
SomeRules ==
    {Rule("Allow", inverted, cs) : inverted \in BOOLEAN,
        cs \in {IfTeacher, IfAliceOrStaff, IfFromRoom, IfTeacher @@ If("SameLocation")}
               \cup {If(c) : c \in UserTests \cup OtherTests}}
    \cup {Rule("None", FALSE, IfTeacher), CatchAll("AskForPermission")}

\* Rules that deny because of who is logged on here, or who has access already.
DenyingRules ==
    {Rule("Deny", inverted, cs) : inverted \in BOOLEAN,
        cs \in {IfTeacherHere, If("NoUserLoggedOn"), If("ComputerAlreadyBeingAccessed")}}

MixedConfigurations ==
    {Ruled(<<a, d>>) : a \in SomeRules, d \in DenyingRules}
    \cup {Ruled(<<d, a, CatchAll("Deny")>>) : a \in SomeRules, d \in DenyingRules}
    \cup {Configuration({"teachers"}, FALSE, <<>>), Configuration({}, FALSE, <<>>)}

\* Rules about the local state only, some of them switched off.
LocalRules ==
    {Rule(action, inverted, cs) : action \in {"None", "Allow", "Deny"}, inverted \in BOOLEAN,
        cs \in {IfTeacherHere, If("NoUserLoggedOn")}}
LocalConfigurations == {Ruled(<<r, s>>) : r, s \in LocalRules}

AllConfigurations == MixedConfigurations \cup LocalConfigurations
=============================================================================
