\* Mixed rules with every condition, and rules about the local state only.
CONSTANTS
    NoName = ""
    Here = "here"
    MCUsers = {"", "teacher", "alice", "bob"}
    Users = {"", "teacher", "alice", "bob"}
    Computers <- MCComputers
    GroupsOf <- MCGroupsOf
    LocationsOf <- MCLocationsOf
    ConnectedUserSets <- MCConnected
    Configurations <- AllConfigurations
SPECIFICATION Spec
INVARIANTS GrantIsJustified SameGroupsSameDecision LocalRulesDenyEverybody
