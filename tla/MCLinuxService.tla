--------------------------- MODULE MCLinuxService ---------------------------
(* Instances of LinuxService for TLC. *)
EXTENDS LinuxService, TLC

Configuration(mode, maximum) == [mode |-> mode, maximum |-> maximum]

\* In Multi mode with too few numbers and with enough of them.
AllConfigurations  == {Configuration("Local", 1), Configuration("Multi", 1), Configuration("Multi", 2)}
OneServerAtATime   == {Configuration("Local", 1)}
=============================================================================
