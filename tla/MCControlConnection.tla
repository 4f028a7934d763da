------------------------ MODULE MCControlConnection ------------------------
(* Two connections of one computer, started one after the other. *)
EXTENDS ControlConnection

MCFailures == {"HostOffline"}
=============================================================================
