------------------------ MODULE MCWebApiController ------------------------
(* Instances of WebApiController for TLC. *)
EXTENDS WebApiController, TLC
=============================================================================
