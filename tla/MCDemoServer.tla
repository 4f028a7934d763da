---------------------------- MODULE MCDemoServer ----------------------------
(* A screen of three regions in a row, of which the outer ones span it. *)
EXTENDS DemoServer

MCRegions    == 1..3
MCCorners    == {1, 3}
MCChangeSets == {{2}, {1, 3}}
=============================================================================
