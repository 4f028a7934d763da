------------------------ MODULE MCFileDistribution ------------------------
(* An instance of FileDistribution for TLC. *)
EXTENDS FileDistribution, TLC

CONSTANTS c1, f1, f2, f3

\* The first file has two chunks, the second is on the computer already and may
\* be refused even if it is to be overwritten, the third cannot be opened by the
\* master.
MCSize       == (f1 :> 2) @@ (f2 :> 1) @@ (f3 :> 1)
MCSelections == {<<f1, f2>>, <<f3>>}
MCExisting   == {<<c1, f2>>}
=============================================================================
