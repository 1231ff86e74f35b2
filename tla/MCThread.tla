------------------------------ MODULE MCThread ------------------------------
(* A small instance of ThreadSlot for TLC. *)
EXTENDS ThreadSlot

CONSTANTS t1, t2

TwoTurns == {t1, t2}
\* The second turn's task is a build's.
OneBuild == {t2}
NoBuild == {}
=============================================================================
