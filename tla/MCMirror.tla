------------------------------- MODULE MCMirror -------------------------------
(* A task of two attempts: two messages are handled at a time, one process     *)
(* dies once, one message is delivered twice.                                  *)
EXTENDS HandoffMirror, TLC
===============================================================================
