------------------------------ MODULE MCHandoff ------------------------------
(* Small instances of HandoffLedger for TLC. *)
EXTENDS HandoffLedger

CONSTANTS t1, l1, w1, w2, c1

OneTask == {t1}
OneLegacy == {l1}
OneTurn == {w1}
TwoTurns == {w1, w2}
OneLoop == {c1}
Nothing == {}
EarlyStop == {"early", "stop"}
StopOnly == {"stop"}
SpawnExhaust == {"spawn", "exhaust"}
=============================================================================
