------------------------------- MODULE MCRelay -------------------------------
(* Small instances of Relay for TLC. *)
EXTENDS Relay, TLC

CONSTANTS m1, m2, p1

OneMessage == {m1}
TwoMessages == {m1, m2}
OnePress == {p1}
PressOfFirst == [p \in {p1} |-> m1]
FirstTwice == [a \in {m1, p1} |-> IF a = m1 THEN 2 ELSE 1]
EachOnce == [a \in {m1, m2, p1} |-> 1]
None == {}
=============================================================================
