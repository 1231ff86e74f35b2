---------------------------- MODULE MCAdmission ----------------------------
(* A small instance of Admission for TLC. *)
EXTENDS Admission

CONSTANTS a1, b1, v1, h1, A, B

\* A task of build A, one of build B that unblocks more, a review, a chat.
InLine == {a1, b1, v1, h1}
TwoBuilds == {A, B}

LineKind == [r \in InLine |-> IF r = v1 THEN "review" ELSE IF r = h1 THEN "chat" ELSE "task"]
LineBuild == [r \in InLine |-> IF r \in {b1, v1} THEN B ELSE A]
LinePromise == [r \in InLine |-> IF r = b1 THEN 1 ELSE 0]
OneToThree == {1, 2, 3}
=============================================================================
