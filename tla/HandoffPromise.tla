--------------------------- MODULE HandoffPromise ---------------------------
(***************************************************************************)
(* What a recipient of handoffs promises about answers, with nothing said  *)
(* of attempts, passes, restarts or retries: a task gets at most one       *)
(* answer, the answer never changes, and from the step that decides it the *)
(* recipient owes it to the origin until it is told or visibly given up.   *)
(***************************************************************************)
CONSTANT Tasks

VARIABLES answer,   \* the outcome recorded for each task
          debt      \* what the origin is still owed

vars == <<answer, debt>>

Outcomes == {"completed", "failed"}

Init == /\ answer = [t \in Tasks |-> "none"]
        /\ debt = [t \in Tasks |-> "none"]

Decide(t, o) == /\ answer[t] = "none"
                /\ answer' = [answer EXCEPT ![t] = o]
                /\ debt' = [debt EXCEPT ![t] = "pending"]

Settle(t, how) == /\ debt[t] = "pending"
                  /\ debt' = [debt EXCEPT ![t] = how]
                  /\ UNCHANGED answer

Next == \E t \in Tasks : \/ \E o \in Outcomes : Decide(t, o)
                         \/ \E how \in {"delivered", "abandoned"} : Settle(t, how)

Spec == Init /\ [][Next]_vars
=============================================================================
