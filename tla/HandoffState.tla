---------------------------- MODULE HandoffState ----------------------------
(***************************************************************************)
(* The durable job state machine of claude_code_core/handoffs/state.py: a  *)
(* stored job, a trigger, and the job that results.  It is pure: no        *)
(* variable, no clock.  HandoffLedger uses it for the jobs a recipient     *)
(* executes; HandoffMirror, for an origin's copy of somebody else's job.   *)
(***************************************************************************)
EXTENDS Naturals

CONSTANT MaxAttempts        \* HandoffJob.max_attempts (3 by default)

ASSUME MaxAttemptsAssumption == MaxAttempts \in Nat \ {0}

States == {"accepted", "queued", "running", "blocked", "completed", "failed"}
TerminalStates == {"completed", "failed"}
NonterminalStates == States \ TerminalStates

Triggers == {"enqueue", "capacity_wait", "start", "block", "unblock", "complete",
             "fail", "expire", "restart_reconcile", "retry"}

\* A job row.  "absent" is the row that does not exist yet; waiting abstracts
\* the note to what the executor reads from it: is it CAPACITY_NOTE?
Job == [state: States \cup {"absent"}, attempt: 1..MaxAttempts,
        retryable: BOOLEAN, waiting: BOOLEAN]

FreshJob(state, attempt) ==
    [state |-> state, attempt |-> attempt, retryable |-> FALSE, waiting |-> FALSE]
NoJob == FreshJob("absent", 1)
AcceptedJob == FreshJob("accepted", 1)

\* The states a locally decided trigger may fire from, and where it lands.
AllowedFrom ==
    [tr \in Triggers |->
        CASE tr = "enqueue"                     -> {"accepted"}
          [] tr \in {"capacity_wait", "start"}  -> {"accepted", "queued"}
          [] tr = "block"                       -> {"accepted", "queued", "running"}
          [] tr = "unblock"                     -> {"blocked"}
          [] tr \in {"complete", "restart_reconcile"} -> {"running"}
          [] tr \in {"fail", "expire"}          -> NonterminalStates
          [] OTHER                              -> {"failed"}]

Target ==
    [tr \in Triggers |->
        CASE tr \in {"enqueue", "capacity_wait", "unblock", "restart_reconcile", "retry"}
                                    -> "queued"
          [] tr = "start"           -> "running"
          [] tr = "block"           -> "blocked"
          [] tr = "complete"        -> "completed"
          [] OTHER                  -> "failed"]

CanRetry(j) == j.state = "failed" /\ j.retryable /\ j.attempt < MaxAttempts

\* What apply() checks before it changes anything.
Legal(j, tr) ==
    /\ j.state \in AllowedFrom[tr]
    /\ tr = "retry" => CanRetry(j)

\* What apply() returns: a retry is the one trigger that spends an attempt.
Apply(j, tr, retryable) ==
    [state     |-> Target[tr],
     attempt   |-> IF tr = "retry" THEN j.attempt + 1 ELSE j.attempt,
     retryable |-> retryable /\ tr = "fail",
     waiting   |-> tr = "capacity_wait"]
=============================================================================
