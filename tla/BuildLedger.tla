----------------------------- MODULE BuildLedger -----------------------------
(***************************************************************************)
(* The durable ledger of one go-work build and the questions it asks       *)
(* (gowork_state.py, gowork_schedule.py, gowork_blockers.py).  A ledger is  *)
(* a record of the plan versions it knows and one attempt per task; every   *)
(* operator here is one method that writes it, as a function from ledgers   *)
(* to ledgers.                                                              *)
(***************************************************************************)
EXTENDS Naturals, Sequences, FiniteSets, SequencesExt

CONSTANTS
    Plans, Tasks,
    PlanOf,     \* [Tasks -> Plans]
    Order,      \* the tasks in plan order
    Deps,       \* [Tasks -> SUBSET Tasks]: the prerequisites
    Clash       \* pairs {t, u} that own a file or a resource in common

ASSUME LedgerAssumption ==
    /\ PlanOf \in [Tasks -> Plans] /\ Deps \in [Tasks -> SUBSET Tasks]
    /\ Order \in Seq(Tasks) /\ Range(Order) = Tasks /\ IsInjective(Order)
    /\ Clash \subseteq SUBSET Tasks

\* A task's current attempt; "accepted" stands for the accepted flag too.  "why" keeps
\* of the reason of a block whether _is_repairable finds it a failure of the work.  Two
\* fields stand for what is durable elsewhere under the attempt's identity: the side copy
\* named after it ("merged" into the build's copy, then "gone", and "passed" when the
\* combined check did), and the one question the BlockerLedger may hold for it.
Statuses == {"pending", "running", "finished", "accepted", "blocked"}
Attempt == [status : Statuses, attempt : Nat \ {0}, version : Nat, repairs : Nat,
            why : {"", "work", "machinery", "skipped"},
            side : {"clean", "work", "merged", "gone", "passed"},
            ask : {"none", "open", "posted", "resolved"}]
Ledgers == [versions : [Plans -> Nat], tasks : [Tasks -> Attempt]]

MaxAutoRepairs == 1

\* _new_document
NewLedger(file) ==
    [versions |-> file,
     tasks |-> [t \in Tasks |-> [status |-> "pending", attempt |-> 1, repairs |-> 0,
                                 version |-> file[PlanOf[t]], why |-> "",
                                 side |-> "clean", ask |-> "none"]]]

Written(L, t, r) == [L EXCEPT !.tasks[t] = r]
Is(L, t, s) == L.tasks[t].status = s

\* begin, for the tasks of one round
Begun(L, S) ==
    [L EXCEPT !.tasks = [t \in Tasks |-> IF t \in S THEN [@[t] EXCEPT !.status = "running", !.why = ""]
                                                    ELSE @[t]]]

\* submit_result: refused (no ledger) for an attempt that does not run.
Submitted(L, t) == Written(L, t, [L.tasks[t] EXCEPT !.status = "finished", !.why = ""])

Blocked(L, t, why) == Written(L, t, [L.tasks[t] EXCEPT !.status = "blocked", !.why = why])

\* _next_attempt
Fresh(L, t, repairs) ==
    [status |-> "pending", attempt |-> L.tasks[t].attempt + 1, why |-> "",
     version |-> L.versions[PlanOf[t]], repairs |-> repairs, side |-> "clean", ask |-> "none"]

\* retry; rework starts the same attempt, with another briefing.  Neither while it runs.
Retried(L, t) == Written(L, t, Fresh(L, t, L.tasks[t].repairs))

Repaired(L, t) == Written(L, t, Fresh(L, t, L.tasks[t].repairs + 1))
RepairsLeft(L, t) == L.tasks[t].repairs < MaxAutoRepairs

\* accept refuses an attempt built at an older plan version, which is then reworked.
Current(L, t) == L.tasks[t].version = L.versions[PlanOf[t]]
Accepted(L, t) ==
    IF Current(L, t) THEN Written(L, t, [L.tasks[t] EXCEPT !.status = "accepted"])
                     ELSE Retried(L, t)

(***************************************************************************)
(* sync_tree: the new versions are one write, then each task of a changed  *)
(* plan is one write more, in plan order; "taken" are those written.  A    *)
(* process that dies in between has written a prefix of the plan order.    *)
(***************************************************************************)
\* Mutants: a sync that takes an attempt from under its worker, and one that reworks the
\* tasks of every plan when one of them changed.
TakenRunning(L, file, t) ==
    IF file[PlanOf[t]] # L.versions[PlanOf[t]] /\ L.tasks[t].status # "blocked"
    THEN Fresh([L EXCEPT !.versions = file], t, L.tasks[t].repairs) ELSE L.tasks[t]
TakenAll(L, file, t) ==
    IF file # L.versions /\ L.tasks[t].status \in {"accepted", "finished"}
    THEN Fresh([L EXCEPT !.versions = file], t, L.tasks[t].repairs) ELSE L.tasks[t]

Taken(L, file, t) ==
    LET r == L.tasks[t] IN
    IF file[PlanOf[t]] = L.versions[PlanOf[t]] THEN r
    ELSE IF r.status = "pending" THEN [r EXCEPT !.version = file[PlanOf[t]]]
    ELSE IF r.status \in {"accepted", "finished"}
         THEN Fresh([L EXCEPT !.versions = file], t, r.repairs)
    ELSE r

Synced(L, file, taken) ==
    [versions |-> file,
     tasks |-> [t \in Tasks |-> IF t \in taken THEN Taken(L, file, t) ELSE L.tasks[t]]]

WrittenSets == {{Order[i] : i \in 1..n} : n \in 0..Len(Order)}

\* ready_tasks, with _releases and can_run_together: greedy in plan order.
Releases(L, d) == Is(L, d, "accepted") /\ Current(L, d)
Together(t, u) == t # u /\ {t, u} \notin Clash
Earlier(t, S) == {u \in S : \E i, j \in DOMAIN Order : i < j /\ Order[i] = u /\ Order[j] = t}
MayStart(L, busy, t) ==
    /\ Is(L, t, "pending") /\ t \notin busy
    /\ \A d \in Deps[t] : Releases(L, d)
    /\ \A u \in busy : Together(t, u)
\* Mutant: what is picked together is not compared.
IsReadyUncompared(L, busy, room, S) ==
    \A t \in Tasks : t \in S <=> MayStart(L, busy, t) /\ Cardinality(Earlier(t, S)) < room
IsReady(L, busy, room, S) ==
    \A t \in Tasks : t \in S <=> /\ MayStart(L, busy, t)
                                 /\ Cardinality(Earlier(t, S)) < room
                                 /\ \A u \in Earlier(t, S) : Together(t, u)

\* BlockerLedger.open returns the question an attempt has, unless it was answered.
Asked(L, t, ask) ==
    Written(L, t, [L.tasks[t] EXCEPT !.ask = IF @ = "posted" THEN "posted" ELSE ask])
\* _post_blocker_if_stuck: what stays blocked and is not repaired is for a person.
ForAPerson(L, t) ==
    Is(L, t, "blocked") /\ ~ (RepairsLeft(L, t) /\ L.tasks[t].why = "work")
=============================================================================
