-------------------------------- MODULE Build --------------------------------
(***************************************************************************)
(* The engine of a manifest build: the loop that starts what is ready and  *)
(* records each worker as it finishes (claude_code_core/task_loop.py,       *)
(* _run_manifest), its workers, which merge into the build's copy one at a  *)
(* time, and what the cog around it does when the loop stops: it parks,     *)
(* takes the answers to the build's questions, and resumes it after a       *)
(* restart (cogs/task_loop.py).  The ledger is a file: a process may die    *)
(* between two of its writes.                                               *)
(***************************************************************************)
EXTENDS BuildLedger

CONSTANTS
    Parallel,       \* what max_parallel() may answer
    Endings,        \* [Tasks -> SUBSET Results], bound: how a worker of each may end
    MaxVersion, MaxReplies, MaxFaults   \* bounds of the model

ASSUME BuildAssumption ==
    /\ Parallel \subseteq Nat \ {0} 
    /\ Endings \in [Tasks -> SUBSET {"good", "lost", "rejected", "unreviewed", "cancelled"}]
    /\ MaxVersion \in [Plans -> Nat] /\ MaxReplies \in Nat /\ MaxFaults \in Nat

VARIABLES
    ledger,     \* the file of BuildState
    file,       \* the version of each plan in the plan file
    readable,   \* whether load_plan_tree accepts the plan file
    pc,         \* of the build: see Stages
    held,       \* in_flight: the tasks whose worker the loop waits for
    batch,      \* the finished ones it still has to record
    cur,        \* the one it records, in a set
    recon,      \* reconciled, of this run of the loop
    stop,       \* _stop, or the round limit reached
    workers,    \* the live and the finished worker tasks
    answers,    \* answers taken and not applied yet, in memory
    replies, faults     \* how often a person replied; deaths and unreadable plans

loop == <<pc, held, batch, cur, recon, stop>>
counters == <<replies, faults>>
plan == <<file, readable>>
vars == <<ledger, plan, loop, workers, answers, counters>>

Stages == {"top", "reconcile", "ready", "waiting", "record", "repair", "hook",
           "halted", "parked", "complete", "closed", "down"}
Results == {"none", "good", "lost", "rejected", "unreviewed", "cancelled"}
Worker == [task : Tasks, attempt : Nat \ {0}, stage : {"begun", "working", "landed", "over"},
           result : Results]

TypeOK ==
    /\ ledger \in Ledgers
    /\ file \in [Plans -> Nat] /\ readable \in BOOLEAN
    /\ pc \in Stages /\ recon \in BOOLEAN /\ stop \in BOOLEAN
    /\ held \subseteq Tasks /\ batch \subseteq held /\ cur \subseteq Tasks
    /\ workers \subseteq Worker
    /\ answers \subseteq Tasks \X {"retry", "skip"}
    /\ replies \in Nat /\ faults \in Nat

Mine(t) == {w \in workers : w.task = t /\ w.attempt = ledger.tasks[t].attempt}
OverTasks == {t \in held : \E w \in Mine(t) : w.stage = "over"}
Alive == pc \notin {"down", "closed", "complete"}

Init ==
    /\ file = [p \in Plans |-> 1] /\ readable = TRUE
    /\ ledger = NewLedger(file)
    /\ pc = "top" /\ held = {} /\ batch = {} /\ cur = {} /\ recon = FALSE /\ stop = FALSE
    /\ workers = {} /\ answers = {}
    /\ replies = 0 /\ faults = 0

(***************************************************************************)
(* The process dies: the workers, the answers and the loop are memory.      *)
(***************************************************************************)
Dies ==
    /\ faults < MaxFaults /\ faults' = faults + 1
    /\ pc' = "down" /\ held' = {} /\ batch' = {} /\ cur' = {} /\ recon' = FALSE /\ stop' = FALSE
    /\ workers' = {} /\ answers' = {}
    /\ UNCHANGED <<plan, replies>>

Crash == Alive /\ Dies /\ UNCHANGED ledger

\* A sync_tree, or a pair of writes, that the death of the process cuts short.
TornSync ==
    /\ Alive /\ readable /\ Dies
    /\ \E taken \in WrittenSets : ledger' = Synced(ledger, file, taken)

Sided(L, t, side) == [L EXCEPT !.tasks[t].side = side]
Sync(L) == Synced(L, file, Tasks)

\* resume_all, _launch and repost_blockers: each post may fail.
Restart ==
    /\ pc = "down" /\ pc' = "top"
    /\ \E S \in SUBSET {t \in Tasks : ledger.tasks[t].ask = "open"} :
           ledger' = [ledger EXCEPT !.tasks = [t \in Tasks |->
                         IF t \in S THEN [@[t] EXCEPT !.ask = "posted"] ELSE @[t]]]
    /\ UNCHANGED <<plan, held, batch, cur, recon, stop, workers, answers, counters>>

(***************************************************************************)
(* The plan file: edited by the planner, or left unreadable by an edit or a *)
(* merge, and mended.                                                       *)
(***************************************************************************)
Edit(p) ==
    /\ file[p] < MaxVersion[p] /\ file' = [file EXCEPT ![p] = @ + 1]
    /\ UNCHANGED <<ledger, readable, loop, workers, answers, counters>>

Break ==
    /\ readable /\ faults < MaxFaults /\ readable' = FALSE /\ faults' = faults + 1
    /\ UNCHANGED <<ledger, file, loop, workers, answers, replies>>

Mend ==
    /\ ~ readable /\ readable' = TRUE
    /\ UNCHANGED <<ledger, file, loop, workers, answers, counters>>

(***************************************************************************)
(* The loop.                                                                *)
(***************************************************************************)
\* A plan that cannot be read ends the run as stuck, whatever is in flight.
Top ==
    /\ pc = "top" /\ recon' = TRUE
    /\ IF readable
       THEN /\ ledger' = Sync(ledger)
            /\ pc' = IF recon THEN "ready" ELSE "reconcile"
            /\ held' = held
       ELSE pc' = "halted" /\ held' = {} /\ ledger' = ledger
    /\ UNCHANGED <<plan, batch, cur, stop, workers, answers, counters>>

\* _reconcile_interrupted of the cog, then the loop's: the work of a side copy that is still
\* there is merged, checked and accepted, without a review; an attempt without one, or whose
\* work clashes, is blocked and never restarted.
Salvageable(t) ==
    pc = "reconcile" /\ Is(ledger, t, "running") /\ ledger.tasks[t].side \in {"work", "merged"}

\* Mutant: what was saved is accepted without its combined check.
SalvageUnchecked(t) ==
    /\ Salvageable(t)
    /\ ledger' = Accepted(Submitted(Sided(ledger, t, "gone"), t), t)
    /\ UNCHANGED <<plan, loop, workers, answers, counters>>

Salvage(t) ==
    /\ Salvageable(t)
    /\ ledger' \in {Accepted(Submitted(Sided(ledger, t, "passed"), t), t),
                   Blocked(Submitted(Sided(ledger, t, "gone"), t), t, "work")}
    /\ UNCHANGED <<plan, loop, workers, answers, counters>>

GiveUp(t) ==
    /\ pc = "reconcile" /\ Is(ledger, t, "running")
    /\ ledger' = Blocked(ledger, t, "machinery")
    /\ UNCHANGED <<plan, loop, workers, answers, counters>>

Reconciled ==
    /\ pc = "reconcile" /\ \A t \in Tasks : ~ Is(ledger, t, "running")
    /\ pc' = "ready"
    /\ UNCHANGED <<ledger, plan, held, batch, cur, recon, stop, workers, answers, counters>>

NewWorkers(S) ==
    {[task |-> t, attempt |-> ledger.tasks[t].attempt, stage |-> "begun", result |-> "none"]
        : t \in S}

Start(S) ==
    /\ ledger' = Begun(ledger, S)
    /\ workers' = workers \cup NewWorkers(S)
    /\ held' = held \cup S
    /\ pc' = IF held' # {} THEN "waiting"
             ELSE IF \A t \in Tasks : Is(ledger, t, "accepted") THEN "complete"
             ELSE "halted"

Ready ==
    /\ pc = "ready"
    /\ IF held = {} /\ stop
       THEN pc' = "halted" /\ UNCHANGED <<ledger, workers, held>>
       ELSE \E room \in Parallel, S \in SUBSET Tasks :
                /\ IF stop \/ room <= Cardinality(held) THEN S = {}
                   ELSE IsReady(ledger, held, room - Cardinality(held), S)
                /\ Start(S)
    /\ UNCHANGED <<plan, batch, cur, recon, stop, answers, counters>>

Wait ==
    /\ pc = "waiting" /\ OverTasks # {}
    /\ batch' = OverTasks /\ pc' = "record"
    /\ UNCHANGED <<ledger, plan, held, cur, recon, stop, workers, answers, counters>>

\* _record_manifest_result: what it writes for each result.
AfterSubmit(r, t) ==
    IF r \in {"good", "rejected", "unreviewed"} THEN Submitted(ledger, t) ELSE ledger
Outcome(r, t) ==
    IF r = "good" THEN Accepted(AfterSubmit(r, t), t)
    ELSE Blocked(AfterSubmit(r, t), t,
                 IF r \in {"unreviewed", "cancelled"} THEN "machinery" ELSE "work")


\* Mutant: every finished worker leaves in_flight when the first is recorded.
RecordDropsBatch(w) ==
    /\ pc = "record" /\ w.task \in batch /\ w \in Mine(w.task) /\ w.stage = "over"
    /\ Is(ledger, w.task, "running")
    /\ ledger' = Outcome(w.result, w.task)
    /\ held' = held \ batch /\ batch' = batch \ {w.task} /\ cur' = {w.task}
    /\ workers' = workers \ {w}
    /\ pc' = IF w.result = "good" THEN "hook" ELSE "repair"
    /\ UNCHANGED <<plan, recon, stop, answers, counters>>

\* The attempt still runs: HeldIsCurrent, and submit_result would refuse it otherwise.
Record(w) ==
    /\ pc = "record" /\ w.task \in batch /\ w \in Mine(w.task) /\ w.stage = "over"
    /\ Is(ledger, w.task, "running")
    /\ ledger' = Outcome(w.result, w.task)
    /\ held' = held \ {w.task} /\ batch' = batch \ {w.task} /\ cur' = {w.task}
    /\ workers' = workers \ {w}
    /\ pc' = IF w.result = "good" THEN "hook" ELSE "repair"
    /\ UNCHANGED <<plan, recon, stop, answers, counters>>

\* The submit is on disk, the verdict on it is not.
TornRecord(w) ==
    /\ pc = "record" /\ w.task \in batch /\ w \in Mine(w.task) /\ w.stage = "over"
    /\ Is(ledger, w.task, "running")
    /\ ledger' = AfterSubmit(w.result, w.task)
    /\ Dies

\* After the await that tells the person: one automatic repair of a failure of the work.
Repair(t) ==
    /\ pc = "repair" /\ t \in cur /\ pc' = "hook"
    /\ ledger' = IF ForAPerson(ledger, t) THEN ledger ELSE Repaired(ledger, t)
    /\ UNCHANGED <<plan, held, batch, cur, recon, stop, workers, answers, counters>>

\* Mutant: an unreadable plan stops the loop in its hook.
HookNeedsPlan(t) ==
    /\ pc = "hook" /\ t \in cur /\ readable
    /\ cur' = {} /\ pc' = IF batch = {} THEN "top" ELSE "record"
    /\ ledger' \in IF ForAPerson(ledger, t)
                 THEN {Asked(Sync(ledger), t, ask) : ask \in {"open", "posted"}}
                 ELSE {Sync(ledger)}
    /\ UNCHANGED <<plan, held, batch, recon, stop, workers, answers, counters>>

\* _after_manifest_result: the question of a task that needs a person is opened, then
\* posted, which may fail.  It opens the ledger, and gives up when the plan is unreadable.
Hook(t) ==
    /\ pc = "hook" /\ t \in cur
    /\ cur' = {} /\ pc' = IF batch = {} THEN "top" ELSE "record"
    /\ ledger' \in IF ~ readable THEN {ledger}
                 ELSE IF ForAPerson(ledger, t)
                 THEN {Asked(Sync(ledger), t, ask) : ask \in {"open", "posted"}}
                 ELSE {Sync(ledger)}
    /\ UNCHANGED <<plan, held, batch, recon, stop, workers, answers, counters>>

(***************************************************************************)
(* A worker (_run_manifest_task).  Its attempt is that of its handoff.      *)
(***************************************************************************)
Turned(w, stage, result) == [w EXCEPT !.stage = stage, !.result = result]

\* Nobody collects the result of a worker that the loop has let go.
Move(w, stage, result) ==
    workers' = (workers \ {w}) \cup
        (IF stage = "over" /\ w.task \notin held THEN {} ELSE {Turned(w, stage, result)})

Brief(w) ==
    /\ w \in workers /\ w.stage = "begun"
    /\ IF readable THEN Move(w, "working", "none") /\ ledger' = Sync(ledger)
                   ELSE Move(w, "over", "lost") /\ ledger' = ledger
    /\ UNCHANGED <<plan, loop, answers, counters>>

Commit(w) ==
    /\ w \in workers /\ w.stage = "working" /\ w \in Mine(w.task)
    /\ ledger.tasks[w.task].side = "clean" /\ ledger' = Sided(ledger, w.task, "work")
    /\ UNCHANGED <<plan, loop, workers, answers, counters>>

\* It is not DONE, committed nothing, or its work clashed with the build's copy.
Fail(w) ==
    /\ w \in workers /\ w.stage = "working"
    /\ \E r \in {"lost", "cancelled"} \cap Endings[w.task] : Move(w, "over", r)
    /\ UNCHANGED <<ledger, plan, loop, answers, counters>>

\* Under git_lock: merged, unless it already was, and checked.
MayMerge(w) ==
    /\ w \in workers /\ w.stage = "working"
    /\ w \in Mine(w.task) /\ ledger.tasks[w.task].side = "work"

Merge(w) ==
    /\ MayMerge(w)
    /\ \/ ledger' = Sided(ledger, w.task, "passed") /\ Move(w, "landed", "none")
       \/ /\ "rejected" \in Endings[w.task]
          /\ ledger' = Sided(ledger, w.task, "gone") /\ Move(w, "over", "rejected")
    /\ UNCHANGED <<plan, loop, answers, counters>>

\* The process dies in a merge or a salvage, before the branch is removed or after it.
TornMerge ==
    /\ \E t \in Tasks, side \in {"merged", "gone"} :
           /\ Salvageable(t) \/ \E w \in Mine(t) : MayMerge(w)
           /\ ledger' = Sided(ledger, t, side)
    /\ Dies

\* A review that is required and cannot be had is "unreviewed"; with none, the work is good.
Review(w) ==
    /\ w \in workers /\ w.stage = "landed"
    /\ \E r \in {"good", "rejected", "unreviewed"} \cap Endings[w.task] : Move(w, "over", r)
    /\ UNCHANGED <<ledger, plan, loop, answers, counters>>

(***************************************************************************)
(* The cog around the loop.                                                 *)
(***************************************************************************)
\* stop_for, or the round limit: no new task is started, and the loop ends when nothing is
\* in flight.  It is read at "ready" only, so that a stop before counts from there.
Stop ==
    /\ pc = "ready" /\ ~ stop /\ stop' = TRUE
    /\ UNCHANGED <<ledger, plan, pc, held, batch, cur, recon, workers, answers, counters>>

\* _try_unstick: a stronger AI, or smaller steps, before the person is asked.
Unstick ==
    /\ pc = "halted" /\ ~ stop
    /\ pc' = "top" /\ recon' = FALSE
    /\ UNCHANGED <<ledger, plan, held, batch, cur, stop, workers, answers, counters>>

Park ==
    /\ pc = "halted" /\ pc' = "parked"
    /\ UNCHANGED <<ledger, plan, held, batch, cur, recon, stop, workers, answers, counters>>

Wakes == pc' = "top" /\ recon' = FALSE /\ stop' = FALSE

KeepGoing ==
    /\ pc = "parked" /\ Wakes
    /\ UNCHANGED <<ledger, plan, held, batch, cur, workers, answers, counters>>

\* "close" and "throw it away": the build ends with what it has.
Close ==
    /\ pc = "parked" /\ pc' = "closed"
    /\ UNCHANGED <<ledger, plan, held, batch, cur, recon, stop, workers, answers, counters>>

\* A Discord reply to a posted question: answered once, and only for the attempt it is about.
Reply(t, choice) ==
    /\ pc \notin {"down", "closed", "complete"} /\ readable
    /\ ledger.tasks[t].ask = "posted"
    /\ replies < MaxReplies /\ replies' = replies + 1
    /\ ledger' = [Sync(ledger) EXCEPT !.tasks[t].ask = "resolved"]
    /\ answers' = answers \cup {<<t, choice>>}
    /\ UNCHANGED <<plan, loop, workers, faults>>

\* The task that applies it: "skip" blocks, "retry" and anything else start a new attempt;
\* only a parked build has to be woken.
Answered(L, t, choice) ==
    IF choice = "skip" THEN Blocked(L, t, "skipped") ELSE Retried(L, t)

Apply(a) ==
    /\ Alive /\ a \in answers /\ answers' = answers \ {a}
    /\ IF readable
       THEN /\ ledger' = Answered(Sync(ledger), a[1], a[2])
            /\ IF pc = "parked" THEN Wakes ELSE UNCHANGED <<pc, recon, stop>>
       ELSE UNCHANGED <<ledger, pc, recon, stop>>
    /\ UNCHANGED <<plan, held, batch, cur, workers, counters>>

LoopStep ==
    \/ Top \/ Reconciled \/ Ready \/ Wait
    \/ \E t \in Tasks : Salvage(t) \/ GiveUp(t) \/ Repair(t) \/ Hook(t)
    \/ \E w \in workers : Record(w)
WorkerStep == \E w \in workers : Brief(w) \/ Commit(w) \/ Fail(w) \/ Merge(w) \/ Review(w)
CogStep ==
    \/ Stop \/ Unstick \/ Park \/ KeepGoing \/ Close
    \/ \E t \in Tasks, c \in {"retry", "skip"} : Reply(t, c)
    \/ \E a \in answers : Apply(a)
Fault == Crash \/ TornSync \/ TornMerge \/ Break \/ Mend \/ \E w \in workers : TornRecord(w)

Next == LoopStep \/ WorkerStep \/ CogStep \/ Fault \/ Restart \/ \E p \in Plans : Edit(p)
Spec == Init /\ [][Next]_vars

\* A turn of an agent ends (its session is watched), and the coroutines are scheduled.
Fairness == WF_vars(LoopStep) /\ WF_vars(WorkerStep) /\ WF_vars(Restart)
FairSpec == Spec /\ Fairness

(***************************************************************************)
(* Properties.                                                              *)
(***************************************************************************)
\* What the loop waits for is the attempt of the ledger, and it still runs: no answer, no
\* plan edit and no earlier worker moves an attempt under its worker, so that no result is
\* refused (which would end the build) or recorded for another attempt.
HeldIsCurrent ==
    \A t \in held : Is(ledger, t, "running") /\ \E w \in Mine(t) : TRUE

\* An accepted task is in the build's copy, and its combined check passed, whatever was
\* lost or repeated on the way.
AcceptedLanded ==
    \A t \in Tasks : Is(ledger, t, "accepted") => ledger.tasks[t].side = "passed"

\* Nothing built is discarded: an accepted task is only taken up again because its plan
\* changed, and never blocked or run again as the same attempt.
AcceptedStays ==
    [][\A t \in Tasks : Is(ledger, t, "accepted") =>
          \/ ledger'.tasks[t] = ledger.tasks[t]
          \/ /\ ledger'.versions[PlanOf[t]] # ledger.versions[PlanOf[t]]
             /\ Is(ledger', t, "pending")]_vars

\* An attempt that was begun comes to an end, or its build stands still and says so.
AttemptsEnd ==
    \A t \in Tasks : Is(ledger, t, "running") ~>
        (~ Is(ledger, t, "running") \/ pc \in {"halted", "parked", "closed"})

\* A task "waits for you" (the report after a restart) with a question that can be answered.
BlockedIsAsked ==
    pc = "parked" => \A t \in Tasks :
        Is(ledger, t, "blocked") /\ ledger.tasks[t].why # "skipped"
            => ledger.tasks[t].ask \in {"open", "posted"} \/ answers # {}

\* A build is complete at the plan versions its ledger knows.
CompleteIsCurrent == pc = "complete" => \A t \in Tasks : Current(ledger, t)

\* Tasks that own something in common never run at once, as the ledger has it: whatever is
\* reworked, retried or edited while one of them runs.
RunningApart ==
    \A t, u \in Tasks : t # u /\ Is(ledger, t, "running") /\ Is(ledger, u, "running")
        => {t, u} \notin Clash

\* Nor as their workers have it.
OwnersApart ==
    \A v, w \in workers : v # w /\ v.stage = "working" /\ w.stage = "working"
        => Together(v.task, w.task)
=============================================================================
