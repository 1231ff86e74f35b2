---------------------------- MODULE HandoffLedger ----------------------------
(***************************************************************************)
(* One recipient of trusted handoffs: the SQLite ledger (jobs, attempts,   *)
(* results, outbox) and everything in the process that reads or writes it  *)
(*   - the messages that create jobs, and the reconciliation of on_ready;  *)
(*   - executor passes: the Cog's, one at a time under _run_lock, and the  *)
(*     legacy path's, which take no lock;                                  *)
(*   - worker turns, which report through the result sink;                 *)
(*   - couriers, the outbox passes of a sink and of the delivery loop.     *)
(* A step is what runs between two awaits, with at most one transaction.   *)
(* The process may crash between any two; what it held in memory is lost.  *)
(***************************************************************************)
EXTENDS HandoffState, FiniteSets

CONSTANTS
    Tasks,          \* task ids addressed to this agent
    LegacyPasses,   \* executor passes of execute_ready_handoff_tasks
    Turns,          \* worker turns: bounds how many live at once
    Loops,          \* outbox passes not owned by a sink (delivery_loop, on_ready)
    PassLimit,      \* run_ready(limit): 5
    MaxDeliveries,  \* MAX_DELIVERY_ATTEMPTS: 6
    MaxCrashes,     \* bound of the model on restarts
    MaxReconnects,  \* bound of the model on gateway reconnects
    Faults,         \* which of AllFaults the environment may show
    NoTask          \* the task of a process that has none

\* early:   messages are handled before the first on_ready of the process
\* stop:    a turn ends without ever reaching its result sink
\* spawn:   the turn of a started job cannot be created
\* exhaust: the task's event sequence reaches MAX_SEQUENCE
AllFaults == {"early", "stop", "spawn", "exhaust"}

ASSUME LedgerAssumption ==
    /\ NoTask \notin Tasks
    /\ "cog" \notin LegacyPasses
    /\ Turns \cap Loops = {}
    /\ PassLimit \in Nat \ {0} /\ MaxDeliveries \in Nat \ {0}
    /\ MaxCrashes \in Nat /\ MaxReconnects \in Nat
    /\ Faults \subseteq AllFaults

Passes == {"cog"} \cup LegacyPasses
Couriers == Turns \cup Loops

VARIABLES
    job,        \* handoff_tasks
    attempts,   \* handoff_attempts: "none" is no row, "open" has no finished_at
    result,     \* handoff_results: outcome, or "none"
    outbox,     \* handoff_outbox
    exhausted,  \* tasks for which next_sequence() has nothing left to mint
    late,       \* tasks past their expires_at
    up,         \* is the process running?
    reconciled, \* _restart_reconciled
    recon,      \* the on_ready handler
    due,        \* run_executor calls waiting for _run_lock
    pass,       \* executor passes
    turn,       \* worker turns and their sinks
    courier,    \* outbox passes
    crashes, reconnects,
    sent,       \* history: posts of the result that reached the origin
    begun       \* history: turns begun under an attempt by this process

durable == <<job, attempts, result, outbox, exhausted>>
volatile == <<reconciled, recon, due, pass, turn, courier>>
environment == <<late, up, crashes, reconnects>>
vars == <<durable, volatile, environment, sent, begun>>

Outcomes == {"completed", "failed"}
AttemptStates == {"none", "open", "interrupted", "superseded"} \cup Outcomes

\* A row a handler read, with the clock it read it under.
Snapshot == [task: Tasks, job: Job, late: BOOLEAN]
NoSnap == [task |-> NoTask, job |-> NoJob, late |-> FALSE]
Snap(t) == [task |-> t, job |-> job[t], late |-> t \in late]

IdleRecon == [pc |-> "idle", todo |-> {}, cur |-> NoSnap]
IdlePass == [pc |-> "idle", todo |-> {}, cur |-> NoSnap, started |-> 0]
IdleTurn == [pc |-> "idle", task |-> NoTask, outcome |-> "failed",
             minted |-> FALSE, seen |-> NoJob]
IdleCourier == [pc |-> "idle", todo |-> {}, cur |-> NoTask]

Init ==
    /\ job = [t \in Tasks |-> NoJob]
    /\ attempts = [t \in Tasks |-> [n \in 1..MaxAttempts |-> "none"]]
    /\ result = [t \in Tasks |-> "none"]
    /\ outbox = [t \in Tasks |-> [status |-> "none", tries |-> 0]]
    /\ exhausted = {} /\ late = {}
    /\ up = TRUE /\ reconciled = FALSE
    /\ recon = IdleRecon /\ due = 0
    /\ pass = [p \in Passes |-> IdlePass]
    /\ turn = [w \in Turns |-> IdleTurn]
    /\ courier = [c \in Couriers |-> IdleCourier]
    /\ crashes = 0 /\ reconnects = 0
    /\ sent = [t \in Tasks |-> 0]
    /\ begun = [t \in Tasks |-> [n \in 1..MaxAttempts |-> 0]]

-----------------------------------------------------------------------------
(* The repository: one transaction each.                                   *)

(* A definition named after another with a suffix is that code with one    *)
(* mistake in it; the manifest says which property tells the two apart.    *)

UnmovedUnchecked(t, seen) == TRUE
\* save_transition: a compare-and-set on the state and attempt it was computed from.
Unmoved(t, seen) == job[t].state = seen.state /\ job[t].attempt = seen.attempt
SaveTransition(t, seen, tr, retryable) ==
    job' = IF Unmoved(t, seen) THEN [job EXCEPT ![t] = Apply(seen, tr, retryable)] ELSE job

\* finish_attempt: only an open attempt can be closed.
FinishAttempt(t, n, how) ==
    attempts' = IF attempts[t][n] = "open" THEN [attempts EXCEPT ![t][n] = how] ELSE attempts

\* claim_attempt inserts the row; reclaim_interrupted_attempt re-opens one.
Claimable(t, n) == attempts[t][n] = "none"
Reclaimable(t, n) == attempts[t][n] = "interrupted"
OpenAttempt(t, n) == attempts' = [attempts EXCEPT ![t][n] = "open"]

RecordResultReplaces(t, o) ==
    /\ result' = [result EXCEPT ![t] = o]
    /\ outbox' = [outbox EXCEPT ![t] = [status |-> "pending", tries |-> 0]]

\* record_result: the first result of a task wins, with its outbox row.
RecordResult(t, o) ==
    IF result[t] = "none"
    THEN /\ result' = [result EXCEPT ![t] = o]
         /\ outbox' = [outbox EXCEPT ![t] = [status |-> "pending", tries |-> 0]]
    ELSE UNCHANGED <<result, outbox>>

Pending == {t \in Tasks : outbox[t].status = "pending"}

MarkDelivered(t) ==
    outbox' = IF outbox[t].status = "pending"
              THEN [outbox EXCEPT ![t].status = "delivered"] ELSE outbox

RecordDeliveryFailureUncounted(t) == UNCHANGED outbox

RecordDeliveryFailure(t) ==
    outbox' = IF outbox[t].status # "pending" THEN outbox
              ELSE [outbox EXCEPT ![t] =
                       [status |-> IF @.tries + 1 >= MaxDeliveries THEN "abandoned" ELSE "pending",
                        tries  |-> @.tries + 1]]

-----------------------------------------------------------------------------
(* Messages and on_ready.                                                  *)

\* A new packet's job is stored and the Cog asks for a pass; a redelivery, by
\* Discord or by the sender, stores and starts nothing.
Listening == up /\ (reconciled \/ "early" \in Faults)

Receive(t) ==
    /\ Listening
    /\ job[t] = NoJob
    /\ job' = [job EXCEPT ![t] = AcceptedJob]
    /\ due' = due + 1
    /\ UNCHANGED <<attempts, result, outbox, exhausted, reconciled, recon, pass, turn,
                   courier, environment, sent, begun>>

\* The legacy path runs a pass for every packet it is handed, new or not.
LegacyReceive(p, t) ==
    /\ Listening
    /\ p \in LegacyPasses /\ pass[p].pc = "idle"
    /\ job' = IF job[t] = NoJob THEN [job EXCEPT ![t] = AcceptedJob] ELSE job
    /\ pass' = [pass EXCEPT ![p].pc = "list"]
    /\ UNCHANGED <<attempts, result, outbox, exhausted, reconciled, recon, due, turn,
                   courier, environment, sent, begun>>

\* Questions and answers of the sender move the sequence, never the job.
Exhaust(t) ==
    /\ up /\ "exhaust" \in Faults /\ job[t] # NoJob
    /\ exhausted' = exhausted \cup {t}
    /\ t \notin exhausted
    /\ UNCHANGED <<job, attempts, result, outbox, volatile, environment, sent, begun>>

OnReadyAlwaysRequeues ==
    /\ up /\ recon.pc = "idle"
    /\ reconciled => reconnects < MaxReconnects
    /\ reconnects' = IF reconciled THEN reconnects + 1 ELSE reconnects
    /\ recon' = [IdleRecon EXCEPT !.pc = "requeue",
                    !.todo = {Snap(t) : t \in {u \in Tasks : job[u].state = "running"}}]
    /\ reconciled' = TRUE
    /\ UNCHANGED <<durable, due, pass, turn, courier, late, up, crashes, sent, begun>>

\* on_ready: the first one of a process requeues, every one scans and runs a pass.
OnReady ==
    /\ up /\ recon.pc = "idle"
    /\ IF reconciled
       THEN /\ reconnects < MaxReconnects
            /\ reconnects' = reconnects + 1
            /\ recon' = [recon EXCEPT !.pc = "scan"]
       ELSE /\ UNCHANGED reconnects
            /\ recon' = [IdleRecon EXCEPT !.pc = "requeue",
                            !.todo = {Snap(t) : t \in {u \in Tasks : job[u].state = "running"}}]
    /\ reconciled' = TRUE
    /\ UNCHANGED <<durable, due, pass, turn, courier, late, up, crashes, sent, begun>>

\* requeue_running: each job in two transactions, the row and then its attempt.
Requeue(s) ==
    /\ recon.pc = "requeue" /\ s \in recon.todo
    /\ SaveTransition(s.task, s.job, "restart_reconcile", FALSE)
    /\ recon' = [pc |-> IF Unmoved(s.task, s.job) THEN "interrupt" ELSE "requeue",
                 todo |-> recon.todo \ {s},
                 cur |-> IF Unmoved(s.task, s.job) THEN s ELSE NoSnap]
    /\ UNCHANGED <<attempts, result, outbox, exhausted, reconciled, due, pass, turn,
                   courier, environment, sent, begun>>

Interrupt ==
    /\ recon.pc = "interrupt"
    /\ FinishAttempt(recon.cur.task, recon.cur.job.attempt, "interrupted")
    /\ recon' = [recon EXCEPT !.pc = "requeue", !.cur = NoSnap]
    /\ UNCHANGED <<job, result, outbox, exhausted, reconciled, due, pass, turn,
                   courier, environment, sent, begun>>

RequeueDone ==
    /\ recon.pc = "requeue" /\ recon.todo = {}
    /\ recon' = [recon EXCEPT !.pc = "scan"]
    /\ UNCHANGED <<durable, reconciled, due, pass, turn, courier, environment, sent, begun>>

\* A starter posted while this agent was away is stored; nothing runs yet.
Discover(t) ==
    /\ recon.pc = "scan" /\ job[t] = NoJob
    /\ job' = [job EXCEPT ![t] = AcceptedJob]
    /\ UNCHANGED <<attempts, result, outbox, exhausted, volatile, environment, sent, begun>>

ScanDone ==
    /\ recon.pc = "scan"
    /\ recon' = IdleRecon
    /\ due' = due + 1
    /\ UNCHANGED <<durable, reconciled, pass, turn, courier, environment, sent, begun>>

-----------------------------------------------------------------------------
(* An executor pass: run_ready and _execute.                               *)

Goto(p, pc) == pass' = [pass EXCEPT ![p].pc = pc]
Finished(p) == pass' = [pass EXCEPT ![p].pc = "next", ![p].cur = NoSnap]

Startable == {t \in Tasks : job[t].state \in {"accepted", "queued"}}

\* The rows of the whole pass are read once, here; ORDER BY is abstracted to any order.
PassBegin(p) ==
    /\ \/ pass[p].pc = "list" /\ UNCHANGED due
       \/ p = "cog" /\ pass[p].pc = "idle" /\ up /\ due > 0 /\ due' = due - 1
    /\ pass' = [pass EXCEPT ![p] = [pc |-> "next", todo |-> {Snap(t) : t \in Startable},
                                    cur |-> NoSnap, started |-> 0]]
    /\ UNCHANGED <<durable, reconciled, recon, turn, courier, environment, sent, begun>>

PassEnd(p) ==
    /\ pass[p].pc = "next"
    /\ pass[p].todo = {} \/ pass[p].started >= PassLimit
    /\ pass' = [pass EXCEPT ![p] = IdlePass]
    /\ UNCHANGED <<durable, reconciled, recon, due, turn, courier, environment, sent, begun>>

Takes(p, s) == pass[p].pc = "next" /\ s \in pass[p].todo /\ pass[p].started < PassLimit
Drop(p, s) == pass' = [pass EXCEPT ![p].todo = @ \ {s}]

\* The decisions that start nothing.  Authority and the project folder may
\* refuse any task; the row moves unless it changed since it was read.
PassSkips(p, s) ==
    /\ Takes(p, s)
    /\ Drop(p, s)
    /\ \/ s.late /\ SaveTransition(s.task, s.job, "expire", FALSE)
       \/ ~s.late /\ SaveTransition(s.task, s.job, "block", FALSE)
       \/ /\ ~s.late
          /\ IF s.job.state = "queued" /\ s.job.waiting THEN UNCHANGED job
             ELSE SaveTransition(s.task, s.job, "capacity_wait", FALSE)
    /\ UNCHANGED <<attempts, result, outbox, exhausted, reconciled, recon, due, turn,
                   courier, environment, sent, begun>>

PassClaim(p, s) ==
    /\ Takes(p, s) /\ ~s.late
    /\ LET n == s.job.attempt IN
       /\ IF Claimable(s.task, n) THEN OpenAttempt(s.task, n) ELSE UNCHANGED attempts
       /\ pass' = [pass EXCEPT ![p].pc = IF Claimable(s.task, n) THEN "start" ELSE "reclaim",
                               ![p].todo = @ \ {s}, ![p].cur = s]
    /\ UNCHANGED <<job, result, outbox, exhausted, reconciled, recon, due, turn,
                   courier, environment, sent, begun>>

PassReclaim(p) ==
    LET s == pass[p].cur IN
    /\ pass[p].pc = "reclaim"
    /\ IF Reclaimable(s.task, s.job.attempt)
       THEN OpenAttempt(s.task, s.job.attempt) /\ Goto(p, "start")
       ELSE UNCHANGED attempts /\ Finished(p)
    /\ UNCHANGED <<job, result, outbox, exhausted, reconciled, recon, due, turn,
                   courier, environment, sent, begun>>

PassStart(p) ==
    LET s == pass[p].cur IN
    /\ pass[p].pc = "start"
    /\ SaveTransition(s.task, s.job, "start", FALSE)
    /\ pass' = IF Unmoved(s.task, s.job)
               THEN [pass EXCEPT ![p].pc = "spawn", ![p].cur.job = Apply(s.job, "start", FALSE)]
               ELSE [pass EXCEPT ![p].pc = "supersede"]
    /\ UNCHANGED <<attempts, result, outbox, exhausted, reconciled, recon, due, turn,
                   courier, environment, sent, begun>>

PassSupersede(p) ==
    /\ pass[p].pc = "supersede"
    /\ FinishAttempt(pass[p].cur.task, pass[p].cur.job.attempt, "superseded")
    /\ Finished(p)
    /\ UNCHANGED <<job, result, outbox, exhausted, reconciled, recon, due, turn,
                   courier, environment, sent, begun>>

\* The adapter: a turn is created and the pass goes on without waiting for it.
PassSpawn(p, w) ==
    LET s == pass[p].cur IN
    /\ pass[p].pc = "spawn"
    /\ turn[w].pc = "idle" /\ courier[w].pc = "idle"
    /\ turn' = [turn EXCEPT ![w] = [IdleTurn EXCEPT !.pc = "running", !.task = s.task]]
    /\ begun' = [begun EXCEPT ![s.task][s.job.attempt] = @ + 1]
    /\ pass' = [pass EXCEPT ![p].pc = "next", ![p].cur = NoSnap, ![p].started = @ + 1]
    /\ UNCHANGED <<durable, reconciled, recon, due, courier, environment, sent>>

\* _fail_attempt: close the attempt, fail the job, requeue a bounded retry.
PassSpawnFails(p) ==
    /\ pass[p].pc = "spawn" /\ "spawn" \in Faults
    /\ Goto(p, "close")
    /\ UNCHANGED <<durable, reconciled, recon, due, turn, courier, environment, sent, begun>>

PassCloseForgets(p) ==
    /\ pass[p].pc = "close"
    /\ Goto(p, "fail")
    /\ UNCHANGED <<durable, reconciled, recon, due, turn, courier, environment, sent, begun>>

PassClose(p) ==
    /\ pass[p].pc = "close"
    /\ FinishAttempt(pass[p].cur.task, pass[p].cur.job.attempt, "failed")
    /\ Goto(p, "fail")
    /\ UNCHANGED <<job, result, outbox, exhausted, reconciled, recon, due, turn,
                   courier, environment, sent, begun>>

PassFail(p) ==
    LET s == pass[p].cur
        failed == Apply(s.job, "fail", TRUE) IN
    /\ pass[p].pc = "fail"
    /\ SaveTransition(s.task, s.job, "fail", TRUE)
    /\ IF Unmoved(s.task, s.job) /\ CanRetry(failed)
       THEN pass' = [pass EXCEPT ![p].pc = "retry", ![p].cur.job = failed]
       ELSE Finished(p)
    /\ UNCHANGED <<attempts, result, outbox, exhausted, reconciled, recon, due, turn,
                   courier, environment, sent, begun>>

PassRetry(p) ==
    /\ pass[p].pc = "retry"
    /\ SaveTransition(pass[p].cur.task, pass[p].cur.job, "retry", FALSE)
    /\ Finished(p)
    /\ UNCHANGED <<attempts, result, outbox, exhausted, reconciled, recon, due, turn,
                   courier, environment, sent, begun>>

-----------------------------------------------------------------------------
(* A worker turn and its result sink: record_and_deliver_handoff_result.   *)

TurnTo(w, pc) == turn' = [turn EXCEPT ![w].pc = pc]

TurnEnds(w, o) ==
    /\ turn[w].pc = "running"
    /\ turn' = [turn EXCEPT ![w].pc = "record", ![w].outcome = o]
    /\ UNCHANGED <<durable, reconciled, recon, due, pass, courier, environment, sent, begun>>

\* Stop cancels a turn that still waits for capacity, or the turn's setup raises:
\* the sink of the job is never called.
TurnStopped(w) ==
    /\ turn[w].pc = "running" /\ "stop" \in Faults
    /\ turn' = [turn EXCEPT ![w] = IdleTurn]
    /\ UNCHANGED <<durable, reconciled, recon, due, pass, courier, environment, sent, begun>>

\* The sink is over; what remains is its outbox pass.
ThenDeliver(w) ==
    /\ turn' = [turn EXCEPT ![w] = IdleTurn]
    /\ courier' = [courier EXCEPT ![w].pc = "due"]

RecordAndFinish(w) ==
    LET t == turn[w].task IN
    /\ turn[w].pc = "record"
    /\ RecordResult(t, turn[w].outcome)
    /\ turn' = [turn EXCEPT ![w].pc = "read", ![w].minted = TRUE]
    /\ UNCHANGED <<job, attempts, exhausted, reconciled, recon, due, pass, courier,
                   environment, sent, begun>>

\* With no sequence left the job is failed with no result; a second result of
\* a task leaves the job alone.
Record(w) ==
    LET t == turn[w].task IN
    /\ turn[w].pc = "record"
    /\ IF t \in exhausted
       THEN /\ turn' = [turn EXCEPT ![w].pc = "read", ![w].outcome = "failed"]
            /\ UNCHANGED <<result, outbox, courier>>
       ELSE /\ RecordResult(t, turn[w].outcome)
            /\ IF result[t] = "none"
               THEN /\ turn' = [turn EXCEPT ![w].pc = "read", ![w].minted = TRUE]
                    /\ UNCHANGED courier
               ELSE ThenDeliver(w)
    /\ UNCHANGED <<job, attempts, exhausted, reconciled, recon, due, pass, environment,
                   sent, begun>>

\* _finish_job: read the row, close its attempt, move it.
ReadJob(w) ==
    /\ turn[w].pc = "read"
    /\ turn' = [turn EXCEPT ![w].pc = "close", ![w].seen = job[turn[w].task]]
    /\ UNCHANGED <<durable, reconciled, recon, due, pass, courier, environment, sent, begun>>

CloseAttempt(w) ==
    /\ turn[w].pc = "close"
    /\ FinishAttempt(turn[w].task, turn[w].seen.attempt, turn[w].outcome)
    /\ TurnTo(w, "save")
    /\ UNCHANGED <<job, result, outbox, exhausted, reconciled, recon, due, pass, courier,
                   environment, sent, begun>>

\* apply() raises on a row that is not running any more: the sink stops there.
SaveFinal(w) ==
    LET t == turn[w].task
        tr == IF turn[w].outcome = "failed" THEN "fail" ELSE "complete"
        legal == Legal(turn[w].seen, tr) IN
    /\ turn[w].pc = "save"
    /\ IF legal THEN SaveTransition(t, turn[w].seen, tr, FALSE) ELSE UNCHANGED job
    /\ IF legal /\ turn[w].minted
       THEN ThenDeliver(w)
       ELSE turn' = [turn EXCEPT ![w] = IdleTurn] /\ UNCHANGED courier
    /\ UNCHANGED <<attempts, result, outbox, exhausted, reconciled, recon, due, pass,
                   environment, sent, begun>>

-----------------------------------------------------------------------------
(* An outbox pass: deliver_pending_handoff_results.  The rows are read     *)
(* once; a post and the row that remembers it are two steps.  Backoff is   *)
(* abstracted: a pending row may always have fallen due.                   *)

LoopTick(c) ==
    /\ c \in Loops /\ up /\ reconciled
    /\ courier[c].pc = "idle"
    /\ courier' = [courier EXCEPT ![c].pc = "due"]
    /\ UNCHANGED <<durable, reconciled, recon, due, pass, turn, environment, sent, begun>>

Fetch(c) ==
    /\ courier[c].pc = "due"
    /\ courier' = [courier EXCEPT ![c].pc = "send", ![c].todo = Pending]
    /\ UNCHANGED <<durable, reconciled, recon, due, pass, turn, environment, sent, begun>>

CourierDone(c) ==
    /\ courier[c].pc = "send" /\ courier[c].todo = {}
    /\ courier' = [courier EXCEPT ![c] = IdleCourier]
    /\ UNCHANGED <<durable, reconciled, recon, due, pass, turn, environment, sent, begun>>

SendThenMark(c, t, arrives, raises) ==
    /\ courier[c].pc = "send" /\ t \in courier[c].todo
    /\ sent' = IF arrives THEN [sent EXCEPT ![t] = @ + 1] ELSE sent
    /\ courier' = [courier EXCEPT ![c] = [pc |-> "mark", todo |-> @.todo \ {t}, cur |-> t]]
    /\ UNCHANGED <<durable, reconciled, recon, due, pass, turn, environment, begun>>

\* The post reaches the origin or not, and the call returns or raises: a post
\* that arrived may still raise.
Send(c, t, arrives, raises) ==
    /\ courier[c].pc = "send" /\ t \in courier[c].todo
    /\ arrives \/ raises
    /\ sent' = IF arrives THEN [sent EXCEPT ![t] = @ + 1] ELSE sent
    /\ courier' = [courier EXCEPT ![c] = [pc |-> IF raises THEN "fail" ELSE "mark",
                                          todo |-> @.todo \ {t}, cur |-> t]]
    /\ UNCHANGED <<durable, reconciled, recon, due, pass, turn, environment, begun>>

Mark(c) ==
    /\ courier[c].pc = "mark"
    /\ MarkDelivered(courier[c].cur)
    /\ courier' = [courier EXCEPT ![c].pc = "send", ![c].cur = NoTask]
    /\ UNCHANGED <<job, attempts, result, exhausted, reconciled, recon, due, pass, turn,
                   environment, sent, begun>>

Refused(c) ==
    /\ courier[c].pc = "fail"
    /\ RecordDeliveryFailure(courier[c].cur)
    /\ courier' = [courier EXCEPT ![c].pc = "send", ![c].cur = NoTask]
    /\ UNCHANGED <<job, attempts, result, exhausted, reconciled, recon, due, pass, turn,
                   environment, sent, begun>>

-----------------------------------------------------------------------------
(* Time and failure.                                                       *)

Expire(t) ==
    /\ job[t] # NoJob /\ t \notin late
    /\ late' = late \cup {t}
    /\ UNCHANGED <<durable, volatile, up, crashes, reconnects, sent, begun>>

Crash ==
    /\ up /\ crashes < MaxCrashes
    /\ up' = FALSE /\ crashes' = crashes + 1
    /\ reconciled' = FALSE /\ recon' = IdleRecon /\ due' = 0
    /\ pass' = [p \in Passes |-> IdlePass]
    /\ turn' = [w \in Turns |-> IdleTurn]
    /\ courier' = [c \in Couriers |-> IdleCourier]
    /\ begun' = [t \in Tasks |-> [n \in 1..MaxAttempts |-> 0]]
    /\ UNCHANGED <<durable, late, reconnects, sent>>

Boot ==
    /\ ~up /\ up' = TRUE
    /\ UNCHANGED <<durable, volatile, late, crashes, reconnects, sent, begun>>

-----------------------------------------------------------------------------
OnReadyStep ==
    \/ \E s \in recon.todo : Requeue(s)
    \/ Interrupt
    \/ RequeueDone
    \/ ScanDone

PassStep(p) ==
    \/ PassBegin(p)
    \/ PassEnd(p)
    \/ \E s \in pass[p].todo : PassSkips(p, s) \/ PassClaim(p, s)
    \/ PassReclaim(p)
    \/ PassStart(p)
    \/ PassSupersede(p)
    \/ \E w \in Turns : PassSpawn(p, w)
    \/ PassSpawnFails(p)
    \/ PassClose(p)
    \/ PassFail(p)
    \/ PassRetry(p)

TurnStep(w) ==
    \/ \E o \in Outcomes : TurnEnds(w, o)
    \/ TurnStopped(w)
    \/ Record(w)
    \/ ReadJob(w)
    \/ CloseAttempt(w)
    \/ SaveFinal(w)

CourierStep(c) ==
    \/ LoopTick(c)
    \/ Fetch(c)
    \/ CourierDone(c)
    \/ \E t \in courier[c].todo, arrives, raises \in BOOLEAN : Send(c, t, arrives, raises)
    \/ Mark(c)
    \/ Refused(c)

TaskStep(t) ==
    \/ Receive(t)
    \/ \E p \in LegacyPasses : LegacyReceive(p, t)
    \/ Discover(t)
    \/ Exhaust(t)
    \/ Expire(t)

Next ==
    \/ \E t \in Tasks : TaskStep(t)
    \/ OnReady
    \/ OnReadyStep
    \/ \E p \in Passes : PassStep(p)
    \/ \E w \in Turns : TurnStep(w)
    \/ \E c \in Couriers : CourierStep(c)
    \/ Crash
    \/ Boot

Spec == Init /\ [][Next]_vars

\* What the scheduler owes: a coroutine that can run is run, a turn ends, the
\* loop ticks, the service manager restarts the process.  Nothing owes a
\* packet, a reconnect, an expiry or a crash.
Fairness ==
    /\ WF_vars(Boot)
    /\ WF_vars(OnReady /\ ~reconciled)
    /\ WF_vars(OnReadyStep)
    /\ \A p \in Passes : WF_vars(PassStep(p))
    /\ \A w \in Turns : WF_vars(TurnStep(w))
    /\ \A c \in Couriers : WF_vars(CourierStep(c))

FairSpec == Spec /\ Fairness

-----------------------------------------------------------------------------
(* Properties.                                                             *)

ReconType == [pc: {"idle", "requeue", "interrupt", "scan"}, todo: SUBSET Snapshot,
              cur: Snapshot \cup {NoSnap}]
PassType == [pc: {"idle", "list", "next", "reclaim", "start", "supersede", "spawn",
                  "close", "fail", "retry"},
             todo: SUBSET Snapshot, cur: Snapshot \cup {NoSnap}, started: Nat]
TurnType == [pc: {"idle", "running", "record", "read", "close", "save"},
             task: Tasks \cup {NoTask}, outcome: Outcomes, minted: BOOLEAN, seen: Job]
CourierType == [pc: {"idle", "due", "send", "mark", "fail"}, todo: SUBSET Tasks,
                cur: Tasks \cup {NoTask}]

LedgerOK ==
    /\ job \in [Tasks -> Job]
    /\ attempts \in [Tasks -> [1..MaxAttempts -> AttemptStates]]
    /\ result \in [Tasks -> Outcomes \cup {"none"}]
    /\ outbox \in [Tasks -> [status: {"none", "pending", "delivered", "abandoned"}, tries: Nat]]
    /\ exhausted \in SUBSET Tasks

ReconOK ==
    /\ reconciled \in BOOLEAN /\ due \in Nat /\ recon \in ReconType
    /\ recon.pc = "interrupt" => recon.cur \in Snapshot

PassOK ==
    /\ pass \in [Passes -> PassType]
    /\ \A p \in Passes : pass[p].pc \notin {"idle", "list", "next"} => pass[p].cur \in Snapshot

TurnOK ==
    /\ turn \in [Turns -> TurnType]
    /\ \A w \in Turns : turn[w].pc # "idle" => turn[w].task \in Tasks

CourierOK ==
    /\ courier \in [Couriers -> CourierType]
    /\ \A c \in Couriers : courier[c].pc \in {"mark", "fail"} => courier[c].cur \in Tasks

WorldOK ==
    /\ up \in BOOLEAN /\ late \in SUBSET Tasks
    /\ crashes \in 0..MaxCrashes /\ reconnects \in 0..MaxReconnects
    /\ sent \in [Tasks -> Nat]
    /\ begun \in [Tasks -> [1..MaxAttempts -> Nat]]

\* Every variable has its type, and a process with something in hand has a task:
\* the rows every handler reads back are rows HandoffJob would accept.
TypeOK == LedgerOK /\ ReconOK /\ PassOK /\ TurnOK /\ CourierOK /\ WorldOK

\* A job the ledger calls completed has a recorded answer, and it is "completed":
\* _finish_job moves the row only after record_result, whatever crashes between
\* them and whichever turns raced for the result.
CompletedIsRecorded ==
    \A t \in Tasks : job[t].state = "completed" => result[t] = "completed"

\* A row marked delivered reached the origin at least once (mark_delivered is
\* only reached behind a send that returned), across couriers and crashes.
DeliveredWasSent ==
    \A t \in Tasks : outbox[t].status = "delivered" => sent[t] > 0

\* One answer per task, owed from the step that decides it until it is told or
\* given up: the ledger implements HandoffPromise (record_result's one transaction).
Promise == INSTANCE HandoffPromise
             WITH answer <- result, debt <- [t \in Tasks |-> outbox[t].status]
KeepsPromise == Promise!Spec

\* Terminal rows are immutable but for a safe retry of a failure marked
\* retryable, which queues the next attempt (state.py's third rule), however
\* stale the snapshot a writer computed its transition from.
TerminalStays ==
    [][\A t \in Tasks : job[t].state \in TerminalStates =>
          \/ job'[t] = job[t]
          \/ CanRetry(job[t]) /\ job'[t] = Apply(job[t], "retry", FALSE)]_vars

\* A closed attempt never runs again unless a restart interrupted it.
ClosedAttemptStays ==
    [][\A t \in Tasks, n \in 1..MaxAttempts :
          attempts[t][n] \in Outcomes \cup {"superseded"} => attempts'[t][n] = attempts[t][n]]_vars

\* No attempt the job has not reached was claimed, and none it left is still open.
AttemptsFollowJob ==
    \A t \in Tasks, n \in 1..MaxAttempts :
        /\ n > job[t].attempt => attempts[t][n] = "none"
        /\ n < job[t].attempt => attempts[t][n] \notin {"none", "open"}

\* claim_attempt's promise: "an executor that reads queued twice still runs the
\* work once".  In one process no attempt begins two turns, and no task has two.
RunsOnce ==
    /\ \A t \in Tasks, n \in 1..MaxAttempts : begun[t][n] <= 1
    /\ \A v, w \in Turns : v # w /\ turn[v].pc = "running" /\ turn[w].pc = "running"
                             => turn[v].task # turn[w].task

\* A recorded answer is told to the origin or given up at the retry bound.
AnswersSettle ==
    \A t \in Tasks : result[t] # "none" ~> outbox[t].status \in {"delivered", "abandoned"}

-----------------------------------------------------------------------------
(* What the comments and the specification of the repository say and the   *)
(* code does not do.  TLC refutes each; a run shows the first.             *)

Quiet ==
    /\ up /\ reconciled /\ recon.pc = "idle" /\ due = 0
    /\ \A p \in Passes : pass[p].pc = "idle"
    /\ \A w \in Turns : turn[w].pc = "idle"

\* Startup reconciliation leaves every unstarted job with an attempt that a
\* pass can claim.
UnstartedIsClaimable ==
    Quiet => \A t \in Startable : Claimable(t, job[t].attempt) \/ Reclaimable(t, job[t].attempt)

\* A job never sits at running with nothing running.
RunningHasTurn ==
    Quiet => \A t \in Tasks : job[t].state # "running"

\* A task whose execution ended in failure for good has an answer for the origin.
FailureIsTold ==
    Quiet => \A t \in Tasks : job[t].state = "failed" /\ ~CanRetry(job[t])
                                => outbox[t].status # "none"

\* A task with a recorded result is never run again.
AnsweredIsNotRerun ==
    \A w \in Turns : turn[w].pc = "running" => result[turn[w].task] = "none"
=============================================================================
