------------------------------ MODULE ThreadSlot ------------------------------
(***************************************************************************)
(* One thread of the chat cog: the turns that want its run slot            *)
(* (claude_chat.py, _run_claude), the session row that /close, a finishing *)
(* turn, the start and Sessions > Open move (session_lifecycle.py), and    *)
(* the resume row that a shutdown leaves (resume_repo.py).  Everything     *)
(* here interleaves at its awaits.                                         *)
(***************************************************************************)
EXTENDS Integers, Sequences, SequencesExt

CONSTANTS
    Turns,          \* coroutines that run _run_claude, one message after another
    Builds,         \* those whose task is a build's, which runs turn after turn
    None, Ghost,    \* no entry; the entry of a turn that is over
    MaxRestarts     \* bound of the model

ASSUME ThreadAssumption ==
    /\ None \notin Turns /\ Ghost \notin Turns /\ None # Ghost /\ Builds \subseteq Turns
    /\ MaxRestarts \in Nat

VARIABLES
    lock,       \* _thread_locks: its waiters in order, the holder first
    runner,     \* _active_runners, by the turn whose runner it is
    task,       \* _active_tasks
    pc,         \* where each turn's coroutine stands
    cut,        \* turns whose entry somebody else popped, or took for a turn so cut
    awaited,    \* the turn whose task the lock's holder awaits
    row,        \* lifecycle_state of the session row
    call,       \* where each lifecycle call stands, by caller
    resume,     \* the row of pending_resumes
    ready,      \* where on_ready stands
    owed,       \* history: resumes marked and not spawned yet
    restarts

slot == <<lock, runner, task, pc, cut, awaited>>
session == <<row, call>>
boot == <<resume, ready, owed, restarts>>
vars == <<slot, session, boot>>

Callers == Turns \cup {"close", "reopen", "clear", "ready"}

\* Phase 2 of _run_claude: registered, outside the lock, not popped yet.
Live == {"attempt", "capacity", "run", "ending"}
To(t, p) == pc' = [pc EXCEPT ![t] = p]
\* t's task is done: whoever awaits it goes on, and an entry of it is dead.
Done(t) ==
    /\ To(t, "idle")
    /\ awaited' = IF awaited = t THEN None ELSE awaited
    /\ task' = IF task = t THEN Ghost ELSE task
\* The turn is over, and with it its task, but for a build's, which may go on.
TurnOver(t) == Done(t) \/ (t \in Builds /\ To(t, "between") /\ UNCHANGED <<awaited, task>>)
Holds(t) == lock # <<>> /\ Head(lock) = t

-----------------------------------------------------------------------------
(* The turn.                                                               *)

ArriveRegisters(t) ==
    /\ pc[t] = "idle" /\ ready # "down"
    /\ To(t, "lock") /\ lock' = Append(lock, t) /\ task' = t
    /\ UNCHANGED <<runner, awaited, cut, session, boot>>

Arrive(t) ==
    /\ pc[t] = "idle" /\ ready # "down"
    /\ To(t, "lock") /\ lock' = Append(lock, t)
    /\ UNCHANGED <<runner, task, awaited, cut, session, boot>>

EvictNoWait(t) ==
    /\ pc[t] = "lock" /\ Holds(t)
    /\ To(t, "prepare")
    /\ UNCHANGED <<lock, runner, task, awaited, cut, session, boot>>

\* _evict_active_run: wait for the task of the run in the slot, interrupted or not,
\* to be done; it may be the caller's own.
Evict(t) ==
    /\ pc[t] = "lock" /\ Holds(t)
    /\ IF runner # None /\ task \in Turns \ {t}
       THEN awaited' = task /\ To(t, "await")
       ELSE UNCHANGED awaited /\ To(t, "prepare")
    /\ UNCHANGED <<lock, runner, task, cut, session, boot>>

Awaited(t) ==
    /\ pc[t] = "await" /\ awaited = None
    /\ To(t, "prepare")
    /\ UNCHANGED <<lock, runner, task, awaited, cut, session, boot>>

\* Whoever waits for the lock or in it goes, and lets go of the turn it awaits.
Leaves(t) ==
    /\ pc[t] \in {"lock", "await"} /\ To(t, "idle")
    /\ awaited' = IF pc[t] = "await" \/ awaited = t THEN None ELSE awaited
    /\ task' = IF task = t THEN Ghost ELSE task
    /\ UNCHANGED <<runner, cut, session, boot>>

CancelWaitingStays(t) == Leaves(t) /\ UNCHANGED lock

\* A waiting reply is cancelled: the shield leaves the current turn alone.
CancelWaiting(t) ==
    /\ Leaves(t)
    /\ \E i \in DOMAIN lock : lock[i] = t /\ lock' = RemoveAt(lock, i)

\* The runner is built and becomes the thread's one active run.
Register(t) ==
    /\ pc[t] = "prepare"
    /\ runner' = t /\ task' = t
    /\ To(t, "announce")
    /\ UNCHANGED <<lock, awaited, cut, session, boot>>

\* Something before the registration raises: the lock is released.
PrepareFails(t) ==
    /\ pc[t] = "prepare"
    /\ lock' = Tail(lock) /\ TurnOver(t)
    /\ UNCHANGED <<runner, cut, session, boot>>

AnnounceKeepsLock(t) ==
    /\ pc[t] = "announce"
    /\ To(t, "attempt")
    /\ UNCHANGED <<lock, runner, task, awaited, cut, session, boot>>

\* "Preparing session" is posted (not in chat_only), and the lock released.
Announce(t) ==
    /\ pc[t] = "announce"
    /\ lock' = Tail(lock) /\ To(t, "attempt")
    /\ UNCHANGED <<runner, task, awaited, cut, session, boot>>

\* That post raises, outside the try: the entries outlive the turn.
AnnounceFails(t) ==
    /\ pc[t] = "announce"
    /\ lock' = Tail(lock) /\ TurnOver(t) /\ cut' = cut \ {t}
    /\ runner' = IF runner = t THEN Ghost ELSE runner
    /\ UNCHANGED <<session, boot>>

\* _run_one_attempt: on_runner_changed makes the attempt's runner the thread's,
\* whosever entry stands there.
Attempt(t) ==
    /\ pc[t] = "attempt"
    /\ runner' = t /\ cut' = cut \cup ((Turns \cap {runner}) \ {t})
    /\ To(t, "capacity")
    /\ UNCHANGED <<lock, task, awaited, session, boot>>

\* Admitted: the subprocess runs, and the first run of a thread saves its row.
Run(t) ==
    /\ pc[t] = "capacity"
    /\ To(t, "run")
    /\ row' = IF row = "none" THEN "open" ELSE row
    /\ UNCHANGED <<lock, runner, task, awaited, cut, call, boot>>

\* Stop cancels a turn that still waits for capacity.
Stop(t) ==
    /\ pc[t] = "capacity" /\ To(t, "ending")
    /\ UNCHANGED <<lock, runner, task, awaited, cut, session, boot>>

\* The run ends by itself, on its timeout, or because it was interrupted.
RunEnds(t) ==
    /\ pc[t] = "run" /\ To(t, "ending")
    /\ UNCHANGED <<lock, runner, task, awaited, cut, session, boot>>

\* The run is over and the turn is not: the model had no room, the conversation was
\* compacted, or a question was answered.
Retry(t) ==
    /\ pc[t] = "run" /\ To(t, "attempt")
    /\ UNCHANGED <<lock, runner, task, awaited, cut, session, boot>>

Mine(entry, t) == IF entry = t THEN None ELSE entry

PopLate(t) ==
    /\ pc[t] = "ending" /\ To(t, "settle")
    /\ call' = [call EXCEPT ![t] = "complete"]
    /\ UNCHANGED <<lock, runner, task, awaited, cut, row, boot>>

\* The finally of _run_claude clears its own entries and no others; then
\* _finish_turn completes the close asked for during this turn.
Pop(t) ==
    /\ pc[t] = "ending"
    /\ runner' = Mine(runner, t) /\ task' = Mine(task, t)
    /\ To(t, "settle") /\ cut' = cut \ {t}
    /\ call' = [call EXCEPT ![t] = "complete"]
    /\ UNCHANGED <<lock, awaited, row, boot>>

TurnDone(t) ==
    /\ pc[t] = "settle" /\ call[t] = "none"
    /\ TurnOver(t)
    /\ UNCHANGED <<lock, runner, cut, session, boot>>

\* A build's task runs its next turn in the thread...
NextTurn(t) ==
    /\ pc[t] = "between"
    /\ To(t, "lock") /\ lock' = Append(lock, t)
    /\ UNCHANGED <<runner, task, awaited, cut, session, boot>>

\* ...or is over.
BuildOver(t) ==
    /\ pc[t] = "between" /\ Done(t)
    /\ UNCHANGED <<lock, runner, cut, session, boot>>

-----------------------------------------------------------------------------
(* The lifecycle service.  Each step ends at an await.                     *)

Returns(p) == call' = [call EXCEPT ![p] = "none"]
Goes(p, step) == call' = [call EXCEPT ![p] = step]

\* close() and reopen() are asked for by a person.
Ask(p) ==
    /\ p \in {"close", "reopen"} /\ call[p] = "none" /\ ready # "down"
    /\ Goes(p, p)
    /\ UNCHANGED <<slot, row, boot>>

\* close(): an existing, unclosed session gets the durable request.
Close ==
    /\ call["close"] = "close"
    /\ IF row \in {"none", "closed"} THEN Returns("close") ELSE Goes("close", "request")
    /\ UNCHANGED <<slot, row, boot>>

RequestClose ==
    /\ call["close"] = "request"
    /\ row' = IF row = "open" THEN "closing" ELSE row
    /\ Goes("close", "active")
    /\ UNCHANGED <<slot, boot>>

\* complete_pending_close(): only what was requested and not finished.
Complete(p) ==
    /\ call[p] = "complete"
    /\ IF row = "closing" THEN Goes(p, "active") ELSE Returns(p)
    /\ UNCHANGED <<slot, row, boot>>

\* A session with a registered turn stays pending.
CheckActive(p) ==
    /\ call[p] = "active"
    /\ IF runner # None THEN Returns(p) ELSE Goes(p, "mark")
    /\ UNCHANGED <<slot, row, boot>>

\* _finalize: whatever is not closed is marked closed (and the thread archived).
MarkClosed(p) ==
    /\ call[p] = "mark"
    /\ row' = IF row = "none" THEN row ELSE "closed"
    /\ Returns(p)
    /\ UNCHANGED <<slot, boot>>

\* reopen(): open_session calls it for a session it saw closed.
Reopen ==
    /\ call["reopen"] = "reopen"
    /\ IF row = "closed" THEN Goes("reopen", "write") ELSE Returns("reopen")
    /\ UNCHANGED <<slot, row, boot>>

Reopened ==
    /\ call["reopen"] = "write"
    /\ row' = "open" /\ Returns("reopen")
    /\ UNCHANGED <<slot, boot>>

\* /clear, a rewind and close_session take the entry of the run out of the table
\* and kill its process, if it has one; then they save, or delete, the row.
Clear ==
    /\ call["clear"] = "none" /\ ready # "down"
    /\ runner' = None /\ cut' = cut \cup (Turns \cap {runner})
    /\ Goes("clear", "delete") \/ (row # "none" /\ Goes("clear", "save"))
    /\ UNCHANGED <<lock, task, pc, awaited, row, boot>>

Cleared ==
    /\ call["clear"] \in {"save", "delete"}
    /\ row' = IF call["clear"] = "delete" THEN "none" ELSE IF row = "none" THEN "open" ELSE row
    /\ Returns("clear")
    /\ UNCHANGED <<slot, boot>>

-----------------------------------------------------------------------------
(* Shutdown and start.                                                     *)

\* cog_unload: a thread with an entry in _active_runners is to be resumed.
Unload ==
    /\ ready \notin {"down", "unloaded"} /\ restarts < MaxRestarts
    /\ resume' = (resume \/ runner # None)
    /\ owed' = IF runner # None THEN 1 ELSE owed
    /\ ready' = "unloaded"
    /\ UNCHANGED <<slot, session, restarts>>

\* The process ends, with or without cog_unload, wherever it stands.
Exit ==
    /\ ready # "down" /\ restarts < MaxRestarts
    /\ lock' = <<>> /\ runner' = None /\ task' = None /\ cut' = {}
    /\ pc' = [t \in Turns |-> "idle"] /\ awaited' = None
    /\ call' = [p \in Callers |-> "none"]
    /\ ready' = "down" /\ restarts' = restarts + 1
    /\ UNCHANGED <<row, resume, owed>>

\* A turn of on_ready's own: a new task that runs _run_claude.
Spawn(t) == /\ pc[t] = "idle" /\ To(t, "lock") /\ lock' = Append(lock, t)
            /\ UNCHANGED <<runner, task, awaited, cut>>

\* CapacityRestartLoader.load_due, first of all: it may resume a turn.
LoadCapacity ==
    /\ ready = "down"
    /\ ready' = "reconcile"
    /\ (\E t \in Turns : Spawn(t)) \/ UNCHANGED slot
    /\ UNCHANGED <<row, call, resume, owed, restarts>>

\* reconcile_pending_closes: of the rows found closing, at the start or a reconnect.
Reconcile ==
    /\ ready \in {"reconcile", "up"} /\ call["ready"] = "none"
    /\ ready' = "reconciling"
    /\ IF row = "closing" THEN Goes("ready", "complete") ELSE UNCHANGED call
    /\ UNCHANGED <<slot, row, resume, owed, restarts>>

\* get_pending, which prunes the rows past their time.
FindResume ==
    /\ ready = "reconciling" /\ call["ready"] = "none"
    /\ \/ resume /\ ready' = "found" /\ UNCHANGED resume
       \/ resume' = FALSE /\ ready' = "up"
    /\ UNCHANGED <<slot, session, owed, restarts>>

DeleteResumeForgets ==
    /\ ready = "found" /\ ready' = "spawn"
    /\ UNCHANGED <<slot, session, resume, owed, restarts>>

\* The row is deleted before anything is spawned from it.
DeleteResume ==
    /\ ready = "found"
    /\ resume' = FALSE /\ ready' = "spawn"
    /\ UNCHANGED <<slot, session, owed, restarts>>

\* The row is gone: announce and spawn, unless the thread cannot be had.
SpawnResume ==
    /\ ready = "spawn" /\ ready' = "up"
    /\ \/ (\E t \in Turns : Spawn(t)) /\ owed' = owed - 1
       \/ UNCHANGED <<slot, owed>>
    /\ UNCHANGED <<row, call, resume, restarts>>

-----------------------------------------------------------------------------
\* A thread nobody has used yet.
Init ==
    /\ lock = <<>> /\ runner = None /\ task = None /\ cut = {}
    /\ pc = [t \in Turns |-> "idle"] /\ awaited = None
    /\ row = "none"
    /\ call = [p \in Callers |-> "none"]
    /\ resume = FALSE /\ owed = 0
    /\ ready = "down" /\ restarts = 0

\* What a turn, once there, does by itself.
Proceeds(t) ==
    \/ Evict(t) \/ Awaited(t) \/ Register(t) \/ PrepareFails(t)
    \/ Announce(t) \/ AnnounceFails(t) \/ Attempt(t) \/ Run(t) \/ RunEnds(t)
    \/ Pop(t) \/ TurnDone(t) \/ NextTurn(t) \/ BuildOver(t)

\* What a lifecycle call, once made, does by itself.
Serves(p) ==
    \/ Complete(p) \/ CheckActive(p) \/ MarkClosed(p)
    \/ p = "close" /\ (Close \/ RequestClose)
    \/ p = "reopen" /\ (Reopen \/ Reopened)

\* What a start does by itself; a reconnect runs it again.
Boots == LoadCapacity \/ FindResume \/ DeleteResume \/ SpawnResume

Next ==
    \/ \E t \in Turns : Arrive(t) \/ CancelWaiting(t) \/ Stop(t) \/ Retry(t) \/ Proceeds(t)
    \/ \E p \in Callers : Ask(p) \/ Serves(p)
    \/ Boots \/ Reconcile
    \/ Unload \/ Exit

Spec == Init /\ [][Next]_vars

\* The same where somebody runs /clear, rewinds or calls close_session.
ClearNext == Next \/ Clear \/ Cleared
ClearSpec == Init /\ [][ClearNext]_vars

\* Turns, calls and a start go on; a run ends, by its timeout at the latest, and a
\* turn makes a finite number of attempts (Retry needs a new reason each time).
\* Nothing owes a message, a Stop, a close, a reconnect or a shutdown.
FairSpec ==
    /\ Spec
    /\ \A t \in Turns : WF_vars(Proceeds(t) \/ Serves(t)) /\ SF_vars(RunEnds(t))
    /\ \A p \in Callers \ Turns : WF_vars(Serves(p))
    /\ WF_vars(Boots) /\ WF_vars(ready = "unloaded" /\ Exit)
    /\ WF_vars(ready = "reconcile" /\ Reconcile)

-----------------------------------------------------------------------------
(* Properties.                                                             *)

Places == {"idle", "between", "lock", "await", "prepare", "announce", "settle"} \cup Live

\* Every entry names a turn that can stand there; a turn waits for the lock once.
TypeOK ==
    /\ lock \in Seq(Turns) /\ IsInjective(lock)
    /\ runner \in Turns \cup {None, Ghost} /\ task \in Turns \cup {None, Ghost}
    /\ pc \in [Turns -> Places] /\ \A t \in Turns \ Builds : pc[t] # "between"
    /\ cut \subseteq Turns /\ awaited \in Turns \cup {None}
    /\ row \in {"none", "open", "closing", "closed"}
    /\ call \in [Callers -> {"none", "close", "request", "complete", "active", "mark",
                             "reopen", "write", "save", "delete"}]
    /\ resume \in BOOLEAN /\ owed \in Int /\ restarts \in 0..MaxRestarts
    /\ ready \in {"down", "reconcile", "reconciling", "found", "spawn", "up", "unloaded"}

\* "At most one Claude run may be active per thread at any time", whoever replies,
\* resumes or stops.  Refuted where somebody else pops the entry of a turn.
OneRun == \A t, u \in Turns : pc[t] = "run" /\ pc[u] = "run" => t = u

\* Replies, resumes, Stops, retries and failures alone never make two runs, nor lose
\* the entry of one: whoever runs is the one both tables name, unless its entry was
\* cut, or taken by the next attempt of a turn that was.
SlotKept == \A t \in Turns \ cut : pc[t] \in Live => runner = t /\ task = t

\* "No deadlock": whose task the lock's holder awaits never stands in the line for
\* that lock.  Refuted where the task is a build's.
NoWaitOnLock == awaited # None => pc[awaited] \notin {"lock", "await", "prepare", "announce"}

\* Where the awaited task has no turn but the one it ran, it has left phase 1 and
\* only ends.
AwaitedEnds == awaited \in Turns \ Builds => pc[awaited] \in Live \cup {"settle"}

\* A marked resume starts one turn at most, whatever restarts and reconnects follow.
ResumedOnce == owed >= 0

\* A reply in line for the slot gets its turn, unless the line's head awaits a build
\* that has come back to the line.
Stuck == awaited \in Builds /\ pc[awaited] = "lock"
QueuedRuns == \A t \in Turns : pc[t] = "lock" ~> pc[t] # "lock" \/ Stuck

\* A requested close is finished, whichever of the turn, the request and the start
\* finds the thread idle: it pends for ever only behind the entry of a turn that
\* failed, or while new turns keep taking the slot.
PendingCloseSettles ==
    []<>(row # "closing" \/ runner = Ghost \/ \E t \in Turns : pc[t] = "announce")
=============================================================================
