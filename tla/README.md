# A formal model of Ebi Agent Chat Relay

TLA+ modules, TLC runs and TLAPS proofs for the relay that lets people drive coding
agents from Discord and Teams threads, and lets agents on different computers hand work
to each other. The code is Python (`claude_code_core`, `claude_discord`,
`claude_teams`): one asyncio process per computer, its durable state in SQLite. Almost
every bug a test does not reach lives between two `await`s, between two transactions, or
between a crash and what the next start finds. That is what these modules model: **one
action is what runs between two awaits, with at most one transaction in it**, and the
process may die between any two.

## 1. The system

| Component | State it keeps | Operations | Talks to |
|---|---|---|---|
| Trusted handoffs, recipient (`handoffs/state.py`, `handoff_repo.py`, `handoff_executor.py`, `handoff_return.py`, `cogs/agent_handoff.py`) | SQLite: jobs, attempts, results, outbox; memory: `_restart_reconciled`, `_run_lock`, rows a pass holds | receive, discover, reconcile, execute, record a result, deliver it | chat cog (starts turns, is called back through a result sink), Discord |
| Trusted handoffs, origin's mirror (`handoffs/protocol.py`, `handoff_progress.py`, `handoff_sender.py`) | copies of remote jobs, events by sequence number | send, mirror, tell the origin | the recipient, by Discord messages |
| Run slot of a thread (`cogs/claude_chat.py`, `cogs/_run_helper.py`) | per-thread lock, `_active_runners`, `_active_tasks`, the persisted resume rows | start a turn, interrupt or wait for the one before, clean up, unload, resume | lifecycle, admission, backends |
| Session lifecycle (`session_lifecycle.py`, `session_repo.py`) | SQLite: session state open, closing, closed | close now, close when idle, finish a pending close, reconcile, reopen | run slot (is it active?), surfaces (archive, unarchive) |
| Admission (`gowork_admission.py`) | running builders and reviewers, waiters, capacity, review reserve | acquire (in line or at once), cancel, release, set capacity, read the aging counts back | task loops, chat |
| Model-capacity recovery (`capacity_recovery.py`, `capacity_policy.py`, `capacity_recovery_repo.py`) | SQLite: one row per turn with its state, due time, window and claim token; memory: the attempt tracker of each call | run a turn, wait and reclaim, fall back, park, load what is due at a start | run slot, another bot on the same database |
| Go-work builds (`claude_code_core/task_loop.py`, `gowork_state.py`, `gowork_schedule.py`, `gowork_blockers.py`) | files: the build's ledger (plan versions, attempts), questions; git: side copies; memory: workers in flight | start what is ready, record, repair, ask, merge, review, resume | admission, backends, the cog around the loop |
| Go-work line (`cogs/task_loop.py`, `build_queue.py`, `loop_store.py`) | files: the line of queued plans, the record of each build; memory: `_running`, `_starting` | enqueue, advance, start, wait, end, resume | builds, Discord |
| Teams relay (`claude_teams/relay`) | storage queue with leases and delivery counts; memory: the puller's batch and `_seen` | receive, store, pull, handle, acknowledge, drop poison | Teams, the session host |
| Attachment outbox, claims, asks, scheduler, notifications | one table each | enqueue, fetch what is due, mark | run slot, Discord |
| Catalog, API server, backends, rendering, privacy, inventories, search | files, subprocesses, text | I/O and text | everything |

Components without a row of their own in the plan below (text assembly, rendering,
subprocess streams, file-system scans, search) are listed in `PROJECT.json` with the
reason they are left out.

### What is hard here

- **Two transactions where one is meant.** `requeue_running` saves the row, then closes its
  attempt; `_fail_attempt` closes, fails and retries in three transactions;
  `record_and_deliver_handoff_result` records the answer and moves the job in two. A crash
  or another writer fits between any of them.
- **Rows read before an await and used after it.** An executor pass works through the rows
  it listed when it began; a sink closes the attempt of the row it read; `_finalize` closes a
  session it found idle two awaits earlier.
- **Processes nobody serializes.** `_run_lock` orders the Cog's executor passes but not those
  of the legacy path. The delivery loop and the pass at the end of each sink read the same
  pending rows. `/clear` takes an entry out of a table that a running turn relies on.
- **Cancellation.** A waiter of the admission controller can be cancelled before it is chosen,
  or in the tick between being chosen and running. A turn stopped while it waits for capacity
  never reaches its result sink.
- **Restarts.** Every start requeues, reconciles, resumes and scans, in an order, while
  messages already arrive. The records of builds are read in one step and their builds are
  launched one by one; due turns are claimed at the time at which the loader read the clock.
- **Messages that are late, lost or there twice.** discord.py runs a task per message, so an
  older event may be saved after a newer one. A Teams row comes back when its lease ends, also
  to the host that still works on it.
- **Files written in parts.** Taking up an edited plan is one write and then one per task; a
  result is submitted in one write and judged in the next; a merge removes its branch last.
- **Two processes on one database.** A bot that replaces another shares its rows for a while.

### What makes each component correct

- *Recipient of handoffs*: an attempt runs once; a job finishes once; an answer is recorded
  once, never changes, and is owed until it is told or given up at the retry bound; nothing a
  crash interrupts is stuck.
- *Run slot*: one run at a time; the tables name whoever runs; nobody waits for somebody who
  waits for the lock; every queued reply gets its turn. (Each holds with exceptions that section 3
  names: `/clear` breaks the first two, a build's task the other two.)
- *Session lifecycle*: a requested close is finished by whoever finds the thread idle; a
  resume mark starts one turn at most.
- *Admission*: no slot lost, given twice or left idle; tasks stay out of the reserve; a
  request passed over too often goes first, also after a restart; reviews are served.
- *Origin's mirror*: the copy invents no end, keeps the one it has, and learns of the job's
  unless one of a few named things happened (one is a plain bug, section 3: a long result); an acceptance is told once.
- *Capacity recovery*: one call of a turn at a time, none once a block of its answer was sent,
  and the person sees the turn end.
- *Builds*: no attempt is moved under its worker; nothing is accepted that is not merged and
  checked; nothing accepted is thrown away; owners of one file take turns.
- *Line of builds*: no queued plan is lost but for a few named reasons; one queued build works at
  a time, but for those that waited or came back; checkbox builds have their project to
  themselves; the line goes on.
- *Teams relay*: what was answered 200 is stored, done or given up for a reason; nothing is owed
  for ever; a session is not run twice in one life of the host, as long as its id is remembered.

## 2. The modules

| Module | What it is |
|---|---|
| `HandoffState` | the pure state machine of `handoffs/state.py`: which trigger may fire from which state, where it lands, when a failure may be retried |
| `HandoffLedger` | the recipient: SQLite, messages, `on_ready`, executor passes, worker turns and their sinks, couriers, expiry, crash and start |
| `HandoffPromise` | what the recipient promises about answers, with nothing said of how |
| `HandoffProofs` | theorems about `HandoffLedger` |
| `HandoffMirror` | one handoff seen from both computers: `send_task`, the recipient's announcements, the origin's handlers of them |
| `MirrorProofs` | theorems about `HandoffMirror` |
| `Admission` | `AdmissionController` of `gowork_admission.py` |
| `AdmissionProofs` | theorems about `Admission` |
| `ThreadSlot` | one thread: the turns that want its slot, its session row, its resume row, shutdown and start |
| `ThreadProofs` | theorems about `ThreadSlot` |
| `Recovery` | turns that wait for model capacity: rows, runs, loaders, overlapping bots |
| `RecoveryProofs` | theorems about `Recovery` |
| `BuildLedger` | the ledger of a build: one operator per method that writes it |
| `Build` | `BuildLedger` driven by the loop of a manifest build, its workers and the cog |
| `BuildProofs` | theorems about `Build` |
| `BuildLine` | the line of queued plans, starts, records and resumption |
| `LineProofs` | theorems about `BuildLine` |
| `Relay`, `RelayPromise` | the Teams relay, and what it promises to whoever posts to it |
| `RelayProofs` | theorems about `Relay`, its refinement of `RelayPromise` among them |
| `MCHandoff`, `MCMirror`, `MCAdmission`, `MCThread`, `MCRecovery`, `MCBuild`, `MCLine`, `MCRelay` | small instances for TLC |

Which module composes which: `HandoffLedger` and `HandoffMirror` are both built on
`HandoffState`, the first with every transaction of the recipient, the second with each of its
moves as one step and with the other computer; `Build` is `BuildLedger` with its processes;
`Relay` implements `RelayPromise` and `HandoffLedger` implements `HandoffPromise`;
`ThreadSlot` composes the run slot with the session lifecycle. `BuildLine` sees of a build what
the line sees: that it works, waits, or ends.

A definition whose name is another's with a suffix (`ClaimableNotUnique`, `PopAnyones`,
`DecidedByBudget`, ...) is the same code with one plausible mistake in it. No
specification uses it; it shows that a property tells the two apart (`PROJECT.json`,
"mutants").

### 2.1 HandoffLedger

State, and the code it stands for:

| Variable | Code |
|---|---|
| `job`, `attempts`, `result`, `outbox` | the tables `handoff_tasks`, `handoff_attempts`, `handoff_results`, `handoff_outbox` of `handoff_repo.py` |
| `exhausted` | tasks whose events reached `MAX_SEQUENCE`: `next_sequence` has nothing left to mint |
| `late` | tasks past `expires_at` |
| `reconciled`, `due` | `_restart_reconciled`; `run_executor` calls that wait for `_run_lock` |
| `recon` | the handler of `on_ready`: requeue, interrupt, scan |
| `pass[p]` | an executor pass: the rows it listed (`todo`), the row in hand (`cur`), how many it started |
| `turn[w]` | a worker turn and then its result sink: record, read, close the attempt, save |
| `courier[c]` | an outbox pass, of a sink or of the delivery loop: the rows it fetched, the one it posts |
| `sent`, `begun` | history: posts that reached the origin, turns begun under each attempt |

Actions, by what they translate:

| Actions | Code |
|---|---|
| `Receive`, `LegacyReceive`, `Discover`, `Exhaust` | `_receive_task`, the legacy entry point, `_discover_starter`, the events that use up a sequence |
| `OnReady`, `Requeue`, `Interrupt`, `RequeueDone`, `ScanDone` | `reconcile_on_reconnect`, `requeue_running`, `_scan_starters` |
| `PassBegin`, `PassSkips`, `PassClaim`, `PassReclaim`, `PassStart`, `PassSupersede`, `PassSpawn`, `PassEnd` | `run_ready`, `_execute`, `_start` |
| `PassSpawnFails`, `PassClose`, `PassFail`, `PassRetry` | `_fail_attempt`, its three transactions |
| `TurnEnds`, `TurnStopped` | how the turn ends: with text or an error to its sink, or cancelled while it waits for capacity |
| `Record`, `ReadJob`, `CloseAttempt`, `SaveFinal` | `record_and_deliver_handoff_result`, `_finish_job` |
| `LoopTick`, `Fetch`, `Send`, `Mark`, `Refused`, `CourierDone` | `delivery_loop`, `deliver_pending_handoff_results` |
| `Expire`, `Crash`, `Boot` | the clock, the process |

`save_transition` is a compare-and-set on the state and the attempt the transition was computed
from; `Unmoved` is that test and every action that saves a job goes through it. What a
packet says, who may send it, which project it names and what Discord shows are abstracted:
`PassSkips` lets a pass block any
row, keep it waiting for capacity, or fail it once it is late. Backoff is abstracted to "a
pending row may have fallen due".

### 2.2 HandoffMirror

The recipient's side is that of `HandoffLedger` with fewer windows: `job`, `result` and `turn` are
its rows and its worker turn, `writer[w]` the coroutine that moved the job last and is about to
announce it: `receipt`, `pass`, `sink` or `boot`. The origin's side is new.

| Variable | Code |
|---|---|
| `starter` | how far `send_task` is: the task is recorded, then its starter is posted |
| `copy` | the origin's own row of `handoff_tasks` |
| `seen` | event ids of `handoff_events`; those of an event that no other shares are not kept |
| `handling` | message handlers at work: about to record, to save or to tell, and the row each has read |
| `channel` | events posted in the job thread that no handler was handed yet |
| `told`, `astray` | history: acknowledgements told; a reason why the copy may not learn of the end |

| Actions | Code |
|---|---|
| `RecordTask`, `PostStarter` | `send_task` |
| `Receive`, `PassMoves`, `Spawn`, `SpawnFails`, `Retry`, `TurnEnds`, `Finish`, `Reconcile` | the recipient's moves, each followed by its announcement |
| `Announce` | `handoff_progress.py`: the event for the state now reached, or the recorded result; the post may fail |
| `Deliver` | a message handed to a handler of its own, in any order, and once a second time |
| `RecordEvent`, `SaveCopy`, `Tell` | `_receive_event`, `_mirror_for_origin` with `apply_event` and `save_transition`, the note in the origin conversation |
| `NoteTooLong` | `_clean_note` inside `apply_event`: a result summary of more than 500 characters raises, and the handler ends |
| `RecipientDies`, `OriginDies` | either process, with what it had in hand |

### 2.3 Admission

`held`, `line`, `capacity`, `reserve` are the controller's fields; `passed` is
`_Waiter.passed_over`, `fairness` the counts by build and `disk` what the last save left in
`gowork-admission.json`. `state` says where each request's coroutine stands: idle, waiting on
its future, woken (chosen, not resumed), held. `Acquire`, `Resume`, `Unwind` (the
`except CancelledError` of `_acquire`), `Release`, `SetCapacity` and `Restart` are its
methods; `Woken` is `_wake`: the line without the cancelled (`Live`), then as many turns of
`AdmitOne` as the line is long (`Loop`), of which those that find nobody to admit change
nothing.
Each method runs without an await up to the one of `_acquire`; when the wake a request
itself started chooses it, the await returns at once and `Acquire` goes on to the admission.
`passed_over` is compared with `AGE_LIMIT` and nothing else, so `Bump` saturates there: the
order of two requests beyond the limit does not depend on their counts.

### 2.4 ThreadSlot

| Variable | Code |
|---|---|
| `lock` | the asyncio lock of `_thread_locks`, with its FIFO of waiters; its head holds it |
| `runner`, `task` | the thread's entries in `_active_runners` and `_active_tasks`, by the turn that set them last; `Ghost` is an entry whose turn, or task, is over |
| `Turns`, `Builds` | the asyncio tasks that run `_run_claude`, one message after another; of them those of a build, which run several turns in a thread before they are done (`cogs/task_loop.py:3103`, `3184`) |
| `pc[t]` | where each stands in `_run_claude`: in line, awaiting the evicted task, preparing, announcing, about to attempt, waiting for capacity, running, in its `finally`, settling the close; a build's task also between two turns |
| `cut` | turns whose entry in `_active_runners` `/clear`, a rewind or `close_session` popped, or the next attempt of such a turn overwrote |
| `awaited` | the task that the lock's holder awaits in `_evict_active_run` (`claude_chat.py:2246`) |
| `row` | `lifecycle_state` of the session row, or none |
| `call[p]` | where each lifecycle call stands, by caller: a finishing turn, `/close`, Sessions > Open, `/clear`, the start |
| `resume`, `ready`, `owed` | the row of `pending_resumes`, where `on_ready` stands, marks not spawned yet (history) |

`Arrive`, `Evict`, `Awaited`, `CancelWaiting`, `Register`, `PrepareFails`, `Announce`,
`AnnounceFails`, `Attempt`, `Run`, `Stop`, `RunEnds`, `Retry`, `Pop`, `TurnDone` are `_run_claude`
from the lock to the end of its `finally`, with the attempts of `_run_helper.py` in it: each
`Attempt` calls `on_runner_changed`, which sets the thread's entry whosever it was. What ends with
a turn is its task (`Done`), but for a build's: `TurnOver` lets that go on to `NextTurn` or
`BuildOver`, and only the end of the task lets go of whoever awaits it. `Close`, `RequestClose`, `Complete`, `CheckActive`,
`MarkClosed`, `Archive`, `Reopen`, `Reopened` are `SessionLifecycle`, each step up to the next
await. `Clear` and `Cleared` are `/clear`, the rewind picker and `close_session`. `Unload`,
`Exit`, `LoadCapacity`, `Reconcile`, `FindResume`, `DeleteResume`, `SpawnResume` are the end of
a process and the `on_ready` of the next one. `Spec` has everything but `Clear` and `Cleared`,
`ClearSpec` those too.

The run is one step between its start and its end: it may end at any time, so that an
interrupted run, one that fails and one that finishes are the same behaviours.

### 2.5 Recovery

`row[t]` is a row of `capacity_pending_turns`; `Due`, `Claimed`, `Scheduled`, `Accepted` and
`Expired` are its conditional updates. A member of `runs` is one `run_turn` call: which bot it
is in, the claim token it carries, where it stands (`claim`, `resume`, `calling`, `retry`,
`fallback`, `park`, `asleep`), the counts of its `RecoveryTracker`, and what text its attempt put into the thread
(`text`): `"sent"` is `assistant_text_sent`, which the tracker decides on; `"part"` is text that does
not set it, streamed in part, finalized at a tool use, posted by a send that then raised, or a
result that turns out to be a refusal. `todo[b]` and `loadTime[b]`
are what `load_due` of bot `b` listed and the clock it compares with; `now` is a coarse clock.
`sent`, `stopped`, `told` and `calls` are history; `"closed"` in `told` is no word, but the
waiting line completed as failed, which is all that the end of a window during a wait leaves
(`_run_helper.py:845-847`).

`Submit` and `Claim` are the two transactions of `_enter`; `Answer`, `Refused`, `Saturated`
are how a call ends, `ShowPart` and `ShowBlock` what it lets the person see meanwhile; `Decided` is `RecoveryTracker.next`;
`Release` and `Wake` are `_wait_and_reclaim`, `Park` is `_park`. `Boot`, `Load`, `Continue` and
`ResumeFails` are the loader of `on_ready`. `Stop` is the button, `Dies` and `Lost` the death of a
bot or of one task, `Tick` the clock.

### 2.6 BuildLedger and Build

`ledger` is the file of `gowork_state.py`: the plan versions it knows and, for every task, the
attempt under way. An attempt carries what is durable elsewhere under its name: how far its
side copy is (`side`) and the question asked about it (`ask`). The operators of
`BuildLedger` are the methods that write it: `Begun`, `Submitted`, `Accepted`, `Blocked`,
`Retried`, `Repaired`, `Synced` (`sync_tree`), `Asked`, and `IsReady` (`ready_tasks`).

In `Build`, `pc` is where the loop stands, `held` its `in_flight`, `batch` and `cur` the finished
workers it records, `recon` and `stop` its flags, `workers` the worker tasks, `answers` the
replies that were taken and not applied; `file` and `readable` are the plan file.

| Actions | Code |
|---|---|
| `Top`, `Salvage`, `GiveUp`, `Reconciled`, `Ready`, `Wait`, `Record`, `Repair`, `Hook` | `_run_manifest` and what it awaits, up to the next await |
| `Brief`, `Commit`, `Fail`, `Merge`, `Review` | `_run_manifest_task`: briefing, turn, merge with its combined check under `git_lock`, review |
| `Stop`, `Unstick`, `Park`, `KeepGoing`, `Close`, `Reply`, `Apply` | the cog around the loop, and the person |
| `Crash`, `TornSync`, `TornRecord`, `TornMerge`, `Restart` | the process dies between, or within, its writes, and starts again |
| `Edit`, `Break`, `Mend` | the plan file is edited, cannot be read for a while, can be again |

### 2.7 BuildLine

| Variable | Code |
|---|---|
| `line`, `records` | the saved list of queued plans, and the `LoopStore` |
| `starts` | the `start_loop` calls: by the queue, by a person who is asked which AI to use, by `/gowork`; a queue's start that raised is `"refused"` until that is said |
| `scan`, `locked`, `due` | `_advance_queue`: the items it has still to look at, its lock, the calls that wait for it |
| `working`, `waiting` | the entries of `_running`, without and with `waiting_for_person` |
| `keeping` | of the waiting: finished builds that are being kept or thrown away, still marked as waiting |
| `closing` | `auto_finish` |
| `asked`, `over`, `lost`, `begun`, `waited`, `resumed` | history: plans queued, ended or refused with a word, dropped without one, put on record; builds that waited, or came back |

| Actions | Code |
|---|---|
| `Enqueue`, `Advance`, `Look`, `Drop` | `enqueue` and `_advance_queue`; `Drop` is the item whose project or channel cannot be had, taken without a word |
| `Arrive`, `Switch`, `Begin`, `Refuse`, `Hiccup`, `Save`, `Launch`, `Return`, `Tell` | a start, step by step; `Tell` is what the line says of a refused one |
| `Waits`, `Answer`, `Keeps`, `Close`, `Wakes`, `Finishes`, `KeepFails` | a build that waits, goes on, is kept or thrown away, is closed. A parked build that is closed is at work again to keep what is finished, whatever the line has started meanwhile |
| `Ends`, `Forgets`, `Gone` | the end of `_drive`: the record goes and the entry in one step, or (a crash of the build, a copy that is gone) the record first, then what is sent, then the entry |
| `Crash`, `Restart`, `Resume`, `Stops`, `Resumed` | the process, `resume_all` and the `suppress` around it; the file of the line is written in place, so that a death within `save` leaves an empty line |

### 2.8 Relay

| Variable | Code |
|---|---|
| `http` | what Teams knows of each activity: not sent, sent and not answered, answered 200 |
| `at`, `count` | the rows of the storage queue: invisible, visible, leased, deleted, and `DequeueCount` |
| `batch`, `stage`, `seen` | the puller: rows in hand, what it does with the first, `_seen` in the order of its insertions, at most `SeenCapacity` ids |
| `session`, `prompt` | of each message: the session that runs in its handler, and the card it waits for |
| `nature` | what an activity is: plain, too large to be stored, unreadable once taken out, without an id |
| `completed`, `dropped`, `tried`, `later` | history; `later` counts the ids remembered since a session ended, up to `SeenCapacity` |

`Receive`, `AnswerLost` and `TooLarge` are the receiver; `Pull`, `LeaseExpires` the queue;
`DropUnreadable`, `SkipSeen`, `DropPoison`, `BeginRun`, `HandlePress`, `RunEnds`, `RunFails`, `Ack` the
puller with its handler (`Known` asks `_seen`, `Remember` puts in and evicts the oldest, neither for
an activity without an id); `Ask` and `TimesOut` a prompt of the session; `Restart` the host.
`RelayPromise` knows of each activity only its fate: new, owed, worked or dropped.

## 3. What the runs check

### Passing runs

| Run | States | Bounds | What it shows |
|---|---|---|---|
| `HandoffPasses` | 729,985 | one task of two attempts, two turns, the Cog's pass and a legacy one, one crash, one reconnect, failing spawns, an exhausted sequence | `RunsOnce`, `AttemptsFollowJob`, `TerminalStays`: whichever pass reads a stale row, an attempt runs once in a process, a finished job stays finished but for its safe retry, attempts keep step with the job |
| `HandoffRestart` | 262,564 | one task of one attempt, one turn, a delivery loop, two deliveries, one crash, messages before the first `on_ready`, turns that never report | `CompletedIsRecorded`, `DeliveredWasSent`, refinement of `HandoffPromise`, and under fairness `AnswersSettle`: a recorded answer is delivered or given up |
| `MirrorFollows` | 3,655,634 | one task of two attempts, two messages in flight, an acknowledgement handed over twice, one death of either process | `EndIsTrue`, `ToldOnce`, `EndSeen`, `CopyEnds`: the origin's copy invents no end, keeps the one it has, and misses one only for a reason that is named |
| `AdmissionLine` | 52,372 | two tasks of different builds, a review, a chat; ceilings 1 to 3, reserve 1, age limit 1, one restart | `TypeOK`, `SlotsAccounted`, `NoIdleSlot`, `PlaceSurvives`, `AgedGoFirst`, and under fair release `ReviewsServed` |
| `ThreadTurns` | 230,745 | a turn and a build's task, one restart, nobody clears | `TypeOK`, `SlotKept` (with nothing ever in `cut`, so that one run at a time is part of it), `AwaitedEnds`, `ResumedOnce`, and under fairness `QueuedRuns`, `PendingCloseSettles` |
| `RecoveryOnce` | 364,546 | one turn of three attempts and one fallback in a window of four ticks, two bots that may overlap, two deaths | `OneCall`, `AnsweredOnce`: one call at a time, none after an answer or a block of text that set the flag; under fairness `AnswersHeard`: a turn in hand ends with a word to the person, or with its waiting line closed |
| `BuildWorks` | 376,724 | three tasks of two plans, two of them owners of one file, one that may end in every way, one edit, one answer, one fault | `TypeOK`, `HeldIsCurrent`, `AcceptedLanded`, `RunningApart`, `AcceptedStays`, and under fairness `AttemptsEnd` |
| `LineMoves` | 794,411 | two queued plans and one of a person, in two projects, one word of a person (an answer, a keep or a close), one failure or death at any step, besides those of the resumption that follows | `Kept`, `OneAtATime`, `CheckboxAlone`, and under fairness `LineMoves` |
| `RelayServes` | 499,777 | one message that may be posted twice, be too large, unreadable or without an id, the press of its card, two items in a batch, two deliveries, a memory of one id, one restart | refinement of `RelayPromise`, `NotTwice`, and under fairness `Settles` |

Why the bounds are enough to meet the cases:

- *One task of handoffs*: the code never relates two tasks, but for `limit=5` of a pass. Two
  passes, two turns and two attempts are what it takes for a stale row, a lost compare-and-set
  and a retry to meet. `MaxAttempts` is 3 in the code; 2 already has an attempt that may be
  retried and one that may not. The theorems of section 5 hold for every value.
- *One crash*: it may fall at any step, also while the requeueing of a start has not begun.
  What a second crash adds is a crash during the reconciliation that follows the first;
  the theorems about the ledger hold for any number.
- *Mirror*: two messages in flight overtake each other; only an acknowledgement is handed over
  twice here, for it is the one event that is told and moves no row. One death may take either
  process at any point. The theorems hold for any number of either, whatever is repeated.
- *Admission*: with one request of each kind and two builds, every rule that orders the line
  (age, kind, promise, arrival) decides between some two of them; the ceilings 1 to 3 are one
  below, at and above what tasks may hold. The age limit, 3 in the code, is 1, so that aged
  tasks are met early; more of it only delays them.
- *Thread*: two coroutines run one message after another without end, so a turn that evicts,
  one that is evicted and the next in line are the same two. One of the two tasks is a build's,
  which meets the other in every order. With `/clear` at any time (`ClearSpec`) the same four
  invariants hold in 4,169,745 states, more than a run here should take; the proofs of section
  5 are of `ClearSpec`, and cover any number of turns.
- *Recovery*: three attempts and a fallback after two are the code's own numbers in small: a
  retry, a fallback and the end of the attempts all happen. Delays of 1 and 2 in a window of 4
  make a wait that ends in the window and one that is cut by it. Two bots are the one that is
  replaced and the one that replaces it; rows of two turns never meet.
- *Builds*: an owner that waits for a prerequisite in another plan, one owner that starts at
  once, and a task beside them. The first may end in every way and the others well: what each
  way does to a record does not depend on the task. One fault is a death at any write or a plan
  file that cannot be read; the edit, the answer and the stop come at any time.
- *Line*: a queued checkbox plan and a person's in one project, and a queued manifest plan in
  another. One call of `_advance_queue` waits for the lock (`MaxDue`): a second would look at the
  same line again. Failures and deaths are counted together (`MaxTrouble`), but for those of a
  resumption, so that a death within a failure's aftermath is left to the proofs. A person says
  one word and tries a plan once. The theorems hold for all bounds.
- *Relay*: the queue relates two rows only by handing them out together; a message, its second
  copy and a press are three rows in batches of two. A memory of one id (2048 in the code) is full
  after the first, so that the eviction happens; what `NotTwice` then still promises is that the
  next activity in hand, the second copy among them, finds the id of the last session. After three deliveries (`MaxDeliveries`
  is 3 in the code) comes poison; 2 already has a first, a later and a last try. The theorems
  hold for every value.

Deadlock is checked for Admission and ThreadSlot. It is not where the system may stop for good:
a handoff that is settled when crashes, reconnects and messages of the bound are spent, a build
that is complete or closed, a line that is empty, a clock at its horizon, a queue with nothing
left in it.

### Where the code does not do what it says

Three runs check a statement of the repository and find it violated.

| Run | Statement | What happens |
|---|---|---|
| `HandoffStranded` | reconciliation resumes or requeues every nonterminal handoff (`spec.md` of trusted-agent-handoffs, 126-129) | the attempt is claimed in one transaction and START saved in the next; after a crash between them the job is accepted or queued with an open attempt, which `requeue_running` does not look at and no pass may claim |
| `ThreadTwoRuns` | at most one run per thread at any time (`claude_chat.py:2277-2278`) | `/clear` pops the entry of a turn that still waits for capacity, whose runner has no process to kill; the next message finds the slot empty |
| `ThreadDeadlock` | "No deadlock: a task is only in `_active_tasks` after it finished its own phase 1 and released the lock, so it never blocks on the lock we hold here" (`claude_chat.py:2221-2223`) | a reply that takes the lock during a build's turn awaits the build's whole task (`:2246`); the build goes on to its next turn in the thread and stands in the line for the lock the reply holds |

`SlotKept` is what is left of the second: a turn loses its entry to nobody but `/clear`, a
rewind or `close_session`, or to the next attempt of a turn so cut, which sets itself in whosever
place (`_run_helper.py:632-634`, `claude_chat.py:2374-2377`) and pops that at its end. `OneRun`
holds where nobody calls them. `AwaitedEnds` is what is left of the third: it holds of every
awaited task but a build's, and `QueuedRuns` excepts exactly a reply that waits behind one
(`Stuck`).

The modules state more that one could expect of the code and that TLC refutes. They have no run
of their own; adding the name to the configuration of the module's run shows the behaviour.

| Definition | What one could expect | What happens |
|---|---|---|
| `HandoffLedger.RunningHasTurn` | "a job can never sit at `running` with nothing running" (`handoff_executor.py:8-10`) | a Stop while the turn waits for capacity cancels it before its sink is called; the job stays running until the next start |
| `HandoffLedger.FailureIsTold` | a terminal failure is explained in both locations (`spec.md:147-149`) | a job that expires in the queue, or whose last spawn fails, is failed with no result event, so the origin is owed nothing |
| `HandoffLedger.AnsweredIsNotRerun` | "a terminal result is therefore recorded, never re-run" (`state.py:14`) | after a crash between `record_result` and `_finish_job` the job is requeued and its work runs again; the second answer is ignored |
| `EndSeen` without `~astray` | the origin learns how the job ended | the announcement is not posted, its handler dies after `record_event`, its compare-and-set misses (`save_transition` tells its caller to read again, `handoff_repo.py:299-303`, which `_mirror_for_origin` does not), or the job went on after the end the copy took |
| the same, nothing lost or late | a result that was delivered and recorded ends the copy | a summary may have 1500 characters (`handoff_return.py:28`), a note 500 (`state.py:48`): `apply_event` raises `HandoffValidationError` (`state.py:209-210`), which `except HandoffStateError` (`agent_handoff.py:260`) does not catch, after `record_event` has committed (`:256`). The handler dies, a redelivery is a duplicate, and the copy of such a job never ends. `NoteTooLong` is that step; `EndSeen` excepts it by name |
| `Admission.ReviewSlotKept` | a few slots are kept back for reviews (`gowork_admission.py:6-8`) | one tick at capacity 1 lowers the reserve to 0, and nothing raises it again when the ceiling recovers |
| `Relay.PoisonProved` | a poison message is dropped after it has proved itself poison (`puller.py:20`) | the count grows with every pull of the row's batch; a host that restarts, or works on the first item for long, uses up the tries of the second |
| `Relay.PressHeard` | a press of a card is heard | the session that posted it runs inside the handler of the only puller, so the press waits in the queue until the prompt has timed out |
| `Build.OwnersApart` | two owners of a file never work at once | a plan that cannot be read while workers are in flight ends the loop without them; the next loop gives their attempts up and may start the other owner beside one that still works |
| `Build.BlockedIsAsked` | a task that "waits for you" can be answered | an attempt given up after a restart is blocked without a question: no reply names it, and "keep going" finds it blocked again |
| `Build.CompleteIsCurrent` | a build is complete at the plan versions it knows | a death while an edit is taken up (versions written, tasks not) leaves accepted tasks of the old version, and the next sync finds nothing changed |
| `BuildLine.LineSurvives` | "Stored as one JSON file so a restart keeps the line" (`build_queue.py:6`) | `save` writes the file in place; a death while it is written leaves what `_load` takes for an empty line |
| `BuildLine.LineMovesAlways` | "it starts when the builds ahead are done or waiting" | an item passed over because a person's build had its project is not looked at when that build ends, as only queued builds tell the line |
| `BuildLine.OneBuildPerPlan` | a repeated request opens no second build of a plan | after a restart, a start that arrives while `resume_all` works through its records finds the plan neither running nor starting |
| `BuildLine.BuiltOnce` | a queued plan is built once | a death between the record and the removal of the item leaves both: the build is resumed, and the plan built again after it |
| `BuildLine.OnlyTheUnbuildableDropped` | an item is dropped only if its plan cannot be built | a person's start in the same project gets in between the look at the project and the start: the refusal drops the item, and the plan with it |
| `Recovery.ShownOnce` | an attempt that put text into the thread is not repeated (`AttemptResult.delivered`: "part of an answer already reached the user") | `delivered` is `assistant_text_sent` (`_run_helper.py:764`), which partial streams, text finalized at a tool use and chunks posted before `send_text` raises do not set (`event_processor.py:730-734`, `781-784`, `747-753`): a retry follows a partly shown answer |
| `Recovery.ReasonHeard` | a turn that is given up is given up with a word | a window that ends while the run sleeps returns `EXHAUSTED` with the `RETRYING` status and calls no `on_status` (`capacity_recovery.py:380-392`): the waiting line is closed, as it is for a duplicate |
| `Recovery.CallsBounded` | a turn is called `max_attempts` times at most | a run that slept while another bot took the turn over does not count the calls made meanwhile; with one bot alive at a time it holds |
| `Recovery.StoppedStays` | a stopped turn is not called again | Stop during a wait reaches nothing; the turn wakes and calls |
| `Recovery.WaitingIsResumed` | a turn that is scheduled for later is resumed later | due rows are loaded once in the life of a bot; a resume that failed, or a turn not yet due at that time, waits for the next start |

## 4. Fairness

- *HandoffLedger*: weak fairness of each pass, turn, courier, of the steps of `on_ready`, of
  the first `on_ready` of a process and of its restart: a coroutine that can run is run by the
  event loop; a turn ends because the CLI's timeout ends it; the delivery loop ticks; the
  service manager restarts the process. Nothing is owed a packet, a reconnect, an expiry or a
  crash.
- *HandoffMirror*: none. `EndSeen` is a safety property: what is not there yet is on its way.
- *Admission*: weak fairness of `Run(r)`, one request going on: a woken one resumes, a cancelled
  one unwinds, a holder releases (the `finally` of `_run_one_attempt`). No request must come,
  and none is cancelled by fairness. `ReviewsServed` is conditional: chats are admitted without
  looking at the ceiling, so chats that always fill the host do keep a review waiting.
- *ThreadSlot*: weak fairness of each turn together with its lifecycle call, of each other
  caller, of a start, and of the exit that follows `cog_unload`; strong fairness of the end of a
  turn's run, for a turn makes a finite number of attempts (`Retry` needs a new reason each time:
  the recovery budget, one compaction, an answered question). Nothing is owed a message, a Stop,
  a close, a reconnect or a shutdown.
- *Recovery*: weak fairness of the clock, of each bot's loader, and of the run of a turn in a
  bot: a call ends, one way or another, because the CLI's timeout ends it. Nothing says that
  a call succeeds or that a bot is started.
- *Build*: weak fairness of the loop, of the workers together, and of the restart: a session is
  watched and ends, coroutines are scheduled, the service manager starts the bot. Nobody owes
  an answer, a "keep going", an edit or a plan that can be read again.
- *BuildLine*: weak fairness of the line, of starts under way, of the recovery after a death and
  of the builds together (`Building`), which end, wait, or wake when they were closed. No build that
  waits for a person is ever owed an answer or a close.
- *Relay*: weak fairness of a post that was not answered (Teams posts again), of the end of a
  lease, of the puller's one task (`Loop`: its steps and the handler it awaits, whose run ends, well
  or not) and of a prompt's timeout; strong fairness of the pulls of a row, which other rows may overtake but not for ever: the
  queue hands out what is visible, roughly in the order in which it became so. No press, no successful run and no successful
  delete is owed.

## 5. What is proved

All for every value of the constants, from the assumptions named in the modules
(`MaxAttemptsAssumption`, `LedgerAssumption`, `MirrorAssumption`, `ThreadAssumption`,
`RecoveryAssumption`, `LineAssumption`, `RelayAssumption`, `BuildAssumption`,
`AdmissionAssumption`: bounds are naturals, tables have their types, the requests a controller
ever sees are finitely many, and the values that mean "nothing" are not tasks or turns). Two
theorems about the ledger, and one about the slot, ask for more: no message is handled before
the first `on_ready`, and nobody clears the thread (`Spec` instead of `ClearSpec`). Each is what the code does
outside the case it names, and the case is listed as a hazard.

| Theorem | Module | Says |
|---|---|---|
| `TypeCorrect` | each of the eight modules of proofs | `Spec => []TypeOK` (of `ThreadSlot`: `ClearSpec`) |
| `CompletedRecorded` | `HandoffProofs` | `Spec => []CompletedIsRecorded` |
| `PromiseKept` | `HandoffProofs` | `Spec => KeepsPromise`: every step of the ledger is a step of `HandoffPromise` or a stutter |
| `DeliveredSent` | `HandoffProofs` | `Spec => []DeliveredWasSent` |
| `ClosedStays` | `HandoffProofs` | `Spec => ClosedAttemptStays` |
| `FinishedStays` | `HandoffProofs` | `Spec => TerminalStays` |
| `AttemptsFollow` | `HandoffProofs` | where `"early"` is no fault, `Spec => []AttemptsFollowJob` |
| `RunsOneTurn` | `HandoffProofs` | where `"early"` is no fault, `Spec => []RunsOnce` |
| `NoInventedEnd` | `MirrorProofs` | `Spec => []EndIsTrue` |
| `CopyStays` | `MirrorProofs` | `Spec => CopyEnds` |
| `AcceptanceToldOnce` | `MirrorProofs` | `Spec => []ToldOnce` |
| `EndIsSeen` | `MirrorProofs` | `Spec => []EndSeen` |
| `SlotIsKept` | `ThreadProofs` | `ClearSpec => []SlotKept` |
| `AwaitedTurnsEnd` | `ThreadProofs` | `ClearSpec => []AwaitedEnds` |
| `OneRunUncleared` | `ThreadProofs` | where nobody clears, `Spec => []OneRun` |
| `ResumesOnce` | `ThreadProofs` | `ClearSpec => []ResumedOnce` |
| `CallsApart` | `RecoveryProofs` | `Spec => []OneCall` |
| `AnsweredForGood` | `RecoveryProofs` | `Spec => AnsweredOnce` |
| `SlotsAreAccounted` | `AdmissionProofs` | `Spec => []SlotsAccounted` |
| `NoSlotIdles` | `AdmissionProofs` | `Spec => []NoIdleSlot` |
| `PlaceIsSaved` | `AdmissionProofs` | `Spec => []PlaceSurvives` |
| `AgedAreFirst` | `AdmissionProofs` | `Spec => AgedGoFirst` |
| `HeldStaysCurrent` | `BuildProofs` | `Spec => []HeldIsCurrent` |
| `AcceptedHasLanded` | `BuildProofs` | `Spec => []AcceptedLanded` |
| `RunsApart` | `BuildProofs` | `Spec => []RunningApart` |
| `AcceptedIsKept` | `BuildProofs` | `Spec => AcceptedStays` |
| `NothingLost` | `LineProofs` | `Spec => []Kept` |
| `BackToBack` | `LineProofs` | `Spec => []OneAtATime` |
| `ProjectToItself` | `LineProofs` | `Spec => []CheckboxAlone` |
| `WaitingOnRecord` | `LineProofs` | `Spec => []OnRecord`: a build that waits for a person is on record |
| `PromiseKept` | `RelayProofs` | `Spec => KeepsPromise`: every step of the relay is a step of `RelayPromise` or a stutter |
| `NeverTwice` | `RelayProofs` | `Spec => NotTwice` |

`ClosedStays` and `WaitingOnRecord` state properties that no run lists, and `OneRunUncleared` one
that only the refuting `ThreadTwoRuns` does, with `/clear` in it: the proofs cover more
than an instance would, and all three were checked by TLC before they were proved.

**Types of the ledger.** `TypeOK` is not inductive: `PassRetry` applies the retry of a row the
pass has held since it failed it, and the attempt number stays within `1..MaxAttempts` only
because that row may be retried. `TypeInv` adds `RetryInHand`, which says so.

**Answers.** `AnswerInv` adds two facts to `CompletedIsRecorded`. `SinkAgrees`: a sink that is
about to complete a job has recorded that very answer, so its outcome is the recorded one
(`record_result` keeps the first, and the loser of the race stops before `_finish_job`).
`DebtFollowsAnswer`: an outbox row exists exactly where an answer does, which is the invariant
under which every step refines `Decide`, `Settle` or nothing.

**Deliveries.** `DeliverInv` adds `PostedFirst`: a courier about to mark a row has seen its
post return, and posts only add up.

**Finished rows.** `JobInv` says what each holder of a stale row knows of it: the
reconciliation lists running rows, a pass lists startable ones and holds a running one once
it saved START. So every transition but a retry is computed from an unfinished row, and the
compare-and-set misses a finished one (`SaveMoves`). The retry is the exception:
`RetryStands` says that the failure a pass is about to retry is still the row, or the job
has left that attempt for good; attempt numbers never fall.

**Attempts.** That an attempt runs once is not inductive by far. `AttemptInv` follows an attempt
from claim to turn. A pass *owns* one from its claim until a turn, or `_fail_attempt`, is done
with it; `OwnedOnce` and `OwnersApart`: what is owned can be neither claimed nor reclaimed, has
begun no turn, and has one owner. `StartedStands`: the row a pass started stays as it started it
until it lets go, because whoever could move a running row would need a turn, a requeue or the
same attempt. So `BegunOnce` and `OneTurn`: an attempt with a turn is the one its job is at, and
its turn is the task's only one. `GivenUpClosed` and `Followed`: a retry moves the job only off
an attempt that is closed for good, so none it left is open or can be reclaimed.
`ToRequeue` and `ToInterrupt` carry all this through the two transactions of
`requeue_running`, while messages arrive and passes run: nobody works on a row that is still to
be requeued, or on the attempt that was not interrupted yet. They rest on `Fresh`: before the
first `on_ready` nothing in the process works. With messages handled earlier it does not hold,
and neither do the two properties: a job is requeued and its attempt interrupted underneath
the pass or the turn that has it, another pass reclaims it, and the first then fails it.

**The mirror.** `WritersOK` and `EventsOK` say what a coroutine about to announce, and an event
on its way, know of the job: an end that is announced has come. `HandlersOK` says that a row a
handler has read as ended is still the copy, so that a late handler cannot move it.
`AcksOnce` follows the acknowledgement from the coroutine that posts it to the handler that
tells, through the one repetition. `TwinsAgree`, `RunsStraight` and `EndsAgree` carry `EndSeen`:
as long as no reason has come up one run at a time works for the job, every event of an end
says how the job ended, and an end that was recorded is in the copy or about to be.

**The slot.** `SlotInv` has a conjunct for every reason `SlotKept` holds:
`OneHolder` (whoever is in phase 1 is at the head of the line), `EntriesStand` (an entry of the
tables, and a cut, is of a turn that stands where it may have one; an entry of a build's task
may outlive its turn), `Named` (an uncut turn that has registered is what both tables name, also
while it still holds the lock), `Evicted` (the holder awaits whoever still runs uncut; once it
goes on to register, no uncut turn runs) and `AwaitedEnds` itself. Without `Evicted`, `Register`
could overwrite the entry of a turn that runs; without `EntriesStand`, an entry left behind could
be awaited by the turn's own successor. An `Attempt` may overwrite the entry of another turn only
if its own was cut, and the other is then cut too. `OneRun` follows where `cut` stays empty.

**The line and the resume row.** `TypeOK` and `ResumedOnce` need neither of these, but two facts
of their own. `LineInv`: whoever stands in the line is in phase 1 or waits, so an idle turn that
joins is not in it yet, and the line keeps its bound. `ResumeInv`: a resume in hand is one that
was marked and not yet started; its row is read, then deleted, then the turn is spawned, so a
crash in between loses a resume and never doubles one.

**Recovery.** The claim of a row is a lock. `Keys`: a token names one run, and tokens only
grow. `Held`: a run that calls, or decides after a call, has its token in the row, unless the
row is final. So two that call are one (`OneCall`). `Closed`: what was answered is final, and
what was sent is final, parked beyond its window, or held by a run that calls with the flag set or
is about to park: one that can only end.

**Admission.** `AdmissionInv` needs little beyond the properties themselves: who stands in line
waits and is no chat (`LineWaits`), and a cancellation nobody has seen yet is of a coroutine at
its await (`CancelledAwait`), so that what `Unwind` finds neither in line nor woken does not
exist. The work is in `_wake`. `Without` and `Loop` are recursive functions: `Recursion` proves
that such a function exists and obeys its equation, and `Numbers` is induction up to the length
of the line, both by way of a least number (`Least`) from `WFMin`, because the induction
theorems of the library take operators as parameters. `TurnKeeps` then says what one turn
preserves (slots are counted, chosen requests had room and were the best, everyone else keeps
their order), and `LoopEnds` that after as many turns as the line is long nobody in it fits any
more. `AgedGoFirst` compares the state before a wake with the one after it, over all its
turns: a request that is aged stays aged, so the turn that admitted a younger one had to
find it without room.

**Builds.** `BuildInv`: `Places` says where the loop stands when it holds what. `Waited`: from its
reconciliation on it waits for exactly what runs, so a task that owns something in common with
one that runs is compared with it before it starts (`RunningApart`). `OneWorker`: an attempt has
one worker, and only once it is begun; a worker of an attempt that was given up may still work,
and its result meets a later attempt or none. `Landed`: what a worker has merged and checked is
so in the ledger's view of that attempt, which is what `AcceptedLanded` needs when the verdict
comes, or when a restart salvages it between two writes. `Questions` and `Answers`: an answer
is applied to the blocked attempt it was asked about, or to nothing. `AcceptedStays` follows
from the methods of the ledger and these: each of them asks for a state that is not accepted,
but for the one that takes up an edited plan.

**The line.** What makes a start safe is what the code leaves in `_starting` and on disk before
the next await. `Checks`: a checkbox plan past its check has its project to itself. `Booking`:
one start of a plan is past its check, and its build is on record and nowhere else yet.
`Serial`: the line has one start at a time, under its lock, and while the lock is held the
build that counts, one that neither waited nor came back, is the one its holder launched.
`Marked`: whatever of the line's builds waits was marked, so that a closed one that wakes beside
the next is one that had waited. `OnRecord`: a build that waits is on record, so that a death
takes from it nothing that `Kept` needs; one that was forgotten and not yet announced is in `lost`
after it. `Down`: a dead process holds nothing but its files.

**The relay.** The rows are the memory. `InQueue`: a row leaves the queue only after its
activity was done or given up, and what was answered has a row or was given up. `InHand`: what
the puller is about to delete has that reason, and the session that runs is that of the row in
hand. `Remembered`: the id of a session that is over in this life of the host stands in `_seen`, as many
places from the end as ids were remembered since (`Held`), so that the oldest, which goes, is
another while these are fewer than `SeenCapacity`. `Reasons`: what was dropped
was unusable or delivered too often. Under these every step is `Store`, `Work`, `GiveUp`,
`Answer` or nothing of the promise.

### Only model-checked

- Every liveness property (`AnswersSettle`, `ReviewsServed`, `QueuedRuns`, `PendingCloseSettles`,
  `AnswersHeard`, `AttemptsEnd`, `LineMoves`, `Settles`): fairness and ENABLED are out of the
  prover's reach.
- The properties of section 3 that TLC refutes are stated to be refuted: nothing is proved of them
  (`ReviewSlotKept` of Admission, `OwnersApart` of Build, ...).
- `Recovery`, `BuildLine` and `Admission` are proved for the constants the assumptions allow; that
  their code gives the constants such values (a policy, a ceiling) is read, not proved.

## 6. What is left out of the modelled parts

- *HandoffLedger*: status messages and archiving in Discord, summaries, the authority and
  project decisions on a packet (any of them may refuse). `PassLimit` is modelled, but with one
  task no run reaches it. A pass may block a job; nothing in the recipient unblocks one.
- *HandoffMirror*: questions and answers between peers with their sequence gap, sequence numbers
  (an event has an identity, and events come in any order), status messages, prose, archiving.
- *Admission*: an `OSError` from `_save`. It can be raised after the await, leaving a slot that
  nobody releases; it is listed as a hazard.
- *ThreadSlot*: whether the Discord thread is archived (so `reopen` and `Archive` racing over it
  is not seen); two executions of `on_ready` at once; `close_when_idle`, which nothing calls; resume marks made through the API;
  the limit of 50 pending closes per start.
- *Recovery*: the mode without a database, which has neither a second bot nor a restart; how an
  error is told from another (an outcome of the call); the limit of 50 due rows per start. When
  text counts as a block and when not is a choice of each call (`ShowPart`, `ShowBlock`), not the
  event processor's modes.
- *Build*: rounds of checkbox plans, the goal interview, archiving of worker threads, which AI
  takes a step, the morning summary, admission (a worker may wait for a slot for any time).
- *BuildLine*: what a build does while it works (module `Build`), grouping of steps, the
  wording and cards; the clock of a wait for an answer or for capacity, which ends like an answer.
  An `OSError` from `BuildQueue.save` is only logged by the code, and here every save outside a
  death is taken to work; a `RuntimeError` between the record and the launch (the chat cog is
  unloaded while the steps are grouped), which would drop the item of a recorded build, is left out. `Switch` and
  `Close` may close any build they could find, of which the code takes the first and not a
  finished one.
- *Relay*: `NotTwice` promises nothing of an activity without an id, nor once `seen_capacity` ids
  came after it (`puller.py:160`, `189`, `195-198`), and says so. Left out are signatures and HTTP
  (outcomes of a post), the text of a message, back pressure of the
  storage service.

Parts that are not modelled at all, and why, are in `PROJECT.json`; most are I/O, rendering, text
or file-system scans without a state of their own that two actors share. The modules cover the
parts of the code in which such state lives; the share of the whole repository they map is
small, because most of its lines are commands, cards, HTTP handlers and adapters.

## 7. Plan

What is left, in this order:

1. A run of the ledger with early messages and two attempts (a job started before the first
   `on_ready` is requeued under its own turn), and liveness of executor passes: a queued job
   with no packet, reconnect or restart to come.
2. `ThreadSlot` with the archive state of the thread: a reopen undone by `_finalize`, a closed
   thread un-archived by the next message; cleanup before replacement (`claude_chat.py`
   2216-2220); turns resumed before closes are reconciled (1892 and 1901); overlapping
   `on_ready`.
3. The capacity policy that drives `SetCapacity`: pure operators against a reference, then
   composed with `Admission`; a `_save` that fails.
4. Scheduler, attachment outbox, claims and notifications: due rows fetched and marked in loops
   that may overlap.
5. Proofs: that `HandoffMirror`'s recipient is an abstraction of `HandoffLedger` (a refinement
   mapping over the job, its attempts and its result), and bounds on how long a request of
   Admission can be passed over, as a safety property with a counter.
