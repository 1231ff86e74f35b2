---------------------------- MODULE HandoffMirror ----------------------------
(***************************************************************************)
(* One handoff seen from both computers.  The recipient moves its job and  *)
(* announces each move in the job thread (handoff_progress.py); the origin *)
(* keeps a copy of the job, created by send_task and moved by what it      *)
(* reads in the thread (_receive_event and _mirror_for_origin of           *)
(* cogs/agent_handoff.py, apply_event of handoffs/state.py).               *)
(*                                                                         *)
(* HandoffLedger has the recipient's tables and the windows between its    *)
(* transactions; here each of its moves is one step, and the coroutine     *)
(* that moved then announces.  discord.py runs the handler of every        *)
(* message as a task of its own, so handlers interleave at each await.     *)
(***************************************************************************)
EXTENDS HandoffState, FiniteSets

CONSTANTS
    MaxInFlight,    \* bound: messages posted whose handling is not over
    Repeatable,     \* bound: what a message that is handed over twice may say
    MaxCrashes      \* bound: deaths of either process

ASSUME MirrorAssumption == MaxInFlight \in Nat /\ MaxCrashes \in Nat

VARIABLES
    starter,    \* of send_task: "none", "recorded", "posted"
    copy,       \* the origin's row of handoff_tasks: its state, or "absent"
    seen,       \* ids in the origin's handoff_events
    told,       \* history: acknowledgements posted to the origin conversation
    handling,   \* the origin's message handlers at work
    job,        \* the recipient's row of handoff_tasks
    result,     \* its row of handoff_results: the outcome, or "none"
    turn,       \* a worker turn runs in the recipient's process
    unready,    \* the process has not reconciled yet (not _restart_reconciled)
    writer,     \* the recipient's coroutines that move the job
    channel,    \* events in the job thread that the origin has not been handed
    astray,     \* history: there is a reason why the copy may not learn of the end
    repeated,   \* a message has been handed over twice (bound: one is)
    crashes

sender == <<starter, copy>>
origin == <<starter, copy, seen, told, handling>>
ledger == <<job, result>>
recipient == <<job, result, turn, unready, writer>>
bounds == <<repeated, crashes>>
vars == <<origin, recipient, channel, astray, bounds>>

\* The coroutines: a receipt (_receive_task or _discover_starter), the executor pass, the
\* result sink of a turn, the reconciliation of on_ready.
Writers == {"receipt", "pass", "sink", "boot"}
Says == States \cup {"ack"}
\* An id matters only where an event comes again: the result, which is announced by each
\* transition that ends the job, and the message that is repeated.  The other events are "once".
\* The repetition is told from the first delivery by again; no code looks at it.
Ids == {"once", "twice", "result"}
Events == [id : Ids, says : Says, again : BOOLEAN]
Handlers == [at : {"record", "save", "tell"}, event : Events, row : States \cup {"absent"}]
Stages == {"idle", "announce", "spawn", "retry", "finish"}
Idle == [at |-> "idle", trigger |-> "ack"]

TypeOK ==
    /\ starter \in {"none", "recorded", "posted"}
    /\ copy \in States \cup {"absent"} /\ seen \subseteq Ids \ {"once"} /\ told \in Nat
    /\ handling \subseteq Handlers
    /\ job \in Job /\ result \in TerminalStates \cup {"none"}
    /\ turn \in BOOLEAN /\ unready \in BOOLEAN
    /\ writer \in [Writers -> [at : Stages, trigger : Triggers \cup {"ack"}]]
    /\ channel \subseteq Events
    /\ astray \in BOOLEAN /\ crashes \in 0..MaxCrashes /\ repeated \in BOOLEAN

Init ==
    /\ starter = "none" /\ copy = "absent" /\ seen = {} /\ told = 0
    /\ handling = {}
    /\ job = NoJob /\ result = "none" /\ turn = FALSE /\ unready = TRUE
    /\ writer = [w \in Writers |-> Idle]
    /\ channel = {} /\ astray = FALSE /\ crashes = 0 /\ repeated = FALSE

Strays(cond) == astray' = (astray \/ cond)
InFlight == Cardinality(channel) + Cardinality(handling)
Ends(event) == event.says \in TerminalStates

-----------------------------------------------------------------------------
(* The origin sends: the ledger first, then one starter in the channel.        *)

RecordTask ==
    /\ starter = "none"
    /\ starter' = "recorded" /\ copy' = "accepted"
    /\ UNCHANGED <<seen, told, handling, recipient, channel, astray, bounds>>

PostStarter ==
    /\ starter = "recorded"
    /\ starter' = "posted"
    /\ UNCHANGED <<copy, seen, told, handling, recipient, channel, astray, bounds>>

-----------------------------------------------------------------------------
(* The recipient moves the job, and the coroutine that moved it announces it.  *)

Resumes(w, stage, tr) == writer' = [writer EXCEPT ![w] = [at |-> stage, trigger |-> tr]]
Rests(w) == writer' = [writer EXCEPT ![w] = Idle]
At(w, stage) == writer[w].at = stage

\* Apply a legal trigger, save it and go on to announce it.
Move(w, tr, retryable) ==
    /\ Legal(job, tr)
    /\ job' = Apply(job, tr, retryable)
    /\ Resumes(w, "announce", tr)

\* The task is stored once, whether its starter was read live or found by a scan.
Receive ==
    /\ starter = "posted" /\ job = NoJob /\ At("receipt", "idle")
    /\ job' = AcceptedJob
    /\ Resumes("receipt", "announce", "ack")
    /\ UNCHANGED <<origin, result, turn, unready, channel, astray, bounds>>

\* A pass refuses, postpones or starts the job.
PassMoves ==
    /\ At("pass", "idle") /\ job.state \in {"accepted", "queued"}
    /\ \E tr \in {"expire", "block", "capacity_wait", "start"} :
          /\ tr = "capacity_wait" => ~job.waiting
          /\ Move("pass", tr, FALSE)
    /\ UNCHANGED <<origin, result, turn, unready, channel, astray, bounds>>

Spawn ==
    /\ At("pass", "spawn")
    /\ turn' = TRUE
    /\ Rests("pass")
    /\ UNCHANGED <<origin, ledger, unready, channel, astray, bounds>>

\* _fail_attempt; a job that has moved meanwhile is left alone.
SpawnFails ==
    /\ At("pass", "spawn")
    /\ \/ job.state = "running" /\ Move("pass", "fail", TRUE)
       \/ job.state # "running" /\ Rests("pass") /\ UNCHANGED job
    /\ UNCHANGED <<origin, result, turn, unready, channel, astray, bounds>>

Retry ==
    /\ At("pass", "retry")
    /\ Move("pass", "retry", FALSE)
    /\ Strays(TRUE)
    /\ UNCHANGED <<origin, result, turn, unready, channel, bounds>>

\* record_result keeps the first outcome; who comes second stops there.
TurnEnds ==
    /\ turn /\ At("sink", "idle")
    /\ turn' = FALSE
    /\ \E outcome \in TerminalStates :
          \/ /\ result = "none" /\ result' = outcome
             /\ Resumes("sink", "finish", IF outcome = "failed" THEN "fail" ELSE "complete")
          \/ result # "none" /\ UNCHANGED <<result, writer>>
    /\ UNCHANGED <<origin, job, unready, channel, astray, bounds>>

\* _finish_job: a transition that is not legal raises out of the sink.
Finish ==
    /\ At("sink", "finish")
    /\ \/ Move("sink", writer["sink"].trigger, FALSE)
       \/ ~Legal(job, writer["sink"].trigger) /\ Rests("sink") /\ UNCHANGED job
    /\ UNCHANGED <<origin, result, turn, unready, channel, astray, bounds>>

\* A message handled before on_ready has started the job: its turn runs on under the requeue.
LiveTurn == turn \/ writer["pass"].trigger = "start"

\* The first on_ready of a process requeues what the last one left running.
Reconcile ==
    /\ unready /\ At("boot", "idle")
    /\ unready' = FALSE
    /\ \/ Move("boot", "restart_reconcile", FALSE) /\ Strays(result # "none" \/ LiveTurn)
       \/ job.state # "running" /\ UNCHANGED <<job, writer, astray>>
    /\ UNCHANGED <<origin, result, turn, channel, bounds>>

\* _event_for: a job that ended shows the result event that is stored, if one is.  There is
\* one of a task.
ShowsResult(tr) == tr # "ack" /\ Target[tr] \in TerminalStates /\ result # "none"

\* The mutant: the outcome is read with a default, as the courier of a result words it.
AnnouncedAsDone(tr) ==
    IF tr = "ack" THEN "ack"
    ELSE IF Target[tr] \notin TerminalStates THEN Target[tr]
    ELSE IF result = "failed" THEN "failed" ELSE "completed"

Announced(tr) == IF tr = "ack" THEN "ack" ELSE IF ShowsResult(tr) THEN result ELSE Target[tr]

\* What a coroutine does once it has announced.
GoesOn(w) ==
    IF writer[w].trigger = "start" THEN Resumes(w, "spawn", "start")
    ELSE IF w = "pass" /\ writer[w].trigger = "fail" /\ CanRetry(job) THEN Resumes(w, "retry", "retry")
    ELSE Rests(w)

Ending(w) == At(w, "announce") /\ Announced(writer[w].trigger) \in TerminalStates

\* The event is recorded and posted.  A thread that is not known or not reachable, a sequence
\* that is used up: a log line.  So is, for the origin, what is posted while it is away: it
\* scans for starters only.
Announce(w) ==
    LET tr == writer[w].trigger
        event == [id |-> IF ShowsResult(tr) THEN "result" ELSE "once", says |-> Announced(tr),
                  again |-> FALSE]
    IN  /\ At(w, "announce")
        /\ \/ /\ InFlight < MaxInFlight
              /\ channel' = channel \cup {event} /\ UNCHANGED astray
           \/ UNCHANGED channel /\ Strays(Ends(event))
        /\ GoesOn(w)
        /\ UNCHANGED <<origin, ledger, turn, unready, bounds>>

\* The recipient's process dies; what it had not announced never is.
RecipientDies ==
    /\ crashes < MaxCrashes /\ crashes' = crashes + 1
    /\ writer' = [w \in Writers |-> Idle] /\ turn' = FALSE /\ unready' = TRUE
    /\ Strays(\E w \in Writers : Ending(w))
    /\ UNCHANGED <<origin, ledger, channel, repeated>>

-----------------------------------------------------------------------------
(* The origin reads the thread.  m is one handler at work.                     *)

Turns(m, stage, row) ==
    handling' = (handling \ {m}) \cup {[at |-> stage, event |-> m.event, row |-> row]}
Done(m) == handling' = handling \ {m}

\* A message is handed to a handler, which reads the row; an event of a task the ledger does not
\* know is dropped.  A message may be handed over twice.  The handlers read in any order: a
\* message stays in the channel until its handler has read.
Begin(event) ==
    IF copy = "absent" THEN UNCHANGED handling
    ELSE handling' = handling \cup {[at |-> "record", event |-> event, row |-> copy]}

Deliver ==
    \E event \in channel :
        LET again == [event EXCEPT !.id = IF @ = "once" THEN "twice" ELSE @]
        IN  /\ \/ Begin(event) /\ channel' = channel \ {event} /\ UNCHANGED repeated
               \/ /\ ~repeated /\ InFlight < MaxInFlight /\ event.says \in Repeatable /\ repeated' = TRUE
                  /\ Begin(again)
                  /\ channel' = (channel \ {event}) \cup {[again EXCEPT !.again = TRUE]}
            /\ UNCHANGED <<sender, seen, told, recipient, astray, crashes>>

\* An acknowledgement moves nothing.
Then(event) == IF event.says = "ack" THEN "tell" ELSE "save"

\* The mutant: what record_event answers is not looked at.
RecordEventAnyway(m) ==
    /\ m.at = "record"
    /\ seen' = seen \cup ({m.event.id} \ {"once"}) /\ Turns(m, Then(m.event), m.row)
    /\ UNCHANGED <<sender, told, recipient, channel, astray, bounds>>

\* record_event; a redelivered event is reported and not applied.
RecordEvent(m) ==
    /\ m.at = "record"
    /\ \/ m.event.id \in seen /\ Done(m) /\ UNCHANGED seen
       \/ /\ m.event.id \notin seen
          /\ seen' = seen \cup ({m.event.id} \ {"once"}) /\ Turns(m, Then(m.event), m.row)
    /\ UNCHANGED <<sender, told, recipient, channel, astray, bounds>>

\* _MIRROR_TRIGGERS; nothing mirrors to "accepted", which apply_event refuses.
MirrorTrigger ==
    [s \in States \ {"accepted"} |->
        CASE s = "queued"    -> "capacity_wait"
          [] s = "running"   -> "start"
          [] s = "blocked"   -> "block"
          [] s = "completed" -> "complete"
          [] OTHER           -> "fail"]

\* The mutant: a copy is moved by the rules of a job.
MirrorFromAsLocal(tr) == AllowedFrom[tr]

\* An observer may have missed what came before (_MIRROR_FROM).
MirrorFrom(tr) == IF tr \in {"complete", "capacity_wait"} THEN NonterminalStates ELSE AllowedFrom[tr]

\* By the states; how long the summary of a result is, NoteTooLong tells.
Applies(says, row) == says # row /\ row \in MirrorFrom(MirrorTrigger[says])

\* The mutant: save_transition without its WHERE clause.
SaveCopyBlindly(m) ==
    /\ m.at = "save"
    /\ copy' = IF Applies(m.event.says, m.row) THEN m.event.says ELSE copy
    /\ Done(m)
    /\ UNCHANGED <<starter, seen, told, recipient, channel, astray, bounds>>

\* apply_event on the row the handler read, and save_transition, which moves the row only if
\* that is still its state.  When it is not, nobody reads it again.
SaveCopy(m) ==
    LET applies == Applies(m.event.says, m.row)
    IN  /\ m.at = "save"
        /\ copy' = IF applies /\ copy = m.row THEN m.event.says ELSE copy
        /\ Strays(applies /\ copy # m.row /\ Ends(m.event))
        /\ Done(m)
        /\ UNCHANGED <<starter, seen, told, recipient, channel, bounds>>

\* apply_event takes the summary of a result for the note of the move and cleans it first: one
\* that is longer than a note may be (a summary may be three times that) raises what
\* _mirror_for_origin does not catch, after the event was recorded, and the handler ends.  A
\* result is recorded once, so this is the one place that reads the length.
NoteTooLong(m) ==
    /\ m.at = "save" /\ m.event.id = "result" /\ m.event.says # m.row
    /\ Strays(TRUE)
    /\ Done(m)
    /\ UNCHANGED <<sender, seen, told, recipient, channel, bounds>>

\* The origin conversation is told, if it can be reached.
Tell(m) ==
    /\ m.at = "tell"
    /\ told' = told + 1
    /\ Done(m)
    /\ UNCHANGED <<sender, seen, recipient, channel, astray, bounds>>

\* The origin's process dies with the handlers it runs; a recorded event is not applied later.
OriginDies ==
    /\ crashes < MaxCrashes /\ crashes' = crashes + 1
    /\ handling' = {}
    /\ Strays(\E m \in handling : Ends(m.event))
    /\ UNCHANGED <<sender, seen, told, recipient, channel, repeated>>

-----------------------------------------------------------------------------
Next ==
    \/ RecordTask \/ PostStarter
    \/ Receive \/ PassMoves \/ Spawn \/ SpawnFails \/ Retry \/ TurnEnds \/ Finish \/ Reconcile
    \/ \E w \in Writers : Announce(w)
    \/ Deliver \/ \E m \in handling : RecordEvent(m) \/ SaveCopy(m) \/ NoteTooLong(m) \/ Tell(m)
    \/ RecipientDies \/ OriginDies

Spec == Init /\ [][Next]_vars

EndOnItsWay ==
    \/ \E w \in Writers : Ending(w)
    \/ \E event \in channel : Ends(event)
    \/ \E m \in handling : Ends(m.event)

-----------------------------------------------------------------------------
(* Handlers of a late event work on a row they read before a newer one was saved: once the copy *)
(* has ended, no handler moves it again (save_transition in _mirror_for_origin).               *)
CopyEnds == [][(copy \in TerminalStates) => (copy' = copy)]_copy

(* The copy says completed only where that answer is recorded, and failed only where it is, or  *)
(* where the job has failed: whatever was lost, repeated or overtaken, it invents no end.       *)
EndIsTrue ==
    /\ copy = "completed" => result = "completed"
    /\ copy = "failed" => \/ result = "failed"
                          \/ job.state = "failed" \/ job.attempt > 1

(* The conversation that asked is told of the acceptance once, though the starter and the       *)
(* acknowledgement may be delivered again while a first delivery is being handled.              *)
ToldOnce == told <= 1

(* A job that ends is seen to end as it did, or its end is on its way (_MIRROR_FROM,            *)
(* _mirror_for_origin), unless the announcement of the end itself was not made or not read,     *)
(* lost the race for the row, was a result whose summary is too long to be a note (NoteTooLong: *)
(* the copy of such a job never ends), or the job went on after it (a retry, a rerun after a    *)
(* crash, a turn that was requeued): nothing lost, late, repeated or overtaken before the end   *)
(* keeps the copy from it.                                                                      *)
EndSeen == (job.state \in TerminalStates /\ ~astray) => (copy = job.state \/ EndOnItsWay)
=============================================================================
