------------------------------ MODULE BuildLine ------------------------------
(***************************************************************************)
(* How builds start, wait and come back after a restart                    *)
(* (cogs/task_loop.py, build_queue.py, loop_store.py): the line of queued  *)
(* plans, the one coroutine that advances it, the starts of people beside  *)
(* it, the record each build has on disk, and the resumption of the        *)
(* recorded builds.  What a build does while it works is module Build.     *)
(***************************************************************************)
EXTENDS Naturals, Sequences, FiniteSets, SequencesExt

CONSTANTS
    Plans, Projects,
    ProjectOf,      \* [Plans -> Projects]
    Checkbox,       \* the plans without a manifest: one of them at a time in a project
    Queued, Direct, \* bound: the plans put in the line, and those a person starts
    MaxDue, MaxReplies,     \* bounds: calls that wait for the lock, words of a person
    MaxTrouble      \* bound: the failures and deaths; those of a resumption count apart

ASSUME LineAssumption ==
    /\ ProjectOf \in [Plans -> Projects]
    /\ Checkbox \subseteq Plans /\ Queued \subseteq Plans /\ Direct \subseteq Plans
    /\ {MaxDue, MaxReplies, MaxTrouble} \subseteq Nat /\ MaxDue > 0

VARIABLES
    line,       \* _queue.state.waiting, as saved
    records,    \* the LoopStore
    starts,     \* the start_loop calls under way, with what precedes them
    scan,       \* the items _advance_queue has still to look at
    locked,     \* whether it holds _queue_lock
    due,        \* the calls of it that wait for the lock
    working, waiting,   \* _running: at work, or waiting for a person
    keeping,    \* of the waiting: finished, and now being kept or thrown away
    closing,    \* auto_finish is set
    waited,     \* of the running: those the line was told of as waiting at least once
    up, todo,   \* the process; the records resume_all has still to take up
    asked, over,    \* plans ever queued; plans whose build ended, or whose refusal was told
    lost,       \* plans that were dropped with no word to anybody
    begun,      \* how many builds of each plan were put on record
    resumed,    \* of the running: those that a restart brought back
    replies, faults, restarts

line_vars == <<line, scan, locked, due>>
run_vars == <<records, working, waiting, keeping, closing, waited>>
boot_vars == <<up, todo, resumed, restarts>>
told_vars == <<asked, over, lost, begun>>
vars == <<line_vars, starts, run_vars, boot_vars, told_vars, replies, faults>>

Builds == [plan : Plans, queued : BOOLEAN, no : Nat \ {0}]
Starts == [plan : Plans, by : {"queue", "asking", "command"},
           stage : {"arriving", "making", "saved", "sent", "refused"}]

TypeOK ==
    /\ line \in Seq(Queued) /\ scan \in Seq(Queued) /\ locked \in BOOLEAN /\ due \in 0..MaxDue
    /\ starts \subseteq Starts
    /\ records \subseteq Builds /\ todo \subseteq Builds /\ resumed \subseteq Builds
    /\ working \subseteq Builds /\ waiting \subseteq Builds /\ working \cap waiting = {}
    /\ keeping \subseteq waiting
    /\ closing \subseteq working \cup waiting /\ waited \subseteq working \cup waiting
    /\ up \in {"up", "resuming", "down"}
    /\ asked \subseteq Queued /\ over \subseteq Plans /\ lost \subseteq Plans /\ begun \in [Plans -> Nat]
    /\ {replies, faults, restarts} \subseteq Nat

Running == working \cup waiting
SameProject(p, q) == ProjectOf[p] = ProjectOf[q]
QueueStart(s) == s.by = "queue"
\* From the check of _busy to the end of start_loop its key is in _starting.
Begun(s) == s.stage \in {"making", "saved", "sent"}
Bumped == IF due < MaxDue THEN due + 1 ELSE due
\* list.remove: an item stands in the line once at most.
Place(p) == CHOOSE i \in DOMAIN line : line[i] = p
Without(p) == IF p \in Range(line) THEN RemoveAt(line, Place(p)) ELSE line

\* One more thing goes wrong.
Failure == faults + restarts < MaxTrouble /\ faults' = faults + 1

Init ==
    /\ line = <<>> /\ scan = <<>> /\ locked = FALSE /\ due = 0
    /\ starts = {} /\ records = {} /\ working = {} /\ waiting = {}
    /\ keeping = {} /\ closing = {} /\ waited = {}
    /\ up = "up" /\ todo = {} /\ resumed = {} /\ restarts = 0
    /\ asked = {} /\ over = {} /\ lost = {} /\ begun = [p \in Plans |-> 0]
    /\ replies = 0 /\ faults = 0

(***************************************************************************)
(* The line.                                                                *)
(***************************************************************************)
\* enqueue: the item is saved, then the line is advanced.  It does not need the bot ready.
Enqueue(p) ==
    /\ up # "down" /\ p \in Queued \ asked
    /\ line' = Append(line, p) /\ asked' = asked \cup {p} /\ due' = Bumped
    /\ UNCHANGED <<scan, locked, starts, run_vars, boot_vars, over, lost, begun, replies, faults>>

\* Mutant: the next item is started whatever the last one does.
AdvanceAlways ==
    /\ ~ locked /\ due > 0 /\ due' = due - 1
    /\ locked' = TRUE /\ scan' = line
    /\ UNCHANGED <<line, starts, run_vars, boot_vars, told_vars, replies, faults>>

\* _advance_queue, with the lock: nothing while a queued build has waiting_for_person unset.
Advance ==
    /\ ~ locked /\ due > 0 /\ due' = due - 1
    /\ IF \E b \in working : b.queued
       THEN UNCHANGED <<locked, scan>>
       ELSE locked' = TRUE /\ scan' = line
    /\ UNCHANGED <<line, starts, run_vars, boot_vars, told_vars, replies, faults>>

\* A project with a build, a start under way or a person asked about one is passed over.
Open(p) ==
    \/ \E b \in Running : SameProject(b.plan, p)
    \/ \E s \in starts : SameProject(s.plan, p) /\ (Begun(s) \/ s.by = "asking")

\* Mutant: the item leaves the line when it is picked.
LookTakes ==
    /\ locked /\ ~ \E s \in starts : QueueStart(s)
    /\ IF scan = <<>>
       THEN locked' = FALSE /\ UNCHANGED <<line, scan, starts>>
       ELSE /\ scan' = Tail(scan) /\ locked' = locked
            /\ line' = IF Open(Head(scan)) THEN line ELSE Without(Head(scan))
            /\ starts' = IF Open(Head(scan)) THEN starts
                         ELSE starts \cup {[plan |-> Head(scan), by |-> "queue", stage |-> "arriving"]}
    /\ UNCHANGED <<due, run_vars, boot_vars, told_vars, replies, faults>>

Look ==
    /\ locked /\ ~ \E s \in starts : QueueStart(s)
    /\ IF scan = <<>>
       THEN locked' = FALSE /\ UNCHANGED <<scan, starts>>
       ELSE /\ scan' = Tail(scan) /\ locked' = locked
            /\ starts' = IF Open(Head(scan)) THEN starts
                         ELSE starts \cup {[plan |-> Head(scan), by |-> "queue", stage |-> "arriving"]}
    /\ UNCHANGED <<line, due, run_vars, boot_vars, told_vars, replies, faults>>

\* The item's project is none any more, or the channel that queued it cannot be had: it is
\* taken from the line, and nobody is told.
Drop ==
    /\ Failure /\ locked /\ scan # <<>> /\ ~ \E s \in starts : QueueStart(s)
    /\ scan' = Tail(scan) /\ line' = Without(Head(scan)) /\ lost' = lost \cup {Head(scan)}
    /\ UNCHANGED <<locked, due, starts, run_vars, boot_vars, asked, over, begun, replies>>

(***************************************************************************)
(* start_loop, for the line and for a person: start_asking holds the        *)
(* project while it asks which AI to use, /gowork does not.                 *)
(***************************************************************************)
Arrive(p, by) ==
    /\ up # "down" /\ p \in Direct /\ by \in {"asking", "command"}
    /\ begun[p] = 0 /\ p \notin over     \* bound: refused or built, it is not tried again
    /\ ~ \E s \in starts : s.plan = p
    /\ starts' = starts \cup {[plan |-> p, by |-> by, stage |-> "arriving"]}
    /\ UNCHANGED <<line_vars, run_vars, boot_vars, told_vars, replies, faults>>

\* _close_for_switch: a person's start of a checkbox plan closes the project's open one.
Switch(s) ==
    /\ s \in starts /\ s.stage = "arriving" /\ ~ QueueStart(s) /\ s.plan \in Checkbox
    /\ \E b \in Running :
           /\ SameProject(b.plan, s.plan) /\ b.plan \in Checkbox
           /\ b.plan # s.plan \/ b \in waiting
           /\ b \notin closing /\ closing' = closing \cup {b}
    /\ UNCHANGED <<line_vars, starts, records, working, waiting, keeping, waited, boot_vars,
                   told_vars, replies, faults>>

\* Mutant: a start under way in the project does not count.
BusyRunning(s) ==
    \/ \E b \in Running : b.plan = s.plan
    \/ s.plan \in Checkbox /\ \E b \in Running : SameProject(b.plan, s.plan)

Busy(s) ==
    \/ \E b \in Running : b.plan = s.plan
    \/ \E r \in starts : r.plan = s.plan /\ Begun(r)
    \/ /\ s.plan \in Checkbox
       /\ \/ \E b \in Running : SameProject(b.plan, s.plan)
          \/ \E r \in starts : SameProject(r.plan, s.plan) /\ Begun(r)

Moved(s, stage) == (starts \ {s}) \cup {[s EXCEPT !.stage = stage]}

\* A ValueError.  The line takes the item out and then says so, still holding the lock; a
\* person's start is over with the answer.
Fails(s) ==
    /\ IF QueueStart(s)
       THEN line' = Without(s.plan) /\ starts' = Moved(s, "refused") /\ UNCHANGED over
       ELSE starts' = starts \ {s} /\ over' = over \cup {s.plan} /\ UNCHANGED line
    /\ UNCHANGED <<scan, locked, due, run_vars, boot_vars, asked, lost, begun, replies>>

\* "Couldn't start queued ...": then the next item is looked at.
Tell(s) ==
    /\ s \in starts /\ s.stage = "refused"
    /\ starts' = starts \ {s} /\ over' = over \cup {s.plan}
    /\ UNCHANGED <<line_vars, run_vars, boot_vars, asked, lost, begun, replies, faults>>

\* From here to the next await: refused, or the key is in _starting.
Begin(s) ==
    /\ s \in starts /\ s.stage = "arriving"
    /\ IF Busy(s) THEN Fails(s)
       ELSE /\ starts' = Moved(s, "making")
            /\ UNCHANGED <<line_vars, run_vars, boot_vars, told_vars, replies>>
    /\ UNCHANGED faults

\* The plan cannot be read, has no tasks, or no copy of the project can be made.
Refuse(s) ==
    /\ s \in starts /\ s.stage \in {"arriving", "making"}
    /\ Failure /\ Fails(s)

\* Discord fails while the thread is made or the start is told: whatever has been started,
\* the item stays in the line.
Hiccup(s) ==
    /\ s \in starts /\ Begun(s) /\ Failure
    /\ starts' = starts \ {s}
    /\ IF QueueStart(s) THEN locked' = FALSE /\ scan' = <<>> ELSE UNCHANGED <<locked, scan>>
    /\ UNCHANGED <<line, due, run_vars, boot_vars, told_vars, replies>>

BuildOf(s) == [plan |-> s.plan, queued |-> QueueStart(s), no |-> begun[s.plan]]

Save(s) ==
    /\ s \in starts /\ s.stage = "making"
    /\ begun' = [begun EXCEPT ![s.plan] = @ + 1]
    /\ records' = records \cup {[BuildOf(s) EXCEPT !.no = @ + 1]}
    /\ starts' = Moved(s, "saved")
    /\ UNCHANGED <<line_vars, working, waiting, keeping, closing, waited, boot_vars, asked, over,
                   lost, replies, faults>>

\* _launch, once the steps are grouped.
Launch(s) ==
    /\ s \in starts /\ s.stage = "saved"
    /\ working' = working \cup {BuildOf(s)} /\ starts' = Moved(s, "sent")
    /\ UNCHANGED <<line_vars, records, waiting, keeping, closing, waited, boot_vars, told_vars,
                   replies, faults>>

\* The start is told, and the item leaves the line.
Return(s) ==
    /\ s \in starts /\ s.stage = "sent" /\ starts' = starts \ {s}
    /\ IF QueueStart(s)
       THEN line' = Without(s.plan) /\ locked' = FALSE /\ scan' = <<>>
       ELSE UNCHANGED <<line, locked, scan>>
    /\ UNCHANGED <<due, run_vars, boot_vars, told_vars, replies, faults>>

(***************************************************************************)
(* A build (_drive), as far as the line and the records see it.             *)
(***************************************************************************)
\* Only a queued build has the line advanced, and only such a one is marked as waiting.
Calls(b) == due' = IF b.queued THEN Bumped ELSE due
QueueWaiting(b) == Calls(b) /\ waited' = IF b.queued THEN waited \cup {b} ELSE waited

\* Mutant: the line is not told.
WaitsQuietly(b) ==
    /\ b \in (working \cap records) \ closing
    /\ working' = working \ {b} /\ waiting' = waiting \cup {b}
    /\ waited' = IF b.queued THEN waited \cup {b} ELSE waited
    /\ UNCHANGED <<line_vars, starts, records, keeping, closing, boot_vars, told_vars, replies,
                   faults>>

\* ask, _limit_hit, _park or the finished card; a build being closed waits for nobody.
Waits(b) ==
    /\ b \in (working \cap records) \ closing
    /\ working' = working \ {b} /\ waiting' = waiting \cup {b} /\ QueueWaiting(b)
    /\ UNCHANGED <<line, scan, locked, starts, records, keeping, closing, boot_vars, told_vars,
                   replies, faults>>

\* An answer, or the end of a wait for capacity.
Answer(b) ==
    /\ b \in waiting \ (closing \cup keeping) /\ replies < MaxReplies /\ replies' = replies + 1
    /\ working' = working \cup {b} /\ waiting' = waiting \ {b}
    /\ UNCHANGED <<line_vars, starts, records, keeping, closing, waited, boot_vars, told_vars,
                   faults>>

\* "Looks good" or "throw it away" to the finished card: while that is done the build is
\* still marked as waiting.
Keeps(b) ==
    /\ b \in waiting \ (closing \cup keeping) /\ replies < MaxReplies /\ replies' = replies + 1
    /\ keeping' = keeping \cup {b}
    /\ UNCHANGED <<line_vars, starts, records, working, waiting, closing, waited, boot_vars,
                   told_vars, faults>>

\* "close" in the build's thread; the loss of that thread makes the build close itself.
Close(b) ==
    /\ b \in Running \ (closing \cup keeping) /\ replies < MaxReplies /\ replies' = replies + 1
    /\ closing' = closing \cup {b}
    /\ UNCHANGED <<line_vars, starts, records, working, waiting, keeping, waited, boot_vars,
                   told_vars, faults>>

\* A waiting build that is closed: a parked one is at work again, to keep what is finished,
\* beside what the line started meanwhile; a finished one is kept.
Wakes(b) ==
    /\ b \in (waiting \cap closing) \ keeping
    /\ \/ working' = working \cup {b} /\ waiting' = waiting \ {b} /\ UNCHANGED keeping
       \/ keeping' = keeping \cup {b} /\ UNCHANGED <<working, waiting>>
    /\ UNCHANGED <<line_vars, starts, records, closing, waited, boot_vars, told_vars, replies,
                   faults>>

\* A build that is closed comes to its end by itself: its card waits for nobody.
Finishes(b) ==
    /\ b \in working \cap records \cap closing
    /\ working' = working \ {b} /\ waiting' = waiting \cup {b} /\ keeping' = keeping \cup {b}
    /\ QueueWaiting(b)
    /\ UNCHANGED <<line, scan, locked, starts, records, closing, boot_vars, told_vars, replies,
                   faults>>

\* What is finished cannot be kept: a build closed early is parked after all, a finished one
\* waits for another word.  (A finished one that is closed ends all the same.)
KeepFails(b) ==
    /\ b \in records \cap ((working \cap closing) \cup (keeping \ closing))
    /\ Failure
    /\ working' = working \ {b} /\ waiting' = waiting \cup {b}
    /\ keeping' = keeping \ {b} /\ closing' = closing \ {b}
    /\ IF b \in working THEN QueueWaiting(b) ELSE UNCHANGED <<due, waited>>
    /\ UNCHANGED <<line, scan, locked, starts, records, boot_vars, told_vars, replies>>

\* The entry of a build goes.
Popped(b) ==
    /\ working' = working \ {b} /\ waiting' = waiting \ {b} /\ keeping' = keeping \ {b}
    /\ closing' = closing \ {b} /\ waited' = waited \ {b} /\ resumed' = resumed \ {b}
    /\ over' = over \cup {b.plan} /\ Calls(b)
    /\ UNCHANGED <<line, scan, locked, starts, up, todo, restarts, asked, lost, begun, replies>>

\* Kept, wrapped up or thrown away: its record goes, and then it does.
Ends(b) ==
    /\ b \in records \cap (working \cup keeping) /\ records' = records \ {b}
    /\ Popped(b) /\ UNCHANGED faults

\* Crashed, or its copy is gone: the record goes, and it is running until that was said.
Forgets(b) ==
    /\ b \in records \cap (working \cup keeping) /\ records' = records \ {b}
    /\ Failure
    /\ UNCHANGED <<line_vars, starts, working, waiting, keeping, closing, waited, boot_vars,
                   told_vars, replies>>

Gone(b) ==
    /\ b \in Running \ records /\ UNCHANGED <<records, faults>>
    /\ Popped(b)

(***************************************************************************)
(* Restarts.                                                                *)
(***************************************************************************)
\* The file of the line is written in place: a death while it is written leaves an empty
\* line.  What was about to be said is never said.
Crash ==
    /\ up # "down" /\ faults + restarts < MaxTrouble /\ restarts' = restarts + 1
    /\ up' = "down" /\ todo' = {} /\ starts' = {} /\ scan' = <<>> /\ locked' = FALSE /\ due' = 0
    /\ working' = {} /\ waiting' = {} /\ keeping' = {} /\ closing' = {} /\ waited' = {}
    /\ \E torn \in BOOLEAN :
           /\ line' = IF torn THEN <<>> ELSE line
           /\ lost' = lost \cup {s.plan : s \in {r \in starts : r.stage = "refused"}}
                           \cup {b.plan : b \in Running \ records}
                           \cup (IF torn THEN Range(line) ELSE {})
    /\ resumed' = {} /\ UNCHANGED <<records, asked, over, begun, replies, faults>>

\* cog_load: the bot is ready, and resume_all has read the records.
Restart ==
    /\ up = "down" /\ up' = "resuming" /\ todo' = records
    /\ UNCHANGED <<line_vars, starts, run_vars, resumed, restarts, told_vars, replies, faults>>

\* A build whose thread cannot be had, now or ever, is forgotten, and somebody is told if
\* they can be; one whose copy is gone is forgotten without a word.
Resume(b) ==
    /\ up = "resuming" /\ b \in todo /\ todo' = todo \ {b}
    /\ \/ /\ working' = working \cup ({b} \ Running) /\ resumed' = resumed \cup {b}
          /\ UNCHANGED <<records, over, lost, faults>>
       \/ /\ b \notin Running /\ faults' = faults + 1
          /\ records' = records \ {b}
          /\ \/ over' = over \cup {b.plan} /\ UNCHANGED lost
             \/ lost' = lost \cup {b.plan} /\ UNCHANGED over
          /\ UNCHANGED <<working, resumed>>
    /\ UNCHANGED <<line_vars, starts, waiting, keeping, closing, waited, up, restarts, asked,
                   begun, replies>>

\* resume_all raises: the other records wait for the next restart, the line for the next call.
Stops ==
    /\ up = "resuming" /\ up' = "up" /\ todo' = {} /\ faults' = faults + 1
    /\ UNCHANGED <<line_vars, starts, run_vars, resumed, restarts, told_vars, replies>>

Resumed ==
    /\ up = "resuming" /\ todo = {} /\ up' = "up" /\ due' = Bumped
    /\ UNCHANGED <<line, scan, locked, starts, run_vars, todo, resumed, restarts, told_vars, replies, faults>>

Starting == \E s \in starts : Begin(s) \/ Save(s) \/ Launch(s) \/ Return(s) \/ Tell(s)
Person == \/ \E p \in Plans, by \in {"asking", "command"} : Enqueue(p) \/ Arrive(p, by)
          \/ \E s \in starts : Switch(s)
          \/ \E b \in Running : Answer(b) \/ Keeps(b) \/ Close(b)
Fault == \/ Crash \/ Drop \/ Stops
         \/ \E s \in starts : Refuse(s) \/ Hiccup(s)
         \/ \E b \in Running : KeepFails(b)
Recover == Restart \/ Resumed \/ \E b \in todo : Resume(b)
Building == \E b \in Running :
    Waits(b) \/ Wakes(b) \/ Finishes(b) \/ Ends(b) \/ Forgets(b) \/ Gone(b)

Next == Advance \/ Look \/ Starting \/ Person \/ Fault \/ Recover \/ Building
Spec == Init /\ [][Next]_vars

\* Coroutines are scheduled, a bot that died is started, and a build at work ends or stops.
Fairness ==
    /\ WF_vars(Advance) /\ WF_vars(Look) /\ WF_vars(Starting) /\ WF_vars(Recover)
    /\ WF_vars(Building)
FairSpec == Spec /\ Fairness

(***************************************************************************)
(* Properties.                                                              *)
(***************************************************************************)
\* A plan that was queued is in the line, or a build of it is on record or running, or came to
\* its end, or it was refused and that is told, unless it was dropped for a reason this names:
\* lost holds the items _advance_queue takes without a word (no project, no channel), the
\* builds whose copy was gone at a restart, and what a death took before it could be said or
\* while the line was written.
Kept ==
    \A p \in asked :
        \/ p \in Range(line) \/ p \in over \/ p \in lost
        \/ \E b \in records \cup Running : b.plan = p
        \/ \E s \in starts : s.plan = p /\ s.stage = "refused"

\* Back to back: of two builds of the line that are at work or being kept, at least one had
\* waited for a person before, or was brought back by a restart.
OneAtATime ==
    \A b, c \in working \cup keeping :
        b.queued /\ c.queued /\ b # c => {b, c} \cap (resumed \cup waited) # {}

\* Checkbox builds share nothing with another one in their project: not even the builds
\* that were started while others were being set up or closed.
CheckboxAlone ==
    \A b, c \in Running :
        b # c /\ {b.plan, c.plan} \subseteq Checkbox /\ SameProject(b.plan, c.plan)
            => {b, c} \cap resumed # {}

\* A build that waits for a person is on record: whenever the process dies, a restart takes
\* the question up again.  (One at work need not be: _drive removes the record first.)
OnRecord == waiting \ keeping \subseteq records

\* "Stored as one JSON file so a restart keeps the line" (build_queue.py:6): no queued plan
\* goes without a word.
LineSurvives == faults = 0 => lost \cap asked = {}

\* The line moves: a queued plan leaves it unless its project is held, or a start failed, or
\* a build that the line does not know ran beside it.
Held(p) == \E b \in Running : SameProject(b.plan, p)
Troubled == faults > 0 \/ \E p \in Plans : begun[p] > 0 /\ p \notin Queued
LineMoves == \A p \in Queued : []<>(p \notin Range(line) \/ Held(p) \/ Troubled)

\* As enqueue says it: "it starts when the builds ahead are done or waiting".
LineMovesAlways ==
    \A p \in Queued : []<>(p \notin Range(line) \/ Running # {} \/ faults > 0)

\* An item is only dropped when its plan cannot be built, nobody else's start being one.
OnlyTheUnbuildableDropped ==
    \A p \in asked : p \in Range(line) \/ begun[p] > 0 \/ p \in lost \/ faults > 0

\* A repeated request never opens a second build of a plan.
OneBuildPerPlan == \A b, c \in Running : b.plan = c.plan => b = c

\* A queued plan is built once.
BuiltOnce == \A p \in Queued \ Direct : begun[p] <= 1
=============================================================================
