------------------------------ MODULE Admission ------------------------------
(***************************************************************************)
(* claude_code_core/gowork_admission.py: the one controller that admits    *)
(* tasks, reviews and chats to this host.  Every method runs to its end    *)
(* without an await, but for _acquire, which waits on the future of its    *)
(* waiter: a request can be cancelled before it is chosen, and again       *)
(* between being chosen and running.                                       *)
(***************************************************************************)
EXTENDS Naturals, FiniteSets, Sequences, FiniteSetsExt, SequencesExt

CONSTANTS
    Requests,       \* coroutines that reserve, hold and release slots, over and over
    Builds,         \* builds they work for
    Kind,           \* [Requests -> Kinds]
    Build,          \* [Requests -> Builds]
    Unblocks,       \* [Requests -> Nat]: how much other work each would unblock
    Capacity,       \* the ceiling the controller is built with
    ReviewReserve,  \* the slots it keeps back for reviews
    Capacities,     \* what set_capacity may be called with
    AgeLimit,       \* AGE_LIMIT: 3
    MaxRestarts     \* bound of the model

Kinds == {"task", "review", "chat"}

ASSUME AdmissionAssumption ==
    /\ IsFiniteSet(Requests) /\ Kind \in [Requests -> Kinds]
    /\ Build \in [Requests -> Builds]
    /\ Unblocks \in [Requests -> Nat]
    /\ Capacities \subseteq Nat \ {0} /\ Capacity \in Capacities
    /\ ReviewReserve \in 0..(Capacity - 1)
    /\ AgeLimit \in Nat \ {0}
    /\ MaxRestarts \in Nat

VARIABLES
    capacity, reserve,  \* _capacity, _review_reserve
    held,               \* _held
    line,               \* _waiting, in order of arrival
    passed,             \* _Waiter.passed_over; 0 without a waiter
    fairness,           \* Fairness.passed_over by build, in memory
    disk,               \* and in gowork-admission.json
    state,              \* where each request's coroutine stands
    cancelled,          \* those whose task was cancelled and has not unwound yet
    restarts

queue == <<held, line, passed, fairness, state>>
vars == <<capacity, reserve, queue, disk, cancelled, restarts>>

\* What one pass of _wake reads and writes.
Now == [held |-> held, line |-> line, passed |-> passed, fairness |-> fairness, state |-> state]

Becomes(s) == /\ held' = s.held /\ line' = s.line /\ passed' = s.passed
              /\ fairness' = s.fairness /\ state' = s.state

\* The element of a singleton: a bound value is computed once.
The(S) == CHOOSE x \in S : TRUE

Total(h) == h["task"] + h["review"] + h["chat"]

RoomFor(kind, h, c, r) ==
    \/ kind = "chat"
    \/ kind = "review" /\ Total(h) < c
    \/ kind = "task" /\ Total(h) + r < c

\* passed_over is compared with AGE_LIMIT and nothing else: it saturates there.
Bump(n) == IF n < AgeLimit THEN n + 1 ELSE n

\* The places in line (of s) whose request could be admitted.
Eligible(s, c, r) == {i \in DOMAIN s.line : RoomFor(Kind[s.line[i]], s.held, c, r)}

PoolByPromise(s, c, r) == Eligible(s, c, r)
\* Those passed over AGE_LIMIT times, if any of them could be admitted.
Pool(s, c, r) ==
    LET starving == {i \in Eligible(s, c, r) : s.passed[s.line[i]] >= AgeLimit} IN
    IF starving # {} THEN starving ELSE Eligible(s, c, r)

\* Reviews first, then what unblocks most, then who came first.
Best(s, places) ==
    LET reviews == {i \in places : Kind[s.line[i]] = "review"}
        kind == IF reviews # {} THEN reviews ELSE places
        most == Max({Unblocks[s.line[i]] : i \in kind})
    IN Min({i \in kind : Unblocks[s.line[i]] = most})

\* The request at this place is chosen, those of other builds are passed over.
Choose(s, place) ==
    LET w == s.line[place]
        rest == RemoveAt(s.line, place)
        over == {i \in DOMAIN rest : Build[rest[i]] # Build[w]}
        last(b) == CHOOSE i \in over : /\ Build[rest[i]] = b
                                       /\ \A j \in over : Build[rest[j]] = b => j <= i
    IN [held     |-> [s.held EXCEPT ![Kind[w]] = @ + 1],
        line     |-> rest,
        passed   |-> [v \in Requests |-> IF \E i \in over : rest[i] = v
                                         THEN Bump(s.passed[v]) ELSE s.passed[v]],
        fairness |-> [b \in Builds |-> IF \E i \in over : Build[rest[i]] = b
                                       THEN Bump(s.passed[rest[last(b)]]) ELSE s.fairness[b]],
        state    |-> [s.state EXCEPT ![w] = "woken"]]

\* One turn of _wake's loop.
AdmitOne(s, c, r) ==
    IF Eligible(s, c, r) = {} THEN s
    ELSE The({Choose(s, place) : place \in {Best(s, Pool(s, c, r))}})

\* The line without those that left it, in its order.
Without(queued, gone) ==
    LET kept[n \in 0..Len(queued)] ==
            IF n = 0 THEN <<>>
            ELSE IF queued[n] \in gone THEN kept[n - 1] ELSE Append(kept[n - 1], queued[n])
    IN kept[Len(queued)]

Live(s) == [s EXCEPT !.line = Without(@, cancelled)]

\* What _wake's loop makes of s, after as many turns as the line is long at most.
Loop(s, c, r) ==
    LET after[n \in 0..Len(s.line)] ==
            IF n = 0 THEN s ELSE The({AdmitOne(t, c, r) : t \in {after[n - 1]}})
    IN after[Len(s.line)]

\* _wake: drop the cancelled, admit the best while there is room.
Woken(s, c, r) == The({Loop(live, c, r) : live \in {Live(s)}})

SettleUnsaved(t) == Becomes(t) /\ UNCHANGED disk

\* The end of _wake: the counts are saved while anyone is left in line.
Settle(t) == Becomes(t) /\ disk' = IF t.line # <<>> THEN t.fairness ELSE disk

Wake(s, c, r) == \E t \in {Woken(s, c, r)} : Settle(t)

-----------------------------------------------------------------------------
Init ==
    /\ capacity = Capacity /\ reserve = ReviewReserve
    /\ held = [k \in Kinds |-> 0]
    /\ line = <<>> /\ passed = [r \in Requests |-> 0]
    /\ fairness = [b \in Builds |-> 0] /\ disk = fairness
    /\ state = [r \in Requests |-> "idle"]
    /\ cancelled = {} /\ restarts = 0

\* Admitted in s, as _acquire does on its way out: the build's count starts again.
Admit(s, r) == [s EXCEPT !.state[r] = "held", !.fairness[Build[r]] = 0]

\* _acquire: admitted at once, or in line and the line woken.  The await returns
\* without a pause when that wake chose r itself.
Acquire(r) ==
    /\ state[r] = "idle"
    /\ IF Kind[r] = "chat" \/ (line = <<>> /\ RoomFor(Kind[r], held, capacity, reserve))
       THEN /\ held' = [held EXCEPT ![Kind[r]] = @ + 1]
            /\ state' = [state EXCEPT ![r] = "held"]
            /\ IF Kind[r] = "chat" THEN UNCHANGED <<fairness, disk>>
               ELSE /\ fairness' = [fairness EXCEPT ![Build[r]] = 0]
                    /\ disk' = fairness'
            /\ UNCHANGED <<line, passed>>
       ELSE LET joined == [Now EXCEPT !.line = Append(@, r), !.state[r] = "waiting",
                                      !.passed[r] = fairness[Build[r]]] IN
            \E t \in {Woken(joined, capacity, reserve)} :
                IF t.state[r] = "woken"
                THEN Becomes(Admit(t, r)) /\ disk' = fairness'
                ELSE Settle(t)
    /\ UNCHANGED <<capacity, reserve, cancelled, restarts>>

\* The chosen request runs on after its await.
Resume(r) ==
    /\ state[r] = "woken" /\ r \notin cancelled
    /\ Becomes(Admit(Now, r))
    /\ disk' = fairness'
    /\ UNCHANGED <<capacity, reserve, cancelled, restarts>>

\* Stop, or the end of the task: the coroutine will find out at its await.
Cancel(r) ==
    /\ state[r] \in {"waiting", "woken"} /\ r \notin cancelled
    /\ cancelled' = cancelled \cup {r}
    /\ UNCHANGED <<capacity, reserve, queue, disk, restarts>>

\* r is done with the controller, its waiter with it.
Gone(r) == [Now EXCEPT !.state[r] = "idle", !.passed[r] = 0]

UnwindStays(r) ==
    /\ r \in cancelled /\ cancelled' = cancelled \ {r}
    /\ IF state[r] = "waiting" THEN Becomes(Gone(r)) /\ UNCHANGED disk
       ELSE Wake([Gone(r) EXCEPT !.held[Kind[r]] = @ - 1], capacity, reserve)
    /\ UNCHANGED <<capacity, reserve, restarts>>

UnwindForgets(r) ==
    /\ r \in cancelled /\ cancelled' = cancelled \ {r}
    /\ Becomes([Gone(r) EXCEPT !.line = Without(@, {r})])
    /\ UNCHANGED <<capacity, reserve, disk, restarts>>

UnwindSleeps(r) ==
    /\ r \in cancelled /\ cancelled' = cancelled \ {r}
    /\ IF state[r] = "waiting"
       THEN Becomes([Gone(r) EXCEPT !.line = Without(@, {r})])
       ELSE Becomes([Gone(r) EXCEPT !.held[Kind[r]] = @ - 1])
    /\ UNCHANGED <<capacity, reserve, disk, restarts>>

\* _acquire's except: leave the line, or give back the slot granted in the same tick.
Unwind(r) ==
    /\ r \in cancelled /\ cancelled' = cancelled \ {r}
    /\ IF state[r] = "waiting"
       THEN /\ Becomes([Gone(r) EXCEPT !.line = Without(@, {r})])
            /\ UNCHANGED disk
       ELSE Wake([Gone(r) EXCEPT !.held[Kind[r]] = @ - 1], capacity, reserve)
    /\ UNCHANGED <<capacity, reserve, restarts>>

Release(r) ==
    /\ state[r] = "held"
    /\ Wake([Gone(r) EXCEPT !.held[Kind[r]] = IF @ = 0 THEN 0 ELSE @ - 1], capacity, reserve)
    /\ UNCHANGED <<capacity, reserve, cancelled, restarts>>

SetCapacitySleeps(c) ==
    /\ c # capacity
    /\ capacity' = c
    /\ reserve' = IF reserve < c THEN reserve ELSE c - 1
    /\ UNCHANGED <<queue, disk, cancelled, restarts>>

\* set_capacity: held slots stay held; the reserve only ever shrinks.
SetCapacity(c) ==
    /\ c # capacity
    /\ capacity' = c
    /\ reserve' = IF reserve < c THEN reserve ELSE c - 1
    /\ Wake(Now, c, reserve')
    /\ UNCHANGED <<cancelled, restarts>>

\* The process ends and starts again: only the counts on disk are left.
Restart ==
    /\ restarts < MaxRestarts /\ restarts' = restarts + 1
    /\ capacity' = Capacity /\ reserve' = ReviewReserve
    /\ held' = [k \in Kinds |-> 0] /\ line' = <<>>
    /\ passed' = [r \in Requests |-> 0]
    /\ state' = [r \in Requests |-> "idle"] /\ cancelled' = {}
    /\ fairness' = disk
    /\ UNCHANGED disk

\* The coroutine of r runs on.
Run(r) == Resume(r) \/ Unwind(r) \/ Release(r)

Next ==
    \/ \E r \in Requests : Acquire(r) \/ Cancel(r) \/ Run(r)
    \/ \E c \in Capacities : SetCapacity(c)
    \/ Restart

Spec == Init /\ [][Next]_vars

\* A coroutine that can run is run, and whoever holds a slot releases it (the
\* finally of _run_one_attempt).  Nothing owes an Acquire, a Cancel, a new
\* capacity or a restart.
FairSpec == Spec /\ \A r \in Requests : WF_vars(Run(r))

-----------------------------------------------------------------------------
(* Properties.                                                             *)

\* Every counter and every place in line has its type; nobody stands twice in line.
TypeOK ==
    /\ capacity \in Capacities /\ reserve \in 0..ReviewReserve
    /\ held \in [Kinds -> 0..Cardinality(Requests)]
    /\ line \in Seq(Requests) /\ IsInjective(line)
    /\ passed \in [Requests -> 0..AgeLimit]
    /\ fairness \in [Builds -> 0..AgeLimit] /\ disk \in [Builds -> 0..AgeLimit]
    /\ state \in [Requests -> {"idle", "waiting", "woken", "held"}]
    /\ cancelled \subseteq Requests /\ restarts \in 0..MaxRestarts

\* The counters are the slots really promised: whenever a request is cancelled,
\* in line, chosen or running, no slot is lost and none is given back twice.
SlotsAccounted ==
    \A k \in Kinds :
        held[k] = Cardinality({r \in Requests : Kind[r] = k /\ state[r] \in {"woken", "held"}})

\* No slot idles while a request that fits it waits: every path that frees room
\* (release, a cancelled grant, a higher ceiling) wakes the line.
NoIdleSlot ==
    \A r \in Range(line) \ cancelled : ~RoomFor(Kind[r], held, capacity, reserve)

Admitted(r) == state[r] \in {"idle", "waiting"} /\ state'[r] \in {"woken", "held"}

\* A request passed over AGE_LIMIT times is not passed over by a younger one, but
\* for a review that takes a slot no task may have.
AgedGoFirst ==
    [][\A r, s \in Requests :
          /\ r \in Range(line) /\ r \in Range(line') /\ passed[r] >= AgeLimit
          /\ Admitted(s) /\ Kind[s] # "chat" /\ passed'[s] < AgeLimit
          => /\ Kind[r] = "task" /\ Kind[s] = "review"
             /\ Total(held') + reserve' > capacity']_vars

\* While anyone waits, the file holds the counts the line is ordered by: a restart
\* does not reset a starving build's place.
PlaceSurvives == line # <<>> => disk = fairness

\* Unless chats alone go on filling the host, a review that waits is admitted,
\* cancelled, or lost with the process: no stream of tasks, aged or not, keeps it out.
ReviewsServed ==
    []<>(held["chat"] < capacity) =>
        \A r \in Requests : Kind[r] = "review" /\ state[r] = "waiting" ~> state[r] # "waiting"

\* "A few slots are kept back for reviews": refuted by TLC (README), and checked by no run.
ReviewSlotKept ==
    [][\A r \in Requests : Admitted(r) /\ Kind[r] = "task" /\ capacity' > ReviewReserve
          => held'["task"] <= capacity' - ReviewReserve]_vars
=============================================================================
