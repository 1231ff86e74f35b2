-------------------------------- MODULE Relay --------------------------------
(***************************************************************************)
(* The Teams transport: the receiver that stores verified activities in a  *)
(* queue (claude_teams/relay/receiver.py), the queue, which leases what it *)
(* hands out and counts deliveries (storage_queue.py, queue.py), the one   *)
(* puller of the session host (puller.py) and what its handler does        *)
(* (teams_integration.py, interactions.py): a message runs a session to    *)
(* its end, and a press of a card resolves the prompt of a live session.   *)
(***************************************************************************)
EXTENDS Naturals, Sequences, FiniteSets, SequencesExt

CONSTANTS
    Messages,       \* messages that start a turn
    Presses,        \* presses of a card posted by a session
    Prompt,         \* [Presses -> Messages]: the session whose card is pressed
    Odd,            \* activities that may be unusable, or come without an id
    Copies,         \* [Activities -> Nat], bound: how often Teams may post each
    MaxItems,       \* max_items of a pull
    MaxDeliveries,  \* DEFAULT_MAX_DELIVERIES
    SeenCapacity,   \* seen_capacity: how many ids the puller remembers
    MaxRestarts     \* bound of the model

Activities == Messages \cup Presses
\* Larger than MAX_ENVELOPE_BYTES; refused by Envelope.decode or parse_activity;
\* and without an id, which parse_activity does not ask for.
Natures == {"plain", "oversized", "malformed", "nameless"}
Rows == UNION {{a} \X (1..Copies[a]) : a \in Activities}

ASSUME RelayAssumption ==
    /\ Messages \cap Presses = {}
    /\ Prompt \in [Presses -> Messages]
    /\ Odd \subseteq Activities
    /\ Copies \in [Activities -> Nat \ {0}] /\ MaxItems \in Nat \ {0}
    /\ MaxDeliveries \in Nat /\ SeenCapacity \in Nat /\ MaxRestarts \in Nat

VARIABLES
    nature,     \* of each activity; it never changes
    http,       \* what Teams knows of each activity: "unsent", "unanswered", "answered"
    at,         \* where each row of the queue is: "absent", "visible", "leased", "deleted"
    count,      \* DequeueCount of each row; it saturates above MaxDeliveries
    batch,      \* the rows pulled and not finished
    stage,      \* of the puller: "polling", "taking", "handling", "acking"
    seen,       \* _seen of the puller, in memory: the oldest id first
    later,      \* history: ids remembered since a session ended, up to SeenCapacity
    session,    \* of each message: "none", "running", "over"
    prompt,     \* of its session: "none", "open", "answered", "refused"
    completed,  \* history: activities whose handler returned
    dropped,    \* history: activities dropped with a log line
    tried,      \* history: activities the handler was called with
    restarts

memory == <<seen, later>>
host == <<batch, stage, memory>>
live == <<session, prompt>>
past == <<completed, dropped, tried>>
vars == <<nature, http, at, count, host, live, past, restarts>>

Oversized == {a \in Activities : nature[a] = "oversized"}
Malformed == {a \in Activities : nature[a] = "malformed"}
Unusable == Oversized \cup Malformed
Nameless == {a \in Activities : nature[a] = "nameless"}

TypeOK ==
    /\ nature \in [Activities -> Natures]
    /\ http \in [Activities -> {"unsent", "unanswered", "answered"}]
    /\ at \in [Rows -> {"absent", "visible", "leased", "deleted"}]
    /\ count \in [Rows -> 0..(MaxDeliveries + 1)]
    /\ batch \in Seq(Rows)
    /\ stage \in {"polling", "taking", "handling", "acking"}
    /\ stage # "polling" => batch # <<>>
    /\ seen \in Seq(Activities) /\ later \in [Messages -> 0..SeenCapacity]
    /\ session \in [Messages -> {"none", "running", "over"}]
    /\ prompt \in [Messages -> {"none", "open", "answered", "refused"}]
    /\ completed \subseteq Activities /\ dropped \subseteq Activities
    /\ tried \subseteq Activities /\ restarts \in 0..MaxRestarts

Row == Head(batch)
Act == Row[1]
\* delivery_count: no row is pulled again while it stands in the batch.
Delivery == count[Row]

Init ==
    /\ nature \in [Activities -> Natures]
    /\ \A a \in Activities \ Odd : nature[a] = "plain"
    /\ http = [a \in Activities |-> "unsent"]
    /\ at = [r \in Rows |-> "absent"]
    /\ count = [r \in Rows |-> 0]
    /\ batch = <<>> /\ stage = "polling"
    /\ seen = <<>> /\ later = [m \in Messages |-> 0]
    /\ session = [m \in Messages |-> "none"]
    /\ prompt = [m \in Messages |-> "none"]
    /\ completed = {} /\ dropped = {} /\ tried = {}
    /\ restarts = 0

-----------------------------------------------------------------------------
(* Teams and the receiver. *)

\* A user writes, or presses a card that stands in the conversation; or Teams
\* posts again what it has no answer for.
Posted(a) == \/ http[a] = "unsent" /\ (a \in Presses => prompt[Prompt[a]] = "open")
             \/ http[a] = "unanswered"

\* A verified activity is pushed before it is answered.  The answer may be lost,
\* and Teams posts again; a push that fails answers 503 and changes nothing.
Stored(a, r) == r[1] = a /\ at[r] = "absent" /\ at' = [at EXCEPT ![r] = "visible"]

\* The mutant: the answer goes out, the push fails.
ReceiveUnstored(a) ==
    /\ Posted(a) /\ a \notin Oversized
    /\ \/ \E r \in Rows : Stored(a, r)
       \/ UNCHANGED at
    /\ http' = [http EXCEPT ![a] = "answered"]
    /\ UNCHANGED <<nature, count, host, live, past, restarts>>

Receive(a) ==
    /\ Posted(a) /\ a \notin Oversized
    /\ \E r \in Rows : Stored(a, r)
    /\ http' = [http EXCEPT ![a] = "answered"]
    /\ UNCHANGED <<nature, count, host, live, past, restarts>>

AnswerLost(a) ==
    /\ Posted(a) /\ a \notin Oversized
    /\ \E r \in Rows : /\ Stored(a, r)
                       /\ \E other \in Rows \ {r} : other[1] = a /\ at[other] = "absent"
    /\ http' = [http EXCEPT ![a] = "unanswered"]
    /\ UNCHANGED <<nature, count, host, live, past, restarts>>

\* EnvelopeTooLargeError: logged, answered 200, never stored.
TooLarge(a) ==
    /\ Posted(a) /\ a \in Oversized
    /\ http' = [http EXCEPT ![a] = "answered"]
    /\ dropped' = dropped \cup {a}
    /\ UNCHANGED <<nature, at, count, host, live, completed, tried, restarts>>

-----------------------------------------------------------------------------
(* The queue and the puller. *)

\* A lease of 120 s ends although the host still works on the row.
LeaseExpires(r) ==
    /\ at[r] = "leased"
    /\ at' = [at EXCEPT ![r] = "visible"]
    /\ UNCHANGED <<nature, http, count, host, live, past, restarts>>

More(n) == IF n > MaxDeliveries THEN n ELSE n + 1

\* One pull: up to max_items visible rows, each leased and counted.
PullRows(rows) ==
    /\ stage = "polling"
    /\ \A r \in rows : at[r] = "visible"
    /\ at' = [r \in Rows |-> IF r \in rows THEN "leased" ELSE at[r]]
    /\ count' = [r \in Rows |-> IF r \in rows THEN More(count[r]) ELSE count[r]]
    /\ batch' \in SetToSeqs(rows)
    /\ stage' = "taking"
    /\ UNCHANGED <<nature, http, memory, live, past, restarts>>

Batches == {rows \in SUBSET Rows :
               rows # {} /\ IsFiniteSet(rows) /\ Cardinality(rows) <= MaxItems}
Pull == \E rows \in Batches : PullRows(rows)

\* The loop goes on with the next item of the batch, or polls again.
NextItem == /\ batch' = Tail(batch)
            /\ stage' = IF Tail(batch) = <<>> THEN "polling" ELSE "taking"

\* Envelope.decode or parse_activity raises: dropped, whatever its count.
DropUnreadable ==
    /\ stage = "taking" /\ Act \in Malformed
    /\ dropped' = dropped \cup {Act} /\ stage' = "acking"
    /\ UNCHANGED <<nature, http, at, count, batch, memory, live, completed, tried, restarts>>

Readable == stage = "taking" /\ Act \notin Malformed

\* Only an activity with an id is looked for.
Known(a) == a \notin Nameless /\ a \in ToSet(seen)

SkipSeen ==
    /\ Readable /\ Known(Act)
    /\ stage' = "acking"
    /\ UNCHANGED <<nature, http, at, count, batch, memory, live, past, restarts>>

DropPoison ==
    /\ Readable /\ ~ Known(Act) /\ Delivery > MaxDeliveries
    /\ dropped' = dropped \cup {Act} /\ stage' = "acking"
    /\ UNCHANGED <<nature, http, at, count, batch, memory, live, completed, tried, restarts>>

\* The mutant: the count is not looked at.
CalledForEver(a) == Readable /\ Act = a /\ ~ Known(a) /\ tried' = tried \cup {a}

Called(a) == Readable /\ Act = a /\ ~ Known(a) /\ Delivery <= MaxDeliveries
             /\ tried' = tried \cup {a}

Counted(a) == [m \in Messages |-> IF m = a THEN 0
                                 ELSE IF later[m] < SeenCapacity THEN later[m] + 1
                                 ELSE SeenCapacity]

\* The mutant: a full memory drops the newest id instead of the oldest.
RememberOld(a) ==
    IF a \in Nameless
    THEN UNCHANGED memory
    ELSE /\ seen' = IF Len(seen) < SeenCapacity THEN Append(seen, a) ELSE seen
         /\ later' = Counted(a)

\* _remember of an id that is new to it, as that of a called activity is.
Remember(a) ==
    IF a \in Nameless
    THEN UNCHANGED memory
    ELSE /\ seen' = IF Len(seen) < SeenCapacity THEN Append(seen, a) ELSE Tail(Append(seen, a))
         /\ later' = Counted(a)

\* TeamsSessionHost.handle: the session of the message runs inside the handler.
BeginRun(m) ==
    /\ Called(m)
    /\ stage' = "handling"
    /\ session' = [session EXCEPT ![m] = "running"]
    /\ prompt' = [prompt EXCEPT ![m] = "none"]
    /\ UNCHANGED <<nature, http, at, count, batch, memory, completed, dropped, restarts>>

\* _handle_invoke, without an await: a press resolves its prompt if that is open.
HandlePress(p) ==
    /\ Called(p)
    /\ prompt' = [prompt EXCEPT ![Prompt[p]] = IF @ = "open" THEN "answered" ELSE @]
    /\ Remember(p) /\ completed' = completed \cup {p}
    /\ stage' = "acking"
    /\ UNCHANGED <<nature, http, at, count, batch, session, dropped, restarts>>

\* prompt_choice: the card is registered, posted and waited for.
Ask(m) ==
    /\ session[m] = "running" /\ prompt[m] = "none"
    /\ prompt' = [prompt EXCEPT ![m] = "open"]
    /\ UNCHANGED <<nature, http, at, count, host, session, past, restarts>>

\* Nobody answered in time: default_on_timeout, and the prompt is withdrawn.
TimesOut(m) ==
    /\ prompt[m] = "open"
    /\ prompt' = [prompt EXCEPT ![m] = "refused"]
    /\ UNCHANGED <<nature, http, at, count, host, session, past, restarts>>

\* The run ends, which it cannot while its prompt is open; the handler returns.
RunEnds(m) ==
    /\ session[m] = "running" /\ prompt[m] # "open"
    /\ session' = [session EXCEPT ![m] = "over"]
    /\ Remember(m) /\ completed' = completed \cup {m}
    /\ stage' = "acking"
    /\ UNCHANGED <<nature, http, at, count, batch, prompt, dropped, tried, restarts>>

\* The handler raises: the row stays unacknowledged and comes back.
RunFails(m) ==
    /\ session[m] = "running" /\ prompt[m] # "open"
    /\ session' = [session EXCEPT ![m] = "none"]
    /\ NextItem
    /\ UNCHANGED <<nature, http, at, count, memory, prompt, past, restarts>>

\* A delete that fails is only logged.
Ack ==
    /\ stage = "acking"
    /\ \/ at' = [at EXCEPT ![Row] = "deleted"]
       \/ UNCHANGED at
    /\ NextItem
    /\ UNCHANGED <<nature, http, count, memory, live, past, restarts>>

\* close(), or the process dies: the batch, _seen and the sessions are gone.
Restart ==
    /\ restarts < MaxRestarts
    /\ restarts' = restarts + 1
    /\ batch' = <<>> /\ stage' = "polling"
    /\ seen' = <<>> /\ later' = [m \in Messages |-> 0]
    /\ session' = [m \in Messages |-> "none"] /\ prompt' = [m \in Messages |-> "none"]
    /\ UNCHANGED <<nature, http, at, count, past>>

Next ==
    \/ \E a \in Activities : Receive(a) \/ AnswerLost(a) \/ TooLarge(a)
    \/ \E r \in Rows : LeaseExpires(r)
    \/ Pull \/ DropUnreadable \/ SkipSeen \/ DropPoison \/ Ack \/ Restart
    \/ \E m \in Messages : BeginRun(m) \/ Ask(m) \/ TimesOut(m) \/ RunEnds(m) \/ RunFails(m)
    \/ \E p \in Presses : HandlePress(p)

Spec == Init /\ [][Next]_vars

\* The one task of the puller: run, with handle_one and the handler it awaits.
Loop == \/ DropUnreadable \/ SkipSeen \/ DropPoison \/ Ack
        \/ \E m \in Messages : BeginRun(m) \/ RunEnds(m) \/ RunFails(m)
        \/ \E p \in Presses : HandlePress(p)

\* The loop runs, Teams posts again until it is answered, a lease ends, a prompt
\* has its time, a run comes to an end, and no visible row is passed over for ever.
\* Nothing says that a press comes, that a delete works or that a run succeeds.
Fairness ==
    /\ \A a \in Activities : WF_vars(http[a] = "unanswered" /\ Receive(a))
    /\ \A r \in Rows :
          /\ WF_vars(LeaseExpires(r))
          /\ SF_vars(\E rows \in Batches : r \in rows /\ PullRows(rows))
    /\ WF_vars(Loop)
    /\ \A m \in Messages : WF_vars(TimesOut(m))

FairSpec == Spec /\ Fairness

-----------------------------------------------------------------------------
Alive(a) == \E r \in Rows : r[1] = a /\ at[r] \in {"visible", "leased"}

Fate == [a \in Activities |->
            IF a \in completed THEN "worked"
            ELSE IF Alive(a) THEN "owed"
            ELSE IF a \in dropped THEN "dropped" ELSE "new"]
Poison == {a \in Activities : \E r \in Rows : r[1] = a /\ count[r] > MaxDeliveries}

Promise == INSTANCE RelayPromise WITH
    Unusable <- Unusable, fate <- Fate, answered <- {a \in Activities : http[a] = "answered"}, poison <- Poison

\* The relay implements its promise: what was answered 200 is stored, done, or
\* given up after too many deliveries or as unusable, through lost answers,
\* failed deletes, expired leases and restarts (puller.py:10, receiver.py:126).
KeepsPromise == Promise!PromiseSpec

\* Everything answered is settled at last, although runs fail for ever: a message
\* that always fails is given up and the next one is served (puller.py:20).
Settles ==
    \A a \in Activities :
        http[a] = "answered" ~> (a \in completed \/ a \in dropped)

\* "Running a session twice for one message is worse than the crash that caused
\* it": in one life of the host, a session that ended is not begun again, although
\* the delete failed, the lease ended or Teams posted it twice.  The code keeps
\* this for an activity with an id, until seen_capacity others were remembered.
NotTwice ==
    [][\A m \in Messages :
          session[m] = "over" /\ m \notin Nameless /\ later[m] < SeenCapacity
             => session'[m] # "running"]_vars

\* puller.py:20: a poison message is dropped "only after it has proved itself
\* poison": what is dropped for its count had been given to the handler.
PoisonProved == \A a \in dropped \ Unusable : a \in tried

\* A press that waits in the queue is not behind the session that waits for it:
\* whoever waits for a press leaves the only reader of presses free.
PressHeard ==
    \A p \in Presses :
        Alive(p) => ~(stage = "handling" /\ Act = Prompt[p] /\ prompt[Act] = "open")
=============================================================================
