------------------------------- MODULE Recovery -------------------------------
(***************************************************************************)
(* Model-capacity recovery: a turn that the provider could not answer      *)
(* waits, is tried again and is answered once (capacity_recovery.py,        *)
(* capacity_policy.py), over rows in SQLite that outlive the process        *)
(* (capacity_recovery_repo.py), with the loader that takes the due rows up  *)
(* when a bot has started (claude_chat.py, on_ready).  Two bots may share   *)
(* the database while one replaces the other.                               *)
(***************************************************************************)
EXTENDS Naturals, FiniteSets

CONSTANTS
    Turns, Bots,
    MaxAttempts, Window,    \* max_attempts; max_total_seconds, in ticks
    FallbackAfter, Chain,   \* fallback_after_attempts; length of the fallback chain
    Delays,                 \* what retry_delay may answer
    Horizon, MaxDeaths      \* bounds: the last tick; bots and tasks that die

ASSUME RecoveryAssumption ==
    /\ {MaxAttempts, Window, FallbackAfter} \subseteq Nat \ {0}
    /\ {Chain, Horizon, MaxDeaths} \subseteq Nat /\ Delays \subseteq Nat

VARIABLES
    row,        \* capacity_pending_turns, of each turn
    runs,       \* the run_turn calls under way
    bots,       \* of each bot: not started, alive or dead
    todo,       \* of each: the due turns its loader has listed
    loadTime,   \* of each: the time its loader read
    now, tokens,    \* the clock; claim tokens handed out
    calls,      \* model calls made for each turn
    sent,       \* history: turns an attempt of which sent a whole block of text
    stopped,    \* turns whose Stop button was pressed
    told,       \* what the person was told of each turn
    deaths

vars == <<row, runs, bots, todo, loadTime, now, tokens, calls, sent, stopped, told, deaths>>

States == {"none", "pending", "scheduled", "running", "accepted", "expired"}
Rows == [state : States, attempt : Nat, next : Nat, expires : Nat, token : Nat]
NoRow == [state |-> "none", attempt |-> 0, next |-> 0, expires |-> 0, token |-> 0]

\* "tried" is the tracker's attempts, "here" those on its target, "index" its targets behind it;
\* "text" is what its last attempt put into the thread: "sent" is assistant_text_sent, "part" is
\* text that did not set it.
Run == [turn : Turns, bot : Bots, token : Nat \ {0},
        stage : {"claim", "resume", "calling", "retry", "fallback", "park",
                 "asleep"},
        tried : Nat, here : Nat, index : Nat, wake : Nat, text : {"none", "part", "sent"},
        end : {"", "exhausted", "ambiguous", "user"}]

\* "closed" is no word: the waiting line is completed as failed, and says no more than it said.
Words == {"answered", "exhausted", "ambiguous", "user", "closed"}

TypeOK ==
    /\ row \in [Turns -> Rows] /\ runs \subseteq Run
    /\ bots \in [Bots -> {"new", "alive", "dead"}]
    /\ todo \in [Bots -> SUBSET Turns] /\ loadTime \in [Bots -> Nat]
    /\ now \in 0..Horizon /\ tokens \in Nat /\ calls \in [Turns -> Nat]
    /\ sent \subseteq Turns /\ stopped \subseteq Turns
    /\ told \in [Turns -> SUBSET Words]
    /\ deaths \in Nat

Init ==
    /\ row = [t \in Turns |-> NoRow] /\ runs = {}
    /\ bots = [b \in Bots |-> "new"] /\ todo = [b \in Bots |-> {}]
    /\ loadTime = [b \in Bots |-> 0]
    /\ now = 0 /\ tokens = 0 /\ calls = [t \in Turns |-> 0]
    /\ sent = {} /\ stopped = {} /\ told = [t \in Turns |-> {}] /\ deaths = 0

(***************************************************************************)
(* The rows: each is one conditional UPDATE.                                *)
(***************************************************************************)
DueUnheld(r, time) ==   \* a mutant: the state is not looked at, nor who holds it
    r.state \in {"pending", "scheduled", "running"} /\ r.next <= time /\ time < r.expires
Due(r, time) ==
    /\ r.state \in {"pending", "scheduled"} /\ r.token = 0
    /\ r.next <= time /\ time < r.expires
Claimed(r, token) ==
    [r EXCEPT !.state = "running", !.attempt = @ + 1, !.token = token]

\* schedule_retry, by the holder of the claim only.
Scheduled(r, token, next, time) ==
    IF r.state = "running" /\ r.token = token /\ time < r.expires
    THEN [r EXCEPT !.state = "scheduled", !.next = next, !.token = 0] ELSE r

\* accept_once: the first result, whoever holds the claim.
Acceptable(r) == r.state \notin {"accepted", "expired"}
Accepted(r) == [r EXCEPT !.state = "accepted", !.token = 0]

\* expire_before
Expired(r, time) ==
    IF r.state \notin {"none", "accepted", "expired"} /\ r.expires <= time
    THEN [r EXCEPT !.state = "expired", !.token = 0] ELSE r

Tell(t, what) == told' = [told EXCEPT ![t] = @ \cup {what}]
Over(r) == runs' = runs \ {r}
Become(r, s) == runs' = (runs \ {r}) \cup {s}

(***************************************************************************)
(* run_turn.                                                                *)
(***************************************************************************)
Fresh(t, b, token, stage) ==
    [turn |-> t, bot |-> b, token |-> token, stage |-> stage, tried |-> 0, here |-> 0,
     index |-> 0, wake |-> 0, text |-> "none", end |-> ""]

\* A turn has a key of its own, so that it is submitted once; early enough (a bound) for its
\* window to end before the clock does.  _enter creates the row and claims it at one time, in two
\* transactions: this is the first.
Submit(t, b) ==
    /\ bots[b] = "alive" /\ now + Window <= Horizon
    /\ row[t].state = "none"
    /\ row' = [row EXCEPT ![t] =
                  [NoRow EXCEPT !.state = "pending", !.next = now, !.expires = now + Window]]
    /\ tokens' = tokens + 1
    /\ runs' = runs \cup {[Fresh(t, b, tokens + 1, "claim") EXCEPT !.wake = now]}
    /\ UNCHANGED <<bots, todo, loadTime, now, calls, sent, stopped, told, deaths>>

Calling(r, s) ==
    /\ Become(r, [s EXCEPT !.stage = "calling", !.wake = 0, !.text = "none"])
    /\ calls' = [calls EXCEPT ![r.turn] = @ + 1]

Claim(r) ==
    /\ r \in runs /\ r.stage = "claim"
    /\ IF Due(row[r.turn], r.wake)
       THEN /\ row' = [row EXCEPT ![r.turn] = Claimed(@, r.token)]
            /\ Calling(r, [r EXCEPT !.tried = row[r.turn].attempt])
       ELSE Over(r) /\ UNCHANGED <<row, calls>>
    /\ UNCHANGED <<bots, todo, loadTime, now, tokens, sent, stopped, told, deaths>>

\* A resumed turn: its row has the loader's token still.
Continue(r) ==
    /\ r \in runs /\ r.stage = "resume"
    /\ IF row[r.turn].token = r.token
       THEN Calling(r, [r EXCEPT !.tried = row[r.turn].attempt - 1])
       ELSE Over(r) /\ UNCHANGED calls
    /\ UNCHANGED <<row, bots, todo, loadTime, now, tokens, sent, stopped, told, deaths>>

\* What the event processor of the attempt puts into the thread while the call runs.  Text that
\* was streamed in part, finalized for a tool's sake, posted by a send that then raised, or the
\* result itself when it is found to be a refusal, does not set the flag.
ShowPart(r) ==
    /\ r \in runs /\ r.stage = "calling" /\ r.text = "none"
    /\ Become(r, [r EXCEPT !.text = "part"])
    /\ UNCHANGED <<row, bots, todo, loadTime, now, tokens, calls, sent, stopped, told, deaths>>

\* A whole block was posted, or what was streamed is finalized by the RESULT event.
ShowBlock(r) ==
    /\ r \in runs /\ r.stage = "calling"
    /\ Become(r, [r EXCEPT !.text = "sent"]) /\ sent' = sent \cup {r.turn}
    /\ UNCHANGED <<row, bots, todo, loadTime, now, tokens, calls, stopped, told, deaths>>

\* The person reads the answer as it comes, whether its row may still be accepted or not.
Answer(r) ==
    /\ r \in runs /\ r.stage = "calling" /\ Over(r) /\ Tell(r.turn, "answered")
    /\ row' = [row EXCEPT ![r.turn] = IF Acceptable(@) THEN Accepted(@) ELSE @]
    /\ UNCHANGED <<bots, todo, loadTime, now, tokens, calls, sent, stopped, deaths>>

\* A quota, a login or any other error that no retry helps.
Refused(r) ==
    /\ r \in runs /\ r.stage = "calling" /\ Become(r, [r EXCEPT !.stage = "park", !.end = "user"])
    /\ UNCHANGED <<row, bots, todo, loadTime, now, tokens, calls, sent, stopped, told, deaths>>

\* RecoveryTracker.next; its deadline is the row's expiry.
Remaining(r) == IF now < row[r.turn].expires THEN row[r.turn].expires - now ELSE 0
Waits(r, tried) ==
    IF tried.tried >= MaxAttempts \/ Remaining(r) = 0
    THEN {[tried EXCEPT !.stage = "park", !.end = "exhausted"]}
    ELSE IF tried.here >= FallbackAfter /\ r.index < Chain
         THEN {[tried EXCEPT !.stage = "fallback", !.index = @ + 1, !.here = 0, !.wake = now]}
    ELSE {[tried EXCEPT !.stage = "retry",
                        !.wake = now + (IF d < Remaining(r) THEN d ELSE Remaining(r))] : d \in Delays}
DecidedByBudget(r) ==   \* a mutant: "delivered" is not asked about
    Waits(r, [r EXCEPT !.tried = @ + 1, !.here = @ + 1])
Decided(r) ==
    LET tried == [r EXCEPT !.tried = @ + 1, !.here = @ + 1] IN
    IF r.text = "sent" THEN {[tried EXCEPT !.stage = "park", !.end = "ambiguous"]}
    ELSE Waits(r, tried)

Saturated(r) ==
    /\ r \in runs /\ r.stage = "calling"
    /\ \E s \in Decided(r) : Become(r, s)
    /\ UNCHANGED <<row, bots, todo, loadTime, now, tokens, calls, sent, stopped, told, deaths>>

\* _wait_and_reclaim: the claim is released for the wait.
Release(r) ==
    /\ r \in runs /\ r.stage \in {"retry", "fallback"}
    /\ row' = [row EXCEPT ![r.turn] = Scheduled(@, r.token, r.wake, now)]
    /\ Become(r, [r EXCEPT !.stage = "asleep"])
    /\ UNCHANGED <<bots, todo, loadTime, now, tokens, calls, sent, stopped, told, deaths>>

WakeQuietly(r) ==   \* a mutant: whoever cannot go on is a duplicate
    /\ r \in runs /\ r.stage = "asleep" /\ r.wake <= now
    /\ IF Due(row[r.turn], now)
       THEN row' = [row EXCEPT ![r.turn] = Claimed(@, r.token)] /\ Calling(r, r)
       ELSE Over(r) /\ UNCHANGED <<row, calls>>
    /\ UNCHANGED <<bots, todo, loadTime, now, tokens, sent, stopped, told, deaths>>
\* A run that cannot go on is a duplicate of one that has the turn or answered it, or has come to
\* the end of the window.  No status is called for either: the line it waited under is closed,
\* which for a duplicate is not the end of the turn.
Wake(r) ==
    /\ r \in runs /\ r.stage = "asleep" /\ r.wake <= now
    /\ IF Due(row[r.turn], now)
       THEN /\ row' = [row EXCEPT ![r.turn] = Claimed(@, r.token)]
            /\ Calling(r, r) /\ UNCHANGED told
       ELSE /\ Over(r) /\ UNCHANGED <<row, calls>>
            /\ IF row[r.turn].state = "accepted" \/ row[r.turn].token \notin {0, r.token}
               THEN UNCHANGED told ELSE Tell(r.turn, "closed")
    /\ UNCHANGED <<bots, todo, loadTime, now, tokens, sent, stopped, deaths>>

\* _park: the row is kept and never due.
Park(r) ==
    /\ r \in runs /\ r.stage = "park" /\ Over(r) /\ Tell(r.turn, r.end)
    /\ row' = [row EXCEPT ![r.turn] = Scheduled(@, r.token, @.expires, now)]
    /\ UNCHANGED <<bots, todo, loadTime, now, tokens, calls, sent, stopped, deaths>>

\* The Stop button ends a call that is queued for a slot by cancelling its task, and one that
\* runs by interrupting its process; it reaches nothing while the turn waits for capacity.
Stop(r) ==
    /\ r \in runs /\ r.stage \in {"calling", "asleep"} /\ r.turn \notin stopped
    /\ stopped' = stopped \cup {r.turn}
    /\ \/ Over(r) /\ r.stage = "calling" /\ r.text = "none"
       \/ UNCHANGED runs
    /\ UNCHANGED <<row, bots, todo, loadTime, now, tokens, calls, sent, told, deaths>>

(***************************************************************************)
(* A bot starts and loads what is due, once; and dies.                      *)
(***************************************************************************)
Boot(b) ==
    /\ bots[b] = "new" /\ bots' = [bots EXCEPT ![b] = "alive"]
    /\ row' = [t \in Turns |-> Expired(row[t], now)]
    /\ todo' = [todo EXCEPT ![b] = {t \in Turns : Due(row[t], now)}]
    /\ loadTime' = [loadTime EXCEPT ![b] = now]
    /\ UNCHANGED <<runs, now, tokens, calls, sent, stopped, told, deaths>>

\* Each listed turn is claimed at the time the loader read, and handed to a task.
Load(b, t) ==
    /\ bots[b] = "alive" /\ t \in todo[b] /\ todo' = [todo EXCEPT ![b] = @ \ {t}]
    /\ IF Due(row[t], loadTime[b])
       THEN /\ tokens' = tokens + 1
            /\ row' = [row EXCEPT ![t] = Claimed(@, tokens + 1)]
            /\ runs' = runs \cup {Fresh(t, b, tokens + 1, "resume")}
       ELSE UNCHANGED <<row, runs, tokens>>
    /\ UNCHANGED <<bots, loadTime, now, calls, sent, stopped, told, deaths>>

\* The thread cannot be reached: the turn is scheduled, and no one is left to take it up.
ResumeFails(r) ==
    /\ r \in runs /\ r.stage = "resume" /\ deaths < MaxDeaths /\ deaths' = deaths + 1
    /\ Over(r)
    /\ row' = [row EXCEPT ![r.turn] =
                  Scheduled(@, r.token, loadTime[r.bot] + 1, loadTime[r.bot])]
    /\ UNCHANGED <<bots, todo, loadTime, now, tokens, calls, sent, stopped, told>>

\* The bot, or the task of one run, dies (a cancelled wait for a slot, a lost thread).
Dies(b) ==
    /\ bots[b] = "alive" /\ deaths < MaxDeaths /\ deaths' = deaths + 1
    /\ bots' = [bots EXCEPT ![b] = "dead"]
    /\ runs' = {r \in runs : r.bot # b} /\ todo' = [todo EXCEPT ![b] = {}]
    /\ UNCHANGED <<row, loadTime, now, tokens, calls, sent, stopped, told>>

Lost(r) ==
    /\ r \in runs /\ deaths < MaxDeaths /\ deaths' = deaths + 1 /\ Over(r)
    /\ UNCHANGED <<row, bots, todo, loadTime, now, tokens, calls, sent, stopped, told>>

\* A tick is long beside the two transactions of _enter.
Tick ==
    /\ ~ \E r \in runs : r.stage = "claim"
    /\ now < Horizon /\ now' = now + 1
    /\ UNCHANGED <<row, runs, bots, todo, loadTime, tokens, calls, sent, stopped, told, deaths>>

CallEnds(r) == Answer(r) \/ Refused(r) \/ Saturated(r)
Step(r) == \/ Claim(r) \/ Continue(r) \/ CallEnds(r)
           \/ Release(r) \/ Wake(r) \/ Park(r)
Next ==
    \/ Tick
    \/ \E b \in Bots : Boot(b) \/ Dies(b) \/ \E t \in Turns : Submit(t, b) \/ Load(b, t)
    \/ \E r \in runs : Step(r) \/ ShowPart(r) \/ ShowBlock(r) \/ Stop(r) \/ ResumeFails(r) \/ Lost(r)
Spec == Init /\ [][Next]_vars

\* Time passes, a call ends and the coroutines are scheduled.
Fairness ==
    /\ WF_vars(Tick)
    /\ \A t \in Turns, b \in Bots :
           WF_vars(Load(b, t)) /\ WF_vars(\E r \in runs : r.turn = t /\ r.bot = b /\ Step(r))
FairSpec == Spec /\ Fairness

(***************************************************************************)
(* Properties                                                               *)
(***************************************************************************)
\* No two runs of a turn call the model at the same time, whichever bots load it, whoever
\* sleeps through a takeover, and whatever died with the claim in its hand
\* (capacity_recovery_repo.py, "ensures only one worker runs a given attempt").
OneCall == \A r, s \in runs :
    r.turn = s.turn /\ r.stage = "calling" /\ s.stage = "calling" => r = s

\* Once the turn was answered, or an attempt sent a block of text (assistant_text_sent, which the
\* decision is made on), no further call of the turn begins: not by the run that sent it, by one
\* that slept meanwhile, nor after a restart.
AnsweredOnce == [][\A t \in Turns :
    t \in sent \/ "answered" \in told[t] => calls'[t] = calls[t]]_vars

\* A turn that a bot has in hand ends before the person, with a word or at least with its waiting
\* line closed, unless a bot or its task died, or the person stopped it.
AnswersHeard == \A t \in Turns :
    (\E r \in runs : r.turn = t) ~> (told[t] # {} \/ deaths > 0 \/ t \in stopped)

\* Refuted by TLC, and checked by no run.  An attempt that put text into the thread is not
\* repeated ("part of an answer already reached the user", AttemptResult.delivered): text that did
\* not set the flag does not stop the retry.  A turn is given up with a word: a window that ends
\* while the run sleeps only closes the line.  A turn is called MaxAttempts times at most: a run
\* that slept through a takeover does not know of the calls made meanwhile (with one bot alive at
\* a time it holds).  A stopped turn is not called again: Stop during a wait reaches nothing.
\* What was to be retried later is taken up again while a bot is alive: a resume that failed, or
\* a turn whose time had not come when the bot started, is not.
ShownOnce == [][\A r \in runs : r.text # "none" => calls'[r.turn] = calls[r.turn]]_vars
ReasonHeard == \A t \in Turns :
    (\E r \in runs : r.turn = t) ~> (told[t] \ {"closed"} # {} \/ deaths > 0 \/ t \in stopped)
CallsBounded == \A t \in Turns : calls[t] <= MaxAttempts
StoppedStays == [][\A t \in Turns : t \in stopped => calls'[t] = calls[t]]_vars
WaitingIsResumed == \A t \in Turns :
    (/\ row[t].state = "scheduled" /\ row[t].next < row[t].expires
     /\ \E b \in Bots : bots[b] = "alive")
        ~> (row[t].state # "scheduled" \/ \A b \in Bots : bots[b] # "alive")
=============================================================================
