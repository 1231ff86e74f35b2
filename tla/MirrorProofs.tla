----------------------------- MODULE MirrorProofs -----------------------------
(***************************************************************************)
(* What the origin's copy of a handoff keeps, for any number of attempts,   *)
(* messages in flight and deaths.  The hard part is EndSeen: as long as     *)
(* none of its reasons has come up, one run at a time works for the job     *)
(* (RunsStraight), every event of an end says how the job ended, and an     *)
(* event that was recorded has reached the copy or is about to (EndsAgree). *)
(***************************************************************************)
EXTENDS HandoffMirror, TLAPS

-----------------------------------------------------------------------------
(* The invariant, part by part.                                            *)

\* Once a job or an answer has failed, this stays so.
FailedOnce == result = "failed" \/ job.state = "failed" \/ job.attempt > 1

SenderOK ==
    /\ starter = "none" <=> copy = "absent"
    /\ starter # "posted" => job.state = "absent"

Writer(w) ==
    LET at == writer[w].at  tr == writer[w].trigger
    IN  /\ at = "announce" => job.state # "absent" /\ (tr = "ack" <=> w = "receipt")
        /\ at = "spawn" => tr = "start"
        /\ at = "retry" => tr = "retry"
        /\ at # "idle" /\ tr = "start" => w = "pass"
        /\ at = "finish" => w = "sink" /\ tr \in {"complete", "fail"}
        /\ at # "idle" /\ tr = "complete" => result # "none"
        /\ at = "announce" /\ tr # "ack" => (Target[tr] = "failed" => FailedOnce)
WritersOK == \A w \in Writers : Writer(w)

EventOK(event) ==
    /\ event.says # "accepted"
    /\ event.says = "completed" => result = "completed"
    /\ event.says = "failed" => FailedOnce
    /\ event.id = "result" => Ends(event)
    /\ event.id = "twice" => repeated
EventsOK ==
    /\ \A event \in channel : EventOK(event)
    /\ \A m \in handling : EventOK(m.event)

HandlersOK == \A m \in handling :
    /\ m.at = "save" <=> m.at # "record" /\ m.event.says # "ack"
    /\ m.row # "absent" /\ (m.row \in TerminalStates => copy = m.row)

\* There is one acknowledgement, or both copies of it; what was told was recorded.
IsAck(event) == event.says = "ack"
AckIn(events) == \E event \in events : IsAck(event)
AckHandled == \E m \in handling : IsAck(m.event)
Silent == told = 0 /\ ~AckHandled
AckAhead == job.state = "absent" \/ At("receipt", "announce")
AcksOnce ==
    /\ told \in {0, 1}
    /\ AckAhead => Silent /\ ~AckIn(channel)
    /\ \A e, f \in channel : IsAck(e) /\ IsAck(f) => e = f
    /\ \A e \in channel : IsAck(e) /\ e.id = "once" => Silent
    /\ \A m \in handling : IsAck(m.event) /\ m.at = "record" /\ m.event.id = "once" =>
          /\ told = 0 /\ ~AckIn(channel)
          /\ \A n \in handling : IsAck(n.event) => n = m
    /\ \A m \in handling : m.at = "tell" => told = 0 /\ \A n \in handling : n.at = "tell" => n = m
    /\ told = 1 \/ (\E m \in handling : m.at = "tell") =>
          /\ \A e \in channel : IsAck(e) => e.id \in seen
          /\ \A m \in handling : IsAck(m.event) /\ m.at = "record" => m.event.id \in seen

\* The two deliveries of the message that is repeated say the same.
Twins(e, f) == e.id = "twice" /\ f.id = "twice" => e.says = f.says
TwinsAgree ==
    /\ "twice" \in seen => repeated
    /\ \A e, f \in channel : Twins(e, f)
    /\ \A e \in channel : \A m \in handling : Twins(e, m.event)
    /\ \A m, n \in handling : Twins(m.event, n.event)

\* From its start to its end one run works for the job, and its answer ends the job.
Starting == writer["pass"].at # "idle" /\ writer["pass"].trigger = "start"
Finishing == At("sink", "finish")
RunsStraight == ~astray =>
    /\ turn \/ Starting => job.state = "running" /\ result = "none"
    /\ ~(turn /\ Starting)
    /\ Finishing => /\ job.state = "running" /\ result # "none"
                    /\ writer["sink"].trigger = "fail" <=> result = "failed"
    /\ result # "none" => job.state \in {"running", result}

\* The end has reached the copy, or it is about to.
Landed ==
    \/ copy \in TerminalStates /\ copy = job.state
    \/ \E m \in handling : m.at = "save" /\ Ends(m.event)
EndsAgree == ~astray =>
    /\ \A w \in Writers : Ending(w) => Announced(writer[w].trigger) = job.state
    /\ \A e \in channel : Ends(e) => e.says = job.state
    /\ \A m \in handling : Ends(m.event) => m.event.says = job.state
    /\ copy \in TerminalStates => copy = job.state
    /\ "result" \in seen => Landed
    /\ \A e \in channel : Ends(e) /\ e.id \in seen => Landed
    /\ \A m \in handling : Ends(m.event) /\ m.event.id \in seen => Landed

IInv == /\ TypeOK /\ SenderOK /\ WritersOK /\ EventsOK /\ HandlersOK /\ AcksOnce /\ TwinsAgree
        /\ RunsStraight /\ EndsAgree /\ EndIsTrue /\ EndSeen

-----------------------------------------------------------------------------
(* Facts about jobs.                                                       *)

LEMMA Targets ==
    /\ Target \in [Triggers -> States \ {"accepted"}]
    /\ \A tr \in Triggers : Target[tr] = "completed" => tr = "complete"
    /\ Target["complete"] = "completed" /\ Target["fail"] = "failed"
    /\ Target["start"] = "running" /\ Target["restart_reconcile"] = "queued"
BY DEF Target, Triggers, States

LEMMA Froms ==
    ASSUME NEW tr \in Triggers
    PROVE  /\ AllowedFrom[tr] \subseteq States
           /\ "completed" \notin AllowedFrom[tr]
           /\ "failed" \in AllowedFrom[tr] => tr = "retry"
           /\ tr \in {"complete", "restart_reconcile"} => AllowedFrom[tr] = {"running"}
           /\ tr \in {"start", "capacity_wait"} => AllowedFrom[tr] = {"accepted", "queued"}
           /\ tr \in {"fail", "expire"} => AllowedFrom[tr] = NonterminalStates
BY DEF AllowedFrom, Triggers, States, NonterminalStates, TerminalStates

\* A job that moves stays a job, keeps its failures and does not leave its end but by a retry.
LEMMA Moved ==
    ASSUME NEW j \in Job, NEW tr \in Triggers, Legal(j, tr), NEW retryable \in BOOLEAN
    PROVE  /\ Apply(j, tr, retryable) \in Job
           /\ Apply(j, tr, retryable).state = Target[tr]
           /\ Apply(j, tr, retryable).attempt >= j.attempt
           /\ j.state = "failed" => tr = "retry" /\ Apply(j, tr, retryable).attempt > 1
           /\ j.state \in States /\ j.state # "completed"
<1>1. j.state \in AllowedFrom[tr] /\ (tr = "retry" => j.attempt < MaxAttempts)
  BY DEF Legal, CanRetry
<1>2. j.attempt \in 1..MaxAttempts /\ MaxAttempts \in Nat
  BY MaxAttemptsAssumption DEF Job
<1>3. Target[tr] \in States
  BY Targets
<1> QED
  BY <1>1, <1>2, <1>3, Froms DEF Apply, Job

\* Where a copy may be moved from.
LEMMA Mirrored ==
    ASSUME NEW says \in States \ {"accepted"}, NEW row \in States
    PROVE  /\ Applies(says, row) => row \notin TerminalStates
           /\ says \in TerminalStates /\ ~Applies(says, row) => row \in TerminalStates
BY DEF Applies, MirrorFrom, MirrorTrigger, AllowedFrom, Triggers, States, TerminalStates,
       NonterminalStates

-----------------------------------------------------------------------------
(* The recipient moves: what the origin and the thread see of it.          *)

LEMMA RecipientFrame ==
    ASSUME IInv, UNCHANGED <<origin, channel, bounds>>,
           FailedOnce => FailedOnce', result = "none" \/ result' = result,
           starter # "posted" => job'.state = "absent", AckAhead' => AckAhead
    PROVE  SenderOK' /\ EventsOK' /\ HandlersOK' /\ AcksOnce' /\ TwinsAgree' /\ EndIsTrue'
<1> USE DEF origin, bounds
<1>1. SenderOK' /\ HandlersOK' /\ TwinsAgree'
  BY DEF IInv, SenderOK, HandlersOK, TwinsAgree, Twins
<1>2. EventsOK'
  BY DEF IInv, EventsOK, EventOK, Ends
<1>3. AcksOnce'
  BY DEF IInv, AcksOnce, Silent, AckHandled, AckIn, IsAck
<1>4. EndIsTrue'
  BY DEF IInv, EndIsTrue, FailedOnce
<1> QED  BY <1>1, <1>2, <1>3, <1>4

\* While the job goes on, and nothing is astray, there is no trace of an end.
LEMMA NoEndYet ==
    ASSUME IInv, ~astray, job.state \notin TerminalStates
    PROVE  /\ \A e \in channel : ~Ends(e)
           /\ \A m \in handling : ~Ends(m.event)
           /\ copy \notin TerminalStates /\ "result" \notin seen
           /\ \A w \in Writers : ~Ending(w)
BY DEF IInv, EndsAgree, Landed, Ends, Ending

\* A move of a job that goes on is an end at most if its announcement says it.
LEMMA MoveAgrees ==
    ASSUME IInv, ~astray, job.state \notin TerminalStates,
           NEW w \in Writers, NEW tr \in Triggers, Move(w, tr, FALSE) \/ Move(w, tr, TRUE),
           UNCHANGED <<copy, handling, seen, channel, result>>,
           Target[tr] \in TerminalStates => result \in {"none", Target[tr]}
    PROVE  EndsAgree' /\ EndSeen'
<1>1. job'.state = Target[tr]
  BY DEF Move, Apply
<1>2. writer' = [writer EXCEPT ![w] = [at |-> "announce", trigger |-> tr]]
  BY DEF Move, Resumes
<1>3. writer \in [Writers -> [at : Stages, trigger : Triggers \cup {"ack"}]]
  BY DEF IInv, TypeOK
<1>4. tr # "ack"
  BY DEF Triggers
<1>5. \A v \in Writers : v # w => ~Ending(v)'
  BY <1>2, <1>3, NoEndYet DEF Ending, At, Announced, ShowsResult
<1>6. /\ Ending(w)' <=> Target[tr] \in TerminalStates
      /\ Ending(w)' => Announced(writer[w].trigger)' = Target[tr]
  BY <1>2, <1>3, <1>4 DEF Ending, At, Announced, ShowsResult, IInv, TypeOK
<1>7. EndsAgree'
  BY <1>1, <1>5, <1>6, NoEndYet DEF EndsAgree, Ends
<1>8. EndSeen'
  BY <1>1, <1>6 DEF EndSeen, EndOnItsWay
<1> QED  BY <1>7, <1>8

\* Nor does what the other coroutines do.
LEMMA RestAgrees ==
    ASSUME IInv, UNCHANGED <<copy, handling, seen, channel, job, result, astray>>,
           \A w \in Writers : writer'[w] = writer[w] \/ (~Ending(w) /\ ~Ending(w)')
    PROVE  EndsAgree' /\ EndSeen'
<1>1. \A w \in Writers :
        /\ Ending(w)' <=> Ending(w)
        /\ Ending(w)' => Announced(writer[w].trigger)' = Announced(writer[w].trigger)
  BY DEF Ending, At, Announced, ShowsResult
<1>2. Landed' <=> Landed
  BY DEF Landed
<1>3. EndsAgree'
  BY <1>1, <1>2 DEF IInv, EndsAgree, Ends
<1>4. EndSeen'
  BY <1>1 DEF IInv, EndSeen, EndOnItsWay, Ends
<1> QED  BY <1>3, <1>4

-----------------------------------------------------------------------------
(* The actions of the recipient.                                           *)

\* The types of the variables that a recipient's action writes.
RecipientType ==
    /\ job \in Job /\ result \in TerminalStates \cup {"none"}
    /\ turn \in BOOLEAN /\ unready \in BOOLEAN
    /\ writer \in [Writers -> [at : Stages, trigger : Triggers \cup {"ack"}]]
    /\ astray \in BOOLEAN

LEMMA TypeFrame ==
    ASSUME IInv, UNCHANGED <<origin, channel, bounds>>, RecipientType'
    PROVE  TypeOK'
BY DEF IInv, TypeOK, RecipientType, origin, bounds

LEMMA TypeOfWriter ==
    ASSUME IInv, NEW w \in Writers
    PROVE  /\ RecipientType /\ Writer(w)
           /\ writer[w].at \in Stages /\ writer[w].trigger \in Triggers \cup {"ack"}
BY DEF IInv, TypeOK, RecipientType, WritersOK

\* A legal move, as the types and the other coroutines see it.
LEMMA MoveKeeps ==
    ASSUME IInv, NEW w \in Writers, NEW tr \in Triggers, NEW retryable \in BOOLEAN,
           Move(w, tr, retryable), w # "receipt", UNCHANGED result,
           tr = "complete" => result # "none", tr = "start" => w = "pass"
    PROVE  /\ job' \in Job /\ job'.state = Target[tr] /\ job'.state # "absent"
           /\ job.state \in States /\ job.state # "completed"
           /\ job.state = "failed" => tr = "retry"
           /\ writer' = [writer EXCEPT ![w] = [at |-> "announce", trigger |-> tr]]
           /\ writer' \in [Writers -> [at : Stages, trigger : Triggers \cup {"ack"}]]
           /\ FailedOnce => FailedOnce'
           /\ WritersOK' /\ (AckAhead' => AckAhead)
<1>1. job \in Job /\ writer \in [Writers -> [at : Stages, trigger : Triggers \cup {"ack"}]]
  BY DEF IInv, TypeOK
<1>2. Legal(job, tr) /\ job' = Apply(job, tr, retryable)
  BY DEF Move
<1>3. /\ job' \in Job /\ job'.state = Target[tr] /\ job'.attempt >= job.attempt
      /\ job.state = "failed" => tr = "retry" /\ job'.attempt > 1
      /\ job.state \in States /\ job.state # "completed"
  BY <1>1, <1>2, Moved
<1>4. /\ writer' = [writer EXCEPT ![w] = [at |-> "announce", trigger |-> tr]]
      /\ writer' \in [Writers -> [at : Stages, trigger : Triggers \cup {"ack"}]]
  BY <1>1 DEF Move, Resumes, Stages
<1>5. Target[tr] \in States /\ "absent" \notin States /\ tr # "ack"
  BY Targets DEF States, Triggers
<1>6. FailedOnce => FailedOnce'
  BY <1>1, <1>3, MaxAttemptsAssumption DEF FailedOnce, Job
<1>7. \A v \in Writers : Writer(v)'
  <2> TAKE v \in Writers
  <2>1. CASE v = w
    BY <2>1, <1>1, <1>3, <1>4, <1>5 DEF Writer, FailedOnce
  <2>2. CASE v # w
    <3>1. Writer(v) /\ writer'[v] = writer[v]
      BY <2>2, <1>1, <1>4 DEF IInv, WritersOK
    <3> QED  BY <3>1, <1>3, <1>5, <1>6 DEF Writer
  <2> QED  BY <2>1, <2>2
<1>8. AckAhead' => AckAhead
  BY <1>1, <1>3, <1>4, <1>5 DEF AckAhead, At
<1> QED
  BY <1>3, <1>4, <1>5, <1>6, <1>7, <1>8 DEF WritersOK

\* A coroutine that leaves the job alone and does not announce.
LEMMA StepKeeps ==
    ASSUME IInv, NEW w \in Writers, NEW next \in [at : Stages, trigger : Triggers \cup {"ack"}],
           writer' = [writer EXCEPT ![w] = next], next.at \notin {"announce"},
           UNCHANGED job, result = "none" \/ result' = result,
           next.at = "spawn" => w = "pass" /\ next.trigger = "start",
           next.at = "retry" => w = "pass" /\ next.trigger = "retry",
           next.at = "finish" =>
              w = "sink" /\ next.trigger \in {"complete", "fail"} /\ result' # "none"
    PROVE  /\ writer' \in [Writers -> [at : Stages, trigger : Triggers \cup {"ack"}]]
           /\ FailedOnce => FailedOnce'
           /\ WritersOK'
           /\ At("receipt", "announce")' => At("receipt", "announce")
<1>1. writer \in [Writers -> [at : Stages, trigger : Triggers \cup {"ack"}]]
  BY DEF IInv, TypeOK
<1>2. FailedOnce => FailedOnce'
  BY DEF FailedOnce
<1>3. next.at \in Stages
  OBVIOUS
<1>4. \A v \in Writers : Writer(v)'
  <2> TAKE v \in Writers
  <2>1. CASE v = w
    BY <2>1, <1>1, <1>3 DEF Writer, Stages
  <2>2. CASE v # w
    <3>1. Writer(v) /\ writer'[v] = writer[v]
      BY <2>2, <1>1 DEF IInv, WritersOK
    <3> QED  BY <3>1, <1>2 DEF Writer
  <2> QED  BY <2>1, <2>2
<1> QED
  BY <1>1, <1>2, <1>4 DEF WritersOK, At

LEMMA ReceiveKeeps == ASSUME IInv, Receive PROVE IInv'
<1>1. /\ job = NoJob /\ job' = AcceptedJob /\ writer["receipt"].at = "idle"
      /\ writer' = [writer EXCEPT !["receipt"] = [at |-> "announce", trigger |-> "ack"]]
      /\ UNCHANGED <<origin, result, turn, unready, channel, astray, bounds>>
  BY DEF Receive, Resumes, At
<1>2. /\ job' \in Job /\ job'.state = "accepted" /\ job'.attempt = 1
      /\ job.state = "absent" /\ job.attempt = 1
  BY <1>1, MaxAttemptsAssumption DEF AcceptedJob, NoJob, FreshJob, Job, States
<1>3. writer \in [Writers -> [at : Stages, trigger : Triggers \cup {"ack"}]]
  BY DEF IInv, TypeOK
<1>4. TypeOK'
  BY <1>1, <1>2, <1>3, TypeFrame DEF RecipientType, IInv, TypeOK, Stages
<1>5. FailedOnce <=> FailedOnce'
  BY <1>1, <1>2 DEF FailedOnce
<1>6. WritersOK'
  BY <1>1, <1>2, <1>3, <1>5, Targets DEF IInv, WritersOK, Writer, Triggers, Writers
<1>7. SenderOK' /\ EventsOK' /\ HandlersOK' /\ AcksOnce' /\ TwinsAgree' /\ EndIsTrue'
  <2>1. starter = "posted"
    BY DEF Receive
  <2> QED  BY <1>1, <1>2, <1>5, <2>1, RecipientFrame DEF AckAhead
<1>8. RunsStraight'
  BY <1>1, <1>2, <1>3 DEF IInv, RunsStraight, Starting, Finishing, At, Writers, TypeOK, TerminalStates
<1>9. EndsAgree' /\ EndSeen'
  <2>1. CASE astray
    BY <2>1, <1>1 DEF EndsAgree, EndSeen
  <2>2. CASE ~astray
    <3>1. \A w \in Writers : ~Ending(w)'
      BY <2>2, <1>1, <1>2, <1>3, NoEndYet
         DEF Ending, At, Announced, ShowsResult, TerminalStates
    <3> QED
      BY <2>2, <3>1, <1>1, <1>2, NoEndYet DEF EndsAgree, EndSeen, Ends, origin, TerminalStates
  <2> QED  BY <2>1, <2>2
<1> QED  BY <1>4, <1>6, <1>7, <1>8, <1>9 DEF IInv

LEMMA PassMovesKeeps == ASSUME IInv, PassMoves PROVE IInv'
<1>1. PICK tr \in {"expire", "block", "capacity_wait", "start"} : Move("pass", tr, FALSE)
  BY DEF PassMoves
<1>2. /\ job.state \in {"accepted", "queued"} /\ writer["pass"].at = "idle"
      /\ UNCHANGED <<origin, result, turn, unready, channel, astray, bounds>>
  BY DEF PassMoves, At
<1>3. tr \in Triggers /\ tr # "complete" /\ "pass" \in Writers
  BY DEF Triggers, Writers
<1>4. /\ job' \in Job /\ job'.state = Target[tr] /\ job'.state # "absent"
      /\ writer' = [writer EXCEPT !["pass"] = [at |-> "announce", trigger |-> tr]]
      /\ writer' \in [Writers -> [at : Stages, trigger : Triggers \cup {"ack"}]]
      /\ FailedOnce => FailedOnce'
      /\ WritersOK' /\ (AckAhead' => AckAhead)
  BY <1>1, <1>2, <1>3, MoveKeeps
<1>5. TypeOK'
  BY <1>2, <1>4, TypeFrame DEF RecipientType, IInv, TypeOK
<1>6. SenderOK' /\ EventsOK' /\ HandlersOK' /\ AcksOnce' /\ TwinsAgree' /\ EndIsTrue'
  BY <1>2, <1>4, RecipientFrame DEF IInv, SenderOK
<1>7. ~astray => ~turn /\ ~Finishing /\ result = "none"
  BY <1>2 DEF IInv, RunsStraight, TypeOK, TerminalStates
<1>8. RunsStraight'
  BY <1>2, <1>4, <1>7, Targets DEF RunsStraight, Starting, Finishing, At, IInv, TypeOK, Writers
<1>9. EndsAgree' /\ EndSeen'
  <2>1. CASE astray
    BY <2>1, <1>2 DEF EndsAgree, EndSeen
  <2>2. CASE ~astray
    BY <2>2, <1>1, <1>2, <1>3, <1>7, MoveAgrees DEF origin, TerminalStates
  <2> QED  BY <2>1, <2>2
<1> QED  BY <1>4, <1>5, <1>6, <1>8, <1>9 DEF IInv

LEMMA SpawnKeeps == ASSUME IInv, Spawn PROVE IInv'
<1>1. /\ writer["pass"].at = "spawn" /\ turn' = TRUE
      /\ writer' = [writer EXCEPT !["pass"] = Idle]
      /\ UNCHANGED <<origin, ledger, unready, channel, astray, bounds>>
  BY DEF Spawn, Rests, At
<1>2. Idle \in [at : Stages, trigger : Triggers \cup {"ack"}] /\ Idle.at = "idle" /\ "pass" \in Writers
  BY DEF Idle, Stages, Writers
<1>3. /\ writer' \in [Writers -> [at : Stages, trigger : Triggers \cup {"ack"}]]
      /\ FailedOnce => FailedOnce'
      /\ WritersOK'
      /\ At("receipt", "announce")' => At("receipt", "announce")
  BY <1>1, <1>2, StepKeeps DEF ledger
<1>4. TypeOK'
  BY <1>1, <1>3, TypeFrame DEF RecipientType, IInv, TypeOK, ledger
<1>5. SenderOK' /\ EventsOK' /\ HandlersOK' /\ AcksOnce' /\ TwinsAgree' /\ EndIsTrue'
  BY <1>1, <1>3, RecipientFrame DEF IInv, SenderOK, ledger, AckAhead
<1>6. Starting
  BY <1>1, <1>2, TypeOfWriter DEF Writer, Starting
<1>7. RunsStraight'
  BY <1>1, <1>2, <1>6 DEF IInv, RunsStraight, Starting, Finishing, At, ledger, TypeOK, Writers
<1>8. EndsAgree' /\ EndSeen'
  BY <1>1, <1>2, RestAgrees DEF origin, ledger, Ending, At, IInv, TypeOK
<1> QED  BY <1>3, <1>4, <1>5, <1>7, <1>8 DEF IInv

LEMMA SpawnFailsKeeps == ASSUME IInv, SpawnFails PROVE IInv'
<1>1. /\ writer["pass"].at = "spawn" /\ "pass" \in Writers
      /\ UNCHANGED <<origin, result, turn, unready, channel, astray, bounds>>
  BY DEF SpawnFails, At, Writers
<1>2. Starting
  BY <1>1, TypeOfWriter DEF Writer, Starting
<1>3. CASE job.state = "running" /\ Move("pass", "fail", TRUE)
  <2>1. /\ job' \in Job /\ job'.state = "failed"
        /\ writer' = [writer EXCEPT !["pass"] = [at |-> "announce", trigger |-> "fail"]]
        /\ writer' \in [Writers -> [at : Stages, trigger : Triggers \cup {"ack"}]]
        /\ FailedOnce => FailedOnce'
        /\ WritersOK' /\ (AckAhead' => AckAhead)
    BY <1>1, <1>3, MoveKeeps, Targets DEF Triggers
  <2>2. TypeOK'
    BY <1>1, <2>1, TypeFrame DEF RecipientType, IInv, TypeOK
  <2>3. SenderOK' /\ EventsOK' /\ HandlersOK' /\ AcksOnce' /\ TwinsAgree' /\ EndIsTrue'
    BY <1>1, <1>3, <2>1, RecipientFrame DEF IInv, SenderOK
  <2>4. ~astray => ~turn /\ ~Finishing /\ result = "none"
    BY <1>2 DEF IInv, RunsStraight
  <2>5. RunsStraight'
    BY <1>1, <2>1, <2>4 DEF RunsStraight, Starting, Finishing, At, IInv, TypeOK, Writers
  <2>6. EndsAgree' /\ EndSeen'
    <3>1. CASE astray
      BY <3>1, <1>1 DEF EndsAgree, EndSeen
    <3>2. CASE ~astray
      BY <3>2, <1>1, <1>3, <2>4, MoveAgrees DEF origin, TerminalStates, Triggers
    <3> QED  BY <3>1, <3>2
  <2> QED  BY <2>1, <2>2, <2>3, <2>5, <2>6 DEF IInv
<1>4. CASE Rests("pass") /\ UNCHANGED job
  <2>1. writer' = [writer EXCEPT !["pass"] = Idle]
    BY <1>4 DEF Rests
  <2>2. Idle \in [at : Stages, trigger : Triggers \cup {"ack"}] /\ Idle.at = "idle"
    BY DEF Idle, Stages
  <2>3. /\ writer' \in [Writers -> [at : Stages, trigger : Triggers \cup {"ack"}]]
        /\ FailedOnce => FailedOnce'
        /\ WritersOK'
        /\ At("receipt", "announce")' => At("receipt", "announce")
    BY <1>1, <1>4, <2>1, <2>2, StepKeeps
  <2>4. TypeOK'
    BY <1>1, <1>4, <2>3, TypeFrame DEF RecipientType, IInv, TypeOK
  <2>5. SenderOK' /\ EventsOK' /\ HandlersOK' /\ AcksOnce' /\ TwinsAgree' /\ EndIsTrue'
    BY <1>1, <1>4, <2>3, RecipientFrame DEF IInv, SenderOK, AckAhead
  <2>6. RunsStraight'
    BY <1>1, <1>4, <2>1, <2>2 DEF IInv, RunsStraight, Starting, Finishing, At, TypeOK, Writers
  <2>7. EndsAgree' /\ EndSeen'
    BY <1>1, <1>4, <2>1, <2>2, RestAgrees DEF origin, Ending, At, IInv, TypeOK
  <2> QED  BY <2>3, <2>4, <2>5, <2>6, <2>7 DEF IInv
<1> QED  BY <1>3, <1>4 DEF SpawnFails

LEMMA RetryKeeps == ASSUME IInv, Retry PROVE IInv'
<1>1. /\ Move("pass", "retry", FALSE) /\ astray' = TRUE /\ "pass" \in Writers
      /\ UNCHANGED <<origin, result, turn, unready, channel, bounds>>
  BY DEF Retry, Strays, Writers
<1>2. /\ job' \in Job /\ job.state \in States
      /\ writer' \in [Writers -> [at : Stages, trigger : Triggers \cup {"ack"}]]
      /\ FailedOnce => FailedOnce'
      /\ WritersOK' /\ (AckAhead' => AckAhead)
  BY <1>1, MoveKeeps DEF Triggers
<1>3. TypeOK'
  BY <1>1, <1>2, TypeFrame DEF RecipientType, IInv, TypeOK
<1>4. SenderOK' /\ EventsOK' /\ HandlersOK' /\ AcksOnce' /\ TwinsAgree' /\ EndIsTrue'
  BY <1>1, <1>2, RecipientFrame DEF IInv, SenderOK, States
<1>5. RunsStraight' /\ EndsAgree' /\ EndSeen'
  BY <1>1 DEF RunsStraight, EndsAgree, EndSeen
<1> QED  BY <1>2, <1>3, <1>4, <1>5 DEF IInv

LEMMA TurnEndsKeeps == ASSUME IInv, TurnEnds PROVE IInv'
<1>1. /\ turn /\ turn' = FALSE /\ writer["sink"].at = "idle" /\ "sink" \in Writers
      /\ UNCHANGED <<origin, job, unready, channel, astray, bounds>>
  BY DEF TurnEnds, At, Writers
<1>2. CASE UNCHANGED <<result, writer>>
  <2>1. FailedOnce' <=> FailedOnce
    BY <1>1, <1>2 DEF FailedOnce
  <2>2. TypeOK' /\ WritersOK' /\ RunsStraight'
    BY <1>1, <1>2, <2>1, TypeFrame DEF IInv, TypeOK, RecipientType, WritersOK, Writer, RunsStraight,
       Starting, Finishing, At
  <2>3. SenderOK' /\ EventsOK' /\ HandlersOK' /\ AcksOnce' /\ TwinsAgree' /\ EndIsTrue'
    BY <1>1, <1>2, <2>1, RecipientFrame DEF IInv, SenderOK, AckAhead, At
  <2>4. EndsAgree' /\ EndSeen'
    BY <1>1, <1>2, RestAgrees DEF origin
  <2> QED  BY <2>2, <2>3, <2>4 DEF IInv
<1>3. ASSUME NEW outcome \in TerminalStates, result = "none", result' = outcome,
             Resumes("sink", "finish", IF outcome = "failed" THEN "fail" ELSE "complete")
      PROVE  IInv'
  <2> DEFINE next == [at |-> "finish", trigger |-> IF outcome = "failed" THEN "fail" ELSE "complete"]
  <2>1. writer' = [writer EXCEPT !["sink"] = next]
    BY <1>3 DEF Resumes
  <2>2. /\ next \in [at : Stages, trigger : Triggers \cup {"ack"}] /\ next.at = "finish"
        /\ next.trigger \in {"complete", "fail"} /\ (next.trigger = "fail" <=> outcome = "failed")
        /\ outcome # "none"
    BY DEF Stages, Triggers, TerminalStates
  <2> HIDE DEF next
  <2>3. /\ writer' \in [Writers -> [at : Stages, trigger : Triggers \cup {"ack"}]]
        /\ FailedOnce => FailedOnce'
        /\ WritersOK'
        /\ At("receipt", "announce")' => At("receipt", "announce")
    BY <1>1, <1>3, <2>1, <2>2, StepKeeps
  <2>4. TypeOK'
    BY <1>1, <1>3, <2>3, TypeFrame DEF RecipientType, IInv, TypeOK
  <2>5. SenderOK' /\ EventsOK' /\ HandlersOK' /\ AcksOnce' /\ TwinsAgree' /\ EndIsTrue'
    BY <1>1, <1>3, <2>3, RecipientFrame DEF IInv, SenderOK, AckAhead
  <2>6. ~astray => job.state = "running" /\ ~Starting
    BY <1>1 DEF IInv, RunsStraight
  <2>7. RunsStraight'
    BY <1>1, <1>3, <2>1, <2>2, <2>6
       DEF IInv, RunsStraight, Starting, Finishing, At, TypeOK, Writers
  <2>8. EndsAgree' /\ EndSeen'
    <3>1. CASE astray
      BY <3>1, <1>1 DEF EndsAgree, EndSeen
    <3>2. CASE ~astray
      <4>1. \A w \in Writers : ~Ending(w)'
        <5> TAKE w \in Writers
        <5>1. CASE w = "sink"
          BY <5>1, <2>1, <2>2 DEF Ending, At, IInv, TypeOK
        <5>2. CASE w # "sink" /\ At(w, "announce")
          <6>1. writer'[w] = writer[w] /\ ~Ending(w)
            BY <5>2, <3>2, <2>1, <2>6, NoEndYet DEF IInv, TypeOK, TerminalStates
          <6>2. Announced(writer[w].trigger) \notin TerminalStates
            BY <6>1, <5>2 DEF Ending
          <6> QED  BY <6>1, <6>2, <1>3 DEF Ending, Announced, ShowsResult
        <5>3. CASE w # "sink" /\ ~At(w, "announce")
          BY <5>3, <2>1 DEF Ending, At, IInv, TypeOK
        <5> QED  BY <5>1, <5>2, <5>3
      <4> QED
        BY <3>2, <4>1, <1>1, <2>6, NoEndYet
           DEF EndsAgree, EndSeen, Ends, origin, TerminalStates
    <3> QED  BY <3>1, <3>2
  <2> QED  BY <2>3, <2>4, <2>5, <2>7, <2>8 DEF IInv
<1> QED  BY <1>2, <1>3 DEF TurnEnds

LEMMA FinishKeeps == ASSUME IInv, Finish PROVE IInv'
<1> DEFINE tr == writer["sink"].trigger
<1>1. /\ Finishing /\ "sink" \in Writers
      /\ UNCHANGED <<origin, result, turn, unready, channel, astray, bounds>>
  BY DEF Finish, Finishing, Writers
<1>2. tr \in {"complete", "fail"} /\ tr \in Triggers /\ (tr = "complete" => result # "none")
  BY <1>1, TypeOfWriter DEF Finishing, At, Writer, Triggers
<1>3. CASE Move("sink", tr, FALSE)
  <2>1. /\ job' \in Job /\ job'.state = Target[tr]
        /\ writer' = [writer EXCEPT !["sink"] = [at |-> "announce", trigger |-> tr]]
        /\ writer' \in [Writers -> [at : Stages, trigger : Triggers \cup {"ack"}]]
        /\ FailedOnce => FailedOnce'
        /\ job.state \in States
        /\ WritersOK' /\ (AckAhead' => AckAhead)
    BY <1>1, <1>2, <1>3, MoveKeeps
  <2>2. TypeOK'
    BY <1>1, <2>1, TypeFrame DEF RecipientType, IInv, TypeOK
  <2>3. SenderOK' /\ EventsOK' /\ HandlersOK' /\ AcksOnce' /\ TwinsAgree' /\ EndIsTrue'
    BY <1>1, <2>1, RecipientFrame DEF IInv, SenderOK, States
  <2>4. ~astray => /\ job.state = "running" /\ result = Target[tr]
                   /\ ~turn /\ ~Starting
    BY <1>1, <1>2, Targets DEF IInv, RunsStraight, TypeOK, TerminalStates
  <2>5. RunsStraight'
    BY <1>1, <2>1, <2>4 DEF RunsStraight, Starting, Finishing, At, IInv, TypeOK, Writers
  <2>6. EndsAgree' /\ EndSeen'
    <3>1. CASE astray
      BY <3>1, <1>1 DEF EndsAgree, EndSeen
    <3>2. CASE ~astray
      BY <3>2, <1>1, <1>2, <1>3, <2>4, MoveAgrees DEF origin, TerminalStates
    <3> QED  BY <3>1, <3>2
  <2> QED  BY <2>1, <2>2, <2>3, <2>5, <2>6 DEF IInv
<1>4. CASE Rests("sink") /\ UNCHANGED job
  <2>1. writer' = [writer EXCEPT !["sink"] = Idle]
    BY <1>4 DEF Rests
  <2>2. Idle \in [at : Stages, trigger : Triggers \cup {"ack"}] /\ Idle.at = "idle"
    BY DEF Idle, Stages
  <2>3. /\ writer' \in [Writers -> [at : Stages, trigger : Triggers \cup {"ack"}]]
        /\ FailedOnce => FailedOnce'
        /\ WritersOK'
        /\ At("receipt", "announce")' => At("receipt", "announce")
    BY <1>1, <1>4, <2>1, <2>2, StepKeeps
  <2>4. TypeOK'
    BY <1>1, <1>4, <2>3, TypeFrame DEF RecipientType, IInv, TypeOK
  <2>5. SenderOK' /\ EventsOK' /\ HandlersOK' /\ AcksOnce' /\ TwinsAgree' /\ EndIsTrue'
    BY <1>1, <1>4, <2>3, RecipientFrame DEF IInv, SenderOK, AckAhead
  <2>6. RunsStraight'
    BY <1>1, <1>4, <2>1, <2>2 DEF IInv, RunsStraight, Starting, Finishing, At, TypeOK, Writers
  <2>7. EndsAgree' /\ EndSeen'
    BY <1>1, <1>4, <2>1, <2>2, RestAgrees DEF origin, Ending, Finishing, At, IInv, TypeOK
  <2> QED  BY <2>3, <2>4, <2>5, <2>6, <2>7 DEF IInv
<1> QED  BY <1>3, <1>4 DEF Finish

LEMMA ReconcileKeeps == ASSUME IInv, Reconcile PROVE IInv'
<1>1. /\ writer["boot"].at = "idle" /\ "boot" \in Writers /\ unready' = FALSE
      /\ UNCHANGED <<origin, result, turn, channel, bounds>>
  BY DEF Reconcile, At, Writers
<1>2. CASE Move("boot", "restart_reconcile", FALSE) /\ Strays(result # "none" \/ LiveTurn)
  <2>1. /\ job' \in Job /\ job'.state = "queued" /\ job.state \in States
        /\ writer' = [writer EXCEPT !["boot"] = [at |-> "announce", trigger |-> "restart_reconcile"]]
        /\ writer' \in [Writers -> [at : Stages, trigger : Triggers \cup {"ack"}]]
        /\ FailedOnce => FailedOnce'
        /\ WritersOK' /\ (AckAhead' => AckAhead)
    BY <1>1, <1>2, MoveKeeps, Targets DEF Triggers
  <2>2. astray' = (astray \/ result # "none" \/ LiveTurn)
    BY <1>2 DEF Strays
  <2>3. TypeOK'
    BY <1>1, <2>1, <2>2, TypeFrame DEF RecipientType, IInv, TypeOK
  <2>4. SenderOK' /\ EventsOK' /\ HandlersOK' /\ AcksOnce' /\ TwinsAgree' /\ EndIsTrue'
    BY <1>1, <2>1, RecipientFrame DEF IInv, SenderOK, States
  <2>5. ~astray' => ~astray /\ result = "none" /\ ~turn /\ ~Starting /\ ~Finishing
    BY <2>2 DEF LiveTurn, Starting, IInv, RunsStraight
  <2>6. RunsStraight'
    BY <1>1, <2>1, <2>5 DEF RunsStraight, Starting, Finishing, At, IInv, TypeOK, Writers
  <2>7. EndsAgree' /\ EndSeen'
    <3>1. CASE astray'
      BY <3>1 DEF EndsAgree, EndSeen
    <3>2. CASE ~astray'
      <4>1. job.state = "running"
        BY <1>2, Froms DEF Move, Legal, Triggers
      <4> QED
        BY <3>2, <4>1, <1>1, <1>2, <2>5, MoveAgrees, Targets
           DEF origin, TerminalStates, Triggers
    <3> QED  BY <3>1, <3>2
  <2> QED  BY <2>1, <2>3, <2>4, <2>6, <2>7 DEF IInv
<1>3. CASE UNCHANGED <<job, writer, astray>>
  <2>1. FailedOnce' <=> FailedOnce
    BY <1>1, <1>3 DEF FailedOnce
  <2>2. TypeOK' /\ WritersOK' /\ RunsStraight'
    BY <1>1, <1>3, <2>1, TypeFrame DEF IInv, TypeOK, RecipientType, WritersOK, Writer, RunsStraight,
       Starting, Finishing, At
  <2>3. SenderOK' /\ EventsOK' /\ HandlersOK' /\ AcksOnce' /\ TwinsAgree' /\ EndIsTrue'
    BY <1>1, <1>3, <2>1, RecipientFrame DEF IInv, SenderOK, AckAhead, At
  <2>4. EndsAgree' /\ EndSeen'
    BY <1>1, <1>3, RestAgrees DEF origin
  <2> QED  BY <2>2, <2>3, <2>4 DEF IInv
<1> QED  BY <1>2, <1>3 DEF Reconcile

LEMMA AnnounceKeeps == ASSUME IInv, NEW w \in Writers, Announce(w) PROVE IInv'
<1> DEFINE tr == writer[w].trigger
           event == [id |-> IF ShowsResult(tr) THEN "result" ELSE "once", says |-> Announced(tr),
                     again |-> FALSE]
<1>1. /\ writer[w].at = "announce" /\ GoesOn(w)
      /\ \/ channel' = channel \cup {event} /\ UNCHANGED astray
         \/ UNCHANGED channel /\ astray' = (astray \/ Ends(event))
      /\ UNCHANGED <<origin, ledger, turn, unready, bounds>>
  BY DEF Announce, At, Strays
<1>2. /\ writer \in [Writers -> [at : Stages, trigger : Triggers \cup {"ack"}]]
      /\ tr \in Triggers \cup {"ack"} /\ Writer(w) /\ astray \in BOOLEAN
  BY TypeOfWriter DEF IInv, TypeOK
<1>3. tr = "ack" <=> w = "receipt"
  BY <1>1, <1>2 DEF Writer
<1>4. PICK next \in [at : Stages, trigger : Triggers \cup {"ack"}] :
        /\ writer' = [writer EXCEPT ![w] = next]
        /\ \/ next.at = "idle"
           \/ next.at = "spawn" /\ next.trigger = "start" /\ tr = "start" /\ w = "pass"
           \/ next.at = "retry" /\ next.trigger = "retry" /\ tr = "fail" /\ w = "pass"
  BY <1>1, <1>2 DEF GoesOn, Resumes, Rests, Idle, Stages, Triggers, Writer
<1>5. /\ writer' \in [Writers -> [at : Stages, trigger : Triggers \cup {"ack"}]]
      /\ FailedOnce => FailedOnce'
      /\ WritersOK'
      /\ At("receipt", "announce")' => At("receipt", "announce")
  BY <1>1, <1>4, StepKeeps DEF ledger
<1>6. /\ event.id \in {"once", "result"} /\ event.says \in Says /\ event \in Events
      /\ EventOK(event)
      /\ IsAck(event) => tr = "ack"
      /\ Ends(event) <=> Ending(w)
      /\ event.says = Announced(tr)
  <2>1. result \in {"none", "completed", "failed"}
    BY DEF IInv, TypeOK, TerminalStates
  <2>2. CASE tr = "ack"
    BY <1>1, <2>1, <2>2 DEF Announced, ShowsResult, Says, Events, Ids, EventOK, IsAck, Ends, Ending,
       At, TerminalStates
  <2>3. CASE tr # "ack"
    <3>1. /\ tr \in Triggers /\ Target[tr] \in States \ {"accepted"}
          /\ Target[tr] = "completed" => result # "none"
          /\ Target[tr] = "failed" => FailedOnce
      BY <1>1, <1>2, <2>3, Targets DEF Writer
    <3> HIDE DEF tr
    <3> QED
      BY <1>1, <2>1, <2>3, <3>1
         DEF Announced, ShowsResult, Says, Events, Ids, EventOK, IsAck, Ends, Ending, At,
             TerminalStates, States, FailedOnce, tr
  <2> QED  BY <2>2, <2>3
<1>7. /\ UNCHANGED <<starter, copy, seen, told, handling, job, result, turn, unready, repeated, crashes>>
      /\ \A e \in channel' : e \in channel \/ e = event
      /\ astray => astray'
      /\ ~astray' /\ Ends(event) => event \in channel'
  BY <1>1, <1>2 DEF origin, ledger, bounds
<1> HIDE DEF event, tr
<1>8. TypeOK'
  BY <1>1, <1>5, <1>6, <1>7 DEF IInv, TypeOK
<1>9. SenderOK' /\ HandlersOK' /\ EndIsTrue' /\ EventsOK'
  BY <1>6, <1>7 DEF IInv, SenderOK, HandlersOK, EndIsTrue, EventsOK, EventOK, FailedOnce, Ends
<1>10. TwinsAgree'
  BY <1>6, <1>7 DEF IInv, TwinsAgree, Twins
<1>11. AcksOnce'
  <2>1. CASE w = "receipt"
    <3>1. AckAhead /\ Silent /\ ~AckIn(channel)
      BY <2>1, <1>1 DEF IInv, AcksOnce, AckAhead, At
    <3>2. ~AckAhead'
      <4>1. job.state # "absent" /\ writer'["receipt"] = next /\ next.at # "announce"
        BY <2>1, <1>1, <1>2, <1>4 DEF Writer
      <4> QED  BY <4>1, <1>7 DEF AckAhead, At
    <3>3. told = 0 /\ told' = 0 /\ ~AckHandled /\ ~AckHandled'
      BY <3>1, <1>7 DEF Silent, AckHandled
    <3>4. \A e \in channel' : IsAck(e) => e = event
      BY <3>1, <1>7 DEF AckIn
    <3>5. \A m \in handling : ~IsAck(m.event) /\ m.at # "tell"
      BY <3>3 DEF AckHandled, IInv, HandlersOK, IsAck, TypeOK, Handlers
    <3> QED  BY <3>2, <3>3, <3>4, <3>5, <1>7 DEF AcksOnce, Silent
  <2>2. CASE w # "receipt"
    <3>1. ~IsAck(event)
      BY <2>2, <1>3, <1>6
    <3>2. /\ AckAhead' <=> AckAhead
          /\ Silent' <=> Silent
          /\ \A e \in channel' : IsAck(e) => e \in channel
      BY <2>2, <3>1, <1>2, <1>4, <1>7 DEF AckAhead, At, AckIn, Silent, AckHandled
    <3>3. AckIn(channel)' => AckIn(channel)
      BY <3>2 DEF AckIn, IsAck
    <3>4. AcksOnce
      BY DEF IInv
    <3> QED  BY <3>2, <3>3, <3>4, <1>7 DEF AcksOnce
  <2> QED  BY <2>1, <2>2
<1>12. RunsStraight'
  <2>1. (Starting' => Starting) /\ (Finishing' => Finishing)
        /\ (Finishing' => writer'["sink"] = writer["sink"])
    BY <1>1, <1>2, <1>4 DEF Starting, Finishing, At, Writers, tr
  <2> QED  BY <2>1, <1>7 DEF IInv, RunsStraight
<1>13. EndsAgree' /\ EndSeen'
  <2>1. CASE astray'
    BY <2>1 DEF EndsAgree, EndSeen
  <2>2. CASE ~astray'
    <3>1. ~astray /\ (Ending(w) => event \in channel')
      BY <2>2, <1>6, <1>7
    <3>2. \A v \in Writers : Ending(v)' =>
            Ending(v) /\ v # w /\ Announced(writer[v].trigger)' = Announced(writer[v].trigger)
      <4> TAKE v \in Writers
      <4>1. CASE v = w
        BY <4>1, <1>4, <1>2 DEF Ending, At
      <4>2. CASE v # w
        BY <4>2, <1>4, <1>2, <1>7 DEF Ending, At, Announced, ShowsResult
      <4> QED  BY <4>1, <4>2
    <3>3. Landed' <=> Landed
      BY <1>7 DEF Landed
    <3>4. Ends(event) => event.says = job.state
      BY <3>1, <1>6 DEF IInv, EndsAgree, tr
    <3>5. event.id \in seen => Landed
      BY <3>1, <1>6 DEF IInv, EndsAgree, TypeOK
    <3>6. EndsAgree'
      BY <3>1, <3>2, <3>3, <3>4, <3>5, <1>7 DEF IInv, EndsAgree, Ends
    <3>7. \A v \in Writers : Ending(v) => Ending(v)' \/ v = w
      <4> TAKE v \in Writers
      <4>1. CASE v # w
        BY <4>1, <1>4, <1>2, <1>7 DEF Ending, At, Announced, ShowsResult
      <4> QED  BY <4>1
    <3>8. channel \subseteq channel' /\ (Ending(w) => Ends(event))
      BY <1>1, <1>6
    <3>9. EndSeen'
      BY <3>1, <3>7, <3>8, <1>7 DEF IInv, EndSeen, EndOnItsWay, Ends
    <3> QED  BY <3>6, <3>9
  <2> QED  BY <2>1, <2>2
<1> QED  BY <1>5, <1>8, <1>9, <1>10, <1>11, <1>12, <1>13 DEF IInv

LEMMA RecipientDiesKeeps == ASSUME IInv, RecipientDies PROVE IInv'
<1>1. /\ writer' = [w \in Writers |-> Idle] /\ turn' = FALSE /\ unready' = TRUE
      /\ crashes' = crashes + 1 /\ crashes < MaxCrashes
      /\ astray' = (astray \/ \E w \in Writers : Ending(w))
      /\ UNCHANGED <<origin, job, result, channel, repeated>>
  BY DEF RecipientDies, Strays, ledger
<1>2. Idle \in [at : Stages, trigger : Triggers \cup {"ack"}] /\ Idle.at = "idle"
  BY DEF Idle, Stages
<1>3. TypeOK'
  <2>1. crashes' \in 0..MaxCrashes
    BY <1>1, MirrorAssumption DEF IInv, TypeOK
  <2> QED  BY <1>1, <1>2, <2>1 DEF IInv, TypeOK, origin
<1>4. SenderOK' /\ WritersOK' /\ EventsOK' /\ HandlersOK' /\ TwinsAgree' /\ EndIsTrue'
  BY <1>1, <1>2 DEF IInv, SenderOK, WritersOK, Writer, EventsOK, EventOK, HandlersOK, TwinsAgree,
     Twins, EndIsTrue, FailedOnce, Ends, origin
<1>5. AcksOnce'
  BY <1>1, <1>2 DEF IInv, AcksOnce, AckAhead, Silent, AckHandled, AckIn, IsAck, At, origin, Writers
<1>6. RunsStraight'
  BY <1>1, <1>2 DEF IInv, RunsStraight, Starting, Finishing, At, Writers, TypeOK
<1>7. EndsAgree' /\ EndSeen'
  <2>1. CASE astray'
    BY <2>1 DEF EndsAgree, EndSeen
  <2>2. CASE ~astray'
    <3>1. ~astray /\ \A w \in Writers : ~Ending(w)
      BY <2>2, <1>1
    <3>2. \A w \in Writers : ~Ending(w)'
      BY <1>1, <1>2 DEF Ending, At
    <3>3. Landed' <=> Landed
      BY <1>1 DEF Landed, origin
    <3> QED
      BY <3>1, <3>2, <3>3, <1>1 DEF IInv, EndsAgree, EndSeen, EndOnItsWay, Ends, origin
  <2> QED  BY <2>1, <2>2
<1> QED  BY <1>3, <1>4, <1>5, <1>6, <1>7 DEF IInv

-----------------------------------------------------------------------------
(* The origin sends and reads.                                             *)

LEMMA SenderKeeps == ASSUME IInv, RecordTask \/ PostStarter PROVE IInv'
<1>1. /\ UNCHANGED <<seen, told, handling, job, result, turn, unready, writer, channel, astray,
                     repeated, crashes>>
      /\ starter \in {"none", "recorded"} /\ starter' \in {"recorded", "posted"}
      /\ copy' # "absent" /\ copy' \in States
      /\ copy' = copy \/ (copy = "absent" /\ copy' = "accepted")
  BY DEF RecordTask, PostStarter, recipient, bounds, States, IInv, SenderOK, TypeOK
<1>2. job.state = "absent"
  BY <1>1 DEF IInv, SenderOK
<1>3. TypeOK' /\ WritersOK' /\ EventsOK' /\ TwinsAgree'
  BY <1>1 DEF IInv, TypeOK, WritersOK, Writer, EventsOK, EventOK, TwinsAgree, Twins, FailedOnce, Ends
<1>4. SenderOK' /\ EndIsTrue' /\ HandlersOK'
  BY <1>1, <1>2 DEF IInv, SenderOK, EndIsTrue, HandlersOK, TerminalStates
<1>5. AcksOnce' /\ RunsStraight'
  BY <1>1 DEF IInv, AcksOnce, AckAhead, Silent, AckHandled, AckIn, IsAck, At, RunsStraight, Starting,
     Finishing
<1>6. EndsAgree' /\ EndSeen'
  <2>1. \A w \in Writers : ~Ending(w)'
    BY <1>1, <1>2 DEF IInv, WritersOK, Writer, Ending, At
  <2>2. CASE astray
    BY <2>2, <1>1 DEF EndsAgree, EndSeen
  <2>3. CASE ~astray
    BY <2>1, <2>3, <1>1, <1>2, NoEndYet DEF EndsAgree, EndSeen, Ends, TerminalStates
  <2> QED  BY <2>2, <2>3
<1> QED  BY <1>3, <1>4, <1>5, <1>6 DEF IInv

\* What a step of the origin leaves to the recipient.
LEMMA OriginFrame ==
    ASSUME IInv, UNCHANGED <<job, result, turn, writer>>, astray => astray'
    PROVE  WritersOK' /\ RunsStraight'
BY DEF IInv, WritersOK, Writer, FailedOnce, RunsStraight, Starting, Finishing, At

LEMMA OriginDiesKeeps == ASSUME IInv, OriginDies PROVE IInv'
<1>1. /\ handling' = {} /\ crashes' = crashes + 1 /\ crashes < MaxCrashes
      /\ astray' = (astray \/ \E m \in handling : Ends(m.event))
      /\ UNCHANGED <<starter, copy, seen, told, job, result, turn, unready, writer, channel, repeated>>
  BY DEF OriginDies, Strays, sender, recipient
<1>2. TypeOK'
  <2>1. crashes' \in 0..MaxCrashes
    BY <1>1, MirrorAssumption DEF IInv, TypeOK
  <2> QED  BY <1>1, <2>1 DEF IInv, TypeOK
<1>3. WritersOK' /\ RunsStraight'
  BY <1>1, OriginFrame
<1>4. SenderOK' /\ EventsOK' /\ HandlersOK' /\ TwinsAgree' /\ EndIsTrue'
  BY <1>1 DEF IInv, SenderOK, EventsOK, EventOK, HandlersOK, TwinsAgree, Twins, EndIsTrue, FailedOnce,
     Ends
<1>5. AcksOnce'
  BY <1>1 DEF IInv, AcksOnce, AckAhead, Silent, AckHandled, AckIn, IsAck, At
<1>6. EndsAgree' /\ EndSeen'
  <2>1. CASE astray'
    BY <2>1 DEF EndsAgree, EndSeen
  <2>2. CASE ~astray'
    <3>1. ~astray /\ \A m \in handling : ~Ends(m.event)
      BY <2>2, <1>1
    <3>2. /\ \A w \in Writers : Ending(w)' <=> Ending(w)
          /\ \A w \in Writers : Announced(writer[w].trigger)' = Announced(writer[w].trigger)
      BY <1>1 DEF Ending, At, Announced, ShowsResult
    <3>3. Landed => Landed'
      BY <3>1, <1>1 DEF Landed
    <3> QED
      BY <3>1, <3>2, <3>3, <1>1 DEF IInv, EndsAgree, EndSeen, EndOnItsWay, Ends
  <2> QED  BY <2>1, <2>2
<1> QED  BY <1>2, <1>3, <1>4, <1>5, <1>6 DEF IInv

\* A handler that is over, without a word about an end, leaves the copy's end as it was.
LEMMA DropAgrees ==
    ASSUME IInv, UNCHANGED <<copy, seen, job, result, writer, channel, astray>>,
           NEW m \in handling, handling' = handling \ {m},
           ~Ends(m.event) \/ (m.at # "save" /\ m.event.id \in seen)
    PROVE  EndsAgree' /\ EndSeen'
<1>1. CASE astray
  BY <1>1 DEF EndsAgree, EndSeen
<1>2. CASE ~astray
  <2>1. /\ \A w \in Writers : Ending(w)' <=> Ending(w)
        /\ \A w \in Writers : Announced(writer[w].trigger)' = Announced(writer[w].trigger)
    BY DEF Ending, At, Announced, ShowsResult
  <2>2. Landed => Landed'
    BY DEF Landed
  <2>3. EndsAgree'
    BY <1>2, <2>1, <2>2 DEF IInv, EndsAgree, Ends
  <2>4. EndSeen'
    <3>1. CASE Ends(m.event)
      <4>1. Landed
        BY <3>1, <1>2 DEF IInv, EndsAgree
      <4> QED  BY <2>2, <4>1 DEF EndSeen, EndOnItsWay, Landed
    <3>2. CASE ~Ends(m.event)
      BY <3>2, <1>2, <2>1 DEF IInv, EndSeen, EndOnItsWay, Ends
    <3> QED  BY <3>1, <3>2
  <2> QED  BY <2>3, <2>4
<1> QED  BY <1>1, <1>2

LEMMA TellKeeps == ASSUME IInv, NEW m \in handling, Tell(m) PROVE IInv'
<1>1. /\ m.at = "tell" /\ told' = told + 1 /\ handling' = handling \ {m}
      /\ UNCHANGED <<starter, copy, seen, job, result, turn, unready, writer, channel, astray,
                     repeated, crashes>>
  BY DEF Tell, Done, sender, recipient, bounds
<1>2. IsAck(m.event) /\ ~Ends(m.event) /\ m.event.says = "ack"
  BY <1>1 DEF IInv, HandlersOK, IsAck, Ends, TerminalStates
<1>3. told = 0 /\ \A n \in handling : n.at = "tell" => n = m
  BY <1>1 DEF IInv, AcksOnce
<1>4. TypeOK' /\ WritersOK' /\ RunsStraight'
  BY <1>1, <1>3, OriginFrame DEF IInv, TypeOK
<1>5. SenderOK' /\ EventsOK' /\ HandlersOK' /\ TwinsAgree' /\ EndIsTrue'
  BY <1>1 DEF IInv, SenderOK, EventsOK, EventOK, HandlersOK, TwinsAgree, Twins, EndIsTrue, FailedOnce,
     Ends
<1>6. AcksOnce'
  <2>1. ~AckAhead'
    <3>1. ~Silent
      BY <1>2 DEF Silent, AckHandled
    <3>2. ~AckAhead
      BY <3>1 DEF IInv, AcksOnce
    <3> QED  BY <3>2, <1>1 DEF AckAhead, At
  <2>2. /\ \A e \in channel : IsAck(e) => e.id \in seen
        /\ \A n \in handling : IsAck(n.event) /\ n.at = "record" => n.event.id \in seen
        /\ \A e, f \in channel : IsAck(e) /\ IsAck(f) => e = f
    BY <1>1 DEF IInv, AcksOnce
  <2>3. "once" \notin seen
    BY DEF IInv, TypeOK, Ids
  <2> QED  BY <2>1, <2>2, <2>3, <1>1, <1>3 DEF AcksOnce
<1>7. EndsAgree' /\ EndSeen'
  BY <1>1, <1>2, DropAgrees
<1> QED  BY <1>4, <1>5, <1>6, <1>7 DEF IInv

LEMMA SaveCopyKeeps == ASSUME IInv, NEW m \in handling, SaveCopy(m) PROVE IInv'
<1> DEFINE says == m.event.says
           applies == Applies(says, m.row)
<1>1. /\ m.at = "save" /\ handling' = handling \ {m}
      /\ copy' = IF applies /\ copy = m.row THEN says ELSE copy
      /\ astray' = (astray \/ (applies /\ copy # m.row /\ Ends(m.event)))
      /\ UNCHANGED <<starter, seen, told, job, result, turn, unready, writer, channel, repeated, crashes>>
  BY DEF SaveCopy, Done, Strays, recipient, bounds
<1>2. /\ m \in Handlers /\ ~IsAck(m.event) /\ EventOK(m.event)
      /\ says \in States \ {"accepted"} /\ m.row \in States
      /\ m.row \in TerminalStates => copy = m.row
      /\ copy \in States \cup {"absent"} /\ astray \in BOOLEAN
  BY <1>1 DEF IInv, TypeOK, HandlersOK, EventsOK, EventOK, Handlers, Events, Says, IsAck
<1>3. /\ applies => m.row \notin TerminalStates
      /\ says \in TerminalStates /\ ~applies => m.row \in TerminalStates
      /\ ~applies => says = m.row \/ says # m.row
  BY <1>2, Mirrored
<1>4. applies \in BOOLEAN
  BY DEF Applies
<1> HIDE DEF applies
<1>5. TypeOK' /\ WritersOK' /\ RunsStraight'
  <2>1. astray => astray'
    BY <1>1, <1>2
  <2>2. TypeOK'
    BY <1>1, <1>2 DEF IInv, TypeOK
  <2> QED  BY <1>1, <2>1, <2>2, OriginFrame
<1>6. SenderOK'
  BY <1>1, <1>2 DEF IInv, SenderOK, States
<1>7. EventsOK' /\ TwinsAgree'
  BY <1>1 DEF IInv, EventsOK, EventOK, TwinsAgree, Twins, FailedOnce, Ends
<1>8. HandlersOK'
  <2>1. \A n \in handling : n.row \in TerminalStates => copy' = n.row
    BY <1>1, <1>3 DEF IInv, HandlersOK
  <2> QED  BY <1>1, <2>1 DEF IInv, HandlersOK
<1>9. EndIsTrue'
  BY <1>1, <1>2 DEF IInv, EndIsTrue, EventOK, FailedOnce
<1>10. AcksOnce'
  <2>1. AckHandled' <=> AckHandled
    BY <1>1, <1>2 DEF AckHandled
  <2> QED  BY <1>1, <2>1 DEF IInv, AcksOnce, AckAhead, Silent, AckIn, IsAck, At
<1>11. EndsAgree' /\ EndSeen'
  <2>1. CASE astray'
    BY <2>1 DEF EndsAgree, EndSeen
  <2>2. CASE ~astray'
    <3>1. ~astray /\ (Ends(m.event) => ~applies \/ copy = m.row)
      BY <2>2, <1>1, <1>2, <1>4
    <3>2. /\ \A w \in Writers : Ending(w)' <=> Ending(w)
          /\ \A w \in Writers : Announced(writer[w].trigger)' = Announced(writer[w].trigger)
      BY <1>1 DEF Ending, At, Announced, ShowsResult
    <3>3. Ends(m.event) => copy' = job.state /\ job.state \in TerminalStates
      <4> SUFFICES ASSUME Ends(m.event) PROVE copy' = job.state /\ job.state \in TerminalStates
        OBVIOUS
      <4>1. says \in TerminalStates /\ says = job.state
        BY <3>1 DEF Ends, IInv, EndsAgree
      <4>2. CASE applies
        BY <4>1, <4>2, <3>1, <1>1
      <4>3. CASE ~applies
        <5>1. copy \in TerminalStates
          BY <4>1, <4>3, <1>2, <1>3
        <5>2. copy = job.state
          BY <5>1, <3>1 DEF IInv, EndsAgree
        <5> QED  BY <4>1, <4>3, <5>2, <1>1
      <4> QED  BY <4>2, <4>3
    <3>4. copy \in TerminalStates => copy' = copy
      BY <1>1, <1>3
    <3>5. Landed => Landed'
      BY <3>3, <3>4, <1>1 DEF Landed
    <3>6. copy' \in TerminalStates => copy' = job.state
      BY <3>1, <3>3, <1>1 DEF IInv, EndsAgree, Ends
    <3>7. EndsAgree'
      BY <3>1, <3>2, <3>5, <3>6, <1>1 DEF IInv, EndsAgree, Ends
    <3>8. EndSeen'
      BY <3>1, <3>2, <3>3, <3>4, <1>1 DEF IInv, EndSeen, EndOnItsWay, Ends
    <3> QED  BY <3>7, <3>8
  <2> QED  BY <2>1, <2>2
<1> QED  BY <1>5, <1>6, <1>7, <1>8, <1>9, <1>10, <1>11 DEF IInv

LEMMA NoteTooLongKeeps == ASSUME IInv, NEW m \in handling, NoteTooLong(m) PROVE IInv'
<1>1. /\ m.at = "save" /\ handling' = handling \ {m} /\ astray' = TRUE
      /\ UNCHANGED <<starter, copy, seen, told, job, result, turn, unready, writer, channel, repeated,
                     crashes>>
  BY DEF NoteTooLong, Done, Strays, sender, recipient, bounds
<1>2. ~IsAck(m.event)
  BY <1>1 DEF IInv, HandlersOK, IsAck
<1>3. TypeOK' /\ WritersOK' /\ RunsStraight'
  BY <1>1, OriginFrame DEF IInv, TypeOK
<1>4. SenderOK' /\ EventsOK' /\ HandlersOK' /\ TwinsAgree' /\ EndIsTrue'
  BY <1>1 DEF IInv, SenderOK, EventsOK, EventOK, HandlersOK, TwinsAgree, Twins, EndIsTrue, FailedOnce,
     Ends
<1>5. AcksOnce'
  <2>1. AckHandled' <=> AckHandled
    BY <1>1, <1>2 DEF AckHandled
  <2> QED  BY <1>1, <2>1 DEF IInv, AcksOnce, AckAhead, Silent, AckIn, IsAck, At
<1>6. EndsAgree' /\ EndSeen'
  BY <1>1 DEF EndsAgree, EndSeen
<1> QED  BY <1>3, <1>4, <1>5, <1>6 DEF IInv

LEMMA RecordEventKeeps == ASSUME IInv, NEW m \in handling, RecordEvent(m) PROVE IInv'
<1>1. /\ m.at = "record"
      /\ UNCHANGED <<starter, copy, told, job, result, turn, unready, writer, channel, astray,
                     repeated, crashes>>
  BY DEF RecordEvent, sender, recipient, bounds
<1>2. /\ m \in Handlers /\ m.row # "absent" /\ (m.row \in TerminalStates => copy = m.row)
      /\ EventOK(m.event) /\ m.event \in Events /\ m.event.id \in Ids
      /\ "once" \notin seen
  BY DEF IInv, TypeOK, HandlersOK, EventsOK, Handlers, Events, Ids
<1>3. WritersOK' /\ RunsStraight'
  BY <1>1, OriginFrame
<1>4. SenderOK' /\ EndIsTrue'
  BY <1>1 DEF IInv, SenderOK, EndIsTrue
<1>5. CASE m.event.id \in seen /\ Done(m) /\ UNCHANGED seen
  <2>1. handling' = handling \ {m}
    BY <1>5 DEF Done
  <2>2. TypeOK' /\ EventsOK' /\ HandlersOK' /\ TwinsAgree'
    BY <1>1, <1>5, <2>1 DEF IInv, TypeOK, EventsOK, EventOK, HandlersOK, TwinsAgree, Twins, FailedOnce,
       Ends
  <2>3. AcksOnce'
    BY <1>1, <1>5, <2>1 DEF IInv, AcksOnce, AckAhead, Silent, AckHandled, AckIn, IsAck, At
  <2>4. EndsAgree' /\ EndSeen'
    BY <1>1, <1>5, <2>1, DropAgrees
  <2> QED  BY <1>3, <1>4, <2>2, <2>3, <2>4 DEF IInv
<1>6. CASE /\ m.event.id \notin seen
           /\ seen' = seen \cup ({m.event.id} \ {"once"}) /\ Turns(m, Then(m.event), m.row)
  <2> DEFINE n == [at |-> Then(m.event), event |-> m.event, row |-> m.row]
  <2>1. /\ handling' = (handling \ {m}) \cup {n}
        /\ n.event = m.event /\ n.row = m.row /\ n \in Handlers
        /\ n.at = "tell" <=> IsAck(m.event)
        /\ n.at = "save" <=> ~IsAck(m.event)
        /\ n.at # "record"
    BY <1>2, <1>6 DEF Turns, Then, Handlers, IsAck
  <2> HIDE DEF n
  <2>2. TypeOK'
    BY <1>1, <1>2, <1>6, <2>1 DEF IInv, TypeOK
  <2>3. EventsOK' /\ HandlersOK'
    BY <1>1, <1>2, <2>1 DEF IInv, EventsOK, EventOK, HandlersOK, FailedOnce, Ends, IsAck
  <2>4. TwinsAgree'
    <3>1. "twice" \in seen' => repeated'
      BY <1>1, <1>2, <1>6 DEF IInv, TwinsAgree, EventOK
    <3>2. \A k \in handling' : \E j \in handling : k.event = j.event
      BY <2>1
    <3> QED  BY <3>1, <3>2, <1>1 DEF IInv, TwinsAgree, Twins
  <2>5. AcksOnce'
    <3>a. AcksOnce
      BY DEF IInv
    <3>1. CASE IsAck(m.event)
      <4>1. /\ ~AckAhead /\ ~Silent
            /\ told = 0 /\ \A k \in handling : k.at # "tell"
        BY <3>1, <3>a, <1>1, <1>6 DEF AcksOnce, Silent, AckHandled
      <4>2. m.event.id \in {"once", "twice"}
        BY <3>1, <1>2 DEF EventOK, Ends, IsAck, Ids, TerminalStates
      <4>3. \A e \in channel : IsAck(e) => e.id = "twice" /\ m.event.id = "twice"
        <5> SUFFICES ASSUME NEW e \in channel, IsAck(e) PROVE e.id = "twice" /\ m.event.id = "twice"
          OBVIOUS
        <5>1. e.id # "once" /\ m.event.id # "once"
          BY <3>1, <3>a, <4>1, <1>1 DEF AcksOnce, AckIn
        <5>2. e.id \in Ids /\ EventOK(e)
          BY DEF IInv, TypeOK, Events, EventsOK
        <5>3. e.id # "result"
          BY <5>2 DEF EventOK, Ends, IsAck, TerminalStates
        <5> QED  BY <4>2, <5>1, <5>2, <5>3 DEF Ids
      <4>4. \A k \in handling : IsAck(k.event) /\ k.at = "record" /\ k # m =>
                k.event.id = "twice" /\ m.event.id = "twice"
        <5> SUFFICES ASSUME NEW k \in handling, IsAck(k.event), k.at = "record", k # m
                     PROVE  k.event.id = "twice" /\ m.event.id = "twice"
          OBVIOUS
        <5>1. k.event.id # "once" /\ m.event.id # "once"
          BY <3>1, <3>a, <1>1 DEF AcksOnce
        <5>2. k.event.id \in Ids /\ EventOK(k.event)
          BY DEF IInv, TypeOK, Handlers, Events, EventsOK
        <5>3. k.event.id # "result"
          BY <5>2 DEF EventOK, Ends, IsAck, TerminalStates
        <5> QED  BY <4>2, <5>1, <5>2, <5>3 DEF Ids
      <4>5. ~AckAhead' /\ (\A e, f \in channel' : IsAck(e) /\ IsAck(f) => e = f)
        BY <3>a, <4>1, <1>1 DEF AcksOnce, AckAhead, At
      <4>6. "twice" = m.event.id => "twice" \in seen'
        BY <1>6
      <4> QED
        BY <4>1, <4>2, <4>3, <4>4, <4>5, <4>6, <1>1, <2>1 DEF AcksOnce
    <3>2. CASE ~IsAck(m.event)
      <4>1. /\ AckAhead' <=> AckAhead
            /\ AckHandled' <=> AckHandled
            /\ AckIn(channel)' <=> AckIn(channel)
            /\ \A k \in handling' : IsAck(k.event) \/ k.at = "tell" => k \in handling
        BY <3>2, <1>1, <2>1 DEF AckAhead, At, AckHandled, AckIn
      <4>2. Silent' <=> Silent
        BY <4>1, <1>1 DEF Silent
      <4>3. seen \subseteq seen'
        BY <1>6
      <4> QED  BY <3>a, <4>1, <4>2, <4>3, <1>1 DEF AcksOnce
    <3> QED  BY <3>1, <3>2
  <2>6. EndsAgree' /\ EndSeen'
    <3>1. CASE astray
      BY <3>1, <1>1 DEF EndsAgree, EndSeen
    <3>2. CASE ~astray
      <4>1. /\ \A w \in Writers : Ending(w)' <=> Ending(w)
            /\ \A w \in Writers : Announced(writer[w].trigger)' = Announced(writer[w].trigger)
        BY <1>1 DEF Ending, At, Announced, ShowsResult
      <4>2. Landed => Landed'
        BY <1>1, <2>1 DEF Landed
      <4>3. Ends(m.event) => Landed'
        <5>1. Ends(m.event) => n.at = "save" /\ Ends(n.event)
          BY <2>1 DEF Ends, IsAck, TerminalStates
        <5> QED  BY <5>1, <2>1 DEF Landed, Ends
      <4>4. ~Ends(m.event) /\ "result" \in seen' => "result" \in seen
        BY <1>2, <1>6 DEF EventOK
      <4>5. ~Ends(m.event) =>
              /\ \A e \in channel : Ends(e) /\ e.id \in seen' => e.id \in seen
              /\ \A k \in handling : Ends(k.event) /\ k.event.id \in seen' => k.event.id \in seen
        BY <1>2, <1>6 DEF IInv, TwinsAgree, Twins, EventOK, Ends, Ids
      <4>6. \A k \in handling' : \E j \in handling : k.event = j.event
        BY <2>1
      <4>7. EndsAgree'
        BY <3>2, <4>1, <4>2, <4>3, <4>4, <4>5, <4>6, <1>1 DEF IInv, EndsAgree, Ends
      <4>8. EndOnItsWay => EndOnItsWay'
        BY <4>1, <1>1, <2>1 DEF EndOnItsWay, Ends
      <4> QED  BY <4>7, <4>8, <1>1 DEF IInv, EndSeen
    <3> QED  BY <3>1, <3>2
  <2> QED  BY <1>3, <1>4, <2>2, <2>3, <2>4, <2>5, <2>6 DEF IInv
<1> QED  BY <1>5, <1>6 DEF RecordEvent

\* What every delivery leaves alone, whether it is the first or the last of its message.
LEMMA DeliverFrame ==
    ASSUME IInv, NEW event \in channel, NEW given \in Events, NEW kept \in SUBSET Events,
           Begin(given), channel' = (channel \ {event}) \cup kept, kept \subseteq Events,
           given.says = event.says, \A e \in kept : e.id = given.id /\ e.says = given.says,
           given.id \in seen => event.id \in seen,
           UNCHANGED <<starter, copy, seen, told, job, result, turn, unready, writer, astray, crashes>>
    PROVE  EndsAgree' /\ EndSeen'
<1> DEFINE h == [at |-> "record", event |-> given, row |-> copy]
<1>1. \/ copy = "absent" /\ handling' = handling
      \/ copy # "absent" /\ handling' = handling \cup {h}
  BY DEF Begin
<1>2. h.at = "record" /\ h.event = given
  OBVIOUS
<1> HIDE DEF h
<1>3. CASE astray
  BY <1>3 DEF EndsAgree, EndSeen
<1>4. CASE ~astray
  <2>1. /\ \A w \in Writers : Ending(w)' <=> Ending(w)
        /\ \A w \in Writers : Announced(writer[w].trigger)' = Announced(writer[w].trigger)
    BY DEF Ending, At, Announced, ShowsResult
  <2>2. Landed => Landed'
    BY <1>1 DEF Landed
  <2>3. Ends(given) => Ends(event) /\ event.says = job.state /\ given.says = job.state
    BY <1>4 DEF Ends, IInv, EndsAgree
  <2>4. Ends(given) /\ given.id \in seen => Landed
    BY <1>4, <2>3 DEF IInv, EndsAgree
  <2>5. EndsAgree'
    <3>1. \A e \in channel' : \/ e \in channel
                              \/ e.id = given.id /\ e.says = given.says
      OBVIOUS
    <3>2. \A m \in handling' : m \in handling \/ m.event = given
      BY <1>1, <1>2
    <3> QED
      BY <1>4, <2>1, <2>2, <2>3, <2>4, <3>1, <3>2 DEF IInv, EndsAgree, Ends
  <2>6. EndSeen'
    <3>1. Ends(event) => Ends(given) /\ h \in handling'
      <4> SUFFICES ASSUME Ends(event) PROVE Ends(given) /\ h \in handling'
        OBVIOUS
      <4>1. job.state \in TerminalStates
        BY <1>4 DEF Ends, IInv, EndsAgree
      <4>2. copy # "absent"
        BY <4>1 DEF IInv, SenderOK, TerminalStates
      <4> QED  BY <1>1, <4>2 DEF Ends
    <3>2. handling \subseteq handling'
      BY <1>1
    <3>3. EndOnItsWay => EndOnItsWay'
      BY <1>2, <2>1, <3>1, <3>2 DEF EndOnItsWay, Ends
    <3> QED  BY <1>4, <3>3 DEF IInv, EndSeen
  <2> QED  BY <2>5, <2>6
<1> QED  BY <1>3, <1>4

LEMMA DeliverKeeps == ASSUME IInv, Deliver PROVE IInv'
<1>1. PICK event \in channel :
        LET again == [event EXCEPT !.id = IF @ = "once" THEN "twice" ELSE @]
        IN  /\ \/ Begin(event) /\ channel' = channel \ {event} /\ UNCHANGED repeated
               \/ /\ ~repeated /\ InFlight < MaxInFlight /\ event.says \in Repeatable /\ repeated' = TRUE
                  /\ Begin(again)
                  /\ channel' = (channel \ {event}) \cup {[again EXCEPT !.again = TRUE]}
            /\ UNCHANGED <<sender, seen, told, recipient, astray, crashes>>
  BY DEF Deliver
<1>2. UNCHANGED <<starter, copy, seen, told, job, result, turn, unready, writer, astray, crashes>>
  BY <1>1 DEF sender, recipient
<1>3. event \in Events /\ EventOK(event) /\ "once" \notin seen
  BY DEF IInv, TypeOK, EventsOK, Ids
<1>4. WritersOK' /\ RunsStraight' /\ SenderOK' /\ EndIsTrue'
  BY <1>2, OriginFrame DEF IInv, SenderOK, EndIsTrue
<1>5. copy \in States \cup {"absent"}
  BY DEF IInv, TypeOK
<1>6. IsAck(event) => ~AckAhead
  BY DEF IInv, AcksOnce, AckIn
<1>a. AcksOnce /\ (AckAhead' <=> AckAhead)
  BY <1>2 DEF IInv, AckAhead, At
<1>7. CASE Begin(event) /\ channel' = channel \ {event} /\ UNCHANGED repeated
  <2> DEFINE h == [at |-> "record", event |-> event, row |-> copy]
  <2>1. \/ copy = "absent" /\ handling' = handling
        \/ copy # "absent" /\ handling' = handling \cup {h}
    BY <1>7 DEF Begin
  <2>2. h.at = "record" /\ h.event = event /\ h.row = copy /\ (copy # "absent" => h \in Handlers)
    BY <1>3, <1>5 DEF Handlers
  <2> HIDE DEF h
  <2>3. TypeOK' /\ EventsOK' /\ HandlersOK'
    BY <1>2, <1>3, <1>7, <2>1, <2>2
       DEF IInv, TypeOK, EventsOK, EventOK, HandlersOK, FailedOnce, Ends
  <2>4. TwinsAgree'
    BY <1>2, <1>7, <2>1, <2>2 DEF IInv, TwinsAgree, Twins
  <2>5. AcksOnce'
    <3>1. CASE IsAck(event)
      <4>1. ~AckAhead' /\ ~AckIn(channel)'
        BY <3>1, <1>6, <1>7, <1>a DEF AcksOnce, AckIn
      <4>2. \A k \in handling : IsAck(k.event) /\ k.at = "record" => k.event.id # "once"
        BY <3>1, <1>a DEF AcksOnce, AckIn
      <4>3. event.id = "once" => Silent
        BY <3>1, <1>a DEF AcksOnce
      <4>4. told = 1 \/ (\E k \in handling : k.at = "tell") => event.id \in seen
        BY <3>1, <1>a DEF AcksOnce
      <4> QED
        BY <4>1, <4>2, <4>3, <4>4, <1>2, <1>a, <2>1, <2>2 DEF AcksOnce, AckIn, Silent, AckHandled
    <3>2. CASE ~IsAck(event)
      <4>1. /\ AckHandled' <=> AckHandled
            /\ AckIn(channel)' <=> AckIn(channel)
            /\ \A k \in handling' : IsAck(k.event) \/ k.at = "tell" => k \in handling
            /\ handling \subseteq handling'
        BY <3>2, <1>7, <2>1, <2>2 DEF AckHandled, AckIn
      <4>2. Silent' <=> Silent
        BY <4>1, <1>2 DEF Silent
      <4> QED  BY <4>1, <4>2, <1>2, <1>7, <1>a DEF AcksOnce
    <3> QED  BY <3>1, <3>2
  <2>6. EndsAgree' /\ EndSeen'
    <3> DEFINE kept == {}
    <3>1. /\ kept \in SUBSET Events /\ channel' = (channel \ {event}) \cup kept
          /\ \A e \in kept : e.id = event.id /\ e.says = event.says
      BY <1>7
    <3>2. Begin(event)
      BY <1>7
    <3> HIDE DEF kept
    <3> QED  BY <1>2, <1>3, <3>1, <3>2, DeliverFrame
  <2> QED  BY <1>4, <2>3, <2>4, <2>5, <2>6 DEF IInv
<1>8. ASSUME NEW again, again = [event EXCEPT !.id = IF @ = "once" THEN "twice" ELSE @],
             ~repeated, repeated' = TRUE, Begin(again),
             channel' = (channel \ {event}) \cup {[again EXCEPT !.again = TRUE]}
      PROVE  IInv'
  <2> DEFINE h == [at |-> "record", event |-> again, row |-> copy]
             last == [again EXCEPT !.again = TRUE]
  <2>1. /\ again \in Events /\ last \in Events /\ again.says = event.says /\ last.says = event.says
        /\ again.id = last.id
        /\ again.id = IF event.id = "once" THEN "twice" ELSE event.id
    BY <1>3, <1>8 DEF Events, Ids
  <2>2. \/ copy = "absent" /\ handling' = handling
        \/ copy # "absent" /\ handling' = handling \cup {h}
    BY <1>8 DEF Begin
  <2>3. h.at = "record" /\ h.event = again /\ h.row = copy /\ (copy # "absent" => h \in Handlers)
    BY <1>5, <2>1 DEF Handlers
  <2>4. channel' = (channel \ {event}) \cup {last}
    BY <1>8
  <2> HIDE DEF h, last
  <2>5. /\ "twice" \notin seen
        /\ \A e \in channel : e.id # "twice"
        /\ \A m \in handling : m.event.id # "twice"
    BY <1>8 DEF IInv, TwinsAgree, EventsOK, EventOK
  <2>6. TypeOK' /\ EventsOK' /\ HandlersOK'
    <3>1. TypeOK'
      BY <1>2, <1>8, <2>1, <2>2, <2>3, <2>4 DEF IInv, TypeOK
    <3>2. EventOK(again)' /\ EventOK(last)'
      BY <1>2, <1>3, <1>8, <2>1 DEF EventOK, FailedOnce, Ends
    <3>3. EventsOK'
      <4>1. \A e \in channel : EventOK(e)'
        BY <1>2, <1>8 DEF IInv, EventsOK, EventOK, FailedOnce, Ends
      <4>2. \A m \in handling : EventOK(m.event)'
        BY <1>2, <1>8 DEF IInv, EventsOK, EventOK, FailedOnce, Ends
      <4> QED  BY <4>1, <4>2, <3>2, <2>2, <2>3, <2>4 DEF EventsOK
    <3>4. HandlersOK'
      BY <1>2, <2>2, <2>3 DEF IInv, HandlersOK
    <3> QED  BY <3>1, <3>3, <3>4
  <2>7. TwinsAgree'
    BY <1>2, <1>8, <2>1, <2>2, <2>3, <2>4, <2>5 DEF IInv, TwinsAgree, Twins
  <2>8. AcksOnce'
    <3>1. CASE IsAck(event)
      <4>1. event.id = "once" /\ again.id = "twice"
        BY <3>1, <1>3, <2>1, <2>5 DEF EventOK, Ends, IsAck, Events, Ids, TerminalStates
      <4>2. Silent
        BY <3>1, <4>1, <1>a DEF AcksOnce
      <4>3. /\ ~AckAhead' /\ told' = 0
            /\ \A e \in channel' : IsAck(e) => e = last
        BY <3>1, <4>2, <1>2, <1>6, <1>a, <2>4 DEF AcksOnce, Silent
      <4>4. \A k \in handling : ~IsAck(k.event) /\ k.at # "tell"
        BY <4>2 DEF Silent, AckHandled, IInv, HandlersOK, TypeOK, Handlers, IsAck
      <4> QED
        <5>1. AckAhead' => Silent' /\ ~AckIn(channel)'
          BY <4>3
        <5>2. \A e \in channel' : e.id = "once" => ~IsAck(e)
          BY <4>1, <4>3, <2>1
        <5>3. \A k \in handling' : k.at # "tell" /\ (IsAck(k.event) => k.event.id # "once")
          BY <4>1, <4>4, <2>2, <2>3
        <5> QED
          BY <4>3, <5>1, <5>2, <5>3, <1>2 DEF AcksOnce
    <3>2. CASE ~IsAck(event)
      <4>1. /\ AckHandled' <=> AckHandled
            /\ AckIn(channel)' <=> AckIn(channel)
            /\ \A k \in handling' : IsAck(k.event) \/ k.at = "tell" => k \in handling
            /\ \A e \in channel' : IsAck(e) => e \in channel
        BY <3>2, <2>1, <2>2, <2>3, <2>4 DEF AckHandled, AckIn, IsAck
      <4>2. Silent' <=> Silent
        BY <4>1, <1>2 DEF Silent
      <4> QED  BY <4>1, <4>2, <1>2, <1>a DEF AcksOnce
    <3> QED  BY <3>1, <3>2
  <2>9. EndsAgree' /\ EndSeen'
    <3>1. again.id \in seen => event.id \in seen
      BY <2>1, <2>5
    <3> QED
      <4>1. {last} \in SUBSET Events /\ \A e \in {last} : e.id = again.id /\ e.says = again.says
        BY <2>1
      <4> DEFINE kept == {last}
      <4> HIDE DEF kept
      <4>2. kept \in SUBSET Events /\ (\A e \in kept : e.id = again.id /\ e.says = again.says)
            /\ channel' = (channel \ {event}) \cup kept
        BY <4>1, <2>4 DEF kept
      <4> QED
        BY <1>2, <1>8, <2>1, <4>2, <3>1, DeliverFrame, ZenonT(60)
  <2> QED  BY <1>4, <2>6, <2>7, <2>8, <2>9 DEF IInv
<1> QED  BY <1>1, <1>7, <1>8

-----------------------------------------------------------------------------
(* The theorems.                                                           *)

LEMMA InitHolds == Init => IInv
<1> SUFFICES ASSUME Init PROVE IInv
  OBVIOUS
<1>1. /\ job = NoJob /\ job.state = "absent" /\ job \in Job
      /\ \A w \in Writers : writer[w] = Idle /\ writer[w].at = "idle"
      /\ writer \in [Writers -> [at : Stages, trigger : Triggers \cup {"ack"}]]
  BY MaxAttemptsAssumption DEF Init, NoJob, FreshJob, Job, States, Idle, Stages
<1>2. TypeOK
  <2>1. /\ starter = "none" /\ copy = "absent" /\ seen = {} /\ told = 0 /\ handling = {}
        /\ result = "none" /\ turn = FALSE /\ unready = TRUE /\ channel = {} /\ astray = FALSE
        /\ repeated = FALSE /\ crashes = 0
    BY DEF Init
  <2>2. crashes \in 0..MaxCrashes
    BY <2>1, MirrorAssumption
  <2> QED  BY <1>1, <2>1, <2>2 DEF TypeOK
<1>3. SenderOK /\ WritersOK /\ EventsOK /\ HandlersOK /\ TwinsAgree
  BY <1>1 DEF Init, SenderOK, WritersOK, Writer, EventsOK, HandlersOK, TwinsAgree
<1>4. AcksOnce
  BY <1>1 DEF Init, AcksOnce, AckAhead, Silent, AckHandled, AckIn
<1>5. RunsStraight /\ EndsAgree /\ EndIsTrue /\ EndSeen
  BY <1>1 DEF Init, RunsStraight, Starting, Finishing, At, EndsAgree, Ending, EndIsTrue, EndSeen,
     Writers, TerminalStates
<1> QED  BY <1>2, <1>3, <1>4, <1>5 DEF IInv

LEMMA NextKeeps == IInv /\ [Next]_vars => IInv'
<1> SUFFICES ASSUME IInv, [Next]_vars PROVE IInv'
  OBVIOUS
<1>1. CASE UNCHANGED vars
  <2>1. UNCHANGED <<starter, copy, seen, told, handling, job, result, turn, unready, writer, channel,
                    astray, repeated, crashes>>
    BY <1>1 DEF vars, origin, recipient, bounds
  <2>2. WritersOK' /\ RunsStraight'
    BY <2>1, OriginFrame
  <2>3. TypeOK' /\ SenderOK' /\ EventsOK' /\ HandlersOK' /\ TwinsAgree' /\ EndIsTrue'
    BY <2>1 DEF IInv, TypeOK, SenderOK, EventsOK, EventOK, HandlersOK, TwinsAgree, Twins, EndIsTrue,
       FailedOnce, Ends
  <2>4. AcksOnce'
    BY <2>1 DEF IInv, AcksOnce, AckAhead, Silent, AckHandled, AckIn, IsAck, At
  <2>5. EndsAgree' /\ EndSeen'
    BY <2>1, RestAgrees
  <2> QED  BY <2>2, <2>3, <2>4, <2>5 DEF IInv
<1>2. CASE RecordTask \/ PostStarter
  BY <1>2, SenderKeeps
<1>3. CASE Receive \/ PassMoves \/ Spawn \/ SpawnFails \/ Retry \/ TurnEnds \/ Finish \/ Reconcile
  BY <1>3, ReceiveKeeps, PassMovesKeeps, SpawnKeeps, SpawnFailsKeeps, RetryKeeps, TurnEndsKeeps,
     FinishKeeps, ReconcileKeeps
<1>4. CASE \E w \in Writers : Announce(w)
  BY <1>4, AnnounceKeeps
<1>5. CASE Deliver
  BY <1>5, DeliverKeeps
<1>6. CASE \E m \in handling : RecordEvent(m) \/ SaveCopy(m) \/ NoteTooLong(m) \/ Tell(m)
  BY <1>6, RecordEventKeeps, SaveCopyKeeps, NoteTooLongKeeps, TellKeeps
<1>7. CASE RecipientDies \/ OriginDies
  BY <1>7, RecipientDiesKeeps, OriginDiesKeeps
<1> QED  BY <1>1, <1>2, <1>3, <1>4, <1>5, <1>6, <1>7 DEF Next

LEMMA Invariance == Spec => []IInv
<1>1. Init => IInv  BY InitHolds
<1>2. IInv /\ [Next]_vars => IInv'  BY NextKeeps
<1> QED  BY <1>1, <1>2, PTL DEF Spec

\* Types (send_task, the executor, the origin's handlers of handoff events).
THEOREM TypeCorrect == Spec => []TypeOK
<1>1. IInv => TypeOK  BY DEF IInv
<1> QED  BY <1>1, Invariance, PTL

\* The origin's copy of a job invents no end (_mirror_for_origin, _event_for).
THEOREM NoInventedEnd == Spec => []EndIsTrue
<1>1. IInv => EndIsTrue  BY DEF IInv
<1> QED  BY <1>1, Invariance, PTL

\* The acceptance is told once (_tell_origin, record_event).
THEOREM AcceptanceToldOnce == Spec => []ToldOnce
<1>1. IInv => ToldOnce  BY DEF IInv, AcksOnce, ToldOnce
<1> QED  BY <1>1, Invariance, PTL

\* The copy sees the end, or one of the named reasons has come up (_mirror_for_origin).
THEOREM EndIsSeen == Spec => []EndSeen
<1>1. IInv => EndSeen  BY DEF IInv
<1> QED  BY <1>1, Invariance, PTL

\* A copy that has ended is not moved again (apply_event, save_transition).
THEOREM CopyStays == Spec => CopyEnds
<1>1. IInv /\ [Next]_vars => [(copy \in TerminalStates) => (copy' = copy)]_copy
  <2> SUFFICES ASSUME IInv, Next, copy \in TerminalStates PROVE copy' = copy
    BY DEF vars, origin
  <2>1. CASE RecordTask
    BY <2>1 DEF RecordTask, IInv, SenderOK, TerminalStates
  <2>2. ASSUME NEW m \in handling, SaveCopy(m) PROVE copy' = copy
    <3>1. /\ m.event.says \in States \ {"accepted"} /\ m.row \in States
      BY <2>2 DEF SaveCopy, IInv, TypeOK, HandlersOK, EventsOK, EventOK, Handlers, Events, Says
    <3> QED  BY <2>2, <3>1, Mirrored DEF SaveCopy
  <2> QED
    BY <2>1, <2>2 DEF Next, PostStarter, Receive, PassMoves, Spawn, SpawnFails, Retry, TurnEnds, Finish,
       Reconcile, Announce, Deliver, RecordEvent, NoteTooLong, Tell, RecipientDies, OriginDies, origin, sender
<1> QED  BY <1>1, Invariance, PTL DEF Spec, CopyEnds
=============================================================================
