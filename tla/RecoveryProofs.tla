---------------------------- MODULE RecoveryProofs ----------------------------
(***************************************************************************)
(* Proofs about Recovery, for any number of turns and bots, any policy and  *)
(* any number of deaths.  The claim of a row is a lock: the invariant says   *)
(* who holds it in every stage (Held), that a token names one run (Keys),    *)
(* and in which states a turn that was sent or answered is out of reach of  *)
(* every run and loader (Closed).                                           *)
(***************************************************************************)
EXTENDS Recovery, TLAPS

\* A token is the name of one run.
Keys ==
    /\ \A r \in runs : r.token <= tokens
    /\ \A t \in Turns : row[t].token <= tokens
    /\ \A r, s \in runs : r.token = s.token => r = s

RowsOK == \A t \in Turns :
    /\ row[t].token # 0 => row[t].state = "running"
    /\ row[t].state = "running" => row[t].attempt >= 1

\* Who parks a turn knows why.
Reasons == \A r \in runs : r.stage = "park" => r.end # ""

Final(t) == row[t].state \in {"accepted", "expired"}
Holding == {"calling", "retry", "fallback", "park"}
\* A run that calls, or decides after a call, has the claim, unless the row is final.
Held == \A r \in runs : r.stage \in Holding =>
    \/ row[r.turn].state = "running" /\ row[r.turn].token = r.token
    \/ Final(r.turn)

\* What was sent is final, parked, or held by a run that knows of it and can only end.
Closed ==
    /\ \A t \in Turns : "answered" \in told[t] => Final(t)
    /\ \A t \in sent :
          \/ Final(t)
          \/ row[t].state = "scheduled" /\ row[t].next >= row[t].expires
          \/ /\ row[t].state = "running"
             /\ \A r \in runs : r.turn = t /\ r.token = row[t].token =>
                   r.stage = "park" \/ (r.stage = "calling" /\ r.text = "sent")

IInv == TypeOK /\ Keys /\ RowsOK /\ Reasons /\ Held /\ OneCall /\ Closed

\* The four conditional updates, as far as the invariant asks.
LEMMA ClaimedRow ==
    ASSUME NEW r \in Rows, NEW token \in Nat
    PROVE  /\ Claimed(r, token) \in Rows
           /\ Claimed(r, token).state = "running" /\ Claimed(r, token).token = token
           /\ Claimed(r, token).attempt >= 1 /\ Claimed(r, token).expires = r.expires
  <1> DEFINE next == r.attempt + 1
  <1>1. next \in Nat /\ next >= 1
    BY DEF Rows
  <1>2. Claimed(r, token) = [r EXCEPT !.state = "running", !.attempt = next, !.token = token]
    BY DEF Claimed
  <1> HIDE DEF next
  <1> QED  BY <1>1, <1>2 DEF Rows, States

LEMMA ScheduledRow ==
    ASSUME NEW r \in Rows, NEW token \in Nat, NEW next \in Nat, NEW time \in Nat
    PROVE  /\ Scheduled(r, token, next, time) \in Rows
           /\ Scheduled(r, token, next, time).expires = r.expires
           /\ \/ Scheduled(r, token, next, time) = r
              \/ /\ r.state = "running" /\ r.token = token
                 /\ Scheduled(r, token, next, time).state = "scheduled"
                 /\ Scheduled(r, token, next, time).next = next
                 /\ Scheduled(r, token, next, time).token = 0
  BY DEF Scheduled, Rows, States

LEMMA AcceptedRow ==
    ASSUME NEW r \in Rows
    PROVE  /\ Accepted(r) \in Rows
           /\ Accepted(r).state = "accepted" /\ Accepted(r).token = 0
  BY DEF Accepted, Rows, States

LEMMA ExpiredRow ==
    ASSUME NEW r \in Rows, NEW time \in Nat
    PROVE  /\ Expired(r, time) \in Rows
           /\ \/ Expired(r, time) = r
              \/ Expired(r, time).state = "expired" /\ Expired(r, time).token = 0
  BY DEF Expired, Rows, States

\* The tracker only moves a run to a stage in which it decides; what was sent is parked.
LEMMA DecidedRun ==
    ASSUME TypeOK, RecoveryAssumption, NEW r \in runs, NEW s \in Decided(r)
    PROVE  /\ s \in Run /\ s.turn = r.turn /\ s.token = r.token
           /\ s.stage \in {"retry", "fallback", "park"}
           /\ r.text = "sent" => s.stage = "park"
           /\ s.stage = "park" => s.end # ""
  <1>1. r \in Run /\ r.turn \in Turns /\ r.tried \in Nat /\ r.here \in Nat /\ r.index \in Nat
    BY DEF TypeOK, Run
  <1>2. now \in Nat /\ row[r.turn].expires \in Nat
    BY <1>1 DEF TypeOK, Rows, RecoveryAssumption
  <1>3. Remaining(r) \in Nat
    BY <1>2 DEF Remaining
  <1>4. \A d \in Delays : now + (IF d < Remaining(r) THEN d ELSE Remaining(r)) \in Nat
    BY <1>2, <1>3 DEF RecoveryAssumption
  <1>5. r.tried + 1 \in Nat /\ r.here + 1 \in Nat /\ r.index + 1 \in Nat
    BY <1>1
  <1> DEFINE tried == [r EXCEPT !.tried = @ + 1, !.here = @ + 1]
  <1>6. tried \in Run /\ tried.turn = r.turn /\ tried.token = r.token
    BY <1>1, <1>5 DEF Run
  <1>7. \/ s = [tried EXCEPT !.stage = "park", !.end = "ambiguous"]
        \/ s = [tried EXCEPT !.stage = "park", !.end = "exhausted"]
        \/ /\ r.text # "sent"
           /\ s = [tried EXCEPT !.stage = "fallback", !.index = r.index + 1, !.here = 0, !.wake = now]
        \/ /\ r.text # "sent"
           /\ \E w \in Nat : s = [tried EXCEPT !.stage = "retry", !.wake = w]
    <2>1. CASE r.text = "sent"
      BY <2>1 DEF Decided
    <2>2. CASE r.text # "sent"
      <3>1. s \in Waits(r, tried)
        BY <2>2 DEF Decided
      <3> QED  BY <1>1, <1>4, <2>2, <3>1 DEF Waits, Run
    <2> QED  BY <2>1, <2>2
  <1> HIDE DEF tried
  <1>8. CASE \/ s = [tried EXCEPT !.stage = "park", !.end = "ambiguous"]
             \/ s = [tried EXCEPT !.stage = "park", !.end = "exhausted"]
    BY <1>6, <1>8 DEF Run
  <1>9. CASE /\ r.text # "sent"
             /\ s = [tried EXCEPT !.stage = "fallback", !.index = r.index + 1, !.here = 0, !.wake = now]
    BY <1>2, <1>5, <1>6, <1>9 DEF Run
  <1>10. CASE /\ r.text # "sent"
              /\ \E w \in Nat : s = [tried EXCEPT !.stage = "retry", !.wake = w]
    BY <1>6, <1>10 DEF Run
  <1> QED  BY <1>7, <1>8, <1>9, <1>10

LEMMA RunFacts ==
    ASSUME TypeOK, NEW r \in runs
    PROVE  /\ r \in Run /\ r.turn \in Turns /\ r.bot \in Bots
           /\ r.token \in Nat /\ r.token # 0 /\ r.wake \in Nat
           /\ row[r.turn] \in Rows /\ row[r.turn].attempt \in Nat /\ row[r.turn].expires \in Nat
           /\ row[r.turn].token \in Nat
  <1>1. r \in Run /\ r.turn \in Turns /\ r.bot \in Bots
        /\ r.token \in Nat /\ r.token # 0 /\ r.wake \in Nat
    BY DEF TypeOK, Run
  <1>2. row[r.turn] \in Rows
    BY <1>1 DEF TypeOK
  <1> QED  BY <1>1, <1>2 DEF Rows

\* A new value of one row keeps the type of the rows.
LEMMA RowTyped ==
    ASSUME TypeOK, NEW t \in Turns, NEW x \in Rows
    PROVE  [row EXCEPT ![t] = x] \in [Turns -> Rows]
  BY DEF TypeOK

\* The initial state and every step keep the types.
LEMMA TypeInit == Init /\ RecoveryAssumption => TypeOK
  BY DEF Init, TypeOK, RecoveryAssumption, Rows, States, NoRow

LEMMA TypeStep ==
    ASSUME TypeOK, RowsOK, Reasons, RecoveryAssumption, [Next]_vars
    PROVE  TypeOK'
  <1> USE DEF RecoveryAssumption
  <1>1. CASE Tick
    BY <1>1 DEF Tick, TypeOK
  <1>2. ASSUME NEW b \in Bots, Boot(b) PROVE TypeOK'
    <2>1. now \in Nat /\ \A t \in Turns : Expired(row[t], now) \in Rows
      BY ExpiredRow DEF TypeOK
    <2> QED  BY <1>2, <2>1 DEF Boot, TypeOK
  <1>3. ASSUME NEW b \in Bots, Dies(b) PROVE TypeOK'
    BY <1>3 DEF Dies, TypeOK
  <1>4. ASSUME NEW b \in Bots, NEW t \in Turns, Submit(t, b) PROVE TypeOK'
    <2>1. now \in Nat /\ tokens + 1 \in Nat \ {0}
      BY DEF TypeOK
    <2>2. [NoRow EXCEPT !.state = "pending", !.next = now, !.expires = now + Window] \in Rows
      <3>1. now + Window \in Nat
        BY <2>1
      <3> QED  BY <2>1, <3>1 DEF Rows, NoRow, States
    <2>3. [Fresh(t, b, tokens + 1, "claim") EXCEPT !.wake = now] \in Run
      BY <2>1 DEF Fresh, Run
    <2> QED  BY <1>4, <2>1, <2>2, <2>3, RowTyped DEF Submit, TypeOK
  <1>5. ASSUME NEW b \in Bots, NEW t \in Turns, Load(b, t) PROVE TypeOK'
    <2>1. tokens + 1 \in Nat \ {0}
      BY DEF TypeOK
    <2>2. Claimed(row[t], tokens + 1) \in Rows
      BY <2>1, ClaimedRow DEF TypeOK
    <2>3. Fresh(t, b, tokens + 1, "resume") \in Run
      BY <2>1 DEF Fresh, Run
    <2> QED  BY <1>5, <2>1, <2>2, <2>3, RowTyped DEF Load, TypeOK
  <1>6. ASSUME NEW r \in runs, Claim(r) PROVE TypeOK'
    <2>1. Claimed(row[r.turn], r.token) \in Rows /\ row[r.turn].attempt \in Nat
      BY RunFacts, ClaimedRow
    <2>2. [[r EXCEPT !.tried = row[r.turn].attempt] EXCEPT !.stage = "calling", !.wake = 0, !.text = "none"] \in Run
      BY <2>1, RunFacts DEF Run
    <2> QED  BY <1>6, <2>1, <2>2, RowTyped, RunFacts DEF Claim, Calling, Become, Over, TypeOK
  <1>7. ASSUME NEW r \in runs, Continue(r) PROVE TypeOK'
    <2>1. CASE row[r.turn].token = r.token
      <3>1. row[r.turn].attempt - 1 \in Nat
        BY <2>1, RunFacts DEF RowsOK
      <3>2. [[r EXCEPT !.tried = row[r.turn].attempt - 1] EXCEPT !.stage = "calling", !.wake = 0, !.text = "none"] \in Run
        BY <3>1, RunFacts DEF Run
      <3> QED  BY <1>7, <2>1, <3>2, RunFacts DEF Continue, Calling, Become, TypeOK
    <2>2. CASE row[r.turn].token # r.token
      BY <1>7, <2>2 DEF Continue, Over, TypeOK
    <2> QED  BY <2>1, <2>2
  <1>8. ASSUME NEW r \in runs, Answer(r) PROVE TypeOK'
    <2>1. r.turn \in Turns /\ Accepted(row[r.turn]) \in Rows /\ row[r.turn] \in Rows
      BY RunFacts, AcceptedRow DEF TypeOK
    <2> QED  BY <1>8, <2>1, RowTyped DEF Answer, Over, Tell, TypeOK, Words
  <1>9. ASSUME NEW r \in runs, Refused(r) PROVE TypeOK'
    <2>1. [r EXCEPT !.stage = "park", !.end = "user"] \in Run
      BY RunFacts DEF Run
    <2> QED  BY <1>9, <2>1 DEF Refused, Become, TypeOK
  <1>10. ASSUME NEW r \in runs, Saturated(r) PROVE TypeOK'
    BY <1>10, DecidedRun DEF Saturated, Become, TypeOK
  <1>11. ASSUME NEW r \in runs, Release(r) PROVE TypeOK'
    <2>1. now \in Nat
      BY DEF TypeOK
    <2>3. Scheduled(row[r.turn], r.token, r.wake, now) \in Rows
      BY <2>1, RunFacts, ScheduledRow
    <2>2. [r EXCEPT !.stage = "asleep"] \in Run
      BY RunFacts DEF Run
    <2> QED  BY <1>11, <2>2, <2>3, RowTyped, RunFacts DEF Release, Become, TypeOK
  <1>12. ASSUME NEW r \in runs, Wake(r) PROVE TypeOK'
    <2>1. Claimed(row[r.turn], r.token) \in Rows
      BY RunFacts, ClaimedRow
    <2>2. [r EXCEPT !.stage = "calling", !.wake = 0, !.text = "none"] \in Run
      BY RunFacts DEF Run
    <2> QED  BY <1>12, <2>1, <2>2, RowTyped, RunFacts DEF Wake, Calling, Become, Over, Tell, TypeOK, Words
  <1>13. ASSUME NEW r \in runs, Park(r) PROVE TypeOK'
    <2>1. now \in Nat
      BY DEF TypeOK
    <2>2. Scheduled(row[r.turn], r.token, row[r.turn].expires, now) \in Rows
      BY <2>1, RunFacts, ScheduledRow
    <2>3. row' = [row EXCEPT ![r.turn] = Scheduled(row[r.turn], r.token, row[r.turn].expires, now)]
      BY <1>13 DEF Park
    <2>4. r.end \in {"exhausted", "ambiguous", "user"}
      BY <1>13, RunFacts DEF Park, Reasons, Run
    <2> QED  BY <1>13, <2>1, <2>2, <2>3, <2>4, RowTyped, RunFacts DEF Park, Over, Tell, TypeOK, Words
  <1>14. ASSUME NEW r \in runs, ShowPart(r) \/ ShowBlock(r) PROVE TypeOK'
    <2>1. [r EXCEPT !.text = "part"] \in Run /\ [r EXCEPT !.text = "sent"] \in Run
      BY RunFacts DEF Run
    <2> QED  BY <1>14, <2>1, RunFacts DEF ShowPart, ShowBlock, Become, TypeOK
  <1>15. ASSUME NEW r \in runs, Stop(r) PROVE TypeOK'
    BY <1>15, RunFacts DEF Stop, Over, TypeOK
  <1>16. ASSUME NEW r \in runs, ResumeFails(r) PROVE TypeOK'
    <2>1. loadTime[r.bot] \in Nat /\ loadTime[r.bot] + 1 \in Nat
      BY RunFacts DEF TypeOK
    <2>2. Scheduled(row[r.turn], r.token, loadTime[r.bot] + 1, loadTime[r.bot]) \in Rows
      BY <2>1, RunFacts, ScheduledRow
    <2> QED  BY <1>16, <2>2, RowTyped, RunFacts DEF ResumeFails, Over, TypeOK
  <1>17. ASSUME NEW r \in runs, Lost(r) PROVE TypeOK'
    BY <1>17 DEF Lost, Over, TypeOK
  <1>18. CASE UNCHANGED vars
    BY <1>18 DEF vars, TypeOK
  <1> QED
    BY <1>1, <1>2, <1>3, <1>4, <1>5, <1>6, <1>7, <1>8, <1>9, <1>10, <1>11, <1>12, <1>13, <1>14,
       <1>15, <1>16, <1>17, <1>18 DEF Next, Step, CallEnds

(***************************************************************************)
(* What a step does to rows, runs, calls and what the person has seen: all   *)
(* that the invariant asks of the actions.                                  *)
(***************************************************************************)
Others(t) == \A u \in Turns : u # t => row'[u] = row[u]
Turned(r, stages) == \E s \in Run :
    /\ s.turn = r.turn /\ s.token = r.token /\ s.stage \in stages
    /\ s.stage = "park" => s.end # ""
    /\ runs' = (runs \ {r}) \cup {s}
Entered(t, stage) == \E s \in Run :
    /\ s.turn = t /\ s.token = tokens' /\ s.stage = stage
    /\ runs' = runs \cup {s}
Waiting(t) ==
    row[t].state \in {"pending", "scheduled"} /\ row[t].token = 0 /\ row[t].next < row[t].expires
Taken(t, token) ==
    /\ Waiting(t) /\ Others(t)
    /\ row'[t].state = "running" /\ row'[t].token = token /\ row'[t].attempt >= 1
Counted(t) == calls' = [calls EXCEPT ![t] = @ + 1]
Unanswered == \A t \in Turns : "answered" \in told'[t] => "answered" \in told[t]

Quiet ==
    /\ runs' \subseteq runs /\ row' = row /\ Unanswered /\ UNCHANGED <<tokens, sent, calls>>
Boots ==
    /\ runs' = runs /\ UNCHANGED <<tokens, sent, told, calls>>
    /\ \A t \in Turns :
          \/ row'[t] = row[t]
          \/ row'[t].state = "expired" /\ row'[t].token = 0
Enters(t) ==
    /\ row[t].state = "none" /\ row'[t].state = "pending" /\ row'[t].token = 0 /\ Others(t)
    /\ tokens' = tokens + 1 /\ Entered(t, "claim") /\ UNCHANGED <<sent, told, calls>>
Loads(t) ==
    /\ Taken(t, tokens')
    /\ tokens' = tokens + 1 /\ Entered(t, "resume") /\ UNCHANGED <<sent, told, calls>>
Calls(r) ==
    /\ r.stage \in {"claim", "asleep"} /\ Taken(r.turn, r.token)
    /\ Turned(r, {"calling"}) /\ Counted(r.turn) /\ UNCHANGED <<tokens, sent, told>>
Continues(r) ==
    /\ r.stage = "resume" /\ row[r.turn].token = r.token /\ row' = row
    /\ Turned(r, {"calling"}) /\ Counted(r.turn) /\ UNCHANGED <<tokens, sent, told>>
Streams(r) ==
    /\ r.stage = "calling" /\ r.text = "none" /\ Turned(r, {"calling"})
    /\ UNCHANGED <<row, tokens, sent, told, calls>>
Sends(r) ==
    /\ r.stage = "calling" /\ sent' = sent \cup {r.turn}
    /\ \E s \in Run : /\ s.turn = r.turn /\ s.token = r.token /\ s.stage = "calling"
                      /\ s.text = "sent" /\ runs' = (runs \ {r}) \cup {s}
    /\ UNCHANGED <<row, tokens, told, calls>>
Answers(r) ==
    /\ r.stage = "calling" /\ runs' = runs \ {r} /\ Others(r.turn)
    /\ \/ row'[r.turn].state = "accepted" /\ row'[r.turn].token = 0
       \/ Final(r.turn) /\ row' = row
    /\ \A t \in Turns : t # r.turn => told'[t] = told[t]
    /\ UNCHANGED <<tokens, sent, calls>>
Decides(r) ==
    /\ r.stage = "calling" /\ row' = row /\ UNCHANGED <<tokens, sent, told, calls>>
    /\ Turned(r, IF r.text = "sent" THEN {"park"} ELSE {"retry", "fallback", "park"})
Releases(r) ==
    /\ r.stage \in {"retry", "fallback", "park", "resume"} /\ Others(r.turn)
    /\ runs' = runs \ {r} \/ (r.stage # "park" /\ Turned(r, {"asleep"}))
    /\ \/ row' = row
       \/ /\ row[r.turn].state = "running" /\ row[r.turn].token = r.token
          /\ row'[r.turn].state = "scheduled" /\ row'[r.turn].token = 0
          /\ r.stage = "park" => row'[r.turn].next = row'[r.turn].expires
    /\ Unanswered /\ UNCHANGED <<tokens, sent, calls>>

Effect ==
    \/ Quiet \/ Boots \/ \E t \in Turns : Enters(t) \/ Loads(t)
    \/ \E r \in runs : \/ Calls(r) \/ Continues(r) \/ Streams(r) \/ Sends(r)
                       \/ Answers(r) \/ Decides(r) \/ Releases(r)

\* Every step of the code has one of these effects.
LEMMA StepEffect ==
    ASSUME TypeOK, RowsOK, Reasons, RecoveryAssumption, [Next]_vars
    PROVE  Effect
  <1>1. CASE Tick
    BY <1>1 DEF Tick, Effect, Quiet, Unanswered
  <1>2. ASSUME NEW b \in Bots, Boot(b) PROVE Boots
    <2>1. \A t \in Turns : row'[t] = Expired(row[t], now)
      BY <1>2 DEF Boot
    <2>2. now \in Nat /\ \A t \in Turns : row[t] \in Rows
      BY DEF TypeOK, RecoveryAssumption
    <2>3. \A t \in Turns :
          \/ row'[t] = row[t]
          \/ row'[t].state = "expired" /\ row'[t].token = 0
      <3> TAKE t \in Turns
      <3>1. row[t] \in Rows
        BY <2>2
      <3>2. \/ Expired(row[t], now) = row[t]
            \/ Expired(row[t], now).state = "expired" /\ Expired(row[t], now).token = 0
        BY <2>2, <3>1, ExpiredRow
      <3> QED  BY <2>1, <3>2
    <2> QED  BY <1>2, <2>3 DEF Boot, Boots
  <1>3. ASSUME NEW b \in Bots, Dies(b) PROVE Quiet
    BY <1>3 DEF Dies, Quiet, Unanswered
  <1>4. ASSUME NEW b \in Bots, NEW t \in Turns, Submit(t, b) PROVE Enters(t)
    <2> DEFINE s == [Fresh(t, b, tokens + 1, "claim") EXCEPT !.wake = now]
    <2>1. now \in Nat /\ tokens + 1 \in Nat \ {0} /\ row \in [Turns -> Rows]
      BY DEF TypeOK, RecoveryAssumption
    <2>2. s \in Run /\ s.turn = t /\ s.token = tokens + 1 /\ s.stage = "claim"
      BY <2>1 DEF Fresh, Run
    <2>3. row'[t].state = "pending" /\ row'[t].token = 0 /\ Others(t)
      BY <1>4, <2>1 DEF Submit, NoRow, Others
    <2> HIDE DEF s
    <2>4. runs' = runs \cup {s}
      BY <1>4 DEF Submit, s
    <2> QED  BY <1>4, <2>2, <2>3, <2>4 DEF Submit, Enters, Entered
  <1>5. ASSUME NEW b \in Bots, NEW t \in Turns, Load(b, t) PROVE Quiet \/ Loads(t)
    <2>1. CASE Due(row[t], loadTime[b])
      <3> DEFINE s == Fresh(t, b, tokens + 1, "resume")
                 x == Claimed(row[t], tokens + 1)
      <3>1. tokens + 1 \in Nat \ {0} /\ row \in [Turns -> Rows] /\ loadTime[b] \in Nat
        BY DEF TypeOK
      <3>2. s \in Run /\ s.turn = t /\ s.token = tokens + 1 /\ s.stage = "resume"
        BY <3>1 DEF Fresh, Run
      <3>3. x.state = "running" /\ x.token = tokens + 1 /\ x.attempt >= 1
        BY <3>1, ClaimedRow
      <3>4. Waiting(t)
        BY <2>1, <3>1 DEF Waiting, Due, Rows
      <3> HIDE DEF s, x
      <3>5. runs' = runs \cup {s} /\ row' = [row EXCEPT ![t] = x]
        BY <1>5, <2>1 DEF Load, s, x
      <3> QED  BY <1>5, <2>1, <3>1, <3>2, <3>3, <3>4, <3>5 DEF Load, Loads, Taken, Others, Entered
    <2>2. CASE ~ Due(row[t], loadTime[b])
      BY <1>5, <2>2 DEF Load, Quiet, Unanswered
    <2> QED  BY <2>1, <2>2
  <1>6. ASSUME NEW r \in runs, Claim(r) PROVE Quiet \/ Calls(r)
    <2>1. CASE Due(row[r.turn], r.wake)
      <3> DEFINE s == [[r EXCEPT !.tried = row[r.turn].attempt] EXCEPT !.stage = "calling", !.wake = 0, !.text = "none"]
                 x == Claimed(row[r.turn], r.token)
      <3>1. s \in Run /\ s.turn = r.turn /\ s.token = r.token /\ s.stage = "calling"
        BY RunFacts DEF Run
      <3>2. x.state = "running" /\ x.token = r.token /\ x.attempt >= 1
        BY RunFacts, ClaimedRow
      <3>3. Waiting(r.turn)
        BY <2>1, RunFacts DEF Waiting, Due, Rows
      <3> HIDE DEF s, x
      <3>4. runs' = (runs \ {r}) \cup {s} /\ row' = [row EXCEPT ![r.turn] = x]
        BY <1>6, <2>1 DEF Claim, Calling, Become, s, x
      <3>5. Taken(r.turn, r.token)
        BY <3>2, <3>3, <3>4, RunFacts DEF Taken, Others, TypeOK
      <3> QED  BY <1>6, <2>1, <3>1, <3>4, <3>5 DEF Claim, Calling, Calls, Turned, Counted
    <2>2. CASE ~ Due(row[r.turn], r.wake)
      BY <1>6, <2>2 DEF Claim, Over, Quiet, Unanswered
    <2> QED  BY <2>1, <2>2
  <1>7. ASSUME NEW r \in runs, Continue(r) PROVE Quiet \/ Continues(r)
    <2>1. CASE row[r.turn].token = r.token
      <3> DEFINE n == row[r.turn].attempt - 1
                 s == [[r EXCEPT !.tried = n] EXCEPT !.stage = "calling", !.wake = 0, !.text = "none"]
      <3>1. n \in Nat
        BY <2>1, RunFacts DEF RowsOK
      <3>2. runs' = (runs \ {r}) \cup {s}
        BY <1>7, <2>1 DEF Continue, Calling, Become
      <3> HIDE DEF n
      <3>3. s \in Run /\ s.turn = r.turn /\ s.token = r.token /\ s.stage = "calling"
        BY <3>1, RunFacts DEF Run
      <3> HIDE DEF s
      <3> QED
        BY <1>7, <2>1, <3>2, <3>3 DEF Continue, Calling, Continues, Turned, Counted
    <2>2. CASE row[r.turn].token # r.token
      BY <1>7, <2>2 DEF Continue, Over, Quiet, Unanswered
    <2> QED  BY <2>1, <2>2
  <1>8. ASSUME NEW r \in runs, Answer(r) PROVE Answers(r)
    <2>1. row \in [Turns -> Rows] /\ told \in [Turns -> SUBSET Words]
      BY DEF TypeOK
    <2>2. CASE Acceptable(row[r.turn])
      <3>1. row' = [row EXCEPT ![r.turn] = Accepted(row[r.turn])]
        BY <1>8, <2>2 DEF Answer
      <3>2. row'[r.turn].state = "accepted" /\ row'[r.turn].token = 0 /\ Others(r.turn)
        BY <2>1, <3>1, RunFacts, AcceptedRow DEF Others
      <3> QED  BY <1>8, <2>1, <3>2 DEF Answer, Answers, Over, Tell
    <2>3. CASE ~ Acceptable(row[r.turn])
      <3>1. row' = row
        BY <1>8, <2>1, <2>3 DEF Answer
      <3> QED  BY <1>8, <2>1, <2>3, <3>1 DEF Answer, Answers, Over, Tell, Acceptable, Final, Others
    <2> QED  BY <2>2, <2>3
  <1>9. ASSUME NEW r \in runs, Refused(r) PROVE Decides(r)
    <2>1. [r EXCEPT !.stage = "park", !.end = "user"] \in Run
      BY RunFacts DEF Run
    <2> QED  BY <1>9, <2>1 DEF Refused, Become, Decides, Turned, Run
  <1>10. ASSUME NEW r \in runs, Saturated(r) PROVE Decides(r)
    <2>1. PICK s \in Decided(r) : Become(r, s)
      BY <1>10 DEF Saturated
    <2> DEFINE stages == IF r.text = "sent" THEN {"park"} ELSE {"retry", "fallback", "park"}
    <2>2. /\ s \in Run /\ s.turn = r.turn /\ s.token = r.token /\ s.stage \in stages
          /\ s.stage = "park" => s.end # ""
      BY DecidedRun
    <2> HIDE DEF stages
    <2>3. Turned(r, stages)
      BY <2>1, <2>2 DEF Become, Turned
    <2>4. r.stage = "calling" /\ row' = row /\ UNCHANGED <<tokens, sent, told, calls>>
      BY <1>10 DEF Saturated
    <2> QED  BY <2>3, <2>4 DEF Decides, stages
  <1>11. ASSUME NEW r \in runs, Release(r) PROVE Releases(r)
    <2> DEFINE s == [r EXCEPT !.stage = "asleep"]
               x == Scheduled(row[r.turn], r.token, r.wake, now)
    <2>1. now \in Nat /\ row \in [Turns -> Rows]
      BY DEF TypeOK, RecoveryAssumption
    <2>2. \/ x = row[r.turn]
          \/ /\ row[r.turn].state = "running" /\ row[r.turn].token = r.token
             /\ x.state = "scheduled" /\ x.token = 0
      <3> DEFINE old == row[r.turn]
                 next == r.wake
                 time == now
      <3> DEFINE token == r.token
      <3>1. old \in Rows /\ token \in Nat /\ next \in Nat /\ time \in Nat
        BY <2>1, RunFacts
      <3>2. x = Scheduled(old, token, next, time) /\ token = r.token /\ old = row[r.turn] /\ next = r.wake
        OBVIOUS
      <3> HIDE DEF old, next, time, token, x
      <3>3. ASSUME Scheduled(old, token, next, time) # old
            PROVE  /\ old.state = "running" /\ old.token = token
                   /\ Scheduled(old, token, next, time).state = "scheduled"
                   /\ Scheduled(old, token, next, time).next = next
                   /\ Scheduled(old, token, next, time).token = 0
        BY <3>1, <3>3, ScheduledRow
      <3>4. Scheduled(old, token, next, time).expires = old.expires
        BY <3>1, ScheduledRow
      <3> QED  BY <3>2, <3>3, <3>4
    <2>3. s \in Run /\ s.turn = r.turn /\ s.token = r.token /\ s.stage = "asleep"
      BY RunFacts DEF Run
    <2>4. row' = [row EXCEPT ![r.turn] = x] /\ runs' = (runs \ {r}) \cup {s}
      BY <1>11 DEF Release, Become
    <2> HIDE DEF s, x
    <2>5. Turned(r, {"asleep"})
      BY <2>3, <2>4 DEF Turned
    <2>6. r.stage # "park" /\ r.stage \in {"retry", "fallback"}
          /\ UNCHANGED <<tokens, sent, told, calls>>
      BY <1>11 DEF Release
    <2> QED  BY <2>1, <2>2, <2>4, <2>5, <2>6, RunFacts DEF Releases, Others, Unanswered
  <1>12. ASSUME NEW r \in runs, Wake(r) PROVE Quiet \/ Calls(r)
    <2>1. CASE Due(row[r.turn], now)
      <3> DEFINE s == [r EXCEPT !.stage = "calling", !.wake = 0, !.text = "none"]
                 x == Claimed(row[r.turn], r.token)
      <3>1. s \in Run /\ s.turn = r.turn /\ s.token = r.token /\ s.stage = "calling"
        BY RunFacts DEF Run
      <3>2. x.state = "running" /\ x.token = r.token /\ x.attempt >= 1
        BY RunFacts, ClaimedRow
      <3>3. now \in Nat
        BY DEF TypeOK, RecoveryAssumption
      <3>4. Waiting(r.turn)
        BY <2>1, <3>3, RunFacts DEF Waiting, Due, Rows
      <3> HIDE DEF s, x
      <3>5. runs' = (runs \ {r}) \cup {s} /\ row' = [row EXCEPT ![r.turn] = x]
        BY <1>12, <2>1 DEF Wake, Calling, Become, s, x
      <3>6. Taken(r.turn, r.token)
        BY <3>2, <3>4, <3>5, RunFacts DEF Taken, Others, TypeOK
      <3> QED  BY <1>12, <2>1, <3>1, <3>5, <3>6 DEF Wake, Calling, Calls, Turned, Counted
    <2>2. CASE ~ Due(row[r.turn], now)
      <3>1. told \in [Turns -> SUBSET Words]
        BY DEF TypeOK
      <3> QED  BY <1>12, <2>2, <3>1 DEF Wake, Over, Tell, Quiet, Unanswered
    <2> QED  BY <2>1, <2>2
  <1>13. ASSUME NEW r \in runs, Park(r) PROVE Releases(r)
    <2> DEFINE x == Scheduled(row[r.turn], r.token, row[r.turn].expires, now)
    <2>1. now \in Nat /\ row \in [Turns -> Rows]
          /\ told \in [Turns -> SUBSET Words]
      BY DEF TypeOK, RecoveryAssumption
    <2>2. \/ x = row[r.turn]
          \/ /\ row[r.turn].state = "running" /\ row[r.turn].token = r.token
             /\ x.state = "scheduled" /\ x.token = 0 /\ x.next = x.expires
      <3> DEFINE old == row[r.turn]
                 next == row[r.turn].expires
                 time == now
      <3> DEFINE token == r.token
      <3>1. old \in Rows /\ token \in Nat /\ next \in Nat /\ time \in Nat
        BY <2>1, RunFacts
      <3>2. x = Scheduled(old, token, next, time) /\ token = r.token /\ old = row[r.turn] /\ next = row[r.turn].expires
        OBVIOUS
      <3> HIDE DEF old, next, time, token, x
      <3>3. ASSUME Scheduled(old, token, next, time) # old
            PROVE  /\ old.state = "running" /\ old.token = token
                   /\ Scheduled(old, token, next, time).state = "scheduled"
                   /\ Scheduled(old, token, next, time).next = next
                   /\ Scheduled(old, token, next, time).token = 0
        BY <3>1, <3>3, ScheduledRow
      <3>4. Scheduled(old, token, next, time).expires = old.expires
        BY <3>1, ScheduledRow
      <3> QED  BY <3>2, <3>3, <3>4
    <2>3. row' = [row EXCEPT ![r.turn] = x] /\ runs' = runs \ {r}
      BY <1>13 DEF Park, Over
    <2> HIDE DEF x
    <2>4. r.end # "answered"
      BY RunFacts DEF Run
    <2>5. Unanswered
      BY <1>13, <2>1, <2>4, RunFacts DEF Park, Tell, Unanswered
    <2> QED  BY <1>13, <2>1, <2>2, <2>3, <2>5, RunFacts DEF Park, Releases, Others
  <1>14. ASSUME NEW r \in runs, ShowPart(r) \/ ShowBlock(r) PROVE Streams(r) \/ Sends(r)
    <2>1. CASE ShowPart(r)
      <3> DEFINE s == [r EXCEPT !.text = "part"]
      <3>1. s \in Run /\ s.turn = r.turn /\ s.token = r.token /\ s.stage = r.stage
        BY RunFacts DEF Run
      <3> HIDE DEF s
      <3>2. runs' = (runs \ {r}) \cup {s}
        BY <2>1 DEF ShowPart, Become, s
      <3> QED  BY <2>1, <3>1, <3>2 DEF ShowPart, Streams, Turned
    <2>2. CASE ShowBlock(r)
      <3> DEFINE s == [r EXCEPT !.text = "sent"]
      <3>1. s \in Run /\ s.turn = r.turn /\ s.token = r.token /\ s.stage = r.stage /\ s.text = "sent"
        BY RunFacts DEF Run
      <3> HIDE DEF s
      <3>2. runs' = (runs \ {r}) \cup {s}
        BY <2>2 DEF ShowBlock, Become, s
      <3> QED  BY <2>2, <3>1, <3>2 DEF ShowBlock, Sends
    <2> QED  BY <1>14, <2>1, <2>2
  <1>15. ASSUME NEW r \in runs, Stop(r) PROVE Quiet
    BY <1>15 DEF Stop, Over, Quiet, Unanswered
  <1>16. ASSUME NEW r \in runs, ResumeFails(r) PROVE Releases(r)
    <2> DEFINE x == Scheduled(row[r.turn], r.token, loadTime[r.bot] + 1, loadTime[r.bot])
    <2>1. loadTime[r.bot] \in Nat /\ loadTime[r.bot] + 1 \in Nat /\ row \in [Turns -> Rows]
      BY RunFacts DEF TypeOK
    <2>2. \/ x = row[r.turn]
          \/ /\ row[r.turn].state = "running" /\ row[r.turn].token = r.token
             /\ x.state = "scheduled" /\ x.token = 0
      <3> DEFINE old == row[r.turn]
                 next == loadTime[r.bot] + 1
                 time == loadTime[r.bot]
      <3> DEFINE token == r.token
      <3>1. old \in Rows /\ token \in Nat /\ next \in Nat /\ time \in Nat
        BY <2>1, RunFacts
      <3>2. x = Scheduled(old, token, next, time) /\ token = r.token /\ old = row[r.turn] /\ next = loadTime[r.bot] + 1
        OBVIOUS
      <3> HIDE DEF old, next, time, token, x
      <3>3. ASSUME Scheduled(old, token, next, time) # old
            PROVE  /\ old.state = "running" /\ old.token = token
                   /\ Scheduled(old, token, next, time).state = "scheduled"
                   /\ Scheduled(old, token, next, time).next = next
                   /\ Scheduled(old, token, next, time).token = 0
        BY <3>1, <3>3, ScheduledRow
      <3>4. Scheduled(old, token, next, time).expires = old.expires
        BY <3>1, ScheduledRow
      <3> QED  BY <3>2, <3>3, <3>4
    <2>3. row' = [row EXCEPT ![r.turn] = x] /\ runs' = runs \ {r}
      BY <1>16 DEF ResumeFails, Over
    <2> HIDE DEF x
    <2> QED
      BY <1>16, <2>1, <2>2, <2>3, RunFacts DEF ResumeFails, Releases, Others, Unanswered
  <1>17. ASSUME NEW r \in runs, Lost(r) PROVE Quiet
    BY <1>17 DEF Lost, Over, Quiet, Unanswered
  <1>18. CASE UNCHANGED vars
    BY <1>18 DEF vars, Effect, Quiet, Unanswered
  <1> QED
    BY <1>1, <1>2, <1>3, <1>4, <1>5, <1>6, <1>7, <1>8, <1>9, <1>10, <1>11, <1>12, <1>13, <1>14,
       <1>15, <1>16, <1>17, <1>18 DEF Next, Step, CallEnds, Effect

\* The type facts that the effects are read with.
LEMMA Typed ==
    ASSUME TypeOK
    PROVE  /\ tokens \in Nat /\ sent \subseteq Turns
           /\ \A t \in Turns : row[t] \in Rows /\ row[t].token \in Nat /\ row[t].attempt \in Nat
           /\ \A t \in Turns : row[t].next \in Nat /\ row[t].expires \in Nat
           /\ \A r \in runs : r.turn \in Turns /\ r.token \in Nat /\ r.token # 0
  BY DEF TypeOK, Run, Rows

LEMMA ReasonsStep ==
    ASSUME Reasons, Effect
    PROVE  Reasons'
  <1>1. CASE Quiet \/ Boots
    BY <1>1 DEF Reasons, Quiet, Boots
  <1>2. ASSUME NEW t \in Turns, Enters(t) \/ Loads(t) PROVE Reasons'
    BY <1>2 DEF Reasons, Enters, Loads, Entered
  <1>3. ASSUME NEW r \in runs, Calls(r) \/ Continues(r) \/ Decides(r) PROVE Reasons'
    BY <1>3 DEF Reasons, Calls, Continues, Decides, Turned
  <1>4. ASSUME NEW r \in runs, Streams(r) \/ Sends(r) \/ Answers(r) \/ Releases(r) PROVE Reasons'
    BY <1>4 DEF Reasons, Streams, Sends, Answers, Releases, Turned
  <1> QED  BY <1>1, <1>2, <1>3, <1>4 DEF Effect

LEMMA KeysStep ==
    ASSUME TypeOK, TypeOK', Keys, Effect
    PROVE  Keys'
  <1> USE Typed
  <1>1. CASE Quiet
    BY <1>1 DEF Keys, Quiet
  <1>2. CASE Boots
    BY <1>2 DEF Keys, Boots
  <1>3. ASSUME NEW t \in Turns, Enters(t) PROVE Keys'
    BY <1>3 DEF Keys, Enters, Entered, Others
  <1>4. ASSUME NEW t \in Turns, Loads(t) PROVE Keys'
    BY <1>4 DEF Keys, Loads, Entered, Taken, Others
  <1>5. ASSUME NEW r \in runs, Calls(r) PROVE Keys'
    <2>1. PICK s \in Run : s.turn = r.turn /\ s.token = r.token /\ runs' = (runs \ {r}) \cup {s}
      BY <1>5 DEF Calls, Turned
    <2>2. \A t \in Turns : row'[t].token = row[t].token \/ row'[t].token = r.token
      BY <1>5 DEF Calls, Taken, Others
    <2>3. tokens' = tokens
      BY <1>5 DEF Calls
    <2>4. \A t \in Turns : row'[t].token <= tokens'
      BY <2>2, <2>3 DEF Keys
    <2> QED  BY <2>1, <2>3, <2>4 DEF Keys
  <1>6. ASSUME NEW r \in runs, Continues(r) \/ Decides(r) PROVE Keys'
    BY <1>6 DEF Keys, Continues, Decides, Turned
  <1>7. ASSUME NEW r \in runs, Streams(r) \/ Sends(r) PROVE Keys'
    BY <1>7 DEF Keys, Streams, Sends, Turned
  <1>8. ASSUME NEW r \in runs, Answers(r) PROVE Keys'
    BY <1>8 DEF Keys, Answers, Others
  <1>9. ASSUME NEW r \in runs, Releases(r) PROVE Keys'
    <2>1. \A t \in Turns : row'[t].token = row[t].token \/ row'[t].token = 0
      BY <1>9 DEF Releases, Others
    <2>2. tokens' = tokens
      BY <1>9 DEF Releases
    <2>3. \A t \in Turns : row'[t].token <= tokens'
      BY <2>1, <2>2 DEF Keys
    <2>4. CASE runs' = runs \ {r}
      BY <2>2, <2>3, <2>4 DEF Keys
    <2>5. CASE Turned(r, {"asleep"})
      BY <2>2, <2>3, <2>5 DEF Keys, Turned
    <2> QED  BY <1>9, <2>4, <2>5 DEF Releases
  <1> QED  BY <1>1, <1>2, <1>3, <1>4, <1>5, <1>6, <1>7, <1>8, <1>9 DEF Effect

LEMMA RowsStep ==
    ASSUME TypeOK, RowsOK, Effect
    PROVE  RowsOK'
  <1> USE Typed
  <1>1. CASE Quiet \/ Boots
    BY <1>1 DEF RowsOK, Quiet, Boots
  <1>2. ASSUME NEW t \in Turns, Enters(t) \/ Loads(t) PROVE RowsOK'
    BY <1>2 DEF RowsOK, Enters, Loads, Taken, Others
  <1>3. ASSUME NEW r \in runs, Calls(r) \/ Continues(r) \/ Decides(r) PROVE RowsOK'
    BY <1>3 DEF RowsOK, Calls, Continues, Decides, Taken, Others
  <1>4. ASSUME NEW r \in runs, Streams(r) \/ Sends(r) \/ Answers(r) \/ Releases(r) PROVE RowsOK'
    BY <1>4 DEF RowsOK, Streams, Sends, Answers, Releases, Others
  <1> QED  BY <1>1, <1>2, <1>3, <1>4 DEF Effect

LEMMA HeldStep ==
    ASSUME TypeOK, Keys, RowsOK, Held, Effect
    PROVE  Held'
  <1> USE Typed DEF Held, Holding, Final
  <1>1. CASE Quiet
    BY <1>1 DEF Quiet
  <1>2. CASE Boots
    BY <1>2 DEF Boots
  <1>3. ASSUME NEW t \in Turns, Enters(t) PROVE Held'
    BY <1>3 DEF Enters, Entered, Others
  <1>4. ASSUME NEW t \in Turns, Loads(t) PROVE Held'
    BY <1>4 DEF Loads, Entered, Taken, Waiting, Others
  <1>5. ASSUME NEW r \in runs, Calls(r) PROVE Held'
    BY <1>5 DEF Calls, Taken, Waiting, Others, Turned
  <1>6. ASSUME NEW r \in runs, Continues(r) PROVE Held'
    BY <1>6 DEF RowsOK, Continues, Turned
  <1>7. ASSUME NEW r \in runs, Decides(r) PROVE Held'
    BY <1>7 DEF Decides, Turned
  <1>8. ASSUME NEW r \in runs, Streams(r) \/ Sends(r) PROVE Held'
    BY <1>8 DEF Streams, Sends, Turned
  <1>9. ASSUME NEW r \in runs, Answers(r) PROVE Held'
    BY <1>9 DEF Answers, Others
  <1>10. ASSUME NEW r \in runs, Releases(r) PROVE Held'
    <2>1. \A s \in runs' : s \in runs \ {r} \/ s.stage = "asleep"
      BY <1>10 DEF Releases, Turned
    <2>2. ASSUME NEW s \in runs \ {r}, s.stage \in Holding
          PROVE  \/ row'[s.turn] = row[s.turn]
                 \/ row[s.turn].token # s.token /\ row[s.turn].state = "running"
      BY <1>10, <2>2 DEF Releases, Others, Keys
    <2> QED  BY <2>1, <2>2
  <1> QED  BY <1>1, <1>2, <1>3, <1>4, <1>5, <1>6, <1>7, <1>8, <1>9, <1>10 DEF Effect

LEMMA OneCallStep ==
    ASSUME TypeOK, Keys, RowsOK, Held, OneCall, Effect
    PROVE  OneCall'
  <1> USE Typed DEF OneCall
  <1>1. CASE Quiet \/ Boots
    BY <1>1 DEF Quiet, Boots
  <1>2. ASSUME NEW t \in Turns, Enters(t) \/ Loads(t) PROVE OneCall'
    BY <1>2 DEF Enters, Loads, Entered
  <1>3. ASSUME NEW r \in runs, Calls(r) PROVE OneCall'
    <2>1. \A s \in runs : s.turn = r.turn => s.stage # "calling"
      BY <1>3 DEF Calls, Taken, Waiting, Held, Holding, Final
    <2> QED  BY <1>3, <2>1 DEF Calls, Turned
  <1>4. ASSUME NEW r \in runs, Continues(r) PROVE OneCall'
    <2>1. \A s \in runs : s.turn = r.turn => s.stage # "calling"
      BY <1>4 DEF Continues, Keys, RowsOK, Held, Holding, Final
    <2> QED  BY <1>4, <2>1 DEF Continues, Turned
  <1>5. ASSUME NEW r \in runs, Streams(r) \/ Sends(r) \/ Answers(r) PROVE OneCall'
    BY <1>5 DEF Streams, Sends, Answers, Turned
  <1>6. ASSUME NEW r \in runs, Decides(r) PROVE OneCall'
    BY <1>6 DEF Decides, Turned
  <1>7. ASSUME NEW r \in runs, Releases(r) PROVE OneCall'
    BY <1>7 DEF Releases, Turned
  <1> QED  BY <1>1, <1>2, <1>3, <1>4, <1>5, <1>6, <1>7 DEF Effect

LEMMA ClosedStep ==
    ASSUME TypeOK, TypeOK', Keys, RowsOK, Held, Closed, Effect
    PROVE  Closed'
  <1> USE Typed DEF Closed, Final
  <1>1. CASE Quiet
    BY <1>1 DEF Quiet, Unanswered
  <1>2. CASE Boots
    BY <1>2 DEF Boots
  <1>3. ASSUME NEW t \in Turns, Enters(t) PROVE Closed'
    BY <1>3 DEF Enters, Entered, Others
  <1>4. ASSUME NEW t \in Turns, Loads(t) PROVE Closed'
    BY <1>4 DEF Loads, Entered, Taken, Waiting, Others
  <1>5. ASSUME NEW r \in runs, Calls(r) PROVE Closed'
    <2>1. ~ Final(r.turn) /\ r.turn \notin sent
      BY <1>5 DEF Calls, Taken, Waiting
    <2>2. \A t \in Turns : t # r.turn => row'[t] = row[t]
      BY <1>5 DEF Calls, Taken, Others
    <2>3. \A s \in runs' : s \in runs \/ s.turn = r.turn
      BY <1>5 DEF Calls, Turned
    <2>4. sent' = sent /\ told' = told
      BY <1>5 DEF Calls
    <2> QED  BY <2>1, <2>2, <2>3, <2>4
  <1>6. ASSUME NEW r \in runs, Continues(r) PROVE Closed'
    <2>1. PICK s \in Run : s.turn = r.turn /\ s.token = r.token /\ runs' = (runs \ {r}) \cup {s}
      BY <1>6 DEF Continues, Turned
    <2>2. /\ row' = row /\ told' = told /\ sent' = sent
          /\ r.stage = "resume" /\ row[r.turn].token = r.token
      BY <1>6 DEF Continues
    <2>3. row[r.turn].state = "running" /\ r.turn \notin sent
      BY <2>2 DEF RowsOK
    <2> QED  BY <2>1, <2>2, <2>3
  <1>7. ASSUME NEW r \in runs, Decides(r) PROVE Closed'
    <2>1. \A s \in runs' : \/ s \in runs
                           \/ /\ s.turn = r.turn /\ s.token = r.token
                              /\ (r.text = "sent" => s.stage = "park")
      BY <1>7 DEF Decides, Turned
    <2>2. row' = row /\ sent' = sent /\ told' = told /\ r.stage = "calling"
      BY <1>7 DEF Decides
    <2> QED  BY <2>1, <2>2
  <1>8. ASSUME NEW r \in runs, Sends(r) PROVE Closed'
    <2>1. PICK s \in Run : /\ s.turn = r.turn /\ s.token = r.token /\ s.stage = "calling"
                          /\ s.text = "sent" /\ runs' = (runs \ {r}) \cup {s}
      BY <1>8 DEF Sends
    <2>2. row' = row /\ told' = told /\ sent' = sent \cup {r.turn} /\ r.stage = "calling"
      BY <1>8 DEF Sends
    <2>3. Final(r.turn) \/ (row[r.turn].state = "running" /\ row[r.turn].token = r.token)
      BY <2>2 DEF Held, Holding
    <2> QED  BY <2>1, <2>2, <2>3 DEF Keys
  <1>11. ASSUME NEW r \in runs, Streams(r) PROVE Closed'
    <2>1. PICK s \in Run : s.turn = r.turn /\ s.token = r.token /\ runs' = (runs \ {r}) \cup {s}
      BY <1>11 DEF Streams, Turned
    <2>2. row' = row /\ told' = told /\ sent' = sent /\ r.stage = "calling" /\ r.text = "none"
      BY <1>11 DEF Streams
    <2> QED  BY <2>1, <2>2
  <1>9. ASSUME NEW r \in runs, Answers(r) PROVE Closed'
    BY <1>9 DEF Answers, Others
  <1>10. ASSUME NEW r \in runs, Releases(r) PROVE Closed'
    <2>1. \A s \in runs' : s \in runs \/ (s.turn = r.turn /\ s.token = r.token)
      BY <1>10 DEF Releases, Turned
    <2>2. sent' = sent /\ Unanswered /\ Others(r.turn)
      BY <1>10 DEF Releases
    <2>3. CASE row' = row
      <3>1. CASE runs' = runs \ {r}
        BY <2>2, <2>3, <3>1 DEF Unanswered
      <3>2. CASE runs' # runs \ {r}
        <4>2. /\ r.stage \notin {"calling", "park"}
              /\ \E s \in Run : s.turn = r.turn /\ s.token = r.token /\ runs' = (runs \ {r}) \cup {s}
          BY <1>10, <3>2 DEF Releases, Turned
        <4>3. r.turn \notin sent \/ Final(r.turn)
              \/ row[r.turn].state # "running" \/ row[r.turn].token # r.token
          BY <4>2
        <4> QED  BY <2>1, <2>2, <2>3, <4>3 DEF Unanswered
      <3> QED  BY <3>1, <3>2
    <2>4. CASE row' # row
      <3>1. /\ row[r.turn].state = "running" /\ row[r.turn].token = r.token
            /\ row'[r.turn].state = "scheduled"
            /\ r.stage = "park" => row'[r.turn].next = row'[r.turn].expires
        BY <1>10, <2>4 DEF Releases
      <3>2. r.turn \in sent => r.stage = "park"
        BY <1>10, <3>1 DEF Releases
      <3>3. row'[r.turn].next \in Nat /\ row'[r.turn].expires \in Nat
        BY DEF TypeOK, Rows
      <3> QED  BY <2>1, <2>2, <3>1, <3>2, <3>3 DEF Others, Unanswered
    <2> QED  BY <2>3, <2>4
  <1> QED  BY <1>1, <1>2, <1>3, <1>4, <1>5, <1>6, <1>7, <1>8, <1>9, <1>10, <1>11 DEF Effect

LEMMA IInvInit == Init /\ RecoveryAssumption => IInv
  <1> SUFFICES ASSUME Init, RecoveryAssumption PROVE IInv
    OBVIOUS
  <1>1. TypeOK
    BY TypeInit
  <1>2. Keys /\ Reasons /\ Held /\ OneCall
    BY DEF Init, Keys, Reasons, Held, OneCall, NoRow
  <1>3. RowsOK /\ Closed
    BY DEF Init, RowsOK, Closed, NoRow
  <1> QED  BY <1>1, <1>2, <1>3 DEF IInv

LEMMA IInvStep ==
    ASSUME IInv, RecoveryAssumption, [Next]_vars
    PROVE  IInv' /\ Effect
  <1>1. TypeOK' /\ Effect
    BY TypeStep, StepEffect DEF IInv
  <1> QED
    BY <1>1, ReasonsStep, KeysStep, RowsStep, HeldStep, OneCallStep, ClosedStep DEF IInv

LEMMA Invariance == Spec => []IInv
  <1>1. Init => IInv
    BY IInvInit, RecoveryAssumption
  <1>2. IInv /\ [Next]_vars => IInv'
    BY IInvStep, RecoveryAssumption
  <1> QED  BY <1>1, <1>2, PTL DEF Spec

\* Every row, run and record of what the person was told keeps its type: in particular a resumed
\* run never counts from below zero.
THEOREM TypeCorrect == Spec => []TypeOK
  <1>1. IInv => TypeOK
    BY DEF IInv
  <1> QED  BY <1>1, Invariance, PTL

\* Two calls of one turn never overlap, for any number of bots over one database.
THEOREM CallsApart == Spec => []OneCall
  <1>1. IInv => OneCall
    BY DEF IInv
  <1> QED  BY <1>1, Invariance, PTL

\* No call of a turn begins once it was answered or a block of text was sent, whoever restarts or wakes.
THEOREM AnsweredForGood == Spec => AnsweredOnce
  <1>1. ASSUME IInv, [Next]_vars
        PROVE  [\A t \in Turns : t \in sent \/ "answered" \in told[t] => calls'[t] = calls[t]]_vars
    <2> SUFFICES ASSUME NEW t \in Turns, t \in sent \/ "answered" \in told[t]
                 PROVE  calls'[t] = calls[t]
      OBVIOUS
    <2>1. Effect
      BY <1>1, IInvStep, RecoveryAssumption
    <2>2. ~ Waiting(t)
      BY <1>1, Typed DEF IInv, Closed, Final, Waiting
    <2>3. \A r \in runs : r.turn = t /\ r.stage = "resume" => row[t].token # r.token
      BY <1>1, Typed DEF IInv, Closed, Final, RowsOK
    <2>4. calls \in [Turns -> Nat]
      BY <1>1 DEF IInv, TypeOK
    <2>5. \A r \in runs : Calls(r) \/ Continues(r) => r.turn # t /\ Counted(r.turn)
      BY <2>2, <2>3 DEF Calls, Continues, Taken
    <2> QED
      BY <2>1, <2>4, <2>5 DEF Effect, Quiet, Boots, Enters, Loads, Counted, Streams, Sends, Answers, Decides, Releases
  <1> QED  BY <1>1, Invariance, PTL DEF Spec, AnsweredOnce
===============================================================================
