----------------------------- MODULE RelayProofs -----------------------------
(***************************************************************************)
(* Proofs about Relay, for any messages, presses, copies and bounds.  The   *)
(* rows of the queue are the memory: a row leaves it only after its         *)
(* activity was done or given up (InQueue), which the puller knows of the   *)
(* row in hand (InHand), and what was given up had a reason (Reasons).      *)
(***************************************************************************)
EXTENDS Relay, FiniteSetTheorems, SequenceTheorems, TLAPS

\* What the queue holds and what Teams was told.
InQueue ==
    /\ \A r \in Rows : at[r] # "absent" => r[1] \notin Oversized
    /\ \A r \in Rows : at[r] = "deleted" => r[1] \in completed \cup dropped
    /\ \A a \in Activities : http[a] = "answered" =>
          a \in dropped \/ \E r \in Rows : r[1] = a /\ at[r] # "absent"
    /\ \A a \in Oversized :
          /\ a \notin completed /\ http[a] # "unanswered"
          /\ a \in dropped => http[a] = "answered"

\* No row of the batch is deleted yet, and none is there twice.
Batched ==
    /\ \A i \in 1..Len(batch) : at[batch[i]] \in {"leased", "visible"}
    /\ \A i, j \in 1..Len(batch) : batch[i] = batch[j] => i = j

\* The row in hand is acknowledged for a reason, and is the one whose session runs.
InHand ==
    /\ stage = "acking" => Act \in completed \cup dropped
    /\ \A m \in Messages : session[m] = "running" => stage = "handling" /\ Act = m

\* What is in _seen is done; and the id of a session that ended in this life stands in
\* it, before all that was remembered later, until SeenCapacity ids came after it.
Held(m) == later[m] < Len(seen) /\ seen[Len(seen) - later[m]] = m

Remembered ==
    /\ ToSet(seen) \subseteq completed
    /\ Len(seen) <= SeenCapacity
    /\ \A m \in Messages :
          session[m] = "over" /\ m \notin Nameless /\ later[m] < SeenCapacity => Held(m)

\* Nothing is dropped without a reason.
Reasons == dropped \subseteq Unusable \cup Poison

IInv == TypeOK /\ InQueue /\ Batched /\ InHand /\ Remembered /\ Reasons

-----------------------------------------------------------------------------
(* The batch. *)

LEMMA RowFacts == \A r \in Rows : r[1] \in Activities
BY DEF Rows

LEMMA InHandFacts ==
    ASSUME TypeOK, Batched, stage # "polling"
    PROVE  /\ batch # <<>> /\ Row \in Rows /\ Act \in Activities
           /\ at[Row] \in {"leased", "visible"}
           /\ Tail(batch) \in Seq(Rows)
           /\ \A i \in 1..Len(Tail(batch)) :
                 /\ at[Tail(batch)[i]] \in {"leased", "visible"} /\ Tail(batch)[i] # Row
                 /\ \A j \in 1..Len(Tail(batch)) : Tail(batch)[i] = Tail(batch)[j] => i = j
<1>1. batch \in Seq(Rows) /\ batch # <<>>
  BY DEF TypeOK
<1>2. /\ Tail(batch) \in Seq(Rows) /\ Len(Tail(batch)) = Len(batch) - 1
      /\ \A i \in 1..Len(Tail(batch)) : Tail(batch)[i] = batch[i + 1]
      /\ Row \in Rows
  BY <1>1, HeadTailProperties DEF Row
<1>3. Len(batch) \in Nat /\ Len(batch) > 0 /\ Row = batch[1]
  BY <1>1 DEF Row
<1>4. at[Row] \in {"leased", "visible"}
  BY <1>3 DEF Batched
<1>5. ASSUME NEW i \in 1..Len(Tail(batch))
      PROVE  /\ i + 1 \in 1..Len(batch) /\ i + 1 # 1 /\ Tail(batch)[i] = batch[i + 1]
             /\ at[Tail(batch)[i]] \in {"leased", "visible"} /\ Tail(batch)[i] # Row
  BY <1>2, <1>3, <1>5 DEF Batched
<1>6. \A i, j \in 1..Len(Tail(batch)) : Tail(batch)[i] = Tail(batch)[j] => i = j
  BY <1>2, <1>3, <1>5 DEF Batched
<1> QED  BY <1>1, <1>2, <1>4, <1>5, <1>6, RowFacts DEF Act

LEMMA PulledBatch ==
    ASSUME NEW rows \in Batches, NEW q \in SetToSeqs(rows)
    PROVE  /\ q \in Seq(Rows) /\ q # <<>> /\ q \in Seq(rows)
           /\ \A i \in 1..Len(q) : q[i] \in rows
           /\ \A i, j \in 1..Len(q) : q[i] = q[j] => i = j
<1> DEFINE n == Cardinality(rows)
<1>1. rows \subseteq Rows /\ rows # {} /\ n \in Nat /\ n # 0
  BY FS_CardinalityType, FS_EmptySet DEF Batches
<1> HIDE DEF n
<1>2. q \in [1..n -> rows] /\ \A i, j \in 1..n : i # j => q[i] # q[j]
  BY DEF SetToSeqs, n
<1>3. q \in Seq(rows) /\ Len(q) = n
  BY <1>1, <1>2
<1>4. q \in Seq(Rows)
  BY <1>1, <1>3, SeqMonotonic
<1> QED  BY <1>1, <1>2, <1>3, <1>4

-----------------------------------------------------------------------------
(* The invariant, one part at a time. *)

\* A run stands on the row in hand.
LEMMA RunFacts ==
    ASSUME TypeOK, InHand, NEW m \in Messages, session[m] = "running"
    PROVE  stage = "handling" /\ Act = m /\ m \in Activities
BY DEF InHand, Activities

\* What _remember does to the ids: the new one is last, the oldest may go.
RememberedNext(a) ==
    /\ seen' \in Seq(Activities) /\ ToSet(seen') \subseteq ToSet(seen) \cup {a}
    /\ Len(seen') = IF Len(seen) < SeenCapacity THEN Len(seen) + 1 ELSE Len(seen)
    /\ Len(seen') > 0 => seen'[Len(seen')] = a
    /\ \A d \in Nat : d < Len(seen) /\ d + 1 < Len(seen') => seen'[Len(seen') - (d + 1)] = seen[Len(seen) - d]

LEMMA RememberFacts ==
    ASSUME seen \in Seq(Activities), SeenCapacity \in Nat,
           NEW a \in Activities, Remember(a), a \notin Nameless
    PROVE  RememberedNext(a)
<1> DEFINE n == Len(seen)
           s == Append(seen, a)
<1>1. /\ n \in Nat /\ s \in Seq(Activities) /\ Len(s) = n + 1 /\ s[n + 1] = a
      /\ \A i \in 1..n : s[i] = seen[i]
  OBVIOUS
<1>2. /\ Tail(s) \in Seq(Activities) /\ Len(Tail(s)) = n
      /\ \A i \in 1..n : Tail(s)[i] = s[i + 1]
  BY <1>1
<1>3. seen' = IF n < SeenCapacity THEN s ELSE Tail(s)
  BY DEF Remember
<1>4. ToSet(s) \subseteq ToSet(seen) \cup {a} /\ ToSet(Tail(s)) \subseteq ToSet(seen) \cup {a}
  <2>1. DOMAIN s = 1..(n + 1) /\ DOMAIN Tail(s) = 1..n /\ DOMAIN seen = 1..n
    BY <1>1, <1>2
  <2> HIDE DEF s, n
  <2>2. \A i \in 1..(n + 1) : s[i] \in ToSet(seen) \cup {a}
    BY <1>1, <2>1 DEF ToSet
  <2>3. \A i \in 1..n : Tail(s)[i] \in ToSet(seen) \cup {a}
    BY <1>1, <1>2, <2>2
  <2> QED  BY <2>1, <2>2, <2>3 DEF ToSet
<1> HIDE DEF s
<1>5. CASE n < SeenCapacity
  BY <1>1, <1>3, <1>4, <1>5 DEF RememberedNext
<1>6. CASE ~ (n < SeenCapacity)
  <2>1. ASSUME NEW d \in Nat, d < n, d + 1 < n
        PROVE  Tail(s)[n - (d + 1)] = seen[n - d]
    <3>1. n - (d + 1) \in 1..n /\ n - d \in 1..n /\ (n - (d + 1)) + 1 = n - d
      BY <1>1, <2>1
    <3> QED  BY <1>1, <1>2, <3>1
  <2>2. n > 0 => Tail(s)[n] = a
    BY <1>1, <1>2
  <2> QED  BY <1>1, <1>2, <1>3, <1>4, <1>6, <2>1, <2>2 DEF RememberedNext
<1> QED  BY <1>5, <1>6

\* The ids keep their types.
LEMMA RememberTypes ==
    ASSUME TypeOK, NEW a \in Activities, Remember(a)
    PROVE  seen' \in Seq(Activities) /\ later' \in [Messages -> 0..SeenCapacity]
<1>1. seen \in Seq(Activities) /\ SeenCapacity \in Nat /\ later \in [Messages -> 0..SeenCapacity]
  BY RelayAssumption DEF TypeOK
<1>2. CASE a \in Nameless
  BY <1>1, <1>2 DEF Remember, memory
<1>3. CASE a \notin Nameless
  <2>1. seen' \in Seq(Activities)
    BY <1>1, <1>3, RememberFacts DEF RememberedNext
  <2>2. later' = [m \in Messages |-> IF m = a THEN 0
                                   ELSE IF later[m] < SeenCapacity THEN later[m] + 1
                                   ELSE SeenCapacity]
    BY <1>3 DEF Remember, Counted
  <2> QED  BY <1>1, <2>1, <2>2
<1> QED  BY <1>2, <1>3

LEMMA TypesKept == ASSUME TypeOK, Batched, InHand, [Next]_vars PROVE TypeOK'
<1>1. ASSUME NEW a \in Activities, Receive(a) PROVE TypeOK'
  BY <1>1 DEF Receive, host, memory, live, past, Stored, TypeOK
<1>2. ASSUME NEW a \in Activities, AnswerLost(a) PROVE TypeOK'
  BY <1>2 DEF AnswerLost, host, memory, live, past, Stored, TypeOK
<1>3. ASSUME NEW a \in Activities, TooLarge(a) PROVE TypeOK'
  BY <1>3 DEF TooLarge, host, memory, live, past, TypeOK
<1>4. ASSUME NEW r \in Rows, LeaseExpires(r) PROVE TypeOK'
  BY <1>4 DEF LeaseExpires, host, memory, live, past, TypeOK
<1>5. ASSUME NEW rows \in Batches, PullRows(rows) PROVE TypeOK'
  BY <1>5, PulledBatch, RelayAssumption DEF PullRows, host, memory, live, past, TypeOK, More, Natures
<1>6. ASSUME DropUnreadable PROVE TypeOK'
  BY <1>6, InHandFacts DEF DropUnreadable, host, memory, live, past, TypeOK
<1>7. ASSUME SkipSeen PROVE TypeOK'
  BY <1>7, InHandFacts DEF SkipSeen, host, memory, live, past, Readable, TypeOK
<1>8. ASSUME DropPoison PROVE TypeOK'
  BY <1>8, InHandFacts DEF DropPoison, host, memory, live, past, Readable, TypeOK
<1>9. ASSUME Ack PROVE TypeOK'
  BY <1>9, InHandFacts DEF Ack, host, memory, live, past, NextItem, TypeOK
<1>10. ASSUME Restart PROVE TypeOK'
  <2>1. /\ batch' \in Seq(Rows) /\ stage' = "polling" /\ seen' \in Seq(Activities)
        /\ later' \in [Messages -> 0..SeenCapacity]
    BY <1>10, EmptySeq, RelayAssumption DEF Restart
  <2>2. /\ session' \in [Messages -> {"none", "running", "over"}]
        /\ prompt' \in [Messages -> {"none", "open", "answered", "refused"}]
        /\ restarts' \in 0..MaxRestarts
    BY <1>10, RelayAssumption DEF Restart, TypeOK
  <2>3. UNCHANGED <<nature, http, at, count, completed, dropped, tried>>
    BY <1>10 DEF Restart, past
  <2> QED  BY <2>1, <2>2, <2>3 DEF TypeOK
<1>11. ASSUME NEW m \in Messages, BeginRun(m) PROVE TypeOK'
  BY <1>11, InHandFacts DEF BeginRun, host, memory, live, past, Readable, Called, TypeOK
<1>12. ASSUME NEW m \in Messages, Ask(m) PROVE TypeOK'
  BY <1>12 DEF Ask, host, memory, live, past, TypeOK
<1>13. ASSUME NEW m \in Messages, TimesOut(m) PROVE TypeOK'
  BY <1>13 DEF TimesOut, host, memory, live, past, TypeOK
<1>14. ASSUME NEW m \in Messages, RunEnds(m) PROVE TypeOK'
  <2>1. seen' \in Seq(Activities) /\ later' \in [Messages -> 0..SeenCapacity] /\ m \in Activities
    BY <1>14, RememberTypes DEF RunEnds, Activities
  <2>2. batch # <<>>
    BY <1>14, InHandFacts, RunFacts DEF RunEnds
  <2> QED  BY <1>14, <2>1, <2>2 DEF RunEnds, live, past, TypeOK
<1>15. ASSUME NEW m \in Messages, RunFails(m) PROVE TypeOK'
  BY <1>15, InHandFacts, RunFacts DEF RunFails, host, memory, live, past, NextItem, TypeOK
<1>16. ASSUME NEW p \in Presses, HandlePress(p) PROVE TypeOK'
  <2>1. seen' \in Seq(Activities) /\ later' \in [Messages -> 0..SeenCapacity] /\ p \in Activities
    BY <1>16, RememberTypes DEF HandlePress, Activities
  <2>2. batch # <<>>
    BY <1>16, InHandFacts DEF HandlePress, Called, Readable
  <2>3. /\ UNCHANGED <<nature, http, at, count, batch, session, dropped, restarts>>
        /\ stage' = "acking" /\ completed' = completed \cup {p} /\ tried' = tried \cup {p}
    BY <1>16 DEF HandlePress, Called, Readable
  <2>4. prompt' \in [Messages -> {"none", "open", "answered", "refused"}]
    BY <1>16 DEF HandlePress, TypeOK
  <2> QED  BY <2>1, <2>2, <2>3, <2>4 DEF TypeOK
<1>17. CASE UNCHANGED vars
  BY <1>17 DEF vars, host, memory, live, past, TypeOK
<1> QED
  BY <1>1, <1>2, <1>3, <1>4, <1>5, <1>6, <1>7, <1>8, <1>9,
     <1>10, <1>11, <1>12, <1>13, <1>14, <1>15, <1>16, <1>17 DEF Next, Pull

\* What is in hand was never too large.
LEMMA HandFits ==
    ASSUME TypeOK, Batched, InQueue, stage # "polling"
    PROVE  Act \notin Oversized
BY InHandFacts DEF InQueue, Act

LEMMA QueueKept == ASSUME TypeOK, Batched, InHand, InQueue, Remembered, [Next]_vars PROVE InQueue'
<1>1. ASSUME NEW a \in Activities, Receive(a) PROVE InQueue'
  BY <1>1 DEF Receive, host, memory, live, past, Stored, InQueue, TypeOK, Posted, Oversized, Rows
<1>2. ASSUME NEW a \in Activities, AnswerLost(a) PROVE InQueue'
  BY <1>2 DEF AnswerLost, host, memory, live, past, Stored, InQueue, TypeOK, Posted, Oversized, Rows
<1>3. ASSUME NEW a \in Activities, TooLarge(a) PROVE InQueue'
  BY <1>3 DEF TooLarge, host, memory, live, past, InQueue, TypeOK, Posted, Oversized, Rows
<1>4. ASSUME NEW r \in Rows, LeaseExpires(r) PROVE InQueue'
  BY <1>4 DEF LeaseExpires, host, memory, live, past, InQueue, TypeOK, Oversized
<1>5. ASSUME NEW rows \in Batches, PullRows(rows) PROVE InQueue'
  BY <1>5 DEF PullRows, host, memory, live, past, InQueue, TypeOK, Oversized, Batches
<1>6. ASSUME DropUnreadable PROVE InQueue'
  <2>1. /\ UNCHANGED <<nature, http, at, completed>> /\ dropped' = dropped \cup {Act}
        /\ stage # "polling"
    BY <1>6 DEF DropUnreadable
  <2>2. Act \notin Oversized
    BY <2>1, HandFits
  <2> QED  BY <2>1, <2>2 DEF InQueue, Oversized
<1>7. ASSUME SkipSeen PROVE InQueue'
  BY <1>7, InHandFacts DEF SkipSeen, host, memory, live, past, Readable, InQueue, Oversized
<1>8. ASSUME DropPoison PROVE InQueue'
  <2>1. /\ UNCHANGED <<nature, http, at, completed>> /\ dropped' = dropped \cup {Act}
        /\ stage # "polling"
    BY <1>8 DEF DropPoison, Readable
  <2>2. Act \notin Oversized
    BY <2>1, HandFits
  <2> QED  BY <2>1, <2>2 DEF InQueue, Oversized
<1>9. ASSUME Ack PROVE InQueue'
  <2>1. UNCHANGED <<nature, http, completed, dropped>> /\ stage = "acking"
    BY <1>9 DEF Ack, past
  <2>2. Row \in Rows /\ at[Row] # "absent" /\ Row[1] \in completed \cup dropped
    BY <2>1, InHandFacts DEF InHand, Act
  <2>3. CASE at' = at
    BY <2>1, <2>3 DEF InQueue, Oversized
  <2>4. CASE at' = [at EXCEPT ![Row] = "deleted"]
    <3>1. \A r \in Rows : at'[r] = at[r] \/ (r = Row /\ at'[r] = "deleted")
      BY <2>4 DEF TypeOK
    <3> HIDE DEF Row
    <3> QED  BY <2>1, <2>2, <3>1 DEF InQueue, Oversized
  <2> QED  BY <1>9, <2>3, <2>4 DEF Ack
<1>10. ASSUME Restart PROVE InQueue'
  BY <1>10 DEF Restart, host, memory, live, past, InQueue, Oversized
<1>11. ASSUME NEW m \in Messages, BeginRun(m) PROVE InQueue'
  BY <1>11, InHandFacts DEF BeginRun, host, memory, live, past, Readable, Called, InQueue, Oversized
<1>12. ASSUME NEW m \in Messages, Ask(m) PROVE InQueue'
  BY <1>12 DEF Ask, host, memory, live, past, InQueue, Oversized
<1>13. ASSUME NEW m \in Messages, TimesOut(m) PROVE InQueue'
  BY <1>13 DEF TimesOut, host, memory, live, past, InQueue, Oversized
<1>14. ASSUME NEW m \in Messages, RunEnds(m) PROVE InQueue'
  <2>1. /\ UNCHANGED <<nature, http, at, dropped>> /\ completed' = completed \cup {m}
        /\ stage # "polling" /\ Act = m
    BY <1>14, RunFacts DEF RunEnds
  <2>2. Act \notin Oversized
    BY <2>1, HandFits
  <2> QED  BY <2>1, <2>2 DEF InQueue, Oversized
<1>15. ASSUME NEW m \in Messages, RunFails(m) PROVE InQueue'
  BY <1>15, InHandFacts, RunFacts DEF RunFails, host, memory, live, past, NextItem, InQueue, Oversized
<1>16. ASSUME NEW p \in Presses, HandlePress(p) PROVE InQueue'
  <2>1. /\ UNCHANGED <<nature, http, at, dropped>> /\ completed' = completed \cup {p}
        /\ stage # "polling" /\ Act = p
    BY <1>16 DEF HandlePress, Called, Readable
  <2>2. Act \notin Oversized
    BY <2>1, HandFits
  <2> QED  BY <2>1, <2>2 DEF InQueue, Oversized
<1>17. CASE UNCHANGED vars
  BY <1>17 DEF vars, host, memory, live, past, InQueue, Oversized
<1> QED
  BY <1>1, <1>2, <1>3, <1>4, <1>5, <1>6, <1>7, <1>8, <1>9,
     <1>10, <1>11, <1>12, <1>13, <1>14, <1>15, <1>16, <1>17 DEF Next, Pull

LEMMA BatchKept == ASSUME TypeOK, Batched, InHand, [Next]_vars PROVE Batched'
<1>1. ASSUME NEW a \in Activities, Receive(a) PROVE Batched'
  <2>1. PICK r \in Rows : at[r] = "absent" /\ at' = [at EXCEPT ![r] = "visible"]
    BY <1>1 DEF Receive, Stored
  <2>2. batch' = batch
    BY <1>1 DEF Receive, host
  <2> QED  BY <2>1, <2>2 DEF Batched, TypeOK
<1>2. ASSUME NEW a \in Activities, AnswerLost(a) PROVE Batched'
  BY <1>2 DEF AnswerLost, host, memory, live, past, Stored, Batched, TypeOK
<1>3. ASSUME NEW a \in Activities, TooLarge(a) PROVE Batched'
  BY <1>3 DEF TooLarge, host, memory, live, past, Batched
<1>4. ASSUME NEW r \in Rows, LeaseExpires(r) PROVE Batched'
  BY <1>4 DEF LeaseExpires, host, memory, live, past, Batched, TypeOK
<1>5. ASSUME NEW rows \in Batches, PullRows(rows) PROVE Batched'
  BY <1>5, PulledBatch, ZenonT(60) DEF PullRows, host, memory, live, past, Batched, TypeOK, Batches
<1>6. ASSUME DropUnreadable PROVE Batched'
  BY <1>6, InHandFacts DEF DropUnreadable, host, memory, live, past, Batched
<1>7. ASSUME SkipSeen PROVE Batched'
  BY <1>7, InHandFacts DEF SkipSeen, host, memory, live, past, Readable, Batched
<1>8. ASSUME DropPoison PROVE Batched'
  BY <1>8, InHandFacts DEF DropPoison, host, memory, live, past, Readable, Batched
<1>9. ASSUME Ack PROVE Batched'
  BY <1>9, InHandFacts, SMTT(30) DEF Ack, host, memory, live, past, NextItem, Batched, TypeOK
<1>10. ASSUME Restart PROVE Batched'
  BY <1>10 DEF Restart, host, memory, live, past, Batched
<1>11. ASSUME NEW m \in Messages, BeginRun(m) PROVE Batched'
  BY <1>11, InHandFacts DEF BeginRun, host, memory, live, past, Readable, Called, Batched
<1>12. ASSUME NEW m \in Messages, Ask(m) PROVE Batched'
  BY <1>12 DEF Ask, host, memory, live, past, Batched
<1>13. ASSUME NEW m \in Messages, TimesOut(m) PROVE Batched'
  BY <1>13 DEF TimesOut, host, memory, live, past, Batched
<1>14. ASSUME NEW m \in Messages, RunEnds(m) PROVE Batched'
  BY <1>14, InHandFacts DEF RunEnds, host, memory, live, past, Batched
<1>15. ASSUME NEW m \in Messages, RunFails(m) PROVE Batched'
  BY <1>15, InHandFacts, RunFacts DEF RunFails, host, memory, live, past, NextItem, Batched, TypeOK
<1>16. ASSUME NEW p \in Presses, HandlePress(p) PROVE Batched'
  BY <1>16, InHandFacts DEF HandlePress, host, memory, live, past, Readable, Called, Batched
<1>17. CASE UNCHANGED vars
  BY <1>17 DEF vars, host, memory, live, past, Batched
<1> QED
  BY <1>1, <1>2, <1>3, <1>4, <1>5, <1>6, <1>7, <1>8, <1>9,
     <1>10, <1>11, <1>12, <1>13, <1>14, <1>15, <1>16, <1>17 DEF Next, Pull

LEMMA HandKept == ASSUME TypeOK, Batched, InHand, Remembered, [Next]_vars PROVE InHand'
<1>1. ASSUME NEW a \in Activities, Receive(a) PROVE InHand'
  BY <1>1 DEF Receive, host, memory, live, past, Stored, InHand, Act, Row
<1>2. ASSUME NEW a \in Activities, AnswerLost(a) PROVE InHand'
  BY <1>2 DEF AnswerLost, host, memory, live, past, Stored, InHand, Act, Row
<1>3. ASSUME NEW a \in Activities, TooLarge(a) PROVE InHand'
  BY <1>3 DEF TooLarge, host, memory, live, past, InHand, Act, Row
<1>4. ASSUME NEW r \in Rows, LeaseExpires(r) PROVE InHand'
  BY <1>4 DEF LeaseExpires, host, memory, live, past, InHand, Act, Row
<1>5. ASSUME NEW rows \in Batches, PullRows(rows) PROVE InHand'
  BY <1>5 DEF PullRows, host, memory, live, past, InHand, Act, Row, TypeOK
<1>6. ASSUME DropUnreadable PROVE InHand'
  BY <1>6, InHandFacts DEF DropUnreadable, host, memory, live, past, InHand, Act, Row, TypeOK, Remembered
<1>7. ASSUME SkipSeen PROVE InHand'
  BY <1>7, InHandFacts DEF SkipSeen, Known, host, memory, live, past, Readable, InHand, Act, Row,
     TypeOK, Remembered
<1>8. ASSUME DropPoison PROVE InHand'
  BY <1>8, InHandFacts DEF DropPoison, host, memory, live, past, Readable, InHand, Act, Row, TypeOK, Remembered
<1>9. ASSUME Ack PROVE InHand'
  BY <1>9, InHandFacts DEF Ack, host, memory, live, past, NextItem, InHand, Act, Row, TypeOK
<1>10. ASSUME Restart PROVE InHand'
  BY <1>10 DEF Restart, host, memory, live, past, InHand, Act, Row
<1>11. ASSUME NEW m \in Messages, BeginRun(m) PROVE InHand'
  BY <1>11, InHandFacts DEF BeginRun, host, memory, live, past, Readable, Called, InHand, Act, Row,
     TypeOK, TypeOK, Remembered
<1>12. ASSUME NEW m \in Messages, Ask(m) PROVE InHand'
  BY <1>12 DEF Ask, host, memory, live, past, InHand, Act, Row
<1>13. ASSUME NEW m \in Messages, TimesOut(m) PROVE InHand'
  BY <1>13 DEF TimesOut, host, memory, live, past, InHand, Act, Row
<1>14. ASSUME NEW m \in Messages, RunEnds(m) PROVE InHand'
  BY <1>14, InHandFacts, RunFacts DEF RunEnds, host, memory, live, past, InHand, Act, Row, TypeOK, Remembered
<1>15. ASSUME NEW m \in Messages, RunFails(m) PROVE InHand'
  BY <1>15, InHandFacts, RunFacts DEF RunFails, host, memory, live, past, NextItem, InHand, Act, Row, TypeOK
<1>16. ASSUME NEW p \in Presses, HandlePress(p) PROVE InHand'
  BY <1>16, InHandFacts DEF HandlePress, host, memory, live, past, Readable, Called, InHand, Act,
     Row, TypeOK, Remembered
<1>17. CASE UNCHANGED vars
  BY <1>17 DEF vars, host, memory, live, past, InHand, Act, Row
<1> QED
  BY <1>1, <1>2, <1>3, <1>4, <1>5, <1>6, <1>7, <1>8, <1>9,
     <1>10, <1>11, <1>12, <1>13, <1>14, <1>15, <1>16, <1>17 DEF Next, Pull

\* Nothing is remembered and no session ends.
LEMMA MemoryStays ==
    ASSUME Remembered, UNCHANGED <<nature, seen, later>>, completed \subseteq completed',
           \A m \in Messages : session'[m] = "over" => session[m] = "over"
    PROVE  Remembered'
BY DEF Remembered, Held, Nameless

\* An activity is done and its id remembered: every other id moves one place down.
LEMMA MemoryMoves ==
    ASSUME TypeOK, Remembered, NEW a \in Activities, Remember(a), UNCHANGED nature,
           completed' = completed \cup {a},
           \A m \in Messages \ {a} : session'[m] = session[m]
    PROVE  Remembered'
<1>1. /\ seen \in Seq(Activities) /\ Len(seen) \in Nat /\ SeenCapacity \in Nat
      /\ Len(seen) <= SeenCapacity /\ later \in [Messages -> 0..SeenCapacity]
  BY RelayAssumption DEF TypeOK, Remembered
<1>2. CASE a \in Nameless
  <2>1. UNCHANGED memory /\ Nameless' = Nameless
    BY <1>2 DEF Remember, Nameless
  <2> QED  BY <1>2, <2>1 DEF Remembered, Held, memory
<1>3. CASE a \notin Nameless
  <2>1. RememberedNext(a)
    BY <1>1, <1>3, RememberFacts
  <2>2. ToSet(seen') \subseteq completed' /\ Len(seen') <= SeenCapacity /\ Nameless' = Nameless
    <3>1. ToSet(seen') \subseteq completed'
      BY <2>1 DEF RememberedNext, Remembered
    <3>2. Len(seen') <= SeenCapacity
      BY <1>1, <2>1 DEF RememberedNext
    <3> QED  BY <3>1, <3>2 DEF Nameless
  <2>3. ASSUME NEW m \in Messages, session'[m] = "over", m \notin Nameless, later'[m] < SeenCapacity
        PROVE  Held(m)'
    <3>1. CASE m = a
      <4>1. later'[m] = 0
        BY <1>3, <3>1 DEF Remember, Counted
      <4> QED  BY <1>1, <2>1, <2>3, <3>1, <4>1 DEF RememberedNext, Held
    <3>2. CASE m # a
      <4>1. later[m] < SeenCapacity /\ later'[m] = later[m] + 1
        BY <1>1, <1>3, <2>3, <3>2 DEF Remember, Counted
      <4>2. Held(m) /\ later[m] \in Nat
        BY <1>1, <2>3, <3>2, <4>1 DEF Remembered
      <4> QED  BY <1>1, <2>1, <2>3, <4>1, <4>2 DEF RememberedNext, Held
    <3> QED  BY <3>1, <3>2
  <2> QED  BY <2>2, <2>3 DEF Remembered
<1> QED  BY <1>2, <1>3

LEMMA RememberedKept == ASSUME TypeOK, Batched, InHand, Remembered, [Next]_vars PROVE Remembered'
<1>1. ASSUME NEW m \in Messages, RunEnds(m) PROVE Remembered'
  <2>1. /\ m \in Activities /\ Remember(m) /\ UNCHANGED nature /\ completed' = completed \cup {m}
        /\ \A o \in Messages \ {m} : session'[o] = session[o]
    BY <1>1 DEF RunEnds, Activities, TypeOK
  <2> QED  BY <2>1, MemoryMoves
<1>2. ASSUME NEW p \in Presses, HandlePress(p) PROVE Remembered'
  <2>1. /\ p \in Activities /\ Remember(p) /\ UNCHANGED nature /\ completed' = completed \cup {p}
        /\ session' = session
    BY <1>2 DEF HandlePress, Activities
  <2> QED  BY <2>1, MemoryMoves
<1>3. ASSUME Restart PROVE Remembered'
  <2>1. seen' = <<>> /\ Len(seen') = 0 /\ ToSet(seen') = {}
    BY <1>3, EmptySeq DEF Restart, ToSet
  <2>2. \A m \in Messages : session'[m] = "none"
    BY <1>3 DEF Restart
  <2> QED  BY <2>1, <2>2, RelayAssumption DEF Remembered
<1>4. ASSUME NEW m \in Messages, BeginRun(m) \/ RunFails(m) PROVE Remembered'
  <2>1. UNCHANGED <<nature, seen, later, completed>>
    BY <1>4 DEF BeginRun, RunFails, memory, past
  <2>2. \A o \in Messages : session'[o] = "over" => session[o] = "over"
    BY <1>4 DEF BeginRun, RunFails, TypeOK
  <2> QED  BY <2>1, <2>2, MemoryStays
<1>5. CASE /\ UNCHANGED <<nature, seen, later, session>> /\ completed' = completed
  BY <1>5, MemoryStays
<1> QED
  BY <1>1, <1>2, <1>3, <1>4, <1>5 DEF Next, vars, Pull, host, memory, live, past, Receive, AnswerLost,
     TooLarge, LeaseExpires, PullRows, DropUnreadable, SkipSeen, DropPoison, Ack, Ask, TimesOut

\* No count falls, so no reason goes.
LEMMA PoisonStays ==
    ASSUME TypeOK, [Next]_vars
    PROVE  Poison \subseteq Poison' /\ Unusable' = Unusable
<1>1. \A r \in Rows : count[r] > MaxDeliveries => count'[r] > MaxDeliveries
  <2>1. CASE count' = count
    BY <2>1
  <2>2. ASSUME NEW rows \in Batches, PullRows(rows)
        PROVE  \A r \in Rows : count[r] > MaxDeliveries => count'[r] > MaxDeliveries
    BY <2>2 DEF PullRows, More
  <2> QED
    BY <2>1, <2>2 DEF Next, vars, Pull, Receive, AnswerLost, TooLarge, LeaseExpires, DropUnreadable,
       SkipSeen, DropPoison, Ack, Restart, BeginRun, Ask, TimesOut, RunEnds, RunFails, HandlePress
<1>2. nature' = nature
  BY DEF Next, vars, Pull, Receive, AnswerLost, TooLarge, LeaseExpires, PullRows, DropUnreadable,
     SkipSeen, DropPoison, Ack, Restart, BeginRun, Ask, TimesOut, RunEnds, RunFails, HandlePress
<1> QED  BY <1>1, <1>2 DEF Poison, Unusable, Oversized, Malformed

LEMMA ReasonsKept == ASSUME TypeOK, Batched, InHand, Reasons, [Next]_vars PROVE Reasons'
<1>1. ASSUME NEW a \in Activities, Receive(a) PROVE Reasons'
  BY <1>1, PoisonStays DEF Receive, host, memory, live, past, Stored, Reasons
<1>2. ASSUME NEW a \in Activities, AnswerLost(a) PROVE Reasons'
  BY <1>2, PoisonStays DEF AnswerLost, host, memory, live, past, Stored, Reasons
<1>3. ASSUME NEW a \in Activities, TooLarge(a) PROVE Reasons'
  BY <1>3, PoisonStays DEF TooLarge, host, memory, live, past, Reasons, Unusable
<1>4. ASSUME NEW r \in Rows, LeaseExpires(r) PROVE Reasons'
  BY <1>4, PoisonStays DEF LeaseExpires, host, memory, live, past, Reasons
<1>5. ASSUME NEW rows \in Batches, PullRows(rows) PROVE Reasons'
  BY <1>5, PoisonStays DEF PullRows, host, memory, live, past, Reasons
<1>6. ASSUME DropUnreadable PROVE Reasons'
  BY <1>6, PoisonStays DEF DropUnreadable, host, memory, live, past, Reasons, Unusable
<1>7. ASSUME SkipSeen PROVE Reasons'
  BY <1>7, PoisonStays DEF SkipSeen, host, memory, live, past, Readable, Reasons
<1>8. ASSUME DropPoison PROVE Reasons'
  BY <1>8, PoisonStays, InHandFacts DEF DropPoison, host, memory, live, past, Readable, Reasons,
     Poison, Delivery, Act
<1>9. ASSUME Ack PROVE Reasons'
  BY <1>9, PoisonStays DEF Ack, host, memory, live, past, NextItem, Reasons
<1>10. ASSUME Restart PROVE Reasons'
  BY <1>10, PoisonStays DEF Restart, host, memory, live, past, Reasons
<1>11. ASSUME NEW m \in Messages, BeginRun(m) PROVE Reasons'
  BY <1>11, PoisonStays DEF BeginRun, host, memory, live, past, Readable, Called, Reasons
<1>12. ASSUME NEW m \in Messages, Ask(m) PROVE Reasons'
  BY <1>12, PoisonStays DEF Ask, host, memory, live, past, Reasons
<1>13. ASSUME NEW m \in Messages, TimesOut(m) PROVE Reasons'
  BY <1>13, PoisonStays DEF TimesOut, host, memory, live, past, Reasons
<1>14. ASSUME NEW m \in Messages, RunEnds(m) PROVE Reasons'
  BY <1>14, PoisonStays DEF RunEnds, host, memory, live, past, Reasons
<1>15. ASSUME NEW m \in Messages, RunFails(m) PROVE Reasons'
  BY <1>15, PoisonStays DEF RunFails, host, memory, live, past, NextItem, Reasons
<1>16. ASSUME NEW p \in Presses, HandlePress(p) PROVE Reasons'
  BY <1>16, PoisonStays DEF HandlePress, host, memory, live, past, Readable, Called, Reasons
<1>17. CASE UNCHANGED vars
  BY <1>17, PoisonStays DEF vars, host, memory, live, past, Reasons
<1> QED
  BY <1>1, <1>2, <1>3, <1>4, <1>5, <1>6, <1>7, <1>8, <1>9,
     <1>10, <1>11, <1>12, <1>13, <1>14, <1>15, <1>16, <1>17 DEF Next, Pull

LEMMA Begins == Init => IInv
<1> SUFFICES ASSUME Init PROVE IInv
  OBVIOUS
<1>1. batch = <<>> /\ batch \in Seq(Rows) /\ Len(batch) = 0 /\ stage = "polling"
  BY EmptySeq DEF Init
<1>2. TypeOK
  BY <1>1, EmptySeq, RelayAssumption DEF Init, TypeOK, Natures
<1>3. InQueue /\ Reasons
  BY DEF Init, InQueue, Reasons, Oversized
<1>5. Remembered
  <2>1. seen = <<>> /\ Len(seen) = 0 /\ ToSet(seen) = {}
    BY EmptySeq DEF Init, ToSet
  <2> QED  BY <2>1, RelayAssumption DEF Init, Remembered
<1>4. Batched /\ InHand
  BY <1>1 DEF Init, Batched, InHand
<1> QED  BY <1>2, <1>3, <1>4, <1>5 DEF IInv

LEMMA Invariance == Spec => []IInv
<1>1. IInv /\ [Next]_vars => IInv'
  BY TypesKept, QueueKept, BatchKept, HandKept, RememberedKept, ReasonsKept DEF IInv
<1> QED  BY <1>1, Begins, PTL DEF Spec

\* Types (the queue, the puller, the sessions).
THEOREM TypeCorrect == Spec => []TypeOK
<1>1. IInv => TypeOK  BY DEF IInv
<1> QED  BY <1>1, Invariance, PTL

\* A session that ended is not begun again in the same life of the host, until as many
\* ids were remembered after its own as the puller keeps (handle_one, _seen, _remember).
THEOREM NeverTwice == Spec => NotTwice
<1>1. IInv /\ [Next]_vars =>
        [\A m \in Messages :
            session[m] = "over" /\ m \notin Nameless /\ later[m] < SeenCapacity
               => session'[m] # "running"]_vars
  <2> SUFFICES ASSUME IInv, Next, NEW m \in Messages,
                      session[m] = "over", m \notin Nameless, later[m] < SeenCapacity
               PROVE  session'[m] # "running"
    OBVIOUS
  <2>1. Known(m) /\ session \in [Messages -> {"none", "running", "over"}]
    <3>1. Held(m) /\ later[m] \in Nat /\ seen \in Seq(Activities)
      BY RelayAssumption DEF IInv, Remembered, TypeOK
    <3>2. Len(seen) - later[m] \in DOMAIN seen
      BY <3>1 DEF Held
    <3>3. m \in ToSet(seen)
      BY <3>1, <3>2 DEF Held, ToSet
    <3> QED  BY <3>3 DEF Known, IInv, TypeOK
  <2>2. ASSUME NEW o \in Messages, BeginRun(o)
        PROVE  o # m /\ session' = [session EXCEPT ![o] = "running"]
    BY <2>1, <2>2 DEF BeginRun, Called
  <2>3. \/ session' = session
        \/ \E o \in Messages \ {m} : session' = [session EXCEPT ![o] = "running"]
        \/ \E o \in Messages, x \in {"none", "over"} : session' = [session EXCEPT ![o] = x]
        \/ session' = [o \in Messages |-> "none"]
    BY <2>2 DEF Next, Pull, live, host, Receive, AnswerLost, TooLarge, LeaseExpires, PullRows,
       DropUnreadable, SkipSeen, DropPoison, Ack, Restart, Ask, TimesOut, RunEnds, RunFails,
       HandlePress
  <2> QED  BY <2>1, <2>3
<1> QED  BY <1>1, Invariance, PTL DEF Spec, NotTwice

-----------------------------------------------------------------------------
(* The relay implements RelayPromise. *)

Answered == {a \in Activities : http[a] = "answered"}

\* What the fate of an activity is read from.
Same(b) == /\ b \in completed' <=> b \in completed
           /\ Alive(b)' <=> Alive(b)
           /\ b \notin completed /\ ~ Alive(b) => (b \in dropped' <=> b \in dropped)

LEMMA FateOf ==
    ASSUME NEW a \in Activities
    PROVE  /\ a \in completed => Fate[a] = "worked"
           /\ a \notin completed /\ Alive(a) => Fate[a] = "owed"
           /\ a \notin completed /\ ~ Alive(a) /\ a \in dropped => Fate[a] = "dropped"
           /\ a \notin completed /\ ~ Alive(a) /\ a \notin dropped => Fate[a] = "new"
BY DEF Fate

LEMMA FateNext ==
    ASSUME NEW a \in Activities
    PROVE  /\ a \in completed' => Fate'[a] = "worked"
           /\ a \notin completed' /\ Alive(a)' => Fate'[a] = "owed"
           /\ a \notin completed' /\ ~ Alive(a)' /\ a \in dropped' => Fate'[a] = "dropped"
           /\ a \notin completed' /\ ~ Alive(a)' /\ a \notin dropped' => Fate'[a] = "new"
BY DEF Fate

LEMMA FateUnchanged == ASSUME \A b \in Activities : Same(b) PROVE Fate' = Fate
<1>1. \A b \in Activities : Fate'[b] = Fate[b]
  BY FateOf, FateNext DEF Same
<1> QED  BY <1>1 DEF Fate

LEMMA FateOne ==
    ASSUME NEW a \in Activities, \A b \in Activities \ {a} : Same(b)
    PROVE  Fate' = [Fate EXCEPT ![a] = Fate'[a]]
<1>1. \A b \in Activities \ {a} : Fate'[b] = Fate[b]
  BY FateOf, FateNext DEF Same
<1>2. DOMAIN Fate = Activities /\ Fate = [b \in DOMAIN Fate |-> Fate[b]]
  BY DEF Fate
<1>3. DOMAIN Fate' = Activities /\ Fate' = [b \in DOMAIN Fate' |-> Fate'[b]]
  BY DEF Fate
<1> HIDE DEF Fate
<1> DEFINE f == Fate
           g == Fate'
<1>4. /\ \A b \in Activities \ {a} : g[b] = f[b]
      /\ f = [b \in Activities |-> f[b]] /\ g = [b \in Activities |-> g[b]]
  BY <1>1, <1>2, <1>3
<1> HIDE DEF f, g
<1>5. g = [f EXCEPT ![a] = g[a]]
  BY <1>4
<1> QED  BY <1>5 DEF f, g

\* Where no answer is sent and no reason comes up, the promise sees a fate move or nothing.
LEMMA Stutters ==
    ASSUME \A b \in Activities : Same(b), UNCHANGED <<nature, http, count>>
    PROVE  [Promise!PromiseNext]_<<Unusable, Fate, Answered, Poison>>
<1>1. UNCHANGED <<Unusable, Answered, Poison>>
  BY DEF Unusable, Oversized, Malformed, Answered, Poison
<1> QED  BY <1>1, FateUnchanged

\* The handler returned: what is in hand is done.
LEMMA Works ==
    ASSUME IInv, UNCHANGED <<nature, http, at, count, dropped>>, stage # "polling",
           completed' = completed \cup {Act}
    PROVE  [Promise!PromiseNext]_<<Unusable, Fate, Answered, Poison>>
<1> DEFINE a == Act
<1>1. a \in Activities /\ Alive(a)
  BY InHandFacts DEF IInv, Alive, Act
<1>2. UNCHANGED <<Unusable, Answered, Poison>> /\ \A b : Alive(b)' <=> Alive(b)
  BY DEF Unusable, Oversized, Malformed, Answered, Poison, Alive
<1> HIDE DEF a
<1>3. completed' = completed \cup {a}
  BY DEF a
<1>4. CASE a \in completed
  <2>1. \A b \in Activities : Same(b)
    BY <1>2, <1>3, <1>4 DEF Same
  <2> QED  BY <2>1, Stutters
<1>5. CASE a \notin completed
  <2>1. Fate[a] = "owed" /\ Fate'[a] = "worked"
    BY <1>1, <1>3, <1>5, FateOf, FateNext
  <2>2. Fate' = [Fate EXCEPT ![a] = "worked"]
    BY <1>1, <1>2, <1>3, <2>1, FateOne DEF Same
  <2>3. Promise!Work(a)
    BY <2>1, <2>2 DEF Promise!Work, Promise!Moves
  <2> QED  BY <1>1, <1>2, <2>3 DEF Promise!PromiseNext, Answered
<1> QED  BY <1>4, <1>5

\* A row of an activity is stored: the activity is owed, if it is not done.
LEMMA Stores ==
    ASSUME IInv, NEW a \in Activities, NEW r \in Rows, r[1] = a, at[r] = "absent",
           at' = [at EXCEPT ![r] = "visible"], UNCHANGED <<completed, dropped>>
    PROVE  (Promise!Store(a) \/ UNCHANGED Fate) /\ Fate'[a] # "new"
<1>1. at' \in [Rows -> {"absent", "visible", "leased", "deleted"}] /\ at'[r] = "visible"
  BY DEF IInv, TypeOK
<1>2. \A b \in Activities \ {a} : Alive(b)' <=> Alive(b)
  BY DEF Alive, IInv, TypeOK
<1>3. Alive(a)'
  BY <1>1 DEF Alive
<1>4. \A b \in Activities \ {a} : Same(b)
  BY <1>2 DEF Same
<1>5. Fate'[a] = (IF a \in completed THEN "worked" ELSE "owed")
  BY <1>3, FateNext
<1>6. CASE a \in completed \/ Alive(a)
  <2>2. Fate'[a] = Fate[a]
    BY <1>5, <1>6, FateOf
  <2>3. Fate' = [Fate EXCEPT ![a] = Fate[a]]
    BY <1>4, <2>2, FateOne
  <2>4. Fate = [Fate EXCEPT ![a] = Fate[a]]
    BY DEF Fate
  <2> QED  BY <1>5, <2>3, <2>4
<1>7. CASE a \notin completed /\ ~ Alive(a)
  <2>1. Fate[a] \in {"new", "dropped"} /\ Fate'[a] = "owed"
    BY <1>5, <1>7, FateOf
  <2>2. Fate' = [Fate EXCEPT ![a] = "owed"]
    BY <1>4, <2>1, FateOne
  <2> QED  BY <2>1, <2>2 DEF Promise!Store, Promise!Moves
<1> QED  BY <1>6, <1>7

LEMMA StepKeepsPromise ==
    ASSUME IInv, [Next]_vars
    PROVE  [Promise!PromiseNext]_<<Unusable, Fate, Answered, Poison>>
<1>1. ASSUME NEW a \in Activities, Receive(a)
      PROVE  [Promise!PromiseNext]_<<Unusable, Fate, Answered, Poison>>
  <2>1. PICK r \in Rows : r[1] = a /\ at[r] = "absent" /\ at' = [at EXCEPT ![r] = "visible"]
    BY <1>1 DEF Receive, Stored
  <2>2. UNCHANGED <<completed, dropped, nature, count>> /\ http[a] # "answered"
    BY <1>1 DEF Receive, Posted, past
  <2>3. (Promise!Store(a) \/ UNCHANGED Fate) /\ Fate'[a] # "new"
    BY <2>1, <2>2, Stores
  <2>4. UNCHANGED <<Unusable, Poison>>
    BY <2>2 DEF Unusable, Oversized, Malformed, Poison
  <2>5. Answered' = Answered \cup {a}
    BY <1>1 DEF Receive, Answered, IInv, TypeOK
  <2>6. Promise!Answer(a)
    BY <2>3, <2>5 DEF Promise!Answer, Answered
  <2> QED  BY <2>3, <2>4, <2>6 DEF Promise!PromiseNext, Answered
<1>2. ASSUME NEW a \in Activities, AnswerLost(a)
      PROVE  [Promise!PromiseNext]_<<Unusable, Fate, Answered, Poison>>
  <2>1. PICK r \in Rows : r[1] = a /\ at[r] = "absent" /\ at' = [at EXCEPT ![r] = "visible"]
    BY <1>2 DEF AnswerLost, Stored
  <2>2. UNCHANGED <<completed, dropped, nature, count>> /\ http[a] # "answered"
    BY <1>2 DEF AnswerLost, Posted, past
  <2>3. (Promise!Store(a) \/ UNCHANGED Fate) /\ Fate'[a] # "new"
    BY <2>1, <2>2, Stores
  <2>4. UNCHANGED <<Unusable, Poison>>
    BY <2>2 DEF Unusable, Oversized, Malformed, Poison
  <2>5. Answered' = Answered
    BY <1>2, <2>2 DEF AnswerLost, Answered, IInv, TypeOK
  <2> QED  BY <2>3, <2>4, <2>5 DEF Promise!PromiseNext, Answered
<1>3. ASSUME NEW a \in Activities, TooLarge(a)
      PROVE  [Promise!PromiseNext]_<<Unusable, Fate, Answered, Poison>>
  <2>1. /\ UNCHANGED <<nature, at, count, completed>> /\ dropped' = dropped \cup {a}
        /\ http' = [http EXCEPT ![a] = "answered"] /\ http[a] # "answered" /\ a \in Oversized
    BY <1>3 DEF TooLarge, Posted
  <2>2. a \notin completed /\ a \notin dropped /\ ~ Alive(a) /\ \A c : Alive(c)' <=> Alive(c)
    BY <2>1 DEF IInv, InQueue, Alive
  <2>3. Fate[a] = "new" /\ Fate'[a] = "dropped"
    BY <2>1, <2>2, FateOf, FateNext
  <2>4. Fate' = [Fate EXCEPT ![a] = "dropped"]
    BY <2>1, <2>2, <2>3, FateOne DEF Same
  <2>5. Answered' = Answered \cup {a} /\ UNCHANGED <<Unusable, Poison>> /\ a \in Unusable
    BY <2>1 DEF Answered, Unusable, Oversized, Malformed, Poison, IInv, TypeOK
  <2>6. Promise!GiveUp(a) /\ Promise!Answer(a)
    BY <2>3, <2>4, <2>5 DEF Promise!GiveUp, Promise!Moves, Promise!Answer, Answered
  <2> QED  BY <2>5, <2>6 DEF Promise!PromiseNext, Answered
<1>4. ASSUME NEW r \in Rows, LeaseExpires(r)
      PROVE  [Promise!PromiseNext]_<<Unusable, Fate, Answered, Poison>>
  <2>1. UNCHANGED <<nature, http, count, completed, dropped>> /\ at[r] = "leased"
        /\ at' = [at EXCEPT ![r] = "visible"]
    BY <1>4 DEF LeaseExpires, past
  <2>2. \A b \in Activities : Alive(b)' <=> Alive(b)
    BY <2>1 DEF Alive, IInv, TypeOK
  <2> QED  BY <2>1, <2>2, Stutters DEF Same
<1>5. ASSUME NEW rows \in Batches, PullRows(rows)
      PROVE  [Promise!PromiseNext]_<<Unusable, Fate, Answered, Poison>>
  <2>1. /\ UNCHANGED <<nature, http, completed, dropped>> /\ rows # {} /\ rows \subseteq Rows
        /\ at' = [q \in Rows |-> IF q \in rows THEN "leased" ELSE at[q]]
        /\ \A q \in rows : at[q] = "visible"
    BY <1>5 DEF PullRows, past, Batches
  <2>2. \A c \in Activities : Alive(c)' <=> Alive(c)
    BY <2>1 DEF Alive
  <2>3. Fate' = Fate
    BY <2>1, <2>2, FateUnchanged DEF Same
  <2>4. UNCHANGED <<Unusable, Answered>>
    BY <2>1 DEF Unusable, Oversized, Malformed, Answered
  <2>5. PICK q \in rows : TRUE
    BY <2>1
  <2>6. q[1] \in Activities /\ Alive(q[1])
    BY <2>1, <2>5, RowFacts DEF Alive
  <2>7. Fate[q[1]] # "new"
    BY <2>6, FateOf
  <2>8. Poison' = Poison \cup Poison' /\ Poison' \in SUBSET Activities
    BY PoisonStays DEF IInv, Poison
  <2> QED  BY <2>3, <2>4, <2>6, <2>7, <2>8 DEF Promise!PromiseNext, Answered
<1>6. ASSUME DropUnreadable
      PROVE  [Promise!PromiseNext]_<<Unusable, Fate, Answered, Poison>>
  <2>1. /\ UNCHANGED <<nature, http, at, count, completed>> /\ dropped' = dropped \cup {Act}
        /\ stage # "polling"
    BY <1>6 DEF DropUnreadable
  <2>2. Alive(Act)
    BY <2>1, InHandFacts DEF IInv, Alive, Act
  <2>3. \A b \in Activities : Alive(b)' <=> Alive(b)
    BY <2>1 DEF Alive
  <2> QED  BY <2>1, <2>2, <2>3, Stutters DEF Same
<1>7. ASSUME SkipSeen
      PROVE  [Promise!PromiseNext]_<<Unusable, Fate, Answered, Poison>>
  <2>1. UNCHANGED <<nature, http, count>> /\ \A c \in Activities : Same(c)
    BY <1>7 DEF SkipSeen, past, Same, Alive, Readable
  <2> QED  BY <2>1, Stutters
<1>8. ASSUME DropPoison
      PROVE  [Promise!PromiseNext]_<<Unusable, Fate, Answered, Poison>>
  <2>1. /\ UNCHANGED <<nature, http, at, count, completed>> /\ dropped' = dropped \cup {Act}
        /\ stage # "polling"
    BY <1>8 DEF DropPoison, Readable
  <2>2. Alive(Act)
    BY <2>1, InHandFacts DEF IInv, Alive, Act
  <2>3. \A b \in Activities : Alive(b)' <=> Alive(b)
    BY <2>1 DEF Alive
  <2> QED  BY <2>1, <2>2, <2>3, Stutters DEF Same
<1>9. ASSUME Ack
      PROVE  [Promise!PromiseNext]_<<Unusable, Fate, Answered, Poison>>
  <2>1. UNCHANGED <<nature, http, count, completed, dropped>> /\ stage = "acking"
    BY <1>9 DEF Ack, past
  <2>2. PICK a \in Activities :
          Row \in Rows /\ Alive(a) /\ a = Row[1] /\ a \in completed \cup dropped
    BY <2>1, InHandFacts DEF IInv, InHand, Act, Alive
  <2>3. UNCHANGED <<Unusable, Answered, Poison>>
    BY <2>1 DEF Unusable, Oversized, Malformed, Answered, Poison
  <2>4. \A c \in Activities \ {a} : Alive(c)' <=> Alive(c)
    BY <1>9, <2>2 DEF Ack, Alive, IInv, TypeOK
  <2>5. CASE a \in completed \/ Alive(a)'
    <3>1. \A c \in Activities : Same(c) \/ c = a
      BY <2>1, <2>4 DEF Same
    <3>2. Fate'[a] = Fate[a]
      BY <2>1, <2>2, <2>5, FateOf, FateNext
    <3>3. Fate' = [Fate EXCEPT ![a] = Fate[a]]
      BY <2>2, <3>1, <3>2, FateOne
    <3>4. Fate = [Fate EXCEPT ![a] = Fate[a]]
      BY DEF Fate
    <3> QED  BY <2>3, <3>3, <3>4
  <2>6. CASE a \notin completed /\ ~ Alive(a)'
    <3>1. Fate[a] = "owed" /\ Fate'[a] = "dropped"
      BY <2>1, <2>2, <2>6, FateOf, FateNext
    <3>2. \A c \in Activities \ {a} : Same(c)
      BY <2>1, <2>4 DEF Same
    <3>3. Fate' = [Fate EXCEPT ![a] = "dropped"]
      BY <2>2, <3>1, <3>2, FateOne
    <3>4. a \in Unusable \/ a \in Poison
      BY <2>2, <2>6 DEF IInv, Reasons
    <3>5. Promise!GiveUp(a)
      BY <3>1, <3>3, <3>4 DEF Promise!GiveUp, Promise!Moves
    <3> QED  BY <2>2, <2>3, <3>5 DEF Promise!PromiseNext, Answered
  <2> QED  BY <2>5, <2>6
<1>10. ASSUME Restart
      PROVE  [Promise!PromiseNext]_<<Unusable, Fate, Answered, Poison>>
  <2>1. UNCHANGED <<nature, http, count>> /\ \A c \in Activities : Same(c)
    BY <1>10 DEF Restart, past, Same, Alive
  <2> QED  BY <2>1, Stutters
<1>11. ASSUME NEW m \in Messages, BeginRun(m)
      PROVE  [Promise!PromiseNext]_<<Unusable, Fate, Answered, Poison>>
  <2>1. UNCHANGED <<nature, http, count>> /\ \A c \in Activities : Same(c)
    BY <1>11 DEF BeginRun, past, Same, Alive, Readable, Called
  <2> QED  BY <2>1, Stutters
<1>12. ASSUME NEW m \in Messages, Ask(m)
      PROVE  [Promise!PromiseNext]_<<Unusable, Fate, Answered, Poison>>
  <2>1. UNCHANGED <<nature, http, count>> /\ \A c \in Activities : Same(c)
    BY <1>12 DEF Ask, past, Same, Alive
  <2> QED  BY <2>1, Stutters
<1>13. ASSUME NEW m \in Messages, TimesOut(m)
      PROVE  [Promise!PromiseNext]_<<Unusable, Fate, Answered, Poison>>
  <2>1. UNCHANGED <<nature, http, count>> /\ \A c \in Activities : Same(c)
    BY <1>13 DEF TimesOut, past, Same, Alive
  <2> QED  BY <2>1, Stutters
<1>14. ASSUME NEW m \in Messages, RunEnds(m)
      PROVE  [Promise!PromiseNext]_<<Unusable, Fate, Answered, Poison>>
  <2>1. /\ UNCHANGED <<nature, http, at, count, dropped>> /\ completed' = completed \cup {m}
        /\ stage # "polling" /\ Act = m
    BY <1>14, RunFacts DEF RunEnds, IInv
  <2> QED  BY <2>1, Works
<1>15. ASSUME NEW m \in Messages, RunFails(m)
      PROVE  [Promise!PromiseNext]_<<Unusable, Fate, Answered, Poison>>
  <2>1. UNCHANGED <<nature, http, count>> /\ \A c \in Activities : Same(c)
    BY <1>15 DEF RunFails, past, Same, Alive
  <2> QED  BY <2>1, Stutters
<1>16. ASSUME NEW p \in Presses, HandlePress(p)
      PROVE  [Promise!PromiseNext]_<<Unusable, Fate, Answered, Poison>>
  <2>1. /\ UNCHANGED <<nature, http, at, count, dropped>> /\ completed' = completed \cup {p}
        /\ stage # "polling" /\ Act = p
    BY <1>16 DEF HandlePress, Called, Readable, IInv
  <2> QED  BY <2>1, Works
<1>17. CASE UNCHANGED vars
  <2>1. UNCHANGED <<nature, http, count>> /\ \A c \in Activities : Same(c)
    BY <1>17 DEF vars, past, Same, Alive
  <2> QED  BY <2>1, Stutters
<1> QED
  BY <1>1, <1>2, <1>3, <1>4, <1>5, <1>6, <1>7, <1>8, <1>9,
     <1>10, <1>11, <1>12, <1>13, <1>14, <1>15, <1>16, <1>17 DEF Next, Pull

\* The relay implements its promise: what was answered is stored, done, or given up for a
\* reason (receiver.py, puller.py).
THEOREM PromiseKept == Spec => KeepsPromise
<1>1. Init => Promise!PromiseInit
  <2> SUFFICES ASSUME Init PROVE Promise!PromiseInit
    OBVIOUS
  <2>1. \A a \in Activities : a \notin completed /\ ~ Alive(a) /\ a \notin dropped
    BY DEF Init, Alive
  <2>2. Fate = [a \in Activities |-> "new"]
    BY <2>1 DEF Fate
  <2>3. Answered = {} /\ Poison = {}
    BY RelayAssumption DEF Init, Answered, Poison
  <2> QED  BY <2>2, <2>3 DEF Promise!PromiseInit, Answered
<1>2. IInv /\ [Next]_vars => [Promise!PromiseNext]_<<Unusable, Fate, Answered, Poison>>
  BY StepKeepsPromise
<1> QED  BY <1>1, <1>2, Invariance, PTL DEF Spec, KeepsPromise, Promise!PromiseSpec, Answered
=============================================================================
