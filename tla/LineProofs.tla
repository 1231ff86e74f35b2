------------------------------ MODULE LineProofs ------------------------------
(***************************************************************************)
(* Proofs about BuildLine, for any plans, projects and bounds.  What makes  *)
(* a start safe is what the code leaves in _starting and on disk before the *)
(* next await: a start past its check is the only one of its plan, and of   *)
(* its project if it is a checkbox plan (Checks), its build is on record    *)
(* and nowhere else yet (Booking), the line has one start at a time, under  *)
(* its lock (Serial), and whatever of its builds waits was marked (Marked). *)
(***************************************************************************)
EXTENDS BuildLine, SequenceTheorems, TLAPS

\* A dead process holds nothing but its files.
Down == up = "down" =>
    due = 0 /\ locked = FALSE /\ starts = {} /\ working = {} /\ waiting = {} /\ todo = {}

\* Every build is on record from before it is launched until it is about to go.
Booking ==
    /\ \A b \in records \cup Running : b.no <= begun[b.plan]
    /\ todo \subseteq records /\ todo \cap Running = {}
    /\ \A r, s \in starts : r.plan = s.plan /\ Begun(r) /\ Begun(s) => r = s
    /\ \A s \in starts : s.stage = "saved" =>
          BuildOf(s) \in records /\ BuildOf(s) \notin Running \cup todo
    /\ \A s \in starts : s.stage = "sent" =>
          s.plan \in over \cup lost \/ \E b \in records \cup Running : b.plan = s.plan

\* A build of the line that waits was marked, and the line was told of it.
Marked == \A b \in waiting : b.queued => b \in waited

\* A build that counts for the line: neither brought back nor one that had waited.
Counts(b) == b \in working \cup keeping /\ b.queued /\ b \notin resumed \cup waited

\* While the lock is held, the build that counts is the one its holder has launched.
Serial ==
    /\ \A s \in starts : QueueStart(s) => locked
    /\ \A r, s \in starts : QueueStart(r) /\ QueueStart(s) => r = s
    /\ \A b : Counts(b) /\ locked =>
          \E s \in starts : QueueStart(s) /\ s.stage = "sent" /\ b = BuildOf(s)

\* Two starts or builds of checkbox plans in one project.
Rivals(x, y) == {x.plan, y.plan} \subseteq Checkbox /\ SameProject(x.plan, y.plan)

\* A checkbox plan past its check has its project to itself.
Checks ==
    /\ \A r, s \in starts : Rivals(r, s) /\ Begun(r) /\ Begun(s) => r = s
    /\ \A s \in starts, b \in Running :
          Rivals(s, b) /\ s.stage \in {"making", "saved"} => b \in resumed

IInv == /\ TypeOK /\ Down /\ Booking /\ OnRecord /\ Marked /\ Serial /\ OneAtATime
        /\ Checks /\ CheckboxAlone /\ Kept

-----------------------------------------------------------------------------
(* What the helpers yield. *)

LEMMA WithoutOne ==
    ASSUME TypeOK, NEW p
    PROVE  /\ Without(p) \in Seq(Queued)
           /\ \A q \in Range(line) \ {p} : q \in Range(Without(p))
<1>1. CASE p \notin Range(line)
  BY <1>1 DEF Without, TypeOK
<1>2. CASE p \in Range(line)
  <2> DEFINE i == Place(p)
             rest == RemoveAt(line, i)
  <2>1. Without(p) = rest
    BY <1>2 DEF Without
  <2>2. line \in Seq(Queued) /\ Len(line) \in Nat /\ DOMAIN line = 1..Len(line)
    BY DEF TypeOK
  <2>3. i \in 1..Len(line) /\ line[i] = p
    BY <1>2, <2>2 DEF Range, Place
  <2> HIDE DEF i
  <2> DEFINE before == SubSeq(line, 1, i - 1)
             after == SubSeq(line, i + 1, Len(line))
  <2>4. /\ before \in Seq(Queued) /\ Len(before) = i - 1
        /\ \A j \in 1..(i - 1) : before[j] = line[j]
    <3>1. CASE i - 1 = 0
      BY <2>2, <2>3, <3>1, SubSeqProperties
    <3>2. CASE i - 1 > 0
      BY <2>2, <2>3, <3>2, SubSeqProperties
    <3> QED  BY <2>2, <2>3, <3>1, <3>2
  <2>5. /\ after \in Seq(Queued) /\ Len(after) = Len(line) - i
        /\ \A j \in 1..(Len(line) - i) : after[j] = line[i + j]
    <3>1. i \in Nat /\ i + 1 \in Int /\ Len(line) \in Int /\ i <= Len(line)
      BY <2>2, <2>3
    <3>2. \A j \in (i + 1)..Len(line) : line[j] \in Queued
      BY <2>2, <2>3
    <3>3. /\ after \in Seq(Queued)
          /\ Len(after) = IF i + 1 <= Len(line) THEN Len(line) - (i + 1) + 1 ELSE 0
          /\ \A j \in 1..(Len(line) - (i + 1) + 1) : after[j] = line[(i + 1) + j - 1]
      BY <3>1, <3>2, SubSeqProperties
    <3> QED  BY <3>1, <3>3
  <2>a. rest = before \o after
    BY DEF RemoveAt
  <2> HIDE DEF before, after
  <2>b. rest \in Seq(Queued) /\ Len(rest) = Len(line) - 1
    <3>1. rest \in Seq(Queued) /\ Len(rest) = Len(before) + Len(after)
      BY <2>4, <2>5, <2>a, ConcatProperties
    <3> QED  BY <2>2, <2>3, <2>4, <2>5, <3>1
  <2>c. \A j \in 1..Len(rest) : rest[j] = IF j < i THEN line[j] ELSE line[j + 1]
    BY <2>2, <2>3, <2>4, <2>5, <2>a, <2>b, ConcatProperties
  <2> HIDE DEF rest
  <2>6. ASSUME NEW j \in 1..Len(line), j < i PROVE j \in 1..Len(rest) /\ rest[j] = line[j]
    BY <2>2, <2>3, <2>6, <2>b, <2>c
  <2>7. ASSUME NEW j \in 1..Len(line), j > i PROVE j - 1 \in 1..Len(rest) /\ rest[j - 1] = line[j]
    BY <2>2, <2>3, <2>7, <2>b, <2>c
  <2>8. ASSUME NEW q \in Range(line) \ {p} PROVE q \in Range(rest)
    <3>1. PICK j \in 1..Len(line) : line[j] = q
      BY <2>2, <2>8 DEF Range
    <3>2. j < i \/ j > i
      BY <2>2, <2>3, <2>8, <3>1
    <3>3. DOMAIN rest = 1..Len(rest)
      BY <2>b
    <3> QED  BY <2>6, <2>7, <3>1, <3>2, <3>3 DEF Range
  <2> QED  BY <2>1, <2>8, <2>b
<1> QED  BY <1>1, <1>2

LEMMA MovedStart ==
    ASSUME TypeOK, NEW s \in starts,
           NEW stage \in {"arriving", "making", "saved", "sent", "refused"}
    PROVE  /\ Moved(s, stage) \subseteq Starts
           /\ \E r \in Starts : /\ r.plan = s.plan /\ r.by = s.by /\ r.stage = stage
                                /\ Moved(s, stage) = (starts \ {s}) \cup {r}
                                /\ BuildOf(r) = BuildOf(s) /\ QueueStart(r) = QueueStart(s)
<1>1. s \in Starts
  BY DEF TypeOK
<1>2. LET r == [s EXCEPT !.stage = stage]
      IN  r \in Starts /\ r.plan = s.plan /\ r.by = s.by /\ r.stage = stage
  BY <1>1 DEF Starts
<1> QED  BY <1>1, <1>2 DEF Moved, TypeOK, BuildOf, QueueStart

\* What a refusal leaves of the start.
LEMMA FailedStart ==
    ASSUME TypeOK, NEW s \in starts, Fails(s)
    PROVE  \/ /\ QueueStart(s) /\ line' = Without(s.plan) /\ over' = over
              /\ \E r \in Starts : /\ r.plan = s.plan /\ r.stage = "refused"
                                   /\ QueueStart(r) = QueueStart(s)
                                   /\ starts' = (starts \ {s}) \cup {r}
           \/ /\ ~ QueueStart(s) /\ line' = line /\ over' = over \cup {s.plan}
              /\ starts' = starts \ {s}
<1>1. CASE QueueStart(s)
  <2>1. line' = Without(s.plan) /\ starts' = Moved(s, "refused") /\ over' = over
    BY <1>1 DEF Fails
  <2> QED  BY <1>1, <2>1, MovedStart
<1>2. CASE ~ QueueStart(s)
  BY <1>2 DEF Fails
<1> QED  BY <1>1, <1>2

LEMMA BuildOfStart ==
    ASSUME TypeOK, NEW s \in starts
    PROVE  /\ s.plan \in Plans /\ begun[s.plan] \in Nat
           /\ begun[s.plan] # 0 => BuildOf(s) \in Builds
           /\ BuildOf(s).plan = s.plan /\ BuildOf(s).no = begun[s.plan]
           /\ BuildOf(s).queued = QueueStart(s)
BY DEF TypeOK, Starts, Builds, BuildOf, QueueStart

LEMMA BumpedType == ASSUME TypeOK PROVE Bumped \in 0..MaxDue
BY LineAssumption DEF TypeOK, Bumped

-----------------------------------------------------------------------------
(* The invariant, one part at a time. *)

LineTypes == /\ line \in Seq(Queued) /\ scan \in Seq(Queued) /\ due \in 0..MaxDue
             /\ asked \subseteq Queued
LockTypes == locked \in BOOLEAN
StartTypes == /\ starts \subseteq Starts /\ over \subseteq Plans /\ lost \subseteq Plans
              /\ begun \in [Plans -> Nat]
BuildTypes ==
    /\ records \subseteq Builds /\ todo \subseteq Builds /\ resumed \subseteq Builds
    /\ working \subseteq Builds /\ waiting \subseteq Builds /\ working \cap waiting = {}
    /\ keeping \subseteq waiting
    /\ closing \subseteq working \cup waiting /\ waited \subseteq working \cup waiting
CountTypes == up \in {"up", "resuming", "down"} /\ {replies, faults, restarts} \subseteq Nat

LEMMA TypeParts == TypeOK <=> LineTypes /\ LockTypes /\ StartTypes /\ BuildTypes /\ CountTypes
BY DEF TypeOK, LineTypes, LockTypes, StartTypes, BuildTypes, CountTypes

LEMMA ScanParts ==
    ASSUME TypeOK, scan # <<>>
    PROVE  Head(scan) \in Queued /\ Head(scan) \in Plans /\ Tail(scan) \in Seq(Queued)
BY HeadTailProperties, LineAssumption DEF TypeOK

LEMMA NewBuild ==
    ASSUME TypeOK, NEW s \in starts
    PROVE  LET b == [BuildOf(s) EXCEPT !.no = @ + 1]
           IN  /\ b \in Builds /\ b.plan = s.plan /\ b.queued = QueueStart(s)
               /\ b.no = begun[s.plan] + 1
<1>1. QueueStart(s) \in BOOLEAN
  BY DEF QueueStart
<1>2. s.plan \in Plans /\ begun[s.plan] \in Nat
  BY BuildOfStart
<1>3. [BuildOf(s) EXCEPT !.no = @ + 1]
        = [plan |-> s.plan, queued |-> QueueStart(s), no |-> begun[s.plan] + 1]
  BY DEF BuildOf
<1>4. begun[s.plan] + 1 \in Nat \ {0}
  BY <1>2
<1> DEFINE q == QueueStart(s)
           n == begun[s.plan] + 1
<1> HIDE DEF q, n
<1>5. [plan |-> s.plan, queued |-> q, no |-> n] \in Builds
  BY <1>1, <1>2, <1>4 DEF Builds, q, n
<1> QED  BY <1>3, <1>5 DEF q, n

LEMMA NoScan == <<>> \in Seq(Queued)
BY EmptySeq

\* The plans of the builds and of the starts.
LEMMA PlansOf ==
    ASSUME TypeOK
    PROVE  /\ \A b \in Running \cup records : b.plan \in Plans
           /\ \A s \in starts : s.plan \in Plans
           /\ Range(line) \subseteq Plans
BY LineAssumption DEF TypeOK, Builds, Starts, Running, Range

LEMMA LineKeepsTypes == ASSUME TypeOK, [Next]_vars PROVE LineTypes'
<1>1. ASSUME NEW p \in Plans, Enqueue(p) PROVE LineTypes'
  BY <1>1, TypeParts, BumpedType DEF Enqueue, line_vars, run_vars, boot_vars, told_vars, LineTypes
<1>2. ASSUME Advance PROVE LineTypes'
  BY <1>2, TypeParts, LineAssumption DEF Advance, line_vars, run_vars, boot_vars, told_vars,
     LineTypes
<1>3. ASSUME Look PROVE LineTypes'
  BY <1>3, TypeParts, ScanParts DEF Look, line_vars, run_vars, boot_vars, told_vars, LineTypes
<1>4. ASSUME NEW p \in Plans, NEW by \in {"asking", "command"}, Arrive(p, by) PROVE LineTypes'
  BY <1>4, TypeParts DEF Arrive, line_vars, run_vars, boot_vars, told_vars, LineTypes
<1>5. ASSUME NEW s \in starts, Switch(s) PROVE LineTypes'
  BY <1>5, TypeParts DEF Switch, line_vars, run_vars, boot_vars, told_vars, LineTypes
<1>6. ASSUME NEW s \in starts, Begin(s) PROVE LineTypes'
  BY <1>6, TypeParts, WithoutOne DEF Begin, Fails, line_vars, run_vars, boot_vars, told_vars,
     LineTypes
<1>7. ASSUME NEW s \in starts, Refuse(s) PROVE LineTypes'
  BY <1>7, TypeParts, WithoutOne DEF Refuse, Fails, Failure, line_vars, run_vars, boot_vars,
     told_vars, LineTypes
<1>8. ASSUME NEW s \in starts, Hiccup(s) PROVE LineTypes'
  <2>1. UNCHANGED <<line, due, asked>> /\ (scan' = <<>> \/ scan' = scan)
    BY <1>8 DEF Hiccup, told_vars
  <2> QED  BY <2>1, NoScan, TypeParts DEF LineTypes
<1>9. ASSUME NEW s \in starts, Save(s) PROVE LineTypes'
  BY <1>9, TypeParts DEF Save, line_vars, run_vars, boot_vars, told_vars, LineTypes
<1>10. ASSUME NEW s \in starts, Launch(s) PROVE LineTypes'
  BY <1>10, TypeParts DEF Launch, line_vars, run_vars, boot_vars, told_vars, LineTypes
<1>11. ASSUME NEW s \in starts, Return(s) PROVE LineTypes'
  <2>1. /\ UNCHANGED <<due, asked>> /\ (scan' = <<>> \/ scan' = scan)
        /\ line' = Without(s.plan) \/ line' = line
    BY <1>11 DEF Return, told_vars
  <2> QED  BY <2>1, NoScan, WithoutOne, TypeParts DEF LineTypes
<1>12. ASSUME NEW s \in starts, Tell(s) PROVE LineTypes'
  BY <1>12, TypeParts DEF Tell, line_vars, run_vars, boot_vars, told_vars, LineTypes
<1>13. ASSUME Drop PROVE LineTypes'
  BY <1>13, TypeParts, WithoutOne, ScanParts DEF Drop, Failure, line_vars, run_vars, boot_vars,
     told_vars, LineTypes
<1>14. ASSUME NEW b \in Running, Waits(b) \/ Finishes(b) \/ KeepFails(b) PROVE LineTypes'
  BY <1>14, TypeParts, BumpedType DEF Waits, Finishes, KeepFails, QueueWaiting, Calls, Failure,
     line_vars, run_vars, boot_vars, told_vars, LineTypes
<1>15. ASSUME NEW b \in Running, Answer(b) \/ Keeps(b) \/ Close(b) PROVE LineTypes'
  BY <1>15, TypeParts DEF Answer, Keeps, Close, line_vars, run_vars, boot_vars, told_vars,
     LineTypes
<1>16. ASSUME NEW b \in Running, Wakes(b) PROVE LineTypes'
  BY <1>16, TypeParts DEF Wakes, line_vars, run_vars, boot_vars, told_vars, LineTypes
<1>17. ASSUME NEW b \in Running, Ends(b) \/ Gone(b) PROVE LineTypes'
  BY <1>17, TypeParts, BumpedType DEF Ends, Gone, Popped, Calls, line_vars, run_vars, boot_vars,
     told_vars, LineTypes
<1>18. ASSUME NEW b \in Running, Forgets(b) PROVE LineTypes'
  BY <1>18, TypeParts DEF Forgets, Failure, line_vars, run_vars, boot_vars, told_vars, LineTypes
<1>19. ASSUME Crash PROVE LineTypes'
  <2>1. UNCHANGED asked /\ (line' = <<>> \/ line' = line) /\ scan' = <<>> /\ due' = 0
    BY <1>19 DEF Crash
  <2>2. line' \in Seq(Queued)
    BY <2>1, NoScan, TypeParts DEF LineTypes
  <2> QED  BY <2>1, <2>2, NoScan, LineAssumption, TypeParts DEF LineTypes
<1>20. ASSUME Restart PROVE LineTypes'
  BY <1>20, TypeParts DEF Restart, line_vars, run_vars, boot_vars, told_vars, LineTypes
<1>21. ASSUME NEW b \in todo, Resume(b) PROVE LineTypes'
  BY <1>21, TypeParts DEF Resume, line_vars, run_vars, boot_vars, told_vars, LineTypes
<1>22. ASSUME Resumed \/ Stops PROVE LineTypes'
  BY <1>22, TypeParts, BumpedType DEF Resumed, Stops, line_vars, run_vars, boot_vars, told_vars,
     LineTypes
<1>23. CASE UNCHANGED vars
  BY <1>23, TypeParts DEF vars, line_vars, run_vars, boot_vars, told_vars, LineTypes
<1> QED
  BY <1>1, <1>2, <1>3, <1>4, <1>5, <1>6, <1>7, <1>8, <1>9, <1>10, <1>11, <1>12, <1>13, <1>14,
     <1>15, <1>16, <1>17, <1>18, <1>19, <1>20, <1>21, <1>22, <1>23 DEF Next, Starting, Person,
     Fault, Recover, Building

LEMMA LockKeepsType == ASSUME TypeOK, [Next]_vars PROVE LockTypes'
<1>1. ASSUME NEW p \in Plans, Enqueue(p) PROVE LockTypes'
  BY <1>1, TypeParts, Zenon DEF Enqueue, line_vars, run_vars, boot_vars, told_vars, LockTypes
<1>2. ASSUME Advance PROVE LockTypes'
  BY <1>2, TypeParts, Zenon DEF Advance, line_vars, run_vars, boot_vars, told_vars, LockTypes
<1>3. ASSUME Look PROVE LockTypes'
  BY <1>3, TypeParts, Zenon DEF Look, line_vars, run_vars, boot_vars, told_vars, LockTypes
<1>4. ASSUME NEW p \in Plans, NEW by \in {"asking", "command"}, Arrive(p, by) PROVE LockTypes'
  BY <1>4, TypeParts, Zenon DEF Arrive, line_vars, run_vars, boot_vars, told_vars, LockTypes
<1>5. ASSUME NEW s \in starts, Switch(s) PROVE LockTypes'
  BY <1>5, TypeParts, Zenon DEF Switch, line_vars, run_vars, boot_vars, told_vars, LockTypes
<1>6. ASSUME NEW s \in starts, Begin(s) PROVE LockTypes'
  BY <1>6, TypeParts, Zenon DEF Begin, Fails, line_vars, run_vars, boot_vars, told_vars, LockTypes
<1>7. ASSUME NEW s \in starts, Refuse(s) PROVE LockTypes'
  BY <1>7, TypeParts, Zenon DEF Refuse, Fails, Failure, line_vars, run_vars, boot_vars, told_vars,
     LockTypes
<1>8. ASSUME NEW s \in starts, Hiccup(s) PROVE LockTypes'
  BY <1>8, TypeParts, Zenon DEF Hiccup, Failure, line_vars, run_vars, boot_vars, told_vars,
     LockTypes
<1>9. ASSUME NEW s \in starts, Save(s) PROVE LockTypes'
  BY <1>9, TypeParts, Zenon DEF Save, line_vars, run_vars, boot_vars, told_vars, LockTypes
<1>10. ASSUME NEW s \in starts, Launch(s) PROVE LockTypes'
  BY <1>10, TypeParts, Zenon DEF Launch, line_vars, run_vars, boot_vars, told_vars, LockTypes
<1>11. ASSUME NEW s \in starts, Return(s) PROVE LockTypes'
  BY <1>11, TypeParts, Zenon DEF Return, line_vars, run_vars, boot_vars, told_vars, LockTypes
<1>12. ASSUME NEW s \in starts, Tell(s) PROVE LockTypes'
  BY <1>12, TypeParts, Zenon DEF Tell, line_vars, run_vars, boot_vars, told_vars, LockTypes
<1>13. ASSUME Drop PROVE LockTypes'
  BY <1>13, TypeParts, Zenon DEF Drop, Failure, line_vars, run_vars, boot_vars, told_vars,
     LockTypes
<1>14. ASSUME NEW b \in Running, Waits(b) \/ Finishes(b) \/ KeepFails(b) PROVE LockTypes'
  BY <1>14, TypeParts, Zenon DEF Waits, Finishes, KeepFails, QueueWaiting, Calls, Failure,
     line_vars, run_vars, boot_vars, told_vars, LockTypes
<1>15. ASSUME NEW b \in Running, Answer(b) \/ Keeps(b) \/ Close(b) PROVE LockTypes'
  BY <1>15, TypeParts, Zenon DEF Answer, Keeps, Close, line_vars, run_vars, boot_vars, told_vars,
     LockTypes
<1>16. ASSUME NEW b \in Running, Wakes(b) PROVE LockTypes'
  BY <1>16, TypeParts, Zenon DEF Wakes, line_vars, run_vars, boot_vars, told_vars, LockTypes
<1>17. ASSUME NEW b \in Running, Ends(b) \/ Gone(b) PROVE LockTypes'
  BY <1>17, TypeParts, Zenon DEF Ends, Gone, Popped, Calls, line_vars, run_vars, boot_vars,
     told_vars, LockTypes
<1>18. ASSUME NEW b \in Running, Forgets(b) PROVE LockTypes'
  BY <1>18, TypeParts, Zenon DEF Forgets, Failure, line_vars, run_vars, boot_vars, told_vars,
     LockTypes
<1>19. ASSUME Crash PROVE LockTypes'
  BY <1>19, TypeParts, Zenon DEF Crash, line_vars, run_vars, boot_vars, told_vars, LockTypes
<1>20. ASSUME Restart PROVE LockTypes'
  BY <1>20, TypeParts, Zenon DEF Restart, line_vars, run_vars, boot_vars, told_vars, LockTypes
<1>21. ASSUME NEW b \in todo, Resume(b) PROVE LockTypes'
  BY <1>21, TypeParts, Zenon DEF Resume, line_vars, run_vars, boot_vars, told_vars, LockTypes
<1>22. ASSUME Resumed \/ Stops PROVE LockTypes'
  BY <1>22, TypeParts, Zenon DEF Resumed, Stops, line_vars, run_vars, boot_vars, told_vars,
     LockTypes
<1>23. CASE UNCHANGED vars
  BY <1>23, TypeParts DEF vars, line_vars, run_vars, boot_vars, told_vars, LockTypes
<1> QED
  BY <1>1, <1>2, <1>3, <1>4, <1>5, <1>6, <1>7, <1>8, <1>9, <1>10, <1>11, <1>12, <1>13, <1>14,
     <1>15, <1>16, <1>17, <1>18, <1>19, <1>20, <1>21, <1>22, <1>23 DEF Next, Starting, Person,
     Fault, Recover, Building

LEMMA StartsKeepTypes == ASSUME TypeOK, [Next]_vars PROVE StartTypes'
<1>1. ASSUME NEW p \in Plans, Enqueue(p) PROVE StartTypes'
  BY <1>1, TypeParts DEF Enqueue, line_vars, run_vars, boot_vars, told_vars, StartTypes
<1>2. ASSUME Advance PROVE StartTypes'
  BY <1>2, TypeParts DEF Advance, line_vars, run_vars, boot_vars, told_vars, StartTypes
<1>3. ASSUME Look PROVE StartTypes'
  <2>1. CASE UNCHANGED <<starts, over, lost, begun>>
    BY <2>1, TypeParts DEF StartTypes
  <2>2. CASE /\ scan # <<>>
             /\ starts' = starts \cup {[plan |-> Head(scan), by |-> "queue", stage |-> "arriving"]}
    <3>1. [plan |-> Head(scan), by |-> "queue", stage |-> "arriving"] \in Starts
      BY <2>2, ScanParts DEF Starts
    <3> QED  BY <1>3, <2>2, <3>1, TypeParts DEF Look, told_vars, StartTypes
  <2> QED  BY <1>3, <2>1, <2>2 DEF Look, told_vars
<1>4. ASSUME NEW p \in Plans, NEW by \in {"asking", "command"}, Arrive(p, by) PROVE StartTypes'
  BY <1>4, TypeParts DEF Arrive, line_vars, run_vars, boot_vars, told_vars, StartTypes, Starts
<1>5. ASSUME NEW s \in starts, Switch(s) PROVE StartTypes'
  BY <1>5, TypeParts DEF Switch, line_vars, run_vars, boot_vars, told_vars, StartTypes
<1>6. ASSUME NEW s \in starts, Begin(s) PROVE StartTypes'
  <2>1. CASE Busy(s)
    <3>1. Fails(s) /\ UNCHANGED <<lost, begun>>
      BY <1>6, <2>1 DEF Begin, Fails
    <3> QED  BY <3>1, FailedStart, PlansOf, TypeParts DEF StartTypes
  <2>2. CASE ~ Busy(s)
    BY <1>6, <2>2, TypeParts, MovedStart DEF Begin, told_vars, StartTypes
  <2> QED  BY <2>1, <2>2
<1>7. ASSUME NEW s \in starts, Refuse(s) PROVE StartTypes'
  <2>1. Fails(s) /\ UNCHANGED <<lost, begun>>
    BY <1>7 DEF Refuse, Fails
  <2> QED  BY <2>1, FailedStart, PlansOf, TypeParts DEF StartTypes
<1>8. ASSUME NEW s \in starts, Hiccup(s) PROVE StartTypes'
  BY <1>8, TypeParts DEF Hiccup, Failure, line_vars, run_vars, boot_vars, told_vars, StartTypes
<1>9. ASSUME NEW s \in starts, Save(s) PROVE StartTypes'
  <2>1. /\ starts' = Moved(s, "saved") /\ begun' = [begun EXCEPT ![s.plan] = @ + 1]
        /\ UNCHANGED <<over, lost>>
    BY <1>9 DEF Save
  <2>2. s.plan \in Plans /\ begun[s.plan] + 1 \in Nat
    BY BuildOfStart
  <2>3. begun' \in [Plans -> Nat]
    BY <2>1, <2>2, TypeParts DEF StartTypes
  <2> QED  BY <2>1, <2>3, MovedStart, TypeParts DEF StartTypes
<1>10. ASSUME NEW s \in starts, Launch(s) PROVE StartTypes'
  BY <1>10, TypeParts, MovedStart DEF Launch, line_vars, run_vars, boot_vars, told_vars,
     StartTypes
<1>11. ASSUME NEW s \in starts, Return(s) PROVE StartTypes'
  BY <1>11, TypeParts DEF Return, line_vars, run_vars, boot_vars, told_vars, StartTypes
<1>12. ASSUME NEW s \in starts, Tell(s) PROVE StartTypes'
  BY <1>12, TypeParts, PlansOf DEF Tell, line_vars, run_vars, boot_vars, told_vars, StartTypes
<1>13. ASSUME Drop PROVE StartTypes'
  BY <1>13, TypeParts, ScanParts DEF Drop, Failure, line_vars, run_vars, boot_vars, told_vars,
     StartTypes
<1>14. ASSUME NEW b \in Running, Waits(b) \/ Finishes(b) \/ KeepFails(b) PROVE StartTypes'
  BY <1>14, TypeParts DEF Waits, Finishes, KeepFails, QueueWaiting, Calls, Failure, line_vars,
     run_vars, boot_vars, told_vars, StartTypes
<1>15. ASSUME NEW b \in Running, Answer(b) \/ Keeps(b) \/ Close(b) PROVE StartTypes'
  BY <1>15, TypeParts DEF Answer, Keeps, Close, line_vars, run_vars, boot_vars, told_vars,
     StartTypes
<1>16. ASSUME NEW b \in Running, Wakes(b) PROVE StartTypes'
  BY <1>16, TypeParts DEF Wakes, line_vars, run_vars, boot_vars, told_vars, StartTypes
<1>17. ASSUME NEW b \in Running, Ends(b) \/ Gone(b) PROVE StartTypes'
  BY <1>17, TypeParts, PlansOf DEF Ends, Gone, Popped, Calls, line_vars, run_vars, boot_vars,
     told_vars, StartTypes
<1>18. ASSUME NEW b \in Running, Forgets(b) PROVE StartTypes'
  BY <1>18, TypeParts DEF Forgets, Failure, line_vars, run_vars, boot_vars, told_vars, StartTypes
<1>19. ASSUME Crash PROVE StartTypes'
  <2>1. starts' = {} /\ UNCHANGED <<over, begun>>
    BY <1>19 DEF Crash
  <2>2. lost' \subseteq Plans
    <3>1. {s.plan : s \in {r \in starts : r.stage = "refused"}} \subseteq Plans
      BY PlansOf
    <3>2. {b.plan : b \in Running \ records} \subseteq Plans
      BY PlansOf
    <3> QED  BY <1>19, <3>1, <3>2, PlansOf, TypeParts DEF Crash, StartTypes
  <2> QED  BY <2>1, <2>2, TypeParts DEF StartTypes
<1>20. ASSUME Restart PROVE StartTypes'
  BY <1>20, TypeParts DEF Restart, line_vars, run_vars, boot_vars, told_vars, StartTypes
<1>21. ASSUME NEW b \in todo, Resume(b) PROVE StartTypes'
  <2>1. b.plan \in Plans
    BY TypeParts DEF BuildTypes, Builds
  <2> QED  BY <1>21, <2>1, TypeParts DEF Resume, StartTypes
<1>22. ASSUME Resumed \/ Stops PROVE StartTypes'
  BY <1>22, TypeParts DEF Resumed, Stops, line_vars, run_vars, boot_vars, told_vars, StartTypes
<1>23. CASE UNCHANGED vars
  BY <1>23, TypeParts DEF vars, line_vars, run_vars, boot_vars, told_vars, StartTypes
<1> QED
  BY <1>1, <1>2, <1>3, <1>4, <1>5, <1>6, <1>7, <1>8, <1>9, <1>10, <1>11, <1>12, <1>13, <1>14,
     <1>15, <1>16, <1>17, <1>18, <1>19, <1>20, <1>21, <1>22, <1>23 DEF Next, Starting, Person,
     Fault, Recover, Building

LEMMA BuildsKeepTypes == ASSUME TypeOK, Booking, [Next]_vars PROVE BuildTypes'
<1>1. ASSUME NEW p \in Plans, Enqueue(p) PROVE BuildTypes'
  BY <1>1, TypeParts DEF Enqueue, line_vars, run_vars, boot_vars, told_vars, BuildTypes
<1>2. ASSUME Advance PROVE BuildTypes'
  BY <1>2, TypeParts DEF Advance, line_vars, run_vars, boot_vars, told_vars, BuildTypes
<1>3. ASSUME Look PROVE BuildTypes'
  BY <1>3, TypeParts DEF Look, line_vars, run_vars, boot_vars, told_vars, BuildTypes
<1>4. ASSUME NEW p \in Plans, NEW by \in {"asking", "command"}, Arrive(p, by) PROVE BuildTypes'
  BY <1>4, TypeParts DEF Arrive, line_vars, run_vars, boot_vars, told_vars, BuildTypes
<1>5. ASSUME NEW s \in starts, Switch(s) PROVE BuildTypes'
  BY <1>5, TypeParts DEF Switch, line_vars, run_vars, boot_vars, told_vars, BuildTypes, Running
<1>6. ASSUME NEW s \in starts, Begin(s) PROVE BuildTypes'
  BY <1>6, TypeParts DEF Begin, Fails, line_vars, run_vars, boot_vars, told_vars, BuildTypes
<1>7. ASSUME NEW s \in starts, Refuse(s) PROVE BuildTypes'
  BY <1>7, TypeParts DEF Refuse, Fails, Failure, line_vars, run_vars, boot_vars, told_vars,
     BuildTypes
<1>8. ASSUME NEW s \in starts, Hiccup(s) PROVE BuildTypes'
  BY <1>8, TypeParts DEF Hiccup, Failure, line_vars, run_vars, boot_vars, told_vars, BuildTypes
<1>9. ASSUME NEW s \in starts, Save(s) PROVE BuildTypes'
  <2>1. [BuildOf(s) EXCEPT !.no = @ + 1] \in Builds
    BY NewBuild
  <2> QED  BY <1>9, <2>1, TypeParts DEF Save, boot_vars, BuildTypes
<1>10. ASSUME NEW s \in starts, Launch(s) PROVE BuildTypes'
  <2>1. BuildOf(s) \in records /\ BuildOf(s) \notin Running
    BY <1>10 DEF Launch, Booking
  <2> QED  BY <1>10, <2>1, TypeParts DEF Launch, boot_vars, BuildTypes, Running
<1>11. ASSUME NEW s \in starts, Return(s) PROVE BuildTypes'
  BY <1>11, TypeParts DEF Return, line_vars, run_vars, boot_vars, told_vars, BuildTypes
<1>12. ASSUME NEW s \in starts, Tell(s) PROVE BuildTypes'
  BY <1>12, TypeParts DEF Tell, line_vars, run_vars, boot_vars, told_vars, BuildTypes
<1>13. ASSUME Drop PROVE BuildTypes'
  BY <1>13, TypeParts DEF Drop, Failure, line_vars, run_vars, boot_vars, told_vars, BuildTypes
<1>14. ASSUME NEW b \in Running, Waits(b) \/ Finishes(b) \/ KeepFails(b) PROVE BuildTypes'
  BY <1>14, TypeParts DEF Waits, Finishes, KeepFails, QueueWaiting, Calls, Failure, line_vars,
     run_vars, boot_vars, told_vars, BuildTypes, Running
<1>15. ASSUME NEW b \in Running, Answer(b) \/ Keeps(b) \/ Close(b) PROVE BuildTypes'
  BY <1>15, TypeParts DEF Answer, Keeps, Close, line_vars, run_vars, boot_vars, told_vars,
     BuildTypes, Running
<1>16. ASSUME NEW b \in Running, Wakes(b) PROVE BuildTypes'
  BY <1>16, TypeParts DEF Wakes, line_vars, run_vars, boot_vars, told_vars, BuildTypes, Running
<1>17. ASSUME NEW b \in Running, Ends(b) \/ Gone(b) PROVE BuildTypes'
  BY <1>17, TypeParts DEF Ends, Gone, Popped, Calls, line_vars, run_vars, boot_vars, told_vars,
     BuildTypes, Running
<1>18. ASSUME NEW b \in Running, Forgets(b) PROVE BuildTypes'
  BY <1>18, TypeParts DEF Forgets, Failure, line_vars, run_vars, boot_vars, told_vars, BuildTypes,
     Running
<1>19. ASSUME Crash PROVE BuildTypes'
  BY <1>19, TypeParts DEF Crash, line_vars, run_vars, boot_vars, told_vars, BuildTypes
<1>20. ASSUME Restart PROVE BuildTypes'
  BY <1>20, TypeParts DEF Restart, line_vars, run_vars, boot_vars, told_vars, BuildTypes
<1>21. ASSUME NEW b \in todo, Resume(b) PROVE BuildTypes'
  BY <1>21, TypeParts DEF Resume, line_vars, run_vars, boot_vars, told_vars, BuildTypes, Running
<1>22. ASSUME Resumed \/ Stops PROVE BuildTypes'
  BY <1>22, TypeParts DEF Resumed, Stops, line_vars, run_vars, boot_vars, told_vars, BuildTypes
<1>23. CASE UNCHANGED vars
  BY <1>23, TypeParts DEF vars, line_vars, run_vars, boot_vars, told_vars, BuildTypes
<1> QED
  BY <1>1, <1>2, <1>3, <1>4, <1>5, <1>6, <1>7, <1>8, <1>9, <1>10, <1>11, <1>12, <1>13, <1>14,
     <1>15, <1>16, <1>17, <1>18, <1>19, <1>20, <1>21, <1>22, <1>23 DEF Next, Starting, Person,
     Fault, Recover, Building

LEMMA CountsKeepTypes == ASSUME TypeOK, [Next]_vars PROVE CountTypes'
<1>1. ASSUME NEW p \in Plans, Enqueue(p) PROVE CountTypes'
  BY <1>1, TypeParts DEF Enqueue, line_vars, run_vars, boot_vars, told_vars, CountTypes
<1>2. ASSUME Advance PROVE CountTypes'
  BY <1>2, TypeParts DEF Advance, line_vars, run_vars, boot_vars, told_vars, CountTypes
<1>3. ASSUME Look PROVE CountTypes'
  BY <1>3, TypeParts DEF Look, line_vars, run_vars, boot_vars, told_vars, CountTypes
<1>4. ASSUME NEW p \in Plans, NEW by \in {"asking", "command"}, Arrive(p, by) PROVE CountTypes'
  BY <1>4, TypeParts DEF Arrive, line_vars, run_vars, boot_vars, told_vars, CountTypes
<1>5. ASSUME NEW s \in starts, Switch(s) PROVE CountTypes'
  BY <1>5, TypeParts DEF Switch, line_vars, run_vars, boot_vars, told_vars, CountTypes
<1>6. ASSUME NEW s \in starts, Begin(s) PROVE CountTypes'
  BY <1>6, TypeParts DEF Begin, Fails, line_vars, run_vars, boot_vars, told_vars, CountTypes
<1>7. ASSUME NEW s \in starts, Refuse(s) PROVE CountTypes'
  BY <1>7, TypeParts DEF Refuse, Fails, Failure, line_vars, run_vars, boot_vars, told_vars,
     CountTypes
<1>8. ASSUME NEW s \in starts, Hiccup(s) PROVE CountTypes'
  BY <1>8, TypeParts DEF Hiccup, Failure, line_vars, run_vars, boot_vars, told_vars, CountTypes
<1>9. ASSUME NEW s \in starts, Save(s) PROVE CountTypes'
  BY <1>9, TypeParts DEF Save, line_vars, run_vars, boot_vars, told_vars, CountTypes
<1>10. ASSUME NEW s \in starts, Launch(s) PROVE CountTypes'
  BY <1>10, TypeParts DEF Launch, line_vars, run_vars, boot_vars, told_vars, CountTypes
<1>11. ASSUME NEW s \in starts, Return(s) PROVE CountTypes'
  BY <1>11, TypeParts DEF Return, line_vars, run_vars, boot_vars, told_vars, CountTypes
<1>12. ASSUME NEW s \in starts, Tell(s) PROVE CountTypes'
  BY <1>12, TypeParts DEF Tell, line_vars, run_vars, boot_vars, told_vars, CountTypes
<1>13. ASSUME Drop PROVE CountTypes'
  BY <1>13, TypeParts DEF Drop, Failure, line_vars, run_vars, boot_vars, told_vars, CountTypes
<1>14. ASSUME NEW b \in Running, Waits(b) \/ Finishes(b) \/ KeepFails(b) PROVE CountTypes'
  BY <1>14, TypeParts DEF Waits, Finishes, KeepFails, QueueWaiting, Calls, Failure, line_vars,
     run_vars, boot_vars, told_vars, CountTypes
<1>15. ASSUME NEW b \in Running, Answer(b) \/ Keeps(b) \/ Close(b) PROVE CountTypes'
  BY <1>15, TypeParts DEF Answer, Keeps, Close, line_vars, run_vars, boot_vars, told_vars,
     CountTypes
<1>16. ASSUME NEW b \in Running, Wakes(b) PROVE CountTypes'
  BY <1>16, TypeParts DEF Wakes, line_vars, run_vars, boot_vars, told_vars, CountTypes
<1>17. ASSUME NEW b \in Running, Ends(b) \/ Gone(b) PROVE CountTypes'
  BY <1>17, TypeParts DEF Ends, Gone, Popped, Calls, line_vars, run_vars, boot_vars, told_vars,
     CountTypes
<1>18. ASSUME NEW b \in Running, Forgets(b) PROVE CountTypes'
  BY <1>18, TypeParts DEF Forgets, Failure, line_vars, run_vars, boot_vars, told_vars, CountTypes
<1>19. ASSUME Crash PROVE CountTypes'
  BY <1>19, TypeParts DEF Crash, line_vars, run_vars, boot_vars, told_vars, CountTypes
<1>20. ASSUME Restart PROVE CountTypes'
  BY <1>20, TypeParts DEF Restart, line_vars, run_vars, boot_vars, told_vars, CountTypes
<1>21. ASSUME NEW b \in todo, Resume(b) PROVE CountTypes'
  BY <1>21, TypeParts DEF Resume, line_vars, run_vars, boot_vars, told_vars, CountTypes
<1>22. ASSUME Resumed \/ Stops PROVE CountTypes'
  BY <1>22, TypeParts DEF Resumed, Stops, line_vars, run_vars, boot_vars, told_vars, CountTypes
<1>23. CASE UNCHANGED vars
  BY <1>23, TypeParts DEF vars, line_vars, run_vars, boot_vars, told_vars, CountTypes
<1> QED
  BY <1>1, <1>2, <1>3, <1>4, <1>5, <1>6, <1>7, <1>8, <1>9, <1>10, <1>11, <1>12, <1>13, <1>14,
     <1>15, <1>16, <1>17, <1>18, <1>19, <1>20, <1>21, <1>22, <1>23 DEF Next, Starting, Person,
     Fault, Recover, Building

LEMMA TypesKept == ASSUME TypeOK, Booking, [Next]_vars PROVE TypeOK'
<1>1. TypeOK <=> LineTypes /\ LockTypes /\ StartTypes /\ BuildTypes /\ CountTypes
  BY TypeParts
<1>2. LineTypes' /\ LockTypes' /\ StartTypes' /\ BuildTypes' /\ CountTypes'
  BY LineKeepsTypes, LockKeepsType, StartsKeepTypes, BuildsKeepTypes, CountsKeepTypes
<1> QED
  BY <1>2 DEF TypeOK, LineTypes, LockTypes, StartTypes, BuildTypes, CountTypes

LEMMA DownKept == ASSUME TypeOK, Down, Booking, [Next]_vars PROVE Down'
<1>1. ASSUME NEW p \in Plans, Enqueue(p) PROVE Down'
  BY <1>1 DEF Enqueue, line_vars, run_vars, boot_vars, told_vars, Down
<1>2. ASSUME Advance PROVE Down'
  BY <1>2 DEF Advance, line_vars, run_vars, boot_vars, told_vars, Down
<1>3. ASSUME Look PROVE Down'
  BY <1>3 DEF Look, line_vars, run_vars, boot_vars, told_vars, Down
<1>4. ASSUME NEW p \in Plans, NEW by \in {"asking", "command"}, Arrive(p, by) PROVE Down'
  BY <1>4 DEF Arrive, line_vars, run_vars, boot_vars, told_vars, Down
<1>5. ASSUME NEW s \in starts, Switch(s) PROVE Down'
  BY <1>5 DEF Switch, line_vars, run_vars, boot_vars, told_vars, Down
<1>6. ASSUME NEW s \in starts, Begin(s) PROVE Down'
  BY <1>6 DEF Begin, Fails, line_vars, run_vars, boot_vars, told_vars, Down
<1>7. ASSUME NEW s \in starts, Refuse(s) PROVE Down'
  BY <1>7 DEF Refuse, Fails, Failure, line_vars, run_vars, boot_vars, told_vars, Down
<1>8. ASSUME NEW s \in starts, Hiccup(s) PROVE Down'
  BY <1>8 DEF Hiccup, Failure, line_vars, run_vars, boot_vars, told_vars, Down
<1>9. ASSUME NEW s \in starts, Save(s) PROVE Down'
  BY <1>9 DEF Save, line_vars, run_vars, boot_vars, told_vars, Down
<1>10. ASSUME NEW s \in starts, Launch(s) PROVE Down'
  BY <1>10 DEF Launch, line_vars, run_vars, boot_vars, told_vars, Down
<1>11. ASSUME NEW s \in starts, Return(s) PROVE Down'
  BY <1>11 DEF Return, line_vars, run_vars, boot_vars, told_vars, Down
<1>12. ASSUME NEW s \in starts, Tell(s) PROVE Down'
  BY <1>12 DEF Tell, line_vars, run_vars, boot_vars, told_vars, Down
<1>13. ASSUME Drop PROVE Down'
  BY <1>13 DEF Drop, Failure, line_vars, run_vars, boot_vars, told_vars, Down
<1>14. ASSUME NEW b \in Running, Waits(b) \/ Finishes(b) \/ KeepFails(b) PROVE Down'
  BY <1>14 DEF Waits, Finishes, KeepFails, QueueWaiting, Calls, Failure, line_vars, run_vars,
     boot_vars, told_vars, Down, Running
<1>15. ASSUME NEW b \in Running, Answer(b) \/ Keeps(b) \/ Close(b) PROVE Down'
  BY <1>15 DEF Answer, Keeps, Close, line_vars, run_vars, boot_vars, told_vars, Down, Running
<1>16. ASSUME NEW b \in Running, Wakes(b) PROVE Down'
  BY <1>16 DEF Wakes, line_vars, run_vars, boot_vars, told_vars, Down, Running
<1>17. ASSUME NEW b \in Running, Ends(b) \/ Gone(b) PROVE Down'
  BY <1>17 DEF Ends, Gone, Popped, Calls, line_vars, run_vars, boot_vars, told_vars, Down, Running
<1>18. ASSUME NEW b \in Running, Forgets(b) PROVE Down'
  BY <1>18 DEF Forgets, Failure, line_vars, run_vars, boot_vars, told_vars, Down, Running
<1>19. ASSUME Crash PROVE Down'
  BY <1>19 DEF Crash, line_vars, run_vars, boot_vars, told_vars, Down
<1>20. ASSUME Restart PROVE Down'
  BY <1>20 DEF Restart, line_vars, run_vars, boot_vars, told_vars, Down
<1>21. ASSUME NEW b \in todo, Resume(b) PROVE Down'
  BY <1>21 DEF Resume, line_vars, run_vars, boot_vars, told_vars, Down
<1>22. ASSUME Resumed \/ Stops PROVE Down'
  BY <1>22 DEF Resumed, Stops, line_vars, run_vars, boot_vars, told_vars, Down
<1>23. CASE UNCHANGED vars
  BY <1>23 DEF vars, line_vars, run_vars, boot_vars, told_vars, Down
<1> QED
  BY <1>1, <1>2, <1>3, <1>4, <1>5, <1>6, <1>7, <1>8, <1>9, <1>10, <1>11, <1>12, <1>13, <1>14,
     <1>15, <1>16, <1>17, <1>18, <1>19, <1>20, <1>21, <1>22, <1>23 DEF Next, Starting, Person,
     Fault, Recover, Building

\* What waits for a person keeps its record.
LEMMA RecordKept == ASSUME TypeOK, Down, Booking, OnRecord, [Next]_vars PROVE OnRecord'
<1>1. ASSUME NEW p \in Plans, Enqueue(p) PROVE OnRecord'
  BY <1>1 DEF Enqueue, line_vars, run_vars, boot_vars, told_vars, OnRecord
<1>2. ASSUME Advance PROVE OnRecord'
  BY <1>2 DEF Advance, line_vars, run_vars, boot_vars, told_vars, OnRecord
<1>3. ASSUME Look PROVE OnRecord'
  BY <1>3 DEF Look, line_vars, run_vars, boot_vars, told_vars, OnRecord
<1>4. ASSUME NEW p \in Plans, NEW by \in {"asking", "command"}, Arrive(p, by) PROVE OnRecord'
  BY <1>4 DEF Arrive, line_vars, run_vars, boot_vars, told_vars, OnRecord
<1>5. ASSUME NEW s \in starts, Switch(s) PROVE OnRecord'
  BY <1>5 DEF Switch, line_vars, run_vars, boot_vars, told_vars, OnRecord
<1>6. ASSUME NEW s \in starts, Begin(s) PROVE OnRecord'
  BY <1>6 DEF Begin, Fails, line_vars, run_vars, boot_vars, told_vars, OnRecord
<1>7. ASSUME NEW s \in starts, Refuse(s) PROVE OnRecord'
  BY <1>7 DEF Refuse, Fails, Failure, line_vars, run_vars, boot_vars, told_vars, OnRecord
<1>8. ASSUME NEW s \in starts, Hiccup(s) PROVE OnRecord'
  BY <1>8 DEF Hiccup, Failure, line_vars, run_vars, boot_vars, told_vars, OnRecord
<1>9. ASSUME NEW s \in starts, Save(s) PROVE OnRecord'
  BY <1>9 DEF Save, line_vars, run_vars, boot_vars, told_vars, OnRecord
<1>10. ASSUME NEW s \in starts, Launch(s) PROVE OnRecord'
  BY <1>10 DEF Launch, line_vars, run_vars, boot_vars, told_vars, OnRecord
<1>11. ASSUME NEW s \in starts, Return(s) PROVE OnRecord'
  BY <1>11 DEF Return, line_vars, run_vars, boot_vars, told_vars, OnRecord
<1>12. ASSUME NEW s \in starts, Tell(s) PROVE OnRecord'
  BY <1>12 DEF Tell, line_vars, run_vars, boot_vars, told_vars, OnRecord
<1>13. ASSUME Drop PROVE OnRecord'
  BY <1>13 DEF Drop, Failure, line_vars, run_vars, boot_vars, told_vars, OnRecord
<1>14. ASSUME NEW b \in Running, Waits(b) \/ Finishes(b) \/ KeepFails(b) PROVE OnRecord'
  BY <1>14 DEF Waits, Finishes, KeepFails, QueueWaiting, Calls, Failure, line_vars, run_vars,
     boot_vars, told_vars, OnRecord, Running
<1>15. ASSUME NEW b \in Running, Answer(b) \/ Keeps(b) \/ Close(b) PROVE OnRecord'
  BY <1>15 DEF Answer, Keeps, Close, line_vars, run_vars, boot_vars, told_vars, OnRecord, Running
<1>16. ASSUME NEW b \in Running, Wakes(b) PROVE OnRecord'
  BY <1>16 DEF Wakes, line_vars, run_vars, boot_vars, told_vars, OnRecord, Running
<1>17. ASSUME NEW b \in Running, Ends(b) \/ Gone(b) PROVE OnRecord'
  BY <1>17, TypeParts DEF Ends, Gone, Popped, Calls, line_vars, run_vars, boot_vars, told_vars,
     OnRecord, Running, BuildTypes
<1>18. ASSUME NEW b \in Running, Forgets(b) PROVE OnRecord'
  BY <1>18, TypeParts DEF Forgets, Failure, line_vars, run_vars, boot_vars, told_vars, OnRecord,
     Running, BuildTypes
<1>19. ASSUME Crash PROVE OnRecord'
  BY <1>19 DEF Crash, line_vars, run_vars, boot_vars, told_vars, OnRecord
<1>20. ASSUME Restart PROVE OnRecord'
  BY <1>20 DEF Restart, line_vars, run_vars, boot_vars, told_vars, OnRecord
<1>21. ASSUME NEW b \in todo, Resume(b) PROVE OnRecord'
  BY <1>21 DEF Resume, line_vars, run_vars, boot_vars, told_vars, OnRecord, Running, Booking
<1>22. ASSUME Resumed \/ Stops PROVE OnRecord'
  BY <1>22 DEF Resumed, Stops, line_vars, run_vars, boot_vars, told_vars, OnRecord
<1>23. CASE UNCHANGED vars
  BY <1>23 DEF vars, line_vars, run_vars, boot_vars, told_vars, OnRecord
<1> QED
  BY <1>1, <1>2, <1>3, <1>4, <1>5, <1>6, <1>7, <1>8, <1>9, <1>10, <1>11, <1>12, <1>13, <1>14,
     <1>15, <1>16, <1>17, <1>18, <1>19, <1>20, <1>21, <1>22, <1>23 DEF Next, Starting, Person,
     Fault, Recover, Building

LEMMA MarkedKept == ASSUME TypeOK, Down, Marked, [Next]_vars PROVE Marked'
<1>1. ASSUME NEW p \in Plans, Enqueue(p) PROVE Marked'
  BY <1>1 DEF Enqueue, line_vars, run_vars, boot_vars, told_vars, Marked
<1>2. ASSUME Advance PROVE Marked'
  BY <1>2 DEF Advance, line_vars, run_vars, boot_vars, told_vars, Marked
<1>3. ASSUME Look PROVE Marked'
  BY <1>3 DEF Look, line_vars, run_vars, boot_vars, told_vars, Marked
<1>4. ASSUME NEW p \in Plans, NEW by \in {"asking", "command"}, Arrive(p, by) PROVE Marked'
  BY <1>4 DEF Arrive, line_vars, run_vars, boot_vars, told_vars, Marked
<1>5. ASSUME NEW s \in starts, Switch(s) PROVE Marked'
  BY <1>5 DEF Switch, line_vars, run_vars, boot_vars, told_vars, Marked
<1>6. ASSUME NEW s \in starts, Begin(s) PROVE Marked'
  BY <1>6 DEF Begin, Fails, line_vars, run_vars, boot_vars, told_vars, Marked
<1>7. ASSUME NEW s \in starts, Refuse(s) PROVE Marked'
  BY <1>7 DEF Refuse, Fails, Failure, line_vars, run_vars, boot_vars, told_vars, Marked
<1>8. ASSUME NEW s \in starts, Hiccup(s) PROVE Marked'
  BY <1>8 DEF Hiccup, Failure, line_vars, run_vars, boot_vars, told_vars, Marked
<1>9. ASSUME NEW s \in starts, Save(s) PROVE Marked'
  BY <1>9 DEF Save, line_vars, run_vars, boot_vars, told_vars, Marked
<1>10. ASSUME NEW s \in starts, Launch(s) PROVE Marked'
  BY <1>10 DEF Launch, line_vars, run_vars, boot_vars, told_vars, Marked
<1>11. ASSUME NEW s \in starts, Return(s) PROVE Marked'
  BY <1>11 DEF Return, line_vars, run_vars, boot_vars, told_vars, Marked
<1>12. ASSUME NEW s \in starts, Tell(s) PROVE Marked'
  BY <1>12 DEF Tell, line_vars, run_vars, boot_vars, told_vars, Marked
<1>13. ASSUME Drop PROVE Marked'
  BY <1>13 DEF Drop, Failure, line_vars, run_vars, boot_vars, told_vars, Marked
<1>14. ASSUME NEW b \in Running, Waits(b) \/ Finishes(b) \/ KeepFails(b) PROVE Marked'
  BY <1>14 DEF Waits, Finishes, KeepFails, QueueWaiting, Calls, Failure, line_vars, run_vars,
     boot_vars, told_vars, Marked, Running, TypeOK
<1>15. ASSUME NEW b \in Running, Answer(b) \/ Keeps(b) \/ Close(b) PROVE Marked'
  BY <1>15 DEF Answer, Keeps, Close, line_vars, run_vars, boot_vars, told_vars, Marked, Running,
     TypeOK
<1>16. ASSUME NEW b \in Running, Wakes(b) PROVE Marked'
  BY <1>16 DEF Wakes, line_vars, run_vars, boot_vars, told_vars, Marked, Running, TypeOK
<1>17. ASSUME NEW b \in Running, Ends(b) \/ Gone(b) PROVE Marked'
  BY <1>17 DEF Ends, Gone, Popped, Calls, line_vars, run_vars, boot_vars, told_vars, Marked,
     Running, TypeOK
<1>18. ASSUME NEW b \in Running, Forgets(b) PROVE Marked'
  BY <1>18 DEF Forgets, Failure, line_vars, run_vars, boot_vars, told_vars, Marked, Running,
     TypeOK
<1>19. ASSUME Crash PROVE Marked'
  BY <1>19 DEF Crash, line_vars, run_vars, boot_vars, told_vars, Marked
<1>20. ASSUME Restart PROVE Marked'
  BY <1>20 DEF Restart, line_vars, run_vars, boot_vars, told_vars, Marked
<1>21. ASSUME NEW b \in todo, Resume(b) PROVE Marked'
  BY <1>21 DEF Resume, line_vars, run_vars, boot_vars, told_vars, Marked
<1>22. ASSUME Resumed \/ Stops PROVE Marked'
  BY <1>22 DEF Resumed, Stops, line_vars, run_vars, boot_vars, told_vars, Marked
<1>23. CASE UNCHANGED vars
  BY <1>23 DEF vars, line_vars, run_vars, boot_vars, told_vars, Marked
<1> QED
  BY <1>1, <1>2, <1>3, <1>4, <1>5, <1>6, <1>7, <1>8, <1>9, <1>10, <1>11, <1>12, <1>13, <1>14,
     <1>15, <1>16, <1>17, <1>18, <1>19, <1>20, <1>21, <1>22, <1>23 DEF Next, Starting, Person,
     Fault, Recover, Building

\* Whatever only adds arrivals or takes starts away leaves the books as they are.
LEMMA BooksUntouched ==
    ASSUME Booking, UNCHANGED <<records, todo, begun>>, Running' = Running,
           over \subseteq over', lost \subseteq lost',
           \A s \in starts' : s \in starts \/ ~ Begun(s)
    PROVE  Booking'
<1>1. \A s : BuildOf(s)' = BuildOf(s)
  BY DEF BuildOf, QueueStart
<1>2. \A r, s \in starts' : r.plan = s.plan /\ Begun(r) /\ Begun(s) => r = s
  BY DEF Booking
<1>3. \A s \in starts' : s.stage = "saved" =>
          BuildOf(s) \in records /\ BuildOf(s) \notin Running \cup todo
  BY DEF Booking, Begun
<1>4. \A s \in starts' : s.stage = "sent" =>
          s.plan \in over' \cup lost' \/ \E b \in records \cup Running : b.plan = s.plan
  BY DEF Booking, Begun
<1> HIDE DEF Running, BuildOf
<1> QED  BY <1>1, <1>2, <1>3, <1>4 DEF Booking, Begun

LEMMA BookingKept == ASSUME TypeOK, Down, Booking, OnRecord, [Next]_vars PROVE Booking'
<1>1. ASSUME NEW p \in Plans, Enqueue(p) PROVE Booking'
  <2>1. /\ UNCHANGED <<records, todo, begun>> /\ Running' = Running
        /\ over \subseteq over' /\ lost \subseteq lost'
        /\ \A r \in starts' : r \in starts \/ ~ Begun(r)
    BY <1>1 DEF Enqueue, line_vars, run_vars, boot_vars, told_vars, Running
  <2> QED  BY <2>1, BooksUntouched
<1>2. ASSUME Advance PROVE Booking'
  <2>1. /\ UNCHANGED <<records, todo, begun>> /\ Running' = Running
        /\ over \subseteq over' /\ lost \subseteq lost'
        /\ \A r \in starts' : r \in starts \/ ~ Begun(r)
    BY <1>2 DEF Advance, line_vars, run_vars, boot_vars, told_vars, Running
  <2> QED  BY <2>1, BooksUntouched
<1>3. ASSUME Look PROVE Booking'
  <2>1. UNCHANGED <<records, todo, begun, over, lost>> /\ Running' = Running
    BY <1>3 DEF Look, run_vars, boot_vars, told_vars, Running
  <2>2. \/ starts' = starts
        \/ starts' = starts \cup {[plan |-> Head(scan), by |-> "queue", stage |-> "arriving"]}
    BY <1>3 DEF Look
  <2>3. \A r \in starts' : r \in starts \/ ~ Begun(r)
    BY <2>2 DEF Begun
  <2> QED  BY <2>1, <2>3, BooksUntouched
<1>4. ASSUME NEW p \in Plans, NEW by \in {"asking", "command"}, Arrive(p, by) PROVE Booking'
  <2>1. /\ UNCHANGED <<records, todo, begun>> /\ Running' = Running
        /\ over \subseteq over' /\ lost \subseteq lost'
        /\ \A r \in starts' : r \in starts \/ ~ Begun(r)
    BY <1>4 DEF Arrive, line_vars, run_vars, boot_vars, told_vars, Running, Begun
  <2> QED  BY <2>1, BooksUntouched
<1>5. ASSUME NEW s \in starts, Switch(s) PROVE Booking'
  <2>1. /\ UNCHANGED <<records, todo, begun>> /\ Running' = Running
        /\ over \subseteq over' /\ lost \subseteq lost'
        /\ \A r \in starts' : r \in starts \/ ~ Begun(r)
    BY <1>5 DEF Switch, line_vars, run_vars, boot_vars, told_vars, Running
  <2> QED  BY <2>1, BooksUntouched
<1>6. ASSUME NEW s \in starts, Begin(s) PROVE Booking'
  <2>1. CASE Busy(s)
    <3>1. Fails(s)
      BY <1>6, <2>1 DEF Begin
    <3>2. \A r \in starts' : r \in starts \/ ~ Begun(r)
      BY <3>1, FailedStart DEF Begun
    <3>3. /\ UNCHANGED <<records, todo, begun>> /\ Running' = Running
          /\ over \subseteq over' /\ lost \subseteq lost'
      BY <3>1, FailedStart DEF Fails, run_vars, boot_vars, Running
    <3> QED  BY <3>2, <3>3, BooksUntouched
  <2>2. CASE ~ Busy(s)
    <3>1. PICK r \in Starts : /\ r.plan = s.plan /\ r.stage = "making"
                              /\ starts' = (starts \ {s}) \cup {r}
      BY <1>6, <2>2, MovedStart DEF Begin
    <3>2. /\ UNCHANGED <<records, todo, begun, over, lost>> /\ Running' = Running
          /\ \A q : BuildOf(q)' = BuildOf(q)
      BY <1>6, <2>2 DEF Begin, run_vars, boot_vars, told_vars, Running, BuildOf, QueueStart
    <3>3. \A q \in starts : q.plan = s.plan => ~ Begun(q)
      BY <2>2 DEF Busy
    <3>4. \A p, q \in starts' : p.plan = q.plan /\ Begun(p) /\ Begun(q) => p = q
      BY <3>1, <3>3 DEF Booking
    <3>5. \A q \in starts' : q.stage \in {"saved", "sent"} => q \in starts
      BY <3>1
    <3> HIDE DEF Running
    <3> QED  BY <3>2, <3>4, <3>5 DEF Booking, Begun
  <2> QED  BY <2>1, <2>2
<1>7. ASSUME NEW s \in starts, Refuse(s) PROVE Booking'
  <2>1. Fails(s)
    BY <1>7 DEF Refuse
  <2>2. \A r \in starts' : r \in starts \/ ~ Begun(r)
    BY <2>1, FailedStart DEF Begun
  <2>3. /\ UNCHANGED <<records, todo, begun>> /\ Running' = Running
        /\ over \subseteq over' /\ lost \subseteq lost'
    BY <2>1, FailedStart DEF Fails, run_vars, boot_vars, Running
  <2> QED  BY <2>2, <2>3, BooksUntouched
<1>8. ASSUME NEW s \in starts, Hiccup(s) PROVE Booking'
  <2>1. /\ UNCHANGED <<records, todo, begun>> /\ Running' = Running
        /\ over \subseteq over' /\ lost \subseteq lost'
        /\ \A r \in starts' : r \in starts \/ ~ Begun(r)
    BY <1>8 DEF Hiccup, Failure, line_vars, run_vars, boot_vars, told_vars, Running
  <2> QED  BY <2>1, BooksUntouched
<1>9. ASSUME NEW s \in starts, Save(s) PROVE Booking'
  <2> DEFINE b == [BuildOf(s) EXCEPT !.no = @ + 1]
  <2>1. PICK r \in Starts : /\ r.plan = s.plan /\ r.by = s.by /\ r.stage = "saved"
                            /\ starts' = (starts \ {s}) \cup {r}
    BY <1>9, MovedStart DEF Save
  <2>2. /\ UNCHANGED <<todo, over, lost>> /\ Running' = Running /\ s.stage = "making"
        /\ records' = records \cup {b} /\ begun' = [begun EXCEPT ![s.plan] = @ + 1]
    BY <1>9 DEF Save, boot_vars, Running
  <2>3. b \in Builds /\ b.plan = s.plan /\ b.no = begun[s.plan] + 1
    BY NewBuild
  <2>4. /\ begun \in [Plans -> Nat] /\ records \cup Running \subseteq Builds /\ s.plan \in Plans
    BY BuildOfStart DEF TypeOK, Running
  <2>5. BuildOf(r)' = b
    <3>1. begun'[s.plan] = begun[s.plan] + 1
      BY <2>2, <2>4
    <3>2. BuildOf(r)' = [plan |-> s.plan, queued |-> QueueStart(s), no |-> begun[s.plan] + 1]
      BY <2>1, <3>1 DEF BuildOf, QueueStart
    <3>3. b = [plan |-> s.plan, queued |-> QueueStart(s), no |-> begun[s.plan] + 1]
      BY DEF BuildOf
    <3> QED  BY <3>2, <3>3
  <2> HIDE DEF b, Running
  <2>6. \A c \in records' \cup Running : c.no <= begun'[c.plan]
    <3> SUFFICES ASSUME NEW c \in records' \cup Running PROVE c.no <= begun'[c.plan]
      OBVIOUS
    <3>1. CASE c = b
      BY <2>2, <2>3, <2>4, <3>1
    <3>2. CASE c \in records \cup Running
      <4>1. c.plan \in Plans /\ c.no \in Nat /\ c.no <= begun[c.plan]
        BY <2>4, <3>2 DEF Builds, Booking
      <4>2. begun[c.plan] <= begun'[c.plan] /\ begun[c.plan] \in Nat /\ begun'[c.plan] \in Nat
        BY <2>2, <2>4, <4>1
      <4> QED  BY <4>1, <4>2
    <3> QED  BY <2>2, <3>1, <3>2
  <2>7. b \notin records \cup Running
    BY <2>3, <2>4 DEF Booking
  <2>8. b \notin Running /\ b \notin todo
    BY <2>7 DEF Booking
  <2>9. \A q \in starts' : q # r => q \in starts /\ (Begun(q) => q.plan # s.plan)
    BY <2>1, <2>2 DEF Booking, Begun
  <2>10. \A q \in starts : q.plan # s.plan => BuildOf(q)' = BuildOf(q)
    BY <2>2, <2>4 DEF BuildOf, QueueStart, TypeOK, Starts
  <2>11. \A p, q \in starts' : p.plan = q.plan /\ Begun(p) /\ Begun(q) => p = q
    BY <2>1, <2>9 DEF Booking
  <2>12. \A q \in starts' : q.stage = "saved" =>
            BuildOf(q)' \in records' /\ BuildOf(q)' \notin Running \cup todo
    BY <2>2, <2>5, <2>8, <2>9, <2>10 DEF Booking, Begun
  <2>13. \A q \in starts' : q.stage = "sent" =>
            q.plan \in over' \cup lost' \/ \E c \in records' \cup Running : c.plan = q.plan
    BY <2>1, <2>2, <2>9 DEF Booking
  <2>14. todo' \subseteq records' /\ todo' \cap Running' = {}
    BY <2>2 DEF Booking
  <2> QED  BY <2>2, <2>6, <2>11, <2>12, <2>13, <2>14 DEF Booking, Begun
<1>10. ASSUME NEW s \in starts, Launch(s) PROVE Booking'
  <2>1. PICK r \in Starts : /\ r.plan = s.plan /\ r.by = s.by /\ r.stage = "sent"
                            /\ starts' = (starts \ {s}) \cup {r}
    BY <1>10, MovedStart DEF Launch
  <2>2. /\ UNCHANGED <<records, todo, over, lost, begun>>
        /\ Running' = Running \cup {BuildOf(s)}
        /\ s.stage = "saved" /\ \A q : BuildOf(q)' = BuildOf(q)
    BY <1>10 DEF Launch, boot_vars, told_vars, Running, BuildOf, QueueStart
  <2>3. BuildOf(s) \in records /\ BuildOf(s) \notin todo /\ BuildOf(s).plan = s.plan
    BY <2>2, BuildOfStart DEF Booking
  <2>4. \A q \in starts' : q # r => q \in starts /\ (Begun(q) => q.plan # s.plan)
    BY <2>1, <2>2 DEF Booking, Begun
  <2>5. \A p, q \in starts' : p.plan = q.plan /\ Begun(p) /\ Begun(q) => p = q
    BY <2>1, <2>4 DEF Booking
  <2>6. \A q \in starts' : q.stage = "saved" =>
            BuildOf(q) \in records /\ BuildOf(q) \notin Running' \cup todo
    <3> SUFFICES ASSUME NEW q \in starts', q.stage = "saved"
                 PROVE  BuildOf(q) \in records /\ BuildOf(q) \notin Running' \cup todo
      OBVIOUS
    <3>1. q \in starts /\ q.plan # s.plan
      BY <2>1, <2>4 DEF Begun
    <3>2. BuildOf(q).plan # BuildOf(s).plan
      BY <3>1, BuildOfStart
    <3> QED  BY <2>2, <3>1, <3>2 DEF Booking
  <2>7. \A q \in starts' : q.stage = "sent" =>
            q.plan \in over \cup lost \/ \E c \in records \cup Running : c.plan = q.plan
    BY <2>1, <2>3, <2>4 DEF Booking
  <2> HIDE DEF Running
  <2> QED  BY <2>2, <2>3, <2>5, <2>6, <2>7 DEF Booking, Begun
<1>11. ASSUME NEW s \in starts, Return(s) PROVE Booking'
  <2>1. /\ UNCHANGED <<records, todo, begun>> /\ Running' = Running
        /\ over \subseteq over' /\ lost \subseteq lost'
        /\ \A r \in starts' : r \in starts \/ ~ Begun(r)
    BY <1>11 DEF Return, line_vars, run_vars, boot_vars, told_vars, Running
  <2> QED  BY <2>1, BooksUntouched
<1>12. ASSUME NEW s \in starts, Tell(s) PROVE Booking'
  <2>1. /\ UNCHANGED <<records, todo, begun>> /\ Running' = Running
        /\ over \subseteq over' /\ lost \subseteq lost'
        /\ \A r \in starts' : r \in starts \/ ~ Begun(r)
    BY <1>12 DEF Tell, line_vars, run_vars, boot_vars, told_vars, Running
  <2> QED  BY <2>1, BooksUntouched
<1>13. ASSUME Drop PROVE Booking'
  <2>1. /\ UNCHANGED <<records, todo, begun>> /\ Running' = Running
        /\ over \subseteq over' /\ lost \subseteq lost'
        /\ \A r \in starts' : r \in starts \/ ~ Begun(r)
    BY <1>13 DEF Drop, Failure, line_vars, run_vars, boot_vars, told_vars, Running
  <2> QED  BY <2>1, BooksUntouched
<1>14. ASSUME NEW b \in Running, Waits(b) \/ Finishes(b) \/ KeepFails(b) PROVE Booking'
  <2>1. /\ UNCHANGED <<records, todo, begun>> /\ Running' = Running
        /\ over \subseteq over' /\ lost \subseteq lost'
        /\ \A r \in starts' : r \in starts \/ ~ Begun(r)
    BY <1>14 DEF Waits, Finishes, KeepFails, QueueWaiting, Calls, Failure, line_vars, run_vars,
       boot_vars, told_vars, Running
  <2> QED  BY <2>1, BooksUntouched
<1>15. ASSUME NEW b \in Running, Answer(b) \/ Keeps(b) \/ Close(b) PROVE Booking'
  <2>1. /\ UNCHANGED <<records, todo, begun>> /\ Running' = Running
        /\ over \subseteq over' /\ lost \subseteq lost'
        /\ \A r \in starts' : r \in starts \/ ~ Begun(r)
    BY <1>15 DEF Answer, Keeps, Close, line_vars, run_vars, boot_vars, told_vars, Running
  <2> QED  BY <2>1, BooksUntouched
<1>16. ASSUME NEW b \in Running, Wakes(b) PROVE Booking'
  <2>1. /\ UNCHANGED <<records, todo, begun>> /\ Running' = Running
        /\ over \subseteq over' /\ lost \subseteq lost'
        /\ \A r \in starts' : r \in starts \/ ~ Begun(r)
    BY <1>16 DEF Wakes, line_vars, run_vars, boot_vars, told_vars, Running
  <2> QED  BY <2>1, BooksUntouched
<1>17. ASSUME NEW b \in Running, Ends(b) \/ Gone(b) PROVE Booking'
  <2>1. /\ UNCHANGED <<starts, lost, todo, begun>> /\ Running' = Running \ {b}
        /\ records' = records \ {b} \/ (records' = records /\ b \notin records)
        /\ over' = over \cup {b.plan} /\ \A q : BuildOf(q)' = BuildOf(q)
    BY <1>17 DEF Ends, Gone, Popped, Running, BuildOf, QueueStart
  <2>2. \A q \in starts : q.stage = "saved" => BuildOf(q) # b
    BY DEF Booking
  <2>3. b \notin todo
    BY DEF Booking
  <2> HIDE DEF Running
  <2> QED  BY <2>1, <2>2, <2>3 DEF Booking
<1>18. ASSUME NEW b \in Running, Forgets(b) PROVE Booking'
  <2>1. /\ UNCHANGED <<starts, over, lost, todo, begun>> /\ Running' = Running
        /\ records' = records \ {b} /\ \A q : BuildOf(q)' = BuildOf(q)
    BY <1>18 DEF Forgets, boot_vars, told_vars, Running, BuildOf, QueueStart
  <2>2. \A q \in starts : q.stage = "saved" => BuildOf(q) # b
    BY DEF Booking
  <2>3. b \notin todo
    BY DEF Booking
  <2> HIDE DEF Running
  <2> QED  BY <2>1, <2>2, <2>3 DEF Booking
<1>19. ASSUME Crash PROVE Booking'
  <2>1. UNCHANGED <<records, begun>> /\ Running' = {} /\ todo' = {} /\ starts' = {}
    BY <1>19 DEF Crash, Running
  <2> HIDE DEF Running
  <2> QED  BY <2>1 DEF Booking
<1>20. ASSUME Restart PROVE Booking'
  <2>1. UNCHANGED <<records, begun>> /\ Running' = {} /\ todo' = records /\ starts' = {}
    BY <1>20 DEF Restart, told_vars, run_vars, Running, Down
  <2> HIDE DEF Running
  <2> QED  BY <2>1 DEF Booking
<1>21. ASSUME NEW b \in todo, Resume(b) PROVE Booking'
  <2>1. /\ UNCHANGED <<starts, begun>> /\ todo' = todo \ {b} /\ \A q : BuildOf(q)' = BuildOf(q)
    BY <1>21 DEF Resume, BuildOf, QueueStart
  <2>2. \A q \in starts : q.stage = "saved" => BuildOf(q) # b
    BY DEF Booking
  <2>3. \/ Running' = Running \cup {b} /\ UNCHANGED <<records, over, lost>>
        \/ /\ Running' = Running /\ b \notin Running /\ records' = records \ {b}
           /\ over' \cup lost' = over \cup lost \cup {b.plan}
    BY <1>21 DEF Resume, Running
  <2> HIDE DEF Running
  <2>4. CASE Running' = Running \cup {b} /\ UNCHANGED <<records, over, lost>>
    BY <2>1, <2>2, <2>4 DEF Booking
  <2>5. CASE /\ Running' = Running /\ b \notin Running /\ records' = records \ {b}
             /\ over' \cup lost' = over \cup lost \cup {b.plan}
    BY <2>1, <2>2, <2>5 DEF Booking
  <2> QED  BY <2>3, <2>4, <2>5
<1>22. ASSUME Resumed \/ Stops PROVE Booking'
  <2>1. /\ UNCHANGED <<records, starts, begun, over, lost>> /\ Running' = Running
        /\ todo' \subseteq todo /\ \A q : BuildOf(q)' = BuildOf(q)
    BY <1>22 DEF Resumed, Stops, run_vars, told_vars, Running, BuildOf, QueueStart
  <2> HIDE DEF Running
  <2> QED  BY <2>1 DEF Booking
<1>23. CASE UNCHANGED vars
  <2>1. /\ UNCHANGED <<records, todo, begun>> /\ Running' = Running
        /\ over \subseteq over' /\ lost \subseteq lost'
        /\ \A r \in starts' : r \in starts \/ ~ Begun(r)
    BY <1>23 DEF vars, line_vars, run_vars, boot_vars, told_vars, Running
  <2> QED  BY <2>1, BooksUntouched
<1> QED
  BY <1>1, <1>2, <1>3, <1>4, <1>5, <1>6, <1>7, <1>8, <1>9, <1>10, <1>11, <1>12, <1>13, <1>14,
     <1>15, <1>16, <1>17, <1>18, <1>19, <1>20, <1>21, <1>22, <1>23 DEF Next, Starting, Person,
     Fault, Recover, Building

\* The checkbox plans of a project stay apart where nothing new is begun or brought up.
LEMMA ChecksUntouched ==
    ASSUME Checks, CheckboxAlone,
           \A b \in Running' : b \in Running /\ (b \in resumed => b \in resumed'),
           \A s \in starts' : s \in starts \/ ~ Begun(s)
    PROVE  Checks' /\ CheckboxAlone'
<1> HIDE DEF Running
<1>1. \A b, c \in Running' :
        b # c /\ Rivals(b, c) => {b, c} \cap resumed' # {}
  <2> SUFFICES ASSUME NEW b \in Running', NEW c \in Running', b # c, Rivals(b, c)
               PROVE  {b, c} \cap resumed' # {}
    OBVIOUS
  <2>1. b \in Running /\ c \in Running
    OBVIOUS
  <2>2. {b, c} \cap resumed # {}
    BY <2>1 DEF CheckboxAlone, Rivals
  <2> QED  BY <2>2
<1>2. \A r, s \in starts' :
        Rivals(r, s) /\ Begun(r) /\ Begun(s) => r = s
  BY DEF Checks
<1>3. \A s \in starts', b \in Running' :
        Rivals(s, b) /\ s.stage \in {"making", "saved"} => b \in resumed'
  BY DEF Checks, Begun
<1> QED  BY <1>1, <1>2, <1>3 DEF Checks, CheckboxAlone, Begun, Rivals

LEMMA ChecksKept ==
    ASSUME TypeOK, Down, Checks, CheckboxAlone, [Next]_vars PROVE (Checks /\ CheckboxAlone)'
<1>1. ASSUME NEW p \in Plans, Enqueue(p) PROVE (Checks /\ CheckboxAlone)'
  <2>1. /\ \A c \in Running' : c \in Running /\ (c \in resumed => c \in resumed')
        /\ \A r \in starts' : r \in starts \/ ~ Begun(r)
    BY <1>1 DEF Enqueue, line_vars, run_vars, boot_vars, told_vars, Running
  <2> QED  BY <2>1, ChecksUntouched
<1>2. ASSUME Advance PROVE (Checks /\ CheckboxAlone)'
  <2>1. /\ \A c \in Running' : c \in Running /\ (c \in resumed => c \in resumed')
        /\ \A r \in starts' : r \in starts \/ ~ Begun(r)
    BY <1>2 DEF Advance, line_vars, run_vars, boot_vars, told_vars, Running
  <2> QED  BY <2>1, ChecksUntouched
<1>3. ASSUME Look PROVE (Checks /\ CheckboxAlone)'
  <2>1. \A c \in Running' : c \in Running /\ (c \in resumed => c \in resumed')
    BY <1>3 DEF Look, run_vars, boot_vars, Running
  <2>2. \/ starts' = starts
        \/ starts' = starts \cup {[plan |-> Head(scan), by |-> "queue", stage |-> "arriving"]}
    BY <1>3 DEF Look
  <2>3. \A r \in starts' : r \in starts \/ ~ Begun(r)
    BY <2>2 DEF Begun
  <2> QED  BY <2>1, <2>3, ChecksUntouched
<1>4. ASSUME NEW p \in Plans, NEW by \in {"asking", "command"}, Arrive(p, by)
      PROVE  (Checks /\ CheckboxAlone)'
  <2>1. /\ \A c \in Running' : c \in Running /\ (c \in resumed => c \in resumed')
        /\ \A r \in starts' : r \in starts \/ ~ Begun(r)
    BY <1>4 DEF Arrive, line_vars, run_vars, boot_vars, told_vars, Running, Begun
  <2> QED  BY <2>1, ChecksUntouched
<1>5. ASSUME NEW s \in starts, Switch(s) PROVE (Checks /\ CheckboxAlone)'
  <2>1. /\ \A c \in Running' : c \in Running /\ (c \in resumed => c \in resumed')
        /\ \A r \in starts' : r \in starts \/ ~ Begun(r)
    BY <1>5 DEF Switch, line_vars, run_vars, boot_vars, told_vars, Running
  <2> QED  BY <2>1, ChecksUntouched
<1>6. ASSUME NEW s \in starts, Begin(s) PROVE (Checks /\ CheckboxAlone)'
  <2>1. CASE Busy(s)
    <3>1. Fails(s)
      BY <1>6, <2>1 DEF Begin
    <3>2. \A r \in starts' : r \in starts \/ ~ Begun(r)
      BY <3>1, FailedStart DEF Begun
    <3>3. \A c \in Running' : c \in Running /\ (c \in resumed => c \in resumed')
      BY <3>1 DEF Fails, run_vars, boot_vars, Running
    <3> QED  BY <3>2, <3>3, ChecksUntouched
  <2>2. CASE ~ Busy(s)
    <3>1. PICK r \in Starts : /\ r.plan = s.plan /\ r.stage = "making"
                              /\ starts' = (starts \ {s}) \cup {r}
      BY <1>6, <2>2, MovedStart DEF Begin
    <3>2. Running' = Running /\ UNCHANGED <<records, resumed>>
      BY <1>6, <2>2 DEF Begin, run_vars, boot_vars, Running
    <3>3. s.plan \in Checkbox =>
            /\ ~ \E b \in Running : SameProject(b.plan, s.plan)
            /\ ~ \E q \in starts : SameProject(q.plan, s.plan) /\ Begun(q)
      BY <2>2 DEF Busy
    <3> HIDE DEF Running
    <3>4. \A q, t \in starts' :
            Rivals(q, t) /\ Begun(q) /\ Begun(t) => q = t
      BY <3>1, <3>3 DEF Checks, Begun, SameProject, Rivals
    <3>5. \A q \in starts', b \in Running :
            Rivals(q, b) /\ q.stage \in {"making", "saved"} => b \in resumed
      BY <3>1, <3>3 DEF Checks, SameProject, Rivals
    <3> QED  BY <3>2, <3>4, <3>5 DEF Checks, CheckboxAlone, Begun
  <2> QED  BY <2>1, <2>2
<1>7. ASSUME NEW s \in starts, Refuse(s) PROVE (Checks /\ CheckboxAlone)'
  <2>1. Fails(s)
    BY <1>7 DEF Refuse
  <2>2. \A r \in starts' : r \in starts \/ ~ Begun(r)
    BY <2>1, FailedStart DEF Begun
  <2>3. \A c \in Running' : c \in Running /\ (c \in resumed => c \in resumed')
    BY <2>1 DEF Fails, run_vars, boot_vars, Running
  <2> QED  BY <2>2, <2>3, ChecksUntouched
<1>8. ASSUME NEW s \in starts, Hiccup(s) PROVE (Checks /\ CheckboxAlone)'
  <2>1. /\ \A c \in Running' : c \in Running /\ (c \in resumed => c \in resumed')
        /\ \A r \in starts' : r \in starts \/ ~ Begun(r)
    BY <1>8 DEF Hiccup, Failure, line_vars, run_vars, boot_vars, told_vars, Running
  <2> QED  BY <2>1, ChecksUntouched
<1>9. ASSUME NEW s \in starts, Save(s) PROVE (Checks /\ CheckboxAlone)'
  <2>1. PICK r \in Starts : /\ r.plan = s.plan /\ r.stage = "saved"
                            /\ starts' = (starts \ {s}) \cup {r}
    BY <1>9, MovedStart DEF Save
  <2>2. Running' = Running /\ UNCHANGED resumed /\ s.stage = "making"
    BY <1>9 DEF Save, boot_vars, Running
  <2> HIDE DEF Running
  <2>3. \A q, t \in starts' :
          Rivals(q, t) /\ Begun(q) /\ Begun(t) => q = t
    BY <2>1, <2>2 DEF Checks, Begun, Rivals
  <2> QED  BY <2>1, <2>2, <2>3 DEF Checks, CheckboxAlone, Begun, Rivals
<1>10. ASSUME NEW s \in starts, Launch(s) PROVE (Checks /\ CheckboxAlone)'
  <2>1. PICK r \in Starts : /\ r.plan = s.plan /\ r.stage = "sent"
                            /\ starts' = (starts \ {s}) \cup {r}
    BY <1>10, MovedStart DEF Launch
  <2>2. /\ Running' = Running \cup {BuildOf(s)} /\ UNCHANGED resumed
        /\ s.stage = "saved" /\ BuildOf(s).plan = s.plan
    BY <1>10, BuildOfStart DEF Launch, boot_vars, Running
  <2> HIDE DEF Running
  <2>3. \A q, t \in starts' :
          Rivals(q, t) /\ Begun(q) /\ Begun(t) => q = t
    BY <2>1, <2>2 DEF Checks, Begun, Rivals
  <2>4. \A q \in starts', b \in Running' :
          Rivals(q, b) /\ q.stage \in {"making", "saved"} => b \in resumed
    <3> SUFFICES ASSUME NEW q \in starts', NEW b \in Running', q.stage \in {"making", "saved"},
                        Rivals(q, b)
                 PROVE  b \in resumed
      OBVIOUS
    <3>1. q \in starts /\ q # s
      BY <2>1
    <3>2. CASE b \in Running
      BY <3>1, <3>2 DEF Checks
    <3>3. CASE b = BuildOf(s)
      BY <2>2, <3>1, <3>3 DEF Checks, Begun, Rivals
    <3> QED  BY <2>2, <3>2, <3>3
  <2>5. \A b \in Running : Rivals(s, b) => b \in resumed
    BY <2>2 DEF Checks
  <2>6. CheckboxAlone'
    BY <2>2, <2>5 DEF CheckboxAlone, SameProject, Rivals
  <2> QED  BY <2>2, <2>3, <2>4, <2>6 DEF Checks, Begun
<1>11. ASSUME NEW s \in starts, Return(s) PROVE (Checks /\ CheckboxAlone)'
  <2>1. /\ \A c \in Running' : c \in Running /\ (c \in resumed => c \in resumed')
        /\ \A r \in starts' : r \in starts \/ ~ Begun(r)
    BY <1>11 DEF Return, line_vars, run_vars, boot_vars, told_vars, Running
  <2> QED  BY <2>1, ChecksUntouched
<1>12. ASSUME NEW s \in starts, Tell(s) PROVE (Checks /\ CheckboxAlone)'
  <2>1. /\ \A c \in Running' : c \in Running /\ (c \in resumed => c \in resumed')
        /\ \A r \in starts' : r \in starts \/ ~ Begun(r)
    BY <1>12 DEF Tell, line_vars, run_vars, boot_vars, told_vars, Running
  <2> QED  BY <2>1, ChecksUntouched
<1>13. ASSUME Drop PROVE (Checks /\ CheckboxAlone)'
  <2>1. /\ \A c \in Running' : c \in Running /\ (c \in resumed => c \in resumed')
        /\ \A r \in starts' : r \in starts \/ ~ Begun(r)
    BY <1>13 DEF Drop, Failure, line_vars, run_vars, boot_vars, told_vars, Running
  <2> QED  BY <2>1, ChecksUntouched
<1>14. ASSUME NEW b \in Running, Waits(b) \/ Finishes(b) \/ KeepFails(b)
      PROVE  (Checks /\ CheckboxAlone)'
  <2>1. /\ \A c \in Running' : c \in Running /\ (c \in resumed => c \in resumed')
        /\ \A r \in starts' : r \in starts \/ ~ Begun(r)
    BY <1>14 DEF Waits, Finishes, KeepFails, QueueWaiting, Calls, Failure, line_vars, run_vars,
       boot_vars, told_vars, Running
  <2> QED  BY <2>1, ChecksUntouched
<1>15. ASSUME NEW b \in Running, Answer(b) \/ Keeps(b) \/ Close(b)
      PROVE  (Checks /\ CheckboxAlone)'
  <2>1. /\ \A c \in Running' : c \in Running /\ (c \in resumed => c \in resumed')
        /\ \A r \in starts' : r \in starts \/ ~ Begun(r)
    BY <1>15 DEF Answer, Keeps, Close, line_vars, run_vars, boot_vars, told_vars, Running
  <2> QED  BY <2>1, ChecksUntouched
<1>16. ASSUME NEW b \in Running, Wakes(b) PROVE (Checks /\ CheckboxAlone)'
  <2>1. /\ \A c \in Running' : c \in Running /\ (c \in resumed => c \in resumed')
        /\ \A r \in starts' : r \in starts \/ ~ Begun(r)
    BY <1>16 DEF Wakes, line_vars, run_vars, boot_vars, told_vars, Running
  <2> QED  BY <2>1, ChecksUntouched
<1>17. ASSUME NEW b \in Running, Ends(b) \/ Gone(b) PROVE (Checks /\ CheckboxAlone)'
  <2>1. /\ \A c \in Running' : c \in Running /\ (c \in resumed => c \in resumed')
        /\ \A r \in starts' : r \in starts \/ ~ Begun(r)
    BY <1>17 DEF Ends, Gone, Popped, Calls, line_vars, run_vars, boot_vars, told_vars, Running
  <2> QED  BY <2>1, ChecksUntouched
<1>18. ASSUME NEW b \in Running, Forgets(b) PROVE (Checks /\ CheckboxAlone)'
  <2>1. /\ \A c \in Running' : c \in Running /\ (c \in resumed => c \in resumed')
        /\ \A r \in starts' : r \in starts \/ ~ Begun(r)
    BY <1>18 DEF Forgets, Failure, line_vars, run_vars, boot_vars, told_vars, Running
  <2> QED  BY <2>1, ChecksUntouched
<1>19. ASSUME Crash PROVE (Checks /\ CheckboxAlone)'
  <2>1. /\ \A c \in Running' : c \in Running /\ (c \in resumed => c \in resumed')
        /\ \A r \in starts' : r \in starts \/ ~ Begun(r)
    BY <1>19 DEF Crash, line_vars, run_vars, boot_vars, told_vars, Running
  <2> QED  BY <2>1, ChecksUntouched
<1>20. ASSUME Restart PROVE (Checks /\ CheckboxAlone)'
  <2>1. /\ \A c \in Running' : c \in Running /\ (c \in resumed => c \in resumed')
        /\ \A r \in starts' : r \in starts \/ ~ Begun(r)
    BY <1>20 DEF Restart, line_vars, run_vars, boot_vars, told_vars, Running, Down
  <2> QED  BY <2>1, ChecksUntouched
<1>21. ASSUME NEW b \in todo, Resume(b) PROVE (Checks /\ CheckboxAlone)'
  <2>1. starts' = starts /\ resumed \subseteq resumed'
        /\ \A c \in Running' : c \in Running \/ c \in resumed'
    BY <1>21 DEF Resume, Running
  <2> HIDE DEF Running
  <2>2. Checks'
    BY <2>1 DEF Checks, Begun, Rivals
  <2>3. CheckboxAlone'
    BY <2>1 DEF CheckboxAlone
  <2> QED  BY <2>2, <2>3
<1>22. ASSUME Resumed \/ Stops PROVE (Checks /\ CheckboxAlone)'
  <2>1. /\ \A c \in Running' : c \in Running /\ (c \in resumed => c \in resumed')
        /\ \A r \in starts' : r \in starts \/ ~ Begun(r)
    BY <1>22 DEF Resumed, Stops, line_vars, run_vars, boot_vars, told_vars, Running
  <2> QED  BY <2>1, ChecksUntouched
<1>23. CASE UNCHANGED vars
  <2>1. /\ \A c \in Running' : c \in Running /\ (c \in resumed => c \in resumed')
        /\ \A r \in starts' : r \in starts \/ ~ Begun(r)
    BY <1>23 DEF vars, line_vars, run_vars, boot_vars, told_vars, Running
  <2> QED  BY <2>1, ChecksUntouched
<1> QED
  BY <1>1, <1>2, <1>3, <1>4, <1>5, <1>6, <1>7, <1>8, <1>9, <1>10, <1>11, <1>12, <1>13, <1>14,
     <1>15, <1>16, <1>17, <1>18, <1>19, <1>20, <1>21, <1>22, <1>23 DEF Next, Starting, Person,
     Fault, Recover, Building

\* One at a time: two builds that count are the same.
LEMMA AloneCounts == OneAtATime <=> \A b, c : Counts(b) /\ Counts(c) => b = c
BY DEF OneAtATime, Counts

\* What waits, or is being kept, does not count.
LEMMA WaitingCountsNot ==
    ASSUME TypeOK, Marked, NEW b, Counts(b)
    PROVE  b \in working /\ b \notin waiting
BY DEF Counts, Marked, TypeOK

\* The line keeps its order where no build of it goes to work and no new start holds the lock.
LEMMA SerialUntouched ==
    ASSUME Serial, OneAtATime, UNCHANGED <<locked, begun>>,
           \A b : Counts(b)' => Counts(b),
           \A s \in starts' : s \in starts \/ ~ QueueStart(s),
           \A s \in starts : QueueStart(s) /\ s.stage = "sent" => s \in starts'
    PROVE  Serial' /\ OneAtATime'
<1>1. \A s : BuildOf(s)' = BuildOf(s) /\ QueueStart(s)' = QueueStart(s)
  BY DEF BuildOf, QueueStart
<1>2. (\A b, c : Counts(b)' /\ Counts(c)' => b = c) => OneAtATime'
  BY DEF OneAtATime, Counts
<1> HIDE DEF BuildOf, QueueStart, Counts
<1>3. \A s \in starts' : QueueStart(s) => locked'
  BY DEF Serial
<1>4. \A r, s \in starts' : QueueStart(r) /\ QueueStart(s) => r = s
  BY DEF Serial
<1>5. \A b : Counts(b)' /\ locked' =>
          \E s \in starts' : QueueStart(s) /\ s.stage = "sent" /\ b = BuildOf(s)
  BY DEF Serial
<1>6. OneAtATime'
  BY <1>2, AloneCounts
<1> QED  BY <1>1, <1>3, <1>4, <1>5, <1>6 DEF Serial

\* A start that goes on, short of its launch, changes nothing of the order.
LEMMA SerialMoved ==
    ASSUME Serial, OneAtATime, NEW s \in starts, NEW r, s.stage # "sent",
           QueueStart(r) = QueueStart(s), starts' = (starts \ {s}) \cup {r},
           UNCHANGED <<working, keeping, resumed, waited, begun, locked>>
    PROVE  Serial' /\ OneAtATime'
<1>1. \A q : BuildOf(q)' = BuildOf(q) /\ QueueStart(q)' = QueueStart(q)
  BY DEF BuildOf, QueueStart
<1>2. \A b : Counts(b)' = Counts(b)
  BY DEF Counts
<1>3. \A p, q \in starts' : QueueStart(p) /\ QueueStart(q) => p = q
  BY DEF Serial
<1>4. \A q \in starts' : QueueStart(q) => locked'
  BY DEF Serial
<1>6. OneAtATime'
  BY DEF OneAtATime
<1> HIDE DEF BuildOf, QueueStart, Counts
<1>5. \A b : Counts(b)' /\ locked' =>
          \E q \in starts' : QueueStart(q) /\ q.stage = "sent" /\ b = BuildOf(q)
  BY <1>2 DEF Serial
<1> QED  BY <1>1, <1>3, <1>4, <1>5, <1>6 DEF Serial

\* The holder of the lock is done with.
LEMMA SerialUnlocked ==
    ASSUME Serial, OneAtATime, NEW s \in starts, QueueStart(s), starts' = starts \ {s},
           locked' = FALSE, UNCHANGED <<working, keeping, resumed, waited>>
    PROVE  Serial' /\ OneAtATime'
<1>1. \A q \in starts' : ~ QueueStart(q)
  BY DEF Serial
<1>2. \A q : QueueStart(q)' = QueueStart(q)
  BY DEF QueueStart
<1> QED  BY <1>1, <1>2 DEF Serial, OneAtATime

LEMMA SerialKept ==
    ASSUME TypeOK, Down, Booking, Marked, Serial, OneAtATime, [Next]_vars
    PROVE  (Serial /\ OneAtATime)'
<1>1. ASSUME NEW p \in Plans, Enqueue(p) PROVE (Serial /\ OneAtATime)'
  <2>1. /\ UNCHANGED <<locked, begun>>
        /\ \A r \in starts' : r \in starts \/ ~ QueueStart(r)
        /\ \A r \in starts : QueueStart(r) /\ r.stage = "sent" => r \in starts'
    BY <1>1 DEF Enqueue, line_vars, run_vars, boot_vars, told_vars, QueueStart
  <2>2. \A c : Counts(c)' => Counts(c)
    BY <1>1 DEF Enqueue, run_vars, boot_vars, Counts
  <2> QED  BY <2>1, <2>2, SerialUntouched
<1>2. ASSUME Advance PROVE (Serial /\ OneAtATime)'
  <2>1. UNCHANGED <<starts, working, keeping, resumed, waited, begun>>
    BY <1>2 DEF Advance, run_vars, boot_vars, told_vars
  <2>2. \A c : Counts(c)' = Counts(c)
    BY <2>1 DEF Counts
  <2>3. CASE UNCHANGED locked
    BY <2>1, <2>2, <2>3, SerialUntouched
  <2>4. CASE locked' = TRUE /\ ~ \E b \in working : b.queued
    <3>1. \A c : ~ Counts(c)'
      BY <2>2, <2>4, WaitingCountsNot DEF Counts
    <3>2. OneAtATime'
      BY <2>1 DEF OneAtATime
    <3>3. \A q : QueueStart(q)' = QueueStart(q)
      BY DEF QueueStart
    <3> HIDE DEF QueueStart, Counts
    <3> QED  BY <2>1, <2>4, <3>1, <3>2, <3>3 DEF Serial
  <2> QED  BY <1>2, <2>3, <2>4 DEF Advance
<1>3. ASSUME Look PROVE (Serial /\ OneAtATime)'
  <2> DEFINE s == [plan |-> Head(scan), by |-> "queue", stage |-> "arriving"]
  <2>1. /\ UNCHANGED <<working, keeping, resumed, waited, begun>> /\ locked
        /\ \A r \in starts : ~ QueueStart(r)
        /\ \A r : QueueStart(r)' = QueueStart(r)
    BY <1>3 DEF Look, run_vars, boot_vars, told_vars, QueueStart
  <2>2. \A b : ~ Counts(b)
    BY <2>1 DEF Serial
  <2>3. \A b : ~ Counts(b)'
    BY <2>1, <2>2 DEF Counts
  <2>4. OneAtATime'
    BY <2>1 DEF OneAtATime
  <2> HIDE DEF Counts
  <2>5. CASE starts' = starts
    BY <2>1, <2>3, <2>4, <2>5 DEF Serial
  <2>6. CASE starts' = starts \cup {s} /\ locked' = locked
    <3>1. \A q, r \in starts' : QueueStart(q) /\ QueueStart(r) => q = r
      BY <2>1, <2>6
    <3>2. locked'
      BY <2>1, <2>6
    <3> QED  BY <2>1, <2>3, <2>4, <3>1, <3>2 DEF Serial
  <2> QED  BY <1>3, <2>5, <2>6 DEF Look
<1>4. ASSUME NEW p \in Plans, NEW by \in {"asking", "command"}, Arrive(p, by)
      PROVE  (Serial /\ OneAtATime)'
  <2>1. /\ UNCHANGED <<locked, begun>>
        /\ \A r \in starts' : r \in starts \/ ~ QueueStart(r)
        /\ \A r \in starts : QueueStart(r) /\ r.stage = "sent" => r \in starts'
    BY <1>4 DEF Arrive, line_vars, run_vars, boot_vars, told_vars, QueueStart
  <2>2. \A c : Counts(c)' => Counts(c)
    BY <1>4 DEF Arrive, run_vars, boot_vars, Counts
  <2> QED  BY <2>1, <2>2, SerialUntouched
<1>5. ASSUME NEW s \in starts, Switch(s) PROVE (Serial /\ OneAtATime)'
  <2>1. /\ UNCHANGED <<locked, begun>>
        /\ \A r \in starts' : r \in starts \/ ~ QueueStart(r)
        /\ \A r \in starts : QueueStart(r) /\ r.stage = "sent" => r \in starts'
    BY <1>5 DEF Switch, line_vars, run_vars, boot_vars, told_vars, QueueStart
  <2>2. \A c : Counts(c)' => Counts(c)
    BY <1>5 DEF Switch, run_vars, boot_vars, Counts
  <2> QED  BY <2>1, <2>2, SerialUntouched
<1>6. ASSUME NEW s \in starts, Begin(s) PROVE (Serial /\ OneAtATime)'
  <2>0. s.stage = "arriving"
    BY <1>6 DEF Begin
  <2>1. CASE Busy(s)
    <3>1. Fails(s)
      BY <1>6, <2>1 DEF Begin
    <3>2. UNCHANGED <<working, keeping, resumed, waited, begun, locked>>
      BY <3>1 DEF Fails, run_vars, boot_vars
    <3>3. CASE QueueStart(s)
      <4>1. PICK r \in Starts : QueueStart(r) = QueueStart(s) /\ starts' = (starts \ {s}) \cup {r}
        BY <3>1, <3>3, FailedStart
      <4> QED  BY <3>2, <4>1, <2>0, SerialMoved
    <3>4. CASE ~ QueueStart(s)
      <4>1. starts' = starts \ {s}
        BY <3>1, <3>4, FailedStart
      <4>2. \A c : Counts(c)' => Counts(c)
        BY <3>2 DEF Counts
      <4> QED  BY <3>2, <3>4, <4>1, <4>2, SerialUntouched
    <3> QED  BY <3>3, <3>4
  <2>2. CASE ~ Busy(s)
    <3>1. PICK r \in Starts : /\ r.plan = s.plan /\ r.stage = "making"
                              /\ QueueStart(r) = QueueStart(s)
                              /\ starts' = (starts \ {s}) \cup {r}
      BY <1>6, <2>2, MovedStart DEF Begin
    <3>2. UNCHANGED <<working, keeping, resumed, waited, begun, locked>>
      BY <1>6, <2>2 DEF Begin, line_vars, run_vars, boot_vars, told_vars
    <3> QED  BY <2>0, <3>1, <3>2, SerialMoved
  <2> QED  BY <2>1, <2>2
<1>7. ASSUME NEW s \in starts, Refuse(s) PROVE (Serial /\ OneAtATime)'
  <2>1. Fails(s) /\ s.stage # "sent"
    BY <1>7 DEF Refuse
  <2>2. UNCHANGED <<working, keeping, resumed, waited, begun, locked>>
    BY <2>1 DEF Fails, run_vars, boot_vars
  <2>3. CASE QueueStart(s)
    <3>1. PICK r \in Starts : QueueStart(r) = QueueStart(s) /\ starts' = (starts \ {s}) \cup {r}
      BY <2>1, <2>3, FailedStart
    <3> QED  BY <2>2, <3>1, <2>1, SerialMoved
  <2>4. CASE ~ QueueStart(s)
    <3>1. starts' = starts \ {s}
      BY <2>1, <2>4, FailedStart
    <3>2. \A c : Counts(c)' => Counts(c)
      BY <2>2 DEF Counts
    <3> QED  BY <2>2, <2>4, <3>1, <3>2, SerialUntouched
  <2> QED  BY <2>3, <2>4
<1>8. ASSUME NEW s \in starts, Hiccup(s) PROVE (Serial /\ OneAtATime)'
  <2>1. /\ UNCHANGED <<working, keeping, resumed, waited, begun>> /\ starts' = starts \ {s}
    BY <1>8 DEF Hiccup, run_vars, boot_vars, told_vars
  <2>2. CASE QueueStart(s)
    <3>1. locked' = FALSE
      BY <1>8, <2>2 DEF Hiccup
    <3> QED  BY <2>1, <2>2, <3>1, SerialUnlocked
  <2>3. CASE ~ QueueStart(s)
    <3>1. locked' = locked
      BY <1>8, <2>3 DEF Hiccup
    <3>2. \A c : Counts(c)' => Counts(c)
      BY <2>1 DEF Counts
    <3> QED  BY <2>1, <2>3, <3>1, <3>2, SerialUntouched
  <2> QED  BY <2>2, <2>3
<1>9. ASSUME NEW s \in starts, Save(s) PROVE (Serial /\ OneAtATime)'
  <2>1. PICK r \in Starts : /\ r.plan = s.plan /\ r.stage = "saved" /\ QueueStart(r) = QueueStart(s)
                            /\ starts' = (starts \ {s}) \cup {r}
    BY <1>9, MovedStart DEF Save
  <2>2. /\ UNCHANGED <<working, keeping, resumed, waited, locked>> /\ s.stage = "making"
        /\ begun' = [begun EXCEPT ![s.plan] = @ + 1]
    BY <1>9 DEF Save, line_vars, boot_vars
  <2>3. \A q \in starts : q.stage = "sent" => q # s /\ q \in starts' /\ BuildOf(q)' = BuildOf(q)
    <3> SUFFICES ASSUME NEW q \in starts, q.stage = "sent"
                 PROVE  q # s /\ q \in starts' /\ BuildOf(q)' = BuildOf(q)
      OBVIOUS
    <3>1. q # s /\ q \in starts'
      BY <2>1, <2>2
    <3>2. q.plan # s.plan
      BY <2>2, <3>1 DEF Booking, Begun
    <3>3. begun'[q.plan] = begun[q.plan]
      BY <2>2, <3>2, BuildOfStart DEF TypeOK
    <3> QED  BY <3>1, <3>3 DEF BuildOf, QueueStart
  <2>4. \A b : Counts(b)' = Counts(b)
    BY <2>2 DEF Counts
  <2>5. \A q : QueueStart(q)' = QueueStart(q)
    BY DEF QueueStart
  <2>6. \A p, q \in starts' : QueueStart(p) /\ QueueStart(q) => p = q
    BY <2>1 DEF Serial
  <2>7. \A q \in starts' : QueueStart(q) => locked'
    BY <2>1, <2>2 DEF Serial
  <2>9. OneAtATime'
    BY <2>2 DEF OneAtATime
  <2> HIDE DEF BuildOf, QueueStart, Counts
  <2>8. \A b : Counts(b)' /\ locked' =>
            \E q \in starts' : QueueStart(q)' /\ q.stage = "sent" /\ b = BuildOf(q)'
    BY <2>2, <2>3, <2>4, <2>5 DEF Serial
  <2> QED  BY <2>5, <2>6, <2>7, <2>8, <2>9 DEF Serial
<1>10. ASSUME NEW s \in starts, Launch(s) PROVE (Serial /\ OneAtATime)'
  <2>1. PICK r \in Starts : /\ r.plan = s.plan /\ r.stage = "sent" /\ QueueStart(r) = QueueStart(s)
                            /\ starts' = (starts \ {s}) \cup {r} /\ BuildOf(r) = BuildOf(s)
    BY <1>10, MovedStart DEF Launch
  <2>2. /\ UNCHANGED <<keeping, resumed, waited, locked, begun>> /\ s.stage = "saved"
        /\ working' = working \cup {BuildOf(s)} /\ BuildOf(s).queued = QueueStart(s)
    BY <1>10, BuildOfStart DEF Launch, line_vars, boot_vars, told_vars
  <2>3. /\ \A b : Counts(b)' => Counts(b) \/ (b = BuildOf(s) /\ QueueStart(s))
        /\ \A q : QueueStart(q)' = QueueStart(q) /\ BuildOf(q)' = BuildOf(q)
    <3>1. \A q : QueueStart(q)' = QueueStart(q) /\ BuildOf(q)' = BuildOf(q)
      BY <2>2 DEF BuildOf, QueueStart
    <3> HIDE DEF BuildOf, QueueStart
    <3>2. \A b : Counts(b)' => Counts(b) \/ (b = BuildOf(s) /\ QueueStart(s))
      BY <2>2 DEF Counts
    <3> QED  BY <3>1, <3>2
  <2>a. (\A b, c : Counts(b)' /\ Counts(c)' => b = c) => OneAtATime'
    BY DEF OneAtATime, Counts
  <2> HIDE DEF Counts
  <2>4. QueueStart(s) => \A b : ~ Counts(b)
    BY <2>2 DEF Serial
  <2>5. \A p, q \in starts' : QueueStart(p) /\ QueueStart(q) => p = q
    BY <2>1 DEF Serial
  <2>6. \A q \in starts' : QueueStart(q) => locked'
    BY <2>1, <2>2 DEF Serial
  <2>7. \A b : Counts(b)' /\ locked' =>
            \E q \in starts' : QueueStart(q) /\ q.stage = "sent" /\ b = BuildOf(q)
    <3> SUFFICES ASSUME NEW b, Counts(b)', locked'
                 PROVE  \E q \in starts' : QueueStart(q) /\ q.stage = "sent" /\ b = BuildOf(q)
      OBVIOUS
    <3>1. CASE b = BuildOf(s) /\ QueueStart(s)
      BY <2>1, <3>1
    <3>2. CASE Counts(b)
      <4>1. PICK q \in starts : QueueStart(q) /\ q.stage = "sent" /\ b = BuildOf(q)
        BY <2>2, <3>2 DEF Serial
      <4> QED  BY <2>1, <2>2, <4>1
    <3> QED  BY <2>3, <3>1, <3>2
  <2>8. OneAtATime'
    BY <2>3, <2>4, <2>a, AloneCounts
  <2> HIDE DEF BuildOf, QueueStart
  <2> QED  BY <2>3, <2>5, <2>6, <2>7, <2>8 DEF Serial
<1>11. ASSUME NEW s \in starts, Return(s) PROVE (Serial /\ OneAtATime)'
  <2>1. /\ UNCHANGED <<working, keeping, resumed, waited, begun>> /\ starts' = starts \ {s}
    BY <1>11 DEF Return, run_vars, boot_vars, told_vars
  <2>2. CASE QueueStart(s)
    <3>1. locked' = FALSE
      BY <1>11, <2>2 DEF Return
    <3> QED  BY <2>1, <2>2, <3>1, SerialUnlocked
  <2>3. CASE ~ QueueStart(s)
    <3>1. locked' = locked
      BY <1>11, <2>3 DEF Return
    <3>2. \A c : Counts(c)' => Counts(c)
      BY <2>1 DEF Counts
    <3> QED  BY <2>1, <2>3, <3>1, <3>2, SerialUntouched
  <2> QED  BY <2>2, <2>3
<1>12. ASSUME NEW s \in starts, Tell(s) PROVE (Serial /\ OneAtATime)'
  <2>1. /\ UNCHANGED <<locked, begun>>
        /\ \A r \in starts' : r \in starts \/ ~ QueueStart(r)
        /\ \A r \in starts : QueueStart(r) /\ r.stage = "sent" => r \in starts'
    BY <1>12 DEF Tell, line_vars, run_vars, boot_vars, told_vars, QueueStart
  <2>2. \A c : Counts(c)' => Counts(c)
    BY <1>12 DEF Tell, run_vars, boot_vars, Counts
  <2> QED  BY <2>1, <2>2, SerialUntouched
<1>13. ASSUME Drop PROVE (Serial /\ OneAtATime)'
  <2>1. /\ UNCHANGED <<locked, begun>>
        /\ \A r \in starts' : r \in starts \/ ~ QueueStart(r)
        /\ \A r \in starts : QueueStart(r) /\ r.stage = "sent" => r \in starts'
    BY <1>13 DEF Drop, Failure, line_vars, run_vars, boot_vars, told_vars, QueueStart
  <2>2. \A c : Counts(c)' => Counts(c)
    BY <1>13 DEF Drop, Failure, run_vars, boot_vars, Counts
  <2> QED  BY <2>1, <2>2, SerialUntouched
<1>14. ASSUME NEW b \in Running, Waits(b) \/ Finishes(b) \/ KeepFails(b)
      PROVE  (Serial /\ OneAtATime)'
  <2>1. UNCHANGED <<locked, begun, starts>>
    BY <1>14 DEF Waits, Finishes, KeepFails, QueueWaiting, Calls, Failure, line_vars, told_vars
  <2>2. \A c : Counts(c)' => Counts(c)
    BY <1>14 DEF Waits, Finishes, KeepFails, QueueWaiting, Calls, Failure, boot_vars, Counts,
       Marked, Running, TypeOK
  <2> QED  BY <2>1, <2>2, SerialUntouched
<1>15. ASSUME NEW b \in Running, Answer(b) \/ Keeps(b) \/ Close(b) PROVE (Serial /\ OneAtATime)'
  <2>1. UNCHANGED <<locked, begun, starts>>
    BY <1>15 DEF Answer, Keeps, Close, line_vars, told_vars
  <2>2. \A c : Counts(c)' => Counts(c)
    BY <1>15 DEF Answer, Keeps, Close, boot_vars, Counts, Marked, Running, TypeOK, Running
  <2> QED  BY <2>1, <2>2, SerialUntouched
<1>16. ASSUME NEW b \in Running, Wakes(b) PROVE (Serial /\ OneAtATime)'
  <2>1. UNCHANGED <<locked, begun, starts>>
    BY <1>16 DEF Wakes, line_vars, told_vars
  <2>2. \A c : Counts(c)' => Counts(c)
    BY <1>16 DEF Wakes, boot_vars, Counts, Marked, Running, TypeOK
  <2> QED  BY <2>1, <2>2, SerialUntouched
<1>17. ASSUME NEW b \in Running, Ends(b) \/ Gone(b) PROVE (Serial /\ OneAtATime)'
  <2>1. UNCHANGED <<locked, begun, starts>>
    BY <1>17 DEF Ends, Gone, Popped, Calls, line_vars, told_vars
  <2>2. \A c : Counts(c)' => Counts(c)
    BY <1>17 DEF Ends, Gone, Popped, Calls, boot_vars, Counts, Marked, Running
  <2> QED  BY <2>1, <2>2, SerialUntouched
<1>18. ASSUME NEW b \in Running, Forgets(b) PROVE (Serial /\ OneAtATime)'
  <2>1. /\ UNCHANGED <<locked, begun>>
        /\ \A r \in starts' : r \in starts \/ ~ QueueStart(r)
        /\ \A r \in starts : QueueStart(r) /\ r.stage = "sent" => r \in starts'
    BY <1>18 DEF Forgets, Failure, line_vars, run_vars, boot_vars, told_vars, QueueStart
  <2>2. \A c : Counts(c)' => Counts(c)
    BY <1>18 DEF Forgets, Failure, run_vars, boot_vars, Counts
  <2> QED  BY <2>1, <2>2, SerialUntouched
<1>19. ASSUME Crash PROVE (Serial /\ OneAtATime)'
  <2>1. starts' = {} /\ working' = {} /\ keeping' = {}
    BY <1>19 DEF Crash
  <2> QED  BY <2>1 DEF Serial, OneAtATime, Counts
<1>20. ASSUME Restart PROVE (Serial /\ OneAtATime)'
  <2>1. /\ UNCHANGED <<locked, begun>>
        /\ \A r \in starts' : r \in starts \/ ~ QueueStart(r)
        /\ \A r \in starts : QueueStart(r) /\ r.stage = "sent" => r \in starts'
    BY <1>20 DEF Restart, line_vars, run_vars, boot_vars, told_vars, QueueStart, Down
  <2>2. \A c : Counts(c)' => Counts(c)
    BY <1>20 DEF Restart, run_vars, boot_vars, Counts, Down
  <2> QED  BY <2>1, <2>2, SerialUntouched
<1>21. ASSUME NEW b \in todo, Resume(b) PROVE (Serial /\ OneAtATime)'
  <2>1. /\ UNCHANGED <<starts, locked, begun>> /\ UNCHANGED <<keeping, waited>>
        /\ resumed \subseteq resumed' /\ \A c \in working' : c \in working \/ c \in resumed'
    BY <1>21 DEF Resume, line_vars
  <2>2. \A c : Counts(c)' => Counts(c)
    BY <2>1 DEF Counts
  <2> QED  BY <2>1, <2>2, SerialUntouched
<1>22. ASSUME Resumed \/ Stops PROVE (Serial /\ OneAtATime)'
  <2>1. /\ UNCHANGED <<locked, begun>>
        /\ \A r \in starts' : r \in starts \/ ~ QueueStart(r)
        /\ \A r \in starts : QueueStart(r) /\ r.stage = "sent" => r \in starts'
    BY <1>22 DEF Resumed, Stops, line_vars, run_vars, boot_vars, told_vars, QueueStart
  <2>2. \A c : Counts(c)' => Counts(c)
    BY <1>22 DEF Resumed, Stops, run_vars, boot_vars, Counts
  <2> QED  BY <2>1, <2>2, SerialUntouched
<1>23. CASE UNCHANGED vars
  <2>1. /\ UNCHANGED <<locked, begun>>
        /\ \A r \in starts' : r \in starts \/ ~ QueueStart(r)
        /\ \A r \in starts : QueueStart(r) /\ r.stage = "sent" => r \in starts'
    BY <1>23 DEF vars, line_vars, run_vars, boot_vars, told_vars, QueueStart
  <2>2. \A c : Counts(c)' => Counts(c)
    BY <1>23 DEF vars, run_vars, boot_vars, Counts
  <2> QED  BY <2>1, <2>2, SerialUntouched
<1> QED
  BY <1>1, <1>2, <1>3, <1>4, <1>5, <1>6, <1>7, <1>8, <1>9, <1>10, <1>11, <1>12, <1>13, <1>14,
     <1>15, <1>16, <1>17, <1>18, <1>19, <1>20, <1>21, <1>22, <1>23 DEF Next, Starting, Person,
     Fault, Recover, Building

\* Where a queued plan may be.
Accounted(p) ==
    \/ p \in Range(line) \/ p \in over \cup lost
    \/ \E b \in records \cup Running : b.plan = p
    \/ \E s \in starts : s.plan = p /\ s.stage = "refused"

LEMMA KeptAccounts == Kept <=> \A p \in asked : Accounted(p)
BY DEF Kept, Accounted

\* A plan stays accounted for where whatever leaves the line or the builds does so for a reason.
LEMMA KeptUntouched ==
    ASSUME Kept, asked' = asked, over \subseteq over', lost \subseteq lost',
           \A p \in Range(line) : p \in Range(line') \/ Accounted(p)',
           \A b \in records \cup Running : b \in records' \cup Running' \/ b.plan \in over' \cup lost',
           \A s \in starts : s.stage = "refused" => s \in starts' \/ s.plan \in over' \cup lost'
    PROVE  Kept'
<1> HIDE DEF Running
<1> SUFFICES ASSUME NEW p \in asked PROVE Accounted(p)'
  BY DEF Kept, Accounted
<1>1. Accounted(p)
  BY KeptAccounts
<1>2. CASE p \in Range(line)
  BY <1>2 DEF Accounted
<1>3. CASE p \in over \cup lost
  BY <1>3 DEF Accounted
<1>4. CASE \E b \in records \cup Running : b.plan = p
  BY <1>4 DEF Accounted
<1>5. CASE \E s \in starts : s.plan = p /\ s.stage = "refused"
  BY <1>5 DEF Accounted
<1> QED  BY <1>1, <1>2, <1>3, <1>4, <1>5 DEF Accounted

LEMMA KeptKept == ASSUME TypeOK, Down, Booking, Kept, [Next]_vars PROVE Kept'
<1>1. ASSUME NEW p \in Plans, Enqueue(p) PROVE Kept'
  <2>1. /\ UNCHANGED <<over, lost, records, starts>> /\ Running' = Running
        /\ line' = Append(line, p) /\ asked' = asked \cup {p}
    BY <1>1 DEF Enqueue, run_vars, Running
  <2>2. line \in Seq(Queued) /\ p \in Queued
    BY <1>1 DEF Enqueue, TypeOK
  <2>3. /\ Len(line) \in Nat /\ Len(line') = Len(line) + 1 /\ line'[Len(line) + 1] = p
        /\ \A i \in 1..Len(line) : line'[i] = line[i]
        /\ DOMAIN line' = 1..Len(line') /\ DOMAIN line = 1..Len(line)
    BY <2>1, <2>2
  <2>4. p \in Range(line') /\ \A q \in Range(line) : q \in Range(line')
    BY <2>3 DEF Range
  <2> HIDE DEF Running
  <2> QED  BY <2>1, <2>4 DEF Kept
<1>2. ASSUME Advance PROVE Kept'
  <2>1. /\ UNCHANGED <<asked, line>> /\ over \subseteq over' /\ lost \subseteq lost'
        /\ \A c \in records \cup Running :
              c \in records' \cup Running' \/ c.plan \in over' \cup lost'
        /\ \A r \in starts : r.stage = "refused" => r \in starts' \/ r.plan \in over' \cup lost'
    BY <1>2 DEF Advance, line_vars, run_vars, boot_vars, told_vars, Running
  <2> QED  BY <2>1, KeptUntouched DEF Accounted
<1>3. ASSUME Look PROVE Kept'
  <2>1. /\ UNCHANGED <<asked, line>> /\ over \subseteq over' /\ lost \subseteq lost'
        /\ \A c \in records \cup Running :
              c \in records' \cup Running' \/ c.plan \in over' \cup lost'
        /\ \A r \in starts : r.stage = "refused" => r \in starts' \/ r.plan \in over' \cup lost'
    BY <1>3 DEF Look, line_vars, run_vars, boot_vars, told_vars, Running
  <2> QED  BY <2>1, KeptUntouched DEF Accounted
<1>4. ASSUME NEW p \in Plans, NEW by \in {"asking", "command"}, Arrive(p, by) PROVE Kept'
  <2>1. /\ UNCHANGED <<asked, line>> /\ over \subseteq over' /\ lost \subseteq lost'
        /\ \A c \in records \cup Running :
              c \in records' \cup Running' \/ c.plan \in over' \cup lost'
        /\ \A r \in starts : r.stage = "refused" => r \in starts' \/ r.plan \in over' \cup lost'
    BY <1>4 DEF Arrive, line_vars, run_vars, boot_vars, told_vars, Running
  <2> QED  BY <2>1, KeptUntouched DEF Accounted
<1>5. ASSUME NEW s \in starts, Switch(s) PROVE Kept'
  <2>1. /\ UNCHANGED <<asked, line>> /\ over \subseteq over' /\ lost \subseteq lost'
        /\ \A c \in records \cup Running :
              c \in records' \cup Running' \/ c.plan \in over' \cup lost'
        /\ \A r \in starts : r.stage = "refused" => r \in starts' \/ r.plan \in over' \cup lost'
    BY <1>5 DEF Switch, line_vars, run_vars, boot_vars, told_vars, Running
  <2> QED  BY <2>1, KeptUntouched DEF Accounted
<1>6. ASSUME NEW s \in starts, Begin(s) PROVE Kept'
  <2>1. CASE Busy(s)
    <3>1. Fails(s) /\ s.stage = "arriving"
      BY <1>6, <2>1 DEF Begin
    <3>2. UNCHANGED <<asked, lost, records>> /\ Running' = Running
      BY <3>1 DEF Fails, run_vars, Running
    <3>3. \A r \in starts : r.stage = "refused" => r \in starts'
      BY <3>1, <2>1, FailedStart
    <3>4. over \subseteq over' /\ \A p \in Range(line) : Accounted(p)'
      BY <3>1, FailedStart, WithoutOne DEF Accounted
    <3> HIDE DEF Running
    <3> QED  BY <3>2, <3>3, <3>4, KeptUntouched
  <2>2. CASE ~ Busy(s)
    <3>1. /\ UNCHANGED <<asked, line, over, lost, records>> /\ Running' = Running
          /\ s.stage = "arriving" /\ starts' = Moved(s, "making")
      BY <1>6, <2>2 DEF Begin, line_vars, run_vars, told_vars, Running
    <3>2. \A r \in starts : r.stage = "refused" => r \in starts'
      BY <3>1 DEF Moved
    <3> HIDE DEF Running
    <3> QED  BY <3>1, <3>2, KeptUntouched
  <2> QED  BY <2>1, <2>2
<1>7. ASSUME NEW s \in starts, Refuse(s) PROVE Kept'
  <2>1. Fails(s) /\ s.stage # "refused"
    BY <1>7 DEF Refuse
  <2>2. UNCHANGED <<asked, lost, records>> /\ Running' = Running
    BY <2>1 DEF Fails, run_vars, Running
  <2>3. \A r \in starts : r.stage = "refused" => r \in starts'
    BY <2>1, <2>1, FailedStart
  <2>4. over \subseteq over' /\ \A p \in Range(line) : Accounted(p)'
    BY <2>1, FailedStart, WithoutOne DEF Accounted
  <2> HIDE DEF Running
  <2> QED  BY <2>2, <2>3, <2>4, KeptUntouched
<1>8. ASSUME NEW s \in starts, Hiccup(s) PROVE Kept'
  <2>1. /\ UNCHANGED <<asked, line>> /\ over \subseteq over' /\ lost \subseteq lost'
        /\ \A c \in records \cup Running :
              c \in records' \cup Running' \/ c.plan \in over' \cup lost'
        /\ \A r \in starts : r.stage = "refused" => r \in starts' \/ r.plan \in over' \cup lost'
    BY <1>8 DEF Hiccup, Failure, line_vars, run_vars, boot_vars, told_vars, Running, Begun
  <2> QED  BY <2>1, KeptUntouched DEF Accounted
<1>9. ASSUME NEW s \in starts, Save(s) PROVE Kept'
  <2>1. /\ UNCHANGED <<asked, line>> /\ over \subseteq over' /\ lost \subseteq lost'
        /\ \A c \in records \cup Running :
              c \in records' \cup Running' \/ c.plan \in over' \cup lost'
        /\ \A r \in starts : r.stage = "refused" => r \in starts' \/ r.plan \in over' \cup lost'
    BY <1>9 DEF Save, line_vars, run_vars, boot_vars, told_vars, Running, Moved
  <2> QED  BY <2>1, KeptUntouched DEF Accounted
<1>10. ASSUME NEW s \in starts, Launch(s) PROVE Kept'
  <2>1. /\ UNCHANGED <<asked, line>> /\ over \subseteq over' /\ lost \subseteq lost'
        /\ \A c \in records \cup Running :
              c \in records' \cup Running' \/ c.plan \in over' \cup lost'
        /\ \A r \in starts : r.stage = "refused" => r \in starts' \/ r.plan \in over' \cup lost'
    BY <1>10 DEF Launch, line_vars, run_vars, boot_vars, told_vars, Running, Moved
  <2> QED  BY <2>1, KeptUntouched DEF Accounted
<1>11. ASSUME NEW s \in starts, Return(s) PROVE Kept'
  <2>1. /\ UNCHANGED <<asked, records, over, lost>> /\ s.stage = "sent"
        /\ Running' = Running /\ starts' = starts \ {s}
        /\ line' = Without(s.plan) \/ line' = line
    BY <1>11 DEF Return, run_vars, told_vars, Running
  <2> HIDE DEF Running
  <2>2. s.plan \in over \cup lost \/ \E c \in records \cup Running : c.plan = s.plan
    BY <2>1 DEF Booking
  <2>3. \A p \in Range(line) : p \in Range(line') \/ Accounted(p)'
    BY <2>1, <2>2, WithoutOne DEF Accounted
  <2>4. \A r \in starts : r.stage = "refused" => r \in starts'
    BY <2>1
  <2> QED  BY <2>1, <2>3, <2>4, KeptUntouched
<1>12. ASSUME NEW s \in starts, Tell(s) PROVE Kept'
  <2>1. /\ UNCHANGED <<asked, line>> /\ over \subseteq over' /\ lost \subseteq lost'
        /\ \A c \in records \cup Running :
              c \in records' \cup Running' \/ c.plan \in over' \cup lost'
        /\ \A r \in starts : r.stage = "refused" => r \in starts' \/ r.plan \in over' \cup lost'
    BY <1>12 DEF Tell, line_vars, run_vars, boot_vars, told_vars, Running
  <2> QED  BY <2>1, KeptUntouched DEF Accounted
<1>13. ASSUME Drop PROVE Kept'
  <2>1. /\ UNCHANGED <<asked, records, over, starts>> /\ Running' = Running
        /\ line' = Without(Head(scan)) /\ lost' = lost \cup {Head(scan)}
    BY <1>13 DEF Drop, run_vars, Running
  <2> HIDE DEF Running
  <2>2. \A p \in Range(line) : p \in Range(line') \/ Accounted(p)'
    BY <2>1, WithoutOne DEF Accounted
  <2> QED  BY <2>1, <2>2, KeptUntouched
<1>14. ASSUME NEW b \in Running, Waits(b) \/ Finishes(b) \/ KeepFails(b) PROVE Kept'
  <2>1. /\ UNCHANGED <<asked, line>> /\ over \subseteq over' /\ lost \subseteq lost'
        /\ \A c \in records \cup Running :
              c \in records' \cup Running' \/ c.plan \in over' \cup lost'
        /\ \A r \in starts : r.stage = "refused" => r \in starts' \/ r.plan \in over' \cup lost'
    BY <1>14 DEF Waits, Finishes, KeepFails, QueueWaiting, Calls, Failure, line_vars, run_vars,
       boot_vars, told_vars, Running
  <2> QED  BY <2>1, KeptUntouched DEF Accounted
<1>15. ASSUME NEW b \in Running, Answer(b) \/ Keeps(b) \/ Close(b) PROVE Kept'
  <2>1. /\ UNCHANGED <<asked, line>> /\ over \subseteq over' /\ lost \subseteq lost'
        /\ \A c \in records \cup Running :
              c \in records' \cup Running' \/ c.plan \in over' \cup lost'
        /\ \A r \in starts : r.stage = "refused" => r \in starts' \/ r.plan \in over' \cup lost'
    BY <1>15 DEF Answer, Keeps, Close, line_vars, run_vars, boot_vars, told_vars, Running
  <2> QED  BY <2>1, KeptUntouched DEF Accounted
<1>16. ASSUME NEW b \in Running, Wakes(b) PROVE Kept'
  <2>1. /\ UNCHANGED <<asked, line>> /\ over \subseteq over' /\ lost \subseteq lost'
        /\ \A c \in records \cup Running :
              c \in records' \cup Running' \/ c.plan \in over' \cup lost'
        /\ \A r \in starts : r.stage = "refused" => r \in starts' \/ r.plan \in over' \cup lost'
    BY <1>16 DEF Wakes, line_vars, run_vars, boot_vars, told_vars, Running
  <2> QED  BY <2>1, KeptUntouched DEF Accounted
<1>17. ASSUME NEW b \in Running, Ends(b) \/ Gone(b) PROVE Kept'
  <2>1. /\ UNCHANGED <<asked, line>> /\ over \subseteq over' /\ lost \subseteq lost'
        /\ \A c \in records \cup Running :
              c \in records' \cup Running' \/ c.plan \in over' \cup lost'
        /\ \A r \in starts : r.stage = "refused" => r \in starts' \/ r.plan \in over' \cup lost'
    BY <1>17 DEF Ends, Gone, Popped, Calls, line_vars, run_vars, boot_vars, told_vars, Running
  <2> QED  BY <2>1, KeptUntouched DEF Accounted
<1>18. ASSUME NEW b \in Running, Forgets(b) PROVE Kept'
  <2>1. /\ UNCHANGED <<asked, line>> /\ over \subseteq over' /\ lost \subseteq lost'
        /\ \A c \in records \cup Running :
              c \in records' \cup Running' \/ c.plan \in over' \cup lost'
        /\ \A r \in starts : r.stage = "refused" => r \in starts' \/ r.plan \in over' \cup lost'
    BY <1>18 DEF Forgets, Failure, line_vars, run_vars, boot_vars, told_vars, Running
  <2> QED  BY <2>1, KeptUntouched DEF Accounted
<1>19. ASSUME Crash PROVE Kept'
  <2>1. UNCHANGED <<asked, over, records>> /\ lost \subseteq lost'
    BY <1>19 DEF Crash
  <2>2. \A p \in Range(line) : p \in Range(line') \/ p \in lost'
    BY <1>19 DEF Crash
  <2>3. \A c \in Running : c \in records \/ c.plan \in lost'
    BY <1>19 DEF Crash
  <2>4. \A r \in starts : r.stage = "refused" => r.plan \in lost'
    BY <1>19 DEF Crash
  <2> HIDE DEF Running
  <2> QED  BY <2>1, <2>2, <2>3, <2>4, KeptUntouched DEF Accounted
<1>20. ASSUME Restart PROVE Kept'
  <2>1. /\ UNCHANGED <<asked, line>> /\ over \subseteq over' /\ lost \subseteq lost'
        /\ \A c \in records \cup Running :
              c \in records' \cup Running' \/ c.plan \in over' \cup lost'
        /\ \A r \in starts : r.stage = "refused" => r \in starts' \/ r.plan \in over' \cup lost'
    BY <1>20 DEF Restart, line_vars, run_vars, boot_vars, told_vars, Running, Down
  <2> QED  BY <2>1, KeptUntouched DEF Accounted
<1>21. ASSUME NEW b \in todo, Resume(b) PROVE Kept'
  <2>1. /\ UNCHANGED <<asked, line>> /\ over \subseteq over' /\ lost \subseteq lost'
        /\ \A c \in records \cup Running :
              c \in records' \cup Running' \/ c.plan \in over' \cup lost'
        /\ \A r \in starts : r.stage = "refused" => r \in starts' \/ r.plan \in over' \cup lost'
    BY <1>21 DEF Resume, line_vars, run_vars, boot_vars, told_vars, Running
  <2> QED  BY <2>1, KeptUntouched DEF Accounted
<1>22. ASSUME Resumed \/ Stops PROVE Kept'
  <2>1. /\ UNCHANGED <<asked, line>> /\ over \subseteq over' /\ lost \subseteq lost'
        /\ \A c \in records \cup Running :
              c \in records' \cup Running' \/ c.plan \in over' \cup lost'
        /\ \A r \in starts : r.stage = "refused" => r \in starts' \/ r.plan \in over' \cup lost'
    BY <1>22 DEF Resumed, Stops, line_vars, run_vars, boot_vars, told_vars, Running
  <2> QED  BY <2>1, KeptUntouched DEF Accounted
<1>23. CASE UNCHANGED vars
  <2>1. /\ UNCHANGED <<asked, line>> /\ over \subseteq over' /\ lost \subseteq lost'
        /\ \A c \in records \cup Running :
              c \in records' \cup Running' \/ c.plan \in over' \cup lost'
        /\ \A r \in starts : r.stage = "refused" => r \in starts' \/ r.plan \in over' \cup lost'
    BY <1>23 DEF vars, line_vars, run_vars, boot_vars, told_vars, Running
  <2> QED  BY <2>1, KeptUntouched DEF Accounted
<1> QED
  BY <1>1, <1>2, <1>3, <1>4, <1>5, <1>6, <1>7, <1>8, <1>9, <1>10, <1>11, <1>12, <1>13, <1>14,
     <1>15, <1>16, <1>17, <1>18, <1>19, <1>20, <1>21, <1>22, <1>23 DEF Next, Starting, Person,
     Fault, Recover, Building

-----------------------------------------------------------------------------
(* The invariant of the specification. *)

LEMMA Starts0 == Init => IInv
<1> SUFFICES ASSUME Init PROVE IInv
  OBVIOUS
<1>1. LineTypes
  BY NoScan, LineAssumption DEF Init, LineTypes
<1>2. StartTypes /\ BuildTypes /\ CountTypes
  BY DEF Init, StartTypes, BuildTypes, CountTypes
<1>3. LockTypes
  BY Zenon DEF Init, LockTypes
<1>4. /\ starts = {} /\ Running = {} /\ working = {} /\ waiting = {} /\ keeping = {}
      /\ records = {} /\ todo = {} /\ asked = {}
  BY DEF Init, Running
<1>5. Down
  BY DEF Init, Down
<1> HIDE DEF Running
<1>6. Booking /\ OnRecord /\ Marked /\ Serial /\ OneAtATime /\ Checks /\ CheckboxAlone /\ Kept
  BY <1>4 DEF Booking, OnRecord, Marked, Serial, Counts, OneAtATime, Checks, CheckboxAlone, Kept
<1> QED  BY <1>1, <1>2, <1>3, <1>5, <1>6, TypeParts DEF IInv

LEMMA Invariance == Spec => []IInv
<1>1. IInv /\ [Next]_vars => IInv'
  BY TypesKept, DownKept, BookingKept, RecordKept, MarkedKept, SerialKept, ChecksKept, KeptKept
     DEF IInv
<1> QED  BY <1>1, Starts0, PTL DEF Spec

\* Types (the queue, the records, _running, _starting).
THEOREM TypeCorrect == Spec => []TypeOK
<1>1. IInv => TypeOK  BY DEF IInv
<1> QED  BY <1>1, Invariance, PTL

\* A queued plan is in the line, or its build is on record, running or over, or its refusal is
\* being told or was, or it is one of those that Drop, Resume and Crash name as lost without a
\* word (enqueue, _advance_queue, start_loop, _drive, resume_all).
THEOREM NothingLost == Spec => []Kept
<1>1. IInv => Kept  BY DEF IInv
<1> QED  BY <1>1, Invariance, PTL

\* Two builds of the line are at work at once only if one of them had waited for a person or
\* was brought back (_advance_queue, _queue_lock, _queue_waiting, _finish_early).
THEOREM BackToBack == Spec => []OneAtATime
<1>1. IInv => OneAtATime  BY DEF IInv
<1> QED  BY <1>1, Invariance, PTL

\* Checkbox builds of a project are never side by side (_busy, _starting).
THEOREM ProjectToItself == Spec => []CheckboxAlone
<1>1. IInv => CheckboxAlone  BY DEF IInv
<1> QED  BY <1>1, Invariance, PTL

\* A build that waits for a person is on record, so that a restart asks again (_drive, which
\* removes a record before the entry, _finish_early, LoopStore).
THEOREM WaitingOnRecord == Spec => []OnRecord
<1>1. IInv => OnRecord  BY DEF IInv
<1> QED  BY <1>1, Invariance, PTL
=============================================================================
