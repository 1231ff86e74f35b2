----------------------------- MODULE ThreadProofs -----------------------------
(***************************************************************************)
(* What ThreadSlot keeps for any number of turns, restarts, closes and     *)
(* clears: the tables name whoever runs, and nobody waits for a turn that  *)
(* waits for the lock, unless its task is a build's.                       *)
(***************************************************************************)
EXTENDS ThreadSlot, SequenceTheorems, TLAPS

\* Where a turn holds the lock, and where it has an entry in the tables.
Phase1 == {"await", "prepare", "announce"}
Entered == {"announce"} \cup Live

SlotType ==
    /\ lock \in Seq(Turns) /\ pc \in [Turns -> Places] /\ cut \subseteq Turns
    /\ runner \in Turns \cup {None, Ghost} /\ task \in Turns \cup {None, Ghost}
    /\ awaited \in Turns \cup {None}
    /\ \A t \in Turns \ Builds : pc[t] # "between"

OneHolder == \A t \in Turns : pc[t] \in Phase1 => Holds(t)
\* An entry, and a cut, is of a turn that stands where it may have one.
EntriesStand ==
    /\ runner \in Turns => pc[runner] \in Entered
    /\ task \in Turns \ Builds => pc[task] \in Entered
    /\ task \in Builds => pc[task] # "idle"
    /\ \A t \in cut : pc[t] \in Entered
Named == \A t \in Turns \ cut : pc[t] \in Entered => runner = t /\ task = t
\* The holder awaits whoever still runs; once it goes on, nobody does.
Evicted ==
    \A h \in Turns : \A t \in Turns \ cut :
        /\ pc[h] = "await" /\ pc[t] \in Live => awaited = t
        /\ pc[h] \in {"prepare", "announce"} => pc[t] \notin Live

SlotInv == SlotType /\ OneHolder /\ EntriesStand /\ Named /\ Evicted /\ AwaitedEnds

-----------------------------------------------------------------------------
(* The line for the lock.                                                  *)

\* Who leaves the line behind its head leaves the head where it is.
LEMMA HeadStays ==
    ASSUME NEW S, NEW s \in Seq(S), NEW i \in DOMAIN s
    PROVE  /\ RemoveAt(s, i) \in Seq(S)
           /\ i # 1 => RemoveAt(s, i) # <<>> /\ Head(RemoveAt(s, i)) = Head(s)
BY DEF RemoveAt

\* Who joins a line that has a head leaves it there.
LEMMA HeadKept ==
    ASSUME NEW S, NEW s \in Seq(S), NEW x \in S
    PROVE  /\ Append(s, x) \in Seq(S) /\ Append(s, x) # <<>>
           /\ s # <<>> => Head(Append(s, x)) = Head(s)
BY SMTT(30)

\* Both tables survive whatever leaves the tables, the line and every turn alone.
LEMMA SlotStutters == SlotInv /\ UNCHANGED slot => SlotInv'
BY DEF SlotInv, SlotType, OneHolder, Holds, EntriesStand, Named, Evicted, AwaitedEnds, slot

-----------------------------------------------------------------------------
(* One lemma per action of a turn.                                         *)

LEMMA ArriveKeeps ==
    ASSUME SlotInv, NEW t \in Turns, pc[t] \in {"idle", "between"}, To(t, "lock"),
           lock' = Append(lock, t), UNCHANGED <<runner, task, cut, awaited>>
    PROVE  SlotInv'
BY HeadKept, ThreadAssumption
   DEF SlotInv, SlotType, OneHolder, Holds, EntriesStand, Named, Evicted, AwaitedEnds, To,
       Phase1, Entered, Live, Places

LEMMA EvictKeeps == ASSUME SlotInv, NEW t \in Turns, Evict(t) PROVE SlotInv'
BY ThreadAssumption
   DEF Evict, SlotInv, SlotType, OneHolder, Holds, EntriesStand, Named, Evicted, AwaitedEnds, To,
       Done, TurnOver, Mine, Phase1, Entered, Live, Places

LEMMA AwaitedKeeps == ASSUME SlotInv, NEW t \in Turns, Awaited(t) PROVE SlotInv'
BY ThreadAssumption
   DEF Awaited, SlotInv, SlotType, OneHolder, Holds, EntriesStand, Named, Evicted, AwaitedEnds, To,
       Done, TurnOver, Mine, Phase1, Entered, Live, Places

LEMMA CancelWaitingKeeps == ASSUME SlotInv, NEW t \in Turns, CancelWaiting(t) PROVE SlotInv'
<1>1. lock' \in Seq(Turns) /\ \A u \in Turns : Holds(u) /\ u # t => Holds(u)'
  <2>1. PICK i \in DOMAIN lock : lock[i] = t /\ lock' = RemoveAt(lock, i)
    BY DEF CancelWaiting
  <2>2. lock' \in Seq(Turns) /\ (i # 1 => lock' # <<>> /\ Head(lock') = Head(lock))
    BY <2>1, HeadStays DEF SlotInv, SlotType
  <2>3. i = 1 => Head(lock) = t
    BY <2>1 DEF SlotInv, SlotType
  <2> QED
    BY <2>2, <2>3 DEF Holds
<1>2. /\ pc' = [pc EXCEPT ![t] = "idle"] /\ pc[t] \in {"lock", "await"}
      /\ awaited' = IF pc[t] = "await" \/ awaited = t THEN None ELSE awaited
      /\ task' = IF task = t THEN Ghost ELSE task
      /\ UNCHANGED <<runner, cut>>
  BY DEF CancelWaiting, Leaves, To
<1>3. OneHolder'
  BY <1>1, <1>2 DEF SlotInv, SlotType, OneHolder, Phase1
<1> QED
  BY <1>1, <1>2, <1>3, ThreadAssumption
     DEF SlotInv, SlotType, OneHolder, Holds, EntriesStand, Named, Evicted, AwaitedEnds,
         Phase1, Entered, Live, Places

LEMMA RegisterKeeps == ASSUME SlotInv, NEW t \in Turns, Register(t) PROVE SlotInv'
BY ThreadAssumption
   DEF Register, SlotInv, SlotType, OneHolder, Holds, EntriesStand, Named, Evicted, AwaitedEnds, To,
       Done, TurnOver, Mine, Phase1, Entered, Live, Places

LEMMA PrepareFailsKeeps == ASSUME SlotInv, NEW t \in Turns, PrepareFails(t) PROVE SlotInv'
BY ThreadAssumption
   DEF PrepareFails, SlotInv, SlotType, OneHolder, Holds, EntriesStand, Named, Evicted, AwaitedEnds, To,
       Done, TurnOver, Mine, Phase1, Entered, Live, Places

LEMMA AnnounceKeeps == ASSUME SlotInv, NEW t \in Turns, Announce(t) PROVE SlotInv'
BY ThreadAssumption
   DEF Announce, SlotInv, SlotType, OneHolder, Holds, EntriesStand, Named, Evicted, AwaitedEnds, To,
       Done, TurnOver, Mine, Phase1, Entered, Live, Places

LEMMA AnnounceFailsKeeps == ASSUME SlotInv, NEW t \in Turns, AnnounceFails(t) PROVE SlotInv'
BY ThreadAssumption
   DEF AnnounceFails, SlotInv, SlotType, OneHolder, Holds, EntriesStand, Named, Evicted, AwaitedEnds, To,
       Done, TurnOver, Mine, Phase1, Entered, Live, Places

LEMMA AttemptKeeps == ASSUME SlotInv, NEW t \in Turns, Attempt(t) PROVE SlotInv'
BY ThreadAssumption
   DEF Attempt, SlotInv, SlotType, OneHolder, Holds, EntriesStand, Named, Evicted, AwaitedEnds, To,
       Phase1, Entered, Live, Places

LEMMA RunKeeps == ASSUME SlotInv, NEW t \in Turns, Run(t) PROVE SlotInv'
BY ThreadAssumption
   DEF Run, SlotInv, SlotType, OneHolder, Holds, EntriesStand, Named, Evicted, AwaitedEnds, To,
       Done, TurnOver, Mine, Phase1, Entered, Live, Places

LEMMA StopKeeps == ASSUME SlotInv, NEW t \in Turns, Stop(t) PROVE SlotInv'
BY ThreadAssumption
   DEF Stop, SlotInv, SlotType, OneHolder, Holds, EntriesStand, Named, Evicted, AwaitedEnds, To,
       Done, TurnOver, Mine, Phase1, Entered, Live, Places

LEMMA RunEndsKeeps == ASSUME SlotInv, NEW t \in Turns, RunEnds(t) PROVE SlotInv'
BY ThreadAssumption
   DEF RunEnds, SlotInv, SlotType, OneHolder, Holds, EntriesStand, Named, Evicted, AwaitedEnds, To,
       Done, TurnOver, Mine, Phase1, Entered, Live, Places

LEMMA RetryKeeps == ASSUME SlotInv, NEW t \in Turns, Retry(t) PROVE SlotInv'
BY ThreadAssumption
   DEF Retry, SlotInv, SlotType, OneHolder, Holds, EntriesStand, Named, Evicted, AwaitedEnds, To,
       Phase1, Entered, Live, Places

LEMMA PopKeeps == ASSUME SlotInv, NEW t \in Turns, Pop(t) PROVE SlotInv'
BY ThreadAssumption
   DEF Pop, SlotInv, SlotType, OneHolder, Holds, EntriesStand, Named, Evicted, AwaitedEnds, To,
       Done, TurnOver, Mine, Phase1, Entered, Live, Places

LEMMA TurnDoneKeeps == ASSUME SlotInv, NEW t \in Turns, TurnDone(t) PROVE SlotInv'
BY ThreadAssumption
   DEF TurnDone, SlotInv, SlotType, OneHolder, Holds, EntriesStand, Named, Evicted, AwaitedEnds, To,
       Done, TurnOver, Mine, Phase1, Entered, Live, Places

LEMMA NextTurnKeeps == ASSUME SlotInv, NEW t \in Turns, NextTurn(t) PROVE SlotInv'
BY ArriveKeeps DEF NextTurn

LEMMA BuildOverKeeps == ASSUME SlotInv, NEW t \in Turns, BuildOver(t) PROVE SlotInv'
BY ThreadAssumption
   DEF BuildOver, SlotInv, SlotType, OneHolder, Holds, EntriesStand, Named, Evicted, AwaitedEnds, To,
       Done, Phase1, Entered, Live, Places

\* A turn that on_ready starts joins the line as any other, if it starts at all.
LEMMA SpawnKeeps ==
    ASSUME SlotInv, UNCHANGED slot \/ \E t \in Turns : Spawn(t) PROVE SlotInv'
<1>1. CASE UNCHANGED slot
  BY <1>1, SlotStutters
<1>2. CASE \E t \in Turns : Spawn(t)
  <2> PICK t \in Turns : Spawn(t)
    BY <1>2
  <2> QED
    BY ArriveKeeps DEF Spawn
<1> QED
  BY <1>1, <1>2

\* A cut takes the runner of a turn that goes on; everything else stays.
LEMMA ClearKeeps == ASSUME SlotInv, Clear PROVE SlotInv'
BY ThreadAssumption
   DEF Clear, SlotInv, SlotType, OneHolder, Holds, EntriesStand, Named, Evicted, AwaitedEnds,
       Entered, Live

\* The end of the process leaves no turn and no entry.
LEMMA ExitKeeps == ASSUME SlotInv, Exit PROVE SlotInv'
BY ThreadAssumption
   DEF Exit, SlotInv, SlotType, OneHolder, Holds, EntriesStand, Named, Evicted, AwaitedEnds,
       Phase1, Entered, Live, Places

LEMMA ProceedsKeeps == ASSUME SlotInv, NEW t \in Turns, Proceeds(t) PROVE SlotInv'
BY EvictKeeps, AwaitedKeeps, RegisterKeeps, PrepareFailsKeeps, AnnounceKeeps, AnnounceFailsKeeps,
   AttemptKeeps, RunKeeps, RunEndsKeeps, PopKeeps, TurnDoneKeeps, NextTurnKeeps, BuildOverKeeps
   DEF Proceeds

\* The lifecycle calls read the tables and never write them.
LEMMA ServesKeeps == ASSUME SlotInv, NEW p \in Callers, Ask(p) \/ Serves(p) PROVE SlotInv'
<1>1. UNCHANGED slot
  BY DEF Ask, Serves, Close, RequestClose, Complete, CheckActive, MarkClosed, Reopen, Reopened
<1> QED
  BY <1>1, SlotStutters

LEMMA BootsKeep == ASSUME SlotInv, Boots \/ Reconcile \/ Unload PROVE SlotInv'
<1>1. UNCHANGED slot \/ \E t \in Turns : Spawn(t)
  BY DEF Boots, Reconcile, Unload, LoadCapacity, FindResume, DeleteResume, SpawnResume
<1> QED
  BY <1>1, SpawnKeeps

LEMMA StepKeeps == SlotInv /\ [ClearNext]_vars => SlotInv'
<1> SUFFICES ASSUME SlotInv, [ClearNext]_vars PROVE SlotInv'
  OBVIOUS
<1>1. CASE UNCHANGED vars
  BY <1>1, SlotStutters DEF vars
<1>2. ASSUME NEW t \in Turns, Arrive(t) PROVE SlotInv'
  BY <1>2, ArriveKeeps DEF Arrive
<1>3. ASSUME NEW t \in Turns, CancelWaiting(t) \/ Stop(t) \/ Retry(t) \/ Proceeds(t)
      PROVE  SlotInv'
  BY <1>3, CancelWaitingKeeps, StopKeeps, RetryKeeps, ProceedsKeeps
<1>4. ASSUME NEW p \in Callers, Ask(p) \/ Serves(p) PROVE SlotInv'
  BY <1>4, ServesKeeps
<1>5. CASE Clear \/ Exit
  BY <1>5, ClearKeeps, ExitKeeps
<1>6. CASE Boots \/ Reconcile \/ Unload
  BY <1>6, BootsKeep
<1>7. CASE Cleared
  BY <1>7, SlotStutters DEF Cleared
<1> QED
  BY <1>1, <1>2, <1>3, <1>4, <1>5, <1>6, <1>7 DEF ClearNext, Next

LEMMA InitKeeps == Init => SlotInv
BY ThreadAssumption
   DEF Init, SlotInv, SlotType, OneHolder, Holds, EntriesStand, Named, Evicted, AwaitedEnds,
       Phase1, Entered, Live, Places

-----------------------------------------------------------------------------
\* The tables always name the one turn that runs or waits for capacity, but for
\* those whose entry somebody else popped (/clear, a rewind, close_session), and
\* those it was taken from by the next attempt of a turn that had lost its own.
THEOREM SlotIsKept == ClearSpec => []SlotKept
<1>1. SlotInv => SlotKept
  BY DEF SlotInv, SlotKept, Named, Entered
<1> QED
  BY <1>1, InitKeeps, StepKeeps, PTL DEF ClearSpec

\* The docstring's "No deadlock", for every task that runs one turn: what the holder
\* of the lock awaits has left it.
THEOREM AwaitedTurnsEnd == ClearSpec => []AwaitedEnds
<1>1. SlotInv => AwaitedEnds
  BY DEF SlotInv
<1> QED
  BY <1>1, InitKeeps, StepKeeps, PTL DEF ClearSpec

\* Where nobody pops another turn's entry, no turn is ever cut: one run per thread.
THEOREM OneRunUncleared == Spec => []OneRun
<1> DEFINE Uncut == SlotInv /\ cut = {}
<1>1. Init => Uncut
  BY InitKeeps DEF Init
<1>2. Uncut /\ [Next]_vars => Uncut'
  <2> SUFFICES ASSUME Uncut, [Next]_vars PROVE cut' = {}
    BY StepKeeps DEF ClearNext
  <2>1. ASSUME NEW t \in Turns, Arrive(t) \/ CancelWaiting(t) \/ Stop(t) \/ Retry(t)
        PROVE  cut' = {}
    BY <2>1 DEF Arrive, CancelWaiting, Leaves, Stop, Retry
  <2>2. ASSUME NEW t \in Turns, Proceeds(t) PROVE cut' = {}
    <3>1. CASE Attempt(t)
      BY <3>1, ThreadAssumption DEF Attempt, SlotInv, Named, Entered, Live
    <3> QED
      BY <2>2, <3>1 DEF Proceeds, Evict, Awaited, Register, PrepareFails, Announce, AnnounceFails,
                  Run, RunEnds, Pop, TurnDone, NextTurn, BuildOver
  <2>3. ASSUME NEW p \in Callers, Ask(p) \/ Serves(p) PROVE cut' = {}
    BY <2>3 DEF Ask, Serves, Close, RequestClose, Complete, CheckActive, MarkClosed,
                Reopen, Reopened, slot
  <2>4. CASE Boots \/ Reconcile \/ Unload \/ Exit
    BY <2>4 DEF Boots, Reconcile, Unload, Exit, LoadCapacity, FindResume, DeleteResume,
                SpawnResume, Spawn, slot
  <2>5. CASE UNCHANGED vars
    BY <2>5 DEF vars, slot
  <2> QED
    BY <2>1, <2>2, <2>3, <2>4, <2>5 DEF Next
<1>3. Uncut => OneRun
  BY DEF SlotInv, Named, Entered, Live, OneRun
<1> QED
  BY <1>1, <1>2, <1>3, PTL DEF Spec
-----------------------------------------------------------------------------
(* The line holds each turn once: whoever stands in it is in phase 1 or     *)
(* waits for it, so that an idle turn that joins is not there yet.          *)

InLine == {"lock"} \cup Phase1
LineInv == IsInjective(lock) /\ \A i \in DOMAIN lock : pc[lock[i]] \in InLine

\* What Append, Tail and RemoveAt do to a line without repetition.
LEMMA AppendOne ==
    ASSUME NEW S, NEW s \in Seq(S), NEW x \in S, IsInjective(s), \A i \in DOMAIN s : s[i] # x
    PROVE  /\ IsInjective(Append(s, x))
           /\ \A i \in DOMAIN Append(s, x) : (i \in DOMAIN s /\ Append(s, x)[i] = s[i]) \/ Append(s, x)[i] = x
BY DEF IsInjective

LEMMA TailOne ==
    ASSUME NEW S, NEW s \in Seq(S), IsInjective(s), s # <<>>
    PROVE  /\ IsInjective(Tail(s))
           /\ \A i \in DOMAIN Tail(s) : i + 1 \in DOMAIN s /\ Tail(s)[i] = s[i + 1] /\ s[i + 1] # Head(s)
BY DEF IsInjective

LEMMA RemoveOne ==
    ASSUME NEW S, NEW s \in Seq(S), IsInjective(s), NEW j \in DOMAIN s
    PROVE  /\ IsInjective(RemoveAt(s, j))
           /\ \A i \in DOMAIN RemoveAt(s, j) : \E k \in DOMAIN s \ {j} : RemoveAt(s, j)[i] = s[k]
<1> DEFINE r == RemoveAt(s, j)
           before == SubSeq(s, 1, j - 1)
           after == SubSeq(s, j + 1, Len(s))
<1>1. Len(s) \in Nat /\ DOMAIN s = 1..Len(s) /\ j \in 1..Len(s)
  OBVIOUS
<1>2. before \in Seq(S) /\ Len(before) = j - 1 /\ \A i \in 1..(j - 1) : before[i] = s[i]
  <2>1. CASE j - 1 = 0
    BY <1>1, <2>1, SubSeqProperties
  <2>2. CASE j - 1 > 0
    BY <1>1, <2>2, SubSeqProperties
  <2> QED
    BY <1>1, <2>1, <2>2
<1>3. /\ after \in Seq(S) /\ Len(after) = Len(s) - j
      /\ \A i \in 1..(Len(s) - j) : after[i] = s[j + i]
  <2>1. j \in Nat /\ j + 1 \in Int /\ Len(s) \in Int /\ j <= Len(s)
    BY <1>1
  <2>2. \A i \in (j + 1)..Len(s) : s[i] \in S
    BY <1>1
  <2>3. /\ after \in Seq(S)
        /\ Len(after) = IF j + 1 <= Len(s) THEN Len(s) - (j + 1) + 1 ELSE 0
        /\ \A i \in 1..(Len(s) - (j + 1) + 1) : after[i] = s[(j + 1) + i - 1]
    BY <2>1, <2>2, SubSeqProperties
  <2> QED
    BY <2>1, <2>3
<1>4. r = before \o after
  BY DEF RemoveAt
<1> HIDE DEF before, after
<1>5. r \in Seq(S) /\ Len(r) = Len(s) - 1
  <2>1. r \in Seq(S) /\ Len(r) = Len(before) + Len(after)
    BY <1>2, <1>3, <1>4, ConcatProperties
  <2> QED
    BY <1>1, <1>2, <1>3, <2>1
<1>6. \A i \in 1..Len(r) : r[i] = IF i < j THEN s[i] ELSE s[i + 1]
  <2>1. \A i \in 1..Len(r) : r[i] = IF i <= Len(before) THEN before[i] ELSE after[i - Len(before)]
    <3>1. before \in Seq(S) /\ after \in Seq(S) /\ Len(before) + Len(after) = Len(r)
      BY <1>1, <1>2, <1>3, <1>5
    <3>2. \A i \in 1..(Len(before) + Len(after)) :
              (before \o after)[i] = IF i <= Len(before) THEN before[i] ELSE after[i - Len(before)]
      BY <3>1, ConcatProperties, Zenon
    <3> HIDE DEF r
    <3> QED
      BY <1>4, <3>1, <3>2, Zenon
  <2> HIDE DEF r
  <2>2. ASSUME NEW i \in 1..Len(r), i < j PROVE r[i] = s[i]
    BY <1>1, <1>2, <1>5, <2>1, <2>2
  <2>3. ASSUME NEW i \in 1..Len(r), ~ i < j PROVE r[i] = s[i + 1]
    <3> DEFINE k == i - Len(before)
    <3>1. k \in 1..(Len(s) - j) /\ ~ i <= Len(before) /\ j + k = i + 1
      BY <1>1, <1>2, <1>5, <2>3
    <3>2. r[i] = after[k]
      BY <2>1, <3>1
    <3> HIDE DEF k
    <3>3. after[k] = s[j + k]
      BY <1>3, <3>1
    <3> QED
      BY <3>1, <3>2, <3>3
  <2> QED
    BY <2>2, <2>3
<1>7. DOMAIN r = 1..Len(r)
  BY <1>5
<1> HIDE DEF r
<1> DEFINE at(i) == IF i < j THEN i ELSE i + 1
<1>8. \A i \in 1..Len(r) : r[i] = s[at(i)] /\ at(i) \in 1..Len(s) /\ at(i) # j
  BY <1>1, <1>5, <1>6
<1>9. \A i, k \in 1..Len(r) : at(i) = at(k) => i = k
  BY <1>1, <1>5
<1>10. \A i, k \in 1..Len(r) : r[i] = r[k] => at(i) = at(k)
  BY <1>1, <1>8 DEF IsInjective
<1>11. IsInjective(r)
  BY <1>7, <1>9, <1>10 DEF IsInjective
<1> QED
  BY <1>1, <1>7, <1>8, <1>11 DEF r

\* Whoever joins the line is not in it, and whoever leaves its head holds it.
LEMMA JoinsOnce ==
    ASSUME SlotInv, LineInv, NEW t \in Turns, pc[t] \in {"idle", "between"}, To(t, "lock"),
           lock' = Append(lock, t)
    PROVE  LineInv'
<1>1. lock \in Seq(Turns) /\ pc \in [Turns -> Places] /\ \A i \in DOMAIN lock : lock[i] # t
  BY DEF SlotInv, SlotType, LineInv, InLine, Phase1
<1>2. /\ IsInjective(lock')
      /\ \A i \in DOMAIN lock' : (i \in DOMAIN lock /\ lock'[i] = lock[i]) \/ lock'[i] = t
  BY <1>1, AppendOne DEF LineInv
<1> QED
  BY <1>1, <1>2 DEF LineInv, To, InLine

LEMMA HeadLeaves ==
    ASSUME SlotInv, LineInv, NEW t \in Turns, NEW p, pc[t] \in Phase1, To(t, p), lock' = Tail(lock)
    PROVE  LineInv'
<1>1. lock \in Seq(Turns) /\ lock # <<>> /\ Head(lock) = t /\ pc \in [Turns -> Places]
  BY DEF SlotInv, SlotType, OneHolder, Holds
<1>2. /\ IsInjective(lock')
      /\ \A i \in DOMAIN lock' : i + 1 \in DOMAIN lock /\ lock'[i] = lock[i + 1] /\ lock[i + 1] # t
  BY <1>1, TailOne DEF LineInv
<1>3. \A i \in DOMAIN lock' : pc'[lock'[i]] = pc[lock[i + 1]]
  BY <1>1, <1>2 DEF To
<1> QED
  BY <1>2, <1>3 DEF LineInv

LEMMA WaiterLeaves ==
    ASSUME SlotInv, LineInv, NEW t \in Turns, CancelWaiting(t) PROVE LineInv'
<1>1. PICK j \in DOMAIN lock : lock[j] = t /\ lock' = RemoveAt(lock, j)
  BY DEF CancelWaiting
<1>2. lock \in Seq(Turns) /\ pc \in [Turns -> Places] /\ pc' = [pc EXCEPT ![t] = "idle"]
  BY DEF SlotInv, SlotType, CancelWaiting, Leaves, To
<1>3. /\ IsInjective(lock')
      /\ \A i \in DOMAIN lock' : \E k \in DOMAIN lock \ {j} : lock'[i] = lock[k]
  BY <1>1, <1>2, RemoveOne DEF LineInv
<1>4. \A k \in DOMAIN lock \ {j} : lock[k] \in Turns /\ lock[k] # t /\ pc[lock[k]] \in InLine
  BY <1>1, <1>2 DEF LineInv, IsInjective
<1> QED
  BY <1>2, <1>3, <1>4 DEF LineInv

\* A turn that stays in line or is not in it moves: the line does not.
LEMMA LineStands ==
    ASSUME SlotInv, LineInv, NEW t \in Turns, NEW p, To(t, p), UNCHANGED lock,
           p \in InLine \/ pc[t] \notin InLine
    PROVE  LineInv'
BY DEF SlotInv, SlotType, LineInv, To

LEMMA LineProceeds ==
    ASSUME SlotInv, LineInv, NEW t \in Turns, Proceeds(t) \/ Stop(t) \/ Retry(t)
    PROVE  LineInv'
<1>1. CASE PrepareFails(t)
  BY <1>1, HeadLeaves DEF PrepareFails, TurnOver, Done, Phase1
<1>2. CASE Announce(t)
  BY <1>2, HeadLeaves DEF Announce, Phase1
<1>3. CASE AnnounceFails(t)
  BY <1>3, HeadLeaves DEF AnnounceFails, TurnOver, Done, Phase1
<1>4. CASE Evict(t) \/ Awaited(t) \/ Register(t)
  BY <1>4, LineStands DEF Evict, Awaited, Register, InLine, Phase1
<1>5. CASE \/ Attempt(t) \/ Run(t) \/ RunEnds(t) \/ Retry(t) \/ Pop(t) \/ Stop(t)
          \/ TurnDone(t) \/ BuildOver(t)
  BY <1>5, LineStands
     DEF Attempt, Run, RunEnds, Retry, Pop, Stop, TurnDone, BuildOver, TurnOver, Done, InLine, Phase1,
         Live
<1>6. CASE NextTurn(t)
  BY <1>6, JoinsOnce DEF NextTurn
<1> QED
  BY <1>1, <1>2, <1>3, <1>4, <1>5, <1>6 DEF Proceeds

\* The rest of the state.
Steps == {"none", "close", "request", "complete", "active", "mark", "reopen", "write",
          "save", "delete"}
RestType ==
    /\ row \in {"none", "open", "closing", "closed"} /\ call \in [Callers -> Steps]
    /\ resume \in BOOLEAN /\ owed \in Int /\ restarts \in 0..MaxRestarts
    /\ ready \in {"down", "reconcile", "reconciling", "found", "spawn", "up", "unloaded"}

\* A resume in hand is one that was marked: its row is read, deleted, then spawned.
ResumeInv ==
    /\ owed >= 0 /\ (resume \/ ready \in {"found", "spawn"} => owed >= 1)
    /\ ready = "spawn" => ~resume

RestInv == RestType /\ ResumeInv

LEMMA RestTurn ==
    ASSUME RestInv, NEW t \in Turns, Arrive(t) \/ CancelWaiting(t) \/ Stop(t) \/ Retry(t) \/ Proceeds(t)
    PROVE  RestInv'
<1>1. CASE Arrive(t) \/ CancelWaiting(t) \/ Stop(t) \/ Retry(t)
  BY <1>1 DEF RestInv, RestType, ResumeInv, Arrive, CancelWaiting, Leaves, Stop, Retry, session, boot
<1>2. CASE Evict(t) \/ Awaited(t) \/ Register(t) \/ PrepareFails(t) \/ Announce(t)
  BY <1>2 DEF RestInv, RestType, ResumeInv, Evict, Awaited, Register, PrepareFails, Announce,
              session, boot
<1>3. CASE \/ AnnounceFails(t) \/ Attempt(t) \/ RunEnds(t) \/ TurnDone(t) \/ NextTurn(t)
          \/ BuildOver(t)
  BY <1>3 DEF RestInv, RestType, ResumeInv, AnnounceFails, Attempt, RunEnds, TurnDone, NextTurn,
              BuildOver, session, boot
<1>4. CASE Run(t) \/ Pop(t)
  BY <1>4 DEF RestInv, RestType, ResumeInv, Run, Pop, boot, Steps, Callers
<1> QED
  BY <1>1, <1>2, <1>3, <1>4 DEF Proceeds

LEMMA RestCall ==
    ASSUME RestInv, NEW p \in Callers, Ask(p) \/ Serves(p) \/ Cleared PROVE RestInv'
<1>1. "close" \in Callers /\ "reopen" \in Callers /\ "clear" \in Callers
  BY DEF Callers
<1>2. CASE Ask(p) \/ Complete(p) \/ CheckActive(p) \/ MarkClosed(p)
  BY <1>2 DEF RestInv, RestType, ResumeInv, Ask, Complete, CheckActive, MarkClosed,
              Returns, Goes, Steps, boot
<1>3. CASE Close \/ RequestClose \/ Reopen \/ Reopened \/ Cleared
  BY <1>1, <1>3 DEF RestInv, RestType, ResumeInv, Close, RequestClose, Reopen, Reopened, Cleared,
                    Returns, Goes, Steps, boot
<1> QED
  BY <1>2, <1>3 DEF Serves

LEMMA RestBoot ==
    ASSUME RestInv, Boots \/ Reconcile \/ Unload \/ Exit \/ Clear PROVE RestInv'
<1>1. "ready" \in Callers /\ "clear" \in Callers
  BY DEF Callers
<1>2. CASE LoadCapacity \/ Reconcile \/ Clear
  BY <1>1, <1>2 DEF RestInv, RestType, ResumeInv, LoadCapacity, Reconcile, Clear, Goes, Steps, boot
<1>3. CASE FindResume \/ DeleteResume
  BY <1>3 DEF RestInv, RestType, ResumeInv, FindResume, DeleteResume, session
<1>4. CASE SpawnResume
  BY <1>4 DEF RestInv, RestType, ResumeInv, SpawnResume
<1>5. CASE Unload \/ Exit
  <2>1. CASE Exit
    <3>1. restarts + 1 \in 0..MaxRestarts /\ ready' = "down"
      BY <2>1, ThreadAssumption DEF RestInv, RestType, Exit, ThreadAssumption
    <3>2. call' \in [Callers -> Steps]
      BY <2>1 DEF Exit, Steps
    <3>3. RestType'
      BY <2>1, <3>1, <3>2 DEF RestInv, RestType, Exit
    <3> QED
      BY <2>1, <3>1, <3>3 DEF RestInv, ResumeInv, Exit
  <2>2. CASE Unload
    <3>1. resume' \in BOOLEAN /\ (resume' => resume \/ runner # None)
      BY <2>2 DEF RestInv, RestType, Unload
    <3>2. RestType'
      BY <2>2, <3>1 DEF RestInv, RestType, Unload, session
    <3>3. ResumeInv'
      BY <2>2, <3>1 DEF RestInv, RestType, ResumeInv, Unload
    <3> QED
      BY <3>2, <3>3 DEF RestInv
  <2> QED
    BY <1>5, <2>1, <2>2
<1> QED
  BY <1>2, <1>3, <1>4, <1>5 DEF Boots

WholeInv == SlotInv /\ LineInv /\ RestInv

LEMMA WholeInit == Init => WholeInv
<1> SUFFICES ASSUME Init PROVE LineInv /\ RestInv
  BY InitKeeps DEF WholeInv
<1>1. LineInv
  BY DEF Init, LineInv, IsInjective
<1>2. RestInv
  <2>1. 0 \in 0..MaxRestarts
    BY ThreadAssumption DEF ThreadAssumption
  <2>2. call \in [Callers -> Steps]
    BY DEF Init, Steps
  <2>3. resume \in BOOLEAN
    BY DEF Init
  <2>4. RestType
    BY <2>1, <2>2, <2>3 DEF Init, RestType
  <2> QED
    BY <2>4 DEF Init, RestInv, ResumeInv
<1> QED
  BY <1>1, <1>2

LEMMA WholeStep == WholeInv /\ [ClearNext]_vars => WholeInv'
<1> SUFFICES ASSUME WholeInv, [ClearNext]_vars PROVE LineInv' /\ RestInv'
  BY StepKeeps DEF WholeInv
<1> USE DEF WholeInv
<1>1. CASE UNCHANGED vars
  BY <1>1 DEF vars, slot, session, boot, LineInv, RestInv, RestType, ResumeInv
<1>2. ASSUME NEW t \in Turns, Arrive(t) \/ CancelWaiting(t) \/ Stop(t) \/ Retry(t) \/ Proceeds(t)
      PROVE  LineInv' /\ RestInv'
  BY <1>2, RestTurn, JoinsOnce, WaiterLeaves, LineProceeds DEF Arrive
<1>3. ASSUME NEW p \in Callers, Ask(p) \/ Serves(p) PROVE LineInv' /\ RestInv'
  <2>1. UNCHANGED slot
    BY <1>3 DEF Ask, Serves, Close, RequestClose, Complete, CheckActive, MarkClosed,
                Reopen, Reopened
  <2>2. LineInv'
    BY <2>1 DEF LineInv, slot
  <2> QED
    BY <1>3, <2>2, RestCall
<1>4. CASE Boots \/ Reconcile \/ Unload
  <2>1. UNCHANGED slot \/ \E t \in Turns : Spawn(t)
    BY <1>4 DEF Boots, Reconcile, Unload, LoadCapacity, FindResume, DeleteResume, SpawnResume
  <2>2. LineInv'
    BY <2>1, JoinsOnce DEF LineInv, slot, Spawn
  <2> QED
    BY <1>4, <2>2, RestBoot
<1>5. CASE Clear
  <2>1. LineInv'
    BY <1>5 DEF Clear, LineInv
  <2> QED
    BY <1>5, <2>1, RestBoot
<1>6. CASE Exit
  <2>1. LineInv'
    BY <1>6 DEF Exit, LineInv, IsInjective
  <2> QED
    BY <1>6, <2>1, RestBoot
<1>7. CASE Cleared
  <2>1. LineInv'
    BY <1>7 DEF Cleared, LineInv, slot
  <2>2. "clear" \in Callers
    BY DEF Callers
  <2> QED
    BY <1>7, <2>1, <2>2, RestCall
<1> QED
  BY <1>1, <1>2, <1>3, <1>4, <1>5, <1>6, <1>7 DEF ClearNext, Next

\* Every variable of the thread has its type; in particular nobody waits for the
\* lock twice, however often replies are queued, cancelled, resumed and lost.
THEOREM TypeCorrect == ClearSpec => []TypeOK
<1>1. WholeInv => TypeOK
  BY DEF WholeInv, SlotInv, SlotType, LineInv, RestInv, RestType, Steps, TypeOK
<1> QED
  BY <1>1, WholeInit, WholeStep, PTL DEF ClearSpec

\* The row of pending_resumes is deleted before a turn is started from it, so that a
\* crash or a reconnect at any point starts no second one.
THEOREM ResumesOnce == ClearSpec => []ResumedOnce
<1>1. WholeInv => ResumedOnce
  BY DEF WholeInv, RestInv, ResumeInv, ResumedOnce
<1> QED
  BY <1>1, WholeInit, WholeStep, PTL DEF ClearSpec
=============================================================================
