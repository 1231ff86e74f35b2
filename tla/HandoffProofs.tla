---------------------------- MODULE HandoffProofs ----------------------------
(***************************************************************************)
(* What HandoffLedger keeps for every set of tasks, passes and turns, any  *)
(* number of crashes and every fault: its types; the answers (a completed  *)
(* job has its answer on record, the ledger implements HandoffPromise, a   *)
(* closed attempt is never opened again); the job rows (a finished job     *)
(* stays finished but for the safe retry of its failure); and, when no     *)
(* message is handled before the first on_ready, the attempts (they follow *)
(* the job's number, and a process works on each at most once).            *)
(***************************************************************************)
EXTENDS HandoffLedger, TLAPS

\* A pass only holds a job to requeue when a safe retry of it is legal; without
\* this the attempt number could leave its range.
RetryInHand == \A p \in Passes : pass[p].pc = "retry" => CanRetry(pass[p].cur.job)

TypeInv == TypeOK /\ RetryInHand

-----------------------------------------------------------------------------
(* The operators of HandoffState and of the repository.                    *)

LEMMA NoJobType == NoJob \in Job /\ AcceptedJob \in Job
<1>1. 1 \in 1..MaxAttempts
  BY MaxAttemptsAssumption
<1> QED
  BY <1>1 DEF NoJob, AcceptedJob, FreshJob, Job, States

LEMMA TargetType == \A tr \in Triggers : Target[tr] \in States
  BY DEF Target, Triggers, States

\* Applying a trigger to a row gives a row; only a retry needs an attempt to spend.
LEMMA ApplyType ==
  ASSUME NEW j \in Job, NEW tr \in Triggers, NEW r \in BOOLEAN,
         tr = "retry" => j.attempt < MaxAttempts
  PROVE  Apply(j, tr, r) \in Job
<1>1. Target[tr] \in States
  BY TargetType
<1>2. (IF tr = "retry" THEN j.attempt + 1 ELSE j.attempt) \in 1..MaxAttempts
  BY MaxAttemptsAssumption DEF Job
<1>3. (r /\ tr = "fail") \in BOOLEAN /\ (tr = "capacity_wait") \in BOOLEAN
  OBVIOUS
<1> QED
  BY <1>1, <1>2, <1>3 DEF Apply, Job

LEMMA SaveType ==
  ASSUME job \in [Tasks -> Job], NEW t \in Tasks, NEW seen \in Job,
         NEW tr \in Triggers, NEW r \in BOOLEAN,
         tr = "retry" => seen.attempt < MaxAttempts,
         SaveTransition(t, seen, tr, r)
  PROVE  job' \in [Tasks -> Job]
  BY ApplyType DEF SaveTransition

LEMMA FinishType ==
  ASSUME attempts \in [Tasks -> [1..MaxAttempts -> AttemptStates]],
         NEW t \in Tasks, NEW n \in 1..MaxAttempts, NEW how \in AttemptStates,
         FinishAttempt(t, n, how)
  PROVE  attempts' \in [Tasks -> [1..MaxAttempts -> AttemptStates]]
  BY DEF FinishAttempt

LEMMA OpenType ==
  ASSUME attempts \in [Tasks -> [1..MaxAttempts -> AttemptStates]],
         NEW t \in Tasks, NEW n \in 1..MaxAttempts,
         OpenAttempt(t, n)
  PROVE  attempts' \in [Tasks -> [1..MaxAttempts -> AttemptStates]]
  BY DEF OpenAttempt, AttemptStates

LEMMA SnapType ==
  ASSUME LedgerOK, WorldOK, NEW t \in Tasks
  PROVE  Snap(t) \in Snapshot
  BY DEF Snap, Snapshot, LedgerOK, WorldOK

LEMMA IdleTypes ==
  /\ IdleRecon \in ReconType
  /\ IdlePass \in PassType
  /\ IdleTurn \in TurnType
  /\ IdleCourier \in CourierType
  BY NoJobType DEF IdleRecon, ReconType, IdlePass, PassType, IdleTurn, TurnType,
     IdleCourier, CourierType, Outcomes

-----------------------------------------------------------------------------
(* Types: the initial state, then one lemma per process, one step per      *)
(* action of it.                                                           *)

LEMMA TypeInit == Init => TypeInv
<1> SUFFICES ASSUME Init PROVE TypeInv
  OBVIOUS
<1> USE IdleTypes DEF Init
<1>1. LedgerOK
  BY NoJobType DEF LedgerOK, AttemptStates, Outcomes
<1>2. ReconOK
  BY DEF ReconOK, IdleRecon
<1>3. PassOK
  BY DEF PassOK, IdlePass
<1>4. TurnOK
  BY DEF TurnOK, IdleTurn
<1>5. CourierOK
  BY DEF CourierOK, IdleCourier
<1>6. WorldOK
  BY LedgerAssumption DEF WorldOK
<1>7. RetryInHand
  BY DEF RetryInHand, IdlePass
<1> QED
  BY <1>1, <1>2, <1>3, <1>4, <1>5, <1>6, <1>7 DEF TypeInv, TypeOK

LEMMA TypeStutter == TypeInv /\ UNCHANGED vars => TypeInv'
  BY DEF TypeInv, TypeOK, LedgerOK, ReconOK, PassOK, TurnOK, CourierOK, WorldOK, RetryInHand,
     vars, durable, volatile, environment

LEMMA TypeTask ==
  ASSUME TypeInv, NEW t \in Tasks, TaskStep(t)
  PROVE  TypeInv'
<1> USE NoJobType DEF TypeInv, TypeOK, LedgerOK, ReconOK, PassOK, TurnOK, CourierOK, WorldOK,
    RetryInHand, environment, volatile, durable
<1>1. CASE Receive(t)
  BY <1>1 DEF Receive
<1>2. CASE \E p \in LegacyPasses : LegacyReceive(p, t)
  <2>1. PICK p \in LegacyPasses : LegacyReceive(p, t)
    BY <1>2
  <2>2. p \in Passes /\ pass[p] \in PassType
    BY DEF Passes
  <2>3. [pass[p] EXCEPT !.pc = "list"] \in PassType
    BY <2>2 DEF PassType
  <2>4. pass' = [pass EXCEPT ![p] = [pass[p] EXCEPT !.pc = "list"]]
    BY <2>1 DEF LegacyReceive
  <2>5. PassOK' /\ RetryInHand'
    BY <2>2, <2>3, <2>4 DEF PassType
  <2> QED
    BY <2>1, <2>5 DEF LegacyReceive
<1>3. CASE Discover(t)
  BY <1>3 DEF Discover
<1>4. CASE Exhaust(t)
  BY <1>4 DEF Exhaust
<1>5. CASE Expire(t)
  BY <1>5 DEF Expire
<1> QED
  BY <1>1, <1>2, <1>3, <1>4, <1>5 DEF TaskStep

LEMMA TypeOnReady ==
  ASSUME TypeInv, OnReady \/ OnReadyStep
  PROVE  TypeInv'
<1> USE DEF TypeInv, TypeOK, LedgerOK, ReconOK, PassOK, TurnOK, CourierOK, WorldOK,
    RetryInHand, environment, volatile, durable, ReconType
<1>1. CASE OnReady
  <2>1. {Snap(t) : t \in {u \in Tasks : job[u].state = "running"}} \in SUBSET Snapshot
    BY SnapType
  <2>2. recon' \in ReconType
    <3>1. CASE reconciled
      <4>1. recon' = [recon EXCEPT !.pc = "scan"]
        BY <1>1, <3>1 DEF OnReady
      <4> QED
        BY <4>1 DEF ReconType
    <3>2. CASE ~reconciled
      <4>1. recon' = [pc |-> "requeue", cur |-> NoSnap,
                      todo |-> {Snap(t) : t \in {u \in Tasks : job[u].state = "running"}}]
        BY <1>1, <3>2 DEF OnReady, IdleRecon
      <4> QED
        BY <4>1, <2>1 DEF ReconType
    <3> QED
      BY <3>1, <3>2
  <2>3. reconnects' \in 0..MaxReconnects
    BY <1>1, LedgerAssumption DEF OnReady
  <2>4. recon'.pc # "interrupt"
    BY <1>1, <2>1 DEF OnReady, IdleRecon
  <2> QED
    BY <1>1, <2>2, <2>3, <2>4 DEF OnReady
<1>2. CASE \E s \in recon.todo : Requeue(s)
  <2>1. PICK s \in recon.todo : Requeue(s)
    BY <1>2
  <2>2. s \in Snapshot
    BY <2>1
  <2>3. job' \in [Tasks -> Job]
    BY <2>1, <2>2, SaveType DEF Requeue, Snapshot, Triggers
  <2> QED
    BY <2>1, <2>2, <2>3 DEF Requeue
<1>3. CASE Interrupt
  <2>1. attempts' \in [Tasks -> [1..MaxAttempts -> AttemptStates]]
    BY <1>3, FinishType DEF Interrupt, Snapshot, Job, AttemptStates
  <2> QED
    BY <1>3, <2>1 DEF Interrupt
<1>4. CASE RequeueDone
  BY <1>4 DEF RequeueDone
<1>5. CASE ScanDone
  BY <1>5, IdleTypes DEF ScanDone, IdleRecon
<1> QED
  BY <1>1, <1>2, <1>3, <1>4, <1>5 DEF OnReadyStep

\* A pass that moves to a well-formed record keeps what is said of passes.
LEMMA PassMoves ==
  ASSUME PassOK, RetryInHand, NEW p \in Passes, NEW r \in PassType,
         r.pc \notin {"idle", "list", "next"} => r.cur \in Snapshot,
         r.pc = "retry" => CanRetry(r.cur.job),
         pass' = [pass EXCEPT ![p] = r]
  PROVE  PassOK' /\ RetryInHand'
  BY DEF PassOK, RetryInHand

LEMMA TypePass ==
  ASSUME TypeInv, NEW p \in Passes, PassStep(p)
  PROVE  TypeInv'
<1> DEFINE c == pass[p].cur
<1> USE DEF TypeInv, TypeOK
<1>a. /\ pass[p] \in PassType
      /\ pass[p].pc \notin {"idle", "list", "next"} => c \in Snapshot
      /\ \A s \in pass[p].todo : s \in Snapshot
  BY DEF PassOK, PassType
<1>b. \A s \in Snapshot : /\ s.task \in Tasks /\ s.job \in Job
                           /\ s.job.attempt \in 1..MaxAttempts
  BY DEF Snapshot, Job
<1>c. ASSUME PassOK' /\ RetryInHand', LedgerOK', UNCHANGED <<reconciled, recon, turn, courier>>,
             UNCHANGED environment, UNCHANGED sent, due' \in Nat,
             begun' \in [Tasks -> [1..MaxAttempts -> Nat]]
      PROVE  TypeInv'
  BY <1>c DEF ReconOK, TurnOK, CourierOK, WorldOK, environment
<1>d. due \in Nat /\ begun \in [Tasks -> [1..MaxAttempts -> Nat]]
  BY DEF ReconOK, WorldOK
<1>e. UNCHANGED durable => LedgerOK'
  BY DEF LedgerOK, durable
<1>1. CASE PassBegin(p)
  <2> DEFINE r == [pc |-> "next", todo |-> {Snap(t) : t \in Startable}, cur |-> NoSnap, started |-> 0]
  <2>1. {Snap(t) : t \in Startable} \in SUBSET Snapshot
    BY SnapType DEF Startable
  <2>2. r \in PassType /\ r.pc = "next"
    BY <2>1 DEF PassType
  <2>3. pass' = [pass EXCEPT ![p] = r]
    BY <1>1 DEF PassBegin
  <2>4. PassOK' /\ RetryInHand'
    <3> HIDE DEF r
    <3> QED BY <2>2, <2>3, PassMoves
  <2>5. due' \in Nat
    BY <1>1, <1>d DEF PassBegin
  <2> QED
    BY <1>1, <2>4, <2>5, <1>c, <1>d, <1>e DEF PassBegin
<1>2. CASE PassEnd(p)
  <2>1. PassOK' /\ RetryInHand'
    BY <1>2, IdleTypes, PassMoves DEF PassEnd, IdlePass
  <2> QED
    BY <1>2, <2>1, <1>c, <1>d, <1>e DEF PassEnd
<1>3. ASSUME NEW s \in pass[p].todo, PassSkips(p, s) PROVE TypeInv'
  <2> DEFINE r == [pass[p] EXCEPT !.todo = @ \ {s}]
  <2>1. r \in PassType /\ r.pc = "next"
    BY <1>3, <1>a DEF PassSkips, Takes, PassType
  <2>2. pass' = [pass EXCEPT ![p] = r]
    BY <1>3, <1>a DEF PassSkips, Drop, PassType, PassOK
  <2>3. PassOK' /\ RetryInHand'
    <3> HIDE DEF r
    <3> QED BY <2>1, <2>2, PassMoves
  <2>4. job' \in [Tasks -> Job]
    BY <1>3, <1>a, <1>b, SaveType DEF PassSkips, LedgerOK, Triggers
  <2>5. LedgerOK'
    BY <1>3, <2>4 DEF PassSkips, LedgerOK
  <2> QED
    BY <1>3, <2>3, <2>5, <1>c, <1>d DEF PassSkips
<1>4. ASSUME NEW s \in pass[p].todo, PassClaim(p, s) PROVE TypeInv'
  <2> DEFINE pc == IF Claimable(s.task, s.job.attempt) THEN "start" ELSE "reclaim"
             r == [pass[p] EXCEPT !.pc = pc, !.todo = @ \ {s}, !.cur = s]
  <2>1. s \in Snapshot
    BY <1>a
  <2>2. r \in PassType /\ r.pc # "retry" /\ r.cur = s
    BY <1>a, <2>1 DEF PassType
  <2>3. pass' = [pass EXCEPT ![p] = r]
    BY <1>4, <1>a DEF PassClaim, PassType, PassOK
  <2>4. PassOK' /\ RetryInHand'
    <3> HIDE DEF r
    <3> QED BY <2>1, <2>2, <2>3, PassMoves
  <2>5. attempts' \in [Tasks -> [1..MaxAttempts -> AttemptStates]]
    BY <1>4, <2>1, <1>b, OpenType DEF PassClaim, LedgerOK
  <2>6. LedgerOK'
    BY <1>4, <2>5 DEF PassClaim, LedgerOK
  <2> QED
    BY <1>4, <2>4, <2>6, <1>c, <1>d DEF PassClaim
<1>5. CASE PassReclaim(p)
  <2> DEFINE won == Reclaimable(c.task, c.job.attempt)
             r == IF won THEN [pass[p] EXCEPT !.pc = "start"]
                  ELSE [pass[p] EXCEPT !.pc = "next", !.cur = NoSnap]
  <2>1. c \in Snapshot
    BY <1>5, <1>a DEF PassReclaim
  <2>2. r \in PassType /\ r.pc \in {"start", "next"} /\ (r.pc = "start" => r.cur = c)
    BY <1>a DEF PassType
  <2>3. pass' = [pass EXCEPT ![p] = r]
    BY <1>5, <1>a DEF PassReclaim, Goto, Finished, PassType, PassOK
  <2>4. PassOK' /\ RetryInHand'
    <3> HIDE DEF r
    <3> QED BY <2>1, <2>2, <2>3, PassMoves
  <2>5. attempts' \in [Tasks -> [1..MaxAttempts -> AttemptStates]]
    BY <1>5, <2>1, <1>b, OpenType DEF PassReclaim, LedgerOK
  <2>6. LedgerOK'
    BY <1>5, <2>5 DEF PassReclaim, LedgerOK
  <2> QED
    BY <1>5, <2>4, <2>6, <1>c, <1>d DEF PassReclaim
<1>6. CASE PassStart(p)
  <2> DEFINE j == Apply(c.job, "start", FALSE)
             r == IF Unmoved(c.task, c.job)
                  THEN [pass[p] EXCEPT !.pc = "spawn", !.cur = [c EXCEPT !.job = j]]
                  ELSE [pass[p] EXCEPT !.pc = "supersede"]
  <2>1. c \in Snapshot
    BY <1>6, <1>a DEF PassStart
  <2>2. j \in Job
    BY <2>1, <1>b, ApplyType DEF Triggers
  <2>3. [c EXCEPT !.job = j] \in Snapshot
    BY <2>1, <2>2 DEF Snapshot
  <2>4. r \in PassType /\ r.pc \in {"spawn", "supersede"} /\ r.cur \in Snapshot
    BY <1>a, <2>1, <2>3 DEF PassType
  <2>5. pass' = [pass EXCEPT ![p] = r]
    BY <1>6, <1>a DEF PassStart, PassType, PassOK
  <2>6. PassOK' /\ RetryInHand'
    <3> HIDE DEF r
    <3> QED BY <2>4, <2>5, PassMoves
  <2>7. job' \in [Tasks -> Job]
    BY <1>6, <2>1, <1>b, SaveType DEF PassStart, LedgerOK, Triggers
  <2>8. LedgerOK'
    BY <1>6, <2>7 DEF PassStart, LedgerOK
  <2> QED
    BY <1>6, <2>6, <2>8, <1>c, <1>d DEF PassStart
<1>7. CASE PassSupersede(p)
  <2> DEFINE r == [pass[p] EXCEPT !.pc = "next", !.cur = NoSnap]
  <2>1. c \in Snapshot
    BY <1>7, <1>a DEF PassSupersede
  <2>2. r \in PassType /\ r.pc = "next"
    BY <1>a DEF PassType
  <2>3. pass' = [pass EXCEPT ![p] = r]
    BY <1>7, <1>a DEF PassSupersede, Finished, PassType, PassOK
  <2>4. PassOK' /\ RetryInHand'
    <3> HIDE DEF r
    <3> QED BY <2>2, <2>3, PassMoves
  <2>5. attempts' \in [Tasks -> [1..MaxAttempts -> AttemptStates]]
    BY <1>7, <2>1, <1>b, FinishType DEF PassSupersede, LedgerOK, AttemptStates
  <2>6. LedgerOK'
    BY <1>7, <2>5 DEF PassSupersede, LedgerOK
  <2> QED
    BY <1>7, <2>4, <2>6, <1>c, <1>d DEF PassSupersede
<1>8. ASSUME NEW w \in Turns, PassSpawn(p, w) PROVE TypeInv'
  <2> DEFINE r == [pass[p] EXCEPT !.pc = "next", !.cur = NoSnap, !.started = @ + 1]
             v == [IdleTurn EXCEPT !.pc = "running", !.task = c.task]
  <2>1. c \in Snapshot
    BY <1>8, <1>a DEF PassSpawn
  <2>2. r \in PassType /\ r.pc = "next"
    <3>1. pass[p].started + 1 \in Nat
      BY <1>a DEF PassType
    <3> QED BY <1>a, <3>1 DEF PassType
  <2>3. pass' = [pass EXCEPT ![p] = r]
    BY <1>8, <1>a DEF PassSpawn, PassType, PassOK
  <2>4. PassOK' /\ RetryInHand'
    <3> HIDE DEF r
    <3> QED BY <2>2, <2>3, PassMoves
  <2>5. v \in TurnType /\ v.task \in Tasks
    BY <2>1, <1>b, IdleTypes DEF TurnType
  <2>6. turn' = [turn EXCEPT ![w] = v]
    BY <1>8 DEF PassSpawn
  <2>7. TurnOK'
    <3> HIDE DEF v
    <3> QED BY <2>5, <2>6 DEF TurnOK
  <2>8. begun' \in [Tasks -> [1..MaxAttempts -> Nat]]
    <3>1. begun' = [begun EXCEPT ![c.task][c.job.attempt] = @ + 1]
      BY <1>8 DEF PassSpawn
    <3>2. c.task \in Tasks /\ c.job.attempt \in 1..MaxAttempts
      BY <2>1, <1>b
    <3>3. begun[c.task][c.job.attempt] + 1 \in Nat
      <4>1. begun[c.task] \in [1..MaxAttempts -> Nat]
        BY <3>2, <1>d
      <4>2. \A f \in [1..MaxAttempts -> Nat], n \in 1..MaxAttempts : f[n] + 1 \in Nat
        OBVIOUS
      <4> QED BY <3>2, <4>1, <4>2, Zenon
    <3> QED BY <3>1, <3>2, <3>3, <1>d
  <2> QED
    BY <1>8, <2>4, <2>7, <2>8, <1>e DEF PassSpawn, ReconOK, CourierOK, WorldOK, environment
<1>9. CASE PassSpawnFails(p)
  <2> DEFINE r == [pass[p] EXCEPT !.pc = "close"]
  <2>1. r \in PassType /\ r.pc = "close" /\ r.cur \in Snapshot
    BY <1>9, <1>a DEF PassSpawnFails, PassType
  <2>2. pass' = [pass EXCEPT ![p] = r]
    BY <1>9, <1>a DEF PassSpawnFails, Goto, PassType, PassOK
  <2>3. PassOK' /\ RetryInHand'
    <3> HIDE DEF r
    <3> QED BY <2>1, <2>2, PassMoves
  <2> QED
    BY <1>9, <2>3, <1>c, <1>d, <1>e DEF PassSpawnFails
<1>10. CASE PassClose(p)
  <2> DEFINE r == [pass[p] EXCEPT !.pc = "fail"]
  <2>1. c \in Snapshot
    BY <1>10, <1>a DEF PassClose
  <2>2. r \in PassType /\ r.pc = "fail" /\ r.cur \in Snapshot
    BY <2>1, <1>a DEF PassType
  <2>3. pass' = [pass EXCEPT ![p] = r]
    BY <1>10, <1>a DEF PassClose, Goto, PassType, PassOK
  <2>4. PassOK' /\ RetryInHand'
    <3> HIDE DEF r
    <3> QED BY <2>2, <2>3, PassMoves
  <2>5. attempts' \in [Tasks -> [1..MaxAttempts -> AttemptStates]]
    BY <1>10, <2>1, <1>b, FinishType DEF PassClose, LedgerOK, AttemptStates, Outcomes
  <2>6. LedgerOK'
    BY <1>10, <2>5 DEF PassClose, LedgerOK
  <2> QED
    BY <1>10, <2>4, <2>6, <1>c, <1>d DEF PassClose
<1>11. CASE PassFail(p)
  <2> DEFINE j == Apply(c.job, "fail", TRUE)
             r == IF Unmoved(c.task, c.job) /\ CanRetry(j)
                  THEN [pass[p] EXCEPT !.pc = "retry", !.cur = [c EXCEPT !.job = j]]
                  ELSE [pass[p] EXCEPT !.pc = "next", !.cur = NoSnap]
  <2>1. c \in Snapshot
    BY <1>11, <1>a DEF PassFail
  <2>2. j \in Job
    BY <2>1, <1>b, ApplyType DEF Triggers
  <2>3. [c EXCEPT !.job = j] \in Snapshot /\ [c EXCEPT !.job = j].job = j
    BY <2>1, <2>2 DEF Snapshot
  <2>4. r \in PassType
    <3> HIDE DEF j
    <3> QED BY <1>a, <2>1, <2>3 DEF PassType
  <2>5. r.pc \in {"retry", "next"} /\ (r.pc = "retry" => r.cur \in Snapshot /\ CanRetry(r.cur.job))
    <3> HIDE DEF j
    <3> QED BY <1>a, <2>1, <2>3 DEF PassType
  <2>6. pass' = [pass EXCEPT ![p] = r]
    BY <1>11, <1>a DEF PassFail, Finished, PassType, PassOK
  <2>7. PassOK' /\ RetryInHand'
    <3> HIDE DEF r
    <3> QED BY <2>4, <2>5, <2>6, PassMoves
  <2>8. job' \in [Tasks -> Job]
    BY <1>11, <2>1, <1>b, SaveType DEF PassFail, LedgerOK, Triggers
  <2>9. LedgerOK'
    BY <1>11, <2>8 DEF PassFail, LedgerOK
  <2> QED
    BY <1>11, <2>7, <2>9, <1>c, <1>d DEF PassFail
<1>12. CASE PassRetry(p)
  <2> DEFINE r == [pass[p] EXCEPT !.pc = "next", !.cur = NoSnap]
  <2>1. c \in Snapshot
    BY <1>12, <1>a DEF PassRetry
  <2>2. r \in PassType /\ r.pc = "next"
    BY <1>a DEF PassType
  <2>3. pass' = [pass EXCEPT ![p] = r]
    BY <1>12, <1>a DEF PassRetry, Finished, PassType, PassOK
  <2>4. PassOK' /\ RetryInHand'
    <3> HIDE DEF r
    <3> QED BY <2>2, <2>3, PassMoves
  <2>5. c.job.attempt < MaxAttempts
    BY <1>12 DEF PassRetry, RetryInHand, CanRetry
  <2>6. job' \in [Tasks -> Job]
    BY <1>12, <2>1, <2>5, <1>b, SaveType DEF PassRetry, LedgerOK, Triggers
  <2>7. LedgerOK'
    BY <1>12, <2>6 DEF PassRetry, LedgerOK
  <2> QED
    BY <1>12, <2>4, <2>7, <1>c, <1>d DEF PassRetry
<1> QED
  BY <1>1, <1>2, <1>3, <1>4, <1>5, <1>6, <1>7, <1>8, <1>9, <1>10, <1>11, <1>12 DEF PassStep

\* A turn, and a courier, that move to a well-formed record keep their types.
LEMMA TurnMoves ==
  ASSUME TurnOK, NEW w \in Turns, NEW r \in TurnType, r.pc # "idle" => r.task \in Tasks,
         turn' = [turn EXCEPT ![w] = r]
  PROVE  TurnOK'
  BY DEF TurnOK

LEMMA CourierMoves ==
  ASSUME CourierOK, NEW k \in Couriers, NEW r \in CourierType,
         r.pc \in {"mark", "fail"} => r.cur \in Tasks,
         courier' = [courier EXCEPT ![k] = r]
  PROVE  CourierOK'
  BY DEF CourierOK

\* A sink that is over leaves an idle turn and an outbox pass to make.
LEMMA DeliverType ==
  ASSUME TypeInv, NEW w \in Turns, ThenDeliver(w)
  PROVE  TurnOK' /\ CourierOK'
<1>1. w \in Couriers /\ courier[w] \in CourierType
  BY DEF TypeInv, TypeOK, CourierOK, Couriers
<1>2. TurnOK'
  BY IdleTypes, TurnMoves DEF ThenDeliver, IdleTurn, TypeInv, TypeOK
<1> DEFINE r == [courier[w] EXCEPT !.pc = "due"]
<1>3. r \in CourierType /\ r.pc = "due"
  BY <1>1 DEF CourierType
<1>4. courier' = [courier EXCEPT ![w] = r]
  BY <1>1 DEF ThenDeliver, CourierType, TypeInv, TypeOK, CourierOK
<1>5. CourierOK'
  <2> HIDE DEF r
  <2> QED BY <1>1, <1>3, <1>4, CourierMoves DEF TypeInv, TypeOK
<1> QED
  BY <1>2, <1>5

LEMMA RecordType ==
  ASSUME LedgerOK, NEW t \in Tasks, NEW o \in Outcomes, RecordResult(t, o)
  PROVE  /\ result' \in [Tasks -> Outcomes \cup {"none"}]
         /\ outbox' \in [Tasks -> [status: {"none", "pending", "delivered", "abandoned"},
                                   tries: Nat]]
<1>1. result' \in [Tasks -> Outcomes \cup {"none"}]
  BY DEF LedgerOK, RecordResult
<1> DEFINE row == [status |-> "pending", tries |-> 0]
<1>2. row \in [status: {"none", "pending", "delivered", "abandoned"}, tries: Nat]
  OBVIOUS
<1>3. outbox' = [outbox EXCEPT ![t] = row] \/ outbox' = outbox
  BY DEF RecordResult
<1> HIDE DEF row
<1>4. outbox' \in [Tasks -> [status: {"none", "pending", "delivered", "abandoned"}, tries: Nat]]
  BY <1>2, <1>3 DEF LedgerOK
<1> QED
  BY <1>1, <1>4

LEMMA TypeTurn ==
  ASSUME TypeInv, NEW w \in Turns, TurnStep(w)
  PROVE  TypeInv'
<1> USE DEF TypeInv, TypeOK
<1>a. /\ turn[w] \in TurnType
      /\ turn[w].outcome \in Outcomes
      /\ turn[w].pc # "idle" => turn[w].task \in Tasks
  BY DEF TurnOK, TurnType
<1>b. ASSUME TurnOK', CourierOK', LedgerOK', UNCHANGED <<reconciled, recon, due, pass>>,
             UNCHANGED environment, UNCHANGED <<sent, begun>>
      PROVE  TypeInv'
  BY <1>b DEF ReconOK, PassOK, RetryInHand, WorldOK, environment
<1>c. UNCHANGED courier => CourierOK'
  BY DEF CourierOK
<1>d. UNCHANGED durable => LedgerOK'
  BY DEF LedgerOK, durable
<1>1. ASSUME NEW o \in Outcomes, TurnEnds(w, o) PROVE TypeInv'
  <2> DEFINE r == [turn[w] EXCEPT !.pc = "record", !.outcome = o]
  <2>1. r \in TurnType /\ r.task \in Tasks
    BY <1>1, <1>a DEF TurnEnds, TurnType
  <2>2. turn' = [turn EXCEPT ![w] = r]
    BY <1>1, <1>a DEF TurnEnds, TurnType, TurnOK
  <2>3. TurnOK'
    <3> HIDE DEF r
    <3> QED BY <2>1, <2>2, TurnMoves
  <2> QED
    BY <1>1, <2>3, <1>b, <1>c, <1>d DEF TurnEnds
<1>2. CASE TurnStopped(w)
  <2>1. TurnOK'
    BY <1>2, IdleTypes, TurnMoves DEF TurnStopped, IdleTurn
  <2> QED
    BY <1>2, <2>1, <1>b, <1>c, <1>d DEF TurnStopped
<1>3. CASE Record(w)
  <2> DEFINE t == turn[w].task
             r == [turn[w] EXCEPT !.pc = "read", !.outcome = "failed"]
             m == [turn[w] EXCEPT !.pc = "read", !.minted = TRUE]
  <2>0. t \in Tasks
    BY <1>3, <1>a DEF Record
  <2>1. /\ r \in TurnType /\ r.task \in Tasks
        /\ m \in TurnType /\ m.task \in Tasks
    BY <2>0, <1>a DEF TurnType, Outcomes
  <2>2. CASE t \in exhausted
    <3>1. turn' = [turn EXCEPT ![w] = r] /\ UNCHANGED <<result, outbox, courier>>
      BY <1>3, <2>2, <1>a DEF Record, TurnType, TurnOK
    <3>2. TurnOK'
      <4> HIDE DEF r
      <4> QED BY <2>1, <3>1, TurnMoves
    <3>3. LedgerOK'
      BY <1>3, <3>1 DEF Record, LedgerOK
    <3> QED
      BY <1>3, <3>1, <3>2, <3>3, <1>b, <1>c DEF Record
  <2>3. CASE t \notin exhausted
    <3>1. LedgerOK'
      <4>1. RecordResult(t, turn[w].outcome)
        BY <1>3, <2>3 DEF Record
      <4> QED
        BY <1>3, <4>1, <2>0, <1>a, RecordType DEF Record, LedgerOK
    <3>2. TurnOK' /\ CourierOK'
      <4>1. CASE result[t] = "none"
        <5>1. turn' = [turn EXCEPT ![w] = m] /\ UNCHANGED courier
          BY <1>3, <2>3, <4>1, <1>a DEF Record, TurnType, TurnOK
        <5> HIDE DEF m
        <5> QED BY <2>1, <5>1, <1>c, TurnMoves
      <4>2. CASE result[t] # "none"
        BY <1>3, <2>3, <4>2, DeliverType DEF Record
      <4> QED
        BY <4>1, <4>2
    <3> QED
      BY <1>3, <3>1, <3>2, <1>b DEF Record
  <2> QED
    BY <2>2, <2>3
<1>4. CASE ReadJob(w)
  <2> DEFINE r == [turn[w] EXCEPT !.pc = "close", !.seen = job[turn[w].task]]
  <2>1. r \in TurnType /\ r.task \in Tasks
    BY <1>4, <1>a DEF ReadJob, TurnType, LedgerOK
  <2>2. turn' = [turn EXCEPT ![w] = r]
    BY <1>4, <1>a DEF ReadJob, TurnType, TurnOK
  <2>3. TurnOK'
    <3> HIDE DEF r
    <3> QED BY <2>1, <2>2, TurnMoves
  <2> QED
    BY <1>4, <2>3, <1>b, <1>c, <1>d DEF ReadJob
<1>5. CASE CloseAttempt(w)
  <2> DEFINE r == [turn[w] EXCEPT !.pc = "save"]
  <2>1. r \in TurnType /\ r.task \in Tasks /\ turn[w].task \in Tasks
    BY <1>5, <1>a DEF CloseAttempt, TurnType
  <2>2. turn' = [turn EXCEPT ![w] = r]
    BY <1>5, <1>a DEF CloseAttempt, TurnTo, TurnType, TurnOK
  <2>3. TurnOK'
    <3> HIDE DEF r
    <3> QED BY <2>1, <2>2, TurnMoves
  <2>4. turn[w].seen.attempt \in 1..MaxAttempts /\ turn[w].outcome \in AttemptStates
    BY <1>a DEF TurnType, Job, AttemptStates
  <2>5. LedgerOK'
    BY <1>5, <2>1, <2>4, FinishType DEF CloseAttempt, LedgerOK
  <2> QED
    BY <1>5, <2>3, <2>5, <1>b, <1>c DEF CloseAttempt
<1>6. CASE SaveFinal(w)
  <2> DEFINE t == turn[w].task
             tr == IF turn[w].outcome = "failed" THEN "fail" ELSE "complete"
  <2>1. t \in Tasks /\ turn[w].seen \in Job /\ tr \in Triggers /\ tr # "retry"
    BY <1>6, <1>a DEF SaveFinal, TurnType, Triggers
  <2>2. job' \in [Tasks -> Job]
    <3>1. SaveTransition(t, turn[w].seen, tr, FALSE) \/ UNCHANGED job
      BY <1>6 DEF SaveFinal
    <3> HIDE DEF tr
    <3> QED BY <2>1, <3>1, SaveType DEF LedgerOK
  <2>3. LedgerOK'
    BY <1>6, <2>2 DEF SaveFinal, LedgerOK
  <2>4. TurnOK' /\ CourierOK'
    <3>1. CASE ThenDeliver(w)
      BY <3>1, DeliverType
    <3>2. CASE turn' = [turn EXCEPT ![w] = IdleTurn] /\ UNCHANGED courier
      BY <3>2, <1>c, IdleTypes, TurnMoves DEF IdleTurn
    <3> QED
      BY <1>6, <3>1, <3>2 DEF SaveFinal
  <2> QED
    BY <1>6, <2>3, <2>4, <1>b DEF SaveFinal
<1> QED
  BY <1>1, <1>2, <1>3, <1>4, <1>5, <1>6 DEF TurnStep

LEMMA TypeCourier ==
  ASSUME TypeInv, NEW k \in Couriers, CourierStep(k)
  PROVE  TypeInv'
<1> USE DEF TypeInv, TypeOK
<1>a. /\ courier[k] \in CourierType /\ courier[k].todo \in SUBSET Tasks
      /\ courier[k].pc \in {"mark", "fail"} => courier[k].cur \in Tasks
      /\ \A t \in courier[k].todo : t \in Tasks
  BY DEF CourierOK, CourierType
<1>b. ASSUME CourierOK', LedgerOK', UNCHANGED <<reconciled, recon, due, pass, turn>>,
             UNCHANGED environment, UNCHANGED begun, sent' \in [Tasks -> Nat]
      PROVE  TypeInv'
  BY <1>b DEF ReconOK, PassOK, TurnOK, RetryInHand, WorldOK, environment
<1>c. UNCHANGED durable => LedgerOK'
  BY DEF LedgerOK, durable
<1>d. sent \in [Tasks -> Nat]
  BY DEF WorldOK
<1>1. CASE LoopTick(k)
  <2> DEFINE r == [courier[k] EXCEPT !.pc = "due"]
  <2>1. r \in CourierType /\ r.pc = "due"
    BY <1>a DEF CourierType
  <2>2. courier' = [courier EXCEPT ![k] = r]
    BY <1>1, <1>a DEF LoopTick, CourierType, CourierOK
  <2>3. CourierOK'
    <3> HIDE DEF r
    <3> QED BY <2>1, <2>2, CourierMoves
  <2> QED
    BY <1>1, <2>3, <1>b, <1>c, <1>d DEF LoopTick
<1>2. CASE Fetch(k)
  <2> DEFINE r == [courier[k] EXCEPT !.pc = "send", !.todo = Pending]
  <2>1. r \in CourierType /\ r.pc = "send"
    BY <1>a DEF CourierType, Pending
  <2>2. courier' = [courier EXCEPT ![k] = r]
    BY <1>2, <1>a DEF Fetch, CourierType, CourierOK
  <2>3. CourierOK'
    <3> HIDE DEF r
    <3> QED BY <2>1, <2>2, CourierMoves
  <2> QED
    BY <1>2, <2>3, <1>b, <1>c, <1>d DEF Fetch
<1>3. CASE CourierDone(k)
  <2>1. CourierOK'
    BY <1>3, IdleTypes, CourierMoves DEF CourierDone, IdleCourier
  <2> QED
    BY <1>3, <2>1, <1>b, <1>c, <1>d DEF CourierDone
<1>4. ASSUME NEW t \in courier[k].todo, NEW arrives \in BOOLEAN, NEW raises \in BOOLEAN,
             Send(k, t, arrives, raises)
      PROVE  TypeInv'
  <2> DEFINE r == [pc |-> IF raises THEN "fail" ELSE "mark",
                   todo |-> courier[k].todo \ {t}, cur |-> t]
  <2>1. r \in CourierType /\ r.cur \in Tasks
    BY <1>a DEF CourierType
  <2>2. courier' = [courier EXCEPT ![k] = r]
    BY <1>4 DEF Send
  <2>3. CourierOK'
    <3> HIDE DEF r
    <3> QED BY <2>1, <2>2, CourierMoves
  <2>4. sent' \in [Tasks -> Nat]
    BY <1>4, <1>a, <1>d DEF Send
  <2> QED
    BY <1>4, <2>3, <2>4, <1>b, <1>c DEF Send
<1>5. CASE Mark(k) \/ Refused(k)
  <2> DEFINE r == [courier[k] EXCEPT !.pc = "send", !.cur = NoTask]
             t == courier[k].cur
  <2>1. r \in CourierType /\ r.pc = "send" /\ t \in Tasks
    BY <1>5, <1>a DEF CourierType, Mark, Refused
  <2>2. courier' = [courier EXCEPT ![k] = r]
    BY <1>5, <1>a DEF Mark, Refused, CourierType, CourierOK
  <2>3. CourierOK'
    <3> HIDE DEF r
    <3> QED BY <2>1, <2>2, CourierMoves
  <2>4. LedgerOK'
    <3>1. CASE Mark(k)
      BY <3>1, <2>1 DEF Mark, MarkDelivered, LedgerOK
    <3>2. CASE Refused(k)
      BY <3>2, <2>1 DEF Refused, RecordDeliveryFailure, LedgerOK
    <3> QED
      BY <1>5, <3>1, <3>2
  <2> QED
    BY <1>5, <2>3, <2>4, <1>b, <1>d DEF Mark, Refused
<1> QED
  BY <1>1, <1>2, <1>3, <1>4, <1>5 DEF CourierStep

LEMMA TypeProcess ==
  ASSUME TypeInv, Crash \/ Boot
  PROVE  TypeInv'
<1> USE DEF TypeInv, TypeOK
<1>1. CASE Crash
  <2>1. LedgerOK'
    BY <1>1 DEF Crash, LedgerOK, durable
  <2>2. ReconOK' /\ PassOK' /\ TurnOK' /\ CourierOK' /\ RetryInHand'
    BY <1>1, IdleTypes DEF Crash, ReconOK, PassOK, TurnOK, CourierOK, RetryInHand,
       IdleRecon, IdlePass, IdleTurn, IdleCourier
  <2>3. WorldOK'
    <3>1. crashes' \in 0..MaxCrashes
      BY <1>1, LedgerAssumption DEF Crash, WorldOK
    <3>2. begun' \in [Tasks -> [1..MaxAttempts -> Nat]]
      BY <1>1 DEF Crash
    <3> QED
      BY <1>1, <3>1, <3>2 DEF Crash, WorldOK
  <2> QED
    BY <2>1, <2>2, <2>3
<1>2. CASE Boot
  BY <1>2 DEF Boot, LedgerOK, ReconOK, PassOK, TurnOK, CourierOK, WorldOK, RetryInHand,
     durable, volatile
<1> QED
  BY <1>1, <1>2

LEMMA TypeNext == TypeInv /\ [Next]_vars => TypeInv'
  BY TypeStutter, TypeTask, TypeOnReady, TypePass, TypeTurn, TypeCourier, TypeProcess DEF Next

\* Every variable keeps its type, whatever crashes, whatever order passes, turns
\* and couriers run in, and however stale the rows they hold.
THEOREM TypeCorrect == Spec => []TypeOK
<1>1. Spec => []TypeInv
  BY TypeInit, TypeNext, PTL DEF Spec
<1> QED
  BY <1>1, PTL DEF TypeInv

-----------------------------------------------------------------------------
(* The answers.                                                            *)

\* What a sink between record_result and the save of the job knows: the result it
\* minted is the one on record; one that minted nothing can only fail the job.
SinkAgrees ==
    \A w \in Turns :
        /\ turn[w].pc \in {"running", "record"} => ~turn[w].minted
        /\ turn[w].pc \in {"read", "close", "save"} =>
               IF turn[w].minted THEN result[turn[w].task] = turn[w].outcome
               ELSE turn[w].outcome = "failed"

\* record_result writes the answer and its outbox row in one transaction.
DebtFollowsAnswer == \A t \in Tasks : outbox[t].status = "none" <=> result[t] = "none"

AnswerInv == CompletedIsRecorded /\ SinkAgrees /\ DebtFollowsAnswer

-----------------------------------------------------------------------------
(* What one step does to the job rows, the results and the outbox.         *)

LEMMA SaveCompletes ==
  ASSUME job \in [Tasks -> Job], NEW t \in Tasks, NEW seen \in Job, NEW tr \in Triggers,
         NEW r \in BOOLEAN, SaveTransition(t, seen, tr, r), tr # "complete"
  PROVE  \A u \in Tasks : job'[u].state = "completed" => job[u].state = "completed"
<1>1. Target[tr] # "completed"
  BY DEF Target, Triggers
<1>2. Apply(seen, tr, r).state # "completed"
  BY <1>1 DEF Apply
<1> QED
  BY <1>2 DEF SaveTransition

\* A pass and the reconciliation only hold rows of real tasks.
LEMMA HeldRows ==
  ASSUME TypeInv, NEW p \in Passes
  PROVE  /\ pass[p].pc \notin {"idle", "list", "next"} =>
                pass[p].cur.task \in Tasks /\ pass[p].cur.job \in Job
         /\ \A s \in pass[p].todo : s.task \in Tasks /\ s.job \in Job
         /\ \A s \in recon.todo : s.task \in Tasks /\ s.job \in Job
  BY DEF TypeInv, TypeOK, PassOK, PassType, ReconOK, ReconType, Snapshot

\* Only the sink completes a job.
LEMMA WhoCompletes ==
  ASSUME TypeInv, [Next]_vars, \A w \in Turns : ~SaveFinal(w)
  PROVE  \A u \in Tasks : job'[u].state = "completed" => job[u].state = "completed"
<1> DEFINE Goal == \A u \in Tasks : job'[u].state = "completed" => job[u].state = "completed"
<1>a. UNCHANGED job => Goal
  OBVIOUS
<1>b. job \in [Tasks -> Job]
  BY DEF TypeInv, TypeOK, LedgerOK
<1>c. \A t \in Tasks : job' = [job EXCEPT ![t] = AcceptedJob] => Goal
  BY <1>b DEF AcceptedJob, FreshJob
<1>1. ASSUME NEW t \in Tasks, TaskStep(t) PROVE Goal
  BY <1>1, <1>a, <1>c DEF TaskStep, Receive, LegacyReceive, Discover, Exhaust, Expire, durable
<1>2. CASE OnReady \/ OnReadyStep
  <2>1. ASSUME NEW s \in recon.todo, Requeue(s) PROVE Goal
    <3>1. s.task \in Tasks /\ s.job \in Job
      BY HeldRows DEF Passes
    <3> QED BY <2>1, <3>1, <1>b, SaveCompletes DEF Requeue, Triggers
  <2> QED
    BY <1>2, <2>1, <1>a DEF OnReady, OnReadyStep, Interrupt, RequeueDone, ScanDone, durable
<1>3. ASSUME NEW p \in Passes, PassStep(p) PROVE Goal
  <2>1. ASSUME NEW s \in pass[p].todo, PassSkips(p, s) PROVE Goal
    <3>1. s.task \in Tasks /\ s.job \in Job
      BY HeldRows
    <3> QED BY <2>1, <3>1, <1>a, <1>b, SaveCompletes DEF PassSkips, Triggers
  <2>2. ASSUME PassStart(p) \/ PassFail(p) \/ PassRetry(p) PROVE Goal
    <3>1. pass[p].cur.task \in Tasks /\ pass[p].cur.job \in Job
      BY <2>2, HeldRows DEF PassStart, PassFail, PassRetry
    <3> QED BY <2>2, <3>1, <1>b, SaveCompletes DEF PassStart, PassFail, PassRetry, Triggers
  <2> QED
    BY <1>3, <2>1, <2>2, <1>a DEF PassStep, PassBegin, PassEnd, PassClaim, PassReclaim,
       PassSupersede, PassSpawn, PassSpawnFails, PassClose, durable
<1>4. ASSUME NEW w \in Turns, TurnStep(w) PROVE Goal
  BY <1>4, <1>a DEF TurnStep, TurnEnds, TurnStopped, Record, ReadJob, CloseAttempt, durable
<1>5. ASSUME NEW k \in Couriers, CourierStep(k) PROVE Goal
  BY <1>5, <1>a DEF CourierStep, LoopTick, Fetch, CourierDone, Send, Mark, Refused, durable
<1>6. CASE Crash \/ Boot \/ UNCHANGED vars
  BY <1>6, <1>a DEF Crash, Boot, vars, durable
<1> QED
  BY <1>1, <1>2, <1>3, <1>4, <1>5, <1>6 DEF Next

\* Only Record writes a result; only Record, Mark and Refused write the outbox.
LEMMA WhoAnswers ==
  ASSUME [Next]_vars, \A w \in Turns : ~Record(w)
  PROVE  /\ UNCHANGED result
         /\ (\A k \in Couriers : ~Mark(k) /\ ~Refused(k)) => UNCHANGED outbox
<1>1. ASSUME NEW t \in Tasks, TaskStep(t) PROVE UNCHANGED <<result, outbox>>
  BY <1>1 DEF TaskStep, Receive, LegacyReceive, Discover, Exhaust, Expire, durable
<1>2. CASE OnReady \/ OnReadyStep
  BY <1>2 DEF OnReady, OnReadyStep, Requeue, Interrupt, RequeueDone, ScanDone, durable
<1>3. ASSUME NEW p \in Passes, PassStep(p) PROVE UNCHANGED <<result, outbox>>
  BY <1>3 DEF PassStep, PassBegin, PassEnd, PassSkips, PassClaim, PassReclaim, PassStart,
     PassSupersede, PassSpawn, PassSpawnFails, PassClose, PassFail, PassRetry, durable
<1>4. ASSUME NEW w \in Turns, TurnStep(w) PROVE UNCHANGED <<result, outbox>>
  BY <1>4 DEF TurnStep, TurnEnds, TurnStopped, ReadJob, CloseAttempt, SaveFinal, durable
<1>5. ASSUME NEW k \in Couriers, CourierStep(k)
      PROVE  UNCHANGED result /\ (Mark(k) \/ Refused(k) \/ UNCHANGED outbox)
  BY <1>5 DEF CourierStep, LoopTick, Fetch, CourierDone, Send, Mark, Refused, durable
<1>6. CASE Crash \/ Boot \/ UNCHANGED vars
  BY <1>6 DEF Crash, Boot, vars, durable
<1> QED
  BY <1>1, <1>2, <1>3, <1>4, <1>5, <1>6 DEF Next

-----------------------------------------------------------------------------
(* The invariant.                                                          *)

LEMMA AnswerInit == Init => AnswerInv
  BY DEF Init, AnswerInv, CompletedIsRecorded, SinkAgrees, DebtFollowsAnswer, NoJob, FreshJob,
     IdleTurn

\* A result on record stays as it is, and its debt never goes back to none.
LEMMA DebtStep ==
  ASSUME TypeInv, DebtFollowsAnswer, [Next]_vars
  PROVE  /\ DebtFollowsAnswer'
         /\ \A t \in Tasks : result[t] # "none" => result'[t] = result[t]
<1>a. LedgerOK
  BY DEF TypeInv, TypeOK
<1>1. CASE \E w \in Turns : Record(w)
  <2>1. PICK w \in Turns : Record(w)
    BY <1>1
  <2>2. turn[w].task \in Tasks /\ turn[w].outcome \in Outcomes
    BY <2>1 DEF Record, TypeInv, TypeOK, TurnOK, TurnType
  <2>3. CASE UNCHANGED <<result, outbox>>
    BY <2>3 DEF DebtFollowsAnswer
  <2>4. CASE RecordResult(turn[w].task, turn[w].outcome)
    <3> DEFINE t == turn[w].task
               row == [status |-> "pending", tries |-> 0]
    <3>1. CASE result[t] = "none"
      <4>1. row.status = "pending"
        OBVIOUS
      <4>2. result' = [result EXCEPT ![t] = turn[w].outcome] /\ outbox' = [outbox EXCEPT ![t] = row]
        BY <2>4, <3>1 DEF RecordResult
      <4> HIDE DEF row
      <4> QED
        BY <2>2, <3>1, <4>1, <4>2, <1>a DEF DebtFollowsAnswer, LedgerOK, Outcomes
    <3>2. CASE result[t] # "none"
      BY <2>4, <3>2 DEF RecordResult, DebtFollowsAnswer
    <3> QED
      BY <3>1, <3>2
  <2> QED
    BY <2>1, <2>3, <2>4 DEF Record
<1>2. CASE \A w \in Turns : ~Record(w)
  <2>1. UNCHANGED result
    BY <1>2, WhoAnswers
  <2>2. ASSUME NEW k \in Couriers, Mark(k) \/ Refused(k) PROVE DebtFollowsAnswer'
    <3>1. courier[k].cur \in Tasks
      BY <2>2 DEF Mark, Refused, TypeInv, TypeOK, CourierOK
    <3>2. CASE Mark(k)
      BY <2>1, <3>1, <3>2, <1>a DEF Mark, MarkDelivered, DebtFollowsAnswer, LedgerOK
    <3>3. CASE Refused(k)
      BY <2>1, <3>1, <3>3, <1>a DEF Refused, RecordDeliveryFailure, DebtFollowsAnswer, LedgerOK
    <3> QED
      BY <2>2, <3>2, <3>3
  <2>3. CASE UNCHANGED outbox
    BY <2>1, <2>3 DEF DebtFollowsAnswer
  <2> QED
    BY <1>2, <2>1, <2>2, <2>3, WhoAnswers
<1> QED
  BY <1>1, <1>2

LEMMA SinkStep ==
  ASSUME TypeInv, AnswerInv, [Next]_vars
  PROVE  SinkAgrees'
<1> DEFINE Ok(v) == /\ turn[v].pc \in {"running", "record"} => ~turn[v].minted
                    /\ turn[v].pc \in {"read", "close", "save"} =>
                           IF turn[v].minted THEN result[turn[v].task] = turn[v].outcome
                           ELSE turn[v].outcome = "failed"
<1> SUFFICES ASSUME NEW v \in Turns PROVE Ok(v)'
  BY DEF SinkAgrees
<1>a. /\ turn \in [Turns -> TurnType] /\ turn[v] \in TurnType /\ Ok(v)
      /\ turn[v].pc # "idle" => turn[v].task \in Tasks
  BY DEF TypeInv, TypeOK, TurnOK, AnswerInv, SinkAgrees
<1>b. \A t \in Tasks : result[t] # "none" => result'[t] = result[t]
  BY DebtStep DEF AnswerInv
<1>c. turn[v].outcome # "none"
  BY <1>a DEF TurnType, Outcomes
<1>d. turn'[v] = turn[v] => Ok(v)'
  BY <1>a, <1>b, <1>c
<1>e. turn'[v] = IdleTurn => Ok(v)'
  BY DEF IdleTurn
<1>1. ASSUME NEW w \in Turns, TurnStep(w) PROVE Ok(v)'
  <2>1. CASE w # v
    BY <1>1, <2>1, <1>a, <1>d DEF TurnStep, TurnEnds, TurnStopped, Record, ReadJob,
       CloseAttempt, SaveFinal, ThenDeliver, TurnTo
  <2>2. CASE w = v
    <3>1. ASSUME NEW o \in Outcomes, TurnEnds(v, o) PROVE Ok(v)'
      <4>1. turn'[v] = [turn[v] EXCEPT !.pc = "record", !.outcome = o]
        BY <3>1, <1>a DEF TurnEnds, TurnType
      <4> QED BY <3>1, <4>1, <1>a DEF TurnEnds, TurnType
    <3>2. CASE TurnStopped(v)
      BY <3>2, <1>a, <1>e DEF TurnStopped
    <3>3. CASE Record(v)
      <4> DEFINE t == turn[v].task
      <4>1. ~turn[v].minted /\ t \in Tasks
        BY <3>3, <1>a DEF Record
      <4>2. CASE t \in exhausted
        <5>1. turn'[v] = [turn[v] EXCEPT !.pc = "read", !.outcome = "failed"]
          BY <3>3, <4>2, <1>a DEF Record, TurnType
        <5> QED BY <4>1, <5>1, <1>a DEF TurnType
      <4>3. CASE t \notin exhausted /\ result[t] = "none"
        <5>1. turn'[v] = [turn[v] EXCEPT !.pc = "read", !.minted = TRUE]
          BY <3>3, <4>3, <1>a DEF Record, TurnType
        <5>2. result' = [result EXCEPT ![t] = turn[v].outcome]
          BY <3>3, <4>3 DEF Record, RecordResult
        <5>3. result'[t] = turn[v].outcome
          BY <4>1, <5>2 DEF TypeInv, TypeOK, LedgerOK
        <5> QED BY <5>1, <5>3, <1>a DEF TurnType
      <4>4. CASE t \notin exhausted /\ result[t] # "none"
        BY <3>3, <4>4, <1>a, <1>e DEF Record, ThenDeliver
      <4> QED
        BY <4>2, <4>3, <4>4
    <3>4. CASE ReadJob(v)
      <4>1. turn'[v] = [turn[v] EXCEPT !.pc = "close", !.seen = job[turn[v].task]]
        BY <3>4, <1>a DEF ReadJob, TurnType
      <4> QED BY <3>4, <4>1, <1>a, <1>b, <1>c DEF ReadJob, TurnType
    <3>5. CASE CloseAttempt(v)
      <4>1. turn'[v] = [turn[v] EXCEPT !.pc = "save"]
        BY <3>5, <1>a DEF CloseAttempt, TurnTo, TurnType
      <4> QED BY <3>5, <4>1, <1>a, <1>b, <1>c DEF CloseAttempt, TurnType
    <3>6. CASE SaveFinal(v)
      BY <3>6, <1>a, <1>e DEF SaveFinal, ThenDeliver
    <3> QED
      BY <1>1, <2>2, <3>1, <3>2, <3>3, <3>4, <3>5, <3>6 DEF TurnStep
  <2> QED
    BY <2>1, <2>2
<1>2. ASSUME NEW p \in Passes, NEW w \in Turns, PassSpawn(p, w) PROVE Ok(v)'
  <2>1. CASE w # v
    BY <1>2, <2>1, <1>a, <1>d DEF PassSpawn
  <2>2. CASE w = v
    <3>1. turn'[v] = [IdleTurn EXCEPT !.pc = "running", !.task = pass[p].cur.task]
      BY <1>2, <2>2, <1>a DEF PassSpawn
    <3> QED BY <3>1 DEF IdleTurn
  <2> QED
    BY <2>1, <2>2
<1>3. CASE Crash
  BY <1>3, <1>a, <1>e DEF Crash
<1>4. CASE UNCHANGED turn
  BY <1>4, <1>d
<1>5. ASSUME NEW t \in Tasks, TaskStep(t) PROVE UNCHANGED turn
  BY <1>5 DEF TaskStep, Receive, LegacyReceive, Discover, Exhaust, Expire, volatile
<1>6. OnReady \/ OnReadyStep => UNCHANGED turn
  BY DEF OnReady, OnReadyStep, Requeue, Interrupt, RequeueDone, ScanDone
<1>7. ASSUME NEW p \in Passes, PassStep(p), \A w \in Turns : ~PassSpawn(p, w)
      PROVE  UNCHANGED turn
  BY <1>7 DEF PassStep, PassBegin, PassEnd, PassSkips, PassClaim, PassReclaim, PassStart,
     PassSupersede, PassSpawnFails, PassClose, PassFail, PassRetry
<1>8. ASSUME NEW k \in Couriers, CourierStep(k) PROVE UNCHANGED turn
  BY <1>8 DEF CourierStep, LoopTick, Fetch, CourierDone, Send, Mark, Refused
<1>9. Boot \/ UNCHANGED vars => UNCHANGED turn
  BY DEF Boot, vars, volatile
<1> QED
  BY <1>1, <1>2, <1>3, <1>4, <1>5, <1>6, <1>7, <1>8, <1>9 DEF Next

LEMMA CompletedStep ==
  ASSUME TypeInv, AnswerInv, [Next]_vars
  PROVE  CompletedIsRecorded'
<1>a. LedgerOK
  BY DEF TypeInv, TypeOK
<1>b. \A t \in Tasks : result[t] # "none" => result'[t] = result[t]
  BY DebtStep DEF AnswerInv
<1>1. CASE \A w \in Turns : ~SaveFinal(w)
  BY <1>1, <1>b, WhoCompletes DEF AnswerInv, CompletedIsRecorded
<1>2. ASSUME NEW w \in Turns, SaveFinal(w) PROVE CompletedIsRecorded'
  <2> DEFINE t == turn[w].task
             tr == IF turn[w].outcome = "failed" THEN "fail" ELSE "complete"
  <2>1. t \in Tasks /\ turn[w].seen \in Job /\ turn[w].outcome \in Outcomes
    BY <1>2 DEF SaveFinal, TypeInv, TypeOK, TurnOK, TurnType
  <2>2. UNCHANGED result
    BY <1>2 DEF SaveFinal
  <2>3. UNCHANGED job \/ SaveTransition(t, turn[w].seen, tr, FALSE)
    BY <1>2 DEF SaveFinal
  <2>4. CASE turn[w].outcome = "failed"
    <3>1. \A u \in Tasks : job'[u].state = "completed" => job[u].state = "completed"
      BY <2>1, <2>3, <2>4, <1>a, SaveCompletes DEF LedgerOK, Triggers
    <3> QED BY <3>1, <2>2 DEF AnswerInv, CompletedIsRecorded
  <2>5. CASE turn[w].outcome = "completed"
    <3>1. result[t] = "completed"
      BY <1>2, <2>5 DEF SaveFinal, AnswerInv, SinkAgrees
    <3>2. \A u \in Tasks : u # t => job'[u] = job[u]
      BY <2>3, <1>a DEF SaveTransition, LedgerOK
    <3> QED BY <3>1, <3>2, <2>2 DEF AnswerInv, CompletedIsRecorded
  <2> QED
    BY <2>1, <2>4, <2>5 DEF Outcomes
<1> QED
  BY <1>1, <1>2

LEMMA AnswerNext == TypeInv /\ AnswerInv /\ [Next]_vars => AnswerInv'
  BY DebtStep, SinkStep, CompletedStep DEF AnswerInv

LEMMA Invariants == Spec => [](TypeInv /\ AnswerInv)
  BY TypeInit, TypeNext, AnswerInit, AnswerNext, PTL DEF Spec

\* A job the ledger calls completed has the answer "completed" on record, in every
\* interleaving of passes, sinks, couriers and crashes.
THEOREM CompletedRecorded == Spec => []CompletedIsRecorded
  BY Invariants, PTL DEF AnswerInv

-----------------------------------------------------------------------------
(* The refinement.                                                         *)

\* The ledger keeps its promise: answers are decided once, never changed, and owed
\* until they are delivered or given up.
THEOREM PromiseKept == Spec => KeepsPromise
<1> DEFINE debt == [t \in Tasks |-> outbox[t].status]
<1>1. Init => Promise!Init
  BY DEF Init, Promise!Init
<1>2. TypeInv /\ AnswerInv /\ [Next]_vars => [Promise!Next]_(Promise!vars)
  <2> SUFFICES ASSUME TypeInv, AnswerInv, [Next]_vars
               PROVE  [Promise!Next]_(Promise!vars)
    OBVIOUS
  <2>a. LedgerOK
    BY DEF TypeInv, TypeOK
  <2>0. UNCHANGED <<result, outbox>> => UNCHANGED Promise!vars
    BY DEF Promise!vars
  <2>1. ASSUME NEW w \in Turns, Record(w) PROVE [Promise!Next]_(Promise!vars)
    <3>1. PICK t \in Tasks, o \in Outcomes : t = turn[w].task /\ o = turn[w].outcome
      BY <2>1 DEF Record, TypeInv, TypeOK, TurnOK, TurnType
    <3>2. CASE RecordResult(t, o) /\ result[t] = "none"
      <4>1. result' = [result EXCEPT ![t] = o]
        BY <3>2 DEF RecordResult
      <4>2. debt' = [debt EXCEPT ![t] = "pending"]
        <5> DEFINE row == [status |-> "pending", tries |-> 0]
        <5>1. outbox' = [outbox EXCEPT ![t] = row] /\ row.status = "pending"
          BY <3>2 DEF RecordResult
        <5> HIDE DEF row
        <5> QED
          BY <3>1, <5>1, <2>a DEF LedgerOK
      <4>3. Promise!Decide(t, o)
        BY <3>2, <4>1, <4>2 DEF Promise!Decide
      <4> QED
        <5>1. o \in Promise!Outcomes
          BY <3>1 DEF Promise!Outcomes, Outcomes
        <5> QED
          BY <3>1, <4>3, <5>1 DEF Promise!Next
    <3>3. CASE UNCHANGED <<result, outbox>>
      BY <3>3, <2>0
    <3> QED
      BY <2>1, <3>1, <3>2, <3>3 DEF Record, RecordResult
  <2>2. ASSUME NEW k \in Couriers, Mark(k) \/ Refused(k) PROVE [Promise!Next]_(Promise!vars)
    <3> DEFINE t == courier[k].cur
    <3>1. t \in Tasks /\ UNCHANGED result
      BY <2>2 DEF Mark, Refused, TypeInv, TypeOK, CourierOK
    <3>2. CASE outbox' = outbox
      BY <3>1, <3>2, <2>0
    <3>3. CASE outbox[t].status = "pending"
      <4>1. PICK how \in {"pending", "delivered", "abandoned"} :
                debt' = [debt EXCEPT ![t] = how]
        <5>1. CASE Mark(k)
          BY <5>1, <3>1, <3>3, <2>a DEF Mark, MarkDelivered, LedgerOK
        <5>2. CASE Refused(k)
          BY <5>2, <3>1, <3>3, <2>a DEF Refused, RecordDeliveryFailure, LedgerOK
        <5> QED
          BY <2>2, <5>1, <5>2
      <4>2. CASE how = "pending"
        <5>1. debt' = debt
          BY <3>1, <3>3, <4>1, <4>2
        <5> QED
          BY <3>1, <5>1 DEF Promise!vars
      <4>3. CASE how \in {"delivered", "abandoned"}
        <5>1. Promise!Settle(t, how)
          BY <3>1, <3>3, <4>1 DEF Promise!Settle
        <5> QED
          BY <3>1, <4>3, <5>1 DEF Promise!Next
      <4> QED
        BY <4>2, <4>3
    <3> QED
      BY <2>2, <3>2, <3>3 DEF Mark, Refused, MarkDelivered, RecordDeliveryFailure
  <2> QED
    BY <2>0, <2>1, <2>2, WhoAnswers
<1> QED
  BY <1>1, <1>2, Invariants, PTL DEF Spec, KeepsPromise, Promise!Spec

-----------------------------------------------------------------------------
(* Deliveries.                                                             *)

\* A courier that is about to mark a row delivered has seen its post return.
PostedFirst == \A c \in Couriers : courier[c].pc = "mark" => sent[courier[c].cur] > 0

DeliverInv == DeliveredWasSent /\ PostedFirst

LEMMA DeliverInit == Init => DeliverInv
  BY DEF Init, DeliverInv, DeliveredWasSent, PostedFirst, IdleCourier

\* Posts only add up, and only couriers post.
LEMMA SentStep ==
  ASSUME TypeInv, [Next]_vars
  PROVE  /\ \A t \in Tasks : sent[t] > 0 => sent'[t] > 0
         /\ (\A k \in Couriers : ~CourierStep(k)) => UNCHANGED sent
<1>a. sent \in [Tasks -> Nat]
  BY DEF TypeInv, TypeOK, WorldOK
<1>1. ASSUME NEW k \in Couriers, CourierStep(k)
      PROVE  \A t \in Tasks : sent[t] > 0 => sent'[t] > 0
  <2>1. ASSUME NEW t \in courier[k].todo, NEW arrives \in BOOLEAN, NEW raises \in BOOLEAN,
               Send(k, t, arrives, raises)
        PROVE  \A u \in Tasks : sent[u] > 0 => sent'[u] > 0
    BY <2>1, <1>a DEF Send
  <2> QED
    BY <1>1, <2>1 DEF CourierStep, LoopTick, Fetch, CourierDone, Mark, Refused
<1>2. ASSUME NEW t \in Tasks, TaskStep(t) PROVE UNCHANGED sent
  BY <1>2 DEF TaskStep, Receive, LegacyReceive, Discover, Exhaust, Expire
<1>3. OnReady \/ OnReadyStep => UNCHANGED sent
  BY DEF OnReady, OnReadyStep, Requeue, Interrupt, RequeueDone, ScanDone
<1>4. ASSUME NEW p \in Passes, PassStep(p) PROVE UNCHANGED sent
  BY <1>4 DEF PassStep, PassBegin, PassEnd, PassSkips, PassClaim, PassReclaim, PassStart,
     PassSupersede, PassSpawn, PassSpawnFails, PassClose, PassFail, PassRetry
<1>5. ASSUME NEW w \in Turns, TurnStep(w) PROVE UNCHANGED sent
  BY <1>5 DEF TurnStep, TurnEnds, TurnStopped, Record, ReadJob, CloseAttempt, SaveFinal
<1>6. Crash \/ Boot \/ UNCHANGED vars => UNCHANGED sent
  BY DEF Crash, Boot, vars
<1> QED
  BY <1>1, <1>2, <1>3, <1>4, <1>5, <1>6 DEF Next

\* A row becomes delivered only by Mark.
LEMMA WhoDelivers ==
  ASSUME TypeInv, [Next]_vars, NEW t \in Tasks,
         outbox'[t].status = "delivered", outbox[t].status # "delivered"
  PROVE  \E c \in Couriers : courier[c].pc = "mark" /\ courier[c].cur = t
<1>a. outbox \in [Tasks -> [status: {"none", "pending", "delivered", "abandoned"}, tries: Nat]]
  BY DEF TypeInv, TypeOK, LedgerOK
<1>1. CASE \E w \in Turns : Record(w)
  BY <1>1, <1>a DEF Record, RecordResult
<1>2. ASSUME NEW c \in Couriers, Mark(c)
      PROVE  courier[c].pc = "mark" /\ courier[c].cur = t
  BY <1>2, <1>a DEF Mark, MarkDelivered
<1>3. ASSUME NEW c \in Couriers, Refused(c) PROVE FALSE
  BY <1>3, <1>a DEF Refused, RecordDeliveryFailure
<1> QED
  BY <1>1, <1>2, <1>3, WhoAnswers

LEMMA PostedStep == ASSUME TypeInv, DeliverInv, [Next]_vars PROVE PostedFirst'
<1> SUFFICES ASSUME NEW c \in Couriers, courier'[c].pc = "mark" PROVE sent'[courier'[c].cur] > 0
  BY DEF PostedFirst
<1>a. courier \in [Couriers -> CourierType] /\ courier[c] \in CourierType
      /\ sent \in [Tasks -> Nat]
  BY DEF TypeInv, TypeOK, CourierOK, WorldOK
<1>1. CASE courier'[c] = courier[c]
  <2>1. courier[c].cur \in Tasks /\ sent[courier[c].cur] > 0
    BY <1>1 DEF DeliverInv, PostedFirst, TypeInv, TypeOK, CourierOK
  <2> QED BY <1>1, <2>1, SentStep
<1>2. ASSUME NEW k \in Couriers, CourierStep(k) PROVE sent'[courier'[c].cur] > 0
  <2>1. CASE k # c
    BY <1>1, <1>2, <1>a, <2>1 DEF CourierStep, LoopTick, Fetch, CourierDone, Send, Mark, Refused
  <2>2. ASSUME NEW t \in courier[c].todo, NEW arrives \in BOOLEAN, NEW raises \in BOOLEAN,
               Send(c, t, arrives, raises)
        PROVE  sent'[courier'[c].cur] > 0
    <3>1. t \in Tasks
      BY <1>a DEF CourierType
    <3>2. courier'[c] = [pc |-> IF raises THEN "fail" ELSE "mark",
                         todo |-> courier[c].todo \ {t}, cur |-> t]
      BY <2>2, <1>a DEF Send
    <3>3. arrives
      BY <2>2, <3>2 DEF Send
    <3> QED
      BY <2>2, <1>a, <3>1, <3>2, <3>3 DEF Send
  <2>3. LoopTick(c) \/ Fetch(c) \/ CourierDone(c) \/ Mark(c) \/ Refused(c) => FALSE
    BY <1>a DEF LoopTick, Fetch, CourierDone, Mark, Refused, IdleCourier, CourierType
  <2> QED
    BY <1>2, <2>1, <2>2, <2>3 DEF CourierStep
<1>3. ASSUME NEW w \in Turns, TurnStep(w) PROVE courier'[c] = courier[c]
  <2>1. ThenDeliver(w) => courier'[c] = courier[c]
    <3>1. ASSUME ThenDeliver(w), w = c PROVE courier'[c].pc = "due"
      BY <3>1, <1>a DEF ThenDeliver
    <3> QED BY <3>1, <1>a DEF ThenDeliver
  <2> QED
    BY <1>3, <2>1 DEF TurnStep, TurnEnds, TurnStopped, Record, ReadJob, CloseAttempt, SaveFinal
<1>4. Crash => FALSE
  BY DEF Crash, IdleCourier
<1>5. ASSUME NEW t \in Tasks, TaskStep(t) PROVE UNCHANGED courier
  BY <1>5 DEF TaskStep, Receive, LegacyReceive, Discover, Exhaust, Expire, volatile
<1>6. OnReady \/ OnReadyStep => UNCHANGED courier
  BY DEF OnReady, OnReadyStep, Requeue, Interrupt, RequeueDone, ScanDone
<1>7. ASSUME NEW p \in Passes, PassStep(p) PROVE UNCHANGED courier
  BY <1>7 DEF PassStep, PassBegin, PassEnd, PassSkips, PassClaim, PassReclaim, PassStart,
     PassSupersede, PassSpawn, PassSpawnFails, PassClose, PassFail, PassRetry
<1>8. Boot \/ UNCHANGED vars => UNCHANGED courier
  BY DEF Boot, vars, volatile
<1> QED
  BY <1>1, <1>2, <1>3, <1>4, <1>5, <1>6, <1>7, <1>8 DEF Next

LEMMA DeliverNext == TypeInv /\ DeliverInv /\ [Next]_vars => DeliverInv'
<1> SUFFICES ASSUME TypeInv, DeliverInv, [Next]_vars PROVE DeliveredWasSent'
  BY PostedStep DEF DeliverInv
<1> SUFFICES ASSUME NEW t \in Tasks, outbox'[t].status = "delivered" PROVE sent'[t] > 0
  BY DEF DeliveredWasSent
<1>1. CASE outbox[t].status = "delivered"
  BY <1>1, SentStep DEF DeliverInv, DeliveredWasSent
<1>2. CASE outbox[t].status # "delivered"
  BY <1>2, SentStep, WhoDelivers DEF DeliverInv, PostedFirst
<1> QED
  BY <1>1, <1>2

\* Nothing is marked delivered that never reached the origin, whichever couriers
\* race for the row, whatever posts raise and wherever the process dies.
THEOREM DeliveredSent == Spec => []DeliveredWasSent
<1>1. DeliverInv => DeliveredWasSent
  BY DEF DeliverInv
<1> QED
  BY <1>1, TypeInit, TypeNext, DeliverInit, DeliverNext, PTL DEF Spec

-----------------------------------------------------------------------------
(* Attempts.                                                               *)

ClosedStates == Outcomes \cup {"superseded"}

LEMMA OpenKeeps ==
  ASSUME LedgerOK, NEW t \in Tasks, NEW n \in 1..MaxAttempts, OpenAttempt(t, n),
         attempts[t][n] \notin ClosedStates
  PROVE  \A u \in Tasks, m \in 1..MaxAttempts :
             attempts[u][m] \in ClosedStates => attempts'[u][m] = attempts[u][m]
  BY DEF LedgerOK, OpenAttempt

LEMMA FinishKeeps ==
  ASSUME LedgerOK, NEW t \in Tasks, NEW n \in 1..MaxAttempts, NEW how, FinishAttempt(t, n, how)
  PROVE  \A u \in Tasks, m \in 1..MaxAttempts :
             attempts[u][m] \in ClosedStates => attempts'[u][m] = attempts[u][m]
  BY DEF LedgerOK, FinishAttempt, ClosedStates, Outcomes

\* An attempt that ended, or was superseded, is never open again: whoever claims,
\* reclaims or finishes late finds it closed.
THEOREM ClosedStays == Spec => ClosedAttemptStays
<1> DEFINE Kept == \A u \in Tasks, m \in 1..MaxAttempts :
                       attempts[u][m] \in ClosedStates => attempts'[u][m] = attempts[u][m]
<1>1. TypeInv /\ [Next]_vars => Kept
  <2> SUFFICES ASSUME TypeInv, [Next]_vars PROVE Kept
    OBVIOUS
  <2>a. LedgerOK
    BY DEF TypeInv, TypeOK
  <2>b. \A s \in Snapshot : s.task \in Tasks /\ s.job.attempt \in 1..MaxAttempts
    BY DEF Snapshot, Job
  <2>1. ASSUME NEW t \in Tasks, TaskStep(t) PROVE Kept
    BY <2>1 DEF TaskStep, Receive, LegacyReceive, Discover, Exhaust, Expire, durable
  <2>2. CASE OnReady \/ OnReadyStep
    <3>1. CASE Interrupt
      <4>1. recon.cur \in Snapshot
        BY <3>1 DEF Interrupt, TypeInv, TypeOK, ReconOK
      <4> QED BY <3>1, <4>1, <2>a, <2>b, FinishKeeps DEF Interrupt
    <3> QED
      BY <2>2, <3>1 DEF OnReady, OnReadyStep, Requeue, RequeueDone, ScanDone, durable
  <2>3. ASSUME NEW p \in Passes, PassStep(p) PROVE Kept
    <3>0. /\ pass[p].pc \notin {"idle", "list", "next"} => pass[p].cur \in Snapshot
          /\ \A s \in pass[p].todo : s \in Snapshot
      BY DEF TypeInv, TypeOK, PassOK, PassType
    <3>1. ASSUME NEW s \in pass[p].todo, PassClaim(p, s) PROVE Kept
      <4>1. s.task \in Tasks /\ s.job.attempt \in 1..MaxAttempts
        BY <3>0, <2>b
      <4> QED
        BY <3>1, <4>1, <2>a, OpenKeeps DEF PassClaim, Claimable, ClosedStates, Outcomes
    <3>2. CASE PassReclaim(p)
      <4>1. pass[p].cur.task \in Tasks /\ pass[p].cur.job.attempt \in 1..MaxAttempts
        BY <3>2, <3>0, <2>b DEF PassReclaim
      <4> QED
        BY <3>2, <4>1, <2>a, OpenKeeps DEF PassReclaim, Reclaimable, ClosedStates, Outcomes
    <3>3. CASE PassSupersede(p) \/ PassClose(p)
      <4>1. pass[p].cur.task \in Tasks /\ pass[p].cur.job.attempt \in 1..MaxAttempts
        BY <3>3, <3>0, <2>b DEF PassSupersede, PassClose
      <4> QED BY <3>3, <4>1, <2>a, FinishKeeps DEF PassSupersede, PassClose
    <3> QED
      BY <2>3, <3>1, <3>2, <3>3 DEF PassStep, PassBegin, PassEnd, PassSkips, PassStart,
         PassSpawn, PassSpawnFails, PassFail, PassRetry, durable
  <2>4. ASSUME NEW w \in Turns, TurnStep(w) PROVE Kept
    <3>1. CASE CloseAttempt(w)
      <4>1. turn[w].task \in Tasks /\ turn[w].seen.attempt \in 1..MaxAttempts
        BY <3>1 DEF CloseAttempt, TypeInv, TypeOK, TurnOK, TurnType, Job
      <4> QED BY <3>1, <4>1, <2>a, FinishKeeps DEF CloseAttempt
    <3> QED
      BY <2>4, <3>1 DEF TurnStep, TurnEnds, TurnStopped, Record, ReadJob, SaveFinal, durable
  <2>5. ASSUME NEW k \in Couriers, CourierStep(k) PROVE Kept
    BY <2>5 DEF CourierStep, LoopTick, Fetch, CourierDone, Send, Mark, Refused, durable
  <2>6. CASE Crash \/ Boot \/ UNCHANGED vars
    BY <2>6 DEF Crash, Boot, vars, durable
  <2> QED
    BY <2>1, <2>2, <2>3, <2>4, <2>5, <2>6 DEF Next
<1>2. Kept => [\A t \in Tasks, n \in 1..MaxAttempts :
                 attempts[t][n] \in Outcomes \cup {"superseded"} =>
                     attempts'[t][n] = attempts[t][n]]_vars
  BY DEF ClosedStates
<1> QED
  BY <1>1, <1>2, Invariants, PTL DEF Spec, ClosedAttemptStays

-----------------------------------------------------------------------------
(* What the readers of job rows know.                                      *)

\* What each reader knew of the row it holds, from the state it was listed in or
\* from the transition it saved itself.
HeldRunning == \A s \in recon.todo : s.job.state = "running"
HeldByPass ==
    \A p \in Passes :
        /\ \A s \in pass[p].todo : s.job.state \in {"accepted", "queued"}
        /\ pass[p].pc \in {"reclaim", "start"} => pass[p].cur.job.state \in {"accepted", "queued"}
        /\ pass[p].pc \in {"spawn", "close", "fail"} => pass[p].cur.job.state = "running"

\* The failure a pass is about to retry is still the row, or the job has left that
\* attempt for good.
RetryStands ==
    \A p \in Passes : pass[p].pc = "retry" =>
        LET c == pass[p].cur IN
        job[c.task] = c.job \/ job[c.task].attempt > c.job.attempt

JobInv == HeldRunning /\ HeldByPass /\ RetryStands

\* What one step may do to one row.
Moves(t) ==
    \/ job'[t] = job[t]
    \/ job[t].state \notin TerminalStates /\ job'[t].attempt = job[t].attempt
    \/ CanRetry(job[t]) /\ job'[t] = Apply(job[t], "retry", FALSE)

-----------------------------------------------------------------------------
(* The rows.                                                               *)

\* A transition computed from an unfinished row leaves finished rows alone: the
\* compare-and-set misses them.
LEMMA SaveMoves ==
  ASSUME job \in [Tasks -> Job], NEW t \in Tasks, NEW seen \in Job, NEW tr \in Triggers,
         NEW r \in BOOLEAN, SaveTransition(t, seen, tr, r),
         tr # "retry", seen.state \notin TerminalStates
  PROVE  \A u \in Tasks : Moves(u)
  BY DEF SaveTransition, Unmoved, Moves, Apply

LEMMA StillMoves == UNCHANGED job => \A u \in Tasks : Moves(u)
  BY DEF Moves

LEMMA NewMoves ==
  ASSUME job \in [Tasks -> Job], NEW t \in Tasks, job[t] = NoJob \/ UNCHANGED job,
         job' = [job EXCEPT ![t] = AcceptedJob] \/ UNCHANGED job
  PROVE  \A u \in Tasks : Moves(u)
<1>1. NoJob.state \notin TerminalStates /\ AcceptedJob.attempt = NoJob.attempt
  BY DEF NoJob, AcceptedJob, FreshJob, TerminalStates
<1>2. CASE UNCHANGED job
  BY <1>2, StillMoves
<1>3. CASE job[t] = NoJob /\ job' = [job EXCEPT ![t] = AcceptedJob]
  BY <1>1, <1>3 DEF Moves
<1> QED
  BY <1>2, <1>3

\* A retry that meets its row meets the failure it was computed from.
LEMMA RetryMoves ==
  ASSUME TypeInv, JobInv, NEW p \in Passes, PassRetry(p)
  PROVE  \A u \in Tasks : Moves(u)
<1> DEFINE c == pass[p].cur
<1>1. /\ c.task \in Tasks /\ c.job \in Job /\ CanRetry(c.job)
      /\ SaveTransition(c.task, c.job, "retry", FALSE)
      /\ job[c.task] = c.job \/ job[c.task].attempt > c.job.attempt
  BY DEF PassRetry, TypeInv, TypeOK, PassOK, Snapshot, RetryInHand, JobInv, RetryStands
<1>2. job \in [Tasks -> Job] /\ job[c.task].attempt \in Nat /\ c.job.attempt \in Nat
  BY <1>1, MaxAttemptsAssumption DEF TypeInv, TypeOK, LedgerOK, Job
<1>3. CASE Unmoved(c.task, c.job)
  <2>1. job[c.task] = c.job
    BY <1>1, <1>2, <1>3 DEF Unmoved
  <2>2. job' = [job EXCEPT ![c.task] = Apply(job[c.task], "retry", FALSE)]
    BY <1>1, <1>3, <2>1 DEF SaveTransition
  <2> QED
    BY <1>1, <1>2, <2>1, <2>2 DEF Moves
<1>4. CASE ~Unmoved(c.task, c.job)
  BY <1>1, <1>4, StillMoves DEF SaveTransition
<1> QED
  BY <1>3, <1>4

\* A pass and the reconciliation hold rows of real tasks, unfinished ones.
LEMMA HeldUnfinished ==
  ASSUME TypeInv, JobInv, NEW p \in Passes
  PROVE  /\ pass[p].pc \in {"reclaim", "start", "spawn", "close", "fail"} =>
                /\ pass[p].cur.task \in Tasks /\ pass[p].cur.job \in Job
                /\ pass[p].cur.job.state \notin TerminalStates
         /\ \A s \in pass[p].todo : /\ s.task \in Tasks /\ s.job \in Job
                                    /\ s.job.state \notin TerminalStates
         /\ \A s \in recon.todo : /\ s.task \in Tasks /\ s.job \in Job
                                  /\ s.job.state \notin TerminalStates
  BY DEF TypeInv, TypeOK, PassOK, PassType, ReconOK, ReconType, Snapshot, JobInv, HeldRunning,
     HeldByPass, TerminalStates

LEMMA JobMoves ==
  ASSUME TypeInv, JobInv, [Next]_vars
  PROVE  \A u \in Tasks : Moves(u)
<1> DEFINE Goal == \A u \in Tasks : Moves(u)
<1>a. UNCHANGED job => Goal
  BY StillMoves
<1>b. job \in [Tasks -> Job]
  BY DEF TypeInv, TypeOK, LedgerOK
<1>1. ASSUME NEW t \in Tasks, TaskStep(t) PROVE Goal
  BY <1>1, <1>a, <1>b, NewMoves
     DEF TaskStep, Receive, LegacyReceive, Discover, Exhaust, Expire, durable
<1>2. CASE OnReady \/ OnReadyStep
  <2>1. ASSUME NEW s \in recon.todo, Requeue(s) PROVE Goal
    <3>1. s.task \in Tasks /\ s.job \in Job /\ s.job.state \notin TerminalStates
      BY HeldUnfinished DEF Passes
    <3> QED BY <2>1, <3>1, <1>b, SaveMoves DEF Requeue, Triggers
  <2> QED
    BY <1>2, <2>1, <1>a DEF OnReady, OnReadyStep, Interrupt, RequeueDone, ScanDone, durable
<1>3. ASSUME NEW p \in Passes, PassStep(p) PROVE Goal
  <2>1. ASSUME NEW s \in pass[p].todo, PassSkips(p, s) PROVE Goal
    <3>1. s.task \in Tasks /\ s.job \in Job /\ s.job.state \notin TerminalStates
      BY HeldUnfinished
    <3> QED BY <2>1, <3>1, <1>a, <1>b, SaveMoves DEF PassSkips, Triggers
  <2>2. ASSUME PassStart(p) \/ PassFail(p) PROVE Goal
    <3>1. /\ pass[p].cur.task \in Tasks /\ pass[p].cur.job \in Job
          /\ pass[p].cur.job.state \notin TerminalStates
      BY <2>2, HeldUnfinished DEF PassStart, PassFail
    <3> QED BY <2>2, <3>1, <1>b, SaveMoves DEF PassStart, PassFail, Triggers
  <2>3. PassRetry(p) => Goal
    BY RetryMoves
  <2> QED
    BY <1>3, <2>1, <2>2, <2>3, <1>a DEF PassStep, PassBegin, PassEnd, PassClaim, PassReclaim,
       PassSupersede, PassSpawn, PassSpawnFails, PassClose, durable
<1>4. ASSUME NEW w \in Turns, TurnStep(w) PROVE Goal
  <2>1. CASE SaveFinal(w)
    <3> DEFINE tr == IF turn[w].outcome = "failed" THEN "fail" ELSE "complete"
    <3>1. turn[w].task \in Tasks /\ turn[w].seen \in Job
      BY <2>1 DEF SaveFinal, TypeInv, TypeOK, TurnOK, TurnType
    <3>2. Legal(turn[w].seen, tr) => turn[w].seen.state \notin TerminalStates
      BY DEF Legal, AllowedFrom, Triggers, NonterminalStates, TerminalStates
    <3> QED
      BY <2>1, <3>1, <3>2, <1>a, <1>b, SaveMoves DEF SaveFinal, Triggers
  <2> QED
    BY <1>4, <2>1, <1>a
       DEF TurnStep, TurnEnds, TurnStopped, Record, ReadJob, CloseAttempt, durable
<1>5. ASSUME NEW k \in Couriers, CourierStep(k) PROVE Goal
  BY <1>5, <1>a DEF CourierStep, LoopTick, Fetch, CourierDone, Send, Mark, Refused, durable
<1>6. CASE Crash \/ Boot \/ UNCHANGED vars
  BY <1>6, <1>a DEF Crash, Boot, vars, durable
<1> QED
  BY <1>1, <1>2, <1>3, <1>4, <1>5, <1>6 DEF Next

-----------------------------------------------------------------------------
(* The invariant.                                                          *)

LEMMA JobInit == Init => JobInv
  BY DEF Init, JobInv, HeldRunning, HeldByPass, RetryStands, IdleRecon, IdlePass

LEMMA RunningStep == ASSUME TypeInv, JobInv, [Next]_vars PROVE HeldRunning'
<1>a. HeldRunning
  BY DEF JobInv
<1>b. recon \in ReconType
  BY DEF TypeInv, TypeOK, ReconOK
<1>1. CASE OnReady
  <2>1. CASE reconciled
    <3>1. recon'.todo = recon.todo
      BY <1>1, <1>b, <2>1 DEF OnReady, ReconType
    <3> QED BY <3>1, <1>a DEF HeldRunning
  <2>2. CASE ~reconciled
    <3>1. recon'.todo = {Snap(t) : t \in {u \in Tasks : job[u].state = "running"}}
      BY <1>1, <2>2 DEF OnReady, IdleRecon
    <3> QED BY <3>1 DEF HeldRunning, Snap
  <2> QED
    BY <2>1, <2>2
<1>2. CASE OnReadyStep
  <2>1. ASSUME NEW s \in recon.todo, Requeue(s) PROVE recon'.todo \subseteq recon.todo
    <3>1. recon'.todo = recon.todo \ {s}
      BY <2>1 DEF Requeue
    <3> QED BY <3>1
  <2>2. Interrupt \/ RequeueDone => recon'.todo = recon.todo
    BY <1>b DEF Interrupt, RequeueDone, ReconType
  <2>3. ScanDone => recon'.todo = {}
    BY DEF ScanDone, IdleRecon
  <2>4. recon'.todo \subseteq recon.todo
    BY <1>2, <2>1, <2>2, <2>3 DEF OnReadyStep
  <2> QED BY <2>4, <1>a DEF HeldRunning
<1>3. CASE Crash
  BY <1>3 DEF Crash, HeldRunning, IdleRecon
<1>4. CASE UNCHANGED recon
  BY <1>4, <1>a DEF HeldRunning
<1>5. ASSUME NEW t \in Tasks, TaskStep(t) PROVE UNCHANGED recon
  BY <1>5 DEF TaskStep, Receive, LegacyReceive, Discover, Exhaust, Expire, volatile
<1>6. ASSUME NEW p \in Passes, PassStep(p) PROVE UNCHANGED recon
  BY <1>6 DEF PassStep, PassBegin, PassEnd, PassSkips, PassClaim, PassReclaim, PassStart,
     PassSupersede, PassSpawn, PassSpawnFails, PassClose, PassFail, PassRetry
<1>7. ASSUME NEW w \in Turns, TurnStep(w) PROVE UNCHANGED recon
  BY <1>7 DEF TurnStep, TurnEnds, TurnStopped, Record, ReadJob, CloseAttempt, SaveFinal
<1>8. ASSUME NEW k \in Couriers, CourierStep(k) PROVE UNCHANGED recon
  BY <1>8 DEF CourierStep, LoopTick, Fetch, CourierDone, Send, Mark, Refused
<1>9. Boot \/ UNCHANGED vars => UNCHANGED recon
  BY DEF Boot, vars, volatile
<1> QED
  BY <1>1, <1>2, <1>3, <1>4, <1>5, <1>6, <1>7, <1>8, <1>9 DEF Next

\* The pass that moves, and what it then holds; every other pass keeps its rows.
PassHolds(p) ==
    /\ \A s \in pass[p].todo : s.job.state \in {"accepted", "queued"}
    /\ pass[p].pc \in {"reclaim", "start"} => pass[p].cur.job.state \in {"accepted", "queued"}
    /\ pass[p].pc \in {"spawn", "close", "fail"} => pass[p].cur.job.state = "running"

LEMMA FinishedMoves ==
  ASSUME pass \in [Passes -> PassType], NEW p \in Passes, Finished(p)
  PROVE  /\ pass'[p].pc = "next" /\ pass'[p].todo = pass[p].todo
         /\ \A q \in Passes : q # p => pass'[q] = pass[q]
  BY DEF Finished, PassType

LEMMA PassStepHolds ==
  ASSUME TypeInv, JobInv, NEW p \in Passes, PassStep(p)
  PROVE  /\ PassHolds(p)'
         /\ \A q \in Passes : q # p => pass'[q] = pass[q]
<1>a. /\ pass \in [Passes -> PassType] /\ PassHolds(p)
  BY DEF TypeInv, TypeOK, PassOK, JobInv, HeldByPass, PassHolds
<1>b. pass[p] \in PassType
  BY <1>a
<1>c. \A j, r : Apply(j, "start", r).state = "running"
  BY DEF Apply, Target, Triggers
<1>1. CASE PassBegin(p)
  BY <1>1, <1>a DEF PassBegin, PassHolds, Snap, Startable
<1>2. CASE PassEnd(p)
  BY <1>2, <1>a DEF PassEnd, PassHolds, IdlePass
<1>3. ASSUME NEW s \in pass[p].todo, PassSkips(p, s) 
      PROVE  PassHolds(p)' /\ \A q \in Passes : q # p => pass'[q] = pass[q]
  BY <1>3, <1>a, <1>b DEF PassSkips, Drop, PassHolds, PassType
<1>4. ASSUME NEW s \in pass[p].todo, PassClaim(p, s) 
      PROVE  PassHolds(p)' /\ \A q \in Passes : q # p => pass'[q] = pass[q]
  BY <1>4, <1>a, <1>b DEF PassClaim, PassHolds, PassType
<1>5. CASE PassReclaim(p)
  BY <1>5, <1>a, <1>b DEF PassReclaim, Goto, Finished, PassHolds, PassType
<1>6. CASE PassStart(p)
  <2>1. CASE Unmoved(pass[p].cur.task, pass[p].cur.job)
    <3>1. pass[p].cur \in Snapshot
      BY <1>6 DEF PassStart, TypeInv, TypeOK, PassOK
    <3>2. /\ pass'[p].pc = "spawn" /\ pass'[p].todo = pass[p].todo
          /\ pass'[p].cur.job = Apply(pass[p].cur.job, "start", FALSE)
          /\ \A q \in Passes : q # p => pass'[q] = pass[q]
      BY <1>6, <1>a, <1>b, <2>1, <3>1 DEF PassStart, PassType, Snapshot
    <3> QED BY <3>2, <1>a, <1>c DEF PassHolds
  <2>2. CASE ~Unmoved(pass[p].cur.task, pass[p].cur.job)
    BY <1>6, <1>a, <1>b, <2>2 DEF PassStart, PassHolds, PassType
  <2> QED
    BY <2>1, <2>2
<1>7. CASE PassSupersede(p) \/ PassRetry(p)
  <2>1. Finished(p)
    BY <1>7 DEF PassSupersede, PassRetry
  <2> QED BY <2>1, <1>a, <1>b, FinishedMoves DEF PassHolds
<1>10. ASSUME NEW w \in Turns, PassSpawn(p, w) 
      PROVE  PassHolds(p)' /\ \A q \in Passes : q # p => pass'[q] = pass[q]
  <2>1. /\ pass'[p].pc = "next" /\ pass'[p].todo = pass[p].todo
        /\ \A q \in Passes : q # p => pass'[q] = pass[q]
    BY <1>10, <1>a, <1>b DEF PassSpawn, PassType
  <2> QED BY <2>1, <1>a DEF PassHolds
<1>8. CASE PassSpawnFails(p) \/ PassClose(p)
  BY <1>8, <1>a, <1>b DEF PassSpawnFails, PassClose, Goto, PassHolds, PassType
<1>9. CASE PassFail(p)
  <2> DEFINE failed == Apply(pass[p].cur.job, "fail", TRUE)
  <2>1. /\ pass'[p].pc \in {"retry", "next"} /\ pass'[p].todo = pass[p].todo
        /\ \A q \in Passes : q # p => pass'[q] = pass[q]
    <3>1. CASE pass' = [pass EXCEPT ![p].pc = "retry", ![p].cur.job = failed]
      <4> HIDE DEF failed
      <4> QED BY <3>1, <1>a, <1>b DEF PassType
    <3>2. CASE Finished(p)
      BY <3>2, <1>a, <1>b, FinishedMoves
    <3> QED
      BY <1>9, <3>1, <3>2 DEF PassFail
  <2> QED BY <2>1, <1>a DEF PassHolds
<1> QED
  BY <1>1, <1>2, <1>3, <1>4, <1>5, <1>6, <1>7, <1>8, <1>9, <1>10 DEF PassStep

LEMMA HeldStep == ASSUME TypeInv, JobInv, [Next]_vars PROVE HeldByPass'
<1>a. HeldByPass
  BY DEF JobInv
<1>1. ASSUME NEW p \in Passes, PassStep(p) PROVE HeldByPass'
  BY <1>1, <1>a, PassStepHolds DEF HeldByPass, PassHolds
<1>2. CASE Crash
  BY <1>2 DEF Crash, HeldByPass, IdlePass
<1>3. CASE UNCHANGED pass
  BY <1>3, <1>a DEF HeldByPass
<1>4. ASSUME NEW t \in Tasks, TaskStep(t) PROVE HeldByPass'
  <2>1. ASSUME NEW p \in LegacyPasses, LegacyReceive(p, t) PROVE HeldByPass'
    <3>1. p \in Passes
      BY <2>1 DEF Passes
    <3>2. pass'[p].pc = "list" /\ pass'[p].todo = pass[p].todo
          /\ \A q \in Passes : q # p => pass'[q] = pass[q]
      BY <2>1, <3>1 DEF LegacyReceive, TypeInv, TypeOK, PassOK, PassType
    <3> QED BY <3>1, <3>2, <1>a DEF HeldByPass
  <2> QED
    BY <1>3, <1>4, <2>1 DEF TaskStep, Receive, Discover, Exhaust, Expire, volatile
<1>5. OnReady \/ OnReadyStep => UNCHANGED pass
  BY DEF OnReady, OnReadyStep, Requeue, Interrupt, RequeueDone, ScanDone
<1>6. ASSUME NEW w \in Turns, TurnStep(w) PROVE UNCHANGED pass
  BY <1>6 DEF TurnStep, TurnEnds, TurnStopped, Record, ReadJob, CloseAttempt, SaveFinal
<1>7. ASSUME NEW k \in Couriers, CourierStep(k) PROVE UNCHANGED pass
  BY <1>7 DEF CourierStep, LoopTick, Fetch, CourierDone, Send, Mark, Refused
<1>8. Boot \/ UNCHANGED vars => UNCHANGED pass
  BY DEF Boot, vars, volatile
<1> QED
  BY <1>1, <1>2, <1>3, <1>4, <1>5, <1>6, <1>7, <1>8 DEF Next

\* A failure that may be retried either stays as it is or gives its attempt up.
LEMMA StandsStill ==
  ASSUME TypeInv, NEW t \in Tasks, Moves(t), NEW j \in Job, j.state = "failed",
         job[t] = j \/ job[t].attempt > j.attempt
  PROVE  job'[t] = j \/ job'[t].attempt > j.attempt
<1>1. job[t] \in Job /\ job[t].attempt \in Nat /\ j.attempt \in Nat
  BY MaxAttemptsAssumption DEF TypeInv, TypeOK, LedgerOK, Job
<1>2. CASE CanRetry(job[t]) /\ job'[t] = Apply(job[t], "retry", FALSE)
  <2>1. job'[t].attempt = job[t].attempt + 1
    BY <1>2 DEF Apply
  <2> QED BY <2>1, <1>1
<1> QED
  BY <1>1, <1>2 DEF Moves, TerminalStates

LEMMA RetryStep == ASSUME TypeInv, JobInv, [Next]_vars PROVE RetryStands'
<1> DEFINE Ok(q) == pass[q].pc = "retry" =>
                        \/ job[pass[q].cur.task] = pass[q].cur.job
                        \/ job[pass[q].cur.task].attempt > pass[q].cur.job.attempt
<1> SUFFICES ASSUME NEW q \in Passes PROVE Ok(q)'
  BY DEF RetryStands
<1>a. Ok(q) /\ \A u \in Tasks : Moves(u)
  BY JobMoves DEF JobInv, RetryStands
<1>b. pass \in [Passes -> PassType] /\ pass[q] \in PassType
  BY DEF TypeInv, TypeOK, PassOK
<1>1. CASE pass'[q] = pass[q]
  <2>1. CASE pass[q].pc = "retry"
    <3>1. /\ pass[q].cur.task \in Tasks /\ pass[q].cur.job \in Job
          /\ pass[q].cur.job.state = "failed"
      BY <2>1 DEF TypeInv, TypeOK, PassOK, Snapshot, RetryInHand, CanRetry
    <3> QED
      BY <1>1, <1>a, <2>1, <3>1, StandsStill
  <2> QED
    BY <1>1, <2>1
<1>2. CASE pass'[q].pc # "retry"
  BY <1>2
<1>3. CASE PassFail(q)
  <2> DEFINE s == pass[q].cur
             failed == Apply(s.job, "fail", TRUE)
  <2>1. s \in Snapshot /\ s.task \in Tasks /\ job \in [Tasks -> Job]
    BY <1>3 DEF PassFail, TypeInv, TypeOK, PassOK, LedgerOK, Snapshot
  <2>2. CASE /\ Unmoved(s.task, s.job)
             /\ pass' = [pass EXCEPT ![q].pc = "retry", ![q].cur.job = failed]
    <3>1. job' = [job EXCEPT ![s.task] = failed]
      BY <1>3, <2>2 DEF PassFail, SaveTransition
    <3> HIDE DEF failed
    <3>2. pass'[q].cur.task = s.task /\ pass'[q].cur.job = failed
      BY <2>1, <2>2, <1>b DEF PassType, Snapshot
    <3> QED
      BY <2>1, <3>1, <3>2
  <2>3. CASE Finished(q)
    BY <2>3, <1>b, <1>2, FinishedMoves
  <2> QED
    BY <1>3, <2>2, <2>3 DEF PassFail
<1>4. ASSUME NEW p \in Passes, PassStep(p) PROVE Ok(q)'
  <2>1. CASE p # q
    BY <1>1, <1>4, <2>1, PassStepHolds
  <2>2. CASE p = q /\ ~PassFail(q)
    <3>1. Finished(q) => Ok(q)'
      BY <1>b, <1>2, FinishedMoves
    <3>2. PassBegin(q) \/ PassEnd(q) => Ok(q)'
      BY <1>b, <1>2 DEF PassBegin, PassEnd, IdlePass
    <3>3. ASSUME NEW s \in pass[q].todo, PassSkips(q, s) \/ PassClaim(q, s) PROVE Ok(q)'
      <4>1. PassSkips(q, s) => pass'[q].pc = "next"
        BY <1>b DEF PassSkips, Drop, Takes, PassType
      <4>2. PassClaim(q, s) => pass'[q].pc \in {"start", "reclaim"}
        BY <1>b DEF PassClaim, PassType
      <4> QED
        BY <3>3, <4>1, <4>2, <1>2
    <3>4. PassStart(q) => Ok(q)'
      BY <1>b, <1>2 DEF PassStart, PassType
    <3>5. ASSUME NEW w \in Turns, PassSpawn(q, w) PROVE Ok(q)'
      BY <3>5, <1>b, <1>2 DEF PassSpawn, PassType
    <3>6. PassReclaim(q) \/ PassSpawnFails(q) \/ PassClose(q) => Ok(q)'
      BY <1>b, <1>2, <3>1 DEF PassReclaim, PassSpawnFails, PassClose, Goto, PassType
    <3>7. PassSupersede(q) \/ PassRetry(q) => Ok(q)'
      BY <3>1 DEF PassSupersede, PassRetry
    <3> QED
      BY <1>4, <2>2, <3>2, <3>3, <3>4, <3>5, <3>6, <3>7 DEF PassStep
  <2> QED
    BY <1>3, <2>1, <2>2
<1>5. CASE Crash
  BY <1>5, <1>2 DEF Crash, IdlePass
<1>6. ASSUME NEW t \in Tasks, TaskStep(t) PROVE Ok(q)'
  <2>1. ASSUME NEW p \in LegacyPasses, LegacyReceive(p, t)
        PROVE  pass'[q] = pass[q] \/ pass'[q].pc = "list"
    BY <2>1, <1>b DEF LegacyReceive, Passes, PassType
  <2> QED
    BY <1>1, <1>2, <1>6, <2>1 DEF TaskStep, Receive, Discover, Exhaust, Expire, volatile
<1>7. OnReady \/ OnReadyStep => pass' = pass
  BY DEF OnReady, OnReadyStep, Requeue, Interrupt, RequeueDone, ScanDone
<1>8. ASSUME NEW w \in Turns, TurnStep(w) PROVE pass' = pass
  BY <1>8 DEF TurnStep, TurnEnds, TurnStopped, Record, ReadJob, CloseAttempt, SaveFinal
<1>9. ASSUME NEW k \in Couriers, CourierStep(k) PROVE pass' = pass
  BY <1>9 DEF CourierStep, LoopTick, Fetch, CourierDone, Send, Mark, Refused
<1>10. Boot \/ UNCHANGED vars => pass' = pass
  BY DEF Boot, vars, volatile
<1> QED
  BY <1>1, <1>4, <1>5, <1>6, <1>7, <1>8, <1>9, <1>10 DEF Next

LEMMA JobNext == TypeInv /\ JobInv /\ [Next]_vars => JobInv'
  BY RunningStep, HeldStep, RetryStep DEF JobInv

LEMMA JobInvariant == Spec => [](TypeInv /\ JobInv)
  BY TypeInit, TypeNext, JobInit, JobNext, PTL DEF Spec

\* A finished row is immutable but for the safe retry of its failure, however stale
\* the row from which a pass, a sink or the reconciliation computes its transition.
THEOREM FinishedStays == Spec => TerminalStays
<1> DEFINE Stays == \A t \in Tasks : job[t].state \in TerminalStates =>
                        \/ job'[t] = job[t]
                        \/ CanRetry(job[t]) /\ job'[t] = Apply(job[t], "retry", FALSE)
<1>1. TypeInv /\ JobInv /\ [Next]_vars => Stays
  BY JobMoves DEF Moves
<1> QED
  BY <1>1, JobInvariant, PTL DEF Spec, TerminalStays

-----------------------------------------------------------------------------
(* Who works on an attempt.                                                *)

\* The attempt has a row that no claim and no reclaim can take.
Taken(t, n) == attempts[t][n] \notin {"none", "interrupted"}

Free(p) == pass[p].pc \in {"idle", "list", "next"}

\* A pass owns an attempt from its claim until a turn, or the pass itself, is done with it.
Owns(p) == pass[p].pc \in {"start", "supersede", "spawn", "close", "fail", "retry"}
OnAttempt(p, t, n) == pass[p].cur.task = t /\ pass[p].cur.job.attempt = n
OwnsAttempt(p, t, n) == Owns(p) /\ OnAttempt(p, t, n)

\* Nobody in this process works on the attempt, or did.
Unowned(t, n) == begun[t][n] = 0 /\ \A p \in Passes : ~OwnsAttempt(p, t, n)

\* Before the first on_ready of a process nothing in it works.
Fresh ==
    ~reconciled =>
        /\ recon.pc = "idle" /\ due = 0
        /\ \A p \in Passes : pass[p].pc = "idle"
        /\ \A w \in Turns : turn[w].pc = "idle"
        /\ \A t \in Tasks, n \in 1..MaxAttempts : begun[t][n] = 0

\* A pass never holds an attempt the job has not reached.
Reached ==
    \A p \in Passes :
        /\ \A s \in pass[p].todo : s.job.attempt <= job[s.task].attempt
        /\ ~Free(p) => pass[p].cur.job.attempt <= job[pass[p].cur.task].attempt

Followed ==
    \A t \in Tasks, n \in 1..MaxAttempts :
        /\ n > job[t].attempt => attempts[t][n] = "none"
        /\ n < job[t].attempt => attempts[t][n] \in ClosedStates

RunningTaken == \A t \in Tasks : job[t].state = "running" => Taken(t, job[t].attempt)

\* What a pass owns is taken and has begun no turn; two passes own two attempts.
OwnedOnce ==
    \A p \in Passes : Owns(p) =>
        /\ Taken(pass[p].cur.task, pass[p].cur.job.attempt)
        /\ begun[pass[p].cur.task][pass[p].cur.job.attempt] = 0
OwnersApart ==
    \A p, q \in Passes : p # q /\ Owns(p) /\ Owns(q) =>
        ~OnAttempt(p, pass[q].cur.task, pass[q].cur.job.attempt)

\* The row a pass started stays as it started it until the pass lets go of it, and
\* the attempt it gives up is closed before its job moves.
StartedStands ==
    \A p \in Passes : pass[p].pc \in {"spawn", "close", "fail"} =>
        job[pass[p].cur.task] = pass[p].cur.job
GivenUpClosed ==
    \A p \in Passes : pass[p].pc \in {"fail", "retry"} =>
        attempts[pass[p].cur.task][pass[p].cur.job.attempt] \in ClosedStates

\* An attempt with a turn is the one its job is at; its turn is the task's only one.
BegunOnce ==
    \A t \in Tasks, n \in 1..MaxAttempts : begun[t][n] > 0 =>
        begun[t][n] = 1 /\ n = job[t].attempt /\ Taken(t, n)
OneTurn ==
    /\ \A w \in Turns : turn[w].pc # "idle" =>
            begun[turn[w].task][job[turn[w].task].attempt] > 0
    /\ \A v, w \in Turns : v # w /\ turn[v].pc # "idle" /\ turn[w].pc # "idle" =>
            turn[v].task # turn[w].task

\* The rows on_ready is about to requeue are as it read them, one row a task, and
\* nobody works on them; nor on the one it has requeued and not yet interrupted.
ToRequeue ==
    /\ \A s \in recon.todo : job[s.task] = s.job /\ Unowned(s.task, s.job.attempt)
    /\ \A r, s \in recon.todo : r.task = s.task => r = s
ToInterrupt ==
    recon.pc = "interrupt" =>
        /\ job[recon.cur.task].attempt = recon.cur.job.attempt
        /\ job[recon.cur.task].state # "running"
        /\ Taken(recon.cur.task, recon.cur.job.attempt)
        /\ Unowned(recon.cur.task, recon.cur.job.attempt)
        /\ \A s \in recon.todo : s.task # recon.cur.task

AttemptInv ==
    /\ Fresh /\ Reached /\ Followed /\ RunningTaken
    /\ OwnedOnce /\ OwnersApart /\ StartedStands /\ GivenUpClosed
    /\ BegunOnce /\ OneTurn /\ ToRequeue /\ ToInterrupt

-----------------------------------------------------------------------------
(* What a step of a pass does to what the pass holds.                      *)

\* It lets go; it takes a row of its list; or it moves on with what it has.
LetsGo(p) ==
    /\ Free(p)'
    /\ \/ pass'[p].todo \subseteq pass[p].todo
       \/ UNCHANGED job /\ \A s \in pass'[p].todo : s.task \in Tasks /\ s.job = job[s.task]
TakesRow(p) ==
    \E s \in pass[p].todo :
        /\ pass'[p].cur = s /\ pass'[p].todo \subseteq pass[p].todo
        /\ \/ pass'[p].pc = "reclaim"
           \/ /\ pass'[p].pc = "start" /\ attempts[s.task][s.job.attempt] = "none"
              /\ OpenAttempt(s.task, s.job.attempt)
MovesOn(p) ==
    /\ ~Free(p) /\ pass'[p].todo \subseteq pass[p].todo
    /\ pass'[p].cur.task = pass[p].cur.task
    /\ pass'[p].cur.job.attempt = pass[p].cur.job.attempt
    /\ \/ /\ pass[p].pc = "reclaim" /\ pass'[p].pc = "start"
          /\ attempts[pass[p].cur.task][pass[p].cur.job.attempt] = "interrupted"
          /\ OpenAttempt(pass[p].cur.task, pass[p].cur.job.attempt)
       \/ /\ pass[p].pc = "start" /\ pass'[p].pc = "spawn"
          /\ job'[pass[p].cur.task] = pass'[p].cur.job
       \/ pass[p].pc = "start" /\ pass'[p].pc = "supersede"
       \/ pass[p].pc = "spawn" /\ pass'[p].pc = "close" /\ pass'[p].cur = pass[p].cur
       \/ pass[p].pc = "close" /\ pass'[p].pc = "fail" /\ pass'[p].cur = pass[p].cur
             /\ FinishAttempt(pass[p].cur.task, pass[p].cur.job.attempt, "failed")
       \/ pass[p].pc = "fail" /\ pass'[p].pc = "retry"

LEMMA PassActs ==
  ASSUME TypeInv, NEW p \in Passes, PassStep(p)
  PROVE  LetsGo(p) \/ TakesRow(p) \/ MovesOn(p)
<1>a. pass \in [Passes -> PassType] /\ pass[p] \in PassType
  BY DEF TypeInv, TypeOK, PassOK
<1>b. ~Free(p) => /\ pass[p].cur \in Snapshot /\ pass[p].cur.task \in Tasks
                  /\ pass[p].cur.job \in Job /\ job \in [Tasks -> Job]
  BY DEF TypeInv, TypeOK, PassOK, LedgerOK, Free, Snapshot
<1>c. Finished(p) => LetsGo(p)
  BY <1>a, FinishedMoves DEF LetsGo, Free
<1>1. CASE PassBegin(p)
  BY <1>1, <1>a DEF PassBegin, LetsGo, Free, Snap, Startable, durable
<1>2. CASE PassEnd(p)
  BY <1>2, <1>a DEF PassEnd, LetsGo, Free, IdlePass
<1>3. ASSUME NEW s \in pass[p].todo, PassSkips(p, s) PROVE LetsGo(p)
  <2>1. pass'[p].pc = "next" /\ pass'[p].todo = pass[p].todo \ {s}
    BY <1>3, <1>a DEF PassSkips, Takes, Drop, PassType
  <2> QED BY <2>1 DEF LetsGo, Free
<1>4. ASSUME NEW s \in pass[p].todo, PassClaim(p, s) PROVE TakesRow(p)
  <2>1. /\ pass'[p].cur = s /\ pass'[p].todo = pass[p].todo \ {s}
        /\ pass'[p].pc = IF Claimable(s.task, s.job.attempt) THEN "start" ELSE "reclaim"
    BY <1>4, <1>a DEF PassClaim, PassType
  <2>2. Claimable(s.task, s.job.attempt) => OpenAttempt(s.task, s.job.attempt)
    BY <1>4 DEF PassClaim
  <2> QED BY <2>1, <2>2 DEF TakesRow, Claimable
<1>5. CASE PassReclaim(p)
  <2>0. ~Free(p)
    BY <1>5 DEF PassReclaim, Free
  <2>1. CASE Reclaimable(pass[p].cur.task, pass[p].cur.job.attempt)
    <3>1. /\ pass[p].pc = "reclaim" /\ pass'[p].pc = "start" /\ pass'[p].cur = pass[p].cur
          /\ pass'[p].todo = pass[p].todo
          /\ OpenAttempt(pass[p].cur.task, pass[p].cur.job.attempt)
      BY <1>5, <1>a, <2>1 DEF PassReclaim, Goto, PassType
    <3> QED BY <2>0, <2>1, <3>1 DEF MovesOn, Reclaimable
  <2>2. CASE ~Reclaimable(pass[p].cur.task, pass[p].cur.job.attempt)
    BY <1>5, <1>c, <2>2 DEF PassReclaim
  <2> QED BY <2>1, <2>2
<1>6. CASE PassStart(p)
  <2> DEFINE s == pass[p].cur
             started == Apply(s.job, "start", FALSE)
  <2>0. ~Free(p) /\ pass[p].pc = "start"
    BY <1>6 DEF PassStart, Free
  <2>1. CASE Unmoved(s.task, s.job)
    <3>1. job'[s.task] = started
      BY <1>6, <1>b, <2>0, <2>1 DEF PassStart, SaveTransition
    <3>2. started.attempt = s.job.attempt
      BY DEF Apply
    <3>3. pass' = [pass EXCEPT ![p].pc = "spawn", ![p].cur.job = started]
      BY <1>6, <2>1 DEF PassStart
    <3> HIDE DEF started
    <3>4. /\ pass'[p].pc = "spawn" /\ pass'[p].cur.job = started /\ pass'[p].cur.task = s.task
          /\ pass'[p].todo = pass[p].todo
      BY <1>a, <1>b, <2>0, <3>3 DEF PassType, Snapshot
    <3> QED BY <2>0, <3>1, <3>2, <3>4 DEF MovesOn
  <2>2. CASE ~Unmoved(s.task, s.job)
    <3>1. /\ pass'[p].pc = "supersede" /\ pass'[p].cur = s /\ pass'[p].todo = pass[p].todo
      BY <1>6, <1>a, <2>2 DEF PassStart, PassType
    <3> QED BY <2>0, <3>1 DEF MovesOn
  <2> QED BY <2>1, <2>2
<1>7. CASE PassSupersede(p) \/ PassRetry(p)
  BY <1>7, <1>c DEF PassSupersede, PassRetry
<1>8. ASSUME NEW w \in Turns, PassSpawn(p, w) PROVE LetsGo(p)
  <2>1. pass'[p].pc = "next" /\ pass'[p].todo = pass[p].todo
    BY <1>8, <1>a DEF PassSpawn, PassType
  <2> QED BY <2>1 DEF LetsGo, Free
<1>9. CASE PassSpawnFails(p) \/ PassClose(p)
  <2>1. /\ ~Free(p) /\ pass'[p].cur = pass[p].cur /\ pass'[p].todo = pass[p].todo
        /\ PassSpawnFails(p) => pass[p].pc = "spawn" /\ pass'[p].pc = "close"
        /\ PassClose(p) => /\ pass[p].pc = "close" /\ pass'[p].pc = "fail"
                           /\ FinishAttempt(pass[p].cur.task, pass[p].cur.job.attempt, "failed")
    BY <1>9, <1>a DEF PassSpawnFails, PassClose, Goto, Free, PassType
  <2> QED BY <1>9, <2>1 DEF MovesOn
<1>10. CASE PassFail(p)
  <2> DEFINE failed == Apply(pass[p].cur.job, "fail", TRUE)
  <2>0. ~Free(p) /\ pass[p].pc = "fail" /\ failed.attempt = pass[p].cur.job.attempt
    BY <1>10 DEF PassFail, Free, Apply
  <2>1. CASE pass' = [pass EXCEPT ![p].pc = "retry", ![p].cur.job = failed]
    <3> HIDE DEF failed
    <3>1. /\ pass'[p].pc = "retry" /\ pass'[p].cur.job = failed /\ pass'[p].todo = pass[p].todo
          /\ pass'[p].cur.task = pass[p].cur.task
      BY <1>a, <1>b, <2>0, <2>1 DEF PassType, Snapshot
    <3> QED BY <2>0, <3>1 DEF MovesOn
  <2> QED
    BY <1>10, <1>c, <2>1 DEF PassFail
<1> QED
  BY <1>1, <1>2, <1>3, <1>4, <1>5, <1>6, <1>7, <1>8, <1>9, <1>10 DEF PassStep

\* One pass moves in a step, or all fall idle; the first job of a legacy pass asks
\* it to list.
LEMMA PassChange ==
  ASSUME TypeInv, [Next]_vars, NEW p \in Passes
  PROVE  \/ pass'[p] = pass[p]
         \/ Free(p)' /\ pass'[p].todo \subseteq pass[p].todo
         \/ PassStep(p) /\ \A q \in Passes : q # p => pass'[q] = pass[q]
<1> DEFINE Goal == \/ pass'[p] = pass[p]
                   \/ Free(p)' /\ pass'[p].todo \subseteq pass[p].todo
                   \/ PassStep(p) /\ \A q \in Passes : q # p => pass'[q] = pass[q]
<1>a. UNCHANGED pass => Goal
  OBVIOUS
<1>1. ASSUME NEW t \in Tasks, TaskStep(t) PROVE Goal
  <2>1. ASSUME NEW q \in LegacyPasses, LegacyReceive(q, t) PROVE Goal
    <3>1. pass \in [Passes -> PassType] /\ q \in Passes /\ pass[q] \in PassType
      BY <2>1 DEF TypeInv, TypeOK, PassOK, Passes
    <3>2. pass'[q].pc = "list" /\ pass'[q].todo = pass[q].todo
          /\ (p # q => pass'[p] = pass[p])
      BY <2>1, <3>1 DEF LegacyReceive, PassType
    <3> QED BY <3>2 DEF Free
  <2> QED
    BY <1>1, <1>a, <2>1 DEF TaskStep, Receive, Discover, Exhaust, Expire, volatile
<1>2. OnReady \/ OnReadyStep => Goal
  BY <1>a DEF OnReady, OnReadyStep, Requeue, Interrupt, RequeueDone, ScanDone
<1>3. ASSUME NEW q \in Passes, PassStep(q) PROVE Goal
  <2>2. \A r \in Passes : r # q => pass'[r] = pass[r]
    <3>1. pass \in [Passes -> PassType]
      BY DEF TypeInv, TypeOK, PassOK
    <3>2. Finished(q) => \A r \in Passes : r # q => pass'[r] = pass[r]
      BY <3>1, FinishedMoves
    <3>3. PassBegin(q) \/ PassEnd(q) \/ PassReclaim(q) => \A r \in Passes : r # q => pass'[r] = pass[r]
      BY <3>1, <3>2 DEF PassBegin, PassEnd, PassReclaim, Goto
    <3>4. PassStart(q) \/ PassSupersede(q) \/ PassSpawnFails(q) \/ PassClose(q) \/ PassFail(q)
             \/ PassRetry(q) => \A r \in Passes : r # q => pass'[r] = pass[r]
      BY <3>1, <3>2 DEF PassStart, PassSupersede, PassSpawnFails, PassClose, PassFail, PassRetry, Goto
    <3>5. ASSUME NEW s \in pass[q].todo, PassSkips(q, s) \/ PassClaim(q, s)
          PROVE  \A r \in Passes : r # q => pass'[r] = pass[r]
      BY <3>1, <3>5 DEF PassSkips, Drop, PassClaim
    <3>6. ASSUME NEW w \in Turns, PassSpawn(q, w) PROVE \A r \in Passes : r # q => pass'[r] = pass[r]
      BY <3>1, <3>6 DEF PassSpawn
    <3> QED
      BY <1>3, <3>3, <3>4, <3>5, <3>6 DEF PassStep
  <2> QED
    BY <1>3, <2>2
<1>4. ASSUME NEW w \in Turns, TurnStep(w) PROVE Goal
  BY <1>4, <1>a DEF TurnStep, TurnEnds, TurnStopped, Record, ReadJob, CloseAttempt, SaveFinal
<1>5. ASSUME NEW k \in Couriers, CourierStep(k) PROVE Goal
  BY <1>5, <1>a DEF CourierStep, LoopTick, Fetch, CourierDone, Send, Mark, Refused
<1>6. CASE Crash
  BY <1>6 DEF Crash, IdlePass, Free
<1>7. CASE Boot \/ UNCHANGED vars
  BY <1>7, <1>a DEF Boot, vars, volatile
<1> QED
  BY <1>1, <1>2, <1>3, <1>4, <1>5, <1>6, <1>7 DEF Next

\* An owner owned the attempt before the step, or the step opened it.
Opens(p) ==
    /\ attempts[pass'[p].cur.task][pass'[p].cur.job.attempt] \in {"none", "interrupted"}
    /\ attempts'[pass'[p].cur.task][pass'[p].cur.job.attempt] = "open"
    /\ \A q \in Passes : q # p => pass'[q] = pass[q]

SameAttempt(p) ==
    /\ pass'[p].cur.task = pass[p].cur.task
    /\ pass'[p].cur.job.attempt = pass[p].cur.job.attempt

LEMMA OwnedTypes ==
  ASSUME TypeInv, NEW p \in Passes
  PROVE  /\ Owns(p) \/ ~Free(p) => /\ pass[p].cur.task \in Tasks /\ pass[p].cur.job \in Job
                                   /\ pass[p].cur.job.attempt \in 1..MaxAttempts
         /\ Owns(p) => ~Free(p)
         /\ \A s \in pass[p].todo : s.task \in Tasks /\ s.job \in Job /\ s.job.attempt \in 1..MaxAttempts
  BY DEF TypeInv, TypeOK, PassOK, PassType, Owns, Free, Snapshot, Job

LEMMA OpensOne ==
  ASSUME LedgerOK, NEW t \in Tasks, NEW n \in 1..MaxAttempts, OpenAttempt(t, n)
  PROVE  attempts'[t][n] = "open"
  BY DEF LedgerOK, OpenAttempt

LEMMA WhoOwns ==
  ASSUME TypeInv, [Next]_vars, NEW p \in Passes, Owns(p)'
  PROVE  (Owns(p) /\ SameAttempt(p)) \/ Opens(p)
<1>0. LedgerOK
  BY DEF TypeInv, TypeOK
<1>1. ~Free(p)'
  BY DEF Owns, Free
<1>2. CASE pass'[p] = pass[p]
  BY <1>2 DEF Owns, SameAttempt
<1>3. CASE PassStep(p) /\ \A q \in Passes : q # p => pass'[q] = pass[q]
  <2>1. CASE TakesRow(p)
    <3>1. PICK s \in pass[p].todo :
            /\ pass'[p].cur = s
            /\ pass'[p].pc = "start" => /\ attempts[s.task][s.job.attempt] = "none"
                                        /\ OpenAttempt(s.task, s.job.attempt)
      BY <2>1 DEF TakesRow
    <3>2. pass'[p].pc = "start"
      BY <2>1 DEF TakesRow, Owns
    <3>3. s.task \in Tasks /\ s.job.attempt \in 1..MaxAttempts
      BY OwnedTypes
    <3>4. attempts'[s.task][s.job.attempt] = "open"
      BY <1>0, <3>1, <3>2, <3>3, OpensOne
    <3> QED BY <1>3, <3>1, <3>2, <3>4 DEF Opens
  <2>2. CASE MovesOn(p)
    <3>1. SameAttempt(p) /\ ~Free(p)
      BY <2>2 DEF MovesOn, SameAttempt
    <3>2. CASE pass[p].pc = "reclaim"
      <4>1. /\ attempts[pass[p].cur.task][pass[p].cur.job.attempt] = "interrupted"
            /\ OpenAttempt(pass[p].cur.task, pass[p].cur.job.attempt)
        BY <2>2, <3>2 DEF MovesOn
      <4>2. pass[p].cur.task \in Tasks /\ pass[p].cur.job.attempt \in 1..MaxAttempts
        BY <3>1, OwnedTypes
      <4>3. attempts'[pass[p].cur.task][pass[p].cur.job.attempt] = "open"
        BY <1>0, <4>1, <4>2, OpensOne
      <4> QED BY <1>3, <3>1, <4>1, <4>3 DEF Opens, SameAttempt
    <3>3. CASE pass[p].pc # "reclaim"
      BY <2>2, <3>1, <3>3 DEF MovesOn, Owns
    <3> QED BY <3>2, <3>3
  <2> QED
    BY <1>1, <1>3, <2>1, <2>2, PassActs DEF LetsGo
<1> QED
  BY <1>1, <1>2, <1>3, PassChange

\* An attempt is opened from nothing or from a restart's interruption, at most at the
\* job's attempt; and closed by a sink or a pass, or interrupted by the reconciliation.
AttemptMoves(t, n) ==
    \/ attempts'[t][n] = attempts[t][n]
    \/ attempts[t][n] \in {"none", "interrupted"} /\ n <= job[t].attempt /\ attempts'[t][n] = "open"
    \/ attempts[t][n] = "open" /\ attempts'[t][n] \in ClosedStates
    \/ /\ attempts[t][n] = "open" /\ recon.pc = "interrupt" /\ recon'.pc # "interrupt"
       /\ recon.cur.task = t /\ recon.cur.job.attempt = n

LEMMA OpenMoves ==
  ASSUME LedgerOK, NEW t \in Tasks, NEW n \in 1..MaxAttempts, OpenAttempt(t, n),
         attempts[t][n] \in {"none", "interrupted"}, n <= job[t].attempt
  PROVE  \A u \in Tasks, m \in 1..MaxAttempts : AttemptMoves(u, m)
  BY DEF LedgerOK, OpenAttempt, AttemptMoves

LEMMA FinishMoves ==
  ASSUME LedgerOK, NEW t \in Tasks, NEW n \in 1..MaxAttempts, NEW how \in ClosedStates,
         FinishAttempt(t, n, how)
  PROVE  \A u \in Tasks, m \in 1..MaxAttempts : AttemptMoves(u, m)
  BY DEF LedgerOK, FinishAttempt, AttemptMoves

LEMMA WhoAttempts ==
  ASSUME TypeInv, Reached, [Next]_vars
  PROVE  \A u \in Tasks, m \in 1..MaxAttempts : AttemptMoves(u, m)
<1> DEFINE Goal == \A u \in Tasks, m \in 1..MaxAttempts : AttemptMoves(u, m)
<1>a. UNCHANGED attempts => Goal
  BY DEF AttemptMoves
<1>b. LedgerOK
  BY DEF TypeInv, TypeOK
<1>1. ASSUME NEW t \in Tasks, TaskStep(t) PROVE Goal
  BY <1>1, <1>a DEF TaskStep, Receive, LegacyReceive, Discover, Exhaust, Expire, durable
<1>2. CASE Interrupt
  <2>1. recon.cur \in Snapshot /\ recon \in ReconType
    BY <1>2 DEF Interrupt, TypeInv, TypeOK, ReconOK
  <2>2. recon.cur.task \in Tasks /\ recon.cur.job.attempt \in 1..MaxAttempts
    BY <2>1 DEF Snapshot, Job
  <2>3. recon.pc = "interrupt" /\ recon'.pc = "requeue"
    BY <1>2, <2>1 DEF Interrupt, ReconType
  <2>4. FinishAttempt(recon.cur.task, recon.cur.job.attempt, "interrupted")
    BY <1>2 DEF Interrupt
  <2> QED
    BY <1>b, <2>2, <2>3, <2>4 DEF LedgerOK, FinishAttempt, AttemptMoves
<1>3. CASE OnReady \/ OnReadyStep
  BY <1>2, <1>3, <1>a DEF OnReady, OnReadyStep, Requeue, RequeueDone, ScanDone, durable
<1>4. ASSUME NEW p \in Passes, PassStep(p) PROVE Goal
  <2>1. ASSUME NEW s \in pass[p].todo, PassClaim(p, s) PROVE Goal
    <3>1. s.task \in Tasks /\ s.job.attempt \in 1..MaxAttempts /\ s.job.attempt <= job[s.task].attempt
      BY OwnedTypes DEF Reached
    <3>2. CASE Claimable(s.task, s.job.attempt)
      BY <2>1, <3>1, <3>2, <1>b, OpenMoves DEF PassClaim, Claimable
    <3> QED BY <2>1, <3>2, <1>a DEF PassClaim
  <2>2. CASE PassReclaim(p)
    <3>1. /\ pass[p].cur.task \in Tasks /\ pass[p].cur.job.attempt \in 1..MaxAttempts
          /\ pass[p].cur.job.attempt <= job[pass[p].cur.task].attempt
      BY <2>2, OwnedTypes DEF PassReclaim, Reached, Free
    <3>2. CASE Reclaimable(pass[p].cur.task, pass[p].cur.job.attempt)
      BY <2>2, <3>1, <3>2, <1>b, OpenMoves DEF PassReclaim, Reclaimable
    <3> QED BY <2>2, <3>2, <1>a DEF PassReclaim
  <2>3. CASE PassSupersede(p) \/ PassClose(p)
    <3>1. pass[p].cur.task \in Tasks /\ pass[p].cur.job.attempt \in 1..MaxAttempts
      BY <2>3, OwnedTypes DEF PassSupersede, PassClose, Free
    <3> QED
      BY <2>3, <3>1, <1>b, FinishMoves DEF PassSupersede, PassClose, ClosedStates, Outcomes
  <2> QED
    BY <1>4, <2>1, <2>2, <2>3, <1>a DEF PassStep, PassBegin, PassEnd, PassSkips, PassStart,
       PassSpawn, PassSpawnFails, PassFail, PassRetry, durable
<1>5. ASSUME NEW w \in Turns, TurnStep(w) PROVE Goal
  <2>1. CASE CloseAttempt(w)
    <3>1. /\ turn[w].task \in Tasks /\ turn[w].seen.attempt \in 1..MaxAttempts
          /\ turn[w].outcome \in ClosedStates
      BY <2>1 DEF CloseAttempt, TypeInv, TypeOK, TurnOK, TurnType, Job, ClosedStates
    <3> QED BY <2>1, <3>1, <1>b, FinishMoves DEF CloseAttempt
  <2> QED
    BY <1>5, <2>1, <1>a DEF TurnStep, TurnEnds, TurnStopped, Record, ReadJob, SaveFinal, durable
<1>6. ASSUME NEW k \in Couriers, CourierStep(k) PROVE Goal
  BY <1>6, <1>a DEF CourierStep, LoopTick, Fetch, CourierDone, Send, Mark, Refused, durable
<1>7. CASE Crash \/ Boot \/ UNCHANGED vars
  BY <1>7, <1>a DEF Crash, Boot, vars, durable
<1> QED
  BY <1>1, <1>3, <1>4, <1>5, <1>6, <1>7 DEF Next

\* A turn begins where a pass lets go of the row it started.
Begins(p, t, n) == pass[p].pc = "spawn" /\ OnAttempt(p, t, n) /\ Free(p)'

LEMMA WhoBegins ==
  ASSUME TypeInv, [Next]_vars, ~Crash, NEW t \in Tasks, NEW n \in 1..MaxAttempts
  PROVE  \/ begun'[t][n] = begun[t][n]
         \/ begun'[t][n] = begun[t][n] + 1 /\ \E p \in Passes : Begins(p, t, n)
<1> DEFINE Goal == \/ begun'[t][n] = begun[t][n]
                   \/ begun'[t][n] = begun[t][n] + 1 /\ \E p \in Passes : Begins(p, t, n)
<1>1. ASSUME NEW u \in Tasks, TaskStep(u) PROVE Goal
  BY <1>1 DEF TaskStep, Receive, LegacyReceive, Discover, Exhaust, Expire
<1>2. OnReady \/ OnReadyStep => Goal
  BY DEF OnReady, OnReadyStep, Requeue, Interrupt, RequeueDone, ScanDone
<1>3. ASSUME NEW p \in Passes, PassStep(p) PROVE Goal
  <2>1. ASSUME NEW w \in Turns, PassSpawn(p, w) PROVE Goal
    <3>1. pass \in [Passes -> PassType] /\ begun \in [Tasks -> [1..MaxAttempts -> Nat]]
      BY DEF TypeInv, TypeOK, PassOK, WorldOK
    <3>2. pass[p].cur.task \in Tasks /\ pass[p].cur.job.attempt \in 1..MaxAttempts /\ pass[p].pc = "spawn"
      BY <2>1, OwnedTypes DEF PassSpawn, Free
    <3>3. pass'[p].pc = "next"
      BY <2>1, <3>1 DEF PassSpawn, PassType
    <3>4. begun' = [begun EXCEPT ![pass[p].cur.task][pass[p].cur.job.attempt] = @ + 1]
      BY <2>1 DEF PassSpawn
    <3>5. CASE OnAttempt(p, t, n)
      BY <3>1, <3>2, <3>3, <3>4, <3>5 DEF Begins, OnAttempt, Free
    <3>6. CASE ~OnAttempt(p, t, n)
      BY <3>1, <3>2, <3>4, <3>6 DEF OnAttempt
    <3> QED BY <3>5, <3>6
  <2> QED
    BY <1>3, <2>1 DEF PassStep, PassBegin, PassEnd, PassSkips, PassClaim, PassReclaim, PassStart,
       PassSupersede, PassSpawnFails, PassClose, PassFail, PassRetry
<1>4. ASSUME NEW w \in Turns, TurnStep(w) PROVE Goal
  BY <1>4 DEF TurnStep, TurnEnds, TurnStopped, Record, ReadJob, CloseAttempt, SaveFinal
<1>5. ASSUME NEW k \in Couriers, CourierStep(k) PROVE Goal
  BY <1>5 DEF CourierStep, LoopTick, Fetch, CourierDone, Send, Mark, Refused
<1>6. Boot \/ UNCHANGED vars => Goal
  BY DEF Boot, vars
<1> QED
  BY <1>1, <1>2, <1>3, <1>4, <1>5, <1>6 DEF Next

\* A turn that runs ran before the step with the same task, or is the one a pass begins.
BeginsTurn(p, w) ==
    /\ pass[p].pc = "spawn" /\ Free(p)'
    /\ turn[w].pc = "idle" /\ turn'[w].task = pass[p].cur.task
    /\ begun' = [begun EXCEPT ![pass[p].cur.task][pass[p].cur.job.attempt] = @ + 1]
    /\ \A v \in Turns : v # w => turn'[v] = turn[v]

LEMMA WhoRuns ==
  ASSUME TypeInv, [Next]_vars, NEW w \in Turns, turn'[w].pc # "idle"
  PROVE  \/ turn[w].pc # "idle" /\ turn'[w].task = turn[w].task
         \/ \E p \in Passes : BeginsTurn(p, w)
<1> DEFINE Goal == \/ turn[w].pc # "idle" /\ turn'[w].task = turn[w].task
                   \/ \E p \in Passes : BeginsTurn(p, w)
<1>a. turn \in [Turns -> TurnType] /\ turn[w] \in TurnType
  BY DEF TypeInv, TypeOK, TurnOK
<1>b. UNCHANGED turn => Goal
  OBVIOUS
<1>c. IdleTurn.pc = "idle"
  BY DEF IdleTurn
<1>1. ASSUME NEW u \in Tasks, TaskStep(u) PROVE Goal
  BY <1>1, <1>b DEF TaskStep, Receive, LegacyReceive, Discover, Exhaust, Expire, volatile
<1>2. OnReady \/ OnReadyStep => Goal
  BY <1>b DEF OnReady, OnReadyStep, Requeue, Interrupt, RequeueDone, ScanDone
<1>3. ASSUME NEW p \in Passes, PassStep(p) PROVE Goal
  <2>1. ASSUME NEW v \in Turns, PassSpawn(p, v) PROVE Goal
    <3>1. pass \in [Passes -> PassType]
      BY DEF TypeInv, TypeOK, PassOK
    <3>2. pass'[p].pc = "next"
      BY <2>1, <3>1 DEF PassSpawn, PassType
    <3>3. CASE v = w
      <4>1. turn' = [turn EXCEPT ![w] = [IdleTurn EXCEPT !.pc = "running", !.task = pass[p].cur.task]]
        BY <2>1, <3>3 DEF PassSpawn
      <4>2. turn'[w].task = pass[p].cur.task
        BY <4>1, <1>a DEF IdleTurn
      <4> QED BY <2>1, <3>2, <3>3, <4>1, <4>2, <1>a DEF PassSpawn, BeginsTurn, Free
    <3>4. CASE v # w
      BY <2>1, <3>4, <1>a DEF PassSpawn
    <3> QED BY <3>3, <3>4
  <2> QED
    BY <1>3, <2>1, <1>b DEF PassStep, PassBegin, PassEnd, PassSkips, PassClaim, PassReclaim,
       PassStart, PassSupersede, PassSpawnFails, PassClose, PassFail, PassRetry
<1>4. ASSUME NEW v \in Turns, TurnStep(v) PROVE Goal
  <2>0. turn[v].pc # "idle"
    BY <1>4 DEF TurnStep, TurnEnds, TurnStopped, Record, ReadJob, CloseAttempt, SaveFinal
  <2>1. CASE v # w
    BY <1>4, <1>a, <2>1 DEF TurnStep, TurnEnds, TurnStopped, Record, ThenDeliver, ReadJob,
       CloseAttempt, TurnTo, SaveFinal
  <2>2. CASE v = w
    <3>1. TurnStopped(w) \/ ThenDeliver(w) => turn'[w].pc = "idle"
      BY <1>a, <1>c DEF TurnStopped, ThenDeliver
    <3>2. ASSUME NEW o \in Outcomes, TurnEnds(w, o) PROVE turn'[w].task = turn[w].task
      BY <3>2, <1>a DEF TurnEnds, TurnType
    <3>3. ReadJob(w) \/ CloseAttempt(w) => turn'[w].task = turn[w].task
      BY <1>a DEF ReadJob, CloseAttempt, TurnTo, TurnType
    <3>4. Record(w) => ThenDeliver(w) \/ turn'[w].task = turn[w].task
      BY <1>a DEF Record, TurnType
    <3>5. SaveFinal(w) => turn'[w].pc = "idle"
      BY <1>a, <1>c, <3>1 DEF SaveFinal
    <3> QED
      BY <1>4, <2>0, <2>2, <3>1, <3>2, <3>3, <3>4, <3>5 DEF TurnStep
  <2> QED BY <2>1, <2>2
<1>5. ASSUME NEW k \in Couriers, CourierStep(k) PROVE Goal
  BY <1>5, <1>b DEF CourierStep, LoopTick, Fetch, CourierDone, Send, Mark, Refused
<1>6. CASE Crash
  BY <1>6, <1>c DEF Crash
<1>7. Boot \/ UNCHANGED vars => Goal
  BY <1>b DEF Boot, vars, volatile
<1> QED
  BY <1>1, <1>2, <1>3, <1>4, <1>5, <1>6, <1>7 DEF Next

\* Who moves a row into running, out of it, and to another attempt.
Starts(t) == \E p \in Passes : pass[p].pc = "start" /\ OnAttempt(p, t, job[t].attempt)
Stops(t) ==
    \/ \E s \in recon.todo : s.task = t /\ recon'.todo = recon.todo \ {s}
    \/ \E w \in Turns : turn[w].pc # "idle" /\ turn[w].task = t
    \/ \E p \in Passes : /\ pass[p].pc = "fail" /\ OnAttempt(p, t, job[t].attempt)
                         /\ pass'[p].pc \notin {"spawn", "close", "fail"}
Retries(t) == \E p \in Passes : pass[p].pc = "retry" /\ OnAttempt(p, t, job[t].attempt)

RowMoves(t) ==
    \/ job'[t] = job[t]
    \/ /\ job'[t].attempt = job[t].attempt
       /\ job[t].state = "running" => Stops(t)
       /\ job'[t].state = "running" => Starts(t)
    \/ /\ job'[t].attempt = job[t].attempt + 1 /\ Retries(t)
       /\ job[t].state # "running" /\ job'[t].state # "running"

\* What the compare-and-set moves.
Saved(t, seen, tr) ==
    \A u \in Tasks : job'[u] # job[u] =>
        /\ u = t /\ job[t].state = seen.state /\ job[t].attempt = seen.attempt
        /\ job'[t].state = Target[tr]
        /\ tr # "retry" => job'[t].attempt = seen.attempt
        /\ tr = "retry" => job'[t].attempt = seen.attempt + 1

LEMMA SaveRow ==
  ASSUME job \in [Tasks -> Job], NEW t \in Tasks, NEW seen \in Job, NEW tr \in Triggers,
         NEW r \in BOOLEAN, SaveTransition(t, seen, tr, r)
  PROVE  Saved(t, seen, tr)
  BY DEF SaveTransition, Unmoved, Apply, Saved

LEMMA TargetNotRunning == \A tr \in Triggers : tr # "start" => Target[tr] # "running"
  BY DEF Target, Triggers

LEMMA WhoMoves ==
  ASSUME TypeInv, JobInv, [Next]_vars, NEW t \in Tasks
  PROVE  RowMoves(t)
<1>a. UNCHANGED job => RowMoves(t)
  BY DEF RowMoves
<1>b. job \in [Tasks -> Job] /\ pass \in [Passes -> PassType]
  BY DEF TypeInv, TypeOK, LedgerOK, PassOK
<1>c. \A j, tr, r : (tr = "start") = (Target[tr] = "running") \/ tr \notin Triggers
  BY DEF Target, Triggers
<1>1. ASSUME NEW u \in Tasks, TaskStep(u) PROVE RowMoves(t)
  <2>1. ASSUME job[u] = NoJob, job' = [job EXCEPT ![u] = AcceptedJob] PROVE RowMoves(t)
    <3>1. /\ NoJob.state # "running" /\ AcceptedJob.state # "running"
          /\ NoJob.attempt = AcceptedJob.attempt
      BY DEF NoJob, AcceptedJob, FreshJob
    <3> HIDE DEF NoJob, AcceptedJob
    <3>2. CASE u = t
      <4>1. job'[t] = AcceptedJob /\ job[t] = NoJob
        BY <1>b, <2>1, <3>2
      <4> QED BY <3>1, <4>1 DEF RowMoves
    <3>3. CASE u # t
      BY <1>b, <2>1, <3>3 DEF RowMoves
    <3> QED BY <3>2, <3>3
  <2> QED
    BY <1>1, <2>1, <1>a DEF TaskStep, Receive, LegacyReceive, Discover, Exhaust, Expire, durable
<1>2. CASE OnReady \/ OnReadyStep
  <2>1. ASSUME NEW s \in recon.todo, Requeue(s), job'[t] # job[t] PROVE RowMoves(t)
    <3>1. s.task \in Tasks /\ s.job \in Job
      BY HeldUnfinished DEF Passes
    <3>2. /\ t = s.task /\ job[t].attempt = s.job.attempt
          /\ job'[t].state = Target["restart_reconcile"] /\ job'[t].attempt = s.job.attempt
      <4>1. SaveTransition(s.task, s.job, "restart_reconcile", FALSE)
        BY <2>1 DEF Requeue
      <4>2. "restart_reconcile" \in Triggers
        BY DEF Triggers
      <4>9. Saved(s.task, s.job, "restart_reconcile")
        BY <3>1, <2>1, <3>1, <4>1, <4>2, <1>b, SaveRow
      <4> QED BY <3>1, <2>1, <3>1, <4>1, <4>2, <4>9 DEF Saved
    <3>3. recon'.todo = recon.todo \ {s}
      BY <2>1 DEF Requeue
    <3>4. Target["restart_reconcile"] # "running"
      BY TargetNotRunning DEF Triggers
    <3> QED BY <3>2, <3>3, <3>4 DEF RowMoves, Stops
  <2> QED
    BY <1>2, <2>1, <1>a DEF RowMoves, OnReady, OnReadyStep, Interrupt, RequeueDone, ScanDone, durable
<1>3. ASSUME NEW p \in Passes, PassStep(p), job'[t] # job[t] PROVE RowMoves(t)
  <2>0. HeldByPass
    BY DEF JobInv
  <2>1. ASSUME NEW s \in pass[p].todo, PassSkips(p, s) PROVE RowMoves(t)
    <3>1. s.task \in Tasks /\ s.job \in Job /\ s.job.state \in {"accepted", "queued"}
      BY HeldUnfinished, <2>0 DEF HeldByPass
    <3>2. PICK tr \in {"expire", "block", "capacity_wait"} : SaveTransition(s.task, s.job, tr, FALSE)
      BY <1>3, <2>1 DEF PassSkips
    <3>3. /\ job[t].state \in {"accepted", "queued"} /\ job'[t].attempt = job[t].attempt
          /\ job'[t].state = Target[tr]
      <4>1. tr \in Triggers /\ tr # "retry"
        BY DEF Triggers
      <4>9. Saved(s.task, s.job, tr)
        BY <3>1, <1>3, <3>1, <3>2, <4>1, <1>b, SaveRow
      <4> QED BY <3>1, <1>3, <3>1, <3>2, <4>1, <4>9 DEF Saved
    <3>4. Target[tr] # "running"
      BY TargetNotRunning DEF Triggers
    <3> QED BY <3>3, <3>4 DEF RowMoves
  <2>2. CASE PassStart(p)
    <3>1. /\ pass[p].cur.task \in Tasks /\ pass[p].cur.job \in Job /\ pass[p].pc = "start"
          /\ pass[p].cur.job.state \in {"accepted", "queued"}
      BY <2>2, HeldUnfinished, <2>0 DEF PassStart, HeldByPass
    <3>2. /\ t = pass[p].cur.task /\ job[t].state \in {"accepted", "queued"}
          /\ job[t].attempt = pass[p].cur.job.attempt /\ job'[t].attempt = job[t].attempt
      <4>1. SaveTransition(pass[p].cur.task, pass[p].cur.job, "start", FALSE)
        BY <2>2 DEF PassStart
      <4>2. "start" \in Triggers
        BY DEF Triggers
      <4>9. Saved(pass[p].cur.task, pass[p].cur.job, "start")
        BY <3>1, <1>3, <3>1, <4>1, <4>2, <1>b, SaveRow
      <4> QED BY <3>1, <1>3, <3>1, <4>1, <4>2, <4>9 DEF Saved
    <3>3. Starts(t)
      BY <3>1, <3>2 DEF Starts, OnAttempt
    <3> QED BY <3>2, <3>3 DEF RowMoves
  <2>3. CASE PassFail(p)
    <3>1. /\ pass[p].cur.task \in Tasks /\ pass[p].cur.job \in Job /\ pass[p].pc = "fail"
          /\ pass[p].cur.job.state = "running" /\ pass[p] \in PassType
      BY <2>3, HeldUnfinished, <2>0, <1>b DEF PassFail, HeldByPass
    <3>2. /\ t = pass[p].cur.task /\ job'[t].state = Target["fail"]
          /\ job[t].attempt = pass[p].cur.job.attempt /\ job'[t].attempt = job[t].attempt
      <4>1. SaveTransition(pass[p].cur.task, pass[p].cur.job, "fail", TRUE)
        BY <2>3 DEF PassFail
      <4>2. "fail" \in Triggers
        BY DEF Triggers
      <4>9. Saved(pass[p].cur.task, pass[p].cur.job, "fail")
        BY <3>1, <1>3, <3>1, <4>1, <4>2, <1>b, SaveRow
      <4> QED BY <3>1, <1>3, <3>1, <4>1, <4>2, <4>9 DEF Saved
    <3>3. pass'[p].pc \in {"retry", "next"}
      <4> DEFINE failed == Apply(pass[p].cur.job, "fail", TRUE)
      <4>1. Finished(p) \/ pass' = [pass EXCEPT ![p].pc = "retry", ![p].cur.job = failed]
        BY <2>3 DEF PassFail
      <4> HIDE DEF failed
      <4> QED BY <4>1, <1>b, <3>1, FinishedMoves DEF PassType
    <3>4. Target["fail"] # "running"
      BY TargetNotRunning DEF Triggers
    <3>5. Stops(t)
      BY <3>1, <3>2, <3>3 DEF Stops, OnAttempt
    <3> QED BY <3>2, <3>4, <3>5 DEF RowMoves
  <2>4. CASE PassRetry(p)
    <3>1. /\ pass[p].cur.task \in Tasks /\ pass[p].cur.job \in Job /\ pass[p].pc = "retry"
          /\ CanRetry(pass[p].cur.job)
      BY <2>4 DEF PassRetry, TypeInv, TypeOK, PassOK, RetryInHand, Snapshot
    <3>2. /\ t = pass[p].cur.task /\ job[t].state = "failed"
          /\ job[t].attempt = pass[p].cur.job.attempt
          /\ job'[t].state = Target["retry"] /\ job'[t].attempt = job[t].attempt + 1
      <4>1. SaveTransition(pass[p].cur.task, pass[p].cur.job, "retry", FALSE)
        BY <2>4 DEF PassRetry
      <4>2. "retry" \in Triggers
        BY DEF Triggers
      <4>3. pass[p].cur.job.state = "failed"
        BY <3>1 DEF CanRetry
      <4>9. Saved(pass[p].cur.task, pass[p].cur.job, "retry")
        BY <3>1, <1>3, <3>1, <4>1, <4>2, <4>3, <1>b, SaveRow
      <4> QED BY <3>1, <1>3, <3>1, <4>1, <4>2, <4>3, <4>9 DEF Saved
    <3>3. Retries(t)
      BY <3>1, <3>2 DEF Retries, OnAttempt
    <3>4. Target["retry"] # "running"
      BY TargetNotRunning DEF Triggers
    <3> QED BY <3>2, <3>3, <3>4 DEF RowMoves
  <2> QED
    BY <1>3, <2>1, <2>2, <2>3, <2>4, <1>a DEF PassStep, PassBegin, PassEnd, PassClaim, PassReclaim,
       PassSupersede, PassSpawn, PassSpawnFails, PassClose, durable
<1>4. ASSUME NEW w \in Turns, TurnStep(w), job'[t] # job[t] PROVE RowMoves(t)
  <2>1. CASE SaveFinal(w)
    <3> DEFINE tr == IF turn[w].outcome = "failed" THEN "fail" ELSE "complete"
    <3>1. turn[w].task \in Tasks /\ turn[w].seen \in Job /\ turn[w].pc # "idle"
      BY <2>1 DEF SaveFinal, TypeInv, TypeOK, TurnOK, TurnType
    <3>2. SaveTransition(turn[w].task, turn[w].seen, tr, FALSE)
      BY <1>4, <2>1 DEF SaveFinal
    <3>3. tr \in Triggers /\ tr \notin {"start", "retry"}
      BY DEF Triggers
    <3> HIDE DEF tr
    <3>4. /\ t = turn[w].task /\ job'[t].state = Target[tr] /\ job'[t].attempt = job[t].attempt
      <4>9. Saved(turn[w].task, turn[w].seen, tr)
        BY <3>1, <3>2, <3>3, <1>b, SaveRow
      <4> QED BY <1>4, <3>3, <4>9 DEF Saved
    <3>5. Target[tr] # "running"
      BY <3>3, TargetNotRunning
    <3> QED BY <3>1, <3>4, <3>5 DEF RowMoves, Stops
  <2> QED
    BY <1>4, <2>1, <1>a DEF TurnStep, TurnEnds, TurnStopped, Record, ReadJob, CloseAttempt, durable
<1>5. ASSUME NEW k \in Couriers, CourierStep(k) PROVE RowMoves(t)
  BY <1>5, <1>a DEF CourierStep, LoopTick, Fetch, CourierDone, Send, Mark, Refused, durable
<1>6. CASE Crash \/ Boot \/ UNCHANGED vars
  BY <1>6, <1>a DEF Crash, Boot, vars, durable
<1> QED
  BY <1>1, <1>2, <1>3, <1>4, <1>5, <1>6 DEF Next, RowMoves

-----------------------------------------------------------------------------
(* The invariant, one conjunct at a time.  The lemmas above say who may    *)
(* have moved what; none of these looks at an action again but for the     *)
(* reconciliation's own and the first of a process.                        *)

LEMMA AttemptTypes ==
  ASSUME TypeInv
  PROVE  /\ \A t \in Tasks : job[t] \in Job /\ job[t].attempt \in Nat /\ job[t].attempt \in 1..MaxAttempts
         /\ \A t \in Tasks, n \in 1..MaxAttempts : begun[t][n] \in Nat /\ attempts[t][n] \in AttemptStates
         /\ 1..MaxAttempts \subseteq Nat
  BY MaxAttemptsAssumption DEF TypeInv, TypeOK, LedgerOK, WorldOK, Job

\* A row's attempt never goes back.
LEMMA AttemptGrows ==
  ASSUME TypeInv, JobInv, [Next]_vars, NEW t \in Tasks
  PROVE  job'[t].attempt >= job[t].attempt
  BY WhoMoves, AttemptTypes DEF RowMoves

LEMMA FollowedStep ==
  ASSUME TypeInv, JobInv, AttemptInv, [Next]_vars
  PROVE  Followed'
<1> SUFFICES ASSUME NEW t \in Tasks, NEW n \in 1..MaxAttempts
    PROVE  /\ n > job'[t].attempt => attempts'[t][n] = "none"
           /\ n < job'[t].attempt => attempts'[t][n] \in ClosedStates
  BY DEF Followed
<1>a. job[t].attempt \in Nat /\ n \in Nat
  BY AttemptTypes
<1>b. /\ n > job[t].attempt => attempts[t][n] = "none"
      /\ n < job[t].attempt => attempts[t][n] \in ClosedStates
  BY DEF AttemptInv, Followed
<1>c. AttemptMoves(t, n)
  BY WhoAttempts DEF AttemptInv
<1>d. "none" \notin ClosedStates /\ "open" \notin ClosedStates /\ "interrupted" \notin ClosedStates
  BY DEF ClosedStates, Outcomes
<1>e. attempts[t][n] \in ClosedStates => attempts'[t][n] \in ClosedStates
  BY <1>c, <1>d DEF AttemptMoves
<1>1. CASE job'[t].attempt = job[t].attempt
  BY <1>1, <1>a, <1>b, <1>c, <1>e DEF AttemptMoves
<1>2. CASE job'[t].attempt = job[t].attempt + 1 /\ Retries(t)
  <2>1. n = job[t].attempt => attempts[t][n] \in ClosedStates
    BY <1>2 DEF Retries, OnAttempt, AttemptInv, GivenUpClosed
  <2>2. n > job[t].attempt => attempts'[t][n] = "none"
    BY <1>a, <1>b, <1>c DEF AttemptMoves
  <2> QED
    BY <1>2, <1>a, <1>b, <1>e, <2>1, <2>2
<1> QED
  BY <1>1, <1>2, WhoMoves DEF RowMoves

\* A taken attempt stays taken while somebody works on it or its job runs.
LEMMA TakenStays ==
  ASSUME TypeInv, AttemptInv, [Next]_vars, NEW t \in Tasks, NEW n \in 1..MaxAttempts,
         Taken(t, n), ~Unowned(t, n) \/ job[t].state = "running"
  PROVE  Taken(t, n)'
<1>1. AttemptMoves(t, n)
  BY WhoAttempts DEF AttemptInv
<1>2. ~(recon.pc = "interrupt" /\ recon.cur.task = t /\ recon.cur.job.attempt = n)
  BY DEF AttemptInv, ToInterrupt
<1> QED
  BY <1>1, <1>2 DEF AttemptMoves, Taken, ClosedStates, Outcomes

\* Who begins a turn owns the attempt, and the job is at it.
LEMMA BeginsOwned ==
  ASSUME TypeInv, AttemptInv, NEW p \in Passes, NEW t \in Tasks, NEW n \in 1..MaxAttempts,
         Begins(p, t, n)
  PROVE  /\ OwnsAttempt(p, t, n) /\ ~Owns(p)' /\ ~Unowned(t, n)
         /\ Taken(t, n) /\ begun[t][n] = 0 /\ job[t].attempt = n
<1>1. OwnsAttempt(p, t, n) /\ ~Owns(p)'
  BY DEF Begins, OwnsAttempt, Owns, Free
<1>2. job[t] = pass[p].cur.job
  BY DEF Begins, OnAttempt, AttemptInv, StartedStands
<1> QED
  BY <1>1, <1>2 DEF AttemptInv, OwnedOnce, OwnsAttempt, OnAttempt, Unowned

\* A row moves to another attempt only from an attempt that a pass gave up: it is
\* closed and began no turn.
LEMMA RetriesOwned ==
  ASSUME TypeInv, AttemptInv, NEW t \in Tasks, Retries(t)
  PROVE  /\ \E p \in Passes : OwnsAttempt(p, t, job[t].attempt) /\ pass[p].pc = "retry"
         /\ begun[t][job[t].attempt] = 0
  BY DEF Retries, AttemptInv, OwnedOnce, OwnsAttempt, OnAttempt, Owns

LEMMA OwnedOnceStep ==
  ASSUME TypeInv, AttemptInv, [Next]_vars, ~Crash
  PROVE  OwnedOnce'
<1>0. ASSUME NEW p \in Passes, Owns(p)'
      PROVE  pass'[p].cur.task \in Tasks /\ pass'[p].cur.job.attempt \in 1..MaxAttempts
  BY <1>0, TypeNext DEF TypeInv, TypeOK, PassOK, Owns, Snapshot, Job
<1> SUFFICES ASSUME NEW p \in Passes, NEW t \in Tasks, NEW n \in 1..MaxAttempts,
                    Owns(p)', pass'[p].cur.task = t, pass'[p].cur.job.attempt = n
    PROVE  Taken(t, n)' /\ begun'[t][n] = 0
  BY <1>0 DEF OwnedOnce, Taken
<1>b. ASSUME begun[t][n] = 0, \A q \in Passes : ~Begins(q, t, n) PROVE begun'[t][n] = 0
  BY <1>b, WhoBegins
<1>1. CASE Owns(p) /\ SameAttempt(p)
  <2>1. OwnsAttempt(p, t, n)
    BY <1>1 DEF OwnsAttempt, OnAttempt, SameAttempt
  <2>2. Taken(t, n) /\ begun[t][n] = 0
    BY <2>1 DEF AttemptInv, OwnedOnce, OwnsAttempt, OnAttempt
  <2>3. Taken(t, n)'
    BY <2>1, <2>2, TakenStays DEF Unowned
  <2>4. ASSUME NEW q \in Passes, Begins(q, t, n) PROVE FALSE
    <3>1. OwnsAttempt(q, t, n) /\ ~Owns(q)'
      BY <2>4, BeginsOwned
    <3>2. q # p
      BY <3>1
    <3> QED BY <2>1, <3>1, <3>2 DEF AttemptInv, OwnersApart, OwnsAttempt, OnAttempt
  <2> QED
    BY <1>b, <2>2, <2>3, <2>4 DEF Taken
<1>2. CASE Opens(p)
  <2>1. attempts[t][n] \in {"none", "interrupted"} /\ attempts'[t][n] = "open"
    BY <1>2 DEF Opens
  <2>2. ~Taken(t, n)
    BY <2>1 DEF Taken
  <2>3. begun[t][n] = 0
    BY <2>2, AttemptTypes DEF AttemptInv, BegunOnce
  <2>4. ASSUME NEW q \in Passes, Begins(q, t, n) PROVE FALSE
    BY <2>2, <2>4, BeginsOwned
  <2> QED
    BY <1>b, <2>1, <2>3, <2>4 DEF Taken
<1> QED
  BY <1>1, <1>2, WhoOwns

LEMMA OwnersApartStep ==
  ASSUME TypeInv, AttemptInv, [Next]_vars
  PROVE  OwnersApart'
<1> SUFFICES ASSUME NEW p \in Passes, NEW q \in Passes, p # q, Owns(p)', Owns(q)',
                    pass'[p].cur.task = pass'[q].cur.task,
                    pass'[p].cur.job.attempt = pass'[q].cur.job.attempt
    PROVE  FALSE
  BY DEF OwnersApart, OnAttempt
<1>1. ASSUME NEW v \in Passes, NEW w \in Passes, v # w, Opens(v), Owns(w)',
             pass'[v].cur.task = pass'[w].cur.task,
             pass'[v].cur.job.attempt = pass'[w].cur.job.attempt
      PROVE  FALSE
  <2>1. pass'[w] = pass[w]
    BY <1>1 DEF Opens
  <2>2. Owns(w)
    BY <1>1, <2>1 DEF Owns
  <2>3. Taken(pass[w].cur.task, pass[w].cur.job.attempt)
    BY <2>2 DEF AttemptInv, OwnedOnce
  <2> QED BY <1>1, <2>1, <2>3 DEF Opens, Taken
<1>2. CASE Owns(p) /\ SameAttempt(p) /\ Owns(q) /\ SameAttempt(q)
  BY <1>2 DEF SameAttempt, AttemptInv, OwnersApart, OnAttempt
<1> QED
  BY <1>1, <1>2, WhoOwns

LEMMA GivenUpStep ==
  ASSUME TypeInv, AttemptInv, [Next]_vars
  PROVE  GivenUpClosed'
<1> SUFFICES ASSUME NEW p \in Passes, pass'[p].pc \in {"fail", "retry"}
    PROVE  attempts'[pass'[p].cur.task][pass'[p].cur.job.attempt] \in ClosedStates
  BY DEF GivenUpClosed
<1>d. "none" \notin ClosedStates /\ "open" \notin ClosedStates /\ "interrupted" \notin ClosedStates
  BY DEF ClosedStates, Outcomes
<1>e. ASSUME NEW t \in Tasks, NEW n \in 1..MaxAttempts, attempts[t][n] \in ClosedStates
      PROVE  attempts'[t][n] \in ClosedStates
  <2>1. AttemptMoves(t, n)
    BY WhoAttempts DEF AttemptInv
  <2> QED BY <1>d, <1>e, <2>1 DEF AttemptMoves
<1>1. CASE pass[p].pc \in {"fail", "retry"} /\ SameAttempt(p)
  <2>1. /\ pass[p].cur.task \in Tasks /\ pass[p].cur.job.attempt \in 1..MaxAttempts
        /\ attempts[pass[p].cur.task][pass[p].cur.job.attempt] \in ClosedStates
    BY <1>1, OwnedTypes DEF Owns, AttemptInv, GivenUpClosed
  <2> QED BY <1>1, <1>e, <2>1 DEF SameAttempt
<1>2. CASE /\ pass[p].pc = "close" /\ SameAttempt(p)
           /\ FinishAttempt(pass[p].cur.task, pass[p].cur.job.attempt, "failed")
  <2> DEFINE t == pass[p].cur.task
             n == pass[p].cur.job.attempt
  <2>1. t \in Tasks /\ n \in 1..MaxAttempts
    BY <1>2, OwnedTypes DEF Owns
  <2>2. Taken(t, n)
    BY <1>2 DEF Owns, AttemptInv, OwnedOnce
  <2>3. attempts \in [Tasks -> [1..MaxAttempts -> AttemptStates]]
    BY DEF TypeInv, TypeOK, LedgerOK
  <2>4. attempts[t][n] = "open" \/ attempts[t][n] \in ClosedStates
    BY <2>1, <2>2, <2>3 DEF Taken, AttemptStates, ClosedStates
  <2>5. attempts'[t][n] \in ClosedStates
    BY <1>2, <1>e, <2>1, <2>3, <2>4 DEF FinishAttempt, ClosedStates, Outcomes
  <2> QED BY <1>2, <2>5 DEF SameAttempt
<1>3. CASE pass'[p] = pass[p]
  BY <1>1, <1>3 DEF SameAttempt
<1>4. CASE PassStep(p)
  BY <1>1, <1>2, <1>4, PassActs DEF LetsGo, TakesRow, MovesOn, Free, SameAttempt
<1> QED
  BY <1>3, <1>4, PassChange DEF Free

LEMMA ReachedStep ==
  ASSUME TypeInv, JobInv, AttemptInv, [Next]_vars
  PROVE  Reached'
<1> SUFFICES ASSUME NEW p \in Passes
    PROVE  /\ \A s \in pass'[p].todo : s.job.attempt <= job'[s.task].attempt
           /\ ~Free(p)' => pass'[p].cur.job.attempt <= job'[pass'[p].cur.task].attempt
  BY DEF Reached
<1>a. TypeInv'
  BY TypeNext
<1>b. ASSUME NEW t \in Tasks, NEW n \in Nat, n <= job[t].attempt PROVE n <= job'[t].attempt
  <2>1. job[t].attempt \in Nat /\ job'[t].attempt \in Nat
    BY <1>a, MaxAttemptsAssumption DEF TypeInv, TypeOK, LedgerOK, Job
  <2>2. job'[t].attempt >= job[t].attempt
    BY AttemptGrows
  <2> QED BY <1>b, <2>1, <2>2
<1>c. /\ \A s \in pass[p].todo : s.task \in Tasks /\ s.job.attempt \in Nat
      /\ ~Free(p) => pass[p].cur.task \in Tasks /\ pass[p].cur.job.attempt \in Nat
  BY OwnedTypes, MaxAttemptsAssumption
<1>d. /\ \A s \in pass[p].todo : s.job.attempt <= job'[s.task].attempt
      /\ ~Free(p) => pass[p].cur.job.attempt <= job'[pass[p].cur.task].attempt
  BY <1>b, <1>c DEF AttemptInv, Reached
<1>1. CASE pass'[p] = pass[p]
  BY <1>1, <1>d DEF Free
<1>2. CASE Free(p)' /\ pass'[p].todo \subseteq pass[p].todo
  BY <1>2, <1>d
<1>3. CASE LetsGo(p)
  <2>1. ASSUME UNCHANGED job, NEW s \in pass'[p].todo, s.task \in Tasks, s.job = job[s.task]
        PROVE  s.job.attempt <= job'[s.task].attempt
    <3>1. s.job.attempt = job'[s.task].attempt /\ s.job.attempt \in Nat
      BY <2>1, AttemptTypes
    <3> QED BY <3>1
  <2> QED BY <1>2, <1>3, <2>1 DEF LetsGo
<1>4. CASE TakesRow(p)
  BY <1>4, <1>d DEF TakesRow
<1>5. CASE MovesOn(p)
  BY <1>5, <1>d DEF MovesOn
<1> QED
  BY <1>1, <1>2, <1>3, <1>4, <1>5, PassActs, PassChange

LEMMA RunningTakenStep ==
  ASSUME TypeInv, JobInv, AttemptInv, [Next]_vars
  PROVE  RunningTaken'
<1> SUFFICES ASSUME NEW t \in Tasks, job'[t].state = "running"
    PROVE  Taken(t, job[t].attempt)'
  BY DEF RunningTaken
<1>1. job[t].attempt \in 1..MaxAttempts
  BY AttemptTypes
<1>2. job'[t].attempt = job[t].attempt /\ (job[t].state = "running" \/ Starts(t))
  BY WhoMoves DEF RowMoves
<1>3. Starts(t) => Taken(t, job[t].attempt) /\ ~Unowned(t, job[t].attempt)
  BY DEF Starts, AttemptInv, OwnedOnce, Owns, OnAttempt, Unowned, OwnsAttempt
<1>4. job[t].state = "running" => Taken(t, job[t].attempt)
  BY DEF AttemptInv, RunningTaken
<1>5. attempts'[t][job[t].attempt] \notin {"none", "interrupted"}
  <2> DEFINE n == job[t].attempt
  <2> HIDE DEF n
  <2>1. Taken(t, n)'
    BY <1>1, <1>2, <1>3, <1>4, TakenStays DEF n
  <2>2. attempts'[t][n] \notin {"none", "interrupted"}
    <3>1. n = job'[t].attempt
      BY <1>2 DEF n
    <3> QED BY <2>1, <3>1 DEF Taken, n
  <2> QED BY <2>2 DEF n
<1> QED
  BY <1>2, <1>5 DEF Taken

\* A running row nobody began a turn for moves only under its requeue or the pass
\* that fails it.
LEMMA RowStays ==
  ASSUME TypeInv, JobInv, AttemptInv, [Next]_vars, NEW t \in Tasks,
         job[t].state = "running", begun[t][job[t].attempt] = 0,
         \A s \in recon.todo : s.task = t => recon'.todo # recon.todo \ {s},
         \A q \in Passes : pass[q].pc = "fail" /\ OnAttempt(q, t, job[t].attempt)
                             => pass'[q].pc \in {"spawn", "close", "fail"}
  PROVE  job'[t] = job[t]
<1>1. job'[t] = job[t] \/ Stops(t)
  BY WhoMoves DEF RowMoves
<1>2. ~\E w \in Turns : turn[w].pc # "idle" /\ turn[w].task = t
  <2> SUFFICES ASSUME NEW w \in Turns, turn[w].pc # "idle", turn[w].task = t PROVE FALSE
    OBVIOUS
  <2>1. begun[t][job[t].attempt] > 0
    BY DEF AttemptInv, OneTurn
  <2> QED BY <2>1
<1> QED
  BY <1>1, <1>2 DEF Stops

LEMMA StartedStep ==
  ASSUME TypeInv, JobInv, AttemptInv, [Next]_vars
  PROVE  StartedStands'
<1> SUFFICES ASSUME NEW p \in Passes, pass'[p].pc \in {"spawn", "close", "fail"}
    PROVE  job'[pass'[p].cur.task] = pass'[p].cur.job
  BY DEF StartedStands
<1>1. CASE pass[p].pc \in {"spawn", "close", "fail"} /\ pass'[p].cur = pass[p].cur
  <2> DEFINE t == pass[p].cur.task
  <2>1. /\ t \in Tasks /\ Owns(p) /\ job[t] = pass[p].cur.job
        /\ job[t].state = "running"
    BY <1>1, OwnedTypes DEF Owns, AttemptInv, StartedStands, JobInv, HeldByPass
  <2>2. OwnsAttempt(p, t, job[t].attempt) /\ begun[t][job[t].attempt] = 0
    BY <2>1 DEF OwnsAttempt, OnAttempt, AttemptInv, OwnedOnce
  <2>3. ASSUME NEW s \in recon.todo, s.task = t PROVE FALSE
    BY <2>2, <2>3 DEF AttemptInv, ToRequeue, Unowned
  <2>4. ASSUME NEW q \in Passes, pass[q].pc = "fail", OnAttempt(q, t, job[t].attempt) PROVE q = p
    <3>1. OwnsAttempt(q, t, job[t].attempt)
      BY <2>4 DEF OwnsAttempt, Owns
    <3> QED
      BY <2>2, <3>1 DEF AttemptInv, OwnersApart, OwnsAttempt, OnAttempt
  <2>5. job'[t] = job[t]
    <3> HIDE DEF t
    <3> QED BY <2>1, <2>2, <2>3, <2>4, RowStays
  <2> QED BY <1>1, <2>1, <2>5
<1>2. CASE pass'[p] = pass[p]
  BY <1>1, <1>2
<1>3. CASE PassStep(p)
  BY <1>1, <1>3, PassActs DEF LetsGo, TakesRow, MovesOn, Free
<1> QED
  BY <1>2, <1>3, PassChange DEF Free

LEMMA BegunOnceStep ==
  ASSUME TypeInv, JobInv, AttemptInv, [Next]_vars, ~Crash
  PROVE  BegunOnce'
<1> SUFFICES ASSUME NEW t \in Tasks, NEW n \in 1..MaxAttempts, begun'[t][n] > 0
    PROVE  begun'[t][n] = 1 /\ n = job'[t].attempt /\ Taken(t, n)'
  BY DEF BegunOnce
<1>a. begun[t][n] \in Nat
  BY AttemptTypes
<1>1. CASE begun[t][n] > 0
  <2>1. /\ begun[t][n] = 1 /\ n = job[t].attempt /\ Taken(t, n) /\ ~Unowned(t, n)
    BY <1>1, <1>a DEF AttemptInv, BegunOnce, Unowned
  <2>2. begun'[t][n] = begun[t][n]
    <3>1. ASSUME NEW p \in Passes, Begins(p, t, n) PROVE FALSE
      BY <2>1, <3>1, BeginsOwned
    <3> QED BY <3>1, WhoBegins
  <2>3. ~Retries(t)
    BY <2>1, RetriesOwned
  <2>4. job'[t].attempt = job[t].attempt
    BY <2>3, WhoMoves DEF RowMoves
  <2> QED BY <2>1, <2>2, <2>4, TakenStays
<1>2. CASE begun[t][n] = 0
  <2>1. PICK p \in Passes : Begins(p, t, n) /\ begun'[t][n] = begun[t][n] + 1
    BY <1>2, WhoBegins
  <2>2. /\ OwnsAttempt(p, t, n) /\ ~Unowned(t, n) /\ Taken(t, n) /\ job[t].attempt = n
    BY <2>1, BeginsOwned
  <2>3. ASSUME Retries(t) PROVE FALSE
    <3>1. PICK q \in Passes : OwnsAttempt(q, t, n) /\ pass[q].pc = "retry"
      BY <2>2, <2>3, RetriesOwned
    <3>2. q # p
      BY <2>1, <3>1 DEF Begins
    <3> QED BY <2>2, <3>1, <3>2 DEF AttemptInv, OwnersApart, OwnsAttempt, OnAttempt
  <2>4. job'[t].attempt = job[t].attempt
    BY <2>3, WhoMoves DEF RowMoves
  <2> QED BY <1>2, <2>1, <2>2, <2>4, TakenStays
<1> QED
  BY <1>1, <1>2, <1>a

LEMMA OneTurnStep ==
  ASSUME TypeInv, JobInv, AttemptInv, [Next]_vars, ~Crash
  PROVE  OneTurn'
<1>a. \A w \in Turns : turn[w].pc # "idle" => turn[w].task \in Tasks
  BY DEF TypeInv, TypeOK, TurnOK
<1>b. begun \in [Tasks -> [1..MaxAttempts -> Nat]]
  BY DEF TypeInv, TypeOK, WorldOK
\* The attempt of a live turn stays the job's, and begun.
<1>c. ASSUME NEW t \in Tasks, begun'[t][job[t].attempt] > 0
      PROVE  begun'[t][job'[t].attempt] > 0
  <2>1. job[t].attempt \in 1..MaxAttempts
    BY AttemptTypes
  <2>2. job[t].attempt = job'[t].attempt
    BY <1>c, <2>1, BegunOnceStep DEF BegunOnce
  <2> QED BY <1>c, <2>2
<1>d. ASSUME NEW t \in Tasks, begun[t][job[t].attempt] > 0
      PROVE  begun'[t][job'[t].attempt] > 0
  <2>1. job[t].attempt \in 1..MaxAttempts /\ begun[t][job[t].attempt] \in Nat
    BY AttemptTypes
  <2>2. begun'[t][job[t].attempt] > 0
    BY <1>d, <2>1, WhoBegins
  <2> QED BY <1>c, <2>2
<1>e. ASSUME NEW p \in Passes, pass[p].pc = "spawn"
      PROVE  /\ pass[p].cur.task \in Tasks /\ pass[p].cur.job.attempt \in 1..MaxAttempts
             /\ pass[p].cur.job.attempt = job[pass[p].cur.task].attempt
             /\ begun[pass[p].cur.task][pass[p].cur.job.attempt] = 0
  BY <1>e, OwnedTypes DEF Owns, AttemptInv, OwnedOnce, StartedStands
<1>1. ASSUME NEW w \in Turns, turn'[w].pc # "idle"
      PROVE  begun'[turn'[w].task][job'[turn'[w].task].attempt] > 0
  <2>1. CASE turn[w].pc # "idle" /\ turn'[w].task = turn[w].task
    BY <2>1, <1>a, <1>d DEF AttemptInv, OneTurn
  <2>2. ASSUME NEW p \in Passes, BeginsTurn(p, w)
        PROVE  begun'[turn'[w].task][job'[turn'[w].task].attempt] > 0
    <3> DEFINE t == pass[p].cur.task
    <3>1. t \in Tasks /\ job[t].attempt \in 1..MaxAttempts /\ turn'[w].task = t
          /\ begun' = [begun EXCEPT ![t][job[t].attempt] = @ + 1] /\ begun[t][job[t].attempt] = 0
      BY <2>2, <1>e DEF BeginsTurn
    <3>2. begun'[t][job[t].attempt] > 0
      <4> DEFINE n == job[t].attempt
      <4> HIDE DEF t, n
      <4>1. /\ t \in Tasks /\ n \in 1..MaxAttempts /\ begun[t][n] = 0
            /\ begun' = [begun EXCEPT ![t][n] = @ + 1]
        BY <3>1 DEF n
      <4>2. begun'[t][n] = begun[t][n] + 1
        BY <4>1, <1>b
      <4> QED BY <4>1, <4>2 DEF n
    <3> QED BY <3>1, <3>2, <1>c
  <2> QED BY <1>1, <2>1, <2>2, WhoRuns
<1>2. ASSUME NEW v \in Turns, NEW w \in Turns, v # w, turn'[v].pc # "idle", turn'[w].pc # "idle",
             NEW p \in Passes, BeginsTurn(p, w)
      PROVE  turn'[v].task # turn'[w].task
  <2>1. turn'[v] = turn[v] /\ turn'[w].task = pass[p].cur.task /\ pass[p].pc = "spawn"
    BY <1>2 DEF BeginsTurn
  <2>2. begun[turn[v].task][job[turn[v].task].attempt] > 0
    BY <1>2, <2>1 DEF AttemptInv, OneTurn
  <2>3. begun[pass[p].cur.task][job[pass[p].cur.task].attempt] = 0
    BY <1>e, <2>1
  <2> QED BY <2>1, <2>2, <2>3
<1>3. ASSUME NEW v \in Turns, NEW w \in Turns, v # w, turn'[v].pc # "idle", turn'[w].pc # "idle"
      PROVE  turn'[v].task # turn'[w].task
  <2>1. CASE /\ turn[v].pc # "idle" /\ turn'[v].task = turn[v].task
             /\ turn[w].pc # "idle" /\ turn'[w].task = turn[w].task
    BY <1>3, <2>1 DEF AttemptInv, OneTurn
  <2> QED BY <1>2, <1>3, <2>1, WhoRuns
<1> QED
  BY <1>1, <1>3 DEF OneTurn

\* A taken attempt nobody works on stays so: nobody can claim it.
LEMMA UnownedStays ==
  ASSUME TypeInv, AttemptInv, [Next]_vars, ~Crash, NEW t \in Tasks, NEW n \in 1..MaxAttempts,
         Unowned(t, n), Taken(t, n)
  PROVE  Unowned(t, n)'
<1>1. begun'[t][n] = 0
  <2>1. ASSUME NEW p \in Passes, Begins(p, t, n) PROVE FALSE
    BY <2>1, BeginsOwned
  <2> QED BY <2>1, WhoBegins DEF Unowned
<1>2. ASSUME NEW p \in Passes, Owns(p)', pass'[p].cur.task = t, pass'[p].cur.job.attempt = n
      PROVE  FALSE
  BY <1>2, WhoOwns DEF Unowned, Taken, Opens, SameAttempt, OwnsAttempt, OnAttempt
<1> QED
  BY <1>1, <1>2 DEF Unowned, OwnsAttempt, OnAttempt

\* What the reconciliation holds: what the first on_ready read, and then less.
FirstReady == OnReady /\ ~reconciled
LEMMA WhoReads ==
  ASSUME TypeInv, [Next]_vars, ~FirstReady
  PROVE  /\ recon'.todo \subseteq recon.todo
         /\ recon'.pc = "interrupt" =>
                \/ recon'.cur = recon.cur /\ recon.pc = "interrupt"
                \/ \E s \in recon.todo : Requeue(s) /\ Unmoved(s.task, s.job)
<1> DEFINE Goal == /\ recon'.todo \subseteq recon.todo
                   /\ recon'.pc = "interrupt" =>
                        \/ recon'.cur = recon.cur /\ recon.pc = "interrupt"
                        \/ \E s \in recon.todo : Requeue(s) /\ Unmoved(s.task, s.job)
<1>a. recon \in ReconType
  BY DEF TypeInv, TypeOK, ReconOK
<1>b. UNCHANGED recon => Goal
  OBVIOUS
<1>1. CASE OnReady
  <2>1. recon' = [recon EXCEPT !.pc = "scan"]
    BY <1>1 DEF OnReady, FirstReady
  <2> QED BY <2>1, <1>a DEF ReconType
<1>2. ASSUME NEW s \in recon.todo, Requeue(s) PROVE Goal
  BY <1>2 DEF Requeue
<1>3. Interrupt \/ RequeueDone => Goal
  BY <1>a DEF Interrupt, RequeueDone, ReconType
<1>4. ScanDone \/ Crash => Goal
  BY DEF ScanDone, Crash, IdleRecon
<1>5. ASSUME NEW t \in Tasks, TaskStep(t) PROVE UNCHANGED recon
  BY <1>5 DEF TaskStep, Receive, LegacyReceive, Discover, Exhaust, Expire, volatile
<1>6. ASSUME NEW p \in Passes, PassStep(p) PROVE UNCHANGED recon
  BY <1>6 DEF PassStep, PassBegin, PassEnd, PassSkips, PassClaim, PassReclaim, PassStart,
     PassSupersede, PassSpawn, PassSpawnFails, PassClose, PassFail, PassRetry
<1>7. ASSUME NEW w \in Turns, TurnStep(w) PROVE UNCHANGED recon
  BY <1>7 DEF TurnStep, TurnEnds, TurnStopped, Record, ReadJob, CloseAttempt, SaveFinal
<1>8. ASSUME NEW k \in Couriers, CourierStep(k) PROVE UNCHANGED recon
  BY <1>8 DEF CourierStep, LoopTick, Fetch, CourierDone, Send, Mark, Refused
<1>9. Boot \/ UNCHANGED vars => UNCHANGED recon
  BY DEF Boot, vars, volatile
<1> QED
  BY <1>1, <1>2, <1>3, <1>4, <1>5, <1>6, <1>7, <1>8, <1>9, <1>b DEF Next, OnReadyStep

\* What is to be requeued names running rows of tasks, by their attempts.
LEMMA TodoTypes ==
  ASSUME TypeInv, JobInv, AttemptInv, NEW s \in recon.todo
  PROVE  /\ s.task \in Tasks /\ s.job.attempt \in 1..MaxAttempts /\ s.job.state = "running"
         /\ job[s.task] = s.job /\ Unowned(s.task, s.job.attempt) /\ Taken(s.task, s.job.attempt)
<1>1. /\ s.task \in Tasks /\ s.job.attempt \in 1..MaxAttempts /\ s.job.state = "running"
  BY DEF TypeInv, TypeOK, ReconOK, ReconType, Snapshot, Job, JobInv, HeldRunning
<1> QED
  BY <1>1 DEF AttemptInv, ToRequeue, RunningTaken

LEMMA FirstReadyStep ==
  ASSUME TypeInv, AttemptInv, FirstReady
  PROVE  ToRequeue' /\ ToInterrupt'
<1>1. /\ recon'.todo = {Snap(t) : t \in {u \in Tasks : job[u].state = "running"}}
      /\ recon'.pc = "requeue" /\ UNCHANGED <<job, pass, begun>>
  BY DEF FirstReady, OnReady, IdleRecon, durable
<1>2. /\ \A p \in Passes : ~Owns(p)
      /\ \A t \in Tasks, n \in 1..MaxAttempts : begun[t][n] = 0
  BY DEF FirstReady, AttemptInv, Fresh, Owns
<1>3. \A s \in recon'.todo : s.task \in Tasks /\ s = Snap(s.task) /\ s.job = job[s.task]
  BY <1>1 DEF Snap
<1>4. \A s \in recon'.todo : Unowned(s.task, s.job.attempt)'
  BY <1>1, <1>2, <1>3, AttemptTypes DEF Unowned, OwnsAttempt, Owns
<1> QED
  BY <1>1, <1>3, <1>4 DEF ToRequeue, ToInterrupt

LEMMA ToRequeueStep ==
  ASSUME TypeInv, JobInv, AttemptInv, [Next]_vars, ~Crash, ~FirstReady
  PROVE  ToRequeue'
<1>1. recon'.todo \subseteq recon.todo
  BY WhoReads
<1>2. ASSUME NEW s \in recon'.todo PROVE job'[s.task] = s.job /\ Unowned(s.task, s.job.attempt)'
  <2>1. s \in recon.todo
    BY <1>1
  <2>2. /\ s.task \in Tasks /\ s.job.attempt \in 1..MaxAttempts /\ s.job.state = "running"
        /\ job[s.task] = s.job /\ Unowned(s.task, s.job.attempt) /\ Taken(s.task, s.job.attempt)
    BY <2>1, TodoTypes
  <2>3. Unowned(s.task, s.job.attempt)'
    BY <2>2, UnownedStays
  <2>4. ASSUME NEW r \in recon.todo, r.task = s.task PROVE recon'.todo # recon.todo \ {r}
    <3>1. r = s
      BY <2>1, <2>4 DEF AttemptInv, ToRequeue
    <3> QED BY <3>1
  <2>5. ASSUME NEW q \in Passes, pass[q].pc = "fail", OnAttempt(q, s.task, job[s.task].attempt)
        PROVE  FALSE
    BY <2>2, <2>5 DEF Unowned, OwnsAttempt, Owns
  <2>6. begun[s.task][job[s.task].attempt] = 0
    BY <2>2 DEF Unowned
  <2>7. job'[s.task] = job[s.task]
    BY <2>2, <2>4, <2>5, <2>6, RowStays
  <2> QED BY <2>2, <2>3, <2>7
<1> QED
  BY <1>1, <1>2 DEF AttemptInv, ToRequeue

LEMMA ToInterruptStep ==
  ASSUME TypeInv, JobInv, AttemptInv, [Next]_vars, ~Crash, ~FirstReady
  PROVE  ToInterrupt'
<1> SUFFICES ASSUME recon'.pc = "interrupt" PROVE ToInterrupt'
  BY DEF ToInterrupt
<1>0. recon'.todo \subseteq recon.todo
  BY WhoReads
<1>1. ASSUME recon'.cur = recon.cur, recon.pc = "interrupt" PROVE ToInterrupt'
  <2> DEFINE t == recon.cur.task
             n == recon.cur.job.attempt
  <2>1. /\ job[t].attempt = n /\ job[t].state # "running" /\ Taken(t, n) /\ Unowned(t, n)
        /\ \A s \in recon.todo : s.task # t
    BY <1>1 DEF AttemptInv, ToInterrupt
  <2>2. t \in Tasks /\ n \in 1..MaxAttempts
    BY <1>1 DEF TypeInv, TypeOK, ReconOK, Snapshot, Job
  <2>3. ~Starts(t) /\ ~Retries(t)
    BY <2>1 DEF Starts, Retries, Unowned, OwnsAttempt, Owns
  <2>4. job'[t].attempt = n /\ job'[t].state # "running"
    BY <2>1, <2>2, <2>3, WhoMoves DEF RowMoves
  <2>5. attempts'[t][n] \notin {"none", "interrupted"}
    <3>1. AttemptMoves(t, n)
      BY <2>2, WhoAttempts DEF AttemptInv
    <3> QED BY <2>1, <3>1 DEF AttemptMoves, Taken, ClosedStates, Outcomes
  <2>6. begun'[t][n] = 0 /\ \A p \in Passes : Owns(p)' => pass'[p].cur.task # t \/ pass'[p].cur.job.attempt # n
    <3>1. \A u \in Tasks, m \in 1..MaxAttempts : Unowned(u, m) /\ Taken(u, m) => Unowned(u, m)'
      BY UnownedStays
    <3>2. \A u \in Tasks, m \in 1..MaxAttempts : Unowned(u, m)' =>
            begun'[u][m] = 0 /\ \A p \in Passes : Owns(p)' => pass'[p].cur.task # u \/ pass'[p].cur.job.attempt # m
      BY DEF Unowned, OwnsAttempt, OnAttempt
    <3> QED BY <2>1, <2>2, <3>1, <3>2
  <2> QED
    BY <1>0, <1>1, <2>1, <2>4, <2>5, <2>6 DEF ToInterrupt, Taken, Unowned, OwnsAttempt, OnAttempt
<1>2. ASSUME NEW s \in recon.todo, Requeue(s), Unmoved(s.task, s.job) PROVE ToInterrupt'
  <2>1. /\ s.task \in Tasks /\ s.job.attempt \in 1..MaxAttempts
        /\ job[s.task] = s.job /\ Unowned(s.task, s.job.attempt) /\ Taken(s.task, s.job.attempt)
    BY TodoTypes
  <2>2. /\ job' = [job EXCEPT ![s.task] = Apply(s.job, "restart_reconcile", FALSE)]
        /\ recon'.cur = s /\ recon'.todo = recon.todo \ {s} /\ UNCHANGED <<attempts, begun, pass>>
    BY <1>2 DEF Requeue, SaveTransition
  <2>3. /\ Apply(s.job, "restart_reconcile", FALSE).attempt = s.job.attempt
        /\ Apply(s.job, "restart_reconcile", FALSE).state # "running"
    BY DEF Apply, Target, Triggers
  <2>4. job'[s.task] = Apply(s.job, "restart_reconcile", FALSE)
    BY <2>1, <2>2 DEF TypeInv, TypeOK, LedgerOK
  <2>5. \A r \in recon'.todo : r.task # s.task
    BY <2>2 DEF AttemptInv, ToRequeue
  <2> QED
    BY <2>1, <2>2, <2>3, <2>4, <2>5
       DEF ToInterrupt, Taken, Unowned, OwnsAttempt, OnAttempt, Owns
<1> QED
  BY <1>1, <1>2, WhoReads

LEMMA FreshStep ==
  ASSUME "early" \notin Faults, TypeInv, AttemptInv, [Next]_vars, ~Crash
  PROVE  Fresh'
<1> SUFFICES ASSUME ~reconciled' PROVE Fresh'
  BY DEF Fresh
<1> DEFINE Still == UNCHANGED <<recon, due, pass, turn, begun, reconciled>>
<1>a. ASSUME ~reconciled
      PROVE  /\ recon.pc = "idle" /\ due = 0 /\ \A p \in Passes : pass[p].pc = "idle"
             /\ \A w \in Turns : turn[w].pc = "idle"
  BY <1>a DEF AttemptInv, Fresh
<1>b. Still /\ ~reconciled => Fresh'
  BY DEF AttemptInv, Fresh
<1>1. ASSUME NEW t \in Tasks, TaskStep(t) PROVE Fresh'
  <2>1. UNCHANGED reconciled
    BY <1>1 DEF TaskStep, Receive, LegacyReceive, Discover, Exhaust, Expire, volatile
  <2>2. Exhaust(t) \/ Expire(t)
    BY <1>1, <1>a, <2>1 DEF TaskStep, Receive, LegacyReceive, Discover, Listening
  <2> QED
    BY <1>b, <2>1, <2>2 DEF Exhaust, Expire, volatile
<1>2. ~OnReady
  BY DEF OnReady
<1>3. ~OnReadyStep
  <2>1. OnReadyStep => UNCHANGED reconciled
    BY DEF OnReadyStep, Requeue, Interrupt, RequeueDone, ScanDone
  <2>2. OnReadyStep => recon.pc # "idle"
    BY DEF OnReadyStep, Requeue, Interrupt, RequeueDone, ScanDone
  <2>3. OnReadyStep => recon.pc = "idle"
    BY <1>a, <2>1
  <2> QED BY <2>2, <2>3
<1>4. ASSUME NEW p \in Passes, PassStep(p) PROVE FALSE
  <2>1. UNCHANGED reconciled
    BY <1>4 DEF PassStep, PassBegin, PassEnd, PassSkips, PassClaim, PassReclaim, PassStart,
       PassSupersede, PassSpawn, PassSpawnFails, PassClose, PassFail, PassRetry
  <2>2. pass[p].pc = "idle" /\ ~(due > 0)
    BY <1>a, <2>1
  <2> QED
    BY <1>4, <2>2 DEF PassStep, PassBegin, PassEnd, PassSkips, PassClaim, PassReclaim, PassStart,
       PassSupersede, PassSpawn, PassSpawnFails, PassClose, PassFail, PassRetry, Takes
<1>5. ASSUME NEW w \in Turns, TurnStep(w) PROVE FALSE
  <2>1. UNCHANGED reconciled
    BY <1>5 DEF TurnStep, TurnEnds, TurnStopped, Record, ReadJob, CloseAttempt, SaveFinal
  <2> QED
    BY <1>5, <1>a, <2>1 DEF TurnStep, TurnEnds, TurnStopped, Record, ReadJob, CloseAttempt, SaveFinal
<1>6. ASSUME NEW k \in Couriers, CourierStep(k) PROVE Still
  BY <1>6 DEF CourierStep, LoopTick, Fetch, CourierDone, Send, Mark, Refused
<1>7. Boot \/ UNCHANGED vars => Still
  BY DEF Boot, vars, volatile
<1> QED
  BY <1>1, <1>2, <1>3, <1>4, <1>5, <1>6, <1>7, <1>b DEF Next

LEMMA AttemptInit == Init => AttemptInv
<1> SUFFICES ASSUME Init PROVE AttemptInv
  OBVIOUS
<1>1. Fresh /\ Reached /\ ToRequeue /\ ToInterrupt
  BY DEF Init, Fresh, Reached, ToRequeue, ToInterrupt, IdleRecon, IdlePass, IdleTurn, Free
<1>2. OwnedOnce /\ OwnersApart /\ StartedStands /\ GivenUpClosed
  BY DEF Init, OwnedOnce, OwnersApart, StartedStands, GivenUpClosed, IdlePass, Owns
<1>3. BegunOnce /\ OneTurn
  BY DEF Init, BegunOnce, OneTurn, IdleTurn
<1>4. Followed
  BY DEF Init, Followed, NoJob, FreshJob
<1>5. RunningTaken
  BY DEF Init, RunningTaken, NoJob, FreshJob
<1> QED
  BY <1>1, <1>2, <1>3, <1>4, <1>5 DEF AttemptInv

\* A crash empties the process: what is said of it holds of nothing.
LEMMA CrashStep ==
  ASSUME TypeInv, JobInv, AttemptInv, Crash
  PROVE  AttemptInv'
<1>1. /\ \A p \in Passes : pass'[p] = IdlePass
      /\ \A w \in Turns : turn'[w].pc = "idle"
      /\ \A t \in Tasks, n \in 1..MaxAttempts : begun'[t][n] = 0
      /\ recon' = IdleRecon /\ due' = 0 /\ UNCHANGED <<job, attempts>>
  BY DEF Crash, IdleTurn, durable
<1>2. Fresh' /\ Reached' /\ ToRequeue' /\ ToInterrupt'
  BY <1>1 DEF Fresh, Reached, ToRequeue, ToInterrupt, IdleRecon, IdlePass, Free
<1>3. OwnedOnce' /\ OwnersApart' /\ StartedStands' /\ GivenUpClosed'
  BY <1>1 DEF OwnedOnce, OwnersApart, StartedStands, GivenUpClosed, IdlePass, Owns
<1>4. BegunOnce' /\ OneTurn'
  BY <1>1 DEF BegunOnce, OneTurn
<1>5. Followed' /\ RunningTaken'
  BY <1>1 DEF AttemptInv, Followed, RunningTaken, Taken
<1> QED
  BY <1>2, <1>3, <1>4, <1>5 DEF AttemptInv

LEMMA AttemptNext ==
  ASSUME "early" \notin Faults, TypeInv, JobInv, AttemptInv, [Next]_vars
  PROVE  AttemptInv'
<1>1. CASE Crash
  BY <1>1, CrashStep
<1>2. CASE ~Crash
  <2>1. Fresh' /\ Reached' /\ Followed' /\ RunningTaken'
    BY <1>2, FreshStep, ReachedStep, FollowedStep, RunningTakenStep
  <2>2. OwnedOnce' /\ OwnersApart' /\ StartedStands' /\ GivenUpClosed'
    BY <1>2, OwnedOnceStep, OwnersApartStep, StartedStep, GivenUpStep
  <2>3. BegunOnce' /\ OneTurn'
    BY <1>2, BegunOnceStep, OneTurnStep
  <2>4. ToRequeue' /\ ToInterrupt'
    BY <1>2, FirstReadyStep, ToRequeueStep, ToInterruptStep
  <2> QED
    BY <2>1, <2>2, <2>3, <2>4 DEF AttemptInv
<1> QED
  BY <1>1, <1>2

LEMMA AttemptInvariant ==
  ASSUME "early" \notin Faults
  PROVE  Spec => [](TypeInv /\ AttemptInv)
<1>1. TypeInv /\ JobInv /\ AttemptInv /\ [Next]_vars => AttemptInv'
  BY AttemptNext
<1> QED
  BY <1>1, JobInvariant, AttemptInit, PTL DEF Spec

\* When no message is handled before the first on_ready of a process, the attempt
\* rows follow the job's own number across claims, retries and restarts: nothing
\* was claimed beyond it, and nothing before it is open or can be reclaimed.
THEOREM AttemptsFollow ==
  ASSUME "early" \notin Faults
  PROVE  Spec => []AttemptsFollowJob
<1>1. AttemptInv => AttemptsFollowJob
  BY DEF AttemptInv, Followed, AttemptsFollowJob, ClosedStates, Outcomes
<1> QED
  BY <1>1, AttemptInvariant, PTL

\* Then a process begins an attempt's work at most once, and never has two turns of
\* a task, however many passes read the same queue and whatever a restart requeued.
THEOREM RunsOneTurn ==
  ASSUME "early" \notin Faults
  PROVE  Spec => []RunsOnce
<1>1. TypeInv /\ AttemptInv => RunsOnce
  <2> SUFFICES ASSUME TypeInv, AttemptInv PROVE RunsOnce
    OBVIOUS
  <2>1. \A t \in Tasks, n \in 1..MaxAttempts : begun[t][n] <= 1
    BY AttemptTypes DEF AttemptInv, BegunOnce
  <2>2. \A v, w \in Turns : v # w /\ turn[v].pc = "running" /\ turn[w].pc = "running"
                              => turn[v].task # turn[w].task
    BY DEF AttemptInv, OneTurn
  <2> QED BY <2>1, <2>2 DEF RunsOnce
<1> QED
  BY <1>1, AttemptInvariant, PTL

=============================================================================
