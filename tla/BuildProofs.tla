----------------------------- MODULE BuildProofs -----------------------------
(***************************************************************************)
(* Theorems about Build: the loop that waits for workers never has an       *)
(* attempt taken from under it, what is accepted is in the build's copy     *)
(* with its check passed and is taken up again for a new plan only, and     *)
(* tasks that own something in common do not run at once.                   *)
(***************************************************************************)
EXTENDS Build, TLAPS

(***************************************************************************)
(* The inductive invariant, in its parts.                                  *)
(***************************************************************************)
\* Where the loop stands, and what it may then hold.
Collecting == {"record", "repair", "hook"}
Started == {"ready", "waiting"} \cup Collecting
Places ==
    /\ pc \notin Collecting => batch = {}
    /\ pc \in Started \cup {"reconcile"} => recon
    /\ ~ recon \/ pc \in {"reconcile", "halted", "parked", "complete", "closed"} => held = {}
    /\ pc = "down" => held = {} /\ workers = {} /\ answers = {} /\ ~ recon

\* From its reconciliation on, the loop waits for exactly what runs.
Waited ==
    /\ HeldIsCurrent
    /\ pc \in Started \/ (pc = "top" /\ recon) => \A t \in Tasks : Is(ledger, t, "running") => t \in held

\* An attempt has one worker, and only once it is begun.
OneWorker(W, L) ==
    /\ \A w \in W : /\ w.attempt <= L.tasks[w.task].attempt
                    /\ w.attempt = L.tasks[w.task].attempt => ~ Is(L, w.task, "pending")
    /\ \A v, w \in W : v.task = w.task /\ v.attempt = w.attempt => v = w

\* What a worker has merged, or is about to have accepted, is in the build's copy.
Passed(w) == w.stage = "landed" \/ (w.stage = "over" /\ w.result = "good")
Landed(W, L) ==
    \A w \in W : w.attempt = L.tasks[w.task].attempt /\ Passed(w) => L.tasks[w.task].side = "passed"

\* A question is about a blocked attempt; an answer in memory is the one answer of a
\* question nobody asks any more; what is being recorded was not asked about yet.
Questions == \A t \in Tasks : ledger.tasks[t].ask # "none" => Is(ledger, t, "blocked")
Answers ==
    /\ \A a \in answers : ledger.tasks[a[1]].ask = "resolved"
    /\ \A a, b \in answers : a[1] = b[1] => a = b
    /\ pc \in {"repair", "hook"} => \A t \in cur : ledger.tasks[t].ask = "none"
    /\ pc = "repair" => \A t \in cur : Is(ledger, t, "blocked")

BuildInv ==
    /\ TypeOK /\ Places /\ Waited /\ AcceptedLanded
    /\ OneWorker(workers, ledger) /\ Landed(workers, ledger)
    /\ Questions /\ Answers /\ RunningApart
-----------------------------------------------------------------------------
(* What the methods of the ledger return.                                  *)

\* M differs from L in the attempt of t only.
OnlyAt(L, M, t) ==
    /\ M \in Ledgers /\ M.versions = L.versions
    /\ \A u \in Tasks \ {t} : M.tasks[u] = L.tasks[u]

\* A new attempt, which knows nothing of the one before.
Renewed(r, q) ==
    /\ q.status = "pending" /\ q.attempt = r.attempt + 1 /\ q.side = "clean" /\ q.ask = "none"

Alike(r, q) ==
    /\ q.status = r.status /\ q.attempt = r.attempt /\ q.side = r.side /\ q.ask = r.ask

LEMMA WrittenAt ==
    ASSUME NEW L \in Ledgers, NEW t \in Tasks, NEW r \in Attempt
    PROVE  OnlyAt(L, Written(L, t, r), t) /\ Written(L, t, r).tasks[t] = r
BY DEF Ledgers, OnlyAt, Written

LEMMA FreshIs ==
    ASSUME NEW L \in Ledgers, NEW t \in Tasks, NEW n \in Nat
    PROVE  Fresh(L, t, n) \in Attempt /\ Renewed(L.tasks[t], Fresh(L, t, n))
<1>1. L.tasks[t] \in Attempt /\ L.versions[PlanOf[t]] \in Nat
  BY LedgerAssumption DEF LedgerAssumption, Ledgers
<1>2. L.tasks[t].attempt + 1 \in Nat \ {0}
  <2>1. \A k \in Nat \ {0} : k + 1 \in Nat \ {0}
    OBVIOUS
  <2>2. L.tasks[t].attempt \in Nat \ {0}
    BY <1>1 DEF Attempt
  <2> QED
    BY <2>1, <2>2
<1>3. Fresh(L, t, n) \in Attempt
  BY <1>1, <1>2 DEF Attempt, Statuses, Fresh
<1> QED
  BY <1>3 DEF Fresh, Renewed

\* Only its side copy sets one attempt apart from the other.
SideOnly(r, q) == q.status = r.status /\ q.attempt = r.attempt /\ q.ask = r.ask

LEMMA SidedAt ==
    ASSUME NEW L \in Ledgers, NEW t \in Tasks,
           NEW side \in {"clean", "work", "merged", "gone", "passed"}
    PROVE  /\ OnlyAt(L, Sided(L, t, side), t)
           /\ Sided(L, t, side).tasks[t].side = side
           /\ SideOnly(L.tasks[t], Sided(L, t, side).tasks[t])
<1> DEFINE r == [L.tasks[t] EXCEPT !.side = side]
<1>1. L.tasks[t] \in Attempt
  BY DEF Ledgers
<1>2. r \in Attempt /\ r.side = side /\ SideOnly(L.tasks[t], r)
  BY <1>1 DEF Attempt, SideOnly
<1>3. Sided(L, t, side) = Written(L, t, r)
  BY DEF Sided, Written, Ledgers
<1> HIDE DEF r
<1>4. OnlyAt(L, Written(L, t, r), t) /\ Written(L, t, r).tasks[t] = r
  BY <1>2, WrittenAt
<1> QED
  BY <1>2, <1>3, <1>4

LEMMA SubmittedAt ==
    ASSUME NEW L \in Ledgers, NEW t \in Tasks
    PROVE  /\ OnlyAt(L, Submitted(L, t), t)
           /\ Submitted(L, t).tasks[t] = [L.tasks[t] EXCEPT !.status = "finished", !.why = ""]
<1>1. [L.tasks[t] EXCEPT !.status = "finished", !.why = ""] \in Attempt
  BY ZenonT(60) DEF Ledgers, Attempt, Statuses
<1> QED
  BY <1>1, WrittenAt DEF Submitted

LEMMA BlockedAt ==
    ASSUME NEW L \in Ledgers, NEW t \in Tasks, NEW why \in {"work", "machinery", "skipped"}
    PROVE  /\ OnlyAt(L, Blocked(L, t, why), t)
           /\ Blocked(L, t, why).tasks[t] = [L.tasks[t] EXCEPT !.status = "blocked", !.why = why]
<1>1. [L.tasks[t] EXCEPT !.status = "blocked", !.why = why] \in Attempt
  BY ZenonT(60) DEF Ledgers, Attempt, Statuses
<1> QED
  BY <1>1, WrittenAt DEF Blocked

LEMMA RetriedAt ==
    ASSUME NEW L \in Ledgers, NEW t \in Tasks
    PROVE  /\ OnlyAt(L, Retried(L, t), t) /\ Renewed(L.tasks[t], Retried(L, t).tasks[t])
           /\ OnlyAt(L, Repaired(L, t), t) /\ Renewed(L.tasks[t], Repaired(L, t).tasks[t])
<1>1. L.tasks[t].repairs \in Nat
  BY DEF Ledgers, Attempt
<1> QED
  BY <1>1, WrittenAt, FreshIs DEF Retried, Repaired

\* An attempt is accepted as it is, or reworked for the plan that is current.
LEMMA AcceptedAt ==
    ASSUME NEW L \in Ledgers, NEW t \in Tasks
    PROVE  /\ OnlyAt(L, Accepted(L, t), t)
           /\ \/ Accepted(L, t).tasks[t] = [L.tasks[t] EXCEPT !.status = "accepted"]
              \/ Renewed(L.tasks[t], Accepted(L, t).tasks[t])
<1>1. [L.tasks[t] EXCEPT !.status = "accepted"] \in Attempt
  BY ZenonT(60) DEF Ledgers, Attempt, Statuses
<1> QED
  BY <1>1, WrittenAt, RetriedAt DEF Accepted

LEMMA AskedAt ==
    ASSUME NEW L \in Ledgers, NEW t \in Tasks, NEW ask \in {"open", "posted"}
    PROVE  /\ OnlyAt(L, Asked(L, t, ask), t)
           /\ \E a \in {"open", "posted"} : Asked(L, t, ask).tasks[t] = [L.tasks[t] EXCEPT !.ask = a]
<1> DEFINE a == IF L.tasks[t].ask = "posted" THEN "posted" ELSE ask
<1>1. a \in {"open", "posted"} /\ [L.tasks[t] EXCEPT !.ask = a] \in Attempt
  BY DEF Ledgers, Attempt
<1>2. Asked(L, t, ask) = Written(L, t, [L.tasks[t] EXCEPT !.ask = a])
  BY DEF Asked, Ledgers, Attempt
<1> QED
  BY <1>1, <1>2, WrittenAt

\* A sync leaves an attempt as it is, but for the version it knows, or renews one that was
\* finished or accepted under another version of its plan.
LEMMA SyncedIs ==
    ASSUME NEW L \in Ledgers, NEW f \in [Plans -> Nat], NEW taken
    PROVE  /\ Synced(L, f, taken) \in Ledgers /\ Synced(L, f, taken).versions = f
           /\ \A t \in Tasks :
                \/ Synced(L, f, taken).tasks[t] = L.tasks[t]
                \/ /\ Is(L, t, "pending") /\ Alike(L.tasks[t], Synced(L, f, taken).tasks[t])
                \/ /\ L.tasks[t].status \in {"accepted", "finished"}
                   /\ Renewed(L.tasks[t], Synced(L, f, taken).tasks[t])
                   /\ f[PlanOf[t]] # L.versions[PlanOf[t]]
<1> DEFINE M == [L EXCEPT !.versions = f]
<1>1. M \in Ledgers /\ M.tasks = L.tasks
  BY DEF Ledgers
<1>2. ASSUME NEW t \in Tasks
      PROVE  /\ Taken(L, f, t) \in Attempt
             /\ \/ Taken(L, f, t) = L.tasks[t]
                \/ Is(L, t, "pending") /\ Alike(L.tasks[t], Taken(L, f, t))
                \/ /\ L.tasks[t].status \in {"accepted", "finished"}
                   /\ Renewed(L.tasks[t], Taken(L, f, t))
                   /\ f[PlanOf[t]] # L.versions[PlanOf[t]]
  <2> DEFINE r == L.tasks[t]
             v == f[PlanOf[t]]
  <2>1. r \in Attempt /\ v \in Nat
    BY LedgerAssumption DEF LedgerAssumption, Ledgers
  <2>2. CASE v = L.versions[PlanOf[t]]
    BY <2>1, <2>2 DEF Taken
  <2>3. CASE v # L.versions[PlanOf[t]] /\ r.status = "pending"
    <3>1. Taken(L, f, t) = [r EXCEPT !.version = v]
      BY <2>3 DEF Taken
    <3>2. [r EXCEPT !.version = v] \in Attempt /\ Alike(r, [r EXCEPT !.version = v])
      BY <2>1 DEF Attempt, Alike
    <3> QED
      BY <2>3, <3>1, <3>2 DEF Is
  <2>4. CASE v # L.versions[PlanOf[t]] /\ r.status \in {"accepted", "finished"}
    <3>1. Taken(L, f, t) = Fresh(M, t, r.repairs) /\ r.repairs \in Nat
      BY <2>1, <2>4 DEF Taken, Attempt
    <3> QED
      BY <1>1, <2>4, <3>1, FreshIs
  <2>5. CASE v # L.versions[PlanOf[t]] /\ r.status \notin {"pending", "accepted", "finished"}
    BY <2>1, <2>5 DEF Taken
  <2> QED
    BY <2>2, <2>3, <2>4, <2>5
<1> HIDE DEF M
<1>3. \A t \in Tasks : Synced(L, f, taken).tasks[t] = IF t \in taken THEN Taken(L, f, t) ELSE L.tasks[t]
  BY DEF Synced
<1>4. Synced(L, f, taken) \in Ledgers /\ Synced(L, f, taken).versions = f
  BY <1>2 DEF Synced, Ledgers
<1> QED
  BY <1>2, <1>3, <1>4

-----------------------------------------------------------------------------
(* What may become of an attempt in one step, but for being begun.         *)
Ended(r, q) ==
    /\ r.status = "running" /\ q.status \in {"finished", "blocked", "accepted"}
    /\ q.attempt = r.attempt /\ q.ask = r.ask
    /\ q.side = r.side \/ r.side # "passed"
    /\ q.status = "accepted" => q.side = "passed"
AskMoves(r, q) ==
    r.status = "blocked" /\ q.status = "blocked" /\ q.attempt = r.attempt /\ q.side = r.side
SideMoves(r, q) ==
    r.side # "passed" /\ q.status = r.status /\ q.attempt = r.attempt /\ q.ask = r.ask
Change(r, q) ==
    Alike(r, q) \/ Renewed(r, q) \/ Ended(r, q) \/ AskMoves(r, q) \/ SideMoves(r, q)

\* What holds of the workers, of what is accepted and of the questions survives any of these.
LEMMA ChangeKeeps ==
    ASSUME BuildInv, NEW M \in Ledgers, \A t \in Tasks : Change(ledger.tasks[t], M.tasks[t])
    PROVE  /\ OneWorker(workers, M) /\ Landed(workers, M)
           /\ \A t \in Tasks : Is(M, t, "accepted") => M.tasks[t].side = "passed"
           /\ \A t \in Tasks : M.tasks[t].ask # "none" => Is(M, t, "blocked")
           /\ \A t \in Tasks : Is(M, t, "running") => Is(ledger, t, "running")
<1>1. \A w \in workers : w.task \in Tasks /\ w.attempt \in Nat
  BY DEF BuildInv, TypeOK, Worker
<1>2. \A t \in Tasks : ledger.tasks[t].attempt \in Nat
  BY DEF BuildInv, TypeOK, Ledgers, Attempt
<1>3. OneWorker(workers, M)
  <2>1. ASSUME NEW w \in workers
        PROVE  /\ w.attempt <= M.tasks[w.task].attempt
               /\ w.attempt = M.tasks[w.task].attempt => ~ Is(M, w.task, "pending")
    <3>1. Change(ledger.tasks[w.task], M.tasks[w.task])
      BY <1>1
    <3>2. /\ w.attempt <= ledger.tasks[w.task].attempt
          /\ w.attempt = ledger.tasks[w.task].attempt => ledger.tasks[w.task].status # "pending"
      BY DEF BuildInv, OneWorker, Is
    <3>3. \/ /\ M.tasks[w.task].attempt = ledger.tasks[w.task].attempt
             /\ M.tasks[w.task].status = "pending" => ledger.tasks[w.task].status = "pending"
          \/ M.tasks[w.task].attempt = ledger.tasks[w.task].attempt + 1
      BY <3>1 DEF Change, Alike, Renewed, Ended, AskMoves, SideMoves
    <3> QED
      BY <1>1, <1>2, <3>2, <3>3 DEF Is
  <2> QED
    BY <2>1 DEF BuildInv, OneWorker
<1>4. Landed(workers, M)
  <2> SUFFICES ASSUME NEW w \in workers, w.attempt = M.tasks[w.task].attempt, Passed(w)
               PROVE  M.tasks[w.task].side = "passed"
    BY DEF Landed
  <2>1. Change(ledger.tasks[w.task], M.tasks[w.task])
    BY <1>1
  <2>2. ~ Renewed(ledger.tasks[w.task], M.tasks[w.task])
    BY <1>1, <1>2 DEF BuildInv, OneWorker, Renewed
  <2> QED
    BY <2>1, <2>2 DEF BuildInv, Landed, Change, Alike, Ended, AskMoves, SideMoves
<1>5. ASSUME NEW t \in Tasks
      PROVE  /\ Is(M, t, "accepted") => M.tasks[t].side = "passed"
             /\ M.tasks[t].ask # "none" => Is(M, t, "blocked")
             /\ Is(M, t, "running") => Is(ledger, t, "running")
  BY <1>5 DEF BuildInv, AcceptedLanded, Questions, Change, Alike, Renewed, Ended, AskMoves,
              SideMoves, Is
<1> QED
  BY <1>3, <1>4, <1>5

\* So does what holds of the workers when one of them moves on.
LEMMA MoveKeeps ==
    ASSUME BuildInv, NEW M \in Ledgers, OneWorker(workers, M), Landed(workers, M),
           NEW w \in workers, NEW stage \in {"working", "landed", "over"},
           NEW result \in Results, Move(w, stage, result),
           w.attempt = M.tasks[w.task].attempt /\ Passed(Turned(w, stage, result))
               => M.tasks[w.task].side = "passed"
    PROVE  /\ workers' \subseteq Worker /\ OneWorker(workers', M) /\ Landed(workers', M)
           /\ \A t \in held : Mine(t) # {} =>
                  \E v \in workers' : v.task = t /\ v.attempt = ledger.tasks[t].attempt
<1> DEFINE x == Turned(w, stage, result)
<1>1. x \in Worker /\ x.task = w.task /\ x.attempt = w.attempt
  BY DEF BuildInv, TypeOK, Worker, Turned
<1>2. workers' \subseteq (workers \ {w}) \cup {x} /\ (w.task \in held => x \in workers')
  BY DEF Move
<1>3. workers \ {w} \subseteq workers'
  BY DEF Move
<1> HIDE DEF x
<1>4. workers' \subseteq Worker
  BY <1>1, <1>2 DEF BuildInv, TypeOK
<1>5. OneWorker(workers', M)
  BY <1>1, <1>2 DEF OneWorker
<1>6. Landed(workers', M)
  <2>1. w.attempt = M.tasks[w.task].attempt /\ Passed(x) => M.tasks[w.task].side = "passed"
    BY DEF x
  <2> QED
    BY <1>1, <1>2, <2>1 DEF Landed
<1> QED
  BY <1>1, <1>2, <1>3, <1>4, <1>5, <1>6 DEF Mine
-----------------------------------------------------------------------------
(* Every step keeps the invariant.                                         *)

LEMMA InitBuild == Init => BuildInv
<1> SUFFICES ASSUME Init PROVE BuildInv
  OBVIOUS
<1>1. file \in [Plans -> Nat]
  BY DEF Init
<1>2. \A t \in Tasks : ledger.tasks[t] \in Attempt
  <2> SUFFICES ASSUME NEW t \in Tasks PROVE ledger.tasks[t] \in Attempt
    OBVIOUS
  <2>1. ASSUME NEW v \in Nat
        PROVE  [status |-> "pending", attempt |-> 1, repairs |-> 0, version |-> v, why |-> "",
                side |-> "clean", ask |-> "none"] \in Attempt
    BY DEF Attempt, Statuses
  <2>2. file[PlanOf[t]] \in Nat
    BY <1>1, LedgerAssumption DEF LedgerAssumption
  <2>3. ledger.tasks[t] = [status |-> "pending", attempt |-> 1, repairs |-> 0,
                           version |-> file[PlanOf[t]], why |-> "",
                           side |-> "clean", ask |-> "none"]
    BY DEF Init, NewLedger
  <2> QED
    BY <2>1, <2>2, <2>3
<1>3. ledger \in Ledgers /\ \A t \in Tasks : ledger.tasks[t].status = "pending" /\ ledger.tasks[t].ask = "none"
  BY <1>1, <1>2 DEF Init, NewLedger, Ledgers
<1>4. TypeOK
  BY <1>1, <1>3 DEF Init, TypeOK, Stages
<1>5. Places /\ Waited
  BY <1>3 DEF Init, Places, Waited, HeldIsCurrent, Is, Started, Collecting
<1>6. OneWorker(workers, ledger) /\ Landed(workers, ledger)
  BY DEF Init, OneWorker, Landed
<1>7. AcceptedLanded /\ Questions /\ Answers /\ RunningApart
  BY <1>3 DEF Init, AcceptedLanded, Questions, Answers, RunningApart, Is
<1> QED
  BY <1>4, <1>5, <1>6, <1>7 DEF BuildInv

\* Steps that write neither the ledger nor what the cog keeps in memory.
LEMMA StillKeeps ==
    ASSUME BuildInv, UNCHANGED <<ledger, workers, answers>>, TypeOK', Places',
           held' = held \/ held' = {}, cur' = cur, pc' \notin {"repair", "hook"} \/ pc' = pc,
           pc' \in Started \/ (pc' = "top" /\ recon') =>
               \/ held' = held /\ (pc \in Started \/ (pc = "top" /\ recon))
               \/ \A t \in Tasks : ~ Is(ledger, t, "running")
    PROVE  BuildInv'
<1>1. Waited'
  BY DEF BuildInv, Waited, HeldIsCurrent, Mine
<1>2. Questions' /\ Answers'
  BY DEF BuildInv, Questions, Answers
<1> QED
  BY <1>1, <1>2 DEF BuildInv, AcceptedLanded, RunningApart

LEMMA LoopKeeps ==
    ASSUME BuildInv, Reconciled \/ Wait \/ Stop \/ Unstick \/ Park \/ KeepGoing \/ Close
    PROVE  BuildInv'
<1> USE DEF Started, Collecting
<1>1. TypeOK /\ Places
  BY DEF BuildInv
<1>2. UNCHANGED <<ledger, workers, answers, held, cur, plan, counters>>
  BY DEF Reconciled, Wait, Stop, Unstick, Park, KeepGoing, Close, Wakes
<1>3. pc' \in Stages /\ recon' \in BOOLEAN /\ stop' \in BOOLEAN /\ batch' \subseteq held
  BY <1>1 DEF TypeOK, Stages, OverTasks, Reconciled, Wait, Stop, Unstick, Park, KeepGoing, Close,
              Wakes
<1>4. TypeOK'
  BY <1>1, <1>2, <1>3 DEF TypeOK, plan, counters
<1>5. Places'
  BY <1>1, <1>2 DEF Places, Reconciled, Wait, Stop, Unstick, Park, KeepGoing, Close, Wakes
<1>6. /\ pc' \notin {"repair", "hook"}
      /\ pc' \in Started \/ (pc' = "top" /\ recon') =>
            pc \in Started \/ \A t \in Tasks : ~ Is(ledger, t, "running")
  BY DEF Reconciled, Wait, Stop, Unstick, Park, KeepGoing, Close, Wakes
<1> QED
  BY <1>2, <1>4, <1>5, <1>6, StillKeeps

LEMMA PlanKeeps ==
    ASSUME BuildInv, Break \/ Mend \/ \E p \in Plans : Edit(p)
    PROVE  BuildInv'
<1>1. UNCHANGED <<ledger, loop, workers, answers>>
  BY DEF Break, Mend, Edit
<1>2. TypeOK
  BY DEF BuildInv
<1>3. TypeOK'
  <2>1. \A n \in Nat : n + 1 \in Nat
    OBVIOUS
  <2>2. CASE Break \/ Mend
    <3>1. readable' \in BOOLEAN
      BY <2>2 DEF Break, Mend
    <3>2. faults' \in Nat /\ UNCHANGED <<file, replies>>
      BY <1>2, <2>1, <2>2 DEF Break, Mend, TypeOK, counters
    <3> QED
      BY <1>1, <1>2, <3>1, <3>2 DEF TypeOK, loop
  <2>3. ASSUME NEW p \in Plans, Edit(p) PROVE TypeOK'
    <3>1. file' \in [Plans -> Nat]
      BY <1>2, <2>1, <2>3 DEF Edit, TypeOK
    <3> QED
      BY <1>1, <1>2, <2>3, <3>1 DEF Edit, TypeOK, loop, counters
  <2> QED
    BY <2>2, <2>3
<1>4. Places'
  BY <1>1 DEF BuildInv, Places, loop
<1> QED
  BY <1>1, <1>3, <1>4, StillKeeps DEF loop

\* Steps that write the ledger and start no worker.
LEMMA LedgerKeeps ==
    ASSUME BuildInv, TypeOK', Places', Waited', Answers', workers' \subseteq workers,
           \A t \in Tasks : Change(ledger.tasks[t], ledger'.tasks[t])
    PROVE  BuildInv'
<1>1. ledger' \in Ledgers
  BY DEF TypeOK
<1>2. /\ OneWorker(workers, ledger') /\ Landed(workers, ledger')
      /\ \A t \in Tasks : Is(ledger', t, "accepted") => ledger'.tasks[t].side = "passed"
      /\ \A t \in Tasks : ledger'.tasks[t].ask # "none" => Is(ledger', t, "blocked")
      /\ \A t \in Tasks : Is(ledger', t, "running") => Is(ledger, t, "running")
  BY <1>1, ChangeKeeps
<1>3. OneWorker(workers', ledger') /\ Landed(workers', ledger')
  BY <1>2 DEF OneWorker, Landed
<1>4. AcceptedLanded' /\ Questions'
  BY <1>2 DEF AcceptedLanded, Questions, Is
<1>5. RunningApart'
  BY <1>2 DEF BuildInv, RunningApart, Is
<1> QED
  BY <1>3, <1>4, <1>5 DEF BuildInv

\* A sync leaves what runs and what is blocked as it is.
LEMMA SyncChanges ==
    ASSUME BuildInv, NEW taken, NEW M, M = Synced(ledger, file, taken)
    PROVE  /\ M \in Ledgers
           /\ \A t \in Tasks :
                 /\ Change(ledger.tasks[t], M.tasks[t])
                 /\ Is(ledger, t, "running") \/ Is(ledger, t, "blocked") => M.tasks[t] = ledger.tasks[t]
                 /\ Is(M, t, "running") => Is(ledger, t, "running")
<1>1. ledger \in Ledgers /\ file \in [Plans -> Nat]
  BY DEF BuildInv, TypeOK
<1>2. /\ M \in Ledgers
      /\ \A t \in Tasks :
            \/ M.tasks[t] = ledger.tasks[t]
            \/ Is(ledger, t, "pending") /\ Alike(ledger.tasks[t], M.tasks[t])
            \/ ledger.tasks[t].status \in {"accepted", "finished"} /\ Renewed(ledger.tasks[t], M.tasks[t])
  BY <1>1, SyncedIs
<1> QED
  BY <1>2 DEF Change, Alike, Renewed, Is

LEMMA TopKeeps == ASSUME BuildInv, Top PROVE BuildInv'
<1> USE DEF Started, Collecting
<1>1. TypeOK /\ Places /\ Waited /\ Answers
  BY DEF BuildInv
<1>2. CASE ~ readable
  <2>1. TypeOK'
    BY <1>1, <1>2 DEF Top, TypeOK, Stages, Places, plan, counters
  <2>2. Places'
    BY <1>1, <1>2 DEF Top, Places
  <2> QED
    BY <1>2, <2>1, <2>2, StillKeeps DEF Top
<1>3. CASE readable
  <2>1. /\ ledger' \in Ledgers
        /\ \A t \in Tasks :
              /\ Change(ledger.tasks[t], ledger'.tasks[t])
              /\ Is(ledger, t, "running") \/ Is(ledger, t, "blocked") => ledger'.tasks[t] = ledger.tasks[t]
              /\ Is(ledger', t, "running") => Is(ledger, t, "running")
    BY <1>3, SyncChanges DEF Top, Sync
  <2>2. TypeOK'
    BY <1>1, <1>3, <2>1 DEF Top, TypeOK, Stages, plan, counters
  <2>3. Places'
    BY <1>1, <1>3 DEF Top, Places
  <2>4. Waited'
    <3>1. UNCHANGED <<held, workers>>
      BY <1>3 DEF Top
    <3>2. HeldIsCurrent'
      BY <1>1, <2>1, <3>1 DEF TypeOK, Waited, HeldIsCurrent, Mine, Is
    <3>3. pc' \in Started => recon
      BY <1>3 DEF Top
    <3> QED
      BY <1>1, <1>3, <2>1, <3>1, <3>2, <3>3 DEF Top, Waited
  <2>5. Answers'
    <3>1. \A a \in answers : a[1] \in Tasks /\ Is(ledger, a[1], "blocked")
      BY DEF BuildInv, TypeOK, Questions, Answers
    <3> QED
      BY <1>1, <1>3, <2>1, <3>1 DEF Top, Answers
  <2> QED
    BY <2>1, <2>2, <2>3, <2>4, <2>5, LedgerKeeps DEF Top
<1> QED
  BY <1>2, <1>3

\* What a death of the process leaves.
LEMMA DeathKeeps ==
    ASSUME BuildInv, Dies, ledger' \in Ledgers,
           \A t \in Tasks : Change(ledger.tasks[t], ledger'.tasks[t])
    PROVE  BuildInv'
<1>1. TypeOK'
  <2>1. faults' \in Nat
    BY DEF BuildInv, TypeOK, Dies
  <2>2. UNCHANGED <<file, readable, replies>>
    BY DEF Dies, plan
  <2> QED
    BY <2>1, <2>2 DEF BuildInv, TypeOK, Dies, Stages
<1>2. Places' /\ Waited' /\ Answers' /\ workers' \subseteq workers
  BY DEF Dies, Places, Waited, HeldIsCurrent, Answers, Started, Collecting
<1> QED
  BY <1>1, <1>2, LedgerKeeps

LEMMA CrashKeeps == ASSUME BuildInv, Crash \/ TornSync PROVE BuildInv'
<1>1. ledger \in Ledgers
  BY DEF BuildInv, TypeOK
<1>2. CASE Crash
  BY <1>1, <1>2, DeathKeeps DEF Crash, Change, Alike
<1>3. CASE TornSync
  <2>1. PICK taken : ledger' = Synced(ledger, file, taken)
    BY <1>3 DEF TornSync
  <2> QED
    BY <1>3, <2>1, SyncChanges, DeathKeeps DEF TornSync
<1> QED
  BY <1>2, <1>3

LEMMA TornMergeKeeps == ASSUME BuildInv, TornMerge PROVE BuildInv'
<1>1. ledger \in Ledgers
  BY DEF BuildInv, TypeOK
<1>2. PICK t \in Tasks, side \in {"merged", "gone"} :
        /\ Salvageable(t) \/ \E w \in Mine(t) : MayMerge(w)
        /\ ledger' = Sided(ledger, t, side)
  BY DEF TornMerge
<1>3. ledger.tasks[t].side # "passed"
  BY <1>2 DEF Salvageable, MayMerge, Mine
<1>4. /\ ledger' \in Ledgers /\ ledger'.tasks[t].side = side
      /\ SideOnly(ledger.tasks[t], ledger'.tasks[t])
      /\ \A u \in Tasks \ {t} : ledger'.tasks[u] = ledger.tasks[u]
  <2>1. side \in {"clean", "work", "merged", "gone", "passed"}
    OBVIOUS
  <2>2. /\ OnlyAt(ledger, ledger', t) /\ ledger'.tasks[t].side = side
        /\ SideOnly(ledger.tasks[t], ledger'.tasks[t])
    BY <1>1, <1>2, <2>1, SidedAt
  <2> QED
    BY <2>2 DEF OnlyAt
<1>5. SideMoves(ledger.tasks[t], ledger'.tasks[t])
  BY <1>3, <1>4 DEF SideMoves, SideOnly
<1> QED
  BY <1>4, <1>5, DeathKeeps DEF TornMerge, Change, Alike

LEMMA RestartKeeps == ASSUME BuildInv, Restart PROVE BuildInv'
<1> USE DEF Started, Collecting
<1>1. TypeOK /\ Places /\ Questions
  BY DEF BuildInv
<1>2. PICK S \in SUBSET {t \in Tasks : ledger.tasks[t].ask = "open"} :
        ledger' = [ledger EXCEPT !.tasks = [t \in Tasks |->
                      IF t \in S THEN [@[t] EXCEPT !.ask = "posted"] ELSE @[t]]]
  BY DEF Restart
<1>3. /\ ledger' \in Ledgers
      /\ \A t \in Tasks : /\ ledger.tasks[t] \in Attempt
                          /\ ledger'.tasks[t] = IF t \in S THEN [ledger.tasks[t] EXCEPT !.ask = "posted"]
                                                ELSE ledger.tasks[t]
  <2>1. \A t \in Tasks : ledger.tasks[t] \in Attempt /\ [ledger.tasks[t] EXCEPT !.ask = "posted"] \in Attempt
    <3> SUFFICES ASSUME NEW t \in Tasks
                 PROVE  ledger.tasks[t] \in Attempt /\ [ledger.tasks[t] EXCEPT !.ask = "posted"] \in Attempt
      OBVIOUS
    <3>1. ledger.tasks[t] \in Attempt
      BY <1>1 DEF TypeOK, Ledgers
    <3> QED
      BY <3>1 DEF Attempt
  <2> QED
    BY <1>1, <1>2, <2>1 DEF TypeOK, Ledgers
<1>4. \A t \in Tasks : Change(ledger.tasks[t], ledger'.tasks[t])
  <2> SUFFICES ASSUME NEW t \in Tasks PROVE Change(ledger.tasks[t], ledger'.tasks[t])
    OBVIOUS
  <2>1. CASE t \in S
    BY <1>1, <1>3, <2>1, ZenonT(60) DEF Questions, Change, AskMoves, Attempt, Is
  <2>2. CASE t \notin S
    BY <1>3, <2>2 DEF Change, Alike
  <2> QED
    BY <2>1, <2>2
<1>5. TypeOK'
  BY <1>1, <1>3 DEF Restart, TypeOK, Stages, plan, counters
<1>6. Places' /\ Waited' /\ Answers' /\ workers' \subseteq workers
  BY <1>1 DEF Restart, Places, Waited, HeldIsCurrent, Answers
<1> QED
  BY <1>4, <1>5, <1>6, LedgerKeeps

\* What reconciliation makes of an attempt: saved, or given up.
LEMMA ReconciledIs ==
    ASSUME BuildInv, NEW t \in Tasks, Salvage(t) \/ GiveUp(t)
    PROVE  /\ pc = "reconcile" /\ Is(ledger, t, "running") /\ ledger' \in Ledgers
           /\ Change(ledger.tasks[t], ledger'.tasks[t])
           /\ \A u \in Tasks \ {t} : ledger'.tasks[u] = ledger.tasks[u]
<1> DEFINE r == ledger.tasks[t]
           q == ledger'.tasks[t]
<1>1. Questions /\ ledger \in Ledgers /\ r \in Attempt
  BY DEF BuildInv, TypeOK, Ledgers
<1>2. pc = "reconcile" /\ r.status = "running"
  BY DEF Salvage, GiveUp, Salvageable, Is
<1>3. /\ ledger' \in Ledgers /\ Change(r, q)
      /\ \A u \in Tasks \ {t} : ledger'.tasks[u] = ledger.tasks[u]
  <2>1. CASE GiveUp(t)
    <3>1. OnlyAt(ledger, ledger', t) /\ q = [r EXCEPT !.status = "blocked", !.why = "machinery"]
      BY <1>1, <2>1, BlockedAt DEF GiveUp
    <3> QED
      BY <1>1, <1>2, <3>1 DEF OnlyAt, Change, Ended, Attempt
  <2>2. CASE Salvage(t)
    <3>1. PICK side \in {"passed", "gone"} :
            \/ side = "passed" /\ ledger' = Accepted(Submitted(Sided(ledger, t, side), t), t)
            \/ side = "gone" /\ ledger' = Blocked(Submitted(Sided(ledger, t, side), t), t, "work")
      BY <2>2 DEF Salvage
    <3> DEFINE A == Sided(ledger, t, side)
               B == Submitted(A, t)
    <3>2. OnlyAt(ledger, A, t) /\ A.tasks[t].side = side /\ SideOnly(r, A.tasks[t])
      <4>1. side \in {"clean", "work", "merged", "gone", "passed"}
        OBVIOUS
      <4> QED
        BY <1>1, <4>1, SidedAt
    <3>3. A \in Ledgers
      BY <3>2 DEF OnlyAt
    <3>4. OnlyAt(A, B, t) /\ B.tasks[t] = [A.tasks[t] EXCEPT !.status = "finished", !.why = ""]
      BY <3>3, SubmittedAt
    <3>5. B \in Ledgers
      BY <3>4 DEF OnlyAt
    <3>6. r.side # "passed" /\ r.ask = "none"
      BY <1>1, <2>2 DEF Salvage, Salvageable, Questions, Is
    <3>9. /\ B.tasks[t].attempt = r.attempt /\ B.tasks[t].side = side
          /\ B.tasks[t].ask = r.ask /\ B.tasks[t] \in Attempt
      <4>1. B.tasks[t] \in Attempt /\ A.tasks[t] \in Attempt
        BY <3>3, <3>5 DEF Ledgers
      <4> QED
        BY <3>2, <3>4, <4>1 DEF Attempt, SideOnly
    <3> HIDE DEF A, B
    <3>7. CASE side = "passed" /\ ledger' = Accepted(B, t)
      <4>1. /\ OnlyAt(B, ledger', t)
            /\ q = [B.tasks[t] EXCEPT !.status = "accepted"] \/ Renewed(B.tasks[t], q)
        BY <3>5, <3>7, AcceptedAt
      <4>2. Ended(r, q) \/ Renewed(r, q)
        BY <1>2, <3>6, <3>7, <3>9, <4>1 DEF Attempt, Ended, Renewed
      <4> QED
        BY <3>2, <3>4, <4>1, <4>2 DEF OnlyAt, Change
    <3>8. CASE side = "gone" /\ ledger' = Blocked(B, t, "work")
      <4>1. OnlyAt(B, ledger', t) /\ q = [B.tasks[t] EXCEPT !.status = "blocked", !.why = "work"]
        BY <3>5, <3>8, BlockedAt
      <4>2. Ended(r, q)
        BY <1>2, <3>6, <3>9, <4>1 DEF Attempt, Ended
      <4> QED
        BY <3>2, <3>4, <4>1, <4>2 DEF OnlyAt, Change
    <3> QED
      BY <3>1, <3>7, <3>8 DEF A, B
  <2> QED
    BY <2>1, <2>2
<1> QED
  BY <1>2, <1>3 DEF Is

LEMMA ReconcileKeeps ==
    ASSUME BuildInv, NEW t \in Tasks, Salvage(t) \/ GiveUp(t)
    PROVE  BuildInv'
<1>1. TypeOK /\ Places /\ Answers /\ Questions
  BY DEF BuildInv
<1>2. UNCHANGED <<plan, loop, workers, answers, counters>>
  BY DEF Salvage, GiveUp
<1>3. /\ pc = "reconcile" /\ Is(ledger, t, "running") /\ ledger' \in Ledgers
      /\ Change(ledger.tasks[t], ledger'.tasks[t])
      /\ \A u \in Tasks \ {t} : ledger'.tasks[u] = ledger.tasks[u]
  BY ReconciledIs
<1>4. \A u \in Tasks : Change(ledger.tasks[u], ledger'.tasks[u])
  <2>1. \A u \in Tasks \ {t} : Change(ledger.tasks[u], ledger'.tasks[u])
    BY <1>3 DEF Change, Alike
  <2> QED
    BY <1>3, <2>1
<1>5. TypeOK' /\ Places'
  BY <1>1, <1>2, <1>3 DEF TypeOK, Places, plan, loop, counters
<1>6. Waited'
  BY <1>1, <1>2, <1>3 DEF Places, Waited, HeldIsCurrent, Started, Collecting, loop
<1>7. Answers'
  <2>1. \A a \in answers : a[1] \in Tasks /\ a[1] # t
    BY <1>1, <1>3 DEF TypeOK, Answers, Questions, Is
  <2> QED
    BY <1>1, <1>2, <1>3, <2>1 DEF Answers, loop
<1> QED
  BY <1>2, <1>4, <1>5, <1>6, <1>7, LedgerKeeps

LEMMA BegunIs ==
    ASSUME NEW L \in Ledgers, NEW S
    PROVE  /\ Begun(L, S) \in Ledgers
           /\ \A t \in Tasks : /\ t \in S => /\ Is(Begun(L, S), t, "running")
                                             /\ Begun(L, S).tasks[t].attempt = L.tasks[t].attempt
                                             /\ Begun(L, S).tasks[t].side = L.tasks[t].side
                                             /\ Begun(L, S).tasks[t].ask = L.tasks[t].ask
                               /\ t \notin S => Begun(L, S).tasks[t] = L.tasks[t]
<1> DEFINE b(t) == [L.tasks[t] EXCEPT !.status = "running", !.why = ""]
<1>1. ASSUME NEW t \in Tasks
      PROVE  /\ L.tasks[t] \in Attempt /\ b(t) \in Attempt /\ b(t).status = "running"
             /\ b(t).attempt = L.tasks[t].attempt /\ b(t).side = L.tasks[t].side
             /\ b(t).ask = L.tasks[t].ask
  <2>1. L.tasks[t] \in Attempt
    BY DEF Ledgers
  <2> QED
    BY <2>1 DEF Attempt, Statuses
<1> DEFINE f == [t \in Tasks |-> IF t \in S THEN b(t) ELSE L.tasks[t]]
<1>2. Begun(L, S) = [L EXCEPT !.tasks = f]
  BY DEF Begun
<1>3. f \in [Tasks -> Attempt]
  BY <1>1
<1>4. \A t \in Tasks : f[t] = IF t \in S THEN b(t) ELSE L.tasks[t]
  OBVIOUS
<1> HIDE DEF b, f
<1>5. Begun(L, S) \in Ledgers /\ Begun(L, S).tasks = f
  BY <1>2, <1>3 DEF Ledgers
<1> QED
  BY <1>1, <1>4, <1>5 DEF Is

\* Of two tasks that may be started together, one comes first in the plan's order.
LEMMA ReadyApart ==
    ASSUME NEW room, NEW S \in SUBSET Tasks, IsReady(ledger, held, room, S)
    PROVE  /\ \A t \in S : /\ Is(ledger, t, "pending") /\ t \notin held
                           /\ \A u \in held : {t, u} \notin Clash
           /\ \A t, u \in S : t # u => {t, u} \notin Clash
<1>1. \A t \in S : MayStart(ledger, held, t) /\ \A u \in Earlier(t, S) : Together(t, u)
  BY DEF IsReady
<1>2. ASSUME NEW t \in S, NEW u \in S, t # u PROVE {t, u} \notin Clash
  <2>1. PICK i \in DOMAIN Order, j \in DOMAIN Order : Order[i] = t /\ Order[j] = u
    BY LedgerAssumption DEF LedgerAssumption, Range
  <2>2. i \in Int /\ j \in Int /\ i # j
    BY <1>2, <2>1, LedgerAssumption DEF LedgerAssumption
  <2>3. t \in Earlier(u, S) \/ u \in Earlier(t, S)
    BY <2>1, <2>2 DEF Earlier
  <2>4. Together(t, u) \/ Together(u, t)
    BY <1>1, <2>3
  <2>5. {t, u} = {u, t}
    OBVIOUS
  <2> QED
    BY <2>4, <2>5 DEF Together
<1> QED
  BY <1>1, <1>2 DEF MayStart, Together

LEMMA ReadyKeeps == ASSUME BuildInv, Ready PROVE BuildInv'
<1> USE DEF Started, Collecting
<1>1. TypeOK /\ Places /\ Waited /\ Questions /\ Answers /\ ledger \in Ledgers /\ pc = "ready"
  BY DEF BuildInv, TypeOK, Ready
<1>2. CASE held = {} /\ stop
  <2>1. TypeOK' /\ Places'
    BY <1>1, <1>2 DEF Ready, TypeOK, Stages, Places, plan, counters
  <2> QED
    BY <1>1, <1>2, <2>1, StillKeeps DEF Ready
<1>3. CASE ~ (held = {} /\ stop)
  <2>1. PICK room \in Parallel, S \in SUBSET Tasks :
          /\ S = {} \/ IsReady(ledger, held, room - Cardinality(held), S)
          /\ Start(S)
    BY <1>3 DEF Ready
  <2>2. /\ \A t \in S : /\ Is(ledger, t, "pending") /\ t \notin held
                        /\ \A u \in held : {t, u} \notin Clash
        /\ \A t, u \in S : t # u => {t, u} \notin Clash
    BY <2>1, ReadyApart
  <2>3. /\ ledger' = Begun(ledger, S) /\ held' = held \cup S /\ workers' = workers \cup NewWorkers(S)
        /\ UNCHANGED <<plan, batch, cur, recon, stop, answers, counters>>
        /\ pc' \in {"waiting", "complete", "halted"} /\ (pc' # "waiting" => held' = {})
    BY <1>3, <2>1 DEF Ready, Start
  <2>4. /\ ledger' \in Ledgers
        /\ \A t \in Tasks : /\ t \in S => /\ Is(ledger', t, "running")
                                          /\ ledger'.tasks[t].attempt = ledger.tasks[t].attempt
                                          /\ ledger'.tasks[t].side = ledger.tasks[t].side
                                          /\ ledger'.tasks[t].ask = ledger.tasks[t].ask
                            /\ t \notin S => ledger'.tasks[t] = ledger.tasks[t]
    BY <1>1, <2>3, BegunIs
  <2>5. \A t \in Tasks : ledger.tasks[t].attempt \in Nat \ {0}
    <3>1. \A t \in Tasks : ledger.tasks[t] \in Attempt
      BY <1>1 DEF Ledgers
    <3> QED
      BY <3>1 DEF Attempt
  <2>6. \A w \in NewWorkers(S) : /\ w \in Worker /\ w.task \in S /\ w.stage = "begun"
                                 /\ w.attempt = ledger.tasks[w.task].attempt
    BY <2>5 DEF NewWorkers, Worker, Results
  <2>7. \A v, w \in NewWorkers(S) : v.task = w.task => v = w
    BY DEF NewWorkers
  <2>8. ASSUME NEW t \in S
        PROVE  \E w \in NewWorkers(S) : w.task = t /\ w.attempt = ledger.tasks[t].attempt
    <3> DEFINE n == [task |-> t, attempt |-> ledger.tasks[t].attempt, stage |-> "begun",
                     result |-> "none"]
    <3>1. n \in NewWorkers(S) /\ n.task = t /\ n.attempt = ledger.tasks[t].attempt
      BY DEF NewWorkers
    <3> QED
      BY <3>1
  <2>9. TypeOK'
    BY <1>1, <2>3, <2>4, <2>6 DEF TypeOK, Stages, plan, counters
  <2>10. Places'
    BY <1>1, <2>3 DEF Places
  <2>11. Waited'
    <3>1. HeldIsCurrent'
      <4> SUFFICES ASSUME NEW t \in held'
                   PROVE  Is(ledger', t, "running") /\ Mine(t)' # {}
        BY DEF HeldIsCurrent
      <4>1. CASE t \in S
        BY <2>3, <2>4, <2>8, <4>1 DEF Mine
      <4>2. CASE t \in held /\ t \notin S
        BY <1>1, <2>3, <2>4, <4>2 DEF TypeOK, Waited, HeldIsCurrent, Mine, Is
      <4> QED
        BY <2>3, <4>1, <4>2
    <3>2. \A t \in Tasks : Is(ledger', t, "running") => t \in held'
      BY <1>1, <2>3, <2>4 DEF Waited, Is
    <3> QED
      BY <3>1, <3>2 DEF Waited
  <2>12. AcceptedLanded' /\ Questions' /\ Answers'
    <3>1. \A t \in Tasks : Is(ledger', t, "accepted") => ledger'.tasks[t].side = "passed"
      BY <2>4 DEF BuildInv, AcceptedLanded, Is
    <3>2. \A t \in Tasks : ledger'.tasks[t].ask # "none" => Is(ledger', t, "blocked")
      BY <1>1, <2>2, <2>4 DEF Questions, Is
    <3>3. Answers'
      BY <1>1, <2>3, <2>4 DEF TypeOK, Answers
    <3> QED
      BY <3>1, <3>2, <3>3 DEF AcceptedLanded, Questions, Is
  <2>13. OneWorker(workers', ledger')
    <3>1. \A w \in workers : w.task \in Tasks /\ w.attempt \in Nat
      BY <1>1 DEF TypeOK, Worker
    <3>2. \A w \in workers : w.task \in S => w.attempt # ledger.tasks[w.task].attempt
      BY <2>2 DEF BuildInv, OneWorker
    <3>3. \A w \in workers' : /\ w.attempt <= ledger'.tasks[w.task].attempt
                              /\ w.attempt = ledger'.tasks[w.task].attempt => ~ Is(ledger', w.task, "pending")
      <4>1. \A w \in workers : /\ w.attempt <= ledger'.tasks[w.task].attempt
                               /\ w.attempt = ledger'.tasks[w.task].attempt => ~ Is(ledger', w.task, "pending")
        BY <2>4, <3>1 DEF BuildInv, OneWorker, Is
      <4>2. \A w \in NewWorkers(S) : /\ w.attempt <= ledger'.tasks[w.task].attempt
                                     /\ ~ Is(ledger', w.task, "pending")
        BY <2>4, <2>5, <2>6 DEF Is
      <4> QED
        BY <2>3, <4>1, <4>2
    <3>4. \A v, w \in workers' : v.task = w.task /\ v.attempt = w.attempt => v = w
      BY <2>3, <2>6, <2>7, <3>2 DEF BuildInv, OneWorker
    <3> QED
      BY <3>3, <3>4 DEF OneWorker
  <2>14. Landed(workers', ledger')
    <3>1. \A w \in NewWorkers(S) : ~ Passed(w)
      BY <2>6 DEF Passed
    <3>2. \A w \in workers : /\ ledger'.tasks[w.task].attempt = ledger.tasks[w.task].attempt
                             /\ ledger'.tasks[w.task].side = ledger.tasks[w.task].side
      BY <1>1, <2>4 DEF TypeOK, Worker
    <3> QED
      BY <2>3, <3>1, <3>2 DEF BuildInv, Landed
  <2>15. RunningApart'
    <3>1. \A t \in Tasks : Is(ledger', t, "running") => t \in S \/ (Is(ledger, t, "running") /\ t \in held)
      BY <1>1, <2>4 DEF Waited, Is
    <3>2. \A t, u : {t, u} = {u, t}
      OBVIOUS
    <3> SUFFICES ASSUME NEW t \in Tasks, NEW u \in Tasks, t # u,
                        Is(ledger', t, "running"), Is(ledger', u, "running")
                 PROVE  {t, u} \notin Clash
      BY DEF RunningApart, Is
    <3>3. CASE t \in S \/ u \in S
      BY <2>2, <3>1, <3>2, <3>3
    <3>4. CASE t \notin S /\ u \notin S
      BY <3>1, <3>4 DEF BuildInv, RunningApart
    <3> QED
      BY <3>3, <3>4
  <2> QED
    BY <2>9, <2>10, <2>11, <2>12, <2>13, <2>14, <2>15 DEF BuildInv
<1> QED
  BY <1>2, <1>3

\* What is recorded of a finished worker: its attempt is submitted, then accepted or blocked.
LEMMA RecordedIs ==
    ASSUME BuildInv, NEW w \in workers, w \in Mine(w.task), w.stage = "over",
           Is(ledger, w.task, "running"),
           NEW L \in {AfterSubmit(w.result, w.task), Outcome(w.result, w.task)}
    PROVE  /\ L \in Ledgers /\ L.tasks[w.task].ask = "none"
           /\ Change(ledger.tasks[w.task], L.tasks[w.task])
           /\ \A u \in Tasks \ {w.task} : L.tasks[u] = ledger.tasks[u]
           /\ L = Outcome(w.result, w.task) /\ w.result # "good" => Is(L, w.task, "blocked")
           /\ L = Outcome(w.result, w.task) => ~ Is(L, w.task, "running")
<1> DEFINE t == w.task
           r == ledger.tasks[t]
           A == AfterSubmit(w.result, t)
           B == Outcome(w.result, t)
<1>1. ledger \in Ledgers /\ t \in Tasks /\ r \in Attempt /\ r.ask = "none" /\ r.status = "running"
  BY DEF BuildInv, TypeOK, Ledgers, Worker, Questions, Is
<1>2. w.result = "good" => r.side = "passed"
  BY DEF BuildInv, Landed, Passed, Mine
<1>3. /\ OnlyAt(ledger, A, t) /\ A.tasks[t] \in Attempt
      /\ A.tasks[t].attempt = r.attempt /\ A.tasks[t].side = r.side /\ A.tasks[t].ask = "none"
      /\ A.tasks[t].status \in {"running", "finished"}
  <2>1. CASE A = ledger
    BY <1>1, <2>1 DEF OnlyAt
  <2>2. CASE A = Submitted(ledger, t)
    <3>1. OnlyAt(ledger, A, t) /\ A.tasks[t] = [r EXCEPT !.status = "finished", !.why = ""]
      BY <1>1, <2>2, SubmittedAt
    <3>2. A.tasks[t] \in Attempt
      BY <1>1, <3>1 DEF OnlyAt, Ledgers
    <3> QED
      BY <1>1, <3>1, <3>2 DEF Attempt
  <2> QED
    BY <2>1, <2>2 DEF AfterSubmit
<1>4. A \in Ledgers
  BY <1>3 DEF OnlyAt
<1>5. CASE w.result = "good"
  <2>1. B = Accepted(A, t)
    BY <1>5 DEF Outcome
  <2>2. OnlyAt(A, B, t) /\ (B.tasks[t] = [A.tasks[t] EXCEPT !.status = "accepted"] \/ Renewed(A.tasks[t], B.tasks[t]))
    BY <1>1, <1>4, <2>1, AcceptedAt
  <2> HIDE DEF A, B
  <2>3. Ended(r, B.tasks[t]) \/ Renewed(r, B.tasks[t])
    BY <1>1, <1>2, <1>3, <1>5, <2>2 DEF Attempt, Ended, Renewed
  <2>4. B.tasks[t].ask = "none" /\ B.tasks[t].status # "running"
    BY <1>1, <2>3 DEF Ended, Renewed
  <2>5. Change(r, A.tasks[t])
    BY <1>1, <1>3 DEF Change, Alike, Ended
  <2>6. B \in Ledgers /\ \A u \in Tasks \ {t} : B.tasks[u] = ledger.tasks[u] /\ A.tasks[u] = ledger.tasks[u]
    BY <1>3, <2>2 DEF OnlyAt
  <2> QED
    BY <1>3, <1>4, <1>5, <2>3, <2>4, <2>5, <2>6 DEF A, B, Change, Is
<1>6. CASE w.result # "good"
  <2>1. PICK why \in {"work", "machinery"} : B = Blocked(A, t, why)
    BY <1>6 DEF Outcome
  <2> HIDE DEF A, B
  <2>2. OnlyAt(A, B, t) /\ B.tasks[t] = [A.tasks[t] EXCEPT !.status = "blocked", !.why = why]
    <3>1. why \in {"work", "machinery", "skipped"}
      OBVIOUS
    <3> QED
      BY <1>1, <1>4, <2>1, <3>1, BlockedAt, ZenonT(60)
  <2>3. Ended(r, B.tasks[t]) /\ B.tasks[t].ask = "none" /\ B.tasks[t].status = "blocked"
    BY <1>1, <1>3, <2>2 DEF Attempt, Ended
  <2>4. Change(r, A.tasks[t])
    BY <1>1, <1>3 DEF Change, Alike, Ended
  <2>5. B \in Ledgers /\ \A u \in Tasks \ {t} : B.tasks[u] = ledger.tasks[u] /\ A.tasks[u] = ledger.tasks[u]
    BY <1>3, <2>2 DEF OnlyAt
  <2> QED
    BY <1>3, <1>4, <2>3, <2>4, <2>5 DEF A, B, Change, Is
<1> QED
  BY <1>5, <1>6

LEMMA RecordKeeps == ASSUME BuildInv, NEW w \in workers, Record(w) \/ TornRecord(w) PROVE BuildInv'
<1> USE DEF Started, Collecting
<1> DEFINE t == w.task
<1>1. TypeOK /\ Places /\ Waited /\ Answers
  BY DEF BuildInv
<1>2. t \in batch /\ w \in Mine(t) /\ w.stage = "over" /\ Is(ledger, t, "running") /\ pc = "record"
  BY DEF Record, TornRecord
<1>3. t \in held /\ t \in Tasks
  BY <1>1, <1>2 DEF TypeOK
<1>4. ASSUME NEW L \in {AfterSubmit(w.result, w.task), Outcome(w.result, w.task)}, ledger' = L
      PROVE  ledger' \in Ledgers /\ \A u \in Tasks : Change(ledger.tasks[u], ledger'.tasks[u])
  <2>1. /\ ledger' \in Ledgers /\ Change(ledger.tasks[t], ledger'.tasks[t])
        /\ \A u \in Tasks \ {t} : ledger'.tasks[u] = ledger.tasks[u]
    BY <1>2, <1>4, RecordedIs
  <2>2. \A u \in Tasks \ {t} : Change(ledger.tasks[u], ledger'.tasks[u])
    BY <2>1 DEF Change, Alike
  <2> QED
    BY <2>1, <2>2
<1>5. CASE TornRecord(w)
  BY <1>4, <1>5, DeathKeeps DEF TornRecord
<1>6. CASE Record(w)
  <2>1. ledger' \in Ledgers /\ \A u \in Tasks : Change(ledger.tasks[u], ledger'.tasks[u])
    BY <1>4, <1>6 DEF Record
  <2>2. /\ ledger'.tasks[t].ask = "none" /\ ~ Is(ledger', t, "running")
        /\ w.result # "good" => Is(ledger', t, "blocked")
        /\ \A u \in Tasks \ {t} : ledger'.tasks[u] = ledger.tasks[u]
    BY <1>2, <1>6, RecordedIs DEF Record
  <2>3. /\ held' = held \ {t} /\ batch' = batch \ {t} /\ cur' = {t} /\ workers' = workers \ {w}
        /\ pc' = IF w.result = "good" THEN "hook" ELSE "repair"
        /\ UNCHANGED <<plan, recon, stop, answers, counters>>
    BY <1>6 DEF Record
  <2>4. TypeOK'
    BY <1>1, <1>3, <2>1, <2>3 DEF TypeOK, Stages, plan, counters
  <2>5. Places'
    BY <1>1, <1>2, <2>3 DEF Places
  <2>6. Waited'
    <3>1. \A u \in held \ {t} : u \in Tasks /\ Mine(u)' # {} /\ Is(ledger', u, "running")
      BY <1>1, <2>2, <2>3 DEF TypeOK, Waited, HeldIsCurrent, Mine, Is
    <3>2. \A u \in Tasks : Is(ledger', u, "running") => u \in held \ {t}
      BY <1>1, <1>2, <2>2 DEF Waited, Is
    <3> QED
      BY <2>3, <3>1, <3>2 DEF Waited, HeldIsCurrent
  <2>7. Answers'
    <3>1. \A a \in answers : a[1] \in Tasks /\ a[1] # t
      BY <1>1, <1>2 DEF BuildInv, TypeOK, Answers, Questions, Is
    <3>2. /\ \A a \in answers' : ledger'.tasks[a[1]].ask = "resolved"
          /\ \A a, b \in answers' : a[1] = b[1] => a = b
      BY <1>1, <2>2, <2>3, <3>1 DEF Answers
    <3>3. pc' = "repair" => Is(ledger', t, "blocked")
      BY <2>2, <2>3
    <3> QED
      BY <2>2, <2>3, <3>2, <3>3 DEF Answers, Is
  <2> QED
    BY <2>1, <2>3, <2>4, <2>5, <2>6, <2>7, LedgerKeeps
<1> QED
  BY <1>5, <1>6

LEMMA RepairKeeps == ASSUME BuildInv, NEW t \in Tasks, Repair(t) PROVE BuildInv'
<1> USE DEF Started, Collecting
<1>1. TypeOK /\ Places /\ Waited /\ Answers /\ ledger \in Ledgers
  BY DEF BuildInv, TypeOK
<1>2. /\ pc = "repair" /\ t \in cur /\ pc' = "hook" /\ Is(ledger, t, "blocked")
      /\ ledger.tasks[t].ask = "none"
      /\ UNCHANGED <<plan, held, batch, cur, recon, stop, workers, answers, counters>>
  BY <1>1 DEF Repair, Answers
<1>3. /\ ledger' \in Ledgers /\ (ledger' = ledger \/ Renewed(ledger.tasks[t], ledger'.tasks[t]))
      /\ \A u \in Tasks \ {t} : ledger'.tasks[u] = ledger.tasks[u]
  BY <1>1, RetriedAt DEF Repair, OnlyAt
<1>4. \A u \in Tasks : Change(ledger.tasks[u], ledger'.tasks[u])
  <2>1. \A u \in Tasks \ {t} : Change(ledger.tasks[u], ledger'.tasks[u])
    BY <1>3 DEF Change, Alike
  <2>2. Change(ledger.tasks[t], ledger'.tasks[t])
    BY <1>3 DEF Change, Alike
  <2> QED
    BY <2>1, <2>2
<1>5. TypeOK' /\ Places'
  <2>1. TypeOK'
    BY <1>1, <1>2, <1>3 DEF TypeOK, Stages, plan, counters
  <2>2. Places'
    BY <1>1, <1>2 DEF Places
  <2> QED
    BY <2>1, <2>2
<1>6. Waited'
  <2>1. \A u \in Tasks : Is(ledger', u, "running") => Is(ledger, u, "running")
    BY <1>3 DEF Renewed, Is
  <2>2. \A u \in held : u \in Tasks /\ u # t
    BY <1>1, <1>2 DEF TypeOK, Waited, HeldIsCurrent, Is
  <2> QED
    BY <1>1, <1>2, <1>3, <2>1, <2>2 DEF Waited, HeldIsCurrent, Mine, Is
<1>7. Answers'
  <2>1. \A a \in answers : a[1] \in Tasks /\ a[1] # t
    BY <1>1, <1>2 DEF TypeOK, Answers
  <2>2. \A u \in cur : u \in Tasks /\ ledger'.tasks[u].ask = "none"
    BY <1>1, <1>2, <1>3 DEF TypeOK, Answers, Renewed
  <2> QED
    BY <1>1, <1>2, <1>3, <2>1, <2>2 DEF Answers
<1> QED
  BY <1>2, <1>4, <1>5, <1>6, <1>7, LedgerKeeps

\* The loop goes on waiting for what it waited for.
LEMMA WaitedStands ==
    ASSUME BuildInv, UNCHANGED <<held, workers>>,
           \A t \in Tasks : Is(ledger, t, "running") => ledger'.tasks[t] = ledger.tasks[t],
           \A t \in Tasks : Is(ledger', t, "running") => Is(ledger, t, "running"),
           pc' \in Started \/ (pc' = "top" /\ recon') => pc \in Started \/ (pc = "top" /\ recon)
    PROVE  Waited'
<1>1. \A t \in held : t \in Tasks
  BY DEF BuildInv, TypeOK
<1> QED
  BY <1>1 DEF BuildInv, Waited, HeldIsCurrent, Mine, Is

LEMMA HookKeeps == ASSUME BuildInv, NEW t \in Tasks, Hook(t) PROVE BuildInv'
<1> USE DEF Started, Collecting
<1> DEFINE M == Sync(ledger)
<1>1. TypeOK /\ Places /\ Answers /\ ledger \in Ledgers
  BY DEF BuildInv, TypeOK
<1>2. /\ pc = "hook" /\ t \in cur /\ ledger.tasks[t].ask = "none"
      /\ cur' = {} /\ pc' = (IF batch = {} THEN "top" ELSE "record")
      /\ UNCHANGED <<plan, held, batch, recon, stop, workers, answers, counters>>
  BY <1>1 DEF Hook, Answers
<1>3. /\ M \in Ledgers
      /\ \A u \in Tasks :
            /\ Change(ledger.tasks[u], M.tasks[u])
            /\ Is(ledger, u, "running") \/ Is(ledger, u, "blocked") => M.tasks[u] = ledger.tasks[u]
            /\ Is(M, u, "running") => Is(ledger, u, "running")
  BY SyncChanges DEF Sync
<1> HIDE DEF M
<1>4. \/ ledger' \in {ledger, M}
      \/ Is(ledger, t, "blocked") /\ \E ask \in {"open", "posted"} : ledger' = Asked(M, t, ask)
  BY DEF Hook, ForAPerson, M
<1> DEFINE Good(u) ==
        /\ Change(ledger.tasks[u], ledger'.tasks[u])
        /\ Is(ledger, u, "running") => ledger'.tasks[u] = ledger.tasks[u]
        /\ Is(ledger, u, "blocked") /\ u # t => ledger'.tasks[u] = ledger.tasks[u]
        /\ Is(ledger', u, "running") => Is(ledger, u, "running")
<1>5. ledger' \in Ledgers /\ \A u \in Tasks : Good(u)
  <2>1. CASE ledger' = ledger
    BY <1>1, <2>1 DEF Change, Alike
  <2>2. CASE ledger' = M
    BY <1>3, <2>2
  <2>3. ASSUME NEW ask \in {"open", "posted"}, ledger' = Asked(M, t, ask), Is(ledger, t, "blocked")
        PROVE  ledger' \in Ledgers /\ \A u \in Tasks : Good(u)
    <3>1. /\ OnlyAt(M, ledger', t)
          /\ \E a \in {"open", "posted"} : ledger'.tasks[t] = [M.tasks[t] EXCEPT !.ask = a]
      BY <1>3, <2>3, AskedAt
    <3>2. M.tasks[t] = ledger.tasks[t] /\ ledger.tasks[t] \in Attempt
      BY <1>1, <1>3, <2>3 DEF Ledgers
    <3>3. AskMoves(ledger.tasks[t], ledger'.tasks[t])
      <4>1. PICK a \in {"open", "posted"} : ledger'.tasks[t] = [ledger.tasks[t] EXCEPT !.ask = a]
        BY <3>1, <3>2
      <4> QED
        BY <2>3, <3>2, <4>1 DEF AskMoves, Attempt, Is
    <3>4. \A u \in Tasks \ {t} : Good(u)
      BY <1>3, <3>1 DEF OnlyAt, Is
    <3>5. Good(t)
      BY <2>3, <3>3 DEF Change, AskMoves, Is
    <3> QED
      BY <3>1, <3>4, <3>5 DEF OnlyAt
  <2> QED
    BY <1>4, <2>1, <2>2, <2>3
<1>6. TypeOK'
  BY <1>1, <1>2, <1>5 DEF TypeOK, Stages, plan, counters
<1>7. Places'
  BY <1>1, <1>2 DEF Places
<1>8. Waited'
  BY <1>2, <1>5, WaitedStands
<1>9. Answers'
  <2>1. \A a \in answers : a[1] \in Tasks /\ a[1] # t /\ Is(ledger, a[1], "blocked")
    BY <1>1, <1>2 DEF BuildInv, TypeOK, Answers, Questions
  <2> QED
    BY <1>1, <1>2, <1>5, <2>1 DEF Answers
<1> QED
  BY <1>2, <1>5, <1>6, <1>7, <1>8, <1>9, LedgerKeeps

LEMMA ReplyKeeps ==
    ASSUME BuildInv, NEW t \in Tasks, NEW c \in {"retry", "skip"}, Reply(t, c)
    PROVE  BuildInv'
<1> DEFINE M == Sync(ledger)
<1>1. TypeOK /\ Places /\ Answers /\ Questions /\ ledger \in Ledgers
  BY DEF BuildInv, TypeOK
<1>2. /\ ledger.tasks[t].ask = "posted" /\ Is(ledger, t, "blocked")
      /\ ledger' = [M EXCEPT !.tasks[t].ask = "resolved"]
      /\ answers' = answers \cup {<<t, c>>} /\ replies' = replies + 1
      /\ UNCHANGED <<plan, loop, workers, faults>> /\ pc # "down"
  BY <1>1 DEF Reply, Questions
<1>3. /\ M \in Ledgers
      /\ \A u \in Tasks :
            /\ Change(ledger.tasks[u], M.tasks[u])
            /\ Is(ledger, u, "running") \/ Is(ledger, u, "blocked") => M.tasks[u] = ledger.tasks[u]
            /\ Is(M, u, "running") => Is(ledger, u, "running")
  BY SyncChanges DEF Sync
<1> HIDE DEF M
<1> DEFINE q == [M.tasks[t] EXCEPT !.ask = "resolved"]
<1>4. M.tasks[t] = ledger.tasks[t] /\ ledger.tasks[t] \in Attempt
  BY <1>1, <1>2, <1>3 DEF Ledgers
<1>5. q \in Attempt /\ AskMoves(ledger.tasks[t], q) /\ q.ask = "resolved"
  BY <1>2, <1>4 DEF Attempt, AskMoves, Is
<1>6. ledger' = Written(M, t, q)
  BY <1>2, <1>3 DEF Written, Ledgers
<1> HIDE DEF q
<1>7. OnlyAt(M, ledger', t) /\ ledger'.tasks[t] = q
  BY <1>3, <1>5, <1>6, WrittenAt
<1>8. /\ ledger' \in Ledgers
      /\ \A u \in Tasks :
            /\ Change(ledger.tasks[u], ledger'.tasks[u])
            /\ Is(ledger, u, "running") => ledger'.tasks[u] = ledger.tasks[u]
            /\ Is(ledger, u, "blocked") /\ u # t => ledger'.tasks[u] = ledger.tasks[u]
            /\ Is(ledger', u, "running") => Is(ledger, u, "running")
  BY <1>2, <1>3, <1>5, <1>7 DEF OnlyAt, Change, AskMoves, Is
<1>9. TypeOK'
  <2>1. replies' \in Nat /\ answers' \subseteq Tasks \X {"retry", "skip"}
    BY <1>1, <1>2 DEF TypeOK
  <2> QED
    BY <1>1, <1>2, <1>8, <2>1 DEF TypeOK, plan, loop
<1>10. Places'
  BY <1>1, <1>2 DEF Places, loop
<1>11. Waited'
  BY <1>2, <1>8, WaitedStands DEF loop
<1>12. Answers'
  <2>1. \A a \in answers : a[1] \in Tasks /\ a[1] # t /\ Is(ledger, a[1], "blocked")
    BY <1>1, <1>2 DEF TypeOK, Answers, Questions
  <2>2. pc \in {"repair", "hook"} => \A u \in cur : u \in Tasks \ {t} /\ ledger.tasks[u].ask = "none"
    BY <1>1, <1>2 DEF TypeOK, Answers
  <2>3. \A u \in Tasks \ {t} : ledger.tasks[u].ask = "none" => ledger'.tasks[u].ask = "none"
    BY <1>8 DEF Change, Alike, Renewed, Ended, AskMoves, SideMoves, Is
  <2>4. /\ \A a \in answers' : ledger'.tasks[a[1]].ask = "resolved"
        /\ \A a, b \in answers' : a[1] = b[1] => a = b
    BY <1>1, <1>2, <1>5, <1>7, <1>8, <2>1 DEF Answers
  <2> QED
    <3>1. UNCHANGED <<pc, cur>>
      BY <1>2 DEF loop
    <3>2. pc' \in {"repair", "hook"} => \A u \in cur' : ledger'.tasks[u].ask = "none"
      BY <2>2, <2>3, <3>1
    <3>3. pc' = "repair" => \A u \in cur' : Is(ledger', u, "blocked")
      <4>1. pc = "repair" => \A u \in cur : u \in Tasks \ {t} /\ Is(ledger, u, "blocked")
        BY <1>1, <2>2 DEF Answers
      <4> QED
        BY <1>8, <3>1, <4>1 DEF Is
    <3> QED
      BY <2>4, <3>2, <3>3 DEF Answers, Is
<1> QED
  BY <1>2, <1>8, <1>9, <1>10, <1>11, <1>12, LedgerKeeps

LEMMA ApplyKeeps == ASSUME BuildInv, NEW a \in answers, Apply(a) PROVE BuildInv'
<1> USE DEF Started, Collecting
<1> DEFINE t == a[1]
           M == Sync(ledger)
<1>1. TypeOK /\ Places /\ Waited /\ Answers /\ Questions /\ ledger \in Ledgers
  BY DEF BuildInv, TypeOK
<1>2. t \in Tasks /\ Is(ledger, t, "blocked") /\ ledger.tasks[t].ask = "resolved"
  BY <1>1 DEF TypeOK, Answers, Questions
<1>3. /\ answers' = answers \ {a} /\ UNCHANGED <<plan, held, batch, cur, workers, counters>>
      /\ pc # "down" /\ pc \notin {"closed", "complete"}
      /\ \/ UNCHANGED <<pc, recon, stop>>
         \/ pc = "parked" /\ pc' = "top" /\ recon' = FALSE /\ stop' = FALSE
  BY DEF Apply, Wakes, Alive
<1>4. /\ M \in Ledgers
      /\ \A u \in Tasks :
            /\ Change(ledger.tasks[u], M.tasks[u])
            /\ Is(ledger, u, "running") \/ Is(ledger, u, "blocked") => M.tasks[u] = ledger.tasks[u]
            /\ Is(M, u, "running") => Is(ledger, u, "running")
  BY SyncChanges DEF Sync
<1> HIDE DEF M
<1>5. ledger' = ledger \/ ledger' = Answered(M, t, a[2])
  BY DEF Apply, M
<1> DEFINE Good(u) ==
        /\ Change(ledger.tasks[u], ledger'.tasks[u])
        /\ Is(ledger, u, "running") => ledger'.tasks[u] = ledger.tasks[u]
        /\ Is(ledger, u, "blocked") /\ u # t => ledger'.tasks[u] = ledger.tasks[u]
        /\ Is(ledger', u, "running") => Is(ledger, u, "running")
<1>6. ledger' \in Ledgers /\ \A u \in Tasks : Good(u)
  <2>1. CASE ledger' = ledger
    BY <1>1, <2>1 DEF Change, Alike
  <2>2. CASE ledger' = Answered(M, t, a[2])
    <3>1. M.tasks[t] = ledger.tasks[t] /\ ledger.tasks[t] \in Attempt
      BY <1>1, <1>2, <1>4 DEF Ledgers
    <3>2. /\ OnlyAt(M, ledger', t)
          /\ \/ ledger'.tasks[t] = [ledger.tasks[t] EXCEPT !.status = "blocked", !.why = "skipped"]
             \/ Renewed(ledger.tasks[t], ledger'.tasks[t])
      <4>1. CASE a[2] = "skip"
        <5>1. ledger' = Blocked(M, t, "skipped")
          BY <2>2, <4>1 DEF Answered
        <5>2. /\ OnlyAt(M, Blocked(M, t, "skipped"), t)
              /\ Blocked(M, t, "skipped").tasks[t]
                     = [M.tasks[t] EXCEPT !.status = "blocked", !.why = "skipped"]
          BY <1>2, <1>4, BlockedAt
        <5> QED
          BY <3>1, <5>1, <5>2
      <4>2. CASE a[2] # "skip"
        <5>1. ledger' = Retried(M, t)
          BY <2>2, <4>2 DEF Answered
        <5> QED
          BY <1>2, <1>4, <3>1, <5>1, RetriedAt
      <4> QED
        BY <4>1, <4>2
    <3>3. AskMoves(ledger.tasks[t], ledger'.tasks[t]) \/ Renewed(ledger.tasks[t], ledger'.tasks[t])
      BY <1>2, <3>1, <3>2 DEF AskMoves, Attempt, Is
    <3>4. \A u \in Tasks \ {t} : Good(u)
      BY <1>4, <3>2 DEF OnlyAt, Is
    <3>5. Good(t)
      BY <1>2, <3>3 DEF Change, AskMoves, Renewed, Is
    <3> QED
      BY <3>2, <3>4, <3>5 DEF OnlyAt
  <2> QED
    BY <1>5, <2>1, <2>2
<1>7. TypeOK'
  BY <1>1, <1>3, <1>6 DEF TypeOK, Stages, plan, counters
<1>8. Places'
  BY <1>1, <1>3 DEF Places
<1>9. Waited'
  BY <1>3, <1>6, WaitedStands
<1>10. Answers'
  <2>1. \A b \in answers' : b[1] \in Tasks \ {t} /\ Is(ledger, b[1], "blocked") /\ ledger.tasks[b[1]].ask = "resolved"
    BY <1>1, <1>3 DEF TypeOK, Answers, Questions
  <2>2. pc' \in {"repair", "hook"} => \A u \in cur' : u \in Tasks \ {t} /\ ledger.tasks[u].ask = "none"
    BY <1>1, <1>2, <1>3 DEF TypeOK, Answers
  <2>3. \A u \in Tasks \ {t} : ledger.tasks[u].ask = "none" => ledger'.tasks[u].ask = "none"
    BY <1>6 DEF Change, Alike, Renewed, Ended, AskMoves, SideMoves, Is
  <2>4. pc' = "repair" => \A u \in cur' : u \in Tasks \ {t} /\ Is(ledger, u, "blocked")
    BY <1>1, <1>3, <2>2 DEF Answers
  <2>5. \A b \in answers' : ledger'.tasks[b[1]].ask = "resolved"
    BY <1>6, <2>1
  <2>6. \A b, c \in answers' : b[1] = c[1] => b = c
    BY <1>1, <1>3 DEF Answers
  <2>7. pc' \in {"repair", "hook"} => \A u \in cur' : ledger'.tasks[u].ask = "none"
    BY <2>2, <2>3
  <2>8. pc' = "repair" => \A u \in cur' : Is(ledger', u, "blocked")
    BY <1>6, <2>4 DEF Is
  <2> QED
    BY <2>5, <2>6, <2>7, <2>8 DEF Answers, Is
<1> QED
  BY <1>3, <1>6, <1>7, <1>8, <1>9, <1>10, LedgerKeeps

\* Steps of a worker: what runs, what is blocked and what is asked stay as they are, and
\* the loop does not move.
LEMMA WorkerKeeps ==
    ASSUME BuildInv, ledger' \in Ledgers, UNCHANGED <<plan, loop, answers, counters>>,
           \A t \in Tasks :
              /\ Change(ledger.tasks[t], ledger'.tasks[t])
              /\ Is(ledger, t, "running") \/ Is(ledger, t, "blocked")
                    => SideOnly(ledger.tasks[t], ledger'.tasks[t])
              /\ Is(ledger', t, "running") => Is(ledger, t, "running"),
           workers' \subseteq Worker, OneWorker(workers', ledger'), Landed(workers', ledger'),
           \A t \in held : Mine(t) # {} =>
               \E v \in workers' : v.task = t /\ v.attempt = ledger.tasks[t].attempt,
           pc = "down" => workers' = {}
    PROVE  BuildInv'
<1> USE DEF Started, Collecting
<1>1. TypeOK /\ Places /\ Waited /\ Answers
  BY DEF BuildInv
<1>2. TypeOK' /\ Places'
  BY <1>1 DEF TypeOK, Places, plan, loop, counters
<1>3. Waited'
  <2>1. UNCHANGED <<held, pc, recon>>
    BY DEF loop
  <2>2. HeldIsCurrent'
    <3> SUFFICES ASSUME NEW t \in held' PROVE Is(ledger', t, "running") /\ Mine(t)' # {}
      BY DEF HeldIsCurrent
    <3>1. t \in held /\ t \in Tasks /\ Is(ledger, t, "running") /\ Mine(t) # {}
      BY <1>1, <2>1 DEF TypeOK, Waited, HeldIsCurrent
    <3>2. SideOnly(ledger.tasks[t], ledger'.tasks[t])
      BY <3>1
    <3> QED
      BY <3>1, <3>2 DEF SideOnly, Mine, Is
  <2> QED
    BY <1>1, <2>1, <2>2 DEF Waited
<1>4. Answers'
  <2>1. UNCHANGED <<pc, cur, answers>>
    BY DEF loop
  <2>2. \A a \in answers : a[1] \in Tasks /\ Is(ledger, a[1], "blocked")
    BY <1>1 DEF BuildInv, TypeOK, Answers, Questions
  <2>3. \A t \in Tasks : ledger.tasks[t].ask = "none" => ledger'.tasks[t].ask = "none"
    BY DEF Change, Alike, Renewed, Ended, AskMoves, SideMoves, SideOnly, Is
  <2>4. \A t \in Tasks : Is(ledger, t, "blocked") => Is(ledger', t, "blocked") /\ ledger'.tasks[t].ask = ledger.tasks[t].ask
    BY DEF SideOnly, Is
  <2>5. \A t \in cur : t \in Tasks
    BY <1>1 DEF TypeOK
  <2> QED
    BY <1>1, <2>1, <2>2, <2>3, <2>4, <2>5 DEF Answers, Is
<1>5. AcceptedLanded' /\ Questions'
  BY ChangeKeeps DEF AcceptedLanded, Questions, Is
<1>6. RunningApart'
  BY DEF BuildInv, RunningApart, Is
<1> QED
  BY <1>2, <1>3, <1>4, <1>5, <1>6 DEF BuildInv

LEMMA BriefKeeps ==
    ASSUME BuildInv, NEW w \in workers, Brief(w) \/ Fail(w) \/ Review(w)
    PROVE  BuildInv'
<1>1. ledger \in Ledgers /\ (pc = "down" => workers = {})
  BY DEF BuildInv, TypeOK, Places
<1>2. /\ ledger' \in Ledgers
      /\ \A t \in Tasks :
            /\ Change(ledger.tasks[t], ledger'.tasks[t])
            /\ Is(ledger, t, "running") \/ Is(ledger, t, "blocked")
                  => SideOnly(ledger.tasks[t], ledger'.tasks[t])
            /\ Is(ledger', t, "running") => Is(ledger, t, "running")
  <2>1. CASE ledger' = ledger
    BY <1>1, <2>1 DEF Change, Alike, SideOnly
  <2>2. CASE ledger' = Sync(ledger)
    BY <2>2, SyncChanges DEF Sync, SideOnly
  <2> QED
    BY <2>1, <2>2 DEF Brief, Fail, Review
<1>3. PICK stage \in {"working", "landed", "over"}, result \in Results :
        /\ Move(w, stage, result)
        /\ stage # "landed" /\ (result = "good" => w.stage = "landed")
  BY DEF Brief, Fail, Review, Results
<1>4. OneWorker(workers, ledger') /\ Landed(workers, ledger')
  BY <1>2, ChangeKeeps
<1>5. w.attempt = ledger'.tasks[w.task].attempt /\ Passed(Turned(w, stage, result))
          => ledger'.tasks[w.task].side = "passed"
  <2>1. w \in Worker
    BY DEF BuildInv, TypeOK
  <2>2. Turned(w, stage, result).stage = stage /\ Turned(w, stage, result).result = result
    BY <2>1 DEF Turned, Worker
  <2>3. Passed(Turned(w, stage, result)) => Passed(w)
    BY <1>3, <2>2 DEF Passed
  <2> QED
    BY <1>4, <2>3 DEF Landed
<1>6. /\ workers' \subseteq Worker /\ OneWorker(workers', ledger') /\ Landed(workers', ledger')
      /\ \A t \in held : Mine(t) # {} =>
             \E v \in workers' : v.task = t /\ v.attempt = ledger.tasks[t].attempt
  BY <1>2, <1>3, <1>4, <1>5, MoveKeeps
<1> QED
  BY <1>1, <1>2, <1>6, WorkerKeeps DEF Brief, Fail, Review

LEMMA CommitKeeps ==
    ASSUME BuildInv, NEW w \in workers, Commit(w) \/ Merge(w)
    PROVE  BuildInv'
<1> DEFINE t == w.task
<1>1. ledger \in Ledgers /\ t \in Tasks /\ w \in Worker /\ (pc = "down" => workers = {})
  BY DEF BuildInv, TypeOK, Places, Worker
<1>2. PICK side \in {"work", "passed", "gone"} : ledger' = Sided(ledger, t, side)
  BY DEF Commit, Merge
<1>3. /\ ledger.tasks[t].side # "passed" /\ w.attempt = ledger.tasks[t].attempt
      /\ UNCHANGED <<plan, loop, answers, counters>>
  BY DEF Commit, Merge, MayMerge, Mine
<1>4. /\ OnlyAt(ledger, ledger', t) /\ ledger'.tasks[t].side = side
      /\ SideOnly(ledger.tasks[t], ledger'.tasks[t])
  <2>1. side \in {"clean", "work", "merged", "gone", "passed"}
    OBVIOUS
  <2> QED
    BY <1>1, <1>2, <2>1, SidedAt
<1>5. /\ ledger' \in Ledgers
      /\ \A u \in Tasks :
            /\ Change(ledger.tasks[u], ledger'.tasks[u])
            /\ Is(ledger, u, "running") \/ Is(ledger, u, "blocked")
                  => SideOnly(ledger.tasks[u], ledger'.tasks[u])
            /\ Is(ledger', u, "running") => Is(ledger, u, "running")
  <2>1. \A u \in Tasks \ {t} : Alike(ledger.tasks[u], ledger'.tasks[u])
    BY <1>4 DEF OnlyAt, Alike
  <2>2. SideMoves(ledger.tasks[t], ledger'.tasks[t])
    BY <1>3, <1>4 DEF SideMoves, SideOnly
  <2> QED
    BY <1>4, <2>1, <2>2 DEF OnlyAt, Change, Alike, SideMoves, SideOnly, Is
<1>6. OneWorker(workers, ledger') /\ Landed(workers, ledger')
  BY <1>5, ChangeKeeps
<1>7. /\ workers' \subseteq Worker /\ OneWorker(workers', ledger') /\ Landed(workers', ledger')
      /\ \A u \in held : Mine(u) # {} =>
             \E v \in workers' : v.task = u /\ v.attempt = ledger.tasks[u].attempt
  <2>1. CASE Commit(w)
    BY <1>6, <2>1 DEF Commit, BuildInv, TypeOK, Mine
  <2>2. CASE Merge(w)
    <3>1. PICK stage \in {"landed", "over"}, result \in {"none", "rejected"} :
            Move(w, stage, result) /\ (stage = "landed" => ledger'.tasks[t].side = "passed")
      <4>1. CASE ledger' = Sided(ledger, t, "passed") /\ Move(w, "landed", "none")
        BY <1>1, <4>1, SidedAt
      <4>2. CASE Move(w, "over", "rejected")
        BY <4>2
      <4> QED
        BY <2>2, <4>1, <4>2 DEF Merge
    <3>2. Turned(w, stage, result).stage = stage /\ Turned(w, stage, result).result = result
      BY <1>1 DEF Turned, Worker
    <3>3. Passed(Turned(w, stage, result)) => ledger'.tasks[t].side = "passed"
      BY <3>1, <3>2 DEF Passed
    <3>4. stage \in {"working", "landed", "over"} /\ result \in Results
      BY DEF Results
    <3> QED
      BY <1>5, <1>6, <3>1, <3>3, <3>4, MoveKeeps
  <2> QED
    BY <2>1, <2>2
<1>8. pc = "down" => workers' = {}
  BY <1>1
<1> QED
  BY <1>3, <1>5, <1>7, <1>8, WorkerKeeps

LEMMA BuildStep == BuildInv /\ [Next]_vars => BuildInv'
<1> SUFFICES ASSUME BuildInv, [Next]_vars PROVE BuildInv'
  OBVIOUS
<1>1. CASE LoopStep
  BY <1>1, LoopKeeps, TopKeeps, ReadyKeeps, ReconcileKeeps, RepairKeeps, HookKeeps, RecordKeeps
  DEF LoopStep
<1>2. CASE WorkerStep
  BY <1>2, BriefKeeps, CommitKeeps DEF WorkerStep
<1>3. CASE CogStep
  BY <1>3, LoopKeeps, ReplyKeeps, ApplyKeeps DEF CogStep
<1>4. CASE Fault
  BY <1>4, CrashKeeps, TornMergeKeeps, PlanKeeps, RecordKeeps DEF Fault
<1>5. CASE Restart \/ \E p \in Plans : Edit(p)
  BY <1>5, RestartKeeps, PlanKeeps
<1>6. CASE UNCHANGED vars
  <2>1. UNCHANGED <<ledger, workers, answers, file, readable, pc, held, batch, cur, recon, stop,
                    replies, faults>>
    BY <1>6 DEF vars, plan, loop, counters
  <2>2. TypeOK' /\ Places'
    BY <2>1 DEF BuildInv, TypeOK, Places
  <2>3. pc' \in Started \/ (pc' = "top" /\ recon') => pc \in Started \/ (pc = "top" /\ recon)
    BY <2>1
  <2> QED
    BY <2>1, <2>2, <2>3, StillKeeps
<1> QED
  BY <1>1, <1>2, <1>3, <1>4, <1>5, <1>6 DEF Next

-----------------------------------------------------------------------------
(* The theorems.                                                           *)

\* Ledger, plan, loop and workers keep their shapes, whatever dies, is edited or answered.
THEOREM TypeCorrect == Spec => []TypeOK
<1>1. BuildInv => TypeOK
  BY DEF BuildInv
<1> QED
  BY <1>1, InitBuild, BuildStep, PTL DEF Spec

\* What the loop waits for is the attempt of the ledger, and runs: no answer, no plan edit,
\* no restart and no earlier worker takes an attempt from under its worker.
THEOREM HeldStaysCurrent == Spec => []HeldIsCurrent
<1>1. BuildInv => HeldIsCurrent
  BY DEF BuildInv, Waited
<1> QED
  BY <1>1, InitBuild, BuildStep, PTL DEF Spec

\* What is accepted is merged into the build's copy and passed its check there, also when
\* the process died around the merge, the check or the two writes of the verdict.
THEOREM AcceptedHasLanded == Spec => []AcceptedLanded
<1>1. BuildInv => AcceptedLanded
  BY DEF BuildInv
<1> QED
  BY <1>1, InitBuild, BuildStep, PTL DEF Spec

\* Tasks that own something in common never run at once, for any plans and any number of
\* workers side by side.
THEOREM RunsApart == Spec => []RunningApart
<1>1. BuildInv => RunningApart
  BY DEF BuildInv
<1> QED
  BY <1>1, InitBuild, BuildStep, PTL DEF Spec

-----------------------------------------------------------------------------
(* What is accepted stays, but for a new version of its plan.              *)

Stays(t) ==
    Is(ledger, t, "accepted") =>
        \/ ledger'.tasks[t] = ledger.tasks[t]
        \/ /\ ledger'.versions[PlanOf[t]] # ledger.versions[PlanOf[t]]
           /\ Is(ledger', t, "pending")

\* A step that writes one attempt, one that is not accepted.
LEMMA OneStays ==
    ASSUME NEW u \in Tasks, ~ Is(ledger, u, "accepted"),
           \A t \in Tasks \ {u} : ledger'.tasks[t] = ledger.tasks[t]
    PROVE  \A t \in Tasks : Stays(t)
BY DEF Stays

\* A step that syncs the ledger, then perhaps writes one attempt, one that was blocked.
LEMMA SyncStays ==
    ASSUME BuildInv, NEW taken, NEW M, M = Synced(ledger, file, taken),
           \/ ledger' = M
           \/ \E u \in Tasks : Is(ledger, u, "blocked") /\ OnlyAt(M, ledger', u)
    PROVE  \A t \in Tasks : Stays(t)
<1>1. ledger \in Ledgers /\ file \in [Plans -> Nat]
  BY DEF BuildInv, TypeOK
<1>2. \A t \in Tasks : /\ Is(ledger, t, "accepted") => ledger'.tasks[t] = M.tasks[t]
                       /\ ledger'.versions = M.versions
  BY DEF OnlyAt, Is
<1>3. /\ M.versions = file
      /\ \A t \in Tasks :
            \/ M.tasks[t] = ledger.tasks[t]
            \/ Is(ledger, t, "pending") /\ Alike(ledger.tasks[t], M.tasks[t])
            \/ /\ ledger.tasks[t].status \in {"accepted", "finished"}
               /\ Renewed(ledger.tasks[t], M.tasks[t])
               /\ file[PlanOf[t]] # ledger.versions[PlanOf[t]]
  BY <1>1, SyncedIs
<1> QED
  BY <1>2, <1>3 DEF Stays, Renewed, Is

LEMMA LoopStays == ASSUME BuildInv, LoopStep PROVE \A t \in Tasks : Stays(t)
<1>1. ledger \in Ledgers
  BY DEF BuildInv, TypeOK
<1>2. CASE ledger' = ledger
  BY <1>2 DEF Stays
<1>3. CASE Top /\ ledger' # ledger
  <2>1. ledger' = Synced(ledger, file, Tasks)
    BY <1>3 DEF Top, Sync
  <2> QED
    BY <2>1, SyncStays
<1>4. CASE Ready /\ ledger' # ledger
  <2>1. PICK room \in Parallel, S \in SUBSET Tasks :
          /\ S = {} \/ IsReady(ledger, held, room - Cardinality(held), S)
          /\ Start(S)
    BY <1>4 DEF Ready
  <2>2. \A t \in S : Is(ledger, t, "pending")
    BY <2>1, ReadyApart
  <2>3. \A t \in Tasks : t \notin S => ledger'.tasks[t] = ledger.tasks[t]
    BY <1>1, <2>1, BegunIs DEF Start
  <2> QED
    BY <2>2, <2>3 DEF Stays, Is
<1>5. ASSUME NEW t \in Tasks, Salvage(t) \/ GiveUp(t)
      PROVE  \A u \in Tasks : Stays(u)
  <2>1. ~ Is(ledger, t, "accepted") /\ \A u \in Tasks \ {t} : ledger'.tasks[u] = ledger.tasks[u]
    BY <1>5, ReconciledIs DEF Is
  <2> QED
    BY <2>1, OneStays
<1>6. ASSUME NEW t \in Tasks, Repair(t) PROVE \A u \in Tasks : Stays(u)
  <2>1. Is(ledger, t, "blocked")
    BY <1>6 DEF BuildInv, Answers, Repair
  <2>2. \A u \in Tasks \ {t} : ledger'.tasks[u] = ledger.tasks[u]
    BY <1>1, <1>6, RetriedAt DEF Repair, OnlyAt
  <2> QED
    BY <2>1, <2>2, OneStays DEF Is
<1>7. ASSUME NEW t \in Tasks, Hook(t), ledger' # ledger PROVE \A u \in Tasks : Stays(u)
  <2> DEFINE M == Sync(ledger)
  <2>1. M = Synced(ledger, file, Tasks)
    BY DEF Sync
  <2>2. M \in Ledgers
    BY <2>1, SyncChanges
  <2>3. \/ ledger' = M
        \/ Is(ledger, t, "blocked") /\ \E ask \in {"open", "posted"} : ledger' = Asked(M, t, ask)
    BY <1>7 DEF Hook, ForAPerson
  <2> HIDE DEF M
  <2>4. ASSUME NEW ask \in {"open", "posted"}, ledger' = Asked(M, t, ask)
        PROVE  OnlyAt(M, ledger', t)
    BY <2>2, <2>4, AskedAt
  <2>5. ledger' = M \/ (Is(ledger, t, "blocked") /\ OnlyAt(M, ledger', t))
    BY <2>3, <2>4
  <2> QED
    BY <2>1, <2>5, SyncStays
<1>8. ASSUME NEW w \in workers, Record(w) PROVE \A u \in Tasks : Stays(u)
  <2>1. /\ w.task \in Tasks /\ w \in Mine(w.task) /\ w.stage = "over" /\ Is(ledger, w.task, "running")
        /\ ledger' = Outcome(w.result, w.task)
    BY <1>8 DEF BuildInv, TypeOK, Worker, Record
  <2>2. \A u \in Tasks \ {w.task} : ledger'.tasks[u] = ledger.tasks[u]
    BY <2>1, RecordedIs
  <2> QED
    BY <2>1, <2>2, OneStays DEF Is
<1>9. CASE Reconciled \/ Wait
  BY <1>2, <1>9 DEF Reconciled, Wait
<1> QED
  BY <1>2, <1>3, <1>4, <1>5, <1>6, <1>7, <1>8, <1>9 DEF LoopStep

LEMMA OtherStays ==
    ASSUME BuildInv, WorkerStep \/ CogStep \/ Fault \/ Restart
    PROVE  \A t \in Tasks : Stays(t)
<1>1. ledger \in Ledgers
  BY DEF BuildInv, TypeOK
<1>2. CASE ledger' = ledger
  BY <1>2 DEF Stays
<1>3. CASE ledger' = Sync(ledger)
  BY <1>3, SyncStays DEF Sync
<1>4. ASSUME NEW w \in workers, Commit(w) \/ Merge(w) PROVE \A t \in Tasks : Stays(t)
  <2>1. PICK side \in {"work", "passed", "gone"} : ledger' = Sided(ledger, w.task, side)
    BY <1>4 DEF Commit, Merge
  <2>2. w.task \in Tasks /\ side \in {"clean", "work", "merged", "gone", "passed"}
    BY DEF BuildInv, TypeOK, Worker
  <2>3. ledger.tasks[w.task].side # "passed"
    BY <1>4 DEF Commit, Merge, MayMerge
  <2>4. OnlyAt(ledger, ledger', w.task)
    BY <1>1, <2>1, <2>2, SidedAt
  <2>5. \A u \in Tasks \ {w.task} : ledger'.tasks[u] = ledger.tasks[u]
    BY <2>4 DEF OnlyAt
  <2> QED
    BY <2>2, <2>3, <2>5, OneStays DEF BuildInv, AcceptedLanded
<1>5. ASSUME NEW t \in Tasks, NEW c \in {"retry", "skip"}, Reply(t, c)
      PROVE  \A u \in Tasks : Stays(u)
  <2> DEFINE M == Sync(ledger)
             q == [M.tasks[t] EXCEPT !.ask = "resolved"]
  <2>1. M = Synced(ledger, file, Tasks)
    BY DEF Sync
  <2>2. M \in Ledgers
    BY <2>1, SyncChanges
  <2>3. Is(ledger, t, "blocked") /\ ledger' = [M EXCEPT !.tasks[t].ask = "resolved"]
    BY <1>5 DEF Reply, BuildInv, Questions
  <2> HIDE DEF M
  <2>4. q \in Attempt
    <3>1. M.tasks[t] \in Attempt
      BY <2>2 DEF Ledgers
    <3> QED
      BY <3>1 DEF Attempt
  <2>5. ledger' = Written(M, t, q)
    BY <2>2, <2>3 DEF Written, Ledgers
  <2> HIDE DEF q
  <2>6. OnlyAt(M, ledger', t)
    BY <2>2, <2>4, <2>5, WrittenAt
  <2> QED
    BY <2>1, <2>3, <2>6, SyncStays
<1>6. ASSUME NEW a \in answers, Apply(a), ledger' # ledger PROVE \A u \in Tasks : Stays(u)
  <2> DEFINE M == Sync(ledger)
  <2>1. M = Synced(ledger, file, Tasks)
    BY DEF Sync
  <2>2. M \in Ledgers
    BY <2>1, SyncChanges
  <2>3. ledger' = Answered(M, a[1], a[2])
    BY <1>6 DEF Apply
  <2>4. a[1] \in Tasks /\ Is(ledger, a[1], "blocked")
    BY DEF BuildInv, TypeOK, Answers, Questions
  <2> HIDE DEF M
  <2>5. OnlyAt(M, ledger', a[1])
    BY <2>2, <2>3, <2>4, BlockedAt, RetriedAt DEF Answered
  <2> QED
    BY <2>1, <2>4, <2>5, SyncStays
<1>7. CASE TornSync
  BY <1>7, SyncStays DEF TornSync
<1>8. CASE TornMerge
  <2>1. PICK t \in Tasks, side \in {"merged", "gone"} :
          /\ Salvageable(t) \/ \E w \in Mine(t) : MayMerge(w)
          /\ ledger' = Sided(ledger, t, side)
    BY <1>8 DEF TornMerge
  <2>2. ledger.tasks[t].side # "passed" /\ side \in {"clean", "work", "merged", "gone", "passed"}
    BY <2>1 DEF Salvageable, MayMerge, Mine
  <2>3. OnlyAt(ledger, ledger', t)
    BY <1>1, <2>1, <2>2, SidedAt
  <2>4. \A u \in Tasks \ {t} : ledger'.tasks[u] = ledger.tasks[u]
    BY <2>3 DEF OnlyAt
  <2> QED
    BY <2>2, <2>4, OneStays DEF BuildInv, AcceptedLanded
<1>9. ASSUME NEW w \in workers, TornRecord(w) PROVE \A u \in Tasks : Stays(u)
  <2>1. /\ w.task \in Tasks /\ w \in Mine(w.task) /\ w.stage = "over" /\ Is(ledger, w.task, "running")
        /\ ledger' = AfterSubmit(w.result, w.task)
    BY <1>9 DEF BuildInv, TypeOK, Worker, TornRecord
  <2>2. \A u \in Tasks \ {w.task} : ledger'.tasks[u] = ledger.tasks[u]
    BY <2>1, RecordedIs
  <2> QED
    BY <2>1, <2>2, OneStays DEF Is
<1>10. CASE Restart
  <2>1. PICK S \in SUBSET {t \in Tasks : ledger.tasks[t].ask = "open"} :
          ledger' = [ledger EXCEPT !.tasks = [t \in Tasks |->
                        IF t \in S THEN [@[t] EXCEPT !.ask = "posted"] ELSE @[t]]]
    BY <1>10 DEF Restart
  <2>2. \A t \in Tasks : t \notin S => ledger'.tasks[t] = ledger.tasks[t]
    BY <1>1, <2>1 DEF Ledgers
  <2>3. \A t \in S : ~ Is(ledger, t, "accepted")
    BY DEF BuildInv, Questions, Is
  <2> QED
    BY <2>2, <2>3 DEF Stays
<1>11. CASE WorkerStep
  BY <1>2, <1>3, <1>4, <1>11 DEF WorkerStep, Brief, Fail, Review
<1>12. CASE CogStep
  BY <1>2, <1>5, <1>6, <1>12 DEF CogStep, Stop, Unstick, Park, KeepGoing, Close
<1>13. CASE Fault
  BY <1>2, <1>7, <1>8, <1>9, <1>13 DEF Fault, Crash, Break, Mend
<1> QED
  BY <1>10, <1>11, <1>12, <1>13

\* Nothing built is discarded: an accepted task is taken up again only because its plan
\* changed, whatever is edited, answered, retried or cut short by a death of the process.
THEOREM AcceptedIsKept == Spec => AcceptedStays
<1>1. BuildInv /\ [Next]_vars =>
        [\A t \in Tasks : Is(ledger, t, "accepted") =>
            \/ ledger'.tasks[t] = ledger.tasks[t]
            \/ /\ ledger'.versions[PlanOf[t]] # ledger.versions[PlanOf[t]]
               /\ Is(ledger', t, "pending")]_vars
  <2> SUFFICES ASSUME BuildInv, Next PROVE \A t \in Tasks : Stays(t)
    BY DEF Stays
  <2>1. CASE \E p \in Plans : Edit(p)
    BY <2>1 DEF Edit, Stays
  <2> QED
    BY <2>1, LoopStays, OtherStays DEF Next
<1> QED
  BY <1>1, InitBuild, BuildStep, PTL DEF Spec, AcceptedStays

=============================================================================
