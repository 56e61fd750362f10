-------------------------- MODULE TimedCallsProofs --------------------------
(***************************************************************************)
(* Proofs about the calls that wait with a deadline: Barrier, Semaphore,   *)
(* Group and Mutex of BNDispatch and HOST.Exec.Run, for any number of      *)
(* callers, parties, permits and tasks and any size of a pipe.             *)
(*                                                                         *)
(* Barrier: the count of arrivals needs that no caller is ahead of the     *)
(* generation, so that a new round starts empty.  The results need what    *)
(* broken_generation is, the latest of the broken rounds, all of them      *)
(* over, and that a caller who has a result is of a round that is over, so *)
(* that the next break does not touch it.                                  *)
(* Semaphore, Group: the two properties are inductive, with the types.     *)
(* Mutex: a task is run by one thread, and who is in lock() runs one.      *)
(* Exec: where the child and the readers are for each place of the caller. *)
(***************************************************************************)
EXTENDS MCTimedCalls, FiniteSetTheorems, TLAPS

-----------------------------------------------------------------------------
(* Barrier.                                                                *)

BarrierType ==
    /\ arrived \in Nat
    /\ generation \in Nat
    /\ broken_generation \in Nat \cup {None}
    /\ pc \in [Waiters -> {"out", "check", "sleep"}]
    /\ round \in [Waiters -> Nat]
    /\ expired \in [Waiters -> BOOLEAN]
    /\ result \in [Waiters -> {"none", "TRUE", "FALSE", "TIMEOUT"}]
    /\ broken \in SUBSET Nat

\* A caller inside is not ahead of the generation, and has no result yet; a
\* caller with a result is of a round that is over.
RoundsBehind ==
    \A p \in Waiters : /\ pc[p] # "out" => round[p] <= generation /\ result[p] = "none"
                       /\ result[p] # "none" => round[p] < generation

\* broken_generation is the latest of the broken rounds, which are over.
LatestBreak ==
    /\ broken # {} => broken_generation \in Nat
    /\ broken_generation # None => broken_generation \in broken
    /\ \A r \in broken : r <= broken_generation /\ r < generation

BarrierInv == /\ BarrierType /\ RoundsBehind /\ LatestBreak
              /\ ArrivedCountsRound /\ ResultsTellTheRound

(* The callers in a round are finitely many.                               *)
LEMMA InRoundFinite == IsFiniteSet(InRound)
BY WaitersFinite, FS_Subset DEF InRound

(* A step that lets no caller in or out and keeps the generation keeps the *)
(* callers in the round: only one that sleeps wakes, or the other way.     *)
LEMMA SameRound ==
    ASSUME UNCHANGED <<generation, round>>,
           \A q \in Waiters : pc'[q] = "out" <=> pc[q] = "out"
    PROVE  InRound' = InRound
BY DEF InRound

(* In the initial state nobody has arrived.                                *)
LEMMA BarrierInit == Init => BarrierInv
<1> SUFFICES ASSUME Init PROVE BarrierInv
  OBVIOUS
<1>1. InRound = {}
  BY DEF Init, InRound
<1>2. ArrivedCountsRound
  BY <1>1, FS_EmptySet DEF Init, ArrivedCountsRound
<1>3. QED
  BY <1>2 DEF Init, BarrierInv, BarrierType, RoundsBehind, LatestBreak, ResultsTellTheRound

(* Every step of a caller preserves the invariant.                         *)
LEMMA BarrierStep ==
    ASSUME BarrierInv, NEW p \in Waiters,
           wait_last(p) \/ wait_arrive(p) \/ DeadlinePasses(p) \/ wait_wakes(p)
             \/ wait_again(p) \/ wait_breaks(p) \/ wait_returns(p)
    PROVE  BarrierInv'
<1> USE DEF BarrierInv
<1>1. CASE wait_last(p)
  <2>1. BarrierType'
    BY <1>1 DEF wait_last, BarrierType, Woken
  <2>2. RoundsBehind' /\ LatestBreak' /\ ResultsTellTheRound'
    BY <1>1, NoneAssumption DEF wait_last, BarrierType, Woken, RoundsBehind, LatestBreak, ResultsTellTheRound
  <2>3. InRound' = {}
    BY <1>1 DEF wait_last, BarrierType, Woken, RoundsBehind, InRound
  <2>4. ArrivedCountsRound'
    BY <1>1, <2>3, FS_EmptySet DEF wait_last, ArrivedCountsRound
  <2>5. QED
    BY <2>1, <2>2, <2>4
<1>2. CASE wait_arrive(p)
  <2>1. BarrierType' /\ RoundsBehind' /\ LatestBreak' /\ ResultsTellTheRound'
    BY <1>2, NoneAssumption DEF wait_arrive, BarrierType, RoundsBehind, LatestBreak, ResultsTellTheRound
  <2>2. InRound' = InRound \cup {p} /\ p \notin InRound
    BY <1>2 DEF wait_arrive, BarrierType, InRound
  <2>3. ArrivedCountsRound'
    BY <1>2, <2>2, InRoundFinite, FS_AddElement DEF wait_arrive, ArrivedCountsRound
  <2>4. QED
    BY <2>1, <2>3
<1>3. CASE DeadlinePasses(p) \/ wait_wakes(p) \/ wait_again(p)
  <2>1. BarrierType' /\ RoundsBehind' /\ LatestBreak' /\ ResultsTellTheRound'
    BY <1>3 DEF DeadlinePasses, wait_wakes, wait_again, BarrierType, RoundsBehind, LatestBreak, ResultsTellTheRound
  <2>2. InRound' = InRound /\ arrived' = arrived
    BY <1>3, SameRound DEF DeadlinePasses, wait_wakes, wait_again, BarrierType
  <2>3. QED
    BY <2>1, <2>2 DEF ArrivedCountsRound
<1>4. CASE wait_breaks(p)
  <2>1. BarrierType'
    BY <1>4 DEF wait_breaks, BarrierType, Woken, ArrivedAfterBreak
  <2>2. RoundsBehind' /\ LatestBreak'
    BY <1>4, NoneAssumption DEF wait_breaks, BarrierType, Woken, RoundsBehind, LatestBreak
  <2>3. ResultsTellTheRound'
    BY <1>4 DEF wait_breaks, BarrierType, RoundsBehind, ResultsTellTheRound
  <2>4. InRound' = {}
    BY <1>4 DEF wait_breaks, BarrierType, Woken, RoundsBehind, InRound
  <2>5. ArrivedCountsRound'
    BY <1>4, <2>4, FS_EmptySet DEF wait_breaks, ArrivedCountsRound, ArrivedAfterBreak
  <2>6. QED
    BY <2>1, <2>2, <2>3, <2>5
<1>5. CASE wait_returns(p)
  <2>1. BarrierType' /\ RoundsBehind' /\ LatestBreak'
    BY <1>5 DEF wait_returns, BarrierType, RoundsBehind, LatestBreak, MyRoundBroken
  <2>2. ResultsTellTheRound'
    BY <1>5, NoneAssumption DEF wait_returns, BarrierType, RoundsBehind, LatestBreak, ResultsTellTheRound, MyRoundBroken
  <2>3. InRound' = InRound /\ arrived' = arrived
    BY <1>5 DEF wait_returns, BarrierType, InRound
  <2>4. QED
    BY <2>1, <2>2, <2>3 DEF ArrivedCountsRound
<1>6. QED
  BY <1>1, <1>2, <1>3, <1>4, <1>5

(* So the invariant holds in every state of the barrier.                   *)
LEMMA BarrierHolds == Spec => []BarrierInv
<1>1. BarrierInv /\ [Next]_vars => BarrierInv'
  <2> SUFFICES ASSUME BarrierInv, [Next]_vars PROVE BarrierInv'
    OBVIOUS
  <2>1. CASE Next
    BY <2>1, BarrierStep DEF Next
  <2>2. CASE UNCHANGED vars
    BY <2>2 DEF vars, BarrierInv, BarrierType, RoundsBehind, LatestBreak, ArrivedCountsRound,
                InRound, ResultsTellTheRound
  <2>3. QED
    BY <2>1, <2>2
<1>2. QED
  BY <1>1, BarrierInit, PTL DEF Spec

(* Barrier.Wait counts exactly the callers of the current round, whatever  *)
(* the callers of earlier rounds that have not returned still do.          *)
THEOREM ArrivalsAreCounted == Spec => []ArrivedCountsRound
BY BarrierHolds, PTL DEF BarrierInv

(* A caller of Barrier.Wait is told TIMEOUT only of a round that broke,    *)
(* and TRUE or FALSE of a broken one only after a later break.             *)
THEOREM ResultsAreOfTheRound == Spec => []ResultsTellTheRound
BY BarrierHolds, PTL DEF BarrierInv

-----------------------------------------------------------------------------
(* Semaphore and Group.                                                    *)

CountersType ==
    /\ available \in Nat
    /\ count \in Nat
    /\ cpc \in [Callers -> {"out", "acquire", "sleep", "wait", "gsleep"}]

CountersInv == CountersType /\ Counters!NoStrandedSleeper /\ Counters!NoSleepAtZero

(* The instance counts as FiniteSets does.                                 *)
LEMMA SameCounting ==
    \A S : /\ Counters!IsFiniteSet(S) <=> IsFiniteSet(S)
           /\ Counters!Cardinality(S) = Cardinality(S)
BY DEF Counters!IsFiniteSet, IsFiniteSet, Counters!Cardinality, Cardinality

(* The callers at any place are finitely many.                             *)
LEMMA CallersFinite ==
    ASSUME NEW S \in SUBSET Callers PROVE IsFiniteSet(S) /\ Cardinality(S) \in Nat
BY InstanceConstants, SameCounting, FS_Subset, FS_CardinalityType DEF Counters!CounterConstants

(* Permits stay covered when no more are available, nobody falls asleep    *)
(* and nobody who is about to check leaves.                                *)
LEMMA StillCovered ==
    ASSUME CountersType, Counters!NoStrandedSleeper, available' \in Nat, available' <= available,
           Counters!At("sleep")' \subseteq Counters!At("sleep"),
           Counters!At("acquire") \subseteq Counters!At("acquire")'
    PROVE  Counters!NoStrandedSleeper'
<1> DEFINE A == Counters!At("acquire")
           B == Counters!At("acquire")'
<1>1. A \in SUBSET B /\ B \in SUBSET Callers
  BY DEF Counters!At
<1>2. IsFiniteSet(B) /\ Cardinality(A) \in Nat /\ Cardinality(B) \in Nat
  BY <1>1, CallersFinite
<1>3. Cardinality(A) <= Cardinality(B)
  BY <1>1, <1>2, FS_Subset
<1>4. Counters!At("sleep")' # {} => Counters!At("sleep") # {}
  OBVIOUS
<1>5. Counters!At("sleep") # {} => available <= Cardinality(A)
  BY SameCounting DEF Counters!NoStrandedSleeper
<1>6. Counters!At("sleep")' # {} => available' <= Cardinality(B)
  BY <1>2, <1>3, <1>4, <1>5 DEF CountersType
<1>7. QED
  BY <1>6, SameCounting DEF Counters!NoStrandedSleeper

(* Nothing is available: nobody is stranded.                               *)
LEMMA NothingToMiss ==
    ASSUME CountersType, available' = 0 PROVE Counters!NoStrandedSleeper'
<1>1. Cardinality(Counters!At("acquire")') \in Nat
  <2>1. Counters!At("acquire")' \in SUBSET Callers
    BY DEF Counters!At
  <2>2. QED
    BY <2>1, CallersFinite
<1>2. QED
  BY <1>1, SameCounting DEF Counters!NoStrandedSleeper

(* A permit taken: there is one permit and one caller about to check less. *)
LEMMA AcquireCovered ==
    ASSUME CountersInv, NEW p \in Callers, Counters!acquire_ok(p)
    PROVE  Counters!NoStrandedSleeper'
<1> DEFINE A == Counters!At("acquire")
<1> USE DEF CountersInv
<1>1. Counters!At("acquire")' = A \ {p} /\ p \in A /\ Counters!At("sleep")' = Counters!At("sleep")
  BY DEF Counters!acquire_ok, Counters!Return, Counters!At, CountersType
<1>2. A \in SUBSET Callers
  BY DEF Counters!At
<1>3. IsFiniteSet(A) /\ Cardinality(A) \in Nat
  BY <1>2, CallersFinite
<1>4. Cardinality(Counters!At("acquire")') = Cardinality(A) - 1
  BY <1>1, <1>3, FS_RemoveElement
<1>5. Counters!At("sleep") # {} => available <= Cardinality(A)
  BY SameCounting DEF Counters!NoStrandedSleeper
<1>6. available' = available - 1 /\ available \in Nat
  BY DEF Counters!acquire_ok, CountersType
<1>7. Counters!At("sleep")' # {} => available' <= Cardinality(Counters!At("acquire")')
  BY <1>1, <1>3, <1>4, <1>5, <1>6
<1>8. QED
  BY <1>7, SameCounting DEF Counters!NoStrandedSleeper

(* A permit released: when somebody sleeps, one of them will check for it. *)
LEMMA ReleaseCovered ==
    ASSUME CountersInv, NEW p \in Callers, Counters!release(p)
    PROVE  Counters!NoStrandedSleeper'
<1> DEFINE A == Counters!At("acquire")
<1> USE DEF CountersInv
<1>1. CASE Counters!At("sleep") = {}
  <2>1. Counters!At("sleep")' = {}
    BY <1>1 DEF Counters!release, Counters!notify_one, Counters!At
  <2>2. QED
    BY <2>1 DEF Counters!NoStrandedSleeper
<1>2. CASE Counters!At("sleep") # {}
  <2>1. PICK q \in Counters!At("sleep") : cpc' = [cpc EXCEPT ![q] = "acquire"]
    BY <1>2 DEF Counters!release, Counters!notify_one
  <2>2. Counters!At("acquire")' = A \cup {q} /\ q \notin A
    BY <2>1 DEF Counters!At, CountersType
  <2>3. A \in SUBSET Callers
    BY DEF Counters!At
  <2>4. IsFiniteSet(A) /\ Cardinality(A) \in Nat
    BY <2>3, CallersFinite
  <2>5. Cardinality(Counters!At("acquire")') = Cardinality(A) + 1
    BY <2>2, <2>4, FS_AddElement
  <2>6. available <= Cardinality(A)
    BY <1>2, SameCounting DEF Counters!NoStrandedSleeper
  <2>7. available' = available + 1 /\ available \in Nat
    BY DEF Counters!release, CountersType
  <2>8. available' <= Cardinality(Counters!At("acquire")')
    BY <2>4, <2>5, <2>6, <2>7
  <2>9. QED
    BY <2>8, SameCounting DEF Counters!NoStrandedSleeper
<1>3. QED
  BY <1>1, <1>2

(* Every step of a caller preserves the invariant.                         *)
LEMMA CountersStep ==
    ASSUME CountersInv, NEW p \in Callers,
           \/ Counters!acquire(p) \/ Counters!release(p) \/ Counters!acquire_wakes(p)
           \/ Counters!enter(p) \/ Counters!leave(p) \/ Counters!wait(p)
           \/ Counters!wait_wakes(p) \/ Counters!Check(p) \/ Counters!DeadlinePasses(p)
    PROVE  CountersInv'
<1> USE DEF CountersInv
<1>1. CASE Counters!acquire(p) \/ Counters!acquire_wakes(p) \/ Counters!enter(p)
             \/ Counters!wait(p) \/ Counters!wait_wakes(p) \/ Counters!DeadlinePasses(p)
  <2> USE DEF Counters!acquire, Counters!acquire_wakes, Counters!enter, Counters!wait,
              Counters!wait_wakes, Counters!DeadlinePasses, Counters!Call, Counters!Wakes
  <2>1. CountersType' /\ available' = available
    BY <1>1 DEF CountersType
  <2>2. Counters!At("sleep")' \subseteq Counters!At("sleep")
    BY <1>1 DEF CountersType, Counters!At
  <2>3. Counters!At("acquire") \subseteq Counters!At("acquire")'
    BY <1>1 DEF CountersType, Counters!At
  <2>4. Counters!NoStrandedSleeper'
    BY <2>1, <2>2, <2>3, StillCovered DEF CountersType
  <2>5. Counters!NoSleepAtZero'
    BY <1>1 DEF CountersType, Counters!NoSleepAtZero, Counters!At
  <2>6. QED
    BY <2>1, <2>4, <2>5
<1>2. CASE Counters!release(p)
  <2>1. CountersType'
    BY <1>2 DEF Counters!release, Counters!notify_one, Counters!At, CountersType
  <2>2. Counters!NoSleepAtZero'
    BY <1>2 DEF Counters!release, Counters!notify_one, CountersType, Counters!NoSleepAtZero,
                Counters!At
  <2>3. QED
    BY <1>2, <2>1, <2>2, ReleaseCovered
<1>3. CASE Counters!leave(p)
  <2>1. CountersType' /\ available' = available
    BY <1>3 DEF Counters!leave, Counters!NotEmpty, Counters!notify_all, CountersType
  <2>2. /\ Counters!At("sleep")' \subseteq Counters!At("sleep")
        /\ Counters!At("acquire") \subseteq Counters!At("acquire")'
        /\ Counters!At("gsleep")' = {}
    BY <1>3 DEF Counters!leave, Counters!notify_all, CountersType, Counters!At
  <2>3. Counters!NoStrandedSleeper'
    BY <2>1, <2>2, StillCovered DEF CountersType
  <2>4. QED
    BY <2>1, <2>2, <2>3 DEF Counters!NoSleepAtZero
<1>4. CASE Counters!acquire_ok(p)
  <2>1. CountersType'
    BY <1>4 DEF Counters!acquire_ok, Counters!Return, CountersType
  <2>2. Counters!NoSleepAtZero'
    BY <1>4 DEF Counters!acquire_ok, Counters!Return, CountersType, Counters!NoSleepAtZero,
                Counters!At
  <2>3. QED
    BY <1>4, <2>1, <2>2, AcquireCovered
<1>5. CASE Counters!acquire_timeout(p) \/ Counters!acquire_sleep(p)
  <2> USE DEF Counters!acquire_timeout, Counters!acquire_sleep, Counters!Return, Counters!Sleep
  <2>1. CountersType' /\ available' = 0
    BY <1>5 DEF CountersType
  <2>2. Counters!NoSleepAtZero'
    BY <1>5 DEF CountersType, Counters!NoSleepAtZero, Counters!At
  <2>3. QED
    BY <2>1, <2>2, NothingToMiss
<1>6. CASE Counters!wait_returns(p) \/ Counters!wait_sleeps(p)
  <2> USE DEF Counters!wait_returns, Counters!wait_sleeps, Counters!Return, Counters!Sleep
  <2>1. CountersType' /\ available' = available
    BY <1>6 DEF CountersType
  <2>2. /\ Counters!At("sleep")' \subseteq Counters!At("sleep")
        /\ Counters!At("acquire") \subseteq Counters!At("acquire")'
    BY <1>6 DEF CountersType, Counters!At
  <2>3. Counters!NoStrandedSleeper'
    BY <2>1, <2>2, StillCovered DEF CountersType
  <2>4. Counters!NoSleepAtZero'
    BY <1>6 DEF CountersType, Counters!NoSleepAtZero, Counters!At
  <2>5. QED
    BY <2>1, <2>3, <2>4
<1>7. QED
  BY <1>1, <1>2, <1>3, <1>4, <1>5, <1>6 DEF Counters!Check

(* So it holds in every state of the semaphore and the group.              *)
LEMMA CountersHold == Counters!Spec => []CountersInv
<1>1. Counters!Init => CountersInv
  <2> SUFFICES ASSUME Counters!Init PROVE CountersInv
    OBVIOUS
  <2>1. CountersType
    BY InstanceConstants DEF Counters!Init, CountersType, Counters!CounterConstants
  <2>2. Counters!At("sleep") = {} /\ Counters!At("gsleep") = {}
    BY DEF Counters!Init, Counters!At
  <2>3. QED
    BY <2>1, <2>2 DEF CountersInv, Counters!NoStrandedSleeper, Counters!NoSleepAtZero
<1>2. CountersInv /\ [Counters!Next]_(Counters!vars) => CountersInv'
  <2> SUFFICES ASSUME CountersInv, [Counters!Next]_(Counters!vars) PROVE CountersInv'
    OBVIOUS
  <2>1. CASE Counters!Next
    BY <2>1, CountersStep DEF Counters!Next
  <2>2. CASE UNCHANGED Counters!vars
    <3>1. Counters!At("sleep")' = Counters!At("sleep") /\ Counters!At("gsleep")' = Counters!At("gsleep")
            /\ Counters!At("acquire")' = Counters!At("acquire") /\ CountersType'
            /\ available' = available /\ count' = count
      BY <2>2 DEF Counters!vars, CountersInv, CountersType, Counters!At
    <3>2. QED
      BY <3>1 DEF CountersInv, Counters!NoStrandedSleeper, Counters!NoSleepAtZero
  <2>3. QED
    BY <2>1, <2>2
<1>3. QED
  BY <1>1, <1>2, PTL DEF Counters!Spec

-----------------------------------------------------------------------------
(* Mutex.                                                                  *)

\* One thread runs a task; who is in lock() runs one that has not returned.
TasksHaveThreads ==
    /\ \A v, w \in Workers : task[v] = task[w] /\ task[v] # None => v = w
    /\ \A w \in Workers :
         /\ task[w] # None => phase[task[w]] \in {"running", "returned", "unlocked"}
         /\ mpc[w] # "out" => task[w] # None /\ phase[task[w]] = "running"

MutexInv == /\ Mutex!TypeOK /\ TasksHaveThreads
            /\ Mutex!HolderStillRuns /\ Mutex!NoStrandedSleeper

(* A step that takes no lock and puts nobody to sleep strands nobody, as   *)
(* long as whoever was awake stays so.                                     *)
LEMMA StillAwake ==
    ASSUME Mutex!NoStrandedSleeper, owner' = None => owner = None,
           \A w \in Workers : mpc'[w] = "sleep" => mpc[w] = "sleep",
           \A w \in Workers : mpc[w] = "check" => mpc'[w] = "check"
    PROVE  Mutex!NoStrandedSleeper'
BY DEF Mutex!NoStrandedSleeper, Mutex!Asleep, Mutex!Awake

(* notify_one leaves somebody awake, or nobody asleep.                     *)
LEMMA NotifyAwakes ==
    ASSUME Mutex!TypeOK, Mutex!notify_one
    PROVE  /\ mpc' \in [Workers -> {"out", "check", "sleep"}]
           /\ \A w \in Workers : mpc'[w] # "out" => mpc[w] # "out"
           /\ Mutex!NoStrandedSleeper'
BY DEF Mutex!TypeOK, Mutex!notify_one, Mutex!NoStrandedSleeper, Mutex!Asleep, Mutex!Awake

(* Every step of a worker thread preserves the invariant.                  *)
LEMMA MutexStep ==
    ASSUME MutexInv, NEW w \in Workers,
           \/ \E k \in Tasks : Mutex!task_starts(w, k)
           \/ Mutex!lock(w) \/ Mutex!lock_ok(w) \/ Mutex!lock_timeout(w) \/ Mutex!lock_sleep(w)
           \/ Mutex!lock_wakes(w) \/ Mutex!DeadlinePasses(w) \/ Mutex!unlock(w)
           \/ Mutex!task_returns(w) \/ Mutex!task_panics(w)
           \/ Mutex!unlock_held(w) \/ Mutex!ticket_settled(w)
    PROVE  MutexInv'
<1> USE DEF MutexInv
<1>0. None \notin Workers /\ None \notin Tasks
  BY InstanceConstants DEF Mutex!MutexConstants
<1>1. ASSUME NEW k \in Tasks, Mutex!task_starts(w, k) PROVE MutexInv'
  <2>1. Mutex!TypeOK'
    BY <1>1 DEF Mutex!task_starts, Mutex!TypeOK
  <2>2. TasksHaveThreads'
    BY <1>0, <1>1 DEF Mutex!task_starts, Mutex!TypeOK, TasksHaveThreads
  <2>3. Mutex!HolderStillRuns'
    BY <1>0, <1>1 DEF Mutex!task_starts, Mutex!TypeOK, TasksHaveThreads, Mutex!HolderStillRuns
  <2>4. Mutex!NoStrandedSleeper'
    BY <1>1, StillAwake DEF Mutex!task_starts
  <2>5. QED
    BY <2>1, <2>2, <2>3, <2>4
<1>2. CASE Mutex!lock(w) \/ Mutex!lock_wakes(w) \/ Mutex!DeadlinePasses(w)
  <2> USE DEF Mutex!lock, Mutex!lock_wakes, Mutex!DeadlinePasses, Mutex!Running
  <2>1. Mutex!TypeOK'
    BY <1>2 DEF Mutex!TypeOK
  <2>2. TasksHaveThreads' /\ Mutex!HolderStillRuns'
    BY <1>2 DEF Mutex!TypeOK, TasksHaveThreads, Mutex!HolderStillRuns
  <2>3. Mutex!NoStrandedSleeper'
    BY <1>2, StillAwake DEF Mutex!TypeOK
  <2>4. QED
    BY <2>1, <2>2, <2>3
<1>3. CASE Mutex!lock_ok(w)
  BY <1>0, <1>3 DEF Mutex!lock_ok, Mutex!TypeOK, TasksHaveThreads, Mutex!HolderStillRuns,
                    Mutex!NoStrandedSleeper
<1>4. CASE Mutex!lock_timeout(w) \/ Mutex!lock_sleep(w)
  <2> USE DEF Mutex!lock_timeout, Mutex!lock_sleep
  <2>1. Mutex!TypeOK'
    BY <1>4 DEF Mutex!TypeOK
  <2>2. TasksHaveThreads' /\ Mutex!HolderStillRuns' /\ Mutex!NoStrandedSleeper'
    BY <1>4 DEF Mutex!TypeOK, TasksHaveThreads, Mutex!HolderStillRuns, Mutex!NoStrandedSleeper
  <2>3. QED
    BY <2>1, <2>2
<1>5. CASE Mutex!unlock(w)
  <2>1. mpc' \in [Workers -> {"out", "check", "sleep"}] /\ Mutex!NoStrandedSleeper'
          /\ \A v \in Workers : mpc'[v] # "out" => mpc[v] # "out"
    BY <1>5, NotifyAwakes DEF Mutex!unlock
  <2>2. QED
    BY <1>0, <1>5, <2>1 DEF Mutex!unlock, Mutex!TypeOK, TasksHaveThreads, Mutex!HolderStillRuns
<1>6. CASE Mutex!task_returns(w)
  <2>1. Mutex!TypeOK' /\ TasksHaveThreads'
    BY <1>0, <1>6 DEF Mutex!task_returns, Mutex!Running, Mutex!TypeOK, TasksHaveThreads
  <2>2. Mutex!HolderStillRuns'
    BY <1>0, <1>6 DEF Mutex!task_returns, Mutex!Running, Mutex!TypeOK, TasksHaveThreads,
                      Mutex!HolderStillRuns
  <2>3. Mutex!NoStrandedSleeper'
    BY <1>6, StillAwake DEF Mutex!task_returns
  <2>4. QED
    BY <2>1, <2>2, <2>3
<1>7. CASE Mutex!unlock_held(w)
  <2>1. mpc' \in [Workers -> {"out", "check", "sleep"}] /\ Mutex!NoStrandedSleeper'
          /\ \A v \in Workers : mpc'[v] # "out" => mpc[v] # "out"
    <3>1. CASE owner = w
      BY <1>7, <3>1, NotifyAwakes DEF Mutex!unlock_held, Mutex!unlock_if_held_by
    <3>2. CASE owner # w
      BY <1>7, <3>2, StillAwake DEF Mutex!unlock_held, Mutex!unlock_if_held_by, Mutex!TypeOK
    <3>3. QED
      BY <3>1, <3>2
  <2>2. Mutex!TypeOK' /\ TasksHaveThreads'
    BY <1>0, <1>7, <2>1 DEF Mutex!unlock_held, Mutex!unlock_if_held_by, Mutex!TypeOK, TasksHaveThreads
  <2>3. Mutex!HolderStillRuns'
    BY <1>0, <1>7 DEF Mutex!unlock_held, Mutex!unlock_if_held_by, Mutex!TypeOK, TasksHaveThreads,
                      Mutex!HolderStillRuns
  <2>4. QED
    BY <2>1, <2>2, <2>3
<1>8. CASE Mutex!ticket_settled(w)
  <2>1. Mutex!TypeOK' /\ TasksHaveThreads'
    BY <1>0, <1>8 DEF Mutex!ticket_settled, Mutex!TypeOK, TasksHaveThreads, Mutex!HolderStillRuns
  <2>2. Mutex!HolderStillRuns'
    BY <1>0, <1>8 DEF Mutex!ticket_settled, Mutex!TypeOK, TasksHaveThreads, Mutex!HolderStillRuns
  <2>3. Mutex!NoStrandedSleeper'
    BY <1>8, StillAwake DEF Mutex!ticket_settled
  <2>4. QED
    BY <2>1, <2>2, <2>3
<1>9. CASE Mutex!task_panics(w)
  <2>1. Mutex!TypeOK' /\ TasksHaveThreads'
    BY <1>0, <1>9 DEF Mutex!task_panics, Mutex!Running, Mutex!TypeOK, TasksHaveThreads
  <2>2. Mutex!HolderStillRuns'
    BY <1>0, <1>9 DEF Mutex!task_panics, Mutex!Running, Mutex!TypeOK, TasksHaveThreads,
                      Mutex!HolderStillRuns
  <2>3. Mutex!NoStrandedSleeper'
    BY <1>9, StillAwake DEF Mutex!task_panics
  <2>4. QED
    BY <2>1, <2>2, <2>3
<1>10. QED
  BY <1>1, <1>2, <1>3, <1>4, <1>5, <1>6, <1>7, <1>8, <1>9

(* So it holds in every state of the mutex.                                *)
LEMMA MutexHolds == Mutex!Spec => []MutexInv
<1>1. Mutex!Init => MutexInv
  BY InstanceConstants DEF Mutex!MutexConstants, Mutex!Init, MutexInv, Mutex!TypeOK, TasksHaveThreads, Mutex!HolderStillRuns,
         Mutex!NoStrandedSleeper, Mutex!Asleep
<1>2. MutexInv /\ [Mutex!Next]_(Mutex!vars) => MutexInv'
  <2> SUFFICES ASSUME MutexInv, [Mutex!Next]_(Mutex!vars) PROVE MutexInv'
    OBVIOUS
  <2>1. CASE Mutex!Next
    BY <2>1, MutexStep DEF Mutex!Next
  <2>2. CASE UNCHANGED Mutex!vars
    BY <2>2 DEF Mutex!vars, MutexInv, Mutex!TypeOK, TasksHaveThreads, Mutex!HolderStillRuns,
                Mutex!NoStrandedSleeper, Mutex!Asleep, Mutex!Awake
  <2>3. QED
    BY <2>1, <2>2
<1>3. QED
  BY <1>1, <1>2, PTL DEF Mutex!Spec

(* While a task that did not panic holds a Mutex its own thread still runs *)
(* it: unlock_held comes before the ticket is settled and before the       *)
(* worker's next task.  What a panic left locked goes back at the end of   *)
(* the next task of that worker that returns.                              *)
THEOREM LockEndsWithItsTask == Mutex!Spec => []HolderStillRuns
<1>1. MutexInv => HolderStillRuns
  BY DEF MutexInv, HolderStillRuns
<1>2. QED
  BY <1>1, MutexHolds, PTL

(* Release, Unlock, Leave and the end of a task lose no wakeup: nobody     *)
(* sleeps beside a permit, a free lock or an empty group that nobody is    *)
(* about to look at.                                                       *)
THEOREM NobodyIsStranded == Counters!Spec /\ Mutex!Spec => []NoStrandedSleeper
<1>1. CountersInv /\ MutexInv => NoStrandedSleeper
  BY DEF CountersInv, MutexInv, NoStrandedSleeper
<1>2. QED
  BY <1>1, CountersHold, MutexHolds, PTL

-----------------------------------------------------------------------------
(* HOST.Exec.Run.                                                          *)

ExecType ==
    /\ caller \in {"call", "poll", "kill", "reap", "stdout", "stderr", "decode", "out"}
    /\ child \in {"none", "running", "zombie", "reaped"}
    /\ heir \in {"none", "running", "ended"}
    /\ pipe \in [Streams -> Nat] /\ written \in [Streams -> Nat]
    /\ total \in [Streams -> Nat] /\ kept \in [Streams -> Nat]
    /\ reader \in [Streams -> {"none", "reading", "complete", "overflow", "failed"}]

\* What was written is in the pipe or was read; what was read is kept, up
\* to the ceiling.
BlocksAccounted ==
    \A s \in Streams : /\ written[s] = pipe[s] + total[s]
                       /\ kept[s] = IF total[s] <= Limit THEN total[s] ELSE 0

\* A stream whose capture is there has ended for good: the pipe is empty and
\* nobody holds its other end.
CapturesAreFinal ==
    \A s \in Streams : reader[s] \in {"complete", "overflow"} =>
        /\ pipe[s] = 0 /\ ~Exec!Alive
        /\ reader[s] = "overflow" <=> total[s] > Limit

\* Where the child and the captures are, for each place of the caller.
CallerKnows ==
    /\ outcome = "none" <=> caller # "out"
    /\ caller = "call" => child = "none" /\ \A s \in Streams : reader[s] = "none"
    /\ caller \in {"poll", "kill"} => child \in {"running", "zombie"}
    /\ caller \in {"stdout", "stderr", "decode"} => child = "reaped"
    /\ caller \in {"stderr", "decode"} => reader["stdout"] \in {"complete", "overflow"}
    /\ caller = "decode" => reader["stderr"] \in {"complete", "overflow"}
    /\ outcome \in {"Ok", "INVALID_UTF8"} => \A s \in Streams : reader[s] = "complete"
    /\ outcome = "CAPTURE_LIMIT" => \E s \in Streams : reader[s] = "overflow"

ExecInv == /\ ExecType /\ BlocksAccounted /\ CapturesAreFinal /\ CallerKnows
           /\ Exec!NoChildLeft

(* What the constants of HOST.Exec.Run are.                                *)
LEMMA ExecFacts == Limit \in Nat /\ Streams = {"stdout", "stderr"}
BY InstanceConstants DEF Exec!ExecConstants

(* The steps of the processes.                                             *)
LEMMA ProcessStep ==
    ASSUME ExecInv,
           \/ \E s \in Streams : Exec!writes(s)
           \/ Exec!starts_heir \/ Exec!heir_ends \/ Exec!child_ends
    PROVE  ExecInv'
<1> USE DEF ExecInv
<1>1. ASSUME NEW s \in Streams, Exec!writes(s) PROVE ExecInv'
  <2>1. ExecType' /\ BlocksAccounted'
    BY <1>1 DEF Exec!writes, Exec!readers, ExecType, BlocksAccounted
  <2>2. CapturesAreFinal' /\ CallerKnows' /\ Exec!NoChildLeft'
    BY <1>1 DEF Exec!writes, Exec!readers, ExecType, CapturesAreFinal, CallerKnows,
                Exec!NoChildLeft, Exec!Alive
  <2>3. QED
    BY <2>1, <2>2
<1>2. CASE Exec!starts_heir \/ Exec!heir_ends \/ Exec!child_ends
  <2> USE DEF Exec!starts_heir, Exec!heir_ends, Exec!child_ends, Exec!readers
  <2>1. ExecType' /\ BlocksAccounted'
    BY <1>2 DEF ExecType, BlocksAccounted
  <2>2. CapturesAreFinal'
    BY <1>2 DEF ExecType, CapturesAreFinal, Exec!Alive
  <2>3. CallerKnows' /\ Exec!NoChildLeft'
    BY <1>2 DEF ExecType, CallerKnows, Exec!NoChildLeft
  <2>4. QED
    BY <2>1, <2>2, <2>3
<1>3. QED
  BY <1>1, <1>2

(* The steps of the threads that read.                                     *)
LEMMA ReaderStep ==
    ASSUME ExecInv, NEW s \in Streams,
           Exec!reads(s) \/ Exec!read_ends(s) \/ Exec!read_fails(s)
    PROVE  ExecInv'
<1> USE DEF ExecInv
<1>1. CASE Exec!reads(s)
  <2>1. ExecType'
    BY <1>1, ExecFacts DEF Exec!reads, Exec!KeepsReading, ExecType
  <2>2. BlocksAccounted'
    BY <1>1, ExecFacts DEF Exec!reads, Exec!KeepsReading, ExecType, BlocksAccounted
  <2>3. CapturesAreFinal' /\ CallerKnows' /\ Exec!NoChildLeft'
    BY <1>1 DEF Exec!reads, ExecType, CapturesAreFinal, CallerKnows, Exec!NoChildLeft, Exec!Alive
  <2>4. QED
    BY <2>1, <2>2, <2>3
<1>2. CASE Exec!read_ends(s) \/ Exec!read_fails(s)
  <2> USE DEF Exec!read_ends, Exec!read_fails, Exec!processes
  <2>1. ExecType' /\ BlocksAccounted'
    BY <1>2 DEF ExecType, BlocksAccounted
  <2>2. CapturesAreFinal'
    <3>1. CASE Exec!read_ends(s)
      BY <3>1 DEF ExecType, CapturesAreFinal, Exec!EndOfFile, Exec!Overflow, Exec!Alive
    <3>2. CASE Exec!read_fails(s)
      BY <3>2 DEF ExecType, CapturesAreFinal, Exec!Alive
    <3>3. QED
      BY <1>2, <3>1, <3>2
  <2>3. UNCHANGED <<caller, outcome, child>> /\ reader[s] = "reading"
          /\ \A t \in Streams : t # s => reader'[t] = reader[t]
    BY <1>2 DEF ExecType
  <2>4. CallerKnows'
    BY <2>3, ExecFacts DEF CallerKnows
  <2>5. QED
    BY <2>1, <2>2, <2>3, <2>4 DEF Exec!NoChildLeft
<1>3. QED
  BY <1>1, <1>2

(* The steps of run_checked.                                               *)
LEMMA CallerStep ==
    ASSUME ExecInv,
           \/ Exec!deadline_passes \/ Exec!check \/ Exec!spawn_fails \/ Exec!spawn
           \/ Exec!Polls \/ Exec!try_wait_fails \/ Exec!kill \/ Exec!kill_fails \/ Exec!reap
           \/ Exec!Collects \/ Exec!decode
    PROVE  ExecInv'
<1> USE DEF ExecInv, Exec!processes, Exec!readers, Exec!Return
<1>1. CASE Exec!spawn
  BY <1>1 DEF Exec!spawn, ExecType, BlocksAccounted, CapturesAreFinal, CallerKnows,
              Exec!NoChildLeft
<1>2. CASE Exec!deadline_passes \/ Exec!check \/ Exec!spawn_fails \/ Exec!try_wait_fails
             \/ Exec!kill_fails \/ Exec!try_wait_late
  <2> USE DEF Exec!deadline_passes, Exec!check, Exec!spawn_fails, Exec!try_wait_fails,
              Exec!kill_fails, Exec!try_wait_late
  <2>1. ExecType' /\ BlocksAccounted' /\ CapturesAreFinal'
    BY <1>2 DEF ExecType, BlocksAccounted, CapturesAreFinal, Exec!Alive
  <2>2. CallerKnows' /\ Exec!NoChildLeft'
    BY <1>2 DEF ExecType, CallerKnows, Exec!NoChildLeft
  <2>3. QED
    BY <2>1, <2>2
<1>3. CASE Exec!try_wait_ended \/ Exec!kill \/ Exec!reap
  <2> USE DEF Exec!try_wait_ended, Exec!kill, Exec!reap, Exec!Reaps
  <2>1. ExecType' /\ BlocksAccounted' /\ CapturesAreFinal'
    BY <1>3 DEF ExecType, BlocksAccounted, CapturesAreFinal, Exec!Alive
  <2>2. CallerKnows' /\ Exec!NoChildLeft'
    BY <1>3 DEF ExecType, CallerKnows, Exec!NoChildLeft
  <2>3. QED
    BY <2>1, <2>2
<1>4. ASSUME NEW s \in Streams, Exec!collect(s) PROVE ExecInv'
  <2>1. s = "stdout" \/ s = "stderr"
    BY ExecFacts
  <2>2. ExecType' /\ BlocksAccounted' /\ CapturesAreFinal'
    BY <1>4, <2>1 DEF Exec!collect, ExecType, BlocksAccounted, CapturesAreFinal, Exec!Alive
  <2>3. CallerKnows' /\ Exec!NoChildLeft'
    BY <1>4, <2>1 DEF Exec!collect, Exec!Collected, ExecType, CallerKnows, Exec!NoChildLeft
  <2>4. QED
    BY <2>2, <2>3
<1>5. CASE Exec!decode
  <2>1. ExecType' /\ BlocksAccounted' /\ CapturesAreFinal'
    BY <1>5 DEF Exec!decode, ExecType, BlocksAccounted, CapturesAreFinal, Exec!Alive
  <2>2. CallerKnows' /\ Exec!NoChildLeft'
    BY <1>5, ExecFacts DEF Exec!decode, ExecType, CallerKnows, Exec!NoChildLeft
  <2>3. QED
    BY <2>1, <2>2
<1>6. QED
  BY <1>1, <1>2, <1>3, <1>4, <1>5 DEF Exec!Polls, Exec!Collects

(* So it holds in every state of the call.                                 *)
LEMMA ExecHolds == Exec!Spec => []ExecInv
<1>1. Exec!Init => ExecInv
  BY ExecFacts DEF Exec!Init, ExecInv, ExecType, BlocksAccounted, CapturesAreFinal, CallerKnows,
         Exec!NoChildLeft
<1>2. ExecInv /\ [Exec!Next]_(Exec!vars) => ExecInv'
  <2> SUFFICES ASSUME ExecInv, [Exec!Next]_(Exec!vars) PROVE ExecInv'
    OBVIOUS
  <2>1. CASE Exec!Next
    BY <2>1, ProcessStep, ReaderStep, CallerStep DEF Exec!Next
  <2>2. CASE UNCHANGED Exec!vars
    BY <2>2 DEF Exec!vars, Exec!processes, Exec!readers, ExecInv, ExecType, BlocksAccounted,
                CapturesAreFinal, Exec!Alive, CallerKnows, Exec!NoChildLeft
  <2>3. QED
    BY <2>1, <2>2
<1>3. QED
  BY <1>1, <1>2, PTL DEF Exec!Spec

(* HOST.Exec.Run returns a result only when nobody can write to a stream   *)
(* any more and every block was kept; CAPTURE_LIMIT only past the ceiling. *)
THEOREM OutputIsWhole == Exec!Spec => []ResultIsComplete
<1>1. ExecInv => ResultIsComplete
  <2> SUFFICES ASSUME ExecInv PROVE ResultIsComplete
    OBVIOUS
  <2>1. ASSUME outcome \in {"Ok", "INVALID_UTF8"}
        PROVE  ~Exec!Alive /\ \A s \in Streams : kept[s] = written[s]
    <3>1. \A s \in Streams : /\ reader[s] = "complete" /\ pipe[s] = 0 /\ ~Exec!Alive
                             /\ ~(total[s] > Limit)
      BY <2>1 DEF ExecInv, CallerKnows, CapturesAreFinal
    <3>2. QED
      BY <3>1, ExecFacts DEF ExecInv, ExecType, BlocksAccounted
  <2>2. ASSUME outcome = "CAPTURE_LIMIT" PROVE \E s \in Streams : written[s] > Limit
    <3>1. PICK s \in Streams : reader[s] = "overflow"
      BY <2>2 DEF ExecInv, CallerKnows
    <3>2. written[s] = pipe[s] + total[s] /\ total[s] > Limit
      BY <3>1 DEF ExecInv, BlocksAccounted, CapturesAreFinal
    <3>3. QED
      BY <3>2, ExecFacts DEF ExecInv, ExecType
  <2>3. QED
    BY <2>1, <2>2 DEF ResultIsComplete, Exec!ResultIsComplete
<1>2. QED
  BY <1>1, ExecHolds, PTL

(* HOST.Exec.Run returns with its child waited for, whatever the order of  *)
(* its end, the deadline and the kill, unless the system refused.          *)
THEOREM ChildIsReaped == Exec!Spec => []NoChildLeft
<1>1. ExecInv => NoChildLeft
  BY DEF ExecInv, NoChildLeft
<1>2. QED
  BY <1>1, ExecHolds, PTL
=============================================================================
