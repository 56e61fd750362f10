-------------------------- MODULE DispatchCounters --------------------------
(***************************************************************************)
(* The two counting primitives of BNDispatch, used by the same threads:    *)
(* Semaphore and Group, libraries/bn_stdlib/src/dispatch_sync.rs.  Each is *)
(* a number behind a lock with a condvar; every action is one hold of that *)
(* lock.                                                                   *)
(*                                                                         *)
(* A permit that is released wakes one sleeper, but goes to whichever      *)
(* caller checks first: a newcomer may overtake the sleeper that was       *)
(* notified, and a sleeper may leave at its deadline instead.  A group     *)
(* wakes every sleeper, and its count may have left zero again when they   *)
(* look.                                                                   *)
(***************************************************************************)
EXTENDS Naturals, FiniteSets

CONSTANTS Threads,   \* callers
          Permits,   \* SemaphoreState.initial
          MaxCount   \* bound: how far enter counts

\* Assumed of the constants by the module that instantiates this one.
CounterConstants == Permits \in Nat \ {0} /\ MaxCount \in Nat /\ IsFiniteSet(Threads)

VARIABLES available,  \* SemaphoreState.available
          count,      \* DispatchGroup.state
          pc,         \* each caller: outside, about to check, asleep
          expired     \* its deadline has passed

vars == <<available, count, pc, expired>>

At(where) == {p \in Threads : pc[p] = where}

Init == /\ available = Permits
        /\ count = 0
        /\ pc = [p \in Threads |-> "out"]
        /\ expired = [p \in Threads |-> FALSE]

(* A call sets its deadline and goes on to its first check.                *)
Call(p, check) == /\ pc[p] = "out"
                  /\ pc' = [pc EXCEPT ![p] = check]
                  /\ UNCHANGED <<available, count, expired>>

Return(p) == /\ pc' = [pc EXCEPT ![p] = "out"]
             /\ expired' = [expired EXCEPT ![p] = FALSE]

(* Variant: every turn of the loop waits for the whole timeout again.      *)
TimeLeftRestarted(p) == TRUE

TimeLeft(p) == ~expired[p]

Sleep(p, where) == /\ pc' = [pc EXCEPT ![p] = where]
                   /\ UNCHANGED <<available, count, expired>>

(* wait_timeout ends at the deadline, or spuriously at any time.           *)
Wakes(p, where, check) == /\ pc[p] = where
                          /\ pc' = [pc EXCEPT ![p] = check]
                          /\ UNCHANGED <<available, count, expired>>

DeadlinePasses(p) == /\ pc[p] # "out" /\ ~expired[p]
                     /\ expired' = [expired EXCEPT ![p] = TRUE]
                     /\ UNCHANGED <<available, count, pc>>

-----------------------------------------------------------------------------
(* Semaphore.                                                              *)

acquire(p) == Call(p, "acquire")

acquire_ok(p) == /\ pc[p] = "acquire" /\ available # 0
                 /\ available' = available - 1
                 /\ Return(p)
                 /\ UNCHANGED count

acquire_timeout(p) == /\ pc[p] = "acquire" /\ available = 0 /\ ~TimeLeft(p)
                      /\ Return(p)
                      /\ UNCHANGED <<available, count>>

acquire_sleep(p) == /\ pc[p] = "acquire" /\ available = 0 /\ TimeLeft(p)
                    /\ Sleep(p, "sleep")

acquire_wakes(p) == Wakes(p, "sleep", "acquire")

(* Variant: a sleeper is notified only when the first permit comes back.   *)
NotifyFirstOnly == IF At("sleep") = {} \/ available # 0 THEN pc' = pc
                   ELSE \E q \in At("sleep") : pc' = [pc EXCEPT ![q] = "acquire"]

notify_one == IF At("sleep") = {} THEN pc' = pc
              ELSE \E q \in At("sleep") : pc' = [pc EXCEPT ![q] = "acquire"]

SomePermitOut == available # Permits

(* Any thread outside may release, whether or not it acquired.             *)
release(p) == /\ pc[p] = "out"
              /\ SomePermitOut
              /\ available' = available + 1
              /\ notify_one
              /\ UNCHANGED <<count, expired>>

-----------------------------------------------------------------------------
(* Group.                                                                  *)

enter(p) == /\ pc[p] = "out" /\ count < MaxCount
            /\ count' = count + 1
            /\ UNCHANGED <<available, pc, expired>>

NotEmpty == count # 0

notify_all == pc' = [p \in Threads |-> IF pc[p] = "gsleep" THEN "wait" ELSE pc[p]]

leave(p) == /\ pc[p] = "out"
            /\ NotEmpty
            /\ count' = count - 1
            /\ notify_all
            /\ UNCHANGED <<available, expired>>

wait(p) == Call(p, "wait")

wait_returns(p) == /\ pc[p] = "wait"
                   /\ count = 0 \/ ~TimeLeft(p)
                   /\ Return(p)
                   /\ UNCHANGED <<available, count>>

wait_sleeps(p) == /\ pc[p] = "wait" /\ count # 0 /\ TimeLeft(p)
                  /\ Sleep(p, "gsleep")

wait_wakes(p) == Wakes(p, "gsleep", "wait")

-----------------------------------------------------------------------------
Check(p) == \/ acquire_ok(p) \/ acquire_timeout(p) \/ acquire_sleep(p)
            \/ wait_returns(p) \/ wait_sleeps(p)

Next == \E p \in Threads : \/ acquire(p) \/ release(p) \/ acquire_wakes(p)
                           \/ enter(p) \/ leave(p) \/ wait(p) \/ wait_wakes(p)
                           \/ Check(p)
                           \/ DeadlinePasses(p)

Spec == Init /\ [][Next]_vars

(* A thread that is awake goes on, deadlines pass, and wait_timeout ends   *)
(* at the deadline; nobody has to release, leave or be notified.           *)
Fairness(p) ==
    /\ WF_vars(DeadlinePasses(p))
    /\ WF_vars(Check(p) \/ (expired[p] /\ (acquire_wakes(p) \/ wait_wakes(p))))

-----------------------------------------------------------------------------
(* No permit lies idle beside a sleeper: while somebody sleeps, every      *)
(* available permit has a caller awake that is about to check for it, even *)
(* when newcomers overtake and notified sleepers time out.                 *)
NoStrandedSleeper == At("sleep") # {} => available <= Cardinality(At("acquire"))

(* Nobody sleeps on an empty group, also with several waiters and when the *)
(* count leaves zero again before they look: each of them re-checks.       *)
NoSleepAtZero == count = 0 => At("gsleep") = {}

(* What has to end, by the caller's deadline at the latest, however often  *)
(* permits and zero counts pass by while it is not looking.                *)
InCall(p) == pc[p] # "out"
=============================================================================
