--------------------------- MODULE DispatchMutex ---------------------------
(***************************************************************************)
(* BNDispatch Mutex: libraries/bn_stdlib/src/dispatch_sync.rs, and how the *)
(* end of a task releases it (libraries/bn_lib_dispatch/src/lib.rs, Async; *)
(* libraries/bn_stdlib/src/dispatch_abi.rs).                               *)
(*                                                                         *)
(* The owner is recorded as a thread, while the language says that a task  *)
(* holds the lock: worker threads run one task after another, and what a   *)
(* task leaves locked is unlocked after it returns and before its ticket   *)
(* is settled.  A panic in the task goes past the unlocking: its ticket is *)
(* settled as failed (bn_core_dispatch/src/lib.rs) with the lock taken,    *)
(* and its thread, which goes on to other tasks, still the owner.          *)
(***************************************************************************)
EXTENDS Naturals, FiniteSets

CONSTANTS Threads,   \* worker threads
          Tasks,     \* tasks they run, one after another
          None       \* no thread, no task

\* Assumed of the constants by the module that instantiates this one.
MutexConstants == None \notin Threads /\ None \notin Tasks

VARIABLES owner,    \* DispatchMutex.state: the thread, or None
          pc,       \* each thread in lock: outside, about to check, asleep
          expired,  \* its deadline has passed
          task,     \* the task each thread is running, or None
          phase,    \* where each task is
          holder    \* history: the task that took the lock

vars == <<owner, pc, expired, task, phase, holder>>

Asleep == {w \in Threads : pc[w] = "sleep"}
Awake == {w \in Threads : pc[w] = "check"}

Running(w) == task[w] # None /\ phase[task[w]] = "running" /\ pc[w] = "out"

Init == /\ owner = None
        /\ pc = [w \in Threads |-> "out"]
        /\ expired = [w \in Threads |-> FALSE]
        /\ task = [w \in Threads |-> None]
        /\ phase = [k \in Tasks |-> "ready"]
        /\ holder = None

task_starts(w, k) == /\ task[w] = None /\ phase[k] = "ready"
                     /\ task' = [task EXCEPT ![w] = k]
                     /\ phase' = [phase EXCEPT ![k] = "running"]
                     /\ UNCHANGED <<owner, pc, expired, holder>>

lock(w) == /\ Running(w)
           /\ pc' = [pc EXCEPT ![w] = "check"]
           /\ UNCHANGED <<owner, expired, task, phase, holder>>

(* Variant: every turn of the loop waits for the whole timeout again.      *)
TimeLeftRestarted(w) == TRUE

TimeLeft(w) == ~expired[w]

lock_ok(w) == /\ pc[w] = "check" /\ owner = None
              /\ owner' = w
              /\ holder' = task[w]
              /\ pc' = [pc EXCEPT ![w] = "out"]
              /\ expired' = [expired EXCEPT ![w] = FALSE]
              /\ UNCHANGED <<task, phase>>

lock_timeout(w) == /\ pc[w] = "check" /\ owner # None /\ ~TimeLeft(w)
                   /\ pc' = [pc EXCEPT ![w] = "out"]
                   /\ expired' = [expired EXCEPT ![w] = FALSE]
                   /\ UNCHANGED <<owner, task, phase, holder>>

lock_sleep(w) == /\ pc[w] = "check" /\ owner # None /\ TimeLeft(w)
                 /\ pc' = [pc EXCEPT ![w] = "sleep"]
                 /\ UNCHANGED <<owner, expired, task, phase, holder>>

(* wait_timeout ends at the deadline, or spuriously at any time.           *)
lock_wakes(w) == /\ pc[w] = "sleep"
                 /\ pc' = [pc EXCEPT ![w] = "check"]
                 /\ UNCHANGED <<owner, expired, task, phase, holder>>

DeadlinePasses(w) == /\ pc[w] # "out" /\ ~expired[w]
                     /\ expired' = [expired EXCEPT ![w] = TRUE]
                     /\ UNCHANGED <<owner, pc, task, phase, holder>>

notify_one == IF Asleep = {} THEN pc' = pc
              ELSE \E v \in Asleep : pc' = [pc EXCEPT ![v] = "check"]

unlock(w) == /\ Running(w) /\ owner = w
             /\ owner' = None
             /\ holder' = None
             /\ notify_one
             /\ UNCHANGED <<expired, task, phase>>

task_returns(w) == /\ Running(w)
                   /\ phase' = [phase EXCEPT ![task[w]] = "returned"]
                   /\ UNCHANGED <<owner, pc, expired, task, holder>>

(* catch_unwind settles the ticket; nobody has unlocked anything.          *)
task_panics(w) == /\ Running(w)
                  /\ phase' = [phase EXCEPT ![task[w]] = "panicked"]
                  /\ task' = [task EXCEPT ![w] = None]
                  /\ UNCHANGED <<owner, pc, expired, holder>>

(* Variant: the end of a task leaves its lock.                             *)
LeaveLocked(w) == UNCHANGED <<owner, holder, pc>>

unlock_if_held_by(w) == IF owner = w
                        THEN owner' = None /\ holder' = None /\ notify_one
                        ELSE UNCHANGED <<owner, holder, pc>>

unlock_held(w) == /\ task[w] # None /\ phase[task[w]] = "returned"
                  /\ phase' = [phase EXCEPT ![task[w]] = "unlocked"]
                  /\ unlock_if_held_by(w)
                  /\ UNCHANGED <<expired, task>>

(* mark_completed or mark_failed: waiters of the ticket go on.             *)
ticket_settled(w) == /\ task[w] # None /\ phase[task[w]] = "unlocked"
                     /\ phase' = [phase EXCEPT ![task[w]] = "done"]
                     /\ task' = [task EXCEPT ![w] = None]
                     /\ UNCHANGED <<owner, pc, expired, holder>>

Next == \E w \in Threads : \/ \E k \in Tasks : task_starts(w, k)
                           \/ lock(w)
                           \/ lock_ok(w)
                           \/ lock_timeout(w)
                           \/ lock_sleep(w)
                           \/ lock_wakes(w)
                           \/ DeadlinePasses(w)
                           \/ unlock(w)
                           \/ task_returns(w)
                           \/ task_panics(w)
                           \/ unlock_held(w)
                           \/ ticket_settled(w)

Spec == Init /\ [][Next]_vars

(* A thread in lock goes on, and sees its deadline; no task has to return. *)
Fairness(w) ==
    /\ WF_vars(DeadlinePasses(w))
    /\ WF_vars(\/ lock_ok(w) \/ lock_timeout(w) \/ lock_sleep(w)
               \/ expired[w] /\ lock_wakes(w))

-----------------------------------------------------------------------------
TypeOK == /\ owner \in Threads \cup {None}
          /\ pc \in [Threads -> {"out", "check", "sleep"}]
          /\ expired \in [Threads -> BOOLEAN]
          /\ task \in [Threads -> Tasks \cup {None}]
          /\ phase \in [Tasks -> {"ready", "running", "returned", "unlocked", "done",
                              "panicked"}]
          /\ holder \in Tasks \cup {None}

(* The owning thread is still running the task that took the lock: no      *)
(* later task of the same worker inherits it, and nobody who sees the      *)
(* ticket settled finds the lock held by its task.  Only a task that       *)
(* panicked leaves it behind, and the worker's next task that returns      *)
(* gives it back before its own ticket is settled.                         *)
HolderStillRuns ==
    owner # None => /\ holder \in Tasks
                    /\ holder = task[owner] \/ phase[holder] = "panicked"
                    /\ task[owner] # None => phase[task[owner]] \in {"running", "returned"}

(* A free lock and a sleeper: somebody awake is about to check.            *)
NoStrandedSleeper == owner = None /\ Asleep # {} => Awake # {}

(* What has to end, by the caller's deadline at the latest, whatever the   *)
(* tasks do with the lock: one that locks twice waits for itself.          *)
InCall(w) == pc[w] # "out"
=============================================================================
