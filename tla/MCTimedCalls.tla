---------------------------- MODULE MCTimedCalls ----------------------------
(***************************************************************************)
(* The calls that wait with a deadline, in one run: the primitives and the *)
(* queue of BNDispatch, and HOST.Exec.Run.  They share no state, so each   *)
(* is explored by itself: one moves only while the others are unused.      *)
(* Nothing tells the threads of one component apart, nor its tasks or its  *)
(* tickets, so the temporal properties follow one of each.                 *)
(***************************************************************************)
EXTENDS DispatchBarrier

CONSTANTS Callers, Permits, MaxCount,             \* of the semaphore and the group
          Workers, Tasks,                         \* of the mutex
          Streams, PipeSize, Limit, MaxWritten,   \* of HOST.Exec.Run
          Tickets, Clients, QueueWorkers, QueueCallers, MaxPending, NoTicket, NoThread

VARIABLES available, count, cpc, cexpired,
          owner, mpc, mexpired, task, phase, holder,
          caller, outcome, child, heir, pipe, written, reader, total, kept, late,
          closed, tickets, lock, sender, channel, handles, status, released,
          wpc, job, call, target, todo, qexpired, started

Counters == INSTANCE DispatchCounters WITH Threads <- Callers, pc <- cpc, expired <- cexpired
Mutex == INSTANCE DispatchMutex WITH Threads <- Workers, pc <- mpc, expired <- mexpired
Exec == INSTANCE HostExec WITH result <- outcome, expired <- late
Queue == INSTANCE DispatchQueue WITH
             Workers <- QueueWorkers, Callers <- QueueCallers, expired <- qexpired

counters == <<available, count, cpc, cexpired>>
mutex == <<owner, mpc, mexpired, task, phase, holder>>
exec == <<caller, outcome, child, heir, pipe, written, reader, total, kept, late>>
queue == <<closed, tickets, lock, sender, channel, handles, status, released,
           wpc, job, call, target, todo, qexpired, started>>

ASSUME InstanceConstants ==
    Counters!CounterConstants /\ Mutex!MutexConstants /\ Exec!ExecConstants

AllInit == Init /\ Counters!Init /\ Mutex!Init /\ Exec!Init /\ Queue!Init

AllNext ==
    \/ /\ Counters!Init /\ Mutex!Init /\ Exec!Init /\ Queue!Init
       /\ Next /\ UNCHANGED <<counters, mutex, exec, queue>>
    \/ /\ Init /\ Mutex!Init /\ Exec!Init /\ Queue!Init
       /\ Counters!Next /\ UNCHANGED <<vars, mutex, exec, queue>>
    \/ /\ Init /\ Counters!Init /\ Exec!Init /\ Queue!Init
       /\ Mutex!Next /\ UNCHANGED <<vars, counters, exec, queue>>
    \/ /\ Init /\ Counters!Init /\ Mutex!Init /\ Queue!Init
       /\ Exec!Next /\ UNCHANGED <<vars, counters, mutex, queue>>
    \/ /\ Init /\ Counters!Init /\ Mutex!Init /\ Exec!Init
       /\ Queue!Next /\ UNCHANGED <<vars, counters, mutex, exec>>

One(S) == CHOOSE x \in S : TRUE

\* Of the callers of a primitive only the one that is followed has to run.
AllFairSpec ==
    /\ AllInit /\ [][AllNext]_<<vars, counters, mutex, exec, queue>>
    /\ Fairness(One(Waiters)) /\ Counters!Fairness(One(Callers)) /\ Mutex!Fairness(One(Workers))
    /\ Exec!Fairness /\ Queue!Fairness

-----------------------------------------------------------------------------
(* Nobody is stranded asleep: while somebody sleeps, every available       *)
(* permit, and a free mutex, has a caller awake that is about to check for *)
(* it, even when newcomers overtake and notified sleepers time out; and    *)
(* nobody sleeps on an empty group.                                        *)
NoStrandedSleeper ==
    Counters!NoStrandedSleeper /\ Counters!NoSleepAtZero /\ Mutex!NoStrandedSleeper

\* The one followed is in its call: a thread, the program that runs a child,
\* a client of a queue.  No other component moves.
Waiting ==
    \/ InCall(One(Waiters)) \/ Counters!InCall(One(Callers)) \/ Mutex!InCall(One(Workers))
    \/ Exec!InCall \/ Queue!InCall(One(Clients))

\* A task on a queue's worker is in a call on that queue.
TaskWaits == Queue!InCall(One(QueueWorkers))

(* Every call that waits with a deadline returns: Wait of a barrier and of *)
(* a group, Acquire, Lock, HOST.Exec.Run, and Wait, Join and Close of a    *)
(* queue; however often what they wait for passes by unseen, whatever the  *)
(* child and the processes that inherited its streams do.                  *)
TimedCallsReturn == (Waiting ~> ~Waiting) /\ (TaskWaits ~> ~TaskWaits)

(* Every ticket a queue accepted eventually ends or is released, also when *)
(* tasks wait for tickets of their own queue, and when the queue is closed *)
(* or dropped with tickets pending.                                        *)
TicketsEnd ==
    status[One(Tickets)] = "PENDING" ~> Queue!is_terminal(One(Tickets))

(* The owning thread of a mutex is still running the task that took it: no *)
(* later task of the same worker inherits the lock, and nobody who sees    *)
(* the ticket settled finds the lock held by its task.  Only a task that   *)
(* panicked leaves it behind, and the worker's next task that returns      *)
(* gives it back before its own ticket is settled.                         *)
HolderStillRuns == Mutex!HolderStillRuns

(* A result of HOST.Exec.Run is complete, with what the child's own        *)
(* processes wrote after it had ended; an overflow was one.                *)
ResultIsComplete == Exec!ResultIsComplete

(* HOST.Exec.Run leaves no child behind, running or as a zombie, unless    *)
(* the system refused to wait for it or to kill it.                        *)
NoChildLeft == Exec!NoChildLeft

(* HOST.Exec.Run drains a full pipe, past the ceiling too and after the    *)
(* call returned: no process waits for ever to write.                      *)
WritersAreServed ==
    \A s \in Streams : Exec!Blocked(s) ~> ~Exec!Blocked(s)
=============================================================================
