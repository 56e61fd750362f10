--------------------------- MODULE DispatchQueue ---------------------------
(***************************************************************************)
(* A BNDispatch queue: libraries/bn_core_dispatch/src/lib.rs.              *)
(*                                                                         *)
(* Client threads and the tasks that run on the queue's own workers submit *)
(* tasks, wait for tickets, cancel and release them, and join, close or    *)
(* drop the queue.  One step is one critical section: what a thread does   *)
(* between taking a lock and releasing it, or between two accesses to      *)
(* shared state.  The queue's `state` lock is a variable, because `join`   *)
(* and `close` keep it over several accesses to ticket locks; the ticket   *)
(* lock is implicit, each of its critical sections being one step.  The    *)
(* scan `tickets.values().all(is_terminal)` is one step: is_terminal never *)
(* goes back to false, and no ticket is added while the lock is held.      *)
(***************************************************************************)
EXTENDS Naturals, Sequences, FiniteSets

CONSTANTS Tickets,      \* tickets that may be created
          Clients,      \* threads outside the queue's worker pool
          Workers,      \* the queue's worker threads
          Callers,      \* threads that use the queue: clients, and tasks
          MaxPending,   \* bn_limits dispatch pending_tickets_max
          NoTicket,     \* a worker that holds no job
          NoThread      \* nobody holds the queue's state lock

ASSUME ThreadsAssumption == /\ Clients \cap Workers = {}
                            /\ NoThread \notin Clients \cup Workers
                            /\ Callers \subseteq Clients \cup Workers
                            /\ NoTicket \notin Tickets
ASSUME MaxPendingAssumption == MaxPending \in Nat \ {0}

VARIABLES closed,    \* QueueState.closed
          tickets,   \* QueueState.tickets: the ids in the map
          lock,      \* who holds QueueInner.state
          sender,    \* QueueInner.sender is Some
          channel,   \* the jobs in the bounded channel, oldest first
          handles,   \* QueueInner.worker_handles
          status,    \* TicketState.status; "unborn" before the ticket exists
          released,  \* TicketState.closed
          wpc,       \* what each worker's loop is doing
          job,       \* the job each worker took from the channel
          call,      \* where each thread is inside a blocking call
          target,    \* the ticket a thread waits on
          todo,      \* tickets the closing thread has still to cancel
          expired,   \* the call's deadline has passed
          started    \* history: tickets whose task was ever started

queueVars == <<closed, tickets, lock, sender, channel, handles>>
ticketVars == <<status, released>>
workerVars == <<wpc, job>>
callVars == <<call, target, todo, expired>>
vars == <<queueVars, ticketVars, workerVars, callVars, started>>

Threads == Clients \cup Workers

Done == {"COMPLETED", "FAILED", "CANCELLED"}

is_terminal(t) == released[t] \/ status[t] \in Done

(* Variant: a scan that only looks for tickets not yet started.            *)
NonePending == \A t \in tickets : status[t] # "PENDING"

AllTerminal == \A t \in tickets : is_terminal(t)

(* Drop took the sender without closing the queue: nobody can reach it.    *)
Dropped == ~sender /\ ~closed

(* A client, or a task on a worker, that is free to make a call.           *)
CanCall(p) == p \in Callers /\ call[p] = "idle" /\ (p \in Workers => wpc[p] = "run")

-----------------------------------------------------------------------------
(* Condition variables.  A thread asleep on one goes back to its check,    *)
(* which takes the lock again.                                             *)

WakeQueue(c) == [p \in Threads |-> CASE c[p] = "joinSleep"  -> "join"
                                     [] c[p] = "closeSleep" -> "close"
                                     [] OTHER -> c[p]]

WakeTicket(c, t) == [p \in Threads |-> IF c[p] = "waitSleep" /\ target[p] = t
                                       THEN "wait" ELSE c[p]]

(* Every change of a ticket's status notifies its waiters and the queue's. *)
SetStatus(t, s) == /\ status' = [status EXCEPT ![t] = s]
                   /\ call' = WakeQueue(WakeTicket(call, t))

Init == /\ closed = FALSE
        /\ tickets = {}
        /\ lock = NoThread
        /\ sender = TRUE
        /\ channel = <<>>
        /\ handles = Workers
        /\ status = [t \in Tickets |-> "unborn"]
        /\ released = [t \in Tickets |-> FALSE]
        /\ wpc = [w \in Workers |-> "recv"]
        /\ job = [w \in Workers |-> NoTicket]
        /\ call = [p \in Threads |-> "idle"]
        /\ target = [p \in Threads |-> NoTicket]
        /\ todo = {}
        /\ expired = [p \in Threads |-> FALSE]
        /\ started = {}

-----------------------------------------------------------------------------
(* Blocking calls.  What a call returns is told by the action that ends    *)
(* it.  A timeout outside its bound is refused before anything is touched, *)
(* and so are join and close on one of the queue's own workers: only       *)
(* clients take those steps.                                               *)

Return(p) == /\ call' = [call EXCEPT ![p] = "idle"]
             /\ expired' = [expired EXCEPT ![p] = FALSE]

Goto(p, where) == /\ call' = [call EXCEPT ![p] = where]
                  /\ UNCHANGED expired

(* The clock passes the deadline of a call in progress.                    *)
DeadlinePasses(p) == /\ call[p] # "idle" /\ ~expired[p]
                     /\ expired' = [expired EXCEPT ![p] = TRUE]
                     /\ UNCHANGED <<queueVars, ticketVars, workerVars, started,
                                    call, target, todo>>

(* Variant: join waits for a notification, without a timeout.              *)
TimedSleepsNotJoin == {"closeSleep", "waitSleep"}

TimedSleeps == {"joinSleep", "closeSleep", "waitSleep"}

(* wait_timeout ends at the deadline, or spuriously at any time.           *)
WaitTimeoutEnds(p) ==
    /\ call[p] \in TimedSleeps
    /\ Goto(p, CASE call[p] = "joinSleep"  -> "join"
                 [] call[p] = "closeSleep" -> "close"
                 [] call[p] = "waitSleep"  -> "wait")
    /\ UNCHANGED <<queueVars, ticketVars, workerVars, started, target, todo>>

-----------------------------------------------------------------------------
(* Queue::submit_with.  The refusals of a closed queue change nothing; the *)
(* others have already pruned the map.                                     *)

(* Variant: the prune keeps the pending tickets only.                      *)
LiveIfPending == {t \in tickets : status[t] = "PENDING"}

Live == {t \in tickets : ~is_terminal(t)}

(* Variant: a queue that accepts until the sender is gone.                 *)
SenderAlive == sender

MapHasRoom == Cardinality(Live) < MaxPending

ChannelHasRoom == Len(channel) < MaxPending

Accepting == ~closed

submit_with(p, t) ==
    /\ CanCall(p) /\ ~Dropped
    /\ lock = NoThread /\ Accepting
    /\ status[t] = "unborn"
    /\ MapHasRoom /\ ChannelHasRoom
    /\ tickets' = Live \cup {t}
    /\ channel' = Append(channel, t)
    /\ status' = [status EXCEPT ![t] = "PENDING"]
    /\ call' = WakeQueue(call)
    /\ UNCHANGED <<closed, lock, sender, handles, released, workerVars, started,
                   target, todo, expired>>

submit_saturated(p) ==
    /\ CanCall(p) /\ ~Dropped
    /\ lock = NoThread /\ Accepting
    /\ ~(MapHasRoom /\ ChannelHasRoom)
    /\ tickets' = Live
    /\ UNCHANGED <<closed, lock, sender, channel, handles, ticketVars,
                   workerVars, callVars, started>>

-----------------------------------------------------------------------------
(* Queue::join.  The state lock is held from the scan to the wait.         *)

join(p) == /\ p \in Clients /\ CanCall(p) /\ ~Dropped
           /\ Goto(p, "join")
           /\ UNCHANGED <<queueVars, ticketVars, workerVars, started, target, todo>>

join_ok(p) == /\ call[p] = "join" /\ lock = NoThread
              /\ AllTerminal
              /\ Return(p)
              /\ UNCHANGED <<queueVars, ticketVars, workerVars, started, target, todo>>

join_timeout(p) == /\ call[p] = "join" /\ lock = NoThread
                   /\ ~AllTerminal /\ expired[p]
                   /\ Return(p)
                   /\ UNCHANGED <<queueVars, ticketVars, workerVars, started, target, todo>>

join_wait(p) == /\ call[p] = "join" /\ lock = NoThread
                /\ ~AllTerminal /\ ~expired[p]
                /\ lock' = p
                /\ Goto(p, "joinWait")
                /\ UNCHANGED <<closed, tickets, sender, channel, handles,
                               ticketVars, workerVars, started, target, todo>>

join_sleep(p) == /\ call[p] = "joinWait"
                 /\ lock' = NoThread
                 /\ Goto(p, "joinSleep")
                 /\ UNCHANGED <<closed, tickets, sender, channel, handles,
                                ticketVars, workerVars, started, target, todo>>

-----------------------------------------------------------------------------
(* Queue::close.  The flag and the sweep over the map are under one hold   *)
(* of the state lock, but each ticket is cancelled under its own lock: a   *)
(* worker may start a ticket the sweep has not reached.                    *)

close(p) == /\ p \in Clients /\ CanCall(p) /\ ~Dropped
            /\ Goto(p, "closeEnter")
            /\ UNCHANGED <<queueVars, ticketVars, workerVars, started, target, todo>>

close_begin(p) == /\ call[p] = "closeEnter" /\ lock = NoThread
                  /\ closed' = TRUE
                  /\ lock' = p
                  /\ todo' = tickets
                  /\ Goto(p, "closeSweep")
                  /\ UNCHANGED <<tickets, sender, channel, handles, ticketVars,
                                 workerVars, started, target>>

cancel_pending(p, t) ==
    /\ call[p] = "closeSweep" /\ t \in todo
    /\ todo' = todo \ {t}
    /\ IF status[t] = "PENDING" THEN SetStatus(t, "CANCELLED")
                                ELSE UNCHANGED <<status, call>>
    /\ UNCHANGED <<queueVars, released, workerVars, started, target, expired>>

close_unlock(p) == /\ call[p] = "closeSweep" /\ todo = {}
                   /\ lock' = NoThread
                   /\ Goto(p, "closeSender")
                   /\ UNCHANGED <<closed, tickets, sender, channel, handles,
                                  ticketVars, workerVars, started, target, todo>>

close_sender(p) == /\ call[p] = "closeSender"
                   /\ sender' = FALSE
                   /\ call' = WakeQueue([call EXCEPT ![p] = "close"])
                   /\ UNCHANGED <<closed, tickets, lock, channel, handles,
                                  ticketVars, workerVars, started,
                                  target, todo, expired>>

(* The scan; unlike join, close gives the lock up before it sleeps.        *)
close_check(p) ==
    /\ call[p] = "close" /\ lock = NoThread
    /\ \/ AllTerminal /\ Goto(p, "joinWorkers")
       \/ ~AllTerminal /\ expired[p] /\ Return(p)
       \/ ~AllTerminal /\ ~expired[p] /\ Goto(p, "closeWait")
    /\ UNCHANGED <<queueVars, ticketVars, workerVars, started, target, todo>>

close_sleep(p) == /\ call[p] = "closeWait" /\ lock = NoThread
                  /\ Goto(p, "closeSleep")
                  /\ UNCHANGED <<queueVars, ticketVars, workerVars, started, target, todo>>

Finished(w) == wpc[w] = "exited"

(* join_workers_until looks at the handles under one hold of their lock    *)
(* and takes them under another: a second close may have emptied the list. *)
close_finished(p) == /\ call[p] = "joinWorkers"
                     /\ \A w \in handles : Finished(w)
                     /\ Goto(p, "drainWorkers")
                     /\ UNCHANGED <<queueVars, ticketVars, workerVars, started,
                                    target, todo>>

close_ok(p) == /\ call[p] = "drainWorkers"
               /\ \A w \in handles : Finished(w)
               /\ handles' = {}
               /\ Return(p)
               /\ UNCHANGED <<closed, tickets, lock, sender, channel, ticketVars,
                              workerVars, started, target, todo>>

close_timeout(p) == /\ call[p] = "joinWorkers" /\ expired[p]
                    /\ \E w \in handles : ~Finished(w)
                    /\ Return(p)
                    /\ UNCHANGED <<queueVars, ticketVars, workerVars, started,
                                   target, todo>>

-----------------------------------------------------------------------------
(* Drop for QueueInner: the last handle goes while no call that borrows    *)
(* the queue is in progress; a ticket, and so its wait, keeps only a weak  *)
(* reference.                                                              *)

drop_sender == /\ sender /\ ~closed
               /\ \A p \in Threads : call[p] \in {"idle", "wait", "waitSleep"}
               /\ sender' = FALSE
               /\ UNCHANGED <<closed, tickets, lock, channel, handles, ticketVars,
                              workerVars, callVars, started>>

drop_join == /\ Dropped /\ handles # {}
             /\ \A w \in handles : Finished(w)
             /\ handles' = {}
             /\ UNCHANGED <<closed, tickets, lock, sender, channel, ticketVars,
                            workerVars, callVars, started>>

-----------------------------------------------------------------------------
(* Ticket operations, by any thread that holds the ticket.                 *)

Cancellable(t) == status[t] = "PENDING" /\ ~released[t]

cancel(p, t) == /\ CanCall(p)
                /\ Cancellable(t)
                /\ SetStatus(t, "CANCELLED")
                /\ UNCHANGED <<queueVars, released, workerVars, started,
                               target, todo, expired>>

(* Variant: the wrong condition variable is notified.                      *)
NotifyQueueWaiters(t) == WakeQueue(call)

NotifyTicketWaiters(t) == WakeTicket(call, t)

(* Ticket::close notifies the ticket's waiters, not the queue's.           *)
close_ticket(p, t) == /\ CanCall(p)
                      /\ status[t] # "unborn" /\ ~released[t]
                      /\ released' = [released EXCEPT ![t] = TRUE]
                      /\ call' = NotifyTicketWaiters(t)
                      /\ UNCHANGED <<queueVars, status, workerVars, started,
                                     target, todo, expired>>

wait(p, t) == /\ CanCall(p)
              /\ status[t] # "unborn"
              /\ Goto(p, "wait")
              /\ target' = [target EXCEPT ![p] = t]
              /\ UNCHANGED <<queueVars, ticketVars, workerVars, started, todo>>

(* The check and the sleep are under one hold of the ticket's lock.        *)
wait_return(p) == /\ call[p] = "wait"
                  /\ is_terminal(target[p]) \/ expired[p]
                  /\ Return(p)
                  /\ target' = [target EXCEPT ![p] = NoTicket]
                  /\ UNCHANGED <<queueVars, ticketVars, workerVars, started, todo>>

wait_sleep(p) == /\ call[p] = "wait"
                 /\ ~is_terminal(target[p]) /\ ~expired[p]
                 /\ Goto(p, "waitSleep")
                 /\ UNCHANGED <<queueVars, ticketVars, workerVars, started, target, todo>>

-----------------------------------------------------------------------------
(* A worker: take a job, start its ticket unless it was cancelled or       *)
(* released meanwhile, run the task, settle the ticket if the task did     *)
(* not, and end once the sender is gone and the channel is empty.          *)

(* Variants: a worker ends as soon as the sender is gone; only a released  *)
(* ticket is skipped.                                                      *)
SenderGone == ~sender
NotReleased(t) == ~released[t]

JobsAfterRecv == Tail(channel)

Disconnected == channel = <<>> /\ ~sender

MayStart(t) == ~released[t] /\ status[t] = "PENDING"

worker_recv(w) == /\ wpc[w] = "recv" /\ channel # <<>>
                  /\ job' = [job EXCEPT ![w] = Head(channel)]
                  /\ wpc' = [wpc EXCEPT ![w] = "got"]
                  /\ channel' = JobsAfterRecv
                  /\ UNCHANGED <<closed, tickets, lock, sender, handles,
                                 ticketVars, callVars, started>>

worker_exit(w) == /\ wpc[w] = "recv" /\ Disconnected
                  /\ wpc' = [wpc EXCEPT ![w] = "exited"]
                  /\ UNCHANGED <<queueVars, ticketVars, job, callVars, started>>

mark_running(w) ==
    LET t == job[w] IN
    /\ wpc[w] = "got"
    /\ \/ /\ MayStart(t)
          /\ status' = [status EXCEPT ![t] = "RUNNING"]
          /\ started' = started \cup {t}
          /\ wpc' = [wpc EXCEPT ![w] = "run"]
          /\ UNCHANGED job
       \/ /\ ~MayStart(t)
          /\ wpc' = [wpc EXCEPT ![w] = "recv"]
          /\ job' = [job EXCEPT ![w] = NoTicket]
          /\ UNCHANGED <<status, started>>
    /\ UNCHANGED <<queueVars, released, callVars>>

(* mark_completed and mark_failed, called by the task's host code.         *)
task_marks(w) ==
    LET t == job[w] IN
    /\ wpc[w] = "run" /\ call[w] = "idle"
    /\ status[t] = "RUNNING"
    /\ \/ SetStatus(t, "COMPLETED")
       \/ SetStatus(t, "FAILED")
    /\ UNCHANGED <<queueVars, released, workerVars, started,
                   target, todo, expired>>

(* The task returns, or panics: a ticket still RUNNING is settled.         *)
task_ends(w) ==
    LET t == job[w] IN
    /\ wpc[w] = "run" /\ call[w] = "idle"
    /\ \/ status[t] = "RUNNING" /\ SetStatus(t, "FAILED")
       \/ status[t] = "RUNNING" /\ SetStatus(t, "COMPLETED")
       \/ status[t] # "RUNNING" /\ UNCHANGED <<status, call>>
    /\ wpc' = [wpc EXCEPT ![w] = "recv"]
    /\ job' = [job EXCEPT ![w] = NoTicket]
    /\ UNCHANGED <<queueVars, released, started, target, todo, expired>>

-----------------------------------------------------------------------------
WorkerStep(w) == \/ worker_recv(w)
                 \/ worker_exit(w)
                 \/ mark_running(w)
                 \/ task_marks(w)
                 \/ task_ends(w)

JoinStep(p) == \/ join(p)
               \/ join_ok(p)
               \/ join_timeout(p)
               \/ join_wait(p)
               \/ join_sleep(p)

CloseStep(p) == \/ close(p)
                \/ close_begin(p)
                \/ \E t \in todo : cancel_pending(p, t)
                \/ close_unlock(p)
                \/ close_sender(p)
                \/ close_check(p)
                \/ close_sleep(p)
                \/ close_finished(p)
                \/ close_ok(p)
                \/ close_timeout(p)

TicketStep(p) == \/ wait_return(p)
                 \/ wait_sleep(p)
                 \/ \E t \in Tickets : \/ cancel(p, t)
                                       \/ close_ticket(p, t)
                                       \/ wait(p, t)

Next == \/ \E w \in Workers : WorkerStep(w)
        \/ \E p \in Threads : \/ \E t \in Tickets : submit_with(p, t)
                              \/ submit_saturated(p)
                              \/ JoinStep(p)
                              \/ CloseStep(p)
                              \/ TicketStep(p)
                              \/ DeadlinePasses(p)
                              \/ WaitTimeoutEnds(p)
        \/ drop_sender
        \/ drop_join

Spec == Init /\ [][Next]_vars

-----------------------------------------------------------------------------
(* Fairness.  A worker is a running thread and a task ends; a thread       *)
(* inside a call is running too, gets the lock it asks for, and sees its   *)
(* deadline pass.  Nobody has to submit, cancel, release, join, close or   *)
(* drop anything, and no notification is needed: wake-ups are part of the  *)
(* steps that cause them.                                                  *)

(* The steps a thread inside a call takes by itself.                       *)
CallGoesOn(p) == \/ join_ok(p) \/ join_timeout(p) \/ join_wait(p) \/ join_sleep(p)
                 \/ close_begin(p)
                 \/ \E t \in todo : cancel_pending(p, t)
                 \/ close_unlock(p) \/ close_sender(p)
                 \/ close_check(p) \/ close_sleep(p)
                 \/ close_finished(p) \/ close_ok(p) \/ close_timeout(p)
                 \/ wait_return(p) \/ wait_sleep(p)
                 \/ expired[p] /\ WaitTimeoutEnds(p)

WorkerGoesOn(w) == worker_recv(w) \/ worker_exit(w) \/ mark_running(w)

Fairness == /\ \A w \in Workers : WF_vars(WorkerGoesOn(w)) /\ SF_vars(task_ends(w))
            /\ \A p \in Callers : SF_vars(CallGoesOn(p)) /\ WF_vars(DeadlinePasses(p))

-----------------------------------------------------------------------------
(* Properties.                                                             *)

Statuses == {"unborn", "PENDING", "RUNNING", "COMPLETED", "FAILED", "CANCELLED"}
Calls == {"idle", "join", "joinWait", "joinSleep", "closeEnter", "closeSweep",
          "closeSender", "close", "closeWait", "closeSleep", "joinWorkers",
          "drainWorkers", "wait", "waitSleep"}

(* Types; and the channel holds at most pending_tickets_max jobs, although *)
(* cancelled and released tickets leave theirs in it.                      *)
TypeOK == /\ closed \in BOOLEAN
          /\ tickets \in SUBSET Tickets
          /\ lock \in Threads \cup {NoThread}
          /\ sender \in BOOLEAN
          /\ channel \in Seq(Tickets) /\ Len(channel) <= MaxPending
          /\ handles \in SUBSET Workers
          /\ status \in [Tickets -> Statuses]
          /\ released \in [Tickets -> BOOLEAN]
          /\ wpc \in [Workers -> {"recv", "got", "run", "exited"}]
          /\ job \in [Workers -> Tickets \cup {NoTicket}]
          /\ call \in [Threads -> Calls]
          /\ target \in [Threads -> Tickets \cup {NoTicket}]
          /\ todo \in SUBSET Tickets
          /\ expired \in [Threads -> BOOLEAN]
          /\ started \in SUBSET Tickets

Queued == {channel[i] : i \in DOMAIN channel}

Open(t) == ~released[t] /\ status[t] \in {"PENDING", "RUNNING"}

(* No accepted task is lost: a ticket that is neither ended nor released   *)
(* is in the queue's map (so join and close see it), and its job is in the *)
(* channel or in the hands of exactly one worker.                          *)
NoLostJob ==
    \A t \in Tickets : Open(t) =>
        /\ t \in tickets
        /\ status[t] = "PENDING" => t \in Queued \/ \E w \in Workers : job[w] = t
        /\ status[t] = "RUNNING" => \E w \in Workers : wpc[w] = "run" /\ job[w] = t

(* A job is in one place only: submit, receive and cancel never leave two  *)
(* workers, or a worker and the channel, with the same ticket.             *)
OneHolder ==
    /\ \A i, j \in DOMAIN channel : channel[i] = channel[j] => i = j
    /\ \A w \in Workers : job[w] \in Tickets =>
          /\ job[w] \notin Queued
          /\ \A v \in Workers \ {w} : job[v] # job[w]

(* The tickets that can still run never outnumber pending_tickets_max,     *)
(* although cancelled jobs stay in the channel and the map is pruned only  *)
(* by submit_with.                                                         *)
PendingBounded == Cardinality({t \in Tickets : Open(t)}) <= MaxPending

(* Cancel that reported success, and the sweep of close, keep the promise  *)
(* of test cancelling_pending_ticket_prevents_user_code_from_running: a    *)
(* CANCELLED ticket's task was never started, even by a worker that had    *)
(* already taken the job.                                                  *)
CancelledNeverStarts == \A t \in Tickets : status[t] = "CANCELLED" => t \notin started

(* Ticket::wait misses no notification: nobody sleeps on a ticket that has *)
(* ended or was released.                                                  *)
NoSleepOnEndedTicket ==
    \A p \in Threads : call[p] = "waitSleep" => ~is_terminal(target[p])

(* Once a close has joined the workers (it then returned Ok) nothing runs  *)
(* and nothing will: no task is executing, the channel is empty and every  *)
(* ticket has ended, was released, or was never accepted.                  *)
ClosedIsQuiet ==
    handles = {} /\ Workers # {} =>
        /\ channel = <<>>
        /\ \A w \in Workers : wpc[w] = "exited"
        /\ \A t \in Tickets : status[t] # "RUNNING"
        /\ \A t \in Tickets : status[t] # "unborn" => is_terminal(t)

(* Once close has swept the map and let go of the lock, no ticket that     *)
(* could still be waited on is PENDING: close cancels what did not start.  *)
NoPendingAfterSweep ==
    closed /\ (\A p \in Threads : call[p] # "closeSweep") =>
        \A t \in Tickets : ~(Open(t) /\ status[t] = "PENDING")

(* join returns Ok only when every ticket ever accepted, pruned ones       *)
(* included, has ended or was released.                                    *)
JoinOkMeansTerminal ==
    [][\A p \in Clients : join_ok(p) =>
          \A t \in Tickets : status[t] # "unborn" => is_terminal(t)]_vars

(* The queue implements the promise made for each ticket.                  *)
Life == INSTANCE TicketLifecycle WITH phase <- status, closed <- released
LifecycleRefined == Life!Spec

(* What has to end: join, close and wait by their deadlines, whatever      *)
(* notification they miss.                                                 *)
InCall(p) == call[p] # "idle"
=============================================================================
