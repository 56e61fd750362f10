------------------------ MODULE DispatchQueueProofs ------------------------
(***************************************************************************)
(* Proofs about DispatchQueue, for any sets of tickets, clients and        *)
(* workers and any bound.  The safety properties are not inductive: they   *)
(* say nothing of jobs already taken, of the lock, or of what the closing  *)
(* thread has still to sweep.  Inv adds what the steps rely on.            *)
(***************************************************************************)
EXTENDS DispatchQueue, FiniteSetTheorems, TLAPS

-----------------------------------------------------------------------------
(* The inductive invariant.                                                *)

(* A worker has a job exactly from recv to the end of the task.            *)
JobInHand == \A w \in Workers : wpc[w] \in {"got", "run"} <=> job[w] \in Tickets

(* A ticket that does not exist yet is nowhere.                            *)
UnbornIsNowhere ==
    \A t \in Tickets : status[t] = "unborn" =>
        /\ t \notin tickets /\ t \notin Queued /\ t \notin started /\ ~released[t]
        /\ \A w \in Workers : job[w] # t

(* The task of a ticket that is PENDING or CANCELLED was never started.    *)
NotYetStarted ==
    \A t \in Tickets : status[t] \in {"PENDING", "CANCELLED"} => t \notin started

(* A RUNNING ticket, released or not, is in the hands of a worker.         *)
RunningIsHeld ==
    \A t \in Tickets : status[t] = "RUNNING" =>
        \E w \in Workers : wpc[w] = "run" /\ job[w] = t

(* A PENDING ticket's job is in the channel or with a worker that has not  *)
(* started it, and an open ticket is in the map.                           *)
PendingIsHeld ==
    \A t \in Tickets : Open(t) =>
        /\ t \in tickets
        /\ status[t] = "PENDING" =>
              t \in Queued \/ \E w \in Workers : wpc[w] = "got" /\ job[w] = t

(* A worker that ended saw the sender gone and the channel empty, and      *)
(* neither ever changes again; the handles go all at once, after that.     *)
WorkersEndLast ==
    /\ \A w \in Workers : wpc[w] = "exited" => ~sender /\ channel = <<>>
    /\ \/ handles = Workers
       \/ handles = {} /\ \A w \in Workers : wpc[w] = "exited"

(* The state lock is held across steps by join's wait and close's sweep.   *)
LockIsHeld ==
    \A p \in Threads : call[p] \in {"joinWait", "closeSweep"} <=> lock = p

(* On a closed queue, a ticket that could still start is one that the      *)
(* sweep in progress has not reached.                                      *)
SweepCovers ==
    closed => \A t \in Tickets : Open(t) /\ status[t] = "PENDING" =>
                  /\ t \in todo
                  /\ \E p \in Threads : call[p] = "closeSweep"

(* A thread inside Ticket::wait has a ticket, and if it sleeps that ticket *)
(* has not ended.                                                          *)
WaitersHaveTickets ==
    \A p \in Threads :
        /\ call[p] \in {"wait", "waitSleep"} =>
              target[p] \in Tickets /\ status[target[p]] # "unborn"
        /\ call[p] = "waitSleep" => ~is_terminal(target[p])

MapBounded == IsFiniteSet(tickets) /\ Cardinality(tickets) <= MaxPending

Inv == /\ TypeOK
       /\ JobInHand
       /\ OneHolder
       /\ UnbornIsNowhere
       /\ NotYetStarted
       /\ RunningIsHeld
       /\ PendingIsHeld
       /\ WorkersEndLast
       /\ LockIsHeld
       /\ SweepCovers
       /\ WaitersHaveTickets
       /\ MapBounded

-----------------------------------------------------------------------------
(* Lemmas about the operators.                                             *)

(* notify_all moves sleeping threads back to a check, and no other: the    *)
(* lock holders stay, and nobody starts to wait.                           *)
WakesOnly(c, d) ==
    /\ d \in [Threads -> Calls]
    /\ \A p \in Threads :
          /\ d[p] \in {"joinWait", "closeSweep"} \/ c[p] \in {"joinWait", "closeSweep"}
                 => d[p] = c[p]
          /\ d[p] \in {"wait", "waitSleep"} => c[p] \in {"wait", "waitSleep"}
          /\ d[p] = "waitSleep" => c[p] = "waitSleep"

LEMMA WakeQueueWakes ==
    ASSUME NEW c \in [Threads -> Calls]
    PROVE  WakesOnly(c, WakeQueue(c))
    BY DEF WakeQueue, WakesOnly, Calls

LEMMA WakeTicketWakes ==
    ASSUME NEW c \in [Threads -> Calls], NEW t
    PROVE  /\ WakesOnly(c, WakeTicket(c, t))
           /\ \A p \in Threads : ~(WakeTicket(c, t)[p] = "waitSleep" /\ target[p] = t)
    BY DEF WakeTicket, WakesOnly, Calls

LEMMA SetStatusWakes ==
    ASSUME TypeOK, NEW t, NEW s, SetStatus(t, s)
    PROVE  /\ WakesOnly(call, call')
           /\ \A p \in Threads : ~(call'[p] = "waitSleep" /\ target[p] = t)
  <1> DEFINE c == WakeTicket(call, t)
  <1>1. /\ WakesOnly(call, c)
        /\ \A p \in Threads : ~(c[p] = "waitSleep" /\ target[p] = t)
    BY WakeTicketWakes DEF TypeOK
  <1>2. WakesOnly(c, call')
    BY <1>1, WakeQueueWakes DEF SetStatus, WakesOnly
  <1> HIDE DEF c
  <1> QED  BY <1>1, <1>2 DEF WakesOnly

(* The jobs in the channel after a send and after a receive.               *)
LEMMA QueuedAfterSend ==
    ASSUME TypeOK, NEW t \in Tickets, channel' = Append(channel, t)
    PROVE  Queued' = Queued \cup {t}
  <1>1. channel \in Seq(Tickets) /\ Len(channel) \in Nat
    BY DEF TypeOK
  <1>2. /\ DOMAIN channel = 1..Len(channel)
        /\ DOMAIN channel' = 1..(Len(channel) + 1)
        /\ channel'[Len(channel) + 1] = t
        /\ \A i \in 1..Len(channel) : channel'[i] = channel[i]
    BY <1>1
  <1> QED  BY <1>1, <1>2 DEF Queued

LEMMA QueuedAfterRecv ==
    ASSUME TypeOK, channel # <<>>, channel' = Tail(channel)
    PROVE  /\ Head(channel) \in Tickets
           /\ Queued = Queued' \cup {Head(channel)}
           /\ channel' \in Seq(Tickets) /\ Len(channel') <= MaxPending
           /\ DOMAIN channel' = 1..(Len(channel) - 1)
           /\ \A i \in DOMAIN channel' : channel'[i] = channel[i + 1]
  <1>1. channel \in Seq(Tickets) /\ Len(channel) \in Nat /\ Len(channel) # 0
    BY DEF TypeOK
  <1>2. /\ DOMAIN channel = 1..Len(channel)
        /\ DOMAIN channel' = 1..(Len(channel) - 1)
        /\ Head(channel) = channel[1]
        /\ \A i \in 1..(Len(channel) - 1) : channel'[i] = channel[i + 1]
    BY <1>1
  <1>3. Queued \subseteq Queued' \cup {Head(channel)}
    <2>1. ASSUME NEW i \in DOMAIN channel
          PROVE  channel[i] = Head(channel) \/ channel[i] \in Queued'
      <3>1. CASE i = 1  BY <3>1, <1>2
      <3>2. CASE i # 1
        <4>1. i - 1 \in DOMAIN channel' /\ channel'[i - 1] = channel[i]
          BY <3>2, <1>1, <1>2
        <4> QED  BY <4>1 DEF Queued
      <3> QED  BY <3>1, <3>2
    <2> QED  BY <2>1 DEF Queued
  <1>4. Queued' \cup {Head(channel)} \subseteq Queued
    BY <1>1, <1>2 DEF Queued
  <1>5. channel' \in Seq(Tickets) /\ Len(channel') <= MaxPending
    BY <1>1, MaxPendingAssumption DEF TypeOK
  <1> QED  BY <1>1, <1>2, <1>3, <1>4, <1>5

-----------------------------------------------------------------------------
(* Type correctness needs JobInHand: what a worker starts is a ticket.     *)

LEMMA InitInv == Init => Inv
  <1> SUFFICES ASSUME Init PROVE Inv  OBVIOUS
  <1>1. TypeOK
    <2>1. channel \in Seq(Tickets) /\ Len(channel) <= MaxPending
      BY MaxPendingAssumption DEF Init
    <2> QED  BY <2>1 DEF Init, TypeOK, Statuses, Calls, Threads
  <1>2. MapBounded
    BY FS_EmptySet, MaxPendingAssumption DEF Init, MapBounded
  <1>3. Queued = {}
    BY DEF Init, Queued
  <1>4. /\ JobInHand /\ OneHolder /\ UnbornIsNowhere /\ NotYetStarted
        /\ RunningIsHeld /\ PendingIsHeld /\ WorkersEndLast
    BY <1>3, ThreadsAssumption DEF Init, JobInHand, OneHolder, UnbornIsNowhere,
       NotYetStarted, RunningIsHeld, PendingIsHeld, WorkersEndLast, Open
  <1>5. LockIsHeld /\ SweepCovers /\ WaitersHaveTickets
    BY ThreadsAssumption DEF Init, LockIsHeld, SweepCovers, WaitersHaveTickets, Threads
  <1> QED  BY <1>1, <1>2, <1>4, <1>5 DEF Inv
(* Each step keeps the types.                                              *)
LEMMA TypeStep == TypeOK /\ JobInHand /\ [Next]_vars => TypeOK'
  <1> SUFFICES ASSUME TypeOK, JobInHand, [Next]_vars PROVE TypeOK'  OBVIOUS
  <1> USE DEF TypeOK, queueVars, ticketVars, workerVars, callVars
  <1>1. ASSUME NEW w \in Workers, worker_recv(w) PROVE TypeOK'
    <2>1. channel' = Tail(channel) /\ channel # <<>>
      BY <1>1 DEF worker_recv, JobsAfterRecv
    <2>2. Head(channel) \in Tickets /\ channel' \in Seq(Tickets) /\ Len(channel') <= MaxPending
      BY <2>1, QueuedAfterRecv
    <2> QED  BY <1>1, <2>2 DEF worker_recv
  <1>2. ASSUME NEW w \in Workers, worker_exit(w) PROVE TypeOK'
    BY <1>2 DEF worker_exit
  <1>3. ASSUME NEW w \in Workers, mark_running(w) PROVE TypeOK'
    <2>1. job[w] \in Tickets  BY <1>3 DEF mark_running, JobInHand
    <2> QED  BY <1>3, <2>1 DEF mark_running, Statuses
  <1>4. ASSUME NEW w \in Workers, task_marks(w) PROVE TypeOK'
    <2>1. call' \in [Threads -> Calls]
      BY <1>4, SetStatusWakes DEF task_marks, WakesOnly
    <2> QED  BY <1>4, <2>1 DEF task_marks, SetStatus, Statuses
  <1>5. ASSUME NEW w \in Workers, task_ends(w) PROVE TypeOK'
    <2>1. call' \in [Threads -> Calls]
      BY <1>5, SetStatusWakes DEF task_ends, WakesOnly
    <2> QED  BY <1>5, <2>1 DEF task_ends, SetStatus, Statuses
  <1>6. ASSUME NEW p \in Threads, NEW t \in Tickets, submit_with(p, t) PROVE TypeOK'
    <2>1. call' \in [Threads -> Calls]
      BY <1>6, WakeQueueWakes DEF submit_with, WakesOnly
    <2>2. channel' \in Seq(Tickets) /\ Len(channel') <= MaxPending
      BY <1>6, MaxPendingAssumption DEF submit_with, ChannelHasRoom
    <2> QED  BY <1>6, <2>1, <2>2 DEF submit_with, Live, Statuses
  <1>7. ASSUME NEW p \in Threads, submit_saturated(p) PROVE TypeOK'
    BY <1>7 DEF submit_saturated, Live
  <1>8. ASSUME NEW p \in Threads, JoinStep(p) PROVE TypeOK'
    BY <1>8 DEF JoinStep, join, join_ok, join_timeout, join_wait, join_sleep,
       Return, Goto, Calls
  <1>9. ASSUME NEW p \in Threads, CloseStep(p) PROVE TypeOK'
    <2>1. ASSUME NEW t \in todo, cancel_pending(p, t) PROVE TypeOK'
      <3>1. call' \in [Threads -> Calls]
        BY <2>1, SetStatusWakes DEF cancel_pending, WakesOnly
      <3> QED  BY <2>1, <3>1 DEF cancel_pending, SetStatus, Statuses
    <2>2. ASSUME close_sender(p) PROVE TypeOK'
      <3>1. [call EXCEPT ![p] = "close"] \in [Threads -> Calls]
        BY DEF Calls
      <3>2. call' \in [Threads -> Calls]
        BY <2>2, <3>1, WakeQueueWakes DEF close_sender, WakesOnly
      <3> QED  BY <2>2, <3>2 DEF close_sender
    <2>3. ASSUME close(p) \/ close_begin(p) \/ close_unlock(p) PROVE TypeOK'
      BY <2>3 DEF close, close_begin, close_unlock, Goto, Calls
    <2>4. ASSUME \/ close_check(p) \/ close_sleep(p) \/ close_finished(p)
                 \/ close_ok(p) \/ close_timeout(p)
          PROVE  TypeOK'
      BY <2>4 DEF close_check, close_sleep, close_finished, close_ok, close_timeout,
                  Return, Goto, Calls
    <2> QED  BY <1>9, <2>1, <2>2, <2>3, <2>4 DEF CloseStep
  <1>10. ASSUME NEW p \in Threads, TicketStep(p) PROVE TypeOK'
    <2>1. ASSUME NEW t \in Tickets, cancel(p, t) PROVE TypeOK'
      <3>1. call' \in [Threads -> Calls]
        BY <2>1, SetStatusWakes DEF cancel, WakesOnly
      <3> QED  BY <2>1, <3>1 DEF cancel, SetStatus, Statuses
    <2>2. ASSUME NEW t \in Tickets, close_ticket(p, t) PROVE TypeOK'
      <3>1. call' \in [Threads -> Calls]
        BY <2>2, WakeTicketWakes DEF close_ticket, NotifyTicketWaiters, WakesOnly
      <3> QED  BY <2>2, <3>1 DEF close_ticket
    <2>3. ASSUME NEW t \in Tickets, wait(p, t) PROVE TypeOK'
      BY <2>3 DEF wait, Goto, Calls
    <2>4. ASSUME wait_return(p) \/ wait_sleep(p) PROVE TypeOK'
      BY <2>4 DEF wait_return, wait_sleep, Return, Goto, Calls
    <2> QED  BY <1>10, <2>1, <2>2, <2>3, <2>4 DEF TicketStep
  <1>11. ASSUME NEW p \in Threads, DeadlinePasses(p) PROVE TypeOK'
    BY <1>11 DEF DeadlinePasses
  <1>12. ASSUME NEW p \in Threads, WaitTimeoutEnds(p) PROVE TypeOK'
    BY <1>12 DEF WaitTimeoutEnds, TimedSleeps, Goto, Calls
  <1>13. ASSUME drop_sender \/ drop_join PROVE TypeOK'
    BY <1>13 DEF drop_sender, drop_join
  <1>14. ASSUME UNCHANGED vars PROVE TypeOK'
    BY <1>14 DEF vars
  <1> QED
    BY <1>1, <1>2, <1>3, <1>4, <1>5, <1>6, <1>7, <1>8, <1>9, <1>10, <1>11,
       <1>12, <1>13, <1>14 DEF Next, WorkerStep
-----------------------------------------------------------------------------
(* Where jobs are.                                                         *)

JobInv == /\ JobInHand
          /\ OneHolder
          /\ UnbornIsNowhere
          /\ NotYetStarted
          /\ RunningIsHeld
          /\ PendingIsHeld
          /\ WorkersEndLast
          /\ MapBounded

jobVars == <<tickets, channel, sender, handles, status, released, wpc, job, started>>

LEMMA JobStutter == JobInv /\ UNCHANGED jobVars => JobInv'
    BY DEF JobInv, jobVars, JobInHand, OneHolder, UnbornIsNowhere, NotYetStarted,
       RunningIsHeld, PendingIsHeld, WorkersEndLast, MapBounded, Queued, Open

(* cancel and the sweep of close: PENDING becomes CANCELLED.               *)
LEMMA CancelKeepsJobs ==
    ASSUME TypeOK, JobInv, NEW t \in Tickets, status[t] = "PENDING",
           status' = [status EXCEPT ![t] = "CANCELLED"],
           UNCHANGED <<tickets, channel, sender, handles, released, wpc, job, started>>
    PROVE  JobInv'
  <1> USE DEF TypeOK, JobInv
  <1>1. Queued' = Queued  BY DEF Queued
  <1>2. JobInHand' /\ OneHolder' /\ WorkersEndLast' /\ MapBounded'
    BY <1>1 DEF JobInHand, OneHolder, WorkersEndLast, MapBounded
  <1>3. UnbornIsNowhere' /\ NotYetStarted'
    BY <1>1 DEF UnbornIsNowhere, NotYetStarted
  <1>4. RunningIsHeld'  BY DEF RunningIsHeld
  <1>5. PendingIsHeld'  BY <1>1 DEF PendingIsHeld, Open
  <1> QED  BY <1>2, <1>3, <1>4, <1>5

(* mark_completed and mark_failed: RUNNING ends.                           *)
LEMMA EndKeepsJobs ==
    ASSUME TypeOK, JobInv, NEW t \in Tickets, status[t] = "RUNNING",
           NEW s \in {"COMPLETED", "FAILED"},
           status' = [status EXCEPT ![t] = s],
           UNCHANGED <<tickets, channel, sender, handles, released, wpc, job, started>>
    PROVE  JobInv'
  <1> USE DEF TypeOK, JobInv
  <1>1. Queued' = Queued  BY DEF Queued
  <1>2. JobInHand' /\ OneHolder' /\ WorkersEndLast' /\ MapBounded'
    BY <1>1 DEF JobInHand, OneHolder, WorkersEndLast, MapBounded
  <1>3. UnbornIsNowhere' /\ NotYetStarted'
    BY <1>1 DEF UnbornIsNowhere, NotYetStarted
  <1>4. RunningIsHeld'  BY DEF RunningIsHeld
  <1>5. PendingIsHeld'  BY <1>1 DEF PendingIsHeld, Open
  <1> QED  BY <1>2, <1>3, <1>4, <1>5

(* A worker puts down a job that is not RUNNING and cannot start.          *)
LEMMA PutDownKeepsJobs ==
    ASSUME TypeOK, JobInv, NEW w \in Workers, wpc[w] \in {"got", "run"},
           wpc[w] = "run" => status[job[w]] # "RUNNING",
           wpc[w] = "got" => released[job[w]] \/ status[job[w]] # "PENDING",
           wpc' = [wpc EXCEPT ![w] = "recv"],
           job' = [job EXCEPT ![w] = NoTicket],
           UNCHANGED <<tickets, channel, sender, handles, status, released, started>>
    PROVE  JobInv'
  <1> USE DEF TypeOK, JobInv
  <1>1. Queued' = Queued  BY DEF Queued
  <1>2. JobInHand'  BY ThreadsAssumption DEF JobInHand
  <1>3. OneHolder'
    BY <1>1, ThreadsAssumption DEF OneHolder
  <1>4. UnbornIsNowhere' /\ NotYetStarted' /\ MapBounded'
    BY <1>1, ThreadsAssumption DEF UnbornIsNowhere, NotYetStarted, MapBounded
  <1>5. RunningIsHeld'
    <2> SUFFICES ASSUME NEW u \in Tickets, status[u] = "RUNNING"
                 PROVE  \E v \in Workers : wpc'[v] = "run" /\ job'[v] = u
      BY DEF RunningIsHeld
    <2>1. PICK v \in Workers : wpc[v] = "run" /\ job[v] = u
      BY DEF RunningIsHeld
    <2>2. v # w  BY <2>1
    <2> QED  BY <2>1, <2>2
  <1>6. PendingIsHeld'
    <2> SUFFICES ASSUME NEW u \in Tickets, Open(u)
                 PROVE  /\ u \in tickets
                        /\ status[u] = "PENDING" =>
                             u \in Queued \/ \E v \in Workers : wpc'[v] = "got" /\ job'[v] = u
      BY <1>1 DEF PendingIsHeld, Open
    <2>1. u \in tickets  BY DEF PendingIsHeld
    <2>2. ASSUME status[u] = "PENDING", u \notin Queued
          PROVE  \E v \in Workers : wpc'[v] = "got" /\ job'[v] = u
      <3>1. PICK v \in Workers : wpc[v] = "got" /\ job[v] = u
        BY <2>2 DEF PendingIsHeld
      <3>2. v # w  BY <3>1, <2>2 DEF Open
      <3> QED  BY <3>1, <3>2
    <2> QED  BY <2>1, <2>2
  <1>7. WorkersEndLast'  BY DEF WorkersEndLast
  <1> QED  BY <1>2, <1>3, <1>4, <1>5, <1>6, <1>7
(* A worker takes the oldest job.                                          *)
LEMMA RecvKeepsJobs ==
    ASSUME TypeOK, JobInv, NEW w \in Workers, worker_recv(w)
    PROVE  JobInv'
  <1> USE DEF TypeOK, JobInv
  <1> DEFINE h == Head(channel)
  <1>1. /\ wpc[w] = "recv" /\ channel # <<>> /\ channel' = Tail(channel)
        /\ job' = [job EXCEPT ![w] = h] /\ wpc' = [wpc EXCEPT ![w] = "got"]
        /\ UNCHANGED <<tickets, sender, handles, status, released, started>>
    BY DEF worker_recv, JobsAfterRecv, ticketVars
  <1>2. /\ h \in Tickets
        /\ Queued = Queued' \cup {h}
        /\ DOMAIN channel' = 1..(Len(channel) - 1)
        /\ \A i \in DOMAIN channel' : channel'[i] = channel[i + 1]
    BY <1>1, QueuedAfterRecv
  <1>3. DOMAIN channel = 1..Len(channel) /\ Len(channel) \in Nat /\ h = channel[1]
        /\ Len(channel) >= 1
    BY <1>1
  <1>4. h \notin Queued'
    <2> SUFFICES ASSUME NEW i \in DOMAIN channel', channel'[i] = h PROVE FALSE
      BY DEF Queued
    <2>1. channel[i + 1] = channel[1] /\ i + 1 \in DOMAIN channel /\ 1 \in DOMAIN channel
      BY <1>2, <1>3
    <2> QED  BY <2>1, <1>2, <1>3 DEF OneHolder
  <1>5. \A v \in Workers : job[v] # h
    BY <1>2 DEF OneHolder
  <1> HIDE DEF h
  <1>6. JobInHand'  BY <1>1, <1>2 DEF JobInHand
  <1>7. OneHolder'
    <2>1. ASSUME NEW i \in DOMAIN channel', NEW j \in DOMAIN channel', channel'[i] = channel'[j]
          PROVE  i = j
      <3>1. i + 1 \in DOMAIN channel /\ j + 1 \in DOMAIN channel
            /\ channel[i + 1] = channel[j + 1] /\ i \in Nat /\ j \in Nat
        BY <1>2, <1>3, <2>1
      <3>2. i + 1 = j + 1  BY <3>1 DEF OneHolder
      <3> QED  BY <3>1, <3>2
    <2>2. ASSUME NEW v \in Workers, job'[v] \in Tickets
          PROVE  job'[v] \notin Queued' /\ \A u \in Workers \ {v} : job'[u] # job'[v]
      BY <1>1, <1>2, <1>4, <1>5, <2>2 DEF OneHolder
    <2> QED  BY <2>1, <2>2 DEF OneHolder
  <1>8. UnbornIsNowhere' /\ NotYetStarted' /\ MapBounded'
    BY <1>1, <1>2 DEF UnbornIsNowhere, NotYetStarted, MapBounded
  <1>9. RunningIsHeld'
    BY <1>1 DEF RunningIsHeld
  <1>10. PendingIsHeld'
    <2> SUFFICES ASSUME NEW u \in Tickets, Open(u)
                 PROVE  /\ u \in tickets
                        /\ status[u] = "PENDING" =>
                             u \in Queued' \/ \E v \in Workers : wpc'[v] = "got" /\ job'[v] = u
      BY <1>1 DEF PendingIsHeld, Open
    <2>1. u \in tickets  BY DEF PendingIsHeld
    <2>2. CASE u = h
      BY <1>1, <2>1, <2>2
    <2>3. ASSUME u # h, status[u] = "PENDING", u \notin Queued'
          PROVE  \E v \in Workers : wpc'[v] = "got" /\ job'[v] = u
      <3>1. PICK v \in Workers : wpc[v] = "got" /\ job[v] = u
        BY <1>2, <2>3 DEF PendingIsHeld
      <3>2. v # w  BY <1>1, <3>1
      <3> QED  BY <1>1, <3>1, <3>2
    <2> QED  BY <2>1, <2>2, <2>3
  <1>11. WorkersEndLast'
    BY <1>1 DEF WorkersEndLast
  <1> QED  BY <1>6, <1>7, <1>8, <1>9, <1>10, <1>11

(* A worker starts the ticket it holds, or puts the job down.              *)
LEMMA MarkRunningKeepsJobs ==
    ASSUME TypeOK, JobInv, NEW w \in Workers, mark_running(w)
    PROVE  JobInv'
  <1> USE DEF TypeOK, JobInv
  <1> DEFINE t == job[w]
  <1>1. wpc[w] = "got" /\ t \in Tickets
    BY DEF mark_running, JobInHand
  <1>2. CASE ~MayStart(t)
    BY <1>1, <1>2, PutDownKeepsJobs DEF mark_running, MayStart, queueVars
  <1>3. CASE MayStart(t)
    <2>1. /\ status[t] = "PENDING" /\ ~released[t]
          /\ status' = [status EXCEPT ![t] = "RUNNING"]
          /\ started' = started \cup {t}
          /\ wpc' = [wpc EXCEPT ![w] = "run"]
          /\ UNCHANGED <<tickets, channel, sender, handles, released, job>>
      BY <1>3 DEF mark_running, MayStart, queueVars
    <2>2. Queued' = Queued  BY <2>1 DEF Queued
    <2>3. JobInHand' /\ OneHolder' /\ MapBounded' /\ WorkersEndLast'
      BY <1>1, <2>1, <2>2 DEF JobInHand, OneHolder, MapBounded, WorkersEndLast
    <2>4. UnbornIsNowhere' /\ NotYetStarted'
      BY <1>1, <2>1, <2>2 DEF UnbornIsNowhere, NotYetStarted
    <2>5. RunningIsHeld'
      BY <1>1, <2>1 DEF RunningIsHeld
    <2>6. PendingIsHeld'
      <3> SUFFICES ASSUME NEW u \in Tickets, Open(u)'
                   PROVE  /\ u \in tickets
                          /\ status'[u] = "PENDING" =>
                               u \in Queued \/ \E v \in Workers : wpc'[v] = "got" /\ job'[v] = u
        BY <2>1, <2>2 DEF PendingIsHeld
      <3>1. Open(u) /\ u \in tickets
        BY <1>1, <2>1 DEF Open, PendingIsHeld
      <3>2. ASSUME status'[u] = "PENDING", u \notin Queued
            PROVE  \E v \in Workers : wpc'[v] = "got" /\ job'[v] = u
        <4>1. u # t /\ status[u] = "PENDING"  BY <1>1, <2>1, <3>2
        <4>2. PICK v \in Workers : wpc[v] = "got" /\ job[v] = u
          BY <3>1, <3>2, <4>1 DEF PendingIsHeld
        <4>3. v # w  BY <4>1, <4>2
        <4> QED  BY <2>1, <4>2, <4>3
      <3> QED  BY <3>1, <3>2
    <2> QED  BY <2>3, <2>4, <2>5, <2>6
  <1> QED  BY <1>2, <1>3

(* The task returns or panics: its ticket is settled, the job put down.    *)
LEMMA TaskEndKeepsJobs ==
    ASSUME TypeOK, JobInv, NEW w \in Workers, task_ends(w)
    PROVE  JobInv'
  <1> USE DEF TypeOK, JobInv
  <1> DEFINE t == job[w]
  <1>1. /\ wpc[w] = "run" /\ t \in Tickets
        /\ wpc' = [wpc EXCEPT ![w] = "recv"]
        /\ job' = [job EXCEPT ![w] = NoTicket]
        /\ UNCHANGED <<tickets, channel, sender, handles, released, started>>
    BY DEF task_ends, JobInHand, queueVars
  <1>2. \/ status' = [status EXCEPT ![t] = "FAILED"] /\ status[t] = "RUNNING"
        \/ status' = [status EXCEPT ![t] = "COMPLETED"] /\ status[t] = "RUNNING"
        \/ status' = status /\ status[t] # "RUNNING"
    BY DEF task_ends, SetStatus
  <1>3. Queued' = Queued  BY <1>1 DEF Queued
  <1>4. JobInHand' /\ MapBounded' /\ WorkersEndLast'
    BY <1>1, ThreadsAssumption DEF JobInHand, MapBounded, WorkersEndLast
  <1>5. OneHolder'
    BY <1>1, <1>3, ThreadsAssumption DEF OneHolder
  <1>6. UnbornIsNowhere' /\ NotYetStarted'
    BY <1>1, <1>2, <1>3, ThreadsAssumption DEF UnbornIsNowhere, NotYetStarted
  <1>7. RunningIsHeld'
    <2> SUFFICES ASSUME NEW u \in Tickets, status'[u] = "RUNNING"
                 PROVE  \E v \in Workers : wpc'[v] = "run" /\ job'[v] = u
      BY DEF RunningIsHeld
    <2>1. u # t /\ status[u] = "RUNNING"  BY <1>1, <1>2
    <2>2. PICK v \in Workers : wpc[v] = "run" /\ job[v] = u
      BY <2>1 DEF RunningIsHeld
    <2> QED  BY <1>1, <2>1, <2>2
  <1>8. PendingIsHeld'
    <2> SUFFICES ASSUME NEW u \in Tickets, Open(u)'
                 PROVE  /\ u \in tickets
                        /\ status'[u] = "PENDING" =>
                             u \in Queued \/ \E v \in Workers : wpc'[v] = "got" /\ job'[v] = u
      BY <1>1, <1>3 DEF PendingIsHeld
    <2>1. Open(u) /\ u \in tickets /\ (status'[u] = "PENDING" => status[u] = "PENDING")
      BY <1>1, <1>2 DEF Open, PendingIsHeld
    <2>2. ASSUME status'[u] = "PENDING", u \notin Queued
          PROVE  \E v \in Workers : wpc'[v] = "got" /\ job'[v] = u
      <3>1. PICK v \in Workers : wpc[v] = "got" /\ job[v] = u
        BY <2>1, <2>2 DEF PendingIsHeld
      <3>2. v # w  BY <1>1, <3>1
      <3> QED  BY <1>1, <3>1, <3>2
    <2> QED  BY <2>1, <2>2
  <1> QED  BY <1>4, <1>5, <1>6, <1>7, <1>8
(* submit_with prunes the map of tickets that cannot run, and adds one.    *)
LEMMA PruneKeepsOpen ==
    ASSUME TypeOK, JobInv
    PROVE  /\ IsFiniteSet(Live) /\ Cardinality(Live) \in Nat
           /\ Cardinality(Live) <= MaxPending
           /\ \A u \in Tickets : Open(u) => u \in Live
  <1>1. Live \subseteq tickets  BY DEF Live
  <1>2. /\ IsFiniteSet(Live) /\ Cardinality(Live) \in Nat
        /\ Cardinality(tickets) \in Nat /\ Cardinality(Live) <= Cardinality(tickets)
    BY <1>1, FS_Subset, FS_CardinalityType DEF JobInv, MapBounded
  <1>3. Cardinality(Live) <= MaxPending
    BY <1>2, MaxPendingAssumption DEF JobInv, MapBounded
  <1>4. \A u \in Tickets : Open(u) => u \in Live
    BY DEF JobInv, PendingIsHeld, Open, Live, is_terminal, Done
  <1> QED  BY <1>2, <1>3, <1>4

LEMMA SubmitKeepsJobs ==
    ASSUME TypeOK, JobInv, NEW p \in Threads, NEW t \in Tickets, submit_with(p, t)
    PROVE  JobInv'
  <1> USE DEF TypeOK, JobInv
  <1>1. /\ status[t] = "unborn" /\ sender
        /\ tickets' = Live \cup {t}
        /\ channel' = Append(channel, t)
        /\ status' = [status EXCEPT ![t] = "PENDING"]
        /\ UNCHANGED <<sender, handles, released, wpc, job, started>>
    BY DEF submit_with, Dropped, Accepting, workerVars
  <1>2. Queued' = Queued \cup {t}
    BY <1>1, QueuedAfterSend
  <1>3. /\ t \notin Queued /\ t \notin started /\ ~released[t]
        /\ \A w \in Workers : job[w] # t
    BY <1>1 DEF UnbornIsNowhere
  <1>4. /\ Live \subseteq tickets /\ IsFiniteSet(Live) /\ Cardinality(Live) \in Nat
        /\ \A u \in Tickets : Open(u) => u \in Live
    BY PruneKeepsOpen DEF Live
  <1>5. JobInHand'  BY <1>1 DEF JobInHand
  <1>6. OneHolder'
    <2>1. ASSUME NEW i \in DOMAIN channel', NEW j \in DOMAIN channel', channel'[i] = channel'[j]
          PROVE  i = j
      <3>1. /\ DOMAIN channel = 1..Len(channel) /\ Len(channel) \in Nat
            /\ DOMAIN channel' = 1..(Len(channel) + 1)
            /\ channel'[Len(channel) + 1] = t
            /\ \A k \in 1..Len(channel) : channel'[k] = channel[k]
        BY <1>1
      <3>2. \A k \in DOMAIN channel : channel[k] # t
        BY <1>3 DEF Queued
      <3> QED  BY <2>1, <3>1, <3>2 DEF OneHolder
    <2>2. ASSUME NEW v \in Workers, job'[v] \in Tickets
          PROVE  job'[v] \notin Queued' /\ \A u \in Workers \ {v} : job'[u] # job'[v]
      BY <1>1, <1>2, <1>3, <2>2 DEF OneHolder
    <2> QED  BY <2>1, <2>2 DEF OneHolder
  <1>7. UnbornIsNowhere' /\ NotYetStarted'
    BY <1>1, <1>2, <1>3, <1>4 DEF UnbornIsNowhere, NotYetStarted
  <1>8. RunningIsHeld'  BY <1>1 DEF RunningIsHeld
  <1>9. PendingIsHeld'
    <2> SUFFICES ASSUME NEW u \in Tickets, Open(u)'
                 PROVE  /\ u \in tickets'
                        /\ status'[u] = "PENDING" =>
                             u \in Queued' \/ \E v \in Workers : wpc'[v] = "got" /\ job'[v] = u
      BY DEF PendingIsHeld
    <2>1. CASE u = t  BY <1>1, <1>2, <2>1
    <2>2. CASE u # t
      <3>1. Open(u) /\ status'[u] = status[u]
        BY <1>1, <2>2 DEF Open
      <3> QED  BY <1>1, <1>2, <1>4, <3>1 DEF PendingIsHeld
    <2> QED  BY <2>1, <2>2
  <1>10. WorkersEndLast'
    BY <1>1 DEF WorkersEndLast
  <1>11. MapBounded'
    <2>1. Cardinality(Live) < MaxPending
      BY DEF submit_with, MapHasRoom
    <2>2. /\ IsFiniteSet(tickets')
          /\ Cardinality(tickets') \in {Cardinality(Live), Cardinality(Live) + 1}
      BY <1>1, <1>4, FS_AddElement
    <2> QED  BY <1>4, <2>1, <2>2, MaxPendingAssumption DEF MapBounded
  <1> QED  BY <1>5, <1>6, <1>7, <1>8, <1>9, <1>10, <1>11

LEMMA SaturatedKeepsJobs ==
    ASSUME TypeOK, JobInv, NEW p \in Threads, submit_saturated(p)
    PROVE  JobInv'
  <1> USE DEF TypeOK, JobInv
  <1>1. /\ tickets' = Live
        /\ UNCHANGED <<channel, sender, handles, status, released, wpc, job, started>>
    BY DEF submit_saturated, ticketVars, workerVars
  <1>2. Queued' = Queued  BY <1>1 DEF Queued
  <1>3. /\ Live \subseteq tickets /\ MapBounded'
        /\ \A u \in Tickets : Open(u) => u \in Live
    BY <1>1, PruneKeepsOpen DEF MapBounded, Live
  <1>4. JobInHand' /\ OneHolder' /\ NotYetStarted' /\ RunningIsHeld' /\ WorkersEndLast'
    BY <1>1, <1>2 DEF JobInHand, OneHolder, NotYetStarted, RunningIsHeld, WorkersEndLast
  <1>5. UnbornIsNowhere' /\ PendingIsHeld'
    BY <1>1, <1>2, <1>3 DEF UnbornIsNowhere, PendingIsHeld, Open
  <1> QED  BY <1>3, <1>4, <1>5

(* Ticket::close.                                                          *)
LEMMA ReleaseKeepsJobs ==
    ASSUME TypeOK, JobInv, NEW p \in Threads, NEW t \in Tickets, close_ticket(p, t)
    PROVE  JobInv'
  <1> USE DEF TypeOK, JobInv
  <1>1. /\ status[t] # "unborn"
        /\ released' = [released EXCEPT ![t] = TRUE]
        /\ UNCHANGED <<tickets, channel, sender, handles, status, wpc, job, started>>
    BY DEF close_ticket, queueVars, workerVars
  <1>2. Queued' = Queued  BY <1>1 DEF Queued
  <1>3. /\ JobInHand' /\ OneHolder' /\ NotYetStarted' /\ RunningIsHeld'
        /\ WorkersEndLast' /\ MapBounded'
    BY <1>1, <1>2 DEF JobInHand, OneHolder, NotYetStarted, RunningIsHeld,
       WorkersEndLast, MapBounded
  <1>4. UnbornIsNowhere' /\ PendingIsHeld'
    BY <1>1, <1>2 DEF UnbornIsNowhere, PendingIsHeld, Open
  <1> QED  BY <1>3, <1>4

(* The sender goes, workers end, and their handles are joined.             *)
LEMMA EndKeepsWorkers ==
    ASSUME TypeOK, JobInv,
           UNCHANGED <<tickets, channel, status, released, job, started>>,
           \/ sender' = FALSE /\ UNCHANGED <<handles, wpc>>
           \/ (\A w \in handles : wpc[w] = "exited") /\ handles' = {} /\ UNCHANGED <<sender, wpc>>
           \/ \E w \in Workers : /\ wpc[w] = "recv" /\ ~sender /\ channel = <<>>
                                 /\ wpc' = [wpc EXCEPT ![w] = "exited"]
                                 /\ UNCHANGED <<sender, handles>>
    PROVE  JobInv'
  <1> USE DEF TypeOK, JobInv
  <1>1. Queued' = Queued  BY DEF Queued
  <1>2. OneHolder' /\ UnbornIsNowhere' /\ NotYetStarted' /\ MapBounded'
    BY <1>1 DEF OneHolder, UnbornIsNowhere, NotYetStarted, MapBounded
  <1>3. JobInHand' /\ RunningIsHeld'
    BY DEF JobInHand, RunningIsHeld
  <1>4. PendingIsHeld'
    BY <1>1 DEF PendingIsHeld, Open
  <1>5. WorkersEndLast'
    BY DEF WorkersEndLast
  <1> QED  BY <1>2, <1>3, <1>4, <1>5

LEMMA JobStep == TypeOK /\ JobInv /\ [Next]_vars => JobInv'
  <1> SUFFICES ASSUME TypeOK, JobInv, [Next]_vars PROVE JobInv'  OBVIOUS
  <1> USE DEF queueVars, ticketVars, workerVars, callVars
  <1>1. ASSUME NEW w \in Workers, WorkerStep(w) PROVE JobInv'
    <2>1. ASSUME worker_exit(w) PROVE JobInv'
      BY <2>1, EndKeepsWorkers DEF worker_exit, Disconnected
    <2>2. ASSUME task_marks(w) PROVE JobInv'
      <3>1. job[w] \in Tickets  BY <2>2 DEF task_marks, JobInv, JobInHand
      <3> QED  BY <2>2, <3>1, EndKeepsJobs DEF task_marks, SetStatus
    <2> QED  BY <1>1, <2>1, <2>2, RecvKeepsJobs, MarkRunningKeepsJobs, TaskEndKeepsJobs
             DEF WorkerStep
  <1>2. ASSUME NEW p \in Threads, JoinStep(p) PROVE JobInv'
    BY <1>2, JobStutter DEF JoinStep, join, join_ok, join_timeout, join_wait, join_sleep, jobVars
  <1>3. ASSUME NEW p \in Threads, CloseStep(p) PROVE JobInv'
    <2>1. ASSUME NEW t \in todo, cancel_pending(p, t) PROVE JobInv'
      <3>1. t \in Tickets  BY DEF TypeOK
      <3>2. CASE status[t] = "PENDING"
        BY <2>1, <3>1, <3>2, CancelKeepsJobs DEF cancel_pending, SetStatus
      <3>3. CASE status[t] # "PENDING"
        BY <2>1, <3>3, JobStutter DEF cancel_pending, jobVars
      <3> QED  BY <3>2, <3>3
    <2>2. ASSUME close_sender(p) PROVE JobInv'
      BY <2>2, EndKeepsWorkers DEF close_sender
    <2>3. ASSUME close_ok(p) PROVE JobInv'
      BY <2>3, EndKeepsWorkers DEF close_ok, Finished
    <2>4. ASSUME \/ close(p) \/ close_begin(p) \/ close_unlock(p)
                 \/ close_check(p) \/ close_sleep(p) \/ close_finished(p) \/ close_timeout(p)
          PROVE  JobInv'
      BY <2>4, JobStutter DEF close, close_begin, close_unlock, close_check,
         close_sleep, close_finished, close_timeout, jobVars
    <2> QED  BY <1>3, <2>1, <2>2, <2>3, <2>4 DEF CloseStep
  <1>4. ASSUME NEW p \in Threads, TicketStep(p) PROVE JobInv'
    <2>1. ASSUME NEW t \in Tickets, cancel(p, t) PROVE JobInv'
      BY <2>1, CancelKeepsJobs DEF cancel, Cancellable, SetStatus
    <2>2. ASSUME NEW t \in Tickets, wait(p, t) PROVE JobInv'
      BY <2>2, JobStutter DEF wait, jobVars
    <2>3. ASSUME wait_return(p) \/ wait_sleep(p) PROVE JobInv'
      BY <2>3, JobStutter DEF wait_return, wait_sleep, jobVars
    <2> QED  BY <1>4, <2>1, <2>2, <2>3, ReleaseKeepsJobs DEF TicketStep
  <1>5. ASSUME NEW p \in Threads, DeadlinePasses(p) \/ WaitTimeoutEnds(p) PROVE JobInv'
    BY <1>5, JobStutter DEF DeadlinePasses, WaitTimeoutEnds, jobVars
  <1>6. ASSUME drop_sender \/ drop_join PROVE JobInv'
    BY <1>6, EndKeepsWorkers DEF drop_sender, drop_join, Finished
  <1>7. ASSUME UNCHANGED vars PROVE JobInv'
    BY <1>7, JobStutter DEF vars, jobVars
  <1> QED  BY <1>1, <1>2, <1>3, <1>4, <1>5, <1>6, <1>7, SubmitKeepsJobs, SaturatedKeepsJobs
           DEF Next
-----------------------------------------------------------------------------
(* Where callers are.                                                      *)

CallInv == LockIsHeld /\ SweepCovers /\ WaitersHaveTickets

(* Steps that only wake threads, start no pending ticket of a closed       *)
(* queue, and leave nobody asleep on a ticket that has ended.              *)
LEMMA WakesKeepCalls ==
    ASSUME TypeOK, CallInv, WakesOnly(call, call'),
           UNCHANGED <<lock, closed, todo, target>>,
           closed => \A t \in Tickets : (Open(t) /\ status[t] = "PENDING")'
                                            => Open(t) /\ status[t] = "PENDING",
           \A t \in Tickets : status'[t] = "unborn" => status[t] = "unborn",
           \A p \in Threads : call'[p] = "waitSleep" => ~is_terminal(target[p])'
    PROVE  CallInv'
  <1> USE DEF TypeOK, CallInv
  <1>1. LockIsHeld'  BY DEF LockIsHeld, WakesOnly
  <1>2. SweepCovers'  BY DEF SweepCovers, WakesOnly
  <1>3. WaitersHaveTickets'  BY DEF WaitersHaveTickets, WakesOnly
  <1> QED  BY <1>1, <1>2, <1>3

(* A caller that holds no lock goes on to a place that needs none.         *)
LEMMA MoveKeepsCalls ==
    ASSUME TypeOK, CallInv, NEW p \in Threads,
           NEW x \in Calls \ {"wait", "waitSleep", "joinWait", "closeSweep"},
           call' = [call EXCEPT ![p] = x],
           call[p] \notin {"joinWait", "closeSweep"},
           \/ UNCHANGED target
           \/ target' = [target EXCEPT ![p] = NoTicket],
           UNCHANGED <<lock, closed, todo, status, released>>
    PROVE  CallInv'
  <1> USE DEF TypeOK, CallInv
  <1>1. LockIsHeld'  BY DEF LockIsHeld
  <1>2. SweepCovers'
    <2>1. ASSUME NEW q \in Threads, call[q] = "closeSweep" PROVE call'[q] = "closeSweep"
      BY <2>1
    <2> QED  BY <2>1 DEF SweepCovers, Open
  <1>3. WaitersHaveTickets'  BY DEF WaitersHaveTickets, is_terminal
  <1> QED  BY <1>1, <1>2, <1>3

LEMMA JoinKeepsCalls ==
    ASSUME Inv, NEW p \in Threads, JoinStep(p)
    PROVE  CallInv'
  <1> USE DEF Inv, CallInv, queueVars, ticketVars
  <1>1. CASE join(p)
    BY <1>1, MoveKeepsCalls DEF join, CanCall, Goto, Calls
  <1>2. CASE join_ok(p) \/ join_timeout(p)
    BY <1>2, MoveKeepsCalls DEF join_ok, join_timeout, Return, Calls
  <1>3. CASE join_wait(p) \/ join_sleep(p)
    <2> USE DEF TypeOK
    <2>1. LockIsHeld'
      BY <1>3, ThreadsAssumption DEF join_wait, join_sleep, Goto, LockIsHeld, Threads
    <2>2. SweepCovers'
      <3>1. ASSUME NEW q \in Threads, call[q] = "closeSweep" PROVE call'[q] = "closeSweep"
        BY <1>3, <3>1 DEF join_wait, join_sleep, Goto
      <3> QED  BY <1>3, <3>1 DEF join_wait, join_sleep, SweepCovers, Open
    <2>3. WaitersHaveTickets'
      BY <1>3 DEF join_wait, join_sleep, Goto, WaitersHaveTickets, is_terminal
    <2> QED  BY <2>1, <2>2, <2>3
  <1> QED  BY <1>1, <1>2, <1>3 DEF JoinStep

LEMMA CloseKeepsCalls ==
    ASSUME Inv, NEW p \in Threads, CloseStep(p)
    PROVE  CallInv'
  <1> USE DEF Inv, CallInv, queueVars, ticketVars
  <1>1. CASE close(p)
    BY <1>1, MoveKeepsCalls DEF close, CanCall, Goto, Calls
  <1>2. CASE close_check(p) \/ close_sleep(p) \/ close_finished(p)
    BY <1>2, MoveKeepsCalls DEF close_check, close_sleep, close_finished, Return, Goto, Calls
  <1>3. CASE close_ok(p) \/ close_timeout(p)
    BY <1>3, MoveKeepsCalls DEF close_ok, close_timeout, Return, Calls
  <1>4. CASE close_begin(p)
    <2> USE DEF TypeOK
    <2>1. LockIsHeld'
      BY <1>4, ThreadsAssumption DEF close_begin, Goto, LockIsHeld, Threads
    <2>2. SweepCovers'
      BY <1>4 DEF close_begin, Goto, SweepCovers, Open, PendingIsHeld
    <2>3. WaitersHaveTickets'
      BY <1>4 DEF close_begin, Goto, WaitersHaveTickets, is_terminal
    <2> QED  BY <2>1, <2>2, <2>3
  <1>5. ASSUME NEW t \in todo, cancel_pending(p, t) PROVE CallInv'
    <2> USE DEF TypeOK
    <2>1. t \in Tickets  OBVIOUS
    <2>2. /\ call[p] = "closeSweep" /\ todo' = todo \ {t}
          /\ UNCHANGED <<closed, lock, target, released>>
          /\ status' = IF status[t] = "PENDING" THEN [status EXCEPT ![t] = "CANCELLED"] ELSE status
      BY <1>5 DEF cancel_pending, SetStatus
    <2>3. WakesOnly(call, call')
      <3>1. CASE status[t] = "PENDING"
        BY <1>5, <3>1, SetStatusWakes DEF cancel_pending
      <3>2. CASE status[t] # "PENDING"
        BY <1>5, <3>2 DEF cancel_pending, WakesOnly
      <3> QED  BY <3>1, <3>2
    <2>4. status[t] = "PENDING" =>
             \A q \in Threads : ~(call'[q] = "waitSleep" /\ target[q] = t)
      BY <1>5, SetStatusWakes DEF cancel_pending
    <2>5. LockIsHeld'  BY <2>2, <2>3 DEF LockIsHeld, WakesOnly
    <2>6. SweepCovers'
      <3>1. call'[p] = "closeSweep"  BY <2>2, <2>3 DEF WakesOnly
      <3>2. ASSUME NEW u \in Tickets, (Open(u) /\ status[u] = "PENDING")', closed
            PROVE  u \in todo'
        <4>1. u # t /\ Open(u) /\ status[u] = "PENDING"
          BY <2>1, <2>2, <3>2 DEF Open
        <4> QED  BY <2>2, <3>2, <4>1 DEF SweepCovers
      <3> QED  BY <2>2, <3>1, <3>2 DEF SweepCovers
    <2>7. WaitersHaveTickets'
      <3> SUFFICES ASSUME NEW q \in Threads
                   PROVE  /\ call'[q] \in {"wait", "waitSleep"} =>
                                target'[q] \in Tickets /\ status'[target'[q]] # "unborn"
                          /\ call'[q] = "waitSleep" => ~is_terminal(target[q])'
        BY DEF WaitersHaveTickets
      <3>1. call'[q] \in {"wait", "waitSleep"} =>
               target'[q] \in Tickets /\ status'[target'[q]] # "unborn"
        BY <2>1, <2>2, <2>3 DEF WaitersHaveTickets, WakesOnly
      <3>2. call'[q] = "waitSleep" => ~is_terminal(target[q])'
        BY <2>1, <2>2, <2>3, <2>4, <3>1 DEF WaitersHaveTickets, WakesOnly, is_terminal
      <3> QED  BY <3>1, <3>2
    <2> QED  BY <2>5, <2>6, <2>7
  <1>6. CASE close_unlock(p)
    <2> USE DEF TypeOK
    <2>1. LockIsHeld'
      BY <1>6, ThreadsAssumption DEF close_unlock, Goto, LockIsHeld, Threads
    <2>2. SweepCovers'
      BY <1>6 DEF close_unlock, SweepCovers, Open
    <2>3. WaitersHaveTickets'
      BY <1>6 DEF close_unlock, Goto, WaitersHaveTickets, is_terminal
    <2> QED  BY <2>1, <2>2, <2>3
  <1>7. CASE close_sender(p)
    <2> USE DEF TypeOK
    <2> DEFINE c == [call EXCEPT ![p] = "close"]
    <2>1. c \in [Threads -> Calls]  BY DEF Calls
    <2>2. WakesOnly(c, call') /\ UNCHANGED <<closed, lock, todo, target, status, released>>
      BY <1>7, <2>1, WakeQueueWakes DEF close_sender
    <2>3. /\ call[p] = "closeSender" /\ c[p] = "close"
          /\ \A q \in Threads \ {p} : c[q] = call[q]
      BY <1>7 DEF close_sender
    <2> HIDE DEF c
    <2>4. LockIsHeld'  BY <2>2, <2>3 DEF LockIsHeld, WakesOnly
    <2>5. SweepCovers'  BY <2>2, <2>3 DEF SweepCovers, WakesOnly, Open
    <2>6. WaitersHaveTickets'  BY <2>2, <2>3 DEF WaitersHaveTickets, WakesOnly, is_terminal
    <2> QED  BY <2>4, <2>5, <2>6
  <1> QED  BY <1>1, <1>2, <1>3, <1>4, <1>5, <1>6, <1>7 DEF CloseStep
LEMMA TicketCallsKeepCalls ==
    ASSUME Inv, NEW p \in Threads, TicketStep(p)
    PROVE  CallInv'
  <1> USE DEF Inv, CallInv, queueVars, ticketVars
  <1>1. ASSUME NEW t \in Tickets, cancel(p, t) PROVE CallInv'
    <2>1. /\ status[t] = "PENDING" /\ SetStatus(t, "CANCELLED")
          /\ status' = [status EXCEPT ![t] = "CANCELLED"]
          /\ UNCHANGED <<lock, closed, todo, target, released>>
      BY <1>1 DEF cancel, Cancellable, SetStatus
    <2>2. /\ WakesOnly(call, call')
          /\ \A q \in Threads : ~(call'[q] = "waitSleep" /\ target[q] = t)
      BY <2>1, SetStatusWakes
    <2>3. \A q \in Threads : call'[q] = "waitSleep" => ~is_terminal(target[q])'
      BY <2>1, <2>2 DEF TypeOK, WakesOnly, WaitersHaveTickets, is_terminal
    <2>4. \A u \in Tickets : /\ (Open(u) /\ status[u] = "PENDING")' => Open(u) /\ status[u] = "PENDING"
                             /\ status'[u] = "unborn" => status[u] = "unborn"
      BY <2>1 DEF TypeOK, Open
    <2> QED  BY <2>1, <2>2, <2>3, <2>4, WakesKeepCalls
  <1>2. ASSUME NEW t \in Tickets, close_ticket(p, t) PROVE CallInv'
    <2>1. /\ released' = [released EXCEPT ![t] = TRUE] /\ call' = WakeTicket(call, t)
          /\ UNCHANGED <<lock, closed, todo, target, status>>
      BY <1>2 DEF close_ticket, NotifyTicketWaiters
    <2>2. /\ WakesOnly(call, call')
          /\ \A q \in Threads : ~(call'[q] = "waitSleep" /\ target[q] = t)
      BY <2>1, WakeTicketWakes DEF TypeOK
    <2>3. \A q \in Threads : call'[q] = "waitSleep" => ~is_terminal(target[q])'
      BY <2>1, <2>2 DEF TypeOK, WakesOnly, WaitersHaveTickets, is_terminal
    <2>4. \A u \in Tickets : (Open(u) /\ status[u] = "PENDING")' => Open(u) /\ status[u] = "PENDING"
      BY <2>1 DEF TypeOK, Open
    <2> QED  BY <2>1, <2>2, <2>3, <2>4, WakesKeepCalls
  <1>3. ASSUME NEW t \in Tickets, wait(p, t) PROVE CallInv'
    <2> USE DEF TypeOK
    <2>1. LockIsHeld'
      BY <1>3 DEF wait, CanCall, Goto, LockIsHeld
    <2>2. SweepCovers'
      <3>1. ASSUME NEW q \in Threads, call[q] = "closeSweep" PROVE call'[q] = "closeSweep"
        BY <1>3, <3>1 DEF wait, CanCall, Goto
      <3> QED  BY <1>3, <3>1 DEF wait, SweepCovers, Open
    <2>3. WaitersHaveTickets'
      BY <1>3 DEF wait, Goto, WaitersHaveTickets, is_terminal
    <2> QED  BY <2>1, <2>2, <2>3
  <1>4. CASE wait_return(p)
    BY <1>4, MoveKeepsCalls DEF wait_return, Return, Calls
  <1>5. CASE wait_sleep(p)
    <2> USE DEF TypeOK
    <2>1. LockIsHeld'
      BY <1>5 DEF wait_sleep, Goto, LockIsHeld
    <2>2. SweepCovers'
      <3>1. ASSUME NEW q \in Threads, call[q] = "closeSweep" PROVE call'[q] = "closeSweep"
        BY <1>5, <3>1 DEF wait_sleep, Goto
      <3> QED  BY <1>5, <3>1 DEF wait_sleep, SweepCovers, Open
    <2>3. WaitersHaveTickets'
      BY <1>5 DEF wait_sleep, Goto, WaitersHaveTickets, is_terminal
    <2> QED  BY <2>1, <2>2, <2>3
  <1> QED  BY <1>1, <1>2, <1>3, <1>4, <1>5 DEF TicketStep

LEMMA CallStep == Inv /\ [Next]_vars => CallInv'
  <1> SUFFICES ASSUME Inv, [Next]_vars PROVE CallInv'  OBVIOUS
  <1> USE DEF Inv, CallInv, queueVars, ticketVars, callVars
  <1>1. ASSUME UNCHANGED <<lock, closed, todo, target, status, released, call>>
        PROVE  CallInv'
    <2>1. WakesOnly(call, call')  BY <1>1 DEF TypeOK, WakesOnly
    <2>2. \A u \in Tickets : (Open(u) /\ status[u] = "PENDING")' => Open(u) /\ status[u] = "PENDING"
      BY <1>1 DEF Open
    <2>3. \A q \in Threads : call'[q] = "waitSleep" => ~is_terminal(target[q])'
      BY <1>1 DEF WaitersHaveTickets, is_terminal
    <2> QED  BY <1>1, <2>1, <2>2, <2>3, WakesKeepCalls
  <1>2. ASSUME NEW w \in Workers, WorkerStep(w) PROVE CallInv'
    <2>1. CASE worker_recv(w) \/ worker_exit(w)
      BY <1>1, <2>1 DEF worker_recv, worker_exit
    <2>2. CASE mark_running(w)
      <3>1. job[w] \in Tickets  BY <2>2 DEF mark_running, JobInHand
      <3>2. /\ UNCHANGED <<lock, closed, todo, target, released, call>>
            /\ \/ UNCHANGED status
               \/ status[job[w]] = "PENDING" /\ status' = [status EXCEPT ![job[w]] = "RUNNING"]
        BY <2>2 DEF mark_running, MayStart
      <3>3. WakesOnly(call, call')  BY <3>2 DEF TypeOK, WakesOnly
      <3>4. \A u \in Tickets : /\ (Open(u) /\ status[u] = "PENDING")' => Open(u) /\ status[u] = "PENDING"
                               /\ status'[u] = "unborn" => status[u] = "unborn"
        BY <3>1, <3>2 DEF TypeOK, Open
      <3>5. \A q \in Threads : call'[q] = "waitSleep" => ~is_terminal(target[q])'
        BY <3>1, <3>2 DEF TypeOK, WaitersHaveTickets, is_terminal, Done
      <3> QED  BY <3>2, <3>3, <3>4, <3>5, WakesKeepCalls
    <2>3. CASE task_marks(w) \/ task_ends(w)
      <3>1. /\ job[w] \in Tickets
            /\ UNCHANGED <<lock, closed, todo, target, released>>
            /\ \/ UNCHANGED <<status, call>>
               \/ /\ status[job[w]] = "RUNNING"
                  /\ \E s \in {"COMPLETED", "FAILED"} : SetStatus(job[w], s)
        BY <2>3 DEF task_marks, task_ends, JobInHand
      <3>2. CASE UNCHANGED <<status, call>>
        BY <1>1, <3>1, <3>2
      <3>3. ASSUME status[job[w]] = "RUNNING", NEW s \in {"COMPLETED", "FAILED"}, SetStatus(job[w], s)
            PROVE  CallInv'
        <4>1. status' = [status EXCEPT ![job[w]] = s]  BY <3>3 DEF SetStatus
        <4>2. /\ WakesOnly(call, call')
              /\ \A q \in Threads : ~(call'[q] = "waitSleep" /\ target[q] = job[w])
          BY <3>3, SetStatusWakes
        <4>3. \A u \in Tickets : /\ (Open(u) /\ status[u] = "PENDING")' => Open(u) /\ status[u] = "PENDING"
                                 /\ status'[u] = "unborn" => status[u] = "unborn"
          BY <3>1, <4>1 DEF TypeOK, Open
        <4>4. \A q \in Threads : call'[q] = "waitSleep" => ~is_terminal(target[q])'
          BY <3>1, <4>1, <4>2 DEF TypeOK, WakesOnly, WaitersHaveTickets, is_terminal
        <4> QED  BY <3>1, <4>2, <4>3, <4>4, WakesKeepCalls
      <3> QED  BY <3>1, <3>2, <3>3
    <2> QED  BY <1>2, <2>1, <2>2, <2>3 DEF WorkerStep
  <1>3. ASSUME NEW p \in Threads, NEW t \in Tickets, submit_with(p, t) PROVE CallInv'
    <2>1. /\ ~closed /\ status[t] = "unborn" /\ status' = [status EXCEPT ![t] = "PENDING"]
          /\ UNCHANGED <<lock, closed, todo, target, released>>
      BY <1>3 DEF submit_with, Accepting
    <2>2. WakesOnly(call, call')
      BY <1>3, WakeQueueWakes DEF submit_with, TypeOK
    <2>3. \A u \in Tickets : status'[u] = "unborn" => status[u] = "unborn"
      BY <2>1 DEF TypeOK
    <2>4. \A q \in Threads : call'[q] = "waitSleep" => ~is_terminal(target[q])'
      BY <2>1, <2>2 DEF TypeOK, WakesOnly, WaitersHaveTickets, is_terminal, Done
    <2> QED  BY <2>1, <2>2, <2>3, <2>4, WakesKeepCalls
  <1>4. ASSUME NEW p \in Threads, submit_saturated(p) \/ DeadlinePasses(p) PROVE CallInv'
    BY <1>1, <1>4 DEF submit_saturated, DeadlinePasses
  <1>5. ASSUME NEW p \in Threads, WaitTimeoutEnds(p) PROVE CallInv'
    <2>1. UNCHANGED <<lock, closed, todo, target, status, released>>
      BY <1>5 DEF WaitTimeoutEnds
    <2>2. CASE call[p] = "waitSleep"
      <3>1. call' = [call EXCEPT ![p] = "wait"]
        BY <1>5, <2>2 DEF WaitTimeoutEnds, Goto
      <3>2. WakesOnly(call, call')
        BY <2>2, <3>1 DEF TypeOK, WakesOnly, Calls
      <3>3. \A q \in Threads : call'[q] = "waitSleep" => ~is_terminal(target[q])'
        BY <2>1, <3>2 DEF WaitersHaveTickets, is_terminal, WakesOnly
      <3>4. \A u \in Tickets : (Open(u) /\ status[u] = "PENDING")' => Open(u) /\ status[u] = "PENDING"
        BY <2>1 DEF Open
      <3> QED  BY <2>1, <3>2, <3>3, <3>4, WakesKeepCalls
    <2>3. CASE call[p] # "waitSleep"
      <3>1. \E x \in {"join", "close"} : call' = [call EXCEPT ![p] = x]
        BY <1>5, <2>3 DEF WaitTimeoutEnds, TimedSleeps, Goto
      <3>2. call[p] \in {"joinSleep", "closeSleep"}
        BY <1>5, <2>3 DEF WaitTimeoutEnds, TimedSleeps
      <3> QED  BY <2>1, <3>1, <3>2, MoveKeepsCalls DEF Calls
    <2> QED  BY <2>2, <2>3
  <1>6. ASSUME drop_sender \/ drop_join PROVE CallInv'
    BY <1>1, <1>6 DEF drop_sender, drop_join
  <1>7. ASSUME UNCHANGED vars PROVE CallInv'
    BY <1>1, <1>7 DEF vars
  <1> QED  BY <1>2, <1>3, <1>4, <1>5, <1>6, <1>7, JoinKeepsCalls, CloseKeepsCalls,
              TicketCallsKeepCalls DEF Next
-----------------------------------------------------------------------------
(* The invariant holds in every reachable state.                           *)
THEOREM InvHolds == Spec => []Inv
  <1>1. Init => Inv  BY InitInv
  <1>2. Inv /\ [Next]_vars => Inv'
    <2> SUFFICES ASSUME Inv, [Next]_vars PROVE Inv'  OBVIOUS
    <2>1. TypeOK'  BY TypeStep DEF Inv
    <2>2. JobInv'  BY JobStep DEF Inv, JobInv
    <2>3. CallInv'  BY CallStep
    <2> QED  BY <2>1, <2>2, <2>3 DEF Inv, JobInv, CallInv
  <1> QED  BY <1>1, <1>2, PTL DEF Spec

(* Types, and the bound of the channel of Queue::new.                      *)
THEOREM TypesHold == Spec => []TypeOK
  <1>1. Inv => TypeOK  BY DEF Inv
  <1> QED  BY <1>1, InvHolds, PTL

(* No accepted task is lost between submit_with, the channel, the workers  *)
(* and the map that join and close scan.                                   *)
THEOREM NoJobIsLost == Spec => []NoLostJob
  <1>1. Inv => NoLostJob
    BY DEF Inv, PendingIsHeld, RunningIsHeld, NoLostJob
  <1> QED  BY <1>1, InvHolds, PTL

(* No job is in two places, so no task runs twice.                         *)
THEOREM JobsHaveOneHolder == Spec => []OneHolder
  <1>1. Inv => OneHolder  BY DEF Inv
  <1> QED  BY <1>1, InvHolds, PTL

(* The tickets that can still run fit in pending_tickets_max.              *)
THEOREM PendingStaysBounded == Spec => []PendingBounded
  <1>1. Inv => PendingBounded
    <2> SUFFICES ASSUME Inv PROVE PendingBounded  OBVIOUS
    <2> DEFINE S == {t \in Tickets : Open(t)}
    <2>1. S \subseteq tickets  BY DEF Inv, PendingIsHeld
    <2>2. /\ Cardinality(S) <= Cardinality(tickets)
          /\ Cardinality(S) \in Nat /\ Cardinality(tickets) \in Nat
      BY <2>1, FS_Subset, FS_CardinalityType DEF Inv, MapBounded
    <2> HIDE DEF S
    <2>3. Cardinality(S) <= MaxPending
      BY <2>2, MaxPendingAssumption DEF Inv, MapBounded
    <2> QED  BY <2>3 DEF S, PendingBounded
  <1> QED  BY <1>1, InvHolds, PTL

(* A task whose ticket was cancelled was never started.                    *)
THEOREM CancelledTasksNeverStart == Spec => []CancelledNeverStarts
  <1>1. Inv => CancelledNeverStarts
    BY DEF Inv, NotYetStarted, CancelledNeverStarts
  <1> QED  BY <1>1, InvHolds, PTL

(* Ticket::wait misses no notification.                                    *)
THEOREM WaitMissesNothing == Spec => []NoSleepOnEndedTicket
  <1>1. Inv => NoSleepOnEndedTicket
    BY DEF Inv, WaitersHaveTickets, NoSleepOnEndedTicket
  <1> QED  BY <1>1, InvHolds, PTL

(* After close's sweep nothing that could be waited on is PENDING.         *)
THEOREM SweepLeavesNonePending == Spec => []NoPendingAfterSweep
  <1>1. Inv => NoPendingAfterSweep
    BY DEF Inv, SweepCovers, NoPendingAfterSweep
  <1> QED  BY <1>1, InvHolds, PTL

(* A queue whose workers were joined is quiet.                             *)
THEOREM ClosedQueueIsQuiet == Spec => []ClosedIsQuiet
  <1>1. Inv => ClosedIsQuiet
    <2> SUFFICES ASSUME Inv, handles = {}, Workers # {} PROVE
                  /\ channel = <<>>
                  /\ \A w \in Workers : wpc[w] = "exited"
                  /\ \A t \in Tickets : status[t] # "RUNNING"
                  /\ \A t \in Tickets : status[t] # "unborn" => is_terminal(t)
      BY DEF ClosedIsQuiet
    <2>1. \A w \in Workers : wpc[w] = "exited"
      BY DEF Inv, WorkersEndLast
    <2>2. channel = <<>> /\ Queued = {}
      BY <2>1 DEF Inv, WorkersEndLast, Queued
    <2>3. \A t \in Tickets : status[t] # "RUNNING"
      BY <2>1 DEF Inv, RunningIsHeld
    <2>4. \A t \in Tickets : ~(Open(t) /\ status[t] = "PENDING")
      BY <2>1, <2>2 DEF Inv, PendingIsHeld
    <2>5. \A t \in Tickets : status[t] # "unborn" => is_terminal(t)
      BY <2>3, <2>4 DEF Inv, TypeOK, Statuses, Open, is_terminal, Done
    <2> QED  BY <2>1, <2>2, <2>3, <2>5
  <1> QED  BY <1>1, InvHolds, PTL

(* join returns Ok only when every accepted ticket has ended or was        *)
(* released, the pruned ones included.                                     *)
THEOREM JoinWaitsForAll == Spec => JoinOkMeansTerminal
  <1>1. ASSUME Inv, [Next]_vars, NEW p \in Clients, join_ok(p),
               NEW t \in Tickets, status[t] # "unborn"
        PROVE  is_terminal(t)
    <2>1. CASE t \in tickets  BY <1>1, <2>1 DEF join_ok, AllTerminal
    <2>2. CASE t \notin tickets
      BY <1>1, <2>2 DEF Inv, TypeOK, Statuses, PendingIsHeld, Open, is_terminal, Done
    <2> QED  BY <2>1, <2>2
  <1>2. Inv /\ [Next]_vars =>
          [\A p \in Clients : join_ok(p) =>
              \A t \in Tickets : status[t] # "unborn" => is_terminal(t)]_vars
    BY <1>1
  <1> QED  BY <1>2, InvHolds, PTL DEF Spec, JoinOkMeansTerminal

(* Every step of the queue is a step of the promised ticket life cycle, or *)
(* changes no ticket.                                                      *)
THEOREM ImplementsLifecycle == Spec => LifecycleRefined
  <1>1. Init => Life!Init
    BY DEF Init, Life!Init
  <1>2. Inv /\ [Next]_vars => [Life!Next]_(Life!lifeVars)
    <2> SUFFICES ASSUME Inv, [Next]_vars PROVE Life!Next \/ UNCHANGED <<status, released>>
      BY DEF Life!lifeVars
    <2> USE DEF queueVars, ticketVars, workerVars, callVars
    <2>1. ASSUME NEW w \in Workers, WorkerStep(w)
          PROVE  Life!Next \/ UNCHANGED <<status, released>>
      <3>1. CASE worker_recv(w) \/ worker_exit(w)
        BY <3>1 DEF worker_recv, worker_exit
      <3>2. CASE mark_running(w)
        <4>1. job[w] \in Tickets  BY <3>2 DEF mark_running, Inv, JobInHand
        <4>2. Life!Start(job[w]) \/ UNCHANGED <<status, released>>
          BY <3>2 DEF mark_running, MayStart, Life!Start, Life!Move
        <4> QED  BY <4>1, <4>2 DEF Life!Next
      <3>3. CASE task_marks(w) \/ task_ends(w)
        <4>1. job[w] \in Tickets  BY <3>3 DEF task_marks, task_ends, Inv, JobInHand
        <4>2. \/ Life!Complete(job[w]) \/ Life!Fail(job[w])
              \/ UNCHANGED <<status, released>>
          BY <3>3 DEF task_marks, task_ends, SetStatus, Life!Complete, Life!Fail, Life!Move
        <4> QED  BY <4>1, <4>2 DEF Life!Next
      <3> QED  BY <2>1, <3>1, <3>2, <3>3 DEF WorkerStep
    <2>2. ASSUME NEW p \in Threads, NEW t \in Tickets, submit_with(p, t)
          PROVE  Life!Next
      <3>1. Life!Accept(t)  BY <2>2 DEF submit_with, Life!Accept, Life!Move
      <3> QED  BY <3>1 DEF Life!Next
    <2>3. ASSUME NEW p \in Threads, JoinStep(p) PROVE UNCHANGED <<status, released>>
      BY <2>3 DEF JoinStep, join, join_ok, join_timeout, join_wait, join_sleep
    <2>4. ASSUME NEW p \in Threads, CloseStep(p)
          PROVE  Life!Next \/ UNCHANGED <<status, released>>
      <3>1. ASSUME NEW t \in todo, cancel_pending(p, t)
            PROVE  Life!Next \/ UNCHANGED <<status, released>>
        <4>1. t \in Tickets  BY DEF Inv, TypeOK
        <4>2. Life!Cancel(t) \/ UNCHANGED <<status, released>>
          BY <3>1 DEF cancel_pending, SetStatus, Life!Cancel, Life!Move
        <4> QED  BY <4>1, <4>2 DEF Life!Next
      <3> QED  BY <2>4, <3>1 DEF CloseStep, close, close_begin, close_unlock, close_sender,
                  close_check, close_sleep, close_finished, close_ok, close_timeout
    <2>5. ASSUME NEW p \in Threads, TicketStep(p)
          PROVE  Life!Next \/ UNCHANGED <<status, released>>
      <3>1. ASSUME NEW t \in Tickets, cancel(p, t) PROVE Life!Next
        <4>1. Life!Cancel(t)
          BY <3>1 DEF cancel, Cancellable, SetStatus, Life!Cancel, Life!Move
        <4> QED  BY <4>1 DEF Life!Next
      <3>2. ASSUME NEW t \in Tickets, close_ticket(p, t) PROVE Life!Next
        <4>1. Life!Release(t)  BY <3>2 DEF close_ticket, Life!Release
        <4> QED  BY <4>1 DEF Life!Next
      <3> QED  BY <2>5, <3>1, <3>2 DEF TicketStep, wait, wait_return, wait_sleep
    <2>6. ASSUME NEW p \in Threads, submit_saturated(p) \/ DeadlinePasses(p) \/ WaitTimeoutEnds(p)
          PROVE  UNCHANGED <<status, released>>
      BY <2>6 DEF submit_saturated, DeadlinePasses, WaitTimeoutEnds
    <2>7. ASSUME drop_sender \/ drop_join PROVE UNCHANGED <<status, released>>
      BY <2>7 DEF drop_sender, drop_join
    <2>8. ASSUME UNCHANGED vars PROVE UNCHANGED <<status, released>>
      BY <2>8 DEF vars
    <2> QED  BY <2>1, <2>2, <2>3, <2>4, <2>5, <2>6, <2>7, <2>8 DEF Next
  <1> QED  BY <1>1, <1>2, InvHolds, PTL DEF Spec, LifecycleRefined, Life!Spec
=============================================================================
