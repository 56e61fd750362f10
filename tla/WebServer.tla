------------------------------ MODULE WebServer ------------------------------
(***************************************************************************)
(* The lifecycle of a BNWeb server: libraries/bn_web/src/web/server.rs     *)
(* (ServerState), web/drain.rs (Stop and Close), the listener thread and   *)
(* connection work of libraries/bn_lib_web/src/lib.rs, and the two ways    *)
(* http.rs runs a handler: serially behind a one-permit gate, or as a task *)
(* of a BNDispatch queue.                                                  *)
(*                                                                         *)
(* Threads: the program's (Start, then Stop or Close calls), the listener, *)
(* the workers, one transport future per connection, and one task per      *)
(* handler, which outlives a connection that timed out or went away.  The  *)
(* server state has one lock.  Every step below that reads or writes it is *)
(* one critical section, except begin_stop and the disposal of refused     *)
(* work, which may wait for handler tasks while they hold the lock: they   *)
(* drop the HTTP runtime, and dropping the last reference to it waits for  *)
(* its blocking tasks.                                                     *)
(*                                                                         *)
(* Requests, responses, statistics, routing and the rate limiter are left  *)
(* out (WebRateLimiter models the last); a time limit may expire at any    *)
(* moment.                                                                 *)
(***************************************************************************)
EXTENDS Naturals, Sequences, FiniteSets

CONSTANTS
    Conns,        \* the connections clients open
    Workers,      \* the threads of the worker pool
    ConnLimit,    \* options.active_connections
    PendingWork,  \* options.pending_work
    MaxStops,     \* bound: Stop and Close calls of the program
    None          \* no connection

ASSUME WebConstants ==
    /\ IsFiniteSet(Conns) /\ IsFiniteSet(Workers) /\ Workers # {}
    /\ ConnLimit \in Nat \ {0} /\ PendingWork \in Nat \ {0}
    /\ MaxStops \in Nat
    /\ None \notin Conns

VARIABLES
    server,    \* the fields of ServerState the lifecycle uses
    lock,      \* who holds the state lock between steps: "free" in most states
    gate,      \* the serial gate: its holder, and whether it is closed
    handlers,  \* active_handler_tasks
    listener,  \* the listener thread
    work,      \* the bounded channel to the worker pool
    worker,    \* each worker thread and the connection it serves
    conn,      \* where each connection is
    task,      \* where the handler task of each connection is
    cancelled, \* the connections whose socket Stop has shut down
    stop       \* the program's thread

vars == <<server, lock, gate, handlers, listener, work, worker, conn, task, cancelled, stop>>

threads == <<listener, work, worker, conn, task>>

(***************************************************************************)
(* Who keeps the HTTP runtime alive, and which tasks its drop waits for.   *)
(***************************************************************************)
\* Connections between admission and release_connection.
Admitted == {c \in Conns : conn[c] \in {"admitted", "queued", "serving", "matched",
                                        "submitting", "waiting", "handling", "closing"}}

\* Requests that hold a HandlerAdmissionGuard.
Waiters == {c \in Conns : conn[c] \in {"waiting", "handling"}}

\* Handlers that have begun and not returned.
Running == {c \in Conns : task[c] \in {"entered", "running", "sent"}}

\* Tasks active_handler_tasks counts: begun, waiting in the queue, or about
\* to be submitted to it.
Counted == {c \in Conns : task[c] \in {"counted", "queued", "entered", "running", "sent"}}

Holders ==
    (IF server.runtime THEN {"server"} ELSE {})
      \cup (IF listener.pc \in {"submit", "dispose"} THEN {"listener"} ELSE {})
      \cup {w \in Workers : worker[w].pc \in {"busy", "dropping"}}
      \cup {work[i] : i \in 1 .. Len(work)}

\* Dropping a runtime waits for its blocking tasks: handlers run there in
\* serial mode only.
CanDrop(holder) == Holders \ {holder} # {} \/ server.queue \/ Running = {}

(***************************************************************************)
(* ServerState's small operations.                                         *)
(***************************************************************************)
Minus1(n) == IF n = 0 THEN 0 ELSE n - 1

\* release_connection: the count goes down, the last socket is forgotten.
KeepsCount(s) == [s EXCEPT !.active_sockets = SubSeq(@, 1, Minus1(Len(@)))]

release_connection(s) ==
    [s EXCEPT !.active_connections = Minus1(@),
              !.active_sockets = SubSeq(@, 1, Minus1(Len(@)))]

\* finish_handler, run when the admission guard is dropped.
LeaksAdmission(s) == s

finish_handler(s) == [s EXCEPT !.pending = Minus1(@)]

\* The end of a request in run_serially or run_on_queue: only the first
\* holds an admission.
EndRequest(c) ==
    server' = IF c \in Waiters /\ ~server.queue THEN finish_handler(server) ELSE server

accepting == server.started /\ ~server.stopping /\ ~server.closed

\* reap_finished_workers
Unfinished == {w \in server.workers : worker[w].pc # "gone"}

Init ==
    /\ server = [queue |-> FALSE, started |-> FALSE, stopping |-> FALSE, closed |-> FALSE,
                 pending |-> 0, active_connections |-> 0, active_sockets |-> <<>>,
                 sender |-> FALSE, runtime |-> FALSE, listener |-> FALSE, workers |-> {}]
    /\ lock = "free"
    /\ gate = [holder |-> None, closed |-> FALSE]
    /\ handlers = 0
    /\ listener = [pc |-> "none", conn |-> None]
    /\ work = <<>>
    /\ worker = [w \in Workers |-> [pc |-> "none", conn |-> None]]
    /\ conn = [c \in Conns |-> "new"]
    /\ task = [c \in Conns |-> "none"]
    /\ cancelled = {}
    /\ stop = [pc |-> "idle", close |-> FALSE, expired |-> FALSE, result |-> "none", calls |-> 0]

\* UseQueue, before Start.
use_queue ==
    /\ stop.pc = "idle" /\ lock = "free"
    /\ ~server.started /\ ~server.stopping /\ ~server.closed
    /\ server' = [server EXCEPT !.queue = TRUE]
    /\ UNCHANGED <<lock, gate, handlers, threads, cancelled, stop>>

(***************************************************************************)
(* Start: start_with_options, install_worker_pool, the listener thread and *)
(* install_listener, in the program's thread: no other thread of the       *)
(* server exists before the listener does, so they are one step.           *)
(***************************************************************************)
start_with_options ==
    /\ stop.pc = "idle" /\ lock = "free"
    /\ ~server.started /\ ~server.stopping /\ ~server.closed
    /\ server' = [server EXCEPT !.started = TRUE, !.sender = TRUE, !.runtime = TRUE,
                                !.listener = TRUE, !.workers = Workers]
    /\ worker' = [w \in Workers |-> [pc |-> "idle", conn |-> None]]
    /\ listener' = [listener EXCEPT !.pc = "check"]
    /\ UNCHANGED <<lock, gate, handlers, work, conn, task, cancelled, stop>>

\* The runtime or a worker cannot be made: started stays set, the workers
\* made so far end with the channel, and there is no listener.
install_worker_pool_fails ==
    /\ stop.pc = "idle" /\ lock = "free"
    /\ ~server.started /\ ~server.stopping /\ ~server.closed
    /\ server' = [server EXCEPT !.started = TRUE]
    /\ UNCHANGED <<lock, gate, handlers, listener, worker, work, conn, task, cancelled, stop>>

(***************************************************************************)
(* The listener thread.                                                    *)
(***************************************************************************)
ListenerGoto(pc, c) == listener' = [pc |-> pc, conn |-> c]

\* The loop's first test.
is_stopping ==
    /\ listener.pc = "check" /\ lock = "free"
    /\ ListenerGoto(IF server.stopping \/ server.closed THEN "gone" ELSE "accept", None)
    /\ UNCHANGED <<server, lock, gate, handlers, work, worker, conn, task, cancelled, stop>>

\* accept_timeout returned nothing, or failed and ended the loop.
accept_timeout ==
    /\ listener.pc = "accept"
    /\ \/ ListenerGoto("check", None)
       \/ ListenerGoto("gone", None)
    /\ UNCHANGED <<server, lock, gate, handlers, work, worker, conn, task, cancelled, stop>>

\* admit_connection, then track_connection_socket, under one lock.
AdmitsAndTracks(c) ==
    /\ accepting /\ server.active_connections < ConnLimit
    /\ server' = [server EXCEPT !.active_connections = @ + 1,
                                !.active_sockets = Append(@, c)]
    /\ conn' = [conn EXCEPT ![c] = "admitted"]
    /\ ListenerGoto("runtime", c)

\* The server refuses the connection, or its socket cannot be cloned and
\* release_connection takes the admission back.
Refuses(c) ==
    /\ LET admits == accepting /\ server.active_connections < ConnLimit IN
       server' = IF admits THEN release_connection([server EXCEPT !.active_connections = @ + 1])
                 ELSE server
    /\ conn' = [conn EXCEPT ![c] = "gone"]
    /\ ListenerGoto("check", None)

admit_connection(c) ==
    /\ listener.pc = "accept" /\ conn[c] = "new" /\ lock = "free"
    /\ AdmitsAndTracks(c) \/ Refuses(c)
    /\ UNCHANGED <<lock, gate, handlers, work, worker, task, cancelled, stop>>

\* http_runtime: none once Stop has begun, and the admission is taken back.
http_runtime ==
    /\ listener.pc = "runtime" /\ lock = "free"
    /\ IF server.runtime
       THEN /\ ListenerGoto("submit", listener.conn)
            /\ UNCHANGED <<server, conn>>
       ELSE /\ ListenerGoto("check", None)
            /\ server' = release_connection(server)
            /\ conn' = [conn EXCEPT ![listener.conn] = "gone"]
    /\ UNCHANGED <<lock, gate, handlers, work, worker, task, cancelled, stop>>

\* submit_connection_work: a full or closed channel refuses the work, which
\* is dropped, its runtime reference with it, under the lock.
submit_connection_work ==
    /\ listener.pc = "submit" /\ lock = "free"
    /\ IF server.sender /\ Len(work) < PendingWork
       THEN /\ work' = Append(work, listener.conn)
            /\ conn' = [conn EXCEPT ![listener.conn] = "queued"]
            /\ ListenerGoto("check", None)
            /\ UNCHANGED lock
       ELSE /\ lock' = "listener"
            /\ ListenerGoto("dispose", listener.conn)
            /\ UNCHANGED <<work, conn>>
    /\ UNCHANGED <<server, gate, handlers, worker, task, cancelled, stop>>

DisposeWork ==
    /\ listener.pc = "dispose" /\ CanDrop("listener")
    /\ lock' = "free"
    /\ ListenerGoto("release", listener.conn)
    /\ UNCHANGED <<server, gate, handlers, work, worker, conn, task, cancelled, stop>>

ReleaseRefused ==
    /\ listener.pc = "release" /\ lock = "free"
    /\ server' = release_connection(server)
    /\ conn' = [conn EXCEPT ![listener.conn] = "gone"]
    /\ ListenerGoto("check", None)
    /\ UNCHANGED <<lock, gate, handlers, work, worker, task, cancelled, stop>>

(***************************************************************************)
(* The worker pool.                                                        *)
(***************************************************************************)
\* recv: the next work, or the end of the channel once the sender is gone.
recv(w) ==
    /\ worker[w].pc = "idle"
    /\ \/ /\ work # <<>>
          /\ worker' = [worker EXCEPT ![w] = [pc |-> "busy", conn |-> Head(work)]]
          /\ conn' = [conn EXCEPT ![Head(work)] = "serving"]
          /\ work' = Tail(work)
       \/ /\ work = <<>> /\ ~server.sender
          /\ worker' = [worker EXCEPT ![w].pc = "gone"]
          /\ UNCHANGED <<work, conn>>
    /\ UNCHANGED <<server, lock, gate, handlers, listener, task, cancelled, stop>>

\* run_connection_worker: the connection has ended, or panicked.
run_connection_worker(w) ==
    /\ worker[w].pc = "busy" /\ lock = "free"
    /\ conn[worker[w].conn] = "closing"
    /\ server' = release_connection(server)
    /\ conn' = [conn EXCEPT ![worker[w].conn] = "gone"]
    /\ worker' = [worker EXCEPT ![w].pc = "dropping"]
    /\ UNCHANGED <<lock, gate, handlers, listener, work, task, cancelled, stop>>

\* The end of the work: its runtime reference goes.
WorkEnds(w) ==
    /\ worker[w].pc = "dropping" /\ CanDrop(w)
    /\ worker' = [worker EXCEPT ![w] = [pc |-> "idle", conn |-> None]]
    /\ UNCHANGED <<server, lock, gate, handlers, listener, work, conn, task, cancelled, stop>>

(***************************************************************************)
(* A connection: route_response, run_serially, run_on_queue.               *)
(***************************************************************************)
ConnGoto(c, pc) == conn' = [conn EXCEPT ![c] = pc]

\* dispatch_with_key admits the request and a route matches it; any other
\* outcome is answered at once and leaves the state as it was.
dispatch_with_key(c) ==
    /\ conn[c] = "serving" /\ c \notin cancelled /\ lock = "free"
    /\ accepting /\ server.pending < PendingWork
    /\ ConnGoto(c, "matched")
    /\ UNCHANGED <<server, lock, gate, handlers, listener, work, worker, task, cancelled, stop>>

\* try_begin_handler: past pendingWork the request answers 503.
TryBegin(c) ==
    IF server.pending >= PendingWork
    THEN ConnGoto(c, "serving") /\ UNCHANGED server
    ELSE ConnGoto(c, "waiting") /\ server' = [server EXCEPT !.pending = @ + 1]

try_begin_handler(c) ==
    /\ ~server.queue /\ conn[c] = "matched" /\ lock = "free"
    /\ TryBegin(c)
    /\ UNCHANGED <<lock, gate, handlers, listener, work, worker, task, cancelled, stop>>

\* acquire_owned gives the turn; the handler is counted and spawned.
NoTurn(c) == ~gate.closed

HasTurn(c) == gate.holder = None /\ ~gate.closed

acquire_owned(c) ==
    /\ conn[c] = "waiting" /\ HasTurn(c)
    /\ gate' = [gate EXCEPT !.holder = c]
    /\ handlers' = handlers + 1
    /\ task' = [task EXCEPT ![c] = "entered"]
    /\ ConnGoto(c, "handling")
    /\ UNCHANGED <<server, lock, listener, work, worker, cancelled, stop>>

\* The gate closed (503) or the deadline passed (408) while it waited.
LosesTurn(c) ==
    /\ conn[c] = "waiting" /\ lock = "free"
    /\ EndRequest(c)
    /\ ConnGoto(c, "serving")
    /\ UNCHANGED <<lock, gate, handlers, listener, work, worker, task, cancelled, stop>>

\* run_on_queue: the task is counted before it is submitted.  A task that
\* sent the connection's previous response has ended.
CountsTask(c) ==
    /\ server.queue /\ conn[c] = "matched" /\ lock = "free" /\ task[c] # "sent"
    /\ handlers' = handlers + 1
    /\ task' = [task EXCEPT ![c] = "counted"]
    /\ ConnGoto(c, "submitting")
    /\ UNCHANGED <<server, lock, gate, listener, work, worker, cancelled, stop>>

\* A task dropped unrun is uncounted by its guard.
CountsDropped(c) == UNCHANGED handlers

Uncount(c) == handlers' = handlers - 1

\* A full or closed queue drops the task and the request answers 503.  The
\* future does not yield in between, so the connection cannot end here.
submit_with(c) ==
    /\ task[c] = "counted"
    /\ \/ /\ task' = [task EXCEPT ![c] = "queued"]
          /\ ConnGoto(c, "handling")
          /\ UNCHANGED handlers
       \/ /\ task' = [task EXCEPT ![c] = "none"]
          /\ ConnGoto(c, "serving")
          /\ Uncount(c)
    /\ UNCHANGED <<server, lock, gate, listener, work, worker, cancelled, stop>>

\* The queue runs the task, or drops it unrun when the program closes it.
QueueRuns(c) ==
    /\ task[c] = "queued"
    /\ task' = [task EXCEPT ![c] = "entered"]
    /\ UNCHANGED <<server, lock, gate, handlers, listener, work, worker, conn, cancelled, stop>>

QueueDrops(c) ==
    /\ task[c] = "queued"
    /\ task' = [task EXCEPT ![c] = "returned"]
    /\ Uncount(c)
    /\ UNCHANGED <<server, lock, gate, listener, work, worker, conn, cancelled, stop>>

\* The handler reads its route under the state lock, then runs BN code.
bn_server_handler(c) ==
    /\ task[c] = "entered" /\ lock = "free"
    /\ task' = [task EXCEPT ![c] = "running"]
    /\ UNCHANGED <<server, lock, gate, handlers, listener, work, worker, conn, cancelled, stop>>

\* A task of a queue sends its response while it is still counted.
HandlerSends(c) ==
    /\ server.queue /\ task[c] = "running"
    /\ task' = [task EXCEPT ![c] = "sent"]
    /\ UNCHANGED <<server, lock, gate, handlers, listener, work, worker, conn, cancelled, stop>>

\* The handler returns or panics: its guards give the turn back and uncount
\* it.
HandlerReturns(c) ==
    /\ task[c] \in {"running", "sent"}
    /\ task' = [task EXCEPT ![c] = "returned"]
    /\ gate' = IF gate.holder = c THEN [gate EXCEPT !.holder = None] ELSE gate
    /\ Uncount(c)
    /\ UNCHANGED <<server, lock, listener, work, worker, conn, cancelled, stop>>

\* The response of a handler that returned, or the failure of one that
\* panicked or was dropped with its queue.
finish_handler_response(c) ==
    /\ conn[c] = "handling" /\ task[c] \in {"sent", "returned"} /\ lock = "free"
    /\ EndRequest(c)
    /\ task' = [task EXCEPT ![c] = IF @ = "sent" THEN "sent" ELSE "none"]
    /\ ConnGoto(c, "serving")
    /\ UNCHANGED <<lock, gate, handlers, listener, work, worker, cancelled, stop>>

\* The connection ends: its deadline, its client, its socket shut down by
\* Stop.  A request under way is dropped; its handler task goes on alone.
ConnEnds(c) ==
    /\ conn[c] \in {"serving", "matched", "waiting", "handling"} /\ lock = "free"
    /\ EndRequest(c)
    /\ ConnGoto(c, "closing")
    /\ UNCHANGED <<lock, gate, handlers, listener, work, worker, task, cancelled, stop>>

(***************************************************************************)
(* drain_server: Stop and Close.                                           *)
(***************************************************************************)
StopGoto(pc) == stop' = [stop EXCEPT !.pc = pc]
Return(result) == stop' = [stop EXCEPT !.pc = "idle", !.result = result]

\* begin_stop up to the drop of the runtime, which may wait.
begin_stop(close) ==
    /\ stop.pc = "idle" /\ lock = "free" /\ stop.calls < MaxStops
    /\ stop' = [pc |-> IF server.closed THEN "take" ELSE "runtime", close |-> close,
                expired |-> FALSE, result |-> "none", calls |-> stop.calls + 1]
    /\ lock' = "stop"
    /\ server' = IF server.closed THEN server
                 ELSE [server EXCEPT !.stopping = TRUE, !.pending = 0, !.sender = FALSE]
    /\ UNCHANGED <<gate, handlers, threads, cancelled>>

\* The rest of begin_stop, once the runtime is dropped.
cancel_connections ==
    /\ stop.pc = "runtime"
    /\ server.runtime => CanDrop("server")
    /\ gate' = [gate EXCEPT !.closed = TRUE]
    /\ cancelled' = cancelled \cup {server.active_sockets[i] : i \in 1 .. Len(server.active_sockets)}
    /\ server' = [server EXCEPT !.runtime = FALSE, !.started = FALSE]
    /\ StopGoto("take")
    /\ UNCHANGED <<lock, handlers, threads>>

\* take_listener, and the end of the critical section.
take_listener ==
    /\ stop.pc = "take"
    /\ lock' = "free"
    /\ server' = [server EXCEPT !.listener = FALSE]
    /\ StopGoto(IF server.listener THEN "join" ELSE "finish")
    /\ UNCHANGED <<gate, handlers, threads, cancelled>>

\* The deadline passes.
Expires ==
    /\ stop.pc # "idle" /\ ~stop.expired
    /\ stop' = [stop EXCEPT !.expired = TRUE]
    /\ UNCHANGED <<server, lock, gate, handlers, threads, cancelled>>

\* The join loop: a listener that does not end in time is put back.
JoinForgets == Return("listener") /\ UNCHANGED server

JoinTimesOut ==
    /\ Return("listener")
    /\ server' = [server EXCEPT !.listener = TRUE]

join ==
    /\ stop.pc = "join"
    /\ \/ listener.pc = "gone" /\ StopGoto("finish") /\ UNCHANGED server
       \/ listener.pc # "gone" /\ stop.expired /\ lock = "free" /\ JoinTimesOut
    /\ UNCHANGED <<lock, gate, handlers, threads, cancelled>>

\* One finish_stop: active handlers end the call at once, active
\* connections only at the deadline.
IgnoresHandlers ==
    /\ server.active_connections = 0
    /\ StopGoto("workers")

FinishStop ==
    \/ server.closed /\ StopGoto("workers")
    \/ ~server.closed /\ handlers # 0 /\ Return("handlers")
    \/ /\ ~server.closed /\ handlers = 0 /\ server.active_connections # 0
       /\ stop.expired /\ Return("connections")
    \/ ~server.closed /\ handlers = 0 /\ server.active_connections = 0 /\ StopGoto("workers")

finish_stop ==
    /\ stop.pc = "finish" /\ lock = "free"
    /\ FinishStop
    /\ server' = IF server.closed THEN server ELSE [server EXCEPT !.workers = Unfinished]
    /\ UNCHANGED <<lock, gate, handlers, threads, cancelled>>

\* workers_finished, then mark_closed for Close.
workers_finished ==
    /\ stop.pc = "workers" /\ lock = "free"
    /\ \/ Unfinished # {} /\ stop.expired /\ Return("workers")
       \/ Unfinished # {} /\ ~stop.expired /\ StopGoto("finish")
       \/ Unfinished = {} /\ Return("ok")
    /\ server' = [server EXCEPT !.workers = Unfinished,
                                !.closed = @ \/ (Unfinished = {} /\ stop.close)]
    /\ UNCHANGED <<lock, gate, handlers, threads, cancelled>>

Listener ==
    \/ is_stopping \/ accept_timeout \/ (\E c \in Conns : admit_connection(c))
    \/ http_runtime \/ submit_connection_work \/ DisposeWork \/ ReleaseRefused

Worker(w) == recv(w) \/ run_connection_worker(w) \/ WorkEnds(w)

Connection(c) ==
    \/ dispatch_with_key(c) \/ try_begin_handler(c) \/ acquire_owned(c) \/ LosesTurn(c)
    \/ CountsTask(c) \/ submit_with(c) \/ finish_handler_response(c) \/ ConnEnds(c)

Task(c) == QueueRuns(c) \/ QueueDrops(c) \/ bn_server_handler(c)
           \/ HandlerSends(c) \/ HandlerReturns(c)

Drain ==
    \/ cancel_connections \/ take_listener \/ Expires
    \/ join \/ finish_stop \/ workers_finished

Next ==
    \/ use_queue
    \/ start_with_options \/ install_worker_pool_fails
    \/ Listener
    \/ \E w \in Workers : Worker(w)
    \/ \E c \in Conns : Connection(c) \/ Task(c)
    \/ \E close \in BOOLEAN : begin_stop(close)
    \/ Drain

Spec == Init /\ [][Next]_vars

(***************************************************************************)
(* Fairness: every thread of the server runs, deadlines pass, every        *)
(* connection ends (connection_total_ms) and every handler returns.        *)
(* Nothing makes clients connect or the program call Stop.                 *)
(***************************************************************************)
FairSpec ==
    /\ Spec
    /\ WF_vars(Drain) /\ WF_vars(Expires) /\ WF_vars(Listener)
    /\ \A w \in Workers : WF_vars(Worker(w))
    /\ \A c \in Conns : WF_vars(Task(c)) /\ WF_vars(submit_with(c) \/ ConnEnds(c))

(***************************************************************************)
(* Properties.                                                             *)
(***************************************************************************)
\* Without a queue, handlers run one at a time, also the ones whose
\* connection is gone (bnweb.md, "Server lifecycle").
OneHandlerAtATime == ~server.queue => Cardinality(Running) <= 1

\* The counts are exact.  The two that Stop reads: every admission is given
\* back once, on whichever path the connection leaves, within the limit; a
\* handler task is counted as long as it may still run, also when its
\* connection is gone, and no longer when the queue dropped it.  And while
\* the server accepts, pending counts the requests that wait for the gate or
\* hold it: the 503 of pendingWork is exact.
CountsAreExact ==
    /\ server.active_connections = Cardinality(Admitted)
    /\ server.active_connections <= ConnLimit
    /\ handlers = Cardinality(Counted)
    /\ ~server.queue /\ ~server.stopping => server.pending = Cardinality(Waiters)

\* A Stop or Close that succeeded left nothing behind: no listener, no
\* worker, no connection, no handler.
OkMeansQuiet ==
    stop.result = "ok" =>
        /\ listener.pc \in {"none", "gone"}
        /\ \A w \in Workers : worker[w].pc \in {"none", "gone"}
        /\ Admitted = {} /\ Counted = {}

\* Every Stop and Close call returns (drain.rs: it "waits at most timeout_ms
\* for its listener and connections"), also when handlers of connections
\* that are gone still run.
StopReturns == (stop.pc # "idle") ~> (stop.pc = "idle")
=============================================================================
