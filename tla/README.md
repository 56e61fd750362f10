# Basic Next: a TLA+ verification project

Basic Next is a programming language: a frontend (`bn_frontend`), an
interpreter (`bni`), an LLVM compiler (`bnc`), a REPL, a language server, a
debugger, and a runtime with standard libraries.  This project models the parts
of it where several threads, callers or lifetimes meet: task queues and their
tickets, the synchronisation primitives, reference counting with user-written
destructors, the IR validator that guarantees its balance, the HTTP server with
its sessions and rate limiter, host programs, and the debug adapter.

Paths below are relative to the repository root.  `PROJECT.json` maps every
definition to the lines it models and lists the runs, mutants, hazards and
theorems.

## Inventory

| component | state | operations | hard behaviour | what makes it correct |
|---|---|---|---|---|
| dispatch queue, `libraries/bn_core_dispatch` | closed flag, ticket map, bounded job channel, worker handles, ticket status | submit, join, close, drop; ticket wait, cancel, close; worker loop | notifications without the lock, sweeps against workers, tasks that use their own queue, deadlines, bounds | no job lost or run twice, no sleeper missed, what join and close promise when they say Ok, every call returns |
| dispatch primitives, `libraries/bn_stdlib/src/dispatch_sync.rs` | group count, barrier round, permits, mutex owner | enter/leave/wait, acquire/release, lock/unlock, barrier wait | deadlines against notifications, reused rounds, tasks that return, fail or panic with a lock held | callers of one round are told the same, no stranded sleeper, no lock outlives its task unless it panicked |
| dispatch library of the interpreter, `bn_lib_dispatch` | the table of ticket handles, each task's result and printed text | Async, Wait, Cancel, Close, Join | text taken by several callers and passed on by tasks, bounded writers | a Wait tells what became of the task, text is written once |
| dispatch ABI of compiled programs, `bn_stdlib/src/dispatch_abi.rs` | tables of ticket and of closed handles, the Outcome of each task | submit, await, cancel, close, status, is_done | Outcome under two locks, close under three, codes of two meanings in one field | an answer tells what became of the task, no open handle is unknown |
| reference counting, `crates/bn_rt/src/arc.rs`, `arc_abi.rs`, `bn_interp/src/executor/ownership.rs` | slots, generations, free stack, running destructors | register, retain, release, finish_destroy, end of a task's core | nested destructors, SELF stored by a destructor, stale weak ids, wrapping generations | counts are exact, old ids stay dead, every object destroyed and freed once |
| web server lifecycle, `bn_web/src/web/server.rs`, `drain.rs`, `http.rs`, `bn_lib_web` | status, counts, listener, worker pool, serial gate, HTTP runtime | Start, accept, admit, submit, handle, Stop, Close | handlers that outlive their connection, Stop at any moment, a runtime dropped under a lock | the counts are exact, handlers are serial when they should be, Ok from Stop means quiet |
| rate limiter, `bn_web/src/web/server.rs` | token buckets by key | allow | rounding, eviction | grants within burst and rate (a finding), no request due is refused |
| web sessions, `bn_web/src/web/sessions.rs` | session table; the session of each request | find, create, Set, Rotate, End, expiry, eviction | operations of several critical sections, a session displaced or expired while a request works on it | one identifier per session, retired identifiers stay dead, a session keeps what was stored in it |
| IR validator and interpreter loop, `bn_ir/src/validate.rs`, `validate/ownership.rs`, `bn_interp/src/executor/part1.rs` | owned, consumed and defined values on entry to each block | one visit of each block, a fixed point over definitions, running what was accepted | loops and joins checked once, phis | an accepted function leaks nothing, consumes nothing twice, reads what is defined |
| host programs (HOST.Exec), `bn_host_exec` | the child, two reading threads, captured output | Run | deadline against the end of the child, inherited pipes, capture limit | complete results, no child left, writers never blocked, Run returns |
| debug adapter, `bn_dap` | the session shared by three threads (SessionState), queued events | launch, breakpoints, pause, continue, step, terminate, the program's hook | pause, resume and terminate against a program that is about to stop | events tell the state, steps stop where asked, the session closes |
| instrumentation, `bn_runtime_instrumentation` | event consumers | emit | one thread | step rules as those of the adapter |
| SQLite connections, `bn_core_sqlite` | handle registry, open transactions | open, begin, commit, close | failure inside a transaction | no transaction outlives its handle |
| logger, `bn_core_log` | sinks and levels behind a lock | write, set level | - | pure I/O |
| interactive session (REPL), `bn_interp/src/session.rs`, `bnr` | the incremental program | evaluate a turn, roll back | a turn that fails half-way | a failed turn leaves nothing |
| language server, `bn_lsp` | open documents, versions | open, change, close, request | answers about an old version | answers match the version asked for |
| frontend, emitters, value libraries, drivers | none shared | sequential passes | - | covered by the repository's conformance tests |

How they interact: interpreter and compiled programs call the dispatch library
through handle tables; a task runs on a queue's worker in an ARC core of its
own (`run_in_fresh_core`), arguments and results being copied between cores;
when it returns or fails, its mutexes are unlocked and then its ticket is
settled, which wakes whoever waits; a panic settles the ticket only.  A web server runs its handlers serially behind a
one-permit gate or as tasks of a dispatch queue; handlers use the session
table; admission asks the rate limiter.  The frontend lowers assignments and
calls to ARC operations in the IR; the validator accepts a function only if they
balance, and the interpreter and the compiled code rest on that.  The debug
adapter drives an interpreter through a hook that the interpreter calls before
every instruction.

## Modules

| module | models | state and actions |
|---|---|---|
| `TicketLifecycle` | what the queue promises of a ticket | a ticket is pending, runs, then ends once; a cancelled one never runs |
| `DispatchQueue` | `bn_core_dispatch/src/lib.rs` | one action per critical section; the `state` lock is a variable because `join` and `close` keep it over several accesses |
| `DispatchProvider` | `bn_lib_dispatch/src/lib.rs` | the interpreter's handles: one action per hold of a lock or write; the queue beneath is `TicketLifecycle` |
| `DispatchAbi` | `bn_stdlib/src/dispatch_abi.rs` | the handles of compiled programs, in the same way |
| `MCDispatchTickets` | - | the three above in one run |
| `TicketsProofs` | - | theorems about the two tables of handles |
| `DispatchQueueProofs` | - | inductive invariant, theorems, refinement of `TicketLifecycle` |
| `DispatchBarrier`, `DispatchCounters`, `DispatchMutex` | `dispatch_sync.rs`; the end of a task (`bn_lib_dispatch/src/lib.rs:376`, a panic: `bn_core_dispatch/src/lib.rs:209`) | one action per hold of the primitive's lock; the semaphore and the group share a module since both are a number behind a condvar |
| `ArcCore` | `arc.rs`, `ownership.rs`, `run_in_fresh_core` | the slot table, and a program that makes, copies, drops and stores references, with the destructions under way as a stack |
| `ArcCoreProofs` | - | three-layer inductive invariant and theorems |
| `WebServer`, `MCWebServer` | `server.rs` (ServerState), `drain.rs`, `http.rs` (handlers), the listener of `bn_lib_web` | the program, listener, workers, connections and handler tasks as processes; `use_queue` chooses the handler mode |
| `WebRateLimiter` | `RateLimiter::allow` | whole tokens, the remainder kept in the bucket's instant as the code does; an ideal bucket in thousandths of a token beside it; the clock advances by chosen steps |
| `WebSessions` | `sessions.rs` | request tasks whose operations are split where the table's lock is released |
| `IrValidator`, `MCIrValidator` | `validate.rs`, `validate/ownership.rs`, `validate/operands.rs`; the loop of `executor/part1.rs` | a function read block by block, its validation, then a run of it that takes any branch |
| `HostExec` | `bn_host_exec/src/lib.rs` | the caller, the reading threads, and the processes outside |
| `DebugSession`, `MCDebugSession` | `bn_dap/src/lib.rs` | the request loop, the program's hook and the event thread; one action per hold of the session's lock |
| `MCTimedCalls`, `MCTables` | - | several modules in one run |
| `TimedCallsProofs`, `TablesProofs` | - | theorems about the components of those two |
| `WebServerProofs`, `IrValidatorProofs`, `DebugSessionProofs` | - | theorems about the module of that name |

`MCDispatchTickets`, `MCTimedCalls` and `MCTables` are sums: their components
share no state, and one moves only while the others are in their initial state,
so each is explored completely and by itself in one run.

Definitions keep the names of the code.  Some actions have a small guard or
helper of their own next to a variant of it (`KeepsPrevious`, `take_copy`,
`RetainNothing`, ...): the variant is the mutated form of the definition below
it, used to show that a property can fail.

Choices a reader should know:

- A `Condvar` notification moves sleepers back to their check in the step that
  sends it.  A sleeper may also wake by itself, at its deadline or spuriously.
  A deadline is a flag that may be set at any moment of a call.
- `DispatchQueue`: the scan `tickets.values().all(is_terminal)` is one step
  (`is_terminal` never goes back, and the map cannot grow under the lock).  Error
  texts are left out.  `drop_sender` and `drop_join` are `Drop for QueueInner`,
  possible while no call borrows the queue; a caller in `Ticket::wait` does not,
  since a ticket keeps only a weak reference (`lib.rs:87`, `563`).  The drop is
  one of a client: the tables of both backends keep every queue they made until
  the process ends, and the closure of a task holds none, so that the last
  reference goes on a worker only in a program of the crate itself that leaves
  it to `notify_queue`'s upgrade.
- `ArcCore`: an object has one strong field, enough for chains and cycles.  A
  destruction is three steps (destructor, field release, free), during which
  user code may run; the objects' numbers stand for their addresses.
  `run_in_fresh_core` ends a task with no destruction under way: a destruction is
  a nested call of the release that starts it (`bn_llvm/src/llvm/arc_runtime.rs:143`,
  `317`), and a compiled program leaves it by returning or by `exit`, so that
  `task()` cannot return from inside one (`arc_abi.rs:159` frees what
  `live_addresses` finds, then everything that is left).
- `WebServer`: Start is one step and succeeds, or fails at
  `install_worker_pool`, which leaves the server started.  A connection carries one
  request; an HTTP/2 connection with several streams is covered only as several
  connections.  `mark_closed` is part of `workers_finished`, which calls it.
  The drop of the Tokio runtime, external code, waits for its blocking tasks
  when it drops the last reference.
- `WebSessions`: values are one flag and the number of the session they started
  in; an identifier is never drawn twice (16 random bytes), and drawing one may
  fail.  `login` and `ended` are history: what was last stored in a session with
  success, and the sessions an End was called on.
- `DispatchProvider` and `DispatchAbi` use a core ticket only through the actions
  of `TicketLifecycle`, which the queue is proved to implement.  A task knows the
  handles of its submitter, passed as arguments, and those it made; that is how
  two tasks meet at one ticket.  A text is one unit that a task prints or not,
  and a bounded writer holds `MaxOutput` of them.
- `IrValidator`: the function is not chosen at the start but as the validator
  reads it, an instruction at a time, so functions that are rejected early are
  not told apart further.  Blocks are numbered in the order the validator finds
  them; instructions have one operand; types are three classes (not counted,
  counted and allowed in a phi, counted and not allowed).
- `HostExec`: bytes are counted in blocks of a pipe; the child and a process that
  inherited its streams are external and may write, stop or stay at any moment.
- `DispatchMutex`: a task that fails returns an Error to the closure of Async and
  ends like one that returns; `task_panics` is a panic of the interpreter itself,
  which unwinds past the unlock.
- `DebugSession`: a place of the program is its function, line and depth; the
  client may send any request at any moment and never has to.  Between two hooks
  the program makes one call at most, and any number of calls may return.

## Runs

| run | bounds | shows |
|---|---|---|
| `dispatch_tickets` | 2 tickets; the queue with a client, 2 workers, all of them callers, 1 slot; the handles with the program and both tasks as callers, output of 1 text, one error code that is no status (4 is in `await_code`) | no lost job, no missed wake-up, join, close and sweep, refinement of `TicketLifecycle`; what Wait, await, Status and Cancel answer; text in one place |
| `timed_calls` | barrier: 4 callers, rounds of 3, 3 generations; semaphore and group: 3 callers, 2 permits, a count up to 2; mutex: 3 threads, 3 tasks; Run: 2 streams, pipes of 1 block, limit 1, 3 blocks written; queue: 2 tickets, a client, a worker that calls too, 1 slot | counting, what callers are told, nobody stranded, which task a lock belongs to, complete results, no child left; all calls return and every accepted ticket ends |
| `barrier_broken_round` | 3 callers | finding: see below |
| `await_code` | 2 tasks | finding |
| `tables` | 3 objects, 2 bindings of each, generations modulo 5 from 4 on; sessions: 2 tasks, 3 identifiers, table of 2, idle limit 2, 2 ticks; buckets: 3 keys in a table of 2, burst 2, 300/s, 9 ms in steps of 1 and 3 | old ids, counts, frozen counts, each object freed once; a session's values stay with it, under one identifier; nothing due is refused |
| `limiter_rate` | 1 key, burst 2, 600/s, 6 ms | finding |
| `web` | 3 connections (2 admitted), 2 workers, channel of 2, 2 Stop or Close calls | serial handlers, exact counts, Ok means quiet |
| `web_stop_deadlock` | 1 connection, 1 worker, 1 Stop | finding |
| `session_end` | 2 tasks, 3 identifiers | finding |
| `ir_validator` | 2 counted values, 3 blocks, 3 instructions of 6 kinds | accepted functions leak nothing, consume nothing twice, read only what is defined |
| `ir_phi` | 3 values, 2 blocks, 4 instructions | finding |
| `debug_session` | 2 functions of a line each, two calls deep, 4 requests | events agree with the session, steps stop as asked, pauses are obeyed, the session closes |

Why these bounds are enough for the cases in question.  The queue with one slot
and two tickets reaches saturation, reuse of the slot after a cancel, a job in
the channel whose ticket is gone, both workers busy, and a task that waits for,
joins or closes its own queue.  Four callers and three generations let a round
of three fill or break while a member of the previous one has not woken up.
Three objects give a chain with a nested destruction, a cycle, and a slot used
three times; generations from 4 modulo 5 wrap, over the skipped zero, at the
second use.  Three connections against a limit of two reach refusal, a queue of
connections, a handler that outlives its connection beside one that waits for
its turn, and a second Stop after a failed one.  The limiter's steps are not
multiples of the time of one token, so both conversions round.  Two ticks are
the idle limit, so a session expires while a request works on it.  Three
identifiers are two rotations, or a rotation and an eviction.  Two tasks are a
task that waits for, closes or forwards the output of the other while the
program does the same, and a writer of one text overflows when both print.
Three blocks give a loop with a way around it and a join of two paths; three
instructions make, use and consume a value in different blocks.  Four requests
are a launch, a breakpoint or pause, a step, and a terminate; two calls deep tell
step over, into and out apart and let two calls return at once.  The queue of
`timed_calls` has one worker, which waits for tickets that only it could run.

`CHECK_DEADLOCK FALSE` is set where the system may stop: a closed and drained
queue, a barrier at its last generation, ended tasks, an ended program, a
stopped server, a task that panicked, bounded clocks and identifiers, a function that was rejected or
has returned, a closed debug session, a Run that returned.

### Fairness

Liveness is asserted only of what the scheduler and the code guarantee.  A
worker thread runs, a task ends, a thread inside a call runs and sees its
deadline pass.  Strong fairness is used in two places, both of the queue: for a caller's own
steps, which need a lock that others take and release again and again (a fair
lock is what the platform's mutexes give in practice), and for the end of a
task, which may be inside a call of its own in between.  In `timed_calls` the
barrier, the semaphore, the group and the mutex are followed through the calls of
one thread: fairness is assumed of that thread only (its deadline passes, it
gets the lock and checks), the others may do anything or nothing, and no task
has to return or unlock.  The threads of a primitive are interchangeable, so
that what holds of one holds of all.  Nobody has to submit, cancel,
join, close, connect or call Stop, and no notification is assumed.  For the
server, every thread runs, a request that is being submitted goes on or its
connection ends (`connection_total_ms`), and a handler that got to run returns; the deadlock below needs no unfairness.  For
Run, the clock, the caller and the reading threads go on; no process has to
write or to end.  For the debug adapter, the program reaches its next
instruction (a native call that blocks is assumed to return), the adapter
finishes a request it began, and events are written while the process lives; the
client has to send nothing.

### Mutants

Every property of a passing run has a mutant: a mapped definition changed as a
plausible bug would change it (a dropped guard, a missing notification, an
off-by-one bound, a forgotten reset).  TLC then violates that property under
the same configuration.

## Proofs

TLAPS checks the following for every value of the constants allowed by the
ASSUMEs of the modules.

**`DispatchQueueProofs`** (any sets of tickets, clients and workers, any
number of slots): `TypesHold`, `NoJobIsLost`, `JobsHaveOneHolder`,
`PendingStaysBounded`, `CancelledTasksNeverStart`, `WaitMissesNothing`,
`SweepLeavesNonePending`, `ClosedQueueIsQuiet`, `JoinWaitsForAll` and
`ImplementsLifecycle`.  None of these is inductive.  That a job is not lost
depends on where the jobs of all tickets are, so `Inv` says of each ticket which
worker or channel position holds it (`PendingIsHeld`, `RunningIsHeld`,
`JobInHand`, `OneHolder`); that nothing is pending after a sweep depends on what
the sweep in progress still has to visit and who holds the lock (`SweepCovers`,
`LockIsHeld`); that a closed queue is quiet, on the order in which workers end
(`WorkersEndLast`).  The step proof is split by layer: types, jobs
(`JobStep`), calls (`CallStep`), each with one lemma per group of actions.
The refinement maps a ticket's status to `TicketLifecycle` and shows that every
step is one of its steps or a stutter.

**`ArcCoreProofs`** (any number of objects and bindings, any width and first
generation), under `EnoughGenerations`: a core makes fewer objects than there
are generations without zero, 2^32 - 1 in the code.  The theorems need the
hypothesis, and say so; see Deviations.  `TypesHold`,
`FreeSlotsAreDead` and `OldIdsNeverRevive` follow from `TableInv`: a slot
remembers its last object, under that object's generation while it lives and
under the next one afterwards (`SlotsKnown`), and the objects of one slot have
increasing ranks, where the rank of a generation is its distance from the first
(`IdsInOrder`).  Ranks turn wrapping into an order; the bound keeps them from
meeting again.  `EveryObjectFreedOnce` adds `Lifetimes`: an object has not been
destroyed exactly while its slot holds it (`RanOnce`), a running destruction is
the only one of its object and owns a slot that waits for `finish_destroy`
(`FramesOwnSlots`), and memory is released when a destruction, or the program,
ends (`FreedWhenDone`).  It holds for destructors that store SELF too.
`CountsAreReferences` and `OnlyEscapeBreaks` add `Counted`: the count of a live
object is the number of its references (`LiveAreCounted`, over the cardinality
of the set of fields that hold it); an object being destroyed has none, unless
its destructor is running and has copied SELF (`DyingAreUnreferenced`); and a
destruction about to free has emptied its field (`FieldsAreReleased`).  The
second is what makes every release find a slot, and what fails when a destructor
ends with SELF stored, which is the moment `escaped` is set.

**`TimedCallsProofs`** (any callers, parties, permits, threads, tasks, streams,
pipe sizes and limits).  Barrier, `ArrivalsAreCounted` and
`ResultsAreOfTheRound`: no caller is ahead of the generation, so a round starts
empty (`RoundsBehind`), and `broken_generation` is the latest of the broken
rounds, all of them over (`LatestBreak`).  Semaphore and group,
`NobodyIsStranded`: inductive with the types.  Mutex, `LockEndsWithItsTask` and
the mutex part of `NobodyIsStranded`: a task is run by one thread, and who is in
`lock` runs one (`TasksHaveThreads`); the owner's task has not settled, and the
task that took the lock is the owner's or has panicked.  Run, `OutputIsWhole` and `ChildIsReaped`:
every block written is in a pipe or was read, and what was read is kept up to
the limit (`BlocksAccounted`), a reader that has finished saw the end of its
stream (`CapturesAreFinal`), and at each place of the caller it is known where
the child and the readers are (`CallerKnows`).

**`TablesProofs`** (any tasks, identifiers, keys, capacities, burst, rate and
passing of time).  Sessions, `GivenUpIdsStayDead`, `ValuesHaveOneHome` and
`ValuesStayWithTheSession`: identifiers are drawn once (`IdsAreDrawn`), and what a Rotate
has taken out of the table and not yet put back belongs to that Rotate alone
(`RotationsOwn`); while a Rotate carries values, nobody finds the session
(`ValuesInv`).  Limiter, `RateIsKept` and `NobodyIsStarved`: a bucket's
grants and tokens fit the time up to its instant, and the ideal credit is never
ahead of its tokens and the time since (`BucketIsRight`).  `RateIsKept` is
conditional: what follows for every rate is one grant per token length rounded
down, which is the configured rate exactly when the rate divides 1000; that the
condition is needed is the finding `limiter_rate`.

**`WebServerProofs`** (any connections, workers, limits and Stop calls):
`StopCountsExactly`, `HandlersAreSerial`, `OkLeavesNothing`, `WebTypes`.
`Places` says that a connection is with the listener, in the channel or with
one worker (`ConnsAreHeld`), that tasks belong to requests, that whoever runs
serially holds the gate (`GateIsHeld`), and what each place of `drain_server`
has established (`DrainKnows`); the counts are then cardinalities that every
step changes by one.

**`TicketsProofs`** (any tasks and error codes; the core ticket is
`TicketLifecycle`): `AnswersAreOfTheTask` and `OnlyClosingIsUnknown` for compiled
programs, `WaitIsRight` and `TextsStayOne` for the interpreter.  A handle is
published once, by the submit that made its ticket, so a Close is final; on that
stands what each call has found out at each of its steps, and, for texts, that
what a caller took is no longer in the ticket (`TextIsUnique`).  The constants
are assumed to be told apart: the program is not a task, `None` is no holder, no
call and no answer, an error code is not the word for a value.  All of these
are distinct types or an `Option` in the code.

**`IrValidatorProofs`** (functions of any size over any values):
`AcceptedDoNotLeak`, `AcceptedConsumeOnce`, `AcceptedReadDefined`,
`AcceptedReadAlive`.  The properties speak of the run, the invariant ties it to
what the validator wrote down: ownership inside a block (`Scanned`), equality
of owned values over every edge (`EdgesAgree`), an earlier block from which
each block was found (`FoundFrom`); after the sweeps `incoming` and `outgoing`
solve their equations (`Solved`); the references of a run are the owned values at the
point it has reached (`RunMatches`, `RefsMatch`).  `AcceptedReadAlive` also needs
that a counted value defined on every path to a block was owned or consumed on
the way the validator came, an induction over the blocks in the order they were
found, by a least counterexample (`OwnedIsRemembered`).

**`DebugSessionProofs`** (any program, any number of requests):
`EventsAreTrue` and `StepsStopAsAsked`.  What matters of a row of events is its
last stop or continue, which taking and writing portions keeps, and whoever
changes the pause queues the word in the same hold of the lock.  The depth that
`next` and `stepOut` read stays true since a paused program stays in the hook
until a resume (`PauseHolds`, `DepthIsCurrent`), so the target in the session is
the one the client meant (`StepIsAsked`).

Every safety property of the passing runs, invariant or action property, and the
refinement are proved.  Only model-checked, since the prover does not handle
fairness: `TicketsEnd`, `TimedCallsReturn`, `WritersAreServed`,
`PauseIsObeyed` and `SessionCloses`.  The theorems about the components of
`MCTimedCalls`, `MCTables` and `MCDispatchTickets` are about each component's own
specification, of which the sum takes the steps one component at a time.

## Findings

Six runs show the code against its documentation.

- `barrier_broken_round`: `Barrier` remembers only the last broken round.  A
  caller of an earlier broken round that wakes late is told that it passed
  (`dispatch_sync.rs:200`); `language/0.6/bndispatch.md:55` promises TIMEOUT to
  every caller of a broken round.
- `web_stop_deadlock`: Stop drops the HTTP runtime while it holds the state
  lock; the drop waits for an abandoned handler, whose first step takes that
  lock (`server.rs:657`, `bn_lib_web/src/lib.rs:291`).  `drain.rs:12` says that
  Stop waits at most `timeout_ms`.
- `session_end`: End between the two halves of a Rotate of the same session
  finds nothing to remove and the values live on under the new identifier
  (`sessions.rs:231`; `language/0.6/bnweb.md:171`).
- `ir_phi`: the validator visits a block once, so a phi at the head of a loop may
  name a value that the body releases; the second turn reads it
  (`validate/ownership.rs:383`; the comment at `ownership.rs:10`).
- `await_code`: AWAIT in a compiled program takes the code of the Error a task
  returned for a status of its own, and reports codes 3 and 4 as a cancellation
  (`dispatch_abi.rs:419`; `language/0.6/bndispatch.md:105-106`).
- `limiter_rate`: the limiter moves a bucket's instant by the time of the new
  tokens rounded down to milliseconds, and converts the rest again
  (`server.rs:37`; the comment at `server.rs:6-7`).  At a rate that does not
  divide 1000 a token costs 1000 / rate whole milliseconds: 600/s grants up to
  1000/s, and above 1000/s the bound is lost.

## Deviations

Behaviour met while modelling that is not a run of its own.

- Dispatch: Join and the first phase of Close count a released ticket as ended
  while its task still runs (`bn_core_dispatch/src/lib.rs:548`;
  `bndispatch.md:34`).  Dropping a queue drains its pending jobs by running
  them instead of cancelling them (`lib.rs:570`; `bndispatch.md:74-76`).
- Mutex: a panic of the interpreter inside a task settles the ticket as FAILED
  and leaves the task's mutexes with the worker, until a later task of that
  worker returns (`bn_core_dispatch/src/lib.rs:209-213`, past
  `bn_lib_dispatch/src/lib.rs:376`; `bndispatch.md:80-83` unlocks them when the
  task "ends — its function returns or fails").  `HolderStillRuns` shows that a
  panic is the only way, and that a task that does not panic is unlocked before
  its ticket settles.  In compiled programs a panic aborts the process.
- Dispatch in the interpreter: Join forwards the output of the tickets in the
  queue's map only, and every submit drops the ended ones from it, so the output
  of a task that ended before a later submit is not forwarded by Join
  (`bn_lib_dispatch/src/lib.rs:433`, `bn_core_dispatch/src/lib.rs:175`;
  `0.6.md`, "Isolation and conformance"); it stays in the ticket until a Wait.
  The output of a task that fails, of a ticket that is closed, and what a Wait
  or Join took before its own writer was full, is lost; `TextIsInOnePlace` shows
  that there is no other way.  A worker's Join of its own queue is refused but
  takes the outputs first.  Wait and Cancel on a closed ticket fail with
  STALE_HANDLE, not CLOSED (`lib.rs:484`; `bndispatch.md:41`).
- Dispatch in compiled programs: between the two tables of Close another holder
  is told INVALID_HANDLE, PENDING or not done of a ticket that has ended
  (`dispatch_abi.rs:472`); `OnlyAClosingTicketIsUnknown` shows that this is the
  only moment.  Status of any closed ticket is COMPLETED.  Handles of queues and
  tickets are kept until the process ends (`bndispatch.md:72-76`).
- IR: an instruction may name its own result as operand (`validate.rs:202`), and
  a phi may stand in the entry block, which the interpreter rejects when it runs
  (`part1.rs:91`).  The interpreter runs the phis of a block one after another.
- Debug adapter: `next` and `stepOut` sent while the program runs use the depth of
  its last hook; a step over a call may stop on the same line again; a pause sent
  while paused stops the program once more after it continues; a continue before
  the first hook is lost with stopOnEntry; the program starts at launch, without
  configurationDone; the last events may not be written when the session ends; a
  malformed message ends the adapter without ending the program.
- REPL: a turn that fails does not bring back `_`, libraries and hosts are not
  rolled back, and a late Ctrl-C cancels the next turn.
- ARC: a DESTRUCTOR that stores SELF where it outlives the call leaves a
  reference that was never counted; its later release fails as `INVALID_IR`
  (`arc.rs:241`, against the comment at `arc.rs:72-73`).  `OnlyEscapedSelfBreaks`
  shows that this is the only way.  Generations wrap after 2^32 - 1 objects in
  one slot, and an old weak id may then name a new object (`arc.rs:290`, against
  `arc.rs:274-275`).
- Web: Stop fails at once, without waiting, when handlers are active
  (`drain.rs:85`; `bnweb.md:178-179`).  `release_connection` forgets the last
  socket, whichever connection ended (`server.rs:531`), so Stop may leave an
  active connection's socket open.  Disposing of refused work drops the runtime
  under the state lock as Stop does (`bn_lib_web/src/lib.rs:874`).  A Rotate whose identifier cannot be drawn has
  already removed the session, which is lost (`sessions.rs:81`, `232`).
  Of two concurrent Rotates of one session the second carries no values
  (`sessions.rs:231`; `bnweb.md:170`).  When `install_worker_pool` fails, Start
  reports an error but the server stays started; `OkMeansQuiet` holds of it.

## Not modelled

The repository has about 129,000 lines, and most of them are sequential code over
one value at a time: lexer, parser, semantic analysis, lowering, the LLVM
emitter, instructions that compute values, ABIs that convert them, value
libraries (JSON, data frames, cryptography), diagnostics and limit tables,
request parsing and routing, drivers.  A model of them would be a second
implementation; the repository's conformance tests cover them.  The map
therefore covers a small share of the lines, those in which an order of events
matters.  Files, sockets, the logger and host capabilities are pure I/O.  The
SQLite registry belongs to one copy of a module and thus to one thread.  In the
modelled components: the type rules of the validator, handles of queues and
primitives, counted library handles, vectors and records of objects, operations
that only read.

## Plan

Done: the queue with its abstract specification and proofs; the primitives;
reference counting with proofs; the web server, limiter and sessions; the ticket
handles of the interpreter and of compiled programs; the IR validator; host
programs; the debug adapter; proofs of every safety property.  Next, most
important first:

1. The interactive session: the rollback of a turn that fails.
2. The language server's document versions.
3. An abstract specification of a session (identifier and values) that
   `WebSessions` is proved to implement outside `rotate`'s window.
