-------------------------- MODULE DispatchProvider --------------------------
(***************************************************************************)
(* The BNDispatch library of the interpreter (libraries/bn_lib_dispatch):  *)
(* the table of ticket handles that the program and its tasks share, the   *)
(* result of each task, and the text a task prints.  A task prints into a  *)
(* bounded writer of its own; when it has returned, its closure moves the  *)
(* text to the ticket, and a Wait or a Join takes it from there and writes *)
(* it to the output of whoever called, which may be a task again.          *)
(*                                                                         *)
(* The queue of the core library is used through what TicketLifecycle      *)
(* promises of its tickets and DispatchQueue implements, and through its   *)
(* ticket map.  Every action is one hold of a lock, or a write.  A task    *)
(* shares handles only by taking those of its submitter as arguments.  All *)
(* tasks run on one queue.                                                 *)
(*                                                                         *)
(* Left out: Id, Status, IsDone and Error, which only read; set_output's   *)
(* refusal, since the writer has the same bound; a full or closed queue.   *)
(***************************************************************************)
EXTENDS Naturals, FiniteSets

CONSTANTS Tasks,       \* the tasks; each has one ticket and one text, named as the task
          Main,        \* the program
          MaxOutput,   \* bn_limits dispatch output_max_bytes, in texts
          None         \* no call, no result

Holders == Tasks \cup {Main}

\* How a task may end, and what Wait may answer.
Ends == {"value", "error", "fails"}
WaitAnswers == {"value", "error", "CLOSED", "TASK_FAILED", "CANCELLED", "TIMEOUT"}

\* A call: the tickets it is about, where it is, what Wait answered; `todo`:
\* the tickets whose output is still to be taken; `text`: what was taken.
Calls == [op : {"async", "wait", "cancel", "close", "join", "abort"},
          tickets : SUBSET Tasks,
          step : {"insert", "go", "core", "take", "write", "ended"},
          answer : WaitAnswers \cup {None}, todo : SUBSET Tasks, text : SUBSET Tasks]

ProviderConstants == /\ Main \notin Tasks
                     /\ None \notin Holders \cup Calls \cup Ends \cup WaitAnswers
                     /\ MaxOutput \in Nat \ {0}

VARIABLES phase, released,   \* the core ticket: its status, and closed
          map,               \* QueueState.tickets
          tickets,           \* SharedDispatchState.tickets: the handles in the table
          result,            \* Ticket.result
          error,             \* TicketState.error is Some
          output,            \* TicketState.output: the texts in the ticket
          written,           \* the texts in the output of a caller
          closure,           \* where the closure of Async is
          ends,              \* how the task ended: None before
          knows,             \* the handles a caller holds a copy of
          call,              \* the call each caller is in
          wrote              \* history: the tasks that printed their text

vars == <<phase, released, map, tickets, result, error, output, written, closure, ends,
          knows, call, wrote>>
core == <<phase, released>>
task == <<result, error, closure, ends>>

Core == INSTANCE TicketLifecycle WITH Tickets <- Tasks, closed <- released

Done == {"COMPLETED", "FAILED", "CANCELLED"}
is_terminal(t) == released[t] \/ phase[t] \in Done

Init == /\ Core!Init
        /\ map = {} /\ tickets = {}
        /\ result = [t \in Tasks |-> None]
        /\ error = [t \in Tasks |-> FALSE]
        /\ output = [t \in Tasks |-> {}]
        /\ written = [c \in Holders |-> {}]
        /\ closure = [t \in Tasks |-> "none"]
        /\ ends = [t \in Tasks |-> None]
        /\ knows = [c \in Holders |-> {}]
        /\ call = [c \in Holders |-> None]
        /\ wrote = {}

-----------------------------------------------------------------------------
(* A caller is the program, or a task that runs; it makes one call at a    *)
(* time.                                                                   *)

Idle(c) == call[c] = None
Runs(c) == c \in Tasks => closure[c] = "run"

In(c, op, step) == call[c] # None /\ call[c].op = op /\ call[c].step = step
Goes(c, step) == call' = [call EXCEPT ![c].step = step]
Returns(c) == call' = [call EXCEPT ![c] = None]

Begins(c, op, ts, step) ==
    call' = [call EXCEPT ![c] = [op |-> op, tickets |-> ts, step |-> step, answer |-> None,
                                 todo |-> ts, text |-> {}]]

\* A failure that is not an Error value ends the task, or the program.
Aborts(c) ==
    /\ IF c = Main THEN Begins(c, "abort", {}, "ended") ELSE Returns(c)
    /\ closure' = [t \in Tasks |-> IF t = c THEN "mark" ELSE closure[t]]
    /\ ends' = [t \in Tasks |-> IF t = c THEN "fails" ELSE ends[t]]

-----------------------------------------------------------------------------
(* Async, and the closure a worker runs.                                   *)

\* The queue forgets the tickets that have ended whenever it takes a new one.
submit_with(c, t) ==
    /\ Idle(c) /\ Runs(c)
    /\ Core!Accept(t)
    /\ map' = {x \in map : ~is_terminal(x)} \cup {t}
    /\ knows' = [knows EXCEPT ![t] = knows[c]]
    /\ Begins(c, "async", {t}, "insert")
    /\ UNCHANGED <<tickets, task, output, written, wrote>>

insert(c) ==
    /\ In(c, "async", "insert")
    /\ tickets' = tickets \cup call[c].tickets
    /\ knows' = [knows EXCEPT ![c] = @ \cup call[c].tickets]
    /\ Returns(c)
    /\ UNCHANGED <<core, map, task, output, written, wrote>>

\* The task starts, and may print.
start(t) ==
    /\ Core!Start(t)
    /\ closure' = [closure EXCEPT ![t] = "run"]
    /\ \E w \in SUBSET {t} : /\ written' = [written EXCEPT ![t] = w]
                             /\ wrote' = wrote \cup w
    /\ UNCHANGED <<map, tickets, result, error, ends, output, knows, call>>

task_returns(t) ==
    /\ closure[t] = "run" /\ Idle(t)
    /\ \E e \in Ends :
        /\ ends' = [ends EXCEPT ![t] = e]
        /\ closure' = [closure EXCEPT ![t] = IF e = "fails" THEN "mark" ELSE "output"]
    /\ UNCHANGED <<core, map, tickets, result, error, output, written, knows, call, wrote>>

set_output(t) ==
    /\ closure[t] = "output"
    /\ output' = [output EXCEPT ![t] = written[t]]
    /\ written' = [written EXCEPT ![t] = {}]
    /\ closure' = [closure EXCEPT ![t] = "result"]
    /\ UNCHANGED <<core, map, tickets, result, error, ends, knows, call, wrote>>

\* Variant: the result is not stored.
forget_result(t) ==
    /\ closure[t] = "result"
    /\ closure' = [closure EXCEPT ![t] = "mark"]
    /\ UNCHANGED <<core, map, tickets, result, error, ends, output, written, knows, call, wrote>>

set_result(t) ==
    /\ closure[t] = "result"
    /\ result' = [result EXCEPT ![t] = ends[t]]
    /\ closure' = [closure EXCEPT ![t] = "mark"]
    /\ UNCHANGED <<core, map, tickets, error, ends, output, written, knows, call, wrote>>

\* mark_completed or mark_failed; the writer of a task that failed is dropped.
mark(t) ==
    /\ closure[t] = "mark"
    /\ \/ ends[t] = "value" /\ Core!Complete(t) /\ UNCHANGED error
       \/ ends[t] # "value" /\ Core!Fail(t) /\ error' = [error EXCEPT ![t] = TRUE]
    /\ written' = [written EXCEPT ![t] = {}]
    /\ closure' = [closure EXCEPT ![t] = "done"]
    /\ UNCHANGED <<map, tickets, result, ends, output, knows, call, wrote>>

\* queue.Close cancels the tickets that are pending.
cancel_pending(t) ==
    /\ Core!Cancel(t)
    /\ UNCHANGED <<map, tickets, task, output, written, knows, call, wrote>>

-----------------------------------------------------------------------------
(* Operations on a ticket.  The handle is looked up in the table, the rest *)
(* is done on the ticket itself.                                           *)

lookup(c, t, op) ==
    /\ Idle(c) /\ Runs(c)
    /\ t \in knows[c]
    /\ IF t \in tickets THEN Begins(c, op, {t}, "go") /\ UNCHANGED <<closure, ends>>
                        ELSE Aborts(c)
    /\ UNCHANGED <<core, map, tickets, result, error, output, written, knows, wrote>>

TicketOf(c) == CHOOSE t \in call[c].tickets : TRUE

\* What Wait answers: the result when the task has completed.
WaitAnswer(t) == CASE released[t] -> "CLOSED"
                   [] ~released[t] /\ phase[t] = "COMPLETED" -> result[t]
                   [] ~released[t] /\ phase[t] = "FAILED" -> "TASK_FAILED"
                   [] ~released[t] /\ phase[t] = "CANCELLED" -> "CANCELLED"
                   [] OTHER -> "TIMEOUT"

wait(c) ==
    /\ In(c, "wait", "go")
    /\ call' = [call EXCEPT ![c].step = "take", ![c].answer = WaitAnswer(TicketOf(c))]
    /\ UNCHANGED <<core, map, tickets, task, output, written, knows, wrote>>

cancel(c) ==
    /\ In(c, "cancel", "go")
    /\ LET t == TicketOf(c)
       IN IF released[t] \/ phase[t] # "PENDING" THEN UNCHANGED core ELSE Core!Cancel(t)
    /\ Returns(c)
    /\ UNCHANGED <<map, tickets, task, output, written, knows, wrote>>

remove(c) ==
    /\ In(c, "close", "go")
    /\ tickets' = tickets \ call[c].tickets
    /\ Goes(c, "core")
    /\ UNCHANGED <<core, map, task, output, written, knows, wrote>>

close(c) ==
    /\ In(c, "close", "core")
    /\ Core!Release(TicketOf(c))
    /\ output' = [output EXCEPT ![TicketOf(c)] = {}]
    /\ Returns(c)
    /\ UNCHANGED <<map, tickets, task, written, knows, wrote>>

-----------------------------------------------------------------------------
(* Join: the tickets in the queue's map, the core's join, and then their   *)
(* output, whatever join said.                                             *)

collect(c) ==
    /\ Idle(c) /\ Runs(c)
    /\ Begins(c, "join", map, "go")
    /\ UNCHANGED <<core, map, tickets, task, output, written, knows, wrote>>

\* The core's join waits, or refuses a worker; its answer is returned at the end.
join(c) ==
    /\ In(c, "join", "go")
    /\ IF call[c].todo = {} THEN Returns(c) ELSE Goes(c, "take")
    /\ UNCHANGED <<core, map, tickets, task, output, written, knows, wrote>>

\* Variant: the output is copied, not taken.
take_copy(c) ==
    /\ call[c] # None /\ call[c].step = "take"
    /\ \E t \in call[c].todo :
        call' = [call EXCEPT ![c].step = "write", ![c].todo = @ \ {t}, ![c].text = output[t]]
    /\ UNCHANGED <<core, map, tickets, task, output, written, knows, wrote>>

take_output(c) ==
    /\ call[c] # None /\ call[c].step = "take"
    /\ \E t \in call[c].todo :
        /\ call' = [call EXCEPT ![c].step = "write", ![c].todo = @ \ {t}, ![c].text = output[t]]
        /\ output' = [output EXCEPT ![t] = {}]
    /\ UNCHANGED <<core, map, tickets, task, written, knows, wrote>>

Fits(c) == c \in Tasks => Cardinality(written[c] \cup call[c].text) <= MaxOutput

\* core.output().write_all: all or nothing in the writer of a task.
write_all(c) ==
    /\ call[c] # None /\ call[c].step = "write"
    /\ IF Fits(c)
       THEN /\ written' = [written EXCEPT ![c] = @ \cup call[c].text]
            /\ IF call[c].todo = {} THEN Returns(c)
               ELSE call' = [call EXCEPT ![c].step = "take", ![c].text = {}]
            /\ UNCHANGED <<closure, ends>>
       ELSE Aborts(c) /\ UNCHANGED written
    /\ UNCHANGED <<core, map, tickets, result, error, output, knows, wrote>>

-----------------------------------------------------------------------------
Next ==
    \/ \E t \in Tasks :
        \/ start(t) \/ task_returns(t) \/ set_output(t) \/ set_result(t) \/ mark(t)
        \/ cancel_pending(t)
    \/ \E c \in Holders :
        \/ \E t \in Tasks : \/ submit_with(c, t)
                            \/ \E op \in {"wait", "cancel", "close"} : lookup(c, t, op)
        \/ insert(c) \/ wait(c) \/ cancel(c) \/ remove(c) \/ close(c)
        \/ collect(c) \/ join(c) \/ take_output(c) \/ write_all(c)

Spec == Init /\ [][Next]_vars

-----------------------------------------------------------------------------
(* Properties.                                                             *)

Told(t, answer) == \E c \in Holders : /\ In(c, "wait", "take") \/ In(c, "wait", "write")
                                      /\ call[c].tickets = {t} /\ call[c].answer = answer

(* What a Wait returns is what became of the task: a value is the one the  *)
(* task returned, TASK_FAILED tells of a task that failed, CANCELLED of    *)
(* one that never started, CLOSED of a ticket that somebody closed.        *)
WaitTellsTheTask ==
    \A t \in Tasks :
        /\ ~Told(t, None) /\ ~Told(t, "error")
        /\ Told(t, "value") => ends[t] = "value"
        /\ Told(t, "TASK_FAILED") => ends[t] \in {"error", "fails"}
        /\ Told(t, "CANCELLED") => phase[t] = "CANCELLED" /\ closure[t] = "none"
        /\ Told(t, "CLOSED") => released[t] /\ t \notin tickets

(* The text a task printed is never in two places: its writer, its ticket, *)
(* the hands of a caller, the output of a caller.  It is in one of them    *)
(* for ever unless somebody closed a ticket or a task failed.              *)
TextIsInOnePlace ==
    \A x \in wrote :
        LET places == Cardinality({c \in Holders : x \in written[c]})
                      + Cardinality({t \in Tasks : x \in output[t]})
                      + Cardinality({c \in Holders : call[c] # None /\ x \in call[c].text})
        IN /\ places <= 1
           /\ places = 1 \/ \E t \in Tasks : released[t] \/ ends[t] = "fails"
=============================================================================
