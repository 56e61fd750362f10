---------------------------- MODULE DispatchAbi ----------------------------
(***************************************************************************)
(* The BNDispatch tickets of a compiled program                            *)
(* (libraries/bn_stdlib/src/dispatch_abi.rs): the process-wide table of    *)
(* ticket handles, and the Outcome in which a task leaves its result.      *)
(*                                                                         *)
(* The ticket of the core library is used through what TicketLifecycle     *)
(* promises of it, and DispatchQueue implements.  Every action is one hold *)
(* of a lock: registry().tickets, closed_tickets, the core ticket's, or    *)
(* one of the Outcome's two.  A task shares handles only by taking those   *)
(* of its submitter as arguments.                                          *)
(*                                                                         *)
(* The closure of submit first asks whether its ticket is cancelled, and   *)
(* asks again when the task is over: it was started, so it never is, and   *)
(* the two branches are left out.  So are the policy and null checks, the  *)
(* queue handles (which are never removed), ticket_error, which only       *)
(* reads, and bn_rt_dispatch_cancel, which no emitted code calls.          *)
(***************************************************************************)
CONSTANTS Tasks,   \* the tasks; each has one ticket, named as the task
          Main,    \* the program
          Codes,   \* codes of the Errors that tasks return
          None     \* no call, no result, error code 0

Holders == Tasks \cup {Main}

\* The error codes that await takes for its own BN_DISPATCH_CANCELLED (3) and
\* BN_DISPATCH_CLOSED (4).
StatusCodes == {"code 3", "code 4"}

VARIABLES phase, released,   \* the core ticket: its status, and closed
          tickets,           \* Registry.tickets: the handles in the table
          closed_tickets,    \* Registry.closed_tickets
          outcome,           \* Ticket.outcome: result and error code
          closure,           \* where the closure of submit is
          ends,              \* how the task ended: None before
          knows,             \* the handles a caller holds a copy of
          call               \* the call each caller is in, or was last in

vars == <<phase, released, tickets, closed_tickets, outcome, closure, ends, knows, call>>
table == <<tickets, closed_tickets>>
core == <<phase, released>>
task == <<outcome, closure, ends>>

Core == INSTANCE TicketLifecycle WITH Tickets <- Tasks, closed <- released

Done == {"COMPLETED", "FAILED", "CANCELLED"}

Operations == {"await", "cancel", "close", "status", "is_done"}

\* A call: where it is, the result it has read, the status it returned.
Calls == [op : Operations \cup {"submit"}, ticket : Tasks,
          step : {"found", "missing", "insert", "result", "error", "code", "over"},
          result : Tasks \cup {None},
          answer : {"OK", "CLOSED", "CANCELLED", "TIMEOUT", "TASK_FAILED", "INVALID_HANDLE",
                    "TRUE", "FALSE", None} \cup Core!Phases]

\* An Error has a code: where a task left 0, submit's closure puts its status.
AbiConstants == /\ Main \notin Tasks /\ None \notin Holders \cup Calls
                /\ None \notin StatusCodes \cup Codes \cup {"value"} /\ "value" \notin Codes

Init == /\ Core!Init
        /\ tickets = {} /\ closed_tickets = {}
        /\ outcome = [t \in Tasks |-> [result |-> None, error |-> None]]
        /\ closure = [t \in Tasks |-> "none"]
        /\ ends = [t \in Tasks |-> None]
        /\ knows = [c \in Holders |-> {}]
        /\ call = [c \in Holders |-> None]

-----------------------------------------------------------------------------
(* A caller is the program, or a task that runs; it makes one call at a    *)
(* time.  A call looks its handle up, keeps a reference to the ticket, and *)
(* goes on without the table's lock.                                       *)

Idle(c) == call[c] # None => call[c].step = "over"

MayCall(c) == Idle(c) /\ (c \in Tasks => closure[c] = "run")

In(c, op, step) == call[c] # None /\ call[c].op = op /\ call[c].step = step

Goes(c, step) == call' = [call EXCEPT ![c].step = step]

Begins(c, op, t, step) ==
    call' = [call EXCEPT ![c] = [op |-> op, ticket |-> t, step |-> step,
                                 result |-> None, answer |-> None]]

Returns(c) == call' = [call EXCEPT ![c] = None]
Answers(c, answer) == call' = [call EXCEPT ![c].step = "over", ![c].answer = answer]

\* Every operation but close copies the reference; close takes it out.
lookup(c, t, op) ==
    /\ MayCall(c) /\ t \in knows[c]
    /\ Begins(c, op, t, IF t \in tickets THEN "found" ELSE "missing")
    /\ tickets' = IF op = "close" THEN tickets \ {t} ELSE tickets
    /\ UNCHANGED <<core, closed_tickets, task, knows>>

\* The answer about a handle that is not in the table.
AnswerOfMissing(op, closed) ==
    CASE op \in {"await", "cancel"} -> IF closed THEN "CLOSED" ELSE "INVALID_HANDLE"
      [] op = "close" -> IF closed THEN "OK" ELSE "INVALID_HANDLE"
      [] op = "status" -> IF closed THEN "COMPLETED" ELSE "PENDING"
      [] op = "is_done" -> IF closed THEN "TRUE" ELSE "FALSE"

missing(c) ==
    /\ call[c] # None /\ call[c].step = "missing"
    /\ Answers(c, AnswerOfMissing(call[c].op, call[c].ticket \in closed_tickets))
    /\ UNCHANGED <<core, table, task, knows>>

-----------------------------------------------------------------------------
(* bn_rt_dispatch_submit, and the closure a worker runs.                   *)

submit_with(c, t) ==
    /\ MayCall(c)
    /\ Core!Accept(t)
    /\ knows' = [knows EXCEPT ![t] = knows[c]]
    /\ Begins(c, "submit", t, "insert")
    /\ UNCHANGED <<table, task>>

insert(c) ==
    /\ In(c, "submit", "insert")
    /\ tickets' = tickets \cup {call[c].ticket}
    /\ knows' = [knows EXCEPT ![c] = @ \cup {call[c].ticket}]
    /\ Returns(c)
    /\ UNCHANGED <<core, closed_tickets, task>>

start(t) ==
    /\ Core!Start(t)
    /\ closure' = [closure EXCEPT ![t] = "run"]
    /\ UNCHANGED <<table, outcome, ends, knows, call>>

task_returns(t) ==
    /\ closure[t] = "run" /\ Idle(t)
    /\ \E e \in Codes \cup {"value"} : ends' = [ends EXCEPT ![t] = e]
    /\ closure' = [closure EXCEPT ![t] = "result"]
    /\ UNCHANGED <<core, table, outcome, knows, call>>

store_result(t) ==
    /\ closure[t] = "result"
    /\ outcome' = [outcome EXCEPT ![t].result = IF ends[t] = "value" THEN t ELSE None]
    /\ closure' = [closure EXCEPT ![t] = "error"]
    /\ UNCHANGED <<core, table, ends, knows, call>>

\* Variant: the closure ends before it has stored the error.
store_error_late(t) ==
    /\ closure[t] = "error"
    /\ Core!Complete(t)
    /\ closure' = [closure EXCEPT ![t] = "settle"]
    /\ UNCHANGED <<table, outcome, ends, knows, call>>

store_error(t) ==
    /\ closure[t] = "error"
    /\ outcome' = [outcome EXCEPT ![t].error = IF ends[t] = "value" THEN None ELSE ends[t]]
    /\ closure' = [closure EXCEPT ![t] = "settle"]
    /\ UNCHANGED <<core, table, ends, knows, call>>

\* The closure has returned, and the core completes its ticket.
settle(t) ==
    /\ closure[t] = "settle"
    /\ Core!Complete(t)
    /\ closure' = [closure EXCEPT ![t] = "done"]
    /\ UNCHANGED <<table, outcome, ends, knows, call>>

\* queue.Close cancels the tickets that are pending.
cancel_pending(t) ==
    /\ Core!Cancel(t)
    /\ UNCHANGED <<table, task, knows, call>>

-----------------------------------------------------------------------------
(* bn_rt_dispatch_await: the core's wait, then the two halves of the       *)
(* Outcome.                                                                *)

wait_fails(c) ==
    /\ In(c, "await", "found")
    /\ LET t == call[c].ticket
       IN \/ released[t] /\ Answers(c, "CLOSED")
          \/ ~released[t] /\ phase[t] = "CANCELLED" /\ Answers(c, "CANCELLED")
          \/ ~released[t] /\ phase[t] \notin Done /\ Answers(c, "TIMEOUT")
    /\ UNCHANGED <<core, table, task, knows>>

wait_ok(c) ==
    /\ In(c, "await", "found")
    /\ ~released[call[c].ticket] /\ phase[call[c].ticket] = "COMPLETED"
    /\ Goes(c, "result")
    /\ UNCHANGED <<core, table, task, knows>>

read_result(c) ==
    /\ In(c, "await", "result")
    /\ call' = [call EXCEPT ![c].step = "error", ![c].result = outcome[call[c].ticket].result]
    /\ UNCHANGED <<core, table, task, knows>>

\* What await makes of the error code in the Outcome.
AwaitStatus(error) == CASE error \in StatusCodes -> "CANCELLED"
                        [] error = None -> "OK"
                        [] OTHER -> "TASK_FAILED"

read_error(c) ==
    /\ In(c, "await", "error")
    /\ Answers(c, AwaitStatus(outcome[call[c].ticket].error))
    /\ UNCHANGED <<core, table, task, knows>>

-----------------------------------------------------------------------------
(* The other operations on a ticket.                                       *)

ticket_cancel(c) ==
    /\ In(c, "cancel", "found")
    /\ LET t == call[c].ticket
       IN \/ released[t] /\ Answers(c, "CLOSED") /\ UNCHANGED core
          \/ ~released[t] /\ phase[t] # "PENDING" /\ Answers(c, "FALSE") /\ UNCHANGED core
          \/ ~released[t] /\ Core!Cancel(t) /\ Goes(c, "code")
    /\ UNCHANGED <<table, task, knows>>

ticket_cancelled(c) ==
    /\ In(c, "cancel", "code")
    /\ outcome' = [outcome EXCEPT ![call[c].ticket].error = "code 3"]
    /\ Answers(c, "TRUE")
    /\ UNCHANGED <<core, table, closure, ends, knows>>

ticket_close(c) ==
    /\ In(c, "close", "found")
    /\ Core!Release(call[c].ticket)
    /\ Goes(c, "insert")
    /\ UNCHANGED <<table, task, knows>>

\* Variant: the handle is not remembered as closed.
ticket_forgotten(c) ==
    /\ In(c, "close", "insert")
    /\ Returns(c)
    /\ UNCHANGED <<core, table, task, knows>>

ticket_closed(c) ==
    /\ In(c, "close", "insert")
    /\ closed_tickets' = closed_tickets \cup {call[c].ticket}
    /\ Returns(c)
    /\ UNCHANGED <<core, tickets, task, knows>>

\* The core's status; for a completed ticket the error code decides.
ticket_status(c) ==
    /\ In(c, "status", "found")
    /\ IF phase[call[c].ticket] = "COMPLETED"
       THEN Goes(c, "code")
       ELSE Answers(c, phase[call[c].ticket])
    /\ UNCHANGED <<core, table, task, knows>>

ticket_completed(c) ==
    /\ In(c, "status", "code")
    /\ Answers(c, IF outcome[call[c].ticket].error = None THEN "COMPLETED" ELSE "FAILED")
    /\ UNCHANGED <<core, table, task, knows>>

ticket_is_done(c) ==
    /\ In(c, "is_done", "found")
    /\ Answers(c, IF phase[call[c].ticket] \in Done THEN "TRUE" ELSE "FALSE")
    /\ UNCHANGED <<core, table, task, knows>>

-----------------------------------------------------------------------------
Next ==
    \/ \E t \in Tasks :
        \/ start(t) \/ task_returns(t) \/ store_result(t) \/ store_error(t) \/ settle(t)
        \/ cancel_pending(t)
    \/ \E c \in Holders :
        \/ \E t \in Tasks : submit_with(c, t) \/ \E op \in Operations : lookup(c, t, op)
        \/ insert(c) \/ missing(c)
        \/ wait_ok(c) \/ wait_fails(c) \/ read_result(c) \/ read_error(c)
        \/ ticket_cancel(c) \/ ticket_cancelled(c)
        \/ ticket_close(c) \/ ticket_closed(c)
        \/ ticket_status(c) \/ ticket_completed(c) \/ ticket_is_done(c)

Spec == Init /\ [][Next]_vars

-----------------------------------------------------------------------------
(* Properties.                                                             *)

Told(op, t, answer) ==
    \E c \in Holders : In(c, op, "over") /\ call[c].ticket = t /\ call[c].answer = answer

(* What a holder is told of a ticket is what became of its task: an await  *)
(* that succeeds has the task's own result, TASK_FAILED and FAILED mean    *)
(* that the task returned an Error, CANCELLED that it never ran or that    *)
(* its Error has the code of a cancellation, COMPLETED that it succeeded   *)
(* or that the ticket was closed.                                          *)
AnswersTellTheTask ==
    /\ \A c \in Holders : In(c, "await", "over") /\ call[c].answer = "OK"
                          => call[c].result = call[c].ticket
    /\ \A t \in Tasks :
        /\ Told("await", t, "OK") => ends[t] = "value"
        /\ Told("await", t, "TASK_FAILED") => ends[t] \in Codes
        /\ Told("status", t, "FAILED") => ends[t] \in Codes
        /\ Told("await", t, "CANCELLED") => \/ phase[t] = "CANCELLED"
                                            \/ ends[t] \in StatusCodes
        /\ Told("status", t, "COMPLETED") => ends[t] = "value" \/ t \notin tickets
        /\ Told("cancel", t, "TRUE") => closure[t] = "none"
        /\ Told("await", t, "CLOSED") => released[t]

(* A ticket is unknown, or an ended one reported as pending or not done,   *)
(* only in the middle of a Close: after it was taken out of the table and  *)
(* before it is among the closed ones.                                     *)
OnlyAClosingTicketIsUnknown ==
    [][\A c \in Holders :
         (/\ ~Idle(c) /\ Idle(c)' /\ call'[c] # None
          /\ \/ call'[c].answer = "INVALID_HANDLE"
             \/ /\ phase[call[c].ticket] \in Done
                /\ <<call[c].op, call'[c].answer>> \in {<<"status", "PENDING">>,
                                                        <<"is_done", "FALSE">>})
         => \E d \in Holders : /\ In(d, "close", "found") \/ In(d, "close", "insert")
                               /\ call[d].ticket = call[c].ticket]_vars

(* An await says CANCELLED only of a ticket that was cancelled.            *)
CancelledMeansCancelled ==
    \A t \in Tasks : Told("await", t, "CANCELLED") => phase[t] = "CANCELLED"
=============================================================================
