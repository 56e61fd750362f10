-------------------------- MODULE MCDispatchTickets --------------------------
(***************************************************************************)
(* The tickets of BNDispatch in one run: the queue of the core library,    *)
(* and the handles of the interpreter (P) and of compiled programs (A),    *)
(* which stand on the queue through TicketLifecycle.  Each is explored by  *)
(* itself: one moves only while the others are unused.  Tickets and        *)
(* threads are interchangeable: nothing compares them.                     *)
(***************************************************************************)
EXTENDS DispatchQueue, TLC

CONSTANTS Main, None, MaxOutput, Codes

VARIABLES pphase, preleased, map, ptickets, result, error, output, written, pclosure,
          pends, pknows, pcall, wrote,
          aphase, areleased, atickets, closed_tickets, outcome, aclosure, aends, aknows, acall

P == INSTANCE DispatchProvider WITH
         Tasks <- Tickets, phase <- pphase, released <- preleased, tickets <- ptickets,
         closure <- pclosure, ends <- pends, knows <- pknows, call <- pcall

A == INSTANCE DispatchAbi WITH
         Tasks <- Tickets, phase <- aphase, released <- areleased, tickets <- atickets,
         closure <- aclosure, ends <- aends, knows <- aknows, call <- acall

provider == <<pphase, preleased, map, ptickets, result, error, output, written, pclosure,
              pends, pknows, pcall, wrote>>
abi == <<aphase, areleased, atickets, closed_tickets, outcome, aclosure, aends, aknows, acall>>

ASSUME HandleConstants == P!ProviderConstants /\ A!AbiConstants

TicketsInit == Init /\ P!Init /\ A!Init

TicketsNext ==
    \/ P!Init /\ A!Init /\ Next /\ UNCHANGED <<provider, abi>>
    \/ Init /\ A!Init /\ P!Next /\ UNCHANGED <<vars, abi>>
    \/ Init /\ P!Init /\ A!Next /\ UNCHANGED <<vars, provider>>

TicketsSpec == TicketsInit /\ [][TicketsNext]_<<vars, provider, abi>>

Symmetry == Permutations(Tickets) \cup Permutations(Workers)

-----------------------------------------------------------------------------
(* Interpreter: what a Wait returns is what became of the task: a value is *)
(* the one it returned, TASK_FAILED tells of a task that failed, CANCELLED *)
(* of one that never started, CLOSED of a ticket that somebody closed.     *)
WaitTellsTheTask == P!WaitTellsTheTask

(* Interpreter: the text a task printed is never in two places, and it is  *)
(* in one for ever unless somebody closed a ticket or a task failed.       *)
TextIsInOnePlace == P!TextIsInOnePlace

(* Compiled programs: what a holder is told of a ticket, by AWAIT, Status  *)
(* or Cancel, is what became of its task.                                  *)
AnswersTellTheTask == A!AnswersTellTheTask

(* Compiled programs: a ticket is unknown, or an ended one reported as     *)
(* pending or not done, only in the middle of a Close.                     *)
OnlyAClosingTicketIsUnknown == A!OnlyAClosingTicketIsUnknown
=============================================================================
