-------------------------- MODULE TicketLifecycle --------------------------
(***************************************************************************)
(* What BNDispatch promises about one ticket, whatever the queue, its      *)
(* workers and the callers do: it is accepted once, it either starts or is *)
(* cancelled, never both, and what it ends as is final.  `closed` is the   *)
(* caller's own release of the handle: a ticket released before it starts  *)
(* never starts.                                                           *)
(***************************************************************************)
CONSTANT Tickets

VARIABLES phase,   \* phase[t]: where the ticket's task is
          closed   \* closed[t]: Ticket.Close was called on it

lifeVars == <<phase, closed>>

Phases == {"unborn", "PENDING", "RUNNING", "COMPLETED", "FAILED", "CANCELLED"}

Init == /\ phase = [t \in Tickets |-> "unborn"]
        /\ closed = [t \in Tickets |-> FALSE]

Move(t, from, to) == /\ phase[t] = from
                     /\ phase' = [phase EXCEPT ![t] = to]
                     /\ UNCHANGED closed

Accept(t) == Move(t, "unborn", "PENDING")

Start(t) == ~closed[t] /\ Move(t, "PENDING", "RUNNING")

Complete(t) == Move(t, "RUNNING", "COMPLETED")

Fail(t) == Move(t, "RUNNING", "FAILED")

Cancel(t) == Move(t, "PENDING", "CANCELLED")

Release(t) == /\ phase[t] # "unborn"
              /\ closed' = [closed EXCEPT ![t] = TRUE]
              /\ UNCHANGED phase

Next == \E t \in Tickets : \/ Accept(t)
                           \/ Start(t)
                           \/ Complete(t)
                           \/ Fail(t)
                           \/ Cancel(t)
                           \/ Release(t)

Spec == Init /\ [][Next]_lifeVars
=============================================================================
