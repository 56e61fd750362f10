---------------------------- MODULE TicketsProofs ----------------------------
(***************************************************************************)
(* Proofs about the ticket handles of BNDispatch, for any number of tasks. *)
(*                                                                         *)
(* Both tables rest on the same argument: a handle is published once, by   *)
(* the submit that made its ticket, so that whoever uses one holds a       *)
(* ticket the core has accepted and a Close is final.  On it stands, for   *)
(* compiled programs (A), what each call has found out at each of its      *)
(* steps, and for the interpreter (P), which text is where.                *)
(***************************************************************************)
EXTENDS MCDispatchTickets, FiniteSetTheorems, TLAPS

-----------------------------------------------------------------------------
(* Compiled programs: the inductive invariant.                             *)

AbiAnswers == {"OK", "CLOSED", "CANCELLED", "TIMEOUT", "TASK_FAILED", "INVALID_HANDLE",
               "TRUE", "FALSE", None} \cup A!Core!Phases

AbiOutcome == [result : Tickets \cup {None}, error : Codes \cup {None, "code 3"}]

AbiType ==
    /\ aphase \in [Tickets -> A!Core!Phases] /\ areleased \in [Tickets -> BOOLEAN]
    /\ atickets \in SUBSET Tickets /\ closed_tickets \in SUBSET Tickets
    /\ outcome \in [Tickets -> AbiOutcome]
    /\ aclosure \in [Tickets -> {"none", "run", "result", "error", "settle", "done"}]
    /\ aends \in [Tickets -> Codes \cup {"value", None}]
    /\ aknows \in [A!Holders -> SUBSET Tickets]
    /\ acall \in [A!Holders -> A!Calls \cup {None}]

\* The closure of a task and the core's status go together; what the closure
\* has stored is how the task ended.
AbiTaskKnows(t) ==
    /\ aphase[t] \in {"unborn", "PENDING", "CANCELLED"} <=> aclosure[t] = "none"
    /\ aphase[t] = "COMPLETED" <=> aclosure[t] = "done"
    /\ aphase[t] # "FAILED"
    /\ aends[t] = None <=> aclosure[t] \in {"none", "run"}
    /\ aclosure[t] \in {"error", "settle", "done"} =>
          outcome[t].result = IF aends[t] = "value" THEN t ELSE None
    /\ aclosure[t] \in {"settle", "done"} =>
          outcome[t].error = IF aends[t] = "value" THEN None ELSE aends[t]

\* An answer, when it is given and for ever after.
RightAnswer(op, t, res, answer) ==
    /\ op = "await" /\ answer = "OK" => aends[t] = "value" /\ res = t
    /\ op = "await" /\ answer = "TASK_FAILED" => aends[t] \in Codes
    /\ op = "await" /\ answer = "CANCELLED" =>
          aphase[t] = "CANCELLED" \/ aends[t] \in A!StatusCodes
    /\ op = "await" /\ answer = "CLOSED" => areleased[t]
    /\ op = "status" /\ answer = "FAILED" => aends[t] \in Codes
    /\ op = "status" /\ answer = "COMPLETED" => aends[t] = "value" \/ t \notin atickets
    /\ op = "cancel" /\ answer = "TRUE" => aphase[t] = "CANCELLED"

AbiAnswerIsRight(k) == RightAnswer(k.op, k.ticket, k.result, k.answer)

\* What a caller has found out at each step of a call.
AbiCallKnows(k) ==
    /\ k.op = "submit" => k.step = "insert"
    /\ k.step = "missing" \/ k.op = "close" => k.ticket \notin atickets
    /\ k.op = "close" /\ k.step = "insert" => areleased[k.ticket]
    /\ k.op = "await" /\ k.step \in {"result", "error"} => aphase[k.ticket] = "COMPLETED"
    /\ k.op = "await" /\ k.step = "error" => k.result = outcome[k.ticket].result
    /\ k.op = "status" /\ k.step = "code" => aphase[k.ticket] = "COMPLETED"
    /\ k.op = "cancel" /\ k.step = "code" => aphase[k.ticket] = "CANCELLED"
    /\ k.step = "over" => AbiAnswerIsRight(k)

\* Somebody may use the handle: submit has returned it.
AbiPublic(t) ==
    \/ t \in atickets \cup closed_tickets
    \/ \E c \in A!Holders : \/ t \in aknows[c]
                            \/ acall[c] # None /\ acall[c].op # "submit" /\ acall[c].ticket = t

Submits(c, t) == acall[c] # None /\ acall[c].op = "submit" /\ acall[c].ticket = t

Closing(t) == \E c \in A!Holders : /\ A!In(c, "close", "found") \/ A!In(c, "close", "insert")
                                   /\ acall[c].ticket = t

\* A handle is published once, and leaves the table only by way of a Close.
AbiHandles ==
    /\ \A t \in Tickets : AbiPublic(t) => aphase[t] # "unborn"
    /\ \A t \in Tickets : AbiPublic(t) /\ t \notin atickets => t \in closed_tickets \/ Closing(t)
    /\ \A t \in closed_tickets : areleased[t] /\ t \notin atickets
    /\ \A t \in Tickets, c \in A!Holders : Submits(c, t) => aphase[t] # "unborn" /\ ~AbiPublic(t)
    /\ \A t \in Tickets, c, d \in A!Holders : Submits(c, t) /\ Submits(d, t) => c = d

AbiInv == /\ AbiType /\ AbiHandles
          /\ \A t \in Tickets : AbiTaskKnows(t)
          /\ \A c \in A!Holders : acall[c] # None => AbiCallKnows(acall[c])

-----------------------------------------------------------------------------
(* Compiled programs: the steps.                                           *)

(* What is settled about a ticket stays so.                                *)
AbiSettled ==
    \A t \in Tickets :
        /\ aphase[t] \in {"COMPLETED", "CANCELLED"} => aphase'[t] = aphase[t]
        /\ aphase[t] = "COMPLETED" => outcome'[t].result = outcome[t].result
        /\ aphase[t] # "unborn" => aphase'[t] # "unborn"
        /\ aends[t] # None => aends'[t] = aends[t]
        /\ areleased[t] => areleased'[t]

(* A call that nobody moves keeps what it knows.                           *)
LEMMA AbiCallsKeep ==
    ASSUME AbiInv, AbiSettled, NEW k \in A!Calls, AbiCallKnows(k),
           k.ticket \notin atickets => k.ticket \notin atickets'
    PROVE  AbiCallKnows(k)'
<1>1. /\ k.ticket \in Tickets /\ k.op \in A!Operations \cup {"submit"}
      /\ "value" # None /\ None \notin Codes /\ None \notin A!StatusCodes
  BY HandleConstants DEF A!Calls, A!AbiConstants
<1>2. k.step = "over" => AbiAnswerIsRight(k)'
  BY <1>1 DEF AbiCallKnows, AbiAnswerIsRight, RightAnswer, AbiSettled
<1>3. QED
  BY <1>1, <1>2 DEF AbiCallKnows, AbiSettled

(* The handles stay right when none is published, no Close forgets its own *)
(* and nothing is submitted.                                               *)
LEMMA AbiHandlesKeep ==
    ASSUME AbiInv, AbiSettled, UNCHANGED closed_tickets,
           atickets' \subseteq atickets, \A t \in atickets \ atickets' : Closing(t)',
           \A t \in Tickets : AbiPublic(t)' => AbiPublic(t),
           \A t \in Tickets : Closing(t) => Closing(t)',
           \A t \in Tickets, d \in A!Holders : Submits(d, t)' => Submits(d, t)
    PROVE  AbiHandles'
<1>0. AbiHandles /\ closed_tickets \subseteq Tickets
  BY DEF AbiInv, AbiType
<1>1. \A t \in Tickets : AbiPublic(t)' => aphase'[t] # "unborn"
  BY <1>0 DEF AbiHandles, AbiSettled
<1>2. \A t \in Tickets : AbiPublic(t)' /\ t \notin atickets' => t \in closed_tickets' \/ Closing(t)'
  BY <1>0 DEF AbiHandles
<1>3. \A t \in closed_tickets' : areleased'[t] /\ t \notin atickets'
  BY <1>0 DEF AbiHandles, AbiSettled
<1>4. \A t \in Tickets, c \in A!Holders : Submits(c, t)' => aphase'[t] # "unborn" /\ ~AbiPublic(t)'
  BY <1>0 DEF AbiHandles, AbiSettled
<1>5. \A t \in Tickets, c, d \in A!Holders : Submits(c, t)' /\ Submits(d, t)' => c = d
  BY <1>0 DEF AbiHandles
<1>6. QED
  BY <1>1, <1>2, <1>3, <1>4, <1>5 DEF AbiHandles

(* Steps of a task and of the queue: no caller moves, and no handle.       *)
LEMMA AbiTaskStep ==
    ASSUME AbiInv, NEW t \in Tickets,
           \/ A!start(t) \/ A!task_returns(t) \/ A!store_result(t) \/ A!store_error(t)
           \/ A!settle(t) \/ A!cancel_pending(t)
    PROVE  AbiInv'
<1> USE DEF AbiInv
<1>0. None \notin Codes \cup {"value"} /\ "value" \notin Codes
  BY HandleConstants DEF A!AbiConstants
<1>1. UNCHANGED <<areleased, atickets, closed_tickets, aknows, acall>>
  BY DEF A!start, A!task_returns, A!store_result, A!store_error, A!settle, A!cancel_pending,
         A!Core!Start, A!Core!Complete, A!Core!Cancel, A!Core!Move, A!core, A!table
<1>2. /\ aphase' \in [Tickets -> A!Core!Phases] /\ aclosure' \in [Tickets -> {"none", "run", "result", "error", "settle", "done"}]
      /\ \A s \in Tickets : s # t => /\ aphase'[s] = aphase[s] /\ aclosure'[s] = aclosure[s]
                                     /\ aends'[s] = aends[s] /\ outcome'[s] = outcome[s]
  BY DEF A!start, A!task_returns, A!store_result, A!store_error, A!settle, A!cancel_pending, AbiType,
         A!Core!Start, A!Core!Complete, A!Core!Cancel, A!Core!Move, A!Core!Phases, A!core, A!task
<1>3. aends' \in [Tickets -> Codes \cup {"value", None}]
  BY DEF A!start, A!task_returns, A!store_result, A!store_error, A!settle, A!cancel_pending, AbiType, A!task
<1>4. outcome' \in [Tickets -> AbiOutcome]
  <2>0. outcome \in [Tickets -> AbiOutcome] /\ aends[t] \in Codes \cup {"value", None}
    BY DEF AbiType
  <2>1. CASE A!store_result(t)
    BY <2>0, <2>1 DEF A!store_result, AbiOutcome
  <2>2. CASE A!store_error(t)
    BY <2>0, <2>2 DEF A!store_error, AbiOutcome
  <2>3. CASE UNCHANGED outcome
    BY <2>0, <2>3
  <2>4. QED
    BY <2>1, <2>2, <2>3 DEF A!start, A!task_returns, A!settle, A!cancel_pending, A!task
<1>5. AbiTaskKnows(t)'
  <2>0. AbiTaskKnows(t)
    OBVIOUS
  <2>1. CASE A!start(t)
    BY <2>0, <2>1 DEF A!start, A!Core!Start, A!Core!Move, AbiTaskKnows, AbiType
  <2>2. CASE A!task_returns(t)
    <3>1. PICK e \in Codes \cup {"value"} : aends' = [aends EXCEPT ![t] = e]
      BY <2>2 DEF A!task_returns
    <3>2. aends'[t] = e /\ e # None
      BY <1>0, <3>1 DEF AbiType
    <3>3. aclosure[t] = "run" /\ aclosure'[t] = "result" /\ aphase' = aphase
      BY <2>2 DEF A!task_returns, A!core, AbiType
    <3>4. QED
      BY <2>0, <3>2, <3>3 DEF AbiTaskKnows
  <2>3. CASE A!store_result(t)
    <3>1. outcome'[t].result = IF aends[t] = "value" THEN t ELSE None
      BY <2>3 DEF A!store_result, AbiType, AbiOutcome
    <3>2. /\ aclosure[t] = "result" /\ aclosure'[t] = "error"
          /\ aphase' = aphase /\ aends' = aends
      BY <2>3 DEF A!store_result, AbiType, A!core
    <3>3. QED
      BY <2>0, <3>1, <3>2 DEF AbiTaskKnows
  <2>4. CASE A!store_error(t)
    <3>1. /\ outcome'[t].error = IF aends[t] = "value" THEN None ELSE aends[t]
          /\ outcome'[t].result = outcome[t].result
      BY <2>4 DEF A!store_error, AbiType, AbiOutcome
    <3>2. /\ aclosure[t] = "error" /\ aclosure'[t] = "settle"
          /\ aphase' = aphase /\ aends' = aends
      BY <2>4 DEF A!store_error, AbiType, A!core
    <3>3. QED
      BY <2>0, <3>1, <3>2 DEF AbiTaskKnows
  <2>5. CASE A!settle(t)
    BY <2>0, <2>5 DEF A!settle, A!Core!Complete, A!Core!Move, AbiTaskKnows, AbiType
  <2>6. CASE A!cancel_pending(t)
    BY <2>0, <2>6 DEF A!cancel_pending, A!Core!Cancel, A!Core!Move, AbiTaskKnows, AbiType, A!task
  <2>7. QED
    BY <2>1, <2>2, <2>3, <2>4, <2>5, <2>6
<1>6. \A s \in Tickets : AbiTaskKnows(s)'
  <2>1. ASSUME NEW s \in Tickets, s # t PROVE AbiTaskKnows(s)'
    BY <1>2, <2>1 DEF AbiTaskKnows
  <2>2. QED
    BY <1>5, <2>1
<1>7. AbiSettled
  <2>1. /\ aphase[t] \notin {"COMPLETED", "CANCELLED", "unborn"} /\ aphase'[t] # "unborn"
        /\ aends[t] # None => aends'[t] = aends[t]
    <3>0. AbiTaskKnows(t)
      OBVIOUS
    <3>1. CASE A!start(t) \/ A!cancel_pending(t) \/ A!settle(t)
      BY <3>1 DEF A!start, A!cancel_pending, A!settle, A!Core!Start, A!Core!Cancel, A!Core!Complete, A!Core!Move, AbiType, A!task
    <3>2. CASE A!task_returns(t) \/ A!store_result(t) \/ A!store_error(t)
      BY <3>0, <3>2 DEF A!task_returns, A!store_result, A!store_error, AbiTaskKnows, A!core
    <3>3. QED
      BY <3>1, <3>2
  <2>2. QED
    BY <1>1, <1>2, <2>1 DEF AbiSettled
<1>8. \A c \in A!Holders : acall'[c] # None => AbiCallKnows(acall[c])'
  BY <1>1, <1>7, AbiCallsKeep DEF AbiType
<1>9. AbiHandles'
  <2>1. \A s \in Tickets : AbiPublic(s)' = AbiPublic(s) /\ Closing(s)' = Closing(s)
    BY <1>1 DEF AbiPublic, Closing, A!In
  <2>2. \A s \in Tickets, c \in A!Holders : Submits(c, s)' = Submits(c, s)
    BY <1>1 DEF Submits
  <2>3. QED
    BY <1>1, <1>7, <2>1, <2>2, AbiHandlesKeep
<1>10. QED
  BY <1>1, <1>2, <1>3, <1>4, <1>6, <1>8, <1>9 DEF AbiType

(* The calls of the others keep what they know.                            *)
LEMMA AbiOthersKeep ==
    ASSUME AbiInv, AbiSettled, NEW c, \A d \in A!Holders : d # c => acall'[d] = acall[d],
           \A d \in A!Holders : d # c /\ acall[d] # None =>
               (acall[d].ticket \in atickets' => acall[d].ticket \in atickets)
    PROVE  \A d \in A!Holders : d # c /\ acall'[d] # None => AbiCallKnows(acall[d])'
<1> SUFFICES ASSUME NEW d \in A!Holders, d # c, acall'[d] # None PROVE AbiCallKnows(acall[d])'
  OBVIOUS
<1>1. PICK k \in A!Calls : acall[d] = k
  BY DEF AbiInv, AbiType
<1>2. AbiCallKnows(k)'
  BY <1>1, AbiCallsKeep DEF AbiInv, AbiType
<1>3. acall'[d] = k
  BY <1>1
<1>4. QED
  BY <1>2, <1>3

(* A caller goes on with its call: the handles stay where they are, and    *)
(* the caller knows what its next step relies on.                          *)
LEMMA AbiCallerGoesOn ==
    ASSUME AbiInv, NEW c \in A!Holders, acall[c] # None, acall[c].op # "submit",
           UNCHANGED <<atickets, closed_tickets, aclosure, aends, aknows>>,
           AbiSettled, \A t \in Tickets : AbiTaskKnows(t)',
           aphase' \in [Tickets -> A!Core!Phases], areleased' \in [Tickets -> BOOLEAN],
           outcome' \in [Tickets -> AbiOutcome],
           acall' = [acall EXCEPT ![c] = acall'[c]],
           acall'[c] \in A!Calls, AbiCallKnows(acall[c])',
           acall'[c].op = acall[c].op, acall'[c].ticket = acall[c].ticket,
           A!In(c, "close", "found") \/ A!In(c, "close", "insert") => A!In(c, "close", "insert")'
    PROVE  AbiInv'
<1>1. \A d \in A!Holders : d # c => acall'[d] = acall[d]
  BY DEF AbiInv, AbiType
<1>2. AbiType'
  BY DEF AbiInv, AbiType
<1>3. \A d \in A!Holders : acall'[d] # None => AbiCallKnows(acall[d])'
  BY <1>1, AbiOthersKeep
<1>4. \A t \in Tickets : AbiPublic(t)' => AbiPublic(t)
  BY <1>1 DEF AbiPublic
<1>5. \A t \in Tickets : Closing(t) => Closing(t)'
  BY <1>1 DEF Closing, A!In
<1>6. \A t \in Tickets, d \in A!Holders : Submits(d, t)' => Submits(d, t)
  BY <1>1 DEF Submits
<1>7. AbiHandles'
  BY <1>4, <1>5, <1>6, AbiHandlesKeep
<1>8. QED
  BY <1>2, <1>3, <1>7 DEF AbiInv

(* The same where nothing but the call changes.                            *)
LEMMA AbiCallerReads ==
    ASSUME AbiInv, NEW c \in A!Holders, acall[c] # None, NEW k \in A!Calls,
           acall' = [acall EXCEPT ![c] = k],
           UNCHANGED <<aphase, areleased, atickets, closed_tickets, outcome, aclosure, aends, aknows>>,
           k.op = acall[c].op, k.ticket = acall[c].ticket, k.op # "submit",
           AbiCallKnows(k), k.op = "close" => acall[c].step = "missing"
    PROVE  AbiInv'
<1>1. acall'[c] = k
  BY DEF AbiInv, AbiType
<1>2. AbiSettled
  BY DEF AbiSettled
<1>3. \A t \in Tickets : AbiTaskKnows(t)'
  BY DEF AbiInv, AbiTaskKnows
<1>4. AbiCallKnows(acall[c])'
  <2>1. AbiCallKnows(k)'
    BY DEF AbiCallKnows, AbiAnswerIsRight, RightAnswer
  <2>2. QED
    BY <1>1, <2>1
<1>5. ~(A!In(c, "close", "found") \/ A!In(c, "close", "insert"))
  BY DEF A!In
<1>6. AbiType
  BY DEF AbiInv
<1>7. QED
  BY <1>1, <1>2, <1>3, <1>4, <1>5, <1>6, AbiCallerGoesOn DEF AbiType

(* A right answer.                                                         *)
LEMMA AbiCallerAnswers ==
    ASSUME AbiInv, NEW c \in A!Holders, acall[c] # None,
           UNCHANGED <<aphase, areleased, atickets, closed_tickets, outcome, aclosure, aends, aknows>>,
           NEW a \in AbiAnswers, A!Answers(c, a), acall[c].op # "submit",
           acall[c].op = "close" => acall[c].step = "missing",
           RightAnswer(acall[c].op, acall[c].ticket, acall[c].result, a)
    PROVE  AbiInv'
<1> DEFINE k == [acall[c] EXCEPT !.step = "over", !.answer = a]
<1>0. acall[c] \in A!Calls /\ AbiCallKnows(acall[c])
  BY DEF AbiInv, AbiType
<1>1. /\ k \in A!Calls /\ k.op = acall[c].op /\ k.ticket = acall[c].ticket /\ k.step = "over"
      /\ k.result = acall[c].result /\ k.answer = a
  BY <1>0 DEF A!Calls, AbiAnswers
<1>2. acall' = [acall EXCEPT ![c] = k]
  BY <1>0 DEF A!Answers
<1> HIDE DEF k
<1>3. AbiAnswerIsRight(k)
  BY <1>1 DEF AbiAnswerIsRight
<1>4. AbiCallKnows(k)
  BY <1>0, <1>1, <1>3 DEF AbiCallKnows
<1>5. QED
  BY <1>1, <1>2, <1>4, AbiCallerReads

(* The steps of a call that only read.                                     *)
LEMMA AbiReadStep ==
    ASSUME AbiInv, NEW c \in A!Holders,
           \/ A!missing(c)
           \/ A!wait_ok(c) \/ A!wait_fails(c) \/ A!read_result(c) \/ A!read_error(c)
           \/ A!ticket_status(c) \/ A!ticket_completed(c) \/ A!ticket_is_done(c)
    PROVE  AbiInv'
<1> DEFINE t == acall[c].ticket
<1>0. /\ None \notin A!StatusCodes \cup Codes \cup {"value"} /\ "value" \notin Codes
      /\ None \notin Tickets
  BY HandleConstants DEF A!AbiConstants, A!Holders
<1>1. /\ acall[c] # None /\ acall[c] \in A!Calls /\ AbiCallKnows(acall[c]) /\ t \in Tickets
      /\ UNCHANGED <<aphase, areleased, atickets, closed_tickets, outcome, aclosure, aends, aknows>>
  BY DEF A!missing, A!wait_ok, A!wait_fails, A!read_result, A!read_error, A!ticket_status, A!ticket_completed,
         A!ticket_is_done, A!In, A!core, A!table, A!task, AbiInv, AbiType, A!Calls
<1>2. AbiTaskKnows(t) /\ aphase[t] \in A!Core!Phases /\ outcome[t] \in AbiOutcome /\ aends[t] \in Codes \cup {"value", None}
  BY <1>1 DEF AbiInv, AbiType
<1>3. ASSUME NEW a \in AbiAnswers, A!Answers(c, a), acall[c].op # "submit",
             acall[c].op = "close" => acall[c].step = "missing",
             RightAnswer(acall[c].op, t, acall[c].result, a)
      PROVE  AbiInv'
  BY <1>1, <1>3, AbiCallerAnswers
<1>4. ASSUME NEW step \in {"result", "error", "code"}, NEW r \in Tickets \cup {None},
             acall' = [acall EXCEPT ![c].step = step, ![c].result = r],
             acall[c].op \in {"await", "status"}, aphase[t] = "COMPLETED",
             acall[c].op = "await" /\ step = "error" => r = outcome[t].result
      PROVE  AbiInv'
  <2> DEFINE k == [acall[c] EXCEPT !.step = step, !.result = r]
  <2>1. /\ k \in A!Calls /\ k.op = acall[c].op /\ k.ticket = t
        /\ k.step = step /\ k.result = r
    BY <1>1, <1>4 DEF A!Calls
  <2>2. acall' = [acall EXCEPT ![c] = k]
    BY <1>1, <1>4
  <2> HIDE DEF k
  <2>3. AbiCallKnows(k)
    BY <1>1, <1>4, <2>1 DEF AbiCallKnows
  <2>4. QED
    BY <1>1, <1>4, <2>1, <2>2, <2>3, AbiCallerReads
<1>5. ASSUME NEW step \in {"result", "code"}, A!Goes(c, step),
             acall[c].op \in {"await", "status"}, aphase[t] = "COMPLETED"
      PROVE  AbiInv'
  <2>1. acall[c].result \in Tickets \cup {None}
    BY <1>1 DEF A!Calls
  <2>2. acall' = [acall EXCEPT ![c].step = step, ![c].result = acall[c].result]
    BY <1>1, <1>5 DEF A!Goes, A!Calls
  <2>3. QED
    BY <1>4, <1>5, <2>1, <2>2
<1>6. CASE A!missing(c)
  <2> DEFINE a == A!AnswerOfMissing(acall[c].op, t \in closed_tickets)
  <2>1. A!Answers(c, a) /\ acall[c].step = "missing" /\ acall[c].op \in A!Operations /\ t \notin atickets
    BY <1>1, <1>6 DEF A!missing, A!Calls, AbiCallKnows
  <2>2. t \in closed_tickets => areleased[t]
    BY DEF AbiInv, AbiHandles
  <2>3. a \in AbiAnswers /\ RightAnswer(acall[c].op, t, acall[c].result, a)
    BY <2>1, <2>2 DEF A!AnswerOfMissing, A!Operations, AbiAnswers, A!Core!Phases, RightAnswer
  <2>4. acall[c].op # "submit"
    BY <2>1 DEF A!Operations
  <2> HIDE DEF a
  <2>5. QED
    BY <1>3, <2>1, <2>3, <2>4
<1>7. CASE A!wait_ok(c)
  BY <1>5, <1>7 DEF A!wait_ok, A!In
<1>8. CASE A!wait_fails(c)
  <2>1. acall[c].op = "await" /\ acall[c].step = "found"
    BY <1>8 DEF A!wait_fails, A!In
  <2>2. PICK a \in {"CLOSED", "CANCELLED", "TIMEOUT"} :
           /\ A!Answers(c, a)
           /\ a = "CLOSED" => areleased[t]
           /\ a = "CANCELLED" => aphase[t] = "CANCELLED"
    BY <1>8 DEF A!wait_fails
  <2>3. a \in AbiAnswers /\ RightAnswer("await", t, acall[c].result, a)
    BY <2>2 DEF AbiAnswers, RightAnswer
  <2>4. QED
    BY <1>3, <2>1, <2>2, <2>3
<1>9. CASE A!read_result(c)
  <2>1. acall[c].op = "await" /\ acall[c].step = "result" /\ aphase[t] = "COMPLETED"
    BY <1>1, <1>9 DEF A!read_result, A!In, AbiCallKnows
  <2>2. outcome[t].result \in Tickets \cup {None}
    BY <1>2 DEF AbiOutcome
  <2>3. acall' = [acall EXCEPT ![c].step = "error", ![c].result = outcome[t].result]
    BY <1>9 DEF A!read_result
  <2>4. QED
    BY <1>4, <2>1, <2>2, <2>3
<1>10. CASE A!read_error(c)
  <2> DEFINE a == A!AwaitStatus(outcome[t].error)
  <2>1. /\ acall[c].op = "await" /\ acall[c].step = "error" /\ aphase[t] = "COMPLETED"
        /\ acall[c].result = outcome[t].result /\ A!Answers(c, a)
    BY <1>1, <1>10 DEF A!read_error, A!In, AbiCallKnows
  <2>2. /\ aends[t] # None /\ outcome[t].result = IF aends[t] = "value" THEN t ELSE None
        /\ outcome[t].error = IF aends[t] = "value" THEN None ELSE aends[t]
    BY <1>2, <2>1 DEF AbiTaskKnows
  <2>3. a \in AbiAnswers /\ RightAnswer("await", t, acall[c].result, a)
    BY <1>0, <1>2, <2>1, <2>2 DEF A!AwaitStatus, AbiAnswers, RightAnswer
  <2> HIDE DEF a
  <2>4. QED
    BY <1>3, <2>1, <2>3
<1>11. CASE A!ticket_status(c)
  <2>1. acall[c].op = "status" /\ acall[c].step = "found"
    BY <1>11 DEF A!ticket_status, A!In
  <2>2. CASE aphase[t] = "COMPLETED"
    BY <1>5, <1>11, <2>1, <2>2 DEF A!ticket_status
  <2>3. CASE aphase[t] # "COMPLETED"
    <3>1. A!Answers(c, aphase[t])
      BY <1>11, <2>3 DEF A!ticket_status
    <3>2. aphase[t] \in AbiAnswers /\ RightAnswer("status", t, acall[c].result, aphase[t])
      BY <1>2, <2>3 DEF AbiAnswers, AbiTaskKnows, RightAnswer
    <3>3. QED
      BY <1>3, <2>1, <3>1, <3>2
  <2>4. QED
    BY <2>2, <2>3
<1>12. CASE A!ticket_completed(c)
  <2>1. acall[c].op = "status" /\ acall[c].step = "code" /\ aphase[t] = "COMPLETED"
    BY <1>1, <1>12 DEF A!ticket_completed, A!In, AbiCallKnows
  <2>2. aends[t] # None /\ outcome[t].error = IF aends[t] = "value" THEN None ELSE aends[t]
    BY <1>2, <2>1 DEF AbiTaskKnows
  <2>3. PICK a \in {"COMPLETED", "FAILED"} :
           A!Answers(c, a) /\ (a = "COMPLETED" <=> outcome[t].error = None)
    BY <1>12 DEF A!ticket_completed
  <2>4. a \in AbiAnswers /\ RightAnswer("status", t, acall[c].result, a)
    BY <1>0, <1>2, <2>2, <2>3 DEF AbiAnswers, A!Core!Phases, RightAnswer
  <2>5. QED
    BY <1>3, <2>1, <2>3, <2>4
<1>13. CASE A!ticket_is_done(c)
  <2>1. acall[c].op = "is_done"
    BY <1>13 DEF A!ticket_is_done, A!In
  <2>2. PICK a \in {"TRUE", "FALSE"} : A!Answers(c, a)
    BY <1>13 DEF A!ticket_is_done
  <2>3. a \in AbiAnswers /\ RightAnswer("is_done", t, acall[c].result, a)
    BY DEF AbiAnswers, RightAnswer
  <2>4. QED
    BY <1>3, <2>1, <2>2, <2>3
<1>14. QED
  BY <1>6, <1>7, <1>8, <1>9, <1>10, <1>11, <1>12, <1>13

(* The steps of Cancel, and the release that Close makes.                  *)
LEMMA AbiCancelStep ==
    ASSUME AbiInv, NEW c \in A!Holders,
           A!ticket_cancel(c) \/ A!ticket_cancelled(c) \/ A!ticket_close(c)
    PROVE  AbiInv'
<1> DEFINE t == acall[c].ticket
<1>1. /\ acall[c] # None /\ acall[c] \in A!Calls /\ AbiCallKnows(acall[c]) /\ t \in Tickets
      /\ UNCHANGED <<atickets, closed_tickets, aclosure, aends, aknows>>
  BY DEF A!ticket_cancel, A!ticket_cancelled, A!ticket_close, A!In, A!table, A!task, AbiInv, AbiType, A!Calls
<1>2. AbiTaskKnows(t) /\ AbiType
  BY <1>1 DEF AbiInv
<1>3. CASE A!ticket_cancel(c)
  <2>1. acall[c].op = "cancel" /\ acall[c].step = "found" /\ outcome' = outcome
    BY <1>3 DEF A!ticket_cancel, A!In, A!task
  <2>2. ASSUME NEW a \in {"CLOSED", "FALSE"}, A!Answers(c, a), UNCHANGED A!core
        PROVE  AbiInv'
    <3>1. a \in AbiAnswers /\ RightAnswer("cancel", t, acall[c].result, a)
      BY <2>2 DEF AbiAnswers, RightAnswer
    <3>2. QED
      BY <1>1, <2>1, <2>2, <3>1, AbiCallerAnswers DEF A!core
  <2>3. ASSUME A!Core!Cancel(t), A!Goes(c, "code") PROVE AbiInv'
    <3>0. PICK k \in A!Calls : k = [acall[c] EXCEPT !.step = "code"]
      BY <1>1 DEF A!Calls
    <3>1. k.op = "cancel" /\ k.ticket = t /\ k.step = "code"
      BY <1>1, <2>1, <3>0 DEF A!Calls
    <3>2. acall'[c] = k /\ acall' = [acall EXCEPT ![c] = k]
      BY <1>2, <2>3, <3>0 DEF A!Goes, AbiType
    <3>3. /\ aphase[t] = "PENDING" /\ aphase'[t] = "CANCELLED" /\ areleased' = areleased
          /\ \A s \in Tickets : s # t => aphase'[s] = aphase[s]
          /\ aphase' \in [Tickets -> A!Core!Phases]
      BY <1>1, <1>2, <2>3 DEF A!Core!Cancel, A!Core!Move, A!Core!Phases, AbiType
    <3>4. AbiSettled
      BY <1>1, <2>1, <3>3 DEF AbiSettled
    <3>5. \A s \in Tickets : AbiTaskKnows(s)'
      BY <1>1, <2>1, <3>3 DEF AbiInv, AbiTaskKnows
    <3>6. AbiCallKnows(acall[c])'
      <4>1. AbiCallKnows(k)'
        BY <3>1, <3>3 DEF AbiCallKnows
      <4>2. QED
        BY <4>1, <3>2
    <3>7. ~(A!In(c, "close", "found") \/ A!In(c, "close", "insert"))
      BY <2>1 DEF A!In
    <3>8. QED
      BY <1>1, <1>2, <2>1, <3>1, <3>2, <3>3, <3>4, <3>5, <3>6, <3>7, AbiCallerGoesOn DEF AbiType
  <2>4. QED
    BY <1>3, <2>2, <2>3 DEF A!ticket_cancel
<1>4. CASE A!ticket_cancelled(c)
  <2>1. /\ acall[c].op = "cancel" /\ acall[c].step = "code" /\ aphase[t] = "CANCELLED"
        /\ UNCHANGED <<aphase, areleased>>
    BY <1>1, <1>4 DEF A!ticket_cancelled, A!In, AbiCallKnows, A!core
  <2>0. PICK k \in A!Calls : k = [acall[c] EXCEPT !.step = "over", !.answer = "TRUE"]
    BY <1>1 DEF A!Calls
  <2>2. k.op = "cancel" /\ k.ticket = t /\ k.step = "over" /\ k.answer = "TRUE"
    BY <1>1, <2>0, <2>1 DEF A!Calls
  <2>3. acall'[c] = k /\ acall' = [acall EXCEPT ![c] = k]
    BY <1>2, <1>4, <2>0 DEF A!ticket_cancelled, A!Answers, AbiType
  <2>4. /\ outcome' \in [Tickets -> AbiOutcome]
        /\ \A s \in Tickets : s # t => outcome'[s] = outcome[s]
    BY <1>1, <1>2, <1>4 DEF A!ticket_cancelled, AbiType, AbiOutcome
  <2>5. AbiSettled
    BY <1>1, <2>1, <2>4 DEF AbiSettled
  <2>6. \A s \in Tickets : AbiTaskKnows(s)'
    BY <1>1, <2>1, <2>4 DEF AbiInv, AbiTaskKnows
  <2>7. AbiCallKnows(acall[c])'
    <3>1. AbiCallKnows(k)'
      BY <2>1, <2>2 DEF AbiCallKnows, AbiAnswerIsRight, RightAnswer
    <3>2. QED
      BY <3>1, <2>3
  <2>8. ~(A!In(c, "close", "found") \/ A!In(c, "close", "insert"))
    BY <2>1 DEF A!In
  <2>9. QED
    BY <1>1, <1>2, <2>1, <2>2, <2>3, <2>4, <2>5, <2>6, <2>7, <2>8, AbiCallerGoesOn DEF AbiType
<1>5. CASE A!ticket_close(c)
  <2>1. acall[c].op = "close" /\ acall[c].step = "found" /\ UNCHANGED <<aphase, outcome>>
    BY <1>5 DEF A!ticket_close, A!In, A!Core!Release, A!task
  <2>0. PICK k \in A!Calls : k = [acall[c] EXCEPT !.step = "insert"]
    BY <1>1 DEF A!Calls
  <2>2. k.op = "close" /\ k.ticket = t /\ k.step = "insert" /\ t \notin atickets
    BY <1>1, <2>0, <2>1 DEF A!Calls, AbiCallKnows
  <2>3. acall'[c] = k /\ acall' = [acall EXCEPT ![c] = k]
    BY <1>2, <1>5, <2>0 DEF A!ticket_close, A!Goes, AbiType
  <2>4. areleased' \in [Tickets -> BOOLEAN] /\ areleased'[t]
    BY <1>1, <1>2, <1>5 DEF A!ticket_close, A!Core!Release, AbiType
  <2>5. \A s \in Tickets : areleased[s] => areleased'[s]
    BY <1>1, <1>2, <1>5 DEF A!ticket_close, A!Core!Release, AbiType
  <2>6. AbiSettled
    BY <1>1, <2>1, <2>5 DEF AbiSettled
  <2>7. \A s \in Tickets : AbiTaskKnows(s)'
    BY <1>1, <2>1 DEF AbiInv, AbiTaskKnows
  <2>8. AbiCallKnows(acall[c])'
    <3>1. AbiCallKnows(k)'
      BY <1>1, <2>2, <2>4 DEF AbiCallKnows
    <3>2. QED
      BY <3>1, <2>3
  <2>9. A!In(c, "close", "insert")'
    BY <2>2, <2>3, HandleConstants DEF A!In, A!AbiConstants
  <2>10. QED
    BY <1>1, <1>2, <2>1, <2>2, <2>3, <2>4, <2>6, <2>7, <2>8, <2>9, AbiCallerGoesOn DEF AbiType
<1>6. QED
  BY <1>3, <1>4, <1>5

(* A call begins: Close takes its handle out of the table at once.         *)
LEMMA AbiLookupStep ==
    ASSUME AbiInv, NEW c \in A!Holders, NEW t \in Tickets, NEW op \in A!Operations, A!lookup(c, t, op)
    PROVE  AbiInv'
<1>0. AbiType /\ AbiHandles /\ None \notin A!Calls
  BY HandleConstants DEF AbiInv, A!AbiConstants
<1>1. /\ A!Idle(c) /\ t \in aknows[c] /\ closed_tickets' = closed_tickets
      /\ atickets' = IF op = "close" THEN atickets \ {t} ELSE atickets
      /\ UNCHANGED <<aphase, areleased, outcome, aclosure, aends, aknows>>
  BY DEF A!lookup, A!MayCall, A!core, A!task
<1>2. PICK k \in A!Calls :
         k = [op |-> op, ticket |-> t, step |-> IF t \in atickets THEN "found" ELSE "missing",
              result |-> None, answer |-> None]
  <2>1. (IF t \in atickets THEN "found" ELSE "missing") \in {"found", "missing"}
    OBVIOUS
  <2>2. QED
    BY <2>1 DEF A!Calls
<1>3. k.op = op /\ k.ticket = t /\ k.step = (IF t \in atickets THEN "found" ELSE "missing") /\ op # "submit"
  BY <1>2 DEF A!Operations
<1>4. /\ acall'[c] = k /\ acall' \in [A!Holders -> A!Calls \cup {None}]
      /\ \A d \in A!Holders : d # c => acall'[d] = acall[d]
  BY <1>0, <1>2 DEF A!lookup, A!Begins, AbiType
<1>5. AbiType'
  BY <1>0, <1>1, <1>4 DEF AbiType
<1>6. AbiSettled
  BY <1>1 DEF AbiSettled
<1>7. \A s \in Tickets : AbiTaskKnows(s)'
  BY <1>1 DEF AbiInv, AbiTaskKnows
<1>8. \A d \in A!Holders : acall'[d] # None => AbiCallKnows(acall[d])'
  <2>1. AbiCallKnows(k)'
    BY <1>1, <1>3 DEF AbiCallKnows
  <2>2. AbiCallKnows(acall[c])'
    BY <1>4, <2>1
  <2>3. QED
    BY <1>1, <1>4, <1>6, <2>2, AbiOthersKeep
<1>9. AbiHandles'
  <2>1. \A s \in Tickets : AbiPublic(s)' => AbiPublic(s)
    BY <1>1, <1>3, <1>4 DEF AbiPublic
  <2>2. \A s \in Tickets : Closing(s) => Closing(s)'
    BY <1>1, <1>4 DEF Closing, A!In, A!Idle
  <2>3. \A s \in atickets \ atickets' : Closing(s)'
    BY <1>0, <1>1, <1>3, <1>4 DEF Closing, A!In
  <2>4. \A s \in Tickets, d \in A!Holders : Submits(d, s)' => Submits(d, s)
    BY <1>3, <1>4 DEF Submits
  <2>5. QED
    BY <1>1, <1>6, <2>1, <2>2, <2>3, <2>4, AbiHandlesKeep
<1>10. QED
  BY <1>5, <1>7, <1>8, <1>9 DEF AbiInv

(* A task is submitted: nobody else has its handle.                        *)
LEMMA AbiSubmitStep ==
    ASSUME AbiInv, NEW c \in A!Holders, NEW t \in Tickets, A!submit_with(c, t)
    PROVE  AbiInv'
<1>0. AbiType /\ AbiHandles /\ None \notin A!Calls /\ AbiTaskKnows(t)
  BY HandleConstants DEF AbiInv, A!AbiConstants
<1>1. /\ A!Idle(c) /\ aphase[t] = "unborn" /\ aphase'[t] = "PENDING"
      /\ aphase' \in [Tickets -> A!Core!Phases]
      /\ \A s \in Tickets : s # t => aphase'[s] = aphase[s]
      /\ UNCHANGED <<areleased, atickets, closed_tickets, outcome, aclosure, aends>>
  BY <1>0 DEF A!submit_with, A!MayCall, A!Core!Accept, A!Core!Move, A!Core!Phases, A!table, A!task, AbiType
<1>2. /\ aknows' \in [A!Holders -> SUBSET Tickets]
      /\ \A d \in A!Holders : aknows'[d] \in {aknows[d], aknows[c]}
  BY <1>0 DEF A!submit_with, AbiType, A!Holders
<1>3. PICK k \in A!Calls : k = [op |-> "submit", ticket |-> t, step |-> "insert",
                                result |-> None, answer |-> None]
  BY DEF A!Calls
<1>4. /\ acall'[c] = k /\ acall' \in [A!Holders -> A!Calls \cup {None}]
      /\ \A d \in A!Holders : d # c => acall'[d] = acall[d]
  BY <1>0, <1>3 DEF A!submit_with, A!Begins, AbiType
<1>5. AbiType'
  BY <1>0, <1>1, <1>2, <1>4 DEF AbiType
<1>6. AbiSettled
  BY <1>1 DEF AbiSettled
<1>7. \A s \in Tickets : AbiTaskKnows(s)'
  BY <1>1 DEF AbiInv, AbiTaskKnows
<1>8. \A d \in A!Holders : acall'[d] # None => AbiCallKnows(acall[d])'
  <2>1. AbiCallKnows(k)'
    BY <1>3 DEF AbiCallKnows
  <2>2. AbiCallKnows(acall[c])'
    BY <1>4, <2>1
  <2>3. QED
    BY <1>1, <1>4, <1>6, <2>2, AbiOthersKeep
<1>9. AbiHandles'
  <2>1. \A s \in Tickets : AbiPublic(s)' => AbiPublic(s)
    BY <1>1, <1>2, <1>3, <1>4 DEF AbiPublic
  <2>2. \A s \in Tickets : Closing(s) => Closing(s)'
    BY <1>1, <1>4 DEF Closing, A!In, A!Idle
  <2>3. ~AbiPublic(t) /\ \A d \in A!Holders : ~Submits(d, t)
    BY <1>0, <1>1 DEF AbiHandles
  <2>4. ASSUME NEW s \in Tickets, NEW d \in A!Holders, Submits(d, s)'
        PROVE  Submits(d, s) \/ (s = t /\ d = c)
    <3>1. CASE d = c
      BY <1>3, <1>4, <2>4, <3>1 DEF Submits
    <3>2. CASE d # c
      BY <1>4, <2>4, <3>2 DEF Submits
    <3>3. QED
      BY <3>1, <3>2
  <2>5. \A s \in Tickets : AbiPublic(s)' => aphase'[s] # "unborn"
    BY <1>0, <1>6, <2>1 DEF AbiHandles, AbiSettled
  <2>6. \A s \in Tickets : AbiPublic(s)' /\ s \notin atickets' => s \in closed_tickets' \/ Closing(s)'
    BY <1>0, <1>1, <2>1, <2>2 DEF AbiHandles
  <2>7. \A s \in closed_tickets' : areleased'[s] /\ s \notin atickets'
    BY <1>0, <1>1 DEF AbiHandles
  <2>8. \A s \in Tickets, d \in A!Holders : Submits(d, s)' => aphase'[s] # "unborn" /\ ~AbiPublic(s)'
    BY <1>0, <1>1, <1>6, <2>1, <2>3, <2>4 DEF AbiHandles, AbiSettled
  <2>9. \A s \in Tickets, d, e \in A!Holders : Submits(d, s)' /\ Submits(e, s)' => d = e
    BY <1>0, <2>3, <2>4 DEF AbiHandles
  <2>10. QED
    BY <2>5, <2>6, <2>7, <2>8, <2>9 DEF AbiHandles
<1>10. QED
  BY <1>5, <1>7, <1>8, <1>9 DEF AbiInv

(* Submit returns the handle: it is published, and by nobody else.         *)
LEMMA AbiInsertStep ==
    ASSUME AbiInv, NEW c \in A!Holders, A!insert(c)
    PROVE  AbiInv'
<1> DEFINE t == acall[c].ticket
<1>0. AbiType /\ AbiHandles
  BY DEF AbiInv
<1>1. /\ Submits(c, t) /\ t \in Tickets /\ atickets' = atickets \cup {t}
      /\ UNCHANGED <<aphase, areleased, closed_tickets, outcome, aclosure, aends>>
  BY <1>0 DEF A!insert, A!In, Submits, A!core, A!task, AbiType, A!Calls
<1>2. /\ aknows' \in [A!Holders -> SUBSET Tickets]
      /\ \A d \in A!Holders : aknows'[d] \subseteq aknows[d] \cup {t}
  BY <1>0, <1>1 DEF A!insert, AbiType
<1>3. /\ acall'[c] = None /\ acall' \in [A!Holders -> A!Calls \cup {None}]
      /\ \A d \in A!Holders : d # c => acall'[d] = acall[d]
  BY <1>0 DEF A!insert, A!Returns, AbiType
<1> HIDE DEF t
<1>4. AbiType'
  BY <1>0, <1>1, <1>2, <1>3 DEF AbiType
<1>5. AbiSettled
  BY <1>1 DEF AbiSettled
<1>6. \A s \in Tickets : AbiTaskKnows(s)'
  BY <1>1 DEF AbiInv, AbiTaskKnows
<1>7. ~AbiPublic(t) /\ aphase[t] # "unborn" /\ \A d \in A!Holders : d # c => ~Submits(d, t)
  BY <1>0, <1>1 DEF AbiHandles
<1>8. \A d \in A!Holders : acall'[d] # None => AbiCallKnows(acall[d])'
  <2>1. \A d \in A!Holders : d # c /\ acall[d] # None => acall[d].ticket # t
    BY <1>7 DEF AbiPublic, Submits
  <2>2. QED
    BY <1>1, <1>3, <1>5, <2>1, AbiOthersKeep
<1>9. AbiHandles'
  <2>1. \A s \in Tickets : AbiPublic(s)' => AbiPublic(s) \/ s = t
    BY <1>1, <1>2, <1>3 DEF AbiPublic
  <2>2. \A s \in Tickets : Closing(s) => Closing(s)'
    BY <1>1, <1>3 DEF Closing, A!In, Submits
  <2>3. \A s \in Tickets, d \in A!Holders : Submits(d, s)' => Submits(d, s) /\ d # c
    BY <1>3 DEF Submits
  <2>4. t \notin closed_tickets
    BY <1>7 DEF AbiPublic
  <2>5. \A s \in Tickets : AbiPublic(s)' => aphase'[s] # "unborn"
    BY <1>0, <1>1, <1>7, <2>1 DEF AbiHandles
  <2>6. \A s \in Tickets : AbiPublic(s)' /\ s \notin atickets' => s \in closed_tickets' \/ Closing(s)'
    BY <1>0, <1>1, <2>1, <2>2 DEF AbiHandles
  <2>7. \A s \in closed_tickets' : areleased'[s] /\ s \notin atickets'
    BY <1>0, <1>1, <2>4 DEF AbiHandles
  <2>8. \A s \in Tickets, d \in A!Holders : Submits(d, s)' => aphase'[s] # "unborn" /\ ~AbiPublic(s)'
    BY <1>0, <1>1, <1>7, <2>1, <2>3 DEF AbiHandles
  <2>9. \A s \in Tickets, d, e \in A!Holders : Submits(d, s)' /\ Submits(e, s)' => d = e
    BY <1>0, <2>3 DEF AbiHandles
  <2>10. QED
    BY <2>5, <2>6, <2>7, <2>8, <2>9 DEF AbiHandles
<1>10. QED
  BY <1>4, <1>6, <1>8, <1>9 DEF AbiInv

(* Close is over: the handle is remembered among the closed ones.          *)
LEMMA AbiClosedStep ==
    ASSUME AbiInv, NEW c \in A!Holders, A!ticket_closed(c)
    PROVE  AbiInv'
<1> DEFINE t == acall[c].ticket
<1>0. AbiType /\ AbiHandles
  BY DEF AbiInv
<1>1. /\ acall[c] # None /\ acall[c].op = "close" /\ AbiCallKnows(acall[c]) /\ t \in Tickets
      /\ acall[c].step = "insert" /\ closed_tickets' = closed_tickets \cup {t}
      /\ UNCHANGED <<aphase, areleased, atickets, outcome, aclosure, aends, aknows>>
  BY <1>0 DEF A!ticket_closed, A!In, A!core, A!task, AbiInv, AbiType, A!Calls
<1>2. areleased[t] /\ t \notin atickets /\ AbiPublic(t)
  BY <1>1 DEF AbiCallKnows, AbiPublic
<1>3. /\ acall'[c] = None /\ acall' \in [A!Holders -> A!Calls \cup {None}]
      /\ \A d \in A!Holders : d # c => acall'[d] = acall[d]
  BY <1>0 DEF A!ticket_closed, A!Returns, AbiType
<1> HIDE DEF t
<1>4. AbiType'
  BY <1>0, <1>1, <1>3 DEF AbiType
<1>5. AbiSettled
  BY <1>1 DEF AbiSettled
<1>6. \A s \in Tickets : AbiTaskKnows(s)'
  BY <1>1 DEF AbiInv, AbiTaskKnows
<1>7. \A d \in A!Holders : acall'[d] # None => AbiCallKnows(acall[d])'
  BY <1>1, <1>3, <1>5, AbiOthersKeep
<1>8. AbiHandles'
  <2>1. \A s \in Tickets : AbiPublic(s)' => AbiPublic(s)
    BY <1>1, <1>2, <1>3 DEF AbiPublic
  <2>2. \A s \in Tickets : Closing(s) => Closing(s)' \/ s = t
    BY <1>1, <1>3 DEF Closing, A!In, t
  <2>3. \A s \in Tickets, d \in A!Holders : Submits(d, s)' => Submits(d, s)
    BY <1>3 DEF Submits
  <2>4. \A s \in Tickets : AbiPublic(s)' => aphase'[s] # "unborn"
    BY <1>0, <1>1, <2>1 DEF AbiHandles
  <2>5. \A s \in Tickets : AbiPublic(s)' /\ s \notin atickets' => s \in closed_tickets' \/ Closing(s)'
    BY <1>0, <1>1, <2>1, <2>2 DEF AbiHandles
  <2>6. \A s \in closed_tickets' : areleased'[s] /\ s \notin atickets'
    BY <1>0, <1>1, <1>2 DEF AbiHandles
  <2>7. \A s \in Tickets, d \in A!Holders : Submits(d, s)' => aphase'[s] # "unborn" /\ ~AbiPublic(s)'
    BY <1>0, <1>1, <2>1, <2>3 DEF AbiHandles
  <2>8. \A s \in Tickets, d, e \in A!Holders : Submits(d, s)' /\ Submits(e, s)' => d = e
    BY <1>0, <2>3 DEF AbiHandles
  <2>9. QED
    BY <2>4, <2>5, <2>6, <2>7, <2>8 DEF AbiHandles
<1>9. QED
  BY <1>4, <1>6, <1>7, <1>8 DEF AbiInv

-----------------------------------------------------------------------------
(* Compiled programs: the theorems.                                        *)

LEMMA AbiInitially == A!Init => AbiInv
<1> SUFFICES ASSUME A!Init PROVE AbiInv
  OBVIOUS
<1>1. AbiType
  BY DEF A!Init, A!Core!Init, A!Core!Phases, AbiType, AbiOutcome
<1>2. \A c \in A!Holders : acall[c] = None /\ aknows[c] = {}
  BY DEF A!Init
<1>3. \A t \in Tickets : ~AbiPublic(t)
  BY <1>2 DEF A!Init, AbiPublic
<1>4. AbiHandles
  BY <1>2, <1>3 DEF A!Init, AbiHandles, Submits
<1>5. \A t \in Tickets : AbiTaskKnows(t)
  BY DEF A!Init, A!Core!Init, AbiTaskKnows
<1>6. QED
  BY <1>1, <1>2, <1>4, <1>5 DEF AbiInv

LEMMA AbiStutters == AbiInv /\ UNCHANGED A!vars => AbiInv'
BY DEF AbiInv, A!vars, AbiType, AbiHandles, AbiPublic, Submits, Closing, A!In, AbiTaskKnows,
       AbiCallKnows, AbiAnswerIsRight, RightAnswer

LEMMA AbiInvariant == A!Spec => []AbiInv
<1>1. AbiInv /\ [A!Next]_(A!vars) => AbiInv'
  BY AbiStutters, AbiTaskStep, AbiReadStep, AbiCancelStep, AbiLookupStep, AbiSubmitStep, AbiInsertStep,
     AbiClosedStep DEF A!Next
<1>2. QED
  BY <1>1, AbiInitially, PTL DEF A!Spec

(* What the holder of a ticket is told by AWAIT, Status and Cancel is what *)
(* became of the task, and stays so.                                       *)
THEOREM AnswersAreOfTheTask == A!Spec => []AnswersTellTheTask
<1>1. AbiInv => AnswersTellTheTask
  <2> SUFFICES ASSUME AbiInv PROVE AnswersTellTheTask
    OBVIOUS
  <2>1. ASSUME NEW c \in A!Holders, acall[c] # None, acall[c].step = "over"
        PROVE  RightAnswer(acall[c].op, acall[c].ticket, acall[c].result, acall[c].answer)
    BY <2>1 DEF AbiInv, AbiCallKnows, AbiAnswerIsRight
  <2>2. \A t \in Tickets : aphase[t] = "CANCELLED" => aclosure[t] = "none"
    BY DEF AbiInv, AbiTaskKnows
  <2>3. QED
    BY <2>1, <2>2 DEF AnswersTellTheTask, A!AnswersTellTheTask, A!Told, A!In, RightAnswer
<1>2. QED
  BY <1>1, AbiInvariant, PTL

(* A ticket is unknown, or an ended one pending or not done, only while    *)
(* somebody closes it.                                                     *)
THEOREM OnlyClosingIsUnknown == A!Spec => OnlyAClosingTicketIsUnknown
<1> DEFINE Wrong(c) == /\ ~A!Idle(c) /\ A!Idle(c)' /\ acall'[c] # None
                       /\ \/ acall'[c].answer = "INVALID_HANDLE"
                          \/ /\ aphase[acall[c].ticket] \in A!Done
                             /\ <<acall[c].op, acall'[c].answer>> \in {<<"status", "PENDING">>,
                                                                       <<"is_done", "FALSE">>}
<1>1. ASSUME AbiInv, [A!Next]_(A!vars), NEW c \in A!Holders, Wrong(c)
      PROVE  Closing(acall[c].ticket)
  <2> DEFINE t == acall[c].ticket
  <2>1. acall[c] # None /\ acall[c] \in A!Calls /\ acall[c].step # "over" /\ AbiCallKnows(acall[c]) /\ t \in Tickets
    BY <1>1 DEF A!Idle, AbiInv, AbiType, A!Calls
  <2>2. acall'[c] # acall[c] /\ acall'[c].step = "over" /\ acall'[c] # None
    BY <1>1, <2>1 DEF A!Idle
  <2>3. CASE A!missing(c)
    <3>1. acall[c].step = "missing" /\ acall[c].op \in A!Operations /\ t \notin atickets
      BY <2>1, <2>3 DEF A!missing, A!Calls, AbiCallKnows
    <3>2. AbiPublic(t)
      BY <2>1, <3>1 DEF AbiPublic, A!Operations
    <3>3. acall'[c].answer = A!AnswerOfMissing(acall[c].op, t \in closed_tickets)
      BY <1>1, <2>3 DEF A!missing, A!Answers, AbiInv, AbiType, A!Calls
    <3>4. t \notin closed_tickets
      BY <1>1, <3>1, <3>3 DEF A!AnswerOfMissing, A!Operations
    <3>5. QED
      BY <1>1, <2>1, <3>1, <3>2, <3>4 DEF AbiInv, AbiHandles
  <2>4. CASE \/ A!wait_ok(c) \/ A!wait_fails(c) \/ A!read_result(c) \/ A!read_error(c)
             \/ A!ticket_cancel(c) \/ A!ticket_cancelled(c) \/ A!ticket_close(c)
    <3>1. acall[c].op \in {"await", "cancel", "close"}
      BY <2>4 DEF A!wait_ok, A!wait_fails, A!read_result, A!read_error, A!ticket_cancel, A!ticket_cancelled,
                  A!ticket_close, A!In
    <3>2. acall'[c].answer \in {"CLOSED", "CANCELLED", "TIMEOUT", "OK", "TASK_FAILED", "FALSE", "TRUE"}
      <4>1. acall \in [A!Holders -> A!Calls \cup {None}]
        BY <1>1 DEF AbiInv, AbiType
      <4>2. ASSUME NEW step, A!Goes(c, step), step # "over" PROVE FALSE
        BY <2>1, <2>2, <4>1, <4>2 DEF A!Goes, A!Calls
      <4>3. ASSUME NEW a, A!Answers(c, a) PROVE acall'[c].answer = a
        BY <2>1, <4>1, <4>3 DEF A!Answers, A!Calls
      <4>4. ~A!wait_ok(c) /\ ~A!ticket_close(c)
        BY <4>2 DEF A!wait_ok, A!ticket_close
      <4>5. ~A!read_result(c)
        BY <2>1, <2>2, <4>1 DEF A!read_result, A!Calls
      <4>6. CASE A!wait_fails(c)
        BY <4>3, <4>6 DEF A!wait_fails
      <4>7. CASE A!read_error(c)
        BY <4>3, <4>7 DEF A!read_error, A!AwaitStatus
      <4>8. CASE A!ticket_cancel(c) \/ A!ticket_cancelled(c)
        BY <4>2, <4>3, <4>8 DEF A!ticket_cancel, A!ticket_cancelled
      <4>9. QED
        BY <2>4, <4>4, <4>5, <4>6, <4>7, <4>8
    <3>3. QED
      BY <1>1, <3>1, <3>2
  <2>5. CASE A!ticket_status(c) \/ A!ticket_completed(c) \/ A!ticket_is_done(c)
    <3>1. acall \in [A!Holders -> A!Calls \cup {None}] /\ aphase[t] \in A!Core!Phases
      BY <1>1, <2>1 DEF AbiInv, AbiType
    <3>2. ASSUME NEW a, A!Answers(c, a) PROVE acall'[c].answer = a
      BY <2>1, <3>1, <3>2 DEF A!Answers, A!Calls
    <3>3. CASE A!ticket_status(c)
      <4>1. ~A!Goes(c, "code")
        BY <2>1, <2>2, <3>1 DEF A!Goes, A!Calls
      <4>2. acall'[c].answer = aphase[t] /\ acall[c].op = "status"
        BY <3>2, <3>3, <4>1 DEF A!ticket_status, A!In
      <4>3. QED
        BY <1>1, <3>1, <4>2 DEF A!Core!Phases, A!Done
    <3>4. CASE A!ticket_completed(c)
      BY <1>1, <3>2, <3>4 DEF A!ticket_completed, A!In
    <3>5. CASE A!ticket_is_done(c)
      BY <1>1, <3>2, <3>5 DEF A!ticket_is_done, A!In
    <3>6. QED
      BY <2>5, <3>3, <3>4, <3>5
  <2>6. ~A!insert(c) /\ ~A!ticket_closed(c)
    BY <1>1, <2>2 DEF A!insert, A!ticket_closed, A!Returns, AbiInv, AbiType
  <2>8. ASSUME NEW d \in A!Holders, d # c, acall' = [acall EXCEPT ![d] = acall'[d]] PROVE FALSE
    BY <1>1, <2>2, <2>8 DEF AbiInv, AbiType
  <2>9. ASSUME NEW d \in A!Holders,
               \/ \E s \in Tickets : A!submit_with(d, s) \/ \E op \in A!Operations : A!lookup(d, s, op)
               \/ A!insert(d) \/ A!missing(d)
               \/ A!wait_ok(d) \/ A!wait_fails(d) \/ A!read_result(d) \/ A!read_error(d)
               \/ A!ticket_cancel(d) \/ A!ticket_cancelled(d)
               \/ A!ticket_close(d) \/ A!ticket_closed(d)
               \/ A!ticket_status(d) \/ A!ticket_completed(d) \/ A!ticket_is_done(d)
        PROVE  d = c
    <3>1. acall' = [acall EXCEPT ![d] = acall'[d]]
      BY <1>1, <2>9 DEF AbiInv, AbiType, A!submit_with, A!lookup, A!insert, A!missing, A!wait_ok, A!wait_fails,
         A!read_result, A!read_error, A!ticket_cancel, A!ticket_cancelled, A!ticket_close, A!ticket_closed,
         A!ticket_status, A!ticket_completed, A!ticket_is_done, A!Begins, A!Goes, A!Returns, A!Answers
    <3>2. QED
      BY <2>8, <3>1
  <2>10. acall' # acall
    BY <2>2
  <2>11. ASSUME NEW u \in Tickets,
                \/ A!start(u) \/ A!task_returns(u) \/ A!store_result(u) \/ A!store_error(u) \/ A!settle(u)
                \/ A!cancel_pending(u)
         PROVE  FALSE
    BY <2>10, <2>11 DEF A!start, A!task_returns, A!store_result, A!store_error, A!settle, A!cancel_pending
  <2>12. A!Next
    BY <1>1, <2>10 DEF A!vars
  <2>13. PICK d \in A!Holders :
               \/ \E s \in Tickets : A!submit_with(d, s) \/ \E op \in A!Operations : A!lookup(d, s, op)
               \/ A!insert(d) \/ A!missing(d)
               \/ A!wait_ok(d) \/ A!wait_fails(d) \/ A!read_result(d) \/ A!read_error(d)
               \/ A!ticket_cancel(d) \/ A!ticket_cancelled(d)
               \/ A!ticket_close(d) \/ A!ticket_closed(d)
               \/ A!ticket_status(d) \/ A!ticket_completed(d) \/ A!ticket_is_done(d)
    BY <2>11, <2>12, Zenon DEF A!Next
  <2>14. d = c
    BY <2>9, <2>13
  <2>15. ~A!insert(d) /\ ~A!ticket_closed(d)
    BY <2>6, <2>14 DEF A!insert, A!ticket_closed, A!In, A!Returns
  <2>16. \A s \in Tickets : ~A!submit_with(d, s) /\ \A op \in A!Operations : ~A!lookup(d, s, op)
    BY <1>1, <2>14 DEF A!submit_with, A!lookup, A!MayCall, A!Idle
  <2>17. A!missing(d) => A!missing(c)
    BY <2>14 DEF A!missing, A!In, A!Answers, A!Goes
  <2>18. A!wait_ok(d) => A!wait_ok(c)
    BY <2>14 DEF A!wait_ok, A!In, A!Answers, A!Goes
  <2>19. A!wait_fails(d) => A!wait_fails(c)
    BY <2>14 DEF A!wait_fails, A!In, A!Answers, A!Goes
  <2>20. A!read_result(d) => A!read_result(c)
    BY <2>14 DEF A!read_result, A!In, A!Answers, A!Goes
  <2>21. A!read_error(d) => A!read_error(c)
    BY <2>14 DEF A!read_error, A!In, A!Answers, A!Goes
  <2>22. A!ticket_cancel(d) => A!ticket_cancel(c)
    BY <2>14 DEF A!ticket_cancel, A!In, A!Answers, A!Goes
  <2>23. A!ticket_cancelled(d) => A!ticket_cancelled(c)
    BY <2>14 DEF A!ticket_cancelled, A!In, A!Answers, A!Goes
  <2>24. A!ticket_close(d) => A!ticket_close(c)
    BY <2>14 DEF A!ticket_close, A!In, A!Answers, A!Goes
  <2>25. A!ticket_status(d) => A!ticket_status(c)
    BY <2>14 DEF A!ticket_status, A!In, A!Answers, A!Goes
  <2>26. A!ticket_completed(d) => A!ticket_completed(c)
    BY <2>14 DEF A!ticket_completed, A!In, A!Answers, A!Goes
  <2>27. A!ticket_is_done(d) => A!ticket_is_done(c)
    BY <2>14 DEF A!ticket_is_done, A!In, A!Answers, A!Goes
  <2>28. QED
    BY <2>3, <2>4, <2>5, <2>13, <2>15, <2>16, <2>17, <2>18, <2>19, <2>20, <2>21, <2>22, <2>23, <2>24, <2>25, <2>26, <2>27
<1>2. AbiInv /\ [A!Next]_(A!vars) =>
      [\A c \in A!Holders :
         (/\ ~A!Idle(c) /\ A!Idle(c)' /\ acall'[c] # None
          /\ \/ acall'[c].answer = "INVALID_HANDLE"
             \/ /\ aphase[acall[c].ticket] \in A!Done
                /\ <<acall[c].op, acall'[c].answer>> \in {<<"status", "PENDING">>,
                                                        <<"is_done", "FALSE">>})
         => \E d \in A!Holders : /\ A!In(d, "close", "found") \/ A!In(d, "close", "insert")
                                 /\ acall[d].ticket = acall[c].ticket]_(A!vars)
  BY <1>1 DEF Closing
<1>3. QED
  BY <1>2, AbiInvariant, PTL DEF OnlyAClosingTicketIsUnknown, A!OnlyAClosingTicketIsUnknown, A!Spec

-----------------------------------------------------------------------------
(* Interpreter: the inductive invariant.                                   *)

ProviderType ==
    /\ pphase \in [Tickets -> P!Core!Phases] /\ preleased \in [Tickets -> BOOLEAN]
    /\ map \in SUBSET Tickets /\ ptickets \in SUBSET Tickets
    /\ result \in [Tickets -> P!Ends \cup {None}]
    /\ error \in [Tickets -> BOOLEAN]
    /\ pclosure \in [Tickets -> {"none", "run", "output", "result", "mark", "done"}]
    /\ pends \in [Tickets -> P!Ends \cup {None}]
    /\ pknows \in [P!Holders -> SUBSET Tickets]
    /\ pcall \in [P!Holders -> P!Calls \cup {None}]

\* The closure of a task and the core's status go together; a task that has
\* completed has left its value.
TaskKnows(t) ==
    /\ pphase[t] \in {"unborn", "PENDING", "CANCELLED"} <=> pclosure[t] = "none"
    /\ pphase[t] \in {"COMPLETED", "FAILED"} <=> pclosure[t] = "done"
    /\ pends[t] = None <=> pclosure[t] \in {"none", "run"}
    /\ pends[t] = "fails" => pclosure[t] \in {"mark", "done"}
    /\ pclosure[t] \in {"mark", "done"} /\ pends[t] = "value" => result[t] = "value"
    /\ pphase[t] = "COMPLETED" => pends[t] = "value"
    /\ pphase[t] = "FAILED" => pends[t] # "value"

\* What a Wait has found out.
RightWait(t, answer) ==
    /\ answer \notin {None, "error"}
    /\ answer = "value" => pends[t] = "value"
    /\ answer = "TASK_FAILED" => pends[t] \in {"error", "fails"}
    /\ answer = "CANCELLED" => pphase[t] = "CANCELLED"
    /\ answer = "CLOSED" => preleased[t]

CallKnows(k) ==
    /\ k.op \in {"async", "wait", "cancel", "close"} => \E t \in Tickets : k.tickets = {t}
    /\ k.op \in {"wait", "join"} \/ k.step \notin {"take", "write"}
    /\ k.op = "close" /\ k.step = "core" => k.tickets \cap ptickets = {}
    /\ k.op = "wait" /\ k.step \in {"take", "write"} =>
          \A t \in k.tickets : RightWait(t, k.answer)

\* Somebody may use the handle: Async has returned it.
Public(t) ==
    \/ t \in ptickets \/ preleased[t]
    \/ \E c \in P!Holders : \/ t \in pknows[c]
                            \/ /\ pcall[c] # None /\ pcall[c].op \in {"wait", "cancel", "close"}
                               /\ t \in pcall[c].tickets

Submitting(c, t) == pcall[c] # None /\ pcall[c].op = "async" /\ t \in pcall[c].tickets

\* A handle is published once, and a ticket is released when it is gone.
Handles ==
    /\ \A t \in Tickets : Public(t) => pphase[t] # "unborn"
    /\ \A t \in Tickets : preleased[t] => t \notin ptickets
    /\ \A t \in Tickets, c \in P!Holders : Submitting(c, t) => pphase[t] # "unborn" /\ ~Public(t)
    /\ \A t \in Tickets, c, d \in P!Holders : Submitting(c, t) /\ Submitting(d, t) => c = d

ProviderInv == /\ ProviderType /\ Handles
               /\ \A t \in Tickets : TaskKnows(t) /\ (pcall[t] # None => pclosure[t] = "run")
               /\ \A c \in P!Holders : pcall[c] # None => CallKnows(pcall[c])

\* The text in the hands of a caller.
Hand(c) == IF pcall[c] = None THEN {} ELSE pcall[c].text

TextType ==
    /\ output \in [Tickets -> SUBSET Tickets] /\ written \in [P!Holders -> SUBSET Tickets]
    /\ wrote \in SUBSET Tickets

\* Where no text can be.
TextIsAhead ==
    /\ \A t \in Tickets :
        /\ pclosure[t] = "none" => written[t] = {} /\ t \notin wrote
        /\ pclosure[t] \in {"none", "run", "output"} => output[t] = {}
        /\ pclosure[t] \in {"result", "mark", "done"} => written[t] = {} \/ pends[t] = "fails"
    /\ \A c \in P!Holders : pcall[c] # None /\ pcall[c].step # "write" => pcall[c].text = {}
    /\ \A c \in P!Holders : written[c] \cup Hand(c) \subseteq wrote
    /\ \A t \in Tickets : output[t] \subseteq wrote

\* No text is in two places.
TextIsUnique ==
    \A x \in wrote :
        /\ \A c, d \in P!Holders : x \in written[c] /\ x \in written[d] => c = d
        /\ \A s, t \in Tickets : x \in output[s] /\ x \in output[t] => s = t
        /\ \A c, d \in P!Holders : x \in Hand(c) /\ x \in Hand(d) => c = d
        /\ \A c, d \in P!Holders : ~(x \in written[c] /\ x \in Hand(d))
        /\ \A c \in P!Holders, t \in Tickets : x \in output[t] => x \notin written[c] \cup Hand(c)

Lossy == \E t \in Tickets : preleased[t] \/ pends[t] = "fails"

Somewhere(x) == \/ \E c \in P!Holders : x \in written[c] \cup Hand(c)
                \/ \E t \in Tickets : x \in output[t]

TextInv == /\ TextType /\ TextIsAhead /\ TextIsUnique
           /\ Lossy \/ \A x \in wrote : Somewhere(x)

-----------------------------------------------------------------------------
(* Interpreter: the handles and the answers.                               *)

(* What is settled about a ticket stays so.                                *)
Settled ==
    \A t \in Tickets :
        /\ pphase[t] = "CANCELLED" => pphase'[t] = "CANCELLED"
        /\ pphase[t] # "unborn" => pphase'[t] # "unborn"
        /\ pends[t] # None => pends'[t] = pends[t]
        /\ preleased[t] => preleased'[t]

LEMMA NoneIsNothing == /\ None \notin P!Calls /\ None \notin P!Ends /\ None \notin P!WaitAnswers
                       /\ Main \notin Tickets
BY HandleConstants DEF P!ProviderConstants

(* A call that nobody moves keeps what it knows.                           *)
LEMMA CallKeeps ==
    ASSUME Settled, NEW k \in P!Calls, CallKnows(k),
           k.op = "close" => k.tickets \cap ptickets' \subseteq ptickets
    PROVE  CallKnows(k)'
<1>1. k.tickets \subseteq Tickets
  BY DEF P!Calls
<1>2. "value" # None /\ "error" # None /\ "fails" # None
  BY NoneIsNothing DEF P!Ends
<1>3. ASSUME NEW t \in Tickets, RightWait(t, k.answer) PROVE RightWait(t, k.answer)'
  BY <1>2, <1>3 DEF RightWait, Settled
<1>4. QED
  BY <1>1, <1>3 DEF CallKnows

(* So do the calls of the others, when one caller moves.                   *)
LEMMA OthersKeep ==
    ASSUME ProviderInv, Settled, NEW c, \A d \in P!Holders : d # c => pcall'[d] = pcall[d],
           \A d \in P!Holders : d # c /\ pcall[d] # None /\ pcall[d].op = "close" =>
               pcall[d].tickets \cap ptickets' \subseteq ptickets
    PROVE  \A d \in P!Holders : d # c /\ pcall'[d] # None => CallKnows(pcall[d])'
<1> SUFFICES ASSUME NEW d \in P!Holders, d # c, pcall'[d] # None PROVE CallKnows(pcall[d])'
  OBVIOUS
<1>1. PICK k \in P!Calls : pcall[d] = k
  BY DEF ProviderInv, ProviderType
<1>2. k # None
  BY NoneIsNothing
<1>3. CallKnows(k)'
  BY <1>1, <1>2, CallKeeps DEF ProviderInv
<1>4. pcall'[d] = k
  BY <1>1
<1>5. QED
  BY <1>3, <1>4

(* The handles stay right when none is published and nothing is submitted. *)
LEMMA HandlesKeep ==
    ASSUME ProviderInv, Settled,
           \A t \in Tickets : Public(t)' => Public(t),
           \A t \in Tickets : preleased'[t] => t \notin ptickets',
           \A t \in Tickets, d \in P!Holders : Submitting(d, t)' => Submitting(d, t)
    PROVE  Handles'
<1>0. Handles
  BY DEF ProviderInv
<1>1. \A t \in Tickets : Public(t)' => pphase'[t] # "unborn"
  BY <1>0 DEF Handles, Settled
<1>2. \A t \in Tickets, c \in P!Holders : Submitting(c, t)' => pphase'[t] # "unborn" /\ ~Public(t)'
  BY <1>0 DEF Handles, Settled
<1>3. \A t \in Tickets, c, d \in P!Holders : Submitting(c, t)' /\ Submitting(d, t)' => c = d
  BY <1>0 DEF Handles
<1>4. QED
  BY <1>1, <1>2, <1>3 DEF Handles

(* Steps of a task and of the queue: no caller moves, and no handle.       *)
LEMMA TaskStep ==
    ASSUME ProviderInv, NEW t \in Tickets,
           \/ P!start(t) \/ P!task_returns(t) \/ P!set_output(t) \/ P!set_result(t)
           \/ P!mark(t) \/ P!cancel_pending(t)
    PROVE  ProviderInv'
<1> USE DEF ProviderInv
<1>1. UNCHANGED <<preleased, map, ptickets, pknows, pcall>>
  BY DEF P!start, P!task_returns, P!set_output, P!set_result, P!mark, P!cancel_pending,
         P!Core!Start, P!Core!Complete, P!Core!Fail, P!Core!Cancel, P!Core!Move, P!core
<1>2. /\ pphase' \in [Tickets -> P!Core!Phases]
      /\ pclosure' \in [Tickets -> {"none", "run", "output", "result", "mark", "done"}]
      /\ \A s \in Tickets : s # t => /\ pphase'[s] = pphase[s] /\ pclosure'[s] = pclosure[s]
                                     /\ pends'[s] = pends[s] /\ result'[s] = result[s]
  BY DEF P!start, P!task_returns, P!set_output, P!set_result, P!mark, P!cancel_pending, ProviderType,
         P!Core!Start, P!Core!Complete, P!Core!Fail, P!Core!Cancel, P!Core!Move, P!Core!Phases, P!core, P!task
<1>3. pends' \in [Tickets -> P!Ends \cup {None}] /\ result' \in [Tickets -> P!Ends \cup {None}]
  BY DEF P!start, P!task_returns, P!set_output, P!set_result, P!mark, P!cancel_pending, ProviderType, P!task
<1>4. error' \in [Tickets -> BOOLEAN]
  BY DEF P!start, P!task_returns, P!set_output, P!set_result, P!mark, P!cancel_pending, ProviderType, P!task
<1>5. TaskKnows(t)' /\ (pcall[t] # None => pclosure'[t] = "run")
  <2>0. /\ TaskKnows(t) /\ (pcall[t] # None => pclosure[t] = "run") /\ None \notin P!Ends
        /\ pends[t] \in P!Ends \cup {None}
    BY NoneIsNothing DEF ProviderType
  <2>1. CASE P!start(t)
    BY <2>0, <2>1 DEF P!start, P!Core!Start, P!Core!Move, TaskKnows, ProviderType, P!Ends
  <2>2. CASE P!task_returns(t)
    BY <2>0, <2>2 DEF P!task_returns, P!Idle, TaskKnows, ProviderType, P!Ends, P!core
  <2>3. CASE P!set_output(t)
    BY <2>0, <2>3 DEF P!set_output, TaskKnows, ProviderType, P!Ends, P!core
  <2>4. CASE P!set_result(t)
    BY <2>0, <2>4 DEF P!set_result, TaskKnows, ProviderType, P!Ends, P!core
  <2>5. CASE P!mark(t)
    BY <2>0, <2>5 DEF P!mark, P!Core!Complete, P!Core!Fail, P!Core!Move, TaskKnows, ProviderType, P!Ends
  <2>6. CASE P!cancel_pending(t)
    BY <2>0, <2>6 DEF P!cancel_pending, P!Core!Cancel, P!Core!Move, TaskKnows, ProviderType, P!task
  <2>7. QED
    BY <2>1, <2>2, <2>3, <2>4, <2>5, <2>6
<1>6. \A s \in Tickets : TaskKnows(s)' /\ (pcall'[s] # None => pclosure'[s] = "run")
  <2>1. ASSUME NEW s \in Tickets, s # t PROVE TaskKnows(s)' /\ (pcall'[s] # None => pclosure'[s] = "run")
    BY <1>1, <1>2, <2>1 DEF TaskKnows
  <2>2. QED
    BY <1>1, <1>5, <2>1
<1>7. Settled
  <2>1. /\ pphase[t] = "CANCELLED" => pphase'[t] = "CANCELLED"
        /\ pphase[t] # "unborn" => pphase'[t] # "unborn"
        /\ pends[t] # None => pends'[t] = pends[t]
    <3>0. TaskKnows(t)
      OBVIOUS
    <3>1. CASE P!start(t) \/ P!cancel_pending(t) \/ P!mark(t)
      BY <3>1 DEF P!start, P!cancel_pending, P!mark, P!Core!Start, P!Core!Cancel, P!Core!Complete, P!Core!Fail,
                  P!Core!Move, ProviderType, P!task
    <3>2. CASE P!task_returns(t) \/ P!set_output(t) \/ P!set_result(t)
      BY <3>0, <3>2 DEF P!task_returns, P!set_output, P!set_result, TaskKnows, P!core
    <3>3. QED
      BY <3>1, <3>2
  <2>2. QED
    BY <1>1, <1>2, <2>1 DEF Settled
<1>8. \A c \in P!Holders : pcall'[c] # None => CallKnows(pcall[c])'
  BY <1>1, <1>7, CallKeeps DEF ProviderType
<1>9. Handles'
  <2>1. \A s \in Tickets : Public(s)' = Public(s)
    BY <1>1 DEF Public
  <2>2. \A s \in Tickets, c \in P!Holders : Submitting(c, s)' = Submitting(c, s)
    BY <1>1 DEF Submitting
  <2>3. \A s \in Tickets : preleased'[s] => s \notin ptickets'
    BY <1>1 DEF Handles
  <2>4. QED
    BY <1>7, <2>1, <2>2, <2>3, HandlesKeep
<1>10. QED
  BY <1>1, <1>2, <1>3, <1>4, <1>6, <1>8, <1>9 DEF ProviderType

(* A caller moves: it publishes no handle, releases one that has left the  *)
(* table, and knows what its next step relies on.                          *)
LEMMA CallerMoves ==
    ASSUME ProviderInv, Settled, NEW c \in P!Holders, NEW k \in P!Calls \cup {None},
           pcall' = [pcall EXCEPT ![c] = k],
           k # None => CallKnows(k)' /\ k.op # "async",
           k # None /\ k.op \in {"wait", "cancel", "close"} => \A t \in k.tickets : Public(t),
           c \in Tickets /\ k # None => pclosure'[c] = "run",
           \A t \in Tickets : t # c => pclosure'[t] = pclosure[t],
           \A t \in Tickets : TaskKnows(t)',
           pphase' \in [Tickets -> P!Core!Phases], preleased' \in [Tickets -> BOOLEAN],
           pclosure' \in [Tickets -> {"none", "run", "output", "result", "mark", "done"}],
           pends' \in [Tickets -> P!Ends \cup {None}],
           UNCHANGED <<map, result, error, pknows>>,
           ptickets' \subseteq ptickets,
           \A t \in Tickets : preleased'[t] => t \notin ptickets' /\ Public(t)
    PROVE  ProviderInv'
<1>1. /\ \A d \in P!Holders : d # c => pcall'[d] = pcall[d]
      /\ pcall'[c] = k
  BY DEF ProviderInv, ProviderType
<1>2. ProviderType'
  BY DEF ProviderInv, ProviderType
<1>3. \A d \in P!Holders : pcall'[d] # None => CallKnows(pcall[d])'
  <2>1. \A d \in P!Holders : d # c /\ pcall'[d] # None => CallKnows(pcall[d])'
    BY <1>1, OthersKeep
  <2>2. k # None => CallKnows(pcall[c])'
    BY <1>1
  <2>3. QED
    BY <1>1, <2>1, <2>2
<1>4. \A t \in Tickets : Public(t)' => Public(t)
  BY <1>1 DEF Public
<1>5. \A t \in Tickets, d \in P!Holders : Submitting(d, t)' => Submitting(d, t)
  BY <1>1 DEF Submitting
<1>6. Handles'
  BY <1>4, <1>5, HandlesKeep
<1>7. \A t \in Tickets : pcall'[t] # None => pclosure'[t] = "run"
  BY <1>1 DEF ProviderInv, P!Holders
<1>8. QED
  BY <1>2, <1>3, <1>6, <1>7 DEF ProviderInv

(* The same where nothing but the call changes.                            *)
LEMMA CallerReads ==
    ASSUME ProviderInv, NEW c \in P!Holders, NEW k \in P!Calls \cup {None},
           pcall' = [pcall EXCEPT ![c] = k],
           UNCHANGED <<pphase, preleased, map, ptickets, result, error, pclosure, pends, pknows>>,
           k # None => CallKnows(k) /\ k.op # "async",
           k # None /\ k.op \in {"wait", "cancel", "close"} => \A t \in k.tickets : Public(t),
           c \in Tickets /\ k # None => pclosure[c] = "run"
    PROVE  ProviderInv'
<1>1. Settled
  BY DEF Settled
<1>2. \A t \in Tickets : TaskKnows(t)'
  BY DEF ProviderInv, TaskKnows
<1>3. k # None => CallKnows(k)'
  BY DEF CallKnows, RightWait
<1>4. \A t \in Tickets : preleased'[t] => t \notin ptickets' /\ Public(t)
  BY DEF ProviderInv, Handles, Public
<1>5. ProviderType
  BY DEF ProviderInv
<1>6. QED
  BY <1>1, <1>2, <1>3, <1>4, <1>5, CallerMoves DEF ProviderType

(* A call moves on to another step.                                        *)
LEMMA CallOf ==
    ASSUME ProviderInv, NEW c \in P!Holders, pcall[c] # None
    PROVE  /\ pcall[c] \in P!Calls /\ CallKnows(pcall[c])
           /\ c \in Tickets => pclosure[c] = "run"
           /\ pcall[c].op \in {"wait", "cancel", "close"} => \A t \in pcall[c].tickets : Public(t)
<1>1. pcall[c] \in P!Calls /\ CallKnows(pcall[c]) /\ (c \in Tickets => pclosure[c] = "run")
  BY DEF ProviderInv, ProviderType
<1>2. QED
  BY <1>1 DEF Public, P!Calls

LEMMA CallReturns ==
    ASSUME ProviderInv, NEW c \in P!Holders, P!Returns(c),
           UNCHANGED <<pphase, preleased, map, ptickets, result, error, pclosure, pends, pknows>>
    PROVE  ProviderInv'
BY CallerReads DEF P!Returns

(* A failure ends the task, or the program.                                *)
LEMMA AbortStep ==
    ASSUME ProviderInv, NEW c \in P!Holders, P!Runs(c), P!Aborts(c),
           UNCHANGED <<pphase, preleased, map, ptickets, result, error, pknows>>
    PROVE  ProviderInv'
<1>1. CASE c = Main
  <2>1. PICK k \in P!Calls : k = [op |-> "abort", tickets |-> {}, step |-> "ended", answer |-> None,
                                  todo |-> {}, text |-> {}]
    BY DEF P!Calls
  <2>2. pcall' = [pcall EXCEPT ![c] = k]
    BY <1>1, <2>1 DEF P!Aborts, P!Begins
  <2>3. UNCHANGED <<pclosure, pends>>
    BY <1>1, NoneIsNothing DEF P!Aborts, ProviderInv, ProviderType
  <2>4. CallKnows(k) /\ k.op = "abort"
    BY <2>1 DEF CallKnows
  <2>5. c \notin Tickets
    BY <1>1, NoneIsNothing
  <2>6. QED
    BY <2>2, <2>3, <2>4, <2>5, CallerReads
<1>2. CASE c # Main
  <2>0. c \in Tickets /\ pclosure[c] = "run" /\ TaskKnows(c) /\ ProviderType
    BY <1>2 DEF P!Holders, P!Runs, ProviderInv
  <2>1. pcall' = [pcall EXCEPT ![c] = None]
    BY <1>2 DEF P!Aborts, P!Returns
  <2>2. /\ pclosure' \in [Tickets -> {"none", "run", "output", "result", "mark", "done"}]
        /\ pends' \in [Tickets -> P!Ends \cup {None}]
        /\ pclosure'[c] = "mark" /\ pends'[c] = "fails"
        /\ \A t \in Tickets : t # c => pclosure'[t] = pclosure[t] /\ pends'[t] = pends[t]
    BY <2>0 DEF P!Aborts, ProviderType, P!Ends
  <2>3. "fails" # None
    BY NoneIsNothing DEF P!Ends
  <2>4. Settled
    BY <2>0, <2>2 DEF Settled, TaskKnows
  <2>5. \A t \in Tickets : TaskKnows(t)'
    BY <2>0, <2>2, <2>3 DEF ProviderInv, TaskKnows
  <2>6. \A t \in Tickets : preleased'[t] => t \notin ptickets' /\ Public(t)
    BY DEF ProviderInv, Handles, Public
  <2>7. QED
    BY <2>0, <2>1, <2>2, <2>4, <2>5, <2>6, CallerMoves DEF ProviderType
<1>3. QED
  BY <1>1, <1>2

(* Steps of a call that only read the tickets.                             *)
LEMMA ReadStep ==
    ASSUME ProviderInv, TextType, NEW c \in P!Holders,
           P!wait(c) \/ P!collect(c) \/ P!join(c) \/ P!take_output(c) \/ P!write_all(c)
    PROVE  ProviderInv'
<1> USE DEF P!core, P!task
<1>1. CASE P!wait(c)
  <2>1. pcall[c] # None /\ pcall[c].op = "wait"
    BY <1>1 DEF P!wait, P!In
  <2>2. PICK t \in Tickets : pcall[c].tickets = {t}
    BY <2>1, CallOf DEF CallKnows
  <2>3. P!TicketOf(c) = t
    BY <2>2 DEF P!TicketOf
  <2>4. PICK a \in P!WaitAnswers : a = P!WaitAnswer(t) /\ RightWait(t, a)
    <3>1. TaskKnows(t) /\ pphase[t] \in P!Core!Phases /\ pends[t] \in P!Ends \cup {None}
      BY DEF ProviderInv, ProviderType
    <3>2. None \notin P!WaitAnswers
      BY NoneIsNothing
    <3>3. CASE preleased[t]
      <4>1. P!WaitAnswer(t) = "CLOSED"
        BY <3>3 DEF P!WaitAnswer
      <4>2. QED
        BY <3>2, <3>3, <4>1 DEF RightWait, P!WaitAnswers
    <3>4. CASE ~preleased[t]
      <4>1. CASE pphase[t] = "COMPLETED"
        BY <3>1, <3>2, <3>4, <4>1 DEF P!WaitAnswer, RightWait, P!WaitAnswers, TaskKnows
      <4>2. CASE pphase[t] = "FAILED"
        BY <3>1, <3>2, <3>4, <4>2 DEF P!WaitAnswer, RightWait, P!WaitAnswers, TaskKnows, P!Ends
      <4>3. CASE pphase[t] = "CANCELLED"
        BY <3>1, <3>2, <3>4, <4>3 DEF P!WaitAnswer, RightWait, P!WaitAnswers
      <4>4. CASE pphase[t] \notin {"COMPLETED", "FAILED", "CANCELLED"}
        BY <3>2, <3>4, <4>4 DEF P!WaitAnswer, RightWait, P!WaitAnswers
      <4>5. QED
        BY <4>1, <4>2, <4>3, <4>4
    <3>5. QED
      BY <3>3, <3>4
  <2>5. PICK k \in P!Calls : k = [pcall[c] EXCEPT !.step = "take", !.answer = a]
    BY <2>1, CallOf DEF P!Calls
  <2>6. pcall' = [pcall EXCEPT ![c] = k]
    BY <1>1, <2>1, <2>3, <2>4, <2>5, CallOf DEF P!wait, P!Calls
  <2>7. k.op = "wait" /\ k.tickets = {t} /\ k.step = "take" /\ k.answer = a
    BY <2>1, <2>2, <2>5, CallOf DEF P!Calls
  <2>8. CallKnows(k)
    BY <2>4, <2>7 DEF CallKnows
  <2>9. QED
    BY <1>1, <2>1, <2>2, <2>6, <2>7, <2>8, CallOf, CallerReads DEF P!wait
<1>2. CASE P!collect(c)
  <2>1. PICK k \in P!Calls : k = [op |-> "join", tickets |-> map, step |-> "go", answer |-> None,
                                  todo |-> map, text |-> {}]
    BY DEF P!Calls, ProviderInv, ProviderType
  <2>2. pcall' = [pcall EXCEPT ![c] = k]
    BY <1>2, <2>1 DEF P!collect, P!Begins
  <2>3. CallKnows(k) /\ k.op = "join"
    BY <2>1 DEF CallKnows
  <2>4. c \in Tickets => pclosure[c] = "run"
    BY <1>2 DEF P!collect, P!Runs
  <2>5. QED
    BY <1>2, <2>2, <2>3, <2>4, CallerReads DEF P!collect
<1>3. ASSUME pcall[c] # None, NEW k \in P!Calls, pcall' = [pcall EXCEPT ![c] = k],
             UNCHANGED <<pphase, preleased, map, ptickets, result, error, pclosure, pends, pknows>>,
             k.op = pcall[c].op, k.tickets = pcall[c].tickets, k.answer = pcall[c].answer,
             k.step \in {"take", "write"},
             pcall[c].op = "join" \/ pcall[c].step \in {"take", "write"}
      PROVE  ProviderInv'
  <2>1. CallKnows(k) /\ k.op \in {"wait", "join"}
    BY <1>3, CallOf DEF CallKnows
  <2>2. QED
    BY <1>3, <2>1, CallOf, CallerReads
<1>4. CASE P!join(c)
  <2>1. pcall[c] # None /\ pcall[c].op = "join" /\ pcall[c].step = "go"
    BY <1>4 DEF P!join, P!In
  <2>2. CASE P!Goes(c, "take")
    <3>1. PICK k \in P!Calls : k = [pcall[c] EXCEPT !.step = "take"]
      BY <2>1, CallOf DEF P!Calls
    <3>2. k.op = "join" /\ k.tickets = pcall[c].tickets /\ k.answer = pcall[c].answer /\ k.step = "take"
      BY <2>1, <3>1, CallOf DEF P!Calls
    <3>3. pcall' = [pcall EXCEPT ![c] = k]
      BY <2>2, <3>1 DEF P!Goes
    <3>4. QED
      BY <1>3, <1>4, <2>1, <3>2, <3>3 DEF P!join
  <2>3. QED
    BY <1>4, <2>2, CallReturns DEF P!join
<1>5. CASE P!take_output(c)
  <2>1. pcall[c] # None /\ pcall[c].step = "take"
    BY <1>5 DEF P!take_output
  <2>2. PICK t \in pcall[c].todo :
           pcall' = [pcall EXCEPT ![c].step = "write", ![c].todo = @ \ {t}, ![c].text = output[t]]
    BY <1>5 DEF P!take_output
  <2>3. pcall[c] \in P!Calls /\ t \in Tickets
    BY <2>1, <2>2, CallOf DEF P!Calls
  <2>4. PICK k \in P!Calls : k = [pcall[c] EXCEPT !.step = "write", !.todo = @ \ {t}, !.text = output[t]]
    BY <2>3 DEF P!Calls, TextType
  <2>5. /\ k.op = pcall[c].op /\ k.tickets = pcall[c].tickets /\ k.answer = pcall[c].answer
        /\ k.step = "write"
    BY <2>3, <2>4 DEF P!Calls
  <2>6. pcall' = [pcall EXCEPT ![c] = k]
    BY <2>2, <2>3, <2>4 DEF P!Calls
  <2>7. QED
    BY <1>3, <1>5, <2>1, <2>5, <2>6 DEF P!take_output
<1>6. CASE P!write_all(c)
  <2>1. pcall[c] # None /\ pcall[c].step = "write" /\ pcall[c] \in P!Calls
    BY <1>6, CallOf DEF P!write_all
  <2>2. CASE P!Returns(c) /\ UNCHANGED <<pclosure, pends>>
    BY <1>6, <2>2, CallReturns DEF P!write_all
  <2>3. CASE pcall' = [pcall EXCEPT ![c].step = "take", ![c].text = {}] /\ UNCHANGED <<pclosure, pends>>
    <3>1. PICK k \in P!Calls : k = [pcall[c] EXCEPT !.step = "take", !.text = {}]
      BY <2>1 DEF P!Calls
    <3>2. /\ k.op = pcall[c].op /\ k.tickets = pcall[c].tickets /\ k.answer = pcall[c].answer
          /\ k.step = "take"
      BY <2>1, <3>1 DEF P!Calls
    <3>3. pcall' = [pcall EXCEPT ![c] = k]
      BY <2>1, <2>3, <3>1 DEF P!Calls
    <3>4. QED
      BY <1>3, <1>6, <2>1, <2>3, <3>2, <3>3 DEF P!write_all
  <2>4. CASE P!Aborts(c)
    <3>1. P!Runs(c)
      BY <2>1, CallOf DEF P!Runs
    <3>2. QED
      BY <1>6, <2>4, <3>1, AbortStep DEF P!write_all
  <2>5. QED
    BY <1>6, <2>2, <2>3, <2>4 DEF P!write_all
<1>7. QED
  BY <1>1, <1>2, <1>4, <1>5, <1>6

(* A handle is looked up: a caller holds it, so it is public.              *)
LEMMA LookupStep ==
    ASSUME ProviderInv, NEW c \in P!Holders, NEW t \in Tickets, NEW op \in {"wait", "cancel", "close"},
           P!lookup(c, t, op)
    PROVE  ProviderInv'
<1> USE DEF P!core
<1>1. P!Runs(c) /\ Public(t)
  BY DEF P!lookup, Public
<1>2. CASE t \in ptickets
  <2>1. PICK k \in P!Calls : k = [op |-> op, tickets |-> {t}, step |-> "go", answer |-> None,
                                  todo |-> {t}, text |-> {}]
    BY DEF P!Calls
  <2>2. pcall' = [pcall EXCEPT ![c] = k]
    BY <1>2, <2>1 DEF P!lookup, P!Begins
  <2>3. CallKnows(k) /\ k.op # "async" /\ k.tickets = {t}
    BY <2>1 DEF CallKnows
  <2>4. QED
    BY <1>1, <1>2, <2>2, <2>3, CallerReads DEF P!lookup, P!Runs
<1>3. CASE t \notin ptickets
  BY <1>1, <1>3, AbortStep DEF P!lookup
<1>4. QED
  BY <1>2, <1>3

LEMMA CancelStep ==
    ASSUME ProviderInv, NEW c \in P!Holders, P!cancel(c)
    PROVE  ProviderInv'
<1> USE DEF P!core, P!task
<1>1. pcall[c] # None /\ pcall[c].op = "cancel"
  BY DEF P!cancel, P!In
<1>2. PICK t \in Tickets : pcall[c].tickets = {t}
  BY <1>1, CallOf DEF CallKnows
<1>3. P!TicketOf(c) = t
  BY <1>2 DEF P!TicketOf
<1>4. CASE UNCHANGED <<pphase, preleased>>
  BY <1>4, CallReturns DEF P!cancel
<1>5. CASE P!Core!Cancel(t)
  <2>0. ProviderType /\ Handles
    BY DEF ProviderInv
  <2>1. /\ pphase' \in [Tickets -> P!Core!Phases] /\ preleased' = preleased
        /\ pphase[t] = "PENDING" /\ pphase'[t] = "CANCELLED"
        /\ \A s \in Tickets : s # t => pphase'[s] = pphase[s]
    BY <1>5, <2>0 DEF P!Core!Cancel, P!Core!Move, P!Core!Phases, ProviderType
  <2>2. UNCHANGED <<map, ptickets, result, error, pclosure, pends, pknows>>
    BY DEF P!cancel
  <2>3. Settled
    BY <2>1, <2>2 DEF Settled
  <2>4. \A s \in Tickets : TaskKnows(s)'
    BY <2>1, <2>2 DEF ProviderInv, TaskKnows
  <2>5. \A s \in Tickets : preleased'[s] => s \notin ptickets' /\ Public(s)
    BY <2>0, <2>1, <2>2 DEF Handles, Public
  <2>6. pcall' = [pcall EXCEPT ![c] = None]
    BY DEF P!cancel, P!Returns
  <2>7. QED
    BY <2>0, <2>1, <2>2, <2>3, <2>4, <2>5, <2>6, CallerMoves DEF ProviderType
<1>6. QED
  BY <1>3, <1>4, <1>5 DEF P!cancel

(* Close: the handle leaves the table, and then the ticket is released.    *)
LEMMA TicketCloseStep ==
    ASSUME ProviderInv, NEW c \in P!Holders, P!remove(c) \/ P!close(c)
    PROVE  ProviderInv'
<1> USE DEF P!core, P!task
<1>0. pcall[c] # None /\ pcall[c].op = "close" /\ ProviderType /\ Handles
  BY DEF P!remove, P!close, P!In, ProviderInv
<1>1. PICK t \in Tickets : pcall[c].tickets = {t}
  BY <1>0, CallOf DEF CallKnows
<1>2. Public(t) /\ (c \in Tickets => pclosure[c] = "run") /\ pcall[c] \in P!Calls /\ CallKnows(pcall[c])
  BY <1>0, <1>1, CallOf
<1>3. UNCHANGED <<map, result, error, pclosure, pends, pknows>>
  BY DEF P!remove, P!close
<1>4. CASE P!remove(c)
  <2>1. ptickets' = ptickets \ {t} /\ UNCHANGED <<pphase, preleased>>
    BY <1>1, <1>4 DEF P!remove
  <2>2. PICK k \in P!Calls : k = [pcall[c] EXCEPT !.step = "core"]
    BY <1>2 DEF P!Calls
  <2>3. pcall' = [pcall EXCEPT ![c] = k]
    BY <1>4, <2>2 DEF P!remove, P!Goes
  <2>4. k.op = "close" /\ k.tickets = {t} /\ k.step = "core"
    BY <1>0, <1>1, <1>2, <2>2 DEF P!Calls
  <2>5. CallKnows(k)'
    BY <2>1, <2>4 DEF CallKnows
  <2>6. Settled
    BY <1>3, <2>1 DEF Settled
  <2>7. \A s \in Tickets : TaskKnows(s)'
    BY <1>3, <2>1 DEF ProviderInv, TaskKnows
  <2>8. \A s \in Tickets : preleased'[s] => s \notin ptickets' /\ Public(s)
    BY <1>0, <2>1 DEF Handles, Public
  <2>9. QED
    BY <1>0, <1>2, <1>3, <2>1, <2>3, <2>4, <2>5, <2>6, <2>7, <2>8, CallerMoves DEF ProviderType
<1>5. CASE P!close(c)
  <2>1. t \notin ptickets
    BY <1>1, <1>2, <1>5 DEF P!close, P!In, CallKnows
  <2>2. P!TicketOf(c) = t
    BY <1>1 DEF P!TicketOf
  <2>3. preleased' = [preleased EXCEPT ![t] = TRUE] /\ UNCHANGED <<pphase, ptickets>>
    BY <1>5, <2>2 DEF P!close, P!Core!Release
  <2>4. preleased' \in [Tickets -> BOOLEAN] /\ \A s \in Tickets : preleased[s] => preleased'[s]
    BY <1>0, <2>3 DEF ProviderType
  <2>5. \A s \in Tickets : preleased'[s] => s \notin ptickets' /\ Public(s)
    BY <1>0, <1>2, <2>1, <2>3 DEF Handles, Public, ProviderType
  <2>6. Settled
    BY <1>3, <2>3, <2>4 DEF Settled
  <2>7. \A s \in Tickets : TaskKnows(s)'
    BY <1>3, <2>3 DEF ProviderInv, TaskKnows
  <2>8. pcall' = [pcall EXCEPT ![c] = None]
    BY <1>5 DEF P!close, P!Returns
  <2>9. QED
    BY <1>0, <1>3, <2>3, <2>4, <2>5, <2>6, <2>7, <2>8, CallerMoves DEF ProviderType
<1>6. QED
  BY <1>4, <1>5

(* Async: nobody knows the handle before it is in the table.               *)
LEMMA SubmitStep ==
    ASSUME ProviderInv, NEW c \in P!Holders, NEW t \in Tickets, P!submit_with(c, t)
    PROVE  ProviderInv'
<1> USE DEF P!task
<1>0. /\ ProviderType /\ Handles /\ pcall[c] = None /\ P!Runs(c) /\ pphase[t] = "unborn"
      /\ UNCHANGED <<preleased, ptickets, result, error, pclosure, pends>>
  BY DEF P!submit_with, P!Idle, P!Core!Accept, P!Core!Move, ProviderInv
<1>1. /\ pphase' \in [Tickets -> P!Core!Phases] /\ pphase'[t] = "PENDING"
      /\ \A s \in Tickets : s # t => pphase'[s] = pphase[s]
  BY <1>0 DEF P!submit_with, P!Core!Accept, P!Core!Move, P!Core!Phases, ProviderType
<1>2. PICK k \in P!Calls : k = [op |-> "async", tickets |-> {t}, step |-> "insert", answer |-> None,
                                todo |-> {t}, text |-> {}]
  BY DEF P!Calls
<1>3. pcall' = [pcall EXCEPT ![c] = k] /\ k.op = "async" /\ k.tickets = {t} /\ k # None
  BY <1>2, NoneIsNothing DEF P!submit_with, P!Begins
<1>4. pcall'[c] = k /\ \A d \in P!Holders : d # c => pcall'[d] = pcall[d]
  BY <1>0, <1>3 DEF ProviderType
<1>5. /\ pknows' \in [P!Holders -> SUBSET Tickets]
      /\ \A d \in P!Holders : pknows'[d] \subseteq pknows[d] \cup pknows[c]
  BY <1>0 DEF P!submit_with, ProviderType, P!Holders
<1>6. map' \in SUBSET Tickets
  BY <1>0 DEF P!submit_with, ProviderType
<1>7. ProviderType'
  BY <1>0, <1>1, <1>3, <1>5, <1>6 DEF ProviderType
<1>8. Settled
  BY <1>0, <1>1 DEF Settled
<1>9. CallKnows(k)'
  BY <1>2 DEF CallKnows
<1>10. \A d \in P!Holders : pcall'[d] # None => CallKnows(pcall[d])'
  <2>1. \A d \in P!Holders : d # c /\ pcall'[d] # None => CallKnows(pcall[d])'
    BY <1>0, <1>4, <1>8, OthersKeep
  <2>2. CallKnows(pcall[c])'
    BY <1>4, <1>9
  <2>3. QED
    BY <2>1, <2>2
<1>11. \A s \in Tickets : TaskKnows(s)'
  BY <1>0, <1>1 DEF ProviderInv, TaskKnows
<1>12. \A s \in Tickets : Public(s)' => Public(s)
  BY <1>0, <1>3, <1>4, <1>5 DEF Public
<1>13. ~Public(t) /\ \A d \in P!Holders : ~Submitting(d, t)
  BY <1>0 DEF Handles
<1>14. \A s \in Tickets, d \in P!Holders : Submitting(d, s)' => Submitting(d, s) \/ (d = c /\ s = t)
  BY <1>3, <1>4 DEF Submitting
<1>15. Handles'
  <2>1. \A s \in Tickets : Public(s)' => pphase'[s] # "unborn"
    BY <1>0, <1>8, <1>12 DEF Handles, Settled
  <2>2. \A s \in Tickets : preleased'[s] => s \notin ptickets'
    BY <1>0 DEF Handles
  <2>3. \A s \in Tickets, d \in P!Holders : Submitting(d, s)' => pphase'[s] # "unborn" /\ ~Public(s)'
    BY <1>0, <1>1, <1>8, <1>12, <1>13, <1>14 DEF Handles, Settled
  <2>4. \A s \in Tickets, d, e \in P!Holders : Submitting(d, s)' /\ Submitting(e, s)' => d = e
    BY <1>0, <1>13, <1>14 DEF Handles
  <2>5. QED
    BY <2>1, <2>2, <2>3, <2>4 DEF Handles
<1>16. \A s \in Tickets : pcall'[s] # None => pclosure'[s] = "run"
  BY <1>0, <1>4 DEF ProviderInv, P!Holders, P!Runs
<1>17. QED
  BY <1>7, <1>10, <1>11, <1>15, <1>16 DEF ProviderInv

LEMMA InsertStep ==
    ASSUME ProviderInv, NEW c \in P!Holders, P!insert(c)
    PROVE  ProviderInv'
<1> USE DEF P!core, P!task
<1>0. /\ ProviderType /\ Handles /\ pcall[c] # None /\ pcall[c].op = "async"
      /\ UNCHANGED <<pphase, preleased, map, result, error, pclosure, pends>>
  BY DEF P!insert, P!In, ProviderInv
<1>1. PICK t \in Tickets : pcall[c].tickets = {t}
  BY <1>0, CallOf DEF CallKnows
<1>2. Submitting(c, t) /\ ~Public(t) /\ pphase[t] # "unborn"
  BY <1>0, <1>1 DEF Submitting, Handles
<1>3. ptickets' = ptickets \cup {t} /\ pknows' = [pknows EXCEPT ![c] = @ \cup {t}]
  BY <1>1 DEF P!insert
<1>4. /\ pcall' = [pcall EXCEPT ![c] = None] /\ pcall'[c] = None
      /\ \A d \in P!Holders : d # c => pcall'[d] = pcall[d]
  BY <1>0 DEF P!insert, P!Returns, ProviderType
<1>5. ProviderType'
  BY <1>0, <1>3, <1>4 DEF ProviderType
<1>6. Settled
  BY <1>0 DEF Settled
<1>7. \A d \in P!Holders : pcall'[d] # None => CallKnows(pcall[d])'
  <2>1. \A d \in P!Holders : pcall[d] # None /\ pcall[d].op = "close" => t \notin pcall[d].tickets
    BY <1>2 DEF Public
  <2>2. QED
    BY <1>3, <1>4, <1>6, <2>1, OthersKeep
<1>8. \A s \in Tickets : TaskKnows(s)'
  BY <1>0 DEF ProviderInv, TaskKnows
<1>9. \A s \in Tickets : Public(s)' => Public(s) \/ s = t
  BY <1>0, <1>3, <1>4 DEF Public, ProviderType
<1>10. \A s \in Tickets, d \in P!Holders : Submitting(d, s)' => Submitting(d, s) /\ d # c
  BY <1>4 DEF Submitting
<1>11. Handles'
  <2>1. \A s \in Tickets : Public(s)' => pphase'[s] # "unborn"
    BY <1>0, <1>2, <1>9 DEF Handles
  <2>2. \A s \in Tickets : preleased'[s] => s \notin ptickets'
    BY <1>0, <1>2, <1>3 DEF Handles, Public
  <2>3. \A s \in Tickets, d \in P!Holders : Submitting(d, s)' => pphase'[s] # "unborn" /\ ~Public(s)'
    BY <1>0, <1>2, <1>9, <1>10 DEF Handles
  <2>4. \A s \in Tickets, d, e \in P!Holders : Submitting(d, s)' /\ Submitting(e, s)' => d = e
    BY <1>0, <1>10 DEF Handles
  <2>5. QED
    BY <2>1, <2>2, <2>3, <2>4 DEF Handles
<1>12. \A s \in Tickets : pcall'[s] # None => pclosure'[s] = "run"
  BY <1>0, <1>4 DEF ProviderInv, P!Holders
<1>13. QED
  BY <1>5, <1>7, <1>8, <1>11, <1>12 DEF ProviderInv

-----------------------------------------------------------------------------
(* Interpreter: the texts.                                                 *)

\* A closure goes forward, and ends behind set_output or in failure.
ClosureGoesOn(t) ==
    /\ pclosure'[t] = "none" => pclosure[t] = "none"
    /\ pclosure'[t] \in {"none", "run", "output"} => pclosure[t] \in {"none", "run", "output"}
    /\ pclosure'[t] \in {"result", "mark", "done"} =>
          \/ pends'[t] = "fails"
          \/ pclosure[t] \in {"result", "mark", "done"} /\ pends'[t] = pends[t]

(* A step that moves no text.                                              *)
LEMMA NoTextMoves ==
    ASSUME TextInv, UNCHANGED <<output, written, wrote>>, Lossy => Lossy',
           \A t \in Tickets : ClosureGoesOn(t),
           \A c \in P!Holders : Hand(c)' = Hand(c),
           \A c \in P!Holders : pcall'[c] # None /\ pcall'[c].step # "write" => pcall'[c].text = {}
    PROVE  TextInv'
<1>1. TextType'
  BY DEF TextInv, TextType
<1>2. \A t \in Tickets :
        /\ pclosure'[t] = "none" => written'[t] = {} /\ t \notin wrote'
        /\ pclosure'[t] \in {"none", "run", "output"} => output'[t] = {}
        /\ pclosure'[t] \in {"result", "mark", "done"} => written'[t] = {} \/ pends'[t] = "fails"
  BY DEF TextInv, TextIsAhead, ClosureGoesOn
<1>3. TextIsAhead'
  BY <1>2 DEF TextInv, TextIsAhead
<1>4. TextIsUnique'
  BY DEF TextInv, TextIsUnique
<1>5. \A x \in wrote' : Somewhere(x) => Somewhere(x)'
  BY DEF Somewhere
<1>6. QED
  BY <1>1, <1>3, <1>4, <1>5 DEF TextInv

(* Nothing is lost that was lost already.                                  *)
LEMMA LossyStays ==
    ASSUME \A t \in Tickets : /\ preleased[t] => preleased'[t]
                              /\ pends[t] = "fails" => pends'[t] = "fails"
    PROVE  Lossy => Lossy'
BY DEF Lossy

(* A caller without a text goes to a step without one.                     *)
LEMMA EmptyHand ==
    ASSUME ProviderInv, TextInv, NEW c \in P!Holders, pcall[c] = None \/ pcall[c].step # "write"
    PROVE  Hand(c) = {}
BY DEF Hand, TextInv, TextIsAhead

LEMMA CallWithoutText ==
    ASSUME ProviderInv, TextInv, NEW c \in P!Holders, pcall[c] = None \/ pcall[c].step # "write",
           NEW k, pcall' = [pcall EXCEPT ![c] = k], k # None => k.text = {},
           UNCHANGED <<output, written, wrote>>, Lossy => Lossy',
           \A t \in Tickets : ClosureGoesOn(t)
    PROVE  TextInv'
<1>1. pcall'[c] = k /\ \A d \in P!Holders : d # c => pcall'[d] = pcall[d]
  BY DEF ProviderInv, ProviderType
<1>2. Hand(c) = {} /\ Hand(c)' = {}
  BY <1>1, EmptyHand DEF Hand
<1>3. \A d \in P!Holders : Hand(d)' = Hand(d)
  <2>1. ASSUME NEW d \in P!Holders, d # c PROVE Hand(d)' = Hand(d)
    BY <1>1, <2>1 DEF Hand
  <2>2. QED
    BY <1>2, <2>1
<1>4. \A d \in P!Holders : pcall'[d] # None /\ pcall'[d].step # "write" => pcall'[d].text = {}
  BY <1>1 DEF TextInv, TextIsAhead
<1>5. QED
  BY <1>3, <1>4, NoTextMoves

(* A failure: what the task had written is given up.                       *)
LEMMA AbortGivesUp ==
    ASSUME ProviderInv, NEW c \in P!Holders, P!Runs(c), P!Aborts(c), UNCHANGED preleased
    PROVE  /\ \A t \in Tickets : ClosureGoesOn(t)
           /\ Lossy => Lossy'
           /\ c \in Tickets => Lossy' /\ pcall' = [pcall EXCEPT ![c] = None]
           /\ c = Main => \E k \in P!Calls : k.text = {} /\ k.step = "ended" /\ pcall' = [pcall EXCEPT ![c] = k]
<1>1. /\ \A t \in Tickets : t # c => pclosure'[t] = pclosure[t] /\ pends'[t] = pends[t]
      /\ c \in Tickets => pclosure'[c] = "mark" /\ pends'[c] = "fails"
  BY DEF P!Aborts
<1>2. \A t \in Tickets : ClosureGoesOn(t)
  BY <1>1 DEF ClosureGoesOn
<1>3. Lossy => Lossy'
  BY <1>1 DEF Lossy
<1>4. c \in Tickets => Lossy' /\ pcall' = [pcall EXCEPT ![c] = None]
  BY <1>1, NoneIsNothing DEF Lossy, P!Aborts, P!Returns
<1>5. c = Main => \E k \in P!Calls : k.text = {} /\ k.step = "ended" /\ pcall' = [pcall EXCEPT ![c] = k]
  BY DEF P!Aborts, P!Begins, P!Calls
<1>6. QED
  BY <1>2, <1>3, <1>4, <1>5

(* Steps of a caller that touch no text.                                   *)
LEMMA TextlessStep ==
    ASSUME ProviderInv, TextInv, NEW c \in P!Holders,
           \/ \E t \in Tickets : \/ P!submit_with(c, t)
                                 \/ \E op \in {"wait", "cancel", "close"} : P!lookup(c, t, op)
           \/ P!insert(c) \/ P!wait(c) \/ P!cancel(c) \/ P!remove(c) \/ P!collect(c) \/ P!join(c)
    PROVE  TextInv'
<1> USE DEF P!core, P!task
<1>1. UNCHANGED <<output, written, wrote>>
  BY DEF P!submit_with, P!lookup, P!insert, P!wait, P!cancel, P!remove, P!collect, P!join
<1>2. pcall[c] = None \/ pcall[c].step # "write"
  BY DEF P!submit_with, P!lookup, P!insert, P!wait, P!cancel, P!remove, P!collect, P!join, P!Idle, P!In
<1>3. \A t \in Tickets : preleased[t] => preleased'[t]
  BY DEF P!submit_with, P!lookup, P!insert, P!wait, P!cancel, P!remove, P!collect, P!join, P!Core!Accept,
         P!Core!Cancel, P!Core!Move
<1>4. CASE P!Aborts(c) /\ P!Runs(c) /\ UNCHANGED preleased
  <2>1. c \in Tickets \/ c = Main
    BY DEF P!Holders
  <2>2. QED
    BY <1>1, <1>2, <1>4, <2>1, AbortGivesUp, CallWithoutText
<1>5. CASE UNCHANGED <<pclosure, pends>>
  <2>1. (\A t \in Tickets : ClosureGoesOn(t)) /\ (Lossy => Lossy')
    BY <1>3, <1>5 DEF ClosureGoesOn, Lossy
  <2>2. ASSUME P!Returns(c) PROVE TextInv'
    BY <1>1, <1>2, <2>1, <2>2, CallWithoutText DEF P!Returns
  <2>3. ASSUME NEW op, NEW ts, NEW step, P!Begins(c, op, ts, step) PROVE TextInv'
    BY <1>1, <1>2, <2>1, <2>3, CallWithoutText DEF P!Begins
  <2>4. ASSUME pcall[c] # None, NEW k, pcall' = [pcall EXCEPT ![c] = k], k.text = pcall[c].text PROVE TextInv'
    BY <1>1, <1>2, <2>1, <2>4, CallWithoutText DEF TextInv, TextIsAhead
  <2>5. ASSUME NEW step, P!Goes(c, step), pcall[c] # None PROVE TextInv'
    <3>1. pcall[c] \in P!Calls
      BY <2>5, CallOf
    <3>2. [pcall[c] EXCEPT !.step = step].text = pcall[c].text
      BY <3>1 DEF P!Calls
    <3>3. pcall' = [pcall EXCEPT ![c] = [pcall[c] EXCEPT !.step = step]]
      BY <2>5 DEF P!Goes
    <3>4. QED
      BY <2>4, <2>5, <3>2, <3>3
  <2>6. CASE P!wait(c)
    <3>1. pcall[c] # None /\ pcall[c] \in P!Calls
      BY <2>6, CallOf DEF P!wait, P!In
    <3>2. PICK a : pcall' = [pcall EXCEPT ![c].step = "take", ![c].answer = a]
      BY <2>6 DEF P!wait
    <3>3. [pcall[c] EXCEPT !.step = "take", !.answer = a].text = pcall[c].text
      BY <3>1 DEF P!Calls
    <3>4. pcall' = [pcall EXCEPT ![c] = [pcall[c] EXCEPT !.step = "take", !.answer = a]]
      BY <3>1, <3>2 DEF P!Calls
    <3>5. QED
      BY <2>4, <3>1, <3>3, <3>4
  <2>7. CASE P!remove(c) \/ P!join(c)
    BY <2>2, <2>5, <2>7 DEF P!remove, P!join, P!In
  <2>8. CASE P!insert(c) \/ P!cancel(c)
    BY <2>2, <2>8 DEF P!insert, P!cancel
  <2>9. CASE P!collect(c)
    BY <2>3, <2>9 DEF P!collect
  <2>10. ASSUME NEW t \in Tickets, P!submit_with(c, t) PROVE TextInv'
    BY <2>3, <2>10 DEF P!submit_with
  <2>11. ASSUME NEW t \in Tickets, NEW op \in {"wait", "cancel", "close"}, P!lookup(c, t, op), ~P!Aborts(c)
         PROVE  TextInv'
    BY <2>3, <2>11 DEF P!lookup
  <2>12. ASSUME NEW t \in Tickets, NEW op \in {"wait", "cancel", "close"}, P!lookup(c, t, op), P!Aborts(c)
         PROVE  TextInv'
    BY <1>4, <2>12 DEF P!lookup
  <2>13. QED
    BY <2>6, <2>7, <2>8, <2>9, <2>10, <2>11, <2>12
<1>6. (P!Aborts(c) /\ P!Runs(c) /\ UNCHANGED preleased) \/ UNCHANGED <<pclosure, pends>>
  BY DEF P!submit_with, P!lookup, P!insert, P!wait, P!cancel, P!remove, P!collect, P!join
<1>7. QED
  BY <1>4, <1>5, <1>6

(* Steps of a task that touch no text.                                     *)
LEMMA TextlessTaskStep ==
    ASSUME ProviderInv, TextInv, NEW t \in Tickets,
           P!task_returns(t) \/ P!set_result(t) \/ P!cancel_pending(t)
    PROVE  TextInv'
<1> USE DEF P!core, P!task
<1>0. ProviderType /\ TaskKnows(t)
  BY DEF ProviderInv
<1>1. UNCHANGED <<preleased, output, written, wrote, pcall>>
  BY DEF P!task_returns, P!set_result, P!cancel_pending, P!Core!Cancel, P!Core!Move
<1>2. \A s \in Tickets : ClosureGoesOn(s)
  <2>1. CASE P!task_returns(t)
    BY <1>0, <2>1 DEF P!task_returns, ClosureGoesOn, ProviderType
  <2>2. CASE P!set_result(t) \/ P!cancel_pending(t)
    BY <1>0, <2>2 DEF P!set_result, P!cancel_pending, ClosureGoesOn, ProviderType
  <2>3. QED
    BY <2>1, <2>2
<1>3. \A s \in Tickets : pends[s] = "fails" => pends'[s] = "fails"
  BY <1>0 DEF P!task_returns, P!set_result, P!cancel_pending, TaskKnows, ProviderType
<1>4. Lossy => Lossy'
  BY <1>1, <1>3, LossyStays
<1>5. \A c \in P!Holders : Hand(c)' = Hand(c)
  BY <1>1 DEF Hand
<1>6. QED
  BY <1>1, <1>2, <1>4, <1>5, NoTextMoves DEF TextInv, TextIsAhead

(* A task starts, and may print its text: it is nowhere yet.               *)
LEMMA StartStep ==
    ASSUME ProviderInv, TextInv, NEW t \in Tickets, P!start(t)
    PROVE  TextInv'
<1>0. ProviderType /\ TaskKnows(t) /\ pclosure[t] = "none" /\ t \in P!Holders
  BY DEF ProviderInv, TaskKnows, P!start, P!Core!Start, P!Core!Move, P!Holders
<1>1. /\ UNCHANGED <<preleased, pends, output, pcall>>
      /\ pclosure' = [pclosure EXCEPT ![t] = "run"]
  BY DEF P!start, P!Core!Start, P!Core!Move
<1>2. PICK w \in SUBSET {t} : written' = [written EXCEPT ![t] = w] /\ wrote' = wrote \cup w
  BY DEF P!start
<1>3. TextType /\ TextIsAhead /\ TextIsUnique /\ t \notin wrote /\ written[t] = {} /\ output[t] = {}
  BY <1>0 DEF TextInv, TextIsAhead
<1>4. written'[t] = w /\ \A c \in P!Holders : c # t => written'[c] = written[c]
  BY <1>0, <1>2, <1>3 DEF TextType
<1>5. \A c \in P!Holders : Hand(c)' = Hand(c)
  BY <1>1 DEF Hand
<1>6. TextType'
  BY <1>1, <1>2, <1>3 DEF TextType, P!Holders
<1>7. TextIsAhead'
  <2>1. \A s \in Tickets :
          /\ pclosure'[s] = "none" => written'[s] = {} /\ s \notin wrote'
          /\ pclosure'[s] \in {"none", "run", "output"} => output'[s] = {}
          /\ pclosure'[s] \in {"result", "mark", "done"} => written'[s] = {} \/ pends'[s] = "fails"
    BY <1>0, <1>1, <1>2, <1>3, <1>4 DEF TextIsAhead, ProviderType, P!Holders
  <2>2. \A c \in P!Holders : pcall'[c] # None /\ pcall'[c].step # "write" => pcall'[c].text = {}
    BY <1>1, <1>3 DEF TextIsAhead
  <2>3. \A c \in P!Holders : (written[c] \cup Hand(c))' \subseteq wrote'
    BY <1>2, <1>3, <1>4, <1>5 DEF TextIsAhead
  <2>4. \A s \in Tickets : output'[s] \subseteq wrote'
    BY <1>1, <1>2, <1>3 DEF TextIsAhead
  <2>5. QED
    BY <2>1, <2>2, <2>3, <2>4 DEF TextIsAhead
<1>8. TextIsUnique'
  <2>1. ASSUME NEW x \in wrote', x # t PROVE
          /\ x \in wrote
          /\ \A c \in P!Holders : x \in written'[c] => x \in written[c]
    BY <1>2, <1>4, <2>1
  <2>2. /\ \A c \in P!Holders : t \notin written[c] /\ t \notin Hand(c)
        /\ \A s \in Tickets : t \notin output[s]
    BY <1>3 DEF TextIsAhead
  <2>3. QED
    BY <1>1, <1>3, <1>4, <1>5, <2>1, <2>2 DEF TextIsUnique
<1>9. Lossy => Lossy'
  BY <1>1, LossyStays
<1>10. ASSUME NEW x \in wrote', x \in wrote => Somewhere(x) PROVE Somewhere(x)'
  BY <1>0, <1>1, <1>2, <1>3, <1>4, <1>5, <1>10 DEF Somewhere
<1>11. QED
  BY <1>6, <1>7, <1>8, <1>9, <1>10 DEF TextInv

(* The text of a task that has returned moves to its ticket.               *)
LEMMA SetOutputStep ==
    ASSUME ProviderInv, TextInv, NEW t \in Tickets, P!set_output(t)
    PROVE  TextInv'
<1>0. ProviderType /\ pclosure[t] = "output" /\ t \in P!Holders
  BY DEF ProviderInv, P!set_output, P!Holders
<1>1. /\ UNCHANGED <<preleased, pends, pcall, wrote>>
      /\ pclosure' = [pclosure EXCEPT ![t] = "result"]
  BY DEF P!set_output, P!core
<1>2. TextType /\ TextIsAhead /\ TextIsUnique /\ output[t] = {}
  BY <1>0 DEF TextInv, TextIsAhead
<1>3. /\ output'[t] = written[t] /\ \A s \in Tickets : s # t => output'[s] = output[s]
      /\ written'[t] = {} /\ \A c \in P!Holders : c # t => written'[c] = written[c]
  BY <1>0, <1>2 DEF P!set_output, TextType
<1>4. \A c \in P!Holders : Hand(c)' = Hand(c)
  BY <1>1 DEF Hand
<1>5. TextType'
  BY <1>0, <1>1, <1>2 DEF P!set_output, TextType
<1>6. TextIsAhead'
  <2>1. \A s \in Tickets :
          /\ pclosure'[s] = "none" => written'[s] = {} /\ s \notin wrote'
          /\ pclosure'[s] \in {"none", "run", "output"} => output'[s] = {}
          /\ pclosure'[s] \in {"result", "mark", "done"} => written'[s] = {} \/ pends'[s] = "fails"
    BY <1>0, <1>1, <1>2, <1>3 DEF TextIsAhead, ProviderType, P!Holders
  <2>2. \A c \in P!Holders : pcall'[c] # None /\ pcall'[c].step # "write" => pcall'[c].text = {}
    BY <1>1, <1>2 DEF TextIsAhead
  <2>3. \A c \in P!Holders : (written[c] \cup Hand(c))' \subseteq wrote'
    BY <1>1, <1>2, <1>3, <1>4 DEF TextIsAhead
  <2>4. \A s \in Tickets : output'[s] \subseteq wrote'
    BY <1>0, <1>1, <1>2, <1>3 DEF TextIsAhead
  <2>5. QED
    BY <2>1, <2>2, <2>3, <2>4 DEF TextIsAhead
<1>7. TextIsUnique'
  BY <1>0, <1>1, <1>2, <1>3, <1>4 DEF TextIsUnique
<1>8. Lossy => Lossy'
  BY <1>1, LossyStays
<1>9. ASSUME NEW x, Somewhere(x) PROVE Somewhere(x)'
  BY <1>0, <1>2, <1>3, <1>4, <1>9 DEF Somewhere
<1>10. QED
  BY <1>1, <1>5, <1>6, <1>7, <1>8, <1>9 DEF TextInv

(* The writer of a task that is over is dropped: it is empty, or the task  *)
(* has failed.                                                             *)
LEMMA MarkStep ==
    ASSUME ProviderInv, TextInv, NEW t \in Tickets, P!mark(t)
    PROVE  TextInv'
<1>0. ProviderType /\ pclosure[t] = "mark" /\ t \in P!Holders
  BY DEF ProviderInv, P!mark, P!Holders
<1>1. /\ UNCHANGED <<preleased, pends, output, pcall, wrote>>
      /\ pclosure' = [pclosure EXCEPT ![t] = "done"]
  BY DEF P!mark, P!Core!Complete, P!Core!Fail, P!Core!Move
<1>2. TextType /\ TextIsAhead /\ TextIsUnique
  BY DEF TextInv
<1>3. written'[t] = {} /\ \A c \in P!Holders : c # t => written'[c] = written[c]
  BY <1>0, <1>2 DEF P!mark, TextType
<1>4. \A c \in P!Holders : Hand(c)' = Hand(c)
  BY <1>1 DEF Hand
<1>5. TextType'
  BY <1>1, <1>2 DEF P!mark, TextType
<1>6. TextIsAhead'
  <2>1. \A s \in Tickets :
          /\ pclosure'[s] = "none" => written'[s] = {} /\ s \notin wrote'
          /\ pclosure'[s] \in {"none", "run", "output"} => output'[s] = {}
          /\ pclosure'[s] \in {"result", "mark", "done"} => written'[s] = {} \/ pends'[s] = "fails"
    BY <1>0, <1>1, <1>2, <1>3 DEF TextIsAhead, ProviderType, P!Holders
  <2>2. \A c \in P!Holders : (written[c] \cup Hand(c))' \subseteq wrote'
    BY <1>1, <1>2, <1>3, <1>4 DEF TextIsAhead
  <2>3. QED
    BY <1>1, <1>2, <2>1, <2>2 DEF TextIsAhead
<1>7. TextIsUnique'
  BY <1>1, <1>2, <1>3, <1>4 DEF TextIsUnique
<1>8. Lossy => Lossy'
  BY <1>1, LossyStays
<1>9. CASE Lossy
  BY <1>5, <1>6, <1>7, <1>8, <1>9 DEF TextInv
<1>10. CASE ~Lossy
  <2>1. written[t] = {}
    BY <1>0, <1>2, <1>10 DEF TextIsAhead, Lossy
  <2>2. ASSUME NEW x, Somewhere(x) PROVE Somewhere(x)'
    BY <1>0, <1>1, <1>3, <1>4, <2>1, <2>2 DEF Somewhere
  <2>3. QED
    BY <1>1, <1>5, <1>6, <1>7, <1>10, <2>2 DEF TextInv
<1>11. QED
  BY <1>9, <1>10

(* Close drops the text in the ticket.                                     *)
LEMMA DropStep ==
    ASSUME ProviderInv, TextInv, NEW c \in P!Holders, P!close(c)
    PROVE  TextInv'
<1>0. pcall[c] # None /\ pcall[c].op = "close" /\ pcall[c].step = "core" /\ ProviderType
  BY DEF P!close, P!In, ProviderInv
<1>1. PICK t \in Tickets : pcall[c].tickets = {t}
  BY <1>0, CallOf DEF CallKnows
<1>2. P!TicketOf(c) = t
  BY <1>1 DEF P!TicketOf
<1>3. /\ UNCHANGED <<pclosure, pends, written, wrote>>
      /\ output' = [output EXCEPT ![t] = {}] /\ preleased' = [preleased EXCEPT ![t] = TRUE]
      /\ pcall' = [pcall EXCEPT ![c] = None]
  BY <1>2 DEF P!close, P!task, P!Core!Release, P!Returns
<1>4. TextType /\ TextIsAhead /\ TextIsUnique
  BY DEF TextInv
<1>5. output'[t] = {} /\ \A s \in Tickets : s # t => output'[s] = output[s]
  BY <1>3, <1>4 DEF TextType
<1>6. pcall'[c] = None /\ \A d \in P!Holders : d # c => pcall'[d] = pcall[d]
  BY <1>0, <1>3 DEF ProviderType
<1>7. \A d \in P!Holders : Hand(d)' = Hand(d)
  <2>1. Hand(c) = {} /\ Hand(c)' = {}
    BY <1>0, <1>6, EmptyHand DEF Hand
  <2>2. ASSUME NEW d \in P!Holders, d # c PROVE Hand(d)' = Hand(d)
    BY <1>6, <2>2 DEF Hand
  <2>3. QED
    BY <2>1, <2>2
<1>8. TextType'
  BY <1>3, <1>4 DEF TextType
<1>9. TextIsAhead'
  <2>1. \A d \in P!Holders : pcall'[d] # None /\ pcall'[d].step # "write" => pcall'[d].text = {}
    BY <1>4, <1>6 DEF TextIsAhead
  <2>2. QED
    BY <1>3, <1>4, <1>5, <1>7, <2>1 DEF TextIsAhead
<1>10. TextIsUnique'
  BY <1>3, <1>4, <1>5, <1>7 DEF TextIsUnique
<1>11. Lossy'
  BY <1>0, <1>3 DEF Lossy, ProviderType
<1>12. QED
  BY <1>8, <1>9, <1>10, <1>11 DEF TextInv

(* A Wait or a Join takes the text out of the ticket.                      *)
LEMMA TakeStep ==
    ASSUME ProviderInv, TextInv, NEW c \in P!Holders, P!take_output(c)
    PROVE  TextInv'
<1>0. pcall[c] # None /\ pcall[c].step = "take" /\ ProviderType /\ pcall[c] \in P!Calls
  BY CallOf DEF P!take_output, ProviderInv
<1>1. PICK t \in pcall[c].todo :
        /\ pcall' = [pcall EXCEPT ![c].step = "write", ![c].todo = @ \ {t}, ![c].text = output[t]]
        /\ output' = [output EXCEPT ![t] = {}]
  BY DEF P!take_output
<1>2. UNCHANGED <<preleased, pclosure, pends, written, wrote>>
  BY DEF P!take_output, P!core, P!task
<1>3. TextType /\ TextIsAhead /\ TextIsUnique /\ t \in Tickets
  BY <1>0 DEF TextInv, P!Calls
<1>4. output'[t] = {} /\ \A s \in Tickets : s # t => output'[s] = output[s]
  BY <1>1, <1>3 DEF TextType
<1>5. /\ pcall'[c] = [pcall[c] EXCEPT !.step = "write", !.todo = @ \ {t}, !.text = output[t]]
      /\ \A d \in P!Holders : d # c => pcall'[d] = pcall[d]
  BY <1>0, <1>1 DEF ProviderType, P!Calls
<1>6. pcall'[c].step = "write" /\ pcall'[c].text = output[t] /\ pcall'[c] \in P!Calls
  BY <1>0, <1>3, <1>5 DEF P!Calls, TextType
<1>7. Hand(c) = {} /\ Hand(c)' = output[t]
  BY <1>0, <1>6, EmptyHand, NoneIsNothing DEF Hand
<1>8. \A d \in P!Holders : d # c => Hand(d)' = Hand(d)
  BY <1>5 DEF Hand
<1>9. TextType'
  BY <1>1, <1>2, <1>3 DEF TextType
<1>10. TextIsAhead'
  <2>1. \A d \in P!Holders : pcall'[d] # None /\ pcall'[d].step # "write" => pcall'[d].text = {}
    BY <1>3, <1>5, <1>6 DEF TextIsAhead
  <2>2. \A d \in P!Holders : (written[d] \cup Hand(d))' \subseteq wrote'
    BY <1>2, <1>3, <1>7, <1>8 DEF TextIsAhead
  <2>3. QED
    BY <1>2, <1>3, <1>4, <2>1, <2>2 DEF TextIsAhead
<1>11. TextIsUnique'
  BY <1>2, <1>3, <1>4, <1>7, <1>8 DEF TextIsUnique
<1>12. Lossy => Lossy'
  BY <1>2, LossyStays
<1>13. ASSUME NEW x, Somewhere(x) PROVE Somewhere(x)'
  BY <1>2, <1>4, <1>7, <1>8, <1>13 DEF Somewhere
<1>14. QED
  BY <1>2, <1>9, <1>10, <1>11, <1>12, <1>13 DEF TextInv

(* The text goes to the output of the caller; a task whose output has no   *)
(* room for it fails.                                                      *)
LEMMA WriteStep ==
    ASSUME ProviderInv, TextInv, NEW c \in P!Holders, P!write_all(c)
    PROVE  TextInv'
<1>0. pcall[c] # None /\ pcall[c].step = "write" /\ ProviderType /\ pcall[c] \in P!Calls
  BY CallOf DEF P!write_all, ProviderInv
<1>1. UNCHANGED <<preleased, output, wrote>>
  BY DEF P!write_all, P!core
<1>2. TextType /\ TextIsAhead /\ TextIsUnique /\ Hand(c) = pcall[c].text /\ Hand(c) \subseteq wrote
  BY <1>0 DEF TextInv, Hand, TextIsAhead
<1>3. CASE P!Fits(c)
  <2>1. UNCHANGED <<pclosure, pends>> /\ written' = [written EXCEPT ![c] = @ \cup Hand(c)]
    BY <1>2, <1>3 DEF P!write_all
  <2>2. written'[c] = written[c] \cup Hand(c) /\ \A d \in P!Holders : d # c => written'[d] = written[d]
    BY <1>2, <2>1 DEF TextType
  <2>3. PICK k \in P!Calls \cup {None} : pcall' = [pcall EXCEPT ![c] = k] /\ (k # None => k.text = {})
    <3>1. [pcall[c] EXCEPT !.step = "take", !.text = {}] \in P!Calls
          /\ [pcall[c] EXCEPT !.step = "take", !.text = {}].text = {}
      BY <1>0 DEF P!Calls
    <3>2. CASE pcall' = [pcall EXCEPT ![c].step = "take", ![c].text = {}]
      <4>1. pcall' = [pcall EXCEPT ![c] = [pcall[c] EXCEPT !.step = "take", !.text = {}]]
        BY <1>0, <3>2 DEF P!Calls
      <4>2. QED
        BY <3>1, <4>1
    <3>3. CASE P!Returns(c)
      BY <3>3 DEF P!Returns
    <3>4. QED
      BY <1>3, <3>2, <3>3 DEF P!write_all
  <2>4. pcall'[c] = k /\ \A d \in P!Holders : d # c => pcall'[d] = pcall[d]
    BY <1>0, <2>3 DEF ProviderType
  <2>5. Hand(c)' = {} /\ \A d \in P!Holders : d # c => Hand(d)' = Hand(d)
    BY <2>3, <2>4 DEF Hand
  <2>6. TextType'
    BY <1>1, <1>2, <2>1 DEF TextType
  <2>7. TextIsAhead'
    <3>1. c \in Tickets => pclosure[c] = "run"
      BY <1>0, CallOf
    <3>2. \A s \in Tickets :
            /\ pclosure'[s] = "none" => written'[s] = {} /\ s \notin wrote'
            /\ pclosure'[s] \in {"none", "run", "output"} => output'[s] = {}
            /\ pclosure'[s] \in {"result", "mark", "done"} => written'[s] = {} \/ pends'[s] = "fails"
      BY <1>1, <1>2, <2>1, <2>2, <3>1 DEF TextIsAhead, P!Holders
    <3>3. \A d \in P!Holders : pcall'[d] # None /\ pcall'[d].step # "write" => pcall'[d].text = {}
      BY <1>2, <2>3, <2>4 DEF TextIsAhead
    <3>4. \A d \in P!Holders : (written[d] \cup Hand(d))' \subseteq wrote'
      BY <1>1, <1>2, <2>2, <2>5 DEF TextIsAhead
    <3>5. QED
      BY <1>1, <1>2, <3>2, <3>3, <3>4 DEF TextIsAhead
  <2>8. TextIsUnique'
    BY <1>1, <1>2, <2>2, <2>5 DEF TextIsUnique
  <2>9. Lossy => Lossy'
    BY <1>1, <2>1, LossyStays
  <2>10. ASSUME NEW x, Somewhere(x) PROVE Somewhere(x)'
    BY <1>1, <2>2, <2>5, <2>10 DEF Somewhere
  <2>11. QED
    BY <1>1, <2>6, <2>7, <2>8, <2>9, <2>10 DEF TextInv
<1>4. CASE ~P!Fits(c)
  <2>1. P!Aborts(c) /\ UNCHANGED written /\ c \in Tickets /\ P!Runs(c)
    BY <1>0, <1>4, CallOf DEF P!write_all, P!Fits, P!Runs
  <2>2. Lossy' /\ pcall' = [pcall EXCEPT ![c] = None] /\ \A t \in Tickets : ClosureGoesOn(t)
    BY <1>1, <2>1, AbortGivesUp
  <2>3. pcall'[c] = None /\ \A d \in P!Holders : d # c => pcall'[d] = pcall[d]
    BY <1>0, <2>2 DEF ProviderType
  <2>4. Hand(c)' = {} /\ \A d \in P!Holders : d # c => Hand(d)' = Hand(d)
    BY <2>3 DEF Hand
  <2>5. TextType'
    BY <1>1, <1>2, <2>1 DEF TextType
  <2>6. TextIsAhead'
    <3>1. \A s \in Tickets :
            /\ pclosure'[s] = "none" => written'[s] = {} /\ s \notin wrote'
            /\ pclosure'[s] \in {"none", "run", "output"} => output'[s] = {}
            /\ pclosure'[s] \in {"result", "mark", "done"} => written'[s] = {} \/ pends'[s] = "fails"
      BY <1>1, <1>2, <2>1, <2>2 DEF TextIsAhead, ClosureGoesOn
    <3>2. \A d \in P!Holders : pcall'[d] # None /\ pcall'[d].step # "write" => pcall'[d].text = {}
      BY <1>2, <2>3 DEF TextIsAhead
    <3>3. \A d \in P!Holders : (written[d] \cup Hand(d))' \subseteq wrote'
      BY <1>1, <1>2, <2>1, <2>4 DEF TextIsAhead
    <3>4. QED
      BY <1>1, <1>2, <3>1, <3>2, <3>3 DEF TextIsAhead
  <2>7. TextIsUnique'
    BY <1>1, <1>2, <2>1, <2>4 DEF TextIsUnique
  <2>8. QED
    BY <2>2, <2>5, <2>6, <2>7 DEF TextInv
<1>5. QED
  BY <1>3, <1>4

-----------------------------------------------------------------------------
(* Interpreter: the theorems.                                              *)

LEMMA ProviderInitially == P!Init => ProviderInv /\ TextInv
<1> SUFFICES ASSUME P!Init PROVE ProviderInv /\ TextInv
  OBVIOUS
<1>1. ProviderType /\ TextType
  BY DEF P!Init, P!Core!Init, P!Core!Phases, ProviderType, TextType, P!Holders
<1>2. \A c \in P!Holders : pcall[c] = None /\ pknows[c] = {} /\ Hand(c) = {}
  BY DEF P!Init, Hand
<1>3. \A t \in Tickets : ~Public(t)
  BY <1>2 DEF P!Init, P!Core!Init, Public
<1>4. Handles
  BY <1>2, <1>3 DEF P!Init, P!Core!Init, Handles, Submitting
<1>5. \A t \in Tickets : TaskKnows(t) /\ (pcall[t] # None => pclosure[t] = "run")
  BY <1>2, NoneIsNothing DEF P!Init, P!Core!Init, TaskKnows, P!Holders, P!Ends
<1>6. TextIsAhead /\ TextIsUnique
  BY <1>2 DEF P!Init, TextIsAhead, TextIsUnique, P!Holders
<1>7. QED
  BY <1>1, <1>2, <1>4, <1>5, <1>6 DEF ProviderInv, TextInv, P!Init

LEMMA ProviderStutters == ProviderInv /\ TextInv /\ UNCHANGED P!vars => ProviderInv' /\ TextInv'
BY DEF ProviderInv, TextInv, P!vars, ProviderType, Handles, Public, Submitting, TaskKnows, CallKnows, RightWait,
       TextType, TextIsAhead, TextIsUnique, Lossy, Somewhere, Hand

LEMMA ProviderInvariant == P!Spec => [](ProviderInv /\ TextInv)
<1>1. ASSUME ProviderInv, TextInv, P!Next PROVE ProviderInv' /\ TextInv'
  <2>0. TextType
    BY <1>1 DEF TextInv
  <2>1. ASSUME NEW t \in Tickets,
               \/ P!start(t) \/ P!task_returns(t) \/ P!set_output(t) \/ P!set_result(t) \/ P!mark(t)
               \/ P!cancel_pending(t)
        PROVE  ProviderInv' /\ TextInv'
    BY <1>1, <2>1, TaskStep, TextlessTaskStep, StartStep, SetOutputStep, MarkStep
  <2>2. ASSUME NEW c \in P!Holders, NEW t \in Tickets,
               P!submit_with(c, t) \/ \E op \in {"wait", "cancel", "close"} : P!lookup(c, t, op)
        PROVE  ProviderInv' /\ TextInv'
    BY <1>1, <2>2, SubmitStep, LookupStep, TextlessStep
  <2>3. ASSUME NEW c \in P!Holders,
               \/ P!insert(c) \/ P!wait(c) \/ P!cancel(c) \/ P!remove(c) \/ P!collect(c) \/ P!join(c)
        PROVE  ProviderInv' /\ TextInv'
    BY <1>1, <2>0, <2>3, InsertStep, ReadStep, CancelStep, TicketCloseStep, TextlessStep
  <2>4. ASSUME NEW c \in P!Holders, P!close(c) \/ P!take_output(c) \/ P!write_all(c)
        PROVE  ProviderInv' /\ TextInv'
    BY <1>1, <2>0, <2>4, TicketCloseStep, ReadStep, DropStep, TakeStep, WriteStep
  <2>5. QED
    BY <1>1, <2>1, <2>2, <2>3, <2>4 DEF P!Next
<1>2. ProviderInv /\ TextInv /\ [P!Next]_(P!vars) => ProviderInv' /\ TextInv'
  BY <1>1, ProviderStutters
<1>3. QED
  BY <1>2, ProviderInitially, PTL DEF P!Spec

(* What a Wait returns is what became of the task, and stays so.           *)
THEOREM WaitIsRight == P!Spec => []WaitTellsTheTask
<1>1. ProviderInv /\ TextInv => WaitTellsTheTask
  <2> SUFFICES ASSUME ProviderInv PROVE WaitTellsTheTask
    OBVIOUS
  <2>1. ASSUME NEW t \in Tickets, NEW a, P!Told(t, a) PROVE RightWait(t, a)
    BY <2>1 DEF ProviderInv, CallKnows, P!Told, P!In
  <2>2. \A t \in Tickets : /\ pphase[t] = "CANCELLED" => pclosure[t] = "none"
                           /\ preleased[t] => t \notin ptickets
    BY DEF ProviderInv, TaskKnows, Handles
  <2>3. QED
    BY <2>1, <2>2 DEF WaitTellsTheTask, P!WaitTellsTheTask, RightWait
<1>2. QED
  BY <1>1, ProviderInvariant, PTL

(* A set whose members are all the same has at most one.                   *)
LEMMA CountsToOne ==
    ASSUME NEW S, \A a, b \in S : a = b
    PROVE  /\ S = {} => P!Cardinality(S) = 0
           /\ S # {} => P!Cardinality(S) = 1
<1>1. S = {} => Cardinality(S) = 0
  BY FS_EmptySet
<1>2. S # {} => Cardinality(S) = 1
  BY FS_Singleton
<1>3. QED
  BY <1>1, <1>2 DEF P!Cardinality, Cardinality

(* The text a task printed is never in two places, and in one for ever     *)
(* unless somebody closed a ticket or a task failed.                       *)
THEOREM TextsStayOne == P!Spec => []TextIsInOnePlace
<1>1. ProviderInv /\ TextInv => TextIsInOnePlace
  <2> SUFFICES ASSUME TextInv, NEW x \in wrote
               PROVE  LET places == P!Cardinality({c \in P!Holders : x \in written[c]})
                                    + P!Cardinality({t \in Tickets : x \in output[t]})
                                    + P!Cardinality({c \in P!Holders : pcall[c] # None /\ x \in pcall[c].text})
                      IN /\ places <= 1
                         /\ places = 1 \/ \E t \in Tickets : preleased[t] \/ pends[t] = "fails"
    BY DEF TextIsInOnePlace, P!TextIsInOnePlace
  <2> DEFINE W == {c \in P!Holders : x \in written[c]}
             O == {t \in Tickets : x \in output[t]}
             H == {c \in P!Holders : pcall[c] # None /\ x \in pcall[c].text}
  <2>1. \A c \in P!Holders : c \in H <=> x \in Hand(c)
    BY DEF Hand
  <2>2. (\A a, b \in W : a = b) /\ (\A a, b \in O : a = b) /\ (\A a, b \in H : a = b)
    BY <2>1 DEF TextInv, TextIsUnique
  <2>3. (W = {} \/ O = {}) /\ (W = {} \/ H = {}) /\ (O = {} \/ H = {})
    BY <2>1 DEF TextInv, TextIsUnique
  <2>4. Lossy \/ W # {} \/ O # {} \/ H # {}
    BY <2>1 DEF TextInv, Somewhere
  <2>5. /\ P!Cardinality(W) = IF W = {} THEN 0 ELSE 1
        /\ P!Cardinality(O) = IF O = {} THEN 0 ELSE 1
        /\ P!Cardinality(H) = IF H = {} THEN 0 ELSE 1
    BY <2>2, CountsToOne
  <2> HIDE DEF W, O, H
  <2>6. LET places == P!Cardinality(W) + P!Cardinality(O) + P!Cardinality(H)
        IN places <= 1 /\ (places = 1 \/ Lossy)
    BY <2>3, <2>4, <2>5
  <2>7. QED
    BY <2>6 DEF W, O, H, Lossy
<1>2. QED
  BY <1>1, ProviderInvariant, PTL
=============================================================================
