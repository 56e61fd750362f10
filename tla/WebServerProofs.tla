-------------------------- MODULE WebServerProofs --------------------------
(***************************************************************************)
(* Proofs about the lifecycle of a BNWeb server, for any number of         *)
(* connections and workers, any limits and any number of Stop and Close    *)
(* calls.                                                                  *)
(*                                                                         *)
(* The counts are right because every connection is in one place and who   *)
(* gives its admission back is known there: the listener, the channel or a *)
(* worker.  That a Stop that succeeds leaves nothing behind rests on what  *)
(* each place of drain_server has established, and on the counts it reads. *)
(***************************************************************************)
EXTENDS MCWebServer, FiniteSetTheorems, SequenceTheorems, TLAPS

-----------------------------------------------------------------------------
(* The inductive invariant.                                                *)

ConnPlaces == {"new", "gone", "admitted", "queued", "serving", "matched", "submitting",
               "waiting", "handling", "closing"}
TaskPlaces == {"none", "counted", "queued", "entered", "running", "sent", "returned"}

ServerFields ==
    [queue : BOOLEAN, started : BOOLEAN, stopping : BOOLEAN, closed : BOOLEAN,
     pending : Nat, active_connections : Nat, active_sockets : Seq(Conns),
     sender : BOOLEAN, runtime : BOOLEAN, listener : BOOLEAN, workers : SUBSET Workers]

ListenerFields ==
    [pc : {"none", "check", "accept", "runtime", "submit", "dispose", "release", "gone"},
     conn : Conns \cup {None}]

WorkerFields ==
    [pc : {"none", "idle", "busy", "dropping", "gone"}, conn : Conns \cup {None}]

StopFields ==
    [pc : {"idle", "runtime", "take", "join", "finish", "workers"},
     close : BOOLEAN, expired : BOOLEAN,
     result : {"none", "ok", "listener", "handlers", "connections", "workers"},
     calls : Nat]

WebType ==
    /\ server \in ServerFields
    /\ gate \in [holder : Conns \cup {None}, closed : BOOLEAN]
    /\ handlers \in Nat
    /\ listener \in ListenerFields
    /\ work \in Seq(Conns)
    /\ worker \in [Workers -> WorkerFields]
    /\ conn \in [Conns -> ConnPlaces]
    /\ task \in [Conns -> TaskPlaces]
    /\ stop \in StopFields

\* Before Start and Stop nothing has happened.
NotBegun ==
    ~server.started /\ ~server.stopping =>
        /\ listener.pc = "none" /\ work = <<>>
        /\ \A w \in Workers : worker[w].pc = "none"
        /\ \A c \in Conns : conn[c] = "new" /\ task[c] = "none"

\* The listener has the connection it admitted, the channel connections that
\* wait in it, each once, and a busy worker the one it serves.
ConnsAreHeld ==
    /\ listener.pc \in {"runtime", "submit", "dispose", "release"} =>
          listener.conn \in Conns /\ conn[listener.conn] = "admitted"
    /\ \A i \in 1 .. Len(work) : conn[work[i]] = "queued"
    /\ \A i, j \in 1 .. Len(work) : work[i] = work[j] => i = j
    /\ \A w \in Workers : worker[w].pc = "busy" => worker[w].conn \in Conns

\* A task is of a request under way or of a connection that is gone; one
\* that has sent its response may still be there when the next one begins.
TasksAreOfRequests ==
    \A c \in Conns :
        /\ task[c] = "counted" => conn[c] = "submitting"
        /\ task[c] \in {"queued", "entered", "running"} =>
              conn[c] \in {"handling", "closing", "gone"}

\* Without a queue the running handler holds the gate; with one nobody waits
\* for it.
GateIsHeld ==
    \A c \in Conns :
        IF server.queue THEN conn[c] # "waiting"
        ELSE /\ task[c] \notin {"counted", "queued", "sent"}
             /\ task[c] \in {"entered", "running"} => gate.holder = c

Quiet == /\ listener.pc \in {"none", "gone"}
         /\ \A c \in Conns : /\ conn[c] \in {"new", "gone"}
                             /\ task[c] \in {"none", "returned"}

\* What Stop has established at each place of drain_server.
DrainKnows ==
    /\ stop.pc # "idle" \/ stop.result = "ok" \/ server.closed => server.stopping
    /\ ~server.listener /\ stop.pc # "join" => listener.pc \in {"none", "gone"}
    /\ stop.pc \in {"finish", "workers"} => listener.pc \in {"none", "gone"}
    /\ stop.pc = "workers" => Quiet
    /\ \A w \in Workers : worker[w].pc \notin {"none", "gone"} => w \in server.workers
    /\ stop.result = "ok" \/ server.closed =>
          Quiet /\ \A w \in Workers : worker[w].pc \in {"none", "gone"}

\* Where everything is, and the counts.
Places == NotBegun /\ ConnsAreHeld /\ TasksAreOfRequests /\ GateIsHeld /\ DrainKnows

WebInv == WebType /\ Places /\ CountsAreExact

-----------------------------------------------------------------------------
(* The operations of ServerState.                                          *)

LEMMA ReleaseKeeps ==
    ASSUME NEW s \in ServerFields
    PROVE  /\ release_connection(s) \in ServerFields
           /\ release_connection(s).active_connections = Minus1(s.active_connections)
           /\ release_connection(s).pending = s.pending
           /\ release_connection(s).queue = s.queue
           /\ release_connection(s).started = s.started
           /\ release_connection(s).stopping = s.stopping
           /\ release_connection(s).closed = s.closed
           /\ release_connection(s).listener = s.listener
           /\ release_connection(s).workers = s.workers
<1> DEFINE n == Minus1(Len(s.active_sockets))
           q == SubSeq(s.active_sockets, 1, n)
<1>1. s.active_sockets \in Seq(Conns) /\ s.active_connections \in Nat
  BY DEF ServerFields
<1>2. n \in Nat /\ n <= Len(s.active_sockets) /\ Minus1(s.active_connections) \in Nat
  BY <1>1, LenProperties DEF Minus1
<1>3. q \in Seq(Conns)
  <2>1. \A i \in 1 .. n : s.active_sockets[i] \in Conns
    BY <1>1, <1>2, LenProperties
  <2>2. QED
    BY <2>1, <1>2, SubSeqProperties
<1> HIDE DEF q
<1>4. release_connection(s) = [s EXCEPT !.active_connections = Minus1(s.active_connections),
                                        !.active_sockets = q]
  BY DEF release_connection, ServerFields, q
<1>5. QED
  BY <1>2, <1>3, <1>4 DEF ServerFields

LEMMA FinishKeeps ==
    ASSUME NEW s \in ServerFields
    PROVE  /\ finish_handler(s) \in ServerFields
           /\ finish_handler(s).active_connections = s.active_connections
           /\ finish_handler(s).pending = Minus1(s.pending)
           /\ finish_handler(s).queue = s.queue
           /\ finish_handler(s).started = s.started
           /\ finish_handler(s).stopping = s.stopping
           /\ finish_handler(s).closed = s.closed
           /\ finish_handler(s).listener = s.listener
           /\ finish_handler(s).workers = s.workers
<1>1. s.pending \in Nat /\ Minus1(s.pending) \in Nat
  BY DEF ServerFields, Minus1
<1>2. QED
  BY <1>1 DEF ServerFields, finish_handler

(* admit_connection's count, and what release_connection makes of it.      *)
LEMMA AdmitKeeps ==
    ASSUME NEW s \in ServerFields
    PROVE  LET t == [s EXCEPT !.active_connections = @ + 1] IN
           /\ t \in ServerFields
           /\ t.active_connections = s.active_connections + 1
           /\ Minus1(t.active_connections) = s.active_connections
           /\ t.pending = s.pending
           /\ t.queue = s.queue
           /\ t.started = s.started
           /\ t.stopping = s.stopping
           /\ t.closed = s.closed
           /\ t.listener = s.listener
           /\ t.workers = s.workers
<1>1. /\ s.active_connections \in Nat /\ s.active_connections + 1 \in Nat
      /\ Minus1(s.active_connections + 1) = s.active_connections
  BY DEF ServerFields, Minus1
<1>2. QED
  BY <1>1 DEF ServerFields

-----------------------------------------------------------------------------
(* Counting.                                                               *)

LEMMA Gains ==
    ASSUME NEW S, NEW T, NEW x, IsFiniteSet(S), x \notin S, T = S \cup {x}
    PROVE  Cardinality(T) = Cardinality(S) + 1
BY FS_AddElement

LEMMA Loses ==
    ASSUME NEW S, NEW T, NEW x, IsFiniteSet(S), x \in S, T = S \ {x}
    PROVE  /\ Cardinality(S) \in Nat \ {0}
           /\ Cardinality(T) = Cardinality(S) - 1
           /\ Cardinality(T) = Minus1(Cardinality(S))
<1>1. Cardinality(S) \in Nat /\ Cardinality(T) \in Nat /\ IsFiniteSet(T)
  BY FS_CardinalityType, FS_RemoveElement
<1>2. Cardinality(T) = Cardinality(S) - 1
  BY FS_RemoveElement
<1>3. QED
  BY <1>1, <1>2 DEF Minus1

LEMMA SetsAreFinite ==
    /\ IsFiniteSet(Admitted) /\ IsFiniteSet(Waiters)
    /\ IsFiniteSet(Counted) /\ IsFiniteSet(Running)
    /\ Cardinality(Admitted) \in Nat /\ Cardinality(Waiters) \in Nat
    /\ Cardinality(Counted) \in Nat
<1>1. Admitted \subseteq Conns /\ Waiters \subseteq Conns /\ Counted \subseteq Conns /\ Running \subseteq Conns
  BY DEF Admitted, Waiters, Counted, Running
<1>2. QED
  BY <1>1, FS_Subset, FS_CardinalityType, WebConstants

-----------------------------------------------------------------------------
(* Steps of a connection and of its task.                                  *)

\* The fields of the server that say how far Start and Stop have come.
SamePhase ==
    /\ server'.queue = server.queue /\ server'.started = server.started
    /\ server'.stopping = server.stopping /\ server'.closed = server.closed
    /\ server'.listener = server.listener /\ server'.workers = server.workers

InService == {"serving", "matched", "submitting", "waiting", "handling", "closing"}

(* What a step within the service of one connection must not disturb.      *)
LEMMA ServiceStep ==
    ASSUME WebType, Places, NEW c \in Conns, SamePhase,
           UNCHANGED <<listener, work, worker, stop>>,
           conn' \in [Conns -> ConnPlaces], task' \in [Conns -> TaskPlaces],
           \A d \in Conns : d # c => conn'[d] = conn[d] /\ task'[d] = task[d],
           \/ conn[c] \in InService /\ conn'[c] \in InService
           \/ conn'[c] = conn[c] /\ task[c] \notin {"none", "returned"},
           task'[c] = "counted" => conn'[c] = "submitting",
           task'[c] \in {"queued", "entered", "running"} =>
               conn'[c] \in {"handling", "closing", "gone"},
           IF server.queue THEN conn'[c] # "waiting"
           ELSE /\ task'[c] \notin {"counted", "queued", "sent"}
                /\ task'[c] \in {"entered", "running"} => gate'.holder = c,
           ~server.queue => \A d \in Conns : d # c /\ gate.holder = d => gate'.holder = d
    PROVE  Places'
<1>1. ~Quiet
  BY DEF Quiet, InService
<1>2. NotBegun'
  BY DEF Places, NotBegun, SamePhase, InService
<1>3. ConnsAreHeld'
  <2>1. \A i \in 1 .. Len(work) : work[i] \in Conns /\ conn[work[i]] = "queued"
    BY LenProperties DEF Places, ConnsAreHeld, WebType
  <2>2. \A d \in Conns : conn[d] \in {"queued", "admitted"} => conn'[d] = conn[d]
    BY DEF InService
  <2>3. QED
    BY <2>1, <2>2 DEF Places, ConnsAreHeld
<1>4. TasksAreOfRequests'
  BY DEF Places, TasksAreOfRequests
<1>5. GateIsHeld'
  BY DEF Places, GateIsHeld, SamePhase
<1>6. DrainKnows'
  BY <1>1 DEF Places, DrainKnows, SamePhase
<1>7. QED
  BY <1>2, <1>3, <1>4, <1>5, <1>6 DEF Places

(* A set that differs from S in the membership of one element at most.     *)
LEMMA Moves ==
    ASSUME NEW S, NEW T, NEW x, IsFiniteSet(S), S \ {x} = T \ {x}
    PROVE  /\ x \notin S /\ x \in T => Cardinality(T) = Cardinality(S) + 1
           /\ x \in S /\ x \notin T => /\ Cardinality(S) \in Nat \ {0}
                                       /\ Cardinality(T) = Cardinality(S) - 1
                                       /\ Cardinality(T) = Minus1(Cardinality(S))
           /\ (x \in S) = (x \in T) => Cardinality(T) = Cardinality(S)
<1>1. x \notin S /\ x \in T => T = S \cup {x}
  OBVIOUS
<1>2. x \in S /\ x \notin T => T = S \ {x}
  OBVIOUS
<1>3. (x \in S) = (x \in T) => T = S
  OBVIOUS
<1>4. QED
  BY <1>1, <1>2, <1>3, Gains, Loses

\* The places of a task that is counted.
CountedPlaces == {"counted", "queued", "entered", "running", "sent"}

(* The counts after a step within the service of one connection.           *)
LEMMA ServiceCounts ==
    ASSUME WebType, CountsAreExact, NEW c \in Conns, SamePhase,
           \A d \in Conns : d # c => conn'[d] = conn[d] /\ task'[d] = task[d],
           \/ conn[c] \in InService /\ conn'[c] \in InService
           \/ conn'[c] = conn[c],
           server'.active_connections = server.active_connections,
           \/ task[c] \notin CountedPlaces /\ task'[c] \in CountedPlaces /\ handlers' = handlers + 1
           \/ task[c] \in CountedPlaces /\ task'[c] \notin CountedPlaces /\ handlers' = handlers - 1
           \/ (task[c] \in CountedPlaces <=> task'[c] \in CountedPlaces) /\ handlers' = handlers,
           ~server.queue /\ ~server.stopping =>
              \/ c \notin Waiters /\ c \in Waiters' /\ server'.pending = server.pending + 1
              \/ c \in Waiters /\ c \notin Waiters' /\ server'.pending = Minus1(server.pending)
              \/ (c \in Waiters <=> c \in Waiters') /\ server'.pending = server.pending
    PROVE  CountsAreExact'
<1>1. Admitted' = Admitted
  BY DEF Admitted, InService
<1>2. Counted \ {c} = Counted' \ {c} /\ Waiters \ {c} = Waiters' \ {c}
  BY DEF Counted, Waiters
<1>3. handlers' = Cardinality(Counted')
  <2>1. (c \in Counted <=> task[c] \in CountedPlaces) /\ (c \in Counted' <=> task'[c] \in CountedPlaces)
    BY DEF Counted, CountedPlaces
  <2>2. QED
    BY <1>2, <2>1, SetsAreFinite, Moves DEF CountsAreExact
<1>4. ~server'.queue /\ ~server'.stopping => server'.pending = Cardinality(Waiters')
  BY <1>2, SetsAreFinite, Moves DEF CountsAreExact, SamePhase
<1>5. QED
  BY <1>1, <1>3, <1>4 DEF CountsAreExact

(* The end of a request gives its admission back, if it holds one.         *)
LEMMA EndRequestKeeps ==
    ASSUME WebType, NEW c \in Conns, EndRequest(c)
    PROVE  /\ server' \in ServerFields /\ SamePhase
           /\ server'.active_connections = server.active_connections
           /\ ~server.queue => server'.pending = IF c \in Waiters THEN Minus1(server.pending)
                                                 ELSE server.pending
BY FinishKeeps DEF WebType, EndRequest, SamePhase

(* The steps of a connection's future.                                     *)
LEMMA ConnectionStep ==
    ASSUME WebInv, NEW c \in Conns, Connection(c)
    PROVE  WebInv'
<1> USE DEF WebInv, WebType
<1>0. server \in ServerFields /\ server.pending \in Nat /\ server.active_connections \in Nat
  BY DEF ServerFields
<1>1. CASE dispatch_with_key(c)
  <2>1. WebType' /\ SamePhase /\ conn[c] = "serving" /\ conn'[c] = "matched"
    BY <1>1 DEF dispatch_with_key, ConnGoto, SamePhase, ConnPlaces
  <2>2. Places'
    BY <1>1, <2>1, ServiceStep DEF dispatch_with_key, ConnGoto, InService, Places, GateIsHeld, TasksAreOfRequests
  <2>3. CountsAreExact'
    BY <1>1, <2>1, ServiceCounts DEF dispatch_with_key, ConnGoto, InService, Waiters
  <2>4. QED
    BY <2>1, <2>2, <2>3
<1>2. CASE try_begin_handler(c)
  <2>1. WebType' /\ SamePhase /\ conn[c] = "matched"
    <3>1. server' \in ServerFields /\ SamePhase
      BY <1>0, <1>2 DEF try_begin_handler, TryBegin, SamePhase, ServerFields
    <3>2. QED
      BY <1>2, <3>1 DEF try_begin_handler, TryBegin, ConnGoto, ConnPlaces
  <2>2. /\ server'.active_connections = server.active_connections /\ ~server.queue
        /\ \/ conn'[c] = "serving" /\ server'.pending = server.pending
           \/ conn'[c] = "waiting" /\ server'.pending = server.pending + 1
    BY <1>0, <1>2 DEF try_begin_handler, TryBegin, ConnGoto, ServerFields
  <2>3. Places'
    BY <1>2, <2>1, <2>2, ServiceStep DEF try_begin_handler, TryBegin, ConnGoto, InService, Places, GateIsHeld, TasksAreOfRequests
  <2>4. CountsAreExact'
    BY <1>2, <2>1, <2>2, ServiceCounts DEF try_begin_handler, TryBegin, ConnGoto, InService, Waiters
  <2>5. QED
    BY <2>1, <2>3, <2>4
<1>3. CASE acquire_owned(c)
  <2>1. /\ WebType' /\ SamePhase /\ conn[c] = "waiting" /\ conn'[c] = "handling"
        /\ task'[c] = "entered" /\ gate.holder = None /\ gate'.holder = c
    <3>1. /\ SamePhase /\ conn[c] = "waiting" /\ gate.holder = None
          /\ UNCHANGED <<server, listener, work, worker, stop>>
      BY <1>3 DEF acquire_owned, HasTurn, SamePhase
    <3>2. conn' \in [Conns -> ConnPlaces] /\ conn'[c] = "handling"
      BY <1>3 DEF acquire_owned, ConnGoto, ConnPlaces
    <3>3. task' \in [Conns -> TaskPlaces] /\ task'[c] = "entered" /\ handlers' \in Nat
      BY <1>3 DEF acquire_owned, TaskPlaces
    <3>4. gate' \in [holder : Conns \cup {None}, closed : BOOLEAN] /\ gate'.holder = c
      BY <1>3 DEF acquire_owned
    <3>5. QED
      BY <3>1, <3>2, <3>3, <3>4
  <2>2. ~server.queue /\ task[c] \notin CountedPlaces
    BY <2>1 DEF Places, GateIsHeld, TasksAreOfRequests, CountedPlaces
  <2>3. Places'
    <3>1. /\ UNCHANGED <<listener, work, worker, stop>>
          /\ conn' \in [Conns -> ConnPlaces] /\ task' \in [Conns -> TaskPlaces]
          /\ \A d \in Conns : d # c => conn'[d] = conn[d] /\ task'[d] = task[d]
      BY <1>3, <2>1 DEF acquire_owned, ConnGoto
    <3>2. \A d \in Conns : gate.holder # d
      BY <2>1, WebConstants
    <3>3. conn[c] \in InService /\ conn'[c] \in InService
      BY <2>1 DEF InService
    <3>4. QED
      BY <2>1, <2>2, <3>1, <3>2, <3>3, ServiceStep
  <2>4. CountsAreExact'
    BY <1>3, <2>1, <2>2, ServiceCounts DEF acquire_owned, ConnGoto, InService, Waiters, CountedPlaces
  <2>5. QED
    BY <2>1, <2>3, <2>4
<1>4. CASE LosesTurn(c) \/ ConnEnds(c)
  <2>1. /\ WebType' /\ EndRequest(c) /\ conn[c] \in InService \ {"closing"}
        /\ \/ conn[c] = "waiting" /\ conn'[c] = "serving"
           \/ conn'[c] = "closing"
    BY <1>0, <1>4, EndRequestKeeps DEF LosesTurn, ConnEnds, ConnGoto, ConnPlaces, InService
  <2>2. SamePhase
    BY <2>1, EndRequestKeeps
  <2>3. Places'
    BY <1>4, <2>1, <2>2, ServiceStep DEF LosesTurn, ConnEnds, ConnGoto, InService, Places, GateIsHeld, TasksAreOfRequests
  <2>4. CountsAreExact'
    <3>1. c \notin Waiters'
      BY <2>1 DEF Waiters
    <3>2. QED
      BY <1>4, <2>1, <2>2, <3>1, EndRequestKeeps, ServiceCounts DEF LosesTurn, ConnEnds, ConnGoto, InService
  <2>5. QED
    BY <2>1, <2>3, <2>4
<1>5. CASE CountsTask(c)
  <2>1. /\ WebType' /\ SamePhase /\ server.queue /\ conn[c] = "matched" /\ conn'[c] = "submitting"
        /\ task'[c] = "counted"
    <3>1. server.queue /\ SamePhase
      BY <1>5 DEF CountsTask, SamePhase
    <3>2. conn[c] = "matched" /\ conn'[c] = "submitting" /\ conn' \in [Conns -> ConnPlaces]
      BY <1>5 DEF CountsTask, ConnGoto, ConnPlaces
    <3>3. task' \in [Conns -> TaskPlaces] /\ task'[c] = "counted" /\ handlers' \in Nat
      BY <1>5 DEF CountsTask, TaskPlaces
    <3>4. QED
      BY <1>5, <3>1, <3>2, <3>3 DEF CountsTask
  <2>2. task[c] \notin CountedPlaces
    BY <1>5, <2>1 DEF CountsTask, Places, TasksAreOfRequests, CountedPlaces
  <2>3. Places'
    BY <1>5, <2>1, <2>2, ServiceStep DEF CountsTask, ConnGoto, InService
  <2>4. CountsAreExact'
    BY <1>5, <2>1, <2>2, ServiceCounts DEF CountsTask, ConnGoto, InService, CountedPlaces
  <2>5. QED
    BY <2>1, <2>3, <2>4
<1>6. CASE submit_with(c)
  <2>1. /\ SamePhase /\ server.queue /\ conn[c] = "submitting" /\ task[c] = "counted"
        /\ \/ task'[c] = "queued" /\ conn'[c] = "handling" /\ handlers' = handlers
           \/ task'[c] = "none" /\ conn'[c] = "serving" /\ handlers' = handlers - 1
    <3>1. task[c] = "counted" /\ SamePhase
      BY <1>6 DEF submit_with, SamePhase
    <3>2. server.queue /\ conn[c] = "submitting"
      BY <3>1 DEF Places, TasksAreOfRequests, GateIsHeld
    <3>3. QED
      BY <1>6, <3>1, <3>2 DEF submit_with, ConnGoto, Uncount
  <2>2. WebType'
    <3>1. conn' \in [Conns -> ConnPlaces] /\ task' \in [Conns -> TaskPlaces]
      BY <1>6 DEF submit_with, ConnGoto, ConnPlaces, TaskPlaces
    <3>2. handlers' \in Nat
      <4>1. c \in Counted
        BY <2>1 DEF Counted
      <4>2. Cardinality(Counted) \in Nat \ {0}
        BY <4>1, SetsAreFinite, Loses
      <4>3. QED
        BY <2>1, <4>2 DEF CountsAreExact
    <3>3. QED
      BY <1>6, <3>1, <3>2 DEF submit_with
  <2>3. Places'
    BY <1>6, <2>1, <2>2, ServiceStep DEF submit_with, ConnGoto, InService
  <2>4. CountsAreExact'
    BY <1>6, <2>1, <2>2, ServiceCounts DEF submit_with, ConnGoto, InService, CountedPlaces
  <2>5. QED
    BY <2>2, <2>3, <2>4
<1>7. CASE finish_handler_response(c)
  <2>1. WebType' /\ EndRequest(c) /\ conn[c] = "handling" /\ conn'[c] = "serving"
    BY <1>0, <1>7, EndRequestKeeps DEF finish_handler_response, ConnGoto, ConnPlaces, TaskPlaces
  <2>2. SamePhase /\ c \in Waiters /\ c \notin Waiters'
    BY <2>1, EndRequestKeeps DEF Waiters
  <2>3. \/ task[c] = "sent" /\ task'[c] = "sent"
        \/ task[c] = "returned" /\ task'[c] = "none"
    BY <1>7 DEF finish_handler_response
  <2>4. Places'
    BY <1>7, <2>1, <2>2, <2>3, ServiceStep DEF finish_handler_response, ConnGoto, InService, Places, GateIsHeld
  <2>5. CountsAreExact'
    BY <1>7, <2>1, <2>2, <2>3, EndRequestKeeps, ServiceCounts DEF finish_handler_response, ConnGoto, InService, CountedPlaces
  <2>6. QED
    BY <2>1, <2>4, <2>5
<1>8. QED
  BY <1>1, <1>2, <1>3, <1>4, <1>5, <1>6, <1>7 DEF Connection

(* The steps of a handler's task.                                          *)
LEMMA TaskStep ==
    ASSUME WebInv, NEW c \in Conns, Task(c)
    PROVE  WebInv'
<1> USE DEF WebInv, WebType
<1>1. /\ UNCHANGED <<server, listener, work, worker, conn, stop>>
      /\ SamePhase /\ Waiters' = Waiters
      /\ task' \in [Conns -> TaskPlaces]
      /\ \A d \in Conns : d # c => task'[d] = task[d]
  BY DEF Task, QueueRuns, QueueDrops, bn_server_handler, HandlerSends, HandlerReturns, SamePhase, Waiters, TaskPlaces
<1>2. /\ task[c] \notin {"none", "returned"} /\ task[c] \in CountedPlaces
      /\ \/ task[c] \in {"queued", "entered"} /\ task'[c] \in {"entered", "running"} /\ UNCHANGED <<handlers, gate>>
         \/ server.queue /\ task'[c] = "sent" /\ UNCHANGED <<handlers, gate>>
         \/ task'[c] = "returned" /\ handlers' = handlers - 1
  <2>1. CASE QueueRuns(c) \/ bn_server_handler(c)
    <3>1. UNCHANGED <<handlers, gate>>
      BY <2>1 DEF QueueRuns, bn_server_handler
    <3>2. task[c] \in {"queued", "entered"} /\ task'[c] \in {"entered", "running"}
      BY <2>1 DEF QueueRuns, bn_server_handler
    <3>3. QED
      BY <3>1, <3>2 DEF CountedPlaces
  <2>2. CASE HandlerSends(c)
    <3>1. server.queue
      BY <2>2 DEF HandlerSends
    <3>2. task[c] = "running" /\ task'[c] = "sent" /\ UNCHANGED <<handlers, gate>>
      BY <2>2 DEF HandlerSends
    <3>3. QED
      BY <3>1, <3>2 DEF CountedPlaces
  <2>3. CASE QueueDrops(c) \/ HandlerReturns(c)
    BY <2>3 DEF QueueDrops, HandlerReturns, Uncount, CountedPlaces
  <2>4. QED
    BY <2>1, <2>2, <2>3 DEF Task
<1>3. CountsAreExact'
  BY <1>1, <1>2, ServiceCounts DEF CountedPlaces
<1>4. gate' \in [holder : Conns \cup {None}, closed : BOOLEAN] /\ \A d \in Conns : d # c /\ gate.holder = d => gate'.holder = d
  BY <1>1 DEF Task, QueueRuns, QueueDrops, bn_server_handler, HandlerSends, HandlerReturns
<1>5. Places'
  BY <1>1, <1>2, <1>4, ServiceStep DEF Places, GateIsHeld, TasksAreOfRequests
<1>6. WebType'
  <2>1. handlers' \in Nat
    BY <1>1, <1>3, SetsAreFinite, FS_CardinalityType, FS_Subset, WebConstants DEF CountsAreExact, Counted
  <2>2. QED
    BY <1>1, <1>4, <2>1
<1>7. QED
  BY <1>3, <1>5, <1>6

-----------------------------------------------------------------------------
(* Steps of Start, Stop and Close.                                         *)

(* A step of the program's thread moves no connection and no task.         *)
LEMMA DrainCounts ==
    ASSUME WebType, CountsAreExact, server' \in ServerFields, UNCHANGED <<handlers, conn, task>>,
           server'.active_connections = server.active_connections,
           ~server'.queue /\ ~server'.stopping =>
              ~server.queue /\ ~server.stopping /\ server'.pending = server.pending
    PROVE  CountsAreExact'
<1>1. Admitted' = Admitted /\ Counted' = Counted /\ Waiters' = Waiters
  BY DEF Admitted, Counted, Waiters
<1>2. QED
  BY <1>1 DEF CountsAreExact

(* UseQueue and Start, before anything has happened.                       *)
LEMMA StartStep ==
    ASSUME WebInv, use_queue \/ start_with_options \/ install_worker_pool_fails
    PROVE  WebInv'
<1> USE DEF WebInv, WebType
<1>1. /\ ~server.started /\ ~server.stopping /\ ~server.closed /\ stop.pc = "idle"
      /\ UNCHANGED <<gate, handlers, work, conn, task, stop>>
  BY DEF use_queue, start_with_options, install_worker_pool_fails, threads
<1>2. /\ server' \in ServerFields
      /\ server'.active_connections = server.active_connections
      /\ server'.pending = server.pending
      /\ server'.stopping = server.stopping
      /\ server'.closed = server.closed
  BY DEF use_queue, start_with_options, install_worker_pool_fails, ServerFields
<1>3. /\ listener.pc = "none" /\ work = <<>>
      /\ \A w \in Workers : worker[w].pc = "none"
      /\ \A c \in Conns : conn[c] = "new" /\ task[c] = "none"
  BY <1>1 DEF Places, NotBegun
<1>4. stop.result # "ok"
  BY <1>1 DEF Places, DrainKnows
<1>5. CASE use_queue
  <2>1. /\ UNCHANGED <<listener, worker>> /\ server'.started = server.started
        /\ server'.listener = server.listener /\ server'.workers = server.workers
    BY <1>5 DEF use_queue, threads, ServerFields
  <2>2. server'.queue
    BY <1>5 DEF use_queue, ServerFields
  <2>3. CountsAreExact'
    BY <1>1, <1>2, <2>2, DrainCounts
  <2>4. Places'
    BY <1>1, <1>2, <1>3, <1>4, <2>1, <2>2 DEF Places, NotBegun, ConnsAreHeld, TasksAreOfRequests, GateIsHeld, DrainKnows
  <2>5. QED
    BY <1>1, <1>2, <2>1, <2>3, <2>4
<1>6. CASE start_with_options
  <2>1. /\ server'.workers = Workers /\ server'.queue = server.queue
        /\ worker' = [w \in Workers |-> [pc |-> "idle", conn |-> None]]
        /\ listener'.pc = "check" /\ listener' \in ListenerFields
    BY <1>6 DEF start_with_options, ServerFields, ListenerFields
  <2>2. server'.started /\ server'.listener
    BY <1>6 DEF start_with_options, ServerFields
  <2>3. worker' \in [Workers -> WorkerFields]
    BY <2>1 DEF WorkerFields
  <2>4. CountsAreExact'
    BY <1>1, <1>2, <2>1, DrainCounts
  <2>5. Places'
    BY <1>1, <1>2, <1>3, <1>4, <2>1, <2>2 DEF Places, NotBegun, ConnsAreHeld, TasksAreOfRequests, GateIsHeld, DrainKnows
  <2>6. QED
    BY <1>1, <1>2, <2>1, <2>3, <2>4, <2>5
<1>7. CASE install_worker_pool_fails
  <2>1. /\ UNCHANGED <<listener, worker>> /\ server'.queue = server.queue
        /\ server'.listener = server.listener /\ server'.workers = server.workers
    BY <1>7 DEF install_worker_pool_fails, ServerFields
  <2>2. CountsAreExact'
    BY <1>1, <1>2, <2>1, DrainCounts
  <2>3. Places'
    BY <1>1, <1>2, <1>3, <1>4, <2>1 DEF Places, NotBegun, ConnsAreHeld, TasksAreOfRequests, GateIsHeld, DrainKnows
  <2>4. QED
    BY <1>1, <1>2, <2>1, <2>2, <2>3
<1>8. QED
  BY <1>5, <1>6, <1>7

(* What the steps of Stop and Close up to the join have in common: they    *)
(* move nothing, and what they tell of the server is right afterwards.     *)
LEMMA StopKeeps ==
    ASSUME WebInv, server' \in ServerFields, stop' \in StopFields,
           UNCHANGED <<handlers, listener, work, worker, conn, task>>,
           gate' \in [holder : Conns \cup {None}, closed : BOOLEAN], gate'.holder = gate.holder,
           server'.active_connections = server.active_connections,
           server'.queue = server.queue, server'.stopping,
           DrainKnows'
    PROVE  WebInv'
<1> USE DEF WebInv, WebType
<1>1. CountsAreExact'
  BY DrainCounts
<1>2. Places'
  BY DEF Places, NotBegun, ConnsAreHeld, TasksAreOfRequests, GateIsHeld
<1>3. QED
  BY <1>1, <1>2

(* begin_stop, cancel_connections, take_listener, Expires, join.           *)
LEMMA StopStep ==
    ASSUME WebInv,
           \/ \E close \in BOOLEAN : begin_stop(close)
           \/ cancel_connections \/ take_listener \/ Expires \/ join
    PROVE  WebInv'
<1> USE DEF WebInv, WebType
<1>0. DrainKnows
  BY DEF Places
<1>1. ASSUME NEW close \in BOOLEAN, begin_stop(close) PROVE WebInv'
  <2>1. /\ stop' \in StopFields /\ stop'.result = "none" /\ stop'.pc \in {"runtime", "take"}
        /\ UNCHANGED <<gate, handlers, listener, work, worker, conn, task>>
    BY <1>1 DEF begin_stop, StopFields, threads
  <2>2. server' \in ServerFields
    BY <1>1 DEF begin_stop, ServerFields
  <2>3. /\ server'.active_connections = server.active_connections
        /\ server'.queue = server.queue /\ server'.closed = server.closed
        /\ server'.workers = server.workers /\ server'.listener = server.listener
    BY <1>1 DEF begin_stop, ServerFields
  <2>4. server'.stopping
    BY <1>0, <1>1 DEF begin_stop, ServerFields, DrainKnows
  <2>5. stop.pc = "idle"
    BY <1>1 DEF begin_stop
  <2>6. DrainKnows'
    BY <1>0, <2>1, <2>3, <2>4, <2>5 DEF DrainKnows, Quiet
  <2>7. QED
    BY <2>1, <2>2, <2>3, <2>4, <2>6, StopKeeps
<1>2. CASE cancel_connections
  <2>1. /\ stop' \in StopFields /\ stop'.result = stop.result
        /\ stop.pc = "runtime" /\ stop'.pc = "take"
        /\ UNCHANGED <<handlers, listener, work, worker, conn, task>>
    BY <1>2 DEF cancel_connections, StopGoto, StopFields, threads
  <2>2. server' \in ServerFields
    BY <1>2 DEF cancel_connections, ServerFields
  <2>3. /\ server'.active_connections = server.active_connections
        /\ server'.queue = server.queue /\ server'.closed = server.closed
        /\ server'.workers = server.workers /\ server'.listener = server.listener
        /\ server'.stopping = server.stopping
    BY <1>2 DEF cancel_connections, ServerFields
  <2>4. server.stopping
    BY <1>0, <2>1 DEF DrainKnows
  <2>5. gate' \in [holder : Conns \cup {None}, closed : BOOLEAN] /\ gate'.holder = gate.holder
    BY <1>2 DEF cancel_connections
  <2>6. DrainKnows'
    BY <1>0, <2>1, <2>3, <2>4 DEF DrainKnows, Quiet
  <2>7. QED
    BY <2>1, <2>2, <2>3, <2>4, <2>5, <2>6, StopKeeps
<1>3. CASE take_listener
  <2>1. /\ stop' \in StopFields /\ stop'.result = stop.result /\ stop.pc = "take"
        /\ stop'.pc = IF server.listener THEN "join" ELSE "finish"
        /\ UNCHANGED <<gate, handlers, listener, work, worker, conn, task>>
    BY <1>3 DEF take_listener, StopGoto, StopFields, threads
  <2>2. server' \in ServerFields
    BY <1>3 DEF take_listener, ServerFields
  <2>3. /\ server'.active_connections = server.active_connections
        /\ server'.queue = server.queue /\ server'.closed = server.closed
        /\ server'.workers = server.workers /\ server'.stopping = server.stopping
    BY <1>3 DEF take_listener, ServerFields
  <2>4. server.stopping
    BY <1>0, <2>1 DEF DrainKnows
  <2>5. DrainKnows'
    BY <1>0, <2>1, <2>3, <2>4 DEF DrainKnows, Quiet
  <2>6. QED
    BY <2>1, <2>2, <2>3, <2>4, <2>5, StopKeeps
<1>4. CASE Expires
  <2>1. /\ stop' \in StopFields /\ stop'.result = stop.result /\ stop'.pc = stop.pc /\ stop.pc # "idle"
        /\ UNCHANGED <<server, gate, handlers, listener, work, worker, conn, task>>
    BY <1>4 DEF Expires, StopFields, threads
  <2>2. server.stopping
    BY <1>0, <2>1 DEF DrainKnows
  <2>3. DrainKnows'
    BY <1>0, <2>1 DEF DrainKnows, Quiet
  <2>4. QED
    BY <2>1, <2>2, <2>3, StopKeeps
<1>5. CASE join
  <2>1. /\ stop.pc = "join" /\ UNCHANGED <<gate, handlers, listener, work, worker, conn, task>>
    BY <1>5 DEF join, threads
  <2>2. server.stopping
    BY <1>0, <2>1 DEF DrainKnows
  <2>3. CASE listener.pc = "gone" /\ StopGoto("finish") /\ UNCHANGED server
    <3>1. stop' \in StopFields /\ stop'.result = stop.result /\ stop'.pc = "finish"
      BY <2>3 DEF StopGoto, StopFields
    <3>2. DrainKnows'
      BY <1>0, <2>1, <2>3, <3>1 DEF DrainKnows, Quiet
    <3>3. QED
      BY <2>1, <2>2, <2>3, <3>1, <3>2, StopKeeps
  <2>4. CASE JoinTimesOut
    <3>1. stop' \in StopFields /\ stop'.result = "listener" /\ stop'.pc = "idle"
      BY <2>4 DEF JoinTimesOut, Return, StopFields
    <3>2. server' \in ServerFields
      BY <2>4 DEF JoinTimesOut, ServerFields
    <3>3. /\ server'.active_connections = server.active_connections
          /\ server'.queue = server.queue /\ server'.closed = server.closed
          /\ server'.workers = server.workers /\ server'.stopping = server.stopping
      BY <2>4 DEF JoinTimesOut, ServerFields
    <3>4. server'.listener
      BY <2>4 DEF JoinTimesOut, ServerFields
    <3>5. DrainKnows'
      BY <1>0, <2>1, <2>2, <3>1, <3>3, <3>4 DEF DrainKnows, Quiet
    <3>6. QED
      BY <2>1, <2>2, <3>1, <3>2, <3>3, <3>5, StopKeeps
  <2>5. QED
    BY <1>5, <2>3, <2>4 DEF join
<1>6. QED
  BY <1>1, <1>2, <1>3, <1>4, <1>5

(* Stop finds nothing left when the counts it reads are zero.              *)
LEMMA ZeroMeansQuiet ==
    ASSUME WebInv, listener.pc \in {"none", "gone"},
           handlers = 0, server.active_connections = 0
    PROVE  Quiet
<1>1. Admitted = {} /\ Counted = {}
  BY SetsAreFinite, FS_EmptySet DEF WebInv, CountsAreExact
<1>2. QED
  BY <1>1 DEF WebInv, WebType, Quiet, Admitted, Counted, ConnPlaces, TaskPlaces

(* finish_stop and workers_finished.                                       *)
LEMMA FinishStep ==
    ASSUME WebInv, finish_stop \/ workers_finished
    PROVE  WebInv'
<1> USE DEF WebInv, WebType
<1>0. DrainKnows
  BY DEF Places
<1>a. UNCHANGED <<gate, handlers, listener, work, worker, conn, task>>
  BY DEF finish_stop, workers_finished, threads
<1>b. Unfinished \in SUBSET Workers /\ Unfinished \subseteq server.workers
  BY DEF Unfinished, ServerFields
<1>c. server.stopping
  BY <1>0 DEF DrainKnows, finish_stop, workers_finished
<1>1. CASE finish_stop
  <2>1. server' \in ServerFields
    BY <1>1, <1>b DEF finish_stop, ServerFields
  <2>2. /\ server'.active_connections = server.active_connections
        /\ server'.queue = server.queue /\ server'.closed = server.closed
        /\ server'.stopping = server.stopping /\ server'.listener = server.listener
    BY <1>1 DEF finish_stop, ServerFields
  <2>3. \A w \in Workers : worker[w].pc \notin {"none", "gone"} => w \in server'.workers
    BY <1>0, <1>1 DEF finish_stop, ServerFields, Unfinished, DrainKnows
  <2>4. listener.pc \in {"none", "gone"}
    BY <1>0, <1>1 DEF finish_stop, DrainKnows
  <2>5. stop' \in StopFields /\ stop'.pc \in {"idle", "workers"}
    BY <1>1 DEF finish_stop, FinishStop, StopGoto, Return, StopFields
  <2>6. stop'.result = "ok" => stop.result = "ok"
    BY <1>1 DEF finish_stop, FinishStop, StopGoto, Return, StopFields
  <2>7. stop'.pc = "workers" => Quiet
    <3>1. CASE server.closed
      BY <1>0, <3>1 DEF DrainKnows
    <3>2. ASSUME ~server.closed, stop'.pc = "workers"
          PROVE  handlers = 0 /\ server.active_connections = 0
      BY <1>1, <3>2 DEF finish_stop, FinishStop, StopGoto, Return, StopFields
    <3>3. QED
      BY <2>4, <3>1, <3>2, ZeroMeansQuiet
  <2>8. DrainKnows'
    BY <1>0, <1>a, <1>c, <2>2, <2>3, <2>4, <2>5, <2>6, <2>7 DEF DrainKnows, Quiet
  <2>9. QED
    BY <1>a, <1>c, <2>1, <2>2, <2>5, <2>8, StopKeeps
<1>2. CASE workers_finished
  <2>1. server' \in ServerFields
    BY <1>2, <1>b DEF workers_finished, ServerFields
  <2>2. /\ server'.active_connections = server.active_connections
        /\ server'.queue = server.queue
        /\ server'.stopping = server.stopping /\ server'.listener = server.listener
        /\ server'.workers = Unfinished
    BY <1>2 DEF workers_finished, ServerFields
  <2>3. server'.closed => server.closed \/ Unfinished = {}
    BY <1>2 DEF workers_finished, ServerFields
  <2>4. \A w \in Workers : worker[w].pc \notin {"none", "gone"} => w \in Unfinished
    BY <1>0 DEF Unfinished, DrainKnows
  <2>5. Quiet
    BY <1>0, <1>2 DEF workers_finished, DrainKnows
  <2>6. stop' \in StopFields /\ stop'.pc \in {"idle", "finish"}
    BY <1>2 DEF workers_finished, StopGoto, Return, StopFields
  <2>7. stop'.result = "ok" => stop.result = "ok" \/ Unfinished = {}
    BY <1>2 DEF workers_finished, StopGoto, Return, StopFields
  <2>8. DrainKnows'
    BY <1>0, <1>a, <1>c, <2>2, <2>3, <2>4, <2>5, <2>6, <2>7 DEF DrainKnows, Quiet
  <2>9. QED
    BY <1>a, <1>c, <2>1, <2>2, <2>6, <2>8, StopKeeps
<1>3. QED
  BY <1>1, <1>2

-----------------------------------------------------------------------------
(* Steps of the listener.                                                  *)

(* What no step of the listener disturbs: it moves one connection at most, *)
(* which has no handler.                                                   *)
LEMMA ListenerKeeps ==
    ASSUME WebType, Places, NEW c \in Conns \cup {None}, SamePhase, listener.pc \notin {"none", "gone"},
           UNCHANGED <<gate, handlers, worker, task, stop>>,
           \A d \in Conns : d # c => conn'[d] = conn[d],
           c \in Conns => conn[c] \in {"new", "admitted"} /\ conn'[c] \in {"new", "admitted", "queued", "gone"},
           ConnsAreHeld'
    PROVE  Places'
<1>1. NotBegun'
  BY DEF Places, NotBegun, SamePhase
<1>2. TasksAreOfRequests'
  BY DEF Places, TasksAreOfRequests
<1>3. GateIsHeld'
  BY DEF Places, GateIsHeld, SamePhase
<1>4. DrainKnows'
  BY DEF Places, DrainKnows, SamePhase, Quiet
<1>5. QED
  BY <1>1, <1>2, <1>3, <1>4 DEF Places

(* The channel holds connections that are queued, so none that is moved.   *)
LEMMA ChannelKeeps ==
    ASSUME WebType, Places, NEW c, work' = work,
           \A d \in Conns : d # c => conn'[d] = conn[d],
           c \in Conns => conn[c] # "queued"
    PROVE  /\ \A k \in 1 .. Len(work') : conn'[work'[k]] = "queued"
           /\ \A k, j \in 1 .. Len(work') : work'[k] = work'[j] => k = j
<1>1. \A k \in 1 .. Len(work) : work[k] \in Conns /\ conn[work[k]] = "queued"
  BY LenProperties DEF WebType, Places, ConnsAreHeld
<1>2. QED
  BY <1>1 DEF Places, ConnsAreHeld

(* A connection is admitted, or stays refused, or leaves.                  *)
LEMMA AdmissionCounts ==
    ASSUME WebType, CountsAreExact, NEW c \in Conns, SamePhase, UNCHANGED <<handlers, task>>,
           server' \in ServerFields, server'.pending = server.pending,
           \A d \in Conns : d # c => conn'[d] = conn[d],
           c \notin Waiters, c \notin Waiters',
           \/ /\ c \notin Admitted /\ c \in Admitted'
              /\ server.active_connections < ConnLimit
              /\ server'.active_connections = server.active_connections + 1
           \/ /\ c \in Admitted /\ c \notin Admitted'
              /\ server'.active_connections = Minus1(server.active_connections)
           \/ /\ c \in Admitted <=> c \in Admitted'
              /\ server'.active_connections = server.active_connections
    PROVE  CountsAreExact'
<1>1. Counted' = Counted
  BY DEF Counted
<1>2. Waiters' = Waiters
  BY DEF Waiters
<1>3. Admitted \ {c} = Admitted' \ {c}
  BY DEF Admitted
<1>4. server'.active_connections = Cardinality(Admitted') /\ server'.active_connections <= ConnLimit
  <2>0. server.active_connections = Cardinality(Admitted) /\ server.active_connections <= ConnLimit
    BY DEF CountsAreExact
  <2>1. CASE c \notin Admitted /\ c \in Admitted'
    BY <2>0, <2>1, <1>3, SetsAreFinite, Moves, WebConstants
  <2>2. CASE c \in Admitted /\ c \notin Admitted'
    BY <2>0, <2>2, <1>3, SetsAreFinite, Moves, WebConstants
  <2>3. CASE c \in Admitted <=> c \in Admitted'
    BY <2>0, <2>3, <1>3, SetsAreFinite, Moves, WebConstants
  <2>4. QED
    BY <2>1, <2>2, <2>3
<1>5. QED
  BY <1>1, <1>2, <1>4 DEF CountsAreExact, SamePhase

(* The loop itself, and the disposal of refused work: nothing moves.       *)
LEMMA LoopStep ==
    ASSUME WebInv, is_stopping \/ accept_timeout \/ DisposeWork
    PROVE  WebInv'
<1> USE DEF WebInv, WebType
<1>1. /\ UNCHANGED <<server, gate, handlers, work, worker, conn, task, stop>>
      /\ listener.pc \notin {"none", "gone"}
  BY DEF is_stopping, accept_timeout, DisposeWork
<1>2. /\ listener' \in ListenerFields
      /\ \/ listener'.pc \in {"check", "accept", "gone"}
         \/ listener.pc = "dispose" /\ listener'.conn = listener.conn
  BY DEF is_stopping, accept_timeout, DisposeWork, ListenerGoto, ListenerFields
<1>3. SamePhase
  BY <1>1 DEF SamePhase
<1>4. ConnsAreHeld'
  BY <1>1, <1>2 DEF Places, ConnsAreHeld
<1>5. Places'
  BY <1>1, <1>3, <1>4, WebConstants, ListenerKeeps
<1>6. CountsAreExact'
  BY <1>1, DrainCounts
<1>7. QED
  BY <1>1, <1>2, <1>5, <1>6

(* An admission, and a refusal.                                            *)
LEMMA AdmitStep ==
    ASSUME WebInv, NEW c \in Conns, admit_connection(c)
    PROVE  WebInv'
<1> USE DEF WebInv, WebType
<1>0. server.active_connections \in Nat /\ server.active_sockets \in Seq(Conns)
  BY DEF ServerFields
<1>1. /\ UNCHANGED <<gate, handlers, work, worker, task, stop>>
      /\ listener.pc = "accept" /\ conn[c] = "new"
  BY DEF admit_connection
<1>2. \A d \in Conns : d # c => conn'[d] = conn[d]
  BY DEF admit_connection, AdmitsAndTracks, Refuses
<1>3. CASE AdmitsAndTracks(c)
  <2>1. /\ conn' \in [Conns -> ConnPlaces] /\ conn'[c] = "admitted"
        /\ listener' \in ListenerFields /\ listener'.conn = c
    BY <1>3 DEF AdmitsAndTracks, ListenerGoto, ListenerFields, ConnPlaces
  <2>2. server' \in ServerFields
    <3>1. Append(server.active_sockets, c) \in Seq(Conns) /\ server.active_connections + 1 \in Nat
      BY <1>0, AppendProperties
    <3>2. server' = [server EXCEPT !.active_connections = server.active_connections + 1,
                                   !.active_sockets = Append(server.active_sockets, c)]
      BY <1>3 DEF AdmitsAndTracks
    <3>3. QED
      BY <3>1, <3>2 DEF ServerFields
  <2>3. SamePhase /\ server'.pending = server.pending
    BY <1>3 DEF AdmitsAndTracks, SamePhase, ServerFields
  <2>4. /\ server'.active_connections = server.active_connections + 1
        /\ server.active_connections < ConnLimit
    BY <1>3 DEF AdmitsAndTracks, ServerFields
  <2>5. ConnsAreHeld'
    <3>1. /\ \A k \in 1 .. Len(work') : conn'[work'[k]] = "queued"
          /\ \A k, j \in 1 .. Len(work') : work'[k] = work'[j] => k = j
      BY <1>1, <1>2, ChannelKeeps
    <3>2. QED
      BY <1>1, <2>1, <3>1 DEF ConnsAreHeld, Places
  <2>6. Places'
    BY <1>1, <1>2, <2>1, <2>3, <2>5, ListenerKeeps
  <2>7. CountsAreExact'
    BY <1>1, <1>2, <2>1, <2>2, <2>3, <2>4, AdmissionCounts DEF Waiters, Admitted
  <2>8. QED
    BY <1>1, <2>1, <2>2, <2>6, <2>7
<1>4. CASE Refuses(c)
  <2>1. /\ conn' \in [Conns -> ConnPlaces] /\ conn'[c] = "gone"
        /\ listener' \in ListenerFields /\ listener'.pc = "check"
    BY <1>4 DEF Refuses, ListenerGoto, ListenerFields, ConnPlaces
  <2>2. /\ server' \in ServerFields /\ SamePhase /\ server'.pending = server.pending
        /\ server'.active_connections = server.active_connections
    <3> DEFINE t == [server EXCEPT !.active_connections = @ + 1]
    <3>1. server' = release_connection(t) \/ server' = server
      BY <1>4 DEF Refuses
    <3>2. /\ t \in ServerFields /\ Minus1(t.active_connections) = server.active_connections
          /\ t.pending = server.pending
          /\ t.queue = server.queue /\ t.started = server.started
          /\ t.stopping = server.stopping /\ t.closed = server.closed
          /\ t.listener = server.listener /\ t.workers = server.workers
      BY AdmitKeeps
    <3> HIDE DEF t
    <3>3. QED
      BY <3>1, <3>2, ReleaseKeeps DEF SamePhase
  <2>3. ConnsAreHeld'
    <3>1. /\ \A k \in 1 .. Len(work') : conn'[work'[k]] = "queued"
          /\ \A k, j \in 1 .. Len(work') : work'[k] = work'[j] => k = j
      BY <1>1, <1>2, ChannelKeeps
    <3>2. QED
      BY <1>1, <2>1, <3>1 DEF ConnsAreHeld, Places
  <2>4. Places'
    BY <1>1, <1>2, <2>1, <2>2, <2>3, ListenerKeeps
  <2>5. CountsAreExact'
    BY <1>1, <1>2, <2>1, <2>2, AdmissionCounts DEF Waiters, Admitted
  <2>6. QED
    BY <1>1, <2>1, <2>2, <2>4, <2>5
<1>5. QED
  BY <1>3, <1>4 DEF admit_connection

(* The listener gives an admission back.                                   *)
LEMMA GiveBackStep ==
    ASSUME WebInv, listener.pc \in {"runtime", "release"},
           server' = release_connection(server),
           conn' = [conn EXCEPT ![listener.conn] = "gone"],
           ListenerGoto("check", None),
           UNCHANGED <<gate, handlers, work, worker, task, stop>>
    PROVE  WebInv'
<1> USE DEF WebInv, WebType
<1> DEFINE c == listener.conn
<1>1. c \in Conns /\ conn[c] = "admitted"
  BY DEF Places, ConnsAreHeld
<1>2. /\ conn' \in [Conns -> ConnPlaces] /\ conn'[c] = "gone"
      /\ \A d \in Conns : d # c => conn'[d] = conn[d]
      /\ listener' \in ListenerFields /\ listener'.pc = "check"
  BY <1>1 DEF ListenerGoto, ListenerFields, ConnPlaces
<1> HIDE DEF c
<1>3. /\ server' \in ServerFields /\ SamePhase /\ server'.pending = server.pending
      /\ server'.active_connections = Minus1(server.active_connections)
  BY ReleaseKeeps DEF SamePhase
<1>4. ConnsAreHeld'
  <2>1. /\ \A k \in 1 .. Len(work') : conn'[work'[k]] = "queued"
        /\ \A k, j \in 1 .. Len(work') : work'[k] = work'[j] => k = j
    BY <1>1, <1>2, ChannelKeeps
  <2>2. QED
    BY <1>2, <2>1 DEF ConnsAreHeld, Places
<1>5. Places'
  BY <1>1, <1>2, <1>3, <1>4, ListenerKeeps
<1>6. CountsAreExact'
  BY <1>1, <1>2, <1>3, AdmissionCounts DEF Waiters, Admitted
<1>7. QED
  BY <1>2, <1>3, <1>5, <1>6

(* The connection is handed to the workers, or refused.                    *)
LEMMA SubmitStep ==
    ASSUME WebInv, submit_connection_work
    PROVE  WebInv'
<1> USE DEF WebInv, WebType
<1> DEFINE c == listener.conn
<1>1. /\ UNCHANGED <<server, gate, handlers, worker, task, stop>> /\ SamePhase
      /\ listener.pc = "submit" /\ c \in Conns /\ conn[c] = "admitted"
  BY DEF submit_connection_work, Places, ConnsAreHeld, SamePhase
<1>2. CASE /\ work' = Append(work, c) /\ conn' = [conn EXCEPT ![c] = "queued"]
           /\ ListenerGoto("check", None)
  <2>1. /\ conn' \in [Conns -> ConnPlaces] /\ conn'[c] = "queued"
        /\ \A d \in Conns : d # c => conn'[d] = conn[d]
        /\ listener' \in ListenerFields /\ listener'.pc = "check"
    BY <1>1, <1>2 DEF ListenerGoto, ListenerFields, ConnPlaces
  <2> HIDE DEF c
  <2>2. /\ work' \in Seq(Conns) /\ Len(work') = Len(work) + 1 /\ Len(work) \in Nat
        /\ \A k \in 1 .. Len(work) : work'[k] = work[k]
        /\ work'[Len(work) + 1] = c
    BY <1>1, <1>2, AppendProperties, LenProperties
  <2>3. \A k \in 1 .. Len(work) : work[k] \in Conns /\ conn[work[k]] = "queued"
    BY LenProperties DEF Places, ConnsAreHeld
  <2>4. \A k \in 1 .. Len(work') : k \in 1 .. Len(work) \/ k = Len(work) + 1
    BY <2>2
  <2>5. \A k \in 1 .. Len(work') : conn'[work'[k]] = "queued"
    BY <1>1, <2>1, <2>2, <2>3, <2>4
  <2>6. \A k, j \in 1 .. Len(work') : work'[k] = work'[j] => k = j
    BY <1>1, <2>2, <2>3, <2>4 DEF Places, ConnsAreHeld
  <2>7. ConnsAreHeld'
    BY <1>1, <2>1, <2>5, <2>6 DEF Places, ConnsAreHeld
  <2>8. Places'
    BY <1>1, <2>1, <2>7, ListenerKeeps
  <2>9. CountsAreExact'
    BY <1>1, <2>1, AdmissionCounts DEF Waiters, Admitted
  <2>10. QED
    BY <1>1, <2>1, <2>2, <2>8, <2>9
<1>3. CASE ListenerGoto("dispose", c) /\ UNCHANGED <<work, conn>>
  <2>1. listener' \in ListenerFields /\ listener'.conn = c
    BY <1>1, <1>3 DEF ListenerGoto, ListenerFields
  <2> HIDE DEF c
  <2>2. ConnsAreHeld'
    BY <1>1, <1>3, <2>1 DEF Places, ConnsAreHeld
  <2>3. Places'
    BY <1>1, <1>3, <2>2, ListenerKeeps
  <2>4. CountsAreExact'
    BY <1>1, <1>3, DrainCounts
  <2>5. QED
    BY <1>1, <1>3, <2>1, <2>3, <2>4
<1>4. QED
  BY <1>2, <1>3 DEF submit_connection_work

LEMMA ListenerStep ==
    ASSUME WebInv, Listener
    PROVE  WebInv'
<1>1. CASE http_runtime /\ server.runtime
  <2> USE DEF WebInv, WebType
  <2>1. /\ UNCHANGED <<server, gate, handlers, work, worker, conn, task, stop>> /\ SamePhase
        /\ listener.pc = "runtime" /\ ListenerGoto("submit", listener.conn)
    BY <1>1 DEF http_runtime, SamePhase
  <2>2. listener' \in ListenerFields /\ listener'.conn = listener.conn
    BY <2>1 DEF ListenerGoto, ListenerFields
  <2>3. ConnsAreHeld'
    BY <2>1, <2>2 DEF Places, ConnsAreHeld
  <2>4. Places'
    BY <2>1, <2>3, WebConstants, ListenerKeeps
  <2>5. CountsAreExact'
    BY <2>1, DrainCounts
  <2>6. QED
    BY <2>1, <2>2, <2>4, <2>5
<1>2. CASE http_runtime /\ ~server.runtime
  BY <1>2, GiveBackStep DEF http_runtime
<1>3. CASE ReleaseRefused
  BY <1>3, GiveBackStep DEF ReleaseRefused
<1>4. QED
  BY <1>1, <1>2, <1>3, LoopStep, AdmitStep, SubmitStep DEF Listener

-----------------------------------------------------------------------------
(* Steps of the workers.                                                   *)

(* A worker that runs is one the server keeps, before and after its step;  *)
(* the connection it moves has no handler that a request waits for.        *)
LEMMA WorkerKeeps ==
    ASSUME WebType, Places, NEW w \in Workers, NEW c \in Conns, SamePhase,
           UNCHANGED <<gate, handlers, listener, task, stop>>,
           worker[w].pc \notin {"none", "gone"},
           \A v \in Workers : v # w => worker'[v] = worker[v],
           \A d \in Conns : d # c => conn'[d] = conn[d],
           \/ conn'[c] = conn[c]
           \/ conn[c] = "queued" /\ conn'[c] = "serving"
           \/ conn[c] = "closing" /\ conn'[c] = "gone",
           ConnsAreHeld'
    PROVE  Places'
<1>1. NotBegun'
  BY DEF Places, NotBegun, SamePhase
<1>2. TasksAreOfRequests'
  BY DEF Places, TasksAreOfRequests
<1>3. GateIsHeld'
  BY DEF Places, GateIsHeld, SamePhase
<1>4. DrainKnows'
  BY DEF Places, DrainKnows, SamePhase, Quiet
<1>5. QED
  BY <1>1, <1>2, <1>3, <1>4 DEF Places

(* The next work.                                                          *)
LEMMA ReceiveStep ==
    ASSUME WebInv, NEW w \in Workers, worker[w].pc = "idle", work # <<>>,
           worker' = [worker EXCEPT ![w] = [pc |-> "busy", conn |-> Head(work)]],
           conn' = [conn EXCEPT ![Head(work)] = "serving"],
           work' = Tail(work),
           UNCHANGED <<server, gate, handlers, listener, task, stop>>
    PROVE  WebInv'
<1> USE DEF WebInv, WebType
<1> DEFINE c == Head(work)
<1>1. /\ c \in Conns /\ work' \in Seq(Conns) /\ Len(work') = Len(work) - 1
      /\ \A k \in 1 .. Len(work') : work'[k] = work[k + 1]
  BY HeadTailProperties
<1>2. Len(work) \in Nat /\ Len(work) # 0 /\ c = work[1] /\ conn[c] = "queued"
  <2>1. Len(work) \in Nat /\ Len(work) # 0 /\ c = work[1]
    BY LenProperties, EmptySeq
  <2>2. QED
    BY <2>1 DEF Places, ConnsAreHeld
<1>3. /\ conn' \in [Conns -> ConnPlaces] /\ conn'[c] = "serving"
      /\ \A d \in Conns : d # c => conn'[d] = conn[d]
      /\ worker' \in [Workers -> WorkerFields] /\ worker'[w].conn = c
      /\ \A v \in Workers : v # w => worker'[v] = worker[v]
  BY <1>1 DEF ConnPlaces, WorkerFields
<1> HIDE DEF c
<1>4. SamePhase
  BY DEF SamePhase
<1>5. \A k \in 1 .. Len(work') : k + 1 \in 1 .. Len(work) /\ k + 1 # 1
  BY <1>1, <1>2
<1>6. ConnsAreHeld'
  <2>1. \A k \in 1 .. Len(work') : work'[k] \in Conns /\ work'[k] # c
    BY <1>1, <1>2, <1>5, LenProperties DEF Places, ConnsAreHeld
  <2>2. \A k \in 1 .. Len(work') : conn'[work'[k]] = "queued"
    BY <1>1, <1>3, <1>5, <2>1 DEF Places, ConnsAreHeld
  <2>3. \A k, j \in 1 .. Len(work') : work'[k] = work'[j] => k = j
    <3>1. \A k, j \in 1 .. Len(work') : work'[k] = work'[j] => k + 1 = j + 1
      BY <1>1, <1>5 DEF Places, ConnsAreHeld
    <3>2. QED
      BY <3>1, <1>1, <1>2
  <2>4. \A v \in Workers : worker'[v].pc = "busy" => worker'[v].conn \in Conns
    BY <1>1, <1>3 DEF Places, ConnsAreHeld
  <2>5. listener.pc \in {"runtime", "submit", "dispose", "release"} =>
          listener.conn \in Conns /\ conn'[listener.conn] = "admitted"
    BY <1>2, <1>3 DEF Places, ConnsAreHeld
  <2>6. QED
    BY <2>2, <2>3, <2>4, <2>5 DEF ConnsAreHeld
<1>7. Places'
  BY <1>1, <1>2, <1>3, <1>4, <1>6, WorkerKeeps
<1>8. CountsAreExact'
  BY <1>1, <1>2, <1>3, <1>4, AdmissionCounts DEF Waiters, Admitted
<1>9. QED
  BY <1>1, <1>3, <1>7, <1>8

(* The end of the channel, and the end of a work: no connection moves.     *)
LEMMA IdleStep ==
    ASSUME WebInv, NEW w \in Workers, worker[w].pc \in {"idle", "dropping"},
           \/ worker' = [worker EXCEPT ![w].pc = "gone"]
           \/ worker' = [worker EXCEPT ![w] = [pc |-> "idle", conn |-> None]],
           UNCHANGED <<server, gate, handlers, listener, work, conn, task, stop>>
    PROVE  WebInv'
<1> USE DEF WebInv, WebType
<1>1. /\ worker' \in [Workers -> WorkerFields] /\ worker'[w].pc \in {"idle", "gone"}
      /\ \A v \in Workers : v # w => worker'[v] = worker[v]
  BY DEF WorkerFields
<1>2. ConnsAreHeld'
  BY <1>1 DEF Places, ConnsAreHeld
<1>3. NotBegun' /\ TasksAreOfRequests' /\ GateIsHeld' /\ DrainKnows'
  BY <1>1 DEF Places, NotBegun, TasksAreOfRequests, GateIsHeld, DrainKnows, Quiet
<1>4. CountsAreExact'
  BY DrainCounts
<1>5. QED
  BY <1>1, <1>2, <1>3, <1>4 DEF Places

(* A connection has ended.                                                 *)
LEMMA ReleaseStep ==
    ASSUME WebInv, NEW w \in Workers, run_connection_worker(w)
    PROVE  WebInv'
<1> USE DEF WebInv, WebType
<1> DEFINE c == worker[w].conn
<1>1. /\ worker[w].pc = "busy" /\ c \in Conns /\ conn[c] = "closing"
      /\ UNCHANGED <<gate, handlers, listener, work, task, stop>>
  BY DEF run_connection_worker, Places, ConnsAreHeld
<1>2. /\ conn' \in [Conns -> ConnPlaces] /\ conn'[c] = "gone"
      /\ \A d \in Conns : d # c => conn'[d] = conn[d]
      /\ worker' \in [Workers -> WorkerFields] /\ worker'[w].pc = "dropping"
      /\ \A v \in Workers : v # w => worker'[v] = worker[v]
  BY <1>1 DEF run_connection_worker, ConnPlaces, WorkerFields
<1> HIDE DEF c
<1>3. /\ server' \in ServerFields /\ SamePhase /\ server'.pending = server.pending
      /\ server'.active_connections = Minus1(server.active_connections)
  BY ReleaseKeeps DEF run_connection_worker, SamePhase
<1>4. ConnsAreHeld'
  <2>1. /\ \A k \in 1 .. Len(work') : conn'[work'[k]] = "queued"
        /\ \A k, j \in 1 .. Len(work') : work'[k] = work'[j] => k = j
    BY <1>1, <1>2, ChannelKeeps
  <2>2. QED
    BY <1>1, <1>2, <2>1 DEF ConnsAreHeld, Places
<1>5. Places'
  BY <1>1, <1>2, <1>3, <1>4, WorkerKeeps
<1>6. CountsAreExact'
  BY <1>1, <1>2, <1>3, AdmissionCounts DEF Waiters, Admitted
<1>7. QED
  BY <1>1, <1>2, <1>3, <1>5, <1>6

LEMMA WorkerStep ==
    ASSUME WebInv, NEW w \in Workers, Worker(w)
    PROVE  WebInv'
<1>1. CASE recv(w)
  BY <1>1, ReceiveStep, IdleStep DEF recv
<1>2. CASE WorkEnds(w)
  BY <1>2, IdleStep DEF WorkEnds
<1>3. QED
  BY <1>1, <1>2, ReleaseStep DEF Worker

-----------------------------------------------------------------------------
(* The theorems.                                                           *)

LEMMA WebInitially == Init => WebInv
<1> SUFFICES ASSUME Init PROVE WebInv
  OBVIOUS
<1>1. WebType
  <2>1. server \in ServerFields
    BY EmptySeq DEF Init, ServerFields
  <2>2. stop \in StopFields
    BY DEF Init, StopFields
  <2>3. work \in Seq(Conns) /\ listener \in ListenerFields /\ worker \in [Workers -> WorkerFields]
    BY EmptySeq DEF Init, ListenerFields, WorkerFields
  <2>4. gate \in [holder : Conns \cup {None}, closed : BOOLEAN] /\ handlers \in Nat
    BY DEF Init
  <2>5. conn \in [Conns -> ConnPlaces] /\ task \in [Conns -> TaskPlaces]
    BY DEF Init, ConnPlaces, TaskPlaces
  <2>6. QED
    BY <2>1, <2>2, <2>3, <2>4, <2>5 DEF WebType
<1>2. Places
  <2>1. NotBegun /\ TasksAreOfRequests /\ GateIsHeld
    BY DEF Init, NotBegun, TasksAreOfRequests, GateIsHeld
  <2>2. ConnsAreHeld
    <3>1. Len(work) = 0
      BY EmptySeq DEF Init
    <3>2. QED
      BY <3>1 DEF Init, ConnsAreHeld
  <2>3. DrainKnows
    BY DEF Init, DrainKnows
  <2>4. QED
    BY <2>1, <2>2, <2>3 DEF Places
<1>3. CountsAreExact
  <2>1. Admitted = {} /\ Counted = {} /\ Waiters = {}
    BY DEF Init, Admitted, Counted, Waiters
  <2>2. QED
    BY <2>1, FS_EmptySet, WebConstants DEF Init, CountsAreExact
<1>4. QED
  BY <1>1, <1>2, <1>3 DEF WebInv

LEMMA WebInvariant == Spec => []WebInv
<1>1. WebInv /\ [Next]_vars => WebInv'
  <2> SUFFICES ASSUME WebInv, [Next]_vars PROVE WebInv'
    OBVIOUS
  <2>1. CASE UNCHANGED vars
    <3>1. Admitted' = Admitted /\ Waiters' = Waiters /\ Counted' = Counted
      BY <2>1 DEF vars, Admitted, Waiters, Counted
    <3>2. CountsAreExact'
      BY <2>1, <3>1 DEF WebInv, CountsAreExact, vars
    <3>3. Places'
      BY <2>1 DEF WebInv, vars, Places, NotBegun, ConnsAreHeld, TasksAreOfRequests, GateIsHeld, DrainKnows, Quiet
    <3>4. QED
      BY <2>1, <3>2, <3>3 DEF WebInv, WebType, vars
  <2>2. QED
    BY <2>1, StartStep, ListenerStep, WorkerStep, ConnectionStep, TaskStep, StopStep, FinishStep DEF Next, Drain
<1>2. QED
  BY <1>1, WebInitially, PTL DEF Spec

(* The counts are exact, whatever leaves when: the connections Stop waits  *)
(* for, the handlers it reports, the requests the 503 of pendingWork       *)
(* counts.                                                                 *)
THEOREM StopCountsExactly == Spec => []CountsAreExact
<1>1. WebInv => CountsAreExact
  BY DEF WebInv
<1>2. QED
  BY <1>1, WebInvariant, PTL

(* Without a queue the handlers run one at a time, also after their        *)
(* connections are gone: whoever runs holds the gate.                      *)
THEOREM HandlersAreSerial == Spec => []OneHandlerAtATime
<1>1. WebInv => OneHandlerAtATime
  <2> SUFFICES ASSUME WebInv, ~server.queue PROVE Cardinality(Running) <= 1
    BY DEF OneHandlerAtATime
  <2>1. Running \subseteq {gate.holder}
    BY DEF Running, WebInv, Places, GateIsHeld
  <2>2. IsFiniteSet({gate.holder}) /\ Cardinality({gate.holder}) = 1
    BY FS_Singleton
  <2>3. QED
    BY <2>1, <2>2, FS_Subset
<1>2. QED
  BY <1>1, WebInvariant, PTL

(* A Stop or Close that returned ok left no listener, no worker, no        *)
(* connection and no handler behind.                                       *)
THEOREM OkLeavesNothing == Spec => []OkMeansQuiet
<1>1. WebInv => OkMeansQuiet
  BY DEF WebInv, Places, DrainKnows, Quiet, OkMeansQuiet, Admitted, Counted
<1>2. QED
  BY <1>1, WebInvariant, PTL

(* Every field has its type, the counts of ServerState never going below   *)
(* zero.                                                                   *)
THEOREM WebTypes == Spec => []WebType
<1>1. WebInv => WebType
  BY DEF WebInv
<1>2. QED
  BY <1>1, WebInvariant, PTL
=============================================================================
