---------------------------- MODULE TablesProofs ----------------------------
(***************************************************************************)
(* Proofs about the session table and the rate limiter of BNWeb, for any   *)
(* number of handler tasks, identifiers and keys, any capacity, burst and  *)
(* rate, and any passing of time.                                          *)
(*                                                                         *)
(* Sessions: an identifier is drawn once, so a dead one stays dead; what a *)
(* Rotate has removed and not yet created again belongs to that Rotate     *)
(* alone.  So a write changes one session, and the last write that         *)
(* succeeded decides what it stores.                                       *)
(* Buckets: a bucket's grants and tokens fit the time up to its instant,   *)
(* and the ideal credit is never ahead of its tokens and the time since    *)
(* that instant.                                                           *)
(***************************************************************************)
EXTENDS MCTables, Integers, TLAPS

-----------------------------------------------------------------------------
(* Sessions.                                                               *)

\* Identifiers name sessions only once they are drawn.
IdsAreDrawn ==
    /\ Sessions!Live \subseteq Sessions!Drawn /\ Sessions!Drawn \subseteq Ids
    /\ retired \subseteq Sessions!Drawn
    /\ \A i \in Sessions!Drawn : origin[i] \in Sessions!Drawn

\* The fields of a handler task that the proofs use.
RequestState ==
    [pc : {"new", "ready", "new_id", "get", "set", "unset", "remove", "create"},
     id : Ids \cup {NoId}, cookie : {"Keep", "Set", "Clear"},
     then : {"ready", "set", "remove"}, old : Ids \cup {NoId},
     values : BOOLEAN, kept : BOOLEAN]

RequestType == req \in [Requests -> RequestState]

\* What a handler task knows of its session.
RequestsKnow ==
    \A r \in Requests :
        /\ req[r].id # NoId => req[r].id \in Sessions!Drawn
        /\ req[r].pc \in {"get", "set", "unset", "remove", "create"} =>
              req[r].old \in Sessions!Drawn
        /\ req[r].pc = "create" => req[r].old \notin Sessions!Live

\* The values a Rotate has taken out of the table are nowhere else.
InTransit(r) == req[r].pc = "create" /\ req[r].kept

RotationsOwn ==
    /\ \A r \in Requests : InTransit(r) =>
          \A i \in Sessions!Live : origin[i] # origin[req[r].old]
    /\ \A r, q \in Requests : InTransit(r) /\ InTransit(q) /\ r # q =>
          origin[req[r].old] # origin[req[q].old]

SessionsInv == /\ IdsAreDrawn /\ RequestType /\ RequestsKnow /\ RotationsOwn
               /\ Sessions!RetiredStaysDead /\ Sessions!OneHome

(* Asking for an identifier adds none to the table, and one that is found  *)
(* live is there.                                                          *)
LEMMA LiveShrinks ==
    ASSUME NEW id
    PROVE  /\ DOMAIN Sessions!live(id) \subseteq Sessions!Live
           /\ DOMAIN Sessions!touch(id) = Sessions!Live
           /\ DOMAIN Sessions!Without(id) = Sessions!Live \ {id}
           /\ Sessions!IsLive(id) => id \in Sessions!Live
BY DEF Sessions!live, Sessions!touch, Sessions!Without, Sessions!Live, Sessions!IsLive

(* A step that adds no session and draws no identifier, and whose task is  *)
(* not in the middle of a Rotate afterwards, preserves the invariant when  *)
(* what the task knows is right.                                           *)
LEMMA QuietStep ==
    ASSUME SessionsInv, NEW r \in Requests,
           Sessions!Live' \subseteq Sessions!Live, UNCHANGED <<origin, retired>>,
           RequestType', req'[r].pc # "create",
           \A q \in Requests : q # r => req'[q] = req[q],
           req'[r].id # NoId => req'[r].id \in Sessions!Drawn,
           req'[r].pc \in {"get", "set", "unset", "remove"} => req'[r].old \in Sessions!Drawn
    PROVE  SessionsInv'
<1> USE DEF SessionsInv
<1>1. Sessions!Drawn' = Sessions!Drawn
  BY DEF Sessions!Drawn
<1>2. IdsAreDrawn' /\ Sessions!RetiredStaysDead' /\ Sessions!OneHome'
  BY <1>1 DEF IdsAreDrawn, Sessions!RetiredStaysDead, Sessions!OneHome
<1>3. RequestsKnow'
  BY <1>1 DEF RequestsKnow
<1>4. \A q \in Requests : InTransit(q)' => q # r /\ InTransit(q) /\ req'[q] = req[q]
  BY DEF InTransit
<1>5. RotationsOwn'
  BY <1>4 DEF RotationsOwn
<1>6. QED
  BY <1>2, <1>3, <1>5

(* create: the new identifier was never drawn, and the table has no other  *)
(* new one.                                                                *)
LEMMA CreateAdds ==
    ASSUME NEW id, NEW values, NEW from, Sessions!create(id, values, from)
    PROVE  /\ id \in Ids \ Sessions!Drawn
           /\ Sessions!Live' \subseteq Sessions!Live \cup {id}
           /\ Sessions!Drawn' = Sessions!Drawn \cup {id}
           /\ origin'[id] = from
           /\ \A i \in Sessions!Drawn : origin'[i] = origin[i]
BY DEF Sessions!create, Sessions!Live, Sessions!Drawn, Sessions!Unexpired

(* The steps that only ask the table.                                      *)
LEMMA AskingStep ==
    ASSUME SessionsInv, NEW r \in Requests,
           \/ \E cookie \in Ids \cup {NoId} : Sessions!begin(r, cookie)
           \/ \E then \in {"ready", "set", "remove"} : Sessions!id_live(r, then)
           \/ \E then \in {"get", "unset"} : Sessions!current(r, then)
           \/ Sessions!with_entry(r)
           \/ Sessions!entropy_fails(r)
           \/ Sessions!apply(r)
    PROVE  SessionsInv'
<1> USE DEF SessionsInv
<1>1. ASSUME NEW cookie \in Ids \cup {NoId}, Sessions!begin(r, cookie) PROVE SessionsInv'
  <2>1. Sessions!Live' \subseteq Sessions!Live
    BY <1>1, LiveShrinks DEF Sessions!begin, Sessions!Live
  <2>2. RequestType' /\ req'[r].pc = "ready" /\ \A q \in Requests : q # r => req'[q] = req[q]
    BY <1>1 DEF Sessions!begin, Sessions!Rest, Sessions!NoRequest, RequestType, RequestState
  <2>3. req'[r].id # NoId => req'[r].id \in Sessions!Drawn
    BY <1>1, LiveShrinks DEF Sessions!begin, Sessions!Rest, Sessions!NoRequest, RequestType, RequestState, IdsAreDrawn
  <2>4. QED
    BY <1>1, <2>1, <2>2, <2>3, QuietStep DEF Sessions!begin
<1>2. ASSUME NEW then \in {"ready", "set", "remove", "get", "unset"},
             Sessions!AtRest(r), sessions' = Sessions!Asked(r), UNCHANGED <<origin, retired>>,
             \/ Sessions!HasLive(r) /\ req' = Sessions!Got(r, then, req[r].id)
             \/ /\ then \in {"ready", "set", "remove"}
                /\ req' = [req EXCEPT ![r].pc = "new_id", ![r].then = then]
             \/ req' = req
      PROVE  SessionsInv'
  <2>1. Sessions!Live' \subseteq Sessions!Live
    BY <1>2, LiveShrinks DEF Sessions!Asked, Sessions!Live
  <2>2. RequestType' /\ req'[r].pc # "create" /\ \A q \in Requests : q # r => req'[q] = req[q]
    BY <1>2 DEF Sessions!Got, Sessions!AtRest, RequestType, RequestState
  <2>3. /\ req'[r].id = req[r].id
        /\ req'[r].pc \in {"get", "set", "unset", "remove"} => req'[r].old = req[r].id /\ req[r].id # NoId
    BY <1>2 DEF Sessions!Got, Sessions!AtRest, Sessions!HasLive, RequestType, RequestState
  <2>4. QED
    BY <1>2, <2>1, <2>2, <2>3, QuietStep DEF RequestsKnow
<1>3. ASSUME NEW then \in {"ready", "set", "remove"}, Sessions!id_live(r, then) PROVE SessionsInv'
  BY <1>2, <1>3 DEF Sessions!id_live
<1>4. ASSUME NEW then \in {"get", "unset"}, Sessions!current(r, then) PROVE SessionsInv'
  BY <1>2, <1>4 DEF Sessions!current
<1>5. CASE Sessions!with_entry(r)
  <2>1. Sessions!Live' \subseteq Sessions!Live
    BY <1>5, LiveShrinks DEF Sessions!with_entry, Sessions!Live
  <2>2. RequestType' /\ req'[r].pc = "ready" /\ req'[r].id = req[r].id
          /\ \A q \in Requests : q # r => req'[q] = req[q]
    BY <1>5 DEF Sessions!with_entry, Sessions!Rest, Sessions!NoRequest, RequestType, RequestState
  <2>3. QED
    BY <1>5, <2>1, <2>2, QuietStep DEF Sessions!with_entry, RequestsKnow
<1>6. CASE Sessions!apply(r)
  <2>1. RequestType' /\ req'[r].pc = "new" /\ req'[r].id = NoId
          /\ \A q \in Requests : q # r => req'[q] = req[q]
    BY <1>6 DEF Sessions!apply, Sessions!NoRequest, RequestType, RequestState
  <2>2. Sessions!Live' = Sessions!Live
    BY <1>6 DEF Sessions!apply, Sessions!Live
  <2>3. QED
    BY <1>6, <2>1, <2>2, QuietStep DEF Sessions!apply
<1>7. CASE Sessions!entropy_fails(r)
  <2>1. RequestType' /\ req'[r].pc = "ready" /\ req'[r].id = req[r].id
          /\ \A q \in Requests : q # r => req'[q] = req[q]
    BY <1>7 DEF Sessions!entropy_fails, Sessions!Rest, Sessions!NoRequest, RequestType, RequestState
  <2>2. Sessions!Live' = Sessions!Live
    BY <1>7 DEF Sessions!entropy_fails, Sessions!Live
  <2>3. QED
    BY <1>7, <2>1, <2>2, QuietStep DEF Sessions!entropy_fails, RequestsKnow
<1>8. QED
  BY <1>1, <1>3, <1>4, <1>5, <1>6, <1>7

(* id() on first use: the new session shares its origin with none.         *)
LEMMA IdCreateStep ==
    ASSUME SessionsInv, NEW r \in Requests, NEW id \in Ids, Sessions!id_create(r, id)
    PROVE  SessionsInv'
<1> USE DEF SessionsInv
<1>1. /\ id \notin Sessions!Drawn
      /\ Sessions!Live' \subseteq Sessions!Live \cup {id}
      /\ Sessions!Drawn' = Sessions!Drawn \cup {id}
      /\ origin'[id] = id
      /\ \A i \in Sessions!Drawn : origin'[i] = origin[i]
  BY CreateAdds DEF Sessions!id_create
<1>2. /\ RequestType' /\ req'[r].pc # "create" /\ req'[r].id = id
      /\ req'[r].pc \in {"get", "set", "unset", "remove"} => req'[r].old = id
      /\ \A q \in Requests : q # r => req'[q] = req[q]
  <2> DEFINE then == req[r].then
             got == [req EXCEPT ![r].pc = then, ![r].then = "ready", ![r].id = id,
                                ![r].old = IF then = "ready" THEN NoId ELSE id]
  <2>1. req' = [got EXCEPT ![r].cookie = "Set"] /\ then \in {"ready", "set", "remove"}
    BY DEF Sessions!id_create, Sessions!Got, RequestType, RequestState
  <2>2. got = [req EXCEPT ![r] = [@ EXCEPT !.pc = then, !.then = "ready", !.id = id,
                                           !.old = IF then = "ready" THEN NoId ELSE id]]
    BY DEF RequestType, RequestState
  <2>3. [req[r] EXCEPT !.pc = then, !.then = "ready", !.id = id,
                       !.old = IF then = "ready" THEN NoId ELSE id] \in RequestState
    BY <2>1 DEF RequestType, RequestState
  <2>4. got \in [Requests -> RequestState] /\ got[r].pc = then /\ got[r].id = id
          /\ got[r].old = (IF then = "ready" THEN NoId ELSE id)
          /\ \A q \in Requests : q # r => got[q] = req[q]
    BY <2>2, <2>3 DEF RequestType, RequestState
  <2> HIDE DEF got
  <2>5. QED
    BY <2>1, <2>4 DEF RequestType, RequestState
<1>3. retired' = retired
  BY DEF Sessions!id_create
<1>4. IdsAreDrawn' /\ Sessions!RetiredStaysDead'
  BY <1>1, <1>3 DEF IdsAreDrawn, Sessions!RetiredStaysDead
<1>5. RequestsKnow'
  BY <1>1, <1>2 DEF RequestsKnow
<1>6. Sessions!OneHome'
  BY <1>1 DEF IdsAreDrawn, Sessions!OneHome
<1>7. RotationsOwn'
  <2>1. \A q \in Requests : InTransit(q)' => q # r /\ InTransit(q) /\ req'[q] = req[q]
                                             /\ req[q].old \in Sessions!Drawn
    BY <1>2 DEF InTransit, RequestsKnow
  <2>2. QED
    BY <1>1, <2>1 DEF RotationsOwn, IdsAreDrawn
<1>8. QED
  BY <1>2, <1>4, <1>5, <1>6, <1>7

(* The first half of Rotate: its session leaves the table, and its values  *)
(* are in transit.                                                         *)
LEMMA RotateRemoveStep ==
    ASSUME SessionsInv, NEW r \in Requests, Sessions!rotate_remove(r)
    PROVE  SessionsInv'
<1> USE DEF SessionsInv
<1> DEFINE old == req[r].old
<1>1. Sessions!Live' = Sessions!Live \ {old} /\ UNCHANGED <<origin, retired>>
        /\ Sessions!Drawn' = Sessions!Drawn
  BY LiveShrinks DEF Sessions!rotate_remove, Sessions!Live, Sessions!Drawn
<1>2. /\ req'[r].pc = "create" /\ req'[r].id = req[r].id /\ req'[r].old = old
      /\ req'[r].kept = (old \in Sessions!Live)
      /\ \A q \in Requests : q # r => req'[q] = req[q]
  BY DEF Sessions!rotate_remove, RequestType, RequestState
<1>3. RequestType'
  <2> DEFINE k == old \in Sessions!Live
             v == k /\ sessions[old].values
  <2>1. req' = [req EXCEPT ![r].pc = "create", ![r].values = v, ![r].kept = k]
    BY DEF Sessions!rotate_remove
  <2>2. v \in BOOLEAN /\ k \in BOOLEAN
    OBVIOUS
  <2> HIDE DEF v, k
  <2>3. [req[r] EXCEPT !.pc = "create", !.values = v, !.kept = k] \in RequestState
    BY <2>2 DEF RequestType, RequestState
  <2>4. req' = [req EXCEPT ![r] = [@ EXCEPT !.pc = "create", !.values = v, !.kept = k]]
    BY <2>1, <2>2 DEF RequestType, RequestState
  <2>5. QED
    BY <2>3, <2>4 DEF RequestType
<1>4. old \in Sessions!Drawn
  BY DEF Sessions!rotate_remove, RequestsKnow
<1>5. IdsAreDrawn' /\ Sessions!RetiredStaysDead' /\ Sessions!OneHome' /\ RequestsKnow'
  BY <1>1, <1>2, <1>4 DEF IdsAreDrawn, Sessions!RetiredStaysDead, Sessions!OneHome, RequestsKnow
<1>6. \A q \in Requests : InTransit(q)' /\ q # r => InTransit(q) /\ req'[q] = req[q]
  BY <1>2 DEF InTransit
<1>7. InTransit(r)' => old \in Sessions!Live
  BY <1>2 DEF InTransit
<1>8. RotationsOwn'
  BY <1>1, <1>2, <1>6, <1>7 DEF RotationsOwn, Sessions!OneHome, IdsAreDrawn
<1>9. QED
  BY <1>3, <1>5, <1>8

(* The second half: the values in transit get their new home, and the old  *)
(* identifier is given up.                                                 *)
LEMMA RotateCreateStep ==
    ASSUME SessionsInv, NEW r \in Requests, NEW id \in Ids, Sessions!rotate_create(r, id)
    PROVE  SessionsInv'
<1> USE DEF SessionsInv
<1> DEFINE old == req[r].old
           from == IF req[r].kept THEN origin[old] ELSE id
<1>1. /\ id \notin Sessions!Drawn
      /\ Sessions!Live' \subseteq Sessions!Live \cup {id}
      /\ Sessions!Drawn' = Sessions!Drawn \cup {id}
      /\ origin'[id] = from
      /\ \A i \in Sessions!Drawn : origin'[i] = origin[i]
  BY CreateAdds DEF Sessions!rotate_create
<1>2. /\ RequestType' /\ req'[r].pc = "ready" /\ req'[r].id = id
      /\ \A q \in Requests : q # r => req'[q] = req[q]
  BY DEF Sessions!rotate_create, Sessions!Rest, Sessions!NoRequest, RequestType, RequestState
<1>3. retired' = retired \cup {old} /\ old \in Sessions!Drawn /\ old \notin Sessions!Live
        /\ req[r].pc = "create"
  BY DEF Sessions!rotate_create, RequestsKnow
<1>4. IdsAreDrawn' /\ Sessions!RetiredStaysDead'
  BY <1>1, <1>3 DEF IdsAreDrawn, Sessions!RetiredStaysDead
<1>5. RequestsKnow'
  BY <1>1, <1>2 DEF RequestsKnow
<1>6. \A i \in Sessions!Live : origin[i] # from
  BY <1>1, <1>3 DEF RotationsOwn, InTransit, IdsAreDrawn
<1>7. Sessions!OneHome'
  BY <1>1, <1>6 DEF IdsAreDrawn, Sessions!OneHome
<1>8. RotationsOwn'
  <2>1. \A q \in Requests : InTransit(q)' => q # r /\ InTransit(q) /\ req'[q] = req[q]
                                             /\ req[q].old \in Sessions!Drawn
    BY <1>2 DEF InTransit, RequestsKnow
  <2>2. \A q \in Requests : InTransit(q)' => origin[req[q].old] # from
    BY <1>1, <1>3, <2>1 DEF RotationsOwn, InTransit, IdsAreDrawn
  <2>3. QED
    BY <1>1, <2>1, <2>2 DEF RotationsOwn, IdsAreDrawn
<1>9. QED
  BY <1>2, <1>4, <1>5, <1>7, <1>8

(* End: the identifier is given up and its session removed.                *)
LEMMA EndStep ==
    ASSUME SessionsInv, NEW r \in Requests, Sessions!end(r)
    PROVE  SessionsInv'
<1> USE DEF SessionsInv
<1>1. Sessions!Live' = Sessions!Live \ {req[r].id} /\ origin' = origin
        /\ Sessions!Drawn' = Sessions!Drawn
        /\ retired' \subseteq retired \cup ({req[r].id} \ {NoId})
  BY LiveShrinks DEF Sessions!end, Sessions!Live, Sessions!Drawn
<1>2. /\ RequestType' /\ req'[r].pc = "ready" /\ req'[r].id = NoId
      /\ \A q \in Requests : q # r => req'[q] = req[q]
  BY DEF Sessions!end, Sessions!Rest, Sessions!NoRequest, RequestType, RequestState
<1>3. IdsAreDrawn' /\ Sessions!RetiredStaysDead' /\ Sessions!OneHome' /\ RequestsKnow'
  BY <1>1, <1>2 DEF IdsAreDrawn, RequestsKnow, Sessions!RetiredStaysDead, Sessions!OneHome
<1>4. \A q \in Requests : InTransit(q)' => q # r /\ InTransit(q) /\ req'[q] = req[q]
  BY <1>2 DEF InTransit
<1>5. RotationsOwn'
  BY <1>1, <1>4 DEF RotationsOwn
<1>6. QED
  BY <1>2, <1>3, <1>5

(* So the invariant holds in every state of the session table.             *)
LEMMA SessionsHold == Sessions!Spec => []SessionsInv
<1>1. Sessions!Init => SessionsInv
  BY InstanceConstants DEF Sessions!SessionConstants, Sessions!Init, SessionsInv, IdsAreDrawn, RequestType, RequestState, RequestsKnow,
         RotationsOwn, InTransit, Sessions!RetiredStaysDead, Sessions!OneHome, Sessions!Live, Sessions!Drawn,
         Sessions!NoRequest
<1>2. SessionsInv /\ [Sessions!Next]_(Sessions!vars) => SessionsInv'
  <2> SUFFICES ASSUME SessionsInv, [Sessions!Next]_(Sessions!vars) PROVE SessionsInv'
    OBVIOUS
  <2>1. CASE Sessions!Tick \/ UNCHANGED Sessions!vars
    <3>1. UNCHANGED <<sessions, origin, req, retired>>
      BY <2>1 DEF Sessions!Tick, Sessions!vars
    <3>2. QED
      BY <3>1 DEF SessionsInv, IdsAreDrawn, RequestType, RequestsKnow, RotationsOwn, InTransit,
             Sessions!RetiredStaysDead, Sessions!OneHome, Sessions!Live, Sessions!Drawn
  <2>2. QED
    BY <2>1, AskingStep, IdCreateStep, RotateRemoveStep, RotateCreateStep, EndStep
       DEF Sessions!Next
<1>3. QED
  BY <1>1, <1>2, PTL DEF Sessions!Spec

(* An identifier a Rotate or an End gave up never names a session again.   *)
THEOREM GivenUpIdsStayDead == Sessions!Spec => []RetiredStaysDead
<1>1. SessionsInv => RetiredStaysDead
  BY DEF SessionsInv, RetiredStaysDead
<1>2. QED
  BY <1>1, SessionsHold, PTL

(* The values of a session are live under one identifier, however the two  *)
(* halves of the Rotates of several tasks interleave.                      *)
THEOREM ValuesHaveOneHome == Sessions!Spec => []OneHome
<1>1. SessionsInv => OneHome
  BY DEF SessionsInv, OneHome
<1>2. QED
  BY <1>1, SessionsHold, PTL

(* The entries of the table.                                               *)
TableType ==
    /\ now \in Nat
    /\ DOMAIN sessions = Sessions!Live
    /\ \A id \in Sessions!Live : sessions[id] \in [values : BOOLEAN, touched : Nat]

\* What is stored, and what a Rotate carries, is what the last write left.
ValuesInv ==
    /\ TableType
    /\ login \subseteq Sessions!Drawn
    /\ Sessions!ValuesFollowTheSession
    /\ \A r \in Requests : InTransit(r) =>
          (req[r].values <=> origin[req[r].old] \in login)
    /\ \A r \in Requests : req[r].pc = "create" /\ ~req[r].kept => ~req[r].values

(* Looking a session up changes no value.                                  *)
LEMMA LookingKeepsValues ==
    ASSUME TableType, NEW id
    PROVE  /\ \A j \in DOMAIN Sessions!live(id) :
                 /\ Sessions!live(id)[j] \in [values : BOOLEAN, touched : Nat]
                 /\ Sessions!live(id)[j].values = sessions[j].values
           /\ \A j \in Sessions!Live :
                 /\ Sessions!touch(id)[j] \in [values : BOOLEAN, touched : Nat]
                 /\ Sessions!touch(id)[j].values = sessions[j].values
<1>1. ASSUME NEW j \in Sessions!Live
      PROVE  /\ Sessions!touch(id)[j] \in [values : BOOLEAN, touched : Nat]
             /\ Sessions!touch(id)[j].values = sessions[j].values
  <2>1. CASE j = id
    <3>1. Sessions!touch(id)[j] = [sessions[j] EXCEPT !.touched = now]
      BY <2>1 DEF Sessions!touch, TableType, Sessions!Live
    <3>2. QED
      BY <3>1 DEF TableType
  <2>2. CASE j # id
    BY <2>2 DEF Sessions!touch, TableType, Sessions!Live
  <2>3. QED
    BY <2>1, <2>2
<1>2. ASSUME NEW j \in Sessions!Live \ {id} PROVE Sessions!Without(id)[j] = sessions[j]
  BY DEF Sessions!Without
<1>3. QED
  BY <1>1, <1>2, LiveShrinks DEF Sessions!live, TableType

(* A step that writes no value, draws no identifier and starts no half     *)
(* Rotate keeps the values right.                                          *)
LEMMA NothingIsWritten ==
    ASSUME ValuesInv, Sessions!Live' \subseteq Sessions!Live, UNCHANGED <<origin, login>>,
           now' \in Nat,
           \A j \in Sessions!Live' : /\ sessions'[j] \in [values : BOOLEAN, touched : Nat]
                                     /\ sessions'[j].values = sessions[j].values,
           \A q \in Requests : req'[q].pc = "create" => req'[q] = req[q]
    PROVE  ValuesInv'
<1> USE DEF ValuesInv
<1>1. TableType' /\ (login \subseteq Sessions!Drawn)'
  BY DEF TableType, Sessions!Drawn, Sessions!Live
<1>2. Sessions!ValuesFollowTheSession'
  BY DEF Sessions!ValuesFollowTheSession
<1>3. \A q \in Requests : InTransit(q)' => InTransit(q) /\ req'[q] = req[q]
  BY DEF InTransit
<1>4. \A q \in Requests : InTransit(q)' => (req'[q].values <=> origin'[req'[q].old] \in login')
  BY <1>3
<1>5. \A q \in Requests : req'[q].pc = "create" /\ ~req'[q].kept => ~req'[q].values
  OBVIOUS
<1>6. QED
  BY <1>1, <1>2, <1>4, <1>5

(* The steps that write no value.                                          *)
LEMMA ReadingStep ==
    ASSUME SessionsInv, ValuesInv, NEW r \in Requests,
           \/ \E cookie \in Ids \cup {NoId} : Sessions!begin(r, cookie)
           \/ \E then \in {"ready", "set", "remove"} : Sessions!id_live(r, then)
           \/ \E then \in {"get", "unset"} : Sessions!current(r, then)
           \/ Sessions!entropy_fails(r)
           \/ Sessions!apply(r)
           \/ Sessions!end(r)
    PROVE  ValuesInv'
<1> USE DEF ValuesInv
<1>1. UNCHANGED <<origin, login, now>> /\ now \in Nat
  BY DEF Sessions!begin, Sessions!id_live, Sessions!current, Sessions!entropy_fails,
         Sessions!apply, Sessions!end, TableType
<1>2. \/ \E id : sessions' = Sessions!live(id)
      \/ \E id : sessions' = Sessions!Without(id)
      \/ sessions' = sessions
  BY DEF Sessions!begin, Sessions!id_live, Sessions!current, Sessions!Asked,
         Sessions!entropy_fails, Sessions!apply, Sessions!end
<1>3. /\ Sessions!Live' \subseteq Sessions!Live
      /\ \A j \in Sessions!Live' : /\ sessions'[j] \in [values : BOOLEAN, touched : Nat]
                                   /\ sessions'[j].values = sessions[j].values
  <2>1. CASE \E id : sessions' = Sessions!live(id)
    <3>1. PICK id : sessions' = Sessions!live(id)
      BY <2>1
    <3>2. Sessions!Live' = DOMAIN Sessions!live(id)
      BY <3>1 DEF Sessions!Live
    <3>3. DOMAIN Sessions!live(id) \subseteq Sessions!Live
      BY LiveShrinks
    <3>4. QED
      BY <3>1, <3>2, <3>3, LookingKeepsValues
  <2>2. CASE \E id : sessions' = Sessions!Without(id)
    BY <2>2, LiveShrinks DEF Sessions!Live, Sessions!Without, TableType
  <2>3. CASE sessions' = sessions
    BY <2>3 DEF Sessions!Live, TableType
  <2>4. QED
    BY <1>2, <2>1, <2>2, <2>3
<1>4. \A q \in Requests : req'[q].pc = "create" => req'[q] = req[q]
  <2>1. \A q \in Requests : q # r => req'[q] = req[q]
    BY DEF Sessions!begin, Sessions!id_live, Sessions!current, Sessions!Got, Sessions!Rest,
           Sessions!entropy_fails, Sessions!apply, Sessions!end, SessionsInv, RequestType
  <2>2. req'[r].pc # "create"
    <3>1. req \in [Requests -> RequestState]
      BY DEF SessionsInv, RequestType
    <3>2. ASSUME NEW then \in {"ready", "set", "remove"}, Sessions!id_live(r, then)
          PROVE  req'[r].pc \in {then, "new_id"}
      BY <3>1, <3>2 DEF Sessions!id_live, Sessions!Got, RequestState
    <3>3. ASSUME NEW then \in {"get", "unset"}, Sessions!current(r, then)
          PROVE  req'[r].pc \in {then, "ready"}
      BY <3>1, <3>3 DEF Sessions!current, Sessions!Got, Sessions!AtRest, RequestState
    <3>4. ASSUME NEW id, NEW cookie, Sessions!Rest(r, id, cookie) PROVE req'[r].pc = "ready"
      BY <3>1, <3>4 DEF Sessions!Rest, Sessions!NoRequest
    <3>5. CASE Sessions!apply(r)
      BY <3>1, <3>5 DEF Sessions!apply, Sessions!NoRequest
    <3>6. QED
      BY <3>2, <3>3, <3>4, <3>5 DEF Sessions!begin, Sessions!entropy_fails, Sessions!end
  <2>3. QED
    BY <2>1, <2>2
<1>5. QED
  BY <1>1, <1>3, <1>4, NothingIsWritten

(* Get, Set and Remove: no other session, in the table or in transit,      *)
(* shares the origin of the one written.                                   *)
LEMMA WritingStep ==
    ASSUME SessionsInv, ValuesInv, NEW r \in Requests, Sessions!with_entry(r)
    PROVE  ValuesInv'
<1> USE DEF SessionsInv, ValuesInv
<1> DEFINE id == req[r].old
<1>1. /\ UNCHANGED <<origin, now>> /\ now \in Nat
      /\ req[r].pc \in {"get", "set", "unset"} /\ req'[r].pc = "ready"
      /\ \A q \in Requests : q # r => req'[q] = req[q]
  BY DEF Sessions!with_entry, Sessions!Rest, Sessions!NoRequest, RequestType, TableType
<1>2. \A q \in Requests : req'[q].pc = "create" => req'[q] = req[q] /\ q # r
  BY <1>1
<1>3. CASE ~Sessions!IsLive(id)
  BY <1>1, <1>2, <1>3, NothingIsWritten DEF Sessions!with_entry, Sessions!Live, TableType
<1>4. CASE Sessions!IsLive(id)
  <2> DEFINE new == CASE req[r].pc = "get" -> sessions[id].values
                      [] req[r].pc = "set" -> TRUE
                      [] req[r].pc = "unset" -> FALSE
  <2>1. id \in Sessions!Live /\ id \in Sessions!Drawn
    BY <1>4 DEF Sessions!IsLive, IdsAreDrawn
  <2>2. /\ sessions' = [Sessions!touch(id) EXCEPT ![id].values = new]
        /\ login' = Sessions!Told(r)
    <3>1. Sessions!touch(id)[id].values = sessions[id].values
      BY <2>1, LookingKeepsValues
    <3>2. QED
      BY <1>4, <3>1 DEF Sessions!with_entry
  <2>3. new \in BOOLEAN /\ (new <=> origin[id] \in login')
    <3>1. sessions[id].values \in BOOLEAN /\ (sessions[id].values <=> origin[id] \in login)
      BY <2>1 DEF TableType, Sessions!ValuesFollowTheSession
    <3>2. CASE req[r].pc = "get"
      BY <2>2, <3>1, <3>2 DEF Sessions!Told
    <3>3. CASE req[r].pc = "set"
      BY <2>2, <3>3 DEF Sessions!Told
    <3>4. CASE req[r].pc = "unset"
      BY <2>2, <3>4 DEF Sessions!Told
    <3>5. QED
      BY <1>1, <3>2, <3>3, <3>4
  <2> HIDE DEF new
  <2>4. \A o : o # origin[id] => (o \in login' <=> o \in login)
    BY <1>1, <2>2 DEF Sessions!Told
  <2>5. /\ Sessions!Live' = Sessions!Live
        /\ sessions'[id] \in [values : BOOLEAN, touched : Nat] /\ sessions'[id].values = new
        /\ \A j \in Sessions!Live : j # id =>
              /\ sessions'[j] \in [values : BOOLEAN, touched : Nat]
              /\ sessions'[j].values = sessions[j].values
    <3> DEFINE t == Sessions!touch(id)
    <3>1. DOMAIN t = Sessions!Live
          /\ \A j \in Sessions!Live : /\ t[j] \in [values : BOOLEAN, touched : Nat]
                                      /\ t[j].values = sessions[j].values
      BY LiveShrinks, LookingKeepsValues
    <3>2. sessions' = [t EXCEPT ![id] = [t[id] EXCEPT !.values = new]]
      BY <2>2
    <3> HIDE DEF t
    <3>3. DOMAIN sessions' = Sessions!Live /\ sessions'[id] = [t[id] EXCEPT !.values = new]
          /\ \A j \in Sessions!Live : j # id => sessions'[j] = t[j]
      BY <2>1, <3>1, <3>2
    <3>4. [t[id] EXCEPT !.values = new] \in [values : BOOLEAN, touched : Nat]
          /\ [t[id] EXCEPT !.values = new].values = new
      BY <2>1, <2>3, <3>1
    <3>5. QED
      BY <3>1, <3>3, <3>4 DEF Sessions!Live
  <2>6. TableType'
    BY <1>1, <2>5 DEF TableType, Sessions!Live
  <2>7. Sessions!Drawn' = Sessions!Drawn /\ origin[id] \in Sessions!Drawn
    BY <1>1, <2>1 DEF Sessions!Drawn, IdsAreDrawn
  <2>8. login' \subseteq Sessions!Drawn'
    BY <2>4, <2>7
  <2>9. Sessions!ValuesFollowTheSession'
    <3>1. SUFFICES ASSUME NEW j \in Sessions!Live
                   PROVE  sessions'[j].values <=> origin[j] \in login'
      BY <1>1, <2>5 DEF Sessions!ValuesFollowTheSession
    <3>2. CASE j = id
      BY <2>3, <2>5, <3>2
    <3>3. CASE j # id
      <4>1. origin[j] # origin[id]
        BY <2>1, <3>3 DEF Sessions!OneHome
      <4>2. sessions[j].values <=> origin[j] \in login
        BY DEF Sessions!ValuesFollowTheSession
      <4>3. sessions'[j].values = sessions[j].values
        BY <2>5, <3>3
      <4>4. QED
        BY <2>4, <4>1, <4>2, <4>3
    <3>4. QED
      BY <3>2, <3>3
  <2>10. \A q \in Requests : InTransit(q)' => (req'[q].values <=> origin'[req'[q].old] \in login')
    <3>1. ASSUME NEW q \in Requests, InTransit(q)'
          PROVE  req'[q] = req[q] /\ InTransit(q) /\ origin[req[q].old] # origin[id]
      BY <1>2, <2>1, <3>1 DEF InTransit, RotationsOwn
    <3>2. QED
      BY <1>1, <2>4, <3>1
  <2>11. \A q \in Requests : req'[q].pc = "create" /\ ~req'[q].kept => ~req'[q].values
    BY <1>2
  <2>12. QED
    BY <2>6, <2>8, <2>9, <2>10, <2>11
<1>5. QED
  BY <1>3, <1>4

(* create: the entries it keeps are the same, the new one has the values.  *)
LEMMA CreateKeepsValues ==
    ASSUME TableType, NEW id, NEW values \in BOOLEAN, NEW from,
           Sessions!create(id, values, from), UNCHANGED now
    PROVE  /\ TableType'
           /\ id \in Sessions!Live' /\ sessions'[id].values = values
           /\ \A j \in Sessions!Live' : j # id => j \in Sessions!Live /\ sessions'[j] = sessions[j]
<1>1. PICK victim \in Sessions!Evicted :
        sessions' = [j \in (Sessions!Unexpired \ {victim}) \cup {id} |->
                       IF j = id THEN [values |-> values, touched |-> now] ELSE sessions[j]]
  BY DEF Sessions!create
<1>2. Sessions!Live' = (Sessions!Unexpired \ {victim}) \cup {id}
      /\ sessions'[id] = [values |-> values, touched |-> now]
      /\ \A j \in Sessions!Live' : j # id => j \in Sessions!Live /\ sessions'[j] = sessions[j]
  BY <1>1 DEF Sessions!Live, Sessions!Unexpired
<1>3. sessions'[id] \in [values : BOOLEAN, touched : Nat] /\ sessions'[id].values = values
  BY <1>2 DEF TableType
<1>4. QED
  BY <1>2, <1>3 DEF TableType, Sessions!Live

(* A new session stores the login exactly when its origin does.            *)
LEMMA CreatingStep ==
    ASSUME SessionsInv, ValuesInv, NEW r \in Requests, NEW id \in Ids,
           Sessions!id_create(r, id) \/ Sessions!rotate_create(r, id)
    PROVE  ValuesInv'
<1> USE DEF SessionsInv, ValuesInv
<1>0. PICK values \in BOOLEAN : \E from :
        /\ Sessions!create(id, values, from)
        /\ values <=> from \in login
        /\ UNCHANGED <<now, login>>
        /\ req'[r].pc # "create" /\ \A q \in Requests : q # r => req'[q] = req[q]
  <2>1. id \notin login
    BY CreateAdds DEF Sessions!id_create, Sessions!rotate_create
  <2>2. CASE Sessions!id_create(r, id)
    <3>1. Sessions!create(id, FALSE, id) /\ UNCHANGED <<now, login>>
      BY <2>2 DEF Sessions!id_create
    <3>2. req[r].then \in {"ready", "set", "remove"}
      BY DEF RequestType, RequestState
    <3>3. req'[r].pc # "create" /\ \A q \in Requests : q # r => req'[q] = req[q]
      BY <2>2, <3>2 DEF Sessions!id_create, Sessions!Got, RequestType, RequestState
    <3>4. QED
      BY <2>1, <3>1, <3>3
  <2>3. CASE Sessions!rotate_create(r, id)
    <3> DEFINE v == req[r].values
               o == IF req[r].kept THEN origin[req[r].old] ELSE id
    <3>1. /\ Sessions!create(id, v, o) /\ UNCHANGED <<now, login>> /\ req[r].pc = "create"
          /\ req'[r].pc # "create" /\ \A q \in Requests : q # r => req'[q] = req[q]
      BY <2>3 DEF Sessions!rotate_create, Sessions!Rest, Sessions!NoRequest, RequestType
    <3>2. v \in BOOLEAN
      BY DEF RequestType, RequestState
    <3>3. v <=> o \in login
      BY <2>1, <3>1 DEF InTransit
    <3>4. QED
      BY <3>1, <3>2, <3>3
  <2>4. QED
    BY <2>2, <2>3
<1>1. PICK from :
        /\ Sessions!create(id, values, from)
        /\ values <=> from \in login
        /\ UNCHANGED <<now, login>>
        /\ req'[r].pc # "create" /\ \A q \in Requests : q # r => req'[q] = req[q]
  BY <1>0
<1>2. /\ TableType' /\ id \in Sessions!Live' /\ sessions'[id].values = values
      /\ \A j \in Sessions!Live' : j # id => j \in Sessions!Live /\ sessions'[j] = sessions[j]
  BY <1>1, CreateKeepsValues
<1>3. /\ Sessions!Drawn' = Sessions!Drawn \cup {id} /\ origin'[id] = from
      /\ \A i \in Sessions!Drawn : origin'[i] = origin[i]
  BY <1>1, CreateAdds
<1>4. Sessions!ValuesFollowTheSession'
  <2>1. SUFFICES ASSUME NEW j \in Sessions!Live' PROVE sessions'[j].values <=> origin'[j] \in login
    BY <1>1 DEF Sessions!ValuesFollowTheSession
  <2>2. CASE j = id
    BY <1>1, <1>2, <1>3, <2>2
  <2>3. CASE j # id
    <3>1. sessions'[j].values = sessions[j].values /\ origin'[j] = origin[j] /\ j \in Sessions!Live
      BY <1>2, <1>3, <2>3 DEF IdsAreDrawn
    <3>2. sessions[j].values <=> origin[j] \in login
      BY <3>1 DEF Sessions!ValuesFollowTheSession
    <3>3. QED
      BY <3>1, <3>2
  <2>4. QED
    BY <2>2, <2>3
<1>5. \A q \in Requests : req'[q].pc = "create" => req'[q] = req[q]
  BY <1>1
<1>6. \A q \in Requests : InTransit(q)' => (req'[q].values <=> origin'[req'[q].old] \in login')
  <2>1. ASSUME NEW q \in Requests, InTransit(q)'
        PROVE  /\ req'[q] = req[q] /\ InTransit(q)
               /\ origin'[req[q].old] = origin[req[q].old]
    BY <1>3, <1>5, <2>1 DEF InTransit, RequestsKnow
  <2>2. QED
    BY <1>1, <2>1
<1>7. \A q \in Requests : req'[q].pc = "create" /\ ~req'[q].kept => ~req'[q].values
  BY <1>5
<1>8. QED
  BY <1>1, <1>2, <1>3, <1>4, <1>6, <1>7

(* The first half of Rotate takes along the values its session has.        *)
LEMMA TakingStep ==
    ASSUME SessionsInv, ValuesInv, NEW r \in Requests, Sessions!rotate_remove(r)
    PROVE  ValuesInv'
<1> USE DEF SessionsInv, ValuesInv
<1> DEFINE old == req[r].old
           k == old \in Sessions!Live
           v == k /\ sessions[old].values
<1>1. sessions' = Sessions!Without(old) /\ UNCHANGED <<origin, now, login>>
        /\ req' = [req EXCEPT ![r].pc = "create", ![r].values = v, ![r].kept = k]
  BY DEF Sessions!rotate_remove
<1>2. v \in BOOLEAN /\ k \in BOOLEAN /\ (k => (v <=> origin[old] \in login)) /\ (~k => ~v)
  BY DEF Sessions!ValuesFollowTheSession
<1>3. /\ Sessions!Live' \subseteq Sessions!Live /\ \A j \in Sessions!Live' : sessions'[j] = sessions[j]
      /\ DOMAIN sessions' = Sessions!Live'
  BY <1>1, LiveShrinks DEF Sessions!Live, Sessions!Without
<1>4. TableType' /\ (login \subseteq Sessions!Drawn)'
  BY <1>1, <1>3 DEF TableType, Sessions!Drawn
<1>5. Sessions!ValuesFollowTheSession'
  BY <1>1, <1>3 DEF Sessions!ValuesFollowTheSession
<1> HIDE DEF v, k
<1>6. /\ req'[r].old = old /\ req'[r].values = v /\ req'[r].kept = k
      /\ \A q \in Requests : q # r => req'[q] = req[q]
  BY <1>1 DEF RequestType, RequestState
<1>7. \A q \in Requests : InTransit(q)' => (req'[q].values <=> origin'[req'[q].old] \in login')
  <2>1. ASSUME NEW q \in Requests, q # r, InTransit(q)'
        PROVE  req'[q] = req[q] /\ (req[q].values <=> origin[req[q].old] \in login)
    BY <1>6, <2>1 DEF InTransit
  <2>2. InTransit(r)' => (req'[r].values <=> origin[old] \in login)
    BY <1>2, <1>6 DEF InTransit
  <2>3. origin' = origin /\ login' = login
    BY <1>1
  <2>4. InTransit(r)' => (req'[r].values <=> origin'[req'[r].old] \in login')
    BY <1>6, <2>2, <2>3, Zenon
  <2>5. \A q \in Requests : q # r /\ InTransit(q)' =>
           (req'[q].values <=> origin'[req'[q].old] \in login')
    BY <2>1, <2>3
  <2>6. QED
    BY <2>4, <2>5, Zenon DEF InTransit
<1>8. \A q \in Requests : req'[q].pc = "create" /\ ~req'[q].kept => ~req'[q].values
  BY <1>2, <1>6
<1>9. QED
  BY <1>4, <1>5, <1>7, <1>8

(* What a live session stores is what the last Set or Remove that          *)
(* succeeded left in it, whoever called it under whichever identifier and  *)
(* whatever Rotates came between: with_entry fails on a session that is    *)
(* gone, and the two halves of a Rotate carry the values over.             *)
THEOREM ValuesStayWithTheSession == Sessions!Spec => []ValuesFollowTheSession
<1>1. Sessions!Init => ValuesInv
  BY DEF Sessions!Init, ValuesInv, TableType, Sessions!Live, Sessions!Drawn, InTransit,
         Sessions!NoRequest, Sessions!ValuesFollowTheSession
<1>2. SessionsInv /\ ValuesInv /\ [Sessions!Next]_(Sessions!vars) => ValuesInv'
  <2> SUFFICES ASSUME SessionsInv, ValuesInv, [Sessions!Next]_(Sessions!vars) PROVE ValuesInv'
    OBVIOUS
  <2>1. CASE Sessions!Tick \/ UNCHANGED Sessions!vars
    <3>1. UNCHANGED <<sessions, origin, req, login>> /\ now' \in Nat
      BY <2>1 DEF Sessions!Tick, Sessions!vars, ValuesInv, TableType
    <3>2. Sessions!Live' = Sessions!Live /\ sessions' = sessions
      BY <3>1 DEF Sessions!Live
    <3>3. QED
      BY <3>1, <3>2, NothingIsWritten DEF ValuesInv, TableType
  <2>2. QED
    BY <2>1, ReadingStep, WritingStep, CreatingStep, TakingStep DEF Sessions!Next
<1>3. ValuesInv => ValuesFollowTheSession
  BY DEF ValuesInv, ValuesFollowTheSession
<1>4. QED
  BY <1>1, <1>2, <1>3, SessionsHold, PTL DEF Sessions!Spec

-----------------------------------------------------------------------------
(* Arithmetic of the rate limiter.                                         *)

(* What \div computes.                                                     *)
LEMMA Division ==
    ASSUME NEW a \in Nat, NEW b \in Nat \ {0}
    PROVE  /\ a \div b \in Nat
           /\ b * (a \div b) <= a /\ a < b * (a \div b) + b
OBVIOUS

(* Products grow with their factors.                                       *)
LEMMA Grows ==
    ASSUME NEW n \in Nat, NEW x \in Int, NEW y \in Int, x <= y
    PROVE  n * x <= n * y
OBVIOUS

-----------------------------------------------------------------------------
(* Rate limiter.                                                           *)

Token == 1000 \div Rate

LimiterType ==
    /\ clock \in Nat
    /\ DOMAIN ledger = DOMAIN buckets
    /\ \A k \in DOMAIN buckets :
         /\ buckets[k].tokens \in Nat /\ buckets[k].updated \in Nat
         /\ ledger[k].since \in Nat /\ ledger[k].at \in Nat
         /\ ledger[k].granted \in Nat /\ ledger[k].credit \in Int

\* What the bucket granted and still has fits the time up to its instant,
\* and the ideal credit does not exceed its tokens and the time since.
BucketIsRight(k) ==
    /\ buckets[k].updated <= ledger[k].at /\ ledger[k].at <= clock
    /\ Token * ledger[k].granted + Token * buckets[k].tokens
         <= Token * Burst + (buckets[k].updated - ledger[k].since)
    /\ ledger[k].credit <= 1000 * buckets[k].tokens + Rate * (ledger[k].at - buckets[k].updated)
    /\ ~ledger[k].starved

LimiterInv == LimiterType /\ \A k \in DOMAIN buckets : BucketIsRight(k)

(* What the constants of the limiter are.                                  *)
LEMMA LimiterFacts ==
    /\ Rate \in Nat \ {0} /\ Burst \in Nat \ {0} /\ Token \in Nat /\ Steps \subseteq Nat
BY InstanceConstants, Division DEF Limiter!RateConstants, Token

\* The tokens e milliseconds are worth, and the time n tokens are worth.
Worth(e) == (e * Rate) \div 1000
Lasts(n) == (n * 1000) \div Rate

(* A refill converts no more time than has passed, less than a token short *)
(* of it, and not less per token than the rate says.                       *)
LEMMA Refill ==
    ASSUME NEW e \in Nat
    PROVE  /\ Worth(e) \in Nat /\ Lasts(Worth(e)) \in Nat /\ Lasts(Worth(e)) <= e
           /\ Rate * e < 1000 * Worth(e) + 1000
           /\ Rate * Lasts(Worth(e)) <= 1000 * Worth(e)
           /\ Token * Worth(e) <= Lasts(Worth(e))
<1> DEFINE r == Worth(e)
           f == Lasts(r)
<1>1. e * Rate \in Nat /\ e * Rate = Rate * e /\ Rate \in Nat \ {0}
  BY LimiterFacts
<1>2. r \in Nat /\ 1000 * r <= Rate * e /\ Rate * e < 1000 * r + 1000
  BY <1>1, Division DEF Worth
<1> HIDE DEF r
<1>3. r * 1000 \in Nat /\ r * 1000 = 1000 * r
  BY <1>2
<1>4. f \in Nat /\ Rate * f <= r * 1000 /\ r * 1000 < Rate * f + Rate
  <2> DEFINE a == r * 1000
  <2>1. a \in Nat /\ f = a \div Rate
    BY <1>3 DEF Lasts
  <2> HIDE DEF a
  <2>2. f \in Nat /\ Rate * f <= a /\ a < Rate * f + Rate
    BY <1>1, <2>1, Division
  <2>3. QED
    BY <2>2 DEF a
<1> HIDE DEF f
<1>5. f <= e
  <2>1. SUFFICES ASSUME e + 1 <= f PROVE FALSE
    BY <1>4
  <2>2. Rate * (e + 1) <= Rate * f
    BY <1>1, <1>4, <2>1, Grows
  <2>3. Rate * (e + 1) = Rate * e + Rate /\ Rate * e \in Nat /\ Rate * f \in Nat
    BY <1>1, <1>4
  <2>4. QED
    BY <1>1, <1>2, <1>4, <2>2, <2>3
<1>6. Token * r <= f
  <2>1. Token \in Nat /\ Rate * Token <= 1000
    BY <1>1, Division DEF Token
  <2>2. r * (Rate * Token) <= r * 1000
    BY <1>1, <1>2, <2>1, Grows
  <2>3. r * (Rate * Token) = Rate * (Token * r) /\ Token * r \in Nat
    BY <1>1, <1>2, <2>1
  <2>4. SUFFICES ASSUME f + 1 <= Token * r PROVE FALSE
    BY <1>4, <2>3
  <2>5. Rate * (f + 1) <= Rate * (Token * r)
    BY <1>1, <1>4, <2>3, <2>4, Grows
  <2>6. Rate * (f + 1) = Rate * f + Rate /\ Rate * (Token * r) \in Nat /\ Rate * f \in Nat
    BY <1>1, <1>4, <2>3
  <2>7. QED
    BY <1>1, <1>3, <1>4, <2>2, <2>3, <2>5, <2>6
<1>7. QED
  BY <1>2, <1>3, <1>4, <1>5, <1>6 DEF r, f

(* A request of a key that has a bucket leaves that bucket right.          *)
LEMMA KnownBucket ==
    ASSUME LimiterInv, NEW k \in DOMAIN buckets, Limiter!AllowKnown(k)
    PROVE  /\ buckets'[k].tokens \in Nat /\ buckets'[k].updated \in Nat
           /\ ledger'[k].since \in Nat /\ ledger'[k].at \in Nat
           /\ ledger'[k].granted \in Nat /\ ledger'[k].credit \in Int
           /\ BucketIsRight(k)'
<1> DEFINE b == buckets[k]
           tokens == b.tokens
           updated == b.updated
           since == ledger[k].since
           at == ledger[k].at
           granted == ledger[k].granted
           credit == ledger[k].credit
           r == Limiter!refill(b)
           f == Limiter!converted(r)
           t == Limiter!Least(tokens + r, Burst)
           ideal == Limiter!Credit(k)
<1>1. /\ tokens \in Nat /\ updated \in Nat /\ since \in Nat /\ at \in Nat
      /\ granted \in Nat /\ credit \in Int /\ clock \in Nat /\ k \in DOMAIN ledger
  BY DEF LimiterInv, LimiterType
<1>2. /\ updated <= at /\ at <= clock
      /\ Token * granted + Token * tokens <= Token * Burst + (updated - since)
      /\ credit <= 1000 * tokens + Rate * (at - updated)
  BY DEF LimiterInv, BucketIsRight
<1>3. Rate \in Nat \ {0} /\ Burst \in Nat \ {0} /\ Token \in Nat
  BY LimiterFacts
<1>4. r = Worth(clock - updated) /\ f = Lasts(r)
  BY DEF Limiter!refill, Limiter!converted, Worth, Lasts
<1>5. t = IF tokens + r < Burst THEN tokens + r ELSE Burst
  BY DEF Limiter!Least
<1>6. ideal = IF credit + Rate * (clock - at) < 1000 * Burst
              THEN credit + Rate * (clock - at) ELSE 1000 * Burst
  BY DEF Limiter!Credit, Limiter!Least
<1>7. Limiter!Refilled(b) = [tokens |-> t, updated |-> updated + f]
  BY DEF Limiter!Refilled
<1>8. ASSUME NEW g \in BOOLEAN, Limiter!Account(k, g)
      PROVE  /\ ledger'[k].since = since /\ ledger'[k].at = clock
             /\ ledger'[k].granted = granted + (IF g THEN 1 ELSE 0)
             /\ ledger'[k].credit = ideal - (IF g THEN 1000 ELSE 0)
             /\ ledger'[k].starved <=> ideal >= 1000 /\ ~g
  <2> DEFINE s == ideal >= 1000 /\ ~g
             x == granted + (IF g THEN 1 ELSE 0)
             y == ideal - (IF g THEN 1000 ELSE 0)
             entry == [since |-> since, at |-> clock, granted |-> x, credit |-> y, starved |-> s]
  <2>1. ledger' = [ledger EXCEPT ![k] = entry]
    BY <1>8 DEF Limiter!Account
  <2> HIDE DEF s, x, y
  <2>2. entry.since = since /\ entry.at = clock /\ entry.granted = x /\ entry.credit = y
    OBVIOUS
  <2>3. entry.starved <=> s
    BY Zenon
  <2> HIDE DEF entry
  <2>4. ledger'[k] = entry
    BY <1>1, <2>1
  <2>5. QED
    BY <2>2, <2>3, <2>4, Zenon DEF s, x, y
<1>9. clock' = clock
  BY DEF Limiter!AllowKnown
<1> HIDE DEF tokens, updated, since, at, granted, credit, r, f, t, ideal
<1>10. /\ r \in Nat /\ f \in Nat /\ f <= clock - updated
       /\ Rate * (clock - updated) < 1000 * r + 1000
       /\ Rate * f <= 1000 * r /\ Token * r <= f
  <2>1. clock - updated \in Nat
    BY <1>1, <1>2
  <2>2. QED
    BY <1>4, <2>1, Refill
<1>11. t \in Nat /\ t <= tokens + r /\ (t = tokens + r \/ t = Burst) /\ (t = 0 => tokens = 0 /\ r = 0)
  BY <1>1, <1>3, <1>5, <1>10
<1>12. Rate * (clock - at) \in Int /\ Rate * (at - updated) \in Int /\ Rate * (clock - updated) \in Int
         /\ Rate * f \in Int /\ Rate * (clock - (updated + f)) \in Int
         /\ Rate * (at - updated) + Rate * (clock - at) = Rate * (clock - updated)
         /\ Rate * (clock - (updated + f)) = Rate * (clock - updated) - Rate * f
  BY <1>1, <1>3, <1>10
<1>13. ideal \in Int /\ ideal <= 1000 * Burst /\ ideal <= 1000 * tokens + Rate * (clock - updated)
  BY <1>1, <1>2, <1>3, <1>6, <1>12
<1>14. Token * granted + Token * t <= Token * Burst + ((updated + f) - since)
  <2>1. Token * t <= Token * (tokens + r)
    BY <1>1, <1>3, <1>10, <1>11, Grows
  <2>2. Token * (tokens + r) = Token * tokens + Token * r
    BY <1>1, <1>3, <1>10
  <2>3. Token * t \in Nat /\ Token * tokens \in Nat /\ Token * r \in Nat
          /\ Token * granted \in Nat /\ Token * Burst \in Nat
    BY <1>1, <1>3, <1>10, <1>11
  <2>4. QED
    BY <1>1, <1>2, <1>10, <2>1, <2>2, <2>3
<1>15. ideal <= 1000 * t + Rate * (clock - (updated + f))
  <2>1. CASE t = tokens + r
    BY <1>1, <1>10, <1>12, <1>13, <2>1
  <2>2. CASE t = Burst
    <3>1. Rate * 0 <= Rate * (clock - (updated + f))
      BY <1>1, <1>3, <1>10, Grows
    <3>2. QED
      BY <1>3, <1>12, <1>13, <2>2, <3>1
  <2>3. QED
    BY <1>11, <2>1, <2>2
<1>16. t = 0 => ideal < 1000
  BY <1>10, <1>11, <1>12, <1>13
<1>17. CASE /\ t > 0
            /\ buckets' = [buckets EXCEPT ![k] = [Limiter!Refilled(b) EXCEPT !.tokens = @ - 1]]
            /\ Limiter!Account(k, TRUE)
  <2>1. buckets'[k].tokens = t - 1 /\ buckets'[k].updated = updated + f
    BY <1>7, <1>17
  <2>2. /\ ledger'[k].since = since /\ ledger'[k].at = clock
        /\ ledger'[k].granted = granted + 1 /\ ledger'[k].credit = ideal - 1000
        /\ ~ledger'[k].starved
    <3>1. TRUE \in BOOLEAN /\ Limiter!Account(k, TRUE)
      BY <1>17
    <3>2. /\ ledger'[k].since = since /\ ledger'[k].at = clock
          /\ ledger'[k].granted = granted + (IF TRUE THEN 1 ELSE 0)
          /\ ledger'[k].credit = ideal - (IF TRUE THEN 1000 ELSE 0)
          /\ ledger'[k].starved <=> ideal >= 1000 /\ ~TRUE
      BY <1>8, <3>1, Zenon
    <3>3. QED
      BY <3>2, Zenon
  <2>3. Token * (granted + 1) + Token * (t - 1) = Token * granted + Token * t
    BY <1>1, <1>3, <1>11
  <2>4. /\ updated + f <= clock
        /\ ideal - 1000 <= 1000 * (t - 1) + Rate * (clock - (updated + f))
        /\ t - 1 \in Nat /\ granted + 1 \in Nat /\ updated + f \in Nat /\ ideal - 1000 \in Int
        /\ clock <= clock
    BY <1>1, <1>10, <1>11, <1>12, <1>13, <1>15, <1>17
  <2>5. Token * (granted + 1) + Token * (t - 1) <= Token * Burst + ((updated + f) - since)
    BY <1>14, <2>3
  <2>6. BucketIsRight(k)'
    <3>1. buckets'[k].updated <= ledger'[k].at /\ ledger'[k].at <= clock'
      BY <1>9, <2>1, <2>2, <2>4
    <3>2. Token * ledger'[k].granted + Token * buckets'[k].tokens
            <= Token * Burst + (buckets'[k].updated - ledger'[k].since)
      <4>1. Token * ledger'[k].granted = Token * (granted + 1) /\ Token * buckets'[k].tokens = Token * (t - 1)
        BY <2>1, <2>2
      <4>2. buckets'[k].updated - ledger'[k].since = (updated + f) - since
        BY <2>1, <2>2
      <4>3. QED
        BY <2>5, <4>1, <4>2
    <3>3. ledger'[k].credit
            <= 1000 * buckets'[k].tokens + Rate * (ledger'[k].at - buckets'[k].updated)
      BY <2>1, <2>2, <2>4
    <3>4. QED
      BY <2>2, <3>1, <3>2, <3>3 DEF BucketIsRight
  <2>7. QED
    BY <1>1, <2>1, <2>2, <2>4, <2>6
<1>18. CASE /\ t = 0
            /\ buckets' = [buckets EXCEPT ![k] = Limiter!Refilled(b)]
            /\ Limiter!Account(k, FALSE)
  <2>1. buckets'[k].tokens = t /\ buckets'[k].updated = updated + f
    BY <1>7, <1>18
  <2>2. /\ ledger'[k].since = since /\ ledger'[k].at = clock
        /\ ledger'[k].granted = granted + 0 /\ ledger'[k].credit = ideal - 0
        /\ ledger'[k].starved => ideal >= 1000
    <3>1. FALSE \in BOOLEAN /\ Limiter!Account(k, FALSE)
      BY <1>18
    <3>2. /\ ledger'[k].since = since /\ ledger'[k].at = clock
          /\ ledger'[k].granted = granted + (IF FALSE THEN 1 ELSE 0)
          /\ ledger'[k].credit = ideal - (IF FALSE THEN 1000 ELSE 0)
          /\ ledger'[k].starved <=> ideal >= 1000 /\ ~FALSE
      BY <1>8, <3>1, Zenon
    <3>3. QED
      BY <3>2, Zenon
  <2>3. updated + f <= clock /\ updated + f \in Nat /\ granted + 0 = granted /\ ideal - 0 = ideal
          /\ clock <= clock
    BY <1>1, <1>10, <1>13
  <2>4. ~(ideal >= 1000)
    BY <1>13, <1>16, <1>18
  <2>5. ledger'[k].granted = granted /\ ledger'[k].credit = ideal /\ ~ledger'[k].starved
    BY <2>2, <2>3, <2>4, Zenon
  <2>6. BucketIsRight(k)'
    <3>1. buckets'[k].updated <= ledger'[k].at /\ ledger'[k].at <= clock'
      BY <1>9, <2>1, <2>2, <2>3
    <3>2. Token * ledger'[k].granted + Token * buckets'[k].tokens
            <= Token * Burst + (buckets'[k].updated - ledger'[k].since)
      <4>1. Token * ledger'[k].granted = Token * granted /\ Token * buckets'[k].tokens = Token * t
        BY <2>1, <2>2, <2>5
      <4>2. buckets'[k].updated - ledger'[k].since = (updated + f) - since
        BY <2>1, <2>2
      <4>3. QED
        BY <1>14, <4>1, <4>2
    <3>3. ledger'[k].credit
            <= 1000 * buckets'[k].tokens + Rate * (ledger'[k].at - buckets'[k].updated)
      BY <1>15, <2>1, <2>2, <2>5
    <3>4. QED
      BY <2>5, <3>1, <3>2, <3>3 DEF BucketIsRight
  <2>7. QED
    BY <1>1, <1>11, <1>13, <2>1, <2>2, <2>3, <2>5, <2>6
<1>19. Limiter!Refilled(b).tokens = t
  BY <1>7
<1>20. QED
  BY <1>17, <1>18, <1>19 DEF Limiter!AllowKnown

(* A new bucket is right, and the ones that are kept stay as they are.     *)
LEMMA NewBucket ==
    ASSUME LimiterInv, NEW k \in Keys, Limiter!AllowNew(k)
    PROVE  LimiterInv'
<1>1. /\ DOMAIN buckets' = Limiter!Kept \cup {k} /\ DOMAIN ledger' = DOMAIN buckets'
      /\ \A j \in DOMAIN buckets' : j # k => /\ j \in DOMAIN buckets
                                             /\ buckets'[j] = buckets[j] /\ ledger'[j] = ledger[j]
      /\ buckets'[k].tokens = Burst - 1 /\ buckets'[k].updated = clock
      /\ ledger'[k].since = clock /\ ledger'[k].at = clock /\ ledger'[k].granted = 1
      /\ ledger'[k].credit = 1000 * (Burst - 1) /\ ~ledger'[k].starved
      /\ clock' = clock
  BY DEF Limiter!AllowNew, Limiter!Kept
<1>2. Burst - 1 \in Nat /\ 1000 * (Burst - 1) \in Int /\ clock \in Nat
  BY LimiterFacts DEF LimiterInv, LimiterType
<1>3. BucketIsRight(k)'
  <2>1. Token * 1 + Token * (Burst - 1) = Token * Burst /\ Token * Burst \in Nat
    BY LimiterFacts
  <2>2. Rate * (clock - clock) = 0
    BY <1>2, LimiterFacts
  <2>3. QED
    BY <1>1, <1>2, <2>1, <2>2, LimiterFacts DEF BucketIsRight
<1>4. LimiterType'
  BY <1>1, <1>2 DEF LimiterInv, LimiterType
<1>5. \A j \in DOMAIN buckets' : j # k => BucketIsRight(j)'
  BY <1>1 DEF LimiterInv, BucketIsRight
<1>6. QED
  BY <1>3, <1>4, <1>5 DEF LimiterInv

(* So the invariant holds in every state of the limiter.                   *)
LEMMA LimiterHolds == Limiter!Spec => []LimiterInv
<1>1. Limiter!Init => LimiterInv
  BY DEF Limiter!Init, LimiterInv, LimiterType
<1>2. LimiterInv /\ [Limiter!Next]_(Limiter!vars) => LimiterInv'
  <2> SUFFICES ASSUME LimiterInv, [Limiter!Next]_(Limiter!vars) PROVE LimiterInv'
    OBVIOUS
  <2>1. ASSUME NEW k \in Keys, Limiter!AllowKnown(k) PROVE LimiterInv'
    <3>1. k \in DOMAIN buckets /\ clock' = clock
      BY <2>1 DEF Limiter!AllowKnown
    <3>2. /\ DOMAIN buckets' = DOMAIN buckets /\ DOMAIN ledger' = DOMAIN ledger
          /\ \A j \in DOMAIN buckets : j # k => buckets'[j] = buckets[j] /\ ledger'[j] = ledger[j]
      BY <2>1 DEF Limiter!AllowKnown, Limiter!Account, LimiterInv, LimiterType
    <3>3. LimiterType' /\ BucketIsRight(k)'
      BY <2>1, <3>1, <3>2, KnownBucket DEF LimiterInv, LimiterType
    <3>4. \A j \in DOMAIN buckets : j # k => BucketIsRight(j)'
      BY <3>1, <3>2 DEF LimiterInv, BucketIsRight
    <3>5. QED
      BY <3>2, <3>3, <3>4 DEF LimiterInv
  <2>2. ASSUME NEW d \in Steps, Limiter!Pass(d) PROVE LimiterInv'
    <3>1. UNCHANGED <<buckets, ledger>> /\ clock' \in Nat /\ clock <= clock' /\ clock \in Nat
      BY <2>2, LimiterFacts DEF Limiter!Pass, LimiterInv, LimiterType
    <3>2. QED
      BY <3>1 DEF LimiterInv, LimiterType, BucketIsRight
  <2>3. CASE UNCHANGED Limiter!vars
    BY <2>3 DEF Limiter!vars, LimiterInv, LimiterType, BucketIsRight
  <2>4. QED
    BY <2>1, <2>2, <2>3, NewBucket DEF Limiter!Next
<1>3. QED
  BY <1>1, <1>2, PTL DEF Limiter!Spec

(* RateLimiter.allow grants a key its burst and then the configured rate,  *)
(* for every burst and every rate whose token lasts whole milliseconds.    *)
(* For any other rate the bound is one token per token length rounded      *)
(* down, which BucketIsRight has: the rate itself may be exceeded.         *)
THEOREM RateIsKept == Rate * Token = 1000 => (Limiter!Spec => []Limiter!GrantsKeepTheRate)
<1> SUFFICES ASSUME Rate * Token = 1000 PROVE Limiter!Spec => []Limiter!GrantsKeepTheRate
  OBVIOUS
<1>1. LimiterInv => Limiter!GrantsKeepTheRate
  <2> SUFFICES ASSUME LimiterInv, NEW k \in DOMAIN ledger
               PROVE  1000 * ledger[k].granted <= 1000 * Burst + Rate * (clock - ledger[k].since)
    BY DEF Limiter!GrantsKeepTheRate
  <2> DEFINE g == ledger[k].granted
             d == clock - ledger[k].since
  <2>1. k \in DOMAIN buckets /\ BucketIsRight(k)
    BY DEF LimiterInv, LimiterType
  <2>2. /\ buckets[k].tokens \in Nat /\ buckets[k].updated \in Nat /\ ledger[k].since \in Nat
        /\ ledger[k].at \in Nat /\ g \in Nat /\ clock \in Nat /\ d \in Int
    BY <2>1 DEF LimiterInv, LimiterType
  <2>3. Token * g \in Nat /\ Token * buckets[k].tokens \in Nat /\ Token * Burst \in Nat
    BY <2>2, LimiterFacts
  <2>4. Token * g <= Token * Burst + d
    BY <2>1, <2>2, <2>3 DEF BucketIsRight
  <2> HIDE DEF g, d
  <2>5. Rate * (Token * g) <= Rate * (Token * Burst + d)
    BY <2>2, <2>3, <2>4, LimiterFacts, Grows
  <2>6. /\ Rate * (Token * g) = (Rate * Token) * g
        /\ Rate * (Token * Burst + d) = (Rate * Token) * Burst + Rate * d
    BY <2>2, <2>3, LimiterFacts
  <2>7. 1000 * g <= 1000 * Burst + Rate * d
    BY <2>5, <2>6
  <2>8. QED
    BY <2>7 DEF g, d
<1>2. QED
  BY <1>1, LimiterHolds, PTL

(* RateLimiter.allow refuses no request that the credit of the whole       *)
(* milliseconds passed would pay for: its rounding starves nobody.         *)
THEOREM NobodyIsStarved == Limiter!Spec => []NoRequestIsStarved
<1>1. LimiterInv => NoRequestIsStarved
  BY DEF LimiterInv, LimiterType, BucketIsRight, NoRequestIsStarved, Limiter!NoRequestIsStarved
<1>2. QED
  BY <1>1, LimiterHolds, PTL
=============================================================================
