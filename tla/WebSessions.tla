----------------------------- MODULE WebSessions -----------------------------
(***************************************************************************)
(* The server sessions of BNWeb (libraries/bn_web/src/web/sessions.rs).    *)
(* Every handler task works on one SessionTable; each of its operations is *)
(* one critical section of the table's lock, but the operations of a       *)
(* RequestSession are made of several, with other tasks in between.  A     *)
(* request uses the session its cookie names, or creates one, and its      *)
(* response sets or clears the cookie.                                     *)
(*                                                                         *)
(* What a session stores is abstracted to whether a login was written to   *)
(* it, and to the number of the session its values started in: rotation    *)
(* carries both to a new identifier.                                       *)
(***************************************************************************)
EXTENDS Naturals, FiniteSets

CONSTANTS
    Requests,  \* the handler tasks, each serving one request after another
    Ids,       \* the identifiers new_session_id may draw
    Capacity,  \* the table's capacity
    Idle,      \* the idle limit, in ticks
    MaxNow,    \* bound: the clock
    NoId       \* no session

SessionConstants ==
    /\ IsFiniteSet(Requests) /\ IsFiniteSet(Ids)
    /\ Capacity \in Nat \ {0} /\ Idle \in Nat \ {0} /\ MaxNow \in Nat
    /\ NoId \notin Ids

VARIABLES
    sessions,  \* SessionTable.sessions
    now,       \* the clock
    origin,    \* each identifier drawn: the first identifier of its values
    req,       \* each handler task: where its request is, and its SessionState
    jar,       \* the identifiers responses have set as a cookie
    retired,   \* identifiers a completed Rotate or End gave up
    ended,     \* origins a completed End was called on
    login      \* origins whose last write that succeeded stored the login

vars == <<sessions, now, origin, req, jar, retired, ended, login>>

Live == DOMAIN sessions
Drawn == DOMAIN origin
Without(id) == [j \in Live \ {id} |-> sessions[j]]
Fresh(id) == now - sessions[id].touched < Idle

(***************************************************************************)
(* The table's critical sections.                                          *)
(***************************************************************************)
\* live: touches a live session, forgets an expired one.
IsLive(id) == id \in Live /\ Fresh(id)

touch(id) == [sessions EXCEPT ![id].touched = now]

live(id) ==
    IF IsLive(id) THEN touch(id) ELSE Without(id)

\* create: forget the expired, then, when full, one idle longest; the
\* identifier is drawn from the system's entropy, so it is a new one.
Unexpired == {id \in Live : Fresh(id)}

Oldest(S) == {id \in S : \A j \in S : sessions[id].touched <= sessions[j].touched}

Evicted == IF Cardinality(Unexpired) >= Capacity THEN Oldest(Unexpired) ELSE {NoId}

create(id, values, from) ==
    /\ id \in Ids \ Drawn
    /\ \E victim \in Evicted :
         sessions' = [j \in (Unexpired \ {victim}) \cup {id} |->
                        IF j = id THEN [values |-> values, touched |-> now] ELSE sessions[j]]
    /\ origin' = [j \in Drawn \cup {id} |-> IF j = id THEN from ELSE origin[j]]

NoRequest == [pc |-> "new", id |-> NoId, cookie |-> "Keep",
              then |-> "ready", old |-> NoId, values |-> FALSE, kept |-> TRUE]

Init ==
    /\ sessions = << >>
    /\ now = 0
    /\ origin = << >>
    /\ req = [r \in Requests |-> NoRequest]
    /\ jar = {}
    /\ retired = {} /\ ended = {} /\ login = {}

\* Back to the handler, with SessionState id and cookie.
Rest(r, id, cookie) ==
    req' = [req EXCEPT ![r] = [NoRequest EXCEPT !.pc = "ready", !.id = id, !.cookie = cookie]]
AtRest(r) == req[r].pc = "ready"

(***************************************************************************)
(* A request begins with any cookie a response may have set before, and    *)
(* ends with the cookie its session work needs.                            *)
(***************************************************************************)
begin(r, cookie) ==
    /\ req[r].pc = "new" /\ cookie \in jar \cup {NoId}
    /\ IF cookie # NoId THEN sessions' = live(cookie) ELSE UNCHANGED sessions
    /\ Rest(r, IF cookie # NoId /\ IsLive(cookie) THEN cookie ELSE NoId, "Keep")
    /\ UNCHANGED <<now, origin, jar, retired, ended, login>>

apply(r) ==
    /\ AtRest(r)
    /\ jar' = IF req[r].cookie = "Set" THEN jar \cup {req[r].id} ELSE jar
    /\ req' = [req EXCEPT ![r] = NoRequest]
    /\ UNCHANGED <<sessions, now, origin, retired, ended, login>>

(***************************************************************************)
(* id(): the session's identifier, creating the session on first use.  Its *)
(* callers go on at "then": Id itself is over, Set stores, Rotate removes. *)
(***************************************************************************)
Got(r, then, id) ==
    [req EXCEPT ![r].pc = then, ![r].then = "ready", ![r].id = id,
                ![r].old = IF then = "ready" THEN NoId ELSE id]

HasLive(r) == req[r].id # NoId /\ IsLive(req[r].id)

\* What asking for the request's session does to the table.
Asked(r) == IF req[r].id = NoId THEN sessions ELSE live(req[r].id)

id_live(r, then) ==
    /\ AtRest(r)
    /\ sessions' = Asked(r)
    /\ req' = IF HasLive(r) THEN Got(r, then, req[r].id)
              ELSE [req EXCEPT ![r].pc = "new_id", ![r].then = then]
    /\ UNCHANGED <<now, origin, jar, retired, ended, login>>

id_create(r, id) ==
    /\ req[r].pc = "new_id"
    /\ create(id, FALSE, id)
    /\ req' = [Got(r, req[r].then, id) EXCEPT ![r].cookie = "Set"]
    /\ UNCHANGED <<now, jar, retired, ended, login>>

\* current(): the live identifier, never a new one, for Get and Remove.
current(r, then) ==
    /\ AtRest(r)
    /\ sessions' = Asked(r)
    /\ req' = IF HasLive(r) THEN Got(r, then, req[r].id) ELSE req
    /\ UNCHANGED <<now, origin, jar, retired, ended, login>>

(***************************************************************************)
(* Get, Set and Remove on the entry found before: it may be gone by now.   *)
(***************************************************************************)
Told(r) == CASE req[r].pc = "get" -> login
             [] req[r].pc = "set" -> login \cup {origin[req[r].old]}
             [] req[r].pc = "unset" -> login \ {origin[req[r].old]}

DropsSilently(r) ==
    /\ req[r].pc \in {"get", "set", "unset"}
    /\ IF IsLive(req[r].old)
       THEN sessions' = [touch(req[r].old) EXCEPT ![req[r].old].values =
                           CASE req[r].pc = "get" -> @
                             [] req[r].pc = "set" -> TRUE
                             [] req[r].pc = "unset" -> FALSE]
       ELSE UNCHANGED sessions
    /\ login' = Told(r)
    /\ Rest(r, req[r].id, req[r].cookie)
    /\ UNCHANGED <<now, origin, jar, retired, ended>>

with_entry(r) ==
    /\ req[r].pc \in {"get", "set", "unset"}
    /\ IF IsLive(req[r].old)
       THEN /\ sessions' = [touch(req[r].old) EXCEPT ![req[r].old].values =
                               CASE req[r].pc = "get" -> @
                                 [] req[r].pc = "set" -> TRUE
                                 [] req[r].pc = "unset" -> FALSE]
            /\ login' = Told(r)
       ELSE UNCHANGED <<sessions, login>>
    /\ Rest(r, req[r].id, req[r].cookie)
    /\ UNCHANGED <<now, origin, jar, retired, ended>>

(***************************************************************************)
(* Rotate, after id(): the old session is removed, then one with its       *)
(* values is created.                                                      *)
(***************************************************************************)
ReadsEarly(r) ==
    /\ req[r].pc = "remove"
    /\ sessions' = Without(req[r].old)
    /\ req' = [req EXCEPT ![r].pc = "create", ![r].values = TRUE, ![r].kept = TRUE]
    /\ UNCHANGED <<now, origin, jar, retired, ended, login>>

CopiesOld(r) ==
    /\ req[r].pc = "remove"
    /\ LET old == req[r].old
           has == old \in Live
       IN  /\ req' = [req EXCEPT ![r].pc = "create",
                                 ![r].values = has /\ sessions[old].values,
                                 ![r].kept = has]
    /\ UNCHANGED <<sessions, now, origin, jar, retired, ended, login>>

rotate_remove(r) ==
    /\ req[r].pc = "remove"
    /\ LET old == req[r].old
           has == old \in Live
       IN  /\ sessions' = Without(old)
           /\ req' = [req EXCEPT ![r].pc = "create",
                                 ![r].values = has /\ sessions[old].values,
                                 ![r].kept = has]
    /\ UNCHANGED <<now, origin, jar, retired, ended, login>>

rotate_create(r, id) ==
    /\ req[r].pc = "create"
    /\ create(id, req[r].values, IF req[r].kept THEN origin[req[r].old] ELSE id)
    /\ Rest(r, id, "Set")
    /\ retired' = retired \cup {req[r].old}
    /\ UNCHANGED <<now, jar, ended, login>>

\* create without entropy, for either caller: what a Rotate has removed by
\* then is lost, and the request keeps its dead identifier.
entropy_fails(r) ==
    /\ req[r].pc \in {"new_id", "create"}
    /\ Rest(r, req[r].id, req[r].cookie)
    /\ UNCHANGED <<sessions, now, origin, jar, retired, ended, login>>

(***************************************************************************)
(* End: the session is removed and the cookie cleared.                     *)
(***************************************************************************)
end(r) ==
    /\ AtRest(r)
    /\ LET id == req[r].id IN
       /\ sessions' = Without(id)
       /\ retired' = IF id = NoId THEN retired ELSE retired \cup {id}
       /\ ended' = IF id = NoId THEN ended ELSE ended \cup {origin[id]}
    /\ Rest(r, NoId, "Clear")
    /\ UNCHANGED <<now, origin, jar, login>>

\* Time passes.
Tick ==
    /\ now < MaxNow
    /\ now' = now + 1
    /\ UNCHANGED <<sessions, origin, req, jar, retired, ended, login>>

Next ==
    \/ \E r \in Requests :
         \/ \E cookie \in Ids \cup {NoId} : begin(r, cookie)
         \/ \E then \in {"ready", "set", "remove"} : id_live(r, then)
         \/ \E id \in Ids : id_create(r, id) \/ rotate_create(r, id)
         \/ \E then \in {"get", "unset"} : current(r, then)
         \/ with_entry(r) \/ rotate_remove(r) \/ entropy_fails(r)
         \/ end(r) \/ apply(r)
    \/ Tick

Spec == Init /\ [][Next]_vars

(***************************************************************************)
(* Properties.                                                             *)
(***************************************************************************)
\* An identifier a Rotate or an End has given up never names a session
\* again: who kept it from before a login has nothing.
RetiredStaysDead == retired \cap Live = {}

\* The values of one session are never live under two identifiers, however
\* the rotations of two tasks interleave.
OneHome ==
    \A i, j \in Live : origin[i] = origin[j] => i = j

\* A session holds what the last Set or Remove that succeeded left in it,
\* under whichever identifier it was called: one whose session was removed,
\* displaced or expired since the identifier was looked up fails and changes
\* nothing, and a Rotate carries the values over.
ValuesFollowTheSession ==
    \A id \in Live : sessions[id].values <=> origin[id] \in login

\* End forgets the session: nothing of it is left under any identifier.
EndForgetsTheSession == \A id \in Live : origin[id] \notin ended
=============================================================================
