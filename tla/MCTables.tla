------------------------------ MODULE MCTables ------------------------------
(***************************************************************************)
(* The tables that name what they hold by identifiers others keep, in one  *)
(* run: the objects of the interpreter, the sessions of a BNWeb server     *)
(* (Sessions) and its token buckets (Limiter).  They share no state, so    *)
(* each is explored by itself: one moves only while the others are unused. *)
(* Requests and identifiers of sessions are interchangeable: identifiers   *)
(* are random.                                                             *)
(***************************************************************************)
EXTENDS ArcCore, TLC

CONSTANTS Requests, Ids, Capacity, Idle, MaxNow, NoId,   \* of the sessions
          Keys, Burst, Rate, MaxKeys, Steps, MaxClock    \* of the buckets

VARIABLES sessions, now, origin, req, jar, retired, forgotten, login,
          buckets, clock, ledger

Sessions == INSTANCE WebSessions WITH ended <- forgotten
Limiter == INSTANCE WebRateLimiter WITH now <- clock, MaxNow <- MaxClock

ASSUME InstanceConstants == Sessions!SessionConstants /\ Limiter!RateConstants

web == <<sessions, now, origin, req, jar, retired, forgotten, login>>
limiter == <<buckets, clock, ledger>>

TablesInit == Init /\ Sessions!Init /\ Limiter!Init

TablesNext ==
    \/ Sessions!Init /\ Limiter!Init /\ Next /\ UNCHANGED <<web, limiter>>
    \/ Init /\ Limiter!Init /\ Sessions!Next /\ UNCHANGED <<vars, limiter>>
    \/ Init /\ Sessions!Init /\ Limiter!Next /\ UNCHANGED <<vars, web>>

TablesSpec == TablesInit /\ [][TablesNext]_<<vars, web, limiter>>

Symmetry == Permutations(Requests) \cup Permutations(Ids)

-----------------------------------------------------------------------------
(* An identifier that a Rotate or an End has given up never names a        *)
(* session again: who kept it from before a login has nothing.             *)
RetiredStaysDead == Sessions!RetiredStaysDead

(* The values of one session are never live under two identifiers, however *)
(* the rotations of two tasks interleave.                                  *)
OneHome == Sessions!OneHome

(* A session holds what the last Set or Remove that succeeded left in it,  *)
(* under whichever identifier it was called: one whose session was         *)
(* removed, displaced or expired meanwhile fails and changes nothing, and  *)
(* a Rotate carries the values over.                                       *)
ValuesFollowTheSession == Sessions!ValuesFollowTheSession

(* Rounding never refuses a request that whole-millisecond credit would    *)
(* grant: what is left of a token stays in the instant.                    *)
NoRequestIsStarved == Limiter!NoRequestIsStarved
=============================================================================
