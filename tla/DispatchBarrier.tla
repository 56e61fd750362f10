-------------------------- MODULE DispatchBarrier --------------------------
(***************************************************************************)
(* BNDispatch Barrier: libraries/bn_stdlib/src/dispatch_sync.rs.           *)
(*                                                                         *)
(* Threads meet in rounds, numbered by `generation`.  A caller whose       *)
(* deadline passes breaks the round for everybody in it.  The state lock   *)
(* is held from arrival to the first wait, so arrival is one step; a       *)
(* caller whose deadline passed by then does what the later check does.    *)
(***************************************************************************)
EXTENDS Naturals, FiniteSets

CONSTANTS Waiters,        \* callers
          Parties,        \* callers that make a full round
          MaxGeneration,  \* bound: rounds explored
          None            \* no round was broken yet

ASSUME PartiesAssumption == Parties \in Nat \ {0}
ASSUME WaitersFinite == IsFiniteSet(Waiters)
ASSUME NoneAssumption == None \notin Nat

VARIABLES arrived,            \* BarrierState.arrived
          generation,         \* BarrierState.generation
          broken_generation,  \* BarrierState.broken_generation
          pc,                 \* each caller: outside, about to check, asleep
          round,              \* the generation a caller read on arrival
          expired,            \* its deadline has passed
          result,             \* what its last call returned
          broken              \* history: every round a timeout broke

vars == <<arrived, generation, broken_generation, pc, round, expired, result, broken>>

Init == /\ arrived = 0
        /\ generation = 0
        /\ broken_generation = None
        /\ pc = [p \in Waiters |-> "out"]
        /\ round = [p \in Waiters |-> 0]
        /\ expired = [p \in Waiters |-> FALSE]
        /\ result = [p \in Waiters |-> "none"]
        /\ broken = {}

(* notify_all: every sleeper goes back to the check of its loop.           *)
Woken == [p \in Waiters |-> IF pc[p] = "sleep" THEN "check" ELSE pc[p]]

LastToArrive == arrived + 1 = Parties

wait_last(p) == /\ pc[p] = "out" /\ generation < MaxGeneration
                /\ LastToArrive
                /\ arrived' = 0
                /\ generation' = generation + 1
                /\ pc' = Woken
                /\ round' = [round EXCEPT ![p] = generation]
                /\ result' = [result EXCEPT ![p] = "TRUE"]
                /\ UNCHANGED <<broken_generation, expired, broken>>

wait_arrive(p) == /\ pc[p] = "out" /\ generation < MaxGeneration
                  /\ ~LastToArrive
                  /\ arrived' = arrived + 1
                  /\ pc' = [pc EXCEPT ![p] = "sleep"]
                  /\ round' = [round EXCEPT ![p] = generation]
                  /\ result' = [result EXCEPT ![p] = "none"]
                  /\ UNCHANGED <<generation, broken_generation, expired, broken>>

DeadlinePasses(p) == /\ pc[p] # "out" /\ ~expired[p]
                     /\ expired' = [expired EXCEPT ![p] = TRUE]
                     /\ UNCHANGED <<arrived, generation, broken_generation, pc,
                                    round, result, broken>>

(* wait_timeout ends at the deadline, or spuriously at any time.           *)
wait_wakes(p) == /\ pc[p] = "sleep"
                 /\ pc' = [pc EXCEPT ![p] = "check"]
                 /\ UNCHANGED <<arrived, generation, broken_generation, round,
                                expired, result, broken>>

(* Variant: every turn of the loop waits for the whole timeout again.      *)
TimeLeftRestarted(p) == TRUE

TimeLeft(p) == ~expired[p]

wait_again(p) == /\ pc[p] = "check" /\ round[p] = generation /\ TimeLeft(p)
                 /\ pc' = [pc EXCEPT ![p] = "sleep"]
                 /\ UNCHANGED <<arrived, generation, broken_generation, round,
                                expired, result, broken>>

(* Variant: the round is broken, but its arrivals are still counted.       *)
ArrivalsKept == arrived

ArrivedAfterBreak == 0

wait_breaks(p) == /\ pc[p] = "check" /\ round[p] = generation /\ ~TimeLeft(p)
                  /\ arrived' = ArrivedAfterBreak
                  /\ broken_generation' = round[p]
                  /\ generation' = generation + 1
                  /\ pc' = [Woken EXCEPT ![p] = "out"]
                  /\ expired' = [expired EXCEPT ![p] = FALSE]
                  /\ result' = [result EXCEPT ![p] = "TIMEOUT"]
                  /\ broken' = broken \cup {round[p]}
                  /\ UNCHANGED round

(* Variant: the round in progress is asked about.                          *)
CurrentRoundBroken(p) == broken_generation = generation

MyRoundBroken(p) == broken_generation = round[p]

wait_returns(p) == /\ pc[p] = "check" /\ round[p] # generation
                   /\ pc' = [pc EXCEPT ![p] = "out"]
                   /\ expired' = [expired EXCEPT ![p] = FALSE]
                   /\ result' = [result EXCEPT ![p] = IF MyRoundBroken(p) THEN "TIMEOUT"
                                                                         ELSE "FALSE"]
                   /\ UNCHANGED <<arrived, generation, broken_generation, round, broken>>

Next == \E p \in Waiters : \/ wait_last(p)
                           \/ wait_arrive(p)
                           \/ DeadlinePasses(p)
                           \/ wait_wakes(p)
                           \/ wait_again(p)
                           \/ wait_breaks(p)
                           \/ wait_returns(p)

Spec == Init /\ [][Next]_vars

(* A caller runs, sees its deadline pass, and wait_timeout then ends.      *)
Fairness(p) == /\ WF_vars(DeadlinePasses(p))
               /\ WF_vars(\/ expired[p] /\ wait_wakes(p)
                          \/ wait_again(p) \/ wait_breaks(p) \/ wait_returns(p))

FairSpec == Spec /\ \A p \in Waiters : Fairness(p)

-----------------------------------------------------------------------------
InRound == {p \in Waiters : pc[p] # "out" /\ round[p] = generation}

(* The count of arrivals is the number of callers inside the current       *)
(* round, whatever the callers of earlier rounds still do: a round fills   *)
(* up with Parties different callers.                                      *)
ArrivedCountsRound == arrived = Cardinality(InRound)

(* What a caller is told is true of its round: TIMEOUT never of one that   *)
(* was full, TRUE or FALSE of a broken one only when a later break has     *)
(* overtaken the caller, since the field remembers one broken round.       *)
ResultsTellTheRound ==
    \A p \in Waiters :
        /\ result[p] = "TIMEOUT" => round[p] \in broken
        /\ result[p] \in {"TRUE", "FALSE"} /\ round[p] \in broken => broken_generation > round[p]

(* What has to end, by the caller's deadline at the latest.                *)
InCall(p) == pc[p] # "out"

(* bndispatch.md: a timeout breaks the round and "every caller waiting in  *)
(* it gets `TIMEOUT`".                                                     *)
BrokenRoundTimesOutForAll ==
    \A p \in Waiters : round[p] \in broken => result[p] \notin {"TRUE", "FALSE"}
=============================================================================
