---------------------------- MODULE DebugSession ----------------------------
(***************************************************************************)
(* The debug adapter (crates/bn_dap/src/lib.rs): three threads over one    *)
(* SessionState.  The adapter reads requests and changes the state, the    *)
(* debugged program calls the hook of execute_program before every         *)
(* instruction and may sleep in it, and the event thread tells the client  *)
(* what the two have queued.                                               *)
(*                                                                         *)
(* Every action is one hold of the session's lock.  A place is a function, *)
(* a line of it and the depth of the call; what the program does between   *)
(* two hooks is a move to a next place.  Left out: requests that only read *)
(* (stackTrace, variables...) or are refused, and the text of responses.   *)
(***************************************************************************)
EXTENDS Naturals, Sequences

CONSTANTS Sites,        \* pairs of a function and a line number
          MaxDepth,     \* bound: call depth
          MaxRequests,  \* bound: requests of the client
          None          \* no frame, no step mode

Lines == {s[2] : s \in Sites}
Places == [depth : 0 .. MaxDepth, site : Sites]

ASSUME DebugConstants == MaxDepth \in Nat /\ MaxRequests \in Nat /\ None \notin Places

VARIABLES session,      \* SessionState, without the frame's view
          breakpoints,  \* the registered lines of the launched file
          program,      \* the thread of the program: where its hook is
          adapter,      \* run_session
          requests,     \* requests so far
          batch,        \* events taken from the queue, not yet written
          told,         \* what the client was told last: a stop or a continue
          asked         \* history: the step it was last let go with and from where, until terminated

vars == <<session, breakpoints, program, adapter, requests, batch, told, asked>>

Resting == [pc |-> "read", launched |-> FALSE, mode |-> None, depth |-> 0, stopped |-> FALSE]

Init == /\ session = [paused |-> FALSE, pause_requested |-> FALSE, step |-> None,
                      terminate |-> FALSE, started |-> FALSE, stop_on_entry |-> FALSE,
                      frame |-> None, events |-> << >>]
        /\ breakpoints = {}
        /\ program = "none"
        /\ adapter = Resting
        /\ requests = 0
        /\ batch = << >> /\ told = "continued"
        /\ asked = None

-----------------------------------------------------------------------------
(* run_session: one request after another.                                 *)

Reads == adapter.pc = "read" /\ requests < MaxRequests /\ requests' = requests + 1

\* A sleeper in the hook goes back to the check of its loop.
notify_all == program' = IF program = "asleep" THEN "check" ELSE program

launch(stop) ==
    /\ Reads /\ ~adapter.launched
    /\ adapter' = [adapter EXCEPT !.launched = TRUE]
    /\ session' = [session EXCEPT !.stop_on_entry = stop]
    /\ program' = "running"
    /\ UNCHANGED <<breakpoints, batch, told, asked>>

setBreakpoints(lines) ==
    /\ Reads
    /\ breakpoints' = lines
    /\ UNCHANGED <<session, program, adapter, batch, told, asked>>

\* Variants: a step is resumed without an event; a resume drops a pause.
ResumedQuietly(step) ==
    [session EXCEPT !.step = step, !.paused = FALSE,
                    !.events = IF step = None THEN Append(@, "continued") ELSE @]

ResumedForgetting(step) ==
    [session EXCEPT !.step = step, !.paused = FALSE, !.pause_requested = FALSE,
                    !.events = Append(@, "continued")]

Resumed(step) ==
    [session EXCEPT !.step = step, !.paused = FALSE, !.events = Append(@, "continued")]

\* `stopped`: the program was paused when the request was looked at.
resume_session(step, stopped) ==
    /\ session' = Resumed(step)
    /\ asked' = IF stopped /\ step # None
                THEN [mode |-> step.mode, from |-> session.frame] ELSE None
    /\ notify_all
    /\ UNCHANGED <<breakpoints, batch, told>>

continue == Reads /\ resume_session(None, session.paused) /\ UNCHANGED adapter

stepIn == Reads /\ resume_session([mode |-> "in", target |-> 0], session.paused) /\ UNCHANGED adapter

\* next and stepOut read the depth first; the program may go on in between.
current_depth(mode) ==
    /\ Reads
    /\ adapter' = [adapter EXCEPT !.pc = "step", !.mode = mode, !.stopped = session.paused,
                                  !.depth = IF session.frame = None THEN 0 ELSE session.frame.depth]
    /\ UNCHANGED <<session, breakpoints, program, batch, told, asked>>

\* Variant: a step out of a frame stops in that frame again.
TargetHere == adapter.depth

OutTarget == IF adapter.depth = 0 THEN 0 ELSE adapter.depth - 1

StepAsked == [mode |-> adapter.mode,
              target |-> IF adapter.mode = "out" THEN OutTarget ELSE adapter.depth]

next_or_stepOut ==
    /\ adapter.pc = "step"
    /\ resume_session(StepAsked, adapter.stopped)
    /\ adapter' = [adapter EXCEPT !.pc = "read", !.mode = None, !.depth = 0, !.stopped = FALSE]
    /\ UNCHANGED requests

request_pause ==
    /\ Reads
    /\ session' = [session EXCEPT !.pause_requested = TRUE]
    /\ notify_all
    /\ UNCHANGED <<breakpoints, adapter, batch, told, asked>>

terminate_session ==
    /\ session' = [session EXCEPT !.terminate = TRUE, !.paused = FALSE]
    /\ asked' = None
    /\ notify_all
    /\ UNCHANGED <<breakpoints, batch, told>>

\* disconnect or terminate ends the loop once it is answered; when the
\* answer cannot be written run_session returns without the join.
disconnect ==
    /\ Reads
    /\ terminate_session
    /\ \E pc \in {"closing", "failed"} : adapter' = [adapter EXCEPT !.pc = pc]

\* End of input ends the loop too; an error returns at once, with the
\* program left as it is.
end_of_input ==
    /\ adapter.pc = "read"
    /\ adapter' = [adapter EXCEPT !.pc = "closing"]
    /\ UNCHANGED <<session, breakpoints, program, requests, batch, told, asked>>

read_or_write_fails ==
    /\ adapter.pc = "read"
    /\ adapter' = [adapter EXCEPT !.pc = "failed"]
    /\ UNCHANGED <<session, breakpoints, program, requests, batch, told, asked>>

close ==
    /\ adapter.pc = "closing"
    /\ terminate_session
    /\ adapter' = [adapter EXCEPT !.pc = "joining"]
    /\ UNCHANGED requests

join ==
    /\ adapter.pc = "joining" /\ program \in {"none", "ended"}
    /\ adapter' = [adapter EXCEPT !.pc = "over"]
    /\ UNCHANGED <<session, breakpoints, program, requests, batch, told, asked>>

Gone == adapter.pc \in {"over", "failed"}

-----------------------------------------------------------------------------
(* execute_program: the hook before each instruction.                      *)

\* An instruction calls one function at most; the end of a block is no
\* instruction, so any number of calls may return before the next hook.
Follows(place) == IF session.frame = None THEN place.depth = 0
                  ELSE place.depth <= session.frame.depth + 1

PrevDepth == IF session.frame = None THEN 0 ELSE session.frame.depth
line_changed(place) == place # session.frame

\* Variant: next stops in a call as well.
StepsIntoCalls(place) ==
    /\ session.step # None
    /\ line_changed(place)

step_pause(place) ==
    /\ session.step # None
    /\ LET target == session.step.target
           depth == place.depth
       IN  CASE session.step.mode = "next" -> depth < target \/ (depth <= target /\ line_changed(place))
             [] session.step.mode = "in"   -> line_changed(place) \/ depth > PrevDepth
             [] session.step.mode = "out"  -> depth <= target /\ (depth < PrevDepth \/ line_changed(place))

at_breakpoint(place) == place.site[2] \in breakpoints
should_stop_entry == session.stop_on_entry /\ ~session.started

\* Variant: a program that stops sleeps although the session is terminated.
SleepsAnyway(s) == s.paused

Sleeps(s) == s.paused /\ ~s.terminate

\* The rest of the hook: sleep, or leave with the decision.
Decide(s) == program' = IF Sleeps(s) THEN "asleep"
                        ELSE IF s.terminate THEN "exiting" ELSE "running"

hook(place) ==
    /\ program = "running" /\ Follows(place)
    /\ LET stops == \/ should_stop_entry \/ step_pause(place)
                    \/ at_breakpoint(place) \/ session.pause_requested
           here == [session EXCEPT !.frame = place, !.started = TRUE]
       IN  /\ session' = IF stops
                         THEN [here EXCEPT !.step = None, !.pause_requested = FALSE, !.paused = TRUE,
                                           !.events = Append(@, "stopped")]
                         ELSE here
           /\ asked' = IF stops /\ (at_breakpoint(place) \/ session.pause_requested \/ should_stop_entry)
                       THEN None ELSE asked
    /\ Decide(session')
    /\ UNCHANGED <<breakpoints, adapter, requests, batch, told>>

\* A wait may end spuriously.
wakes ==
    /\ program = "asleep"
    /\ program' = "check"
    /\ UNCHANGED <<session, breakpoints, adapter, requests, batch, told, asked>>

check ==
    /\ program = "check"
    /\ Decide(session)
    /\ UNCHANGED <<session, breakpoints, adapter, requests, batch, told, asked>>

\* The program ends by itself, before its first instruction or later.
ends ==
    /\ program = "running"
    /\ program' = "exiting"
    /\ UNCHANGED <<session, breakpoints, adapter, requests, batch, told, asked>>

exits ==
    /\ program = "exiting"
    /\ program' = "ended"
    /\ session' = [session EXCEPT !.events = @ \o <<"exited", "terminated">>]
    /\ UNCHANGED <<breakpoints, adapter, requests, batch, told, asked>>

-----------------------------------------------------------------------------
(* The event thread: takes the queue, then writes it under the output's    *)
(* lock.                                                                   *)

take_events ==
    /\ batch = << >> /\ session.events # << >>
    /\ batch' = session.events
    /\ session' = [session EXCEPT !.events = << >>]
    /\ UNCHANGED <<breakpoints, program, adapter, requests, told, asked>>

\* The last word about the pause in a row of events that follows `word`.
LastWord(word, events) ==
    LET row == <<word>> \o events
        news == {k \in DOMAIN row : row[k] \in {"stopped", "continued"}}
    IN  row[CHOOSE k \in news : \A j \in news : j <= k]

write_events ==
    /\ batch # << >>
    /\ batch' = << >>
    /\ told' = LastWord(told, batch)
    /\ UNCHANGED <<session, breakpoints, program, adapter, requests, asked>>

-----------------------------------------------------------------------------
Next ==
    \/ \E stop \in BOOLEAN : launch(stop)
    \/ \E lines \in SUBSET Lines : setBreakpoints(lines)
    \/ continue \/ stepIn \/ request_pause \/ disconnect
    \/ \E mode \in {"next", "out"} : current_depth(mode)
    \/ next_or_stepOut
    \/ end_of_input \/ read_or_write_fails \/ close \/ join
    \/ \E place \in Places : hook(place)
    \/ wakes \/ check \/ ends \/ exits
    \/ take_events \/ write_events

Spec == Init /\ [][Next]_vars

\* Each of the three threads runs: the program comes to its next
\* instruction, the adapter finishes what it has begun, and events are
\* written while the process lives.  The client need not send anything.
Fairness ==
    /\ WF_vars(check \/ exits \/ \E place \in Places : hook(place))
    /\ WF_vars(next_or_stepOut \/ close \/ join)
    /\ WF_vars(~Gone /\ (take_events \/ write_events))

FairSpec == Spec /\ Fairness

-----------------------------------------------------------------------------
\* What the client will have been told when every queued event is written.
WillBeTold == LastWord(told, batch \o session.events)

\* The events agree with the session: until it is terminated, the last
\* event of a stop or a continue that was written, taken or queued says
\* whether the program is paused, whatever requests arrive while it runs.
EventsTellThePause ==
    ~session.terminate => (session.paused <=> WillBeTold = "stopped")

\* A step of a stopped program stops where the client meant: next not in a
\* call made from there, step out not before the frame has returned (in
\* the outermost frame it is a next), step in at another place; and until then the
\* program has passed no place where it should have stopped.
StepStopsAsAsked ==
    asked # None /\ ~session.terminate =>
      LET at == session.frame
          from == asked.from
          beyond == CASE asked.mode = "next" -> at.depth <= from.depth
                      [] asked.mode = "out"  -> at.depth < from.depth \/ at.depth = 0
                      [] asked.mode = "in"   -> at # from
      IN  IF session.paused THEN beyond
          ELSE session.step = None \/ at = from \/ ~beyond

\* A pause is obeyed: the program stops, unless it ends, is terminated or
\* is abandoned first.
PauseIsObeyed ==
    session.pause_requested ~> \/ session.paused \/ program \in {"none", "ended"}
                               \/ session.terminate \/ Gone

\* Once the loop over requests has ended, run_session ends: a program that
\* sleeps in the hook, or stops there at that moment, is woken and ended.
SessionCloses == adapter.pc = "closing" ~> adapter.pc = "over"
=============================================================================
