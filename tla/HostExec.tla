------------------------------ MODULE HostExec ------------------------------
(***************************************************************************)
(* HOST.Exec.Run (crates/bn_host_exec/src/lib.rs): a child process, the    *)
(* two threads that read its streams, and the caller that polls the child  *)
(* and then collects the streams, all against one deadline.                *)
(*                                                                         *)
(* The child may start a process of its own that inherits the streams and  *)
(* outlives it.  A stream is a pipe that holds a bounded number of blocks; *)
(* a writer waits when it is full.  The processes and the pipes are        *)
(* external.                                                               *)
(***************************************************************************)
EXTENDS Naturals

CONSTANTS Streams,     \* stdout and stderr, in the order they are collected
          PipeSize,    \* blocks a pipe holds
          Limit,       \* Policy.capture_limit, in blocks
          MaxWritten   \* bound: blocks written to a stream

\* Assumed of the constants by the module that instantiates this one.
ExecConstants == /\ PipeSize \in Nat \ {0} /\ Limit \in Nat /\ MaxWritten \in Nat
                 /\ Streams = {"stdout", "stderr"}

VARIABLES caller,   \* where run_checked is
          result,   \* what it returned, or "none"
          child,    \* none, running, zombie (ended, not waited for) or reaped
          heir,     \* none, running or ended: the process the child started
          pipe,     \* blocks in each pipe
          written,  \* blocks written to it so far
          reader,   \* each read_pipe: reading, then what its capture says
          total,    \* blocks it has read
          kept,     \* blocks it has kept
          expired   \* the deadline has passed

processes == <<child, heir, pipe, written>>
readers == <<reader, total, kept>>
vars == <<caller, result, processes, readers, expired>>

Init == /\ caller = "call" /\ result = "none"
        /\ child = "none" /\ heir = "none"
        /\ pipe = [s \in Streams |-> 0] /\ written = [s \in Streams |-> 0]
        /\ reader = [s \in Streams |-> "none"]
        /\ total = [s \in Streams |-> 0] /\ kept = [s \in Streams |-> 0]
        /\ expired = FALSE

Return(code) == caller' = "out" /\ result' = code

-----------------------------------------------------------------------------
(* The processes.                                                          *)

Alive == child = "running" \/ heir = "running"

writes(s) == /\ Alive /\ pipe[s] < PipeSize /\ written[s] < MaxWritten
             /\ reader[s] = "reading"
             /\ pipe' = [pipe EXCEPT ![s] = @ + 1]
             /\ written' = [written EXCEPT ![s] = @ + 1]
             /\ UNCHANGED <<caller, result, child, heir, readers, expired>>

starts_heir == /\ child = "running" /\ heir = "none"
               /\ heir' = "running"
               /\ UNCHANGED <<caller, result, child, pipe, written, readers, expired>>

heir_ends == /\ heir = "running"
             /\ heir' = "ended"
             /\ UNCHANGED <<caller, result, child, pipe, written, readers, expired>>

child_ends == /\ child = "running"
              /\ child' = "zombie"
              /\ UNCHANGED <<caller, result, heir, pipe, written, readers, expired>>

-----------------------------------------------------------------------------
(* read_pipe, one thread per stream.                                       *)

\* Variant: the thread stops reading at the ceiling.
ReadsToCeiling(s) == pipe[s] > 0 /\ total[s] <= Limit

KeepsReading(s) == pipe[s] > 0

reads(s) == /\ reader[s] = "reading" /\ KeepsReading(s)
            /\ pipe' = [pipe EXCEPT ![s] = @ - 1]
            /\ total' = [total EXCEPT ![s] = @ + 1]
            /\ kept' = [kept EXCEPT ![s] = IF total[s] + 1 <= Limit THEN @ + 1 ELSE 0]
            /\ UNCHANGED <<caller, result, child, heir, written, reader, expired>>

\* Variant: the stream ends with the child.
EndsWithChild(s) == pipe[s] = 0 /\ child # "running"

EndOfFile(s) == pipe[s] = 0 /\ ~Alive

Overflow(s) == total[s] > Limit

read_ends(s) == /\ reader[s] = "reading" /\ EndOfFile(s)
                /\ reader' = [reader EXCEPT ![s] = IF Overflow(s) THEN "overflow" ELSE "complete"]
                /\ UNCHANGED <<caller, result, processes, total, kept, expired>>

read_fails(s) == /\ reader[s] = "reading"
                 /\ reader' = [reader EXCEPT ![s] = "failed"]
                 /\ UNCHANGED <<caller, result, processes, total, kept, expired>>

-----------------------------------------------------------------------------
(* run_checked.                                                            *)

deadline_passes == /\ caller \notin {"call", "out"} /\ ~expired
                   /\ expired' = TRUE
                   /\ UNCHANGED <<caller, result, processes, readers>>

check == /\ caller = "call"
         /\ \E code \in {"POLICY_DENIED", "INVALID_ARGUMENT"} : Return(code)
         /\ UNCHANGED <<processes, readers, expired>>

spawn_fails == /\ caller = "call"
               /\ \E code \in {"PROGRAM_NOT_FOUND", "PERMISSION_DENIED", "SPAWN_FAILED"} : Return(code)
               /\ UNCHANGED <<processes, readers, expired>>

spawn == /\ caller = "call"
         /\ caller' = "poll"
         /\ child' = "running"
         /\ reader' = [s \in Streams |-> "reading"]
         /\ UNCHANGED <<result, heir, pipe, written, total, kept, expired>>

try_wait_ended == /\ caller = "poll" /\ child = "zombie"
                  /\ child' = "reaped"
                  /\ caller' = "stdout"
                  /\ UNCHANGED <<result, heir, pipe, written, readers, expired>>

try_wait_late == /\ caller = "poll" /\ child = "running" /\ expired
                 /\ caller' = "kill"
                 /\ UNCHANGED <<result, processes, readers, expired>>

try_wait_fails == /\ caller = "poll"
                  /\ Return("WAIT_FAILED")
                  /\ UNCHANGED <<processes, readers, expired>>

\* terminate: the child may have ended just before.
kill == /\ caller = "kill"
        /\ child' = "zombie"
        /\ caller' = "reap"
        /\ UNCHANGED <<result, heir, pipe, written, readers, expired>>

kill_fails == /\ caller \in {"kill", "reap"}
              /\ Return("TERMINATION_FAILED")
              /\ UNCHANGED <<processes, readers, expired>>

\* Variants: the streams are read to their end before the call returns; a
\* killed child is not waited for.
ReturnsAfterStreams ==
    /\ \A s \in Streams : reader[s] # "reading"
    /\ child' = "reaped"

KilledIsLeft == UNCHANGED child

Reaps == child' = "reaped"

reap == /\ caller = "reap" /\ child = "zombie"
        /\ Reaps
        /\ Return("TIMEOUT")
        /\ UNCHANGED <<heir, pipe, written, readers, expired>>

\* collect: the capture of a stream that has ended counts even when late.
Collected(s) == reader[s] \in {"complete", "overflow"}

collect(s) == /\ caller = s
              /\ \/ /\ Collected(s)
                    /\ caller' = IF s = "stdout" THEN "stderr" ELSE "decode"
                    /\ UNCHANGED result
                 \/ reader[s] = "failed" /\ Return("CAPTURE_FAILED")
                 \/ reader[s] = "reading" /\ expired /\ Return("TIMEOUT")
              /\ UNCHANGED <<processes, readers, expired>>

\* The bytes are counted before they are decoded; whether they are UTF-8
\* is up to the processes.
decode == /\ caller = "decode"
          /\ IF \E s \in Streams : reader[s] = "overflow"
             THEN Return("CAPTURE_LIMIT")
             ELSE \E code \in {"Ok", "INVALID_UTF8"} : Return(code)
          /\ UNCHANGED <<processes, readers, expired>>

Polls == try_wait_ended \/ try_wait_late
Collects == \E s \in Streams : collect(s)

Next ==
    \/ \E s \in Streams : writes(s) \/ reads(s) \/ read_ends(s) \/ read_fails(s)
    \/ starts_heir \/ heir_ends \/ child_ends
    \/ deadline_passes
    \/ check \/ spawn_fails \/ spawn
    \/ Polls \/ try_wait_fails
    \/ kill \/ kill_fails \/ reap
    \/ Collects \/ decode

Spec == Init /\ [][Next]_vars

\* The caller, the clock and the threads that read run; no process has to
\* write, to end or to close a stream.
Fairness ==
    /\ WF_vars(deadline_passes)
    /\ WF_vars(Polls \/ kill \/ reap \/ Collects \/ decode)
    /\ \A s \in Streams : WF_vars(reads(s) \/ read_ends(s))

-----------------------------------------------------------------------------
\* A result is complete: nobody can write any more, and what was written
\* was kept, also what the child's own processes wrote after it had ended.
\* An overflow was one.
ResultIsComplete ==
    /\ result \in {"Ok", "INVALID_UTF8"} =>
          ~Alive /\ \A s \in Streams : kept[s] = written[s]
    /\ result = "CAPTURE_LIMIT" => \E s \in Streams : written[s] > Limit

\* No child is left behind, running or as a zombie, unless the system
\* refused to wait for it or to kill it.
NoChildLeft ==
    result \notin {"none", "WAIT_FAILED", "TERMINATION_FAILED"} => child \in {"none", "reaped"}

\* What has to end, by the deadline at the latest, whatever the child and
\* the processes that inherited its streams do.
InCall == caller \notin {"call", "out"}

\* What has to end, past the ceiling too and after the call returned: a
\* process that waits to write into a full pipe.
Blocked(s) == pipe[s] = PipeSize /\ reader[s] = "reading"
=============================================================================
