------------------------- MODULE DebugSessionProofs -------------------------
(***************************************************************************)
(* Proofs about the debug adapter, for any program and any number of       *)
(* requests.  Events: what matters of a row of events is its last stop or  *)
(* continue; taking and writing portions keeps it, and whoever changes the *)
(* pause queues the word in the same hold of the lock.  Steps: the depth   *)
(* that next and stepOut read stays true because a paused program stays in *)
(* the hook until a resume, and only the adapter resumes.                  *)
(***************************************************************************)
EXTENDS DebugSession, WellFoundedInduction, TLAPS

Events == {"stopped", "continued", "exited", "terminated"}
News == {"stopped", "continued"}

-----------------------------------------------------------------------------
(* The last word in a row of events.                                       *)

(* A set of numbers up to a bound that is not empty has a greatest one.    *)
LEMMA GreatestElement ==
    ASSUME NEW n \in Nat, NEW T, T \subseteq 1 .. n, T # {}
    PROVE  \E x \in T : \A y \in T : y <= x
<1> DEFINE R == OpToRel(<, Nat)
           D == {n - x : x \in T}
<1>1. IsWellFoundedOn(R, Nat)
  BY NatLessThanWellFounded
<1>2. \A x, y \in Nat : x < y => <<x, y>> \in R
  BY DEF OpToRel
<1>3. D \subseteq Nat /\ D # {}
  <2>1. \A x \in T : n - x \in Nat
    OBVIOUS
  <2>2. QED
    BY <2>1
<1> HIDE DEF R, D
<1>4. PICK d \in D : \A e \in D : ~(<<e, d>> \in R)
  BY <1>1, <1>3, WFMin
<1>5. \A e \in D : d <= e
  <2>1. \A e \in D : e \in Nat /\ d \in Nat /\ ~(e < d)
    BY <1>2, <1>3, <1>4
  <2>2. QED
    BY <2>1
<1>6. PICK x \in T : d = n - x
  BY DEF D
<1>7. \A y \in T : n - x <= n - y
  BY <1>5, <1>6 DEF D
<1>8. QED
  BY <1>7

Row(word, events) == <<word>> \o events

IsLast(row, n, k) == /\ k \in 1 .. n /\ row[k] \in News
                     /\ \A j \in 1 .. n : j > k => row[j] \notin News

LEMMA RowFacts ==
    ASSUME NEW word \in News, NEW events \in Seq(Events)
    PROVE  /\ Row(word, events) \in Seq(Events) /\ DOMAIN Row(word, events) = 1 .. Len(events) + 1
           /\ Len(events) \in Nat /\ Row(word, events)[1] = word
           /\ \A j \in 1 .. Len(events) : Row(word, events)[j + 1] = events[j]
BY DEF Row, Events, News

(* The last word is the one with no other behind it.                       *)
LEMMA LastWordIs ==
    ASSUME NEW word \in News, NEW events \in Seq(Events), NEW k,
           IsLast(Row(word, events), Len(events) + 1, k)
    PROVE  LastWord(word, events) = Row(word, events)[k]
<1> DEFINE row == Row(word, events)
           news == {j \in DOMAIN row : row[j] \in News}
<1>1. DOMAIN row = 1 .. Len(events) + 1
  BY RowFacts
<1> HIDE DEF row
<1>2. k \in news /\ \A j \in news : j <= k
  BY <1>1 DEF row, IsLast
<1>3. \A j \in news : j \in Int
  BY <1>1
<1>4. k = CHOOSE i \in news : \A j \in news : j <= i
  BY <1>2, <1>3
<1>5. QED
  BY <1>4 DEF LastWord, row, Row, News

LEMMA LastWordExists ==
    ASSUME NEW word \in News, NEW events \in Seq(Events)
    PROVE  /\ LastWord(word, events) \in News
           /\ \E k : /\ IsLast(Row(word, events), Len(events) + 1, k)
                    /\ LastWord(word, events) = Row(word, events)[k]
<1> DEFINE row == Row(word, events)
           n == Len(events) + 1
           news == {j \in 1 .. n : row[j] \in News}
<1>1. n \in Nat /\ 1 \in 1 .. n /\ row[1] = word
  BY RowFacts
<1> HIDE DEF row, n
<1>2. news \subseteq 1 .. n /\ news # {}
  BY <1>1
<1>3. PICK k \in news : \A y \in news : y <= k
  <2> HIDE DEF news
  <2>1. QED
    BY <1>1, <1>2, GreatestElement
<1>4. IsLast(row, n, k)
  BY <1>1, <1>3 DEF IsLast
<1>5. LastWord(word, events) = row[k]
  BY <1>4, LastWordIs DEF row, n
<1>6. QED
  BY <1>3, <1>4, <1>5 DEF row, n

(* A stop or a continue is the last word when it is queued.                *)
LEMMA WordIsQueued ==
    ASSUME NEW word \in News, NEW events \in Seq(Events), NEW e \in News
    PROVE  LastWord(word, Append(events, e)) = e
<1> DEFINE more == Append(events, e)
           n == Len(events)
<1>1. n \in Nat /\ more \in Seq(Events) /\ Len(more) = n + 1 /\ more[n + 1] = e
  BY DEF Events, News
<1> HIDE DEF more, n
<1>2. Row(word, more)[(n + 1) + 1] = e
  <2>1. PICK j \in 1 .. Len(more) : j = n + 1
    BY <1>1
  <2>2. \A i \in 1 .. Len(more) : Row(word, more)[i + 1] = more[i]
    BY <1>1, RowFacts
  <2>3. QED
    BY <1>1, <2>1, <2>2
<1>3. IsLast(Row(word, more), Len(more) + 1, (n + 1) + 1)
  BY <1>1, <1>2 DEF IsLast
<1>4. LastWord(word, more) = Row(word, more)[(n + 1) + 1]
  BY <1>1, <1>3, LastWordIs
<1>5. QED
  BY <1>2, <1>4 DEF more

(* Events may be told in two portions.                                     *)
LEMMA PortionsAgree ==
    ASSUME NEW word \in News, NEW first \in Seq(Events), NEW second \in Seq(Events)
    PROVE  LastWord(LastWord(word, first), second) = LastWord(word, first \o second)
<1> DEFINE mid == LastWord(word, first)
           all == first \o second
           m == Len(first)
           n == Len(second)
           row1 == Row(word, first)
           row2 == Row(mid, second)
           row == Row(word, all)
<1>1. /\ m \in Nat /\ n \in Nat /\ all \in Seq(Events) /\ Len(all) = m + n
      /\ \A j \in 1 .. m : all[j] = first[j]
      /\ \A j \in 1 .. n : all[j + m] = second[j]
  OBVIOUS
<1>2. PICK k : mid \in News /\ IsLast(row1, m + 1, k) /\ mid = row1[k]
  BY LastWordExists
<1> HIDE DEF mid
<1>3. PICK i : IsLast(row2, n + 1, i) /\ LastWord(mid, second) = row2[i]
  BY <1>2, LastWordExists
<1> HIDE DEF all
<1>4. \A j \in 1 .. m + 1 : row[j] = row1[j]
  <2>1. row[1] = word /\ row1[1] = word
    BY <1>1, RowFacts
  <2>2. ASSUME NEW j \in 1 .. m PROVE row[j + 1] = row1[j + 1]
    <3>1. j \in 1 .. Len(all) /\ j \in 1 .. Len(first)
      BY <1>1
    <3>2. row[j + 1] = all[j] /\ row1[j + 1] = first[j]
      BY <1>1, <3>1, RowFacts
    <3>3. QED
      BY <1>1, <3>2
  <2>3. \A j \in 1 .. m + 1 : j = 1 \/ (j - 1 \in 1 .. m /\ j = (j - 1) + 1)
    BY <1>1
  <2> HIDE DEF row, row1, m
  <2>4. QED
    BY <2>1, <2>2, <2>3
<1>5. ASSUME NEW j \in 1 .. n PROVE row[(j + m) + 1] = row2[j + 1]
  <2>1. j + m \in 1 .. Len(all) /\ j \in 1 .. Len(second)
    BY <1>1
  <2>2. row[(j + m) + 1] = all[j + m]
    <3>1. PICK p \in 1 .. Len(all) : p = j + m
      BY <2>1
    <3>2. row[p + 1] = all[p]
      BY <1>1, RowFacts
    <3>3. QED
      BY <3>1, <3>2
  <2>3. \A x \in 1 .. Len(second) : row2[x + 1] = second[x]
    BY <1>2, RowFacts
  <2>4. QED
    BY <1>1, <2>1, <2>2, <2>3
<1>6. row2[1] = mid
  BY <1>2, RowFacts
<1>7. ASSUME NEW p, IsLast(row, (m + n) + 1, p) PROVE LastWord(word, all) = row[p]
  BY <1>1, <1>7, LastWordIs
<1> HIDE DEF row, row1, row2, m, n
<1>8. ASSUME NEW j \in 1 .. (m + n) + 1, ~(j <= m + 1)
      PROVE  \E x \in 1 .. n : j = (x + m) + 1 /\ row[j] = row2[x + 1]
  <2>1. j - (m + 1) \in 1 .. n /\ j = ((j - (m + 1)) + m) + 1
    BY <1>1, <1>8
  <2>2. QED
    BY <1>5, <2>1
<1>9. CASE i = 1
  <2>1. \A x \in 1 .. n : row2[x + 1] \notin News
    BY <1>1, <1>3, <1>9 DEF IsLast
  <2>2. ASSUME NEW j \in 1 .. (m + n) + 1, j > k PROVE row[j] \notin News
    <3>1. CASE j <= m + 1
      <4>1. j \in 1 .. m + 1
        BY <1>1, <3>1
      <4>2. QED
        BY <1>2, <1>4, <2>2, <4>1 DEF IsLast
    <3>2. CASE ~(j <= m + 1)
      BY <1>8, <2>1, <3>2
    <3>3. QED
      BY <3>1, <3>2
  <2>3. k \in 1 .. m + 1 /\ k \in 1 .. (m + n) + 1
    BY <1>1, <1>2 DEF IsLast
  <2>4. row[k] = mid
    BY <1>2, <1>4, <2>3
  <2>5. IsLast(row, (m + n) + 1, k)
    BY <1>2, <2>2, <2>3, <2>4 DEF IsLast
  <2>6. QED
    BY <1>3, <1>6, <1>7, <1>9, <2>4, <2>5 DEF mid, all
<1>10. CASE i # 1
  <2>1. i \in 1 .. n + 1 /\ row2[i] \in News
    BY <1>3 DEF IsLast
  <2>2. i - 1 \in 1 .. n /\ (i - 1) + 1 = i /\ ((i - 1) + m) + 1 = i + m /\ i + m \in 1 .. (m + n) + 1
    BY <1>1, <1>10, <2>1
  <2>3. row[i + m] = row2[i]
    BY <1>5, <2>2
  <2>4. ASSUME NEW j \in 1 .. (m + n) + 1, j > i + m PROVE row[j] \notin News
    <3>1. PICK x \in 1 .. n : j = (x + m) + 1 /\ row[j] = row2[x + 1]
      BY <1>1, <1>8, <1>10, <2>1, <2>4
    <3>2. x + 1 \in 1 .. n + 1 /\ x + 1 > i
      BY <1>1, <2>1, <2>4, <3>1
    <3>3. QED
      BY <1>3, <3>1, <3>2 DEF IsLast
  <2>5. IsLast(row, (m + n) + 1, i + m)
    BY <2>1, <2>2, <2>3, <2>4 DEF IsLast
  <2>6. QED
    BY <1>3, <1>7, <2>3, <2>5 DEF mid, all
<1>11. QED
  BY <1>9, <1>10

(* The end of the program is no word about the pause.                      *)
LEMMA EndIsNoWord ==
    ASSUME NEW word \in News, NEW events \in Seq(Events)
    PROVE  LastWord(word, events \o <<"exited", "terminated">>) = LastWord(word, events)
<1> DEFINE end == <<"exited", "terminated">>
           mid == LastWord(word, events)
<1>1. end \in Seq(Events) /\ Len(end) = 2 /\ end[1] \notin News /\ end[2] \notin News
  BY DEF Events, News
<1>2. mid \in News
  BY LastWordExists
<1> HIDE DEF end, mid
<1>3. LastWord(mid, end) = LastWord(word, events \o end)
  BY <1>1, PortionsAgree DEF mid
<1>4. Row(mid, end)[1] = mid /\ Row(mid, end)[1 + 1] = end[1] /\ Row(mid, end)[2 + 1] = end[2]
  <2>1. Row(mid, end)[1] = mid /\ \A j \in 1 .. Len(end) : Row(mid, end)[j + 1] = end[j]
    BY <1>1, <1>2, RowFacts
  <2>2. 1 \in 1 .. Len(end) /\ 2 \in 1 .. Len(end)
    BY <1>1
  <2>3. QED
    BY <2>1, <2>2
<1>5. IsLast(Row(mid, end), Len(end) + 1, 1)
  BY <1>1, <1>2, <1>4 DEF IsLast
<1>6. LastWord(mid, end) = mid
  BY <1>1, <1>2, <1>4, <1>5, LastWordIs
<1>7. QED
  BY <1>3, <1>6 DEF end, mid

-----------------------------------------------------------------------------
(* The inductive invariant.                                                *)

Modes == {"next", "in", "out"}

Sessions == [paused : BOOLEAN, pause_requested : BOOLEAN, step : [mode : Modes, target : Nat] \cup {None},
             terminate : BOOLEAN, started : BOOLEAN, stop_on_entry : BOOLEAN,
             frame : Places \cup {None}, events : Seq(Events)]

DebugType ==
    /\ session \in Sessions
    /\ adapter \in [pc : {"read", "step", "closing", "joining", "over", "failed"}, launched : BOOLEAN,
                    mode : {"next", "out", None}, depth : Nat, stopped : BOOLEAN]
    /\ program \in {"none", "running", "asleep", "check", "exiting", "ended"}
    /\ batch \in Seq(Events) /\ told \in News
    /\ asked \in [mode : Modes, from : Places] \cup {None}

\* A paused program stands in the hook, and only the adapter lets it go.
PauseHolds ==
    /\ program = "running" => ~session.paused
    /\ ~adapter.launched => program = "none" /\ ~session.paused
    /\ session.paused => session.frame # None

\* What next and stepOut have read is still true of a program that was paused.
DepthIsCurrent ==
    adapter.pc = "step" =>
        /\ adapter.mode \in {"next", "out"}
        /\ adapter.stopped => session.paused /\ adapter.depth = session.frame.depth

\* The target in the session is the one that was asked for.
StepIsAsked ==
    asked # None =>
        /\ session.frame # None
        /\ session.step # None =>
              /\ session.step.mode = asked.mode
              /\ asked.mode = "next" => session.step.target = asked.from.depth
              /\ asked.mode = "out" => session.step.target = IF asked.from.depth = 0 THEN 0
                                                             ELSE asked.from.depth - 1

DebugInv == /\ DebugType /\ PauseHolds /\ DepthIsCurrent /\ StepIsAsked
            /\ EventsTellThePause /\ StepStopsAsAsked

-----------------------------------------------------------------------------
(* Steps that let the pause, the frame and the step be.                    *)

LEMMA WillBeToldIs ==
    ASSUME DebugType PROVE WillBeTold \in News /\ batch \o session.events \in Seq(Events)
<1>1. session.events \in Seq(Events) /\ batch \in Seq(Events) /\ told \in News
  BY DEF DebugType, Sessions
<1>2. batch \o session.events \in Seq(Events)
  BY <1>1
<1>3. QED
  BY <1>1, <1>2, LastWordExists DEF WillBeTold

LEMMA SessionKeeps ==
    ASSUME DebugInv, DebugType',
           session'.paused = session.paused, session'.terminate = session.terminate,
           session'.frame = session.frame, session'.step = session.step,
           WillBeTold' = WillBeTold, UNCHANGED asked,
           program' = "running" => ~session.paused,
           ~adapter'.launched => program' = "none" /\ ~adapter.launched,
           adapter'.pc = "step" => UNCHANGED adapter
    PROVE  DebugInv'
<1>1. PauseHolds'
  BY DEF DebugInv, PauseHolds
<1>2. DepthIsCurrent'
  BY DEF DebugInv, DepthIsCurrent
<1>3. StepIsAsked'
  BY DEF DebugInv, StepIsAsked
<1>4. EventsTellThePause'
  BY DEF DebugInv, EventsTellThePause
<1>5. StepStopsAsAsked'
  BY DEF DebugInv, StepStopsAsAsked
<1>6. QED
  BY <1>1, <1>2, <1>3, <1>4, <1>5 DEF DebugInv

LEMMA QuietStep ==
    ASSUME DebugInv,
           \/ \E stop \in BOOLEAN : launch(stop)
           \/ \E lines \in SUBSET Lines : setBreakpoints(lines)
           \/ request_pause \/ end_of_input \/ read_or_write_fails \/ join
           \/ wakes \/ check \/ ends
    PROVE  DebugInv'
<1>0. DebugType /\ PauseHolds
  BY DEF DebugInv
<1>1. UNCHANGED <<batch, told, asked>>
  BY DEF launch, setBreakpoints, request_pause, end_of_input, read_or_write_fails, join, wakes, check, ends
<1>2. /\ session' \in Sessions /\ session'.events = session.events
      /\ session'.frame = session.frame /\ session'.step = session.step
  BY <1>0 DEF launch, setBreakpoints, request_pause, end_of_input, read_or_write_fails, join, wakes, check, ends,
              DebugType, Sessions
<1>3. session'.paused = session.paused /\ session'.terminate = session.terminate
  BY <1>0 DEF launch, setBreakpoints, request_pause, end_of_input, read_or_write_fails, join, wakes, check, ends,
              DebugType, Sessions
<1>4. /\ adapter' \in [pc : {"read", "step", "closing", "joining", "over", "failed"}, launched : BOOLEAN,
                       mode : {"next", "out", None}, depth : Nat, stopped : BOOLEAN]
      /\ adapter'.pc = "step" => adapter' = adapter
  BY <1>0 DEF launch, setBreakpoints, request_pause, end_of_input, read_or_write_fails, join, wakes, check, ends,
              DebugType, Reads
<1>5. /\ program' \in {"none", "running", "asleep", "check", "exiting", "ended"}
      /\ program' = "running" => ~session.paused
      /\ ~adapter'.launched => program' = "none" /\ ~adapter.launched
  <2>1. CASE \E stop \in BOOLEAN : launch(stop)
    BY <1>0, <2>1 DEF launch, DebugType, PauseHolds
  <2>2. CASE check
    BY <1>0, <2>2 DEF check, Decide, Sleeps, DebugType, PauseHolds
  <2>3. CASE request_pause
    BY <1>0, <2>3 DEF request_pause, notify_all, DebugType, PauseHolds
  <2>4. CASE \/ \E lines \in SUBSET Lines : setBreakpoints(lines)
             \/ end_of_input \/ read_or_write_fails \/ join
    BY <1>0, <2>4 DEF setBreakpoints, end_of_input, read_or_write_fails, join, DebugType, PauseHolds
  <2>5. CASE wakes \/ ends
    BY <1>0, <2>5 DEF wakes, ends, DebugType, PauseHolds
  <2>6. QED
    BY <2>1, <2>2, <2>3, <2>4, <2>5
<1>6. DebugType'
  BY <1>0, <1>1, <1>2, <1>4, <1>5 DEF DebugType
<1>7. WillBeTold' = WillBeTold
  BY <1>1, <1>2 DEF WillBeTold
<1>8. QED
  BY <1>1, <1>2, <1>3, <1>4, <1>5, <1>6, <1>7, SessionKeeps

(* The events move on; the last word stays.                                *)
LEMMA EventStep ==
    ASSUME DebugInv, exits \/ take_events \/ write_events
    PROVE  DebugInv'
<1>0. DebugType /\ PauseHolds /\ batch \in Seq(Events) /\ session.events \in Seq(Events) /\ told \in News
  BY DEF DebugInv, DebugType, Sessions
<1>1. UNCHANGED <<asked, adapter>>
  BY DEF exits, take_events, write_events
<1>2. CASE exits
  <2>1. session.events \o <<"exited", "terminated">> \in Seq(Events)
    BY <1>0 DEF Events
  <2>2. /\ session' \in Sessions /\ session'.frame = session.frame /\ session'.step = session.step
        /\ session'.events = session.events \o <<"exited", "terminated">>
    BY <1>0, <1>2, <2>1 DEF exits, DebugType, Sessions
  <2>3. session'.paused = session.paused /\ session'.terminate = session.terminate
    BY <1>0, <1>2 DEF exits, DebugType, Sessions
  <2>4. batch \o session.events \in Seq(Events)
    BY <1>0
  <2>5. batch \o (session.events \o <<"exited", "terminated">>) = (batch \o session.events) \o <<"exited", "terminated">>
    <3> DEFINE end == <<"exited", "terminated">>
    <3>1. end \in Seq(Events)
      BY DEF Events
    <3> HIDE DEF end
    <3>2. batch \o (session.events \o end) = (batch \o session.events) \o end
      <4>1. ASSUME NEW a \in Seq(Events), NEW b \in Seq(Events), NEW c \in Seq(Events)
            PROVE  (a \o b) \o c = a \o (b \o c)
        OBVIOUS
      <4>2. QED
        BY <1>0, <3>1, <4>1, Zenon
    <3>3. QED
      BY <3>2 DEF end
  <2>6. WillBeTold' = WillBeTold
    BY <1>0, <1>2, <2>2, <2>4, <2>5, EndIsNoWord DEF WillBeTold, exits
  <2>7. DebugType'
    BY <1>0, <1>1, <1>2, <2>2 DEF exits, DebugType
  <2>8. program' = "ended" /\ program = "exiting"
    BY <1>2 DEF exits
  <2>9. adapter'.launched
    BY <1>0, <1>1, <2>8 DEF PauseHolds
  <2>10. QED
    BY <1>1, <2>2, <2>3, <2>6, <2>7, <2>8, <2>9, SessionKeeps
<1>3. CASE take_events
  <2>2. /\ session' \in Sessions /\ session'.frame = session.frame /\ session'.step = session.step
        /\ session'.events = << >>
    BY <1>0, <1>3 DEF take_events, DebugType, Sessions
  <2>3. session'.paused = session.paused /\ session'.terminate = session.terminate
    BY <1>0, <1>3 DEF take_events, DebugType, Sessions
  <2>4. << >> \o session.events = session.events \o << >>
    BY <1>0
  <2>5. WillBeTold' = WillBeTold
    BY <1>3, <2>2, <2>4 DEF WillBeTold, take_events
  <2>6. DebugType'
    BY <1>0, <1>1, <1>3, <2>2 DEF take_events, DebugType
  <2>7. program' = program
    BY <1>3 DEF take_events
  <2>8. QED
    BY <1>0, <1>1, <2>2, <2>3, <2>5, <2>6, <2>7, SessionKeeps DEF PauseHolds
<1>4. CASE write_events
  <2>1. told' = LastWord(told, batch) /\ batch' = << >> /\ UNCHANGED <<session, program>>
    BY <1>4 DEF write_events
  <2>2. told' \in News
    BY <1>0, <2>1, LastWordExists
  <2>3. << >> \o session.events = session.events
    BY <1>0
  <2>4. WillBeTold' = WillBeTold
    BY <1>0, <2>1, <2>3, PortionsAgree DEF WillBeTold
  <2>5. DebugType'
    BY <1>0, <1>1, <2>1, <2>2 DEF DebugType
  <2>6. QED
    BY <1>0, <1>1, <2>1, <2>4, <2>5, SessionKeeps DEF PauseHolds
<1>5. QED
  BY <1>2, <1>3, <1>4

-----------------------------------------------------------------------------
(* Steps that change the pause.                                            *)

LEMMA QueuedIsToldLast ==
    ASSUME DebugType, NEW e \in News, session'.events = Append(session.events, e), UNCHANGED <<batch, told>>
    PROVE  WillBeTold' = e
<1>0. batch \in Seq(Events) /\ session.events \in Seq(Events) /\ told \in News /\ e \in Events
  BY DEF DebugType, Sessions, Events, News
<1>1. batch \o Append(session.events, e) = Append(batch \o session.events, e)
  <2>1. ASSUME NEW a \in Seq(Events), NEW b \in Seq(Events), NEW x \in Events
        PROVE  a \o Append(b, x) = Append(a \o b, x)
    OBVIOUS
  <2>2. QED
    BY <1>0, <2>1, Zenon
<1>2. batch \o session.events \in Seq(Events)
  BY <1>0
<1>3. LastWord(told, Append(batch \o session.events, e)) = e
  BY <1>0, <1>2, WordIsQueued
<1>4. QED
  BY <1>1, <1>3 DEF WillBeTold

LEMMA NotifyAll ==
    ASSUME DebugInv, notify_all, adapter'.launched = adapter.launched
    PROVE  /\ program' \in {"none", "running", "asleep", "check", "exiting", "ended"}
           /\ program' = "running" => ~session.paused
           /\ ~adapter'.launched => program' = "none" /\ ~adapter.launched
BY DEF DebugInv, DebugType, PauseHolds, notify_all

(* A resume: a step that was asked for while the program was paused starts *)
(* in the frame of the pause.                                              *)
LEMMA ResumeStep ==
    ASSUME DebugInv, NEW step \in [mode : Modes, target : Nat] \cup {None}, NEW stopped \in BOOLEAN,
           resume_session(step, stopped),
           adapter' \in [pc : {"read", "closing", "joining", "over", "failed"}, launched : BOOLEAN,
                         mode : {"next", "out", None}, depth : Nat, stopped : BOOLEAN],
           adapter'.launched = adapter.launched,
           stopped => session.paused,
           stopped /\ step # None =>
              /\ step.mode = "next" => step.target = session.frame.depth
              /\ step.mode = "out" => step.target = IF session.frame.depth = 0 THEN 0
                                                    ELSE session.frame.depth - 1
    PROVE  DebugInv'
<1>0. DebugType /\ PauseHolds /\ session \in Sessions /\ session.frame \in Places \cup {None}
  BY DEF DebugInv, DebugType, Sessions
<1>1. UNCHANGED <<batch, told>> /\ notify_all /\ session' = Resumed(step)
  BY DEF resume_session
<1>2. Append(session.events, "continued") \in Seq(Events)
  BY <1>0 DEF Sessions, Events
<1>3. /\ session' \in Sessions /\ session'.frame = session.frame /\ session'.step = step
      /\ session'.events = Append(session.events, "continued")
  BY <1>0, <1>1, <1>2 DEF Resumed, Sessions
<1>4. ~session'.paused
  BY <1>0, <1>1 DEF Resumed, Sessions
<1>5. WillBeTold' = "continued"
  BY <1>0, <1>1, <1>3, QueuedIsToldLast DEF News
<1>6. asked' = IF stopped /\ step # None THEN [mode |-> step.mode, from |-> session.frame] ELSE None
  BY DEF resume_session
<1>7. stopped => session.frame \in Places
  BY <1>0 DEF PauseHolds
<1>8. asked' \in [mode : Modes, from : Places] \cup {None}
  BY <1>6, <1>7
<1>9. DebugType'
  BY <1>0, <1>1, <1>3, <1>8, NotifyAll DEF DebugType
<1>10. PauseHolds'
  BY <1>1, <1>4, NotifyAll DEF PauseHolds
<1>11. DepthIsCurrent'
  BY DEF DepthIsCurrent
<1>12. EventsTellThePause'
  BY <1>4, <1>5 DEF EventsTellThePause
<1>13. ASSUME asked' # None
       PROVE  /\ step # None /\ stopped /\ session'.frame \in Places
              /\ asked'.mode = step.mode /\ asked'.from = session'.frame
  BY <1>3, <1>6, <1>7, <1>13
<1>14. StepIsAsked'
  BY <1>3, <1>13, DebugConstants DEF StepIsAsked
<1>15. StepStopsAsAsked'
  BY <1>4, <1>13 DEF StepStopsAsAsked
<1>16. QED
  BY <1>9, <1>10, <1>11, <1>12, <1>14, <1>15 DEF DebugInv

LEMMA RequestStep ==
    ASSUME DebugInv, continue \/ stepIn \/ next_or_stepOut
    PROVE  DebugInv'
<1>0. /\ DebugType /\ PauseHolds /\ DepthIsCurrent
      /\ session.frame \in Places \cup {None}
      /\ adapter \in [pc : {"read", "step", "closing", "joining", "over", "failed"}, launched : BOOLEAN,
                      mode : {"next", "out", None}, depth : Nat, stopped : BOOLEAN]
  BY DEF DebugInv, DebugType, Sessions
<1>a. session.paused \in BOOLEAN /\ adapter.stopped \in BOOLEAN
  BY <1>0 DEF DebugType, Sessions
<1>1. CASE continue
  <2>1. adapter' = adapter /\ adapter.pc = "read" /\ resume_session(None, session.paused)
    BY <1>1 DEF continue, Reads
  <2>2. adapter' \in [pc : {"read", "closing", "joining", "over", "failed"}, launched : BOOLEAN,
                      mode : {"next", "out", None}, depth : Nat, stopped : BOOLEAN]
    BY <1>0, <2>1
  <2>3. QED
    BY <1>a, <2>1, <2>2, ResumeStep
<1>2. CASE stepIn
  <2>1. adapter' = adapter /\ adapter.pc = "read" /\ resume_session([mode |-> "in", target |-> 0], session.paused)
    BY <1>2 DEF stepIn, Reads
  <2>2. adapter' \in [pc : {"read", "closing", "joining", "over", "failed"}, launched : BOOLEAN,
                      mode : {"next", "out", None}, depth : Nat, stopped : BOOLEAN]
    BY <1>0, <2>1
  <2>3. PICK step \in [mode : Modes, target : Nat] : step = [mode |-> "in", target |-> 0]
    BY DEF Modes
  <2>4. resume_session(step, session.paused) /\ step.mode = "in"
    BY <2>1, <2>3
  <2>5. QED
    BY <1>a, <2>1, <2>2, <2>4, ResumeStep
<1>3. CASE next_or_stepOut
  <2>1. adapter.pc = "step" /\ resume_session(StepAsked, adapter.stopped) /\ adapter.mode \in {"next", "out"}
    BY <1>0, <1>3 DEF next_or_stepOut, DepthIsCurrent
  <2>2. adapter' \in [pc : {"read", "closing", "joining", "over", "failed"}, launched : BOOLEAN,
                      mode : {"next", "out", None}, depth : Nat, stopped : BOOLEAN]
    BY <1>0, <1>3 DEF next_or_stepOut
  <2>3. adapter'.launched = adapter.launched
    BY <1>0, <1>3 DEF next_or_stepOut
  <2>4. PICK step \in [mode : Modes, target : Nat] :
          /\ step = StepAsked
          /\ step.mode = "next" => step.target = adapter.depth
          /\ step.mode = "out" => step.target = IF adapter.depth = 0 THEN 0 ELSE adapter.depth - 1
    BY <1>0, <2>1 DEF Modes, StepAsked, OutTarget
  <2>5. adapter.stopped => session.paused /\ adapter.depth = session.frame.depth
    BY <1>0, <2>1 DEF DepthIsCurrent
  <2>6. resume_session(step, adapter.stopped)
    BY <2>1, <2>4
  <2>7. QED
    BY <1>a, <2>2, <2>3, <2>4, <2>5, <2>6, ResumeStep
<1>4. QED
  BY <1>1, <1>2, <1>3

LEMMA DepthStep ==
    ASSUME DebugInv, NEW mode \in {"next", "out"}, current_depth(mode)
    PROVE  DebugInv'
<1>0. DebugType /\ PauseHolds /\ session.frame \in Places \cup {None}
  BY DEF DebugInv, DebugType, Sessions
<1>1. UNCHANGED <<session, program, batch, told, asked>>
  BY DEF current_depth
<1>2. \A p \in Places : p.depth \in Nat
  BY DebugConstants DEF Places
<1>3. adapter' \in [pc : {"read", "step", "closing", "joining", "over", "failed"}, launched : BOOLEAN,
                    mode : {"next", "out", None}, depth : Nat, stopped : BOOLEAN]
  BY <1>0, <1>2 DEF current_depth, DebugType, Sessions
<1>4. /\ adapter'.mode = mode /\ adapter'.depth = IF session.frame = None THEN 0 ELSE session.frame.depth
  BY <1>0 DEF current_depth, DebugType
<1>5. adapter'.stopped = session.paused /\ adapter'.launched = adapter.launched
  BY <1>0 DEF current_depth, DebugType
<1>6. DebugType' /\ PauseHolds'
  BY <1>0, <1>1, <1>3, <1>5 DEF DebugType, PauseHolds
<1>7. DepthIsCurrent'
  BY <1>0, <1>1, <1>4, <1>5 DEF DepthIsCurrent, PauseHolds
<1>8. StepIsAsked' /\ EventsTellThePause' /\ StepStopsAsAsked'
  BY <1>1 DEF DebugInv, StepIsAsked, EventsTellThePause, StepStopsAsAsked, WillBeTold
<1>9. QED
  BY <1>6, <1>7, <1>8 DEF DebugInv

LEMMA TerminateStep ==
    ASSUME DebugInv, disconnect \/ close
    PROVE  DebugInv'
<1>0. DebugType /\ PauseHolds
  BY DEF DebugInv
<1>1. UNCHANGED <<batch, told>> /\ asked' = None /\ notify_all
  BY DEF disconnect, close, terminate_session
<1>2. /\ session' \in Sessions /\ session'.frame = session.frame /\ session'.step = session.step
  BY <1>0 DEF disconnect, close, terminate_session, DebugType, Sessions
<1>3. session'.terminate /\ ~session'.paused
  BY <1>0 DEF disconnect, close, terminate_session, DebugType, Sessions
<1>4. /\ adapter' \in [pc : {"read", "step", "closing", "joining", "over", "failed"}, launched : BOOLEAN,
                       mode : {"next", "out", None}, depth : Nat, stopped : BOOLEAN]
      /\ adapter'.pc # "step"
      /\ adapter'.launched = adapter.launched
  <2>1. PICK pc \in {"closing", "joining", "failed"} : adapter' = [adapter EXCEPT !.pc = pc]
    BY DEF disconnect, close
  <2>2. QED
    BY <1>0, <2>1 DEF DebugType
<1>5. adapter'.launched = adapter.launched
  BY <1>4
<1>6. DebugType'
  BY <1>0, <1>1, <1>2, <1>4, <1>5, NotifyAll DEF DebugType
<1>7. PauseHolds'
  BY <1>1, <1>3, <1>5, NotifyAll DEF PauseHolds
<1>8. DepthIsCurrent'
  BY <1>4 DEF DepthIsCurrent
<1>9. StepIsAsked'
  BY <1>1 DEF StepIsAsked
<1>10. EventsTellThePause' /\ StepStopsAsAsked'
  BY <1>3 DEF EventsTellThePause, StepStopsAsAsked
<1>11. QED
  BY <1>6, <1>7, <1>8, <1>9, <1>10 DEF DebugInv


-----------------------------------------------------------------------------
(* The hook.                                                               *)

\* The place is where a step of the mode may stop.
Beyond(mode, at, from) ==
    CASE mode = "next" -> at.depth <= from.depth
      [] mode = "out"  -> at.depth < from.depth \/ at.depth = 0
      [] mode = "in"   -> at # from

LEMMA StepStopsIs ==
    StepStopsAsAsked <=>
      (asked # None /\ ~session.terminate =>
         IF session.paused THEN Beyond(asked.mode, session.frame, asked.from)
         ELSE \/ session.step = None \/ session.frame = asked.from
              \/ ~Beyond(asked.mode, session.frame, asked.from))
BY DEF StepStopsAsAsked, Beyond

(* A step of a program that goes on from a place: the hook stops only      *)
(* beyond, and what it passes is not beyond.                               *)
LEMMA StepPauseIsRight ==
    ASSUME DebugInv, ~session.paused, ~session.terminate, asked # None, session.step # None,
           NEW place \in Places
    PROVE  /\ step_pause(place) => Beyond(asked.mode, place, asked.from)
           /\ ~step_pause(place) => place = asked.from \/ ~Beyond(asked.mode, place, asked.from)
<1>1. /\ asked.mode \in Modes /\ asked.from \in Places /\ session.frame \in Places
      /\ session.step.mode = asked.mode /\ session.step.target \in Nat
  BY DEF DebugInv, DebugType, Sessions, StepIsAsked
<1>2. \A p \in Places : p.depth \in Nat
  BY DebugConstants DEF Places
<1>3. session.frame = asked.from \/ ~Beyond(asked.mode, session.frame, asked.from)
  BY StepStopsIs DEF DebugInv
<1>4. CASE asked.mode = "next"
  <2>1. session.step.target = asked.from.depth
    BY <1>4 DEF DebugInv, StepIsAsked
  <2>2. step_pause(place) <=> \/ place.depth < session.step.target
                              \/ place.depth <= session.step.target /\ place # session.frame
    BY <1>1, <1>4 DEF step_pause, line_changed
  <2>3. QED
    BY <1>1, <1>2, <1>3, <1>4, <2>1, <2>2 DEF Beyond
<1>5. CASE asked.mode = "out"
  <2>1. session.step.target = IF asked.from.depth = 0 THEN 0 ELSE asked.from.depth - 1
    BY <1>5 DEF DebugInv, StepIsAsked
  <2>2. step_pause(place) <=> /\ place.depth <= session.step.target
                              /\ (place.depth < PrevDepth \/ place # session.frame)
    BY <1>1, <1>5 DEF step_pause, line_changed
  <2>3. PrevDepth = session.frame.depth
    BY <1>1, DebugConstants DEF PrevDepth
  <2>4. QED
    BY <1>1, <1>2, <1>3, <1>5, <2>1, <2>2, <2>3 DEF Beyond
<1>6. CASE asked.mode = "in"
  <2>1. step_pause(place) <=> place # session.frame \/ place.depth > PrevDepth
    BY <1>1, <1>6 DEF step_pause, line_changed
  <2>2. PrevDepth = session.frame.depth
    BY <1>1, DebugConstants DEF PrevDepth
  <2>3. QED
    BY <1>1, <1>2, <1>3, <1>6, <2>1, <2>2 DEF Beyond
<1>7. QED
  BY <1>1, <1>4, <1>5, <1>6 DEF Modes

LEMMA HookStep ==
    ASSUME DebugInv, NEW place \in Places, hook(place)
    PROVE  DebugInv'
<1> DEFINE others == should_stop_entry \/ at_breakpoint(place) \/ session.pause_requested
           stops == others \/ step_pause(place)
<1>0. DebugType /\ PauseHolds /\ program = "running" /\ session \in Sessions /\ session.events \in Seq(Events)
  BY DEF DebugInv, DebugType, Sessions, hook
<1>1. ~session.paused /\ adapter.launched /\ place # None
  BY <1>0, DebugConstants DEF PauseHolds
<1>2. UNCHANGED <<adapter, batch, told>> /\ Decide(session')
  BY DEF hook
<1>3. asked' = IF others THEN None ELSE asked
  BY DEF hook
<1>4. program' \in {"asleep", "exiting", "running"} /\ (program' = "running" => ~session'.paused \/ session'.terminate)
  BY <1>2 DEF Decide, Sleeps
<1>5. session' = IF stops
                 THEN [session EXCEPT !.frame = place, !.started = TRUE, !.step = None,
                                      !.pause_requested = FALSE, !.paused = TRUE,
                                      !.events = Append(@, "stopped")]
                 ELSE [session EXCEPT !.frame = place, !.started = TRUE]
  BY <1>0 DEF hook, Sessions
<1>6. Append(session.events, "stopped") \in Seq(Events)
  BY <1>0 DEF Events
<1> HIDE DEF others, stops
<1>7. CASE stops
  <2>1. /\ session' \in Sessions /\ session'.frame = place /\ session'.step = None
        /\ session'.events = Append(session.events, "stopped")
    BY <1>0, <1>5, <1>6, <1>7 DEF Sessions
  <2>2. session'.paused
    BY <1>0, <1>5, <1>7 DEF Sessions
  <2>3. session'.terminate = session.terminate
    BY <1>0, <1>5, <1>7 DEF Sessions
  <2>4. program' # "running"
    BY <1>2, <2>2 DEF Decide, Sleeps
  <2>5. WillBeTold' = "stopped"
    BY <1>0, <1>2, <2>1, QueuedIsToldLast DEF News
  <2>6. DebugType'
    BY <1>0, <1>2, <1>3, <1>4, <2>1 DEF DebugType
  <2>7. PauseHolds'
    BY <1>1, <1>2, <2>1, <2>4 DEF PauseHolds
  <2>8. DepthIsCurrent'
    BY <1>1, <1>2 DEF DebugInv, DepthIsCurrent
  <2>9. StepIsAsked'
    BY <1>1, <2>1 DEF StepIsAsked
  <2>10. EventsTellThePause'
    BY <2>2, <2>5 DEF EventsTellThePause
  <2>11. ASSUME asked' # None, ~session'.terminate PROVE Beyond(asked'.mode, session'.frame, asked'.from)
    <3>1. ~others /\ asked' = asked /\ step_pause(place)
      BY <1>3, <1>7, <2>11 DEF stops
    <3>2. session.step # None
      BY <3>1 DEF step_pause
    <3>3. Beyond(asked.mode, place, asked.from)
      BY <1>1, <2>3, <2>11, <3>1, <3>2, StepPauseIsRight
    <3>4. QED
      BY <2>1, <3>1, <3>3
  <2>12. StepStopsAsAsked'
    BY <2>2, <2>11 DEF StepStopsAsAsked, Beyond
  <2>13. QED
    BY <2>6, <2>7, <2>8, <2>9, <2>10, <2>12 DEF DebugInv
<1>8. CASE ~stops
  <2>1. /\ session' \in Sessions /\ session'.frame = place /\ session'.step = session.step
        /\ session'.events = session.events
    BY <1>0, <1>5, <1>8 DEF Sessions
  <2>2. ~session'.paused
    BY <1>0, <1>1, <1>5, <1>8 DEF Sessions
  <2>3. session'.terminate = session.terminate
    BY <1>0, <1>5, <1>8 DEF Sessions
  <2>4. asked' = asked /\ ~step_pause(place)
    BY <1>3, <1>8 DEF stops
  <2>5. WillBeTold' = WillBeTold
    BY <1>2, <2>1 DEF WillBeTold
  <2>6. DebugType'
    BY <1>0, <1>2, <1>4, <2>1, <2>4 DEF DebugType
  <2>7. PauseHolds'
    BY <1>1, <1>2, <2>2 DEF PauseHolds
  <2>8. DepthIsCurrent'
    BY <1>1, <1>2 DEF DebugInv, DepthIsCurrent
  <2>9. StepIsAsked'
    BY <1>1, <2>1, <2>4 DEF DebugInv, StepIsAsked
  <2>10. EventsTellThePause'
    BY <1>1, <2>2, <2>3, <2>5 DEF DebugInv, EventsTellThePause
  <2>11. ASSUME asked' # None, ~session'.terminate, session'.step # None
         PROVE  session'.frame = asked'.from \/ ~Beyond(asked'.mode, session'.frame, asked'.from)
    <3>1. place = asked.from \/ ~Beyond(asked.mode, place, asked.from)
      BY <1>1, <2>1, <2>3, <2>4, <2>11, StepPauseIsRight
    <3>2. QED
      BY <2>1, <2>4, <3>1
  <2>12. StepStopsAsAsked'
    BY <2>2, <2>11 DEF StepStopsAsAsked, Beyond
  <2>13. QED
    BY <2>6, <2>7, <2>8, <2>9, <2>10, <2>12 DEF DebugInv
<1>9. QED
  BY <1>7, <1>8

-----------------------------------------------------------------------------
(* The theorems.                                                           *)

LEMMA DebugInitially == Init => DebugInv
<1> SUFFICES ASSUME Init PROVE DebugInv
  OBVIOUS
<1>1. << >> \in Seq(Events)
  OBVIOUS
<1>2. DebugType
  BY <1>1 DEF Init, Resting, DebugType, Sessions, News
<1>3. PauseHolds /\ DepthIsCurrent /\ StepIsAsked /\ StepStopsAsAsked
  BY DEF Init, Resting, PauseHolds, DepthIsCurrent, StepIsAsked, StepStopsAsAsked
<1>4. Row("continued", << >>)[1] = "continued" /\ Len(<< >>) = 0
  BY <1>1, RowFacts DEF News
<1>5. IsLast(Row("continued", << >>), Len(<< >>) + 1, 1)
  BY <1>4 DEF IsLast, News
<1>6. LastWord("continued", << >>) = "continued"
  BY <1>1, <1>4, <1>5, LastWordIs DEF News
<1>7. << >> \o << >> = << >>
  OBVIOUS
<1>8. WillBeTold = "continued" /\ ~session.paused
  BY <1>6, <1>7 DEF Init, WillBeTold
<1>9. EventsTellThePause
  BY <1>8 DEF EventsTellThePause
<1>10. QED
  BY <1>2, <1>3, <1>9 DEF DebugInv

LEMMA DebugStutters == DebugInv /\ UNCHANGED vars => DebugInv'
<1> SUFFICES ASSUME DebugInv, UNCHANGED vars PROVE DebugInv'
  OBVIOUS
<1>1. DebugType'
  BY DEF DebugInv, DebugType, vars
<1>2. PauseHolds' /\ DepthIsCurrent'
  BY DEF DebugInv, PauseHolds, DepthIsCurrent, vars
<1>3. StepIsAsked'
  BY DEF DebugInv, StepIsAsked, vars
<1>4. EventsTellThePause'
  BY DEF DebugInv, EventsTellThePause, WillBeTold, vars
<1>5. StepStopsAsAsked'
  BY DEF DebugInv, StepStopsAsAsked, vars
<1>6. QED
  BY <1>1, <1>2, <1>3, <1>4, <1>5 DEF DebugInv

(* The invariant holds in every reachable state.                           *)
THEOREM DebugInvariant == Spec => []DebugInv
<1>1. DebugInv /\ [Next]_vars => DebugInv'
  <2> SUFFICES ASSUME DebugInv, [Next]_vars PROVE DebugInv'
    OBVIOUS
  <2>1. CASE \/ \E stop \in BOOLEAN : launch(stop)
             \/ \E lines \in SUBSET Lines : setBreakpoints(lines)
             \/ request_pause \/ end_of_input \/ read_or_write_fails \/ join
             \/ wakes \/ check \/ ends
    BY <2>1, QuietStep
  <2>2. CASE exits \/ take_events \/ write_events
    BY <2>2, EventStep
  <2>3. CASE continue \/ stepIn \/ next_or_stepOut
    BY <2>3, RequestStep
  <2>4. CASE \E mode \in {"next", "out"} : current_depth(mode)
    BY <2>4, DepthStep
  <2>5. CASE disconnect \/ close
    BY <2>5, TerminateStep
  <2>6. CASE \E place \in Places : hook(place)
    BY <2>6, HookStep
  <2>7. CASE UNCHANGED vars
    BY <2>7, DebugStutters
  <2>8. QED
    BY <2>1, <2>2, <2>3, <2>4, <2>5, <2>6, <2>7 DEF Next
<1>2. QED
  BY <1>1, DebugInitially, PTL DEF Spec

(* Until the session is terminated, the last event about the pause that is *)
(* written, taken or queued says whether the program is paused, in every   *)
(* interleaving of requests, hook and event thread.                        *)
THEOREM EventsAreTrue == Spec => []EventsTellThePause
<1>1. DebugInv => EventsTellThePause
  BY DEF DebugInv
<1>2. QED
  BY <1>1, DebugInvariant, PTL

(* A step that was asked for while the program was paused stops where its  *)
(* mode says, and the hook passes no place where it should have stopped.   *)
THEOREM StepsStopAsAsked == Spec => []StepStopsAsAsked
<1>1. DebugInv => StepStopsAsAsked
  BY DEF DebugInv
<1>2. QED
  BY <1>1, DebugInvariant, PTL
=============================================================================
