--------------------------- MODULE RecorderProofs ---------------------------
(***************************************************************************)
(* Proofs about Recorder, for any benchmarks, of any numbers of operations *)
(* and of operations at a time, and any size of the channel of events.     *)
(***************************************************************************)
EXTENDS Recorder, FiniteSetTheorems, SequenceTheorems, TLAPS

\* The states of a request that holds the mutex, and those it can be in before
\* and after it has opened its recorder.
Locked == {"wait to open", "close to open", "join to open", "open",
           "wait to end", "close to end", "join to end"}
Unopened == {"idle", "init", "wait to open", "close to open", "join to open", "open"}
Opened == {"operating", "answered", "wait to end", "close to end", "join to end"}

\* The operations that have counted an event for a recorder and not sent it yet.
Sending(r) == {x \in Operations : op[x] = "send" /\ held[x] = r}

\* A timer that has stopped has a number and a recorder to send to, and the
\* channel of a recorder has a limit.
OperationsOK ==
    /\ \A x \in Operations :
          /\ op[x] \in {"add", "send"} => held[x] \in Benchmarks /\ at[x] \in DOMAIN Timers(x[1])
          /\ op[x] \in {"add", "send"} => channel[held[x]] # "none"
          /\ op[x] = "done" /\ ok[x] => at[x] >= Len(Timers(x[1]))
          /\ op[x] \notin {"none", "done"} => pc[x[1]] = "operating"
          /\ op[x] = "none" <=> channel[x[1]] = "none"
    /\ \A r \in Benchmarks : Len(events[r]) <= BufferSize

\* The WaitGroup of a recorder counts the events on their way to its file.
CountIsExact ==
    \A r \in Benchmarks :
        /\ IsFiniteSet(Sending(r))
        /\ ~panicked => pending[r] = Len(events[r]) + Cardinality(Sending(r))

\* One request at a time shuts down or opens a recorder.
MutexHolds ==
    \A b \in Benchmarks :
        /\ pc[b] \in Locked <=> mu = b
        /\ pc[b] \in Locked \ {"open"} => recorder # Nil
        /\ pc[b] \in {"join to open", "join to end"} => channel[recorder] \in {"closed", "done"}

\* A recorder is opened once, and empty before that and when it is done.
LifeCycle ==
    /\ recorder # Nil => channel[recorder] # "none"
    /\ \A b \in Benchmarks :
          /\ pc[b] \in Unopened => channel[b] = "none"
          /\ pc[b] \in Opened => channel[b] # "none"
          /\ channel[b] \in {"none", "done"} => events[b] = << >>

\* Two requests that are active have overlapped.
OverlapIsKnown ==
    \A b, c \in Benchmarks : b # c /\ Active(b) /\ Active(c) => b \in overlapped

\* A request that overlaps with no other has its own recorder.
OwnRecorder ==
    \A b \in Benchmarks \ overlapped :
        /\ recorder = b => pc[b] \in Opened
        /\ pc[b] \in Opened => recorder = b
        /\ pc[b] \in Opened \ {"join to end"} => channel[b] = "open"
        /\ pc[b] = "ended" => channel[b] \in {"none", "done"}
        /\ \A x \in Operations : op[x] \in {"add", "send"} => (held[x] = b <=> x[1] = b)

\* What is on its way to its file, or in it, is its own, and has every event
\* its operations have sent but those dropped.
OwnEvents ==
    \A b \in Benchmarks \ overlapped :
        /\ \A e \in file[b] \cup Range(events[b]) : e[1] = b
        /\ \A x \in OperationsOf(b) : \A i \in 1..Len(Timers(b)) :
              i < at[x] \/ (i = at[x] /\ op[x] = "done" /\ ok[x]) =>
                 <<b, x[2], i>> \in file[b] \cup Range(events[b]) \cup dropped

\* Either benchmarks have overlapped or an operation has met an answer without
\* a download, which is the end of the process.
PanicIsCaused ==
    /\ panicked => overlapped # {} \/ \E x \in Operations : op[x] = "crashed"
    /\ \A x \in Operations : op[x] = "crashed" => panicked

RecorderInv ==
    /\ RecorderTypeOK /\ OperationsOK /\ CountIsExact /\ MutexHolds /\ LifeCycle
    /\ OverlapIsKnown /\ OwnRecorder /\ OwnEvents /\ PanicIsCaused

-----------------------------------------------------------------------------
(* The operations and their events. *)

LEMMA TimersAreNumbered ==
  ASSUME NEW b \in Benchmarks
  PROVE  Len(Timers(b)) \in Nat /\ DOMAIN Timers(b) = 1..Len(Timers(b))
<1> DEFINE Numbered(timers) == Len(timers) \in Nat /\ DOMAIN timers = 1..Len(timers)
<1>1. Endpoint[b] \in DOMAIN Endpoints
  BY RecorderAssumption
<1>2. /\ Numbered(SnapcraftUpload) /\ Numbered(SnapdDownload) /\ Numbered(CohortKeys)
      /\ Numbered(FindSnaps) /\ Numbered(DeltaUpload) /\ Numbered(DeltaDownload)
      /\ Numbered(SnapRevisionUpload) /\ Numbered(RegisterName)
  BY DEF SnapcraftUpload, SnapdDownload, CohortKeys, FindSnaps, DeltaUpload,
         DeltaDownload, SnapRevisionUpload, RegisterName
<1> HIDE DEF Numbered
<1>3. \A name \in DOMAIN Endpoints : Numbered(Endpoints[name])
  BY <1>2 DEF Endpoints
<1> QED BY <1>1, <1>3 DEF Timers, Numbered

LEMMA OperationsAreNumbered ==
  ASSUME NEW x \in Operations
  PROVE  x[1] \in Benchmarks /\ x[2] \in 1..Total[x[1]] /\ x = <<x[1], x[2]>>
BY DEF Operations

\* A timer that stops has an event.
LEMMA EventIsTyped ==
  ASSUME NEW x \in Operations, at[x] \in DOMAIN Timers(x[1])
  PROVE  EventOf(x) \in Events /\ EventOf(x)[1] = x[1]
<1>1. x[1] \in Benchmarks /\ x[2] \in 1..Total[x[1]]
  BY OperationsAreNumbered
<1>2. at[x] \in 1..Len(Timers(x[1]))
  BY <1>1, TimersAreNumbered
<1> QED BY <1>1, <1>2 DEF EventOf, Events

LEMMA ProceedEffect ==
  ASSUME RecorderTypeOK, NEW x \in Operations, NEW success \in BOOLEAN, Proceed(x, success)
  PROVE  /\ op' \in [Operations -> {"none", "waiting", "timing", "add", "send", "done", "crashed"}]
         /\ at' \in [Operations -> Nat \ {0}]
         /\ op'[x] \in {"timing", "done"}
         /\ \A y \in Operations \ {x} : op'[y] = op[y] /\ at'[y] = at[y]
         /\ op'[x] = "timing" => success /\ at'[x] = at[x] + 1 /\ at[x] < Len(Timers(x[1]))
         /\ op'[x] = "done" => at'[x] = at[x] /\ (success => ~(at[x] < Len(Timers(x[1]))))
<1> DEFINE more == success /\ at[x] < Len(Timers(x[1]))
<1>1. /\ op \in [Operations -> {"none", "waiting", "timing", "add", "send", "done", "crashed"}]
      /\ at \in [Operations -> Nat \ {0}] /\ at[x] + 1 \in Nat \ {0}
  <2>1. at \in [Operations -> Nat \ {0}] /\ at[x] \in Nat
    BY DEF RecorderTypeOK
  <2>2. at[x] + 1 \in Nat \ {0}
    BY <2>1
  <2> QED BY <2>1, <2>2 DEF RecorderTypeOK
<1>2. CASE more
  <2>1. op' = [op EXCEPT ![x] = "timing"] /\ at' = [at EXCEPT ![x] = @ + 1]
    BY <1>2 DEF Proceed
  <2> QED BY <1>1, <1>2, <2>1
<1>3. CASE ~more
  <2>1. op' = [op EXCEPT ![x] = "done"] /\ at' = at
    BY <1>3 DEF Proceed
  <2> QED BY <1>1, <1>3, <2>1
<1> QED BY <1>2, <1>3

-----------------------------------------------------------------------------
(* The invariant holds at first. *)

LEMMA RecorderInitially == RecorderInit => RecorderInv
<1> SUFFICES ASSUME RecorderInit PROVE RecorderInv
  OBVIOUS
<1> USE RecorderAssumption DEF RecorderInit
<1>1. RecorderTypeOK
  <2>1. << >> \in Seq(Events)
    BY EmptySeq
  <2>2. events \in [Benchmarks -> Seq(Events)]
    BY <2>1
  <2>3. /\ file \in [Benchmarks -> SUBSET Events] /\ at \in [Operations -> Nat \ {0}]
        /\ pending \in [Benchmarks -> Nat]
    OBVIOUS
  <2> QED BY <2>2, <2>3 DEF RecorderTypeOK
<1>2. OperationsOK
  BY OperationsAreNumbered DEF OperationsOK
<1>3. CountIsExact
  <2>1. \A r \in Benchmarks : Sending(r) = {}
    BY DEF Sending
  <2>2. \A r \in Benchmarks : IsFiniteSet(Sending(r)) /\ Cardinality(Sending(r)) = 0
    BY <2>1, FS_EmptySet
  <2>3. \A r \in Benchmarks : pending[r] = 0 /\ Len(events[r]) = 0
    OBVIOUS
  <2> QED BY <2>2, <2>3 DEF CountIsExact
<1>4. MutexHolds /\ LifeCycle /\ OverlapIsKnown /\ PanicIsCaused
  BY DEF MutexHolds, Locked, LifeCycle, Unopened, Opened, OverlapIsKnown, Active, PanicIsCaused
<1>5. OwnRecorder
  BY DEF OwnRecorder, Opened
<1>6. OwnEvents
  <2>1. \A x \in Operations, i \in Nat \ {0} : ~(i < at[x]) /\ op[x] # "done"
    OBVIOUS
  <2>2. Range(<< >>) = {}
    BY DEF Range
  <2> QED BY <2>1, <2>2 DEF OwnEvents, OperationsOf
<1> QED BY <1>1, <1>2, <1>3, <1>4, <1>5, <1>6 DEF RecorderInv

-----------------------------------------------------------------------------
(* The types. *)

\* An event in a channel, or on its way into it, is counted.
LEMMA EventsAreCounted ==
  ASSUME RecorderTypeOK, CountIsExact, ~panicked, NEW r \in Benchmarks, events[r] # << >>
  PROVE  /\ Len(events[r]) \in Nat \ {0} /\ Cardinality(Sending(r)) \in Nat
         /\ pending[r] = Len(events[r]) + Cardinality(Sending(r))
         /\ pending[r] - 1 \in Nat
<1>1. events[r] \in Seq(Events)
  BY DEF RecorderTypeOK
<1>2. Len(events[r]) \in Nat \ {0}
  BY <1>1, EmptySeq, LenProperties
<1>3. /\ Cardinality(Sending(r)) \in Nat
      /\ pending[r] = Len(events[r]) + Cardinality(Sending(r))
  BY FS_CardinalityType DEF CountIsExact
<1> QED BY <1>2, <1>3

LEMMA RecorderTypeStep ==
  ASSUME RecorderTypeOK, OperationsOK, CountIsExact, RecorderNext
  PROVE  RecorderTypeOK'
<1>1. ASSUME NEW b \in Benchmarks, Request(b) \/ HandlerStep(b)
      PROVE  RecorderTypeOK'
  <2>1. CASE Request(b)
    BY <2>1 DEF Request, Goto, RecorderTypeOK
  <2>2. CASE Lock(b) \/ NothingToShutDown(b) \/ Waited(b) \/ CloseAgain(b)
    BY <2>2 DEF Lock, NothingToShutDown, Waited, CloseAgain, Goto, RecorderTypeOK
  <2>3. CASE Close(b) \/ Joined(b)
    BY <2>3 DEF Close, Joined, Goto, RecorderTypeOK
  <2>4. CASE OpenRecorder(b)
    BY <2>4 DEF OpenRecorder, Goto, RecorderTypeOK
  <2>5. CASE OpenFails(b) \/ Answer(b)
    BY <2>5 DEF OpenFails, Answer, Goto, RecorderTypeOK
  <2> QED BY <1>1, <2>1, <2>2, <2>3, <2>4, <2>5 DEF HandlerStep
<1>2. ASSUME NEW r \in Benchmarks, RunStep(r)
      PROVE  RecorderTypeOK'
  <2>1. CASE WriteEvent(r)
    <3>1. Head(events[r]) \in Events /\ Tail(events[r]) \in Seq(Events)
      BY <2>1, HeadTailProperties DEF WriteEvent, RecorderTypeOK
    <3>2. pending[r] - 1 \in Nat
      BY <2>1, EventsAreCounted DEF WriteEvent, RecorderNext
    <3>3. /\ file' \in [Benchmarks -> SUBSET Events] /\ events' \in [Benchmarks -> Seq(Events)]
          /\ pending' \in [Benchmarks -> Nat]
      BY <2>1, <3>1, <3>2 DEF WriteEvent, RecorderTypeOK
    <3> QED BY <2>1, <3>3 DEF WriteEvent, RecorderTypeOK
  <2>2. CASE CloseFile(r)
    BY <2>2 DEF CloseFile, RecorderTypeOK
  <2> QED BY <1>2, <2>1, <2>2 DEF RunStep
<1>3. ASSUME NEW x \in Operations, OperationStep(x)
      PROVE  RecorderTypeOK'
  <2>1. CASE Acquire(x)
    BY <2>1 DEF Acquire, RecorderTypeOK
  <2>2. CASE StopTimer(x)
    <3>1. PICK success \in BOOLEAN :
             /\ ok' = [ok EXCEPT ![x] = success]
             /\ IF recorder = Nil THEN Proceed(x, success)
                ELSE op' = [op EXCEPT ![x] = "add"] /\ UNCHANGED at
      BY <2>2 DEF StopTimer, RecorderTypeOK
    <3>2. /\ op' \in [Operations -> {"none", "waiting", "timing", "add", "send", "done", "crashed"}]
          /\ at' \in [Operations -> Nat \ {0}]
      <4>1. CASE recorder = Nil
        BY <3>1, <4>1, ProceedEffect
      <4>2. CASE recorder # Nil
        BY <3>1, <4>2 DEF RecorderTypeOK
      <4> QED BY <4>1, <4>2
    <3> QED BY <2>2, <3>1, <3>2 DEF StopTimer, RecorderTypeOK
  <2>3. CASE EndUntimed(x)
    BY <2>3 DEF EndUntimed, RecorderTypeOK
  <2>6. CASE NothingToDownload(x)
    BY <2>6 DEF NothingToDownload, RecorderTypeOK
  <2>4. CASE Add(x)
    <3>1. held[x] \in Benchmarks
      BY <2>4 DEF Add, OperationsOK
    <3>2. pending' \in [Benchmarks -> Nat] /\ op' = [op EXCEPT ![x] = "send"]
      <4>1. pending' = [pending EXCEPT ![held[x]] = @ + 1] /\ op' = [op EXCEPT ![x] = "send"]
        BY <2>4 DEF Add
      <4>2. pending[held[x]] + 1 \in Nat
        <5>1. pending[held[x]] \in Nat
          BY <3>1 DEF RecorderTypeOK
        <5> QED BY <5>1
      <4> QED BY <3>1, <4>1, <4>2 DEF RecorderTypeOK
    <3> QED BY <2>4, <3>2 DEF Add, RecorderTypeOK
  <2>5. CASE Send(x)
    <3> DEFINE r == held[x]
    <3>1. r \in Benchmarks /\ EventOf(x) \in Events
      BY <2>5, EventIsTyped DEF Send, OperationsOK
    <3>2. /\ op' \in [Operations -> {"none", "waiting", "timing", "add", "send", "done", "crashed"}]
          /\ at' \in [Operations -> Nat \ {0}]
      BY <2>5, ProceedEffect DEF Send, RecorderTypeOK
    <3>3. CASE channel[r] = "open" /\ Len(events[r]) < BufferSize
      <4>1. /\ events' = [events EXCEPT ![r] = Append(@, EventOf(x))]
            /\ UNCHANGED <<pending, dropped, panicked>>
        <5>1. Len(events[r]) # BufferSize
          BY <3>3, RecorderAssumption
        <5> QED BY <2>5, <3>3, <5>1 DEF Send
      <4>2. events' \in [Benchmarks -> Seq(Events)]
        BY <3>1, <4>1, AppendProperties DEF RecorderTypeOK
      <4> QED BY <2>5, <3>2, <4>1, <4>2 DEF Send, RecorderTypeOK
    <3>4. CASE channel[r] = "open" /\ Len(events[r]) = BufferSize
      <4>1. pending[r] - 1 \in Nat
        <5>1. events[r] # << >>
          BY <3>4, RecorderAssumption, EmptySeq
        <5> QED BY <3>1, <5>1, EventsAreCounted DEF RecorderNext
      <4>2. /\ pending' = [pending EXCEPT ![r] = @ - 1]
            /\ dropped' = dropped \cup {EventOf(x)}
            /\ UNCHANGED <<events, panicked>>
        <5>1. ~(Len(events[r]) < BufferSize)
          BY <3>4, RecorderAssumption
        <5> QED BY <2>5, <3>4, <5>1 DEF Send
      <4>3. pending' \in [Benchmarks -> Nat] /\ dropped' \subseteq Events
        BY <3>1, <4>1, <4>2 DEF RecorderTypeOK
      <4> QED BY <2>5, <3>2, <4>2, <4>3 DEF Send, RecorderTypeOK
    <3>5. CASE channel[r] # "open"
      BY <2>5, <3>2, <3>5 DEF Send, RecorderTypeOK
    <3> QED BY <2>5, <3>3, <3>4, <3>5 DEF Send
  <2> QED BY <1>3, <2>1, <2>2, <2>3, <2>4, <2>5, <2>6 DEF OperationStep
<1> QED BY <1>1, <1>2, <1>3 DEF RecorderNext

-----------------------------------------------------------------------------
(* What the steps do. *)

\* The steps of requests and recorders leave the operations as they are, but
\* for those of a benchmark that begins.
LEMMA HandlerLeaves ==
  ASSUME RecorderTypeOK, NEW b \in Benchmarks, Request(b) \/ HandlerStep(b)
  PROVE  /\ UNCHANGED <<events, pending, file, at, ok, held, dropped, panicked>>
         /\ \A c \in Benchmarks \ {b} : pc'[c] = pc[c]
         /\ ~OpenRecorder(b) => UNCHANGED op
         /\ ~Request(b) => UNCHANGED overlapped
<1> USE DEF RecorderTypeOK
<1>1. CASE Request(b)
  BY <1>1 DEF Request, Goto
<1>2. CASE Lock(b) \/ NothingToShutDown(b) \/ Waited(b) \/ CloseAgain(b)
  BY <1>2 DEF Lock, NothingToShutDown, Waited, CloseAgain, Goto, Request
<1>3. CASE Close(b) \/ Joined(b) \/ OpenRecorder(b)
  BY <1>3 DEF Close, Joined, OpenRecorder, Goto
<1>4. CASE OpenFails(b) \/ Answer(b)
  BY <1>4 DEF OpenFails, Answer, Goto
<1> QED BY <1>1, <1>2, <1>3, <1>4 DEF HandlerStep

\* The step of an operation leaves the requests and all other operations as
\* they are.
LEMMA OperationLeaves ==
  ASSUME RecorderTypeOK, NEW x \in Operations, OperationStep(x)
  PROVE  /\ UNCHANGED <<mu, recorder, channel, file, pc, overlapped>>
         /\ \A y \in Operations \ {x} :
               /\ op'[y] = op[y] /\ at'[y] = at[y]
               /\ ok'[y] = ok[y] /\ held'[y] = held[y]
         /\ op[x] \notin {"none", "done"} /\ op'[x] # "none"
         /\ at'[x] = at[x] \/ at'[x] = at[x] + 1
<1>1. CASE Acquire(x)
  BY <1>1 DEF Acquire, RecorderTypeOK
<1>2. CASE StopTimer(x)
  <2>1. PICK success \in BOOLEAN :
           /\ Timed(x, success)
           /\ ok' = [ok EXCEPT ![x] = success]
           /\ IF recorder = Nil THEN Proceed(x, success)
              ELSE op' = [op EXCEPT ![x] = "add"] /\ UNCHANGED at
    BY <1>2 DEF StopTimer
  <2>2. CASE recorder = Nil
    <3>1. Proceed(x, success)
      BY <2>1, <2>2
    <3>2. /\ op[x] = "timing" /\ held' = [held EXCEPT ![x] = recorder]
          /\ ok' = [ok EXCEPT ![x] = success]
          /\ UNCHANGED <<mu, recorder, channel, file, pc, overlapped>>
      BY <1>2, <2>1 DEF StopTimer, Timed
    <3>3. \A y \in Operations \ {x} : ok'[y] = ok[y] /\ held'[y] = held[y]
      BY <3>2 DEF RecorderTypeOK
    <3>4. /\ op'[x] \in {"timing", "done"}
          /\ at'[x] = at[x] \/ at'[x] = at[x] + 1
          /\ \A y \in Operations \ {x} : op'[y] = op[y] /\ at'[y] = at[y]
      BY <3>1, ProceedEffect
    <3> QED BY <3>2, <3>3, <3>4
  <2>3. CASE recorder # Nil
    BY <1>2, <2>1, <2>3 DEF StopTimer, Timed, RecorderTypeOK
  <2> QED BY <2>2, <2>3
<1>3. CASE EndUntimed(x)
  BY <1>3 DEF EndUntimed, RecorderTypeOK
<1>4. CASE Add(x)
  BY <1>4 DEF Add, RecorderTypeOK
<1>5. CASE Send(x)
  BY <1>5, ProceedEffect DEF Send, RecorderTypeOK
<1>6. CASE NothingToDownload(x)
  BY <1>6 DEF NothingToDownload, RecorderTypeOK
<1> QED BY <1>1, <1>2, <1>3, <1>4, <1>5, <1>6 DEF OperationStep

\* A timer that stops has the operation send its event to the global recorder,
\* or go on when there is none.
LEMMA StopTimerEffect ==
  ASSUME RecorderTypeOK, NEW x \in Operations, StopTimer(x)
  PROVE  /\ UNCHANGED <<events, pending, dropped, panicked>>
         /\ op[x] = "timing" /\ at[x] \in DOMAIN Timers(x[1])
         /\ held'[x] = recorder /\ op'[x] # "send"
         /\ recorder # Nil => op'[x] = "add" /\ at'[x] = at[x]
         /\ recorder = Nil => /\ op'[x] \in {"timing", "done"}
                              /\ op'[x] = "done" => at'[x] = at[x]
                              /\ op'[x] = "done" /\ ok'[x] => ~(at[x] < Len(Timers(x[1])))
<1>1. PICK success \in BOOLEAN :
         /\ Timed(x, success)
         /\ ok' = [ok EXCEPT ![x] = success]
         /\ IF recorder = Nil THEN Proceed(x, success)
            ELSE op' = [op EXCEPT ![x] = "add"] /\ UNCHANGED at
  BY DEF StopTimer
<1>2. ok'[x] = success
  BY <1>1 DEF RecorderTypeOK
<1>3. CASE recorder = Nil
  BY <1>1, <1>2, <1>3, ProceedEffect DEF StopTimer, Timed, RecorderTypeOK
<1>4. CASE recorder # Nil
  BY <1>1, <1>4 DEF StopTimer, Timed, RecorderTypeOK
<1> QED BY <1>3, <1>4

\* A send puts the event into the channel, drops it, or panics.
LEMMA SendEffect ==
  ASSUME RecorderTypeOK, OperationsOK, NEW x \in Operations, Send(x)
  PROVE  /\ op[x] = "send" /\ op'[x] \in {"timing", "done"}
         /\ held'[x] = held[x] /\ ok'[x] = ok[x] /\ held[x] \in Benchmarks
         /\ op'[x] = "timing" => at'[x] = at[x] + 1 /\ at[x] < Len(Timers(x[1]))
         /\ op'[x] = "done" => at'[x] = at[x]
         /\ op'[x] = "done" /\ ok[x] => ~(at[x] < Len(Timers(x[1])))
         /\ \/ /\ channel[held[x]] = "open" /\ Len(events[held[x]]) < BufferSize
               /\ events' = [events EXCEPT ![held[x]] = Append(@, EventOf(x))]
               /\ UNCHANGED <<pending, dropped, panicked>>
            \/ /\ channel[held[x]] = "open" /\ Len(events[held[x]]) = BufferSize
               /\ pending' = [pending EXCEPT ![held[x]] = @ - 1]
               /\ dropped' = dropped \cup {EventOf(x)}
               /\ UNCHANGED <<events, panicked>>
            \/ /\ channel[held[x]] # "open" /\ panicked'
               /\ UNCHANGED <<events, pending, dropped>>
         /\ \A r \in Benchmarks \ {held[x]} : events'[r] = events[r] /\ pending'[r] = pending[r]
<1>1. Proceed(x, ok[x]) /\ ok[x] \in BOOLEAN /\ op[x] = "send" /\ UNCHANGED <<ok, held>>
  BY DEF Send, RecorderTypeOK
<1>2. held[x] \in Benchmarks
  BY <1>1 DEF OperationsOK
<1>3. /\ op'[x] \in {"timing", "done"}
      /\ op'[x] = "timing" => at'[x] = at[x] + 1 /\ at[x] < Len(Timers(x[1]))
      /\ op'[x] = "done" => at'[x] = at[x]
      /\ op'[x] = "done" /\ ok[x] => ~(at[x] < Len(Timers(x[1])))
  BY <1>1, ProceedEffect
<1>4. \A r \in Benchmarks \ {held[x]} : events'[r] = events[r] /\ pending'[r] = pending[r]
  BY <1>2 DEF Send, RecorderTypeOK
<1> QED BY <1>1, <1>2, <1>3, <1>4 DEF Send

-----------------------------------------------------------------------------
(* One request at a time at the recorders. *)

LEMMA MutexHoldsStep ==
  ASSUME RecorderTypeOK, MutexHolds, RecorderNext
  PROVE  MutexHolds'
<1> USE RecorderAssumption DEF RecorderTypeOK, Locked
<1>1. ASSUME NEW b \in Benchmarks, Request(b) \/ NothingToShutDown(b) \/ Answer(b)
      PROVE  MutexHolds'
  <2>1. CASE Request(b)
    BY <2>1 DEF Request, Goto, MutexHolds
  <2>2. CASE NothingToShutDown(b)
    BY <2>2 DEF NothingToShutDown, Goto, MutexHolds
  <2>3. CASE Answer(b)
    BY <2>3 DEF Answer, Goto, MutexHolds
  <2> QED BY <1>1, <2>1, <2>2, <2>3
<1>2. ASSUME NEW b \in Benchmarks, Lock(b)
      PROVE  MutexHolds'
  BY <1>2 DEF Lock, Goto, MutexHolds
<1>3. ASSUME NEW b \in Benchmarks, mu = b, \A c \in Benchmarks \ {b} : pc'[c] = pc[c],
             IF pc'[b] \in Locked THEN mu' = b /\ UNCHANGED recorder ELSE mu' = Nil,
             pc'[b] \in Locked \ {"open"} => recorder # Nil,
             pc'[b] \in {"join to open", "join to end"} => channel'[recorder] \in {"closed", "done"}
      PROVE  MutexHolds'
  <2>1. \A c \in Benchmarks \ {b} : pc'[c] \notin Locked
    BY <1>3 DEF MutexHolds
  <2> QED BY <1>3, <2>1 DEF MutexHolds
<1>4. ASSUME NEW b \in Benchmarks,
             Waited(b) \/ Close(b) \/ CloseAgain(b) \/ Joined(b) \/ OpenRecorder(b) \/ OpenFails(b)
      PROVE  MutexHolds'
  <2>1. /\ mu = b /\ pc[b] \in Locked
        /\ \A c \in Benchmarks \ {b} : pc'[c] = pc[c]
        /\ pc[b] # "open" => recorder \in Benchmarks
    BY <1>4 DEF Waited, Close, CloseAgain, Joined, OpenRecorder, OpenFails, Goto, MutexHolds
  <2>2. CASE Waited(b)
    BY <1>3, <2>1, <2>2 DEF Waited, Goto
  <2>3. CASE Close(b)
    BY <1>3, <2>1, <2>3 DEF Close, Goto
  <2>4. CASE CloseAgain(b) \/ OpenFails(b)
    BY <1>3, <2>1, <2>4 DEF CloseAgain, OpenFails, Goto
  <2>5. CASE Joined(b)
    <3>1. CASE pc[b] = "join to open"
      BY <1>3, <2>1, <2>5, <3>1 DEF Joined, Goto
    <3>2. CASE pc[b] = "join to end"
      <4>1. pc'[b] = "ended" /\ mu' = Nil
        BY <2>5, <3>2 DEF Joined, Goto
      <4>2. pc'[b] \notin Locked
        BY <4>1
      <4> QED BY <1>3, <2>1, <4>1, <4>2
    <3> QED BY <2>5, <3>1, <3>2 DEF Joined, Goto
  <2>6. CASE OpenRecorder(b)
    BY <1>3, <2>1, <2>6 DEF OpenRecorder, Goto
  <2> QED BY <1>4, <2>2, <2>3, <2>4, <2>5, <2>6
<1>5. ASSUME NEW r \in Benchmarks, RunStep(r)
      PROVE  MutexHolds'
  <2>1. CASE WriteEvent(r)
    BY <2>1 DEF WriteEvent, MutexHolds
  <2>2. CASE CloseFile(r)
    BY <2>2 DEF CloseFile, MutexHolds
  <2> QED BY <1>5, <2>1, <2>2 DEF RunStep
<1>6. ASSUME NEW x \in Operations, OperationStep(x)
      PROVE  MutexHolds'
  BY <1>6, OperationLeaves DEF MutexHolds
<1> QED BY <1>1, <1>2, <1>4, <1>5, <1>6 DEF RecorderNext, HandlerStep

-----------------------------------------------------------------------------
(* The life of a recorder. *)

LEMMA LifeCycleStep ==
  ASSUME RecorderTypeOK, OperationsOK, MutexHolds, LifeCycle, RecorderNext
  PROVE  LifeCycle'
<1> USE RecorderAssumption DEF RecorderTypeOK, LifeCycle, Unopened, Opened
<1>1. ASSUME NEW b \in Benchmarks, Request(b) \/ Lock(b) \/ NothingToShutDown(b)
      PROVE  LifeCycle'
  <2>1. CASE Request(b)
    BY <2>1 DEF Request, Goto
  <2>2. CASE Lock(b)
    BY <2>2 DEF Lock, Goto
  <2>3. CASE NothingToShutDown(b)
    BY <2>3 DEF NothingToShutDown, Goto
  <2> QED BY <1>1, <2>1, <2>2, <2>3
<1>2. ASSUME NEW b \in Benchmarks, Waited(b) \/ CloseAgain(b) \/ OpenFails(b) \/ Answer(b)
      PROVE  LifeCycle'
  <2>1. CASE Waited(b)
    BY <2>1 DEF Waited, Goto
  <2>2. CASE CloseAgain(b)
    BY <2>2 DEF CloseAgain, Goto
  <2>3. CASE OpenFails(b)
    BY <2>3 DEF OpenFails, Goto
  <2>4. CASE Answer(b)
    BY <2>4 DEF Answer, Goto
  <2> QED BY <1>2, <2>1, <2>2, <2>3, <2>4
<1>3. ASSUME NEW b \in Benchmarks, Close(b) \/ Joined(b)
      PROVE  LifeCycle'
  <2>1. recorder \in Benchmarks
    BY <1>3 DEF MutexHolds, Locked, Close, Joined, Goto
  <2>2. CASE Close(b)
    BY <2>1, <2>2 DEF Close, Goto
  <2>3. CASE Joined(b)
    BY <2>1, <2>3 DEF Joined, Goto
  <2> QED BY <1>3, <2>2, <2>3
<1>4. ASSUME NEW b \in Benchmarks, OpenRecorder(b)
      PROVE  LifeCycle'
  BY <1>4 DEF OpenRecorder, Goto
<1>5. ASSUME NEW r \in Benchmarks, WriteEvent(r)
      PROVE  LifeCycle'
  BY <1>5 DEF WriteEvent
<1>6. ASSUME NEW r \in Benchmarks, CloseFile(r)
      PROVE  LifeCycle'
  BY <1>6 DEF CloseFile
<1>7. ASSUME NEW x \in Operations, OperationStep(x)
      PROVE  LifeCycle'
  <2>1. \A r \in Benchmarks : channel[r] # "open" => events'[r] = events[r]
    <3>1. CASE Send(x)
      BY <3>1, SendEffect
    <3>2. CASE ~Send(x)
      BY <1>7, <3>2 DEF OperationStep, Acquire, StopTimer, EndUntimed, NothingToDownload, Add
    <3> QED BY <3>1, <3>2
  <2>2. UNCHANGED <<recorder, channel, pc>>
    BY <1>7, OperationLeaves
  <2> QED BY <2>1, <2>2
<1> QED BY <1>1, <1>2, <1>3, <1>4, <1>5, <1>6, <1>7 DEF RecorderNext, HandlerStep, RunStep

-----------------------------------------------------------------------------
(* The operations, and what waits for them. *)

\* A request that leaves "operating" has no operation that is under way, and
\* one that opens its recorder had none before.
LEMMA OperationsOKHandler ==
  ASSUME RecorderTypeOK, OperationsOK, MutexHolds, LifeCycle,
         NEW b \in Benchmarks, Request(b) \/ HandlerStep(b)
  PROVE  OperationsOK'
<1>1. /\ UNCHANGED <<events, at, ok, held>>
      /\ \A c \in Benchmarks \ {b} : pc'[c] = pc[c]
  BY HandlerLeaves
<1>2. \A x \in Operations : x[1] \in Benchmarks
  BY OperationsAreNumbered
<1>3. CASE OpenRecorder(b)
  <2>1. /\ channel[b] = "none" /\ channel'[b] = "open" /\ pc'[b] = "operating"
        /\ \A c \in Benchmarks \ {b} : channel'[c] = channel[c]
        /\ \A x \in Operations : op'[x] = IF x[1] = b THEN "waiting" ELSE op[x]
    BY <1>3 DEF OpenRecorder, Goto, LifeCycle, Unopened, RecorderTypeOK
  <2> QED BY <1>1, <1>2, <2>1 DEF OperationsOK
<1>4. CASE ~OpenRecorder(b)
  <2>1. UNCHANGED op
    BY <1>4, HandlerLeaves
  <2>2. \A c \in Benchmarks : channel'[c] = channel[c] \/ (channel[c] # "none" /\ channel'[c] # "none")
    <3>1. CASE Close(b)
      BY <3>1 DEF Close, RecorderTypeOK
    <3>2. CASE ~Close(b)
      BY <1>4, <3>2 DEF HandlerStep, Request, Lock, NothingToShutDown, Waited, CloseAgain,
                        Joined, OpenFails, Answer
    <3> QED BY <3>1, <3>2
  <2>3. \A x \in Operations : op[x] \notin {"none", "done"} => pc'[x[1]] = "operating"
    <3> SUFFICES ASSUME NEW x \in Operations, x[1] = b, op[x] \notin {"none", "done"},
                        pc[b] = "operating"
                 PROVE  FALSE
      BY <1>1, <1>2 DEF OperationsOK
    <3>1. Answer(b)
      BY <1>4 DEF HandlerStep, Request, Lock, NothingToShutDown, Waited, Close, CloseAgain,
                  Joined, OpenFails, Goto
    <3> QED BY <3>1 DEF Answer, OperationsOf
  <2> QED BY <1>1, <1>2, <2>1, <2>2, <2>3 DEF OperationsOK
<1> QED BY <1>3, <1>4

LEMMA OperationsOKStep ==
  ASSUME RecorderTypeOK, OperationsOK, MutexHolds, LifeCycle, RecorderNext
  PROVE  OperationsOK'
<1>1. ASSUME NEW r \in Benchmarks, WriteEvent(r)
      PROVE  OperationsOK'
  <2>1. UNCHANGED <<op, at, ok, held, pc, channel>>
    BY <1>1 DEF WriteEvent
  <2>2. \A q \in Benchmarks : Len(events'[q]) <= BufferSize
    <3>1. /\ events[r] # << >> /\ events[r] \in Seq(Events)
          /\ \A q \in Benchmarks : events'[q] = IF q = r THEN Tail(events[r]) ELSE events[q]
      BY <1>1 DEF WriteEvent, RecorderTypeOK
    <3>2. Len(events[r]) \in Nat /\ Len(Tail(events[r])) = Len(events[r]) - 1
      BY <3>1, HeadTailProperties, LenProperties
    <3>3. Len(Tail(events[r])) <= BufferSize
      BY <3>2, RecorderAssumption DEF OperationsOK
    <3> QED BY <3>1, <3>3 DEF OperationsOK
  <2> QED BY <2>1, <2>2 DEF OperationsOK
<1>2. ASSUME NEW r \in Benchmarks, CloseFile(r)
      PROVE  OperationsOK'
  <2>1. /\ UNCHANGED <<events, op, at, ok, held, pc>>
        /\ \A c \in Benchmarks : channel'[c] = channel[c] \/ (channel[c] # "none" /\ channel'[c] # "none")
    BY <1>2 DEF CloseFile, RecorderTypeOK
  <2>2. \A x \in Operations : x[1] \in Benchmarks
    BY OperationsAreNumbered
  <2> QED BY <2>1, <2>2 DEF OperationsOK
<1>3. ASSUME NEW x \in Operations, OperationStep(x)
      PROVE  OperationsOK'
  <2> DEFINE Part(y) ==
         /\ op'[y] \in {"add", "send"} => held'[y] \in Benchmarks /\ at'[y] \in DOMAIN Timers(y[1])
         /\ op'[y] \in {"add", "send"} => channel'[held'[y]] # "none"
         /\ op'[y] = "done" /\ ok'[y] => at'[y] >= Len(Timers(y[1]))
         /\ op'[y] \notin {"none", "done"} => pc'[y[1]] = "operating"
         /\ op'[y] = "none" <=> channel'[y[1]] = "none"
  <2>1. /\ UNCHANGED <<channel, pc>>
        /\ op[x] \notin {"none", "done"} /\ op'[x] # "none"
        /\ \A y \in Operations \ {x} : /\ op'[y] = op[y] /\ at'[y] = at[y]
                                       /\ ok'[y] = ok[y] /\ held'[y] = held[y]
    BY <1>3, OperationLeaves
  <2>2. \A y \in Operations \ {x} : Part(y)
    BY <2>1 DEF OperationsOK
  <2>3. pc[x[1]] = "operating" /\ channel[x[1]] # "none"
    BY <2>1 DEF OperationsOK
  <2>4. /\ at[x] \in Nat /\ Len(Timers(x[1])) \in Nat
        /\ DOMAIN Timers(x[1]) = 1..Len(Timers(x[1]))
    BY OperationsAreNumbered, TimersAreNumbered DEF RecorderTypeOK
  <2>5. CASE Acquire(x)
    <3>1. op'[x] = "timing"
      BY <2>5 DEF Acquire, RecorderTypeOK
    <3>2. Part(x)
      BY <2>1, <2>3, <3>1
    <3>3. UNCHANGED events
      BY <2>5 DEF Acquire
    <3> QED BY <2>2, <3>2, <3>3 DEF OperationsOK
  <2>6. CASE StopTimer(x)
    <3>1. Part(x) /\ UNCHANGED events
      <4>1. CASE recorder = Nil
        BY <2>1, <2>3, <2>4, <2>6, <4>1, StopTimerEffect
      <4>2. CASE recorder # Nil
        <5>1. recorder \in Benchmarks /\ channel[recorder] # "none"
          BY <4>2 DEF RecorderTypeOK, LifeCycle
        <5> QED BY <2>1, <2>3, <2>6, <4>2, <5>1, StopTimerEffect
      <4> QED BY <4>1, <4>2
    <3> QED BY <2>2, <3>1 DEF OperationsOK
  <2>7. CASE EndUntimed(x)
    <3>1. /\ op'[x] = "done" /\ ok'[x] = (Timers(x[1]) = << >>)
          /\ at'[x] = at[x] /\ UNCHANGED events
      BY <2>7 DEF EndUntimed, RecorderTypeOK
    <3>2. ok'[x] => Len(Timers(x[1])) = 0
      BY <3>1, EmptySeq
    <3>3. Part(x)
      BY <2>1, <2>3, <2>4, <3>1, <3>2
    <3> QED BY <2>2, <3>1, <3>3 DEF OperationsOK
  <2>8. CASE Add(x)
    <3>1. op[x] = "add" /\ op'[x] = "send" /\ UNCHANGED <<events, at, ok, held>>
      BY <2>8 DEF Add, RecorderTypeOK
    <3>2. Part(x)
      BY <2>1, <2>3, <3>1 DEF OperationsOK
    <3> QED BY <2>2, <3>1, <3>2 DEF OperationsOK
  <2>9. CASE Send(x)
    <3>1. Part(x)
      BY <2>1, <2>3, <2>4, <2>9, SendEffect
    <3>2. \A r \in Benchmarks : Len(events'[r]) <= BufferSize
      <4> DEFINE h == held[x]
      <4>1. h \in Benchmarks /\ \A r \in Benchmarks \ {h} : events'[r] = events[r]
        BY <2>9, SendEffect
      <4>2. CASE UNCHANGED events
        BY <4>2 DEF OperationsOK
      <4>3. CASE events' = [events EXCEPT ![h] = Append(@, EventOf(x))] /\ Len(events[h]) < BufferSize
        <5>1. events'[h] = Append(events[h], EventOf(x)) /\ events[h] \in Seq(Events)
          BY <4>1, <4>3 DEF RecorderTypeOK
        <5>2. EventOf(x) \in Events
          BY <2>9, EventIsTyped DEF OperationsOK, Send
        <5>3. Len(events'[h]) = Len(events[h]) + 1 /\ Len(events[h]) \in Nat
          BY <5>1, <5>2, AppendProperties, LenProperties
        <5>4. Len(events'[h]) <= BufferSize
          BY <4>3, <5>3, RecorderAssumption
        <5> QED BY <4>1, <5>4 DEF OperationsOK
      <4> HIDE DEF h
      <4> QED BY <2>9, <4>2, <4>3, SendEffect DEF h
    <3> QED BY <2>2, <3>1, <3>2 DEF OperationsOK
  <2>10. CASE NothingToDownload(x)
    <3>1. op'[x] = "crashed" /\ UNCHANGED events
      BY <2>10 DEF NothingToDownload, RecorderTypeOK
    <3>2. Part(x)
      BY <2>1, <2>3, <3>1
    <3> QED BY <2>2, <3>1, <3>2 DEF OperationsOK
  <2> QED BY <1>3, <2>5, <2>6, <2>7, <2>8, <2>9, <2>10 DEF OperationStep
<1> QED BY <1>1, <1>2, <1>3, OperationsOKHandler DEF RecorderNext, RunStep

-----------------------------------------------------------------------------
(* The WaitGroup of a recorder. *)

LEMMA SendingStays ==
  ASSUME CountIsExact, UNCHANGED <<events, pending, panicked>>,
         \A x \in Operations : op'[x] = "send" <=> op[x] = "send",
         \A x \in Operations : op[x] = "send" => held'[x] = held[x]
  PROVE  CountIsExact'
<1>1. \A r \in Benchmarks : Sending(r)' = Sending(r)
  BY DEF Sending
<1> QED BY <1>1 DEF CountIsExact

LEMMA CountIsExactStep ==
  ASSUME RecorderTypeOK, OperationsOK, CountIsExact, LifeCycle, RecorderNext
  PROVE  CountIsExact'
<1>1. ASSUME NEW b \in Benchmarks, Request(b) \/ HandlerStep(b)
      PROVE  CountIsExact'
  <2>1. UNCHANGED <<events, pending, held, panicked>>
    BY <1>1, HandlerLeaves
  <2>2. \A x \in Operations : op'[x] = "send" <=> op[x] = "send"
    <3>1. CASE OpenRecorder(b)
      <4>1. /\ channel[b] = "none"
            /\ \A x \in Operations : op'[x] = IF x[1] = b THEN "waiting" ELSE op[x]
        BY <3>1 DEF OpenRecorder, Goto, LifeCycle, Unopened
      <4> QED BY <4>1 DEF OperationsOK
    <3>2. CASE ~OpenRecorder(b)
      BY <1>1, <3>2, HandlerLeaves
    <3> QED BY <3>1, <3>2
  <2> QED BY <2>1, <2>2, SendingStays
<1>2. ASSUME NEW r \in Benchmarks, WriteEvent(r)
      PROVE  CountIsExact'
  <2>1. /\ events[r] # << >> /\ events[r] \in Seq(Events)
        /\ events'[r] = Tail(events[r]) /\ pending'[r] = pending[r] - 1
        /\ \A q \in Benchmarks \ {r} : events'[q] = events[q] /\ pending'[q] = pending[q]
        /\ ~panicked /\ UNCHANGED <<op, held, panicked>>
    BY <1>2 DEF WriteEvent, RecorderTypeOK, RecorderNext
  <2>2. \A q \in Benchmarks : Sending(q)' = Sending(q)
    BY <2>1 DEF Sending
  <2>3. /\ Len(events[r]) \in Nat \ {0} /\ Cardinality(Sending(r)) \in Nat
        /\ pending[r] = Len(events[r]) + Cardinality(Sending(r))
    BY <2>1, EventsAreCounted
  <2>4. Len(events'[r]) = Len(events[r]) - 1
    BY <2>1, HeadTailProperties
  <2>5. pending'[r] = Len(events'[r]) + Cardinality(Sending(r))
    BY <2>1, <2>3, <2>4
  <2> QED BY <2>1, <2>2, <2>5 DEF CountIsExact
<1>3. ASSUME NEW r \in Benchmarks, CloseFile(r)
      PROVE  CountIsExact'
  BY <1>3, SendingStays DEF CloseFile
<1>4. ASSUME NEW x \in Operations, OperationStep(x)
      PROVE  CountIsExact'
  <2>1. \A y \in Operations \ {x} : op'[y] = op[y] /\ held'[y] = held[y]
    BY <1>4, OperationLeaves
  <2>2. CASE Acquire(x) \/ EndUntimed(x)
    <3>1. op[x] # "send" /\ op'[x] # "send" /\ UNCHANGED <<events, pending, panicked>>
      BY <2>2 DEF Acquire, EndUntimed, RecorderTypeOK
    <3> QED BY <2>1, <3>1, SendingStays
  <2>3. CASE StopTimer(x)
    BY <2>1, <2>3, SendingStays, StopTimerEffect
  <2>6. CASE NothingToDownload(x)
    <3>1. op[x] # "send" /\ op'[x] # "send" /\ panicked'
      BY <2>6 DEF NothingToDownload, RecorderTypeOK
    <3>2. \A r \in Benchmarks : Sending(r)' = Sending(r)
      BY <2>1, <3>1 DEF Sending
    <3> QED BY <3>1, <3>2 DEF CountIsExact
  <2>4. CASE Add(x)
    <3>1. op[x] = "add" /\ op'[x] = "send" /\ UNCHANGED <<events, held, panicked>>
      BY <2>4 DEF Add, RecorderTypeOK
    <3>2. PICK h \in Benchmarks : h = held[x]
      BY <3>1 DEF OperationsOK
    <3>3. pending'[h] = pending[h] + 1 /\ \A r \in Benchmarks \ {h} : pending'[r] = pending[r]
      BY <2>4, <3>2 DEF Add, RecorderTypeOK
    <3>4. Sending(h)' = Sending(h) \cup {x} /\ x \notin Sending(h)
      BY <2>1, <3>1, <3>2 DEF Sending
    <3>5. \A r \in Benchmarks \ {h} : Sending(r)' = Sending(r)
      BY <2>1, <3>1, <3>2 DEF Sending
    <3>6. /\ IsFiniteSet(Sending(h)) /\ Cardinality(Sending(h)) \in Nat
          /\ IsFiniteSet(Sending(h)')
          /\ Cardinality(Sending(h)') = Cardinality(Sending(h)) + 1
      BY <3>2, <3>4, FS_CardinalityType, FS_AddElement DEF CountIsExact
    <3>7. events[h] \in Seq(Events)
      BY <3>2 DEF RecorderTypeOK
    <3>8. Len(events[h]) \in Nat
      BY <3>7, LenProperties
    <3>9. ~panicked => pending'[h] = Len(events[h]) + Cardinality(Sending(h)')
      <4> SUFFICES ASSUME ~panicked PROVE pending'[h] = Len(events[h]) + Cardinality(Sending(h)')
        OBVIOUS
      <4>1. pending[h] = Len(events[h]) + Cardinality(Sending(h))
        BY <3>2 DEF CountIsExact
      <4> QED BY <3>3, <3>6, <3>8, <4>1
    <3>10. \A r \in Benchmarks \ {h} :
             /\ IsFiniteSet(Sending(r)')
             /\ ~panicked' => pending'[r] = Len(events'[r]) + Cardinality(Sending(r)')
      BY <3>1, <3>3, <3>5 DEF CountIsExact
    <3>11. /\ IsFiniteSet(Sending(h)')
           /\ ~panicked' => pending'[h] = Len(events'[h]) + Cardinality(Sending(h)')
      BY <3>1, <3>6, <3>9
    <3> QED BY <3>10, <3>11 DEF CountIsExact
  <2>5. CASE Send(x)
    <3>1. PICK h \in Benchmarks : h = held[x]
      BY <2>5, SendEffect
    <3>2. /\ op[x] = "send" /\ op'[x] # "send" /\ held[x] = h /\ held'[x] = h
          /\ \A r \in Benchmarks \ {h} : events'[r] = events[r] /\ pending'[r] = pending[r]
      BY <2>5, <3>1, SendEffect
    <3>3. Sending(h)' = Sending(h) \ {x} /\ x \in Sending(h)
      BY <2>1, <3>2 DEF Sending
    <3>4. \A r \in Benchmarks \ {h} : Sending(r)' = Sending(r)
      BY <2>1, <3>2 DEF Sending
    <3>5. /\ IsFiniteSet(Sending(h)) /\ Cardinality(Sending(h)) \in Nat
          /\ IsFiniteSet(Sending(h)')
          /\ Cardinality(Sending(h)') = Cardinality(Sending(h)) - 1
      BY <3>2, <3>3, FS_CardinalityType, FS_RemoveElement DEF CountIsExact
    <3>6. /\ events[h] \in Seq(Events) /\ EventOf(x) \in Events /\ ~panicked
          /\ pending[h] = Len(events[h]) + Cardinality(Sending(h))
      BY <2>5, <3>2, EventIsTyped DEF CountIsExact, OperationsOK, RecorderTypeOK, RecorderNext
    <3>7. Len(events[h]) \in Nat /\ Len(Append(events[h], EventOf(x))) = Len(events[h]) + 1
      BY <3>6, AppendProperties, LenProperties
    <3>8. ~panicked' => pending'[h] = Len(events'[h]) + Cardinality(Sending(h)')
      <4>1. CASE events' = [events EXCEPT ![h] = Append(@, EventOf(x))] /\ UNCHANGED pending
        <5>1. events'[h] = Append(events[h], EventOf(x)) /\ pending'[h] = pending[h]
          BY <3>2, <4>1 DEF RecorderTypeOK
        <5> QED BY <3>5, <3>6, <3>7, <5>1
      <4>2. CASE pending' = [pending EXCEPT ![h] = @ - 1] /\ UNCHANGED events
        <5>1. pending'[h] = pending[h] - 1 /\ events'[h] = events[h]
          BY <3>2, <4>2 DEF RecorderTypeOK
        <5> QED BY <3>5, <3>6, <3>7, <5>1
      <4> QED BY <2>5, <3>1, <4>1, <4>2, SendEffect
    <3>9. \A r \in Benchmarks \ {h} :
             /\ IsFiniteSet(Sending(r)')
             /\ ~panicked' => pending'[r] = Len(events'[r]) + Cardinality(Sending(r)')
      BY <3>2, <3>4, <3>6 DEF CountIsExact
    <3>10. /\ IsFiniteSet(Sending(h)')
           /\ ~panicked' => pending'[h] = Len(events'[h]) + Cardinality(Sending(h)')
      BY <3>2, <3>5, <3>8
    <3> QED BY <3>9, <3>10 DEF CountIsExact
  <2> QED BY <1>4, <2>2, <2>3, <2>4, <2>5, <2>6 DEF OperationStep
<1> QED BY <1>1, <1>2, <1>3, <1>4 DEF RecorderNext, RunStep

-----------------------------------------------------------------------------
(* What is known of a request that overlaps with no other. *)

LEMMA HandlersAreActive ==
  ASSUME NEW b \in Benchmarks, HandlerStep(b)
  PROVE  Active(b)
<1>1. CASE Lock(b) \/ NothingToShutDown(b) \/ Waited(b) \/ Close(b)
  BY <1>1 DEF Lock, NothingToShutDown, Waited, Close, Goto, Active
<1>2. CASE CloseAgain(b) \/ Joined(b) \/ OpenRecorder(b) \/ OpenFails(b) \/ Answer(b)
  BY <1>2 DEF CloseAgain, Joined, OpenRecorder, OpenFails, Answer, Goto, Active
<1> QED BY <1>1, <1>2 DEF HandlerStep

LEMMA OverlapIsKnownStep ==
  ASSUME RecorderTypeOK, OverlapIsKnown, RecorderNext
  PROVE  OverlapIsKnown' /\ overlapped \subseteq overlapped'
<1>1. ASSUME NEW b \in Benchmarks, Request(b)
      PROVE  OverlapIsKnown' /\ overlapped \subseteq overlapped'
  <2>1. \A c \in Benchmarks : Active(c)' <=> (c = b \/ Active(c))
    BY <1>1 DEF Request, Goto, Active, RecorderTypeOK
  <2>2. overlapped \subseteq overlapped'
    BY <1>1 DEF Request
  <2>3. \A c \in Benchmarks : Active(c) => {b, c} \subseteq overlapped'
    BY <1>1 DEF Request
  <2> QED BY <2>1, <2>2, <2>3 DEF OverlapIsKnown
<1>2. ASSUME NEW b \in Benchmarks, HandlerStep(b)
      PROVE  OverlapIsKnown' /\ overlapped \subseteq overlapped'
  <2>1. Active(b) /\ ~Request(b)
    BY <1>2, HandlersAreActive DEF Request, Goto, Active
  <2>2. \A c \in Benchmarks : Active(c)' => Active(c)
    BY <1>2, <2>1, HandlerLeaves DEF Active
  <2>3. UNCHANGED overlapped
    BY <1>2, <2>1, HandlerLeaves
  <2> QED BY <2>2, <2>3 DEF OverlapIsKnown
<1>3. CASE UNCHANGED <<pc, overlapped>>
  BY <1>3 DEF OverlapIsKnown, Active
<1>4. ASSUME NEW r \in Benchmarks, RunStep(r)
      PROVE  UNCHANGED <<pc, overlapped>>
  BY <1>4 DEF RunStep, WriteEvent, CloseFile
<1>5. ASSUME NEW x \in Operations, OperationStep(x)
      PROVE  UNCHANGED <<pc, overlapped>>
  BY <1>5, OperationLeaves
<1> QED BY <1>1, <1>2, <1>3, <1>4, <1>5 DEF RecorderNext

\* While a request that overlaps with no other is active, no other moves.
LEMMA OthersAreStill ==
  ASSUME RecorderTypeOK, OverlapIsKnown, RecorderNext,
         NEW b \in Benchmarks \ overlapped', Active(b)
  PROVE  \A c \in Benchmarks \ {b} : ~Request(c) /\ ~HandlerStep(c) /\ ~Active(c)
<1>1. b \notin overlapped
  BY OverlapIsKnownStep
<1>2. \A c \in Benchmarks \ {b} : ~Active(c)
  BY <1>1 DEF OverlapIsKnown
<1>3. \A c \in Benchmarks \ {b} : ~HandlerStep(c)
  BY <1>2, HandlersAreActive
<1>4. \A c \in Benchmarks \ {b} : ~Request(c)
  BY DEF Request
<1> QED BY <1>2, <1>3, <1>4

LEMMA OwnRecorderStep ==
  ASSUME RecorderTypeOK, OperationsOK, MutexHolds, LifeCycle, OverlapIsKnown,
         OwnRecorder, RecorderNext
  PROVE  OwnRecorder'
<1> SUFFICES ASSUME NEW b \in Benchmarks \ overlapped'
             PROVE  /\ recorder' = b => pc'[b] \in Opened
                    /\ pc'[b] \in Opened => recorder' = b
                    /\ pc'[b] \in Opened \ {"join to end"} => channel'[b] = "open"
                    /\ pc'[b] = "ended" => channel'[b] \in {"none", "done"}
                    /\ \A x \in Operations :
                          op'[x] \in {"add", "send"} => (held'[x] = b <=> x[1] = b)
  BY DEF OwnRecorder
<1> DEFINE Goal == /\ recorder' = b => pc'[b] \in Opened
                   /\ pc'[b] \in Opened => recorder' = b
                   /\ pc'[b] \in Opened \ {"join to end"} => channel'[b] = "open"
                   /\ pc'[b] = "ended" => channel'[b] \in {"none", "done"}
           Held == \A x \in Operations :
                      op'[x] \in {"add", "send"} => (held'[x] = b <=> x[1] = b)
<1>1. /\ b \in Benchmarks \ overlapped /\ b # Nil
      /\ recorder = b => pc[b] \in Opened
      /\ pc[b] \in Opened => recorder = b
      /\ pc[b] \in Opened \ {"join to end"} => channel[b] = "open"
      /\ pc[b] = "ended" => channel[b] \in {"none", "done"}
      /\ \A x \in Operations : op[x] \in {"add", "send"} => (held[x] = b <=> x[1] = b)
  BY OverlapIsKnownStep, RecorderAssumption DEF OwnRecorder
<1>2. Active(b) => \A c \in Benchmarks \ {b} : ~Request(c) /\ ~HandlerStep(c) /\ ~Active(c)
  BY OthersAreStill
<1>3. pc[b] \in Opened => Active(b)
  BY DEF Opened, Active
<1>4. ASSUME NEW c \in Benchmarks, Request(c) \/ HandlerStep(c)
      PROVE  Goal /\ Held
  <2>1. Held
    <3>1. UNCHANGED held
      BY <1>4, HandlerLeaves
    <3>2. \A x \in Operations : op'[x] \in {"add", "send"} => op[x] \in {"add", "send"}
      BY <1>4, HandlerLeaves DEF OpenRecorder, Goto
    <3> QED BY <1>1, <3>1, <3>2
  <2>2. CASE c = b
    <3> USE DEF RecorderTypeOK
    <3>1. CASE Request(b)
      BY <1>1, <3>1 DEF Request, Goto, Opened
    <3>2. CASE Lock(b)
      BY <1>1, <3>2 DEF Lock, Goto, Opened
    <3>3. CASE NothingToShutDown(b)
      BY <1>1, <3>3 DEF NothingToShutDown, Goto, Opened
    <3>4. CASE Waited(b)
      BY <1>1, <3>4 DEF Waited, Goto, Opened
    <3>5. CASE Close(b)
      BY <1>1, <3>5 DEF Close, Goto, Opened
    <3>6. CASE CloseAgain(b)
      BY <1>1, <3>6 DEF CloseAgain, Goto, Opened, LifeCycle, Unopened
    <3>7. CASE Joined(b)
      BY <1>1, <3>7 DEF Joined, Goto, Opened
    <3>8. CASE OpenRecorder(b)
      BY <1>1, <3>8 DEF OpenRecorder, Goto, Opened
    <3>9. CASE OpenFails(b)
      BY <1>1, <3>9 DEF OpenFails, Goto, Opened, LifeCycle, Unopened
    <3>10. CASE Answer(b)
      BY <1>1, <3>10 DEF Answer, Goto, Opened
    <3>11. Goal
      BY <1>4, <2>2, <3>1, <3>2, <3>3, <3>4, <3>5, <3>6, <3>7, <3>8, <3>9, <3>10 DEF HandlerStep
    <3> HIDE DEF Goal
    <3> QED BY <2>1, <3>11
  <2>3. CASE c # b
    <3>1. ~Active(b) /\ pc'[b] = pc[b]
      BY <1>2, <1>4, <2>3, HandlerLeaves
    <3>2. pc[b] \notin Opened /\ recorder # b
      BY <1>1, <1>3, <3>1
    <3>3. recorder' # b
      BY <1>1, <1>4, <2>3, <3>2 DEF Request, HandlerStep, Lock, NothingToShutDown, Waited, Close,
         CloseAgain, Joined, OpenRecorder, OpenFails, Answer
    <3>4. channel'[b] = channel[b]
      <4>1. CASE Close(c)
        BY <3>2, <4>1 DEF Close, RecorderTypeOK
      <4>2. CASE OpenRecorder(c)
        BY <2>3, <4>2 DEF OpenRecorder, RecorderTypeOK
      <4>3. CASE ~Close(c) /\ ~OpenRecorder(c)
        BY <1>4, <4>3 DEF Request, HandlerStep, Lock, NothingToShutDown, Waited,
           CloseAgain, Joined, OpenFails, Answer
      <4> QED BY <4>1, <4>2, <4>3
    <3> QED BY <1>1, <2>1, <3>1, <3>2, <3>3, <3>4
  <2> QED BY <2>2, <2>3
<1>5. ASSUME NEW r \in Benchmarks, RunStep(r)
      PROVE  Goal /\ Held
  <2>1. UNCHANGED <<recorder, pc, op, held>>
    BY <1>5 DEF RunStep, WriteEvent, CloseFile
  <2>2. channel'[b] = channel[b] \/ (channel[b] = "closed" /\ channel'[b] = "done")
    BY <1>5 DEF RunStep, WriteEvent, CloseFile, RecorderTypeOK
  <2> QED BY <1>1, <2>1, <2>2
<1>6. ASSUME NEW x \in Operations, OperationStep(x)
      PROVE  Goal /\ Held
  <2>1. /\ UNCHANGED <<recorder, channel, pc>> /\ op[x] \notin {"none", "done"}
        /\ \A y \in Operations \ {x} : op'[y] = op[y] /\ held'[y] = held[y]
    BY <1>6, OperationLeaves
  <2>2. Goal
    BY <1>1, <2>1
  <2>3. op'[x] \in {"add", "send"} => (held'[x] = b <=> x[1] = b)
    <3>1. CASE StopTimer(x)
      <4>1. pc[x[1]] = "operating" /\ x[1] \in Benchmarks
        BY <2>1, OperationsAreNumbered DEF OperationsOK
      <4>2. CASE x[1] = b
        BY <1>1, <3>1, <4>1, <4>2, StopTimerEffect DEF Opened
      <4>3. CASE x[1] # b
        <5>1. Active(x[1])
          BY <4>1 DEF Active
        <5>2. recorder # b
          BY <1>1, <1>2, <1>3, <4>1, <4>3, <5>1
        <5> QED BY <3>1, <4>3, <5>2, StopTimerEffect
      <4> QED BY <4>2, <4>3
    <3>2. CASE Acquire(x) \/ EndUntimed(x) \/ NothingToDownload(x)
      BY <3>2 DEF Acquire, EndUntimed, NothingToDownload, RecorderTypeOK
    <3>3. CASE Add(x)
      BY <1>1, <3>3 DEF Add
    <3>4. CASE Send(x)
      BY <3>4, SendEffect
    <3> QED BY <1>6, <3>1, <3>2, <3>3, <3>4 DEF OperationStep
  <2> HIDE DEF Goal
  <2> QED BY <1>1, <2>1, <2>2, <2>3
<1> QED BY <1>4, <1>5, <1>6 DEF RecorderNext

LEMMA PanicIsCausedStep ==
  ASSUME RecorderTypeOK, OperationsOK, OverlapIsKnown, OwnRecorder, PanicIsCaused, RecorderNext
  PROVE  PanicIsCaused'
<1>1. overlapped \subseteq overlapped' /\ ~panicked
  BY OverlapIsKnownStep DEF RecorderNext
<1>2. \A x \in Operations : op[x] # "crashed"
  BY <1>1 DEF PanicIsCaused
<1>3. ASSUME NEW x \in Operations, OperationStep(x), panicked', ~NothingToDownload(x)
      PROVE  overlapped' # {}
  <2>1. Send(x)
    BY <1>1, <1>3 DEF OperationStep, Acquire, StopTimer, EndUntimed, Add
  <2>2. op[x] = "send" /\ held[x] \in Benchmarks /\ channel[held[x]] # "open"
    BY <1>1, <1>3, <2>1, SendEffect
  <2>3. x[1] \in Benchmarks /\ pc[x[1]] = "operating"
    BY <2>2, OperationsAreNumbered DEF OperationsOK
  <2>4. PICK b \in Benchmarks : b = x[1]
    BY <2>3
  <2>5. b \notin overlapped => held[x] = b /\ channel[b] = "open"
    <3> SUFFICES ASSUME b \notin overlapped PROVE held[x] = b /\ channel[b] = "open"
      OBVIOUS
    <3>1. op[x] \in {"add", "send"} => (held[x] = b <=> x[1] = b)
      BY DEF OwnRecorder
    <3>2. pc[b] \in Opened \ {"join to end"} => channel[b] = "open"
      BY DEF OwnRecorder
    <3>3. pc[b] = "operating"
      BY <2>3, <2>4
    <3> QED BY <2>2, <2>4, <3>1, <3>2, <3>3 DEF Opened
  <2> QED BY <1>1, <2>2, <2>5
<1>4. ASSUME NEW x \in Operations, OperationStep(x), ~NothingToDownload(x)
      PROVE  \A y \in Operations : op'[y] # "crashed"
  <2>1. \A y \in Operations \ {x} : op'[y] = op[y]
    BY <1>4, OperationLeaves
  <2>2. op'[x] # "crashed"
    <3>1. CASE Acquire(x) \/ EndUntimed(x) \/ Add(x)
      BY <3>1 DEF Acquire, EndUntimed, Add, RecorderTypeOK
    <3>2. CASE StopTimer(x)
      BY <3>2, StopTimerEffect
    <3>3. CASE Send(x)
      BY <3>3, SendEffect
    <3> QED BY <1>4, <3>1, <3>2, <3>3 DEF OperationStep
  <2> QED BY <1>2, <2>1, <2>2
<1>5. ASSUME NEW x \in Operations, OperationStep(x)
      PROVE  PanicIsCaused'
  <2>1. CASE NothingToDownload(x)
    <3>1. op'[x] = "crashed" /\ panicked'
      BY <2>1 DEF NothingToDownload, RecorderTypeOK
    <3> QED BY <3>1 DEF PanicIsCaused
  <2>2. CASE ~NothingToDownload(x)
    BY <1>3, <1>4, <1>5, <2>2 DEF PanicIsCaused
  <2> QED BY <2>1, <2>2
<1>6. ASSUME NEW b \in Benchmarks, Request(b) \/ HandlerStep(b)
      PROVE  PanicIsCaused'
  <2>1. UNCHANGED panicked
    BY <1>6, HandlerLeaves
  <2>2. \A x \in Operations : op'[x] = op[x] \/ op'[x] = "waiting"
    BY <1>6, HandlerLeaves DEF OpenRecorder
  <2> QED BY <1>1, <1>2, <2>1, <2>2 DEF PanicIsCaused
<1>7. ASSUME NEW r \in Benchmarks, RunStep(r)
      PROVE  PanicIsCaused'
  BY <1>1, <1>2, <1>7 DEF RunStep, WriteEvent, CloseFile, PanicIsCaused
<1> QED BY <1>5, <1>6, <1>7 DEF RecorderNext

-----------------------------------------------------------------------------
(* The events of a request that overlaps with no other. *)

LEMMA RangeOfTail ==
  ASSUME NEW S, NEW s \in Seq(S), s # << >>
  PROVE  Range(s) = {Head(s)} \cup Range(Tail(s))
<1>1. /\ Tail(s) \in Seq(S) /\ Len(s) \in Nat \ {0} /\ Len(Tail(s)) = Len(s) - 1
      /\ \A i \in 1..Len(Tail(s)) : Tail(s)[i] = s[i + 1]
      /\ Head(s) = s[1]
  BY HeadTailProperties, LenProperties, EmptySeq
<1>2. Range(s) = {s[i] : i \in 1..Len(s)}
  BY RangeEquality
<1>3. Range(Tail(s)) = {Tail(s)[i] : i \in 1..Len(Tail(s))}
  BY <1>1, RangeEquality
<1>4. ASSUME NEW e \in Range(s) PROVE e \in {Head(s)} \cup Range(Tail(s))
  <2>1. PICK i \in 1..Len(s) : e = s[i]
    BY <1>2
  <2>2. CASE i = 1
    BY <1>1, <2>1, <2>2
  <2>3. CASE i # 1
    <3>1. i - 1 \in 1..Len(Tail(s)) /\ (i - 1) + 1 = i
      BY <1>1, <2>3
    <3>2. e = Tail(s)[i - 1]
      BY <1>1, <2>1, <3>1
    <3> QED BY <1>3, <3>1, <3>2
  <2> QED BY <2>2, <2>3
<1>5. Head(s) \in Range(s)
  <2>1. 1 \in 1..Len(s)
    BY <1>1
  <2> QED BY <1>1, <1>2, <2>1
<1>6. ASSUME NEW e \in Range(Tail(s)) PROVE e \in Range(s)
  <2>1. PICK i \in 1..Len(Tail(s)) : e = Tail(s)[i]
    BY <1>3
  <2>2. i + 1 \in 1..Len(s) /\ e = s[i + 1]
    BY <1>1, <2>1
  <2> QED BY <1>2, <2>2
<1> QED BY <1>4, <1>5, <1>6

LEMMA RangeOfAppend ==
  ASSUME NEW S, NEW s \in Seq(S), NEW e \in S
  PROVE  Range(Append(s, e)) = Range(s) \cup {e}
<1> DEFINE t == Append(s, e)
<1>1. /\ t \in Seq(S) /\ Len(s) \in Nat /\ Len(t) = Len(s) + 1
      /\ \A i \in 1..Len(s) : t[i] = s[i]
      /\ t[Len(s) + 1] = e
  BY AppendProperties, LenProperties
<1>2. Range(s) = {s[i] : i \in 1..Len(s)}
  BY RangeEquality
<1>3. Range(t) = {t[i] : i \in 1..Len(t)}
  BY <1>1, RangeEquality
<1> HIDE DEF t
<1>4. ASSUME NEW x \in Range(t) PROVE x \in Range(s) \cup {e}
  <2>1. PICK i \in 1..Len(t) : x = t[i]
    BY <1>3
  <2>2. i \in 1..Len(s) \/ i = Len(s) + 1
    BY <1>1
  <2> QED BY <1>1, <1>2, <2>1, <2>2
<1>5. ASSUME NEW x \in Range(s) PROVE x \in Range(t)
  <2>1. PICK i \in 1..Len(s) : x = s[i]
    BY <1>2
  <2>2. i \in 1..Len(t) /\ x = t[i]
    BY <1>1, <2>1
  <2> QED BY <1>3, <2>2
<1>6. e \in Range(t)
  <2>1. Len(s) + 1 \in 1..Len(t)
    BY <1>1
  <2> QED BY <1>1, <1>3, <2>1
<1>7. Range(t) = Range(s) \cup {e}
  BY <1>4, <1>5, <1>6
<1> QED BY <1>7 DEF t

LEMMA OwnEventsStep ==
  ASSUME RecorderTypeOK, OperationsOK, LifeCycle, OverlapIsKnown, OwnRecorder, OwnEvents,
         RecorderNext
  PROVE  OwnEvents'
<1> DEFINE Recorded(b) == file[b] \cup Range(events[b]) \cup dropped
           Past(x, i) == i < at[x] \/ (i = at[x] /\ op[x] = "done" /\ ok[x])
<1> SUFFICES ASSUME NEW b \in Benchmarks \ overlapped'
             PROVE  /\ \A e \in file'[b] \cup Range(events'[b]) : e[1] = b
                    /\ \A x \in OperationsOf(b) : \A i \in 1..Len(Timers(b)) :
                          Past(x, i)' => <<b, x[2], i>> \in Recorded(b)'
  BY DEF OwnEvents
<1>1. /\ b \in Benchmarks \ overlapped
      /\ \A e \in file[b] \cup Range(events[b]) : e[1] = b
      /\ \A x \in OperationsOf(b) : \A i \in 1..Len(Timers(b)) :
            Past(x, i) => <<b, x[2], i>> \in Recorded(b)
  BY OverlapIsKnownStep DEF OwnEvents
<1>2. ASSUME NEW c \in Benchmarks, Request(c) \/ HandlerStep(c)
      PROVE  /\ UNCHANGED <<file, events, dropped, at, ok>>
             /\ \A x \in Operations : op'[x] = "done" => op[x] = "done"
  BY <1>2, HandlerLeaves DEF OpenRecorder
<1>3. CASE /\ UNCHANGED <<file, events, dropped, at, ok>>
           /\ \A x \in Operations : op'[x] = "done" => op[x] = "done"
  BY <1>1, <1>3 DEF OperationsOf
<1>4. ASSUME NEW r \in Benchmarks, WriteEvent(r)
      PROVE  /\ file'[b] \cup Range(events'[b]) = file[b] \cup Range(events[b])
             /\ UNCHANGED <<dropped, at, ok, op>>
  <2>1. UNCHANGED <<dropped, at, ok, op>>
    BY <1>4 DEF WriteEvent
  <2>2. CASE r = b
    <3>1. /\ events[b] # << >> /\ events[b] \in Seq(Events)
          /\ file'[b] = file[b] \cup {Head(events[b])} /\ events'[b] = Tail(events[b])
      BY <1>4, <2>2 DEF WriteEvent, RecorderTypeOK
    <3>2. Range(events[b]) = {Head(events[b])} \cup Range(Tail(events[b]))
      BY <3>1, RangeOfTail
    <3> QED BY <2>1, <3>1, <3>2
  <2>3. CASE r # b
    BY <1>4, <2>1, <2>3 DEF WriteEvent, RecorderTypeOK
  <2> QED BY <2>2, <2>3
<1>5. ASSUME NEW r \in Benchmarks, CloseFile(r)
      PROVE  UNCHANGED <<file, events, dropped, at, ok, op>>
  BY <1>5 DEF CloseFile
<1>6. CASE /\ file'[b] \cup Range(events'[b]) = file[b] \cup Range(events[b])
           /\ UNCHANGED <<dropped, at, ok, op>>
  BY <1>1, <1>6
<1>7. ASSUME NEW x \in Operations, OperationStep(x)
      PROVE  /\ \A e \in file'[b] \cup Range(events'[b]) : e[1] = b
             /\ \A y \in OperationsOf(b) : \A i \in 1..Len(Timers(b)) :
                   Past(y, i)' => <<b, y[2], i>> \in Recorded(b)'
  <2>1. /\ UNCHANGED file /\ op[x] \notin {"none", "done"}
        /\ \A y \in Operations \ {x} : op'[y] = op[y] /\ at'[y] = at[y] /\ ok'[y] = ok[y]
    BY <1>7, OperationLeaves
  <2>2. ASSUME \A e \in Range(events'[b]) : e \in Range(events[b]) \/ e[1] = b,
               Recorded(b) \subseteq Recorded(b)',
               x[1] = b => \A i \in 1..Len(Timers(b)) :
                              Past(x, i)' => <<b, x[2], i>> \in Recorded(b)'
        PROVE  /\ \A e \in file'[b] \cup Range(events'[b]) : e[1] = b
               /\ \A y \in OperationsOf(b) : \A i \in 1..Len(Timers(b)) :
                     Past(y, i)' => <<b, y[2], i>> \in Recorded(b)'
    <3> HIDE DEF Recorded
    <3>1. \A e \in file'[b] \cup Range(events'[b]) : e[1] = b
      BY <1>1, <2>1, <2>2
    <3>2. ASSUME NEW y \in OperationsOf(b), y # x, NEW i \in 1..Len(Timers(b)), Past(y, i)'
          PROVE  <<b, y[2], i>> \in Recorded(b)'
      BY <1>1, <2>1, <2>2, <3>2 DEF OperationsOf
    <3> QED BY <2>2, <3>1, <3>2 DEF OperationsOf
  <2>3. ASSUME UNCHANGED <<events, dropped>>, op'[x] # "done" \/ ~ok'[x] \/ Len(Timers(x[1])) = 0,
               at'[x] = at[x]
        PROVE  /\ \A e \in file'[b] \cup Range(events'[b]) : e[1] = b
               /\ \A y \in OperationsOf(b) : \A i \in 1..Len(Timers(b)) :
                     Past(y, i)' => <<b, y[2], i>> \in Recorded(b)'
    <3>1. x[1] = b => \A i \in 1..Len(Timers(b)) : Past(x, i)' => <<b, x[2], i>> \in Recorded(b)'
      <4> SUFFICES ASSUME x[1] = b, NEW i \in 1..Len(Timers(b)), Past(x, i)'
                   PROVE  <<b, x[2], i>> \in Recorded(b)'
        OBVIOUS
      <4>1. Len(Timers(b)) # 0
        BY TimersAreNumbered
      <4> QED BY <1>1, <2>1, <2>3, <4>1 DEF OperationsOf
    <3> QED BY <2>1, <2>2, <2>3, <3>1
  <2>4. CASE Acquire(x)
    BY <2>3, <2>4 DEF Acquire, RecorderTypeOK
  <2>5. CASE Add(x)
    BY <2>3, <2>5 DEF Add, RecorderTypeOK
  <2>6. CASE EndUntimed(x)
    <3>1. /\ UNCHANGED <<events, dropped, at>> /\ ok'[x] = (Timers(x[1]) = << >>)
      BY <2>6 DEF EndUntimed, RecorderTypeOK
    <3>2. ~ok'[x] \/ Len(Timers(x[1])) = 0
      BY <3>1, EmptySeq
    <3> QED BY <2>3, <3>1, <3>2
  <2>11. CASE NothingToDownload(x)
    BY <2>3, <2>11 DEF NothingToDownload, RecorderTypeOK
  <2>7. x[1] = b => /\ op[x] \in {"add", "send"} => held[x] = b
                    /\ recorder = b /\ channel[b] = "open"
    <3> SUFFICES ASSUME x[1] = b
                 PROVE  /\ op[x] \in {"add", "send"} => held[x] = b
                        /\ recorder = b /\ channel[b] = "open"
      OBVIOUS
    <3>1. pc[b] = "operating"
      BY <2>1 DEF OperationsOK
    <3>2. op[x] \in {"add", "send"} => held[x] = b
      <4>1. \A y \in Operations : op[y] \in {"add", "send"} => (held[y] = b <=> y[1] = b)
        BY <1>1 DEF OwnRecorder
      <4> QED BY <4>1
    <3>3. recorder = b /\ channel[b] = "open"
      BY <1>1, <3>1 DEF OwnRecorder, Opened
    <3> QED BY <3>2, <3>3
  <2>8. x[1] # b /\ op[x] \in {"add", "send"} => held[x] # b
    BY <1>1 DEF OwnRecorder
  <2>9. CASE StopTimer(x)
    <3>1. UNCHANGED <<events, dropped>>
      BY <2>9, StopTimerEffect
    <3>2. CASE x[1] = b
      <4>1. op'[x] = "add" /\ at'[x] = at[x]
        BY <2>7, <2>9, <3>2, RecorderAssumption, StopTimerEffect
      <4> QED BY <2>3, <3>1, <4>1
    <3>3. CASE x[1] # b
      BY <2>1, <2>2, <3>1, <3>3
    <3> QED BY <3>2, <3>3
  <2>10. CASE Send(x)
    <3>1. /\ op[x] = "send" /\ op'[x] \in {"timing", "done"}
          /\ op'[x] = "done" => at'[x] = at[x]
          /\ op'[x] = "timing" => at'[x] = at[x] + 1
          /\ \A r \in Benchmarks \ {held[x]} : events'[r] = events[r]
          /\ dropped \subseteq dropped'
      BY <2>10, SendEffect
    <3>2. CASE x[1] = b
      <4>1. held[x] = b /\ channel[b] = "open"
        BY <2>7, <3>1, <3>2
      <4>2. /\ at[x] \in 1..Len(Timers(b)) /\ EventOf(x) = <<b, x[2], at[x]>>
            /\ EventOf(x) \in Events
        BY <3>1, <3>2, OperationsAreNumbered, TimersAreNumbered, EventIsTyped
        DEF OperationsOK, EventOf
      <4>3. \/ Range(events'[b]) = Range(events[b]) \cup {EventOf(x)} /\ UNCHANGED dropped
            \/ UNCHANGED events /\ dropped' = dropped \cup {EventOf(x)}
        <5>1. CASE events' = [events EXCEPT ![b] = Append(@, EventOf(x))] /\ UNCHANGED dropped
          <6>1. events'[b] = Append(events[b], EventOf(x)) /\ events[b] \in Seq(Events)
            BY <5>1 DEF RecorderTypeOK
          <6> QED BY <4>2, <5>1, <6>1, RangeOfAppend
        <5>2. CASE UNCHANGED events /\ dropped' = dropped \cup {EventOf(x)}
          BY <5>2
        <5> QED BY <2>10, <4>1, <5>1, <5>2, SendEffect
      <4>4. Recorded(b)' = Recorded(b) \cup {<<b, x[2], at[x]>>}
        BY <2>1, <4>2, <4>3
      <4>5. \A e \in Range(events'[b]) : e \in Range(events[b]) \/ e[1] = b
        BY <4>2, <4>3
      <4>6. ASSUME NEW i \in 1..Len(Timers(b)), Past(x, i)'
            PROVE  <<b, x[2], i>> \in Recorded(b)'
        <5>1. i < at[x] \/ i = at[x]
          BY <3>1, <4>2, <4>6, TimersAreNumbered
        <5>2. CASE i < at[x]
          BY <1>1, <3>2, <4>4, <5>2 DEF OperationsOf
        <5>3. CASE i = at[x]
          BY <4>4, <5>3
        <5> QED BY <5>1, <5>2, <5>3
      <4> HIDE DEF Recorded, Past
      <4> QED BY <2>2, <4>4, <4>5, <4>6
    <3>3. CASE x[1] # b
      <4>1. events'[b] = events[b]
        BY <2>8, <3>1, <3>3
      <4> QED BY <2>1, <2>2, <3>1, <3>3, <4>1
    <3> QED BY <3>2, <3>3
  <2> QED BY <1>7, <2>4, <2>5, <2>6, <2>9, <2>10, <2>11 DEF OperationStep
<1> QED BY <1>2, <1>3, <1>4, <1>5, <1>6, <1>7 DEF RecorderNext, RunStep

-----------------------------------------------------------------------------
(* The invariant, and what follows from it. *)

LEMMA RecorderInvStep == RecorderInv /\ [RecorderNext]_recorderVars => RecorderInv'
<1> SUFFICES ASSUME RecorderInv, [RecorderNext]_recorderVars PROVE RecorderInv'
  OBVIOUS
<1>1. CASE RecorderNext
  BY <1>1, RecorderTypeStep, OperationsOKStep, CountIsExactStep, MutexHoldsStep, LifeCycleStep,
     OverlapIsKnownStep, OwnRecorderStep, OwnEventsStep, PanicIsCausedStep DEF RecorderInv
<1>2. CASE UNCHANGED recorderVars
  <2> USE <1>2 DEF RecorderInv, recorderVars
  <2>1. RecorderTypeOK'
    BY DEF RecorderTypeOK
  <2>2. OperationsOK' /\ MutexHolds' /\ LifeCycle'
    BY DEF OperationsOK, MutexHolds, LifeCycle
  <2>3. CountIsExact'
    BY SendingStays
  <2>4. OverlapIsKnown' /\ OwnRecorder' /\ PanicIsCaused'
    <3>1. OverlapIsKnown'
      BY DEF OverlapIsKnown, Active
    <3>2. OwnRecorder'
      <4> SUFFICES ASSUME NEW b \in Benchmarks \ overlapped'
                   PROVE  /\ recorder' = b => pc'[b] \in Opened
                          /\ pc'[b] \in Opened => recorder' = b
                          /\ pc'[b] \in Opened \ {"join to end"} => channel'[b] = "open"
                          /\ pc'[b] = "ended" => channel'[b] \in {"none", "done"}
                          /\ \A x \in Operations :
                                op'[x] \in {"add", "send"} => (held'[x] = b <=> x[1] = b)
        BY DEF OwnRecorder
      <4> QED BY DEF OwnRecorder
    <3>3. PanicIsCaused'
      BY DEF PanicIsCaused
    <3> QED BY <3>1, <3>2, <3>3
  <2>5. OwnEvents'
    BY DEF OwnEvents
  <2> QED BY <2>1, <2>2, <2>3, <2>4, <2>5
<1> QED BY <1>1, <1>2

LEMMA RecorderInvariance == RecorderSpec => []RecorderInv
BY RecorderInitially, RecorderInvStep, PTL DEF RecorderSpec

\* Each variable keeps its type: among others, the counter of a WaitGroup does
\* not get negative, which would be a panic.
THEOREM RecorderTypeCorrect == RecorderSpec => []RecorderTypeOK
BY RecorderInvariance, PTL DEF RecorderInv

\* What has ended beside no other benchmark has all its own events, and no
\* others, in its file, but for those dropped.
THEOREM BenchmarksRecordTheirOwn == RecorderSpec => []RecordsItsOwn
<1>1. ASSUME RecorderInv PROVE RecordsItsOwn
  <2>1. ASSUME NEW b \in Benchmarks \ overlapped, pc[b] = "ended"
        PROVE  file[b] \subseteq {e \in Events : e[1] = b}
    BY <1>1 DEF RecorderInv, RecorderTypeOK, OwnEvents
  <2>2. ASSUME NEW b \in Benchmarks \ overlapped, pc[b] = "ended",
               NEW x \in OperationsOf(b), op[x] = "done", ok[x], NEW i \in 1..Len(Timers(b))
        PROVE  <<b, x[2], i>> \in file[b] \cup dropped
    <3>1. x \in Operations /\ x[1] = b
      BY DEF OperationsOf
    <3>2. channel[b] = "done"
      BY <1>1, <2>2, <3>1 DEF RecorderInv, OwnRecorder, OperationsOK
    <3>3. events[b] = << >> /\ Range(<< >>) = {}
      BY <1>1, <3>2 DEF RecorderInv, LifeCycle, Range
    <3>4. i < at[x] \/ i = at[x]
      <4>1. at[x] \in Nat /\ at[x] >= Len(Timers(b)) /\ Len(Timers(b)) \in Nat
        BY <1>1, <2>2, <3>1, TimersAreNumbered DEF RecorderInv, RecorderTypeOK, OperationsOK
      <4> QED BY <4>1
    <3>5. <<b, x[2], i>> \in file[b] \cup Range(events[b]) \cup dropped
      BY <1>1, <2>2, <3>4 DEF RecorderInv, OwnEvents
    <3> QED BY <3>3, <3>5
  <2>3. panicked => overlapped # {} \/ \E x \in Operations : op[x] = "crashed"
    BY <1>1 DEF RecorderInv, PanicIsCaused
  <2> QED BY <2>1, <2>2, <2>3 DEF RecordsItsOwn
<1> QED BY <1>1, RecorderInvariance, PTL

-----------------------------------------------------------------------------
(* Waiting, and the files that are closed. *)

\* What a request waits for can still happen: the holder of the mutex is at
\* the recorder; the events a shutdown waits for are in the channel or about to
\* be sent; the recorder it joins has been told to end; and some operation of a
\* benchmark that runs is in flight or can be let in.
NobodyWaitsInVain ==
    ~panicked => \A b \in Benchmarks :
        /\ pc[b] \in {"init", "answered"} => mu = Nil \/ pc[mu] \in Locked
        /\ pc[b] \in {"wait to open", "wait to end"} =>
              \/ pending[recorder] = 0 \/ events[recorder] # << >>
              \/ \E x \in Operations : op[x] = "send" /\ held[x] = recorder
        /\ pc[b] \in {"join to open", "join to end"} => channel[recorder] \in {"closed", "done"}
        /\ pc[b] = "operating" =>
              \/ \A x \in OperationsOf(b) : op[x] = "done"
              \/ InFlight(b) # {}
              \/ \E x \in OperationsOf(b) :
                    op[x] = "waiting" /\ Cardinality(InFlight(b)) < Concurrent[b]

\* No shutdown waits for an event that is not to come, and no operation for a
\* slot of the semaphore that nobody holds.
THEOREM NoWaitIsInVain == RecorderSpec => []NobodyWaitsInVain
<1>1. ASSUME RecorderInv PROVE NobodyWaitsInVain
  <2> USE <1>1 DEF RecorderInv
  <2> SUFFICES ASSUME ~panicked, NEW b \in Benchmarks
               PROVE  /\ pc[b] \in {"init", "answered"} => mu = Nil \/ pc[mu] \in Locked
                      /\ pc[b] \in {"wait to open", "wait to end"} =>
                            \/ pending[recorder] = 0 \/ events[recorder] # << >>
                            \/ \E x \in Operations : op[x] = "send" /\ held[x] = recorder
                      /\ pc[b] \in {"join to open", "join to end"} =>
                            channel[recorder] \in {"closed", "done"}
                      /\ pc[b] = "operating" =>
                            \/ \A x \in OperationsOf(b) : op[x] = "done"
                            \/ InFlight(b) # {}
                            \/ \E x \in OperationsOf(b) :
                                  op[x] = "waiting" /\ Cardinality(InFlight(b)) < Concurrent[b]
    BY DEF NobodyWaitsInVain
  <2>1. mu = Nil \/ pc[mu] \in Locked
    BY DEF MutexHolds, RecorderTypeOK
  <2>2. ASSUME pc[b] \in {"wait to open", "wait to end"}, events[recorder] = << >>,
               ~\E x \in Operations : op[x] = "send" /\ held[x] = recorder
        PROVE  pending[recorder] = 0
    <3>1. PICK r \in Benchmarks : r = recorder
      BY <2>2 DEF MutexHolds, Locked, RecorderTypeOK
    <3>2. Sending(r) = {} /\ Len(events[r]) = 0
      BY <2>2, <3>1 DEF Sending
    <3>3. pending[r] = Len(events[r]) + Cardinality(Sending(r))
      BY DEF CountIsExact
    <3>4. pending[r] = 0
      BY <3>2, <3>3, FS_EmptySet
    <3> QED BY <3>1, <3>4
  <2>3. pc[b] \in {"join to open", "join to end"} => channel[recorder] \in {"closed", "done"}
    BY DEF MutexHolds
  <2>4. ASSUME pc[b] = "operating", InFlight(b) = {},
               NEW x \in OperationsOf(b), op[x] # "done"
        PROVE  op[x] = "waiting" /\ Cardinality(InFlight(b)) < Concurrent[b]
    <3>1. x \in Operations /\ x[1] = b
      BY DEF OperationsOf
    <3>2. op[x] # "none"
      BY <2>4, <3>1 DEF OperationsOK, LifeCycle, Opened
    <3>3. op[x] = "waiting"
      BY <2>4, <3>1, <3>2 DEF InFlight, RecorderTypeOK, PanicIsCaused
    <3>4. Cardinality(InFlight(b)) = 0
      BY <2>4, FS_EmptySet
    <3>5. Concurrent[b] \in Nat \ {0}
      BY RecorderAssumption
    <3> QED BY <3>3, <3>4, <3>5
  <2> QED BY <2>1, <2>2, <2>3, <2>4
<1> QED BY <1>1, RecorderInvariance, PTL

\* A recorder that is done stays done, and its file as it is.
ClosedFilesStay ==
    [][\A r \in Benchmarks : channel[r] = "done" =>
          channel'[r] = "done" /\ file'[r] = file[r]]_recorderVars

\* What a shutdown has waited for is not written to any more, whatever
\* operations still hold the recorder.
THEOREM DoneFilesStay == RecorderSpec => ClosedFilesStay
<1> DEFINE Stays == \A r \in Benchmarks : channel[r] = "done" =>
                       channel'[r] = "done" /\ file'[r] = file[r]
<1>1. ASSUME RecorderInv, RecorderNext PROVE Stays
  <2> SUFFICES ASSUME NEW r \in Benchmarks, channel[r] = "done"
               PROVE  channel'[r] = "done" /\ file'[r] = file[r]
    OBVIOUS
  <2>1. events[r] = << >>
    BY <1>1 DEF RecorderInv, LifeCycle
  <2>2. ASSUME NEW b \in Benchmarks, Request(b) \/ HandlerStep(b)
        PROVE  channel'[r] = "done" /\ file'[r] = file[r]
    <3>1. UNCHANGED file
      BY <1>1, <2>2, HandlerLeaves DEF RecorderInv
    <3>2. CASE Close(b)
      BY <1>1, <3>1, <3>2 DEF Close, RecorderInv, RecorderTypeOK
    <3>3. CASE OpenRecorder(b)
      <4>1. channel[b] = "none"
        BY <1>1, <3>3 DEF OpenRecorder, Goto, RecorderInv, LifeCycle, Unopened
      <4> QED BY <1>1, <3>1, <3>3, <4>1 DEF OpenRecorder, RecorderInv, RecorderTypeOK
    <3>4. CASE ~Close(b) /\ ~OpenRecorder(b)
      BY <2>2, <3>1, <3>4 DEF Request, HandlerStep, Lock, NothingToShutDown, Waited,
         CloseAgain, Joined, OpenFails, Answer
    <3> QED BY <3>2, <3>3, <3>4
  <2>3. ASSUME NEW q \in Benchmarks, RunStep(q)
        PROVE  channel'[r] = "done" /\ file'[r] = file[r]
    <3>1. CASE WriteEvent(q)
      BY <1>1, <2>1, <3>1 DEF WriteEvent, RecorderInv, RecorderTypeOK
    <3>2. CASE CloseFile(q)
      BY <1>1, <3>2 DEF CloseFile, RecorderInv, RecorderTypeOK
    <3> QED BY <2>3, <3>1, <3>2 DEF RunStep
  <2>4. ASSUME NEW x \in Operations, OperationStep(x)
        PROVE  channel'[r] = "done" /\ file'[r] = file[r]
    BY <1>1, <2>4, OperationLeaves DEF RecorderInv
  <2> QED BY <1>1, <2>2, <2>3, <2>4 DEF RecorderNext
<1>2. RecorderInv /\ [RecorderNext]_recorderVars => [Stays]_recorderVars
  BY <1>1
<1> QED BY <1>2, RecorderInvariance, PTL DEF RecorderSpec, ClosedFilesStay
=============================================================================
