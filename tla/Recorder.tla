------------------------------ MODULE Recorder ------------------------------
(***************************************************************************)
(* The benchmarks of the monitoring service and the recorder of durations  *)
(* they share.  A benchmark is a request: it replaces the global recorder  *)
(* with one that writes a file of its own, runs a number of operations in  *)
(* goroutines, waits for them, and shuts the global recorder down.  Each   *)
(* timer of an operation that stops sends an event to whatever recorder is *)
(* the global one at that time.                                            *)
(***************************************************************************)
EXTENDS Naturals, Sequences, FiniteSets

CONSTANTS
    Benchmarks,     \* requests, identified with the recorder each creates
    Endpoint,       \* Endpoint[b]: the benchmark asked for
    Total,          \* Total[b]: query parameter "amount"
    Concurrent,     \* Concurrent[b]: query parameter "concurrent"
    BufferSize,     \* capacity of the channel of events
    Nil             \* no recorder

VARIABLES
    mu,             \* holder of the mutex of the global recorder, or Nil
    recorder,       \* the global recorder, or Nil
    channel,        \* of each recorder: "none", "open", "closed", "done"
    events,         \* of each recorder: its channel of events
    pending,        \* of each recorder: its WaitGroup
    file,           \* of each recorder: events in its file
    pc,             \* of each request: what it does next
    op,             \* of each operation: what its goroutine does next
    at,             \* of each operation: the timer that runs
    ok,             \* of each operation: has it met no error?
    held,           \* of each operation: the recorder RecordToFile has read
    dropped,        \* events that found the channel full
    overlapped,     \* requests that have run beside another one
    panicked        \* has the process ended?

recorderVars == <<mu, recorder, channel, events, pending, file, pc, op, at, ok,
                  held, dropped, overlapped, panicked>>

\* The timers that an operation of each endpoint starts and stops, in order.
SnapcraftUpload == <<"register_name", "snap_push_dry_run", "unscanned_upload",
                     "snap_push", "snap_processing">>
SnapdDownload == <<"snap_refresh", "snap_download", "snap_revision_assertion",
                   "snap_declaration_assertion", "account_key_assertion",
                   "account_assertion">>
CohortKeys == <<"create_cohorts">>
FindSnaps == <<"find_snaps">>
DeltaUpload == <<"delta_unscanned_upload", "delta_push">>
DeltaDownload == <<"delta_download">>
SnapRevisionUpload == <<"unscanned_upload", "snap_push", "snap_processing">>
RegisterName == << >>

Endpoints == [SnapcraftUpload |-> SnapcraftUpload, SnapdDownload |-> SnapdDownload,
              CohortKeys |-> CohortKeys, FindSnaps |-> FindSnaps,
              DeltaUpload |-> DeltaUpload, DeltaDownload |-> DeltaDownload,
              SnapRevisionUpload |-> SnapRevisionUpload, RegisterName |-> RegisterName]

ASSUME RecorderAssumption ==
    /\ Endpoint \in [Benchmarks -> DOMAIN Endpoints]
    /\ Total \in [Benchmarks -> Nat]
    /\ Concurrent \in [Benchmarks -> Nat \ {0}]
    /\ BufferSize \in Nat \ {0}
    /\ Nil \notin Benchmarks

Timers(b) == Endpoints[Endpoint[b]]

Operations == UNION {{b} \X (1..Total[b]) : b \in Benchmarks}
OperationsOf(b) == {x \in Operations : x[1] = b}

\* The event of the i-th timer of an operation: <<benchmark, number, i>>.
EventOf(x) == <<x[1], x[2], at[x]>>
Events == UNION {{b} \X (1..Total[b]) \X (1..Len(Timers(b))) : b \in Benchmarks}

Active(b) == pc[b] \notin {"idle", "ended"}

RecorderInit ==
    /\ mu = Nil /\ recorder = Nil
    /\ channel = [r \in Benchmarks |-> "none"]
    /\ events = [r \in Benchmarks |-> << >>]
    /\ pending = [r \in Benchmarks |-> 0]
    /\ file = [r \in Benchmarks |-> {}]
    /\ pc = [b \in Benchmarks |-> "idle"]
    /\ op = [x \in Operations |-> "none"]
    /\ at = [x \in Operations |-> 1]
    /\ ok = [x \in Operations |-> TRUE]
    /\ held = [x \in Operations |-> Nil]
    /\ dropped = {} /\ overlapped = {} /\ panicked = FALSE

-----------------------------------------------------------------------------
(* The global recorder *)

Goto(b, from, to) == pc[b] = from /\ pc' = [pc EXCEPT ![b] = to]

\* A request arrives.
Request(b) ==
    /\ Goto(b, "idle", "init")
    /\ overlapped' = IF \E c \in Benchmarks : Active(c)
                     THEN overlapped \cup {b} \cup {c \in Benchmarks : Active(c)}
                     ELSE overlapped
    /\ UNCHANGED <<mu, recorder, channel, events, pending, file, op, at, ok, held,
                   dropped, panicked>>

\* InitFileRecorder and ShutdownFileRecorder hold the mutex from here on.
Lock(b) ==
    /\ mu = Nil /\ mu' = b
    /\ \/ Goto(b, "init", IF recorder = Nil THEN "open" ELSE "wait to open")
       \/ recorder # Nil /\ Goto(b, "answered", "wait to end")
    /\ UNCHANGED <<recorder, channel, events, pending, file, op, at, ok, held,
                   dropped, overlapped, panicked>>

\* ShutdownFileRecorder finds that there is no recorder.
NothingToShutDown(b) ==
    /\ mu = Nil /\ recorder = Nil
    /\ Goto(b, "answered", "ended")
    /\ UNCHANGED <<mu, recorder, channel, events, pending, file, op, at, ok, held,
                   dropped, overlapped, panicked>>

\* shutdown: wg.Wait() returns.
Waited(b) ==
    /\ Goto(b, "wait to open", "close to open") \/ Goto(b, "wait to end", "close to end")
    /\ pending[recorder] = 0
    /\ UNCHANGED <<mu, recorder, channel, events, pending, file, op, at, ok, held,
                   dropped, overlapped, panicked>>

\* shutdown: close(r.events).
Close(b) ==
    /\ Goto(b, "close to open", "join to open") \/ Goto(b, "close to end", "join to end")
    /\ channel[recorder] = "open"
    /\ channel' = [channel EXCEPT ![recorder] = "closed"]
    /\ UNCHANGED <<mu, recorder, events, pending, file, op, at, ok, held,
                   dropped, overlapped, panicked>>

\* Closing what is closed panics: gin recovers, the deferred call unlocks the
\* mutex, and the request ends with status 500.
CloseAgain(b) ==
    /\ Goto(b, "close to open", "ended") \/ Goto(b, "close to end", "ended")
    /\ channel[recorder] # "open"
    /\ mu' = Nil
    /\ UNCHANGED <<recorder, channel, events, pending, file, op, at, ok, held,
                   dropped, overlapped, panicked>>

\* shutdown: <-r.done.  ShutdownFileRecorder then clears the variable.
Joined(b) ==
    /\ \/ Goto(b, "join to open", "open") /\ UNCHANGED <<mu, recorder>>
       \/ Goto(b, "join to end", "ended") /\ mu' = Nil /\ recorder' = Nil
    /\ channel[recorder] = "done"
    /\ UNCHANGED <<channel, events, pending, file, op, at, ok, held,
                   dropped, overlapped, panicked>>

\* InitFileRecorder opens the file and makes the recorder the global one.
OpenRecorder(b) ==
    /\ Goto(b, "open", "operating")
    /\ mu' = Nil /\ recorder' = b
    /\ channel' = [channel EXCEPT ![b] = "open"]
    /\ op' = [x \in Operations |-> IF x[1] = b THEN "waiting" ELSE op[x]]
    /\ UNCHANGED <<events, pending, file, at, ok, held, dropped,
                   overlapped, panicked>>

\* The file cannot be opened: the request ends with status 500.  The global
\* recorder is still the one that was shut down.
OpenFails(b) ==
    /\ Goto(b, "open", "ended")
    /\ mu' = Nil
    /\ UNCHANGED <<recorder, channel, events, pending, file, op, at, ok, held,
                   dropped, overlapped, panicked>>

\* run of a recorder: an event is written, and marked done.
WriteEvent(r) ==
    /\ events[r] # << >>
    /\ file' = [file EXCEPT ![r] = @ \cup {Head(events[r])}]
    /\ events' = [events EXCEPT ![r] = Tail(@)]
    /\ pending' = [pending EXCEPT ![r] = @ - 1]
    /\ UNCHANGED <<mu, recorder, channel, pc, op, at, ok, held,
                   dropped, overlapped, panicked>>

\* run: a closed and empty channel ends it.
CloseFile(r) ==
    /\ channel[r] = "closed" /\ events[r] = << >>
    /\ channel' = [channel EXCEPT ![r] = "done"]
    /\ UNCHANGED <<mu, recorder, events, pending, file, pc, op, at, ok, held,
                   dropped, overlapped, panicked>>

-----------------------------------------------------------------------------
(* The requests that are timed *)

\* What comes of a request to the gateway: the client has no answer, or loses
\* the connection within it; a status of 400 or more; a body that is not the
\* JSON expected, or is, without what was asked for in it; or all is well.
Replies == {"no answer", "cut short", "bad status", "garbled", "empty", "good"}

\* doRequest: the whole body of an answer that is not an error.
doRequest(reply) == reply \in {"garbled", "empty", "good"}

\* json.Unmarshal, which leaves empty what the body does not have.
Decodes(reply) == reply # "garbled"

\* Is there a result with a URL and a digest in the answer to a refresh?
HasDownload(reply) == reply = "good"

\* Does the function of the logic return without an error?
RegisterNameCall(reply) == doRequest(reply)
RefreshSnap(reply) == doRequest(reply) /\ Decodes(reply)
SnapPush(reply) == doRequest(reply) /\ Decodes(reply)
GetUploadStatus(reply) == doRequest(reply) /\ Decodes(reply)
GetAssertion(reply) == doRequest(reply)
CreateCohorts(reply) == doRequest(reply) /\ Decodes(reply)
FindSnapsCall(reply) == doRequest(reply) /\ Decodes(reply)
DeltaPush(reply) == doRequest(reply) /\ Decodes(reply)

\* A download is copied to nowhere as it arrives, whatever it is.
SnapDownload(reply) == reply \notin {"no answer", "bad status", "cut short"}
DeltaDownloadCall(reply) == reply \notin {"no answer", "bad status", "cut short"}

\* A goroutine writes the file to the pipe that the request reads; when the
\* file cannot be read, there is no answer.
UnscannedUpload(reply) == reply \notin {"no answer", "cut short", "bad status"} /\ Decodes(reply)
UnscannedDeltaUpload(reply) == reply \notin {"no answer", "cut short", "bad status"} /\ Decodes(reply)

\* The status of an upload is asked for each second until it is processed, a
\* request fails, or the time is over: with the last reply, what came of it?
Processing(reply) == {GetUploadStatus(reply), FALSE}

\* The account of the root key is asked for; when snapd does not trust it, the
\* chain of signing keys has come back to the root key, which is an error.
Climbing(reply) == {GetAssertion(reply), FALSE}

\* What the request of a timer can come to with a reply.
Outcomes(timer, reply) ==
    CASE timer = "register_name"                              -> {RegisterNameCall(reply)}
      [] timer = "snap_refresh"                               -> {RefreshSnap(reply)}
      [] timer = "snap_download"                              -> {SnapDownload(reply)}
      [] timer \in {"snap_push_dry_run", "snap_push"}         -> {SnapPush(reply)}
      [] timer = "unscanned_upload"                           -> {UnscannedUpload(reply)}
      [] timer = "snap_processing"                            -> Processing(reply)
      [] timer \in {"snap_revision_assertion", "snap_declaration_assertion",
                    "account_key_assertion"}                  -> {GetAssertion(reply)}
      [] timer = "account_assertion"                          -> Climbing(reply)
      [] timer = "create_cohorts"                             -> {CreateCohorts(reply)}
      [] timer = "find_snaps"                                 -> {FindSnapsCall(reply)}
      [] timer = "delta_unscanned_upload"                     -> {UnscannedDeltaUpload(reply)}
      [] timer = "delta_push"                                 -> {DeltaPush(reply)}
      [] timer = "delta_download"                             -> {DeltaDownloadCall(reply)}

-----------------------------------------------------------------------------
(* performOperation: each operation runs in a goroutine of its own *)

InFlight(b) == {x \in OperationsOf(b) : op[x] \in {"timing", "add", "send"}}

\* sem <- struct{}{}: the semaphore lets Concurrent[b] operations in.
Acquire(x) ==
    /\ op[x] = "waiting" /\ op' = [op EXCEPT ![x] = "timing"]
    /\ Cardinality(InFlight(x[1])) < Concurrent[x[1]]
    /\ UNCHANGED <<mu, recorder, channel, events, pending, file, pc, at, ok, held,
                   dropped, overlapped, panicked>>

\* After an event: the next timer, or <-sem, the counts and wg.Done().
Proceed(x, success) ==
    LET more == success /\ at[x] < Len(Timers(x[1]))
    IN  /\ op' = [op EXCEPT ![x] = IF more THEN "timing" ELSE "done"]
        /\ at' = IF more THEN [at EXCEPT ![x] = @ + 1] ELSE at

\* The request of a timer has come to an end with this success.
Timed(x, success) ==
    /\ op[x] = "timing" /\ at[x] \in DOMAIN Timers(x[1])
    /\ \E reply \in Replies : success \in Outcomes(Timers(x[1])[at[x]], reply)

\* The timer stops, but for a download that has failed.  RecordToFile reads the
\* global recorder under the mutex, and returns when there is none.
StopTimer(x) ==
    /\ mu = Nil /\ held' = [held EXCEPT ![x] = recorder]
    /\ \E success \in BOOLEAN :
          /\ Timed(x, success)
          /\ Timers(x[1])[at[x]] = "snap_download" => success
          /\ ok' = [ok EXCEPT ![x] = success]
          /\ IF recorder = Nil THEN Proceed(x, success)
             ELSE op' = [op EXCEPT ![x] = "add"] /\ UNCHANGED at
    /\ UNCHANGED <<mu, recorder, channel, events, pending, file, pc,
                   dropped, overlapped, panicked>>

\* An operation ends before its first timer (it has none, or there is no file
\* to send), with the timer of a download that failed still running, or after a
\* download whose digest cannot be decoded.
EndUntimed(x) ==
    LET last == IF at[x] > 1 THEN Timers(x[1])[at[x]] ELSE "none"
    IN  /\ op[x] = "timing" /\ op' = [op EXCEPT ![x] = "done"]
        /\ last \in {"none", "snap_download", "snap_revision_assertion"}
        /\ last = "snap_download" => Timed(x, FALSE)
        /\ ok' = [ok EXCEPT ![x] = Timers(x[1]) = << >>]
        /\ UNCHANGED <<mu, recorder, channel, events, pending, file, pc, at, held,
                       dropped, overlapped, panicked>>

\* SnapdDownload takes the URL, and then the digest, from the first result of
\* its refresh: when there is none, the operation panics, and with it the process.
NothingToDownload(x) ==
    /\ op[x] = "timing" /\ op' = [op EXCEPT ![x] = "crashed"]
    /\ at[x] > 1 /\ Timers(x[1])[at[x]] \in {"snap_download", "snap_revision_assertion"}
    /\ \E reply \in Replies : RefreshSnap(reply) /\ ~HasDownload(reply)
    /\ panicked' = TRUE
    /\ UNCHANGED <<mu, recorder, channel, events, pending, file, pc, at, ok, held,
                   dropped, overlapped>>

\* Faulty variant: the WaitGroup does not count the event.
AddMissing(x) ==
    /\ op[x] = "add" /\ op' = [op EXCEPT ![x] = "send"]
    /\ UNCHANGED <<mu, recorder, channel, events, pending, file, pc, at, ok, held,
                   dropped, overlapped, panicked>>

\* rec.wg.Add(1), without the mutex.
Add(x) ==
    /\ op[x] = "add" /\ op' = [op EXCEPT ![x] = "send"]
    /\ pending' = [pending EXCEPT ![held[x]] = @ + 1]
    /\ UNCHANGED <<mu, recorder, channel, events, file, pc, at, ok, held,
                   dropped, overlapped, panicked>>

\* Faulty variant: an event that finds the channel full stays counted.
SendKeepsCount(x) ==
    LET r == held[x]
    IN  /\ op[x] = "send" /\ channel[r] = "open" /\ Proceed(x, ok[x])
        /\ IF Len(events[r]) < BufferSize
           THEN events' = [events EXCEPT ![r] = Append(@, EventOf(x))] /\ UNCHANGED dropped
           ELSE dropped' = dropped \cup {EventOf(x)} /\ UNCHANGED events
        /\ UNCHANGED <<mu, recorder, channel, pending, file, pc, ok, held,
                       overlapped, panicked>>

\* The send that does not block: into the channel, past a full one, or a panic
\* when it is closed.
Send(x) ==
    LET r == held[x]
    IN  /\ op[x] = "send" /\ Proceed(x, ok[x])
        /\ \/ /\ channel[r] = "open" /\ Len(events[r]) < BufferSize
              /\ events' = [events EXCEPT ![r] = Append(@, EventOf(x))]
              /\ UNCHANGED <<pending, dropped, panicked>>
           \/ /\ channel[r] = "open" /\ Len(events[r]) = BufferSize
              /\ pending' = [pending EXCEPT ![r] = @ - 1]
              /\ dropped' = dropped \cup {EventOf(x)}
              /\ UNCHANGED <<events, panicked>>
           \/ /\ channel[r] # "open"
              /\ panicked' = TRUE
              /\ UNCHANGED <<events, pending, dropped>>
        /\ UNCHANGED <<mu, recorder, channel, file, pc, ok, held, overlapped>>

\* Faulty variant: the operations are not waited for.
AnswerEarly(b) ==
    /\ Goto(b, "operating", "answered")
    /\ UNCHANGED <<mu, recorder, channel, events, pending, file, op, at, ok, held,
                   dropped, overlapped, panicked>>

\* wg.Wait(), and the answer; the deferred ShutdownFileRecorder comes next.
Answer(b) ==
    /\ \A x \in OperationsOf(b) : op[x] = "done"
    /\ Goto(b, "operating", "answered")
    /\ UNCHANGED <<mu, recorder, channel, events, pending, file, op, at, ok, held,
                   dropped, overlapped, panicked>>

-----------------------------------------------------------------------------
HandlerStep(b) ==
    \/ Lock(b) \/ NothingToShutDown(b)
    \/ Waited(b) \/ Close(b) \/ CloseAgain(b) \/ Joined(b)
    \/ OpenRecorder(b) \/ OpenFails(b) \/ Answer(b)

OperationStep(x) ==
    \/ Acquire(x) \/ StopTimer(x) \/ EndUntimed(x) \/ NothingToDownload(x)
    \/ Add(x) \/ Send(x)

RunStep(r) == WriteEvent(r) \/ CloseFile(r)

\* A panic in the goroutine of an operation ends the process.
RecorderNext ==
    /\ ~panicked
    /\ \/ \E b \in Benchmarks : Request(b) \/ HandlerStep(b) \/ RunStep(b)
       \/ \E x \in Operations : OperationStep(x)

RecorderSpec == RecorderInit /\ [][RecorderNext]_recorderVars

\* The Go scheduler runs every goroutine that can go on, the requests that are
\* timed come to an end, and a mutex is not kept from one waiter for ever.
Fairness ==
    /\ \A b \in Benchmarks : /\ WF_recorderVars(~panicked /\ HandlerStep(b))
                             /\ WF_recorderVars(~panicked /\ RunStep(b))
    /\ \A x \in Operations : WF_recorderVars(~panicked /\ OperationStep(x))

FairRecorderSpec == RecorderSpec /\ Fairness

-----------------------------------------------------------------------------
RecorderTypeOK ==
    /\ mu \in Benchmarks \cup {Nil} /\ recorder \in Benchmarks \cup {Nil}
    /\ channel \in [Benchmarks -> {"none", "open", "closed", "done"}]
    /\ events \in [Benchmarks -> Seq(Events)]
    /\ pending \in [Benchmarks -> Nat]
    /\ file \in [Benchmarks -> SUBSET Events]
    /\ pc \in [Benchmarks -> {"idle", "init", "wait to open", "close to open",
                              "join to open", "open", "operating", "answered",
                              "wait to end", "close to end", "join to end", "ended"}]
    /\ op \in [Operations -> {"none", "waiting", "timing", "add", "send", "done",
                             "crashed"}]
    /\ at \in [Operations -> Nat \ {0}]
    /\ ok \in [Operations -> BOOLEAN]
    /\ held \in [Operations -> Benchmarks \cup {Nil}]
    /\ dropped \subseteq Events
    /\ overlapped \subseteq Benchmarks
    /\ panicked \in BOOLEAN

\* A benchmark that runs beside no other has its own events, and no others, in
\* its own file when it ends, but for those that found the channel full; and
\* recording an event only panics when benchmarks have overlapped: otherwise
\* what ends the process is an answer without a download.
RecordsItsOwn ==
    /\ panicked => overlapped # {} \/ \E x \in Operations : op[x] = "crashed"
    /\ \A b \in Benchmarks \ overlapped : pc[b] = "ended" =>
          /\ file[b] \subseteq {e \in Events : e[1] = b}
          /\ \A x \in OperationsOf(b) : op[x] = "done" /\ ok[x] =>
                {<<b, x[2], i>> : i \in 1..Len(Timers(b))} \subseteq file[b] \cup dropped

\* Every benchmark that is asked for comes to an end, also when benchmarks
\* overlap and wait for each other's events, unless the process panics.
BenchmarksEnd ==
    \A b \in Benchmarks : pc[b] = "init" ~> (pc[b] = "ended" \/ panicked)
=============================================================================
