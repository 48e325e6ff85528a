# Verification of kebeng, a self-hosted snap store

kebeng is a snap store made of four Go services.  snapd and snapcraft talk HTTP
to the *gateway*, which calls the *store*, *assertion* and *account* services
over gRPC; the store keeps its rows in PostgreSQL and its files in MinIO, the
assertion service keeps its documents in MongoDB, the account service has a
PostgreSQL database of its own.  No operation runs in a transaction, no service
takes a lock, and no call undoes an earlier one.  What the store promises
therefore rests on the order of its calls, and this project asks what survives
when operations overlap, fail half-way, or lose a reply.  A fifth service,
*monitoring*, drives benchmarks against the gateway and records durations.

The TLA+ modules below are translated from the Go source; TLC checks small
instances, and TLAPS proves the safety properties for every value of the
constants.  `PROJECT.json` maps each definition to the lines it models.

## 1. Inventory

| Component | State | Operations | Correct when |
|---|---|---|---|
| Store, publication (`processUnscannedSnap`, `UnscannedUpload`, `Move`, `generateAndStoreDelta`) | tables `revision`, `channel`, `snap_deltas`; buckets `unscanned`, `snaps`, `deltas` | upload a file, add a revision, move the file, make a delta | numbers have no gaps and stand for one content each; a published file never changes; deltas apply; no upload is lost |
| Store, registration (`RegisterSnapName`) | tables `entry`, `track`, `channel` | register a name, dry run | a name has one owner, and a registered name can be pushed to |
| Gateway, push (`SnapPush`, `GetUploadStatus`) | table `upload`; the variables of the goroutine | accept, describe, add the revision, sign, record | what the publisher reads when polling is true and sufficient |
| Store, delta pushes (`ApplyUploadDelta`, `DeltaPush`) | as publication | rebuild a snap from a base and a delta, then publish | the result is what the delta makes of its base; nothing is deleted before it is saved |
| Gateway, refresh, cohorts, find | cohort keys (held by clients) | select a revision by channel, number or cohort; offer a delta; search | what is offered can be downloaded and is what was announced; a delta leads to what is offered; devices do not go back |
| Account page, assertions for snapd | none | put an account page together; find a revision and the assertions from its digest to the root key | what is put together of several calls is true, and what is installed can be found |
| Store and gateway, downloads | none | stream a file or a delta | what arrives has the digest that was announced |
| Account service | tables `account`, `key` | add, update, patch, delete, add a key | constraints hold; what was signed about an account stays true |
| Assertion service | collections `snap-revision`, `snap-declaration`, `account`, `account-key`, `snap-build` | add (numbered from the latest), look up | assertions vouch for what is served; numbers are in order; the chain of trust closes |
| Start of the services, loader of test data | buckets, first assertions, the loader's table of ids | create, dial, load | the gateway comes up; a restart leaves nothing signed that is not true |
| Monitoring service and its recorder | one global recorder: mutex, channel, WaitGroup, file | run a benchmark, record its events, shut down | a benchmark gets its own events, and every benchmark ends |
| Error lists (`cerror`) | a list per request | add, remove a code, first error gives the status | the status is that of the cause |
| Authentication | none (macaroons) | make, verify | a library decides |
| Metrics, keys, configuration | - | count, encode, read the environment | - |

Interactions: `SnapPush` calls `AddUpload`, `GetObjectCustomMetadata`,
`UpdateSnapEntryWithMetadata` and `AddRevision` of the store, then
`AddSnapRevisionAssertion` and `AddSnapDeclarationAssertion` of the assertion
service, then `UpdateUploadStatus` of the store, in this order and in the
goroutine of the request.  The store runs each gRPC call in a goroutine of its
own and does not stop when the caller goes away.  A refresh reads the store in
up to four calls, none of which sees the same moment as another.  The gateway
reaches the accounts, the store and the assertions only through clients that it
makes at its start, and ends when one of them cannot be reached.  No foreign key
leads from the tables or documents of one service to those of another: an
account page reads two services in five calls, and an installation three in
eight or more.

What is hard: every call to a database or to MinIO is a point where another
push may run, where the call may fail, or where the service may stop; replies
may be lost after the work was done; there are no deadlines on the gateway's
calls; the publisher sees only the table `upload`; a device acts on an answer
whose parts were read at different times.  `PROJECT.json` lists the hazards at
their lines, those that no property covers with the reason.

## 2. Modules

| Module | Models | Proofs |
|---|---|---|
| `Archive` | abstract: files that are never overwritten, with numbers that only go up | |
| `Publishing` | the store's publication, one step per call to PostgreSQL or MinIO | `PublishingProofs` |
| `NameRegistry` | abstract: a name is granted once, and answers were true when given | |
| `Registration` | the store's registration of names, one step per insert | `RegistrationProofs` |
| `PushPipeline` | the gateway's push; extends `Publishing` with the table `upload` and the assertions | `PushPipelineProofs` |
| `Catalogue` | the store's look-ups of revisions, objects and deltas, as functions of the tables; extends `Publishing` | `PublishingProofs` |
| `DeltaPush` | pushes of deltas, beside pushes of whole files; extends `Catalogue` | `DeltaPushProofs` |
| `Refresh` | devices that install, refresh and download, and cohorts; extends `DeltaPush` | `RefreshProofs` |
| `Accounts` | the tables of the account service and the statements that write them | |
| `Assertions` | the collections of the assertion service, numbered from the latest document | |
| `Deployment` | the services as they start, stop and start again, and the loader; extends `Accounts` and `Assertions` | `DeploymentProofs` |
| `ErrorLists` | package `cerror`: what a refusal of a database becomes in a list of errors, and a list in a status; used by `Registration` and `LookUps` | |
| `Storefront` | what is in the store of a deployment: the second half of the loader, and publishers who register names; extends `Deployment` | |
| `LookUps` | what each look-up of the three services may answer, given the tables; extends `Storefront` and `ErrorLists` | |
| `Readers` | the account page, and snapd that installs a snap by its assertions; extends `LookUps` | `ReadersProofs` |
| `Recorder` | the benchmarks of the monitoring service and the recorder they share | `RecorderProofs` |
| `MCPublishing`, `MCRegistration`, `MCPushPipeline`, `MCRefresh`, `MCDeployment`, `MCRecorder` | small instances for TLC | |

Definitions named "Faulty variant" in the modules are plausible mistakes in
the code; the mutants of `PROJECT.json` put them in the place of the faithful
definition to show that each property can fail.

### Publishing

A *push* is one call of `processUnscannedSnap`.  Its program counter names the
call it makes next; `last`, `seq`, `at` and `patch` are its local variables.
`CheckSha`, `ReadLatest`, `EnsureChannel`/`InsertRevision` (the loop over
tracks and channels, in the order of a Go map), `CopyToSnaps` and
`RemoveUnscanned` (the two halves of `Move`), and `ReadSource`, `ReadTarget`,
`PutDelta`, `RecordDelta` (the delta, whose failure is only logged) follow the
code in order.  `Abort` is the failure of the next call, or the end of the
service: the push stops and nothing is undone.  A file is identified with its
digest, a patch with the pair of contents it was made from.  A track/channel
that is listed twice in one push counts once.  The tracks of a snap are a
constant: the branch of the code that adds a track cannot be reached, because
the look-up that precedes it reports a missing track as an error.

`Spec` lets pushes overlap.  `SerialSpec` restricts it to pushes of one snap
that do not overlap between their look-up of the digest and their end.  This
is what a publisher does who waits for the outcome of a push before the next,
and it is an assumption: the code does not enforce it, and the run
`publishing_race` shows what happens without it.  What it comes to for those
outside the store is `PatientSpec` of `PushPipeline`, below.

### Registration

A *call* makes up to seven database calls: look-up, entry, track, four
channels.  `errors` is the error list that the response carries; its first
element decides the HTTP status.  Its codes are those of `ErrorLists`, which
holds the tables of package `cerror`: the class of a refusal by PostgreSQL or
MongoDB to a code, and the code to a status.  `Fail` is an error of the next call,
`StoreStops` the answer the gateway's client gives in the place of the store.
The table `entry` has a UNIQUE name, which `RegisterSnap` models; `track` and
`channel` have none, and so a row carries the call that inserted it.

### PushPipeline

`gw[p]` is where the goroutine of push `p` is in `SnapPush`.  `Accept` adds the
row to `upload`; `FetchMetadata` calls the store for the digest of the file,
which in `Publishing` is the step `Receive`; `UpdateEntry` overwrites the
description of the snap; `StoreStep` is a step of `Publishing`; `HearReply` and
`LoseReply` end the wait for it; `SignRevision`, `Declare` and `Record` finish
the push.  The failing counterparts (`GiveUp`, `SignFails`, `DeclareFails`,
`GatewayStops`) may leave their call done or not.  `SnapPush` writes its answer
before this work and Go sends it at the latest when the handler returns: the
model lets the publisher poll from `Accept` on, which covers both.

`PatientSpec` restricts publishers and connections instead of the store:
`Waits` says that a snap is pushed only when each earlier push of it is
processed, as snapcraft does when it polls; `ReplyIsAwaited` that the gateway
goes on from `AddRevision` only when the store has ended the push, as it does
without a deadline unless the connection is lost.  It is proved to imply
`PipelineSerialSpec`.  Polling alone is not enough: after a lost reply the
gateway records the upload as processed while the store may still be at it, and
TLC finds a second push beside it when `ReplyIsAwaited` is dropped.

### Catalogue and DeltaPush

`Catalogue` holds what the queries of the store may return, given the tables: a
query with `ORDER BY ... LIMIT 1` over rows that tie returns any of them, so a
look-up is the *set* of its possible answers (`Latest`, `RowsNumbered`,
`LatestReleased`, `DeltaRows`, ...).  `FindSnaps` is the answer of a search as
a function of the tables.

`DeltaPush` is `ApplyUploadDelta`: `job[p]` is where it is, `base`, `bytes` and
`result` are its local variables.  It finds the row of the base, fetches the
delta and compares its digest, reads the file of the base (without comparing
*its* digest), saves the result as one more unscanned file, deletes the delta,
and hands the result to `processUnscannedSnap`, which is a push of
`Publishing`.  Every step is a step of `Publishing` or leaves its variables
alone, and pushes of whole files run beside it.

### Refresh

A device's request goes through `at_gateway[d]`: an install first looks for a
release on the channel; then the revision is selected by cohort key, number or
channel (`Selection`), the row of what the device has is looked up, and, when
the numbers are one apart, the delta between the two rows.  The answer is what
these calls returned, each at its own moment; the device then downloads a whole
file or a delta by the URL in it.  `log` dates the rows of revisions: `Publish`
gives a row the time at which it is inserted, which is what `created_at` is.
`Milestone` is the last whole window of ninety days since a cohort key was made.

Simplifications: a request has one action; the chain of look-ups by which a
download finds its object is one step, which is the read of the object.  Cohort
keys are presented with the creation time they were issued with.  The code does
not see to that: what `signCohortKey` of the gateway signs is the version and
the snap of a key and not its `created-at`
(`services/gateway/internal/handler/snap/handler.go:1267-1283`), so that
`CohortsStayTogether` is a statement about keys that nobody has changed.

### Accounts, Assertions and Deployment

`Accounts` has one action per SQL statement.  `AddKey` and
`PatchAccountByEmail` read in one statement and write in another, so that an
account may be deleted or renamed between them; `UpdateAccount` changes nothing,
because the `CHECK` of the table refuses the empty password hash that it
writes.  `Assertions` has the two statements of a call that signs: the look-up
of the latest document, which gives the number, and the insertion.

`Deployment` composes the two with the processes: `account`, `store`,
`assertion` and `gateway` say how far the `main` of each service has come.
The account service inserts the root account at every start and ends when it
is there; the store makes its buckets at every start and ends when they exist;
the assertion service signs the root key and the root account anew.  The
gateway dials the three in turn, each with its own count of attempts, and in
test mode runs the loader before it serves.  A process may stop between any two
statements; what its calls held is lost, the databases stay.

### Storefront, LookUps and Readers

`Storefront` adds to a deployment the tables `entry`, `revision` and `upload`,
the bucket of unscanned files and the snap-revision assertions, as far as the
loader of test data and publishers fill them.  The loader takes one snap after
another through nine calls (`RegisterTestSnap` to `FinishTestSnap`), with the
ids of accounts that its first half has saved; when one of them fails, the
gateway ends (`FailLoad`) and what was done stays.  A call of the store that
`Registration` or `Publishing` takes apart is one step here: what such a call
leaves half done ends the loader as its failure does.  A publisher's
registration keeps its two calls, to find the account and to register the name.
A gateway outside test mode does not load anything.

`LookUps` has the look-ups in the three layers of the code: the statement of a
repository, whose result is a set of rows or the code of an error (`dbGet`,
`dbSelect`, `findOne`); the call of a service, which makes a list of errors and
rows of it, or ends with a Go error; and the client, which puts
`internal-server-error` in the place of an answer that does not come.  Each is
the *set* of what may be answered, so that every look-up can fail.

`Readers` has two of those who ask.  An account page (`page`) is five calls in
a row, each with its own moment: the account by the email of the macaroon, its
keys, its snaps, their revisions, their publishers; the first error ends it.
An installation (`install`) begins with what the gateway asks for its answer to
a refresh: the snap by id or name, its release, the publisher, and a revision
by its number when one is asked for; in this order, which differs between an
install and a refresh.  snapd then downloads the file, compares its digest,
and asks for the snap-revision assertion of the digest, the declaration of the
snap, the account of its developer, the root key and the root account.
Cohort keys and deltas are the matter of `Refresh`.

### Recorder

The recorder of durations is a global variable of the monitoring process, and
each benchmark opens it, runs its operations in goroutines behind a semaphore,
and shuts it down.  Every access to the mutex, the channel (a bounded
sequence), the WaitGroup (`pending`) and the global is a step.  A benchmark
whose file cannot be opened leaves the closed recorder of an earlier one in the
global (`OpenFails`).  An operation of `SnapdDownload` takes the URL and the
digest from the first result of its refresh without a check
(`services/monitoring/handler/handler.go:195` and `:204`); an answer that decodes
and has neither ends the process (`NothingToDownload`).  Simplifications: the writer's write of an event and its
`wg.Done()` are one step; the timers of an operation are listed in `Endpoints`;
a timed request ends with one of the `Replies` a client can get, and
`Outcomes` says which of them the function of the logic that waits for it takes
for a success; `concurrent` is at least 1 (with 0 the benchmark
hangs, see the hazards); the panic of a WaitGroup that is reused while another
waits is not modelled.

## 3. Runs

| Run | Question | Instance | Result |
|---|---|---|---|
| `publishing_concurrent` | what holds when pushes overlap and stop anywhere? | 3 pushes, 1 snap, 2 files; two channels, an ill-formed list, a missing track | holds |
| `publishing_serial` | what holds when pushes of one snap do not overlap? | 3 pushes, 2 snaps, 2 files; one channel, a list with a missing track, no ill-formed list | holds; implements `Archive` |
| `publishing_race` | do two contents get two numbers when pushes overlap? | 2 pushes | violated: finding |
| `registration` | who gets a name, and is it usable? | 3 calls, 2 names, 2 accounts | holds; implements `NameRegistry` |
| `registration_errors` | does the response carry the cause of a failure? | as above | violated: finding |
| `push_pipeline` | what is a processed upload worth? | 2 pushes, 2 files; a good track, a missing track, an ill-formed list | holds |
| `push_serial` | do assertions vouch for what is served? | as above without the ill-formed list, no overlap in the store | holds |
| `push_polling` | does polling end? | 2 pushes, 1 file, the target lists of `push_pipeline`, fairness | holds |
| `push_processed` | does a processed upload have a revision? | 2 pushes | violated: finding |
| `refresh` | is what a device gets what was announced? | 2 pushes, 1 snap, 2 files, 2 deltas, 1 device, 1 cohort key, a window of 2 ticks, a clock that goes to 2; no ill-formed list | holds |
| `deployment` | what survives starts and stops? does the gateway come up? is what its readers put together true? | 3 ids, 2 people, 2 keys, one account in the test data with a key and 2 snaps, 1 name to register, 2 files, 1 other client, 2 pushes that sign declarations, 3 documents of a kind, 2 attempts, 2 crashes | holds |
| `recorder` | does a benchmark get its events, and does it end? | 3 benchmarks: two operations that ask for cohort keys, at a time; one download, up to its third timer; no operation; a channel of 1 | holds |

Why the bounds are enough to be of interest: two pushes of one snap are needed
for a race and a third for a push that builds on its outcome; two files with
one content make duplicates; two snaps show that keys do not collide; a list
with two channels makes the loop stop half-way, and one with an unknown track
makes it fail; two accounts contend for a name, and the third call finds it
taken.  `MaxSequence` bounds the numbers: `ReadLatest` is disabled at the
bound, and in the instances there are no more pushes than numbers, so that it
is never reached.  The code uses a uint32.  In `refresh`, two pushes make two
revisions and the delta between them, a device has the first and is offered the
second, and the clock passes one milestone.  In `deployment`, two crashes stop
a service and then the one that waits for it; two people can exchange a name or
an email; three documents of a kind show a number, its successor, and a
repetition; the test data has two snaps, so that the second is loaded with what
the first has left in the variables of the loader, and a third name is left
for a publisher, on whose page it is shown.  In `recorder`, the channel is full after one event.
`MaxSequence`, `MaxTime`, `MaxKeys`, `MaxDocuments`, `MaxAttempts` (the code's
own constant), `MaxCrashes` and `MaxNumber` (the revision numbers that snapd may
ask for) are all the bounds there are.

`MCRecorder` leaves out what would only repeat: the benchmark without operations
comes when the first has ended (`Later`), and the download goes no further than
its third timer, which fails (`Short`).  With that it meets both places where
its refresh may have left nothing to take.

Two instances restrict what runs *together*, in the next-state relation of
their MC module, because the parts do not read what each other writes.
`MCRefresh`: a behaviour has devices, or cohorts, or delta pushes beside the
pushes; or a device and a cohort with one push.  `MCDeployment`: ids are given
in one order; pushes sign declarations while the assertion service is alone;
in test mode clients call while the loader loads accounts, which then loads no
snaps, or once the gateway serves, and before the first crash; one page,
installation or registration at a time is in hand.  The run has 114,116 states
at a depth of 56.  The proofs are of the unrestricted specifications.

Pushes (and files, snaps, calls where they are interchangeable) are symmetric,
except in the runs of liveness properties.  Deadlock checking is off because
the systems may rest: all pushes have ended, no file is left to upload, no
device asks.

### What the runs show

* Whatever overlaps or fails (`publishing_concurrent`): numbers have no gap, a
  file leaves `unscanned` only when the database knows its digest, a push that
  reports success has all its rows and a file at its number, and deltas are
  steps of one revision.
* When pushes of one snap do not overlap and each asks for a well-formed
  track/channel (`publishing_serial`): a number stands
  for one content and a content for one number, a file matches its row, what
  was reported as published stays served, recorded deltas lead from their
  source to their target, the store implements `Archive`, and a search shows
  the newest release of each snap that it shows.
* `push_pipeline`: a processed upload with a number is published under it; one
  without a recorded error can be installed (revision and both assertions);
  assertions are of revisions; a published snap is described by a file pushed
  to it.  An upload row and the assertions may still disagree with the store in
  one direction: a revision can exist whose upload says 0 and that has no
  assertion (a lost reply), and a retry is refused as a duplicate.
* `push_serial`, for the same pushes: the file that is served under the number of a snap-revision
  assertion has its digest, and look-ups by digest have one answer in a snap.
* `refresh`, for the same pushes: a device that finishes a download has the bytes whose digest was
  announced, whole or by a delta; an offered delta leads from what it has to
  what it was offered; what it has stays served; on a channel it never goes
  back; a cohort key selects one revision within a window.  The result of a
  pushed delta is what the delta makes of its base, and the delta is deleted
  only when the result was saved or the delta rejected.  A missing delta
  refuses the *whole* refresh, although the file could be downloaded; a
  revision can be offered before its file is there, and the download then
  fails.
* `deployment`: assertions about accounts and keys are numbered 1, 2, 3, each
  number once, however starts are cut short; declarations have no gaps but may
  share a number; what was signed agrees with the tables while the account
  exists; an assertion service that serves can be trusted from its root key on.
  The gateway comes up *if* the three services come to serve and stay: the
  store and the account service themselves cannot be started again over data
  they have left, since the buckets and the root account exist.
  An account page that is shown is of one account that still exists, with its
  own keys and snaps, and names the publisher of each: the code's fallback to
  "Unknown Publisher" is not reached, because only an account with a key gets a
  page and the foreign key of the table keeps such an account from being
  deleted.  In test mode, every step of an installation of a loaded snap can
  find what it needs once the gateway serves, for ever after, and as long as
  the publisher's account is not deleted; what snapd trusts at the end agrees
  with the store.  Two snaps with a file of one content share the assertion
  that is found by its digest: what snapd follows may then be the other snap's,
  and is true of that one.
* `recorder`: a benchmark that no other overlaps has exactly its own events in
  its file, but for those that found the channel full, and every benchmark
  ends.  Benchmarks that overlap take each other's recorder away: events are
  lost or go to the other file, and an event sent on a closed channel ends the
  process.  A file that cannot be opened leaves a closed recorder in the global,
  so that the benchmarks after it end with status 500 when they close it again.
  What ends the process is an overlap, or a download whose refresh had no result.

### Findings

* `publishing_race` (`NumbersAreSpecific`): two overlapping pushes of one snap
  with different contents get one sequence number; their files have one path, so
  that the second overwrites the first.
* `registration_errors` (`FirstErrorIsTheCause`): the look-up that is expected
  to fail leaves `resource-not-found` at the head of the error list, so that a
  database error or a lost race answers 404.
* `push_processed` (`ProcessedHasRevision`): an upload is recorded as processed
  with revision 0 when `AddRevision` failed, and `GetUploadStatus` does not
  return the errors that would tell.

### Fairness

`FairPipelineSpec` assumes weak fairness of the steps of the gateway's
goroutine and of the store's goroutine of each push: the Go scheduler runs
goroutines that are ready, and calls to the databases, to MinIO and between the
services return.  The code sets no deadline on these calls (except 60 seconds
for a delta, which is `SkipDelta`), so that the second half is an assumption
about the network and about TCP, which reports a lost connection (`LoseReply`,
a fault that may happen and need not).  Nothing is assumed of publishers
(uploads, requests) or of failures.

`FairDeploymentSpec` assumes weak fairness of the start and the dial loop of
the gateway: docker starts it again (`restart: always`), and its loop of
attempts goes on.  That the other services come to serve is the antecedent of
`GatewayServes`, not an assumption.

`FairRecorderSpec` assumes weak fairness of each goroutine of a benchmark: the
scheduler runs those that are ready, the timed requests return, and Go's mutex
does not starve a goroutine that waits for it.

## 4. Proofs

All proofs are by an inductive invariant, checked with TLC before it was
proved, and hold for any number of pushes, snaps, files, channels, calls,
devices and accounts.

* **Publishing** (`PublishingProofs`).  `IInv` adds to the properties:
  `NumberFollows` (the number a push took follows that of the row it read,
  which is still there: rows are never deleted), `LoopInserts` (the rows of the
  targets the loop has left behind are there) and `DiscardedIsKnown`.
  `StepFrame` and `StepChanges` say what a step can touch, so that each part is
  proved against the few steps that matter.  From `IInv`: `TypeOK`, `NoGaps`,
  `NoUploadForgotten`, `SuccessIsComplete`, `DeltasAreSingleSteps`.
* **Serial publishing** (`PublishingProofs`).  `SInv` adds
  `NumberIsNew` (until it inserts a row, an active push has a number above all
  others of its snap), `FilesHaveRows`, `CopyStays`, `PatchIsRight` and
  `DeltasHaveRows`; `OthersKeepOff` uses `Serialised`: no other push writes to
  the snap of an active one.  The theorems assume `TargetsAreGiven`, that each
  push asks for a well-formed track/channel.  Without it they are false: a push
  whose list parses to nothing moves its file without a row, and the next push
  takes the same number.  `StoreIsAnArchive` is the refinement of `Archive`; the
  proofs of the pipeline, of delta pushes and of refresh carry it to these
  compositions (`PatientPublishersFillTheArchive`, `DeltaPushesFillTheArchive`,
  `DevicesReadAnArchive`).
* **Searches** (`PublishingProofs`), of the unrestricted `Spec`.  A search looks
  up the channels of a snap, so that `FindShowsNewest` needs
  `RowsHaveChannels`: a row is released to a channel that the table has, of a
  track of its snap.  This is inductive with `IInv`, because `EnsureChannel`
  precedes the insertion and no channel is ever removed.  `HighestRow` gives the
  row that the look-ups sort first.  `SearchShowsNewest` assumes that the set of
  snaps is finite, for without that the list a search goes through is not
  defined.
* **Registration** (`RegistrationProofs`).  `ChannelsLeft`, `OwnsAlone`,
  `RowsAreOwn` and `RowsAreThere` tie the rows of a name to the one call that
  inserted its entry; `ImplementsNameRegistry` is the refinement.
* **The pipeline** (`PushPipelineProofs`).  `PipelineImplementsPublishing`: a
  step of the pipeline is a step of `Publishing` or leaves its variables alone,
  so `IInv` (and, for `PipelineSerialSpec`, `SInv`) holds in it.  On top,
  `Positions` relates the goroutine of the gateway to the push in the store,
  `AssertedByPush`, `RecordedIsAnswer` and `CleanIsComplete` relate what was
  signed and recorded to the number in hand, and `CalledIsDescribed` follows
  the description of a snap.  `AssertionsStayUnique` needs `OneNumberEach`: two
  pushes that inserted rows of one snap have different numbers.
  `PatientPublishersDoNotOverlap` derives `Serialised` from `PatientInv`: the
  store begins with a push when its goroutine has called (`NotBegun`), the
  goroutine goes on when the store has ended (`HeardOut`), writes the outcome
  last (`ProcessedAtEnd`), and of two pushes of a snap one is processed
  (`OneAtATime`).
* **Delta pushes** (`DeltaPushProofs`).  `DeltaIsPublishing`: a step is a step
  of `Publishing` or leaves its variables alone, so that what was proved of the
  store stays true with delta pushes in it (`DeltaPushesPublishSafely`, and
  `DeltaPushesImplementPublishing` for pushes that overlap).
  `DInv` adds `BaseIsRow`, `BytesAreOfBase`, `StagesInOrder`; the theorems about
  the result assume `DeltaSerialSpec` and `TargetsAreGiven`.
* **Refresh** (`RefreshProofs`).  `RefreshIsDeltaPush` carries the invariants of
  the layer below over.  `RInv` adds `LogIsOfRows` (what is dated are the rows,
  each once), `DeltaTargetsServed` (a recorded delta has a target whose file is
  there) and `DeviceOK(d)` (what the request of a device holds is of the tables
  as they were, and has stayed true since).  `DevicesGoForward` and
  `CohortsStayTogether` are action properties proved from it.
  `RefreshImplementsDeltaPushes`: devices and cohorts only read.
* **Deployment** (`DeploymentProofs`), of the unrestricted specification.
  `DeploymentInv` is `AInv` (the tables of accounts, and what calls hold of
  them), `DocInv` (documents and drafts: each number has a predecessor, and
  two drafts about one account or key never stand at the same time), `LoaderOK`
  (the loader's ids are of accounts that were inserted with that row or are
  gone) and `StartOK` (what an assertion service has signed at each step of its
  start).
* **Readers** (`ReadersProofs`), also unrestricted.  `ReadersDeploy` shows that
  a deployment with a store and readers is a deployment, so that
  `DeploymentInv` holds in it.  `StorefrontInv` adds, of the store, that only
  registered snaps have revisions and that those of a snap differ
  (`RevisionsOK`), and that every snap-revision assertion is of a revision in
  the store, by its owner (`Describes`); of the loader, that the accounts it
  has loaded are asserted (`IdsAsserted`), what each of its steps has left
  (`SnapLoaderOK`), and in test mode that each snap with a revision can be
  trusted unless the loader is still at work on it (`LoadedOK`).  On top, `PageOK` says what a page has read so far and
  why it stays true (ids are never used again, keys and entries stay, and an
  account with a key cannot be deleted), and `InstallOK` the same of an
  installation.  Two kinds of lemma about look-ups carry the argument: an
  answer without errors is of rows that are there, and where a row is, such an
  answer is possible.  `NoMoreSaid` is the reason why names agree: while the
  gateway serves, nothing more is asserted about the accounts it has loaded.
  Assumed are the types of the constants, and that there is at least one file
  and one snap.  Two theorems say what clients may count on between their
  calls: `NothingIsTakenBack`, an action property (ids are not given again;
  display names and emails stay with their account; keys, names, the numbers of
  revisions and what was signed stay), and `LoaderFillsAnArchive`: the store of
  `Storefront`, where a call is one step, implements the same `Archive` as that
  of `Publishing`, where it is many, so that in this respect one may stand for
  the other.
* **Recorder** (`RecorderProofs`), of the unrestricted specification.  The
  WaitGroup counts exactly the events on their way to a file
  (`CountIsExact`: those in the channel and those about to be sent), so that it
  is never negative and a shutdown waits for all of them.  `MutexHolds` ties the
  mutex to the requests that are opening or shutting down, `LifeCycle` the
  channel of a recorder to the request it was opened for, `PanicIsCaused` a panic
  to an overlap or to an operation that had nothing to download, and `OwnRecorder` and
  `OwnEvents` say of a benchmark that none has overlapped that the global
  recorder is its own, open until it ends it, and that all its operations have
  sent is in its channel or its file, unless the channel was full.
  `OverlapIsKnown` is what makes this inductive: whoever is active beside
  another has been noted.  From the invariant follow the type invariant and
  `RecordsItsOwn`; `NoWaitIsInVain` (who waits for the mutex, for the events,
  for the end of a recorder or for a place in the semaphore waits for something
  that can still happen, also when benchmarks overlap), which is the safe half
  of `BenchmarksEnd`; and the action property `DoneFilesStay`.

The type invariants of `Publishing`, of `Readers` and of `Recorder` are checked
by runs as well; those of `Registration`, `PushPipeline` and `Refresh` are only
proved.  `PatientInv`, `FillsAnArchive`, `NothingIsTakenBack` and the parts of
`RecorderInv` were checked with TLC on the instances of the runs before they
were proved, and are no properties of a run.

Every safety property of a run that passes is a theorem.  Model-checked only
are `PollingEnds`, `GatewayServes` and `BenchmarksEnd`: liveness under fairness
is out of the reach of the provers.  So is induction with a predicate as a
parameter; where a proof needs the least or the greatest of a set of numbers,
`LeastNumber` takes it from the fact that `<` is well founded on the naturals.

## 5. Not modelled

* Authentication: macaroons are made and verified by a library; the gateway's
  own part has no state.
* Generated code: the protobuf files are 9,200 of the repository's 24,400
  lines, and the mocks of the tests more than a thousand.
* What nothing calls (`FilterKeys`, `FilterAccounts`, look-ups of an account by
  user name and of a key by its digest), the Prometheus histograms, the encoding
  of keys, the reading of the configuration, and the two endpoints of the
  monitoring service that provision snaps for a benchmark and record nothing.
* Of what is modelled, the contents of error messages, metadata fields,
  logging, timings, sizes and architectures are left out.  `UnscannedUpload` is
  one step in every module: a file and its metadata reach the bucket in one
  `PutObject`, and the publisher learns the name of the file only afterwards.

## 6. Plan

What is left, in the order of its worth: pushes in full (`PushPipeline`) beside
the readers of `Readers`, so that an installation meets a revision that is half
published; a refinement of `NameRegistry` by the names of `Storefront`; requests
of several actions in `Refresh`.
