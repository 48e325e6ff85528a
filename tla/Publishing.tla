---------------------------- MODULE Publishing ----------------------------
(***************************************************************************)
(* How the store service turns an uploaded file into a revision of a snap. *)
(*                                                                         *)
(* processUnscannedSnap runs once per push, in its own goroutine, and      *)
(* talks to PostgreSQL (revision, channel and delta rows) and to MinIO     *)
(* (the buckets "unscanned", "snaps" and "deltas") one call at a time,     *)
(* with no transaction and no lock.  Each call is a step here, so that the *)
(* steps of concurrent pushes interleave, and a push may stop between any  *)
(* two of them.                                                            *)
(***************************************************************************)
EXTENDS Naturals, Sequences

CONSTANTS
    Pushes,         \* calls of processUnscannedSnap
    Entries,        \* registered snaps
    Files,          \* names of uploaded files (random UUIDs, never reused)
    Contents,       \* what a file can hold, identified with its SHA3-384
    Digest,         \* Digest[f]: what the file f holds
    Tracks,         \* track names
    Channels,       \* channel names
    TracksOf,       \* TracksOf[e]: tracks the snap e has; no push adds one
    TargetSets,     \* the lists of track/channel a push may ask for, parsed
    MaxSequence     \* bound on sequence numbers (uint32 in the code)

Targets == [track : Tracks, channel : Channels]

ASSUME ConstantsAssumption ==
    /\ Digest \in [Files -> Contents]
    /\ TracksOf \in [Entries -> SUBSET Tracks]
    /\ TargetSets \subseteq SUBSET Targets
    /\ MaxSequence \in Nat \ {0}
    /\ Entries # {} /\ Files # {} /\ TargetSets # {}

VARIABLES
    \* MinIO
    uploaded,       \* files that were ever put in the bucket "unscanned"
    unscanned,      \* files now in the bucket "unscanned"
    snaps,          \* bucket "snaps": <<entry, sequence>> -> contents
    deltas,         \* bucket "deltas": <<entry, sequence, sequence>> -> patch
    \* PostgreSQL
    channels,       \* table "channel": <<entry, target>>
    rows,           \* table "revision": one row per push and target
    deltaRows,      \* table "snap_deltas"
    \* the pushes: program counter, arguments and local variables
    pc,
    request,        \* arguments: entry, file, targets
    todo,           \* targets the loop has still to visit
    at,             \* targets visited last: {} before the first iteration
    last,           \* lastRevision: {} when nil
    seq,            \* sequenceNumber
    patch           \* contents read by generateAndStoreDelta: source, target

stores == <<uploaded, unscanned, snaps, deltas, channels, rows, deltaRows>>
locals == <<todo, at, last, seq, patch>>
vars == <<stores, pc, request, locals>>

-----------------------------------------------------------------------------
Sequence == 1..MaxSequence

Request == [entry : Entries, file : Files, targets : TargetSets]

DefaultChannels == {"stable", "candidate", "beta", "edge"}

\* A row of "revision".  Its id is the pair (push, target).
RevisionRow == [push : Pushes, target : Targets, entry : Entries,
                seq : Sequence, sha : Contents]

\* Faulty variant: file names without the sequence number.
SnapPathUnnumbered(e, n) == <<e, 1>>

\* Faulty variant: file names that all snaps share.
SnapPathShared(e, n) == <<CHOOSE x \in Entries : TRUE, n>>

\* The name of the file of revision n of the snap e in the bucket "snaps".
SnapPath(e, n) == <<e, n>>

\* The name of a delta in the bucket "deltas".
DeltaPath(e, m, n) == <<e, m, n>>

\* PUT of an object: it replaces the one that has the same key.
Put(bucket, key, value) ==
    [k \in DOMAIN bucket \cup {key} |-> IF k = key THEN value ELSE bucket[k]]

RowsOf(e) == {r \in rows : r.entry = e}

\* What GetLatestRevisionByEntryId may return: no row when there is none, or
\* any row of the highest number (ORDER BY sequence_number DESC LIMIT 1).
Latest(e) ==
    IF RowsOf(e) = {} THEN {{}}
    ELSE {{r} : r \in {r \in RowsOf(e) : \A s \in RowsOf(e) : s.seq <= r.seq}}

EntryOf(p) == request[p].entry
FileOf(p) == request[p].file
ShaOf(p) == Digest[FileOf(p)]

\* The row that push p inserts for the target t.
RowFor(p, t) == [push |-> p, target |-> t, entry |-> EntryOf(p),
                 seq |-> seq[p], sha |-> ShaOf(p)]

\* The targets visited next: a range over a map visits the tracks in any
\* order, and all the channels of a track before those of another.
Candidates(p) ==
    LET sameTrack == {t \in todo[p] : \E u \in at[p] : t.track = u.track}
    IN  IF sameTrack = {} THEN todo[p] ELSE sameTrack

Goto(p, from, to) == pc[p] = from /\ pc' = [pc EXCEPT ![p] = to]

-----------------------------------------------------------------------------
Init ==
    /\ uploaded = {} /\ unscanned = {}
    /\ snaps = << >> /\ deltas = << >>
    /\ channels = {link \in Entries \X Targets :
                      /\ link[2].track \in TracksOf[link[1]]
                      /\ link[2].channel \in DefaultChannels}
    /\ rows = {} /\ deltaRows = {}
    /\ pc = [p \in Pushes |-> "idle"]
    /\ request = [p \in Pushes |-> CHOOSE r \in Request : TRUE]
    /\ todo = [p \in Pushes |-> {}]
    /\ at = [p \in Pushes |-> {}]
    /\ last = [p \in Pushes |-> {}]
    /\ seq = [p \in Pushes |-> 1]
    /\ patch = [p \in Pushes |-> << >>]

\* UnscannedUpload: a file reaches the bucket "unscanned" with its digest.
Upload(f) ==
    /\ f \notin uploaded
    /\ uploaded' = uploaded \cup {f}
    /\ unscanned' = unscanned \cup {f}
    /\ UNCHANGED <<snaps, deltas, channels, rows, deltaRows, pc, request, locals>>

\* The gateway reads the digest of an unscanned file and calls AddRevision.
Receive(p, req) ==
    /\ Goto(p, "idle", "ready")
    /\ req.file \in unscanned
    /\ request' = [request EXCEPT ![p] = req]
    /\ UNCHANGED <<stores, locals>>

\* Faulty variant: the digest is not looked up.
CheckShaSkipped(p) ==
    /\ Goto(p, "ready", "sequence")
    /\ UNCHANGED <<stores, request, locals>>

\* GetRevisionBySHAAndEntryId: has this snap a revision with this digest?
CheckSha(p) ==
    /\ Goto(p, "ready",
            IF \E r \in RowsOf(EntryOf(p)) : r.sha = ShaOf(p)
            THEN "discard" ELSE "sequence")
    /\ UNCHANGED <<stores, request, locals>>

\* The file of an existing revision is deleted, and the push refused.
Discard(p) ==
    /\ Goto(p, "discard", "duplicate")
    /\ unscanned' = unscanned \ {FileOf(p)}
    /\ UNCHANGED <<uploaded, snaps, deltas, channels, rows, deltaRows,
                   request, locals>>

\* Faulty variants: the first number is 0, a number is skipped, or the number
\* of the latest revision is used again.
NextSequenceFromZero(latest) ==
    IF latest = {} THEN 0 ELSE (CHOOSE r \in latest : TRUE).seq + 1

NextSequenceSkipping(latest) ==
    IF latest = {} THEN 1 ELSE (CHOOSE r \in latest : TRUE).seq + 2

NextSequenceReused(latest) ==
    IF latest = {} THEN 1 ELSE (CHOOSE r \in latest : TRUE).seq

\* The number after that of the latest revision r: 1 when there is none.
NextSequence(latest) ==
    IF latest = {} THEN 1 ELSE (CHOOSE r \in latest : TRUE).seq + 1

\* GetLatestRevisionByEntryId, and the number that follows.
ReadLatest(p) ==
    /\ Goto(p, "sequence",
            IF request[p].targets = {} THEN "copy" ELSE "release")
    /\ \E latest \in Latest(EntryOf(p)) :
          /\ \A r \in latest : r.seq < MaxSequence
          /\ last' = [last EXCEPT ![p] = latest]
          /\ seq' = [seq EXCEPT ![p] = NextSequence(latest)]
    /\ todo' = [todo EXCEPT ![p] = request[p].targets]
    /\ UNCHANGED <<stores, request, at, patch>>

\* GetTrackByEntryIdAndName finds the track of the next target, and the
\* channel is looked up, or added.
EnsureChannel(p) ==
    /\ Goto(p, "release", "insert")
    /\ \E t \in Candidates(p) :
          /\ t.track \in TracksOf[EntryOf(p)]
          /\ channels' = channels \cup {<<EntryOf(p), t>>}
          /\ at' = [at EXCEPT ![p] = {t}]
    /\ UNCHANGED <<uploaded, unscanned, snaps, deltas, rows, deltaRows,
                   request, todo, last, seq, patch>>

\* The track does not exist: the query fails, and the push with it.
MissingTrack(p) ==
    /\ Goto(p, "release", "untracked")
    /\ \E t \in Candidates(p) : t.track \notin TracksOf[EntryOf(p)]
    /\ UNCHANGED <<stores, request, locals>>

\* Faulty variant: the loop ends after the first target.
InsertRevisionOnce(p) ==
    /\ Goto(p, "insert", "copy")
    /\ rows' = rows \cup {RowFor(p, t) : t \in at[p]}
    /\ todo' = [todo EXCEPT ![p] = @ \ at[p]]
    /\ UNCHANGED <<uploaded, unscanned, snaps, deltas, channels, deltaRows,
                   request, at, last, seq, patch>>

\* AddRevision: the row of the target, and on to the next or out of the loop.
InsertRevision(p) ==
    /\ Goto(p, "insert", IF todo[p] = at[p] THEN "copy" ELSE "release")
    /\ rows' = rows \cup {RowFor(p, t) : t \in at[p]}
    /\ todo' = [todo EXCEPT ![p] = @ \ at[p]]
    /\ UNCHANGED <<uploaded, unscanned, snaps, deltas, channels, deltaRows,
                   request, at, last, seq, patch>>

\* Move, first half: CopyObject to the bucket "snaps".  The copy of a file
\* that is no longer in "unscanned" fails.
CopyToSnaps(p) ==
    /\ \/ /\ FileOf(p) \in unscanned
          /\ Goto(p, "copy", "remove")
          /\ snaps' = Put(snaps, SnapPath(EntryOf(p), seq[p]), ShaOf(p))
       \/ /\ FileOf(p) \notin unscanned
          /\ Goto(p, "copy", "failed")
          /\ UNCHANGED snaps
    /\ UNCHANGED <<uploaded, unscanned, deltas, channels, rows, deltaRows,
                   request, locals>>

\* Move, second half: RemoveObject from "unscanned".  A delta follows when
\* there is an earlier revision and a new one.
RemoveUnscanned(p) ==
    /\ Goto(p, "remove",
            IF last[p] # {} /\ at[p] # {} THEN "source" ELSE "done")
    /\ unscanned' = unscanned \ {FileOf(p)}
    /\ UNCHANGED <<uploaded, snaps, deltas, channels, rows, deltaRows,
                   request, locals>>

\* generateAndStoreDelta reads the file of the earlier revision, ...
ReadSource(p) ==
    /\ Goto(p, "source", "target")
    /\ \E r \in last[p] :
          /\ SnapPath(r.entry, r.seq) \in DOMAIN snaps
          /\ patch' = [patch EXCEPT ![p] = <<snaps[SnapPath(r.entry, r.seq)]>>]
    /\ UNCHANGED <<stores, request, todo, at, last, seq>>

\* ... then that of the new one, and makes a patch from the two.
ReadTarget(p) ==
    /\ Goto(p, "target", "put")
    /\ SnapPath(EntryOf(p), seq[p]) \in DOMAIN snaps
    /\ patch' = [patch EXCEPT ![p] =
                    Append(@, snaps[SnapPath(EntryOf(p), seq[p])])]
    /\ UNCHANGED <<stores, request, todo, at, last, seq>>

\* SaveDeltaToBucket.
PutDelta(p) ==
    /\ Goto(p, "put", "record")
    /\ \E r \in last[p] :
          deltas' = Put(deltas, DeltaPath(EntryOf(p), r.seq, seq[p]), patch[p])
    /\ UNCHANGED <<uploaded, unscanned, snaps, channels, rows, deltaRows,
                   request, locals>>

\* Faulty variant: source and target are swapped.
RecordDeltaSwapped(p) ==
    /\ Goto(p, "record", "done")
    /\ deltaRows' = deltaRows \cup
          {[source |-> RowFor(p, t), target |-> r, patch |-> patch[p]] :
              r \in last[p], t \in at[p]}
    /\ UNCHANGED <<uploaded, unscanned, snaps, deltas, channels, rows,
                   request, locals>>

\* AddDelta, which names the two rows and the digest of the patch.
RecordDelta(p) ==
    /\ Goto(p, "record", "done")
    /\ deltaRows' = deltaRows \cup
          {[source |-> r, target |-> RowFor(p, t), patch |-> patch[p]] :
              r \in last[p], t \in at[p]}
    /\ UNCHANGED <<uploaded, unscanned, snaps, deltas, channels, rows,
                   request, locals>>

\* Faulty variant: a delta is recorded even when its upload failed.
SkipDeltaRecorded(p) ==
    /\ \/ \E stage \in {"source", "target", "record"} : Goto(p, stage, "done")
       \/ Goto(p, "put", "record")
    /\ UNCHANGED <<stores, request, locals>>

\* A failure or the timeout of the delta is logged, and the push succeeds.
SkipDelta(p) ==
    /\ \E stage \in {"source", "target", "put", "record"} : Goto(p, stage, "done")
    /\ UNCHANGED <<stores, request, locals>>

Running == {"ready", "discard", "sequence", "release", "insert", "copy",
            "remove", "source", "target", "put", "record"}

\* A success, the digest already present, a track that does not exist, and
\* any other error (or no reply at all).
Ended == {"done", "duplicate", "untracked", "failed"}

\* Faulty variant: a push that fails removes the uploaded file.
AbortAndCleanUp(p) ==
    /\ \E stage \in Running : Goto(p, stage, "failed")
    /\ unscanned' = unscanned \ {FileOf(p)}
    /\ UNCHANGED <<uploaded, snaps, deltas, channels, rows, deltaRows,
                   request, locals>>

\* The next call to PostgreSQL or MinIO returns an error, or the service
\* stops: the push ends with what it has done so far, and nothing is undone.
\* (A call that takes effect and then reports an error is the call, then this.)
Abort(p) ==
    /\ \E stage \in Running : Goto(p, stage, "failed")
    /\ UNCHANGED <<stores, request, locals>>

Step(p) ==
    \/ CheckSha(p) \/ Discard(p) \/ ReadLatest(p)
    \/ EnsureChannel(p) \/ MissingTrack(p) \/ InsertRevision(p)
    \/ CopyToSnaps(p) \/ RemoveUnscanned(p)
    \/ ReadSource(p) \/ ReadTarget(p) \/ PutDelta(p) \/ RecordDelta(p)
    \/ SkipDelta(p) \/ Abort(p)

Next ==
    \/ \E f \in Files : Upload(f)
    \/ \E p \in Pushes : Step(p) \/ \E req \in Request : Receive(p, req)

Spec == Init /\ [][Next]_vars

-----------------------------------------------------------------------------
(***************************************************************************)
(* Pushes of one snap that do not overlap: the publisher waits for the end *)
(* of a push before the next, as snapcraft does when it polls the status.  *)
(***************************************************************************)
Active == Running \ {"ready"}

Serialised ==
    \A p, q \in Pushes :
        p # q /\ pc[p] \in Active /\ pc[q] \in Active => EntryOf(p) # EntryOf(q)

SerialSpec == Init /\ [][Next /\ Serialised']_vars

-----------------------------------------------------------------------------
\* The type of every variable.
TypeOK ==
    /\ uploaded \subseteq Files /\ unscanned \subseteq uploaded
    /\ DOMAIN snaps \subseteq Entries \X Sequence
    /\ \A k \in DOMAIN snaps : snaps[k] \in Contents
    /\ DOMAIN deltas \subseteq Entries \X Sequence \X Sequence
    /\ \A k \in DOMAIN deltas : deltas[k] \in Seq(Contents)
    /\ channels \subseteq Entries \X Targets
    /\ rows \subseteq RevisionRow
    /\ deltaRows \subseteq [source : RevisionRow, target : RevisionRow,
                            patch : Seq(Contents)]
    /\ pc \in [Pushes -> Running \cup {"idle"} \cup Ended]
    /\ request \in [Pushes -> Request]
    /\ todo \in [Pushes -> SUBSET Targets]
    /\ at \in [Pushes -> SUBSET Targets]
    /\ last \in [Pushes -> SUBSET RevisionRow]
    /\ seq \in [Pushes -> Sequence]
    /\ patch \in [Pushes -> Seq(Contents)]

\* However pushes interleave and fail, the sequence numbers of a snap have no
\* gap: below every revision there is one for each smaller number.
NoGaps ==
    \A r \in rows : r.seq > 1 =>
        \E s \in rows : s.entry = r.entry /\ s.seq = r.seq - 1

\* However pushes interleave and fail, a file leaves "unscanned" only once
\* the database has a row with its digest (or the push that moved it had no
\* well-formed track/channel, and so has no row at all).
NoUploadForgotten ==
    \A f \in uploaded \ unscanned :
        \/ \E r \in rows : r.sha = Digest[f]
        \/ \E p \in Pushes :
              pc[p] # "idle" /\ FileOf(p) = f /\ request[p].targets = {}

\* A push that reports success has a row for each target it asked for, and
\* its number names a file.
SuccessIsComplete ==
    \A p \in Pushes : pc[p] = "done" =>
        /\ \A t \in request[p].targets : RowFor(p, t) \in rows
        /\ SnapPath(EntryOf(p), seq[p]) \in DOMAIN snaps

\* Deltas are stored for steps of one revision of one snap.
DeltasAreSingleSteps ==
    \A d \in deltaRows :
        d.target.entry = d.source.entry /\ d.target.seq = d.source.seq + 1

\* A sequence number of a snap stands for one content: the rows of one number,
\* one for each channel, have one digest.
NumbersAreSpecific ==
    \A r, s \in rows : r.entry = s.entry /\ r.seq = s.seq => r.sha = s.sha

\* A sequence number of a snap stands for one content, and a content for one
\* sequence number.
RevisionsAreSpecific ==
    \A r, s \in rows :
        r.entry = s.entry => (r.seq = s.seq <=> r.sha = s.sha)

\* The file of a revision, once there, is the one its row has the digest of.
RowsMatchFiles ==
    \A r \in rows : SnapPath(r.entry, r.seq) \in DOMAIN snaps =>
        snaps[SnapPath(r.entry, r.seq)] = r.sha

\* What a push reported as published is what is served, from then on.
SuccessIsServed ==
    \A p \in Pushes : pc[p] = "done" =>
        /\ SnapPath(EntryOf(p), seq[p]) \in DOMAIN snaps
        /\ snaps[SnapPath(EntryOf(p), seq[p])] = ShaOf(p)

\* A recorded delta is stored, and leads from the content of its source row
\* to the content of its target row.
DeltasApply ==
    \A d \in deltaRows :
        /\ d.patch = <<d.source.sha, d.target.sha>>
        /\ LET k == DeltaPath(d.source.entry, d.source.seq, d.target.seq)
           IN  k \in DOMAIN deltas /\ deltas[k] = d.patch

\* The served files of the revisions behave as an archive that is never
\* overwritten and only grows upwards.
Served ==
    LET keys == {k \in DOMAIN snaps : \E r \in rows : SnapPath(r.entry, r.seq) = k}
    IN  [k \in keys |-> snaps[k]]

A == INSTANCE Archive WITH archive <- Served

PublishesAnArchive == A!Spec
=============================================================================
