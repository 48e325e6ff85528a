------------------------- MODULE PublishingProofs -------------------------
(***************************************************************************)
(* Proofs about Publishing and Catalogue, for any number of pushes, snaps, *)
(* files and channels: first what holds whatever pushes overlap; then what *)
(* holds when those of one snap do not, and each asks for a well-formed    *)
(* track/channel at least: what is published stays what it is, and the     *)
(* store implements Archive.                                               *)
(***************************************************************************)
EXTENDS Catalogue, SequenceTheorems, FiniteSetTheorems, WellFoundedInduction, TLAPS

-----------------------------------------------------------------------------
(* The helpers. *)

\* The latest revision is none when the snap has none, or one of its rows
\* with no greater number among the others.
LEMMA LatestIsHighest ==
  ASSUME TypeOK, NEW e \in Entries, NEW latest \in Latest(e)
  PROVE  \/ latest = {} /\ RowsOf(e) = {} /\ NextSequence(latest) = 1
         \/ \E r \in RowsOf(e) :
               /\ latest = {r} /\ NextSequence(latest) = r.seq + 1
               /\ \A s \in RowsOf(e) : s.seq <= r.seq
<1>1. CASE RowsOf(e) = {}
  BY <1>1 DEF Latest, NextSequence
<1>2. CASE RowsOf(e) # {}
  <2>1. PICK r \in RowsOf(e) :
          latest = {r} /\ \A s \in RowsOf(e) : s.seq <= r.seq
    BY <1>2 DEF Latest
  <2>2. NextSequence(latest) = r.seq + 1
    BY <2>1 DEF NextSequence
  <2> QED BY <2>1, <2>2
<1> QED BY <1>1, <1>2

-----------------------------------------------------------------------------
(* The types. *)

LEMMA TypeInitially == Init => TypeOK
<1> SUFFICES ASSUME Init PROVE TypeOK
  OBVIOUS
<1>1. (CHOOSE r \in Request : TRUE) \in Request
  <2>1. PICK e \in Entries, f \in Files, ts \in TargetSets : TRUE
    BY ConstantsAssumption
  <2>2. [entry |-> e, file |-> f, targets |-> ts] \in Request
    BY DEF Request
  <2> QED BY <2>2
<1>2. DOMAIN snaps = {} /\ DOMAIN deltas = {}
  BY DEF Init
<1>3. channels \subseteq Entries \X Targets
  BY DEF Init
<1>4. 1 \in Sequence
  BY ConstantsAssumption DEF Sequence
<1> QED
  BY <1>1, <1>2, <1>3, <1>4 DEF Init, TypeOK, Running

LEMMA TypeStep ==
  ASSUME TypeOK, [Next]_vars
  PROVE  TypeOK'
<1> USE DEF TypeOK
<1>1. ASSUME NEW f \in Files, Upload(f) PROVE TypeOK'
  BY <1>1 DEF Upload, locals
<1>2. ASSUME NEW p \in Pushes, NEW req \in Request, Receive(p, req) PROVE TypeOK'
  BY <1>2 DEF Receive, stores, locals, Goto, Running
<1>3. ASSUME NEW p \in Pushes, CheckSha(p) PROVE TypeOK'
  BY <1>3 DEF CheckSha, stores, locals, Goto, Running
<1>4. ASSUME NEW p \in Pushes, Discard(p) PROVE TypeOK'
  BY <1>4 DEF Discard, stores, locals, Goto, Ended
<1>5. ASSUME NEW p \in Pushes, ReadLatest(p) PROVE TypeOK'
  <2>1. EntryOf(p) \in Entries /\ request[p].targets \subseteq Targets
    BY ConstantsAssumption DEF EntryOf, Request
  <2>2. PICK latest \in Latest(EntryOf(p)) :
          /\ \A r \in latest : r.seq < MaxSequence
          /\ last' = [last EXCEPT ![p] = latest]
          /\ seq' = [seq EXCEPT ![p] = NextSequence(latest)]
    BY <1>5 DEF ReadLatest
  <2>3. latest \subseteq RevisionRow /\ NextSequence(latest) \in Sequence
    <3>1. CASE latest = {} /\ NextSequence(latest) = 1
      BY <3>1, ConstantsAssumption DEF Sequence
    <3>2. ASSUME NEW r \in RowsOf(EntryOf(p)),
                 latest = {r}, NextSequence(latest) = r.seq + 1
          PROVE  latest \subseteq RevisionRow /\ NextSequence(latest) \in Sequence
      <4>1. r \in RevisionRow /\ r.seq \in Sequence /\ r.seq < MaxSequence
        BY <2>2, <3>2 DEF RowsOf, RevisionRow
      <4> QED BY <3>2, <4>1, ConstantsAssumption DEF Sequence
    <3> QED BY <2>1, <3>1, <3>2, LatestIsHighest
  <2> QED
    BY <1>5, <2>1, <2>2, <2>3 DEF ReadLatest, stores, Goto, Running
<1>6. ASSUME NEW p \in Pushes, EnsureChannel(p) PROVE TypeOK'
  BY <1>6 DEF EnsureChannel, locals, Goto, Running, Candidates, EntryOf, Request
<1>7. ASSUME NEW p \in Pushes, MissingTrack(p) PROVE TypeOK'
  BY <1>7 DEF MissingTrack, stores, locals, Goto, Ended
<1>8. ASSUME NEW p \in Pushes, InsertRevision(p) PROVE TypeOK'
  BY <1>8, ConstantsAssumption
  DEF InsertRevision, Goto, Running, RowFor, RevisionRow, EntryOf, ShaOf,
      FileOf, Request
<1>9. ASSUME NEW p \in Pushes, CopyToSnaps(p) PROVE TypeOK'
  <2>1. /\ SnapPath(EntryOf(p), seq[p]) \in Entries \X Sequence
        /\ ShaOf(p) \in Contents
    BY ConstantsAssumption DEF SnapPath, EntryOf, ShaOf, FileOf, Request
  <2>2. /\ DOMAIN snaps' \subseteq Entries \X Sequence
        /\ \A k \in DOMAIN snaps' : snaps'[k] \in Contents
    <3>1. CASE snaps' = Put(snaps, SnapPath(EntryOf(p), seq[p]), ShaOf(p))
      <4> DEFINE k0 == SnapPath(EntryOf(p), seq[p])
      <4>1. /\ DOMAIN snaps' = DOMAIN snaps \cup {k0}
            /\ snaps'[k0] = ShaOf(p)
            /\ \A k \in DOMAIN snaps : k # k0 => snaps'[k] = snaps[k]
        BY <3>1 DEF Put
      <4> HIDE DEF k0
      <4> QED BY <2>1, <4>1 DEF k0
    <3>2. CASE UNCHANGED snaps
      BY <3>2
    <3> QED BY <1>9, <3>1, <3>2 DEF CopyToSnaps
  <2> QED
    BY <1>9, <2>2 DEF CopyToSnaps, locals, Goto, Running, Ended
<1>10. ASSUME NEW p \in Pushes, RemoveUnscanned(p) PROVE TypeOK'
  BY <1>10 DEF RemoveUnscanned, locals, Goto, Running, Ended
<1>11. ASSUME NEW p \in Pushes, ReadSource(p) PROVE TypeOK'
  BY <1>11 DEF ReadSource, stores, Goto, Running
<1>12. ASSUME NEW p \in Pushes, ReadTarget(p) PROVE TypeOK'
  BY <1>12 DEF ReadTarget, stores, Goto, Running
<1>13. ASSUME NEW p \in Pushes, PutDelta(p) PROVE TypeOK'
  BY <1>13 DEF PutDelta, locals, Goto, Running, Put, DeltaPath, EntryOf,
      Request, RevisionRow
<1>14. ASSUME NEW p \in Pushes, RecordDelta(p) PROVE TypeOK'
  BY <1>14, ConstantsAssumption
  DEF RecordDelta, locals, Goto, Ended, RowFor, RevisionRow, EntryOf, ShaOf,
      FileOf, Request
<1>15. ASSUME NEW p \in Pushes, SkipDelta(p) PROVE TypeOK'
  BY <1>15 DEF SkipDelta, stores, locals, Goto, Ended
<1>16. ASSUME NEW p \in Pushes, Abort(p) PROVE TypeOK'
  BY <1>16 DEF Abort, stores, locals, Goto, Ended
<1>17. CASE UNCHANGED vars
  BY <1>17 DEF vars, stores, locals
<1> QED
  BY <1>1, <1>2, <1>3, <1>4, <1>5, <1>6, <1>7, <1>8, <1>9, <1>10, <1>11,
     <1>12, <1>13, <1>14, <1>15, <1>16, <1>17 DEF Next, Step

\* Every variable keeps its type.
THEOREM TypeCorrect == Spec => []TypeOK
BY TypeInitially, TypeStep, PTL DEF Spec

-----------------------------------------------------------------------------
(* What holds however pushes interleave and fail. *)

AfterLoop == {"copy", "remove", "source", "target", "put", "record", "done"}

AfterCopy == AfterLoop \ {"copy"}

\* The number a push took follows that of the revision it read, which remains.
NumberFollows ==
    \A p \in Pushes :
        /\ pc[p] = "idle" => last[p] = {}
        /\ last[p] \subseteq RowsOf(EntryOf(p))
        /\ last[p] = {} => seq[p] = 1
        /\ \A r \in last[p] : seq[p] = r.seq + 1

\* The loop over the targets leaves a row for each target visited.
LoopInserts ==
    \A p \in Pushes :
        /\ todo[p] \subseteq request[p].targets /\ at[p] \subseteq request[p].targets
        /\ pc[p] = "idle" => todo[p] = {} /\ at[p] = {}
        /\ pc[p] = "insert" => at[p] # {}
        /\ pc[p] \in {"release", "insert"} \cup AfterLoop =>
              \A t \in request[p].targets \ todo[p] : RowFor(p, t) \in rows
        /\ pc[p] \in AfterLoop => todo[p] = {}
        /\ pc[p] \in AfterCopy => SnapPath(EntryOf(p), seq[p]) \in DOMAIN snaps

\* A file that is about to be deleted has a digest the database knows.
DiscardedIsKnown ==
    \A p \in Pushes : pc[p] = "discard" => \E r \in rows : r.sha = ShaOf(p)

IInv == /\ TypeOK /\ NumberFollows /\ LoopInserts /\ DiscardedIsKnown
        /\ NoGaps /\ NoUploadForgotten /\ DeltasAreSingleSteps

-----------------------------------------------------------------------------
(* Which steps change what. *)

\* A step of a push leaves the arguments of all pushes and the variables of
\* the others alone, and only ever adds rows and names of files.
LEMMA StepFrame ==
  ASSUME TypeOK, NEW p \in Pushes, Step(p)
  PROVE  /\ request' = request /\ uploaded' = uploaded
         /\ rows \subseteq rows' /\ DOMAIN snaps \subseteq DOMAIN snaps'
         /\ pc[p] \in Running /\ pc'[p] # "idle"
         /\ \A q \in Pushes : q # p =>
               /\ pc'[q] = pc[q] /\ todo'[q] = todo[q] /\ at'[q] = at[q]
               /\ last'[q] = last[q] /\ seq'[q] = seq[q] /\ patch'[q] = patch[q]
<1> USE DEF TypeOK, Goto
<1>1. CASE CheckSha(p)
  BY <1>1 DEF CheckSha, stores, locals, Running
<1>2. CASE Discard(p)
  BY <1>2 DEF Discard, locals, Running
<1>3. CASE ReadLatest(p)
  BY <1>3 DEF ReadLatest, stores, Running
<1>4. CASE EnsureChannel(p)
  BY <1>4 DEF EnsureChannel, Running
<1>5. CASE MissingTrack(p)
  BY <1>5 DEF MissingTrack, stores, locals, Running
<1>6. CASE InsertRevision(p)
  BY <1>6 DEF InsertRevision, Running
<1>7. CASE CopyToSnaps(p)
  BY <1>7 DEF CopyToSnaps, locals, Running, Put
<1>8. CASE RemoveUnscanned(p)
  BY <1>8 DEF RemoveUnscanned, locals, Running
<1>9. CASE ReadSource(p)
  BY <1>9 DEF ReadSource, stores, Running
<1>10. CASE ReadTarget(p)
  BY <1>10 DEF ReadTarget, stores, Running
<1>11. CASE PutDelta(p)
  BY <1>11 DEF PutDelta, locals, Running
<1>12. CASE RecordDelta(p)
  BY <1>12 DEF RecordDelta, locals, Running
<1>13. CASE SkipDelta(p)
  BY <1>13 DEF SkipDelta, stores, locals, Running
<1>14. CASE Abort(p)
  BY <1>14 DEF Abort, stores, locals, Running
<1> QED
  BY <1>1, <1>2, <1>3, <1>4, <1>5, <1>6, <1>7,
     <1>8, <1>9, <1>10, <1>11, <1>12, <1>13, <1>14
  DEF Step

\* Each variable has one step that changes it, or a few.
LEMMA StepChanges ==
  ASSUME NEW p \in Pushes, Step(p)
  PROVE  /\ ReadLatest(p) \/ UNCHANGED <<last, seq>>
         /\ ReadLatest(p) \/ InsertRevision(p) \/ UNCHANGED todo
         /\ EnsureChannel(p) \/ UNCHANGED at
         /\ InsertRevision(p) \/ UNCHANGED rows
         /\ CopyToSnaps(p) \/ UNCHANGED snaps
         /\ Discard(p) \/ RemoveUnscanned(p) \/ UNCHANGED unscanned
         /\ PutDelta(p) \/ UNCHANGED deltas
         /\ RecordDelta(p) \/ UNCHANGED deltaRows
         /\ ReadSource(p) \/ ReadTarget(p) \/ UNCHANGED patch
BY DEF Step, stores, locals, CheckSha, Discard, ReadLatest, EnsureChannel,
       MissingTrack, InsertRevision, CopyToSnaps, RemoveUnscanned, ReadSource,
       ReadTarget, PutDelta, RecordDelta, SkipDelta, Abort

-----------------------------------------------------------------------------
(* Each part of the invariant is preserved. *)

LEMMA NumberFollowsStep ==
  ASSUME TypeOK, NumberFollows, [Next]_vars
  PROVE  NumberFollows'
<1>1. ASSUME NEW f \in Files, Upload(f) PROVE NumberFollows'
  BY <1>1 DEF Upload, locals, NumberFollows, RowsOf, EntryOf
<1>2. ASSUME NEW p \in Pushes, NEW req \in Request, Receive(p, req)
      PROVE  NumberFollows'
  BY <1>2 DEF Receive, stores, locals, Goto, NumberFollows, RowsOf, EntryOf, TypeOK
<1>3. ASSUME NEW p \in Pushes, Step(p) PROVE NumberFollows'
  <2> SUFFICES ASSUME NEW q \in Pushes
               PROVE  /\ pc'[q] = "idle" => last'[q] = {}
                      /\ last'[q] \subseteq RowsOf(EntryOf(q))'
                      /\ last'[q] = {} => seq'[q] = 1
                      /\ \A r \in last'[q] : seq'[q] = r.seq + 1
    BY DEF NumberFollows
  <2>1. RowsOf(EntryOf(q)) \subseteq RowsOf(EntryOf(q))'
    BY <1>3, StepFrame DEF RowsOf, EntryOf
  <2>2. CASE last'[q] = last[q] /\ seq'[q] = seq[q]
    BY <1>3, <2>1, <2>2, StepFrame DEF NumberFollows
  <2>3. CASE q = p /\ ReadLatest(p)
    <3>1. PICK latest \in Latest(EntryOf(p)) :
            /\ last' = [last EXCEPT ![p] = latest]
            /\ seq' = [seq EXCEPT ![p] = NextSequence(latest)]
      BY <2>3 DEF ReadLatest
    <3>2. last'[p] = latest /\ seq'[p] = NextSequence(latest) /\ pc'[p] # "idle"
      BY <1>3, <3>1, StepFrame DEF TypeOK
    <3>3. EntryOf(p) \in Entries
      BY DEF TypeOK, EntryOf, Request
    <3>4. latest \subseteq RowsOf(EntryOf(p))
      BY <3>3, LatestIsHighest
    <3>5. /\ latest = {} => NextSequence(latest) = 1
          /\ \A r \in latest : NextSequence(latest) = r.seq + 1
      BY <3>3, LatestIsHighest
    <3> QED BY <2>1, <2>3, <3>2, <3>4, <3>5
  <2> QED BY <1>3, <2>2, <2>3, StepFrame, StepChanges
<1>4. CASE UNCHANGED vars
  BY <1>4 DEF vars, stores, locals, NumberFollows, RowsOf, EntryOf
<1> QED BY <1>1, <1>2, <1>3, <1>4 DEF Next

LEMMA NoGapsStep ==
  ASSUME TypeOK, NumberFollows, NoGaps, [Next]_vars
  PROVE  NoGaps'
<1>1. CASE UNCHANGED rows
  BY <1>1 DEF NoGaps
<1>2. ASSUME NEW p \in Pushes, InsertRevision(p) PROVE NoGaps'
  <2> SUFFICES ASSUME NEW r \in rows', r.seq > 1
               PROVE  \E s \in rows' : s.entry = r.entry /\ s.seq = r.seq - 1
    BY DEF NoGaps
  <2>1. rows \subseteq rows'
    BY <1>2 DEF InsertRevision
  <2>2. CASE r \in rows
    BY <2>1, <2>2 DEF NoGaps
  <2>3. CASE r \notin rows
    <3>1. r.entry = EntryOf(p) /\ r.seq = seq[p]
      BY <1>2, <2>3 DEF InsertRevision, RowFor
    <3>2. PICK s \in last[p] : TRUE
      BY <3>1 DEF NumberFollows
    <3>3. s \in rows /\ s.entry = EntryOf(p) /\ seq[p] = s.seq + 1
      BY DEF NumberFollows, RowsOf
    <3>4. s.seq \in Nat
      BY <3>3 DEF TypeOK, RevisionRow, Sequence
    <3> QED BY <2>1, <3>1, <3>3, <3>4
  <2> QED BY <2>2, <2>3
<1>3. UNCHANGED rows \/ \E p \in Pushes : InsertRevision(p)
  BY StepChanges DEF Next, Upload, Receive, stores, vars
<1> QED BY <1>1, <1>2, <1>3

LEMMA DeltasAreSingleStepsStep ==
  ASSUME TypeOK, NumberFollows, DeltasAreSingleSteps, [Next]_vars
  PROVE  DeltasAreSingleSteps'
<1>1. CASE UNCHANGED deltaRows
  BY <1>1 DEF DeltasAreSingleSteps
<1>2. ASSUME NEW p \in Pushes, RecordDelta(p) PROVE DeltasAreSingleSteps'
  <2>1. ASSUME NEW r \in last[p], NEW t \in at[p]
        PROVE  RowFor(p, t).entry = r.entry /\ RowFor(p, t).seq = r.seq + 1
    BY DEF RowFor, NumberFollows, RowsOf
  <2> QED BY <1>2, <2>1 DEF RecordDelta, DeltasAreSingleSteps
<1>3. UNCHANGED deltaRows \/ \E p \in Pushes : RecordDelta(p)
  BY StepChanges DEF Next, Upload, Receive, stores, vars
<1> QED BY <1>1, <1>2, <1>3

\* A row of push p for the target t, once inserted, stays the row for it.
LEMMA RowsOfPushStay ==
  ASSUME TypeOK, NEW p \in Pushes, Step(p), NEW q \in Pushes, NEW t,
         RowFor(q, t) \in rows, seq'[q] = seq[q]
  PROVE  RowFor(q, t)' \in rows'
BY StepFrame DEF RowFor, EntryOf, ShaOf, FileOf

LEMMA LoopInsertsStep ==
  ASSUME TypeOK, LoopInserts, [Next]_vars
  PROVE  LoopInserts'
<1>1. ASSUME NEW f \in Files, Upload(f) PROVE LoopInserts'
  BY <1>1 DEF Upload, locals, LoopInserts, RowFor, EntryOf, ShaOf, FileOf
<1>2. ASSUME NEW p \in Pushes, NEW req \in Request, Receive(p, req)
      PROVE  LoopInserts'
  BY <1>2 DEF Receive, stores, locals, Goto, LoopInserts, RowFor, EntryOf,
              ShaOf, FileOf, TypeOK, AfterLoop, AfterCopy
<1>3. ASSUME NEW p \in Pushes, Step(p) PROVE LoopInserts'
  <2> DEFINE Part(q) ==
        /\ todo[q] \subseteq request[q].targets /\ at[q] \subseteq request[q].targets
        /\ pc[q] = "idle" => todo[q] = {} /\ at[q] = {}
        /\ pc[q] = "insert" => at[q] # {}
        /\ pc[q] \in {"release", "insert"} \cup AfterLoop =>
              \A t \in request[q].targets \ todo[q] : RowFor(q, t) \in rows
        /\ pc[q] \in AfterLoop => todo[q] = {}
        /\ pc[q] \in AfterCopy => SnapPath(EntryOf(q), seq[q]) \in DOMAIN snaps
  <2>0. \A q \in Pushes : Part(q)
    BY DEF LoopInserts
  <2> SUFFICES ASSUME NEW q \in Pushes PROVE Part(q)'
    BY DEF LoopInserts
  <2>1. CASE q # p
    <3>1. /\ pc'[q] = pc[q] /\ todo'[q] = todo[q] /\ at'[q] = at[q]
          /\ seq'[q] = seq[q] /\ request' = request
          /\ EntryOf(q)' = EntryOf(q) /\ DOMAIN snaps \subseteq DOMAIN snaps'
      BY <1>3, <2>1, StepFrame DEF EntryOf
    <3>2. \A t : RowFor(q, t) \in rows => RowFor(q, t)' \in rows'
      BY <1>3, <3>1, RowsOfPushStay
    <3>3. SnapPath(EntryOf(q), seq[q])' = SnapPath(EntryOf(q), seq[q])
      BY <3>1 DEF SnapPath
    <3> QED BY <2>0, <3>1, <3>2, <3>3
  <2> USE DEF TypeOK, Goto, AfterLoop, AfterCopy, RowFor, EntryOf, ShaOf, FileOf
  <2>2. CASE q = p /\ CheckSha(p)
    BY <2>0, <2>2 DEF CheckSha, stores, locals
  <2>3. CASE q = p /\ Discard(p)
    BY <2>0, <2>3 DEF Discard, locals
  <2>4. CASE q = p /\ ReadLatest(p)
    BY <2>0, <2>4 DEF ReadLatest, stores
  <2>5. CASE q = p /\ EnsureChannel(p)
    BY <2>0, <2>5 DEF EnsureChannel, Candidates
  <2>6. CASE q = p /\ MissingTrack(p)
    BY <2>0, <2>6 DEF MissingTrack, stores, locals
  <2>7. CASE q = p /\ InsertRevision(p)
    BY <2>0, <2>7 DEF InsertRevision
  <2>8. CASE q = p /\ CopyToSnaps(p)
    BY <2>0, <2>8 DEF CopyToSnaps, locals, Put
  <2>9. CASE q = p /\ RemoveUnscanned(p)
    BY <2>0, <2>9 DEF RemoveUnscanned, locals
  <2>10. CASE q = p /\ (ReadSource(p) \/ ReadTarget(p))
    BY <2>0, <2>10 DEF ReadSource, ReadTarget, stores
  <2>11. CASE q = p /\ PutDelta(p)
    BY <2>0, <2>11 DEF PutDelta, locals
  <2>12. CASE q = p /\ RecordDelta(p)
    BY <2>0, <2>12 DEF RecordDelta, locals
  <2>13. CASE q = p /\ SkipDelta(p)
    BY <2>0, <2>13 DEF SkipDelta, stores, locals
  <2>14. CASE q = p /\ Abort(p)
    BY <2>0, <2>14 DEF Abort, stores, locals
  <2> QED
    BY <1>3, <2>1, <2>2, <2>3, <2>4, <2>5, <2>6, <2>7, <2>8, <2>9, <2>10,
       <2>11, <2>12, <2>13, <2>14 DEF Step
<1>4. CASE UNCHANGED vars
  BY <1>4 DEF vars, stores, locals, LoopInserts, RowFor, EntryOf, ShaOf, FileOf
<1> QED BY <1>1, <1>2, <1>3, <1>4 DEF Next

LEMMA DiscardedIsKnownStep ==
  ASSUME TypeOK, DiscardedIsKnown, [Next]_vars
  PROVE  DiscardedIsKnown'
<1>1. ASSUME NEW f \in Files, Upload(f) PROVE DiscardedIsKnown'
  BY <1>1 DEF Upload, DiscardedIsKnown, ShaOf, FileOf
<1>2. ASSUME NEW p \in Pushes, NEW req \in Request, Receive(p, req)
      PROVE  DiscardedIsKnown'
  BY <1>2 DEF Receive, stores, Goto, DiscardedIsKnown, ShaOf, FileOf, TypeOK
<1>3. ASSUME NEW p \in Pushes, Step(p) PROVE DiscardedIsKnown'
  <2> SUFFICES ASSUME NEW q \in Pushes, pc'[q] = "discard"
               PROVE  \E r \in rows' : r.sha = ShaOf(q)'
    BY DEF DiscardedIsKnown
  <2>1. rows \subseteq rows' /\ ShaOf(q)' = ShaOf(q)
    BY <1>3, StepFrame DEF ShaOf, FileOf
  <2>2. CASE pc[q] = "discard"
    BY <2>1, <2>2 DEF DiscardedIsKnown
  <2>3. CASE pc[q] # "discard"
    <3>1. q = p
      BY <1>3, <2>3, StepFrame
    <3>2. CheckSha(p)
      BY <1>3, <2>3, <3>1
      DEF Step, Goto, TypeOK, Discard, ReadLatest, EnsureChannel, MissingTrack,
          InsertRevision, CopyToSnaps, RemoveUnscanned, ReadSource, ReadTarget,
          PutDelta, RecordDelta, SkipDelta, Abort
    <3>3. \E r \in RowsOf(EntryOf(p)) : r.sha = ShaOf(p)
      BY <2>3, <3>1, <3>2 DEF CheckSha, Goto, TypeOK
    <3> QED BY <2>1, <3>1, <3>3 DEF RowsOf
  <2> QED BY <2>2, <2>3
<1>4. CASE UNCHANGED vars
  BY <1>4 DEF vars, stores, DiscardedIsKnown, ShaOf, FileOf
<1> QED BY <1>1, <1>2, <1>3, <1>4 DEF Next

LEMMA NoUploadForgottenStep ==
  ASSUME TypeOK, LoopInserts, DiscardedIsKnown, NoUploadForgotten, [Next]_vars
  PROVE  NoUploadForgotten'
<1>1. ASSUME NEW f \in Files, Upload(f) PROVE NoUploadForgotten'
  BY <1>1 DEF Upload, NoUploadForgotten, FileOf, TypeOK
<1>2. ASSUME NEW p \in Pushes, NEW req \in Request, Receive(p, req)
      PROVE  NoUploadForgotten'
  <2>1. UNCHANGED <<uploaded, unscanned, rows>> /\ pc[p] = "idle"
    BY <1>2 DEF Receive, stores, Goto
  <2>2. \A q \in Pushes :
           q # p => pc'[q] = pc[q] /\ request'[q] = request[q]
    BY <1>2 DEF Receive, Goto, TypeOK
  <2> QED BY <2>1, <2>2 DEF NoUploadForgotten, FileOf
<1>3. ASSUME NEW p \in Pushes, Step(p) PROVE NoUploadForgotten'
  <2> SUFFICES ASSUME NEW f \in uploaded' \ unscanned'
               PROVE  \/ \E r \in rows' : r.sha = Digest[f]
                      \/ \E q \in Pushes : /\ pc'[q] # "idle"
                                           /\ FileOf(q)' = f
                                           /\ request'[q].targets = {}
    BY DEF NoUploadForgotten
  <2>1. /\ rows \subseteq rows' /\ request' = request /\ uploaded' = uploaded
        /\ \A q \in Pushes : pc[q] # "idle" => pc'[q] # "idle"
        /\ \A q \in Pushes : FileOf(q)' = FileOf(q)
    BY <1>3, StepFrame DEF FileOf
  <2>2. CASE f \notin unscanned
    BY <2>1, <2>2 DEF NoUploadForgotten
  <2>3. CASE f \in unscanned /\ Discard(p)
    <3>1. f = FileOf(p) /\ pc[p] = "discard"
      BY <2>3 DEF Discard, Goto
    <3> QED BY <2>1, <3>1 DEF DiscardedIsKnown, ShaOf
  <2>4. CASE f \in unscanned /\ RemoveUnscanned(p)
    <3>1. f = FileOf(p) /\ pc[p] = "remove"
      BY <2>4 DEF RemoveUnscanned, Goto
    <3>2. CASE request[p].targets = {}
      BY <2>1, <3>1, <3>2
    <3>3. ASSUME NEW t \in request[p].targets PROVE \E r \in rows : r.sha = Digest[f]
      <4>1. RowFor(p, t) \in rows
        BY <3>1 DEF LoopInserts, AfterLoop
      <4> QED BY <3>1, <4>1 DEF RowFor, ShaOf
    <3> QED BY <2>1, <3>2, <3>3
  <2> QED BY <1>3, <2>2, <2>3, <2>4, StepChanges
<1>4. CASE UNCHANGED vars
  BY <1>4 DEF vars, stores, NoUploadForgotten, FileOf
<1> QED BY <1>1, <1>2, <1>3, <1>4 DEF Next

-----------------------------------------------------------------------------
(* The invariant, and the properties that follow from it. *)

LEMMA IInvInitially == Init => IInv
<1> SUFFICES ASSUME Init PROVE IInv
  OBVIOUS
<1>1. TypeOK
  BY TypeInitially
<1> QED
  BY <1>1 DEF Init, IInv, NumberFollows, LoopInserts, DiscardedIsKnown, NoGaps,
     NoUploadForgotten, DeltasAreSingleSteps, AfterLoop, AfterCopy

LEMMA IInvStep ==
  ASSUME IInv, [Next]_vars
  PROVE  IInv'
BY TypeStep, NumberFollowsStep, LoopInsertsStep, DiscardedIsKnownStep, NoGapsStep,
   NoUploadForgottenStep, DeltasAreSingleStepsStep DEF IInv

LEMMA Invariance == Spec => []IInv
BY IInvInitially, IInvStep, PTL DEF Spec

\* The revisions of a snap are numbered without a gap.
THEOREM NumbersHaveNoGaps == Spec => []NoGaps
BY Invariance, PTL DEF IInv

\* A file that has left "unscanned" has a digest that the database knows.
THEOREM UploadsAreNotForgotten == Spec => []NoUploadForgotten
BY Invariance, PTL DEF IInv

\* A delta leads from a revision to the next one of the same snap.
THEOREM DeltasAreOfOneStep == Spec => []DeltasAreSingleSteps
BY Invariance, PTL DEF IInv

\* A push that ended well has all its rows, and its file has been stored.
THEOREM SuccessMeansComplete == Spec => []SuccessIsComplete
<1>1. IInv => SuccessIsComplete
  BY DEF IInv, LoopInserts, SuccessIsComplete, AfterLoop, AfterCopy
<1> QED BY <1>1, Invariance, PTL

-----------------------------------------------------------------------------
(* Channels come before the revisions on them. *)

\* A revision is on a channel the snap has, of a track it has; so is the one
\* about to be inserted.
RowsHaveChannels ==
    /\ \A link \in channels : link[2].track \in TracksOf[link[1]]
    /\ \A r \in rows : <<r.entry, r.target>> \in channels
    /\ \A p \in Pushes : pc[p] = "insert" => \A t \in at[p] : <<EntryOf(p), t>> \in channels

\* The step from "release" to "insert" is EnsureChannel's.
LEMMA InsertFollowsEnsure ==
  ASSUME TypeOK, NEW p \in Pushes, Step(p), pc'[p] = "insert"
  PROVE  EnsureChannel(p)
<1> USE DEF TypeOK, Goto
<1>1. ~CheckSha(p) /\ ~Discard(p) /\ ~ReadLatest(p) /\ ~MissingTrack(p)
  BY DEF CheckSha, Discard, ReadLatest, MissingTrack
<1>2. ~InsertRevision(p) /\ ~CopyToSnaps(p) /\ ~RemoveUnscanned(p)
  BY DEF InsertRevision, CopyToSnaps, RemoveUnscanned
<1>3. ~ReadSource(p) /\ ~ReadTarget(p) /\ ~PutDelta(p) /\ ~RecordDelta(p)
  BY DEF ReadSource, ReadTarget, PutDelta, RecordDelta
<1>4. ~SkipDelta(p) /\ ~Abort(p)
  BY DEF SkipDelta, Abort
<1> QED BY <1>1, <1>2, <1>3, <1>4 DEF Step

LEMMA RowsHaveChannelsStep ==
  ASSUME TypeOK, RowsHaveChannels, [Next]_vars
  PROVE  RowsHaveChannels'
<1>1. ASSUME NEW f \in Files, Upload(f) PROVE RowsHaveChannels'
  BY <1>1 DEF Upload, locals, RowsHaveChannels, EntryOf
<1>2. ASSUME NEW p \in Pushes, NEW req \in Request, Receive(p, req)
      PROVE  RowsHaveChannels'
  <2>1. /\ UNCHANGED <<channels, rows, at>> /\ pc'[p] = "ready"
        /\ \A q \in Pushes : q # p => pc'[q] = pc[q] /\ request'[q] = request[q]
    BY <1>2 DEF Receive, stores, locals, Goto, TypeOK
  <2> QED BY <2>1 DEF RowsHaveChannels, EntryOf
<1>3. ASSUME NEW p \in Pushes, Step(p) PROVE RowsHaveChannels'
  <2>1. request' = request /\ \A q \in Pushes : q # p => pc'[q] = pc[q] /\ at'[q] = at[q]
    BY <1>3, StepFrame
  <2>2. CASE EnsureChannel(p)
    <3>1. PICK t \in Candidates(p) :
            /\ t.track \in TracksOf[EntryOf(p)]
            /\ channels' = channels \cup {<<EntryOf(p), t>>}
            /\ at' = [at EXCEPT ![p] = {t}]
      BY <2>2 DEF EnsureChannel
    <3>2. at'[p] = {t} /\ UNCHANGED rows
      BY <2>2, <3>1 DEF EnsureChannel, TypeOK
    <3> QED BY <2>1, <3>1, <3>2 DEF RowsHaveChannels, EntryOf
  <2>3. CASE ~EnsureChannel(p)
    <3>1. UNCHANGED <<channels, at>> /\ pc'[p] # "insert"
      BY <1>3, <2>3, InsertFollowsEnsure
      DEF Step, stores, locals, CheckSha, Discard, ReadLatest, MissingTrack, InsertRevision,
          CopyToSnaps, RemoveUnscanned, ReadSource, ReadTarget, PutDelta, RecordDelta,
          SkipDelta, Abort
    <3>2. \A r \in rows' : <<r.entry, r.target>> \in channels
      <4>1. CASE InsertRevision(p)
        <5> SUFFICES ASSUME NEW r \in rows', r \notin rows
                     PROVE  <<r.entry, r.target>> \in channels
          BY DEF RowsHaveChannels
        <5>1. PICK t \in at[p] : r = RowFor(p, t)
          BY <4>1 DEF InsertRevision
        <5>2. r.entry = EntryOf(p) /\ r.target = t /\ pc[p] = "insert"
          BY <4>1, <5>1 DEF InsertRevision, Goto, RowFor
        <5> QED BY <5>2 DEF RowsHaveChannels
      <4>2. CASE UNCHANGED rows
        BY <4>2 DEF RowsHaveChannels
      <4> QED BY <1>3, <4>1, <4>2, StepChanges
    <3> QED BY <2>1, <3>1, <3>2 DEF RowsHaveChannels, EntryOf
  <2> QED BY <2>2, <2>3
<1>4. CASE UNCHANGED vars
  BY <1>4 DEF vars, stores, locals, RowsHaveChannels, EntryOf
<1> QED BY <1>1, <1>2, <1>3, <1>4 DEF Next

LEMMA ChannelsInvariance == Spec => [](IInv /\ RowsHaveChannels)
<1>1. Init => RowsHaveChannels
  BY DEF Init, RowsHaveChannels
<1>2. IInv /\ RowsHaveChannels /\ [Next]_vars => RowsHaveChannels'
  BY RowsHaveChannelsStep DEF IInv
<1> QED BY <1>1, <1>2, Invariance, PTL DEF Spec

-----------------------------------------------------------------------------
(* Searches. *)

\* A set of numbers has a least one.
LEMMA LeastNumber ==
  ASSUME NEW S \in SUBSET Nat, S # {}
  PROVE  \E x \in S : \A y \in S : x <= y
<1> DEFINE R == {ss \in Nat \X Nat : ss[1] < ss[2]}
<1>1. IsWellFoundedOn(R, Nat)
  BY NatLessThanWellFounded DEF OpToRel
<1>2. \A x, y \in Nat : <<y, x>> \in R <=> y < x
  OBVIOUS
<1> HIDE DEF R
<1>3. PICK x \in S : \A y \in S : <<y, x>> \notin R
  BY <1>1, WFMin
<1>4. \A y \in S : x \in Nat /\ y \in Nat /\ ~(y < x)
  BY <1>2, <1>3
<1>5. \A y \in S : x <= y
  BY <1>4
<1> QED BY <1>5

\* A set of rows has one of the highest number.
LEMMA HighestRow ==
  ASSUME TypeOK, NEW S \in SUBSET rows, S # {}
  PROVE  \E r \in S : \A s \in S : s.seq <= r.seq
<1> DEFINE T == {MaxSequence - r.seq : r \in S}
<1>1. \A r \in S : r.seq \in Nat /\ MaxSequence - r.seq \in Nat
  <2>1. \A r \in S : r.seq \in 1..MaxSequence
    BY DEF TypeOK, RevisionRow, Sequence
  <2> QED BY <2>1, ConstantsAssumption
<1>2. T \in SUBSET Nat /\ T # {}
  BY <1>1
<1>3. PICK m \in T : \A n \in T : m <= n
  BY <1>2, LeastNumber
<1>4. PICK r \in S : m = MaxSequence - r.seq
  BY <1>3
<1>5. ASSUME NEW s \in S PROVE s.seq <= r.seq
  <2>1. MaxSequence - r.seq <= MaxSequence - s.seq
    BY <1>3, <1>4
  <2> QED BY <1>1, <2>1, ConstantsAssumption
<1> QED BY <1>5

\* What is released to one of the channels on the track "latest".
ReleasedTo(chs) == {r \in rows : r.target.track = "latest" /\ r.target.channel \in chs}

\* The target "latest" and a channel, as the inner loop looks them up.
LatestTrack(c) == [track |-> "latest", channel |-> c]

\* What a search shows of a snap that is released to one of the channels.
LEMMA ShownIsHighest ==
  ASSUME TypeOK, NEW chs \in SUBSET Channels, NEW e \in Entries
  PROVE  /\ Shown(e, chs) \subseteq {r \in ReleasedTo(chs) : r.entry = e}
         /\ (\E r \in ReleasedTo(chs) : r.entry = e) => Shown(e, chs) # {}
         /\ Shown(e, chs) # {} => ShownHighest(e, chs) # {}
         /\ \A r \in ShownHighest(e, chs) :
               /\ r \in ReleasedTo(chs) /\ r.entry = e
               /\ \A s \in ReleasedTo(chs) : s.entry = e => s.seq <= r.seq
<1>1. Shown(e, chs) \subseteq {r \in ReleasedTo(chs) : r.entry = e}
  <2> SUFFICES ASSUME NEW r \in Shown(e, chs)
               PROVE  r \in ReleasedTo(chs) /\ r.entry = e
    OBVIOUS
  <2>1. PICK c \in chs : r \in LatestReleased(e, [track |-> "latest", channel |-> c])
    BY DEF Shown
  <2>2. r \in rows /\ r.entry = e /\ r.target = [track |-> "latest", channel |-> c]
    BY <2>1 DEF LatestReleased, RowsOf
  <2> QED BY <2>2 DEF ReleasedTo
<1>2. ASSUME NEW s \in ReleasedTo(chs), s.entry = e
      PROVE  \E r \in Shown(e, chs) : s.seq <= r.seq
  <2> DEFINE c == s.target.channel
             S == {r \in RowsOf(e) : r.target = LatestTrack(c)}
  <2>1. s \in S /\ c \in chs
    <3>1. s.target \in [track : Tracks, channel : Channels]
      BY DEF ReleasedTo, TypeOK, RevisionRow, Targets
    <3>2. s.target = LatestTrack(c)
      BY <3>1 DEF ReleasedTo, LatestTrack
    <3> QED BY <1>2, <3>2 DEF ReleasedTo, RowsOf
  <2>2. PICK r \in S : \A q \in S : q.seq <= r.seq
    <3>1. S \in SUBSET rows /\ S # {}
      BY <2>1 DEF RowsOf
    <3> HIDE DEF S
    <3> QED BY <3>1, HighestRow
  <2>3. r \in LatestReleased(e, LatestTrack(c))
    BY <2>2 DEF LatestReleased
  <2>4. r \in Shown(e, chs)
    BY <2>1, <2>3 DEF Shown, LatestTrack
  <2> QED BY <2>1, <2>2, <2>4
<1>3. ASSUME Shown(e, chs) # {} PROVE ShownHighest(e, chs) # {}
  <2>1. Shown(e, chs) \in SUBSET rows
    BY <1>1 DEF ReleasedTo
  <2>2. PICK r \in Shown(e, chs) : \A s \in Shown(e, chs) : s.seq <= r.seq
    BY <1>3, <2>1, HighestRow
  <2> QED BY <2>2 DEF ShownHighest
<1>4. ASSUME NEW r \in ShownHighest(e, chs)
      PROVE  /\ r \in ReleasedTo(chs) /\ r.entry = e
             /\ \A s \in ReleasedTo(chs) : s.entry = e => s.seq <= r.seq
  <2>1. r \in Shown(e, chs) /\ \A s \in Shown(e, chs) : s.seq <= r.seq
    BY DEF ShownHighest
  <2>2. r \in ReleasedTo(chs) /\ r.entry = e
    BY <1>1, <2>1
  <2>3. ASSUME NEW s \in ReleasedTo(chs), s.entry = e PROVE s.seq <= r.seq
    <3>1. PICK q \in Shown(e, chs) : s.seq <= q.seq
      BY <1>2, <2>3
    <3>2. q.seq <= r.seq
      BY <2>1
    <3>3. s.seq \in Nat /\ q.seq \in Nat /\ r.seq \in Nat
      <4>1. {s, q, r} \subseteq rows
        BY <1>1, <2>2 DEF ReleasedTo
      <4> QED BY <4>1 DEF TypeOK, RevisionRow, Sequence
    <3> QED BY <3>1, <3>2, <3>3
  <2> QED BY <2>2, <2>3
<1>5. (\E r \in ReleasedTo(chs) : r.entry = e) => Shown(e, chs) # {}
  BY <1>2
<1> QED BY <1>1, <1>3, <1>4, <1>5

\* A search shows the newest release of each snap it lists, and lists every
\* snap released to one of the channels when each that matches is.
THEOREM SearchShowsNewest ==
  ASSUME IsFiniteSet(Entries) PROVE Spec => []FindShowsNewest
<1>1. ASSUME TypeOK, RowsHaveChannels PROVE FindShowsNewest
  <2> SUFFICES ASSUME NEW chs \in SUBSET Channels, NEW order \in Orders(Matching(chs))
               PROVE  LET results == FindSnaps(order, chs)
                          released == ReleasedTo(chs)
                      IN  /\ \A x \in results :
                                /\ \E r \in released : r.entry = x.entry /\ r.seq = x.revision
                                /\ \A r \in released : r.entry = x.entry => r.seq <= x.revision
                          /\ (\A e \in Matching(chs) : \E r \in released : r.entry = e) =>
                                {x.entry : x \in results} = {r.entry : r \in released}
    BY DEF FindShowsNewest, ReleasedTo
  <2> DEFINE M == Matching(chs)
             Listed == {i \in DOMAIN order : \A j \in 1..i : Shown(order[j], chs) # {}}
             Kept(i) == CHOOSE r \in ShownHighest(order[i], chs) : TRUE
             results == {[entry |-> order[i], revision |-> Kept(i).seq] : i \in Listed}
  <2>1. results = FindSnaps(order, chs)
    BY DEF FindSnaps
  <2>2. /\ M \subseteq Entries /\ Cardinality(M) \in Nat
        /\ order \in [1..Cardinality(M) -> M]
        /\ \A e \in M : \E i \in DOMAIN order : order[i] = e
    <3>1. M \subseteq Entries
      BY DEF Matching
    <3>2. IsFiniteSet(M)
      BY <3>1, FS_Subset
    <3> QED BY <3>1, <3>2, FS_CardinalityType DEF Orders
  <2> HIDE DEF M
  <2>3. ASSUME NEW i \in Listed
        PROVE  /\ Kept(i) \in ReleasedTo(chs) /\ Kept(i).entry = order[i]
               /\ \A s \in ReleasedTo(chs) : s.entry = order[i] => s.seq <= Kept(i).seq
    <3>1. i \in 1..Cardinality(M) /\ order[i] \in Entries
      BY <2>2
    <3>2. Shown(order[i], chs) # {}
      BY <2>2, <3>1
    <3>3. Kept(i) \in ShownHighest(order[i], chs)
      BY <1>1, <3>1, <3>2, ShownIsHighest
    <3> HIDE DEF Kept
    <3> QED BY <1>1, <3>1, <3>3, ShownIsHighest
  <2>4. ASSUME NEW x \in results
        PROVE  /\ \E r \in ReleasedTo(chs) : r.entry = x.entry /\ r.seq = x.revision
               /\ \A r \in ReleasedTo(chs) : r.entry = x.entry => r.seq <= x.revision
    <3>1. PICK i \in Listed : x = [entry |-> order[i], revision |-> Kept(i).seq]
      OBVIOUS
    <3> HIDE DEF Kept, Listed
    <3> QED BY <2>3, <3>1
  <2>5. ASSUME \A e \in M : \E r \in ReleasedTo(chs) : r.entry = e
        PROVE  {x.entry : x \in results} = {r.entry : r \in ReleasedTo(chs)}
    <3>1. Listed = DOMAIN order
      <4> SUFFICES ASSUME NEW i \in DOMAIN order, NEW j \in 1..i
                   PROVE  Shown(order[j], chs) # {}
        OBVIOUS
      <4>1. j \in 1..Cardinality(M) /\ order[j] \in M /\ order[j] \in Entries
        BY <2>2
      <4> QED BY <1>1, <2>5, <4>1, ShownIsHighest
    <3>2. {x.entry : x \in results} = {order[i] : i \in Listed}
      <4>1. ASSUME NEW x \in results PROVE \E i \in Listed : x.entry = order[i]
        OBVIOUS
      <4>2. ASSUME NEW i \in Listed PROVE \E x \in results : x.entry = order[i]
        <5>1. [entry |-> order[i], revision |-> Kept(i).seq] \in results
          OBVIOUS
        <5> HIDE DEF results
        <5> QED BY <5>1
      <4> HIDE DEF results
      <4> QED BY <4>1, <4>2
    <3>3. {order[i] : i \in DOMAIN order} = M
      BY <2>2
    <3>4. ASSUME NEW r \in ReleasedTo(chs) PROVE r.entry \in M
      <4>1. <<r.entry, r.target>> \in channels /\ r.target.channel \in chs /\ r.entry \in Entries
        BY <1>1 DEF ReleasedTo, RowsHaveChannels, TypeOK, RevisionRow
      <4> QED BY <4>1 DEF M, Matching
    <3> HIDE DEF Listed, results
    <3> QED BY <2>5, <3>1, <3>2, <3>3, <3>4
  <2> HIDE DEF results, M
  <2> QED BY <2>1, <2>4, <2>5 DEF M
<1> QED BY <1>1, ChannelsInvariance, PTL DEF IInv

\* A revision is only ever released to a track the snap has.
ReleasesAreOnTracks == \A r \in rows : r.target.track \in TracksOf[r.entry]

THEOREM PublishedOnOwnTracks == Spec => []ReleasesAreOnTracks
<1>1. RowsHaveChannels => ReleasesAreOnTracks
  BY DEF RowsHaveChannels, ReleasesAreOnTracks
<1> QED BY <1>1, ChannelsInvariance, PTL

-----------------------------------------------------------------------------
(* Pushes of a snap that do not overlap. *)

\* Each push asks for a well-formed track/channel.
TargetsAreGiven == {} \notin TargetSets

-----------------------------------------------------------------------------
(* The invariant of serialised pushes. *)

\* Until its file is copied, a push owns a number and a digest that no earlier
\* revision of the snap has.
NumberIsNew ==
    \A p \in Pushes :
        /\ pc[p] = "sequence" => \A r \in RowsOf(EntryOf(p)) : r.sha # ShaOf(p)
        /\ pc[p] \in {"release", "insert", "copy"} =>
              /\ SnapPath(EntryOf(p), seq[p]) \notin DOMAIN snaps
              /\ \A r \in RowsOf(EntryOf(p)) :
                    /\ r.seq <= seq[p]
                    /\ r.seq = seq[p] <=> r.sha = ShaOf(p)

\* A file in the bucket "snaps" has a row with its number.
FilesHaveRows ==
    \A k \in DOMAIN snaps : \E r \in rows : SnapPath(r.entry, r.seq) = k

\* What a push has copied stays there.
CopyStays ==
    \A p \in Pushes : pc[p] \in AfterCopy =>
        snaps[SnapPath(EntryOf(p), seq[p])] = ShaOf(p)

\* A push makes the patch from the file of its last revision to its own.
PatchIsRight ==
    \A p \in Pushes : \A r \in last[p] :
        /\ pc[p] = "target" => patch[p] = <<r.sha>>
        /\ pc[p] \in {"put", "record"} => patch[p] = <<r.sha, ShaOf(p)>>
        /\ pc[p] = "record" =>
              LET k == DeltaPath(EntryOf(p), r.seq, seq[p])
              IN  k \in DOMAIN deltas /\ deltas[k] = patch[p]

\* A delta row refers to two revision rows.
DeltasHaveRows == \A d \in deltaRows : d.source \in rows /\ d.target \in rows

SInv == /\ Serialised /\ NumberIsNew /\ FilesHaveRows /\ CopyStays
        /\ PatchIsRight /\ DeltasHaveRows
        /\ RevisionsAreSpecific /\ RowsMatchFiles /\ DeltasApply

-----------------------------------------------------------------------------
(* What a step cannot do to the files, and to other pushes. *)

\* Appending to a sequence of one element makes one of two.
LEMMA AppendToSingle ==
  ASSUME NEW S, NEW a \in S, NEW b \in S
  PROVE  Append(<<a>>, b) = <<a, b>>
<1> DEFINE s == Append(<<a>>, b)
           t == <<a, b>>
<1>1. <<a>> \in Seq(S) /\ Len(<<a>>) = 1
  OBVIOUS
<1>2. s \in Seq(S) /\ Len(s) = 2 /\ s[1] = a /\ s[2] = b
  BY <1>1, AppendProperties
<1>3. t \in Seq(S) /\ Len(t) = 2 /\ t[1] = a /\ t[2] = b
  OBVIOUS
<1> HIDE DEF s, t
<1>4. \A i \in 1..Len(s) : s[i] = t[i]
  BY <1>2, <1>3
<1>5. s = t
  BY <1>2, <1>3, <1>4, SeqEqual
<1> QED BY <1>5 DEF s, t

\* The file of a push that has inserted all its rows has one of its rows.
LEMMA RowOfFile ==
  ASSUME TargetsAreGiven, TypeOK, LoopInserts, NEW p \in Pushes, pc[p] \in AfterLoop
  PROVE  \E r \in rows : /\ r.entry = EntryOf(p) /\ r.seq = seq[p]
                         /\ r.sha = ShaOf(p)
<1>1. PICK t \in request[p].targets : TRUE
  <2>1. request[p].targets \in TargetSets
    BY DEF TypeOK, Request
  <2>2. request[p].targets # {}
    BY <2>1 DEF TargetsAreGiven
  <2> QED BY <2>2
<1>2. RowFor(p, t) \in rows
  BY DEF LoopInserts
<1> QED BY <1>2 DEF RowFor

\* No step changes a file in the bucket "snaps".
LEMMA FilesStay ==
  ASSUME TypeOK, NumberIsNew, [Next]_vars
  PROVE  \A k \in DOMAIN snaps : k \in DOMAIN snaps' /\ snaps'[k] = snaps[k]
<1>1. CASE UNCHANGED snaps
  BY <1>1
<1>2. ASSUME NEW p \in Pushes, CopyToSnaps(p)
      PROVE  \A k \in DOMAIN snaps : k \in DOMAIN snaps' /\ snaps'[k] = snaps[k]
  <2>1. CASE UNCHANGED snaps
    BY <2>1
  <2>2. CASE snaps' = Put(snaps, SnapPath(EntryOf(p), seq[p]), ShaOf(p))
    <3>1. SnapPath(EntryOf(p), seq[p]) \notin DOMAIN snaps
      BY <1>2 DEF CopyToSnaps, Goto, NumberIsNew
    <3> QED BY <2>2, <3>1 DEF Put
  <2> QED BY <1>2, <2>1, <2>2 DEF CopyToSnaps
<1>3. UNCHANGED snaps \/ \E p \in Pushes : CopyToSnaps(p)
  BY StepChanges DEF Next, Upload, Receive, stores, vars
<1> QED BY <1>1, <1>2, <1>3

\* While a push is active, no other changes the rows, files and deltas of its
\* snap.
LEMMA OthersKeepOff ==
  ASSUME TypeOK, NumberFollows, Serialised,
         NEW p \in Pushes, Step(p), NEW q \in Pushes, q # p, pc[q] \in Active
  PROVE  /\ RowsOf(EntryOf(q))' = RowsOf(EntryOf(q))
         /\ \A n : SnapPath(EntryOf(q), n) \in DOMAIN snaps' =>
                      SnapPath(EntryOf(q), n) \in DOMAIN snaps
         /\ \A m, n : DeltaPath(EntryOf(q), m, n) \in DOMAIN deltas =>
               /\ DeltaPath(EntryOf(q), m, n) \in DOMAIN deltas'
               /\ deltas'[DeltaPath(EntryOf(q), m, n)] =
                     deltas[DeltaPath(EntryOf(q), m, n)]
<1>1. pc[p] \in Active => EntryOf(p) # EntryOf(q)
  BY DEF Serialised
<1>2. request' = request
  BY StepFrame
<1>3. RowsOf(EntryOf(q))' = RowsOf(EntryOf(q))
  <2>1. CASE UNCHANGED rows
    BY <1>2, <2>1 DEF RowsOf, EntryOf
  <2>2. CASE InsertRevision(p)
    <3>1. EntryOf(p) # EntryOf(q)
      BY <1>1, <2>2 DEF InsertRevision, Goto, Active, Running
    <3> QED BY <1>2, <2>2, <3>1 DEF InsertRevision, RowsOf, EntryOf, RowFor
  <2> QED BY <2>1, <2>2, StepChanges
<1>4. \A n : SnapPath(EntryOf(q), n) \in DOMAIN snaps' =>
                SnapPath(EntryOf(q), n) \in DOMAIN snaps
  <2>1. CASE UNCHANGED snaps
    BY <2>1
  <2>2. CASE snaps' = Put(snaps, SnapPath(EntryOf(p), seq[p]), ShaOf(p))
             /\ CopyToSnaps(p)
    <3>1. EntryOf(p) # EntryOf(q)
      BY <1>1, <2>2 DEF CopyToSnaps, Goto, Active, Running
    <3> QED BY <2>2, <3>1 DEF SnapPath, Put
  <2> QED BY <2>1, <2>2, StepChanges DEF CopyToSnaps
<1>5. \A m, n : DeltaPath(EntryOf(q), m, n) \in DOMAIN deltas =>
         /\ DeltaPath(EntryOf(q), m, n) \in DOMAIN deltas'
         /\ deltas'[DeltaPath(EntryOf(q), m, n)] = deltas[DeltaPath(EntryOf(q), m, n)]
  <2>1. CASE UNCHANGED deltas
    BY <2>1
  <2>2. CASE PutDelta(p)
    <3>1. EntryOf(p) # EntryOf(q)
      BY <1>1, <2>2 DEF PutDelta, Goto, Active, Running
    <3>2. PICK r \in last[p] :
            deltas' = Put(deltas, DeltaPath(EntryOf(p), r.seq, seq[p]), patch[p])
      BY <2>2 DEF PutDelta
    <3> QED BY <3>1, <3>2 DEF DeltaPath, Put
  <2> QED BY <2>1, <2>2, StepChanges
<1> QED BY <1>3, <1>4, <1>5

-----------------------------------------------------------------------------
(* Each part of the invariant is preserved. *)

LEMMA NumberIsNewStep ==
  ASSUME TargetsAreGiven, IInv, IInv', SInv, [Next]_vars
  PROVE  NumberIsNew'
<1> DEFINE Part(q) ==
      /\ pc[q] = "sequence" => \A r \in RowsOf(EntryOf(q)) : r.sha # ShaOf(q)
      /\ pc[q] \in {"release", "insert", "copy"} =>
            /\ SnapPath(EntryOf(q), seq[q]) \notin DOMAIN snaps
            /\ \A r \in RowsOf(EntryOf(q)) :
                  /\ r.seq <= seq[q]
                  /\ r.seq = seq[q] <=> r.sha = ShaOf(q)
<1>0. \A q \in Pushes : Part(q)
  BY DEF SInv, NumberIsNew
<1> SUFFICES ASSUME NEW q \in Pushes PROVE Part(q)'
  BY DEF NumberIsNew
<1> USE DEF IInv
<1>1. ASSUME NEW f \in Files, Upload(f) PROVE Part(q)'
  BY <1>0, <1>1 DEF Upload, locals, RowsOf, EntryOf, ShaOf, FileOf, SnapPath
<1>2. ASSUME NEW p \in Pushes, NEW req \in Request, Receive(p, req) PROVE Part(q)'
  <2>1. CASE q = p
    BY <1>2, <2>1 DEF Receive, Goto, TypeOK
  <2>2. CASE q # p
    BY <1>0, <1>2, <2>2
    DEF Receive, Goto, stores, locals, TypeOK, RowsOf, EntryOf, ShaOf, FileOf, SnapPath
  <2> QED BY <2>1, <2>2
<1>3. ASSUME NEW p \in Pushes, Step(p) PROVE Part(q)'
  <2>1. EntryOf(q)' = EntryOf(q) /\ ShaOf(q)' = ShaOf(q)
    BY <1>3, StepFrame DEF EntryOf, ShaOf, FileOf
  <2>2. CASE q # p
    <3>1. pc'[q] = pc[q] /\ seq'[q] = seq[q]
      BY <1>3, <2>2, StepFrame
    <3>2. CASE pc[q] \in Active
      <4>1. /\ RowsOf(EntryOf(q))' = RowsOf(EntryOf(q))
            /\ SnapPath(EntryOf(q), seq[q]) \in DOMAIN snaps' =>
                  SnapPath(EntryOf(q), seq[q]) \in DOMAIN snaps
        BY <1>3, <2>2, <3>2, OthersKeepOff DEF SInv
      <4>2. SnapPath(EntryOf(q), seq[q])' = SnapPath(EntryOf(q), seq[q])
        BY <2>1, <3>1 DEF SnapPath
      <4> QED BY <1>0, <2>1, <3>1, <4>1, <4>2
    <3>3. CASE pc[q] \notin Active
      BY <3>1, <3>3 DEF Active, Running
    <3> QED BY <3>2, <3>3
  <2>3. CASE q = p /\ CheckSha(p)
    BY <2>3 DEF CheckSha, Goto, TypeOK, stores, RowsOf, EntryOf, ShaOf, FileOf
  <2>4. CASE q = p /\ ReadLatest(p)
    <3>1. PICK latest \in Latest(EntryOf(p)) :
            seq' = [seq EXCEPT ![p] = NextSequence(latest)]
      BY <2>4 DEF ReadLatest
    <3>2. pc[p] = "sequence" /\ seq'[p] = NextSequence(latest) /\ UNCHANGED stores
      BY <2>4, <3>1 DEF ReadLatest, Goto, TypeOK
    <3>3. EntryOf(p) \in Entries
      BY DEF TypeOK, EntryOf, Request
    <3>4. \A r \in RowsOf(EntryOf(p)) : r.seq \in Nat
      BY DEF TypeOK, RowsOf, RevisionRow, Sequence
    <3>5. \A r \in RowsOf(EntryOf(p)) : r.seq < seq'[p]
      <4>1. CASE RowsOf(EntryOf(p)) = {}
        BY <4>1
      <4>2. ASSUME NEW s \in RowsOf(EntryOf(p)), NextSequence(latest) = s.seq + 1,
                   \A r \in RowsOf(EntryOf(p)) : r.seq <= s.seq
            PROVE  \A r \in RowsOf(EntryOf(p)) : r.seq < seq'[p]
        BY <3>2, <3>4, <4>2
      <4> QED BY <3>3, <4>1, <4>2, LatestIsHighest
    <3>6. SnapPath(EntryOf(p), seq'[p]) \notin DOMAIN snaps
      <4> SUFFICES ASSUME SnapPath(EntryOf(p), seq'[p]) \in DOMAIN snaps PROVE FALSE
        OBVIOUS
      <4>1. PICK r \in rows : SnapPath(r.entry, r.seq) = SnapPath(EntryOf(p), seq'[p])
        BY DEF SInv, FilesHaveRows
      <4>2. r \in RowsOf(EntryOf(p)) /\ r.seq = seq'[p]
        BY <4>1 DEF SnapPath, RowsOf
      <4> QED BY <3>4, <3>5, <4>2
    <3>7. \A r \in RowsOf(EntryOf(p)) : r.sha # ShaOf(p)
      BY <3>2 DEF SInv, NumberIsNew
    <3>8. RowsOf(EntryOf(q))' = RowsOf(EntryOf(p)) /\ snaps' = snaps
      BY <2>1, <2>4, <3>2 DEF stores, RowsOf
    <3>9. SnapPath(EntryOf(q), seq[q])' = SnapPath(EntryOf(p), seq'[p])
      BY <2>1, <2>4 DEF SnapPath
    <3>10. seq'[p] \in Nat
      BY DEF TypeOK, Sequence
    <3>11. pc'[p] # "sequence"
      BY <2>4 DEF ReadLatest, Goto, TypeOK
    <3> QED BY <2>1, <2>4, <3>4, <3>5, <3>6, <3>7, <3>8, <3>9, <3>10, <3>11
  <2>5. CASE q = p /\ InsertRevision(p)
    <3>1. /\ RowsOf(EntryOf(p))' \subseteq
               RowsOf(EntryOf(p)) \cup {RowFor(p, t) : t \in at[p]}
          /\ UNCHANGED <<snaps, seq>> /\ pc[p] = "insert"
      BY <2>1, <2>5 DEF InsertRevision, Goto, RowsOf
    <3>2. \A t \in at[p] : RowFor(p, t).seq = seq[p] /\ RowFor(p, t).sha = ShaOf(p)
      BY DEF RowFor
    <3>3. pc'[p] # "sequence" /\ seq[p] \in Nat
      BY <2>5 DEF InsertRevision, Goto, TypeOK, Sequence
    <3>4. SnapPath(EntryOf(q), seq[q])' = SnapPath(EntryOf(p), seq[p])
      BY <2>1, <2>5, <3>1 DEF SnapPath
    <3> QED BY <1>0, <2>1, <2>5, <3>1, <3>2, <3>3, <3>4
  <2>6. CASE q = p /\ EnsureChannel(p)
    BY <1>0, <2>1, <2>6 DEF EnsureChannel, Goto, TypeOK, RowsOf, SnapPath
  <2>7. CASE q = p /\ ~(\/ CheckSha(p) \/ ReadLatest(p) \/ InsertRevision(p)
                        \/ EnsureChannel(p))
    <3>1. pc'[p] \notin {"sequence", "release", "insert", "copy"}
      BY <1>3, <2>7
      DEF Step, Goto, TypeOK, Discard, MissingTrack, CopyToSnaps, RemoveUnscanned,
          ReadSource, ReadTarget, PutDelta, RecordDelta, SkipDelta, Abort
    <3> QED BY <2>7, <3>1
  <2> QED BY <2>2, <2>3, <2>4, <2>5, <2>6, <2>7
<1>4. CASE UNCHANGED vars
  BY <1>0, <1>4 DEF vars, stores, locals, RowsOf, EntryOf, ShaOf, FileOf, SnapPath
<1> QED BY <1>1, <1>2, <1>3, <1>4 DEF Next

LEMMA FilesHaveRowsStep ==
  ASSUME TargetsAreGiven, IInv, SInv, [Next]_vars
  PROVE  FilesHaveRows'
<1> USE DEF IInv
<1>1. rows \subseteq rows'
  BY StepFrame DEF Next, Upload, Receive, stores, vars
<1>2. CASE DOMAIN snaps' \subseteq DOMAIN snaps
  BY <1>1, <1>2 DEF SInv, FilesHaveRows, SnapPath
<1>3. ASSUME NEW p \in Pushes, CopyToSnaps(p),
             snaps' = Put(snaps, SnapPath(EntryOf(p), seq[p]), ShaOf(p))
      PROVE  FilesHaveRows'
  <2>1. PICK r \in rows : r.entry = EntryOf(p) /\ r.seq = seq[p]
    BY <1>3, RowOfFile DEF CopyToSnaps, Goto, AfterLoop
  <2>2. DOMAIN snaps' = DOMAIN snaps \cup {SnapPath(r.entry, r.seq)}
    BY <1>3, <2>1 DEF Put
  <2> QED BY <1>1, <2>1, <2>2 DEF SInv, FilesHaveRows, SnapPath
<1>4. \/ UNCHANGED snaps
      \/ \E p \in Pushes :
            /\ CopyToSnaps(p)
            /\ snaps' = Put(snaps, SnapPath(EntryOf(p), seq[p]), ShaOf(p))
  BY StepChanges DEF Next, Upload, Receive, stores, vars, CopyToSnaps
<1> QED BY <1>2, <1>3, <1>4

LEMMA CopyStaysStep ==
  ASSUME IInv, SInv, [Next]_vars
  PROVE  CopyStays'
<1> USE DEF IInv
<1>0. \A k \in DOMAIN snaps : k \in DOMAIN snaps' /\ snaps'[k] = snaps[k]
  BY FilesStay DEF SInv
<1> SUFFICES ASSUME NEW q \in Pushes, pc'[q] \in AfterCopy
             PROVE  snaps'[SnapPath(EntryOf(q), seq[q])'] = ShaOf(q)'
  BY DEF CopyStays
<1>1. CASE /\ pc[q] \in AfterCopy
           /\ EntryOf(q)' = EntryOf(q) /\ ShaOf(q)' = ShaOf(q) /\ seq'[q] = seq[q]
  <2>1. SnapPath(EntryOf(q), seq[q])' = SnapPath(EntryOf(q), seq[q])
    BY <1>1 DEF SnapPath
  <2>2. SnapPath(EntryOf(q), seq[q]) \in DOMAIN snaps
    BY <1>1 DEF LoopInserts
  <2> QED BY <1>0, <1>1, <2>1, <2>2 DEF SInv, CopyStays
<1>2. CASE CopyToSnaps(q)
  <2>1. pc'[q] \in {"remove", "failed"}
    BY <1>2 DEF CopyToSnaps, Goto, TypeOK
  <2>2. snaps' = Put(snaps, SnapPath(EntryOf(q), seq[q]), ShaOf(q))
    BY <1>2, <2>1 DEF CopyToSnaps, Goto, TypeOK, AfterCopy, AfterLoop
  <2>3. UNCHANGED <<seq, request>>
    BY <1>2 DEF CopyToSnaps, locals
  <2> QED BY <2>2, <2>3 DEF Put, SnapPath, EntryOf, ShaOf, FileOf
<1>3. ASSUME NEW p \in Pushes, Step(p), ~CopyToSnaps(q)
      PROVE  /\ pc[q] \in AfterCopy
             /\ EntryOf(q)' = EntryOf(q) /\ ShaOf(q)' = ShaOf(q) /\ seq'[q] = seq[q]
  <2>1. EntryOf(q)' = EntryOf(q) /\ ShaOf(q)' = ShaOf(q)
    BY <1>3, StepFrame DEF EntryOf, ShaOf, FileOf
  <2>2. CASE q # p
    BY <1>3, <2>1, <2>2, StepFrame
  <2>3. CASE q = p
    <3>1. \/ RemoveUnscanned(p) \/ ReadSource(p) \/ ReadTarget(p)
          \/ PutDelta(p) \/ RecordDelta(p) \/ SkipDelta(p)
      BY <1>3, <2>3
      DEF Step, Goto, TypeOK, AfterCopy, AfterLoop, CheckSha, Discard, ReadLatest,
          EnsureChannel, MissingTrack, InsertRevision, Abort
    <3>2. pc[p] \in AfterCopy /\ UNCHANGED seq
      BY <3>1
      DEF Goto, AfterCopy, AfterLoop, RemoveUnscanned, ReadSource, ReadTarget,
          PutDelta, RecordDelta, SkipDelta, locals
    <3> QED BY <2>1, <2>3, <3>2
  <2> QED BY <2>2, <2>3
<1>4. ASSUME \/ \E f \in Files : Upload(f)
             \/ \E p \in Pushes, req \in Request : Receive(p, req)
             \/ UNCHANGED vars
      PROVE  /\ pc[q] \in AfterCopy
             /\ EntryOf(q)' = EntryOf(q) /\ ShaOf(q)' = ShaOf(q) /\ seq'[q] = seq[q]
  BY <1>4
  DEF Upload, Receive, Goto, vars, stores, locals, TypeOK, AfterCopy, AfterLoop,
      EntryOf, ShaOf, FileOf
<1> QED BY <1>1, <1>2, <1>3, <1>4 DEF Next

LEMMA RevisionsAreSpecificStep ==
  ASSUME IInv, SInv, [Next]_vars
  PROVE  RevisionsAreSpecific'
<1>1. CASE UNCHANGED rows
  BY <1>1 DEF SInv, RevisionsAreSpecific
<1>2. ASSUME NEW p \in Pushes, InsertRevision(p) PROVE RevisionsAreSpecific'
  <2>1. \A r \in rows' : r \in rows \/ (/\ r.entry = EntryOf(p) /\ r.seq = seq[p]
                                        /\ r.sha = ShaOf(p))
    BY <1>2 DEF InsertRevision, RowFor
  <2>2. \A r \in rows : r.entry = EntryOf(p) => (r.seq = seq[p] <=> r.sha = ShaOf(p))
    BY <1>2 DEF InsertRevision, Goto, SInv, NumberIsNew, RowsOf
  <2> QED BY <2>1, <2>2 DEF SInv, RevisionsAreSpecific
<1>3. UNCHANGED rows \/ \E p \in Pushes : InsertRevision(p)
  BY StepChanges DEF Next, Upload, Receive, stores, vars
<1> QED BY <1>1, <1>2, <1>3

LEMMA RowsMatchFilesStep ==
  ASSUME IInv, SInv, [Next]_vars
  PROVE  RowsMatchFiles'
<1> USE DEF IInv
<1>1. CASE UNCHANGED <<rows, snaps>>
  BY <1>1 DEF SInv, RowsMatchFiles, SnapPath
<1>2. ASSUME NEW p \in Pushes, InsertRevision(p) PROVE RowsMatchFiles'
  <2>1. \A r \in rows' : r \in rows \/ (r.entry = EntryOf(p) /\ r.seq = seq[p])
    BY <1>2 DEF InsertRevision, RowFor
  <2>2. SnapPath(EntryOf(p), seq[p]) \notin DOMAIN snaps
    BY <1>2 DEF InsertRevision, Goto, SInv, NumberIsNew
  <2>3. UNCHANGED snaps
    BY <1>2 DEF InsertRevision
  <2> QED BY <2>1, <2>2, <2>3 DEF SInv, RowsMatchFiles, SnapPath
<1>3. ASSUME NEW p \in Pushes, CopyToSnaps(p) PROVE RowsMatchFiles'
  <2>1. UNCHANGED rows
    BY <1>3 DEF CopyToSnaps
  <2>2. CASE UNCHANGED snaps
    BY <1>1, <2>1, <2>2
  <2>3. CASE snaps' = Put(snaps, SnapPath(EntryOf(p), seq[p]), ShaOf(p))
    <3> SUFFICES ASSUME NEW r \in rows, SnapPath(r.entry, r.seq) \in DOMAIN snaps'
                 PROVE  snaps'[SnapPath(r.entry, r.seq)] = r.sha
      BY <2>1 DEF RowsMatchFiles, SnapPath
    <3>1. CASE SnapPath(r.entry, r.seq) = SnapPath(EntryOf(p), seq[p])
      <4>1. r \in RowsOf(EntryOf(p)) /\ r.seq = seq[p]
        BY <3>1 DEF SnapPath, RowsOf
      <4>2. r.sha = ShaOf(p)
        BY <1>3, <4>1 DEF CopyToSnaps, Goto, SInv, NumberIsNew
      <4> QED BY <2>3, <3>1, <4>2 DEF Put
    <3>2. CASE SnapPath(r.entry, r.seq) # SnapPath(EntryOf(p), seq[p])
      BY <2>3, <3>2 DEF Put, SInv, RowsMatchFiles
    <3> QED BY <3>1, <3>2
  <2> QED BY <1>3, <2>2, <2>3 DEF CopyToSnaps
<1>4. \/ UNCHANGED <<rows, snaps>>
      \/ \E p \in Pushes : InsertRevision(p) \/ CopyToSnaps(p)
  BY StepChanges DEF Next, Upload, Receive, stores, vars
<1> QED BY <1>1, <1>2, <1>3, <1>4

LEMMA PatchIsRightStep ==
  ASSUME TargetsAreGiven, IInv, IInv', SInv, [Next]_vars
  PROVE  PatchIsRight'
<1> DEFINE Part(q) ==
      \A r \in last[q] :
         /\ pc[q] = "target" => patch[q] = <<r.sha>>
         /\ pc[q] \in {"put", "record"} => patch[q] = <<r.sha, ShaOf(q)>>
         /\ pc[q] = "record" =>
               /\ DeltaPath(EntryOf(q), r.seq, seq[q]) \in DOMAIN deltas
               /\ deltas[DeltaPath(EntryOf(q), r.seq, seq[q])] = patch[q]
<1>0. \A q \in Pushes : Part(q)
  BY DEF SInv, PatchIsRight
<1> SUFFICES ASSUME NEW q \in Pushes PROVE Part(q)'
  BY DEF PatchIsRight
<1> USE DEF IInv
<1>1. ASSUME NEW f \in Files, Upload(f) PROVE Part(q)'
  BY <1>0, <1>1 DEF Upload, locals, EntryOf, ShaOf, FileOf, DeltaPath
<1>2. ASSUME NEW p \in Pushes, NEW req \in Request, Receive(p, req) PROVE Part(q)'
  <2>1. CASE q = p
    BY <1>2, <2>1 DEF Receive, Goto, TypeOK
  <2>2. CASE q # p
    BY <1>0, <1>2, <2>2
    DEF Receive, Goto, stores, locals, TypeOK, EntryOf, ShaOf, FileOf, DeltaPath
  <2> QED BY <2>1, <2>2
<1>3. ASSUME NEW p \in Pushes, Step(p) PROVE Part(q)'
  <2>1. EntryOf(q)' = EntryOf(q) /\ ShaOf(q)' = ShaOf(q)
    BY <1>3, StepFrame DEF EntryOf, ShaOf, FileOf
  <2>2. CASE q # p
    <3>1. /\ pc'[q] = pc[q] /\ seq'[q] = seq[q] /\ last'[q] = last[q]
          /\ patch'[q] = patch[q]
      BY <1>3, <2>2, StepFrame
    <3>2. CASE pc[q] \in {"target", "put", "record"}
      <4>1. \A m, n : DeltaPath(EntryOf(q), m, n) \in DOMAIN deltas =>
               /\ DeltaPath(EntryOf(q), m, n) \in DOMAIN deltas'
               /\ deltas'[DeltaPath(EntryOf(q), m, n)] =
                     deltas[DeltaPath(EntryOf(q), m, n)]
        BY <1>3, <2>2, <3>2, OthersKeepOff DEF SInv, Active, Running
      <4> QED BY <1>0, <2>1, <3>1, <4>1 DEF DeltaPath
    <3>3. CASE pc[q] \notin {"target", "put", "record"}
      BY <3>1, <3>3
    <3> QED BY <3>2, <3>3
  <2>3. CASE q = p /\ ReadSource(p)
    <3>1. PICK r \in last[p] :
            patch' = [patch EXCEPT ![p] = <<snaps[SnapPath(r.entry, r.seq)]>>]
            /\ SnapPath(r.entry, r.seq) \in DOMAIN snaps
      BY <2>3 DEF ReadSource
    <3>2. snaps[SnapPath(r.entry, r.seq)] = r.sha
      BY <3>1 DEF SInv, RowsMatchFiles, NumberFollows, RowsOf
    <3>3. \A s \in last[p] : s.sha = r.sha
      BY <3>1 DEF SInv, RevisionsAreSpecific, NumberFollows, RowsOf, TypeOK,
                  RevisionRow, Sequence
    <3>4. pc'[p] = "target" /\ last' = last /\ patch'[p] = <<r.sha>>
      BY <2>3, <3>1, <3>2 DEF ReadSource, Goto, TypeOK
    <3> QED BY <2>3, <3>3, <3>4
  <2>4. CASE q = p /\ ReadTarget(p)
    <3>1. pc[p] = "target" /\ pc'[p] = "put" /\ last' = last
      BY <2>4 DEF ReadTarget, Goto, TypeOK
    <3>2. snaps[SnapPath(EntryOf(p), seq[p])] = ShaOf(p)
      BY <3>1 DEF SInv, CopyStays, AfterCopy, AfterLoop
    <3>3. patch'[p] = Append(patch[p], ShaOf(p))
      BY <2>4, <3>2 DEF ReadTarget, TypeOK
    <3>4. \A r \in last[p] : patch'[p] = <<r.sha, ShaOf(p)>>
      <4> SUFFICES ASSUME NEW r \in last[p] PROVE patch'[p] = <<r.sha, ShaOf(p)>>
        OBVIOUS
      <4>1. patch[p] = <<r.sha>>
        BY <1>0, <3>1
      <4>2. r.sha \in Contents /\ ShaOf(p) \in Contents
        BY ConstantsAssumption DEF TypeOK, RevisionRow, ShaOf, FileOf, Request
      <4>3. Append(<<r.sha>>, ShaOf(p)) = <<r.sha, ShaOf(p)>>
        BY <4>2, AppendToSingle
      <4> QED BY <3>3, <4>1, <4>3
    <3> QED BY <2>1, <2>4, <3>1, <3>4
  <2>5. CASE q = p /\ PutDelta(p)
    <3>1. PICK s \in last[p] :
            deltas' = Put(deltas, DeltaPath(EntryOf(p), s.seq, seq[p]), patch[p])
      BY <2>5 DEF PutDelta
    <3>2. \A r \in last[p] : r.seq = s.seq
      <4>1. \A r \in last[p] : r.seq \in Nat /\ seq[p] = r.seq + 1
        BY DEF NumberFollows, TypeOK, RevisionRow, Sequence
      <4> QED BY <4>1
    <3>3. /\ pc[p] = "put" /\ pc'[p] = "record" /\ last' = last /\ patch' = patch
          /\ seq' = seq
      BY <2>5 DEF PutDelta, Goto, TypeOK, locals
    <3>4. /\ DeltaPath(EntryOf(p), s.seq, seq[p]) \in DOMAIN deltas'
          /\ deltas'[DeltaPath(EntryOf(p), s.seq, seq[p])] = patch[p]
      BY <3>1 DEF Put
    <3> QED BY <1>0, <2>1, <2>5, <3>2, <3>3, <3>4 DEF DeltaPath
  <2>6. CASE q = p /\ ~(ReadSource(p) \/ ReadTarget(p) \/ PutDelta(p))
    <3>1. pc'[p] \notin {"target", "put", "record"}
      BY <1>3, <2>6
      DEF Step, Goto, TypeOK, CheckSha, Discard, ReadLatest, EnsureChannel,
          MissingTrack, InsertRevision, CopyToSnaps, RemoveUnscanned, RecordDelta,
          SkipDelta, Abort
    <3> QED BY <2>6, <3>1
  <2> QED BY <2>2, <2>3, <2>4, <2>5, <2>6
<1>4. CASE UNCHANGED vars
  BY <1>0, <1>4 DEF vars, stores, locals, EntryOf, ShaOf, FileOf, DeltaPath
<1> QED BY <1>1, <1>2, <1>3, <1>4 DEF Next

LEMMA DeltasHaveRowsStep ==
  ASSUME TargetsAreGiven, IInv, SInv, [Next]_vars
  PROVE  DeltasHaveRows'
<1> USE DEF IInv
<1>1. rows \subseteq rows'
  BY StepFrame DEF Next, Upload, Receive, stores, vars
<1>2. CASE UNCHANGED deltaRows
  BY <1>1, <1>2 DEF SInv, DeltasHaveRows
<1>3. ASSUME NEW p \in Pushes, RecordDelta(p) PROVE DeltasHaveRows'
  <2>1. \A t \in at[p] : RowFor(p, t) \in rows
    BY <1>3 DEF RecordDelta, Goto, LoopInserts, AfterLoop
  <2>2. last[p] \subseteq rows
    BY DEF NumberFollows, RowsOf
  <2> QED BY <1>1, <1>3, <2>1, <2>2 DEF RecordDelta, SInv, DeltasHaveRows
<1>4. UNCHANGED deltaRows \/ \E p \in Pushes : RecordDelta(p)
  BY StepChanges DEF Next, Upload, Receive, stores, vars
<1> QED BY <1>2, <1>3, <1>4

LEMMA DeltasApplyStep ==
  ASSUME TargetsAreGiven, IInv, SInv, [Next]_vars
  PROVE  DeltasApply'
<1> USE DEF IInv
<1> DEFINE PathOf(d) == DeltaPath(d.source.entry, d.source.seq, d.target.seq)
           Good(d) == /\ d.patch = <<d.source.sha, d.target.sha>>
                      /\ PathOf(d) \in DOMAIN deltas
                      /\ deltas[PathOf(d)] = d.patch
<1>0. \A d \in deltaRows : Good(d)
  BY DEF SInv, DeltasApply
<1>1. CASE UNCHANGED <<deltaRows, deltas>>
  BY <1>1 DEF SInv, DeltasApply, DeltaPath
<1>2. ASSUME NEW p \in Pushes, PutDelta(p) PROVE DeltasApply'
  <2>1. PICK r \in last[p] :
          deltas' = Put(deltas, DeltaPath(EntryOf(p), r.seq, seq[p]), patch[p])
    BY <1>2 DEF PutDelta
  <2>2. r \in rows /\ r.entry = EntryOf(p) /\ patch[p] = <<r.sha, ShaOf(p)>>
    BY <1>2, <2>1 DEF PutDelta, Goto, NumberFollows, RowsOf, SInv, PatchIsRight
  <2>3. PICK s \in rows : s.entry = EntryOf(p) /\ s.seq = seq[p] /\ s.sha = ShaOf(p)
    BY <1>2, RowOfFile DEF PutDelta, Goto, AfterLoop
  <2>4. deltaRows' = deltaRows
    BY <1>2 DEF PutDelta
  <2> SUFFICES ASSUME NEW d \in deltaRows
               PROVE  /\ PathOf(d) \in DOMAIN deltas'
                      /\ deltas'[PathOf(d)] = d.patch
    BY <1>0, <2>4 DEF DeltasApply, DeltaPath
  <2>5. CASE PathOf(d) # DeltaPath(EntryOf(p), r.seq, seq[p])
    BY <1>0, <2>1, <2>5 DEF Put
  <2>6. CASE PathOf(d) = DeltaPath(EntryOf(p), r.seq, seq[p])
    <3>1. /\ d.source.entry = r.entry /\ d.source.seq = r.seq
          /\ d.target.seq = s.seq
      BY <2>2, <2>3, <2>6 DEF DeltaPath
    <3>2. d.source \in rows /\ d.target \in rows /\ d.target.entry = d.source.entry
      BY DEF SInv, DeltasHaveRows, DeltasAreSingleSteps
    <3>3. d.source.sha = r.sha /\ d.target.sha = s.sha
      BY <2>2, <2>3, <3>1, <3>2 DEF SInv, RevisionsAreSpecific
    <3>4. d.patch = patch[p]
      BY <1>0, <2>2, <2>3, <3>3
    <3> QED BY <2>1, <2>6, <3>4 DEF Put
  <2> QED BY <2>5, <2>6
<1>3. ASSUME NEW p \in Pushes, RecordDelta(p) PROVE DeltasApply'
  <2>1. pc[p] = "record" /\ UNCHANGED deltas
    BY <1>3 DEF RecordDelta, Goto
  <2> SUFFICES ASSUME NEW d \in deltaRows' PROVE Good(d)
    BY <2>1 DEF DeltasApply, DeltaPath
  <2>2. CASE d \in deltaRows
    BY <1>0, <2>2
  <2>3. CASE d \notin deltaRows
    <3>1. PICK r \in last[p], t \in at[p] :
            d = [source |-> r, target |-> RowFor(p, t), patch |-> patch[p]]
      BY <1>3, <2>3 DEF RecordDelta
    <3>2. /\ d.source = r /\ d.patch = patch[p]
          /\ d.target.seq = seq[p] /\ d.target.sha = ShaOf(p)
      BY <3>1 DEF RowFor
    <3>3. r.entry = EntryOf(p)
      BY DEF NumberFollows, RowsOf
    <3>4. /\ patch[p] = <<r.sha, ShaOf(p)>>
          /\ DeltaPath(EntryOf(p), r.seq, seq[p]) \in DOMAIN deltas
          /\ deltas[DeltaPath(EntryOf(p), r.seq, seq[p])] = patch[p]
      BY <2>1 DEF SInv, PatchIsRight
    <3> QED BY <3>2, <3>3, <3>4
  <2> QED BY <2>2, <2>3
<1>4. \/ UNCHANGED <<deltaRows, deltas>>
      \/ \E p \in Pushes : PutDelta(p) \/ RecordDelta(p)
  BY StepChanges DEF Next, Upload, Receive, stores, vars
<1> QED BY <1>1, <1>2, <1>3, <1>4

-----------------------------------------------------------------------------
(* The invariant, and the properties that follow from it. *)

LEMMA SerialInit == Init => SInv
BY DEF Init, SInv, Serialised, Active, Running, NumberIsNew, FilesHaveRows,
       CopyStays, AfterCopy, AfterLoop, PatchIsRight, DeltasHaveRows,
       RevisionsAreSpecific, RowsMatchFiles, DeltasApply

LEMMA SerialStep ==
  ASSUME TargetsAreGiven, IInv, SInv, [Next /\ Serialised']_vars
  PROVE  IInv' /\ SInv'
<1>1. [Next]_vars
  OBVIOUS
<1>2. IInv'
  BY <1>1, IInvStep
<1>3. Serialised'
  BY DEF SInv, Serialised, vars, EntryOf
<1> QED
  BY <1>1, <1>2, <1>3, NumberIsNewStep, FilesHaveRowsStep, CopyStaysStep,
     PatchIsRightStep, DeltasHaveRowsStep, RevisionsAreSpecificStep,
     RowsMatchFilesStep, DeltasApplyStep
  DEF SInv

LEMMA SerialInvariance ==
  ASSUME TargetsAreGiven
  PROVE  SerialSpec => [](IInv /\ SInv)
<1>1. Init => IInv /\ SInv
  BY IInvInitially, SerialInit
<1>2. IInv /\ SInv /\ [Next /\ Serialised']_vars => (IInv /\ SInv)'
  BY SerialStep
<1> QED BY <1>1, <1>2, PTL DEF SerialSpec

\* A sequence number of a snap stands for one content and a content for one
\* number.
THEOREM RevisionsStaySpecific ==
  ASSUME TargetsAreGiven PROVE SerialSpec => []RevisionsAreSpecific
BY SerialInvariance, PTL DEF SInv

\* The file of a revision has the digest of its row.
THEOREM FilesMatchRows ==
  ASSUME TargetsAreGiven PROVE SerialSpec => []RowsMatchFiles
BY SerialInvariance, PTL DEF SInv

\* What a push reported as published is served, from then on.
THEOREM SuccessStaysServed ==
  ASSUME TargetsAreGiven PROVE SerialSpec => []SuccessIsServed
<1>1. IInv /\ SInv => SuccessIsServed
  BY DEF IInv, SInv, LoopInserts, CopyStays, SuccessIsServed, AfterCopy, AfterLoop
<1> QED BY <1>1, SerialInvariance, PTL

\* A recorded delta is stored and leads from its source to its target.
THEOREM RecordedDeltasApply ==
  ASSUME TargetsAreGiven PROVE SerialSpec => []DeltasApply
BY SerialInvariance, PTL DEF SInv

-----------------------------------------------------------------------------
(* The refinement of Archive. *)

\* The served files are the files of the bucket: each has a row.
LEMMA AllAreServed ==
  ASSUME FilesHaveRows
  PROVE  DOMAIN Served = DOMAIN snaps /\ \A k \in DOMAIN snaps : Served[k] = snaps[k]
BY DEF FilesHaveRows, Served

\* A step copies a file to a number above all those served of its snap, or
\* leaves the served files alone.
LEMMA ArchiveStep ==
  ASSUME TargetsAreGiven, IInv, SInv, IInv', SInv', [Next]_vars
  PROVE  [A!Next]_Served
<1> USE DEF IInv
<1>1. /\ DOMAIN Served = DOMAIN snaps
      /\ \A k \in DOMAIN snaps : Served[k] = snaps[k]
  BY AllAreServed DEF SInv
<1>2. /\ DOMAIN Served' = DOMAIN snaps'
      /\ \A k \in DOMAIN snaps' : Served'[k] = snaps'[k]
  BY DEF SInv, FilesHaveRows, Served
<1>3. Served = [k \in DOMAIN snaps |-> snaps[k]]
  BY <1>1 DEF Served
<1>4. Served' = [k \in DOMAIN snaps' |-> snaps'[k]]
  BY <1>2 DEF Served
<1>5. CASE UNCHANGED snaps
  BY <1>3, <1>4, <1>5
<1>6. ASSUME NEW p \in Pushes, CopyToSnaps(p),
             snaps' = Put(snaps, SnapPath(EntryOf(p), seq[p]), ShaOf(p))
      PROVE  A!Next
  <2> DEFINE e == EntryOf(p)
             n == seq[p]
             c == ShaOf(p)
  <2>1. e \in Entries /\ n \in 1..MaxSequence /\ c \in Contents
    BY ConstantsAssumption
    DEF TypeOK, EntryOf, ShaOf, FileOf, Request, Sequence
  <2>2. \A k \in DOMAIN Served : k[1] = e => k[2] < n
    <3> SUFFICES ASSUME NEW k \in DOMAIN snaps, k[1] = e PROVE k[2] < n
      BY <1>1
    <3>1. PICK r \in rows : k = <<r.entry, r.seq>>
      BY DEF SInv, FilesHaveRows, SnapPath
    <3>2. r.seq <= n /\ k # <<e, n>>
      BY <1>6, <3>1 DEF CopyToSnaps, Goto, SInv, NumberIsNew, RowsOf, SnapPath
    <3>3. r.seq \in Nat /\ n \in Nat
      BY <2>1 DEF TypeOK, RevisionRow, Sequence
    <3> QED BY <3>1, <3>2, <3>3
  <2>3. Served' = [k \in DOMAIN Served \cup {<<e, n>>} |->
                      IF k = <<e, n>> THEN c ELSE Served[k]]
    BY <1>1, <1>4, <1>6 DEF Put, SnapPath
  <2> HIDE DEF e, n, c
  <2>4. A!Publish(e, n, c)
    BY <2>2, <2>3 DEF A!Publish
  <2> QED BY <2>1, <2>4 DEF A!Next
<1>7. \/ UNCHANGED snaps
      \/ \E p \in Pushes :
            /\ CopyToSnaps(p)
            /\ snaps' = Put(snaps, SnapPath(EntryOf(p), seq[p]), ShaOf(p))
  BY StepChanges DEF Next, Upload, Receive, stores, vars, CopyToSnaps
<1> QED BY <1>5, <1>6, <1>7

\* The store is an archive that is never overwritten and grows upwards.
THEOREM StoreIsAnArchive ==
  ASSUME TargetsAreGiven PROVE SerialSpec => PublishesAnArchive
<1>1. Init => A!Init
  BY DEF Init, A!Init, Served
<1>2. /\ IInv /\ SInv /\ (IInv /\ SInv)' /\ [Next /\ Serialised']_vars
      => [A!Next]_Served
  BY ArchiveStep
<1> QED
  BY <1>1, <1>2, SerialInvariance, PTL DEF SerialSpec, PublishesAnArchive, A!Spec
=============================================================================
