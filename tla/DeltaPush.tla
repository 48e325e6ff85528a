----------------------------- MODULE DeltaPush -----------------------------
(***************************************************************************)
(* A publisher may push a delta in place of a whole snap: ApplyUploadDelta *)
(* finds the revision it starts from, applies it to the file of that       *)
(* revision, saves the result as one more unscanned file and processes it  *)
(* like any upload (module Publishing).  The look-up of the base, the      *)
(* reading of its file and the deletions are separate calls, between which *)
(* other pushes run.                                                       *)
(***************************************************************************)
EXTENDS Catalogue

CONSTANTS
    DeltaFiles,     \* names of uploaded deltas (random, never reused)
    PatchOf         \* PatchOf[x]: the contents the delta x leads from and to

ASSUME DeltaAssumption ==
    PatchOf \in [DeltaFiles -> Contents \X Contents] /\ DeltaFiles # {}

VARIABLES
    sentDeltas,     \* deltas that were ever put in the bucket "unscanned"
    rawDeltas,      \* deltas now in the bucket "unscanned"
    job,            \* where the ApplyUploadDelta of each push is
    order,          \* its arguments
    base,           \* baseRevision: {} before it is found
    bytes,          \* what was read of the file of the base: {} before
    result          \* the unscanned file made from it: {} before

deltaStores == <<sentDeltas, rawDeltas>>
deltaLocals == <<job, order, base, bytes, result>>
deltaVars == <<vars, deltaStores, deltaLocals>>

-----------------------------------------------------------------------------
\* number 0 asks for the latest revision; intact says whether the digest that
\* the publisher claims is that of the uploaded delta.
DeltaOrder == [entry : Entries, number : 0..MaxSequence, delta : DeltaFiles,
               intact : BOOLEAN, targets : TargetSets]

\* The revisions the query for the base may return.
BaseRows(o) ==
    IF o.number = 0 THEN UNION Latest(o.entry)
    ELSE RowsNumbered(o.entry, o.number)

\* xdelta3 -d notices a source other than the one the delta was made from.
Applies(x, source) == PatchOf[x][1] = source

Enter(p, from, to) == job[p] = from /\ job' = [job EXCEPT ![p] = to]

DeltaInit ==
    /\ Init
    /\ sentDeltas = {} /\ rawDeltas = {}
    /\ job = [p \in Pushes |-> "none"]
    /\ order = [p \in Pushes |-> CHOOSE o \in DeltaOrder : TRUE]
    /\ base = [p \in Pushes |-> {}]
    /\ bytes = [p \in Pushes |-> {}]
    /\ result = [p \in Pushes |-> {}]

\* UnscannedDeltaUpload: a delta reaches the bucket "unscanned".
UploadDelta(x) ==
    /\ x \notin sentDeltas
    /\ sentDeltas' = sentDeltas \cup {x}
    /\ rawDeltas' = rawDeltas \cup {x}
    /\ UNCHANGED <<vars, deltaLocals>>

\* The gateway knows the publisher and the snap, and calls ApplyUploadDelta.
DeltaRequested(p, o) ==
    /\ pc[p] = "idle"
    /\ Enter(p, "none", "find")
    /\ order' = [order EXCEPT ![p] = o]
    /\ UNCHANGED <<vars, deltaStores, base, bytes, result>>

\* The row of the base revision; the request fails when there is none.
FindBase(p) ==
    /\ \/ /\ Enter(p, "find", "fetch")
          /\ \E r \in BaseRows(order[p]) : base' = [base EXCEPT ![p] = {r}]
       \/ /\ Enter(p, "find", "refused")
          /\ BaseRows(order[p]) = {}
          /\ UNCHANGED base
    /\ UNCHANGED <<vars, deltaStores, order, bytes, result>>

\* The delta is read and its digest compared with the claimed one; the request
\* fails when the delta is no longer there.
FetchDelta(p) ==
    /\ Enter(p, "fetch", IF order[p].delta \notin rawDeltas THEN "refused"
                         ELSE IF order[p].intact THEN "read" ELSE "reject")
    /\ UNCHANGED <<vars, deltaStores, order, base, bytes, result>>

\* A delta that is damaged or does not apply is removed, and the request
\* fails; a removal that fails is only logged.
RejectDelta(p) ==
    /\ Enter(p, "reject", "refused")
    /\ \/ rawDeltas' = rawDeltas \ {order[p].delta}
       \/ UNCHANGED rawDeltas
    /\ UNCHANGED <<vars, sentDeltas, order, base, bytes, result>>

\* The file of the base is read by its path; its digest is not compared with
\* that of the row.
ReadBase(p) ==
    /\ \E r \in base[p] :
          \/ /\ SnapPath(r.entry, r.seq) \in DOMAIN snaps
             /\ Enter(p, "read", "apply")
             /\ bytes' = [bytes EXCEPT ![p] = {snaps[SnapPath(r.entry, r.seq)]}]
          \/ /\ SnapPath(r.entry, r.seq) \notin DOMAIN snaps
             /\ Enter(p, "read", "refused")
             /\ UNCHANGED bytes
    /\ UNCHANGED <<vars, deltaStores, order, base, result>>

\* Faulty variant: the exit status of xdelta3 is not looked at.
ApplyDeltaUnchecked(p) ==
    /\ Enter(p, "apply", "save")
    /\ UNCHANGED <<vars, deltaStores, order, base, bytes, result>>

\* ApplyDelta; it may also fail for want of time or space.
ApplyDelta(p) ==
    /\ \/ /\ \A c \in bytes[p] : Applies(order[p].delta, c)
          /\ Enter(p, "apply", "save")
       \/ Enter(p, "apply", "reject")
    /\ UNCHANGED <<vars, deltaStores, order, base, bytes, result>>

\* Faulty variant: the delta is removed before the result is saved.
SaveResultLast(p) ==
    \/ /\ order[p].delta \in rawDeltas
       /\ rawDeltas' = rawDeltas \ {order[p].delta}
       /\ UNCHANGED <<vars, sentDeltas, deltaLocals>>
    \/ /\ order[p].delta \notin rawDeltas
       /\ Enter(p, "save", "clean")
       /\ \E f \in Files :
             /\ Digest[f] = PatchOf[order[p].delta][2]
             /\ Upload(f)
             /\ result' = [result EXCEPT ![p] = {f}]
       /\ UNCHANGED <<deltaStores, order, base, bytes>>

\* SaveFileToBucket: the result is put in "unscanned" under a new name.
SaveResult(p) ==
    /\ Enter(p, "save", "clean")
    /\ \E f \in Files :
          /\ Digest[f] = PatchOf[order[p].delta][2]
          /\ Upload(f)
          /\ result' = [result EXCEPT ![p] = {f}]
    /\ UNCHANGED <<deltaStores, order, base, bytes>>

\* The delta is removed; a removal that fails is only logged.
CleanDelta(p) ==
    /\ Enter(p, "clean", "process")
    /\ \/ rawDeltas' = rawDeltas \ {order[p].delta}
       \/ UNCHANGED rawDeltas
    /\ UNCHANGED <<vars, sentDeltas, order, base, bytes, result>>

\* processUnscannedSnap is called with the file that was saved.
ProcessResult(p) ==
    /\ Enter(p, "process", "processed")
    /\ \E f \in result[p] :
          Receive(p, [entry |-> order[p].entry, file |-> f,
                      targets |-> order[p].targets])
    /\ UNCHANGED <<deltaStores, order, base, bytes, result>>

Applying == {"find", "fetch", "reject", "read", "apply", "save", "clean", "process"}

\* A call returns an error, or the service stops.
AbandonDelta(p) ==
    /\ \E stage \in Applying : Enter(p, stage, "refused")
    /\ UNCHANGED <<vars, deltaStores, order, base, bytes, result>>

\* A push of a whole file, or the rest of a push of a delta.
PublishStep(p) ==
    /\ \/ Step(p)
       \/ job[p] = "none" /\ \E req \in Request : Receive(p, req)
    /\ UNCHANGED <<deltaStores, deltaLocals>>

DeltaStep(p) ==
    \/ FindBase(p) \/ FetchDelta(p) \/ RejectDelta(p) \/ ReadBase(p)
    \/ ApplyDelta(p) \/ SaveResult(p) \/ CleanDelta(p) \/ ProcessResult(p)
    \/ AbandonDelta(p)

DeltaNext ==
    \/ \E f \in Files : Upload(f) /\ UNCHANGED <<deltaStores, deltaLocals>>
    \/ \E x \in DeltaFiles : UploadDelta(x)
    \/ \E p \in Pushes :
          \/ PublishStep(p) \/ DeltaStep(p)
          \/ \E o \in DeltaOrder : DeltaRequested(p, o)

DeltaSpec == DeltaInit /\ [][DeltaNext]_deltaVars

\* The publisher waits for the end of a push before the next: only the
\* processing of two files of one snap does not overlap.
DeltaSerialSpec == DeltaInit /\ [][DeltaNext /\ Serialised']_deltaVars

-----------------------------------------------------------------------------
\* The type of the variables of delta pushes.
DeltaTypeOK ==
    /\ sentDeltas \subseteq DeltaFiles /\ rawDeltas \subseteq sentDeltas
    /\ job \in [Pushes -> Applying \cup {"none", "refused", "processed"}]
    /\ order \in [Pushes -> DeltaOrder]
    /\ base \in [Pushes -> SUBSET RevisionRow]
    /\ bytes \in [Pushes -> SUBSET Contents]
    /\ result \in [Pushes -> SUBSET Files]

\* The file a delta was turned into is what the delta makes of the very
\* content that the row of its base revision has the digest of, although the
\* row, the file and the delta are read by different calls.
ResultBuiltOnBase ==
    \A p \in Pushes : \A f \in result[p] :
        /\ Digest[f] = PatchOf[order[p].delta][2]
        /\ \E r \in base[p] : /\ r.sha = PatchOf[order[p].delta][1]
                              /\ r.entry = order[p].entry

\* A delta leaves the bucket only when its result is saved, or when a push was
\* refused because the delta was damaged or failed to apply: stopping half-way
\* loses neither the delta nor what it makes.
DeltaNotLost ==
    \A x \in sentDeltas \ rawDeltas :
        \E p \in Pushes : /\ order[p].delta = x
                          /\ \/ result[p] # {}
                             \/ /\ job[p] = "refused"
                                /\ bytes[p] # {} \/ ~order[p].intact
=============================================================================
