-------------------------- MODULE DeltaPushProofs --------------------------
(***************************************************************************)
(* Proofs about DeltaPush, for any number of pushes, snaps, files and      *)
(* deltas, when the processing of two files of one snap does not overlap.  *)
(***************************************************************************)
EXTENDS DeltaPush, PublishingProofs

-----------------------------------------------------------------------------
(* Delta pushes are pushes, so that the invariants of Publishing hold. *)

\* A step of DeltaPush is one of Publishing, or leaves its variables alone.
LEMMA DeltaIsPublishing ==
  ASSUME DeltaTypeOK, [DeltaNext]_deltaVars
  PROVE  [Next]_vars
<1>1. ASSUME NEW p \in Pushes, PublishStep(p) PROVE Next
  BY <1>1 DEF PublishStep, Next
<1>2. ASSUME NEW p \in Pushes, SaveResult(p) PROVE Next
  BY <1>2 DEF SaveResult, Next
<1>3. ASSUME NEW p \in Pushes, ProcessResult(p) PROVE Next
  <2>1. PICK f \in result[p] :
          Receive(p, [entry |-> order[p].entry, file |-> f, targets |-> order[p].targets])
    BY <1>3 DEF ProcessResult
  <2>2. [entry |-> order[p].entry, file |-> f, targets |-> order[p].targets] \in Request
    BY DEF DeltaTypeOK, DeltaOrder, Request
  <2> QED BY <2>1, <2>2 DEF Next
<1>4. ASSUME NEW p \in Pushes,
             \/ FindBase(p) \/ FetchDelta(p) \/ RejectDelta(p) \/ ReadBase(p)
             \/ ApplyDelta(p) \/ CleanDelta(p) \/ AbandonDelta(p)
      PROVE  UNCHANGED vars
  BY <1>4 DEF FindBase, FetchDelta, RejectDelta, ReadBase, ApplyDelta, CleanDelta,
              AbandonDelta
<1>5. ASSUME NEW p \in Pushes, NEW o \in DeltaOrder, DeltaRequested(p, o)
      PROVE  UNCHANGED vars
  BY <1>5 DEF DeltaRequested
<1>6. ASSUME NEW x \in DeltaFiles, UploadDelta(x) PROVE UNCHANGED vars
  BY <1>6 DEF UploadDelta
<1>7. ASSUME NEW f \in Files, Upload(f) PROVE Next
  BY <1>7 DEF Next
<1>8. CASE UNCHANGED deltaVars
  BY <1>8 DEF deltaVars
<1> QED
  BY <1>1, <1>2, <1>3, <1>4, <1>5, <1>6, <1>7, <1>8 DEF DeltaNext, DeltaStep

\* Rows are only added.
LEMMA RowsStay ==
  ASSUME TypeOK, [Next]_vars
  PROVE  rows \subseteq rows'
BY StepFrame DEF Next, Upload, Receive, stores, vars

-----------------------------------------------------------------------------
(* The types. *)

\* The query for the base returns rows of the snap.
LEMMA BaseIsOfSnap ==
  ASSUME NEW o \in DeltaOrder, NEW r \in BaseRows(o)
  PROVE  r \in RowsOf(o.entry)
BY DEF BaseRows, Latest, RowsNumbered, DeltaOrder

LEMMA DeltaTypeInitially == DeltaInit => DeltaTypeOK
<1> SUFFICES ASSUME DeltaInit PROVE DeltaTypeOK
  OBVIOUS
<1>1. (CHOOSE o \in DeltaOrder : TRUE) \in DeltaOrder
  <2>1. PICK e \in Entries, x \in DeltaFiles, ts \in TargetSets : TRUE
    BY ConstantsAssumption, DeltaAssumption
  <2>2. [entry |-> e, number |-> 0, delta |-> x, intact |-> TRUE, targets |-> ts]
           \in DeltaOrder
    BY ConstantsAssumption DEF DeltaOrder
  <2> QED BY <2>2
<1> QED BY <1>1 DEF DeltaInit, DeltaTypeOK, Applying

LEMMA DeltaTypeStep ==
  ASSUME TypeOK, DeltaTypeOK, [DeltaNext]_deltaVars
  PROVE  DeltaTypeOK'
<1> USE DEF DeltaTypeOK, Enter, Applying
<1>1. ASSUME NEW f \in Files, Upload(f), UNCHANGED <<deltaStores, deltaLocals>>
      PROVE  DeltaTypeOK'
  BY <1>1 DEF deltaStores, deltaLocals
<1>2. ASSUME NEW x \in DeltaFiles, UploadDelta(x) PROVE DeltaTypeOK'
  BY <1>2 DEF UploadDelta, deltaLocals
<1>3. ASSUME NEW p \in Pushes, PublishStep(p) PROVE DeltaTypeOK'
  BY <1>3 DEF PublishStep, deltaStores, deltaLocals
<1>4. ASSUME NEW p \in Pushes, NEW o \in DeltaOrder, DeltaRequested(p, o)
      PROVE  DeltaTypeOK'
  BY <1>4 DEF DeltaRequested, deltaStores
<1>5. ASSUME NEW p \in Pushes, FindBase(p) PROVE DeltaTypeOK'
  <2>1. BaseRows(order[p]) \subseteq RevisionRow
    BY BaseIsOfSnap DEF RowsOf, TypeOK
  <2> QED BY <1>5, <2>1 DEF FindBase, deltaStores
<1>6. ASSUME NEW p \in Pushes, FetchDelta(p) PROVE DeltaTypeOK'
  BY <1>6 DEF FetchDelta, deltaStores
<1>7. ASSUME NEW p \in Pushes, RejectDelta(p) PROVE DeltaTypeOK'
  BY <1>7 DEF RejectDelta
<1>8. ASSUME NEW p \in Pushes, ReadBase(p) PROVE DeltaTypeOK'
  <2>1. UNCHANGED <<deltaStores, order, base, result>>
    BY <1>8 DEF ReadBase
  <2>2. job' \in [Pushes -> Applying \cup {"none", "refused", "processed"}]
    BY <1>8 DEF ReadBase
  <2>3. bytes' \in [Pushes -> SUBSET Contents]
    <3>1. CASE UNCHANGED bytes
      BY <3>1
    <3>2. ASSUME NEW r \in base[p], SnapPath(r.entry, r.seq) \in DOMAIN snaps,
                 bytes' = [bytes EXCEPT ![p] = {snaps[SnapPath(r.entry, r.seq)]}]
          PROVE  bytes' \in [Pushes -> SUBSET Contents]
      <4>1. snaps[SnapPath(r.entry, r.seq)] \in Contents
        BY <3>2 DEF TypeOK
      <4> QED BY <3>2, <4>1
    <3> QED BY <1>8, <3>1, <3>2 DEF ReadBase
  <2> QED BY <2>1, <2>2, <2>3 DEF deltaStores
<1>9. ASSUME NEW p \in Pushes, ApplyDelta(p) PROVE DeltaTypeOK'
  BY <1>9 DEF ApplyDelta, deltaStores
<1>10. ASSUME NEW p \in Pushes, SaveResult(p) PROVE DeltaTypeOK'
  BY <1>10 DEF SaveResult, deltaStores
<1>11. ASSUME NEW p \in Pushes, CleanDelta(p) PROVE DeltaTypeOK'
  BY <1>11 DEF CleanDelta
<1>12. ASSUME NEW p \in Pushes, ProcessResult(p) PROVE DeltaTypeOK'
  BY <1>12 DEF ProcessResult, deltaStores
<1>13. ASSUME NEW p \in Pushes, AbandonDelta(p) PROVE DeltaTypeOK'
  BY <1>13 DEF AbandonDelta, deltaStores
<1>14. CASE UNCHANGED deltaVars
  BY <1>14 DEF deltaVars, deltaStores, deltaLocals
<1> QED
  BY <1>1, <1>2, <1>3, <1>4, <1>5, <1>6, <1>7, <1>8, <1>9, <1>10, <1>11, <1>12,
     <1>13, <1>14 DEF DeltaNext, DeltaStep

-----------------------------------------------------------------------------
(* The invariant of delta pushes. *)

Fetching == {"none", "find", "fetch", "read"}
Saved == {"clean", "process", "processed"}

\* The base is a row of the snap the delta is for.
BaseIsRow ==
    \A p \in Pushes : \A r \in base[p] : r \in rows /\ r.entry = order[p].entry

\* What was read of the base is what its row has the digest of.
BytesAreOfBase ==
    \A p \in Pushes : \A c \in bytes[p] : \E r \in base[p] : r.sha = c

\* Before its bytes are read a push has none, and no result before it is saved.
StagesInOrder ==
    \A p \in Pushes :
        /\ job[p] \in {"none", "find"} => base[p] = {}
        /\ job[p] \in Fetching => bytes[p] = {}
        /\ job[p] \in Fetching \cup {"reject", "apply", "save"} => result[p] = {}
        /\ job[p] = "reject" => bytes[p] # {} \/ ~order[p].intact
        /\ job[p] \in {"apply", "save"} => bytes[p] # {}
        /\ job[p] = "save" => \A c \in bytes[p] : Applies(order[p].delta, c)
        /\ job[p] \in Saved => result[p] # {}

DInv == /\ DeltaTypeOK /\ BaseIsRow /\ BytesAreOfBase /\ StagesInOrder
        /\ ResultBuiltOnBase /\ DeltaNotLost

LEMMA DInvInitially == DeltaInit => DInv
<1> SUFFICES ASSUME DeltaInit PROVE DInv
  OBVIOUS
<1>1. DeltaTypeOK
  BY DeltaTypeInitially
<1> QED
  BY <1>1 DEF DeltaInit, DInv, BaseIsRow, BytesAreOfBase, StagesInOrder, Fetching,
     Saved, ResultBuiltOnBase, DeltaNotLost

\* A push leaves the variables of the others alone.
LEMMA DeltaFrame ==
  ASSUME DeltaTypeOK, NEW p \in Pushes, DeltaStep(p)
  PROVE  /\ sentDeltas' = sentDeltas /\ order' = order
         /\ \A q \in Pushes : q # p =>
               /\ job'[q] = job[q] /\ base'[q] = base[q]
               /\ bytes'[q] = bytes[q] /\ result'[q] = result[q]
BY DEF DeltaTypeOK, DeltaStep, Enter, deltaStores, FindBase, FetchDelta, RejectDelta,
       ReadBase, ApplyDelta, SaveResult, CleanDelta, ProcessResult, AbandonDelta

\* BaseIsRow, one push at a time.
LEMMA BaseIsRowStep ==
  ASSUME TypeOK, DInv, [DeltaNext]_deltaVars
  PROVE  BaseIsRow'
<1> USE DEF DInv
<1>1. rows \subseteq rows'
  BY RowsStay, DeltaIsPublishing
<1>2. CASE UNCHANGED <<base, order>>
  BY <1>1, <1>2 DEF BaseIsRow
<1>3. ASSUME NEW p \in Pushes, FindBase(p) PROVE BaseIsRow'
  <2>1. BaseRows(order[p]) \subseteq RowsOf(order[p].entry)
    BY BaseIsOfSnap DEF DeltaTypeOK
  <2>2. UNCHANGED order /\ base'[p] \subseteq BaseRows(order[p]) \cup base[p]
    BY <1>3 DEF FindBase, DeltaTypeOK
  <2>3. \A q \in Pushes : q # p => base'[q] = base[q]
    BY <1>3, DeltaFrame DEF DeltaStep
  <2> QED BY <1>1, <2>1, <2>2, <2>3 DEF BaseIsRow, RowsOf
<1>4. ASSUME NEW p \in Pushes, NEW o \in DeltaOrder, DeltaRequested(p, o)
      PROVE  BaseIsRow'
  BY <1>1, <1>4 DEF DeltaRequested, Enter, BaseIsRow, StagesInOrder, DeltaTypeOK
<1>5. \/ UNCHANGED <<base, order>>
      \/ \E p \in Pushes : FindBase(p) \/ \E o \in DeltaOrder : DeltaRequested(p, o)
  BY DEF DeltaNext, DeltaStep, deltaVars, deltaLocals, PublishStep, UploadDelta,
         FetchDelta, RejectDelta, ReadBase, ApplyDelta, SaveResult, CleanDelta,
         ProcessResult, AbandonDelta
<1> QED BY <1>2, <1>3, <1>4, <1>5

\* The bytes that are read are those of a row, as files match rows.
LEMMA BytesAreOfBaseStep ==
  ASSUME TypeOK, RowsMatchFiles, DInv, [DeltaNext]_deltaVars
  PROVE  BytesAreOfBase'
<1> USE DEF DInv
<1>1. CASE UNCHANGED <<base, bytes>>
  BY <1>1 DEF BytesAreOfBase
<1>2. ASSUME NEW p \in Pushes, FindBase(p) PROVE BytesAreOfBase'
  <2>1. bytes[p] = {} /\ UNCHANGED bytes
    BY <1>2 DEF FindBase, Enter, StagesInOrder, Fetching
  <2>2. \A q \in Pushes : q # p => base'[q] = base[q]
    BY <1>2, DeltaFrame DEF DeltaStep
  <2> QED BY <2>1, <2>2 DEF BytesAreOfBase
<1>3. ASSUME NEW p \in Pushes, ReadBase(p) PROVE BytesAreOfBase'
  <2>1. \A r \in base[p] : SnapPath(r.entry, r.seq) \in DOMAIN snaps =>
           snaps[SnapPath(r.entry, r.seq)] = r.sha
    BY DEF BaseIsRow, RowsMatchFiles
  <2>2. /\ UNCHANGED base
        /\ \A q \in Pushes : q # p => bytes'[q] = bytes[q]
        /\ \/ UNCHANGED bytes
           \/ \E r \in base[p] : /\ SnapPath(r.entry, r.seq) \in DOMAIN snaps
                                 /\ bytes'[p] = {snaps[SnapPath(r.entry, r.seq)]}
    BY <1>3 DEF ReadBase, DeltaTypeOK
  <2>3. \A c \in bytes'[p] : \E r \in base[p] : r.sha = c
    BY <2>1, <2>2 DEF BytesAreOfBase
  <2> QED BY <2>2, <2>3 DEF BytesAreOfBase
<1>4. \/ UNCHANGED <<base, bytes>>
      \/ \E p \in Pushes : FindBase(p) \/ ReadBase(p)
  BY DEF DeltaNext, DeltaStep, deltaVars, deltaLocals, PublishStep, UploadDelta,
         DeltaRequested, FetchDelta, RejectDelta, ApplyDelta, SaveResult, CleanDelta,
         ProcessResult, AbandonDelta
<1> QED BY <1>1, <1>2, <1>3, <1>4

LEMMA StagesInOrderStep ==
  ASSUME DInv, [DeltaNext]_deltaVars
  PROVE  StagesInOrder'
<1> DEFINE Part(q) ==
      /\ job[q] \in {"none", "find"} => base[q] = {}
      /\ job[q] \in Fetching => bytes[q] = {}
      /\ job[q] \in Fetching \cup {"reject", "apply", "save"} => result[q] = {}
      /\ job[q] = "reject" => bytes[q] # {} \/ ~order[q].intact
      /\ job[q] \in {"apply", "save"} => bytes[q] # {}
      /\ job[q] = "save" => \A c \in bytes[q] : Applies(order[q].delta, c)
      /\ job[q] \in Saved => result[q] # {}
<1>0. DeltaTypeOK /\ \A q \in Pushes : Part(q)
  BY DEF DInv, StagesInOrder
<1> SUFFICES ASSUME NEW q \in Pushes PROVE Part(q)'
  BY DEF StagesInOrder
<1> USE DEF DeltaTypeOK, Enter, Fetching, Saved, Applies
<1>1. CASE UNCHANGED deltaLocals
  BY <1>0, <1>1 DEF deltaLocals
<1>2. ASSUME NEW p \in Pushes, NEW o \in DeltaOrder, DeltaRequested(p, o)
      PROVE  Part(q)'
  BY <1>0, <1>2 DEF DeltaRequested
<1>3. ASSUME NEW p \in Pushes, DeltaStep(p), p # q PROVE Part(q)'
  BY <1>0, <1>3, DeltaFrame
<1>4. CASE FindBase(q)
  BY <1>0, <1>4 DEF FindBase
<1>5. CASE FetchDelta(q)
  BY <1>0, <1>5 DEF FetchDelta
<1>6. CASE RejectDelta(q)
  BY <1>0, <1>6 DEF RejectDelta
<1>7. CASE ReadBase(q)
  <2>1. job[q] = "read" /\ job'[q] \in {"apply", "refused"} /\ result'[q] = {}
    BY <1>0, <1>7 DEF ReadBase
  <2>2. job'[q] = "apply" => bytes'[q] # {}
    BY <1>0, <1>7 DEF ReadBase
  <2> QED BY <2>1, <2>2
<1>8. CASE ApplyDelta(q)
  <2>1. /\ job[q] = "apply" /\ job'[q] \in {"save", "reject"}
        /\ job'[q] = "save" => \A c \in bytes[q] : PatchOf[order[q].delta][1] = c
        /\ UNCHANGED <<order, base, bytes, result>>
    BY <1>0, <1>8 DEF ApplyDelta
  <2> QED BY <1>0, <2>1
<1>9. CASE SaveResult(q)
  BY <1>0, <1>9 DEF SaveResult
<1>10. CASE CleanDelta(q)
  BY <1>0, <1>10 DEF CleanDelta
<1>11. CASE ProcessResult(q)
  BY <1>0, <1>11 DEF ProcessResult
<1>12. CASE AbandonDelta(q)
  BY <1>0, <1>12 DEF AbandonDelta, Applying
<1> QED
  BY <1>1, <1>2, <1>3, <1>4, <1>5, <1>6, <1>7, <1>8, <1>9, <1>10, <1>11, <1>12
  DEF DeltaNext, DeltaStep, PublishStep, UploadDelta, deltaVars

\* A result is saved once the delta applies to bytes that are those of the base.
LEMMA ResultBuiltOnBaseStep ==
  ASSUME DInv, [DeltaNext]_deltaVars
  PROVE  ResultBuiltOnBase'
<1> USE DEF DInv
<1>1. CASE UNCHANGED <<result, order, base>>
  BY <1>1 DEF ResultBuiltOnBase
<1>2. ASSUME NEW p \in Pushes, SaveResult(p) PROVE ResultBuiltOnBase'
  <2>1. PICK c \in bytes[p] : Applies(order[p].delta, c)
    BY <1>2 DEF SaveResult, Enter, StagesInOrder
  <2>2. PICK r \in base[p] : r.sha = c
    BY DEF BytesAreOfBase
  <2>3. r.sha = PatchOf[order[p].delta][1] /\ r.entry = order[p].entry
    BY <2>1, <2>2 DEF Applies, BaseIsRow
  <2>4. /\ UNCHANGED <<order, base>>
        /\ \A f \in result'[p] : Digest[f] = PatchOf[order[p].delta][2]
        /\ \A q \in Pushes : q # p => result'[q] = result[q]
    BY <1>2 DEF SaveResult, DeltaTypeOK
  <2> QED BY <2>3, <2>4 DEF ResultBuiltOnBase
<1>3. ASSUME NEW p \in Pushes, FindBase(p) PROVE ResultBuiltOnBase'
  <2>1. result[p] = {} /\ UNCHANGED <<result, order>>
    BY <1>3 DEF FindBase, Enter, StagesInOrder, Fetching
  <2>2. \A q \in Pushes : q # p => base'[q] = base[q]
    BY <1>3, DeltaFrame DEF DeltaStep
  <2> QED BY <2>1, <2>2 DEF ResultBuiltOnBase
<1>4. ASSUME NEW p \in Pushes, NEW o \in DeltaOrder, DeltaRequested(p, o)
      PROVE  ResultBuiltOnBase'
  <2>1. result[p] = {} /\ UNCHANGED <<result, base>>
    BY <1>4 DEF DeltaRequested, Enter, StagesInOrder, Fetching
  <2>2. \A q \in Pushes : q # p => order'[q] = order[q]
    BY <1>4 DEF DeltaRequested, DeltaTypeOK
  <2> QED BY <2>1, <2>2 DEF ResultBuiltOnBase
<1>5. \/ UNCHANGED <<result, order, base>>
      \/ \E p \in Pushes : \/ SaveResult(p) \/ FindBase(p)
                           \/ \E o \in DeltaOrder : DeltaRequested(p, o)
  BY DEF DeltaNext, DeltaStep, deltaVars, deltaLocals, PublishStep, UploadDelta,
         FetchDelta, RejectDelta, ReadBase, ApplyDelta, CleanDelta, ProcessResult,
         AbandonDelta
<1> QED BY <1>1, <1>2, <1>3, <1>4, <1>5

\* A delta is removed by a push that has saved its result or has been refused;
\* neither takes another order.
LEMMA DeltaNotLostStep ==
  ASSUME DInv, [DeltaNext]_deltaVars
  PROVE  DeltaNotLost'
<1> USE DEF DInv
<1> DEFINE Accounts(p, x) == /\ order[p].delta = x
                             /\ \/ result[p] # {}
                                \/ /\ job[p] = "refused"
                                   /\ bytes[p] # {} \/ ~order[p].intact
<1>0. \A x \in sentDeltas \ rawDeltas : \E p \in Pushes : Accounts(p, x)
  BY DEF DeltaNotLost
<1>1. ASSUME NEW p \in Pushes, NEW x, Accounts(p, x) PROVE Accounts(p, x)'
  <2>1. CASE UNCHANGED deltaLocals
    BY <1>1, <2>1 DEF deltaLocals
  <2>2. ASSUME NEW q \in Pushes, NEW o \in DeltaOrder, DeltaRequested(q, o)
        PROVE  Accounts(p, x)'
    <3>1. q # p
      BY <1>1, <2>2 DEF DeltaRequested, Enter, StagesInOrder, Fetching
    <3> QED BY <1>1, <2>2, <3>1 DEF DeltaRequested, Enter, DeltaTypeOK
  <2>3. ASSUME NEW q \in Pushes, DeltaStep(q), q # p PROVE Accounts(p, x)'
    BY <1>1, <2>3, DeltaFrame
  <2>4. ASSUME DeltaStep(p) PROVE Accounts(p, x)'
    <3>1. order' = order
      BY <2>4, DeltaFrame
    <3>2. job[p] # "refused"
      BY <2>4 DEF DeltaStep, Enter, Applying, FindBase, FetchDelta, RejectDelta,
         ReadBase, ApplyDelta, SaveResult, CleanDelta, ProcessResult, AbandonDelta
    <3>3. result[p] # {} /\ result'[p] # {}
      BY <1>1, <2>4, <3>2
      DEF DeltaStep, DeltaTypeOK, FindBase, FetchDelta, RejectDelta, ReadBase,
          ApplyDelta, SaveResult, CleanDelta, ProcessResult, AbandonDelta
    <3> QED BY <1>1, <3>1, <3>3
  <2> QED
    BY <2>1, <2>2, <2>3, <2>4
    DEF DeltaNext, PublishStep, UploadDelta, deltaVars
<1>2. ASSUME NEW p \in Pushes, NEW x, RejectDelta(p) \/ CleanDelta(p),
             x = order[p].delta, rawDeltas' # rawDeltas
      PROVE  Accounts(p, x)'
  <2>1. CASE RejectDelta(p)
    BY <1>2, <2>1 DEF RejectDelta, Enter, StagesInOrder, DeltaTypeOK
  <2>2. CASE CleanDelta(p)
    BY <1>2, <2>2 DEF CleanDelta, Enter, StagesInOrder, Saved, DeltaTypeOK
  <2> QED BY <1>2, <2>1, <2>2
<1>3. \/ sentDeltas' \ rawDeltas' \subseteq sentDeltas \ rawDeltas
      \/ \E p \in Pushes :
            /\ RejectDelta(p) \/ CleanDelta(p)
            /\ sentDeltas' = sentDeltas /\ rawDeltas' = rawDeltas \ {order[p].delta}
            /\ rawDeltas' # rawDeltas
  BY DEF DeltaNext, DeltaStep, deltaVars, deltaStores, PublishStep, UploadDelta,
         DeltaRequested, FindBase, FetchDelta, RejectDelta, ReadBase, ApplyDelta,
         SaveResult, CleanDelta, ProcessResult, AbandonDelta
<1>4. ASSUME NEW x \in sentDeltas' \ rawDeltas' PROVE \E p \in Pushes : Accounts(p, x)'
  <2>1. CASE x \in sentDeltas \ rawDeltas
    BY <1>0, <1>1, <2>1
  <2>2. CASE x \notin sentDeltas \ rawDeltas
    <3>1. PICK p \in Pushes : /\ RejectDelta(p) \/ CleanDelta(p)
                              /\ x = order[p].delta /\ rawDeltas' # rawDeltas
      BY <1>3, <1>4, <2>2
    <3> QED BY <1>2, <3>1
  <2> QED BY <2>1, <2>2
<1> QED BY <1>4 DEF DeltaNotLost

LEMMA DInvStep ==
  ASSUME TypeOK, RowsMatchFiles, DInv, [DeltaNext]_deltaVars
  PROVE  DInv'
BY DeltaTypeStep, BaseIsRowStep, BytesAreOfBaseStep, StagesInOrderStep,
   ResultBuiltOnBaseStep, DeltaNotLostStep DEF DInv

-----------------------------------------------------------------------------
\* With the invariants of serialised pushes.
LEMMA DeltaInvStep ==
  ASSUME TargetsAreGiven, IInv, SInv, DInv, [DeltaNext /\ Serialised']_deltaVars
  PROVE  IInv' /\ SInv' /\ DInv'
<1>1. [DeltaNext]_deltaVars /\ [Next]_vars
  BY DeltaIsPublishing DEF DInv
<1>2. [Next /\ Serialised']_vars
  <2>1. CASE UNCHANGED deltaVars
    BY <2>1 DEF deltaVars
  <2>2. CASE Serialised'
    BY <1>1, <2>2
  <2> QED BY <2>1, <2>2
<1>3. IInv' /\ SInv'
  BY <1>2, SerialStep
<1>4. DInv'
  BY <1>1, DInvStep DEF IInv, SInv
<1> QED BY <1>3, <1>4

LEMMA DeltaInvariance ==
  ASSUME TargetsAreGiven
  PROVE  DeltaSerialSpec => [](IInv /\ SInv /\ DInv)
<1>1. DeltaInit => IInv /\ SInv /\ DInv
  BY IInvInitially, SerialInit, DInvInitially DEF DeltaInit
<1>2. IInv /\ SInv /\ DInv /\ [DeltaNext /\ Serialised']_deltaVars
      => (IInv /\ SInv /\ DInv)'
  BY DeltaInvStep
<1> QED BY <1>1, <1>2, PTL DEF DeltaSerialSpec

\* The file a delta is turned into is what the delta makes of the content that
\* the row of its base has the digest of.
THEOREM ResultsAreBuiltOnTheirBase ==
  ASSUME TargetsAreGiven PROVE DeltaSerialSpec => []ResultBuiltOnBase
BY DeltaInvariance, PTL DEF DInv

\* A delta that is removed was turned into a file, or its push was refused for
\* a damaged delta or one that does not apply.
THEOREM DeltasAreNotLost ==
  ASSUME TargetsAreGiven PROVE DeltaSerialSpec => []DeltaNotLost
BY DeltaInvariance, PTL DEF DInv

\* Pushes of deltas leave the guarantees of published revisions as they are.
THEOREM DeltaPushesPublishSafely ==
  ASSUME TargetsAreGiven
  PROVE  DeltaSerialSpec => [](RevisionsAreSpecific /\ RowsMatchFiles /\ DeltasApply)
BY DeltaInvariance, PTL DEF SInv

-----------------------------------------------------------------------------
(* Delta pushes implement pushes. *)

LEMMA DeltaTypes == DeltaSpec => [](TypeOK /\ DeltaTypeOK)
<1>1. DeltaInit => TypeOK /\ DeltaTypeOK
  BY TypeInitially, DeltaTypeInitially DEF DeltaInit
<1>2. TypeOK /\ DeltaTypeOK /\ [DeltaNext]_deltaVars => (TypeOK /\ DeltaTypeOK)'
  BY DeltaIsPublishing, TypeStep, DeltaTypeStep
<1> QED BY <1>1, <1>2, PTL DEF DeltaSpec

\* A push of a delta, once it is turned into a file, is a push of this file:
\* all that holds of Publishing holds here, also of pushes that overlap.
THEOREM DeltaPushesImplementPublishing == DeltaSpec => Spec
<1>1. DeltaInit => Init
  BY DEF DeltaInit
<1>2. DeltaTypeOK /\ [DeltaNext]_deltaVars => [Next]_vars
  BY DeltaIsPublishing
<1> QED BY <1>1, <1>2, DeltaTypes, PTL DEF DeltaSpec, Spec

LEMMA SerialDeltasAreSerial ==
  ASSUME DeltaTypeOK, [DeltaNext /\ Serialised']_deltaVars
  PROVE  [Next /\ Serialised']_vars
<1>1. [DeltaNext]_deltaVars
  OBVIOUS
<1>2. [Next]_vars
  BY <1>1, DeltaIsPublishing
<1> QED BY <1>2 DEF deltaVars

THEOREM DeltaPushesImplementSerial == DeltaSerialSpec => SerialSpec
<1>1. DeltaInit => Init
  BY DEF DeltaInit
<1>2. DeltaTypeOK /\ [DeltaNext /\ Serialised']_deltaVars => [Next /\ Serialised']_vars
  BY SerialDeltasAreSerial
<1>3. DeltaSerialSpec => DeltaSpec
  BY PTL DEF DeltaSerialSpec, DeltaSpec
<1> QED BY <1>1, <1>2, <1>3, DeltaTypes, PTL DEF DeltaSerialSpec, SerialSpec

\* With pushes of deltas, too, the store is an archive that is never
\* overwritten and grows upwards.
THEOREM DeltaPushesFillTheArchive ==
  ASSUME TargetsAreGiven PROVE DeltaSerialSpec => PublishesAnArchive
BY DeltaPushesImplementSerial, StoreIsAnArchive
=============================================================================
