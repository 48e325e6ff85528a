--------------------------- MODULE RefreshProofs ---------------------------
(***************************************************************************)
(* Proofs about Refresh, for any number of devices, cohorts, pushes, snaps *)
(* and channels, when the processing of two files of one snap does not     *)
(* overlap: a device gets what was announced to it, keeps what the store   *)
(* serves and never goes back, and a cohort stays together.                *)
(***************************************************************************)
EXTENDS Refresh, DeltaPushProofs

-----------------------------------------------------------------------------
(* Which steps change what. *)

\* A step is one of a push, or leaves the variables of pushes alone.
LEMMA RefreshIsDeltaPush ==
  ASSUME [RefreshNext /\ Serialised']_refreshVars
  PROVE  [DeltaNext /\ Serialised']_deltaVars
BY DEF refreshVars, RefreshNext, Publish, Tick, CreateCohorts, DeviceStep, SendAction,
       LookUpRelease, Select, LookUpUser, WithoutDelta, LookUpDelta, RefuseRefresh,
       Download, DownloadPatch, CutShort, Install

\* A device leaves the stores, the clock and the other devices alone.
LEMMA DeviceFrame ==
  ASSUME RefreshTypeOK, NEW d \in Devices, DeviceStep(d)
  PROVE  /\ UNCHANGED <<deltaVars, catalogue>>
         /\ \A f \in Devices : f # d =>
               /\ at_gateway'[f] = at_gateway[f] /\ action'[f] = action[f]
               /\ offer'[f] = offer[f] /\ user'[f] = user[f]
               /\ offeredDelta'[f] = offeredDelta[f] /\ got'[f] = got[f]
               /\ installed'[f] = installed[f]
BY DEF RefreshTypeOK, DeviceStep, Pass, Forget, SendAction, LookUpRelease, Select,
       LookUpUser, WithoutDelta, LookUpDelta, RefuseRefresh, Download, DownloadPatch,
       CutShort, Install

\* Every other step leaves the devices alone.
LEMMA DeviceOrNot ==
  ASSUME [RefreshNext]_refreshVars
  PROVE  UNCHANGED devices \/ \E d \in Devices : DeviceStep(d)
BY DEF RefreshNext, Publish, Tick, CreateCohorts, refreshVars

\* Rows of deltas are only added.
LEMMA DeltaRowsStay ==
  ASSUME [Next]_vars
  PROVE  deltaRows \subseteq deltaRows'
BY StepChanges DEF Next, Upload, Receive, stores, vars, RecordDelta

-----------------------------------------------------------------------------
(* The look-ups. *)

\* What a look-up by channel or by number returns is a row of the snap.
LEMMA LookUpsReturnRows ==
  ASSUME NEW e, NEW t, NEW n
  PROVE  LatestReleased(e, t) \subseteq RowsOf(e) /\ RowsNumbered(e, n) \subseteq RowsOf(e)
BY DEF LatestReleased, RowsNumbered

\* The log has rows only, none of the future, and no key is of the future.
LogIsOfRows ==
    /\ \A i \in DOMAIN log : log[i].row \in rows /\ log[i].at <= clock
    /\ \A k \in keys : k.created <= clock

\* What a request selects is a row of the snap it names.
LEMMA SelectionIsOfSnap ==
  ASSUME LogIsOfRows, NEW a, NEW r \in Selection(a)
  PROVE  r \in RowsOf(a.entry)
<1>1. CASE a.key # {}
  <2>1. PICK k \in a.key : /\ k.entry = a.entry
                           /\ r \in LatestBefore(k.entry, Milestone(k.created, clock))
    BY <1>1 DEF Selection
  <2>2. PICK i \in DOMAIN log : log[i].row = r /\ r.entry = k.entry
    BY <2>1 DEF LatestBefore
  <2> QED BY <2>1, <2>2 DEF LogIsOfRows, RowsOf
<1>2. CASE a.key = {}
  BY <1>2, LookUpsReturnRows DEF Selection
<1> QED BY <1>1, <1>2

\* A recorded delta is stored under its URL, and leads from the content of its
\* source to that of its target.
LEMMA RecordedIsStored ==
  ASSUME DeltasApply, DeltasAreSingleSteps, NEW x \in deltaRows
  PROVE  /\ DeltaURL(x) \in DOMAIN deltas
         /\ deltas[DeltaURL(x)] = <<x.source.sha, x.target.sha>>
BY DEF DeltasApply, DeltasAreSingleSteps, DeltaURL

-----------------------------------------------------------------------------
(* The types. *)

LEMMA RefreshTypeInitially == RefreshInit => RefreshTypeOK
<1> SUFFICES ASSUME RefreshInit PROVE RefreshTypeOK
  OBVIOUS
<1>1. DeltaTypeOK
  BY DeltaTypeInitially DEF RefreshInit
<1>2. (CHOOSE a \in Action : TRUE) \in Action
  <2>1. PICK e \in Entries, t \in Wanted : TRUE
    BY ConstantsAssumption, RefreshAssumption
  <2>2. [kind |-> "install", entry |-> e, target |-> t, number |-> 0, key |-> {}]
           \in Action
    BY ConstantsAssumption DEF Action
  <2> QED BY <2>2
<1>3. clock \in 0..MaxTime /\ log \in Seq([row : RevisionRow, at : 0..MaxTime])
  BY RefreshAssumption DEF RefreshInit
<1> QED BY <1>1, <1>2, <1>3 DEF RefreshInit, RefreshTypeOK, Stages

\* The types of the requests of devices.
DevicesTypeOK ==
    /\ at_gateway \in [Devices -> Stages]
    /\ action \in [Devices -> Action]
    /\ offer \in [Devices -> SUBSET RevisionRow]
    /\ user \in [Devices -> SUBSET RevisionRow]
    /\ offeredDelta \in [Devices -> SUBSET deltaRows]
    /\ got \in [Devices -> SUBSET Contents]
    /\ installed \in [Devices -> SUBSET Installed]

LEMMA DevicesTypeStep ==
  ASSUME TypeOK, DeltasApply, DeltasAreSingleSteps, LogIsOfRows, RefreshTypeOK,
         NEW d \in Devices, DeviceStep(d)
  PROVE  DevicesTypeOK'
<1>0. DevicesTypeOK /\ rows \subseteq RevisionRow /\ deltaRows' = deltaRows
  BY DeviceFrame DEF RefreshTypeOK, DevicesTypeOK, TypeOK, deltaVars, vars, stores
<1> USE DEF DevicesTypeOK, Pass, Stages
<1>1. ASSUME Forget(d), at_gateway' = [at_gateway EXCEPT ![d] = "idle"],
             installed' \in [Devices -> SUBSET Installed]
      PROVE  DevicesTypeOK'
  <2>1. (CHOOSE a \in Action : TRUE) \in Action
    BY <1>0
  <2> QED BY <1>0, <1>1, <2>1 DEF Forget
<1>2. ASSUME NEW a \in Action, SendAction(d, a) PROVE DevicesTypeOK'
  BY <1>0, <1>2 DEF SendAction
<1>3. CASE LookUpRelease(d)
  <2>1. PICK r \in LatestReleased(action[d].entry, action[d].target) :
          offer' = [offer EXCEPT ![d] = {r}]
    BY <1>3 DEF LookUpRelease
  <2>2. r \in RevisionRow
    BY <1>0, <2>1, LookUpsReturnRows DEF RowsOf
  <2> QED BY <1>0, <1>3, <2>1, <2>2 DEF LookUpRelease
<1>4. CASE Select(d)
  <2>1. PICK r \in Selection(action[d]) : offer' = [offer EXCEPT ![d] = {r}]
    BY <1>4 DEF Select
  <2>2. r \in RevisionRow
    BY <1>0, <2>1, SelectionIsOfSnap DEF RowsOf
  <2> QED BY <1>0, <1>4, <2>1, <2>2 DEF Select
<1>5. CASE LookUpUser(d)
  <2>1. PICK s \in installed[d] : \E u \in RowsNumbered(action[d].entry, s.seq) :
          user' = [user EXCEPT ![d] = {u}]
    BY <1>5 DEF LookUpUser
  <2> PICK u \in RowsNumbered(action[d].entry, s.seq) : user' = [user EXCEPT ![d] = {u}]
    BY <2>1
  <2>2. u \in RevisionRow
    BY <1>0, LookUpsReturnRows DEF RowsOf
  <2>3. at_gateway' \in [Devices -> Stages]
    BY <1>0, <1>5 DEF LookUpUser
  <2> QED BY <1>0, <1>5, <2>2, <2>3 DEF LookUpUser
<1>6. CASE WithoutDelta(d)
  BY <1>0, <1>6 DEF WithoutDelta
<1>7. CASE LookUpDelta(d)
  BY <1>0, <1>7 DEF LookUpDelta, DeltasBetween
<1>8. CASE RefuseRefresh(d) \/ CutShort(d)
  BY <1>0, <1>1, <1>8 DEF RefuseRefresh, CutShort
<1>9. CASE Download(d)
  <2>1. PICK r \in offer[d] :
          /\ SnapPath(r.entry, r.seq) \in DOMAIN snaps
          /\ got' = [got EXCEPT ![d] = {snaps[SnapPath(r.entry, r.seq)]}]
    BY <1>9 DEF Download
  <2>2. snaps[SnapPath(r.entry, r.seq)] \in Contents
    BY <2>1 DEF TypeOK
  <2> QED BY <1>0, <1>9, <2>1, <2>2 DEF Download
<1>10. CASE DownloadPatch(d)
  <2>1. PICK x \in offeredDelta[d] :
          got' = [got EXCEPT ![d] = {deltas[DeltaURL(x)][2]}]
    BY <1>10 DEF DownloadPatch
  <2>2. x \in deltaRows /\ x.target.sha \in Contents
    BY <1>0, <2>1 DEF TypeOK, RevisionRow
  <2>3. deltas[DeltaURL(x)] = <<x.source.sha, x.target.sha>>
    BY <2>2, RecordedIsStored
  <2>4. deltas[DeltaURL(x)][2] = x.target.sha
    BY <2>3
  <2>5. /\ at_gateway' = [at_gateway EXCEPT ![d] = "downloaded"]
        /\ UNCHANGED <<action, offer, user, offeredDelta, installed>>
    BY <1>10 DEF DownloadPatch
  <2> QED BY <1>0, <2>1, <2>2, <2>4, <2>5
<1>11. CASE Install(d)
  <2>1. PICK r \in offer[d] :
          installed' = [installed EXCEPT ![d] =
              IF got[d] = {r.sha}
              THEN {[entry |-> r.entry, seq |-> r.seq, content |-> r.sha,
                     follows |-> {t \in {action[d].target} : ByTarget(action[d])}]}
              ELSE @]
    BY <1>11 DEF Install
  <2>2. r \in RevisionRow /\ action[d].target \in Wanted
    BY <1>0 DEF Action
  <2>3. [entry |-> r.entry, seq |-> r.seq, content |-> r.sha,
         follows |-> {t \in {action[d].target} : ByTarget(action[d])}] \in Installed
    BY <2>2 DEF RevisionRow, Installed
  <2>4. installed' \in [Devices -> SUBSET Installed]
    BY <1>0, <2>1, <2>3
  <2> QED BY <1>1, <1>11, <2>4 DEF Install
<1> QED
  BY <1>2, <1>3, <1>4, <1>5, <1>6, <1>7, <1>8, <1>9, <1>10, <1>11 DEF DeviceStep

\* The log and the keys.
CatalogueTypeOK ==
    /\ clock \in 0..MaxTime
    /\ log \in Seq([row : RevisionRow, at : 0..MaxTime])
    /\ keys \subseteq CohortKey

\* A step of a push appends the row it inserts, if any, to the log.
LEMMA PublishLogs ==
  ASSUME TypeOK', RefreshTypeOK, Publish
  PROVE  /\ log' \in Seq([row : RevisionRow, at : 0..MaxTime])
         /\ \/ log' = log
            \/ /\ DOMAIN log' = DOMAIN log \cup {Len(log) + 1}
               /\ \A i \in DOMAIN log : log'[i] = log[i]
               /\ log'[Len(log) + 1].at = clock
               /\ log'[Len(log) + 1].row \in rows'
<1>1. CASE rows' \subseteq rows
  BY <1>1 DEF Publish, RefreshTypeOK
<1>2. CASE ~(rows' \subseteq rows)
  <2> DEFINE r == CHOOSE r \in rows' \ rows : TRUE
             x == [row |-> r, at |-> clock]
             R == [row : RevisionRow, at : 0..MaxTime]
  <2>1. r \in rows' /\ r \in RevisionRow
    BY <1>2 DEF TypeOK
  <2>2. x \in R /\ log \in Seq(R) /\ x.row = r /\ x.at = clock
    BY <2>1 DEF RefreshTypeOK
  <2>3. log' = Append(log, x)
    BY <1>2 DEF Publish
  <2> HIDE DEF r, x, R
  <2>4. /\ log' \in Seq(R) /\ Len(log') = Len(log) + 1 /\ log'[Len(log) + 1] = x
        /\ \A i \in 1..Len(log) : log'[i] = log[i]
    BY <2>2, <2>3, AppendProperties
  <2>5. DOMAIN log' = 1..Len(log') /\ DOMAIN log = 1..Len(log) /\ Len(log) \in Nat
    BY <2>2, <2>4
  <2>6. DOMAIN log' = DOMAIN log \cup {Len(log) + 1}
    BY <2>4, <2>5
  <2> QED BY <2>1, <2>2, <2>4, <2>5, <2>6 DEF R
<1> QED BY <1>1, <1>2

LEMMA RefreshTypeStep ==
  ASSUME TypeOK, TypeOK', DeltasApply, DeltasAreSingleSteps, LogIsOfRows,
         RefreshTypeOK, [RefreshNext]_refreshVars, [DeltaNext]_deltaVars
  PROVE  RefreshTypeOK'
<1>0. DeltaTypeOK' /\ DevicesTypeOK /\ CatalogueTypeOK /\ deltaRows \subseteq deltaRows'
  BY DeltaTypeStep, DeltaIsPublishing, DeltaRowsStay
  DEF RefreshTypeOK, DevicesTypeOK, CatalogueTypeOK
<1>1. DevicesTypeOK'
  <2>1. CASE UNCHANGED devices
    BY <1>0, <2>1 DEF devices, DevicesTypeOK
  <2>2. ASSUME NEW d \in Devices, DeviceStep(d) PROVE DevicesTypeOK'
    BY <2>2, DevicesTypeStep
  <2> QED BY <2>1, <2>2, DeviceOrNot
<1>2. CatalogueTypeOK'
  <2>1. CASE Publish
    BY <1>0, <2>1, PublishLogs DEF Publish, CatalogueTypeOK
  <2>2. CASE Tick
    BY <1>0, <2>2, RefreshAssumption DEF Tick, CatalogueTypeOK
  <2>3. ASSUME NEW names \in SUBSET Entries, CreateCohorts(names)
        PROVE  CatalogueTypeOK'
    BY <1>0, <2>3 DEF CreateCohorts, CatalogueTypeOK, CohortKey
  <2>4. CASE UNCHANGED catalogue
    BY <1>0, <2>4 DEF catalogue, CatalogueTypeOK
  <2> QED BY <2>1, <2>2, <2>3, <2>4, DeviceFrame DEF RefreshNext, refreshVars
<1> QED BY <1>0, <1>1, <1>2 DEF RefreshTypeOK, DevicesTypeOK, CatalogueTypeOK

LEMMA LogIsOfRowsStep ==
  ASSUME TypeOK', RefreshTypeOK, LogIsOfRows, rows \subseteq rows',
         [RefreshNext]_refreshVars
  PROVE  LogIsOfRows'
<1>1. CASE Publish
  BY <1>1, PublishLogs DEF Publish, LogIsOfRows, RefreshTypeOK
<1>2. CASE Tick
  <2>1. clock' = clock + 1 /\ UNCHANGED <<log, keys>>
    BY <1>2 DEF Tick
  <2>2. /\ clock \in Nat /\ \A k \in keys : k.created \in Nat
        /\ log \in Seq([row : RevisionRow, at : 0..MaxTime])
    BY DEF RefreshTypeOK, CohortKey
  <2>3. \A i \in DOMAIN log : log[i].at \in Nat
    <3> SUFFICES ASSUME NEW i \in DOMAIN log PROVE log[i].at \in Nat
      OBVIOUS
    <3> DEFINE R == [row : RevisionRow, at : 0..MaxTime]
    <3>1. log \in Seq(R)
      BY <2>2
    <3>2. \A x \in R : x.at \in Nat
      BY RefreshAssumption
    <3> HIDE DEF R
    <3> QED BY <3>1, <3>2
  <2>4. (\A i \in DOMAIN log : log[i].at <= clock') /\ (\A k \in keys : k.created <= clock')
    <3>1. ASSUME NEW i \in DOMAIN log PROVE log[i].at <= clock'
      BY <2>1, <2>2, <2>3 DEF LogIsOfRows
    <3>2. ASSUME NEW k \in keys PROVE k.created <= clock'
      BY <2>1, <2>2 DEF LogIsOfRows
    <3> QED BY <3>1, <3>2
  <2>5. UNCHANGED rows
    BY <1>2 DEF Tick, deltaVars, vars, stores
  <2> QED BY <2>1, <2>4, <2>5 DEF LogIsOfRows
<1>3. ASSUME NEW names \in SUBSET Entries, CreateCohorts(names) PROVE LogIsOfRows'
  BY <1>3 DEF CreateCohorts, LogIsOfRows, RefreshTypeOK
<1>4. CASE UNCHANGED catalogue
  BY <1>4 DEF catalogue, LogIsOfRows
<1> QED BY <1>1, <1>2, <1>3, <1>4, DeviceFrame DEF RefreshNext, refreshVars

-----------------------------------------------------------------------------
(* The invariant of the requests of a device. *)

\* A look-up keeps one row.
OneOfEach(d) ==
    /\ \A r, s \in offer[d] : r = s
    /\ \A u, v \in user[d] : u = v
    /\ \A s, t \in installed[d] : s = t

\* The offer is a row of the snap that the request names.
OfferIsRow(d) ==
    /\ at_gateway[d] = "idle" => offer[d] = {}
    /\ \A r \in offer[d] : r \in RowsOf(action[d].entry)

\* A request refreshes the snap that the device has.
RequestFits(d) ==
    at_gateway[d] # "idle" => \A s \in installed[d] : s.entry = action[d].entry

\* What a device has is what the store serves.
HasServed(d) ==
    \A s \in installed[d] : /\ SnapPath(s.entry, s.seq) \in DOMAIN snaps
                            /\ snaps[SnapPath(s.entry, s.seq)] = s.content

\* The row found for what the device has is one of its content.
UserIsInstalled(d) ==
    /\ at_gateway[d] \in {"idle", "released", "select", "user"} => user[d] = {}
    /\ \A u \in user[d] : u \in rows /\ \A s \in installed[d] : u.sha = s.content

\* An offered delta leads from the one to the other.
DeltaLeads(d) ==
    /\ at_gateway[d] \in {"idle", "released", "select", "user", "pair"} =>
          offeredDelta[d] = {}
    /\ \A x \in offeredDelta[d] : x.source \in user[d] /\ x.target \in offer[d]

\* What was downloaded is served under the announced number.
DownloadIsServed(d) ==
    at_gateway[d] = "downloaded" =>
        \A r \in offer[d] : SnapPath(r.entry, r.seq) \in DOMAIN snaps /\ got[d] = {r.sha}

\* What a device follows was released there.
FollowsReleased(d) ==
    \A s \in installed[d] : \A t \in s.follows :
        \E q \in RowsOf(s.entry) : q.target = t /\ q.seq = s.seq

\* The offer of a request by channel is released there, and no earlier than what
\* the device has of that channel.
OfferIsNewest(d) ==
    at_gateway[d] \in {"user", "pair", "answered", "downloaded"} /\ ByTarget(action[d]) =>
        \A r \in offer[d] :
            /\ r.target = action[d].target
            /\ \A s \in installed[d] : action[d].target \in s.follows => s.seq <= r.seq

DeviceOK(d) ==
    /\ OneOfEach(d) /\ OfferIsRow(d) /\ RequestFits(d) /\ HasServed(d)
    /\ UserIsInstalled(d) /\ DeltaLeads(d) /\ DownloadIsServed(d)
    /\ FollowsReleased(d) /\ OfferIsNewest(d)

\* The target of a delta has its file.
DeltaTargetsServed ==
    \A x \in deltaRows : SnapPath(x.target.entry, x.target.seq) \in DOMAIN snaps

RInv == /\ RefreshTypeOK /\ LogIsOfRows /\ DeltaTargetsServed
        /\ \A d \in Devices : DeviceOK(d)

LEMMA RInvInitially == RefreshInit => RInv
<1> SUFFICES ASSUME RefreshInit PROVE RInv
  OBVIOUS
<1>1. RefreshTypeOK
  BY RefreshTypeInitially
<1>2. LogIsOfRows /\ DeltaTargetsServed
  BY DEF RefreshInit, DeltaInit, Init, LogIsOfRows, DeltaTargetsServed
<1>3. ASSUME NEW d \in Devices PROVE DeviceOK(d)
  BY DEF RefreshInit, DeviceOK, OneOfEach, OfferIsRow, RequestFits, HasServed,
         UserIsInstalled, DeltaLeads, DownloadIsServed, FollowsReleased, OfferIsNewest
<1> QED BY <1>1, <1>2, <1>3 DEF RInv

LEMMA DeltaTargetsServedStep ==
  ASSUME IInv, SInv, DeltaTargetsServed, [Next]_vars
  PROVE  DeltaTargetsServed'
<1>1. \A k \in DOMAIN snaps : k \in DOMAIN snaps'
  BY FilesStay DEF IInv, SInv
<1>2. CASE UNCHANGED deltaRows
  BY <1>1, <1>2 DEF DeltaTargetsServed, SnapPath
<1>3. ASSUME NEW p \in Pushes, RecordDelta(p) PROVE DeltaTargetsServed'
  <2>1. SnapPath(EntryOf(p), seq[p]) \in DOMAIN snaps /\ UNCHANGED snaps
    BY <1>3 DEF RecordDelta, Goto, IInv, LoopInserts, AfterCopy, AfterLoop
  <2> SUFFICES ASSUME NEW x \in deltaRows'
               PROVE  SnapPath(x.target.entry, x.target.seq) \in DOMAIN snaps
    BY <2>1 DEF DeltaTargetsServed, SnapPath
  <2>2. CASE x \in deltaRows
    BY <2>2 DEF DeltaTargetsServed
  <2>3. CASE x \notin deltaRows
    <3>1. PICK r \in last[p], t \in at[p] :
            x = [source |-> r, target |-> RowFor(p, t), patch |-> patch[p]]
      BY <1>3, <2>3 DEF RecordDelta
    <3>2. x.target = RowFor(p, t)
      BY <3>1
    <3>3. x.target.entry = EntryOf(p) /\ x.target.seq = seq[p]
      BY <3>2 DEF RowFor
    <3> QED BY <2>1, <3>3
  <2> QED BY <2>2, <2>3
<1>4. UNCHANGED deltaRows \/ \E p \in Pushes : RecordDelta(p)
  BY StepChanges DEF Next, Upload, Receive, stores, vars
<1> QED BY <1>2, <1>3, <1>4

\* What the pushes do to the stores leaves the requests as they are.
LEMMA StoresGrow ==
  ASSUME IInv, SInv, [Next]_vars, NEW d \in Devices, DeviceOK(d),
         at_gateway'[d] = at_gateway[d], action'[d] = action[d],
         offer'[d] = offer[d], user'[d] = user[d],
         offeredDelta'[d] = offeredDelta[d], got'[d] = got[d],
         installed'[d] = installed[d]
  PROVE  DeviceOK(d)'
<1>1. rows \subseteq rows'
  BY RowsStay DEF IInv
<1>2. \A k \in DOMAIN snaps : k \in DOMAIN snaps' /\ snaps'[k] = snaps[k]
  BY FilesStay DEF IInv, SInv
<1>3. \A e : RowsOf(e) \subseteq RowsOf(e)'
  BY <1>1 DEF RowsOf
<1>4. OneOfEach(d)' /\ RequestFits(d)' /\ DeltaLeads(d)'
  <2>1. OneOfEach(d)'
    BY DEF DeviceOK, OneOfEach
  <2>2. RequestFits(d)'
    BY DEF DeviceOK, RequestFits
  <2>3. DeltaLeads(d)'
    BY DEF DeviceOK, DeltaLeads
  <2> QED BY <2>1, <2>2, <2>3
<1>8. OfferIsNewest(d)'
  <2>1. ByTarget(action'[d]) <=> ByTarget(action[d])
    OBVIOUS
  <2> QED BY <2>1 DEF DeviceOK, OfferIsNewest, ByTarget
<1>5. OfferIsRow(d)' /\ FollowsReleased(d)'
  BY <1>3 DEF DeviceOK, OfferIsRow, FollowsReleased
<1>6. HasServed(d)' /\ DownloadIsServed(d)'
  BY <1>2 DEF DeviceOK, HasServed, DownloadIsServed, SnapPath
<1>7. UserIsInstalled(d)'
  BY <1>1 DEF DeviceOK, UserIsInstalled
<1> QED BY <1>4, <1>5, <1>6, <1>7, <1>8 DEF DeviceOK

\* The end of a request, which forgets its variables.
LEMMA RequestEnds ==
  ASSUME RefreshTypeOK, NEW d \in Devices, DeviceOK(d), UNCHANGED deltaVars,
         Forget(d), at_gateway'[d] = "idle",
         \A s, t \in installed'[d] : s = t, HasServed(d)', FollowsReleased(d)'
  PROVE  DeviceOK(d)'
<1>1. offer'[d] = {} /\ user'[d] = {} /\ offeredDelta'[d] = {}
  BY DEF Forget, RefreshTypeOK
<1>2. OneOfEach(d)' /\ OfferIsRow(d)' /\ RequestFits(d)'
  BY <1>1 DEF OneOfEach, OfferIsRow, RequestFits
<1>3. UserIsInstalled(d)' /\ DeltaLeads(d)'
  BY <1>1 DEF UserIsInstalled, DeltaLeads
<1>4. DownloadIsServed(d)' /\ OfferIsNewest(d)'
  BY DEF DownloadIsServed, OfferIsNewest
<1> QED BY <1>2, <1>3, <1>4 DEF DeviceOK

\* The latest release on a channel is no earlier than what is followed there.
LEMMA NewestIsLast ==
  ASSUME NEW d \in Devices, DeviceOK(d), at_gateway[d] # "idle",
         NEW r \in LatestReleased(action[d].entry, action[d].target)
  PROVE  \A s \in installed[d] : action[d].target \in s.follows => s.seq <= r.seq
<1> SUFFICES ASSUME NEW s \in installed[d], action[d].target \in s.follows
             PROVE  s.seq <= r.seq
  OBVIOUS
<1>1. PICK q \in RowsOf(s.entry) : q.target = action[d].target /\ q.seq = s.seq
  BY DEF DeviceOK, FollowsReleased
<1>2. s.entry = action[d].entry
  BY DEF DeviceOK, RequestFits
<1> QED BY <1>1, <1>2 DEF LatestReleased

\* A download gives the bytes of the offer, as a file or as a delta.
LEMMA DownloadServes ==
  ASSUME IInv, SInv, RefreshTypeOK, DeltaTargetsServed,
         NEW d \in Devices, DeviceOK(d), Download(d) \/ DownloadPatch(d)
  PROVE  \A r \in offer[d] :
            SnapPath(r.entry, r.seq) \in DOMAIN snaps /\ got'[d] = {r.sha}
<1>1. CASE Download(d)
  <2>1. PICK r \in offer[d] : /\ SnapPath(r.entry, r.seq) \in DOMAIN snaps
                              /\ got'[d] = {snaps[SnapPath(r.entry, r.seq)]}
    BY <1>1 DEF Download, RefreshTypeOK
  <2>2. \A q \in offer[d] : q = r
    BY DEF DeviceOK, OneOfEach
  <2>3. snaps[SnapPath(r.entry, r.seq)] = r.sha
    BY <2>1 DEF DeviceOK, OfferIsRow, RowsOf, SInv, RowsMatchFiles
  <2> QED BY <2>1, <2>2, <2>3
<1>2. CASE DownloadPatch(d)
  <2>1. PICK x \in offeredDelta[d] : got'[d] = {deltas[DeltaURL(x)][2]}
    BY <1>2 DEF DownloadPatch, RefreshTypeOK
  <2>2. x \in deltaRows /\ \A q \in offer[d] : q = x.target
    BY DEF DeviceOK, OneOfEach, DeltaLeads, RefreshTypeOK
  <2>3. deltas[DeltaURL(x)] = <<x.source.sha, x.target.sha>>
    BY <2>2, RecordedIsStored DEF IInv, SInv
  <2>4. deltas[DeltaURL(x)][2] = x.target.sha
    BY <2>3
  <2>5. SnapPath(x.target.entry, x.target.seq) \in DOMAIN snaps
    BY <2>2 DEF DeltaTargetsServed
  <2> QED BY <2>1, <2>2, <2>4, <2>5
<1> QED BY <1>1, <1>2

\* A device's own steps keep its invariant.
LEMMA DeviceKeeps ==
  ASSUME IInv, SInv, RInv, NEW d \in Devices, DeviceStep(d)
  PROVE  DeviceOK(d)'
<1>1. UNCHANGED <<rows, snaps, deltas, deltaRows, clock, log, keys>>
  BY DeviceFrame DEF RInv, deltaVars, vars, stores, catalogue
<1>2. DeviceOK(d) /\ RefreshTypeOK /\ LogIsOfRows
  BY DEF RInv
<1>3. /\ at_gateway \in [Devices -> Stages] /\ action \in [Devices -> Action]
      /\ DOMAIN offer = Devices /\ DOMAIN user = Devices
      /\ DOMAIN offeredDelta = Devices /\ DOMAIN got = Devices
      /\ DOMAIN installed = Devices
  BY <1>2 DEF RefreshTypeOK
<1>4. \A e : RowsOf(e)' = RowsOf(e)
  BY <1>1 DEF RowsOf
<1>5. \/ HasServed(d)' /\ FollowsReleased(d)'
      \/ ~(UNCHANGED installed)
  BY <1>1, <1>2, <1>4 DEF DeviceOK, HasServed, FollowsReleased, SnapPath
<1> USE <1>1, <1>2, <1>3, <1>4, <1>5 DEF Pass
<1>6. ASSUME NEW a \in Action, SendAction(d, a) PROVE DeviceOK(d)'
  <2>1. /\ at_gateway[d] = "idle" /\ at_gateway'[d] \in {"released", "select"}
        /\ action'[d] = a
        /\ UNCHANGED <<offer, user, offeredDelta, got, installed>>
    BY <1>6 DEF SendAction
  <2>2. offer[d] = {} /\ user[d] = {} /\ offeredDelta[d] = {}
    BY <2>1 DEF DeviceOK, OfferIsRow, UserIsInstalled, DeltaLeads
  <2>3. \A s \in installed[d] : s.entry = a.entry
    BY <1>6 DEF SendAction, DeviceOK, OneOfEach
  <2>4. OneOfEach(d)' /\ OfferIsRow(d)' /\ RequestFits(d)'
    BY <2>1, <2>2, <2>3 DEF DeviceOK, OneOfEach, OfferIsRow, RequestFits
  <2>5. UserIsInstalled(d)' /\ DeltaLeads(d)' /\ DownloadIsServed(d)' /\ OfferIsNewest(d)'
    BY <2>1, <2>2 DEF UserIsInstalled, DeltaLeads, DownloadIsServed, OfferIsNewest
  <2> QED BY <2>1, <2>4, <2>5 DEF DeviceOK
<1>7. CASE LookUpRelease(d)
  <2>1. PICK r \in LatestReleased(action[d].entry, action[d].target) :
          /\ offer'[d] = {r}
          /\ at_gateway[d] = "released" /\ at_gateway'[d] \in {"select", "answered"}
          /\ UNCHANGED <<action, user, offeredDelta, got, installed>>
    BY <1>7 DEF LookUpRelease
  <2>2. r \in RowsOf(action[d].entry)
    BY LookUpsReturnRows
  <2>3. user[d] = {} /\ offeredDelta[d] = {}
    BY <2>1 DEF DeviceOK, UserIsInstalled, DeltaLeads
  <2>4. OneOfEach(d)' /\ OfferIsRow(d)' /\ RequestFits(d)'
    BY <2>1, <2>2 DEF DeviceOK, OneOfEach, OfferIsRow, RequestFits
  <2>5. UserIsInstalled(d)' /\ DeltaLeads(d)' /\ DownloadIsServed(d)'
    BY <2>1, <2>3 DEF UserIsInstalled, DeltaLeads, DownloadIsServed
  <2>6. \A s \in installed[d] : action[d].target \in s.follows => s.seq <= r.seq
    BY <2>1, NewestIsLast
  <2>7. OfferIsNewest(d)'
    BY <2>1, <2>6 DEF OfferIsNewest, LatestReleased
  <2> QED BY <2>1, <2>4, <2>5, <2>7 DEF DeviceOK
<1>8. CASE Select(d)
  <2>1. PICK r \in Selection(action[d]) :
          /\ offer'[d] = {r}
          /\ at_gateway[d] = "select" /\ at_gateway'[d] \in {"user", "answered"}
          /\ UNCHANGED <<action, user, offeredDelta, got, installed>>
    BY <1>8 DEF Select
  <2>2. r \in RowsOf(action[d].entry)
    BY SelectionIsOfSnap
  <2>3. user[d] = {} /\ offeredDelta[d] = {}
    BY <2>1 DEF DeviceOK, UserIsInstalled, DeltaLeads
  <2>4. OneOfEach(d)' /\ OfferIsRow(d)' /\ RequestFits(d)'
    BY <2>1, <2>2 DEF DeviceOK, OneOfEach, OfferIsRow, RequestFits
  <2>5. UserIsInstalled(d)' /\ DeltaLeads(d)' /\ DownloadIsServed(d)'
    BY <2>1, <2>3 DEF UserIsInstalled, DeltaLeads, DownloadIsServed
  <2>6. ByTarget(action[d]) =>
          /\ r.target = action[d].target
          /\ \A s \in installed[d] : action[d].target \in s.follows => s.seq <= r.seq
    <3> SUFFICES ASSUME ByTarget(action[d])
                 PROVE  r \in LatestReleased(action[d].entry, action[d].target)
      BY <2>1, NewestIsLast DEF LatestReleased
    <3>1. action[d].number = 0 /\ action[d].key = {}
      BY DEF ByTarget
    <3> QED BY <3>1 DEF Selection
  <2>7. OfferIsNewest(d)'
    BY <2>1, <2>6 DEF OfferIsNewest, ByTarget
  <2> QED BY <2>1, <2>4, <2>5, <2>7 DEF DeviceOK
<1>9. CASE LookUpUser(d)
  <2>1. PICK s \in installed[d] : \E u \in RowsNumbered(action[d].entry, s.seq) :
          user' = [user EXCEPT ![d] = {u}]
    BY <1>9 DEF LookUpUser
  <2> PICK u \in RowsNumbered(action[d].entry, s.seq) : user' = [user EXCEPT ![d] = {u}]
    BY <2>1
  <2>2. /\ user'[d] = {u}
        /\ at_gateway[d] = "user" /\ at_gateway'[d] \in {"pair", "answered"}
        /\ UNCHANGED <<action, offer, offeredDelta, got, installed>>
    BY <1>9 DEF LookUpUser
  <2>3. u \in rows /\ u.entry = s.entry /\ u.seq = s.seq
    BY <2>2 DEF RowsNumbered, RowsOf, DeviceOK, RequestFits
  <2>4. u.sha = s.content
    BY <2>3 DEF DeviceOK, HasServed, SInv, RowsMatchFiles
  <2>5. \A t \in installed[d] : u.sha = t.content
    BY <2>4 DEF DeviceOK, OneOfEach
  <2>6. UserIsInstalled(d)'
    BY <2>2, <2>3, <2>5 DEF UserIsInstalled
  <2>7. OneOfEach(d)' /\ OfferIsRow(d)' /\ RequestFits(d)'
    BY <2>2 DEF DeviceOK, OneOfEach, OfferIsRow, RequestFits
  <2>8. offeredDelta[d] = {}
    BY <2>2 DEF DeviceOK, DeltaLeads
  <2>9. DeltaLeads(d)' /\ DownloadIsServed(d)'
    BY <2>2, <2>8 DEF DeltaLeads, DownloadIsServed
  <2>10. OfferIsNewest(d)'
    BY <2>2 DEF DeviceOK, OfferIsNewest, ByTarget
  <2> QED BY <2>2, <2>6, <2>7, <2>9, <2>10 DEF DeviceOK
<1>10. CASE WithoutDelta(d)
  <2>1. /\ at_gateway[d] = "user" /\ at_gateway'[d] = "answered"
        /\ UNCHANGED <<action, offer, user, offeredDelta, got, installed>>
    BY <1>10 DEF WithoutDelta
  <2>2. OneOfEach(d)' /\ OfferIsRow(d)' /\ RequestFits(d)'
    BY <2>1 DEF DeviceOK, OneOfEach, OfferIsRow, RequestFits
  <2>3. UserIsInstalled(d)' /\ DeltaLeads(d)' /\ DownloadIsServed(d)'
    BY <2>1 DEF DeviceOK, UserIsInstalled, DeltaLeads, DownloadIsServed
  <2>4. OfferIsNewest(d)'
    BY <2>1 DEF DeviceOK, OfferIsNewest, ByTarget
  <2> QED BY <2>1, <2>2, <2>3, <2>4 DEF DeviceOK
<1>11. CASE LookUpDelta(d)
  <2>1. PICK u \in user[d], r \in offer[d] : \E x \in DeltasBetween(u, r) :
          offeredDelta' = [offeredDelta EXCEPT ![d] = {x}]
    BY <1>11 DEF LookUpDelta
  <2> PICK x \in DeltasBetween(u, r) : offeredDelta' = [offeredDelta EXCEPT ![d] = {x}]
    BY <2>1
  <2>2. /\ offeredDelta'[d] = {x} /\ x.source = u /\ x.target = r
        /\ at_gateway[d] = "pair" /\ at_gateway'[d] = "answered"
        /\ UNCHANGED <<action, offer, user, got, installed>>
    BY <1>11 DEF LookUpDelta, DeltasBetween
  <2>3. DeltaLeads(d)'
    BY <2>1, <2>2 DEF DeltaLeads
  <2>4. OneOfEach(d)' /\ OfferIsRow(d)' /\ RequestFits(d)'
    BY <2>2 DEF DeviceOK, OneOfEach, OfferIsRow, RequestFits
  <2>5. UserIsInstalled(d)' /\ DownloadIsServed(d)'
    BY <2>2 DEF DeviceOK, UserIsInstalled, DownloadIsServed
  <2>6. OfferIsNewest(d)'
    BY <2>2 DEF DeviceOK, OfferIsNewest, ByTarget
  <2> QED BY <2>2, <2>3, <2>4, <2>5, <2>6 DEF DeviceOK
<1>12. CASE RefuseRefresh(d) \/ CutShort(d)
  <2>1. Forget(d) /\ at_gateway'[d] = "idle" /\ UNCHANGED <<deltaVars, installed>>
    BY <1>12 DEF RefuseRefresh, CutShort
  <2>2. \A s, t \in installed'[d] : s = t
    BY <2>1 DEF DeviceOK, OneOfEach
  <2> QED BY <2>1, <2>2, RequestEnds
<1>13. CASE Download(d) \/ DownloadPatch(d)
  <2>1. /\ at_gateway[d] = "answered" /\ at_gateway'[d] = "downloaded"
        /\ UNCHANGED <<action, offer, user, offeredDelta, installed>>
    BY <1>13 DEF Download, DownloadPatch
  <2>2. \A r \in offer[d] :
           SnapPath(r.entry, r.seq) \in DOMAIN snaps /\ got'[d] = {r.sha}
    BY <1>13, DownloadServes DEF RInv
  <2>3. DownloadIsServed(d)'
    BY <2>1, <2>2 DEF DownloadIsServed, SnapPath
  <2>4. OneOfEach(d)' /\ OfferIsRow(d)' /\ RequestFits(d)'
    BY <2>1 DEF DeviceOK, OneOfEach, OfferIsRow, RequestFits
  <2>5. UserIsInstalled(d)' /\ DeltaLeads(d)'
    BY <2>1 DEF DeviceOK, UserIsInstalled, DeltaLeads
  <2>6. OfferIsNewest(d)'
    BY <2>1 DEF DeviceOK, OfferIsNewest, ByTarget
  <2> QED BY <2>1, <2>3, <2>4, <2>5, <2>6 DEF DeviceOK
<1>14. CASE Install(d)
  <2>1. /\ at_gateway[d] = "downloaded" /\ at_gateway'[d] = "idle" /\ Forget(d)
        /\ UNCHANGED deltaVars
    BY <1>14 DEF Install
  <2>2. PICK r \in offer[d] :
          installed' = [installed EXCEPT ![d] =
              IF got[d] = {r.sha}
              THEN {[entry |-> r.entry, seq |-> r.seq, content |-> r.sha,
                     follows |-> {t \in {action[d].target} : ByTarget(action[d])}]}
              ELSE @]
    BY <1>14 DEF Install
  <2> DEFINE new == [entry |-> r.entry, seq |-> r.seq, content |-> r.sha,
                     follows |-> {t \in {action[d].target} : ByTarget(action[d])}]
  <2>3. installed'[d] = installed[d] \/ installed'[d] = {new}
    BY <2>2
  <2>4. \A s, t \in installed'[d] : s = t
    BY <2>3 DEF DeviceOK, OneOfEach
  <2>5. CASE installed'[d] = installed[d]
    <3>1. HasServed(d)'
      BY <2>5 DEF DeviceOK, HasServed, SnapPath
    <3>2. FollowsReleased(d)'
      BY <2>5 DEF DeviceOK, FollowsReleased
    <3> QED BY <2>1, <2>4, <3>1, <3>2, RequestEnds
  <2>6. CASE installed'[d] = {new}
    <3>1. r \in RowsOf(action[d].entry)
      BY DEF DeviceOK, OfferIsRow
    <3>2. SnapPath(r.entry, r.seq) \in DOMAIN snaps
      BY <2>1 DEF DeviceOK, DownloadIsServed
    <3>3. snaps[SnapPath(r.entry, r.seq)] = r.sha
      BY <3>1, <3>2 DEF RowsOf, SInv, RowsMatchFiles
    <3>4. new.entry = r.entry /\ new.seq = r.seq /\ new.content = r.sha
      OBVIOUS
    <3>5. \A t \in new.follows : r.target = t
      BY <2>1 DEF DeviceOK, OfferIsNewest
    <3>6. r \in RowsOf(r.entry)
      BY <3>1 DEF RowsOf
    <3> HIDE DEF new
    <3>7. HasServed(d)'
      BY <2>6, <3>2, <3>3, <3>4 DEF HasServed, SnapPath
    <3>8. FollowsReleased(d)'
      BY <2>6, <3>4, <3>5, <3>6 DEF FollowsReleased
    <3> QED BY <2>1, <2>4, <3>7, <3>8, RequestEnds
  <2> QED BY <2>3, <2>5, <2>6
<1> QED
  BY <1>6, <1>7, <1>8, <1>9, <1>10, <1>11, <1>12, <1>13, <1>14 DEF DeviceStep

LEMMA RInvStep ==
  ASSUME IInv, SInv, IInv', RInv, [RefreshNext]_refreshVars, [DeltaNext]_deltaVars,
         [Next]_vars
  PROVE  RInv'
<1>1. RefreshTypeOK'
  BY RefreshTypeStep DEF IInv, SInv, RInv
<1>2. LogIsOfRows' /\ DeltaTargetsServed'
  BY LogIsOfRowsStep, DeltaTargetsServedStep, RowsStay DEF IInv, RInv
<1>3. ASSUME NEW d \in Devices PROVE DeviceOK(d)'
  <2>1. CASE UNCHANGED devices
    BY <2>1, StoresGrow DEF RInv, devices
  <2>2. CASE DeviceStep(d)
    BY <2>2, DeviceKeeps
  <2>3. ASSUME NEW f \in Devices, f # d, DeviceStep(f) PROVE DeviceOK(d)'
    BY <2>3, DeviceFrame, StoresGrow DEF RInv
  <2> QED BY <2>1, <2>2, <2>3, DeviceOrNot
<1> QED BY <1>1, <1>2, <1>3 DEF RInv

-----------------------------------------------------------------------------
\* With the invariants of serialised pushes, and of pushes of deltas.
LEMMA RefreshInvariance ==
  ASSUME TargetsAreGiven
  PROVE  RefreshSerialSpec => [](IInv /\ SInv /\ DInv /\ RInv)
<1>1. RefreshInit => IInv /\ SInv /\ DInv /\ RInv
  BY IInvInitially, SerialInit, DInvInitially, RInvInitially DEF RefreshInit, DeltaInit
<1>2. IInv /\ SInv /\ DInv /\ RInv /\ [RefreshNext /\ Serialised']_refreshVars
      => (IInv /\ SInv /\ DInv /\ RInv)'
  <2> SUFFICES ASSUME IInv, SInv, DInv, RInv, [RefreshNext /\ Serialised']_refreshVars
               PROVE  IInv' /\ SInv' /\ DInv' /\ RInv'
    OBVIOUS
  <2>1. [DeltaNext /\ Serialised']_deltaVars /\ [RefreshNext]_refreshVars
    BY RefreshIsDeltaPush
  <2>2. IInv' /\ SInv' /\ DInv'
    BY <2>1, DeltaInvStep
  <2>3. [DeltaNext]_deltaVars /\ [Next]_vars
    BY <2>1, DeltaIsPublishing DEF DInv
  <2>4. RInv'
    BY <2>1, <2>2, <2>3, RInvStep
  <2> QED BY <2>2, <2>4
<1> QED BY <1>1, <1>2, PTL DEF RefreshSerialSpec

\* Every variable keeps its type.
THEOREM RefreshTypeCorrect ==
  ASSUME TargetsAreGiven PROVE RefreshSerialSpec => []RefreshTypeOK
BY RefreshInvariance, PTL DEF RInv

\* A device gets the bytes whose digest was announced to it.
THEOREM DownloadsAreAnnounced ==
  ASSUME TargetsAreGiven PROVE RefreshSerialSpec => []DownloadIsAnnounced
<1>1. RInv => DownloadIsAnnounced
  BY DEF RInv, DeviceOK, DownloadIsServed, DownloadIsAnnounced
<1> QED BY <1>1, RefreshInvariance, PTL

\* An offered delta is stored, and leads from what the device has to what is
\* announced.
THEOREM OfferedDeltasLead ==
  ASSUME TargetsAreGiven PROVE RefreshSerialSpec => []OfferedDeltaLeads
<1>1. ASSUME IInv, SInv, RInv,
             NEW d \in Devices, NEW x \in offeredDelta[d], NEW r \in offer[d],
             NEW s \in installed[d]
      PROVE  DeltaURL(x) \in DOMAIN deltas /\ deltas[DeltaURL(x)] = <<s.content, r.sha>>
  <2>1. DeviceOK(d) /\ x \in deltaRows
    BY <1>1 DEF RInv, RefreshTypeOK
  <2>2. x.target = r /\ x.source.sha = s.content
    BY <1>1, <2>1 DEF DeviceOK, OneOfEach, DeltaLeads, UserIsInstalled
  <2>3. /\ DeltaURL(x) \in DOMAIN deltas
        /\ deltas[DeltaURL(x)] = <<x.source.sha, x.target.sha>>
    BY <1>1, <2>1, RecordedIsStored DEF IInv, SInv
  <2> QED BY <2>2, <2>3
<1>2. IInv /\ SInv /\ RInv => OfferedDeltaLeads
  BY <1>1 DEF OfferedDeltaLeads
<1> QED BY <1>2, RefreshInvariance, PTL

\* What a device has is what the store serves under its number.
THEOREM InstalledStaysServed ==
  ASSUME TargetsAreGiven PROVE RefreshSerialSpec => []InstalledIsServed
<1>1. RInv => InstalledIsServed
  BY DEF RInv, DeviceOK, HasServed, InstalledIsServed
<1> QED BY <1>1, RefreshInvariance, PTL

\* A device that follows a channel never goes back.
THEOREM DevicesGoForward ==
  ASSUME TargetsAreGiven PROVE RefreshSerialSpec => NeverDowngraded
<1> DEFINE Forward ==
      \A d \in Devices : \A s \in installed[d], t \in installed'[d] :
          s.follows = t.follows /\ s.follows # {} => s.seq <= t.seq
<1>1. ASSUME TypeOK, RInv, [RefreshNext]_refreshVars,
             NEW d \in Devices, NEW s \in installed[d], NEW t \in installed'[d],
             s.follows = t.follows, s.follows # {}
      PROVE  s.seq <= t.seq
  <2>1. DeviceOK(d) /\ s.seq \in Nat /\ DOMAIN installed = Devices
    BY <1>1 DEF RInv, RefreshTypeOK, Installed, Sequence
  <2>2. CASE installed'[d] = installed[d]
    BY <1>1, <2>1, <2>2 DEF DeviceOK, OneOfEach
  <2>3. CASE installed'[d] # installed[d]
    <3>1. DeviceStep(d)
      BY <1>1, <2>3, DeviceOrNot, DeviceFrame DEF RInv, devices
    <3>2. Install(d)
      BY <2>3, <3>1 DEF DeviceStep, SendAction, LookUpRelease, Select, LookUpUser,
         WithoutDelta, LookUpDelta, RefuseRefresh, Download, DownloadPatch, CutShort
    <3>3. PICK r \in offer[d] :
            installed'[d] = {[entry |-> r.entry, seq |-> r.seq, content |-> r.sha,
              follows |-> {g \in {action[d].target} : ByTarget(action[d])}]}
      BY <2>1, <2>3, <3>2 DEF Install
    <3>4. /\ t.seq = r.seq
          /\ t.follows = {g \in {action[d].target} : ByTarget(action[d])}
      BY <1>1, <3>3
    <3>5. ByTarget(action[d]) /\ action[d].target \in s.follows
      BY <1>1, <3>4
    <3>6. at_gateway[d] = "downloaded"
      BY <3>2 DEF Install, Pass
    <3> QED BY <2>1, <3>4, <3>5, <3>6 DEF DeviceOK, OfferIsNewest
  <2> QED BY <2>2, <2>3
<1>2. IInv /\ RInv /\ [RefreshNext /\ Serialised']_refreshVars => [Forward]_refreshVars
  BY <1>1 DEF IInv
<1> QED BY <1>2, RefreshInvariance, PTL DEF RefreshSerialSpec, NeverDowngraded

\* The milestone of a key is not of the future.
LEMMA MilestonePassed ==
  ASSUME NEW created \in Nat, NEW now \in Nat, created <= now
  PROVE  Milestone(created, now) \in Nat /\ Milestone(created, now) <= now
<1> DEFINE a == now - created
<1>1. a \in Nat /\ created + a = now
  OBVIOUS
<1> HIDE DEF a
<1>2. (a \div Window) * Window <= a /\ a \div Window \in Nat
  BY <1>1, RefreshAssumption
<1>3. (a \div Window) * Window \in Nat
  BY <1>2, RefreshAssumption
<1> DEFINE b == (a \div Window) * Window
<1>4. Milestone(created, now) = created + b
  BY DEF Milestone, a
<1> HIDE DEF b
<1>5. b \in Nat /\ b <= a
  BY <1>2, <1>3 DEF b
<1> QED BY <1>1, <1>4, <1>5

\* A row that is logged now is not before a date that has passed.
LEMMA LatestBeforeStays ==
  ASSUME TypeOK', RefreshTypeOK, [RefreshNext]_refreshVars,
         NEW e, NEW date \in Nat, date <= clock
  PROVE  LatestBefore(e, date)' = LatestBefore(e, date)
<1>1. CASE UNCHANGED log
  BY <1>1 DEF LatestBefore
<1>2. CASE /\ DOMAIN log' = DOMAIN log \cup {Len(log) + 1}
           /\ \A i \in DOMAIN log : log'[i] = log[i]
           /\ log'[Len(log) + 1].at = clock
  <2> DEFINE Older(l) == {i \in DOMAIN l : l[i].row.entry = e /\ l[i].at < date}
  <2>1. clock \in Nat /\ ~(clock < date)
    BY DEF RefreshTypeOK
  <2>2. Older(log') = Older(log)
    BY <1>2, <2>1
  <2>3. \A i \in Older(log) : log'[i].row = log[i].row
    BY <1>2
  <2>4. LatestBefore(e, date) =
          {log[i].row : i \in {i \in Older(log) : \A j \in Older(log) : j <= i}}
    BY DEF LatestBefore
  <2>5. LatestBefore(e, date)' =
          {log'[i].row : i \in {i \in Older(log') : \A j \in Older(log') : j <= i}}
    BY DEF LatestBefore
  <2> HIDE DEF Older
  <2> QED BY <2>2, <2>3, <2>4, <2>5
<1> QED
  BY <1>1, <1>2, PublishLogs
  DEF RefreshNext, Tick, CreateCohorts, DeviceStep, SendAction, LookUpRelease, Select,
      LookUpUser, WithoutDelta, LookUpDelta, RefuseRefresh, Download, DownloadPatch,
      CutShort, Install, refreshVars, catalogue

\* A cohort key selects one revision for the whole of a window.
THEOREM CohortsStayTogether ==
  ASSUME TargetsAreGiven PROVE RefreshSerialSpec => CohortKeepsRevision
<1> DEFINE Together ==
      \A k \in keys :
          Milestone(k.created, clock') = Milestone(k.created, clock) =>
            LatestBefore(k.entry, Milestone(k.created, clock))'
              = LatestBefore(k.entry, Milestone(k.created, clock))
<1>1. ASSUME RInv, IInv', [RefreshNext]_refreshVars PROVE Together
  <2> SUFFICES ASSUME NEW k \in keys,
                      Milestone(k.created, clock') = Milestone(k.created, clock)
               PROVE  LatestBefore(k.entry, Milestone(k.created, clock))'
                        = LatestBefore(k.entry, Milestone(k.created, clock))
    OBVIOUS
  <2>1. k.created \in Nat /\ clock \in Nat /\ k.created <= clock
    BY <1>1 DEF RInv, RefreshTypeOK, CohortKey, LogIsOfRows
  <2>2. PICK date \in Nat : date = Milestone(k.created, clock) /\ date <= clock
    BY <2>1, MilestonePassed
  <2>3. LatestBefore(k.entry, date)' = LatestBefore(k.entry, date)
    BY <1>1, <2>2, LatestBeforeStays DEF IInv, RInv
  <2>4. Milestone(k.created, clock)' = date
    BY <2>2 DEF Milestone
  <2> QED BY <2>2, <2>3, <2>4 DEF LatestBefore
<1>2. IInv /\ IInv' /\ RInv /\ [RefreshNext /\ Serialised']_refreshVars
      => [Together]_refreshVars
  BY <1>1
<1> QED BY <1>2, RefreshInvariance, PTL DEF RefreshSerialSpec, CohortKeepsRevision

-----------------------------------------------------------------------------
(* Devices and cohorts only read what pushes write. *)

\* What holds of pushes of deltas holds while devices refresh.
THEOREM RefreshImplementsDeltaPushes == RefreshSerialSpec => DeltaSerialSpec
<1>1. RefreshInit => DeltaInit
  BY DEF RefreshInit
<1>2. [RefreshNext /\ Serialised']_refreshVars => [DeltaNext /\ Serialised']_deltaVars
  BY RefreshIsDeltaPush
<1> QED BY <1>1, <1>2, PTL DEF RefreshSerialSpec, DeltaSerialSpec

\* The files that devices download are in an archive that is never overwritten
\* and grows upwards.
THEOREM DevicesReadAnArchive ==
  ASSUME TargetsAreGiven PROVE RefreshSerialSpec => PublishesAnArchive
BY RefreshImplementsDeltaPushes, DeltaPushesFillTheArchive
=============================================================================
