------------------------------ MODULE Refresh ------------------------------
(***************************************************************************)
(* How devices install and refresh snaps while revisions are published.    *)
(*                                                                         *)
(* The gateway answers a refresh action from several calls of the store:   *)
(* it selects a revision by channel, by number or by cohort key, looks up  *)
(* the one the device has, and looks for a delta between the two rows.     *)
(* The device then downloads a whole file or a delta by the URL in the     *)
(* answer.  Each call is a step that reads the stores as the pushes of     *)
(* DeltaPush have left them at that moment.                                *)
(***************************************************************************)
EXTENDS DeltaPush

CONSTANTS
    Devices,        \* running snapd
    Wanted,         \* targets a device may follow
    Window,         \* ninety days, in ticks of the clock
    MaxTime,        \* bound on the clock
    MaxKeys         \* bound on the cohort keys that are made

ASSUME RefreshAssumption ==
    /\ Wanted \subseteq Targets /\ Wanted # {}
    /\ Window \in Nat \ {0} /\ MaxTime \in Nat /\ MaxKeys \in Nat

VARIABLES
    clock,          \* the time, of the gateway and of PostgreSQL
    log,            \* created_at of the revision rows, in the order of insertion
    keys,           \* cohort keys: the snap and the time of their creation
    at_gateway,     \* where the request of each device is
    action,         \* the refresh action of the request
    offer,          \* the selected revision: {} before it is found
    user,           \* the row of the revision the device says it has
    offeredDelta,   \* the row of the delta in the answer
    got,            \* what the device downloaded, applied when it is a delta
    installed       \* what the device has

catalogue == <<clock, log, keys>>
devices == <<at_gateway, action, offer, user, offeredDelta, got, installed>>
refreshVars == <<deltaVars, catalogue, devices>>

-----------------------------------------------------------------------------
CohortKey == [entry : Entries, created : 0..MaxTime]

\* A revision is asked for by a cohort key, a number or else by the target.
Action == [kind : {"install", "refresh"}, entry : Entries, target : Wanted,
           number : 0..MaxSequence, key : SUBSET CohortKey]

\* follows is the target of a revision that was selected by it, {} otherwise.
Installed == [entry : Entries, seq : Sequence, content : Contents,
              follows : SUBSET Wanted]

\* getMostRecent90DayMilestone: the last whole window since the creation.
Milestone(created, now) == created + ((now - created) \div Window) * Window

\* Faulty variant: rows created at the date are included.
LatestUntil(e, date) ==
    LET older == {i \in DOMAIN log : log[i].row.entry = e /\ log[i].at <= date}
    IN  {log[i].row : i \in {i \in older : \A j \in older : j <= i}}

\* GetLatestRevisionBeforeDateById: the row of the snap that was created last
\* before the date, on whatever target.
LatestBefore(e, date) ==
    LET older == {i \in DOMAIN log : log[i].row.entry = e /\ log[i].at < date}
    IN  {log[i].row : i \in {i \in older : \A j \in older : j <= i}}

\* The revisions that the look-up of a request may return.
Selection(a) ==
    IF a.key # {}
    THEN UNION {LatestBefore(k.entry, Milestone(k.created, clock)) :
                   k \in {k \in a.key : k.entry = a.entry}}
    ELSE IF a.number > 0 THEN RowsNumbered(a.entry, a.number)
    ELSE LatestReleased(a.entry, a.target)

\* The URL of a delta names the snap and the two numbers.
DeltaURL(x) == DeltaPath(x.target.entry, x.source.seq, x.target.seq)

ByTarget(a) == a.key = {} /\ a.number = 0

Pass(d, from, to) ==
    at_gateway[d] = from /\ at_gateway' = [at_gateway EXCEPT ![d] = to]

\* The variables of a request go out of scope at its end.
Forget(d) ==
    /\ action' = [action EXCEPT ![d] = CHOOSE a \in Action : TRUE]
    /\ offer' = [offer EXCEPT ![d] = {}]
    /\ user' = [user EXCEPT ![d] = {}]
    /\ offeredDelta' = [offeredDelta EXCEPT ![d] = {}]
    /\ got' = [got EXCEPT ![d] = {}]

-----------------------------------------------------------------------------
RefreshInit ==
    /\ DeltaInit
    /\ clock = 0 /\ log = << >> /\ keys = {}
    /\ at_gateway = [d \in Devices |-> "idle"]
    /\ action = [d \in Devices |-> CHOOSE a \in Action : TRUE]
    /\ offer = [d \in Devices |-> {}]
    /\ user = [d \in Devices |-> {}]
    /\ offeredDelta = [d \in Devices |-> {}]
    /\ got = [d \in Devices |-> {}]
    /\ installed = [d \in Devices |-> {}]

\* A step of a push; the row it inserts, if any, gets the time as created_at.
Publish ==
    /\ DeltaNext
    /\ log' = IF rows' \subseteq rows THEN log
              ELSE Append(log, [row |-> CHOOSE r \in rows' \ rows : TRUE, at |-> clock])
    /\ UNCHANGED <<clock, keys, devices>>

Tick ==
    /\ clock < MaxTime
    /\ clock' = clock + 1
    /\ UNCHANGED <<deltaVars, log, keys, devices>>

\* CreateCohorts: for each snap a key that names it and the time.  The signature
\* covers its version and the snap; keys are presented with the time they were
\* issued with.
CreateCohorts(names) ==
    /\ Cardinality(keys) + Cardinality(names) <= MaxKeys
    /\ keys' = keys \cup {[entry |-> e, created |-> clock] : e \in names}
    /\ UNCHANGED <<deltaVars, clock, log, devices>>

\* A device sends an action; one that has the snap refreshes it.
SendAction(d, a) ==
    /\ a.key \subseteq keys /\ Cardinality(a.key) <= 1
    /\ \/ /\ a.kind = "install" /\ installed[d] = {}
          /\ Pass(d, "idle", "released")
       \/ /\ a.kind = "refresh"
          /\ \E s \in installed[d] : s.entry = a.entry
          /\ Pass(d, "idle", "select")
    /\ action' = [action EXCEPT ![d] = a]
    /\ UNCHANGED <<deltaVars, catalogue, offer, user, offeredDelta, got, installed>>

\* An install looks for a release on the channel first, also when it goes on
\* to ask for a cohort or a number.
LookUpRelease(d) ==
    /\ LET a == action[d] IN
       \E r \in LatestReleased(a.entry, a.target) :
          /\ Pass(d, "released",
                  IF a.key # {} \/ a.number > 0 THEN "select" ELSE "answered")
          /\ offer' = [offer EXCEPT ![d] = {r}]
    /\ UNCHANGED <<deltaVars, catalogue, action, user, offeredDelta, got, installed>>

\* The revision of the cohort, of the number or of the channel.
Select(d) ==
    /\ Pass(d, "select", IF action[d].kind = "install" THEN "answered" ELSE "user")
    /\ \E r \in Selection(action[d]) : offer' = [offer EXCEPT ![d] = {r}]
    /\ UNCHANGED <<deltaVars, catalogue, action, user, offeredDelta, got, installed>>

\* The row of the revision that the device says it has.  Deltas are looked for
\* only when the selected one is the next; the uint32 difference wraps for a
\* device that is ahead, and is 1 for no other pair of numbers above 0.
LookUpUser(d) ==
    /\ \E s \in installed[d], r \in offer[d] :
       \E u \in RowsNumbered(action[d].entry, s.seq) :
          /\ Pass(d, "user", IF r.seq = u.seq + 1 THEN "pair" ELSE "answered")
          /\ user' = [user EXCEPT ![d] = {u}]
    /\ UNCHANGED <<deltaVars, catalogue, action, offer, offeredDelta, got, installed>>

\* A device that does not accept xdelta3 is offered no delta.
WithoutDelta(d) ==
    /\ Pass(d, "user", "answered")
    /\ UNCHANGED <<deltaVars, catalogue, action, offer, user, offeredDelta, got, installed>>

LookUpDelta(d) ==
    /\ Pass(d, "pair", "answered")
    /\ \E u \in user[d], r \in offer[d] : \E x \in DeltasBetween(u, r) :
          offeredDelta' = [offeredDelta EXCEPT ![d] = {x}]
    /\ UNCHANGED <<deltaVars, catalogue, action, offer, user, got, installed>>

\* A look-up finds nothing, or its call fails: so does the whole request, also
\* when it is only the delta that is missing.
RefuseRefresh(d) ==
    /\ \E stage \in {"released", "select", "user", "pair"} : Pass(d, stage, "idle")
    /\ Forget(d)
    /\ UNCHANGED <<deltaVars, catalogue, installed>>

\* Faulty variant: the download is named by the snap alone, and is its latest.
DownloadLatest(d) ==
    /\ \E r \in offer[d] : \E s \in UNION Latest(r.entry) :
          /\ SnapPath(s.entry, s.seq) \in DOMAIN snaps
          /\ got' = [got EXCEPT ![d] = {snaps[SnapPath(s.entry, s.seq)]}]
    /\ Pass(d, "answered", "downloaded")
    /\ UNCHANGED <<deltaVars, catalogue, action, offer, user, offeredDelta, installed>>

\* DownloadSnap finds the row by its id and reads the file of its number.
Download(d) ==
    /\ \E r \in offer[d] :
          /\ SnapPath(r.entry, r.seq) \in DOMAIN snaps
          /\ got' = [got EXCEPT ![d] = {snaps[SnapPath(r.entry, r.seq)]}]
    /\ Pass(d, "answered", "downloaded")
    /\ UNCHANGED <<deltaVars, catalogue, action, offer, user, offeredDelta, installed>>

\* The file is not there yet, or the stream breaks: the response, whose status
\* was sent before the first byte, ends early, and the device gives up.
CutShort(d) ==
    /\ Pass(d, "answered", "idle")
    /\ Forget(d)
    /\ UNCHANGED <<deltaVars, catalogue, installed>>

\* DownloadDelta finds the row of the delta by its path and reads the file; the
\* device applies it to what it has.
DownloadPatch(d) ==
    /\ \E x \in offeredDelta[d], s \in installed[d] :
          /\ DeltaURL(x) \in DOMAIN deltas
          /\ deltas[DeltaURL(x)][1] = s.content
          /\ got' = [got EXCEPT ![d] = {deltas[DeltaURL(x)][2]}]
    /\ Pass(d, "answered", "downloaded")
    /\ UNCHANGED <<deltaVars, catalogue, action, offer, user, offeredDelta, installed>>

\* The device installs what has the announced digest, or gives up.
Install(d) ==
    /\ Pass(d, "downloaded", "idle")
    /\ \E r \in offer[d] :
          installed' = [installed EXCEPT ![d] =
              IF got[d] = {r.sha}
              THEN {[entry |-> r.entry, seq |-> r.seq, content |-> r.sha,
                     follows |-> {t \in {action[d].target} : ByTarget(action[d])}]}
              ELSE @]
    /\ Forget(d)
    /\ UNCHANGED <<deltaVars, catalogue>>

DeviceStep(d) ==
    \/ \E a \in Action : SendAction(d, a)
    \/ LookUpRelease(d) \/ Select(d) \/ LookUpUser(d) \/ WithoutDelta(d)
    \/ LookUpDelta(d) \/ RefuseRefresh(d)
    \/ Download(d) \/ DownloadPatch(d) \/ CutShort(d) \/ Install(d)

RefreshNext ==
    \/ Publish \/ Tick
    \/ \E names \in SUBSET Entries : CreateCohorts(names)
    \/ \E d \in Devices : DeviceStep(d)

RefreshSpec == RefreshInit /\ [][RefreshNext]_refreshVars

RefreshSerialSpec == RefreshInit /\ [][RefreshNext /\ Serialised']_refreshVars
-----------------------------------------------------------------------------
Stages == {"idle", "released", "select", "user", "pair", "answered", "downloaded"}

\* The type of the variables of delta pushes, readers and the clock.
RefreshTypeOK ==
    /\ DeltaTypeOK
    /\ clock \in 0..MaxTime
    /\ log \in Seq([row : RevisionRow, at : 0..MaxTime])
    /\ keys \subseteq CohortKey
    /\ at_gateway \in [Devices -> Stages]
    /\ action \in [Devices -> Action]
    /\ offer \in [Devices -> SUBSET RevisionRow]
    /\ user \in [Devices -> SUBSET RevisionRow]
    /\ offeredDelta \in [Devices -> SUBSET deltaRows]
    /\ got \in [Devices -> SUBSET Contents]
    /\ installed \in [Devices -> SUBSET Installed]

\* Whatever was published between the answer and the download, the bytes a
\* device gets, as a file or as a delta, are those whose digest was announced.
DownloadIsAnnounced ==
    \A d \in Devices : at_gateway[d] = "downloaded" =>
        \A r \in offer[d] : got[d] = {r.sha}

\* An offered delta is stored under its URL, and leads from what the device has
\* to what the answer announces.
OfferedDeltaLeads ==
    \A d \in Devices : at_gateway[d] = "answered" =>
        \A x \in offeredDelta[d], r \in offer[d], s \in installed[d] :
            /\ DeltaURL(x) \in DOMAIN deltas
            /\ deltas[DeltaURL(x)] = <<s.content, r.sha>>

\* What a device has is what the store serves under that number, then and
\* ever after.
InstalledIsServed ==
    \A d \in Devices : \A s \in installed[d] :
        /\ SnapPath(s.entry, s.seq) \in DOMAIN snaps
        /\ snaps[SnapPath(s.entry, s.seq)] = s.content

\* A device that follows a channel never goes back to an earlier revision.
NeverDowngraded ==
    [][\A d \in Devices : \A s \in installed[d], t \in installed'[d] :
          s.follows = t.follows /\ s.follows # {} => s.seq <= t.seq]_refreshVars

\* Until the next window of ninety days begins, a cohort key selects the same
\* revision for every device, whatever is published meanwhile, presented with
\* the time it was issued with.
CohortKeepsRevision ==
    [][\A k \in keys :
          Milestone(k.created, clock') = Milestone(k.created, clock) =>
            LatestBefore(k.entry, Milestone(k.created, clock))'
              = LatestBefore(k.entry, Milestone(k.created, clock))]_refreshVars

=============================================================================
