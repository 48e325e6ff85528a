------------------------ MODULE RegistrationProofs ------------------------
(* Proofs about Registration, for any calls, names and accounts. *)
EXTENDS Registration, TLAPS

\* A call under way has channels left to add.
ChannelsLeft ==
    \A c \in Calls :
        pc[c] \in Running \cup {"none"} => added[c] < Len(DefaultChannels)

LEMMA FourChannels == Len(DefaultChannels) = 4
BY DEF DefaultChannels

\* The errors that the statements of a registration end with.
LEMMA ErrorsAreCodes ==
  /\ ConvertError("no rows") \in Codes
  /\ ConvertError("unique violation") \in Codes
  /\ \A error \in Failures : ConvertError(error) \in Codes
  /\ NoReply \in Seq(Codes)
<1>1. /\ ConvertError("no rows") = "resource-not-found"
      /\ ConvertError("unique violation") = "already-registered"
      /\ ConvertError("other refusal") = "database-error"
      /\ ConvertError("no connection") = "internal-server-error"
  BY DEF ConvertError, PqErrors, MongoErrors, handlePqError
<1>2. \A error \in Failures : error = "other refusal" \/ error = "no connection"
  BY DEF Failures
<1>3. {"resource-not-found", "already-registered", "database-error",
       "internal-server-error"} \subseteq Codes
  BY DEF Codes
<1>4. \A error \in Failures : ConvertError(error) \in Codes
  BY <1>1, <1>2, <1>3
<1>5. NoReply \in Seq(Codes)
  BY <1>3 DEF NoReply
<1> QED BY <1>1, <1>3, <1>4, <1>5

LEMMA TypeInitially == Init => TypeOK /\ ChannelsLeft
<1> SUFFICES ASSUME Init PROVE TypeOK /\ ChannelsLeft
  OBVIOUS
<1>1. (CHOOSE r \in Request : TRUE) \in Request
  <2>1. PICK n \in Names, a \in Accounts : TRUE
    BY RegistrationAssumption
  <2>2. [name |-> n, account |-> a, dryRun |-> TRUE] \in Request
    BY DEF Request
  <2> QED BY <2>2
<1>2. DOMAIN entries = {}
  BY DEF Init
<1> QED BY <1>1, <1>2, FourChannels DEF Init, TypeOK, ChannelsLeft

LEMMA TypeStep ==
  ASSUME TypeOK, ChannelsLeft, [Next]_vars
  PROVE  TypeOK' /\ ChannelsLeft'
<1> DEFINE Good == TypeOK /\ ChannelsLeft
<1> USE DEF TypeOK, ChannelsLeft, tables, Goto, Running
<1>0. ASSUME NEW c \in Calls, NEW code \in Codes, Say(c, code)
      PROVE  errors' \in [Calls -> Seq(Codes)]
  BY <1>0 DEF Say
<1>1. ASSUME NEW c \in Calls, NEW req \in Request, Call(c, req) PROVE Good'
  BY <1>1 DEF Call
<1>2. ASSUME NEW c \in Calls, NameFound(c) PROVE Good'
  <2>1. errors' \in [Calls -> Seq(Codes)]
    BY <1>0, <1>2 DEF NameFound, Codes
  <2>2. UNCHANGED <<tables, request, added>>
    BY <1>2 DEF NameFound
  <2>3. \E answer \in Answers : pc' = [pc EXCEPT ![c] = answer]
    BY <1>2 DEF NameFound, Answers
  <2> QED BY <2>1, <2>2, <2>3 DEF Answers
<1>3. ASSUME NEW c \in Calls, NameNotFound(c) PROVE Good'
  BY <1>0, <1>3, ErrorsAreCodes DEF NameNotFound, Answers
<1>4. ASSUME NEW c \in Calls, RegisterSnap(c) PROVE Good'
  <2>1. NameOf(c) \in Names /\ request[c].account \in Accounts
    BY DEF NameOf, Request
  <2>2. CASE NameOf(c) \notin DOMAIN entries
    BY <1>4, <2>1, <2>2 DEF RegisterSnap
  <2>3. CASE NameOf(c) \in DOMAIN entries
    BY <1>0, <1>4, <2>3, ErrorsAreCodes DEF RegisterSnap, Answers
  <2> QED BY <2>2, <2>3
<1>5. ASSUME NEW c \in Calls, AddTrack(c) PROVE Good'
  BY <1>5 DEF AddTrack, NameOf, Request
<1>6. ASSUME NEW c \in Calls, AddChannel(c) PROVE Good'
  <2>1. added[c] + 1 \in 1..4 /\ DefaultChannels[added[c] + 1] \in ChannelNames
    BY <1>6, FourChannels DEF AddChannel, ChannelNames
  <2>2. CASE added[c] + 1 = 4
    BY <1>6, <2>1, <2>2, FourChannels
    DEF AddChannel, NameOf, Request, Answers
  <2>3. CASE added[c] + 1 # 4
    BY <1>6, <2>1, <2>3, FourChannels
    DEF AddChannel, NameOf, Request
  <2> QED BY <2>2, <2>3
<1>7. ASSUME NEW c \in Calls, Fail(c) PROVE Good'
  BY <1>0, <1>7, ErrorsAreCodes DEF Fail, Answers
<1>8. ASSUME NEW c \in Calls, StoreStops(c) PROVE Good'
  BY <1>8, ErrorsAreCodes DEF StoreStops, Answers
<1>9. CASE UNCHANGED vars
  BY <1>9 DEF vars
<1> QED
  BY <1>1, <1>2, <1>3, <1>4, <1>5, <1>6, <1>7, <1>8, <1>9 DEF Next, Step

\* Every variable keeps its type.
THEOREM TypeCorrect == Spec => []TypeOK
BY TypeInitially, TypeStep, PTL DEF Spec

-----------------------------------------------------------------------------
(* The call that inserts the entry of a name is the only one to add to it. *)

Inserted == {"track", "channel", "registered"}

\* A call past its insertion owns the name, alone.
OwnsAlone ==
    \A c \in Calls : pc[c] \in Inserted =>
        /\ NameOf(c) \in DOMAIN entries /\ entries[NameOf(c)] = request[c].account
        /\ \A d \in Calls : pc[d] \in Inserted /\ NameOf(c) = NameOf(d) => c = d

\* Tracks and channels belong to names that were inserted, and those of the
\* name of such a call to that call.
RowsAreOwn ==
    /\ \A row \in tracks : row[1] \in DOMAIN entries
    /\ \A row \in channels : row[1] \in DOMAIN entries
    /\ \A c \in Calls : pc[c] \in Inserted =>
          /\ \A row \in tracks : row[1] = NameOf(c) => row[2] = c
          /\ \A row \in channels : row[1] = NameOf(c) => row[3] = c

\* The rows a call has inserted by now.
RowsAreThere ==
    \A c \in Calls :
        /\ pc[c] \in {"channel", "registered"} => <<NameOf(c), c>> \in tracks
        /\ pc[c] = "track" => added[c] = 0
        /\ pc[c] \in Inserted =>
              \A i \in 1..added[c] : <<NameOf(c), DefaultChannels[i], c>> \in channels
        /\ pc[c] = "registered" => added[c] = Len(DefaultChannels)
        /\ pc[c] \in {"none", "check", "insert"} => added[c] = 0

\* A dry run never comes to the insertion.
DryRunsOnlyLook ==
    \A c \in Calls : request[c].dryRun => pc[c] \notin {"insert"} \cup Inserted

IInv == /\ TypeOK /\ ChannelsLeft /\ OwnsAlone /\ RowsAreOwn /\ RowsAreThere
        /\ DryRunsOnlyLook /\ BrokenNamesAreReported

\* A step of a call moves that call on and touches no other.
LEMMA StepFrame ==
  ASSUME TypeOK, NEW c \in Calls, Step(c)
  PROVE  /\ request' = request /\ pc[c] \in Running
         /\ \A d \in Calls : d # c => pc'[d] = pc[d] /\ added'[d] = added[d]
         /\ \A d \in Calls : NameOf(d)' = NameOf(d)
         /\ \/ /\ RegisterSnap(c) /\ NameOf(c) \notin DOMAIN entries
               /\ pc[c] = "insert" /\ pc'[c] = "track"
            \/ AddTrack(c) /\ pc[c] = "track" /\ pc'[c] = "channel"
            \/ /\ AddChannel(c) /\ pc[c] = "channel"
               /\ pc'[c] \in {"channel", "registered"}
            \/ UNCHANGED tables /\ pc'[c] \notin Inserted /\ UNCHANGED added
<1> USE DEF TypeOK, Goto, NameOf, Running
<1>1. CASE NameFound(c)
  <2>1. pc[c] = "check" /\ pc' \in {[pc EXCEPT ![c] = "taken"], [pc EXCEPT ![c] = "refused"]}
    BY <1>1 DEF NameFound
  <2> QED BY <1>1, <2>1 DEF NameFound, Inserted
<1>2. CASE NameNotFound(c)
  BY <1>2 DEF NameNotFound, Inserted
<1>3. CASE RegisterSnap(c)
  BY <1>3 DEF RegisterSnap, Inserted
<1>4. CASE AddTrack(c)
  BY <1>4 DEF AddTrack
<1>5. CASE AddChannel(c)
  BY <1>5 DEF AddChannel
<1>6. CASE Fail(c)
  BY <1>6 DEF Fail, Inserted
<1>7. CASE StoreStops(c)
  BY <1>7 DEF StoreStops, Inserted
<1> QED BY <1>1, <1>2, <1>3, <1>4, <1>5, <1>6, <1>7 DEF Step

\* A call that begins has inserted nothing.
LEMMA CallFrame ==
  ASSUME TypeOK, NEW c \in Calls, NEW req \in Request, Call(c, req)
  PROVE  /\ UNCHANGED <<tables, added>>
         /\ pc[c] = "none" /\ pc'[c] = "check"
         /\ \A d \in Calls : d # c => /\ pc'[d] = pc[d] /\ request'[d] = request[d]
                                      /\ NameOf(d)' = NameOf(d)
BY DEF TypeOK, Call, Goto, NameOf

LEMMA OwnsAloneStep ==
  ASSUME TypeOK, OwnsAlone, [Next]_vars
  PROVE  OwnsAlone'
<1>1. ASSUME NEW c \in Calls, NEW req \in Request, Call(c, req) PROVE OwnsAlone'
  BY <1>1, CallFrame DEF OwnsAlone, Inserted, tables
<1>2. ASSUME NEW c \in Calls, Step(c) PROVE OwnsAlone'
  <2>1. CASE /\ RegisterSnap(c) /\ NameOf(c) \notin DOMAIN entries
             /\ pc'[c] = "track" /\ pc[c] = "insert"
    <3>1. entries' = [n \in DOMAIN entries \cup {NameOf(c)} |->
                         IF n = NameOf(c) THEN request[c].account ELSE entries[n]]
      BY <2>1 DEF RegisterSnap
    <3>2. \A d \in Calls : d # c /\ pc[d] \in Inserted => NameOf(d) # NameOf(c)
      BY <2>1 DEF OwnsAlone
    <3> QED BY <1>2, <2>1, <3>1, <3>2, StepFrame DEF OwnsAlone
  <2>2. CASE UNCHANGED entries /\ (pc'[c] \in Inserted => pc[c] \in Inserted)
    BY <1>2, <2>2, StepFrame DEF OwnsAlone
  <2> QED
    BY <1>2, <2>1, <2>2, StepFrame DEF AddTrack, AddChannel, Inserted, tables
<1>3. CASE UNCHANGED vars
  BY <1>3 DEF vars, OwnsAlone, NameOf
<1> QED BY <1>1, <1>2, <1>3 DEF Next

LEMMA RowsAreOwnStep ==
  ASSUME TypeOK, OwnsAlone, RowsAreOwn, [Next]_vars
  PROVE  RowsAreOwn'
<1>1. ASSUME NEW c \in Calls, NEW req \in Request, Call(c, req) PROVE RowsAreOwn'
  BY <1>1, CallFrame DEF RowsAreOwn, Inserted, tables
<1>2. ASSUME NEW c \in Calls, Step(c) PROVE RowsAreOwn'
  <2>1. CASE /\ RegisterSnap(c) /\ NameOf(c) \notin DOMAIN entries
             /\ pc'[c] = "track" /\ pc[c] = "insert"
    <3>1. /\ DOMAIN entries' = DOMAIN entries \cup {NameOf(c)}
          /\ UNCHANGED <<tracks, channels>>
      BY <2>1 DEF RegisterSnap
    <3> QED BY <1>2, <2>1, <3>1, StepFrame DEF RowsAreOwn
  <2>2. CASE AddTrack(c) /\ pc[c] = "track" /\ pc'[c] = "channel"
    <3>1. /\ UNCHANGED <<entries, channels>>
          /\ \A row \in tracks' : row \in tracks \/ row = <<NameOf(c), c>>
      BY <2>2 DEF AddTrack
    <3>2. NameOf(c) \in DOMAIN entries
      BY <2>2 DEF OwnsAlone, Inserted
    <3>3. \A d \in Calls : pc[d] \in Inserted /\ NameOf(d) = NameOf(c) => d = c
      BY <2>2 DEF OwnsAlone, Inserted
    <3>4. \A d \in Calls : pc'[d] \in Inserted => pc[d] \in Inserted
      BY <1>2, <2>2, StepFrame DEF Inserted
    <3> QED BY <1>2, <2>2, <3>1, <3>2, <3>3, <3>4, StepFrame DEF RowsAreOwn
  <2>3. CASE /\ AddChannel(c) /\ pc[c] = "channel"
             /\ pc'[c] \in {"channel", "registered"}
    <3>1. /\ UNCHANGED <<entries, tracks>>
          /\ \A row \in channels' :
                row \in channels \/ (row[1] = NameOf(c) /\ row[3] = c)
      BY <2>3 DEF AddChannel
    <3>2. NameOf(c) \in DOMAIN entries
      BY <2>3 DEF OwnsAlone, Inserted
    <3>3. \A d \in Calls : pc[d] \in Inserted /\ NameOf(d) = NameOf(c) => d = c
      BY <2>3 DEF OwnsAlone, Inserted
    <3>4. \A d \in Calls : pc'[d] \in Inserted => pc[d] \in Inserted
      BY <1>2, <2>3, StepFrame DEF Inserted
    <3> QED BY <1>2, <2>3, <3>1, <3>2, <3>3, <3>4, StepFrame DEF RowsAreOwn
  <2>4. CASE UNCHANGED tables /\ pc'[c] \notin Inserted
    BY <1>2, <2>4, StepFrame DEF RowsAreOwn, tables
  <2> QED BY <1>2, <2>1, <2>2, <2>3, <2>4, StepFrame
<1>3. CASE UNCHANGED vars
  BY <1>3 DEF vars, RowsAreOwn, NameOf
<1> QED BY <1>1, <1>2, <1>3 DEF Next

LEMMA RowsAreThereStep ==
  ASSUME TypeOK, ChannelsLeft, RowsAreThere, [Next]_vars
  PROVE  RowsAreThere'
<1> DEFINE Part(d) ==
      /\ pc[d] \in {"channel", "registered"} => <<NameOf(d), d>> \in tracks
      /\ pc[d] = "track" => added[d] = 0
      /\ pc[d] \in Inserted =>
            \A i \in 1..added[d] : <<NameOf(d), DefaultChannels[i], d>> \in channels
      /\ pc[d] = "registered" => added[d] = Len(DefaultChannels)
      /\ pc[d] \in {"none", "check", "insert"} => added[d] = 0
<1>0. \A d \in Calls : Part(d)
  BY DEF RowsAreThere
<1> SUFFICES ASSUME NEW d \in Calls PROVE Part(d)'
  BY DEF RowsAreThere
<1>1. ASSUME NEW c \in Calls, NEW req \in Request, Call(c, req) PROVE Part(d)'
  BY <1>0, <1>1, CallFrame DEF Inserted, tables
<1>2. ASSUME NEW c \in Calls, Step(c) PROVE Part(d)'
  <2>0. NameOf(d)' = NameOf(d)
    BY <1>2, StepFrame
  <2>1. CASE d # c
    <3>1. pc'[d] = pc[d] /\ added'[d] = added[d]
      BY <1>2, <2>1, StepFrame
    <3>2. tracks \subseteq tracks' /\ channels \subseteq channels'
      BY <1>2, StepFrame DEF RegisterSnap, AddTrack, AddChannel, tables
    <3> QED BY <1>0, <2>0, <3>1, <3>2
  <2>2. CASE d = c /\ RegisterSnap(c) /\ pc[c] = "insert" /\ pc'[c] = "track"
    <3>1. added[c] = 0 /\ added' = added
      <4>1. pc'[c] # "refused"
        BY <2>2
      <4> QED BY <1>0, <2>2 DEF RegisterSnap
    <3> QED BY <2>2, <3>1
  <2>3. CASE d = c /\ AddTrack(c) /\ pc[c] = "track" /\ pc'[c] = "channel"
    <3>1. added' = added /\ channels' = channels /\ <<NameOf(c), c>> \in tracks'
      BY <2>3 DEF AddTrack
    <3> QED BY <1>0, <2>0, <2>3, <3>1
  <2>4. CASE d = c /\ AddChannel(c) /\ pc[c] = "channel"
             /\ pc'[c] \in {"channel", "registered"}
    <3>1. added[c] \in Nat /\ added[c] < 4
      BY <2>4, FourChannels DEF TypeOK, ChannelsLeft, Running
    <3>2. /\ added'[c] = added[c] + 1 /\ tracks' = tracks
          /\ channels' = channels \cup
                {<<NameOf(c), DefaultChannels[added[c] + 1], c>>}
          /\ pc'[c] = "registered" => added[c] + 1 = 4
      BY <2>4, FourChannels DEF AddChannel, Goto, TypeOK
    <3>3. \A i \in 1..added[c] + 1 : i \in 1..added[c] \/ i = added[c] + 1
      BY <3>1
    <3>4. \A i \in 1..added[c] : <<NameOf(c), DefaultChannels[i], c>> \in channels
      BY <1>0, <2>4 DEF Inserted
    <3>5. \A i \in 1..added'[c] : <<NameOf(c), DefaultChannels[i], c>> \in channels'
      BY <3>2, <3>3, <3>4
    <3>6. <<NameOf(c), c>> \in tracks'
      BY <1>0, <2>4, <3>2
    <3> QED BY <2>0, <2>4, <3>2, <3>5, <3>6, FourChannels
  <2>5. CASE d = c /\ UNCHANGED tables /\ pc'[c] \notin Inserted /\ UNCHANGED added
    <3>1. pc'[c] \in {"check", "insert", "none"} => pc[c] \in {"check", "insert", "none"}
      BY <1>2, <2>5
      DEF Step, Goto, TypeOK, Inserted, NameFound, NameNotFound, RegisterSnap,
          AddTrack, AddChannel, Fail, StoreStops
    <3> QED BY <1>0, <2>5, <3>1 DEF Inserted
  <2> QED BY <1>2, <2>1, <2>2, <2>3, <2>4, <2>5, StepFrame
<1>3. CASE UNCHANGED vars
  BY <1>0, <1>3 DEF vars, NameOf
<1> QED BY <1>1, <1>2, <1>3 DEF Next

\* When a call has added its last channel, all are there.
LEMMA LastChannel ==
  ASSUME ChannelsLeft, RowsAreThere, NEW c \in Calls, pc[c] = "registered"
  PROVE  \A ch \in ChannelNames : <<NameOf(c), ch, c>> \in channels
BY DEF RowsAreThere, Inserted, ChannelNames

LEMMA DryRunsOnlyLookStep ==
  ASSUME TypeOK, DryRunsOnlyLook, [Next]_vars
  PROVE  DryRunsOnlyLook'
<1>1. ASSUME NEW c \in Calls, NEW req \in Request, Call(c, req) PROVE DryRunsOnlyLook'
  BY <1>1, CallFrame DEF DryRunsOnlyLook, Inserted
<1>2. ASSUME NEW c \in Calls, Step(c) PROVE DryRunsOnlyLook'
  <2>1. request[c].dryRun => pc'[c] \notin {"insert"} \cup Inserted
    BY <1>2
    DEF Step, Goto, TypeOK, Inserted, Running, DryRunsOnlyLook, NameFound,
        NameNotFound, RegisterSnap, AddTrack, AddChannel, Fail, StoreStops
  <2> QED BY <1>2, <2>1, StepFrame DEF DryRunsOnlyLook
<1>3. CASE UNCHANGED vars
  BY <1>3 DEF vars, DryRunsOnlyLook
<1> QED BY <1>1, <1>2, <1>3 DEF Next

LEMMA BrokenNamesAreReportedStep ==
  ASSUME IInv, ChannelsLeft', RowsAreThere', [Next]_vars
  PROVE  BrokenNamesAreReported'
<1> USE DEF IInv
<1> DEFINE Excused(n) ==
             \E c \in Calls : /\ NameOf(c) = n /\ request[c].account = entries[n]
                              /\ pc[c] \in {"track", "channel", "failed"}
           Whole(n) == \A ch \in ChannelNames : \E c \in Calls : <<n, ch, c>> \in channels
<1>0. \A n \in DOMAIN entries : Excused(n) \/ Whole(n)
  BY DEF BrokenNamesAreReported
<1> SUFFICES ASSUME NEW n \in DOMAIN entries' PROVE Excused(n)' \/ Whole(n)'
  BY DEF BrokenNamesAreReported
<1>1. ASSUME NEW c \in Calls, NEW req \in Request, Call(c, req)
      PROVE  Excused(n)' \/ Whole(n)'
  <2>1. UNCHANGED <<entries, channels>>
    BY <1>1, CallFrame DEF tables
  <2>2. CASE Whole(n)
    BY <2>1, <2>2
  <2>3. CASE Excused(n)
    <3>1. PICK d \in Calls : /\ NameOf(d) = n /\ request[d].account = entries[n]
                             /\ pc[d] \in {"track", "channel", "failed"}
      BY <2>3
    <3>2. d # c
      BY <1>1, <3>1, CallFrame
    <3>3. pc'[d] = pc[d] /\ NameOf(d)' = NameOf(d) /\ request'[d] = request[d]
      BY <1>1, <3>2, CallFrame
    <3> QED BY <2>1, <3>1, <3>3
  <2> QED BY <1>0, <2>1, <2>2, <2>3
<1>2. ASSUME NEW c \in Calls, Step(c) PROVE Excused(n)' \/ Whole(n)'
  <2>1. channels \subseteq channels'
    BY <1>2, StepFrame DEF RegisterSnap, AddTrack, AddChannel, tables
  <2>2. \A m \in DOMAIN entries : m \in DOMAIN entries' /\ entries'[m] = entries[m]
    BY <1>2, StepFrame DEF RegisterSnap, AddTrack, AddChannel, tables
  <2>3. CASE n \in DOMAIN entries /\ Whole(n)
    BY <2>1, <2>3
  <2>4. CASE n \in DOMAIN entries /\ Excused(n)
    <3>1. PICK d \in Calls : /\ NameOf(d) = n /\ request[d].account = entries[n]
                             /\ pc[d] \in {"track", "channel", "failed"}
      BY <2>4
    <3>2. /\ NameOf(d)' = n /\ request'[d].account = entries'[n]
      BY <1>2, <2>2, <2>4, <3>1, StepFrame
    <3>3. CASE pc'[d] \in {"track", "channel", "failed"}
      BY <3>2, <3>3
    <3>4. CASE pc'[d] = "registered"
      <4>1. \A ch \in ChannelNames : <<NameOf(d)', ch, d>> \in channels'
        BY <3>4 DEF RowsAreThere, Inserted, ChannelNames
      <4> QED BY <3>2, <4>1
    <3>5. pc'[d] \in {"track", "channel", "failed", "registered"}
      <4>1. CASE d # c
        BY <1>2, <3>1, <4>1, StepFrame
      <4>2. CASE d = c
        BY <1>2, <3>1, <4>2
        DEF Step, Goto, TypeOK, Running, NameFound, NameNotFound, RegisterSnap,
            AddTrack, AddChannel, Fail, StoreStops
      <4> QED BY <4>1, <4>2
    <3> QED BY <3>3, <3>4, <3>5
  <2>5. CASE n \notin DOMAIN entries
    <3>1. RegisterSnap(c) /\ NameOf(c) \notin DOMAIN entries /\ pc'[c] = "track"
      BY <1>2, <2>5, StepFrame DEF AddTrack, AddChannel, tables
    <3>2. n = NameOf(c) /\ entries'[n] = request[c].account
      BY <2>5, <3>1 DEF RegisterSnap
    <3> QED BY <1>2, <3>1, <3>2, StepFrame
  <2> QED BY <1>0, <2>3, <2>4, <2>5
<1>3. CASE UNCHANGED vars
  BY <1>0, <1>3 DEF vars, NameOf
<1> QED BY <1>1, <1>2, <1>3 DEF Next

LEMMA Invariance == Spec => []IInv
<1>1. Init => IInv
  <2> SUFFICES ASSUME Init PROVE IInv
    OBVIOUS
  <2> QED
    BY TypeInitially
    DEF Init, IInv, OwnsAlone, RowsAreOwn, RowsAreThere, DryRunsOnlyLook,
        BrokenNamesAreReported, Inserted
<1>2. IInv /\ [Next]_vars => IInv'
  BY TypeStep, OwnsAloneStep, RowsAreOwnStep, RowsAreThereStep,
     DryRunsOnlyLookStep, BrokenNamesAreReportedStep DEF IInv
<1> QED BY <1>1, <1>2, PTL DEF Spec

-----------------------------------------------------------------------------
(* The properties. *)

\* A name is won once.
THEOREM NamesAreWonOnce == Spec => []OneWinner
<1>1. IInv => OneWinner
  BY DEF IInv, OwnsAlone, OneWinner, Inserted
<1> QED BY <1>1, Invariance, PTL

\* A name reported as registered can be pushed to.
THEOREM RegisteredNamesAreUsable == Spec => []RegisteredIsUsable
<1>1. ASSUME IInv PROVE RegisteredIsUsable
  <2> USE <1>1 DEF IInv
  <2> SUFFICES ASSUME NEW c \in Calls, pc[c] = "registered"
      PROVE  /\ NameOf(c) \in DOMAIN entries /\ entries[NameOf(c)] = request[c].account
             /\ \A d \in Calls : <<NameOf(c), d>> \in tracks <=> d = c
             /\ \A ch \in ChannelNames, d \in Calls :
                   <<NameOf(c), ch, d>> \in channels <=> d = c
    BY DEF RegisteredIsUsable
  <2>1. NameOf(c) \in DOMAIN entries /\ entries[NameOf(c)] = request[c].account
    BY DEF OwnsAlone, Inserted
  <2>2. \A d \in Calls : <<NameOf(c), d>> \in tracks <=> d = c
    BY DEF RowsAreOwn, RowsAreThere, Inserted
  <2>3. \A ch \in ChannelNames, d \in Calls : <<NameOf(c), ch, d>> \in channels <=> d = c
    BY LastChannel DEF RowsAreOwn, Inserted
  <2> QED BY <2>1, <2>2, <2>3
<1> QED BY <1>1, Invariance, PTL

\* A broken name is under way or its owner has been told.
THEOREM BrokenNamesHaveAReason == Spec => []BrokenNamesAreReported
BY Invariance, PTL DEF IInv

-----------------------------------------------------------------------------
(* The refinement of NameRegistry. *)

\* A step of Registration is one of NameRegistry, or changes nothing there.
LEMMA RegistryStep ==
  ASSUME IInv, IInv', [Next]_vars
  PROVE  [Registry!Next]_Registry!vars
<1> USE DEF IInv, Registry!vars, Registry!Decide, Registry!Owned, NameOf
<1>0. ASSUME NEW c \in Calls, NEW from, NEW to, Goto(c, from, to)
      PROVE  /\ Verdict[c] = CASE from \in {"check", "insert"} -> "open"
                               [] from \in {"track", "channel"} -> "granted"
                               [] OTHER -> from
             /\ Verdict' = [Verdict EXCEPT ![c] =
                               CASE to \in {"check", "insert"} -> "open"
                                 [] to \in {"track", "channel"} -> "granted"
                                 [] OTHER -> to]
  BY <1>0 DEF Verdict, Goto, TypeOK
<1>1. ASSUME NEW c \in Calls, NEW req \in Request, Call(c, req) PROVE Registry!Next
  <2>1. Verdict[c] = "none" /\ Verdict' = [Verdict EXCEPT ![c] = "open"]
    BY <1>0, <1>1 DEF Call
  <2>2. Registry!Ask(c, req)
    BY <1>1, <2>1 DEF Call, Registry!Ask, tables
  <2> QED BY <2>2 DEF Registry!Next, Registry!Request, Request
<1>2. ASSUME NEW c \in Calls, NameFound(c) PROVE Registry!Next
  <2>1. /\ Verdict[c] = "open" /\ UNCHANGED <<entries, request>>
        /\ IF request[c].dryRun THEN Verdict' = [Verdict EXCEPT ![c] = "taken"]
                                ELSE Verdict' = [Verdict EXCEPT ![c] = "refused"]
    BY <1>0, <1>2 DEF NameFound, tables
  <2>2. Registry!Look(c) \/ Registry!Refuse(c)
    BY <1>2, <2>1 DEF NameFound, Registry!Look, Registry!Refuse
  <2> QED BY <2>2 DEF Registry!Next
<1>3. ASSUME NEW c \in Calls, NameNotFound(c)
      PROVE  Registry!Next \/ UNCHANGED Registry!vars
  <2>1. CASE request[c].dryRun
    <3>1. Verdict[c] = "open" /\ Verdict' = [Verdict EXCEPT ![c] = "free"]
      BY <1>0, <1>3, <2>1 DEF NameNotFound
    <3>2. Registry!Look(c)
      BY <1>3, <2>1, <3>1 DEF NameNotFound, Registry!Look, tables
    <3> QED BY <3>2 DEF Registry!Next
  <2>2. CASE ~request[c].dryRun
    <3>1. Verdict[c] = "open" /\ Verdict' = [Verdict EXCEPT ![c] = "open"]
      BY <1>0, <1>3, <2>2 DEF NameNotFound
    <3>2. Verdict' = Verdict
      BY <3>1 DEF Verdict
    <3> QED BY <1>3, <3>2 DEF NameNotFound, tables
  <2> QED BY <2>1, <2>2
<1>4. ASSUME NEW c \in Calls, RegisterSnap(c) PROVE Registry!Next
  <2>0. ~request[c].dryRun
    BY <1>4 DEF RegisterSnap, Goto, DryRunsOnlyLook
  <2>1. CASE NameOf(c) \notin DOMAIN entries
    <3>1. Verdict[c] = "open" /\ Verdict' = [Verdict EXCEPT ![c] = "granted"]
      BY <1>0, <1>4, <2>1 DEF RegisterSnap
    <3>2. Registry!Grant(c)
      BY <1>4, <2>0, <2>1, <3>1 DEF RegisterSnap, Registry!Grant
    <3> QED BY <3>2 DEF Registry!Next
  <2>2. CASE NameOf(c) \in DOMAIN entries
    <3>1. Verdict[c] = "open" /\ Verdict' = [Verdict EXCEPT ![c] = "refused"]
      BY <1>0, <1>4, <2>2 DEF RegisterSnap
    <3>2. Registry!Refuse(c)
      BY <1>4, <2>0, <2>2, <3>1 DEF RegisterSnap, Registry!Refuse, tables
    <3> QED BY <3>2 DEF Registry!Next
  <2> QED BY <2>1, <2>2
<1>5. ASSUME NEW c \in Calls, AddTrack(c) PROVE UNCHANGED Registry!vars
  <2>1. Verdict[c] = "granted" /\ Verdict' = [Verdict EXCEPT ![c] = "granted"]
    BY <1>0, <1>5 DEF AddTrack
  <2>2. Verdict' = Verdict
    BY <2>1 DEF Verdict
  <2> QED BY <1>5, <2>2 DEF AddTrack
<1>6. ASSUME NEW c \in Calls, AddChannel(c)
      PROVE  Registry!Next \/ UNCHANGED Registry!vars
  <2>1. CASE added[c] + 1 = Len(DefaultChannels)
    <3>1. Verdict[c] = "granted" /\ Verdict' = [Verdict EXCEPT ![c] = "registered"]
      BY <1>0, <1>6, <2>1 DEF AddChannel
    <3>2. Registry!Confirm(c)
      BY <1>6, <3>1 DEF AddChannel, Registry!Confirm
    <3> QED BY <3>2 DEF Registry!Next
  <2>2. CASE added[c] + 1 # Len(DefaultChannels)
    <3>1. Verdict[c] = "granted" /\ Verdict' = [Verdict EXCEPT ![c] = "granted"]
      BY <1>0, <1>6, <2>2 DEF AddChannel
    <3>2. Verdict' = Verdict
      BY <3>1 DEF Verdict
    <3> QED BY <1>6, <3>2 DEF AddChannel
  <2> QED BY <2>1, <2>2
<1>7. ASSUME NEW c \in Calls, Fail(c) \/ StoreStops(c) PROVE Registry!Next
  <2>1. PICK stage \in Running : Goto(c, stage, "failed")
    BY <1>7 DEF Fail, StoreStops
  <2>2. /\ Verdict[c] \in {"open", "granted"}
        /\ Verdict' = [Verdict EXCEPT ![c] = "failed"]
    BY <1>0, <2>1 DEF Running
  <2>3. Registry!Fail(c)
    BY <1>7, <2>2 DEF Fail, StoreStops, Registry!Fail, tables
  <2> QED BY <2>3 DEF Registry!Next
<1>8. CASE UNCHANGED vars
  BY <1>8 DEF vars, Verdict
<1> QED
  BY <1>1, <1>2, <1>3, <1>4, <1>5, <1>6, <1>7, <1>8 DEF Next, Step

\* Registration grants a name at most once, for ever.
THEOREM ImplementsNameRegistry == Spec => ImplementsRegistry
<1>1. Init => Registry!Init
  BY TypeInitially DEF Init, Registry!Init, Registry!Request, Request, Verdict, TypeOK
<1>2. IInv /\ IInv' /\ [Next]_vars => [Registry!Next]_Registry!vars
  BY RegistryStep
<1> QED BY <1>1, <1>2, Invariance, PTL DEF Spec, ImplementsRegistry, Registry!Spec
=============================================================================
