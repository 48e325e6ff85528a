------------------------ MODULE PushPipelineProofs ------------------------
(***************************************************************************)
(* Proofs about PushPipeline.  The steps of the pipeline are steps of      *)
(* Publishing, or leave its variables alone, so that what is proved of     *)
(* Publishing holds of the pipeline; the rest relates the goroutines of    *)
(* the gateway and the assertions to the pushes of the store.              *)
(***************************************************************************)
EXTENDS PushPipeline, PublishingProofs

-----------------------------------------------------------------------------
(* The types, and the implementation of Publishing. *)

LEMMA PipelineTypeInitially == PipelineInit => PipelineTypeOK
<1> SUFFICES ASSUME PipelineInit PROVE PipelineTypeOK
  OBVIOUS
<1>1. (CHOOSE r \in Request : TRUE) \in Request
  <2>1. PICK e \in Entries, f \in Files, ts \in TargetSets : TRUE
    BY ConstantsAssumption
  <2>2. [entry |-> e, file |-> f, targets |-> ts] \in Request
    BY DEF Request
  <2> QED BY <2>2
<1>2. Upload0 \in UploadRow
  BY ConstantsAssumption DEF Upload0, UploadRow
<1> QED
  BY <1>1, <1>2, ConstantsAssumption DEF PipelineInit, PipelineTypeOK, Stages

\* The steps of the pipeline that change the variables of the gateway only.
Quiet(p) ==
    \/ FileIsGone(p) \/ UpdateEntry(p) \/ HearReply(p) \/ SignRevision(p)
    \/ Declare(p) \/ Record(p) \/ GatewayFault(p)

LEMMA QuietLeaves ==
  ASSUME NEW p \in Pushes, Quiet(p)
  PROVE  UNCHANGED <<vars, body>>
BY DEF Quiet, FileIsGone, UpdateEntry, HearReply, SignRevision, Declare, Record,
       GatewayFault, GiveUp, LoseReply, SignFails, DeclareFails, GatewayStops

\* A step of the pipeline is an upload, an acceptance, the look-up of a file,
\* a quiet step of the gateway, or a step of the store.
LEMMA Steps ==
  ASSUME [PipelineNext]_pipelineVars
  PROVE  \/ \E f \in Files : Upload(f) /\ UNCHANGED pipeline
         \/ \E p \in Pushes, req \in Request : Accept(p, req)
         \/ \E p \in Pushes : FetchMetadata(p)
         \/ \E p \in Pushes : Quiet(p)
         \/ \E p \in Pushes : StoreStep(p)
         \/ UNCHANGED pipelineVars
BY DEF PipelineNext, UnscannedUpload, GatewayStep, Quiet

LEMMA PublishingStep ==
  ASSUME PipelineTypeOK, [PipelineNext]_pipelineVars
  PROVE  [Next]_vars
<1>1. ASSUME NEW f \in Files, Upload(f) PROVE Next
  BY <1>1 DEF Next
<1>2. ASSUME NEW p \in Pushes, NEW req \in Request, Accept(p, req)
      PROVE  UNCHANGED vars
  BY <1>2 DEF Accept
<1>3. ASSUME NEW p \in Pushes, FetchMetadata(p) PROVE Next
  BY <1>3 DEF FetchMetadata, PipelineTypeOK, Next
<1>4. ASSUME NEW p \in Pushes, Quiet(p) PROVE UNCHANGED vars
  BY <1>4, QuietLeaves
<1>5. ASSUME NEW p \in Pushes, StoreStep(p) PROVE Next
  BY <1>5 DEF StoreStep, Next
<1> QED BY <1>1, <1>2, <1>3, <1>4, <1>5, Steps DEF pipelineVars

LEMMA AnswerInRange ==
  ASSUME TypeOK, NEW p \in Pushes
  PROVE  seq[p] \in 0..MaxSequence /\ 0 \in 0..MaxSequence
BY ConstantsAssumption DEF TypeOK, Sequence

LEMMA PipelineTypeStep ==
  ASSUME TypeOK, PipelineTypeOK, [PipelineNext]_pipelineVars
  PROVE  PipelineTypeOK'
<1> USE DEF PipelineTypeOK
<1>1. CASE UNCHANGED pipeline
  BY <1>1 DEF pipeline
<1>2. ASSUME NEW p \in Pushes, NEW req \in Request, Accept(p, req)
      PROVE  PipelineTypeOK'
  BY <1>2 DEF Accept, Forward, Stages, UploadRow
<1>3. ASSUME NEW p \in Pushes, FetchMetadata(p) PROVE PipelineTypeOK'
  BY <1>3 DEF FetchMetadata, Forward, Stages
<1>4. ASSUME NEW p \in Pushes, Quiet(p) PROVE PipelineTypeOK'
  <2>1. EntryOf(p) \in Entries /\ FileOf(p) \in Files /\ ShaOf(p) \in Contents
    BY ConstantsAssumption DEF TypeOK, Request, EntryOf, FileOf, ShaOf
  <2>2. AssertionFor(p) \in RevisionAssertion
    BY <2>1 DEF AssertionFor, RevisionAssertion
  <2>3. CASE FileIsGone(p)
    BY <2>3 DEF FileIsGone, Forward, Stages
  <2>4. CASE UpdateEntry(p)
    BY <2>1, <2>4 DEF UpdateEntry, Forward, Stages, Called
  <2>5. CASE HearReply(p)
    <3>1. ErrorsOf[pc[p]] \subseteq Codes
      BY <2>5 DEF HearReply, Ended, ErrorsOf, Codes
    <3> QED BY <2>5, <3>1, AnswerInRange DEF HearReply, Forward, Stages, Called, Note
  <2>6. CASE SignRevision(p)
    BY <2>2, <2>6 DEF SignRevision, Forward, Stages, Called, Note, Codes
  <2>7. CASE Declare(p)
    BY <2>7 DEF Declare, Forward, Stages, Called
  <2>8. CASE Record(p)
    BY <2>8 DEF Record, RemoveErrorWithCode, Forward, Stages, Called, UploadRow
  <2>9. CASE GiveUp(p)
    BY <2>9 DEF GiveUp, Forward, Stages
  <2>10. CASE LoseReply(p)
    BY <2>10 DEF LoseReply, Forward, Stages, Called, Note, Codes
  <2>11. CASE SignFails(p)
    BY <2>2, <2>11 DEF SignFails, Forward, Stages, Called, Note, Codes
  <2>12. CASE DeclareFails(p)
    BY <2>12 DEF DeclareFails, Forward, Stages, Called, Note, Codes
  <2>13. CASE GatewayStops(p)
    BY <2>13 DEF GatewayStops, Forward, Stages, Called
  <2> QED
    BY <1>4, <2>3, <2>4, <2>5, <2>6, <2>7, <2>8, <2>9, <2>10, <2>11, <2>12, <2>13
    DEF Quiet, GatewayFault
<1>5. ASSUME NEW p \in Pushes, StoreStep(p) PROVE PipelineTypeOK'
  BY <1>5 DEF StoreStep, pipeline
<1>6. CASE UNCHANGED pipelineVars
  BY <1>6 DEF pipelineVars, pipeline
<1> QED BY <1>1, <1>2, <1>3, <1>4, <1>5, <1>6, Steps

LEMMA PipelineTypes == PipelineSpec => [](TypeOK /\ PipelineTypeOK)
<1>1. PipelineInit => TypeOK /\ PipelineTypeOK
  BY TypeInitially, PipelineTypeInitially DEF PipelineInit
<1>2. TypeOK /\ PipelineTypeOK /\ [PipelineNext]_pipelineVars => (TypeOK /\ PipelineTypeOK)'
  BY PublishingStep, TypeStep, PipelineTypeStep
<1> QED BY <1>1, <1>2, PTL DEF PipelineSpec

\* Every variable of the pipeline keeps its type.
THEOREM PipelineTypeCorrect == PipelineSpec => []PipelineTypeOK
BY PipelineTypes, PTL

\* The pipeline implements Publishing: what the gateway adds to the store
\* leaves the store the behaviours it has.
THEOREM PipelineImplementsPublishing == PipelineSpec => Spec
<1>1. PipelineInit => Init
  BY DEF PipelineInit
<1>2. PipelineTypeOK /\ [PipelineNext]_pipelineVars => [Next]_vars
  BY PublishingStep
<1> QED BY <1>1, <1>2, PipelineTypeCorrect, PTL DEF PipelineSpec, Spec

-----------------------------------------------------------------------------
(* Where a push is in the gateway, and where in the store. *)

\* The store works on the request that the gateway was sent, and only once
\* the goroutine of the push has found the file.
BodyIsPushed ==
    \A p \in Pushes :
        /\ gw[p] \in {"none", "metadata"} => pc[p] = "idle"
        /\ gw[p] \in Called \cup {"entry"} => request[p] = body[p] /\ pc[p] # "idle"

\* The number in hand is that of a push that succeeded.
AnswerIsNumber ==
    \A p \in Pushes : answer[p] # 0 =>
        gw[p] \in Called /\ pc[p] = "done" /\ answer[p] = seq[p]

\* The rows are those of pushes whose AddRevision was called.
RowsAreCalled ==
    \A r \in rows :
        gw[r.push] \in Called /\ pc[r.push] # "idle" /\ r.entry = EntryOf(r.push)

\* A push whose AddRevision was called has described its snap, or another
\* push of the snap has since.
CalledIsDescribed ==
    \A p \in Pushes : gw[p] \in Called => \E q \in Pushes :
        /\ pc[q] # "idle" /\ EntryOf(q) = EntryOf(p)
        /\ described[EntryOf(p)] = {FileOf(q)}

Positions == TypeOK /\ PipelineTypeOK /\ BodyIsPushed /\ AnswerIsNumber

\* What a step of the store leaves alone.
LEMMA StoreFrame ==
  ASSUME TypeOK, NEW p \in Pushes, StoreStep(p)
  PROVE  /\ request' = request /\ rows \subseteq rows' /\ UNCHANGED pipeline
         /\ gw[p] \in Called /\ pc[p] \in Running /\ pc'[p] # "idle"
         /\ \A q \in Pushes : q # p => pc'[q] = pc[q] /\ seq'[q] = seq[q]
BY StepFrame DEF StoreStep

\* No step of the pipeline takes back what a push has reached.
LEMMA PushesStay ==
  ASSUME Positions, [PipelineNext]_pipelineVars, NEW q \in Pushes
  PROVE  /\ pc[q] # "idle" => pc'[q] # "idle" /\ request'[q] = request[q]
         /\ pc[q] = "done" => pc'[q] = "done" /\ seq'[q] = seq[q]
         /\ gw[q] \in Called => gw'[q] \in Called
         /\ gw[q] # "none" => gw'[q] # "none" /\ body'[q] = body[q]
         /\ rows \subseteq rows'
<1> USE DEF Positions, TypeOK, PipelineTypeOK
<1>1. ASSUME NEW f \in Files, Upload(f), UNCHANGED pipeline
      PROVE  UNCHANGED <<pc, request, seq, rows, gw, body>>
  BY <1>1 DEF Upload, pipeline, locals
<1>2. ASSUME NEW p \in Pushes, NEW req \in Request, Accept(p, req)
      PROVE  /\ UNCHANGED <<pc, request, seq, rows>>
             /\ gw[p] = "none" /\ gw'[p] = "metadata"
             /\ \A s \in Pushes : s # p => gw'[s] = gw[s] /\ body'[s] = body[s]
  BY <1>2 DEF Accept, Forward, vars, stores, locals
<1>3. ASSUME NEW p \in Pushes, FetchMetadata(p)
      PROVE  /\ UNCHANGED <<seq, rows, body>>
             /\ pc[p] = "idle" /\ gw[p] = "metadata" /\ gw'[p] = "entry"
             /\ \A s \in Pushes : s # p =>
                   pc'[s] = pc[s] /\ request'[s] = request[s] /\ gw'[s] = gw[s]
  BY <1>3 DEF FetchMetadata, Forward, Receive, Goto, stores, locals
<1>4. ASSUME NEW p \in Pushes, Quiet(p)
      PROVE  /\ UNCHANGED <<pc, request, seq, rows, body>>
             /\ gw[q] \in Called => gw'[q] \in Called
             /\ gw[q] # "none" => gw'[q] # "none"
  <2>1. UNCHANGED <<pc, request, seq, rows, body>>
    BY <1>4, QuietLeaves DEF vars, stores, locals
  <2>2. PICK from \in Stages \ {"none"}, to \in Stages \ {"none"} :
          Forward(p, from, to) /\ (from \in Called => to \in Called)
    BY <1>4 DEF Quiet, FileIsGone, UpdateEntry, HearReply, SignRevision, Declare,
       Record, GatewayFault, GiveUp, LoseReply, SignFails, DeclareFails,
       GatewayStops, Stages, Called
  <2> QED BY <2>1, <2>2 DEF Forward
<1>5. ASSUME NEW p \in Pushes, StoreStep(p)
      PROVE  /\ pc[q] # "idle" => pc'[q] # "idle" /\ request'[q] = request[q]
             /\ pc[q] = "done" => pc'[q] = "done" /\ seq'[q] = seq[q]
             /\ UNCHANGED <<gw, body>> /\ rows \subseteq rows'
  BY <1>5, StoreFrame DEF pipeline, Running
<1>6. CASE UNCHANGED pipelineVars
  BY <1>6 DEF pipelineVars, vars, stores, locals, pipeline
<1> QED
  BY <1>1, <1>2, <1>3, <1>4, <1>5, <1>6, Steps DEF Called

LEMMA BodyIsPushedStep ==
  ASSUME Positions, [PipelineNext]_pipelineVars
  PROVE  BodyIsPushed'
<1> USE DEF Positions, TypeOK, PipelineTypeOK, BodyIsPushed
<1>1. ASSUME NEW f \in Files, Upload(f), UNCHANGED pipeline PROVE BodyIsPushed'
  BY <1>1 DEF Upload, pipeline
<1>2. ASSUME NEW p \in Pushes, NEW req \in Request, Accept(p, req)
      PROVE  BodyIsPushed'
  BY <1>2 DEF Accept, Forward, vars, Called
<1>3. ASSUME NEW p \in Pushes, FetchMetadata(p) PROVE BodyIsPushed'
  BY <1>3 DEF FetchMetadata, Forward, Receive, Goto, Called
<1>4. ASSUME NEW p \in Pushes, Quiet(p) PROVE BodyIsPushed'
  <2>1. UNCHANGED <<pc, request, body>>
    BY <1>4, QuietLeaves DEF vars
  <2>2. PICK from \in Stages, to \in Stages :
          /\ Forward(p, from, to) /\ to \notin {"none", "metadata"}
          /\ to \in Called => from \in Called \cup {"entry"}
          /\ to # "entry"
    BY <1>4 DEF Quiet, FileIsGone, UpdateEntry, HearReply, SignRevision, Declare,
       Record, GatewayFault, GiveUp, LoseReply, SignFails, DeclareFails,
       GatewayStops, Stages, Called
  <2> QED BY <2>1, <2>2 DEF Forward
<1>5. ASSUME NEW p \in Pushes, StoreStep(p) PROVE BodyIsPushed'
  BY <1>5, StoreFrame DEF pipeline, Called
<1>6. CASE UNCHANGED pipelineVars
  BY <1>6 DEF pipelineVars, vars, pipeline
<1> QED BY <1>1, <1>2, <1>3, <1>4, <1>5, <1>6, Steps

LEMMA AnswerIsNumberStep ==
  ASSUME Positions, [PipelineNext]_pipelineVars
  PROVE  AnswerIsNumber'
<1> SUFFICES ASSUME NEW q \in Pushes, answer'[q] # 0
             PROVE  gw'[q] \in Called /\ pc'[q] = "done" /\ answer'[q] = seq'[q]
  BY DEF AnswerIsNumber
<1>1. CASE answer'[q] = answer[q]
  BY <1>1, PushesStay DEF Positions, AnswerIsNumber
<1>2. CASE HearReply(q)
  BY <1>2 DEF HearReply, Forward, Positions, PipelineTypeOK, Called, vars, locals
<1>3. answer'[q] = answer[q] \/ HearReply(q)
  <2>1. ASSUME NEW p \in Pushes, Quiet(p) PROVE UNCHANGED answer \/ HearReply(p)
    BY <2>1 DEF Quiet, FileIsGone, UpdateEntry, SignRevision, Declare,
       Record, GatewayFault, GiveUp, LoseReply, SignFails, DeclareFails, GatewayStops
  <2>2. UNCHANGED answer \/ \E p \in Pushes : HearReply(p)
    BY <2>1, Steps DEF Accept, FetchMetadata, StoreStep, pipelineVars, pipeline
  <2> QED BY <2>2 DEF HearReply, Positions, PipelineTypeOK
<1> QED BY <1>1, <1>2, <1>3

LEMMA PositionsStep ==
  ASSUME Positions, [PipelineNext]_pipelineVars
  PROVE  Positions'
BY PublishingStep, TypeStep, PipelineTypeStep, BodyIsPushedStep, AnswerIsNumberStep
   DEF Positions

LEMMA RowsAreCalledStep ==
  ASSUME Positions, RowsAreCalled, [PipelineNext]_pipelineVars
  PROVE  RowsAreCalled'
<1> SUFFICES ASSUME NEW r \in rows'
             PROVE  /\ gw'[r.push] \in Called /\ pc'[r.push] # "idle"
                    /\ r.entry = EntryOf(r.push)'
  BY DEF RowsAreCalled
<1>1. CASE r \in rows
  <2>1. r.push \in Pushes
    BY <1>1 DEF Positions, TypeOK, RevisionRow
  <2> QED BY <1>1, <2>1, PushesStay DEF RowsAreCalled, EntryOf
<1>2. CASE r \notin rows
  <2>1. UNCHANGED rows \/ \E p \in Pushes : StoreStep(p) /\ InsertRevision(p)
    BY Steps, StepChanges, QuietLeaves
    DEF Upload, Accept, FetchMetadata, Receive, StoreStep, pipelineVars, vars, stores
  <2>2. PICK p \in Pushes : StoreStep(p) /\ InsertRevision(p)
    BY <1>2, <2>1
  <2>3. r.push = p /\ r.entry = EntryOf(p)
    BY <1>2, <2>2 DEF InsertRevision, RowFor
  <2> QED BY <2>2, <2>3, StoreFrame DEF EntryOf, Positions, pipeline
<1> QED BY <1>1, <1>2

LEMMA CalledIsDescribedStep ==
  ASSUME Positions, CalledIsDescribed, [PipelineNext]_pipelineVars
  PROVE  CalledIsDescribed'
<1> SUFFICES ASSUME NEW p \in Pushes, gw'[p] \in Called
             PROVE  \E q \in Pushes :
                       /\ pc'[q] # "idle" /\ EntryOf(q)' = EntryOf(p)'
                       /\ described'[EntryOf(p)'] = {FileOf(q)'}
  BY DEF CalledIsDescribed
<1>1. \A q \in Pushes : pc[q] # "idle" =>
         pc'[q] # "idle" /\ EntryOf(q)' = EntryOf(q) /\ FileOf(q)' = FileOf(q)
  BY PushesStay DEF EntryOf, FileOf
<1>2. ASSUME NEW s \in Pushes, UpdateEntry(s)
      PROVE  /\ pc[s] # "idle" /\ EntryOf(s) \in Entries
             /\ described' = [described EXCEPT ![EntryOf(s)] = {FileOf(s)}]
             /\ \A q \in Pushes : q # s => gw'[q] = gw[q]
  BY <1>2 DEF UpdateEntry, Forward, Positions, BodyIsPushed, PipelineTypeOK,
              TypeOK, Request, EntryOf
<1>3. ASSUME NEW s \in Pushes, UpdateEntry(s), pc[p] # "idle", EntryOf(p) = EntryOf(s)
      PROVE  described'[EntryOf(p)] = {FileOf(s)}
  BY <1>2, <1>3 DEF Positions, PipelineTypeOK
<1>4. (\E s \in Pushes : UpdateEntry(s)) \/ UNCHANGED described
  BY Steps DEF Accept, FetchMetadata, StoreStep, pipelineVars, pipeline, Quiet,
     FileIsGone, HearReply, SignRevision, Declare, Record, GatewayFault, GiveUp,
     LoseReply, SignFails, DeclareFails, GatewayStops
<1>5. gw[p] \in Called \/ UpdateEntry(p)
  <2>1. ASSUME NEW s \in Pushes, Quiet(s), ~UpdateEntry(s)
        PROVE  gw'[p] \in Called => gw[p] \in Called
    <3>1. PICK from \in Stages, to \in Stages :
            Forward(s, from, to) /\ (to \in Called => from \in Called)
      BY <2>1 DEF Quiet, FileIsGone, HearReply, SignRevision, Declare, Record,
         GatewayFault, GiveUp, LoseReply, SignFails, DeclareFails, GatewayStops,
         Stages, Called
    <3> QED BY <3>1 DEF Forward, Positions, PipelineTypeOK
  <2>2. ASSUME NEW s \in Pushes, UpdateEntry(s), s # p PROVE gw'[p] = gw[p]
    BY <2>2 DEF UpdateEntry, Forward, Positions, PipelineTypeOK
  <2>3. ASSUME NEW s \in Pushes, \/ \E req \in Request : Accept(s, req)
                                 \/ FetchMetadata(s)
        PROVE  gw'[p] \in Called => gw[p] \in Called
    BY <2>3 DEF Accept, FetchMetadata, Forward, Positions, PipelineTypeOK, Called
  <2> QED BY <2>1, <2>2, <2>3, Steps DEF StoreStep, pipelineVars, pipeline
<1>6. pc[p] # "idle"
  BY <1>2, <1>5 DEF Positions, BodyIsPushed
<1>7. CASE \E s \in Pushes : UpdateEntry(s) /\ EntryOf(s) = EntryOf(p)
  BY <1>1, <1>2, <1>3, <1>6, <1>7
<1>8. CASE ~\E s \in Pushes : UpdateEntry(s) /\ EntryOf(s) = EntryOf(p)
  <2>1. gw[p] \in Called
    BY <1>5, <1>8
  <2>2. described'[EntryOf(p)] = described[EntryOf(p)]
    <3>1. EntryOf(p) \in Entries
      BY DEF Positions, TypeOK, Request, EntryOf
    <3> QED BY <1>2, <1>4, <1>8, <3>1 DEF Positions, PipelineTypeOK
  <2> QED BY <1>1, <1>6, <2>1, <2>2 DEF CalledIsDescribed
<1> QED BY <1>7, <1>8

-----------------------------------------------------------------------------
(* What the assertion service holds, and what the upload records. *)

\* A snap-revision assertion was asked for by a push that had a number.
AssertedByPush ==
    \A a \in revisionAsserts :
        /\ gw[a.push] \in Called \ {"wait"} /\ answer[a.push] # 0
        /\ a = AssertionFor(a.push)

\* What a processed upload says is what its goroutine had in hand at the end.
RecordedIsAnswer ==
    \A p \in Pushes : Processed(p) =>
        /\ gw[p] = "end" /\ uploads[p].revision = answer[p]
        /\ uploads[p].errors = problems[p] \ {"resource-not-found"}

\* A goroutine with no error in hand but resource-not-found has left nothing
\* out: AddRevision may report this code, but then there is no number to sign.
CleanIsComplete ==
    \A p \in Pushes : problems[p] \subseteq {"resource-not-found"} =>
        /\ gw[p] \in {"declare", "record", "end"} =>
              answer[p] # 0 /\ AssertionFor(p) \in revisionAsserts
        /\ gw[p] \in {"record", "end"} => p \in declarations

\* A step of the gateway changes what it has in hand for one push.
LEMMA QuietFrame ==
  ASSUME PipelineTypeOK, NEW p \in Pushes, Quiet(p), NEW q \in Pushes, q # p
  PROVE  /\ gw'[q] = gw[q] /\ answer'[q] = answer[q] /\ problems'[q] = problems[q]
         /\ uploads'[q] = uploads[q]
         /\ revisionAsserts \subseteq revisionAsserts'
         /\ declarations \subseteq declarations'
BY DEF PipelineTypeOK, Quiet, FileIsGone, UpdateEntry, HearReply, SignRevision,
   Declare, Record, GatewayFault, GiveUp, LoseReply, SignFails, DeclareFails,
   GatewayStops, Forward, Note

\* Steps that are not the gateway's leave what it has in hand alone.
LEMMA OtherSteps ==
  ASSUME PipelineTypeOK, [PipelineNext]_pipelineVars
  PROVE  \/ \E p \in Pushes : Quiet(p)
         \/ /\ UNCHANGED <<answer, problems, revisionAsserts, declarations>>
            /\ \A q \in Pushes :
                  \/ gw'[q] = gw[q] /\ uploads'[q] = uploads[q]
                  \/ /\ gw[q] = "none" /\ gw'[q] = "metadata"
                     /\ uploads'[q] = [uploads[q] EXCEPT !.status = "pending"]
                  \/ /\ gw[q] = "metadata" /\ gw'[q] = "entry"
                     /\ uploads'[q] = uploads[q]
<1> USE DEF PipelineTypeOK
<1>1. ASSUME NEW p \in Pushes, NEW req \in Request, Accept(p, req), NEW q \in Pushes
      PROVE  \/ gw'[q] = gw[q] /\ uploads'[q] = uploads[q]
             \/ /\ gw[q] = "none" /\ gw'[q] = "metadata"
                /\ uploads'[q] = [uploads[q] EXCEPT !.status = "pending"]
  BY <1>1 DEF Accept, Forward
<1>2. ASSUME NEW p \in Pushes, FetchMetadata(p), NEW q \in Pushes
      PROVE  /\ gw'[q] = gw[q] \/ (gw[q] = "metadata" /\ gw'[q] = "entry")
             /\ uploads'[q] = uploads[q]
  BY <1>2 DEF FetchMetadata, Forward
<1> QED
  BY <1>1, <1>2, Steps DEF Accept, FetchMetadata, StoreStep, pipelineVars, pipeline

\* A goroutine in the stages after AddRevision neither changes the number it
\* has in hand nor goes back.
LEMMA NumberStays ==
  ASSUME Positions, [PipelineNext]_pipelineVars, NEW q \in Pushes, answer[q] # 0
  PROVE  /\ answer'[q] = answer[q] /\ AssertionFor(q)' = AssertionFor(q)
         /\ gw[q] \in Called \ {"wait"} => gw'[q] \in Called \ {"wait"}
<1> USE DEF Positions, PipelineTypeOK
<1>1. pc[q] = "done" /\ answer[q] = seq[q] /\ gw[q] \in Called
  BY DEF AnswerIsNumber
<1>2. answer'[q] = answer[q]
  <2>1. CASE Quiet(q)
    BY <1>1, <2>1 DEF Quiet, FileIsGone, UpdateEntry, HearReply, SignRevision,
       Declare, Record, GatewayFault, GiveUp, LoseReply, SignFails, DeclareFails,
       GatewayStops
  <2> QED BY <2>1, OtherSteps, QuietFrame
<1>3. EntryOf(q)' = EntryOf(q) /\ FileOf(q)' = FileOf(q)
  BY <1>1, PushesStay DEF EntryOf, FileOf
<1>4. gw[q] \in Called \ {"wait"} => gw'[q] \in Called \ {"wait"}
  <2>1. CASE Quiet(q)
    BY <2>1 DEF Quiet, FileIsGone, UpdateEntry, HearReply, SignRevision,
       Declare, Record, GatewayFault, GiveUp, LoseReply, SignFails, DeclareFails,
       GatewayStops, Forward, Called
  <2> QED BY <2>1, OtherSteps, QuietFrame DEF Called
<1> QED BY <1>2, <1>3, <1>4 DEF AssertionFor, ShaOf

LEMMA AssertedByPushStep ==
  ASSUME Positions, AssertedByPush, [PipelineNext]_pipelineVars
  PROVE  AssertedByPush'
<1> SUFFICES ASSUME NEW a \in revisionAsserts'
             PROVE  /\ gw'[a.push] \in Called \ {"wait"} /\ answer'[a.push] # 0
                    /\ a = AssertionFor(a.push)'
  BY DEF AssertedByPush
<1>1. CASE a \in revisionAsserts
  <2>1. a.push \in Pushes
    BY <1>1 DEF Positions, PipelineTypeOK, RevisionAssertion
  <2> QED BY <1>1, <2>1, NumberStays DEF AssertedByPush
<1>2. CASE a \notin revisionAsserts
  <2>1. PICK p \in Pushes : SignRevision(p) \/ SignFails(p)
    BY <1>2, Steps
    DEF Accept, FetchMetadata, StoreStep, pipelineVars, pipeline, Quiet, FileIsGone,
        UpdateEntry, HearReply, Declare, Record, GatewayFault, GiveUp, LoseReply,
        DeclareFails, GatewayStops
  <2>2. a = AssertionFor(p) /\ answer[p] # 0
    BY <1>2, <2>1 DEF SignRevision, SignFails
  <2>3. a.push = p
    BY <2>2 DEF AssertionFor
  <2>4. gw'[p] = "declare"
    BY <2>1 DEF SignRevision, SignFails, Forward, Positions, PipelineTypeOK
  <2> QED BY <2>2, <2>3, <2>4, NumberStays DEF Called
<1> QED BY <1>1, <1>2

LEMMA RecordedIsAnswerStep ==
  ASSUME Positions, RecordedIsAnswer, [PipelineNext]_pipelineVars
  PROVE  RecordedIsAnswer'
<1> SUFFICES ASSUME NEW q \in Pushes, Processed(q)'
             PROVE  /\ gw'[q] = "end" /\ uploads'[q].revision = answer'[q]
                    /\ uploads'[q].errors = problems'[q] \ {"resource-not-found"}
  BY DEF RecordedIsAnswer
<1> USE DEF Positions, PipelineTypeOK, Processed
<1>1. CASE Record(q)
  BY <1>1 DEF Record, RemoveErrorWithCode, Forward
<1>2. CASE Quiet(q) /\ ~Record(q)
  <2>1. uploads'[q] = uploads[q] /\ gw[q] # "end"
    BY <1>2 DEF Quiet, FileIsGone, UpdateEntry, HearReply, SignRevision, Declare,
       GatewayFault, GiveUp, LoseReply, SignFails, DeclareFails, GatewayStops, Forward
  <2> QED BY <2>1 DEF RecordedIsAnswer
<1>3. CASE ~Quiet(q)
  <2>1. uploads[q] \in UploadRow
    OBVIOUS
  <2>2. /\ UNCHANGED <<answer[q], problems[q]>>
        /\ \/ gw'[q] = gw[q] /\ uploads'[q] = uploads[q]
           \/ gw[q] = "metadata" /\ uploads'[q] = uploads[q]
    BY <1>3, <2>1, OtherSteps, QuietFrame DEF UploadRow
  <2> QED BY <2>2 DEF RecordedIsAnswer
<1> QED BY <1>1, <1>2, <1>3

LEMMA CleanIsCompleteStep ==
  ASSUME Positions, CleanIsComplete, [PipelineNext]_pipelineVars
  PROVE  CleanIsComplete'
<1> USE DEF Positions, PipelineTypeOK
<1> SUFFICES ASSUME NEW q \in Pushes, problems'[q] \subseteq {"resource-not-found"}
             PROVE  /\ gw'[q] \in {"declare", "record", "end"} =>
                          /\ answer'[q] # 0
                          /\ AssertionFor(q)' \in revisionAsserts'
                    /\ gw'[q] \in {"record", "end"} => q \in declarations'
  BY DEF CleanIsComplete
<1>1. CASE ~Quiet(q)
  <2>1. /\ answer'[q] = answer[q] /\ problems'[q] = problems[q]
        /\ revisionAsserts \subseteq revisionAsserts'
        /\ declarations \subseteq declarations'
        /\ gw'[q] = gw[q] \/ gw'[q] \in {"metadata", "entry"}
    BY <1>1, OtherSteps, QuietFrame
  <2> QED BY <2>1, NumberStays DEF CleanIsComplete
<1>2. CASE SignRevision(q)
  <2>1. answer[q] # 0 /\ AssertionFor(q) \in revisionAsserts' /\ gw'[q] = "declare"
    BY <1>2 DEF SignRevision, Note, Forward
  <2> QED BY <2>1, NumberStays
<1>3. CASE Declare(q)
  <2>1. /\ gw[q] = "declare" /\ gw'[q] = "record" /\ q \in declarations'
        /\ UNCHANGED <<problems, answer, revisionAsserts>>
    BY <1>3 DEF Declare, Forward
  <2> QED BY <2>1, NumberStays DEF CleanIsComplete
<1>4. CASE Record(q)
  <2>1. /\ gw[q] = "record" /\ gw'[q] = "end"
        /\ UNCHANGED <<problems, answer, revisionAsserts, declarations>>
    BY <1>4 DEF Record, Forward
  <2> QED BY <2>1, NumberStays DEF CleanIsComplete
<1>5. CASE \/ FileIsGone(q) \/ UpdateEntry(q) \/ HearReply(q) \/ GiveUp(q)
           \/ LoseReply(q) \/ GatewayStops(q)
  <2>1. gw'[q] \in {"returned", "wait", "sign", "stopped"}
    BY <1>5 DEF FileIsGone, UpdateEntry, HearReply, GiveUp, LoseReply, GatewayStops,
       Forward
  <2> QED BY <2>1
<1>6. CASE SignFails(q) \/ DeclareFails(q)
  <2>1. "internal-server-error" \in problems'[q]
    BY <1>6 DEF SignFails, DeclareFails, Note
  <2> QED BY <2>1
<1> QED BY <1>1, <1>2, <1>3, <1>4, <1>5, <1>6 DEF Quiet, GatewayFault

-----------------------------------------------------------------------------
(* The invariant, and the properties that follow from it. *)

PInv == /\ IInv /\ Positions /\ RowsAreCalled /\ CalledIsDescribed
        /\ AssertedByPush /\ RecordedIsAnswer /\ CleanIsComplete

LEMMA PInvInitially == PipelineInit => PInv
<1> SUFFICES ASSUME PipelineInit PROVE PInv
  OBVIOUS
<1>1. IInv /\ TypeOK /\ PipelineTypeOK
  BY IInvInitially, PipelineTypeInitially DEF PipelineInit, IInv
<1>2. \A p \in Pushes : gw[p] = "none" /\ answer[p] = 0 /\ uploads[p] = Upload0
  BY DEF PipelineInit
<1>3. \A p \in Pushes : pc[p] = "idle" /\ uploads[p].status = "none"
  BY <1>2 DEF PipelineInit, Init, Upload0
<1>4. rows = {} /\ revisionAsserts = {}
  BY DEF PipelineInit, Init
<1> QED
  BY <1>1, <1>2, <1>3, <1>4
  DEF PInv, Positions, BodyIsPushed, AnswerIsNumber, RowsAreCalled,
      CalledIsDescribed, AssertedByPush, RecordedIsAnswer, CleanIsComplete,
      Processed, Called

LEMMA PInvStep ==
  ASSUME PInv, [PipelineNext]_pipelineVars
  PROVE  PInv'
<1>1. [Next]_vars
  BY PublishingStep DEF PInv, Positions
<1> QED
  BY <1>1, IInvStep, PositionsStep, RowsAreCalledStep, CalledIsDescribedStep,
     AssertedByPushStep, RecordedIsAnswerStep, CleanIsCompleteStep DEF PInv

LEMMA PipelineInvariance == PipelineSpec => []PInv
BY PInvInitially, PInvStep, PTL DEF PipelineSpec

\* The number a processed upload shows is that of a complete revision.
THEOREM ProcessedMeansPublished == PipelineSpec => []ProcessedIsPublished
<1>1. ASSUME PInv PROVE ProcessedIsPublished
  <2> SUFFICES ASSUME NEW p \in Pushes, Processed(p), uploads[p].revision # 0
               PROVE  /\ \A t \in body[p].targets : \E r \in rows :
                            /\ r.entry = body[p].entry /\ r.target = t
                            /\ r.seq = uploads[p].revision
                            /\ r.sha = Digest[body[p].file]
                      /\ SnapPath(body[p].entry, uploads[p].revision) \in DOMAIN snaps
    BY DEF ProcessedIsPublished
  <2>1. uploads[p].revision = answer[p] /\ gw[p] = "end"
    BY <1>1 DEF PInv, RecordedIsAnswer
  <2>2. pc[p] = "done" /\ uploads[p].revision = seq[p] /\ request[p] = body[p]
    BY <1>1, <2>1 DEF PInv, Positions, AnswerIsNumber, BodyIsPushed, Called
  <2>3. /\ \A t \in request[p].targets : RowFor(p, t) \in rows
        /\ SnapPath(EntryOf(p), seq[p]) \in DOMAIN snaps
    BY <1>1, <2>2 DEF PInv, IInv, LoopInserts, AfterLoop, AfterCopy
  <2>4. EntryOf(p) = body[p].entry /\ ShaOf(p) = Digest[body[p].file]
    BY <2>2 DEF EntryOf, ShaOf, FileOf
  <2>5. ASSUME NEW t \in body[p].targets
        PROVE  \E r \in rows : /\ r.entry = body[p].entry /\ r.target = t
                              /\ r.seq = uploads[p].revision
                              /\ r.sha = Digest[body[p].file]
    <3>1. /\ RowFor(p, t).entry = EntryOf(p) /\ RowFor(p, t).target = t
          /\ RowFor(p, t).seq = seq[p] /\ RowFor(p, t).sha = ShaOf(p)
      BY DEF RowFor
    <3>2. RowFor(p, t) \in rows
      BY <2>2, <2>3
    <3> QED BY <2>2, <2>4, <3>1, <3>2
  <2> QED BY <2>2, <2>3, <2>4, <2>5
<1> QED BY <1>1, PipelineInvariance, PTL

\* An upload recorded without an error can be installed.
THEOREM CleanMeansInstallable == PipelineSpec => []CleanUploadIsInstallable
<1>1. ASSUME PInv PROVE CleanUploadIsInstallable
  <2> SUFFICES ASSUME NEW p \in Pushes, Processed(p), uploads[p].errors = {}
               PROVE  /\ pc[p] = "done" /\ uploads[p].revision = seq[p]
                      /\ p \in declarations
                      /\ \E a \in revisionAsserts :
                            /\ a.entry = body[p].entry
                            /\ a.sha = Digest[body[p].file]
                            /\ a.revision = seq[p]
    BY DEF CleanUploadIsInstallable
  <2>1. /\ gw[p] = "end" /\ uploads[p].revision = answer[p]
        /\ problems[p] \subseteq {"resource-not-found"}
    BY <1>1 DEF PInv, RecordedIsAnswer
  <2>2. answer[p] # 0 /\ AssertionFor(p) \in revisionAsserts /\ p \in declarations
    BY <1>1, <2>1 DEF PInv, CleanIsComplete
  <2>3. pc[p] = "done" /\ answer[p] = seq[p] /\ request[p] = body[p]
    BY <1>1, <2>1, <2>2 DEF PInv, Positions, AnswerIsNumber, BodyIsPushed, Called
  <2> QED BY <2>1, <2>2, <2>3 DEF AssertionFor, EntryOf, ShaOf, FileOf
<1> QED BY <1>1, PipelineInvariance, PTL

\* The assertion service vouches for revisions of the store only.
THEOREM AssertionsAreOfRevisions == PipelineSpec => []AssertedIsRevision
<1>1. ASSUME PInv PROVE AssertedIsRevision
  <2> SUFFICES ASSUME NEW a \in revisionAsserts
               PROVE  \/ \E r \in rows : /\ r.entry = a.entry /\ r.seq = a.revision
                                         /\ r.sha = a.sha
                      \/ body[a.push].targets = {} /\ pc[a.push] = "done"
    BY DEF AssertedIsRevision
  <2> DEFINE p == a.push
  <2>1. /\ p \in Pushes /\ gw[p] \in Called /\ answer[p] # 0 /\ a = AssertionFor(p)
    BY <1>1 DEF PInv, Positions, PipelineTypeOK, RevisionAssertion, AssertedByPush
  <2>2. pc[p] = "done" /\ answer[p] = seq[p] /\ request[p] = body[p]
    BY <1>1, <2>1 DEF PInv, Positions, AnswerIsNumber, BodyIsPushed
  <2>3. \A t \in request[p].targets : RowFor(p, t) \in rows
    BY <1>1, <2>1, <2>2 DEF PInv, IInv, LoopInserts, AfterLoop
  <2>4. a.entry = EntryOf(p) /\ a.revision = seq[p] /\ a.sha = ShaOf(p)
    BY <2>1, <2>2 DEF AssertionFor
  <2> HIDE DEF p
  <2>5. CASE request[p].targets = {}
    BY <2>2, <2>5 DEF p
  <2>6. ASSUME NEW t \in request[p].targets
        PROVE  \E r \in rows : r.entry = a.entry /\ r.seq = a.revision /\ r.sha = a.sha
    BY <2>3, <2>4 DEF RowFor
  <2> QED BY <2>5, <2>6
<1> QED BY <1>1, PipelineInvariance, PTL

\* A snap with a revision has the metadata of a file pushed to it.
THEOREM RevisionsAreDescribed == PipelineSpec => []PublishedIsDescribed
<1>1. ASSUME PInv PROVE PublishedIsDescribed
  <2> SUFFICES ASSUME NEW r \in rows
               PROVE  \E p \in Pushes : /\ pc[p] # "idle" /\ EntryOf(p) = r.entry
                                        /\ described[r.entry] = {FileOf(p)}
    BY DEF PublishedIsDescribed
  <2>1. r.push \in Pushes
    BY <1>1 DEF PInv, IInv, TypeOK, RevisionRow
  <2>2. gw[r.push] \in Called /\ r.entry = EntryOf(r.push)
    BY <1>1 DEF PInv, RowsAreCalled
  <2> QED BY <1>1, <2>1, <2>2 DEF PInv, CalledIsDescribed
<1> QED BY <1>1, PipelineInvariance, PTL

\* Where pushes of a snap do not overlap in the store, the pipeline implements
\* SerialSpec, and what the assertion service vouches for is served.
THEOREM PipelineImplementsSerial == PipelineSerialSpec => SerialSpec
<1>1. PipelineInit => Init
  BY DEF PipelineInit
<1>2. PInv /\ [PipelineNext /\ Serialised']_pipelineVars => [Next /\ Serialised']_vars
  BY PublishingStep DEF PInv, Positions, pipelineVars
<1>3. PipelineSerialSpec => PipelineSpec
  BY PTL DEF PipelineSerialSpec, PipelineSpec
<1> QED BY <1>1, <1>2, <1>3, PipelineInvariance, PTL DEF PipelineSerialSpec, SerialSpec

THEOREM AssertionsAreServed ==
  ASSUME TargetsAreGiven PROVE PipelineSerialSpec => []AssertedIsServed
<1>1. ASSUME PInv, SuccessIsServed PROVE AssertedIsServed
  <2> SUFFICES ASSUME NEW a \in revisionAsserts
               PROVE  /\ SnapPath(a.entry, a.revision) \in DOMAIN snaps
                      /\ snaps[SnapPath(a.entry, a.revision)] = a.sha
    BY DEF AssertedIsServed
  <2> DEFINE p == a.push
  <2>1. /\ p \in Pushes /\ answer[p] # 0 /\ a = AssertionFor(p)
    BY <1>1 DEF PInv, Positions, PipelineTypeOK, RevisionAssertion, AssertedByPush
  <2>2. pc[p] = "done" /\ answer[p] = seq[p]
    BY <1>1, <2>1 DEF PInv, Positions, AnswerIsNumber
  <2>3. a.entry = EntryOf(p) /\ a.revision = seq[p] /\ a.sha = ShaOf(p)
    BY <2>1, <2>2 DEF AssertionFor
  <2> HIDE DEF p
  <2> QED BY <1>1, <2>1, <2>2, <2>3 DEF SuccessIsServed
<1>2. PipelineSerialSpec => PipelineSpec
  BY PTL DEF PipelineSerialSpec, PipelineSpec
<1>3. PipelineSerialSpec => []SuccessIsServed
  BY PipelineImplementsSerial, SuccessStaysServed
<1> QED BY <1>1, <1>2, <1>3, PipelineInvariance, PTL

-----------------------------------------------------------------------------
(* Where pushes of a snap do not overlap, no two take the same number. *)

Numbered == {"release", "insert"} \cup AfterLoop

\* A push that has inserted its rows has a number of its own.
OneNumberEach ==
    \A p, q \in Pushes :
        /\ p # q /\ EntryOf(p) = EntryOf(q)
        /\ pc[p] \in Numbered /\ pc[q] \in AfterLoop
        => seq[p] # seq[q]

LEMMA OneNumberEachStep ==
  ASSUME TargetsAreGiven, IInv, SInv, OneNumberEach, [Next]_vars
  PROVE  OneNumberEach'
<1> USE DEF IInv
<1>1. ASSUME NEW f \in Files, Upload(f) PROVE OneNumberEach'
  BY <1>1 DEF Upload, locals, OneNumberEach, EntryOf
<1>2. ASSUME NEW s \in Pushes, NEW req \in Request, Receive(s, req)
      PROVE  OneNumberEach'
  BY <1>2 DEF Receive, Goto, locals, OneNumberEach, EntryOf, TypeOK, Numbered, AfterLoop
<1>3. ASSUME NEW s \in Pushes, Step(s) PROVE OneNumberEach'
  <2> SUFFICES ASSUME NEW p \in Pushes, NEW q \in Pushes, p # q,
                      EntryOf(p)' = EntryOf(q)',
                      pc'[p] \in Numbered, pc'[q] \in AfterLoop
               PROVE  seq'[p] # seq'[q]
    BY DEF OneNumberEach
  <2>1. EntryOf(p) = EntryOf(q)
    BY <1>3, StepFrame DEF EntryOf
  <2>2. \A t \in Pushes : t # s => pc'[t] = pc[t] /\ seq'[t] = seq[t]
    BY <1>3, StepFrame
  <2>3. \/ ReadLatest(s)
        \/ seq' = seq /\ (pc'[s] \in Numbered => pc[s] \in Numbered)
    BY <1>3
    DEF Step, CheckSha, Discard, EnsureChannel, MissingTrack, InsertRevision,
        CopyToSnaps, RemoveUnscanned, ReadSource, ReadTarget, PutDelta, RecordDelta,
        SkipDelta, Abort, Goto, locals, stores, Numbered, AfterLoop, TypeOK
  <2>4. CASE ReadLatest(s)
    <3>1. pc'[s] = "release"
      <4>1. request[s].targets \in TargetSets
        BY DEF TypeOK, Request
      <4>2. request[s].targets # {}
        BY <4>1 DEF TargetsAreGiven
      <4> QED BY <2>4, <4>2 DEF ReadLatest, Goto, TypeOK
    <3>2. CASE s # p
      <4>1. s # q
        BY <3>1 DEF AfterLoop
      <4> QED BY <2>1, <2>2, <3>2, <4>1 DEF OneNumberEach
    <3>3. CASE s = p
      <4>1. PICK r \in rows : r.entry = EntryOf(q) /\ r.seq = seq[q]
        BY <2>2, <3>3, RowOfFile
      <4>2. PICK latest \in Latest(EntryOf(p)) :
              seq' = [seq EXCEPT ![p] = NextSequence(latest)]
        BY <2>4, <3>3 DEF ReadLatest
      <4>3. EntryOf(p) \in Entries /\ r \in RowsOf(EntryOf(p))
        BY <2>1, <4>1 DEF TypeOK, Request, EntryOf, RowsOf
      <4>4. NextSequence(latest) # r.seq
        <5>1. PICK h \in RowsOf(EntryOf(p)) :
                NextSequence(latest) = h.seq + 1 /\ r.seq <= h.seq
          BY <4>3, LatestIsHighest
        <5>2. h.seq \in Nat /\ r.seq \in Nat
          BY <4>3, <5>1 DEF RowsOf, TypeOK, RevisionRow, Sequence
        <5> QED BY <5>1, <5>2
      <4> QED BY <2>2, <3>3, <4>1, <4>2, <4>4 DEF TypeOK
    <3> QED BY <3>2, <3>3
  <2>5. CASE seq' = seq /\ (pc'[s] \in Numbered => pc[s] \in Numbered)
    <3>1. pc[p] \in Numbered /\ pc[q] \in Numbered
      BY <2>2, <2>5 DEF Numbered
    <3>2. CASE pc[q] \in AfterLoop
      BY <2>1, <2>5, <3>1, <3>2 DEF OneNumberEach
    <3>3. CASE pc[q] \notin AfterLoop
      <4>1. pc[q] \in Active /\ pc[p] \in Active \cup {"done"}
        BY <3>1, <3>3 DEF Numbered, AfterLoop, Active, Running
      <4>2. pc[p] = "done"
        BY <2>1, <4>1 DEF SInv, Serialised
      <4> QED BY <2>1, <2>5, <3>1, <4>2 DEF OneNumberEach, AfterLoop
    <3> QED BY <3>2, <3>3
  <2> QED BY <2>3, <2>4, <2>5
<1>4. CASE UNCHANGED vars
  BY <1>4 DEF vars, locals, OneNumberEach, EntryOf
<1> QED BY <1>1, <1>2, <1>3, <1>4 DEF Next

\* Within a snap there is one snap-revision assertion for each digest and for
\* each number: the look-up by digest has one answer.
THEOREM AssertionsStayUnique ==
  ASSUME TargetsAreGiven PROVE PipelineSerialSpec => []AssertionsAreUnique
<1>1. ASSUME PInv, SInv, OneNumberEach PROVE AssertionsAreUnique
  <2> SUFFICES ASSUME NEW a \in revisionAsserts, NEW b \in revisionAsserts,
                      a.entry = b.entry, a.sha = b.sha \/ a.revision = b.revision
               PROVE  a = b
    BY DEF AssertionsAreUnique
  <2>1. ASSUME NEW c \in revisionAsserts
        PROVE  /\ c.push \in Pushes /\ pc[c.push] = "done" /\ c = AssertionFor(c.push)
               /\ c.entry = EntryOf(c.push) /\ c.revision = seq[c.push]
               /\ c.sha = ShaOf(c.push)
    <3>1. /\ c.push \in Pushes /\ answer[c.push] # 0 /\ c = AssertionFor(c.push)
      BY <1>1 DEF PInv, Positions, PipelineTypeOK, RevisionAssertion, AssertedByPush
    <3>2. pc[c.push] = "done" /\ answer[c.push] = seq[c.push]
      BY <1>1, <3>1 DEF PInv, Positions, AnswerIsNumber
    <3>3. /\ AssertionFor(c.push).entry = EntryOf(c.push)
          /\ AssertionFor(c.push).revision = answer[c.push]
          /\ AssertionFor(c.push).sha = ShaOf(c.push)
      BY DEF AssertionFor
    <3> QED BY <3>1, <3>2, <3>3
  <2>2. ASSUME NEW c \in revisionAsserts
        PROVE  \E r \in rows : r.entry = c.entry /\ r.seq = c.revision /\ r.sha = c.sha
    <3>1. pc[c.push] \in AfterLoop
      BY <2>1 DEF AfterLoop
    <3> QED BY <1>1, <2>1, <3>1, RowOfFile DEF PInv, IInv
  <2>3. a.revision = b.revision
    BY <1>1, <2>2 DEF SInv, RevisionsAreSpecific
  <2>4. a.push = b.push
    BY <1>1, <2>1, <2>3 DEF OneNumberEach, Numbered, AfterLoop
  <2> QED BY <2>1, <2>4
<1>2. PipelineSerialSpec => PipelineSpec
  BY PTL DEF PipelineSerialSpec, PipelineSpec
<1>3. PipelineSerialSpec => [](IInv /\ SInv)
  BY PipelineImplementsSerial, SerialInvariance
<1>4. Init => OneNumberEach
  BY DEF Init, OneNumberEach, Numbered, AfterLoop
<1>5. IInv /\ SInv /\ OneNumberEach /\ [Next /\ Serialised']_vars => OneNumberEach'
  BY OneNumberEachStep
<1>6. PipelineSerialSpec => []OneNumberEach
  BY <1>3, <1>4, <1>5, PipelineImplementsSerial, PTL DEF SerialSpec
<1> QED BY <1>1, <1>2, <1>3, <1>6, PipelineInvariance, PTL

-----------------------------------------------------------------------------
(* Publishers that wait for the end of a push do not overlap in the store. *)

\* The store begins with a push when the goroutine has called it.
NotBegun ==
    \A p \in Pushes : gw[p] \notin Called => pc[p] \in {"idle", "ready"}

\* The goroutine goes on when the store has ended.
HeardOut ==
    \A p \in Pushes : gw[p] \in {"sign", "declare", "record", "end"} => pc[p] \in Ended

\* The last thing it does is to write the outcome.
ProcessedAtEnd == \A p \in Pushes : Processed(p) => gw[p] = "end"

\* Of two pushes of a snap, one is processed.
OneAtATime ==
    \A p, q \in Pushes :
        p # q /\ gw[p] # "none" /\ gw[q] # "none" /\ body[p].entry = body[q].entry
        => Processed(p) \/ Processed(q)

PatientInv == NotBegun /\ HeardOut /\ ProcessedAtEnd /\ OneAtATime

LEMMA PatientIsSerial ==
  ASSUME Positions, PatientInv
  PROVE  Serialised
<1> SUFFICES ASSUME NEW p \in Pushes, NEW q \in Pushes,
                    p # q, pc[p] \in Active, pc[q] \in Active, EntryOf(p) = EntryOf(q)
             PROVE  FALSE
  BY DEF Serialised
<1>1. ASSUME NEW r \in Pushes, pc[r] \in Active
      PROVE  gw[r] \in Called /\ request[r] = body[r] /\ ~Processed(r)
  <2>1. gw[r] \in Called
    BY <1>1 DEF PatientInv, NotBegun, Active, Running
  <2>2. pc[r] \notin Ended
    BY <1>1 DEF Active, Running, Ended
  <2> QED
    BY <2>1, <2>2 DEF PatientInv, HeardOut, ProcessedAtEnd, Positions, BodyIsPushed
<1>2. body[p].entry = body[q].entry
  BY <1>1 DEF EntryOf
<1> QED BY <1>1, <1>2 DEF PatientInv, OneAtATime, Called

LEMMA PatientInitially == PipelineInit => PatientInv
BY DEF PipelineInit, Init, PatientInv, NotBegun, HeardOut, ProcessedAtEnd, OneAtATime,
       Processed, Upload0, Called

\* The goroutine hears of the end of a push, and the store leaves it alone.
LEMMA EndsStay ==
  ASSUME Positions, [PipelineNext]_pipelineVars, NEW q \in Pushes
  PROVE  /\ pc[q] \in Ended => pc'[q] = pc[q]
         /\ pc'[q] # pc[q] => gw[q] \in Called \/ pc'[q] = "ready"
<1> USE DEF Positions, TypeOK, PipelineTypeOK
<1>1. ASSUME NEW f \in Files, Upload(f) PROVE UNCHANGED pc
  BY <1>1 DEF Upload
<1>2. ASSUME NEW p \in Pushes, NEW req \in Request, Accept(p, req) PROVE UNCHANGED pc
  BY <1>2 DEF Accept, vars
<1>3. ASSUME NEW p \in Pushes, FetchMetadata(p)
      PROVE  /\ pc[p] = "idle" /\ pc'[p] = "ready"
             /\ \A r \in Pushes : r # p => pc'[r] = pc[r]
  BY <1>3 DEF FetchMetadata, Receive, Goto
<1>4. ASSUME NEW p \in Pushes, Quiet(p) PROVE UNCHANGED pc
  BY <1>4, QuietLeaves DEF vars
<1>5. ASSUME NEW p \in Pushes, StoreStep(p)
      PROVE  /\ gw[p] \in Called /\ pc[p] \in Running
             /\ \A r \in Pushes : r # p => pc'[r] = pc[r]
  BY <1>5, StoreFrame
<1>6. CASE UNCHANGED pipelineVars
  BY <1>6 DEF pipelineVars, vars
<1> QED
  BY <1>1, <1>2, <1>3, <1>4, <1>5, <1>6, Steps DEF Ended, Running

\* A goroutine passes "wait" on its way to its end, where it writes the outcome.
LEMMA StagesPass ==
  ASSUME Positions, ProcessedAtEnd, [PipelineNext]_pipelineVars, NEW q \in Pushes
  PROVE  /\ gw'[q] \in {"sign", "declare", "record", "end"} =>
               \/ gw[q] \in {"sign", "declare", "record", "end"}
               \/ gw[q] = "wait" /\ gw'[q] = "sign"
         /\ gw[q] = "end" => gw'[q] = "end"
         /\ Processed(q)' => Processed(q) \/ gw'[q] = "end"
         /\ Processed(q) => Processed(q)'
<1> USE DEF Positions, PipelineTypeOK, Processed
<1> DEFINE P(gw1, uploads1) ==
             /\ gw1 \in {"sign", "declare", "record", "end"} =>
                   \/ gw[q] \in {"sign", "declare", "record", "end"}
                   \/ gw[q] = "wait" /\ gw1 = "sign"
             /\ gw[q] = "end" => gw1 = "end"
             /\ uploads1.status = "processed" => Processed(q) \/ gw1 = "end"
             /\ Processed(q) => uploads1.status = "processed"
<1> SUFFICES P(gw'[q], uploads'[q])
  OBVIOUS
<1>1. ASSUME UNCHANGED <<gw, uploads>> PROVE P(gw'[q], uploads'[q])
  BY <1>1
<1>2. ASSUME NEW p \in Pushes, NEW req \in Request, Accept(p, req)
      PROVE  P(gw'[q], uploads'[q])
  <2>1. CASE q = p
    BY <1>2, <2>1 DEF Accept, Forward, ProcessedAtEnd
  <2>2. CASE q # p
    BY <1>2, <2>2 DEF Accept, Forward
  <2> QED BY <2>1, <2>2
<1>3. ASSUME NEW p \in Pushes, FetchMetadata(p) PROVE P(gw'[q], uploads'[q])
  BY <1>3 DEF FetchMetadata, Forward
<1>4. ASSUME NEW p \in Pushes, Record(p) PROVE P(gw'[q], uploads'[q])
  BY <1>4 DEF Record, Forward, UploadRow
<1>5. ASSUME NEW p \in Pushes, Quiet(p), ~Record(p) PROVE P(gw'[q], uploads'[q])
  BY <1>5 DEF Quiet, FileIsGone, UpdateEntry, HearReply, SignRevision, Declare,
     GatewayFault, GiveUp, LoseReply, SignFails, DeclareFails, GatewayStops, Forward
<1>6. ASSUME NEW p \in Pushes, StoreStep(p) PROVE UNCHANGED <<gw, uploads>>
  BY <1>6 DEF StoreStep, pipeline
<1>7. CASE UNCHANGED pipeline
  BY <1>1, <1>7 DEF pipeline
<1> QED
  BY <1>1, <1>2, <1>3, <1>4, <1>5, <1>6, <1>7, Steps DEF pipelineVars

\* A step accepts one push.
LEMMA OneIsAccepted ==
  ASSUME Positions, [PipelineNext]_pipelineVars, NEW p \in Pushes, NEW q \in Pushes,
         p # q, gw[p] = "none", gw[q] = "none"
  PROVE  gw'[p] = "none" \/ gw'[q] = "none"
<1> USE DEF Positions, PipelineTypeOK
<1>1. ASSUME NEW r \in Pushes, NEW req \in Request, Accept(r, req)
      PROVE  \A s \in Pushes : s # r => gw'[s] = gw[s]
  BY <1>1 DEF Accept, Forward
<1>2. ASSUME NEW r \in Pushes, FetchMetadata(r) PROVE \A s \in Pushes : s # r => gw'[s] = gw[s]
  BY <1>2 DEF FetchMetadata, Forward
<1>3. ASSUME NEW r \in Pushes, Quiet(r) PROVE \A s \in Pushes : s # r => gw'[s] = gw[s]
  BY <1>3 DEF Quiet, FileIsGone, UpdateEntry, HearReply, SignRevision, Declare, Record,
     GatewayFault, GiveUp, LoseReply, SignFails, DeclareFails, GatewayStops, Forward
<1>4. ASSUME NEW r \in Pushes, StoreStep(r) PROVE UNCHANGED gw
  BY <1>4 DEF StoreStep, pipeline
<1> QED
  BY <1>1, <1>2, <1>3, <1>4, Steps DEF pipelineVars, pipeline

LEMMA PatientStep ==
  ASSUME Positions, PatientInv,
         [PipelineNext /\ Waits /\ ReplyIsAwaited]_pipelineVars
  PROVE  PatientInv'
<1>1. [PipelineNext]_pipelineVars
  OBVIOUS
<1>2. CASE UNCHANGED pipelineVars
  BY <1>2 DEF pipelineVars, vars, pipeline, PatientInv, NotBegun, HeardOut,
     ProcessedAtEnd, OneAtATime, Processed
<1>3. CASE Waits /\ ReplyIsAwaited
  <2>1. NotBegun'
    BY <1>1, PushesStay, EndsStay DEF PatientInv, NotBegun
  <2>2. HeardOut'
    BY <1>1, <1>3, StagesPass, EndsStay DEF PatientInv, HeardOut, ReplyIsAwaited
  <2>3. ProcessedAtEnd'
    BY <1>1, StagesPass DEF PatientInv, ProcessedAtEnd
  <2>4. OneAtATime'
    <3> SUFFICES ASSUME NEW p \in Pushes, NEW q \in Pushes, p # q,
                        gw'[p] # "none", gw'[q] # "none",
                        body'[p].entry = body'[q].entry
                 PROVE  Processed(p)' \/ Processed(q)'
      BY DEF OneAtATime, Processed
    <3>1. ASSUME NEW r \in Pushes PROVE Processed(r) => Processed(r)'
      BY <1>1, StagesPass DEF PatientInv
    <3>2. CASE gw[p] # "none" /\ gw[q] # "none"
      BY <1>1, <3>1, <3>2, PushesStay DEF PatientInv, OneAtATime
    <3>3. ASSUME NEW r \in Pushes, NEW s \in Pushes, r # s, gw[r] = "none",
                 gw[s] # "none", gw'[r] # "none", body'[r].entry = body'[s].entry
          PROVE  Processed(s)'
      BY <1>1, <1>3, <3>1, <3>3, PushesStay DEF Waits, GetUploadStatus
    <3>4. gw[p] # "none" \/ gw[q] # "none"
      BY <1>1, OneIsAccepted
    <3> QED BY <3>2, <3>3, <3>4
  <2> QED BY <2>1, <2>2, <2>3, <2>4 DEF PatientInv
<1> QED BY <1>2, <1>3

\* Publishers that wait until a push is processed, and a gateway that waits
\* until the store has ended it, are all that SerialSpec asks for.
THEOREM PatientPublishersDoNotOverlap == PatientSpec => PipelineSerialSpec
<1>1. PatientSpec => PipelineSpec
  BY PTL DEF PatientSpec, PipelineSpec
<1>2. PatientSpec => []Positions
  BY <1>1, PipelineInvariance, PTL DEF PInv
<1>3. Positions /\ PatientInv /\ [PipelineNext /\ Waits /\ ReplyIsAwaited]_pipelineVars
      => PatientInv'
  BY PatientStep
<1>4. Positions' /\ PatientInv' /\ [PipelineNext /\ Waits /\ ReplyIsAwaited]_pipelineVars
      => [PipelineNext /\ Serialised']_pipelineVars
  <2>1. Positions' /\ PatientInv' => Serialised'
    BY PatientIsSerial, PTL
  <2> QED BY <2>1
<1> QED
  BY <1>2, <1>3, <1>4, PatientInitially, PTL DEF PatientSpec, PipelineSerialSpec

\* Where pushes do not overlap the store is an archive, through the pipeline too:
\* never overwritten, growing upwards.
THEOREM PushesFillTheArchive ==
  ASSUME TargetsAreGiven PROVE PipelineSerialSpec => PublishesAnArchive
BY PipelineImplementsSerial, StoreIsAnArchive

\* It is for publishers that wait.
THEOREM PatientPublishersFillTheArchive ==
  ASSUME TargetsAreGiven PROVE PatientSpec => PublishesAnArchive
BY PatientPublishersDoNotOverlap, PushesFillTheArchive

\* For them, the assertion service vouches for what the store serves, once.
THEOREM PatientPublishersAreServed ==
  ASSUME TargetsAreGiven PROVE PatientSpec => [](AssertedIsServed /\ AssertionsAreUnique)
BY PatientPublishersDoNotOverlap, AssertionsAreServed, AssertionsStayUnique, PTL
=============================================================================
