--------------------------- MODULE PushPipeline ---------------------------
(***************************************************************************)
(* How the gateway turns the push of an uploaded file into a revision that *)
(* snapd can install.                                                      *)
(*                                                                         *)
(* SnapPush adds a row to the table "upload", writes the answer that names *)
(* it, and goes on in the same goroutine: it reads the digest of the file, *)
(* describes the snap, has the store add the revision (module Publishing), *)
(* has the assertion service sign a snap-revision and a snap-declaration,  *)
(* and writes the outcome to the row, which the publisher polls.  Three    *)
(* services and three databases take part; nothing is undone when one of   *)
(* them fails.                                                             *)
(***************************************************************************)
EXTENDS Publishing

VARIABLES
    gw,                 \* where the goroutine of each push is
    body,               \* the body of the request: entry, file and targets
    answer,             \* the number AddRevision answered, 0 with an error
    problems,           \* codes in the error list of the goroutine
    uploads,            \* table "upload": a row for each push
    described,          \* table "entry": the file whose metadata it has
    revisionAsserts,    \* collection "snap-revision"
    declarations        \* collection "snap-declaration", by push

pipeline == <<gw, body, answer, problems, uploads, described,
              revisionAsserts, declarations>>
pipelineVars == <<vars, pipeline>>

Codes == {"already-registered", "resource-not-found", "invalid-field",
          "internal-server-error"}

Upload0 == [status |-> "none", revision |-> 0, errors |-> {}]

\* What AddRevision reports of a push that has ended.  The list of a failure
\* begins with the look-ups that found nothing; "internal-server-error" stands
\* for every other code.
ErrorsOf == [done |-> {},
             duplicate |-> {"already-registered"},
             untracked |-> {"resource-not-found"},
             failed |-> {"resource-not-found", "internal-server-error"}]

\* Faulty variant: the digest of the entry as it is described by now.
AssertionForDescribed(p) ==
    [push |-> p, entry |-> EntryOf(p), revision |-> answer[p],
     sha |-> Digest[CHOOSE f \in described[EntryOf(p)] : TRUE]]

AssertionFor(p) == [push |-> p, entry |-> EntryOf(p), sha |-> ShaOf(p),
                    revision |-> answer[p]]

Forward(p, from, to) == gw[p] = from /\ gw' = [gw EXCEPT ![p] = to]

\* Every error with this code leaves the list.
RemoveErrorWithCode(codes, code) == codes \ {code}

Note(p, codes) == problems' = [problems EXCEPT ![p] = @ \cup codes]

-----------------------------------------------------------------------------
PipelineInit ==
    /\ Init
    /\ gw = [p \in Pushes |-> "none"]
    /\ body = [p \in Pushes |-> CHOOSE r \in Request : TRUE]
    /\ answer = [p \in Pushes |-> 0]
    /\ problems = [p \in Pushes |-> {}]
    /\ uploads = [p \in Pushes |-> Upload0]
    /\ described = [e \in Entries |-> {}]
    /\ revisionAsserts = {} /\ declarations = {}

\* The name is registered; the upload is added as "pending" with revision 0,
\* and the answer is written.  The file is not looked at.
Accept(p, req) ==
    /\ Forward(p, "none", "metadata")
    /\ body' = [body EXCEPT ![p] = req]
    /\ uploads' = [uploads EXCEPT ![p].status = "pending"]
    /\ UNCHANGED <<vars, answer, problems, described, revisionAsserts, declarations>>

\* GetObjectCustomMetadata finds the file and its digest.
FetchMetadata(p) ==
    /\ Forward(p, "metadata", "entry")
    /\ Receive(p, body[p])
    /\ UNCHANGED <<body, answer, problems, uploads, described,
                   revisionAsserts, declarations>>

\* It does not: the goroutine returns, and the upload stays "pending".
FileIsGone(p) ==
    /\ Forward(p, "metadata", "returned")
    /\ body[p].file \notin unscanned
    /\ UNCHANGED <<vars, body, answer, problems, uploads, described,
                   revisionAsserts, declarations>>

\* UpdateSnapEntryWithMetadata, then the call of AddRevision.
UpdateEntry(p) ==
    /\ Forward(p, "entry", "wait")
    /\ described' = [described EXCEPT ![EntryOf(p)] = {FileOf(p)}]
    /\ UNCHANGED <<vars, body, answer, problems, uploads,
                   revisionAsserts, declarations>>

\* Faulty variant: the error of UpdateSnapEntryWithMetadata is not looked at.
GiveUpNot(p) ==
    /\ \/ Forward(p, "metadata", "returned")
       \/ Forward(p, "entry", "wait")
    /\ UNCHANGED <<vars, body, answer, problems, uploads, described,
                   revisionAsserts, declarations>>

\* One of these two calls returns an error, or the gateway stops.
GiveUp(p) ==
    /\ \E stage \in {"metadata", "entry"} : Forward(p, stage, "returned")
    /\ UNCHANGED <<vars, body, answer, problems, uploads, described,
                   revisionAsserts, declarations>>

\* The stages of a goroutine that has called AddRevision.
Called == {"wait", "sign", "declare", "record", "end", "stopped"}

\* The store works on a push whose AddRevision was called, whatever has
\* become of the goroutine that waits for it.
StoreStep(p) ==
    /\ gw[p] \in Called
    /\ Step(p)
    /\ UNCHANGED pipeline

\* Faulty variants: the response of a failed push has its number, or the
\* goroutine returns when AddRevision fails, as it does for earlier calls.
HearReplyNumbered(p) ==
    /\ Forward(p, "wait", "sign")
    /\ pc[p] \in Ended
    /\ answer' = [answer EXCEPT ![p] = seq[p]]
    /\ Note(p, ErrorsOf[pc[p]])
    /\ UNCHANGED <<vars, body, uploads, described, revisionAsserts, declarations>>

HearReplyOrReturn(p) ==
    /\ Forward(p, "wait", IF pc[p] = "done" THEN "sign" ELSE "end")
    /\ pc[p] \in Ended
    /\ answer' = [answer EXCEPT ![p] = IF pc[p] = "done" THEN seq[p] ELSE 0]
    /\ Note(p, ErrorsOf[pc[p]])
    /\ UNCHANGED <<vars, body, uploads, described, revisionAsserts, declarations>>

\* The response of AddRevision: the number, or errors and no number.
HearReply(p) ==
    /\ Forward(p, "wait", "sign")
    /\ pc[p] \in Ended
    /\ answer' = [answer EXCEPT ![p] = IF pc[p] = "done" THEN seq[p] ELSE 0]
    /\ Note(p, ErrorsOf[pc[p]])
    /\ UNCHANGED <<vars, body, uploads, described, revisionAsserts, declarations>>

\* The connection is lost.  The store may have ended the push, or be at it.
LoseReply(p) ==
    /\ Forward(p, "wait", "sign")
    /\ Note(p, {"internal-server-error"})
    /\ UNCHANGED <<vars, body, answer, uploads, described,
                   revisionAsserts, declarations>>

\* Faulty variant: the number is not checked before signing.
SignRevisionUnchecked(p) ==
    /\ Forward(p, "sign", "declare")
    /\ revisionAsserts' = revisionAsserts \cup {AssertionFor(p)}
    /\ UNCHANGED <<vars, body, answer, problems, uploads, described, declarations>>

\* AddSnapRevisionAssertion is called even after an error of AddRevision; its
\* client refuses the number 0.
SignRevision(p) ==
    /\ Forward(p, "sign", "declare")
    /\ \/ /\ answer[p] # 0
          /\ revisionAsserts' = revisionAsserts \cup {AssertionFor(p)}
          /\ UNCHANGED problems
       \/ /\ answer[p] = 0
          /\ Note(p, {"invalid-field"})
          /\ UNCHANGED revisionAsserts
    /\ UNCHANGED <<vars, body, answer, uploads, described, declarations>>

\* The call fails, before the assertion was stored or after.
SignFails(p) ==
    /\ Forward(p, "sign", "declare")
    /\ answer[p] # 0
    /\ revisionAsserts' \in {revisionAsserts, revisionAsserts \cup {AssertionFor(p)}}
    /\ Note(p, {"internal-server-error"})
    /\ UNCHANGED <<vars, body, answer, uploads, described, declarations>>

\* AddSnapDeclarationAssertion.
Declare(p) ==
    /\ Forward(p, "declare", "record")
    /\ declarations' = declarations \cup {p}
    /\ UNCHANGED <<vars, body, answer, problems, uploads, described,
                   revisionAsserts>>

DeclareFails(p) ==
    /\ Forward(p, "declare", "record")
    /\ declarations' \in {declarations, declarations \cup {p}}
    /\ Note(p, {"internal-server-error"})
    /\ UNCHANGED <<vars, body, answer, uploads, described, revisionAsserts>>

\* RemoveErrorWithCode and UpdateUploadStatus: the upload is "processed",
\* whatever happened.
Record(p) ==
    /\ Forward(p, "record", "end")
    /\ uploads' = [uploads EXCEPT ![p] =
          [status |-> "processed", revision |-> answer[p],
           errors |-> RemoveErrorWithCode(problems[p], "resource-not-found")]]
    /\ UNCHANGED <<vars, body, answer, problems, described,
                   revisionAsserts, declarations>>

\* The gateway stops, or UpdateUploadStatus fails.
GatewayStops(p) ==
    /\ \E stage \in {"wait", "sign", "declare", "record"} :
          Forward(p, stage, "stopped")
    /\ UNCHANGED <<vars, body, answer, problems, uploads, described,
                   revisionAsserts, declarations>>

GatewayStep(p) ==
    \/ FetchMetadata(p) \/ FileIsGone(p) \/ UpdateEntry(p) \/ HearReply(p)
    \/ SignRevision(p) \/ Declare(p) \/ Record(p)

GatewayFault(p) ==
    \/ GiveUp(p) \/ LoseReply(p) \/ SignFails(p) \/ DeclareFails(p)
    \/ GatewayStops(p)

\* UnscannedUpload of the gateway: the file of a publisher goes to the store.
UnscannedUpload == \E f \in Files : Upload(f) /\ UNCHANGED pipeline

PipelineNext ==
    \/ UnscannedUpload
    \/ \E p \in Pushes :
          \/ \E req \in Request : Accept(p, req)
          \/ GatewayStep(p) \/ GatewayFault(p) \/ StoreStep(p)

PipelineSpec == PipelineInit /\ [][PipelineNext]_pipelineVars

\* Pushes of one snap that do not overlap in the store.
PipelineSerialSpec == PipelineInit /\ [][PipelineNext /\ Serialised']_pipelineVars

\* The goroutines of the gateway and of the store are scheduled, and their
\* calls return.  Nothing is assumed of publishers or of failures.
FairPipelineSpec ==
    /\ PipelineSpec
    /\ \A p \in Pushes : /\ WF_pipelineVars(GatewayStep(p))
                         /\ WF_pipelineVars(StoreStep(p))

-----------------------------------------------------------------------------
Stages == Called \cup {"none", "metadata", "entry", "returned"}

UploadRow == [status : {"none", "pending", "processed"},
              revision : 0..MaxSequence, errors : SUBSET Codes]

RevisionAssertion == [push : Pushes, entry : Entries, sha : Contents,
                      revision : 0..MaxSequence]

\* The type of every variable of the pipeline.
PipelineTypeOK ==
    /\ gw \in [Pushes -> Stages]
    /\ body \in [Pushes -> Request]
    /\ answer \in [Pushes -> 0..MaxSequence]
    /\ problems \in [Pushes -> SUBSET Codes]
    /\ uploads \in [Pushes -> UploadRow]
    /\ described \in [Entries -> {{}} \cup {{f} : f \in Files}]
    /\ revisionAsserts \subseteq RevisionAssertion
    /\ declarations \subseteq Pushes

Processed(p) == uploads[p].status = "processed"

\* GetUploadStatus of the gateway, which the publisher polls: the errors of the
\* upload are not in it.
GetUploadStatus(p) == [processed |-> Processed(p), revision |-> uploads[p].revision]

-----------------------------------------------------------------------------
(***************************************************************************)
(* Publishers that wait, as snapcraft and the monitor do when they poll    *)
(* the status: a snap is pushed when each push of it that was accepted is  *)
(* processed.  The gateway calls AddRevision without a deadline; while no  *)
(* connection is lost under such a call, these pushes do not overlap in    *)
(* the store.                                                              *)
(***************************************************************************)
\* No push of a snap is accepted while another of it is on its way.
Waits ==
    \A p, q \in Pushes :
        /\ gw[p] = "none" /\ gw'[p] # "none"
        /\ q # p /\ gw[q] # "none" /\ body[q].entry = body'[p].entry
        => GetUploadStatus(q).processed

\* The gateway goes on from AddRevision when the store has ended the push.
ReplyIsAwaited ==
    \A p \in Pushes : gw[p] = "wait" /\ gw'[p] = "sign" => pc[p] \in Ended

PatientSpec ==
    PipelineInit /\ [][PipelineNext /\ Waits /\ ReplyIsAwaited]_pipelineVars

-----------------------------------------------------------------------------
\* However the services fail and interleave, an upload that the publisher sees
\* processed with a number has, under this number, a row for each target with
\* the digest of the file, and a file in the store.
ProcessedIsPublished ==
    \A p \in Pushes : Processed(p) /\ uploads[p].revision # 0 =>
        /\ \A t \in body[p].targets : \E r \in rows :
              /\ r.entry = body[p].entry /\ r.target = t
              /\ r.seq = uploads[p].revision /\ r.sha = Digest[body[p].file]
        /\ SnapPath(body[p].entry, uploads[p].revision) \in DOMAIN snaps

\* An upload that is recorded without an error has all that snapd needs: a
\* number, a snap-revision assertion of this number and digest, and a
\* snap-declaration.  The recorded list omits resource-not-found, so that an
\* empty list does not mean that AddRevision reported no error.
CleanUploadIsInstallable ==
    \A p \in Pushes : Processed(p) /\ uploads[p].errors = {} =>
        /\ pc[p] = "done" /\ uploads[p].revision = seq[p]
        /\ p \in declarations
        /\ \E a \in revisionAsserts :
              /\ a.entry = body[p].entry /\ a.sha = Digest[body[p].file]
              /\ a.revision = seq[p]

\* The assertion service vouches for revisions of the store only: for each
\* snap-revision assertion there is a row with its snap, number and digest
\* (unless the push that asked for it had no well-formed track/channel).
AssertedIsRevision ==
    \A a \in revisionAsserts :
        \/ \E r \in rows : r.entry = a.entry /\ r.seq = a.revision /\ r.sha = a.sha
        \/ body[a.push].targets = {} /\ pc[a.push] = "done"

\* A snap with a revision has the metadata of a file that was pushed to it.
PublishedIsDescribed ==
    \A r \in rows : \E p \in Pushes :
        pc[p] # "idle" /\ EntryOf(p) = r.entry /\ described[r.entry] = {FileOf(p)}

\* What the assertion service vouches for is what the store serves.
AssertedIsServed ==
    \A a \in revisionAsserts :
        /\ SnapPath(a.entry, a.revision) \in DOMAIN snaps
        /\ snaps[SnapPath(a.entry, a.revision)] = a.sha

\* snapd looks an assertion up by digest and is given any that matches: within
\* a snap there is one for each digest and for each number.
AssertionsAreUnique ==
    \A a, b \in revisionAsserts :
        a.entry = b.entry /\ (a.sha = b.sha \/ a.revision = b.revision) => a = b

\* The publisher who polls an upload is told in the end, whatever the outcome
\* in the store, unless the goroutine of the push gave up or stopped.
PollingEnds ==
    \A p \in Pushes :
        uploads[p].status = "pending" ~> GetUploadStatus(p).processed \/ gw[p] \in {"returned", "stopped"}

\* A processed upload has a revision.
ProcessedHasRevision ==
    \A p \in Pushes : GetUploadStatus(p).processed => GetUploadStatus(p).revision # 0
=============================================================================
