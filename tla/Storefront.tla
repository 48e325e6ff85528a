----------------------------- MODULE Storefront -----------------------------
(***************************************************************************)
(* A deployment with what is in its store: the snaps that the loader of    *)
(* test data brings before the gateway serves, and the names that          *)
(* publishers register once it does.  A call of the store or the assertion *)
(* service that Registration or Publishing takes apart is one step here:   *)
(* what such a call leaves half done, the gateway has no loader to go on   *)
(* with, and never serves.                                                 *)
(***************************************************************************)
EXTENDS Deployment, FiniteSets

CONSTANTS
    Files,          \* names of uploaded files: uuids, each new
    Digests,        \* SHA3-384 of what is in a file
    Digest,         \* the one of each file
    TestSnaps       \* the snaps of the test data: name, owner (a place in
                    \* TestAccounts) and digest of the file, in order

VARIABLES
    entries,        \* table "entry": snap -> id of its account
    revisions,      \* table "revision": snap -> its files, in order
    unscanned,      \* files in the bucket of that name
    uploads,        \* table "upload": file -> snap, status and revision
    revisionDocs,   \* snap-revision assertions
    done,           \* snaps the loader has dealt with
    snapStep,       \* what it has done for the next
    file,           \* the file it has uploaded last
    publisher       \* the account a request to register a name has found, if any

storeVars == <<entries, revisions, unscanned, uploads, revisionDocs>>
snapLoaderVars == <<done, snapStep, file>>
storefrontVars == <<deploymentVars, storeVars, snapLoaderVars, publisher>>

TestSnap == [snap : Snaps, owner : DOMAIN TestAccounts, digest : Digests]
Upload == [snap : Snaps, status : {"processed"}, revision : Nat]
RevisionDoc == [digest : Digests, developer : AccountIds, snap : Snaps, revision : Nat]

ASSUME StorefrontAssumption ==
    /\ Files # {} /\ Snaps # {}
    /\ Digest \in [Files -> Digests]
    /\ TestSnaps \in Seq(TestSnap)

NoFile == CHOOSE f \in Files : TRUE

StorefrontInit ==
    /\ DeploymentInit
    /\ entries = << >> /\ revisions = [s \in Snaps |-> << >>]
    /\ unscanned = {} /\ uploads = << >> /\ revisionDocs = {}
    /\ done = 0 /\ snapStep = "start" /\ file = NoFile
    /\ publisher = {}

-----------------------------------------------------------------------------
(* The store *)

\* RegisterSnapName, not as a dry run: a name is given once.
RegisterSnapName(s, id) ==
    /\ store = "serving"
    /\ s \notin DOMAIN entries
    /\ entries' = [t \in DOMAIN entries \cup {s} |-> IF t = s THEN id ELSE entries[t]]
    /\ UNCHANGED <<revisions, unscanned, uploads, revisionDocs>>

\* Files that have a name no other upload has.
FreshFiles == {f \in Files \ (unscanned \cup DOMAIN uploads) :
                  \A s \in Snaps : \A i \in DOMAIN revisions[s] : revisions[s][i] # f}

\* UnscannedUpload: the stream is saved under a new name.
UnscannedUpload(f) ==
    /\ store = "serving"
    /\ f \in FreshFiles
    /\ unscanned' = unscanned \cup {f}
    /\ UNCHANGED <<entries, revisions, uploads, revisionDocs>>

\* AddUpload: a row of its own for an upload.
AddUpload(f, s, status, number) ==
    /\ store = "serving"
    /\ f \notin DOMAIN uploads
    /\ uploads' = [g \in DOMAIN uploads \cup {f} |->
                      IF g = f THEN [snap |-> s, status |-> status, revision |-> number]
                      ELSE uploads[g]]
    /\ UNCHANGED <<entries, revisions, unscanned, revisionDocs>>

UpdateUploadStatus(f, status, number) ==
    /\ store = "serving"
    /\ f \in DOMAIN uploads
    /\ uploads' = [uploads EXCEPT ![f].status = status, ![f].revision = number]
    /\ UNCHANGED <<entries, revisions, unscanned, revisionDocs>>

\* GetObjectCustomMetadata: what a file is, while it is in its bucket.
GetObjectCustomMetadata(f) ==
    /\ store = "serving"
    /\ f \in unscanned
    /\ UNCHANGED storeVars

\* AddRevision to a channel that the snap has.
AddRevision(s, f) ==
    /\ store = "serving"
    /\ s \in DOMAIN entries /\ f \in unscanned
    /\ \A i \in DOMAIN revisions[s] : Digest[revisions[s][i]] # Digest[f]
    /\ revisions' = [revisions EXCEPT ![s] = Append(@, f)]
    /\ unscanned' = unscanned \ {f}
    /\ UNCHANGED <<entries, uploads, revisionDocs>>

\* AddSnapRevisionAssertion: one insertion, without a look at what there is.
AddSnapRevisionAssertion(digest, developer, s, number) ==
    /\ assertion = "serving"
    /\ number > 0
    /\ revisionDocs' = revisionDocs \cup
           {[digest |-> digest, developer |-> developer, snap |-> s, revision |-> number]}
    /\ UNCHANGED <<entries, revisions, unscanned, uploads>>

-----------------------------------------------------------------------------
(* loadInStoreDataInDB: the second half of the loader of test data *)

NextSnap == TestSnaps[done + 1]
OwnerOfNext == idOf[NextSnap.owner]

LoadStep(from, to) ==
    /\ gateway = "load snaps" /\ done < Len(TestSnaps)
    /\ snapStep = from /\ snapStep' = to

RegisterTestSnap ==
    /\ LoadStep("start", "registered")
    /\ RegisterSnapName(NextSnap.snap, OwnerOfNext)
    /\ UNCHANGED <<deploymentVars, done, file, publisher>>

UploadTestFile ==
    /\ LoadStep("registered", "uploaded")
    /\ \E f \in Files : /\ Digest[f] = NextSnap.digest
                        /\ UnscannedUpload(f) /\ file' = f
    /\ UNCHANGED <<deploymentVars, done, publisher>>

\* The row says that revision 1 was processed before there is one.
AddTestUpload ==
    /\ LoadStep("uploaded", "upload added")
    /\ AddUpload(file, NextSnap.snap, "processed", 1)
    /\ UNCHANGED <<deploymentVars, done, file, publisher>>

\* The digest of the file, for its revision.
ReadTestMetadata ==
    /\ LoadStep("upload added", "metadata read")
    /\ GetObjectCustomMetadata(file)
    /\ UNCHANGED <<deploymentVars, done, file, publisher>>

AddTestRevision ==
    /\ LoadStep("metadata read", "revision added")
    /\ AddRevision(NextSnap.snap, file)
    /\ UNCHANGED <<deploymentVars, done, file, publisher>>

\* Faulty variant: the revision is asserted as one of whoever was added last.
AssertTestRevisionOfLast ==
    /\ LoadStep("revision added", "revision asserted")
    /\ AddSnapRevisionAssertion(NextSnap.digest, idOf[Len(idOf)], TestSnaps[1].snap,
                                Len(revisions[NextSnap.snap]))
    /\ UNCHANGED <<deploymentVars, done, file, publisher>>

AssertTestRevision ==
    /\ LoadStep("revision added", "revision asserted")
    /\ AddSnapRevisionAssertion(NextSnap.digest, OwnerOfNext, NextSnap.snap,
                                Len(revisions[NextSnap.snap]))
    /\ UNCHANGED <<deploymentVars, done, file, publisher>>

\* The two statements of a declaration, which the assertion service makes for
\* the loader as for any push.
DeclareTestSnap ==
    /\ LoadStep("revision asserted", "declared")
    /\ assertion = "serving"
    /\ \E w \in Pushing : AddSnapDeclarationAssertion(w, NextSnap.snap, NextSnap.snap)
    /\ UNCHANGED <<accountVars, services, gatewayVars, crashes, storeVars, done, file, publisher>>

InsertTestDeclaration ==
    /\ LoadStep("declared", "declaration inserted")
    /\ assertion = "serving"
    /\ \E w \in Pushing : draft[w].subject = NextSnap.snap /\ InsertSnapDeclarationAssertion(w)
    /\ UNCHANGED <<accountVars, services, gatewayVars, crashes, storeVars, done, file, publisher>>

FinishTestSnap ==
    /\ LoadStep("declaration inserted", "start")
    /\ UpdateUploadStatus(file, "processed", Len(revisions[NextSnap.snap]))
    /\ done' = done + 1
    /\ UNCHANGED <<deploymentVars, file, publisher>>

LoadSnaps ==
    \/ RegisterTestSnap \/ UploadTestFile \/ AddTestUpload \/ ReadTestMetadata
    \/ AddTestRevision \/ AssertTestRevision \/ DeclareTestSnap \/ InsertTestDeclaration
    \/ FinishTestSnap

-----------------------------------------------------------------------------
(* A publisher registers a name: the gateway finds the account by its email, *)
(* and then has the store register the name for the id of the account.       *)

FindPublisher ==
    /\ gateway = "serving" /\ account = "serving" /\ publisher = {}
    /\ \E email \in Emails : \E id \in WithEmail(email) : publisher' = {id}
    /\ UNCHANGED <<deploymentVars, storeVars, snapLoaderVars>>

RegisterForPublisher ==
    /\ \E s \in Snaps, id \in publisher : RegisterSnapName(s, id)
    /\ publisher' = {}
    /\ UNCHANGED <<deploymentVars, snapLoaderVars>>

\* The store refuses the name, or fails.
RefusePublisher ==
    /\ publisher # {} /\ publisher' = {}
    /\ UNCHANGED <<deploymentVars, storeVars, snapLoaderVars>>

Publish == FindPublisher \/ RegisterForPublisher \/ RefusePublisher

-----------------------------------------------------------------------------
\* Faulty variant: the gateway serves when its last snap has a revision.
DeploymentStepEarly ==
    /\ DeploymentNext
    /\ (gateway = "load snaps" /\ gateway' = "serving") =>
          (done = Len(TestSnaps) \/ (done + 1 = Len(TestSnaps) /\ snapStep = "revision added"))
    /\ IF gateway' = "load snaps" THEN UNCHANGED snapLoaderVars
       ELSE done' = 0 /\ snapStep' = "start" /\ file' = NoFile
    /\ publisher' = IF gateway' = "serving" THEN publisher ELSE {}
    /\ UNCHANGED storeVars

\* A step of the deployment: the loader ends its second half when all snaps are
\* there, and all that the gateway has in hand is lost when it ends.
StepOfDeployment ==
    /\ DeploymentNext
    /\ (gateway = "load snaps" /\ gateway' = "serving") => done = Len(TestSnaps)
    /\ IF gateway' = "load snaps" THEN UNCHANGED snapLoaderVars
       ELSE done' = 0 /\ snapStep' = "start" /\ file' = NoFile
    /\ publisher' = IF gateway' = "serving" THEN publisher ELSE {}
    /\ UNCHANGED storeVars

StorefrontNext == StepOfDeployment \/ LoadSnaps \/ Publish

StorefrontSpec == StorefrontInit /\ [][StorefrontNext]_storefrontVars

-----------------------------------------------------------------------------
(***************************************************************************)
(* The revisions as the archive that Publishing fills in more steps, when  *)
(* the pushes of a snap do not overlap: the store is as good here as it is *)
(* there.  The numbers go as far as the loader has snaps.                  *)
(***************************************************************************)
ServedNumbers == {k \in Snaps \X (1..Len(TestSnaps)) : k[2] \in DOMAIN revisions[k[1]]}

ServedDigests == [k \in ServedNumbers |-> Digest[revisions[k[1]][k[2]]]]

StoreArchive == INSTANCE Archive WITH
                    Entries <- Snaps, Contents <- Digests, MaxSequence <- Len(TestSnaps),
                    archive <- ServedDigests

FillsAnArchive == StoreArchive!Spec

-----------------------------------------------------------------------------
StorefrontTypeOK ==
    /\ DeploymentTypeOK
    /\ DOMAIN entries \subseteq Snaps /\ \A s \in DOMAIN entries : entries[s] \in AccountIds
    /\ revisions \in [Snaps -> Seq(Files)]
    /\ unscanned \subseteq Files
    /\ DOMAIN uploads \subseteq Files /\ \A f \in DOMAIN uploads : uploads[f] \in Upload
    /\ revisionDocs \subseteq RevisionDoc
    /\ done \in 0..Len(TestSnaps)
    /\ snapStep \in {"start", "registered", "uploaded", "upload added", "metadata read",
                     "revision added", "revision asserted", "declared", "declaration inserted"}
    /\ file \in Files
    /\ publisher \subseteq AccountIds
=============================================================================
