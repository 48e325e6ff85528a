------------------------------ MODULE Readers ------------------------------
(***************************************************************************)
(* Those who only read a deployment, each in several calls of the services *)
(* that others write between: the account page of the gateway, and snapd,  *)
(* which installs a snap by the assertions it finds through the gateway.   *)
(***************************************************************************)
EXTENDS LookUps

CONSTANT MaxNumber  \* bound on the revision numbers that snapd asks for

ASSUME ReadersAssumption == MaxNumber \in Nat

VARIABLES
    page,           \* the account page being made: step, and what is read
    install         \* the installation of a snap: step, and what is read

readersVars == <<storefrontVars, page, install>>

Page == [step : {"idle", "account", "keys", "snaps", "revisions", "publishers", "shown", "error"},
         email : Emails, id : AccountIds, row : Row, keys : SUBSET Keys,
         snaps : SUBSET Snaps, files : SUBSET (Snaps \X Files), publishers : SUBSET AccountIds]
NoPage == [step |-> "idle", email |-> CHOOSE e \in Emails : TRUE,
           id |-> CHOOSE i \in AccountIds : TRUE, row |-> Root, keys |-> {},
           snaps |-> {}, files |-> {}, publishers |-> {}]

Install == [step : {"idle", "by id", "by name", "release", "publisher", "number", "download",
                    "revision", "declaration", "account", "root key", "root account",
                    "trusted", "failed"},
            refresh : BOOLEAN, snap : Snaps, number : 0..MaxNumber, owner : AccountIds,
            publisher : DisplayNames, answer : 0..Len(TestSnaps), digest : Digests,
            doc : RevisionDoc]
NoInstall ==
    LET snap == CHOOSE s \in Snaps : TRUE
    IN  [step |-> "idle", refresh |-> FALSE, snap |-> snap, number |-> 0, owner |-> NoPage.id,
         publisher |-> Root.display, answer |-> 0, digest |-> Digest[NoFile],
         doc |-> [digest |-> Digest[NoFile], developer |-> NoPage.id, snap |-> snap, revision |-> 0]]

ReadersInit == StorefrontInit /\ page = NoPage /\ install = NoInstall

-----------------------------------------------------------------------------
(* GetAccount of the gateway *)

GetAccount ==
    /\ gateway = "serving" /\ page.step = "idle"
    /\ \E email \in Emails : page' = [NoPage EXCEPT !.step = "account", !.email = email]
    /\ UNCHANGED <<storefrontVars, install>>

\* The handler goes on with the rows of an answer, or ends with its errors.
Read(from, answers, With(_)) ==
    /\ page.step = from
    /\ \E a \in answers : page' = IF a.errors = {} THEN With(a.rows)
                                  ELSE [NoPage EXCEPT !.step = "error"]
    /\ UNCHANGED <<storefrontVars, install>>

WithAccount(rows) ==
    LET r == CHOOSE r \in rows : TRUE
    IN  [page EXCEPT !.step = "keys", !.id = r.id, !.row = r.row]
ReadAccount == Read("account", AskAccountByEmail(page.email), WithAccount)

WithKeys(rows) == [page EXCEPT !.step = "snaps", !.keys = rows]

\* Faulty variant: an account without keys gets a page.
ReadKeysOrNone ==
    /\ page.step = "keys"
    /\ \E a \in AskAccountKeysByAccountID(page.id) : page' = WithKeys(a.rows)
    /\ UNCHANGED <<storefrontVars, install>>

ReadKeys == Read("keys", AskAccountKeysByAccountID(page.id), WithKeys)

WithSnaps(rows) == [page EXCEPT !.step = "revisions", !.snaps = rows]
ReadSnaps == Read("snaps", AskEntriesByAccountID(page.id), WithSnaps)

WithRevisions(rows) ==
    [page EXCEPT !.step = "publishers", !.files = UNION {{s} \X rows[s] : s \in page.snaps}]
ReadRevisions == Read("revisions", AskRevisionsByEntryIds(page.snaps), WithRevisions)

\* The account id of every snap that was found is looked up again.
WithPublishers(rows) == [page EXCEPT !.step = "shown", !.publishers = {r.id : r \in rows}]
ReadPublishers == Read("publishers", AskAccountsByIds({page.id}), WithPublishers)

LeavePage ==
    /\ page.step \in {"shown", "error"} /\ page' = NoPage
    /\ UNCHANGED <<storefrontVars, install>>

MakePage ==
    \/ GetAccount \/ ReadAccount \/ ReadKeys \/ ReadSnaps \/ ReadRevisions \/ ReadPublishers
    \/ LeavePage

-----------------------------------------------------------------------------
(* snapd installs or refreshes a snap: it asks for a revision, downloads its *)
(* file, and follows the assertions from the digest to a key that it trusts. *)

BeginInstall ==
    /\ gateway = "serving" /\ install.step = "idle"
    /\ \E s \in Snaps, refresh \in BOOLEAN, n \in 0..MaxNumber :
          /\ refresh => \E f \in FilesOf(s) : TRUE
          /\ install' = [NoInstall EXCEPT !.step = IF refresh THEN "by id" ELSE "by name",
                                         !.refresh = refresh, !.snap = s, !.number = n]
    /\ UNCHANGED <<storefrontVars, page>>

\* What is asked for at a step: by the gateway for its answer, and then by snapd
\* of the gateway.
Sought ==
    CASE install.step = "by id"        -> AskEntryById(install.snap)
      [] install.step = "by name"      -> AskEntries({install.snap})
      [] install.step = "release"      -> AskLatestRevisionByTrackAndChannel(install.snap)
      [] install.step = "publisher"    -> AskAccountByID(install.owner)
      [] install.step = "number"       -> AskRevisionByNameAndSequence(install.snap, install.number)
      [] install.step = "download"     -> SnapDownloadStream(install.snap, install.answer)
      [] install.step = "revision"     -> AskSnapRevisionAssertion(install.digest)
      [] install.step = "declaration"  -> AskSnapDeclarationAssertion(install.doc.snap)
      [] install.step = "account"      -> AskAccountAssertion(install.doc.developer)
      [] install.step = "root key"     -> AskAccountKeyAssertion(RootKey)
      [] install.step = "root account" -> AskAccountAssertion(RootAccount)
      [] OTHER                         -> {}

\* What is found at a step, or the end of the installation with its errors.
Fetch(from, With(_)) ==
    /\ install.step = from
    /\ \E a \in Sought :
          IF a.errors = {} THEN \E row \in a.rows : install' = With(row)
          ELSE install' = [NoInstall EXCEPT !.step = "failed"]
    /\ UNCHANGED <<storefrontVars, page>>

\* refreshRefresh: the snap by its id, the publisher, and then the revision of
\* the number, or the one that is released on the channel.
WithEntry(row) == [install EXCEPT !.step = "publisher", !.owner = row.owner]
GetEntryOfRefresh == Fetch("by id", WithEntry)

\* refreshInstallOrDownload: the snap by its name and its release, also when a
\* number is asked for, then the publisher, and the revision of the number.
WithName(row) ==
    [install EXCEPT !.step = "release", !.owner = IF install.refresh THEN @ ELSE row.owner]
GetEntryByItsName == Fetch("by name", WithName)

Answered(row) == [install EXCEPT !.step = "download", !.number = 0, !.answer = row.number,
                                 !.digest = Digest[row.file]]
WithRelease(row) ==
    IF install.refresh THEN Answered(row)
    ELSE [install EXCEPT !.step = "publisher", !.answer = row.number, !.digest = Digest[row.file]]
GetRelease == Fetch("release", WithRelease)

WithPublisher(found) ==
    [install EXCEPT !.publisher = found.row.display,
                    !.step = CASE install.number > 0 -> "number"
                               [] install.refresh    -> "by name"
                               [] OTHER              -> "download"]
GetPublisher == Fetch("publisher", WithPublisher)

GetNumbered == Fetch("number", Answered)

AnswerRefresh == GetEntryOfRefresh \/ GetEntryByItsName \/ GetRelease \/ GetPublisher \/ GetNumbered

\* snapd goes on with a file of the digest that was announced.
WithBytes(digest) == [install EXCEPT !.step = IF digest = install.digest THEN "revision" ELSE "failed"]
DownloadSnap == Fetch("download", WithBytes)

\* The handlers of the assertions: the signed text, or status 500.
To(step) == [install EXCEPT !.step = step]
FetchRevision ==
    LET WithDoc(d) == [install EXCEPT !.step = "declaration", !.doc = d]
    IN  Fetch("revision", WithDoc)
FetchDeclaration == LET WithText(d) == To("account") IN Fetch("declaration", WithText)
FetchAccount == LET WithText(d) == To("root key") IN Fetch("account", WithText)
FetchRootKey == LET WithText(d) == To("root account") IN Fetch("root key", WithText)
FetchRootAccount == LET WithText(d) == To("trusted") IN Fetch("root account", WithText)

EndInstall ==
    /\ install.step \in {"trusted", "failed"} /\ install' = NoInstall
    /\ UNCHANGED <<storefrontVars, page>>

InstallSnap ==
    \/ BeginInstall \/ AnswerRefresh \/ DownloadSnap \/ FetchRevision \/ FetchDeclaration \/ FetchAccount
    \/ FetchRootKey \/ FetchRootAccount \/ EndInstall

-----------------------------------------------------------------------------
\* A step of all the others.  What the gateway has in hand ends with it.
StepOfStorefront ==
    /\ StorefrontNext
    /\ page' = IF gateway' = "serving" THEN page ELSE NoPage
    /\ install' = IF gateway' = "serving" THEN install ELSE NoInstall

ReadersNext == StepOfStorefront \/ MakePage \/ InstallSnap

ReadersSpec == ReadersInit /\ [][ReadersNext]_readersVars

-----------------------------------------------------------------------------
ReadersTypeOK == StorefrontTypeOK /\ page \in Page /\ install \in Install

\* However accounts are patched and deleted between its queries, an account page
\* that is shown is of one account, which is still there with this email and
\* display name, since only an account with a key gets a page; the keys and the
\* snaps on it are those of that account, and the publisher of each snap was
\* found: none is "Unknown Publisher".
PageIsTrue ==
    page.step = "shown" =>
        /\ page.id \in DOMAIN accounts
        /\ accounts[page.id].email = page.email
        /\ accounts[page.id].display = page.row.display
        /\ \A k \in page.keys : keys[k] = page.id
        /\ page.snaps # {} /\ \A s \in page.snaps : entries[s] = page.id
        /\ {entries[s] : s \in page.snaps} \subseteq page.publishers
        /\ \A sf \in page.files : sf[2] \in FilesOf(sf[1])

\* The service that answers at a step.
Asked ==
    CASE install.step \in {"by id", "by name", "release", "number", "download"} -> store
      [] install.step = "publisher" -> account
      [] OTHER                      -> assertion

\* In test mode, while the services serve, what snapd needs to install or refresh
\* a snap of the test data can be found at each step, on its way from the name or
\* id to the trusted key: the loader has asserted all that it has put in the
\* store.  Only a client that deletes the account of the publisher ends this.
InstallFindsAll ==
    (/\ testMode
     /\ install.step \notin {"idle", "trusted", "failed"} /\ Asked = "serving"
     /\ \E i \in DOMAIN TestSnaps : install.snap = TestSnaps[i].snap
     /\ install.number <= Len(revisions[install.snap])
     /\ install.step = "publisher" => install.owner \in DOMAIN accounts) =>
        \E a \in Sought : a.errors = {}

\* What snapd then trusts agrees with the store: the asserted snap belongs to the
\* asserted developer, and its revision of the asserted number is a file of the
\* digest.  When it is the snap that was asked for, which it need not be when
\* two have such a file, the answer of the gateway has its number, and names the
\* publisher as the account assertions do.
InstallIsTrue ==
    install.step = "trusted" =>
        LET d == install.doc
        IN  /\ d.digest = install.digest
            /\ d.snap \in DOMAIN entries /\ entries[d.snap] = d.developer
            /\ d.revision \in DOMAIN revisions[d.snap]
            /\ Digest[revisions[d.snap][d.revision]] = d.digest
            /\ d.snap = install.snap =>
                  /\ d.revision = install.answer /\ d.developer = install.owner
                  /\ \A i \in About("account", d.developer) :
                        documents["account"][i].body = install.publisher
=============================================================================
