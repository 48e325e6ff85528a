------------------------------ MODULE LookUps ------------------------------
(***************************************************************************)
(* What a deployment may answer to those who only read it.  A look-up has  *)
(* three layers: the statement of a repository, the call of a service      *)
(* around it, and the client of that service.                              *)
(***************************************************************************)
EXTENDS Storefront, ErrorLists

(* Statements.  What one finds is a set of rows, or the code of an error.  *)

Found(rows) == [error |-> "", rows |-> rows]
Refused(error) == [error |-> ConvertError(error), rows |-> {}]
Failed == {Refused(f) : f \in Failures}

\* db.Get: the first of the rows that match; it is an error that there is none.
dbGet(rows) ==
    Failed \cup IF rows = {} THEN {Refused("no rows")} ELSE {Found({r}) : r \in rows}

\* db.Select of all rows, with the look at their number that follows it.
dbSelect(rows) ==
    Failed \cup {IF rows = {} THEN [error |-> "resource-not-found", rows |-> {}] ELSE Found(rows)}

\* findOne of a collection of MongoDB.
findOne(docs) ==
    Failed \cup IF docs = {} THEN {Refused("no documents")} ELSE {Found({d}) : d \in docs}

\* A list of answers that services make of results, and the list when a call
\* ends with a Go error.
Answer(result) == [errors |-> {result.error} \ {""}, rows |-> result.rows]
NoAnswer == [errors |-> {NoReply[i] : i \in DOMAIN NoReply}, rows |-> {}]
GoError(result) == IF result.error = "" THEN Answer(result) ELSE NoAnswer

Answers(results) == {Answer(r) : r \in results}

\* A statement for what another has found.
Then(results, Next(_)) ==
    {r \in results : r.error # ""} \cup
    UNION {Next(row) : row \in UNION {r.rows : r \in results}}

\* A look-up for each of several keys: what is found, and all the errors.
ForEach(ids, LookUp(_)) ==
    {[errors |-> UNION {Answer(found[i]).errors : i \in ids},
      rows |-> UNION {found[i].rows : i \in ids}] :
        found \in {f \in [ids -> UNION {LookUp(i) : i \in ids}] :
                      \A i \in ids : f[i] \in LookUp(i)}}

\* A client: the call fails, or the service has answered.
Ask(status, answers) == {NoAnswer} \cup IF status = "serving" THEN answers ELSE {}

-----------------------------------------------------------------------------
(* Look-ups of the account service.  The table of SSH keys is always empty, *)
(* but every look-up of an account reads it.                                *)

RowOf(id) == [id |-> id, row |-> accounts[id]]

repoGetSSHKeysByAccountID == Failed \cup {Found({})}
handleAssociations(row) ==
    {IF r.error = "" THEN Found({row}) ELSE r : r \in repoGetSSHKeysByAccountID}

repoGetAccountByEmail(email) ==
    Then(dbGet({RowOf(i) : i \in WithEmail(email)}), handleAssociations)
repoGetAccountByID(id) ==
    Then(dbGet({RowOf(i) : i \in {id} \cap DOMAIN accounts}), handleAssociations)
repoGetKeysByAccountID(id) == dbSelect({k \in DOMAIN keys : keys[k] = id})

convertToProtoAccount(results) == Answers(results)

GetAccountByEmail(email) == convertToProtoAccount(repoGetAccountByEmail(email))
GetAccountByID(id) == convertToProtoAccount(repoGetAccountByID(id))
GetAccountsByIds(ids) == ForEach(ids, repoGetAccountByID)
GetKeysByAccountId(id) == Answers(repoGetKeysByAccountID(id))

AskAccountByEmail(email) == Ask(account, GetAccountByEmail(email))
AskAccountByID(id) == Ask(account, GetAccountByID(id))
AskAccountsByIds(ids) == Ask(account, GetAccountsByIds(ids))
AskAccountKeysByAccountID(id) == Ask(account, GetKeysByAccountId(id))

-----------------------------------------------------------------------------
(* Look-ups of the store *)

EntryOf(s) == [snap |-> s, owner |-> entries[s]]
RevisionsOf(s) ==
    {[snap |-> s, number |-> i, file |-> revisions[s][i]] : i \in DOMAIN revisions[s]}
FilesOf(s) == {r.file : r \in RevisionsOf(s)}

repoGetEntryById(s) == dbGet({EntryOf(t) : t \in {s} \cap DOMAIN entries})
repoGetEntryByName(name) == dbGet({EntryOf(t) : t \in {name} \cap DOMAIN entries})
repoGetEntriesByAccountId(id) == dbSelect({s \in DOMAIN entries : entries[s] = id})
repoGetRevisionsByEntryId(s) == dbSelect(FilesOf(s))
repoGetRevisionById(s, n) == dbGet({r \in RevisionsOf(s) : r.number = n})

\* Two queries: the id of the name, and its revisions of the number.
repoGetRevisionByNameAndSequence(name, n) ==
    LET RevisionOf(entry) == dbGet({r \in RevisionsOf(entry.snap) : r.number = n})
    IN  Then(repoGetEntryByName(name), RevisionOf)

\* On latest/stable, the one channel that the loader releases to.
repoGetLatestRevisionByTrackAndChannel(name) ==
    dbGet({r \in RevisionsOf(name) : r.number = Len(revisions[name])})

parseEntryToProto(results) == Answers(results)
convertRevisionToProto(results) == Answers(results)

\* GetEntries, by their names.
GetEntries(names) == ForEach(names, repoGetEntryByName)
GetEntryById(s) == parseEntryToProto(repoGetEntryById(s))
GetRevisionByNameAndSequence(name, n) ==
    LET RevisionOf(entry) == repoGetRevisionByNameAndSequence(entry.snap, n)
    IN  convertRevisionToProto(Then(repoGetEntryByName(name), RevisionOf))
GetLatestRevisionByTrackAndChannel(name) ==
    convertRevisionToProto(repoGetLatestRevisionByTrackAndChannel(name))

\* SnapDownload: the row of the revision, and then the bytes of its file.
getObjectStoreFilePath(s, n) == repoGetRevisionById(s, n)
SnapDownload(s, n) ==
    LET Bytes(r) == {Refused("no connection"), Found({Digest[r.file]})}
    IN  Answers(Then(getObjectStoreFilePath(s, n), Bytes))

GetEntriesByAccountId(id) == Answers(repoGetEntriesByAccountId(id))

\* One look-up for each snap; its errors are only told beside the snap, whose
\* revisions are then left out.
GetRevisionsByEntryIds(snaps) ==
    {[errors |-> {}, rows |-> [s \in snaps |-> found[s].rows]] :
        found \in {f \in [snaps -> UNION {repoGetRevisionsByEntryId(s) : s \in snaps}] :
                      \A s \in snaps : f[s] \in repoGetRevisionsByEntryId(s)}}

AskEntries(names) == Ask(store, GetEntries(names))
AskEntryById(s) == Ask(store, GetEntryById(s))
AskRevisionByNameAndSequence(name, n) == Ask(store, GetRevisionByNameAndSequence(name, n))
AskLatestRevisionByTrackAndChannel(name) ==
    Ask(store, GetLatestRevisionByTrackAndChannel(name))
SnapDownloadStream(s, n) == Ask(store, SnapDownload(s, n))
AskEntriesByAccountID(id) == Ask(store, GetEntriesByAccountId(id))
AskRevisionsByEntryIds(snaps) == Ask(store, GetRevisionsByEntryIds(snaps))

-----------------------------------------------------------------------------
(* Look-ups of the assertion service.  Two of its calls end with a Go error *)
(* where the other two have an error list: for the client it is the same.   *)

DocumentsAbout(kind, s) == {documents[kind][i] : i \in About(kind, s)}

repoGetSnapRevisionAssertionBySHA3_384(digest) ==
    findOne({d \in revisionDocs : d.digest = digest})
repoGetSnapDeclarationAssertionBySnapEntryID(s) == findOne(DocumentsAbout("snap-declaration", s))
repoGetAccountAssertionByAccountID(id) == findOne(DocumentsAbout("account", id))
repoGetAccountKeyAssertionByPublicKeySha(key) ==
    findOne({documents["account-key"][i] : i \in
                {i \in DOMAIN documents["account-key"] : documents["account-key"][i].body = key}})

GetSnapRevisionAssertionBySHA3_384(digest) ==
    {GoError(r) : r \in repoGetSnapRevisionAssertionBySHA3_384(digest)}
GetSnapDeclarationAssertionBySnapID(s) ==
    Answers(repoGetSnapDeclarationAssertionBySnapEntryID(s))
GetAccountAssertionByAccountID(id) == Answers(repoGetAccountAssertionByAccountID(id))
GetAccountKeyAssertionByPublicKeySha(key) ==
    {GoError(r) : r \in repoGetAccountKeyAssertionByPublicKeySha(key)}

AskSnapRevisionAssertion(digest) == Ask(assertion, GetSnapRevisionAssertionBySHA3_384(digest))
AskSnapDeclarationAssertion(s) == Ask(assertion, GetSnapDeclarationAssertionBySnapID(s))
AskAccountAssertion(id) == Ask(assertion, GetAccountAssertionByAccountID(id))
AskAccountKeyAssertion(key) == Ask(assertion, GetAccountKeyAssertionByPublicKeySha(key))
=============================================================================
