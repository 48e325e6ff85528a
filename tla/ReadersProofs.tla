--------------------------- MODULE ReadersProofs ---------------------------
(***************************************************************************)
(* Proofs about Readers, for any number of accounts, snaps, files, clients *)
(* and stops: a deployment is all that its readers see of it, what a page  *)
(* shows and snapd trusts is true, and what the loader has loaded can be   *)
(* installed.                                                              *)
(***************************************************************************)
EXTENDS Readers, DeploymentProofs

-----------------------------------------------------------------------------
(* What an answer without errors says, look-up by look-up. *)

LEMMA FailuresAreErrors ==
  ASSUME NEW e \in Failures \cup {"no rows", "no documents"}
  PROVE  Refused(e).error \notin {"", "none"} /\ Refused(e).rows = {}
BY DEF Failures, Refused, ConvertError, PqErrors, handlePqError, MongoErrors, handleMongoError

LEMMA FailedAreErrors ==
  /\ \A r \in Failed : r.error # ""
  /\ Refused("no rows").error # "" /\ Refused("no documents").error # ""
BY FailuresAreErrors DEF Failed

LEMMA NoAnswerHasErrors == NoAnswer.errors # {}
<1>1. NoReply = <<"internal-server-error">>
  BY DEF NoReply
<1>2. 1 \in DOMAIN NoReply
  BY <1>1
<1> QED BY <1>2 DEF NoAnswer

LEMMA AnswerOf ==
  ASSUME NEW r, Answer(r).errors = {}
  PROVE  r.error = "" /\ Answer(r).rows = r.rows
BY DEF Answer

LEMMA GetFound ==
  ASSUME NEW rows, NEW r \in dbGet(rows)
  PROVE  /\ r.rows \subseteq rows
         /\ r.error = "" => \E row \in rows : r.rows = {row}
<1>1. CASE r \in Failed
  BY <1>1, FailuresAreErrors DEF Failed
<1>2. CASE r = Refused("no rows")
  BY <1>2, FailuresAreErrors
<1>3. ASSUME NEW row \in rows, r = Found({row})
      PROVE  r.rows \subseteq rows /\ r.rows = {row}
  BY <1>3 DEF Found
<1>4. CASE rows = {}
  BY <1>1, <1>2, <1>4 DEF dbGet
<1>5. CASE rows # {}
  BY <1>1, <1>3, <1>5 DEF dbGet
<1> QED BY <1>4, <1>5

LEMMA GetRefused ==
  ASSUME NEW rows, NEW r \in dbGet(rows), r.error # "", NEW s
  PROVE  r.rows \subseteq s
<1>1. r \in Failed \/ r = Refused("no rows") \/ \E row \in rows : r = Found({row})
  BY DEF dbGet
<1>2. \A x : Found(x).error = ""
  BY DEF Found
<1> QED BY <1>1, <1>2, FailuresAreErrors DEF Failed

LEMMA SelectFound ==
  ASSUME NEW rows, NEW r \in dbSelect(rows)
  PROVE  /\ r.rows \subseteq rows
         /\ r.error = "" => rows # {} /\ r.rows = rows
<1>1. CASE r \in Failed
  BY <1>1, FailuresAreErrors DEF Failed
<1>2. CASE rows = {} /\ r = [error |-> "resource-not-found", rows |-> {}]
  <2>1. r.error = "resource-not-found" /\ r.rows = {}
    BY <1>2
  <2> QED BY <2>1
<1>3. CASE rows # {} /\ r = Found(rows)
  BY <1>3 DEF Found
<1> QED BY <1>1, <1>2, <1>3 DEF dbSelect

LEMMA OneFound ==
  ASSUME NEW docs, NEW r \in findOne(docs), r.error = ""
  PROVE  \E d \in docs : r = Found({d})
BY FailedAreErrors DEF findOne, Refused

\* An answer without errors comes from a service, and from what it has found.
LEMMA Asked1 ==
  ASSUME NEW status, NEW answers, NEW a \in Ask(status, answers), a.errors = {}
  PROVE  a \in answers
BY NoAnswerHasErrors DEF Ask

LEMMA Answered1 ==
  ASSUME NEW results, NEW a \in Answers(results), a.errors = {}
  PROVE  \E r \in results : r.error = "" /\ a.rows = r.rows
<1>2. PICK r \in results : a = Answer(r)
  BY DEF Answers
<1> QED BY <1>2, AnswerOf

LEMMA GoErrorFound ==
  ASSUME NEW r, GoError(r).errors = {}
  PROVE  r.error = "" /\ GoError(r).rows = r.rows
BY AnswerOf, NoAnswerHasErrors DEF GoError

LEMMA AssociatedFound ==
  ASSUME NEW row, NEW r \in handleAssociations(row), r.error = ""
  PROVE  r = Found({row})
BY DEF handleAssociations

LEMMA AskedAccountByEmail ==
  ASSUME NEW email, NEW a \in AskAccountByEmail(email), a.errors = {}
  PROVE  \E i \in WithEmail(email) : a.rows = {RowOf(i)}
<1> DEFINE found == {RowOf(i) : i \in WithEmail(email)}
<1>1. a \in Answers(repoGetAccountByEmail(email))
  BY Asked1 DEF AskAccountByEmail, GetAccountByEmail, convertToProtoAccount
<1>2. PICK r \in repoGetAccountByEmail(email) : r.error = "" /\ a.rows = r.rows
  BY <1>1, Answered1, Zenon
<1>3a. PICK g \in dbGet(found) : \E row \in g.rows : r \in handleAssociations(row)
  BY <1>2 DEF repoGetAccountByEmail, Then
<1>3. PICK row \in g.rows : r \in handleAssociations(row)
  BY <1>3a
<1>4. row \in found
  BY <1>3a, <1>3, GetFound, Zenon
<1>5. r = Found({row})
  BY <1>2, <1>3, AssociatedFound
<1> QED BY <1>2, <1>4, <1>5 DEF Found

LEMMA AccountFoundById ==
  ASSUME NEW id, NEW r \in repoGetAccountByID(id), r.error = ""
  PROVE  id \in DOMAIN accounts /\ r.rows = {RowOf(id)}
<1> DEFINE found == {RowOf(i) : i \in {id} \cap DOMAIN accounts}
<1>1a. PICK g \in dbGet(found) : \E row \in g.rows : r \in handleAssociations(row)
  BY DEF repoGetAccountByID, Then
<1>1. PICK row \in g.rows : r \in handleAssociations(row)
  BY <1>1a
<1>2. row \in found
  BY <1>1a, <1>1, GetFound, Zenon
<1>3. r = Found({row})
  BY <1>1, AssociatedFound
<1> QED BY <1>2, <1>3 DEF Found

LEMMA AskedAccountById ==
  ASSUME NEW id, NEW a \in AskAccountByID(id), a.errors = {}
  PROVE  id \in DOMAIN accounts /\ a.rows = {RowOf(id)}
<1>1. a \in Answers(repoGetAccountByID(id))
  BY Asked1 DEF AskAccountByID, GetAccountByID, convertToProtoAccount
<1>2. PICK r \in repoGetAccountByID(id) : r.error = "" /\ a.rows = r.rows
  BY <1>1, Answered1, Zenon
<1> QED BY <1>2, AccountFoundById

\* A look-up for one key alone.
LEMMA AskedAccountsByIds ==
  ASSUME NEW id, NEW a \in AskAccountsByIds({id}), a.errors = {}
  PROVE  a.rows = {RowOf(id)}
<1>1. a \in GetAccountsByIds({id})
  BY Asked1 DEF AskAccountsByIds
<1>2. PICK f : /\ \A i \in {id} : f[i] \in repoGetAccountByID(i)
               /\ a.errors = UNION {Answer(f[i]).errors : i \in {id}}
               /\ a.rows = UNION {f[i].rows : i \in {id}}
  BY <1>1 DEF GetAccountsByIds, ForEach
<1>3. Answer(f[id]).errors = {} /\ a.rows = f[id].rows
  BY <1>2
<1> QED BY <1>2, <1>3, AnswerOf, AccountFoundById

LEMMA AskedKeys ==
  ASSUME NEW id, NEW a \in AskAccountKeysByAccountID(id), a.errors = {}
  PROVE  a.rows = {k \in DOMAIN keys : keys[k] = id} /\ a.rows # {}
<1> DEFINE rows == {k \in DOMAIN keys : keys[k] = id}
<1>1. a \in Answers(dbSelect(rows))
  BY Asked1 DEF AskAccountKeysByAccountID, GetKeysByAccountId, repoGetKeysByAccountID
<1>2. PICK r \in dbSelect(rows) : r.error = "" /\ a.rows = r.rows
  BY <1>1, Answered1, Zenon
<1>3. rows # {} /\ r.rows = rows
  BY <1>2, SelectFound, Zenon
<1> QED BY <1>2, <1>3

LEMMA AskedEntriesOf ==
  ASSUME NEW id, NEW a \in AskEntriesByAccountID(id), a.errors = {}
  PROVE  a.rows = {s \in DOMAIN entries : entries[s] = id} /\ a.rows # {}
<1> DEFINE rows == {s \in DOMAIN entries : entries[s] = id}
<1>1. a \in Answers(dbSelect(rows))
  BY Asked1 DEF AskEntriesByAccountID, GetEntriesByAccountId, repoGetEntriesByAccountId
<1>2. PICK r \in dbSelect(rows) : r.error = "" /\ a.rows = r.rows
  BY <1>1, Answered1, Zenon
<1>3. rows # {} /\ r.rows = rows
  BY <1>2, SelectFound, Zenon
<1> QED BY <1>2, <1>3

LEMMA AskedRevisionsOf ==
  ASSUME NEW snaps, NEW a \in AskRevisionsByEntryIds(snaps), a.errors = {}, NEW s \in snaps
  PROVE  a.rows[s] \subseteq FilesOf(s)
<1>1. a \in GetRevisionsByEntryIds(snaps)
  BY Asked1 DEF AskRevisionsByEntryIds
<1>2. PICK f : /\ \A t \in snaps : f[t] \in repoGetRevisionsByEntryId(t)
               /\ a.rows = [t \in snaps |-> f[t].rows]
  <2>1. PICK f \in [snaps -> UNION {repoGetRevisionsByEntryId(t) : t \in snaps}] :
            /\ \A t \in snaps : f[t] \in repoGetRevisionsByEntryId(t)
            /\ a = [errors |-> {}, rows |-> [t \in snaps |-> f[t].rows]]
    BY <1>1, Zenon DEF GetRevisionsByEntryIds
  <2> QED BY <2>1
<1>3. a.rows[s] = f[s].rows /\ f[s] \in dbSelect(FilesOf(s))
  BY <1>2 DEF repoGetRevisionsByEntryId
<1> QED BY <1>3, SelectFound

LEMMA EntryFound ==
  ASSUME NEW s, NEW r, r \in repoGetEntryById(s) \cup repoGetEntryByName(s)
  PROVE  /\ r.rows \subseteq {EntryOf(t) : t \in {s} \cap DOMAIN entries}
         /\ \A row \in r.rows : s \in DOMAIN entries /\ row.owner = entries[s] /\ row.snap = s
<1> DEFINE rows == {EntryOf(t) : t \in {s} \cap DOMAIN entries}
<1>1. r \in dbGet(rows)
  BY DEF repoGetEntryById, repoGetEntryByName
<1>2. r.rows \subseteq rows
  BY <1>1, GetFound, Zenon
<1>3. \A row \in rows : s \in DOMAIN entries /\ row.owner = entries[s] /\ row.snap = s
  BY DEF EntryOf
<1> QED BY <1>2, <1>3

LEMMA AskedEntryById ==
  ASSUME NEW s, NEW a \in AskEntryById(s), a.errors = {}
  PROVE  \A row \in a.rows : s \in DOMAIN entries /\ row.owner = entries[s]
<1>1. a \in Answers(repoGetEntryById(s))
  BY Asked1 DEF AskEntryById, GetEntryById, parseEntryToProto
<1>2. PICK r \in repoGetEntryById(s) : a.rows = r.rows
  BY <1>1, Answered1, Zenon
<1> QED BY <1>2, EntryFound

LEMMA AskedEntries ==
  ASSUME NEW s, NEW a \in AskEntries({s}), a.errors = {}
  PROVE  \A row \in a.rows : s \in DOMAIN entries /\ row.owner = entries[s]
<1>1. a \in GetEntries({s})
  BY Asked1 DEF AskEntries
<1>2. PICK f : /\ \A i \in {s} : f[i] \in repoGetEntryByName(i)
               /\ a.rows = UNION {f[i].rows : i \in {s}}
  BY <1>1 DEF GetEntries, ForEach
<1>3. f[s] \in repoGetEntryByName(s) /\ a.rows = f[s].rows
  BY <1>2
<1> QED BY <1>3, EntryFound

LEMMA AskedLatestRevision ==
  ASSUME NEW name, NEW a \in AskLatestRevisionByTrackAndChannel(name), a.errors = {}
  PROVE  a.rows \subseteq RevisionsOf(name)
<1> DEFINE rows == {r \in RevisionsOf(name) : r.number = Len(revisions[name])}
<1>1. a \in Answers(dbGet(rows))
  BY Asked1 DEF AskLatestRevisionByTrackAndChannel, GetLatestRevisionByTrackAndChannel,
     convertRevisionToProto, repoGetLatestRevisionByTrackAndChannel
<1>2. PICK r \in dbGet(rows) : a.rows = r.rows
  BY <1>1, Answered1, Zenon
<1>3. r.rows \subseteq rows
  BY <1>2, GetFound, Zenon
<1> QED BY <1>2, <1>3

LEMMA NumberedFound ==
  ASSUME NEW name, NEW n, NEW r \in repoGetRevisionByNameAndSequence(name, n)
  PROVE  r.rows \subseteq RevisionsOf(name)
<1>1. CASE r \in repoGetEntryByName(name) /\ r.error # ""
  <2> DEFINE found == {EntryOf(t) : t \in {name} \cap DOMAIN entries}
  <2>1. r \in dbGet(found)
    BY <1>1 DEF repoGetEntryByName
  <2> QED BY <1>1, <2>1, GetRefused, Zenon
<1>2. ASSUME NEW entry, NEW g \in repoGetEntryByName(name), entry \in g.rows,
             r \in dbGet({x \in RevisionsOf(entry.snap) : x.number = n})
      PROVE  r.rows \subseteq RevisionsOf(name)
  <2>1. entry.snap = name
    BY <1>2, EntryFound
  <2>2. r.rows \subseteq {x \in RevisionsOf(entry.snap) : x.number = n}
    BY <1>2, GetFound, Zenon
  <2> QED BY <2>1, <2>2
<1> QED BY <1>1, <1>2 DEF repoGetRevisionByNameAndSequence, Then

LEMMA AskedNumberedRevision ==
  ASSUME NEW name, NEW n, NEW a \in AskRevisionByNameAndSequence(name, n), a.errors = {}
  PROVE  a.rows \subseteq RevisionsOf(name)
<1> DEFINE results == repoGetEntryByName(name)
           all == {r \in results : r.error # ""} \cup
                  UNION {repoGetRevisionByNameAndSequence(entry.snap, n) :
                            entry \in UNION {r.rows : r \in results}}
<1>1. a \in Answers(all)
  BY Asked1 DEF AskRevisionByNameAndSequence, GetRevisionByNameAndSequence,
     convertRevisionToProto, Then
<1>2. PICK r \in all : r.error = "" /\ a.rows = r.rows
  BY <1>1, Answered1, Zenon
<1>3. PICK entry \in UNION {g.rows : g \in results} :
         r \in repoGetRevisionByNameAndSequence(entry.snap, n)
  BY <1>2
<1>4. PICK g \in repoGetEntryByName(name) : entry \in g.rows
  BY <1>3
<1>5. entry.snap = name
  BY <1>4, EntryFound
<1> QED BY <1>2, <1>3, <1>5, NumberedFound

LEMMA AskedRevisionDoc ==
  ASSUME NEW digest, NEW a \in AskSnapRevisionAssertion(digest), a.errors = {}
  PROVE  \A d \in a.rows : d \in revisionDocs /\ d.digest = digest
<1> DEFINE docs == {d \in revisionDocs : d.digest = digest}
<1>1. a \in GetSnapRevisionAssertionBySHA3_384(digest)
  BY Asked1 DEF AskSnapRevisionAssertion
<1>2. PICK r \in findOne(docs) : a = GoError(r)
  BY <1>1, Zenon DEF GetSnapRevisionAssertionBySHA3_384, repoGetSnapRevisionAssertionBySHA3_384
<1>3. r.error = "" /\ a.rows = r.rows
  BY <1>2, GoErrorFound
<1>4. PICK d \in docs : r = Found({d})
  BY <1>3, OneFound, Zenon
<1> QED BY <1>3, <1>4 DEF Found

-----------------------------------------------------------------------------
(* What can be found: some answer has no errors. *)

LEMMA FoundIsFound ==
  ASSUME NEW rows, NEW row \in rows
  PROVE  /\ Found({row}) \in dbGet(rows) /\ Found({row}) \in findOne(rows)
         /\ Found({row}).error = "" /\ Found({row}).rows = {row}
BY DEF dbGet, findOne, Found

LEMMA CanAnswer ==
  ASSUME NEW status, status = "serving", NEW results, NEW r \in results, r.error = ""
  PROVE  \E a \in Ask(status, Answers(results)) : a.errors = {}
<1>1. Answer(r) \in Ask(status, Answers(results))
  BY DEF Ask, Answers
<1>2. Answer(r).errors = {}
  BY DEF Answer
<1> QED BY <1>1, <1>2

LEMMA CanAnswerGo ==
  ASSUME NEW status, status = "serving", NEW results, NEW r \in results, r.error = ""
  PROVE  \E a \in Ask(status, {GoError(x) : x \in results}) : a.errors = {}
<1>1. Answer(r) \in Ask(status, {GoError(x) : x \in results})
  BY DEF Ask, GoError
<1>2. Answer(r).errors = {}
  BY DEF Answer
<1> QED BY <1>1, <1>2

LEMMA EntryIsFound ==
  ASSUME NEW s \in DOMAIN entries
  PROVE  /\ Found({EntryOf(s)}) \in repoGetEntryById(s)
         /\ Found({EntryOf(s)}) \in repoGetEntryByName(s)
         /\ Found({EntryOf(s)}).error = "" /\ Found({EntryOf(s)}).rows = {EntryOf(s)}
<1> DEFINE rows == {EntryOf(t) : t \in {s} \cap DOMAIN entries}
<1>1. EntryOf(s) \in rows
  OBVIOUS
<1>2. Found({EntryOf(s)}) \in dbGet(rows)
  BY <1>1, FoundIsFound, Zenon
<1> QED BY <1>1, <1>2, FoundIsFound DEF repoGetEntryById, repoGetEntryByName

LEMMA EntryCanBeFound ==
  ASSUME store = "serving", NEW s \in DOMAIN entries
  PROVE  /\ \E a \in AskEntryById(s) : a.errors = {}
         /\ \E a \in AskEntries({s}) : a.errors = {}
<1> DEFINE r == Found({EntryOf(s)})
<1>1. /\ r \in repoGetEntryById(s) /\ r \in repoGetEntryByName(s) /\ r.error = ""
  BY EntryIsFound
<1> HIDE DEF r
<1>2. \E a \in AskEntryById(s) : a.errors = {}
  <2>1. \E a \in Ask(store, Answers(repoGetEntryById(s))) : a.errors = {}
    BY <1>1, CanAnswer, Zenon
  <2> QED BY <2>1 DEF AskEntryById, GetEntryById, parseEntryToProto
<1>3. \E a \in AskEntries({s}) : a.errors = {}
  <2> DEFINE f == [i \in {s} |-> r]
             a == [errors |-> UNION {Answer(f[i]).errors : i \in {s}},
                   rows |-> UNION {f[i].rows : i \in {s}}]
  <2>1. f \in [{s} -> UNION {repoGetEntryByName(i) : i \in {s}}]
    BY <1>1
  <2>2. \A i \in {s} : f[i] \in repoGetEntryByName(i) /\ Answer(f[i]).errors = {}
    BY <1>1 DEF Answer
  <2>3. a.errors = {}
    BY <2>2
  <2> HIDE DEF f
  <2>4. a \in ForEach({s}, repoGetEntryByName)
    BY <2>1, <2>2, Zenon DEF ForEach
  <2>5. a \in AskEntries({s})
    BY <2>4 DEF AskEntries, Ask, GetEntries
  <2> QED BY <2>3, <2>5
<1> QED BY <1>2, <1>3

LEMMA RevisionCanBeFound ==
  ASSUME store = "serving", NEW s \in DOMAIN entries, NEW n \in DOMAIN revisions[s]
  PROVE  /\ \E a \in AskRevisionByNameAndSequence(s, n) : a.errors = {}
         /\ \E a \in SnapDownloadStream(s, n) : a.errors = {}
<1> DEFINE row == [snap |-> s, number |-> n, file |-> revisions[s][n]]
           r == Found({row})
           e == Found({EntryOf(s)})
           rows == {x \in RevisionsOf(s) : x.number = n}
<1>1. row \in rows
  BY DEF RevisionsOf
<1>2. r \in dbGet(rows) /\ r.error = "" /\ r.rows = {row}
  BY <1>1, FoundIsFound, Zenon
<1>3. /\ e \in repoGetEntryByName(s) /\ e.rows = {EntryOf(s)} /\ EntryOf(s).snap = s
  BY EntryIsFound DEF EntryOf
<1> HIDE DEF r, e, rows
<1>4. r \in repoGetRevisionByNameAndSequence(s, n)
  BY <1>2, <1>3 DEF repoGetRevisionByNameAndSequence, Then, rows
<1> DEFINE all == {x \in repoGetEntryByName(s) : x.error # ""} \cup
                  UNION {repoGetRevisionByNameAndSequence(entry.snap, n) :
                            entry \in UNION {x.rows : x \in repoGetEntryByName(s)}}
<1>5. r \in all
  BY <1>3, <1>4
<1> HIDE DEF all
<1>6. \E a \in Ask(store, Answers(all)) : a.errors = {}
  BY <1>2, <1>5, CanAnswer, Zenon
<1>7. \E a \in AskRevisionByNameAndSequence(s, n) : a.errors = {}
  BY <1>6 DEF all, AskRevisionByNameAndSequence, GetRevisionByNameAndSequence,
     convertRevisionToProto, Then
<1> DEFINE bytes == Found({Digest[row.file]})
           gets == repoGetRevisionById(s, n)
           files == {x \in gets : x.error # ""} \cup
                    UNION {{Refused("no connection"), Found({Digest[x.file]})} :
                              x \in UNION {y.rows : y \in gets}}
<1>8. r \in gets
  BY <1>2 DEF repoGetRevisionById, rows
<1>9. bytes \in files /\ bytes.error = ""
  <2>1. row \in UNION {y.rows : y \in gets}
    BY <1>2, <1>8
  <2>2. bytes.error = ""
    BY DEF Found
  <2> HIDE DEF row
  <2>3. {Refused("no connection"), bytes} \in
           {{Refused("no connection"), Found({Digest[x.file]})} : x \in UNION {y.rows : y \in gets}}
    BY <2>1, Zenon
  <2>4. bytes \in UNION
           {{Refused("no connection"), Found({Digest[x.file]})} : x \in UNION {y.rows : y \in gets}}
    BY <2>3, Zenon
  <2>5. bytes \in files
    BY <2>4, Zenon
  <2> QED BY <2>2, <2>5
<1> HIDE DEF files, bytes
<1>10. \E a \in Ask(store, Answers(files)) : a.errors = {}
  BY <1>9, CanAnswer, Zenon
<1>11. \E a \in SnapDownloadStream(s, n) : a.errors = {}
  BY <1>10 DEF files, SnapDownloadStream, SnapDownload, getObjectStoreFilePath, Then
<1> QED BY <1>7, <1>11

LEMMA LatestCanBeFound ==
  ASSUME store = "serving", NEW s, Len(revisions[s]) \in DOMAIN revisions[s]
  PROVE  \E a \in AskLatestRevisionByTrackAndChannel(s) : a.errors = {}
<1> DEFINE rows == {x \in RevisionsOf(s) : x.number = Len(revisions[s])}
           n == Len(revisions[s])
           row == [snap |-> s, number |-> n, file |-> revisions[s][n]]
           r == Found({row})
<1>1. row \in rows
  BY DEF RevisionsOf
<1>2. r \in dbGet(rows) /\ r.error = ""
  BY <1>1, FoundIsFound, Zenon
<1> HIDE DEF r, rows
<1>3. \E a \in Ask(store, Answers(dbGet(rows))) : a.errors = {}
  BY <1>2, CanAnswer, Zenon
<1> QED
  BY <1>3 DEF rows, AskLatestRevisionByTrackAndChannel, GetLatestRevisionByTrackAndChannel,
     convertRevisionToProto, repoGetLatestRevisionByTrackAndChannel

LEMMA AccountCanBeFound ==
  ASSUME account = "serving", NEW id \in DOMAIN accounts
  PROVE  \E a \in AskAccountByID(id) : a.errors = {}
<1> DEFINE rows == {RowOf(i) : i \in {id} \cap DOMAIN accounts}
           r == Found({RowOf(id)})
<1>1. RowOf(id) \in rows
  OBVIOUS
<1>2. r \in dbGet(rows) /\ r.error = "" /\ r.rows = {RowOf(id)}
  BY <1>1, FoundIsFound, Zenon
<1> HIDE DEF rows
<1>3. r \in handleAssociations(RowOf(id))
  <2>1. Found({}) \in repoGetSSHKeysByAccountID /\ Found({}).error = ""
    BY DEF repoGetSSHKeysByAccountID, Found
  <2> QED BY <2>1 DEF handleAssociations
<1> HIDE DEF r
<1>4. r \in repoGetAccountByID(id)
  BY <1>2, <1>3 DEF repoGetAccountByID, Then, rows
<1>5. \E a \in Ask(account, Answers(repoGetAccountByID(id))) : a.errors = {}
  BY <1>2, <1>4, CanAnswer, Zenon
<1> QED BY <1>5 DEF AskAccountByID, GetAccountByID, convertToProtoAccount

LEMMA DocumentCanBeFound ==
  ASSUME assertion = "serving", NEW docs, docs # {}
  PROVE  /\ \E a \in Ask(assertion, Answers(findOne(docs))) : a.errors = {}
         /\ \E a \in Ask(assertion, {GoError(x) : x \in findOne(docs)}) : a.errors = {}
<1>1. PICK d \in docs : TRUE
  OBVIOUS
<1>2. Found({d}) \in findOne(docs) /\ Found({d}).error = ""
  BY <1>1, FoundIsFound, Zenon
<1>3. \E a \in Ask(assertion, Answers(findOne(docs))) : a.errors = {}
  BY <1>2, CanAnswer, Zenon
<1>4. \E a \in Ask(assertion, {GoError(x) : x \in findOne(docs)}) : a.errors = {}
  BY <1>2, CanAnswerGo, Zenon
<1> QED BY <1>3, <1>4

LEMMA AssertionsCanBeFound ==
  ASSUME assertion = "serving", NEW s
  PROVE  /\ \A d \in revisionDocs : \E a \in AskSnapRevisionAssertion(d.digest) : a.errors = {}
         /\ About("snap-declaration", s) # {} =>
               \E a \in AskSnapDeclarationAssertion(s) : a.errors = {}
         /\ About("account", s) # {} => \E a \in AskAccountAssertion(s) : a.errors = {}
         /\ RootKeys # {} => \E a \in AskAccountKeyAssertion(RootKey) : a.errors = {}
<1>1. ASSUME NEW d \in revisionDocs
      PROVE  \E a \in AskSnapRevisionAssertion(d.digest) : a.errors = {}
  <2> DEFINE docs == {x \in revisionDocs : x.digest = d.digest}
  <2>1. docs # {}
    OBVIOUS
  <2> HIDE DEF docs
  <2>2. \E a \in Ask(assertion, {GoError(x) : x \in findOne(docs)}) : a.errors = {}
    BY <2>1, DocumentCanBeFound, Zenon
  <2> QED
    BY <2>2 DEF docs, AskSnapRevisionAssertion, GetSnapRevisionAssertionBySHA3_384,
       repoGetSnapRevisionAssertionBySHA3_384
<1>2. ASSUME NEW kind, About(kind, s) # {}
      PROVE  \E a \in Ask(assertion, Answers(findOne(DocumentsAbout(kind, s)))) : a.errors = {}
  <2>1. DocumentsAbout(kind, s) # {}
    BY <1>2 DEF DocumentsAbout
  <2> QED BY <2>1, DocumentCanBeFound, Zenon
<1>3. ASSUME RootKeys # {} PROVE \E a \in AskAccountKeyAssertion(RootKey) : a.errors = {}
  <2> DEFINE docs == {documents["account-key"][i] : i \in
                         {i \in DOMAIN documents["account-key"] :
                             documents["account-key"][i].body = RootKey}}
  <2>1. docs # {}
    BY <1>3 DEF RootKeys
  <2> HIDE DEF docs
  <2>2. \E a \in Ask(assertion, {GoError(x) : x \in findOne(docs)}) : a.errors = {}
    BY <2>1, DocumentCanBeFound, Zenon
  <2> QED
    BY <2>2 DEF docs, AskAccountKeyAssertion, GetAccountKeyAssertionByPublicKeySha,
       repoGetAccountKeyAssertionByPublicKeySha
<1> QED
  BY <1>1, <1>2, <1>3
  DEF AskSnapDeclarationAssertion, GetSnapDeclarationAssertionBySnapID,
      repoGetSnapDeclarationAssertionBySnapEntryID, AskAccountAssertion,
      GetAccountAssertionByAccountID, repoGetAccountAssertionByAccountID

-----------------------------------------------------------------------------
(* The tables of the store, and the assertions about their rows. *)

TablesTypeOK ==
    /\ DOMAIN entries \subseteq Snaps /\ \A s \in DOMAIN entries : entries[s] \in AccountIds
    /\ revisions \in [Snaps -> Seq(Files)]
    /\ unscanned \subseteq Files
    /\ DOMAIN uploads \subseteq Files /\ \A f \in DOMAIN uploads : uploads[f] \in Upload
    /\ revisionDocs \subseteq RevisionDoc

\* Revisions are of snaps that have a name, and differ in their digests; and
\* what is asserted of a revision is so.
RevisionsOK ==
    \A s \in Snaps :
        /\ revisions[s] # << >> => s \in DOMAIN entries
        /\ \A i, j \in DOMAIN revisions[s] :
              Digest[revisions[s][i]] = Digest[revisions[s][j]] => i = j

Describes(d) ==
    /\ d.snap \in DOMAIN entries /\ entries[d.snap] = d.developer
    /\ d.revision \in DOMAIN revisions[d.snap]
    /\ Digest[revisions[d.snap][d.revision]] = d.digest

StoreInv == TablesTypeOK /\ RevisionsOK /\ \A d \in revisionDocs : Describes(d)

\* What no statement takes back.
StoreKeeps ==
    /\ \A s \in DOMAIN entries : s \in DOMAIN entries' /\ entries'[s] = entries[s]
    /\ \A s \in Snaps : \A i \in DOMAIN revisions[s] :
          i \in DOMAIN revisions'[s] /\ revisions'[s][i] = revisions[s][i]
    /\ revisionDocs \subseteq revisionDocs'

\* The statements that a step of Storefront may execute.
StoreStep ==
    \/ \E s \in Snaps, id \in AccountIds : RegisterSnapName(s, id)
    \/ \E f \in Files : UnscannedUpload(f)
    \/ \E f \in Files, s \in Snaps : AddUpload(f, s, "processed", 1)
    \/ \E f \in Files, n \in Nat : UpdateUploadStatus(f, "processed", n)
    \/ \E s \in Snaps, f \in Files : AddRevision(s, f)
    \/ \E d \in RevisionDoc : /\ AddSnapRevisionAssertion(d.digest, d.developer, d.snap, d.revision)
                              /\ Describes(d)
    \/ UNCHANGED storeVars

LEMMA RevisionsAre ==
  ASSUME TablesTypeOK, NEW s \in Snaps
  PROVE  /\ Len(revisions[s]) \in Nat /\ DOMAIN revisions[s] = 1..Len(revisions[s])
         /\ \A i \in DOMAIN revisions[s] : revisions[s][i] \in Files
         /\ revisions[s] = << >> <=> Len(revisions[s]) = 0
<1>1. revisions[s] \in Seq(Files)
  BY DEF TablesTypeOK
<1> QED BY <1>1

LEMMA RevisionAppended ==
  ASSUME TablesTypeOK, NEW s \in Snaps, NEW f \in Files, AddRevision(s, f)
  PROVE  /\ revisions' \in [Snaps -> Seq(Files)]
         /\ \A t \in Snaps : t # s => revisions'[t] = revisions[t]
         /\ Len(revisions'[s]) = Len(revisions[s]) + 1
         /\ DOMAIN revisions'[s] = DOMAIN revisions[s] \cup {Len(revisions[s]) + 1}
         /\ \A i \in DOMAIN revisions[s] : revisions'[s][i] = revisions[s][i]
         /\ revisions'[s][Len(revisions[s]) + 1] = f
         /\ revisions'[s] # << >>
<1> DEFINE old == revisions[s]
<1>1. old \in Seq(Files)
  BY DEF TablesTypeOK
<1>2. /\ revisions'[s] = Append(old, f) /\ \A t \in Snaps : t # s => revisions'[t] = revisions[t]
      /\ DOMAIN revisions' = Snaps /\ revisions' = [revisions EXCEPT ![s] = Append(old, f)]
  BY DEF AddRevision, TablesTypeOK
<1> HIDE DEF old
<1>3. /\ Append(old, f) \in Seq(Files) /\ Len(Append(old, f)) = Len(old) + 1
      /\ DOMAIN Append(old, f) = DOMAIN old \cup {Len(old) + 1}
      /\ \A i \in DOMAIN old : Append(old, f)[i] = old[i]
      /\ Append(old, f)[Len(old) + 1] = f /\ Append(old, f) # << >>
  BY <1>1
<1>4. revisions' \in [Snaps -> Seq(Files)]
  BY <1>2, <1>3 DEF TablesTypeOK
<1> QED BY <1>2, <1>3, <1>4 DEF old

LEMMA StoreStepKeeps ==
  ASSUME StoreInv, StoreStep
  PROVE  StoreInv' /\ StoreKeeps
<1>0. TablesTypeOK /\ RevisionsOK /\ \A d \in revisionDocs : Describes(d) /\ d.snap \in Snaps
  BY DEF StoreInv, Describes, TablesTypeOK
<1>1. ASSUME NEW s \in Snaps, NEW id \in AccountIds, RegisterSnapName(s, id)
      PROVE  StoreInv' /\ StoreKeeps
  <2>1. /\ s \notin DOMAIN entries /\ DOMAIN entries' = DOMAIN entries \cup {s}
        /\ \A t \in DOMAIN entries' : entries'[t] = IF t = s THEN id ELSE entries[t]
        /\ UNCHANGED <<revisions, unscanned, uploads, revisionDocs>>
    BY <1>1 DEF RegisterSnapName
  <2>2. TablesTypeOK'
    BY <1>0, <2>1 DEF TablesTypeOK
  <2>3. StoreKeeps /\ RevisionsOK'
    BY <1>0, <2>1 DEF StoreKeeps, RevisionsOK
  <2>4. \A d \in revisionDocs' : Describes(d)'
    BY <1>0, <2>1 DEF Describes
  <2> QED BY <2>2, <2>3, <2>4 DEF StoreInv
<1>2. ASSUME NEW s \in Snaps, NEW f \in Files, AddRevision(s, f)
      PROVE  StoreInv' /\ StoreKeeps
  <2>1. /\ s \in DOMAIN entries /\ f \in unscanned
        /\ \A i \in DOMAIN revisions[s] : Digest[revisions[s][i]] # Digest[f]
        /\ unscanned' = unscanned \ {f}
        /\ UNCHANGED <<entries, uploads, revisionDocs>>
    BY <1>2 DEF AddRevision
  <2>2. /\ revisions' \in [Snaps -> Seq(Files)]
        /\ \A t \in Snaps : t # s => revisions'[t] = revisions[t]
        /\ DOMAIN revisions'[s] = DOMAIN revisions[s] \cup {Len(revisions[s]) + 1}
        /\ \A i \in DOMAIN revisions[s] : revisions'[s][i] = revisions[s][i]
        /\ revisions'[s][Len(revisions[s]) + 1] = f
    BY <1>0, <1>2, RevisionAppended
  <2>3. TablesTypeOK'
    BY <1>0, <2>1, <2>2 DEF TablesTypeOK
  <2>4. StoreKeeps
    BY <2>1, <2>2 DEF StoreKeeps
  <2>5. RevisionsOK'
    BY <1>0, <2>1, <2>2 DEF RevisionsOK
  <2>6. \A d \in revisionDocs' : Describes(d)'
    BY <1>0, <2>1, <2>4 DEF Describes, StoreKeeps
  <2> QED BY <2>3, <2>4, <2>5, <2>6 DEF StoreInv
<1>3. ASSUME NEW d \in RevisionDoc, Describes(d),
             AddSnapRevisionAssertion(d.digest, d.developer, d.snap, d.revision)
      PROVE  StoreInv' /\ StoreKeeps
  <2>1. /\ revisionDocs' = revisionDocs \cup {d}
        /\ UNCHANGED <<entries, revisions, unscanned, uploads>>
    BY <1>3 DEF AddSnapRevisionAssertion, RevisionDoc
  <2> QED BY <1>0, <1>3, <2>1 DEF StoreInv, StoreKeeps, TablesTypeOK, RevisionsOK, Describes
<1>4. ASSUME UNCHANGED <<entries, revisions, revisionDocs>>, TablesTypeOK'
      PROVE  StoreInv' /\ StoreKeeps
  BY <1>0, <1>4 DEF StoreInv, StoreKeeps, RevisionsOK, Describes
<1>5. ASSUME NEW f \in Files, UnscannedUpload(f) PROVE StoreInv' /\ StoreKeeps
  BY <1>0, <1>4, <1>5 DEF UnscannedUpload, TablesTypeOK
<1>6. ASSUME NEW f \in Files, NEW s \in Snaps, AddUpload(f, s, "processed", 1)
      PROVE  StoreInv' /\ StoreKeeps
  BY <1>0, <1>4, <1>6 DEF AddUpload, TablesTypeOK, Upload
<1>7. ASSUME NEW f \in Files, NEW n \in Nat, UpdateUploadStatus(f, "processed", n)
      PROVE  StoreInv' /\ StoreKeeps
  <2>1. [uploads[f] EXCEPT !.status = "processed", !.revision = n] \in Upload
    BY <1>0, <1>7 DEF UpdateUploadStatus, TablesTypeOK, Upload
  <2>2. /\ DOMAIN uploads' = DOMAIN uploads
        /\ \A g \in DOMAIN uploads : uploads'[g] = uploads[g] \/ uploads'[g] \in Upload
        /\ UNCHANGED <<entries, revisions, unscanned, revisionDocs>>
    BY <1>7, <2>1 DEF UpdateUploadStatus
  <2>3. TablesTypeOK'
    BY <1>0, <2>2 DEF TablesTypeOK
  <2> QED BY <1>4, <2>2, <2>3
<1>8. CASE UNCHANGED storeVars
  BY <1>0, <1>4, <1>8 DEF storeVars, TablesTypeOK
<1> QED BY <1>1, <1>2, <1>3, <1>5, <1>6, <1>7, <1>8 DEF StoreStep

-----------------------------------------------------------------------------
(* The second half of the loader. *)

\* What the documents of a kind are about.
SubjectsOf(kind) == {documents[kind][i].subject : i \in DOMAIN documents[kind]}

SnapLoaderTypeOK ==
    /\ done \in 0..Len(TestSnaps)
    /\ snapStep \in {"start", "registered", "uploaded", "upload added", "metadata read",
                     "revision added", "revision asserted", "declared", "declaration inserted"}
    /\ file \in Files
    /\ publisher \subseteq AccountIds

NotRevised == {"registered", "uploaded", "upload added", "metadata read"}
Revised == {"revision added", "revision asserted", "declared", "declaration inserted"}

\* What the loader has done at each of its steps for the next snap.
SnapLoaderOK ==
    /\ gateway # "load snaps" => done = 0 /\ snapStep = "start"
    /\ snapStep # "start" =>
          /\ done < Len(TestSnaps) /\ NextSnap.snap \in DOMAIN entries
          /\ entries[NextSnap.snap] = OwnerOfNext
    /\ snapStep \in NotRevised => revisions[NextSnap.snap] = << >>
    /\ snapStep \in NotRevised \ {"registered"} => Digest[file] = NextSnap.digest
    /\ snapStep \in Revised =>
          /\ Len(revisions[NextSnap.snap]) = 1
          /\ Digest[revisions[NextSnap.snap][1]] = NextSnap.digest
    /\ snapStep \in Revised \ {"revision added"} =>
          \E d \in revisionDocs : d.digest = NextSnap.digest
    /\ snapStep = "declaration inserted" => NextSnap.snap \in SubjectsOf("snap-declaration")

LEMMA TestSnapsAre ==
  /\ Len(TestSnaps) \in Nat
  /\ \A i \in 1..Len(TestSnaps) :
        /\ TestSnaps[i].snap \in Snaps /\ TestSnaps[i].owner \in DOMAIN TestAccounts
        /\ TestSnaps[i].digest \in Digests
<1>1. TestSnaps \in Seq(TestSnap)
  BY StorefrontAssumption
<1>2. Len(TestSnaps) \in Nat /\ \A i \in 1..Len(TestSnaps) : TestSnaps[i] \in TestSnap
  BY <1>1
<1> QED BY <1>2 DEF TestSnap

LEMMA OneMore ==
  ASSUME NEW n \in Nat, NEW d \in 0..n, d < n
  PROVE  d \in Nat /\ d + 1 \in 1..n
OBVIOUS

LEMMA NextSnapIs ==
  ASSUME LoaderOK, SnapLoaderTypeOK, gateway = "load snaps", done < Len(TestSnaps)
  PROVE  /\ NextSnap.snap \in Snaps /\ NextSnap.digest \in Digests
         /\ NextSnap.owner \in DOMAIN idOf /\ OwnerOfNext \in AccountIds
         /\ done + 1 \in 1..Len(TestSnaps) /\ done \in Nat
<1>1. done \in Nat /\ done + 1 \in 1..Len(TestSnaps)
  <2>1. done \in 0..Len(TestSnaps)
    BY DEF SnapLoaderTypeOK
  <2>2. Len(TestSnaps) \in Nat
    BY TestSnapsAre
  <2> QED BY <2>1, <2>2, OneMore
<1>2. /\ NextSnap.snap \in Snaps /\ NextSnap.digest \in Digests
      /\ NextSnap.owner \in DOMAIN TestAccounts
  BY <1>1, TestSnapsAre DEF NextSnap
<1>3. Len(idOf) = Len(TestAccounts) /\ RestTypeOK
  BY DEF LoaderOK, StageOK
<1>4. DOMAIN idOf = DOMAIN TestAccounts /\ \A i \in DOMAIN idOf : idOf[i] \in AccountIds
  BY <1>3, FilesFit
<1> QED BY <1>1, <1>2, <1>4 DEF OwnerOfNext

\* Storefront adds to the steps of a deployment, and takes none of its own.
LEMMA StorefrontDeploys ==
  ASSUME LoaderOK, SnapLoaderTypeOK, StorefrontNext
  PROVE  DeploymentNext \/ UNCHANGED deploymentVars
<1>1. CASE StepOfDeployment
  BY <1>1 DEF StepOfDeployment
<1>2. CASE DeclareTestSnap
  <2>1. NextSnap.snap \in Snaps
    BY <1>2, NextSnapIs DEF DeclareTestSnap, LoadStep
  <2>2. SignForPushes
    BY <1>2, <2>1 DEF DeclareTestSnap, SignForPushes
  <2> QED BY <2>2 DEF DeploymentNext
<1>3. CASE InsertTestDeclaration
  <2>1. SignForPushes
    BY <1>3 DEF InsertTestDeclaration, SignForPushes
  <2> QED BY <2>1 DEF DeploymentNext
<1>4. CASE \/ RegisterTestSnap \/ UploadTestFile \/ AddTestUpload \/ ReadTestMetadata
           \/ AddTestRevision \/ AssertTestRevision \/ FinishTestSnap
  BY <1>4 DEF RegisterTestSnap, UploadTestFile, AddTestUpload, ReadTestMetadata,
     AddTestRevision, AssertTestRevision, FinishTestSnap
<1>5. CASE Publish
  BY <1>5 DEF Publish, FindPublisher, RegisterForPublisher, RefusePublisher
<1> QED BY <1>1, <1>2, <1>3, <1>4, <1>5 DEF StorefrontNext, LoadSnaps

LEMMA StorefrontStores ==
  ASSUME LoaderOK, StoreInv, SnapLoaderTypeOK, SnapLoaderOK, StorefrontNext
  PROVE  StoreStep
<1>1. CASE StepOfDeployment
  BY <1>1 DEF StepOfDeployment, StoreStep
<1>2. CASE LoadSnaps
  <2>1. gateway = "load snaps" /\ done < Len(TestSnaps)
    BY <1>2 DEF LoadSnaps, RegisterTestSnap, UploadTestFile, AddTestUpload, ReadTestMetadata,
       AddTestRevision, AssertTestRevision, DeclareTestSnap, InsertTestDeclaration,
       FinishTestSnap, LoadStep
  <2>2. /\ NextSnap.snap \in Snaps /\ NextSnap.digest \in Digests /\ OwnerOfNext \in AccountIds
        /\ file \in Files
    BY <2>1, NextSnapIs DEF SnapLoaderTypeOK
  <2>3. CASE RegisterTestSnap
    BY <2>2, <2>3 DEF RegisterTestSnap, StoreStep
  <2>4. CASE UploadTestFile
    BY <2>4 DEF UploadTestFile, StoreStep
  <2>5. CASE AddTestUpload
    BY <2>2, <2>5 DEF AddTestUpload, StoreStep
  <2>6. CASE AddTestRevision
    BY <2>2, <2>6 DEF AddTestRevision, StoreStep
  <2>7. CASE AssertTestRevision
    <3> DEFINE d == [digest |-> NextSnap.digest, developer |-> OwnerOfNext,
                     snap |-> NextSnap.snap, revision |-> Len(revisions[NextSnap.snap])]
    <3>1. snapStep = "revision added"
      BY <2>7 DEF AssertTestRevision, LoadStep
    <3>2. /\ Len(revisions[NextSnap.snap]) = 1 /\ NextSnap.snap \in DOMAIN entries
          /\ entries[NextSnap.snap] = OwnerOfNext
          /\ Digest[revisions[NextSnap.snap][1]] = NextSnap.digest
      BY <3>1 DEF SnapLoaderOK, Revised
    <3>3. 1 \in DOMAIN revisions[NextSnap.snap]
      BY <2>2, <3>2, RevisionsAre DEF StoreInv
    <3>4. d \in RevisionDoc /\ Describes(d)
      BY <2>2, <3>2, <3>3 DEF RevisionDoc, Describes
    <3>5. AddSnapRevisionAssertion(d.digest, d.developer, d.snap, d.revision)
      BY <2>7 DEF AssertTestRevision
    <3> QED BY <3>4, <3>5 DEF StoreStep
  <2>8. CASE FinishTestSnap
    <3>1. Len(revisions[NextSnap.snap]) \in Nat
      BY <2>2, RevisionsAre DEF StoreInv
    <3> QED BY <2>2, <2>8, <3>1 DEF FinishTestSnap, StoreStep
  <2>9. CASE ReadTestMetadata \/ DeclareTestSnap \/ InsertTestDeclaration
    BY <2>9 DEF ReadTestMetadata, DeclareTestSnap, InsertTestDeclaration,
       GetObjectCustomMetadata, StoreStep
  <2> QED BY <1>2, <2>3, <2>4, <2>5, <2>6, <2>7, <2>8, <2>9 DEF LoadSnaps
<1>3. CASE Publish
  <2>1. CASE RegisterForPublisher
    <3>1. PICK s \in Snaps, id \in publisher : RegisterSnapName(s, id)
      BY <2>1 DEF RegisterForPublisher
    <3> QED BY <3>1 DEF SnapLoaderTypeOK, StoreStep
  <2>2. CASE FindPublisher \/ RefusePublisher
    BY <2>2 DEF FindPublisher, RefusePublisher, StoreStep
  <2> QED BY <1>3, <2>1, <2>2 DEF Publish
<1> QED BY <1>1, <1>2, <1>3 DEF StorefrontNext

\* What a step of the deployment does with the step of the gateway.
LEMMA GatewayMoves ==
  ASSUME DeploymentNext
  PROVE  /\ testMode' = testMode
         /\ gateway = "load snaps" /\ gateway' = "load snaps" => UNCHANGED <<idOf, loaded>>
         /\ gateway # "serving" /\ gateway' = "serving" => ~testMode \/ gateway = "load snaps"
<1>1. CASE Load
  <2>1. CASE \/ LoadAccount \/ LookUpLoadedAccount \/ FindLoadedOwner \/ InsertLoadedKey
             \/ LookUpLoadedKey \/ SnapsLoaded
    BY <2>1 DEF LoadAccount, LookUpLoadedAccount, FindLoadedOwner, InsertLoadedKey,
       LookUpLoadedKey, SnapsLoaded, Step
  <2>2. CASE InsertLoadedAccount \/ InsertLoadedKeyAssertion
    BY <2>2 DEF InsertLoadedAccount, InsertLoadedKeyAssertion, Step, Following
  <2> QED BY <1>1, <2>1, <2>2 DEF Load
<1>2. CASE GatewayStep
  BY <1>2 DEF GatewayStep, StartGateway, DialServices, Dial, Attempt
<1>3. CASE FailLoad \/ CrashGateway
  BY <1>3 DEF FailLoad, CrashGateway, EndGateway
<1>4. CASE UNCHANGED gatewayVars
  BY <1>4 DEF gatewayVars
<1>5. CASE StartAccount \/ ServeAccounts \/ StartStore \/ StartAssertion \/ SignForPushes
           \/ CrashAccount \/ CrashStore \/ CrashAssertion
  BY <1>4, <1>5
  DEF StartAccount, ServeAccounts, StartStore, MakeBucket, StartAssertion, LookUpRootKey,
      InsertRootKey, LookUpRootAccount, InsertRootAccount, SignForPushes, CrashAccount,
      CrashStore, CrashAssertion
<1> QED BY <1>1, <1>2, <1>3, <1>5 DEF DeploymentNext, Crash

\* The accounts that the loader has dealt with are asserted, and so will be the
\* one it is dealing with.
IdsAsserted ==
    /\ \A i \in DOMAIN idOf : i <= loaded => idOf[i] \in SubjectsOf("account")
    /\ gateway = "account asserted" /\ writing["loader"] = "account" =>
          draft["loader"].subject = idOf[Position]
    /\ gateway = "load snaps" => Len(TestAccounts) <= loaded

LEMMA DocumentsRemain ==
  ASSUME DeploymentInv, DeploymentNext \/ UNCHANGED deploymentVars
  PROVE  /\ \A kind \in NumberedKinds : SubjectsOf(kind) \subseteq SubjectsOf(kind)'
         /\ AInv' /\ AccountsKeep
<1>1. AInv /\ DocInv /\ LoaderOK
  BY DEF DeploymentInv
<1>2. AccountStep /\ DocumentStep
  <2>1. CASE DeploymentNext
    BY <1>1, <2>1, StepIsStatements
  <2>2. CASE UNCHANGED deploymentVars
    BY <2>2 DEF deploymentVars, AccountStep, DocumentStep
  <2> QED BY <2>1, <2>2
<1>3. ASSUME NEW kind \in NumberedKinds
      PROVE  SubjectsOf(kind) \subseteq SubjectsOf(kind)'
  BY <1>1, <1>2, DocumentsStay DEF SubjectsOf
<1> QED BY <1>1, <1>2, <1>3, AInvStep

LEMMA Within ==
  ASSUME NEW n \in Nat, NEW m \in Nat
  PROVE  /\ \A i \in 1..(n + 1) : i <= n => i \in 1..n
         /\ \A i \in 1..m : i <= n + 1 => i <= n \/ i = n + 1
         /\ m <= n => m <= n + 1
         /\ m <= n => \A i \in 1..m : i <= n
OBVIOUS

LEMMA Ordered == \A n, m \in Nat : n < m \/ m <= n
OBVIOUS

LEMMA SnapsFollow ==
  ASSUME NEW n \in Nat, Len(TestAccounts) \in Nat, Following(n) = "load snaps"
  PROVE  Len(TestAccounts) <= n
<1>1. ASSUME n < Len(TestAccounts) PROVE FALSE
  <2>1. Following(n) = "add account"
    BY <1>1, Zenon DEF Following
  <2> QED BY <2>1
<1> QED BY <1>1, Ordered, Zenon

LEMMA IdsStep ==
  ASSUME DeploymentInv, IdsAsserted, DeploymentNext \/ UNCHANGED deploymentVars
  PROVE  IdsAsserted'
<1>0. /\ AInv /\ DocInv /\ LoaderOK /\ RestTypeOK /\ StageOK
      /\ loaded \in Nat /\ Len(idOf) \in Nat /\ DOMAIN idOf = 1..Len(idOf)
      /\ Len(TestAccounts) \in Nat
  BY FilesFit DEF DeploymentInv, LoaderOK
<1>1. SubjectsOf("account") \subseteq SubjectsOf("account")'
  BY DocumentsRemain DEF NumberedKinds
<1>2. ASSUME UNCHANGED <<loaded, idOf>>, gateway' # "account asserted",
             gateway' = "load snaps" => gateway = "load snaps"
      PROVE  IdsAsserted'
  BY <1>1, <1>2 DEF IdsAsserted
<1>3. ASSUME UNCHANGED <<gateway, loaded, idOf>>,
             \/ writing'["loader"] = "idle"
             \/ UNCHANGED <<writing["loader"], draft["loader"]>>
      PROVE  IdsAsserted'
  BY <1>1, <1>3 DEF IdsAsserted, Position
<1>4. ASSUME NEW w \in Writers, w # "loader",
             \/ \E k \in NumberedKinds : \E s, b : LookUpLatest(w, k, s, b)
             \/ \E k \in NumberedKinds : Insert(w, k)
             \/ AbandonWrite(w)
      PROVE  UNCHANGED <<writing["loader"], draft["loader"]>>
  BY <1>0, <1>4, ConstantsFit
  DEF LookUpLatest, Insert, AbandonWrite, EndWrite, DocInv, AssertionsTypeOK
<1>5. CASE SignForPushes \/ StartAssertion
  <2>1. UNCHANGED gatewayVars
    BY <1>5 DEF SignForPushes, StartAssertion, LookUpRootKey, InsertRootKey, LookUpRootAccount,
       InsertRootAccount
  <2>2. UNCHANGED <<writing["loader"], draft["loader"]>>
    <3>1. CASE SignForPushes
      BY <1>4, <3>1, ConstantsFit
      DEF SignForPushes, AddSnapDeclarationAssertion, InsertSnapDeclarationAssertion,
          AddSnapBuildAssertion, NumberedKinds
    <3>2. CASE StartAssertion
      BY <1>4, <3>2, ConstantsFit
      DEF StartAssertion, LookUpRootKey, InsertRootKey, LookUpRootAccount, InsertRootAccount,
          AddAccountAssertion, InsertAccountAssertion, AddAccountKeyAssertion,
          InsertAccountKeyAssertion, NumberedKinds
    <3> QED BY <1>5, <3>1, <3>2
  <2> QED BY <1>3, <2>1, <2>2 DEF gatewayVars
<1>6. CASE StartAccount \/ ServeAccounts \/ StartStore \/ CrashAccount \/ CrashStore
           \/ UNCHANGED deploymentVars
  <2>1. UNCHANGED <<assertionVars, gatewayVars>>
    BY <1>6 DEF StartAccount, ServeAccounts, StartStore, MakeBucket, CrashAccount, CrashStore,
       deploymentVars
  <2> QED BY <1>3, <2>1 DEF assertionVars, gatewayVars
<1>7. CASE CrashAssertion
  BY <1>0, <1>3, <1>7, ConstantsFit DEF CrashAssertion, gatewayVars
<1>8. CASE GatewayStep \/ FindLoadedOwner \/ InsertLoadedKey \/ LookUpLoadedKey \/ SnapsLoaded
  BY <1>2, <1>8
  DEF GatewayStep, StartGateway, DialServices, Dial, Attempt, FindLoadedOwner, InsertLoadedKey,
      LookUpLoadedKey, SnapsLoaded, Step
<1>9. CASE FailLoad \/ CrashGateway
  <2>1. gateway' = "down" /\ idOf' = << >>
    BY <1>9 DEF FailLoad, CrashGateway, EndGateway
  <2>2. DOMAIN idOf' = {}
    BY <2>1
  <2> QED BY <2>1, <2>2 DEF IdsAsserted
<1>10. CASE LoadAccount
  <2>1. /\ loaded' = loaded /\ gateway' = "assert account" /\ Len(idOf) = loaded
        /\ UNCHANGED documents
    BY <1>0, <1>10 DEF LoadAccount, Step, StageOK, assertionVars
  <2>2. PICK id \in AccountIds : idOf' = Append(idOf, id)
    BY <1>10 DEF LoadAccount
  <2>3. idOf \in Seq(AccountIds)
    BY <1>0 DEF RestTypeOK
  <2>4. /\ DOMAIN idOf' = 1..(Len(idOf) + 1)
        /\ \A i \in DOMAIN idOf : idOf'[i] = idOf[i]
    BY <2>2, <2>3
  <2>5. \A i \in DOMAIN idOf' : i <= loaded => i \in DOMAIN idOf /\ idOf'[i] = idOf[i]
    <3>1. \A i \in 1..(loaded + 1) : i <= loaded => i \in 1..loaded
      BY <1>0, Within
    <3> QED BY <1>0, <2>1, <2>4, <3>1
  <2>6. \A i \in DOMAIN idOf' : i <= loaded => idOf'[i] \in SubjectsOf("account")'
    BY <1>1, <2>1, <2>5 DEF IdsAsserted
  <2> QED BY <2>1, <2>6 DEF IdsAsserted
<1>11. CASE LookUpLoadedAccount
  <2>1. /\ UNCHANGED <<loaded, idOf, documents>> /\ gateway' = "account asserted"
        /\ LookUpLatest("loader", "account", idOf[Position], TestAccounts[Position].display)
    BY <1>11 DEF LookUpLoadedAccount, Step, AddAccountAssertion, LookUpLatest
  <2>2. draft'["loader"].subject = idOf[Position]
    <3>1. PICK n \in NextNumbers("account", idOf[Position]) :
            draft' = [draft EXCEPT !["loader"] =
                         [subject |-> idOf[Position], revision |-> n,
                          body |-> TestAccounts[Position].display]]
      BY <2>1 DEF LookUpLatest
    <3> QED BY <1>0, <3>1, ConstantsFit DEF DocInv, AssertionsTypeOK
  <2> QED BY <1>1, <2>1, <2>2 DEF IdsAsserted, Position
<1>12. CASE InsertLoadedAccount
  <2>1. /\ gateway = "account asserted" /\ gateway' = Following(loaded + 1)
        /\ loaded' = loaded + 1 /\ idOf' = idOf /\ Insert("loader", "account")
        /\ writing["loader"] = "account" /\ Len(idOf) = loaded + 1
    BY <1>0, <1>12
    DEF InsertLoadedAccount, Step, Position, InsertAccountAssertion, Insert, StageOK
  <2>2. draft["loader"].subject = idOf[loaded + 1]
    BY <2>1 DEF IdsAsserted, Position
  <2>3. draft["loader"].subject \in SubjectsOf("account")'
    BY <1>0, <2>1, InsertedDocuments, ConstantsFit DEF SubjectsOf, DocInv, NumberedKinds
  <2>4. \A i \in DOMAIN idOf : i <= loaded + 1 => i <= loaded \/ i = loaded + 1
    BY <1>0, Within
  <2>5. \A i \in DOMAIN idOf : i <= loaded + 1 => idOf[i] \in SubjectsOf("account")'
    BY <1>1, <2>2, <2>3, <2>4 DEF IdsAsserted
  <2>6. gateway' = "load snaps" => Len(TestAccounts) <= loaded + 1
    <3>1. loaded + 1 \in Nat
      BY <1>0
    <3> QED BY <1>0, <2>1, <3>1, SnapsFollow
  <2>7. gateway' # "account asserted"
    BY <2>1 DEF Following
  <2> QED BY <2>1, <2>5, <2>6, <2>7 DEF IdsAsserted
<1>13. CASE InsertLoadedKeyAssertion
  <2>1. /\ gateway = "key asserted" /\ gateway' = Following(loaded + 1)
        /\ loaded' = loaded + 1 /\ idOf' = idOf
        /\ Len(TestAccounts) <= loaded /\ Len(idOf) = Len(TestAccounts)
    BY <1>0, <1>13 DEF InsertLoadedKeyAssertion, Step, Position, StageOK, LoadingKeys
  <2>2. \A i \in DOMAIN idOf : i <= loaded
    BY <1>0, <2>1, Within
  <2>3. Len(TestAccounts) <= loaded + 1
    BY <1>0, <2>1, Within
  <2>4. gateway' # "account asserted"
    BY <2>1 DEF Following
  <2> QED BY <1>1, <2>1, <2>2, <2>3, <2>4 DEF IdsAsserted
<1> QED
  BY <1>5, <1>6, <1>7, <1>8, <1>9, <1>10, <1>11, <1>12, <1>13 DEF DeploymentNext, Load, Crash

-----------------------------------------------------------------------------

LEMMA SnapLoaderSteps ==
  ASSUME LoaderOK, DocInv, StoreInv, StoreInv', StoreKeeps, SnapLoaderTypeOK, SnapLoaderOK,
         SubjectsOf("snap-declaration") \subseteq SubjectsOf("snap-declaration")', LoadSnaps
  PROVE  SnapLoaderTypeOK' /\ SnapLoaderOK'
<1>0. /\ gateway = "load snaps" /\ done < Len(TestSnaps) /\ publisher' = publisher
      /\ UNCHANGED <<gateway, idOf>>
  BY DEF LoadSnaps, RegisterTestSnap, UploadTestFile, AddTestUpload, ReadTestMetadata,
     AddTestRevision, AssertTestRevision, DeclareTestSnap, InsertTestDeclaration,
     FinishTestSnap, LoadStep, deploymentVars, gatewayVars
<1>1. /\ NextSnap.snap \in Snaps /\ done \in Nat /\ done + 1 \in 1..Len(TestSnaps)
      /\ TablesTypeOK /\ RevisionsOK /\ TablesTypeOK' /\ Len(TestSnaps) \in Nat
  BY <1>0, NextSnapIs, TestSnapsAre DEF StoreInv
<1>2. CASE RegisterTestSnap
  <2>1. /\ done' = done /\ file' = file /\ snapStep' = "registered"
        /\ RegisterSnapName(NextSnap.snap, OwnerOfNext)
    BY <1>2 DEF RegisterTestSnap, LoadStep
  <2>2. /\ NextSnap.snap \in DOMAIN entries' /\ entries'[NextSnap.snap] = OwnerOfNext
        /\ revisions' = revisions /\ revisions[NextSnap.snap] = << >>
    BY <1>1, <2>1 DEF RegisterSnapName, RevisionsOK
  <2>3. SnapLoaderTypeOK'
    BY <1>0, <2>1 DEF SnapLoaderTypeOK
  <2>4. SnapLoaderOK'
    BY <1>0, <2>1, <2>2 DEF SnapLoaderOK, NextSnap, OwnerOfNext, NotRevised, Revised
  <2> QED BY <2>3, <2>4
<1>3. CASE UploadTestFile \/ AddTestUpload \/ ReadTestMetadata
  <2>1. /\ done' = done /\ UNCHANGED <<entries, revisions>>
        /\ snapStep \in NotRevised /\ snapStep' \in NotRevised \ {"registered"}
        /\ file' \in Files /\ Digest[file'] = NextSnap.digest
    <3>1. CASE UploadTestFile
      BY <3>1 DEF UploadTestFile, UnscannedUpload, LoadStep, NotRevised
    <3>2. CASE AddTestUpload
      BY <3>2 DEF AddTestUpload, AddUpload, LoadStep, NotRevised, SnapLoaderTypeOK, SnapLoaderOK
    <3>3. CASE ReadTestMetadata
      BY <3>3 DEF ReadTestMetadata, GetObjectCustomMetadata, LoadStep, NotRevised,
         SnapLoaderTypeOK, SnapLoaderOK, storeVars
    <3> QED BY <1>3, <3>1, <3>2, <3>3
  <2>2. /\ snapStep # "start" /\ snapStep' \notin Revised /\ snapStep' # "start"
        /\ snapStep' # "declaration inserted"
        /\ snapStep' \in {"registered", "uploaded", "upload added", "metadata read"}
    BY <2>1 DEF NotRevised, Revised
  <2>3. SnapLoaderTypeOK'
    BY <1>0, <2>1, <2>2 DEF SnapLoaderTypeOK
  <2>4. SnapLoaderOK'
    BY <1>0, <2>1, <2>2 DEF SnapLoaderOK, NextSnap, OwnerOfNext
  <2> QED BY <2>3, <2>4
<1>4. CASE AddTestRevision
  <2>1. /\ done' = done /\ file' = file /\ snapStep = "metadata read"
        /\ snapStep' = "revision added" /\ AddRevision(NextSnap.snap, file) /\ file \in Files
        /\ entries' = entries
    BY <1>4 DEF AddTestRevision, AddRevision, LoadStep, SnapLoaderTypeOK
  <2>2. /\ revisions[NextSnap.snap] = << >> /\ Digest[file] = NextSnap.digest
        /\ entries[NextSnap.snap] = OwnerOfNext /\ NextSnap.snap \in DOMAIN entries
    BY <2>1 DEF SnapLoaderOK, NotRevised
  <2>3. Len(revisions[NextSnap.snap]) = 0
    BY <2>2
  <2>4. Len(revisions'[NextSnap.snap]) = 1 /\ revisions'[NextSnap.snap][1] = file
    <3>1. /\ Len(revisions'[NextSnap.snap]) = Len(revisions[NextSnap.snap]) + 1
          /\ revisions'[NextSnap.snap][Len(revisions[NextSnap.snap]) + 1] = file
      BY <1>1, <2>1, RevisionAppended
    <3>2. Len(revisions[NextSnap.snap]) + 1 = 1
      BY <2>3
    <3> QED BY <3>1, <3>2
  <2>5. SnapLoaderTypeOK'
    BY <1>0, <2>1 DEF SnapLoaderTypeOK
  <2>6. SnapLoaderOK'
    BY <1>0, <2>1, <2>2, <2>4 DEF SnapLoaderOK, NextSnap, OwnerOfNext, NotRevised, Revised
  <2> QED BY <2>5, <2>6
<1>5. CASE AssertTestRevision
  <2> DEFINE doc == [digest |-> NextSnap.digest, developer |-> OwnerOfNext,
                     snap |-> NextSnap.snap, revision |-> Len(revisions[NextSnap.snap])]
  <2>0. /\ done' = done /\ file' = file /\ snapStep = "revision added"
        /\ snapStep' = "revision asserted" /\ UNCHANGED <<entries, revisions>>
        /\ doc \in revisionDocs'
    BY <1>5 DEF AssertTestRevision, AddSnapRevisionAssertion, LoadStep
  <2>1. /\ done' = done /\ file' = file /\ snapStep = "revision added"
        /\ snapStep' = "revision asserted" /\ UNCHANGED <<entries, revisions>>
        /\ \E d \in revisionDocs' : d.digest = NextSnap.digest
    BY <2>0
  <2>2. SnapLoaderTypeOK'
    BY <1>0, <2>1 DEF SnapLoaderTypeOK
  <2>3. SnapLoaderOK'
    BY <1>0, <2>1 DEF SnapLoaderOK, NextSnap, OwnerOfNext, NotRevised, Revised
  <2> QED BY <2>2, <2>3
<1>6. CASE DeclareTestSnap
  <2>1. /\ done' = done /\ file' = file /\ snapStep = "revision asserted"
        /\ snapStep' = "declared" /\ UNCHANGED storeVars
    BY <1>6 DEF DeclareTestSnap, LoadStep
  <2>2. SnapLoaderTypeOK'
    BY <1>0, <2>1 DEF SnapLoaderTypeOK
  <2>3. SnapLoaderOK'
    BY <1>0, <2>1 DEF SnapLoaderOK, NextSnap, OwnerOfNext, NotRevised, Revised, storeVars
  <2> QED BY <2>2, <2>3
<1>7. CASE InsertTestDeclaration
  <2>1. /\ done' = done /\ file' = file /\ snapStep = "declared"
        /\ snapStep' = "declaration inserted" /\ UNCHANGED storeVars
    BY <1>7 DEF InsertTestDeclaration, LoadStep
  <2>2. PICK w \in Pushing : /\ draft[w].subject = NextSnap.snap
                             /\ Insert(w, "snap-declaration")
    BY <1>7 DEF InsertTestDeclaration, InsertSnapDeclarationAssertion
  <2>3. NextSnap.snap \in SubjectsOf("snap-declaration")'
    BY <2>2, InsertedDocuments, ConstantsFit DEF SubjectsOf, DocInv, NumberedKinds
  <2>4. SnapLoaderTypeOK'
    BY <1>0, <2>1 DEF SnapLoaderTypeOK
  <2>5. SnapLoaderOK'
    BY <1>0, <2>1, <2>3 DEF SnapLoaderOK, NextSnap, OwnerOfNext, NotRevised, Revised, storeVars
  <2> QED BY <2>4, <2>5
<1>8. CASE FinishTestSnap
  <2>1. done' = done + 1 /\ file' = file /\ snapStep' = "start"
    BY <1>8 DEF FinishTestSnap, LoadStep
  <2>2. done + 1 \in 0..Len(TestSnaps)
    BY <1>1
  <2>3. SnapLoaderTypeOK'
    BY <1>0, <2>1, <2>2 DEF SnapLoaderTypeOK
  <2>4. SnapLoaderOK'
    BY <1>0, <2>1 DEF SnapLoaderOK, NotRevised, Revised
  <2> QED BY <2>3, <2>4
<1> QED BY <1>2, <1>3, <1>4, <1>5, <1>6, <1>7, <1>8 DEF LoadSnaps

LEMMA SnapLoaderStep ==
  ASSUME DeploymentInv, StoreInv, StoreInv', StoreKeeps, SnapLoaderTypeOK, SnapLoaderOK,
         StorefrontNext
  PROVE  SnapLoaderTypeOK' /\ SnapLoaderOK'
<1>1. LoaderOK /\ DocInv /\ AInv
  BY DEF DeploymentInv
<1>2. SubjectsOf("snap-declaration") \subseteq SubjectsOf("snap-declaration")'
  BY <1>1, StorefrontDeploys, DocumentsRemain DEF NumberedKinds
<1>3. CASE LoadSnaps
  BY <1>1, <1>2, <1>3, SnapLoaderSteps
<1>4. CASE Publish
  <2>1. UNCHANGED <<gateway, idOf, done, snapStep, file, revisions, revisionDocs>>
    BY <1>4 DEF Publish, FindPublisher, RegisterForPublisher, RefusePublisher, RegisterSnapName,
       deploymentVars, gatewayVars, storeVars, snapLoaderVars
  <2>2. publisher' \subseteq AccountIds
    BY <1>1, <1>4
    DEF Publish, FindPublisher, RegisterForPublisher, RefusePublisher, SnapLoaderTypeOK,
        WithEmail, AInv, AccountsTypeOK
  <2>3. SnapLoaderTypeOK'
    BY <2>1, <2>2 DEF SnapLoaderTypeOK
  <2>4. SnapLoaderOK'
    BY <1>2, <2>1 DEF SnapLoaderOK, NextSnap, OwnerOfNext, StoreKeeps
  <2> QED BY <2>3, <2>4
<1>5. CASE StepOfDeployment
  <2>0. 0 \in 0..Len(TestSnaps) /\ NoFile \in Files
    BY TestSnapsAre, StorefrontAssumption DEF NoFile
  <2>1. publisher' \subseteq AccountIds /\ UNCHANGED storeVars /\ DeploymentNext
    BY <1>5 DEF StepOfDeployment, SnapLoaderTypeOK
  <2>2. CASE gateway' # "load snaps"
    <3>1. done' = 0 /\ snapStep' = "start" /\ file' = NoFile
      BY <1>5, <2>2 DEF StepOfDeployment
    <3> QED BY <2>0, <2>1, <3>1 DEF SnapLoaderTypeOK, SnapLoaderOK, NotRevised, Revised
  <2>3. CASE gateway' = "load snaps"
    <3>1. UNCHANGED snapLoaderVars
      BY <1>5, <2>3 DEF StepOfDeployment
    <3>2. SnapLoaderTypeOK'
      BY <2>1, <3>1 DEF SnapLoaderTypeOK, snapLoaderVars
    <3>3. CASE gateway = "load snaps"
      <4>1. UNCHANGED idOf
        BY <2>1, <2>3, <3>3, GatewayMoves
      <4> QED BY <1>2, <2>1, <2>3, <3>1, <3>2, <3>3, <4>1
          DEF SnapLoaderOK, NextSnap, OwnerOfNext, storeVars, snapLoaderVars
    <3>4. CASE gateway # "load snaps"
      <4>1. snapStep' = "start"
        BY <3>1, <3>4 DEF SnapLoaderOK, snapLoaderVars
      <4> QED BY <2>3, <3>2, <4>1 DEF SnapLoaderOK, NotRevised, Revised
    <3> QED BY <3>3, <3>4
  <2> QED BY <2>2, <2>3
<1> QED BY <1>3, <1>4, <1>5 DEF StorefrontNext

-----------------------------------------------------------------------------
(* What the loader has loaded, in test mode. *)

\* All that is needed to install the revisions of a snap has been asserted.
Sound(s) ==
    /\ \A i \in DOMAIN revisions[s] : \E d \in revisionDocs : d.digest = Digest[revisions[s][i]]
    /\ revisions[s] # << >> =>
          s \in SubjectsOf("snap-declaration") /\ entries[s] \in SubjectsOf("account")

Unfinished(s) ==
    s \in DOMAIN entries /\ \E i \in 1..Len(TestSnaps) : i > done /\ TestSnaps[i].snap = s

Stored(s) == s \in DOMAIN entries /\ revisions[s] # << >>

\* A snap that the loader has left half done is one that it registers again, in
\* vain, before the gateway serves.
LoadedOK ==
    /\ \A s \in Snaps : Sound(s) \/ (gateway # "serving" /\ Unfinished(s))
    /\ \A i \in 1..done : Stored(TestSnaps[i].snap)
    /\ gateway = "serving" => \A i \in 1..Len(TestSnaps) : Stored(TestSnaps[i].snap)

SubjectsRemain ==
    \A kind \in NumberedKinds : SubjectsOf(kind) \subseteq SubjectsOf(kind)'

LEMMA SoundStays ==
  ASSUME NEW s \in Snaps, RevisionsOK, StoreKeeps, SubjectsRemain,
         revisions'[s] = revisions[s], Sound(s)
  PROVE  Sound(s)'
BY DEF Sound, RevisionsOK, StoreKeeps, SubjectsRemain, NumberedKinds

LEMMA StoredStays ==
  ASSUME NEW s \in Snaps, StoreInv, StoreInv', StoreKeeps, Stored(s)
  PROVE  Stored(s)'
<1>1. /\ Len(revisions[s]) \in Nat /\ DOMAIN revisions[s] = 1..Len(revisions[s])
      /\ revisions[s] = << >> <=> Len(revisions[s]) = 0
  BY RevisionsAre DEF StoreInv
<1>2. /\ Len(revisions[s])' \in Nat /\ DOMAIN revisions'[s] = 1..Len(revisions[s])'
      /\ revisions'[s] = << >> <=> Len(revisions[s])' = 0
  <2>1. TablesTypeOK'
    BY DEF StoreInv
  <2>2. revisions'[s] \in Seq(Files)
    BY <2>1 DEF TablesTypeOK
  <2> QED BY <2>2
<1>3. 1 \in DOMAIN revisions[s]
  BY <1>1 DEF Stored
<1>4. 1 \in DOMAIN revisions'[s]
  BY <1>3 DEF StoreKeeps
<1>5. revisions'[s] # << >>
  BY <1>2, <1>4
<1> QED BY <1>5 DEF Stored, StoreKeeps

LEMMA Beyond ==
  ASSUME NEW n \in Nat, NEW d \in 0..n
  PROVE  /\ \A i \in 1..n : /\ i > d /\ i # d + 1 => i > d + 1
                            /\ i > 0 /\ (d = n => ~(i > d))
         /\ \A i \in 1..(d + 1) : i \in 1..d \/ i = d + 1
         /\ \A i \in 1..d : i \in 1..n
         /\ d < n => d + 1 > d
         /\ 1..0 = {}
OBVIOUS

LEMMA LoadedStep ==
  ASSUME DeploymentInv, IdsAsserted, StoreInv, StoreInv', StoreKeeps, SubjectsRemain,
         SnapLoaderTypeOK, SnapLoaderOK, SnapLoaderOK',
         LoadedOK, testMode, StorefrontNext
  PROVE  LoadedOK'
<1>0. /\ RevisionsOK /\ TablesTypeOK /\ LoaderOK /\ Len(TestSnaps) \in Nat
      /\ done \in 0..Len(TestSnaps)
      /\ \A i \in 1..Len(TestSnaps) : TestSnaps[i].snap \in Snaps
  BY TestSnapsAre DEF StoreInv, DeploymentInv, SnapLoaderTypeOK
<1>1. \A i \in 1..Len(TestSnaps) : Stored(TestSnaps[i].snap) => Stored(TestSnaps[i].snap)'
  BY <1>0, StoredStays
<1>2. ASSUME NEW s \in Snaps, Sound(s), revisions'[s] = revisions[s]
      PROVE  Sound(s)'
  BY <1>0, <1>2, SoundStays
<1>3. CASE Publish
  <2>1. UNCHANGED <<gateway, done, revisions>>
    BY <1>3 DEF Publish, FindPublisher, RegisterForPublisher, RefusePublisher, RegisterSnapName,
       deploymentVars, gatewayVars, storeVars, snapLoaderVars
  <2>2. ASSUME NEW s \in Snaps PROVE Unfinished(s) => Unfinished(s)'
    BY <2>1 DEF Unfinished, StoreKeeps
  <2> QED BY <1>0, <1>1, <1>2, <2>1, <2>2, Beyond DEF LoadedOK
<1>4. CASE LoadSnaps /\ ~FinishTestSnap
  <2>1. gateway = "load snaps" /\ gateway' = gateway /\ done' = done /\ snapStep' # "start"
        /\ done < Len(TestSnaps)
        /\ \A s \in Snaps : s # NextSnap.snap => revisions'[s] = revisions[s]
    <3>1. CASE AddTestRevision
      BY <1>0, <3>1, NextSnapIs, RevisionAppended
      DEF AddTestRevision, LoadStep, deploymentVars, gatewayVars, SnapLoaderTypeOK
    <3>2. CASE ~AddTestRevision
      BY <1>4, <3>2 DEF LoadSnaps, RegisterTestSnap, RegisterSnapName, UploadTestFile,
         UnscannedUpload, AddTestUpload, AddUpload, ReadTestMetadata, GetObjectCustomMetadata,
         AssertTestRevision, AddSnapRevisionAssertion, DeclareTestSnap, InsertTestDeclaration,
         LoadStep, deploymentVars, gatewayVars, storeVars
    <3> QED BY <3>1, <3>2
  <2>2. Unfinished(NextSnap.snap)'
    <3>1. NextSnap' = NextSnap /\ NextSnap.snap \in DOMAIN entries'
      BY <2>1 DEF SnapLoaderOK, NextSnap
    <3>2. done + 1 \in 1..Len(TestSnaps) /\ done + 1 > done
      BY <1>0, <2>1, Beyond, NextSnapIs
    <3> QED BY <2>1, <3>1, <3>2 DEF Unfinished, NextSnap
  <2>3. ASSUME NEW s \in Snaps, s # NextSnap.snap
        PROVE  Sound(s)' \/ Unfinished(s)'
    <3>1. Unfinished(s) => Unfinished(s)'
      BY <2>1 DEF Unfinished, StoreKeeps
    <3> QED BY <1>2, <2>1, <2>3, <3>1 DEF LoadedOK
  <2>4. NextSnap' = NextSnap
    BY <2>1 DEF NextSnap
  <2>5. \A s \in Snaps : Sound(s)' \/ Unfinished(s)'
    BY <2>2, <2>3, <2>4
  <2> QED BY <1>0, <1>1, <2>1, <2>5, Beyond DEF LoadedOK
<1>5. CASE FinishTestSnap
  <2>1. /\ gateway = "load snaps" /\ gateway' = gateway /\ done' = done + 1
        /\ snapStep = "declaration inserted" /\ done < Len(TestSnaps)
        /\ UNCHANGED <<revisions, entries, revisionDocs>>
    BY <1>5 DEF FinishTestSnap, UpdateUploadStatus, LoadStep, deploymentVars, gatewayVars
  <2>2. NextSnap.snap \in Snaps /\ done + 1 \in 1..Len(TestSnaps) /\ NextSnap.owner \in DOMAIN idOf
    BY <1>0, <2>1, NextSnapIs
  <2>3. /\ NextSnap.snap \in DOMAIN entries /\ entries[NextSnap.snap] = OwnerOfNext
        /\ Len(revisions[NextSnap.snap]) = 1
        /\ Digest[revisions[NextSnap.snap][1]] = NextSnap.digest
        /\ NextSnap.snap \in SubjectsOf("snap-declaration")
        /\ \E d \in revisionDocs : d.digest = NextSnap.digest
    BY <2>1 DEF SnapLoaderOK, Revised
  <2>4. OwnerOfNext \in SubjectsOf("account")
    <3>1. Len(TestAccounts) <= loaded /\ Len(idOf) = Len(TestAccounts)
          /\ loaded \in Nat /\ Len(TestAccounts) \in Nat
      BY <1>0, <2>1, FilesFit DEF IdsAsserted, LoaderOK, StageOK, RestTypeOK
    <3>2. DOMAIN idOf = 1..Len(idOf)
      BY <1>0, FilesFit DEF LoaderOK
    <3>3. \A i \in 1..Len(TestAccounts) : i <= loaded
      BY <3>1, Within
    <3> QED BY <2>2, <3>1, <3>2, <3>3 DEF IdsAsserted, OwnerOfNext
  <2>5. Sound(NextSnap.snap) /\ Stored(NextSnap.snap)
    <3>1. DOMAIN revisions[NextSnap.snap] = {1} /\ revisions[NextSnap.snap] # << >>
      BY <1>0, <2>2, <2>3, RevisionsAre
    <3> QED BY <2>3, <2>4, <3>1 DEF Sound, Stored
  <2>6. ASSUME NEW s \in Snaps PROVE Sound(s)' \/ Unfinished(s)'
    <3>1. CASE Sound(s)
      BY <1>2, <2>1, <3>1
    <3>2. CASE Unfinished(s) /\ s # NextSnap.snap
      <4>1. PICK i \in 1..Len(TestSnaps) : i > done /\ TestSnaps[i].snap = s
        BY <3>2 DEF Unfinished
      <4>2. i # done + 1
        BY <3>2, <4>1 DEF NextSnap
      <4>3. i > done + 1
        BY <1>0, <4>1, <4>2, Beyond
      <4> QED BY <2>1, <3>2, <4>1, <4>3 DEF Unfinished
    <3> QED BY <2>5, <3>1, <3>2 DEF LoadedOK
  <2>7. \A i \in 1..(done + 1) : Stored(TestSnaps[i].snap)'
    BY <1>0, <1>1, <2>2, <2>5, Beyond DEF LoadedOK, NextSnap
  <2> QED BY <2>1, <2>6, <2>7 DEF LoadedOK
<1>6. CASE StepOfDeployment
  <2>1. /\ UNCHANGED storeVars /\ DeploymentNext
        /\ (gateway = "load snaps" /\ gateway' = "serving") => done = Len(TestSnaps)
        /\ IF gateway' = "load snaps" THEN done' = done ELSE done' = 0
    BY <1>6 DEF StepOfDeployment, snapLoaderVars
  <2>2. \A s \in Snaps : Sound(s) => Sound(s)'
    BY <1>2, <2>1 DEF storeVars
  <2>3. ASSUME NEW s \in Snaps, Unfinished(s) PROVE Unfinished(s)'
    <3>1. \A i \in 1..Len(TestSnaps) : i > done => i > done'
      BY <1>0, <2>1, Beyond
    <3> QED BY <2>1, <2>3, <3>1 DEF Unfinished, storeVars
  <2>4. \A i \in 1..done' : Stored(TestSnaps[i].snap)'
    BY <1>0, <1>1, <2>1, Beyond DEF LoadedOK
  <2>5. CASE gateway' = "serving"
    <3>1. CASE gateway = "serving"
      BY <1>1, <2>2, <2>4, <3>1 DEF LoadedOK
    <3>2. CASE gateway # "serving"
      <4>1. done = Len(TestSnaps)
        BY <2>1, <2>5, <3>2, GatewayMoves
      <4>2. \A s \in Snaps : ~Unfinished(s)
        BY <1>0, <4>1, Beyond DEF Unfinished
      <4> QED BY <1>1, <2>2, <2>4, <4>1, <4>2 DEF LoadedOK
    <3> QED BY <3>1, <3>2
  <2>6. CASE gateway' # "serving"
    BY <2>2, <2>3, <2>4, <2>6 DEF LoadedOK
  <2> QED BY <2>5, <2>6
<1> QED BY <1>3, <1>4, <1>5, <1>6 DEF StorefrontNext

\* Only the loader adds revisions, one for each of its snaps at most.
FewRevisions == \A s \in Snaps : Len(revisions[s]) <= Len(TestSnaps)

LEMMA FewStep ==
  ASSUME LoaderOK, TablesTypeOK, SnapLoaderTypeOK, SnapLoaderOK, FewRevisions, StorefrontNext
  PROVE  FewRevisions'
<1>1. CASE AddTestRevision
  <2>1. /\ gateway = "load snaps" /\ done < Len(TestSnaps) /\ snapStep = "metadata read"
        /\ AddRevision(NextSnap.snap, file) /\ file \in Files
    BY <1>1 DEF AddTestRevision, LoadStep, SnapLoaderTypeOK
  <2>2. NextSnap.snap \in Snaps /\ revisions[NextSnap.snap] = << >>
    BY <2>1, NextSnapIs DEF SnapLoaderOK, NotRevised
  <2>3. /\ Len(revisions'[NextSnap.snap]) = Len(revisions[NextSnap.snap]) + 1
        /\ \A t \in Snaps : t # NextSnap.snap => revisions'[t] = revisions[t]
    BY <2>1, <2>2, RevisionAppended
  <2>4. Len(revisions[NextSnap.snap]) + 1 = 1
    BY <2>2
  <2>5. 1 <= Len(TestSnaps)
    <3>1. done \in 0..Len(TestSnaps) /\ Len(TestSnaps) \in Nat /\ done < Len(TestSnaps)
      BY <2>1, TestSnapsAre DEF SnapLoaderTypeOK
    <3> QED BY <3>1
  <2> QED BY <2>3, <2>4, <2>5 DEF FewRevisions
<1>2. CASE ~AddTestRevision
  <2>1. UNCHANGED revisions
    BY <1>2 DEF StorefrontNext, StepOfDeployment, LoadSnaps, RegisterTestSnap, RegisterSnapName,
       UploadTestFile, UnscannedUpload, AddTestUpload, AddUpload, ReadTestMetadata,
       GetObjectCustomMetadata, AssertTestRevision, AddSnapRevisionAssertion, DeclareTestSnap,
       InsertTestDeclaration, FinishTestSnap, UpdateUploadStatus, Publish, FindPublisher,
       RegisterForPublisher, RefusePublisher, storeVars
  <2> QED BY <2>1 DEF FewRevisions
<1> QED BY <1>1, <1>2

-----------------------------------------------------------------------------
(* All that is known of a deployment with its store. *)

StorefrontInv ==
    /\ DeploymentInv /\ IdsAsserted /\ StoreInv /\ SnapLoaderTypeOK /\ SnapLoaderOK
    /\ FewRevisions
    /\ testMode => LoadedOK

LEMMA StorefrontInitially == StorefrontInit => StorefrontInv
<1> SUFFICES ASSUME StorefrontInit PROVE StorefrontInv
  OBVIOUS
<1>1. DeploymentInv
  BY DeploymentInitially DEF StorefrontInit
<1>2. /\ gateway = "down" /\ loaded = 0 /\ DOMAIN idOf = {} /\ DOMAIN entries = {}
      /\ \A s \in Snaps : revisions[s] = << >> /\ DOMAIN revisions[s] = {}
      /\ revisions \in [Snaps -> Seq(Files)] /\ unscanned = {} /\ DOMAIN uploads = {}
      /\ revisionDocs = {} /\ done = 0 /\ snapStep = "start" /\ file = NoFile /\ publisher = {}
  BY DEF StorefrontInit, DeploymentInit
<1>3. IdsAsserted
  BY <1>2 DEF IdsAsserted
<1>4. StoreInv
  BY <1>2 DEF StoreInv, TablesTypeOK, RevisionsOK
<1>5. 0 \in 0..Len(TestSnaps) /\ NoFile \in Files /\ 1..0 = {}
  BY TestSnapsAre, StorefrontAssumption DEF NoFile
<1>6. SnapLoaderTypeOK /\ SnapLoaderOK
  BY <1>2, <1>5 DEF SnapLoaderTypeOK, SnapLoaderOK, NotRevised, Revised
<1>7. LoadedOK
  BY <1>2, <1>5 DEF LoadedOK, Sound
<1>8. FewRevisions
  <2>1. Len(<< >>) = 0 /\ 0 <= Len(TestSnaps)
    BY TestSnapsAre
  <2> QED BY <1>2, <2>1 DEF FewRevisions
<1> QED BY <1>1, <1>3, <1>4, <1>6, <1>7, <1>8 DEF StorefrontInv

\* What a step keeps of all that was known before it.
Keeps ==
    /\ AccountsKeep /\ StoreKeeps /\ SubjectsRemain
    /\ testMode' = testMode

LEMMA StorefrontStep ==
  ASSUME StorefrontInv, StorefrontNext \/ UNCHANGED storefrontVars
  PROVE  StorefrontInv' /\ Keeps
<1>1. /\ DeploymentInv /\ IdsAsserted /\ StoreInv /\ SnapLoaderTypeOK /\ SnapLoaderOK /\ LoaderOK
      /\ FewRevisions /\ TablesTypeOK /\ (testMode => LoadedOK)
  BY DEF StorefrontInv, DeploymentInv, StoreInv
<1>2. DeploymentNext \/ UNCHANGED deploymentVars
  <2>1. CASE StorefrontNext
    BY <1>1, <2>1, StorefrontDeploys
  <2>2. CASE UNCHANGED storefrontVars
    BY <2>2 DEF storefrontVars
  <2> QED BY <2>1, <2>2
<1>3. DeploymentInv'
  BY <1>1, <1>2, DeploymentStep, DeploymentStutter
<1>4. IdsAsserted'
  BY <1>1, <1>2, IdsStep
<1>5. AccountsKeep /\ SubjectsRemain
  BY <1>1, <1>2, DocumentsRemain DEF SubjectsRemain
<1>6. testMode' = testMode
  BY <1>2, GatewayMoves DEF deploymentVars, gatewayVars
<1>7. StoreStep
  <2>1. CASE StorefrontNext
    BY <1>1, <2>1, StorefrontStores
  <2>2. CASE UNCHANGED storefrontVars
    BY <2>2 DEF storefrontVars, StoreStep
  <2> QED BY <2>1, <2>2
<1>8. StoreInv' /\ StoreKeeps
  BY <1>1, <1>7, StoreStepKeeps
<1>9. SnapLoaderTypeOK' /\ SnapLoaderOK' /\ (testMode' => LoadedOK')
  <2>1. CASE StorefrontNext
    <3>1. SnapLoaderTypeOK' /\ SnapLoaderOK'
      BY <1>1, <1>8, <2>1, SnapLoaderStep
    <3>2. ASSUME testMode PROVE LoadedOK'
      BY <1>1, <1>5, <1>8, <2>1, <3>1, <3>2, LoadedStep
    <3> QED BY <1>6, <3>1, <3>2
  <2>2. CASE UNCHANGED storefrontVars
    <3>1. UNCHANGED <<gateway, idOf, documents, testMode, entries, revisions, revisionDocs,
                      done, snapStep, file, publisher>>
      BY <2>2 DEF storefrontVars, deploymentVars, gatewayVars, assertionVars, storeVars,
         snapLoaderVars
    <3>2. SnapLoaderTypeOK' /\ SnapLoaderOK'
      BY <1>1, <3>1 DEF SnapLoaderTypeOK, SnapLoaderOK, NextSnap, OwnerOfNext, SubjectsOf
    <3>3. LoadedOK => LoadedOK'
      BY <3>1 DEF LoadedOK, Sound, Unfinished, Stored, SubjectsOf
    <3> QED BY <1>1, <3>1, <3>2, <3>3
  <2> QED BY <2>1, <2>2
<1>10. FewRevisions'
  <2>1. CASE UNCHANGED storefrontVars
    BY <1>1, <2>1 DEF storefrontVars, storeVars, FewRevisions
  <2> QED BY <1>1, <2>1, FewStep
<1> QED BY <1>3, <1>4, <1>5, <1>6, <1>8, <1>9, <1>10 DEF StorefrontInv, Keeps

\* Nothing more is asserted of an account that the loader has added.
NoMoreSaid ==
    \A i \in DOMAIN documents'["account"] : documents'["account"][i].subject \in AccountIds =>
        /\ i \in DOMAIN documents["account"]
        /\ documents'["account"][i] = documents["account"][i]

LEMMA ServingSaysNoMore ==
  ASSUME DeploymentInv, DeploymentNext \/ UNCHANGED deploymentVars,
         gateway = "serving", gateway' = "serving"
  PROVE  NoMoreSaid
<1>1. DocInv
  BY DEF DeploymentInv
<1>2. CASE UNCHANGED documents
  BY <1>2 DEF NoMoreSaid
<1>3. ASSUME NEW w \in Writers, NEW kind \in NumberedKinds, kind # "account", Insert(w, kind)
      PROVE  NoMoreSaid
  BY <1>1, <1>3, InsertedDocuments DEF NoMoreSaid, DocInv, NumberedKinds
<1>4. CASE InsertRootAccount
  <2>1. Insert("start", "account") /\ writing["start"] = "account"
    BY <1>4 DEF InsertRootAccount, InsertAccountAssertion, Insert
  <2>2. draft["start"].subject \notin AccountIds
    BY <1>1, <2>1, ConstantsFit DEF DocInv, DraftOK, Allowed
  <2>3. /\ DOMAIN documents'["account"]
              = DOMAIN documents["account"] \cup {Len(documents["account"]) + 1}
        /\ \A i \in DOMAIN documents["account"] :
              documents'["account"][i] = documents["account"][i]
        /\ documents'["account"][Len(documents["account"]) + 1] = draft["start"]
    BY <1>1, <2>1, InsertedDocuments, ConstantsFit DEF DocInv, NumberedKinds
  <2> QED BY <2>2, <2>3 DEF NoMoreSaid
<1>5. CASE InsertRootKey
  BY <1>3, <1>5, ConstantsFit
  DEF InsertRootKey, InsertAccountKeyAssertion, NumberedKinds
<1>6. CASE SignForPushes
  <2>1. ASSUME NEW w \in Pushing, InsertSnapDeclarationAssertion(w) PROVE NoMoreSaid
    BY <1>3, <2>1, ConstantsFit DEF InsertSnapDeclarationAssertion, NumberedKinds
  <2>2. CASE UNCHANGED documents
    BY <1>2, <2>2
  <2> QED
    BY <1>6, <2>1, <2>2
    DEF SignForPushes, AddSnapDeclarationAssertion, LookUpLatest, AbandonWrite,
        AddSnapBuildAssertion
<1>7. CASE StartAccount \/ ServeAccounts \/ StartStore \/ GatewayStep \/ CrashAccount \/ CrashStore
           \/ CrashAssertion \/ LookUpRootKey \/ LookUpRootAccount \/ UNCHANGED deploymentVars
  <2>1. UNCHANGED documents
    BY <1>7 DEF StartAccount, ServeAccounts, StartStore, MakeBucket, GatewayStep, StartGateway,
       DialServices, Dial, Attempt, CrashAccount, CrashStore, CrashAssertion, LookUpRootKey,
       LookUpRootAccount, AddAccountKeyAssertion, AddAccountAssertion, LookUpLatest,
       deploymentVars, assertionVars
  <2> QED BY <1>2, <2>1
<1>8. ~Load /\ ~FailLoad /\ ~CrashGateway
  BY DEF Load, LoadAccount, LookUpLoadedAccount, InsertLoadedAccount, FindLoadedOwner,
     InsertLoadedKey, LookUpLoadedKey, InsertLoadedKeyAssertion, SnapsLoaded, Step, FailLoad,
     CrashGateway, EndGateway
<1> QED BY <1>4, <1>5, <1>6, <1>7, <1>8 DEF DeploymentNext, StartAssertion, Crash

-----------------------------------------------------------------------------
(* The account page. *)

WithRow == {"keys", "snaps", "revisions", "publishers", "shown"}
WithFiles == {"publishers", "shown"}

\* What has been read is still so, but for the account, which may be gone.
PageOK ==
    /\ page \in Page
    /\ page.step \in WithRow =>
          /\ page.id \in issued
          /\ page.id \in DOMAIN accounts =>
                /\ accounts[page.id].email = page.email
                /\ accounts[page.id].display = page.row.display
    /\ page.step \in WithRow \ {"keys"} =>
          page.keys # {} /\ \A k \in page.keys : k \in DOMAIN keys /\ keys[k] = page.id
    /\ page.step \in WithFiles \cup {"revisions"} =>
          page.snaps # {} /\ \A s \in page.snaps : s \in DOMAIN entries /\ entries[s] = page.id
    /\ page.step \in WithFiles => \A sf \in page.files : sf[2] \in FilesOf(sf[1])
    /\ page.step = "shown" => page.publishers = {page.id}

LEMMA NoPageIsPage == NoPage \in Page /\ NoPage.step = "idle"
<1>1. NoPage.email \in Emails /\ NoPage.id \in AccountIds /\ NoPage.row \in Row
  BY AccountsAssumption, DeploymentAssumption DEF NoPage
<1> QED BY <1>1 DEF NoPage, Page

LEMMA PageEnds ==
  ASSUME \E step \in {"idle", "account", "error"}, email \in Emails :
            page' = [NoPage EXCEPT !.step = step, !.email = email]
  PROVE  PageOK'
<1>1. PICK step \in {"idle", "account", "error"}, email \in Emails :
         page' = [NoPage EXCEPT !.step = step, !.email = email]
  OBVIOUS
<1>2. page' \in Page /\ page'.step = step
  BY <1>1, NoPageIsPage DEF Page
<1> QED BY <1>2 DEF PageOK, WithRow, WithFiles

LEMMA FilesStay ==
  ASSUME StoreKeeps, NEW s \in Snaps
  PROVE  FilesOf(s) \subseteq FilesOf(s)'
<1>1. ASSUME NEW i \in DOMAIN revisions[s] PROVE revisions[s][i] \in FilesOf(s)'
  <2>1. i \in DOMAIN revisions'[s] /\ revisions'[s][i] = revisions[s][i]
    BY DEF StoreKeeps
  <2> DEFINE r == [snap |-> s, number |-> i, file |-> revisions'[s][i]]
  <2>2. r \in RevisionsOf(s)'
    BY <2>1 DEF RevisionsOf
  <2>3. r.file = revisions[s][i]
    BY <2>1
  <2> HIDE DEF r
  <2> QED BY <2>2, <2>3 DEF FilesOf
<1> QED BY <1>1 DEF FilesOf, RevisionsOf

LEMMA PageStays ==
  ASSUME PageOK, Keeps, page' = page
  PROVE  PageOK'
<1>1. \A sf \in page.files : sf[1] \in Snaps
  BY DEF PageOK, Page
<1>2. page.step \in WithFiles => \A sf \in page.files : sf[2] \in FilesOf(sf[1])'
  BY <1>1, FilesStay DEF PageOK, Keeps
<1>3. page.step \in WithRow =>
          /\ page.id \in issued'
          /\ page.id \in DOMAIN accounts' =>
                /\ accounts'[page.id].email = page.email
                /\ accounts'[page.id].display = page.row.display
  BY DEF PageOK, Keeps, AccountsKeep
<1>4. page.step \in WithRow \ {"keys"} =>
          page.keys # {} /\ \A k \in page.keys : k \in DOMAIN keys' /\ keys'[k] = page.id
  BY DEF PageOK, Keeps, AccountsKeep
<1>5. page.step \in WithFiles \cup {"revisions"} =>
          page.snaps # {} /\ \A s \in page.snaps : s \in DOMAIN entries' /\ entries'[s] = page.id
  BY DEF PageOK, Keeps, StoreKeeps
<1>6. page \in Page /\ (page.step = "shown" => page.publishers = {page.id})
  BY DEF PageOK
<1> QED BY <1>2, <1>3, <1>4, <1>5, <1>6 DEF PageOK

LEMMA PageMade ==
  ASSUME PageOK, AInv, TablesTypeOK, MakePage
  PROVE  PageOK'
<1>0. UNCHANGED <<accounts, issued, keys, entries, revisions>>
  BY DEF MakePage, GetAccount, ReadAccount, ReadKeys, ReadSnaps, ReadRevisions, ReadPublishers,
     Read, LeavePage, storefrontVars, deploymentVars, accountVars, storeVars
<1>1. /\ page \in Page /\ page.email \in Emails
      /\ DOMAIN accounts \subseteq issued /\ issued \subseteq AccountIds
      /\ \A i \in DOMAIN accounts : accounts[i] \in Row
      /\ DOMAIN keys \subseteq Keys /\ DOMAIN entries \subseteq Snaps
      /\ NoPage.email \in Emails
  BY NoPageIsPage DEF PageOK, Page, AInv, AccountsTypeOK, TablesTypeOK
<1>2. CASE page' = [NoPage EXCEPT !.step = "error"]
  <2>1. page' = [NoPage EXCEPT !.step = "error", !.email = NoPage.email]
    BY <1>2, NoPageIsPage DEF Page
  <2> QED BY <1>1, <2>1, PageEnds
<1>3. CASE GetAccount
  BY <1>3, PageEnds DEF GetAccount
<1>4. CASE LeavePage
  <2>1. page' = [NoPage EXCEPT !.step = "idle", !.email = NoPage.email]
    BY <1>4, NoPageIsPage DEF LeavePage, Page
  <2> QED BY <1>1, <2>1, PageEnds
<1>5. CASE ReadAccount
  <2>1. PICK a \in AskAccountByEmail(page.email) :
          page' = IF a.errors = {} THEN WithAccount(a.rows) ELSE [NoPage EXCEPT !.step = "error"]
    BY <1>5 DEF ReadAccount, Read
  <2>2. CASE a.errors = {}
    <3>1. PICK i \in WithEmail(page.email) : a.rows = {RowOf(i)}
      BY <2>2, AskedAccountByEmail
    <3>2. page' = [page EXCEPT !.step = "keys", !.id = i, !.row = accounts[i]]
      <4>1. (CHOOSE r \in a.rows : TRUE) = RowOf(i)
        BY <3>1
      <4>2. page' = [page EXCEPT !.step = "keys", !.id = RowOf(i).id, !.row = RowOf(i).row]
        BY <2>1, <2>2, <4>1 DEF WithAccount
      <4>3. RowOf(i).id = i /\ RowOf(i).row = accounts[i]
        BY DEF RowOf
      <4> QED BY <4>2, <4>3
    <3>3. i \in DOMAIN accounts /\ accounts[i].email = page.email
      BY DEF WithEmail
    <3>4. /\ page' \in Page /\ page'.step = "keys" /\ page'.id = i /\ page'.row = accounts[i]
          /\ page'.email = page.email
      BY <1>1, <3>2, <3>3 DEF Page
    <3> QED BY <1>0, <1>1, <3>3, <3>4 DEF PageOK, WithRow, WithFiles
  <2> QED BY <1>2, <2>1, <2>2
<1>6. CASE ReadKeys
  <2>1. PICK a \in AskAccountKeysByAccountID(page.id) :
          page' = IF a.errors = {} THEN WithKeys(a.rows) ELSE [NoPage EXCEPT !.step = "error"]
    BY <1>6 DEF ReadKeys, Read
  <2>2. CASE a.errors = {}
    <3>1. a.rows # {} /\ a.rows = {k \in DOMAIN keys : keys[k] = page.id}
      BY <2>2, AskedKeys
    <3>2. page' = [page EXCEPT !.step = "snaps", !.keys = a.rows] /\ page.step = "keys"
      BY <1>6, <2>1, <2>2 DEF WithKeys, ReadKeys, Read
    <3>3. /\ page' \in Page /\ page'.step = "snaps" /\ page'.id = page.id /\ page'.row = page.row
          /\ page'.email = page.email /\ page'.keys = a.rows
      BY <1>1, <3>1, <3>2 DEF Page
    <3> QED BY <1>0, <3>1, <3>2, <3>3 DEF PageOK, WithRow, WithFiles
  <2> QED BY <1>2, <2>1, <2>2
<1>7. CASE ReadSnaps
  <2>1. PICK a \in AskEntriesByAccountID(page.id) :
          page' = IF a.errors = {} THEN WithSnaps(a.rows) ELSE [NoPage EXCEPT !.step = "error"]
    BY <1>7 DEF ReadSnaps, Read
  <2>2. CASE a.errors = {}
    <3>1. a.rows # {} /\ a.rows = {s \in DOMAIN entries : entries[s] = page.id}
      BY <2>2, AskedEntriesOf
    <3>2. page' = [page EXCEPT !.step = "revisions", !.snaps = a.rows] /\ page.step = "snaps"
      BY <1>7, <2>1, <2>2 DEF WithSnaps, ReadSnaps, Read
    <3>3. /\ page' \in Page /\ page'.step = "revisions" /\ page'.id = page.id
          /\ page'.row = page.row /\ page'.email = page.email /\ page'.keys = page.keys
          /\ page'.snaps = a.rows
      BY <1>1, <3>1, <3>2 DEF Page
    <3> QED BY <1>0, <3>1, <3>2, <3>3 DEF PageOK, WithRow, WithFiles
  <2> QED BY <1>2, <2>1, <2>2
<1>8. CASE ReadRevisions
  <2>1. PICK a \in AskRevisionsByEntryIds(page.snaps) :
          page' = IF a.errors = {} THEN WithRevisions(a.rows)
                  ELSE [NoPage EXCEPT !.step = "error"]
    BY <1>8 DEF ReadRevisions, Read
  <2>2. CASE a.errors = {}
    <3> DEFINE files == UNION {{s} \X a.rows[s] : s \in page.snaps}
    <3>1. page.snaps \subseteq Snaps
      BY <1>1 DEF Page
    <3>2. \A s \in Snaps : FilesOf(s) \subseteq Files
      BY RevisionsAre DEF FilesOf, RevisionsOf
    <3>3. \A s \in page.snaps : a.rows[s] \subseteq FilesOf(s)
      BY <2>2, AskedRevisionsOf
    <3>4. \A sf \in files : sf[1] \in Snaps /\ sf[2] \in FilesOf(sf[1]) /\ sf \in Snaps \X Files
      BY <3>1, <3>2, <3>3
    <3>5. page' = [page EXCEPT !.step = "publishers", !.files = files] /\ page.step = "revisions"
      BY <1>8, <2>1, <2>2 DEF WithRevisions, ReadRevisions, Read
    <3> HIDE DEF files
    <3>6. /\ page' \in Page /\ page'.step = "publishers" /\ page'.id = page.id
          /\ page'.row = page.row /\ page'.email = page.email /\ page'.keys = page.keys
          /\ page'.snaps = page.snaps /\ page'.files = files
      BY <1>1, <3>4, <3>5 DEF Page
    <3>7. \A sf \in files : sf[2] \in FilesOf(sf[1])'
      BY <1>0, <3>4 DEF FilesOf, RevisionsOf
    <3> QED BY <1>0, <3>5, <3>6, <3>7 DEF PageOK, WithRow, WithFiles
  <2> QED BY <1>2, <2>1, <2>2
<1>9. CASE ReadPublishers
  <2>1. PICK a \in AskAccountsByIds({page.id}) :
          page' = IF a.errors = {} THEN WithPublishers(a.rows)
                  ELSE [NoPage EXCEPT !.step = "error"]
    BY <1>9 DEF ReadPublishers, Read
  <2>2. CASE a.errors = {}
    <3>1. a.rows = {RowOf(page.id)}
      BY <2>2, AskedAccountsByIds
    <3>2. /\ page' = [page EXCEPT !.step = "shown", !.publishers = {page.id}]
          /\ page.step = "publishers"
      <4>1. {r.id : r \in a.rows} = {page.id}
        BY <3>1 DEF RowOf
      <4> QED BY <1>9, <2>1, <2>2, <4>1 DEF WithPublishers, ReadPublishers, Read
    <3>3. /\ page' \in Page /\ page'.step = "shown" /\ page'.id = page.id
          /\ page'.row = page.row /\ page'.email = page.email /\ page'.keys = page.keys
          /\ page'.snaps = page.snaps /\ page'.files = page.files
          /\ page'.publishers = {page.id}
      BY <1>1, <3>2 DEF Page
    <3>4. \A sf \in page.files : sf[2] \in FilesOf(sf[1])'
      BY <1>0, <3>2 DEF FilesOf, RevisionsOf, PageOK, WithFiles
    <3> QED BY <1>0, <3>2, <3>3, <3>4 DEF PageOK, WithRow, WithFiles
  <2> QED BY <1>2, <2>1, <2>2
<1> QED BY <1>3, <1>4, <1>5, <1>6, <1>7, <1>8, <1>9 DEF MakePage

LEMMA ShownIsTrue == ASSUME PageOK, AInv PROVE PageIsTrue
<1> SUFFICES ASSUME page.step = "shown"
             PROVE  /\ page.id \in DOMAIN accounts
                    /\ accounts[page.id].email = page.email
                    /\ accounts[page.id].display = page.row.display
                    /\ \A k \in page.keys : keys[k] = page.id
                    /\ page.snaps # {} /\ \A s \in page.snaps : entries[s] = page.id
                    /\ {entries[s] : s \in page.snaps} \subseteq page.publishers
                    /\ \A sf \in page.files : sf[2] \in FilesOf(sf[1])
  BY DEF PageIsTrue
<1>1. page.id \in DOMAIN accounts
  BY DEF PageOK, WithRow, AInv, TablesOK, Owners
<1> QED BY <1>1 DEF PageOK, WithRow, WithFiles

-----------------------------------------------------------------------------
(* The installation of a snap. *)

Trusting == {"declaration", "account", "root key", "root account", "trusted"}
Answering == {"download", "revision"} \cup Trusting

\* When the gateway, or snapd, knows the account of the snap, its publisher, and
\* the revision of the answer.
KnowsOwner ==
    /\ install.step \notin {"idle", "failed", "by id"}
    /\ install.step = "by name" => install.refresh
KnowsPublisher ==
    \/ install.step \in {"number"} \cup Answering
    \/ install.refresh /\ install.step \in {"by name", "release"}
KnowsAnswer ==
    \/ install.step \in Answering
    \/ ~install.refresh /\ install.step \in {"publisher", "number"}

OwnerIsKnown == install.snap \in DOMAIN entries /\ install.owner = entries[install.snap]
PublisherIsKnown ==
    \A i \in About("account", install.owner) : documents["account"][i].body = install.publisher
AnswerIsKnown ==
    /\ install.answer \in DOMAIN revisions[install.snap]
    /\ Digest[revisions[install.snap][install.answer]] = install.digest
DocIsKnown == install.doc \in revisionDocs /\ install.doc.digest = install.digest

\* What has been found is still so.
InstallOK ==
    /\ install \in Install
    /\ install.step \notin {"idle", "failed"} => gateway = "serving"
    /\ install.step = "by id" => install.refresh
    /\ install.step = "number" => install.number > 0
    /\ KnowsOwner => OwnerIsKnown
    /\ KnowsPublisher => PublisherIsKnown
    /\ KnowsAnswer => AnswerIsKnown
    /\ install.step \in Trusting => DocIsKnown

LEMMA NoInstallIsInstall == NoInstall \in Install /\ NoInstall.step = "idle"
<1> DEFINE snap == CHOOSE s \in Snaps : TRUE
           doc == [digest |-> Digest[NoFile], developer |-> NoPage.id, snap |-> snap,
                   revision |-> 0]
<1>1. /\ NoPage.id \in AccountIds /\ snap \in Snaps /\ Root.display \in DisplayNames
      /\ Digest[NoFile] \in Digests
  BY NoPageIsPage, StorefrontAssumption, DeploymentAssumption DEF Page, Row, NoFile
<1>2. doc \in RevisionDoc
  BY <1>1 DEF RevisionDoc
<1>3. 0 \in 0..MaxNumber /\ 0 \in 0..Len(TestSnaps)
  BY ReadersAssumption, TestSnapsAre
<1>4. NoInstall = [step |-> "idle", refresh |-> FALSE, snap |-> snap, number |-> 0,
                   owner |-> NoPage.id, publisher |-> Root.display, answer |-> 0,
                   digest |-> Digest[NoFile], doc |-> doc]
  BY DEF NoInstall
<1> HIDE DEF snap, doc
<1> QED BY <1>1, <1>2, <1>3, <1>4 DEF Install

LEMMA InstallEnds ==
  ASSUME install' \in Install, install'.step \in {"idle", "failed"}
  PROVE  InstallOK'
BY DEF InstallOK, KnowsOwner, KnowsPublisher, KnowsAnswer, Answering, Trusting

LEMMA InstallFails ==
  ASSUME install' = [NoInstall EXCEPT !.step = "failed"]
  PROVE  InstallOK'
<1>1. install' \in Install /\ install'.step = "failed"
  BY NoInstallIsInstall DEF Install
<1> QED BY <1>1, InstallEnds

LEMMA InstallStays ==
  ASSUME InstallOK, Keeps, gateway' = "serving", gateway = "serving" => NoMoreSaid,
         install' = install
  PROVE  InstallOK'
<1>1. CASE install.step \in {"idle", "failed"}
  BY <1>1, InstallEnds DEF InstallOK
<1>2. CASE install.step \notin {"idle", "failed"}
  <2>1. NoMoreSaid /\ install.snap \in Snaps /\ install.owner \in AccountIds
    BY <1>2 DEF InstallOK, Install
  <2>2. OwnerIsKnown => OwnerIsKnown'
    BY <2>1 DEF OwnerIsKnown, Keeps, StoreKeeps
  <2>3. PublisherIsKnown => PublisherIsKnown'
    BY <2>1 DEF PublisherIsKnown, NoMoreSaid, About
  <2>4. AnswerIsKnown => AnswerIsKnown'
    BY <2>1 DEF AnswerIsKnown, Keeps, StoreKeeps
  <2>5. DocIsKnown => DocIsKnown'
    BY <2>1 DEF DocIsKnown, Keeps, StoreKeeps
  <2>6. /\ KnowsOwner' = KnowsOwner /\ KnowsPublisher' = KnowsPublisher
        /\ KnowsAnswer' = KnowsAnswer
    BY DEF KnowsOwner, KnowsPublisher, KnowsAnswer
  <2> QED BY <2>2, <2>3, <2>4, <2>5, <2>6 DEF InstallOK
<1> QED BY <1>1, <1>2

\* The steps of an installation read only.
LEMMA InstallReads ==
  ASSUME InstallOK, UNCHANGED storefrontVars,
         install' \in Install, install'.snap = install.snap,
         install'.step \notin {"idle", "failed"}, install.step \notin {"idle", "failed"},
         install'.step = "number" => install'.number > 0, install'.step # "by id",
         KnowsOwner' => install'.owner = entries[install.snap] /\ install.snap \in DOMAIN entries,
         KnowsPublisher' => \A i \in About("account", install'.owner) :
                               documents["account"][i].body = install'.publisher,
         KnowsAnswer' => /\ install'.answer \in DOMAIN revisions[install.snap]
                         /\ Digest[revisions[install.snap][install'.answer]] = install'.digest,
         install'.step \in Trusting => install'.doc \in revisionDocs
                                       /\ install'.doc.digest = install'.digest
  PROVE  InstallOK'
<1>1. UNCHANGED <<gateway, entries, documents, revisions, revisionDocs>>
  BY DEF storefrontVars, deploymentVars, gatewayVars, assertionVars, storeVars
<1>2. /\ KnowsOwner' => OwnerIsKnown'
      /\ KnowsAnswer' => AnswerIsKnown'
      /\ install'.step \in Trusting => DocIsKnown'
  BY <1>1 DEF OwnerIsKnown, AnswerIsKnown, DocIsKnown
<1>3. KnowsPublisher' => PublisherIsKnown'
  BY <1>1 DEF PublisherIsKnown, About
<1>4. gateway' = "serving"
  BY <1>1 DEF InstallOK
<1> QED BY <1>2, <1>3, <1>4 DEF InstallOK

LEMMA AnswerFits ==
  ASSUME StorefrontInv, InstallOK, NEW row \in RevisionsOf(install.snap),
         install.step \notin {"idle", "failed"}
  PROVE  /\ row.number \in DOMAIN revisions[install.snap]
         /\ row.number \in 0..Len(TestSnaps)
         /\ Digest[row.file] \in Digests
         /\ Digest[revisions[install.snap][row.number]] = Digest[row.file]
<1>1. PICK i \in DOMAIN revisions[install.snap] :
         row = [snap |-> install.snap, number |-> i, file |-> revisions[install.snap][i]]
  BY DEF RevisionsOf
<1>2. row.number = i /\ row.file = revisions[install.snap][i]
  BY <1>1
<1>3. /\ install.snap \in Snaps /\ TablesTypeOK
      /\ Len(revisions[install.snap]) <= Len(TestSnaps)
  BY DEF InstallOK, Install, StorefrontInv, StoreInv, FewRevisions
<1>4. /\ Len(revisions[install.snap]) \in Nat /\ Len(TestSnaps) \in Nat
      /\ i \in 1..Len(revisions[install.snap])
      /\ revisions[install.snap][i] \in Files
  BY <1>3, RevisionsAre, TestSnapsAre
<1>5. i \in 0..Len(TestSnaps)
  BY <1>3, <1>4
<1>6. Digest[row.file] \in Digests
  BY <1>2, <1>4, StorefrontAssumption
<1> QED BY <1>2, <1>5, <1>6

LEMMA RevisionIsAnswered ==
  ASSUME StorefrontInv, InstallOK, UNCHANGED storefrontVars,
         NEW row \in RevisionsOf(install.snap), install' = Answered(row),
         KnowsOwner, install.step \in {"release", "number"},
         install.step = "release" => install.refresh
  PROVE  InstallOK'
<1>1. /\ row.number \in DOMAIN revisions[install.snap] /\ row.number \in 0..Len(TestSnaps)
      /\ Digest[row.file] \in Digests
      /\ Digest[revisions[install.snap][row.number]] = Digest[row.file]
  BY AnswerFits
<1>2. install \in Install /\ OwnerIsKnown /\ PublisherIsKnown
  BY DEF InstallOK, KnowsPublisher
<1>3. 0 \in 0..MaxNumber
  BY ReadersAssumption
<1>4. /\ install' \in Install /\ install'.step = "download" /\ install'.snap = install.snap
      /\ install'.owner = install.owner /\ install'.publisher = install.publisher
      /\ install'.answer = row.number /\ install'.digest = Digest[row.file]
  BY <1>1, <1>2, <1>3 DEF Answered, Install
<1>5. install'.step \notin Trusting
  BY <1>4 DEF Trusting
<1>6. /\ install'.owner = entries[install.snap] /\ install.snap \in DOMAIN entries
      /\ \A i \in About("account", install'.owner) :
            documents["account"][i].body = install'.publisher
  BY <1>2, <1>4 DEF OwnerIsKnown, PublisherIsKnown
<1> QED BY <1>1, <1>4, <1>5, <1>6, InstallReads

LEMMA AssertionIsFetched ==
  ASSUME InstallOK, UNCHANGED storefrontVars, install.step \in Answering, NEW step \in Trusting,
         NEW d \in revisionDocs \cap RevisionDoc, d.digest = install.digest,
         install' = [install EXCEPT !.step = step, !.doc = d]
  PROVE  InstallOK'
<1>1. /\ install \in Install /\ OwnerIsKnown /\ PublisherIsKnown /\ AnswerIsKnown
  BY DEF InstallOK, KnowsOwner, KnowsPublisher, KnowsAnswer, Answering, Trusting
<1>2. /\ install' \in Install /\ install'.step = step /\ install'.snap = install.snap
      /\ install'.owner = install.owner /\ install'.publisher = install.publisher
      /\ install'.answer = install.answer /\ install'.digest = install.digest
      /\ install'.doc = d
  BY <1>1 DEF Install, Trusting
<1>3. /\ install'.step \notin {"idle", "failed", "number", "by id"}
      /\ install.step \notin {"idle", "failed"}
  BY <1>2 DEF Trusting, Answering
<1> QED
  BY <1>1, <1>2, <1>3, InstallReads DEF OwnerIsKnown, PublisherIsKnown, AnswerIsKnown

LEMMA InstallBegins ==
  ASSUME BeginInstall PROVE InstallOK'
<1>1. PICK s \in Snaps, refresh \in BOOLEAN, n \in 0..MaxNumber :
         install' = [NoInstall EXCEPT !.step = IF refresh THEN "by id" ELSE "by name",
                                      !.refresh = refresh, !.snap = s, !.number = n]
  BY DEF BeginInstall
<1>2. /\ install' \in Install /\ install'.refresh = refresh
      /\ install'.step = IF refresh THEN "by id" ELSE "by name"
  BY <1>1, NoInstallIsInstall DEF Install
<1>3. gateway' = "serving"
  BY DEF BeginInstall, storefrontVars, deploymentVars, gatewayVars
<1> QED
  BY <1>2, <1>3 DEF InstallOK, KnowsOwner, KnowsPublisher, KnowsAnswer, Answering, Trusting

LEMMA InstallMade ==
  ASSUME StorefrontInv, InstallOK, InstallSnap
  PROVE  InstallOK'
<1>0. /\ UNCHANGED storefrontVars /\ install \in Install
      /\ install.snap \in Snaps /\ install.owner \in AccountIds /\ install.number \in 0..MaxNumber
      /\ TablesTypeOK /\ DOMAIN accounts \subseteq AccountIds
      /\ \A i \in DOMAIN accounts : accounts[i] \in Row
      /\ AssertionsAgree
  <2>1. UNCHANGED storefrontVars
    BY DEF InstallSnap, BeginInstall, AnswerRefresh, GetEntryOfRefresh, GetEntryByItsName,
       GetRelease, GetPublisher, GetNumbered, DownloadSnap, FetchRevision, FetchDeclaration,
       FetchAccount, FetchRootKey, FetchRootAccount, Fetch, EndInstall
  <2>2. install \in Install
    BY DEF InstallOK
  <2>3. TablesTypeOK /\ AInv /\ AssertionsAgree
    BY Agreement DEF StorefrontInv, StoreInv, DeploymentInv
  <2> QED BY <2>1, <2>2, <2>3 DEF Install, AInv, AccountsTypeOK
<1>1. CASE install' = [NoInstall EXCEPT !.step = "failed"]
  BY <1>1, InstallFails
<1>2. CASE BeginInstall
  BY <1>2, InstallBegins
<1>3. CASE EndInstall
  BY <1>3, NoInstallIsInstall, InstallEnds DEF EndInstall
<1>4. CASE GetEntryOfRefresh
  <2>1. PICK a \in Sought : IF a.errors = {} THEN \E row \in a.rows : install' = WithEntry(row)
                            ELSE install' = [NoInstall EXCEPT !.step = "failed"]
    BY <1>4 DEF GetEntryOfRefresh, Fetch
  <2>2. CASE a.errors = {}
    <3>1. install.step = "by id" /\ a \in AskEntryById(install.snap)
      BY <1>4 DEF GetEntryOfRefresh, Fetch, Sought
    <3>2. PICK row \in a.rows : install' = WithEntry(row)
      BY <2>1, <2>2
    <3>3. install.snap \in DOMAIN entries /\ row.owner = entries[install.snap]
      BY <2>2, <3>1, <3>2, AskedEntryById
    <3>4. row.owner \in AccountIds
      BY <1>0, <3>3 DEF TablesTypeOK
    <3>5. /\ install' \in Install /\ install'.step = "publisher" /\ install'.snap = install.snap
          /\ install'.owner = row.owner /\ install'.refresh = install.refresh
      BY <1>0, <3>2, <3>4 DEF WithEntry, Install
    <3>6. install.refresh
      BY <3>1 DEF InstallOK
    <3>7. ~KnowsPublisher' /\ ~KnowsAnswer' /\ install'.step \notin Trusting
      BY <3>5, <3>6 DEF KnowsPublisher, KnowsAnswer, Answering, Trusting
    <3> QED BY <1>0, <3>1, <3>3, <3>5, <3>7, InstallReads
  <2> QED BY <1>1, <2>1, <2>2
<1>5. CASE GetEntryByItsName
  <2>1. PICK a \in Sought : IF a.errors = {} THEN \E row \in a.rows : install' = WithName(row)
                            ELSE install' = [NoInstall EXCEPT !.step = "failed"]
    BY <1>5 DEF GetEntryByItsName, Fetch
  <2>2. CASE a.errors = {}
    <3>1. install.step = "by name" /\ a \in AskEntries({install.snap})
      BY <1>5 DEF GetEntryByItsName, Fetch, Sought
    <3>2. PICK row \in a.rows : install' = WithName(row)
      BY <2>1, <2>2
    <3>3. install.snap \in DOMAIN entries /\ row.owner = entries[install.snap]
      BY <2>2, <3>1, <3>2, AskedEntries
    <3>4. row.owner \in AccountIds
      BY <1>0, <3>3 DEF TablesTypeOK
    <3>5. install.refresh => OwnerIsKnown /\ PublisherIsKnown
      BY <3>1 DEF InstallOK, KnowsOwner, KnowsPublisher
    <3>6. /\ install' \in Install /\ install'.step = "release" /\ install'.snap = install.snap
          /\ install'.owner = entries[install.snap] /\ install'.refresh = install.refresh
          /\ install'.publisher = install.publisher
      <4>1. CASE install.refresh
        BY <1>0, <3>2, <3>5, <4>1 DEF WithName, Install, OwnerIsKnown
      <4>2. CASE ~install.refresh
        BY <1>0, <3>2, <3>3, <3>4, <4>2 DEF WithName, Install
      <4> QED BY <4>1, <4>2
    <3>7. KnowsPublisher' => install.refresh /\ install'.owner = install.owner
      BY <3>5, <3>6 DEF KnowsPublisher, Answering, Trusting, OwnerIsKnown
    <3>8. KnowsPublisher' => \A i \in About("account", install'.owner) :
                                documents["account"][i].body = install'.publisher
      BY <3>5, <3>6, <3>7 DEF PublisherIsKnown
    <3>9. ~KnowsAnswer' /\ install'.step \notin Trusting
      BY <3>6 DEF KnowsAnswer, Answering, Trusting
    <3> QED BY <1>0, <3>1, <3>3, <3>6, <3>8, <3>9, InstallReads
  <2> QED BY <1>1, <2>1, <2>2
<1>6. CASE GetRelease
  <2>1. PICK a \in Sought : IF a.errors = {} THEN \E row \in a.rows : install' = WithRelease(row)
                            ELSE install' = [NoInstall EXCEPT !.step = "failed"]
    BY <1>6 DEF GetRelease, Fetch
  <2>2. CASE a.errors = {}
    <3>1. install.step = "release" /\ a \in AskLatestRevisionByTrackAndChannel(install.snap)
      BY <1>6 DEF GetRelease, Fetch, Sought
    <3>2. PICK row \in a.rows : install' = WithRelease(row)
      BY <2>1, <2>2
    <3>3. row \in RevisionsOf(install.snap)
      BY <2>2, <3>1, <3>2, AskedLatestRevision
    <3>4. KnowsOwner /\ OwnerIsKnown
      BY <3>1 DEF InstallOK, KnowsOwner
    <3>5. CASE install.refresh
      BY <1>0, <3>1, <3>2, <3>3, <3>4, <3>5, RevisionIsAnswered DEF WithRelease
    <3>6. CASE ~install.refresh
      <4>1. /\ row.number \in DOMAIN revisions[install.snap] /\ row.number \in 0..Len(TestSnaps)
            /\ Digest[row.file] \in Digests
            /\ Digest[revisions[install.snap][row.number]] = Digest[row.file]
        BY <3>1, <3>3, AnswerFits
      <4>2. /\ install' \in Install /\ install'.step = "publisher"
            /\ install'.snap = install.snap /\ install'.owner = install.owner
            /\ install'.refresh = install.refresh
            /\ install'.answer = row.number /\ install'.digest = Digest[row.file]
        BY <1>0, <3>2, <3>6, <4>1 DEF WithRelease, Install
      <4>3. ~KnowsPublisher' /\ install'.step \notin Trusting
        BY <3>6, <4>2 DEF KnowsPublisher, Answering, Trusting
      <4> QED BY <1>0, <3>1, <3>4, <4>1, <4>2, <4>3, InstallReads DEF OwnerIsKnown
    <3> QED BY <3>5, <3>6
  <2> QED BY <1>1, <2>1, <2>2
<1>7. CASE GetPublisher
  <2>1. PICK a \in Sought : IF a.errors = {} THEN \E row \in a.rows : install' = WithPublisher(row)
                            ELSE install' = [NoInstall EXCEPT !.step = "failed"]
    BY <1>7 DEF GetPublisher, Fetch
  <2>2. CASE a.errors = {}
    <3>1. install.step = "publisher" /\ a \in AskAccountByID(install.owner)
      BY <1>7 DEF GetPublisher, Fetch, Sought
    <3>2. install.owner \in DOMAIN accounts /\ a.rows = {RowOf(install.owner)}
      BY <2>2, <3>1, AskedAccountById
    <3> DEFINE step == CASE install.number > 0 -> "number"
                         [] install.refresh    -> "by name"
                         [] OTHER              -> "download"
    <3>3. install' = [install EXCEPT !.publisher = accounts[install.owner].display,
                                     !.step = step]
      <4>1. RowOf(install.owner).row = accounts[install.owner]
        BY DEF RowOf
      <4>2. install' = WithPublisher(RowOf(install.owner))
        BY <2>1, <2>2, <3>2
      <4> QED BY <4>1, <4>2 DEF WithPublisher
    <3>4. /\ step \in {"number", "by name", "download"}
          /\ step = "number" => install.number > 0
          /\ step = "by name" => install.refresh
          /\ step = "download" => ~install.refresh
      <4>1. CASE install.number > 0
        BY <4>1
      <4>2. CASE ~(install.number > 0) /\ install.refresh
        BY <4>2
      <4>3. CASE ~(install.number > 0) /\ ~install.refresh
        BY <4>3
      <4> QED BY <4>1, <4>2, <4>3
    <3> HIDE DEF step
    <3>5. accounts[install.owner].display \in DisplayNames
      BY <1>0, <3>2 DEF Row
    <3>6. /\ install' \in Install /\ install'.step = step /\ install'.snap = install.snap
          /\ install'.owner = install.owner /\ install'.refresh = install.refresh
          /\ install'.publisher = accounts[install.owner].display
          /\ install'.number = install.number
          /\ install'.answer = install.answer /\ install'.digest = install.digest
      BY <1>0, <3>3, <3>4, <3>5 DEF Install
    <3>7. \A i \in About("account", install'.owner) :
             documents["account"][i].body = install'.publisher
      BY <1>0, <3>2, <3>6 DEF AssertionsAgree, About
    <3>8. OwnerIsKnown
      BY <3>1 DEF InstallOK, KnowsOwner
    <3>9. ~install.refresh => AnswerIsKnown
      BY <3>1 DEF InstallOK, KnowsAnswer
    <3>10. KnowsAnswer' => ~install.refresh
      BY <3>4, <3>6 DEF KnowsAnswer, Answering, Trusting
    <3>11. install'.step \notin Trusting /\ install'.step \notin {"idle", "failed", "by id"}
      BY <3>4, <3>6 DEF Trusting
    <3>12. KnowsAnswer' => /\ install'.answer \in DOMAIN revisions[install.snap]
                           /\ Digest[revisions[install.snap][install'.answer]] = install'.digest
      BY <3>6, <3>9, <3>10 DEF AnswerIsKnown
    <3>13. install'.owner = entries[install.snap] /\ install.snap \in DOMAIN entries
      BY <3>6, <3>8 DEF OwnerIsKnown
    <3>14. install'.step = "number" => install'.number > 0
      BY <3>4, <3>6
    <3> QED BY <1>0, <3>1, <3>6, <3>7, <3>11, <3>12, <3>13, <3>14, InstallReads
  <2> QED BY <1>1, <2>1, <2>2
<1>8. CASE GetNumbered
  <2>1. PICK a \in Sought : IF a.errors = {} THEN \E row \in a.rows : install' = Answered(row)
                            ELSE install' = [NoInstall EXCEPT !.step = "failed"]
    BY <1>8 DEF GetNumbered, Fetch
  <2>2. CASE a.errors = {}
    <3>1. /\ install.step = "number"
          /\ a \in AskRevisionByNameAndSequence(install.snap, install.number)
      BY <1>8 DEF GetNumbered, Fetch, Sought
    <3>2. PICK row \in a.rows : install' = Answered(row)
      BY <2>1, <2>2
    <3>3. row \in RevisionsOf(install.snap)
      BY <2>2, <3>1, <3>2, AskedNumberedRevision
    <3>4. KnowsOwner
      BY <3>1 DEF KnowsOwner
    <3> QED BY <1>0, <3>1, <3>2, <3>3, <3>4, RevisionIsAnswered
  <2> QED BY <1>1, <2>1, <2>2
<1>9. CASE DownloadSnap
  <2>1. PICK a \in Sought : IF a.errors = {} THEN \E row \in a.rows : install' = WithBytes(row)
                            ELSE install' = [NoInstall EXCEPT !.step = "failed"]
    BY <1>9 DEF DownloadSnap, Fetch
  <2>2. install.step = "download"
    BY <1>9 DEF DownloadSnap, Fetch
  <2>3. CASE install' = [install EXCEPT !.step = "revision"]
    <3>1. /\ install' \in Install /\ install'.step = "revision" /\ install'.snap = install.snap
          /\ install'.owner = install.owner /\ install'.publisher = install.publisher
          /\ install'.answer = install.answer /\ install'.digest = install.digest
      BY <1>0, <2>3 DEF Install
    <3>2. OwnerIsKnown /\ PublisherIsKnown /\ AnswerIsKnown
      BY <2>2 DEF InstallOK, KnowsOwner, KnowsPublisher, KnowsAnswer, Answering
    <3>3. install'.step \notin Trusting
      BY <3>1 DEF Trusting
    <3> QED BY <1>0, <2>2, <3>1, <3>2, <3>3, InstallReads
        DEF OwnerIsKnown, PublisherIsKnown, AnswerIsKnown
  <2>4. CASE install' = [install EXCEPT !.step = "failed"]
    <3>1. install' \in Install /\ install'.step = "failed"
      BY <1>0, <2>4 DEF Install
    <3> QED BY <3>1, InstallEnds
  <2> QED BY <1>1, <2>1, <2>3, <2>4 DEF WithBytes
<1>10. CASE FetchRevision
  <2>1. PICK a \in Sought :
           IF a.errors = {}
           THEN \E d \in a.rows : install' = [install EXCEPT !.step = "declaration", !.doc = d]
           ELSE install' = [NoInstall EXCEPT !.step = "failed"]
    BY <1>10 DEF FetchRevision, Fetch
  <2>2. CASE a.errors = {}
    <3>1. install.step = "revision" /\ a \in AskSnapRevisionAssertion(install.digest)
      BY <1>10 DEF FetchRevision, Fetch, Sought
    <3>2. PICK d \in a.rows : install' = [install EXCEPT !.step = "declaration", !.doc = d]
      BY <2>1, <2>2
    <3>3. d \in revisionDocs /\ d.digest = install.digest
      BY <2>2, <3>1, <3>2, AskedRevisionDoc
    <3>4. d \in revisionDocs \cap RevisionDoc
      BY <1>0, <3>3 DEF TablesTypeOK
    <3>5. install.step \in Answering /\ "declaration" \in Trusting
      BY <3>1 DEF Answering, Trusting
    <3> QED BY <1>0, <3>2, <3>3, <3>4, <3>5, AssertionIsFetched
  <2> QED BY <1>1, <2>1, <2>2
<1>11. CASE FetchDeclaration \/ FetchAccount \/ FetchRootKey \/ FetchRootAccount
  <2>1. install.step \in Trusting
    BY <1>11 DEF FetchDeclaration, FetchAccount, FetchRootKey, FetchRootAccount, Fetch, Trusting
  <2>2. \/ install' = [NoInstall EXCEPT !.step = "failed"]
        \/ \E step \in Trusting : install' = [install EXCEPT !.step = step]
    BY <1>11 DEF FetchDeclaration, FetchAccount, FetchRootKey, FetchRootAccount, Fetch, To,
       Trusting
  <2>3. ASSUME NEW step \in Trusting, install' = [install EXCEPT !.step = step]
        PROVE  InstallOK'
    <3>1. DocIsKnown
      BY <2>1 DEF InstallOK
    <3>2. /\ install.doc \in revisionDocs \cap RevisionDoc
          /\ install.doc.digest = install.digest
      BY <1>0, <3>1 DEF DocIsKnown, TablesTypeOK
    <3>3. install' = [install EXCEPT !.step = step, !.doc = install.doc]
      BY <1>0, <2>3 DEF Install
    <3>4. install.step \in Answering
      BY <2>1 DEF Answering
    <3> QED BY <1>0, <3>2, <3>3, <3>4, AssertionIsFetched
  <2> QED BY <1>1, <2>2, <2>3
<1> QED
  BY <1>2, <1>3, <1>4, <1>5, <1>6, <1>7, <1>8, <1>9, <1>10, <1>11 DEF InstallSnap, AnswerRefresh

LEMMA TrustedIsTrue == ASSUME StorefrontInv, InstallOK PROVE InstallIsTrue
<1> DEFINE d == install.doc
<1> SUFFICES ASSUME install.step = "trusted"
             PROVE  /\ d.digest = install.digest
                    /\ d.snap \in DOMAIN entries /\ entries[d.snap] = d.developer
                    /\ d.revision \in DOMAIN revisions[d.snap]
                    /\ Digest[revisions[d.snap][d.revision]] = d.digest
                    /\ d.snap = install.snap =>
                          /\ d.revision = install.answer /\ d.developer = install.owner
                          /\ \A i \in About("account", d.developer) :
                                documents["account"][i].body = install.publisher
  BY DEF InstallIsTrue
<1>1. OwnerIsKnown /\ PublisherIsKnown /\ AnswerIsKnown /\ DocIsKnown /\ install.snap \in Snaps
  BY DEF InstallOK, KnowsOwner, KnowsPublisher, KnowsAnswer, Answering, Trusting, Install
<1>2. Describes(d) /\ d.digest = install.digest /\ RevisionsOK
  BY <1>1 DEF DocIsKnown, StorefrontInv, StoreInv
<1>3. ASSUME d.snap = install.snap
      PROVE  /\ d.revision = install.answer /\ d.developer = install.owner
             /\ \A i \in About("account", d.developer) :
                   documents["account"][i].body = install.publisher
  <2>1. d.revision = install.answer
    BY <1>1, <1>2, <1>3 DEF Describes, AnswerIsKnown, RevisionsOK
  <2>2. d.developer = install.owner
    BY <1>1, <1>2, <1>3 DEF Describes, OwnerIsKnown
  <2> QED BY <1>1, <2>1, <2>2 DEF PublisherIsKnown
<1> QED BY <1>2, <1>3 DEF Describes

LEMMA AllIsFound == ASSUME StorefrontInv, InstallOK PROVE InstallFindsAll
<1> SUFFICES ASSUME testMode, install.step \notin {"idle", "trusted", "failed"},
                    Asked = "serving",
                    NEW k \in DOMAIN TestSnaps, install.snap = TestSnaps[k].snap,
                    install.number <= Len(revisions[install.snap]),
                    install.step = "publisher" => install.owner \in DOMAIN accounts
             PROVE  \E a \in Sought : a.errors = {}
  BY DEF InstallFindsAll
<1>1. /\ install.snap \in Snaps /\ gateway = "serving" /\ LoadedOK /\ TablesTypeOK
      /\ \A d \in revisionDocs : Describes(d) /\ d.snap \in Snaps
      /\ install.number \in 0..MaxNumber
  BY DEF InstallOK, Install, StorefrontInv, StoreInv, Describes, TablesTypeOK
<1>2. /\ install.snap \in DOMAIN entries /\ revisions[install.snap] # << >>
      /\ \A s \in Snaps : Sound(s)
  <2>1. k \in 1..Len(TestSnaps)
    BY StorefrontAssumption
  <2> QED BY <1>1, <2>1 DEF LoadedOK, Stored
<1>3. /\ Len(revisions[install.snap]) \in DOMAIN revisions[install.snap]
      /\ \A n \in Nat : n > 0 /\ n <= Len(revisions[install.snap]) =>
            n \in DOMAIN revisions[install.snap]
  <2>1. /\ Len(revisions[install.snap]) \in Nat
        /\ DOMAIN revisions[install.snap] = 1..Len(revisions[install.snap])
        /\ Len(revisions[install.snap]) # 0
    BY <1>1, <1>2, RevisionsAre
  <2> QED BY <2>1
<1>4. \A kind \in NumberedKinds : \A s \in SubjectsOf(kind) : About(kind, s) # {}
  BY DEF SubjectsOf, About
<1>5. CASE install.step \in {"by id", "by name"}
  <2>1. store = "serving"
    BY <1>5 DEF Asked
  <2>2. /\ \E a \in AskEntryById(install.snap) : a.errors = {}
        /\ \E a \in AskEntries({install.snap}) : a.errors = {}
    BY <1>2, <2>1, EntryCanBeFound
  <2> QED BY <1>5, <2>2 DEF Sought
<1>6. CASE install.step = "release"
  <2>1. store = "serving"
    BY <1>6 DEF Asked
  <2>2. \E a \in AskLatestRevisionByTrackAndChannel(install.snap) : a.errors = {}
    BY <1>3, <2>1, LatestCanBeFound
  <2> QED BY <1>6, <2>2 DEF Sought
<1>7. CASE install.step = "publisher"
  <2>1. account = "serving"
    BY <1>7 DEF Asked
  <2>2. \E a \in AskAccountByID(install.owner) : a.errors = {}
    BY <1>7, <2>1, AccountCanBeFound
  <2> QED BY <1>7, <2>2 DEF Sought
<1>8. CASE install.step = "number"
  <2>1. store = "serving"
    BY <1>8 DEF Asked
  <2>2. install.number > 0
    BY <1>8 DEF InstallOK
  <2>3. install.number \in Nat
    BY <1>1, ReadersAssumption
  <2>4. install.number \in DOMAIN revisions[install.snap]
    BY <1>3, <2>2, <2>3
  <2>5. \E a \in AskRevisionByNameAndSequence(install.snap, install.number) : a.errors = {}
    BY <1>2, <2>1, <2>4, RevisionCanBeFound
  <2> QED BY <1>8, <2>5 DEF Sought
<1>9. CASE install.step = "download"
  <2>1. store = "serving"
    BY <1>9 DEF Asked
  <2>2. install.answer \in DOMAIN revisions[install.snap]
    BY <1>9 DEF InstallOK, KnowsAnswer, Answering, AnswerIsKnown
  <2>3. \E a \in SnapDownloadStream(install.snap, install.answer) : a.errors = {}
    BY <1>2, <2>1, <2>2, RevisionCanBeFound
  <2> QED BY <1>9, <2>3 DEF Sought
<1>10. CASE install.step = "revision"
  <2>1. assertion = "serving"
    BY <1>10 DEF Asked
  <2>2. AnswerIsKnown
    BY <1>10 DEF InstallOK, KnowsAnswer, Answering
  <2>3. PICK d \in revisionDocs : d.digest = install.digest
    BY <1>1, <1>2, <2>2 DEF Sound, AnswerIsKnown
  <2>4. \E a \in AskSnapRevisionAssertion(install.digest) : a.errors = {}
    BY <2>1, <2>3, AssertionsCanBeFound
  <2> QED BY <1>10, <2>4 DEF Sought
<1>11. CASE install.step \in {"declaration", "account"}
  <2>1. assertion = "serving"
    BY <1>11 DEF Asked
  <2>2. DocIsKnown
    BY <1>11 DEF InstallOK, Trusting
  <2>3. /\ install.doc.snap \in Snaps /\ Describes(install.doc)
    BY <1>1, <2>2 DEF DocIsKnown
  <2>4. revisions[install.doc.snap] # << >>
    BY <2>3 DEF Describes
  <2>5. /\ install.doc.snap \in SubjectsOf("snap-declaration")
        /\ install.doc.developer \in SubjectsOf("account")
    BY <1>2, <2>3, <2>4 DEF Sound, Describes
  <2>6. /\ About("snap-declaration", install.doc.snap) # {}
        /\ About("account", install.doc.developer) # {}
    BY <1>4, <2>5 DEF NumberedKinds
  <2>7. /\ \E a \in AskSnapDeclarationAssertion(install.doc.snap) : a.errors = {}
        /\ \E a \in AskAccountAssertion(install.doc.developer) : a.errors = {}
    BY <2>1, <2>6, AssertionsCanBeFound
  <2> QED BY <1>11, <2>7 DEF Sought
<1>12. CASE install.step \in {"root key", "root account"}
  <2>1. assertion = "serving"
    BY <1>12 DEF Asked
  <2>2. RootKeys # {} /\ About("account", RootAccount) # {}
    BY <2>1 DEF StorefrontInv, DeploymentInv, StartOK
  <2>3. /\ \E a \in AskAccountKeyAssertion(RootKey) : a.errors = {}
        /\ \E a \in AskAccountAssertion(RootAccount) : a.errors = {}
    BY <2>1, <2>2, AssertionsCanBeFound
  <2> QED BY <1>12, <2>3 DEF Sought
<1> QED
  BY <1>5, <1>6, <1>7, <1>8, <1>9, <1>10, <1>11, <1>12 DEF InstallOK, Install

-----------------------------------------------------------------------------
(* The theorems. *)

ReadersInv == StorefrontInv /\ PageOK /\ InstallOK

LEMMA ReadersInitially == ReadersInit => ReadersInv
<1> SUFFICES ASSUME ReadersInit PROVE ReadersInv
  OBVIOUS
<1>1. StorefrontInv
  BY StorefrontInitially DEF ReadersInit
<1>2. page \in Page /\ page.step = "idle"
  BY NoPageIsPage DEF ReadersInit
<1>3. install \in Install /\ install.step = "idle"
  BY NoInstallIsInstall DEF ReadersInit
<1>4. PageOK
  BY <1>2 DEF PageOK, WithRow, WithFiles
<1>5. InstallOK
  BY <1>3 DEF InstallOK, KnowsOwner, KnowsPublisher, KnowsAnswer, Answering, Trusting
<1> QED BY <1>1, <1>4, <1>5 DEF ReadersInv

\* Those who only read take no step of a deployment.
LEMMA ReadersOnlyRead ==
  ASSUME ReadersNext \/ UNCHANGED readersVars
  PROVE  StorefrontNext \/ UNCHANGED storefrontVars
BY DEF readersVars, ReadersNext, StepOfStorefront, MakePage, GetAccount, ReadAccount, ReadKeys,
   ReadSnaps, ReadRevisions, ReadPublishers, Read, LeavePage, InstallSnap, BeginInstall,
   AnswerRefresh, GetEntryOfRefresh, GetEntryByItsName, GetRelease, GetPublisher, GetNumbered,
   DownloadSnap, FetchRevision, FetchDeclaration, FetchAccount, FetchRootKey, FetchRootAccount,
   Fetch, EndInstall

LEMMA ReadersStep ==
  ASSUME ReadersInv, ReadersNext \/ UNCHANGED readersVars
  PROVE  ReadersInv'
<1>1. /\ StorefrontInv /\ PageOK /\ InstallOK /\ DeploymentInv /\ LoaderOK /\ SnapLoaderTypeOK
      /\ AInv /\ TablesTypeOK
  BY DEF ReadersInv, StorefrontInv, DeploymentInv, StoreInv
<1>2. StorefrontInv' /\ Keeps
  BY <1>1, ReadersOnlyRead, StorefrontStep
<1>3. CASE StepOfStorefront
  <2>1. CASE gateway' # "serving"
    <3>1. page' = NoPage /\ install' = NoInstall
      BY <1>3, <2>1 DEF StepOfStorefront
    <3>2. page' = [NoPage EXCEPT !.step = "idle", !.email = NoPage.email] /\ NoPage.email \in Emails
      BY <3>1, NoPageIsPage DEF Page
    <3>3. PageOK'
      BY <3>2, PageEnds
    <3>4. InstallOK'
      BY <3>1, NoInstallIsInstall, InstallEnds
    <3> QED BY <1>2, <3>3, <3>4 DEF ReadersInv
  <2>2. CASE gateway' = "serving"
    <3>1. page' = page /\ install' = install /\ StorefrontNext
      BY <1>3, <2>2 DEF StepOfStorefront
    <3>2. DeploymentNext \/ UNCHANGED deploymentVars
      BY <1>1, <3>1, StorefrontDeploys
    <3>3. gateway = "serving" => NoMoreSaid
      BY <1>1, <2>2, <3>2, ServingSaysNoMore
    <3>4. PageOK' /\ InstallOK'
      BY <1>1, <1>2, <2>2, <3>1, <3>3, PageStays, InstallStays
    <3> QED BY <1>2, <3>4 DEF ReadersInv
  <2> QED BY <2>1, <2>2
<1>4. ASSUME UNCHANGED storefrontVars, install' = install PROVE InstallOK'
  <2>1. CASE install.step \in {"idle", "failed"}
    BY <1>1, <1>4, <2>1, InstallEnds DEF InstallOK
  <2>2. CASE install.step \notin {"idle", "failed"}
    <3>1. gateway' = "serving" /\ NoMoreSaid
      BY <1>1, <1>4, <2>2
      DEF InstallOK, storefrontVars, deploymentVars, gatewayVars, assertionVars, NoMoreSaid
    <3> QED BY <1>1, <1>2, <1>4, <3>1, InstallStays
  <2> QED BY <2>1, <2>2
<1>5. CASE MakePage
  <2>1. UNCHANGED storefrontVars /\ install' = install
    BY <1>5 DEF MakePage, GetAccount, ReadAccount, ReadKeys, ReadSnaps, ReadRevisions,
       ReadPublishers, Read, LeavePage
  <2>2. PageOK'
    BY <1>1, <1>5, PageMade
  <2> QED BY <1>2, <1>4, <2>1, <2>2 DEF ReadersInv
<1>6. CASE InstallSnap
  <2>1. page' = page
    BY <1>6 DEF InstallSnap, BeginInstall, AnswerRefresh, GetEntryOfRefresh, GetEntryByItsName,
       GetRelease, GetPublisher, GetNumbered, DownloadSnap, FetchRevision, FetchDeclaration,
       FetchAccount, FetchRootKey, FetchRootAccount, Fetch, EndInstall
  <2>2. InstallOK'
    BY <1>1, <1>6, InstallMade
  <2> QED BY <1>1, <1>2, <2>1, <2>2, PageStays DEF ReadersInv
<1>7. CASE UNCHANGED readersVars
  <2>1. UNCHANGED storefrontVars /\ page' = page /\ install' = install
    BY <1>7 DEF readersVars
  <2> QED BY <1>1, <1>2, <1>4, <2>1, PageStays DEF ReadersInv
<1> QED BY <1>3, <1>5, <1>6, <1>7 DEF ReadersNext

LEMMA ReadersInvariant == ReadersSpec => []ReadersInv
<1>1. ReadersInv /\ [ReadersNext]_readersVars => ReadersInv'
  BY ReadersStep
<1> QED BY <1>1, ReadersInitially, PTL DEF ReadersSpec

\* A deployment with its store, loader, publishers and readers is a deployment:
\* none of their steps writes what the account and assertion services or the
\* gateway keep, but for the declarations the loader has signed, which are like
\* those of any push.  So all theorems about DeploymentSpec hold here.
THEOREM ReadersDeploy == ReadersSpec => DeploymentSpec
<1>1. ReadersInit => DeploymentInit
  BY DEF ReadersInit, StorefrontInit
<1>2. ReadersInv /\ [ReadersNext]_readersVars => [DeploymentNext]_deploymentVars
  <2> SUFFICES ASSUME ReadersInv, ReadersNext \/ UNCHANGED readersVars
               PROVE  DeploymentNext \/ UNCHANGED deploymentVars
    OBVIOUS
  <2>1. LoaderOK /\ SnapLoaderTypeOK
    BY DEF ReadersInv, StorefrontInv, DeploymentInv
  <2>2. CASE StorefrontNext
    BY <2>1, <2>2, StorefrontDeploys
  <2>3. CASE UNCHANGED storefrontVars
    BY <2>3 DEF storefrontVars
  <2> QED BY <2>2, <2>3, ReadersOnlyRead
<1> QED BY <1>1, <1>2, ReadersInvariant, PTL DEF ReadersSpec, DeploymentSpec

\* The type invariant of the store's tables, the loader's second half, the page
\* and the installation: a number that is answered is one that the store can have.
THEOREM ReadersTypeCorrect == ReadersSpec => []ReadersTypeOK
<1>1. ReadersInv => ReadersTypeOK
  <2> SUFFICES ASSUME ReadersInv PROVE ReadersTypeOK
    OBVIOUS
  <2>1. DeploymentTypeOK
    BY TypesFollow DEF ReadersInv, StorefrontInv
  <2>2. StorefrontTypeOK
    BY <2>1 DEF ReadersInv, StorefrontInv, StoreInv, TablesTypeOK, SnapLoaderTypeOK,
       StorefrontTypeOK
  <2> QED BY <2>2 DEF ReadersInv, PageOK, InstallOK, ReadersTypeOK
<1> QED BY <1>1, ReadersInvariant, PTL

\* The account page is read in five calls of two services while clients add,
\* patch and delete accounts; what it shows is true of one account that exists.
THEOREM PageIsOfOneAccount == ReadersSpec => []PageIsTrue
<1>1. ReadersInv => PageIsTrue
  BY ShownIsTrue DEF ReadersInv, StorefrontInv, DeploymentInv
<1> QED BY <1>1, ReadersInvariant, PTL

\* What the loader has put in the store can be installed and trusted, whatever
\* stopped while it was loading, for as long as the publisher has an account.
THEOREM LoadedCanBeInstalled == ReadersSpec => []InstallFindsAll
<1>1. ReadersInv => InstallFindsAll
  BY AllIsFound DEF ReadersInv
<1> QED BY <1>1, ReadersInvariant, PTL

\* What snapd trusts in the end is what the store has, although the gateway has
\* answered it in several calls and the assertions are another database.
THEOREM TrustedAgreesWithStore == ReadersSpec => []InstallIsTrue
<1>1. ReadersInv => InstallIsTrue
  BY TrustedIsTrue DEF ReadersInv
<1> QED BY <1>1, ReadersInvariant, PTL

-----------------------------------------------------------------------------
(* What clients and readers may count on from one call to the next. *)

\* A step of a deployment takes nothing back: ids are not given again, and an
\* account keeps its display name and email while it exists; keys, names, the
\* numbers of revisions and what was signed stay.
THEOREM NothingIsTakenBack == ReadersSpec => [][Keeps]_readersVars
<1>1. ReadersInv /\ [ReadersNext]_readersVars => [Keeps]_readersVars
  BY ReadersOnlyRead, StorefrontStep DEF ReadersInv
<1> QED BY <1>1, ReadersInvariant, PTL DEF ReadersSpec

\* The statement that adds a revision publishes; the others leave the archive.
LEMMA AddedIsPublished ==
  ASSUME TablesTypeOK, FewRevisions, FewRevisions', TablesTypeOK',
         NEW s \in Snaps, NEW f \in Files, AddRevision(s, f)
  PROVE  StoreArchive!Next
<1> DEFINE n == Len(revisions[s]) + 1
<1>1. /\ Len(revisions[s]) \in Nat /\ DOMAIN revisions[s] = 1..Len(revisions[s])
      /\ Len(revisions'[s]) <= Len(TestSnaps) /\ Len(TestSnaps) \in Nat
  BY RevisionsAre, TestSnapsAre DEF FewRevisions
<1>2. /\ \A t \in Snaps : t # s => revisions'[t] = revisions[t]
      /\ Len(revisions'[s]) = n
      /\ DOMAIN revisions'[s] = DOMAIN revisions[s] \cup {n}
      /\ \A i \in DOMAIN revisions[s] : revisions'[s][i] = revisions[s][i]
      /\ revisions'[s][n] = f
  BY RevisionAppended
<1>3. n \in 1..Len(TestSnaps) /\ Digest[f] \in Digests
  BY <1>1, <1>2, StorefrontAssumption
<1>4. \A k \in ServedNumbers : k[1] = s => k[2] < n
  <2>1. ASSUME NEW k \in ServedNumbers, k[1] = s PROVE k[2] < n
    <3>1. k[2] \in 1..Len(revisions[s])
      BY <1>1, <2>1 DEF ServedNumbers
    <3> QED BY <1>1, <3>1
  <2> QED BY <2>1
<1> HIDE DEF n
<1>5. ServedNumbers' = ServedNumbers \cup {<<s, n>>}
  <2>1. ServedNumbers' = {k \in Snaps \X (1..Len(TestSnaps)) : k[2] \in DOMAIN revisions'[k[1]]}
    BY DEF ServedNumbers
  <2>2. ASSUME NEW k \in Snaps \X (1..Len(TestSnaps))
        PROVE  k[2] \in DOMAIN revisions'[k[1]] <=>
                  k[2] \in DOMAIN revisions[k[1]] \/ k = <<s, n>>
    <3>1. k = <<k[1], k[2]>> /\ k[1] \in Snaps
      OBVIOUS
    <3>2. CASE k[1] = s
      BY <1>2, <3>1, <3>2
    <3>3. CASE k[1] # s
      BY <1>2, <3>1, <3>3
    <3> QED BY <3>2, <3>3
  <2>3. <<s, n>> \in Snaps \X (1..Len(TestSnaps))
    BY <1>3
  <2> QED BY <2>1, <2>2, <2>3 DEF ServedNumbers
<1>6. ASSUME NEW k \in ServedNumbers'
      PROVE  ServedDigests'[k] = IF k = <<s, n>> THEN Digest[f] ELSE ServedDigests[k]
  <2>1. ServedDigests'[k] = Digest[revisions'[k[1]][k[2]]]
    BY <1>6 DEF ServedDigests
  <2>2. CASE k = <<s, n>>
    BY <1>2, <2>1, <2>2
  <2>3. CASE k # <<s, n>>
    <3>1. k \in ServedNumbers /\ k[1] \in Snaps /\ k[2] \in DOMAIN revisions[k[1]]
      BY <1>5, <2>3, <1>6 DEF ServedNumbers
    <3>2. revisions'[k[1]][k[2]] = revisions[k[1]][k[2]]
      BY <1>2, <3>1
    <3> QED BY <2>1, <2>3, <3>1, <3>2 DEF ServedDigests
  <2> QED BY <2>2, <2>3
<1>7. DOMAIN ServedDigests = ServedNumbers
  BY DEF ServedDigests
<1>8. ServedDigests' = [k \in ServedNumbers' |-> ServedDigests'[k]]
  BY DEF ServedDigests
<1>9. ServedDigests' = [k \in DOMAIN ServedDigests \cup {<<s, n>>} |->
                           IF k = <<s, n>> THEN Digest[f] ELSE ServedDigests[k]]
  BY <1>5, <1>6, <1>7, <1>8
<1>10. StoreArchive!Publish(s, n, Digest[f])
  BY <1>4, <1>7, <1>9 DEF StoreArchive!Publish
<1> QED BY <1>3, <1>10 DEF StoreArchive!Next

\* What devices download is in an archive that is never overwritten and grows
\* upwards, whatever stops while the loader fills it.
THEOREM LoaderFillsAnArchive == ReadersSpec => FillsAnArchive
<1>1. ReadersInit => StoreArchive!Init
  <2> SUFFICES ASSUME ReadersInit PROVE ServedDigests = << >>
    BY DEF StoreArchive!Init
  <2>1. ServedNumbers = {}
    BY DEF ReadersInit, StorefrontInit, ServedNumbers
  <2> QED BY <2>1 DEF ServedDigests
<1>2. ReadersInv /\ ReadersInv' /\ [ReadersNext]_readersVars
      => [StoreArchive!Next]_ServedDigests
  <2> SUFFICES ASSUME ReadersInv, ReadersInv', [ReadersNext]_readersVars
               PROVE  StoreArchive!Next \/ ServedDigests' = ServedDigests
    OBVIOUS
  <2>1. /\ LoaderOK /\ StoreInv /\ SnapLoaderTypeOK /\ SnapLoaderOK
        /\ TablesTypeOK /\ TablesTypeOK' /\ FewRevisions /\ FewRevisions'
    BY DEF ReadersInv, StorefrontInv, DeploymentInv, StoreInv
  <2>2. StoreStep
    <3>1. CASE StorefrontNext
      BY <2>1, <3>1, StorefrontStores
    <3>2. CASE UNCHANGED storefrontVars
      BY <3>2 DEF storefrontVars, StoreStep
    <3> QED BY <3>1, <3>2, ReadersOnlyRead
  <2>3. CASE \E s \in Snaps, f \in Files : AddRevision(s, f)
    BY <2>1, <2>3, AddedIsPublished
  <2>4. CASE ~\E s \in Snaps, f \in Files : AddRevision(s, f)
    <3>1. UNCHANGED revisions
      BY <2>2, <2>4 DEF StoreStep, RegisterSnapName, UnscannedUpload, AddUpload,
         UpdateUploadStatus, AddSnapRevisionAssertion, storeVars
    <3> QED BY <3>1 DEF ServedDigests, ServedNumbers
  <2> QED BY <2>3, <2>4
<1> QED
  BY <1>1, <1>2, ReadersInvariant, PTL DEF ReadersSpec, FillsAnArchive, StoreArchive!Spec
=============================================================================
