-------------------------- MODULE DeploymentProofs --------------------------
(***************************************************************************)
(* Proofs about Deployment, for any number of accounts, keys, clients,     *)
(* pushes, starts and stops: the assertions are numbered in order, agree   *)
(* with the tables of accounts and keys, and lead to the root account.     *)
(***************************************************************************)
EXTENDS Deployment, SequenceTheorems, TLAPS

-----------------------------------------------------------------------------
(* The tables of the account service. *)

LEMMA NoCallIsCall == NoCall \in Call
<1>1. PICK i \in AccountIds, d \in DisplayNames, u \in Usernames, e \in Emails,
           k \in Keys : TRUE
  BY AccountsAssumption
<1>2. [id |-> i, row |-> [display |-> d, username |-> u, email |-> e], key |-> k] \in Call
  BY DEF Call, Row
<1> QED BY <1>2 DEF NoCall

\* Every call in hand forgotten, as when the service stops.
ForgetCalls ==
    /\ callPc' = [c \in Callers |-> "idle"] /\ call' = [c \in Callers |-> NoCall]
    /\ UNCHANGED <<accounts, issued, keys>>

\* The statements that a step of Deployment may execute.
AccountStep ==
    \/ \E id \in AccountIds, row \in Row : AddAccount(id, row)
    \/ \E id \in AccountIds : DeleteAccount(id)
    \/ \E c \in Callers :
          \/ \E email \in Emails, key \in Keys : FindOwner(c, email, key)
          \/ \E email \in Emails, username \in Usernames : ReadForPatch(c, email, username)
          \/ InsertKey(c) \/ WritePatch(c) \/ AbandonCall(c)
    \/ ForgetCalls
    \/ UNCHANGED accountVars

\* A patch that is under way changes neither display name nor email.
PatchKeeps ==
    \A c \in Callers : callPc[c] = "write account" /\ call[c].id \in DOMAIN accounts =>
        /\ call[c].row.display = accounts[call[c].id].display
        /\ call[c].row.email = accounts[call[c].id].email

\* A call in hand is about an id that was given out.
CallsKnow == \A c \in Callers : callPc[c] # "idle" => call[c].id \in issued

AInv == AccountsTypeOK /\ TablesOK /\ PatchKeeps /\ CallsKnow

\* What a statement leaves as it was: ids are not given out again, no account
\* changes its display name or email, and no key its owner.
AccountsKeep ==
    /\ issued \subseteq issued'
    /\ \A i \in issued : i \in DOMAIN accounts' =>
          /\ i \in DOMAIN accounts
          /\ accounts'[i].display = accounts[i].display
          /\ accounts'[i].email = accounts[i].email
    /\ \A k \in DOMAIN keys : k \in DOMAIN keys' /\ keys'[k] = keys[k]

LEMMA AccountsTypeStep ==
  ASSUME AccountsTypeOK, AccountStep
  PROVE  AccountsTypeOK'
<1> USE NoCallIsCall DEF AccountsTypeOK
<1>1. ASSUME NEW id \in AccountIds, NEW row \in Row, AddAccount(id, row)
      PROVE  AccountsTypeOK'
  BY <1>1 DEF AddAccount
<1>2. ASSUME NEW id \in AccountIds, DeleteAccount(id) PROVE AccountsTypeOK'
  BY <1>2 DEF DeleteAccount
<1>3. ASSUME NEW c \in Callers, NEW email \in Emails, NEW key \in Keys,
             FindOwner(c, email, key)
      PROVE  AccountsTypeOK'
  <2>1. PICK id \in WithEmail(email) :
          call' = [call EXCEPT ![c] = [NoCall EXCEPT !.id = id, !.key = key]]
    BY <1>3 DEF FindOwner
  <2>2. [NoCall EXCEPT !.id = id, !.key = key] \in Call
    BY DEF WithEmail, Call
  <2>3. callPc' \in [Callers -> {"idle", "insert key", "write account"}]
    BY <1>3 DEF FindOwner
  <2> QED BY <1>3, <2>1, <2>2, <2>3 DEF FindOwner
<1>4. ASSUME NEW c \in Callers, NEW email \in Emails, NEW username \in Usernames,
             ReadForPatch(c, email, username)
      PROVE  AccountsTypeOK'
  <2>1. PICK id \in WithEmail(email) :
          call' = [call EXCEPT ![c] = [NoCall EXCEPT !.id = id,
                      !.row = [accounts[id] EXCEPT !.username = username]]]
    BY <1>4 DEF ReadForPatch
  <2>2. id \in AccountIds /\ accounts[id] \in Row
    BY DEF WithEmail
  <2>3. [accounts[id] EXCEPT !.username = username] \in Row
    BY <2>2 DEF Row
  <2>4. [NoCall EXCEPT !.id = id,
            !.row = [accounts[id] EXCEPT !.username = username]] \in Call
    BY <2>2, <2>3 DEF Call
  <2> QED BY <1>4, <2>1, <2>4 DEF ReadForPatch
<1>5. ASSUME NEW c \in Callers, InsertKey(c) PROVE AccountsTypeOK'
  <2>1. call[c].key \in Keys /\ call[c].id \in AccountIds
    BY DEF Call
  <2>2. /\ UNCHANGED <<accounts, issued>>
        /\ DOMAIN keys' = DOMAIN keys \cup {call[c].key}
        /\ \A k \in DOMAIN keys' :
              keys'[k] = IF k = call[c].key THEN call[c].id ELSE keys[k]
    BY <1>5 DEF InsertKey
  <2>3. /\ callPc' \in [Callers -> {"idle", "insert key", "write account"}]
        /\ call' \in [Callers -> Call]
    BY <1>5 DEF InsertKey, EndCall
  <2>4. DOMAIN keys' \subseteq Keys /\ \A k \in DOMAIN keys' : keys'[k] \in AccountIds
    BY <2>1, <2>2
  <2> QED BY <2>2, <2>3, <2>4
<1>6. ASSUME NEW c \in Callers, WritePatch(c) PROVE AccountsTypeOK'
  <2>1. call[c].row \in Row /\ call[c].id \in DOMAIN accounts
    BY <1>6 DEF WritePatch, Call
  <2>2. accounts' = [accounts EXCEPT ![call[c].id] = call[c].row] /\ UNCHANGED <<issued, keys>>
    BY <1>6 DEF WritePatch
  <2>3. /\ DOMAIN accounts' = DOMAIN accounts
        /\ \A i \in DOMAIN accounts : accounts'[i] = accounts[i] \/ accounts'[i] = call[c].row
        /\ accounts' = [i \in DOMAIN accounts' |-> accounts'[i]]
    BY <2>2
  <2>4. /\ callPc' \in [Callers -> {"idle", "insert key", "write account"}]
        /\ call' \in [Callers -> Call]
    BY <1>6 DEF WritePatch, EndCall
  <2> QED BY <2>1, <2>2, <2>3, <2>4
<1>7. ASSUME NEW c \in Callers, AbandonCall(c) PROVE AccountsTypeOK'
  BY <1>7 DEF AbandonCall, EndCall
<1>8. CASE ForgetCalls
  BY <1>8 DEF ForgetCalls
<1>9. CASE UNCHANGED accountVars
  BY <1>9 DEF accountVars
<1> QED BY <1>1, <1>2, <1>3, <1>4, <1>5, <1>6, <1>7, <1>8, <1>9 DEF AccountStep

LEMMA AccountsKeepStep ==
  ASSUME AInv, AccountStep
  PROVE  AccountsKeep
<1> USE DEF AInv, AccountsTypeOK, AccountsKeep
<1>1. ASSUME NEW id \in AccountIds, NEW row \in Row, AddAccount(id, row)
      PROVE  AccountsKeep
  BY <1>1 DEF AddAccount
<1>2. ASSUME NEW id \in AccountIds, DeleteAccount(id) PROVE AccountsKeep
  BY <1>2 DEF DeleteAccount
<1>3. ASSUME NEW c \in Callers, InsertKey(c) PROVE AccountsKeep
  BY <1>3 DEF InsertKey, KeyAccepted
<1>4. ASSUME NEW c \in Callers, WritePatch(c) PROVE AccountsKeep
  BY <1>4 DEF WritePatch, PatchKeeps
<1>5. CASE UNCHANGED <<accounts, issued, keys>>
  BY <1>5
<1> QED
  BY <1>1, <1>2, <1>3, <1>4, <1>5
  DEF AccountStep, FindOwner, ReadForPatch, AbandonCall, ForgetCalls, accountVars

LEMMA TablesStep ==
  ASSUME AInv, AccountStep
  PROVE  TablesOK'
<1> USE DEF AInv, TablesOK, Owners
<1>1. ASSUME NEW id \in AccountIds, NEW row \in Row, AddAccount(id, row) PROVE TablesOK'
  BY <1>1 DEF AddAccount, Unique
<1>2. ASSUME NEW id \in AccountIds, DeleteAccount(id) PROVE TablesOK'
  BY <1>2 DEF DeleteAccount
<1>3. ASSUME NEW c \in Callers, InsertKey(c) PROVE TablesOK'
  <2>1. /\ call[c].id \in DOMAIN accounts /\ UNCHANGED accounts
        /\ DOMAIN keys' = DOMAIN keys \cup {call[c].key}
        /\ \A k \in DOMAIN keys' :
              keys'[k] = IF k = call[c].key THEN call[c].id ELSE keys[k]
    BY <1>3 DEF InsertKey, KeyAccepted
  <2>2. \A k \in DOMAIN keys' : keys'[k] \in DOMAIN accounts'
    BY <2>1
  <2>3. Owners' \subseteq DOMAIN accounts'
    BY <2>2
  <2> QED BY <2>1, <2>3
<1>4. ASSUME NEW c \in Callers, WritePatch(c) PROVE TablesOK'
  <2> DEFINE id == call[c].id
             row == call[c].row
  <2>1. /\ id \in DOMAIN accounts /\ UNCHANGED keys
        /\ DOMAIN accounts' = DOMAIN accounts /\ accounts'[id] = row
        /\ \A i \in DOMAIN accounts : i # id => accounts'[i] = accounts[i]
    BY <1>4 DEF WritePatch
  <2>2. \A i \in DOMAIN accounts : i # id =>
           /\ accounts[i].display # row.display
           /\ accounts[i].username # row.username
           /\ accounts[i].email # row.email
    BY <1>4 DEF WritePatch, Unique
  <2> HIDE DEF id, row
  <2> QED BY <2>1, <2>2
<1>5. CASE UNCHANGED <<accounts, issued, keys>>
  BY <1>5
<1> QED
  BY <1>1, <1>2, <1>3, <1>4, <1>5
  DEF AccountStep, FindOwner, ReadForPatch, AbandonCall, ForgetCalls, accountVars

LEMMA CallsStep ==
  ASSUME AInv, AccountStep, AccountsKeep
  PROVE  PatchKeeps' /\ CallsKnow'
<1> DEFINE Part(c) ==
      /\ callPc[c] # "idle" => call[c].id \in issued
      /\ callPc[c] = "write account" /\ call[c].id \in DOMAIN accounts =>
            /\ call[c].row.display = accounts[call[c].id].display
            /\ call[c].row.email = accounts[call[c].id].email
<1>0. AccountsTypeOK /\ \A c \in Callers : Part(c)
  BY DEF AInv, PatchKeeps, CallsKnow
<1> SUFFICES ASSUME NEW c \in Callers PROVE Part(c)'
  BY DEF PatchKeeps, CallsKnow
<1>1. CASE call'[c] = call[c] /\ callPc'[c] = callPc[c]
  BY <1>0, <1>1 DEF AccountsKeep
<1>2. CASE callPc'[c] = "idle"
  BY <1>2
<1>3. ASSUME NEW email \in Emails, NEW key \in Keys, FindOwner(c, email, key)
      PROVE  Part(c)'
  <2>1. PICK id \in WithEmail(email) : call'[c] = [NoCall EXCEPT !.id = id, !.key = key]
    BY <1>0, <1>3 DEF FindOwner, AccountsTypeOK
  <2>2. callPc'[c] = "insert key" /\ call'[c].id = id /\ id \in issued' 
    BY <1>0, <1>3, <2>1, NoCallIsCall DEF FindOwner, AccountsTypeOK, WithEmail, Call
  <2> QED BY <2>2
<1>4. ASSUME NEW email \in Emails, NEW username \in Usernames,
             ReadForPatch(c, email, username)
      PROVE  Part(c)'
  <2>1. PICK id \in WithEmail(email) :
          call'[c] = [NoCall EXCEPT !.id = id,
                      !.row = [accounts[id] EXCEPT !.username = username]]
    BY <1>0, <1>4 DEF ReadForPatch, AccountsTypeOK
  <2>2. /\ id \in DOMAIN accounts /\ id \in issued /\ accounts[id] \in Row
        /\ UNCHANGED <<accounts, issued>>
    BY <1>0, <1>4 DEF ReadForPatch, AccountsTypeOK, WithEmail
  <2>3. /\ call'[c].id = id
        /\ call'[c].row = [accounts[id] EXCEPT !.username = username]
    BY <2>1, NoCallIsCall DEF Call
  <2>4. /\ call'[c].row.display = accounts[id].display
        /\ call'[c].row.email = accounts[id].email
    BY <2>2, <2>3 DEF Row
  <2> QED BY <2>2, <2>3, <2>4
<1>5. DOMAIN callPc = Callers /\ DOMAIN call = Callers
  BY <1>0 DEF AccountsTypeOK
<1>6. ASSUME NEW b \in Callers, b # c,
             \/ \E email \in Emails, key \in Keys : FindOwner(b, email, key)
             \/ \E email \in Emails, username \in Usernames : ReadForPatch(b, email, username)
      PROVE  call'[c] = call[c] /\ callPc'[c] = callPc[c]
  BY <1>5, <1>6 DEF FindOwner, ReadForPatch
<1>7. ASSUME NEW b \in Callers, InsertKey(b) \/ WritePatch(b) \/ AbandonCall(b)
      PROVE  \/ call'[c] = call[c] /\ callPc'[c] = callPc[c]
             \/ callPc'[c] = "idle"
  BY <1>5, <1>7 DEF InsertKey, WritePatch, AbandonCall, EndCall
<1>8. CASE \/ \E id \in AccountIds, row \in Row : AddAccount(id, row)
           \/ \E id \in AccountIds : DeleteAccount(id)
           \/ UNCHANGED accountVars
  BY <1>1, <1>8 DEF AddAccount, DeleteAccount, accountVars
<1>9. CASE ForgetCalls
  BY <1>2, <1>9 DEF ForgetCalls
<1> QED BY <1>1, <1>2, <1>3, <1>4, <1>6, <1>7, <1>8, <1>9 DEF AccountStep

LEMMA AInvInitially == AccountsInit => AInv
BY NoCallIsCall DEF AccountsInit, AInv, AccountsTypeOK, TablesOK, Owners, PatchKeeps,
   CallsKnow

LEMMA AInvStep ==
  ASSUME AInv, AccountStep
  PROVE  AInv' /\ AccountsKeep
<1>1. AccountsKeep
  BY AccountsKeepStep
<1> QED BY <1>1, AccountsTypeStep, TablesStep, CallsStep DEF AInv

-----------------------------------------------------------------------------
(* The documents of the assertion service. *)

\* Kinds that only the start and the loader make.
Certified == {"account", "account-key"}

\* Who makes which documents, about what.
Allowed(w, kind, s) ==
    /\ w \in Pushing <=> kind = "snap-declaration"
    /\ w = "start" => s = RootAccount
    /\ w = "loader" => s \in AccountIds

\* May a document of this kind say this, with the tables as they are?
Says(kind, s, body) ==
    /\ kind = "account" =>
          \/ s = RootAccount /\ body = Root.display
          \/ s \in issued /\ (s \in DOMAIN accounts => accounts[s].display = body)
    /\ kind = "account-key" =>
          \/ s = RootAccount /\ body = RootKey
          \/ /\ s \in issued /\ body \in DOMAIN keys
             /\ s \in DOMAIN accounts => keys[body] = s

\* Every call in hand forgotten, as when the service stops.
ForgetWrites ==
    /\ writing' = [w \in Writers |-> "idle"] /\ draft' = [w \in Writers |-> NoDocument]
    /\ UNCHANGED <<documents, builds>>

\* The statements that a step of Deployment may execute.
DocumentStep ==
    \/ \E w \in Writers, kind \in NumberedKinds, s \in Subjects, body \in Bodies :
          Allowed(w, kind, s) /\ Says(kind, s, body) /\ LookUpLatest(w, kind, s, body)
    \/ \E w \in Writers, kind \in NumberedKinds : Insert(w, kind)
    \/ \E s \in Subjects : AddSnapBuildAssertion(s)
    \/ \E w \in Writers : AbandonWrite(w)
    \/ ForgetWrites
    \/ UNCHANGED assertionVars

\* The number of a draft follows one that is taken and, for certified kinds,
\* all that are taken.
DraftFollows(w) ==
    LET n == draft[w].revision
        kind == writing[w]
        docs == documents[kind]
    IN  /\ n >= 1
        /\ n > 1 => \E j \in DOMAIN docs :
              docs[j].subject = draft[w].subject /\ docs[j].revision + 1 = n
        /\ kind \in Certified => \A j \in DOMAIN docs :
              docs[j].subject = draft[w].subject => docs[j].revision < n

DraftOK(w) ==
    writing[w] # "idle" =>
        /\ DraftFollows(w)
        /\ Allowed(w, writing[w], draft[w].subject)
        /\ Says(writing[w], draft[w].subject, draft[w].body)

DocumentsSay ==
    \A kind \in NumberedKinds : \A i \in DOMAIN documents[kind] :
        Says(kind, documents[kind][i].subject, documents[kind][i].body)

DocInv ==
    /\ AssertionsTypeOK /\ NumberedInOrder /\ DocumentsSay
    /\ \A w \in Writers : DraftOK(w)

LEMMA NoDocumentIsDocument == NoDocument \in Document
BY AssertionsAssumption DEF NoDocument, Document

LEMMA StaysSaid ==
  ASSUME AInv, AccountsKeep, NEW kind, NEW s, NEW body, Says(kind, s, body)
  PROVE  Says(kind, s, body)'
<1>1. CASE s = RootAccount /\ body = Root.display /\ kind = "account"
  BY <1>1 DEF Says
<1>2. CASE s = RootAccount /\ body = RootKey /\ kind = "account-key"
  BY <1>2 DEF Says
<1>3. CASE /\ kind = "account" /\ s \in issued
           /\ s \in DOMAIN accounts => accounts[s].display = body
  BY <1>3 DEF Says, AccountsKeep
<1>4. CASE /\ kind = "account-key" /\ s \in issued /\ body \in DOMAIN keys
           /\ s \in DOMAIN accounts => keys[body] = s
  BY <1>4 DEF Says, AccountsKeep
<1> QED BY <1>1, <1>2, <1>3, <1>4 DEF Says

LEMMA EachIsDocument ==
  ASSUME NEW docs \in Seq(Document), NEW j \in DOMAIN docs
  PROVE  docs[j].revision \in Nat /\ docs[j] \in Document
<1>1. j \in 1..Len(docs) /\ docs \in [1..Len(docs) -> Document]
  OBVIOUS
<1>2. docs[j] \in Document
  BY <1>1
<1> QED BY <1>2 DEF Document

\* What the numbers found by a look-up are.
LEMMA NextNumbersFollow ==
  ASSUME AssertionsTypeOK, \A kind \in NumberedKinds : NoGaps(kind),
         NEW kind \in NumberedKinds, NEW s, NEW n \in NextNumbers(kind, s)
  PROVE  /\ n \in Nat /\ n >= 1
         /\ n > 1 => \E j \in DOMAIN documents[kind] :
               documents[kind][j].subject = s /\ documents[kind][j].revision + 1 = n
         /\ \A j \in DOMAIN documents[kind] :
               documents[kind][j].subject = s => documents[kind][j].revision < n
<1> DEFINE docs == documents[kind]
<1>1. docs \in Seq(Document)
  BY DEF AssertionsTypeOK
<1>2. \A j \in DOMAIN docs : docs[j].revision \in Nat
  BY <1>1, EachIsDocument
<1>3. CASE About(kind, s) = {}
  BY <1>3 DEF NextNumbers, About
<1>4. CASE About(kind, s) # {}
  <2>1. PICK i \in About(kind, s) :
          /\ \A j \in About(kind, s) : docs[j].revision <= docs[i].revision
          /\ n = docs[i].revision + 1
    BY <1>4 DEF NextNumbers
  <2>2. i \in DOMAIN docs /\ docs[i].subject = s
    BY <2>1 DEF About
  <2>3. \A j \in DOMAIN docs : docs[j].subject = s => docs[j].revision <= docs[i].revision
    BY <2>1 DEF About
  <2> HIDE DEF docs
  <2>4. n \in Nat /\ n >= 1
    BY <1>2, <2>1, <2>2
  <2>5. \A j \in DOMAIN docs : docs[j].subject = s => docs[j].revision < n
    BY <1>2, <2>1, <2>2, <2>3
  <2> QED BY <2>1, <2>2, <2>4, <2>5 DEF docs
<1> QED BY <1>3, <1>4

\* A document added to the collection of a kind.
LEMMA InsertedDocuments ==
  ASSUME AssertionsTypeOK, NEW w \in Writers, NEW kind \in NumberedKinds, Insert(w, kind)
  PROVE  /\ documents' \in [NumberedKinds -> Seq(Document)]
         /\ \A k \in NumberedKinds : k # kind => documents'[k] = documents[k]
         /\ DOMAIN documents'[kind] = DOMAIN documents[kind] \cup {Len(documents[kind]) + 1}
         /\ Len(documents[kind]) + 1 \notin DOMAIN documents[kind]
         /\ \A i \in DOMAIN documents[kind] : documents'[kind][i] = documents[kind][i]
         /\ documents'[kind][Len(documents[kind]) + 1] = draft[w]
<1> DEFINE docs == documents[kind]
<1>1. docs \in Seq(Document) /\ draft[w] \in Document
  BY DEF AssertionsTypeOK
<1>2. /\ documents'[kind] = Append(docs, draft[w])
      /\ \A k \in NumberedKinds : k # kind => documents'[k] = documents[k]
      /\ DOMAIN documents' = NumberedKinds
      /\ documents' = [documents EXCEPT ![kind] = Append(docs, draft[w])]
  BY DEF Insert, AssertionsTypeOK
<1> HIDE DEF docs
<1>3. /\ Append(docs, draft[w]) \in Seq(Document)
      /\ DOMAIN Append(docs, draft[w]) = DOMAIN docs \cup {Len(docs) + 1}
      /\ Len(docs) + 1 \notin DOMAIN docs
      /\ \A i \in DOMAIN docs : Append(docs, draft[w])[i] = docs[i]
      /\ Append(docs, draft[w])[Len(docs) + 1] = draft[w]
  BY <1>1
<1>4. documents' \in [NumberedKinds -> Seq(Document)]
  BY <1>2, <1>3 DEF AssertionsTypeOK
<1> QED BY <1>2, <1>3, <1>4 DEF docs

\* Numbering, for the documents of one kind.
Numbered(kind) == NoGaps(kind) /\ (kind \in Certified => NoDuplicates(kind))

LEMMA NumberedIs == NumberedInOrder <=> \A kind \in NumberedKinds : Numbered(kind)
BY DEF NumberedInOrder, Numbered, Certified, NumberedKinds

LEMMA NumberedAfterInsert ==
  ASSUME DocInv, NEW w \in Writers, NEW kind \in NumberedKinds, Insert(w, kind)
  PROVE  NumberedInOrder'
<1> DEFINE docs == documents[kind]
           old == DOMAIN docs
           last == Len(docs) + 1
<1>1. AssertionsTypeOK /\ writing[w] = kind /\ DraftFollows(w) /\ Numbered(kind)
  BY NumberedIs DEF DocInv, DraftOK, Insert, NumberedKinds
<1>2. /\ \A k \in NumberedKinds : k # kind => documents'[k] = documents[k]
      /\ DOMAIN documents'[kind] = old \cup {last} /\ last \notin old
      /\ \A i \in old : documents'[kind][i] = docs[i]
      /\ documents'[kind][last] = draft[w]
  BY <1>1, InsertedDocuments
<1>3. \A i \in old : docs[i].revision \in Nat
  BY <1>1, EachIsDocument DEF AssertionsTypeOK
<1>4. /\ draft[w].revision >= 1
      /\ draft[w].revision > 1 => \E j \in old :
            docs[j].subject = draft[w].subject /\ docs[j].revision + 1 = draft[w].revision
      /\ kind \in Certified => \A j \in old :
            docs[j].subject = draft[w].subject => docs[j].revision < draft[w].revision
  BY <1>1 DEF DraftFollows
<1>5. draft[w].revision \in Nat
  BY <1>1 DEF AssertionsTypeOK, Document
<1>6. ASSUME NEW k \in NumberedKinds, k # kind PROVE Numbered(k)'
  <2>1. documents'[k] = documents[k] /\ Numbered(k)
    BY <1>2, <1>6, NumberedIs DEF DocInv
  <2> QED BY <2>1 DEF Numbered, NoGaps, NoDuplicates
<1>7. NoGaps(kind) /\ (kind \in Certified => NoDuplicates(kind))
  BY <1>1 DEF Numbered
<1>7a. \A i \in old : /\ docs[i].revision >= 1
                      /\ docs[i].revision > 1 => \E j \in old :
                            docs[j].subject = docs[i].subject /\ docs[j].revision + 1 = docs[i].revision
  BY <1>7 DEF NoGaps
<1>7b. kind \in Certified => \A i, j \in old :
          docs[i].subject = docs[j].subject /\ docs[i].revision = docs[j].revision => i = j
  BY <1>7 DEF NoDuplicates
<1> HIDE DEF old, last, docs
<1>8. NoGaps(kind)'
  <2> SUFFICES ASSUME NEW i \in DOMAIN documents'[kind]
               PROVE  /\ documents'[kind][i].revision >= 1
                      /\ documents'[kind][i].revision > 1 =>
                           \E j \in DOMAIN documents'[kind] :
                             /\ documents'[kind][j].subject = documents'[kind][i].subject
                             /\ documents'[kind][j].revision + 1 = documents'[kind][i].revision
    BY DEF NoGaps
  <2>1. CASE i \in old
    BY <1>2, <1>7a, <2>1
  <2>2. CASE i = last
    BY <1>2, <1>4, <2>2
  <2> QED BY <1>2, <2>1, <2>2
<1>9. ASSUME kind \in Certified PROVE NoDuplicates(kind)'
  <2> SUFFICES ASSUME NEW i \in DOMAIN documents'[kind], NEW j \in DOMAIN documents'[kind],
                      documents'[kind][i].subject = documents'[kind][j].subject,
                      documents'[kind][i].revision = documents'[kind][j].revision
               PROVE  i = j
    BY DEF NoDuplicates
  <2>1. CASE i \in old /\ j \in old
    BY <1>2, <1>7b, <1>9, <2>1
  <2>2. CASE i \in old /\ j = last
    BY <1>2, <1>3, <1>4, <1>5, <1>9, <2>2
  <2>3. CASE i = last /\ j \in old
    BY <1>2, <1>3, <1>4, <1>5, <1>9, <2>3
  <2> QED BY <1>2, <2>1, <2>2, <2>3
<1>10. Numbered(kind)'
  BY <1>8, <1>9 DEF Numbered
<1>11. \A k \in NumberedKinds : Numbered(k)'
  BY <1>6, <1>10
<1> QED BY <1>11 DEF NumberedInOrder, Numbered, Certified, NumberedKinds

LEMMA DraftsAfterInsert ==
  ASSUME DocInv, AInv, AccountsKeep,
         NEW w \in Writers, NEW kind \in NumberedKinds, Insert(w, kind),
         NEW u \in Writers
  PROVE  DraftOK(u)'
<1>1. CASE u = w
  BY <1>1 DEF Insert, EndWrite, DocInv, AssertionsTypeOK, DraftOK
<1>2. CASE u # w /\ writing[u] # "idle"
  <2> DEFINE k == writing[u]
  <2>1. /\ writing'[u] = k /\ draft'[u] = draft[u] /\ k \in NumberedKinds
        /\ writing[w] = kind /\ AssertionsTypeOK
    BY <1>2 DEF Insert, EndWrite, DocInv, AssertionsTypeOK
  <2>2. /\ DraftFollows(u) /\ Allowed(u, k, draft[u].subject)
        /\ Says(k, draft[u].subject, draft[u].body)
        /\ Allowed(w, kind, draft[w].subject)
    BY <1>2, <2>1 DEF DocInv, DraftOK, NumberedKinds
  <2>3. Says(k, draft[u].subject, draft[u].body)'
    <3>1. PICK kd \in NumberedKinds, s \in Subjects, b \in Bodies :
            kd = k /\ s = draft[u].subject /\ b = draft[u].body
      BY <2>1 DEF AssertionsTypeOK, Document
    <3>2. Says(kd, s, b)'
      BY <2>2, <3>1, StaysSaid
    <3>3. writing'[u] = kd /\ draft'[u].subject = s /\ draft'[u].body = b
      BY <2>1, <3>1
    <3> QED BY <3>2, <3>3 DEF Says
  <2>4. CASE k # kind
    <3>1. documents'[k] = documents[k]
      BY <2>1, <2>4, InsertedDocuments
    <3>2. DraftFollows(u)'
      BY <2>1, <2>2, <3>1 DEF DraftFollows
    <3> QED BY <2>1, <2>2, <2>3, <3>2 DEF DraftOK
  <2>5. CASE k = kind
    <3>1. /\ DOMAIN documents'[k] = DOMAIN documents[k] \cup {Len(documents[k]) + 1}
          /\ \A i \in DOMAIN documents[k] : documents'[k][i] = documents[k][i]
          /\ documents'[k][Len(documents[k]) + 1] = draft[w]
      BY <2>1, <2>5, InsertedDocuments
    <3>2. k \in Certified => draft[w].subject # draft[u].subject
      BY <1>2, <2>2, <2>5, DeploymentAssumption DEF Allowed, Certified
    <3>3. DraftFollows(u)'
      BY <2>1, <2>2, <3>1, <3>2 DEF DraftFollows
    <3> QED BY <2>1, <2>2, <2>3, <3>3 DEF DraftOK
  <2> QED BY <2>4, <2>5
<1>3. CASE u # w /\ writing[u] = "idle"
  BY <1>3 DEF Insert, EndWrite, DocInv, AssertionsTypeOK, DraftOK
<1> QED BY <1>1, <1>2, <1>3

LEMMA DocInvStep ==
  ASSUME DocInv, AInv, AccountsKeep, DocumentStep
  PROVE  DocInv'
<1>1. ASSUME NEW w \in Writers, NEW kind \in NumberedKinds, Insert(w, kind)
      PROVE  DocInv'
  <2>1. AssertionsTypeOK'
    BY <1>1, InsertedDocuments, NoDocumentIsDocument
    DEF DocInv, AssertionsTypeOK, Insert, EndWrite
  <2>2. DocumentsSay'
    <3> SUFFICES ASSUME NEW k \in NumberedKinds, NEW i \in DOMAIN documents'[k]
                 PROVE  Says(k, documents[k][i].subject, documents[k][i].body)'
      BY DEF DocumentsSay
    <3>1. documents'[k] \in Seq(Document)
      BY <2>1 DEF AssertionsTypeOK
    <3>2. PICK s \in Subjects, b \in Bodies :
            s = documents'[k][i].subject /\ b = documents'[k][i].body
      BY <3>1, EachIsDocument DEF Document
    <3>3. Says(k, s, b)
      <4>1. CASE k # kind \/ i \in DOMAIN documents[kind]
        BY <1>1, <3>2, <4>1, InsertedDocuments DEF DocInv, DocumentsSay
      <4>2. CASE k = kind /\ i \notin DOMAIN documents[kind]
        <5>1. documents'[k][i] = draft[w]
          BY <1>1, <4>2, InsertedDocuments DEF DocInv
        <5>2. writing[w] = kind /\ kind # "idle"
          BY <1>1 DEF Insert, NumberedKinds
        <5> QED BY <3>2, <4>2, <5>1, <5>2 DEF DocInv, DraftOK
      <4> QED BY <4>1, <4>2
    <3>4. Says(k, s, b)'
      BY <3>3, StaysSaid
    <3> QED BY <3>2, <3>4 DEF Says
  <2> QED BY <1>1, <2>1, <2>2, NumberedAfterInsert, DraftsAfterInsert DEF DocInv
<1>2. ASSUME UNCHANGED documents PROVE NumberedInOrder' /\ DocumentsSay'
  <2>1. NumberedInOrder'
    BY <1>2 DEF DocInv, NumberedInOrder, NoGaps, NoDuplicates
  <2>2. ASSUME NEW k \in NumberedKinds, NEW i \in DOMAIN documents'[k]
        PROVE  Says(k, documents[k][i].subject, documents[k][i].body)'
    <3>1. documents[k] \in Seq(Document) /\ i \in DOMAIN documents[k]
      BY <1>2, <2>2 DEF AssertionsTypeOK, DocInv
    <3>2. PICK s \in Subjects, b \in Bodies :
            s = documents[k][i].subject /\ b = documents[k][i].body
      BY <3>1, EachIsDocument DEF Document
    <3>3. Says(k, s, b)'
      BY <3>1, <3>2, StaysSaid DEF DocInv, DocumentsSay
    <3> QED BY <1>2, <3>2, <3>3 DEF Says
  <2> QED BY <2>1, <2>2 DEF DocumentsSay
<1>3. ASSUME UNCHANGED documents, NEW u \in Writers,
             UNCHANGED <<writing[u], draft[u]>>
      PROVE  DraftOK(u)'
  <2>1. CASE writing[u] = "idle"
    BY <1>3, <2>1 DEF DraftOK
  <2>2. CASE writing[u] # "idle"
    <3>1. PICK k \in NumberedKinds, s \in Subjects, b \in Bodies :
            k = writing[u] /\ s = draft[u].subject /\ b = draft[u].body
      BY <2>2 DEF DocInv, AssertionsTypeOK, Document
    <3>2. DraftFollows(u) /\ Allowed(u, k, s) /\ Says(k, s, b)
      BY <2>2, <3>1 DEF DocInv, DraftOK
    <3>3. Says(k, s, b)'
      BY <3>2, StaysSaid
    <3>4. Says(writing[u], draft[u].subject, draft[u].body)'
      BY <1>3, <3>1, <3>3 DEF Says
    <3>5. DraftFollows(u)' /\ Allowed(u, writing'[u], draft'[u].subject)
      BY <1>3, <3>1, <3>2 DEF DraftFollows, Allowed
    <3> QED BY <3>4, <3>5 DEF DraftOK
  <2> QED BY <2>1, <2>2
<1>4. ASSUME NEW w \in Writers, NEW kind \in NumberedKinds, NEW s \in Subjects,
             NEW body \in Bodies,
             Allowed(w, kind, s), Says(kind, s, body), LookUpLatest(w, kind, s, body)
      PROVE  DocInv'
  <2>1. PICK n \in NextNumbers(kind, s) :
          draft' = [draft EXCEPT ![w] = [subject |-> s, revision |-> n, body |-> body]]
    BY <1>4 DEF LookUpLatest
  <2>2. AssertionsTypeOK /\ \A k \in NumberedKinds : NoGaps(k)
    BY DEF DocInv, NumberedInOrder
  <2>3. /\ n \in Nat /\ n >= 1
        /\ n > 1 => \E j \in DOMAIN documents[kind] :
              documents[kind][j].subject = s /\ documents[kind][j].revision + 1 = n
        /\ \A j \in DOMAIN documents[kind] :
              documents[kind][j].subject = s => documents[kind][j].revision < n
    BY <2>2, NextNumbersFollow
  <2>4. /\ draft'[w] = [subject |-> s, revision |-> n, body |-> body]
        /\ writing'[w] = kind
        /\ \A u \in Writers : u # w => UNCHANGED <<writing[u], draft[u]>>
        /\ UNCHANGED <<documents, builds>>
        /\ draft' \in [Writers -> Document] /\ writing' \in [Writers -> NumberedKinds \cup {"idle"}]
    BY <1>4, <2>1, <2>2, <2>3 DEF LookUpLatest, AssertionsTypeOK, Document
  <2>5. DraftOK(w)'
    <3>1. DraftFollows(w)'
      BY <2>3, <2>4 DEF DraftFollows
    <3>2. Says(kind, s, body)'
      BY <1>4, StaysSaid
    <3>3. Says(writing[w], draft[w].subject, draft[w].body)'
      BY <2>4, <3>2 DEF Says
    <3>4. Allowed(w, writing'[w], draft'[w].subject)
      BY <1>4, <2>4 DEF Allowed
    <3> QED BY <3>1, <3>3, <3>4 DEF DraftOK
  <2>6. \A u \in Writers : DraftOK(u)'
    BY <1>3, <2>4, <2>5
  <2>7. AssertionsTypeOK'
    BY <2>2, <2>4 DEF AssertionsTypeOK
  <2> QED BY <1>2, <2>4, <2>6, <2>7 DEF DocInv
<1>5. ASSUME NEW s \in Subjects, AddSnapBuildAssertion(s) PROVE DocInv'
  <2>1. UNCHANGED <<documents, writing, draft>> /\ AssertionsTypeOK'
    BY <1>5 DEF AddSnapBuildAssertion, DocInv, AssertionsTypeOK
  <2> QED BY <1>2, <1>3, <2>1 DEF DocInv
<1>6. ASSUME NEW w \in Writers, AbandonWrite(w) PROVE DocInv'
  <2>1. /\ UNCHANGED documents /\ AssertionsTypeOK' /\ writing'[w] = "idle"
        /\ \A u \in Writers : u # w => UNCHANGED <<writing[u], draft[u]>>
    BY <1>6, NoDocumentIsDocument DEF AbandonWrite, EndWrite, DocInv, AssertionsTypeOK
  <2>2. DraftOK(w)'
    BY <2>1 DEF DraftOK
  <2> QED BY <1>2, <1>3, <2>1, <2>2 DEF DocInv
<1>7. CASE ForgetWrites
  <2>1. UNCHANGED documents /\ AssertionsTypeOK' /\ \A u \in Writers : writing'[u] = "idle"
    BY <1>7, NoDocumentIsDocument DEF ForgetWrites, DocInv, AssertionsTypeOK
  <2> QED BY <1>2, <2>1 DEF DocInv, DraftOK
<1>8. CASE UNCHANGED assertionVars
  <2>1. UNCHANGED <<documents, writing, draft>> /\ AssertionsTypeOK'
    BY <1>8 DEF assertionVars, DocInv, AssertionsTypeOK
  <2> QED BY <1>2, <1>3, <2>1 DEF DocInv
<1> QED BY <1>1, <1>4, <1>5, <1>6, <1>7, <1>8 DEF DocumentStep

LEMMA DocInvInitially == AssertionsInit => DocInv
<1> SUFFICES ASSUME AssertionsInit PROVE DocInv
  OBVIOUS
<1>1. AssertionsTypeOK /\ \A k \in NumberedKinds : documents[k] = << >>
  BY NoDocumentIsDocument DEF AssertionsInit, AssertionsTypeOK
<1>2. \A k \in NumberedKinds : DOMAIN documents[k] = {}
  BY <1>1
<1>3. NumberedInOrder
  BY <1>2 DEF NumberedInOrder, NoGaps, NoDuplicates, NumberedKinds
<1>4. DocumentsSay /\ \A w \in Writers : DraftOK(w)
  BY <1>2 DEF DocumentsSay, DraftOK, AssertionsInit
<1> QED BY <1>1, <1>3, <1>4 DEF DocInv

-----------------------------------------------------------------------------
(* The processes, and the loader. *)

RestTypeOK ==
    /\ account \in {"down", "serving"}
    /\ store \in {"down", "unscanned", "serving"}
    /\ buckets \subseteq {"snaps", "unscanned"}
    /\ assertion \in {"down", "root key", "account", "root account", "serving"}
    /\ gateway \in Loading \cup {"down", "dial account", "dial store", "dial assertion", "serving"}
    /\ attempts \in 0..MaxAttempts-1
    /\ testMode \in BOOLEAN
    /\ loaded \in 0..Len(TestAccounts) + Len(TestKeys)
    /\ idOf \in Seq(AccountIds)
    /\ newKey \in Keys
    /\ crashes \in 0..MaxCrashes

Dialling == {"down", "dial account", "dial store", "dial assertion"}
LoadingKeys == {"add key", "insert key", "assert key", "key asserted"}

\* How far the loader is at each of its steps.
StageOK ==
    /\ gateway \in Dialling => loaded = 0 /\ idOf = << >>
    /\ gateway = "add account" => loaded < Len(TestAccounts) /\ Len(idOf) = loaded
    /\ gateway \in {"assert account", "account asserted"} =>
          loaded < Len(TestAccounts) /\ Len(idOf) = loaded + 1
    /\ gateway \in LoadingKeys =>
          /\ Len(TestAccounts) <= loaded /\ loaded < Len(TestAccounts) + Len(TestKeys)
          /\ Len(idOf) = Len(TestAccounts)
    /\ gateway = "load snaps" => Len(idOf) = Len(TestAccounts)

\* The ids of the loader are those of the accounts it added, while they exist.
LoaderKnows ==
    \A i \in DOMAIN idOf :
        /\ i \in DOMAIN TestAccounts /\ idOf[i] \in issued
        /\ idOf[i] \in DOMAIN accounts =>
              /\ accounts[idOf[i]].display = TestAccounts[i].display
              /\ accounts[idOf[i]].email = TestAccounts[i].email

\* The key under way is, and then was, inserted for the account that it is going
\* to be asserted for, while that account exists.
KeyOK ==
    /\ gateway = "insert key" /\ callPc["loader"] = "insert key" =>
          /\ call["loader"].key = newKey
          /\ idOf[Owner] \in DOMAIN accounts => call["loader"].id = idOf[Owner]
    /\ gateway = "assert key" =>
          /\ newKey \in DOMAIN keys
          /\ idOf[Owner] \in DOMAIN accounts => keys[newKey] = idOf[Owner]

LoaderOK == RestTypeOK /\ StageOK /\ LoaderKnows /\ KeyOK

LEMMA ConstantsFit ==
  /\ "start" \in Writers /\ "loader" \in Writers /\ Pushing \subseteq Writers
  /\ "start" \notin Pushing /\ "loader" \notin Pushing
  /\ RootAccount \in Subjects /\ AccountIds \subseteq Subjects /\ Snaps \subseteq Subjects
  /\ RootKey \in Bodies /\ Keys \subseteq Bodies /\ Snaps \subseteq Bodies
  /\ DisplayNames \subseteq Bodies /\ Root.display \in Bodies
  /\ RootAccount \notin AccountIds /\ RootKey \notin Keys /\ "loader" \in Callers
BY DeploymentAssumption DEF Row

LEMMA Bounds ==
  /\ Len(TestAccounts) \in Nat \ {0} /\ Len(TestKeys) \in Nat
  /\ MaxAttempts \in Nat \ {0} /\ MaxCrashes \in Nat
<1>1. /\ TestAccounts \in Seq(Row) /\ TestKeys \in Seq(DOMAIN TestAccounts)
      /\ TestAccounts # << >>
  BY DeploymentAssumption
<1> QED BY <1>1, DeploymentAssumption

LEMMA FilesFit ==
  /\ TestAccounts \in Seq(Row) /\ TestKeys \in Seq(DOMAIN TestAccounts)
  /\ Len(TestAccounts) \in Nat \ {0} /\ Len(TestKeys) \in Nat
  /\ MaxAttempts \in Nat \ {0} /\ MaxCrashes \in Nat
  /\ DOMAIN TestAccounts = 1..Len(TestAccounts)
  /\ RestTypeOK => /\ loaded \in Nat /\ Len(idOf) \in Nat
                    /\ DOMAIN idOf = 1..Len(idOf) /\ \A i \in DOMAIN idOf : idOf[i] \in AccountIds
                    /\ loaded <= Len(TestAccounts) + Len(TestKeys)
<1>1. /\ TestAccounts \in Seq(Row) /\ TestKeys \in Seq(DOMAIN TestAccounts)
      /\ TestAccounts # << >> /\ MaxAttempts \in Nat \ {0} /\ MaxCrashes \in Nat
  BY DeploymentAssumption
<1>2. /\ Len(TestAccounts) \in Nat \ {0} /\ Len(TestKeys) \in Nat
      /\ DOMAIN TestAccounts = 1..Len(TestAccounts)
  BY <1>1
<1>3. RestTypeOK => idOf \in Seq(AccountIds) /\ loaded \in 0..Len(TestAccounts) + Len(TestKeys)
  BY Zenon DEF RestTypeOK
<1>4. idOf \in Seq(AccountIds) =>
         /\ Len(idOf) \in Nat /\ DOMAIN idOf = 1..Len(idOf)
         /\ \A i \in DOMAIN idOf : idOf[i] \in AccountIds
  OBVIOUS
<1>5. loaded \in 0..Len(TestAccounts) + Len(TestKeys) =>
         loaded \in Nat /\ loaded <= Len(TestAccounts) + Len(TestKeys)
  BY <1>2
<1> QED BY <1>1, <1>2, <1>3, <1>4, <1>5

LEMMA OwnerHasId ==
  ASSUME RestTypeOK, StageOK, gateway \in LoadingKeys
  PROVE  /\ Owner \in DOMAIN TestAccounts /\ Owner \in DOMAIN idOf
         /\ DOMAIN idOf = DOMAIN TestAccounts /\ idOf[Owner] \in AccountIds
<1>1. TestKeys \in Seq(DOMAIN TestAccounts) /\ loaded \in Nat
  BY FilesFit
<1>1a. /\ Len(TestAccounts) <= loaded /\ loaded < Len(TestAccounts) + Len(TestKeys)
       /\ Len(idOf) = Len(TestAccounts)
  BY DEF StageOK
<1>1b. Len(TestAccounts) \in Nat /\ Len(TestKeys) \in Nat
  BY FilesFit
<1>2. loaded + 1 - Len(TestAccounts) \in 1..Len(TestKeys) /\ Len(idOf) = Len(TestAccounts)
  BY <1>1, <1>1a, <1>1b
<1>3. TestKeys[loaded + 1 - Len(TestAccounts)] \in DOMAIN TestAccounts
  BY <1>1, <1>2
<1>4. DOMAIN idOf = DOMAIN TestAccounts
  BY <1>2, FilesFit
<1> QED BY <1>3, <1>4, FilesFit DEF Owner, Position

\* A step of others than the loader.
LEMMA LoaderUndisturbed ==
  ASSUME AInv, AccountsKeep, LoaderOK,
         UNCHANGED <<gateway, loaded, idOf, newKey>>,
         \/ callPc'["loader"] = "idle"
         \/ callPc'["loader"] = callPc["loader"] /\ call'["loader"] = call["loader"]
  PROVE  StageOK' /\ LoaderKnows' /\ KeyOK'
<1>1. StageOK'
  BY DEF LoaderOK, StageOK
<1>2. LoaderKnows'
  BY DEF LoaderOK, LoaderKnows, AccountsKeep
<1>3. ASSUME gateway \in LoadingKeys
      PROVE  /\ Owner' = Owner /\ idOf[Owner] \in issued
             /\ idOf[Owner] \in DOMAIN accounts' => idOf[Owner] \in DOMAIN accounts
  <2>1. Owner \in DOMAIN idOf
    BY <1>3, OwnerHasId DEF LoaderOK
  <2>2. idOf[Owner] \in issued
    BY <2>1 DEF LoaderOK, LoaderKnows
  <2>3. Owner' = Owner
    BY DEF Owner, Position
  <2> QED BY <2>2, <2>3 DEF AccountsKeep
<1>4. ASSUME gateway = "insert key", callPc'["loader"] = "insert key"
      PROVE  /\ call'["loader"].key = newKey'
             /\ idOf'[Owner'] \in DOMAIN accounts' => call'["loader"].id = idOf'[Owner']
  BY <1>3, <1>4 DEF LoaderOK, KeyOK, LoadingKeys
<1>5. ASSUME gateway = "assert key"
      PROVE  /\ newKey' \in DOMAIN keys'
             /\ idOf'[Owner'] \in DOMAIN accounts' => keys'[newKey'] = idOf'[Owner']
  BY <1>3, <1>5 DEF LoaderOK, KeyOK, LoadingKeys, AccountsKeep
<1> QED BY <1>1, <1>2, <1>4, <1>5 DEF KeyOK

\* Every step of a deployment executes one statement of each service or none.
LEMMA StepIsStatements ==
  ASSUME AInv, DocInv, LoaderOK, DeploymentNext
  PROVE  AccountStep /\ DocumentStep
<1> USE ConstantsFit
<1>1. CASE StartAccount
  BY <1>1, DeploymentAssumption DEF StartAccount, AccountStep, DocumentStep
<1>2. CASE ServeAccounts
  BY <1>2 DEF ServeAccounts, ClientCall, UpdateAccount, AccountStep, DocumentStep
<1>3. CASE StartStore
  BY <1>3 DEF StartStore, MakeBucket, AccountStep, DocumentStep
<1>4. CASE StartAssertion
  <2>1. AccountStep
    BY <1>4 DEF StartAssertion, LookUpRootKey, InsertRootKey, LookUpRootAccount,
       InsertRootAccount, AccountStep
  <2>2. CASE InsertRootKey \/ InsertRootAccount
    BY <2>1, <2>2 DEF InsertRootKey, InsertRootAccount, InsertAccountKeyAssertion,
       InsertAccountAssertion, DocumentStep, NumberedKinds
  <2>3. CASE LookUpRootKey
    <3>1. /\ Allowed("start", "account-key", RootAccount)
          /\ Says("account-key", RootAccount, RootKey)
      BY DEF Allowed, Says
    <3> QED BY <2>1, <2>3, <3>1 DEF LookUpRootKey, AddAccountKeyAssertion, DocumentStep, NumberedKinds
  <2>4. CASE LookUpRootAccount
    <3>1. /\ Allowed("start", "account", RootAccount)
          /\ Says("account", RootAccount, Root.display)
      BY DEF Allowed, Says
    <3> QED BY <2>1, <2>4, <3>1 DEF LookUpRootAccount, AddAccountAssertion, DocumentStep, NumberedKinds
  <2> QED BY <1>4, <2>1, <2>2, <2>3, <2>4 DEF StartAssertion
<1>5. CASE SignForPushes
  <2>1. AccountStep
    BY <1>5 DEF SignForPushes, AccountStep
  <2>2. ASSUME NEW w \in Pushing, NEW s \in Snaps, AddSnapDeclarationAssertion(w, s, s)
        PROVE  DocumentStep
    <3>1. Allowed(w, "snap-declaration", s) /\ Says("snap-declaration", s, s)
      BY DEF Allowed, Says
    <3> QED BY <2>2, <3>1 DEF AddSnapDeclarationAssertion, DocumentStep, NumberedKinds
  <2>3. ASSUME NEW w \in Pushing, InsertSnapDeclarationAssertion(w) \/ AbandonWrite(w)
        PROVE  DocumentStep
    BY <2>3 DEF InsertSnapDeclarationAssertion, DocumentStep, NumberedKinds
  <2>4. ASSUME NEW s \in Snaps, AddSnapBuildAssertion(s) PROVE DocumentStep
    BY <2>4 DEF DocumentStep
  <2> QED BY <1>5, <2>1, <2>2, <2>3, <2>4 DEF SignForPushes
<1>6. CASE GatewayStep
  BY <1>6 DEF GatewayStep, StartGateway, DialServices, Dial, Attempt, AccountStep, DocumentStep
<1>7. CASE LoadAccount
  <2>1. loaded + 1 \in DOMAIN TestAccounts /\ TestAccounts[loaded + 1] \in Row
    <3>1. loaded < Len(TestAccounts)
      BY <1>7 DEF LoaderOK, StageOK, LoadAccount, Step
    <3>2. loaded + 1 \in DOMAIN TestAccounts
      BY <3>1, FilesFit DEF LoaderOK
    <3> QED BY <3>2, FilesFit
  <2> QED BY <1>7, <2>1 DEF LoadAccount, Position, AccountStep, DocumentStep
<1>8. CASE LookUpLoadedAccount
  <2>1. /\ loaded + 1 \in DOMAIN TestAccounts /\ TestAccounts[loaded + 1] \in Row
        /\ loaded + 1 \in DOMAIN idOf /\ idOf[loaded + 1] \in AccountIds
    <3>1. loaded < Len(TestAccounts) /\ Len(idOf) = loaded + 1
      BY <1>8 DEF LoaderOK, StageOK, LookUpLoadedAccount, Step
    <3>2. loaded + 1 \in DOMAIN TestAccounts /\ loaded + 1 \in DOMAIN idOf
      BY <3>1, FilesFit DEF LoaderOK
    <3> QED BY <3>2, FilesFit DEF LoaderOK
  <2>2. TestAccounts[loaded + 1].display \in Bodies
    BY <2>1, ConstantsFit DEF Row
  <2>3. /\ Allowed("loader", "account", idOf[loaded + 1])
        /\ Says("account", idOf[loaded + 1], TestAccounts[loaded + 1].display)
    BY <2>1 DEF Allowed, Says, LoaderOK, LoaderKnows
  <2> QED
    BY <1>8, <2>1, <2>2, <2>3
    DEF LookUpLoadedAccount, AddAccountAssertion, Position, AccountStep, DocumentStep, NumberedKinds
<1>9. CASE InsertLoadedAccount \/ InsertLoadedKeyAssertion
  BY <1>9
  DEF InsertLoadedAccount, InsertLoadedKeyAssertion, InsertAccountAssertion,
      InsertAccountKeyAssertion, AccountStep, DocumentStep, NumberedKinds
<1>10. CASE FindLoadedOwner
  <2>1. Owner \in DOMAIN TestAccounts
    BY <1>10, OwnerHasId DEF LoaderOK, FindLoadedOwner, Step, LoadingKeys
  <2>2. TestAccounts[Owner].email \in Emails
    <3>1. TestAccounts[Owner] \in Row
      BY <2>1, FilesFit
    <3> QED BY <3>1 DEF Row
  <2> QED BY <1>10, <2>2 DEF FindLoadedOwner, AccountStep, DocumentStep
<1>11. CASE InsertLoadedKey
  BY <1>11 DEF InsertLoadedKey, AccountStep, DocumentStep
<1>12. CASE LookUpLoadedKey
  <2>1. Owner \in DOMAIN idOf /\ idOf[Owner] \in AccountIds
    BY <1>12, OwnerHasId DEF LoaderOK, LookUpLoadedKey, Step, LoadingKeys
  <2>2. Allowed("loader", "account-key", idOf[Owner]) /\ Says("account-key", idOf[Owner], newKey)
    BY <1>12, <2>1 DEF Allowed, Says, LoaderOK, LoaderKnows, KeyOK, LookUpLoadedKey, Step
  <2>3. newKey \in Bodies
    BY DEF LoaderOK, RestTypeOK
  <2> QED
    BY <1>12, <2>1, <2>2, <2>3
    DEF LookUpLoadedKey, AddAccountKeyAssertion, AccountStep, DocumentStep, NumberedKinds
<1>13. CASE FailLoad \/ CrashGateway
  BY <1>13 DEF FailLoad, CrashGateway, EndGateway, AccountStep, DocumentStep
<1>14. CASE CrashAccount \/ CrashStore \/ CrashAssertion
  BY <1>14 DEF CrashAccount, CrashStore, CrashAssertion, AccountStep, DocumentStep,
     ForgetCalls, ForgetWrites, assertionVars, accountVars
<1>15. CASE SnapsLoaded
  BY <1>15 DEF SnapsLoaded, AccountStep, DocumentStep
<1> QED
  BY <1>1, <1>2, <1>3, <1>4, <1>5, <1>6, <1>7, <1>8, <1>9, <1>10, <1>11, <1>12, <1>13, <1>14, <1>15
  DEF DeploymentNext, Load, Crash

LEMMA NoKeyIsKey == NoKey \in Keys
BY AccountsAssumption DEF NoKey

\* The gateway after its end.
LEMMA LoaderEnded ==
  ASSUME LoaderOK, EndGateway
  PROVE  StageOK' /\ LoaderKnows' /\ KeyOK'
<1>1. gateway' = "down" /\ loaded' = 0 /\ idOf' = << >>
  BY DEF EndGateway
<1>2. StageOK'
  BY <1>1 DEF StageOK, LoadingKeys
<1> QED BY <1>1, <1>2 DEF LoaderKnows, KeyOK

LEMMA AttemptsFit ==
  ASSUME RestTypeOK
  PROVE  /\ 0 \in 0..MaxAttempts-1
         /\ attempts + 1 < MaxAttempts => attempts + 1 \in 0..MaxAttempts-1
<1>1. attempts \in 0..MaxAttempts-1
  BY DEF RestTypeOK
<1>2. MaxAttempts \in Nat \ {0}
  BY FilesFit
<1> QED BY <1>1, <1>2

LEMMA RestTypeStep ==
  ASSUME LoaderOK, AInv, DeploymentNext
  PROVE  RestTypeOK'
<1> USE DEF RestTypeOK
<1>0a. RestTypeOK
  BY DEF LoaderOK
<1>0. RestTypeOK /\ 0 \in 0..MaxAttempts-1 /\ 0 \in 0..Len(TestAccounts) + Len(TestKeys)
  <2>1. 0 \in 0..MaxAttempts-1 /\ 0 \in 0..Len(TestAccounts) + Len(TestKeys)
    BY Bounds
  <2> QED BY <1>0a, <2>1
<1>1. CASE StartAccount
  BY <1>0, <1>1 DEF StartAccount, gatewayVars
<1>2. CASE ServeAccounts \/ SignForPushes
  BY <1>0, <1>2 DEF ServeAccounts, SignForPushes, gatewayVars, services
<1>3. CASE StartStore
  BY <1>0, <1>3 DEF StartStore, MakeBucket, gatewayVars
<1>4. CASE StartAssertion
  BY <1>0, <1>4 DEF StartAssertion, LookUpRootKey, InsertRootKey, LookUpRootAccount,
     InsertRootAccount, gatewayVars
<1>5. CASE StartGateway
  BY <1>0, <1>5 DEF StartGateway, services
<1>6. CASE DialServices
  <2>1. attempts' \in 0..MaxAttempts-1
    BY <1>0, <1>6, AttemptsFit DEF DialServices, Dial, Attempt
  <2>2. gateway' \in Loading \cup {"down", "dial account", "dial store", "dial assertion", "serving"}
    BY <1>6 DEF DialServices, Dial, Attempt, Loading
  <2>3. UNCHANGED <<services, testMode, loaded, idOf, newKey, crashes>>
    BY <1>6 DEF DialServices, Dial, Attempt
  <2> QED BY <1>0, <2>1, <2>2, <2>3 DEF services
<1>7. CASE LoadAccount
  <2>1. PICK id \in AccountIds : idOf' = Append(idOf, id)
    BY <1>7 DEF LoadAccount
  <2>2. idOf' \in Seq(AccountIds)
    <3>1. idOf \in Seq(AccountIds)
      BY <1>0
    <3> HIDE DEF RestTypeOK
    <3>2. Append(idOf, id) \in Seq(AccountIds)
      BY <3>1
    <3> QED BY <2>1, <3>2
  <2>3. /\ gateway' \in Loading
        /\ UNCHANGED <<services, attempts, testMode, loaded, newKey, crashes>>
    BY <1>7 DEF LoadAccount, Step, Loading
  <2> QED BY <1>0, <2>2, <2>3 DEF services
<1>8. CASE LookUpLoadedAccount \/ LookUpLoadedKey
  BY <1>0, <1>8 DEF LookUpLoadedAccount, LookUpLoadedKey, Step, Loading, services
<1>9. CASE InsertLoadedAccount \/ InsertLoadedKeyAssertion
  <2>0. loaded < Len(TestAccounts) \/ loaded < Len(TestAccounts) + Len(TestKeys)
    BY <1>9
    DEF LoaderOK, StageOK, LoadingKeys, InsertLoadedAccount, InsertLoadedKeyAssertion, Step
  <2>1. loaded \in Nat /\ loaded < Len(TestAccounts) + Len(TestKeys)
    <3>1. loaded \in 0..Len(TestAccounts) + Len(TestKeys)
      BY <1>0
    <3> QED BY <2>0, <3>1, Bounds
  <2>2. loaded' = loaded + 1 /\ gateway' = Following(loaded + 1)
    BY <1>9 DEF InsertLoadedAccount, InsertLoadedKeyAssertion, Step, Position
  <2>3. loaded' \in 0..Len(TestAccounts) + Len(TestKeys)
    <3> HIDE DEF RestTypeOK
    <3> QED BY <2>1, <2>2, Bounds
  <2>4. gateway' \in Loading
    BY <2>2 DEF Following, Loading
  <2> QED
    BY <1>0, <1>9, <2>3, <2>4 DEF InsertLoadedAccount, InsertLoadedKeyAssertion, services
<1>10. CASE FindLoadedOwner
  BY <1>0, <1>10 DEF FindLoadedOwner, Step, Loading, services
<1>11. CASE InsertLoadedKey
  BY <1>0, <1>11 DEF InsertLoadedKey, Step, Loading, services
<1>12. CASE EndGateway /\ crashes' \in 0..MaxCrashes
  <2>1. idOf' \in Seq(AccountIds)
    BY <1>12 DEF EndGateway
  <2> QED BY <1>0, <1>12, <2>1, NoKeyIsKey DEF EndGateway, services
<1>13. CASE Crash
  <2>1. crashes' \in 0..MaxCrashes
    <3>1. crashes \in 0..MaxCrashes /\ crashes < MaxCrashes /\ crashes' = crashes + 1
      BY <1>0, <1>13 DEF Crash
    <3> QED BY <3>1, Bounds
  <2>2. CASE CrashGateway
    BY <1>12, <2>1, <2>2 DEF CrashGateway
  <2>3. CASE CrashAccount
    BY <1>0, <2>1, <2>3 DEF CrashAccount, gatewayVars
  <2>4. CASE CrashStore
    BY <1>0, <2>1, <2>4 DEF CrashStore, gatewayVars
  <2>5. CASE CrashAssertion
    BY <1>0, <2>1, <2>5 DEF CrashAssertion, gatewayVars
  <2> QED BY <1>13, <2>2, <2>3, <2>4, <2>5 DEF Crash
<1>14. CASE FailLoad
  BY <1>0, <1>12, <1>14 DEF FailLoad
<1>15. CASE SnapsLoaded
  BY <1>0, <1>15 DEF SnapsLoaded, Step, services
<1> QED
  BY <1>1, <1>2, <1>3, <1>4, <1>5, <1>6, <1>7, <1>8, <1>9, <1>10, <1>11, <1>13, <1>14, <1>15
  DEF DeploymentNext, GatewayStep, Load

LEMMA LoaderStep ==
  ASSUME LoaderOK, AInv, AInv', AccountsKeep, DeploymentNext
  PROVE  StageOK' /\ LoaderKnows' /\ KeyOK'
<1> DEFINE Aside == /\ UNCHANGED <<gateway, loaded, idOf, newKey>>
                    /\ \/ callPc'["loader"] = "idle"
                       \/ callPc'["loader"] = callPc["loader"] /\ call'["loader"] = call["loader"]
<1>0. RestTypeOK /\ AccountsTypeOK
  BY DEF LoaderOK, AInv
<1>1. CASE Aside
  BY <1>1, LoaderUndisturbed
<1>2. CASE StartAccount \/ StartStore \/ StartAssertion \/ SignForPushes
  <2>1. Aside
    BY <1>2 DEF StartAccount, StartStore, MakeBucket, StartAssertion, LookUpRootKey, InsertRootKey,
       LookUpRootAccount, InsertRootAccount, SignForPushes, AddAccount, accountVars, gatewayVars
  <2> QED BY <1>1, <2>1
<1>3. CASE ServeAccounts
  <2>1. PICK c \in Callers \ {"loader"} : ClientCall(c)
    BY <1>3 DEF ServeAccounts
  <2>2. callPc'["loader"] = callPc["loader"] /\ call'["loader"] = call["loader"]
    BY <1>0, <2>1, ConstantsFit
    DEF ClientCall, AddAccount, UpdateAccount, DeleteAccount, FindOwner, ReadForPatch,
        InsertKey, WritePatch, AbandonCall, EndCall, accountVars, AccountsTypeOK
  <2>3. Aside
    BY <1>3, <2>2 DEF ServeAccounts, gatewayVars
  <2> QED BY <1>1, <2>3
<1>4. CASE CrashAccount \/ CrashStore \/ CrashAssertion
  <2>1. Aside
    BY <1>4, ConstantsFit DEF CrashAccount, CrashStore, CrashAssertion, accountVars, gatewayVars
  <2> QED BY <1>1, <2>1
<1>5. CASE FailLoad \/ CrashGateway
  BY <1>5, LoaderEnded DEF FailLoad, CrashGateway
<1>6. CASE GatewayStep
  <2>1. /\ UNCHANGED <<accountVars, loaded, idOf, newKey>>
        /\ gateway \in Dialling /\ gateway' \in Dialling \cup {"add account", "serving"}
    BY <1>6 DEF GatewayStep, StartGateway, DialServices, Dial, Attempt, Dialling
  <2>2. /\ loaded' = 0 /\ idOf' = << >> /\ Len(idOf') = 0 /\ DOMAIN idOf' = {}
        /\ loaded' < Len(TestAccounts)
    <3>1. loaded' = 0 /\ idOf' = << >>
      BY <2>1 DEF LoaderOK, StageOK
    <3> QED BY <3>1, Bounds
  <2>3. StageOK'
    BY <2>1, <2>2 DEF StageOK, Dialling, LoadingKeys
  <2>4. LoaderKnows'
    BY <2>1, <2>2 DEF LoaderKnows
  <2>5. KeyOK'
    BY <2>1 DEF KeyOK, Dialling
  <2> QED BY <2>3, <2>4, <2>5
<1>7. CASE LoadAccount
  <2>1. PICK id \in AccountIds : AddAccount(id, TestAccounts[loaded + 1]) /\ idOf' = Append(idOf, id)
    BY <1>7 DEF LoadAccount, Position
  <2>2. /\ gateway = "add account" /\ gateway' = "assert account" /\ loaded' = loaded
        /\ loaded < Len(TestAccounts) /\ Len(idOf) = loaded
    BY <1>7 DEF LoadAccount, Step, LoaderOK, StageOK
  <2>3. /\ idOf \in Seq(AccountIds) /\ loaded \in Nat
        /\ DOMAIN TestAccounts = 1..Len(TestAccounts) /\ Len(TestAccounts) \in Nat
    BY <1>0, FilesFit DEF RestTypeOK
  <2>4. /\ Len(idOf') = loaded + 1 /\ DOMAIN idOf' = DOMAIN idOf \cup {loaded + 1}
        /\ idOf'[loaded + 1] = id /\ \A i \in DOMAIN idOf : idOf'[i] = idOf[i]
        /\ loaded + 1 \in DOMAIN TestAccounts
    <3>1. /\ Len(Append(idOf, id)) = Len(idOf) + 1
          /\ DOMAIN Append(idOf, id) = DOMAIN idOf \cup {Len(idOf) + 1}
          /\ Append(idOf, id)[Len(idOf) + 1] = id
          /\ \A i \in DOMAIN idOf : Append(idOf, id)[i] = idOf[i]
      BY <2>3
    <3>2a. \A l, a \in Nat : l < a => l + 1 \in 1..a
      OBVIOUS
    <3>2. loaded + 1 \in DOMAIN TestAccounts
      BY <2>2, <2>3, <3>2a
    <3> DEFINE new == Append(idOf, id)
    <3>3. idOf' = new
      BY <2>1
    <3> HIDE DEF new
    <3>4. /\ Len(new) = loaded + 1 /\ DOMAIN new = DOMAIN idOf \cup {loaded + 1}
          /\ new[loaded + 1] = id /\ \A i \in DOMAIN idOf : new[i] = idOf[i]
      BY <2>2, <3>1 DEF new
    <3> QED BY <3>2, <3>3, <3>4
  <2>5. StageOK'
    BY <2>2, <2>4 DEF StageOK, Dialling, LoadingKeys
  <2>6. KeyOK'
    BY <2>2 DEF KeyOK
  <2>7. ASSUME NEW i \in DOMAIN idOf
        PROVE  /\ i \in DOMAIN TestAccounts /\ idOf'[i] \in issued'
               /\ idOf'[i] \in DOMAIN accounts' =>
                     /\ accounts'[idOf'[i]].display = TestAccounts[i].display
                     /\ accounts'[idOf'[i]].email = TestAccounts[i].email
    BY <2>4 DEF LoaderOK, LoaderKnows, AccountsKeep
  <2>8. id \in issued' /\ accounts'[id] = TestAccounts[loaded + 1]
    BY <2>1 DEF AddAccount
  <2>9. LoaderKnows'
    BY <2>4, <2>7, <2>8 DEF LoaderKnows
  <2> QED BY <2>5, <2>6, <2>9
<1>8. CASE LookUpLoadedAccount \/ InsertLoadedAccount \/ LookUpLoadedKey \/ InsertLoadedKeyAssertion
  <2>1. UNCHANGED <<accountVars, idOf>>
    BY <1>8 DEF LookUpLoadedAccount, InsertLoadedAccount, LookUpLoadedKey, InsertLoadedKeyAssertion
  <2>2. LoaderKnows'
    BY <2>1 DEF LoaderOK, LoaderKnows, accountVars
  <2>3. gateway' \in {"account asserted", "key asserted", "add account", "add key", "load snaps"}
    BY <1>8 DEF LookUpLoadedAccount, InsertLoadedAccount, LookUpLoadedKey,
       InsertLoadedKeyAssertion, Step, Following
  <2>4. KeyOK'
    BY <2>3 DEF KeyOK
  <2>5. CASE LookUpLoadedAccount \/ LookUpLoadedKey
    BY <2>2, <2>4, <2>5 DEF LookUpLoadedAccount, LookUpLoadedKey, Step, LoaderOK, StageOK, Dialling, LoadingKeys
  <2>6. CASE InsertLoadedAccount
    <3>1. /\ loaded < Len(TestAccounts) /\ Len(idOf) = loaded + 1
          /\ loaded' = loaded + 1 /\ idOf' = idOf /\ gateway' = Following(loaded + 1)
      BY <2>6 DEF InsertLoadedAccount, Step, Position, LoaderOK, StageOK
    <3>2. /\ loaded \in Nat /\ Len(TestAccounts) \in Nat /\ Len(TestKeys) \in Nat
      BY <1>0, FilesFit, Bounds
    <3>3. CASE loaded + 1 < Len(TestAccounts)
      <4>1. gateway' = "add account"
        BY <3>1, <3>3 DEF Following
      <4> QED BY <2>2, <2>4, <3>1, <3>3, <4>1 DEF StageOK, Dialling, LoadingKeys
    <3>4. CASE loaded + 1 = Len(TestAccounts) /\ gateway' = "add key" /\ Len(TestKeys) > 0
      <4>1. loaded' < Len(TestAccounts) + Len(TestKeys) /\ Len(TestAccounts) <= loaded'
        <5>1. \A l, a, k \in Nat : l + 1 = a /\ k > 0 => l + 1 < a + k /\ a <= l + 1
          OBVIOUS
        <5>2. loaded + 1 < Len(TestAccounts) + Len(TestKeys) /\ Len(TestAccounts) <= loaded + 1
          BY <3>2, <3>4, <5>1
        <5> QED BY <3>1, <5>2
      <4> QED BY <2>2, <2>4, <3>1, <3>4, <4>1 DEF StageOK, Dialling, LoadingKeys
    <3>5. CASE gateway' = "load snaps" /\ loaded + 1 = Len(TestAccounts)
      BY <2>2, <2>4, <3>1, <3>5 DEF StageOK, Dialling, LoadingKeys
    <3> QED
      <4>1. CASE loaded + 1 = Len(TestAccounts)
        <5>1. \/ gateway' = "add key" /\ loaded + 1 < Len(TestAccounts) + Len(TestKeys)
              \/ gateway' = "load snaps"
          <6>1. \A a \in Nat : ~(a < a)
            OBVIOUS
          <6>2. ~(loaded + 1 < Len(TestAccounts))
            BY <3>2, <4>1, <6>1
          <6> QED BY <3>1, <6>2 DEF Following
        <5>2. \A a, k \in Nat : a < a + k => k > 0
          OBVIOUS
        <5>3. loaded + 1 < Len(TestAccounts) + Len(TestKeys) => Len(TestKeys) > 0
          BY <3>2, <4>1, <5>2
        <5> QED BY <3>4, <3>5, <4>1, <5>1, <5>3
      <4>2. \A l, a \in Nat : l < a => l + 1 < a \/ l + 1 = a
        OBVIOUS
      <4>3. loaded + 1 < Len(TestAccounts) \/ loaded + 1 = Len(TestAccounts)
        BY <3>1, <3>2, <4>2
      <4> QED BY <3>3, <4>1, <4>3
  <2>7. CASE InsertLoadedKeyAssertion
    <3>1. /\ Len(TestAccounts) <= loaded /\ loaded < Len(TestAccounts) + Len(TestKeys)
          /\ Len(idOf) = Len(TestAccounts)
          /\ loaded' = loaded + 1 /\ idOf' = idOf /\ gateway' = Following(loaded + 1)
      BY <2>7 DEF InsertLoadedKeyAssertion, Step, Position, LoaderOK, StageOK, LoadingKeys
    <3>2. /\ loaded \in Nat /\ Len(TestAccounts) \in Nat /\ Len(TestKeys) \in Nat
      BY <1>0, FilesFit, Bounds
    <3>2a. \A l, a \in Nat : a <= l => ~(l + 1 < a)
      OBVIOUS
    <3>2b. ~(loaded + 1 < Len(TestAccounts))
      BY <3>1, <3>2, <3>2a
    <3>3. \/ gateway' = "add key" /\ loaded + 1 < Len(TestAccounts) + Len(TestKeys)
          \/ gateway' = "load snaps"
      BY <3>1, <3>2b DEF Following
    <3>4. Len(TestAccounts) <= loaded'
      BY <3>1, <3>2
    <3> QED BY <2>2, <2>4, <3>1, <3>3, <3>4 DEF StageOK, Dialling, LoadingKeys
  <2> QED BY <1>8, <2>2, <2>4, <2>5, <2>6, <2>7
<1>9. CASE FindLoadedOwner \/ InsertLoadedKey
  <2>1. /\ UNCHANGED <<loaded, idOf>> /\ gateway \in {"add key", "insert key"}
        /\ gateway' \in {"insert key", "assert key"}
    BY <1>9 DEF FindLoadedOwner, InsertLoadedKey, Step
  <2>2. StageOK'
    BY <2>1 DEF LoaderOK, StageOK, Dialling, LoadingKeys
  <2>3. LoaderKnows'
    BY <2>1 DEF LoaderOK, LoaderKnows, AccountsKeep
  <2>4. /\ Owner' = Owner /\ Owner \in DOMAIN TestAccounts
        /\ Owner \in DOMAIN idOf /\ idOf[Owner] \in issued
    BY <1>0, <2>1, OwnerHasId DEF Owner, Position, LoaderOK, LoadingKeys, LoaderKnows
  <2>5. CASE FindLoadedOwner
    <3>1. PICK key \in Keys : /\ FindOwner("loader", TestAccounts[Owner].email, key)
                              /\ newKey' = key
      BY <2>5 DEF FindLoadedOwner
    <3>2. PICK id \in WithEmail(TestAccounts[Owner].email) :
            call'["loader"] = [NoCall EXCEPT !.id = id, !.key = key]
      BY <1>0, <3>1, ConstantsFit DEF FindOwner, AccountsTypeOK
    <3>3. call'["loader"].id = id /\ call'["loader"].key = key
      BY <3>2, NoCallIsCall DEF Call
    <3>4. UNCHANGED <<accounts, issued, keys>>
      BY <3>1 DEF FindOwner
    <3>5. idOf[Owner] \in DOMAIN accounts => idOf[Owner] = id
      <4>1. id \in DOMAIN accounts /\ accounts[id].email = TestAccounts[Owner].email
        BY DEF WithEmail
      <4>2. idOf[Owner] \in DOMAIN accounts =>
               accounts[idOf[Owner]].email = TestAccounts[Owner].email
        BY <2>4 DEF LoaderOK, LoaderKnows
      <4> QED BY <4>1, <4>2 DEF AInv, TablesOK
    <3>6. gateway' = "insert key"
      BY <2>5 DEF FindLoadedOwner, Step
    <3>7. KeyOK'
      BY <2>1, <2>4, <3>1, <3>3, <3>4, <3>5, <3>6 DEF KeyOK
    <3> QED BY <2>2, <2>3, <3>7
  <2>6. CASE InsertLoadedKey
    <3>1. /\ InsertKey("loader") /\ newKey' = newKey
          /\ gateway = "insert key" /\ gateway' = "assert key"
      BY <2>6 DEF InsertLoadedKey, Step
    <3>2. /\ call["loader"].key = newKey
          /\ idOf[Owner] \in DOMAIN accounts => call["loader"].id = idOf[Owner]
      BY <3>1 DEF LoaderOK, KeyOK, InsertKey, KeyAccepted
    <3>3. newKey \in DOMAIN keys' /\ keys'[newKey] = call["loader"].id /\ UNCHANGED accounts
      BY <3>1, <3>2 DEF InsertKey
    <3>4. KeyOK'
      BY <2>1, <2>4, <3>1, <3>2, <3>3 DEF KeyOK
    <3> QED BY <2>2, <2>3, <3>4
  <2> QED BY <1>9, <2>5, <2>6
<1>10. CASE SnapsLoaded
  <2>1. gateway' = "serving" /\ UNCHANGED <<accountVars, idOf>>
    BY <1>10 DEF SnapsLoaded, Step
  <2>2. StageOK' /\ KeyOK'
    BY <2>1 DEF StageOK, KeyOK, Dialling, LoadingKeys
  <2> QED BY <2>1, <2>2 DEF LoaderOK, LoaderKnows, accountVars
<1> QED
  BY <1>2, <1>3, <1>4, <1>5, <1>6, <1>7, <1>8, <1>9, <1>10
  DEF DeploymentNext, Load, Crash

-----------------------------------------------------------------------------
(* The chain of trust, and the theorems. *)

RootKeys == {i \in DOMAIN documents["account-key"] :
                documents["account-key"][i].body = RootKey}

\* What each step of the start of the assertion service is sure to find.
StartOK ==
    /\ assertion = "root key" /\ writing["start"] = "account-key" =>
          draft["start"].body = RootKey
    /\ assertion \in {"account", "root account", "serving"} => RootKeys # {}
    /\ assertion = "serving" => About("account", RootAccount) # {}

DeploymentInv == AInv /\ DocInv /\ LoaderOK /\ StartOK

LEMMA ChainOfTrust == DeploymentInv => TrustChainCloses
<1> SUFFICES ASSUME DeploymentInv, assertion = "serving"
             PROVE  /\ RootKeys # {} /\ About("account", RootAccount) # {}
                    /\ \A i \in RootKeys : documents["account-key"][i].subject = RootAccount
                    /\ \A i \in About("account", RootAccount) :
                          documents["account"][i].body = Root.display
  BY DEF TrustChainCloses, RootKeys
<1>1. RootKeys # {} /\ About("account", RootAccount) # {}
  BY DEF DeploymentInv, StartOK
<1>2. RootAccount \notin issued /\ RootKey \notin DOMAIN keys
  BY ConstantsFit DEF DeploymentInv, AInv, AccountsTypeOK
<1>3. ASSUME NEW i \in RootKeys PROVE documents["account-key"][i].subject = RootAccount
  BY <1>2 DEF RootKeys, DeploymentInv, DocInv, DocumentsSay, Says, NumberedKinds
<1>4. ASSUME NEW i \in About("account", RootAccount)
      PROVE  documents["account"][i].body = Root.display
  BY <1>2 DEF About, DeploymentInv, DocInv, DocumentsSay, Says, NumberedKinds
<1> QED BY <1>1, <1>3, <1>4

LEMMA Agreement == DeploymentInv => AssertionsAgree
<1> SUFFICES ASSUME DeploymentInv PROVE AssertionsAgree
  OBVIOUS
<1>1. DOMAIN accounts \subseteq issued /\ RootAccount \notin issued
  BY ConstantsFit DEF DeploymentInv, AInv, AccountsTypeOK
<1>2. \A i \in DOMAIN documents["account"] :
         Says("account", documents["account"][i].subject, documents["account"][i].body)
  BY DEF DeploymentInv, DocInv, DocumentsSay, NumberedKinds
<1>3. \A i \in DOMAIN documents["account-key"] :
         Says("account-key", documents["account-key"][i].subject, documents["account-key"][i].body)
  BY DEF DeploymentInv, DocInv, DocumentsSay, NumberedKinds
<1> QED BY <1>1, <1>2, <1>3 DEF AssertionsAgree, Says

LEMMA TypesFollow == DeploymentInv => DeploymentTypeOK
BY DEF DeploymentInv, AInv, DocInv, LoaderOK, RestTypeOK, DeploymentTypeOK

\* Documents stay where they are.
LEMMA DocumentsStay ==
  ASSUME DocInv, DocumentStep, NEW kind \in NumberedKinds
  PROVE  \A i \in DOMAIN documents[kind] :
            i \in DOMAIN documents'[kind] /\ documents'[kind][i] = documents[kind][i]
<1>1. ASSUME NEW w \in Writers, NEW k \in NumberedKinds, Insert(w, k)
      PROVE  \A i \in DOMAIN documents[kind] :
                i \in DOMAIN documents'[kind] /\ documents'[kind][i] = documents[kind][i]
  <2>1. CASE k = kind
    BY <1>1, <2>1, InsertedDocuments DEF DocInv
  <2>2. CASE k # kind
    BY <1>1, <2>2, InsertedDocuments DEF DocInv
  <2> QED BY <2>1, <2>2
<1>2. CASE UNCHANGED documents
  BY <1>2
<1> QED
  BY <1>1, <1>2
  DEF DocumentStep, LookUpLatest, AddSnapBuildAssertion, AbandonWrite, ForgetWrites, assertionVars

LEMMA StartStep ==
  ASSUME DeploymentInv, DocInv', DeploymentNext
  PROVE  StartOK'
<1>0. DocInv /\ DocumentStep
  BY StepIsStatements DEF DeploymentInv
<1>1. /\ RootKeys # {} => RootKeys' # {}
      /\ About("account", RootAccount) # {} => About("account", RootAccount)' # {}
  <2>1. RootKeys \subseteq RootKeys'
    BY <1>0, DocumentsStay DEF RootKeys, NumberedKinds
  <2>2. About("account", RootAccount) \subseteq About("account", RootAccount)'
    BY <1>0, DocumentsStay DEF About, NumberedKinds
  <2> QED BY <2>1, <2>2
<1>2. CASE /\ UNCHANGED assertion
           /\ UNCHANGED <<writing["start"], draft["start"]>> \/ writing'["start"] = "idle"
  BY <1>1, <1>2 DEF DeploymentInv, StartOK
<1>3. CASE LookUpRootKey
  <2>1. assertion' = "root key" /\ LookUpLatest("start", "account-key", RootAccount, RootKey)
    BY <1>3 DEF LookUpRootKey, AddAccountKeyAssertion
  <2>2. draft'["start"].body = RootKey
    <3>1. PICK n \in NextNumbers("account-key", RootAccount) :
            draft' = [draft EXCEPT !["start"] =
                         [subject |-> RootAccount, revision |-> n, body |-> RootKey]]
      BY <2>1 DEF LookUpLatest
    <3> QED BY <1>0, <3>1, ConstantsFit DEF DocInv, AssertionsTypeOK
  <2> QED BY <2>1, <2>2 DEF StartOK
<1>4. CASE InsertRootKey
  <2>1. /\ assertion = "root key" /\ assertion' = "account" /\ Insert("start", "account-key")
        /\ writing["start"] = "account-key"
    BY <1>4 DEF InsertRootKey, InsertAccountKeyAssertion, Insert
  <2>2. draft["start"].body = RootKey
    BY <2>1 DEF DeploymentInv, StartOK
  <2>3. Len(documents["account-key"]) + 1 \in RootKeys'
    BY <1>0, <2>1, <2>2, InsertedDocuments, ConstantsFit DEF RootKeys, DocInv, NumberedKinds
  <2> QED BY <2>1, <2>3 DEF StartOK
<1>5. CASE LookUpRootAccount
  <2>1. assertion = "account" /\ assertion' = "root account"
    BY <1>5 DEF LookUpRootAccount
  <2> QED BY <1>1, <2>1 DEF DeploymentInv, StartOK
<1>6. CASE InsertRootAccount
  <2>1. /\ assertion = "root account" /\ assertion' = "serving" /\ Insert("start", "account")
        /\ writing["start"] = "account"
    BY <1>6 DEF InsertRootAccount, InsertAccountAssertion, Insert
  <2>2. draft["start"].subject = RootAccount
    BY <1>0, <2>1, ConstantsFit DEF DocInv, DraftOK, Allowed
  <2>3. Len(documents["account"]) + 1 \in About("account", RootAccount)'
    BY <1>0, <2>1, <2>2, InsertedDocuments, ConstantsFit DEF About, DocInv, NumberedKinds
  <2> QED BY <1>1, <2>1, <2>3 DEF DeploymentInv, StartOK
<1>7. CASE CrashAssertion
  BY <1>7 DEF CrashAssertion, StartOK
<1>8. ASSUME NEW w \in Writers, w # "start",
             \/ \E k \in NumberedKinds : \E s, b : LookUpLatest(w, k, s, b)
             \/ \E k \in NumberedKinds : Insert(w, k)
             \/ AbandonWrite(w)
      PROVE  UNCHANGED <<writing["start"], draft["start"]>>
  BY <1>0, <1>8, ConstantsFit
  DEF LookUpLatest, Insert, AbandonWrite, EndWrite, DocInv, AssertionsTypeOK
<1>9. CASE SignForPushes
  <2>1. UNCHANGED assertion
    BY <1>9 DEF SignForPushes, services
  <2>2. UNCHANGED <<writing["start"], draft["start"]>>
    BY <1>8, <1>9, ConstantsFit
    DEF SignForPushes, AddSnapDeclarationAssertion, InsertSnapDeclarationAssertion,
        AddSnapBuildAssertion, NumberedKinds
  <2> QED BY <1>2, <2>1, <2>2
<1>10. CASE LookUpLoadedAccount \/ InsertLoadedAccount \/ LookUpLoadedKey \/ InsertLoadedKeyAssertion
  <2>1. UNCHANGED assertion
    BY <1>10 DEF LookUpLoadedAccount, InsertLoadedAccount, LookUpLoadedKey,
       InsertLoadedKeyAssertion, services
  <2>2. UNCHANGED <<writing["start"], draft["start"]>>
    BY <1>8, <1>10, ConstantsFit
    DEF LookUpLoadedAccount, InsertLoadedAccount, LookUpLoadedKey, InsertLoadedKeyAssertion,
        AddAccountAssertion, InsertAccountAssertion, AddAccountKeyAssertion,
        InsertAccountKeyAssertion, NumberedKinds
  <2> QED BY <1>2, <2>1, <2>2
<1>11. CASE FailLoad \/ CrashGateway
  <2>1. UNCHANGED assertion
    BY <1>11 DEF FailLoad, CrashGateway, EndGateway, services
  <2>2. UNCHANGED <<writing["start"], draft["start"]>>
    BY <1>8, <1>11, ConstantsFit DEF FailLoad, CrashGateway, EndGateway
  <2> QED BY <1>2, <2>1, <2>2
<1>12. CASE StartAccount \/ ServeAccounts \/ StartStore \/ GatewayStep \/ LoadAccount
            \/ FindLoadedOwner \/ InsertLoadedKey \/ SnapsLoaded \/ CrashAccount \/ CrashStore
  <2>1. UNCHANGED <<assertion, assertionVars>>
    BY <1>12
    DEF StartAccount, ServeAccounts, StartStore, MakeBucket, GatewayStep, StartGateway,
        DialServices, Dial, Attempt, LoadAccount, FindLoadedOwner, InsertLoadedKey, SnapsLoaded,
        CrashAccount, CrashStore, services
  <2> QED BY <1>2, <2>1 DEF assertionVars
<1> QED
  BY <1>3, <1>4, <1>5, <1>6, <1>7, <1>9, <1>10, <1>11, <1>12
  DEF DeploymentNext, StartAssertion, Load, Crash

LEMMA DeploymentInitially == DeploymentInit => DeploymentInv
<1> SUFFICES ASSUME DeploymentInit PROVE DeploymentInv
  OBVIOUS
<1>1. AInv /\ DocInv
  BY AInvInitially, DocInvInitially DEF DeploymentInit
<1>2. 0 \in 0..MaxAttempts-1 /\ 0 \in 0..Len(TestAccounts) + Len(TestKeys) /\ 0 \in 0..MaxCrashes
  BY Bounds
<1>3. idOf = << >> /\ idOf \in Seq(AccountIds) /\ DOMAIN idOf = {}
  BY DEF DeploymentInit
<1>4. RestTypeOK
  BY <1>2, <1>3, NoKeyIsKey DEF DeploymentInit, RestTypeOK
<1>5. StageOK /\ LoaderKnows /\ KeyOK
  BY <1>3 DEF DeploymentInit, StageOK, LoaderKnows, KeyOK, LoadingKeys
<1>6. StartOK
  BY DEF DeploymentInit, StartOK
<1> QED BY <1>1, <1>4, <1>5, <1>6 DEF DeploymentInv, LoaderOK

LEMMA DeploymentStep ==
  ASSUME DeploymentInv, DeploymentNext
  PROVE  DeploymentInv'
<1>1. AInv /\ DocInv /\ LoaderOK
  BY DEF DeploymentInv
<1>2. AccountStep /\ DocumentStep
  BY <1>1, StepIsStatements
<1>3. AInv' /\ AccountsKeep
  BY <1>1, <1>2, AInvStep
<1>4. DocInv'
  BY <1>1, <1>2, <1>3, DocInvStep
<1>5. LoaderOK'
  BY <1>1, <1>3, RestTypeStep, LoaderStep DEF LoaderOK
<1>6. StartOK'
  BY <1>4, StartStep
<1> QED BY <1>3, <1>4, <1>5, <1>6 DEF DeploymentInv

LEMMA DeploymentStutter ==
  ASSUME DeploymentInv, UNCHANGED deploymentVars
  PROVE  DeploymentInv'
<1> USE DEF deploymentVars, services, gatewayVars
<1>1. AInv /\ DocInv /\ LoaderOK /\ StartOK
  BY DEF DeploymentInv
<1>2. AInv' /\ AccountsKeep
  BY <1>1, AInvStep DEF AccountStep
<1>3. DocInv'
  BY <1>1, <1>2, DocInvStep DEF DocumentStep
<1>4. RestTypeOK'
  BY <1>1 DEF LoaderOK, RestTypeOK
<1>5. StageOK' /\ LoaderKnows' /\ KeyOK'
  BY <1>1, <1>2, LoaderUndisturbed DEF accountVars
<1>6. StartOK'
  BY <1>1 DEF StartOK, RootKeys, About, assertionVars
<1> QED BY <1>2, <1>3, <1>4, <1>5, <1>6 DEF DeploymentInv, LoaderOK

LEMMA DeploymentInvariant == DeploymentSpec => []DeploymentInv
<1>1. DeploymentInv /\ [DeploymentNext]_deploymentVars => DeploymentInv'
  BY DeploymentStep, DeploymentStutter
<1> QED BY <1>1, DeploymentInitially, PTL DEF DeploymentSpec

\* The type invariant: what each process holds fits its step, and the loader
\* never goes beyond the end of its file.
THEOREM DeploymentTypeCorrect == DeploymentSpec => []DeploymentTypeOK
BY DeploymentInvariant, TypesFollow, PTL

\* Assertions are numbered in order, whatever stops between the look-up of the
\* last number and the insertion: no number is left out and, for what the start
\* and the loader assert, none is used twice.
THEOREM AssertionsAreNumbered == DeploymentSpec => []NumberedInOrder
<1>1. DeploymentInv => NumberedInOrder
  BY DEF DeploymentInv, DocInv
<1> QED BY <1>1, DeploymentInvariant, PTL

\* Signed documents agree with the tables of accounts and keys, although these
\* are two databases that no transaction spans, and clients write one of them.
THEOREM SignedIsTrue == DeploymentSpec => []AssertionsAgree
BY DeploymentInvariant, Agreement, PTL

\* While the assertion service serves, every document leads to the root account.
THEOREM ServingIsTrusted == DeploymentSpec => []TrustChainCloses
BY DeploymentInvariant, ChainOfTrust, PTL
=============================================================================
