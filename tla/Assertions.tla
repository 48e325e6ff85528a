----------------------------- MODULE Assertions -----------------------------
(***************************************************************************)
(* The assertion service: the collections of MongoDB and the calls that    *)
(* sign a document and store it.  An assertion about an account, a key or  *)
(* a snap is numbered with one more than the highest number there is: the  *)
(* look-up and the insertion are two statements, and the database does not *)
(* refuse a number that is taken.                                          *)
(***************************************************************************)
EXTENDS Naturals, Sequences

CONSTANTS
    Subjects,       \* ids of accounts and of snaps
    Bodies,         \* what a document says of its subject
    Writers,        \* calls that the service can have in hand at one time
    MaxDocuments    \* bound on the documents of a collection

VARIABLES
    documents,      \* numbered documents of each kind, in order of insertion
    builds,         \* snaps that have a snap-build document
    writing,        \* "idle", or the kind of document the call is making
    draft           \* the document of each call

assertionVars == <<documents, builds, writing, draft>>

NumberedKinds == {"account", "account-key", "snap-declaration"}

Document == [subject : Subjects, revision : Nat, body : Bodies]
NoDocument == [subject |-> CHOOSE s \in Subjects : TRUE, revision |-> 0,
               body |-> CHOOSE b \in Bodies : TRUE]

ASSUME AssertionsAssumption ==
    MaxDocuments \in Nat \ {0} /\ Subjects # {} /\ Bodies # {}

\* Places of the documents about a subject in the collection of a kind.
About(kind, s) == {i \in DOMAIN documents[kind] : documents[kind][i].subject = s}

\* Faulty variant: the look-up of the latest document has no sort.
NextNumbersUnsorted(kind, s) ==
    IF About(kind, s) = {} THEN {1}
    ELSE {documents[kind][i].revision + 1 : i \in About(kind, s)}

\* The number a call finds for its document: 1 when no document is found (the
\* error is taken back), or one more than that of a latest document.
NextNumbers(kind, s) ==
    IF About(kind, s) = {} THEN {1}
    ELSE {documents[kind][i].revision + 1 : i \in
             {i \in About(kind, s) : \A j \in About(kind, s) :
                  documents[kind][j].revision <= documents[kind][i].revision}}

AssertionsInit ==
    /\ documents = [k \in NumberedKinds |-> << >>]
    /\ builds = {}
    /\ writing = [w \in Writers |-> "idle"]
    /\ draft = [w \in Writers |-> NoDocument]

\* The first half of a call: GetLatest... of the repository.
LookUpLatest(w, kind, s, body) ==
    /\ writing[w] = "idle"
    /\ \E n \in NextNumbers(kind, s) :
          draft' = [draft EXCEPT ![w] = [subject |-> s, revision |-> n, body |-> body]]
    /\ writing' = [writing EXCEPT ![w] = kind]
    /\ UNCHANGED <<documents, builds>>

EndWrite(w) ==
    /\ writing' = [writing EXCEPT ![w] = "idle"]
    /\ draft' = [draft EXCEPT ![w] = NoDocument]

\* The second half: the document is signed with the root key and inserted.
Insert(w, kind) ==
    /\ writing[w] = kind
    /\ Len(documents[kind]) < MaxDocuments
    /\ documents' = [documents EXCEPT ![kind] = Append(@, draft[w])]
    /\ EndWrite(w)
    /\ UNCHANGED builds

\* AddAccountKeyAssertion: the body names the key.
AddAccountKeyAssertion(w, account, key) == LookUpLatest(w, "account-key", account, key)
InsertAccountKeyAssertion(w) == Insert(w, "account-key")

\* AddAccountAssertion: the body names the display name; it is "certified".
AddAccountAssertion(w, account, display) == LookUpLatest(w, "account", account, display)
InsertAccountAssertion(w) == Insert(w, "account")

\* AddSnapDeclarationAssertion.
AddSnapDeclarationAssertion(w, snap, name) == LookUpLatest(w, "snap-declaration", snap, name)
InsertSnapDeclarationAssertion(w) == Insert(w, "snap-declaration")

\* AddSnapBuildAssertion signs and inserts: its documents have no number.
AddSnapBuildAssertion(snap) ==
    /\ builds' = builds \cup {snap}
    /\ UNCHANGED <<documents, writing, draft>>

\* A call ends with an error: a key that cannot be decoded, a signature that
\* cannot be made, a database that does not answer, or the end of the service.
AbandonWrite(w) == EndWrite(w) /\ UNCHANGED <<documents, builds>>

-----------------------------------------------------------------------------
AssertionsTypeOK ==
    /\ documents \in [NumberedKinds -> Seq(Document)]
    /\ builds \subseteq Subjects
    /\ writing \in [Writers -> NumberedKinds \cup {"idle"}]
    /\ draft \in [Writers -> Document]

\* The documents of a kind about one subject are numbered 1, 2, 3 and so on
\* without a gap.
NoGaps(kind) ==
    \A i \in DOMAIN documents[kind] :
        /\ documents[kind][i].revision >= 1
        /\ documents[kind][i].revision > 1 =>
              \E j \in DOMAIN documents[kind] :
                  /\ documents[kind][j].subject = documents[kind][i].subject
                  /\ documents[kind][j].revision + 1 = documents[kind][i].revision

\* No two documents of a kind about one subject have the same number.
NoDuplicates(kind) ==
    \A i, j \in DOMAIN documents[kind] :
        /\ documents[kind][i].subject = documents[kind][j].subject
        /\ documents[kind][i].revision = documents[kind][j].revision
        => i = j
=============================================================================
