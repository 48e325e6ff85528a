------------------------------ MODULE Accounts ------------------------------
(***************************************************************************)
(* The account service: the tables "account" and "key" of PostgreSQL with  *)
(* their constraints, and the calls that write them.  Each statement is a  *)
(* step of its own: AddKey and PatchAccountByEmail read an account in one  *)
(* and write in another, without a transaction.                            *)
(***************************************************************************)
EXTENDS Naturals

CONSTANTS
    AccountIds,     \* UUIDs that uuid_generate_v4 may give an account
    DisplayNames,
    Usernames,
    Emails,
    Keys,           \* public keys, identified with their SHA3-384
    Callers         \* calls that the service can have in hand at one time

VARIABLES
    accounts,       \* table "account": id -> row, for the ids that have one
    issued,         \* ids that were ever given out
    keys,           \* table "key": key -> id of its owner
    callPc,         \* "idle", or the statement the call is about to execute
    call            \* what the call holds: the account it read, what to write

accountVars == <<accounts, issued, keys, callPc, call>>

Row == [display : DisplayNames, username : Usernames, email : Emails]

Call == [id : AccountIds, row : Row, key : Keys]
NoCall == CHOOSE x \in Call : TRUE

ASSUME AccountsAssumption ==
    /\ AccountIds # {} /\ DisplayNames # {} /\ Usernames # {} /\ Emails # {}
    /\ Keys # {}

\* UNIQUE (display_name), (username) and (email): may a row of this content be
\* in the table beside those of the other accounts?
Unique(row, others) ==
    \A i \in others : /\ accounts[i].display # row.display
                      /\ accounts[i].username # row.username
                      /\ accounts[i].email # row.email

WithEmail(email) == {i \in DOMAIN accounts : accounts[i].email = email}

\* FOREIGN KEY (account_id) REFERENCES account: accounts some key belongs to.
Owners == {keys[k] : k \in DOMAIN keys}

AccountsInit ==
    /\ accounts = << >> /\ issued = {} /\ keys = << >>
    /\ callPc = [c \in Callers |-> "idle"]
    /\ call = [c \in Callers |-> NoCall]

EndCall(c) ==
    /\ callPc' = [callPc EXCEPT ![c] = "idle"]
    /\ call' = [call EXCEPT ![c] = NoCall]

\* AddAccount: one INSERT.  The id is always a new one: the statement leaves
\* out the id of the account it is given.
AddAccount(id, row) ==
    /\ id \notin issued
    /\ Unique(row, DOMAIN accounts)
    /\ accounts' = [i \in DOMAIN accounts \cup {id} |-> IF i = id THEN row ELSE accounts[i]]
    /\ issued' = issued \cup {id}
    /\ UNCHANGED <<keys, callPc, call>>

\* Faulty variant: the password hash is kept, so that the row is accepted.
UpdateAccountAccepted(id, row) ==
    /\ id \in DOMAIN accounts
    /\ Unique(row, DOMAIN accounts \ {id})
    /\ accounts' = [accounts EXCEPT ![id] = row]
    /\ UNCHANGED <<issued, keys, callPc, call>>

\* UpdateAccount: the UPDATE sets password_hash to '', which a CHECK of the
\* table refuses, or finds no row.
UpdateAccount(id, row) ==
    /\ id \in AccountIds /\ row \in Row
    /\ UNCHANGED accountVars

\* DeleteAccount: the foreign keys protect an account that has a key; deleting
\* an account that does not exist is a success.
DeleteAccount(id) ==
    /\ id \notin Owners
    /\ accounts' = [i \in DOMAIN accounts \ {id} |-> accounts[i]]
    /\ UNCHANGED <<issued, keys, callPc, call>>

\* AddKeyToAccountByEmail, first statement: whose key will it be?
FindOwner(c, email, key) ==
    /\ callPc[c] = "idle"
    /\ \E id \in WithEmail(email) :
          call' = [call EXCEPT ![c] = [NoCall EXCEPT !.id = id, !.key = key]]
    /\ callPc' = [callPc EXCEPT ![c] = "insert key"]
    /\ UNCHANGED <<accounts, issued, keys>>

\* May the key of this call be inserted: a key that is not in the table yet, of
\* an account that is still there?
KeyAccepted(c) ==
    /\ callPc[c] = "insert key"
    /\ call[c].key \notin DOMAIN keys
    /\ call[c].id \in DOMAIN accounts

\* AddKeyToAccountByEmail, second statement.
InsertKey(c) ==
    /\ KeyAccepted(c)
    /\ keys' = [k \in DOMAIN keys \cup {call[c].key} |->
                    IF k = call[c].key THEN call[c].id ELSE keys[k]]
    /\ EndCall(c)
    /\ UNCHANGED <<accounts, issued>>

\* PatchAccountByEmail reads the whole row and replaces the username in it.
ReadForPatch(c, email, username) ==
    /\ callPc[c] = "idle"
    /\ \E id \in WithEmail(email) :
          call' = [call EXCEPT ![c] = [NoCall EXCEPT !.id = id,
                      !.row = [accounts[id] EXCEPT !.username = username]]]
    /\ callPc' = [callPc EXCEPT ![c] = "write account"]
    /\ UNCHANGED <<accounts, issued, keys>>

\* UpdateAccount of the repository then writes the whole row, if the account is
\* still there and no other has the new username.
WritePatch(c) ==
    /\ callPc[c] = "write account"
    /\ call[c].id \in DOMAIN accounts
    /\ Unique(call[c].row, DOMAIN accounts \ {call[c].id})
    /\ accounts' = [accounts EXCEPT ![call[c].id] = call[c].row]
    /\ EndCall(c)
    /\ UNCHANGED <<issued, keys>>

\* A call that ends with an error: its statement is refused or fails, or the
\* service stops; nothing is undone.
AbandonCall(c) == EndCall(c) /\ UNCHANGED <<accounts, issued, keys>>

\* A statement of any one client: of the gateway, or of an operator.
ClientCall(c) ==
    \/ \E id \in AccountIds, row \in Row : AddAccount(id, row) \/ UpdateAccount(id, row)
    \/ \E id \in AccountIds : DeleteAccount(id)
    \/ \E email \in Emails, key \in Keys : FindOwner(c, email, key)
    \/ \E email \in Emails, username \in Usernames : ReadForPatch(c, email, username)
    \/ InsertKey(c)
    \/ WritePatch(c)
    \/ callPc[c] # "idle" /\ AbandonCall(c)

-----------------------------------------------------------------------------
AccountsTypeOK ==
    /\ issued \subseteq AccountIds
    /\ DOMAIN accounts \subseteq issued
    /\ \A i \in DOMAIN accounts : accounts[i] \in Row
    /\ accounts = [i \in DOMAIN accounts |-> accounts[i]]
    /\ DOMAIN keys \subseteq Keys
    /\ \A k \in DOMAIN keys : keys[k] \in AccountIds
    /\ callPc \in [Callers -> {"idle", "insert key", "write account"}]
    /\ call \in [Callers -> Call]

\* No two accounts share a display name, a username or an email, and every key
\* has an owner.
TablesOK ==
    /\ \A i, j \in DOMAIN accounts : i # j =>
          /\ accounts[i].display # accounts[j].display
          /\ accounts[i].username # accounts[j].username
          /\ accounts[i].email # accounts[j].email
    /\ Owners \subseteq DOMAIN accounts
=============================================================================
