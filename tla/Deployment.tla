----------------------------- MODULE Deployment -----------------------------
(***************************************************************************)
(* The services as docker-compose runs them: each start of the account,    *)
(* store and assertion services and of the gateway, which connects to the  *)
(* three and, in test mode, loads accounts and keys through them.  The     *)
(* databases outlive every process; a process may stop at any moment and   *)
(* is then started again.                                                  *)
(***************************************************************************)
EXTENDS Accounts, Assertions

CONSTANTS
    RootAccount,    \* cfg.RootAccountID of the assertion service
    RootKey,        \* cfg.RootKey, read from a file at each start
    Root,           \* the row of the root account, hard-coded in main
    TestAccounts,   \* rows that the test data has, in the order of the file
    TestKeys,       \* emails of the accounts that get a key, in that order
    Snaps,          \* snaps that get declarations
    Pushing,        \* pushes that sign declarations
    MaxAttempts,    \* maxDialAttempts of the clients
    MaxCrashes      \* bound on the processes that stop

VARIABLES
    account,        \* account service: "down" or "serving"
    store,          \* store service: "down", "unscanned" (to be made), "serving"
    buckets,        \* buckets that MinIO has
    assertion,      \* assertion service: "down", the step of main, "serving"
    gateway,        \* gateway: "down", the step of main, "serving"
    attempts,       \* dial attempts of the client being made
    testMode,       \* cfg.TestMode of the gateway: it never changes
    loaded,         \* accounts, then keys, the loader has dealt with
    idOf,           \* accountIDMap of the loader: place in the file -> id
    newKey,         \* the key the loader has generated last
    crashes

services == <<account, store, buckets, assertion>>
gatewayVars == <<gateway, attempts, testMode, loaded, idOf, newKey>>
deploymentVars == <<accountVars, assertionVars, services, gatewayVars, crashes>>

ASSUME DeploymentAssumption ==
    /\ AccountIds \cup Snaps \cup {RootAccount} \subseteq Subjects
    /\ RootAccount \notin AccountIds \cup Snaps
    /\ AccountIds \cap Snaps = {}
    /\ Keys \cup {RootKey} \cup DisplayNames \cup Snaps \subseteq Bodies
    /\ RootKey \notin Keys
    /\ Root \in Row
    /\ TestAccounts \in Seq(Row) /\ TestKeys \in Seq(DOMAIN TestAccounts)
    /\ TestAccounts # << >>
    /\ Writers = {"start", "loader"} \cup Pushing
    /\ {"start", "loader"} \cap Pushing = {}
    /\ "loader" \in Callers
    /\ MaxAttempts \in Nat \ {0} /\ MaxCrashes \in Nat

NoKey == CHOOSE k \in Keys : TRUE

DeploymentInit ==
    /\ AccountsInit /\ AssertionsInit
    /\ account = "down" /\ assertion = "down"
    /\ store = "down" /\ buckets = {}
    /\ gateway = "down" /\ attempts = 0 /\ testMode \in BOOLEAN
    /\ loaded = 0 /\ idOf = << >> /\ newKey = NoKey
    /\ crashes = 0

-----------------------------------------------------------------------------
(* The account service *)

\* main adds the root account before it serves, at every start; when the row
\* is there already, the start fails and the process ends.
StartAccount ==
    /\ account = "down"
    /\ \E id \in AccountIds : AddAccount(id, Root)
    /\ account' = "serving"
    /\ UNCHANGED <<assertionVars, store, buckets, assertion, gatewayVars, crashes>>

\* The calls of clients other than the loader.
ServeAccounts ==
    /\ account = "serving"
    /\ \E c \in Callers \ {"loader"} : ClientCall(c)
    /\ UNCHANGED <<assertionVars, services, gatewayVars, crashes>>

-----------------------------------------------------------------------------
(* The store service *)

\* MakeBucket is refused when there is such a bucket.
MakeBucket(b, from, to) ==
    /\ store = from /\ store' = to
    /\ b \notin buckets /\ buckets' = buckets \cup {b}
    /\ UNCHANGED <<accountVars, assertionVars, account, assertion, gatewayVars, crashes>>

StartStore ==
    \/ MakeBucket("snaps", "down", "unscanned")
    \/ MakeBucket("unscanned", "unscanned", "serving")

-----------------------------------------------------------------------------
(* The assertion service *)

\* Faulty variant: the server is started before the root account is asserted.
InsertRootKeyServing ==
    /\ assertion = "root key" /\ InsertAccountKeyAssertion("start")
    /\ assertion' = "serving"
    /\ UNCHANGED <<accountVars, account, store, buckets, gatewayVars, crashes>>

\* main has the service assert the root key, then the root account, each time
\* with a new number; then it serves.
LookUpRootKey ==
    /\ assertion = "down" /\ assertion' = "root key"
    /\ AddAccountKeyAssertion("start", RootAccount, RootKey)
    /\ UNCHANGED <<accountVars, account, store, buckets, gatewayVars, crashes>>

InsertRootKey ==
    /\ assertion = "root key" /\ assertion' = "account"
    /\ InsertAccountKeyAssertion("start")
    /\ UNCHANGED <<accountVars, account, store, buckets, gatewayVars, crashes>>

LookUpRootAccount ==
    /\ assertion = "account" /\ assertion' = "root account"
    /\ AddAccountAssertion("start", RootAccount, Root.display)
    /\ UNCHANGED <<accountVars, account, store, buckets, gatewayVars, crashes>>

InsertRootAccount ==
    /\ assertion = "root account" /\ assertion' = "serving"
    /\ InsertAccountAssertion("start")
    /\ UNCHANGED <<accountVars, account, store, buckets, gatewayVars, crashes>>

StartAssertion == LookUpRootKey \/ InsertRootKey \/ LookUpRootAccount \/ InsertRootAccount

\* Pushes have declarations signed, and others builds.
SignForPushes ==
    /\ assertion = "serving"
    /\ \/ \E w \in Pushing :
             \/ \E s \in Snaps : AddSnapDeclarationAssertion(w, s, s)
             \/ InsertSnapDeclarationAssertion(w)
             \/ writing[w] # "idle" /\ AbandonWrite(w)
       \/ \E s \in Snaps : AddSnapBuildAssertion(s)
    /\ UNCHANGED <<accountVars, services, gatewayVars, crashes>>

-----------------------------------------------------------------------------
(* The gateway *)

StartGateway ==
    /\ gateway = "down" /\ gateway' = "dial account"
    /\ attempts' = 0
    /\ UNCHANGED <<accountVars, assertionVars, services, testMode, loaded, idOf, newKey, crashes>>

Attempt(from, to, n) ==
    /\ gateway = from /\ gateway' = to
    /\ attempts' = n
    /\ UNCHANGED <<accountVars, assertionVars, services, testMode, loaded, idOf, newKey, crashes>>

\* Faulty variant: the attempts are counted over the three clients together.
DialCounting(status, from, to) ==
    \/ status = "serving" /\ attempts + 1 < MaxAttempts /\ Attempt(from, to, attempts + 1)
    \/ status # "serving" /\ attempts + 1 < MaxAttempts /\ Attempt(from, from, attempts + 1)
    \/ attempts + 1 = MaxAttempts /\ Attempt(from, "down", 0)

\* Faulty variant: one attempt too many.
DialOnceMore(status, from, to) ==
    \/ status = "serving" /\ Attempt(from, to, 0)
    \/ status # "serving" /\ attempts < MaxAttempts /\ Attempt(from, from, attempts + 1)
    \/ status # "serving" /\ attempts = MaxAttempts /\ Attempt(from, "down", 0)

\* One attempt of the loop in New...Client: a health check.  After the last one
\* that fails the gateway ends.
Dial(status, from, to) ==
    \/ status = "serving" /\ Attempt(from, to, 0)
    \/ status # "serving" /\ attempts + 1 < MaxAttempts /\ Attempt(from, from, attempts + 1)
    \/ status # "serving" /\ attempts + 1 = MaxAttempts /\ Attempt(from, "down", 0)

DialServices ==
    \/ Dial(account, "dial account", "dial store")
    \/ Dial(store, "dial store", "dial assertion")
    \/ Dial(assertion, "dial assertion", IF testMode THEN "add account" ELSE "serving")

-----------------------------------------------------------------------------
(* The loader of test data, which the gateway runs before it serves *)

Step(from, to) == gateway = from /\ gateway' = to

\* The step after the account or key that is done.
Following(n) ==
    IF n < Len(TestAccounts) THEN "add account"
    ELSE IF n < Len(TestAccounts) + Len(TestKeys) THEN "add key" ELSE "load snaps"

Position == loaded + 1
Owner == TestKeys[Position - Len(TestAccounts)]

\* loadInAccountDataInDB, first loop: an account, then its assertion.
LoadAccount ==
    /\ Step("add account", "assert account") /\ account = "serving"
    /\ \E id \in AccountIds : /\ AddAccount(id, TestAccounts[Position])
                              /\ idOf' = Append(idOf, id)
    /\ UNCHANGED <<assertionVars, services, attempts, testMode, loaded, newKey, crashes>>

LookUpLoadedAccount ==
    /\ Step("assert account", "account asserted") /\ assertion = "serving"
    /\ AddAccountAssertion("loader", idOf[Position], TestAccounts[Position].display)
    /\ UNCHANGED <<accountVars, services, attempts, testMode, loaded, idOf, newKey, crashes>>

InsertLoadedAccount ==
    /\ Step("account asserted", Following(Position)) /\ assertion = "serving"
    /\ InsertAccountAssertion("loader")
    /\ loaded' = Position
    /\ UNCHANGED <<accountVars, services, attempts, testMode, idOf, newKey, crashes>>

\* Second loop: a key, just generated, then its assertion.  The account service
\* is given the email of the owner, the assertion service the id.
FindLoadedOwner ==
    /\ Step("add key", "insert key") /\ account = "serving"
    /\ \E key \in Keys \ DOMAIN keys : /\ FindOwner("loader", TestAccounts[Owner].email, key)
                                       /\ newKey' = key
    /\ UNCHANGED <<assertionVars, services, attempts, testMode, loaded, idOf, crashes>>

InsertLoadedKey ==
    /\ Step("insert key", "assert key") /\ account = "serving"
    /\ InsertKey("loader")
    /\ UNCHANGED <<assertionVars, services, attempts, testMode, loaded, idOf, newKey, crashes>>

LookUpLoadedKey ==
    /\ Step("assert key", "key asserted") /\ assertion = "serving"
    /\ AddAccountKeyAssertion("loader", idOf[Owner], newKey)
    /\ UNCHANGED <<accountVars, services, attempts, testMode, loaded, idOf, newKey, crashes>>

InsertLoadedKeyAssertion ==
    /\ Step("key asserted", Following(Position)) /\ assertion = "serving"
    /\ InsertAccountKeyAssertion("loader")
    /\ loaded' = Position
    /\ UNCHANGED <<accountVars, services, attempts, testMode, idOf, newKey, crashes>>

\* loadInStoreDataInDB has done without an error.  What it calls, and how far it
\* is, Storefront adds.
SnapsLoaded ==
    /\ Step("load snaps", "serving")
    /\ UNCHANGED <<accountVars, assertionVars, services, attempts, testMode, loaded, idOf,
                   newKey, crashes>>

Load ==
    \/ LoadAccount \/ LookUpLoadedAccount \/ InsertLoadedAccount
    \/ FindLoadedOwner \/ InsertLoadedKey \/ LookUpLoadedKey \/ InsertLoadedKeyAssertion
    \/ SnapsLoaded

Loading == {"add account", "assert account", "account asserted", "add key",
            "insert key", "assert key", "key asserted", "load snaps"}

\* The gateway ends, and the calls of its loader with it.
EndGateway ==
    /\ gateway' = "down" /\ attempts' = 0
    /\ loaded' = 0 /\ idOf' = << >> /\ newKey' = NoKey
    /\ AbandonCall("loader") /\ AbandonWrite("loader")
    /\ UNCHANGED <<services, testMode>>

\* A step of the loader fails, be it that the account was loaded by an earlier
\* start: the gateway ends, and nothing is undone.
FailLoad == gateway \in Loading /\ EndGateway /\ UNCHANGED crashes

-----------------------------------------------------------------------------
(* Processes that stop *)

CrashGateway == gateway # "down" /\ EndGateway

CrashAccount ==
    /\ account = "serving" /\ account' = "down"
    /\ callPc' = [c \in Callers |-> "idle"] /\ call' = [c \in Callers |-> NoCall]
    /\ UNCHANGED <<accounts, issued, keys, assertionVars, store, buckets,
                   assertion, gatewayVars>>

CrashStore ==
    /\ store # "down" /\ store' = "down"
    /\ UNCHANGED <<accountVars, assertionVars, account, buckets, assertion, gatewayVars>>

\* Also what a start does that cannot reach the database.
CrashAssertion ==
    /\ assertion # "down" /\ assertion' = "down"
    /\ writing' = [w \in Writers |-> "idle"] /\ draft' = [w \in Writers |-> NoDocument]
    /\ UNCHANGED <<accountVars, documents, builds, account, store, buckets, gatewayVars>>

Crash ==
    /\ crashes < MaxCrashes /\ crashes' = crashes + 1
    /\ CrashGateway \/ CrashAccount \/ CrashStore \/ CrashAssertion

-----------------------------------------------------------------------------
GatewayStep == StartGateway \/ DialServices

DeploymentNext ==
    \/ StartAccount \/ ServeAccounts \/ StartStore
    \/ StartAssertion \/ SignForPushes
    \/ GatewayStep \/ Load \/ FailLoad
    \/ Crash

DeploymentSpec == DeploymentInit /\ [][DeploymentNext]_deploymentVars

\* Docker starts a gateway that has ended again (restart: always), and a loop
\* of attempts goes on.
FairDeploymentSpec == DeploymentSpec /\ WF_deploymentVars(GatewayStep)

-----------------------------------------------------------------------------
DeploymentTypeOK ==
    /\ AccountsTypeOK /\ AssertionsTypeOK
    /\ account \in {"down", "serving"}
    /\ store \in {"down", "unscanned", "serving"}
    /\ buckets \subseteq {"snaps", "unscanned"}
    /\ assertion \in {"down", "root key", "account", "root account", "serving"}
    /\ gateway \in Loading \cup {"down", "dial account", "dial store", "dial assertion", "serving"}
    /\ attempts \in 0..MaxAttempts-1
    /\ testMode \in BOOLEAN
    /\ loaded \in 0..Len(TestAccounts) + Len(TestKeys)
    /\ idOf \in Seq(AccountIds)
    /\ newKey \in Keys
    /\ crashes \in 0..MaxCrashes

\* Whatever stops and starts again between a look-up and an insertion, the
\* assertions about an account or a key are numbered 1, 2, 3 and so on, each
\* number once.  Of the declarations of a snap, which several pushes make at
\* the same time, only the first half is true: some have the same number.
NumberedInOrder ==
    /\ \A kind \in NumberedKinds : NoGaps(kind)
    /\ \A kind \in {"account", "account-key"} : NoDuplicates(kind)

\* What the assertion service has signed agrees with the tables of the account
\* service for as long as the account exists: its display name is the asserted
\* one, and a key asserted to be its own belongs to it there.
AssertionsAgree ==
    /\ \A i \in DOMAIN documents["account"] :
          LET doc == documents["account"][i]
          IN  doc.subject \in DOMAIN accounts => accounts[doc.subject].display = doc.body
    /\ \A i \in DOMAIN documents["account-key"] :
          LET doc == documents["account-key"][i]
          IN  doc.body # RootKey =>
                 /\ doc.body \in DOMAIN keys
                 /\ doc.subject \in DOMAIN accounts => keys[doc.body] = doc.subject

\* All that the assertion service serves is signed with the root key.  While it
\* serves, whichever documents its unsorted look-ups return, snapd comes from
\* this key to the root account, and from there to a name it trusts.
TrustChainCloses ==
    assertion = "serving" =>
        LET rootKeys == {i \in DOMAIN documents["account-key"] :
                            documents["account-key"][i].body = RootKey}
            rootAccounts == About("account", RootAccount)
        IN  /\ rootKeys # {} /\ rootAccounts # {}
            /\ \A i \in rootKeys : documents["account-key"][i].subject = RootAccount
            /\ \A i \in rootAccounts : documents["account"][i].body = Root.display

\* When from some time on the three services serve, a gateway that has no test
\* data to load serves again and again, whatever attempts failed before.
GatewayServes ==
    (/\ []~testMode
     /\ <>[](account = "serving" /\ store = "serving" /\ assertion = "serving"))
        => []<>(gateway = "serving")
=============================================================================
