---------------------------- MODULE MCDeployment ----------------------------
(* A small instance of Deployment, with its store and its readers, for TLC. *)
EXTENDS Readers, TLC

CONSTANTS a1, a2, a3, k1, k2, root, rootKey, snapA, snapB, snapC, client, w1, w2,
          f1, f2, c1, c2

MCDisplayNames == {"kebeng", "alice"}
MCUsernames == {"kebeng", "alice"}
MCEmails == {"kebeng@", "alice@"}
Person(name, email) == [display |-> name, username |-> name, email |-> email]
MCRoot == Person("kebeng", "kebeng@")
MCTestAccounts == <<Person("alice", "alice@")>>
MCTestKeys == <<1>>
MCSubjects == AccountIds \cup Snaps \cup {RootAccount}
MCBodies == Keys \cup {RootKey} \cup DisplayNames \cup Snaps
MCWriters == {"start", "loader"} \cup Pushing
MCCallers == {"loader", client}

MCDigest == (f1 :> c1) @@ (f2 :> c2)
MCTestSnaps == <<[snap |-> snapA, owner |-> 1, digest |-> c1],
                 [snap |-> snapB, owner |-> 1, digest |-> c2]>>

(***************************************************************************)
(* Clients write accounts, pushes declarations, and neither reads what the *)
(* others write.  In a behaviour of the instance pushes sign alone beside  *)
(* starts of the assertion service, and the gateway is in test mode or     *)
(* not.  In test mode clients call either while the loader loads accounts, *)
(* which then loads no snaps, or once the gateway serves; one page,        *)
(* installation or registration at a time is in hand, and snaps are only   *)
(* installed in test mode.  Processes stop and start at any moment before  *)
(* a client has called in earnest.                                         *)
(***************************************************************************)
Declared == documents["snap-declaration"] # << >> \/ builds # {}
            \/ \E w \in Pushing : writing[w] # "idle"
Alone == account = "down" /\ store = "down" /\ gateway = "down" /\ ~testMode
         /\ builds \subseteq {snapA}
         /\ \A i \in DOMAIN documents["snap-declaration"] :
                documents["snap-declaration"][i].subject = snapA
         /\ \A w \in Pushing : writing[w] = "idle" \/ draft[w].subject = snapA
Ready == account = "serving" /\ store = "serving" /\ assertion = "serving"
Calm == Ready /\ testMode /\ crashes = 0
InHand == {<<x, y>> \in {<<"page", page.step>>, <<"install", install.step>>} : y # "idle"}
Untouched == issued \subseteq {a1, a2} /\ DOMAIN accounts = issued /\ Cardinality(DOMAIN keys) <= 1
             /\ callPc[client] = "idle" /\ snapC \notin DOMAIN entries
             /\ \A i \in issued : accounts[i].username = accounts[i].display

MCNext ==
    /\ ReadersNext
    /\ issued' \in {{}, {a1}, {a1, a2}, {a1, a2, a3}}     \* one order of the ids stands for all
    /\ Declared' => Alone' \/ testMode
    /\ testMode => /\ writing'[w2] = "idle" /\ builds' = {}
                   /\ writing'[w1] # writing[w1] =>
                          snapStep' # snapStep \/ assertion' # assertion
    /\ (callPc[client] # "idle" \/ callPc'[client] # "idle") => Calm
    /\ (accounts' # accounts /\ account' = account /\ gateway' = gateway) => Calm
    /\ callPc'[client] # callPc[client] => gateway \in Loading \cup {"serving"}
    /\ (gateway' = "load snaps" /\ gateway # "load snaps") => Untouched'
    /\ (accounts' # accounts \/ callPc' # callPc) => gateway # "load snaps"
    /\ (gateway = "serving" /\ testMode /\ account' = account) => issued' = issued
    /\ (crashes' # crashes /\ testMode) => Untouched /\ page = NoPage
    /\ (page # NoPage \/ page' # NoPage \/ publisher \cup publisher' # {}) => Calm
    /\ install' # install => testMode /\ (Untouched \/ Calm)
    /\ Cardinality(InHand') + Cardinality(publisher') <= 1

MCSpec == ReadersInit /\ [][MCNext]_readersVars /\ WF_deploymentVars(GatewayStep)
=============================================================================
