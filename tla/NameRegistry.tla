--------------------------- MODULE NameRegistry ---------------------------
(***************************************************************************)
(* What the store promises about snap names: a name is granted to one      *)
(* account at most, for ever, and the verdict on a request was true at a   *)
(* moment between the request and its answer.                              *)
(*                                                                         *)
(* This is the abstract specification; Registration implements it.         *)
(***************************************************************************)
EXTENDS Naturals

CONSTANTS
    Calls,      \* requests
    Names,      \* snap names
    Accounts    \* publishers

VARIABLES
    owner,      \* a function on the names granted so far
    asked,      \* asked[c]: the name, the account and whether it is a dry run
    verdict     \* verdict[c]

vars == <<owner, asked, verdict>>

Request == [name : Names, account : Accounts, dryRun : BOOLEAN]

Owned(c) == asked[c].name \in DOMAIN owner

Decide(c, from, to) ==
    /\ verdict[c] = from
    /\ verdict' = [verdict EXCEPT ![c] = to]
    /\ asked' = asked

Init ==
    /\ owner = << >>
    /\ asked \in [Calls -> Request]
    /\ verdict = [c \in Calls |-> "none"]

Ask(c, req) ==
    /\ verdict[c] = "none"
    /\ asked' = [asked EXCEPT ![c] = req]
    /\ verdict' = [verdict EXCEPT ![c] = "open"]
    /\ owner' = owner

\* The name is free, and becomes the account's.
Grant(c) ==
    /\ ~asked[c].dryRun /\ ~Owned(c)
    /\ Decide(c, "open", "granted")
    /\ owner' = [n \in DOMAIN owner \cup {asked[c].name} |->
                    IF n = asked[c].name THEN asked[c].account ELSE owner[n]]

Confirm(c) == Decide(c, "granted", "registered") /\ owner' = owner

Refuse(c) ==
    /\ ~asked[c].dryRun /\ Owned(c)
    /\ Decide(c, "open", "refused")
    /\ owner' = owner

\* A dry run only looks.
Look(c) ==
    /\ asked[c].dryRun
    /\ Decide(c, "open", IF Owned(c) THEN "taken" ELSE "free")
    /\ owner' = owner

\* The answer is an error.  A name that was granted stays granted.
Fail(c) ==
    /\ \E from \in {"open", "granted"} : Decide(c, from, "failed")
    /\ owner' = owner

Next ==
    \E c \in Calls :
        \/ \E req \in Request : Ask(c, req)
        \/ Grant(c) \/ Confirm(c) \/ Refuse(c) \/ Look(c) \/ Fail(c)

Spec == Init /\ [][Next]_vars
=============================================================================
