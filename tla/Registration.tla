--------------------------- MODULE Registration ---------------------------
(***************************************************************************)
(* How the store service registers the name of a snap.                     *)
(*                                                                         *)
(* RegisterSnapName makes seven calls to PostgreSQL, with no transaction:  *)
(* it looks the name up, inserts the entry, its track "latest" and the     *)
(* four channels of that track.  Each call is a step here, and the request *)
(* may fail at any of them.  The table "entry" has a UNIQUE name; the      *)
(* tables "track" and "channel" have no such constraint.                   *)
(***************************************************************************)
EXTENDS Naturals, Sequences, ErrorLists

CONSTANTS
    Calls,      \* calls of RegisterSnapName
    Names,      \* snap names
    Accounts    \* publishers

ASSUME RegistrationAssumption == Names # {} /\ Accounts # {}

VARIABLES
    entries,    \* table "entry": a function on names, to accounts
    tracks,     \* table "track": <<name, call that inserted the row>>
    channels,   \* table "channel": <<name, channel, call>>
    pc,
    request,    \* arguments of each call
    added,      \* how many channels a call has added
    errors      \* the error list of each call, and of its response

vars == <<entries, tracks, channels, pc, request, added, errors>>
tables == <<entries, tracks, channels>>

Request == [name : Names, account : Accounts, dryRun : BOOLEAN]

\* The names AddDefaultChannels adds, in order.
DefaultChannels == <<"stable", "candidate", "beta", "edge">>

ChannelNames == {DefaultChannels[i] : i \in 1..Len(DefaultChannels)}

NameOf(c) == request[c].name

Goto(c, from, to) == pc[c] = from /\ pc' = [pc EXCEPT ![c] = to]

Say(c, code) == errors' = [errors EXCEPT ![c] = Append(@, code)]

-----------------------------------------------------------------------------
Init ==
    /\ entries = << >> /\ tracks = {} /\ channels = {}
    /\ pc = [c \in Calls |-> "none"]
    /\ request = [c \in Calls |-> CHOOSE r \in Request : TRUE]
    /\ added = [c \in Calls |-> 0]
    /\ errors = [c \in Calls |-> << >>]

\* The gateway has found the account and calls the store.
Call(c, req) ==
    /\ Goto(c, "none", "check")
    /\ request' = [request EXCEPT ![c] = req]
    /\ UNCHANGED <<tables, added, errors>>

\* GetEntryByName finds the name: a dry run reports it, any other is refused.
NameFound(c) ==
    /\ NameOf(c) \in DOMAIN entries
    /\ \/ request[c].dryRun /\ Goto(c, "check", "taken") /\ UNCHANGED errors
       \/ /\ ~request[c].dryRun /\ Goto(c, "check", "refused")
          /\ Say(c, "already-registered")
    /\ UNCHANGED <<tables, request, added>>

\* Faulty variant: a dry run of a free name goes on like any other call.
NameNotFoundDryRun(c) ==
    /\ NameOf(c) \notin DOMAIN entries
    /\ Goto(c, "check", "insert")
    /\ Say(c, ConvertError("no rows"))
    /\ UNCHANGED <<tables, request, added>>

\* GetEntryByName does not find it, and adds that to the error list.  A dry
\* run ends there.
NameNotFound(c) ==
    /\ NameOf(c) \notin DOMAIN entries
    /\ Goto(c, "check", IF request[c].dryRun THEN "free" ELSE "insert")
    /\ Say(c, ConvertError("no rows"))
    /\ UNCHANGED <<tables, request, added>>

\* Faulty variant: the name is not UNIQUE, and the later row is found.
RegisterSnapTwice(c) ==
    /\ Goto(c, "insert", "track")
    /\ entries' = [n \in DOMAIN entries \cup {NameOf(c)} |->
                      IF n = NameOf(c) THEN request[c].account ELSE entries[n]]
    /\ UNCHANGED <<tracks, channels, request, added, errors>>

\* RegisterSnap inserts the entry, unless the name is there by now.
RegisterSnap(c) ==
    \/ /\ NameOf(c) \notin DOMAIN entries
       /\ Goto(c, "insert", "track")
       /\ entries' = [n \in DOMAIN entries \cup {NameOf(c)} |->
                         IF n = NameOf(c) THEN request[c].account ELSE entries[n]]
       /\ UNCHANGED <<tracks, channels, request, added, errors>>
    \/ /\ NameOf(c) \in DOMAIN entries
       /\ Goto(c, "insert", "refused")
       /\ Say(c, ConvertError("unique violation"))
       /\ UNCHANGED <<tables, request, added>>

\* AddTrack: "latest".
AddTrack(c) ==
    /\ Goto(c, "track", "channel")
    /\ tracks' = tracks \cup {<<NameOf(c), c>>}
    /\ UNCHANGED <<entries, channels, request, added, errors>>

\* Faulty variant: the last channel is forgotten.
AddChannelButLast(c) ==
    /\ Goto(c, "channel",
            IF added[c] + 2 = Len(DefaultChannels) THEN "registered" ELSE "channel")
    /\ added' = [added EXCEPT ![c] = @ + 1]
    /\ channels' = channels \cup {<<NameOf(c), DefaultChannels[added[c] + 1], c>>}
    /\ UNCHANGED <<entries, tracks, request, errors>>

\* AddChannel: the next default channel.  After the last one the name is
\* registered, and the response carries no error list.
AddChannel(c) ==
    /\ Goto(c, "channel",
            IF added[c] + 1 = Len(DefaultChannels) THEN "registered" ELSE "channel")
    /\ added' = [added EXCEPT ![c] = @ + 1]
    /\ channels' = channels \cup {<<NameOf(c), DefaultChannels[added[c] + 1], c>>}
    /\ UNCHANGED <<entries, tracks, request, errors>>

Running == {"check", "insert", "track", "channel"}

\* Faulty variant: the error of AddDefaultChannels is not looked at.
FailSilently(c) ==
    /\ \/ \E stage \in Running \ {"channel"} : Goto(c, stage, "failed")
       \/ Goto(c, "channel", "registered")
    /\ \E error \in Failures : Say(c, ConvertError(error))
    /\ UNCHANGED <<tables, request, added>>

\* The next call to PostgreSQL fails: the response is the error list so far
\* and that error.  Nothing is undone.
Fail(c) ==
    /\ \E stage \in Running : Goto(c, stage, "failed")
    /\ \E error \in Failures : Say(c, ConvertError(error))
    /\ UNCHANGED <<tables, request, added>>

\* The store stops, and the client of the gateway answers in its place.
StoreStops(c) ==
    /\ \E stage \in Running : Goto(c, stage, "failed")
    /\ errors' = [errors EXCEPT ![c] = NoReply]
    /\ UNCHANGED <<tables, request, added>>

Step(c) ==
    \/ NameFound(c) \/ NameNotFound(c) \/ RegisterSnap(c) \/ AddTrack(c)
    \/ AddChannel(c) \/ Fail(c) \/ StoreStops(c)

Next == \E c \in Calls : Step(c) \/ \E req \in Request : Call(c, req)

Spec == Init /\ [][Next]_vars

-----------------------------------------------------------------------------
Answers == {"registered", "refused", "taken", "free", "failed"}

Codes == {"resource-not-found", "already-registered", "database-error",
          "internal-server-error"}

\* The type of every variable.
TypeOK ==
    /\ DOMAIN entries \subseteq Names
    /\ \A n \in DOMAIN entries : entries[n] \in Accounts
    /\ tracks \subseteq Names \X Calls
    /\ channels \subseteq Names \X ChannelNames \X Calls
    /\ pc \in [Calls -> Running \cup {"none"} \cup Answers]
    /\ request \in [Calls -> Request]
    /\ added \in [Calls -> 0..Len(DefaultChannels)]
    /\ errors \in [Calls -> Seq(Codes)]

\* Of the calls for one name, whatever they overlap with, one is told at most
\* that it registered the name.
OneWinner ==
    \A c, d \in Calls :
        pc[c] = "registered" /\ pc[d] = "registered" /\ NameOf(c) = NameOf(d)
            => c = d

\* A call that reports success leaves the name with its account, and with one
\* track and one channel of each default name: pushes look a channel up by
\* name, and would pick any of several.
RegisteredIsUsable ==
    \A c \in Calls : pc[c] = "registered" =>
        /\ NameOf(c) \in DOMAIN entries /\ entries[NameOf(c)] = request[c].account
        /\ \A d \in Calls : <<NameOf(c), d>> \in tracks <=> d = c
        /\ \A ch \in ChannelNames, d \in Calls :
              <<NameOf(c), ch, d>> \in channels <=> d = c

\* A name without all its channels belongs to a call that is under way, or to
\* one that reported an error to the publisher who now owns the name.
BrokenNamesAreReported ==
    \A n \in DOMAIN entries :
        \/ \E c \in Calls :
              /\ NameOf(c) = n /\ request[c].account = entries[n]
              /\ pc[c] \in {"track", "channel", "failed"}
        \/ \A ch \in ChannelNames : \E c \in Calls : <<n, ch, c>> \in channels

\* The status of the answer tells why the call ended: a conflict when the name
\* is another's, an error of the server when a database or the store failed.
\* The gateway takes the status from the first error of the list.
FirstErrorIsTheCause ==
    \A c \in Calls :
        /\ pc[c] = "refused" => GetHTTPStatus(errors[c]) = 409
        /\ pc[c] = "failed" => GetHTTPStatus(errors[c]) = 500

\* The verdict on a call, as NameRegistry sees it.
Verdict ==
    [c \in Calls |->
        CASE pc[c] \in {"check", "insert"} -> "open"
          [] pc[c] \in {"track", "channel"} -> "granted"
          [] OTHER -> pc[c]]

Registry == INSTANCE NameRegistry WITH
                owner <- entries, asked <- request, verdict <- Verdict

\* Registration grants a name at most once, for ever, and every answer was
\* true at a moment while its call was under way.
ImplementsRegistry == Registry!Spec
=============================================================================
