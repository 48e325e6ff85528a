----------------------------- MODULE Catalogue -----------------------------
(***************************************************************************)
(* What the gateway reads of the store: the look-ups of revisions, deltas  *)
(* and snaps as functions of the tables, and the answer of a search, which *)
(* is made of several of them.                                             *)
(***************************************************************************)
EXTENDS Publishing, FiniteSets

\* GetRevisionByNameAndSequence: any row of that number, as no order is given.
RowsNumbered(e, n) == {r \in RowsOf(e) : r.seq = n}

\* Faulty variant: the query has no order.
LatestReleasedUnsorted(e, t) == {r \in RowsOf(e) : r.target = t}

\* GetLatestRevisionByTrackAndChannel: any of the rows of the highest number
\* that are released to the target.
LatestReleased(e, t) ==
    {r \in RowsOf(e) : /\ r.target = t
                       /\ \A s \in RowsOf(e) : s.target = t => s.seq <= r.seq}

\* GetDeltaByRevisionPair.
DeltasBetween(source, target) ==
    {x \in deltaRows : x.source = source /\ x.target = target}

-----------------------------------------------------------------------------
(***************************************************************************)
(* FindSnaps: the snaps that match a query, in the order the database has  *)
(* them, each with the revision a search shows.                            *)
(***************************************************************************)

\* GetEntriesByQuery keeps the snaps that have one of the channels on some
\* track, released to or not.
Matching(chs) == {e \in Entries : \E link \in channels :
                     link[1] = e /\ link[2].channel \in chs}

\* The look-ups of the inner loop: the track is always "latest".
Shown(e, chs) ==
    UNION {LatestReleased(e, [track |-> "latest", channel |-> c]) : c \in chs}

\* Faulty variant: the revision of the channel that was looked up last.
ShownLast(e, chs) ==
    {r \in Shown(e, chs) : \A s \in Shown(e, chs) : r.seq <= s.seq}

\* The one with the highest number is kept.
ShownHighest(e, chs) ==
    {r \in Shown(e, chs) : \A s \in Shown(e, chs) : s.seq <= r.seq}

\* The results of a search whose snaps come in the given order: the first snap
\* without a release on the channels ends the list, with status 200.
FindSnaps(order, chs) ==
    {[entry |-> order[i], revision |-> (CHOOSE r \in ShownHighest(order[i], chs) : TRUE).seq] :
        i \in {i \in DOMAIN order : \A j \in 1..i : Shown(order[j], chs) # {}}}

\* The orders in which a query may return snaps.
Orders(S) == {f \in [1..Cardinality(S) -> S] : \A x \in S : \E i \in DOMAIN f : f[i] = x}

\* A search shows each snap it lists with the highest number released to one of
\* the channels asked for, and omits a released snap only behind one that
\* matches without a release.
FindShowsNewest ==
    \A chs \in SUBSET Channels \ {{}} : \A order \in Orders(Matching(chs)) :
        LET results == FindSnaps(order, chs)
            released == {r \in rows : r.target.track = "latest" /\ r.target.channel \in chs}
        IN  /\ \A x \in results :
                  /\ \E r \in released : r.entry = x.entry /\ r.seq = x.revision
                  /\ \A r \in released : r.entry = x.entry => r.seq <= x.revision
            /\ (\A e \in Matching(chs) : \E r \in released : r.entry = e) =>
                  {x.entry : x \in results} = {r.entry : r \in released}
=============================================================================
