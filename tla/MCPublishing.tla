--------------------------- MODULE MCPublishing ---------------------------
(* Small instances of Publishing for TLC. *)
EXTENDS Catalogue, TLC

CONSTANTS p1, p2, p3, snapA, snapB, f1, f2, f3, c1, c2

Stable == [track |-> "latest", channel |-> "stable"]
Nightly == [track |-> "latest", channel |-> "nightly"]
OtherTrack == [track |-> "2.0", channel |-> "stable"]

MCTracks == {"latest", "2.0"}
MCChannels == {"stable", "nightly"}
MCTracksOf == [e \in Entries |-> {"latest"}]

\* f1 and f3 are two uploads of the same bytes.
MCDigest == [f \in Files |-> IF f = f2 THEN c2 ELSE c1]

\* The default target, and a list that fails half-way when its first target is
\* visited first: the snap has not the track of its second one.  Each list has
\* a well-formed target: with a malformed list, which the code accepts, a file
\* moves to the next number without a row, and the next push overwrites it.
SerialTargets == {{Stable}, {Nightly, OtherTrack}}

\* Two channels, a list without any well-formed target, and a track the snap
\* has not.
ConcurrentTargets == {{}, {Stable, Nightly}, {OtherTrack}}

Symmetry == Permutations(Pushes)
=============================================================================
