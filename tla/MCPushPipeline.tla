-------------------------- MODULE MCPushPipeline --------------------------
(* Small instances of PushPipeline for TLC. *)
EXTENDS PushPipeline, TLC

CONSTANTS p1, p2, p3, snapA, snapB, f1, f2, c1, c2

Stable == [track |-> "latest", channel |-> "stable"]
OtherTrack == [track |-> "2.0", channel |-> "stable"]

MCTracks == {"latest", "2.0"}
MCChannels == {"stable"}
MCTracksOf == [e \in Entries |-> {"latest"}]
MCDigest == [f \in Files |-> IF f = f2 THEN c2 ELSE c1]

\* A list the snap can be released to, and one it cannot.  The third list, which
\* the code accepts as well, has no well-formed target: it moves a file to the
\* next number without a row, and the next push overwrites it.
GivenTargets == {{Stable}, {OtherTrack}}
MCTargets == {{}} \cup GivenTargets

Symmetry == Permutations(Pushes)
=============================================================================
