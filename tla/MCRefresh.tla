----------------------------- MODULE MCRefresh -----------------------------
(* A small instance of Refresh for TLC. *)
EXTENDS Refresh, TLC

CONSTANTS p1, p2, snapA, f1, f2, x1, x2, c1, c2, c3, d1

Stable == [track |-> "latest", channel |-> "stable"]
Nightly == [track |-> "latest", channel |-> "nightly"]

MCTracks == {"latest"}
MCChannels == {"stable", "nightly"}
MCTracksOf == [e \in Entries |-> {"latest"}]
MCDigest == [f \in Files |-> IF f = f2 THEN c2 ELSE c1]

\* x1 and x2 both make the second content: x1 of the first, x2 of one that was
\* never pushed.
MCPatchOf == [x \in DeltaFiles |-> IF x = x1 THEN <<c1, c2>> ELSE <<c3, c2>>]

\* Two well-formed targets; malformed lists are left out: the file of such a
\* push has no row, and the next push overwrites it.
MCTargetSets == {{Stable, Nightly}}
MCWanted == {Stable}

(***************************************************************************)
(* Devices, cohorts and pushes of deltas read what pushes write, and write *)
(* nothing that another of them reads.  A behaviour of the instance has    *)
(* one of the three; devices and cohorts meet while one push runs.         *)
(***************************************************************************)
Started == {p \in Pushes : pc[p] # "idle"}
NoDeltaPush == sentDeltas = {} /\ \A p \in Pushes : job[p] = "none"
NoDevice == \A d \in Devices : at_gateway[d] = "idle" /\ installed[d] = {}
NoCohort == clock = 0 /\ keys = {}

Bounded ==
    \/ NoDevice /\ NoCohort
    \/ NoDeltaPush /\ NoCohort
    \/ NoDeltaPush /\ NoDevice
    \/ NoDeltaPush /\ Cardinality(Started) <= 1

MCSpec == RefreshInit /\ [][RefreshNext /\ Serialised' /\ Bounded']_refreshVars

Symmetry == Permutations(Pushes)
=============================================================================
