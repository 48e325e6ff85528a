CONSTANTS
    p1 = p1
    p2 = p2
    snapA = snapA
    f1 = f1
    f2 = f2
    x1 = x1
    x2 = x2
    c1 = c1
    c2 = c2
    c3 = c3
    d1 = d1
    Pushes = {p1, p2}
    Entries = {snapA}
    Files = {f1, f2}
    Contents = {c1, c2, c3}
    Digest <- MCDigest
    Tracks <- MCTracks
    Channels <- MCChannels
    TracksOf <- MCTracksOf
    TargetSets <- MCTargetSets
    MaxSequence = 2
    DeltaFiles = {x1, x2}
    PatchOf <- MCPatchOf
    Devices = {d1}
    Wanted <- MCWanted
    Window = 2
    MaxTime = 2
    MaxKeys = 1
SPECIFICATION MCSpec
INVARIANTS DownloadIsAnnounced OfferedDeltaLeads InstalledIsServed ResultBuiltOnBase DeltaNotLost
PROPERTIES NeverDowngraded CohortKeepsRevision
SYMMETRY Symmetry
CHECK_DEADLOCK FALSE
