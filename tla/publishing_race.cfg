CONSTANTS
    p1 = p1
    p2 = p2
    p3 = p3
    snapA = snapA
    snapB = snapB
    f1 = f1
    f2 = f2
    f3 = f3
    c1 = c1
    c2 = c2
    Pushes = {p1, p2}
    Entries = {snapA}
    Files = {f1, f2}
    Contents = {c1, c2}
    Digest <- MCDigest
    Tracks <- MCTracks
    Channels <- MCChannels
    TracksOf <- MCTracksOf
    TargetSets <- ConcurrentTargets
    MaxSequence = 3
SPECIFICATION Spec
INVARIANT NumbersAreSpecific
SYMMETRY Symmetry
CHECK_DEADLOCK FALSE
