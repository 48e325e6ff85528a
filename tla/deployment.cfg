CONSTANTS
    a1 = a1
    a2 = a2
    a3 = a3
    k1 = k1
    k2 = k2
    root = root
    rootKey = rootKey
    snapA = snapA
    snapB = snapB
    snapC = snapC
    f1 = f1
    f2 = f2
    c1 = c1
    c2 = c2
    client = client
    w1 = w1
    w2 = w2
    AccountIds = {a1, a2, a3}
    DisplayNames <- MCDisplayNames
    Usernames <- MCUsernames
    Emails <- MCEmails
    Keys = {k1, k2}
    Callers <- MCCallers
    Subjects <- MCSubjects
    Bodies <- MCBodies
    Writers <- MCWriters
    MaxDocuments = 3
    RootAccount = root
    RootKey = rootKey
    Root <- MCRoot
    TestAccounts <- MCTestAccounts
    TestKeys <- MCTestKeys
    Snaps = {snapA, snapB, snapC}
    Files = {f1, f2}
    Digests = {c1, c2}
    Digest <- MCDigest
    TestSnaps <- MCTestSnaps
    Pushing = {w1, w2}
    MaxAttempts = 2
    MaxCrashes = 2
    MaxNumber = 1
SPECIFICATION MCSpec
INVARIANTS ReadersTypeOK PageIsTrue InstallFindsAll InstallIsTrue NumberedInOrder AssertionsAgree TrustChainCloses
CHECK_DEADLOCK FALSE
PROPERTY GatewayServes
