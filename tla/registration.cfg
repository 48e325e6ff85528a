CONSTANTS
    c1 = c1
    c2 = c2
    c3 = c3
    snapA = snapA
    snapB = snapB
    alice = alice
    bob = bob
    Calls = {c1, c2, c3}
    Names = {snapA, snapB}
    Accounts = {alice, bob}
SPECIFICATION Spec
INVARIANTS OneWinner RegisteredIsUsable BrokenNamesAreReported
PROPERTY ImplementsRegistry
SYMMETRY Symmetry
CHECK_DEADLOCK FALSE
