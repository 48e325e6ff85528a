CONSTANTS
    b1 = b1
    b2 = b2
    b3 = b3
    Nil = Nil
    Benchmarks = {b1, b2, b3}
    Endpoint <- MCEndpoint
    Total <- MCTotal
    Concurrent <- MCConcurrent
    BufferSize = 1
SPECIFICATION MCSpec
INVARIANTS RecorderTypeOK RecordsItsOwn
PROPERTY BenchmarksEnd
CHECK_DEADLOCK FALSE
