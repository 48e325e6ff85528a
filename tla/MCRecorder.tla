----------------------------- MODULE MCRecorder -----------------------------
(* A small instance of Recorder for TLC. *)
EXTENDS Recorder

CONSTANTS b1, b2, b3

MCEndpoint == [b \in Benchmarks |->
    CASE b = b1 -> "CohortKeys" [] b = b2 -> "SnapdDownload" [] b = b3 -> "RegisterName"]
MCTotal == [b \in Benchmarks |-> CASE b = b1 -> 2 [] b = b2 -> 1 [] b = b3 -> 0]
MCConcurrent == [b \in Benchmarks |-> IF b = b1 THEN 2 ELSE 1]

\* The third benchmark comes when the first has ended, maybe beside the second,
\* whose operation gets no further than its third timer.
Later == pc[b3] # "idle" => pc[b1] = "ended"
Short == \A x \in OperationsOf(b2) :
            at[x] <= 3 /\ (at[x] = 3 /\ op[x] \in {"add", "send"} => ~ok[x])

MCSpec == RecorderInit /\ [][RecorderNext /\ (Later /\ Short)']_recorderVars /\ Fairness
=============================================================================
