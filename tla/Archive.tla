------------------------------ MODULE Archive ------------------------------
(***************************************************************************)
(* What the Snap Store promises about the revisions of a snap: once bytes  *)
(* are published under a sequence number they stay there unchanged, and a  *)
(* snap is published upwards, each new number above all the earlier ones.  *)
(*                                                                         *)
(* This is the abstract specification; Publishing implements it when the   *)
(* pushes of one snap do not overlap.                                      *)
(***************************************************************************)
EXTENDS Naturals

CONSTANTS
    Entries,        \* registered snaps
    Contents,       \* what a snap file can hold, identified with its SHA3-384
    MaxSequence     \* bound on the sequence numbers of a snap

VARIABLE archive    \* the served files: a function on some <<entry, sequence>>

Init == archive = << >>

\* Publish the bytes c as revision n of the snap e.
Publish(e, n, c) ==
    /\ \A k \in DOMAIN archive : k[1] = e => k[2] < n
    /\ archive' = [k \in DOMAIN archive \cup {<<e, n>>} |->
                      IF k = <<e, n>> THEN c ELSE archive[k]]

Next == \E e \in Entries, n \in 1..MaxSequence, c \in Contents : Publish(e, n, c)

Spec == Init /\ [][Next]_archive
=============================================================================
