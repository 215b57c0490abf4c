--------------------------- MODULE SnapshotLedger ---------------------------
(***************************************************************************)
(* What the source promises every paired receiver: the encrypted snapshots *)
(* that leave the process for it form a ledger that only grows, in counter *)
(* order, with one entry per counter.  A retry of a push adds nothing.     *)
(***************************************************************************)
EXTENDS Integers

CONSTANTS Devices, Contents

Entry == [counter : Nat, cookies : Contents, createdAt : Nat]

VARIABLE ledger     \* ledger[d]: what has been sent to d

Init == ledger = [d \in Devices |-> {}]

Append(d, e) ==
    /\ e \in Entry
    /\ e.counter > 0
    /\ \A old \in ledger[d] : old.counter < e.counter
    /\ ledger' = [ledger EXCEPT ![d] = @ \cup {e}]

\* Quantified over the new ledger, so that a step can be checked against it.
Next == \E d \in Devices : \E e \in ledger'[d] : Append(d, e)

Spec == Init /\ [][Next]_ledger
=============================================================================
