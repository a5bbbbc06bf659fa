---------------------------- MODULE BackfillLedger ----------------------------
(***************************************************************************)
(* What a backfill promises to its reader, with no worker, lease or retry  *)
(* in sight: the data pages of a partition become durable in source order, *)
(* a partition is declared collected only when all of them are, and a      *)
(* declaration may be withdrawn but no page ever is.                       *)
(***************************************************************************)
EXTENDS Naturals

CONSTANTS
  Partitions,
  DataPages    \* the numbers of the pages of a partition that carry rows

VARIABLES stored, collected

ledger == <<stored, collected>>

Init ==
  /\ stored = [p \in Partitions |-> {}]
  /\ collected = {}

\* The next data page of p: every earlier one is durable.
Store(p) ==
  \E n \in DataPages[p] \ stored[p] :
    /\ \A m \in DataPages[p] : m < n => m \in stored[p]
    /\ stored' = [stored EXCEPT ![p] = @ \cup {n}]
    /\ UNCHANGED collected

Declare(p) ==
  /\ DataPages[p] \subseteq stored[p]
  /\ collected' = collected \cup {p}
  /\ UNCHANGED stored

Withdraw(p) ==
  /\ collected' = collected \ {p}
  /\ UNCHANGED stored

Next == \E p \in Partitions : Store(p) \/ Declare(p) \/ Withdraw(p)

Spec == Init /\ [][Next]_ledger

\* A collected partition lacks nothing.
NothingMissing == \A p \in collected : DataPages[p] \subseteq stored[p]
===============================================================================
