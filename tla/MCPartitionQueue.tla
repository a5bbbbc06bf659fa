--------------------------- MODULE MCPartitionQueue ---------------------------
(* Small instances of PartitionQueue for TLC: a partition of two pages whose   *)
(* second page is empty, one whose source has nothing at all, and one of two   *)
(* full pages.                                                                 *)
EXTENDS PartitionQueue, TLC

CONSTANTS sparse, empty, dense, a, b, u

MCPages == [p \in Partitions |-> IF p = empty THEN 1 ELSE 2]
MCDataPages ==
  [p \in Partitions |-> CASE p = sparse -> {1} [] p = empty -> {} [] p = dense -> {1, 2}]
===============================================================================
