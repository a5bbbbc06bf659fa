---------------------------- MODULE MCB001Queue ----------------------------
(* A small instance of the B-001 queue: one symbol that was listed too late *)
(* to have a monthly archive, so that its only archive is planned after the *)
(* symbol's item was reported complete.                                     *)
EXTENDS B001Queue, TLC
CONSTANTS s1, day1

OneSymbol == {s1}
OneArchive == {day1}
DayOfS1 == [a \in OneArchive |-> s1]

\* No worker is named in Init or in a guard; the run checks safety only.
Symmetry == Permutations(Workers)
=============================================================================
