----------------------------- MODULE MCRunStages -----------------------------
(* Small instances of RunStages for TLC: one partition of each kind. *)
EXTENDS RunStages, TLC

CONSTANTS c, b, s, t, g, w1, w2
===============================================================================
