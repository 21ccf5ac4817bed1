------------------------------ MODULE MCSimPool ------------------------------
(* A pool of two workers, and its caller, for TLC.                         *)
EXTENDS SimPool

CONSTANTS w1, w2, c
=============================================================================
