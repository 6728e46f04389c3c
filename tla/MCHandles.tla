----------------------------- MODULE MCHandles -----------------------------
(* An instance of Handles for TLC: two sessions of two slots, two window    *)
(* identifiers, and a daemon that is replaced once.                         *)
EXTENDS Handles

CONSTANTS x, y, w1, w2
=============================================================================
