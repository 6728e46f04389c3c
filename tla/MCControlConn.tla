---------------------------- MODULE MCControlConn ----------------------------
(* Instances of ControlConn for TLC.                                        *)
EXTENDS ControlConn

CONSTANTS c1, c2, c3

\* c1 alone fills the byte budget of two; the third caller exceeds it and is refused.
MixedSize == [c \in Callers |-> CASE c = c1 -> 2 [] c = c2 -> 1 [] OTHER -> 3]
=============================================================================
