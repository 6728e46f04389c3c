---------------------------- MODULE MCEventStream ----------------------------
(* Instances of EventStream for TLC.                                        *)
EXTENDS EventStream

CONSTANTS s1, s2, r1, r2

\* Streams whose quotas fit together; a stream with two readers.
TwoBytes == [s \in Streams |-> IF s = s1 THEN 2 ELSE 3]
AllReadFirst == [r \in Readers |-> s1]
=============================================================================
