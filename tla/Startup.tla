------------------------------- MODULE Startup -------------------------------
(* Creation and Discovery over one socket path: callers that create things  *)
(* and start daemons, goroutines that discover them, and everybody else.    *)
EXTENDS Creation, Discovery

vars == <<worldVars, callVars, findVars>>

Init == WorldInit /\ CreationInit /\ DiscoveryInit

(* Reading a reply and returning touch nothing but the call's own state, so *)
(* they commute with every other step and need not wait for any of them.    *)
Alone(c) == pc[c] \in {"reply", "done"}
Others   == \A c \in Callers : ~Alone(c)

(* What other clients create concerns nobody once every call has returned.  *)
Open == \E c \in Callers : pc[c] # "gone"

Next ==
    \/ Others /\ (Daemons \/ (Open /\ Clients)) /\ UNCHANGED <<callVars, findVars>>
    \/ Others /\ (\E f \in Finders : Discover(f)) /\ UNCHANGED <<worldVars, callVars>>
    \/ (\E c \in Callers : (Others \/ Alone(c)) /\ Create(c)) /\ UNCHANGED findVars

Spec == Init /\ [][Next]_vars

=============================================================================
