----------------------------- MODULE MCStartup ------------------------------
(* An instance of Startup for TLC.  A second goroutine discovers servers,   *)
(* and there is a third call, only where nobody has created or creates      *)
(* anything: what callers do reaches a discovery through the daemon alone.  *)
EXTENDS Startup

CONSTANTS c1, f1, f2, b1, b2

Ask(op) == [NoRequest EXCEPT !.op = op, !.valid = TRUE]
MCRequests ==
    {NoRequest, Ask("recreate"), Ask("window"), Ask("pane"),
     [Ask("split") EXCEPT !.killTarget = TRUE],
     [Ask("session") EXCEPT !.start = "allow", !.named = TRUE],
     [Ask("session") EXCEPT !.start = "allow", !.group = TRUE],
     [Ask("session") EXCEPT !.start = "allow", !.bound = TRUE],
     Ask("session")}

Quiet == ids = 0 /\ \A c \in Callers : pc[c] = "gone"

\* The callers of this process ask for nothing.
NoCalls ==
    /\ life = 0 /\ finds = 0 /\ pc = [c \in Callers |-> "call"]
    /\ pc' = [c \in Callers |-> "gone"]
    /\ UNCHANGED <<worldVars, findVars, req, bound, guard, allowStart, target, reply, out,
                   made, killed, started>>

MCNext ==
    \/ Next /\ (fpc'[f2] # fpc[f2] \/ (finds # finds' /\ finds' = MaxFinds) => Quiet)
    \/ NoCalls

MCSpec == Init /\ [][MCNext]_vars
=============================================================================
