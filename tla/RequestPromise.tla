--------------------------- MODULE RequestPromise ---------------------------
(* What Connection.run promises about one command, whatever happens inside  *)
(* the connection: the daemon starts it at most once, and the Effect of the *)
(* outcome (tmux/errors.go) tells the truth for good.  "notSent" excludes   *)
(* an execution before the return and after it, "confirmed" follows one,    *)
(* and "unknown" leaves both open.                                          *)
EXTENDS Naturals

CONSTANT Callers

VARIABLES phase,     \* "idle", "called" or "returned"
          execs,     \* how often the daemon has started the command
          outcome    \* the Effect run returned, or "none"

promiseVars == <<phase, execs, outcome>>

Init ==
    /\ phase   = [c \in Callers |-> "idle"]
    /\ execs   = [c \in Callers |-> 0]
    /\ outcome = [c \in Callers |-> "none"]

Call(c) ==
    /\ phase[c] = "idle"
    /\ phase' = [phase EXCEPT ![c] = "called"]
    /\ UNCHANGED <<execs, outcome>>

\* A command may be started late: after run has given up on it and answered "unknown".
Execute(c) ==
    /\ phase[c] # "idle" /\ execs[c] = 0 /\ outcome[c] \in {"none", "unknown"}
    /\ execs' = [execs EXCEPT ![c] = 1]
    /\ UNCHANGED <<phase, outcome>>

Allowed(c) ==
    {"unknown"} \cup (IF execs[c] = 0 THEN {"notSent"} ELSE {"confirmed"})

Return(c) ==
    /\ phase[c] # "returned"
    /\ phase' = [phase EXCEPT ![c] = "returned"]
    /\ \E e \in Allowed(c) : outcome' = [outcome EXCEPT ![c] = e]
    /\ UNCHANGED execs

Next == \E c \in Callers : Call(c) \/ Execute(c) \/ Return(c)

Spec == Init /\ [][Next]_promiseVars
=============================================================================
