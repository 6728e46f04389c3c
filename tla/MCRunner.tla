------------------------------ MODULE MCRunner ------------------------------
(* An instance of Runner for TLC: two operations of two steps each share    *)
(* one slot, the processes of an operation may together write one unit more *)
(* than its budget, and a daemon runs the commands when it pleases.         *)
(* An attachment takes no slot and meets no operation: it is made instead.  *)
EXTENDS SubprocessPromise, Attachment

CONSTANTS o1, o2

MCInit == DaemonInit /\ AttachInit

MCNext ==
    \/ at = "idle" /\ DaemonNext /\ UNCHANGED attachVars
    \/ (\A o \in Ops : pc[o] = "idle") /\ AttachNext /\ UNCHANGED daemonVars

MCSpec ==
    /\ MCInit /\ [][MCNext]_<<daemonVars, attachVars>>
    /\ Fairness /\ AttachFairness

\* No call hangs: an operation returns once its deadline has passed, even if a process ignores it
\* or a descendant keeps the output open, and an attachment when its caller cancels it, when the
\* connection stops or when the client has ended (drain, attachmentContext, WaitDelay).
EveryCallReturns == OpsReturn /\ AttachReturns
=============================================================================
