--------------------------- MODULE SubprocessPromise ---------------------------
(* The promise of RequestPromise over subprocesses: what an operation says  *)
(* of each of its commands is compared with what the daemon did.  A daemon  *)
(* gets to a command when it pleases, also after the tmux process was       *)
(* killed and the operation has returned.                                   *)
EXTENDS Runner

VARIABLE ran     \* history: whether the daemon has run the command of an operation's current step

daemonVars == <<vars, ran>>

DaemonInit == Init /\ ran = [o \in Ops |-> FALSE]

DaemonRuns(o) ==
    /\ started[o] /\ ~ran[o] /\ ran' = [ran EXCEPT ![o] = TRUE]
    /\ UNCHANGED vars

\* A tmux process exits with success only when its command has run.
HeardOf(o) == proc'[o] = "ok" /\ proc[o] # "ok" => ran[o]

RunnerMoves ==
    /\ Next /\ \A o \in Ops : HeardOf(o)
    /\ ran' = [o \in Ops |-> ran[o] /\ step'[o] = step[o]]

DaemonNext == RunnerMoves \/ \E o \in Ops : DaemonRuns(o)

DaemonSpec == DaemonInit /\ [][DaemonNext]_daemonVars

-----------------------------------------------------------------------------
(* Each step of an operation is a caller of RequestPromise.  A step that    *)
(* has been followed by another one was confirmed.                          *)
Commands == Ops \X (1..Steps)

Earlier(c) == c[2] < step[c[1]]
Current(c) == c[2] = step[c[1]]

PhaseOf(c) ==
    IF Earlier(c) \/ (Current(c) /\ pc[c[1]] = "returned") THEN "returned"
    ELSE IF Current(c) /\ pc[c[1]] # "execute" THEN "called" ELSE "idle"

ExecsOf(c) == IF Earlier(c) \/ (Current(c) /\ ran[c[1]]) THEN 1 ELSE 0

OutcomeOf(c) ==
    IF Earlier(c) \/ (Current(c) /\ outcome[c[1]] = "ok") THEN "confirmed"
    ELSE IF Current(c) THEN outcome[c[1]] ELSE "none"

Promise == INSTANCE RequestPromise WITH
    Callers <- Commands,
    phase   <- [c \in Commands |-> PhaseOf(c)],
    execs   <- [c \in Commands |-> ExecsOf(c)],
    outcome <- [c \in Commands |-> OutcomeOf(c)]

\* A command run by a process is promised what one on a control connection is: it runs at most
\* once, "not sent" excludes that it ever runs, and one that counts as done has run, whatever cut
\* its process short.
ProcessesKeepPromise == Promise!Spec
=============================================================================
