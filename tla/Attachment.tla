----------------------------- MODULE Attachment ------------------------------
(* Session.Attach (tmux/attach.go): the caller's terminal is lent to a tmux *)
(* client until it detaches, the caller cancels or the connection that the  *)
(* session came from stops; then the watcher of that connection is joined   *)
(* and the terminal is put back.                                            *)
(*                                                                          *)
(* Abstraction.  The client's output is the guard's marker or some text,    *)
(* whole or cut; standard error counts with the client's failure.           *)
EXTENDS Naturals

VARIABLES
    at,         \* where the call stands
    lifetime,   \* whether the session came from a control connection
    stopped,    \* that connection's stopCh is closed
    cancelled,  \* the caller's context has ended
    released,   \* cancel of attachmentContext was called
    over,       \* cancel(ErrOutputLimit) of runAttachment was called
    watcher,    \* the goroutine of attachmentContext
    client,     \* the tmux process
    held,       \* a descendant keeps the process's output open
    said,       \* what the process has written to its output
    seen, bad,  \* what Run leaves: the output collected, and whether it failed
    term, hung, \* the terminal's mode, and whether the terminal is gone
    answer,     \* what the call returns
    attached    \* history: the daemon attached the client

callState   == <<at, answer>>
contexts    == <<lifetime, stopped, cancelled, released, over>>
clientState == <<client, held, said, attached>>
attachVars  == <<callState, contexts, watcher, clientState, seen, bad, term, hung>>

AttachInit ==
    /\ at = "idle" /\ answer = "none" /\ lifetime = FALSE /\ stopped = FALSE
    /\ cancelled = FALSE /\ released = FALSE /\ over = FALSE /\ watcher = "none"
    /\ client = "none" /\ held = FALSE /\ said = "none" /\ attached = FALSE
    /\ seen = "none" /\ bad = FALSE /\ term = "cooked" /\ hung = FALSE

AttachDone == cancelled \/ released        \* attachCtx
RunDone    == AttachDone \/ over           \* cmdCtx

-----------------------------------------------------------------------------
(* The checks, the arguments, term.GetState.                                *)
Attach ==
    /\ at = "idle" /\ lifetime' \in BOOLEAN
    /\ \/ at' = "context" /\ UNCHANGED answer
       \/ at' = "returned" /\ answer' = "notSent"
    /\ UNCHANGED <<stopped, cancelled, released, over, watcher, clientState, seen, bad, term, hung>>

\* attachmentContext: the connection is watched.
Watch ==
    /\ at = "context" /\ at' = "start"
    /\ watcher' = IF lifetime THEN "run" ELSE "none"
    /\ UNCHANGED <<answer, contexts, clientState, seen, bad, term, hung>>

WatcherEnds ==
    /\ watcher = "run" /\ watcher' = "done"
    /\ \/ stopped /\ released' = TRUE
       \/ AttachDone /\ UNCHANGED released
    /\ UNCHANGED <<callState, lifetime, stopped, cancelled, over, clientState, seen, bad, term, hung>>

-----------------------------------------------------------------------------
(* runAttachment: a process that cannot be started, for a context that has  *)
(* ended or any other reason, has no ProcessState.                          *)
StartClient ==
    /\ at = "start"
    /\ \/ ~RunDone /\ at' = "run" /\ client' = "run" /\ UNCHANGED bad
       \/ at' = "result" /\ bad' = TRUE /\ UNCHANGED client
    /\ UNCHANGED <<answer, contexts, watcher, held, said, attached, seen, term, hung>>

\* Run returns when the process has ended and its output is at an end, or has been for WaitDelay
\* (ErrWaitDelay); output beyond the limit is dropped.
Waited ==
    /\ at = "run" /\ client # "run" /\ at' = "result"
    /\ \E late \in BOOLEAN :
          /\ held => late
          /\ late => held \/ RunDone
          /\ bad' = (late \/ client = "error")
          /\ seen' \in IF late \/ over THEN {"none", "part", said} ELSE {said}
    /\ UNCHANGED <<answer, contexts, watcher, clientState, term, hung>>

RanWell == client = "ok"             \* mutant: a killed process counts as not sent
Ran == client # "none"               \* cmd.ProcessState

\* The marker of a rejected guard, then the errors of the process and of the contexts.
AnswerOf ==
    IF ~Ran THEN "notSent"
    ELSE IF seen = "marker" THEN "serverChanged"
    ELSE IF bad \/ RunDone THEN "unknown" ELSE "ok"

AttachResult ==
    /\ at = "result" /\ at' = "close" /\ answer' = AnswerOf
    /\ UNCHANGED <<contexts, watcher, clientState, seen, bad, term, hung>>

-----------------------------------------------------------------------------
(* The deferred calls: cancel and join the watcher, then term.Restore,      *)
(* which fails if the terminal is gone.                                     *)
JoinFirst ==                             \* mutant: the watcher is joined before it is told
    /\ at = "close" /\ watcher # "run" /\ at' = "join" /\ released' = TRUE
    /\ UNCHANGED <<answer, lifetime, stopped, cancelled, over, watcher, clientState, seen, bad,
                   term, hung>>
Release ==
    /\ at = "close" /\ at' = "join" /\ released' = TRUE
    /\ UNCHANGED <<answer, lifetime, stopped, cancelled, over, watcher, clientState, seen, bad,
                   term, hung>>

Joined ==
    /\ at = "join" /\ watcher # "run" /\ at' = "restore"
    /\ UNCHANGED <<answer, contexts, watcher, clientState, seen, bad, term, hung>>

Restore ==
    /\ at = "restore" /\ at' = "returned"
    /\ IF hung
       THEN answer' = (IF answer = "ok" THEN "unrestored" ELSE answer) /\ UNCHANGED term
       ELSE term' = "cooked" /\ UNCHANGED answer
    /\ UNCHANGED <<contexts, watcher, clientState, seen, bad, hung>>

-----------------------------------------------------------------------------
(* The caller, the connection and the terminal.                             *)
Ongoing == at \notin {"idle", "returned"}

Cancel ==
    /\ Ongoing /\ ~cancelled /\ cancelled' = TRUE
    /\ UNCHANGED <<callState, lifetime, stopped, released, over, watcher, clientState, seen, bad,
                   term, hung>>
ConnectionStops ==
    /\ Ongoing /\ lifetime /\ ~stopped /\ stopped' = TRUE
    /\ UNCHANGED <<callState, lifetime, cancelled, released, over, watcher, clientState, seen, bad,
                   term, hung>>
HangUp ==
    /\ Ongoing /\ ~hung /\ hung' = TRUE
    /\ UNCHANGED <<callState, contexts, watcher, clientState, seen, bad, term>>

\* buffer.Write: the output exceeds the limit, once.
Overflows ==
    /\ at = "run" /\ said # "none" /\ ~over /\ over' = TRUE
    /\ UNCHANGED <<callState, lifetime, stopped, cancelled, released, watcher, clientState, seen,
                   bad, term, hung>>

(* The tmux client (not under src): the daemon evaluates the guard and      *)
(* attaches it or has it print the marker; it ends by itself, leaving the   *)
(* terminal as it was unless it crashes, or is killed with its context.     *)
Attaches ==
    /\ client = "run" /\ ~attached /\ said = "none"
    /\ attached' = TRUE /\ term' = "raw"
    /\ UNCHANGED <<callState, contexts, watcher, client, held, said, seen, bad, hung>>
Rejected ==
    /\ client = "run" /\ ~attached /\ said = "none" /\ said' = "marker"
    /\ UNCHANGED <<callState, contexts, watcher, client, held, attached, seen, bad, term, hung>>
Prints ==                                 \* "[detached ...]" or a complaint
    /\ client = "run" /\ said = "none" /\ said' = "text"
    /\ UNCHANGED <<callState, contexts, watcher, client, held, attached, seen, bad, term, hung>>
Exits ==
    /\ client = "run" /\ held' \in BOOLEAN
    /\ \/ client' = "ok" /\ (attached \/ said = "marker") /\ term' = "cooked"
       \/ client' = "error" /\ term' \in {term, "cooked"}
    /\ UNCHANGED <<callState, contexts, watcher, said, attached, seen, bad, hung>>
Killed ==
    /\ client = "run" /\ RunDone /\ client' = "error" /\ held' \in BOOLEAN
    /\ UNCHANGED <<callState, contexts, watcher, said, attached, seen, bad, term, hung>>

AttachCode == Watch \/ StartClient \/ Waited \/ AttachResult \/ Release \/ Joined \/ Restore

AttachNext ==
    \/ Attach \/ AttachCode \/ WatcherEnds
    \/ Cancel \/ ConnectionStops \/ HangUp \/ Overflows
    \/ Attaches \/ Rejected \/ Prints \/ Exits \/ Killed

AttachSpec == AttachInit /\ [][AttachNext]_attachVars

(* Fairness: the goroutines run on and a process is killed when its context *)
(* is done.  A client need not detach.                                      *)
AttachFairness ==
    WF_attachVars(AttachCode) /\ WF_attachVars(WatcherEnds) /\ WF_attachVars(Killed)

-----------------------------------------------------------------------------
(* A returned call has left no process, no goroutine and no raw terminal    *)
(* behind, whatever ended it; it counts as sent if the daemon attached the  *)
(* client, and succeeds only then.                                          *)
AttachLeavesNothing ==
    at = "returned" =>
        /\ client # "run" /\ watcher # "run"
        /\ term = "cooked" \/ hung
        /\ answer = "ok" => attached
        /\ answer \in {"notSent", "serverChanged"} => ~attached

(* A call ends when its caller cancels it, when the connection stops or     *)
(* when the client has ended, even if a descendant keeps the output open.   *)
AttachReturns ==
    Ongoing /\ (cancelled \/ stopped \/ client \in {"ok", "error"}) ~> at = "returned"
=============================================================================
