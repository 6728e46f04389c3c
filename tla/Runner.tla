------------------------------- MODULE Runner -------------------------------
(* Operations over subprocesses (tmux/executor.go, tmux/exec.go): each      *)
(* operation runs its commands one after the other as tmux processes,       *)
(* within one deadline and one output budget, and all operations of a       *)
(* server share a bounded number of process slots.                          *)
(*                                                                          *)
(* Abstraction.  Output is counted in units and standard error is not told  *)
(* apart from standard output; what the text says is the subject of others. *)
EXTENDS Integers, FiniteSets

CONSTANTS Ops,          \* operations
          Steps,        \* how many commands each of them runs
          Concurrent,   \* Limits.Concurrent: process slots
          OutputBytes,  \* Limits.OutputBytes
          MaxOutput     \* bound: units a process and its descendants write

ASSUME RunnerAssumption ==
    /\ IsFiniteSet(Ops) /\ Steps \in Nat \ {0}
    /\ Concurrent \in Nat \ {0} /\ OutputBytes \in Nat /\ MaxOutput \in Nat

VARIABLES
    \* the operation: where it stands, its context, its step, the output budget and the outcome
    pc, ctx, step, budget, outcome,
    \* semaphore: the slots in use
    slots,
    \* run: whether the process started, the error so far, cancel(ErrOutputLimit), and the buffer
    started, failed, limit, buf,
    \* openOutput: the copying goroutine and whether the read end is closed
    copier, closed,
    \* the process: its state, a descendant that holds the pipe, units on their way to the buffer
    \* (in the pipe or in the goroutine's hands), units written
    proc, holder, pipe, wrote,
    \* history: the units the operation has collected from its finished steps
    total

opVars   == <<pc, ctx, step, budget, outcome>>
runVars  == <<started, failed, limit, buf>>
copyVars == <<copier, closed>>
procVars == <<proc, holder, pipe, wrote>>
vars == <<opVars, slots, runVars, copyVars, procVars, total>>

CmdDone(o) == ctx[o] \/ limit[o]     \* cmdCtx of run is done

Init ==
    /\ pc = [o \in Ops |-> "idle"] /\ ctx = [o \in Ops |-> FALSE]
    /\ step = [o \in Ops |-> 0] /\ budget = [o \in Ops |-> OutputBytes]
    /\ outcome = [o \in Ops |-> "none"] /\ slots = 0
    /\ started = [o \in Ops |-> FALSE] /\ failed = [o \in Ops |-> FALSE]
    /\ limit = [o \in Ops |-> FALSE] /\ buf = [o \in Ops |-> 0]
    /\ copier = [o \in Ops |-> "none"] /\ closed = [o \in Ops |-> FALSE]
    /\ proc = [o \in Ops |-> "none"] /\ holder = [o \in Ops |-> FALSE]
    /\ pipe = [o \in Ops |-> 0] /\ wrote = [o \in Ops |-> 0] /\ total = [o \in Ops |-> 0]

Go(o, to) == pc' = [pc EXCEPT ![o] = to]

-----------------------------------------------------------------------------
(* beginWithin and execute.                                                 *)
Begin(o) ==
    /\ pc[o] = "idle" /\ Go(o, "execute") /\ step' = [step EXCEPT ![o] = 1]
    /\ UNCHANGED <<ctx, budget, outcome, slots, runVars, copyVars, procVars, total>>

\* The operation's timeout, or its caller's cancellation.
Expire(o) ==
    /\ pc[o] \notin {"idle", "returned"} /\ ~ctx[o] /\ ctx' = [ctx EXCEPT ![o] = TRUE]
    /\ UNCHANGED <<pc, step, budget, outcome, slots, runVars, copyVars, procVars, total>>

End(o, effect) == Go(o, "returned") /\ outcome' = [outcome EXCEPT ![o] = effect]

\* The context is looked at, and checkInputLimit may refuse the arguments.
Execute(o) ==
    /\ pc[o] = "execute"
    /\ \/ End(o, "notSent")
       \/ ~ctx[o] /\ Go(o, "acquire") /\ UNCHANGED outcome
    /\ UNCHANGED <<ctx, step, budget, slots, runVars, copyVars, procVars, total>>

-----------------------------------------------------------------------------
(* run: a slot, the pipes, the process.                                     *)
Acquire(o) ==
    /\ pc[o] = "acquire" /\ slots < Concurrent
    /\ slots' = slots + 1 /\ Go(o, "open")
    /\ UNCHANGED <<ctx, step, budget, outcome, runVars, copyVars, procVars, total>>

AcquireFail(o) ==
    /\ pc[o] = "acquire" /\ ctx[o] /\ End(o, "notSent")
    /\ UNCHANGED <<ctx, step, budget, slots, runVars, copyVars, procVars, total>>

OpenFailLeaks(o) ==                  \* mutant: the slot is not released on the early return
    /\ pc[o] = "open"
    /\ End(o, "notSent")
    /\ UNCHANGED <<ctx, step, budget, slots, runVars, copyVars, procVars, total>>

\* The context has ended meanwhile, or os.Pipe fails: the first one, or the second, which closes
\* the first pipe and does not wait for the goroutine that copies from it.
OpenFail(o) ==
    /\ pc[o] = "open"
    /\ End(o, "notSent") /\ slots' = slots - 1
    /\ \/ UNCHANGED <<copyVars, procVars>>
       \/ /\ ~ctx[o]
          /\ copier' = [copier EXCEPT ![o] = "run"] /\ closed' = [closed EXCEPT ![o] = TRUE]
          /\ pipe' = [pipe EXCEPT ![o] = 0] /\ UNCHANGED <<proc, holder, wrote>>
    /\ UNCHANGED <<ctx, step, budget, runVars, total>>

OpenOutput(o) ==
    /\ pc[o] = "open" /\ ~ctx[o] /\ Go(o, "start")
    /\ failed' = [failed EXCEPT ![o] = FALSE] /\ UNCHANGED started
    /\ limit' = [limit EXCEPT ![o] = FALSE] /\ buf' = [buf EXCEPT ![o] = 0]
    /\ copier' = [copier EXCEPT ![o] = "run"] /\ closed' = [closed EXCEPT ![o] = FALSE]
    /\ proc' = [proc EXCEPT ![o] = "none"] /\ pipe' = [pipe EXCEPT ![o] = 0]
    /\ wrote' = [wrote EXCEPT ![o] = 0] /\ holder' = [holder EXCEPT ![o] = FALSE]
    /\ UNCHANGED <<ctx, step, budget, outcome, slots, total>>

\* cmd.Start, after which the parent's write ends are closed.
Start(o) ==
    /\ pc[o] = "start"
    /\ \/ /\ ~CmdDone(o)
          /\ proc' = [proc EXCEPT ![o] = "run"] /\ started' = [started EXCEPT ![o] = TRUE]
          /\ Go(o, "wait") /\ UNCHANGED failed
       \/ Go(o, "drain") /\ failed' = [failed EXCEPT ![o] = TRUE] /\ UNCHANGED <<proc, started>>
    /\ UNCHANGED <<ctx, step, budget, outcome, slots, limit, buf, copyVars, holder, pipe, wrote, total>>

\* cmd.Wait: it may also report ErrWaitDelay, of a process that ended well.
Wait(o) ==
    /\ pc[o] = "wait" /\ proc[o] \in {"ok", "error"} /\ Go(o, "drain")
    /\ \E delayed \in BOOLEAN :
          failed' = [failed EXCEPT ![o] = delayed \/ proc[o] = "error"]
    /\ UNCHANGED <<ctx, step, budget, outcome, slots, started, limit, buf, copyVars, procVars, total>>

-----------------------------------------------------------------------------
(* drain: wait for the copy unless the command was cancelled, for at most   *)
(* the shutdown budget; then close the read ends and wait for the copy.     *)
Drain(o) ==
    /\ pc[o] = "drain"
    /\ Go(o, IF CmdDone(o) THEN "close" ELSE "draining")
    /\ UNCHANGED <<ctx, step, budget, outcome, slots, runVars, copyVars, procVars, total>>

DrainFinished(o) ==
    /\ pc[o] = "draining" /\ copier[o] = "done" /\ Go(o, "close")
    /\ UNCHANGED <<ctx, step, budget, outcome, slots, runVars, copyVars, procVars, total>>

DrainTimeoutSilent(o) ==             \* mutant: the timer is not an error
    /\ pc[o] = "draining" /\ Go(o, "close")
    /\ UNCHANGED <<ctx, step, budget, outcome, slots, runVars, copyVars, procVars, total>>

DrainTimeout(o) ==
    /\ pc[o] = "draining" /\ Go(o, "close") /\ failed' = [failed EXCEPT ![o] = TRUE]
    /\ UNCHANGED <<ctx, step, budget, outcome, slots, started, limit, buf, copyVars, procVars, total>>

CloseReaders(o) ==
    /\ pc[o] = "close" /\ closed' = [closed EXCEPT ![o] = TRUE] /\ Go(o, "join")
    /\ UNCHANGED <<ctx, step, budget, outcome, slots, runVars, copier, procVars, total>>

JoinNot(o) ==                        \* mutant: no receive from finished after the close
    /\ pc[o] = "join" /\ Go(o, "result")
    /\ UNCHANGED <<ctx, step, budget, outcome, slots, runVars, copyVars, procVars, total>>

Join(o) ==
    /\ pc[o] = "join" /\ copier[o] = "done" /\ Go(o, "result")
    /\ UNCHANGED <<ctx, step, budget, outcome, slots, runVars, copyVars, procVars, total>>

-----------------------------------------------------------------------------
(* The result of run, the budget and the effect in executeProcess, and      *)
(* execute's last look at the context.                                      *)
ChargeNothing(o) == budget[o]        \* mutant: every step has the whole budget
Charge(o) == budget[o] - buf[o]

EffectOfKilled(o) ==                 \* mutant: a process that was killed counts as not sent
    IF started[o] /\ proc[o] = "ok" THEN "unknown" ELSE "notSent"
Effect(o) == IF started[o] THEN "unknown" ELSE "notSent"

ResultUnlooked(o) ==                 \* mutant: only the context tells a failure
    /\ pc[o] = "result"
    /\ slots' = slots - 1
    /\ budget' = [budget EXCEPT ![o] = Charge(o)] /\ total' = [total EXCEPT ![o] = @ + buf[o]]
    /\ IF CmdDone(o) THEN End(o, Effect(o)) ELSE Go(o, "after") /\ UNCHANGED outcome
    /\ UNCHANGED <<ctx, step, runVars, copyVars, procVars>>

Result(o) ==
    /\ pc[o] = "result"
    /\ slots' = slots - 1
    /\ budget' = [budget EXCEPT ![o] = Charge(o)] /\ total' = [total EXCEPT ![o] = @ + buf[o]]
    /\ IF failed[o] \/ CmdDone(o) THEN End(o, Effect(o)) ELSE Go(o, "after") /\ UNCHANGED outcome
    /\ UNCHANGED <<ctx, step, runVars, copyVars, procVars>>

After(o) ==
    /\ pc[o] = "after"
    /\ \/ ctx[o] /\ End(o, "confirmed") /\ UNCHANGED <<step, started>>
       \/ ~ctx[o] /\ step[o] = Steps /\ End(o, "ok") /\ UNCHANGED <<step, started>>
       \/ /\ ~ctx[o] /\ step[o] < Steps /\ Go(o, "execute")
          /\ step' = [step EXCEPT ![o] = @ + 1] /\ started' = [started EXCEPT ![o] = FALSE]
          /\ UNCHANGED outcome
    /\ UNCHANGED <<ctx, budget, slots, failed, limit, buf, copyVars, procVars, total>>

-----------------------------------------------------------------------------
(* The copying goroutine, buffer.Write, and the process (not under src).    *)
Room(o) == buf[o] < budget[o]

\* A unit beyond the limit is dropped and the command is cancelled, once.  A unit read before the
\* read end was closed is still written after it.
Copy(o) ==
    /\ copier[o] = "run" /\ pipe[o] > 0
    /\ pipe' = [pipe EXCEPT ![o] = @ - 1]
    /\ IF Room(o) THEN buf' = [buf EXCEPT ![o] = @ + 1] /\ UNCHANGED limit
                  ELSE limit' = [limit EXCEPT ![o] = TRUE] /\ UNCHANGED buf
    /\ UNCHANGED <<opVars, slots, started, failed, copyVars, proc, holder, wrote, total>>

\* End of file: nobody holds the write end; or the read end has been closed.
CopyEnd(o) ==
    /\ copier[o] = "run"
    /\ closed[o] \/ (pipe[o] = 0 /\ pc[o] # "start" /\ proc[o] # "run" /\ ~holder[o])
    /\ copier' = [copier EXCEPT ![o] = "done"]
    /\ UNCHANGED <<opVars, slots, runVars, closed, procVars, total>>

ProcWrite(o) ==
    /\ proc[o] = "run" \/ holder[o]
    /\ ~closed[o] /\ wrote[o] < MaxOutput
    /\ wrote' = [wrote EXCEPT ![o] = @ + 1] /\ pipe' = [pipe EXCEPT ![o] = @ + 1]
    /\ UNCHANGED <<opVars, slots, runVars, copyVars, proc, holder, total>>

\* The process ends by itself and may leave a descendant with its output.
ProcExit(o) ==
    /\ proc[o] = "run"
    /\ \E s \in {"ok", "error"}, h \in BOOLEAN :
          proc' = [proc EXCEPT ![o] = s] /\ holder' = [holder EXCEPT ![o] = h]
    /\ UNCHANGED <<opVars, slots, runVars, copyVars, pipe, wrote, total>>

ProcKillLate(o) ==                   \* mutant: only the operation's end kills, as for a daemon
    /\ proc[o] = "run" /\ pc[o] = "returned" /\ proc' = [proc EXCEPT ![o] = "error"]
    /\ UNCHANGED <<opVars, slots, runVars, copyVars, holder, pipe, wrote, total>>

\* exec.CommandContext kills the process once its context is done.
ProcKill(o) ==
    /\ proc[o] = "run" /\ CmdDone(o)
    /\ proc' = [proc EXCEPT ![o] = "error"]
    /\ \E h \in BOOLEAN : holder' = [holder EXCEPT ![o] = h]
    /\ UNCHANGED <<opVars, slots, runVars, copyVars, pipe, wrote, total>>

\* It matters only while the read end is open.
HolderEnd(o) ==
    /\ holder[o] /\ ~closed[o] /\ holder' = [holder EXCEPT ![o] = FALSE]
    /\ UNCHANGED <<opVars, slots, runVars, copyVars, proc, pipe, wrote, total>>

-----------------------------------------------------------------------------
CodeStep(o) ==
    \/ Execute(o) \/ Acquire(o) \/ AcquireFail(o) \/ OpenFail(o) \/ OpenOutput(o) \/ Start(o)
    \/ Wait(o) \/ Drain(o) \/ DrainFinished(o) \/ DrainTimeout(o) \/ CloseReaders(o) \/ Join(o)
    \/ Result(o) \/ After(o)

CopyStep(o) == Copy(o) \/ CopyEnd(o)

Next ==
    \E o \in Ops : \/ Begin(o) \/ Expire(o) \/ CodeStep(o) \/ CopyStep(o)
                   \/ ProcWrite(o) \/ ProcExit(o) \/ ProcKill(o) \/ HolderEnd(o)

Spec == Init /\ [][Next]_vars

(* Fairness: the goroutines run on, the deadline comes, a process is killed *)
(* when its context is done.  A process need not write, exit or let go.     *)
Fairness ==
    \A o \in Ops :
        /\ WF_vars(Expire(o)) /\ WF_vars(CodeStep(o)) /\ WF_vars(CopyStep(o))
        /\ WF_vars(ProcKill(o))

FairSpec == Spec /\ Fairness

-----------------------------------------------------------------------------
(* Properties.                                                              *)

Copying(o) == pc[o] \in {"start", "wait", "drain", "draining", "close", "join"}
InRun(o) == Copying(o) \/ pc[o] \in {"open", "result"}

\* Every slot in use belongs to an operation inside run: none leaks on an early return, none is
\* freed twice; and what an operation collects over all of its steps stays within its one limit.
LimitsHold ==
    /\ slots = Cardinality({o \in Ops : InRun(o)}) /\ slots <= Concurrent
    /\ \A o \in Ops :
          total[o] + (IF Copying(o) \/ pc[o] = "result" THEN buf[o] ELSE 0) <= OutputBytes

\* run reads the buffer when no goroutine can write to it any more, and a command that counts as
\* done exited with success and its output is whole, although the context, the output limit and
\* the drain timer may each cut it short at any moment.
SuccessIsWhole ==
    \A o \in Ops :
        /\ pc[o] \in {"result", "after"} => copier[o] # "run"
        /\ pc[o] = "after" => proc[o] = "ok" /\ buf[o] = wrote[o] /\ pipe[o] = 0

\* An operation that says its command was not sent has not started a process for it.
NotSentIsHonest == \A o \in Ops : outcome[o] = "notSent" => ~started[o]

\* Every operation returns once its deadline has passed, even if a process ignores it or a
\* descendant keeps the output open.
OpsReturn == \A o \in Ops : pc[o] # "idle" ~> pc[o] = "returned"
=============================================================================
