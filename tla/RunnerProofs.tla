---------------------------- MODULE RunnerProofs ----------------------------
(* Proofs about the subprocess executor and the terminal attachment: the    *)
(* shared slots and the output budget are kept, a command that counts as    *)
(* done is whole, an answer "not sent" is true, and an attachment leaves    *)
(* nothing behind.                                                          *)
EXTENDS SubprocessPromise, Attachment, FiniteSetTheorems, TLAPS

-----------------------------------------------------------------------------
(* The executor: the values its variables take.                             *)
Places == {"idle", "execute", "acquire", "open", "start", "wait", "drain", "draining", "close",
           "join", "result", "after", "returned"}

OpTypeOK ==
    /\ pc \in [Ops -> Places] /\ ctx \in [Ops -> BOOLEAN] /\ step \in [Ops -> Nat]
    /\ budget \in [Ops -> Nat]
    /\ outcome \in [Ops -> {"none", "notSent", "unknown", "confirmed", "ok"}]

RunTypeOK ==
    /\ slots \in Nat /\ started \in [Ops -> BOOLEAN] /\ failed \in [Ops -> BOOLEAN]
    /\ limit \in [Ops -> BOOLEAN] /\ buf \in [Ops -> Nat] /\ total \in [Ops -> Nat]

ProcTypeOK ==
    /\ copier \in [Ops -> {"none", "run", "done"}] /\ closed \in [Ops -> BOOLEAN]
    /\ proc \in [Ops -> {"none", "run", "ok", "error"}] /\ holder \in [Ops -> BOOLEAN]
    /\ pipe \in [Ops -> Nat] /\ wrote \in [Ops -> Nat]

TypeOK == OpTypeOK /\ RunTypeOK /\ ProcTypeOK

(* The inductive invariant, operation by operation.                         *)
\* Nothing is answered before the end, and no process is started before Start.
Answered(o) ==
    /\ pc[o] \in {"idle", "execute", "acquire", "open", "start"} => ~started[o]
    /\ outcome[o] # "none" => pc[o] = "returned"
    /\ outcome[o] = "notSent" => ~started[o]

\* What is left of the budget is what has not been collected.
Accounted(o) ==
    /\ budget[o] + total[o] = OutputBytes
    /\ Copying(o) \/ pc[o] = "result" => buf[o] <= budget[o]

\* The read end is open until CloseReaders; the goroutine runs inside run, except for the one that
\* a failed os.Pipe leaves, which has nothing to read; and it ends before the read end is closed
\* only when nobody can write any more.
PipeState(o) ==
    /\ pc[o] \in {"start", "wait", "drain", "draining", "close"} => ~closed[o]
    /\ pc[o] \in {"join", "result", "after"} => closed[o]
    /\ copier[o] = "run" => Copying(o) \/ (pc[o] = "returned" /\ pipe[o] = 0 /\ closed[o])
    /\ pc[o] = "start" => proc[o] = "none" /\ copier[o] = "run"
    /\ Copying(o) /\ ~closed[o] /\ copier[o] = "done" =>
          pipe[o] = 0 /\ ~holder[o] /\ proc[o] # "run"

\* No unit is lost unless the limit was exceeded, and run is not on its way to a success unless
\* the process succeeded and all of its output was copied.
Whole(o) ==
    /\ (Copying(o) \/ pc[o] = "result") /\ ~limit[o] => buf[o] + pipe[o] = wrote[o]
    /\ pc[o] \in {"drain", "draining", "close", "join", "result"} => failed[o] \/ proc[o] = "ok"
    /\ pc[o] \in {"close", "join", "result"} =>
          failed[o] \/ CmdDone(o) \/ (copier[o] = "done" /\ pipe[o] = 0)
    /\ pc[o] = "after" => proc[o] = "ok" /\ buf[o] = wrote[o] /\ pipe[o] = 0

OpInv(o) == Answered(o) /\ Accounted(o) /\ PipeState(o) /\ Whole(o)

Running == {o \in Ops : InRun(o)}
SlotsCounted == slots = Cardinality(Running) /\ slots <= Concurrent

RunnerInv == TypeOK /\ SlotsCounted /\ \A o \in Ops : OpInv(o)

-----------------------------------------------------------------------------
(* Attachment: the inductive invariant.                                     *)
AttachTypeOK ==
    /\ at \in {"idle", "context", "start", "run", "result", "close", "join", "restore", "returned"}
    /\ answer \in {"none", "ok", "notSent", "serverChanged", "unknown", "unrestored"}
    /\ client \in {"none", "run", "ok", "error"} /\ watcher \in {"none", "run", "done"}
    /\ said \in {"none", "text", "marker"} /\ seen \in {"none", "part", "text", "marker"}
    /\ term \in {"cooked", "raw"} /\ attached \in BOOLEAN /\ bad \in BOOLEAN

\* The process runs while the call waits for it, and the watcher until it is joined.
AttachPlaces ==
    /\ at \in {"idle", "context", "start"} =>
          client = "none" /\ said = "none" /\ seen = "none" /\ term = "cooked" /\ answer = "none"
    /\ at \in {"run", "result"} => answer = "none"
    /\ at = "run" => client # "none"
    /\ at # "run" => client # "run"
    /\ at \in {"idle", "context"} => watcher = "none"
    /\ at \in {"restore", "returned"} => watcher # "run"
    /\ at = "returned" => term = "cooked" \/ hung

\* What the client did, what it said of it and what the call has seen.
AttachTold ==
    /\ client = "none" => ~attached
    /\ client = "ok" => attached \/ said = "marker"
    /\ said = "marker" => ~attached
    /\ seen = "marker" => said = "marker"
    /\ at = "result" /\ ~bad /\ ~over => client = "ok" /\ seen = said
    /\ answer = "ok" => attached
    /\ answer \in {"notSent", "serverChanged"} => ~attached

AttachInv == AttachTypeOK /\ AttachPlaces /\ AttachTold

-----------------------------------------------------------------------------
(* A step of one operation leaves the others' state alone.                  *)
SameAt(q) ==
    /\ pc'[q] = pc[q] /\ ctx'[q] = ctx[q] /\ budget'[q] = budget[q] /\ outcome'[q] = outcome[q]
    /\ started'[q] = started[q] /\ failed'[q] = failed[q] /\ limit'[q] = limit[q]
    /\ buf'[q] = buf[q] /\ total'[q] = total[q] /\ copier'[q] = copier[q]
    /\ closed'[q] = closed[q] /\ proc'[q] = proc[q] /\ holder'[q] = holder[q]
    /\ pipe'[q] = pipe[q] /\ wrote'[q] = wrote[q]

OthersSame(o) == \A q \in Ops \ {o} : SameAt(q)

LEMMA SameKeeps == ASSUME NEW q \in Ops, OpInv(q), SameAt(q) PROVE OpInv(q)'
BY DEF OpInv, SameAt, Answered, Accounted, PipeState, Whole, Copying, CmdDone

(* What a step must do: keep the types and the invariant of its operation,  *)
(* leave the others alone, and move the slots with its place in run.        *)
SlotMove(o) ==
    \/ InRun(o)' = InRun(o) /\ slots' = slots
    \/ ~InRun(o) /\ InRun(o)' /\ slots < Concurrent /\ slots' = slots + 1
    \/ InRun(o) /\ ~InRun(o)' /\ slots' = slots - 1

Good(o) == TypeOK' /\ OpInv(o)' /\ OthersSame(o) /\ SlotMove(o)

LEMMA BeginGood ==
    ASSUME TypeOK, NEW o \in Ops, InRun(o) => slots > 0, OpInv(o), Begin(o) PROVE Good(o)
<1> USE RunnerAssumption
    DEF TypeOK, OpTypeOK, RunTypeOK, ProcTypeOK, Begin, Go, End, CmdDone, opVars, runVars, copyVars,
        procVars
<1>1. OpTypeOK'
  BY DEF Places
<1>2. RunTypeOK' /\ ProcTypeOK'
  OBVIOUS
<1>3. OthersSame(o)
  BY DEF OthersSame, SameAt
<1>4. OpInv(o)'
  BY DEF OpInv, Answered, Accounted, PipeState, Whole, Copying
<1>5. SlotMove(o)
  BY DEF SlotMove, InRun, Copying
<1> QED BY <1>1, <1>2, <1>3, <1>4, <1>5 DEF Good

LEMMA ExpireGood ==
    ASSUME TypeOK, NEW o \in Ops, InRun(o) => slots > 0, OpInv(o), Expire(o) PROVE Good(o)
<1> USE RunnerAssumption
    DEF TypeOK, OpTypeOK, RunTypeOK, ProcTypeOK, Expire, Go, End, CmdDone, opVars, runVars, copyVars,
        procVars
<1>1. OpTypeOK'
  BY DEF Places
<1>2. RunTypeOK' /\ ProcTypeOK'
  OBVIOUS
<1>3. OthersSame(o)
  BY DEF OthersSame, SameAt
<1>4. OpInv(o)'
  BY DEF OpInv, Answered, Accounted, PipeState, Whole, Copying
<1>5. SlotMove(o)
  BY DEF SlotMove, InRun, Copying
<1> QED BY <1>1, <1>2, <1>3, <1>4, <1>5 DEF Good

LEMMA ExecuteGood ==
    ASSUME TypeOK, NEW o \in Ops, InRun(o) => slots > 0, OpInv(o), Execute(o) PROVE Good(o)
<1> USE RunnerAssumption
    DEF TypeOK, OpTypeOK, RunTypeOK, ProcTypeOK, Execute, Go, End, CmdDone, opVars, runVars, copyVars,
        procVars
<1>1. OpTypeOK'
  BY DEF Places
<1>2. RunTypeOK' /\ ProcTypeOK'
  OBVIOUS
<1>3. OthersSame(o)
  BY DEF OthersSame, SameAt
<1>4. OpInv(o)'
  BY DEF OpInv, Answered, Accounted, PipeState, Whole, Copying
<1>5. SlotMove(o)
  BY DEF SlotMove, InRun, Copying
<1> QED BY <1>1, <1>2, <1>3, <1>4, <1>5 DEF Good

LEMMA AcquireGood ==
    ASSUME TypeOK, NEW o \in Ops, InRun(o) => slots > 0, OpInv(o), Acquire(o) PROVE Good(o)
<1> USE RunnerAssumption
    DEF TypeOK, OpTypeOK, RunTypeOK, ProcTypeOK, Acquire, Go, End, CmdDone, opVars, runVars, copyVars,
        procVars
<1>1. OpTypeOK'
  BY DEF Places
<1>2. RunTypeOK' /\ ProcTypeOK'
  OBVIOUS
<1>3. OthersSame(o)
  BY DEF OthersSame, SameAt
<1>4. OpInv(o)'
  BY DEF OpInv, Answered, Accounted, PipeState, Whole, Copying
<1>5. SlotMove(o)
  BY DEF SlotMove, InRun, Copying
<1> QED BY <1>1, <1>2, <1>3, <1>4, <1>5 DEF Good

LEMMA AcquireFailGood ==
    ASSUME TypeOK, NEW o \in Ops, InRun(o) => slots > 0, OpInv(o), AcquireFail(o) PROVE Good(o)
<1> USE RunnerAssumption
    DEF TypeOK, OpTypeOK, RunTypeOK, ProcTypeOK, AcquireFail, Go, End, CmdDone, opVars, runVars, copyVars,
        procVars
<1>1. OpTypeOK'
  BY DEF Places
<1>2. RunTypeOK' /\ ProcTypeOK'
  OBVIOUS
<1>3. OthersSame(o)
  BY DEF OthersSame, SameAt
<1>4. OpInv(o)'
  BY DEF OpInv, Answered, Accounted, PipeState, Whole, Copying
<1>5. SlotMove(o)
  BY DEF SlotMove, InRun, Copying
<1> QED BY <1>1, <1>2, <1>3, <1>4, <1>5 DEF Good

LEMMA OpenFailGood ==
    ASSUME TypeOK, NEW o \in Ops, InRun(o) => slots > 0, OpInv(o), OpenFail(o) PROVE Good(o)
<1> USE RunnerAssumption
    DEF TypeOK, OpTypeOK, RunTypeOK, ProcTypeOK, OpenFail, Go, End, CmdDone, opVars, runVars, copyVars,
        procVars
<1>1. OpTypeOK'
  BY DEF Places
<1>2. RunTypeOK' /\ ProcTypeOK'
  <2>1. slots - 1 \in Nat
    BY DEF InRun, Copying
  <2>2. CASE UNCHANGED <<copyVars, procVars>>
    BY <2>1, <2>2
  <2>3. CASE /\ copier' = [copier EXCEPT ![o] = "run"] /\ closed' = [closed EXCEPT ![o] = TRUE]
             /\ pipe' = [pipe EXCEPT ![o] = 0] /\ UNCHANGED <<proc, holder, wrote>>
    BY <2>1, <2>3
  <2> QED BY <2>2, <2>3
<1>3. OthersSame(o)
  BY DEF OthersSame, SameAt
<1>4. OpInv(o)'
  BY DEF OpInv, Answered, Accounted, PipeState, Whole, Copying
<1>5. SlotMove(o)
  BY DEF SlotMove, InRun, Copying
<1> QED BY <1>1, <1>2, <1>3, <1>4, <1>5 DEF Good

LEMMA OpenOutputGood ==
    ASSUME TypeOK, NEW o \in Ops, InRun(o) => slots > 0, OpInv(o), OpenOutput(o) PROVE Good(o)
<1> USE RunnerAssumption
    DEF TypeOK, OpTypeOK, RunTypeOK, ProcTypeOK, OpenOutput, Go, End, CmdDone, opVars, runVars, copyVars,
        procVars
<1>1. OpTypeOK'
  BY DEF Places
<1>2. RunTypeOK' /\ ProcTypeOK'
  OBVIOUS
<1>3. OthersSame(o)
  BY DEF OthersSame, SameAt
<1>4. OpInv(o)'
  BY DEF OpInv, Answered, Accounted, PipeState, Whole, Copying
<1>5. SlotMove(o)
  BY DEF SlotMove, InRun, Copying
<1> QED BY <1>1, <1>2, <1>3, <1>4, <1>5 DEF Good

LEMMA StartGood ==
    ASSUME TypeOK, NEW o \in Ops, InRun(o) => slots > 0, OpInv(o), Start(o) PROVE Good(o)
<1> USE RunnerAssumption
    DEF TypeOK, OpTypeOK, RunTypeOK, ProcTypeOK, Start, Go, End, CmdDone, opVars, runVars, copyVars,
        procVars
<1>1. OpTypeOK'
  BY DEF Places
<1>2. RunTypeOK' /\ ProcTypeOK'
  OBVIOUS
<1>3. OthersSame(o)
  BY DEF OthersSame, SameAt
<1>4. OpInv(o)'
  BY DEF OpInv, Answered, Accounted, PipeState, Whole, Copying
<1>5. SlotMove(o)
  BY DEF SlotMove, InRun, Copying
<1> QED BY <1>1, <1>2, <1>3, <1>4, <1>5 DEF Good

LEMMA WaitGood ==
    ASSUME TypeOK, NEW o \in Ops, InRun(o) => slots > 0, OpInv(o), Wait(o) PROVE Good(o)
<1> USE RunnerAssumption
    DEF TypeOK, OpTypeOK, RunTypeOK, ProcTypeOK, Wait, Go, End, CmdDone, opVars, runVars, copyVars,
        procVars
<1>1. OpTypeOK'
  BY DEF Places
<1>2. RunTypeOK' /\ ProcTypeOK'
  OBVIOUS
<1>3. OthersSame(o)
  BY DEF OthersSame, SameAt
<1>4. OpInv(o)'
  BY DEF OpInv, Answered, Accounted, PipeState, Whole, Copying
<1>5. SlotMove(o)
  BY DEF SlotMove, InRun, Copying
<1> QED BY <1>1, <1>2, <1>3, <1>4, <1>5 DEF Good

LEMMA DrainGood ==
    ASSUME TypeOK, NEW o \in Ops, InRun(o) => slots > 0, OpInv(o), Drain(o) PROVE Good(o)
<1> USE RunnerAssumption
    DEF TypeOK, OpTypeOK, RunTypeOK, ProcTypeOK, Drain, Go, End, CmdDone, opVars, runVars, copyVars,
        procVars
<1>1. OpTypeOK'
  BY DEF Places
<1>2. RunTypeOK' /\ ProcTypeOK'
  OBVIOUS
<1>3. OthersSame(o)
  BY DEF OthersSame, SameAt
<1>4. OpInv(o)'
  BY DEF OpInv, Answered, Accounted, PipeState, Whole, Copying
<1>5. SlotMove(o)
  BY DEF SlotMove, InRun, Copying
<1> QED BY <1>1, <1>2, <1>3, <1>4, <1>5 DEF Good

LEMMA DrainFinishedGood ==
    ASSUME TypeOK, NEW o \in Ops, InRun(o) => slots > 0, OpInv(o), DrainFinished(o) PROVE Good(o)
<1> USE RunnerAssumption
    DEF TypeOK, OpTypeOK, RunTypeOK, ProcTypeOK, DrainFinished, Go, End, CmdDone, opVars, runVars, copyVars,
        procVars
<1>1. OpTypeOK'
  BY DEF Places
<1>2. RunTypeOK' /\ ProcTypeOK'
  OBVIOUS
<1>3. OthersSame(o)
  BY DEF OthersSame, SameAt
<1>4. OpInv(o)'
  BY DEF OpInv, Answered, Accounted, PipeState, Whole, Copying
<1>5. SlotMove(o)
  BY DEF SlotMove, InRun, Copying
<1> QED BY <1>1, <1>2, <1>3, <1>4, <1>5 DEF Good

LEMMA DrainTimeoutGood ==
    ASSUME TypeOK, NEW o \in Ops, InRun(o) => slots > 0, OpInv(o), DrainTimeout(o) PROVE Good(o)
<1> USE RunnerAssumption
    DEF TypeOK, OpTypeOK, RunTypeOK, ProcTypeOK, DrainTimeout, Go, End, CmdDone, opVars, runVars, copyVars,
        procVars
<1>1. OpTypeOK'
  BY DEF Places
<1>2. RunTypeOK' /\ ProcTypeOK'
  OBVIOUS
<1>3. OthersSame(o)
  BY DEF OthersSame, SameAt
<1>4. OpInv(o)'
  BY DEF OpInv, Answered, Accounted, PipeState, Whole, Copying
<1>5. SlotMove(o)
  BY DEF SlotMove, InRun, Copying
<1> QED BY <1>1, <1>2, <1>3, <1>4, <1>5 DEF Good

LEMMA CloseReadersGood ==
    ASSUME TypeOK, NEW o \in Ops, InRun(o) => slots > 0, OpInv(o), CloseReaders(o) PROVE Good(o)
<1> USE RunnerAssumption
    DEF TypeOK, OpTypeOK, RunTypeOK, ProcTypeOK, CloseReaders, Go, End, CmdDone, opVars, runVars, copyVars,
        procVars
<1>1. OpTypeOK'
  BY DEF Places
<1>2. RunTypeOK' /\ ProcTypeOK'
  OBVIOUS
<1>3. OthersSame(o)
  BY DEF OthersSame, SameAt
<1>4. OpInv(o)'
  BY DEF OpInv, Answered, Accounted, PipeState, Whole, Copying
<1>5. SlotMove(o)
  BY DEF SlotMove, InRun, Copying
<1> QED BY <1>1, <1>2, <1>3, <1>4, <1>5 DEF Good

LEMMA JoinGood ==
    ASSUME TypeOK, NEW o \in Ops, InRun(o) => slots > 0, OpInv(o), Join(o) PROVE Good(o)
<1> USE RunnerAssumption
    DEF TypeOK, OpTypeOK, RunTypeOK, ProcTypeOK, Join, Go, End, CmdDone, opVars, runVars, copyVars,
        procVars
<1>1. OpTypeOK'
  BY DEF Places
<1>2. RunTypeOK' /\ ProcTypeOK'
  OBVIOUS
<1>3. OthersSame(o)
  BY DEF OthersSame, SameAt
<1>4. OpInv(o)'
  BY DEF OpInv, Answered, Accounted, PipeState, Whole, Copying
<1>5. SlotMove(o)
  BY DEF SlotMove, InRun, Copying
<1> QED BY <1>1, <1>2, <1>3, <1>4, <1>5 DEF Good

LEMMA ResultGood ==
    ASSUME TypeOK, NEW o \in Ops, InRun(o) => slots > 0, OpInv(o), Result(o) PROVE Good(o)
<1> USE RunnerAssumption
    DEF TypeOK, OpTypeOK, RunTypeOK, ProcTypeOK, Result, Go, End, CmdDone, opVars, runVars, copyVars,
        procVars
<1>1. OpTypeOK'
  BY DEF Places, Charge, OpInv, Accounted, Effect
<1>2. RunTypeOK' /\ ProcTypeOK'
  <2>1. slots - 1 \in Nat
    BY DEF InRun, Copying
  <2> QED BY <2>1
<1>3. OthersSame(o)
  BY DEF OthersSame, SameAt
<1>4. OpInv(o)'
  <2>1. CASE failed[o] \/ CmdDone(o)
    BY <2>1 DEF OpInv, Answered, Accounted, PipeState, Whole, Copying, Charge, Effect
  <2>2. CASE ~(failed[o] \/ CmdDone(o))
    BY <2>2 DEF OpInv, Answered, Accounted, PipeState, Whole, Copying, Charge, Effect
  <2> QED BY <2>1, <2>2
<1>5. SlotMove(o)
  BY DEF SlotMove, InRun, Copying
<1> QED BY <1>1, <1>2, <1>3, <1>4, <1>5 DEF Good

LEMMA AfterGood ==
    ASSUME TypeOK, NEW o \in Ops, InRun(o) => slots > 0, OpInv(o), After(o) PROVE Good(o)
<1> USE RunnerAssumption
    DEF TypeOK, OpTypeOK, RunTypeOK, ProcTypeOK, After, Go, End, CmdDone, opVars, runVars, copyVars,
        procVars
<1>1. OpTypeOK'
  BY DEF Places
<1>2. RunTypeOK' /\ ProcTypeOK'
  OBVIOUS
<1>3. OthersSame(o)
  BY DEF OthersSame, SameAt
<1>4. OpInv(o)'
  <2>1. CASE Go(o, "execute")
    BY <2>1 DEF OpInv, Answered, Accounted, PipeState, Whole, Copying
  <2>2. CASE End(o, "confirmed") \/ End(o, "ok")
    BY <2>2 DEF OpInv, Answered, Accounted, PipeState, Whole, Copying
  <2> QED BY <2>1, <2>2
<1>5. SlotMove(o)
  BY DEF SlotMove, InRun, Copying
<1> QED BY <1>1, <1>2, <1>3, <1>4, <1>5 DEF Good

LEMMA CopyGood ==
    ASSUME TypeOK, NEW o \in Ops, InRun(o) => slots > 0, OpInv(o), Copy(o) PROVE Good(o)
<1> USE RunnerAssumption
    DEF TypeOK, OpTypeOK, RunTypeOK, ProcTypeOK, Copy, Go, End, CmdDone, opVars, runVars, copyVars,
        procVars
<1>1. OpTypeOK'
  BY DEF Places
<1>2. RunTypeOK' /\ ProcTypeOK'
  <2>1. CASE Room(o)
    BY <2>1
  <2>2. CASE ~Room(o)
    <3>1. pipe[o] - 1 \in Nat
      OBVIOUS
    <3>2. limit' = [limit EXCEPT ![o] = TRUE] /\ buf' = buf
      BY <2>2
    <3> QED BY <3>1, <3>2
  <2> QED BY <2>1, <2>2
<1>3. OthersSame(o)
  BY DEF OthersSame, SameAt
<1>4. OpInv(o)'
  <2>1. CASE Room(o)
    BY <2>1 DEF OpInv, Answered, Accounted, PipeState, Whole, Copying, Room
  <2>2. CASE ~Room(o)
    BY <2>2 DEF OpInv, Answered, Accounted, PipeState, Whole, Copying, Room
  <2> QED BY <2>1, <2>2
<1>5. SlotMove(o)
  BY DEF SlotMove, InRun, Copying
<1> QED BY <1>1, <1>2, <1>3, <1>4, <1>5 DEF Good

LEMMA CopyEndGood ==
    ASSUME TypeOK, NEW o \in Ops, InRun(o) => slots > 0, OpInv(o), CopyEnd(o) PROVE Good(o)
<1> USE RunnerAssumption
    DEF TypeOK, OpTypeOK, RunTypeOK, ProcTypeOK, CopyEnd, Go, End, CmdDone, opVars, runVars, copyVars,
        procVars
<1>1. OpTypeOK'
  BY DEF Places
<1>2. RunTypeOK' /\ ProcTypeOK'
  OBVIOUS
<1>3. OthersSame(o)
  BY DEF OthersSame, SameAt
<1>4. OpInv(o)'
  BY DEF OpInv, Answered, Accounted, PipeState, Whole, Copying
<1>5. SlotMove(o)
  BY DEF SlotMove, InRun, Copying
<1> QED BY <1>1, <1>2, <1>3, <1>4, <1>5 DEF Good

LEMMA ProcWriteGood ==
    ASSUME TypeOK, NEW o \in Ops, InRun(o) => slots > 0, OpInv(o), ProcWrite(o) PROVE Good(o)
<1> USE RunnerAssumption
    DEF TypeOK, OpTypeOK, RunTypeOK, ProcTypeOK, ProcWrite, Go, End, CmdDone, opVars, runVars, copyVars,
        procVars
<1>1. OpTypeOK'
  BY DEF Places
<1>2. RunTypeOK' /\ ProcTypeOK'
  OBVIOUS
<1>3. OthersSame(o)
  BY DEF OthersSame, SameAt
<1>4. OpInv(o)'
  BY DEF OpInv, Answered, Accounted, PipeState, Whole, Copying
<1>5. SlotMove(o)
  BY DEF SlotMove, InRun, Copying
<1> QED BY <1>1, <1>2, <1>3, <1>4, <1>5 DEF Good

LEMMA ProcExitGood ==
    ASSUME TypeOK, NEW o \in Ops, InRun(o) => slots > 0, OpInv(o), ProcExit(o) PROVE Good(o)
<1> USE RunnerAssumption
    DEF TypeOK, OpTypeOK, RunTypeOK, ProcTypeOK, ProcExit, Go, End, CmdDone, opVars, runVars, copyVars,
        procVars
<1>1. OpTypeOK'
  BY DEF Places
<1>2. RunTypeOK' /\ ProcTypeOK'
  OBVIOUS
<1>3. OthersSame(o)
  BY DEF OthersSame, SameAt
<1>4. OpInv(o)'
  BY DEF OpInv, Answered, Accounted, PipeState, Whole, Copying
<1>5. SlotMove(o)
  BY DEF SlotMove, InRun, Copying
<1> QED BY <1>1, <1>2, <1>3, <1>4, <1>5 DEF Good

LEMMA ProcKillGood ==
    ASSUME TypeOK, NEW o \in Ops, InRun(o) => slots > 0, OpInv(o), ProcKill(o) PROVE Good(o)
<1> USE RunnerAssumption
    DEF TypeOK, OpTypeOK, RunTypeOK, ProcTypeOK, ProcKill, Go, End, CmdDone, opVars, runVars, copyVars,
        procVars
<1>1. OpTypeOK'
  BY DEF Places
<1>2. RunTypeOK' /\ ProcTypeOK'
  OBVIOUS
<1>3. OthersSame(o)
  BY DEF OthersSame, SameAt
<1>4. OpInv(o)'
  BY DEF OpInv, Answered, Accounted, PipeState, Whole, Copying
<1>5. SlotMove(o)
  BY DEF SlotMove, InRun, Copying
<1> QED BY <1>1, <1>2, <1>3, <1>4, <1>5 DEF Good

LEMMA HolderEndGood ==
    ASSUME TypeOK, NEW o \in Ops, InRun(o) => slots > 0, OpInv(o), HolderEnd(o) PROVE Good(o)
<1> USE RunnerAssumption
    DEF TypeOK, OpTypeOK, RunTypeOK, ProcTypeOK, HolderEnd, Go, End, CmdDone, opVars, runVars, copyVars,
        procVars
<1>1. OpTypeOK'
  BY DEF Places
<1>2. RunTypeOK' /\ ProcTypeOK'
  OBVIOUS
<1>3. OthersSame(o)
  BY DEF OthersSame, SameAt
<1>4. OpInv(o)'
  BY DEF OpInv, Answered, Accounted, PipeState, Whole, Copying
<1>5. SlotMove(o)
  BY DEF SlotMove, InRun, Copying
<1> QED BY <1>1, <1>2, <1>3, <1>4, <1>5 DEF Good

-----------------------------------------------------------------------------
(* The slots are counted through the moves.                                 *)
LEMMA SlotsKept ==
    ASSUME TypeOK, SlotsCounted, NEW o \in Ops, OthersSame(o), SlotMove(o)
    PROVE  SlotsCounted'
<1> USE RunnerAssumption DEF SlotsCounted
<1>1. IsFiniteSet(Running) /\ Running \subseteq Ops
  BY FS_Subset DEF Running
<1>2. \A q \in Ops \ {o} : InRun(q)' = InRun(q)
  BY DEF OthersSame, SameAt, InRun, Copying
<1>3. CASE InRun(o)' = InRun(o) /\ slots' = slots
  <2>1. Running' = Running
    BY <1>2, <1>3 DEF Running
  <2> QED BY <2>1, <1>3
<1>4. CASE ~InRun(o) /\ InRun(o)' /\ slots < Concurrent /\ slots' = slots + 1
  <2>1. Running' = Running \cup {o} /\ o \notin Running
    BY <1>2, <1>4 DEF Running
  <2>2. Cardinality(Running') = Cardinality(Running) + 1
    BY <1>1, <2>1, FS_AddElement
  <2> QED BY <2>2, <1>4 DEF TypeOK, RunTypeOK
<1>5. CASE InRun(o) /\ ~InRun(o)' /\ slots' = slots - 1
  <2>1. Running' = Running \ {o} /\ o \in Running
    BY <1>2, <1>5 DEF Running
  <2>2. Cardinality(Running') = Cardinality(Running) - 1
    BY <1>1, <2>1, FS_RemoveElement
  <2> QED BY <2>2, <1>5 DEF TypeOK, RunTypeOK
<1> QED BY <1>3, <1>4, <1>5 DEF SlotMove

\* An operation inside run holds a slot.
LEMMA RunHoldsASlot == ASSUME TypeOK, SlotsCounted, NEW o \in Ops, InRun(o) PROVE slots > 0
<1>1. IsFiniteSet(Running) /\ o \in Running
  BY RunnerAssumption, FS_Subset DEF Running
<1>2. Cardinality(Running) \in Nat /\ Cardinality(Running) # 0
  BY <1>1, FS_CardinalityType, FS_EmptySet
<1> QED BY <1>2 DEF SlotsCounted

LEMMA RunnerInitially == Init => RunnerInv
<1> SUFFICES ASSUME Init PROVE RunnerInv
  OBVIOUS
<1> USE RunnerAssumption DEF Init
<1>1. TypeOK
  BY DEF TypeOK, OpTypeOK, RunTypeOK, ProcTypeOK, Places
<1>2. \A o \in Ops : OpInv(o)
  BY DEF OpInv, Answered, Accounted, PipeState, Whole, Copying
<1>3. Running = {}
  BY DEF Running, InRun, Copying
<1>4. SlotsCounted
  BY <1>3, FS_EmptySet DEF SlotsCounted
<1> QED BY <1>1, <1>2, <1>4 DEF RunnerInv

\* One step of one operation.
OpStep(o) ==
    \/ Begin(o) \/ Expire(o) \/ CodeStep(o) \/ CopyStep(o)
    \/ ProcWrite(o) \/ ProcExit(o) \/ ProcKill(o) \/ HolderEnd(o)

LEMMA OpStepGood == ASSUME RunnerInv, NEW o \in Ops, OpStep(o) PROVE Good(o)
<1>0. TypeOK /\ OpInv(o) /\ (InRun(o) => slots > 0)
  BY RunHoldsASlot DEF RunnerInv
<1>1. CASE Begin(o)
  BY <1>0, <1>1, BeginGood
<1>2. CASE Expire(o)
  BY <1>0, <1>2, ExpireGood
<1>3. CASE Execute(o)
  BY <1>0, <1>3, ExecuteGood
<1>4. CASE Acquire(o)
  BY <1>0, <1>4, AcquireGood
<1>5. CASE AcquireFail(o)
  BY <1>0, <1>5, AcquireFailGood
<1>6. CASE OpenFail(o)
  BY <1>0, <1>6, OpenFailGood
<1>7. CASE OpenOutput(o)
  BY <1>0, <1>7, OpenOutputGood
<1>8. CASE Start(o)
  BY <1>0, <1>8, StartGood
<1>9. CASE Wait(o)
  BY <1>0, <1>9, WaitGood
<1>10. CASE Drain(o)
  BY <1>0, <1>10, DrainGood
<1>11. CASE DrainFinished(o)
  BY <1>0, <1>11, DrainFinishedGood
<1>12. CASE DrainTimeout(o)
  BY <1>0, <1>12, DrainTimeoutGood
<1>13. CASE CloseReaders(o)
  BY <1>0, <1>13, CloseReadersGood
<1>14. CASE Join(o)
  BY <1>0, <1>14, JoinGood
<1>15. CASE Result(o)
  BY <1>0, <1>15, ResultGood
<1>16. CASE After(o)
  BY <1>0, <1>16, AfterGood
<1>17. CASE Copy(o)
  BY <1>0, <1>17, CopyGood
<1>18. CASE CopyEnd(o)
  BY <1>0, <1>18, CopyEndGood
<1>19. CASE ProcWrite(o)
  BY <1>0, <1>19, ProcWriteGood
<1>20. CASE ProcExit(o)
  BY <1>0, <1>20, ProcExitGood
<1>21. CASE ProcKill(o)
  BY <1>0, <1>21, ProcKillGood
<1>22. CASE HolderEnd(o)
  BY <1>0, <1>22, HolderEndGood
<1> QED
  BY <1>1, <1>2, <1>3, <1>4, <1>5, <1>6, <1>7, <1>8, <1>9, <1>10, <1>11,
     <1>12, <1>13, <1>14, <1>15, <1>16, <1>17, <1>18, <1>19, <1>20, <1>21, <1>22
  DEF OpStep, CodeStep, CopyStep

LEMMA RunnerStep == RunnerInv /\ [Next]_vars => RunnerInv'
<1> SUFFICES ASSUME RunnerInv, [Next]_vars PROVE RunnerInv'
  OBVIOUS
<1>0. TypeOK /\ SlotsCounted /\ \A o \in Ops : OpInv(o)
  BY DEF RunnerInv
<1>1. CASE Next
  <2>1. PICK o \in Ops : OpStep(o)
    BY <1>1 DEF Next, OpStep
  <2>2. Good(o)
    BY <2>1, OpStepGood
  <2>3. \A q \in Ops : OpInv(q)'
    BY <1>0, <2>2, SameKeeps DEF Good, OthersSame
  <2>4. SlotsCounted'
    BY <1>0, <2>2, SlotsKept DEF Good
  <2> QED BY <2>2, <2>3, <2>4 DEF Good, RunnerInv
<1>2. CASE UNCHANGED vars
  <2> USE <1>2 DEF vars, opVars, runVars, copyVars, procVars
  <2>1. TypeOK'
    BY <1>0 DEF TypeOK, OpTypeOK, RunTypeOK, ProcTypeOK
  <2>2. \A q \in Ops : OpInv(q)'
    BY <1>0, SameKeeps DEF SameAt
  <2>3. Running' = Running
    BY DEF Running, InRun, Copying
  <2> QED BY <1>0, <2>1, <2>2, <2>3 DEF SlotsCounted, RunnerInv
<1> QED BY <1>1, <1>2

LEMMA RunnerAlways == Spec => []RunnerInv
BY RunnerInitially, RunnerStep, PTL DEF Spec

(* However many operations share the slots, none leaks on an early return   *)
(* and none is freed twice, no more than Concurrent are in use, and what an *)
(* operation collects over all of its steps stays within OutputBytes.       *)
THEOREM LimitsAreKept == Spec => []LimitsHold
<1>1. RunnerInv => LimitsHold
  <2> SUFFICES ASSUME RunnerInv PROVE LimitsHold
    OBVIOUS
  <2>1. ASSUME NEW o \in Ops
        PROVE  total[o] + (IF Copying(o) \/ pc[o] = "result" THEN buf[o] ELSE 0) <= OutputBytes
    BY RunnerAssumption DEF RunnerInv, OpInv, Accounted, TypeOK, OpTypeOK, RunTypeOK
  <2> QED BY <2>1 DEF RunnerInv, SlotsCounted, Running, LimitsHold
<1> QED BY <1>1, RunnerAlways, PTL

(* run reads a buffer that nobody writes any more, and a command that       *)
(* counts as done exited with success and its output is whole.              *)
THEOREM DoneIsWhole == Spec => []SuccessIsWhole
<1>1. RunnerInv => SuccessIsWhole
  BY DEF RunnerInv, OpInv, PipeState, Whole, Copying, SuccessIsWhole
<1> QED BY <1>1, RunnerAlways, PTL

(* An operation that says its command was not sent has started no process   *)
(* for it.                                                                  *)
THEOREM NotSentStartedNothing == Spec => []NotSentIsHonest
<1>1. RunnerInv => NotSentIsHonest
  BY DEF RunnerInv, OpInv, Answered, NotSentIsHonest
<1> QED BY <1>1, RunnerAlways, PTL

-----------------------------------------------------------------------------
(* Refinement: the executor keeps the promise of RequestPromise.  What is   *)
(* added to RunnerInv relates the daemon's part to the operation's place:   *)
(* it has run nothing that no process was started for, and it has run what  *)
(* a process that succeeded was started for.                                *)
DaemonAt(o) ==
    /\ pc[o] = "idle" <=> step[o] = 0
    /\ step[o] <= Steps
    /\ ran[o] => started[o]
    /\ pc[o] \in {"wait", "drain", "draining", "close", "join", "result", "after"}
          /\ proc[o] = "ok" => ran[o]
    /\ outcome[o] \in {"confirmed", "ok"} => ran[o]

DaemonInv == ran \in [Ops -> BOOLEAN] /\ \A o \in Ops : DaemonAt(o)

(* What a step of an operation is to its commands.                          *)
Stays(o) ==
    /\ pc[o] \notin {"idle", "execute", "returned"} /\ pc'[o] \notin {"idle", "execute", "returned"}
    /\ step'[o] = step[o] /\ outcome'[o] = outcome[o]

Waits(o) == pc'[o] = pc[o] /\ step'[o] = step[o] /\ outcome'[o] = outcome[o]

Begins(o) ==
    /\ pc[o] = "idle" /\ pc'[o] = "execute" /\ step'[o] = 1 /\ outcome'[o] = outcome[o]

Calls(o) ==
    /\ pc[o] = "execute" /\ pc'[o] \notin {"idle", "execute", "returned"}
    /\ step'[o] = step[o] /\ outcome'[o] = outcome[o]

Returns(o) ==
    /\ pc[o] \notin {"idle", "returned"} /\ pc'[o] = "returned" /\ step'[o] = step[o]
    /\ \/ outcome'[o] = "unknown"
       \/ outcome'[o] = "notSent" /\ ~started[o]
       \/ outcome'[o] \in {"confirmed", "ok"} /\ pc[o] = "after"

GoesOn(o) ==
    /\ pc[o] = "after" /\ pc'[o] = "execute" /\ step[o] < Steps /\ step'[o] = step[o] + 1
    /\ outcome'[o] = outcome[o]

Kinds(o) == Waits(o) \/ Stays(o) \/ Begins(o) \/ Calls(o) \/ Returns(o) \/ GoesOn(o)

OtherCommandsSame(o) ==
    \A q \in Ops \ {o} : pc'[q] = pc[q] /\ step'[q] = step[q] /\ outcome'[q] = outcome[q]

LEMMA StepKinds ==
    ASSUME TypeOK, NEW o \in Ops, OpInv(o), step[o] <= Steps, OpStep(o)
    PROVE  Kinds(o) /\ OtherCommandsSame(o)
<1> USE DEF TypeOK, OpTypeOK, Go, End, opVars, Kinds, OtherCommandsSame
<1>1. CASE Begin(o)
  BY <1>1 DEF Begin, Begins
<1>2. CASE Expire(o) \/ ProcWrite(o) \/ ProcExit(o) \/ ProcKill(o) \/ HolderEnd(o) \/ CopyStep(o)
  BY <1>2 DEF Expire, ProcWrite, ProcExit, ProcKill, HolderEnd, CopyStep, Copy, CopyEnd, Waits
<1>3. CASE Execute(o)
  <2>1. ~started[o]
    BY <1>3 DEF Execute, OpInv, Answered
  <2> QED BY <1>3, <2>1 DEF Execute, Calls, Returns
<1>4. CASE AcquireFail(o) \/ OpenFail(o)
  <2>1. ~started[o]
    BY <1>4 DEF AcquireFail, OpenFail, OpInv, Answered
  <2> QED BY <1>4, <2>1 DEF AcquireFail, OpenFail, Returns
<1>5. CASE \/ Acquire(o) \/ OpenOutput(o) \/ Start(o) \/ Wait(o) \/ Drain(o) \/ DrainFinished(o)
           \/ DrainTimeout(o) \/ CloseReaders(o) \/ Join(o)
  BY <1>5 DEF Acquire, OpenOutput, Start, Wait, Drain, DrainFinished, DrainTimeout, CloseReaders,
     Join, Stays
<1>6. CASE Result(o)
  <2>1. CASE failed[o] \/ CmdDone(o)
    BY <1>6, <2>1 DEF Result, Effect, Returns
  <2>2. CASE ~(failed[o] \/ CmdDone(o))
    BY <1>6, <2>2 DEF Result, Stays
  <2> QED BY <2>1, <2>2
<1>7. CASE After(o)
  <2>1. CASE Go(o, "execute")
    BY <1>7, <2>1 DEF After, GoesOn
  <2>2. CASE End(o, "confirmed") \/ End(o, "ok")
    BY <1>7, <2>2 DEF After, Returns
  <2> QED BY <1>7, <2>1, <2>2 DEF After
<1> QED
  BY <1>1, <1>2, <1>3, <1>4, <1>5, <1>6, <1>7 DEF OpStep, CodeStep

\* The daemon's part through a step of the operation.
RanMoves == ran' = [q \in Ops |-> ran[q] /\ step'[q] = step[q]]

LEMMA DaemonKept ==
    ASSUME TypeOK, NEW o \in Ops, OpInv(o), ran \in [Ops -> BOOLEAN], DaemonAt(o),
           OpStep(o), HeardOf(o), RanMoves
    PROVE  DaemonAt(o)'
<1> USE RunnerAssumption DEF TypeOK, OpTypeOK, RunTypeOK, ProcTypeOK, Go, End, opVars, runVars,
        copyVars, procVars, DaemonAt
<1>1. ran'[o] = (ran[o] /\ step'[o] = step[o])
  BY DEF RanMoves
<1>2. pc[o] \in {"idle", "execute", "acquire", "open", "start"} => ~ran[o]
  BY DEF OpInv, Answered
<1>3. CASE Begin(o)
  BY <1>1, <1>2, <1>3 DEF Begin, OpInv, Answered
<1>4. CASE Expire(o) \/ ProcWrite(o) \/ HolderEnd(o) \/ CopyStep(o)
  BY <1>1, <1>4 DEF Expire, ProcWrite, HolderEnd, CopyStep, Copy, CopyEnd
<1>5. CASE ProcExit(o)
  BY <1>1, <1>5 DEF ProcExit, HeardOf
<1>6. CASE ProcKill(o)
  BY <1>1, <1>6 DEF ProcKill
<1>7. CASE Execute(o) \/ Acquire(o) \/ AcquireFail(o)
  BY <1>1, <1>2, <1>7 DEF Execute, Acquire, AcquireFail, OpInv, Answered
<1>8. CASE OpenFail(o)
  BY <1>1, <1>2, <1>8 DEF OpenFail, OpInv, Answered
<1>9. CASE OpenOutput(o)
  BY <1>1, <1>2, <1>9 DEF OpenOutput, OpInv, Answered
<1>10. CASE Start(o)
  <2>1. proc[o] = "none"
    BY <1>10 DEF Start, OpInv, PipeState
  <2>2. proc'[o] # "ok" /\ step' = step /\ outcome' = outcome /\ pc'[o] # "idle" /\ pc[o] # "idle"
    BY <1>10, <2>1 DEF Start
  <2> QED BY <1>1, <1>2, <1>10, <2>2 DEF Start
<1>11. CASE Wait(o)
  BY <1>1, <1>11 DEF Wait
<1>12. CASE Drain(o) \/ DrainFinished(o) \/ DrainTimeout(o) \/ CloseReaders(o) \/ Join(o)
  BY <1>1, <1>12 DEF Drain, DrainFinished, DrainTimeout, CloseReaders, Join
<1>13. CASE Result(o)
  <2>1. UNCHANGED <<step, started, proc>> /\ pc[o] = "result"
    BY <1>13 DEF Result
  <2>2. CASE failed[o] \/ CmdDone(o)
    BY <1>1, <1>13, <2>1, <2>2 DEF Result, Effect, OpInv, Answered
  <2>3. CASE ~(failed[o] \/ CmdDone(o))
    BY <1>1, <1>13, <2>1, <2>3 DEF Result
  <2> QED BY <2>2, <2>3
<1>14. CASE After(o)
  <2>1. pc[o] = "after" /\ proc[o] = "ok" /\ proc' = proc /\ ran[o]
    BY <1>14 DEF After, OpInv, Whole
  <2>2. CASE Go(o, "execute")
    <3>1. step'[o] = step[o] + 1 /\ step[o] < Steps /\ outcome' = outcome /\ pc'[o] = "execute"
      BY <1>14, <2>2 DEF After
    <3>2. outcome[o] = "none"
      BY <2>1 DEF OpInv, Answered
    <3>3. step[o] \in Nat
      OBVIOUS
    <3>4. step'[o] # step[o]
      BY <3>1, <3>3
    <3>5. ~ran'[o]
      BY <1>1, <3>4
    <3> QED BY <3>1, <3>2, <3>3, <3>5
  <2>3. CASE End(o, "confirmed") \/ End(o, "ok")
    BY <1>1, <1>14, <2>1, <2>3 DEF After
  <2> QED BY <1>14, <2>2, <2>3 DEF After
<1> QED
  BY <1>3, <1>4, <1>5, <1>6, <1>7, <1>8, <1>9, <1>10, <1>11, <1>12, <1>13, <1>14
  DEF OpStep, CodeStep

\* The step of another operation.
LEMMA DaemonOthers ==
    ASSUME ran \in [Ops -> BOOLEAN], NEW o \in Ops, NEW q \in Ops \ {o}, DaemonAt(q),
           OthersSame(o), OtherCommandsSame(o), RanMoves
    PROVE  DaemonAt(q)'
<1>1. ran'[q] = ran[q] /\ step'[q] = step[q]
  BY DEF RanMoves, OtherCommandsSame
<1> QED BY <1>1 DEF DaemonAt, OthersSame, SameAt

\* The daemon runs a command.
LEMMA DaemonRunsKept ==
    ASSUME ran \in [Ops -> BOOLEAN], NEW o \in Ops, DaemonRuns(o), \A q \in Ops : DaemonAt(q)
    PROVE  \A q \in Ops : DaemonAt(q)'
BY DEF DaemonRuns, DaemonAt, vars, opVars, runVars, copyVars, procVars

\* Which operation moves in a step of the runner.
LEMMA OneMoves ==
    ASSUME RunnerInv, RunnerMoves
    PROVE  \E o \in Ops : OpStep(o) /\ Good(o) /\ HeardOf(o) /\ RanMoves
<1>1. PICK o \in Ops : OpStep(o)
  BY DEF RunnerMoves, Next, OpStep
<1>2. Good(o)
  BY <1>1, OpStepGood
<1> QED BY <1>1, <1>2 DEF RunnerMoves, RanMoves

\* The mapped variables, and the steps of RequestPromise in terms of them.
phaseBar   == [c \in Commands |-> PhaseOf(c)]
execsBar   == [c \in Commands |-> ExecsOf(c)]
outcomeBar == [c \in Commands |-> OutcomeOf(c)]

PromiseStill == phaseBar' = phaseBar /\ execsBar' = execsBar /\ outcomeBar' = outcomeBar

PromiseStep(c) ==
    \/ /\ phaseBar[c] = "idle" /\ phaseBar' = [phaseBar EXCEPT ![c] = "called"]
       /\ execsBar' = execsBar /\ outcomeBar' = outcomeBar
    \/ /\ phaseBar[c] # "idle" /\ execsBar[c] = 0 /\ outcomeBar[c] \in {"none", "unknown"}
       /\ execsBar' = [execsBar EXCEPT ![c] = 1]
       /\ phaseBar' = phaseBar /\ outcomeBar' = outcomeBar
    \/ /\ phaseBar[c] # "returned" /\ phaseBar' = [phaseBar EXCEPT ![c] = "returned"]
       /\ \E e \in {"unknown"} \cup (IF execsBar[c] = 0 THEN {"notSent"} ELSE {"confirmed"}) :
             outcomeBar' = [outcomeBar EXCEPT ![c] = e]
       /\ execsBar' = execsBar

\* All commands but one are as they were.
SameBut(C) ==
    \A c \in Commands \ C :
        PhaseOf(c)' = PhaseOf(c) /\ ExecsOf(c)' = ExecsOf(c) /\ OutcomeOf(c)' = OutcomeOf(c)

LEMMA SamePromise == ASSUME SameBut({}) PROVE PromiseStill
BY DEF SameBut, PromiseStill, phaseBar, execsBar, outcomeBar

LEMMA OnePromise ==
    ASSUME NEW c \in Commands, SameBut({c}),
           \/ /\ PhaseOf(c) = "idle" /\ PhaseOf(c)' = "called"
              /\ ExecsOf(c)' = ExecsOf(c) /\ OutcomeOf(c)' = OutcomeOf(c)
           \/ /\ PhaseOf(c) # "idle" /\ ExecsOf(c) = 0 /\ OutcomeOf(c) \in {"none", "unknown"}
              /\ ExecsOf(c)' = 1 /\ PhaseOf(c)' = PhaseOf(c) /\ OutcomeOf(c)' = OutcomeOf(c)
           \/ /\ PhaseOf(c) # "returned" /\ PhaseOf(c)' = "returned" /\ ExecsOf(c)' = ExecsOf(c)
              /\ \/ OutcomeOf(c)' = "unknown"
                 \/ OutcomeOf(c)' = "notSent" /\ ExecsOf(c) = 0
                 \/ OutcomeOf(c)' = "confirmed" /\ ExecsOf(c) # 0
    PROVE  PromiseStep(c)
<1>1. /\ phaseBar' = [phaseBar EXCEPT ![c] = PhaseOf(c)']
      /\ execsBar' = [execsBar EXCEPT ![c] = ExecsOf(c)']
      /\ outcomeBar' = [outcomeBar EXCEPT ![c] = OutcomeOf(c)']
  BY DEF SameBut, phaseBar, execsBar, outcomeBar
<1>2. phaseBar[c] = PhaseOf(c) /\ execsBar[c] = ExecsOf(c) /\ outcomeBar[c] = OutcomeOf(c)
  BY DEF phaseBar, execsBar, outcomeBar
<1>3. /\ ExecsOf(c)' = ExecsOf(c) => execsBar' = execsBar
      /\ PhaseOf(c)' = PhaseOf(c) => phaseBar' = phaseBar
      /\ OutcomeOf(c)' = OutcomeOf(c) => outcomeBar' = outcomeBar
  BY DEF SameBut, phaseBar, execsBar, outcomeBar
<1> QED BY <1>1, <1>2, <1>3 DEF PromiseStep

\* Commands of operations that do not move, and past and future ones of the one that does.
LEMMA OthersPromise ==
    ASSUME OpTypeOK, ran \in [Ops -> BOOLEAN], NEW o \in Ops, OtherCommandsSame(o),
           \A q \in Ops \ {o} : ran'[q] = ran[q]
    PROVE  \A c \in Commands : c[1] # o =>
              PhaseOf(c)' = PhaseOf(c) /\ ExecsOf(c)' = ExecsOf(c) /\ OutcomeOf(c)' = OutcomeOf(c)
BY DEF OtherCommandsSame, Commands, PhaseOf, ExecsOf, OutcomeOf, Earlier, Current

LEMMA StepPromise ==
    ASSUME OpTypeOK, ran \in [Ops -> BOOLEAN], NEW o \in Ops, OpInv(o), DaemonAt(o),
           Kinds(o), OtherCommandsSame(o), RanMoves
    PROVE  (\E c \in Commands : PromiseStep(c)) \/ PromiseStill
<1> USE RunnerAssumption DEF OpTypeOK
<1>1. \A q \in Ops : step'[q] = step[q] => ran'[q] = ran[q]
  BY DEF RanMoves
<1>2. \A c \in Commands : c[1] # o =>
          PhaseOf(c)' = PhaseOf(c) /\ ExecsOf(c)' = ExecsOf(c) /\ OutcomeOf(c)' = OutcomeOf(c)
  BY <1>1, OthersPromise DEF OtherCommandsSame
<1>3. PICK i \in Nat : step[o] = i /\ i <= Steps
  BY DEF DaemonAt
<1>4. \A c \in Commands : c[1] = o => c = <<o, c[2]>> /\ c[2] \in 1..Steps
  BY DEF Commands
<1>5. CASE Waits(o) \/ Stays(o)
  <2>1. \A c \in Commands : c[1] = o =>
            PhaseOf(c)' = PhaseOf(c) /\ ExecsOf(c)' = ExecsOf(c) /\ OutcomeOf(c)' = OutcomeOf(c)
    BY <1>1, <1>4, <1>5 DEF Waits, Stays, PhaseOf, ExecsOf, OutcomeOf, Earlier, Current
  <2> QED BY <1>2, <2>1, SamePromise DEF SameBut
<1>6. CASE Begins(o)
  <2>1. ~ran[o] /\ ~ran'[o] /\ outcome[o] = "none" /\ i = 0
    BY <1>3, <1>6 DEF Begins, RanMoves, OpInv, Answered, DaemonAt
  <2>2. \A c \in Commands : c[1] = o =>
            PhaseOf(c)' = PhaseOf(c) /\ ExecsOf(c)' = ExecsOf(c) /\ OutcomeOf(c)' = OutcomeOf(c)
    BY <1>3, <1>4, <1>6, <2>1 DEF Begins, PhaseOf, ExecsOf, OutcomeOf, Earlier, Current
  <2> QED BY <1>2, <2>2, SamePromise DEF SameBut
<1>7. ASSUME i # 0
      PROVE <<o, i>> \in Commands /\ \A c \in Commands : c # <<o, i>> /\ c[1] = o => c[2] # i
  BY <1>3, <1>4, <1>7 DEF Commands
<1>8. CASE Calls(o)
  <2>1. i # 0
    BY <1>3, <1>8 DEF Calls, DaemonAt
  <2>2. ran'[o] = ran[o]
    BY <1>1, <1>8 DEF Calls
  <2>3. \A c \in Commands \ {<<o, i>>} : c[1] = o =>
            PhaseOf(c)' = PhaseOf(c) /\ ExecsOf(c)' = ExecsOf(c) /\ OutcomeOf(c)' = OutcomeOf(c)
    BY <1>3, <1>7, <1>8, <2>1, <2>2 DEF Calls, PhaseOf, ExecsOf, OutcomeOf, Earlier, Current
  <2>4. SameBut({<<o, i>>})
    BY <1>2, <2>3 DEF SameBut
  <2>5. /\ PhaseOf(<<o, i>>) = "idle" /\ PhaseOf(<<o, i>>)' = "called"
        /\ ExecsOf(<<o, i>>)' = ExecsOf(<<o, i>>) /\ OutcomeOf(<<o, i>>)' = OutcomeOf(<<o, i>>)
    BY <1>3, <1>8, <2>2 DEF Calls, PhaseOf, ExecsOf, OutcomeOf, Earlier, Current
  <2> QED BY <1>7, <2>1, <2>4, <2>5, OnePromise
<1>9. CASE Returns(o)
  <2>1. i # 0
    BY <1>3, <1>9 DEF Returns, DaemonAt
  <2>2. ran'[o] = ran[o]
    BY <1>1, <1>9 DEF Returns
  <2>3. \A c \in Commands \ {<<o, i>>} : c[1] = o =>
            PhaseOf(c)' = PhaseOf(c) /\ ExecsOf(c)' = ExecsOf(c) /\ OutcomeOf(c)' = OutcomeOf(c)
    BY <1>3, <1>7, <1>9, <2>1, <2>2 DEF Returns, PhaseOf, ExecsOf, OutcomeOf, Earlier, Current
  <2>4. SameBut({<<o, i>>})
    BY <1>2, <2>3 DEF SameBut
  <2>5. /\ PhaseOf(<<o, i>>) # "returned" /\ PhaseOf(<<o, i>>)' = "returned"
        /\ ExecsOf(<<o, i>>)' = ExecsOf(<<o, i>>)
    BY <1>3, <1>9, <2>2 DEF Returns, PhaseOf, ExecsOf, Earlier, Current
  <2>6. /\ OutcomeOf(<<o, i>>)' = IF outcome'[o] = "ok" THEN "confirmed" ELSE outcome'[o]
        /\ ExecsOf(<<o, i>>) = IF ran[o] THEN 1 ELSE 0
    BY <1>3, <1>9 DEF Returns, OutcomeOf, ExecsOf, Earlier, Current
  <2>7. /\ ~started[o] => ~ran[o]
        /\ pc[o] = "after" => ran[o]
    BY DEF DaemonAt, OpInv, Whole
  <2>8. \/ OutcomeOf(<<o, i>>)' = "unknown"
        \/ OutcomeOf(<<o, i>>)' = "notSent" /\ ExecsOf(<<o, i>>) = 0
        \/ OutcomeOf(<<o, i>>)' = "confirmed" /\ ExecsOf(<<o, i>>) # 0
    BY <1>9, <2>6, <2>7 DEF Returns
  <2> QED BY <1>7, <2>1, <2>4, <2>5, <2>8, OnePromise
<1>10. CASE GoesOn(o)
  <2>1. i # 0 /\ pc[o] = "after" /\ step'[o] = i + 1
    BY <1>3, <1>10 DEF GoesOn, DaemonAt
  <2>2. ran[o] /\ ~ran'[o] /\ outcome[o] = "none" /\ outcome'[o] = "none"
    <3>1. ran[o] /\ outcome[o] = "none" /\ outcome'[o] = "none"
      BY <1>10, <2>1 DEF GoesOn, DaemonAt, OpInv, Whole, Answered
    <3>2. step'[o] # step[o]
      BY <1>3, <2>1
    <3> QED BY <3>1, <3>2 DEF RanMoves
  <2>3. \A c \in Commands \ {<<o, i>>} : c[1] = o =>
            PhaseOf(c)' = PhaseOf(c) /\ ExecsOf(c)' = ExecsOf(c) /\ OutcomeOf(c)' = OutcomeOf(c)
    <3> SUFFICES ASSUME NEW c \in Commands, c # <<o, i>>, c[1] = o
                 PROVE  /\ PhaseOf(c)' = PhaseOf(c) /\ ExecsOf(c)' = ExecsOf(c)
                        /\ OutcomeOf(c)' = OutcomeOf(c)
      OBVIOUS
    <3>1. c[2] \in Nat /\ c[2] # i
      BY <1>4, <1>7, <2>1
    <3>2. CASE c[2] = i + 1
      BY <1>3, <1>10, <2>1, <2>2, <3>2 DEF GoesOn, PhaseOf, ExecsOf, OutcomeOf, Earlier, Current
    <3>3. CASE c[2] # i + 1
      BY <1>3, <1>10, <2>1, <2>2, <3>1, <3>3
      DEF GoesOn, PhaseOf, ExecsOf, OutcomeOf, Earlier, Current
    <3> QED BY <3>2, <3>3
  <2>4. SameBut({<<o, i>>})
    BY <1>2, <2>3 DEF SameBut
  <2>5. /\ PhaseOf(<<o, i>>) # "returned" /\ PhaseOf(<<o, i>>)' = "returned"
        /\ ExecsOf(<<o, i>>)' = ExecsOf(<<o, i>>) /\ ExecsOf(<<o, i>>) # 0
        /\ OutcomeOf(<<o, i>>)' = "confirmed"
    BY <1>3, <2>1, <2>2 DEF PhaseOf, ExecsOf, OutcomeOf, Earlier, Current
  <2> QED BY <1>7, <2>1, <2>4, <2>5, OnePromise
<1> QED
  BY <1>5, <1>6, <1>8, <1>9, <1>10 DEF Kinds

\* The daemon gets to a command: of an operation that has a process for it, and has not said that
\* it was not sent.
LEMMA DaemonPromise ==
    ASSUME OpTypeOK, ran \in [Ops -> BOOLEAN], NEW o \in Ops, OpInv(o), DaemonAt(o), DaemonRuns(o)
    PROVE  \E c \in Commands : PromiseStep(c)
<1> USE RunnerAssumption DEF OpTypeOK
<1>1. /\ \A q \in Ops : pc'[q] = pc[q] /\ step'[q] = step[q] /\ outcome'[q] = outcome[q]
      /\ \A q \in Ops \ {o} : ran'[q] = ran[q]
      /\ started[o] /\ ~ran[o] /\ ran'[o]
  BY DEF DaemonRuns, vars, opVars
<1>2. PICK i \in Nat : step[o] = i /\ i <= Steps
  BY DEF DaemonAt
<1>3. i # 0 /\ pc[o] \notin {"idle", "execute"} /\ outcome[o] \in {"none", "unknown"}
  BY <1>1, <1>2 DEF DaemonAt, OpInv, Answered
<1>4. <<o, i>> \in Commands /\ \A c \in Commands : c # <<o, i>> /\ c[1] = o => c[2] # i
  BY <1>2, <1>3 DEF Commands
<1>5. \A c \in Commands : c[1] # o =>
          PhaseOf(c)' = PhaseOf(c) /\ ExecsOf(c)' = ExecsOf(c) /\ OutcomeOf(c)' = OutcomeOf(c)
  BY <1>1, OthersPromise DEF OtherCommandsSame
<1>6. \A c \in Commands \ {<<o, i>>} : c[1] = o =>
          PhaseOf(c)' = PhaseOf(c) /\ ExecsOf(c)' = ExecsOf(c) /\ OutcomeOf(c)' = OutcomeOf(c)
  BY <1>1, <1>2, <1>4 DEF PhaseOf, ExecsOf, OutcomeOf, Earlier, Current
<1>7. SameBut({<<o, i>>})
  BY <1>5, <1>6 DEF SameBut
<1>8. /\ PhaseOf(<<o, i>>) # "idle" /\ ExecsOf(<<o, i>>) = 0
      /\ OutcomeOf(<<o, i>>) \in {"none", "unknown"} /\ ExecsOf(<<o, i>>)' = 1
      /\ PhaseOf(<<o, i>>)' = PhaseOf(<<o, i>>) /\ OutcomeOf(<<o, i>>)' = OutcomeOf(<<o, i>>)
  BY <1>1, <1>2, <1>3 DEF PhaseOf, ExecsOf, OutcomeOf, Earlier, Current
<1> QED BY <1>4, <1>7, <1>8, OnePromise

-----------------------------------------------------------------------------
LEMMA DaemonInitially ==
    DaemonInit => RunnerInv /\ DaemonInv /\ Promise!Init
<1> SUFFICES ASSUME DaemonInit PROVE RunnerInv /\ DaemonInv /\ Promise!Init
  OBVIOUS
<1>1. RunnerInv
  BY RunnerInitially DEF DaemonInit
<1>2. DaemonInv
  BY RunnerAssumption DEF DaemonInit, Init, DaemonInv, DaemonAt
<1>3. \A c \in Commands : PhaseOf(c) = "idle" /\ ExecsOf(c) = 0 /\ OutcomeOf(c) = "none"
  BY DEF DaemonInit, Init, Commands, PhaseOf, ExecsOf, OutcomeOf, Earlier, Current
<1>4. Promise!Init
  BY <1>3 DEF Promise!Init
<1> QED BY <1>1, <1>2, <1>4

LEMMA DaemonStep ==
    ASSUME RunnerInv, DaemonInv, [DaemonNext]_daemonVars
    PROVE  /\ RunnerInv' /\ DaemonInv'
           /\ (\E c \in Commands : PromiseStep(c)) \/ PromiseStill
<1>0. /\ TypeOK /\ OpTypeOK /\ \A o \in Ops : OpInv(o)
      /\ ran \in [Ops -> BOOLEAN] /\ \A o \in Ops : DaemonAt(o)
  BY DEF RunnerInv, DaemonInv, TypeOK
<1>1. CASE RunnerMoves
  <2>1. PICK o \in Ops : OpStep(o) /\ Good(o) /\ HeardOf(o) /\ RanMoves
    BY <1>1, OneMoves
  <2>2. Kinds(o) /\ OtherCommandsSame(o)
    BY <1>0, <2>1, StepKinds DEF DaemonAt
  <2>3. RunnerInv'
    BY <1>1, RunnerStep DEF RunnerMoves
  <2>4. DaemonAt(o)'
    BY <1>0, <2>1, DaemonKept
  <2>5. \A q \in Ops \ {o} : DaemonAt(q)'
    BY <1>0, <2>1, <2>2, DaemonOthers DEF Good
  <2>6. ran' \in [Ops -> BOOLEAN]
    BY <1>0, <2>1 DEF RanMoves
  <2>7. (\E c \in Commands : PromiseStep(c)) \/ PromiseStill
    BY <1>0, <2>1, <2>2, StepPromise
  <2> QED BY <2>3, <2>4, <2>5, <2>6, <2>7 DEF DaemonInv
<1>2. ASSUME NEW o \in Ops, DaemonRuns(o)
      PROVE  /\ RunnerInv' /\ DaemonInv'
             /\ \E c \in Commands : PromiseStep(c)
  <2>1. RunnerInv'
    BY <1>2, RunnerStep DEF DaemonRuns
  <2>2. DaemonInv'
    BY <1>0, <1>2, DaemonRunsKept DEF DaemonInv, DaemonRuns
  <2> QED BY <1>0, <1>2, <2>1, <2>2, DaemonPromise
<1>3. CASE UNCHANGED daemonVars
  <2>1. RunnerInv'
    BY <1>3, RunnerStep DEF daemonVars
  <2>2. UNCHANGED <<pc, step, outcome, started, proc, ran>>
    BY <1>3 DEF daemonVars, vars, opVars, runVars, procVars
  <2>3. DaemonInv'
    BY <1>0, <2>2 DEF DaemonInv, DaemonAt
  <2>4. PromiseStill
    BY <2>2 DEF PromiseStill, phaseBar, execsBar, outcomeBar, PhaseOf, ExecsOf, OutcomeOf,
       Earlier, Current
  <2> QED BY <2>1, <2>3, <2>4
<1> QED BY <1>1, <1>2, <1>3 DEF DaemonNext

(* Every behaviour of the executor over its processes is one of             *)
(* RequestPromise, with a command for each step of each operation: none is  *)
(* run twice, "not sent" excludes that it ever runs, and one that counts as *)
(* done has run.                                                            *)
THEOREM ExecutorKeepsPromise == DaemonSpec => ProcessesKeepPromise
<1>1. RunnerInv /\ DaemonInv /\ [DaemonNext]_daemonVars
        => RunnerInv' /\ DaemonInv' /\ [Promise!Next]_(Promise!promiseVars)
  <2> SUFFICES ASSUME RunnerInv, DaemonInv, [DaemonNext]_daemonVars
               PROVE  RunnerInv' /\ DaemonInv' /\ [Promise!Next]_(Promise!promiseVars)
    OBVIOUS
  <2>1. PromiseStill => UNCHANGED Promise!promiseVars
    BY DEF PromiseStill, Promise!promiseVars, phaseBar, execsBar, outcomeBar
  <2>2. ASSUME NEW c \in Commands, PromiseStep(c) PROVE Promise!Next
    BY <2>2 DEF PromiseStep, Promise!Next, Promise!Call, Promise!Execute, Promise!Return,
       Promise!Allowed, phaseBar, execsBar, outcomeBar
  <2> QED BY <2>1, <2>2, DaemonStep
<1> QED BY DaemonInitially, <1>1, PTL DEF DaemonSpec, ProcessesKeepPromise, Promise!Spec

-----------------------------------------------------------------------------
(* The attachment.                                                          *)
LEMMA AttachInitially == AttachInit => AttachInv
BY DEF AttachInit, AttachInv, AttachTypeOK, AttachPlaces, AttachTold

LEMMA AttachStep == AttachInv /\ [AttachNext]_attachVars => AttachInv'
<1> SUFFICES ASSUME AttachInv, [AttachNext]_attachVars PROVE AttachInv'
  OBVIOUS
<1> USE DEF AttachInv, AttachTypeOK, AttachPlaces, AttachTold, callState, contexts, clientState,
        Ongoing, AttachDone, RunDone
<1>1. CASE Attach
  BY <1>1 DEF Attach
<1>2. CASE Watch
  BY <1>2 DEF Watch
<1>3. CASE WatcherEnds
  BY <1>3 DEF WatcherEnds
<1>4. CASE StartClient
  BY <1>4 DEF StartClient
<1>5. CASE Waited
  BY <1>5 DEF Waited
<1>6. CASE AttachResult
  BY <1>6 DEF AttachResult, AnswerOf, Ran
<1>7. CASE Release
  BY <1>7 DEF Release
<1>8. CASE Joined
  BY <1>8 DEF Joined
<1>9. CASE Restore
  BY <1>9 DEF Restore
<1>10. CASE Cancel
  BY <1>10 DEF Cancel
<1>11. CASE ConnectionStops
  BY <1>11 DEF ConnectionStops
<1>12. CASE HangUp
  BY <1>12 DEF HangUp
<1>13. CASE Overflows
  BY <1>13 DEF Overflows
<1>14. CASE Attaches
  BY <1>14 DEF Attaches
<1>15. CASE Rejected
  BY <1>15 DEF Rejected
<1>16. CASE Prints
  BY <1>16 DEF Prints
<1>17. CASE Exits
  BY <1>17 DEF Exits
<1>18. CASE Killed
  BY <1>18 DEF Killed
<1>19. CASE UNCHANGED attachVars
  BY <1>19 DEF attachVars
<1> QED
  BY <1>1, <1>2, <1>3, <1>4, <1>5, <1>6, <1>7, <1>8, <1>9, <1>10, <1>11, <1>12, <1>13, <1>14, <1>15, <1>16, <1>17, <1>18, <1>19
  DEF AttachNext, AttachCode

(* An attachment that has returned has left no process, no goroutine and no *)
(* raw terminal behind, and its answer is true to what the daemon did.      *)
THEOREM AttachmentLeavesNothing == AttachSpec => []AttachLeavesNothing
<1>1. AttachInv => AttachLeavesNothing
  BY DEF AttachInv, AttachTypeOK, AttachPlaces, AttachTold, AttachLeavesNothing
<1> QED BY <1>1, AttachInitially, AttachStep, PTL DEF AttachSpec
=============================================================================
