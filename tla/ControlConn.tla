---------------------------- MODULE ControlConn ----------------------------
(* One control-mode connection (tmux/control.go, tmux/control_dispatch.go): *)
(* callers of Connection.run share a bounded queue, one dispatcher writes   *)
(* their commands to the tmux client and collects the reply frames that a   *)
(* reader goroutine takes from it, and any of them may stop the connection. *)
(*                                                                          *)
(* Abstraction.  A command is the pair of lines buildRequestWire makes: the *)
(* body and the marker that prints the nonce.  A frame is the request that  *)
(* produced it and its kind.  Events are EventStream's subject; only %exit, *)
(* which stops the connection, is here.                                     *)
EXTENDS Integers, Sequences, FiniteSets

CONSTANTS Callers,      \* calls of Connection.run, one command each
          Closers,      \* calls of Connection.Close
          Hello,        \* the attach command line of the client process itself
          NoOne,        \* the origin of a frame no request produced
          QueueDepth,   \* ControlOptions.QueueDepth
          QueuedBytes,  \* ControlOptions.QueuedBytes
          Bytes,        \* the size of each caller's command line
          Workers,      \* the workers beside the reader and the dispatcher
          MaxForeign,   \* bound: frames that no request produced
          Faults        \* what may go wrong around the connection in this instance

FaultKinds == {"exit", "crash", "parent", "stderr", "protocol", "build", "write", "startup"}

ASSUME ConnAssumption ==
    /\ Hello \notin Callers /\ NoOne \notin Callers \cup {Hello}
    /\ IsFiniteSet(Callers)
    /\ QueueDepth \in Nat \ {0} /\ QueuedBytes \in Nat \ {0} /\ MaxForeign \in Nat
    /\ Bytes \in [Callers -> Nat \ {0}]
    /\ Faults \subseteq FaultKinds /\ Workers \subseteq {"stderr", "cmdWait", "ctxWatch"}

VARIABLES
    \* the connection: Connection.closed/stopCh/cancel, terminal, done, and its parent context
    stage, terminal, done, parent,
    \* the callers: where run stands, controlRequest.state and .result, the two contexts, the outcome
    pc, reqState, result, ctx, runCtx, ret,
    \* the shared queue: Connection.requests and the two semaphores
    requests, countUsed, bytesUsed,
    \* the dispatcher: where it stands, its request, what collectRequest holds, the reply it delivers
    dpc, cur, got, bad, draining, out, next, ready,
    \* the reader goroutine and Connection.frames (capacity 1)
    rpc, held, frames,
    \* the other workers, the opener (awaitReady) and the calls of Close
    worker, opener, closer,
    \* the client process and the daemon: standard input, standard output, executions
    alive, inbox, wire, ran, foreign

connVars   == <<stage, terminal>>
queueVars  == <<requests, countUsed, bytesUsed>>
callerVars == <<pc, ctx, ret>>
dispVars   == <<dpc, cur, got, bad, draining, out, next, ready>>
readerVars == <<rpc, held, frames>>
procVars   == <<alive, inbox, wire, ran, foreign>>
otherVars  == <<worker, opener, closer, done, parent>>
replyVars  == <<reqState, result>>
vars == <<connVars, queueVars, callerVars, runCtx, dispVars, readerVars, procVars,
          otherVars, replyVars>>

-----------------------------------------------------------------------------
Requests  == Callers \cup {Hello}
Effects   == {"confirmed", "notSent", "unknown"}
Causes    == {"close", "protocol", "exit", "io", "cancelled", "startup"}
UnitKinds == {"out", "big", "fail", "nonce", "foreign", "exit"}
Unit      == [req: Requests \cup {NoOne}, kind: UnitKinds]
NoUnit    == [req |-> NoOne, kind |-> "exit"]
Line      == [req: Requests, part: {"body", "nonce"}]
NoReply   == [effect |-> "none", units |-> {}]
Reply     == [effect: Effects, units: SUBSET Unit]

BodyLine(r)  == [req |-> r, part |-> "body"]
NonceLine(r) == [req |-> r, part |-> "nonce"]
WireOf(r)    == <<BodyLine(r), NonceLine(r)>>

Closed   == stage # "open"                      \* Connection.closed, read under c.mu
StopCh   == stage \in {"signalled", "stopped"}  \* c.stopCh is closed
ConnDone == parent \/ stage = "stopped"         \* connCtx is done

(* stop: the body of stopOnce runs for the first caller; the others wait    *)
(* until it has finished.  Its three stages are closed under the lock,      *)
(* stopCh closed, context cancelled with the pipes closed.                  *)
StopTwice(cause) ==                 \* mutant: no stopOnce
    /\ stage' = (IF Closed THEN stage ELSE "flagged")
    /\ terminal' = cause

Stop(cause) ==
    IF Closed THEN UNCHANGED connVars
    ELSE stage' = "flagged" /\ terminal' = cause

StopSignal ==
    /\ stage = "flagged" /\ stage' = "signalled"
    /\ UNCHANGED <<terminal, queueVars, callerVars, runCtx, dispVars, readerVars, procVars,
                   otherVars, replyVars>>

StopFinish ==
    /\ stage = "signalled" /\ stage' = "stopped"
    /\ UNCHANGED <<terminal, queueVars, callerVars, runCtx, dispVars, readerVars, procVars,
                   otherVars, replyVars>>

ReleaseCount    == countUsed' = countUsed - 1
ReleaseBytes(c) == bytesUsed' = bytesUsed - Bytes[c]

-----------------------------------------------------------------------------
Init ==
    /\ stage = "open" /\ terminal = "none" /\ done = FALSE /\ parent = FALSE
    /\ pc = [c \in Callers |-> "idle"] /\ reqState = [c \in Callers |-> "queued"]
    /\ result = [c \in Callers |-> NoReply] /\ ret = [c \in Callers |-> NoReply]
    /\ ctx = [c \in Callers |-> FALSE] /\ runCtx = [c \in Callers |-> FALSE]
    /\ requests = <<>> /\ countUsed = 0 /\ bytesUsed = 0
    /\ dpc = "collect" /\ cur = Hello /\ got = {} /\ bad = FALSE /\ draining = FALSE
    /\ out = "unknown" /\ next = "idle" /\ ready = "none"
    /\ rpc = "read" /\ held = NoUnit /\ frames = <<>>
    /\ worker = [w \in Workers |-> "run"]
    /\ opener = "awaiting" /\ closer = [k \in Closers |-> "idle"]
    /\ alive = TRUE /\ inbox = WireOf(Hello) /\ wire = <<>>
    /\ ran = [r \in Requests |-> 0] /\ foreign = 0

-----------------------------------------------------------------------------
(* Connection.run and abortRequest: one call per element of Callers.        *)
Return(c, reply) ==
    /\ pc' = [pc EXCEPT ![c] = "returned"]
    /\ ret' = [ret EXCEPT ![c] = reply]
    /\ runCtx' = [runCtx EXCEPT ![c] = TRUE]   \* defer cancel()

Refused == [effect |-> "notSent", units |-> {}]
Doubt   == [effect |-> "unknown", units |-> {}]

Call(c) ==
    /\ pc[c] = "idle" /\ opener = "open"
    /\ IF Bytes[c] > QueuedBytes
       THEN Return(c, Refused)
       ELSE pc' = [pc EXCEPT ![c] = "count"] /\ UNCHANGED <<ret, runCtx>>
    /\ UNCHANGED <<ctx, connVars, queueVars, dispVars, readerVars, procVars, otherVars, replyVars>>

\* The operation's own deadline or its caller's cancellation.
Expire(c) ==
    /\ pc[c] \notin {"idle", "returned"} /\ ~ctx[c]
    /\ ctx' = [ctx EXCEPT ![c] = TRUE]
    /\ runCtx' = [runCtx EXCEPT ![c] = TRUE]
    /\ UNCHANGED <<pc, ret, connVars, queueVars, dispVars, readerVars, procVars, otherVars,
                   replyVars>>

\* The goroutine run starts, which cancels runCtx once stopCh is closed.
WatchStop(c) ==
    /\ pc[c] \notin {"idle", "returned"} /\ StopCh /\ ~runCtx[c]
    /\ runCtx' = [runCtx EXCEPT ![c] = TRUE]
    /\ UNCHANGED <<callerVars, connVars, queueVars, dispVars, readerVars, procVars, otherVars,
                   replyVars>>

AcquireCount(c) ==
    /\ pc[c] = "count" /\ countUsed < QueueDepth
    /\ countUsed' = countUsed + 1
    /\ pc' = [pc EXCEPT ![c] = "bytes"]
    /\ UNCHANGED <<ret, ctx, runCtx, requests, bytesUsed, connVars, dispVars, readerVars, procVars,
                   otherVars, replyVars>>

AcquireBytes(c) ==
    /\ pc[c] = "bytes" /\ bytesUsed + Bytes[c] <= QueuedBytes
    /\ bytesUsed' = bytesUsed + Bytes[c]
    /\ pc' = [pc EXCEPT ![c] = "enqueue"]
    /\ UNCHANGED <<ret, ctx, runCtx, requests, countUsed, connVars, dispVars, readerVars, procVars,
                   otherVars, replyVars>>

AcquireFailLeaks(c) ==               \* mutant: the count stays taken
    /\ pc[c] \in {"count", "bytes"} /\ runCtx[c]
    /\ Return(c, Refused)
    /\ UNCHANGED <<ctx, queueVars, connVars, dispVars, readerVars, procVars, otherVars, replyVars>>

\* A semaphore gives up when runCtx ends; the count is returned if the bytes were not granted.
AcquireFail(c) ==
    /\ pc[c] \in {"count", "bytes"} /\ runCtx[c]
    /\ IF pc[c] = "bytes" THEN ReleaseCount ELSE UNCHANGED countUsed
    /\ Return(c, Refused)
    /\ UNCHANGED <<ctx, requests, bytesUsed, connVars, dispVars, readerVars, procVars, otherVars,
                   replyVars>>

\* enqueueRequest, under c.mu
AdmitsAlways == Len(requests) < QueueDepth     \* mutant: closed is not looked at
Admits == ~Closed /\ Len(requests) < QueueDepth

Enqueue(c) ==
    /\ pc[c] = "enqueue"
    /\ IF Admits
       THEN /\ requests' = Append(requests, c)
            /\ pc' = [pc EXCEPT ![c] = "wait"]
            /\ UNCHANGED <<ret, runCtx, countUsed, bytesUsed>>
       ELSE ReleaseCount /\ ReleaseBytes(c) /\ Return(c, Refused) /\ UNCHANGED requests
    /\ UNCHANGED <<ctx, connVars, dispVars, readerVars, procVars, otherVars, replyVars>>

\* A receive from controlRequest.result: the select of run, or after state "delivered".
Receive(c) ==
    /\ pc[c] \in {"wait", "receive"} /\ result[c] # NoReply
    /\ Return(c, result[c])
    /\ result' = [result EXCEPT ![c] = NoReply]
    /\ UNCHANGED <<ctx, reqState, connVars, queueVars, dispVars, readerVars, procVars, otherVars>>

\* run leaves its select for abortRequest.
Abort(c) ==
    /\ pc[c] = "wait" /\ (ctx[c] \/ StopCh)
    /\ pc' = [pc EXCEPT ![c] = "abort"]
    /\ UNCHANGED <<ret, ctx, runCtx, connVars, queueVars, dispVars, readerVars, procVars,
                   otherVars, replyVars>>

(* checkDeliveredOrState, at both places abortRequest calls it: a delivered *)
(* request blocks for its reply.  The poll that follows finds nothing while *)
(* the state is not "delivered", because deliver stores before it sends.    *)
CheckDelivered(c) ==
    /\ pc[c] \in {"abort", "abortLast"}
    /\ \/ /\ reqState[c] = "delivered"
          /\ pc' = [pc EXCEPT ![c] = "receive"] /\ UNCHANGED <<ret, runCtx>>
       \/ /\ reqState[c] # "delivered" /\ pc[c] = "abort"
          /\ pc' = [pc EXCEPT ![c] = "withdraw"] /\ UNCHANGED <<ret, runCtx>>
       \/ /\ reqState[c] # "delivered" /\ pc[c] = "abortLast"
          /\ Return(c, Doubt)
    /\ UNCHANGED <<ctx, connVars, queueVars, dispVars, readerVars, procVars, otherVars, replyVars>>

WithdrawReleases(c) ==               \* mutant: the caller returns the permits as well
    /\ pc[c] = "withdraw"
    /\ IF reqState[c] = "queued"
       THEN /\ reqState' = [reqState EXCEPT ![c] = "canceled"] /\ Return(c, Refused)
            /\ ReleaseCount /\ ReleaseBytes(c)
       ELSE /\ pc' = [pc EXCEPT ![c] = "abortLast"]
            /\ UNCHANGED <<reqState, ret, runCtx, countUsed, bytesUsed>>
    /\ UNCHANGED <<ctx, result, requests, connVars, dispVars, readerVars, procVars, otherVars>>

\* The compare-and-swap from queued to canceled.
Withdraw(c) ==
    /\ pc[c] = "withdraw"
    /\ IF reqState[c] = "queued"
       THEN reqState' = [reqState EXCEPT ![c] = "canceled"] /\ Return(c, Refused)
       ELSE pc' = [pc EXCEPT ![c] = "abortLast"] /\ UNCHANGED <<reqState, ret, runCtx>>
    /\ UNCHANGED <<ctx, result, connVars, queueVars, dispVars, readerVars, procVars, otherVars>>

-----------------------------------------------------------------------------
(* dispatch, dispatchRequest, collectRequest and deliver: the one           *)
(* dispatcher goroutine, which starts in the handshake, collecting Hello.   *)
DispatchKeeps == <<callerVars, runCtx, readerVars, procVars, otherVars>>

\* The locals of dispatchRequest and collectRequest go out of scope.
Forget ==
    /\ cur' = Hello /\ got' = {} /\ bad' = FALSE /\ draining' = FALSE
    /\ out' = "unknown" /\ next' = "idle"

\* What deliver is about to send: the effect and, for a collected reply, its units.
Prepare(effect, then) == out' = effect /\ next' = then /\ dpc' = "release"

DispatchTake ==
    /\ dpc = "idle" /\ requests # <<>>
    /\ cur' = Head(requests) /\ requests' = Tail(requests)
    /\ dpc' = "checkClosed"
    /\ UNCHANGED <<got, bad, draining, out, next, ready, connVars, countUsed, bytesUsed, replyVars,
                   DispatchKeeps>>

DispatchCheckClosed ==
    /\ dpc = "checkClosed"
    /\ IF Closed THEN Prepare("notSent", "idle") ELSE dpc' = "checkDone" /\ UNCHANGED <<out, next>>
    /\ UNCHANGED <<cur, got, bad, draining, ready, connVars, queueVars, replyVars, DispatchKeeps>>

DispatchCheckDone ==
    /\ dpc = "checkDone"
    /\ IF runCtx[cur] THEN Prepare("notSent", "idle") ELSE dpc' = "claim" /\ UNCHANGED <<out, next>>
    /\ UNCHANGED <<cur, got, bad, draining, ready, connVars, queueVars, replyVars, DispatchKeeps>>

\* The compare-and-swap from queued to inFlight.
ClaimableAnyway(c) == reqState[c] \in {"queued", "canceled"}    \* mutant: a plain store
Claimable(c) == reqState[c] = "queued"

DispatchClaim ==
    /\ dpc = "claim"
    /\ IF Claimable(cur)
       THEN /\ reqState' = [reqState EXCEPT ![cur] = "inFlight"]
            /\ dpc' = "build" /\ UNCHANGED <<out, next>>
       ELSE Prepare("notSent", "idle") /\ UNCHANGED reqState
    /\ UNCHANGED <<cur, got, bad, draining, ready, result, connVars, queueVars, DispatchKeeps>>

\* buildRequestWire may refuse the text, the nonce or the size.
DispatchBuild ==
    /\ dpc = "build"
    /\ \/ dpc' = "write" /\ UNCHANGED <<out, next>>
       \/ "build" \in Faults /\ Prepare("notSent", "idle")
    /\ UNCHANGED <<cur, got, bad, draining, ready, connVars, queueVars, replyVars, DispatchKeeps>>

DispatchWrite ==
    /\ dpc = "write" /\ stage # "stopped"
    /\ inbox' = inbox \o WireOf(cur)
    /\ dpc' = "collect"
    /\ UNCHANGED <<cur, got, bad, draining, out, next, ready, connVars, queueVars, replyVars,
                   callerVars, runCtx, readerVars, alive, wire, ran, foreign, otherVars>>

\* A write that fails has written a prefix of the text: no line, the body, or both lines.
WriteFailedNotSent == "notSent"                                \* mutant
WriteFailed == "unknown"

DispatchWriteFail ==
    /\ dpc = "write"
    /\ stage = "stopped" \/ ~alive \/ "write" \in Faults
    /\ \E lines \in {<<>>, <<BodyLine(cur)>>, WireOf(cur)} :
          /\ stage = "stopped" => lines = <<>>
          /\ inbox' = inbox \o lines
    /\ Stop("io")
    /\ out' = WriteFailed /\ next' = "exit" /\ dpc' = "stopping"
    /\ UNCHANGED <<cur, got, bad, draining, ready, queueVars, replyVars, callerVars, runCtx,
                   readerVars, alive, wire, ran, foreign, otherVars>>

\* Once stop has returned, deliver follows.
DispatchStopped ==
    /\ dpc = "stopping" /\ stage = "stopped"
    /\ dpc' = "release"
    /\ UNCHANGED <<cur, got, bad, draining, out, next, ready, connVars, queueVars, replyVars,
                   DispatchKeeps>>

(* collectRequest has returned.  For a request, deliver follows, for the    *)
(* handshake the opener learns the result and a failure stops the           *)
(* connection.                                                              *)
Conclude(ok) ==
    IF cur = Hello
    THEN /\ ready' = IF ok THEN "ok" ELSE "err"
         /\ IF ok THEN UNCHANGED connVars ELSE Stop("startup")
         /\ dpc' = IF ok THEN "idle" ELSE "exit"
         /\ Forget
    ELSE /\ Prepare(IF ok THEN "confirmed" ELSE "unknown", "idle")
         /\ UNCHANGED <<cur, got, bad, draining, ready, connVars>>

Library(u)  == u.kind # "foreign"
Finishes(u) == u.kind = "nonce" /\ u.req = cur

Spoils(u) == u.kind \in {"big", "fail", "foreign"}

\* verifyStartup accepts the identity record of this very client and nothing else.
Verified == cur = Hello => got = {[req |-> Hello, kind |-> "out"]}

CollectFrame ==
    /\ dpc = "collect" /\ frames # <<>>
    /\ frames' = Tail(frames)
    /\ LET u == Head(frames) IN
         IF Finishes(u)
         THEN Conclude(~bad /\ Verified)
         ELSE /\ got' = IF Library(u) \/ cur = Hello THEN got \cup {u} ELSE got
              /\ bad' = (bad \/ Spoils(u))
              /\ UNCHANGED <<dpc, cur, draining, out, next, ready, connVars>>
    /\ UNCHANGED <<queueVars, replyVars, callerVars, runCtx, rpc, held, procVars, otherVars>>

CollectStopped ==
    /\ dpc = "collect" /\ StopCh
    /\ Conclude(FALSE)
    /\ UNCHANGED <<queueVars, replyVars, DispatchKeeps>>

CollectAbandon ==                    \* mutant: the reply of a cancelled request is not awaited
    /\ dpc = "collect" /\ cur # Hello /\ runCtx[cur]
    /\ Conclude(FALSE)
    /\ UNCHANGED <<queueVars, replyVars, DispatchKeeps>>

\* The request's context ends: keep collecting, for at most the shutdown budget.
CollectDone ==
    /\ dpc = "collect" /\ ~draining
    /\ IF cur = Hello THEN ConnDone \/ "startup" \in Faults ELSE runCtx[cur]
    /\ bad' = TRUE /\ draining' = TRUE
    /\ UNCHANGED <<dpc, cur, got, out, next, ready, connVars, queueVars, replyVars, DispatchKeeps>>

\* The drain timer: the reply cannot be told from the next one any more.
CollectTimeout ==
    /\ dpc = "collect" /\ draining
    /\ Stop("protocol")
    /\ IF cur = Hello
       THEN ready' = "err" /\ dpc' = "exit" /\ Forget
       ELSE /\ dpc' = "stopping" /\ out' = "unknown" /\ next' = "idle"
            /\ UNCHANGED <<cur, got, bad, draining, ready>>
    /\ UNCHANGED <<queueVars, replyVars, DispatchKeeps>>

\* deliver: the permits, then the state, then the reply.
DeliverRelease ==
    /\ dpc = "release"
    /\ ReleaseBytes(cur) /\ ReleaseCount
    /\ dpc' = "store"
    /\ UNCHANGED <<cur, got, bad, draining, out, next, ready, requests, connVars, replyVars,
                   DispatchKeeps>>

DeliverStore ==
    /\ dpc = "store"
    /\ reqState' = [reqState EXCEPT ![cur] = "delivered"]
    /\ dpc' = "send"
    /\ UNCHANGED <<cur, got, bad, draining, out, next, ready, result, connVars, queueVars,
                   DispatchKeeps>>

DeliverSendLazily ==                 \* mutant: no reply for a caller that has given up
    /\ dpc = "send"
    /\ result' = IF runCtx[cur] THEN result
                 ELSE [result EXCEPT ![cur] = [effect |-> out, units |-> got]]
    /\ dpc' = next
    /\ Forget
    /\ UNCHANGED <<ready, reqState, connVars, queueVars, DispatchKeeps>>

DeliverSend ==
    /\ dpc = "send"
    /\ result' = [result EXCEPT ![cur] = [effect |-> out, units |-> got]]
    /\ dpc' = next
    /\ Forget
    /\ UNCHANGED <<ready, reqState, connVars, queueVars, DispatchKeeps>>

\* The select of dispatch sees the context end, or the handshake or a write has failed.
DispatchLeave ==
    /\ \/ dpc = "idle" /\ ConnDone
       \/ dpc = "exit"
    /\ Stop("cancelled")
    /\ dpc' = "leaving"
    /\ UNCHANGED <<cur, got, bad, draining, out, next, ready, queueVars, replyVars, DispatchKeeps>>

\* drainRequests, after the deferred stop has returned
DrainTake ==
    /\ dpc \in {"leaving", "drain"} /\ stage = "stopped" /\ requests # <<>>
    /\ cur' = Head(requests) /\ requests' = Tail(requests)
    /\ Prepare("notSent", "drain")
    /\ UNCHANGED <<got, bad, draining, ready, connVars, countUsed, bytesUsed, replyVars,
                   DispatchKeeps>>

DrainEnd ==
    /\ dpc \in {"leaving", "drain"} /\ stage = "stopped" /\ requests = <<>>
    /\ dpc' = "done"
    /\ UNCHANGED <<cur, got, bad, draining, out, next, ready, connVars, queueVars, replyVars,
                   DispatchKeeps>>

-----------------------------------------------------------------------------
(* reader: units from the client's standard output to Connection.frames.    *)
ReaderKeeps == <<queueVars, callerVars, runCtx, dispVars, otherVars, replyVars>>

ReaderRead ==
    /\ rpc = "read" /\ wire # <<>>
    /\ wire' = Tail(wire)
    /\ IF Head(wire).kind = "exit"
       THEN Stop("exit") /\ rpc' = "stopping" /\ held' = NoUnit
       ELSE rpc' = "send" /\ held' = Head(wire) /\ UNCHANGED connVars
    /\ UNCHANGED <<frames, alive, inbox, ran, foreign, ReaderKeeps>>

ReaderRoom == frames = <<>>          \* Connection.frames has capacity 1

ReaderSend ==
    /\ rpc = "send" /\ ReaderRoom
    /\ frames' = Append(frames, held) /\ rpc' = "read" /\ held' = NoUnit
    /\ UNCHANGED <<connVars, procVars, ReaderKeeps>>

ReaderQuitNever ==                   \* mutant: the send is not in a select with stopCh
    /\ rpc = "stopping" /\ stage = "stopped"
    /\ rpc' = "done" /\ held' = NoUnit
    /\ UNCHANGED <<frames, connVars, procVars, ReaderKeeps>>

ReaderQuit ==
    /\ \/ rpc = "send" /\ StopCh
       \/ rpc = "stopping" /\ stage = "stopped"
    /\ rpc' = "done" /\ held' = NoUnit
    /\ UNCHANGED <<frames, connVars, procVars, ReaderKeeps>>

\* End of file, a closed pipe, or output that is not the control protocol.
ReaderFail ==
    /\ rpc = "read"
    /\ stage = "stopped" \/ (wire = <<>> /\ ~alive) \/ "protocol" \in Faults
    /\ Stop("protocol")
    /\ rpc' = IF Closed THEN "done" ELSE "stopping"
    /\ UNCHANGED <<held, frames, procVars, ReaderKeeps>>

-----------------------------------------------------------------------------
(* The other workers of startWorkers, the goroutine that closes done,       *)
(* awaitReady and Close.                                                    *)
OtherKeeps == <<queueVars, callerVars, runCtx, dispVars, readerVars, procVars, replyVars>>

WorkerTrigger(w) ==
    CASE w = "stderr"   -> stage = "stopped" \/ ~alive \/ "stderr" \in Faults
      [] w = "cmdWait"  -> ~alive
      [] w = "ctxWatch" -> ConnDone

WorkerCause(w) ==
    CASE w = "stderr" -> "io" [] w = "cmdWait" -> "exit" [] w = "ctxWatch" -> "cancelled"

\* The copier of standard error ends in silence when the pipe ends; it stops the connection
\* only on an error or on output beyond the limit.
WorkerFire(w) ==
    /\ worker[w] = "run" /\ WorkerTrigger(w)
    /\ LET quiet == Closed \/ (w = "stderr" /\ "stderr" \notin Faults) IN
         /\ worker' = [worker EXCEPT ![w] = IF quiet THEN "done" ELSE "stopping"]
         /\ IF quiet THEN UNCHANGED connVars ELSE Stop(WorkerCause(w))
    /\ UNCHANGED <<opener, closer, done, parent, OtherKeeps>>

WorkerEnd(w) ==
    /\ worker[w] = "stopping" /\ stage = "stopped"
    /\ worker' = [worker EXCEPT ![w] = "done"]
    /\ UNCHANGED <<opener, closer, done, parent, connVars, OtherKeeps>>

\* c.work.Wait(); close(c.done)
Finish ==
    /\ ~done /\ rpc = "done" /\ dpc = "done"
    /\ \A w \in Workers : worker[w] = "done"
    /\ done' = TRUE
    /\ UNCHANGED <<worker, opener, closer, parent, connVars, OtherKeeps>>

OpenerReady ==
    /\ opener = "awaiting" /\ ready # "none"
    /\ IF ready = "ok"
       THEN opener' = "open" /\ UNCHANGED connVars
       ELSE opener' = "closing" /\ Stop("startup")
    /\ UNCHANGED <<worker, closer, done, parent, OtherKeeps>>

OpenerCancelled ==
    /\ opener = "awaiting" /\ parent
    /\ opener' = "closing" /\ Stop("cancelled")
    /\ UNCHANGED <<worker, closer, done, parent, OtherKeeps>>

\* The Close inside awaitReady: the work has ended, or the shutdown budget has.
OpenerFailed ==
    /\ opener = "closing" /\ stage = "stopped"
    /\ opener' = "failed"
    /\ UNCHANGED <<worker, closer, done, parent, connVars, OtherKeeps>>

CloseCall(k) ==
    /\ closer[k] = "idle" /\ opener = "open"
    /\ Stop("close")
    /\ closer' = [closer EXCEPT ![k] = "waiting"]
    /\ UNCHANGED <<worker, opener, done, parent, OtherKeeps>>

\* Close reports the first cause, which is nil only for a Close.
CloseReturn(k) ==
    /\ closer[k] = "waiting" /\ stage = "stopped"
    /\ \/ done /\ closer' = [closer EXCEPT ![k] = IF terminal = "close" THEN "nil" ELSE "error"]
       \/ ~done /\ closer' = [closer EXCEPT ![k] = "incomplete"]
    /\ UNCHANGED <<worker, opener, done, parent, connVars, OtherKeeps>>

ParentCancel ==
    /\ "parent" \in Faults /\ ~parent /\ parent' = TRUE
    /\ UNCHANGED <<worker, opener, closer, done, connVars, OtherKeeps>>

-----------------------------------------------------------------------------
(* The client process and the daemon (not under src): lines are executed in *)
(* order, a body yields one frame, and a failed body of the attach command  *)
(* drops the rest of that command line and ends the client.                 *)
EnvKeeps == <<connVars, queueVars, callerVars, runCtx, dispVars, readerVars, otherVars, replyVars>>

Emit(units) == wire' = IF alive THEN wire \o units ELSE wire

DaemonBody ==
    /\ inbox # <<>> /\ Head(inbox).part = "body"
    /\ LET r == Head(inbox).req IN
       /\ ran' = [ran EXCEPT ![r] = @ + 1]
       /\ \/ \E k \in {"out", "big"} : Emit(<<[req |-> r, kind |-> k]>>)
             /\ inbox' = Tail(inbox) /\ UNCHANGED alive
          \/ /\ r # Hello /\ Emit(<<[req |-> r, kind |-> "fail"]>>)
             /\ inbox' = Tail(inbox) /\ UNCHANGED alive
          \/ /\ r = Hello /\ "startup" \in Faults
             /\ Emit(<<[req |-> r, kind |-> "fail"], NoUnit>>)
             /\ inbox' = <<>> /\ alive' = FALSE
    /\ UNCHANGED <<foreign, EnvKeeps>>

DaemonNonce ==
    /\ inbox # <<>> /\ Head(inbox).part = "nonce"
    /\ Emit(<<[req |-> Head(inbox).req, kind |-> "nonce"]>>)
    /\ inbox' = Tail(inbox)
    /\ UNCHANGED <<alive, ran, foreign, EnvKeeps>>

\* A failed frame of a command the library did not send.
DaemonForeign ==
    /\ alive /\ foreign < MaxForeign
    /\ Emit(<<[req |-> NoOne, kind |-> "foreign"]>>)
    /\ foreign' = foreign + 1
    /\ UNCHANGED <<alive, inbox, ran, EnvKeeps>>

\* The client leaves with %exit, crashes, or is killed by the cancelled context.
ClientEnd ==
    /\ alive /\ alive' = FALSE
    /\ \/ "exit" \in Faults /\ wire' = Append(wire, NoUnit)
       \/ "crash" \in Faults /\ UNCHANGED wire
       \/ ConnDone /\ UNCHANGED wire
    /\ UNCHANGED <<inbox, ran, foreign, EnvKeeps>>

-----------------------------------------------------------------------------
CallerStep(c) ==
    \/ Call(c) \/ Expire(c) \/ WatchStop(c)
    \/ AcquireCount(c) \/ AcquireBytes(c) \/ AcquireFail(c) \/ Enqueue(c)
    \/ Receive(c) \/ Abort(c) \/ CheckDelivered(c) \/ Withdraw(c)

DispatcherStep ==
    \/ DispatchTake \/ DispatchCheckClosed \/ DispatchCheckDone \/ DispatchClaim \/ DispatchBuild
    \/ DispatchWrite \/ DispatchWriteFail \/ DispatchStopped
    \/ CollectFrame \/ CollectStopped \/ CollectDone \/ CollectTimeout
    \/ DeliverRelease \/ DeliverStore \/ DeliverSend
    \/ DispatchLeave \/ DrainTake \/ DrainEnd

ReaderStep == ReaderRead \/ ReaderSend \/ ReaderQuit \/ ReaderFail
StopStep   == StopSignal \/ StopFinish
WorkStep   == Finish \/ OpenerReady \/ OpenerCancelled \/ OpenerFailed
              \/ \E w \in Workers : WorkerFire(w) \/ WorkerEnd(w)
CloseStep  == \E k \in Closers : CloseCall(k) \/ CloseReturn(k)
DaemonStep == DaemonBody \/ DaemonNonce \/ DaemonForeign \/ ClientEnd

Next ==
    \/ \E c \in Callers : CallerStep(c)
    \/ DispatcherStep \/ ReaderStep \/ StopStep \/ WorkStep \/ CloseStep \/ DaemonStep
    \/ ParentCancel

Spec == Init /\ [][Next]_vars

(* Fairness: every goroutine that can run keeps running, a stopped client   *)
(* is killed by its context, and every call of run ends with its deadline.  *)
(* Nothing is assumed of the daemon, of the faults or of the decision to    *)
(* call or to close.                                                        *)
CallerProgress(c) ==
    \/ Expire(c) \/ WatchStop(c)
    \/ AcquireCount(c) \/ AcquireBytes(c) \/ AcquireFail(c) \/ Enqueue(c)
    \/ Receive(c) \/ Abort(c) \/ CheckDelivered(c) \/ Withdraw(c)

Fairness ==
    /\ \A c \in Callers : WF_vars(CallerProgress(c))
    /\ WF_vars(DispatcherStep) /\ WF_vars(ReaderStep) /\ WF_vars(StopStep) /\ WF_vars(WorkStep)
    /\ WF_vars(ConnDone /\ ClientEnd)

FairSpec == Spec /\ Fairness

-----------------------------------------------------------------------------
(* Properties.                                                              *)

TypeOK ==
    /\ stage \in {"open", "flagged", "signalled", "stopped"}
    /\ terminal \in Causes \cup {"none"} /\ done \in BOOLEAN /\ parent \in BOOLEAN
    /\ pc \in [Callers -> {"idle", "count", "bytes", "enqueue", "wait", "abort", "withdraw",
                           "abortLast", "receive", "returned"}]
    /\ reqState \in [Callers -> {"queued", "inFlight", "delivered", "canceled"}]
    /\ result \in [Callers -> Reply \cup {NoReply}] /\ ret \in [Callers -> Reply \cup {NoReply}]
    /\ ctx \in [Callers -> BOOLEAN] /\ runCtx \in [Callers -> BOOLEAN]
    /\ requests \in Seq(Callers) /\ countUsed \in Int /\ bytesUsed \in Int
    /\ dpc \in {"collect", "idle", "checkClosed", "checkDone", "claim", "build", "write", "stopping",
                "release", "store", "send", "exit", "leaving", "drain", "done"}
    /\ cur \in Requests /\ got \subseteq Unit /\ bad \in BOOLEAN /\ draining \in BOOLEAN
    /\ out \in Effects /\ next \in {"idle", "exit", "drain"} /\ ready \in {"none", "ok", "err"}
    /\ rpc \in {"read", "send", "stopping", "done"} /\ held \in Unit
    /\ frames \in Seq(Unit) /\ Len(frames) <= 1
    /\ worker \in [Workers -> {"run", "stopping", "done"}]
    /\ opener \in {"awaiting", "open", "closing", "failed"}
    /\ closer \in [Closers -> {"idle", "waiting", "nil", "error", "incomplete"}]
    /\ alive \in BOOLEAN /\ inbox \in Seq(Line) /\ wire \in Seq(Unit)
    /\ ran \in [Requests -> Nat] /\ foreign \in Nat

\* A call that reported "not sent" is never executed, not even after it has returned, and
\* no call is executed twice: the compare-and-swaps of abortRequest and dispatchRequest
\* decide between withdrawing a request and writing it.
EffectHonest ==
    \A c \in Callers : ran[c] <= 1 /\ (ret[c].effect = "notSent" => ran[c] = 0)

\* The lines and frames a request has left anywhere between the dispatcher and the daemon.
Outstanding ==
    {inbox[i].req : i \in DOMAIN inbox} \cup {wire[i].req : i \in DOMAIN wire}
    \cup {frames[i].req : i \in DOMAIN frames}
    \cup {held.req}

\* While the connection is open the dispatcher takes the next request only when nothing of
\* an earlier one is left in the pipes: what makes "the next frame" mean anything.
PipeClean ==
    ~Closed /\ dpc \in {"idle", "checkClosed", "checkDone", "claim", "build", "write"}
        => Outstanding \subseteq {NoOne}

\* A confirmed reply holds the whole output of this command and of no other one, although
\* the frames of cancelled requests come through the same channel: the pipes
\* are clean whenever the dispatcher takes a request.
ReplyIsOwn ==
    /\ PipeClean
    /\ \A c \in Callers :
          ret[c].effect = "confirmed" => /\ ran[c] = 1
                                         /\ ret[c].units = {[req |-> c, kind |-> "out"]}

Holding(c) ==
    \/ pc[c] \in {"bytes", "enqueue"}
    \/ \E i \in DOMAIN requests : requests[i] = c
    \/ cur = c /\ dpc \in {"checkClosed", "checkDone", "claim", "build", "write", "collect",
                          "stopping", "release"}

\* Every permit of the two semaphores belongs to a call that has not passed it on, to a
\* queued request or to the request the dispatcher holds: none leaks, none is freed twice, and
\* a call that holds its permits finds room in Connection.requests (enqueueRequest's default
\* branch, ErrResourceLimit, is never taken).
CapacityConserved ==
    /\ countUsed = Cardinality({c \in Callers : Holding(c)})
    /\ countUsed <= QueueDepth /\ bytesUsed \in 0..QueuedBytes
    /\ countUsed = 0 => bytesUsed = 0
    /\ \A c \in Callers : pc[c] = "enqueue" => Len(requests) < QueueDepth

\* When the dispatcher has gone nobody is left waiting: each queued call has its reply,
\* and enqueueRequest admits no later one.
NobodyStranded ==
    dpc = "done" =>
        /\ requests = <<>>
        /\ \A c \in Callers :
              pc[c] \in {"wait", "abort", "withdraw", "abortLast", "receive"} => result[c] # NoReply

\* The first cause of a stop stands: what Close and Wait report does not depend on which of
\* the racing goroutines came later.
FirstCauseStands == [][Closed => terminal' = terminal]_vars

\* Every call of run returns, whatever the daemon does.
CallsReturn == \A c \in Callers : pc[c] # "idle" ~> pc[c] = "returned"

\* Once stopped, all five workers end, so Close can report the end of all owned work.
StopEnds == Closed ~> done

Promise == INSTANCE RequestPromise WITH
    phase   <- [c \in Callers |-> CASE pc[c] = "idle"     -> "idle"
                                    [] pc[c] = "returned" -> "returned"
                                    [] OTHER              -> "called"],
    execs   <- [c \in Callers |-> ran[c]],
    outcome <- [c \in Callers |-> ret[c].effect]

\* The connection keeps the promise of RequestPromise.
KeepsPromise == Promise!Spec
=============================================================================
