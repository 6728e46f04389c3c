----------------------------- MODULE EventStream -----------------------------
(* The event streams of one connection (tmux/event_stream.go and the end of *)
(* Connection.stop): the reader goroutine publishes to every registered     *)
(* stream, callers of Next take from their stream's queue, and a stream may *)
(* be finished by an overflow, by its own Close, by its watcher goroutine   *)
(* and by the stop of the connection, all at once.                          *)
(*                                                                          *)
(* Abstraction.  An event is its place in the order of publication and its  *)
(* size; which events a pane-output filter drops is OutputPolicy's subject. *)
EXTENDS Integers, Sequences, FiniteSets

CONSTANTS Streams,      \* successful or refused calls of Connection.Events
          Readers,      \* goroutines that call Next
          StreamOf,     \* the stream each of them reads
          MaxStreams,   \* ControlOptions.MaxStreams
          EventBytes,   \* ControlOptions.EventBytes
          MaxBytes,     \* EventOptions.MaxBytes, per stream
          MaxCount,     \* EventOptions.MaxCount
          Sizes,        \* the sizes of events
          Cancels,      \* bound: streams whose context may be cancelled
          Closes,       \* bound: streams on which Close may be called, once
          MaxPublished  \* bound: events published

ASSUME StreamAssumption ==
    /\ IsFiniteSet(Streams) /\ StreamOf \in [Readers -> Streams]
    /\ MaxStreams \in Nat /\ EventBytes \in Nat /\ MaxBytes \in [Streams -> Nat \ {0}]
    /\ Cancels \subseteq Streams /\ Closes \subseteq Streams
    /\ MaxCount \in Nat \ {0} /\ Sizes \subseteq Nat \ {0} /\ MaxPublished \in Nat

VARIABLES
    \* Connection: closed, the progress of stop and the streams it still has to finish
    stage, stopTodo,
    \* Connection.streams and Connection.eventReserved
    streams, reserved,
    \* per stream: EventStream.terminal, queue, bytes, wake, how often done was closed,
    \* its watcher goroutine, and how far each goroutine in finish has come
    terminal, queue, bytes, wake, done, watcher, fin,
    \* publish: the event, the streams it still goes to, and the one push is working on
    published, size, todo, target, ppc,
    \* Next: where each reader stands, and EventStream.reading
    rpc, reading,
    \* the events each stream has returned, and the first one after its registration
    got, since

connVars   == <<stage, stopTodo>>
regVars    == <<streams, reserved>>
finVars    == <<terminal, queue, bytes, fin>>
streamVars == <<finVars, wake, done, watcher>>
pubVars    == <<published, size, todo, target, ppc>>
readVars   == <<rpc, reading>>
logVars    == <<got, since>>
vars == <<connVars, regVars, streamVars, pubVars, readVars, logVars>>

-----------------------------------------------------------------------------
Finishers == {"push", "close", "watch", "stop"}
Closed    == stage # "open"
StopCh    == stage \in {"signalled", "stopped"}
Live(s)   == terminal[s] = "none"
Opened(s) == watcher[s] \in {"run", "done"}

Init ==
    /\ stage = "open" /\ stopTodo = {} /\ streams = {} /\ reserved = 0
    /\ terminal = [s \in Streams |-> "none"] /\ queue = [s \in Streams |-> <<>>]
    /\ bytes = [s \in Streams |-> 0] /\ wake = [s \in Streams |-> FALSE]
    /\ done = [s \in Streams |-> 0] /\ watcher = [s \in Streams |-> "none"]
    /\ fin = [s \in Streams |-> [f \in Finishers |-> "out"]]
    /\ published = 0 /\ size = 0 /\ todo = {} /\ target = {} /\ ppc = "idle"
    /\ rpc = [r \in Readers |-> "idle"] /\ reading = [s \in Streams |-> FALSE]
    /\ got = [s \in Streams |-> <<>>] /\ since = [s \in Streams |-> 0]

-----------------------------------------------------------------------------
(* finish and release: the first finisher sets the terminal error, the      *)
(* others leave at once; the reservation is returned before done is closed. *)
FinishAgain(s, f, end) ==            \* mutant: terminal is not looked at
    /\ terminal' = [terminal EXCEPT ![s] = end]
    /\ queue' = [queue EXCEPT ![s] = <<>>] /\ bytes' = [bytes EXCEPT ![s] = 0]
    /\ fin' = [fin EXCEPT ![s][f] = "release"]

StartFinish(s, f, end) ==
    IF Live(s)
    THEN /\ terminal' = [terminal EXCEPT ![s] = end]
         /\ queue' = [queue EXCEPT ![s] = <<>>] /\ bytes' = [bytes EXCEPT ![s] = 0]
         /\ fin' = [fin EXCEPT ![s][f] = "release"]
    ELSE fin' = [fin EXCEPT ![s][f] = "left"] /\ UNCHANGED <<terminal, queue, bytes>>

ReleaseLate(s, f) ==                 \* mutant: done is closed first
    /\ fin[s][f] = "release"
    /\ fin' = [fin EXCEPT ![s][f] = "close"]
    /\ done' = [done EXCEPT ![s] = @ + 1]
    /\ UNCHANGED <<connVars, regVars, terminal, queue, bytes, wake, watcher, pubVars, readVars,
                   logVars>>

Release(s, f) ==
    /\ fin[s][f] = "release"
    /\ IF s \in streams
       THEN streams' = streams \ {s} /\ reserved' = reserved - MaxBytes[s]
       ELSE UNCHANGED regVars
    /\ fin' = [fin EXCEPT ![s][f] = "close"]
    /\ UNCHANGED <<connVars, terminal, queue, bytes, wake, done, watcher, pubVars, readVars,
                   logVars>>

CloseDoneNever(s, f) ==              \* mutant: close(done) is forgotten
    /\ fin[s][f] = "close"
    /\ fin' = [fin EXCEPT ![s][f] = "left"]
    /\ UNCHANGED <<connVars, regVars, terminal, queue, bytes, wake, done, watcher, pubVars,
                   readVars, logVars>>

CloseDone(s, f) ==
    /\ fin[s][f] = "close"
    /\ fin' = [fin EXCEPT ![s][f] = "left"]
    /\ done' = [done EXCEPT ![s] = @ + 1]
    /\ UNCHANGED <<connVars, regVars, terminal, queue, bytes, wake, watcher, pubVars, readVars,
                   logVars>>

-----------------------------------------------------------------------------
(* Connection.Events, one call per stream, and the goroutine it starts.     *)
AdmitsClosed(s) ==                   \* mutant: closed was read before the lock was taken
    /\ Cardinality(streams) < MaxStreams /\ MaxBytes[s] <= EventBytes - reserved

Admits(s) ==
    /\ ~Closed
    /\ Cardinality(streams) < MaxStreams /\ MaxBytes[s] <= EventBytes - reserved

Open(s) ==
    /\ watcher[s] = "none"
    /\ IF Admits(s)
       THEN /\ streams' = streams \cup {s} /\ reserved' = reserved + MaxBytes[s]
            /\ watcher' = [watcher EXCEPT ![s] = "run"]
            /\ since' = [since EXCEPT ![s] = published + 1]
       ELSE watcher' = [watcher EXCEPT ![s] = "refused"] /\ UNCHANGED <<regVars, since>>
    /\ UNCHANGED <<connVars, finVars, wake, done, pubVars, readVars, got>>

\* The context of Events is cancelled and the watcher sees it.
WatchCtx(s) ==
    /\ watcher[s] = "run" /\ fin[s]["watch"] = "out" /\ s \in Cancels
    /\ StartFinish(s, "watch", "ctx")
    /\ UNCHANGED <<connVars, regVars, wake, done, watcher, pubVars, readVars, logVars>>

WatchStop(s) ==
    /\ watcher[s] = "run" /\ fin[s]["watch"] = "out" /\ StopCh
    /\ StartFinish(s, "watch", "closed")
    /\ UNCHANGED <<connVars, regVars, wake, done, watcher, pubVars, readVars, logVars>>

WatchEnd(s) ==
    /\ watcher[s] = "run"
    /\ (done[s] > 0 /\ fin[s]["watch"] = "out") \/ fin[s]["watch"] = "left"
    /\ watcher' = [watcher EXCEPT ![s] = "done"]
    /\ UNCHANGED <<connVars, regVars, finVars, wake, done, pubVars, readVars, logVars>>

\* EventStream.Close
CloseStream(s) ==
    /\ Opened(s) /\ s \in Closes /\ fin[s]["close"] = "out"
    /\ StartFinish(s, "close", "EOF")
    /\ UNCHANGED <<connVars, regVars, wake, done, watcher, pubVars, readVars, logVars>>

-----------------------------------------------------------------------------
(* Connection.stop: mark closed and copy the set of streams under the lock, *)
(* signal, then finish the copied streams one by one.                       *)
StopFlag ==
    /\ stage = "open"
    /\ stage' = "flagged" /\ stopTodo' = streams
    /\ UNCHANGED <<regVars, streamVars, pubVars, readVars, logVars>>

StopSignal ==
    /\ stage = "flagged" /\ stage' = "signalled"
    /\ UNCHANGED <<stopTodo, regVars, streamVars, pubVars, readVars, logVars>>

StopResting == \A s \in Streams : fin[s]["stop"] \in {"out", "left"}

StopVisit(s) ==
    /\ stage = "signalled" /\ s \in stopTodo /\ StopResting
    /\ StartFinish(s, "stop", "closed")
    /\ stopTodo' = stopTodo \ {s}
    /\ UNCHANGED <<stage, regVars, wake, done, watcher, pubVars, readVars, logVars>>

StopEnd ==
    /\ stage = "signalled" /\ stopTodo = {} /\ StopResting
    /\ stage' = "stopped"
    /\ UNCHANGED <<stopTodo, regVars, streamVars, pubVars, readVars, logVars>>

-----------------------------------------------------------------------------
(* publish and push: the reader goroutine copies the set of streams under   *)
(* the lock and pushes to each; an overflow finishes the stream after its   *)
(* lock has been released.                                                  *)
Publish ==
    /\ ppc = "idle" /\ published < MaxPublished
    /\ published' = published + 1 /\ size' \in Sizes
    /\ todo' = streams /\ ppc' = "push"
    /\ UNCHANGED <<target, connVars, regVars, streamVars, readVars, logVars>>

Overflows(s) == Len(queue[s]) >= MaxCount \/ size > MaxBytes[s] - bytes[s]

PushDrops(s) ==                      \* mutant: an overflow loses the event and nothing else
    /\ ppc = "push" /\ s \in todo
    /\ todo' = todo \ {s}
    /\ IF Live(s) /\ ~Overflows(s)
       THEN /\ queue' = [queue EXCEPT ![s] = Append(@, [id |-> published, size |-> size])]
            /\ bytes' = [bytes EXCEPT ![s] = @ + size] /\ target' = {s} /\ ppc' = "wake"
       ELSE UNCHANGED <<queue, bytes, target, ppc>>
    /\ UNCHANGED <<published, size, terminal, fin, wake, done, watcher, connVars, regVars,
                   readVars, logVars>>

Push(s) ==
    /\ ppc = "push" /\ s \in todo
    /\ todo' = todo \ {s}
    /\ \/ ~Live(s) /\ UNCHANGED <<queue, bytes, target, ppc>>
       \/ /\ Live(s) /\ Overflows(s)
          /\ target' = {s} /\ ppc' = "overflow" /\ UNCHANGED <<queue, bytes>>
       \/ /\ Live(s) /\ ~Overflows(s)
          /\ queue' = [queue EXCEPT ![s] = Append(@, [id |-> published, size |-> size])]
          /\ bytes' = [bytes EXCEPT ![s] = @ + size] /\ target' = {s} /\ ppc' = "wake"
    /\ UNCHANGED <<published, size, terminal, fin, wake, done, watcher, connVars, regVars,
                   readVars, logVars>>

\* The send to wake, a channel of capacity one, when it has room.
PushWake ==
    /\ ppc = "wake"
    /\ wake' = [s \in Streams |-> wake[s] \/ s \in target]
    /\ ppc' = "push" /\ target' = {}
    /\ UNCHANGED <<published, size, todo, finVars, done, watcher, connVars, regVars, readVars,
                   logVars>>

PushLoses(s) ==                      \* mutant: the stream has its end, and no one finishes it
    /\ ppc = "overflow" /\ s \in target
    /\ terminal' = [terminal EXCEPT ![s] = IF Live(s) THEN "lost" ELSE @]
    /\ fin' = [fin EXCEPT ![s]["push"] = "left"] /\ ppc' = "finishing"
    /\ UNCHANGED <<queue, bytes, published, size, todo, target, wake, done, watcher, connVars,
                   regVars, readVars, logVars>>

PushOverflow(s) ==
    /\ ppc = "overflow" /\ s \in target
    /\ StartFinish(s, "push", "lost")
    /\ ppc' = "finishing"
    /\ UNCHANGED <<published, size, todo, target, wake, done, watcher, connVars, regVars,
                   readVars, logVars>>

PushFinished(s) ==
    /\ ppc = "finishing" /\ s \in target /\ fin[s]["push"] = "left"
    /\ ppc' = "push" /\ target' = {}
    /\ UNCHANGED <<published, size, todo, streamVars, connVars, regVars, readVars, logVars>>

PublishEnd ==
    /\ ppc = "push" /\ todo = {} /\ ppc' = "idle"
    /\ UNCHANGED <<published, size, todo, target, connVars, regVars, streamVars, readVars, logVars>>

-----------------------------------------------------------------------------
(* EventStream.Next.                                                        *)
FreeAlways(s) == s \in Streams       \* mutant: several readers at once
Free(s) == ~reading[s]

\* Of two concurrent calls the second returns ErrConcurrentRead.
NextCall(r) ==
    LET s == StreamOf[r] IN
    /\ rpc[r] \in {"idle", "refused"} /\ Opened(s)
    /\ IF Free(s)
       THEN /\ reading' = [reading EXCEPT ![s] = TRUE]
            /\ rpc' = [rpc EXCEPT ![r] = "look"]
       ELSE rpc' = [rpc EXCEPT ![r] = "refused"] /\ UNCHANGED reading
    /\ UNCHANGED <<connVars, regVars, streamVars, pubVars, logVars>>

NextReturn(r) ==
    /\ rpc' = [rpc EXCEPT ![r] = "idle"]
    /\ reading' = [reading EXCEPT ![StreamOf[r]] = FALSE]

\* The context of Next ends: seen under the lock if the stream lives, or in the select.
NextExpire(r) ==
    /\ rpc[r] = "wait" \/ (rpc[r] = "look" /\ Live(StreamOf[r]))
    /\ NextReturn(r)
    /\ UNCHANGED <<connVars, regVars, streamVars, pubVars, logVars>>

NextLookTwice(r) ==                  \* mutant: the event is returned and stays in the queue
    LET s == StreamOf[r] IN
    /\ rpc[r] = "look" /\ Live(s) /\ queue[s] # <<>>
    /\ got' = [got EXCEPT ![s] = Append(@, Head(queue[s]).id)]
    /\ NextReturn(r)
    /\ UNCHANGED <<finVars, wake, done, watcher, since, connVars, regVars, pubVars>>

\* One look under the stream's lock.
NextLook(r) ==
    LET s == StreamOf[r] IN
    /\ rpc[r] = "look"
    /\ \/ ~Live(s) /\ NextReturn(r) /\ UNCHANGED <<queue, bytes, got>>
       \/ /\ Live(s) /\ queue[s] # <<>>
          /\ got' = [got EXCEPT ![s] = Append(@, Head(queue[s]).id)]
          /\ queue' = [queue EXCEPT ![s] = Tail(@)]
          /\ bytes' = [bytes EXCEPT ![s] = @ - Head(queue[s]).size]
          /\ NextReturn(r)
       \/ /\ Live(s) /\ queue[s] = <<>>
          /\ rpc' = [rpc EXCEPT ![r] = "wait"] /\ UNCHANGED <<queue, bytes, got, reading>>
    /\ UNCHANGED <<terminal, fin, wake, done, watcher, since, connVars, regVars, pubVars>>

NextWait(r) ==
    LET s == StreamOf[r] IN
    /\ rpc[r] = "wait"
    /\ \/ done[s] > 0 /\ UNCHANGED wake
       \/ wake[s] /\ wake' = [wake EXCEPT ![s] = FALSE]
    /\ rpc' = [rpc EXCEPT ![r] = "look"]
    /\ UNCHANGED <<reading, finVars, done, watcher, connVars, regVars, pubVars, logVars>>

-----------------------------------------------------------------------------
FinishStep == \E s \in Streams, f \in Finishers : Release(s, f) \/ CloseDone(s, f)
WatchStep  == \E s \in Streams : WatchStop(s) \/ WatchEnd(s)
StopStep   == StopSignal \/ StopEnd \/ \E s \in Streams : StopVisit(s)
PushStep   == \/ PushWake \/ PublishEnd
              \/ \E s \in Streams : Push(s) \/ PushOverflow(s) \/ PushFinished(s)
ReadStep(r) == NextLook(r) \/ NextWait(r)
UserStep   == \/ StopFlag \/ Publish
              \/ \E s \in Streams : Open(s) \/ WatchCtx(s) \/ CloseStream(s)
              \/ \E r \in Readers : NextCall(r) \/ NextExpire(r)

Next == FinishStep \/ WatchStep \/ StopStep \/ PushStep \/ UserStep \/ \E r \in Readers : ReadStep(r)

Spec == Init /\ [][Next]_vars

(* Fairness: each goroutine that can go on does.  No one has to publish, to *)
(* call, to cancel or to close.                                             *)
Fairness ==
    /\ \A s \in Streams : WF_vars(\E f \in Finishers : Release(s, f) \/ CloseDone(s, f))
    /\ \A s \in Streams : WF_vars(WatchStop(s) \/ WatchEnd(s))
    /\ WF_vars(StopStep) /\ WF_vars(PushStep)
    /\ \A r \in Readers : WF_vars(ReadStep(r))

FairSpec == Spec /\ Fairness

-----------------------------------------------------------------------------
(* Properties.                                                              *)

\* What a stream has returned and still holds is the run of events published since it was
\* opened, without a gap: an event that does not fit ends the stream (ErrEventsLost), and no
\* later event is returned after a loss.  While the stream lives the run reaches the event
\* being published.
NoSilentLoss ==
    \A s \in Streams : Opened(s) =>
        LET run     == got[s] \o [i \in DOMAIN queue[s] |-> queue[s][i].id]
            pending == s \in todo \/ (s \in target /\ ppc = "overflow")
        IN  /\ run = [i \in 1..Len(run) |-> since[s] + i - 1]
            /\ Live(s) => Len(run) = published + 1 - since[s] - (IF pending THEN 1 ELSE 0)

\* The bytes that a set of streams has reserved and those that a queue holds, one by one.
Quota(S) == UNION {{s} \X (1..MaxBytes[s]) : s \in S}
Held(q)  == UNION {{i} \X (1..q[i].size) : i \in DOMAIN q}

\* Reservations and limits: the reserved bytes are those of the registered streams, a stream
\* is registered until its finisher has released it, a reader that is woken by done finds the
\* reservation returned, done is closed once (again would panic), and a stream's byte count is that
\* of its queue and within its limits.
QuotaExact ==
    /\ reserved = Cardinality(Quota(streams))
    /\ reserved <= EventBytes /\ Cardinality(streams) <= MaxStreams
    /\ \A s \in Streams :
          /\ Opened(s) /\ Live(s) => s \in streams
          /\ done[s] <= 1 /\ (done[s] > 0 => s \notin streams)
          /\ bytes[s] = Cardinality(Held(queue[s]))
          /\ bytes[s] <= MaxBytes[s] /\ Len(queue[s]) <= MaxCount

\* When stop has returned no stream is open: one that Events registers meanwhile would be
\* missing from the copy that stop finishes.
StopLeavesNone == stage = "stopped" => \A s \in Streams : Opened(s) => ~Live(s)

\* A stream ends once, although four goroutines may finish it at the same time: the first end
\* stands, so that repeated calls of Next report the same error, and done is not closed again,
\* which would panic.
FirstEndStands ==
    [][\A s \in Streams : done'[s] <= 1 /\ (~Live(s) => terminal'[s] = terminal[s])]_vars

Promise == INSTANCE StreamPromise WITH
    told <- published, closing <- Closed, first <- since, taken <- got, end <- terminal

\* The streams keep the promise of StreamPromise: the goroutines that publish, read, close, watch
\* and stop do together what one step at a time would do.
StreamsKeepPromise == Promise!Spec

\* A reader asleep over a queue with an event in it wakes up, although wake holds one token
\* for any number of events.
ReaderWakes ==
    \A r \in Readers :
        rpc[r] = "wait" /\ queue[StreamOf[r]] # <<>> ~> rpc[r] # "wait"

\* A stream that is closed, overflows, or whose context or connection ends gives back its
\* reservation and its goroutine, and a reader inside Next returns.
StreamsEnd ==
    \A s \in Streams :
        (Opened(s) /\ (Closed \/ ~Live(s)))
            ~> /\ watcher[s] = "done" /\ s \notin streams
               /\ \A r \in Readers : StreamOf[r] = s => rpc[r] # "wait"
=============================================================================
