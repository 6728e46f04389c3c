# gotmux: a verification project

gotmux is a Go library that drives tmux, either by running one `tmux` process
per operation or over one long-lived control-mode client. This directory holds
TLA+ modules of its concurrent and identity-sensitive parts and of the texts it
exchanges with tmux, the TLC configurations that check them on small instances,
and TLAPS proofs, for every value of the constants, of each safety property of
the parts that keep state, and of what the functions on texts do with any text.
`PROJECT.json` maps every definition to the lines it
stands for and lists the components, runs, mutants, hazards and theorems.

## 1. The system

### 1.1 Components

| Component | Source (`tmux/`) | State it keeps | Operations |
|---|---|---|---|
| Control connection | `control.go`, `control_dispatch.go` | `closed`, `terminal`, `stopCh`, `done`; the queue `requests`; the semaphores `count` and `bytes`; the channel `frames`; per request `state` and `result` | `OpenControl`, `run`, `Close`, `Wait`; the dispatcher, the reader and three watchers |
| Event streams | `event_stream.go` | `streams`, `eventReserved`; per stream queue, bytes, `terminal`, `wake`, `done`, `reading` | `Events`, `Next`, `Close`, `publish`/`push`, `finish`, the context watcher |
| Subprocess executor | `exec.go`, `executor.go` | `slots`; per operation the output and input budgets; per run the pipes, buffers and copying goroutines | `begin`, `execute`, `executeProcess`, `run`, `drain` |
| Handles and guards | `identity.go`, `handles.go` | per handle its `origin`, identifier, and slot; `Server.bound` | `check`, `guard`, `wrap`, `unwrap`, `beginHandles`, `act` |
| Link operations | `operations.go` | none of their own | `Link`, `Move`, `Swap`, `Unlink`, `Break`, `Join`, `freeWindowIndex` |
| Output policy | `clients.go` | `selectiveOutput`, `outputPanes`, `noOutput` | `refreshClient` with its staging, `publish`'s filter |
| Creation | `create.go`, `server.go` | `Server.bound` | `NewSession` with its start policy, `NewWindow`, `Split`, `NewPane`, recovery of what was created, `RecreateSocket` |
| Discovery | `discovery.go` | the cache of socket verdicts | `DiscoverServers` |
| Reads | `read.go`, `query.go`, `snapshot.go`, `decode.go`, `current.go` | none | lists, single objects, reads through handles, the retry, snapshots, the current context |
| Options, hooks, environment, bindings | `options.go`, `hooks.go`, `environment.go`, `clients.go` | none | changes, `updateArray`, reads with their origin, listings |
| Attachment | `attach.go` | the terminal, the watcher of a connection | `Session.Attach`; commands for the caller to run |
| Buffers, input, coordination | one file each | none | one guarded command each |
| Protocol and wire | `control_codec.go`, `events.go`, `internal/wire` | the reader's carriage return, envelope and pending bytes | frames, notifications, records, words, quoting |
| Command plans | `command.go` | none | splitting, sizes, text and argv of a plan, `ParseCommandLine` |
| Data | `layout.go`, `version.go`, `value.go`, `errors.go`, generated tables | none | parsing and formatting |

### 1.2 How they interact

Every operation begins with `begin` (a deadline and budgets) and sends plans
through `execute`, which wraps them in a guard, charges the input budget and
hands them to one of two transports. The executor starts a process for each. A
connection queues a request for its one dispatcher, which writes the command
and a marker line to the client's standard input and then reads frames, through
a channel of capacity one, from the reader goroutine that parses the client's
standard output. The reader also calls `publish`, which pushes notifications to
the open event streams. Any of the caller's context, `Close`, a failed write, a
protocol error, `%exit`, the end of the client process, excessive diagnostics
or the opener's context may stop the connection. `stop` runs once, and ends the
streams as well. The result of a plan returns through `unwrap`, which strips
the guard's marker or turns it into a refusal. Each failure carries an
`Effect`: *not sent*, *confirmed* or *unknown*. Callers build their retries on
it, so it must be true.

### 1.3 What is hard here

* Giving up on a request, claiming it, delivering its reply and stopping the
  connection are steps of different goroutines, ordered by an atomic state, two
  semaphores, a mutex and several channels.
* A cancelled request cannot be taken back from tmux; its frames still arrive
  and have to be read to the end before the next one.
* Four goroutines may end one event stream; a push works on a snapshot of the
  streams; one wake token stands for any number of events.
* A descendant of a tmux command can hold the output pipe open; deadline, output
  limit and drain timer cut it at any moment.
* tmux reuses identifiers after a restart, slots of windows are renumbered by
  other clients, and nothing is locked between two commands.
* Between finding no daemon and starting one, another process may start it; a
  socket file may be remade with the inode number that is in the cache.
* Field values, names and output may hold the very bytes that delimit them, and
  arrive cut at any byte, through a terminal that rewrites line ends.

`PROJECT.json` lists these as hazards, each at its line with the properties that
would catch it going wrong.

### 1.4 What makes each component correct

* *Connection*: "not sent" means never executed; a confirmed reply is exactly
  that command's; permits are conserved; nobody is left waiting; the first
  cause of a stop stands; a stop ends all workers.
* *Streams*: no gap without `ErrEventsLost`; the quota is exact and given back
  once; no stream survives the connection; a reader with an event wakes.
* *Executor*: slots are conserved and the budget covers all steps; success
  implies whole output; operations return.
* *Attachment*: whatever ends it, no process, goroutine or raw terminal is left
  behind, and its report of what happened is true.
* *Handles*: a command affects only the daemon and the window that were
  observed; a refusal means nothing was done; nothing is overwritten unasked.
* *Creation*: what counts as not sent made nothing; a returned handle is what
  this call made; a bound server never reaches another daemon.
* *Discovery*: a server is missing from a list only if its daemon could have
  refused; a listed one was spoken to by the caller's own binary.
* *Reads*: a result is one daemon at one moment, also after a retry; a snapshot
  is complete; the current context is the caller's; "not found" is true.
* *Settings*: the report of a change says what was applied; an origin names the
  holder of the value; listed bindings were bound, and noted in their own table, and
  of those the parser takes none is missing.
* *Output policy*: the filter is the last word of the calls; enabled output is not
  dropped.
* *Texts*: both transports deliver the same command; the scans of one text agree;
  what was written is read back, and nothing else is, however the stream is cut.

## 2. Modules

| Module | Models | Role |
|---|---|---|
| `RequestPromise` | what either transport promises about one command | abstract specification |
| `ControlConn` | control connection, all goroutines | detailed specification; implements `RequestPromise` |
| `ControlConnProofs` | | theorems about `ControlConn` |
| `StreamPromise` | what `Next` promises to the reader of one stream | abstract specification |
| `EventStream` | streams of one connection and the tail of `stop` | component; implements `StreamPromise` |
| `EventStreamProofs` | | theorems about `EventStream` and `OutputPolicy` |
| `Runner` | operations over subprocesses | component |
| `SubprocessPromise` | `Runner` beside a daemon that runs its commands | composition; implements `RequestPromise` |
| `Attachment` | `Session.Attach` | component; checked beside `Runner` |
| `RunnerProofs` | | theorems about `Runner` and `Attachment` |
| `Handles` | handles, guards and link operations against a changing daemon | component |
| `HandlesProofs` | | theorems about `Handles` |
| `Reads` | reads, snapshots and the current context against a changing daemon | component |
| `ReadsProofs` | | theorems about `Reads` and `Records` |
| `Settings` | options, hooks, environment and key bindings against a changing daemon | component |
| `SettingsProofs` | | theorems about `Settings` |
| `OutputPolicy` | which panes' output a connection forwards, and what tmux sends its client | component; its filter is the one of `EventStream`'s `Publish` |
| `SocketWorld` | a socket path: its file, its daemon, and what that keeps | environment of the next two |
| `Creation` | operations that create, with their start policies | component |
| `Discovery` | `DiscoverServers` and its cache | component |
| `Startup` | | composes `Creation` and `Discovery` over one `SocketWorld` |
| `StartupProofs` | | theorems about `Startup` |
| `Words` | quoting, escaping, `ParseWords` and `splitSequence` | pure |
| `CommandList` | lists of commands as text and as arguments, and both read back | pure, over `Words` |
| `CommandText` | plans with commands nested in arguments, payloads of hooks and bindings | pure, over `CommandList` |
| `TextProbe` | | a text that is examined: what `ScansAgree` says of it |
| `CommandLine` | root flags, `ParseCommandLine` | pure, over `CommandText` |
| `Records` | length-prefixed records, octal output | pure |
| `ControlCodec` | the reader of a control client and its frames | component, over `Records` |
| `CodecProofs` | | theorems about `ControlCodec`, from the lemmas of `ReadsProofs` on texts |
| `Events` | notifications and watched formats | pure |
| `MC…` | constants of the instances | model checking |

### 2.1 ControlConn

One action stands for one step that other goroutines can observe: an operation
on a channel, a semaphore, a mutex or an atomic. `pc[c]` is where a call of
`run` stands (`count` and `bytes` in `acquireCapacity`, `enqueue`, `wait` in the
select, `abort`, `withdraw` and `abortLast` in `abortRequest`). `dpc` is where
the dispatcher stands, `rpc` the reader, `worker[w]` the watchers, `stage` the
progress of `stop`: the flag under the lock, `stopCh` closed, pipes closed.
`reqState` and `result` are the request's atomic and its buffered channel. A
caller between two looks of `abortRequest` is a state of its own: the claim and
the delivery happen there.

The daemon executes `inbox`, the lines of the client's standard input, and
writes units to `wire`. A command is two lines, its body and its marker. The body
produces a frame of output, a too big one or a failed one. Frames of
other origin may come at any time, up to `MaxForeign`. The client may exit or
crash, after which what is in the pipe can still be read. The instance chooses
the faults it has in `Faults`, so that each run asks one question.

`RequestPromise` keeps of one command only what a caller can observe: whether it
was executed and what was reported. "Not sent" excludes an execution before the
return and after it, and "confirmed" follows one.

Stop's steps inside the terminal section are one action only where the code
holds the lock. `Close` is reduced to its stop, its wait for `done` and its
budget timer.

### 2.2 EventStream

`Open` is `Events`; `WatchCtx`, `WatchStop` and `WatchEnd` are its goroutine.
`Publish` takes the snapshot, `Push` one stream of it, and `PushWake`,
`PushOverflow` and `PushFinished` are what follows the unlock. `finish` is split
where the code unlocks: the terminal error with the queue dropped
(`StartFinish`), `Release` under the connection's lock, `CloseDone`. `fin[s][f]`
says how far finisher `f` has come. `NextCall`, `NextLook`, `NextWait`,
`NextExpire` and `NextReturn` are one reader's way through `Next`. An event is
its number and its size; `got` and `since` record what was returned and the
first event after the opening.

`StreamPromise` is one stream without goroutines: events are returned one after
the other without a gap, and the stream ends once, for a reason that holds. In the
refinement an event is taken when `Next` looks at the queue, not when it returns.

### 2.3 Runner

`pc[o]` follows `execute`, `executeProcess`, `run` and `drain`. `started`,
`failed`, `limit` and `buf` are run's locals and buffer; `copier` and `closed`
are the copying goroutine and the read end. The process may write, exit well or
badly, leave a descendant that holds the pipe, or hang. Standard error follows
the same path as standard output and is merged with it. What has been read from
the pipe and not yet been written to the buffer counts as in the pipe: that is
why `Copy` is possible after `CloseReaders`. When the second `os.Pipe` fails the
goroutine of the first is not waited for; it has nothing to copy
(`OpenFail`). `Expire` is the operation's timeout or its caller's cancellation.

`SubprocessPromise` puts the daemon beside it, which may run the command of a process
that was started at any later moment, once (`DaemonRuns`), also when the process was
killed and its operation has returned. Each step of an operation is then a caller of
`RequestPromise`, the specification that the control connection implements
too: both transports promise the same.

### 2.4 Handles

The daemon is `life`, `links` and `born`; its other clients unlink and link
windows, and it may be replaced by one that hands out the same identifiers.
`TakeSrc` and `TakeDst` give the caller two handles, from rows read at different
times or from bare identifiers. `Call` is the check and `beginHandles`; `Probe`
is `verifiedInfo`; `FreeBase` and `FreeList` are the two reads of
`freeWindowIndex`; `Execute` is the guarded command list, which tmux runs without
interleaving; `Conclude` is `unwrap` with `parseLinkedWindow`. The reply may
lose its standard output and keep its standard error. The behaviour of tmux's
own commands (`NotFound`, `Refuses`, `Changed`) is external and taken from how
the code uses them.

### 2.5 Reads

One operation: `op` is which, `handle` what it works on (a handle with the
daemon of its row, a bare identifier, or `TMUX` and `TMUX_PANE`), `wanted` the
lists it asks for. `world` is the daemon with its links and panes; `Others`
changes it in any way before the command list is answered and again before the
retry. `Refusal` is what guard, connection and tmux say; `Output` the rows of
the list commands, one per link, so that a pane of a window with two links is
listed twice; `Firsts` is `decodePanes`' deduplication, `Complete` is `assess`,
`Context` and `Active` are the two ways of `CurrentFrom`. `Garbled` stands for
an answer that is not well-formed records: it leads to the one retry, whose own
failure is reported as the first one's. `CurrentFrom` compares process numbers
only; in the model no two daemons share one. What a row
holds besides identifiers, counts and the active flags is left out, as are the
caller's own filters and fields. Errors of other kinds (output limit, deadline, a
field that does not decode) are the nondeterministic error of `Fail`.

### 2.6 Settings

One operation on one name or one key. `Prepare` is `optionTarget.prepare`: it
binds the operation to the handle's daemon, or to the one the probe found. `Step` is one
command of a change, or one entry of `updateArray`, `Aggregate` the effect that
`arrayUpdateError` gives the whole. `Local` and `Effective` are the two commands of
`read`; `LocalOrigin` is the code's guess at who holds the local value, and
`Holder` and `Parents` are tmux's own lookup, which it is compared with. `ListKeys`,
`ListNotes` and their detours through the message log of tmux 3.7
(`KeysFromLog`, `NotesFromLog`) are `FindBindings`. The log may have dropped the lines, so
that completeness of the listing is claimed without the detour only. `ParseBindings` is
`parseBindingsLines`, which drops each line that `parseBinding` finds no key in; which
commands it can read (`Readable`) is a constant, so completeness is claimed of these
bindings only (section 3.2). What the
daemon holds is chosen anew whenever a command reads it, which is every change
other clients could have made since. `ran`, `held` and `later` are history.

### 2.7 OutputPolicy

`refreshClient` as far as it concerns output: `Acquire` (`outputCapacity`),
`List` (`refreshOutputPlan`), `Stage`, `Send`, `Conclude` with the restored filter
or the updated `noOutput`. `policy` is `selectiveOutput` with `outputPanes`.
Commands and output travel in order (`inbox`, `pipe`), so that a command of a
caller that has left is still run, before the next call's. What tmux does with
`-f` and `-A` (`WithFlag`, `WithPanes`) is external; whether the flag forgets
which panes were off is left open (`forgets`), since the code relies on neither.
`staged`, `turn` and `asked` are history; the options of a call are kept after its
end for the same purpose. The connection stays open throughout.

### 2.8 Creation, Discovery, Startup

`SocketWorld` is what other processes do: daemons start, listen, die and remake
their socket file, clients create and kill. A daemon is a number, which stands
for PID and start time. `Creation` follows one call from its checks through
`Probe`, the group's lookup and the guarded send to the recovery from whatever
came back: the marker, a record, a record cut short, an error, or nothing. `made`
and `killed` are history. `Discovery` follows one goroutine through the
candidate's file, the cached verdict, the dial, the probe and the replacement of
the whole cache. Verdicts of different paths never meet, so there is one path.
The inode number and the bind time of its file are apart, because the kernel
reuses the one and not the other.

### 2.9 Attachment

`at` follows `Attach` and its deferred calls; `cancelled`, `released` and `over`
are the three ways the contexts end, `watcher` is the goroutine of
`attachmentContext`. The tmux client attaches or is rejected, prints, exits or is
killed, and may leave a descendant that keeps its output open (`held`). A client
that is killed, or crashes, leaves the terminal raw.

### 2.10 Texts

`Words`, `CommandList`, `CommandText`, `CommandLine`, `Records` and `Events` have no
state: they are the code's functions as operators, folded or by recursive functions
over sequences of bytes, or of symbols where a word is never looked into. A
constant formula cannot be refuted by a run, so what is examined is a variable,
`probe`, that an initial state chooses from a set of inputs; the state machine
of the host (`Settings` or `Reads`) then does nothing. With
`probe = NoProbe` the host runs as it would alone. `ControlCodec` is a state
machine: `ReadTerminal`, `ReadPending` and `ReadPipe` move any number of bytes, up
to the room asked for, from `wire` through `controlStreamReader`, so that every way
of cutting a stream is explored; `got` is what the buffered reader has received.
`ClientDies` loses what the client has not written, at any byte; through a terminal
at any but between the CR and the LF of one line end, which its driver puts there
together. `Units` computes from `got` what `reader` publishes and hands over, and the
failure it stops with; `Delivered` is where the notifications inside a frame come before
the frame, or before its failure. `Meant` is what the daemon meant by what it sent, but for
the lines of text that `decodeEvent` takes for notifications (`Decodes`). `IsItem` says
what a daemon sends: records within the limits of their format, lines of bytes, and text
other than records and markers in frames that report a failure only. The words of the
protocol are one symbol each, so no line spells one out (`Spellings`).

## 3. Runs

Bounds are chosen as the smallest at which each interleaving named exists.

| Run | Question | Bounds and why they suffice |
|---|---|---|
| `conn` | Can a caller that leaves and the dispatcher both win? Is a reply ever another's? Are permits conserved and is nobody stranded? Does the connection implement the promise? | three callers, queue of one, sizes on both sides of the byte limit: one is admitted, one waits for the count or the bytes, one is refused; a request follows a cancelled one through the same pipe; the drain timer stops the connection under them |
| `conn_faults` | Does all that hold when things break? | one caller and one `Close`, each of exit, crash, failed write, failed startup and excess diagnostics once, one foreign frame |
| `conn_live` | Do calls return and do stops finish? | one caller, two watchers, the parent context; the daemon may be silent |
| `stream_race` | Is anything lost silently or left open? Is the quota given back once? Do the streams implement the promise? | two streams whose reservations fill the quota to its last byte, two events of two sizes, of which both together overflow a queue; one stream cancelled, one closed, and the stop: each way to finish a stream meets each other |
| `stream_live` | Do readers wake and do streams end? | two readers on one stream, which is cancelled, closed, overflows or ends with its connection; two events of two sizes |
| `runner` | Do limits hold and is success whole? Do the processes implement the promise of the connection? Does every call return and clean up? | two operations of two steps for one slot; a process writes one unit at most, and both steps of an operation together one more than its budget. The daemon runs a command at any moment, or never. An attachment shares nothing with operations and is made instead of them |
| `handles` | Does a command ever hit a stranger? Is a refusal the truth? | two sessions of two slots, two identifiers and one replacement: enough for a reused identifier, a reoccupied slot, a swap and a last link |
| `reads` | Is a result one daemon at one moment? Is the context right, and are errors true? | two sessions with three slots, two windows, two panes, one replacement: a window with two links in one session or in two, a pane moved or gone, a new daemon that reuses every identifier. Streams of up to three units, with frames of up to two lines, notifications or records, text that reads as a notification or nearly so, values that hold every delimiter, and lengths on both sides of the limit of 20; reads of one to three bytes. Records of up to two fields against limits from 0 to 30, and each with any one byte replaced; notifications with names of up to three and values of up to four symbols |
| `settings` | Is the report of a half-done change true? Does an origin name who held the value? Are the bindings real? | three updates, two values, two tables and two commands, one of which the parser cannot read, one replacement: an entry fails first, in the middle or last; two tables are asked for notes one after the other. Plans of all arguments of up to two of the bytes with a meaning, two nodes, two nested lists; every text of up to six of eight bytes; command lines of up to three arguments; configurations of every flag |
| `startup` | Does a call that failed leave anything? Is what it returns its own? Does it stay with its daemon? Is discovery right about the server? | one call of each kind and policy, two binaries, two daemons, three socket files with one inode number, three identifiers; three discoveries, of which two overlap only where no call is made, since calls and discoveries meet in the daemon alone |
| `output` | Does the filter say what the calls add up to? Is enabled output ever dropped? | three calls, two panes, one of them perhaps created meanwhile, two items on the way back, one pane per call: one call lost and two after it |
| `output_unknown` | Does a confirmed `SetPaneOutput` start the output? | the same; violated |

`output_unknown` shows a defect. When a refresh with the no-output flag
ends *unknown*, `refreshClient` leaves `noOutput` as it was. If tmux has run it,
the connection takes the flag for unset, and from then on turning a pane on is
confirmed without any effect: the initialisation that would lift the flag
is skipped.

In `stream_race` a stream is refused because the connection ends, not for want of quota; that
`Events` refuses what does not fit is part of the theorem on `QuotaExact`, for any quota.

`CHECK_DEADLOCK FALSE` is set in all of them: a system whose calls have
returned, or whose bounded supply of events is spent, stops.

### 3.1 Fairness

Fairness is weak and per goroutine: a goroutine that can go on does. It is
assumed of callers inside `run`, of dispatcher, reader, workers and `stop`, of
stream watchers, of the copying goroutines, and of timers (drain timer, deadlines), since the
Go scheduler and the runtime's timers justify that. It is not assumed of tmux,
of the client process, of callers starting anything, or of a process writing,
exiting or closing its output. In `runner` an operation's deadline is assumed to come,
which is so for every operation started by `begin`; those started by
`beginCallerBounded` last as long as their caller allows.

In the attachment, a client is killed once its context is done, since
`os/exec` does that; a client need not detach, so the property asks for the end only
of a call that is cancelled, whose connection stops or whose client has ended.

### 3.2 Observations

What the models had to exclude, or show without contradicting a text of the
repository in a way a run could refute:

* `control_codec.go:105` says that the reader "never scans for a delimiter
  inside a length-framed record". A record that does not fit in what is left of
  the limit is given up, and the reader then looks for the end of a line within
  its bytes and reads what follows as lines. A value with a line feed and a
  line `%end` with the frame's identity ends the frame early. `FramesArrive`
  excludes exactly these values (`HoldsLine`); without the exclusion it fails.
  A malformed record whose offending byte is the line feed takes the next line
  with it.
* A line that a failed command prints may read as a notification: `%` and a name of small
  letters, digits and dashes is enough, since `decodeEvent` makes an `UnknownEvent` of any
  such name. `processFrameLine` publishes it and leaves it out of the frame's data, so that
  the text of the error lacks it and a stream holds an event tmux never sent.
  `FramesArrive` says so (`NotesOf`, `DataOf`).
* Notifications inside a frame are published when they are read. When the frame is then cut
  off, too long or malformed, they have been, and `FramesArrive` asks for exactly those.
* `hooks.go:537` promises for a binding whose text "uses complex shell or tmux syntax
  outside what our non-evaluating parser supports" that `Parsed` is false and `Raw` has the
  text. `parseBindingsLines` drops such a binding instead: `SplitBindingSequence` refuses an
  unquoted brace, `parseBinding` then returns without a key, and lines without one are not
  kept (`hooks.go:816`). `ParseBindings` models the drop, and `BindingsAreTheirs` claims
  nothing of these bindings but that nothing else depends on them.
* `DiscoverServers` may miss a server that runs. A daemon that has bound its
  socket and does not listen yet refuses a connection, and the refusal is kept
  until the file changes, which it does not (`MissesOnlyRefused` allows that).
* `NewSession` with a group may report a confirmed effect when it was only the
  listing of sessions that ran. A target that has vanished since the listing
  makes `new-session -t` start a group of its own.
* `words.go:13` says that parsing fails closed. A line feed ends a comment, and
  text after it within one command is dropped.
* `splitSequence` and `ParseWords` differ on a backslash before a line feed
  (`Continued` in `ScansAgree`). An escaped blank at the end of a part is trimmed,
  and the part then refused.
* A command line without `-u` parses to the default, whatever configuration wrote
  it: `ReadsOwnCommandLine` takes "omit" and "default" for the same.
* `ReadBuffer` reads without a guard after its probe.

## 4. Proofs

Every safety invariant, every safety action property and every refinement that a
run checks of a component with state is also a theorem, for any number of callers,
streams, operations, panes, daemons and faults and for any limits that satisfy the
assumptions on the constants. The theorems about texts are about every text.

| Module | Theorem | States |
|---|---|---|
| `ControlConnProofs` | `TypeCorrect` | `Spec => []TypeOK` |
| | `EffectIsHonest` | `Spec => []EffectHonest` |
| | `PromiseKept` | `Spec => KeepsPromise`, the refinement of `RequestPromise` |
| | `FirstCauseHolds` | `Spec => FirstCauseStands` |
| | `NobodyWaits` | `Spec => []NobodyStranded` |
| | `CapacityKept` | `Spec => []CapacityConserved` |
| | `RepliesAreOwn` | `Spec => []ReplyIsOwn` |
| `EventStreamProofs` | `NothingLostInSilence` | `Spec => []NoSilentLoss` |
| | `QuotasAreExact` | `Spec => []QuotaExact` |
| | `StopEndsAll` | `Spec => []StopLeavesNone` |
| | `OneEndStands` | `Spec => FirstEndStands` |
| | `StreamsKeepTheirPromise` | `Spec => StreamsKeepPromise`, the refinement of `StreamPromise` |
| | `FilterHolds` | `PolicySpec => []FilterIsLastWord` |
| | `OutputIsHeard` | `PolicySpec => []EnabledIsHeard` |
| `RunnerProofs` | `LimitsAreKept` | `Spec => []LimitsHold` |
| | `DoneIsWhole` | `Spec => []SuccessIsWhole` |
| | `NotSentStartedNothing` | `Spec => []NotSentIsHonest` |
| | `ExecutorKeepsPromise` | `DaemonSpec => ProcessesKeepPromise`, the refinement of `RequestPromise` |
| | `AttachmentLeavesNothing` | `AttachSpec => []AttachLeavesNothing` |
| `HandlesProofs` | `OnlyItsOwnChanges` | `Spec => []OnlyItsOwn` |
| | `RefusalIsTrue` | `Spec => []RefusedMeansUndone` |
| | `NoSlotOverwritten` | `Spec => NothingOverwritten` |
| `ReadsProofs` | `ResultsAreOfOneMoment` | `Spec => []OneMoment` |
| | `ContextsHold` | `Spec => []ContextHolds` |
| | `ErrorsAreHonest` | `Spec => []ErrorsAreTrue` |
| | `RecordReturns` | `ReadBack(values, rest, max)` for any fields of any bytes |
| | `EncodedOnce` | `OneEncoding(s)` for any bytes |
| | `OutputReturns` | `OutputReadBack(data, max)` for any output |
| `CodecProofs` | `FramesArriveWhole` | `CodecSpec => []FramesArrive` |
| `SettingsProofs` | `ReportHolds` | `Spec => []ReportIsTrue` |
| | `OriginIsTrue` | `Spec => []OriginHeldIt` |
| | `BindingsHold` | `Spec => []BindingsAreTheirs` |
| | `ListsArrive` | `\A lists \in Seq(Seq(Seq(0..255)) \ {<<>>}) : Arrives(lists)` |
| | `ScansOfTextAgree` | `TextSpec => []ScansAgree` |
| `StartupProofs` | `UnsentIsUndone` | `Spec => []UnsentMadeNothing` |
| | `ReportsAreOwn` | `Spec => []CreatedIsOurs` |
| | `NoOtherDaemon` | `Spec => []StaysWithItsDaemon` |
| | `NothingHidden` | `Spec => []MissesOnlyRefused` |
| | `ListedOnItsWord` | `Spec => []VouchedFor` |

`NotSentStartedNothing` and `OneEndStands` are corollaries, in effect, of the two
refinements: no run lists what they state, since the refinement it does list says more.

Each module starts with its inductive invariant, a conjunction of named parts,
and shows that it holds initially, that every step keeps it (a lemma per action
or group of actions, with frame lemmas for what a step does not touch) and that
it implies the property.

### 4.1 The control connection

`EffectHonest` is not inductive: nothing in it speaks of a request that is
queued, claimed, or whose line is on its way. `EInv` adds, for each caller, that
a request is in at most one place (`QueuedOnce`, `HeldApart`), that claiming it
is what allows its body line to be in the pipe (`Claimed`, `Once`), that
what the dispatcher is about to deliver says "not sent" only if nothing of it
was written (`Stored`, `Honest`), and that a call still able to withdraw has not been claimed
(`Pending`, `Progress`).

The refinement needs that a confirmed reply follows an execution, which
`EffectHonest` does not say. `AInv` states it along the way of the marker: the
body precedes its marker in `inbox`, and a marker's frame anywhere in `wire`,
`frames`, `held` or a confirmed reply implies that the body has been run. With
both, each step is shown to be a step of `RequestPromise` or to leave its
variables unchanged.

`NobodyStranded` speaks of the state in which the dispatcher has gone. `WInv`
says why that state is reached with nobody in it: at any time, a call that waits
has its reply in its channel, is in the queue, or is in the dispatcher's hand,
and the dispatcher leaves only when the connection is stopped, after which
`enqueueRequest` admits nobody, and the queue is empty.

`CapacityConserved` counts semaphores, so `CInv` says whose permits they are: a
call's between its acquisition and its `enqueue`, a queued request's, or the
dispatcher's until `releaseRequest`. The count is the cardinality of a set of
calls. The byte semaphore is a sum; it is proved as the cardinality of the set
of bytes, one pair of a caller and a number for each (`Weight`), which needs
no induction over the callers. That a call with its permits never blocks on
the channel `requests` follows by an injection from the queue into the holders.

`ReplyIsOwn` is the deepest of them: frames carry no address. `PInv` says that
the pipes hold lines and frames of one request at a time (`OneRequest`), nothing
of the request after its marker (`NonceLast`), its body's frame before
its marker's (`BodyFirst`), that nothing of any request is left when an open
connection takes the next one (`Clean`), and that what has been collected is the
current request's own (`Collecting`, `Confirmed`). It rests on `EInv` and
`AInv`.

### 4.2 Streams, executor, attachment

`StreamInv`: at most one goroutine is in the body of `finish` and the stream has
ended by then (`FinishOnce`); a live stream is registered and, once the connection
is closed, still on the list `stop` works through (`Registered`); events returned
and queued are consecutive numbers from the opening on, up to the last or the
last but one event published, according to whether the push has come to that stream
(`Numbered`); and the quota is that of the registered streams (`QuotaKept`,
`QueuesKept`). The publisher's snapshot is what makes `Numbered` need `todo` and
`target`: a stream opened after the snapshot has nothing to wait for.

`RunnerInv`, per operation: what is left of the budget and what was collected are
the whole of it (`Accounted`); the copying goroutine is alive while `run` counts on
it, and ends before the read end is closed only when nobody can write any more
(`PipeState`); unless the limit was exceeded, buffer and pipe together
are what was written (`Whole`). Slots are the cardinality of the operations that are
in `run`. `AttachInv` says what the client did, said and was seen to say
(`AttachTold`), and where the call stands when process, watcher and terminal are in
use (`AttachPlaces`).

Both refinements are proved the way `PromiseKept` is: each action maps to one step of
the abstract specification or leaves its variables as they are. `StreamsKeepPromise`
needs of `StreamInv` that the head of a queue is the event after the last returned one
(`Numbered`), and with `FirstKnown`, that a stream has a first event exactly from its
opening on. `ExecutorKeepsPromise` adds `DaemonInv`: the daemon has run a command
only if its process was started, and it has run one whose process exited with success;
a process once started rules out *not sent* for good.

### 4.3 Handles, reads, settings, output

`HandlesInv`: every valid handle of a call and its connection agree on the identity
the call carries (`Resolved`), by which the guard of `Execute` is the one the handle
was observed with; and a command that took effect is never answered by the two
replies that `unwrap` takes for a refusal (`ToldOf`).

`ReadsInv` is small, since a read keeps nothing between its two tries but what the
caller gave (`Given`). The work is in the lemmas on rows: a list names each object
once after `Firsts`, though a window with two links lists its panes twice, and
counts agree with rows because slots, rows and panes are in bijection.

`RInv` of `Settings` says that entries are applied in order (`Typed`), each applied
one was run by the guarded daemon (`AppliedRan`), and nothing beyond the first that
is not applied was tried, that one only by an operation that ended there
(`RestClean`). `ReadsOptions` keeps the tree that the first command found in hand
until the second one (`LocalFound`), and the lemmas show that `LocalOrigin`, computed
from the table of options alone, is the first scope of tmux's lookup.
`ListsBindings` keeps each intermediate listing within the readable rows of the first one
(`RowsTrue`) and ties every verdict on a table to a note of that table (`NotesTrue`).

`PInv` of `OutputPolicy` adds that the call between staging and its end is the
holder of `outputCapacity` and has the latest turn (`Turned`), and that the filter it
would put back, `previous`, is the last word of all others. Without the holder's
exclusiveness, a call could stage on a filter that another is about to take
back. `HInv`, for `EnabledIsHeard`, follows each request and its reply through both
pipes (`OneCommand`), so that a call in whose name tmux sends output is never one
that will be withdrawn (`RanForGood`), and says of the filter in force and
of the one that may be put back that they let through what tmux sends, or is going to send
when a command still on its way has run (`Heard`, `HeardWithout`).

### 4.4 Creation and discovery

`StartupInv` has a part about calls and one about discoveries; what either needs of
the other and of the world is `WorldMoves`: a step leaves the socket file with its
daemon, removes it, or makes one that has never been. A call that waits for its
reply has made the one object that the reply names, or none and the reply
says so (`MadeOne`, `MadeNone`); before its command ran it has made nothing
(`Unheard`); what it may do where it stands follows from its request and what
the probe found (`Standing`). A verdict, in the cache or in a call's hands, is true of
the file now at the path or is about another file (`Honest`), and no file comes back
with the same bind time. The theorems are about `Spec`, with any number of callers and
discoveries overlapping as they like; `MCStartup` explores part of that only, and
lets callers leave before they ask for anything (`NoCalls`).

### 4.5 Texts

The functions on texts are recursive functions over positions, which the prover knows
as a `CHOOSE` until a function with those values is shown to exist. Each is therefore
introduced once as an equation per position: a lemma builds the function or
shows it exists, by induction over `Nat` in the form that the least number outside a
set has a predecessor in it.

`ListsArrive` follows the words of a command from the quoting of one byte up. A
concatenation is known by its prefixes (`Join`), the states of `ParseWords` and
`splitSequence` within a quoted argument by the byte of the argument that they have come to, and the
part between two separators by the words before it. Both readers therefore find, of any
list of commands, every command, word and byte, and nothing else. A nested command
is the same function applied to the text of another argument; the module that nests
declares a RECURSIVE operator, so plans with nesting are model-checked only
(`CommandsArrive`).

`ScansOfTextAgree` compares three scans of one text that nobody promises to be well
formed. `Alike` relates the state of `splitSequence` to that of the one scan over the
whole text after each byte: quote, start of a word and end agree, and the octal digits that
the one skips are plain bytes to the other. `PartRead` shows that `ParseWords`, run over a part
that was cut out and trimmed, goes through the same states as the whole scan between
the part's ends. What it looks ahead to beyond the part is a blank, a semicolon or a
comment, which decides nothing. `Progress` puts the parts together, from one
separator to the next. An octal escape that a part cuts off is refused by both.
The hypothesis `~Continued` is needed: section 3.2.

`RecordReturns` reads forward what `EncodeRecord` put together. A text is said to stand at a
place as far as the input goes (`AsFar`), so one lemma for a numeral, one for a field
and one for a record answer at once for the record that is whole, the one cut off at
any byte and the one that is longer than the limit: the scan is right, short or
bad (`DecimalReads`, `FieldReads`, `RecordSo`). Numbers are written and read digit
by digit; that reading a numeral returns the number (`NumeralRead`) and that a number
without a leading zero is written in one way only (`NumberWritten`) are inductions over
tenths. `EncodedOnce` goes the other way, from what was accepted to what
must have stood there (`DecimalOnce`, `FieldOnce`, `FieldsOnce`). Both need that the
numbers in the input are told apart: the model lets all numbers from `MaxNumber` on be one,
and the hypotheses say that the texts are shorter than that; `OutputReturns` has no
such hypothesis.

`FramesArriveWhole` joins a state machine to a parser. `CodecInv` is about the former. Over a
pipe (`PipeSo`), what was handed out and what is unread are what was sent, or a beginning
of it once the client has died. Over a terminal (`TerminalSo`) they are so up to one
place in what was sent, and at that place a CR may be held back whose LF has not
been read (`Sync`), or still be pending because the caller had no room; the cut
into reads is in none of it. Only when there is nothing unread, pending or held back is the
parser looked at, so it never has to be followed from step to step. For it, what was received stands
at a place as far as the input goes (`AsFar` again),
and one lemma each for a line, a record, a round of `readFrame`, a frame and a unit says what
is read there (`LineStepSo`, `RecordStepSo`, `StepSo`, `UnitSo`): the whole unit if it is all there
and fits, and a failure if not, with the notifications that came before it. For a unit that
fails, `Parted` names the piece it fails at, the first that is not there or does not fit, and
`BegunIff` says the same of what was received (`Begun`). A record inside a frame is where the parser leaves its lines; that
`readRecordWireChunk` finds the record's own end is `RecordSo`. `ArrivesAs` puts the units
together, from the first to the one that is not whole. The limit is on the sum of what
`ReadSlice` hands out (`Exceeds`), for any size of its buffer.

### 4.6 Assumptions and what the proofs changed

The assumptions are on constants, one per module (`ConnAssumption`,
`StreamAssumption`, `RunnerAssumption`, `HandlesAssumption`, `ReadsAssumption`,
`SettingsAssumption`, `OutputAssumption`, `WorldAssumption`, `RequestsAssumption`,
`DiscoveryAssumption`, `CodecAssumption`): finite sets of callers, streams, operations and
slots, bounds that are numbers, limits that are positive because the code refuses
negative ones and replaces zero by a default (`normalizeLimits`,
`normalizeControlOptions`, `normalizeEventOptions`), and names that differ from each other. TLC evaluates them in every run of their
modules. Nothing else is assumed; fairness is used by no theorem.

Attempts that failed were findings about the model, and it was changed, with the
same meaning for the instances: the `CASE` expressions of `ProbeAnswers`, `Refusal`
and `FirstStep` had guards that overlap, which TLC takes in order and the
logic does not; they follow the order of the code now. The sums in `QuotaExact` are
stated as cardinalities now, byte by byte as in `Weight`. `ControlCodec` said what arrives
only of streams that ended where the daemon ended them; a proof has to say what a
reader makes of every beginning of a stream, so the client may now die, and `FramesArrive`
also says that nothing is made of a unit that was cut off. Its folds became recursive
functions, and what a daemon sends was stated (`IsItem`). `NoBinary` and `None` were not said to differ from the
values they are compared with.

### 4.7 Model-checked only

* `CallsReturn`, `StopEnds`, `ReaderWakes`, `StreamsEnd` and `EveryCallReturns`:
  liveness under fairness is outside what the prover handles, as is ENABLED.
* `CommandsArrive` and `CommandLinesReadBack`: their modules declare RECURSIVE operators,
  which takes the SMT backend away; none of the modules proved about reaches one. The
  part of `CommandsArrive` without nesting is `ListsArrive`.
* Of `ReadsWhatWasWritten` the clause about notifications: the proof,
  along the lines of section 4.5, is not done. The clauses about records, damaged
  bytes and output are `RecordReturns`, `EncodedOnce` and `OutputReturns`.

## 5. Plan

In order of importance.

1. The texts that are left: notifications for every name and value.
2. An abstract specification of discovery (a listing that each server of the moment
   confirms or that follows from a refusal), with `Discovery` shown to implement it.
3. Break and Join in `Handles`; the cached client of a connection.

### 5.1 Not modelled, and why

* Buffers, input and coordination, and most other operations: builders of the
  arguments of one command, which goes through `begin`, the guard and `execute`
  as in `Runner` and `Handles`; they keep no state and take no second step.
  `Break`, `Join` and the pane operations go through the same helpers as the link
  operations that are modelled.
* `Command.Run` and `RunWith`, `RunRootShell` and the `Prepare` functions of
  attachments: one call of the executor, or a command for the caller to run.
* The cached client of a connection and the set-up of its process and terminal.
* Reads with a caller's own format; the format strings that make tmux write
  records, which only tmux interprets.
* Decoding of single fields, generated tables, versions and layouts: plain data,
  covered by unit tests. Pseudo-terminals and process attributes: system calls.
  The test server: a fixture.
* Time: a timer may fire at any moment after it was set.
