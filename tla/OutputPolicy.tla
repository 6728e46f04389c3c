---------------------------- MODULE OutputPolicy ----------------------------
(* Which panes' output a control connection forwards (tmux/clients.go,      *)
(* event_stream.go).  A refresh of the connection's own client changes two  *)
(* things that must agree: what tmux sends to this client, and the filter   *)
(* that publish applies to what arrives.  The filter is changed first, as   *)
(* output may arrive before the reply; it is changed back when the request  *)
(* turns out not to have been sent.                                         *)
(*                                                                          *)
(* Abstraction.  Commands and output travel in order, each through its      *)
(* pipe.  Left out are calls that fail before they hold outputCapacity,     *)
(* pauses, sizes and reports, which touch neither filter nor flag, and flags*)
(* and panes next to a scroll, a clipboard request or a reset of the cursor:*)
(* both sides ignore them there.                                            *)
EXTENDS Naturals, Sequences, FiniteSets

CONSTANTS Panes,               \* that exist or will be created
          Calls,               \* of Refresh, SetPaneOutput, SetPaneOutputActions
          MaxActions,          \* bound: panes that one call turns on or off
          MaxOutput,           \* bound: output and replies on their way to the reader
          None                 \* nobody, no flag

ASSUME OutputAssumption == MaxActions \in Nat /\ MaxOutput \in Nat /\ None \notin Calls

VARIABLES
    pc, opts, effect,          \* per call: where it stands, RefreshOptions, the outcome; the
                               \* options are kept as history unless nothing came of the call
    owner,                     \* who holds outputCapacity
    disable,                   \* panes its plan turns off first; None if it need not initialise
    noOutput,                  \* Connection.noOutput: what it believes of the flag in tmux
    policy, previous,          \* selectiveOutput with outputPanes, and what stage found there
    \* tmux: the client's flag and panes turned off, whether the flag forgets them, all panes
    native, forgets, exists,
    inbox, pipe,               \* commands on their way to tmux; output and replies on their way back
    \* history: how many calls have staged, in which order, and since which of them a pane is on
    staged, turn, asked

policyVars == <<pc, opts, effect, owner, disable, noOutput, policy, previous,
                native, forgets, exists, inbox, pipe, staged, turn, asked>>

\* RefreshOptions
Flags   == {"no-output", "!no-output"}
Actions == UNION {[S -> {"on", "off"}] : S \in {T \in SUBSET Panes : Cardinality(T) <= MaxActions}}
Options == [flag: Flags \cup {None}, panes: Actions]

Merge(new, old) == [p \in DOMAIN new \cup DOMAIN old |-> IF p \in DOMAIN new THEN new[p] ELSE old[p]]
Untouched == [p \in {} |-> "off"]

NoOptions == [flag |-> None, panes |-> Untouched]

PolicyInit ==
    /\ pc = [c \in Calls |-> "idle"] /\ opts = [c \in Calls |-> NoOptions]
    /\ effect = [c \in Calls |-> "none"] /\ owner = None /\ disable = None
    /\ noOutput \in BOOLEAN
    /\ policy = [selective |-> noOutput, panes |-> Untouched] /\ previous = policy
    /\ native = [noOutput |-> noOutput, off |-> {}] /\ forgets \in BOOLEAN
    /\ exists \in SUBSET Panes \ {{}} /\ inbox = <<>> /\ pipe = <<>>
    /\ staged = 0 /\ turn = [c \in Calls |-> 0]
    /\ asked = [p \in Panes |-> IF noOutput THEN None ELSE 0]

OfPolicy == <<noOutput, policy, previous>>
OfTmux   == <<native, forgets, exists, asked>>
OfPipes  == <<inbox, pipe>>
Turns    == <<staged, turn>>

-----------------------------------------------------------------------------
(* refreshClient                                                            *)

\* needsOutputInitialization: -A alone does not bring output back while the client has no-output.
NeedsInit(o) ==
    noOutput /\ o.flag = None /\ \E p \in DOMAIN o.panes : o.panes[p] = "on"

Unguarded == TRUE                    \* mutant: outputCapacity admits several calls
CapacityFree == owner = None

Acquire(c) ==
    /\ pc[c] = "idle" /\ CapacityFree /\ owner' = c
    /\ \E o \in Options :
          /\ DOMAIN o.panes \subseteq exists
          /\ opts' = [opts EXCEPT ![c] = o]
          /\ pc' = [pc EXCEPT ![c] = IF NeedsInit(o) THEN "list" ELSE "stage"]
    /\ UNCHANGED <<effect, disable, Turns, OfPolicy, OfTmux, OfPipes>>

Done(c, e) ==
    /\ pc' = [pc EXCEPT ![c] = "done"] /\ effect' = [effect EXCEPT ![c] = e]
    /\ owner' = None /\ disable' = None
    /\ opts' = IF e \in {"notSent", "unlisted"} THEN [opts EXCEPT ![c] = NoOptions] ELSE opts

\* refreshOutputPlan: all panes are turned off before the flag is lifted.  The effect of an error
\* is that of the listing; nothing has been staged.
List(c) ==
    /\ pc[c] = "list"
    /\ \/ pc' = [pc EXCEPT ![c] = "stage"] /\ disable' = exists /\ UNCHANGED <<opts, effect, owner>>
       \/ Done(c, "unlisted")
    /\ UNCHANGED <<Turns, OfPolicy, OfTmux, OfPipes>>

\* stageOutputPolicy
StagedAlone(o) ==                    \* mutant: earlier settings are not copied
    IF o.flag = None THEN [policy EXCEPT !.panes = o.panes]
    ELSE [selective |-> o.flag = "no-output", panes |-> o.panes]
Staged(o) ==
    IF o.flag = None THEN [policy EXCEPT !.panes = Merge(o.panes, policy.panes)]
    ELSE [selective |-> o.flag = "no-output", panes |-> o.panes]

Stage(c) ==
    /\ pc[c] = "stage" /\ pc' = [pc EXCEPT ![c] = "send"]
    /\ previous' = policy /\ policy' = Staged(opts[c])
    /\ staged' = staged + 1 /\ turn' = [turn EXCEPT ![c] = staged + 1]
    /\ UNCHANGED <<opts, effect, owner, disable, noOutput, OfTmux, OfPipes>>

\* execute: refused before it is written (limits, queue, deadline), or on its way.
Send(c) ==
    /\ pc[c] = "send" /\ pc' = [pc EXCEPT ![c] = "sent"]
    /\ \/ effect' = [effect EXCEPT ![c] = "notSent"] /\ UNCHANGED inbox
       \/ inbox' = Append(inbox, [call |-> c, disable |-> disable]) /\ UNCHANGED effect
    /\ UNCHANGED <<opts, owner, disable, Turns, pipe, OfPolicy, OfTmux>>

\* updateNativeOutputState
Believed(c) ==
    IF opts[c].flag # None THEN opts[c].flag = "no-output" ELSE noOutput /\ disable = None

\* restoreOutputPolicy
NotRestored == policy                \* mutant: the filter stays as it was staged
Restored == previous

\* The outcome is known, or the caller leaves without it.  A deadline that has passed when the
\* reply is there makes a "confirmed" of it.
Conclude(c) ==
    /\ pc[c] = "sent"
    /\ \/ effect[c] = "notSent" /\ Done(c, "notSent") /\ policy' = Restored /\ UNCHANGED noOutput
       \/ /\ effect[c] = "ok" /\ \E e \in {"ok", "confirmed"} : Done(c, e)
          /\ noOutput' = Believed(c) /\ UNCHANGED policy
       \/ effect[c] \in {"none", "unknown"} /\ Done(c, "unknown") /\ UNCHANGED <<policy, noOutput>>
    /\ previous' = policy'
    /\ UNCHANGED <<Turns, OfTmux, OfPipes>>

-----------------------------------------------------------------------------
(* tmux (external): the guard refuses, a command of the list fails, or all  *)
(* of them run.                                                             *)
WithFlag(n, flag) ==
    IF flag = None THEN n
    ELSE [noOutput |-> flag = "no-output", off |-> IF forgets THEN {} ELSE n.off]

WithPanes(n, panes) ==
    [n EXCEPT !.off = {p \in Panes : IF p \in DOMAIN panes THEN panes[p] = "off" ELSE p \in n.off}]

Disabled(n, off)    == IF off = None THEN n ELSE [n EXCEPT !.off = @ \cup off]
Initialised(n, off) == IF off = None THEN n ELSE WithFlag(Disabled(n, off), "!no-output")

Run ==
    /\ inbox # <<>> /\ Len(pipe) < MaxOutput
    /\ LET m == Head(inbox)
           o == opts[m.call]
           i == Initialised(native, m.disable) IN
       /\ inbox' = Tail(inbox)
       /\ \E e \in {"ok", "unknown", "notSent"} :
             /\ pipe' = Append(pipe, [kind |-> "reply", call |-> m.call, effect |-> e])
             /\ native' \in CASE e = "ok" -> {WithPanes(WithFlag(i, o.flag), o.panes)}
                              [] e = "unknown" -> {native, Disabled(native, m.disable), i}
                              [] OTHER -> {native}
             /\ asked' = IF e # "ok" THEN asked
                         ELSE [p \in Panes |->
                                  IF p \in DOMAIN o.panes
                                  THEN IF o.panes[p] = "on" THEN turn[m.call] ELSE None
                                  ELSE IF o.flag = None THEN asked[p]
                                  ELSE IF o.flag = "!no-output" THEN turn[m.call] ELSE None]
    /\ UNCHANGED <<pc, opts, effect, owner, disable, Turns, forgets, exists, OfPolicy>>

Flows(p) == ~native.noOutput /\ p \notin native.off

Output(p) ==
    /\ p \in exists /\ Flows(p) /\ Len(pipe) < MaxOutput
    /\ pipe' = Append(pipe, [kind |-> "output", pane |-> p, since |-> asked[p]])
    /\ UNCHANGED <<pc, opts, effect, owner, disable, Turns, inbox, OfPolicy, OfTmux>>

Create(p) ==
    /\ p \notin exists /\ exists' = exists \cup {p}
    /\ UNCHANGED <<pc, opts, effect, owner, disable, Turns, native, forgets, asked, OfPolicy, OfPipes>>

-----------------------------------------------------------------------------
(* The reader: a reply reaches its caller if it still waits; an output goes *)
(* to the streams (EventStream's Publish) if the filter Forwards it.        *)
Forwards(p) == IF p \in DOMAIN policy.panes THEN policy.panes[p] = "on" ELSE ~policy.selective

Read ==
    /\ pipe # <<>> /\ pipe' = Tail(pipe)
    /\ LET m == Head(pipe) IN
       IF m.kind = "reply"
       THEN effect' = IF pc[m.call] = "sent" THEN [effect EXCEPT ![m.call] = m.effect] ELSE effect
       ELSE UNCHANGED effect
    /\ UNCHANGED <<pc, opts, owner, disable, Turns, inbox, OfPolicy, OfTmux>>

PolicyNext ==
    \/ \E c \in Calls : Acquire(c) \/ List(c) \/ Stage(c) \/ Send(c) \/ Conclude(c)
    \/ \E p \in Panes : Output(p) \/ Create(p)
    \/ Run \/ Read

PolicySpec == PolicyInit /\ [][PolicyNext]_policyVars

-----------------------------------------------------------------------------
(* Properties.                                                              *)
Decides(c, p) == turn[c] # 0 /\ (opts[c].flag # None \/ p \in DOMAIN opts[c].panes)
Enables(c, p) ==
    IF p \in DOMAIN opts[c].panes THEN opts[c].panes[p] = "on" ELSE opts[c].flag = "!no-output"

\* The last call that says something about p, of those that were not withdrawn.
LastWord(p, c) == Decides(c, p) /\ \A d \in Calls : Decides(d, p) => turn[d] <= turn[c]

\* The filter is what the calls add up to, those that were not sent left out, at any moment and
\* however they overlap: a pane that was turned off is not heard of, also if it is created while
\* the connection turns output on for another one.
FilterIsLastWord ==
    \A p \in Panes, c \in Calls : LastWord(p, c) => (Forwards(p) <=> Enables(c, p))

\* Output that tmux sends for a pane after the call that turned it on passes the filter, also
\* before the call returns, unless a later call is to turn it off.
EnabledIsHeard ==
    pipe # <<>> /\ Head(pipe).kind = "output" /\ Head(pipe).since # None =>
        LET p == Head(pipe).pane IN
        Forwards(p) \/ \E c \in Calls : turn[c] > Head(pipe).since /\ Decides(c, p) /\ ~Enables(c, p)

\* SetPaneOutput "controls whether terminal output events for the specified pane are forwarded":
\* when the last call about a pane only turned it on and was confirmed, tmux sends its output.
EnabledFlows ==
    \A p \in Panes, c \in Calls :
        LastWord(p, c) /\ Enables(c, p) /\ opts[c].flag = None /\ effect[c] \in {"ok", "confirmed"}
            => Flows(p)
=============================================================================
