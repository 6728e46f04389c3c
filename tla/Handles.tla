------------------------------ MODULE Handles ------------------------------
(* Handles and their guards (tmux/identity.go, tmux/handles.go) under the   *)
(* operations on window links (tmux/operations.go): a handle remembers the  *)
(* daemon it was observed on, a link handle also the window in its slot,    *)
(* and every command carries conditions that the answering daemon evaluates *)
(* together with the command, whatever happened to it in the meantime.      *)
(*                                                                          *)
(* Abstraction.  A daemon's identity is the number of its life; sessions    *)
(* and windows keep nothing but their links.  Identifiers are reused by the *)
(* next life, and within a life never: that is tmux's rule.                 *)
EXTENDS Integers, FiniteSets, FiniteSetsExt

CONSTANTS Sessions, Windows,   \* identifiers a daemon may give out
          MaxIndex,            \* bound: slots of a session are 0..MaxIndex
          MaxLives,            \* bound: daemons that own the socket one after the other
          None                 \* an empty slot

ASSUME HandlesAssumption ==
    /\ None \notin Windows /\ MaxIndex \in Nat /\ MaxLives \in Nat \ {0}

VARIABLES
    \* the daemon: which one answers, its sessions' slots, the window identifiers it has used
    life, links, born,
    \* Server.bound: the daemon of the connection the server belongs to, 0 for none
    bound,
    \* the operation: where it stands, what it is, its two handles, their shared identity and slot
    pc, kind, replace, src, dst, identity, index,
    \* what tmux answered and what the caller is told
    reply, effect,
    \* history: what the command of this operation changed, and on which daemon
    did

daemonVars == <<life, links, born>>
opVars     == <<kind, replace, src, dst, identity, index>>
vars == <<daemonVars, bound, pc, opVars, reply, effect, did>>

Indexes  == 0..MaxIndex
Handle   == [origin: 0..MaxLives, session: Sessions, index: Indexes, window: Windows]
Free     == -1                                  \* a nil LinkOptions.Index
Nothing  == [life |-> 0, windows |-> {}]
NoAnswer == [marker |-> "none", err |-> "none", row |-> None]

OnLinks  == {"move", "swap", "unlink"}          \* operations of a WindowLink
OnTwo    == {"link", "move", "swap"}            \* those that go through beginHandles
Placing  == {"link", "move"}                    \* those that go through mutateLink

Valid(h)   == h.origin # 0                      \* ServerIdentity.valid
Has(s)     == \E i \in Indexes : links[s][i] # None
Exists(w)  == \E s \in Sessions, i \in Indexes : links[s][i] = w
At(h)      == links[h.session][h.index]
Known(l)   == {l[s][i] : s \in Sessions, i \in Indexes} \ {None}

Go(to) == pc' = to
Fail(e) == Go("done") /\ effect' = e

-----------------------------------------------------------------------------
(* The daemon and its other clients (not under src).                        *)
Empty  == [s \in Sessions |-> [i \in Indexes |-> None]]
Starts == {[Empty EXCEPT ![s][i] = w] : s \in Sessions, i \in Indexes, w \in Windows}
NoHandle == CHOOSE h \in Handle : h.origin = 0

Init ==
    /\ life = 1 /\ links \in Starts /\ born = Known(links) /\ bound \in {0, 1}
    /\ pc = "src" /\ kind = "kill" /\ replace = FALSE
    /\ src = NoHandle /\ dst = NoHandle
    /\ identity = 0 /\ index = Free
    /\ reply = NoAnswer /\ effect = "none" /\ did = Nothing

\* What the daemon does once it has run the operation's command concerns no property.
Open == pc \notin {"reply", "done"}

OpKeeps == <<bound, pc, opVars, reply, effect, did>>

OtherUnlinks(s, i) ==
    /\ links[s][i] # None /\ Open
    /\ links' = [links EXCEPT ![s][i] = None]
    /\ UNCHANGED <<life, born, OpKeeps>>

OtherLinks(s, i, w) ==
    /\ links[s][i] = None /\ Open
    /\ w \notin born \/ Exists(w)
    /\ links' = [links EXCEPT ![s][i] = w] /\ born' = born \cup {w}
    /\ UNCHANGED <<life, OpKeeps>>

Replaced ==
    /\ life < MaxLives /\ Open
    /\ life' = life + 1 /\ links' \in Starts /\ born' = Known(links')
    /\ UNCHANGED OpKeeps

-----------------------------------------------------------------------------
(* How a caller comes by its handles: from a row of the daemon, which names *)
(* the daemon itself, or from a bare identifier.  A server that belongs to  *)
(* a connection reads rows of that connection's daemon only (resolveGuard). *)
Row(s, i) == [origin |-> life, session |-> s, index |-> i, window |-> links[s][i]]

Handles == {Row(slot[1], slot[2]) :
               slot \in {taken \in Sessions \X Indexes :
                            links[taken[1]][taken[2]] # None /\ bound \in {0, life}}}
           \cup {h \in Handle : h.origin = 0 /\ h.index = 0}

TakeSrc ==
    /\ pc = "src" /\ Go("dst") /\ src' \in Handles
    /\ UNCHANGED <<daemonVars, bound, kind, replace, dst, identity, index, reply, effect, did>>

TakeDst ==
    /\ pc = "dst" /\ Go("call") /\ dst' \in Handles
    /\ UNCHANGED <<daemonVars, bound, kind, replace, src, identity, index, reply, effect, did>>

-----------------------------------------------------------------------------
(* beginHandles and sharedHandleIdentity; handle.guard and resolveGuard for *)
(* an operation of one handle.                                              *)
OwnIdentity(h) == IF Valid(h) THEN h.origin ELSE bound

SharedIdentityOfFirst ==             \* mutant: the second handle's origin is not looked at
    OwnIdentity(src)
SharedIdentity ==
    CASE Valid(src) -> src.origin
      [] ~Valid(src) /\ Valid(dst) -> dst.origin
      [] OTHER -> bound

Call(k, r, i) ==
    /\ pc = "call" /\ kind' = k /\ replace' = r /\ index' = i
    /\ k \in OnLinks => Valid(src)               \* link handles come from rows only
    /\ k = "swap" => Valid(dst)
    /\ k \notin Placing => i = Free
    /\ k \in {"swap", "kill"} => ~r
    /\ IF \/ k \in OnTwo /\ Valid(src) /\ Valid(dst) /\ src.origin # dst.origin
          \/ k \in Placing /\ r /\ i = Free     \* Replace requires an explicit index
       THEN Fail("notSent") /\ UNCHANGED identity
       ELSE /\ UNCHANGED effect
            /\ identity' = IF k \in OnTwo THEN SharedIdentity ELSE OwnIdentity(src)
            /\ Go(CASE k \in OnTwo /\ identity' = 0 -> "probe"
                    [] k \in Placing /\ i = Free /\ identity' # 0 -> "base"
                    [] OTHER -> "execute")
    /\ UNCHANGED <<daemonVars, bound, src, dst, reply, did>>

Probe ==
    /\ pc = "probe" /\ identity' = life
    /\ Go(IF index = Free /\ kind \in Placing THEN "base" ELSE "execute")
    /\ UNCHANGED <<daemonVars, bound, kind, replace, src, dst, index, reply, effect, did>>

-----------------------------------------------------------------------------
(* freeWindowIndex: the session's base index, then its links, each read     *)
(* under the guard.  The base index may be any slot.                        *)
ReadFails ==
    \/ identity # life /\ Fail("notSent")
    \/ identity = life /\ ~Has(dst.session) /\ Fail("unknown")
    \/ Fail("unknown")                           \* deadline, process, output limit

FreeBase ==
    /\ pc = "base"
    /\ \/ /\ identity = life /\ Has(dst.session)
          /\ index' \in Indexes /\ Go("list") /\ UNCHANGED effect
       \/ ReadFails /\ UNCHANGED index
    /\ UNCHANGED <<daemonVars, bound, kind, replace, src, dst, identity, reply, did>>

Unused(from) == {i \in Indexes : i >= from /\ links[dst.session][i] = None}

FreeList ==
    /\ pc = "list"
    /\ \/ /\ identity = life /\ Has(dst.session) /\ Unused(index) # {}
          /\ index' = Min(Unused(index)) /\ Go("execute") /\ UNCHANGED effect
       \/ ReadFails /\ UNCHANGED index
       \/ Unused(index) = {} /\ Fail("notSent") /\ UNCHANGED index  \* beyond the bound
    /\ UNCHANGED <<daemonVars, bound, kind, replace, src, dst, identity, reply, did>>

-----------------------------------------------------------------------------
(* wrap: the identity first, then each link, then the command.              *)
GuardLinksNone == {}                 \* mutant: the guard of a plain handle
GuardLinks ==
    CASE kind = "swap" -> {src, dst}
      [] kind \in {"move", "unlink"} -> {src}
      [] OTHER -> {}

IdentityHolds == identity = 0 \/ identity = life
LinkHolds(h) == At(h) = h.window

\* tmux's own commands (not under src): what they do to the slots, and when they refuse.
Overwrites(flag) == TRUE             \* mutant: -k is always passed
Kept(flag) == flag                   \* -k is passed for Replace or Force only
PassesK == Kept(replace)

NotFound ==
    CASE kind = "link"   -> ~Exists(src.window) \/ ~Has(dst.session)
      [] kind = "move"   -> At(src) = None \/ ~Has(dst.session)
      [] kind = "swap"   -> At(src) = None \/ At(dst) = None
      [] kind = "unlink" -> At(src) = None
      [] kind = "kill"   -> ~Exists(src.window)

Refuses ==
    \/ kind \in Placing /\ links[dst.session][index] # None /\ ~PassesK
    \/ kind = "move" /\ dst.session = src.session /\ index = src.index
    \/ /\ kind = "unlink" /\ ~PassesK
       /\ \A s \in Sessions, i \in Indexes :
             links[s][i] = At(src) => <<s, i>> = <<src.session, src.index>>

Cleared(h) == [links EXCEPT ![h.session][h.index] = None]

Changed ==
    CASE kind = "link"   -> [links EXCEPT ![dst.session][index] = src.window]
      [] kind = "move"   -> [Cleared(src) EXCEPT ![dst.session][index] = At(src)]
      [] kind = "swap"   -> [links EXCEPT ![src.session][src.index] = At(dst),
                                          ![dst.session][dst.index] = At(src)]
      [] kind = "unlink" -> Cleared(src)
      [] kind = "kill"   -> [s \in Sessions |->
                                [i \in Indexes |-> IF links[s][i] = src.window THEN None
                                                   ELSE links[s][i]]]

Touched == CASE kind \in {"link", "kill"} -> {src.window}
             [] kind = "swap" -> {At(src), At(dst)}
             [] OTHER -> {At(src)}

\* The standard output, with the marker, may be lost on the way (a deadline cuts the copy short),
\* or the whole reply; the standard error may come through all the same.
Answer(marker, err, row) ==
    \/ reply' = [marker |-> marker, err |-> err, row |-> row]
    \/ reply' = [marker |-> "none", err |-> IF err = "none" THEN "other" ELSE err, row |-> None]
    \/ reply' = [marker |-> "none", err |-> "other", row |-> None]

Rejects ==
    \/ ~IdentityHolds /\ Answer("server", "none", None)
    \/ IdentityHolds /\ \E h \in GuardLinks :
          ~LinkHolds(h) /\ IF Has(h.session) THEN Answer("link", "none", None)
                                             ELSE Answer("none", "notFound", None)

\* One command list of the daemon: nothing of another client comes between its parts.
Marker == IF identity = 0 THEN "none" ELSE "ok"

Execute ==
    /\ pc = "execute" /\ Go("reply")
    /\ IF ~IdentityHolds \/ (\E h \in GuardLinks : ~LinkHolds(h))
       THEN Rejects /\ UNCHANGED <<links, did>>
       ELSE IF NotFound \/ Refuses
            THEN /\ Answer(Marker, IF NotFound THEN "notFound" ELSE "other", None)
                 /\ UNCHANGED <<links, did>>
            ELSE /\ links' = Changed /\ did' = [life |-> life, windows |-> Touched]
                 /\ Answer(Marker, "none",
                           IF kind \in Placing THEN links'[dst.session][index] ELSE None)
    /\ UNCHANGED <<life, born, bound, opVars, effect>>

\* The operation may also end before its command is sent.
Unsent ==
    /\ pc \in {"probe", "base", "list", "execute"} /\ Fail("notSent")
    /\ UNCHANGED <<daemonVars, bound, opVars, reply, did>>

-----------------------------------------------------------------------------
(* unwrap, and parseLinkedWindow.                                           *)
Parse ==
    IF kind \in Placing /\ reply.row # src.window THEN "confirmed" ELSE "ok"

UnwrapHasty ==                       \* mutant: no marker, so the guard must have refused
    CASE reply.marker = "ok" -> IF reply.err = "none" THEN Parse ELSE "unknown"
      [] OTHER -> "notSent"

Unwrap ==
    CASE reply.marker \in {"server", "link"} -> "notSent"
      [] reply.marker = "ok" -> IF reply.err = "none" THEN Parse ELSE "unknown"
      [] reply.marker = "none" /\ identity = 0 -> IF reply.err = "none" THEN Parse ELSE "unknown"
      [] reply.marker = "none" /\ identity # 0 ->
            IF GuardLinks # {} /\ reply.err = "notFound" THEN "notSent" ELSE "unknown"

Conclude ==
    /\ pc = "reply" /\ Fail(Unwrap)
    /\ UNCHANGED <<daemonVars, bound, opVars, reply, did>>

-----------------------------------------------------------------------------
DaemonStep ==
    \/ \E s \in Sessions, i \in Indexes :
          OtherUnlinks(s, i) \/ \E w \in Windows : OtherLinks(s, i, w)
    \/ Replaced

OpStep ==
    \/ TakeSrc \/ TakeDst \/ Probe \/ FreeBase \/ FreeList \/ Execute \/ Unsent \/ Conclude
    \/ \E k \in {"link", "move", "swap", "unlink", "kill"}, r \in BOOLEAN, i \in Indexes \cup {Free} :
          Call(k, r, i)

Next == DaemonStep \/ OpStep

Spec == Init /\ [][Next]_vars

-----------------------------------------------------------------------------
(* Properties.                                                              *)

\* A command takes effect only on the daemon its handles were observed on, and a link operation
\* only on the windows seen in its slots, although identifiers, slots and the daemon change hands.
OnlyItsOwn ==
    did # Nothing =>
        /\ Valid(src) => did.life = src.origin
        /\ kind \in OnTwo /\ Valid(dst) => did.life = dst.origin
        /\ bound # 0 => did.life = bound
        /\ kind \in {"move", "unlink"} => did.windows = {src.window}
        /\ kind = "swap" => did.windows = {src.window, dst.window}

\* "Not sent" is the truth: the guard's refusal is told from a lost or failed reply.
RefusedMeansUndone == effect = "notSent" => did = Nothing

\* Without Replace or Force, no slot that another client has claimed in the meantime is overwritten.
NothingOverwritten ==
    [][pc = "execute" /\ pc' = "reply" /\ kind \in Placing /\ ~replace =>
          \A s \in Sessions, i \in Indexes :
             links'[s][i] # links[s][i] =>
                 \/ links[s][i] = None
                 \/ kind = "move" /\ <<s, i>> = <<src.session, src.index>>]_vars
=============================================================================
