--------------------------- MODULE HandlesProofs ----------------------------
(* Proofs about handles and their guards: a command takes effect on nothing *)
(* but what its handles were observed on, "not sent" is the truth, and no   *)
(* slot is overwritten unasked.                                             *)
EXTENDS Handles, TLAPS

-----------------------------------------------------------------------------
(* The inductive invariant.                                                 *)
TypeOK ==
    /\ kind \in {"link", "move", "swap", "unlink", "kill"} /\ replace \in BOOLEAN
    /\ life \in 1..MaxLives /\ links \in [Sessions -> [Indexes -> Windows \cup {None}]]
    /\ pc \in {"src", "dst", "call", "probe", "base", "list", "execute", "reply", "done"}
    /\ pc # "src" => src \in Handle
    /\ pc \notin {"src", "dst"} => dst \in Handle

\* A handle taken from a row of a connection's server is of that connection's daemon.
OfItsDaemon ==
    /\ pc # "src" /\ bound # 0 /\ Valid(src) => src.origin = bound
    /\ pc \notin {"src", "dst"} /\ bound # 0 /\ Valid(dst) => dst.origin = bound

\* Once the call has begun its identity is that of every valid handle and of the connection.
Resolved ==
    pc \in {"probe", "base", "list", "execute", "reply"} =>
        /\ Valid(src) => identity = src.origin
        /\ kind \in OnTwo /\ Valid(dst) => identity = dst.origin
        /\ bound # 0 => identity = bound
        /\ pc = "probe" => identity = 0
        /\ kind \in OnLinks => Valid(src)
        /\ kind = "swap" => Valid(dst)

\* A command that took effect is answered by an acceptance, or by no marker and never with
\* tmux's complaint that its target was not found.
ToldOf ==
    /\ pc \notin {"reply", "done"} => did = Nothing
    /\ pc # "done" => effect = "none"
    /\ pc = "reply" /\ did # Nothing => reply.marker \in {"ok", "none"} /\ reply.err # "notFound"
    /\ effect = "notSent" => did = Nothing

HandlesInv == TypeOK /\ OfItsDaemon /\ Resolved /\ ToldOf /\ OnlyItsOwn

-----------------------------------------------------------------------------
(* The initial states satisfy the invariant.                                *)

\* What every daemon starts with is a table of slots.
LEMMA StartsAreTables == Starts \subseteq [Sessions -> [Indexes -> Windows \cup {None}]]
  BY DEF Starts, Empty

\* A handle that can be taken names a window, and is of the daemon that answers or of none; with
\* a connection's server it is of that connection's daemon or of none.
LEMMA HandlesAreSeen ==
    ASSUME TypeOK, NEW h \in Handles
    PROVE  h \in Handle /\ (Valid(h) => bound \in {0, life} /\ h.origin = life)
  <1>1. CASE h \in Handle /\ h.origin = 0
    BY <1>1 DEF Valid
  <1>2. CASE \E s \in Sessions, i \in Indexes :
                h = Row(s, i) /\ links[s][i] # None /\ bound \in {0, life}
    <2>1. PICK s \in Sessions, i \in Indexes :
                h = Row(s, i) /\ links[s][i] # None /\ bound \in {0, life}
      BY <1>2
    <2>2. links[s][i] \in Windows
      BY <2>1 DEF TypeOK
    <2>3. life \in 0..MaxLives
      BY HandlesAssumption DEF TypeOK
    <2> QED
      BY <2>1, <2>2, <2>3 DEF Row, Handle
  <1> QED
    BY <1>1, <1>2 DEF Handles

\* Before any operation nothing has been observed, sent or done.
LEMMA HandlesInit == Init => HandlesInv
  <1> SUFFICES ASSUME Init PROVE HandlesInv
    OBVIOUS
  <1>1. TypeOK
    <2>1. life \in 1..MaxLives
      BY HandlesAssumption DEF Init
    <2>2. links \in [Sessions -> [Indexes -> Windows \cup {None}]]
      BY StartsAreTables DEF Init
    <2> QED
      BY <2>1, <2>2 DEF Init, TypeOK
  <1>2. OfItsDaemon /\ Resolved /\ ToldOf /\ OnlyItsOwn
    BY DEF Init, OfItsDaemon, Resolved, ToldOf, OnlyItsOwn
  <1> QED
    BY <1>1, <1>2 DEF HandlesInv

-----------------------------------------------------------------------------
(* The other clients of the daemon change its slots, and nothing of the     *)
(* operation's.                                                             *)
LEMMA OthersKeep ==
    ASSUME HandlesInv, DaemonStep
    PROVE  HandlesInv'
  <1>1. UNCHANGED OpKeeps
    BY DEF DaemonStep, OtherUnlinks, OtherLinks, Replaced
  <1>2. TypeOK'
    <2>1. life' \in 1..MaxLives /\ links' \in [Sessions -> [Indexes -> Windows \cup {None}]]
      <3>1. CASE \E s \in Sessions, i \in Indexes : OtherUnlinks(s, i)
        BY <3>1 DEF OtherUnlinks, HandlesInv, TypeOK
      <3>2. CASE \E s \in Sessions, i \in Indexes, w \in Windows : OtherLinks(s, i, w)
        BY <3>2 DEF OtherLinks, HandlesInv, TypeOK
      <3>3. CASE Replaced
        BY <3>3, StartsAreTables, HandlesAssumption DEF Replaced, HandlesInv, TypeOK
      <3> QED
        BY <3>1, <3>2, <3>3 DEF DaemonStep
    <2> QED
      BY <1>1, <2>1 DEF HandlesInv, TypeOK, OpKeeps, opVars
  <1>3. (OfItsDaemon /\ Resolved /\ ToldOf /\ OnlyItsOwn)'
    BY <1>1 DEF HandlesInv, OfItsDaemon, Resolved, ToldOf, OnlyItsOwn, OpKeeps, opVars, Valid
  <1> QED
    BY <1>2, <1>3 DEF HandlesInv

-----------------------------------------------------------------------------
(* The steps of the operation up to its command.                            *)
LEMMA TakeSrcKeeps ==
    ASSUME HandlesInv, TakeSrc
    PROVE  HandlesInv'
  <1> USE DEF HandlesInv, TakeSrc, Go, daemonVars
  <1>1. src' \in Handle /\ (Valid(src') => bound \in {0, life} /\ src'.origin = life)
    BY HandlesAreSeen
  <1>2. TypeOK'
    BY <1>1 DEF TypeOK
  <1>3. OfItsDaemon' /\ Resolved' /\ ToldOf' /\ OnlyItsOwn'
    BY <1>1 DEF TypeOK, OfItsDaemon, Resolved, ToldOf, OnlyItsOwn, Valid
  <1> QED
    BY <1>2, <1>3

LEMMA TakeDstKeeps ==
    ASSUME HandlesInv, TakeDst
    PROVE  HandlesInv'
  <1> USE DEF HandlesInv, TakeDst, Go, daemonVars
  <1>1. dst' \in Handle /\ (Valid(dst') => bound \in {0, life} /\ dst'.origin = life)
    BY HandlesAreSeen
  <1>2. TypeOK'
    BY <1>1 DEF TypeOK
  <1>3. OfItsDaemon' /\ Resolved' /\ ToldOf' /\ OnlyItsOwn'
    BY <1>1 DEF TypeOK, OfItsDaemon, Resolved, ToldOf, OnlyItsOwn, Valid
  <1> QED
    BY <1>2, <1>3

\* The call refuses two handles of two daemons; otherwise its identity is every valid handle's.
LEMMA CallKeeps ==
    ASSUME HandlesInv,
           NEW k \in {"link", "move", "swap", "unlink", "kill"},
           NEW r \in BOOLEAN, NEW i \in Indexes \cup {Free}, Call(k, r, i)
    PROVE  HandlesInv'
  <1> USE DEF HandlesInv, daemonVars
  <1>1. /\ pc = "call" /\ kind' = k /\ replace' = r
        /\ UNCHANGED <<life, links, bound, src, dst, did>>
        /\ did = Nothing /\ effect = "none"
        /\ k \in OnLinks => Valid(src)
        /\ k = "swap" => Valid(dst)
    BY DEF Call, ToldOf
  <1>2. CASE Fail("notSent")
    BY <1>1, <1>2 DEF Fail, Go, TypeOK, OfItsDaemon, Resolved, ToldOf, OnlyItsOwn, Valid
  <1>3. CASE /\ ~(k \in OnTwo /\ Valid(src) /\ Valid(dst) /\ src.origin # dst.origin)
             /\ effect' = effect
             /\ identity' = IF k \in OnTwo THEN SharedIdentity ELSE OwnIdentity(src)
             /\ pc' \in {"probe", "base", "execute"}
             /\ pc' = "probe" => identity' = 0
    <2>1. TypeOK'
      BY <1>1, <1>3 DEF TypeOK
    <2>2. OfItsDaemon' /\ ToldOf' /\ OnlyItsOwn'
      BY <1>1, <1>3 DEF OfItsDaemon, ToldOf, OnlyItsOwn, Valid
    <2>3. Resolved'
      BY <1>1, <1>3 DEF Resolved, OfItsDaemon, SharedIdentity, OwnIdentity, Valid
    <2> QED
      BY <2>1, <2>2, <2>3
  <1> QED
    BY <1>2, <1>3 DEF Call, Go

LEMMA ProbeKeeps ==
    ASSUME HandlesInv, Probe
    PROVE  HandlesInv'
  <1> USE DEF HandlesInv, Probe, Go, daemonVars
  <1>1. TypeOK'
    BY DEF TypeOK
  <1>2. OfItsDaemon' /\ ToldOf' /\ OnlyItsOwn'
    BY DEF OfItsDaemon, ToldOf, OnlyItsOwn, Valid
  <1>3. Resolved'
    BY DEF Resolved, Valid, TypeOK
  <1> QED
    BY <1>1, <1>2, <1>3

\* The two reads of a free slot touch nothing but the slot they choose.
LEMMA FreeKeeps ==
    ASSUME HandlesInv, FreeBase \/ FreeList \/ Unsent
    PROVE  HandlesInv'
  <1> USE DEF HandlesInv, daemonVars
  <1>1. /\ pc \in {"probe", "base", "list", "execute"}
        /\ UNCHANGED <<life, links, bound, kind, replace, src, dst, identity, did>>
        /\ \/ pc \in {"base", "list"} /\ pc' \in {"list", "execute"} /\ effect' = effect
           \/ pc' = "done" /\ effect' \in {"notSent", "unknown"}
    BY DEF FreeBase, FreeList, Unsent, ReadFails, Fail, Go, opVars
  <1>2. TypeOK'
    BY <1>1 DEF TypeOK
  <1>3. OfItsDaemon' /\ ToldOf' /\ OnlyItsOwn'
    BY <1>1 DEF OfItsDaemon, ToldOf, OnlyItsOwn, Valid
  <1>4. Resolved'
    BY <1>1 DEF Resolved, Valid
  <1> QED
    BY <1>2, <1>3, <1>4

-----------------------------------------------------------------------------
(* The command.  Its conditions hold at the moment it runs, so what it      *)
(* changes is what the handles were observed on.                            *)
LEMMA ExecuteKeeps ==
    ASSUME HandlesInv, Execute
    PROVE  HandlesInv'
  <1> USE DEF HandlesInv
  <1>1. /\ pc = "execute" /\ pc' = "reply" /\ did = Nothing /\ effect = "none"
        /\ UNCHANGED <<life, bound, kind, replace, src, dst, identity, effect>>
        /\ src \in Handle /\ dst \in Handle
    BY DEF Execute, Go, opVars, ToldOf, TypeOK
  <1>2. OfItsDaemon' /\ Resolved'
    BY <1>1 DEF OfItsDaemon, Resolved, Valid
  <1>3. CASE UNCHANGED <<links, did>>
    <2>1. TypeOK'
      BY <1>1, <1>3 DEF TypeOK
    <2>2. ToldOf' /\ OnlyItsOwn'
      BY <1>1, <1>3 DEF ToldOf, OnlyItsOwn, Valid
    <2> QED
      BY <1>2, <2>1, <2>2
  <1>4. CASE /\ IdentityHolds /\ \A h \in GuardLinks : LinkHolds(h)
             /\ links' = Changed /\ did' = [life |-> life, windows |-> Touched]
             /\ \E row : Answer(Marker, "none", row)
    <2>1. kind \in {"move", "swap", "unlink"} => At(src) = src.window
      BY <1>4 DEF GuardLinks, LinkHolds
    <2>2. kind = "swap" => At(dst) = dst.window
      BY <1>4 DEF GuardLinks, LinkHolds
    <2>3. TypeOK'
      <3>1. src.window \in Windows \cup {None} /\ dst.window \in Windows \cup {None}
        BY <1>1 DEF Handle
      <3>2. links' \in [Sessions -> [Indexes -> Windows \cup {None}]]
        BY <1>4, <2>1, <2>2, <3>1 DEF Changed, Cleared, TypeOK
      <3> QED
        BY <1>1, <3>2 DEF TypeOK
    <2>4. ToldOf'
      BY <1>1, <1>4 DEF ToldOf, Answer, Marker
    <2>5. did'.life = life /\ did'.windows = Touched
      BY <1>4
    <2>6. OnlyItsOwn'
      <3>1. /\ Valid(src) => identity = life
            /\ kind \in OnTwo /\ Valid(dst) => identity = life
            /\ bound # 0 => identity = life
        BY <1>1, <1>4 DEF Resolved, IdentityHolds, Valid
      <3>2. kind \in {"move", "unlink"} => Touched = {src.window}
        BY <2>1 DEF Touched
      <3>3. kind = "swap" => Touched = {src.window, dst.window}
        BY <2>1, <2>2 DEF Touched
      <3> QED
        BY <1>1, <2>5, <3>1, <3>2, <3>3 DEF OnlyItsOwn, Resolved, Valid
    <2> QED
      BY <1>2, <2>3, <2>4, <2>6
  <1> QED
    BY <1>3, <1>4 DEF Execute

\* What the caller is told.
LEMMA ConcludeKeeps ==
    ASSUME HandlesInv, Conclude
    PROVE  HandlesInv'
  <1> USE DEF HandlesInv, Conclude, Fail, Go, daemonVars, opVars
  <1>1. TypeOK'
    BY DEF TypeOK
  <1>2. OfItsDaemon' /\ Resolved' /\ OnlyItsOwn'
    BY DEF OfItsDaemon, Resolved, OnlyItsOwn, Valid
  <1>3. ToldOf'
    <2>1. did # Nothing => reply.marker \in {"ok", "none"} /\ reply.err # "notFound"
      BY DEF ToldOf
    <2>2. did # Nothing => Unwrap # "notSent"
      BY <2>1 DEF Unwrap, Parse
    <2> QED
      BY <2>2 DEF ToldOf
  <1> QED
    BY <1>1, <1>2, <1>3

LEMMA StutterKeeps ==
    ASSUME HandlesInv, UNCHANGED vars
    PROVE  HandlesInv'
  BY DEF HandlesInv, TypeOK, OfItsDaemon, Resolved, ToldOf, OnlyItsOwn, Valid,
         vars, daemonVars, opVars

LEMMA HandlesNext == HandlesInv /\ [Next]_vars => HandlesInv'
  <1> SUFFICES ASSUME HandlesInv, [Next]_vars PROVE HandlesInv'
    OBVIOUS
  <1>1. CASE DaemonStep
    BY <1>1, OthersKeep
  <1>2. CASE TakeSrc
    BY <1>2, TakeSrcKeeps
  <1>3. CASE TakeDst
    BY <1>3, TakeDstKeeps
  <1>4. CASE \E k \in {"link", "move", "swap", "unlink", "kill"}, r \in BOOLEAN,
                i \in Indexes \cup {Free} : Call(k, r, i)
    BY <1>4, CallKeeps
  <1>5. CASE Probe
    BY <1>5, ProbeKeeps
  <1>6. CASE FreeBase \/ FreeList \/ Unsent
    BY <1>6, FreeKeeps
  <1>7. CASE Execute
    BY <1>7, ExecuteKeeps
  <1>8. CASE Conclude
    BY <1>8, ConcludeKeeps
  <1>9. CASE UNCHANGED vars
    BY <1>9, StutterKeeps
  <1> QED
    BY <1>1, <1>2, <1>3, <1>4, <1>5, <1>6, <1>7, <1>8, <1>9 DEF Next, OpStep

\* Every reachable state satisfies the inductive invariant.
LEMMA HandlesAlways == Spec => []HandlesInv
  BY HandlesInit, HandlesNext, PTL DEF Spec

-----------------------------------------------------------------------------
(* The theorems.                                                            *)

\* wrap, handle.guard and beginHandles: a command takes effect only on the daemon its handles
\* were observed on and, for the operations of a link, on the windows seen in their slots.
THEOREM OnlyItsOwnChanges == Spec => []OnlyItsOwn
  <1>1. HandlesInv => OnlyItsOwn
    BY DEF HandlesInv
  <1> QED
    BY HandlesAlways, <1>1, PTL

\* unwrap: an operation that reports "not sent" has changed nothing.
THEOREM RefusalIsTrue == Spec => []RefusedMeansUndone
  <1>1. HandlesInv => RefusedMeansUndone
    BY DEF HandlesInv, ToldOf, RefusedMeansUndone
  <1> QED
    BY HandlesAlways, <1>1, PTL

\* mutateLink: without Replace the command leaves every slot that is taken as it is, except the
\* one that a move empties.
THEOREM NoSlotOverwritten == Spec => NothingOverwritten
  <1> DEFINE Spares ==
        pc = "execute" /\ pc' = "reply" /\ kind \in Placing /\ ~replace =>
          \A s \in Sessions, i \in Indexes :
             links'[s][i] # links[s][i] =>
                 \/ links[s][i] = None
                 \/ kind = "move" /\ <<s, i>> = <<src.session, src.index>>
  <1>1. HandlesInv /\ [Next]_vars => [Spares]_vars
    <2> SUFFICES ASSUME HandlesInv, Next,
                        pc = "execute", pc' = "reply", kind \in Placing, ~replace,
                        NEW s \in Sessions, NEW i \in Indexes,
                        links'[s][i] # links[s][i]
                 PROVE  \/ links[s][i] = None
                        \/ kind = "move" /\ <<s, i>> = <<src.session, src.index>>
      OBVIOUS
    <2>1. Execute
      BY DEF Next, DaemonStep, OtherUnlinks, OtherLinks, Replaced, OpKeeps, OpStep, TakeSrc,
             TakeDst, Call, Probe, FreeBase, FreeList, ReadFails, Unsent, Conclude, Fail, Go
    <2>2. links' = Changed /\ ~Refuses
      BY <2>1 DEF Execute
    <2>3. links[dst.session][index] = None
      BY <2>2 DEF Refuses, PassesK, Kept
    <2>4. links \in [Sessions -> [Indexes -> Windows \cup {None}]]
      BY DEF HandlesInv, TypeOK
    <2>5. CASE kind = "link"
      BY <2>2, <2>3, <2>4, <2>5 DEF Changed
    <2>6. CASE kind = "move"
      BY <2>2, <2>3, <2>4, <2>6 DEF Changed, Cleared
    <2> QED
      BY <2>5, <2>6 DEF Placing
  <1> QED
    BY HandlesAlways, <1>1, PTL DEF Spec, NothingOverwritten
=============================================================================
