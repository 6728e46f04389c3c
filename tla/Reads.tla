------------------------------- MODULE Reads -------------------------------
(* Reading a daemon (tmux/query.go, tmux/read.go, tmux/decode.go), snapshots*)
(* and the current context (tmux/snapshot.go, tmux/current.go).  A read is  *)
(* one command list, which the daemon answers at one moment; when a record  *)
(* of the answer does not hold together it is run once more, 5 ms later,    *)
(* perhaps on another daemon.                                               *)
(*                                                                          *)
(* Abstraction.  A row keeps the object, its references to other objects,   *)
(* the counts that a snapshot is assessed by and what is active.            *)
EXTENDS Naturals, FiniteSets

CONSTANTS Slots,               \* pairs of a session and an index, where a window can be linked
          Windows, Panes,
          MaxLives,            \* bound: daemons that own the socket one after the other
          None                 \* no object

ASSUME ReadsAssumption ==
    /\ IsFiniteSet(Slots) /\ IsFiniteSet(Panes) /\ MaxLives \in Nat \ {0}
    /\ None \notin Windows \cup Panes \cup {sl[1] : sl \in Slots}
    /\ \A sl \in Slots : sl = <<sl[1], sl[2]>>

VARIABLES
    world,      \* the daemon that answers and everything in it
    bound,      \* Server.bound, 0 without a connection
    pc, op,     \* where the operation stands, and which it is
    handle,     \* the handle, or the variables TMUX and TMUX_PANE, it works on
    wanted,     \* the lists it asks for
    first,      \* the identity in the answer that is read again
    err, seen, life, here   \* what it returns: error, lists, identity, CurrentInfo

vars == <<world, bound, pc, op, handle, wanted, first, err, seen, life, here>>

Sessions == {sl[1] : sl \in Slots}
Lists    == {"sessions", "windows", "panes", "clients"}
OnServer == {"read", "snapshot", "current", "lookup"}
OnHandle == {"info", "linkInfo", "windowsOf", "linksOf", "panesOf"}

-----------------------------------------------------------------------------
(* The daemon (not under src).  What is active and which session the client *)
(* shows are chosen when they are read: they may have changed until then.   *)
Linked(w)     == {sl \in Slots : w.links[sl] # None}
LinksOf(w, v) == {sl \in Slots : w.links[sl] = v}
Living(w)     == {sl[1] : sl \in Linked(w)}
Shown(w)      == {w.links[sl] : sl \in Linked(w)}
PanesOf(w, v) == {p \in Panes : w.home[p] = v}
Existing(w)   == {p \in Panes : w.home[p] # None}

Worlds ==
    {w \in [life: 1..MaxLives, links: [Slots -> Windows \cup {None}],
            home: [Panes -> Windows \cup {None}]] :
        Linked(w) # {} /\ \A v \in Windows : PanesOf(w, v) # {} <=> v \in Shown(w)}

\* The active slot of each session and the active pane of each window.
Focus(w) == {c \in SUBSET Linked(w) :
                \A s \in Living(w) : Cardinality({sl \in c : sl[1] = s}) = 1}
Front(w) == {c \in SUBSET Existing(w) :
                \A v \in Shown(w) : Cardinality(c \cap PanesOf(w, v)) = 1}

SessionRows(w) == {[session |-> s, windows |-> Cardinality({sl \in Linked(w) : sl[1] = s})]
                      : s \in Living(w)}
WindowRows(w, focus) ==
    {[session |-> sl[1], index |-> sl[2], window |-> w.links[sl], active |-> sl \in focus,
      panes |-> Cardinality(PanesOf(w, w.links[sl]))] : sl \in Linked(w)}
PaneRows(w, front) ==
    {[pane |-> ps[1], window |-> w.home[ps[1]], active |-> ps[1] \in front,
      session |-> ps[2][1], index |-> ps[2][2]]
        : ps \in {q \in Existing(w) \X Slots : w.links[q[2]] = w.home[q[1]]}}
ClientRows(session) == {[session |-> session]}

\* Other clients and their programs do anything between two answers; the daemon may be replaced.
Others ==
    /\ pc \in {"call", "retry"}
    /\ world' \in {w \in Worlds : w.life \in {world.life, world.life + 1}}
    /\ UNCHANGED <<bound, pc, op, handle, wanted, first, err, seen, life, here>>

-----------------------------------------------------------------------------
(* What the caller has: a handle from a row (origin is its daemon) or from  *)
(* a bare identifier (origin 0), or the variables tmux gave its process.    *)
NoHandle == [origin |-> 0, session |-> None, index |-> 0, window |-> None, pane |-> None]

Slot(h) == <<h.session, h.index>>

HandlesOf(w, o) ==
    CASE o = "info"      -> {[NoHandle EXCEPT !.origin = d, !.pane = p] : d \in {0, w.life}, p \in Panes}
      [] o = "linkInfo"  -> {[NoHandle EXCEPT !.origin = w.life, !.session = sl[1], !.index = sl[2],
                                              !.window = w.links[sl]] : sl \in Linked(w)}
      [] o = "windowsOf" -> {[NoHandle EXCEPT !.origin = d, !.session = s]
                                : d \in {0, w.life}, s \in Living(w)}
      [] o \in {"linksOf", "panesOf"} -> {[NoHandle EXCEPT !.origin = d, !.window = v]
                                             : d \in {0, w.life}, v \in Shown(w)}
      [] o = "lookup"    -> {[NoHandle EXCEPT !.pane = p] : p \in Panes}
      [] o = "current"   -> {[NoHandle EXCEPT !.origin = w.life, !.session = s, !.pane = p]
                                : s \in Living(w) \cup {None}, p \in Existing(w) \cup {None}}
      [] OTHER           -> {NoHandle}

WantedBy(o) ==
    CASE o = "read" -> SUBSET Lists \ {{}}
      [] o \in {"snapshot", "current"} -> {Lists}
      [] o \in {"windowsOf", "linksOf", "linkInfo"} -> {{"windows"}}
      [] OTHER -> {{"panes"}}

Init ==
    /\ world \in {w \in Worlds : w.life = 1} /\ bound \in {0, 1}
    /\ pc = "call" /\ op \in OnServer \cup OnHandle
    /\ handle \in HandlesOf(world, op) /\ wanted \in WantedBy(op)
    /\ first = 0 /\ err = "none" /\ seen = [l \in Lists |-> {}] /\ life = 0 /\ here = NoHandle

-----------------------------------------------------------------------------
(* The command list and its answer.                                         *)

\* handle.guard, or the guard resolveGuard gives a server that belongs to a connection.
GuardLife == IF op \in OnHandle /\ handle.origin # 0 THEN handle.origin ELSE bound

\* Why tmux or the guard refuses to answer; "none" when it answers.
Refusal ==
    IF bound # 0 /\ world.life # bound THEN "other"             \* the connection has ended
    ELSE IF bound = 0 /\ GuardLife \notin {0, world.life} THEN "changed"
    ELSE IF op = "linkInfo" /\ world.links[Slot(handle)] # handle.window THEN "linkChanged"
    ELSE IF \/ op = "windowsOf" /\ handle.session \notin Living(world)
            \/ op = "panesOf" /\ handle.window \notin Shown(world) THEN "notFound"
    ELSE "none"

\* The rows of a list that the target or the filter of the operation leaves.
Asked(l, r) ==
    CASE op = "windowsOf" -> r.session = handle.session
      [] op \in {"linksOf", "panesOf"} -> r.window = handle.window
      [] op = "linkInfo" -> <<r.session, r.index>> = Slot(handle)
      [] op \in {"info", "lookup"} -> r.pane = handle.pane
      [] OTHER -> TRUE

Output(l, focus, front, session) ==
    {r \in CASE l = "sessions" -> SessionRows(world)
             [] l = "windows"  -> WindowRows(world, focus)
             [] l = "panes"    -> PaneRows(world, front)
             [] l = "clients"  -> ClientRows(session) : l \in wanted /\ Asked(l, r)}

\* decodePanes keeps the first row of a pane, whose window may be linked several times.
Firsts(rows) == {k \in SUBSET rows : \A r \in rows : Cardinality({x \in k : x.pane = r.pane}) = 1}

-----------------------------------------------------------------------------
(* Snapshot.assess.                                                         *)
Complete(s) ==
    /\ \A r \in s.windows : \E x \in s.sessions : x.session = r.session
    /\ \A p \in s.panes : \E r \in s.windows : r.window = p.window
    /\ \A x \in s.sessions : x.windows = Cardinality({r \in s.windows : r.session = x.session})
    /\ \A r \in s.windows : r.panes = Cardinality({p \in s.panes : p.window = r.window})
    /\ \A c \in s.clients : c.session = None \/ \E x \in s.sessions : x.session = c.session

\* resolvePaneContext
AnyLink(links) == links # {}         \* mutant: takes a link of several
Alone(links) == Cardinality(links) = 1
Context(s, p) ==
    LET links == {r \in s.windows : r.window = p.window} IN
    IF Alone(links) THEN LET l == CHOOSE r \in links : TRUE IN
                         [pane |-> p.pane, window |-> p.window, session |-> l.session, index |-> l.index]
    ELSE [pane |-> p.pane, window |-> p.window, session |-> None, index |-> 0]

\* resolveActiveContext
Target(s) == IF handle.session # None THEN {x.session : x \in s.sessions} \cap {handle.session}
             ELSE IF Cardinality(s.sessions) = 1 THEN {x.session : x \in s.sessions} ELSE {}

Active(s) ==
    {[pane |-> on[1].pane, window |-> on[2].window, session |-> on[2].session,
      index |-> on[2].index] :
        on \in {pr \in s.panes \X s.windows :
                   /\ pr[2].session \in Target(s) /\ pr[2].active
                   /\ pr[1].window = pr[2].window /\ pr[1].active}}

-----------------------------------------------------------------------------
Return(e) == pc' = "done" /\ err' = e

Nothing == UNCHANGED <<seen, life, here>>

Fail ==
    /\ pc \in {"call", "retry"}
    /\ \E e \in {Refusal, "other"} \ {"none"} :
          Return(IF pc = "retry" THEN "garbled" ELSE e)   \* the first error is reported
    /\ Nothing /\ UNCHANGED <<world, bound, op, handle, wanted, first>>

\* A variable may change between the expansions of its length and of its value.
Garbled ==
    /\ pc \in {"call", "retry"} /\ Refusal = "none"
    /\ IF pc = "call" THEN pc' = "retry" /\ first' = world.life /\ UNCHANGED err
       ELSE Return("garbled") /\ UNCHANGED first
    /\ Nothing /\ UNCHANGED <<world, bound, op, handle, wanted>>

VanishedUnlessOne(rows) ==            \* mutant: any number but one is "not found"
    op \in {"info", "lookup", "linksOf"} /\ \A l \in wanted : Cardinality(rows[l]) # 1

\* inspectedRow and Window.Links report what is not there.
Vanished(rows) == op \in {"info", "lookup", "linksOf"} /\ \A l \in wanted : rows[l] = {}

\* The identity of a result: from the answer that is decoded, not from an earlier one.
FirstInfo == IF first = 0 THEN world.life ELSE first       \* mutant: info of the first answer
AnswerInfo == world.life

\* CurrentFrom compares the process of TMUX with the snapshot's; no two daemons here share a number.
PidMatches == handle.origin = AnswerInfo

Locate(s) ==
    IF ~PidMatches THEN Return("changed") /\ UNCHANGED here
    ELSE IF handle.pane # None
         THEN IF \E p \in s.panes : p.pane = handle.pane
              THEN /\ Return("none")
                   /\ \E p \in s.panes : p.pane = handle.pane /\ here' = Context(s, p)
              ELSE Return("notFound") /\ UNCHANGED here
         ELSE IF Active(s) # {}
              THEN Return("none") /\ here' \in Active(s)
              ELSE Return("invalid") /\ UNCHANGED here

Read(rows) ==
    IF Vanished(rows) THEN Return("notFound") /\ Nothing
    ELSE /\ life' = AnswerInfo
         /\ \E panes \in Firsts(rows.panes) : seen' = [rows EXCEPT !.panes = panes]
         /\ IF op = "current" THEN Locate(seen') ELSE Return("none") /\ UNCHANGED here

Answer ==
    /\ pc \in {"call", "retry"} /\ Refusal = "none"
    /\ \E focus \in Focus(world), front \in Front(world), session \in Living(world) \cup {None} :
          Read([l \in Lists |-> Output(l, focus, front, session)])
    /\ UNCHANGED <<world, bound, op, handle, wanted, first>>

Next == Others \/ Fail \/ Garbled \/ Answer

Spec == Init /\ [][Next]_vars

-----------------------------------------------------------------------------
(* Properties.                                                              *)
Succeeded == pc = "done" /\ err = "none"

\* A result shows one daemon at one moment, that of its identity, also when the first answer was
\* unreadable and the daemon was replaced before the second; every object is in it once; and a
\* handle reads only from the daemon it was observed on.
OneMoment ==
    Succeeded =>
        /\ life = world.life
        /\ op \in OnHandle /\ handle.origin # 0 => life = handle.origin
        /\ bound # 0 => life = bound
        /\ "sessions" \in wanted => {r.session : r \in seen.sessions} = Living(world)
        /\ "windows" \in wanted /\ op \in OnServer =>
              {<<r.session, r.index>> : r \in seen.windows} = Linked(world)
        /\ \A r \in seen.windows : r.window = world.links[<<r.session, r.index>>]
        /\ "panes" \in wanted /\ op \in {"read", "snapshot", "current"} =>
              {r.pane : r \in seen.panes} = Existing(world)
        /\ \A r \in seen.panes : r.window = world.home[r.pane] /\ <<r.session, r.index>> \in Linked(world)
        /\ \A r, x \in seen.panes : r.pane = x.pane => r = x

\* A snapshot is never incomplete, although windows are linked several times, and the current
\* context is one: the pane is in the window, the window in the session, and a session is named
\* only when the window has no other.
ContextHolds ==
    Succeeded /\ op \in {"snapshot", "current"} =>
        /\ Complete(seen)
        /\ op = "current" =>
              /\ life = handle.origin
              /\ handle.pane \in {None, here.pane} /\ world.home[here.pane] = here.window
              /\ here.session # None => world.links[<<here.session, here.index>>] = here.window
              /\ handle.pane # None /\ here.session # None =>
                    LinksOf(world, here.window) = {<<here.session, here.index>>}
              /\ handle.pane = None => here.session # None /\ handle.session \in {None, here.session}

\* "Not found", "daemon identity changed" and "window link changed" are true when they are said.
ErrorsAreTrue ==
    pc = "done" =>
        /\ err = "notFound" =>
              CASE op \in {"info", "lookup", "current"} -> world.home[handle.pane] = None
                [] op = "windowsOf" -> handle.session \notin Living(world)
                [] op \in {"linksOf", "panesOf"} -> handle.window \notin Shown(world)
                [] OTHER -> FALSE
        /\ err = "changed" => handle.origin # world.life
        /\ err = "notFound" /\ handle.origin # 0 => handle.origin = world.life
        /\ err = "linkChanged" => world.links[Slot(handle)] # handle.window
=============================================================================
