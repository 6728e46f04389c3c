---------------------------- MODULE ReadsProofs ----------------------------
(* Proofs about reads: a result shows one daemon at one moment, snapshots   *)
(* are complete and their context holds together, and what an error says of *)
(* the daemon is true; and about what a read is made of, the records, for   *)
(* any lengths and any limits: the records, the words and the output that   *)
(* Records decodes come back as they were encoded.                          *)
EXTENDS Reads, Records, FiniteSetTheorems, SequenceTheorems, WellFoundedInduction, TLAPS

-----------------------------------------------------------------------------
(* The inductive invariant.                                                 *)
Calls ==
    /\ world \in Worlds /\ bound \in {0, 1} /\ pc \in {"call", "retry", "done"}
    /\ op \in OnServer \cup OnHandle

\* What a caller has and asks for stays as it was given.
Given ==
    /\ handle.origin \in {0, 1}
    /\ op \in {"info", "lookup"} => handle.pane \in Panes
    /\ op = "lookup" => handle.origin = 0
    /\ op = "current" => handle.pane \in Panes \cup {None}
    /\ op \in {"snapshot", "current"} => wanted = Lists
    /\ op \in {"windowsOf", "linksOf", "linkInfo"} => wanted = {"windows"}
    /\ op \in {"info", "lookup", "panesOf"} => wanted = {"panes"}

ReadsInv == Calls /\ Given /\ OneMoment /\ ContextHolds /\ ErrorsAreTrue

-----------------------------------------------------------------------------
(* The daemon's rows.                                                       *)
LEMMA WorldShape ==
    ASSUME NEW w \in Worlds
    PROVE  /\ w.life \in 1..MaxLives /\ w.links \in [Slots -> Windows \cup {None}]
           /\ w.home \in [Panes -> Windows \cup {None}]
           /\ \A v \in Windows : PanesOf(w, v) # {} <=> v \in Shown(w)
  BY DEF Worlds

\* Every pane of a daemon is in a window that some session shows.
LEMMA PaneIsShown ==
    ASSUME NEW w \in Worlds, NEW p \in Existing(w)
    PROVE  \E sl \in Linked(w) : w.links[sl] = w.home[p]
  <1>1. w.home[p] \in Windows /\ p \in PanesOf(w, w.home[p])
    BY WorldShape DEF Existing, PanesOf
  <1>2. w.home[p] \in Shown(w)
    BY <1>1, WorldShape
  <1> QED
    BY <1>2 DEF Shown

LEMMA SessionRowsShow ==
    ASSUME NEW w \in Worlds
    PROVE  /\ {r.session : r \in SessionRows(w)} = Living(w)
           /\ \A r \in SessionRows(w) :
                 r.windows = Cardinality({sl \in Linked(w) : sl[1] = r.session})
  <1> DEFINE Row(s) == [session |-> s, windows |-> Cardinality({sl \in Linked(w) : sl[1] = s})]
  <1>1. SessionRows(w) = {Row(s) : s \in Living(w)}
    BY DEF SessionRows
  <1>2. \A s : /\ Row(s).session = s
               /\ Row(s).windows = Cardinality({sl \in Linked(w) : sl[1] = s})
    OBVIOUS
  <1> HIDE DEF Row
  <1> QED
    BY <1>1, <1>2

LEMMA WindowRowsShow ==
    ASSUME NEW w \in Worlds, NEW focus
    PROVE  /\ {<<r.session, r.index>> : r \in WindowRows(w, focus)} = Linked(w)
           /\ \A r \in WindowRows(w, focus) :
                 /\ <<r.session, r.index>> \in Linked(w)
                 /\ r.window = w.links[<<r.session, r.index>>]
                 /\ r.session \in Living(w)
                 /\ r.panes = Cardinality(PanesOf(w, r.window))
           /\ \A sl \in Linked(w) : \E r \in WindowRows(w, focus) :
                 r.session = sl[1] /\ r.index = sl[2] /\ r.window = w.links[sl]
           /\ \A r, x \in WindowRows(w, focus) :
                 r.session = x.session /\ r.index = x.index => r = x
  <1> DEFINE Row(sl) == [session |-> sl[1], index |-> sl[2], window |-> w.links[sl],
                         active |-> sl \in focus,
                         panes |-> Cardinality(PanesOf(w, w.links[sl]))]
  <1>1. WindowRows(w, focus) = {Row(sl) : sl \in Linked(w)}
    BY DEF WindowRows
  <1>2. \A sl \in Linked(w) : sl = <<sl[1], sl[2]>>
    BY ReadsAssumption DEF Linked
  <1>3. \A sl \in Linked(w) : /\ Row(sl).session = sl[1] /\ Row(sl).index = sl[2]
                              /\ Row(sl).window = w.links[sl]
                              /\ Row(sl).panes = Cardinality(PanesOf(w, w.links[sl]))
    OBVIOUS
  <1> HIDE DEF Row
  <1> QED
    BY <1>1, <1>2, <1>3 DEF Living

LEMMA PaneRowsShow ==
    ASSUME NEW w \in Worlds, NEW front
    PROVE  /\ {r.pane : r \in PaneRows(w, front)} = Existing(w)
           /\ \A r \in PaneRows(w, front) :
                 /\ r.pane \in Existing(w) /\ r.window = w.home[r.pane]
                 /\ <<r.session, r.index>> \in Linked(w)
                 /\ w.links[<<r.session, r.index>>] = r.window
           /\ IsFiniteSet(PaneRows(w, front))
  <1> DEFINE D == {q \in Existing(w) \X Slots : w.links[q[2]] = w.home[q[1]]}
             Row(ps) == [pane |-> ps[1], window |-> w.home[ps[1]], active |-> ps[1] \in front,
                         session |-> ps[2][1], index |-> ps[2][2]]
  <1>1. PaneRows(w, front) = {Row(ps) : ps \in D}
    BY DEF PaneRows
  <1>2. \A ps \in D : /\ ps[1] \in Existing(w) /\ ps[2] \in Linked(w)
                      /\ ps[2] = <<ps[2][1], ps[2][2]>> /\ w.links[ps[2]] = w.home[ps[1]]
    BY ReadsAssumption DEF Linked, Existing
  <1>3. \A ps \in D : /\ Row(ps).pane = ps[1] /\ Row(ps).window = w.home[ps[1]]
                      /\ Row(ps).session = ps[2][1] /\ Row(ps).index = ps[2][2]
    OBVIOUS
  <1>4. \A p \in Existing(w) : \E ps \in D : ps[1] = p
    <2> TAKE p \in Existing(w)
    <2>1. PICK sl \in Linked(w) : w.links[sl] = w.home[p]
      BY PaneIsShown
    <2>2. <<p, sl>> \in D
      BY <2>1 DEF Linked
    <2> QED
      BY <2>2
  <1>5. IsFiniteSet(D)
    <2>1. IsFiniteSet(Existing(w))
      BY ReadsAssumption, FS_Subset DEF Existing
    <2>2. IsFiniteSet(Existing(w) \X Slots)
      BY <2>1, ReadsAssumption, FS_Product
    <2> QED
      BY <2>2, FS_Subset
  <1>6. IsFiniteSet({Row(ps) : ps \in D})
    <2> DEFINE f == [ps \in D |-> Row(ps)]
    <2>1. f \in Surjection(D, {Row(ps) : ps \in D})
      BY DEF Surjection
    <2> QED
      BY <1>5, <2>1, FS_Surjection
  <1> HIDE DEF Row, D
  <1>7. {r.pane : r \in PaneRows(w, front)} = Existing(w)
    BY <1>1, <1>2, <1>3, <1>4
  <1> QED
    BY <1>1, <1>2, <1>3, <1>6, <1>7
-----------------------------------------------------------------------------
(* What an answer shows.                                                    *)

\* The lists of an answer hold the rows that were asked for, and one row of each pane.
Rows(focus, front, session) == [l \in Lists |-> Output(l, focus, front, session)]

LEMMA RowsOf ==
    ASSUME NEW focus, NEW front, NEW session
    PROVE  LET rows == Rows(focus, front, session) IN
           /\ rows \in [Lists -> {rows[l] : l \in Lists}]
           /\ rows.sessions = {r \in SessionRows(world) : "sessions" \in wanted /\ Asked("sessions", r)}
           /\ rows.windows = {r \in WindowRows(world, focus) :
                                 "windows" \in wanted /\ Asked("windows", r)}
           /\ rows.panes = {r \in PaneRows(world, front) : "panes" \in wanted /\ Asked("panes", r)}
           /\ rows.clients = {r \in ClientRows(session) : "clients" \in wanted /\ Asked("clients", r)}
  BY DEF Rows, Lists, Output

LEMMA FirstsShow ==
    ASSUME NEW rows, IsFiniteSet(rows), NEW k \in Firsts(rows)
    PROVE  /\ k \subseteq rows /\ IsFiniteSet(k)
           /\ {r.pane : r \in k} = {r.pane : r \in rows}
           /\ \A r, x \in k : r.pane = x.pane => r = x
  <1>1. k \subseteq rows /\ IsFiniteSet(k)
    BY FS_Subset DEF Firsts
  <1>2. \A r \in rows : \E y : {x \in k : x.pane = r.pane} = {y}
    <2> TAKE r \in rows
    <2>1. IsFiniteSet({x \in k : x.pane = r.pane})
      BY <1>1, FS_Subset
    <2>2. Cardinality({x \in k : x.pane = r.pane}) = 1
      BY DEF Firsts
    <2> QED
      BY <2>1, <2>2, FS_Singleton
  <1> QED
    BY <1>1, <1>2

\* The lists a result holds, given the daemon that answered.
Shows(s, w, focus) ==
    /\ s.sessions \subseteq SessionRows(w)
    /\ s.windows \subseteq WindowRows(w, focus)
    /\ {r.pane : r \in s.panes} \subseteq Existing(w)
    /\ \A r \in s.panes : /\ r.pane \in Existing(w) /\ r.window = w.home[r.pane]
                          /\ <<r.session, r.index>> \in Linked(w)
                          /\ w.links[<<r.session, r.index>>] = r.window
    /\ \A r, x \in s.panes : r.pane = x.pane => r = x
    /\ IsFiniteSet(s.panes)
    /\ op \in OnServer /\ "sessions" \in wanted => s.sessions = SessionRows(w)
    /\ op \in OnServer /\ "windows" \in wanted => s.windows = WindowRows(w, focus)
    /\ op \in {"read", "snapshot", "current"} /\ "panes" \in wanted =>
          {r.pane : r \in s.panes} = Existing(w)
    /\ op \in {"snapshot", "current"} =>
          \A c \in s.clients : c.session \in Living(w) \cup {None}

LEMMA AnswerShows ==
    ASSUME world \in Worlds, NEW focus, NEW front, NEW session \in Living(world) \cup {None},
           Given, op \in OnServer \cup OnHandle,
           NEW panes \in Firsts(Rows(focus, front, session).panes)
    PROVE  Shows([Rows(focus, front, session) EXCEPT !.panes = panes], world, focus)
  <1> DEFINE rows == Rows(focus, front, session)
             s    == [rows EXCEPT !.panes = panes]
  <1>1. /\ rows.sessions = {r \in SessionRows(world) :
                               "sessions" \in wanted /\ Asked("sessions", r)}
        /\ rows.windows = {r \in WindowRows(world, focus) :
                              "windows" \in wanted /\ Asked("windows", r)}
        /\ rows.panes = {r \in PaneRows(world, front) : "panes" \in wanted /\ Asked("panes", r)}
        /\ rows.clients = {r \in ClientRows(session) :
                              "clients" \in wanted /\ Asked("clients", r)}
    BY RowsOf
  <1>2. s.sessions = rows.sessions /\ s.windows = rows.windows /\ s.clients = rows.clients
        /\ s.panes = panes
    BY DEF Rows, Lists
  <1> HIDE DEF rows, s
  <1>3. IsFiniteSet(rows.panes)
    BY <1>1, PaneRowsShow, FS_Subset
  <1>4. /\ panes \subseteq rows.panes /\ IsFiniteSet(panes)
        /\ {r.pane : r \in panes} = {r.pane : r \in rows.panes}
        /\ \A r, x \in panes : r.pane = x.pane => r = x
    BY <1>3, FirstsShow DEF rows
  <1>5. op \in {"read", "snapshot", "current"} => \A l, r : Asked(l, r)
    BY DEF Asked
  <1>6. op = "lookup" => wanted = {"panes"}
    BY DEF Given
  <1>7. /\ op \in OnServer /\ "sessions" \in wanted => s.sessions = SessionRows(world)
        /\ op \in OnServer /\ "windows" \in wanted => s.windows = WindowRows(world, focus)
    BY <1>1, <1>2, <1>5, <1>6 DEF OnServer
  <1>8. op \in {"read", "snapshot", "current"} /\ "panes" \in wanted =>
           {r.pane : r \in s.panes} = Existing(world)
    <2> SUFFICES ASSUME op \in {"read", "snapshot", "current"}, "panes" \in wanted
                 PROVE  {r.pane : r \in s.panes} = Existing(world)
      OBVIOUS
    <2>1. rows.panes = PaneRows(world, front)
      BY <1>1, <1>5
    <2> QED
      BY <1>2, <1>4, <2>1, PaneRowsShow
  <1>9. /\ \A r \in panes : /\ r.pane \in Existing(world) /\ r.window = world.home[r.pane]
                            /\ <<r.session, r.index>> \in Linked(world)
                            /\ world.links[<<r.session, r.index>>] = r.window
    BY <1>1, <1>4, PaneRowsShow
  <1>10. \A c \in s.clients : c.session \in Living(world) \cup {None}
    BY <1>1, <1>2 DEF ClientRows
  <1>11. s.sessions \subseteq SessionRows(world) /\ s.windows \subseteq WindowRows(world, focus)
    BY <1>1, <1>2
  <1>12. IsFiniteSet(s.panes) /\ \A r, x \in s.panes : r.pane = x.pane => r = x
    BY <1>2, <1>4
  <1>13. Shows(s, world, focus)
    BY <1>2, <1>7, <1>8, <1>9, <1>10, <1>11, <1>12 DEF Shows
  <1> QED
    BY <1>13 DEF s, rows

\* The windows that a snapshot lists for a session are as many as the daemon says it has.
LEMMA WindowsCounted ==
    ASSUME NEW w \in Worlds, NEW focus, NEW x
    PROVE  Cardinality({r \in WindowRows(w, focus) : r.session = x})
              = Cardinality({sl \in Linked(w) : sl[1] = x})
  <1> DEFINE S == {r \in WindowRows(w, focus) : r.session = x}
             T == {sl \in Linked(w) : sl[1] = x}
             f == [r \in S |-> <<r.session, r.index>>]
  <1>1. IsFiniteSet(T)
    BY ReadsAssumption, FS_Subset DEF Linked
  <1>2. \A r \in S : /\ <<r.session, r.index>> \in Linked(w) /\ r.session = x
    BY WindowRowsShow
  <1>3. \A r, q \in S : f[r] = f[q] => r = q
    BY WindowRowsShow
  <1>4. \A sl \in T : \E r \in S : f[r] = sl
    <2> TAKE sl \in T
    <2>1. sl \in Linked(w) /\ sl[1] = x /\ sl = <<sl[1], sl[2]>>
      BY ReadsAssumption DEF Linked
    <2>2. PICK r \in WindowRows(w, focus) : r.session = sl[1] /\ r.index = sl[2]
      BY <2>1, WindowRowsShow
    <2> QED
      BY <2>1, <2>2
  <1>5. f \in [S -> T]
    BY <1>2
  <1> HIDE DEF S, T, f
  <1>6. f \in Injection(S, T) /\ f \in Surjection(S, T)
    BY <1>3, <1>4, <1>5 DEF Injection, Surjection, IsInjective
  <1> QED
    BY <1>1, <1>6, FS_Injection DEF S, T

\* The panes that a snapshot lists for a window are all of its panes, each once.
LEMMA PanesCounted ==
    ASSUME NEW w \in Worlds, NEW k, NEW v \in Windows,
           {r.pane : r \in k} = Existing(w),
           \A r \in k : r.window = w.home[r.pane],
           \A r, x \in k : r.pane = x.pane => r = x
    PROVE  Cardinality(PanesOf(w, v)) = Cardinality({p \in k : p.window = v})
  <1> DEFINE S == {p \in k : p.window = v}
             T == PanesOf(w, v)
             f == [p \in S |-> p.pane]
  <1>1. IsFiniteSet(T)
    BY ReadsAssumption, FS_Subset DEF PanesOf
  <1>2. T \subseteq Existing(w)
    BY ReadsAssumption DEF PanesOf, Existing
  <1>3. f \in [S -> T]
    BY DEF PanesOf, Existing
  <1>4. \A r, q \in S : f[r] = f[q] => r = q
    OBVIOUS
  <1>5. \A p \in T : \E r \in S : f[r] = p
    <2> TAKE p \in T
    <2>1. PICK r \in k : r.pane = p
      BY <1>2
    <2>2. r.window = v
      BY <2>1 DEF PanesOf
    <2> QED
      BY <2>1, <2>2
  <1> HIDE DEF S, T, f
  <1>6. f \in Injection(S, T) /\ f \in Surjection(S, T)
    BY <1>3, <1>4, <1>5 DEF Injection, Surjection, IsInjective
  <1> QED
    BY <1>1, <1>6, FS_Injection DEF S, T

\* A snapshot is complete.
LEMMA SnapshotComplete ==
    ASSUME NEW w \in Worlds, NEW focus, NEW s, Shows(s, w, focus),
           op \in {"snapshot", "current"}, wanted = Lists
    PROVE  Complete(s)
  <1>1. /\ s.sessions = SessionRows(w) /\ s.windows = WindowRows(w, focus)
        /\ {r.pane : r \in s.panes} = Existing(w)
    BY DEF Shows, OnServer, Lists
  <1>2. \A r \in s.windows : \E x \in s.sessions : x.session = r.session
    <2> TAKE r \in s.windows
    <2>1. r.session \in Living(w)
      <3>1. r \in WindowRows(w, focus)
        BY <1>1
      <3> QED
        BY <3>1, WindowRowsShow
    <2> QED
      BY <1>1, <2>1, SessionRowsShow
  <1>3. \A p \in s.panes : \E r \in s.windows : r.window = p.window
    <2> TAKE p \in s.panes
    <2>1. /\ <<p.session, p.index>> \in Linked(w)
          /\ w.links[<<p.session, p.index>>] = p.window
      BY DEF Shows
    <2> QED
      BY <1>1, <2>1, WindowRowsShow
  <1>4. \A x \in s.sessions :
           x.windows = Cardinality({r \in s.windows : r.session = x.session})
    <2> TAKE x \in s.sessions
    <2>1. x.windows = Cardinality({sl \in Linked(w) : sl[1] = x.session})
      BY <1>1, SessionRowsShow
    <2>2. Cardinality({r \in WindowRows(w, focus) : r.session = x.session})
             = Cardinality({sl \in Linked(w) : sl[1] = x.session})
      BY WindowsCounted
    <2> QED
      BY <1>1, <2>1, <2>2
  <1>5. \A r \in s.windows : r.panes = Cardinality({p \in s.panes : p.window = r.window})
    <2> TAKE r \in s.windows
    <2>1. r.panes = Cardinality(PanesOf(w, r.window)) /\ r.window \in Windows
      <3>1. /\ <<r.session, r.index>> \in Linked(w)
            /\ r.window = w.links[<<r.session, r.index>>]
            /\ r.panes = Cardinality(PanesOf(w, r.window))
        BY <1>1, WindowRowsShow
      <3> QED
        BY <3>1, WorldShape DEF Linked
    <2> QED
      <3> DEFINE k == s.panes
      <3>1. /\ {x.pane : x \in k} = Existing(w)
            /\ \A x \in k : x.window = w.home[x.pane]
            /\ \A x, y \in k : x.pane = y.pane => x = y
        BY <1>1 DEF Shows
      <3> HIDE DEF k
      <3>2. Cardinality(PanesOf(w, r.window)) = Cardinality({p \in k : p.window = r.window})
        BY <2>1, <3>1, PanesCounted
      <3> QED
        BY <2>1, <3>2 DEF k
  <1>6. \A c \in s.clients : c.session = None \/ \E x \in s.sessions : x.session = c.session
    <2> TAKE c \in s.clients
    <2>1. c.session \in Living(w) \cup {None}
      BY DEF Shows
    <2> QED
      BY <1>1, <2>1, SessionRowsShow
  <1> QED
    BY <1>2, <1>3, <1>4, <1>5, <1>6 DEF Complete

-----------------------------------------------------------------------------
(* The current context.                                                     *)
ContextIs(c, w) ==
    /\ handle.pane \in {None, c.pane} /\ w.home[c.pane] = c.window
    /\ c.session # None => w.links[<<c.session, c.index>>] = c.window
    /\ handle.pane # None /\ c.session # None =>
          LinksOf(w, c.window) = {<<c.session, c.index>>}
    /\ handle.pane = None => c.session # None /\ handle.session \in {None, c.session}

\* The pane of TMUX_PANE: its window, and the session of the window's only link.
LEMMA PaneContext ==
    ASSUME NEW w \in Worlds, NEW focus, NEW s, Shows(s, w, focus), op = "current",
           wanted = Lists, NEW p \in s.panes, handle.pane = p.pane, p.pane \in Panes
    PROVE  ContextIs(Context(s, p), w)
  <1> DEFINE links == {r \in s.windows : r.window = p.window}
             l     == CHOOSE r \in links : TRUE
  <1>1. s.windows = WindowRows(w, focus) /\ w.home[p.pane] = p.window
    BY DEF Shows, OnServer, Lists
  <1>2. p.pane # None
    BY ReadsAssumption
  <1>3. CASE Alone(links)
    <2>1. IsFiniteSet(WindowRows(w, focus))
      <3> DEFINE T == Linked(w)
                 f == [r \in WindowRows(w, focus) |-> <<r.session, r.index>>]
      <3>1. IsFiniteSet(T)
        BY ReadsAssumption, FS_Subset DEF Linked
      <3>2. f \in Injection(WindowRows(w, focus), T)
        BY WindowRowsShow DEF Injection, IsInjective
      <3> QED
        BY <3>1, <3>2, FS_Injection
    <2>2. IsFiniteSet(links)
      BY <1>1, <2>1, FS_Subset
    <2>3. \E r : links = {r}
      BY <1>3, <2>2, FS_Singleton DEF Alone
    <2>4. l \in links /\ links = {l}
      BY <2>3
    <2>5. /\ Context(s, p) = [pane |-> p.pane, window |-> p.window,
                              session |-> l.session, index |-> l.index]
      BY <1>3 DEF Context
    <2> DEFINE c == [pane |-> p.pane, window |-> p.window,
                     session |-> l.session, index |-> l.index]
    <2>6. c.pane = p.pane /\ c.window = p.window /\ c.session = l.session /\ c.index = l.index
      OBVIOUS
    <2> HIDE DEF l, links
    <2>7. /\ l.window = p.window /\ l \in WindowRows(w, focus)
          /\ \A r \in WindowRows(w, focus) : r.window = p.window => r = l
      BY <1>1, <2>4 DEF links
    <2>8. /\ <<l.session, l.index>> \in Linked(w) /\ w.links[<<l.session, l.index>>] = p.window
      BY <2>7, WindowRowsShow
    <2>9. LinksOf(w, p.window) = {<<l.session, l.index>>}
      <3>1. ASSUME NEW sl \in LinksOf(w, p.window) PROVE sl = <<l.session, l.index>>
        <4>1. sl \in Linked(w) /\ w.links[sl] = p.window /\ sl = <<sl[1], sl[2]>>
          <5>1. p.window # None
            BY <2>8 DEF Linked
          <5> QED
            BY <3>1, <5>1, ReadsAssumption DEF LinksOf, Linked
        <4>2. PICK r \in WindowRows(w, focus) :
                 r.session = sl[1] /\ r.index = sl[2] /\ r.window = w.links[sl]
          BY <4>1, WindowRowsShow
        <4>3. r = l
          BY <2>7, <4>1, <4>2
        <4> QED
          BY <4>1, <4>2, <4>3
      <3>2. <<l.session, l.index>> \in LinksOf(w, p.window)
        BY <2>8 DEF LinksOf, Linked
      <3> QED
        BY <3>1, <3>2
    <2> HIDE DEF c
    <2>10. ContextIs(c, w)
      BY <1>1, <1>2, <2>6, <2>8, <2>9 DEF ContextIs
    <2> QED
      BY <2>5, <2>10 DEF c
  <1>4. CASE ~Alone(links)
    <2> DEFINE c == [pane |-> p.pane, window |-> p.window, session |-> None, index |-> 0]
    <2>1. Context(s, p) = c
      BY <1>4 DEF Context
    <2>2. c.pane = p.pane /\ c.window = p.window /\ c.session = None
      OBVIOUS
    <2> HIDE DEF c
    <2>3. ContextIs(c, w)
      BY <1>1, <1>2, <2>2 DEF ContextIs
    <2> QED
      BY <2>1, <2>3
  <1> QED
    BY <1>3, <1>4

\* Without TMUX_PANE: the active pane of the active window of the session.
LEMMA ActiveContext ==
    ASSUME NEW w \in Worlds, NEW focus, NEW s, Shows(s, w, focus), op = "current",
           wanted = Lists, handle.pane = None, NEW c \in Active(s)
    PROVE  ContextIs(c, w)
  <1>1. PICK p \in s.panes, r \in s.windows :
           /\ r.session \in Target(s) /\ p.window = r.window
           /\ c = [pane |-> p.pane, window |-> r.window, session |-> r.session, index |-> r.index]
    BY DEF Active
  <1>2. c.pane = p.pane /\ c.window = r.window /\ c.session = r.session /\ c.index = r.index
    BY <1>1
  <1>3. w.home[p.pane] = p.window /\ s.windows = WindowRows(w, focus)
    BY DEF Shows, OnServer, Lists
  <1>4. w.links[<<r.session, r.index>>] = r.window /\ r.session \in Living(w)
    BY <1>3, WindowRowsShow
  <1>5. r.session # None
    BY <1>4, ReadsAssumption DEF Living, Linked
  <1>6. handle.session \in {None, r.session}
    BY <1>1 DEF Target
  <1> QED
    BY <1>1, <1>2, <1>3, <1>4, <1>5, <1>6 DEF ContextIs

-----------------------------------------------------------------------------
(* The steps preserve the invariant.                                        *)
LEMMA ReadsInit == Init => ReadsInv
  <1> SUFFICES ASSUME Init PROVE ReadsInv
    OBVIOUS
  <1>1. Calls
    BY DEF Init, Calls
  <1>2. Given
    <2>1. world.life = 1 /\ handle \in HandlesOf(world, op) /\ wanted \in WantedBy(op)
      BY DEF Init
    <2>2. /\ NoHandle.origin = 0 /\ NoHandle.pane = None
          /\ op \in OnServer \cup OnHandle
      BY DEF NoHandle, Init
    <2>3. /\ handle.origin \in {0, 1}
          /\ op \in {"info", "lookup"} => handle.pane \in Panes
          /\ op = "lookup" => handle.origin = 0
          /\ op = "current" => handle.pane \in Panes \cup {None}
      <3>1. CASE op = "info"
        <4> DEFINE H(d, p) == [NoHandle EXCEPT !.origin = d, !.pane = p]
        <4>1. HandlesOf(world, op) = {H(d, p) : d \in {0, world.life}, p \in Panes}
          BY <3>1 DEF HandlesOf
        <4> HIDE DEF H
        <4>2. PICK d \in {0, world.life}, p \in Panes : handle = H(d, p)
          BY <2>1, <4>1
        <4> QED
          BY <2>1, <3>1, <4>2 DEF H, NoHandle
      <3>2. CASE op = "linkInfo"
        <4> DEFINE H(sl) == [NoHandle EXCEPT !.origin = world.life, !.session = sl[1],
                                  !.index = sl[2], !.window = world.links[sl]]
        <4>1. HandlesOf(world, op) = {H(sl) : sl \in Linked(world)}
          BY <3>2 DEF HandlesOf
        <4> HIDE DEF H
        <4>2. PICK sl \in Linked(world) : handle = H(sl)
          BY <2>1, <4>1
        <4> QED
          BY <2>1, <3>2, <4>2 DEF H, NoHandle
      <3>3. CASE op = "windowsOf"
        <4> DEFINE H(d, x) == [NoHandle EXCEPT !.origin = d, !.session = x]
        <4>1. HandlesOf(world, op) = {H(d, x) : d \in {0, world.life}, x \in Living(world)}
          BY <3>3 DEF HandlesOf
        <4> HIDE DEF H
        <4>2. PICK d \in {0, world.life}, x \in Living(world) : handle = H(d, x)
          BY <2>1, <4>1
        <4> QED
          BY <2>1, <3>3, <4>2 DEF H, NoHandle
      <3>4. CASE op = "linksOf"
        <4> DEFINE H(d, v) == [NoHandle EXCEPT !.origin = d, !.window = v]
        <4>1. HandlesOf(world, op) = {H(d, v) : d \in {0, world.life}, v \in Shown(world)}
          BY <3>4 DEF HandlesOf
        <4> HIDE DEF H
        <4>2. PICK d \in {0, world.life}, v \in Shown(world) : handle = H(d, v)
          BY <2>1, <4>1
        <4> QED
          BY <2>1, <3>4, <4>2 DEF H, NoHandle
      <3>5. CASE op = "panesOf"
        <4> DEFINE H(d, v) == [NoHandle EXCEPT !.origin = d, !.window = v]
        <4>1. HandlesOf(world, op) = {H(d, v) : d \in {0, world.life}, v \in Shown(world)}
          BY <3>5 DEF HandlesOf
        <4> HIDE DEF H
        <4>2. PICK d \in {0, world.life}, v \in Shown(world) : handle = H(d, v)
          BY <2>1, <4>1
        <4> QED
          BY <2>1, <3>5, <4>2 DEF H, NoHandle
      <3>6. CASE op = "lookup"
        <4> DEFINE H(p) == [NoHandle EXCEPT !.pane = p]
        <4>1. HandlesOf(world, op) = {H(p) : p \in Panes}
          BY <3>6 DEF HandlesOf
        <4> HIDE DEF H
        <4>2. PICK p \in Panes : handle = H(p)
          BY <2>1, <4>1
        <4> QED
          BY <2>1, <3>6, <4>2 DEF H, NoHandle
      <3>7. CASE op = "current"
        <4> DEFINE H(x, p) == [NoHandle EXCEPT !.origin = world.life, !.session = x, !.pane = p]
        <4>1. HandlesOf(world, op) = {H(x, p) : x \in Living(world) \cup {None}, p \in Existing(world) \cup {None}}
          BY <3>7 DEF HandlesOf
        <4> HIDE DEF H
        <4>2. PICK x \in Living(world) \cup {None}, p \in Existing(world) \cup {None} : handle = H(x, p)
          BY <2>1, <4>1
        <4> QED
          BY <2>1, <3>7, <4>2 DEF H, NoHandle, Existing
      <3>8. CASE op = "read" \/ op = "snapshot"
        <4>1. HandlesOf(world, op) = {NoHandle}
          <5>1. CASE op = "read"
            BY <5>1 DEF HandlesOf
          <5>2. CASE op = "snapshot"
            BY <5>2 DEF HandlesOf
          <5> QED
            BY <3>8, <5>1, <5>2
        <4> QED
          BY <2>1, <2>2, <3>8, <4>1
      <3> QED
        BY <2>2, <3>1, <3>2, <3>3, <3>4, <3>5, <3>6, <3>7, <3>8 DEF OnServer, OnHandle
    <2>4. /\ op \in {"snapshot", "current"} => wanted = Lists
          /\ op \in {"windowsOf", "linksOf", "linkInfo"} => wanted = {"windows"}
          /\ op \in {"info", "lookup", "panesOf"} => wanted = {"panes"}
      BY <2>1 DEF WantedBy
    <2> QED
      BY <2>3, <2>4 DEF Given
  <1>3. OneMoment /\ ContextHolds /\ ErrorsAreTrue
    BY DEF Init, OneMoment, ContextHolds, ErrorsAreTrue, Succeeded
  <1> QED
    BY <1>1, <1>2, <1>3 DEF ReadsInv

LEMMA OthersKeep ==
    ASSUME ReadsInv, Others
    PROVE  ReadsInv'
  <1>1. Calls' /\ Given'
    BY DEF ReadsInv, Others, Calls, Given
  <1>2. pc' # "done"
    BY DEF Others
  <1> QED
    BY <1>1, <1>2 DEF ReadsInv, OneMoment, ContextHolds, ErrorsAreTrue, Succeeded

LEMMA GivenStays ==
    ASSUME Calls, Given, UNCHANGED <<world, bound, op, handle, wanted>>,
           pc' \in {"call", "retry", "done"}
    PROVE  Calls' /\ Given'
  BY DEF Calls, Given

\* What a refusal says is true, whatever connection and handle the operation works on.
LEMMA RefusalIsHonest ==
    ASSUME Calls, Given
    PROVE  /\ Refusal = "notFound" =>
                 /\ \/ op = "windowsOf" /\ handle.session \notin Living(world)
                    \/ op = "panesOf" /\ handle.window \notin Shown(world)
                 /\ handle.origin # 0 => handle.origin = world.life
           /\ Refusal = "changed" => handle.origin # world.life
           /\ Refusal = "linkChanged" => world.links[Slot(handle)] # handle.window
           /\ Refusal = "none" =>
                 /\ bound # 0 => world.life = bound
                 /\ op \in OnHandle /\ handle.origin # 0 => handle.origin = world.life
           /\ Refusal \in {"other", "changed", "linkChanged", "notFound", "none"}
  <1>1. bound # 0 /\ world.life = bound /\ handle.origin # 0 => handle.origin = world.life
    BY DEF Calls, Given
  <1>2. bound = 0 /\ op \in OnHandle /\ handle.origin # 0 => GuardLife = handle.origin
    BY DEF GuardLife
  <1>3. bound = 0 /\ ~(op \in OnHandle /\ handle.origin # 0) => GuardLife = 0
    BY DEF GuardLife
  <1>4. {"windowsOf", "panesOf"} \subseteq OnHandle
    BY DEF OnHandle
  <1> HIDE DEF GuardLife
  <1> QED
    BY <1>1, <1>2, <1>3, <1>4 DEF Refusal

LEMMA FailKeeps ==
    ASSUME ReadsInv, Fail
    PROVE  ReadsInv'
  <1>1. /\ pc' = "done" /\ UNCHANGED <<world, bound, op, handle, wanted>>
        /\ Calls /\ Given
    BY DEF ReadsInv, Fail, Return
  <1>2. Calls' /\ Given'
    BY <1>1, GivenStays
  <1>3. err' \in {Refusal, "other", "garbled"} \ {"none"}
    BY DEF Fail, Return
  <1>4. ErrorsAreTrue'
    <2>1. err' = "notFound" => Refusal = "notFound"
      BY <1>3
    <2>2. err' = "changed" => Refusal = "changed"
      BY <1>3
    <2>3. err' = "linkChanged" => Refusal = "linkChanged"
      BY <1>3
    <2>4. /\ UNCHANGED <<Living(world), Shown(world), Slot(handle)>>
      BY <1>1 DEF Living, Shown, Slot, Linked
    <2> QED
      BY <1>1, <2>1, <2>2, <2>3, <2>4, RefusalIsHonest DEF ErrorsAreTrue
  <1>5. OneMoment' /\ ContextHolds'
    BY <1>3 DEF OneMoment, ContextHolds, Succeeded
  <1> QED
    BY <1>2, <1>4, <1>5 DEF ReadsInv

LEMMA GarbledKeeps ==
    ASSUME ReadsInv, Garbled
    PROVE  ReadsInv'
  <1>1. /\ UNCHANGED <<world, bound, op, handle, wanted>> /\ Calls /\ Given
        /\ pc' = "retry" \/ (pc' = "done" /\ err' = "garbled")
    BY DEF ReadsInv, Garbled, Return
  <1>2. Calls' /\ Given'
    BY <1>1, GivenStays
  <1> QED
    BY <1>1, <1>2 DEF ReadsInv, OneMoment, ContextHolds, ErrorsAreTrue, Succeeded

\* A list without the object that was asked for: the object is not there.
LEMMA AbsentIsAbsent ==
    ASSUME Calls, Given, NEW focus, NEW front, NEW session,
           op \in {"info", "lookup", "linksOf"},
           Vanished(Rows(focus, front, session))
    PROVE  /\ op \in {"info", "lookup"} => world.home[handle.pane] = None
           /\ op = "linksOf" => handle.window \notin Shown(world)
  <1> DEFINE rows == Rows(focus, front, session)
  <1>1. /\ rows.windows = {r \in WindowRows(world, focus) :
                              "windows" \in wanted /\ Asked("windows", r)}
        /\ rows.panes = {r \in PaneRows(world, front) : "panes" \in wanted /\ Asked("panes", r)}
    BY RowsOf
  <1>2. \A l \in wanted : rows[l] = {}
    BY DEF Vanished
  <1>3. world \in Worlds
    BY DEF Calls
  <1> HIDE DEF rows
  <1>4. CASE op \in {"info", "lookup"}
    <2>1. handle.pane \in Panes /\ rows.panes = {} /\ "panes" \in wanted
      BY <1>2, <1>4 DEF Given
    <2>2. \A r \in PaneRows(world, front) : r.pane # handle.pane
      BY <1>1, <1>4, <2>1 DEF Asked
    <2>3. handle.pane \notin Existing(world)
      BY <1>3, <2>2, PaneRowsShow
    <2> QED
      BY <1>4, <2>1, <2>3 DEF Existing
  <1>5. CASE op = "linksOf"
    <2>1. rows.windows = {} /\ "windows" \in wanted
      BY <1>2, <1>5 DEF Given
    <2>2. \A r \in WindowRows(world, focus) : r.window # handle.window
      BY <1>1, <1>5, <2>1 DEF Asked
    <2>3. \A sl \in Linked(world) : world.links[sl] # handle.window
      BY <1>3, <2>2, WindowRowsShow
    <2> QED
      BY <1>5, <2>3 DEF Shown
  <1> QED
    BY <1>4, <1>5

\* A result that shows an answer of this daemon.
LEMMA ResultHolds ==
    ASSUME Calls, Given, Refusal = "none", NEW focus, NEW s, Shows(s, world, focus)
    PROVE  /\ op \in OnHandle /\ handle.origin # 0 => world.life = handle.origin
           /\ bound # 0 => world.life = bound
           /\ "sessions" \in wanted => {r.session : r \in s.sessions} = Living(world)
           /\ "windows" \in wanted /\ op \in OnServer =>
                 {<<r.session, r.index>> : r \in s.windows} = Linked(world)
           /\ \A r \in s.windows : r.window = world.links[<<r.session, r.index>>]
           /\ "panes" \in wanted /\ op \in {"read", "snapshot", "current"} =>
                 {r.pane : r \in s.panes} = Existing(world)
           /\ \A r \in s.panes :
                 r.window = world.home[r.pane] /\ <<r.session, r.index>> \in Linked(world)
           /\ \A r, x \in s.panes : r.pane = x.pane => r = x
  <1>1. world \in Worlds
    BY DEF Calls
  <1>2. /\ op \in OnHandle /\ handle.origin # 0 => world.life = handle.origin
        /\ bound # 0 => world.life = bound
    BY RefusalIsHonest
  <1>3. "sessions" \in wanted => op \in OnServer
    BY DEF Calls, Given, OnHandle
  <1>4. "sessions" \in wanted => {r.session : r \in s.sessions} = Living(world)
    BY <1>1, <1>3, SessionRowsShow DEF Shows
  <1>5. "windows" \in wanted /\ op \in OnServer =>
           {<<r.session, r.index>> : r \in s.windows} = Linked(world)
    BY <1>1, WindowRowsShow DEF Shows
  <1>6. \A r \in s.windows : r.window = world.links[<<r.session, r.index>>]
    <2>1. s.windows \subseteq WindowRows(world, focus)
      BY DEF Shows
    <2> QED
      BY <1>1, <2>1, WindowRowsShow
  <1>7. /\ "panes" \in wanted /\ op \in {"read", "snapshot", "current"} =>
              {r.pane : r \in s.panes} = Existing(world)
        /\ \A r \in s.panes :
              r.window = world.home[r.pane] /\ <<r.session, r.index>> \in Linked(world)
        /\ \A r, x \in s.panes : r.pane = x.pane => r = x
    BY DEF Shows
  <1> QED
    BY <1>2, <1>4, <1>5, <1>6, <1>7

\* What CurrentFrom finds in a snapshot, or says it cannot find, is so.
LEMMA LocateIsTrue ==
    ASSUME Calls, Given, NEW focus, NEW s, Shows(s, world, focus), op = "current", Locate(s)
    PROVE  /\ pc' = "done"
           /\ err' \in {"none", "changed", "notFound", "invalid"}
           /\ err' = "none" => world.life = handle.origin /\ ContextIs(here', world)
           /\ err' = "changed" => handle.origin # world.life
           /\ err' = "notFound" => handle.origin = world.life /\ world.home[handle.pane] = None
  <1>1. world \in Worlds /\ wanted = Lists /\ handle.pane \in Panes \cup {None}
    BY DEF Calls, Given
  <1>2. {r.pane : r \in s.panes} = Existing(world)
    BY <1>1 DEF Shows, Lists
  <1>3. CASE ~PidMatches /\ Return("changed")
    BY <1>3 DEF PidMatches, AnswerInfo, Return
  <1>4. CASE /\ PidMatches /\ handle.pane # None /\ Return("none")
             /\ \E p \in s.panes : p.pane = handle.pane /\ here' = Context(s, p)
    <2>1. PICK p \in s.panes : p.pane = handle.pane /\ here' = Context(s, p)
      BY <1>4
    <2>2. ContextIs(Context(s, p), world)
      BY <1>1, <1>4, <2>1, PaneContext
    <2> QED
      BY <1>4, <2>1, <2>2 DEF PidMatches, AnswerInfo, Return
  <1>5. CASE /\ PidMatches /\ handle.pane # None /\ Return("notFound")
             /\ ~\E p \in s.panes : p.pane = handle.pane
    <2>1. handle.pane \in Panes /\ handle.pane \notin Existing(world)
      BY <1>1, <1>2, <1>5
    <2> QED
      BY <1>5, <2>1 DEF PidMatches, AnswerInfo, Return, Existing
  <1>6. CASE PidMatches /\ handle.pane = None /\ Return("none") /\ here' \in Active(s)
    <2>1. ContextIs(here', world)
      BY <1>1, <1>6, ActiveContext
    <2> QED
      BY <1>6, <2>1 DEF PidMatches, AnswerInfo, Return
  <1>7. CASE Return("invalid")
    BY <1>7 DEF Return
  <1> QED
    BY <1>3, <1>4, <1>5, <1>6, <1>7 DEF Locate

LEMMA AnswerKeeps ==
    ASSUME ReadsInv, Answer
    PROVE  ReadsInv'
  <1>1. PICK focus \in Focus(world), front \in Front(world),
             session \in Living(world) \cup {None} : Read(Rows(focus, front, session))
    BY DEF Answer, Rows
  <1>2. /\ Calls /\ Given /\ Refusal = "none" /\ world \in Worlds
        /\ UNCHANGED <<world, bound, op, handle, wanted>>
    BY DEF ReadsInv, Answer, Calls
  <1> DEFINE rows == Rows(focus, front, session)
  <1>3. CASE Vanished(rows) /\ Return("notFound")
    <2>1. pc' = "done" /\ err' = "notFound" /\ op \in {"info", "lookup", "linksOf"}
      BY <1>3 DEF Return, Vanished
    <2>2. /\ op \in {"info", "lookup"} => world.home[handle.pane] = None
          /\ op = "linksOf" => handle.window \notin Shown(world)
          /\ handle.origin # 0 => handle.origin = world.life
      <3>1. op = "lookup" => handle.origin = 0
        BY <1>2 DEF Given
      <3>2. op \in {"info", "linksOf"} => op \in OnHandle
        BY DEF OnHandle
      <3> QED
        BY <1>2, <1>3, <2>1, <3>1, <3>2, AbsentIsAbsent, RefusalIsHonest
    <2>3. Calls' /\ Given'
      BY <1>2, <2>1, GivenStays
    <2>4. Shown(world)' = Shown(world)
      BY <1>2 DEF Shown, Linked
    <2>5. ErrorsAreTrue'
      BY <1>2, <2>1, <2>2, <2>4 DEF ErrorsAreTrue
    <2> QED
      BY <2>1, <2>3, <2>5 DEF ReadsInv, OneMoment, ContextHolds, Succeeded
  <1>4. CASE /\ ~Vanished(rows) /\ life' = world.life
             /\ \E panes \in Firsts(rows.panes) : seen' = [rows EXCEPT !.panes = panes]
             /\ IF op = "current" THEN Locate(seen') ELSE Return("none") /\ UNCHANGED here
    <2>1. PICK panes \in Firsts(rows.panes) : seen' = [rows EXCEPT !.panes = panes]
      BY <1>4
    <2>2. Shows(seen', world, focus)
      BY <1>2, <2>1, AnswerShows DEF Calls
    <2> HIDE DEF rows
    <2> DEFINE s == seen'
    <2>3. /\ pc' = "done" /\ err' \in {"none", "changed", "notFound", "invalid"}
          /\ op = "current" =>
                /\ err' = "none" => world.life = handle.origin /\ ContextIs(here', world)
                /\ err' = "changed" => handle.origin # world.life
                /\ err' = "notFound" => handle.origin = world.life
                                        /\ world.home[handle.pane] = None
          /\ op # "current" => err' = "none"
      <3>1. CASE op = "current"
        <4>1. Locate(s)
          BY <1>4, <3>1
        <4>2. Shows(s, world, focus)
          BY <2>2
        <4> HIDE DEF s
        <4> QED
          BY <1>2, <3>1, <4>1, <4>2, LocateIsTrue
      <3>2. CASE op # "current"
        BY <1>4, <3>2 DEF Return
      <3> QED
        BY <3>1, <3>2
    <2>4. Calls' /\ Given'
      BY <1>2, <2>3, GivenStays
    <2>5. /\ op \in OnHandle /\ handle.origin # 0 => world.life = handle.origin
          /\ bound # 0 => world.life = bound
          /\ "sessions" \in wanted => {r.session : r \in s.sessions} = Living(world)
          /\ "windows" \in wanted /\ op \in OnServer =>
                {<<r.session, r.index>> : r \in s.windows} = Linked(world)
          /\ \A r \in s.windows : r.window = world.links[<<r.session, r.index>>]
          /\ "panes" \in wanted /\ op \in {"read", "snapshot", "current"} =>
                {r.pane : r \in s.panes} = Existing(world)
          /\ \A r \in s.panes :
                r.window = world.home[r.pane] /\ <<r.session, r.index>> \in Linked(world)
          /\ \A r, x \in s.panes : r.pane = x.pane => r = x
      <3>1. Shows(s, world, focus)
        BY <2>2
      <3> HIDE DEF s
      <3> QED
        BY <1>2, <3>1, ResultHolds
    <2>6. Living(world)' = Living(world) /\ Linked(world)' = Linked(world)
          /\ Existing(world)' = Existing(world)
      BY <1>2 DEF Living, Linked, Existing
    <2>7. OneMoment'
      BY <1>2, <1>4, <2>5, <2>6 DEF OneMoment
    <2>8. ContextHolds'
      <3>1. op \in {"snapshot", "current"} => Complete(s)
        <4>1. Shows(s, world, focus)
          BY <2>2
        <4> HIDE DEF s
        <4> QED
          BY <1>2, <4>1, SnapshotComplete DEF Given
      <3>2. op \in {"snapshot", "current"} => Complete(seen)'
        BY <3>1 DEF Complete
      <3>3. op = "current" /\ err' = "none" => ContextIs(here', world)
        BY <2>3
      <3>4. LinksOf(world, here.window)' = LinksOf(world, here'.window)
        BY <1>2 DEF LinksOf
      <3> QED
        BY <1>2, <1>4, <2>3, <3>2, <3>3, <3>4 DEF ContextHolds, Succeeded, ContextIs
    <2>9. ErrorsAreTrue'
      BY <1>2, <2>3 DEF ErrorsAreTrue
    <2> QED
      BY <2>4, <2>7, <2>8, <2>9 DEF ReadsInv
  <1> QED
    BY <1>1, <1>3, <1>4 DEF Read, AnswerInfo

LEMMA ReadsNext == ReadsInv /\ [Next]_vars => ReadsInv'
  <1> SUFFICES ASSUME ReadsInv, [Next]_vars PROVE ReadsInv'
    OBVIOUS
  <1>1. CASE Others
    BY <1>1, OthersKeep
  <1>2. CASE Fail
    BY <1>2, FailKeeps
  <1>3. CASE Garbled
    BY <1>3, GarbledKeeps
  <1>4. CASE Answer
    BY <1>4, AnswerKeeps
  <1>5. CASE UNCHANGED vars
    <2>1. Calls' /\ Given'
      BY <1>5 DEF ReadsInv, Calls, Given, vars
    <2>2. OneMoment' /\ ContextHolds'
      BY <1>5 DEF ReadsInv, OneMoment, ContextHolds, Succeeded, Complete, Living, Linked,
                  Existing, LinksOf, vars
    <2>3. ErrorsAreTrue'
      BY <1>5 DEF ReadsInv, ErrorsAreTrue, Living, Shown, Linked, Slot, vars
    <2> QED
      BY <2>1, <2>2, <2>3 DEF ReadsInv
  <1> QED
    BY <1>1, <1>2, <1>3, <1>4, <1>5 DEF Next

\* Every reachable state satisfies the inductive invariant.
LEMMA ReadsAlways == Spec => []ReadsInv
  BY ReadsInit, ReadsNext, PTL DEF Spec

-----------------------------------------------------------------------------
(* The theorems.                                                            *)

\* read, decodePanes, resolveGuard: a result shows one daemon at one moment, the one its identity
\* names and its handle or connection was observed on, and every object once.
THEOREM ResultsAreOfOneMoment == Spec => []OneMoment
  <1>1. ReadsInv => OneMoment
    BY DEF ReadsInv
  <1> QED
    BY ReadsAlways, <1>1, PTL

\* Snapshot.assess, resolvePaneContext, resolveActiveContext: a snapshot is complete, and the
\* current context holds together.
THEOREM ContextsHold == Spec => []ContextHolds
  <1>1. ReadsInv => ContextHolds
    BY DEF ReadsInv
  <1> QED
    BY ReadsAlways, <1>1, PTL

\* guard, inspectedRow, CurrentFrom: "not found", "changed" and "link changed" are true when said.
THEOREM ErrorsAreHonest == Spec => []ErrorsAreTrue
  <1>1. ReadsInv => ErrorsAreTrue
    BY DEF ReadsInv
  <1> QED
    BY ReadsAlways, <1>1, PTL


-----------------------------------------------------------------------------
(* Induction over what is counted in naturals, and concatenations of many   *)
(* parts, for the theorems about texts: a recursive function on 0..n is     *)
(* shown to exist before anything is said of the one that is chosen.        *)
LEMMA LeastNat == ASSUME NEW T \in SUBSET Nat, T # {} PROVE \E m \in T : \A k \in T : m <= k
<1>1. IsWellFoundedOn(OpToRel(<, Nat), Nat) BY NatLessThanWellFounded
<1> DEFINE R == OpToRel(<, Nat)
<1>2. \E x \in T : \A y \in T : ~(<<y, x>> \in R)
  <2> HIDE DEF R
  <2> QED BY <1>1, WFMin DEF R
<1>3. \A x, y \in T : ~(<<y, x>> \in R) => x <= y BY DEF OpToRel
<1> QED BY <1>2, <1>3

\* A set of naturals that a number enters with its predecessor holds all of them.
LEMMA UpToAll ==
    ASSUME NEW S, 0 \in S, \A m \in Nat \ {0} : m - 1 \in S => m \in S
    PROVE  Nat \subseteq S
<1> SUFFICES ASSUME NEW n \in Nat, n \notin S PROVE FALSE OBVIOUS
<1> DEFINE T == {k \in Nat : k \notin S}
<1>1. T \in SUBSET Nat /\ T # {} OBVIOUS
<1>2. PICK m \in T : \A k \in T : m <= k
  <2> HIDE DEF T
  <2> QED BY <1>1, LeastNat
<1>3. m # 0 /\ m \in Nat \ {0} /\ m - 1 \in Nat OBVIOUS
<1>4. m - 1 \notin T
  <2>1. ~(m <= m - 1) BY <1>3
  <2> HIDE DEF T
  <2> QED BY <2>1, <1>2
<1>5. m - 1 \in S BY <1>3, <1>4
<1> QED BY <1>3, <1>5

\* Where the elements of a concatenation are.
LEMMA Glued ==
    ASSUME NEW X, NEW s \in Seq(X), NEW t \in Seq(X)
    PROVE  /\ s \o t \in Seq(X)
           /\ Len(s) \in Nat /\ Len(t) \in Nat /\ Len(s \o t) = Len(s) + Len(t)
           /\ Len(s) <= Len(s \o t)
           /\ \A i \in 1..Len(s) : (s \o t)[i] = s[i]
           /\ \A j \in 1..Len(t) : (s \o t)[Len(s) + j] = t[j]
    OBVIOUS

LEMMA Regrouped ==
    ASSUME NEW X, NEW a \in Seq(X), NEW b \in Seq(X), NEW c \in Seq(X)
    PROVE  (a \o b) \o c = a \o (b \o c)
  BY ConcatAssociative

LEMMA PrefixGrows ==
    ASSUME NEW X, NEW s \in Seq(X), NEW m \in 1..Len(s)
    PROVE  /\ SubSeq(s, 1, m - 1) \in Seq(X)
           /\ SubSeq(s, 1, m) = Append(SubSeq(s, 1, m - 1), s[m])
<1>1. Len(s) \in Nat BY LenProperties
<1>2. \A i \in 1..m - 1 : i \in 1..Len(s) BY <1>1
<1>3. \A i \in 1..m - 1 : s[i] \in X BY <1>2, ElementOfSeq
<1>4. m - 1 \in Int /\ 1 \in Int BY <1>1
<1>5. SubSeq(s, 1, m - 1) \in Seq(X) BY <1>3, <1>4, SubSeqProperties
<1>6. 1 \in 1..Len(s) /\ m \in 1..Len(s) BY <1>1
<1>7. SubSeq(s, 1, m) = SubSeq(s, 1, m - 1) \o <<s[m]>> BY <1>6, SubSeqRecursiveSecond
<1>8. s[m] \in X BY ElementOfSeq
<1>9. \A t \in Seq(X), x \in X : Append(t, x) = t \o <<x>> OBVIOUS
<1> QED BY <1>5, <1>7, <1>8, <1>9

Prefixes(u, n, part) == u = [i \in 0..n |-> IF i = 0 THEN <<>> ELSE u[i - 1] \o part[i]]

LEMMA PrefixesExist == ASSUME NEW part, NEW n \in Nat PROVE \E u : Prefixes(u, n, part)
<1> DEFINE S == {k \in Nat : \E u : Prefixes(u, k, part)}
<1>1. 0 \in S
  <2>1. Prefixes([i \in 0..0 |-> <<>>], 0, part) BY DEF Prefixes
  <2> QED BY <2>1
<1>2. ASSUME NEW m \in Nat \ {0}, m - 1 \in S PROVE m \in S
  <2>1. PICK u : Prefixes(u, m - 1, part) BY <1>2
  <2> DEFINE v == [i \in 0..m |-> IF i = m THEN u[m - 1] \o part[m] ELSE u[i]]
  <2>2. \A i \in 0..m : i # 0 /\ i # m => u[i] = u[i - 1] \o part[i] BY <2>1 DEF Prefixes
  <2>3. u[0] = <<>> BY <2>1 DEF Prefixes
  <2>4. \A i \in 0..m : v[i] = IF i = 0 THEN <<>> ELSE v[i - 1] \o part[i]
    <3> SUFFICES ASSUME NEW i \in 0..m PROVE v[i] = IF i = 0 THEN <<>> ELSE v[i - 1] \o part[i]
        OBVIOUS
    <3>1. CASE i = 0
      <4>1. i # m BY <3>1
      <4> QED BY <4>1, <3>1, <2>3
    <3>2. CASE i # 0
      <4>1. i - 1 \in 0..m /\ i - 1 # m BY <3>2
      <4>2. v[i - 1] = u[i - 1] BY <4>1
      <4>3. v[i] = u[i - 1] \o part[i] BY <2>2, <3>2
      <4> QED BY <4>2, <4>3, <3>2
    <3> QED BY <3>1, <3>2
  <2>5. v = [i \in 0..m |-> v[i]] OBVIOUS
  <2>6. Prefixes(v, m, part)
    <3> HIDE DEF v
    <3> QED BY <2>4, <2>5 DEF Prefixes
  <2> QED BY <2>6
<1>3. Nat \subseteq S
  <2> HIDE DEF S
  <2> QED BY <1>1, <1>2, UpToAll
<1> QED BY <1>3

PartsIn(part, n, X) == part \in [1..n -> Seq(X)]

\* u[k] is the concatenation of the first k parts.
Concatenates(u, n, part, X) ==
    /\ u[0] = <<>>
    /\ \A k \in 0..n : u[k] \in Seq(X)
    /\ \A k \in 1..n : u[k] = u[k - 1] \o part[k]
    /\ \A k \in 1..n : Len(u[k]) = Len(u[k - 1]) + Len(part[k])
    /\ \A k \in 0..n : Len(u[k]) <= Len(u[n])
    /\ \A k \in 1..n : \A j \in 1..Len(part[k]) : u[n][Len(u[k - 1]) + j] = part[k][j]

LEMMA Concatenation ==
    ASSUME NEW X, NEW n \in Nat, NEW part, PartsIn(part, n, X), NEW u, Prefixes(u, n, part)
    PROVE  Concatenates(u, n, part, X)
<1>0. part \in [1..n -> Seq(X)] BY DEF PartsIn
<1>1. u[0] = <<>> /\ \A k \in 1..n : u[k] = u[k - 1] \o part[k]
  <2>1. \A i \in 0..n : u[i] = IF i = 0 THEN <<>> ELSE u[i - 1] \o part[i] BY DEF Prefixes
  <2>2. 0 \in 0..n /\ \A k \in 1..n : k \in 0..n /\ k # 0 OBVIOUS
  <2> QED BY <2>1, <2>2
<1>2. \A k \in 0..n : u[k] \in Seq(X)
  <2> DEFINE S == {k \in Nat : k <= n => u[k] \in Seq(X)}
  <2>1. 0 \in S
    <3>1. <<>> \in Seq(X) OBVIOUS
    <3> QED BY <1>1, <3>1
  <2>2. ASSUME NEW m \in Nat \ {0}, m - 1 \in S PROVE m \in S
    <3> SUFFICES ASSUME m <= n PROVE u[m] \in Seq(X) OBVIOUS
    <3>1. u[m - 1] \in Seq(X) BY <2>2
    <3>2. part[m] \in Seq(X)
      <4>1. m \in 1..n OBVIOUS
      <4> QED BY <1>0, <4>1
    <3>3. u[m] = u[m - 1] \o part[m]
      <4>1. m \in 1..n OBVIOUS
      <4> QED BY <1>1, <4>1
    <3> QED BY <3>1, <3>2, <3>3
  <2>3. Nat \subseteq S
    <3> HIDE DEF S
    <3> QED BY <2>1, <2>2, UpToAll
  <2> QED BY <2>3
<1>3. \A k \in 1..n : Len(u[k]) = Len(u[k - 1]) + Len(part[k])
  <2> SUFFICES ASSUME NEW k \in 1..n PROVE Len(u[k]) = Len(u[k - 1]) + Len(part[k]) OBVIOUS
  <2>1. u[k - 1] \in Seq(X) /\ part[k] \in Seq(X) /\ u[k] = u[k - 1] \o part[k]
    <3>1. k - 1 \in 0..n OBVIOUS
    <3> QED BY <1>0, <1>1, <1>2, <3>1
  <2> QED BY <2>1
<1>4. \A k \in 0..n : \A m \in Nat : k <= m /\ m <= n =>
          /\ Len(u[k]) <= Len(u[m])
          /\ \A j \in 1..Len(u[k]) : u[m][j] = u[k][j]
  <2> SUFFICES ASSUME NEW k \in 0..n
               PROVE  \A m \in Nat : k <= m /\ m <= n =>
                          Len(u[k]) <= Len(u[m]) /\ \A j \in 1..Len(u[k]) : u[m][j] = u[k][j]
      OBVIOUS
  <2> DEFINE S == {m \in Nat : k <= m /\ m <= n =>
                     Len(u[k]) <= Len(u[m]) /\ \A j \in 1..Len(u[k]) : u[m][j] = u[k][j]}
  <2>0. Len(u[k]) \in Nat BY <1>2
  <2>1. 0 \in S BY <2>0
  <2>2. ASSUME NEW m \in Nat \ {0}, m - 1 \in S PROVE m \in S
    <3> SUFFICES ASSUME k <= m, m <= n
                 PROVE  Len(u[k]) <= Len(u[m]) /\ \A j \in 1..Len(u[k]) : u[m][j] = u[k][j]
        OBVIOUS
    <3>1. CASE k = m BY <3>1, <2>0
    <3>2. CASE k # m
      <4>1. m - 1 \in 0..n /\ k <= m - 1 /\ m - 1 <= n /\ m \in 1..n BY <3>2
      <4>2. Len(u[k]) <= Len(u[m - 1]) /\ \A j \in 1..Len(u[k]) : u[m - 1][j] = u[k][j] BY <2>2, <4>1
      <4>3. u[m - 1] \in Seq(X) /\ part[m] \in Seq(X) /\ u[m] = u[m - 1] \o part[m] BY <1>0, <1>1, <1>2, <4>1
      <4>4. Len(u[m - 1]) <= Len(u[m]) /\ \A j \in 1..Len(u[m - 1]) : u[m][j] = u[m - 1][j]
        <5> DEFINE x == u[m - 1] y == part[m]
        <5>1. x \in Seq(X) /\ y \in Seq(X) /\ u[m] = x \o y BY <4>3
        <5> HIDE DEF x, y
        <5>2. Len(x) <= Len(x \o y) /\ \A j \in 1..Len(x) : (x \o y)[j] = x[j] BY <5>1, Glued
        <5> QED BY <5>1, <5>2 DEF x, y
      <4>5. Len(u[m - 1]) \in Nat /\ Len(u[m]) \in Nat BY <1>2, <4>1
      <4>6. Len(u[k]) <= Len(u[m]) BY <4>2, <4>4, <4>5, <2>0
      <4>7. \A j \in 1..Len(u[k]) : j \in 1..Len(u[m - 1]) BY <4>2, <4>5, <2>0
      <4> QED BY <4>2, <4>4, <4>6, <4>7
    <3> QED BY <3>1, <3>2
  <2>3. Nat \subseteq S
    <3> HIDE DEF S
    <3> QED BY <2>1, <2>2, UpToAll
  <2> QED BY <2>3
<1>5. \A k \in 0..n : Len(u[k]) <= Len(u[n]) BY <1>4
<1>6. ASSUME NEW k \in 1..n, NEW j \in 1..Len(part[k]) PROVE u[n][Len(u[k - 1]) + j] = part[k][j]
  <2>1. u[k - 1] \in Seq(X) /\ part[k] \in Seq(X) /\ u[k] = u[k - 1] \o part[k]
    <3>1. k - 1 \in 0..n OBVIOUS
    <3> QED BY <1>0, <1>1, <1>2, <3>1
  <2>2. Len(u[k - 1]) + j \in 1..Len(u[k]) /\ u[k][Len(u[k - 1]) + j] = part[k][j]
    <3> DEFINE x == u[k - 1] y == part[k]
    <3>1. x \in Seq(X) /\ y \in Seq(X) /\ j \in 1..Len(y) /\ u[k] = x \o y BY <2>1
    <3> HIDE DEF x, y
    <3>2. (x \o y)[Len(x) + j] = y[j] /\ Len(x \o y) = Len(x) + Len(y) /\ Len(x) \in Nat /\ Len(y) \in Nat
      BY <3>1, Glued
    <3>3. Len(x) + j \in 1..Len(x \o y) BY <3>1, <3>2
    <3> QED BY <3>1, <3>2, <3>3 DEF x, y
  <2>3. \A i \in 1..Len(u[k]) : u[n][i] = u[k][i] BY <1>4
  <2> QED BY <2>2, <2>3
<1> QED BY <1>1, <1>2, <1>3, <1>5, <1>6 DEF Concatenates

LEMMA PartsCounted == ASSUME NEW n \in Nat, NEW part, part = [i \in 1..n |-> part[i]] PROVE Len(part) = n
<1> DEFINE X == {part[i] : i \in 1..n}
<1>1. part \in [1..n -> X] OBVIOUS
<1> HIDE DEF X
<1>2. part \in Seq(X) BY <1>1
<1>3. Len(part) \in Nat /\ DOMAIN part = 1..Len(part) BY <1>2, LenProperties
<1>4. DOMAIN part = 1..n BY <1>1
<1> QED BY <1>3, <1>4

LEMMA ConcatParts ==
    ASSUME NEW n \in Nat, NEW part, part = [i \in 1..n |-> part[i]]
    PROVE  \E u : Prefixes(u, n, part) /\ Concat(part) = u[n]
<1> DEFINE F(u) == [i \in 0..n |-> IF i = 0 THEN <<>> ELSE u[i - 1] \o part[i]]
           v == CHOOSE u : u = F(u)
<1>1. Len(part) = n BY PartsCounted
<1>2. Concat(part) = v[n] BY <1>1 DEF Concat
<1>3. \A u : Prefixes(u, n, part) <=> u = F(u) BY DEF Prefixes
<1>4. \E u : u = F(u)
  <2> HIDE DEF F
  <2> QED BY <1>3, PrefixesExist
<1> HIDE DEF F
<1>5. v = F(v) BY <1>4
<1> QED BY <1>2, <1>3, <1>5

EscapedBytes(data) == [i \in 1..Len(data) |-> EscapedByte(data[i])]

LEMMA EscapeParts ==
    ASSUME NEW data, Len(data) \in Nat
    PROVE  \E u : Prefixes(u, Len(data), EscapedBytes(data)) /\ Escape(data) = u[Len(data)]
<1> DEFINE n == Len(data) part == EscapedBytes(data)
<1>1. part = [i \in 1..n |-> part[i]] BY DEF EscapedBytes
<1>2. Escape(data) = Concat(part) BY DEF Escape, EscapedBytes
<1> HIDE DEF n, part
<1> QED BY <1>1, <1>2, ConcatParts DEF n, part

At(text, p, v) == \A j \in 1..Len(v) : p + j \in 1..Len(text) /\ text[p + j] = v[j]

LEMMA AtPart ==
    ASSUME NEW text, NEW p \in Nat, NEW X, NEW n \in Nat, NEW part, PartsIn(part, n, X), NEW u,
           Concatenates(u, n, part, X), At(text, p, u[n]), NEW k \in 1..n
    PROVE  At(text, p + Len(u[k - 1]), part[k])
<1>1. Len(u[k - 1]) \in Nat /\ Len(part[k]) \in Nat /\ Len(u[n]) \in Nat
      /\ Len(u[k - 1]) + Len(part[k]) <= Len(u[n])
  <2>1. k - 1 \in 0..n /\ k \in 0..n /\ n \in 0..n OBVIOUS
  <2>2. u[k - 1] \in Seq(X) /\ u[n] \in Seq(X) BY <2>1 DEF Concatenates
  <2>3. part[k] \in Seq(X) BY DEF PartsIn
  <2>4. Len(u[k]) = Len(u[k - 1]) + Len(part[k]) /\ Len(u[k]) <= Len(u[n]) BY <2>1 DEF Concatenates
  <2>5. Len(u[k - 1]) \in Nat /\ Len(part[k]) \in Nat /\ Len(u[n]) \in Nat BY <2>2, <2>3, LenProperties
  <2> QED BY <2>4, <2>5
<1>2. SUFFICES ASSUME NEW j \in 1..Len(part[k])
               PROVE  /\ (p + Len(u[k - 1])) + j \in 1..Len(text)
                      /\ text[(p + Len(u[k - 1])) + j] = part[k][j]
  BY DEF At
<1>3. u[n][Len(u[k - 1]) + j] = part[k][j] BY DEF Concatenates
<1>4. Len(u[k - 1]) + j \in 1..Len(u[n]) /\ p + (Len(u[k - 1]) + j) = (p + Len(u[k - 1])) + j
  <2> DEFINE x == Len(u[k - 1]) y == Len(part[k]) z == Len(u[n])
  <2>1. x \in Nat /\ y \in Nat /\ z \in Nat /\ x + y <= z /\ j \in 1..y BY <1>1
  <2> HIDE DEF x, y, z
  <2>2. x + j \in 1..z /\ p + (x + j) = (p + x) + j BY <2>1
  <2> QED BY <2>2 DEF x, y, z
<1> QED BY <1>3, <1>4 DEF At

LEMMA AtSelf == ASSUME NEW X, NEW text \in Seq(X) PROVE At(text, 0, text)
  BY DEF At

-----------------------------------------------------------------------------
(* Output: its escapes are read from the end of the data to its start.      *)
NextByte(data, i) == IF data[i] = Backslash THEN DecodeOctalEscape(data, i) ELSE Ok(i + 1, data[i])
AfterByte(byte, r) == IF r.st = "ok" THEN Ok(r.at, <<byte>> \o r.val) ELSE r
FromByte(data, i, f) ==
    IF i > Len(data) THEN Ok(i, <<>>)
    ELSE IF NextByte(data, i).st = "ok" THEN AfterByte(NextByte(data, i).val, f[NextByte(data, i).at])
    ELSE NextByte(data, i)
DecodesFrom(f, data) == f = [i \in 1..Len(data) + 1 |-> FromByte(data, i, f)]

LEMMA NextByteAhead ==
    ASSUME NEW data, Len(data) \in Nat, NEW i \in 1..Len(data), NextByte(data, i).st = "ok"
    PROVE  NextByte(data, i).at \in i + 1..Len(data) + 1
<1>1. CASE data[i] = Backslash
  <2>1. NextByte(data, i) = DecodeOctalEscape(data, i) BY <1>1 DEF NextByte
  <2>2. i + 3 <= Len(data)
    <3>1. i + 3 > Len(data) => DecodeOctalEscape(data, i) = Bad(i) BY DEF DecodeOctalEscape
    <3> QED BY <2>1, <3>1 DEF Bad
  <2>3. DecodeOctalEscape(data, i) = Ok(i + 4, OctalAt(data, i)) BY <2>1 DEF DecodeOctalEscape, Bad
  <2> QED BY <2>1, <2>2, <2>3 DEF Ok
<1>2. CASE data[i] # Backslash BY <1>2 DEF NextByte, Ok
<1> QED BY <1>1, <1>2

LEMMA DecodingExists == ASSUME NEW data, Len(data) \in Nat PROVE \E f : DecodesFrom(f, data)
<1> DEFINE n == Len(data)
           P(f, k) == \A i \in n + 1 - k..n + 1 : f[i] = FromByte(data, i, f)
           S == {k \in Nat : k <= n => \E f : DOMAIN f = 1..n + 1 /\ P(f, k)}
<1>1. 0 \in S
  <2> DEFINE f == [i \in 1..n + 1 |-> Ok(i, <<>>)]
  <2>1. \A i \in n + 1 - 0..n + 1 : i = n + 1 /\ i > n /\ i \in 1..n + 1 OBVIOUS
  <2>2. P(f, 0) BY <2>1 DEF FromByte
  <2> QED BY <2>2
<1>2. ASSUME NEW m \in Nat \ {0}, m - 1 \in S PROVE m \in S
  <2> SUFFICES ASSUME m <= n PROVE \E f : DOMAIN f = 1..n + 1 /\ P(f, m) OBVIOUS
  <2>1. PICK f : DOMAIN f = 1..n + 1 /\ P(f, m - 1) BY <1>2
  <2> DEFINE q == n + 1 - m
             g == [i \in 1..n + 1 |-> IF i = q THEN FromByte(data, i, f) ELSE f[i]]
  <2>2. q \in 1..n /\ n + 1 - (m - 1) = q + 1 OBVIOUS
  <2>3. \A i \in q + 1..n + 1 : i \in 1..n + 1 /\ g[i] = f[i] BY <2>2
  <2>4. \A i \in q..n + 1 : FromByte(data, i, g) = FromByte(data, i, f)
    <3> SUFFICES ASSUME NEW i \in q..n + 1 PROVE FromByte(data, i, g) = FromByte(data, i, f) OBVIOUS
    <3> HIDE DEF g, q
    <3>1. CASE i > n BY <3>1 DEF FromByte
    <3>2. CASE ~(i > n) /\ NextByte(data, i).st = "ok"
      <4>1. i \in 1..n BY <2>2, <3>2
      <4>2. NextByte(data, i).at \in i + 1..n + 1 BY <3>2, <4>1, NextByteAhead
      <4>3. NextByte(data, i).at \in q + 1..n + 1 BY <2>2, <4>1, <4>2
      <4> QED BY <2>3, <3>2, <4>3 DEF FromByte
    <3>3. CASE ~(i > n) /\ NextByte(data, i).st # "ok" BY <3>3 DEF FromByte
    <3> QED BY <3>1, <3>2, <3>3
  <2>5. \A i \in q..n + 1 : g[i] = FromByte(data, i, g)
    <3> SUFFICES ASSUME NEW i \in q..n + 1 PROVE g[i] = FromByte(data, i, f) BY <2>4
    <3>1. CASE i = q
      <4>1. i \in 1..n + 1 BY <2>2, <3>1
      <4> QED BY <3>1, <4>1
    <3>2. CASE i # q
      <4>1. i \in q + 1..n + 1 BY <2>2, <3>2
      <4>2. f[i] = FromByte(data, i, f) BY <2>1, <2>2, <4>1
      <4> QED BY <2>3, <4>1, <4>2
    <3> QED BY <3>1, <3>2
  <2>6. DOMAIN g = 1..n + 1 OBVIOUS
  <2> HIDE DEF g
  <2> QED BY <2>5, <2>6
<1>3. Nat \subseteq S
  <2> HIDE DEF S
  <2> QED BY <1>1, <1>2, UpToAll
<1>4. PICK f : DOMAIN f = 1..n + 1 /\ P(f, n) BY <1>3
<1>5. n + 1 - n = 1 OBVIOUS
<1>6. \A i \in 1..n + 1 : f[i] = FromByte(data, i, f) BY <1>4, <1>5
<1> DEFINE g == [i \in 1..n + 1 |-> f[i]]
<1>7. \A i \in 1..n + 1 : FromByte(data, i, g) = FromByte(data, i, f)
  <2> SUFFICES ASSUME NEW i \in 1..n + 1 PROVE FromByte(data, i, g) = FromByte(data, i, f) OBVIOUS
  <2>1. \A j \in 1..n + 1 : g[j] = f[j] OBVIOUS
  <2> HIDE DEF g
  <2>2. CASE i > n BY <2>2 DEF FromByte
  <2>3. CASE ~(i > n) /\ NextByte(data, i).st = "ok"
    <3>1. NextByte(data, i).at \in 1..n + 1
      <4>1. i \in 1..n BY <2>3
      <4> QED BY <2>3, <4>1, NextByteAhead
    <3> QED BY <2>1, <2>3, <3>1 DEF FromByte
  <2>4. CASE ~(i > n) /\ NextByte(data, i).st # "ok" BY <2>4 DEF FromByte
  <2> QED BY <2>2, <2>3, <2>4
<1>8. g = [i \in 1..n + 1 |-> FromByte(data, i, g)]
  <2>1. \A i \in 1..n + 1 : g[i] = FromByte(data, i, g) BY <1>6, <1>7
  <2>2. g = [i \in 1..n + 1 |-> g[i]] OBVIOUS
  <2> HIDE DEF g
  <2> QED BY <2>1, <2>2
<1> QED BY <1>8 DEF DecodesFrom

LEMMA Decoded ==
    ASSUME NEW data, Len(data) \in Nat, NEW max
    PROVE  \E f : /\ \A i \in 1..Len(data) + 1 : f[i] = FromByte(data, i, f)
                  /\ DecodeOctal(data, max) =
                        IF Len(data) > 4 * max THEN Bad(1)
                        ELSE IF f[1].st = "ok"
                             THEN IF Len(f[1].val) > max THEN Bad(1) ELSE Ok(f[1].at, f[1].val)
                             ELSE f[1]
<1> DEFINE F(g) == [i \in 1..Len(data) + 1 |->
                IF i > Len(data) THEN Ok(i, <<>>)
                ELSE Then(NextByte(data, i), LAMBDA at, byte :
                         Then(g[at], LAMBDA end, more : Ok(end, <<byte>> \o more)))]
           f == CHOOSE g : g = F(g)
<1>1. \A g : DecodesFrom(g, data) <=> g = F(g) BY DEF DecodesFrom, FromByte, AfterByte, Then
<1>2. DecodeOctal(data, max) =
          IF Len(data) > 4 * max THEN Bad(1)
          ELSE Then(f[1], LAMBDA end, out : IF Len(out) > max THEN Bad(1) ELSE Ok(end, out))
  BY DEF DecodeOctal, NextByte
<1>3. \E g : g = F(g)
  <2> HIDE DEF F
  <2> QED BY <1>1, DecodingExists
<1>4. f = F(f)
  <2> HIDE DEF F
  <2> QED BY <1>3
<1>5. DecodesFrom(f, data) BY <1>1, <1>4
<1> HIDE DEF f
<1>6. \A i \in 1..Len(data) + 1 : f[i] = FromByte(data, i, f) BY <1>5 DEF DecodesFrom
<1> QED BY <1>2, <1>6 DEF Then

LEMMA OctalDigits ==
    ASSUME NEW b \in 0..255
    PROVE  /\ {Zero + (b \div 64), Zero + ((b \div 8) % 8), Zero + (b % 8)} \subseteq Zero..Zero + 7
           /\ 64 * (b \div 64) + 8 * ((b \div 8) % 8) + (b % 8) = b
<1>1. b \div 64 \in 0..3 OBVIOUS
<1>2. (b \div 8) % 8 \in 0..7 /\ b % 8 \in 0..7 OBVIOUS
<1>3. 64 * (b \div 64) + 8 * ((b \div 8) % 8) + (b % 8) = b
  <2>1. b = 8 * (b \div 8) + (b % 8) OBVIOUS
  <2>2. b \div 8 \in Nat OBVIOUS
  <2>3. b \div 8 = 8 * ((b \div 8) \div 8) + ((b \div 8) % 8) BY <2>2
  <2>4. (b \div 8) \div 8 = b \div 64 OBVIOUS
  <2> QED BY <2>1, <2>2, <2>3, <2>4, <1>1, <1>2
<1> QED BY <1>1, <1>2, <1>3 DEF Zero

LEMMA EscapedIsBytes == ASSUME NEW b \in 0..255 PROVE EscapedByte(b) \in Seq(Nat) /\ Len(EscapedByte(b)) \in 1..4
<1> DEFINE x == b \div 64 y == (b \div 8) % 8 z == b % 8
<1>1. x \in Nat /\ y \in Nat /\ z \in Nat OBVIOUS
<1> HIDE DEF x, y, z
<1>2. Zero + x \in Nat /\ Zero + y \in Nat /\ Zero + z \in Nat /\ Backslash \in Nat /\ b \in Nat
  BY <1>1 DEF Zero, Backslash
<1> DEFINE e == <<Backslash, Zero + x, Zero + y, Zero + z>>
<1>3. e \in Seq(Nat) /\ Len(e) = 4 /\ <<b>> \in Seq(Nat) /\ Len(<<b>>) = 1 BY <1>2
<1>4. EscapedByte(b) = e \/ EscapedByte(b) = <<b>> BY DEF EscapedByte, x, y, z
<1> HIDE DEF e
<1>5. CASE EscapedByte(b) = e
  <2>1. Len(EscapedByte(b)) = 4 BY <1>3, <1>5
  <2> QED BY <1>3, <1>5, <2>1
<1>6. CASE EscapedByte(b) = <<b>>
  <2>1. Len(EscapedByte(b)) = 1 BY <1>3, <1>6
  <2> QED BY <1>3, <1>6, <2>1
<1> QED BY <1>4, <1>5, <1>6

LEMMA EscapeRead ==
    ASSUME NEW data, Len(data) \in Nat, NEW i \in Nat \ {0}, NEW b \in 0..255,
           At(data, i - 1, EscapedByte(b))
    PROVE  i <= Len(data) /\ NextByte(data, i) = Ok(i + Len(EscapedByte(b)), b)
<1>1. CASE b < 32 \/ b = Backslash
  <2> DEFINE x == b \div 64 y == (b \div 8) % 8 z == b % 8
  <2>1. x \in Int /\ y \in Int /\ z \in Int OBVIOUS
  <2>2. {Zero + x, Zero + y, Zero + z} \subseteq Zero..Zero + 7 /\ 64 * x + 8 * y + z = b BY OctalDigits
  <2>3. EscapedByte(b) = <<Backslash, Zero + x, Zero + y, Zero + z>> BY <1>1 DEF EscapedByte
  <2> HIDE DEF x, y, z
  <2>4. Len(EscapedByte(b)) = 4 /\ EscapedByte(b)[1] = Backslash /\ EscapedByte(b)[2] = Zero + x
        /\ EscapedByte(b)[3] = Zero + y /\ EscapedByte(b)[4] = Zero + z
    BY <2>3
  <2>5. \A j \in 1..4 : (i - 1) + j \in 1..Len(data) /\ data[(i - 1) + j] = EscapedByte(b)[j]
    BY <2>4 DEF At
  <2>6. (i - 1) + 1 = i /\ (i - 1) + 2 = i + 1 /\ (i - 1) + 3 = i + 2 /\ (i - 1) + 4 = i + 3 OBVIOUS
  <2>7. (i - 1) + 1 \in 1..Len(data) /\ data[(i - 1) + 1] = Backslash BY <2>4, <2>5
  <2>8. data[(i - 1) + 2] = Zero + x BY <2>4, <2>5
  <2>9. data[(i - 1) + 3] = Zero + y BY <2>4, <2>5
  <2>10. (i - 1) + 4 \in 1..Len(data) /\ data[(i - 1) + 4] = Zero + z BY <2>4, <2>5
  <2>11. i <= Len(data) /\ i + 3 <= Len(data) /\ data[i] = Backslash /\ data[i + 1] = Zero + x
         /\ data[i + 2] = Zero + y /\ data[i + 3] = Zero + z
    BY <2>6, <2>7, <2>8, <2>9, <2>10
  <2>12. OctalAt(data, i) = b
    <3>1. 64 * ((Zero + x) - Zero) + 8 * ((Zero + y) - Zero) + (Zero + z) - Zero = b
      BY <2>1, <2>2 DEF Zero
    <3> QED BY <2>11, <3>1 DEF OctalAt
  <2>13. \A j \in 1..3 : data[i + j] \in Zero..Zero + 7
    <3>1. \A j \in 1..3 : j = 1 \/ j = 2 \/ j = 3 OBVIOUS
    <3> QED BY <2>2, <2>11, <3>1
  <2>14. ~(b > MaxByteValue) /\ ~(i + 3 > Len(data)) BY <2>11 DEF MaxByteValue
  <2>15. DecodeOctalEscape(data, i) = Ok(i + 4, b) BY <2>11, <2>12, <2>13, <2>14 DEF DecodeOctalEscape
  <2> QED BY <2>4, <2>11, <2>15 DEF NextByte
<1>2. CASE ~(b < 32 \/ b = Backslash)
  <2>1. EscapedByte(b) = <<b>> BY <1>2 DEF EscapedByte
  <2>2. Len(EscapedByte(b)) = 1 /\ EscapedByte(b)[1] = b BY <2>1
  <2>3. (i - 1) + 1 \in 1..Len(data) /\ data[(i - 1) + 1] = b
    <3>1. 1 \in 1..Len(EscapedByte(b)) BY <2>2
    <3> QED BY <2>2, <3>1 DEF At
  <2>4. i \in 1..Len(data) /\ data[i] = b
    <3>1. (i - 1) + 1 = i OBVIOUS
    <3> QED BY <2>3, <3>1
  <2> QED BY <1>2, <2>2, <2>4 DEF NextByte
<1> QED BY <1>1, <1>2

LEMMA EscapesDecoded ==
    ASSUME NEW data \in Seq(0..255), NEW e, Len(e) \in Nat, NEW u,
           Concatenates(u, Len(data), EscapedBytes(data), Nat), e = u[Len(data)],
           NEW f, \A i \in 1..Len(e) + 1 : f[i] = FromByte(e, i, f)
    PROVE  f[1] = Ok(Len(e) + 1, data)
<1> DEFINE n == Len(data) part == EscapedBytes(data) m == Len(e)
<1>1. n \in Nat /\ \A k \in 1..n : data[k] \in 0..255 BY LenProperties, ElementOfSeq
<1>2. \A k \in 1..n : part[k] = EscapedByte(data[k]) BY DEF EscapedBytes
<1>3. PartsIn(part, n, Nat)
  <2>1. part = [k \in 1..n |-> EscapedByte(data[k])] BY DEF EscapedBytes
  <2>2. \A k \in 1..n : EscapedByte(data[k]) \in Seq(Nat) BY <1>1, EscapedIsBytes
  <2> QED BY <2>1, <2>2 DEF PartsIn
<1> HIDE DEF n, part, m
<1>4. e \in Seq(Nat) BY <1>1 DEF Concatenates, n, part
<1>5. u[0] = <<>> /\ Len(u[0]) = 0 BY DEF Concatenates
<1> DEFINE S == {j \in Nat : j <= n => f[Len(u[n - j]) + 1] = Ok(m + 1, SubSeq(data, n - j + 1, n))}
<1>6. \A k \in 0..n : Len(u[k]) \in Nat /\ Len(u[k]) <= m
  <2> SUFFICES ASSUME NEW k \in 0..n PROVE Len(u[k]) \in Nat /\ Len(u[k]) <= m OBVIOUS
  <2>1. u[k] \in Seq(Nat) /\ Len(u[k]) <= Len(u[n]) BY DEF Concatenates, n, part
  <2> QED BY <2>1, LenProperties DEF m, n
<1>7. 0 \in S
  <2>1. n - 0 = n /\ Len(u[n]) = m BY <1>1 DEF m, n
  <2>2. m \in Nat BY DEF m
  <2>3. m + 1 > m /\ m + 1 \in 1..m + 1 BY <2>2
  <2>4. f[m + 1] = Ok(m + 1, <<>>) BY <2>3 DEF FromByte, m
  <2>5. SubSeq(data, n - 0 + 1, n) = <<>>
    <3>1. n - 0 + 1 = n + 1 /\ n + 1 \in Int /\ n \in Int /\ n < n + 1 BY <1>1
    <3> QED BY <3>1, SubSeqEmpty
  <2> QED BY <2>1, <2>4, <2>5
<1>8. ASSUME NEW j \in Nat \ {0}, j - 1 \in S PROVE j \in S
  <2> SUFFICES ASSUME j <= n PROVE f[Len(u[n - j]) + 1] = Ok(m + 1, SubSeq(data, n - j + 1, n)) OBVIOUS
  <2> DEFINE k == n - j + 1 i == Len(u[n - j]) + 1
  <2>1. k \in 1..n /\ k - 1 = n - j /\ n - (j - 1) = k /\ n - (j - 1) + 1 = k + 1 /\ k \in 0..n /\ k - 1 \in 0..n
    BY <1>1
  <2>2. f[Len(u[k]) + 1] = Ok(m + 1, SubSeq(data, k + 1, n)) BY <1>1, <1>8, <2>1
  <2> HIDE DEF k
  <2>3. At(e, 0 + Len(u[k - 1]), part[k])
    <3>1. At(e, 0, u[n]) BY <1>4, AtSelf DEF n
    <3> QED BY <1>1, <1>3, <2>1, <3>1, AtPart DEF n, part
  <2>4. i \in Nat \ {0} /\ i - 1 = 0 + Len(u[k - 1])
    <3>1. i = Len(u[k - 1]) + 1 /\ Len(u[k - 1]) \in Nat BY <1>6, <2>1
    <3> HIDE DEF i
    <3> QED BY <3>1
  <2>5. i <= m /\ NextByte(e, i) = Ok(i + Len(EscapedByte(data[k])), data[k])
    <3>1. At(e, i - 1, EscapedByte(data[k])) BY <1>2, <2>1, <2>3, <2>4
    <3>2. data[k] \in 0..255 /\ m \in Nat BY <1>1, <2>1 DEF m
    <3>3. i \in Nat \ {0} BY <2>4
    <3> HIDE DEF i
    <3> QED BY <3>1, <3>2, <3>3, EscapeRead DEF m
  <2>6. i + Len(EscapedByte(data[k])) = Len(u[k]) + 1
    <3>1. Len(u[k]) = Len(u[k - 1]) + Len(part[k]) BY <2>1 DEF Concatenates, n, part
    <3>2. Len(u[k - 1]) \in Nat /\ Len(u[k]) \in Nat BY <1>6, <2>1
    <3>3. Len(part[k]) \in Int BY <1>1, <1>2, <2>1, EscapedIsBytes
    <3>4. i = Len(u[k - 1]) + 1 BY <2>1
    <3>5. part[k] = EscapedByte(data[k]) BY <1>2, <2>1
    <3> DEFINE a == Len(u[k - 1]) b == Len(part[k]) c == Len(u[k])
    <3>6. a \in Nat /\ b \in Int /\ c = a + b /\ i = a + 1 BY <3>1, <3>2, <3>3, <3>4
    <3> HIDE DEF a, b, c, i
    <3>7. i + b = c + 1 BY <3>6
    <3> QED BY <3>5, <3>7 DEF b, c
  <2>7. f[i] = AfterByte(data[k], f[Len(u[k]) + 1])
    <3>1. i \in 1..m + 1 /\ ~(i > m)
      <4>1. m \in Nat BY DEF m
      <4> HIDE DEF i
      <4> QED BY <2>4, <2>5, <4>1
    <3>2. f[i] = FromByte(e, i, f) BY <3>1 DEF m
    <3>3. NextByte(e, i).st = "ok" /\ NextByte(e, i).at = Len(u[k]) + 1 /\ NextByte(e, i).val = data[k]
      <4>1. NextByte(e, i) = Ok(Len(u[k]) + 1, data[k]) BY <2>5, <2>6
      <4> HIDE DEF i
      <4> QED BY <4>1 DEF Ok
    <3> HIDE DEF i
    <3> QED BY <3>1, <3>2, <3>3 DEF FromByte, m
  <2>8. f[i] = Ok(m + 1, <<data[k]>> \o SubSeq(data, k + 1, n)) BY <2>2, <2>7 DEF AfterByte, Ok
  <2>9. SubSeq(data, k, n) = <<data[k]>> \o SubSeq(data, k + 1, n)
    <3>1. n \in k..Len(data) BY <1>1, <2>1 DEF n
    <3> QED BY <2>1, <3>1, SubSeqRecursiveFirst DEF n
  <2> QED BY <2>8, <2>9 DEF k
<1>9. Nat \subseteq S
  <2> HIDE DEF S
  <2> QED BY <1>7, <1>8, UpToAll
<1>10. f[Len(u[n - n]) + 1] = Ok(m + 1, SubSeq(data, n - n + 1, n)) BY <1>1, <1>9
<1>11. n - n = 0 /\ n - n + 1 = 1 /\ 0 + 1 = 1 BY <1>1
<1>12. SubSeq(data, 1, n) = data BY SubSeqFull DEF n
<1> QED BY <1>5, <1>10, <1>11, <1>12 DEF m

LEMMA EscapesShort ==
    ASSUME NEW data \in Seq(0..255), NEW u, Concatenates(u, Len(data), EscapedBytes(data), Nat)
    PROVE  Len(u[Len(data)]) <= 4 * Len(data)
<1> DEFINE n == Len(data) part == EscapedBytes(data) S == {k \in Nat : k <= n => Len(u[k]) <= 4 * k}
<1>1. n \in Nat /\ \A k \in 1..n : data[k] \in 0..255 BY LenProperties, ElementOfSeq
<1>2. 0 \in S BY DEF Concatenates
<1>3. ASSUME NEW k \in Nat \ {0}, k - 1 \in S PROVE k \in S
  <2> SUFFICES ASSUME k <= n PROVE Len(u[k]) <= 4 * k OBVIOUS
  <2>1. Len(u[k - 1]) <= 4 * (k - 1) BY <1>1, <1>3
  <2>2. k \in 1..n /\ k - 1 \in 0..n BY <1>1
  <2>3. Len(u[k]) = Len(u[k - 1]) + Len(part[k]) BY <2>2 DEF Concatenates
  <2>4. part[k] = EscapedByte(data[k]) BY <2>2 DEF EscapedBytes
  <2>5. Len(part[k]) \in 1..4 BY <1>1, <2>2, <2>4, EscapedIsBytes
  <2>6. Len(u[k - 1]) \in Nat
    <3>1. u[k - 1] \in Seq(Nat) BY <2>2 DEF Concatenates
    <3> QED BY <3>1, LenProperties
  <2> DEFINE a == Len(u[k - 1]) b == Len(part[k]) c == Len(u[k])
  <2>7. a \in Nat /\ b \in 1..4 /\ c = a + b /\ a <= 4 * (k - 1) BY <2>1, <2>3, <2>5, <2>6
  <2> HIDE DEF a, b, c
  <2>8. c <= 4 * k BY <2>7
  <2> QED BY <2>8 DEF c
<1>4. Nat \subseteq S
  <2> HIDE DEF S
  <2> QED BY <1>2, <1>3, UpToAll
<1> QED BY <1>1, <1>4

\* DecodeOctal: output comes out of its escapes as the program wrote it, whatever it wrote, up to the
\* limit and not beyond it.
THEOREM OutputReturns == ASSUME NEW data \in Seq(0..255), NEW max \in Nat PROVE OutputReadBack(data, max)
<1> DEFINE n == Len(data) e == Escape(data)
<1>1. n \in Nat BY LenProperties
<1>2. PICK u : Prefixes(u, n, EscapedBytes(data)) /\ e = u[n] BY <1>1, EscapeParts
<1>3. PartsIn(EscapedBytes(data), n, Nat)
  <2>1. \A k \in 1..n : EscapedByte(data[k]) \in Seq(Nat) BY ElementOfSeq, EscapedIsBytes
  <2> QED BY <2>1 DEF PartsIn, EscapedBytes
<1>4. Concatenates(u, n, EscapedBytes(data), Nat) BY <1>1, <1>2, <1>3, Concatenation
<1> HIDE DEF e
<1>5. Len(e) \in Nat /\ Len(e) <= 4 * n
  <2>1. e \in Seq(Nat) BY <1>1, <1>2, <1>4 DEF Concatenates
  <2> QED BY <1>2, <1>4, <2>1, EscapesShort, LenProperties
<1>6. PICK f : /\ \A i \in 1..Len(e) + 1 : f[i] = FromByte(e, i, f)
               /\ DecodeOctal(e, max) =
                     IF Len(e) > 4 * max THEN Bad(1)
                     ELSE IF f[1].st = "ok"
                          THEN IF Len(f[1].val) > max THEN Bad(1) ELSE Ok(f[1].at, f[1].val)
                          ELSE f[1]
  <2>1. Len(e) \in Nat BY <1>5
  <2> QED BY <2>1, Decoded
<1>7. f[1] = Ok(Len(e) + 1, data) BY <1>2, <1>4, <1>5, <1>6, EscapesDecoded
<1>8. f[1].st = "ok" /\ f[1].val = data /\ f[1].at = Len(e) + 1 BY <1>7 DEF Ok
<1>9. DecodeOctal(e, max) = IF n <= max THEN Ok(Len(e) + 1, data) ELSE Bad(1)
  <2> DEFINE m == Len(e)
  <2>1. m \in Nat /\ m <= 4 * n BY <1>5
  <2> HIDE DEF m, n
  <2>2. DecodeOctal(e, max) = IF m > 4 * max THEN Bad(1) ELSE IF n > max THEN Bad(1) ELSE Ok(m + 1, data)
    BY <1>6, <1>8 DEF m, n
  <2>3. n <= max => ~(m > 4 * max) /\ ~(n > max) BY <1>1, <2>1
  <2>4. ~(n <= max) => n > max BY <1>1
  <2> QED BY <2>2, <2>3, <2>4 DEF m
<1> QED BY <1>9 DEF OutputReadBack, e

LEMMA LeastIs ==
    ASSUME NEW S \in SUBSET Int, NEW m \in S, \A k \in S : m <= k PROVE Min(S) = m
<1>1. \E x \in S : \A y \in S : x <= y OBVIOUS
<1> DEFINE x == Min(S)
<1>2. x \in S /\ \A y \in S : x <= y BY <1>1 DEF Min
<1> HIDE DEF x
<1>3. x <= m /\ m <= x /\ x \in Int /\ m \in Int BY <1>2
<1> QED BY <1>3 DEF x

LEMMA LeastOfTwo == ASSUME NEW a \in Int, NEW b \in Int PROVE Min({a, b}) = IF a <= b THEN a ELSE b
<1> DEFINE S == {a, b}
<1>1. CASE a <= b
  <2>1. S \in SUBSET Int /\ a \in S /\ \A k \in S : a <= k BY <1>1
  <2> HIDE DEF S
  <2>2. Min(S) = a BY <2>1, LeastIs
  <2> QED BY <1>1, <2>2 DEF S
<1>2. CASE ~(a <= b)
  <2>1. S \in SUBSET Int /\ b \in S /\ \A k \in S : b <= k BY <1>2
  <2> HIDE DEF S
  <2>2. Min(S) = b BY <2>1, LeastIs
  <2> QED BY <1>2, <2>2 DEF S
<1> QED BY <1>1, <1>2

-----------------------------------------------------------------------------
(* Numerals, as they are written and as they are read.                      *)
Digit(k, f) == IF k < 10 THEN <<Zero + k>> ELSE Append(f[k \div 10], Zero + (k % 10))
Writes(f, n) == f = [k \in 0..n |-> Digit(k, f)]

LEMMA OneDigit == ASSUME NEW k, k < 10, NEW f PROVE Digit(k, f) = <<Zero + k>>
  BY DEF Digit

LEMMA TenthLess == ASSUME NEW k \in Nat PROVE k \div 10 \in Nat /\ (k >= 10 => k \div 10 \in 1..k - 1) /\ k % 10 \in 0..9
      /\ k = 10 * (k \div 10) + (k % 10)
  OBVIOUS

LEMMA WritingExists == ASSUME NEW n \in Nat PROVE \E f : Writes(f, n)
<1> DEFINE S == {m \in Nat : \E f : Writes(f, m)}
<1>1. 0 \in S
  <2>1. Writes([k \in 0..0 |-> <<Zero + k>>], 0)
    <3>1. \A k \in 0..0 : k < 10 OBVIOUS
    <3> QED BY <3>1 DEF Writes, Digit
  <2> QED BY <2>1
<1>2. ASSUME NEW m \in Nat \ {0}, m - 1 \in S PROVE m \in S
  <2>1. PICK f : Writes(f, m - 1) BY <1>2
  <2> DEFINE g == [k \in 0..m |-> Digit(k, f)]
  <2>2. \A k \in 0..m - 1 : f[k] = Digit(k, f) BY <2>1 DEF Writes
  <2>3. \A k \in 0..m - 1 : g[k] = f[k]
    <3>1. \A k \in 0..m - 1 : k \in 0..m OBVIOUS
    <3> QED BY <2>2, <3>1
  <2> HIDE DEF g
  <2>4. \A k \in 0..m : Digit(k, g) = Digit(k, f)
    <3> SUFFICES ASSUME NEW k \in 0..m PROVE Digit(k, g) = Digit(k, f) OBVIOUS
    <3>1. CASE k < 10 BY <3>1 DEF Digit
    <3>2. CASE ~(k < 10)
      <4>1. k \div 10 \in 0..m - 1
        <5>1. k \div 10 \in 1..k - 1 BY <3>2, TenthLess
        <5> DEFINE q == k \div 10
        <5>2. q \in 1..k - 1 BY <5>1
        <5> HIDE DEF q
        <5>3. q \in 0..m - 1 BY <5>2
        <5> QED BY <5>3 DEF q
      <4> QED BY <2>3, <3>2, <4>1 DEF Digit
    <3> QED BY <3>1, <3>2
  <2>5. g = [k \in 0..m |-> Digit(k, g)] BY <2>4 DEF g
  <2> QED BY <2>5 DEF Writes
<1>3. Nat \subseteq S
  <2> HIDE DEF S
  <2> QED BY <1>1, <1>2, UpToAll
<1> QED BY <1>3

LEMMA WritingsAgree ==
    ASSUME NEW n \in Nat, NEW m \in Nat, NEW f, Writes(f, n), NEW g, Writes(g, m), NEW k \in 0..n, k <= m
    PROVE  f[k] = g[k]
<1> DEFINE S == {j \in Nat : \A i \in 0..j : i <= n /\ i <= m => f[i] = g[i]}
<1>0. (\A i \in 0..n : f[i] = Digit(i, f)) /\ \A i \in 0..m : g[i] = Digit(i, g) BY DEF Writes
<1>1. 0 \in S
  <2>1. \A i \in 0..0 : i = 0 OBVIOUS
  <2>2. 0 \in 0..n /\ 0 \in 0..m /\ 0 < 10 OBVIOUS
  <2>3. f[0] = <<Zero + 0>> /\ g[0] = <<Zero + 0>> BY <1>0, <2>2, OneDigit
  <2> QED BY <2>1, <2>3
<1>2. ASSUME NEW j \in Nat \ {0}, j - 1 \in S PROVE j \in S
  <2> SUFFICES ASSUME NEW i \in 0..j, i <= n, i <= m PROVE f[i] = g[i] OBVIOUS
  <2>1. i \in 0..n /\ i \in 0..m OBVIOUS
  <2>2. CASE i < 10
    <3>1. f[i] = <<Zero + i>> /\ g[i] = <<Zero + i>> BY <1>0, <2>1, <2>2, OneDigit
    <3> QED BY <3>1
  <2>3. CASE ~(i < 10)
    <3> DEFINE q == i \div 10
    <3>1. q \in 1..i - 1 BY <2>3, TenthLess
    <3>2. f[i] = Append(f[q], Zero + (i % 10)) /\ g[i] = Append(g[q], Zero + (i % 10))
      BY <1>0, <2>1, <2>3 DEF Digit
    <3> HIDE DEF q
    <3>3. q \in 0..j - 1 /\ q <= n /\ q <= m BY <3>1
    <3>4. f[q] = g[q] BY <1>2, <3>3
    <3> QED BY <3>2, <3>4
  <2> QED BY <2>2, <2>3
<1>3. Nat \subseteq S
  <2> HIDE DEF S
  <2> QED BY <1>1, <1>2, UpToAll
<1>4. k \in S BY <1>3
<1> QED BY <1>4

LEMMA NumeralIs ==
    ASSUME NEW n \in Nat
    PROVE  Numeral(n) = IF n < 10 THEN <<Zero + n>> ELSE Append(Numeral(n \div 10), Zero + (n % 10))
<1> DEFINE v(m) == CHOOSE f : Writes(f, m)
<1>1. \A m \in Nat : Writes(v(m), m) BY WritingExists
<1>2. \A m : Numeral(m) = v(m)[m] BY DEF Numeral, Writes, Digit
<1> DEFINE q == n \div 10
<1>3. v(n)[n] = Digit(n, v(n))
  <2>1. Writes(v(n), n) BY <1>1
  <2> HIDE DEF v
  <2> QED BY <2>1 DEF Writes
<1>4. CASE n < 10 BY <1>2, <1>3, <1>4 DEF Digit
<1>5. CASE ~(n < 10)
  <2>1. q \in Nat /\ q \in 1..n - 1 BY <1>5, TenthLess
  <2>2. Writes(v(n), n) /\ Writes(v(q), q)
    <3> HIDE DEF q, v
    <3> QED BY <1>1, <2>1
  <2>3. v(n)[q] = v(q)[q]
    <3> HIDE DEF q, v
    <3>1. q \in 0..n /\ q <= q BY <2>1
    <3> QED BY <2>1, <2>2, <3>1, WritingsAgree
  <2>4. v(n)[n] = Append(v(n)[q], Zero + (n % 10))
    <3> HIDE DEF v
    <3> QED BY <1>3, <1>5 DEF Digit
  <2> HIDE DEF v
  <2> QED BY <1>2, <1>5, <2>3, <2>4
<1> QED BY <1>4, <1>5

\* Every naturals below are those whose tenths are, too.
LEMMA TenthsUpToAll ==
    ASSUME NEW S, \A n \in Nat : (n >= 10 => n \div 10 \in S) => n \in S
    PROVE  Nat \subseteq S
<1> DEFINE T == {n \in Nat : \A i \in 0..n : i \in S}
<1>1. 0 \in T
  <2>1. \A i \in 0..0 : i \in Nat /\ ~(i >= 10) OBVIOUS
  <2> QED BY <2>1
<1>2. ASSUME NEW m \in Nat \ {0}, m - 1 \in T PROVE m \in T
  <2> SUFFICES ASSUME NEW i \in 0..m PROVE i \in S OBVIOUS
  <2>1. i >= 10 => i \div 10 \in S
    <3> HAVE i >= 10
    <3> DEFINE q == i \div 10
    <3>1. q \in 1..i - 1 BY TenthLess
    <3> HIDE DEF q
    <3>2. q \in 0..m - 1 BY <3>1
    <3>3. q \in S BY <1>2, <3>2
    <3> QED BY <3>3 DEF q
  <2>2. i \in Nat OBVIOUS
  <2> QED BY <2>1, <2>2
<1>3. Nat \subseteq T
  <2> HIDE DEF T
  <2> QED BY <1>1, <1>2, UpToAll
<1>4. \A n \in Nat : n \in 0..n OBVIOUS
<1> QED BY <1>3, <1>4

LEMMA NumeralTyped == \A n \in Nat : Numeral(n) \in Seq(Digits) /\ Len(Numeral(n)) \in Nat \ {0}
<1> DEFINE S == {n \in Nat : Numeral(n) \in Seq(Digits) /\ Len(Numeral(n)) \in Nat \ {0}}
<1>1. ASSUME NEW n \in Nat, n >= 10 => n \div 10 \in S PROVE n \in S
  <2>1. CASE n < 10
    <3>1. Numeral(n) = <<Zero + n>> BY <2>1, NumeralIs
    <3>2. Zero + n \in Digits BY <2>1 DEF Zero, Digits
    <3>3. <<Zero + n>> \in Seq(Digits) /\ Len(<<Zero + n>>) = 1 BY <3>2
    <3>4. Numeral(n) \in Seq(Digits) /\ Len(Numeral(n)) = 1 BY <3>1, <3>3
    <3> QED BY <3>4
  <2>2. CASE ~(n < 10)
    <3> DEFINE q == n \div 10 d == Zero + (n % 10)
    <3>1. Numeral(n) = Append(Numeral(q), d) BY <2>2, NumeralIs
    <3>2. q \in S BY <1>1, <2>2
    <3>3. d \in Digits
      <4> DEFINE r == n % 10
      <4>1. r \in 0..9 OBVIOUS
      <4> HIDE DEF r
      <4>2. Zero + r \in Digits BY <4>1 DEF Zero, Digits
      <4> QED BY <4>2 DEF r
    <3> HIDE DEF q, d
    <3>4. Append(Numeral(q), d) \in Seq(Digits) /\ Len(Append(Numeral(q), d)) = Len(Numeral(q)) + 1
          /\ Len(Numeral(q)) \in Nat
      <4>1. Numeral(q) \in Seq(Digits) BY <3>2
      <4> QED BY <3>3, <4>1
    <3> QED BY <3>1, <3>4
  <2> QED BY <2>1, <2>2
<1>2. Nat \subseteq S
  <2> HIDE DEF S
  <2> QED BY <1>1, TenthsUpToAll
<1> QED BY <1>2

LEMMA NumeralStart == \A n \in Nat : Len(Numeral(n)) > 1 => Numeral(n)[1] # Zero
<1> DEFINE S == {n \in Nat : n > 0 => Numeral(n)[1] # Zero}
<1>1. ASSUME NEW n \in Nat, n >= 10 => n \div 10 \in S PROVE n \in S
  <2> SUFFICES ASSUME n > 0 PROVE Numeral(n)[1] # Zero OBVIOUS
  <2>1. CASE n < 10
    <3>1. Numeral(n) = <<Zero + n>> BY <2>1, NumeralIs
    <3>2. Numeral(n)[1] = Zero + n BY <3>1
    <3> QED BY <3>2 DEF Zero
  <2>2. CASE ~(n < 10)
    <3> DEFINE q == n \div 10 d == Zero + (n % 10)
    <3>1. Numeral(n) = Append(Numeral(q), d) BY <2>2, NumeralIs
    <3>2. q \in S /\ q \in 1..n - 1 BY <1>1, <2>2, TenthLess
    <3> HIDE DEF q, d
    <3>3. Numeral(q)[1] # Zero BY <3>2
    <3>4. Numeral(q) \in Seq(Digits) /\ Len(Numeral(q)) \in Nat \ {0} BY <3>2, NumeralTyped
    <3>5. Append(Numeral(q), d)[1] = Numeral(q)[1] BY <3>4
    <3> QED BY <3>1, <3>3, <3>5
  <2> QED BY <2>1, <2>2
<1>2. Nat \subseteq S
  <2> HIDE DEF S
  <2> QED BY <1>1, TenthsUpToAll
<1>3. Len(Numeral(0)) = 1
  <2>1. Numeral(0) = <<Zero + 0>> BY NumeralIs
  <2> QED BY <2>1
<1>4. \A n \in Nat : n = 0 \/ n > 0 OBVIOUS
<1>5. ASSUME NEW n \in Nat, Len(Numeral(n)) > 1, n = 0 PROVE FALSE
  <2> DEFINE l == Len(Numeral(n))
  <2>1. l > 1 /\ l = 1 BY <1>3, <1>5
  <2> HIDE DEF l
  <2> QED BY <2>1
<1> QED BY <1>2, <1>4, <1>5

ShortBelow(m, c) == \A n \in Nat : n < m => Len(Numeral(n)) <= c

LEMMA LongerNumeral ==
    ASSUME NEW m \in Nat, NEW c \in Nat \ {0}, ShortBelow(m, c), NEW k \in Nat, k = 10 * m
    PROVE  ShortBelow(k, c + 1)
<1> SUFFICES ASSUME NEW n \in Nat, n < k PROVE Len(Numeral(n)) <= c + 1 BY DEF ShortBelow
<1>1. CASE n < 10
  <2>1. Numeral(n) = <<Zero + n>> BY <1>1, NumeralIs
  <2>2. Len(Numeral(n)) = 1 BY <2>1
  <2> QED BY <2>2
<1>2. CASE ~(n < 10)
  <2> DEFINE q == n \div 10 d == Zero + (n % 10)
  <2>1. Numeral(n) = Append(Numeral(q), d) BY <1>2, NumeralIs
  <2>2. q \in Nat /\ q < m
    <3>2. q \in Nat /\ n % 10 \in 0..9 /\ n = 10 * q + (n % 10) BY TenthLess
    <3> HIDE DEF q
    <3> DEFINE r == n % 10
    <3>3. r \in 0..9 /\ n = 10 * q + r BY <3>2
    <3> HIDE DEF r
    <3> QED BY <3>2, <3>3
  <2> HIDE DEF q, d
  <2>3. Numeral(q) \in Seq(Digits) /\ Len(Numeral(q)) \in Nat /\ Len(Numeral(q)) <= c
    BY <2>2, NumeralTyped DEF ShortBelow
  <2>4. Len(Append(Numeral(q), d)) = Len(Numeral(q)) + 1 BY <2>3
  <2> QED BY <2>1, <2>3, <2>4
<1> QED BY <1>1, <1>2

LEMMA NumeralShort == \A n \in Nat : n <= MaxNumber => Len(Numeral(n)) <= 6
<1>1. ShortBelow(10, 1)
  <2> SUFFICES ASSUME NEW n \in Nat, n < 10 PROVE Len(Numeral(n)) <= 1 BY DEF ShortBelow
  <2>1. Numeral(n) = <<Zero + n>> BY NumeralIs
  <2>2. Len(Numeral(n)) = 1 BY <2>1
  <2> QED BY <2>2
<1> DEFINE a == 10 * 10 b == 10 * a c == 10 * b d == 10 * c e == 10 * d
<1>2. a \in Nat /\ b \in Nat /\ c \in Nat /\ d \in Nat /\ e \in Nat BY SMT
<1>3. \A n \in Nat : n <= MaxNumber => n < e BY SMT DEF MaxNumber
<1>4. a = 10 * 10 /\ b = 10 * a /\ c = 10 * b /\ d = 10 * c /\ e = 10 * d OBVIOUS
<1>5. 1 + 1 = 2 /\ 2 + 1 = 3 /\ 3 + 1 = 4 /\ 4 + 1 = 5 /\ 5 + 1 = 6 OBVIOUS
<1>6. {1, 2, 3, 4, 5} \subseteq Nat \ {0} /\ 10 \in Nat OBVIOUS
<1> HIDE DEF a, b, c, d, e
<1>7. ShortBelow(a, 1 + 1) BY <1>1, <1>2, <1>4, <1>6, LongerNumeral
<1>8. ShortBelow(b, 2 + 1) BY <1>2, <1>4, <1>5, <1>6, <1>7, LongerNumeral
<1>9. ShortBelow(c, 3 + 1) BY <1>2, <1>4, <1>5, <1>6, <1>8, LongerNumeral
<1>10. ShortBelow(d, 4 + 1) BY <1>2, <1>4, <1>5, <1>6, <1>9, LongerNumeral
<1>11. ShortBelow(e, 5 + 1) BY <1>2, <1>4, <1>5, <1>6, <1>10, LongerNumeral
<1> QED BY <1>3, <1>5, <1>11 DEF ShortBelow

Saturated(n) == IF MaxNumber <= n THEN MaxNumber ELSE n
Accumulates(f, digits) ==
    f = [i \in 0..Len(digits) |->
            IF i = 0 THEN 0 ELSE Min({MaxNumber, 10 * f[i - 1] + (digits[i] - Zero)})]

LEMMA MaxIsNat == MaxNumber \in Nat
  BY SMT DEF MaxNumber

LEMMA AccumulationExists == ASSUME NEW digits, Len(digits) \in Nat PROVE \E f : Accumulates(f, digits)
<1> DEFINE Step(i, f) == IF i = 0 THEN 0 ELSE Min({MaxNumber, 10 * f[i - 1] + (digits[i] - Zero)})
           S == {m \in Nat : \E f : f = [i \in 0..m |-> Step(i, f)]}
<1>1. 0 \in S
  <2>1. [i \in 0..0 |-> 0] = [i \in 0..0 |-> Step(i, [j \in 0..0 |-> 0])] OBVIOUS
  <2> HIDE DEF Step
  <2> QED BY <2>1
<1>2. ASSUME NEW m \in Nat \ {0}, m - 1 \in S PROVE m \in S
  <2>1. PICK f : f = [i \in 0..m - 1 |-> Step(i, f)] BY <1>2
  <2> DEFINE g == [i \in 0..m |-> Step(i, f)]
  <2>2. \A i \in 0..m - 1 : g[i] = f[i]
    <3> HIDE DEF Step
    <3>1. \A i \in 0..m - 1 : i \in 0..m OBVIOUS
    <3>2. \A i \in 0..m - 1 : f[i] = Step(i, f) BY <2>1
    <3>3. \A i \in 0..m : g[i] = Step(i, f) OBVIOUS
    <3> HIDE DEF g
    <3> QED BY <3>1, <3>2, <3>3
  <2>3. \A i \in 0..m : Step(i, g) = Step(i, f)
    <3> SUFFICES ASSUME NEW i \in 0..m PROVE Step(i, g) = Step(i, f) OBVIOUS
    <3> HIDE DEF g
    <3>1. i # 0 => i - 1 \in 0..m - 1 OBVIOUS
    <3> QED BY <2>2, <3>1
  <2>4. g = [i \in 0..m |-> Step(i, g)]
    <3> HIDE DEF Step
    <3> QED BY <2>3
  <2> HIDE DEF g, Step
  <2> QED BY <2>4
<1>3. Nat \subseteq S
  <2> HIDE DEF S
  <2> QED BY <1>1, <1>2, UpToAll
<1>4. \E f : f = [i \in 0..Len(digits) |-> Step(i, f)]
  <2> HIDE DEF Step
  <2> QED BY <1>3
<1> QED BY <1>4 DEF Accumulates

LEMMA NumberAccumulated ==
    ASSUME NEW digits \in Seq(Digits)
    PROVE  \E f : /\ Number(digits) = f[Len(digits)] /\ f[0] = 0
                  /\ \A i \in 0..Len(digits) : f[i] \in 0..MaxNumber
                  /\ \A i \in 1..Len(digits) : f[i] = Saturated(10 * f[i - 1] + (digits[i] - Zero))
<1> DEFINE n == Len(digits) f == CHOOSE f : Accumulates(f, digits)
<1>0. n \in Nat BY LenProperties
<1>1. Accumulates(f, digits) BY <1>0, AccumulationExists
<1>2. Number(digits) = f[n] BY DEF Number, Accumulates
<1> HIDE DEF f
<1>3. f[0] = 0 BY <1>0, <1>1 DEF Accumulates
<1>4. \A i \in 1..n : f[i] = Min({MaxNumber, 10 * f[i - 1] + (digits[i] - Zero)})
  <2>1. \A i \in 1..n : i \in 0..n /\ i # 0 OBVIOUS
  <2> QED BY <1>1, <2>1 DEF Accumulates
<1>5. \A i \in 1..n : digits[i] - Zero \in 0..9
  <2> SUFFICES ASSUME NEW i \in 1..n PROVE digits[i] - Zero \in 0..9 OBVIOUS
  <2>1. digits[i] \in Digits BY ElementOfSeq
  <2> QED BY <2>1 DEF Digits, Zero
<1> HIDE DEF n
<1> DEFINE S == {i \in Nat : i <= n => f[i] \in 0..MaxNumber}
<1>6. \A i \in 1..n : f[i - 1] \in 0..MaxNumber =>
          f[i] = Saturated(10 * f[i - 1] + (digits[i] - Zero)) /\ f[i] \in 0..MaxNumber
  <2> SUFFICES ASSUME NEW i \in 1..n, f[i - 1] \in 0..MaxNumber
               PROVE  /\ f[i] = Saturated(10 * f[i - 1] + (digits[i] - Zero))
                      /\ f[i] \in 0..MaxNumber
      OBVIOUS
  <2> DEFINE d == digits[i] - Zero a == 10 * f[i - 1] + d
  <2>1. d \in 0..9 BY <1>5
  <2> HIDE DEF d
  <2>2. MaxNumber \in Nat BY MaxIsNat
  <2>3. a \in Nat BY <2>1, <2>2
  <2>4. f[i] = Min({MaxNumber, a}) BY <1>4 DEF d
  <2> HIDE DEF a
  <2>5. f[i] = Saturated(a) BY <2>2, <2>3, <2>4, LeastOfTwo DEF Saturated
  <2>6. Saturated(a) \in 0..MaxNumber BY <2>2, <2>3 DEF Saturated
  <2> QED BY <2>5, <2>6 DEF a, d
<1>7. 0 \in S
  <2>1. MaxNumber \in Nat BY MaxIsNat
  <2> QED BY <1>3, <2>1
<1>8. ASSUME NEW m \in Nat \ {0}, m - 1 \in S PROVE m \in S
  <2> SUFFICES ASSUME m <= n PROVE f[m] \in 0..MaxNumber OBVIOUS
  <2>1. m \in 1..n /\ m - 1 <= n BY <1>0 DEF n
  <2> QED BY <1>6, <1>8, <2>1
<1>9. Nat \subseteq S
  <2> HIDE DEF S
  <2> QED BY <1>7, <1>8, UpToAll
<1>10. \A i \in 0..n : f[i] \in 0..MaxNumber BY <1>9
<1>11. \A i \in 1..n : i - 1 \in 0..n BY <1>0 DEF n
<1> QED BY <1>2, <1>3, <1>6, <1>10, <1>11 DEF n

LEMMA NumberTyped == ASSUME NEW digits \in Seq(Digits) PROVE Number(digits) \in 0..MaxNumber
<1>1. Len(digits) \in 0..Len(digits) BY LenProperties
<1> QED BY <1>1, NumberAccumulated

LEMMA NumberOfNothing == Number(<<>>) = 0
<1>1. <<>> \in Seq(Digits) /\ Len(<<>>) = 0 OBVIOUS
<1> DEFINE e == <<>>
<1>2. e \in Seq(Digits) /\ Len(e) = 0 BY <1>1
<1> HIDE DEF e
<1>3. Number(e) = 0 BY <1>2, NumberAccumulated
<1> QED BY <1>3 DEF e

\* One digit more.
LEMMA NumberGoesOn ==
    ASSUME NEW digits \in Seq(Digits), NEW d \in Digits
    PROVE  Number(Append(digits, d)) = Saturated(10 * Number(digits) + (d - Zero))
<1> DEFINE n == Len(digits) more == Append(digits, d)
<1>1. n \in Nat /\ more \in Seq(Digits) /\ Len(more) = n + 1 /\ more[n + 1] = d
      /\ \A i \in 1..n : more[i] = digits[i]
  BY LenProperties
<1> HIDE DEF more
<1>2. PICK f : /\ Number(digits) = f[n] /\ f[0] = 0
               /\ \A i \in 1..n : f[i] = Saturated(10 * f[i - 1] + (digits[i] - Zero))
  BY NumberAccumulated
<1>3. PICK g : /\ Number(more) = g[n + 1] /\ g[0] = 0
               /\ \A i \in 1..n + 1 : g[i] = Saturated(10 * g[i - 1] + (more[i] - Zero))
  <2> DEFINE N == Len(more)
  <2>1. N = n + 1 /\ more \in Seq(Digits) BY <1>1
  <2>2. \E g : /\ Number(more) = g[N] /\ g[0] = 0
              /\ \A i \in 1..N : g[i] = Saturated(10 * g[i - 1] + (more[i] - Zero))
    BY <2>1, NumberAccumulated
  <2> HIDE DEF N, n
  <2> QED BY <2>1, <2>2
<1> HIDE DEF n
<1> DEFINE S == {i \in Nat : i <= n => f[i] = g[i]}
<1>4. 0 \in S BY <1>2, <1>3
<1>5. ASSUME NEW m \in Nat \ {0}, m - 1 \in S PROVE m \in S
  <2> SUFFICES ASSUME m <= n PROVE f[m] = g[m] OBVIOUS
  <2>1. m \in 1..n /\ m \in 1..n + 1 /\ m - 1 <= n BY <1>1
  <2>2. f[m - 1] = g[m - 1] BY <1>5, <2>1
  <2> QED BY <1>1, <1>2, <1>3, <2>1, <2>2
<1>6. Nat \subseteq S
  <2> HIDE DEF S
  <2> QED BY <1>4, <1>5, UpToAll
<1>7. f[n] = g[n] BY <1>1, <1>6
<1>8. n + 1 \in 1..n + 1 /\ n + 1 - 1 = n BY <1>1
<1> DEFINE N == n + 1
<1>9. g[N] = Saturated(10 * g[N - 1] + (more[N] - Zero))
  <2>1. N \in 1..n + 1 BY <1>8
  <2> HIDE DEF N
  <2> QED BY <1>3, <2>1
<1>10. N = n + 1 /\ N - 1 = n BY <1>1
<1> HIDE DEF N
<1> QED BY <1>1, <1>2, <1>3, <1>7, <1>9, <1>10 DEF more

LEMMA NumeralRead == \A n \in Nat : n <= MaxNumber => Number(Numeral(n)) = n
<1> DEFINE S == {n \in Nat : n <= MaxNumber => Number(Numeral(n)) = n}
<1>1. ASSUME NEW n \in Nat, n >= 10 => n \div 10 \in S PROVE n \in S
  <2> SUFFICES ASSUME n <= MaxNumber PROVE Number(Numeral(n)) = n OBVIOUS
  <2>0. MaxNumber \in Nat BY MaxIsNat
  <2>1. CASE n < 10
    <3>1. Numeral(n) = Append(<<>>, Zero + n)
      <4>1. Numeral(n) = <<Zero + n>> BY <2>1, NumeralIs
      <4> QED BY <4>1
    <3>2. <<>> \in Seq(Digits) OBVIOUS
    <3>3. Zero + n \in Digits BY <2>1 DEF Zero, Digits
    <3>4. Number(Append(<<>>, Zero + n)) = Saturated(10 * Number(<<>>) + ((Zero + n) - Zero))
      BY <3>2, <3>3, NumberGoesOn
    <3>5. 10 * 0 + ((Zero + n) - Zero) = n BY DEF Zero
    <3>6. Saturated(n) = n BY <2>0 DEF Saturated
    <3> QED BY <3>1, <3>4, <3>5, <3>6, NumberOfNothing
  <2>2. CASE ~(n < 10)
    <3> DEFINE q == n \div 10 r == n % 10
    <3>1. Numeral(n) = Append(Numeral(q), Zero + r) BY <2>2, NumeralIs
    <3>2. q \in S BY <1>1, <2>2
    <3>3. q \in 1..n - 1 /\ r \in 0..9 /\ n = 10 * q + r BY <2>2, TenthLess
    <3> HIDE DEF q, r
    <3>4. Numeral(q) \in Seq(Digits) BY <3>3, NumeralTyped
    <3>5. Zero + r \in Digits BY <3>3 DEF Zero, Digits
    <3>6. Number(Append(Numeral(q), Zero + r)) = Saturated(10 * Number(Numeral(q)) + ((Zero + r) - Zero))
      BY <3>4, <3>5, NumberGoesOn
    <3>7. Number(Numeral(q)) = q
      <4>1. q <= MaxNumber BY <2>0, <3>3
      <4> QED BY <3>2, <4>1
    <3>8. 10 * q + ((Zero + r) - Zero) = n BY <3>3 DEF Zero
    <3>9. Saturated(n) = n BY <2>0 DEF Saturated
    <3> QED BY <3>1, <3>6, <3>7, <3>8, <3>9
  <2> QED BY <2>1, <2>2
<1>2. Nat \subseteq S
  <2> HIDE DEF S
  <2> QED BY <1>1, TenthsUpToAll
<1> QED BY <1>2

\* A number without leading zeros is written in one way only.
LEMMA NumberWritten ==
    ASSUME NEW digits \in Seq(Digits), digits # <<>>, Len(digits) > 1 => digits[1] # Zero,
           Number(digits) < MaxNumber
    PROVE  Numeral(Number(digits)) = digits
<1> DEFINE n == Len(digits)
           P(i) == SubSeq(digits, 1, i)
           S == {i \in Nat : 1 <= i /\ i <= n /\ Number(P(i)) < MaxNumber => Numeral(Number(P(i))) = P(i)}
<1>0. n \in Nat \ {0} /\ MaxNumber \in Nat
  <2>1. MaxNumber \in Nat BY MaxIsNat
  <2> QED BY <2>1, EmptySeq
<1>1. 0 \in S OBVIOUS
<1>2. ASSUME NEW m \in Nat \ {0}, m - 1 \in S PROVE m \in S
  <2> SUFFICES ASSUME m <= n, Number(P(m)) < MaxNumber PROVE Numeral(Number(P(m))) = P(m) OBVIOUS
  <2> DEFINE p == SubSeq(digits, 1, m - 1) d == digits[m] x == Number(p)
  <2>1. m \in 1..n /\ 1 \in 1..n BY <1>0
  <2>2. p \in Seq(Digits) /\ SubSeq(digits, 1, m) = Append(p, d) BY <2>1, PrefixGrows
  <2>3. d \in Digits BY <2>1, ElementOfSeq
  <2>4. d - Zero \in 0..9 /\ Zero + (d - Zero) = d BY <2>3 DEF Digits, Zero
  <2>5. Number(P(m)) = Saturated(10 * x + (d - Zero)) BY <2>2, <2>3, NumberGoesOn
  <2>6. x \in 0..MaxNumber BY <2>2, NumberTyped
  <2>7. CASE m = 1
    <3>1. p = <<>>
      <4>1. 0 \in Int /\ 1 \in Int /\ 0 < 1 /\ m - 1 = 0 BY <2>7
      <4> QED BY <4>1, SubSeqEmpty
    <3>2. x = 0 BY <3>1, NumberOfNothing
    <3> DEFINE y == d - Zero
    <3>3. y \in 0..9 /\ Zero + y = d BY <2>4
    <3>4. 10 * x + y = y BY <3>2, <3>3
    <3> HIDE DEF x, p, y, d
    <3>5. y \in Nat /\ y < 10 BY <3>3
    <3>6. Number(P(m)) = Saturated(y) BY <2>5, <3>4 DEF y
    <3>7. Number(P(m)) = y BY <1>0, <3>5, <3>6 DEF Saturated
    <3>8. Numeral(y) = <<Zero + y>> BY <3>5, NumeralIs
    <3>9. P(m) = <<d>> BY <2>2, <3>1
    <3> QED BY <3>3, <3>7, <3>8, <3>9
  <2>8. CASE m # 1
    <3> DEFINE y == d - Zero v == 10 * x + y
    <3>1. y \in 0..9 /\ Zero + y = d BY <2>4
    <3> HIDE DEF x, d, y
    <3>2. v \in Nat /\ Number(P(m)) = Saturated(v) BY <2>5, <2>6, <3>1 DEF y
    <3> HIDE DEF P
    <3>3. Number(P(m)) = v /\ v < MaxNumber
      <4> HIDE DEF v
      <4> QED BY <1>0, <3>2 DEF Saturated
    <3>4. x < MaxNumber
      <4>1. v = 10 * x + y OBVIOUS
      <4> HIDE DEF v
      <4> QED BY <1>0, <2>6, <3>1, <3>3, <4>1
    <3>5. Numeral(x) = p
      <4>1. 1 <= m - 1 /\ m - 1 <= n /\ m - 1 \in Nat BY <2>8
      <4>2. Number(P(m - 1)) = x BY DEF P, x
      <4>3. Numeral(Number(P(m - 1))) = P(m - 1) BY <1>2, <3>4, <4>1, <4>2
      <4> QED BY <4>2, <4>3 DEF P
    <3>6. x # 0
      <4>1. SUFFICES ASSUME x = 0 PROVE FALSE OBVIOUS
      <4>2. Numeral(0) = <<Zero + 0>> BY NumeralIs
      <4>3. Numeral(0)[1] = Zero BY <4>2 DEF Zero
      <4>4. p[1] = Zero BY <3>5, <4>1, <4>3
      <4>5. p[1] = digits[1]
        <5>1. \A i \in 1..m - 1 : i \in 1..n BY <2>1
        <5>2. \A i \in 1..m - 1 : digits[i] \in Digits BY <5>1, ElementOfSeq
        <5>3. 1 \in Int /\ m - 1 \in Int /\ 1 \in 1..(m - 1) - 1 + 1 /\ 1 + 1 - 1 = 1 BY <2>8
        <5>4. \A i \in 1..(m - 1) - 1 + 1 : SubSeq(digits, 1, m - 1)[i] = digits[1 + i - 1]
          BY <5>2, <5>3, SubSeqProperties
        <5> QED BY <5>3, <5>4
      <4>6. Len(digits) > 1 BY <1>0, <2>8
      <4> QED BY <4>4, <4>5, <4>6
    <3>7. ~(v < 10) /\ v \div 10 = x /\ v % 10 = y BY <2>6, <3>1, <3>6
    <3>8. Numeral(v) = Append(Numeral(v \div 10), Zero + (v % 10))
      <4> HIDE DEF v
      <4> QED BY <3>2, <3>7, NumeralIs
    <3>9. Numeral(v) = Append(p, d) BY <3>1, <3>5, <3>7, <3>8
    <3> QED BY <2>2, <3>3, <3>9 DEF P
  <2> QED BY <2>7, <2>8
<1>3. Nat \subseteq S
  <2> HIDE DEF S
  <2> QED BY <1>1, <1>2, UpToAll
<1>4. P(n) = digits BY SubSeqFull
<1>5. n \in S /\ 1 <= n /\ n <= n BY <1>0, <1>3
<1> HIDE DEF P, n
<1> QED BY <1>4, <1>5

-----------------------------------------------------------------------------
(* A text as far as it goes: where it should stand whole, or where it was   *)
(* cut off.                                                                 *)
AsFar(s, p, v) == \A j \in 1..Len(v) : p + j <= Len(s) => s[p + j] = v[j]

LEMMA CutOut ==
    ASSUME NEW X, NEW v \in Seq(X), NEW s, NEW p \in Nat, NEW c \in 0..Len(v),
           \A j \in 1..c : s[p + j] = v[j]
    PROVE  /\ SubSeq(s, p + 1, p + c) = SubSeq(v, 1, c)
           /\ SubSeq(s, p + 1, p + c) \in Seq(X) /\ Len(SubSeq(s, p + 1, p + c)) = c
<1> DEFINE n == Len(v) a == SubSeq(s, p + 1, p + c) b == SubSeq(v, 1, c)
<1>1. n \in Nat /\ c \in Nat /\ c <= n BY LenProperties
<1>2. \A j \in 1..c : v[j] \in X
  <2>1. \A j \in 1..c : j \in 1..n BY <1>1
  <2> QED BY <2>1, ElementOfSeq
<1> HIDE DEF n
<1>3. \A i \in p + 1..p + c : s[i] \in X
  <2> SUFFICES ASSUME NEW i \in p + 1..p + c PROVE s[i] \in X OBVIOUS
  <2>1. i - p \in 1..c /\ p + (i - p) = i BY <1>1
  <2>2. s[p + (i - p)] = v[i - p] BY <2>1
  <2> QED BY <1>2, <2>1, <2>2
<1>4. p + 1 \in Int /\ p + c \in Int /\ 1 \in Int /\ c \in Int
      /\ (IF p + 1 <= p + c THEN (p + c) - (p + 1) + 1 ELSE 0) = c
      /\ (p + c) - (p + 1) + 1 = c
      /\ (IF 1 <= c THEN c - 1 + 1 ELSE 0) = c /\ c - 1 + 1 = c
  BY <1>1
<1>5. a \in Seq(X) /\ Len(a) = c /\ \A i \in 1..c : a[i] = s[(p + 1) + i - 1]
  <2>1. /\ a \in Seq(X) /\ Len(a) = (IF p + 1 <= p + c THEN (p + c) - (p + 1) + 1 ELSE 0)
        /\ \A i \in 1..(p + c) - (p + 1) + 1 : a[i] = s[(p + 1) + i - 1]
    <3>1. p + 1 \in Int /\ p + c \in Int BY <1>4
    <3> QED BY <1>3, <3>1, SubSeqProperties
  <2> HIDE DEF a
  <2> QED BY <1>4, <2>1
<1>6. b \in Seq(X) /\ Len(b) = c /\ \A i \in 1..c : b[i] = v[1 + i - 1]
  <2>1. /\ b \in Seq(X) /\ Len(b) = (IF 1 <= c THEN c - 1 + 1 ELSE 0)
        /\ \A i \in 1..c - 1 + 1 : b[i] = v[1 + i - 1]
    <3>1. 1 \in Int /\ c \in Int BY <1>4
    <3> QED BY <1>2, <3>1, SubSeqProperties
  <2> HIDE DEF b
  <2> QED BY <1>4, <2>1
<1> HIDE DEF a, b
<1>7. \A i \in 1..c : (p + 1) + i - 1 = p + i /\ 1 + i - 1 = i BY <1>1
<1>8. \A i \in 1..c : a[i] = b[i] BY <1>5, <1>6, <1>7
<1>9. a = b BY <1>5, <1>6, <1>8, SeqEqual
<1> QED BY <1>5, <1>9 DEF a, b

LEMMA NumberOfPrefix ==
    ASSUME NEW digits \in Seq(Digits), NEW c \in 0..Len(digits)
    PROVE  Number(SubSeq(digits, 1, c)) <= Number(digits)
<1> DEFINE n == Len(digits) P(i) == SubSeq(digits, 1, i)
           S == {k \in Nat : c + k <= n => Number(P(c)) <= Number(P(c + k))}
<1>0. n \in Nat /\ c \in Nat /\ c <= n BY LenProperties
<1>1. \A i \in 0..n : P(i) \in Seq(Digits) /\ Number(P(i)) \in 0..MaxNumber
  <2> SUFFICES ASSUME NEW i \in 0..n PROVE P(i) \in Seq(Digits) BY NumberTyped
  <2>1. \A j \in 1..i : j \in 1..n BY <1>0
  <2>2. \A j \in 1..i : digits[j] \in Digits BY <2>1, ElementOfSeq
  <2>3. i \in Int /\ 1 \in Int BY <1>0
  <2> QED BY <2>2, <2>3, SubSeqProperties
<1>2. \A i \in 1..n : P(i) = Append(P(i - 1), digits[i]) /\ digits[i] \in Digits
  BY PrefixGrows, ElementOfSeq
<1> HIDE DEF P
<1>3. 0 \in S
  <2>1. c + 0 = c /\ c \in 0..n BY <1>0
  <2>2. Number(P(c)) <= Number(P(c)) BY <1>1, <2>1, MaxIsNat
  <2> QED BY <2>1, <2>2
<1>4. ASSUME NEW k \in Nat \ {0}, k - 1 \in S PROVE k \in S
  <2> SUFFICES ASSUME c + k <= n PROVE Number(P(c)) <= Number(P(c + k)) OBVIOUS
  <2> DEFINE i == c + k
  <2>1. i \in 1..n /\ c + (k - 1) = i - 1 /\ i - 1 \in 0..n /\ c \in 0..n /\ i \in 0..n
    <3> HIDE DEF n
    <3> QED BY <1>0
  <2> HIDE DEF i
  <2>2. Number(P(c)) <= Number(P(i - 1)) BY <1>0, <1>4, <2>1 DEF i
  <2> DEFINE d == digits[i] - Zero x == Number(P(i - 1)) y == Number(P(i)) z == Number(P(c))
  <2>3. d \in 0..9 BY <1>2, <2>1 DEF Digits, Zero
  <2>4. P(i - 1) \in Seq(Digits) /\ digits[i] \in Digits BY <1>1, <1>2, <2>1
  <2>5. y = Saturated(10 * x + d)
    <3>1. Number(Append(P(i - 1), digits[i])) = Saturated(10 * Number(P(i - 1)) + (digits[i] - Zero))
      BY <2>4, NumberGoesOn
    <3> QED BY <1>2, <2>1, <3>1
  <2>6. x \in 0..MaxNumber /\ z \in 0..MaxNumber /\ z <= x BY <1>1, <2>1, <2>2
  <2> HIDE DEF d, x, y, z
  <2>7. x <= y BY <2>3, <2>5, <2>6, MaxIsNat DEF Saturated
  <2>8. y \in Int BY <2>3, <2>5, <2>6, MaxIsNat DEF Saturated
  <2>9. z <= y BY <2>6, <2>7, <2>8, MaxIsNat
  <2> QED BY <2>9 DEF i, y, z
<1>5. Nat \subseteq S
  <2> HIDE DEF S
  <2> QED BY <1>3, <1>4, UpToAll
<1> DEFINE k == n - c
<1>6. k \in Nat /\ c + k = n
  <2> HIDE DEF n
  <2> QED BY <1>0
<1>7. P(n) = digits BY SubSeqFull DEF P
<1>8. Number(P(c)) <= Number(P(c + k))
  <2>1. k \in S BY <1>5, <1>6
  <2> HIDE DEF k
  <2> QED BY <1>0, <1>6, <2>1
<1> HIDE DEF k, n
<1> QED BY <1>6, <1>7, <1>8 DEF P

-----------------------------------------------------------------------------
(* Reading a number.                                                        *)
Stops(s, from, max, i) ==
    \/ i > Len(s) \/ \E j \in from..i : s[j] \notin Digits
    \/ i > from /\ s[from] = Zero
    \/ i - from >= 19
    \/ Number(SubSeq(s, from, i)) > max

LEMMA DecimalIs ==
    ASSUME NEW s, Len(s) \in Nat, NEW from \in Nat, NEW max, NEW e \in from..Len(s) + 1,
           Stops(s, from, max, e), \A i \in from..e - 1 : ~Stops(s, from, max, i)
    PROVE  Decimal(s, from, max) =
               IF e > Len(s) THEN Short(e)
               ELSE IF e > from /\ s[e] = Colon THEN Ok(e + 1, Number(SubSeq(s, from, e - 1)))
               ELSE Bad(e + 1)
<1> DEFINE S == {i \in from..Len(s) + 1 : Stops(s, from, max, i)}
<1>1. Min(S) = e
  <2>1. S \in SUBSET Int /\ e \in S OBVIOUS
  <2>2. \A k \in S : e <= k
    <3> SUFFICES ASSUME NEW k \in S, ~(e <= k) PROVE FALSE OBVIOUS
    <3>1. k \in from..Len(s) + 1 /\ Stops(s, from, max, k) OBVIOUS
    <3> HIDE DEF S
    <3>2. k \in from..e - 1 BY <3>1
    <3> QED BY <3>1, <3>2
  <2> HIDE DEF S
  <2> QED BY <2>1, <2>2, LeastIs
<1>2. Decimal(s, from, max) =
          IF Min(S) > Len(s) THEN Short(Min(S))
          ELSE IF Min(S) > from /\ s[Min(S)] = Colon THEN Ok(Min(S) + 1, Number(SubSeq(s, from, Min(S) - 1)))
          ELSE Bad(Min(S) + 1)
  BY DEF Decimal, Stops
<1> HIDE DEF S
<1> QED BY <1>1, <1>2

\* The first c digits of a numeral.
LEMMA DigitsAhead ==
    ASSUME NEW s, Len(s) \in Nat, NEW p \in Nat, NEW n \in Nat, n <= MaxNumber,
           NEW c \in 1..Len(Numeral(n)), p + c <= Len(s), AsFar(s, p, Numeral(n))
    PROVE  /\ \A j \in p + 1..p + c : s[j] \in Digits
           /\ ~(p + c > p + 1 /\ s[p + 1] = Zero)
           /\ ~((p + c) - (p + 1) >= 19)
           /\ Number(SubSeq(s, p + 1, p + c)) \in Int /\ Number(SubSeq(s, p + 1, p + c)) <= n
           /\ c = Len(Numeral(n)) => Number(SubSeq(s, p + 1, p + c)) = n
<1> DEFINE v == Numeral(n) l == Len(v)
<1>1. v \in Seq(Digits) /\ l \in Nat \ {0} /\ l <= 6 /\ Number(v) = n BY NumeralTyped, NumeralShort, NumeralRead
<1>2. l > 1 => v[1] # Zero BY NumeralStart
<1>3. \A j \in 1..l : p + j <= Len(s) => s[p + j] = v[j] BY DEF AsFar
<1>4. c \in 1..l OBVIOUS
<1> HIDE DEF l
<1>5. \A j \in 1..c : j \in 1..l /\ p + j <= Len(s) BY <1>1, <1>4
<1>6. \A j \in 1..c : s[p + j] = v[j] /\ v[j] \in Digits
  <2>1. \A j \in 1..l : v[j] \in Digits BY <1>1, ElementOfSeq DEF l
  <2> QED BY <1>3, <1>5, <2>1
<1> HIDE DEF v
<1>7. \A j \in p + 1..p + c : s[j] \in Digits
  <2> SUFFICES ASSUME NEW j \in p + 1..p + c PROVE s[j] \in Digits OBVIOUS
  <2>1. j - p \in 1..c /\ p + (j - p) = j BY <1>4
  <2>2. s[p + (j - p)] \in Digits BY <1>6, <2>1
  <2> QED BY <2>1, <2>2
<1>8. ~(p + c > p + 1 /\ s[p + 1] = Zero)
  <2> SUFFICES ASSUME p + c > p + 1, s[p + 1] = Zero PROVE FALSE OBVIOUS
  <2>1. l > 1 /\ 1 \in 1..c BY <1>1, <1>4
  <2>2. s[p + 1] = v[1] BY <1>6, <2>1
  <2> QED BY <1>2, <2>1, <2>2
<1>9. ~((p + c) - (p + 1) >= 19) BY <1>1, <1>4
<1>10. SubSeq(s, p + 1, p + c) = SubSeq(v, 1, c)
  <2>1. c \in 0..Len(v) BY <1>1, <1>4 DEF l
  <2> QED BY <1>1, <1>6, <2>1, CutOut
<1>11. Number(SubSeq(v, 1, c)) <= n
  <2>1. c \in 0..Len(v) BY <1>1, <1>4 DEF l
  <2> QED BY <1>1, <2>1, NumberOfPrefix
<1>12. Number(SubSeq(v, 1, c)) \in Int
  <2>1. c \in 0..Len(v) BY <1>1, <1>4 DEF l
  <2>2. SubSeq(v, 1, c) \in Seq(Digits) BY <1>1, <1>6, <1>10, <2>1, CutOut
  <2>3. Number(SubSeq(v, 1, c)) \in 0..MaxNumber BY <2>2, NumberTyped
  <2> QED BY <2>3, MaxIsNat
<1>13. c = l => SubSeq(v, 1, c) = v BY <1>1, SubSeqFull DEF l
<1> QED BY <1>1, <1>7, <1>8, <1>9, <1>10, <1>11, <1>12, <1>13 DEF v, l

ColonAfter(s, p, n) ==
    LET q == p + Len(Numeral(n)) + 1 IN q <= Len(s) => s[q] = Colon

\* What Decimal makes of a numeral with its colon, as far as they go.
LEMMA DecimalReads ==
    ASSUME NEW s, Len(s) \in Nat, NEW p \in 0..Len(s), NEW n \in Nat, n <= MaxNumber, NEW max \in Int,
           AsFar(s, p, Numeral(n)), ColonAfter(s, p, n), NEW l, l = Len(Numeral(n))
    PROVE  /\ n <= max /\ p + l + 1 <= Len(s) => Decimal(s, p + 1, max) = Ok(p + l + 2, n)
           /\ n <= max /\ p + l + 1 > Len(s) => Decimal(s, p + 1, max) = Short(Len(s) + 1)
           /\ n > max /\ p + l <= Len(s) => Decimal(s, p + 1, max).st = "bad"
<1> DEFINE m == Len(s)
           Num(i) == Number(SubSeq(s, p + 1, i))
<1>1. l \in Nat \ {0} BY NumeralTyped
<1>2. \A i \in p + 1..p + l : i <= m =>
          /\ \A j \in p + 1..i : s[j] \in Digits
          /\ ~(i > p + 1 /\ s[p + 1] = Zero) /\ ~(i - (p + 1) >= 19)
          /\ Num(i) \in Int /\ Num(i) <= n /\ (i = p + l => Num(i) = n)
  <2> HIDE DEF Num
  <2> SUFFICES ASSUME NEW i \in p + 1..p + l, i <= m
               PROVE  /\ \A j \in p + 1..i : s[j] \in Digits
                      /\ ~(i > p + 1 /\ s[p + 1] = Zero) /\ ~(i - (p + 1) >= 19)
                      /\ Num(i) \in Int /\ Num(i) <= n /\ (i = p + l => Num(i) = n)
      OBVIOUS
  <2> DEFINE c == i - p
  <2>1. c \in 1..l /\ p + c = i /\ (i = p + l => c = l) BY <1>1
  <2> HIDE DEF c
  <2>2. c \in 1..Len(Numeral(n)) /\ p + c <= Len(s) BY <2>1
  <2>3. p \in Nat BY DEF m
  <2>4. /\ \A j \in p + 1..p + c : s[j] \in Digits
        /\ ~(p + c > p + 1 /\ s[p + 1] = Zero) /\ ~((p + c) - (p + 1) >= 19)
        /\ Num(p + c) \in Int /\ Num(p + c) <= n /\ (c = l => Num(p + c) = n)
    BY <2>2, <2>3, DigitsAhead DEF Num
  <2> QED BY <2>1, <2>4
<1>3. \A i \in p + 1..p + l : i <= m /\ n <= max => ~Stops(s, p + 1, max, i)
  <2> SUFFICES ASSUME NEW i \in p + 1..p + l, i <= m, n <= max PROVE ~Stops(s, p + 1, max, i) OBVIOUS
  <2>1. Num(i) \in Int /\ Num(i) <= n BY <1>2
  <2> DEFINE x == Num(i)
  <2>2. ~(x > max)
    <3>1. x \in Int /\ x <= n BY <2>1
    <3> HIDE DEF x
    <3> QED BY <3>1
  <2>3. ~(i > m) OBVIOUS
  <2> QED BY <1>2, <2>2, <2>3 DEF Stops
<1> HIDE DEF m
<1>4. p \in Nat /\ m \in Nat /\ p <= m BY DEF m
<1>5. ASSUME n <= max, p + l + 1 <= m PROVE Decimal(s, p + 1, max) = Ok(p + l + 2, n)
  <2> DEFINE e == p + l + 1
  <2>1. e \in p + 1..m + 1 /\ e <= m /\ e > p + 1 /\ e - 1 = p + l /\ e + 1 = p + l + 2 /\ e \in p + 1..e
        /\ ~(e > m) /\ p + l \in p + 1..p + l /\ p + l <= m
    BY <1>1, <1>4, <1>5
  <2>2. s[e] = Colon BY <2>1 DEF ColonAfter, m
  <2>3. s[e] \notin Digits BY <2>2 DEF Colon, Digits
  <2> HIDE DEF e
  <2>4. Stops(s, p + 1, max, e) BY <2>1, <2>3 DEF Stops
  <2>5. \A i \in p + 1..e - 1 : ~Stops(s, p + 1, max, i)
    <3>1. \A i \in p + 1..e - 1 : i \in p + 1..p + l /\ i <= m BY <1>4, <2>1
    <3> QED BY <1>3, <1>5, <3>1
  <2>6. Num(e - 1) = n BY <1>2, <2>1
  <2>7. p + 1 \in Nat BY <1>4
  <2>8. Decimal(s, p + 1, max) = Ok(e + 1, Number(SubSeq(s, p + 1, e - 1)))
    BY <2>1, <2>2, <2>4, <2>5, <2>7, DecimalIs DEF m
  <2> QED BY <2>1, <2>6, <2>8
<1>6. ASSUME n <= max, p + l + 1 > m PROVE Decimal(s, p + 1, max) = Short(m + 1)
  <2> DEFINE e == m + 1
  <2>1. e \in p + 1..m + 1 /\ e > m BY <1>4
  <2>2. Stops(s, p + 1, max, e) BY <2>1 DEF Stops, m
  <2>3. \A i \in p + 1..e - 1 : ~Stops(s, p + 1, max, i)
    <3>1. \A i \in p + 1..e - 1 : i \in p + 1..p + l /\ i <= m BY <1>1, <1>4, <1>6
    <3> QED BY <1>3, <1>6, <3>1
  <2>4. p + 1 \in Nat BY <1>4
  <2> HIDE DEF e
  <2>5. Decimal(s, p + 1, max) = Short(e) BY <2>1, <2>2, <2>3, <2>4, DecimalIs DEF m
  <2> QED BY <2>5 DEF e
<1>7. ASSUME n > max, p + l <= m PROVE Decimal(s, p + 1, max).st = "bad"
  <2> DEFINE T == {i \in p + 1..p + l : Stops(s, p + 1, max, i)}
  <2>1. p + l \in T
    <3>1. p + l \in p + 1..p + l BY <1>1, <1>4
    <3>2. Num(p + l) = n BY <1>2, <1>7, <3>1
    <3>3. Number(SubSeq(s, p + 1, p + l)) > max BY <1>7, <3>2
    <3> QED BY <3>1, <3>3 DEF Stops
  <2>2. T \in SUBSET Nat BY <1>4
  <2>3. PICK e \in T : \A k \in T : e <= k
    <3> HIDE DEF T
    <3> QED BY <2>1, <2>2, LeastNat
  <2>4. e \in p + 1..p + l /\ Stops(s, p + 1, max, e) OBVIOUS
  <2>5. \A i \in p + 1..e - 1 : ~Stops(s, p + 1, max, i)
    <3> SUFFICES ASSUME NEW i \in p + 1..e - 1, Stops(s, p + 1, max, i) PROVE FALSE OBVIOUS
    <3>1. i \in p + 1..p + l /\ ~(e <= i) BY <1>1, <1>4, <2>4
    <3>2. i \in T BY <3>1
    <3> HIDE DEF T
    <3> QED BY <2>3, <3>1, <3>2
  <2> HIDE DEF T
  <2>6. e <= m /\ e \in p + 1..m + 1 /\ p + 1 \in Nat /\ ~(e > m) /\ e \in p + 1..e BY <1>1, <1>4, <1>7, <2>4
  <2>7. s[e] # Colon
    <3>1. s[e] \in Digits BY <1>2, <2>4, <2>6
    <3> QED BY <3>1 DEF Digits, Colon
  <2>8. Decimal(s, p + 1, max) = Bad(e + 1) BY <2>4, <2>5, <2>6, <2>7, DecimalIs DEF m
  <2> QED BY <2>8 DEF Bad
<1> QED BY <1>5, <1>6, <1>7 DEF m

\* What Decimal takes for a number is one, with its colon.
LEMMA DecimalOnce ==
    ASSUME NEW s \in Seq(Nat), NEW p \in 0..Len(s), NEW max \in Int, max < MaxNumber,
           Decimal(s, p + 1, max).st = "ok"
    PROVE  \E n \in Nat : LET v == Numeral(n) l == Len(Numeral(n)) IN
              /\ n <= max /\ Decimal(s, p + 1, max) = Ok(p + l + 2, n)
              /\ p + l + 1 <= Len(s) /\ s[p + l + 1] = Colon
              /\ \A j \in 1..l : s[p + j] = v[j]
<1> DEFINE m == Len(s) T == {i \in p + 1..m + 1 : Stops(s, p + 1, max, i)}
<1>1. m \in Nat /\ p \in Nat /\ p <= m /\ p + 1 \in Nat
  <2>1. m \in Nat BY LenProperties
  <2> HIDE DEF m
  <2> QED BY <2>1 DEF m
<1>2. m + 1 \in T
  <2>1. m + 1 \in p + 1..m + 1 /\ m + 1 > m
    <3> HIDE DEF m
    <3> QED BY <1>1
  <2> QED BY <2>1 DEF Stops
<1>3. T \in SUBSET Nat BY <1>1
<1>4. PICK e \in T : \A k \in T : e <= k
  <2> HIDE DEF T
  <2> QED BY <1>2, <1>3, LeastNat
<1>5. e \in p + 1..m + 1 /\ Stops(s, p + 1, max, e) OBVIOUS
<1>6. \A i \in p + 1..e - 1 : ~Stops(s, p + 1, max, i)
  <2> SUFFICES ASSUME NEW i \in p + 1..e - 1, Stops(s, p + 1, max, i) PROVE FALSE OBVIOUS
  <2> HIDE DEF m
  <2>1. i \in p + 1..m + 1 /\ ~(e <= i) BY <1>1, <1>5
  <2>2. i \in T BY <2>1
  <2> HIDE DEF T
  <2> QED BY <1>4, <2>1, <2>2
<1> HIDE DEF T
<1> DEFINE v == SubSeq(s, p + 1, e - 1) n == Number(v) c == e - 1 - p
<1>7. Decimal(s, p + 1, max) =
          IF e > m THEN Short(e) ELSE IF e > p + 1 /\ s[e] = Colon THEN Ok(e + 1, n) ELSE Bad(e + 1)
  BY <1>1, <1>5, <1>6, DecimalIs
<1>8. ~(e > m) /\ e > p + 1 /\ s[e] = Colon /\ Decimal(s, p + 1, max) = Ok(e + 1, n)
  <2> HIDE DEF n
  <2>1. Short(e).st # "ok" /\ Bad(e + 1).st # "ok" BY DEF Short, Bad
  <2> QED BY <1>7, <2>1
<1>9. ~Stops(s, p + 1, max, e - 1)
  <2>1. e - 1 \in p + 1..e - 1
    <3> HIDE DEF m
    <3> QED BY <1>1, <1>5, <1>8
  <2> QED BY <1>6, <2>1
<1>10. /\ \A j \in p + 1..e - 1 : s[j] \in Digits
       /\ ~(e - 1 > p + 1 /\ s[p + 1] = Zero) /\ ~(n > max)
  BY <1>9 DEF Stops
<1>11. c \in Nat \ {0} /\ p + c = e - 1 /\ p + c + 1 = e /\ p + c + 2 = e + 1 /\ e <= m
  <2> HIDE DEF m
  <2> QED BY <1>1, <1>5, <1>8
<1>12. v \in Seq(Digits) /\ Len(v) = c /\ \A j \in 1..c : v[j] = s[p + j]
  <2> HIDE DEF m
  <2>1. p + 1 \in Int /\ e - 1 \in Int /\ (IF p + 1 <= e - 1 THEN (e - 1) - (p + 1) + 1 ELSE 0) = c
        /\ (e - 1) - (p + 1) + 1 = c
    BY <1>1, <1>5, <1>11
  <2>2. /\ v \in Seq(Digits) /\ Len(v) = (IF p + 1 <= e - 1 THEN (e - 1) - (p + 1) + 1 ELSE 0)
        /\ \A j \in 1..(e - 1) - (p + 1) + 1 : v[j] = s[(p + 1) + j - 1]
    <3>1. \A j \in p + 1..e - 1 : s[j] \in Digits BY <1>10
    <3> HIDE DEF c, n
    <3> QED BY <2>1, <3>1, SubSeqProperties
  <2> HIDE DEF v, c
  <2>3. \A j \in 1..c : (p + 1) + j - 1 = p + j BY <1>1, <1>11
  <2> QED BY <2>1, <2>2, <2>3
<1> HIDE DEF c, v
<1>13. n \in 0..MaxNumber /\ n <= max /\ n < MaxNumber /\ n \in Nat
  <2>1. n \in 0..MaxNumber BY <1>12, NumberTyped
  <2> HIDE DEF n
  <2> QED BY <1>10, <2>1, MaxIsNat
<1>14. Numeral(n) = v
  <2>1. v # <<>> BY <1>11, <1>12
  <2>2. Len(v) > 1 => v[1] # Zero
    <3> HAVE Len(v) > 1
    <3>1. c > 1 /\ 1 \in 1..c BY <1>11, <1>12
    <3>2. e - 1 > p + 1 BY <1>1, <1>11, <3>1
    <3> QED BY <1>10, <1>12, <3>1, <3>2
  <2> QED BY <1>12, <1>13, <2>1, <2>2, NumberWritten DEF n
<1> HIDE DEF n
<1> QED BY <1>8, <1>11, <1>12, <1>13, <1>14

-----------------------------------------------------------------------------
(* Reading a field.                                                         *)
Joint(r, s, t, n, k, X) ==
    /\ r \in Seq(X) /\ n \in Nat /\ k \in Nat /\ Len(r) = n + k
    /\ \A i \in 1..n : r[i] = s[i]
    /\ \A j \in 1..k : r[n + j] = t[j]

LEMMA GluedAs ==
    ASSUME NEW X, NEW s \in Seq(X), NEW t \in Seq(X) PROVE Joint(s \o t, s, t, Len(s), Len(t), X)
    BY Glued DEF Joint

FieldLies(f, v, a, k, l) ==
    /\ f \in Seq(Nat) /\ Len(f) = l + k + 2
    /\ k \in Nat /\ l \in Nat \ {0} /\ a \in Seq(Nat)
    /\ \A j \in 1..l : f[j] = a[j]
    /\ f[l + 1] = Colon
    /\ \A j \in 1..k : f[l + 1 + j] = v[j]
    /\ f[l + k + 2] = Comma

LEMMA FieldParts ==
    ASSUME NEW v \in Seq(Nat)
    PROVE  FieldLies(EncodeField(v), v, Numeral(Len(v)), Len(v), Len(Numeral(Len(v))))
<1> DEFINE k == Len(v) l == Len(Numeral(k)) a == Numeral(k) b == a \o <<Colon>> c == b \o v d == c \o <<Comma>>
<1>1. k \in Nat BY LenProperties
<1>2. a \in Seq(Nat) /\ l \in Nat \ {0} /\ Len(a) = l
  <2>1. a \in Seq(Digits) /\ Len(a) \in Nat \ {0} BY <1>1, NumeralTyped
  <2>2. Digits \subseteq Nat BY DEF Digits
  <2> HIDE DEF a
  <2>3. a \in Seq(Nat) BY <2>1, <2>2, SeqMonotonic
  <2> QED BY <2>1, <2>3 DEF a, l
<1>3. <<Colon>> \in Seq(Nat) /\ Len(<<Colon>>) = 1 /\ <<Colon>>[1] = Colon
      /\ <<Comma>> \in Seq(Nat) /\ Len(<<Comma>>) = 1 /\ <<Comma>>[1] = Comma
  BY DEF Colon, Comma
<1> HIDE DEF a
<1> DEFINE x == <<Colon>> y == <<Comma>>
<1>4. x \in Seq(Nat) /\ Len(x) = 1 /\ x[1] = Colon /\ y \in Seq(Nat) /\ Len(y) = 1 /\ y[1] = Comma BY <1>3
<1>5. b = a \o x /\ c = b \o v /\ d = c \o y OBVIOUS
<1> HIDE DEF x, y, b, c, d, l, k
<1>6. /\ b \in Seq(Nat) /\ Len(b) = l + 1 /\ b[l + 1] = Colon /\ \A j \in 1..l : b[j] = a[j]
  <2>1. /\ b \in Seq(Nat) /\ Len(b) = l + 1 /\ \A j \in 1..l : b[j] = a[j]
        /\ \A j \in 1..1 : b[l + j] = x[j]
    <3>1. Joint(b, a, x, l, 1, Nat)
      <4>1. Joint(a \o x, a, x, Len(a), Len(x), Nat) BY <1>2, <1>4, GluedAs
      <4> QED BY <1>2, <1>4, <1>5, <4>1
    <3> QED BY <3>1 DEF Joint
  <2> QED BY <1>4, <2>1
<1>7. /\ c \in Seq(Nat) /\ Len(c) = l + 1 + k
      /\ (\A j \in 1..l + 1 : c[j] = b[j]) /\ \A j \in 1..k : c[l + 1 + j] = v[j]
  <2>1. l + 1 = Len(b) BY <1>6
  <2> DEFINE n == l + 1
  <2>2. n = Len(b) BY <2>1
  <2> HIDE DEF n
  <2>3. /\ c \in Seq(Nat) /\ Len(c) = n + k /\ (\A j \in 1..n : c[j] = b[j])
        /\ \A j \in 1..k : c[n + j] = v[j]
    <3>1. Joint(c, b, v, n, k, Nat)
      <4>1. Joint(b \o v, b, v, Len(b), Len(v), Nat) BY <1>6, GluedAs
      <4> QED BY <1>5, <2>2, <4>1 DEF k
    <3> QED BY <3>1 DEF Joint
  <2> QED BY <2>3 DEF n
<1>8. /\ d \in Seq(Nat) /\ Len(d) = l + 1 + k + 1 /\ d[l + 1 + k + 1] = Comma
      /\ \A j \in 1..l + 1 + k : d[j] = c[j]
  <2> DEFINE n == l + 1 + k
  <2>1. n = Len(c) BY <1>7
  <2> HIDE DEF n
  <2>2. /\ d \in Seq(Nat) /\ Len(d) = n + 1 /\ (\A j \in 1..n : d[j] = c[j])
        /\ \A j \in 1..1 : d[n + j] = y[j]
    <3>1. Joint(d, c, y, n, 1, Nat)
      <4>1. Joint(c \o y, c, y, Len(c), Len(y), Nat) BY <1>4, <1>7, GluedAs
      <4> QED BY <1>4, <1>5, <2>1, <4>1
    <3> QED BY <3>1 DEF Joint
  <2> QED BY <1>4, <2>2 DEF n
<1>9. EncodeField(v) = d BY DEF EncodeField, a, b, c, d, k
<1>10. l + 1 + k + 1 = l + k + 2 /\ l + 1 \in 1..l + 1 + k /\ l + 1 \in 1..l + 1
       /\ (\A j \in 1..l : j \in 1..l + 1 /\ j \in 1..l + 1 + k) /\ \A j \in 1..k : l + 1 + j \in 1..l + 1 + k
  BY <1>1, <1>2
<1>11. d[l + 1] = Colon BY <1>6, <1>7, <1>8, <1>10
<1>12. \A j \in 1..l : d[j] = a[j] BY <1>6, <1>7, <1>8, <1>10
<1>13. \A j \in 1..k : d[l + 1 + j] = v[j] BY <1>7, <1>8, <1>10
<1>14. FieldLies(d, v, a, k, l) BY <1>1, <1>2, <1>8, <1>10, <1>11, <1>12, <1>13 DEF FieldLies
<1> QED BY <1>9, <1>14 DEF a, k, l

AfterSize(s, from, left, at, size) ==
    IF size > left - (at - from) - 1 THEN Bad(at)
    ELSE IF at + size > Len(s) + 1 THEN Short(Len(s) + 1)
    ELSE Expect(s, at + size, Comma, SubSeq(s, at, at + size - 1))

LEMMA FieldIs ==
    ASSUME NEW s, NEW from, NEW left, NEW d, d = Decimal(s, from, left)
    PROVE  ScanField(s, from, left) =
               IF left <= 0 THEN Bad(from)
               ELSE IF d.st = "ok" THEN AfterSize(s, from, left, d.at, d.val) ELSE d
  BY DEF ScanField, Then, AfterSize

\* What ScanField makes of a field, as far as it goes.
LEMMA FieldReads ==
    ASSUME NEW v \in Seq(Nat), Len(v) <= MaxNumber, NEW s, Len(s) \in Nat, NEW p \in 0..Len(s),
           NEW left \in Int, AsFar(s, p, EncodeField(v)), NEW e, e = Len(EncodeField(v))
    PROVE  /\ e <= left /\ p + e <= Len(s) => ScanField(s, p + 1, left) = Ok(p + e + 1, v)
           /\ e <= left /\ p + e > Len(s) => ScanField(s, p + 1, left).st = "short"
           /\ e > left /\ p + e <= Len(s) => ScanField(s, p + 1, left).st = "bad"
<1> DEFINE k == Len(v) l == Len(Numeral(k)) m == Len(s) d == Decimal(s, p + 1, left)
           f == EncodeField(v) out == ScanField(s, p + 1, left)
<1>1. /\ f \in Seq(Nat) /\ e = l + k + 2 /\ k \in Nat /\ l \in Nat \ {0}
      /\ \A j \in 1..l : f[j] = Numeral(k)[j]
      /\ f[l + 1] = Colon
      /\ \A j \in 1..k : f[l + 1 + j] = v[j]
      /\ f[l + k + 2] = Comma
  <2>1. FieldLies(f, v, Numeral(k), k, l) BY FieldParts
  <2>2. e = Len(f) OBVIOUS
  <2> HIDE DEF f, k, l
  <2> QED BY <2>1, <2>2 DEF FieldLies
<1>2. \A j \in 1..e : p + j <= m => s[p + j] = f[j] BY DEF AsFar
<1>3. k <= MaxNumber OBVIOUS
<1>4. p \in Nat /\ m \in Nat /\ p <= m
  <2>1. m \in Nat OBVIOUS
  <2> HIDE DEF m
  <2> QED BY <2>1 DEF m
<1> HIDE DEF f
<1>5. AsFar(s, p, Numeral(k))
  <2> SUFFICES ASSUME NEW j \in 1..l, p + j <= m PROVE s[p + j] = Numeral(k)[j] BY DEF AsFar
  <2> HIDE DEF l, m, k
  <2>1. j \in 1..e BY <1>1
  <2> QED BY <1>1, <1>2, <2>1
<1>6. ColonAfter(s, p, k)
  <2>1. SUFFICES ASSUME p + l + 1 <= m PROVE s[p + l + 1] = Colon BY DEF ColonAfter
  <2> HIDE DEF l, m, k
  <2>2. l + 1 \in 1..e /\ p + (l + 1) = p + l + 1
    <3>1. l \in Nat \ {0} /\ k \in Nat /\ e = l + k + 2 BY <1>1
    <3> QED BY <1>4, <3>1
  <2> QED BY <1>1, <1>2, <2>1, <2>2
<1> HIDE DEF k
<1>7. /\ k <= left /\ p + l + 1 <= m => d = Ok(p + l + 2, k)
      /\ k <= left /\ p + l + 1 > m => d = Short(m + 1)
      /\ k > left /\ p + l <= m => d.st = "bad"
  BY <1>1, <1>3, <1>5, <1>6, DecimalReads
<1>8. out = IF left <= 0 THEN Bad(p + 1)
            ELSE IF d.st = "ok" THEN AfterSize(s, p + 1, left, d.at, d.val) ELSE d
  BY FieldIs
<1> HIDE DEF d, out, l, m
<1>9. ASSUME d = Ok(p + l + 2, k), ~(left <= 0)
      PROVE  out = IF k > left - l - 2 THEN Bad(p + l + 2)
                   ELSE IF p + l + 2 + k > m + 1 THEN Short(m + 1)
                   ELSE Expect(s, p + l + 2 + k, Comma, SubSeq(s, p + l + 2, p + l + 2 + k - 1))
  <2>1. d.st = "ok" /\ d.at = p + l + 2 /\ d.val = k BY <1>9 DEF Ok
  <2>2. left - ((p + l + 2) - (p + 1)) - 1 = left - l - 2
    <3>1. l \in Nat BY <1>1
    <3> QED BY <1>4, <3>1
  <2>3. out = AfterSize(s, p + 1, left, p + l + 2, k) BY <1>8, <1>9, <2>1
  <2> QED BY <2>2, <2>3 DEF AfterSize, m
<1>10. ASSUME e <= left, p + e <= m PROVE out = Ok(p + e + 1, v)
  <2>1. k <= left /\ p + l + 1 <= m /\ ~(left <= 0) /\ ~(k > left - l - 2) /\ ~(p + l + 2 + k > m + 1)
        /\ ~(p + l + 2 + k > m) /\ p + l + 2 + k = p + e /\ p + l + 2 + k + 1 = p + e + 1
    BY <1>1, <1>4, <1>10
  <2>2. d = Ok(p + l + 2, k) BY <1>7, <2>1
  <2>3. s[p + e] = Comma
    <3>1. e \in 1..e BY <1>1
    <3> QED BY <1>1, <1>2, <1>10, <3>1
  <2>4. out = Ok(p + e + 1, SubSeq(s, p + l + 2, p + l + 2 + k - 1))
    BY <1>9, <2>1, <2>2, <2>3 DEF Expect, m
  <2>5. SubSeq(s, p + l + 2, p + l + 2 + k - 1) = v
    <3> DEFINE q == p + l + 1
    <3>1. q \in Nat /\ q + 1 = p + l + 2 /\ q + k = p + l + 2 + k - 1 /\ k \in 0..k BY <1>1, <1>4
    <3>2. \A j \in 1..k : q + j = p + (l + 1 + j) /\ l + 1 + j \in 1..e /\ p + (l + 1 + j) <= m
      BY <1>1, <1>4, <1>10
    <3> HIDE DEF q
    <3>3. \A j \in 1..k : s[q + j] = v[j] BY <1>1, <1>2, <3>2
    <3>4. SubSeq(s, q + 1, q + k) = SubSeq(v, 1, k) BY <3>1, <3>3, CutOut DEF k
    <3>5. SubSeq(v, 1, k) = v BY SubSeqFull DEF k
    <3> QED BY <3>1, <3>4, <3>5
  <2> QED BY <2>4, <2>5
<1>11. ASSUME e <= left, p + e > m PROVE out.st = "short"
  <2>1. k <= left /\ ~(left <= 0) /\ ~(k > left - l - 2) /\ p + l + 2 + k = p + e
    BY <1>1, <1>4, <1>11
  <2>2. CASE p + l + 1 <= m
    <3>1. d = Ok(p + l + 2, k) BY <1>7, <2>1, <2>2
    <3>2. out = IF p + l + 2 + k > m + 1 THEN Short(m + 1)
                ELSE Expect(s, p + l + 2 + k, Comma, SubSeq(s, p + l + 2, p + l + 2 + k - 1))
      BY <1>9, <2>1, <3>1
    <3>3. p + l + 2 + k > m BY <1>11, <2>1
    <3> QED BY <3>2, <3>3 DEF Expect, Short, m
  <2>3. CASE ~(p + l + 1 <= m)
    <3>1. p + l + 1 > m BY <1>1, <1>4, <2>3
    <3>2. d = Short(m + 1) BY <1>7, <2>1, <3>1
    <3> QED BY <1>8, <2>1, <3>2 DEF Short
  <2> QED BY <2>2, <2>3
<1>12. ASSUME e > left, p + e <= m PROVE out.st = "bad"
  <2>1. p + l + 1 <= m /\ p + l <= m BY <1>1, <1>4, <1>12
  <2>2. CASE left <= 0 BY <1>8, <2>2 DEF Bad
  <2>3. CASE ~(left <= 0) /\ k <= left
    <3>1. d = Ok(p + l + 2, k) BY <1>7, <2>1, <2>3
    <3>2. k > left - l - 2 BY <1>1, <1>4, <1>12
    <3> QED BY <1>9, <2>3, <3>1, <3>2 DEF Bad
  <2>4. CASE ~(left <= 0) /\ ~(k <= left)
    <3>1. k > left BY <1>1, <2>4
    <3>2. d.st = "bad" BY <1>7, <2>1, <3>1
    <3> QED BY <1>8, <2>4, <3>2
  <2> QED BY <2>2, <2>3, <2>4
<1> QED BY <1>10, <1>11, <1>12 DEF out, m

-----------------------------------------------------------------------------
(* Reading a record.                                                        *)
FieldsOf(values) == [i \in 1..Len(values) |-> EncodeField(values[i])]

LEMMA FieldsTyped ==
    ASSUME NEW values \in Seq(Seq(Nat)), NEW n \in Nat, n = Len(values)
    PROVE  /\ PartsIn(FieldsOf(values), n, Nat)
           /\ \A k \in 1..n : values[k] \in Seq(Nat) /\ FieldsOf(values)[k] = EncodeField(values[k])
           /\ \A k \in 1..n : Len(EncodeField(values[k])) \in Nat
                              /\ Len(EncodeField(values[k])) >= Len(values[k]) + 3
<1>1. \A k \in 1..n : values[k] \in Seq(Nat) BY ElementOfSeq
<1>2. ASSUME NEW v \in Seq(Nat)
      PROVE EncodeField(v) \in Seq(Nat) /\ Len(EncodeField(v)) \in Nat
            /\ Len(EncodeField(v)) >= Len(v) + 3
  <2> DEFINE k == Len(v) l == Len(Numeral(k)) f == EncodeField(v)
  <2>1. FieldLies(f, v, Numeral(k), k, l) BY FieldParts
  <2> HIDE DEF f, k, l
  <2>2. f \in Seq(Nat) /\ Len(f) = l + k + 2 /\ k \in Nat /\ l \in Nat \ {0} BY <2>1 DEF FieldLies
  <2>3. Len(f) \in Nat /\ Len(f) >= k + 3 BY <2>2
  <2> QED BY <2>2, <2>3 DEF f, k
<1>3. FieldsOf(values) = [k \in 1..n |-> EncodeField(values[k])] BY DEF FieldsOf
<1>4. FieldsOf(values) \in [1..n -> Seq(Nat)] BY <1>1, <1>2, <1>3
<1> QED BY <1>1, <1>2, <1>3, <1>4 DEF PartsIn

LEMMA RecordParts ==
    ASSUME NEW values, Len(values) \in Nat
    PROVE  \E u : Prefixes(u, Len(values), FieldsOf(values)) /\ Concat(FieldsOf(values)) = u[Len(values)]
<1> DEFINE n == Len(values) part == FieldsOf(values)
<1>1. part = [i \in 1..n |-> part[i]] BY DEF FieldsOf
<1> HIDE DEF n, part
<1> QED BY <1>1, ConcatParts DEF n, part

\* Where things stand in the encoding w of a record of n values, whose fields u concatenates.
RecordLies(w, u, n, a, l) ==
    /\ n \in Nat /\ l \in Nat \ {0} /\ w \in Seq(Nat)
    /\ u[n] \in Seq(Nat) /\ Len(u[n]) \in Nat /\ Len(w) = l + 2 + Len(u[n]) + 1
    /\ w[1] = TGO
    /\ \A j \in 1..l : w[1 + j] = a[j]
    /\ w[l + 2] = Colon
    /\ \A j \in 1..Len(u[n]) : w[l + 2 + j] = u[n][j]
    /\ w[l + 2 + Len(u[n]) + 1] = LF

LEMMA RecordLayout ==
    ASSUME NEW values \in Seq(Seq(Nat)), NEW u, Concatenates(u, Len(values), FieldsOf(values), Nat),
           Concat(FieldsOf(values)) = u[Len(values)]
    PROVE  RecordLies(EncodeRecord(values), u, Len(values), Numeral(Len(values)), Len(Numeral(Len(values))))
<1> DEFINE n == Len(values) a == Numeral(n) l == Len(a) x == <<TGO>> y == <<Colon>> z == <<LF>>
           f == u[n] k == Len(f)
           b == x \o a c == b \o y d == c \o f w == d \o z
<1>1. n \in Nat BY LenProperties
<1>2. a \in Seq(Nat) /\ l \in Nat \ {0}
  <2>1. a \in Seq(Digits) /\ l \in Nat \ {0} BY <1>1, NumeralTyped
  <2>2. Digits \subseteq Nat BY DEF Digits
  <2> HIDE DEF a
  <2>3. a \in Seq(Nat) BY <2>1, <2>2, SeqMonotonic
  <2> QED BY <2>1, <2>3
<1>3. x \in Seq(Nat) /\ Len(x) = 1 /\ x[1] = TGO BY DEF TGO
<1>4. y \in Seq(Nat) /\ Len(y) = 1 /\ y[1] = Colon BY DEF Colon
<1>5. z \in Seq(Nat) /\ Len(z) = 1 /\ z[1] = LF BY DEF LF
<1>6. f \in Seq(Nat) /\ k \in Nat
  <2>1. n \in 0..n BY <1>1
  <2>2. f \in Seq(Nat) BY <2>1 DEF Concatenates
  <2> HIDE DEF f
  <2> QED BY <2>2, LenProperties
<1>7. EncodeRecord(values) = w BY DEF EncodeRecord, RecordPrefix, FieldsOf
<1>8. b = x \o a /\ c = b \o y /\ d = c \o f /\ w = d \o z OBVIOUS
<1>9. l = Len(a) /\ k = Len(f) OBVIOUS
<1> HIDE DEF n, a, l, x, y, z, f, k, b, c, d, w
<1>10. Joint(b, x, a, 1, l, Nat)
  <2>1. Joint(x \o a, x, a, Len(x), Len(a), Nat) BY <1>2, <1>3, GluedAs
  <2> QED BY <1>3, <1>8, <1>9, <2>1
<1>11. Joint(c, b, y, 1 + l, 1, Nat)
  <2>0. b \in Seq(Nat) BY <1>10 DEF Joint
  <2>1. Joint(b \o y, b, y, Len(b), Len(y), Nat) BY <1>4, <2>0, GluedAs
  <2>2. Len(b) = 1 + l BY <1>10 DEF Joint
  <2> QED BY <1>4, <1>8, <2>1, <2>2
<1>12. Joint(d, c, f, 1 + l + 1, k, Nat)
  <2>0. c \in Seq(Nat) BY <1>11 DEF Joint
  <2>1. Joint(c \o f, c, f, Len(c), Len(f), Nat) BY <1>6, <2>0, GluedAs
  <2>2. Len(c) = 1 + l + 1 BY <1>11 DEF Joint
  <2> QED BY <1>8, <1>9, <2>1, <2>2
<1>13. Joint(w, d, z, 1 + l + 1 + k, 1, Nat)
  <2>0. d \in Seq(Nat) BY <1>12 DEF Joint
  <2>1. Joint(d \o z, d, z, Len(d), Len(z), Nat) BY <1>5, <2>0, GluedAs
  <2>2. Len(d) = 1 + l + 1 + k BY <1>12 DEF Joint
  <2> QED BY <1>5, <1>8, <2>1, <2>2
<1>14. \A j \in 1..1 + l + 1 + k : w[j] = d[j] BY <1>13 DEF Joint
<1>15. \A j \in 1..1 + l + 1 : d[j] = c[j] BY <1>12 DEF Joint
<1>16. \A j \in 1..1 + l : c[j] = b[j] BY <1>11 DEF Joint
<1>17. 1 \in 1..1 + l /\ 1 \in 1..1 + l + 1 /\ 1 \in 1..1 + l + 1 + k /\ 1 \in 1..1
       /\ \A j \in 1..l : 1 + j \in 1..1 + l /\ 1 + j \in 1..1 + l + 1 /\ 1 + j \in 1..1 + l + 1 + k
  BY <1>2, <1>6
<1>18. w[1] = TGO
  <2>1. b[1] = x[1] BY <1>10, <1>17 DEF Joint
  <2> QED BY <1>3, <1>14, <1>15, <1>16, <1>17, <2>1
<1>19. \A j \in 1..l : w[1 + j] = a[j]
  <2>1. \A j \in 1..l : b[1 + j] = a[j] BY <1>10 DEF Joint
  <2> QED BY <1>14, <1>15, <1>16, <1>17, <2>1
<1>20. w[l + 2] = Colon
  <2>1. c[1 + l + 1] = y[1] BY <1>11, <1>17 DEF Joint
  <2>2. 1 + l + 1 \in 1..1 + l + 1 /\ 1 + l + 1 \in 1..1 + l + 1 + k /\ l + 2 = 1 + l + 1 BY <1>2, <1>6
  <2> QED BY <1>4, <1>14, <1>15, <2>1, <2>2
<1>21. \A j \in 1..k : w[l + 2 + j] = f[j]
  <2>1. \A j \in 1..k : d[1 + l + 1 + j] = f[j] BY <1>12 DEF Joint
  <2>2. \A j \in 1..k : 1 + l + 1 + j = l + 2 + j /\ 1 + l + 1 + j \in 1..1 + l + 1 + k BY <1>2, <1>6
  <2> QED BY <1>14, <2>1, <2>2
<1>22. w[l + 2 + k + 1] = LF
  <2>1. w[1 + l + 1 + k + 1] = z[1] BY <1>13, <1>17 DEF Joint
  <2>2. 1 + l + 1 + k + 1 = l + 2 + k + 1 BY <1>2, <1>6
  <2> QED BY <1>5, <2>1, <2>2
<1>23. w \in Seq(Nat) /\ Len(w) = l + 2 + k + 1
  <2>1. w \in Seq(Nat) /\ Len(w) = 1 + l + 1 + k + 1 BY <1>13 DEF Joint
  <2> QED BY <1>2, <1>6, <2>1
<1>24. RecordLies(w, u, n, a, l)
  BY <1>1, <1>2, <1>6, <1>18, <1>19, <1>20, <1>21, <1>22, <1>23 DEF RecordLies, f, k
<1> QED BY <1>7, <1>24 DEF n, a, l

\* What ScanRecordHeader makes of the start of a record, as far as it goes.
LEMMA HeaderReads ==
    ASSUME NEW s, Len(s) \in Nat, NEW p \in 0..Len(s), NEW n \in 0..MaxRecordFields, NEW max \in Int,
           p + 1 <= Len(s) => s[p + 1] = TGO,
           AsFar(s, p + 1, Numeral(n)), ColonAfter(s, p + 1, n), NEW l, l = Len(Numeral(n))
    PROVE  /\ max < 4 => ScanRecordHeader(s, p + 1, max).st = "bad"
           /\ max >= 4 /\ p + l + 2 <= Len(s) => ScanRecordHeader(s, p + 1, max) = Ok(p + l + 3, n)
           /\ max >= 4 /\ p + l + 2 > Len(s) => ScanRecordHeader(s, p + 1, max).st = "short"
<1> DEFINE m == Len(s) d == Decimal(s, p + 2, MaxRecordFields) out == ScanRecordHeader(s, p + 1, max)
<1>1. p \in Nat /\ m \in Nat /\ p <= m
  <2>1. m \in Nat OBVIOUS
  <2> HIDE DEF m
  <2> QED BY <2>1 DEF m
<1>2. n \in Nat /\ n <= MaxNumber /\ n <= MaxRecordFields /\ MaxRecordFields \in Int
  BY SMT DEF MaxNumber, MaxRecordFields
<1>3. l \in Nat \ {0} BY <1>2, NumeralTyped
<1>4. Len(RecordPrefix) = 1 /\ RecordPrefix \in Seq(Nat) /\ RecordPrefix[1] = TGO BY DEF RecordPrefix, TGO
<1>5. out = IF max < 1 + 3 THEN Bad(p + 1)
            ELSE IF p + 1 + 1 > m + 1 THEN Short(m + 1)
            ELSE IF SubSeq(s, p + 1, p + 1 + 1 - 1) # RecordPrefix THEN Bad(p + 1 + 1)
            ELSE Decimal(s, p + 1 + 1, MaxRecordFields)
  <2>1. Len(RecordPrefix) = 1 BY <1>4
  <2> QED BY <2>1 DEF ScanRecordHeader, MinRecordOverhead
<1> HIDE DEF out
<1>6. out = IF max < 4 THEN Bad(p + 1)
            ELSE IF p + 1 > m THEN Short(m + 1)
            ELSE IF SubSeq(s, p + 1, p + 1) # RecordPrefix THEN Bad(p + 2) ELSE d
  <2>1. 1 + 3 = 4 /\ p + 1 + 1 = p + 2 /\ p + 1 + 1 - 1 = p + 1 /\ (p + 1 + 1 > m + 1 <=> p + 1 > m)
        /\ (p + 1) + 1 = p + 2
    BY <1>1
  <2> HIDE DEF m
  <2> QED BY <1>5, <2>1
<1>7. ASSUME p + 1 <= m PROVE SubSeq(s, p + 1, p + 1) = RecordPrefix
  <2>1. \A j \in 1..1 : s[p + j] = RecordPrefix[j] BY <1>4, <1>7
  <2>2. 1 \in 0..Len(RecordPrefix) BY <1>4
  <2>3. SubSeq(s, p + 1, p + 1) = SubSeq(RecordPrefix, 1, 1) BY <1>1, <1>4, <2>1, <2>2, CutOut
  <2>4. SubSeq(RecordPrefix, 1, 1) = RecordPrefix BY <1>4, SubSeqFull
  <2> QED BY <2>3, <2>4
<1>8. ASSUME p + 1 <= m
      PROVE  /\ p + l + 2 <= m => d = Ok(p + l + 3, n)
             /\ p + l + 2 > m => d = Short(m + 1)
  <2> DEFINE q == p + 1
  <2>1. q \in 0..Len(s) /\ q + 1 = p + 2 /\ q + l + 1 = p + l + 2 /\ q + l + 2 = p + l + 3 BY <1>1, <1>3, <1>8
  <2>2. AsFar(s, q, Numeral(n)) /\ ColonAfter(s, q, n) OBVIOUS
  <2> HIDE DEF q
  <2>3. /\ q + l + 1 <= m => Decimal(s, q + 1, MaxRecordFields) = Ok(q + l + 2, n)
        /\ q + l + 1 > m => Decimal(s, q + 1, MaxRecordFields) = Short(m + 1)
    BY <1>2, <2>1, <2>2, DecimalReads
  <2> QED BY <2>1, <2>3
<1> HIDE DEF d, m
<1>9. max < 4 => out.st = "bad" BY <1>6 DEF Bad
<1>10. ASSUME max >= 4, p + l + 2 <= m PROVE out = Ok(p + l + 3, n)
  <2>1. ~(max < 4) /\ ~(p + 1 > m) /\ p + 1 <= m BY <1>1, <1>3, <1>10
  <2> QED BY <1>6, <1>7, <1>8, <1>10, <2>1
<1>11. ASSUME max >= 4, p + l + 2 > m PROVE out.st = "short"
  <2>1. CASE p + 1 > m BY <1>6, <1>11, <2>1 DEF Short
  <2>2. CASE ~(p + 1 > m)
    <3>1. ~(max < 4) /\ p + 1 <= m BY <1>1, <1>11, <2>2
    <3> QED BY <1>6, <1>7, <1>8, <1>11, <2>2, <3>1 DEF Short
  <2> QED BY <2>1, <2>2
<1> QED BY <1>9, <1>10, <1>11 DEF out, m

FieldScanned(s, from, max, r) ==
    LET d == ScanField(s, r.at, max - (r.at - from)) IN
    IF r.st = "ok" THEN IF d.st = "ok" THEN Ok(d.at, Append(r.val, d.val)) ELSE d ELSE r

ScansFields(f, s, from, start, max, n) ==
    f = [k \in 0..n |-> IF k = 0 THEN Ok(start, <<>>) ELSE FieldScanned(s, from, max, f[k - 1])]

FieldsScanned(f, s, from, start, max, n) ==
    /\ f[0] = Ok(start, <<>>)
    /\ \A k \in 1..n : f[k] = FieldScanned(s, from, max, f[k - 1])

LEMMA FieldScansExist ==
    ASSUME NEW s, NEW from, NEW start, NEW max, NEW n \in Nat
    PROVE  \E f : ScansFields(f, s, from, start, max, n)
<1> DEFINE Step(k, f) == IF k = 0 THEN Ok(start, <<>>) ELSE FieldScanned(s, from, max, f[k - 1])
           S == {m \in Nat : \E f : f = [k \in 0..m |-> Step(k, f)]}
<1>1. 0 \in S
  <2>1. [k \in 0..0 |-> Ok(start, <<>>)] = [k \in 0..0 |-> Step(k, [j \in 0..0 |-> 0])] OBVIOUS
  <2>2. \A f, g : Step(0, f) = Step(0, g) OBVIOUS
  <2> DEFINE f == [k \in 0..0 |-> Ok(start, <<>>)]
  <2>3. f = [k \in 0..0 |-> Step(k, f)] BY <2>1, <2>2
  <2> HIDE DEF Step, f
  <2> QED BY <2>3
<1>2. ASSUME NEW m \in Nat \ {0}, m - 1 \in S PROVE m \in S
  <2>1. PICK f : f = [k \in 0..m - 1 |-> Step(k, f)] BY <1>2
  <2> DEFINE g == [k \in 0..m |-> Step(k, f)]
  <2>2. \A k \in 0..m - 1 : g[k] = f[k]
    <3> HIDE DEF Step
    <3>1. \A k \in 0..m - 1 : k \in 0..m OBVIOUS
    <3>2. \A k \in 0..m - 1 : f[k] = Step(k, f) BY <2>1
    <3>3. \A k \in 0..m : g[k] = Step(k, f) OBVIOUS
    <3> HIDE DEF g
    <3> QED BY <3>1, <3>2, <3>3
  <2>3. \A k \in 0..m : Step(k, g) = Step(k, f)
    <3> SUFFICES ASSUME NEW k \in 0..m PROVE Step(k, g) = Step(k, f) OBVIOUS
    <3> HIDE DEF g
    <3>1. k # 0 => k - 1 \in 0..m - 1 OBVIOUS
    <3> QED BY <2>2, <3>1
  <2>4. g = [k \in 0..m |-> Step(k, g)]
    <3> HIDE DEF Step
    <3> QED BY <2>3
  <2> HIDE DEF g, Step
  <2> QED BY <2>4
<1>3. Nat \subseteq S
  <2> HIDE DEF S
  <2> QED BY <1>1, <1>2, UpToAll
<1>4. \E f : f = [k \in 0..n |-> Step(k, f)]
  <2> HIDE DEF Step
  <2> QED BY <1>3
<1> QED BY <1>4 DEF ScansFields

Ended(s, from, max, r) ==
    IF r.st = "ok" THEN IF r.at - from >= max THEN Bad(r.at) ELSE Expect(s, r.at, LF, r.val) ELSE r

LEMMA RecordIs ==
    ASSUME NEW s, Len(s) \in Nat, NEW from, NEW max, NEW h, h = ScanRecordHeader(s, from, max)
    PROVE  /\ h.st # "ok" => ScanRecord(s, from, max) = h
           /\ h.st = "ok" /\ h.val \in Nat =>
                \E n, f : /\ n \in Nat /\ n = (IF h.val <= Len(s) THEN h.val ELSE Len(s))
                                  /\ FieldsScanned(f, s, from, h.at, max, n)
                                  /\ ScanRecord(s, from, max) = Ended(s, from, max, f[n])
<1>1. h.st # "ok" => ScanRecord(s, from, max) = h BY DEF ScanRecord, Then
<1>2. ASSUME h.st = "ok", h.val \in Nat
      PROVE  \E n, f : /\ n \in Nat /\ n = (IF h.val <= Len(s) THEN h.val ELSE Len(s))
                               /\ FieldsScanned(f, s, from, h.at, max, n)
                               /\ ScanRecord(s, from, max) = Ended(s, from, max, f[n])
  <2> DEFINE n == Min({h.val, Len(s)})
             F(f) == [k \in 0..n |->
                        IF k = 0 THEN Ok(h.at, <<>>)
                        ELSE Then(f[k - 1], LAMBDA at, vals :
                                 Then(ScanField(s, at, max - (at - from)), LAMBDA next, val :
                                     Ok(next, Append(vals, val))))]
             v == CHOOSE f : f = F(f)
  <2>1. n = (IF h.val <= Len(s) THEN h.val ELSE Len(s)) BY <1>2, LeastOfTwo
  <2>2. n \in Nat BY <1>2, <2>1
  <2>3. \A f : ScansFields(f, s, from, h.at, max, n) <=> f = F(f)
    <3> HIDE DEF n
    <3> QED BY DEF ScansFields, FieldScanned, Then
  <2>4. ScanRecord(s, from, max) = Ended(s, from, max, v[n]) BY <1>2 DEF ScanRecord, Then, Ended
  <2>5. ScansFields(v, s, from, h.at, max, n)
    <3> HIDE DEF n, F
    <3>1. \E f : f = F(f) BY <2>2, <2>3, FieldScansExist
    <3>2. v = F(v) BY <3>1
    <3> QED BY <2>3, <3>2
  <2> HIDE DEF n, v
  <2>6. FieldsScanned(v, s, from, h.at, max, n)
    <3>1. 0 \in 0..n /\ \A k \in 1..n : k \in 0..n /\ k # 0 BY <2>2
    <3> QED BY <2>5, <3>1 DEF ScansFields, FieldsScanned
  <2> QED BY <2>1, <2>2, <2>4, <2>6
<1> QED BY <1>1, <1>2

\* The scan r of the first k fields, which take c bytes after p + h, of all that take z.
FieldsSo(r, k, c, z, s, p, h, max, vals) ==
    /\ (k = 0 \/ h + c <= max) /\ p + h + c <= Len(s) => r = Ok(p + h + c + 1, vals)
    /\ h + z <= max /\ p + h <= Len(s) /\ p + h + c > Len(s) => r.st = "short"
    /\ ~(k = 0 \/ h + c <= max) /\ p + h + z <= Len(s) => r.st = "bad"

LEMMA FieldGoesOn ==
    ASSUME NEW v \in Seq(Nat), Len(v) <= MaxNumber, NEW s, Len(s) \in Nat, NEW p \in Nat, NEW h \in Nat,
           NEW max \in Int, NEW a \in Nat, NEW b \in Nat, NEW z \in Nat, a + b <= z,
           b = Len(EncodeField(v)), AsFar(s, p + h + a, EncodeField(v)),
           NEW k \in Nat \ {0}, NEW vals, NEW r,
           FieldsSo(r, k - 1, a, z, s, p, h, max, vals)
    PROVE  FieldsSo(FieldScanned(s, p + 1, max, r), k, a + b, z, s, p, h, max, Append(vals, v))
<1> DEFINE m == Len(s) q == p + h + a left == max - (h + a) out == FieldScanned(s, p + 1, max, r)
           d == ScanField(s, q + 1, left)
<1>1. m \in Nat OBVIOUS
<1>2. /\ (k - 1 = 0 \/ h + a <= max) /\ q <= m => r = Ok(q + 1, vals)
      /\ h + z <= max /\ p + h <= m /\ q > m => r.st = "short"
      /\ ~(k - 1 = 0 \/ h + a <= max) /\ p + h + z <= m => r.st = "bad"
  BY DEF FieldsSo
<1>3. ASSUME q <= m
      PROVE  /\ b <= left /\ q + b <= m => d = Ok(q + b + 1, v)
             /\ b <= left /\ q + b > m => d.st = "short"
             /\ b > left /\ q + b <= m => d.st = "bad"
  <2>1. q \in 0..Len(s) /\ left \in Int BY <1>3
  <2>2. AsFar(s, q, EncodeField(v)) OBVIOUS
  <2> HIDE DEF q, left
  <2> QED BY <2>1, <2>2, FieldReads
<1>4. ASSUME r = Ok(q + 1, vals)
      PROVE  out = IF d.st = "ok" THEN Ok(d.at, Append(vals, d.val)) ELSE d
  <2>1. r.st = "ok" /\ r.at = q + 1 /\ r.val = vals BY <1>4 DEF Ok
  <2>2. max - ((q + 1) - (p + 1)) = left OBVIOUS
  <2> HIDE DEF q, left
  <2> QED BY <2>1, <2>2 DEF FieldScanned
<1>5. r.st # "ok" => out = r BY DEF FieldScanned
<1> HIDE DEF out, d
<1>6. ASSUME h + (a + b) <= max, p + h + (a + b) <= m
      PROVE  out = Ok(p + h + (a + b) + 1, Append(vals, v))
  <2>1. h + a <= max /\ q <= m /\ b <= left /\ q + b <= m /\ q + b + 1 = p + h + (a + b) + 1
    BY <1>1, <1>6
  <2> HIDE DEF q, left, m
  <2>2. r = Ok(q + 1, vals) BY <1>2, <2>1
  <2>3. d = Ok(q + b + 1, v) BY <1>3, <2>1
  <2>4. d.st = "ok" /\ d.at = q + b + 1 /\ d.val = v BY <2>3 DEF Ok
  <2> QED BY <1>4, <2>1, <2>2, <2>4
<1>7. ASSUME h + z <= max, p + h <= m, p + h + (a + b) > m PROVE out.st = "short"
  <2>1. CASE q > m
    <3>1. r.st = "short" BY <1>2, <1>7, <2>1
    <3> QED BY <1>5, <3>1
  <2>2. CASE ~(q > m)
    <3>1. h + a <= max /\ q <= m /\ b <= left /\ q + b > m BY <1>1, <1>7, <2>2
    <3> HIDE DEF q, left, m
    <3>2. r = Ok(q + 1, vals) BY <1>2, <3>1
    <3>3. d.st = "short" BY <1>3, <3>1
    <3> QED BY <1>4, <3>2, <3>3
  <2> QED BY <2>1, <2>2
<1>8. ASSUME ~(h + (a + b) <= max), p + h + z <= m PROVE out.st = "bad"
  <2>1. q <= m /\ q + b <= m /\ b > left BY <1>1, <1>8
  <2>2. CASE k - 1 = 0 \/ h + a <= max
    <3> HIDE DEF q, left, m
    <3>1. r = Ok(q + 1, vals) BY <1>2, <2>1, <2>2
    <3>2. d.st = "bad" BY <1>3, <2>1
    <3> QED BY <1>4, <3>1, <3>2
  <2>3. CASE ~(k - 1 = 0 \/ h + a <= max)
    <3>1. r.st = "bad" BY <1>2, <1>8, <2>3
    <3> QED BY <1>5, <3>1
  <2> QED BY <2>2, <2>3
<1>9. k # 0 OBVIOUS
<1> QED BY <1>6, <1>7, <1>8, <1>9 DEF FieldsSo, out, m

LEMMA FieldsRead ==
    ASSUME NEW values \in Seq(Seq(Nat)), NEW N \in Nat, N = Len(values), NEW u,
           Concatenates(u, N, FieldsOf(values), Nat),
           NEW s, Len(s) \in Nat, NEW p \in Nat, NEW h \in Nat, NEW max \in Int,
           \A k \in 1..N : Len(values[k]) <= MaxNumber
                           /\ AsFar(s, p + h + Len(u[k - 1]), EncodeField(values[k])),
           NEW n \in 0..N, NEW f, FieldsScanned(f, s, p + 1, p + h + 1, max, n)
    PROVE  FieldsSo(f[n], n, Len(u[n]), Len(u[N]), s, p, h, max, SubSeq(values, 1, n))
<1> DEFINE z == Len(u[N])
           So(k) == FieldsSo(f[k], k, Len(u[k]), z, s, p, h, max, SubSeq(values, 1, k))
           S == {k \in Nat : k <= n => So(k)}
<1>1. \A k \in 0..N : u[k] \in Seq(Nat) /\ Len(u[k]) \in Nat /\ Len(u[k]) <= z
  <2> SUFFICES ASSUME NEW k \in 0..N PROVE u[k] \in Seq(Nat) /\ Len(u[k]) <= z BY LenProperties
  <2> QED BY DEF Concatenates
<1>2. z \in Nat
  <2>1. N \in 0..N OBVIOUS
  <2> QED BY <1>1, <2>1
<1> HIDE DEF z
<1>3. 0 \in S
  <2>1. u[0] = <<>> /\ Len(u[0]) = 0 BY DEF Concatenates
  <2>2. SubSeq(values, 1, 0) = <<>> BY SubSeqEmpty
  <2>3. f[0] = Ok(p + h + 1, <<>>) BY DEF FieldsScanned
  <2>4. p + h + 0 = p + h /\ ~(p + h <= Len(s) /\ p + h > Len(s)) OBVIOUS
  <2>5. So(0) BY <2>1, <2>2, <2>3, <2>4 DEF FieldsSo
  <2> QED BY <2>5
<1>4. ASSUME NEW k \in Nat \ {0}, k - 1 \in S PROVE k \in S
  <2> SUFFICES ASSUME k <= n PROVE So(k) OBVIOUS
  <2> DEFINE v == values[k] a == Len(u[k - 1]) b == Len(EncodeField(v)) c == Len(u[k])
             vals == SubSeq(values, 1, k - 1)
  <2>1. k \in 1..N /\ k - 1 \in 0..N /\ k \in 0..N /\ k \in 1..n /\ k - 1 <= n OBVIOUS
  <2>2. v \in Seq(Nat) /\ FieldsOf(values)[k] = EncodeField(v) /\ b \in Nat BY <2>1, FieldsTyped
  <2>3. c = a + b /\ a \in Nat /\ c <= z BY <1>1, <2>1, <2>2 DEF Concatenates
  <2>4. Len(v) <= MaxNumber /\ AsFar(s, p + h + a, EncodeField(v)) BY <2>1
  <2>5. FieldsSo(f[k - 1], k - 1, a, z, s, p, h, max, vals) BY <1>4, <2>1
  <2>6. f[k] = FieldScanned(s, p + 1, max, f[k - 1]) BY <2>1 DEF FieldsScanned
  <2>7. SubSeq(values, 1, k) = Append(vals, v) BY <2>1, PrefixGrows
  <2>8. b = Len(EncodeField(v)) OBVIOUS
  <2> HIDE DEF v, a, b, c, vals
  <2>9. FieldsSo(FieldScanned(s, p + 1, max, f[k - 1]), k, a + b, z, s, p, h, max, Append(vals, v))
    BY <1>2, <2>2, <2>3, <2>4, <2>5, <2>8, FieldGoesOn
  <2> QED BY <2>3, <2>6, <2>7, <2>9 DEF c
<1>5. Nat \subseteq S
  <2> HIDE DEF S
  <2> QED BY <1>3, <1>4, UpToAll
<1>6. n \in S BY <1>5
<1> QED BY <1>6 DEF z

LEMMA FieldsLong ==
    ASSUME NEW values \in Seq(Seq(Nat)), NEW N \in Nat, N = Len(values), NEW u,
           Concatenates(u, N, FieldsOf(values), Nat), NEW k \in 0..N
    PROVE  Len(u[k]) \in Nat /\ 3 * k <= Len(u[k])
<1> DEFINE S == {i \in Nat : i <= N => 3 * i <= Len(u[i])}
<1>1. \A i \in 0..N : Len(u[i]) \in Nat
  <2> SUFFICES ASSUME NEW i \in 0..N PROVE u[i] \in Seq(Nat) BY LenProperties
  <2> QED BY DEF Concatenates
<1>2. 0 \in S
  <2>1. Len(u[0]) = 0 BY DEF Concatenates
  <2> QED BY <2>1
<1>3. ASSUME NEW i \in Nat \ {0}, i - 1 \in S PROVE i \in S
  <2> SUFFICES ASSUME i <= N PROVE 3 * i <= Len(u[i]) OBVIOUS
  <2> DEFINE a == Len(u[i - 1]) b == Len(EncodeField(values[i])) c == Len(u[i]) d == Len(values[i])
  <2>1. i \in 1..N /\ i - 1 \in 0..N /\ i \in 0..N /\ i - 1 <= N OBVIOUS
  <2>2. b \in Nat /\ b >= d + 3 /\ FieldsOf(values)[i] = EncodeField(values[i]) /\ d \in Nat
    BY <2>1, FieldsTyped, LenProperties
  <2>3. c = a + b /\ a \in Nat /\ 3 * (i - 1) <= a BY <1>1, <1>3, <2>1, <2>2 DEF Concatenates
  <2> HIDE DEF a, b, c, d
  <2>4. 3 * i <= c BY <2>2, <2>3
  <2> QED BY <2>4 DEF c
<1>4. Nat \subseteq S
  <2> HIDE DEF S
  <2> QED BY <1>2, <1>3, UpToAll
<1> QED BY <1>1, <1>4

\* A record, as far as it goes, is before the reader.
RecordAhead(s, p, u, values, l) ==
    LET N == Len(values) z == Len(u[N]) IN
    /\ p + 1 <= Len(s) => s[p + 1] = TGO
    /\ AsFar(s, p + 1, Numeral(N)) /\ ColonAfter(s, p + 1, N)
    /\ \A k \in 1..N : Len(values[k]) <= MaxNumber
                       /\ AsFar(s, p + (l + 2) + Len(u[k - 1]), EncodeField(values[k]))
    /\ p + l + 2 + z + 1 <= Len(s) => s[p + l + 2 + z + 1] = LF

LEMMA RecordInSight ==
    ASSUME NEW values \in Seq(Seq(Nat)), NEW u, Concatenates(u, Len(values), FieldsOf(values), Nat),
           NEW w, NEW l, l = Len(Numeral(Len(values))), RecordLies(w, u, Len(values), Numeral(Len(values)), l),
           Len(w) <= MaxNumber, NEW s, Len(s) \in Nat, NEW p \in Nat, AsFar(s, p, w)
    PROVE  RecordAhead(s, p, u, values, l)
<1> DEFINE N == Len(values) z == Len(u[N]) m == Len(s) W == Len(w) a == Numeral(N)
<1>1. /\ N \in Nat /\ l \in Nat \ {0} /\ z \in Nat /\ W = l + 2 + z + 1
      /\ w[1] = TGO /\ w[l + 2] = Colon /\ w[l + 2 + z + 1] = LF
      /\ \A j \in 1..l : w[1 + j] = a[j]
      /\ \A j \in 1..z : w[l + 2 + j] = u[N][j]
  BY DEF RecordLies
<1>2. \A j \in 1..W : p + j <= m => s[p + j] = w[j] BY DEF AsFar
<1>3. W <= MaxNumber /\ m \in Nat OBVIOUS
<1>4. \A k \in 1..N : LET b == Len(EncodeField(values[k])) IN
          /\ Len(values[k]) \in Nat /\ b \in Nat /\ b >= Len(values[k]) + 3
          /\ Len(u[k - 1]) \in Nat /\ Len(u[k - 1]) + b <= z
          /\ \A j \in 1..b : u[N][Len(u[k - 1]) + j] = EncodeField(values[k])[j]
  <2> SUFFICES ASSUME NEW k \in 1..N
               PROVE  LET b == Len(EncodeField(values[k])) IN
                      /\ Len(values[k]) \in Nat /\ b \in Nat /\ b >= Len(values[k]) + 3
                      /\ Len(u[k - 1]) \in Nat /\ Len(u[k - 1]) + b <= z
                      /\ \A j \in 1..b : u[N][Len(u[k - 1]) + j] = EncodeField(values[k])[j]
      OBVIOUS
  <2>1. k - 1 \in 0..N /\ k \in 0..N BY <1>1
  <2>2. N \in Nat /\ N = Len(values) BY <1>1
  <2>3. /\ values[k] \in Seq(Nat) /\ FieldsOf(values)[k] = EncodeField(values[k])
        /\ Len(EncodeField(values[k])) \in Nat /\ Len(EncodeField(values[k])) >= Len(values[k]) + 3
    <3> HIDE DEF N
    <3> QED BY <2>2, FieldsTyped
  <2>4. Len(values[k]) \in Nat BY <2>3, LenProperties
  <2>5. Len(u[k - 1]) \in Nat
    <3> HIDE DEF N
    <3> QED BY <2>1, <2>2, FieldsLong
  <2>6. Len(u[k]) = Len(u[k - 1]) + Len(EncodeField(values[k])) /\ Len(u[k]) <= z
    BY <2>1, <2>3 DEF Concatenates
  <2>7. \A j \in 1..Len(EncodeField(values[k])) : u[N][Len(u[k - 1]) + j] = EncodeField(values[k])[j]
    BY <2>3 DEF Concatenates
  <2> HIDE DEF N, z
  <2> QED BY <2>3, <2>4, <2>5, <2>6, <2>7
<1> HIDE DEF N, z, m, W
<1>5. l \in Nat \ {0} /\ z \in Nat /\ W = l + 2 + z + 1 BY <1>1
<1>6. p + 1 <= m => s[p + 1] = TGO
  <2>1. 1 \in 1..W BY <1>5
  <2> QED BY <1>1, <1>2, <2>1
<1>7. AsFar(s, p + 1, Numeral(N))
  <2> SUFFICES ASSUME NEW j \in 1..l, (p + 1) + j <= m PROVE s[(p + 1) + j] = a[j] BY DEF AsFar, N, m
  <2> HIDE DEF a
  <2>1. 1 + j \in 1..W /\ p + (1 + j) = (p + 1) + j BY <1>5
  <2> QED BY <1>1, <1>2, <2>1
<1>8. ColonAfter(s, p + 1, N)
  <2> SUFFICES ASSUME (p + 1) + l + 1 <= m PROVE s[(p + 1) + l + 1] = Colon BY DEF ColonAfter, N, m
  <2>1. l + 2 \in 1..W /\ p + (l + 2) = (p + 1) + l + 1 BY <1>5
  <2> QED BY <1>1, <1>2, <2>1
<1>9. ASSUME NEW k \in 1..N
      PROVE  Len(values[k]) <= MaxNumber /\ AsFar(s, p + (l + 2) + Len(u[k - 1]), EncodeField(values[k]))
  <2> DEFINE e == EncodeField(values[k]) b == Len(e) c == Len(u[k - 1]) d == Len(values[k])
  <2>1. d \in Nat /\ b \in Nat /\ b >= d + 3 /\ c \in Nat /\ c + b <= z /\ \A j \in 1..b : u[N][c + j] = e[j]
    BY <1>4
  <2> HIDE DEF b, c, d, e
  <2>2. d <= MaxNumber BY <1>5, <1>3, <2>1, MaxIsNat
  <2>3. AsFar(s, p + (l + 2) + c, e)
    <3> SUFFICES ASSUME NEW j \in 1..b, p + (l + 2) + c + j <= m PROVE s[p + (l + 2) + c + j] = e[j]
        BY DEF AsFar, b, m
    <3>1. c + j \in 1..z /\ l + 2 + (c + j) \in 1..W /\ p + (l + 2 + (c + j)) = p + (l + 2) + c + j
      <4>1. c \in Nat /\ b \in Nat /\ c + b <= z /\ j \in Nat /\ 1 <= j /\ j <= b BY <2>1
      <4>2. c + j \in 1..z BY <1>5, <4>1
      <4> QED BY <1>5, <4>1, <4>2
    <3>2. s[p + (l + 2 + (c + j))] = w[l + 2 + (c + j)] BY <1>2, <3>1
    <3>3. w[l + 2 + (c + j)] = u[N][c + j] BY <1>1, <3>1
    <3>4. u[N][c + j] = e[j] BY <2>1
    <3> QED BY <3>1, <3>2, <3>3, <3>4
  <2> QED BY <2>2, <2>3 DEF c, d, e
<1>10. p + l + 2 + z + 1 <= m => s[p + l + 2 + z + 1] = LF
  <2>1. l + 2 + z + 1 \in 1..W /\ p + (l + 2 + z + 1) = p + l + 2 + z + 1 BY <1>5
  <2> QED BY <1>1, <1>2, <2>1
<1> QED BY <1>6, <1>7, <1>8, <1>9, <1>10 DEF RecordAhead, N, z, m

\* What ScanRecord makes of a record, as far as it goes.
RecordSo(r, s, p, W, max, values) ==
    /\ W <= max /\ p + W <= Len(s) => r = Ok(p + W + 1, values)
    /\ W <= max /\ p + W > Len(s) => r.st = "short"
    /\ W > max /\ p + W <= Len(s) => r.st = "bad"

LEMMA RecordReads ==
    ASSUME NEW values \in Seq(Seq(Nat)), Len(values) <= MaxRecordFields,
           Len(EncodeRecord(values)) <= MaxNumber, NEW s, Len(s) \in Nat, NEW p \in 0..Len(s),
           NEW max \in Int, AsFar(s, p, EncodeRecord(values))
    PROVE  RecordSo(ScanRecord(s, p + 1, max), s, p, Len(EncodeRecord(values)), max, values)
<1> DEFINE N == Len(values) w == EncodeRecord(values) a == Numeral(N) l == Len(a) m == Len(s) W == Len(w)
           out == ScanRecord(s, p + 1, max) head == ScanRecordHeader(s, p + 1, max)
<1>1. N \in Nat /\ N \in 0..MaxRecordFields /\ N <= MaxRecordFields
  <2>1. N \in Nat /\ N <= MaxRecordFields BY LenProperties
  <2>2. MaxRecordFields \in Nat BY DEF MaxRecordFields
  <2> HIDE DEF N
  <2> QED BY <2>1, <2>2
<1>2. PICK u : Prefixes(u, N, FieldsOf(values)) /\ Concat(FieldsOf(values)) = u[N] BY <1>1, RecordParts
<1>3. PartsIn(FieldsOf(values), N, Nat) BY <1>1, FieldsTyped
<1>4. Concatenates(u, N, FieldsOf(values), Nat) BY <1>1, <1>2, <1>3, Concatenation
<1>5. RecordLies(w, u, N, a, l) BY <1>2, <1>4, RecordLayout
<1> DEFINE z == Len(u[N])
<1>6. p \in Nat /\ m \in Nat /\ p <= m
  <2>1. m \in Nat OBVIOUS
  <2> HIDE DEF m
  <2> QED BY <2>1 DEF m
<1>7. RecordAhead(s, p, u, values, l) BY <1>4, <1>5, <1>6, RecordInSight
<1>8. l \in Nat \ {0} /\ z \in Nat /\ W = l + 2 + z + 1 BY <1>5 DEF RecordLies
<1>9. AsFar(s, p + 1, a) /\ ColonAfter(s, p + 1, N) /\ (p + 1 <= m => s[p + 1] = TGO)
      /\ (p + l + 2 + z + 1 <= m => s[p + l + 2 + z + 1] = LF)
  BY <1>7 DEF RecordAhead
<1>10. \A k \in 1..N : Len(values[k]) <= MaxNumber
                       /\ AsFar(s, p + (l + 2) + Len(u[k - 1]), EncodeField(values[k]))
  BY <1>7 DEF RecordAhead
<1> HIDE DEF w, W, out, head, z
<1>11. /\ max < 4 => head.st = "bad"
       /\ max >= 4 /\ p + l + 2 <= m => head = Ok(p + l + 3, N)
       /\ max >= 4 /\ p + l + 2 > m => head.st = "short"
  <2> HIDE DEF l, N
  <2>1. l = Len(Numeral(N)) BY DEF l
  <2> QED BY <1>1, <1>9, <2>1, HeaderReads DEF head, m
<1>12. \A k \in 0..N : Len(u[k]) \in Nat /\ 3 * k <= Len(u[k])
  <2> HIDE DEF N
  <2>1. N = Len(values) BY DEF N
  <2> QED BY <1>1, <1>4, <2>1, FieldsLong
<1>13. \A k \in 0..N : Len(u[k]) <= z BY <1>4 DEF Concatenates, z
<1>14. SubSeq(values, 1, N) = values BY SubSeqFull
<1>15. N = Len(values) /\ m = Len(s) OBVIOUS
<1> HIDE DEF N, l, m
<1> DEFINE h == l + 2
<1>16. ASSUME head = Ok(p + l + 3, N)
       PROVE  \E n, f : /\ n \in 0..N /\ n = (IF N <= m THEN N ELSE m)
                                 /\ FieldsSo(f[n], n, Len(u[n]), z, s, p, h, max, SubSeq(values, 1, n))
                                 /\ out = Ended(s, p + 1, max, f[n])
  <2>1. head.st = "ok" /\ head.val = N /\ head.at = p + h + 1
    <3>1. p + l + 3 = p + h + 1 BY <1>6, <1>8
    <3> QED BY <1>16, <3>1 DEF Ok
  <2>2. PICK n, f : /\ n \in Nat /\ n = (IF N <= m THEN N ELSE m)
                            /\ FieldsScanned(f, s, p + 1, p + h + 1, max, n)
                            /\ out = Ended(s, p + 1, max, f[n])
    <3> HIDE DEF h
    <3>1. head.val \in Nat BY <1>1, <2>1
    <3>2. \E n, f : /\ n \in Nat /\ n = (IF head.val <= Len(s) THEN head.val ELSE Len(s))
                            /\ FieldsScanned(f, s, p + 1, head.at, max, n)
                            /\ ScanRecord(s, p + 1, max) = Ended(s, p + 1, max, f[n])
      BY <2>1, <3>1, RecordIs DEF head
    <3> QED BY <1>15, <2>1, <3>2 DEF out
  <2>3. n \in 0..N /\ h \in Nat BY <1>1, <1>6, <1>8, <2>2
  <2>4. \A k \in 1..N : Len(values[k]) <= MaxNumber
                        /\ AsFar(s, p + h + Len(u[k - 1]), EncodeField(values[k]))
    BY <1>10
  <2> HIDE DEF h
  <2>5. FieldsSo(f[n], n, Len(u[n]), z, s, p, h, max, SubSeq(values, 1, n))
    BY <1>1, <1>4, <1>6, <1>15, <2>2, <2>3, <2>4, FieldsRead DEF z
  <2> QED BY <2>2, <2>3, <2>5
<1>17. h + z + 1 = W /\ h + 1 = l + 3 /\ h \in Nat /\ p + h + z + 1 = p + W /\ p + l + 2 = p + h
       /\ W \in Nat /\ p + l + 3 = p + h + 1 /\ W >= 4
  BY <1>6, <1>8
<1> HIDE DEF h
<1>18. out = head \/ head.st = "ok" BY RecordIs DEF out, head
<1>19. p + W <= m => s[p + W] = LF BY <1>9, <1>17
<1>20. \A vals : Ended(s, p + 1, max, Ok(p + h + z + 1, vals)) =
          IF h + z >= max THEN Bad(p + W) ELSE Expect(s, p + W, LF, vals)
  <2>1. (p + h + z + 1) - (p + 1) = h + z BY <1>6, <1>8, <1>17
  <2> QED BY <1>17, <2>1 DEF Ended, Ok
<1>21. ASSUME W <= max, p + W <= m PROVE out = Ok(p + W + 1, values)
  <2>1. max >= 4 /\ p + h <= m BY <1>6, <1>8, <1>17, <1>21
  <2>2. head = Ok(p + l + 3, N) BY <1>11, <1>17, <2>1
  <2>3. PICK n, f : /\ n \in 0..N /\ n = (IF N <= m THEN N ELSE m)
                             /\ FieldsSo(f[n], n, Len(u[n]), z, s, p, h, max, SubSeq(values, 1, n))
                             /\ out = Ended(s, p + 1, max, f[n])
    BY <1>16, <2>2
  <2>4. n = N
    <3>1. 3 * N <= Len(u[N]) /\ Len(u[N]) = z BY <1>1, <1>12 DEF z
    <3> QED BY <1>1, <1>6, <1>8, <1>17, <1>21, <2>3, <3>1
  <2>5. h + z <= max /\ p + h + z <= m /\ ~(h + z >= max) /\ ~(p + W > m) BY <1>1, <1>6, <1>8, <1>17, <1>21
  <2>6. f[n] = Ok(p + h + z + 1, values) BY <1>14, <2>3, <2>4, <2>5 DEF FieldsSo, z, m
  <2> QED BY <1>19, <1>20, <1>21, <2>3, <2>5, <2>6 DEF Expect, m
<1>22. ASSUME W <= max, p + W > m PROVE out.st = "short"
  <2>1. max >= 4 /\ h + z <= max /\ ~(h + z >= max) BY <1>8, <1>17, <1>22
  <2>2. CASE p + h > m
    <3>1. head.st = "short" BY <1>11, <1>17, <2>1, <2>2
    <3> QED BY <1>18, <3>1
  <2>3. CASE ~(p + h > m)
    <3>1. p + h <= m BY <1>6, <1>17, <2>3
    <3>2. head = Ok(p + l + 3, N) BY <1>11, <1>17, <2>1, <3>1
    <3>3. PICK n, f : /\ n \in 0..N /\ n = (IF N <= m THEN N ELSE m)
                               /\ FieldsSo(f[n], n, Len(u[n]), z, s, p, h, max, SubSeq(values, 1, n))
                               /\ out = Ended(s, p + 1, max, f[n])
      BY <1>16, <3>2
    <3> DEFINE c == Len(u[n])
    <3>4. c \in Nat /\ 3 * n <= c /\ c <= z BY <1>12, <1>13, <3>3
    <3>5. /\ (n = 0 \/ h + c <= max) /\ p + h + c <= m => f[n] = Ok(p + h + c + 1, SubSeq(values, 1, n))
          /\ h + z <= max /\ p + h <= m /\ p + h + c > m => f[n].st = "short"
      BY <3>3 DEF FieldsSo, m
    <3>6. CASE p + h + c > m
      <4>1. f[n].st = "short" BY <2>1, <3>1, <3>5, <3>6
      <4> QED BY <3>3, <4>1 DEF Ended
    <3>7. CASE ~(p + h + c > m)
      <4> HIDE DEF c
      <4>1. h + c <= max /\ p + h + c <= m /\ n = N BY <1>1, <1>6, <1>8, <1>17, <2>1, <3>3, <3>4, <3>7
      <4>2. c = z BY <4>1 DEF c, z
      <4>3. f[n] = Ok(p + h + z + 1, values) BY <1>14, <3>5, <4>1, <4>2
      <4>4. out = Expect(s, p + W, LF, values) BY <1>20, <2>1, <3>3, <4>3
      <4> QED BY <1>22, <4>4 DEF Expect, Short, m
    <3> QED BY <3>6, <3>7
  <2> QED BY <2>2, <2>3
<1>23. ASSUME W > max, p + W <= m PROVE out.st = "bad"
  <2>1. p + h <= m /\ p + h + z <= m /\ h + z >= max BY <1>6, <1>8, <1>17, <1>23
  <2>2. CASE max < 4
    <3>1. head.st = "bad" BY <1>11, <2>2
    <3> QED BY <1>18, <3>1
  <2>3. CASE ~(max < 4)
    <3>1. max >= 4 BY <2>3
    <3>2. head = Ok(p + l + 3, N) BY <1>11, <1>17, <2>1, <3>1
    <3>3. PICK n, f : /\ n \in 0..N /\ n = (IF N <= m THEN N ELSE m)
                               /\ FieldsSo(f[n], n, Len(u[n]), z, s, p, h, max, SubSeq(values, 1, n))
                               /\ out = Ended(s, p + 1, max, f[n])
      BY <1>16, <3>2
    <3>4. n = N
      <4>1. 3 * N <= Len(u[N]) /\ Len(u[N]) = z BY <1>1, <1>12 DEF z
      <4> QED BY <1>1, <1>6, <1>8, <1>17, <1>23, <3>3, <4>1
    <3>5. /\ n = 0 \/ h + z <= max => f[n] = Ok(p + h + z + 1, values)
          /\ ~(n = 0 \/ h + z <= max) => f[n].st = "bad"
      BY <1>14, <2>1, <3>3, <3>4 DEF FieldsSo, z, m
    <3>6. CASE n = 0 \/ h + z <= max
      <4>1. out = Bad(p + W) BY <1>20, <2>1, <3>3, <3>5, <3>6
      <4> QED BY <4>1 DEF Bad
    <3>7. CASE ~(n = 0 \/ h + z <= max)
      <4>1. f[n].st = "bad" BY <3>5, <3>7
      <4> QED BY <3>3, <4>1 DEF Ended
    <3> QED BY <3>6, <3>7
  <2> QED BY <2>2, <2>3
<1> QED BY <1>21, <1>22, <1>23 DEF RecordSo, out, W, w, m

-----------------------------------------------------------------------------
(* What is read as a record is the encoding of its fields.                  *)
Holds(s, p, v) == p + Len(v) <= Len(s) /\ \A j \in 1..Len(v) : s[p + j] = v[j]

LEMMA HeaderOnce ==
    ASSUME NEW s \in Seq(Nat), NEW p \in 0..Len(s), NEW max \in Int,
           ScanRecordHeader(s, p + 1, max).st = "ok"
    PROVE  \E n \in 0..MaxRecordFields : LET v == Numeral(n) l == Len(Numeral(n)) IN
              /\ ScanRecordHeader(s, p + 1, max) = Ok(p + l + 3, n)
              /\ p + l + 2 <= Len(s) /\ s[p + 1] = TGO /\ s[p + l + 2] = Colon
              /\ \A j \in 1..l : s[(p + 1) + j] = v[j]
<1> DEFINE m == Len(s) q == p + 1 d == Decimal(s, q + 1, MaxRecordFields)
           out == ScanRecordHeader(s, p + 1, max)
<1>1. p \in Nat /\ m \in Nat /\ p <= m
  <2>1. m \in Nat BY LenProperties
  <2> HIDE DEF m
  <2> QED BY <2>1 DEF m
<1>2. Len(RecordPrefix) = 1 /\ RecordPrefix \in Seq(Nat) /\ RecordPrefix[1] = TGO BY DEF RecordPrefix, TGO
<1>3. out = IF max < 1 + 3 THEN Bad(p + 1)
            ELSE IF p + 1 + 1 > m + 1 THEN Short(m + 1)
            ELSE IF SubSeq(s, p + 1, p + 1 + 1 - 1) # RecordPrefix THEN Bad(p + 1 + 1)
            ELSE Decimal(s, p + 1 + 1, MaxRecordFields)
  BY <1>2 DEF ScanRecordHeader, MinRecordOverhead
<1>4. out.st = "ok" OBVIOUS
<1> HIDE DEF out
<1>5. ~(p + 1 + 1 > m + 1) /\ SubSeq(s, p + 1, p + 1 + 1 - 1) = RecordPrefix /\ out = d
  <2>1. Bad(p + 1).st # "ok" /\ Short(m + 1).st # "ok" /\ Bad(p + 1 + 1).st # "ok" BY DEF Bad, Short
  <2>2. p + 1 + 1 = q + 1 OBVIOUS
  <2> HIDE DEF m, d
  <2> QED BY <1>3, <1>4, <2>1, <2>2 DEF d
<1>6. q \in 0..m /\ p + 1 + 1 - 1 = p + 1 /\ p + 1 \in 1..m
  <2> HIDE DEF m
  <2> QED BY <1>1, <1>5
<1>7. s[p + 1] = TGO
  <2>1. \A j \in 1..1 : s[p + j] \in Nat
    <3>1. s[p + 1] \in Nat BY <1>6, ElementOfSeq
    <3> QED BY <3>1
  <2> DEFINE x == <<s[p + 1]>>
  <2>2. x \in Seq(Nat) /\ Len(x) = 1 /\ x[1] = s[p + 1] BY <2>1
  <2> HIDE DEF x
  <2>3. \A j \in 1..1 : s[p + j] = x[j] BY <2>2
  <2>4. 1 \in 0..Len(x) BY <2>2
  <2>5. SubSeq(s, p + 1, p + 1) = SubSeq(x, 1, 1) BY <1>1, <2>2, <2>3, <2>4, CutOut
  <2>6. SubSeq(x, 1, 1) = x BY <2>2, SubSeqFull
  <2>7. x = RecordPrefix BY <1>5, <1>6, <2>5, <2>6
  <2> QED BY <1>2, <2>2, <2>7
<1>8. MaxRecordFields < MaxNumber /\ MaxRecordFields \in Nat BY SMT DEF MaxRecordFields, MaxNumber
<1>9. \E n \in Nat : LET v == Numeral(n) l == Len(Numeral(n)) IN
          /\ n <= MaxRecordFields /\ Decimal(s, q + 1, MaxRecordFields) = Ok(q + l + 2, n)
          /\ q + l + 1 <= Len(s) /\ s[q + l + 1] = Colon
          /\ \A j \in 1..l : s[q + j] = v[j]
  <2>1. q \in 0..Len(s) BY <1>6
  <2>2. d.st = "ok" BY <1>4, <1>5
  <2>3. MaxRecordFields \in Int BY <1>8
  <2> HIDE DEF q
  <2> QED BY <1>8, <2>1, <2>2, <2>3, DecimalOnce DEF d
<1>10. PICK n \in Nat : LET v == Numeral(n) l == Len(Numeral(n)) IN
          /\ n <= MaxRecordFields /\ d = Ok(q + l + 2, n)
          /\ q + l + 1 <= m /\ s[q + l + 1] = Colon
          /\ \A j \in 1..l : s[q + j] = v[j]
  <2> HIDE DEF q
  <2> QED BY <1>9 DEF d
<1> DEFINE l == Len(Numeral(n))
<1>11. l \in Nat BY NumeralTyped
<1> HIDE DEF l, m, d
<1>12. q + l + 2 = p + l + 3 /\ q + l + 1 = p + l + 2 BY <1>1, <1>11
<1>13. n \in 0..MaxRecordFields BY <1>8, <1>10
<1>14. out = Ok(p + l + 3, n) /\ p + l + 2 <= m /\ s[p + l + 2] = Colon
  BY <1>5, <1>10, <1>12 DEF l
<1>15. \A j \in 1..l : s[(p + 1) + j] = Numeral(n)[j] BY <1>10 DEF l
<1> QED BY <1>7, <1>13, <1>14, <1>15 DEF l, m, out

LEMMA FieldOnce ==
    ASSUME NEW s \in Seq(Nat), NEW q \in 0..Len(s), NEW left \in Int, left < MaxNumber,
           ScanField(s, q + 1, left).st = "ok"
    PROVE  \E v \in Seq(Nat) : /\ ScanField(s, q + 1, left) = Ok(q + Len(EncodeField(v)) + 1, v)
                               /\ Holds(s, q, EncodeField(v))
<1> DEFINE m == Len(s) d == Decimal(s, q + 1, left) out == ScanField(s, q + 1, left)
<1>1. q \in Nat /\ m \in Nat /\ q <= m
  <2>1. m \in Nat BY LenProperties
  <2> HIDE DEF m
  <2> QED BY <2>1 DEF m
<1>2. out = IF left <= 0 THEN Bad(q + 1)
            ELSE IF d.st = "ok" THEN AfterSize(s, q + 1, left, d.at, d.val) ELSE d
  BY FieldIs
<1>3. out.st = "ok" OBVIOUS
<1> HIDE DEF out
<1>4. d.st = "ok" /\ out = AfterSize(s, q + 1, left, d.at, d.val)
  <2>1. Bad(q + 1).st # "ok" BY DEF Bad
  <2> HIDE DEF d
  <2> QED BY <1>2, <1>3, <2>1
<1>5. PICK n \in Nat : LET v == Numeral(n) l == Len(Numeral(n)) IN
          /\ n <= left /\ d = Ok(q + l + 2, n)
          /\ q + l + 1 <= m /\ s[q + l + 1] = Colon
          /\ \A j \in 1..l : s[q + j] = v[j]
  BY <1>4, DecimalOnce
<1> DEFINE l == Len(Numeral(n)) at == q + l + 2
<1>6. l \in Nat \ {0} BY NumeralTyped
<1> HIDE DEF l, m, d
<1>7. d = Ok(at, n) /\ q + l + 1 <= m /\ s[q + l + 1] = Colon /\ \A j \in 1..l : s[q + j] = Numeral(n)[j]
  BY <1>5 DEF l
<1>8. d.at = at /\ d.val = n BY <1>7 DEF Ok
<1> HIDE DEF at
<1> DEFINE v == SubSeq(s, at, at + n - 1)
<1>9. out = IF n > left - (at - (q + 1)) - 1 THEN Bad(at)
            ELSE IF at + n > m + 1 THEN Short(m + 1)
            ELSE IF at + n > m THEN Short(at + n)
            ELSE IF s[at + n] = Comma THEN Ok(at + n + 1, v) ELSE Bad(at + n + 1)
  BY <1>4, <1>8 DEF AfterSize, Expect, m
<1>10. ~(at + n > m) /\ s[at + n] = Comma /\ out = Ok(at + n + 1, v)
  <2>1. Bad(at).st # "ok" /\ Short(m + 1).st # "ok" /\ Short(at + n).st # "ok" /\ Bad(at + n + 1).st # "ok"
    BY DEF Bad, Short
  <2> HIDE DEF v
  <2> QED BY <1>3, <1>9, <2>1
<1> DEFINE b == q + l + 1
<1>11. b \in Nat /\ b + 1 = at /\ b + n = at + n - 1 /\ at + n <= m /\ n \in 0..n /\ at + n = b + n + 1
  BY <1>1, <1>6, <1>10 DEF at
<1>12. v \in Seq(Nat) /\ Len(v) = n /\ \A j \in 1..n : v[j] = s[b + j]
  <2> HIDE DEF b
  <2>1. \A i \in b + 1..b + n : i \in 1..m BY <1>1, <1>11
  <2>2. \A i \in b + 1..b + n : s[i] \in Nat BY <2>1, ElementOfSeq DEF m
  <2>3. b + 1 \in Int /\ b + n \in Int /\ (IF b + 1 <= b + n THEN (b + n) - (b + 1) + 1 ELSE 0) = n
        /\ (b + n) - (b + 1) + 1 = n
    BY <1>11
  <2>4. /\ SubSeq(s, b + 1, b + n) \in Seq(Nat)
        /\ Len(SubSeq(s, b + 1, b + n)) = (IF b + 1 <= b + n THEN (b + n) - (b + 1) + 1 ELSE 0)
        /\ \A j \in 1..(b + n) - (b + 1) + 1 : SubSeq(s, b + 1, b + n)[j] = s[(b + 1) + j - 1]
    BY <2>2, <2>3, SubSeqProperties
  <2>5. v = SubSeq(s, b + 1, b + n) BY <1>11
  <2>6. \A j \in 1..n : (b + 1) + j - 1 = b + j BY <1>11
  <2> HIDE DEF v
  <2> QED BY <2>3, <2>4, <2>5, <2>6
<1> HIDE DEF v
<1> DEFINE f == EncodeField(v) e == Len(f)
<1>13. FieldLies(f, v, Numeral(n), n, l) BY <1>12, FieldParts DEF l
<1> HIDE DEF f, b
<1>14. e = l + n + 2 /\ q + e = b + n + 1 /\ q + e <= m /\ at + n + 1 = q + e + 1 /\ b = q + l + 1
       /\ at + n = q + e
  BY <1>1, <1>6, <1>11, <1>13 DEF FieldLies, b
<1>15. ASSUME NEW j \in 1..e PROVE s[q + j] = f[j]
  <2>1. CASE j \in 1..l BY <1>7, <1>13, <2>1 DEF FieldLies
  <2>2. CASE j = l + 1
    <3>1. q + j = q + l + 1 BY <1>1, <1>6, <2>2
    <3> QED BY <1>7, <1>13, <2>2, <3>1 DEF FieldLies
  <2>3. CASE j \in l + 2..l + 1 + n
    <3> DEFINE i == j - (l + 1)
    <3>1. i \in 1..n /\ j = l + 1 + i /\ q + j = b + i BY <1>1, <1>6, <1>14, <2>3
    <3> HIDE DEF i
    <3> QED BY <1>12, <1>13, <3>1 DEF FieldLies
  <2>4. CASE j = l + n + 2
    <3>1. q + j = at + n BY <1>14, <2>4
    <3> QED BY <1>10, <1>13, <2>4, <3>1 DEF FieldLies
  <2>5. j \in 1..l \/ j = l + 1 \/ j \in l + 2..l + 1 + n \/ j = l + n + 2 BY <1>6, <1>14
  <2> QED BY <2>1, <2>2, <2>3, <2>4, <2>5
<1>16. Holds(s, q, f) BY <1>14, <1>15 DEF Holds, m
<1>17. out = Ok(q + e + 1, v) BY <1>10, <1>14
<1> QED BY <1>12, <1>16, <1>17 DEF out, f

LEMMA ConcatTyped ==
    ASSUME NEW values \in Seq(Seq(Nat)), NEW n \in Nat, n = Len(values)
    PROVE  /\ Concat(FieldsOf(values)) \in Seq(Nat)
           /\ \E u : Concatenates(u, n, FieldsOf(values), Nat) /\ Concat(FieldsOf(values)) = u[n]
<1>1. PICK u : Prefixes(u, n, FieldsOf(values)) /\ Concat(FieldsOf(values)) = u[n] BY RecordParts
<1>2. PartsIn(FieldsOf(values), n, Nat) BY FieldsTyped
<1>3. Concatenates(u, n, FieldsOf(values), Nat) BY <1>1, <1>2, Concatenation
<1>4. n \in 0..n OBVIOUS
<1>5. u[n] \in Seq(Nat) BY <1>3, <1>4 DEF Concatenates
<1> QED BY <1>1, <1>3, <1>5

LEMMA ConcatGoesOn ==
    ASSUME NEW values \in Seq(Seq(Nat)), NEW v \in Seq(Nat)
    PROVE  Concat(FieldsOf(Append(values, v))) = Concat(FieldsOf(values)) \o EncodeField(v)
<1> DEFINE n == Len(values) more == Append(values, v) N == Len(more)
<1>1. n \in Nat /\ more \in Seq(Seq(Nat)) /\ N = n + 1 /\ N \in Nat /\ more[n + 1] = v
      /\ \A i \in 1..n : more[i] = values[i]
  BY LenProperties
<1>2. PICK f : Concatenates(f, n, FieldsOf(values), Nat) /\ Concat(FieldsOf(values)) = f[n]
  BY <1>1, ConcatTyped
<1>3. PICK g : Concatenates(g, N, FieldsOf(more), Nat) /\ Concat(FieldsOf(more)) = g[N]
  <2> HIDE DEF more
  <2> QED BY <1>1, ConcatTyped
<1>4. \A i \in 1..n : FieldsOf(values)[i] = EncodeField(values[i]) BY DEF FieldsOf
<1>5. \A i \in 1..N : FieldsOf(more)[i] = EncodeField(more[i]) BY DEF FieldsOf
<1> HIDE DEF n, more, N
<1> DEFINE S == {i \in Nat : i <= n => f[i] = g[i]}
<1>6. 0 \in S BY <1>2, <1>3 DEF Concatenates
<1>7. ASSUME NEW m \in Nat \ {0}, m - 1 \in S PROVE m \in S
  <2> SUFFICES ASSUME m <= n PROVE f[m] = g[m] OBVIOUS
  <2>1. m \in 1..n /\ m \in 1..N /\ m - 1 <= n BY <1>1
  <2>2. f[m - 1] = g[m - 1] BY <1>7, <2>1
  <2>3. f[m] = f[m - 1] \o EncodeField(values[m]) BY <1>2, <1>4, <2>1 DEF Concatenates
  <2>4. g[m] = g[m - 1] \o EncodeField(more[m]) BY <1>3, <1>5, <2>1 DEF Concatenates
  <2> QED BY <1>1, <2>1, <2>2, <2>3, <2>4
<1>8. Nat \subseteq S
  <2> HIDE DEF S
  <2> QED BY <1>6, <1>7, UpToAll
<1>9. f[n] = g[n] BY <1>1, <1>8
<1>10. g[N] = g[n] \o EncodeField(v)
  <2>1. N \in 1..N /\ N - 1 = n BY <1>1
  <2>2. g[N] = g[N - 1] \o EncodeField(more[N]) BY <1>3, <1>5, <2>1 DEF Concatenates
  <2> QED BY <1>1, <2>1, <2>2
<1> QED BY <1>2, <1>3, <1>9, <1>10 DEF more

\* The scan r of k fields, from q on, is of what encodes them.
FieldsFrom(r, k, s, q) ==
    LET t == Concat(FieldsOf(r.val)) IN
    /\ r.val \in Seq(Seq(Nat)) /\ Len(r.val) = k
    /\ Len(t) \in Nat /\ 3 * k <= Len(t) /\ r.at = q + Len(t) + 1 /\ Holds(s, q, t)

LEMMA FieldOnward ==
    ASSUME NEW s \in Seq(Nat), NEW p \in Nat, NEW h \in Nat, NEW max \in Int, max < MaxNumber,
           NEW k \in Nat \ {0}, NEW r, r.st = "ok" => FieldsFrom(r, k - 1, s, p + h),
           FieldScanned(s, p + 1, max, r).st = "ok"
    PROVE  FieldsFrom(FieldScanned(s, p + 1, max, r), k, s, p + h)
<1> DEFINE m == Len(s) out == FieldScanned(s, p + 1, max, r) d == ScanField(s, r.at, max - (r.at - (p + 1)))
           vals == r.val t == Concat(FieldsOf(vals)) a == Len(t) q == p + h + a left == max - (h + a)
<1>1. r.st = "ok" /\ d.st = "ok" /\ out = Ok(d.at, Append(vals, d.val)) BY DEF FieldScanned
<1>2. /\ vals \in Seq(Seq(Nat)) /\ Len(vals) = k - 1 /\ a \in Nat /\ 3 * (k - 1) <= a
      /\ r.at = p + h + a + 1 /\ p + h + a <= m /\ \A j \in 1..a : s[p + h + j] = t[j]
  BY <1>1 DEF FieldsFrom, Holds
<1>3. m \in Nat BY LenProperties
<1>4. t \in Seq(Nat)
  <2>1. k - 1 \in Nat OBVIOUS
  <2> HIDE DEF vals
  <2> QED BY <1>2, <2>1, ConcatTyped
<1> HIDE DEF out, d, vals, t, a, m
<1>5. q \in 0..m /\ r.at = q + 1 /\ max - (r.at - (p + 1)) = left /\ left \in Int /\ left < MaxNumber
  <2> DEFINE x == r.at
  <2>1. x = p + h + a + 1 /\ a \in Nat /\ p + h + a <= m BY <1>2
  <2> HIDE DEF x
  <2>2. q \in 0..m /\ x = q + 1 /\ max - (x - (p + 1)) = left /\ left \in Int BY <1>3, <2>1
  <2>3. left < MaxNumber BY <2>1, MaxIsNat
  <2> QED BY <2>2, <2>3 DEF x
<1>6. d = ScanField(s, q + 1, left) BY <1>5 DEF d
<1> HIDE DEF q, left
<1>7. PICK v \in Seq(Nat) : d = Ok(q + Len(EncodeField(v)) + 1, v) /\ Holds(s, q, EncodeField(v))
  BY <1>1, <1>5, <1>6, FieldOnce DEF m
<1> DEFINE e == EncodeField(v) b == Len(e) more == Append(vals, v) w == t \o e
<1>8. out = Ok(q + b + 1, more) BY <1>1, <1>7 DEF Ok
<1>9. more \in Seq(Seq(Nat)) /\ Len(more) = k
  <2>1. vals \in Seq(Seq(Nat)) /\ Len(vals) = k - 1 BY <1>2
  <2>2. more \in Seq(Seq(Nat)) /\ Len(more) = Len(vals) + 1 BY <2>1, AppendProperties
  <2>3. k - 1 + 1 = k OBVIOUS
  <2> QED BY <2>1, <2>2, <2>3
<1>10. Concat(FieldsOf(more)) = w BY <1>2, <1>7, ConcatGoesOn DEF t
<1>11. e \in Seq(Nat) /\ b \in Nat /\ b >= 3
  <2> DEFINE n == Len(v) l == Len(Numeral(n))
  <2>1. FieldLies(e, v, Numeral(n), n, l) BY FieldParts
  <2> HIDE DEF e, n, l
  <2>2. e \in Seq(Nat) /\ Len(e) = l + n + 2 /\ n \in Nat /\ l \in Nat \ {0} BY <2>1 DEF FieldLies
  <2> QED BY <2>2
<1>12. q + b <= m /\ \A j \in 1..b : s[q + j] = e[j] BY <1>7 DEF Holds, m
<1>13. w = t \o e /\ b = Len(e) OBVIOUS
<1> HIDE DEF e, b, more, w
<1>14. Joint(w, t, e, a, b, Nat)
  <2>1. Joint(t \o e, t, e, Len(t), Len(e), Nat) BY <1>4, <1>11, GluedAs
  <2> QED BY <1>13, <2>1 DEF a
<1>15. Len(w) = a + b /\ (\A j \in 1..a : w[j] = t[j]) /\ \A j \in 1..b : w[a + j] = e[j]
  BY <1>14 DEF Joint
<1>16. Len(w) \in Nat /\ 3 * k <= Len(w) /\ q + b + 1 = p + h + Len(w) + 1 /\ p + h + Len(w) <= m
  BY <1>2, <1>11, <1>12, <1>15 DEF q
<1>17. ASSUME NEW j \in 1..a + b PROVE s[p + h + j] = w[j]
  <2>1. CASE j \in 1..a BY <1>2, <1>15, <2>1
  <2>2. CASE j \notin 1..a
    <3> DEFINE i == j - a
    <3>1. i \in 1..b /\ j = a + i /\ q + i = p + h + j BY <1>2, <1>11, <2>2 DEF q
    <3> HIDE DEF i
    <3> QED BY <1>12, <1>15, <3>1
  <2> QED BY <2>1, <2>2
<1>18. Holds(s, p + h, w) BY <1>15, <1>16, <1>17 DEF Holds, m
<1>19. out.val = more /\ out.at = q + b + 1 BY <1>8 DEF Ok
<1> QED BY <1>9, <1>10, <1>16, <1>18, <1>19 DEF FieldsFrom, out

LEMMA FieldsOnce ==
    ASSUME NEW s \in Seq(Nat), NEW p \in Nat, NEW h \in Nat, p + h <= Len(s), NEW max \in Int,
           max < MaxNumber, NEW n \in Nat, NEW f, FieldsScanned(f, s, p + 1, p + h + 1, max, n),
           f[n].st = "ok"
    PROVE  FieldsFrom(f[n], n, s, p + h)
<1> DEFINE S == {k \in Nat : k <= n => (f[k].st = "ok" => FieldsFrom(f[k], k, s, p + h))}
<1>1. 0 \in S
  <2>1. f[0] = Ok(p + h + 1, <<>>) BY DEF FieldsScanned
  <2>2. f[0].val = <<>> /\ f[0].at = p + h + 1 BY <2>1 DEF Ok
  <2> DEFINE e == <<>>
  <2>3. e \in Seq(Seq(Nat)) /\ Len(e) = 0 OBVIOUS
  <2> HIDE DEF e
  <2>4. PICK u : Concatenates(u, 0, FieldsOf(e), Nat) /\ Concat(FieldsOf(e)) = u[0]
    <3> DEFINE o == 0
    <3>1. o \in Nat /\ o = Len(e) BY <2>3
    <3> HIDE DEF o
    <3>2. \E u : Concatenates(u, o, FieldsOf(e), Nat) /\ Concat(FieldsOf(e)) = u[o]
      BY <2>3, <3>1, ConcatTyped
    <3> QED BY <3>2 DEF o
  <2>5. Concat(FieldsOf(e)) = <<>> BY <2>4 DEF Concatenates
  <2> DEFINE t == Concat(FieldsOf(e))
  <2>6. Len(t) = 0 /\ \A j \in 1..Len(t) : FALSE BY <2>5
  <2>7. p + h + 0 = p + h /\ 3 * 0 <= 0 OBVIOUS
  <2> HIDE DEF t
  <2>8. f[0].val = e BY <2>2 DEF e
  <2>9. Holds(s, p + h, t) BY <2>6, <2>7 DEF Holds
  <2>10. FieldsFrom(f[0], 0, s, p + h) BY <2>2, <2>3, <2>6, <2>7, <2>8, <2>9 DEF FieldsFrom, t
  <2> QED BY <2>10
<1>2. ASSUME NEW k \in Nat \ {0}, k - 1 \in S PROVE k \in S
  <2> SUFFICES ASSUME k <= n, f[k].st = "ok" PROVE FieldsFrom(f[k], k, s, p + h) OBVIOUS
  <2>1. k \in 1..n /\ k - 1 <= n OBVIOUS
  <2>2. f[k] = FieldScanned(s, p + 1, max, f[k - 1]) BY <2>1 DEF FieldsScanned
  <2>3. f[k - 1].st = "ok" => FieldsFrom(f[k - 1], k - 1, s, p + h) BY <1>2, <2>1
  <2> QED BY <2>2, <2>3, FieldOnward
<1>3. Nat \subseteq S
  <2> HIDE DEF S
  <2> QED BY <1>1, <1>2, UpToAll
<1>4. n \in S BY <1>3
<1> QED BY <1>4

\* What is read as a record at p + 1 is one.
RecordFrom(r, s, p) ==
    LET w == EncodeRecord(r.val) IN
    /\ r.val \in Seq(Seq(Nat)) /\ Len(r.val) <= MaxRecordFields
    /\ w \in Seq(Nat) /\ Len(w) \in Nat \ {0} /\ r = Ok(p + Len(w) + 1, r.val) /\ Holds(s, p, w)

LEMMA RecordOnce ==
    ASSUME NEW s \in Seq(Nat), NEW p \in 0..Len(s), NEW max \in Int, max < MaxNumber,
           ScanRecord(s, p + 1, max).st = "ok"
    PROVE  RecordFrom(ScanRecord(s, p + 1, max), s, p)
<1> DEFINE m == Len(s) out == ScanRecord(s, p + 1, max) head == ScanRecordHeader(s, p + 1, max)
<1>1. p \in Nat /\ m \in Nat /\ p <= m
  <2>1. m \in Nat BY LenProperties
  <2> HIDE DEF m
  <2> QED BY <2>1 DEF m
<1>2. out.st = "ok" OBVIOUS
<1>3. head.st # "ok" => out = head BY <1>1, RecordIs
<1> HIDE DEF out, head
<1>4. head.st = "ok" BY <1>2, <1>3
<1>5. PICK N \in 0..MaxRecordFields : LET v == Numeral(N) l == Len(Numeral(N)) IN
              /\ head = Ok(p + l + 3, N)
              /\ p + l + 2 <= m /\ s[p + 1] = TGO /\ s[p + l + 2] = Colon
              /\ \A j \in 1..l : s[(p + 1) + j] = v[j]
  BY <1>4, HeaderOnce DEF head
<1> DEFINE a == Numeral(N) l == Len(a) h == l + 2
<1>6. N \in Nat /\ N <= MaxRecordFields BY DEF MaxRecordFields
<1>7. l \in Nat \ {0} BY <1>6, NumeralTyped
<1>8. head = Ok(p + l + 3, N) /\ p + l + 2 <= m /\ s[p + 1] = TGO /\ s[p + l + 2] = Colon
      /\ \A j \in 1..l : s[(p + 1) + j] = a[j]
  BY <1>5
<1> HIDE DEF l, m, a
<1>9. h \in Nat /\ p + h <= m /\ p + l + 3 = p + h + 1 /\ h = l + 2
  <2>1. p + l + 2 <= m BY <1>8
  <2> QED BY <1>1, <1>7, <2>1
<1>10. head.val = N /\ head.at = p + h + 1 BY <1>8, <1>9 DEF Ok
<1> HIDE DEF h
<1>11. PICK n, f : /\ n \in Nat /\ n = (IF N <= m THEN N ELSE m)
                           /\ FieldsScanned(f, s, p + 1, p + h + 1, max, n)
                           /\ out = Ended(s, p + 1, max, f[n])
  <2>1. Len(s) \in Nat /\ head.val \in Nat BY <1>1, <1>6, <1>10 DEF m
  <2>2. \E n, f : /\ n \in Nat /\ n = (IF head.val <= Len(s) THEN head.val ELSE Len(s))
                          /\ FieldsScanned(f, s, p + 1, head.at, max, n)
                          /\ ScanRecord(s, p + 1, max) = Ended(s, p + 1, max, f[n])
    BY <1>4, <2>1, RecordIs DEF head
  <2> QED BY <1>10, <2>2 DEF out, m
<1> DEFINE r == f[n] vals == r.val t == Concat(FieldsOf(vals)) z == Len(t)
<1>12. r.st = "ok" BY <1>2, <1>11 DEF Ended
<1>13. FieldsFrom(r, n, s, p + h)
  <2>1. p + h <= Len(s) BY <1>9 DEF m
  <2> QED BY <1>1, <1>9, <1>11, <1>12, <2>1, FieldsOnce
<1>14. /\ vals \in Seq(Seq(Nat)) /\ Len(vals) = n /\ z \in Nat /\ 3 * n <= z
       /\ r.at = p + h + z + 1 /\ p + h + z <= m /\ \A j \in 1..z : s[p + h + j] = t[j]
  BY <1>13 DEF FieldsFrom, Holds, m
<1> HIDE DEF r
<1>15. n = N BY <1>1, <1>7, <1>9, <1>11, <1>14 DEF h
<1>16. out = IF r.at - (p + 1) >= max THEN Bad(r.at)
             ELSE IF r.at > m THEN Short(r.at)
             ELSE IF s[r.at] = LF THEN Ok(r.at + 1, vals) ELSE Bad(r.at + 1)
  BY <1>11, <1>12 DEF Ended, Expect, m, r
<1>17. ~(r.at > m) /\ s[r.at] = LF /\ out = Ok(r.at + 1, vals)
  <2>1. Bad(r.at).st # "ok" /\ Short(r.at).st # "ok" /\ Bad(r.at + 1).st # "ok" BY DEF Bad, Short
  <2> HIDE DEF vals
  <2> QED BY <1>2, <1>16, <2>1
<1> DEFINE w == EncodeRecord(vals) W == Len(w)
<1>18. PICK u : Concatenates(u, n, FieldsOf(vals), Nat) /\ t = u[n]
  <2> HIDE DEF vals
  <2> QED BY <1>11, <1>14, ConcatTyped
<1>19. RecordLies(w, u, N, a, l)
  <2>1. n = Len(vals) /\ N = Len(vals) BY <1>14, <1>15
  <2> HIDE DEF vals
  <2>2. RecordLies(EncodeRecord(vals), u, Len(vals), Numeral(Len(vals)), Len(Numeral(Len(vals))))
    BY <1>14, <1>18, <2>1, RecordLayout
  <2> QED BY <2>1, <2>2 DEF a, l
<1> HIDE DEF w, t, vals
<1>20. /\ w \in Seq(Nat) /\ W = l + 2 + z + 1 /\ w[1] = TGO /\ w[l + 2] = Colon /\ w[l + 2 + z + 1] = LF
       /\ (\A j \in 1..l : w[1 + j] = a[j]) /\ \A j \in 1..z : w[l + 2 + j] = t[j]
  BY <1>15, <1>18, <1>19 DEF RecordLies
<1> HIDE DEF z, W
<1>21. W \in Nat \ {0} /\ r.at = p + W /\ p + W <= m /\ r.at + 1 = p + W + 1 /\ h + z + 1 = W
  BY <1>1, <1>7, <1>14, <1>17, <1>20 DEF h
<1>22. ASSUME NEW j \in 1..W PROVE s[p + j] = w[j]
  <2>1. CASE j = 1 BY <1>8, <1>20, <2>1
  <2>2. CASE j \in 2..l + 1
    <3> DEFINE i == j - 1
    <3>1. i \in 1..l /\ j = 1 + i /\ p + j = (p + 1) + i BY <1>1, <1>7, <2>2
    <3> HIDE DEF i
    <3> QED BY <1>8, <1>20, <3>1
  <2>3. CASE j = l + 2
    <3>1. p + j = p + l + 2 BY <1>1, <1>7, <2>3
    <3> QED BY <1>8, <1>20, <2>3, <3>1
  <2>4. CASE j \in l + 3..l + 2 + z
    <3> DEFINE i == j - (l + 2)
    <3>1. i \in 1..z /\ j = l + 2 + i /\ p + j = p + h + i
      <4>1. z \in Nat BY <1>14
      <4> QED BY <1>1, <1>7, <1>9, <2>4, <4>1
    <3> HIDE DEF i
    <3> QED BY <1>14, <1>20, <3>1
  <2>5. CASE j = l + 2 + z + 1
    <3>1. j = W /\ p + j = r.at BY <1>20, <1>21, <2>5
    <3> QED BY <1>17, <1>20, <2>5, <3>1
  <2>6. j = 1 \/ j \in 2..l + 1 \/ j = l + 2 \/ j \in l + 3..l + 2 + z \/ j = l + 2 + z + 1
    BY <1>7, <1>14, <1>20
  <2> QED BY <2>1, <2>2, <2>3, <2>4, <2>5, <2>6
<1>23. Holds(s, p, w) BY <1>21, <1>22 DEF Holds, m, W
<1>24. out = Ok(p + W + 1, vals) /\ out.val = vals
  <2>1. out = Ok(p + W + 1, vals) BY <1>17, <1>21
  <2> QED BY <2>1 DEF Ok
<1>25. Len(vals) <= MaxRecordFields /\ vals \in Seq(Seq(Nat)) BY <1>6, <1>14, <1>15
<1> QED BY <1>20, <1>21, <1>23, <1>24, <1>25 DEF RecordFrom, out, w, W

\* scanRecord: nothing but the encoding of its fields is read as a record, so damage to a length, a
\* separator or an end shows.
THEOREM EncodedOnce == ASSUME NEW s \in Seq(Nat), Len(s) < MaxNumber PROVE OneEncoding(s)
<1> DEFINE m == Len(s) out == ScanRecord(s, 1, m) w == EncodeRecord(out.val) W == Len(w)
<1>1. m \in Nat BY LenProperties
<1> SUFFICES ASSUME out.st = "ok" PROVE SubSeq(s, 1, out.at - 1) = w BY DEF OneEncoding
<1>2. RecordFrom(out, s, 0)
  <2>1. 0 \in 0..Len(s) /\ 0 + 1 = 1 /\ m \in Int /\ m < MaxNumber BY <1>1
  <2>2. ScanRecord(s, 0 + 1, m).st = "ok" BY <2>1
  <2> HIDE DEF m
  <2>3. RecordFrom(ScanRecord(s, 0 + 1, m), s, 0) BY <2>1, <2>2, RecordOnce
  <2> QED BY <2>1, <2>3
<1> HIDE DEF out
<1>3. w \in Seq(Nat) /\ W \in Nat \ {0} /\ out = Ok(0 + W + 1, out.val) /\ \A j \in 1..W : s[0 + j] = w[j]
  BY <1>2 DEF RecordFrom, Holds
<1>4. out.at = W + 1
  <2>1. Ok(0 + W + 1, out.val).at = 0 + W + 1 BY DEF Ok
  <2>2. out.at = 0 + W + 1 BY <1>3, <2>1
  <2> HIDE DEF W
  <2> QED BY <1>3, <2>2
<1> HIDE DEF w
<1>5. W \in 0..Len(w) /\ 0 \in Nat /\ 0 + 1 = 1 /\ 0 + W = W /\ out.at - 1 = W
  <2> HIDE DEF W
  <2>1. W \in 0..W /\ 0 + W = W /\ out.at - 1 = W BY <1>3, <1>4
  <2> QED BY <2>1 DEF W
<1>6. SubSeq(s, 1, W) = SubSeq(w, 1, W)
  <2>1. SubSeq(s, 0 + 1, 0 + W) = SubSeq(w, 1, W) BY <1>3, <1>5, CutOut
  <2> QED BY <1>5, <2>1
<1>7. SubSeq(w, 1, W) = w BY <1>3, SubSeqFull
<1> QED BY <1>5, <1>6, <1>7 DEF w

-----------------------------------------------------------------------------
(* Rows, read from the end of the text to its start.                        *)
RowAt(s, i) == ScanRecord(s, i, Len(s) - i + 1)
AfterRow(row, fc, r) ==
    IF Len(row.val) # fc THEN Bad(row.at)
    ELSE IF r.st = "ok" THEN Ok(r.at, <<row.val>> \o r.val) ELSE r
FromRow(s, fc, i, f) ==
    IF i > Len(s) THEN Ok(i, <<>>)
    ELSE IF RowAt(s, i).st = "ok" THEN AfterRow(RowAt(s, i), fc, f[RowAt(s, i).at])
    ELSE RowAt(s, i)
RowsFrom(f, s, fc) == f = [i \in 1..Len(s) + 1 |-> FromRow(s, fc, i, f)]

LEMMA RowAhead ==
    ASSUME NEW s \in Seq(Nat), Len(s) < MaxNumber, NEW i \in 1..Len(s), RowAt(s, i).st = "ok"
    PROVE  RowAt(s, i).at \in i + 1..Len(s) + 1
<1> DEFINE p == i - 1 max == Len(s) - i + 1 r == RowAt(s, i) w == EncodeRecord(r.val) W == Len(w) m == Len(s)
<1>1. m \in Nat BY LenProperties
<1>2. p \in 0..Len(s) /\ p + 1 = i /\ max \in Int /\ max < MaxNumber
  <2>1. m < MaxNumber /\ i \in 1..m /\ p \in 0..m /\ max = m - i + 1 OBVIOUS
  <2> HIDE DEF m
  <2> QED BY <1>1, <2>1, MaxIsNat DEF m
<1>3. RecordFrom(r, s, p)
  <2>1. r = ScanRecord(s, p + 1, max) BY <1>2 DEF RowAt
  <2>2. r.st = "ok" OBVIOUS
  <2> HIDE DEF r, p, max
  <2> QED BY <1>2, <2>1, <2>2, RecordOnce
<1> HIDE DEF r
<1>4. W \in Nat \ {0} /\ r = Ok(p + W + 1, r.val) /\ p + W <= m
  BY <1>3 DEF RecordFrom, Holds
<1>5. r.at = p + W + 1
  <2>1. Ok(p + W + 1, r.val).at = p + W + 1 BY DEF Ok
  <2> HIDE DEF W, p
  <2> QED BY <1>4, <2>1
<1> HIDE DEF W, m
<1>6. p + W + 1 \in i + 1..m + 1 BY <1>1, <1>2, <1>4
<1> QED BY <1>5, <1>6 DEF r, m

LEMMA RowsExist ==
    ASSUME NEW s \in Seq(Nat), Len(s) < MaxNumber, NEW fc PROVE \E f : RowsFrom(f, s, fc)
<1> DEFINE n == Len(s)
           P(f, k) == \A i \in n + 1 - k..n + 1 : f[i] = FromRow(s, fc, i, f)
           S == {k \in Nat : k <= n => \E f : DOMAIN f = 1..n + 1 /\ P(f, k)}
<1>0. n \in Nat BY LenProperties
<1>1. 0 \in S
  <2> DEFINE f == [i \in 1..n + 1 |-> Ok(i, <<>>)]
  <2>1. \A i \in n + 1 - 0..n + 1 : i = n + 1 /\ i > n /\ i \in 1..n + 1 OBVIOUS
  <2>2. P(f, 0) BY <2>1 DEF FromRow
  <2> QED BY <2>2
<1>2. ASSUME NEW m \in Nat \ {0}, m - 1 \in S PROVE m \in S
  <2> SUFFICES ASSUME m <= n PROVE \E f : DOMAIN f = 1..n + 1 /\ P(f, m) OBVIOUS
  <2>1. PICK f : DOMAIN f = 1..n + 1 /\ P(f, m - 1) BY <1>2
  <2> DEFINE q == n + 1 - m
             g == [i \in 1..n + 1 |-> IF i = q THEN FromRow(s, fc, i, f) ELSE f[i]]
  <2>2. q \in 1..n /\ n + 1 - (m - 1) = q + 1 OBVIOUS
  <2>3. \A i \in q + 1..n + 1 : i \in 1..n + 1 /\ g[i] = f[i] BY <2>2
  <2>4. \A i \in q..n + 1 : FromRow(s, fc, i, g) = FromRow(s, fc, i, f)
    <3> SUFFICES ASSUME NEW i \in q..n + 1 PROVE FromRow(s, fc, i, g) = FromRow(s, fc, i, f) OBVIOUS
    <3> HIDE DEF g, q
    <3>1. CASE i > n BY <3>1 DEF FromRow
    <3>2. CASE ~(i > n) /\ RowAt(s, i).st = "ok"
      <4>1. i \in 1..n BY <2>2, <3>2
      <4>2. RowAt(s, i).at \in i + 1..n + 1 BY <3>2, <4>1, RowAhead
      <4>3. RowAt(s, i).at \in q + 1..n + 1 BY <2>2, <4>1, <4>2
      <4> QED BY <2>3, <3>2, <4>3 DEF FromRow
    <3>3. CASE ~(i > n) /\ RowAt(s, i).st # "ok" BY <3>3 DEF FromRow
    <3> QED BY <3>1, <3>2, <3>3
  <2>5. \A i \in q..n + 1 : g[i] = FromRow(s, fc, i, g)
    <3> SUFFICES ASSUME NEW i \in q..n + 1 PROVE g[i] = FromRow(s, fc, i, f) BY <2>4
    <3>1. CASE i = q
      <4>1. i \in 1..n + 1 BY <2>2, <3>1
      <4> QED BY <3>1, <4>1
    <3>2. CASE i # q
      <4>1. i \in q + 1..n + 1 BY <2>2, <3>2
      <4>2. f[i] = FromRow(s, fc, i, f) BY <2>1, <2>2, <4>1
      <4> QED BY <2>3, <4>1, <4>2
    <3> QED BY <3>1, <3>2
  <2>6. DOMAIN g = 1..n + 1 OBVIOUS
  <2> HIDE DEF g
  <2> QED BY <2>5, <2>6
<1>3. Nat \subseteq S
  <2> HIDE DEF S
  <2> QED BY <1>1, <1>2, UpToAll
<1>4. PICK f : DOMAIN f = 1..n + 1 /\ P(f, n) BY <1>3
<1>5. n + 1 - n = 1 OBVIOUS
<1>6. \A i \in 1..n + 1 : f[i] = FromRow(s, fc, i, f) BY <1>4, <1>5
<1> DEFINE g == [i \in 1..n + 1 |-> f[i]]
<1>7. \A i \in 1..n + 1 : FromRow(s, fc, i, g) = FromRow(s, fc, i, f)
  <2> SUFFICES ASSUME NEW i \in 1..n + 1 PROVE FromRow(s, fc, i, g) = FromRow(s, fc, i, f) OBVIOUS
  <2>1. \A j \in 1..n + 1 : g[j] = f[j] OBVIOUS
  <2> HIDE DEF g
  <2>2. CASE i > n BY <2>2 DEF FromRow
  <2>3. CASE ~(i > n) /\ RowAt(s, i).st = "ok"
    <3>1. RowAt(s, i).at \in 1..n + 1
      <4>1. i \in 1..n BY <2>3
      <4> QED BY <2>3, <4>1, RowAhead
    <3> QED BY <2>1, <2>3, <3>1 DEF FromRow
  <2>4. CASE ~(i > n) /\ RowAt(s, i).st # "ok" BY <2>4 DEF FromRow
  <2> QED BY <2>2, <2>3, <2>4
<1>8. g = [i \in 1..n + 1 |-> FromRow(s, fc, i, g)]
  <2>1. \A i \in 1..n + 1 : g[i] = FromRow(s, fc, i, g) BY <1>6, <1>7
  <2>2. g = [i \in 1..n + 1 |-> g[i]] OBVIOUS
  <2> HIDE DEF g
  <2> QED BY <2>1, <2>2
<1> QED BY <1>8 DEF RowsFrom

LEMMA RowsFound ==
    ASSUME NEW s \in Seq(Nat), Len(s) < MaxNumber, NEW fc
    PROVE  \E f : /\ \A i \in 1..Len(s) + 1 : f[i] = FromRow(s, fc, i, f)
                  /\ ParseRecords(s, fc) = f[1]
<1> DEFINE F(g) == [i \in 1..Len(s) + 1 |->
                IF i > Len(s) THEN Ok(i, <<>>)
                ELSE Then(ScanRecord(s, i, Len(s) - i + 1), LAMBDA at, row :
                         IF Len(row) # fc THEN Bad(at)
                         ELSE Then(g[at], LAMBDA end, more : Ok(end, <<row>> \o more)))]
           f == CHOOSE g : g = F(g)
<1>1. \A g : RowsFrom(g, s, fc) <=> g = F(g) BY DEF RowsFrom, FromRow, RowAt, AfterRow, Then
<1>2. ParseRecords(s, fc) = f[1] BY DEF ParseRecords
<1>3. \E g : g = F(g)
  <2> HIDE DEF F
  <2> QED BY <1>1, RowsExist
<1>4. f = F(f)
  <2> HIDE DEF F
  <2> QED BY <1>3
<1>5. RowsFrom(f, s, fc) BY <1>1, <1>4
<1> HIDE DEF f
<1>6. \A i \in 1..Len(s) + 1 : f[i] = FromRow(s, fc, i, f) BY <1>5 DEF RowsFrom
<1> QED BY <1>2, <1>6

LEMMA RecordTyped ==
    ASSUME NEW values \in Seq(Seq(Nat))
    PROVE  EncodeRecord(values) \in Seq(Nat) /\ Len(EncodeRecord(values)) \in Nat \ {0}
<1> DEFINE n == Len(values) w == EncodeRecord(values)
<1>1. n \in Nat BY LenProperties
<1>2. PICK u : Concatenates(u, n, FieldsOf(values), Nat) /\ Concat(FieldsOf(values)) = u[n]
  <2> HIDE DEF n
  <2>1. n = Len(values) BY DEF n
  <2> QED BY <1>1, <2>1, ConcatTyped
<1>3. RecordLies(w, u, n, Numeral(n), Len(Numeral(n))) BY <1>2, RecordLayout
<1> HIDE DEF w, n
<1> DEFINE l == Len(Numeral(n)) z == Len(u[n]) W == Len(w)
<1>4. w \in Seq(Nat) /\ l \in Nat \ {0} /\ z \in Nat /\ W = l + 2 + z + 1 BY <1>3 DEF RecordLies
<1> HIDE DEF l, z, W
<1>5. W \in Nat \ {0} BY <1>4
<1> QED BY <1>4, <1>5 DEF w, W

\* EncodeRecord, scanRecord, ParseRecords: a record within the limit is read as the fields it was made
\* of and what follows it is left alone; a longer one is refused; one that is cut off is never taken
\* for a record; and rows come apart where they were put together.  For any fields, of any bytes.
THEOREM RecordReturns ==
    ASSUME NEW values \in Seq(Seq(Nat)), Len(values) <= MaxRecordFields,
           2 * Len(EncodeRecord(values)) < MaxNumber, NEW rest \in Seq(Nat), NEW max \in Int
    PROVE  ReadBack(values, rest, max)
<1> DEFINE w == EncodeRecord(values) W == Len(w) n == Len(values)
<1>1. w \in Seq(Nat) /\ W \in Nat \ {0} BY RecordTyped
<1>2. 2 * W < MaxNumber OBVIOUS
<1>3. W <= MaxNumber
  <2> HIDE DEF W
  <2> QED BY <1>1, <1>2, MaxIsNat
<1>4. ASSUME NEW s, Len(s) \in Nat, NEW p \in 0..Len(s), NEW k \in Int, AsFar(s, p, w)
      PROVE  RecordSo(ScanRecord(s, p + 1, k), s, p, W, k, values)
  BY <1>3, <1>4, RecordReads
<1> HIDE DEF W
<1>5. /\ W <= max => ScanRecord(w \o rest, 1, max) = Ok(W + 1, values)
      /\ W > max => ScanRecord(w \o rest, 1, max).st = "bad"
  <2> DEFINE s == w \o rest
  <2>1. Len(s) \in Nat /\ W <= Len(s) /\ \A j \in 1..W : s[j] = w[j]
    <3> HIDE DEF w
    <3> QED BY <1>1, Glued DEF W
  <2> HIDE DEF s
  <2>2. 0 \in 0..Len(s) /\ 0 + 1 = 1 /\ 0 + W = W /\ 0 + W + 1 = W + 1 /\ 0 + W <= Len(s) BY <1>1, <2>1
  <2>3. AsFar(s, 0, w)
    <3>1. \A j \in 1..W : 0 + j = j BY <1>1
    <3> QED BY <2>1, <3>1 DEF AsFar, W
  <2>4. RecordSo(ScanRecord(s, 0 + 1, max), s, 0, W, max, values) BY <1>4, <2>1, <2>2, <2>3
  <2> HIDE DEF w
  <2>5. RecordSo(ScanRecord(s, 1, max), s, 0, W, max, values) BY <2>2, <2>4
  <2> QED BY <2>2, <2>5 DEF RecordSo, s
<1>6. ASSUME NEW k \in 0..W - 1 PROVE ScanRecord(SubSeq(w, 1, k), 1, W).st = "short"
  <2> DEFINE s == SubSeq(w, 1, k)
  <2> HIDE DEF w
  <2>1. Len(s) = k /\ \A j \in 1..k : s[j] = w[j]
    <3>1. \A j \in 1..k : j \in 1..Len(w) BY <1>1 DEF W
    <3>2. \A j \in 1..k : w[j] \in Nat BY <1>1, <3>1, ElementOfSeq
    <3>3. 1 \in Int /\ k \in Int /\ (IF 1 <= k THEN k - 1 + 1 ELSE 0) = k /\ k - 1 + 1 = k
          /\ \A j \in 1..k : 1 + j - 1 = j
      BY <1>1
    <3>4. /\ Len(s) = (IF 1 <= k THEN k - 1 + 1 ELSE 0)
          /\ \A j \in 1..k - 1 + 1 : s[j] = w[1 + j - 1]
      BY <3>2, <3>3, SubSeqProperties
    <3> HIDE DEF s
    <3> QED BY <3>3, <3>4
  <2> HIDE DEF s
  <2>2. 0 \in 0..Len(s) /\ 0 + 1 = 1 /\ 0 + W > Len(s) /\ Len(s) \in Nat /\ W \in Int /\ W <= W
    BY <1>1, <2>1
  <2>3. AsFar(s, 0, w)
    <3>1. \A j \in 1..W : 0 + j = j /\ (j <= k => j \in 1..k) BY <1>1
    <3> QED BY <2>1, <3>1 DEF AsFar, W
  <2>4. RecordSo(ScanRecord(s, 0 + 1, W), s, 0, W, W, values) BY <1>4, <2>2, <2>3
  <2> QED BY <2>2, <2>4 DEF RecordSo, s
<1>7. ParseRecords(w \o w, n) = Ok(2 * W + 1, <<values, values>>)
  <2> DEFINE s == w \o w
  <2>1. s \in Seq(Nat) /\ Len(s) = W + W /\ (\A j \in 1..W : s[j] = w[j]) /\ \A j \in 1..W : s[W + j] = w[j]
    <3> HIDE DEF w
    <3> QED BY <1>1, Glued DEF W
  <2> HIDE DEF s
  <2>2. W + W = 2 * W /\ W + W \in Nat /\ W + W < MaxNumber BY <1>1, <1>2
  <2>3. PICK f : /\ \A i \in 1..W + W + 1 : f[i] = FromRow(s, n, i, f)
                 /\ ParseRecords(s, n) = f[1]
    <3>1. s \in Seq(Nat) /\ Len(s) < MaxNumber BY <2>1, <2>2
    <3>2. \E f : (\A i \in 1..Len(s) + 1 : f[i] = FromRow(s, n, i, f)) /\ ParseRecords(s, n) = f[1]
      BY <3>1, RowsFound
    <3> QED BY <2>1, <3>2
  <2>4. f[W + W + 1] = Ok(W + W + 1, <<>>)
    <3>1. W + W + 1 \in 1..W + W + 1 /\ W + W + 1 > W + W BY <2>2
    <3> QED BY <2>1, <2>3, <3>1 DEF FromRow
  <2>5. ASSUME NEW p \in {0, W} PROVE RowAt(s, p + 1) = Ok(p + W + 1, values)
    <3> DEFINE k == Len(s) - (p + 1) + 1
    <3>1. Len(s) \in Nat /\ p \in 0..Len(s) /\ k \in Int /\ W <= k /\ p + W <= Len(s) BY <1>1, <2>1, <2>2
    <3>2. AsFar(s, p, w)
      <4>1. \A j \in 1..W : 0 + j = j BY <1>1
      <4> QED BY <2>1, <4>1 DEF AsFar, W
    <3> HIDE DEF k
    <3>3. RecordSo(ScanRecord(s, p + 1, k), s, p, W, k, values) BY <1>4, <3>1, <3>2
    <3> HIDE DEF w
    <3>4. ScanRecord(s, p + 1, k) = Ok(p + W + 1, values) BY <3>1, <3>3 DEF RecordSo
    <3> QED BY <3>4 DEF RowAt, k
  <2> HIDE DEF w
  <2>6. ASSUME NEW p \in {0, W}
        PROVE  f[p + 1] = IF f[p + W + 1].st = "ok"
                          THEN Ok(f[p + W + 1].at, <<values>> \o f[p + W + 1].val) ELSE f[p + W + 1]
    <3>1. p + 1 \in 1..W + W + 1 /\ ~(p + 1 > W + W) BY <1>1
    <3>2. RowAt(s, p + 1) = Ok(p + W + 1, values) BY <2>5
    <3>3. RowAt(s, p + 1).st = "ok" /\ RowAt(s, p + 1).val = values /\ RowAt(s, p + 1).at = p + W + 1
      BY <3>2 DEF Ok
    <3>4. f[p + 1] = AfterRow(RowAt(s, p + 1), n, f[p + W + 1]) BY <2>1, <2>3, <3>1, <3>3 DEF FromRow
    <3> QED BY <3>3, <3>4 DEF AfterRow
  <2>7. f[W + 1] = Ok(W + W + 1, <<values>>)
    <3>1. f[W + W + 1].st = "ok" /\ f[W + W + 1].at = W + W + 1 /\ f[W + W + 1].val = <<>>
      BY <2>4 DEF Ok
    <3>2. <<values>> \o <<>> = <<values>> OBVIOUS
    <3> QED BY <2>6, <3>1, <3>2
  <2>8. f[0 + 1] = Ok(W + W + 1, <<values, values>>)
    <3>1. f[W + 1].st = "ok" /\ f[W + 1].at = W + W + 1 /\ f[W + 1].val = <<values>>
      BY <2>7 DEF Ok
    <3>2. <<values>> \o <<values>> = <<values, values>>
      <4> DEFINE x == <<values>> y == <<values, values>> X == {values}
      <4>1. x \in Seq(X) /\ Len(x) = 1 /\ x[1] = values OBVIOUS
      <4>2. y \in Seq(X) /\ Len(y) = 2 /\ y[1] = values /\ y[2] = values OBVIOUS
      <4> HIDE DEF x, y, X
      <4>3. Joint(x \o x, x, x, Len(x), Len(x), X) BY <4>1, GluedAs
      <4>4. x \o x \in Seq(X) /\ Len(x \o x) = 2 /\ (x \o x)[1] = values /\ (x \o x)[2] = values
        <5>1. /\ x \o x \in Seq(X) /\ Len(x \o x) = 1 + 1
              /\ \A i \in 1..1 : (x \o x)[i] = x[i]
              /\ \A i \in 1..1 : (x \o x)[1 + i] = x[i]
          BY <4>1, <4>3 DEF Joint
        <5>2. 1 \in 1..1 /\ 1 + 1 = 2 OBVIOUS
        <5> QED BY <4>1, <5>1, <5>2
      <4>5. \A i \in 1..2 : i = 1 \/ i = 2 OBVIOUS
      <4>6. x \o x = y BY <4>2, <4>4, <4>5, SeqEqual
      <4> QED BY <4>6 DEF x, y
    <3>3. 0 + W + 1 = W + 1 BY <1>1
    <3> QED BY <2>6, <3>1, <3>2, <3>3
  <2>9. 0 + 1 = 1 OBVIOUS
  <2> QED BY <2>2, <2>3, <2>8, <2>9 DEF s
<1>8. W <= max \/ W > max BY <1>1
<1> QED BY <1>1, <1>5, <1>6, <1>7, <1>8 DEF ReadBack, W
=============================================================================
