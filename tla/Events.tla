-------------------------------- MODULE Events --------------------------------
(* Notifications of a control client (decodeEvent of tmux/events.go) and    *)
(* format subscriptions (WatchFormat of tmux/clients.go), whose values come *)
(* back in notifications.                                                   *)
(*                                                                          *)
(* Abstraction.  A text is a sequence of symbols: an identifier is one      *)
(* symbol, so are the two digits after a percent sign, and the rest are     *)
(* characters.                                                              *)
EXTENDS Integers, Sequences, FiniteSets, TLC
LOCAL INSTANCE SequencesExt
LOCAL INSTANCE FiniteSetsExt

SessionIDs == {"$0", "$1"}
WindowIDs  == {"@0", "@1"}
PaneIDs    == {"%0", "%1"}
Indexes    == {"0", "1"}
Blank      == <<" ">>

IsSessionID(text) == \E id \in SessionIDs : text = <<id>>
IsWindowID(text)  == \E id \in WindowIDs : text = <<id>>
IsPaneID(text)    == \E id \in PaneIDs : text = <<id>>
IsClientName(text) == text # <<>> /\ \A i \in DOMAIN text : text[i] \notin {"NUL", "LF", "CR"}

Unavailable == <<>>

Protocol == [ok |-> FALSE]
Accepted(event) == [ok |-> TRUE, event |-> event]
When(valid, event) == IF valid THEN Accepted(event) ELSE Protocol

\* strings.Cut, strings.Split and strings.Fields.
Cut(text, sep) ==
    LET n  == Len(sep)
        at == {i \in 1..Len(text) - n + 1 : SubSeq(text, i, i + n - 1) = sep}
        i  == Min(at)
    IN IF at = {} THEN [head |-> text, tail |-> <<>>, found |-> FALSE]
       ELSE [head |-> SubSeq(text, 1, i - 1), tail |-> SubSeq(text, i + n, Len(text)), found |-> TRUE]

Split(text) ==
    FoldLeft(LAMBDA ws, s : IF s = " " THEN Append(ws, <<>>) ELSE [ws EXCEPT ![Len(ws)] = Append(@, s)],
             <<<<>>>>, text)

Fields(text) == SelectSeq(Split(text), LAMBDA w : w # <<>>)

-----------------------------------------------------------------------------
(* Subscriptions.  WatchFormat makes tmux replace percent signs and line    *)
(* ends in the value, and a value that is pinned to a session say so.       *)
SubValue   == "TGO-SUB-1:"
SubSession == "TGO-SUB-SESSION-1:"

Encoded(value) ==
    FlattenSeq([i \in DOMAIN value |->
        CASE value[i] = "%" -> <<"%", "25">> [] value[i] = "LF" -> <<"%", "0A">>
          [] value[i] = "CR" -> <<"%", "0D">> [] OTHER -> <<value[i]>>])

\* The prefix that WatchFormat gives a target: a session is named, everything else is not.
WatchPrefix(target) == IF target \in SessionIDs THEN <<SubSession, target, ":">> ELSE <<SubValue>>

\* strings.NewReplacer: one pass from the left.
Unescape == [code \in {"25", "0A", "0D"} |->
                CASE code = "25" -> "%" [] code = "0A" -> "LF" [] code = "0D" -> "CR"]

\* As Replaced, in a pass for each code, the percent sign first.
ReplacedInTurn(text) ==
    LET pass(t, code) ==
        LET from[i \in 1..Len(t) + 1] ==
            IF i > Len(t) THEN <<>>
            ELSE IF t[i] = "%" /\ i < Len(t) /\ t[i + 1] = code
                 THEN <<Unescape[code]>> \o from[i + 2]
                 ELSE <<t[i]>> \o from[i + 1]
        IN from[1]
    IN pass(pass(pass(text, "25"), "0A"), "0D")

Replaced(text) ==
    LET from[i \in 1..Len(text) + 1] ==
        IF i > Len(text) THEN <<>>
        ELSE IF text[i] = "%" /\ i < Len(text) /\ text[i + 1] \in DOMAIN Unescape
             THEN <<Unescape[text[i + 1]]>> \o from[i + 2]
             ELSE <<text[i]>> \o from[i + 1]
    IN from[1]

SubscriptionData(data) ==
    LET target == Cut(Tail(data), <<":">>) IN
    IF data = <<>> \/ data[1] \notin {SubValue, SubSession}
    THEN Accepted([session |-> Unavailable, data |-> data])
    ELSE IF data[1] = SubValue
    THEN Accepted([session |-> Unavailable, data |-> Replaced(Tail(data))])
    ELSE When(target.found /\ IsSessionID(target.head),
              [session |-> target.head, data |-> Replaced(target.tail)])

\* The last identifier of a kind after the name; the index of a window stands at a place of its own.
Named(parts, Is(_)) ==
    LET at == {i \in 2..Len(parts) : Is(parts[i])} IN IF at = {} THEN Unavailable ELSE parts[Max(at)]

SubscriptionWindowIndex(parts) ==
    IF Len(parts) >= 4 /\ \E n \in Indexes : parts[4] = <<n>> THEN parts[4] ELSE Unavailable

DecodeSubscriptionEvent(rest) ==
    LET cut   == Cut(rest, <<" ", ":", " ">>)
        parts == Fields(cut.head)
        data  == SubscriptionData(cut.tail)
    IN IF ~cut.found \/ parts = <<>> \/ ~data.ok THEN Protocol
       ELSE Accepted([name |-> parts[1], window |-> Named(parts, IsWindowID),
                      session |-> IF data.event.session # Unavailable THEN data.event.session
                                  ELSE Named(parts, IsSessionID),
                      pane |-> Named(parts, IsPaneID), index |-> SubscriptionWindowIndex(parts),
                      data |-> data.event.data])

-----------------------------------------------------------------------------
(* The other notifications, by name.                                        *)
SessionEvents == {"session-changed", "session-renamed", "session-window-changed"}
WindowEvents  == {"window-add", "window-close", "window-renamed", "unlinked-window-add",
                  "unlinked-window-close", "unlinked-window-renamed"}
InvalidNames  == {"", "Output", "a_b"}    \* names with other characters than a-z, 0-9 and -

DecodeOutputEvent(name, rest) ==
    LET id   == Cut(rest, Blank)
        aged == Cut(id.tail, <<" ", ":", " ">>)
        age  == Fields(aged.head)
    IN IF name = "output" THEN When(IsPaneID(id.head), [pane |-> id.head, age |-> Unavailable,
                                                        data |-> id.tail])
       ELSE When(/\ IsPaneID(id.head) /\ aged.found /\ age # <<>>
                 /\ \E n \in Indexes : age[1] = <<n>>,
                 [pane |-> id.head, age |-> age[1], data |-> aged.tail])

DecodeLayoutEvent(rest) ==
    LET f == Split(rest) IN
    When(Len(f) = 4 /\ IsWindowID(f[1]) /\ f[2] # <<>> /\ f[3] # <<>>,
         [window |-> f[1], layout |-> f[2], visible |-> f[3], flags |-> f[4]])

DecodeSessionEvent(name, rest) ==
    LET cut == Cut(rest, Blank) IN
    When(IsSessionID(cut.head),
         [session |-> cut.head, text |-> IF name = "session-window-changed" THEN Unavailable
                                         ELSE cut.tail])

DecodeWindowEvent(rest) ==
    LET cut == Cut(rest, Blank) IN
    When(IsWindowID(cut.head), [window |-> cut.head, named |-> cut.found, text |-> cut.tail])

DecodeClientEvent(name, rest) ==
    LET client  == Cut(rest, Blank)
        session == Cut(client.tail, Blank)
    IN IF name = "client-detached"
       THEN When(IsClientName(client.head), [client |-> client.head, session |-> Unavailable])
       ELSE When(IsClientName(client.head) /\ IsSessionID(session.head),
                 [client |-> client.head, session |-> session.head])

DecodeTargetEvent(name, rest) ==
    LET cut == Cut(rest, Blank) IN
    CASE name \in {"pause", "continue", "pane-mode-changed"} -> When(IsPaneID(rest), [pane |-> rest])
      [] name \in {"paste-buffer-changed", "paste-buffer-deleted"} ->
            When(rest # <<>> /\ \A i \in DOMAIN rest : rest[i] # "NUL", [text |-> rest])
      [] name = "window-pane-changed" ->
            When(IsWindowID(cut.head) /\ IsPaneID(cut.tail), [window |-> cut.head, pane |-> cut.tail])

DecodeServerEvent(name, rest) ==
    LET cut == Cut(rest, Blank) IN
    IF name = "client-flags-changed"
    THEN When(IsClientName(cut.head), [client |-> cut.head, flags |-> cut.tail])
    ELSE Accepted([text |-> rest])

DecodeEvent(name, rest) ==
    CASE name \in InvalidNames -> Protocol
      [] name \in {"config-error", "message", "client-flags-changed"} -> DecodeServerEvent(name, rest)
      [] name \in {"pause", "continue", "pane-mode-changed", "paste-buffer-changed",
                   "paste-buffer-deleted", "window-pane-changed"} -> DecodeTargetEvent(name, rest)
      [] name \in {"output", "extended-output"} -> DecodeOutputEvent(name, rest)
      [] name = "layout-change" -> DecodeLayoutEvent(rest)
      [] name = "sessions-changed" -> Accepted([session |-> Unavailable, text |-> Unavailable])
      [] name \in SessionEvents -> DecodeSessionEvent(name, rest)
      [] name \in WindowEvents -> DecodeWindowEvent(rest)
      [] name \in {"client-session-changed", "client-detached"} -> DecodeClientEvent(name, rest)
      [] name = "subscription-changed" -> DecodeSubscriptionEvent(rest)
      [] OTHER -> Accepted([text |-> rest])

-----------------------------------------------------------------------------
(* What tmux writes (control-notify.c, control.c; not under src), for texts *)
(* that a caller or a program chose: a notification and what it means.      *)
Joined(words) ==
    FoldLeft(LAMBDA text, w : IF text = <<>> THEN w ELSE text \o Blank \o w, <<>>, words)

Told(texts) ==
    {[name |-> n, rest |-> <<s, " ">> \o t, event |-> [session |-> <<s>>, text |-> t]]
        : n \in {"session-changed", "session-renamed"}, s \in SessionIDs, t \in texts}
    \cup {[name |-> "session-window-changed", rest |-> <<s, " ", w>>,
           event |-> [session |-> <<s>>, text |-> Unavailable]] : s \in SessionIDs, w \in WindowIDs}
    \cup {[name |-> n, rest |-> <<w, " ">> \o t,
           event |-> [window |-> <<w>>, named |-> TRUE, text |-> t]]
              : n \in {"window-renamed", "unlinked-window-renamed"}, w \in WindowIDs, t \in texts}
    \cup {[name |-> n, rest |-> <<w>>, event |-> [window |-> <<w>>, named |-> FALSE, text |-> <<>>]]
              : n \in {"window-add", "window-close"}, w \in WindowIDs}
    \cup {[name |-> "client-session-changed", rest |-> <<"a", " ", s, " ">> \o t,
           event |-> [client |-> <<"a">>, session |-> <<s>>]] : s \in SessionIDs, t \in texts}
    \cup {[name |-> "layout-change", rest |-> Joined(<<<<w>>, <<"a">>, <<"b">>, f>>),
           event |-> [window |-> <<w>>, layout |-> <<"a">>, visible |-> <<"b">>, flags |-> f]]
              : w \in WindowIDs, f \in {<<>>, <<"a">>}}
    \cup {[name |-> n, rest |-> <<p>>, event |-> [pane |-> <<p>>]]
              : n \in {"pause", "continue", "pane-mode-changed"}, p \in PaneIDs}
    \cup {[name |-> "window-pane-changed", rest |-> <<w, " ", p>>,
           event |-> [window |-> <<w>>, pane |-> <<p>>]] : w \in WindowIDs, p \in PaneIDs}
    \cup {[name |-> n, rest |-> t, event |-> [text |-> t]]
              : n \in {"paste-buffer-changed", "message", "config-error", "exit"}, t \in texts \ {<<>>}}
    \cup {[name |-> "output", rest |-> <<p, " ">> \o t,
           event |-> [pane |-> <<p>>, age |-> Unavailable, data |-> t]] : p \in PaneIDs, t \in texts}
    \cup {[name |-> "extended-output", rest |-> Joined(<<<<p>>, <<"1">>, <<":">>>>) \o Blank \o t,
           event |-> [pane |-> <<p>>, age |-> <<"1">>, data |-> t]] : p \in PaneIDs, t \in texts}

\* A watch of a format whose value is a text: tmux names the session the client shows, and the
\* object when there is one; only the prefix tells of a session the watch is pinned to.
Watched(names, texts) ==
    LET header(n, s, w, i, p) == Joined(<<n, <<s>>, w, i, p>>) \o <<" ", ":", " ">>
        none == <<"-">>
    IN {[name |-> "subscription-changed",
         rest |-> header(n, s, w.window, w.index, w.pane) \o WatchPrefix(w.target) \o Encoded(t),
         event |-> [name |-> n, session |-> IF w.target \in SessionIDs THEN <<w.target>> ELSE <<s>>,
                    window |-> IF w.window = none THEN Unavailable ELSE w.window,
                    index |-> IF w.index = none THEN Unavailable ELSE w.index,
                    pane |-> IF w.pane = none THEN Unavailable ELSE w.pane, data |-> t]]
            : n \in names, s \in SessionIDs, t \in texts,
              w \in {[target |-> "$0", window |-> none, index |-> none, pane |-> none],
                     [target |-> "attached", window |-> none, index |-> none, pane |-> none],
                     [target |-> "@*", window |-> <<"@1">>, index |-> <<"1">>, pane |-> none],
                     [target |-> "%1", window |-> <<"@1">>, index |-> <<"0">>, pane |-> <<"%1">>]}}

\* A notification means what tmux wrote it for, whatever the names and values in it look like.
UnderstoodAsTold(told) == DecodeEvent(told.name, told.rest) = Accepted(told.event)
=============================================================================
