---------------------------- MODULE CommandText ----------------------------
(* A list of commands on its way to tmux and back (tmux/command.go,         *)
(* hooks.go): the same plan goes as one line over a control connection and  *)
(* as an argument vector to a process; tmux shows what it stored as text;   *)
(* and a caller may hand in either form to be parsed.                       *)
EXTENDS CommandList

Text(s)    == [nested |-> FALSE, text |-> s, nodes |-> <<>>]      \* wireArg
Nested(ns) == [nested |-> TRUE, text |-> <<>>, nodes |-> ns]
Node(name, args) == [name |-> name, args |-> args]                \* wireNode

RECURSIVE NodesText(_), Sendable(_)

\* writeArg and argv: a nested list is one argument, the text of its commands, quoted like any other.
ArgValue(a)  == IF a.nested THEN NodesText(a.nodes) ELSE a.text
NodeWords(n) == <<n.name>> \o [j \in DOMAIN n.args |-> ArgValue(n.args[j])]
Meant(nodes) == [i \in DOMAIN nodes |-> NodeWords(nodes[i])]
NodeText(n)  == WordsText(NodeWords(n))
NodesText(nodes) == TextOf(Meant(nodes))

\* Everything else makes text and argv fail: a name that is none, NUL in a quoted text.
Sendable(nodes) ==
    \A i \in DOMAIN nodes :
        /\ ValidCommand(nodes[i].name)
        /\ \A j \in DOMAIN nodes[i].args :
              LET a == nodes[i].args[j] IN
              IF a.nested THEN Sendable(a.nodes) ELSE ValidString(a.text)

\* plan.text, plan.size and plan.argv: the line, what it is charged for against a limit, the vector.
Line(nodes) == NodesText(nodes) \o <<LF>>
Size(nodes, maxBytes) ==
    LET n == Len(NodesText(nodes)) IN
    IF Sendable(nodes) /\ n < maxBytes THEN Accepted(n + 1) ELSE Refused
Argv(nodes) == ArgvOf(Meant(nodes))

-----------------------------------------------------------------------------
(* parseBinding: a line of list-keys.                                       *)
BindKey  == <<98, 105, 110, 100, 45, 107, 101, 121>>              \* bind-key
FlagR    == <<45, 114>>
FlagN    == <<45, 110>>
FlagT    == <<45, 84>>
FlagNote == <<45, 78>>
DashDash == <<45, 45>>
Root     == <<114, 111, 111, 116>>
Prefix   == <<112, 114, 101, 102, 105, 120>>

\* parseBindingFlags: where the key stands, 0 if an operand is missing.
FlagWidth(words, i) ==
    CASE words[i] \in {FlagR, FlagN} -> 1
      [] words[i] \in {FlagT, FlagNote} -> 2
      [] OTHER -> 0

BindingFlags(words) ==
    LET at[k \in 0..Len(words)] ==                     \* after k flags
            IF k = 0 THEN 2
            ELSE LET i == at[k - 1] IN
                 IF i = 0 \/ i > Len(words) THEN i
                 ELSE IF i + FlagWidth(words, i) > Len(words) + 1 THEN 0 ELSE i + FlagWidth(words, i)
        key   == at[Len(words)]
        flags == {i \in {at[k] : k \in 0..Len(words)} : i \in 1..Len(words) /\ FlagWidth(words, i) # 0}
        table == {i \in flags : words[i] \in {FlagT, FlagN}}
    IN  [key    |-> IF key \in 1..Len(words) /\ words[key] = DashDash THEN key + 1 ELSE key,
         repeat |-> \E i \in flags : words[i] = FlagR,
         table  |-> IF table = {} THEN Prefix
                    ELSE IF words[Max(table)] = FlagN THEN Root ELSE words[Max(table) + 1]]

\* KeyTable.Valid and the part of Key.Valid that any spelling of a key must pass.
ValidName(s) == s # <<>> /\ ValidString(s)

ParseBinding(raw) ==
    LET parts == SplitBindingSequence(raw)
        words == ParseWords(parts.val[1])
        f     == BindingFlags(words.val)
        first == SubSeq(words.val, f.key + 1, Len(words.val))
        rest  == Parsed(Tail(parts.val), FALSE)
    IN  IF parts.ok /\ parts.val # <<>> /\ words.ok /\ Len(words.val) >= 5 /\ words.val[1] = BindKey
           /\ f.key # 0 /\ f.key < Len(words.val) /\ ValidName(f.table) /\ ValidName(words.val[f.key])
           /\ ValidWords(first) /\ rest.ok
        THEN Accepted([table |-> f.table, key |-> words.val[f.key], repeat |-> f.repeat,
                       commands |-> <<first>> \o rest.val])
        ELSE Refused

-----------------------------------------------------------------------------
(* Properties, of one plan and of one text.                                 *)
\* How tmux lists a binding of these commands to the key "a" (not under src).
BoundTo == <<97>>
Listed(nodes, table, repeat) ==
    BindKey \o <<Space>> \o (IF repeat THEN FlagR \o <<Space>> ELSE <<>>)
    \o FlagT \o <<Space>> \o table \o <<Space>> \o BoundTo \o <<Space>> \o NodeText(nodes[1])
    \o Join(LAMBDA n : <<Space, Backslash, Semi, Space>> \o NodeText(n), Tail(nodes))

\* Both transports deliver the commands that were meant, whatever bytes their arguments hold and
\* however deep a command is nested in an argument, and what tmux shows of them reads back as the
\* same; the line of a control connection is one line and is charged in full.
DeliversTheSame(nodes) ==
    Sendable(nodes) =>
        /\ Arrives(Meant(nodes))
        /\ nodes # <<>> =>
              \A table \in {Root, Prefix}, repeat \in BOOLEAN :
                  ParseBinding(Listed(nodes, table, repeat)) =
                      Accepted([table |-> table, key |-> BoundTo, repeat |-> repeat,
                                commands |-> Meant(nodes)])
        /\ \A max \in 0..Len(Line(nodes)) + 1 :
              Size(nodes, max) = IF Len(Line(nodes)) <= max THEN Accepted(Len(Line(nodes))) ELSE Refused
        /\ \A i \in DOMAIN nodes : \A j \in DOMAIN nodes[i].args :
              LET a == nodes[i].args[j] IN
              a.nested => ParseSequence(ArgValue(a)) = Accepted(Meant(a.nodes))
=============================================================================
