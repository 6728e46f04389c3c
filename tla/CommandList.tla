---------------------------- MODULE CommandList ----------------------------
(* A list of commands, each a list of words, as the line of a control       *)
(* connection and as the argument vector of a process (tmux/command.go,     *)
(* hooks.go), and how either is read back.  What a command nested in an     *)
(* argument adds is in CommandText.                                         *)
EXTENDS Words

\* writeNode, writeArg and writeNodes
SpacedArg(v)      == <<Space>> \o Quoted(v)
WordsText(words)  == words[1] \o Join(SpacedArg, Tail(words))
Separator         == <<Space, Semi, Space>>
Separated(words)  == Separator \o WordsText(words)
TextOf(lists)     ==
    IF lists = <<>> THEN <<>> ELSE WordsText(lists[1]) \o Join(Separated, Tail(lists))

\* plan.argv
WordsArgv(words)  == <<words[1]>> \o [i \in 1..Len(words) - 1 |-> EscapeArg(words[i + 1])]
AfterSemi(words)  == <<<<Semi>>>> \o WordsArgv(words)
ArgvOf(lists)     ==
    IF lists = <<>> THEN <<>> ELSE WordsArgv(lists[1]) \o Join(AfterSemi, Tail(lists))

-----------------------------------------------------------------------------
(* splitArgvCommands, as tmux does it: a word ";" or a trailing ";" ends a  *)
(* command, a trailing "\;" is a semicolon.                                 *)
ArgvStep(args, i, s) ==
    LET a     == args[i]
        semi  == a # <<>> /\ a[Len(a)] = Semi
        cut   == IF semi THEN SubSeq(a, 1, Len(a) - 1) ELSE a
        kept  == semi /\ cut # <<>> /\ cut[Len(cut)] = Backslash
        end   == semi /\ ~kept
        word  == IF kept THEN SubSeq(cut, 1, Len(cut) - 1) \o <<Semi>> ELSE cut
        words == IF end /\ word = <<>> THEN s.current ELSE Append(s.current, word)
    IN  IF end /\ words # <<>> THEN [cmds |-> Append(s.cmds, words), current |-> <<>>]
        ELSE [s EXCEPT !.current = words]

SplitArgvCommands(args) ==
    LET s == Scan(ArgvStep, [cmds |-> <<>>, current |-> <<>>], args) IN
    IF s.current = <<>> THEN s.cmds ELSE Append(s.cmds, s.current)

\* NewCommand and Sequence: every list of words is a command, or none is taken.
ValidWords(words) == ValidCommand(words[1]) /\ \A i \in DOMAIN words : ValidString(words[i])
Sequence(lists) ==
    IF \A i \in DOMAIN lists : ValidWords(lists[i]) THEN Accepted(lists) ELSE Refused

\* The words of each part; ParseSequence passes over a part that is only a comment or a
\* continuation, parsePayload and parseBindingParts give up on it.
WordsOf(parts) == [i \in DOMAIN parts |-> ParseWords(parts[i])]
KeepWords(lists, i, kept) == IF lists[i] = <<>> THEN kept ELSE Append(kept, lists[i])
NonEmpty(lists) == Scan(KeepWords, <<>>, lists)

Parsed(parts, skipEmpty) ==
    LET words == WordsOf(parts)
        lists == [i \in DOMAIN words |-> words[i].val]
    IN  IF \E i \in DOMAIN words : ~words[i].ok \/ (~skipEmpty /\ words[i].val = <<>>) THEN Refused
        ELSE Sequence(NonEmpty(lists))

ParseSequence(text) ==
    LET parts == SplitSequence(text) IN IF parts.ok THEN Parsed(parts.val, TRUE) ELSE Refused

ParsePayload(raw) ==
    LET parts == SplitSequence(raw) IN IF parts.ok THEN Parsed(parts.val, FALSE) ELSE Refused

-----------------------------------------------------------------------------
\* Both transports deliver the words that were meant, whatever bytes they hold, and the text is one
\* line (writeNodes and argv; ParseSequence, parsePayload and splitArgvCommands read them back).
Arrives(lists) ==
    (\A i \in DOMAIN lists : ValidWords(lists[i])) =>
        /\ ParseSequence(TextOf(lists)) = Accepted(lists)
        /\ ParsePayload(TextOf(lists)) = Accepted(lists)
        /\ SplitArgvCommands(ArgvOf(lists)) = lists
        /\ \A i \in DOMAIN TextOf(lists) : TextOf(lists)[i] # LF

\* One scan that ends a command at every semicolon it meets outside quotes and escapes.
CommandStep(text, i, s) ==
    LET split == s.ok /\ ~s.end /\ s.skip = 0 /\ s.quote = 0 /\ text[i] = Semi
        f     == FlushWord(s)
    IN  IF split THEN [f EXCEPT !.cmds = Append(@, f.words), !.words = <<>>, !.fresh = TRUE]
        ELSE WordStep(text, i, s)

NoCommands == [ok |-> TRUE, end |-> FALSE, cmds |-> <<>>, words |-> <<>>, word |-> <<>>, quote |-> 0,
               started |-> FALSE, fresh |-> TRUE, skip |-> 0]

CommandsIn(text) ==
    LET s == FlushWord(Scan(CommandStep, NoCommands, text)) IN
    IF s.ok /\ s.quote = 0 THEN Accepted(NonEmpty(Append(s.cmds, s.words))) ELSE Refused

Continued(text) == \E i \in 1..Len(text) - 1 : text[i] = Backslash /\ text[i + 1] = LF

\* The scan that splits and the scan that parses see the same quotes, escapes and comments: what
\* is accepted are the commands of the text.
SplitsAsItParses(text) ==
    ParseSequence(text).ok /\ ~Continued(text) => CommandsIn(text) = Accepted(ParseSequence(text).val)
=============================================================================
