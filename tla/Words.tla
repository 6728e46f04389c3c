-------------------------------- MODULE Words --------------------------------
(* tmux's two dialects for the words of a command (internal/wire/words.go   *)
(* and argv.go): quoted command text, scanned byte by byte by two functions *)
(* that must agree on quotes, escapes and comments, and arguments.          *)
(*                                                                          *)
(* A text is a sequence of bytes.  A scan is the state after each byte.     *)
EXTENDS Integers, Sequences, FiniteSetsExt, TLC

Tab == 9
LF == 10
Space == 32
DQ == 34
Hash == 35
Dollar == 36
SQ == 39
Semi == 59
Backslash == 92
Underscore == 95
Backtick == 96
LBrace == 123
RBrace == 125
Tilde == 126
Digits == 48..57
Octal  == 48..55
Letter == 65..90 \cup 97..122
Blanks == {Space, Tab}

Refused == [ok |-> FALSE, val |-> <<>>]
Accepted(v) == [ok |-> TRUE, val |-> v]

\* strings.Trim(s, " \t")
TrimBlanks(s) ==
    LET keep == {i \in DOMAIN s : s[i] \notin Blanks} IN
    IF keep = {} THEN <<>> ELSE SubSeq(s, Min(keep), Max(keep))

Join(f(_), s) ==
    LET upTo[i \in 0..Len(s)] == IF i = 0 THEN <<>> ELSE upTo[i - 1] \o f(s[i]) IN upTo[Len(s)]

Scan(Step(_, _, _), start, text) ==
    LET after[i \in 0..Len(text)] == IF i = 0 THEN start ELSE Step(text, i, after[i - 1])
    IN after[Len(text)]

-----------------------------------------------------------------------------
(* Quotes, escapes and comments, shared by both scans.                      *)
Toggles(c, quote)   == (c = SQ /\ quote # DQ) \/ (c = DQ /\ quote # SQ)
Toggled(c, quote)   == IF ~Toggles(c, quote) THEN quote ELSE IF quote = c THEN 0 ELSE c
IsComment(c, quote, started) == c = Hash /\ quote = 0 /\ ~started
CanEscape(c, quote) == c = Backslash /\ quote # SQ
IsSequenceInvalid(c) == c \in {LBrace, RBrace, LF}

\* mapEscapeChar; every other byte stands for itself.
Special ==
    [c \in {97, 98, 101, 102, 110, 114, 115, 116, 118} |->
        CASE c = 97 -> 7 [] c = 98 -> 8 [] c = 101 -> 27 [] c = 102 -> 12 [] c = 110 -> LF
          [] c = 114 -> 13 [] c = 115 -> Space [] c = 116 -> Tab [] c = 118 -> 11]

\* parseOctalEscape: exactly three digits, neither NUL nor above a byte.
OctalAt(text, k) ==
    LET n == 64 * (text[k] - 48) + 8 * (text[k + 1] - 48) + text[k + 2] - 48 IN
    IF k + 2 <= Len(text) /\ (\A j \in k..k + 2 : text[j] \in Octal) /\ n \in 1..255
    THEN Accepted(<<n>>) ELSE Refused

\* parseEscape of the backslash at i: what it writes and how many bytes it takes after itself.
EscapeAt(text, i) ==
    IF i = Len(text) THEN [ok |-> FALSE, val |-> <<>>, takes |-> 0]
    ELSE LET c == text[i + 1] IN
         IF c \in Octal THEN LET o == OctalAt(text, i + 1) IN [ok |-> o.ok, val |-> o.val, takes |-> 3]
         ELSE [ok |-> TRUE, takes |-> 1,
               val |-> IF c = LF THEN <<>> ELSE IF c \in DOMAIN Special THEN <<Special[c]>> ELSE <<c>>]

-----------------------------------------------------------------------------
(* ParseWords: one command's words, without evaluating anything.            *)
StartsVariable(c) == c \in Letter \cup {LBrace, Underscore}

RefusedWordByte(text, i, s) ==
    LET c == text[i] IN
    \/ c = 0
    \/ s.quote # SQ /\ c = Dollar /\ i < Len(text) /\ StartsVariable(text[i + 1])
    \/ s.quote # SQ /\ c = Tilde /\ s.fresh

FlushWord(s) == IF s.started THEN [s EXCEPT !.words = Append(@, s.word), !.word = <<>>, !.started = FALSE]
                ELSE s

WordStep(text, i, s) ==
    LET c == text[i]
        e == EscapeAt(text, i)
    IN  IF ~s.ok \/ s.end THEN s
        ELSE IF s.skip > 0 THEN [s EXCEPT !.skip = @ - 1]
        ELSE IF s.quote = 0 /\ c \in Blanks THEN [FlushWord(s) EXCEPT !.fresh = TRUE]
        ELSE IF IsComment(c, s.quote, s.started) THEN [s EXCEPT !.end = TRUE]
        ELSE IF s.quote = 0 /\ (IsSequenceInvalid(c) \/ c = Semi) THEN [s EXCEPT !.ok = FALSE]
        ELSE IF Toggles(c, s.quote)
             THEN [s EXCEPT !.quote = Toggled(c, @), !.started = TRUE, !.fresh = TRUE]
        ELSE IF CanEscape(c, s.quote)
             THEN [s EXCEPT !.ok = e.ok, !.word = @ \o e.val, !.started = @ \/ e.val # <<>>,
                            !.skip = e.takes, !.fresh = FALSE]
        ELSE IF RefusedWordByte(text, i, s) THEN [s EXCEPT !.ok = FALSE]
        ELSE [s EXCEPT !.word = Append(@, c), !.started = TRUE, !.fresh = FALSE]

NoWords == [ok |-> TRUE, end |-> FALSE, words |-> <<>>, word |-> <<>>, quote |-> 0,
            started |-> FALSE, fresh |-> TRUE, skip |-> 0]

ParseWords(text) ==
    LET s == Scan(WordStep, NoWords, text) IN
    IF s.ok /\ s.quote = 0 THEN Accepted(FlushWord(s).words) ELSE Refused

-----------------------------------------------------------------------------
(* SplitSequence and SplitBindingSequence: the parts between separators,    *)
(* a bare ";" or, in a listing of bindings, also "\;".                      *)
WordStartedOnce(quote, c) == TRUE    \* mutant: a blank does not end a word
WordStarted(quote, c) == quote # 0 \/ c \notin Blanks

SplitStep(escapedSeparator, text, i, s) ==
    LET c == text[i]
        escaped == escapedSeparator /\ c = Backslash /\ i < Len(text) /\ text[i + 1] = Semi
        part    == TrimBlanks(SubSeq(text, s.start, i - 1))
        quote   == Toggled(c, s.quote)
    IN  IF ~s.ok \/ s.end THEN s
        ELSE IF s.skip > 0 THEN [s EXCEPT !.skip = @ - 1]
        ELSE IF IsComment(c, s.quote, s.started) THEN [s EXCEPT !.end = TRUE, !.cut = i - 1]
        ELSE IF s.quote = 0 /\ IsSequenceInvalid(c) THEN [s EXCEPT !.ok = FALSE]
        ELSE IF s.quote = 0 /\ (c = Semi \/ escaped)
             THEN LET more == IF escaped THEN 1 ELSE 0 IN
                  [s EXCEPT !.ok = part # <<>>, !.parts = Append(@, part),
                            !.start = i + more + 1, !.skip = more, !.started = FALSE]
        ELSE IF CanEscape(c, s.quote)
             THEN [s EXCEPT !.ok = i < Len(text), !.skip = 1, !.started = TRUE]
        ELSE [s EXCEPT !.quote = quote, !.started = WordStarted(quote, c)]

SplitWith(escapedSeparator, text) ==
    LET Step(t, i, s) == SplitStep(escapedSeparator, t, i, s)
        s == Scan(Step, [ok |-> TRUE, end |-> FALSE, parts |-> <<>>, start |-> 1, cut |-> Len(text),
                         quote |-> 0, started |-> FALSE, skip |-> 0], text)
        last == TrimBlanks(SubSeq(text, s.start, s.cut))
    IN  IF ~s.ok \/ s.quote # 0 THEN Refused
        ELSE Accepted(IF last = <<>> THEN s.parts ELSE Append(s.parts, last))

SplitSequence(text)        == SplitWith(FALSE, text)
SplitBindingSequence(text) == SplitWith(TRUE, text)

-----------------------------------------------------------------------------
(* QuoteWriter, WriteQuoted, EscapeArg, ValidCommand and LiteralFormat.     *)
SafeQuoteByteOld(b) == b \in 32..126 \ {DQ, Backslash}   \* mutant: "$" and "~" pass
SafeQuoteByte(b) == b \in 32..126 \ {DQ, Backslash, Dollar, Backtick, Tilde}

QuoteByte(b) ==
    IF SafeQuoteByte(b) THEN <<b>>
    ELSE <<Backslash, 48 + b \div 64, 48 + ((b \div 8) % 8), 48 + (b % 8)>>

ValidString(s) == \A i \in DOMAIN s : s[i] # 0
Requoted(s)    == Join(QuoteByte, s)
Quoted(s)      == <<DQ>> \o Requoted(s) \o <<DQ>>
ValidCommand(s) ==
    /\ s # <<>> /\ s[1] \in Letter
    /\ \A i \in DOMAIN s : s[i] \in Letter \cup Digits \cup {45, Underscore}

EscapeArg(s) ==
    IF s # <<>> /\ s[Len(s)] = Semi THEN SubSeq(s, 1, Len(s) - 1) \o <<Backslash, Semi>> ELSE s
=============================================================================
