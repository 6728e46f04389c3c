----------------------------- MODULE ControlCodec -----------------------------
(* The stream of a control client (tmux/control_codec.go): what the daemon  *)
(* sent comes through a pipe or a terminal, in reads of any size, and is    *)
(* taken apart into frames and notifications.  Records stand in frames by   *)
(* their length, everything else line by line.                              *)
(*                                                                          *)
(* Abstraction.  The word a line starts with, an identity of a frame and a  *)
(* whole notification or marker are one symbol each; other symbols are      *)
(* bytes.  Note starts a notification of tmux; a line of bytes may read as  *)
(* one all the same.                                                        *)
EXTENDS Records

CONSTANTS Scripts,     \* what daemons send: sequences of events and frames
          MaxRoom,     \* bound: room in the buffer of the reader when it asks for more
          BufSize,     \* readerBufferSize
          FrameBytes,  \* Connection.opts.FrameBytes
          Misnamed     \* lines with the name of an event and without what it should hold

CR      == 13
Esc     == 27
Space   == 32
Percent == 37
Dash    == 45
DcsP    == 1001
Begin   == 1002
End     == 1003
Failed  == 1004    \* "%error "
Note    == 1005
Marker  == 1006

DscPreamble == <<Esc, DcsP>>
DscTrailer  == <<Esc, Backslash>>

VARIABLES
    script,   \* what the daemon sent
    noEcho,   \* ControlOptions.NoEcho: the client has a terminal instead of pipes
    wire,     \* bytes that are not read yet
    cr,       \* controlStreamReader: hasCR, seenDSC, pending
    got       \* bytes that the buffered reader received

codecVars == <<script, noEcho, wire, cr, got>>

-----------------------------------------------------------------------------
(* The daemon and its client (not under src).  The terminal of a client     *)
(* started with -CC turns every LF into CR LF (OPOST and ONLCR).            *)
PieceBytes(p) ==
    IF p.kind = "record" THEN EncodeRecord(p.values)
    ELSE IF p.kind = "marker" THEN <<Marker, LF>>
    ELSE IF p.kind = "text" THEN Append(p.text, LF)
    ELSE <<Note>> \o p.text \o <<LF>>

\* The first k pieces of a frame.
Body(item, k) == Concat([i \in 1..k |-> PieceBytes(item.body[i])])

ItemBytes(item) ==
    IF item.kind = "note" THEN PieceBytes(item)
    ELSE <<Begin, item.id, LF>> \o Body(item, Len(item.body))
             \o <<IF item.failed THEN Failed ELSE End, item.id, LF>>

\* The first n events and frames.
ScriptBytes(s, n) == Concat([i \in 1..n |-> ItemBytes(s[i])])

OverTerminal(bytes) ==
    LET from[i \in 1..Len(bytes) + 1] ==
            IF i > Len(bytes) THEN <<>>
            ELSE (IF bytes[i] = LF THEN <<CR, LF>> ELSE <<bytes[i]>>) \o from[i + 1]
    IN from[1]

\* All that the client of this script writes.
Sent ==
    IF noEcho THEN DscPreamble \o ScriptBytes(script, Len(script)) \o DscTrailer
    ELSE ScriptBytes(script, Len(script))

NoReader == [hasCR |-> FALSE, seenDSC |-> FALSE, pending |-> <<>>]

CodecInit ==
    /\ script \in Scripts /\ noEcho \in BOOLEAN
    /\ wire = IF noEcho THEN OverTerminal(Sent) ELSE Sent
    /\ cr = NoReader /\ got = <<>>

\* The client dies, and what it has not written is lost; a terminal writes CR LF at once.
ClientDies ==
    /\ wire # <<>> /\ wire' = (IF noEcho /\ wire[1] = LF THEN <<LF>> ELSE <<>>)
    /\ UNCHANGED <<script, noEcho, cr, got>>

-----------------------------------------------------------------------------
(* The reader of a terminal: CR LF becomes LF again, any other CR is kept.  *)
StartsWith(s, prefix) == Len(s) >= Len(prefix) /\ SubSeq(s, 1, Len(prefix)) = prefix

FilterDSC(src) ==
    IF ~cr.seenDSC /\ StartsWith(src, DscPreamble)
    THEN SubSeq(src, Len(DscPreamble) + 1, Len(src)) ELSE src

\* As TransformByte, with a CR taken for the start of CR LF whatever follows.
TransformAnyCR(t, b) ==
    IF b = CR THEN [hasCR |-> TRUE, out |-> t.out] ELSE [hasCR |-> FALSE, out |-> Append(t.out, b)]

TransformByte(t, b) ==
    LET held == IF t.hasCR /\ b # LF THEN <<CR>> ELSE <<>> IN
    IF b = CR THEN [hasCR |-> TRUE, out |-> t.out \o held]
    ELSE [hasCR |-> FALSE, out |-> t.out \o Append(held, b)]

Transform(src) ==
    LET upTo[i \in 0..Len(src)] ==
            IF i = 0 THEN [hasCR |-> cr.hasCR, out |-> <<>>] ELSE TransformByte(upTo[i - 1], src[i])
    IN upTo[Len(src)]

\* The loop of Read, for room bytes and a read of n: one round of it.
ReadTerminal(room, n) ==
    LET asked == IF cr.hasCR /\ room > 1 THEN room - 1 ELSE room
        t     == Transform(FilterDSC(SubSeq(wire, 1, n)))
        fits  == Min({room, Len(t.out)})
    IN /\ noEcho /\ cr.pending = <<>> /\ n \in 1..Min({asked, Len(wire)})
       /\ wire' = SubSeq(wire, n + 1, Len(wire))
       /\ got' = got \o SubSeq(t.out, 1, fits)
       /\ cr' = [hasCR |-> t.hasCR, seenDSC |-> TRUE, pending |-> SubSeq(t.out, fits + 1, Len(t.out))]
       /\ UNCHANGED <<script, noEcho>>

ReadPending(room) ==
    /\ cr.pending # <<>>
    /\ LET n == Min({room, Len(cr.pending)}) IN
       /\ got' = got \o SubSeq(cr.pending, 1, n)
       /\ cr' = [cr EXCEPT !.pending = SubSeq(@, n + 1, Len(@))]
    /\ UNCHANGED <<script, noEcho, wire>>

\* The end of the stream gives up a CR that was held back.
ReadEnd ==
    /\ noEcho /\ wire = <<>> /\ cr.hasCR /\ cr.pending = <<>>
    /\ got' = Append(got, CR) /\ cr' = [cr EXCEPT !.hasCR = FALSE]
    /\ UNCHANGED <<script, noEcho, wire>>

ReadPipe(n) ==
    /\ ~noEcho /\ n \in 1..Len(wire)
    /\ got' = got \o SubSeq(wire, 1, n) /\ wire' = SubSeq(wire, n + 1, Len(wire))
    /\ UNCHANGED <<script, noEcho, cr>>

CodecNext ==
    \/ \E room \in 1..MaxRoom : ReadPending(room) \/ \E n \in 1..room : ReadTerminal(room, n)
    \/ ReadEnd \/ ClientDies
    \/ \E n \in 1..MaxRoom : ReadPipe(n)

CodecSpec == CodecInit /\ [][CodecNext]_codecVars

-----------------------------------------------------------------------------
(* Taking the stream apart.  A failure is "limit", "eof" or "protocol", and *)
(* comes with what had been published before.                               *)
Broken(why) == [st |-> why, val |-> <<>>]

IsDSCTrailer(line) ==
    StartsWith(line, DscTrailer) /\ \A i \in 3..Len(line) : line[i] \in {CR, LF}

\* As PartsExceed, each part held to the limit alone.
PartExceeds(length, limit) ==
    \E k \in 0..(length \div BufSize) : Min({BufSize, length - k * BufSize}) > limit

\* boundedLine: ReadSlice hands out a line in parts of BufSize; the parts together are limited.
PartsExceed(length, limit) ==
    \E k \in 0..(length \div BufSize) :
        Min({BufSize, length - k * BufSize}) > limit - k * BufSize

BoundedLine(s, from, limit) ==
    LET ends == {i \in from..Len(s) : s[i] = LF}
        last == IF ends = {} THEN Len(s) ELSE Min(ends)
        line == SubSeq(s, from, last)
    IN IF limit <= 0 \/ PartsExceed(Len(line), limit) THEN Broken("limit")
       ELSE IF ends = {} \/ IsDSCTrailer(line) THEN Broken("eof")
       ELSE Ok(last + 1, line)

\* readRecordWireChunk: what is no record after all is taken to the end of its line.
WireChunk(s, from, left, record) ==
    LET rest == BoundedLine(s, record.at, left - (record.at - from)) IN
    IF record.st = "ok" THEN Ok(record.at, SubSeq(s, from, record.at - 1))
    ELSE IF record.st = "short" \/ rest.st # "ok" THEN Broken("protocol")
    ELSE Ok(rest.at, SubSeq(s, from, rest.at - 1))
ReadRecordWireChunk(s, from, left) == WireChunk(s, from, left, ScanRecord(s, from, left))

\* decodeEvent: an event it knows, or a name that one it does not know might have.
NameBytes == (97..122) \cup Digits \cup {Dash}
IsValidEventName(line) ==
    \E end \in 3..Len(line) : line[end] \in {Space, LF} /\ \A i \in 2..end - 1 : line[i] \in NameBytes
Decodes(line) ==
    line[1] = Note \/ (line[1] = Percent /\ IsValidEventName(line) /\ line \notin Misnamed)

FrameHeader(line, kind) == Len(line) = 3 /\ line[1] = kind /\ line[2] \notin {Begin, End, Failed}

\* A round of the loop of readFrame.  f.st is "open" until the frame ends; f.notes are published.
AppendRecordChunk(chunk, f) ==
    IF chunk.st # "ok" THEN [f EXCEPT !.st = chunk.st]
    ELSE [f EXCEPT !.at = chunk.at, !.data = @ \o chunk.val, !.used = @ + Len(chunk.val)]

CheckFrameEnd(line, f) ==
    IF ~FrameHeader(line, line[1]) \/ line[2] # f.id \/ (f.ordinary /\ line[1] = End)
    THEN [f EXCEPT !.st = "protocol"]
    ELSE [f EXCEPT !.st = "ok", !.failed = line[1] = Failed]

AppendLine(line, f) ==
    [f EXCEPT !.data = @ \o line, !.used = @ + Len(line), !.ordinary = @ \/ line[1] # Marker,
              !.st = IF f.used + Len(line) > FrameBytes THEN "limit" ELSE @]

ProcessFrameLine(line, f) ==
    IF line[1] \in {End, Failed} THEN CheckFrameEnd(line, f)
    ELSE IF line[1] = Begin THEN [f EXCEPT !.st = "protocol"]
    ELSE IF Decodes(line) THEN [f EXCEPT !.notes = Append(@, line)]
    ELSE AppendLine(line, f)

FrameStep(s, f) ==
    LET line == BoundedLine(s, f.at, FrameBytes) IN
    IF f.st # "open" THEN f
    ELSE IF f.at > Len(s) THEN [f EXCEPT !.st = "eof"]
    ELSE IF s[f.at] = TGO THEN AppendRecordChunk(ReadRecordWireChunk(s, f.at, FrameBytes - f.used), f)
    ELSE IF line.st # "ok" THEN [f EXCEPT !.st = line.st]
    ELSE ProcessFrameLine(line.val, [f EXCEPT !.at = line.at])

ReadFrame(s, from, begin) ==
    LET opened == [st |-> IF FrameHeader(begin, Begin) THEN "open" ELSE "protocol", at |-> from,
                   id |-> begin[2], data |-> <<>>, used |-> Len(begin), ordinary |-> FALSE,
                   failed |-> FALSE, notes |-> <<>>]
        after[k \in 0..Len(s)] == IF k = 0 THEN opened ELSE FrameStep(s, after[k - 1])
    IN after[Len(s)]

\* As Delivered, with notifications that are published together with their frame.
DeliveredAtOnce(frame) ==
    IF frame.st # "ok" THEN Broken(frame.st)
    ELSE Ok(frame.at, Append(frame.notes, [id |-> frame.id, data |-> frame.data,
                                           failed |-> frame.failed]))

Delivered(frame) ==
    IF frame.st # "ok" THEN [st |-> frame.st, val |-> frame.notes]
    ELSE Ok(frame.at, Append(frame.notes, [id |-> frame.id, data |-> frame.data,
                                           failed |-> frame.failed]))

ReadControlUnit(s, from) ==
    LET dsc   == SubSeq(s, from, Min({from + 1, Len(s)}))
        start == IF dsc = DscPreamble THEN from + Len(DscPreamble) ELSE from
        line  == BoundedLine(s, start, FrameBytes)
    IN IF dsc = DscTrailer THEN Broken("eof")
       ELSE IF line.st # "ok" THEN line
       ELSE IF Decodes(line.val) THEN Ok(line.at, <<line.val>>)
       ELSE IF line.val[1] # Begin THEN Broken("protocol")
       ELSE Delivered(ReadFrame(s, line.at, line.val))

\* What reader() does with a unit: it publishes a notification, and hands a frame over; any failure
\* is its last.
OrEnd(unit, More(_, _)) ==
    IF unit.st = "ok" THEN More(unit.at, unit.val) ELSE Append(unit.val, unit.st)
Units(s) ==
    LET from[i \in 1..Len(s) + 1] ==
            OrEnd(ReadControlUnit(s, i), LAMBDA at, units : units \o from[at])
    IN from[1]

-----------------------------------------------------------------------------
(* What daemons send: lines of bytes, records within the limits of their    *)
(* format, and text of commands only in frames that report a failure.       *)
\* What is one symbol here is spelled out at the start of no line of bytes: %begin, %end, %error, TGO.
Spellings == {<<37, 98, 101, 103, 105, 110, 32>>, <<37, 101, 110, 100, 32>>,
              <<37, 101, 114, 114, 111, 114, 32>>, <<84, 71, 79>>}
IsLine(text) ==
    /\ text \in Seq((0..255) \ {LF}) /\ ~IsDSCTrailer(Append(text, LF))
    /\ \A w \in Spellings : ~StartsWith(text, w)

IsPiece(p) ==
    \/ /\ p.kind = "record" /\ p.values \in Seq(Seq(Nat)) /\ Len(p.values) <= MaxRecordFields
       /\ Len(EncodeRecord(p.values)) < MaxNumber
    \/ p.kind = "marker"
    \/ p.kind \in {"text", "note"} /\ IsLine(p.text)

IsItem(item) ==
    \/ item.kind = "note" /\ IsLine(item.text)
    \/ /\ item.kind = "frame" /\ item.id \in Nat \ {LF, Begin, End, Failed} /\ item.failed \in BOOLEAN
       /\ Len(item.body) \in Nat
       /\ \A i \in 1..Len(item.body) : IsPiece(item.body[i])
                                       /\ (item.body[i].kind = "text" => item.failed)

ASSUME CodecAssumption ==
    /\ MaxRoom \in Nat \ {0} /\ BufSize \in Nat \ {0} /\ FrameBytes \in Nat \ {0}
    /\ FrameBytes < MaxNumber
    /\ \A s \in Scripts : Len(s) \in Nat \ {0} /\ \A i \in 1..Len(s) : IsItem(s[i])

-----------------------------------------------------------------------------
(* Properties.                                                              *)
NotesOf(p) == IF Decodes(PieceBytes(p)) THEN <<PieceBytes(p)>> ELSE <<>>
DataOf(p)  == IF Decodes(PieceBytes(p)) THEN <<>> ELSE PieceBytes(p)

\* The notifications and the data in the first k pieces of a frame, and whether they fit.
Notes(item, k) == Concat([i \in 1..k |-> NotesOf(item.body[i])])
Data(item, k)  == Concat([i \in 1..k |-> DataOf(item.body[i])])
PiecesFit(item, k) ==
    /\ 3 + Len(Data(item, k)) <= FrameBytes
    /\ \A i \in 1..k :
          Decodes(PieceBytes(item.body[i])) => Len(PieceBytes(item.body[i])) <= FrameBytes

Pieces(item) == IF item.kind = "note" THEN 0 ELSE Len(item.body)
Fits(item) ==
    IF item.kind = "note" THEN Len(PieceBytes(item)) <= FrameBytes ELSE PiecesFit(item, Pieces(item))

Meant(item) ==
    IF item.kind = "note" THEN <<PieceBytes(item)>>
    ELSE Append(Notes(item, Pieces(item)),
                [id |-> item.id, data |-> Data(item, Pieces(item)), failed |-> item.failed])

\* A line end inside a record, at which the reader looks for the rest of a record it gave up.
HoldsLine(item) ==
    /\ item.kind = "frame"
    /\ \E i \in 1..Len(item.body) : item.body[i].kind = "record" /\
           \E v \in DOMAIN item.body[i].values : \E n \in DOMAIN item.body[i].values[v] :
               item.body[i].values[v][n] = LF

\* The first n events and frames have been received, and each of them fits.
Received == IF StartsWith(got, DscPreamble) THEN SubSeq(got, 3, Len(got)) ELSE got
Whole(n) == StartsWith(Received, ScriptBytes(script, n)) /\ \A i \in 1..n : Fits(script[i])

\* And so have the first k pieces of the frame after these.
Begun(n, k) ==
    LET next == script[n + 1] IN
    /\ StartsWith(Received, ScriptBytes(script, n) \o <<Begin, next.id, LF>> \o Body(next, k))
    /\ PiecesFit(next, k)

\* Each frame and notification arrives as it was sent, whatever its records contain (ends of frames,
\* line ends, escapes) and however the stream is cut into reads, but a line of text that reads as a
\* notification is taken for one (processFrameLine).  The limit is on whole frames: one that exceeds
\* it ends the connection, and so does one that the client did not live to write; of either exactly
\* the notifications before the failure are published and no part is taken for a frame, unless a
\* record too long for the limit holds a line end, after which its bytes are read as lines.
FramesArrive ==
    wire = <<>> /\ cr.pending = <<>> /\ ~cr.hasCR =>
        \E n \in 0..Len(script) :
            LET meant == Concat([i \in 1..n |-> Meant(script[i])])
                next  == script[n + 1]
            IN /\ Whole(n)
               /\ n = Len(script) => Units(got) = Append(meant, "eof")
               /\ n < Len(script) =>
                    /\ ~Whole(n + 1)
                    /\ \/ HoldsLine(next) /\ ~Fits(next) /\ StartsWith(Units(got), meant)
                       \/ \E k \in 0..Pieces(next), why \in {"eof", "limit", "protocol"} :
                             /\ k > 0 => Begun(n, k)
                             /\ k < Pieces(next) => ~Begun(n, k + 1)
                             /\ StartsWith(Received, ScriptBytes(script, n + 1)) => why # "eof"
                             /\ Units(got) = Append(meant \o Notes(next, k), why)
=============================================================================
