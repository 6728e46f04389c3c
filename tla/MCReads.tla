------------------------------ MODULE MCReads ------------------------------
(* An instance of Reads for TLC: a session of two slots and one of a single *)
(* slot, two windows, two panes, and a daemon that is replaced once; and    *)
(* beside it, while Reads does nothing, streams that ControlCodec takes     *)
(* apart, and records and notifications on which Records and Events are     *)
(* examined.                                                                *)
EXTENDS Reads, ControlCodec, Events

CONSTANTS x, y, w1, w2, p1, p2

VARIABLE probe

MCSlots == {<<x, 0>>, <<x, 1>>, <<y, 0>>}

NoProbe == [kind |-> "none"]
Stream  == [kind |-> "stream"]
Idle    == /\ op = "snapshot" /\ bound = 0
           /\ world.links = [sl \in Slots |-> w1] /\ world.home = [p \in Panes |-> w1]

UpTo(n, set) == UNION {[1..k -> set] : k \in 0..n}

\* Values of fields: empty, with line ends, with what ends a frame, with the start of a record, and
\* some too long to follow another within the limit.
FrameId == 2001
Values  == {<<>>, <<97>>, <<LF>>, <<CR>>, <<CR, LF>>, <<End, FrameId, LF>>, <<TGO, 49>>,
            <<Esc, Backslash, LF>>, <<Note, LF>>, [i \in 1..10 |-> 97],
            <<LF, End, FrameId, LF>> \o [i \in 1..10 |-> 97]}

ANote   == [kind |-> "note", text |-> <<97>>]
LongNote == [kind |-> "note", text |-> [i \in 1..20 |-> 97]]
AMarker == [kind |-> "marker"]
Rec(values)      == [kind |-> "record", values |-> values]
Line(text)       == [kind |-> "text", text |-> text]
Frame(f, body)   == [kind |-> "frame", id |-> FrameId, failed |-> f, body |-> body]

\* What a failed command prints: empty, ending in a CR, reading as a notification or starting like one.
Failures == {Line(<<>>), Line(<<97>>), Line(<<97, CR>>), Line(<<Percent, 97>>), Line(<<Percent, Colon>>),
             Line(<<Percent, 97, Space, 98>>), Line(<<Percent, 97, Space, 97>>),
             Line([i \in 1..16 |-> 97]), Line([i \in 1..17 |-> 97])}
MCMisnamed == {<<Percent, 97, Space, 98, LF>>}
MCScripts ==
    LET single == {Rec(v) : v \in UpTo(1, Values)} \cup {AMarker, ANote}
        frames == {Frame(FALSE, b) : b \in UpTo(2, single) \cup {<<Rec(v)>> : v \in [1..2 -> Values]}}
                  \cup {Frame(TRUE, b) : b \in UpTo(2, Failures) \cup {<<t, AMarker>> : t \in Failures}}
    IN {<<f>> : f \in frames}
       \cup {<<Frame(FALSE, b), LongNote>> : b \in {<<>>, <<ANote>>, <<LongNote>>}}
       \cup {<<Frame(FALSE, <<>>), ANote, Frame(FALSE, <<Rec(v)>>)>> : v \in UpTo(1, Values)}

\* A record with what follows it and a limit; bytes that may or may not be one; output of a program.
RecordProbes ==
    [kind: {"record"}, values: UpTo(2, Values), rest: {<<>>, <<LF>>, <<97>>}, max: 0..30]
Damaged ==
    LET wires == {EncodeRecord(v) : v \in UpTo(2, {<<>>, <<97>>, <<LF>>, [i \in 1..10 |-> 97]})}
        marks == {Zero, Zero + 1, Zero + 2, Zero + 9, Colon, Comma, LF, 97}
    IN {[kind |-> "bytes", bytes |-> [d.wire EXCEPT ![d.at] = d.mark]]
           : d \in {e \in [wire: wires, at: 1..20, mark: marks] : e.at \in DOMAIN e.wire}}
Outputs == [kind: {"output"}, bytes: UpTo(3, {0, LF, 97, Backslash, Zero, 200}), max: 0..3]

\* Texts with what a notification uses itself: separators, identifiers, codes after a percent sign.
Texts == UpTo(4, {"a", " ", ":", "@0", "$1", "%", "25", "0A", "LF"})
Tolds == [kind: {"told"}, told: Told(UpTo(3, {"a", " ", ":", "@0", "$1"}))
                                \cup Watched({<<"a">>, <<"@0">>}, Texts)]

MCInit ==
    /\ Init
    /\ \/ /\ probe = Stream /\ Idle /\ CodecInit
       \/ /\ \/ probe = NoProbe
             \/ Idle /\ probe \in RecordProbes \cup Damaged \cup Outputs \cup Tolds
          /\ script = <<>> /\ noEcho = FALSE /\ wire = <<>> /\ cr = NoReader /\ got = <<>>
MCNext ==
    \/ probe = NoProbe /\ Next /\ UNCHANGED <<codecVars, probe>>
    \/ probe = Stream /\ CodecNext /\ UNCHANGED <<vars, probe>>
MCSpec == MCInit /\ [][MCNext]_<<vars, codecVars, probe>>

\* A record is read as the fields it was made of, within its limit and only whole; nothing else is
\* read as one, and output comes out of its escapes (EncodeRecord, scanRecord, DecodeOctal).  A
\* notification means what tmux wrote it for, whatever names and values it holds, and the value of
\* a watched format comes back as it was, with the session it was asked of (decodeEvent, WatchFormat).
ReadsWhatWasWritten ==
    /\ probe.kind = "record" => ReadBack(probe.values, probe.rest, probe.max)
    /\ probe.kind = "bytes"  => OneEncoding(probe.bytes)
    /\ probe.kind = "output" => OutputReadBack(probe.bytes, probe.max)
    /\ probe.kind = "told"   => UnderstoodAsTold(probe.told)
=============================================================================
