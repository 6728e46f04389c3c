------------------------------- MODULE Records -------------------------------
(* Length-prefixed records (internal/wire/records.go): a count, then fields *)
(* that each carry their length, so that a field may hold any byte.  The    *)
(* reader stops at the first byte that cannot continue a record, and never  *)
(* takes more than the limit it was given.                                  *)
(*                                                                          *)
(* Abstraction.  "TGO1:" is one symbol, TGO; other symbols are bytes.       *)
EXTENDS Integers, Sequences, FiniteSetsExt

TGO       == 1000
LF        == 10
Comma     == 44
Zero      == 48
Colon     == 58
Backslash == 92
Digits    == 48..57

RecordPrefix      == <<TGO>>
MinRecordOverhead == 3
MaxRecordFields   == 1024
MaxByteValue      == 255

\* What a scan from a position returns: the next position, and the value.  A short scan met the end.
Ok(at, val) == [st |-> "ok", at |-> at, val |-> val]
Bad(at)     == [st |-> "bad", at |-> at]
Short(at)   == [st |-> "short", at |-> at]

\* A scan that goes on where another ended, if that one succeeded.
Then(scan, Next(_, _)) == IF scan.st = "ok" THEN Next(scan.at, scan.val) ELSE scan

MaxNumber == 100000    \* bound: above every limit in use; greater numbers are not told apart
Number(digits) ==
    LET upTo[i \in 0..Len(digits)] ==
        IF i = 0 THEN 0 ELSE Min({MaxNumber, 10 * upTo[i - 1] + (digits[i] - Zero)})
    IN upTo[Len(digits)]

\* strconv.FormatInt of a natural number.
Numeral(n) ==
    LET text[k \in 0..n] ==
        IF k < 10 THEN <<Zero + k>> ELSE Append(text[k \div 10], Zero + (k % 10))
    IN text[n]

\* The parts of a text, one after the other.
Concat(parts) ==
    LET upTo[i \in 0..Len(parts)] == IF i = 0 THEN <<>> ELSE upTo[i - 1] \o parts[i]
    IN upTo[Len(parts)]

EncodeField(v) == Numeral(Len(v)) \o <<Colon>> \o v \o <<Comma>>

EncodeRecord(values) ==
    RecordPrefix \o Numeral(Len(values)) \o <<Colon>>
        \o Concat([i \in 1..Len(values) |-> EncodeField(values[i])]) \o <<LF>>

-----------------------------------------------------------------------------
(* Scanning s from a position.                                              *)

\* decimal: the first byte that is no digit of a number up to max ends it, and must be the colon.
Decimal(s, from, max) ==
    LET Ends(i) ==
            \/ i > Len(s) \/ \E j \in from..i : s[j] \notin Digits
            \/ i > from /\ s[from] = Zero
            \/ i - from >= 19
            \/ Number(SubSeq(s, from, i)) > max
        end == Min({i \in from..Len(s) + 1 : Ends(i)})
    IN IF end > Len(s) THEN Short(end)
       ELSE IF end > from /\ s[end] = Colon THEN Ok(end + 1, Number(SubSeq(s, from, end - 1)))
       ELSE Bad(end + 1)

\* ReadByte, when only one byte will do.
Expect(s, i, byte, val) ==
    IF i > Len(s) THEN Short(i) ELSE IF s[i] = byte THEN Ok(i + 1, val) ELSE Bad(i + 1)

\* As ScanField, with room forgotten for the comma that follows the value.
ScanFieldNoComma(s, from, left) ==
    IF left <= 0 THEN Bad(from)
    ELSE Then(Decimal(s, from, left), LAMBDA at, size :
             IF size > left - (at - from) THEN Bad(at)
             ELSE IF at + size > Len(s) + 1 THEN Short(Len(s) + 1)
             ELSE Ok(at + size + 1, SubSeq(s, at, at + size - 1)))

ScanField(s, from, left) ==
    IF left <= 0 THEN Bad(from)
    ELSE Then(Decimal(s, from, left), LAMBDA at, size :
             IF size > left - (at - from) - 1 THEN Bad(at)
             ELSE IF at + size > Len(s) + 1 THEN Short(Len(s) + 1)
             ELSE Expect(s, at + size, Comma, SubSeq(s, at, at + size - 1)))

ScanRecordHeader(s, from, max) ==
    LET start == from + Len(RecordPrefix) IN
    IF max < Len(RecordPrefix) + MinRecordOverhead THEN Bad(from)
    ELSE IF start > Len(s) + 1 THEN Short(Len(s) + 1)
    ELSE IF SubSeq(s, from, start - 1) # RecordPrefix THEN Bad(start)
    ELSE Decimal(s, start, MaxRecordFields)

\* A field takes more than a byte: no more of them than there are bytes need be looked at.
ScanRecord(s, from, max) ==
    Then(ScanRecordHeader(s, from, max), LAMBDA start, count :
        LET n == Min({count, Len(s)})
            fields[k \in 0..n] ==
                IF k = 0 THEN Ok(start, <<>>)
                ELSE Then(fields[k - 1], LAMBDA at, vals :
                         Then(ScanField(s, at, max - (at - from)), LAMBDA next, val :
                             Ok(next, Append(vals, val))))
        IN Then(fields[n], LAMBDA at, vals :
               IF at - from >= max THEN Bad(at) ELSE Expect(s, at, LF, vals)))

\* Records up to the end of the data, each of the number of fields that was asked for.
ParseRecords(s, fieldCount) ==
    LET rows[i \in 1..Len(s) + 1] ==
            IF i > Len(s) THEN Ok(i, <<>>)
            ELSE Then(ScanRecord(s, i, Len(s) - i + 1), LAMBDA at, row :
                     IF Len(row) # fieldCount THEN Bad(at)
                     ELSE Then(rows[at], LAMBDA end, more : Ok(end, <<row>> \o more)))
    IN rows[1]

-----------------------------------------------------------------------------
(* Output, in which tmux writes a control byte or a backslash as \ooo.      *)
OctalAt(data, i) ==
    64 * (data[i + 1] - Zero) + 8 * (data[i + 2] - Zero) + data[i + 3] - Zero

DecodeOctalEscape(data, i) ==
    IF i + 3 > Len(data) \/ \E j \in 1..3 : data[i + j] \notin Zero..Zero + 7 THEN Bad(i)
    ELSE IF OctalAt(data, i) > MaxByteValue THEN Bad(i)
    ELSE Ok(i + 4, OctalAt(data, i))

DecodeOctal(data, max) ==
    LET next(i) == IF data[i] = Backslash THEN DecodeOctalEscape(data, i) ELSE Ok(i + 1, data[i])
        from[i \in 1..Len(data) + 1] ==
            IF i > Len(data) THEN Ok(i, <<>>)
            ELSE Then(next(i), LAMBDA at, byte :
                     Then(from[at], LAMBDA end, more : Ok(end, <<byte>> \o more)))
    IN IF Len(data) > 4 * max THEN Bad(1)
       ELSE Then(from[1], LAMBDA end, out : IF Len(out) > max THEN Bad(1) ELSE Ok(end, out))

\* control_append_data of tmux.
EscapedByte(b) ==
    IF b < 32 \/ b = Backslash
    THEN <<Backslash, Zero + (b \div 64), Zero + ((b \div 8) % 8), Zero + (b % 8)>> ELSE <<b>>
Escape(data) == Concat([i \in 1..Len(data) |-> EscapedByte(data[i])])

-----------------------------------------------------------------------------
(* Properties of the functions, for values, limits and damage to examine.   *)

\* A record within the limit is read as the fields it was made of, and what follows it is left alone;
\* a longer one is refused, and one that is cut off is never taken for a record.
ReadBack(values, rest, max) ==
    LET wire == EncodeRecord(values)
        got  == ScanRecord(wire \o rest, 1, max)
    IN /\ IF Len(wire) <= max THEN got = Ok(Len(wire) + 1, values)
          ELSE got.st = "bad"
       /\ \A n \in 0..Len(wire) - 1 : ScanRecord(SubSeq(wire, 1, n), 1, Len(wire)).st = "short"
       /\ ParseRecords(wire \o wire, Len(values)) = Ok(2 * Len(wire) + 1, <<values, values>>)

\* What is read as a record is nothing but the encoding of its fields, so damage to a length, a
\* separator or an end shows.
OneEncoding(s) ==
    LET got == ScanRecord(s, 1, Len(s)) IN
    got.st = "ok" => SubSeq(s, 1, got.at - 1) = EncodeRecord(got.val)

\* The bytes a program wrote come out of the escapes, up to the limit and not beyond it.
OutputReadBack(data, max) ==
    DecodeOctal(Escape(data), max)
        = IF Len(data) <= max THEN Ok(Len(Escape(data)) + 1, data) ELSE Bad(1)
=============================================================================
