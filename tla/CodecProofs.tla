---------------------------- MODULE CodecProofs -----------------------------
(* Proofs about the control codec: the frames that ControlCodec reads       *)
(* arrive whole, for any lengths and any limits.  The lemmas about texts,   *)
(* numbers and records are those of ReadsProofs.                            *)
EXTENDS ControlCodec, ReadsProofs

-----------------------------------------------------------------------------
(* Lines.                                                                   *)
LEMMA CodecNumbers ==
    /\ MaxRoom \in Nat \ {0} /\ BufSize \in Nat \ {0} /\ FrameBytes \in Nat \ {0} /\ FrameBytes < MaxNumber
  BY CodecAssumption

\* The parts of a line are too long when the line is.
LEMMA Exceeds ==
    ASSUME NEW n \in Nat, NEW limit \in Nat \ {0}
    PROVE  PartsExceed(n, limit) <=> n > limit
<1> DEFINE B == BufSize
<1>1. B \in Nat \ {0} BY CodecNumbers
<1>2. PartsExceed(n, limit) <=> \E k \in 0..(n \div B) : Min({B, n - k * B}) > limit - k * B
  BY DEF PartsExceed
<1> HIDE DEF B
<1>3. \A k \in Nat : /\ k * B \in Nat
                     /\ Min({B, n - k * B}) = IF B <= n - k * B THEN B ELSE n - k * B
  <2> TAKE k \in Nat
  <2>1. k * B \in Nat BY <1>1
  <2> DEFINE x == k * B
  <2>2. x \in Nat BY <2>1
  <2> HIDE DEF x
  <2>3. B \in Int /\ n - x \in Int BY <1>1, <2>2
  <2>4. Min({B, n - x}) = IF B <= n - x THEN B ELSE n - x BY <2>3, LeastOfTwo
  <2> QED BY <2>1, <2>4 DEF x
<1>4. ASSUME n > limit PROVE PartsExceed(n, limit)
  <2> DEFINE k == limit \div B x == k * B
  <2>1. k \in Nat /\ k <= n \div B /\ n \div B \in Nat BY <1>1, <1>4
  <2>2. x \in Nat /\ x <= limit /\ limit < x + B BY <1>1
  <2> HIDE DEF k
  <2>3. Min({B, n - x}) = IF B <= n - x THEN B ELSE n - x BY <1>3, <2>1
  <2>4. B > limit - x
    <3> HIDE DEF x
    <3> QED BY <1>1, <2>2
  <2>5. n - x > limit - x
    <3> HIDE DEF x
    <3> QED BY <1>4, <2>2
  <2>6. Min({B, n - x}) > limit - x BY <2>3, <2>4, <2>5
  <2>7. k \in 0..(n \div B) BY <2>1
  <2> QED BY <1>2, <2>6, <2>7
<1>5. ASSUME PartsExceed(n, limit) PROVE n > limit
  <2>1. PICK k \in 0..(n \div B) : Min({B, n - k * B}) > limit - k * B BY <1>2, <1>5
  <2>2. k \in Nat BY <2>1
  <2> DEFINE x == k * B
  <2>3. x \in Nat /\ Min({B, n - x}) = (IF B <= n - x THEN B ELSE n - x) /\ Min({B, n - x}) > limit - x
    BY <1>3, <2>1, <2>2
  <2> HIDE DEF x
  <2> QED BY <1>1, <2>3
<1> QED BY <1>4, <1>5

\* A line that stands whole at p + 1.
IsLineText(v) ==
    /\ v \in Seq(Nat) /\ Len(v) \in Nat \ {0} /\ v[Len(v)] = LF /\ \A j \in 1..Len(v) - 1 : v[j] # LF

LEMMA LineStands ==
    ASSUME NEW s, Len(s) \in Nat, NEW p \in Nat, NEW v, IsLineText(v), Holds(s, p, v), NEW limit \in Int
    PROVE  BoundedLine(s, p + 1, limit) =
               IF limit <= 0 \/ Len(v) > limit THEN Broken("limit")
               ELSE IF IsDSCTrailer(v) THEN Broken("eof") ELSE Ok(p + Len(v) + 1, v)
<1> DEFINE n == Len(v) m == Len(s) ends == {i \in p + 1..m : s[i] = LF} line == SubSeq(s, p + 1, p + n)
<1>1. n \in Nat \ {0} /\ v[n] = LF /\ (\A j \in 1..n - 1 : v[j] # LF) /\ v \in Seq(Nat) BY DEF IsLineText
<1>2. p + n <= m /\ \A j \in 1..n : s[p + j] = v[j] BY DEF Holds
<1>3. m \in Nat OBVIOUS
<1>4. line = v /\ Len(line) = n
  <2>1. n \in 0..Len(v) BY <1>1
  <2>2. \A j \in 1..n : s[p + j] = v[j] BY <1>2
  <2>3. SubSeq(v, 1, n) = v BY <1>1, SubSeqFull
  <2> HIDE DEF n
  <2>4. SubSeq(s, p + 1, p + n) = SubSeq(v, 1, n) BY <1>1, <2>1, <2>2, CutOut
  <2> QED BY <2>3, <2>4 DEF n
<1> HIDE DEF n, m, line
<1>5. p + n \in ends /\ ends # {} /\ Min(ends) = p + n
  <2>1. n \in 1..n /\ p + n \in p + 1..m BY <1>1, <1>2, <1>3
  <2>2. p + n \in ends BY <1>1, <1>2, <2>1
  <2>3. ASSUME NEW i \in ends PROVE p + n <= i
    <3>1. i \in p + 1..m /\ s[i] = LF OBVIOUS
    <3> SUFFICES ASSUME i < p + n PROVE FALSE BY <1>1, <3>1
    <3>2. i - p \in 1..n - 1 /\ i - p \in 1..n /\ p + (i - p) = i BY <1>1, <3>1
    <3> QED BY <1>1, <1>2, <3>1, <3>2
  <2>4. ends \in SUBSET Int OBVIOUS
  <2> HIDE DEF ends
  <2> QED BY <2>2, <2>3, <2>4, LeastIs
<1>6. BoundedLine(s, p + 1, limit) =
        IF limit <= 0 \/ PartsExceed(Len(line), limit) THEN Broken("limit")
        ELSE IF IsDSCTrailer(line) THEN Broken("eof") ELSE Ok(p + n + 1, line)
  BY <1>5 DEF BoundedLine, line, m
<1>7. ~(limit <= 0) => (PartsExceed(n, limit) <=> n > limit)
  <2> SUFFICES ASSUME ~(limit <= 0) PROVE PartsExceed(n, limit) <=> n > limit OBVIOUS
  <2>1. limit \in Nat \ {0} /\ n \in Nat BY <1>1
  <2> QED BY <2>1, Exceeds
<1> QED BY <1>4, <1>6, <1>7 DEF n

\* No line ends after p.
LEMMA LineCut ==
    ASSUME NEW s \in Seq(Nat), NEW p \in 0..Len(s), \A i \in p + 1..Len(s) : s[i] # LF, NEW limit \in Int
    PROVE  /\ BoundedLine(s, p + 1, limit).st \in {"eof", "limit"}
           /\ limit > 0 /\ Len(s) - p <= limit => BoundedLine(s, p + 1, limit).st = "eof"
<1> DEFINE m == Len(s) ends == {i \in p + 1..m : s[i] = LF} line == SubSeq(s, p + 1, m)
           got0 == BoundedLine(s, p + 1, limit)
<1>1. m \in Nat /\ p \in Nat /\ p <= m
  <2>1. m \in Nat BY LenProperties
  <2> HIDE DEF m
  <2> QED BY <2>1 DEF m
<1>2. ends = {} OBVIOUS
<1>3. got0 = IF limit <= 0 \/ PartsExceed(Len(line), limit) THEN Broken("limit") ELSE Broken("eof")
  BY <1>2 DEF BoundedLine
<1>4. Len(line) = m - p
  <2>1. \A i \in p + 1..m : i \in 1..m BY <1>1
  <2>2. \A i \in p + 1..m : s[i] \in Nat BY <2>1, ElementOfSeq
  <2> HIDE DEF m
  <2>3. p + 1 \in Int /\ m \in Int BY <1>1
  <2>4. Len(line) = IF p + 1 <= m THEN m - (p + 1) + 1 ELSE 0 BY <2>2, <2>3, SubSeqProperties
  <2> HIDE DEF line
  <2> QED BY <1>1, <2>4
<1>5. ASSUME limit > 0, m - p <= limit PROVE ~PartsExceed(Len(line), limit)
  <2>1. limit \in Nat \ {0} /\ m - p \in Nat /\ ~(m - p > limit) BY <1>1, <1>5
  <2>2. PartsExceed(m - p, limit) <=> m - p > limit BY <2>1, Exceeds
  <2> QED BY <1>4, <2>1, <2>2
<1> HIDE DEF got0, line
<1>6. got0.st \in {"eof", "limit"} BY <1>3 DEF Broken
<1>7. limit > 0 /\ m - p <= limit => got0.st = "eof" BY <1>3, <1>5 DEF Broken
<1> QED BY <1>6, <1>7 DEF got0

-----------------------------------------------------------------------------
(* A scan that is refused stands where it was refused, never before its start. *)
StaysAhead(scan, p) == scan.st \notin {"ok", "short"} => scan.at \in Nat /\ scan.at > p
NotBefore(scan, p)  == scan.st # "short" => scan.at \in Nat /\ scan.at > p

LEMMA DecimalAhead ==
    ASSUME NEW s \in Seq(Nat), NEW p \in 0..Len(s), NEW max
    PROVE  StaysAhead(Decimal(s, p + 1, max), p)
<1> DEFINE m == Len(s) T == {i \in p + 1..m + 1 : Stops(s, p + 1, max, i)} d == Decimal(s, p + 1, max)
<1>1. m \in Nat /\ p \in Nat /\ p <= m /\ p + 1 \in Nat
  <2>1. m \in Nat BY LenProperties
  <2> HIDE DEF m
  <2> QED BY <2>1 DEF m
<1>2. m + 1 \in T
  <2>1. m + 1 \in p + 1..m + 1 /\ m + 1 > m
    <3> HIDE DEF m
    <3> QED BY <1>1
  <2> QED BY <2>1 DEF Stops
<1>3. T \in SUBSET Nat BY <1>1
<1>4. PICK e \in T : \A k \in T : e <= k
  <2> HIDE DEF T
  <2> QED BY <1>2, <1>3, LeastNat
<1>5. e \in p + 1..m + 1 /\ Stops(s, p + 1, max, e) OBVIOUS
<1>6. \A i \in p + 1..e - 1 : ~Stops(s, p + 1, max, i)
  <2> SUFFICES ASSUME NEW i \in p + 1..e - 1, Stops(s, p + 1, max, i) PROVE FALSE OBVIOUS
  <2> HIDE DEF m
  <2>1. i \in p + 1..m + 1 /\ ~(e <= i) BY <1>1, <1>5
  <2>2. i \in T BY <2>1
  <2> HIDE DEF T
  <2> QED BY <1>4, <2>1, <2>2
<1> HIDE DEF T
<1>7. d = IF e > m THEN Short(e)
          ELSE IF e > p + 1 /\ s[e] = Colon THEN Ok(e + 1, Number(SubSeq(s, p + 1, e - 1))) ELSE Bad(e + 1)
  BY <1>1, <1>5, <1>6, DecimalIs
<1>8. e + 1 \in Nat /\ e + 1 > p
  <2> HIDE DEF m
  <2> QED BY <1>1, <1>5
<1> HIDE DEF d
<1>9. d.st \notin {"ok", "short"} => d.at = e + 1 BY <1>7 DEF Short, Ok, Bad
<1> QED BY <1>8, <1>9 DEF StaysAhead, d

LEMMA FieldAhead ==
    ASSUME NEW s \in Seq(Nat), NEW q \in 0..Len(s), NEW left \in Int, left < MaxNumber
    PROVE  StaysAhead(ScanField(s, q + 1, left), q)
<1> DEFINE m == Len(s) d == Decimal(s, q + 1, left) scan == ScanField(s, q + 1, left)
<1>1. q \in Nat /\ m \in Nat
  <2>1. m \in Nat BY LenProperties
  <2> QED BY <2>1
<1>2. scan = IF left <= 0 THEN Bad(q + 1)
             ELSE IF d.st = "ok" THEN AfterSize(s, q + 1, left, d.at, d.val) ELSE d
  BY FieldIs
<1>3. StaysAhead(d, q) BY DecimalAhead
<1> HIDE DEF scan
<1>4. CASE left <= 0
  <2>1. scan.at = q + 1 BY <1>2, <1>4 DEF Bad
  <2> QED BY <1>1, <2>1 DEF StaysAhead, scan
<1>5. CASE ~(left <= 0) /\ d.st # "ok" BY <1>2, <1>3, <1>5 DEF scan
<1>6. CASE ~(left <= 0) /\ d.st = "ok"
  <2>1. PICK n \in Nat : LET v == Numeral(n) l == Len(Numeral(n)) IN
          /\ n <= left /\ d = Ok(q + l + 2, n)
          /\ q + l + 1 <= m /\ s[q + l + 1] = Colon
          /\ \A j \in 1..l : s[q + j] = v[j]
    BY <1>6, DecimalOnce
  <2> DEFINE l == Len(Numeral(n)) at == q + l + 2
  <2>2. l \in Nat \ {0} BY NumeralTyped
  <2>3. d = Ok(at, n) BY <2>1
  <2> HIDE DEF l, m, d
  <2>4. d.at = at /\ d.val = n BY <2>3 DEF Ok
  <2>5. at \in Nat /\ at > q /\ at + n + 1 \in Nat /\ at + n + 1 > q BY <1>1, <2>2
  <2> HIDE DEF at
  <2> DEFINE v == SubSeq(s, at, at + n - 1)
  <2>6. scan = IF n > left - (at - (q + 1)) - 1 THEN Bad(at)
            ELSE IF at + n > m + 1 THEN Short(m + 1)
            ELSE IF at + n > m THEN Short(at + n)
            ELSE IF s[at + n] = Comma THEN Ok(at + n + 1, v) ELSE Bad(at + n + 1)
    BY <1>2, <1>6, <2>4 DEF AfterSize, Expect, m
  <2> HIDE DEF v
  <2>7. scan.st \notin {"ok", "short"} => scan.at \in {at, at + n + 1} BY <2>6 DEF Bad, Short, Ok
  <2> QED BY <2>5, <2>7 DEF StaysAhead, scan
<1> QED BY <1>4, <1>5, <1>6

LEMMA FieldsAhead ==
    ASSUME NEW s \in Seq(Nat), NEW p \in Nat, NEW h \in Nat, p + h <= Len(s), NEW max \in Int,
           max < MaxNumber, NEW n \in Nat, NEW f, FieldsScanned(f, s, p + 1, p + h + 1, max, n)
    PROVE  NotBefore(f[n], p)
<1> DEFINE S == {k \in Nat : k <= n => NotBefore(f[k], p)}
<1>1. 0 \in S
  <2>1. f[0] = Ok(p + h + 1, <<>>) BY DEF FieldsScanned
  <2>2. f[0].at = p + h + 1 BY <2>1 DEF Ok
  <2> QED BY <2>2 DEF NotBefore
<1>2. ASSUME NEW k \in Nat \ {0}, k - 1 \in S PROVE k \in S
  <2> SUFFICES ASSUME k <= n PROVE NotBefore(f[k], p) OBVIOUS
  <2> DEFINE r == f[k - 1]
  <2>1. k \in 1..n /\ k - 1 <= n /\ k - 1 \in Nat OBVIOUS
  <2>2. f[k] = FieldScanned(s, p + 1, max, r) BY <2>1 DEF FieldsScanned
  <2>3. NotBefore(r, p) BY <1>2, <2>1
  <2>4. CASE r.st # "ok"
    <3> HIDE DEF r
    <3>1. f[k] = r BY <2>2, <2>4 DEF FieldScanned
    <3> QED BY <2>3, <3>1
  <2>5. CASE r.st = "ok"
    <3> DEFINE left == max - (r.at - (p + 1)) d == ScanField(s, r.at, left) q == r.at - 1
    <3>1. FieldsFrom(r, k - 1, s, p + h)
      <4>1. \A j \in 1..k - 1 : j \in 1..n BY <2>1
      <4>2. FieldsScanned(f, s, p + 1, p + h + 1, max, k - 1) BY <4>1 DEF FieldsScanned
      <4> DEFINE c == k - 1
      <4> HIDE DEF c
      <4>3. c \in Nat BY <2>1 DEF c
      <4>4. FieldsScanned(f, s, p + 1, p + h + 1, max, c) /\ f[c].st = "ok" BY <2>5, <4>2 DEF c
      <4>5. FieldsFrom(f[c], c, s, p + h) BY <4>3, <4>4, FieldsOnce
      <4> QED BY <4>5 DEF c
    <3> HIDE DEF r
    <3> DEFINE z == Len(Concat(FieldsOf(r.val)))
    <3>2. z \in Nat /\ r.at = p + h + z + 1 /\ p + h + z <= Len(s) BY <3>1 DEF FieldsFrom, Holds
    <3> HIDE DEF z
    <3>3. q \in 0..Len(s) /\ q + 1 = r.at /\ left \in Int /\ left < MaxNumber /\ q >= p
      <4>1. MaxNumber \in Nat BY MaxIsNat
      <4>2. Len(s) \in Nat BY LenProperties
      <4> QED BY <3>2, <4>1, <4>2
    <3> HIDE DEF q
    <3>4. d = ScanField(s, q + 1, left) BY <3>3
    <3> HIDE DEF left
    <3>5. StaysAhead(ScanField(s, q + 1, left), q) BY <3>3, FieldAhead
    <3>6. ASSUME d.st = "ok" PROVE d.at \in Nat /\ d.at > q
      <4>1. PICK v \in Seq(Nat) : ScanField(s, q + 1, left) = Ok(q + Len(EncodeField(v)) + 1, v)
        BY <3>3, <3>4, <3>6, FieldOnce
      <4> DEFINE e == Len(EncodeField(v))
      <4>2. e \in Nat
        <5>1. FieldLies(EncodeField(v), v, Numeral(Len(v)), Len(v), Len(Numeral(Len(v)))) BY FieldParts
        <5> QED BY <5>1 DEF FieldLies
      <4>3. d = Ok(q + e + 1, v) BY <3>4, <4>1
      <4> HIDE DEF e, d
      <4>4. d.at = q + e + 1 BY <4>3 DEF Ok
      <4>5. q \in Nat BY <3>3
      <4> QED BY <4>2, <4>4, <4>5
    <3> HIDE DEF d
    <3>7. f[k] = IF d.st = "ok" THEN Ok(d.at, Append(r.val, d.val)) ELSE d
      BY <2>2, <2>5 DEF FieldScanned, d, left
    <3>8. d.st \notin {"ok", "short"} => d.at \in Nat /\ d.at > q BY <3>4, <3>5 DEF StaysAhead
    <3>9. f[k].st # "short" => f[k].at = d.at /\ d.st # "short" BY <3>7 DEF Ok
    <3>10. d.st # "short" => d.at \in Nat /\ d.at > p
      <4>1. q \in Nat BY <3>3
      <4> QED BY <3>3, <3>6, <3>8, <4>1
    <3> QED BY <3>9, <3>10 DEF NotBefore
  <2> QED BY <2>4, <2>5
<1>3. Nat \subseteq S
  <2> HIDE DEF S
  <2> QED BY <1>1, <1>2, UpToAll
<1>4. n \in S BY <1>3
<1> QED BY <1>4

LEMMA RecordAheadOf ==
    ASSUME NEW s \in Seq(Nat), NEW p \in 0..Len(s), NEW max \in Int, max < MaxNumber
    PROVE  StaysAhead(ScanRecord(s, p + 1, max), p)
<1> DEFINE m == Len(s) scan == ScanRecord(s, p + 1, max) head == ScanRecordHeader(s, p + 1, max)
<1>1. p \in Nat /\ m \in Nat /\ p <= m
  <2>1. m \in Nat BY LenProperties
  <2> HIDE DEF m
  <2> QED BY <2>1 DEF m
<1>2. head.st # "ok" => scan = head BY <1>1, RecordIs
<1>3. CASE head.st # "ok"
  <2> DEFINE d == Decimal(s, p + 2, MaxRecordFields)
  <2>1. Len(RecordPrefix) = 1 BY DEF RecordPrefix
  <2>2. head = IF max < 1 + 3 THEN Bad(p + 1)
            ELSE IF p + 1 + 1 > m + 1 THEN Short(m + 1)
            ELSE IF SubSeq(s, p + 1, p + 1 + 1 - 1) # RecordPrefix THEN Bad(p + 1 + 1)
            ELSE Decimal(s, p + 1 + 1, MaxRecordFields)
    BY <2>1 DEF ScanRecordHeader, MinRecordOverhead
  <2> HIDE DEF head
  <2>3. CASE head = d /\ p + 1 <= m
    <3> DEFINE q == p + 1
    <3>1. q \in 0..Len(s) /\ q + 1 = p + 2 /\ q > p /\ q \in Nat BY <1>1, <2>3
    <3> HIDE DEF q
    <3>2. StaysAhead(Decimal(s, q + 1, MaxRecordFields), q) BY <3>1, DecimalAhead
    <3>3. StaysAhead(head, q) BY <2>3, <3>1, <3>2
    <3>4. StaysAhead(head, p) BY <1>1, <3>1, <3>3 DEF StaysAhead
    <3> QED BY <1>2, <1>3, <3>4
  <2>4. CASE ~(head = d /\ p + 1 <= m)
    <3>1. p + 1 + 1 = p + 2 /\ (~(p + 1 + 1 > m + 1) => p + 1 <= m) BY <1>1
    <3>2. head = Bad(p + 1) \/ head = Short(m + 1) \/ head = Bad(p + 2)
      <4> HIDE DEF m
      <4> QED BY <2>2, <2>4, <3>1
    <3>3. head.st \notin {"ok", "short"} => head.at \in {p + 1, p + 2} BY <3>2 DEF Bad, Short
    <3>4. p + 1 \in Nat /\ p + 1 > p /\ p + 2 \in Nat /\ p + 2 > p BY <1>1
    <3> QED BY <1>2, <1>3, <3>3, <3>4 DEF StaysAhead
  <2> QED BY <2>3, <2>4
<1>4. CASE head.st = "ok"
  <2>1. PICK N \in 0..MaxRecordFields : LET v == Numeral(N) l == Len(Numeral(N)) IN
              /\ head = Ok(p + l + 3, N)
              /\ p + l + 2 <= m /\ s[p + 1] = TGO /\ s[p + l + 2] = Colon
              /\ \A j \in 1..l : s[(p + 1) + j] = v[j]
    BY <1>4, HeaderOnce
  <2> DEFINE l == Len(Numeral(N)) h == l + 2
  <2>2. N \in Nat /\ l \in Nat \ {0}
    <3>1. N \in Nat BY DEF MaxRecordFields
    <3> QED BY <3>1, NumeralTyped
  <2>3. head = Ok(p + l + 3, N) /\ p + l + 2 <= m BY <2>1
  <2> HIDE DEF l, head
  <2>4. h \in Nat /\ p + h <= m /\ p + l + 3 = p + h + 1
    <3> HIDE DEF m
    <3>1. p + l + 2 <= m BY <2>3
    <3> QED BY <1>1, <2>2, <3>1
  <2> HIDE DEF h
  <2>5. head.val = N /\ head.at = p + h + 1 BY <2>3, <2>4 DEF Ok
  <2>6. PICK n, f : n \in Nat /\ FieldsScanned(f, s, p + 1, p + h + 1, max, n)
                    /\ scan = Ended(s, p + 1, max, f[n])
    <3>1. Len(s) \in Nat /\ head.val \in Nat BY <1>1, <2>2, <2>5
    <3>2. \E n, f : /\ n \in Nat /\ n = (IF head.val <= Len(s) THEN head.val ELSE Len(s))
                          /\ FieldsScanned(f, s, p + 1, head.at, max, n)
                          /\ ScanRecord(s, p + 1, max) = Ended(s, p + 1, max, f[n])
      BY <1>4, <3>1, RecordIs DEF head
    <3> QED BY <2>5, <3>2
  <2> HIDE DEF scan
  <2> DEFINE r == f[n]
  <2>7. NotBefore(r, p) BY <1>1, <2>4, <2>6, FieldsAhead
  <2> HIDE DEF r
  <2>8. scan = IF r.st = "ok" THEN IF r.at - (p + 1) >= max THEN Bad(r.at)
                                   ELSE IF r.at > m THEN Short(r.at)
                                   ELSE IF s[r.at] = LF THEN Ok(r.at + 1, r.val) ELSE Bad(r.at + 1)
               ELSE r
    BY <2>6 DEF Ended, Expect, r
  <2>9. CASE r.st = "ok"
    <3>1. scan.st \notin {"ok", "short"} => scan.at \in {r.at, r.at + 1} BY <2>8, <2>9 DEF Bad, Short, Ok
    <3>2. r.at \in Nat /\ r.at > p BY <2>7, <2>9 DEF NotBefore
    <3>3. r.at + 1 \in Nat /\ r.at + 1 > p BY <1>1, <3>2
    <3> QED BY <3>1, <3>2, <3>3 DEF StaysAhead, scan
  <2>10. CASE r.st # "ok" BY <2>7, <2>8, <2>10 DEF NotBefore, StaysAhead, scan
  <2> QED BY <2>9, <2>10
<1> QED BY <1>3, <1>4

\* A record whose fields hold no line end has one only at its own end.
NoLineEnd(values) == \A k \in 1..Len(values) : \A i \in 1..Len(values[k]) : values[k][i] # LF

LEMMA FieldWithin ==
    ASSUME NEW v \in Seq(Nat), \A i \in 1..Len(v) : v[i] # LF
    PROVE  EncodeField(v) \in Seq(Nat \ {LF})
<1> DEFINE X == Nat \ {LF} k == Len(v) a == Numeral(k) b == a \o <<Colon>> c == b \o v d == c \o <<Comma>>
<1>1. k \in Nat BY LenProperties
<1>2. a \in Seq(X)
  <2>1. a \in Seq(Digits) BY <1>1, NumeralTyped
  <2>2. Digits \subseteq X BY DEF Digits, LF
  <2> HIDE DEF a, X
  <2> QED BY <2>1, <2>2, SeqMonotonic
<1>3. v \in Seq(X)
  <2>1. \A i \in 1..Len(v) : v[i] \in X BY ElementOfSeq
  <2> HIDE DEF X
  <2>2. v = [i \in 1..Len(v) |-> v[i]] OBVIOUS
  <2>3. \A m \in Nat : \A f : f = [i \in 1..m |-> f[i]] /\ (\A i \in 1..m : f[i] \in X) => f \in Seq(X) OBVIOUS
  <2> HIDE DEF k
  <2> QED BY <1>1, <2>1, <2>2, <2>3 DEF k
<1>4. <<Colon>> \in Seq(X) /\ <<Comma>> \in Seq(X) BY DEF Colon, Comma, LF
<1>5. EncodeField(v) = d BY DEF EncodeField
<1> DEFINE x == <<Colon>> y == <<Comma>>
<1>6. x \in Seq(X) /\ y \in Seq(X) /\ b = a \o x /\ d = c \o y BY <1>4
<1> HIDE DEF a, X, x, y
<1>7. b \in Seq(X) BY <1>2, <1>6, Glued
<1> HIDE DEF b
<1>8. c \in Seq(X) BY <1>3, <1>7, Glued
<1> HIDE DEF c
<1>9. d \in Seq(X) BY <1>6, <1>8, Glued
<1> QED BY <1>5, <1>9 DEF X

LEMMA RecordEndsLine ==
    ASSUME NEW values \in Seq(Seq(Nat)), NEW w, w = EncodeRecord(values)
    PROVE  /\ w \in Seq(Nat) /\ Len(w) \in Nat \ {0} /\ w[1] = TGO /\ w[Len(w)] = LF /\ Len(w) >= 4
           /\ NoLineEnd(values) => \A j \in 1..Len(w) - 1 : w[j] # LF
<1> DEFINE n == Len(values) part == FieldsOf(values) X == Nat \ {LF}
<1>1. n \in Nat BY LenProperties
<1>2. PICK u : Prefixes(u, n, part) /\ Concat(part) = u[n] BY <1>1, RecordParts
<1>3. PartsIn(part, n, Nat) /\ \A k \in 1..n : values[k] \in Seq(Nat) /\ part[k] = EncodeField(values[k])
  <2> HIDE DEF part, n
  <2> QED BY <1>1, FieldsTyped DEF n, part
<1>4. Concatenates(u, n, part, Nat)
  <2> HIDE DEF part, n
  <2> QED BY <1>1, <1>2, <1>3, Concatenation
<1>5. RecordLies(w, u, n, Numeral(n), Len(Numeral(n))) BY <1>2, <1>4, RecordLayout
<1> DEFINE l == Len(Numeral(n)) z == Len(u[n]) a == Numeral(n)
<1>6. /\ l \in Nat \ {0} /\ z \in Nat /\ w \in Seq(Nat) /\ Len(w) = l + 2 + z + 1 /\ w[1] = TGO
      /\ (\A j \in 1..l : w[1 + j] = a[j]) /\ w[l + 2] = Colon /\ w[l + 2 + z + 1] = LF
      /\ \A j \in 1..z : w[l + 2 + j] = u[n][j]
  BY <1>5 DEF RecordLies
<1>7. \A j \in 1..l : a[j] \in Digits
  <2>1. a \in Seq(Digits) BY <1>1, NumeralTyped
  <2> QED BY <2>1, ElementOfSeq
<1>8. ASSUME NoLineEnd(values) PROVE \A j \in 1..z : u[n][j] # LF
  <2>1. \A k \in 1..n : part[k] \in Seq(X)
    <3> SUFFICES ASSUME NEW k \in 1..n PROVE part[k] \in Seq(X) OBVIOUS
    <3>1. values[k] \in Seq(Nat) /\ part[k] = EncodeField(values[k]) BY <1>3
    <3>2. \A i \in 1..Len(values[k]) : values[k][i] # LF BY <1>8 DEF NoLineEnd
    <3> QED BY <3>1, <3>2, FieldWithin
  <2>2. PartsIn(part, n, X)
    <3>1. part = [i \in 1..n |-> part[i]] BY DEF FieldsOf
    <3> HIDE DEF part, n, X
    <3> QED BY <2>1, <3>1 DEF PartsIn
  <2>3. Concatenates(u, n, part, X)
    <3> HIDE DEF part, n, X
    <3> QED BY <1>1, <1>2, <2>2, Concatenation
  <2>4. u[n] \in Seq(X)
    <3> HIDE DEF part, n, X
    <3>1. n \in 0..n BY <1>1
    <3> QED BY <2>3, <3>1 DEF Concatenates
  <2> SUFFICES ASSUME NEW j \in 1..z PROVE u[n][j] # LF OBVIOUS
  <2>5. u[n][j] \in X
    <3> HIDE DEF X
    <3> QED BY <2>4, ElementOfSeq
  <2> QED BY <2>5
<1> HIDE DEF l, z, a, n, part
<1> DEFINE W == Len(w)
<1>9. W = l + 2 + z + 1 BY <1>6
<1> HIDE DEF W
<1>10. W \in Nat \ {0} /\ W >= 4 BY <1>6, <1>9
<1>11. ASSUME NoLineEnd(values), NEW j \in 1..W - 1 PROVE w[j] # LF
  <2>1. CASE j = 1 BY <1>6, <2>1 DEF TGO, LF
  <2>2. CASE j \in 2..l + 1
    <3>1. j - 1 \in 1..l /\ j = 1 + (j - 1) BY <1>6, <2>2
    <3>2. w[j] \in Digits BY <1>6, <1>7, <3>1
    <3> QED BY <3>2 DEF Digits, LF
  <2>3. CASE j = l + 2 BY <1>6, <2>3 DEF Colon, LF
  <2>4. CASE j \in l + 3..l + 2 + z
    <3>1. j - (l + 2) \in 1..z /\ j = l + 2 + (j - (l + 2)) BY <1>6, <2>4
    <3>2. u[n][j - (l + 2)] # LF BY <1>8, <1>11, <3>1
    <3>3. w[l + 2 + (j - (l + 2))] = u[n][j - (l + 2)] BY <1>6, <3>1
    <3> QED BY <3>1, <3>2, <3>3
  <2>5. j = 1 \/ j \in 2..l + 1 \/ j = l + 2 \/ j \in l + 3..l + 2 + z BY <1>6, <1>9
  <2> QED BY <2>1, <2>2, <2>3, <2>4, <2>5
<1> QED BY <1>6, <1>9, <1>10, <1>11 DEF W

\* A line is refused where there is no end of a line.
LEMMA LineMissing ==
    ASSUME NEW s, NEW from, NEW limit, \A i \in from..Len(s) : s[i] # LF
    PROVE  BoundedLine(s, from, limit).st # "ok"
<1> DEFINE ends == {i \in from..Len(s) : s[i] = LF} line == SubSeq(s, from, Len(s)) r == BoundedLine(s, from, limit)
<1>1. ends = {} OBVIOUS
<1>2. r = IF limit <= 0 \/ PartsExceed(Len(line), limit) THEN Broken("limit") ELSE Broken("eof")
  BY <1>1 DEF BoundedLine
<1> HIDE DEF r
<1>3. r.st # "ok" BY <1>2 DEF Broken
<1> QED BY <1>3 DEF r

\* The rest of a record that holds no line end before its own.
LEMMA RestRefused ==
    ASSUME NEW s \in Seq(Nat), NEW p \in 0..Len(s), NEW w \in Seq(Nat), Len(w) \in Nat \ {0}, w[Len(w)] = LF,
           \A j \in 1..Len(w) - 1 : w[j] # LF, AsFar(s, p, w), NEW left \in Int, Len(w) > left,
           NEW a \in Nat, a > p
    PROVE  BoundedLine(s, a, left - (a - (p + 1))).st # "ok"
<1> DEFINE W == Len(w) m == Len(s) limit == left - (a - (p + 1)) r == BoundedLine(s, a, limit)
<1>1. W \in Nat \ {0} /\ m \in Nat /\ p \in Nat /\ p <= m /\ W > left
  <2>1. m \in Nat BY LenProperties
  <2> HIDE DEF m
  <2> QED BY <2>1 DEF m
<1>2. \A j \in 1..W - 1 : p + j <= m => s[p + j] # LF
  <2> SUFFICES ASSUME NEW j \in 1..W - 1, p + j <= m PROVE s[p + j] # LF OBVIOUS
  <2>1. j \in 1..Len(w) OBVIOUS
  <2> QED BY <2>1 DEF AsFar
<1> HIDE DEF m
<1>3. CASE a > p + W
  <2>1. limit <= 0 BY <1>1, <1>3
  <2> DEFINE ends == {i \in a..Len(s) : s[i] = LF} last == IF ends = {} THEN Len(s) ELSE Min(ends)
             line == SubSeq(s, a, last)
  <2>2. r = Broken("limit")
    <3> HIDE DEF limit
    <3> QED BY <2>1 DEF BoundedLine
  <2> HIDE DEF r
  <2>3. r.st # "ok" BY <2>2 DEF Broken
  <2> QED BY <2>3 DEF r
<1>4. CASE a <= p + W /\ p + W <= m
  <2> DEFINE b == a - 1 c == a - p v == SubSeq(w, c, W)
  <2> HIDE DEF W
  <2>1. b \in Nat /\ b + 1 = a /\ c \in 1..W /\ c \in Int /\ W \in Int /\ W - c + 1 \in Nat \ {0} /\ b = p + (c - 1)
        /\ c <= W /\ b + (W - c + 1) <= m
    BY <1>1, <1>4
  <2>2. \A i \in c..W : w[i] \in Nat
    <3>1. \A i \in c..W : i \in 1..W BY <2>1
    <3> QED BY <3>1, ElementOfSeq DEF W
  <2>3. v \in Seq(Nat) /\ Len(v) = W - c + 1 /\ \A i \in 1..W - c + 1 : v[i] = w[c + i - 1]
    <3> HIDE DEF c
    <3>1. /\ v \in Seq(Nat) /\ Len(v) = (IF c <= W THEN W - c + 1 ELSE 0)
          /\ \A i \in 1..W - c + 1 : v[i] = w[c + i - 1]
      <4>1. c \in Int /\ W \in Int BY <2>1
      <4> QED BY <2>2, <4>1, SubSeqProperties
    <3> QED BY <2>1, <3>1
  <2> HIDE DEF v, b
  <2> DEFINE n == W - c + 1
  <2>4. IsLineText(v)
    <3>1. v[n] = LF
      <4>1. n \in 1..n /\ c + n - 1 = W BY <2>1
      <4>2. v[n] = w[c + n - 1] BY <2>3, <4>1
      <4> QED BY <4>1, <4>2 DEF W
    <3>2. ASSUME NEW j \in 1..n - 1 PROVE v[j] # LF
      <4>1. j \in 1..n /\ c + j - 1 \in 1..W - 1 BY <2>1
      <4>2. v[j] = w[c + j - 1] BY <2>3, <4>1
      <4> QED BY <4>1, <4>2 DEF W
    <3> HIDE DEF c
    <3> QED BY <2>1, <2>3, <3>1, <3>2 DEF IsLineText
  <2>5. Holds(s, b, v)
    <3>1. b + Len(v) <= Len(s) BY <2>1, <2>3 DEF m
    <3>2. ASSUME NEW j \in 1..Len(v) PROVE s[b + j] = v[j]
      <4>1. j \in 1..n BY <2>3
      <4>2. c + j - 1 \in 1..W /\ b + j = p + (c + j - 1) /\ p + (c + j - 1) <= m BY <1>1, <1>4, <2>1, <4>1
      <4>3. s[p + (c + j - 1)] = w[c + j - 1] BY <4>2 DEF AsFar, m, W
      <4> QED BY <2>3, <4>1, <4>2, <4>3
    <3> QED BY <3>1, <3>2 DEF Holds
  <2>6. limit \in Int /\ Len(v) > limit BY <1>1, <2>1, <2>3
  <2>7. Len(s) \in Nat BY <1>1 DEF m
  <2> HIDE DEF limit, r
  <2>8. BoundedLine(s, b + 1, limit) = Broken("limit") BY <2>1, <2>4, <2>5, <2>6, <2>7, LineStands
  <2>9. Broken("limit").st # "ok" BY DEF Broken
  <2>10. r = Broken("limit") BY <2>1, <2>8 DEF r
  <2>11. r.st # "ok" BY <2>9, <2>10
  <2> QED BY <2>11 DEF r, limit
<1>5. CASE p + W > m
  <2>1. \A i \in a..Len(s) : s[i] # LF
    <3> SUFFICES ASSUME NEW i \in a..Len(s) PROVE s[i] # LF OBVIOUS
    <3>1. i - p \in 1..W - 1 /\ p + (i - p) = i /\ i <= m
      <4> HIDE DEF W
      <4>1. i \in a..m BY DEF m
      <4> QED BY <1>1, <1>5, <4>1
    <3> QED BY <1>2, <3>1
  <2> QED BY <2>1, LineMissing
<1>6. a > p + W \/ (a <= p + W /\ p + W <= m) \/ p + W > m
  <2> HIDE DEF W
  <2> QED BY <1>1
<1> QED BY <1>3, <1>4, <1>5, <1>6

\* The record of values that begins at p + 1, as far as the stream goes.
LEMMA RecordChunk ==
    ASSUME NEW s \in Seq(Nat), NEW p \in 0..Len(s), NEW values \in Seq(Seq(Nat)),
           Len(values) <= MaxRecordFields, NEW w, w = EncodeRecord(values), Len(w) < MaxNumber,
           AsFar(s, p, w), NEW left \in Int, left < MaxNumber
    PROVE  /\ Len(w) <= left /\ p + Len(w) <= Len(s) =>
                 ReadRecordWireChunk(s, p + 1, left) = Ok(p + Len(w) + 1, w)
           /\ ~(Len(w) <= left /\ p + Len(w) <= Len(s)) /\ (Len(w) <= left \/ NoLineEnd(values)) =>
                 ReadRecordWireChunk(s, p + 1, left).st = "protocol"
<1> DEFINE W == Len(w) m == Len(s) scan == ScanRecord(s, p + 1, left) chunk == ReadRecordWireChunk(s, p + 1, left)
           rest == BoundedLine(s, scan.at, left - (scan.at - (p + 1)))
<1>1. W \in Nat \ {0} /\ m \in Nat /\ p \in Nat /\ p <= m /\ w \in Seq(Nat) /\ W < MaxNumber /\ MaxNumber \in Nat
  <2>1. m \in Nat BY LenProperties
  <2>2. w \in Seq(Nat) /\ W \in Nat \ {0} BY RecordTyped
  <2> HIDE DEF m
  <2> QED BY <2>1, <2>2, MaxIsNat DEF m
<1>2. chunk = IF scan.st = "ok" THEN Ok(scan.at, SubSeq(s, p + 1, scan.at - 1))
              ELSE IF scan.st = "short" \/ rest.st # "ok" THEN Broken("protocol")
              ELSE Ok(rest.at, SubSeq(s, p + 1, rest.at - 1))
  BY DEF ReadRecordWireChunk, WireChunk
<1>3. \A max \in Int : RecordSo(ScanRecord(s, p + 1, max), s, p, W, max, values)
  <2> SUFFICES ASSUME NEW max \in Int PROVE RecordSo(ScanRecord(s, p + 1, max), s, p, W, max, values) OBVIOUS
  <2>1. Len(EncodeRecord(values)) <= MaxNumber /\ Len(s) \in Nat BY <1>1
  <2> QED BY <2>1, RecordReads
<1>4. ASSUME W <= left, p + W <= m PROVE chunk = Ok(p + W + 1, w)
  <2>1. scan = Ok(p + W + 1, values) BY <1>3, <1>4 DEF RecordSo
  <2> HIDE DEF chunk, scan, rest, W
  <2>2. scan.st = "ok" /\ scan.at = p + W + 1 /\ scan.at - 1 = p + W
    <3>1. scan.st = "ok" /\ scan.at = p + W + 1 BY <2>1 DEF Ok
    <3> QED BY <1>1, <3>1
  <2>3. SubSeq(s, p + 1, p + W) = w
    <3>1. W \in 0..Len(w) BY <1>1 DEF W
    <3>2. \A j \in 1..W : s[p + j] = w[j]
      <4> SUFFICES ASSUME NEW j \in 1..W PROVE s[p + j] = w[j] OBVIOUS
      <4>1. p + j <= m BY <1>1, <1>4
      <4> QED BY <4>1 DEF AsFar, W, m
    <3>3. SubSeq(s, p + 1, p + W) = SubSeq(w, 1, W) BY <1>1, <3>1, <3>2, CutOut
    <3>4. SubSeq(w, 1, W) = w BY <1>1, SubSeqFull DEF W
    <3> QED BY <3>3, <3>4
  <2> QED BY <1>2, <2>2, <2>3
<1>5. ASSUME ~(W <= left /\ p + W <= m) PROVE scan.st # "ok"
  <2> SUFFICES ASSUME scan.st = "ok" PROVE FALSE OBVIOUS
  <2>1. RecordSo(scan, s, p, W, left, values) BY <1>3
  <2>2. RecordFrom(scan, s, p) BY RecordOnce
  <2> HIDE DEF scan, W, m
  <2>3. p + W > m /\ W > left
    <3>1. W <= left \/ W > left BY <1>1
    <3>2. p + W <= m \/ p + W > m BY <1>1
    <3> QED BY <1>5, <2>1, <3>1, <3>2 DEF RecordSo, m
  <2> DEFINE vals == scan.val x == EncodeRecord(vals) V == Len(x)
  <2>4. vals \in Seq(Seq(Nat)) /\ Len(vals) <= MaxRecordFields /\ V \in Nat \ {0} /\ p + V <= m
        /\ \A j \in 1..V : s[p + j] = x[j]
    BY <2>2 DEF RecordFrom, Holds, m
  <2> DEFINE again == ScanRecord(s, p + 1, W)
  <2>5. V <= W /\ W \in Int /\ V <= MaxNumber
    <3> HIDE DEF V
    <3> QED BY <1>1, <2>3, <2>4
  <2>6. AsFar(s, p, x) BY <2>4 DEF AsFar
  <2>7. RecordSo(again, s, p, V, W, vals)
    <3>1. Len(EncodeRecord(vals)) <= MaxNumber /\ Len(s) \in Nat BY <1>1, <2>5 DEF m
    <3> HIDE DEF vals
    <3> QED BY <2>4, <2>5, <2>6, <3>1, RecordReads
  <2>8. again.st = "ok"
    <3> HIDE DEF again, V, vals
    <3>1. again = Ok(p + V + 1, vals) BY <2>4, <2>5, <2>7 DEF RecordSo, m
    <3> QED BY <3>1 DEF Ok
  <2>9. RecordSo(again, s, p, W, W, values) BY <1>3, <2>5
  <2> HIDE DEF again
  <2>10. again.st = "short"
    <3>1. W <= W BY <1>1
    <3> QED BY <2>3, <2>9, <3>1 DEF RecordSo, m
  <2> QED BY <2>8, <2>10
<1>6. ASSUME ~(W <= left /\ p + W <= m), W <= left \/ NoLineEnd(values) PROVE chunk.st = "protocol"
  <2>1. scan.st # "ok" BY <1>5, <1>6
  <2>2. scan.st = "short" \/ rest.st # "ok"
    <3> SUFFICES ASSUME scan.st # "short" PROVE rest.st # "ok" OBVIOUS
    <3>1. StaysAhead(scan, p) BY RecordAheadOf
    <3>2. RecordSo(scan, s, p, W, left, values) BY <1>3
    <3> HIDE DEF scan
    <3>3. scan.at \in Nat /\ scan.at > p BY <2>1, <3>1 DEF StaysAhead
    <3>4. W > left
      <4> SUFFICES ASSUME ~(W > left) PROVE FALSE OBVIOUS
      <4> HIDE DEF W, m
      <4>1. W <= left BY <1>1
      <4>2. p + W > m BY <1>1, <1>6, <4>1
      <4> QED BY <3>2, <4>1, <4>2 DEF RecordSo, m
    <3>5. NoLineEnd(values)
      <4>1. ~(W <= left)
        <5> HIDE DEF W
        <5> QED BY <1>1, <3>4
      <4> QED BY <1>6, <4>1
    <3>6. Len(w) \in Nat \ {0} /\ w[Len(w)] = LF /\ \A j \in 1..Len(w) - 1 : w[j] # LF
      BY <3>5, RecordEndsLine
    <3> DEFINE a == scan.at
    <3>7. a \in Nat /\ a > p BY <3>3
    <3> HIDE DEF a
    <3>8. BoundedLine(s, a, left - (a - (p + 1))).st # "ok" BY <1>1, <3>4, <3>6, <3>7, RestRefused
    <3> QED BY <3>8 DEF a
  <2> HIDE DEF scan, rest, chunk
  <2>3. chunk = Broken("protocol") BY <1>2, <2>1, <2>2
  <2>4. chunk.st = "protocol" BY <2>3 DEF Broken
  <2> QED BY <2>4
<1> QED BY <1>4, <1>6

-----------------------------------------------------------------------------
(* What a frame is made of.                                                 *)
LEMMA LineTyped ==
    ASSUME NEW text, IsLine(text), NEW v, v = Append(text, LF)
    PROVE  IsLineText(v) /\ ~IsDSCTrailer(v) /\ v[1] \in 0..255
<1>1. text \in Seq((0..255) \ {LF}) /\ ~IsDSCTrailer(v) BY DEF IsLine
<1> DEFINE X == (0..255) \ {LF} n == Len(text)
<1>2. n \in Nat /\ \A i \in 1..n : text[i] \in X
  <2> HIDE DEF X
  <2>1. text \in Seq(X) BY <1>1 DEF X
  <2> QED BY <2>1, LenProperties, ElementOfSeq
<1>3. X \subseteq Nat /\ LF \in Nat /\ LF \in 0..255 BY DEF LF
<1>4. text \in Seq(Nat)
  <2> HIDE DEF X
  <2>1. text \in Seq(X) BY <1>1 DEF X
  <2> QED BY <1>3, <2>1, SeqMonotonic
<1>5. v \in Seq(Nat) /\ Len(v) = n + 1 /\ v[n + 1] = LF /\ \A i \in 1..n : v[i] = text[i] BY <1>3, <1>4
<1> HIDE DEF n
<1>6. \A i \in 1..n : text[i] # LF /\ text[i] \in 0..255 BY <1>2
<1>7. n + 1 \in Nat \ {0} BY <1>2
<1>8. v[1] \in 0..255
  <2>1. CASE n = 0 BY <1>3, <1>5, <2>1
  <2>2. CASE n # 0
    <3>1. 1 \in 1..n BY <1>2, <2>2
    <3> QED BY <1>5, <1>6, <3>1
  <2> QED BY <2>1, <2>2
<1>9. IsLineText(v)
  <2> DEFINE c == Len(v)
  <2>1. c = n + 1 BY <1>5
  <2> HIDE DEF c
  <2>2. \A j \in 1..c - 1 : j \in 1..n BY <1>2, <2>1
  <2>3. \A j \in 1..c - 1 : v[j] # LF BY <1>5, <1>6, <2>2
  <2>4. c \in Nat \ {0} /\ v[c] = LF BY <1>5, <1>7, <2>1
  <2> QED BY <1>5, <2>3, <2>4 DEF IsLineText, c
<1> QED BY <1>1, <1>8, <1>9

\* A line of three symbols, or of two.
LEMMA ShortLines ==
    ASSUME NEW a \in Nat \ {LF, Esc}, NEW b \in Nat \ {LF}
    PROVE  /\ IsLineText(<<a, b, LF>>) /\ Len(<<a, b, LF>>) = 3 /\ ~IsDSCTrailer(<<a, b, LF>>)
           /\ IsLineText(<<a, LF>>) /\ Len(<<a, LF>>) = 2 /\ ~IsDSCTrailer(<<a, LF>>)
<1> DEFINE x == <<a, b, LF>> y == <<a, LF>>
<1>1. LF \in Nat BY DEF LF
<1>2. x \in Seq(Nat) /\ Len(x) = 3 /\ x[1] = a /\ x[2] = b /\ x[3] = LF BY <1>1
<1>3. y \in Seq(Nat) /\ Len(y) = 2 /\ y[1] = a /\ y[2] = LF BY <1>1
<1> HIDE DEF x, y
<1>4. IsLineText(x)
  <2>1. \A j \in 1..3 - 1 : j = 1 \/ j = 2 OBVIOUS
  <2> QED BY <1>2, <2>1 DEF IsLineText
<1>5. IsLineText(y)
  <2>1. \A j \in 1..2 - 1 : j = 1 OBVIOUS
  <2> QED BY <1>3, <2>1 DEF IsLineText
<1>6. \A v \in Seq(Nat) : Len(v) >= 2 /\ v[1] # Esc => ~IsDSCTrailer(v)
  <2> SUFFICES ASSUME NEW v \in Seq(Nat), Len(v) >= 2, v[1] # Esc, IsDSCTrailer(v) PROVE FALSE OBVIOUS
  <2>1. Len(DscTrailer) = 2 /\ DscTrailer[1] = Esc BY DEF DscTrailer
  <2>2. SubSeq(v, 1, 2) = DscTrailer BY <2>1 DEF IsDSCTrailer, StartsWith
  <2>3. SubSeq(v, 1, 2)[1] = v[1]
    <3>1. \A i \in 1..2 : i \in 1..Len(v)
      <4>1. Len(v) \in Nat BY LenProperties
      <4> QED BY <4>1
    <3>2. \A i \in 1..2 : v[i] \in Nat BY <3>1, ElementOfSeq
    <3>3. \A i \in 1..2 - 1 + 1 : SubSeq(v, 1, 2)[i] = v[1 + i - 1] BY <3>2, SubSeqProperties
    <3>4. 1 \in 1..2 - 1 + 1 /\ 1 + 1 - 1 = 1 OBVIOUS
    <3> QED BY <3>3, <3>4
  <2> QED BY <2>1, <2>2, <2>3
<1>7. ~IsDSCTrailer(x) /\ ~IsDSCTrailer(y)
  <2>1. 3 >= 2 /\ 2 >= 2 /\ a # Esc OBVIOUS
  <2>2. x \in Seq(Nat) /\ Len(x) >= 2 /\ x[1] # Esc BY <1>2, <2>1
  <2>3. y \in Seq(Nat) /\ Len(y) >= 2 /\ y[1] # Esc BY <1>3, <2>1
  <2> QED BY <1>6, <2>2, <2>3
<1> QED BY <1>2, <1>3, <1>4, <1>5, <1>7 DEF x, y

\* A notification; its first symbol is none of a text.
LEMMA NoteLine ==
    ASSUME NEW text, IsLine(text), NEW v, v = <<Note>> \o text \o <<LF>>
    PROVE  IsLineText(v) /\ ~IsDSCTrailer(v) /\ v[1] = Note
<1> DEFINE X == (0..255) \ {LF} n == Len(text) x == <<Note>> y == <<LF>> c == x \o text
<1>1. text \in Seq(X) BY DEF IsLine
<1>2. X \subseteq Nat /\ LF \in Nat /\ Note \in Nat /\ LF \notin X /\ Note # LF /\ Note # Esc BY DEF LF, Note, Esc
<1>3. n \in Nat /\ (\A i \in 1..n : text[i] \in X) /\ text \in Seq(Nat)
  <2> HIDE DEF X
  <2> QED BY <1>1, <1>2, LenProperties, ElementOfSeq, SeqMonotonic
<1>4. x \in Seq(Nat) /\ Len(x) = 1 /\ x[1] = Note /\ y \in Seq(Nat) /\ Len(y) = 1 /\ y[1] = LF BY <1>2
<1>5. v = c \o y OBVIOUS
<1> HIDE DEF x, y, X
<1>6. c \in Seq(Nat) /\ Len(c) = 1 + n /\ c[1] = Note /\ \A i \in 1..n : c[1 + i] = text[i]
  <2>1. 1 \in 1..Len(x) BY <1>4
  <2>2. /\ x \o text \in Seq(Nat) /\ Len(x \o text) = Len(x) + Len(text)
        /\ (\A i \in 1..Len(x) : (x \o text)[i] = x[i])
        /\ \A j \in 1..Len(text) : (x \o text)[Len(x) + j] = text[j]
    <3>1. Joint(x \o text, x, text, Len(x), Len(text), Nat) BY <1>3, <1>4, GluedAs
    <3> QED BY <3>1 DEF Joint
  <2> QED BY <1>4, <2>1, <2>2
<1> HIDE DEF c
<1>7. /\ v \in Seq(Nat) /\ Len(v) = Len(c) + 1 /\ v[Len(c) + 1] = LF /\ \A i \in 1..Len(c) : v[i] = c[i]
  <2>1. 1 \in 1..Len(y) BY <1>4
  <2>2. /\ c \o y \in Seq(Nat) /\ Len(c \o y) = Len(c) + Len(y)
        /\ (\A i \in 1..Len(c) : (c \o y)[i] = c[i])
        /\ \A j \in 1..Len(y) : (c \o y)[Len(c) + j] = y[j]
    <3>1. Joint(c \o y, c, y, Len(c), Len(y), Nat) BY <1>4, <1>6, GluedAs
    <3> QED BY <3>1 DEF Joint
  <2> QED BY <1>4, <1>5, <2>1, <2>2
<1> HIDE DEF n
<1> DEFINE m == Len(v)
<1>8. m = n + 2 /\ v[m] = LF /\ v[1] = Note
  <2>1. Len(c) + 1 = n + 2 /\ 1 \in 1..Len(c) BY <1>3, <1>6
  <2> QED BY <1>6, <1>7, <2>1
<1> HIDE DEF m
<1>9. ASSUME NEW j \in 1..m - 1 PROVE v[j] # LF
  <2>1. j \in 1..Len(c) BY <1>3, <1>6, <1>8
  <2>2. CASE j = 1 BY <1>2, <1>8, <2>2
  <2>3. CASE j # 1
    <3>1. j - 1 \in 1..n /\ 1 + (j - 1) = j BY <1>3, <1>8, <2>3
    <3>2. v[j] = text[j - 1] BY <1>6, <1>7, <2>1, <3>1
    <3> QED BY <1>2, <1>3, <3>1, <3>2
  <2> QED BY <2>2, <2>3
<1>10. IsLineText(v)
  <2>1. m \in Nat \ {0} BY <1>3, <1>8
  <2> QED BY <1>7, <1>8, <1>9, <2>1 DEF IsLineText, m
<1>11. ~IsDSCTrailer(v)
  <2> SUFFICES ASSUME IsDSCTrailer(v) PROVE FALSE OBVIOUS
  <2>1. Len(DscTrailer) = 2 /\ DscTrailer[1] = Esc BY DEF DscTrailer
  <2>2. SubSeq(v, 1, 2) = DscTrailer BY <2>1 DEF IsDSCTrailer, StartsWith
  <2>3. SubSeq(v, 1, 2)[1] = v[1]
    <3>1. \A i \in 1..2 : i \in 1..Len(v) BY <1>3, <1>8 DEF m
    <3>2. \A i \in 1..2 : v[i] \in Nat BY <1>7, <3>1, ElementOfSeq
    <3>3. \A i \in 1..2 - 1 + 1 : SubSeq(v, 1, 2)[i] = v[1 + i - 1] BY <3>2, SubSeqProperties
    <3>4. 1 \in 1..2 - 1 + 1 /\ 1 + 1 - 1 = 1 OBVIOUS
    <3> QED BY <3>3, <3>4
  <2> QED BY <1>2, <1>8, <2>1, <2>2, <2>3
<1> QED BY <1>8, <1>10, <1>11

IsLinePiece(p, v) ==
    /\ IsLineText(v) /\ ~IsDSCTrailer(v)
    /\ p.kind = "marker" => v[1] = Marker
    /\ p.kind = "note" => v[1] = Note
    /\ p.kind = "text" => v[1] \in 0..255

LEMMA PieceTyped ==
    ASSUME NEW p, IsPiece(p), NEW v, v = PieceBytes(p)
    PROVE  /\ p.kind \in {"record", "marker", "text", "note"}
           /\ v \in Seq(Nat) /\ Len(v) \in Nat \ {0}
           /\ p.kind = "record" => v[1] = TGO /\ v = EncodeRecord(p.values)
           /\ p.kind # "record" => IsLinePiece(p, v) /\ v[1] # TGO
<1>1. p.kind \in {"record", "marker", "text", "note"} BY DEF IsPiece
<1>2. ASSUME p.kind = "record" PROVE v \in Seq(Nat) /\ Len(v) \in Nat \ {0} /\ v[1] = TGO /\ v = EncodeRecord(p.values)
  <2>1. p.values \in Seq(Seq(Nat)) BY <1>2 DEF IsPiece
  <2>2. v = EncodeRecord(p.values) BY <1>2 DEF PieceBytes
  <2> QED BY <2>1, <2>2, RecordEndsLine
<1>3. ASSUME p.kind = "marker" PROVE IsLinePiece(p, v) /\ v[1] # TGO
  <2>1. v = <<Marker, LF>> BY <1>3 DEF PieceBytes
  <2>2. Marker \in Nat \ {LF, Esc} /\ LF + 1 \in Nat \ {LF} /\ Marker # TGO BY DEF Marker, LF, Esc, TGO
  <2>3. IsLineText(v) /\ ~IsDSCTrailer(v) BY <2>1, <2>2, ShortLines
  <2>4. v[1] = Marker BY <2>1
  <2> QED BY <1>3, <2>2, <2>3, <2>4 DEF IsLinePiece
<1>4. ASSUME p.kind = "text" PROVE IsLinePiece(p, v) /\ v[1] # TGO
  <2>1. v = Append(p.text, LF) /\ IsLine(p.text) BY <1>4 DEF PieceBytes, IsPiece
  <2>2. IsLineText(v) /\ ~IsDSCTrailer(v) /\ v[1] \in 0..255 BY <2>1, LineTyped
  <2>3. TGO \notin 0..255 BY DEF TGO
  <2> QED BY <1>4, <2>2, <2>3 DEF IsLinePiece
<1>5. ASSUME p.kind = "note" PROVE IsLinePiece(p, v) /\ v[1] # TGO
  <2>1. v = <<Note>> \o p.text \o <<LF>> /\ IsLine(p.text) BY <1>5 DEF PieceBytes, IsPiece
  <2>2. IsLineText(v) /\ ~IsDSCTrailer(v) /\ v[1] = Note BY <2>1, NoteLine
  <2> QED BY <1>5, <2>2 DEF IsLinePiece, Note, TGO
<1>6. IsLinePiece(p, v) => v \in Seq(Nat) /\ Len(v) \in Nat \ {0} BY DEF IsLinePiece, IsLineText
<1> QED BY <1>1, <1>2, <1>3, <1>4, <1>5, <1>6

\* A line as far as the stream goes.
LEMMA LineComes ==
    ASSUME NEW s \in Seq(Nat), NEW a \in 0..Len(s), NEW v, IsLineText(v), ~IsDSCTrailer(v), AsFar(s, a, v)
    PROVE  /\ a + Len(v) <= Len(s) /\ Len(v) <= FrameBytes =>
                 BoundedLine(s, a + 1, FrameBytes) = Ok(a + Len(v) + 1, v)
           /\ ~(a + Len(v) <= Len(s) /\ Len(v) <= FrameBytes) =>
                 /\ BoundedLine(s, a + 1, FrameBytes).st \in {"eof", "limit"}
                 /\ a + Len(v) <= Len(s) => BoundedLine(s, a + 1, FrameBytes).st = "limit"
<1> DEFINE m == Len(s) n == Len(v) r == BoundedLine(s, a + 1, FrameBytes)
<1>1. m \in Nat /\ n \in Nat \ {0} /\ a \in Nat /\ a <= m /\ FrameBytes \in Nat \ {0}
  <2>1. m \in Nat BY LenProperties
  <2>2. n \in Nat \ {0} BY DEF IsLineText
  <2> HIDE DEF m, n
  <2> QED BY <2>1, <2>2, CodecNumbers DEF m
<1>2. ASSUME a + n <= m PROVE r = IF n > FrameBytes THEN Broken("limit") ELSE Ok(a + n + 1, v)
  <2>1. Holds(s, a, v)
    <3> HIDE DEF n, m
    <3> SUFFICES ASSUME NEW j \in 1..n PROVE s[a + j] = v[j] BY <1>2 DEF Holds, n, m
    <3>1. a + j <= m BY <1>1, <1>2
    <3> QED BY <3>1 DEF AsFar, n, m
  <2>2. ~(FrameBytes <= 0) /\ FrameBytes \in Int BY <1>1
  <2>3. r = IF FrameBytes <= 0 \/ n > FrameBytes THEN Broken("limit")
            ELSE IF IsDSCTrailer(v) THEN Broken("eof") ELSE Ok(a + n + 1, v)
    BY <1>1, <2>1, <2>2, LineStands
  <2> QED BY <2>2, <2>3
<1>3. ASSUME a + n > m PROVE r.st \in {"eof", "limit"}
  <2>1. \A i \in a + 1..Len(s) : s[i] # LF
    <3> SUFFICES ASSUME NEW i \in a + 1..Len(s) PROVE s[i] # LF OBVIOUS
    <3> DEFINE j == i - a
    <3>1. j \in 1..n - 1 /\ j \in 1..n /\ a + j = i /\ i <= m
      <4> HIDE DEF n
      <4>1. i \in a + 1..m BY DEF m
      <4> HIDE DEF m
      <4> QED BY <1>1, <1>3, <4>1
    <3> HIDE DEF j
    <3>2. s[a + j] = v[j] BY <3>1 DEF AsFar
    <3>3. v[j] # LF BY <3>1 DEF IsLineText
    <3> QED BY <3>1, <3>2, <3>3
  <2>2. FrameBytes \in Int BY <1>1
  <2> QED BY <2>1, <2>2, LineCut
<1> HIDE DEF r, m, n
<1>4. ASSUME a + n <= m, ~(n <= FrameBytes) PROVE r.st = "limit"
  <2>1. n > FrameBytes BY <1>1, <1>4
  <2> QED BY <1>2, <1>4, <2>1 DEF Broken
<1>5. ASSUME a + n <= m, n <= FrameBytes PROVE r = Ok(a + n + 1, v)
  <2>1. ~(n > FrameBytes) BY <1>1, <1>5
  <2> QED BY <1>2, <1>5, <2>1
<1>6. a + n <= m \/ a + n > m BY <1>1
<1> QED BY <1>3, <1>4, <1>5, <1>6 DEF r, m, n

-----------------------------------------------------------------------------
(* A frame, one piece of its body at a time.                                *)
Open(at, id, data, ord, notes) ==
    [st |-> "open", at |-> at, id |-> id, data |-> data, used |-> 3 + Len(data), ordinary |-> ord,
     failed |-> FALSE, notes |-> notes]

Failing(st, whole) == st \in {"eof", "limit", "protocol"} /\ (whole => st # "eof")
Fails(f, whole, notes) == Failing(f.st, whole) /\ f.notes = notes

LEMMA DecodesFirst == ASSUME NEW v PROVE (v[1] = Note => Decodes(v)) /\ (Decodes(v) => v[1] \in {Note, Percent})
  BY DEF Decodes

\* There is room for n more bytes of the piece.
Goes(p, n, data) == IF Decodes(PieceBytes(p)) THEN n <= FrameBytes ELSE 3 + Len(data) + n <= FrameBytes

IsText(p) == p.kind = "text" /\ ~Decodes(PieceBytes(p))

RecordStepSo(f, s, a, p, v, n, id, data, ord, notes) ==
    /\ a + n <= Len(s) /\ Goes(p, n, data) =>
          f = Open(a + n + 1, id, data \o v, ord, notes)
    /\ ~(a + n <= Len(s) /\ Goes(p, n, data)) /\ (Goes(p, n, data) \/ NoLineEnd(p.values)) =>
          f.st = "protocol" /\ f.notes = notes

LEMMA RecordStep ==
    ASSUME NEW s \in Seq(Nat), NEW a \in 0..Len(s), a + 1 <= Len(s), NEW p, IsPiece(p), p.kind = "record",
           NEW v, v = PieceBytes(p), AsFar(s, a, v), NEW n, n = Len(v), NEW id, NEW data \in Seq(Nat),
           3 + Len(data) <= FrameBytes, NEW ord \in BOOLEAN, NEW notes \in Seq(Seq(Nat)),
           NEW f, f = FrameStep(s, Open(a + 1, id, data, ord, notes))
    PROVE  RecordStepSo(f, s, a, p, v, n, id, data, ord, notes)
<1> DEFINE m == Len(s) c == Len(data) g == Open(a + 1, id, data, ord, notes) left == FrameBytes - (3 + c)
           chunk == ReadRecordWireChunk(s, a + 1, left)
<1>1. m \in Nat /\ c \in Nat /\ a \in Nat /\ n \in Nat \ {0} /\ FrameBytes \in Nat /\ FrameBytes < MaxNumber
      /\ MaxNumber \in Nat /\ v \in Seq(Nat)
  <2>1. m \in Nat /\ c \in Nat BY LenProperties
  <2>2. v \in Seq(Nat) /\ n \in Nat \ {0} BY PieceTyped
  <2>3. FrameBytes \in Nat /\ FrameBytes < MaxNumber /\ MaxNumber \in Nat BY CodecNumbers, MaxIsNat
  <2> QED BY <2>1, <2>2, <2>3
<1>2. v = EncodeRecord(p.values) /\ v[1] = TGO BY PieceTyped
<1>3. p.values \in Seq(Seq(Nat)) /\ Len(p.values) <= MaxRecordFields /\ Len(v) < MaxNumber
  BY <1>2 DEF IsPiece
<1>4. left \in Int /\ left < MaxNumber
  <2> HIDE DEF c
  <2> QED BY <1>1
<1>5. /\ n <= left /\ a + n <= m => chunk = Ok(a + n + 1, v)
      /\ ~(n <= left /\ a + n <= m) /\ (n <= left \/ NoLineEnd(p.values)) => chunk.st = "protocol"
  <2> HIDE DEF left
  <2> QED BY <1>2, <1>3, <1>4, RecordChunk
<1>6. Goes(p, n, data) <=> n <= left
  <2>0. ~Decodes(PieceBytes(p))
    <3>1. v[1] \notin {Note, Percent} BY <1>2 DEF TGO, Note, Percent
    <3>2. ~Decodes(v) BY <3>1, DecodesFirst
    <3> QED BY <3>2
  <2>1. Goes(p, n, data) <=> 3 + c + n <= FrameBytes BY <2>0 DEF Goes
  <2> HIDE DEF c
  <2> QED BY <1>1, <2>1
<1>7. s[a + 1] = TGO
  <2>1. 1 \in 1..Len(v) BY <1>1
  <2> QED BY <1>2, <2>1 DEF AsFar
<1>8. f = AppendRecordChunk(chunk, g)
  <2>1. g.st = "open" /\ g.at = a + 1 /\ g.used = 3 + c BY DEF Open
  <2>2. ~(a + 1 > m)
    <3> HIDE DEF m
    <3>1. a + 1 <= m BY DEF m
    <3> QED BY <1>1, <3>1
  <2> HIDE DEF g
  <2>3. f = FrameStep(s, g) BY DEF g
  <2> HIDE DEF c, m
  <2>4. ~(g.st # "open") /\ ~(g.at > Len(s)) /\ s[g.at] = TGO BY <1>7, <2>1, <2>2 DEF m
  <2>5. f = AppendRecordChunk(ReadRecordWireChunk(s, g.at, FrameBytes - g.used), g)
    BY <2>3, <2>4 DEF FrameStep
  <2> QED BY <2>1, <2>5
<1> HIDE DEF chunk, left
<1>9. ASSUME a + n <= m, Goes(p, n, data) PROVE f = Open(a + n + 1, id, data \o v, ord, notes)
  <2>1. chunk = Ok(a + n + 1, v) BY <1>5, <1>6, <1>9
  <2>2. f = [g EXCEPT !.at = a + n + 1, !.data = @ \o v, !.used = @ + n]
    BY <1>8, <2>1 DEF AppendRecordChunk, Ok
  <2>3. Len(data \o v) = c + n BY <1>1
  <2>4. 3 + Len(data \o v) = 3 + c + n
    <3> HIDE DEF c
    <3>1. 3 + (c + n) = 3 + c + n BY <1>1
    <3> QED BY <2>3, <3>1
  <2> DEFINE x == data \o v
  <2>5. x = data \o v /\ 3 + Len(x) = 3 + c + n BY <2>4
  <2> HIDE DEF x, c
  <2>6. g = [st |-> "open", at |-> a + 1, id |-> id, data |-> data, used |-> 3 + c, ordinary |-> ord,
             failed |-> FALSE, notes |-> notes]
    BY DEF Open, c
  <2> HIDE DEF g
  <2>7. f = [st |-> "open", at |-> a + n + 1, id |-> id, data |-> x, used |-> 3 + c + n, ordinary |-> ord,
             failed |-> FALSE, notes |-> notes]
    BY <2>2, <2>5, <2>6
  <2>8. f = Open(a + n + 1, id, x, ord, notes) BY <2>5, <2>7 DEF Open
  <2> QED BY <2>8 DEF x
<1>10. ASSUME chunk.st = "protocol" PROVE f.st = "protocol" /\ f.notes = notes
  <2>1. f = [g EXCEPT !.st = chunk.st] BY <1>8, <1>10 DEF AppendRecordChunk
  <2>2. f = [Open(a + 1, id, data, ord, notes) EXCEPT !.st = "protocol"] BY <1>10, <2>1
  <2> QED BY <2>2 DEF Open
<1> QED BY <1>5, <1>6, <1>9, <1>10 DEF RecordStepSo

LEMMA OpenMoved ==
    ASSUME NEW at, NEW id, NEW data, NEW ord, NEW notes, NEW b
    PROVE  [Open(at, id, data, ord, notes) EXCEPT !.at = b] = Open(b, id, data, ord, notes)
<1> DEFINE c == 3 + Len(data) g == Open(at, id, data, ord, notes) f == [g EXCEPT !.at = b]
<1>1. g = [st |-> "open", at |-> at, id |-> id, data |-> data, used |-> c, ordinary |-> ord,
           failed |-> FALSE, notes |-> notes]
  BY DEF Open
<1> HIDE DEF g, c
<1>2. f = [g EXCEPT !.at = b] OBVIOUS
<1> HIDE DEF f
<1>3. f = [st |-> "open", at |-> b, id |-> id, data |-> data, used |-> c, ordinary |-> ord,
           failed |-> FALSE, notes |-> notes]
  BY <1>1, <1>2
<1> QED BY <1>3 DEF Open, f, g, c

LineStepSo(f, s, a, p, n, id, data, ord, notes) ==
    /\ a + n <= Len(s) /\ Goes(p, n, data) =>
          f = Open(a + n + 1, id, data \o DataOf(p), ord \/ IsText(p), notes \o NotesOf(p))
    /\ ~(a + n <= Len(s) /\ Goes(p, n, data)) => Fails(f, a + n <= Len(s), notes)

LEMMA LineStep ==
    ASSUME NEW s \in Seq(Nat), NEW a \in 0..Len(s), a + 1 <= Len(s), NEW p, IsPiece(p), p.kind # "record",
           NEW v, v = PieceBytes(p), AsFar(s, a, v), NEW n, n = Len(v), NEW id, NEW data \in Seq(Nat),
           3 + Len(data) <= FrameBytes, NEW ord \in BOOLEAN, NEW notes \in Seq(Seq(Nat)),
           NEW f, f = FrameStep(s, Open(a + 1, id, data, ord, notes))
    PROVE  LineStepSo(f, s, a, p, n, id, data, ord, notes)
<1> DEFINE m == Len(s) c == Len(data) g == Open(a + 1, id, data, ord, notes)
           line == BoundedLine(s, a + 1, FrameBytes)
<1>1. m \in Nat /\ c \in Nat /\ a \in Nat /\ n \in Nat \ {0} /\ FrameBytes \in Nat /\ v \in Seq(Nat)
  <2>1. m \in Nat /\ c \in Nat BY LenProperties
  <2>2. v \in Seq(Nat) /\ n \in Nat \ {0} BY PieceTyped
  <2>3. FrameBytes \in Nat BY CodecNumbers
  <2> QED BY <2>1, <2>2, <2>3
<1>2. IsLinePiece(p, v) /\ v[1] # TGO /\ p.kind \in {"marker", "text", "note"}
  <2>1. p.kind \in {"record", "marker", "text", "note"} BY PieceTyped
  <2> QED BY <2>1, PieceTyped
<1>3. /\ a + n <= m /\ n <= FrameBytes => line = Ok(a + n + 1, v)
      /\ ~(a + n <= m /\ n <= FrameBytes) => line.st \in {"eof", "limit"} /\ (a + n <= m => line.st = "limit")
  <2>1. IsLineText(v) /\ ~IsDSCTrailer(v) BY <1>2 DEF IsLinePiece
  <2> QED BY <2>1, LineComes
<1>4. s[a + 1] # TGO
  <2>1. 1 \in 1..Len(v) BY <1>1
  <2> QED BY <1>2, <2>1 DEF AsFar
<1>5. f = IF line.st # "ok" THEN [g EXCEPT !.st = line.st]
          ELSE ProcessFrameLine(line.val, [g EXCEPT !.at = line.at])
  <2>1. g.st = "open" /\ g.at = a + 1 BY DEF Open
  <2>2. ~(a + 1 > m)
    <3> HIDE DEF m
    <3>1. a + 1 <= m BY DEF m
    <3> QED BY <1>1, <3>1
  <2> HIDE DEF g
  <2>3. f = FrameStep(s, g) BY DEF g
  <2> HIDE DEF c, m
  <2>4. ~(g.st # "open") /\ ~(g.at > Len(s)) /\ ~(s[g.at] = TGO) BY <1>4, <2>1, <2>2 DEF m
  <2>5. f = IF BoundedLine(s, g.at, FrameBytes).st # "ok"
            THEN [g EXCEPT !.st = BoundedLine(s, g.at, FrameBytes).st]
            ELSE ProcessFrameLine(BoundedLine(s, g.at, FrameBytes).val,
                                  [g EXCEPT !.at = BoundedLine(s, g.at, FrameBytes).at])
    BY <2>3, <2>4 DEF FrameStep
  <2> QED BY <2>1, <2>5
<1>6. g = [st |-> "open", at |-> a + 1, id |-> id, data |-> data, used |-> 3 + c, ordinary |-> ord,
           failed |-> FALSE, notes |-> notes]
  BY DEF Open
<1> DEFINE b == a + n + 1 h == [g EXCEPT !.at = b]
<1>9. h = [st |-> "open", at |-> b, id |-> id, data |-> data, used |-> 3 + c, ordinary |-> ord,
           failed |-> FALSE, notes |-> notes]
  <2> HIDE DEF b
  <2>1. h = Open(b, id, data, ord, notes) BY OpenMoved
  <2> HIDE DEF h
  <2> QED BY <2>1 DEF Open
<1> HIDE DEF g, line, h
<1>7. ASSUME ~(a + n <= m /\ n <= FrameBytes) PROVE Fails(f, a + n <= m, notes)
  <2>1. line.st \in {"eof", "limit"} /\ (a + n <= m => line.st = "limit") BY <1>3, <1>7
  <2>2. f = [g EXCEPT !.st = line.st] BY <1>5, <2>1
  <2>3. f.st = line.st /\ f.notes = notes BY <1>6, <2>2
  <2> QED BY <2>1, <2>3 DEF Failing, Fails
<1>8. ASSUME a + n <= m, n <= FrameBytes
      PROVE  f = ProcessFrameLine(v, h)
  <2>1. line = Ok(a + n + 1, v) BY <1>3, <1>8
  <2>2. line.st = "ok" /\ line.at = a + n + 1 /\ line.val = v BY <2>1 DEF Ok
  <2> QED BY <1>5, <2>2 DEF h
<1>10. CASE Decodes(v)
  <2>1. v[1] \in {Note, Percent} BY <1>10, DecodesFirst
  <2>2. v[1] \notin {End, Failed} /\ v[1] # Begin BY <2>1 DEF Note, Percent, End, Failed, Begin
  <2>3. Goes(p, n, data) <=> n <= FrameBytes BY <1>10 DEF Goes
  <2>4. ASSUME a + n <= m, n <= FrameBytes
        PROVE  f = Open(a + n + 1, id, data \o DataOf(p), ord \/ IsText(p), notes \o NotesOf(p))
    <3>1. f = ProcessFrameLine(v, h) BY <1>8, <2>4
    <3>2. f = [h EXCEPT !.notes = Append(@, v)] BY <1>10, <2>2, <3>1 DEF ProcessFrameLine
    <3>3. DataOf(p) = <<>> /\ NotesOf(p) = <<v>> BY <1>10 DEF DataOf, NotesOf
    <3>4. data \o <<>> = data /\ notes \o <<v>> = Append(notes, v) BY <1>1
    <3>5. (ord \/ IsText(p)) = ord BY <1>10 DEF IsText
    <3> DEFINE x == Append(notes, v)
    <3>6. f = [st |-> "open", at |-> a + n + 1, id |-> id, data |-> data, used |-> 3 + c, ordinary |-> ord,
               failed |-> FALSE, notes |-> x]
      BY <1>9, <3>2
    <3> HIDE DEF x
    <3>7. f = Open(a + n + 1, id, data, ord, x) BY <3>6 DEF Open
    <3> QED BY <3>3, <3>4, <3>5, <3>7 DEF x
  <2> QED BY <1>7, <2>3, <2>4 DEF LineStepSo
<1>11. CASE ~Decodes(v)
  <2>1. v[1] \notin {End, Failed} /\ v[1] # Begin /\ (IsText(p) <=> v[1] # Marker)
    <3>0. (IsText(p) <=> p.kind = "text") /\ p.kind # "note"
      <4>1. p.kind = "note" => v[1] = Note BY <1>2 DEF IsLinePiece
      <4> QED BY <1>11, <4>1, DecodesFirst DEF IsText
    <3>1. CASE p.kind = "marker"
      <4>1. v[1] = Marker BY <1>2, <3>1 DEF IsLinePiece
      <4>2. Marker \notin {End, Failed} /\ Marker # Begin BY DEF Marker, End, Failed, Begin
      <4> QED BY <3>0, <3>1, <4>1, <4>2
    <3>2. CASE p.kind = "text"
      <4>1. v[1] \in 0..255 BY <1>2, <3>2 DEF IsLinePiece
      <4>2. Marker \notin 0..255 /\ End \notin 0..255 /\ Failed \notin 0..255 /\ Begin \notin 0..255
        BY DEF Marker, End, Failed, Begin
      <4>3. v[1] \notin {End, Failed} /\ v[1] # Begin /\ v[1] # Marker BY <4>1, <4>2
      <4> QED BY <3>0, <3>2, <4>3
    <3> QED BY <1>2, <3>0, <3>1, <3>2
  <2>2. Goes(p, n, data) <=> 3 + c + n <= FrameBytes BY <1>11 DEF Goes
  <2>3. Goes(p, n, data) => n <= FrameBytes
    <3> HIDE DEF c
    <3> QED BY <1>1, <2>2
  <2>4. ASSUME a + n <= m, n <= FrameBytes
        PROVE  f = [st |-> IF 3 + c + n > FrameBytes THEN "limit" ELSE "open", at |-> a + n + 1, id |-> id,
                    data |-> data \o v, used |-> 3 + c + n, ordinary |-> ord \/ v[1] # Marker,
                    failed |-> FALSE, notes |-> notes]
    <3>1. f = ProcessFrameLine(v, h) BY <1>8, <2>4
    <3>2. f = AppendLine(v, h) BY <1>11, <2>1, <3>1 DEF ProcessFrameLine
    <3>3. f = [h EXCEPT !.data = @ \o v, !.used = @ + n, !.ordinary = @ \/ v[1] # Marker,
                        !.st = IF 3 + c + n > FrameBytes THEN "limit" ELSE @]
      <4>1. h.used = 3 + c BY <1>9
      <4> QED BY <3>2, <4>1 DEF AppendLine
    <3> HIDE DEF c
    <3> QED BY <1>9, <3>3
  <2>5. ASSUME a + n <= m, Goes(p, n, data)
        PROVE  f = Open(a + n + 1, id, data \o DataOf(p), ord \/ IsText(p), notes \o NotesOf(p))
    <3>1. n <= FrameBytes BY <2>3, <2>5
    <3>2. ~(3 + c + n > FrameBytes)
      <4>1. 3 + c + n <= FrameBytes BY <2>2, <2>5
      <4> HIDE DEF c
      <4> QED BY <1>1, <4>1
    <3>3. DataOf(p) = v /\ NotesOf(p) = <<>> BY <1>11 DEF DataOf, NotesOf
    <3>4. notes \o <<>> = notes OBVIOUS
    <3>5. Len(data \o v) = c + n BY <1>1
    <3> DEFINE x == data \o v o == ord \/ IsText(p)
    <3>6. 3 + Len(x) = 3 + c + n
      <4> HIDE DEF c
      <4>1. 3 + (c + n) = 3 + c + n BY <1>1
      <4> QED BY <3>5, <4>1
    <3>7. o = (ord \/ v[1] # Marker) BY <2>1
    <3>8. f = [st |-> "open", at |-> a + n + 1, id |-> id, data |-> x, used |-> 3 + c + n, ordinary |-> o,
               failed |-> FALSE, notes |-> notes]
      BY <2>4, <2>5, <3>1, <3>2, <3>7
    <3> HIDE DEF x, o, c
    <3>9. f = Open(a + n + 1, id, x, o, notes) BY <3>6, <3>8 DEF Open
    <3> QED BY <3>3, <3>4, <3>9 DEF x, o
  <2>6. ASSUME ~(a + n <= m /\ Goes(p, n, data)) PROVE Fails(f, a + n <= m, notes)
    <3>1. CASE ~(a + n <= m /\ n <= FrameBytes) BY <1>7, <3>1
    <3>2. CASE a + n <= m /\ n <= FrameBytes
      <4>1. 3 + c + n > FrameBytes
        <5>1. ~(3 + c + n <= FrameBytes) BY <2>2, <2>6, <3>2
        <5> HIDE DEF c
        <5> QED BY <1>1, <5>1
      <4> HIDE DEF c
      <4>2. f.st = "limit" /\ f.notes = notes BY <2>4, <3>2, <4>1
      <4> QED BY <4>2 DEF Failing, Fails
    <3> QED BY <3>1, <3>2
  <2> QED BY <2>5, <2>6 DEF LineStepSo
<1> QED BY <1>10, <1>11

\* What a round of readFrame makes of a piece, as far as the stream goes.
StepSo(f, s, a, p, n, id, data, ord, notes) ==
    /\ a + n <= Len(s) /\ Goes(p, n, data) =>
          f = Open(a + n + 1, id, data \o DataOf(p), ord \/ IsText(p), notes \o NotesOf(p))
    /\ ~(a + n <= Len(s) /\ Goes(p, n, data))
          /\ (p.kind = "record" => Goes(p, n, data) \/ NoLineEnd(p.values))
          => Fails(f, a + n <= Len(s), notes)

LEMMA PieceStep ==
    ASSUME NEW s \in Seq(Nat), NEW a \in 0..Len(s), NEW p, IsPiece(p),
           NEW v, v = PieceBytes(p), AsFar(s, a, v), NEW n, n = Len(v), NEW id, NEW data \in Seq(Nat),
           3 + Len(data) <= FrameBytes, NEW ord \in BOOLEAN, NEW notes \in Seq(Seq(Nat)),
           NEW f, f = FrameStep(s, Open(a + 1, id, data, ord, notes))
    PROVE  StepSo(f, s, a, p, n, id, data, ord, notes)
<1>1. Len(s) \in Nat /\ a \in Nat /\ n \in Nat \ {0}
  <2>1. n \in Nat \ {0} BY PieceTyped
  <2>2. Len(s) \in Nat BY LenProperties
  <2> QED BY <2>1, <2>2
<1>2. CASE a + 1 <= Len(s) /\ p.kind = "record"
  <2>0. ~Decodes(PieceBytes(p))
    <3>1. v[1] = TGO BY <1>2, PieceTyped
    <3>2. v[1] \notin {Note, Percent} BY <3>1 DEF TGO, Note, Percent
    <3>3. ~Decodes(v) BY <3>2, DecodesFirst
    <3> QED BY <3>3
  <2>1. DataOf(p) = v /\ NotesOf(p) = <<>> /\ notes \o <<>> = notes /\ (ord \/ IsText(p)) = ord
    <3>1. DataOf(p) = v /\ NotesOf(p) = <<>> BY <2>0 DEF DataOf, NotesOf
    <3>2. ~IsText(p) BY <1>2 DEF IsText
    <3>3. notes \o <<>> = notes OBVIOUS
    <3> QED BY <3>1, <3>2, <3>3
  <2>2. RecordStepSo(f, s, a, p, v, n, id, data, ord, notes) BY <1>2, RecordStep
  <2>3. f.st = "protocol" /\ f.notes = notes => Fails(f, a + n <= Len(s), notes) BY DEF Failing, Fails
  <2> QED BY <1>2, <2>1, <2>2, <2>3 DEF StepSo, RecordStepSo
<1>3. CASE a + 1 <= Len(s) /\ p.kind # "record"
  <2>1. LineStepSo(f, s, a, p, n, id, data, ord, notes) BY <1>3, LineStep
  <2> QED BY <2>1 DEF StepSo, LineStepSo
<1>4. CASE ~(a + 1 <= Len(s))
  <2> DEFINE g == Open(a + 1, id, data, ord, notes)
  <2>1. a + 1 > Len(s) /\ ~(a + n <= Len(s)) BY <1>1, <1>4
  <2>2. g.st = "open" /\ g.at = a + 1 BY DEF Open
  <2>3. f = [g EXCEPT !.st = "eof"]
    <3> HIDE DEF g
    <3>1. f = FrameStep(s, g) BY DEF g
    <3> QED BY <2>1, <2>2, <3>1 DEF FrameStep
  <2>4. f.st = "eof" /\ f.notes = notes BY <2>3 DEF Open
  <2> QED BY <2>1, <2>4 DEF StepSo, Failing, Fails
<1> QED BY <1>2, <1>3, <1>4

-----------------------------------------------------------------------------
(* A whole frame.                                                           *)
\* u[k] is the concatenation of the first k parts, for every k.
LEMMA EachConcat ==
    ASSUME NEW X, NEW N \in Nat, NEW part, PartsIn(part, N, X)
    PROVE  \E u : Concatenates(u, N, part, X) /\ \A k \in 0..N : Concat([i \in 1..k |-> part[i]]) = u[k]
<1>1. part = [i \in 1..N |-> part[i]] BY DEF PartsIn
<1>2. PICK u : Prefixes(u, N, part) /\ Concat(part) = u[N] BY <1>1, ConcatParts
<1>3. Concatenates(u, N, part, X) BY <1>2, Concatenation
<1>4. \A j \in 1..N : u[j] = u[j - 1] \o part[j] BY <1>3 DEF Concatenates
<1>5. ASSUME NEW k \in 0..N PROVE Concat([i \in 1..k |-> part[i]]) = u[k]
  <2> DEFINE some == [i \in 1..k |-> part[i]]
  <2>1. some = [i \in 1..k |-> some[i]] /\ \A i \in 1..k : some[i] = part[i] OBVIOUS
  <2> HIDE DEF some
  <2>2. k \in Nat OBVIOUS
  <2>3. PICK w : Prefixes(w, k, some) /\ Concat(some) = w[k] BY <2>1, <2>2, ConcatParts
  <2>4. PartsIn(some, k, X)
    <3>1. \A i \in 1..k : i \in 1..N OBVIOUS
    <3>2. \A i \in 1..k : some[i] \in Seq(X) BY <2>1, <3>1 DEF PartsIn
    <3> QED BY <2>1, <3>2 DEF PartsIn
  <2>5. Concatenates(w, k, some, X) BY <2>2, <2>3, <2>4, Concatenation
  <2>6. w[0] = <<>> /\ \A j \in 1..k : w[j] = w[j - 1] \o some[j] BY <2>5 DEF Concatenates
  <2> DEFINE S == {j \in Nat : j <= k => w[j] = u[j]}
  <2>7. 0 \in S
    <3>1. u[0] = <<>> BY <1>3 DEF Concatenates
    <3> QED BY <2>6, <3>1
  <2>8. ASSUME NEW j \in Nat \ {0}, j - 1 \in S PROVE j \in S
    <3> SUFFICES ASSUME j <= k PROVE w[j] = u[j] OBVIOUS
    <3>1. j \in 1..k /\ j \in 1..N /\ j - 1 <= k OBVIOUS
    <3>2. w[j - 1] = u[j - 1] BY <2>8, <3>1
    <3>3. w[j] = w[j - 1] \o part[j] BY <2>1, <2>6, <3>1
    <3>4. u[j] = u[j - 1] \o part[j] BY <1>4, <3>1
    <3> QED BY <3>2, <3>3, <3>4
  <2>9. Nat \subseteq S
    <3> HIDE DEF S
    <3> QED BY <2>7, <2>8, UpToAll
  <2>10. w[k] = u[k] BY <2>2, <2>9
  <2> QED BY <2>3, <2>10 DEF some
<1> QED BY <1>3, <1>5

BodyParts(item) == [i \in 1..Len(item.body) |-> PieceBytes(item.body[i])]
DataParts(item) == [i \in 1..Len(item.body) |-> DataOf(item.body[i])]
NoteParts(item) == [i \in 1..Len(item.body) |-> NotesOf(item.body[i])]

\* b, d and o: what the first k pieces of the body are, add to the data, and are notifications of.
Laid(item, K, b, d, o) ==
    /\ K \in Nat /\ K = Len(item.body)
    /\ Concatenates(b, K, BodyParts(item), Nat) /\ Concatenates(d, K, DataParts(item), Nat)
    /\ Concatenates(o, K, NoteParts(item), Seq(Nat))
    /\ \A k \in 0..K : Body(item, k) = b[k] /\ Data(item, k) = d[k] /\ Notes(item, k) = o[k]

IsFrame(item) == IsItem(item) /\ item.kind = "frame"

LEMMA FrameLaid ==
    ASSUME NEW item, IsFrame(item) PROVE \E K, b, d, o : Laid(item, K, b, d, o)
<1> DEFINE K == Len(item.body) B == BodyParts(item) D == DataParts(item) O == NoteParts(item) X == Seq(Nat)
<1>1. K \in Nat /\ \A i \in 1..K : IsPiece(item.body[i]) BY DEF IsFrame, IsItem
<1>2. \A i \in 1..K : /\ PieceBytes(item.body[i]) \in Seq(Nat) /\ DataOf(item.body[i]) \in Seq(Nat)
                      /\ NotesOf(item.body[i]) \in Seq(Seq(Nat))
  <2> SUFFICES ASSUME NEW i \in 1..K
               PROVE  /\ PieceBytes(item.body[i]) \in Seq(Nat) /\ DataOf(item.body[i]) \in Seq(Nat)
                      /\ NotesOf(item.body[i]) \in Seq(Seq(Nat))
    OBVIOUS
  <2> DEFINE p == item.body[i] v == PieceBytes(p)
  <2>1. v \in Seq(Nat)
    <3>1. IsPiece(p) BY <1>1
    <3> HIDE DEF p
    <3> QED BY <3>1, PieceTyped
  <2> HIDE DEF v, p
  <2>2. <<v>> \in Seq(Seq(Nat)) /\ <<>> \in Seq(Nat) /\ <<>> \in Seq(Seq(Nat)) BY <2>1
  <2>3. DataOf(p) \in {v, <<>>} /\ NotesOf(p) \in {<<v>>, <<>>} BY DEF DataOf, NotesOf, v
  <2> QED BY <2>1, <2>2, <2>3 DEF v, p
<1>3. PartsIn(B, K, Nat) BY <1>2 DEF PartsIn, BodyParts
<1>4. PartsIn(D, K, Nat) BY <1>2 DEF PartsIn, DataParts
<1>5. PartsIn(O, K, X) BY <1>2 DEF PartsIn, NoteParts
<1>6. \A k \in 0..K : /\ Body(item, k) = Concat([i \in 1..k |-> B[i]])
                      /\ Data(item, k) = Concat([i \in 1..k |-> D[i]])
                      /\ Notes(item, k) = Concat([i \in 1..k |-> O[i]])
  <2> SUFFICES ASSUME NEW k \in 0..K
               PROVE  /\ Body(item, k) = Concat([i \in 1..k |-> B[i]])
                      /\ Data(item, k) = Concat([i \in 1..k |-> D[i]])
                      /\ Notes(item, k) = Concat([i \in 1..k |-> O[i]])
    OBVIOUS
  <2>1. \A i \in 1..k : i \in 1..K
    <3> HIDE DEF K
    <3> QED BY <1>1
  <2>2. \A i \in 1..k : /\ B[i] = PieceBytes(item.body[i]) /\ D[i] = DataOf(item.body[i])
                        /\ O[i] = NotesOf(item.body[i])
    BY <2>1 DEF BodyParts, DataParts, NoteParts
  <2> HIDE DEF B, D, O, K
  <2>3. [i \in 1..k |-> B[i]] = [i \in 1..k |-> PieceBytes(item.body[i])] BY <2>2
  <2>4. [i \in 1..k |-> D[i]] = [i \in 1..k |-> DataOf(item.body[i])] BY <2>2
  <2>5. [i \in 1..k |-> O[i]] = [i \in 1..k |-> NotesOf(item.body[i])] BY <2>2
  <2> QED BY <2>3, <2>4, <2>5 DEF Body, Data, Notes
<1> HIDE DEF B, D, O, K, X
<1>7. PICK b : Concatenates(b, K, B, Nat) /\ \A k \in 0..K : Concat([i \in 1..k |-> B[i]]) = b[k]
  BY <1>1, <1>3, EachConcat
<1>8. PICK d : Concatenates(d, K, D, Nat) /\ \A k \in 0..K : Concat([i \in 1..k |-> D[i]]) = d[k]
  BY <1>1, <1>4, EachConcat
<1>9. PICK o : Concatenates(o, K, O, X) /\ \A k \in 0..K : Concat([i \in 1..k |-> O[i]]) = o[k]
  BY <1>1, <1>5, EachConcat
<1>10. \A k \in 0..K : Body(item, k) = b[k] /\ Data(item, k) = d[k] /\ Notes(item, k) = o[k]
  BY <1>6, <1>7, <1>8, <1>9
<1>11. Laid(item, K, b, d, o) BY <1>1, <1>7, <1>8, <1>9, <1>10 DEF Laid, B, D, O, K, X
<1> QED BY <1>11

PartSo(u, n, part, X, k) ==
    /\ u[k - 1] \in Seq(X) /\ u[k] \in Seq(X) /\ u[n] \in Seq(X) /\ u[k] = u[k - 1] \o part[k]
    /\ Len(u[k - 1]) \in Nat /\ Len(u[k]) \in Nat /\ Len(u[n]) \in Nat
    /\ Len(u[k]) = Len(u[k - 1]) + Len(part[k]) /\ Len(u[k]) <= Len(u[n])
    /\ \A j \in 1..Len(part[k]) : u[n][Len(u[k - 1]) + j] = part[k][j]

LEMMA PartAt ==
    ASSUME NEW X, NEW n \in Nat, NEW part, NEW u, Concatenates(u, n, part, X), NEW k \in 1..n
    PROVE  PartSo(u, n, part, X, k)
<1>1. k - 1 \in 0..n /\ k \in 0..n /\ n \in 0..n OBVIOUS
<1>2. u[k - 1] \in Seq(X) /\ u[k] \in Seq(X) /\ u[n] \in Seq(X) BY <1>1 DEF Concatenates
<1>3. Len(u[k - 1]) \in Nat /\ Len(u[k]) \in Nat /\ Len(u[n]) \in Nat BY <1>2, LenProperties
<1>4. u[k] = u[k - 1] \o part[k] BY DEF Concatenates
<1>5. Len(u[k]) = Len(u[k - 1]) + Len(part[k]) BY DEF Concatenates
<1>6. Len(u[k]) <= Len(u[n]) BY <1>1 DEF Concatenates
<1>7. \A j \in 1..Len(part[k]) : u[n][Len(u[k - 1]) + j] = part[k][j] BY DEF Concatenates
<1> QED BY <1>2, <1>3, <1>4, <1>5, <1>6, <1>7 DEF PartSo

LEMMA AsFarPart ==
    ASSUME NEW s, NEW p \in Nat, NEW v, AsFar(s, p, v), NEW c \in Nat, NEW t, Len(t) \in Nat, Len(v) \in Nat,
           c + Len(t) <= Len(v), \A j \in 1..Len(t) : v[c + j] = t[j]
    PROVE  AsFar(s, p + c, t)
<1> SUFFICES ASSUME NEW j \in 1..Len(t), (p + c) + j <= Len(s) PROVE s[(p + c) + j] = t[j] BY DEF AsFar
<1> DEFINE n == Len(t) m == Len(v)
<1>1. n \in Nat /\ m \in Nat /\ c + n <= m /\ j \in 1..n OBVIOUS
<1> HIDE DEF n, m
<1>2. c + j \in 1..m /\ (p + c) + j = p + (c + j) BY <1>1
<1>3. s[p + (c + j)] = v[c + j] BY <1>2 DEF AsFar, m
<1>4. v[c + j] = t[j] OBVIOUS
<1> QED BY <1>2, <1>3, <1>4

HeaderOf(item) == <<Begin, item.id, LF>>
EndOf(item)    == <<IF item.failed THEN Failed ELSE End, item.id, LF>>

\* The header, the pieces of the body and the end of a frame that begins at p + 1, as far as the
\* stream goes.
FrameAhead(s, p, item, K, b) ==
    /\ AsFar(s, p, HeaderOf(item)) /\ AsFar(s, p + 3, b[K])
    /\ \A k \in 1..K : AsFar(s, p + 3 + Len(b[k - 1]), PieceBytes(item.body[k]))
    /\ AsFar(s, p + 3 + Len(b[K]), EndOf(item))

LEMMA FrameInSight ==
    ASSUME NEW item, IsFrame(item), NEW K, NEW b, NEW d, NEW o, Laid(item, K, b, d, o), NEW s, NEW p \in Nat,
           NEW v, v = ItemBytes(item)
    PROVE  /\ v \in Seq(Nat) /\ Len(b[K]) \in Nat /\ Len(v) = 3 + Len(b[K]) + 3 /\ v[1] = Begin
           /\ AsFar(s, p, v) => FrameAhead(s, p, item, K, b)
<1> DEFINE x == HeaderOf(item) y == EndOf(item) z == b[K] c == x \o z N == Len(z)
<1>1. item.id \in Nat /\ K \in Nat BY DEF IsFrame, IsItem, Laid
<1>2. x \in Seq(Nat) /\ Len(x) = 3 /\ x[1] = Begin /\ y \in Seq(Nat) /\ Len(y) = 3
  <2>1. LF \in Nat /\ Begin \in Nat /\ (IF item.failed THEN Failed ELSE End) \in Nat
    BY DEF LF, Begin, Failed, End
  <2> QED BY <1>1, <2>1 DEF HeaderOf, EndOf
<1>3. K \in 0..K /\ z \in Seq(Nat)
  <2>1. K \in 0..K BY <1>1
  <2>2. \A k \in 0..K : b[k] \in Seq(Nat) BY DEF Laid, Concatenates
  <2> QED BY <2>1, <2>2
<1>4. v = c \o y
  <2>1. Body(item, Len(item.body)) = z BY <1>3 DEF Laid
  <2>2. item.kind # "note" BY DEF IsFrame
  <2> QED BY <2>1, <2>2 DEF ItemBytes, HeaderOf, EndOf
<1>5. N \in Nat BY <1>3, LenProperties
<1>6. Len(b[K]) = N OBVIOUS
<1> HIDE DEF x, y, z
<1>7. Joint(c, x, z, 3, N, Nat)
  <2>1. Joint(x \o z, x, z, Len(x), Len(z), Nat) BY <1>2, <1>3, GluedAs
  <2> QED BY <1>2, <2>1
<1> HIDE DEF c
<1>8. c \in Seq(Nat) /\ Len(c) = 3 + N /\ (\A i \in 1..3 : c[i] = x[i]) /\ \A j \in 1..N : c[3 + j] = z[j]
  BY <1>7 DEF Joint
<1>9. Joint(v, c, y, 3 + N, 3, Nat)
  <2>1. Joint(c \o y, c, y, Len(c), Len(y), Nat) BY <1>2, <1>8, GluedAs
  <2> QED BY <1>2, <1>4, <1>8, <2>1
<1> HIDE DEF N
<1>10. v \in Seq(Nat) /\ Len(v) = 3 + N + 3 /\ (\A i \in 1..3 + N : v[i] = c[i])
       /\ \A j \in 1..3 : v[(3 + N) + j] = y[j]
  BY <1>9 DEF Joint
<1>11. v[1] = Begin
  <2>1. 1 \in 1..3 + N /\ 1 \in 1..3 BY <1>5
  <2> QED BY <1>2, <1>8, <1>10, <2>1
<1>12. ASSUME AsFar(s, p, v) PROVE FrameAhead(s, p, item, K, b)
  <2>1. AsFar(s, p + 0, x)
    <3>1. \A j \in 1..3 : j \in 1..3 + N /\ 0 + j = j BY <1>5
    <3>2. \A j \in 1..Len(x) : v[0 + j] = x[j] BY <1>2, <1>8, <1>10, <3>1
    <3>3. 0 + Len(x) <= Len(v) /\ Len(v) \in Nat /\ Len(x) \in Nat BY <1>2, <1>5, <1>10
    <3>4. 0 \in Nat OBVIOUS
    <3> QED BY <1>12, <3>2, <3>3, <3>4, AsFarPart
  <2>2. AsFar(s, p + (3 + N), y)
    <3>1. \A j \in 1..Len(y) : v[(3 + N) + j] = y[j] BY <1>2, <1>10
    <3>2. (3 + N) + Len(y) <= Len(v) /\ Len(v) \in Nat /\ Len(y) \in Nat /\ 3 + N \in Nat BY <1>2, <1>5, <1>10
    <3> QED BY <1>12, <3>1, <3>2, AsFarPart
  <2>3. AsFar(s, p + 3, z)
    <3>1. \A j \in 1..N : 3 + j \in 1..3 + N BY <1>5
    <3>2. \A j \in 1..Len(z) : v[3 + j] = z[j] BY <1>8, <1>10, <3>1 DEF N
    <3>3. 3 + Len(z) <= Len(v) /\ Len(v) \in Nat /\ Len(z) \in Nat
      <4>1. Len(z) = N BY DEF N
      <4> QED BY <1>5, <1>10, <4>1
    <3> QED BY <1>12, <3>2, <3>3, AsFarPart
  <2>4. ASSUME NEW k \in 1..K PROVE AsFar(s, p + 3 + Len(b[k - 1]), PieceBytes(item.body[k]))
    <3> DEFINE t == PieceBytes(item.body[k]) e == Len(b[k - 1])
    <3>1. BodyParts(item)[k] = t BY DEF BodyParts, Laid
    <3> DEFINE B == BodyParts(item)
    <3>2. Concatenates(b, K, B, Nat) BY DEF Laid
    <3> HIDE DEF B
    <3>3. b[k - 1] \in Seq(Nat) /\ Len(b[k]) = e + Len(t) /\ Len(b[k]) <= Len(b[K])
          /\ \A j \in 1..Len(t) : b[K][e + j] = t[j]
      <4>1. B[k] = t BY <3>1 DEF B
      <4> HIDE DEF t
      <4>2. /\ b[k - 1] \in Seq(Nat) /\ Len(b[k]) = Len(b[k - 1]) + Len(B[k]) /\ Len(b[k]) <= Len(b[K])
            /\ \A j \in 1..Len(B[k]) : b[K][Len(b[k - 1]) + j] = B[k][j]
        <5>1. PartSo(b, K, B, Nat, k) BY <1>1, <3>2, PartAt
        <5> QED BY <5>1 DEF PartSo
      <4> QED BY <4>1, <4>2
    <3>4. e \in Nat /\ Len(t) \in Nat
      <4>1. IsPiece(item.body[k]) BY DEF IsFrame, IsItem, Laid
      <4>2. Len(t) \in Nat BY <4>1, PieceTyped
      <4>3. e \in Nat BY <3>3, LenProperties
      <4> QED BY <4>2, <4>3
    <3> HIDE DEF t, e
    <3>5. e + Len(t) <= Len(z) /\ Len(z) \in Nat /\ \A j \in 1..Len(t) : z[e + j] = t[j]
      <4>1. Len(b[k]) = e + Len(t) BY <3>3
      <4>2. Len(b[k]) <= Len(z) /\ \A j \in 1..Len(t) : z[e + j] = t[j] BY <3>3 DEF z
      <4>3. Len(z) \in Nat BY <1>5 DEF N
      <4> QED BY <4>1, <4>2, <4>3
    <3>6. p + 3 \in Nat OBVIOUS
    <3>7. AsFar(s, (p + 3) + e, t) BY <2>3, <3>4, <3>5, <3>6, AsFarPart
    <3> QED BY <3>7 DEF t, e
  <2>5. p + 0 = p /\ p + (3 + N) = p + 3 + Len(b[K]) BY <1>5, <1>6
  <2> QED BY <2>1, <2>2, <2>3, <2>4, <2>5 DEF FrameAhead, x, y, z
<1> QED BY <1>5, <1>6, <1>10, <1>11, <1>12

\* The first k pieces are there and fit.
UpTo(s, p, item, b, d, k) ==
    /\ p + 3 + Len(b[k]) <= Len(s) /\ 3 + Len(d[k]) <= FrameBytes
    /\ \A i \in 1..k : Decodes(PieceBytes(item.body[i])) => Len(PieceBytes(item.body[i])) <= FrameBytes

HasText(item, k) == \E i \in 1..k : IsText(item.body[i])

\* The frame failed at one of the first k pieces, with the notifications before it.
FailedBy(f, s, p, item, b, d, o, k) ==
    \E j \in 1..k : f.notes = o[j - 1] /\ UpTo(s, p, item, b, d, j - 1) /\ ~UpTo(s, p, item, b, d, j)

After(f, s, p, item, b, d, o, k, whole) ==
    /\ UpTo(s, p, item, b, d, k) => f = Open(p + 3 + Len(b[k]) + 1, item.id, d[k], HasText(item, k), o[k])
    /\ ~UpTo(s, p, item, b, d, k) => Failing(f.st, whole) /\ FailedBy(f, s, p, item, b, d, o, k)

\* No bytes of a record that is too long are read as lines.
Sound(item) ==
    Fits(item) \/ item.kind = "note"
        \/ \A i \in 1..Len(item.body) : item.body[i].kind = "record" => NoLineEnd(item.body[i].values)

\* The k-th piece, in numbers.
PieceLies(item, b, d, o, k, K, pce, t, n) ==
    /\ IsPiece(pce) /\ t \in Seq(Nat) /\ n \in Nat \ {0}
    /\ Len(b[k - 1]) \in Nat /\ Len(b[K]) \in Nat /\ Len(b[k]) = Len(b[k - 1]) + n /\ Len(b[k]) <= Len(b[K])
    /\ d[k - 1] \in Seq(Nat) /\ Len(d[k - 1]) \in Nat /\ d[k] = d[k - 1] \o DataOf(pce)
    /\ Len(d[k]) = (IF Decodes(t) THEN Len(d[k - 1]) ELSE Len(d[k - 1]) + n)
    /\ Len(d[K]) \in Nat /\ Len(d[k]) <= Len(d[K])
    /\ o[k - 1] \in Seq(Seq(Nat)) /\ o[k] = o[k - 1] \o NotesOf(pce)

LEMMA PieceLaid ==
    ASSUME NEW item, IsFrame(item), NEW K, NEW b, NEW d, NEW o, Laid(item, K, b, d, o), NEW k \in 1..K,
           NEW pce, pce = item.body[k], NEW t, t = PieceBytes(pce), NEW n, n = Len(t)
    PROVE  PieceLies(item, b, d, o, k, K, pce, t, n)
<1> DEFINE B == BodyParts(item) D == DataParts(item) O == NoteParts(item) X == Seq(Nat)
<1>1. K \in Nat /\ K = Len(item.body) BY DEF Laid
<1>2. IsPiece(pce) BY <1>1 DEF IsFrame, IsItem
<1>3. t \in Seq(Nat) /\ n \in Nat \ {0} BY <1>2, PieceTyped
<1>4. B[k] = t /\ D[k] = DataOf(pce) /\ O[k] = NotesOf(pce) BY <1>1 DEF BodyParts, DataParts, NoteParts
<1>5. Concatenates(b, K, B, Nat) /\ Concatenates(d, K, D, Nat) /\ Concatenates(o, K, O, X) BY DEF Laid
<1> HIDE DEF B, D, O, X
<1>6. PartSo(b, K, B, Nat, k) BY <1>1, <1>5, PartAt
<1>7. PartSo(d, K, D, Nat, k) BY <1>1, <1>5, PartAt
<1>8. PartSo(o, K, O, X, k) BY <1>1, <1>5, PartAt
<1>9. Len(b[k - 1]) \in Nat /\ Len(b[K]) \in Nat /\ Len(b[k]) = Len(b[k - 1]) + n /\ Len(b[k]) <= Len(b[K])
  BY <1>4, <1>6 DEF PartSo
<1>10. d[k - 1] \in Seq(Nat) /\ Len(d[k - 1]) \in Nat /\ d[k] = d[k - 1] \o DataOf(pce)
       /\ Len(d[k]) = Len(d[k - 1]) + Len(DataOf(pce)) /\ Len(d[K]) \in Nat /\ Len(d[k]) <= Len(d[K])
  BY <1>4, <1>7 DEF PartSo
<1>12. o[k - 1] \in Seq(X) /\ o[k] = o[k - 1] \o NotesOf(pce) BY <1>4, <1>8 DEF PartSo
<1>13. Len(d[k]) = (IF Decodes(t) THEN Len(d[k - 1]) ELSE Len(d[k - 1]) + n)
  <2>1. Decodes(t) => Len(DataOf(pce)) = 0 BY DEF DataOf
  <2>2. ~Decodes(t) => Len(DataOf(pce)) = n BY DEF DataOf
  <2> DEFINE x == Len(d[k - 1])
  <2>3. x \in Nat /\ Len(d[k]) = x + Len(DataOf(pce)) BY <1>10
  <2> HIDE DEF x
  <2>4. Len(d[k]) = (IF Decodes(t) THEN x ELSE x + n) BY <1>3, <2>1, <2>2, <2>3
  <2> QED BY <2>4 DEF x
<1> QED BY <1>2, <1>3, <1>9, <1>10, <1>12, <1>13 DEF PieceLies, X

LEMMA FrameOnward ==
    ASSUME NEW s \in Seq(Nat), NEW p \in Nat, NEW item, IsFrame(item), NEW K, NEW b, NEW d, NEW o,
           Laid(item, K, b, d, o), FrameAhead(s, p, item, K, b), Sound(item), NEW k \in 1..K,
           NEW whole \in BOOLEAN, whole => p + 3 + Len(b[K]) <= Len(s),
           NEW g, After(g, s, p, item, b, d, o, k - 1, whole), NEW f, f = FrameStep(s, g)
    PROVE  After(f, s, p, item, b, d, o, k, whole)
<1> DEFINE pce == item.body[k] t == PieceBytes(pce) n == Len(t) x == Len(b[k - 1]) y == Len(d[k - 1])
           a == p + 3 + x m == Len(s) j == k - 1
<1>1. PieceLies(item, b, d, o, k, K, pce, t, n)
  <2> HIDE DEF pce
  <2> QED BY PieceLaid DEF pce
<1>2. K \in Nat /\ K = Len(item.body) /\ m \in Nat /\ FrameBytes \in Nat
  <2>1. m \in Nat BY LenProperties
  <2> QED BY <2>1, CodecNumbers DEF Laid
<1> HIDE DEF n, pce, t
<1>3. /\ IsPiece(pce) /\ n \in Nat \ {0} /\ x \in Nat /\ y \in Nat
      /\ Len(b[K]) \in Nat /\ Len(b[k]) = x + n /\ Len(b[k]) <= Len(b[K])
      /\ d[j] \in Seq(Nat) /\ d[k] = d[j] \o DataOf(pce)
      /\ Len(d[k]) = (IF Decodes(t) THEN y ELSE y + n)
      /\ Len(d[K]) \in Nat /\ Len(d[k]) <= Len(d[K])
      /\ o[j] \in Seq(Seq(Nat)) /\ o[k] = o[j] \o NotesOf(pce)
  BY <1>1 DEF PieceLies
<1> HIDE DEF x, y, m
<1>4. a \in Nat /\ p + 3 + Len(b[k]) = a + n BY <1>3
<1>5. Goes(pce, n, d[j]) <=> IF Decodes(t) THEN n <= FrameBytes ELSE 3 + y + n <= FrameBytes
  BY DEF Goes, y, t
<1>6. UpTo(s, p, item, b, d, j) <=>
        /\ a <= m /\ 3 + y <= FrameBytes
        /\ \A i \in 1..j : Decodes(PieceBytes(item.body[i])) => Len(PieceBytes(item.body[i])) <= FrameBytes
  BY DEF UpTo, x, y, m
<1>7. UpTo(s, p, item, b, d, k) <=>
        /\ a + n <= m /\ 3 + Len(d[k]) <= FrameBytes
        /\ \A i \in 1..k : Decodes(PieceBytes(item.body[i])) => Len(PieceBytes(item.body[i])) <= FrameBytes
  <2> HIDE DEF a, j
  <2> QED BY <1>4 DEF UpTo, m
<1>8. \A i \in 1..k : i \in 1..j \/ i = k OBVIOUS
<1>9. \A i \in 1..j : i \in 1..k OBVIOUS
<1>10. CASE UpTo(s, p, item, b, d, j)
  <2> DEFINE ord == HasText(item, j)
  <2>1. a <= m /\ 3 + y <= FrameBytes BY <1>6, <1>10
  <2>2. g = Open(a + 1, item.id, d[j], ord, o[j]) BY <1>10 DEF After, x
  <2>3. AsFar(s, a, t) BY DEF FrameAhead, x, t, pce
  <2>4. StepSo(f, s, a, pce, n, item.id, d[j], ord, o[j])
    <3>1. a \in 0..Len(s) BY <1>2, <1>4, <2>1 DEF m
    <3>2. ord \in BOOLEAN BY DEF HasText
    <3>3. 3 + Len(d[j]) <= FrameBytes BY <2>1 DEF y
    <3>4. t = PieceBytes(pce) /\ n = Len(t) BY DEF t, n
    <3> DEFINE dj == d[j] oj == o[j]
    <3>5. dj \in Seq(Nat) /\ oj \in Seq(Seq(Nat)) /\ 3 + Len(dj) <= FrameBytes BY <1>3, <3>3
    <3>6. f = FrameStep(s, Open(a + 1, item.id, dj, ord, oj)) BY <2>2
    <3> HIDE DEF ord, a, j, dj, oj
    <3>7. StepSo(f, s, a, pce, n, item.id, dj, ord, oj)
      BY <1>3, <2>3, <3>1, <3>2, <3>4, <3>5, <3>6, PieceStep
    <3> QED BY <3>7 DEF dj, oj
  <2>5. Goes(pce, n, d[j]) => 3 + Len(d[k]) <= FrameBytes /\ (Decodes(t) => n <= FrameBytes)
    <3>1. CASE Decodes(t) BY <1>3, <1>5, <2>1, <3>1
    <3>2. CASE ~Decodes(t)
      <4>1. Len(d[k]) = y + n BY <1>3, <3>2
      <4>2. 3 + (y + n) = 3 + y + n BY <1>3
      <4> QED BY <1>5, <3>2, <4>1, <4>2
    <3> QED BY <3>1, <3>2
  <2>6. 3 + Len(d[k]) <= FrameBytes /\ (Decodes(t) => n <= FrameBytes) => Goes(pce, n, d[j])
    <3>1. CASE Decodes(t) BY <1>5, <3>1
    <3>2. CASE ~Decodes(t)
      <4>1. Len(d[k]) = y + n BY <1>3, <3>2
      <4>2. 3 + (y + n) = 3 + y + n BY <1>3
      <4> QED BY <1>5, <3>2, <4>1, <4>2
    <3> QED BY <3>1, <3>2
  <2>7. ASSUME UpTo(s, p, item, b, d, k)
        PROVE  f = Open(p + 3 + Len(b[k]) + 1, item.id, d[k], HasText(item, k), o[k])
    <3>1. a + n <= m /\ 3 + Len(d[k]) <= FrameBytes BY <1>7, <2>7
    <3>2. Decodes(t) => n <= FrameBytes
      <4>1. k \in 1..k OBVIOUS
      <4> QED BY <1>7, <2>7, <4>1 DEF pce, n, t
    <3>3. Goes(pce, n, d[j]) BY <2>6, <3>1, <3>2
    <3>4. a + n <= Len(s) BY <3>1 DEF m
    <3> HIDE DEF ord, a
    <3>5. f = Open(a + n + 1, item.id, d[j] \o DataOf(pce), ord \/ IsText(pce), o[j] \o NotesOf(pce))
      BY <2>4, <3>3, <3>4 DEF StepSo
    <3>6. (ord \/ IsText(pce)) = HasText(item, k)
      <4>1. (ord \/ IsText(pce)) <=> HasText(item, k)
        <5>1. k \in 1..k OBVIOUS
        <5> QED BY <1>8, <1>9, <5>1 DEF HasText, ord, pce
      <4> QED BY <4>1 DEF HasText, ord
    <3> QED BY <1>3, <1>4, <3>5, <3>6
  <2>8. ASSUME ~UpTo(s, p, item, b, d, k) PROVE Failing(f.st, whole) /\ f.notes = o[j]
    <3>1. ~(a + n <= m /\ Goes(pce, n, d[j]))
      <4> SUFFICES ASSUME a + n <= m, Goes(pce, n, d[j]) PROVE UpTo(s, p, item, b, d, k) BY <2>8
      <4>1. 3 + Len(d[k]) <= FrameBytes /\ (Decodes(t) => n <= FrameBytes) BY <2>5
      <4>2. \A i \in 1..k : Decodes(PieceBytes(item.body[i])) => Len(PieceBytes(item.body[i])) <= FrameBytes
        BY <1>6, <1>8, <1>10, <4>1 DEF pce, n, t
      <4> QED BY <1>7, <4>1, <4>2
    <3>2. pce.kind = "record" => Goes(pce, n, d[j]) \/ NoLineEnd(pce.values)
      <4> SUFFICES ASSUME pce.kind = "record", ~NoLineEnd(pce.values) PROVE Goes(pce, n, d[j]) OBVIOUS
      <4>1. Fits(item) BY <1>2 DEF Sound, IsFrame, pce
      <4>2. 3 + Len(d[K]) <= FrameBytes
        <5>1. K \in 0..K BY <1>2
        <5>2. item.kind # "note" /\ Data(item, K) = d[K] /\ Pieces(item) = K BY <1>2, <5>1 DEF IsFrame, Laid, Pieces
        <5> QED BY <4>1, <5>2 DEF Fits, PiecesFit
      <4>3. 3 + Len(d[k]) <= FrameBytes
        <5> DEFINE z == Len(d[k])
        <5>1. z \in Nat /\ z <= Len(d[K]) BY <1>3
        <5> HIDE DEF z
        <5>2. 3 + z <= FrameBytes BY <1>2, <1>3, <4>2, <5>1
        <5> QED BY <5>2 DEF z
      <4>4. ~Decodes(t)
        <5>1. t[1] = TGO BY <1>3, PieceTyped DEF t
        <5> QED BY <5>1, DecodesFirst DEF TGO, Note, Percent
      <4> QED BY <2>6, <4>3, <4>4
    <3>3. Fails(f, a + n <= Len(s), o[j])
      <4>1. ~(a + n <= Len(s) /\ Goes(pce, n, d[j])) BY <3>1 DEF m
      <4> HIDE DEF a, ord
      <4> QED BY <2>4, <3>2, <4>1 DEF StepSo
    <3>4. whole => a + n <= Len(s)
      <4> SUFFICES ASSUME whole PROVE a + n <= m BY DEF m
      <4> DEFINE z == Len(b[K])
      <4>1. p + 3 + z <= m BY DEF m
      <4>2. x + n <= z /\ z \in Nat /\ x \in Nat /\ n \in Nat BY <1>3
      <4> HIDE DEF z
      <4> QED BY <1>2, <4>1, <4>2
    <3> QED BY <3>3, <3>4 DEF Failing, Fails
  <2>9. ~UpTo(s, p, item, b, d, k) => FailedBy(f, s, p, item, b, d, o, k)
    <3>1. k \in 1..k OBVIOUS
    <3> QED BY <1>10, <2>8, <3>1 DEF FailedBy
  <2> QED BY <2>7, <2>8, <2>9 DEF After
<1>11. CASE ~UpTo(s, p, item, b, d, j)
  <2>1. Failing(g.st, whole) /\ FailedBy(g, s, p, item, b, d, o, j) BY <1>11 DEF After
  <2>2. g.st # "open" BY <2>1 DEF Failing
  <2>3. f = g BY <2>2 DEF FrameStep
  <2>4. ~UpTo(s, p, item, b, d, k)
    <3> SUFFICES ASSUME UpTo(s, p, item, b, d, k) PROVE UpTo(s, p, item, b, d, j) BY <1>11
    <3>1. a + n <= m /\ 3 + Len(d[k]) <= FrameBytes
          /\ \A i \in 1..k : Decodes(PieceBytes(item.body[i])) => Len(PieceBytes(item.body[i])) <= FrameBytes
      BY <1>7
    <3>2. a <= m BY <1>2, <1>3, <1>4, <3>1
    <3>3. 3 + y <= FrameBytes
      <4> DEFINE z == Len(d[k])
      <4>1. (z = y \/ z = y + n) /\ 3 + z <= FrameBytes BY <1>3, <3>1
      <4> HIDE DEF z
      <4>2. y \in Nat /\ n \in Nat BY <1>3
      <4> QED BY <1>2, <4>1, <4>2
    <3> QED BY <1>6, <1>9, <3>1, <3>2, <3>3
  <2>5. FailedBy(f, s, p, item, b, d, o, k)
    <3>1. PICK i \in 1..j : g.notes = o[i - 1] /\ UpTo(s, p, item, b, d, i - 1) /\ ~UpTo(s, p, item, b, d, i)
      BY <2>1 DEF FailedBy
    <3> QED BY <1>9, <2>3, <3>1 DEF FailedBy
  <2> QED BY <2>1, <2>3, <2>4, <2>5 DEF After
<1> QED BY <1>10, <1>11

\* readFrame, round by round.
Rounds(f, s, n, g) == f[0] = g /\ \A k \in 1..n : f[k] = FrameStep(s, f[k - 1])

RoundsAre(f, s, n, g) == f = [k \in 0..n |-> IF k = 0 THEN g ELSE FrameStep(s, f[k - 1])]

LEMMA RoundsExist == ASSUME NEW s, NEW g, NEW n \in Nat PROVE \E f : RoundsAre(f, s, n, g)
<1> DEFINE Step(k, f) == IF k = 0 THEN g ELSE FrameStep(s, f[k - 1])
           S == {m \in Nat : \E f : f = [k \in 0..m |-> Step(k, f)]}
<1>1. 0 \in S
  <2> DEFINE e == [k \in 0..0 |-> g]
  <2>1. e = [k \in 0..0 |-> Step(k, e)] OBVIOUS
  <2> HIDE DEF Step, e
  <2> QED BY <2>1
<1>2. ASSUME NEW m \in Nat \ {0}, m - 1 \in S PROVE m \in S
  <2>1. PICK f : f = [k \in 0..m - 1 |-> Step(k, f)] BY <1>2
  <2> DEFINE h == [k \in 0..m |-> Step(k, f)]
  <2>2. \A k \in 0..m - 1 : h[k] = f[k]
    <3> HIDE DEF Step
    <3>1. \A k \in 0..m - 1 : k \in 0..m OBVIOUS
    <3>2. \A k \in 0..m - 1 : f[k] = Step(k, f) BY <2>1
    <3>3. \A k \in 0..m : h[k] = Step(k, f) OBVIOUS
    <3> QED BY <3>1, <3>2, <3>3
  <2>3. ASSUME NEW k \in 0..m PROVE h[k] = Step(k, h)
    <3>1. h[k] = Step(k, f)
      <4> HIDE DEF Step
      <4> QED OBVIOUS
    <3>2. k # 0 => h[k - 1] = f[k - 1]
      <4>1. k # 0 => k - 1 \in 0..m - 1 OBVIOUS
      <4> HIDE DEF h
      <4> QED BY <2>2, <4>1
    <3> HIDE DEF h
    <3> QED BY <3>1, <3>2
  <2>4. h = [k \in 0..m |-> h[k]] OBVIOUS
  <2>5. h = [k \in 0..m |-> Step(k, h)]
    <3> HIDE DEF h, Step
    <3> QED BY <2>3, <2>4
  <2> HIDE DEF h, Step
  <2> QED BY <2>5
<1>3. Nat \subseteq S
  <2> HIDE DEF S
  <2> QED BY <1>1, <1>2, UpToAll
<1>4. n \in S BY <1>3
<1> QED BY <1>4 DEF RoundsAre

Opened(from, begin) ==
    [st |-> IF FrameHeader(begin, Begin) THEN "open" ELSE "protocol", at |-> from, id |-> begin[2],
     data |-> <<>>, used |-> Len(begin), ordinary |-> FALSE, failed |-> FALSE, notes |-> <<>>]

LEMMA FrameRounds ==
    ASSUME NEW s, Len(s) \in Nat, NEW from, NEW begin
    PROVE  \E f : Rounds(f, s, Len(s), Opened(from, begin)) /\ ReadFrame(s, from, begin) = f[Len(s)]
<1> DEFINE n == Len(s) g == Opened(from, begin)
           F(f) == [k \in 0..n |-> IF k = 0 THEN g ELSE FrameStep(s, f[k - 1])]
           v == CHOOSE f : f = F(f)
<1>1. ReadFrame(s, from, begin) = v[n] BY DEF ReadFrame, Opened
<1>5. \A f : RoundsAre(f, s, n, g) <=> f = F(f) BY DEF RoundsAre
<1>2. \E f : f = F(f)
  <2>1. n \in Nat OBVIOUS
  <2> HIDE DEF n, g, F
  <2> QED BY <1>5, <2>1, RoundsExist
<1>3. v = F(v)
  <2> HIDE DEF F
  <2> QED BY <1>2
<1> HIDE DEF v, g
<1>4. Rounds(v, s, n, g)
  <2>1. 0 \in 0..n /\ \A k \in 1..n : k \in 0..n /\ k # 0 OBVIOUS
  <2> HIDE DEF n
  <2>2. v[0] = g BY <1>3, <2>1
  <2>3. \A k \in 1..n : v[k] = FrameStep(s, v[k - 1]) BY <1>3, <2>1
  <2> QED BY <2>2, <2>3 DEF Rounds
<1> QED BY <1>1, <1>4 DEF g

LEMMA RoundsStay ==
    ASSUME NEW s, NEW n \in Nat, NEW g, NEW f, Rounds(f, s, n, g), NEW k \in 0..n, f[k].st # "open"
    PROVE  f[n] = f[k]
<1> DEFINE S == {j \in Nat : k + j <= n => f[k + j] = f[k]}
<1>1. 0 \in S OBVIOUS
<1>2. ASSUME NEW j \in Nat \ {0}, j - 1 \in S PROVE j \in S
  <2> SUFFICES ASSUME k + j <= n PROVE f[k + j] = f[k] OBVIOUS
  <2>1. k + j \in 1..n /\ (k + j) - 1 = k + (j - 1) /\ k + (j - 1) <= n OBVIOUS
  <2>2. f[k + (j - 1)] = f[k] BY <1>2, <2>1
  <2>3. f[k + j] = FrameStep(s, f[k + (j - 1)])
    <3> DEFINE i == k + j
    <3>1. i \in 1..n /\ i - 1 = k + (j - 1) BY <2>1
    <3> HIDE DEF i
    <3>2. f[i] = FrameStep(s, f[i - 1]) BY <3>1 DEF Rounds
    <3> QED BY <3>1, <3>2 DEF i
  <2> QED BY <2>2, <2>3 DEF FrameStep
<1>3. Nat \subseteq S
  <2> HIDE DEF S
  <2> QED BY <1>1, <1>2, UpToAll
<1>4. n - k \in Nat /\ k + (n - k) = n OBVIOUS
<1>5. n - k \in S BY <1>3, <1>4
<1> QED BY <1>4, <1>5

LEMMA FrameGoes ==
    ASSUME NEW s \in Seq(Nat), NEW p \in Nat, NEW item, IsFrame(item), NEW K, NEW b, NEW d, NEW o,
           Laid(item, K, b, d, o), FrameAhead(s, p, item, K, b), Sound(item),
           p + 3 <= Len(s), 3 <= FrameBytes,
           NEW whole \in BOOLEAN, whole => p + 3 + Len(b[K]) <= Len(s), NEW n \in Nat,
           NEW f, Rounds(f, s, n, Open(p + 4, item.id, <<>>, FALSE, <<>>)), NEW k \in 0..K, k <= n
    PROVE  After(f[k], s, p, item, b, d, o, k, whole)
<1> DEFINE S == {j \in Nat : j <= K /\ j <= n => After(f[j], s, p, item, b, d, o, j, whole)}
<1>0. K \in Nat BY DEF Laid
<1>1. 0 \in S
  <2>1. b[0] = <<>> /\ d[0] = <<>> /\ o[0] = <<>> BY DEF Laid, Concatenates
  <2>2. Len(b[0]) = 0 /\ Len(d[0]) = 0 BY <2>1
  <2>3. p + 3 + 0 = p + 3 /\ p + 3 + 0 + 1 = p + 4 /\ 3 + 0 = 3 /\ \A i \in 1..0 : FALSE OBVIOUS
  <2>4. UpTo(s, p, item, b, d, 0) BY <2>2, <2>3 DEF UpTo
  <2>5. HasText(item, 0) = FALSE BY <2>3 DEF HasText
  <2>6. f[0] = Open(p + 4, item.id, <<>>, FALSE, <<>>) BY DEF Rounds
  <2>7. f[0] = Open(p + 3 + Len(b[0]) + 1, item.id, d[0], HasText(item, 0), o[0])
    BY <2>1, <2>2, <2>3, <2>5, <2>6
  <2>8. After(f[0], s, p, item, b, d, o, 0, whole) BY <2>4, <2>7 DEF After
  <2> QED BY <2>8
<1>2. ASSUME NEW j \in Nat \ {0}, j - 1 \in S PROVE j \in S
  <2> SUFFICES ASSUME j <= K, j <= n PROVE After(f[j], s, p, item, b, d, o, j, whole) OBVIOUS
  <2>1. j \in 1..K /\ j \in 1..n /\ j - 1 <= K /\ j - 1 <= n BY <1>0
  <2>2. After(f[j - 1], s, p, item, b, d, o, j - 1, whole) BY <1>2, <2>1
  <2>3. f[j] = FrameStep(s, f[j - 1]) BY <2>1 DEF Rounds
  <2> QED BY <2>1, <2>2, <2>3, FrameOnward
<1>3. Nat \subseteq S
  <2> HIDE DEF S
  <2> QED BY <1>1, <1>2, UpToAll
<1>4. k \in S BY <1>0, <1>3
<1> QED BY <1>4

LEMMA BodyGrows ==
    ASSUME NEW item, IsFrame(item), NEW K, NEW b, NEW d, NEW o, Laid(item, K, b, d, o), NEW k \in 0..K
    PROVE  Len(b[k]) \in Nat /\ k <= Len(b[k])
<1> DEFINE S == {j \in Nat : j <= K => Len(b[j]) \in Nat /\ j <= Len(b[j])}
<1>0. K \in Nat BY DEF Laid
<1>1. 0 \in S
  <2>1. b[0] = <<>> BY DEF Laid, Concatenates
  <2>2. Len(b[0]) = 0 BY <2>1
  <2> QED BY <2>2
<1>2. ASSUME NEW j \in Nat \ {0}, j - 1 \in S PROVE j \in S
  <2> SUFFICES ASSUME j <= K PROVE Len(b[j]) \in Nat /\ j <= Len(b[j]) OBVIOUS
  <2> DEFINE pce == item.body[j] t == PieceBytes(pce) n == Len(t) x == Len(b[j - 1]) y == Len(b[j])
  <2>1. j \in 1..K /\ j - 1 <= K BY <1>0
  <2>2. PieceLies(item, b, d, o, j, K, pce, t, n)
    <3> HIDE DEF pce
    <3> QED BY <2>1, PieceLaid DEF pce
  <2>3. x \in Nat /\ n \in Nat \ {0} /\ y = x + n BY <2>2 DEF PieceLies
  <2>4. j - 1 <= x BY <1>2, <2>1
  <2> HIDE DEF x, y, n
  <2>5. y \in Nat /\ j <= y BY <2>3, <2>4
  <2> QED BY <2>5 DEF y
<1>3. Nat \subseteq S
  <2> HIDE DEF S
  <2> QED BY <1>1, <1>2, UpToAll
<1>4. k \in S BY <1>0, <1>3
<1> QED BY <1>4

\* The first k pieces of a frame that begins at p + 1 are there and fit, as UpTo.
There(s, p, item, k) == p + 3 + Len(Body(item, k)) <= Len(s) /\ PiecesFit(item, k)

\* The notifications in the pieces before the first that is not there or does not fit.
Parted(val, s, p, item) ==
    \E k \in 0..Pieces(item) :
        /\ val = Notes(item, k) /\ (k > 0 => There(s, p, item, k))
        /\ k < Pieces(item) => ~There(s, p, item, k + 1)

\* What becomes of an item of n bytes that begins at p + 1.
UnitSo(r, s, p, item, n) ==
    /\ p + n <= Len(s) /\ Fits(item) => r = Ok(p + n + 1, Meant(item))
    /\ ~(p + n <= Len(s) /\ Fits(item)) => Failing(r.st, p + n <= Len(s)) /\ Parted(r.val, s, p, item)

LEMMA ThereIsUpTo ==
    ASSUME NEW item, NEW K, NEW b, NEW d, NEW o, Laid(item, K, b, d, o), NEW s, NEW p, NEW k \in 0..K
    PROVE  There(s, p, item, k) <=> UpTo(s, p, item, b, d, k)
<1>1. Body(item, k) = b[k] /\ Data(item, k) = d[k] BY DEF Laid
<1> QED BY <1>1 DEF There, UpTo, PiecesFit

LEMMA FailedParted ==
    ASSUME NEW item, IsFrame(item), NEW K, NEW b, NEW d, NEW o, Laid(item, K, b, d, o), NEW s, NEW p,
           NEW k \in 0..K, NEW f, FailedBy(f, s, p, item, b, d, o, k)
    PROVE  Parted(f.notes, s, p, item)
<1>1. K \in Nat /\ Pieces(item) = K BY DEF Laid, Pieces, IsFrame
<1>2. PICK j \in 1..k : f.notes = o[j - 1] /\ UpTo(s, p, item, b, d, j - 1) /\ ~UpTo(s, p, item, b, d, j)
  BY DEF FailedBy
<1> DEFINE h == j - 1
<1>3. j \in 0..K /\ h \in 0..K /\ h + 1 = j BY <1>1
<1>4. f.notes = o[h] /\ UpTo(s, p, item, b, d, h) BY <1>2
<1> HIDE DEF h
<1>5. Notes(item, h) = o[h] BY <1>3 DEF Laid
<1>6. There(s, p, item, h) BY <1>3, <1>4, ThereIsUpTo
<1>7. ~There(s, p, item, h + 1) BY <1>2, <1>3, ThereIsUpTo
<1> QED BY <1>1, <1>3, <1>4, <1>5, <1>6, <1>7 DEF Parted

LEMMA NoNotes == ASSUME NEW item PROVE Notes(item, 0) = <<>>
<1> DEFINE n == 0 O == [i \in 1..n |-> NotesOf(item.body[i])]
<1>1. n \in Nat /\ O = [i \in 1..n |-> O[i]] OBVIOUS
<1>2. Notes(item, n) = Concat(O) BY DEF Notes
<1> HIDE DEF O
<1>3. PICK o : Prefixes(o, n, O) /\ Concat(O) = o[n] BY <1>1, ConcatParts
<1> QED BY <1>2, <1>3 DEF Prefixes

LEMMA HeaderStands ==
    ASSUME NEW item, IsFrame(item), NEW x, x = HeaderOf(item), NEW y, y = EndOf(item)
    PROVE  /\ IsLineText(x) /\ ~IsDSCTrailer(x) /\ Len(x) = 3 /\ x[1] = Begin /\ FrameHeader(x, Begin)
           /\ IsLineText(y) /\ ~IsDSCTrailer(y) /\ Len(y) = 3 /\ y[1] \in {End, Failed}
           /\ FrameHeader(y, y[1]) /\ y[2] = item.id /\ (y[1] = End => ~item.failed)
           /\ (y[1] = Failed) = item.failed /\ x[2] = item.id
<1>1. item.id \in Nat \ {LF, Begin, End, Failed} /\ item.failed \in BOOLEAN BY DEF IsFrame, IsItem
<1> DEFINE e == IF item.failed THEN Failed ELSE End
<1>2. Begin \in Nat \ {LF, Esc} /\ e \in Nat \ {LF, Esc} BY DEF Begin, LF, Esc, Failed, End
<1>3. x = <<Begin, item.id, LF>> /\ y = <<e, item.id, LF>> BY DEF HeaderOf, EndOf
<1>4. IsLineText(x) /\ ~IsDSCTrailer(x) /\ Len(x) = 3 BY <1>1, <1>2, <1>3, ShortLines
<1>5. IsLineText(y) /\ ~IsDSCTrailer(y) /\ Len(y) = 3
  <2>1. y = <<e, item.id, LF>> /\ e \in Nat \ {LF, Esc} BY <1>2, <1>3
  <2> HIDE DEF e
  <2> QED BY <1>1, <2>1, ShortLines
<1>6. x[1] = Begin /\ x[2] = item.id /\ y[1] = e /\ y[2] = item.id BY <1>3
<1>7. e \in {End, Failed} /\ (e = End => ~item.failed) /\ (e = Failed <=> item.failed) BY DEF End, Failed
<1>8. (y[1] = Failed) = item.failed BY <1>1, <1>6, <1>7
<1> HIDE DEF e
<1>9. FrameHeader(x, Begin) /\ FrameHeader(y, y[1]) BY <1>1, <1>4, <1>5, <1>6 DEF FrameHeader
<1> QED BY <1>4, <1>5, <1>6, <1>7, <1>8, <1>9

\* The line that ends a frame, at q + 1.
EndSo(f, s, q, item, data, notes) ==
    /\ q + 3 <= Len(s) =>
          /\ f.st = "ok" /\ f.at = q + 4 /\ f.id = item.id /\ f.data = data /\ f.notes = notes
          /\ f.failed = item.failed
    /\ ~(q + 3 <= Len(s)) => Fails(f, FALSE, notes)

LEMMA EndStep ==
    ASSUME NEW s \in Seq(Nat), NEW q \in 0..Len(s), NEW item, IsFrame(item), AsFar(s, q, EndOf(item)),
           3 <= FrameBytes, NEW data, NEW notes, NEW ord \in BOOLEAN, ord => item.failed,
           NEW f, f = FrameStep(s, Open(q + 1, item.id, data, ord, notes))
    PROVE  EndSo(f, s, q, item, data, notes)
<1> DEFINE m == Len(s) g == Open(q + 1, item.id, data, ord, notes) y == EndOf(item)
           line == BoundedLine(s, q + 1, FrameBytes)
<1>1. m \in Nat /\ q \in Nat /\ q <= m
  <2>1. m \in Nat BY LenProperties
  <2> HIDE DEF m
  <2> QED BY <2>1 DEF m
<1>2. /\ IsLineText(y) /\ ~IsDSCTrailer(y) /\ Len(y) = 3 /\ y[1] \in {End, Failed}
      /\ FrameHeader(y, y[1]) /\ y[2] = item.id /\ (y[1] = End => ~item.failed)
      /\ (y[1] = Failed) = item.failed
  BY HeaderStands
<1>3. /\ q + 3 <= m => line = Ok(q + 3 + 1, y)
      /\ ~(q + 3 <= m) => line.st \in {"eof", "limit"}
  <2> HIDE DEF y
  <2>1. AsFar(s, q, y) BY DEF y
  <2> DEFINE l == Len(y)
  <2>2. l = 3 BY <1>2
  <2>3. /\ q + l <= m /\ l <= FrameBytes => line = Ok(q + l + 1, y)
        /\ ~(q + l <= m /\ l <= FrameBytes) => line.st \in {"eof", "limit"}
    BY <1>2, <2>1, LineComes
  <2> HIDE DEF l, line, m
  <2> QED BY <2>2, <2>3
<1> HIDE DEF line, y
<1>4. g.st = "open" /\ g.at = q + 1 /\ g.id = item.id /\ g.data = data /\ g.notes = notes /\ g.ordinary = ord
  BY DEF Open
<1>5. f = FrameStep(s, g) OBVIOUS
<1>6. CASE q + 1 > m
  <2>1. ~(q + 3 <= m) BY <1>1, <1>6
  <2>2. f = [g EXCEPT !.st = "eof"]
    <3> HIDE DEF g
    <3> QED BY <1>4, <1>5, <1>6 DEF FrameStep
  <2>3. f.st = "eof" /\ f.notes = notes BY <2>2 DEF Open
  <2> QED BY <2>1, <2>3 DEF Failing, Fails, EndSo
<1>7. CASE ~(q + 1 > m)
  <2>1. s[q + 1] # TGO
    <3>1. 1 \in 1..Len(y) /\ q + 1 <= Len(s)
      <4>1. 1 \in 1..Len(y) BY <1>2
      <4>2. q + 1 <= m BY <1>1, <1>7
      <4> QED BY <4>1, <4>2
    <3>2. s[q + 1] = y[1] BY <3>1 DEF AsFar, y
    <3> QED BY <1>2, <3>2 DEF End, Failed, TGO
  <2>2. f = IF line.st # "ok" THEN [g EXCEPT !.st = line.st]
            ELSE ProcessFrameLine(line.val, [g EXCEPT !.at = line.at])
    <3> HIDE DEF g
    <3>1. f = IF BoundedLine(s, g.at, FrameBytes).st # "ok"
            THEN [g EXCEPT !.st = BoundedLine(s, g.at, FrameBytes).st]
            ELSE ProcessFrameLine(BoundedLine(s, g.at, FrameBytes).val,
                                  [g EXCEPT !.at = BoundedLine(s, g.at, FrameBytes).at])
      <4>1. ~(g.st # "open") /\ ~(g.at > Len(s)) /\ ~(s[g.at] = TGO) BY <1>4, <1>7, <2>1
      <4> QED BY <1>5, <4>1 DEF FrameStep
    <3> QED BY <1>4, <3>1 DEF line
  <2>3. ASSUME ~(q + 3 <= m) PROVE Fails(f, FALSE, notes)
    <3>1. line.st \in {"eof", "limit"} BY <1>3, <2>3
    <3>2. f = [g EXCEPT !.st = line.st] BY <2>2, <3>1
    <3>3. f.st = line.st /\ f.notes = notes BY <3>2 DEF Open
    <3> QED BY <3>1, <3>3 DEF Failing, Fails
  <2>4. ASSUME q + 3 <= m
        PROVE  /\ f.st = "ok" /\ f.at = q + 4 /\ f.id = item.id /\ f.data = data /\ f.notes = notes
               /\ f.failed = item.failed
    <3>1. line = Ok(q + 3 + 1, y) /\ q + 3 + 1 = q + 4 BY <1>1, <1>3, <2>4
    <3>2. line.st = "ok" /\ line.at = q + 4 /\ line.val = y BY <3>1 DEF Ok
    <3> DEFINE h == Open(q + 4, item.id, data, ord, notes)
    <3>3. [g EXCEPT !.at = q + 4] = h BY OpenMoved
    <3>4. h.id = item.id /\ h.ordinary = ord BY DEF Open
    <3> HIDE DEF g, h
    <3>5. f = ProcessFrameLine(y, h) BY <2>2, <3>2, <3>3
    <3>6. f = CheckFrameEnd(y, h) BY <1>2, <3>5 DEF ProcessFrameLine
    <3>7. f = [h EXCEPT !.st = "ok", !.failed = y[1] = Failed] BY <1>2, <3>4, <3>6 DEF CheckFrameEnd
    <3>8. f = [Open(q + 4, item.id, data, ord, notes) EXCEPT !.st = "ok", !.failed = y[1] = Failed]
      BY <3>7 DEF h
    <3>9. f.st = "ok" /\ f.at = q + 4 /\ f.id = item.id /\ f.data = data /\ f.notes = notes
      BY <3>8 DEF Open
    <3>10. f.failed = (y[1] = Failed) BY <3>8 DEF Open
    <3> QED BY <1>2, <3>9, <3>10
  <2> QED BY <2>3, <2>4 DEF EndSo
<1> QED BY <1>6, <1>7

LEMMA FrameOpens ==
    ASSUME NEW item, IsFrame(item), NEW q
    PROVE  Opened(q, HeaderOf(item)) = Open(q, item.id, <<>>, FALSE, <<>>)
<1> DEFINE x == HeaderOf(item)
<1>1. Len(x) = 3 /\ FrameHeader(x, Begin) /\ x[2] = item.id BY HeaderStands
<1>2. 3 + Len(<<>>) = 3 OBVIOUS
<1> HIDE DEF x
<1>3. Opened(q, x) = [st |-> "open", at |-> q, id |-> item.id, data |-> <<>>, used |-> 3, ordinary |-> FALSE,
                      failed |-> FALSE, notes |-> <<>>]
  BY <1>1 DEF Opened
<1> QED BY <1>2, <1>3 DEF Open, x

\* readFrame, of a frame that begins at p + 1.
LEMMA FrameRead ==
    ASSUME NEW s \in Seq(Nat), NEW p \in Nat, NEW item, IsFrame(item), Sound(item), p + 3 <= Len(s),
           3 <= FrameBytes, NEW v, v = ItemBytes(item), AsFar(s, p, v), NEW r,
           r = Delivered(ReadFrame(s, p + 4, HeaderOf(item)))
    PROVE  UnitSo(r, s, p, item, Len(v))
<1>1. PICK K, b, d, o : Laid(item, K, b, d, o) BY FrameLaid
<1> DEFINE m == Len(s) n == Len(v) N == Len(b[K]) w == p + 3 + N whole == p + n <= m
           g == Open(p + 4, item.id, <<>>, FALSE, <<>>)
<1>2. N \in Nat /\ n = 3 + N + 3 /\ FrameAhead(s, p, item, K, b) BY <1>1, FrameInSight
<1>3. m \in Nat /\ K \in Nat /\ whole \in BOOLEAN
  <2>1. m \in Nat BY LenProperties
  <2> QED BY <1>1, <2>1 DEF Laid
<1>4. PICK f : Rounds(f, s, m, g) /\ r = Delivered(f[m])
  <2>1. PICK f : Rounds(f, s, Len(s), Opened(p + 4, HeaderOf(item)))
                 /\ ReadFrame(s, p + 4, HeaderOf(item)) = f[Len(s)]
    BY <1>3, FrameRounds
  <2>2. Opened(p + 4, HeaderOf(item)) = g BY FrameOpens
  <2> HIDE DEF g
  <2> QED BY <2>1, <2>2
<1>5. /\ d[K] = Data(item, K) /\ o[K] = Notes(item, K) /\ Body(item, K) = b[K] /\ K \in 0..K
      /\ K = Pieces(item) /\ item.kind # "note"
  <2>1. K \in 0..K BY <1>3
  <2> QED BY <1>1, <2>1 DEF Laid, IsFrame, Pieces
<1>6. /\ UpTo(s, p, item, b, d, K) <=> w <= m /\ Fits(item)
      /\ UpTo(s, p, item, b, d, K) <=> There(s, p, item, K)
  <2>1. UpTo(s, p, item, b, d, K) <=> There(s, p, item, K) BY <1>1, <1>5, ThereIsUpTo
  <2> QED BY <1>5, <2>1 DEF There, Fits
<1>7. whole => w <= m /\ (K \in 0..K) /\ K <= N
  <2>1. K <= N BY <1>1, <1>3, BodyGrows
  <2> HIDE DEF N, m, n
  <2> QED BY <1>2, <1>3, <2>1
<1>8. (whole <=> w + 3 <= m) /\ p + n + 1 = w + 4
  <2> HIDE DEF N, m, n
  <2> QED BY <1>2, <1>3
<1> HIDE DEF whole, g
<1>9. ASSUME NEW k \in 0..K, k <= m PROVE After(f[k], s, p, item, b, d, o, k, whole)
  <2>1. whole => p + 3 + Len(b[K]) <= Len(s) BY <1>7
  <2>2. Rounds(f, s, m, Open(p + 4, item.id, <<>>, FALSE, <<>>)) BY <1>4 DEF g
  <2> QED BY <1>1, <1>2, <1>3, <1>9, <2>1, <2>2, FrameGoes
<1>10. ASSUME NEW k \in 0..m, Failing(f[k].st, whole), ~(whole /\ Fits(item)), Parted(f[k].notes, s, p, item)
       PROVE  UnitSo(r, s, p, item, n)
  <2>1. f[k].st # "open" /\ f[k].st # "ok" BY <1>10 DEF Failing
  <2>2. f[m] = f[k] BY <1>3, <1>4, <2>1, RoundsStay
  <2>3. r.st = f[k].st /\ r.val = f[k].notes BY <1>4, <2>1, <2>2 DEF Delivered
  <2> QED BY <1>10, <2>3 DEF UnitSo, whole
<1>11. CASE K <= m
  <2>1. K \in 0..K /\ K \in 0..m BY <1>3, <1>11
  <2>2. After(f[K], s, p, item, b, d, o, K, whole) BY <1>9, <1>11, <2>1
  <2>3. CASE ~UpTo(s, p, item, b, d, K)
    <3>1. Failing(f[K].st, whole) /\ FailedBy(f[K], s, p, item, b, d, o, K) BY <2>2, <2>3 DEF After
    <3>2. ~(whole /\ Fits(item)) BY <1>6, <1>7, <2>3
    <3>3. Parted(f[K].notes, s, p, item) BY <1>1, <2>1, <3>1, FailedParted
    <3> QED BY <1>10, <2>1, <3>1, <3>2, <3>3
  <2>4. CASE UpTo(s, p, item, b, d, K)
    <3> DEFINE data == d[K] notes == o[K] ord == HasText(item, K) e == f[K + 1]
    <3>1. w \in 0..Len(s) /\ w <= m /\ Fits(item) /\ K + 1 \in 1..m /\ K + 1 \in 0..m
      <4>1. w <= m /\ Fits(item) BY <1>6, <2>4
      <4>2. K <= N BY <1>1, <1>3, <2>1, BodyGrows
      <4> HIDE DEF N
      <4>3. w \in 0..m /\ K + 1 \in 1..m /\ K + 1 \in 0..m BY <1>2, <1>3, <4>1, <4>2
      <4> QED BY <4>1, <4>3
    <3>2. e = FrameStep(s, Open(w + 1, item.id, data, ord, notes))
      <4>1. f[K] = Open(w + 1, item.id, data, ord, notes) BY <2>2, <2>4 DEF After
      <4>2. (K + 1) - 1 = K BY <1>3
      <4>3. e = FrameStep(s, f[K]) BY <1>4, <3>1, <4>2 DEF Rounds
      <4> QED BY <4>1, <4>3
    <3>3. ord \in BOOLEAN /\ (ord => item.failed)
      <4>1. \A i \in 1..K : item.body[i].kind = "text" => item.failed BY <1>1 DEF Laid, IsFrame, IsItem
      <4> QED BY <4>1 DEF HasText, IsText
    <3>4. AsFar(s, w, EndOf(item)) BY <1>2 DEF FrameAhead
    <3> HIDE DEF w, m, data, notes, ord, e
    <3>5. EndSo(e, s, w, item, data, notes) BY <3>1, <3>2, <3>3, <3>4, EndStep
    <3>6. CASE whole
      <4>1. /\ e.st = "ok" /\ e.at = w + 4 /\ e.id = item.id /\ e.data = data /\ e.notes = notes
            /\ e.failed = item.failed
        BY <1>8, <3>5, <3>6 DEF m, EndSo
      <4>2. f[m] = e
        <5>1. f[K + 1].st # "open" BY <4>1 DEF e
        <5> QED BY <1>3, <1>4, <3>1, <5>1, RoundsStay DEF e, m
      <4>3. r = Ok(w + 4, Append(notes, [id |-> item.id, data |-> data, failed |-> item.failed]))
        BY <1>4, <4>1, <4>2 DEF Delivered
      <4>4. Meant(item) = Append(notes, [id |-> item.id, data |-> data, failed |-> item.failed])
        BY <1>5 DEF Meant, data, notes
      <4>5. r = Ok(p + n + 1, Meant(item)) BY <1>8, <4>3, <4>4
      <4> QED BY <3>1, <3>6, <4>5 DEF UnitSo, whole, m
    <3>7. CASE ~whole
      <4>1. Fails(e, FALSE, notes) BY <1>8, <3>5, <3>7 DEF m, EndSo
      <4>2. Failing(f[K + 1].st, whole) /\ f[K + 1].notes = notes BY <3>7, <4>1 DEF Failing, Fails, e
      <4>3. Parted(notes, s, p, item)
        <5>1. notes = Notes(item, K) /\ There(s, p, item, K) /\ ~(K < Pieces(item))
          BY <1>3, <1>5, <1>6, <2>4 DEF notes
        <5> QED BY <1>5, <5>1 DEF Parted
      <4> QED BY <1>10, <3>1, <3>7, <4>2, <4>3
    <3> QED BY <3>6, <3>7
  <2> QED BY <2>3, <2>4
<1>12. CASE ~(K <= m)
  <2>1. m \in 0..K /\ m <= m /\ m \in 0..m BY <1>3, <1>12
  <2>2. After(f[m], s, p, item, b, d, o, m, whole) BY <1>9, <2>1
  <2>3. ~UpTo(s, p, item, b, d, m)
    <3> DEFINE M == Len(b[m])
    <3>1. M \in Nat /\ m <= M BY <1>1, <2>1, BodyGrows
    <3> HIDE DEF M
    <3>2. ~(p + 3 + M <= m) BY <1>3, <3>1
    <3> QED BY <3>2 DEF UpTo, M
  <2>4. Failing(f[m].st, whole) /\ FailedBy(f[m], s, p, item, b, d, o, m) BY <2>2, <2>3 DEF After
  <2>5. ~whole
    <3> SUFFICES ASSUME whole PROVE FALSE OBVIOUS
    <3>1. K <= N /\ w <= m BY <1>7
    <3> HIDE DEF N, m
    <3> QED BY <1>2, <1>3, <1>12, <3>1
  <2>6. Parted(f[m].notes, s, p, item) BY <1>1, <2>1, <2>4, FailedParted
  <2> QED BY <1>10, <2>1, <2>4, <2>5, <2>6
<1> QED BY <1>11, <1>12

-----------------------------------------------------------------------------
(* A unit.                                                                  *)
TwoAt(s, from) == SubSeq(s, from, Min({from + 1, Len(s)}))

\* Where the line of a unit starts, after the preamble if there is one.
StartOf(s, from) == IF TwoAt(s, from) = DscPreamble THEN from + 2 ELSE from

LEMMA TwoAre ==
    ASSUME NEW s \in Seq(Nat), NEW p \in 0..Len(s)
    PROVE  /\ p + 2 <= Len(s) => /\ Len(TwoAt(s, p + 1)) = 2 /\ TwoAt(s, p + 1) \in Seq(Nat)
                                 /\ TwoAt(s, p + 1)[1] = s[p + 1] /\ TwoAt(s, p + 1)[2] = s[p + 2]
           /\ ~(p + 2 <= Len(s)) => Len(TwoAt(s, p + 1)) = Len(s) - p
<1> DEFINE m == Len(s) e == IF p + 2 <= m THEN p + 2 ELSE m t == SubSeq(s, p + 1, e)
<1>1. m \in Nat /\ p \in Nat /\ p <= m
  <2>1. m \in Nat BY LenProperties
  <2> HIDE DEF m
  <2> QED BY <2>1 DEF m
<1> HIDE DEF m
<1>2. TwoAt(s, p + 1) = t
  <2>1. (p + 1) + 1 = p + 2 /\ p + 2 \in Int /\ m \in Int BY <1>1
  <2>2. Min({p + 2, m}) = IF p + 2 <= m THEN p + 2 ELSE m BY <2>1, LeastOfTwo
  <2> QED BY <2>1, <2>2 DEF TwoAt, m
<1>3. e \in Int /\ p + 1 \in Int /\ \A i \in p + 1..e : i \in 1..m BY <1>1
<1> HIDE DEF e
<1>4. \A i \in p + 1..e : s[i] \in Nat
  <2>1. \A i \in p + 1..e : i \in 1..Len(s) BY <1>3 DEF m
  <2> QED BY <2>1, ElementOfSeq
<1>5. /\ t \in Seq(Nat) /\ Len(t) = (IF p + 1 <= e THEN e - (p + 1) + 1 ELSE 0)
      /\ \A i \in 1..e - (p + 1) + 1 : t[i] = s[(p + 1) + i - 1]
  BY <1>3, <1>4, SubSeqProperties
<1> HIDE DEF t
<1>6. CASE p + 2 <= m
  <2>1. e = p + 2 BY <1>6 DEF e
  <2>2. p + 1 <= e /\ e - (p + 1) + 1 = 2 /\ 1 \in 1..2 /\ 2 \in 1..2 /\ (p + 1) + 1 - 1 = p + 1
        /\ (p + 1) + 2 - 1 = p + 2
    BY <1>1, <2>1
  <2>3. Len(t) = 2 /\ t[1] = s[p + 1] /\ t[2] = s[p + 2] BY <1>5, <2>2
  <2> QED BY <1>2, <1>5, <1>6, <2>3 DEF m
<1>7. CASE ~(p + 2 <= m)
  <2>1. e = m BY <1>7 DEF e
  <2>2. Len(t) = m - p BY <1>1, <1>5, <2>1
  <2> QED BY <1>2, <1>7, <2>2 DEF m
<1> QED BY <1>6, <1>7

\* Nothing but an escape starts a preamble or a trailer.
LEMMA NoEscape ==
    ASSUME NEW s \in Seq(Nat), NEW p \in 0..Len(s), p + 1 <= Len(s) => s[p + 1] # Esc
    PROVE  TwoAt(s, p + 1) # DscPreamble /\ TwoAt(s, p + 1) # DscTrailer
<1> DEFINE t == TwoAt(s, p + 1) m == Len(s)
<1>1. Len(DscPreamble) = 2 /\ DscPreamble[1] = Esc /\ Len(DscTrailer) = 2 /\ DscTrailer[1] = Esc
  BY DEF DscPreamble, DscTrailer
<1>2. m \in Nat /\ p \in Nat BY LenProperties
<1>3. /\ p + 2 <= m => t[1] = s[p + 1]
      /\ ~(p + 2 <= m) => Len(t) = m - p
  BY TwoAre
<1> HIDE DEF t, m
<1>4. CASE p + 2 <= m
  <2>1. p + 1 <= m BY <1>2, <1>4
  <2> QED BY <1>1, <1>3, <1>4, <2>1 DEF t, m
<1>5. CASE ~(p + 2 <= m)
  <2> DEFINE l == Len(t)
  <2>1. l # 2
    <3>1. l = m - p BY <1>3, <1>5
    <3> HIDE DEF l
    <3> QED BY <1>2, <1>5, <3>1
  <2> QED BY <1>1, <2>1 DEF t
<1> QED BY <1>4, <1>5

LEMMA LineBroken ==
    ASSUME NEW s, NEW at, BoundedLine(s, at, FrameBytes).st # "ok" PROVE BoundedLine(s, at, FrameBytes).val = <<>>
  BY DEF BoundedLine, Broken, Ok

\* A notification or a frame that begins at q + 1, read as a unit.
LEMMA UnitRead ==
    ASSUME NEW s \in Seq(Nat), NEW from, NEW q \in 0..Len(s), StartOf(s, from) = q + 1,
           TwoAt(s, from) # DscTrailer, NEW item, IsItem(item), Sound(item), NEW v, v = ItemBytes(item),
           AsFar(s, q, v), NEW r, r = ReadControlUnit(s, from)
    PROVE  UnitSo(r, s, q, item, Len(v))
<1> DEFINE line == BoundedLine(s, q + 1, FrameBytes) m == Len(s) n == Len(v)
<1>1. m \in Nat /\ q \in Nat /\ FrameBytes \in Nat BY LenProperties, CodecNumbers
<1>2. r = IF line.st # "ok" THEN line
          ELSE IF Decodes(line.val) THEN Ok(line.at, <<line.val>>)
          ELSE IF line.val[1] # Begin THEN Broken("protocol")
          ELSE Delivered(ReadFrame(s, line.at, line.val))
  <2>1. Len(DscPreamble) = 2 BY DEF DscPreamble
  <2> QED BY <2>1 DEF ReadControlUnit, TwoAt, StartOf
<1>5. line.st # "ok" => line.val = <<>> BY LineBroken
<1>3. CASE item.kind = "note"
  <2>1. IsLine(item.text) /\ v = <<Note>> \o item.text \o <<LF>> BY <1>3 DEF IsItem, ItemBytes, PieceBytes
  <2>2. IsLineText(v) /\ ~IsDSCTrailer(v) /\ v[1] = Note BY <2>1, NoteLine
  <2>3. /\ q + n <= m /\ n <= FrameBytes => line = Ok(q + n + 1, v)
        /\ ~(q + n <= m /\ n <= FrameBytes) =>
              line.st \in {"eof", "limit"} /\ (q + n <= m => line.st = "limit")
    BY <2>2, LineComes
  <2>4. (Fits(item) <=> n <= FrameBytes) /\ Meant(item) = <<v>>
    BY <1>3 DEF Fits, Meant, ItemBytes
  <2> HIDE DEF line, m, n
  <2>5. CASE q + n <= m /\ n <= FrameBytes
    <3>1. line.st = "ok" /\ line.val = v /\ line.at = q + n + 1 BY <2>3, <2>5 DEF Ok
    <3>2. r = Ok(q + n + 1, Meant(item)) BY <1>2, <2>2, <2>4, <3>1, DecodesFirst
    <3> QED BY <2>4, <2>5, <3>2 DEF UnitSo, m, n
  <2>6. CASE ~(q + n <= m /\ n <= FrameBytes)
    <3>1. line.st \in {"eof", "limit"} /\ (q + n <= m => line.st = "limit") BY <2>3, <2>6
    <3>2. r = line /\ r.val = <<>> BY <1>2, <1>5, <3>1
    <3>3. Parted(<<>>, s, q, item)
      <4>1. Pieces(item) = 0 /\ 0 \in 0..0 /\ ~(0 > 0) /\ ~(0 < 0) BY <1>3 DEF Pieces
      <4> QED BY <4>1, NoNotes DEF Parted
    <3> QED BY <2>4, <2>6, <3>1, <3>2, <3>3 DEF UnitSo, Failing, m, n
  <2> QED BY <2>5, <2>6 DEF n
<1>4. CASE item.kind = "frame"
  <2> DEFINE x == HeaderOf(item) l == Len(x)
  <2>1. IsFrame(item) BY <1>4 DEF IsFrame
  <2>2. IsLineText(x) /\ ~IsDSCTrailer(x) /\ l = 3 /\ x[1] = Begin BY <2>1, HeaderStands
  <2>3. PICK K, b, d, o : Laid(item, K, b, d, o) BY <2>1, FrameLaid
  <2> DEFINE N == Len(b[K])
  <2>4. N \in Nat /\ n = 3 + N + 3 /\ AsFar(s, q, x)
    <3>1. FrameAhead(s, q, item, K, b) /\ N \in Nat /\ n = 3 + N + 3 BY <1>1, <2>1, <2>3, FrameInSight
    <3> QED BY <3>1 DEF FrameAhead
  <2> HIDE DEF x, N
  <2>5. /\ q + l <= m /\ l <= FrameBytes => line = Ok(q + l + 1, x)
        /\ ~(q + l <= m /\ l <= FrameBytes) =>
              line.st \in {"eof", "limit"} /\ (q + l <= m => line.st = "limit")
    BY <2>2, <2>4, LineComes
  <2> HIDE DEF line, m, n, l
  <2>6. /\ q + 3 <= m /\ 3 <= FrameBytes => line = Ok(q + 3 + 1, x)
        /\ ~(q + 3 <= m /\ 3 <= FrameBytes) =>
              line.st \in {"eof", "limit"} /\ (q + 3 <= m => line.st = "limit")
    BY <2>2, <2>5
  <2>7. CASE q + 3 <= m /\ 3 <= FrameBytes
    <3>1. q + 3 + 1 = q + 4 BY <1>1
    <3>2. line.st = "ok" /\ line.val = x /\ line.at = q + 4 BY <2>6, <2>7, <3>1 DEF Ok
    <3>3. ~Decodes(x) BY <2>2, DecodesFirst DEF Begin, Note, Percent
    <3>4. r = Delivered(ReadFrame(s, q + 4, x)) BY <1>2, <2>2, <3>2, <3>3
    <3>5. q + 3 <= Len(s) BY <2>7 DEF m
    <3>6. UnitSo(r, s, q, item, Len(v)) BY <1>1, <2>1, <2>7, <3>4, <3>5, FrameRead DEF x
    <3> QED BY <3>6
  <2>8. CASE ~(q + 3 <= m /\ 3 <= FrameBytes)
    <3>1. line.st \in {"eof", "limit"} /\ (q + 3 <= m => line.st = "limit") BY <2>6, <2>8
    <3>2. r = line /\ r.val = <<>> BY <1>2, <1>5, <3>1
    <3>3. q + n <= m => q + 3 <= m BY <1>1, <2>4
    <3>4. ASSUME NEW k \in 0..K, There(s, q, item, k) PROVE FALSE
      <4> DEFINE B == Len(b[k]) E == Len(d[k])
      <4>1. b[k] \in Seq(Nat) /\ d[k] \in Seq(Nat) BY <2>3 DEF Laid, Concatenates
      <4>2. B \in Nat /\ E \in Nat BY <4>1, LenProperties
      <4>3. UpTo(s, q, item, b, d, k) BY <2>3, <3>4, ThereIsUpTo
      <4>4. q + 3 + B <= m /\ 3 + E <= FrameBytes BY <4>3 DEF UpTo, m
      <4> HIDE DEF B, E
      <4> QED BY <1>1, <2>8, <4>2, <4>4
    <3>5. K \in Nat /\ K = Pieces(item) /\ (Fits(item) => PiecesFit(item, K))
      BY <1>4, <2>3 DEF Laid, Pieces, Fits
    <3>6. ~(q + n <= m /\ Fits(item))
      <4>1. Body(item, K) = b[K] /\ K \in 0..K BY <2>3, <3>5 DEF Laid
      <4>2. Len(Body(item, K)) = N BY <4>1 DEF N
      <4>3. q + n <= m => q + 3 + N <= m BY <1>1, <2>4
      <4>4. q + n <= m => q + 3 + Len(Body(item, K)) <= Len(s) BY <4>2, <4>3 DEF m
      <4> QED BY <3>4, <3>5, <4>1, <4>4 DEF There
    <3>7. Parted(<<>>, s, q, item)
      <4> DEFINE k == 0
      <4>1. k \in 0..K /\ ~(k > 0) /\ (k < K => k + 1 \in 0..K) BY <3>5
      <4>2. <<>> = Notes(item, k) BY NoNotes
      <4> HIDE DEF k
      <4> QED BY <3>4, <3>5, <4>1, <4>2 DEF Parted
    <3>8. Failing(r.st, q + n <= m) BY <3>1, <3>2, <3>3 DEF Failing
    <3> QED BY <3>2, <3>6, <3>7, <3>8 DEF UnitSo, m, n
  <2> QED BY <2>7, <2>8
<1> QED BY <1>3, <1>4 DEF IsItem

-----------------------------------------------------------------------------
(* Whatever the stream holds, a unit that is taken from it is some bytes    *)
(* long and of a known shape.                                               *)
LEMMA LineFrom ==
    ASSUME NEW s \in Seq(Nat), NEW a \in Nat, NEW limit, NEW r, r = BoundedLine(s, a + 1, limit)
    PROVE  /\ r.st \in {"ok", "eof", "limit"}
           /\ r.st = "ok" => r.at \in a + 2..Len(s) + 1 /\ r.val \in Seq(Nat) /\ Len(r.val) \in Nat \ {0}
<1> DEFINE m == Len(s) ends == {i \in a + 1..m : s[i] = LF} last == IF ends = {} THEN m ELSE Min(ends)
           line == SubSeq(s, a + 1, last)
<1>1. m \in Nat BY LenProperties
<1>2. r = IF limit <= 0 \/ PartsExceed(Len(line), limit) THEN Broken("limit")
          ELSE IF ends = {} \/ IsDSCTrailer(line) THEN Broken("eof") ELSE Ok(last + 1, line)
  BY DEF BoundedLine
<1> HIDE DEF m, line, last
<1>3. Broken("limit").st = "limit" /\ Broken("eof").st = "eof" BY DEF Broken
<1>4. Ok(last + 1, line).st = "ok" /\ Ok(last + 1, line).at = last + 1 /\ Ok(last + 1, line).val = line BY DEF Ok
<1>5. r.st \in {"ok", "eof", "limit"} BY <1>2, <1>3, <1>4
<1>6. ASSUME r.st = "ok" PROVE r.at \in a + 2..m + 1 /\ r.val \in Seq(Nat) /\ Len(r.val) \in Nat \ {0}
  <2>1. ends # {} /\ r.at = last + 1 /\ r.val = line
    <3> HIDE DEF ends
    <3> QED BY <1>2, <1>3, <1>4, <1>6
  <2>2. last \in a + 1..m
    <3>1. ends \in SUBSET Nat BY <1>1
    <3>2. ends \subseteq a + 1..m OBVIOUS
    <3> HIDE DEF ends
    <3>3. PICK k \in ends : \A i \in ends : k <= i BY <2>1, <3>1, LeastNat
    <3>4. Min(ends) = k
      <4>1. ends \in SUBSET Int BY <3>1
      <4> QED BY <3>3, <4>1, LeastIs
    <3>5. last = Min(ends) BY <2>1 DEF last
    <3> QED BY <3>2, <3>3, <3>4, <3>5
  <2>3. \A i \in a + 1..last : i \in 1..Len(s) BY <1>1, <2>2 DEF m
  <2>4. \A i \in a + 1..last : s[i] \in Nat BY <2>3, ElementOfSeq
  <2>5. last \in Int /\ a + 1 \in Int /\ a + 1 <= last BY <1>1, <2>2
  <2>6. line \in Seq(Nat) /\ Len(line) = last - (a + 1) + 1 BY <2>4, <2>5, SubSeqProperties DEF line
  <2>7. last - (a + 1) + 1 \in Nat \ {0} /\ last + 1 \in a + 2..m + 1 BY <1>1, <2>2
  <2> QED BY <2>1, <2>6, <2>7
<1> QED BY <1>5, <1>6 DEF m

LEMMA ChunkFrom ==
    ASSUME NEW s \in Seq(Nat), NEW p \in 0..Len(s), NEW left \in Int, left < MaxNumber,
           NEW r, r = ReadRecordWireChunk(s, p + 1, left)
    PROVE  /\ r.st \in {"ok", "protocol"}
           /\ r.st = "ok" => r.at \in p + 2..Len(s) + 1 /\ r.val \in Seq(Nat) /\ Len(r.val) \in Nat
<1> DEFINE m == Len(s) scan == ScanRecord(s, p + 1, left)
           rest == BoundedLine(s, scan.at, left - (scan.at - (p + 1)))
<1>1. m \in Nat /\ p \in Nat /\ p <= m
  <2>1. m \in Nat BY LenProperties
  <2> HIDE DEF m
  <2> QED BY <2>1 DEF m
<1>2. r = IF scan.st = "ok" THEN Ok(scan.at, SubSeq(s, p + 1, scan.at - 1))
          ELSE IF scan.st = "short" \/ rest.st # "ok" THEN Broken("protocol")
          ELSE Ok(rest.at, SubSeq(s, p + 1, rest.at - 1))
  BY DEF ReadRecordWireChunk, WireChunk
<1>3. scan.st = "ok" => scan.at \in p + 2..m + 1
  <2> SUFFICES ASSUME scan.st = "ok" PROVE scan.at \in p + 2..m + 1 OBVIOUS
  <2>1. RecordFrom(scan, s, p) BY RecordOnce
  <2> HIDE DEF scan
  <2> DEFINE w == EncodeRecord(scan.val) W == Len(w)
  <2>2. W \in Nat \ {0} /\ scan = Ok(p + W + 1, scan.val) /\ p + W <= m BY <2>1 DEF RecordFrom, Holds, m
  <2> HIDE DEF W, m
  <2>3. scan.at = p + W + 1 BY <2>2 DEF Ok
  <2> QED BY <1>1, <2>2, <2>3
<1>4. StaysAhead(scan, p) BY RecordAheadOf
<1>5. scan.st \notin {"ok", "short"} /\ rest.st = "ok" => rest.at \in p + 2..m + 1
  <2> SUFFICES ASSUME scan.st \notin {"ok", "short"}, rest.st = "ok" PROVE rest.at \in p + 2..m + 1 OBVIOUS
  <2> DEFINE a == scan.at - 1 limit == left - (scan.at - (p + 1)) e == BoundedLine(s, a + 1, limit)
  <2>1. scan.at \in Nat /\ scan.at > p BY <1>4 DEF StaysAhead
  <2> HIDE DEF scan
  <2>2. a \in Nat /\ a + 1 = scan.at /\ a >= p BY <1>1, <2>1
  <2> HIDE DEF a, limit
  <2>3. rest = e BY <2>2 DEF limit
  <2> HIDE DEF rest
  <2>4. e.st = "ok" => e.at \in a + 2..m + 1
    <3> HIDE DEF e
    <3>1. e = BoundedLine(s, a + 1, limit) BY DEF e
    <3> QED BY <2>2, <3>1, LineFrom DEF m
  <2> HIDE DEF e, m
  <2>5. rest.at \in a + 2..m + 1 BY <2>3, <2>4
  <2> QED BY <1>1, <2>2, <2>5
<1>6. \A e \in p + 2..m + 1 : SubSeq(s, p + 1, e - 1) \in Seq(Nat) /\ Len(SubSeq(s, p + 1, e - 1)) \in Nat
  <2> SUFFICES ASSUME NEW e \in p + 2..m + 1
               PROVE  SubSeq(s, p + 1, e - 1) \in Seq(Nat) /\ Len(SubSeq(s, p + 1, e - 1)) \in Nat
    OBVIOUS
  <2> HIDE DEF m
  <2>1. \A i \in p + 1..e - 1 : i \in 1..Len(s) BY <1>1 DEF m
  <2>2. \A i \in p + 1..e - 1 : s[i] \in Nat BY <2>1, ElementOfSeq
  <2>3. e - 1 \in Int /\ p + 1 \in Int BY <1>1
  <2>4. SubSeq(s, p + 1, e - 1) \in Seq(Nat) BY <2>2, <2>3, SubSeqProperties
  <2> QED BY <2>4, LenProperties
<1> HIDE DEF scan, rest, m
<1>7. \A e, t : Ok(e, t).st = "ok" /\ Ok(e, t).at = e /\ Ok(e, t).val = t BY DEF Ok
<1>8. Broken("protocol").st = "protocol" BY DEF Broken
<1>9. r.st \in {"ok", "protocol"} BY <1>2, <1>7, <1>8
<1>10. ASSUME r.st = "ok" PROVE r.at \in p + 2..m + 1 /\ r.val = SubSeq(s, p + 1, r.at - 1)
  <2> DEFINE T(e) == SubSeq(s, p + 1, e - 1)
  <2>0. r = IF scan.st = "ok" THEN Ok(scan.at, T(scan.at))
            ELSE IF scan.st = "short" \/ rest.st # "ok" THEN Broken("protocol")
            ELSE Ok(rest.at, T(rest.at))
    BY <1>2
  <2> HIDE DEF T
  <2>1. CASE scan.st = "ok"
    <3>1. r = Ok(scan.at, T(scan.at)) BY <2>0, <2>1
    <3>2. r.at = scan.at /\ r.val = T(scan.at) BY <1>7, <3>1
    <3> QED BY <1>3, <2>1, <3>2 DEF T
  <2>2. CASE scan.st # "ok"
    <3>1. scan.st # "short" /\ rest.st = "ok" BY <1>8, <1>10, <2>0, <2>2
    <3>2. r = Ok(rest.at, T(rest.at)) BY <2>0, <2>2, <3>1
    <3>3. r.at = rest.at /\ r.val = T(rest.at) BY <1>7, <3>2
    <3> QED BY <1>5, <2>2, <3>1, <3>3 DEF T
  <2> QED BY <2>1, <2>2
<1> QED BY <1>6, <1>9, <1>10 DEF m

States == {"open", "ok", "eof", "limit", "protocol"}
Frames(s, q, id) ==
    [st: States, at: q + 1..Len(s) + 1, id: {id}, data: Seq(Nat), used: Nat, ordinary: BOOLEAN,
     failed: BOOLEAN, notes: Seq(Seq(Nat))]
FrameIn(f, s, q, id) == f \in Frames(s, q, id) /\ (f.st = "ok" => id \in Nat)

LEMMA FrameStays ==
    ASSUME NEW s \in Seq(Nat), NEW q \in Nat, NEW id, NEW g, FrameIn(g, s, q, id), NEW f, f = FrameStep(s, g)
    PROVE  FrameIn(f, s, q, id)
<1> DEFINE m == Len(s) line == BoundedLine(s, g.at, FrameBytes) left == FrameBytes - g.used
           chunk == ReadRecordWireChunk(s, g.at, left) a == g.at - 1
<1>1. m \in Nat BY LenProperties
<1>2. /\ g.st \in States /\ g.at \in q + 1..m + 1 /\ g.id = id /\ g.data \in Seq(Nat) /\ g.used \in Nat
      /\ g.ordinary \in BOOLEAN /\ g.failed \in BOOLEAN /\ g.notes \in Seq(Seq(Nat))
      /\ DOMAIN g = {"st", "at", "id", "data", "used", "ordinary", "failed", "notes"}
      /\ g.st = "ok" => id \in Nat
  BY DEF FrameIn, Frames
<1>3. a \in Nat /\ a + 1 = g.at /\ a >= q /\ g.at \in Nat
  <2> HIDE DEF m
  <2> QED BY <1>1, <1>2
<1>4. /\ line.st \in {"ok", "eof", "limit"}
      /\ line.st = "ok" => line.at \in a + 2..m + 1 /\ line.val \in Seq(Nat) /\ Len(line.val) \in Nat \ {0}
  <2>1. line = BoundedLine(s, a + 1, FrameBytes) BY <1>3
  <2> HIDE DEF line, a
  <2> QED BY <1>3, <2>1, LineFrom
<1>5. g.at <= m =>
        /\ chunk.st \in {"ok", "protocol"}
        /\ chunk.st = "ok" => chunk.at \in a + 2..m + 1 /\ chunk.val \in Seq(Nat) /\ Len(chunk.val) \in Nat
  <2> SUFFICES ASSUME g.at <= m
               PROVE  /\ chunk.st \in {"ok", "protocol"}
                      /\ chunk.st = "ok" => chunk.at \in a + 2..m + 1 /\ chunk.val \in Seq(Nat)
                                            /\ Len(chunk.val) \in Nat
    OBVIOUS
  <2>1. left \in Int /\ left < MaxNumber BY <1>2, CodecNumbers, MaxIsNat
  <2>2. a \in 0..Len(s)
    <3> HIDE DEF a
    <3>1. a \in 0..m
      <4> HIDE DEF m
      <4> QED BY <1>1, <1>3
    <3> QED BY <3>1
  <2>3. chunk = ReadRecordWireChunk(s, a + 1, left) BY <1>3
  <2> HIDE DEF chunk, a, left
  <2> QED BY <2>1, <2>2, <2>3, ChunkFrom
<1>6. \A e \in a + 2..m + 1 : e \in q + 1..m + 1
  <2> HIDE DEF m, a
  <2> QED BY <1>1, <1>3
<1> HIDE DEF m, a, chunk, line, left
<1> DEFINE F == Frames(s, q, id)
<1>7. g \in F BY DEF FrameIn
<1>8. ASSUME NEW st \in States PROVE [g EXCEPT !.st = st] \in F /\ [g EXCEPT !.st = st].st = st
  BY <1>2, <1>7 DEF Frames
<1>9. CASE g.st # "open"
  <2>1. f = g BY <1>9 DEF FrameStep
  <2> QED BY <2>1
<1>10. CASE g.st = "open" /\ g.at > m
  <2>1. f = [g EXCEPT !.st = "eof"] BY <1>10 DEF FrameStep, m
  <2>2. "eof" \in States BY DEF States
  <2> QED BY <1>8, <2>1, <2>2 DEF FrameIn
<1>11. CASE g.st = "open" /\ ~(g.at > m) /\ s[g.at] = TGO
  <2>1. f = AppendRecordChunk(chunk, g) BY <1>11 DEF FrameStep, m, chunk, left
  <2>2. g.at <= m BY <1>1, <1>3, <1>11
  <2>3. CASE chunk.st # "ok"
    <3>1. f = [g EXCEPT !.st = chunk.st] BY <2>1, <2>3 DEF AppendRecordChunk
    <3>2. chunk.st \in States /\ chunk.st # "ok" BY <1>5, <2>2, <2>3 DEF States
    <3> QED BY <1>8, <3>1, <3>2 DEF FrameIn
  <2>4. CASE chunk.st = "ok"
    <3> DEFINE at == chunk.at data == g.data \o chunk.val used == g.used + Len(chunk.val)
    <3>1. at \in q + 1..Len(s) + 1 BY <1>5, <1>6, <2>2, <2>4 DEF m
    <3>2. data \in Seq(Nat) /\ used \in Nat
      <4>1. chunk.val \in Seq(Nat) /\ Len(chunk.val) \in Nat BY <1>5, <2>2, <2>4
      <4> QED BY <1>2, <4>1
    <3>3. f = [g EXCEPT !.at = at, !.data = data, !.used = used]
      BY <1>2, <2>1, <2>4 DEF AppendRecordChunk
    <3> HIDE DEF at, data, used
    <3>4. f \in F BY <1>7, <3>1, <3>2, <3>3 DEF Frames
    <3>5. f.st = g.st BY <1>2, <3>3
    <3> QED BY <1>11, <3>4, <3>5 DEF FrameIn
  <2> QED BY <2>3, <2>4
<1>12. CASE g.st = "open" /\ ~(g.at > m) /\ s[g.at] # TGO /\ line.st # "ok"
  <2>1. f = [g EXCEPT !.st = line.st] BY <1>12 DEF FrameStep, m, line
  <2>2. line.st \in States /\ line.st # "ok" BY <1>4, <1>12 DEF States
  <2> QED BY <1>8, <2>1, <2>2 DEF FrameIn
<1>13. CASE g.st = "open" /\ ~(g.at > m) /\ s[g.at] # TGO /\ line.st = "ok"
  <2> DEFINE h == [g EXCEPT !.at = line.at] v == line.val
  <2>1. f = ProcessFrameLine(v, h) BY <1>13 DEF FrameStep, m, line
  <2>2. line.at \in q + 1..Len(s) + 1 /\ v \in Seq(Nat) /\ Len(v) \in Nat \ {0} BY <1>4, <1>6, <1>13 DEF m
  <2>3. /\ h \in F /\ h.st = "open" /\ h.id = id /\ h.data = g.data /\ h.used = g.used
        /\ h.notes = g.notes /\ h.ordinary = g.ordinary
    BY <1>2, <1>7, <1>13, <2>2 DEF Frames
  <2>4. /\ h.data \in Seq(Nat) /\ h.used \in Nat /\ h.notes \in Seq(Seq(Nat)) /\ h.ordinary \in BOOLEAN
        /\ DOMAIN h = DOMAIN g
    BY <1>2, <2>3
  <2> HIDE DEF h, v
  <2>5. CASE v[1] \in {End, Failed}
    <3>1. f = CheckFrameEnd(v, h) BY <2>1, <2>5 DEF ProcessFrameLine
    <3>2. "protocol" \in States /\ "ok" \in States BY DEF States
    <3>3. CASE ~FrameHeader(v, v[1]) \/ v[2] # h.id \/ (h.ordinary /\ v[1] = End)
      <4>1. f = [h EXCEPT !.st = "protocol"] BY <3>1, <3>3 DEF CheckFrameEnd
      <4>2. f \in F /\ f.st = "protocol" BY <2>3, <3>2, <4>1 DEF Frames
      <4> QED BY <4>2 DEF FrameIn
    <3>4. CASE ~(~FrameHeader(v, v[1]) \/ v[2] # h.id \/ (h.ordinary /\ v[1] = End))
      <4> DEFINE e == (v[1] = Failed)
      <4>1. f = [h EXCEPT !.st = "ok", !.failed = e] BY <3>1, <3>4 DEF CheckFrameEnd
      <4>2. e \in BOOLEAN OBVIOUS
      <4> HIDE DEF e
      <4>3. f \in F BY <2>3, <3>2, <4>1, <4>2 DEF Frames
      <4>4. id \in Nat
        <5>1. Len(v) = 3 /\ v[2] = id BY <2>3, <3>4 DEF FrameHeader
        <5>2. 2 \in 1..Len(v) BY <5>1
        <5> QED BY <2>2, <5>1, <5>2, ElementOfSeq
      <4> QED BY <4>3, <4>4 DEF FrameIn
    <3> QED BY <3>3, <3>4
  <2>6. CASE v[1] \notin {End, Failed} /\ v[1] = Begin
    <3>1. f = [h EXCEPT !.st = "protocol"] BY <2>1, <2>6 DEF ProcessFrameLine
    <3>2. f \in F /\ f.st = "protocol" BY <2>3, <3>1 DEF Frames, States
    <3> QED BY <3>2 DEF FrameIn
  <2>7. CASE v[1] \notin {End, Failed} /\ v[1] # Begin /\ Decodes(v)
    <3> DEFINE e == Append(h.notes, v)
    <3>1. f = [h EXCEPT !.notes = e] BY <2>1, <2>4, <2>7, <1>2 DEF ProcessFrameLine
    <3>2. e \in Seq(Seq(Nat)) BY <2>2, <2>4
    <3> HIDE DEF e
    <3>3. f \in F /\ f.st = "open" BY <2>3, <3>1, <3>2 DEF Frames
    <3> QED BY <3>3 DEF FrameIn
  <2>8. CASE v[1] \notin {End, Failed} /\ v[1] # Begin /\ ~Decodes(v)
    <3> DEFINE data == h.data \o v used == h.used + Len(v) ord == (h.ordinary \/ v[1] # Marker)
               st == IF h.used + Len(v) > FrameBytes THEN "limit" ELSE h.st
    <3>1. f = AppendLine(v, h) BY <2>1, <2>8 DEF ProcessFrameLine
    <3>2. f = [h EXCEPT !.data = data, !.used = used, !.ordinary = ord, !.st = st]
      BY <1>2, <2>4, <3>1 DEF AppendLine
    <3>3. data \in Seq(Nat) /\ used \in Nat /\ ord \in BOOLEAN /\ st \in States /\ st # "ok"
      BY <2>2, <2>3, <2>4 DEF States
    <3> HIDE DEF data, used, ord, st
    <3>4. f \in F /\ f.st = st BY <2>3, <3>2, <3>3 DEF Frames
    <3> QED BY <3>3, <3>4 DEF FrameIn
  <2> QED BY <2>5, <2>6, <2>7, <2>8
<1> QED BY <1>9, <1>10, <1>11, <1>12, <1>13

Told == Seq(Nat) \cup [id: Nat, data: Seq(Nat), failed: BOOLEAN] \cup States

LEMMA Retold ==
    ASSUME NEW a \in Seq(Told), NEW b \in Seq(Told), NEW c \in Seq(Told)
    PROVE  a \o (b \o c) = (a \o b) \o c
  BY Regrouped

LEMMA FrameTyped ==
    ASSUME NEW s \in Seq(Nat), NEW q \in 0..Len(s), NEW begin \in Seq(Nat), NEW f, f = ReadFrame(s, q + 1, begin)
    PROVE  FrameIn(f, s, q, begin[2])
<1> DEFINE m == Len(s) id == begin[2] g == Opened(q + 1, begin)
<1>1. m \in Nat /\ q \in Nat /\ q <= m
  <2>1. m \in Nat BY LenProperties
  <2> HIDE DEF m
  <2> QED BY <2>1 DEF m
<1>2. PICK h : Rounds(h, s, m, g) /\ f = h[m]
  <2> HIDE DEF g
  <2> QED BY <1>1, FrameRounds DEF g
<1>3. FrameIn(g, s, q, id)
  <2> DEFINE st == IF FrameHeader(begin, Begin) THEN "open" ELSE "protocol" n == Len(begin) at == q + 1
  <2>1. g = [st |-> st, at |-> at, id |-> id, data |-> <<>>, used |-> n, ordinary |-> FALSE, failed |-> FALSE,
             notes |-> <<>>]
    BY DEF Opened
  <2>2. st \in States /\ st # "ok" /\ n \in Nat BY LenProperties DEF States
  <2>3. at \in q + 1..m + 1
    <3> HIDE DEF m
    <3> QED BY <1>1
  <2>4. <<>> \in Seq(Nat) /\ <<>> \in Seq(Seq(Nat)) OBVIOUS
  <2> HIDE DEF st, n, at, id, g
  <2>5. g \in Frames(s, q, id) BY <2>1, <2>2, <2>3, <2>4 DEF Frames, m
  <2>6. g.st = st BY <2>1
  <2> QED BY <2>2, <2>5, <2>6 DEF FrameIn
<1> HIDE DEF g, id
<1> DEFINE S == {k \in Nat : k <= m => FrameIn(h[k], s, q, id)}
<1>4. 0 \in S BY <1>2, <1>3 DEF Rounds
<1>5. ASSUME NEW k \in Nat \ {0}, k - 1 \in S PROVE k \in S
  <2> SUFFICES ASSUME k <= m PROVE FrameIn(h[k], s, q, id) OBVIOUS
  <2>1. k \in 1..m /\ k - 1 <= m BY <1>1
  <2>2. FrameIn(h[k - 1], s, q, id) BY <1>5, <2>1
  <2>3. h[k] = FrameStep(s, h[k - 1]) BY <1>2, <2>1 DEF Rounds
  <2> QED BY <1>1, <2>2, <2>3, FrameStays
<1>6. Nat \subseteq S
  <2> HIDE DEF S
  <2> QED BY <1>4, <1>5, UpToAll
<1>7. m \in S BY <1>1, <1>6
<1> QED BY <1>1, <1>2, <1>7 DEF id

LEMMA UnitFrom ==
    ASSUME NEW s \in Seq(Nat), NEW i \in 1..Len(s) + 1, NEW r, r = ReadControlUnit(s, i)
    PROVE  /\ r.st \in States
           /\ r.st = "ok" => r.at \in i + 1..Len(s) + 1
           /\ r.val \in Seq(Told)
<1> DEFINE m == Len(s) a == IF TwoAt(s, i) = DscPreamble THEN i + 1 ELSE i - 1
           line == BoundedLine(s, a + 1, FrameBytes) f == ReadFrame(s, line.at, line.val)
<1>1. m \in Nat /\ i \in Nat \ {0} /\ i \in 1..m + 1
  <2>1. m \in Nat BY LenProperties
  <2> HIDE DEF m
  <2> QED BY <2>1 DEF m
<1> HIDE DEF m
<1>2. a \in Nat /\ a + 2 >= i + 1 BY <1>1
<1>3. r = IF TwoAt(s, i) = DscTrailer THEN Broken("eof")
          ELSE IF line.st # "ok" THEN line
          ELSE IF Decodes(line.val) THEN Ok(line.at, <<line.val>>)
          ELSE IF line.val[1] # Begin THEN Broken("protocol")
          ELSE Delivered(f)
  <2>1. Len(DscPreamble) = 2 BY DEF DscPreamble
  <2>2. a + 1 = IF TwoAt(s, i) = DscPreamble THEN i + 2 ELSE i BY <1>1
  <2> HIDE DEF a
  <2> QED BY <2>1, <2>2 DEF ReadControlUnit, TwoAt
<1> HIDE DEF a
<1>4. /\ line.st \in {"ok", "eof", "limit"}
      /\ line.st = "ok" => line.at \in a + 2..m + 1 /\ line.val \in Seq(Nat) /\ Len(line.val) \in Nat \ {0}
  <2> HIDE DEF line
  <2>1. line = BoundedLine(s, a + 1, FrameBytes) BY DEF line
  <2> QED BY <1>2, <2>1, LineFrom DEF m
<1> HIDE DEF line
<1>5. line.st = "ok" => FrameIn(f, s, line.at - 1, line.val[2]) /\ line.at - 1 \in i..m /\ line.at \in i + 1..m + 1
  <2> SUFFICES ASSUME line.st = "ok"
               PROVE  FrameIn(f, s, line.at - 1, line.val[2]) /\ line.at - 1 \in i..m /\ line.at \in i + 1..m + 1
    OBVIOUS
  <2> DEFINE q == line.at - 1 begin == line.val
  <2>1. begin \in Seq(Nat) /\ line.at \in a + 2..m + 1 BY <1>4
  <2>2. q \in 0..m /\ q + 1 = line.at /\ q \in i..m /\ line.at \in i + 1..m + 1 BY <1>1, <1>2, <2>1
  <2> HIDE DEF q, begin
  <2>3. f = ReadFrame(s, q + 1, begin) BY <2>2 DEF begin
  <2> HIDE DEF f
  <2>4. q \in 0..Len(s) BY <2>2 DEF m
  <2>5. FrameIn(f, s, q, begin[2]) BY <2>1, <2>3, <2>4, FrameTyped
  <2> QED BY <2>2, <2>5 DEF q, begin
<1> HIDE DEF f
<1>6. \A why : Broken(why).st = why /\ Broken(why).val \in Seq(Told) BY DEF Broken
<1>7. \A at, val : Ok(at, val).st = "ok" /\ Ok(at, val).at = at /\ Ok(at, val).val = val BY DEF Ok
<1>8. CASE TwoAt(s, i) = DscTrailer BY <1>3, <1>6, <1>8 DEF States
<1>9. CASE TwoAt(s, i) # DscTrailer /\ line.st # "ok"
  <2>1. r = line BY <1>3, <1>9
  <2>2. line.val = <<>> BY <1>9, LineBroken DEF line
  <2> QED BY <1>4, <1>9, <2>1, <2>2 DEF States
<1>10. CASE TwoAt(s, i) # DscTrailer /\ line.st = "ok" /\ Decodes(line.val)
  <2> DEFINE v == line.val
  <2>1. r = Ok(line.at, <<v>>) BY <1>3, <1>10
  <2>2. v \in Told BY <1>4, <1>10 DEF Told
  <2> HIDE DEF v
  <2>3. <<v>> \in Seq(Told) BY <2>2
  <2>4. r.st = "ok" /\ r.at = line.at /\ r.val = <<v>> BY <1>7, <2>1
  <2>5. r.at \in i + 1..m + 1 BY <1>5, <1>10, <2>4
  <2> QED BY <2>3, <2>4, <2>5 DEF States, m
<1>11. CASE TwoAt(s, i) # DscTrailer /\ line.st = "ok" /\ ~Decodes(line.val) /\ line.val[1] # Begin
  <2>1. r = Broken("protocol") BY <1>3, <1>11
  <2> QED BY <1>6, <2>1 DEF States
<1>12. CASE TwoAt(s, i) # DscTrailer /\ line.st = "ok" /\ ~Decodes(line.val) /\ line.val[1] = Begin
  <2>1. r = Delivered(f) BY <1>3, <1>12
  <2> DEFINE q == line.at - 1 id == line.val[2]
  <2>2. FrameIn(f, s, q, id) /\ q \in i..m BY <1>5, <1>12
  <2> HIDE DEF q, id
  <2>3. /\ f.st \in States /\ f.at \in q + 1..m + 1 /\ f.id = id /\ f.data \in Seq(Nat) /\ f.failed \in BOOLEAN
        /\ f.notes \in Seq(Seq(Nat)) /\ (f.st = "ok" => id \in Nat)
    BY <2>2 DEF FrameIn, Frames, m
  <2>6. f.notes \in Seq(Told)
    <3> DEFINE X == Seq(Nat) notes == f.notes
    <3>1. notes \in Seq(X) /\ X \subseteq Told BY <2>3 DEF Told
    <3> HIDE DEF X, notes
    <3>2. notes \in Seq(Told) BY <3>1, SeqMonotonic
    <3> QED BY <3>2 DEF notes
  <2>4. CASE f.st # "ok"
    <3>1. r = [st |-> f.st, val |-> f.notes] BY <2>1, <2>4 DEF Delivered
    <3>2. r.st = f.st /\ r.val = f.notes BY <3>1
    <3> QED BY <2>3, <2>4, <2>6, <3>2
  <2>5. CASE f.st = "ok"
    <3> DEFINE end == [id |-> f.id, data |-> f.data, failed |-> f.failed] val == Append(f.notes, end)
    <3>1. r = Ok(f.at, val) BY <2>1, <2>5 DEF Delivered
    <3>2. end \in Told BY <2>3, <2>5 DEF Told
    <3> HIDE DEF end
    <3>4. val \in Seq(Told) BY <2>6, <3>2
    <3> HIDE DEF val
    <3>5. r.st = "ok" /\ r.at = f.at /\ r.val = val BY <1>7, <3>1
    <3>6. r.at \in i + 1..m + 1 BY <1>1, <2>2, <2>3, <3>5
    <3> QED BY <3>4, <3>5, <3>6 DEF States, m
  <2> QED BY <2>4, <2>5
<1> QED BY <1>8, <1>9, <1>10, <1>11, <1>12

FromUnit(s, i, f) ==
    IF ReadControlUnit(s, i).st = "ok" THEN ReadControlUnit(s, i).val \o f[ReadControlUnit(s, i).at]
    ELSE Append(ReadControlUnit(s, i).val, ReadControlUnit(s, i).st)
UnitsFrom(f, s) == f = [i \in 1..Len(s) + 1 |-> FromUnit(s, i, f)]

LEMMA UnitsExist == ASSUME NEW s \in Seq(Nat) PROVE \E f : UnitsFrom(f, s)
<1> DEFINE n == Len(s)
           P(f, k) == \A i \in n + 2 - k..n + 1 : f[i] = FromUnit(s, i, f)
           S == {k \in Nat : k <= n + 1 => \E f : DOMAIN f = 1..n + 1 /\ P(f, k)}
<1>0. n \in Nat BY LenProperties
<1>1. 0 \in S
  <2> DEFINE f == [i \in 1..n + 1 |-> <<>>]
  <2>1. \A i \in n + 2 - 0..n + 1 : FALSE
    <3> HIDE DEF n
    <3> QED BY <1>0
  <2>2. P(f, 0) BY <2>1
  <2> QED BY <2>2
<1>2. ASSUME NEW m \in Nat \ {0}, m - 1 \in S PROVE m \in S
  <2> SUFFICES ASSUME m <= n + 1 PROVE \E f : DOMAIN f = 1..n + 1 /\ P(f, m) OBVIOUS
  <2>1. PICK f : DOMAIN f = 1..n + 1 /\ P(f, m - 1)
    <3>1. m - 1 <= n + 1
      <4> HIDE DEF n
      <4> QED BY <1>0
    <3> QED BY <1>2, <3>1
  <2> DEFINE q == n + 2 - m
             g == [i \in 1..n + 1 |-> IF i = q THEN FromUnit(s, i, f) ELSE f[i]]
  <2>2. q \in 1..n + 1 /\ n + 2 - (m - 1) = q + 1
    <3> HIDE DEF n
    <3> QED BY <1>0
  <2>3. \A i \in q + 1..n + 1 : i \in 1..n + 1 /\ g[i] = f[i]
    <3> HIDE DEF n
    <3> QED BY <1>0, <2>2
  <2>4. \A i \in q..n + 1 : FromUnit(s, i, g) = FromUnit(s, i, f)
    <3> SUFFICES ASSUME NEW i \in q..n + 1 PROVE FromUnit(s, i, g) = FromUnit(s, i, f) OBVIOUS
    <3> HIDE DEF g, q
    <3>1. CASE ReadControlUnit(s, i).st = "ok"
      <4> DEFINE r == ReadControlUnit(s, i)
      <4>1. i \in 1..n + 1 BY <1>0, <2>2
      <4>2. r.at \in i + 1..n + 1 BY <3>1, <4>1, UnitFrom
      <4>3. r.at \in q + 1..n + 1
        <5> HIDE DEF r, n
        <5> QED BY <1>0, <2>2, <4>1, <4>2
      <4>4. g[r.at] = f[r.at] BY <2>3, <4>3
      <4> QED BY <3>1, <4>4 DEF FromUnit
    <3>2. CASE ReadControlUnit(s, i).st # "ok" BY <3>2 DEF FromUnit
    <3> QED BY <3>1, <3>2
  <2>5. \A i \in q..n + 1 : g[i] = FromUnit(s, i, g)
    <3> SUFFICES ASSUME NEW i \in q..n + 1 PROVE g[i] = FromUnit(s, i, f) BY <2>4
    <3>1. CASE i = q
      <4>1. i \in 1..n + 1 BY <2>2, <3>1
      <4> QED BY <3>1, <4>1
    <3>2. CASE i # q
      <4>1. i \in q + 1..n + 1
        <5> HIDE DEF n, q
        <5> QED BY <1>0, <2>2, <3>2
      <4>2. f[i] = FromUnit(s, i, f) BY <2>1, <2>2, <4>1
      <4> QED BY <2>3, <4>1, <4>2
    <3> QED BY <3>1, <3>2
  <2>6. DOMAIN g = 1..n + 1 OBVIOUS
  <2> HIDE DEF g
  <2> QED BY <2>5, <2>6
<1>3. Nat \subseteq S
  <2> HIDE DEF S
  <2> QED BY <1>1, <1>2, UpToAll
<1>4. PICK f : DOMAIN f = 1..n + 1 /\ P(f, n + 1)
  <2>1. n + 1 \in S
    <3>1. n + 1 \in Nat BY <1>0
    <3> HIDE DEF S
    <3> QED BY <1>3, <3>1
  <2>2. n + 1 <= n + 1
    <3> HIDE DEF n
    <3> QED BY <1>0
  <2> QED BY <2>1, <2>2
<1>5. n + 2 - (n + 1) = 1
  <2> HIDE DEF n
  <2> QED BY <1>0
<1>6. \A i \in 1..n + 1 : f[i] = FromUnit(s, i, f) BY <1>4, <1>5
<1> DEFINE g == [i \in 1..n + 1 |-> f[i]]
<1>7. \A i \in 1..n + 1 : FromUnit(s, i, g) = FromUnit(s, i, f)
  <2> SUFFICES ASSUME NEW i \in 1..n + 1 PROVE FromUnit(s, i, g) = FromUnit(s, i, f) OBVIOUS
  <2>1. \A j \in 1..n + 1 : g[j] = f[j] OBVIOUS
  <2> HIDE DEF g
  <2>2. CASE ReadControlUnit(s, i).st = "ok"
    <3> DEFINE r == ReadControlUnit(s, i)
    <3>1. r.at \in i + 1..n + 1 BY <2>2, UnitFrom
    <3>2. r.at \in 1..n + 1
      <4> HIDE DEF r, n
      <4> QED BY <1>0, <3>1
    <3>3. g[r.at] = f[r.at] BY <2>1, <3>2
    <3> QED BY <2>2, <3>3 DEF FromUnit
  <2>3. CASE ReadControlUnit(s, i).st # "ok" BY <2>3 DEF FromUnit
  <2> QED BY <2>2, <2>3
<1>8. g = [i \in 1..n + 1 |-> FromUnit(s, i, g)]
  <2>1. \A i \in 1..n + 1 : g[i] = FromUnit(s, i, g) BY <1>6, <1>7
  <2>2. g = [i \in 1..n + 1 |-> g[i]] OBVIOUS
  <2> HIDE DEF g
  <2> QED BY <2>1, <2>2
<1> QED BY <1>8 DEF UnitsFrom

\* f[i]: what becomes of the stream from i on.
Unravels(f, s) == /\ \A i \in 1..Len(s) + 1 : f[i] = FromUnit(s, i, f)
                  /\ \A i \in 1..Len(s) + 1 : f[i] \in Seq(Told)

LEMMA UnitsFound == ASSUME NEW s \in Seq(Nat) PROVE \E f : Unravels(f, s) /\ Units(s) = f[1]
<1> DEFINE F(g) == [i \in 1..Len(s) + 1 |->
                OrEnd(ReadControlUnit(s, i), LAMBDA at, units : units \o g[at])]
           f == CHOOSE g : g = F(g) n == Len(s)
<1>1. \A g : UnitsFrom(g, s) <=> g = F(g) BY DEF UnitsFrom, FromUnit, OrEnd
<1>2. Units(s) = f[1] BY DEF Units
<1>3. \E g : g = F(g)
  <2> HIDE DEF F
  <2> QED BY <1>1, UnitsExist
<1>4. f = F(f)
  <2> HIDE DEF F
  <2> QED BY <1>3
<1>5. UnitsFrom(f, s) BY <1>1, <1>4
<1> HIDE DEF f
<1>6. \A i \in 1..n + 1 : f[i] = FromUnit(s, i, f) BY <1>5 DEF UnitsFrom
<1>7. n \in Nat BY LenProperties
<1> DEFINE S == {k \in Nat : \A i \in n + 2 - k..n + 1 : i >= 1 => f[i] \in Seq(Told)}
<1>8. 0 \in S
  <2> HIDE DEF n
  <2> QED BY <1>7
<1>9. ASSUME NEW m \in Nat \ {0}, m - 1 \in S PROVE m \in S
  <2> SUFFICES ASSUME NEW i \in n + 2 - m..n + 1, i >= 1 PROVE f[i] \in Seq(Told) OBVIOUS
  <2> DEFINE r == ReadControlUnit(s, i)
  <2>1. i \in 1..n + 1
    <3> HIDE DEF n
    <3> QED BY <1>7
  <2>2. /\ r.st \in States
        /\ r.st = "ok" => r.at \in i + 1..n + 1
        /\ r.val \in Seq(Told)
    <3> HIDE DEF r
    <3>1. r = ReadControlUnit(s, i) BY DEF r
    <3> QED BY <2>1, <3>1, UnitFrom
  <2>3. f[i] = IF r.st = "ok" THEN r.val \o f[r.at] ELSE Append(r.val, r.st) BY <1>6, <2>1 DEF FromUnit
  <2> HIDE DEF r
  <2>4. CASE r.st = "ok"
    <3> DEFINE v == r.val w == f[r.at]
    <3>1. r.at \in n + 2 - (m - 1)..n + 1 /\ r.at >= 1
      <4> HIDE DEF n
      <4> QED BY <1>7, <2>1, <2>2, <2>4
    <3>2. v \in Seq(Told) /\ w \in Seq(Told) BY <1>9, <2>2, <2>4, <3>1
    <3>3. f[i] = v \o w BY <2>3, <2>4
    <3> HIDE DEF v, w
    <3> QED BY <3>2, <3>3
  <2>5. CASE r.st # "ok"
    <3> DEFINE st == r.st v == r.val
    <3>1. st \in Told
      <4>1. st \in States BY <2>2
      <4> HIDE DEF st
      <4>2. States \subseteq Told BY DEF Told
      <4> QED BY <4>1, <4>2
    <3>2. f[i] = Append(v, st) /\ v \in Seq(Told) BY <2>2, <2>3, <2>5
    <3> HIDE DEF st, v
    <3> QED BY <3>1, <3>2
  <2> QED BY <2>4, <2>5
<1>10. Nat \subseteq S
  <2> HIDE DEF S
  <2> QED BY <1>8, <1>9, UpToAll
<1>11. \A i \in 1..n + 1 : f[i] \in Seq(Told)
  <2>1. n + 1 \in S
    <3>1. n + 1 \in Nat BY <1>7
    <3> HIDE DEF S
    <3> QED BY <1>10, <3>1
  <2>2. \A i \in 1..n + 1 : i \in n + 2 - (n + 1)..n + 1 /\ i >= 1
    <3> HIDE DEF n
    <3> QED BY <1>7
  <2> QED BY <2>1, <2>2
<1> QED BY <1>2, <1>6, <1>11 DEF Unravels

-----------------------------------------------------------------------------
(* A script.                                                                *)
LEMMA ItemTyped ==
    ASSUME NEW item, IsItem(item), NEW v, v = ItemBytes(item)
    PROVE  /\ v \in Seq(Nat) /\ Len(v) \in Nat \ {0} /\ v[1] \in {Begin, Note} /\ Meant(item) \in Seq(Told)
<1>0. Seq(Nat) \subseteq Told BY DEF Told
<1>1. CASE item.kind = "note"
  <2>1. IsLine(item.text) /\ v = <<Note>> \o item.text \o <<LF>> BY <1>1 DEF IsItem, ItemBytes, PieceBytes
  <2>2. IsLineText(v) /\ v[1] = Note BY <2>1, NoteLine
  <2>3. v \in Seq(Nat) /\ Len(v) \in Nat \ {0} BY <2>2 DEF IsLineText
  <2>4. Meant(item) = <<v>> BY <1>1 DEF Meant, ItemBytes
  <2>5. v \in Told BY <1>0, <2>3
  <2>6. <<v>> \in Seq(Told) BY <2>5
  <2> QED BY <2>2, <2>3, <2>4, <2>6
<1>2. CASE item.kind = "frame"
  <2>1. IsFrame(item) BY <1>2 DEF IsFrame
  <2>2. PICK K, b, d, o : Laid(item, K, b, d, o) BY <2>1, FrameLaid
  <2> DEFINE N == Len(b[K])
  <2>3. v \in Seq(Nat) /\ N \in Nat /\ Len(v) = 3 + N + 3 /\ v[1] = Begin
    <3>1. 0 \in Nat OBVIOUS
    <3> QED BY <2>1, <2>2, <3>1, FrameInSight
  <2> DEFINE data == Data(item, Pieces(item)) notes == Notes(item, Pieces(item)) X == Seq(Nat)
             end == [id |-> item.id, data |-> data, failed |-> item.failed]
  <2>4. data \in Seq(Nat) /\ notes \in Seq(X)
    <3>1. K \in 0..K /\ Pieces(item) = K BY <1>2, <2>2 DEF Laid, Pieces
    <3>2. d[K] \in Seq(Nat) /\ o[K] \in Seq(X) BY <2>2, <3>1 DEF Laid, Concatenates
    <3> QED BY <2>2, <3>1, <3>2 DEF Laid
  <2>5. Meant(item) = Append(notes, end) BY <1>2 DEF Meant
  <2> HIDE DEF N, data, notes
  <2>6. end \in Told BY <1>2, <2>4 DEF Told, IsItem
  <2>7. notes \in Seq(Told)
    <3>1. X \subseteq Told BY <1>0
    <3> HIDE DEF X
    <3> QED BY <2>4, <3>1, SeqMonotonic
  <2> HIDE DEF end
  <2>8. Append(notes, end) \in Seq(Told) BY <2>6, <2>7
  <2> DEFINE n == Len(v)
  <2>9. n \in Nat \ {0}
    <3>1. n = 3 + N + 3 BY <2>3
    <3> HIDE DEF n
    <3> QED BY <2>3, <3>1
  <2> QED BY <2>3, <2>5, <2>8, <2>9
<1> QED BY <1>1, <1>2 DEF IsItem

IsScript(scr, N) == N \in Nat \ {0} /\ N = Len(scr) /\ \A i \in 1..N : IsItem(scr[i])

ItemParts(scr, N)  == [i \in 1..N |-> ItemBytes(scr[i])]
MeantParts(scr, N) == [i \in 1..N |-> Meant(scr[i])]
Meanings(scr, n)   == Concat([i \in 1..n |-> Meant(scr[i])])

\* b[k] and u[k]: what the first k items are, and mean.
Recounts(scr, N, b, u) ==
    /\ Concatenates(b, N, ItemParts(scr, N), Nat) /\ Concatenates(u, N, MeantParts(scr, N), Told)
    /\ \A k \in 0..N : b[k] = ScriptBytes(scr, k) /\ u[k] = Meanings(scr, k)

LEMMA ScriptLaid ==
    ASSUME NEW scr, NEW N, IsScript(scr, N) PROVE \E b, u : Recounts(scr, N, b, u)
<1> DEFINE B == ItemParts(scr, N) U == MeantParts(scr, N)
<1>1. N \in Nat /\ \A i \in 1..N : IsItem(scr[i]) BY DEF IsScript
<1>2. \A i \in 1..N : ItemBytes(scr[i]) \in Seq(Nat) /\ Meant(scr[i]) \in Seq(Told) BY <1>1, ItemTyped
<1>3. PartsIn(B, N, Nat) BY <1>2 DEF PartsIn, ItemParts
<1>4. PartsIn(U, N, Told) BY <1>2 DEF PartsIn, MeantParts
<1>5. \A k \in 0..N : /\ ScriptBytes(scr, k) = Concat([i \in 1..k |-> B[i]])
                      /\ Meanings(scr, k) = Concat([i \in 1..k |-> U[i]])
  <2> SUFFICES ASSUME NEW k \in 0..N
               PROVE  /\ ScriptBytes(scr, k) = Concat([i \in 1..k |-> B[i]])
                      /\ Meanings(scr, k) = Concat([i \in 1..k |-> U[i]])
    OBVIOUS
  <2>1. \A i \in 1..k : i \in 1..N BY <1>1
  <2>2. \A i \in 1..k : B[i] = ItemBytes(scr[i]) /\ U[i] = Meant(scr[i]) BY <2>1 DEF ItemParts, MeantParts
  <2> HIDE DEF B, U
  <2>3. [i \in 1..k |-> B[i]] = [i \in 1..k |-> ItemBytes(scr[i])] BY <2>2
  <2>4. [i \in 1..k |-> U[i]] = [i \in 1..k |-> Meant(scr[i])] BY <2>2
  <2> QED BY <2>3, <2>4 DEF ScriptBytes, Meanings
<1> HIDE DEF B, U
<1>6. PICK b : Concatenates(b, N, B, Nat) /\ \A k \in 0..N : Concat([i \in 1..k |-> B[i]]) = b[k]
  BY <1>1, <1>3, EachConcat
<1>7. PICK u : Concatenates(u, N, U, Told) /\ \A k \in 0..N : Concat([i \in 1..k |-> U[i]]) = u[k]
  BY <1>1, <1>4, EachConcat
<1>8. \A k \in 0..N : b[k] = ScriptBytes(scr, k) /\ u[k] = Meanings(scr, k) BY <1>5, <1>6, <1>7
<1> QED BY <1>6, <1>7, <1>8 DEF Recounts, B, U

\* The k-th item, in numbers.
ItemLies(scr, N, b, u, k) ==
    /\ b[k - 1] \in Seq(Nat) /\ Len(b[k - 1]) \in Nat /\ Len(b[k]) \in Nat /\ Len(b[N]) \in Nat
    /\ Len(ItemBytes(scr[k])) \in Nat \ {0} /\ Len(b[k]) = Len(b[k - 1]) + Len(ItemBytes(scr[k]))
    /\ Len(b[k]) <= Len(b[N])
    /\ \A j \in 1..Len(ItemBytes(scr[k])) : b[N][Len(b[k - 1]) + j] = ItemBytes(scr[k])[j]
    /\ u[k - 1] \in Seq(Told) /\ Meant(scr[k]) \in Seq(Told) /\ u[k] = u[k - 1] \o Meant(scr[k])

LEMMA ItemAt ==
    ASSUME NEW scr, NEW N, IsScript(scr, N), NEW b, NEW u, Recounts(scr, N, b, u), NEW k \in 1..N
    PROVE  ItemLies(scr, N, b, u, k)
<1> DEFINE B == ItemParts(scr, N) U == MeantParts(scr, N)
<1>1. N \in Nat /\ IsItem(scr[k]) BY DEF IsScript
<1>2. B[k] = ItemBytes(scr[k]) /\ U[k] = Meant(scr[k]) BY DEF ItemParts, MeantParts
<1>3. Concatenates(b, N, B, Nat) /\ Concatenates(u, N, U, Told) BY DEF Recounts
<1> HIDE DEF B, U
<1>4. PartSo(b, N, B, Nat, k) BY <1>1, <1>3, PartAt
<1>5. PartSo(u, N, U, Told, k) BY <1>1, <1>3, PartAt
<1>6. Len(ItemBytes(scr[k])) \in Nat \ {0} /\ Meant(scr[k]) \in Seq(Told) BY <1>1, ItemTyped
<1> QED BY <1>2, <1>4, <1>5, <1>6 DEF PartSo, ItemLies

\* s begins with the first D symbols of a preamble's two, and goes on as far as it goes with the
\* script and the tail, of which d is what the reader has left of the preamble.
Begins(s, D) == D = 0 \/ (D = 2 /\ 2 <= Len(s) /\ s[1] = Esc /\ s[2] = DcsP)

\* Where the unit after the first k items is taken from.
UnitAt(D, b, k) == IF k = 0 THEN 1 ELSE D + Len(b[k]) + 1

LEMMA PairIs == ASSUME NEW t \in Seq(Nat), Len(t) = 2, NEW x, NEW y, t[1] = x, t[2] = y PROVE t = <<x, y>>
<1>1. x \in Nat /\ y \in Nat
  <2>1. 1 \in 1..Len(t) /\ 2 \in 1..Len(t) OBVIOUS
  <2> QED BY <2>1, ElementOfSeq
<1> DEFINE e == <<x, y>>
<1>2. e \in Seq(Nat) /\ Len(e) = 2 /\ e[1] = x /\ e[2] = y BY <1>1
<1> HIDE DEF e
<1>3. \A i \in 1..2 : i = 1 \/ i = 2 OBVIOUS
<1>4. \A i \in 1..Len(t) : t[i] = e[i] BY <1>2, <1>3
<1>5. t = e BY <1>2, <1>4, SeqEqual
<1> QED BY <1>5 DEF e

\* The k-th item, v, stands where the units before it end.
UnitStands(s, D, b, k, v) ==
    LET q == D + Len(b[k - 1])
        a == UnitAt(D, b, k - 1)
    IN /\ q \in 0..Len(s) /\ AsFar(s, q, v)
       /\ StartOf(s, a) = q + 1 /\ TwoAt(s, a) # DscTrailer

LEMMA UnitStarts ==
    ASSUME NEW s \in Seq(Nat), NEW D, Begins(s, D), NEW scr, NEW N, IsScript(scr, N), NEW b, NEW u,
           Recounts(scr, N, b, u), AsFar(s, D, b[N]), NEW k \in 1..N, D + Len(b[k - 1]) <= Len(s)
    PROVE  UnitStands(s, D, b, k, ItemBytes(scr[k]))
<1> DEFINE q == D + Len(b[k - 1]) a == UnitAt(D, b, k - 1)
<1> SUFFICES /\ q \in 0..Len(s) /\ AsFar(s, q, ItemBytes(scr[k]))
             /\ StartOf(s, a) = q + 1 /\ TwoAt(s, a) # DscTrailer
  BY DEF UnitStands
<1>0. q <= Len(s) /\ q = D + Len(b[k - 1]) /\ a = UnitAt(D, b, k - 1) OBVIOUS
<1> HIDE DEF q, a
<1> DEFINE m == Len(s) x == Len(b[k - 1]) v == ItemBytes(scr[k]) n == Len(v)
<1>1. m \in Nat /\ D \in Nat BY LenProperties DEF Begins
<1>2. ItemLies(scr, N, b, u, k) BY ItemAt
<1>3. /\ x \in Nat /\ Len(b[k]) \in Nat /\ Len(b[N]) \in Nat /\ n \in Nat \ {0} /\ Len(b[k]) = x + n
      /\ Len(b[k]) <= Len(b[N]) /\ \A j \in 1..n : b[N][x + j] = v[j]
  BY <1>2 DEF ItemLies
<1>4. v[1] \in {Begin, Note} BY ItemTyped DEF IsScript
<1>5. AsFar(s, q, v)
  <2> DEFINE w == b[N]
  <2>1. x + Len(v) <= Len(w) /\ Len(v) \in Nat /\ Len(w) \in Nat /\ (\A j \in 1..Len(v) : w[x + j] = v[j])
    BY <1>3
  <2>2. AsFar(s, D, w) OBVIOUS
  <2> HIDE DEF w, v, x
  <2>3. AsFar(s, D + x, v) BY <1>1, <1>3, <2>1, <2>2, AsFarPart
  <2> QED BY <1>0, <2>3 DEF x
<1>6. q \in 0..m
  <2> HIDE DEF x, m
  <2>1. q = D + x /\ q <= m BY <1>0 DEF x, m
  <2> QED BY <1>1, <1>3, <2>1
<1>7. q + 1 <= m => s[q + 1] # Esc
  <2> SUFFICES ASSUME q + 1 <= m PROVE s[q + 1] # Esc OBVIOUS
  <2>1. 1 \in 1..n BY <1>3
  <2>2. s[q + 1] = v[1] BY <1>5, <2>1 DEF AsFar
  <2> QED BY <1>4, <2>2 DEF Begin, Note, Esc
<1>8. TwoAt(s, q + 1) # DscPreamble /\ TwoAt(s, q + 1) # DscTrailer BY <1>6, <1>7, NoEscape
<1>9. CASE k - 1 = 0 /\ D = 2
  <2>1. b[k - 1] = <<>> BY <1>9 DEF Recounts, Concatenates
  <2>2. x = 0 BY <2>1
  <2>3. q = 2 /\ a = 1 BY <1>0, <1>9, <2>2 DEF UnitAt
  <2>4. 0 \in 0..Len(s) /\ 0 + 2 <= Len(s) /\ 0 + 1 = 1 /\ 0 + 2 = 2 BY <1>1, <1>9 DEF Begins
  <2> DEFINE t == TwoAt(s, 1)
  <2>5. Len(t) = 2 /\ t \in Seq(Nat) /\ t[1] = s[1] /\ t[2] = s[2]
    <3> DEFINE z == 0
    <3>1. z \in 0..Len(s) /\ z + 2 <= Len(s) /\ z + 1 = 1 /\ z + 2 = 2 BY <2>4
    <3> HIDE DEF z
    <3>2. /\ Len(TwoAt(s, z + 1)) = 2 /\ TwoAt(s, z + 1) \in Seq(Nat)
          /\ TwoAt(s, z + 1)[1] = s[z + 1] /\ TwoAt(s, z + 1)[2] = s[z + 2]
      BY <3>1, TwoAre
    <3> QED BY <3>1, <3>2
  <2>6. s[1] = Esc /\ s[2] = DcsP BY <1>9 DEF Begins
  <2> HIDE DEF t
  <2>7. t = DscPreamble BY <2>5, <2>6, PairIs DEF DscPreamble
  <2>8. t # DscTrailer
    <3>1. DscTrailer[2] = Backslash BY DEF DscTrailer
    <3> QED BY <2>5, <2>6, <3>1 DEF DcsP, Backslash
  <2>9. StartOf(s, a) = q + 1 BY <2>3, <2>7 DEF StartOf, t
  <2> QED BY <1>5, <1>6, <2>3, <2>8, <2>9 DEF t
<1>10. CASE ~(k - 1 = 0 /\ D = 2)
  <2>1. a = q + 1
    <3>1. CASE k - 1 = 0
      <4>1. b[k - 1] = <<>> BY <3>1 DEF Recounts, Concatenates
      <4>2. x = 0 BY <4>1
      <4>3. D = 0 BY <1>10, <3>1 DEF Begins
      <4> QED BY <1>0, <3>1, <4>2, <4>3 DEF UnitAt
    <3>2. CASE k - 1 # 0 BY <1>0, <3>2 DEF UnitAt
    <3> QED BY <3>1, <3>2
  <2>2. StartOf(s, a) = q + 1 BY <1>8, <2>1 DEF StartOf
  <2> QED BY <1>5, <1>6, <1>8, <2>1, <2>2
<1> QED BY <1>9, <1>10

\* What is left of the end of a connection.
LEMMA TailEnds ==
    ASSUME NEW s \in Seq(Nat), NEW q \in 0..Len(s), Len(s) <= q + 2, AsFar(s, q, DscTrailer)
    PROVE  ReadControlUnit(s, q + 1).st = "eof" /\ ReadControlUnit(s, q + 1).val = <<>>
<1> DEFINE m == Len(s) t == TwoAt(s, q + 1) r == ReadControlUnit(s, q + 1)
<1>1. m \in Nat /\ q \in Nat /\ q <= m /\ m <= q + 2 /\ FrameBytes \in Nat \ {0}
  <2>1. m \in Nat BY LenProperties
  <2> HIDE DEF m
  <2> QED BY <2>1, CodecNumbers DEF m
<1>2. /\ q + 2 <= m => Len(t) = 2 /\ t \in Seq(Nat) /\ t[1] = s[q + 1] /\ t[2] = s[q + 2]
      /\ ~(q + 2 <= m) => Len(t) = m - q
  BY TwoAre
<1>3. Len(DscTrailer) = 2 /\ DscTrailer[1] = Esc /\ DscTrailer[2] = Backslash /\ Len(DscPreamble) = 2
  BY DEF DscTrailer, DscPreamble
<1> HIDE DEF m
<1>4. \A j \in 1..2 : q + j <= m => s[q + j] = DscTrailer[j] BY <1>3 DEF AsFar, m
<1>5. CASE q + 2 <= m
  <2>1. s[q + 1] = Esc /\ s[q + 2] = Backslash
    <3>1. q + 1 <= m BY <1>1, <1>5
    <3>2. 1 \in 1..2 /\ 2 \in 1..2 OBVIOUS
    <3> QED BY <1>3, <1>4, <1>5, <3>1, <3>2
  <2> HIDE DEF t
  <2>2. t = DscTrailer BY <1>2, <1>5, <2>1, PairIs DEF DscTrailer
  <2>3. r = Broken("eof") BY <2>2 DEF ReadControlUnit, t, TwoAt
  <2> QED BY <2>3 DEF Broken
<1>6. CASE ~(q + 2 <= m)
  <2> DEFINE l == Len(t) line == BoundedLine(s, q + 1, FrameBytes)
  <2>1. l # 2
    <3>1. l = m - q BY <1>2, <1>6
    <3> HIDE DEF l
    <3> QED BY <1>1, <1>6, <3>1
  <2>2. t # DscTrailer /\ t # DscPreamble BY <1>3, <2>1
  <2>3. \A i \in q + 1..Len(s) : s[i] # LF
    <3> SUFFICES ASSUME NEW i \in q + 1..m PROVE s[i] # LF BY DEF m
    <3>1. i = q + 1 /\ q + 1 <= m BY <1>1, <1>6
    <3>2. 1 \in 1..2 OBVIOUS
    <3>3. s[i] = Esc BY <1>3, <1>4, <3>1, <3>2
    <3> QED BY <3>3 DEF Esc, LF
  <2>4. FrameBytes \in Int /\ FrameBytes > 0 /\ Len(s) - q <= FrameBytes
    <3>1. m - q <= FrameBytes BY <1>1, <1>6
    <3> QED BY <1>1, <3>1 DEF m
  <2>5. line.st = "eof" /\ line.val = <<>> BY <2>3, <2>4, LineCut, LineBroken
  <2> HIDE DEF l, line
  <2>6. r = line BY <2>2, <2>5 DEF ReadControlUnit, t, TwoAt, line
  <2> QED BY <2>5, <2>6
<1> QED BY <1>5, <1>6

\* The first n items are there and fit: they are read as what they mean.
UnitsStand(f, s, D, b, u, n) ==
    /\ f[1] = u[n] \o f[UnitAt(D, b, n)] /\ UnitAt(D, b, n) \in 1..Len(s) + 1
    /\ f[UnitAt(D, b, n)] \in Seq(Told) /\ u[n] \in Seq(Told)

LEMMA UnitsUpTo ==
    ASSUME NEW s \in Seq(Nat), NEW D, Begins(s, D), NEW scr, NEW N, IsScript(scr, N), NEW b, NEW u,
           Recounts(scr, N, b, u), AsFar(s, D, b[N]), NEW f, Unravels(f, s), NEW n \in 0..N,
           D + Len(b[n]) <= Len(s), \A i \in 1..n : Fits(scr[i])
    PROVE  UnitsStand(f, s, D, b, u, n)
<1> DEFINE m == Len(s) P(k) == UnitAt(D, b, k)
           S == {k \in Nat : k <= n => f[1] = u[k] \o f[P(k)] /\ P(k) \in 1..m + 1 /\ D + Len(b[k]) <= m}
<1>1. m \in Nat /\ D \in Nat /\ N \in Nat BY LenProperties DEF Begins, IsScript
<1>2. \A k \in 0..N : Len(b[k]) \in Nat /\ u[k] \in Seq(Told)
  <2>1. \A k \in 0..N : b[k] \in Seq(Nat) /\ u[k] \in Seq(Told) BY DEF Recounts, Concatenates
  <2> QED BY <2>1, LenProperties
<1>3. \A i \in 1..m + 1 : f[i] \in Seq(Told) /\ f[i] = FromUnit(s, i, f) BY DEF Unravels
<1>4. \A k \in 1..n : Len(b[k]) <= Len(b[n])
  <2> DEFINE T == {j \in Nat : \A k \in 0..N : k + j <= N => Len(b[k]) <= Len(b[k + j])}
  <2>1. 0 \in T
    <3>1. \A k \in 0..N : k + 0 = k BY <1>1
    <3>2. \A k \in 0..N : Len(b[k]) <= Len(b[k]) BY <1>2
    <3> QED BY <3>1, <3>2
  <2>2. ASSUME NEW j \in Nat \ {0}, j - 1 \in T PROVE j \in T
    <3> SUFFICES ASSUME NEW k \in 0..N, k + j <= N PROVE Len(b[k]) <= Len(b[k + j]) OBVIOUS
    <3> DEFINE i == k + j h == i - 1
    <3>1. i \in 1..N /\ h = k + (j - 1) /\ h <= N /\ h \in 0..N /\ i \in 0..N BY <1>1
    <3>2. Len(b[k]) <= Len(b[h]) BY <2>2, <3>1
    <3>3. ItemLies(scr, N, b, u, i) BY <3>1, ItemAt
    <3> DEFINE x == Len(b[k]) y == Len(b[h]) z == Len(b[i]) l == Len(ItemBytes(scr[i]))
    <3>4. x \in Nat /\ y \in Nat /\ l \in Nat /\ z = y + l /\ x <= y BY <1>2, <3>1, <3>2, <3>3 DEF ItemLies
    <3> HIDE DEF x, y, z, l
    <3>5. x <= z BY <3>4
    <3> QED BY <3>5 DEF x, z
  <2>3. Nat \subseteq T
    <3> HIDE DEF T
    <3> QED BY <2>1, <2>2, UpToAll
  <2>4. \A k \in 1..n : n - k \in Nat /\ k \in 0..N /\ k + (n - k) = n /\ k + (n - k) <= N BY <1>1
  <2>5. \A k \in 1..n : n - k \in T BY <2>3, <2>4
  <2> QED BY <2>4, <2>5
<1>5. \A k \in 0..n : k \in 0..N BY <1>1
<1>6. n \in 0..N /\ n \in Nat OBVIOUS
<1>7. \A k \in 1..n : D + Len(b[k]) <= m
  <2> SUFFICES ASSUME NEW k \in 1..n PROVE D + Len(b[k]) <= m OBVIOUS
  <2> DEFINE x == Len(b[k]) y == Len(b[n])
  <2>1. k \in 0..N BY <1>1
  <2>2. x \in Nat /\ y \in Nat /\ x <= y /\ D + y <= m BY <1>2, <1>4, <1>6, <2>1
  <2> HIDE DEF x, y, m
  <2>3. D + x <= m BY <1>1, <2>2
  <2> QED BY <2>3 DEF x
<1>8. 0 \in S
  <2>1. b[0] = <<>> /\ u[0] = <<>> BY DEF Recounts, Concatenates
  <2>2. Len(b[0]) = 0 BY <2>1
  <2>3. P(0) = 1 /\ 1 \in 1..m + 1
    <3> HIDE DEF m
    <3> QED BY <1>1 DEF UnitAt
  <2>4. D + 0 <= m
    <3>1. D = 0 \/ (D = 2 /\ 2 <= m) BY DEF Begins
    <3> HIDE DEF m
    <3> QED BY <1>1, <3>1
  <2>5. f[1] = <<>> \o f[1]
    <3>1. f[1] \in Seq(Told) BY <1>3, <2>3
    <3> QED BY <3>1
  <2> QED BY <2>1, <2>2, <2>3, <2>4, <2>5
<1>9. ASSUME NEW k \in Nat \ {0}, k - 1 \in S PROVE k \in S
  <2> SUFFICES ASSUME k <= n PROVE f[1] = u[k] \o f[P(k)] /\ P(k) \in 1..m + 1 /\ D + Len(b[k]) <= m
    OBVIOUS
  <2> DEFINE j == k - 1 q == D + Len(b[j]) a == P(j) v == ItemBytes(scr[k]) l == Len(v)
             r == ReadControlUnit(s, a)
  <2>1. k \in 1..n /\ k \in 1..N /\ j <= n /\ j \in 0..N BY <1>1
  <2>2. f[1] = u[j] \o f[a] /\ a \in 1..m + 1 /\ q <= m BY <1>9, <2>1
  <2>3. D + Len(b[k]) <= m BY <1>7, <2>1
  <2> HIDE DEF m
  <2>4. ItemLies(scr, N, b, u, k) BY <2>1, ItemAt
  <2>5. Len(b[j]) \in Nat /\ l \in Nat \ {0} /\ Len(b[k]) = Len(b[j]) + l /\ Meant(scr[k]) \in Seq(Told)
        /\ u[j] \in Seq(Told) /\ u[k] = u[j] \o Meant(scr[k])
    BY <2>4 DEF ItemLies
  <2>6. q \in 0..Len(s) /\ AsFar(s, q, v) /\ StartOf(s, a) = q + 1 /\ TwoAt(s, a) # DscTrailer
    <3>1. UnitStands(s, D, b, k, ItemBytes(scr[k])) BY <2>1, <2>2, UnitStarts DEF m
    <3> QED BY <3>1 DEF UnitStands
  <2>7. IsItem(scr[k]) /\ Fits(scr[k]) BY <2>1 DEF IsScript
  <2>8. Sound(scr[k]) BY <2>7 DEF Sound
  <2> HIDE DEF q, a
  <2>9. UnitSo(r, s, q, scr[k], l) BY <2>6, <2>7, <2>8, UnitRead
  <2>10. q + l = D + Len(b[k]) /\ q + l <= m
    <3> DEFINE x == Len(b[j]) y == Len(b[k])
    <3>1. q = D + x /\ y = x + l /\ D + y <= m BY <2>3, <2>5 DEF q
    <3> HIDE DEF x, y, l, j
    <3>2. x \in Nat /\ l \in Nat BY <2>5 DEF x
    <3>3. q + l = D + y /\ q + l <= m BY <1>1, <3>1, <3>2
    <3> QED BY <3>3 DEF y
  <2>11. r = Ok(q + l + 1, Meant(scr[k])) BY <2>7, <2>9, <2>10 DEF UnitSo, m
  <2>12. P(k) = q + l + 1 BY <2>10 DEF UnitAt
  <2>13. r.st = "ok" /\ r.at = P(k) /\ r.val = Meant(scr[k]) BY <2>11, <2>12 DEF Ok
  <2>14. P(k) \in 1..m + 1
    <3> DEFINE p == P(k)
    <3>1. q \in Nat /\ l \in Nat BY <2>5, <2>6
    <3>2. p = q + l + 1 BY <2>12
    <3> HIDE DEF p, l
    <3>3. p \in 1..m + 1 BY <1>1, <2>10, <3>1, <3>2
    <3> QED BY <3>3 DEF p
  <2>15. f[a] = Meant(scr[k]) \o f[P(k)]
    <3>1. f[a] = FromUnit(s, a, f) BY <1>3, <2>2
    <3> HIDE DEF r, P
    <3> QED BY <2>13, <3>1 DEF FromUnit, r
  <2>16. f[1] = u[k] \o f[P(k)]
    <3> DEFINE x == u[j] y == Meant(scr[k]) z == f[P(k)]
    <3>1. x \in Seq(Told) /\ y \in Seq(Told) /\ z \in Seq(Told) BY <1>3, <2>5, <2>14
    <3>2. f[1] = x \o (y \o z) /\ u[k] = x \o y BY <2>2, <2>5, <2>15
    <3> HIDE DEF x, y, z
    <3>3. x \o (y \o z) = (x \o y) \o z BY <3>1, Retold
    <3> QED BY <3>2, <3>3 DEF z
  <2> QED BY <2>3, <2>14, <2>16
<1>10. Nat \subseteq S
  <2> HIDE DEF S
  <2> QED BY <1>8, <1>9, UpToAll
<1>11. n \in S BY <1>6, <1>10
<1>12. f[1] = u[n] \o f[P(n)] /\ P(n) \in 1..m + 1
  <2>1. n <= n BY <1>6
  <2> HIDE DEF P, m
  <2> QED BY <1>11, <2>1
<1> HIDE DEF P
<1> QED BY <1>2, <1>3, <1>12 DEF P, UnitsStand

LEMMA PrefixOfAll ==
    ASSUME NEW X, NEW N \in Nat, NEW part, NEW u, Concatenates(u, N, part, X), PartsIn(part, N, X), NEW k \in 0..N
    PROVE  u[k] \in Seq(X) /\ AsFar(u[N], 0, u[k]) /\ Len(u[k]) \in Nat /\ Len(u[N]) \in Nat
           /\ Len(u[k]) <= Len(u[N]) /\ \A j \in 1..Len(u[k]) : u[N][j] = u[k][j]
<1> DEFINE l == Len(u[k]) P(h) == l <= Len(u[h]) /\ \A j \in 1..l : u[h][j] = u[k][j]
           S == {i \in Nat : k + i <= N => P(k + i)}
<1>1. \A h \in 0..N : u[h] \in Seq(X) /\ Len(u[h]) \in Nat
  <2>1. \A h \in 0..N : u[h] \in Seq(X) BY DEF Concatenates
  <2> QED BY <2>1, LenProperties
<1>2. l \in Nat BY <1>1
<1>3. 0 \in S
  <2>1. k + 0 = k /\ l <= l BY <1>2
  <2>2. P(k) BY <2>1
  <2> HIDE DEF P
  <2> QED BY <2>1, <2>2
<1>4. ASSUME NEW i \in Nat \ {0}, i - 1 \in S PROVE i \in S
  <2> SUFFICES ASSUME k + i <= N PROVE P(k + i) OBVIOUS
  <2> DEFINE g == k + (i - 1) h == k + i
  <2>1. g \in 0..N /\ h \in 1..N /\ h - 1 = g /\ g <= N OBVIOUS
  <2>2. P(g) BY <1>4, <2>1
  <2>3. u[h] = u[g] \o part[h]
    <3>1. u[h] = u[h - 1] \o part[h] BY <2>1 DEF Concatenates
    <3> QED BY <2>1, <3>1
  <2>4. part[h] \in Seq(X) BY <2>1 DEF PartsIn
  <2> HIDE DEF g, h, l
  <2> DEFINE a == u[g] c == part[h] x == Len(a) y == Len(c) w == u[h]
  <2>5. Joint(w, a, c, x, y, X)
    <3>1. a \in Seq(X) /\ c \in Seq(X) /\ w = a \o c BY <1>1, <2>1, <2>3, <2>4
    <3> HIDE DEF a, c, w
    <3> QED BY <3>1, GluedAs
  <2>6. l <= x /\ \A j \in 1..l : a[j] = u[k][j] BY <2>2
  <2> HIDE DEF a, c, x, y, w
  <2>7. Len(w) = x + y /\ x \in Nat /\ y \in Nat /\ \A j \in 1..x : w[j] = a[j] BY <2>5 DEF Joint
  <2>8. \A j \in 1..l : j \in 1..x BY <1>2, <2>6, <2>7
  <2>9. \A j \in 1..l : w[j] = u[k][j] BY <2>6, <2>7, <2>8
  <2> DEFINE z == Len(w)
  <2>10. l <= z
    <3>1. z = x + y BY <2>7
    <3> HIDE DEF z
    <3> QED BY <1>2, <2>6, <2>7, <3>1
  <2> QED BY <2>9, <2>10 DEF w, h
<1>5. Nat \subseteq S
  <2> HIDE DEF S
  <2> QED BY <1>3, <1>4, UpToAll
<1>6. P(N)
  <2>1. N - k \in Nat /\ k + (N - k) = N OBVIOUS
  <2>2. N - k \in S BY <1>5, <2>1
  <2>3. k + (N - k) <= N BY <2>1
  <2>4. P(k + (N - k)) BY <2>2, <2>3
  <2> HIDE DEF P
  <2> QED BY <2>1, <2>4
<1>7. AsFar(u[N], 0, u[k])
  <2>1. \A j \in 1..l : 0 + j = j BY <1>2
  <2> QED BY <1>6, <2>1 DEF AsFar
<1> QED BY <1>1, <1>6, <1>7

WholeOf(R, scr, n) == StartsWith(R, ScriptBytes(scr, n)) /\ \A i \in 1..n : Fits(scr[i])

BegunAs(R, scr, n, k) ==
    /\ StartsWith(R, ScriptBytes(scr, n) \o HeaderOf(scr[n + 1]) \o Body(scr[n + 1], k))
    /\ PiecesFit(scr[n + 1], k)

\* FramesArrive, of the units that were made of what was received.
ArrivesAs(units, R, scr) ==
    \E n \in 0..Len(scr) :
        LET meant == Meanings(scr, n)
            next  == scr[n + 1]
        IN /\ WholeOf(R, scr, n)
           /\ n = Len(scr) => units = Append(meant, "eof")
           /\ n < Len(scr) =>
                /\ ~WholeOf(R, scr, n + 1)
                /\ \/ HoldsLine(next) /\ ~Fits(next) /\ StartsWith(units, meant)
                   \/ \E k \in 0..Pieces(next), why \in {"eof", "limit", "protocol"} :
                         /\ k > 0 => BegunAs(R, scr, n, k)
                         /\ k < Pieces(next) => ~BegunAs(R, scr, n, k + 1)
                         /\ StartsWith(R, ScriptBytes(scr, n + 1)) => why # "eof"
                         /\ units = Append(meant \o Notes(next, k), why)

\* R is what s holds after D symbols.
After2(s, D, R) == /\ s \in Seq(Nat) /\ R \in Seq(Nat) /\ D \in Nat /\ Len(s) = D + Len(R)
                   /\ \A j \in 1..Len(R) : s[D + j] = R[j]

LEMMA StartsIff ==
    ASSUME NEW s, NEW D, NEW R, After2(s, D, R), NEW v \in Seq(Nat), AsFar(s, D, v)
    PROVE  StartsWith(R, v) <=> D + Len(v) <= Len(s)
<1> DEFINE n == Len(v) m == Len(s) l == Len(R)
<1>1. n \in Nat /\ l \in Nat /\ m = D + l /\ D \in Nat
  <2>1. n \in Nat /\ l \in Nat BY LenProperties DEF After2
  <2> QED BY <2>1 DEF After2
<1>2. StartsWith(R, v) => n <= l BY DEF StartsWith
<1>3. ASSUME n <= l PROVE StartsWith(R, v)
  <2>1. \A j \in 1..n : R[0 + j] = v[j]
    <3> SUFFICES ASSUME NEW j \in 1..n PROVE R[j] = v[j] OBVIOUS
    <3>1. j \in 1..l /\ D + j <= m
      <4> HIDE DEF n, l, m
      <4> QED BY <1>1, <1>3
    <3>2. s[D + j] = R[j] BY <3>1 DEF After2
    <3>3. s[D + j] = v[j] BY <3>1 DEF AsFar
    <3> QED BY <3>2, <3>3
  <2>2. n \in 0..Len(v) BY <1>1
  <2>3. 0 \in Nat /\ 0 + 1 = 1 /\ 0 + n = n BY <1>1
  <2>4. SubSeq(v, 1, n) = v BY SubSeqFull
  <2> DEFINE z == 0 k == n
  <2>5. z \in Nat /\ z + 1 = 1 /\ z + k = n /\ k \in 0..Len(v) /\ \A j \in 1..k : R[z + j] = v[j] BY <2>1, <2>2, <2>3
  <2>6. k = n OBVIOUS
  <2> HIDE DEF z, k
  <2>7. SubSeq(R, z + 1, z + k) = SubSeq(v, 1, k) BY <2>5, CutOut
  <2>8. SubSeq(R, 1, n) = v BY <2>4, <2>5, <2>6, <2>7
  <2> QED BY <1>3, <2>8 DEF StartsWith
<1> HIDE DEF n, m, l
<1>4. n <= l <=> D + n <= m BY <1>1
<1> QED BY <1>2, <1>3, <1>4 DEF n, m

LEMMA AsFarGlued ==
    ASSUME NEW s, NEW p \in Nat, NEW x \in Seq(Nat), NEW y \in Seq(Nat), AsFar(s, p, x), AsFar(s, p + Len(x), y)
    PROVE  AsFar(s, p, x \o y)
<1> DEFINE w == x \o y a == Len(x) c == Len(y)
<1>1. Joint(w, x, y, a, c, Nat) BY GluedAs
<1> HIDE DEF w
<1>2. /\ a \in Nat /\ c \in Nat /\ Len(w) = a + c /\ (\A j \in 1..a : w[j] = x[j])
      /\ \A j \in 1..c : w[a + j] = y[j]
  BY <1>1 DEF Joint
<1> SUFFICES ASSUME NEW j \in 1..Len(w), p + j <= Len(s) PROVE s[p + j] = w[j] BY DEF AsFar, w
<1>3. (\A i \in 1..a : p + i <= Len(s) => s[p + i] = x[i])
      /\ \A i \in 1..c : (p + a) + i <= Len(s) => s[(p + a) + i] = y[i]
  BY DEF AsFar
<1> HIDE DEF a, c
<1>4. j \in 1..a \/ (j - a \in 1..c /\ (p + a) + (j - a) = p + j /\ a + (j - a) = j) BY <1>2
<1> DEFINE i == j - a
<1>5. j \in 1..a \/ (i \in 1..c /\ (p + a) + i = p + j /\ a + i = j) BY <1>4
<1> HIDE DEF i
<1>6. CASE j \in 1..a BY <1>2, <1>3, <1>6
<1>7. CASE i \in 1..c /\ (p + a) + i = p + j /\ a + i = j
  <2>1. w[a + i] = y[i] /\ s[(p + a) + i] = y[i] BY <1>2, <1>3, <1>7
  <2> QED BY <1>7, <2>1
<1> QED BY <1>5, <1>6, <1>7

\* A part of the frame that stands after w, in the stream and in what it holds after D symbols.
LEMMA BegunIff ==
    ASSUME NEW s, NEW D, NEW R, After2(s, D, R), NEW w \in Seq(Nat), AsFar(s, D, w), NEW item, IsFrame(item),
           NEW q, q = D + Len(w), AsFar(s, q, ItemBytes(item)), NEW k \in 0..Pieces(item)
    PROVE  There(s, q, item, k) <=> StartsWith(R, w \o HeaderOf(item) \o Body(item, k)) /\ PiecesFit(item, k)
<1>1. PICK K, b, d, o : Laid(item, K, b, d, o) BY FrameLaid
<1> DEFINE h == HeaderOf(item) z == b[k] B == BodyParts(item) c == w \o h v == c \o z l == Len(w) N == Len(z)
<1>2. K \in Nat /\ K = Pieces(item) /\ k \in 0..K /\ Body(item, k) = z
  <2>1. K \in Nat /\ K = Pieces(item) BY <1>1 DEF Laid, Pieces, IsFrame
  <2> QED BY <1>1, <2>1 DEF Laid
<1>3. D \in Nat /\ l \in Nat BY LenProperties DEF After2
<1>4. q \in Nat /\ q = D + l
  <2> HIDE DEF l
  <2>1. q = D + l BY DEF l
  <2> QED BY <1>3, <2>1
<1>5. AsFar(s, q, h) /\ AsFar(s, q + 3, b[K])
  <2> DEFINE t == ItemBytes(item)
  <2>1. AsFar(s, q, t) OBVIOUS
  <2> HIDE DEF t
  <2>2. FrameAhead(s, q, item, K, b) BY <1>1, <1>4, <2>1, FrameInSight DEF t
  <2> QED BY <2>2 DEF FrameAhead
<1>6. IsLineText(h) /\ Len(h) = 3 BY HeaderStands
<1>7. h \in Seq(Nat) BY <1>6 DEF IsLineText
<1>8. z \in Seq(Nat) /\ N \in Nat /\ Len(b[K]) \in Nat /\ N <= Len(b[K]) /\ \A j \in 1..N : b[K][j] = z[j]
  <2>1. Concatenates(b, K, B, Nat) BY <1>1 DEF Laid
  <2>2. PartsIn(B, K, Nat)
    <3>1. \A i \in 1..K : IsPiece(item.body[i]) BY <1>1 DEF Laid, IsFrame, IsItem
    <3>2. \A i \in 1..K : PieceBytes(item.body[i]) \in Seq(Nat) BY <3>1, PieceTyped
    <3> QED BY <1>1, <3>2 DEF PartsIn, BodyParts, Laid
  <2> HIDE DEF B
  <2> QED BY <1>2, <2>1, <2>2, PrefixOfAll
<1>9. AsFar(s, q + 3, z)
  <2> SUFFICES ASSUME NEW j \in 1..N, (q + 3) + j <= Len(s) PROVE s[(q + 3) + j] = z[j] BY DEF AsFar
  <2> DEFINE L == Len(b[K])
  <2>1. j \in 1..L
    <3>1. N \in Nat /\ L \in Nat /\ N <= L /\ j \in 1..N BY <1>8
    <3> HIDE DEF N, L
    <3> QED BY <3>1
  <2>2. s[(q + 3) + j] = b[K][j] BY <1>5, <2>1 DEF AsFar
  <2> QED BY <1>8, <2>2
<1> HIDE DEF h, z
<1>10. c \in Seq(Nat) /\ Len(c) = l + 3 /\ AsFar(s, D, c)
  <2>1. Joint(c, w, h, l, 3, Nat) BY <1>6, <1>7, GluedAs
  <2>2. AsFar(s, D + Len(w), h) BY <1>5
  <2>3. AsFar(s, D, c) BY <1>3, <1>7, <2>2, AsFarGlued
  <2> QED BY <2>1, <2>3 DEF Joint
<1> HIDE DEF c
<1>11. v \in Seq(Nat) /\ Len(v) = l + 3 + N /\ AsFar(s, D, v)
  <2> DEFINE e == Len(c)
  <2>1. Joint(v, c, z, e, N, Nat) BY <1>8, <1>10, GluedAs
  <2>2. e = l + 3 BY <1>10
  <2>3. D + e = q + 3
    <3> HIDE DEF e, l
    <3> QED BY <1>3, <1>4, <2>2
  <2>4. AsFar(s, D, v) BY <1>3, <1>8, <1>9, <1>10, <2>3, AsFarGlued
  <2>5. v \in Seq(Nat) /\ Len(v) = e + N BY <2>1 DEF Joint
  <2> HIDE DEF v
  <2> QED BY <2>2, <2>4, <2>5
<1> HIDE DEF v
<1>12. StartsWith(R, v) <=> D + Len(v) <= Len(s) BY <1>11, StartsIff
<1> DEFINE L == Len(v)
<1>13. L = l + 3 + N BY <1>11
<1> HIDE DEF l, N, L
<1>14. D + L = q + 3 + N
  <2>1. N \in Nat BY <1>8
  <2> QED BY <2>1, <1>3, <1>4, <1>13
<1>15. w \o HeaderOf(item) \o Body(item, k) = v BY <1>2 DEF v, c, h, z
<1>16. Len(Body(item, k)) = N BY <1>2 DEF N
<1> QED BY <1>12, <1>14, <1>15, <1>16 DEF There, L

LEMMA HeadAtLeast ==
    ASSUME NEW w \in Seq(Nat), NEW item, IsFrame(item), NEW k \in 0..Pieces(item),
           NEW v, v = w \o HeaderOf(item) \o Body(item, k)
    PROVE  Len(v) \in Nat /\ Len(v) >= 3
<1> DEFINE h == HeaderOf(item) z == Body(item, k) c == w \o h
<1>1. PICK K, b, d, o : Laid(item, K, b, d, o) BY FrameLaid
<1>2. z \in Seq(Nat)
  <2>1. k \in 0..K BY <1>1 DEF Laid, Pieces, IsFrame
  <2>2. b[k] \in Seq(Nat) /\ z = b[k] BY <1>1, <2>1 DEF Laid, Concatenates
  <2> QED BY <2>2
<1>3. IsLineText(h) /\ Len(h) = 3 BY HeaderStands
<1>4. h \in Seq(Nat) BY <1>3 DEF IsLineText
<1> DEFINE a == Len(w) e == Len(c) n == Len(z) l == Len(v)
<1>5. v = c \o z OBVIOUS
<1> HIDE DEF h, z
<1>6. Joint(c, w, h, a, 3, Nat) BY <1>3, <1>4, GluedAs
<1>7. c \in Seq(Nat) /\ e = a + 3 /\ a \in Nat BY <1>6 DEF Joint
<1> HIDE DEF c
<1>8. Joint(v, c, z, e, n, Nat) BY <1>2, <1>5, <1>7, GluedAs
<1>9. l = e + n /\ n \in Nat BY <1>8 DEF Joint
<1> HIDE DEF a, e, n, l
<1>10. l \in Nat /\ l >= 3 BY <1>7, <1>9
<1> QED BY <1>10 DEF l

LEMMA AppendGlued ==
    ASSUME NEW X, NEW t \in Seq(X), NEW w \in Seq(X), NEW e \in X PROVE t \o Append(w, e) = Append(t \o w, e)
<1> DEFINE one == <<e>>
<1>1. Append(w, e) = w \o one /\ Append(t \o w, e) = (t \o w) \o one /\ one \in Seq(X) OBVIOUS
<1> HIDE DEF one
<1>2. t \o (w \o one) = (t \o w) \o one BY <1>1, Regrouped
<1> QED BY <1>1, <1>2

LEMMA StartOfGlued == ASSUME NEW X, NEW t \in Seq(X), NEW w \in Seq(X) PROVE StartsWith(t \o w, t)
<1> DEFINE c == t \o w n == Len(t)
<1>1. Joint(c, t, w, n, Len(w), X) BY GluedAs
<1>2. n \in Nat /\ Len(w) \in Nat /\ c \in Seq(X) BY <1>1 DEF Joint
<1> DEFINE l == Len(c)
<1>3. l >= n
  <2>1. l = n + Len(w) BY <1>1 DEF Joint
  <2> HIDE DEF l, n
  <2> QED BY <1>2, <2>1
<1>4. \A j \in 1..n : c[j] = t[j] BY <1>1 DEF Joint
<1> HIDE DEF c
<1> DEFINE z == 0 k == n
<1>5. z \in Nat /\ z + 1 = 1 /\ z + k = n /\ k \in 0..Len(t) /\ \A j \in 1..k : c[z + j] = t[j] BY <1>2, <1>4
<1>6. k = n OBVIOUS
<1> HIDE DEF z, k
<1>7. SubSeq(c, z + 1, z + k) = SubSeq(t, 1, k) BY <1>5, CutOut
<1>8. SubSeq(t, 1, Len(t)) = t BY SubSeqFull
<1>9. SubSeq(c, 1, n) = t BY <1>5, <1>6, <1>7, <1>8
<1> QED BY <1>3, <1>9 DEF StartsWith, c

LEMMA MostWhole ==
    ASSUME NEW N \in Nat, NEW T, 0 \in T
    PROVE  \E n \in 0..N : n \in T /\ (n < N => n + 1 \notin T)
<1> DEFINE S == {k \in 0..N : N - k \in T}
<1>1. S \in SUBSET Nat /\ N \in S
  <2>1. N \in 0..N /\ N - N = 0 OBVIOUS
  <2> QED BY <2>1
<1>2. S # {} BY <1>1
<1>4. \A k : k \in S <=> k \in 0..N /\ N - k \in T OBVIOUS
<1> HIDE DEF S
<1>3. PICK k \in S : \A j \in S : k <= j BY <1>1, <1>2, LeastNat
<1> DEFINE n == N - k
<1>5. n \in 0..N /\ n \in T BY <1>3, <1>4
<1>6. ASSUME n < N, n + 1 \in T PROVE FALSE
  <2>1. k - 1 \in 0..N /\ N - (k - 1) = n + 1 BY <1>3, <1>4, <1>6
  <2>2. k - 1 \in S BY <1>4, <1>6, <2>1
  <2> QED BY <1>3, <1>4, <2>2
<1> HIDE DEF n
<1> QED BY <1>5, <1>6

\* The stream of a script, as far as it was received.
LEMMA ScriptRead ==
    ASSUME NEW scr, NEW N, IsScript(scr, N), NEW s, NEW D, Begins(s, D), NEW R, After2(s, D, R),
           NEW all, all = ScriptBytes(scr, N), AsFar(s, D, all), Len(s) <= D + Len(all) + 2,
           AsFar(s, D + Len(all), DscTrailer)
    PROVE  ArrivesAs(Units(s), R, scr)
<1> DEFINE m == Len(s)
<1>1. s \in Seq(Nat) /\ D \in Nat /\ N \in Nat \ {0} /\ N = Len(scr) BY DEF After2, IsScript
<1>2. m \in Nat BY <1>1, LenProperties
<1>3. PICK b, u : Recounts(scr, N, b, u) BY ScriptLaid
<1>4. b[N] = all
  <2>1. N \in 0..N BY <1>1
  <2> QED BY <1>3, <2>1 DEF Recounts
<1>5. \A k \in 0..N : /\ b[k] = ScriptBytes(scr, k) /\ u[k] = Meanings(scr, k) /\ b[k] \in Seq(Nat)
                      /\ u[k] \in Seq(Told) /\ Len(b[k]) \in Nat /\ Len(b[k]) <= Len(b[N])
                      /\ AsFar(s, D, b[k])
  <2> SUFFICES ASSUME NEW k \in 0..N
               PROVE  /\ b[k] = ScriptBytes(scr, k) /\ u[k] = Meanings(scr, k) /\ b[k] \in Seq(Nat)
                      /\ u[k] \in Seq(Told) /\ Len(b[k]) \in Nat /\ Len(b[k]) <= Len(b[N])
                      /\ AsFar(s, D, b[k])
    OBVIOUS
  <2> DEFINE B == ItemParts(scr, N)
  <2>1. Concatenates(b, N, B, Nat) BY <1>3 DEF Recounts
  <2>2. PartsIn(B, N, Nat)
    <3>1. \A i \in 1..N : ItemBytes(scr[i]) \in Seq(Nat) BY ItemTyped DEF IsScript
    <3> QED BY <3>1 DEF PartsIn, ItemParts
  <2> HIDE DEF B
  <2>3. /\ b[k] \in Seq(Nat) /\ Len(b[k]) \in Nat /\ Len(b[N]) \in Nat /\ Len(b[k]) <= Len(b[N])
        /\ \A j \in 1..Len(b[k]) : b[N][j] = b[k][j]
    BY <1>1, <2>1, <2>2, PrefixOfAll
  <2>4. AsFar(s, D, b[k])
    <3> SUFFICES ASSUME NEW j \in 1..Len(b[k]), D + j <= Len(s) PROVE s[D + j] = b[k][j] BY DEF AsFar
    <3>1. j \in 1..Len(b[N])
      <4> DEFINE x == Len(b[k]) y == Len(b[N])
      <4>1. x \in Nat /\ y \in Nat /\ x <= y /\ j \in 1..x BY <2>3
      <4> HIDE DEF x, y
      <4>2. j \in 1..y BY <4>1
      <4> QED BY <4>2 DEF y
    <3>2. s[D + j] = b[N][j] BY <1>4, <3>1 DEF AsFar
    <3> QED BY <2>3, <3>2
  <2>5. u[k] \in Seq(Told) BY <1>3 DEF Recounts, Concatenates
  <2> QED BY <1>3, <2>3, <2>4, <2>5 DEF Recounts
<1>6. \A k \in 0..N : StartsWith(R, ScriptBytes(scr, k)) <=> D + Len(b[k]) <= m
  <2> SUFFICES ASSUME NEW k \in 0..N PROVE StartsWith(R, ScriptBytes(scr, k)) <=> D + Len(b[k]) <= m OBVIOUS
  <2> DEFINE v == b[k]
  <2>1. v \in Seq(Nat) /\ AsFar(s, D, v) /\ v = ScriptBytes(scr, k) BY <1>5
  <2> HIDE DEF v
  <2>2. StartsWith(R, v) <=> D + Len(v) <= Len(s) BY <2>1, StartsIff
  <2> QED BY <2>1, <2>2 DEF v
<1>7. PICK n \in 0..N : WholeOf(R, scr, n) /\ (n < N => ~WholeOf(R, scr, n + 1))
  <2> DEFINE T == {k \in 0..N : WholeOf(R, scr, k)}
  <2>1. 0 \in T
    <3>1. 0 \in 0..N /\ \A i \in 1..0 : FALSE BY <1>1
    <3>2. b[0] = <<>> BY <1>3 DEF Recounts, Concatenates
    <3>3. Len(b[0]) = 0 BY <3>2
    <3>4. D + 0 <= m
      <4>1. D = 0 \/ (D = 2 /\ 2 <= m) BY DEF Begins
      <4> HIDE DEF m
      <4> QED BY <1>2, <4>1
    <3>5. StartsWith(R, ScriptBytes(scr, 0)) BY <1>6, <3>1, <3>3, <3>4
    <3> QED BY <3>1, <3>5 DEF WholeOf
  <2>2. \A k : k \in T <=> k \in 0..N /\ WholeOf(R, scr, k) OBVIOUS
  <2> HIDE DEF T
  <2>3. PICK n \in 0..N : n \in T /\ (n < N => n + 1 \notin T) BY <1>1, <2>1, MostWhole
  <2>4. n < N => n + 1 \in 0..N BY <1>1
  <2> QED BY <2>2, <2>3, <2>4
<1> DEFINE us == Units(s) a == UnitAt(D, b, n) q == D + Len(b[n]) r == ReadControlUnit(s, a)
<1>8. q <= m /\ \A i \in 1..n : Fits(scr[i]) BY <1>6, <1>7 DEF WholeOf
<1>9. PICK f : Unravels(f, s) /\ us = f[1] BY <1>1, UnitsFound
<1>10. us = u[n] \o f[a] /\ a \in 1..m + 1 /\ f[a] \in Seq(Told) /\ u[n] \in Seq(Told)
  <2>1. AsFar(s, D, b[N]) BY <1>4
  <2>2. UnitsStand(f, s, D, b, u, n) BY <1>1, <1>3, <1>8, <1>9, <2>1, UnitsUpTo
  <2> HIDE DEF us
  <2> QED BY <1>9, <2>2 DEF UnitsStand
<1>11. (r.st # "ok" => f[a] = Append(r.val, r.st)) /\ r.val \in Seq(Told)
  <2>1. f[a] = FromUnit(s, a, f) BY <1>9, <1>10 DEF Unravels
  <2>2. r.val \in Seq(Told)
    <3> HIDE DEF r, a
    <3> QED BY <1>1, <1>10, UnitFrom DEF r
  <2> QED BY <2>1, <2>2 DEF FromUnit
<1> HIDE DEF us, r
<1>12. ASSUME NEW why \in States, why # "ok", r.st = why PROVE us = Append(Meanings(scr, n) \o r.val, why)
  <2> DEFINE w == r.val e == u[n]
  <2>1. f[a] = Append(w, why) /\ w \in Seq(Told) /\ e \in Seq(Told) /\ e = Meanings(scr, n) BY <1>5, <1>10, <1>11, <1>12
  <2>2. why \in Told BY DEF Told
  <2>3. us = e \o Append(w, why) BY <1>10, <2>1
  <2> HIDE DEF w, e
  <2>4. us = Append(e \o w, why)
    <3>1. w \in Seq(Told) /\ e \in Seq(Told) BY <2>1
    <3>2. e \o Append(w, why) = Append(e \o w, why) BY <2>2, <3>1, AppendGlued
    <3> QED BY <2>3, <3>2
  <2> QED BY <2>1, <2>4 DEF w
<1>13. CASE n = N
  <2>1. a = q + 1 BY <1>1, <1>13 DEF UnitAt
  <2>2. r.st = "eof" /\ r.val = <<>>
    <3>1. q \in 0..m
      <4>1. Len(b[n]) \in Nat BY <1>5
      <4> HIDE DEF m
      <4> QED BY <1>1, <1>2, <1>8, <4>1
    <3>2. m <= q + 2 /\ AsFar(s, q, DscTrailer) BY <1>4, <1>13
    <3> HIDE DEF q
    <3> QED BY <1>1, <2>1, <3>1, <3>2, TailEnds DEF r
  <2>3. us = Append(Meanings(scr, n), "eof")
    <3>1. "eof" \in States /\ "eof" # "ok" BY DEF States
    <3>2. us = Append(Meanings(scr, n) \o <<>>, "eof") BY <1>12, <2>2, <3>1
    <3>3. Meanings(scr, n) \in Seq(Told) BY <1>5
    <3>4. Meanings(scr, n) \o <<>> = Meanings(scr, n) BY <3>3
    <3> QED BY <3>2, <3>4
  <2>4. n \in 0..Len(scr) /\ n = Len(scr) /\ ~(n < Len(scr)) BY <1>1, <1>13
  <2> QED BY <1>7, <2>3, <2>4 DEF ArrivesAs, us
<1>14. CASE n # N
  <2> DEFINE k == n + 1 item == scr[k] v == ItemBytes(item) l == Len(v)
  <2>1. n < N /\ k \in 1..N /\ k - 1 = n /\ k \in 0..N /\ n \in 0..Len(scr) /\ n < Len(scr) /\ n # Len(scr)
    BY <1>1, <1>14
  <2>2. IsItem(item) BY <2>1 DEF IsScript
  <2>3. q \in 0..Len(s) /\ AsFar(s, q, v) /\ StartOf(s, a) = q + 1 /\ TwoAt(s, a) # DscTrailer
    <3>1. D + Len(b[k - 1]) <= Len(s) /\ AsFar(s, D, b[N]) BY <1>4, <1>8, <2>1
    <3>2. UnitStands(s, D, b, k, v)
      <4> HIDE DEF k
      <4> QED BY <1>1, <1>3, <2>1, <3>1, UnitStarts
    <3>3. q = D + Len(b[k - 1]) /\ a = UnitAt(D, b, k - 1) BY <2>1
    <3> HIDE DEF q, a, v, k
    <3> QED BY <3>2, <3>3 DEF UnitStands
  <2>4. q + l <= m <=> StartsWith(R, ScriptBytes(scr, k))
    <3>1. ItemLies(scr, N, b, u, k) BY <1>3, <2>1, ItemAt
    <3> DEFINE x == Len(b[n]) y == Len(b[k])
    <3>2. x \in Nat /\ l \in Nat /\ y = x + l BY <2>1, <3>1 DEF ItemLies
    <3> HIDE DEF l, k
    <3>3. StartsWith(R, ScriptBytes(scr, k)) <=> D + y <= m BY <1>6, <2>1
    <3>4. q = D + x OBVIOUS
    <3> HIDE DEF x, y, q, m
    <3> QED BY <1>1, <1>2, <3>2, <3>3, <3>4
  <2>5. ~(q + l <= m /\ Fits(item))
    <3> SUFFICES ASSUME q + l <= m, Fits(item) PROVE FALSE OBVIOUS
    <3>1. \A i \in 1..k : i \in 1..n \/ i = k BY <1>1
    <3>2. \A i \in 1..k : Fits(scr[i]) BY <1>8, <3>1
    <3>3. WholeOf(R, scr, k) BY <2>4, <3>2 DEF WholeOf
    <3> QED BY <1>7, <2>1, <3>3
  <2>6. ~WholeOf(R, scr, n + 1) BY <1>7, <2>1
  <2>7. CASE Sound(item)
    <3>1. UnitSo(r, s, q, item, l)
      <4> HIDE DEF q, a, item
      <4> QED BY <1>1, <2>2, <2>3, <2>7, UnitRead DEF r
    <3>2. Failing(r.st, q + l <= m) /\ Parted(r.val, s, q, item) BY <2>5, <3>1 DEF UnitSo
    <3> DEFINE why == r.st
    <3>3. why \in {"eof", "limit", "protocol"} /\ (StartsWith(R, ScriptBytes(scr, n + 1)) => why # "eof")
      BY <2>4, <3>2 DEF Failing
    <3>4. us = Append(Meanings(scr, n) \o r.val, why)
      <4>1. why \in States /\ why # "ok" BY <3>3 DEF States
      <4> QED BY <1>12, <4>1
    <3>5. PICK j \in 0..Pieces(item) :
            /\ r.val = Notes(item, j) /\ (j > 0 => There(s, q, item, j))
            /\ j < Pieces(item) => ~There(s, q, item, j + 1)
      BY <3>2 DEF Parted
    <3>6. \A h \in 0..Pieces(item) : h > 0 => (There(s, q, item, h) <=> BegunAs(R, scr, n, h))
      <4> SUFFICES ASSUME NEW h \in 0..Pieces(item), h > 0
                   PROVE  There(s, q, item, h) <=> BegunAs(R, scr, n, h)
        OBVIOUS
      <4>1. IsFrame(item)
        <5> HIDE DEF item
        <5>1. item.kind # "note" BY DEF Pieces
        <5> QED BY <2>2, <5>1 DEF IsFrame, IsItem
      <4> DEFINE w == b[n]
      <4>2. w = ScriptBytes(scr, n) /\ w \in Seq(Nat) /\ AsFar(s, D, w) /\ q = D + Len(w) BY <1>5
      <4>3. AsFar(s, q, ItemBytes(item)) BY <2>3
      <4> HIDE DEF w, q, item
      <4>4. There(s, q, item, h) <=> StartsWith(R, w \o HeaderOf(item) \o Body(item, h)) /\ PiecesFit(item, h)
        BY <4>1, <4>2, <4>3, BegunIff
      <4>5. item = scr[n + 1] BY DEF item
      <4> QED BY <4>2, <4>4, <4>5 DEF BegunAs
    <3>7. (j > 0 => BegunAs(R, scr, n, j)) /\ (j < Pieces(item) => ~BegunAs(R, scr, n, j + 1))
      <4>1. Pieces(item) \in Nat
        <5> HIDE DEF item
        <5> QED BY <2>2 DEF Pieces, IsItem
      <4>2. j < Pieces(item) => j + 1 \in 0..Pieces(item) /\ j + 1 > 0
        <5> HIDE DEF item
        <5> QED BY <4>1
      <4> HIDE DEF item, q
      <4> QED BY <3>5, <3>6, <4>2
    <3>8. us = Append(Meanings(scr, n) \o Notes(item, j), why) BY <3>4, <3>5
    <3> HIDE DEF why, us
    <3> QED BY <1>7, <2>1, <2>6, <3>3, <3>5, <3>7, <3>8 DEF ArrivesAs, us
  <2>8. CASE ~Sound(item)
    <3>1. ~Fits(item) /\ item.kind = "frame" BY <2>2, <2>8 DEF Sound, IsItem
    <3>2. HoldsLine(item)
      <4>1. PICK i \in 1..Len(item.body) : item.body[i].kind = "record" /\ ~NoLineEnd(item.body[i].values)
        BY <2>8 DEF Sound
      <4> DEFINE values == item.body[i].values
      <4>2. PICK j \in 1..Len(values) : \E e \in 1..Len(values[j]) : values[j][e] = LF
        BY <4>1 DEF NoLineEnd
      <4>3. PICK e \in 1..Len(values[j]) : values[j][e] = LF BY <4>2
      <4>4. values \in Seq(Seq(Nat))
        <5>1. IsPiece(item.body[i]) BY <2>2, <3>1 DEF IsItem
        <5> QED BY <4>1, <5>1 DEF IsPiece
      <4> HIDE DEF values
      <4>5. j \in DOMAIN values /\ values[j] \in Seq(Nat) BY <4>4, LenProperties, ElementOfSeq
      <4>6. e \in DOMAIN values[j] BY <4>5, LenProperties
      <4> QED BY <3>1, <4>1, <4>3, <4>5, <4>6 DEF HoldsLine, values
    <3>3. StartsWith(us, Meanings(scr, n))
      <4>1. StartsWith(u[n] \o f[a], u[n])
        <5> DEFINE t == u[n] w == f[a]
        <5>1. t \in Seq(Told) /\ w \in Seq(Told) BY <1>10
        <5> HIDE DEF t, w
        <5>2. StartsWith(t \o w, t) BY <5>1, StartOfGlued
        <5> QED BY <5>2 DEF t, w
      <4> QED BY <1>5, <1>10, <4>1
    <3> QED BY <1>7, <2>1, <2>6, <3>1, <3>2, <3>3 DEF ArrivesAs, us
  <2> QED BY <2>7, <2>8
<1> QED BY <1>13, <1>14

-----------------------------------------------------------------------------
(* The terminal and its reader.                                             *)
ShownAs(b) == IF b = LF THEN <<CR, LF>> ELSE <<b>>
FromShown(T, i, f) == IF i > Len(T) THEN <<>> ELSE ShownAs(T[i]) \o f[i + 1]
ShowsAll(f, T) == f = [i \in 1..Len(T) + 1 |-> FromShown(T, i, f)]

LEMMA ShowingExists == ASSUME NEW T, Len(T) \in Nat PROVE \E f : ShowsAll(f, T)
<1> DEFINE n == Len(T)
           P(f, k) == \A i \in n + 2 - k..n + 1 : f[i] = FromShown(T, i, f)
           S == {k \in Nat : k <= n + 1 => \E f : DOMAIN f = 1..n + 1 /\ P(f, k)}
<1>0. n \in Nat OBVIOUS
<1> HIDE DEF n
<1>1. 0 \in S
  <2> DEFINE f == [i \in 1..n + 1 |-> <<>>]
  <2>1. \A i \in n + 2 - 0..n + 1 : FALSE BY <1>0
  <2>2. P(f, 0) BY <2>1
  <2> QED BY <2>2
<1>2. ASSUME NEW m \in Nat \ {0}, m - 1 \in S PROVE m \in S
  <2> SUFFICES ASSUME m <= n + 1 PROVE \E f : DOMAIN f = 1..n + 1 /\ P(f, m) OBVIOUS
  <2>1. PICK f : DOMAIN f = 1..n + 1 /\ P(f, m - 1)
    <3>1. m - 1 <= n + 1 BY <1>0
    <3> QED BY <1>2, <3>1
  <2> DEFINE q == n + 2 - m
             g == [i \in 1..n + 1 |-> IF i = q THEN FromShown(T, i, f) ELSE f[i]]
  <2>2. q \in 1..n + 1 /\ n + 2 - (m - 1) = q + 1 BY <1>0
  <2>3. \A i \in q + 1..n + 1 : i \in 1..n + 1 /\ g[i] = f[i] BY <1>0, <2>2
  <2>4. \A i \in q..n + 1 : FromShown(T, i, g) = FromShown(T, i, f)
    <3> SUFFICES ASSUME NEW i \in q..n + 1 PROVE FromShown(T, i, g) = FromShown(T, i, f) OBVIOUS
    <3> HIDE DEF g, q
    <3>1. CASE i > n BY <3>1 DEF FromShown, n
    <3>2. CASE ~(i > n)
      <4>1. i + 1 \in q + 1..n + 1 BY <1>0, <2>2, <3>2
      <4> QED BY <2>3, <4>1 DEF FromShown
    <3> QED BY <3>1, <3>2
  <2>5. \A i \in q..n + 1 : g[i] = FromShown(T, i, g)
    <3> SUFFICES ASSUME NEW i \in q..n + 1 PROVE g[i] = FromShown(T, i, f) BY <2>4
    <3>1. CASE i = q
      <4>1. i \in 1..n + 1 BY <2>2, <3>1
      <4> QED BY <3>1, <4>1
    <3>2. CASE i # q
      <4>1. i \in q + 1..n + 1 BY <1>0, <2>2, <3>2
      <4>2. f[i] = FromShown(T, i, f) BY <2>1, <2>2, <4>1
      <4> QED BY <2>3, <4>1, <4>2
    <3> QED BY <3>1, <3>2
  <2>6. DOMAIN g = 1..n + 1 OBVIOUS
  <2> HIDE DEF g
  <2> QED BY <2>5, <2>6
<1>3. Nat \subseteq S
  <2> HIDE DEF S
  <2> QED BY <1>1, <1>2, UpToAll
<1>4. PICK f : DOMAIN f = 1..n + 1 /\ P(f, n + 1)
  <2>1. n + 1 \in Nat /\ n + 1 <= n + 1 BY <1>0
  <2>2. n + 1 \in S
    <3> HIDE DEF S
    <3> QED BY <1>3, <2>1
  <2> QED BY <2>1, <2>2
<1>5. n + 2 - (n + 1) = 1 BY <1>0
<1>6. \A i \in 1..n + 1 : f[i] = FromShown(T, i, f) BY <1>4, <1>5
<1> DEFINE g == [i \in 1..n + 1 |-> f[i]]
<1>7. \A i \in 1..n + 1 : FromShown(T, i, g) = FromShown(T, i, f)
  <2> SUFFICES ASSUME NEW i \in 1..n + 1 PROVE FromShown(T, i, g) = FromShown(T, i, f) OBVIOUS
  <2>1. \A j \in 1..n + 1 : g[j] = f[j] OBVIOUS
  <2> HIDE DEF g
  <2>2. CASE i > n BY <2>2 DEF FromShown, n
  <2>3. CASE ~(i > n)
    <3>1. i + 1 \in 1..n + 1 BY <1>0, <2>3
    <3> QED BY <2>1, <3>1 DEF FromShown
  <2> QED BY <2>2, <2>3
<1>8. g = [i \in 1..n + 1 |-> FromShown(T, i, g)]
  <2>1. \A i \in 1..n + 1 : g[i] = FromShown(T, i, g) BY <1>6, <1>7
  <2>2. g = [i \in 1..n + 1 |-> g[i]] OBVIOUS
  <2> HIDE DEF g
  <2> QED BY <2>1, <2>2
<1> QED BY <1>8 DEF ShowsAll, n

\* f[i]: what the terminal writes of the symbols from i on.
Written(f, T) ==
    /\ f[Len(T) + 1] = <<>>
    /\ \A i \in 1..Len(T) : f[i] = ShownAs(T[i]) \o f[i + 1]
    /\ \A i \in 1..Len(T) + 1 : f[i] \in Seq(Nat)

LEMMA WrittenFound == ASSUME NEW T \in Seq(Nat) PROVE \E f : Written(f, T) /\ OverTerminal(T) = f[1]
<1> DEFINE F(g) == [i \in 1..Len(T) + 1 |->
                IF i > Len(T) THEN <<>>
                ELSE (IF T[i] = LF THEN <<CR, LF>> ELSE <<T[i]>>) \o g[i + 1]]
           f == CHOOSE g : g = F(g) n == Len(T)
<1>0. n \in Nat BY LenProperties
<1>1. \A g : ShowsAll(g, T) <=> g = F(g) BY DEF ShowsAll, FromShown, ShownAs
<1>2. OverTerminal(T) = f[1] BY DEF OverTerminal
<1>3. \E g : g = F(g)
  <2> HIDE DEF F
  <2> QED BY <1>0, <1>1, ShowingExists
<1>4. f = F(f)
  <2> HIDE DEF F
  <2> QED BY <1>3
<1>5. ShowsAll(f, T) BY <1>1, <1>4
<1> HIDE DEF f
<1>6. \A i \in 1..n + 1 : f[i] = FromShown(T, i, f) BY <1>5 DEF ShowsAll
<1>7. f[n + 1] = <<>>
  <2>1. n + 1 \in 1..n + 1 /\ n + 1 > n
    <3> HIDE DEF n
    <3> QED BY <1>0
  <2> QED BY <1>6, <2>1 DEF FromShown
<1>8. \A i \in 1..n : f[i] = ShownAs(T[i]) \o f[i + 1]
  <2> SUFFICES ASSUME NEW i \in 1..n PROVE f[i] = ShownAs(T[i]) \o f[i + 1] OBVIOUS
  <2>1. i \in 1..n + 1 /\ ~(i > n)
    <3> HIDE DEF n
    <3> QED BY <1>0
  <2> QED BY <1>6, <2>1 DEF FromShown
<1> DEFINE S == {k \in Nat : \A i \in n + 1 - k..n + 1 : i >= 1 => f[i] \in Seq(Nat)}
<1>9. \A i \in 1..n : T[i] \in Nat BY ElementOfSeq
<1> HIDE DEF n
<1>10. 0 \in S
  <2>1. \A i \in n + 1 - 0..n + 1 : i = n + 1 BY <1>0
  <2>2. <<>> \in Seq(Nat) OBVIOUS
  <2> QED BY <1>7, <2>1, <2>2
<1>11. ASSUME NEW m \in Nat \ {0}, m - 1 \in S PROVE m \in S
  <2> SUFFICES ASSUME NEW i \in n + 1 - m..n + 1, i >= 1 PROVE f[i] \in Seq(Nat) OBVIOUS
  <2>1. CASE i = n + 1
    <3>1. <<>> \in Seq(Nat) OBVIOUS
    <3> QED BY <1>7, <2>1, <3>1
  <2>2. CASE i # n + 1
    <3>1. i \in 1..n /\ i + 1 \in n + 1 - (m - 1)..n + 1 /\ i + 1 >= 1 BY <1>0, <2>2
    <3> DEFINE x == f[i + 1] y == ShownAs(T[i])
    <3>2. x \in Seq(Nat) BY <1>11, <3>1
    <3>3. y \in Seq(Nat)
      <4>1. T[i] \in Nat /\ CR \in Nat /\ LF \in Nat BY <1>9, <3>1 DEF CR, LF
      <4>2. <<CR, LF>> \in Seq(Nat) /\ <<T[i]>> \in Seq(Nat) BY <4>1
      <4> QED BY <4>2 DEF ShownAs
    <3>4. f[i] = y \o x BY <1>8, <3>1
    <3> HIDE DEF x, y
    <3> QED BY <3>2, <3>3, <3>4
  <2> QED BY <2>1, <2>2
<1>12. Nat \subseteq S
  <2> HIDE DEF S
  <2> QED BY <1>10, <1>11, UpToAll
<1>13. \A i \in 1..n + 1 : f[i] \in Seq(Nat)
  <2>1. n \in S
    <3> HIDE DEF S
    <3> QED BY <1>0, <1>12
  <2>2. \A i \in 1..n + 1 : i \in n + 1 - n..n + 1 /\ i >= 1 BY <1>0
  <2> QED BY <2>1, <2>2
<1>14. Written(f, T) BY <1>7, <1>8, <1>13 DEF Written, n
<1> QED BY <1>2, <1>14

\* What the terminal writes first of the i-th symbol, and then.
FirstSo(f, T, i, w) ==
    /\ w # <<>> /\ w[1] = (IF T[i] = LF THEN CR ELSE T[i]) /\ w[1] # LF
    /\ Tail(w) = (IF T[i] = LF THEN <<LF>> \o f[i + 1] ELSE f[i + 1])

LEMMA Onward ==
    ASSUME NEW a \in Seq(Nat), NEW b \in Seq(Nat), NEW c \in Seq(Nat) PROVE (a \o b) \o c = a \o (b \o c)
  BY ConcatAssociative

LEMMA HeadOff ==
    ASSUME NEW x \in Nat, NEW e \in Seq(Nat)
    PROVE  <<x>> \o e # <<>> /\ (<<x>> \o e)[1] = x /\ Tail(<<x>> \o e) = e
<1>1. Len(e) \in Nat BY LenProperties
<1> QED BY <1>1

LEMMA FirstShown ==
    ASSUME NEW T \in Seq(Nat), NEW f, Written(f, T), NEW i \in 1..Len(T), NEW w, w = f[i]
    PROVE  FirstSo(f, T, i, w)
<1> DEFINE e == f[i + 1] b == T[i]
<1>1. w = ShownAs(b) \o e BY DEF Written
<1>2. e \in Seq(Nat)
  <2>1. Len(T) \in Nat BY LenProperties
  <2>2. i + 1 \in 1..Len(T) + 1 BY <2>1
  <2> QED BY <2>2 DEF Written
<1>3. b \in Nat /\ CR \in Nat /\ LF \in Nat /\ CR # LF BY ElementOfSeq DEF CR, LF
<1> HIDE DEF e, b
<1>4. CASE b = LF
  <2>1. w = <<CR, LF>> \o e BY <1>1, <1>4 DEF ShownAs
  <2>2. <<CR, LF>> = <<CR>> \o <<LF>> OBVIOUS
  <2> DEFINE x == <<CR>> y == <<LF>>
  <2>3. x \in Seq(Nat) /\ y \in Seq(Nat) /\ Len(x) = 1 /\ x[1] = CR BY <1>3
  <2>4. w = (x \o y) \o e BY <2>1, <2>2
  <2> HIDE DEF x, y
  <2>5. w = x \o (y \o e)
    <3>1. (x \o y) \o e = x \o (y \o e) BY <1>2, <2>3, Onward
    <3> QED BY <2>4, <3>1
  <2> DEFINE z == y \o e
  <2>6. z \in Seq(Nat) BY <1>2, <2>3
  <2>7. w = x \o z BY <2>5
  <2> HIDE DEF z
  <2>8. w # <<>> /\ w[1] = CR /\ Tail(w) = z
    <3>1. w = <<CR>> \o z BY <2>7 DEF x
    <3> QED BY <1>3, <2>6, <3>1, HeadOff
  <2> QED BY <1>3, <1>4, <2>8 DEF FirstSo, e, b, z, y
<1>5. CASE b # LF
  <2>1. w = <<b>> \o e BY <1>1, <1>5 DEF ShownAs
  <2>2. w # <<>> /\ w[1] = b /\ Tail(w) = e BY <1>2, <1>3, <2>1, HeadOff
  <2> QED BY <1>5, <2>2 DEF FirstSo, e, b
<1> QED BY <1>4, <1>5

\* How far a reader of the terminal is: m symbols handed out, and a CR held back or not; the
\* terminal writes w.
Sync(f, T, m, h, w) ==
    /\ m \in 0..Len(T)
    /\ \/ ~h /\ (w = f[m + 1] \/ w = <<>>)
       \/ h /\ m < Len(T) /\ T[m + 1] = CR /\ (w = f[m + 2] \/ w = <<>>)
       \/ h /\ m < Len(T) /\ T[m + 1] = LF /\ (w = <<LF>> \o f[m + 2] \/ w = <<LF>>)

\* The symbols after the first d, as far as k.
HandedTo(f, T, d, k, t, w) ==
    /\ t.hasCR \in BOOLEAN /\ t = [hasCR |-> t.hasCR, out |-> SubSeq(T, d + 1, k)]
    /\ Sync(f, T, k, t.hasCR, w)

LEMMA Handed ==
    ASSUME NEW f, NEW T, NEW d, NEW k, NEW w, NEW h \in BOOLEAN, NEW o, o = SubSeq(T, d + 1, k),
           Sync(f, T, k, h, w), NEW t, t = [hasCR |-> h, out |-> o]
    PROVE  HandedTo(f, T, d, k, t, w)
<1>1. t.hasCR = h OBVIOUS
<1>2. t = [hasCR |-> t.hasCR, out |-> SubSeq(T, d + 1, k)] BY <1>1
<1> QED BY <1>1, <1>2 DEF HandedTo

LEMMA CutMore ==
    ASSUME NEW T \in Seq(Nat), NEW d \in Nat, NEW m \in d..Len(T) - 1
    PROVE  SubSeq(T, d + 1, m + 1) = SubSeq(T, d + 1, m) \o <<T[m + 1]>>
<1> DEFINE n == Len(T) a == d + 1 b == m + 1 q == b - 1
<1>1. n \in Nat BY LenProperties
<1>2. a \in 1..n /\ b \in a..n /\ q = m /\ \A i \in a..b : i \in 1..n
  <2>1. m \in d..n - 1 OBVIOUS
  <2> HIDE DEF n
  <2>2. m \in Nat /\ d <= m /\ m < n BY <1>1, <2>1
  <2> QED BY <1>1, <2>2
<1>3. \A i \in a..b : T[i] \in Nat BY <1>2, ElementOfSeq
<1>4. a \in Int /\ b \in Int /\ a <= b BY <1>1, <1>2
<1> HIDE DEF a, b, n
<1>5. SubSeq(T, a, b) = SubSeq(T, a, b - 1) \o <<T[b]>> BY <1>3, <1>4, SubSeqRecursiveSecond
<1> QED BY <1>2, <1>5 DEF a, b, q

LEMMA ByteRead ==
    ASSUME NEW T \in Seq(Nat), NEW f, Written(f, T), NEW h \in BOOLEAN, NEW d \in Nat, NEW m, d <= m,
           NEW w, w # <<>>, Sync(f, T, m, h, w), NEW t,
           t = TransformByte([hasCR |-> h, out |-> SubSeq(T, d + 1, m)], w[1])
    PROVE  \E k \in m..Len(T) : HandedTo(f, T, d, k, t, Tail(w))
<1> DEFINE n == Len(T) o == SubSeq(T, d + 1, m)
<1>1. n \in Nat /\ m \in 0..n /\ m \in Nat
  <2>1. n \in Nat BY LenProperties
  <2>2. m \in 0..n BY DEF Sync
  <2> HIDE DEF n
  <2> QED BY <2>1, <2>2
<1>2. f[n + 1] = <<>> BY DEF Written
<1>3. CR \in Nat /\ LF \in Nat /\ CR # LF BY DEF CR, LF
<1>4. \A k \in m..n - 1 : SubSeq(T, d + 1, k + 1) = SubSeq(T, d + 1, k) \o <<T[k + 1]>>
  <2> SUFFICES ASSUME NEW k \in m..n - 1 PROVE SubSeq(T, d + 1, k + 1) = SubSeq(T, d + 1, k) \o <<T[k + 1]>>
    OBVIOUS
  <2>1. k \in d..Len(T) - 1 BY <1>1
  <2> QED BY <2>1, CutMore
<1>5. \A k \in m..n : SubSeq(T, d + 1, k) \in Seq(Nat)
  <2> SUFFICES ASSUME NEW k \in m..n PROVE SubSeq(T, d + 1, k) \in Seq(Nat) OBVIOUS
  <2>1. \A i \in d + 1..k : i \in 1..n
    <3> HIDE DEF n
    <3> QED BY <1>1
  <2>2. \A i \in d + 1..k : T[i] \in Nat BY <2>1, ElementOfSeq
  <2>3. d + 1 \in Int /\ k \in Int BY <1>1
  <2> DEFINE a == d + 1
  <2> HIDE DEF a
  <2>4. \A i \in a..k : T[i] \in Nat BY <2>2 DEF a
  <2>5. a \in Int BY <2>3 DEF a
  <2> QED BY <2>3, <2>4, <2>5, SubSeqProperties DEF a
<1>6. \A i \in 1..n : T[i] \in Nat BY ElementOfSeq
<1>7. o \in Seq(Nat)
  <2>1. m \in m..n BY <1>1
  <2> QED BY <1>5, <2>1
<1> DEFINE b == w[1] held == IF h /\ b # LF THEN <<CR>> ELSE <<>>
<1>8. t = IF b = CR THEN [hasCR |-> TRUE, out |-> o \o held]
          ELSE [hasCR |-> FALSE, out |-> o \o Append(held, b)]
  BY DEF TransformByte
<1> HIDE DEF o, b, held, n
<1>9. CASE ~h /\ (w = f[m + 1] \/ w = <<>>)
  <2>1. w = f[m + 1] /\ m < n BY <1>1, <1>2, <1>9
  <2>2. m + 1 \in 1..Len(T) BY <1>1, <2>1 DEF n
  <2> DEFINE i == m + 1
  <2>3. FirstSo(f, T, i, w) BY <2>1, <2>2, FirstShown
  <2>4. i + 1 = m + 2 /\ i = m + 1 BY <1>1
  <2> HIDE DEF i
  <2>5. held = <<>> BY <1>9 DEF held
  <2>6. m \in m..n /\ m + 1 \in m..n BY <1>1, <2>1
  <2>7. CASE T[i] = LF
    <3>1. b = CR /\ Tail(w) = <<LF>> \o f[m + 2] BY <2>3, <2>4, <2>7 DEF FirstSo, b
    <3>2. t = [hasCR |-> TRUE, out |-> o]
      <4>1. o \o held = o BY <1>7, <2>5
      <4> QED BY <1>8, <3>1, <4>1
    <3>3. Sync(f, T, m, TRUE, Tail(w)) BY <1>1, <2>1, <2>4, <2>7, <3>1 DEF Sync, n
    <3>4. HandedTo(f, T, d, m, t, Tail(w)) BY <3>2, <3>3, Handed DEF o
    <3> QED BY <2>6, <3>4 DEF n
  <2>8. CASE T[i] = CR
    <3>1. b = CR /\ Tail(w) = f[m + 2] BY <1>3, <2>3, <2>4, <2>8 DEF FirstSo, b
    <3>2. t = [hasCR |-> TRUE, out |-> o]
      <4>1. o \o held = o BY <1>7, <2>5
      <4> QED BY <1>8, <3>1, <4>1
    <3>3. Sync(f, T, m, TRUE, Tail(w)) BY <1>1, <2>1, <2>4, <2>8, <3>1 DEF Sync, n
    <3>4. HandedTo(f, T, d, m, t, Tail(w)) BY <3>2, <3>3, Handed DEF o
    <3> QED BY <2>6, <3>4 DEF n
  <2>9. CASE T[i] # LF /\ T[i] # CR
    <3>1. b = T[i] /\ Tail(w) = f[m + 2] BY <2>3, <2>4, <2>9 DEF FirstSo, b
    <3>2. t = [hasCR |-> FALSE, out |-> o \o <<T[i]>>]
      <4>1. b # CR BY <2>9, <3>1
      <4>2. Append(held, b) = <<T[i]>> BY <2>5, <3>1
      <4> QED BY <1>8, <4>1, <4>2
    <3>3. SubSeq(T, d + 1, m + 1) = o \o <<T[i]>>
      <4>1. m \in m..n - 1 BY <1>1, <2>1
      <4> QED BY <1>4, <2>4, <4>1 DEF o
    <3>4. Sync(f, T, m + 1, FALSE, Tail(w))
      <4>1. m + 1 \in 0..Len(T) /\ m + 1 + 1 = m + 2 BY <1>1, <2>6 DEF n
      <4> QED BY <3>1, <4>1 DEF Sync
    <3>5. HandedTo(f, T, d, m + 1, t, Tail(w))
      <4> DEFINE q == o \o <<T[i]>>
      <4>1. q = SubSeq(T, d + 1, m + 1) /\ t = [hasCR |-> FALSE, out |-> q] BY <3>2, <3>3
      <4> HIDE DEF q
      <4> QED BY <3>4, <4>1, Handed
    <3> QED BY <2>6, <3>5 DEF n
  <2> QED BY <2>7, <2>8, <2>9
<1>10. CASE h /\ m < n /\ T[m + 1] = CR /\ (w = f[m + 2] \/ w = <<>>)
  <2>1. w = f[m + 2] /\ m + 1 < n
    <3>1. m + 2 = n + 1 \/ m + 1 < n BY <1>1, <1>10
    <3> QED BY <1>2, <1>10, <3>1
  <2>2. m + 2 \in 1..Len(T) BY <1>1, <2>1 DEF n
  <2> DEFINE i == m + 2
  <2>3. FirstSo(f, T, i, w) BY <2>1, <2>2, FirstShown
  <2>4. i + 1 = m + 3 /\ i = m + 2 BY <1>1
  <2> HIDE DEF i
  <2>5. held = <<CR>> BY <1>10, <2>3 DEF held, FirstSo, b
  <2>6. m + 1 \in m..n /\ m + 2 \in m..n /\ m + 1 \in 0..Len(T) /\ m + 2 \in 0..Len(T)
    BY <1>1, <2>1 DEF n
  <2>7. SubSeq(T, d + 1, m + 1) = o \o <<CR>>
    <3>1. m \in m..n - 1 BY <1>1, <1>10
    <3> QED BY <1>4, <1>10, <3>1 DEF o
  <2>8. m + 1 + 1 = m + 2 /\ m + 1 + 2 = m + 3 /\ m + 2 + 1 = m + 3 BY <1>1
  <2>9. CASE T[i] = LF
    <3>1. b = CR /\ Tail(w) = <<LF>> \o f[m + 3] BY <2>3, <2>4, <2>9 DEF FirstSo, b
    <3>2. t = [hasCR |-> TRUE, out |-> o \o <<CR>>] BY <1>8, <2>5, <3>1
    <3>3. Sync(f, T, m + 1, TRUE, Tail(w)) BY <2>1, <2>4, <2>6, <2>8, <2>9, <3>1 DEF Sync, n
    <3>4. HandedTo(f, T, d, m + 1, t, Tail(w)) 
      <4> DEFINE q == o \o <<CR>>
      <4>1. q = SubSeq(T, d + 1, m + 1) /\ t = [hasCR |-> TRUE, out |-> q] BY <2>7, <3>2
      <4> HIDE DEF q
      <4> QED BY <3>3, <4>1, Handed
    <3> QED BY <2>6, <3>4 DEF n
  <2>10. CASE T[i] = CR
    <3>1. b = CR /\ Tail(w) = f[m + 3] BY <1>3, <2>3, <2>4, <2>10 DEF FirstSo, b
    <3>2. t = [hasCR |-> TRUE, out |-> o \o <<CR>>] BY <1>8, <2>5, <3>1
    <3>3. Sync(f, T, m + 1, TRUE, Tail(w)) BY <2>1, <2>4, <2>6, <2>8, <2>10, <3>1 DEF Sync, n
    <3>4. HandedTo(f, T, d, m + 1, t, Tail(w)) 
      <4> DEFINE q == o \o <<CR>>
      <4>1. q = SubSeq(T, d + 1, m + 1) /\ t = [hasCR |-> TRUE, out |-> q] BY <2>7, <3>2
      <4> HIDE DEF q
      <4> QED BY <3>3, <4>1, Handed
    <3> QED BY <2>6, <3>4 DEF n
  <2>11. CASE T[i] # LF /\ T[i] # CR
    <3>1. b = T[i] /\ Tail(w) = f[m + 3] BY <2>3, <2>4, <2>11 DEF FirstSo, b
    <3> DEFINE c == T[i]
    <3>2. c \in Nat BY <1>6, <2>2, <2>4 DEF n
    <3>3. t = [hasCR |-> FALSE, out |-> o \o Append(<<CR>>, c)] BY <1>8, <2>5, <2>11, <3>1
    <3>4. SubSeq(T, d + 1, m + 2) = (o \o <<CR>>) \o <<c>>
      <4>1. m + 1 \in m..n - 1 BY <1>1, <2>1
      <4>2. SubSeq(T, d + 1, m + 1 + 1) = SubSeq(T, d + 1, m + 1) \o <<T[m + 1 + 1]>> BY <1>4, <4>1
      <4> QED BY <2>4, <2>7, <2>8, <4>2
    <3> DEFINE x == <<CR>> y == <<c>>
    <3>5. Append(<<CR>>, c) = x \o y OBVIOUS
    <3>6. x \in Seq(Nat) /\ y \in Seq(Nat) BY <1>3, <3>2
    <3>7. SubSeq(T, d + 1, m + 2) = (o \o x) \o y BY <3>4
    <3> HIDE DEF x, y
    <3>8. (o \o x) \o y = o \o (x \o y)
      <4> USE <1>7, <3>6
      <4> QED BY ONLY o \in Seq(Nat), x \in Seq(Nat), y \in Seq(Nat), ConcatAssociative
    <3>9. Sync(f, T, m + 2, FALSE, Tail(w)) BY <2>6, <2>8, <3>1 DEF Sync
    <3>10. t = [hasCR |-> FALSE, out |-> SubSeq(T, d + 1, m + 2)] BY <3>3, <3>5, <3>7, <3>8
    <3>11. HandedTo(f, T, d, m + 2, t, Tail(w)) BY <3>9, <3>10, Handed
    <3> QED BY <2>6, <3>11 DEF n
  <2> QED BY <2>9, <2>10, <2>11
<1>11. CASE h /\ m < n /\ T[m + 1] = LF /\ (w = <<LF>> \o f[m + 2] \/ w = <<LF>>)
  <2> DEFINE e == f[m + 2]
  <2>1. e \in Seq(Nat)
    <3>1. m + 2 \in 1..Len(T) + 1 BY <1>1, <1>11 DEF n
    <3> QED BY <3>1 DEF Written
  <2> HIDE DEF e
  <2>2. w = <<LF>> \o e \/ w = <<LF>> BY <1>11 DEF e
  <2>3. b = LF /\ (Tail(w) = e \/ Tail(w) = <<>>)
    <3>1. CASE w = <<LF>> \o e
      <4>1. LF \in Nat BY <1>3
      <4>2. w[1] = LF /\ Tail(w) = e BY <2>1, <3>1, <4>1, HeadOff
      <4> QED BY <4>2 DEF b
    <3>2. CASE w = <<LF>> BY <3>2 DEF b
    <3> QED BY <2>2, <3>1, <3>2
  <2>4. held = <<>> BY <2>3 DEF held
  <2>5. t = [hasCR |-> FALSE, out |-> o \o <<LF>>]
    <3>1. b # CR BY <1>3, <2>3
    <3>2. Append(held, b) = <<LF>> BY <2>3, <2>4
    <3> QED BY <1>8, <3>1, <3>2
  <2>6. SubSeq(T, d + 1, m + 1) = o \o <<LF>>
    <3>1. m \in m..n - 1 BY <1>1, <1>11
    <3> QED BY <1>4, <1>11, <3>1 DEF o
  <2>7. m + 1 \in m..n /\ m + 1 \in 0..Len(T) /\ m + 1 + 1 = m + 2 BY <1>1, <1>11 DEF n
  <2>8. Sync(f, T, m + 1, FALSE, Tail(w)) BY <2>3, <2>7 DEF Sync, e
  <2>9. HandedTo(f, T, d, m + 1, t, Tail(w)) 
    <3> DEFINE q == o \o <<LF>>
    <3>1. q = SubSeq(T, d + 1, m + 1) /\ t = [hasCR |-> FALSE, out |-> q] BY <2>5, <2>6
    <3> HIDE DEF q
    <3> QED BY <2>8, <3>1, Handed
  <2> QED BY <2>7, <2>9 DEF n
<1> QED BY <1>9, <1>10, <1>11 DEF Sync, n

\* Transform, byte by byte.
TurnsAre(f, s, n, g) == f = [k \in 0..n |-> IF k = 0 THEN g ELSE TransformByte(f[k - 1], s[k])]
Turns(f, s, n, g) == f[0] = g /\ \A k \in 1..n : f[k] = TransformByte(f[k - 1], s[k])

LEMMA TurnsExist == ASSUME NEW s, NEW g, NEW n \in Nat PROVE \E f : TurnsAre(f, s, n, g)
<1> DEFINE Step(k, f) == IF k = 0 THEN g ELSE TransformByte(f[k - 1], s[k])
           S == {m \in Nat : \E f : f = [k \in 0..m |-> Step(k, f)]}
<1>1. 0 \in S
  <2> DEFINE e == [k \in 0..0 |-> g]
  <2>1. e = [k \in 0..0 |-> Step(k, e)] OBVIOUS
  <2> HIDE DEF Step, e
  <2> QED BY <2>1
<1>2. ASSUME NEW m \in Nat \ {0}, m - 1 \in S PROVE m \in S
  <2>1. PICK f : f = [k \in 0..m - 1 |-> Step(k, f)] BY <1>2
  <2> DEFINE h == [k \in 0..m |-> Step(k, f)]
  <2>2. \A k \in 0..m - 1 : h[k] = f[k]
    <3> HIDE DEF Step
    <3>1. \A k \in 0..m - 1 : k \in 0..m OBVIOUS
    <3>2. \A k \in 0..m - 1 : f[k] = Step(k, f) BY <2>1
    <3>3. \A k \in 0..m : h[k] = Step(k, f) OBVIOUS
    <3> QED BY <3>1, <3>2, <3>3
  <2>3. ASSUME NEW k \in 0..m PROVE h[k] = Step(k, h)
    <3>1. h[k] = Step(k, f)
      <4> HIDE DEF Step
      <4> QED OBVIOUS
    <3>2. k # 0 => h[k - 1] = f[k - 1]
      <4>1. k # 0 => k - 1 \in 0..m - 1 OBVIOUS
      <4> HIDE DEF h
      <4> QED BY <2>2, <4>1
    <3> HIDE DEF h
    <3> QED BY <3>1, <3>2
  <2>4. h = [k \in 0..m |-> h[k]] OBVIOUS
  <2>5. h = [k \in 0..m |-> Step(k, h)]
    <3> HIDE DEF h, Step
    <3> QED BY <2>3, <2>4
  <2> HIDE DEF h, Step
  <2> QED BY <2>5
<1>3. Nat \subseteq S
  <2> HIDE DEF S
  <2> QED BY <1>1, <1>2, UpToAll
<1>4. n \in S BY <1>3
<1> QED BY <1>4 DEF TurnsAre

LEMMA TransformTurns ==
    ASSUME NEW src, Len(src) \in Nat
    PROVE  \E u : Turns(u, src, Len(src), [hasCR |-> cr.hasCR, out |-> <<>>]) /\ Transform(src) = u[Len(src)]
<1> DEFINE n == Len(src) g == [hasCR |-> cr.hasCR, out |-> <<>>]
           F(f) == [k \in 0..n |-> IF k = 0 THEN g ELSE TransformByte(f[k - 1], src[k])]
           v == CHOOSE f : f = F(f)
<1>1. Transform(src) = v[n] BY DEF Transform
<1>2. \A f : TurnsAre(f, src, n, g) <=> f = F(f) BY DEF TurnsAre
<1>3. \E f : f = F(f)
  <2>1. n \in Nat OBVIOUS
  <2> HIDE DEF n, g, F
  <2> QED BY <1>2, <2>1, TurnsExist
<1>4. v = F(v)
  <2> HIDE DEF F
  <2> QED BY <1>3
<1> HIDE DEF v, g
<1>5. Turns(v, src, n, g)
  <2>1. 0 \in 0..n /\ \A k \in 1..n : k \in 0..n /\ k # 0 OBVIOUS
  <2> HIDE DEF n
  <2>2. v[0] = g BY <1>4, <2>1
  <2>3. \A k \in 1..n : v[k] = TransformByte(v[k - 1], src[k]) BY <1>4, <2>1
  <2> QED BY <2>2, <2>3 DEF Turns
<1> QED BY <1>1, <1>5 DEF g

\* What is left of w after the first n.
Rest(w, n) == SubSeq(w, n + 1, Len(w))

LEMMA RestGoesOn ==
    ASSUME NEW w \in Seq(Nat), NEW n \in Nat, n < Len(w)
    PROVE  Rest(w, n) # <<>> /\ Rest(w, n)[1] = w[n + 1] /\ Tail(Rest(w, n)) = Rest(w, n + 1)
<1> DEFINE a == n + 1 l == Len(w) r == SubSeq(w, a, l)
<1>1. l \in Nat BY LenProperties
<1>2. a \in 1..l /\ l \in a..l
  <2> HIDE DEF l
  <2> QED BY <1>1 DEF l
<1>3. Head(r) = w[a] /\ Tail(r) = SubSeq(w, a + 1, l) BY <1>2, HeadTailOfSubSeq
<1>4. \A i \in a..l : w[i] \in Nat
  <2>1. \A i \in a..l : i \in 1..l
    <3> HIDE DEF l
    <3> QED BY <1>1
  <2> QED BY <2>1, ElementOfSeq
<1>5. Len(r) = l - a + 1 /\ r \in Seq(Nat)
  <2> HIDE DEF a, l
  <2>1. a \in Int /\ l \in Int /\ a <= l BY <1>1, <1>2
  <2> QED BY <1>4, <2>1, SubSeqProperties
<1>6. Len(r) >= 1
  <2> HIDE DEF r, l
  <2> QED BY <1>1, <1>2, <1>5
<1>7. r # <<>> /\ r[1] = Head(r)
  <2> HIDE DEF r
  <2> QED BY <1>5, <1>6
<1> QED BY <1>3, <1>7 DEF Rest

\* A read of n bytes of the terminal.
LEMMA TransformReads ==
    ASSUME NEW T \in Seq(Nat), NEW f, Written(f, T), cr.hasCR \in BOOLEAN, NEW w \in Seq(Nat), NEW m,
           Sync(f, T, m, cr.hasCR, w), NEW n \in 0..Len(w), NEW src, src = SubSeq(w, 1, n)
    PROVE  \E k \in m..Len(T) : HandedTo(f, T, m, k, Transform(src), Rest(w, n))
<1> DEFINE g == [hasCR |-> cr.hasCR, out |-> <<>>] l == Len(w) N == Len(T)
<1>0. l \in Nat /\ N \in Nat /\ m \in Nat /\ m <= N /\ n \in Nat /\ n <= l
  <2>1. l \in Nat /\ N \in Nat BY LenProperties
  <2>2. m \in 0..N BY DEF Sync
  <2> HIDE DEF l, N
  <2> QED BY <2>1, <2>2 DEF l
<1>1. Len(src) = n /\ \A k \in 1..n : src[k] = w[k]
  <2>1. \A i \in 1..n : i \in 1..l
    <3> HIDE DEF l
    <3> QED BY <1>0
  <2>2. \A i \in 1..n : w[i] \in Nat BY <2>1, ElementOfSeq
  <2>3. n \in Int /\ 1 \in Int BY <1>0
  <2> DEFINE one == 1
  <2>4. one \in Int /\ \A i \in one..n : w[i] \in Nat BY <2>2
  <2> HIDE DEF one
  <2>5. /\ Len(SubSeq(w, one, n)) = IF one <= n THEN n - one + 1 ELSE 0
        /\ \A i \in 1..n - one + 1 : SubSeq(w, one, n)[i] = w[one + i - 1]
    BY <2>3, <2>4, SubSeqProperties
  <2>6. Len(src) = IF 1 <= n THEN n - 1 + 1 ELSE 0 BY <2>5 DEF one
  <2>7. \A i \in 1..n - 1 + 1 : src[i] = w[1 + i - 1] BY <2>5 DEF one
  <2>8. \A i \in 1..n : i \in 1..n - 1 + 1 /\ 1 + i - 1 = i BY <1>0
  <2> QED BY <1>0, <2>6, <2>7, <2>8
<1>2. PICK u : Turns(u, src, n, g) /\ Transform(src) = u[n]
  <2>1. Len(src) \in Nat BY <1>0, <1>1
  <2> QED BY <1>1, <2>1, TransformTurns
<1> DEFINE S == {i \in Nat : i <= n => \E k \in m..N : HandedTo(f, T, m, k, u[i], Rest(w, i))}
<1>3. 0 \in S
  <2>1. u[0] = g BY <1>2 DEF Turns
  <2>2. Rest(w, 0) = w
    <3> DEFINE z == 0
    <3>1. z + 1 = 1 OBVIOUS
    <3>2. SubSeq(w, 1, Len(w)) = w BY SubSeqFull
    <3> QED BY <3>1, <3>2 DEF Rest
  <2>3. SubSeq(T, m + 1, m) = <<>>
    <3> DEFINE a == m + 1
    <3>1. a \in Int /\ m \in Int /\ m < a BY <1>0
    <3> HIDE DEF a
    <3>2. SubSeq(T, a, m) = <<>> BY <3>1, SubSeqEmpty
    <3> QED BY <3>2 DEF a
  <2> DEFINE h == cr.hasCR o == <<>>
  <2>4. o = SubSeq(T, m + 1, m) /\ g = [hasCR |-> h, out |-> o] BY <2>3
  <2>5. h \in BOOLEAN /\ Sync(f, T, m, h, w) OBVIOUS
  <2> HIDE DEF g, h, o
  <2>6. HandedTo(f, T, m, m, g, w) BY <2>4, <2>5, Handed
  <2>7. m \in m..N BY <1>0
  <2> QED BY <2>1, <2>2, <2>6, <2>7
<1>4. ASSUME NEW i \in Nat \ {0}, i - 1 \in S PROVE i \in S
  <2> SUFFICES ASSUME i <= n PROVE \E k \in m..N : HandedTo(f, T, m, k, u[i], Rest(w, i)) OBVIOUS
  <2> DEFINE j == i - 1 t == u[j] x == Rest(w, j) y == u[i]
  <2> HIDE DEF N
  <2>1. j \in Nat /\ j <= n /\ j < l /\ j + 1 = i /\ i \in 1..n BY <1>0
  <2>2. PICK k \in m..N : HandedTo(f, T, m, k, t, x) BY <1>4, <2>1
  <2> HIDE DEF j
  <2>3. x # <<>> /\ x[1] = w[i] /\ Tail(x) = Rest(w, i)
    <3>1. Rest(w, j) # <<>> /\ Rest(w, j)[1] = w[j + 1] /\ Tail(Rest(w, j)) = Rest(w, j + 1)
      BY <2>1, RestGoesOn DEF l
    <3> QED BY <2>1, <3>1
  <2>4. y = TransformByte(t, x[1])
    <3>1. y = TransformByte(u[i - 1], src[i]) BY <1>2, <2>1 DEF Turns
    <3> QED BY <1>1, <2>1, <2>3, <3>1 DEF j
  <2> HIDE DEF t, x, y
  <2>5. t.hasCR \in BOOLEAN /\ t = [hasCR |-> t.hasCR, out |-> SubSeq(T, m + 1, k)] /\ Sync(f, T, k, t.hasCR, x)
    BY <2>2 DEF HandedTo
  <2> DEFINE h == t.hasCR
  <2>6. h \in BOOLEAN BY <2>5
  <2>7. t = [hasCR |-> h, out |-> SubSeq(T, m + 1, k)] /\ Sync(f, T, k, h, x) BY <2>5
  <2> HIDE DEF h
  <2>8. y = TransformByte([hasCR |-> h, out |-> SubSeq(T, m + 1, k)], x[1]) BY <2>4, <2>7
  <2>9. k \in Nat /\ m <= k /\ m \in Nat BY <1>0
  <2>10. PICK k2 \in k..Len(T) : HandedTo(f, T, m, k2, y, Tail(x))
    BY <2>3, <2>6, <2>7, <2>8, <2>9, ByteRead
  <2>11. k2 \in m..N BY <1>0, <2>9, <2>10 DEF N
  <2>12. HandedTo(f, T, m, k2, u[i], Rest(w, i)) BY <2>3, <2>10 DEF y
  <2> QED BY <2>11, <2>12
<1>5. Nat \subseteq S
  <2> HIDE DEF S
  <2> QED BY <1>3, <1>4, UpToAll
<1>6. n \in S
  <2> HIDE DEF S
  <2> QED BY <1>0, <1>5
<1> QED BY <1>0, <1>2, <1>6

-----------------------------------------------------------------------------
(* Cuts.                                                                    *)
\* Two cuts of the same symbols.
Alike(s, p, t, q, c) == p + c <= Len(s) /\ q + c <= Len(t) /\ \A j \in 1..c : s[p + j] = t[q + j]

SameCuts(s, p, t, q, c) == SubSeq(s, p + 1, p + c) = SubSeq(t, q + 1, q + c)

LEMMA CutSame ==
    ASSUME NEW s \in Seq(Nat), NEW t \in Seq(Nat), NEW p \in Nat, NEW q \in Nat, NEW c \in Nat,
           Alike(s, p, t, q, c)
    PROVE  SameCuts(s, p, t, q, c)
<1>0. p + c <= Len(s) /\ q + c <= Len(t) /\ \A j \in 1..c : s[p + j] = t[q + j] BY DEF Alike
<1> DEFINE a == p + 1 b == p + c d == q + 1 e == q + c x == SubSeq(s, a, b) y == SubSeq(t, d, e)
           m == Len(s) n == Len(t)
<1>1. m \in Nat /\ n \in Nat BY LenProperties
<1>2. a \in Int /\ b \in Int /\ d \in Int /\ e \in Int /\ b - a + 1 = c /\ e - d + 1 = c
      /\ (IF a <= b THEN b - a + 1 ELSE 0) = c /\ (IF d <= e THEN e - d + 1 ELSE 0) = c
  OBVIOUS
<1>3. \A i \in a..b : s[i] \in Nat
  <2> SUFFICES ASSUME NEW i \in a..b PROVE s[i] \in Nat OBVIOUS
  <2>1. i \in 1..m
    <3>1. b <= m BY <1>0
    <3> HIDE DEF m
    <3> QED BY <1>1, <3>1
  <2> QED BY <2>1, ElementOfSeq
<1>4. \A i \in d..e : t[i] \in Nat
  <2> SUFFICES ASSUME NEW i \in d..e PROVE t[i] \in Nat OBVIOUS
  <2>1. i \in 1..n
    <3>1. e <= n BY <1>0
    <3> HIDE DEF n
    <3> QED BY <1>1, <3>1
  <2> QED BY <2>1, ElementOfSeq
<1>5. \A j \in 1..c : a + j - 1 = p + j /\ d + j - 1 = q + j OBVIOUS
<1> HIDE DEF a, b, d, e
<1>6. /\ x \in Seq(Nat) /\ Len(x) = (IF a <= b THEN b - a + 1 ELSE 0)
      /\ \A j \in 1..b - a + 1 : x[j] = s[a + j - 1]
  BY <1>2, <1>3, SubSeqProperties
<1>7. /\ y \in Seq(Nat) /\ Len(y) = (IF d <= e THEN e - d + 1 ELSE 0)
      /\ \A j \in 1..e - d + 1 : y[j] = t[d + j - 1]
  BY <1>2, <1>4, SubSeqProperties
<1> HIDE DEF x, y
<1>8. \A j \in 1..c : x[j] = s[p + j] BY <1>2, <1>5, <1>6
<1>9. \A j \in 1..c : y[j] = t[q + j] BY <1>2, <1>5, <1>7
<1>10. x \in Seq(Nat) /\ y \in Seq(Nat) /\ Len(x) = c /\ Len(y) = c BY <1>2, <1>6, <1>7
<1>11. \A j \in 1..c : x[j] = y[j] BY <1>0, <1>8, <1>9
<1>12. x = y BY <1>10, <1>11, SeqEqual
<1> QED BY <1>12 DEF SameCuts, x, y, a, b, d, e

\* What is between a and b of s.
CutSo(s, a, b, x) == /\ x = SubSeq(s, a + 1, b) /\ x \in Seq(Nat) /\ Len(x) = b - a
                     /\ \A j \in 1..b - a : x[j] = s[a + j]

LEMMA CutIs ==
    ASSUME NEW s \in Seq(Nat), NEW a \in Nat, NEW b \in a..Len(s)
    PROVE  CutSo(s, a, b, SubSeq(s, a + 1, b))
<1> DEFINE c == a + 1 m == Len(s) x == SubSeq(s, c, b)
<1>1. m \in Nat /\ b <= m
  <2>1. m \in Nat BY LenProperties
  <2> HIDE DEF m
  <2> QED BY <2>1 DEF m
<1>2. \A i \in c..b : s[i] \in Nat
  <2>1. \A i \in c..b : i \in 1..m
    <3> HIDE DEF m
    <3> QED BY <1>1
  <2> QED BY <2>1, ElementOfSeq
<1> HIDE DEF m
<1>3. b \in Nat /\ a <= b BY <1>1 DEF m
<1>4. c \in Int /\ b \in Int /\ b - c + 1 = b - a /\ (IF c <= b THEN b - c + 1 ELSE 0) = b - a
      /\ \A j \in 1..b - a : c + j - 1 = a + j
  BY <1>3
<1> HIDE DEF c
<1>5. /\ x \in Seq(Nat) /\ Len(x) = (IF c <= b THEN b - c + 1 ELSE 0)
      /\ \A j \in 1..b - c + 1 : x[j] = s[c + j - 1]
  <2>1. c \in Int /\ b \in Int BY <1>4
  <2> QED BY <1>2, <2>1, SubSeqProperties
<1> HIDE DEF x
<1>6. \A j \in 1..b - a : x[j] = s[a + j] BY <1>4, <1>5
<1> QED BY <1>4, <1>5, <1>6 DEF CutSo, x, c

\* Handing out the first c of what there is, and keeping the others.
LEMMA HandOut ==
    ASSUME NEW g \in Seq(Nat), NEW o \in Seq(Nat), NEW c \in 0..Len(o)
    PROVE  /\ (g \o SubSeq(o, 1, c)) \o SubSeq(o, c + 1, Len(o)) = g \o o
           /\ g \o SubSeq(o, 1, c) \in Seq(Nat) /\ SubSeq(o, c + 1, Len(o)) \in Seq(Nat)
<1> DEFINE l == Len(o) x == SubSeq(o, 1, c) y == SubSeq(o, c + 1, l)
<1>1. l \in Nat /\ c \in Nat /\ c <= l
  <2>1. l \in Nat BY LenProperties
  <2> HIDE DEF l
  <2> QED BY <2>1 DEF l
<1>2. x \in Seq(Nat)
  <2> DEFINE z == 0
  <2>1. z \in Nat /\ c \in z..Len(o) /\ z + 1 = 1 BY <1>1
  <2> HIDE DEF z
  <2>2. CutSo(o, z, c, SubSeq(o, z + 1, c)) BY <2>1, CutIs
  <2> QED BY <2>1, <2>2 DEF CutSo
<1>3. y \in Seq(Nat)
  <2>1. l \in c..Len(o)
    <3> HIDE DEF l
    <3> QED BY <1>1 DEF l
  <2>2. CutSo(o, c, l, y) BY <1>1, <2>1, CutIs
  <2> QED BY <2>2 DEF CutSo
<1>4. x \o y = o
  <2> DEFINE one == 1
  <2>1. one \in 1..Len(o) + 1 /\ c \in one - 1..Len(o) /\ l \in c..Len(o)
    <3> HIDE DEF l
    <3> QED BY <1>1 DEF l
  <2> HIDE DEF one, l
  <2>2. SubSeq(o, one, c) \o SubSeq(o, c + 1, l) = SubSeq(o, one, l) BY <2>1, ConcatAdjacentSubSeq
  <2>3. SubSeq(o, 1, Len(o)) = o BY SubSeqFull
  <2> QED BY <2>2, <2>3 DEF one, l
<1> HIDE DEF x, y
<1>5. (g \o x) \o y = g \o (x \o y) BY <1>2, <1>3, Onward
<1>6. g \o x \in Seq(Nat) BY <1>2
<1> QED BY <1>3, <1>4, <1>5, <1>6 DEF x, y, l

-----------------------------------------------------------------------------
(* What the daemon sends.                                                   *)
LEMMA ScriptTyped ==
    ASSUME NEW scr, NEW N, IsScript(scr, N), NEW all, all = ScriptBytes(scr, N)
    PROVE  all \in Seq(Nat) /\ Len(all) \in Nat \ {0} /\ all[1] \in {Begin, Note}
<1>1. PICK b, u : Recounts(scr, N, b, u) BY ScriptLaid
<1>2. N \in Nat \ {0} /\ IsItem(scr[1]) BY DEF IsScript
<1>3. N \in 0..N /\ 1 \in 1..N BY <1>2
<1>4. all = b[N] BY <1>1, <1>3 DEF Recounts
<1>5. all \in Seq(Nat) BY <1>1, <1>3, <1>4 DEF Recounts, Concatenates
<1> DEFINE k == 1 v == ItemBytes(scr[k])
<1>6. v \in Seq(Nat) /\ Len(v) \in Nat \ {0} /\ v[1] \in {Begin, Note} BY <1>2, ItemTyped
<1>7. ItemLies(scr, N, b, u, k) BY <1>1, <1>3, ItemAt
<1>8. b[0] = <<>> BY <1>1 DEF Recounts, Concatenates
<1>9. Len(b[k - 1]) = 0 BY <1>8
<1>10. \A j \in 1..Len(v) : all[0 + j] = v[j] BY <1>4, <1>7, <1>9 DEF ItemLies
<1>11. Len(all) >= Len(v)
  <2> DEFINE x == Len(v) y == Len(b[k - 1]) z == Len(b[k]) w == Len(all)
  <2>1. x \in Nat /\ y = 0 /\ z = y + x /\ z <= w BY <1>4, <1>6, <1>7, <1>9 DEF ItemLies
  <2> HIDE DEF x, y, z, w
  <2>2. w >= x BY <2>1
  <2> QED BY <2>2 DEF w, x
<1>12. Len(all) \in Nat BY <1>5, LenProperties
<1>13. 1 \in 1..Len(v) /\ 0 + 1 = 1 BY <1>6
<1>14. all[1] = v[1] BY <1>10, <1>13
<1> HIDE DEF v
<1> QED BY <1>5, <1>6, <1>11, <1>12, <1>14

\* What the client with a terminal writes.
Wrapped(T, all) ==
    /\ T \in Seq(Nat) /\ Len(T) = Len(all) + 4 /\ T[1] = Esc /\ T[2] = DcsP
    /\ \A j \in 1..Len(all) : T[2 + j] = all[j]
    /\ T[Len(all) + 3] = Esc /\ T[Len(all) + 4] = Backslash

LEMMA WrappedIs ==
    ASSUME NEW all \in Seq(Nat), NEW T, T = DscPreamble \o all \o DscTrailer PROVE Wrapped(T, all)
<1> DEFINE x == DscPreamble y == x \o all z == DscTrailer n == Len(all)
<1>1. x \in Seq(Nat) /\ Len(x) = 2 /\ x[1] = Esc /\ x[2] = DcsP
      /\ z \in Seq(Nat) /\ Len(z) = 2 /\ z[1] = Esc /\ z[2] = Backslash
  BY DEF DscPreamble, DscTrailer, Esc, DcsP, Backslash
<1>2. n \in Nat BY LenProperties
<1>3. T = y \o z OBVIOUS
<1> HIDE DEF x, z
<1>4. Joint(y, x, all, 2, n, Nat)
  <2>1. Joint(x \o all, x, all, Len(x), Len(all), Nat) BY <1>1, GluedAs
  <2> QED BY <1>1, <2>1
<1>5. y \in Seq(Nat) /\ Len(y) = 2 + n BY <1>4 DEF Joint
<1>6. Joint(T, y, z, Len(y), 2, Nat)
  <2> HIDE DEF y
  <2>1. Joint(y \o z, y, z, Len(y), Len(z), Nat) BY <1>1, <1>5, GluedAs
  <2> QED BY <1>1, <1>3, <2>1
<1> HIDE DEF y, n
<1>7. /\ T \in Seq(Nat) /\ Len(T) = Len(y) + 2
      /\ \A j \in 1..Len(y) : T[j] = y[j]
      /\ \A j \in 1..2 : T[Len(y) + j] = z[j]
  BY <1>6 DEF Joint
<1>8. \A j \in 1..2 + n : T[j] = y[j] BY <1>5, <1>7
<1>9. 1 \in 1..2 /\ 2 \in 1..2 /\ 1 \in 1..2 + n /\ 2 \in 1..2 + n /\ \A j \in 1..n : 2 + j \in 1..2 + n BY <1>2
<1>10. y[1] = Esc /\ y[2] = DcsP /\ \A j \in 1..n : y[2 + j] = all[j] BY <1>1, <1>4, <1>9 DEF Joint
<1>11. T[1] = Esc /\ T[2] = DcsP /\ \A j \in 1..n : T[2 + j] = all[j] BY <1>8, <1>9, <1>10
<1>12. T[(2 + n) + 1] = Esc /\ T[(2 + n) + 2] = Backslash BY <1>1, <1>5, <1>7, <1>9
<1>13. (2 + n) + 1 = n + 3 /\ (2 + n) + 2 = n + 4 /\ Len(T) = n + 4 BY <1>2, <1>5, <1>7
<1> QED BY <1>7, <1>11, <1>12, <1>13 DEF Wrapped, n

\* A death of the client leaves the terminal in step with its reader.
LEMMA DeathInStep ==
    ASSUME NEW T \in Seq(Nat), NEW f, Written(f, T), NEW m, NEW h \in BOOLEAN, NEW w, w # <<>>,
           Sync(f, T, m, h, w)
    PROVE  Sync(f, T, m, h, IF w[1] = LF THEN <<LF>> ELSE <<>>)
<1> DEFINE n == Len(T)
<1>1. n \in Nat /\ m \in 0..n /\ f[n + 1] = <<>> BY LenProperties DEF Sync, Written
<1>2. ASSUME NEW i \in 1..n, w = f[i] PROVE w[1] # LF
  <2>1. FirstSo(f, T, i, w) BY <1>2, FirstShown
  <2> QED BY <2>1 DEF FirstSo
<1> HIDE DEF n
<1>3. CASE ~h /\ (w = f[m + 1] \/ w = <<>>)
  <2>1. m + 1 \in 1..n BY <1>1, <1>3
  <2>2. w[1] # LF BY <1>2, <1>3, <2>1
  <2> QED BY <1>1, <1>3, <2>2 DEF Sync, n
<1>4. CASE h /\ m < n /\ T[m + 1] = CR /\ (w = f[m + 2] \/ w = <<>>)
  <2>1. m + 2 \in 1..n
    <3>1. m + 2 # n + 1 BY <1>1, <1>4
    <3> QED BY <1>1, <1>4, <3>1
  <2>2. w[1] # LF BY <1>2, <1>4, <2>1
  <2> QED BY <1>1, <1>4, <2>2 DEF Sync, n
<1>5. CASE h /\ m < n /\ T[m + 1] = LF /\ (w = <<LF>> \o f[m + 2] \/ w = <<LF>>)
  <2> DEFINE e == f[m + 2]
  <2>1. e \in Seq(Nat)
    <3>1. m + 2 \in 1..Len(T) + 1 BY <1>1, <1>5 DEF n
    <3> QED BY <3>1 DEF Written
  <2>2. w = <<LF>> \o e \/ w = <<LF>> BY <1>5
  <2> HIDE DEF e
  <2>3. LF \in Nat BY DEF LF
  <2>4. w[1] = LF
    <3>1. CASE w = <<LF>> \o e BY <2>1, <2>3, <3>1
    <3>2. CASE w = <<LF>> BY <3>2
    <3> QED BY <2>2, <3>1, <3>2
  <2> QED BY <1>1, <1>5, <2>4 DEF Sync, n
<1> QED BY <1>3, <1>4, <1>5 DEF Sync, n

\* g is what the reader handed out after the first d symbols, and w what the terminal still writes.
InStep(f, T, g, h, w) == \E d \in {0, 2} : \E m \in d..Len(T) : g = SubSeq(T, d + 1, m) /\ Sync(f, T, m, h, w)

\* A read after the first.
LEMMA ReadGoesOn ==
    ASSUME NEW T \in Seq(Nat), NEW f, Written(f, T), cr.hasCR \in BOOLEAN, NEW w \in Seq(Nat), NEW g,
           InStep(f, T, g, cr.hasCR, w), NEW n \in 0..Len(w), NEW t, t = Transform(SubSeq(w, 1, n))
    PROVE  InStep(f, T, g \o t.out, t.hasCR, Rest(w, n)) /\ t.hasCR \in BOOLEAN /\ t.out \in Seq(Nat)
<1>1. PICK d \in {0, 2} : \E m \in d..Len(T) : g = SubSeq(T, d + 1, m) /\ Sync(f, T, m, cr.hasCR, w)
  BY DEF InStep
<1>2. PICK m \in d..Len(T) : g = SubSeq(T, d + 1, m) /\ Sync(f, T, m, cr.hasCR, w) BY <1>1
<1> DEFINE N == Len(T) src == SubSeq(w, 1, n)
<1>3. N \in Nat /\ d \in Nat /\ m \in Nat /\ d <= m /\ m <= N
  <2>1. N \in Nat BY LenProperties
  <2> HIDE DEF N
  <2> QED BY <1>1, <1>2, <2>1 DEF N
<1>4. PICK k \in m..Len(T) : HandedTo(f, T, m, k, Transform(src), Rest(w, n)) BY <1>2, TransformReads
<1>5. /\ t.hasCR \in BOOLEAN /\ t = [hasCR |-> t.hasCR, out |-> SubSeq(T, m + 1, k)]
      /\ Sync(f, T, k, t.hasCR, Rest(w, n))
  BY <1>4 DEF HandedTo
<1>6. t.out = SubSeq(T, m + 1, k) BY <1>5
<1> HIDE DEF N, src
<1>7. k \in Nat /\ m <= k /\ k <= N BY <1>3, <1>4 DEF N
<1>8. g \o t.out = SubSeq(T, d + 1, k)
  <2> DEFINE a == d + 1
  <2>1. a \in 1..Len(T) + 1 /\ m \in a - 1..Len(T) /\ k \in m..Len(T) BY <1>3, <1>7 DEF N
  <2> HIDE DEF a
  <2>2. SubSeq(T, a, m) \o SubSeq(T, m + 1, k) = SubSeq(T, a, k) BY <2>1, ConcatAdjacentSubSeq
  <2> QED BY <1>2, <1>6, <2>2 DEF a
<1>9. t.out \in Seq(Nat)
  <2>1. CutSo(T, m, k, SubSeq(T, m + 1, k)) BY <1>3, <1>4, CutIs
  <2> QED BY <1>6, <2>1 DEF CutSo
<1>10. k \in d..Len(T) BY <1>3, <1>7 DEF N
<1>11. InStep(f, T, g \o t.out, t.hasCR, Rest(w, n)) BY <1>1, <1>5, <1>8, <1>10 DEF InStep
<1> QED BY <1>5, <1>9, <1>11

\* How what a terminal writes begins.
TerminalStarts(f, w) == /\ w = <<Esc>> \o (<<DcsP>> \o f[3]) /\ w \in Seq(Nat) /\ f[3] \in Seq(Nat)
                        /\ Len(w) = 2 + Len(f[3]) /\ w[1] = Esc /\ w[2] = DcsP
                        /\ \A j \in 1..Len(f[3]) : w[2 + j] = f[3][j]

LEMMA TerminalBegins ==
    ASSUME NEW all, Len(all) \in Nat, NEW T, Wrapped(T, all), NEW f, Written(f, T)
    PROVE  TerminalStarts(f, f[1])
<1>1. Len(T) = Len(all) + 4 /\ T[1] = Esc /\ T[2] = DcsP BY DEF Wrapped
<1> DEFINE n == Len(all) w == f[1] e == f[3]
<1>2. n \in Nat OBVIOUS
<1> HIDE DEF n
<1>3. 1 \in 1..n + 4 /\ 2 \in 1..n + 4 /\ 3 \in 1..(n + 4) + 1 BY <1>2
<1>4. e \in Seq(Nat) BY <1>1, <1>3 DEF Written, n
<1>5. w = ShownAs(T[1]) \o f[1 + 1] /\ f[2] = ShownAs(T[2]) \o f[2 + 1] BY <1>1, <1>3 DEF Written, n
<1>6. ShownAs(T[1]) = <<Esc>> /\ ShownAs(T[2]) = <<DcsP>> BY <1>1 DEF ShownAs, Esc, DcsP, LF
<1>7. 1 + 1 = 2 /\ 2 + 1 = 3 OBVIOUS
<1>8. w = <<Esc>> \o (<<DcsP>> \o e) BY <1>5, <1>6, <1>7
<1> HIDE DEF w, e
<1>9. Esc \in Nat /\ DcsP \in Nat BY DEF Esc, DcsP
<1> DEFINE x == <<Esc>> y == <<DcsP>> z == y \o e
<1>10. x \in Seq(Nat) /\ y \in Seq(Nat) /\ Len(x) = 1 /\ Len(y) = 1 /\ x[1] = Esc /\ y[1] = DcsP BY <1>9
<1>11. w = x \o (y \o e) BY <1>8
<1> HIDE DEF x, y
<1>12. Joint(y \o e, y, e, 1, Len(e), Nat)
  <2>1. Joint(y \o e, y, e, Len(y), Len(e), Nat) BY <1>4, <1>10, GluedAs
  <2> QED BY <1>10, <2>1
<1>13. z \in Seq(Nat) /\ Len(z) = 1 + Len(e) /\ z[1] = DcsP /\ \A j \in 1..Len(e) : z[1 + j] = e[j]
  <2>1. 1 \in 1..1 OBVIOUS
  <2> QED BY <1>10, <1>12, <2>1 DEF Joint
<1>14. w = x \o z BY <1>11
<1> HIDE DEF z
<1>15. Joint(w, x, z, 1, Len(z), Nat)
  <2>1. Joint(x \o z, x, z, Len(x), Len(z), Nat) BY <1>10, <1>13, GluedAs
  <2> QED BY <1>10, <1>14, <2>1
<1> DEFINE l == Len(e)
<1>16. l \in Nat BY <1>4, LenProperties
<1>17. w \in Seq(Nat) /\ Len(w) = 1 + (1 + l) /\ w[1] = Esc /\ \A j \in 1..1 + l : w[1 + j] = z[j]
  <2>1. 1 \in 1..1 OBVIOUS
  <2> QED BY <1>10, <1>13, <1>15, <2>1 DEF Joint
<1>18. \A j \in 1..l : z[1 + j] = e[j] BY <1>13
<1> HIDE DEF l
<1>19. Len(w) = 2 + l /\ w[2] = DcsP /\ \A j \in 1..l : w[2 + j] = e[j]
  <2>1. 1 \in 1..1 + l /\ 1 + 1 = 2 /\ 1 + (1 + l) = 2 + l BY <1>16
  <2>2. \A j \in 1..l : 1 + j \in 1..1 + l /\ 2 + j = 1 + (1 + j) BY <1>16
  <2> QED BY <1>13, <1>17, <1>18, <2>1, <2>2
<1> QED BY <1>4, <1>8, <1>17, <1>19 DEF TerminalStarts, w, e, l

\* The same, for a t and a g that the prover is not to look into.
TurnsInto(t, w, n) == t = Transform(SubSeq(w, 1, n))
GoesOn(f, T, g, w, n, t) ==
    InStep(f, T, g \o t.out, t.hasCR, Rest(w, n)) /\ t.hasCR \in BOOLEAN /\ t.out \in Seq(Nat)

LEMMA ReadOn ==
    ASSUME NEW T \in Seq(Nat), NEW f, Written(f, T), cr.hasCR \in BOOLEAN, NEW w \in Seq(Nat), NEW g,
           InStep(f, T, g, cr.hasCR, w), NEW n \in 0..Len(w), NEW t, TurnsInto(t, w, n)
    PROVE  GoesOn(f, T, g, w, n, t)
  BY ReadGoesOn DEF TurnsInto, GoesOn

\* The first read: its bytes are the preamble, whole and dropped or not.
LEMMA FirstRead ==
    ASSUME NEW all, Len(all) \in Nat, NEW T, Wrapped(T, all), NEW f, Written(f, T), ~cr.hasCR, cr.hasCR \in BOOLEAN,
           ~cr.seenDSC, NEW w, w = f[1], NEW n \in 1..Len(w),
           NEW t, t = Transform(FilterDSC(SubSeq(w, 1, n)))
    PROVE  InStep(f, T, t.out, t.hasCR, Rest(w, n)) /\ t.hasCR \in BOOLEAN /\ t.out \in Seq(Nat)
<1> DEFINE e == f[3] src == SubSeq(w, 1, n) l == Len(w) N == Len(T)
<1>1. TerminalStarts(f, w) BY TerminalBegins
<1>2. /\ w \in Seq(Nat) /\ e \in Seq(Nat) /\ l = 2 + Len(e) /\ w[1] = Esc /\ w[2] = DcsP
      /\ \A j \in 1..Len(e) : w[2 + j] = e[j]
  BY <1>1 DEF TerminalStarts
<1>3. T \in Seq(Nat) /\ N = Len(all) + 4 BY DEF Wrapped
<1>4. N \in Nat /\ 0 \in 0..N /\ 2 \in 0..N BY <1>3
<1>5. Len(e) \in Nat /\ l \in Nat /\ n \in Nat /\ n <= l /\ n \in 1..l
  <2>1. Len(e) \in Nat /\ l \in Nat BY <1>2, LenProperties
  <2>2. n \in 1..l OBVIOUS
  <2> HIDE DEF l, e
  <2> QED BY <2>1, <2>2
<1>6. src \in Seq(Nat) /\ Len(src) = n /\ \A j \in 1..n : src[j] = w[j]
  <2> DEFINE z == 0
  <2>1. z \in Nat /\ n \in z..Len(w) /\ z + 1 = 1 /\ n - z = n /\ \A j \in 1..n : z + j = j BY <1>5
  <2> HIDE DEF z
  <2>2. CutSo(w, z, n, SubSeq(w, z + 1, n)) BY <1>2, <2>1, CutIs
  <2> QED BY <2>1, <2>2 DEF CutSo
<1>7. Len(DscPreamble) = 2 BY DEF DscPreamble
<1>8. CASE n = 1
  <2>1. FilterDSC(src) = src
    <3>1. ~(Len(src) >= Len(DscPreamble)) BY <1>6, <1>7, <1>8
    <3> HIDE DEF src
    <3> QED BY <3>1 DEF FilterDSC, StartsWith
  <2>2. t = Transform(SubSeq(w, 1, n)) BY <2>1
  <2> DEFINE g == <<>>
  <2>3. InStep(f, T, g, cr.hasCR, w)
    <3> DEFINE d == 0
    <3>1. SubSeq(T, d + 1, d) = <<>>
      <4> DEFINE a == d + 1
      <4>1. a \in Int /\ d \in Int /\ d < a OBVIOUS
      <4> HIDE DEF a, d
      <4>2. SubSeq(T, a, d) = <<>> BY <4>1, SubSeqEmpty
      <4> QED BY <4>2 DEF a
    <3>2. d \in {0, 2} /\ d \in d..Len(T) /\ d \in 0..Len(T) /\ d + 1 = 1 BY <1>4
    <3> HIDE DEF d
    <3>3. Sync(f, T, d, cr.hasCR, w) BY <3>2 DEF Sync
    <3> QED BY <3>1, <3>2, <3>3 DEF InStep
  <2>4. n \in 0..Len(w) BY <1>5
  <2> HIDE DEF g
  <2>5. InStep(f, T, g \o t.out, t.hasCR, Rest(w, n)) /\ t.hasCR \in BOOLEAN /\ t.out \in Seq(Nat)
    <3>1. TurnsInto(t, w, n) BY <2>2 DEF TurnsInto
    <3>2. GoesOn(f, T, g, w, n, t) BY <1>2, <1>3, <2>3, <2>4, <3>1, ReadOn
    <3> QED BY <3>2 DEF GoesOn
  <2>6. g \o t.out = t.out
    <3> DEFINE o == t.out
    <3>1. o \in Seq(Nat) BY <2>5
    <3> HIDE DEF o
    <3>2. g \o o = o BY <3>1 DEF g
    <3> QED BY <3>2 DEF o
  <2> QED BY <2>5, <2>6
<1>9. CASE n # 1
  <2> DEFINE c == n - 2 k == Len(e)
  <2>1. c \in Nat /\ c \in 0..k /\ c + 2 = n /\ k \in Nat /\ l = 2 + k BY <1>2, <1>5, <1>9
  <2>2. StartsWith(src, DscPreamble)
    <3> DEFINE z == 0 two == 2 p == SubSeq(src, z + 1, two)
    <3>1. z \in Nat /\ two \in z..Len(src) /\ z + 1 = 1 /\ two - z = 2 /\ \A j \in 1..2 : z + j = j
      BY <1>5, <1>6, <1>9
    <3> HIDE DEF z, two
    <3>2. CutSo(src, z, two, p) BY <1>6, <3>1, CutIs
    <3>3. p \in Seq(Nat) /\ Len(p) = 2 /\ \A j \in 1..2 : p[j] = src[j]
      <4> HIDE DEF p, src
      <4> QED BY <3>1, <3>2 DEF CutSo
    <3> HIDE DEF p
    <3>4. 1 \in 1..2 /\ 2 \in 1..2 /\ 1 \in 1..n /\ 2 \in 1..n BY <1>5, <1>9
    <3>5. p[1] = Esc /\ p[2] = DcsP BY <1>2, <1>6, <3>3, <3>4
    <3>6. p = <<Esc, DcsP>> BY <3>3, <3>5, PairIs
    <3>7. Len(src) >= 2 BY <1>5, <1>6, <1>9
    <3> QED BY <1>7, <3>1, <3>6, <3>7 DEF StartsWith, DscPreamble, p, two
  <2>3. FilterDSC(src) = SubSeq(src, 2 + 1, n) BY <1>6, <1>7, <2>2 DEF FilterDSC
  <2>4. SubSeq(src, 2 + 1, n) = SubSeq(e, 1, c)
    <3> DEFINE p == 2 q == 0
    <3>1. p \in Nat /\ q \in Nat /\ p + c <= Len(src) /\ q + c <= Len(e)
          /\ p + c = n /\ q + c = c /\ q + 1 = 1
      BY <1>6, <2>1
    <3>2. \A j \in 1..c : src[p + j] = e[q + j]
      <4> SUFFICES ASSUME NEW j \in 1..c PROVE src[2 + j] = e[j] BY <2>1
      <4>1. 2 + j \in 1..n /\ j \in 1..k
        <5> HIDE DEF c, k
        <5> QED BY <1>5, <2>1
      <4> QED BY <1>2, <1>6, <4>1
    <3> HIDE DEF p, q, c, src, e
    <3>4. Alike(src, p, e, q, c) BY <3>1, <3>2 DEF Alike
    <3>5. SameCuts(src, p, e, q, c) BY <1>2, <1>6, <2>1, <3>1, <3>4, CutSame
    <3>3. SubSeq(src, p + 1, p + c) = SubSeq(e, q + 1, q + c) BY <3>5 DEF SameCuts
    <3> QED BY <3>1, <3>3 DEF p
  <2>5. t = Transform(SubSeq(e, 1, c)) BY <2>3, <2>4
  <2>6. Rest(e, c) = Rest(w, n)
    <3> DEFINE p == 2 + c q == c b == k - c
    <3>1. p \in Nat /\ q \in Nat /\ b \in Nat /\ p + b <= Len(w) /\ q + b <= Len(e)
          /\ p + b = l /\ q + b = k /\ p = n
      <4>1. l = Len(w) /\ k = Len(e) OBVIOUS
      <4> HIDE DEF l, k, c, e
      <4>2. b \in Nat /\ p + b = l /\ q + b = k /\ p = n /\ p \in Nat /\ q \in Nat BY <2>1
      <4>3. l <= l /\ k <= k BY <2>1
      <4> HIDE DEF p, q, b
      <4> QED BY <4>1, <4>2, <4>3
    <3>2. \A j \in 1..b : w[p + j] = e[q + j]
      <4> SUFFICES ASSUME NEW j \in 1..b PROVE w[(2 + c) + j] = e[c + j] OBVIOUS
      <4>1. c + j \in 1..k /\ (2 + c) + j = 2 + (c + j)
        <5> HIDE DEF c, k
        <5> QED BY <2>1
      <4> QED BY <1>2, <4>1
    <3> HIDE DEF p, q, b, e, l, k
    <3>4. p \in Nat /\ q \in Nat /\ b \in Nat /\ Alike(w, p, e, q, b) BY <3>1, <3>2 DEF Alike
    <3>5. SameCuts(w, p, e, q, b) BY <1>2, <3>4, CutSame
    <3>3. SubSeq(w, p + 1, p + b) = SubSeq(e, q + 1, q + b) BY <3>5 DEF SameCuts
    <3> QED BY <3>1, <3>3 DEF Rest, q, l, k
  <2> DEFINE g == <<>>
  <2>7. InStep(f, T, g, cr.hasCR, e)
    <3> DEFINE d == 2
    <3>1. SubSeq(T, d + 1, d) = <<>>
      <4> DEFINE a == d + 1
      <4>1. a \in Int /\ d \in Int /\ d < a OBVIOUS
      <4> HIDE DEF a, d
      <4>2. SubSeq(T, a, d) = <<>> BY <4>1, SubSeqEmpty
      <4> QED BY <4>2 DEF a
    <3>2. d \in {0, 2} /\ d \in d..Len(T) /\ d \in 0..Len(T) /\ d + 1 = 3 BY <1>4
    <3> HIDE DEF d
    <3>3. Sync(f, T, d, cr.hasCR, e) BY <3>2 DEF Sync
    <3> QED BY <3>1, <3>2, <3>3 DEF InStep
  <2>8. c \in 0..Len(e) BY <2>1
  <2> HIDE DEF g, c, e
  <2>9. InStep(f, T, g \o t.out, t.hasCR, Rest(e, c)) /\ t.hasCR \in BOOLEAN /\ t.out \in Seq(Nat)
    <3>1. TurnsInto(t, e, c) BY <2>5 DEF TurnsInto
    <3>2. GoesOn(f, T, g, e, c, t) BY <1>2, <1>3, <2>7, <2>8, <3>1, ReadOn
    <3> QED BY <3>2 DEF GoesOn
  <2>10. g \o t.out = t.out
    <3> DEFINE o == t.out
    <3>1. o \in Seq(Nat) BY <2>9
    <3> HIDE DEF o
    <3>2. g \o o = o BY <3>1 DEF g
    <3> QED BY <3>2 DEF o
  <2> QED BY <2>6, <2>9, <2>10
<1> QED BY <1>8, <1>9

-----------------------------------------------------------------------------
(* The reader and what it reads from, step by step.                         *)
\* What was handed out and is held back follows the terminal.
TerminalSo(f) ==
    /\ Written(f, Sent)
    /\ cr.seenDSC => InStep(f, Sent, got \o cr.pending, cr.hasCR, wire)
    /\ ~cr.seenDSC => cr = NoReader /\ got = <<>> /\ wire \in {f[1], <<>>}

PipeSo(m) ==
    /\ m \in 0..Len(Sent) /\ got = SubSeq(Sent, 1, m)
    /\ wire \in {SubSeq(Sent, m + 1, Len(Sent)), <<>>} /\ cr = NoReader

CodecTypeOK ==
    /\ script \in Scripts /\ noEcho \in BOOLEAN /\ wire \in Seq(Nat) /\ got \in Seq(Nat)
    /\ cr \in [hasCR : BOOLEAN, seenDSC : BOOLEAN, pending : Seq(Nat)]

CodecInv ==
    /\ CodecTypeOK
    /\ noEcho => \E f : TerminalSo(f)
    /\ ~noEcho => \E m : PipeSo(m)

LEMMA ScriptIs == ASSUME script \in Scripts PROVE IsScript(script, Len(script))
  BY CodecAssumption DEF IsScript

LEMMA SentIs ==
    ASSUME script \in Scripts, NEW all, all = ScriptBytes(script, Len(script))
    PROVE  /\ all \in Seq(Nat) /\ Len(all) \in Nat \ {0} /\ all[1] \in {Begin, Note}
           /\ Sent \in Seq(Nat) /\ (noEcho => Wrapped(Sent, all)) /\ (~noEcho => Sent = all)
<1>1. IsScript(script, Len(script)) BY ScriptIs
<1>2. all \in Seq(Nat) /\ Len(all) \in Nat \ {0} /\ all[1] \in {Begin, Note} BY <1>1, ScriptTyped
<1>3. noEcho => Wrapped(Sent, all)
  <2> SUFFICES ASSUME noEcho PROVE Wrapped(Sent, all) OBVIOUS
  <2>1. Sent = DscPreamble \o all \o DscTrailer BY DEF Sent
  <2> QED BY <1>2, <2>1, WrappedIs
<1>4. ~noEcho => Sent = all BY DEF Sent
<1>5. Wrapped(Sent, all) => Sent \in Seq(Nat) BY DEF Wrapped
<1> QED BY <1>2, <1>3, <1>4, <1>5

LEMMA InitCodec == CodecInit => CodecInv
<1> SUFFICES ASSUME CodecInit PROVE CodecInv OBVIOUS
<1> USE DEF CodecInit
<1> DEFINE all == ScriptBytes(script, Len(script)) T == Sent
<1>1. T \in Seq(Nat)
  <2> HIDE DEF all
  <2> QED BY SentIs
<1>2. cr \in [hasCR : BOOLEAN, seenDSC : BOOLEAN, pending : Seq(Nat)]
  <2>1. <<>> \in Seq(Nat) OBVIOUS
  <2> QED BY <2>1 DEF NoReader
<1>3. got \in Seq(Nat)
  <2>1. <<>> \in Seq(Nat) OBVIOUS
  <2> QED BY <2>1
<1> DEFINE n == Len(T)
<1>4. n \in Nat BY <1>1, LenProperties
<1> HIDE DEF n
<1>5. CASE noEcho
  <2>1. PICK f : Written(f, T) /\ OverTerminal(T) = f[1] BY <1>1, WrittenFound
  <2>2. wire = f[1] BY <1>5, <2>1
  <2>3. 1 \in 1..n + 1 BY <1>4
  <2>4. wire \in Seq(Nat) BY <2>1, <2>2, <2>3 DEF Written, n
  <2>5. TerminalSo(f) BY <2>1, <2>2 DEF TerminalSo, NoReader
  <2> QED BY <1>2, <1>3, <1>5, <2>4, <2>5 DEF CodecInv, CodecTypeOK
<1>6. CASE ~noEcho
  <2>1. wire = T BY <1>6
  <2> DEFINE z == 0
  <2>2. z \in 0..Len(Sent) /\ z + 1 = 1 BY <1>4 DEF n
  <2>3. SubSeq(T, 1, z) = <<>>
    <3> DEFINE one == 1
    <3>1. one \in Int /\ z \in Int /\ z < one OBVIOUS
    <3> HIDE DEF one, z, T
    <3>2. SubSeq(T, one, z) = <<>> BY <3>1, SubSeqEmpty
    <3> QED BY <3>2 DEF one
  <2>4. SubSeq(T, 1, Len(T)) = T BY <1>1, SubSeqFull
  <2> HIDE DEF z
  <2>5. PipeSo(z) BY <2>1, <2>2, <2>3, <2>4 DEF PipeSo
  <2> QED BY <1>1, <1>2, <1>3, <1>6, <2>1, <2>5 DEF CodecInv, CodecTypeOK
<1> QED BY <1>5, <1>6

\* The first c of what there is.
LEMMA FewOf ==
    ASSUME NEW room \in 1..MaxRoom, NEW o \in Seq(Nat), NEW c, c = Min({room, Len(o)}) PROVE c \in 0..Len(o)
<1> DEFINE l == Len(o)
<1>1. room \in Int /\ l \in Nat BY CodecNumbers, LenProperties
<1> HIDE DEF l
<1>2. Min({room, l}) = IF room <= l THEN room ELSE l BY <1>1, LeastOfTwo
<1>3. room >= 1 OBVIOUS
<1>4. c = Min({room, l}) BY DEF l
<1>5. c \in 0..l BY <1>1, <1>2, <1>3, <1>4
<1> QED BY <1>5 DEF l

LEMMA ReadingTerminal ==
    ASSUME CodecInv, NEW room \in 1..MaxRoom, NEW n \in 1..room, ReadTerminal(room, n) PROVE CodecInv'
<1> DEFINE T == Sent all == ScriptBytes(script, Len(script)) src == FilterDSC(SubSeq(wire, 1, n))
           t == Transform(src) c == Min({room, Len(t.out)}) l == Len(wire)
<1>1. noEcho /\ cr.pending = <<>> /\ CodecTypeOK BY DEF ReadTerminal, CodecInv
<1>2. PICK f : TerminalSo(f) BY <1>1 DEF CodecInv
<1>3. /\ wire' = Rest(wire, n) /\ got' = got \o SubSeq(t.out, 1, c)
      /\ cr' = [hasCR |-> t.hasCR, seenDSC |-> TRUE, pending |-> SubSeq(t.out, c + 1, Len(t.out))]
      /\ UNCHANGED <<script, noEcho>>
  BY DEF ReadTerminal, Rest
<1>4. n \in 1..l
  <2> DEFINE asked == IF cr.hasCR /\ room > 1 THEN room - 1 ELSE room
  <2>1. n \in 1..Min({asked, l}) BY DEF ReadTerminal
  <2>2. asked \in Int /\ l \in Nat BY <1>1, CodecNumbers, LenProperties DEF CodecTypeOK
  <2> HIDE DEF asked, l
  <2>3. Min({asked, l}) = IF asked <= l THEN asked ELSE l BY <2>2, LeastOfTwo
  <2> QED BY <2>1, <2>2, <2>3
<1>5. /\ all \in Seq(Nat) /\ Len(all) \in Nat /\ T \in Seq(Nat) /\ Wrapped(T, all)
  <2>1. script \in Scripts BY <1>1 DEF CodecTypeOK
  <2> HIDE DEF all
  <2> QED BY <1>1, <2>1, SentIs DEF all
<1>6. wire \in Seq(Nat) /\ got \in Seq(Nat) /\ cr.hasCR \in BOOLEAN /\ l \in Nat
  BY <1>1, LenProperties DEF CodecTypeOK
<1>7. Written(f, T) BY <1>2 DEF TerminalSo
<1>8. InStep(f, T, got \o t.out, t.hasCR, Rest(wire, n)) /\ t.hasCR \in BOOLEAN /\ t.out \in Seq(Nat)
  <2>1. CASE ~cr.seenDSC
    <3>1. cr = NoReader /\ got = <<>> /\ wire \in {f[1], <<>>} BY <1>2, <2>1 DEF TerminalSo
    <3>2. ~cr.hasCR BY <3>1 DEF NoReader
    <3>3. wire = f[1]
      <4>1. wire # <<>>
        <5> SUFFICES ASSUME wire = <<>> PROVE FALSE OBVIOUS
        <5>1. l = 0 OBVIOUS
        <5> HIDE DEF l
        <5> QED BY <1>4, <5>1
      <4> QED BY <3>1, <4>1
    <3> DEFINE w == wire
    <3>4. w = f[1] /\ n \in 1..Len(w) /\ t = Transform(FilterDSC(SubSeq(w, 1, n))) BY <1>4, <3>3
    <3> HIDE DEF w, t, T, all
    <3>5. InStep(f, T, t.out, t.hasCR, Rest(w, n)) /\ t.hasCR \in BOOLEAN /\ t.out \in Seq(Nat)
      BY <1>5, <1>6, <1>7, <2>1, <3>2, <3>4, FirstRead
    <3>6. got \o t.out = t.out
      <4> DEFINE o == t.out
      <4>1. o \in Seq(Nat) BY <3>5
      <4> HIDE DEF o
      <4>2. got \o o = o BY <3>1, <4>1
      <4> QED BY <4>2 DEF o
    <3> QED BY <3>5, <3>6 DEF w
  <2>2. CASE cr.seenDSC
    <3>1. InStep(f, T, got \o cr.pending, cr.hasCR, wire) BY <1>2, <2>2 DEF TerminalSo
    <3>2. got \o cr.pending = got BY <1>1, <1>6
    <3>3. src = SubSeq(wire, 1, n) BY <2>2 DEF FilterDSC
    <3>4. t = Transform(SubSeq(wire, 1, n)) BY <3>3
    <3> DEFINE w == wire g == got
    <3>5. w \in Seq(Nat) /\ InStep(f, T, g, cr.hasCR, w) /\ n \in 0..Len(w) /\ t = Transform(SubSeq(w, 1, n))
      <4>1. n \in 0..l
        <5> HIDE DEF l
        <5> QED BY <1>4, <1>6
      <4> QED BY <1>6, <3>1, <3>2, <3>4, <4>1
    <3> HIDE DEF w, t, T, all, g, src
    <3>6. InStep(f, T, g \o t.out, t.hasCR, Rest(w, n)) /\ t.hasCR \in BOOLEAN /\ t.out \in Seq(Nat)
      BY <1>5, <1>6, <1>7, <3>5, ReadGoesOn
    <3> QED BY <3>6 DEF w, g
  <2> QED BY <2>1, <2>2
<1> DEFINE o == t.out h == t.hasCR x == got \o SubSeq(o, 1, c) y == SubSeq(o, c + 1, Len(o))
<1>9. c \in 0..Len(o)
  <2>1. o \in Seq(Nat) /\ c = Min({room, Len(o)}) BY <1>8
  <2> HIDE DEF c, o
  <2> QED BY <2>1, FewOf
<1>10. x \o y = got \o o /\ x \in Seq(Nat) /\ y \in Seq(Nat)
  <2>1. o \in Seq(Nat) BY <1>8
  <2> HIDE DEF o, c
  <2> QED BY <1>6, <1>9, <2>1, HandOut
<1>11. /\ wire' = Rest(wire, n) /\ got' = x /\ cr' = [hasCR |-> h, seenDSC |-> TRUE, pending |-> y]
       /\ h \in BOOLEAN /\ InStep(f, T, got \o o, h, Rest(wire, n))
  BY <1>3, <1>8
<1>12. Sent' = T BY <1>3 DEF Sent
<1>13. Rest(wire, n) \in Seq(Nat)
  <2>1. n \in Nat /\ l \in n..Len(wire)
    <3> HIDE DEF l
    <3> QED BY <1>4, <1>6 DEF l
  <2>2. CutSo(wire, n, l, SubSeq(wire, n + 1, l)) BY <1>6, <2>1, CutIs
  <2> QED BY <2>2 DEF CutSo, Rest
<1> HIDE DEF x, y, h, o, T, all, src, t, c, l
<1>14. cr'.seenDSC /\ cr'.pending = y /\ cr'.hasCR = h BY <1>11
<1>15. TerminalSo(f)' BY <1>7, <1>10, <1>11, <1>12, <1>14 DEF TerminalSo
<1>16. CodecTypeOK'
  <2>1. cr' \in [hasCR : BOOLEAN, seenDSC : BOOLEAN, pending : Seq(Nat)] BY <1>10, <1>11
  <2>2. script' = script /\ noEcho' = noEcho BY <1>3
  <2>3. wire' \in Seq(Nat) /\ got' \in Seq(Nat) BY <1>10, <1>11, <1>13
  <2> QED BY <1>1, <2>1, <2>2, <2>3 DEF CodecTypeOK
<1> QED BY <1>1, <1>3, <1>15, <1>16 DEF CodecInv

LEMMA ReadingPending == ASSUME CodecInv, NEW room \in 1..MaxRoom, ReadPending(room) PROVE CodecInv'
<1> DEFINE o == cr.pending c == Min({room, Len(o)}) x == got \o SubSeq(o, 1, c)
           y == SubSeq(o, c + 1, Len(o)) T == Sent
<1>1. CodecTypeOK /\ o # <<>> BY DEF CodecInv, ReadPending
<1>2. /\ got' = x /\ cr' = [cr EXCEPT !.pending = y] /\ script' = script /\ noEcho' = noEcho /\ wire' = wire
  BY DEF ReadPending
<1>3. wire \in Seq(Nat) /\ got \in Seq(Nat) /\ o \in Seq(Nat) /\ cr.hasCR \in BOOLEAN /\ cr.seenDSC \in BOOLEAN
      /\ cr \in [hasCR : BOOLEAN, seenDSC : BOOLEAN, pending : Seq(Nat)]
  BY <1>1 DEF CodecTypeOK
<1>4. x \o y = got \o o /\ x \in Seq(Nat) /\ y \in Seq(Nat)
  <2> HIDE DEF o
  <2>1. c \in 0..Len(o)
    <3>1. c = Min({room, Len(o)}) OBVIOUS
    <3> HIDE DEF c
    <3> QED BY <1>3, <3>1, FewOf
  <2> HIDE DEF c
  <2> QED BY <1>3, <2>1, HandOut
<1>5. Sent' = T BY <1>2 DEF Sent
<1>6. cr.seenDSC /\ noEcho
  <2>1. noEcho
    <3> SUFFICES ASSUME ~noEcho PROVE FALSE BY <1>1 DEF CodecTypeOK
    <3>1. PICK m : PipeSo(m) BY DEF CodecInv
    <3> QED BY <1>1, <3>1 DEF PipeSo, NoReader
  <2>2. PICK f : TerminalSo(f) BY <2>1 DEF CodecInv
  <2>3. cr.seenDSC
    <3> SUFFICES ASSUME ~cr.seenDSC PROVE FALSE OBVIOUS
    <3> QED BY <1>1, <2>2 DEF TerminalSo, NoReader
  <2> QED BY <2>1, <2>3
<1>7. PICK f : TerminalSo(f) BY <1>6 DEF CodecInv
<1>8. Written(f, T) /\ InStep(f, T, got \o o, cr.hasCR, wire) BY <1>6, <1>7 DEF TerminalSo
<1> HIDE DEF x, y, T
<1>9. cr'.pending = y /\ cr'.hasCR = cr.hasCR /\ cr'.seenDSC /\ cr' \in [hasCR : BOOLEAN, seenDSC : BOOLEAN, pending : Seq(Nat)]
  BY <1>2, <1>3, <1>4, <1>6
<1> HIDE DEF o
<1>10. TerminalSo(f)' BY <1>2, <1>4, <1>5, <1>8, <1>9 DEF TerminalSo
<1>11. CodecTypeOK' BY <1>1, <1>2, <1>3, <1>4, <1>9 DEF CodecTypeOK
<1> QED BY <1>2, <1>6, <1>10, <1>11 DEF CodecInv

\* The CR that was held back is what the stream holds next.
LEMMA ReadingEnd == ASSUME CodecInv, ReadEnd PROVE CodecInv'
<1> DEFINE T == Sent N == Len(T) all == ScriptBytes(script, Len(script)) x == Append(got, CR)
<1>1. CodecTypeOK /\ noEcho /\ wire = <<>> /\ cr.hasCR /\ cr.pending = <<>> BY DEF CodecInv, ReadEnd
<1>2. /\ got' = x /\ cr' = [cr EXCEPT !.hasCR = FALSE] /\ script' = script /\ noEcho' = noEcho /\ wire' = wire
  BY DEF ReadEnd
<1>3. got \in Seq(Nat) /\ cr \in [hasCR : BOOLEAN, seenDSC : BOOLEAN, pending : Seq(Nat)] /\ CR \in Nat
  BY <1>1 DEF CodecTypeOK, CR
<1>4. T \in Seq(Nat) /\ N \in Nat
  <2>1. script \in Scripts BY <1>1 DEF CodecTypeOK
  <2>2. T \in Seq(Nat)
    <3> HIDE DEF all
    <3> QED BY <2>1, SentIs
  <2> QED BY <2>2, LenProperties
<1>5. PICK f : TerminalSo(f) BY <1>1 DEF CodecInv
<1>6. cr.seenDSC
  <2> SUFFICES ASSUME ~cr.seenDSC PROVE FALSE OBVIOUS
  <2> QED BY <1>1, <1>5 DEF TerminalSo, NoReader
<1>7. Written(f, T) /\ InStep(f, T, got \o cr.pending, cr.hasCR, wire) BY <1>5, <1>6 DEF TerminalSo
<1>8. got \o cr.pending = got BY <1>1, <1>3
<1>9. PICK d \in {0, 2} : \E m \in d..N : got = SubSeq(T, d + 1, m) /\ Sync(f, T, m, cr.hasCR, wire)
  BY <1>7, <1>8 DEF InStep
<1>10. PICK m \in d..N : got = SubSeq(T, d + 1, m) /\ Sync(f, T, m, cr.hasCR, wire) BY <1>9
<1>11. m < N /\ T[m + 1] = CR
  <2>1. \/ m < N /\ T[m + 1] = CR
        \/ m < N /\ T[m + 1] = LF /\ (wire = <<LF>> \o f[m + 2] \/ wire = <<LF>>)
    BY <1>1, <1>10 DEF Sync
  <2>2. ASSUME m < N, wire = <<LF>> \o f[m + 2] PROVE FALSE
    <3> DEFINE e == f[m + 2]
    <3>1. e \in Seq(Nat)
      <4>1. m + 2 \in 1..Len(T) + 1
        <5> HIDE DEF N
        <5>1. m + 2 \in 1..N + 1 BY <1>4, <1>9, <1>10, <2>2
        <5> QED BY <5>1 DEF N
      <4> QED BY <1>7, <4>1 DEF Written
    <3>2. <<LF>> \o e = <<>> BY <1>1, <2>2
    <3>3. LF \in Nat BY DEF LF
    <3> HIDE DEF e
    <3> QED BY <3>1, <3>2, <3>3
  <2>3. wire # <<LF>> BY <1>1
  <2> QED BY <2>1, <2>2, <2>3
<1> HIDE DEF T, N
<1>12. d \in Nat /\ m \in Nat /\ m + 1 \in d..N /\ m \in d..N - 1 /\ m + 1 \in 0..N BY <1>4, <1>9, <1>10, <1>11
<1>13. x = SubSeq(T, d + 1, m + 1) /\ x \in Seq(Nat)
  <2>1. SubSeq(T, d + 1, m + 1) = SubSeq(T, d + 1, m) \o <<T[m + 1]>> BY <1>4, <1>12, CutMore DEF N
  <2>2. got \o <<CR>> = x BY <1>3
  <2>3. x \in Seq(Nat) BY <1>3
  <2> QED BY <1>10, <1>11, <2>1, <2>2, <2>3
<1> DEFINE h == FALSE p == <<>>
<1>14. Sync(f, T, m + 1, h, wire) BY <1>1, <1>12 DEF Sync, N
<1>15. x \o p = x BY <1>13
<1> HIDE DEF x
<1>16. InStep(f, T, x \o p, h, wire)
  <2> DEFINE k == m + 1
  <2>1. x = SubSeq(T, d + 1, k) /\ Sync(f, T, k, h, wire) /\ k \in d..Len(T) BY <1>12, <1>13, <1>14 DEF N
  <2> HIDE DEF k
  <2> QED BY <1>9, <1>15, <2>1 DEF InStep
<1>17. cr'.hasCR = h /\ cr'.pending = p /\ cr'.seenDSC
       /\ cr' \in [hasCR : BOOLEAN, seenDSC : BOOLEAN, pending : Seq(Nat)]
  BY <1>1, <1>2, <1>3, <1>6
<1>18. Sent' = T BY <1>2 DEF Sent, T
<1> HIDE DEF h, p
<1>19. TerminalSo(f)' BY <1>2, <1>7, <1>16, <1>17, <1>18 DEF TerminalSo, T
<1>20. CodecTypeOK' BY <1>1, <1>2, <1>13, <1>17 DEF CodecTypeOK
<1> QED BY <1>1, <1>2, <1>19, <1>20 DEF CodecInv

LEMMA Dying == ASSUME CodecInv, ClientDies PROVE CodecInv'
<1> DEFINE T == Sent v == IF noEcho /\ wire[1] = LF THEN <<LF>> ELSE <<>>
           all == ScriptBytes(script, Len(script))
<1>1. CodecTypeOK /\ wire # <<>> BY DEF CodecInv, ClientDies
<1>2. wire' = v /\ script' = script /\ noEcho' = noEcho /\ cr' = cr /\ got' = got BY DEF ClientDies
<1>3. v \in Seq(Nat) /\ wire \in Seq(Nat) /\ cr.hasCR \in BOOLEAN
  <2>1. LF \in Nat BY DEF LF
  <2>2. <<LF>> \in Seq(Nat) /\ <<>> \in Seq(Nat) BY <2>1
  <2> QED BY <1>1, <2>2 DEF CodecTypeOK
<1>4. Sent' = T BY <1>2 DEF Sent
<1>5. CodecTypeOK' BY <1>1, <1>2, <1>3 DEF CodecTypeOK
<1>6. T \in Seq(Nat) /\ (noEcho => Wrapped(T, all)) /\ Len(all) \in Nat
  <2>1. script \in Scripts BY <1>1 DEF CodecTypeOK
  <2> HIDE DEF all
  <2> QED BY <2>1, SentIs DEF all
<1>7. CASE noEcho
  <2>1. PICK f : TerminalSo(f) BY <1>7 DEF CodecInv
  <2>2. Written(f, T) BY <2>1 DEF TerminalSo
  <2>3. v = IF wire[1] = LF THEN <<LF>> ELSE <<>> BY <1>7
  <2>4. CASE ~cr.seenDSC
    <3>1. wire = f[1] /\ cr = NoReader /\ got = <<>> BY <1>1, <2>1, <2>4 DEF TerminalSo
    <3>2. TerminalStarts(f, wire)
      <4> HIDE DEF all, T
      <4> QED BY <1>6, <1>7, <2>2, <3>1, TerminalBegins
    <3>3. wire[1] # LF BY <3>2 DEF TerminalStarts, Esc, LF
    <3>4. TerminalSo(f)' BY <1>2, <1>4, <2>2, <2>3, <2>4, <3>1, <3>3 DEF TerminalSo, NoReader
    <3> QED BY <1>2, <1>5, <1>7, <3>4 DEF CodecInv
  <2>5. CASE cr.seenDSC
    <3> DEFINE g == got \o cr.pending h == cr.hasCR w == wire
    <3>1. InStep(f, T, g, h, w) BY <2>1, <2>5 DEF TerminalSo
    <3>2. PICK d \in {0, 2} : \E m \in d..Len(T) : g = SubSeq(T, d + 1, m) /\ Sync(f, T, m, h, w)
      BY <3>1 DEF InStep
    <3>3. PICK m \in d..Len(T) : g = SubSeq(T, d + 1, m) /\ Sync(f, T, m, h, w) BY <3>2
    <3>4. w # <<>> /\ h \in BOOLEAN /\ v = IF w[1] = LF THEN <<LF>> ELSE <<>> BY <1>1, <1>3, <2>3
    <3>5. g' = g /\ cr'.hasCR = h BY <1>2
    <3> HIDE DEF g, h, w, v, T, all
    <3>6. Sync(f, T, m, h, IF w[1] = LF THEN <<LF>> ELSE <<>>) BY <1>6, <2>2, <3>3, <3>4, DeathInStep
    <3>7. Sync(f, T, m, h, v) BY <3>4, <3>6
    <3>8. InStep(f, T, g, h, v) BY <3>2, <3>3, <3>7 DEF InStep
    <3>9. InStep(f, T, got \o cr.pending, cr.hasCR, v) BY <3>8 DEF g, h
    <3>10. cr'.seenDSC BY <1>2, <2>5
    <3>11. TerminalSo(f)' BY <1>2, <1>4, <2>2, <3>9, <3>10 DEF TerminalSo
    <3> QED BY <1>2, <1>5, <1>7, <3>11 DEF CodecInv
  <2> QED BY <2>4, <2>5
<1>8. CASE ~noEcho
  <2>1. PICK m : PipeSo(m) BY <1>8 DEF CodecInv
  <2>2. v = <<>> BY <1>8
  <2>3. PipeSo(m)' BY <1>2, <1>4, <2>1, <2>2 DEF PipeSo
  <2> QED BY <1>2, <1>5, <1>8, <2>3 DEF CodecInv
<1> QED BY <1>7, <1>8

LEMMA ReadingPipe == ASSUME CodecInv, NEW n \in 1..MaxRoom, ReadPipe(n) PROVE CodecInv'
<1> DEFINE T == Sent N == Len(T) l == Len(wire) x == SubSeq(wire, 1, n) all == ScriptBytes(script, Len(script))
<1>1. CodecTypeOK /\ ~noEcho /\ n \in 1..l BY DEF CodecInv, ReadPipe
<1>2. /\ got' = got \o x /\ wire' = Rest(wire, n) /\ script' = script /\ noEcho' = noEcho /\ cr' = cr
  BY DEF ReadPipe, Rest
<1>3. PICK m : PipeSo(m) BY <1>1 DEF CodecInv
<1>4. T \in Seq(Nat) /\ N \in Nat /\ wire \in Seq(Nat) /\ got \in Seq(Nat) /\ l \in Nat
  <2>1. script \in Scripts /\ wire \in Seq(Nat) /\ got \in Seq(Nat) BY <1>1 DEF CodecTypeOK
  <2>2. T \in Seq(Nat)
    <3> HIDE DEF all
    <3> QED BY <2>1, SentIs
  <2> QED BY <2>1, <2>2, LenProperties
<1>5. m \in 0..N /\ got = SubSeq(T, 1, m) /\ cr = NoReader BY <1>3 DEF PipeSo
<1>6. wire = SubSeq(T, m + 1, N)
  <2>1. wire # <<>>
    <3> SUFFICES ASSUME wire = <<>> PROVE FALSE OBVIOUS
    <3>1. l = 0 OBVIOUS
    <3> HIDE DEF l
    <3> QED BY <1>1, <3>1
  <2> QED BY <1>3, <2>1 DEF PipeSo
<1>7. m \in Nat /\ N \in m..Len(T) /\ m <= N
  <2> HIDE DEF N
  <2> QED BY <1>4, <1>5 DEF N
<1>8. l = N - m /\ \A j \in 1..N - m : wire[j] = T[m + j]
  <2>1. CutSo(T, m, N, SubSeq(T, m + 1, N))
    <3> HIDE DEF T, N
    <3> QED BY <1>4, <1>7, CutIs
  <2>2. CutSo(T, m, N, wire) BY <1>6, <2>1
  <2> HIDE DEF T, N
  <2> QED BY <2>2 DEF CutSo
<1>9. x = SubSeq(T, m + 1, m + n)
  <2> DEFINE p == 0
  <2>1. p \in Nat /\ n \in Nat /\ p + n = n /\ p + 1 = 1 BY <1>1
  <2>2. Alike(wire, p, T, m, n)
    <3>1. n <= l /\ m + n <= N
      <4> HIDE DEF l, N
      <4> QED BY <1>1, <1>4, <1>7, <1>8
    <3>2. \A j \in 1..n : wire[j] = T[m + j]
      <4>1. \A j \in 1..n : j \in 1..N - m
        <5> HIDE DEF N, l
        <5> QED BY <1>1, <1>4, <1>7, <1>8
      <4> QED BY <1>8, <4>1
    <3>3. \A j \in 1..n : p + j = j OBVIOUS
    <3> HIDE DEF p
    <3> QED BY <2>1, <3>1, <3>2, <3>3 DEF Alike
  <2> HIDE DEF p, T
  <2>3. SameCuts(wire, p, T, m, n) BY <1>4, <1>7, <2>1, <2>2, CutSame
  <2> QED BY <2>1, <2>3 DEF SameCuts
<1> DEFINE k == m + n
<1>10. k \in 0..N /\ k \in m..N /\ k \in Nat /\ N - k \in Nat
  <2> HIDE DEF N, l
  <2> QED BY <1>1, <1>4, <1>7, <1>8
<1>11. got \o x = SubSeq(T, 1, k)
  <2> DEFINE a == 1
  <2>1. a \in 1..Len(T) + 1 /\ m \in a - 1..Len(T) /\ k \in m..Len(T)
    <3>1. a \in 1..N + 1 /\ m \in a - 1..N
      <4> HIDE DEF N
      <4> QED BY <1>4, <1>7
    <3> QED BY <1>10, <3>1
  <2> HIDE DEF a, k, T
  <2>2. SubSeq(T, a, m) \o SubSeq(T, m + 1, k) = SubSeq(T, a, k) BY <1>4, <2>1, ConcatAdjacentSubSeq
  <2>3. x = SubSeq(T, m + 1, k) BY <1>9 DEF k
  <2> QED BY <1>5, <2>2, <2>3 DEF a
<1>12. Rest(wire, n) = SubSeq(T, k + 1, N)
  <2> DEFINE c == N - k
  <2>1. c \in Nat /\ n \in Nat /\ n + c = l /\ k + c = N
    <3> HIDE DEF N, l
    <3> QED BY <1>1, <1>4, <1>7, <1>8, <1>10
  <2>2. Alike(wire, n, T, k, c)
    <3>1. n + c <= Len(wire) /\ k + c <= Len(T)
      <4>1. l <= l /\ N <= N
        <5> HIDE DEF l, N
        <5> QED BY <1>4
      <4> QED BY <2>1, <4>1
    <3>2. \A j \in 1..c : wire[n + j] = T[k + j]
      <4> SUFFICES ASSUME NEW j \in 1..c PROVE wire[n + j] = T[(m + n) + j] OBVIOUS
      <4>1. n + j \in 1..N - m /\ m + (n + j) = (m + n) + j
        <5> HIDE DEF N, l
        <5> QED BY <1>1, <1>4, <1>7, <1>8, <2>1
      <4> QED BY <1>8, <4>1
    <3> HIDE DEF c, k
    <3> QED BY <3>1, <3>2 DEF Alike
  <2> HIDE DEF c, k, T
  <2>3. SameCuts(wire, n, T, k, c) BY <1>4, <1>10, <2>1, <2>2, CutSame
  <2> QED BY <2>1, <2>3 DEF SameCuts, Rest
<1> HIDE DEF k
<1>13. Sent' = T BY <1>2 DEF Sent
<1>14. PipeSo(k)' BY <1>2, <1>5, <1>10, <1>11, <1>12, <1>13 DEF PipeSo
<1>15. wire' \in Seq(Nat) /\ got' \in Seq(Nat)
  <2>1. k \in Nat /\ N \in k..Len(T)
    <3> HIDE DEF N
    <3> QED BY <1>10, <1>4 DEF N
  <2>2. CutSo(T, k, N, SubSeq(T, k + 1, N))
    <3> HIDE DEF T, N
    <3> QED BY <1>4, <2>1, CutIs
  <2>3. x \in Seq(Nat)
    <3>1. m \in Nat /\ m + n \in m..Len(T) BY <1>7, <1>10 DEF k
    <3>2. CutSo(T, m, m + n, SubSeq(T, m + 1, m + n))
      <4> HIDE DEF T
      <4> QED BY <1>4, <3>1, CutIs
    <3> QED BY <1>9, <3>2 DEF CutSo
  <2> HIDE DEF x
  <2> QED BY <1>2, <1>4, <1>12, <2>2, <2>3 DEF CutSo
<1>16. CodecTypeOK' BY <1>1, <1>2, <1>15 DEF CodecTypeOK
<1> QED BY <1>1, <1>2, <1>14, <1>16 DEF CodecInv

-----------------------------------------------------------------------------
(* All that can be read has been read.                                      *)
LEMMA PreambleIs ==
    ASSUME NEW s \in Seq(Nat)
    PROVE  StartsWith(s, DscPreamble) <=> Len(s) >= 2 /\ s[1] = Esc /\ s[2] = DcsP
<1> DEFINE n == Len(s) z == 0 two == 2 p == SubSeq(s, z + 1, two)
<1>1. n \in Nat BY LenProperties
<1>2. Len(DscPreamble) = 2 /\ DscPreamble[1] = Esc /\ DscPreamble[2] = DcsP BY DEF DscPreamble
<1>3. StartsWith(s, DscPreamble) <=> n >= 2 /\ p = DscPreamble BY <1>2 DEF StartsWith
<1>4. n >= 2 => Len(p) = 2 /\ p[1] = s[1] /\ p[2] = s[2] /\ p \in Seq(Nat)
  <2> SUFFICES ASSUME n >= 2 PROVE Len(p) = 2 /\ p[1] = s[1] /\ p[2] = s[2] /\ p \in Seq(Nat) OBVIOUS
  <2>1. z \in Nat /\ two \in z..Len(s) /\ two - z = 2 /\ \A j \in 1..2 : z + j = j
    <3>1. two \in z..n
      <4> HIDE DEF n
      <4> QED BY <1>1
    <3> QED BY <3>1
  <2> HIDE DEF z, two
  <2>2. CutSo(s, z, two, p) BY <2>1, CutIs
  <2>3. p \in Seq(Nat) /\ Len(p) = 2 /\ \A j \in 1..2 : p[j] = s[j] BY <2>1, <2>2 DEF CutSo
  <2>4. 1 \in 1..2 /\ 2 \in 1..2 OBVIOUS
  <2> QED BY <2>3, <2>4
<1> HIDE DEF p, n
<1>5. ASSUME n >= 2, s[1] = Esc, s[2] = DcsP PROVE p = DscPreamble
  <2>1. p = <<Esc, DcsP>> BY <1>4, <1>5, PairIs
  <2> QED BY <2>1 DEF DscPreamble
<1> QED BY <1>2, <1>3, <1>4, <1>5 DEF n

\* What was received without a preamble.
LEMMA PlainRead ==
    ASSUME NEW scr, NEW N, IsScript(scr, N), NEW all, all = ScriptBytes(scr, N), NEW s \in Seq(Nat),
           AsFar(s, 0, all), Len(s) <= Len(all) + 2, AsFar(s, Len(all), DscTrailer)
    PROVE  ArrivesAs(Units(s), s, scr) /\ ~StartsWith(s, DscPreamble)
<1> DEFINE n == Len(all) m == Len(s) D == 0
<1>1. all \in Seq(Nat) /\ n \in Nat \ {0} /\ all[1] \in {Begin, Note} BY ScriptTyped
<1>2. m \in Nat BY LenProperties
<1>3. ~StartsWith(s, DscPreamble)
  <2> SUFFICES ASSUME StartsWith(s, DscPreamble) PROVE FALSE OBVIOUS
  <2>1. m >= 2 /\ s[1] = Esc BY PreambleIs
  <2>2. 1 \in 1..n /\ 0 + 1 <= m /\ 0 + 1 = 1
    <3> HIDE DEF n, m
    <3> QED BY <1>1, <1>2, <2>1
  <2>3. s[1] = all[1] BY <2>2 DEF AsFar
  <2> QED BY <1>1, <2>1, <2>3 DEF Begin, Note, Esc
<1>4. After2(s, D, s)
  <2>1. m = 0 + m /\ \A j \in 1..m : 0 + j = j BY <1>2
  <2> HIDE DEF m
  <2>2. 0 \in Nat OBVIOUS
  <2> QED BY <2>1, <2>2 DEF After2, m
<1>5. Begins(s, D) BY DEF Begins
<1>6. m <= D + n + 2 /\ D + n = n
  <2> HIDE DEF n, m
  <2>1. m <= n + 2 BY DEF n, m
  <2> QED BY <1>1, <1>2, <2>1
<1>7. AsFar(s, D, all) /\ AsFar(s, D + n, DscTrailer) BY <1>6
<1> HIDE DEF D
<1>8. ArrivesAs(Units(s), s, scr) BY <1>4, <1>5, <1>6, <1>7, ScriptRead
<1> QED BY <1>3, <1>8

\* No more than the first symbol of a preamble was received.
LEMMA EscapeAlone ==
    ASSUME NEW scr, NEW N, IsScript(scr, N), NEW s \in Seq(Nat), Len(s) = 1, s[1] = Esc
    PROVE  ArrivesAs(Units(s), s, scr) /\ ~StartsWith(s, DscPreamble)
<1>1. s \in Seq(Nat) /\ Len(s) = 1 /\ s[1] = Esc OBVIOUS
<1>2. ~StartsWith(s, DscPreamble) BY <1>1, PreambleIs
<1>3. PICK b, u : Recounts(scr, N, b, u) BY ScriptLaid
<1>4. N \in Nat \ {0} /\ N = Len(scr) /\ IsItem(scr[1]) BY DEF IsScript
<1>5. b[0] = <<>> /\ u[0] = <<>> /\ b[0] = ScriptBytes(scr, 0) /\ u[0] = Meanings(scr, 0)
  <2>1. 0 \in 0..N BY <1>4
  <2> QED BY <1>3, <2>1 DEF Recounts, Concatenates
<1>6. WholeOf(s, scr, 0)
  <2> DEFINE z == 0
  <2>1. SubSeq(s, 1, z) = <<>>
    <3> DEFINE one == 1
    <3>1. one \in Int /\ z \in Int /\ z < one OBVIOUS
    <3> HIDE DEF one, z
    <3>2. SubSeq(s, one, z) = <<>> BY <3>1, SubSeqEmpty
    <3> QED BY <3>2 DEF one
  <2>2. Len(ScriptBytes(scr, 0)) = z /\ ScriptBytes(scr, 0) = <<>> BY <1>5
  <2>3. Len(s) >= z BY <1>1
  <2>4. StartsWith(s, ScriptBytes(scr, 0)) BY <2>1, <2>2, <2>3 DEF StartsWith
  <2>5. \A i \in 1..0 : FALSE OBVIOUS
  <2> QED BY <2>4, <2>5 DEF WholeOf
<1>7. ~StartsWith(s, ScriptBytes(scr, 1))
  <2> SUFFICES ASSUME StartsWith(s, ScriptBytes(scr, 1)) PROVE FALSE OBVIOUS
  <2> DEFINE one == 1 all == ScriptBytes(scr, one)
  <2>1. one \in 1..N /\ one \in 0..N BY <1>4
  <2>2. b[one] = all /\ b[one] \in Seq(Nat) BY <1>3, <2>1 DEF Recounts, Concatenates
  <2> DEFINE part == ItemParts(scr, N)
  <2>3. b[one] = b[one - 1] \o part[one] BY <1>3, <2>1 DEF Recounts, Concatenates
  <2>4. part[one] = ItemBytes(scr[one]) BY <2>1 DEF ItemParts
  <2> DEFINE v == ItemBytes(scr[one])
  <2>5. v \in Seq(Nat) /\ Len(v) \in Nat \ {0} /\ v[1] \in {Begin, Note} BY <1>4, ItemTyped
  <2>6. one - 1 = 0 OBVIOUS
  <2>7. all = <<>> \o v BY <1>5, <2>2, <2>3, <2>4, <2>6
  <2> HIDE DEF v, part, all
  <2>8. all = v BY <2>5, <2>7
  <2>9. Len(all) = 1 /\ SubSeq(s, 1, Len(all)) = all
    <3>1. Len(s) >= Len(all) /\ SubSeq(s, 1, Len(all)) = all BY DEF StartsWith, all
    <3> QED BY <1>1, <2>5, <2>8, <3>1
  <2>10. SubSeq(s, 1, Len(s)) = s BY <1>1, SubSeqFull
  <2>11. s = v BY <1>1, <2>8, <2>9, <2>10
  <2> QED BY <1>1, <2>5, <2>11 DEF Begin, Note, Esc
<1>8. ~WholeOf(s, scr, 0 + 1) BY <1>7 DEF WholeOf
<1>9. Units(s) = <<"eof">>
  <2>1. PICK f : Unravels(f, s) /\ Units(s) = f[1] BY <1>1, UnitsFound
  <2>2. 1 \in 1..Len(s) + 1 BY <1>1
  <2>3. f[1] = FromUnit(s, 1, f) BY <2>1, <2>2 DEF Unravels
  <2>4. ReadControlUnit(s, 1).st = "eof" /\ ReadControlUnit(s, 1).val = <<>>
    <3> DEFINE q == 0
    <3>1. q \in 0..Len(s) /\ Len(s) <= q + 2 /\ q + 1 = 1 BY <1>1
    <3>2. AsFar(s, q, DscTrailer)
      <4> SUFFICES ASSUME NEW j \in 1..Len(DscTrailer), 0 + j <= Len(s) PROVE s[0 + j] = DscTrailer[j] BY DEF AsFar
      <4>1. Len(DscTrailer) = 2 /\ DscTrailer[1] = Esc BY DEF DscTrailer
      <4>2. j = 1 /\ 0 + j = 1 BY <1>1, <4>1
      <4> QED BY <1>1, <4>1, <4>2
    <3> HIDE DEF q
    <3>3. ReadControlUnit(s, q + 1).st = "eof" /\ ReadControlUnit(s, q + 1).val = <<>>
      BY <1>1, <3>1, <3>2, TailEnds
    <3> QED BY <3>1, <3>3
  <2>5. Append(<<>>, "eof") = <<"eof">> OBVIOUS
  <2> QED BY <2>1, <2>3, <2>4, <2>5 DEF FromUnit
<1>10. Append(Meanings(scr, 0) \o Notes(scr[1], 0), "eof") = <<"eof">>
  <2>1. Meanings(scr, 0) = <<>> /\ Notes(scr[1], 0) = <<>> BY <1>5, NoNotes
  <2>2. Append(<<>> \o <<>>, "eof") = <<"eof">> OBVIOUS
  <2> QED BY <2>1, <2>2
<1> DEFINE n == 0
<1>11. n \in 0..Len(scr) /\ n < Len(scr) /\ n # Len(scr) BY <1>4
<1>12. WholeOf(s, scr, n) /\ ~WholeOf(s, scr, n + 1) /\ ~StartsWith(s, ScriptBytes(scr, n + 1))
       /\ Units(s) = Append(Meanings(scr, n) \o Notes(scr[n + 1], n), "eof") /\ n \in 0..Pieces(scr[n + 1])
       /\ ~(n > 0)
  <2>1. n + 1 = 1 /\ 0 + 1 = 1 OBVIOUS
  <2>2. Units(s) = Append(Meanings(scr, n) \o Notes(scr[n + 1], n), "eof") BY <1>9, <1>10, <2>1
  <2>3. ~WholeOf(s, scr, n + 1) /\ ~StartsWith(s, ScriptBytes(scr, n + 1)) BY <1>7, <1>8, <2>1
  <2>4. Pieces(scr[1]) \in Nat BY <1>4 DEF Pieces, IsItem
  <2> QED BY <1>6, <2>1, <2>2, <2>3, <2>4
<1>13. n < Pieces(scr[n + 1]) => ~BegunAs(s, scr, n, n + 1)
  <2> SUFFICES ASSUME n < Pieces(scr[n + 1]), BegunAs(s, scr, n, n + 1) PROVE FALSE OBVIOUS
  <2> DEFINE item == scr[n + 1] w == b[n] q == 0 + Len(w) k == n + 1
  <2>1. w = <<>> /\ w = ScriptBytes(scr, n) /\ item = scr[1] BY <1>5
  <2>2. IsItem(item) /\ item.kind # "note"
    <3>1. IsItem(item) BY <1>4, <2>1
    <3> HIDE DEF item
    <3>2. 0 < Pieces(item) BY DEF item
    <3> QED BY <3>1, <3>2 DEF Pieces
  <2> DEFINE v == w \o HeaderOf(item) \o Body(item, k)
  <2>3. Len(v) \in Nat /\ Len(v) >= 3
    <3>1. k \in 0..Pieces(item)
      <4>1. Pieces(item) \in Nat BY <1>12 DEF Pieces
      <4> QED BY <4>1
    <3> HIDE DEF item
    <3>2. w \in Seq(Nat) /\ Len(w) = 0 BY <2>1
    <3> HIDE DEF v, w, k
    <3> QED BY <2>2, <3>1, <3>2, HeadAtLeast DEF v, IsFrame, IsItem
  <2>4. StartsWith(s, v) BY <2>1 DEF BegunAs
  <2> HIDE DEF v
  <2>5. Len(s) >= Len(v) BY <2>4 DEF StartsWith
  <2> QED BY <1>1, <2>3, <2>5
<1> DEFINE why == "eof"
<1>14. why \in {"eof", "limit", "protocol"} OBVIOUS
<1> HIDE DEF n
<1>15. ArrivesAs(Units(s), s, scr) BY <1>11, <1>12, <1>13, <1>14 DEF ArrivesAs
<1> QED BY <1>2, <1>15

\* A preamble, and what follows it.
LEMMA PreambleRead ==
    ASSUME NEW scr, NEW N, IsScript(scr, N), NEW all, all = ScriptBytes(scr, N), NEW T, Wrapped(T, all),
           NEW m \in 2..Len(T), NEW s, s = SubSeq(T, 1, m)
    PROVE  StartsWith(s, DscPreamble) /\ ArrivesAs(Units(s), SubSeq(s, 3, Len(s)), scr)
<1> DEFINE n == Len(all) D == 2 R == SubSeq(s, D + 1, Len(s))
<1>1. all \in Seq(Nat) /\ n \in Nat BY ScriptTyped
<1>2. /\ T \in Seq(Nat) /\ Len(T) = n + 4 /\ T[1] = Esc /\ T[2] = DcsP /\ \A j \in 1..n : T[2 + j] = all[j]
      /\ T[n + 3] = Esc /\ T[n + 4] = Backslash
  BY DEF Wrapped
<1>3. m \in Nat /\ 2 <= m /\ m <= n + 4
  <2> HIDE DEF n
  <2> QED BY <1>1, <1>2
<1>4. s \in Seq(Nat) /\ Len(s) = m /\ \A j \in 1..m : s[j] = T[j]
  <2> DEFINE z == 0
  <2>1. z \in Nat /\ m \in z..Len(T) /\ m - z = m /\ z + 1 = 1 /\ \A j \in 1..m : z + j = j BY <1>2, <1>3
  <2> HIDE DEF z
  <2>2. CutSo(T, z, m, SubSeq(T, z + 1, m)) BY <1>2, <2>1, CutIs
  <2> QED BY <2>1, <2>2 DEF CutSo
<1>5. StartsWith(s, DscPreamble) /\ s[1] = Esc /\ s[2] = DcsP
  <2>1. 1 \in 1..m /\ 2 \in 1..m BY <1>3
  <2>2. s[1] = Esc /\ s[2] = DcsP BY <1>2, <1>4, <2>1
  <2> QED BY <1>3, <1>4, <2>2, PreambleIs
<1>6. After2(s, D, R)
  <2>1. D \in Nat /\ Len(s) \in D..Len(s) BY <1>3, <1>4
  <2> HIDE DEF D
  <2>2. CutSo(s, D, Len(s), R) BY <1>4, <2>1, CutIs
  <2>3. R \in Seq(Nat) /\ Len(R) = m - D /\ \A j \in 1..m - D : R[j] = s[D + j] BY <1>4, <2>2 DEF CutSo
  <2>4. m = D + (m - D) BY <1>3, <2>1
  <2> HIDE DEF R
  <2> QED BY <1>4, <2>1, <2>3, <2>4 DEF After2
<1>7. Begins(s, D) BY <1>3, <1>4, <1>5 DEF Begins
<1>8. AsFar(s, D, all)
  <2> SUFFICES ASSUME NEW j \in 1..n, 2 + j <= Len(s) PROVE s[2 + j] = all[j] BY DEF AsFar
  <2>1. 2 + j \in 1..m BY <1>4
  <2> QED BY <1>2, <1>4, <2>1
<1>9. AsFar(s, D + n, DscTrailer)
  <2> SUFFICES ASSUME NEW j \in 1..Len(DscTrailer), (2 + n) + j <= Len(s) PROVE s[(2 + n) + j] = DscTrailer[j]
    BY DEF AsFar
  <2>1. Len(DscTrailer) = 2 /\ DscTrailer[1] = Esc /\ DscTrailer[2] = Backslash BY DEF DscTrailer
  <2> HIDE DEF n
  <2>2. (2 + n) + 1 = n + 3 /\ (2 + n) + 2 = n + 4 /\ (j = 1 \/ j = 2) BY <1>1, <2>1
  <2>3. (2 + n) + j \in 1..m BY <1>1, <1>4, <2>2
  <2> QED BY <1>2, <1>4, <2>1, <2>2, <2>3
<1>10. Len(s) <= D + n + 2
  <2> HIDE DEF n
  <2> QED BY <1>1, <1>3, <1>4
<1>11. D + 1 = 3 OBVIOUS
<1> HIDE DEF D, R, n
<1>12. ArrivesAs(Units(s), R, scr) BY <1>6, <1>7, <1>8, <1>9, <1>10, ScriptRead DEF n
<1> QED BY <1>5, <1>11, <1>12 DEF R

LEMMA ArrivesPlainly ==
    ASSUME ArrivesAs(Units(got), got, script), ~StartsWith(got, DscPreamble)
    PROVE  ArrivesAs(Units(got), Received, script)
  BY DEF Received

LEMMA AllRead ==
    ASSUME CodecInv, wire = <<>>, cr.pending = <<>>, ~cr.hasCR PROVE ArrivesAs(Units(got), Received, script)
<1> DEFINE T == Sent N == Len(script) all == ScriptBytes(script, N) n == Len(all) s == got
<1>1. script \in Scripts /\ got \in Seq(Nat) BY DEF CodecInv, CodecTypeOK
<1>2. IsScript(script, N) BY <1>1, ScriptIs
<1>3. /\ all \in Seq(Nat) /\ n \in Nat \ {0} /\ T \in Seq(Nat) /\ (noEcho => Wrapped(T, all))
      /\ (~noEcho => T = all)
  <2> HIDE DEF all
  <2> QED BY <1>1, SentIs DEF all
<1>4. CASE \E m \in 0..n : s = SubSeq(all, 1, m)
  <2>1. PICK m \in 0..n : s = SubSeq(all, 1, m) BY <1>4
  <2>2. Len(s) = m /\ \A j \in 1..m : s[j] = all[j]
    <3> DEFINE z == 0
    <3>1. z \in Nat /\ m \in z..Len(all) /\ m - z = m /\ z + 1 = 1 /\ \A j \in 1..m : z + j = j BY <1>3
    <3> HIDE DEF z, all
    <3>2. CutSo(all, z, m, SubSeq(all, z + 1, m)) BY <1>3, <3>1, CutIs
    <3> QED BY <2>1, <3>1, <3>2 DEF CutSo
  <2> HIDE DEF all, n, N, s
  <2>3. m \in Nat /\ m <= n /\ m <= n + 2 BY <1>3
  <2>4. AsFar(s, 0, all)
    <3> SUFFICES ASSUME NEW j \in 1..Len(all), 0 + j <= Len(s) PROVE s[0 + j] = all[j] BY DEF AsFar
    <3>1. j \in 1..m /\ 0 + j = j BY <1>3, <2>2 DEF n
    <3> QED BY <2>2, <3>1
  <2>5. AsFar(s, n, DscTrailer)
    <3> SUFFICES ASSUME NEW j \in 1..Len(DscTrailer), n + j <= Len(s) PROVE FALSE BY DEF AsFar
    <3>1. j \in 1..2 BY DEF DscTrailer
    <3> QED BY <1>3, <2>2, <2>3, <3>1
  <2>6. ArrivesAs(Units(s), s, script) /\ ~StartsWith(s, DscPreamble)
    <3>1. s \in Seq(Nat) /\ Len(s) <= Len(all) + 2 /\ AsFar(s, Len(all), DscTrailer)
      BY <1>1, <2>2, <2>3, <2>5 DEF n, s
    <3>2. all = ScriptBytes(script, N) BY DEF all
    <3> QED BY <1>2, <2>4, <3>1, <3>2, PlainRead
  <2> QED BY <2>6, ArrivesPlainly DEF s
<1>5. CASE ~noEcho
  <2>1. PICK m : PipeSo(m) BY <1>5 DEF CodecInv
  <2>2. m \in 0..n /\ s = SubSeq(all, 1, m) BY <1>3, <1>5, <2>1 DEF PipeSo
  <2> QED BY <1>4, <2>2
<1>6. CASE noEcho
  <2>1. PICK f : TerminalSo(f) BY <1>6 DEF CodecInv
  <2>2. CASE ~cr.seenDSC
    <3>1. s = <<>> BY <2>1, <2>2 DEF TerminalSo
    <3>2. SubSeq(all, 1, 0) = <<>>
      <4> DEFINE one == 1 z == 0
      <4>1. one \in Int /\ z \in Int /\ z < one OBVIOUS
      <4> HIDE DEF one, z, all
      <4>2. SubSeq(all, one, z) = <<>> BY <4>1, SubSeqEmpty
      <4> QED BY <4>2 DEF one, z
    <3>3. 0 \in 0..n BY <1>3
    <3> QED BY <1>4, <3>1, <3>2, <3>3
  <2>3. CASE cr.seenDSC
    <3>1. InStep(f, T, got \o cr.pending, cr.hasCR, wire) BY <2>1, <2>3 DEF TerminalSo
    <3>2. got \o cr.pending = got BY <1>1
    <3>3. PICK d \in {0, 2} : \E m \in d..Len(T) : s = SubSeq(T, d + 1, m) BY <3>1, <3>2 DEF InStep
    <3>4. PICK m \in d..Len(T) : s = SubSeq(T, d + 1, m) BY <3>3
    <3>5. Wrapped(T, all) BY <1>3, <1>6
    <3>6. /\ Len(T) = n + 4 /\ T[1] = Esc /\ \A j \in 1..n : T[2 + j] = all[j]
          /\ T[n + 3] = Esc /\ T[n + 4] = Backslash
      BY <3>5 DEF Wrapped
    <3>7. CutSo(T, d, m, s)
      <4>1. d \in Nat BY <3>3
      <4> HIDE DEF T, s
      <4> QED BY <1>3, <3>4, <4>1, CutIs
    <3>8. s \in Seq(Nat) /\ Len(s) = m - d /\ \A j \in 1..m - d : s[j] = T[d + j] BY <3>7 DEF CutSo
    <3> HIDE DEF n, N, all, T, s
    <3>9. m \in Nat /\ d <= m /\ m <= n + 4 BY <1>3, <3>3, <3>4, <3>6
    <3>10. all = ScriptBytes(script, N) BY DEF all
    <3>11. CASE d = 2
      <4>1. Len(s) <= n + 2 BY <1>3, <3>8, <3>9, <3>11
      <4>2. AsFar(s, 0, all)
        <5> SUFFICES ASSUME NEW j \in 1..Len(all), 0 + j <= Len(s) PROVE s[0 + j] = all[j] BY DEF AsFar
        <5>1. j \in 1..m - d /\ 0 + j = j /\ j \in 1..n BY <1>3, <3>8, <3>9, <3>11 DEF n
        <5> QED BY <3>6, <3>8, <3>11, <5>1
      <4>3. AsFar(s, n, DscTrailer)
        <5> SUFFICES ASSUME NEW j \in 1..Len(DscTrailer), n + j <= Len(s) PROVE s[n + j] = DscTrailer[j]
          BY DEF AsFar
        <5>1. Len(DscTrailer) = 2 /\ DscTrailer[1] = Esc /\ DscTrailer[2] = Backslash BY DEF DscTrailer
        <5>2. n + j \in 1..m - d /\ d + (n + j) = n + 2 + j /\ (j = 1 \/ j = 2)
          BY <1>3, <3>8, <3>9, <3>11, <5>1
        <5>3. s[n + j] = T[n + 2 + j] BY <3>8, <5>2
        <5>4. n + 2 + 1 = n + 3 /\ n + 2 + 2 = n + 4 BY <1>3
        <5> QED BY <3>6, <5>1, <5>2, <5>3, <5>4
      <4>4. Len(s) <= Len(all) + 2 /\ AsFar(s, Len(all), DscTrailer) BY <4>1, <4>3 DEF n
      <4>5. ArrivesAs(Units(s), s, script) /\ ~StartsWith(s, DscPreamble)
        BY <1>2, <3>8, <3>10, <4>2, <4>4, PlainRead
      <4> QED BY <4>5, ArrivesPlainly DEF s
    <3>12. CASE d = 0 /\ m = 0
      <4>1. s = <<>> BY <3>8, <3>12
      <4>2. SubSeq(all, 1, 0) = <<>>
        <5> DEFINE one == 1 z == 0
        <5>1. one \in Int /\ z \in Int /\ z < one OBVIOUS
        <5> HIDE DEF one, z
        <5>2. SubSeq(all, one, z) = <<>> BY <5>1, SubSeqEmpty
        <5> QED BY <5>2 DEF one, z
      <4>3. 0 \in 0..n BY <1>3
      <4> QED BY <1>4, <4>1, <4>2, <4>3
    <3>13. CASE d = 0 /\ m = 1
      <4>1. Len(s) = 1 /\ s[1] = Esc
        <5>1. 1 \in 1..m - d /\ d + 1 = 1 /\ m - d = 1 BY <3>13
        <5> QED BY <3>6, <3>8, <5>1
      <4>3. ArrivesAs(Units(s), s, script) /\ ~StartsWith(s, DscPreamble) BY <1>2, <3>8, <4>1, EscapeAlone
      <4> QED BY <4>3, ArrivesPlainly DEF s
    <3>14. CASE d = 0 /\ m >= 2
      <4>1. s = SubSeq(T, 1, m)
        <5>1. d + 1 = 1 BY <3>14
        <5> QED BY <3>4, <5>1
      <4>2. m \in 2..Len(T) BY <3>6, <3>9, <3>14
      <4>3. StartsWith(s, DscPreamble) /\ ArrivesAs(Units(s), SubSeq(s, 3, Len(s)), script)
        BY <1>2, <3>5, <3>10, <4>1, <4>2, PreambleRead
      <4> QED BY <4>3 DEF s, Received
    <3>15. d = 2 \/ (d = 0 /\ (m = 0 \/ m = 1 \/ m >= 2)) BY <3>3, <3>9
    <3> QED BY <3>11, <3>12, <3>13, <3>14, <3>15
  <2> QED BY <2>2, <2>3
<1> QED BY <1>5, <1>6

LEMMA CodecStep == ASSUME CodecInv, [CodecNext]_codecVars PROVE CodecInv'
<1>1. CASE \E room \in 1..MaxRoom : ReadPending(room) \/ \E n \in 1..room : ReadTerminal(room, n)
  BY <1>1, ReadingPending, ReadingTerminal
<1>2. CASE ReadEnd BY <1>2, ReadingEnd
<1>3. CASE ClientDies BY <1>3, Dying
<1>4. CASE \E n \in 1..MaxRoom : ReadPipe(n) BY <1>4, ReadingPipe
<1>5. CASE UNCHANGED codecVars
  <2>1. script' = script /\ noEcho' = noEcho /\ wire' = wire /\ cr' = cr /\ got' = got BY <1>5 DEF codecVars
  <2>2. Sent' = Sent BY <2>1 DEF Sent
  <2>3. \A f : TerminalSo(f)' <=> TerminalSo(f) BY <2>1, <2>2 DEF TerminalSo
  <2>4. \A m : PipeSo(m)' <=> PipeSo(m) BY <2>1, <2>2 DEF PipeSo
  <2>5. CodecTypeOK' BY <2>1 DEF CodecInv, CodecTypeOK
  <2> QED BY <2>1, <2>3, <2>4, <2>5 DEF CodecInv
<1> QED BY <1>1, <1>2, <1>3, <1>4, <1>5 DEF CodecNext

LEMMA ArrivesIsFramesArrive == ASSUME CodecInv PROVE FramesArrive
<1> SUFFICES ASSUME wire = <<>>, cr.pending = <<>>, ~cr.hasCR
             PROVE  \E n \in 0..Len(script) :
                        LET meant == Concat([i \in 1..n |-> Meant(script[i])])
                            next  == script[n + 1]
                        IN /\ Whole(n)
                           /\ n = Len(script) => Units(got) = Append(meant, "eof")
                           /\ n < Len(script) =>
                                /\ ~Whole(n + 1)
                                /\ \/ HoldsLine(next) /\ ~Fits(next) /\ StartsWith(Units(got), meant)
                                   \/ \E k \in 0..Pieces(next), why \in {"eof", "limit", "protocol"} :
                                         /\ k > 0 => Begun(n, k)
                                         /\ k < Pieces(next) => ~Begun(n, k + 1)
                                         /\ StartsWith(Received, ScriptBytes(script, n + 1)) => why # "eof"
                                         /\ Units(got) = Append(meant \o Notes(next, k), why)
  BY DEF FramesArrive
<1>1. ArrivesAs(Units(got), Received, script) BY AllRead
<1>2. \A n : Whole(n) <=> WholeOf(Received, script, n) BY DEF Whole, WholeOf
<1>3. \A n : Meanings(script, n) = Concat([i \in 1..n |-> Meant(script[i])]) BY DEF Meanings
<1>4. \A n, k : Begun(n, k) <=> BegunAs(Received, script, n, k) BY DEF Begun, BegunAs, HeaderOf
<1> QED BY <1>1, <1>2, <1>3, <1>4 DEF ArrivesAs

\* controlStreamReader, readControlUnit, readFrame: whatever a daemon sends, through a pipe or a
\* terminal, however it is cut into reads and wherever its client dies, each frame and notification
\* within the limit arrives as it was sent, but for the lines of a command's text that read as
\* notifications, and nothing is made of a part of one.  Of a frame that fails, the notifications it
\* held before the piece it fails at are published, those and no others, and then the cause.  For
\* scripts of any length, records of any values, any sizes of the buffers and any limit below MaxNumber.
THEOREM FramesArriveWhole == CodecSpec => []FramesArrive
<1>1. CodecInit => CodecInv BY InitCodec
<1>2. CodecInv /\ [CodecNext]_codecVars => CodecInv' BY CodecStep
<1>3. CodecInv => FramesArrive BY ArrivesIsFramesArrive
<1> QED BY <1>1, <1>2, <1>3, PTL DEF CodecSpec
=============================================================================
