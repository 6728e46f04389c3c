------------------------- MODULE EventStreamProofs --------------------------
(* Proofs about the event streams of a connection: no event is lost in      *)
(* silence, every quota is exact, a stop leaves no stream open, and the     *)
(* first of several ends stands. Then the proofs about its output policy, the *)
(* filter that publish applies: it is the last word of the                  *)
(* calls, and lets through the output they turned on.                       *)
EXTENDS EventStream, OutputPolicy, FiniteSetTheorems, SequenceTheorems, TLAPS

-----------------------------------------------------------------------------
(* The values the variables take.                                           *)
EventRec == [id : Nat, size : Nat]

ConnTypeOK ==
    /\ stage \in {"open", "flagged", "signalled", "stopped"} /\ stopTodo \subseteq Streams
    /\ streams \subseteq Streams /\ reserved \in Nat
    /\ published \in Nat /\ size \in Nat /\ todo \subseteq Streams /\ target \subseteq Streams
    /\ ppc \in {"idle", "push", "wake", "overflow", "finishing"}

StreamTypeOK ==
    /\ terminal \in [Streams -> {"none", "lost", "EOF", "ctx", "closed"}]
    /\ queue \in [Streams -> Seq(EventRec)] /\ bytes \in [Streams -> Nat]
    /\ done \in [Streams -> Nat] /\ watcher \in [Streams -> {"none", "run", "done", "refused"}]
    /\ fin \in [Streams -> [Finishers -> {"out", "release", "close", "left"}]]
    /\ got \in [Streams -> Seq(Nat)] /\ since \in [Streams -> Nat]

TypeOK == ConnTypeOK /\ StreamTypeOK

(* The inductive invariant.                                                 *)
InFinish(s, f) == fin[s][f] \in {"release", "close"}

\* At most one goroutine is in the body of finish, the stream has ended by then, and its done is
\* not closed yet; the publisher is there only on behalf of the stream it found full.
FinishOnce ==
    /\ \A s \in Streams :
          /\ done[s] <= 1
          /\ Live(s) => done[s] = 0
          /\ done[s] > 0 => s \notin streams
    /\ \A s \in Streams, f \in Finishers :
          /\ InFinish(s, f) => ~Live(s) /\ done[s] = 0
          /\ fin[s][f] = "close" => s \notin streams
          /\ InFinish(s, f) /\ f = "push" => ppc = "finishing" /\ s \in target
    /\ \A s \in Streams, f, g \in Finishers : InFinish(s, f) /\ InFinish(s, g) => f = g

\* Registered streams, those of stop and those of the publisher have been opened; a stream that
\* lives is registered, and once the connection is closed stop has yet to finish it.
Registered ==
    /\ \A s \in streams \cup stopTodo \cup todo \cup target : Opened(s)
    /\ \A s \in Streams :
          /\ Opened(s) /\ Live(s) => s \in streams
          /\ Opened(s) /\ Live(s) /\ Closed => s \in stopTodo
          /\ ~Opened(s) => Live(s) /\ queue[s] = <<>> /\ got[s] = <<>>
    /\ stage = "stopped" => stopTodo = {}
    /\ ppc = "idle" => todo = {}
    /\ ppc \in {"idle", "push"} => target = {}
    /\ \A s, t \in target : s = t

\* What a stream has returned and holds, number by number.
Pending(s) == s \in todo \/ (s \in target /\ ppc = "overflow")

NumberedAt(s) ==
    /\ \A i \in 1..Len(got[s]) : got[s][i] = since[s] + i - 1
    /\ \A i \in 1..Len(queue[s]) : queue[s][i].id = since[s] + Len(got[s]) + i - 1
    /\ Live(s) => /\ Pending(s)  => since[s] + Len(got[s]) + Len(queue[s]) = published
                  /\ ~Pending(s) => since[s] + Len(got[s]) + Len(queue[s]) = published + 1

Numbered == \A s \in Streams : Opened(s) => NumberedAt(s)

\* The quota of the connection, and the bytes and the length of each queue.
QuotaKept ==
    /\ IsFiniteSet(Quota(streams))
    /\ reserved = Cardinality(Quota(streams)) /\ reserved <= EventBytes
    /\ Cardinality(streams) <= MaxStreams

QueuesKept ==
    \A s \in Streams :
        /\ IsFiniteSet(Held(queue[s]))
        /\ bytes[s] = Cardinality(Held(queue[s]))
        /\ bytes[s] <= MaxBytes[s] /\ Len(queue[s]) <= MaxCount

StreamInv == TypeOK /\ FinishOnce /\ Registered /\ Numbered /\ QuotaKept /\ QueuesKept

-----------------------------------------------------------------------------
(* Bytes are counted one by one.                                            *)
LEMMA Column ==
    ASSUME NEW x, NEW n \in Nat
    PROVE  IsFiniteSet({x} \X (1..n)) /\ Cardinality({x} \X (1..n)) = n
<1>1. IsFiniteSet(1..n) /\ Cardinality(1..n) = n
  BY FS_Interval
<1>2. IsFiniteSet({x}) /\ Cardinality({x}) = 1
  BY FS_Singleton
<1> QED BY <1>1, <1>2, FS_Product

LEMMA ColumnAdded ==
    ASSUME NEW S, IsFiniteSet(S), NEW x, NEW n \in Nat, \A k \in 1..n : <<x, k>> \notin S
    PROVE  /\ IsFiniteSet(S \cup ({x} \X (1..n)))
           /\ Cardinality(S \cup ({x} \X (1..n))) = Cardinality(S) + n
<1> DEFINE C == {x} \X (1..n)
<1>1. S \cap C = {}
  OBVIOUS
<1>2. Cardinality({}) = 0 /\ Cardinality(S) \in Nat
  BY FS_EmptySet, FS_CardinalityType
<1>3. IsFiniteSet(C) /\ Cardinality(C) = n
  BY Column
<1> HIDE DEF C
<1>4. IsFiniteSet(S \cup C) /\ Cardinality(S \cup C) = Cardinality(S) + Cardinality(C) - 0
  BY <1>1, <1>2, <1>3, FS_Union
<1> QED BY <1>2, <1>3, <1>4 DEF C

LEMMA ColumnRemoved ==
    ASSUME NEW S, IsFiniteSet(S), NEW x, NEW n \in Nat, \A k \in 1..n : <<x, k>> \in S
    PROVE  /\ IsFiniteSet(S \ ({x} \X (1..n))) /\ n <= Cardinality(S)
           /\ Cardinality(S \ ({x} \X (1..n))) = Cardinality(S) - n
<1> DEFINE C == {x} \X (1..n)
<1>1. S \cap C = C /\ C \subseteq S
  OBVIOUS
<1>2. IsFiniteSet(C) /\ Cardinality(C) = n
  BY Column
<1> HIDE DEF C
<1>3. Cardinality(C) <= Cardinality(S)
  BY <1>1, FS_Subset
<1>4. IsFiniteSet(S \ C) /\ Cardinality(S \ C) = Cardinality(S) - Cardinality(C)
  BY <1>1, FS_Difference
<1> QED BY <1>2, <1>3, <1>4 DEF C

LEMMA QuotaAdded ==
    ASSUME NEW S \in SUBSET Streams, NEW s \in Streams \ S, IsFiniteSet(Quota(S))
    PROVE  /\ IsFiniteSet(Quota(S \cup {s}))
           /\ Cardinality(Quota(S \cup {s})) = Cardinality(Quota(S)) + MaxBytes[s]
<1>1. Quota(S \cup {s}) = Quota(S) \cup ({s} \X (1..MaxBytes[s]))
  BY DEF Quota
<1>2. MaxBytes[s] \in Nat
  BY StreamAssumption
<1>3. \A k \in 1..MaxBytes[s] : <<s, k>> \notin Quota(S)
  BY DEF Quota
<1> DEFINE S0 == Quota(S)
           n  == MaxBytes[s]
<1>4. IsFiniteSet(S0) /\ n \in Nat /\ \A k \in 1..n : <<s, k>> \notin S0
  BY <1>2, <1>3
<1> HIDE DEF S0, n
<1>5. /\ IsFiniteSet(S0 \cup ({s} \X (1..n)))
      /\ Cardinality(S0 \cup ({s} \X (1..n))) = Cardinality(S0) + n
  BY <1>4, ColumnAdded
<1> QED BY <1>1, <1>5 DEF S0, n

LEMMA QuotaRemoved ==
    ASSUME NEW S \in SUBSET Streams, NEW s \in S, IsFiniteSet(Quota(S))
    PROVE  /\ IsFiniteSet(Quota(S \ {s})) /\ MaxBytes[s] <= Cardinality(Quota(S))
           /\ Cardinality(Quota(S \ {s})) = Cardinality(Quota(S)) - MaxBytes[s]
<1>1. Quota(S \ {s}) = Quota(S) \ ({s} \X (1..MaxBytes[s]))
  <2>1. ASSUME NEW u PROVE u \in Quota(S \ {s}) <=> u \in Quota(S) \ ({s} \X (1..MaxBytes[s]))
    BY DEF Quota
  <2> QED BY <2>1
<1>2. MaxBytes[s] \in Nat
  BY StreamAssumption
<1>3. \A k \in 1..MaxBytes[s] : <<s, k>> \in Quota(S)
  BY DEF Quota
<1> DEFINE S0 == Quota(S)
           n  == MaxBytes[s]
<1>4. IsFiniteSet(S0) /\ n \in Nat /\ \A k \in 1..n : <<s, k>> \in S0
  BY <1>2, <1>3
<1> HIDE DEF S0, n
<1>5. /\ IsFiniteSet(S0 \ ({s} \X (1..n))) /\ n <= Cardinality(S0)
      /\ Cardinality(S0 \ ({s} \X (1..n))) = Cardinality(S0) - n
  BY <1>4, ColumnRemoved
<1> QED BY <1>1, <1>5 DEF S0, n

LEMMA HeldEmpty == IsFiniteSet(Held(<<>>)) /\ Cardinality(Held(<<>>)) = 0
<1>1. Held(<<>>) = {}
  BY DEF Held
<1> QED BY <1>1, FS_EmptySet

LEMMA HeldAppended ==
    ASSUME NEW q \in Seq(EventRec), NEW e \in EventRec, IsFiniteSet(Held(q))
    PROVE  /\ IsFiniteSet(Held(Append(q, e)))
           /\ Cardinality(Held(Append(q, e))) = Cardinality(Held(q)) + e.size
<1> DEFINE n == Len(q) + 1
<1>0. n \in Nat /\ DOMAIN q = 1..Len(q) /\ e.size \in Nat
  BY DEF EventRec
<1>1. /\ DOMAIN Append(q, e) = (1..Len(q)) \cup {n} /\ Append(q, e)[n] = e
      /\ \A i \in 1..Len(q) : Append(q, e)[i] = q[i]
  OBVIOUS
<1>2. Held(Append(q, e)) = Held(q) \cup ({n} \X (1..e.size))
  <2>1. ASSUME NEW u PROVE u \in Held(Append(q, e)) <=> u \in Held(q) \cup ({n} \X (1..e.size))
    BY <1>0, <1>1 DEF Held
  <2> QED BY <2>1
<1>3. \A k \in 1..e.size : <<n, k>> \notin Held(q)
  BY <1>0 DEF Held
<1> DEFINE S0 == Held(q)
           m  == e.size
<1>4. IsFiniteSet(S0) /\ m \in Nat /\ \A k \in 1..m : <<n, k>> \notin S0
  BY <1>0, <1>3
<1> HIDE DEF S0, n, m
<1>5. /\ IsFiniteSet(S0 \cup ({n} \X (1..m)))
      /\ Cardinality(S0 \cup ({n} \X (1..m))) = Cardinality(S0) + m
  BY <1>4, ColumnAdded
<1> QED BY <1>2, <1>5 DEF S0, m

LEMMA HeldTaken ==
    ASSUME NEW q \in Seq(EventRec), q # <<>>, IsFiniteSet(Held(q))
    PROVE  /\ IsFiniteSet(Held(Tail(q))) /\ Head(q).size <= Cardinality(Held(q))
           /\ Cardinality(Held(Tail(q))) = Cardinality(Held(q)) - Head(q).size
<1> DEFINE e == Head(q)
           Rest == Held(q) \ ({1} \X (1..e.size))
           shift == [u \in Rest |-> <<u[1] - 1, u[2]>>]
<1>0. /\ Len(q) \in Nat \ {0} /\ DOMAIN q = 1..Len(q) /\ q[1] = e /\ e \in EventRec
      /\ e.size \in Nat
  <2>1. Len(q) \in Nat \ {0} /\ DOMAIN q = 1..Len(q) /\ q[1] = e
    OBVIOUS
  <2>2. q[1] \in EventRec
    BY <2>1
  <2> QED BY <2>1, <2>2 DEF EventRec
<1>1. /\ DOMAIN Tail(q) = 1..(Len(q) - 1)
      /\ \A i \in 1..(Len(q) - 1) : Tail(q)[i] = q[i + 1]
  BY <1>0
<1>2. \A k \in 1..e.size : <<1, k>> \in Held(q)
  BY <1>0 DEF Held
<1>3. /\ IsFiniteSet(Rest) /\ e.size <= Cardinality(Held(q))
      /\ Cardinality(Rest) = Cardinality(Held(q)) - e.size
  BY <1>0, <1>2, ColumnRemoved
<1>4. \A i, k : <<i, k>> \in Rest <=> i \in 2..Len(q) /\ k \in 1..q[i].size
  BY <1>0 DEF Held
<1>5. \A i, k : <<i, k>> \in Held(Tail(q)) <=> i \in 1..(Len(q) - 1) /\ k \in 1..q[i + 1].size
  BY <1>0, <1>1 DEF Held
<1>6. \A u \in Rest : u = <<u[1], u[2]>>
  BY DEF Held
<1>7. \A u \in Held(Tail(q)) : u = <<u[1], u[2]>>
  BY DEF Held
<1>8. shift \in Bijection(Rest, Held(Tail(q)))
  <2>1. \A u \in Rest : shift[u] \in Held(Tail(q))
    <3> TAKE u \in Rest
    <3>1. u[1] \in 2..Len(q) /\ u[2] \in 1..q[u[1]].size
      BY <1>4, <1>6
    <3>2. u[1] - 1 \in 1..(Len(q) - 1) /\ (u[1] - 1) + 1 = u[1]
      BY <1>0, <3>1
    <3> QED BY <1>5, <3>1, <3>2
  <2>2. \A u, v \in Rest : shift[u] = shift[v] => u = v
    <3> TAKE u, v \in Rest
    <3>1. u[1] \in Int /\ v[1] \in Int
      BY <1>0, <1>4, <1>6
    <3> QED BY <1>6, <3>1
  <2>3. \A w \in Held(Tail(q)) : \E u \in Rest : shift[u] = w
    <3> TAKE w \in Held(Tail(q))
    <3>1. w[1] \in 1..(Len(q) - 1) /\ w[2] \in 1..q[w[1] + 1].size
      BY <1>5, <1>7
    <3>2. w[1] + 1 \in 2..Len(q) /\ (w[1] + 1) - 1 = w[1]
      BY <1>0, <3>1
    <3>3. <<w[1] + 1, w[2]>> \in Rest
      BY <1>4, <3>1, <3>2
    <3>4. shift[<<w[1] + 1, w[2]>>] = w
      BY <1>7, <3>2, <3>3
    <3> QED BY <3>3, <3>4
  <2> HIDE DEF Rest
  <2>4. shift \in [Rest -> Held(Tail(q))]
    BY <2>1
  <2> HIDE DEF shift
  <2> QED BY <2>2, <2>3, <2>4 DEF Bijection, Injection, Surjection, IsInjective
<1>9. IsFiniteSet(Held(Tail(q))) /\ Cardinality(Held(Tail(q))) = Cardinality(Rest)
  <2> HIDE DEF Rest, shift
  <2>1. ExistsBijection(Rest, Held(Tail(q)))
    BY <1>8 DEF ExistsBijection
  <2> QED BY <1>3, <2>1, FS_Bijection
<1> QED BY <1>3, <1>9

-----------------------------------------------------------------------------
(* The steps, one by one.  What a reader does with wake matters to nothing  *)
(* here, and finish is the same for all who call it.                        *)
LEMMA SameNumbers ==
    ASSUME NEW t, NumberedAt(t), got'[t] = got[t], queue'[t] = queue[t], since'[t] = since[t],
           published' = published, Live(t)' => Live(t), Live(t)' => (Pending(t)' <=> Pending(t))
    PROVE  NumberedAt(t)'
<1>1. CASE Live(t)' /\ Pending(t)'
  BY <1>1 DEF NumberedAt
<1>2. CASE Live(t)' /\ ~Pending(t)'
  BY <1>2 DEF NumberedAt
<1>3. CASE ~Live(t)'
  BY <1>3 DEF NumberedAt
<1> QED BY <1>1, <1>2, <1>3

\* Sums, apart from the sequences whose lengths they are about.
LEMMA SumAppended ==
    ASSUME NEW a \in Nat, NEW g \in Nat, NEW n \in Nat
    PROVE  a + g + (n + 1) = (a + g + n) + 1
OBVIOUS

LEMMA SumTaken ==
    ASSUME NEW a \in Nat, NEW g \in Nat, NEW n \in Nat
    PROVE  a + (g + 1) + (n - 1) = a + g + n
OBVIOUS

LEMMA PlaceTaken ==
    ASSUME NEW a \in Nat, NEW g \in Nat, NEW i \in Nat
    PROVE  a + g + (i + 1) - 1 = a + (g + 1) + i - 1
OBVIOUS

\* An event is appended to the queue of a stream that it was pending for.
LEMMA NumberAppended ==
    ASSUME NEW s, NEW e \in EventRec, e.id = published, NumberedAt(s), Live(s), Pending(s),
           queue[s] \in Seq(EventRec), queue'[s] = Append(queue[s], e), got[s] \in Seq(Nat),
           since[s] \in Nat, published \in Nat, got'[s] = got[s], since'[s] = since[s],
           published' = published, ~Pending(s)'
    PROVE  NumberedAt(s)'
<1> DEFINE n == Len(queue[s])
           g == Len(got[s])
<1>1. n \in Nat /\ g \in Nat /\ since[s] + g + n = published
  BY DEF NumberedAt
<1>2. /\ Len(queue'[s]) = n + 1 /\ queue'[s][n + 1].id = published
      /\ \A i \in 1..n : queue'[s][i] = queue[s][i]
  OBVIOUS
<1>3. \A i \in 1..n : queue[s][i].id = since[s] + g + i - 1
  BY DEF NumberedAt
<1>4. \A i \in 1..Len(got'[s]) : got'[s][i] = since'[s] + i - 1
  BY DEF NumberedAt
<1> HIDE DEF n
<1>5. \A i \in 1..(n + 1) : i \in 1..n \/ i = n + 1
  BY <1>1
<1>6. \A i \in 1..Len(queue'[s]) : queue'[s][i].id = since'[s] + Len(got'[s]) + i - 1
  <2> TAKE i \in 1..Len(queue'[s])
  <2>1. CASE i \in 1..n
    BY <1>2, <1>3, <2>1
  <2>2. CASE i = n + 1
    BY <1>1, <1>2, <2>2
  <2> QED BY <1>2, <1>5, <2>1, <2>2
<1>7. since'[s] + Len(got'[s]) + Len(queue'[s]) = published' + 1
  <2>1. since'[s] = since[s] /\ Len(got'[s]) = g /\ Len(queue'[s]) = n + 1
    BY <1>2
  <2> HIDE DEF g
  <2>2. since[s] + g + (n + 1) = published + 1
    <3>1. since[s] + g + (n + 1) = (since[s] + g + n) + 1
      BY <1>1, SumAppended, Zenon
    <3> QED BY <1>1, <3>1, Zenon
  <2> QED BY <2>1, <2>2
<1> QED BY <1>4, <1>6, <1>7 DEF NumberedAt

\* The head of the queue is returned.
LEMMA NumberTaken ==
    ASSUME NEW s, NumberedAt(s), queue[s] \in Seq(EventRec), queue[s] # <<>>,
           got[s] \in Seq(Nat), since[s] \in Nat, queue'[s] = Tail(queue[s]),
           got'[s] = Append(got[s], Head(queue[s]).id), since'[s] = since[s],
           published' = published, Live(s)' => Live(s), Pending(s)' <=> Pending(s)
    PROVE  NumberedAt(s)'
<1> DEFINE n == Len(queue[s])
           g == Len(got[s])
<1>1. n \in Nat \ {0} /\ g \in Nat /\ Head(queue[s]) = queue[s][1] /\ 1 \in 1..n
  OBVIOUS
<1>2. queue[s][1].id \in Nat
  <2>1. queue[s][1] \in EventRec
    BY <1>1
  <2> QED BY <2>1 DEF EventRec
<1>3. queue[s][1].id = since[s] + g + 1 - 1
  BY <1>1 DEF NumberedAt
<1>4. /\ Len(got'[s]) = g + 1 /\ got'[s][g + 1] = queue[s][1].id
      /\ \A i \in 1..g : got'[s][i] = got[s][i]
  BY <1>1, <1>2
<1>5. Len(queue'[s]) = n - 1 /\ \A i \in 1..(n - 1) : queue'[s][i] = queue[s][i + 1]
  BY <1>1
<1>6. \A i \in 1..n : queue[s][i].id = since[s] + g + i - 1
  BY DEF NumberedAt
<1>7. \A i \in 1..g : got[s][i] = since[s] + i - 1
  BY DEF NumberedAt
<1>8. /\ Live(s) /\ Pending(s) => since[s] + g + n = published
      /\ Live(s) /\ ~Pending(s) => since[s] + g + n = published + 1
  BY DEF NumberedAt
<1> HIDE DEF n, g
<1>9. \A i \in 1..Len(got'[s]) : got'[s][i] = since'[s] + i - 1
  <2> TAKE i \in 1..Len(got'[s])
  <2>1. i \in 1..g \/ i = g + 1
    BY <1>1, <1>4
  <2>2. CASE i \in 1..g
    BY <1>4, <1>7, <2>2
  <2>3. CASE i = g + 1
    BY <1>1, <1>3, <1>4, <2>3
  <2> QED BY <2>1, <2>2, <2>3
<1>10. \A i \in 1..Len(queue'[s]) : queue'[s][i].id = since'[s] + Len(got'[s]) + i - 1
  <2> TAKE i \in 1..Len(queue'[s])
  <2>1. i \in 1..(n - 1) /\ i + 1 \in 1..n
    BY <1>1, <1>5
  <2>2. queue'[s][i].id = since[s] + g + (i + 1) - 1
    BY <1>5, <1>6, <2>1
  <2>3. i \in Nat /\ since'[s] = since[s]
    BY <1>1, <2>1
  <2>4. since[s] + g + (i + 1) - 1 = since[s] + (g + 1) + i - 1
    BY <1>1, <2>3, PlaceTaken, Zenon
  <2> QED BY <1>4, <2>2, <2>3, <2>4
<1>11. since'[s] + Len(got'[s]) + Len(queue'[s]) = since[s] + g + n
  <2>1. since[s] + (g + 1) + (n - 1) = since[s] + g + n
    <3>1. n \in Nat /\ g \in Nat
      BY <1>1
    <3> QED BY <3>1, SumTaken, Zenon
  <2> QED BY <1>4, <1>5, <2>1
<1>12. CASE Live(s)' /\ Pending(s)'
  BY <1>8, <1>9, <1>10, <1>11, <1>12 DEF NumberedAt
<1>13. CASE Live(s)' /\ ~Pending(s)'
  BY <1>8, <1>9, <1>10, <1>11, <1>13 DEF NumberedAt
<1>14. CASE ~Live(s)'
  BY <1>9, <1>10, <1>14 DEF NumberedAt
<1> QED BY <1>12, <1>13, <1>14

\* A stream that ends keeps what it has returned.
LEMMA NumberEnds ==
    ASSUME NEW s, NumberedAt(s), queue'[s] = <<>>, got'[s] = got[s], since'[s] = since[s], ~Live(s)'
    PROVE  NumberedAt(s)'
BY DEF NumberedAt

LEMMA FinishKeeps ==
    ASSUME StreamInv, NEW s \in Streams, NEW f \in Finishers,
           NEW end \in {"lost", "EOF", "ctx", "closed"}, Opened(s), ~InFinish(s, f),
           StartFinish(s, f, end),
           UNCHANGED <<stage, regVars, done, watcher, published, size, todo, target, logVars>>,
           stopTodo' = stopTodo \/ stopTodo' = stopTodo \ {s},
           \/ ppc' = ppc /\ f # "push"
           \/ ppc = "overflow" /\ ppc' = "finishing" /\ s \in target
    PROVE  StreamInv'
<1> USE DEF StreamInv, TypeOK, ConnTypeOK, StreamTypeOK, regVars, logVars
<1>1. CASE Live(s)
  <2>1. /\ terminal' = [terminal EXCEPT ![s] = end]
        /\ queue' = [queue EXCEPT ![s] = <<>>] /\ bytes' = [bytes EXCEPT ![s] = 0]
        /\ fin' = [fin EXCEPT ![s][f] = "release"]
    BY <1>1 DEF StartFinish
  <2>2. TypeOK'
    BY <2>1
  <2>3. FinishOnce'
    BY <1>1, <2>1 DEF FinishOnce, InFinish, Live
  <2>4. Registered'
    BY <1>1, <2>1 DEF Registered, Opened, Live, Closed
  <2>5. Numbered'
    <3>1. NumberedAt(s)
      BY DEF Numbered
    <3>2. queue'[s] = <<>> /\ got'[s] = got[s] /\ since'[s] = since[s] /\ ~Live(s)'
      BY <2>1 DEF Live
    <3>3. NumberedAt(s)'
      BY <3>1, <3>2, NumberEnds
    <3>4. ASSUME NEW t \in Streams \ {s}, Opened(t)'
          PROVE  /\ Opened(t) /\ got'[t] = got[t] /\ queue'[t] = queue[t] /\ since'[t] = since[t]
                 /\ published' = published /\ Live(t)' = Live(t) /\ (Pending(t)' <=> Pending(t))
      BY <2>1, <3>4 DEF Opened, Live, Pending, Registered
    <3>5. \A t \in Streams \ {s} : Opened(t)' => NumberedAt(t)'
      BY <3>4, SameNumbers DEF Numbered
    <3> QED BY <3>3, <3>5 DEF Numbered
  <2>6. QuotaKept'
    BY DEF QuotaKept
  <2>7. QueuesKept'
    <3>1. MaxBytes[s] \in Nat /\ 0 <= MaxBytes[s] /\ 0 <= MaxCount /\ Len(<<>>) = 0
      BY StreamAssumption
    <3>2. queue'[s] = <<>> /\ bytes'[s] = 0
      BY <2>1
    <3>3. \A t \in Streams \ {s} : queue'[t] = queue[t] /\ bytes'[t] = bytes[t]
      BY <2>1
    <3> QED BY <3>1, <3>2, <3>3, HeldEmpty DEF QueuesKept
  <2> QED BY <2>2, <2>3, <2>4, <2>5, <2>6, <2>7
<1>2. CASE ~Live(s)
  <2>1. fin' = [fin EXCEPT ![s][f] = "left"] /\ UNCHANGED <<terminal, queue, bytes>>
    BY <1>2 DEF StartFinish
  <2>2. TypeOK'
    BY <2>1
  <2>3. FinishOnce'
    BY <1>2, <2>1 DEF FinishOnce, InFinish, Live
  <2>4. Registered'
    BY <1>2, <2>1 DEF Registered, Opened, Live, Closed
  <2>5. Numbered'
    <3>1. ASSUME NEW t \in Streams, Opened(t)'
          PROVE  /\ Opened(t) /\ got'[t] = got[t] /\ queue'[t] = queue[t] /\ since'[t] = since[t]
                 /\ published' = published /\ Live(t)' = Live(t)
                 /\ Live(t)' => (Pending(t)' <=> Pending(t))
      BY <1>2, <2>1, <3>1 DEF Opened, Live, Pending, Registered
    <3> QED BY <3>1, SameNumbers DEF Numbered
  <2>6. QuotaKept'
    BY DEF QuotaKept
  <2>7. QueuesKept'
    BY <2>1 DEF QueuesKept
  <2> QED BY <2>2, <2>3, <2>4, <2>5, <2>6, <2>7
<1> QED BY <1>1, <1>2

LEMMA WatchCtxKeeps == ASSUME StreamInv, NEW s \in Streams, WatchCtx(s) PROVE StreamInv'
<1> USE DEF WatchCtx
<1>1. Opened(s)
  BY DEF StreamInv, Registered, Opened
<1>2. ~InFinish(s, "watch")
  BY DEF InFinish, StreamInv
<1>3. "watch" \in Finishers
  BY DEF Finishers
<1>4. StreamInv'
  <2>1. StartFinish(s, "watch", "ctx")
    OBVIOUS
  <2>2. UNCHANGED <<stage, regVars, done, watcher, published, size, todo, target, logVars>>
    BY DEF connVars, pubVars
  <2>3. stopTodo' = stopTodo \/ stopTodo' = stopTodo \ {s}
    BY DEF connVars
  <2>4. \/ ppc' = ppc /\ "watch" # "push"
        \/ ppc = "overflow" /\ ppc' = "finishing" /\ s \in target
    BY DEF pubVars
  <2> QED BY <1>1, <1>2, <1>3, <2>1, <2>2, <2>3, <2>4, FinishKeeps
<1> QED BY <1>4

LEMMA WatchStopKeeps == ASSUME StreamInv, NEW s \in Streams, WatchStop(s) PROVE StreamInv'
<1> USE DEF WatchStop
<1>1. Opened(s)
  BY DEF StreamInv, Registered, Opened
<1>2. ~InFinish(s, "watch")
  BY DEF InFinish, StreamInv
<1>3. "watch" \in Finishers
  BY DEF Finishers
<1>4. StreamInv'
  <2>1. StartFinish(s, "watch", "closed")
    OBVIOUS
  <2>2. UNCHANGED <<stage, regVars, done, watcher, published, size, todo, target, logVars>>
    BY DEF connVars, pubVars
  <2>3. stopTodo' = stopTodo \/ stopTodo' = stopTodo \ {s}
    BY DEF connVars
  <2>4. \/ ppc' = ppc /\ "watch" # "push"
        \/ ppc = "overflow" /\ ppc' = "finishing" /\ s \in target
    BY DEF pubVars
  <2> QED BY <1>1, <1>2, <1>3, <2>1, <2>2, <2>3, <2>4, FinishKeeps
<1> QED BY <1>4

LEMMA CloseStreamKeeps == ASSUME StreamInv, NEW s \in Streams, CloseStream(s) PROVE StreamInv'
<1> USE DEF CloseStream
<1>1. Opened(s)
  BY DEF StreamInv, Registered, Opened
<1>2. ~InFinish(s, "close")
  BY DEF InFinish, StreamInv
<1>3. "close" \in Finishers
  BY DEF Finishers
<1>4. StreamInv'
  <2>1. StartFinish(s, "close", "EOF")
    OBVIOUS
  <2>2. UNCHANGED <<stage, regVars, done, watcher, published, size, todo, target, logVars>>
    BY DEF connVars, pubVars
  <2>3. stopTodo' = stopTodo \/ stopTodo' = stopTodo \ {s}
    BY DEF connVars
  <2>4. \/ ppc' = ppc /\ "close" # "push"
        \/ ppc = "overflow" /\ ppc' = "finishing" /\ s \in target
    BY DEF pubVars
  <2> QED BY <1>1, <1>2, <1>3, <2>1, <2>2, <2>3, <2>4, FinishKeeps
<1> QED BY <1>4

LEMMA StopVisitKeeps == ASSUME StreamInv, NEW s \in Streams, StopVisit(s) PROVE StreamInv'
<1> USE DEF StopVisit
<1>1. Opened(s)
  BY DEF StreamInv, Registered, Opened
<1>2. ~InFinish(s, "stop")
  BY DEF InFinish, StopResting
<1>3. "stop" \in Finishers
  BY DEF Finishers
<1>4. StreamInv'
  <2>1. StartFinish(s, "stop", "closed")
    OBVIOUS
  <2>2. UNCHANGED <<stage, regVars, done, watcher, published, size, todo, target, logVars>>
    BY DEF connVars, pubVars
  <2>3. stopTodo' = stopTodo \/ stopTodo' = stopTodo \ {s}
    BY DEF connVars
  <2>4. \/ ppc' = ppc /\ "stop" # "push"
        \/ ppc = "overflow" /\ ppc' = "finishing" /\ s \in target
    BY DEF pubVars
  <2> QED BY <1>1, <1>2, <1>3, <2>1, <2>2, <2>3, <2>4, FinishKeeps
<1> QED BY <1>4

LEMMA PushOverflowKeeps == ASSUME StreamInv, NEW s \in Streams, PushOverflow(s) PROVE StreamInv'
<1> USE DEF PushOverflow
<1>1. Opened(s)
  BY DEF StreamInv, Registered, Opened
<1>2. ~InFinish(s, "push")
  BY DEF InFinish, StreamInv, FinishOnce, Finishers
<1>3. "push" \in Finishers
  BY DEF Finishers
<1>4. StreamInv'
  <2>1. StartFinish(s, "push", "lost")
    OBVIOUS
  <2>2. UNCHANGED <<stage, regVars, done, watcher, published, size, todo, target, logVars>>
    BY DEF connVars, pubVars
  <2>3. stopTodo' = stopTodo \/ stopTodo' = stopTodo \ {s}
    BY DEF connVars
  <2>4. \/ ppc' = ppc /\ "push" # "push"
        \/ ppc = "overflow" /\ ppc' = "finishing" /\ s \in target
    BY DEF pubVars
  <2> QED BY <1>1, <1>2, <1>3, <2>1, <2>2, <2>3, <2>4, FinishKeeps
<1> QED BY <1>4

LEMMA ReleaseKeeps ==
    ASSUME StreamInv, NEW s \in Streams, NEW f \in Finishers, Release(s, f)
    PROVE  StreamInv'
<1> USE StreamAssumption
    DEF StreamInv, TypeOK, ConnTypeOK, StreamTypeOK, Release,
        connVars, regVars, streamVars, finVars, pubVars, readVars, logVars
<1>1. TypeOK'
  <2>1. reserved' \in Nat /\ streams' \subseteq Streams
    <3>1. CASE s \in streams
      <4>1. MaxBytes[s] <= reserved
        BY <3>1, QuotaRemoved DEF QuotaKept
      <4>2. MaxBytes[s] \in Nat /\ reserved' = reserved - MaxBytes[s]
        BY <3>1
      <4>3. streams' \subseteq Streams
        BY <3>1
      <4> QED BY <4>1, <4>2, <4>3
    <3>2. CASE s \notin streams
      BY <3>2
    <3> QED BY <3>1, <3>2
  <2> QED BY <2>1
<1>2. FinishOnce'
  <2>1. CASE s \in streams
    BY <2>1 DEF FinishOnce, InFinish, Live
  <2>2. CASE ~(s \in streams)
    BY <2>2 DEF FinishOnce, InFinish, Live
  <2> QED BY <2>1, <2>2
<1>3. Registered'
  <2>1. CASE s \in streams
    BY <2>1 DEF Registered, Opened, Live, Closed, FinishOnce, InFinish
  <2>2. CASE ~(s \in streams)
    BY <2>2 DEF Registered, Opened, Live, Closed, FinishOnce, InFinish
  <2> QED BY <2>1, <2>2
<1>4. Numbered'
  <2>1. ASSUME NEW t \in Streams, Opened(t)'
        PROVE  /\ Opened(t) /\ got'[t] = got[t] /\ queue'[t] = queue[t] /\ since'[t] = since[t]
               /\ published' = published /\ Live(t)' = Live(t) /\ (Pending(t)' <=> Pending(t))
    BY <2>1 DEF Opened, Live, Pending
  <2> QED BY <2>1, SameNumbers DEF Numbered
<1>5. QuotaKept'
  <2>1. CASE s \in streams
    <3>1. /\ streams' = streams \ {s} /\ reserved' = Cardinality(Quota(streams)) - MaxBytes[s]
      BY <2>1 DEF QuotaKept
    <3>2. /\ IsFiniteSet(Quota(streams')) /\ MaxBytes[s] <= Cardinality(Quota(streams))
          /\ Cardinality(Quota(streams')) = Cardinality(Quota(streams)) - MaxBytes[s]
      BY <2>1, <3>1, QuotaRemoved DEF QuotaKept
    <3>3. MaxBytes[s] \in Nat /\ Cardinality(Quota(streams)) \in Nat
      BY FS_CardinalityType DEF QuotaKept
    <3>4. Cardinality(streams') <= Cardinality(streams) /\ Cardinality(streams) \in Nat
          /\ Cardinality(streams') \in Nat
      BY <3>1, FS_Subset, FS_CardinalityType
    <3> QED BY <3>1, <3>2, <3>3, <3>4 DEF QuotaKept
  <2>2. CASE s \notin streams
    BY <2>2 DEF QuotaKept
  <2> QED BY <2>1, <2>2
<1>6. QueuesKept'
  BY DEF QueuesKept
<1> QED BY <1>1, <1>2, <1>3, <1>4, <1>5, <1>6

LEMMA CloseDoneKeeps ==
    ASSUME StreamInv, NEW s \in Streams, NEW f \in Finishers, CloseDone(s, f)
    PROVE  StreamInv'
<1> USE StreamAssumption
    DEF StreamInv, TypeOK, ConnTypeOK, StreamTypeOK, CloseDone,
        connVars, regVars, streamVars, finVars, pubVars, readVars, logVars
<1>1. TypeOK'
  OBVIOUS
<1>2. FinishOnce'
  BY DEF FinishOnce, InFinish, Live
<1>3. Registered'
  BY DEF Registered, Opened, Live, Closed
<1>4. Numbered'
  <2>1. ASSUME NEW t \in Streams, Opened(t)'
        PROVE  /\ Opened(t) /\ got'[t] = got[t] /\ queue'[t] = queue[t] /\ since'[t] = since[t]
               /\ published' = published /\ Live(t)' = Live(t) /\ (Pending(t)' <=> Pending(t))
    BY <2>1 DEF Opened, Live, Pending
  <2> QED BY <2>1, SameNumbers DEF Numbered
<1>5. QuotaKept'
  BY DEF QuotaKept
<1>6. QueuesKept'
  BY DEF QueuesKept
<1> QED BY <1>1, <1>2, <1>3, <1>4, <1>5, <1>6

LEMMA OpenKeeps == ASSUME StreamInv, NEW s \in Streams, Open(s) PROVE StreamInv'
<1> USE StreamAssumption
    DEF StreamInv, TypeOK, ConnTypeOK, StreamTypeOK, connVars, regVars, finVars, pubVars, readVars
<1>0. /\ ~Opened(s) /\ s \notin streams /\ Live(s) /\ queue[s] = <<>> /\ got[s] = <<>>
      /\ UNCHANGED <<connVars, finVars, done, pubVars, got>>
  BY DEF Open, Opened, Registered
<1>1. CASE Admits(s)
  <2>1. /\ streams' = streams \cup {s} /\ reserved' = reserved + MaxBytes[s]
        /\ watcher' = [watcher EXCEPT ![s] = "run"]
        /\ since' = [since EXCEPT ![s] = published + 1]
    BY <1>1 DEF Open
  <2>2. MaxBytes[s] \in Nat /\ reserved + MaxBytes[s] \in Nat /\ published + 1 \in Nat
    OBVIOUS
  <2>3. TypeOK'
    BY <1>0, <2>1, <2>2
  <2>4. FinishOnce'
    BY <1>0, <2>1 DEF FinishOnce, InFinish, Live
  <2>5. Registered'
    BY <1>0, <1>1, <2>1 DEF Registered, Opened, Live, Closed, Admits
  <2>6. Numbered'
    <3>1. s \notin todo /\ s \notin target
      BY <1>0 DEF Registered
    <3>2. /\ got'[s] = <<>> /\ queue'[s] = <<>> /\ ~Pending(s)' /\ since'[s] = published + 1
          /\ published' = published
      BY <1>0, <2>1, <3>1 DEF Pending
    <3>3. NumberedAt(s)'
      <4>1. Len(<<>>) = 0 /\ 1..0 = {} /\ (published + 1) + 0 + 0 = published + 1
        OBVIOUS
      <4> HIDE StreamAssumption DEF StreamInv, TypeOK, ConnTypeOK, StreamTypeOK
      <4> QED BY <3>2, <4>1 DEF NumberedAt
    <3>4. ASSUME NEW t \in Streams \ {s}, Opened(t)'
          PROVE  /\ Opened(t) /\ got'[t] = got[t] /\ queue'[t] = queue[t] /\ since'[t] = since[t]
                 /\ published' = published /\ Live(t)' = Live(t) /\ (Pending(t)' <=> Pending(t))
      BY <1>0, <2>1, <3>4 DEF Opened, Live, Pending
    <3>5. \A t \in Streams \ {s} : Opened(t)' => NumberedAt(t)'
      BY <3>4, SameNumbers DEF Numbered
    <3> QED BY <3>3, <3>5 DEF Numbered
  <2>7. QuotaKept'
    <3>1. /\ IsFiniteSet(Quota(streams'))
          /\ Cardinality(Quota(streams')) = Cardinality(Quota(streams)) + MaxBytes[s]
      BY <1>0, <2>1, QuotaAdded DEF QuotaKept
    <3>2. IsFiniteSet(streams) /\ Cardinality(streams) \in Nat
      BY FS_Subset, FS_CardinalityType
    <3>3. Cardinality(streams') = Cardinality(streams) + 1
      BY <1>0, <2>1, <3>2, FS_AddElement
    <3>4. Cardinality(streams) < MaxStreams /\ MaxBytes[s] <= EventBytes - reserved
      BY <1>1 DEF Admits
    <3> QED BY <2>1, <2>2, <3>1, <3>2, <3>3, <3>4 DEF QuotaKept
  <2>8. QueuesKept'
    BY <1>0 DEF QueuesKept
  <2> QED BY <2>3, <2>4, <2>5, <2>6, <2>7, <2>8
<1>2. CASE ~Admits(s)
  <2>1. UNCHANGED <<regVars, since>> /\ watcher' = [watcher EXCEPT ![s] = "refused"]
    BY <1>2 DEF Open
  <2>2. TypeOK'
    BY <1>0, <2>1
  <2>3. FinishOnce'
    BY <1>0, <2>1 DEF FinishOnce, InFinish, Live
  <2>4. \A t \in Streams : Opened(t)' <=> Opened(t)
    BY <1>0, <2>1 DEF Opened
  <2>5. Registered'
    BY <1>0, <2>1, <2>4 DEF Registered, Live, Closed
  <2>6. Numbered'
    <3>1. ASSUME NEW t \in Streams
          PROVE  /\ got'[t] = got[t] /\ queue'[t] = queue[t] /\ since'[t] = since[t]
                 /\ published' = published /\ Live(t)' = Live(t) /\ (Pending(t)' <=> Pending(t))
      BY <1>0, <2>1 DEF Live, Pending
    <3> QED BY <2>4, <3>1, SameNumbers DEF Numbered
  <2>7. QuotaKept' /\ QueuesKept'
    BY <1>0, <2>1 DEF QuotaKept, QueuesKept
  <2> QED BY <2>2, <2>3, <2>5, <2>6, <2>7
<1> QED BY <1>1, <1>2

LEMMA WatchEndKeeps == ASSUME StreamInv, NEW s \in Streams, WatchEnd(s) PROVE StreamInv'
<1> USE StreamAssumption
    DEF StreamInv, TypeOK, ConnTypeOK, StreamTypeOK, WatchEnd,
        connVars, regVars, streamVars, finVars, pubVars, readVars, logVars
<1>1. TypeOK'
  OBVIOUS
<1>2. FinishOnce'
  BY DEF FinishOnce, InFinish, Live
<1>3. Registered'
  BY DEF Registered, Opened, Live, Closed
<1>4. Numbered'
  <2>1. ASSUME NEW t \in Streams, Opened(t)'
        PROVE  /\ Opened(t) /\ got'[t] = got[t] /\ queue'[t] = queue[t] /\ since'[t] = since[t]
               /\ published' = published /\ Live(t)' = Live(t) /\ (Pending(t)' <=> Pending(t))
    BY <2>1 DEF Opened, Live, Pending
  <2> QED BY <2>1, SameNumbers DEF Numbered
<1>5. QuotaKept'
  BY DEF QuotaKept
<1>6. QueuesKept'
  BY DEF QueuesKept
<1> QED BY <1>1, <1>2, <1>3, <1>4, <1>5, <1>6

LEMMA StopFlagKeeps == ASSUME StreamInv, StopFlag PROVE StreamInv'
<1> USE StreamAssumption
    DEF StreamInv, TypeOK, ConnTypeOK, StreamTypeOK, StopFlag,
        connVars, regVars, streamVars, finVars, pubVars, readVars, logVars
<1>1. TypeOK'
  OBVIOUS
<1>2. FinishOnce'
  BY DEF FinishOnce, InFinish, Live
<1>3. Registered'
  BY DEF Registered, Opened, Live, Closed
<1>4. Numbered'
  <2>1. ASSUME NEW t \in Streams, Opened(t)'
        PROVE  /\ Opened(t) /\ got'[t] = got[t] /\ queue'[t] = queue[t] /\ since'[t] = since[t]
               /\ published' = published /\ Live(t)' = Live(t) /\ (Pending(t)' <=> Pending(t))
    BY <2>1 DEF Opened, Live, Pending
  <2> QED BY <2>1, SameNumbers DEF Numbered
<1>5. QuotaKept'
  BY DEF QuotaKept
<1>6. QueuesKept'
  BY DEF QueuesKept
<1> QED BY <1>1, <1>2, <1>3, <1>4, <1>5, <1>6

LEMMA StopSignalKeeps == ASSUME StreamInv, StopSignal PROVE StreamInv'
<1> USE StreamAssumption
    DEF StreamInv, TypeOK, ConnTypeOK, StreamTypeOK, StopSignal,
        connVars, regVars, streamVars, finVars, pubVars, readVars, logVars
<1>1. TypeOK'
  OBVIOUS
<1>2. FinishOnce'
  BY DEF FinishOnce, InFinish, Live
<1>3. Registered'
  BY DEF Registered, Opened, Live, Closed
<1>4. Numbered'
  <2>1. ASSUME NEW t \in Streams, Opened(t)'
        PROVE  /\ Opened(t) /\ got'[t] = got[t] /\ queue'[t] = queue[t] /\ since'[t] = since[t]
               /\ published' = published /\ Live(t)' = Live(t) /\ (Pending(t)' <=> Pending(t))
    BY <2>1 DEF Opened, Live, Pending
  <2> QED BY <2>1, SameNumbers DEF Numbered
<1>5. QuotaKept'
  BY DEF QuotaKept
<1>6. QueuesKept'
  BY DEF QueuesKept
<1> QED BY <1>1, <1>2, <1>3, <1>4, <1>5, <1>6

LEMMA StopEndKeeps == ASSUME StreamInv, StopEnd PROVE StreamInv'
<1> USE StreamAssumption
    DEF StreamInv, TypeOK, ConnTypeOK, StreamTypeOK, StopEnd,
        connVars, regVars, streamVars, finVars, pubVars, readVars, logVars
<1>1. TypeOK'
  OBVIOUS
<1>2. FinishOnce'
  BY DEF FinishOnce, InFinish, Live
<1>3. Registered'
  BY DEF Registered, Opened, Live, Closed
<1>4. Numbered'
  <2>1. ASSUME NEW t \in Streams, Opened(t)'
        PROVE  /\ Opened(t) /\ got'[t] = got[t] /\ queue'[t] = queue[t] /\ since'[t] = since[t]
               /\ published' = published /\ Live(t)' = Live(t) /\ (Pending(t)' <=> Pending(t))
    BY <2>1 DEF Opened, Live, Pending
  <2> QED BY <2>1, SameNumbers DEF Numbered
<1>5. QuotaKept'
  BY DEF QuotaKept
<1>6. QueuesKept'
  BY DEF QueuesKept
<1> QED BY <1>1, <1>2, <1>3, <1>4, <1>5, <1>6

LEMMA PublishKeeps == ASSUME StreamInv, Publish PROVE StreamInv'
<1> USE StreamAssumption
    DEF StreamInv, TypeOK, ConnTypeOK, StreamTypeOK, Publish,
        connVars, regVars, streamVars, finVars, pubVars, readVars, logVars
<1>1. TypeOK'
  OBVIOUS
<1>2. FinishOnce'
  BY DEF FinishOnce, InFinish, Live
<1>3. Registered'
  BY DEF Registered, Opened, Live, Closed
<1>4. Numbered'
  <2>1. ASSUME NEW t \in Streams, Opened(t)'
        PROVE  /\ Opened(t) /\ got'[t] = got[t] /\ queue'[t] = queue[t] /\ since'[t] = since[t]
               /\ published' = published + 1 /\ Live(t)' = Live(t)
               /\ Live(t) => ~Pending(t) /\ Pending(t)'
    BY <2>1 DEF Registered, Opened, Live, Pending
  <2>2. \A t \in Streams : Opened(t) => NumberedAt(t)
    BY DEF Numbered
  <2> HIDE StreamAssumption DEF StreamInv, TypeOK, ConnTypeOK, StreamTypeOK
  <2>3. \A t \in Streams : Opened(t)' => NumberedAt(t)'
    BY <2>1, <2>2 DEF NumberedAt
  <2> QED BY <2>3 DEF Numbered
<1>5. QuotaKept'
  BY DEF QuotaKept
<1>6. QueuesKept'
  BY DEF QueuesKept
<1> QED BY <1>1, <1>2, <1>3, <1>4, <1>5, <1>6

LEMMA PushKeeps == ASSUME StreamInv, NEW s \in Streams, Push(s) PROVE StreamInv'
<1> USE StreamAssumption
    DEF StreamInv, TypeOK, ConnTypeOK, StreamTypeOK, connVars, regVars, readVars, logVars
<1>0. /\ ppc = "push" /\ s \in todo /\ todo' = todo \ {s} /\ target = {} /\ Opened(s)
      /\ UNCHANGED <<published, size, terminal, fin, done, watcher, connVars, regVars, logVars>>
  BY DEF Push, Registered
<1>1. CASE ~Live(s)
  <2>1. UNCHANGED <<queue, bytes, target, ppc>>
    BY <1>1 DEF Push
  <2>2. TypeOK'
    BY <1>0, <2>1
  <2>3. FinishOnce' /\ Registered'
    BY <1>0, <2>1 DEF FinishOnce, InFinish, Registered, Opened, Live, Closed
  <2>4. \A t \in Streams : Live(t) => (Pending(t)' <=> Pending(t))
    BY <1>0, <1>1, <2>1 DEF Pending
  <2>5. Numbered'
    <3>1. ASSUME NEW t \in Streams, Opened(t)'
          PROVE  /\ Opened(t) /\ got'[t] = got[t] /\ queue'[t] = queue[t] /\ since'[t] = since[t]
                 /\ published' = published /\ Live(t)' = Live(t)
                 /\ Live(t)' => (Pending(t)' <=> Pending(t))
      BY <1>0, <2>1, <2>4, <3>1 DEF Opened, Live
    <3> QED BY <3>1, SameNumbers DEF Numbered
  <2>6. QuotaKept' /\ QueuesKept'
    BY <1>0, <2>1 DEF QuotaKept, QueuesKept
  <2> QED BY <2>2, <2>3, <2>5, <2>6
<1>2. CASE Live(s) /\ Overflows(s)
  <2>1. target' = {s} /\ ppc' = "overflow" /\ UNCHANGED <<queue, bytes>>
    BY <1>2 DEF Push
  <2>2. TypeOK'
    BY <1>0, <2>1
  <2>3. FinishOnce' /\ Registered'
    BY <1>0, <2>1 DEF FinishOnce, InFinish, Registered, Opened, Live, Closed
  <2>4. \A t \in Streams : Pending(t)' <=> Pending(t)
    BY <1>0, <2>1 DEF Pending
  <2>5. Numbered'
    <3>1. ASSUME NEW t \in Streams, Opened(t)'
          PROVE  /\ Opened(t) /\ got'[t] = got[t] /\ queue'[t] = queue[t] /\ since'[t] = since[t]
                 /\ published' = published /\ Live(t)' = Live(t)
                 /\ Live(t)' => (Pending(t)' <=> Pending(t))
      BY <1>0, <2>1, <2>4, <3>1 DEF Opened, Live
    <3> QED BY <3>1, SameNumbers DEF Numbered
  <2>6. QuotaKept' /\ QueuesKept'
    BY <1>0, <2>1 DEF QuotaKept, QueuesKept
  <2> QED BY <2>2, <2>3, <2>5, <2>6
<1>3. CASE Live(s) /\ ~Overflows(s)
  <2> DEFINE e == [id |-> published, size |-> size]
             q == queue[s]
  <2>0. /\ e \in EventRec /\ e.id = published /\ e.size = size /\ q \in Seq(EventRec)
        /\ Len(q) \in Nat
    BY DEF EventRec
  <2>1. /\ queue' = [queue EXCEPT ![s] = Append(q, e)]
        /\ bytes' = [bytes EXCEPT ![s] = bytes[s] + size] /\ target' = {s} /\ ppc' = "wake"
    BY <1>3 DEF Push
  <2> HIDE DEF e
  <2>2. /\ Append(q, e) \in Seq(EventRec) /\ Len(Append(q, e)) = Len(q) + 1
        /\ \A i \in 1..Len(q) : Append(q, e)[i] = q[i]
        /\ Append(q, e)[Len(q) + 1] = e
    BY <2>0
  <2>3. /\ queue'[s] = Append(q, e) /\ bytes'[s] = bytes[s] + size /\ bytes[s] + size \in Nat
        /\ \A t \in Streams \ {s} : queue'[t] = queue[t] /\ bytes'[t] = bytes[t]
    BY <2>1
  <2> HIDE DEF q
  <2>4. TypeOK'
    BY <1>0, <2>1, <2>2, <2>3
  <2>5. FinishOnce'
    BY <1>0, <2>1 DEF FinishOnce, InFinish, Live
  <2>6. Registered'
    BY <1>0, <2>1, <2>3 DEF Registered, Opened, Live, Closed
  <2>7. Numbered'
    <3>1. ASSUME NEW t \in Streams \ {s}, Opened(t)'
          PROVE  /\ Opened(t) /\ got'[t] = got[t] /\ queue'[t] = queue[t] /\ since'[t] = since[t]
                 /\ published' = published /\ Live(t)' = Live(t) /\ (Pending(t)' <=> Pending(t))
      BY <1>0, <2>1, <2>3, <3>1 DEF Opened, Live, Pending
    <3>2. Pending(s) /\ ~Pending(s)'
      BY <1>0, <2>1 DEF Pending
    <3>3. /\ got'[s] = got[s] /\ since'[s] = since[s] /\ published' = published
          /\ queue[s] \in Seq(EventRec) /\ queue'[s] = Append(queue[s], e)
          /\ got[s] \in Seq(Nat) /\ since[s] \in Nat /\ published \in Nat
      BY <1>0, <2>3 DEF q
    <3>4. NumberedAt(s)'
      BY <1>0, <1>3, <2>0, <3>2, <3>3, NumberAppended DEF Numbered
    <3>5. \A t \in Streams \ {s} : Opened(t)' => NumberedAt(t)'
      BY <3>1, SameNumbers DEF Numbered
    <3> QED BY <3>4, <3>5 DEF Numbered
  <2>8. QuotaKept'
    BY <1>0 DEF QuotaKept
  <2>9. QueuesKept'
    <3>1. /\ IsFiniteSet(Held(Append(q, e)))
          /\ Cardinality(Held(Append(q, e))) = bytes[s] + size
      BY <2>0, HeldAppended DEF QueuesKept, q
    <3>2. bytes[s] + size <= MaxBytes[s] /\ Len(Append(q, e)) <= MaxCount
      BY <1>3, <2>0, <2>2 DEF Overflows, q
    <3> QED BY <2>3, <3>1, <3>2 DEF QueuesKept
  <2> QED BY <2>4, <2>5, <2>6, <2>7, <2>8, <2>9
<1> QED BY <1>1, <1>2, <1>3

LEMMA PushWakeKeeps == ASSUME StreamInv, PushWake PROVE StreamInv'
<1> USE StreamAssumption
    DEF StreamInv, TypeOK, ConnTypeOK, StreamTypeOK, PushWake,
        connVars, regVars, streamVars, finVars, pubVars, readVars, logVars
<1>1. TypeOK'
  OBVIOUS
<1>2. FinishOnce'
  BY DEF FinishOnce, InFinish, Live
<1>3. Registered'
  BY DEF Registered, Opened, Live, Closed
<1>4. Numbered'
  <2>1. ASSUME NEW t \in Streams, Opened(t)'
        PROVE  /\ Opened(t) /\ got'[t] = got[t] /\ queue'[t] = queue[t] /\ since'[t] = since[t]
               /\ published' = published /\ Live(t)' = Live(t) /\ (Pending(t)' <=> Pending(t))
    BY <2>1 DEF Opened, Live, Pending
  <2> QED BY <2>1, SameNumbers DEF Numbered
<1>5. QuotaKept'
  BY DEF QuotaKept
<1>6. QueuesKept'
  BY DEF QueuesKept
<1> QED BY <1>1, <1>2, <1>3, <1>4, <1>5, <1>6

LEMMA PushFinishedKeeps == ASSUME StreamInv, NEW s \in Streams, PushFinished(s) PROVE StreamInv'
<1> USE StreamAssumption
    DEF StreamInv, TypeOK, ConnTypeOK, StreamTypeOK, PushFinished,
        connVars, regVars, streamVars, finVars, pubVars, readVars, logVars
<1>1. TypeOK'
  OBVIOUS
<1>2. FinishOnce'
  BY DEF FinishOnce, InFinish, Live, Registered
<1>3. Registered'
  BY DEF Registered, Opened, Live, Closed
<1>4. Numbered'
  <2>1. ASSUME NEW t \in Streams, Opened(t)'
        PROVE  /\ Opened(t) /\ got'[t] = got[t] /\ queue'[t] = queue[t] /\ since'[t] = since[t]
               /\ published' = published /\ Live(t)' = Live(t) /\ (Pending(t)' <=> Pending(t))
    BY <2>1 DEF Opened, Live, Pending
  <2> QED BY <2>1, SameNumbers DEF Numbered
<1>5. QuotaKept'
  BY DEF QuotaKept
<1>6. QueuesKept'
  BY DEF QueuesKept
<1> QED BY <1>1, <1>2, <1>3, <1>4, <1>5, <1>6

LEMMA PublishEndKeeps == ASSUME StreamInv, PublishEnd PROVE StreamInv'
<1> USE StreamAssumption
    DEF StreamInv, TypeOK, ConnTypeOK, StreamTypeOK, PublishEnd,
        connVars, regVars, streamVars, finVars, pubVars, readVars, logVars
<1>1. TypeOK'
  OBVIOUS
<1>2. FinishOnce'
  BY DEF FinishOnce, InFinish, Live
<1>3. Registered'
  BY DEF Registered, Opened, Live, Closed
<1>4. Numbered'
  <2>1. ASSUME NEW t \in Streams, Opened(t)'
        PROVE  /\ Opened(t) /\ got'[t] = got[t] /\ queue'[t] = queue[t] /\ since'[t] = since[t]
               /\ published' = published /\ Live(t)' = Live(t) /\ (Pending(t)' <=> Pending(t))
    BY <2>1 DEF Opened, Live, Pending
  <2> QED BY <2>1, SameNumbers DEF Numbered
<1>5. QuotaKept'
  BY DEF QuotaKept
<1>6. QueuesKept'
  BY DEF QueuesKept
<1> QED BY <1>1, <1>2, <1>3, <1>4, <1>5, <1>6

\* A step that moves only readers and wake-ups.
StateVars == <<connVars, regVars, finVars, done, watcher, pubVars, logVars>>
LEMMA SameKeeps == ASSUME StreamInv, UNCHANGED StateVars PROVE StreamInv'
<1> USE DEF StreamInv, StateVars, connVars, regVars, finVars, pubVars, logVars
<1>1. TypeOK'
  BY DEF TypeOK, ConnTypeOK, StreamTypeOK
<1>2. FinishOnce'
  BY DEF FinishOnce, InFinish, Live
<1>3. Registered'
  BY DEF Registered, Opened, Live, Closed
<1>4. Numbered'
  <2>1. ASSUME NEW t \in Streams, Opened(t)'
        PROVE  /\ Opened(t) /\ got'[t] = got[t] /\ queue'[t] = queue[t] /\ since'[t] = since[t]
               /\ published' = published /\ Live(t)' = Live(t) /\ (Pending(t)' <=> Pending(t))
    BY <2>1 DEF Opened, Live, Pending
  <2> QED BY <2>1, SameNumbers DEF Numbered
<1>5. QuotaKept' /\ QueuesKept'
  BY DEF QuotaKept, QueuesKept
<1> QED BY <1>1, <1>2, <1>3, <1>4, <1>5

LEMMA NextLookKeeps == ASSUME StreamInv, NEW r \in Readers, NextLook(r) PROVE StreamInv'
<1> DEFINE s == StreamOf[r]
           q == queue[s]
<1>0. s \in Streams
  BY StreamAssumption
<1>1. CASE UNCHANGED <<queue, bytes, got>>
  BY <1>1, SameKeeps DEF NextLook, StateVars, finVars, logVars
<1>2. CASE /\ Live(s) /\ q # <<>>
           /\ got' = [got EXCEPT ![s] = Append(@, Head(q).id)]
           /\ queue' = [queue EXCEPT ![s] = Tail(@)]
           /\ bytes' = [bytes EXCEPT ![s] = @ - Head(q).size]
  <2> USE DEF StreamInv, TypeOK, ConnTypeOK, StreamTypeOK
  <2>1. UNCHANGED <<terminal, fin, done, watcher, since, connVars, regVars, pubVars>>
    BY DEF NextLook
  <2>2. q \in Seq(EventRec) /\ Len(q) \in Nat \ {0} /\ q[1] \in EventRec /\ Head(q) = q[1]
    BY <1>0, <1>2
  <2>3. /\ Tail(q) \in Seq(EventRec) /\ Len(Tail(q)) = Len(q) - 1
        /\ \A i \in 1..(Len(q) - 1) : Tail(q)[i] = q[i + 1]
    BY <2>2
  <2>4. Head(q).size <= bytes[s] /\ Cardinality(Held(Tail(q))) = bytes[s] - Head(q).size
        /\ IsFiniteSet(Held(Tail(q)))
    BY <1>0, <1>2, <2>2, HeldTaken DEF QueuesKept
  <2>5. Head(q).id \in Nat /\ Head(q).size \in Nat
    BY <2>2 DEF EventRec
  <2> HIDE DEF s, q
  <2>6. TypeOK'
    BY <1>0, <1>2, <2>1, <2>3, <2>4, <2>5 DEF connVars, regVars, pubVars, q
  <2>7. FinishOnce'
    BY <2>1 DEF FinishOnce, InFinish, Live, connVars, regVars, pubVars
  <2>8. Registered'
    BY <1>0, <1>2, <2>1 DEF Registered, Opened, Live, Closed, connVars, regVars, pubVars, q
  <2>9. Numbered'
    <3>1. ASSUME NEW t \in Streams \ {s}, Opened(t)'
          PROVE  /\ Opened(t) /\ got'[t] = got[t] /\ queue'[t] = queue[t] /\ since'[t] = since[t]
                 /\ published' = published /\ Live(t)' = Live(t) /\ (Pending(t)' <=> Pending(t))
      BY <1>0, <1>2, <2>1, <3>1 DEF Opened, Live, Pending, connVars, regVars, pubVars
    <3>2. Opened(s)
      BY <1>0, <1>2 DEF Registered, q
    <3>3. /\ queue'[s] = Tail(queue[s]) /\ got'[s] = Append(got[s], Head(queue[s]).id)
          /\ since'[s] = since[s] /\ published' = published /\ Live(s)' = Live(s)
          /\ (Pending(s)' <=> Pending(s))
      BY <1>0, <1>2, <2>1 DEF q, Live, Pending, pubVars
    <3>4. queue[s] \in Seq(EventRec) /\ queue[s] # <<>> /\ got[s] \in Seq(Nat) /\ since[s] \in Nat
      BY <1>0, <1>2, <2>2 DEF q
    <3>5. NumberedAt(s)'
      BY <1>0, <3>2, <3>3, <3>4, NumberTaken DEF Numbered
    <3>6. \A t \in Streams \ {s} : Opened(t)' => NumberedAt(t)'
      BY <3>1, SameNumbers DEF Numbered
    <3> QED BY <1>0, <3>5, <3>6 DEF Numbered
  <2>10. QuotaKept'
    BY <2>1 DEF QuotaKept, regVars
  <2>11. QueuesKept'
    <3>1. /\ queue'[s] = Tail(q) /\ bytes'[s] = bytes[s] - Head(q).size
          /\ \A t \in Streams \ {s} : queue'[t] = queue[t] /\ bytes'[t] = bytes[t]
      BY <1>0, <1>2 DEF q
    <3>2. /\ bytes[s] \in Nat /\ bytes[s] <= MaxBytes[s] /\ MaxBytes[s] \in Nat
          /\ Len(q) <= MaxCount /\ MaxCount \in Nat
      BY <1>0, StreamAssumption DEF QueuesKept, q
    <3>3. bytes[s] - Head(q).size <= MaxBytes[s] /\ Len(Tail(q)) <= MaxCount
      BY <2>2, <2>3, <2>5, <3>2
    <3> QED BY <2>4, <3>1, <3>3 DEF QueuesKept
  <2> QED BY <2>6, <2>7, <2>8, <2>9, <2>10, <2>11
<1> QED BY <1>1, <1>2 DEF NextLook

-----------------------------------------------------------------------------
LEMMA StreamInitially == Init => StreamInv
<1> SUFFICES ASSUME Init PROVE StreamInv
  OBVIOUS
<1> USE StreamAssumption DEF Init
<1>1. TypeOK
  BY DEF TypeOK, ConnTypeOK, StreamTypeOK
<1>2. FinishOnce
  BY DEF FinishOnce, InFinish, Live
<1>3. Registered
  BY DEF Registered, Opened, Live, Closed
<1>4. Numbered
  BY DEF Numbered, Opened
<1>5. QuotaKept
  <2>1. Quota({}) = {}
    BY DEF Quota
  <2>2. IsFiniteSet({}) /\ Cardinality({}) = 0
    BY FS_EmptySet
  <2>3. 0 <= EventBytes /\ 0 <= MaxStreams
    OBVIOUS
  <2>4. streams = {} /\ reserved = 0
    OBVIOUS
  <2> QED BY <2>1, <2>2, <2>3, <2>4 DEF QuotaKept
<1>6. QueuesKept
  <2>1. Len(<<>>) = 0 /\ 0 <= MaxCount
    OBVIOUS
  <2>2. \A s \in Streams : 0 <= MaxBytes[s]
    OBVIOUS
  <2> QED BY <2>1, <2>2, HeldEmpty DEF QueuesKept
<1> QED BY <1>1, <1>2, <1>3, <1>4, <1>5, <1>6 DEF StreamInv

LEMMA StreamStep == StreamInv /\ [Next]_vars => StreamInv'
<1> SUFFICES ASSUME StreamInv, [Next]_vars PROVE StreamInv'
  OBVIOUS
<1>1. CASE FinishStep
  BY <1>1, ReleaseKeeps, CloseDoneKeeps DEF FinishStep
<1>2. CASE WatchStep
  BY <1>2, WatchStopKeeps, WatchEndKeeps DEF WatchStep
<1>3. CASE StopStep
  BY <1>3, StopSignalKeeps, StopEndKeeps, StopVisitKeeps DEF StopStep
<1>4. CASE PushStep
  BY <1>4, PushWakeKeeps, PublishEndKeeps, PushKeeps, PushOverflowKeeps, PushFinishedKeeps
  DEF PushStep
<1>5. CASE UserStep
  <2>1. ASSUME NEW r \in Readers, NextCall(r) \/ NextExpire(r) PROVE StreamInv'
    <3>1. UNCHANGED StateVars
      BY <2>1 DEF NextCall, NextExpire, StateVars, streamVars
    <3> QED BY <3>1, SameKeeps
  <2> QED BY <1>5, <2>1, StopFlagKeeps, PublishKeeps, OpenKeeps, WatchCtxKeeps, CloseStreamKeeps
      DEF UserStep
<1>6. ASSUME NEW r \in Readers, ReadStep(r) PROVE StreamInv'
  <2>1. CASE NextLook(r)
    BY <2>1, NextLookKeeps
  <2>2. CASE NextWait(r)
    BY <2>2, SameKeeps DEF NextWait, StateVars
  <2> QED BY <1>6, <2>1, <2>2 DEF ReadStep
<1>7. CASE UNCHANGED vars
  BY <1>7, SameKeeps DEF vars, StateVars, streamVars
<1> QED BY <1>1, <1>2, <1>3, <1>4, <1>5, <1>6, <1>7 DEF Next

LEMMA StreamAlways == Spec => []StreamInv
BY StreamInitially, StreamStep, PTL DEF Spec

(* What a stream has returned and still holds is the run of events          *)
(* published since it was opened, without a gap; a stream that lives has    *)
(* missed nothing but the event being published.                            *)
THEOREM NothingLostInSilence == Spec => []NoSilentLoss
<1>1. StreamInv => NoSilentLoss
  <2> SUFFICES ASSUME StreamInv, NEW s \in Streams, Opened(s)
               PROVE  LET run     == got[s] \o [i \in DOMAIN queue[s] |-> queue[s][i].id]
                          pending == s \in todo \/ (s \in target /\ ppc = "overflow")
                      IN  /\ run = [i \in 1..Len(run) |-> since[s] + i - 1]
                          /\ Live(s) => Len(run) = published + 1 - since[s]
                                                     - (IF pending THEN 1 ELSE 0)
    BY DEF NoSilentLoss
  <2> DEFINE held == [i \in DOMAIN queue[s] |-> queue[s][i].id]
             run  == got[s] \o held
  <2>1. /\ got[s] \in Seq(Nat) /\ queue[s] \in Seq(EventRec) /\ since[s] \in Nat
        /\ Len(got[s]) \in Nat /\ Len(queue[s]) \in Nat /\ DOMAIN queue[s] = 1..Len(queue[s])
    BY DEF StreamInv, TypeOK, StreamTypeOK
  <2>2. held \in Seq(Nat) /\ Len(held) = Len(queue[s])
    <3>1. \A i \in 1..Len(queue[s]) : queue[s][i].id \in Nat
      <4>1. \A i \in 1..Len(queue[s]) : queue[s][i] \in EventRec
        BY <2>1
      <4> QED BY <4>1 DEF EventRec
    <3>2. held \in [1..Len(queue[s]) -> Nat]
      BY <2>1, <3>1
    <3> QED BY <2>1, <3>2
  <2>3. \A i \in 1..Len(held) : held[i] = since[s] + Len(got[s]) + i - 1
    BY <2>1, <2>2 DEF StreamInv, Numbered, NumberedAt
  <2>4. \A i \in 1..Len(got[s]) : got[s][i] = since[s] + i - 1
    BY DEF StreamInv, Numbered, NumberedAt
  <2>9. /\ published \in Nat
        /\ Live(s) /\ Pending(s)  => since[s] + Len(got[s]) + Len(queue[s]) = published
        /\ Live(s) /\ ~Pending(s) => since[s] + Len(got[s]) + Len(queue[s]) = published + 1
    BY DEF StreamInv, Numbered, NumberedAt, TypeOK, ConnTypeOK
  <2> HIDE DEF held
  <2>5. /\ run \in Seq(Nat) /\ Len(run) = Len(got[s]) + Len(held)
        /\ DOMAIN run = 1..Len(run)
        /\ \A i \in 1..Len(run) : run[i] = IF i <= Len(got[s]) THEN got[s][i]
                                                               ELSE held[i - Len(got[s])]
    <3>1. run \in Seq(Nat) /\ Len(run) = Len(got[s]) + Len(held)
      BY <2>1, <2>2, ConcatProperties
    <3>2. DOMAIN run = 1..Len(run)
      BY <3>1
    <3>3. \A i \in 1..(Len(got[s]) + Len(held)) :
             run[i] = IF i <= Len(got[s]) THEN got[s][i] ELSE held[i - Len(got[s])]
      BY <2>1, <2>2, ConcatProperties
    <3> QED BY <3>1, <3>2, <3>3
  <2> HIDE DEF run
  <2>6. ASSUME NEW i \in 1..Len(run) PROVE run[i] = since[s] + i - 1
    <3>1. CASE i <= Len(got[s])
      BY <2>1, <2>4, <2>5, <3>1
    <3>2. CASE ~(i <= Len(got[s]))
      <4>1. i - Len(got[s]) \in 1..Len(held)
        <5>1. i \in 1..(Len(got[s]) + Len(held))
          BY <2>5, Zenon
        <5>2. Len(held) \in Nat
          BY <2>1, <2>2, Zenon
        <5> QED BY <2>1, <3>2, <5>1, <5>2
      <4>2. held[i - Len(got[s])] = since[s] + Len(got[s]) + (i - Len(got[s])) - 1
        BY <2>3, <4>1
      <4> QED BY <2>1, <2>5, <3>2, <4>2
    <3> QED BY <3>1, <3>2
  <2>7. run = [i \in 1..Len(run) |-> since[s] + i - 1]
    BY <2>5, <2>6
  <2>8. Live(s) => Len(run) = published + 1 - since[s] - (IF Pending(s) THEN 1 ELSE 0)
    <3>1. /\ Live(s) /\ Pending(s) => Len(got[s]) + Len(queue[s]) = published + 1 - since[s] - 1
          /\ Live(s) /\ ~Pending(s) => Len(got[s]) + Len(queue[s]) = published + 1 - since[s] - 0
      <4> DEFINE a == since[s]
                 g == Len(got[s])
                 n == Len(queue[s])
      <4>1. a \in Nat /\ g \in Nat /\ n \in Nat /\ published \in Nat
        BY <2>1, <2>9, Zenon
      <4>2. /\ Live(s) /\ Pending(s)  => a + g + n = published
            /\ Live(s) /\ ~Pending(s) => a + g + n = published + 1
        BY <2>9, Zenon
      <4> HIDE DEF a, g, n
      <4>3. /\ a + g + n = published => g + n = published + 1 - a - 1
            /\ a + g + n = published + 1 => g + n = published + 1 - a - 0
        BY <4>1
      <4> QED BY <4>2, <4>3, Zenon DEF a, g, n
    <3> QED BY <2>2, <2>5, <3>1, Zenon
  <2> QED BY <2>7, <2>8 DEF Pending, held, run
<1> QED BY <1>1, StreamAlways, PTL

(* The reserved bytes are those of the registered streams, a stream is      *)
(* registered until its finisher has released it, done is closed after      *)
(* that, and every queue is within its limits.                              *)
THEOREM QuotasAreExact == Spec => []QuotaExact
<1>1. StreamInv => QuotaExact
  BY DEF StreamInv, QuotaKept, QueuesKept, Registered, FinishOnce, QuotaExact
<1> QED BY <1>1, StreamAlways, PTL

(* When stop has returned no stream is open.                                *)
THEOREM StopEndsAll == Spec => []StopLeavesNone
<1>1. StreamInv => StopLeavesNone
  BY DEF StreamInv, Registered, StopLeavesNone, Closed
<1> QED BY <1>1, StreamAlways, PTL

(* Of several goroutines that finish a stream at once one does: its end     *)
(* stands for good, and done is closed once.                                *)
THEOREM OneEndStands == Spec => FirstEndStands
<1> DEFINE Stands == \A s \in Streams : done'[s] <= 1 /\ (~Live(s) => terminal'[s] = terminal[s])
<1>1. ASSUME StreamInv, StreamInv', [Next]_vars PROVE Stands
  <2>1. \A s \in Streams : done'[s] <= 1
    BY <1>1 DEF StreamInv, FinishOnce
  <2>2. ASSUME NEW s \in Streams, ~Live(s) PROVE terminal'[s] = terminal[s]
    <3> USE DEF StreamInv, TypeOK, StreamTypeOK
    <3>1. ASSUME NEW t \in Streams, NEW f, NEW end, StartFinish(t, f, end)
          PROVE  terminal'[s] = terminal[s]
      BY <1>1, <2>2, <3>1 DEF StartFinish, Live
    <3>2. CASE UNCHANGED terminal
      BY <3>2
    <3> USE DEF streamVars, finVars
    <3>3. CASE FinishStep
      BY <3>3 DEF FinishStep, Release, CloseDone
    <3>4. CASE WatchStep
      BY <3>1, <3>4 DEF WatchStep, WatchStop, WatchEnd
    <3>5. CASE StopStep
      BY <3>1, <3>5 DEF StopStep, StopSignal, StopEnd, StopVisit
    <3>6. CASE PushStep
      BY <3>1, <3>6 DEF PushStep, PushWake, PublishEnd, Push, PushOverflow, PushFinished
    <3>7. CASE UserStep
      BY <3>1, <3>7
      DEF UserStep, StopFlag, Publish, Open, WatchCtx, CloseStream, NextCall, NextExpire
    <3>8. CASE \E r \in Readers : ReadStep(r)
      BY <3>8 DEF ReadStep, NextLook, NextWait
    <3> QED BY <1>1, <3>2, <3>3, <3>4, <3>5, <3>6, <3>7, <3>8 DEF Next, vars
  <2> QED BY <2>1, <2>2
<1>2. StreamInv /\ StreamInv' /\ [Next]_vars => [Stands]_vars
  BY <1>1
<1> QED BY <1>2, StreamAlways, PTL DEF Spec, FirstEndStands

-----------------------------------------------------------------------------
(* Refinement: the streams keep the promise of StreamPromise.  A stream has *)
(* a first event from its opening on.                                       *)
FirstKnown == \A s \in Streams : since[s] = 0 <=> ~Opened(s)

LEMMA FirstKnownStep == ASSUME StreamInv, FirstKnown, [Next]_vars PROVE FirstKnown'
<1>0. published \in Nat /\ since \in [Streams -> Nat]
      /\ watcher \in [Streams -> {"none", "run", "done", "refused"}]
  BY DEF StreamInv, TypeOK, ConnTypeOK, StreamTypeOK
<1> USE DEF streamVars, finVars, logVars
<1>1. ASSUME UNCHANGED <<since, watcher>> PROVE FirstKnown'
  BY <1>1 DEF FirstKnown, Opened
<1>2. CASE FinishStep
  BY <1>1, <1>2 DEF FinishStep, Release, CloseDone
<1>3. CASE WatchStep
  <2>1. ASSUME NEW s \in Streams, WatchEnd(s) PROVE FirstKnown'
    BY <1>0, <2>1 DEF WatchEnd, FirstKnown, Opened
  <2> QED BY <1>1, <1>3, <2>1 DEF WatchStep, WatchStop
<1>4. CASE StopStep
  BY <1>1, <1>4 DEF StopStep, StopSignal, StopEnd, StopVisit
<1>5. CASE PushStep
  BY <1>1, <1>5 DEF PushStep, PushWake, PublishEnd, Push, PushOverflow, PushFinished
<1>6. CASE UserStep
  <2>1. ASSUME NEW s \in Streams, Open(s) PROVE FirstKnown'
    <3>1. CASE Admits(s)
      BY <1>0, <2>1, <3>1 DEF Open, FirstKnown, Opened
    <3>2. CASE ~Admits(s)
      BY <1>0, <2>1, <3>2 DEF Open, FirstKnown, Opened
    <3> QED BY <3>1, <3>2
  <2> QED BY <1>1, <1>6, <2>1
      DEF UserStep, StopFlag, Publish, WatchCtx, CloseStream, NextCall, NextExpire
<1>7. CASE \E r \in Readers : ReadStep(r)
  BY <1>1, <1>7 DEF ReadStep, NextLook, NextWait
<1>8. CASE UNCHANGED vars
  BY <1>1, <1>8 DEF vars
<1> QED BY <1>2, <1>3, <1>4, <1>5, <1>6, <1>7, <1>8 DEF Next

\* A step that nobody outside the connection can see.
Unseen == UNCHANGED <<published, stage, since, got, terminal>>

LEMMA UnseenPromise == ASSUME Unseen PROVE UNCHANGED Promise!promiseVars
BY DEF Unseen, Promise!promiseVars, Closed

\* A finisher ends the stream, or comes too late.
LEMMA FinishPromise ==
    ASSUME StreamInv, FirstKnown, NEW s \in Streams, Opened(s), NEW f, NEW why,
           StartFinish(s, f, why), UNCHANGED <<published, stage, since, got>>,
           why \in Promise!Causes(s)
    PROVE  Promise!End(s) \/ UNCHANGED Promise!promiseVars
<1>1. CASE Live(s)
  <2>1. terminal' = [terminal EXCEPT ![s] = why]
    BY <1>1 DEF StartFinish
  <2>2. Promise!Lives(s)
    BY <1>1 DEF Promise!Lives, FirstKnown, Live
  <2>3. UNCHANGED <<published, Closed, since, got>>
    BY DEF Closed
  <2> QED BY <2>1, <2>2, <2>3 DEF Promise!End
<1>2. CASE ~Live(s)
  BY <1>2, UnseenPromise DEF StartFinish, Unseen
<1> QED BY <1>1, <1>2

LEMMA OpenPromise ==
    ASSUME StreamInv, FirstKnown, NEW s \in Streams, Open(s)
    PROVE  Promise!Open(s) \/ UNCHANGED Promise!promiseVars
<1> USE DEF Open, finVars, pubVars, connVars
<1>1. CASE Admits(s)
  <2>1. ~Closed /\ since[s] = 0 /\ since' = [since EXCEPT ![s] = published + 1]
    BY <1>1 DEF Admits, FirstKnown, Opened
  <2>2. UNCHANGED <<published, Closed, got, terminal>>
    BY DEF Closed
  <2> QED BY <2>1, <2>2 DEF Promise!Open
<1>2. CASE ~Admits(s)
  BY <1>2, UnseenPromise DEF Unseen
<1> QED BY <1>1, <1>2

LEMMA TakePromise ==
    ASSUME StreamInv, FirstKnown, NEW r \in Readers, NextLook(r)
    PROVE  Promise!Take(StreamOf[r]) \/ UNCHANGED Promise!promiseVars
<1>1. PICK s \in Streams : s = StreamOf[r]
  BY StreamAssumption
<1>2. UNCHANGED <<published, stage, since, terminal>>
  BY DEF NextLook, pubVars, connVars
<1>3. CASE Live(s) /\ queue[s] # <<>> /\ got' = [got EXCEPT ![s] = Append(@, Head(queue[s]).id)]
  <2>1. queue[s] \in Seq(EventRec) /\ got \in [Streams -> Seq(Nat)] /\ since[s] \in Nat
        /\ published \in Nat
    BY DEF StreamInv, TypeOK, StreamTypeOK, ConnTypeOK
  <2>2. Opened(s)
    BY <1>3 DEF StreamInv, Registered
  <2>3. Len(got[s]) \in Nat /\ Len(queue[s]) \in Nat /\ Len(queue[s]) >= 1
        /\ Head(queue[s]) = queue[s][1]
    BY <1>3, <2>1
  <2>4. /\ queue[s][1].id = since[s] + Len(got[s]) + 1 - 1
        /\ \/ since[s] + Len(got[s]) + Len(queue[s]) = published
           \/ since[s] + Len(got[s]) + Len(queue[s]) = published + 1
    BY <1>3, <2>2, <2>3 DEF StreamInv, Numbered, NumberedAt
  <2> DEFINE a == since[s]
             g == Len(got[s])
             n == Len(queue[s])
  <2>5. a \in Nat /\ g \in Nat /\ n \in Nat /\ n >= 1 /\ published \in Nat
        /\ (a + g + n = published \/ a + g + n = published + 1)
    BY <2>1, <2>3, <2>4
  <2> HIDE DEF a, g, n
  <2>6. a + g <= published /\ a + g + 1 - 1 = a + g
    BY <2>5
  <2>7. Head(queue[s]).id = Promise!Following(s) /\ Promise!Behind(s)
    BY <2>3, <2>4, <2>6, Zenon DEF Promise!Following, Promise!Behind, a, g
  <2>8. Promise!Lives(s)
    BY <1>3, <2>2 DEF Promise!Lives, FirstKnown, Live
  <2>9. UNCHANGED <<published, Closed, since, terminal>>
    BY <1>2 DEF Closed
  <2> QED BY <1>1, <1>3, <2>7, <2>8, <2>9 DEF Promise!Take
<1>4. CASE got' = got
  BY <1>2, <1>4, UnseenPromise DEF Unseen
<1> QED BY <1>1, <1>3, <1>4 DEF NextLook

LEMMA StepPromise ==
    ASSUME StreamInv, FirstKnown, [Next]_vars
    PROVE  Promise!Next \/ UNCHANGED Promise!promiseVars
<1> USE DEF finVars, connVars, pubVars, logVars
<1>0. \A s \in Streams : Opened(s) <=> watcher[s] \in {"run", "done"}
  BY DEF Opened
<1>1. ASSUME Unseen PROVE UNCHANGED Promise!promiseVars
  BY <1>1, UnseenPromise
<1>2. ASSUME NEW s \in Streams, Promise!End(s) \/ Promise!Open(s) \/ Promise!Take(s)
      PROVE  Promise!Next
  BY <1>2 DEF Promise!Next
<1>3. CASE FinishStep
  BY <1>1, <1>3 DEF FinishStep, Release, CloseDone, Unseen
<1>4. ASSUME NEW s \in Streams, WatchCtx(s)
      PROVE  Promise!Next \/ UNCHANGED Promise!promiseVars
  <2>1. Opened(s) /\ "ctx" \in Promise!Causes(s)
    BY <1>0, <1>4 DEF WatchCtx, Promise!Causes
  <2> QED BY <1>2, <1>4, <2>1, FinishPromise DEF WatchCtx
<1>5. ASSUME NEW s \in Streams, WatchStop(s)
      PROVE  Promise!Next \/ UNCHANGED Promise!promiseVars
  <2>1. Opened(s) /\ "closed" \in Promise!Causes(s)
    BY <1>0, <1>5 DEF WatchStop, StopCh, Closed, Promise!Causes
  <2> QED BY <1>2, <1>5, <2>1, FinishPromise DEF WatchStop
<1>6. ASSUME NEW s \in Streams, CloseStream(s)
      PROVE  Promise!Next \/ UNCHANGED Promise!promiseVars
  <2>1. Opened(s) /\ "EOF" \in Promise!Causes(s)
    BY <1>6 DEF CloseStream, Promise!Causes
  <2> QED BY <1>2, <1>6, <2>1, FinishPromise DEF CloseStream
<1>7. CASE WatchStep
  <2>1. ASSUME NEW s \in Streams, WatchEnd(s) PROVE Unseen
    BY <2>1 DEF WatchEnd, Unseen
  <2> QED BY <1>1, <1>5, <1>7, <2>1 DEF WatchStep
<1>8. CASE StopStep
  <2>1. ASSUME NEW s \in Streams, StopVisit(s)
        PROVE  Promise!Next \/ UNCHANGED Promise!promiseVars
    <3>1. Opened(s) /\ "closed" \in Promise!Causes(s)
      BY <2>1 DEF StopVisit, Closed, Promise!Causes, StreamInv, Registered
    <3> QED BY <1>2, <2>1, <3>1, FinishPromise DEF StopVisit
  <2>2. ASSUME StopSignal \/ StopEnd PROVE UNCHANGED Promise!promiseVars
    <3>1. UNCHANGED <<published, since, got, terminal>> /\ Closed' = Closed
      BY <2>2 DEF StopSignal, StopEnd, streamVars, Closed
    <3> QED BY <3>1 DEF Promise!promiseVars
  <2> QED BY <1>8, <2>1, <2>2 DEF StopStep
<1>9. CASE PushStep
  <2>1. ASSUME NEW s \in Streams, PushOverflow(s)
        PROVE  Promise!Next \/ UNCHANGED Promise!promiseVars
    <3>1. ppc = "overflow" /\ s \in target /\ Opened(s)
      BY <2>1 DEF PushOverflow, StreamInv, Registered
    <3>2. CASE Live(s)
      <4>1. since[s] + Len(got[s]) + Len(queue[s]) = published
        BY <3>1, <3>2 DEF StreamInv, Numbered, NumberedAt, Pending
      <4>2. /\ since[s] \in Nat /\ Len(got[s]) \in Nat /\ Len(queue[s]) \in Nat
            /\ published \in Nat
        BY DEF StreamInv, TypeOK, StreamTypeOK, ConnTypeOK
      <4>3. Promise!Behind(s)
        BY <4>1, <4>2 DEF Promise!Behind, Promise!Following
      <4>4. "lost" \in Promise!Causes(s)
        BY <4>3 DEF Promise!Causes
      <4> QED BY <1>2, <2>1, <3>1, <4>4, FinishPromise DEF PushOverflow
    <3>3. CASE ~Live(s)
      BY <1>1, <2>1, <3>3 DEF PushOverflow, StartFinish, Unseen
    <3> QED BY <3>2, <3>3
  <2>2. ASSUME PushWake \/ PublishEnd \/ \E s \in Streams : Push(s) \/ PushFinished(s) PROVE Unseen
    BY <2>2 DEF PushWake, PublishEnd, Push, PushFinished, streamVars, Unseen
  <2> QED BY <1>1, <1>9, <2>1, <2>2 DEF PushStep
<1>10. CASE UserStep
  <2>1. ASSUME StopFlag PROVE Promise!Next
    <3>1. UNCHANGED <<published, since, got, terminal>> /\ ~Closed /\ Closed' = TRUE
      BY <2>1 DEF StopFlag, streamVars, Closed
    <3> QED BY <3>1 DEF Promise!Next, Promise!Close
  <2>2. ASSUME Publish PROVE Promise!Next
    <3>1. UNCHANGED <<Closed, since, got, terminal>> /\ published' = published + 1
      BY <2>2 DEF Publish, streamVars, Closed
    <3> QED BY <3>1 DEF Promise!Next, Promise!Publish
  <2>3. ASSUME NEW r \in Readers, NextCall(r) \/ NextExpire(r) PROVE Unseen
    BY <2>3 DEF NextCall, NextExpire, streamVars, Unseen
  <2> QED BY <1>1, <1>2, <1>4, <1>6, <1>10, <2>1, <2>2, <2>3, OpenPromise DEF UserStep
<1>11. ASSUME NEW r \in Readers, ReadStep(r)
       PROVE  Promise!Next \/ UNCHANGED Promise!promiseVars
  <2>1. CASE NextLook(r)
    BY <1>2, <2>1, TakePromise, StreamAssumption
  <2>2. CASE NextWait(r)
    BY <1>1, <2>2 DEF NextWait, Unseen
  <2> QED BY <1>11, <2>1, <2>2 DEF ReadStep
<1>12. CASE UNCHANGED vars
  BY <1>1, <1>12 DEF vars, streamVars, Unseen
<1> QED BY <1>3, <1>7, <1>8, <1>9, <1>10, <1>11, <1>12 DEF Next

(* Every behaviour of the streams is one of StreamPromise: each returns the *)
(* events published since its opening one after the other, ends once, says  *)
(* that events were lost only when one was, and that the connection is      *)
(* closed only when it is.                                                  *)
THEOREM StreamsKeepTheirPromise == Spec => StreamsKeepPromise
<1>1. Init => Promise!Init /\ FirstKnown
  BY DEF Init, Promise!Init, Closed, FirstKnown, Opened
<1>2. StreamInv /\ FirstKnown /\ [Next]_vars => FirstKnown' /\ [Promise!Next]_(Promise!promiseVars)
  BY FirstKnownStep, StepPromise
<1> QED BY <1>1, <1>2, StreamInitially, StreamStep, PTL
        DEF Spec, StreamsKeepPromise, Promise!Spec

-----------------------------------------------------------------------------
(* The output policy: the filter of a connection is the last word of its    *)
(* calls, and lets through the output they turned on, for any number of     *)
(* calls and panes.                                                         *)
Filters == [selective: BOOLEAN, panes: UNION {[S -> {"on", "off"}] : S \in SUBSET Panes}]

Typed ==
    /\ opts \in [Calls -> Options]
    /\ pc \in [Calls -> {"idle", "list", "stage", "send", "sent", "done"}]
    /\ turn \in [Calls -> Nat] /\ staged \in Nat
    /\ policy \in Filters /\ previous \in Filters

\* A call that has not staged has no turn, no two calls are between staging and their end, and the
\* last to stage has the latest turn.
Turned ==
    \A c \in Calls :
        /\ pc[c] \in {"idle", "list", "stage"} => turn[c] = 0
        /\ pc[c] \notin {"idle", "done"} => owner = c
        /\ turn[c] <= staged
        /\ \A d \in Calls : turn[c] = turn[d] /\ turn[c] # 0 => c = d

Passes(f, p) == IF p \in DOMAIN f.panes THEN f.panes[p] = "on" ELSE ~f.selective

\* What the calls other than x add up to.
LastOf(x, p, c) ==
    /\ c # x /\ Decides(c, p)
    /\ \A d \in Calls : d # x /\ Decides(d, p) => turn[d] <= turn[c]

Follows(f, x) == \A p \in Panes, c \in Calls : LastOf(x, p, c) => (Passes(f, p) <=> Enables(c, p))

\* The filter follows all calls; the one that a failed call would put back, all others, of which
\* none has staged since.
PInv ==
    /\ Typed /\ Turned
    /\ Follows(policy, None)
    /\ \A c \in Calls : pc[c] \in {"send", "sent"} =>
          Follows(previous, c) /\ turn[c] = staged

-----------------------------------------------------------------------------
(* The property is one conjunct of the invariant.                           *)
LEMMA LastWordFollows ==
    ASSUME PInv PROVE FilterIsLastWord
<1>. SUFFICES ASSUME NEW p \in Panes, NEW c \in Calls, LastWord(p, c)
              PROVE  Forwards(p) <=> Enables(c, p)
  BY DEF FilterIsLastWord
<1>1. LastOf(None, p, c)
  BY OutputAssumption DEF LastWord, LastOf
<1>2. Passes(policy, p) <=> Enables(c, p)
  BY <1>1 DEF PInv, Follows
<1>. QED BY <1>2 DEF Passes, Forwards

(* What the calls add up to depends on nothing but the turns and the        *)
(* options of those that have one.                                          *)
LEMMA LastOfFrame ==
    ASSUME UNCHANGED turn, \A c \in Calls : turn[c] # 0 => opts'[c] = opts[c]
    PROVE  \A x, p : \A c \in Calls :
               /\ LastOf(x, p, c)' <=> LastOf(x, p, c)
               /\ LastOf(x, p, c) => (Enables(c, p)' <=> Enables(c, p))
<1>. SUFFICES ASSUME NEW x, NEW p, NEW c \in Calls
              PROVE  /\ LastOf(x, p, c)' <=> LastOf(x, p, c)
                     /\ LastOf(x, p, c) => (Enables(c, p)' <=> Enables(c, p))
  OBVIOUS
<1>1. \A d \in Calls : Decides(d, p)' <=> Decides(d, p)
  BY DEF Decides
<1>2. LastOf(x, p, c)' <=> LastOf(x, p, c)
  BY <1>1 DEF LastOf
<1>3. LastOf(x, p, c) => (Enables(c, p)' <=> Enables(c, p))
  BY DEF LastOf, Decides, Enables
<1>. QED BY <1>2, <1>3

LEMMA NoOptionsTyped == NoOptions \in Options
<1>1. Cardinality({}) = 0
  BY FS_EmptySet
<1>2. {} \in {T \in SUBSET Panes : Cardinality(T) <= MaxActions}
  BY <1>1, OutputAssumption
<1>3. Untouched \in [{} -> {"on", "off"}]
  BY DEF Untouched
<1>4. Untouched \in Actions
  BY <1>2, <1>3 DEF Actions
<1>. QED BY <1>4 DEF NoOptions, Options

LEMMA FilterStarts ==
    ASSUME PolicyInit PROVE PInv
<1>1. /\ turn = [c \in Calls |-> 0] /\ opts = [c \in Calls |-> NoOptions] /\ staged = 0
      /\ pc = [c \in Calls |-> "idle"] /\ noOutput \in BOOLEAN
      /\ policy = [selective |-> noOutput, panes |-> Untouched] /\ previous = policy
  BY DEF PolicyInit
<1>2. NoOptions \in Options
  BY NoOptionsTyped
<1>3. Untouched \in UNION {[S -> {"on", "off"}] : S \in SUBSET Panes}
  BY DEF Untouched
<1>4. policy \in Filters /\ previous \in Filters
  BY <1>1, <1>3 DEF Filters
<1>5. Typed
  BY <1>1, <1>2, <1>4 DEF Typed
<1>6. Turned
  BY <1>1 DEF Turned
<1>7. Follows(policy, None)
  BY <1>1 DEF Follows, LastOf, Decides
<1>. QED BY <1>1, <1>5, <1>6, <1>7 DEF PInv

(* A step that leaves the filter and the turns alone, and the options of    *)
(* the calls that have one.                                                 *)
LEMMA QuietKeepsFilter ==
    ASSUME PInv, UNCHANGED <<Turns, policy, previous>>,
           opts' \in [Calls -> Options], \A c \in Calls : turn[c] # 0 => opts'[c] = opts[c],
           pc' \in [Calls -> {"idle", "list", "stage", "send", "sent", "done"}], Turned',
           \A c \in Calls : pc'[c] \in {"send", "sent"} => pc[c] \in {"send", "sent"}
    PROVE  PInv'
<1>1. turn' = turn /\ staged' = staged /\ policy' = policy /\ previous' = previous
  BY DEF Turns
<1>2. \A x, p : \A c \in Calls :
          /\ LastOf(x, p, c)' <=> LastOf(x, p, c)
          /\ LastOf(x, p, c) => (Enables(c, p)' <=> Enables(c, p))
  BY <1>1, LastOfFrame
<1>3. Typed'
  BY <1>1 DEF PInv, Typed
<1>4. Follows(policy, None)'
  BY <1>1, <1>2 DEF PInv, Follows, Passes
<1>5. \A c \in Calls : pc'[c] \in {"send", "sent"} => Follows(previous, c)'
  BY <1>1, <1>2 DEF PInv, Follows, Passes
<1>6. \A c \in Calls : pc'[c] \in {"send", "sent"} => turn'[c] = staged'
  BY <1>1 DEF PInv
<1>. QED BY <1>3, <1>4, <1>5, <1>6 DEF PInv

LEMMA AcquireKeepsFilter ==
    ASSUME PInv, NEW c \in Calls, Acquire(c) PROVE PInv'
<1>1. /\ pc[c] = "idle" /\ owner = None /\ owner' = c
      /\ UNCHANGED <<Turns, policy, previous>>
  BY DEF Acquire, CapacityFree, OfPolicy
<1>2. PICK o \in Options :
          /\ opts' = [opts EXCEPT ![c] = o]
          /\ pc' = [pc EXCEPT ![c] = IF NeedsInit(o) THEN "list" ELSE "stage"]
  BY DEF Acquire
<1>3. Typed /\ Turned
  BY DEF PInv
<1>4. turn[c] = 0
  BY <1>1, <1>3 DEF Turned
<1>5. opts' \in [Calls -> Options] /\ \A d \in Calls : turn[d] # 0 => opts'[d] = opts[d]
  BY <1>2, <1>3, <1>4 DEF Typed
<1>6. /\ pc' \in [Calls -> {"idle", "list", "stage", "send", "sent", "done"}]
      /\ pc'[c] \in {"list", "stage"} /\ \A d \in Calls : d # c => pc'[d] = pc[d]
  BY <1>2, <1>3 DEF Typed
<1>7. \A d \in Calls : pc[d] \in {"idle", "done"}
  BY <1>1, <1>3, OutputAssumption DEF Turned
<1>8. turn' = turn /\ staged' = staged
  BY <1>1 DEF Turns
<1>9. Turned'
  BY <1>1, <1>3, <1>4, <1>6, <1>7, <1>8 DEF Turned
<1>. QED BY <1>1, <1>5, <1>6, <1>7, <1>9, QuietKeepsFilter

LEMMA ListKeepsFilter ==
    ASSUME PInv, NEW c \in Calls, List(c) PROVE PInv'
<1>1. pc[c] = "list" /\ UNCHANGED <<Turns, policy, previous>>
  BY DEF List, OfPolicy
<1>2. Typed /\ Turned
  BY DEF PInv
<1>3. turn[c] = 0 /\ turn' = turn /\ staged' = staged
  BY <1>1, <1>2 DEF Turned, Turns
<1>4. \/ pc' = [pc EXCEPT ![c] = "stage"] /\ opts' = opts /\ owner' = owner
      \/ pc' = [pc EXCEPT ![c] = "done"] /\ opts' = [opts EXCEPT ![c] = NoOptions]
  BY DEF List, Done
<1>5. opts' \in [Calls -> Options] /\ \A d \in Calls : turn[d] # 0 => opts'[d] = opts[d]
  BY <1>2, <1>3, <1>4, NoOptionsTyped DEF Typed
<1>6. /\ pc' \in [Calls -> {"idle", "list", "stage", "send", "sent", "done"}]
      /\ \A d \in Calls : d # c => pc'[d] = pc[d] /\ pc[d] \in {"idle", "done"}
      /\ pc'[c] = "done" \/ (pc'[c] = "stage" /\ owner' = owner)
  BY <1>1, <1>2, <1>4 DEF Typed, Turned
<1>7. Turned'
  BY <1>1, <1>2, <1>3, <1>6 DEF Turned
<1>8. \A d \in Calls : pc'[d] \notin {"send", "sent"}
  BY <1>6
<1>. QED BY <1>1, <1>5, <1>6, <1>7, <1>8, QuietKeepsFilter

LEMMA SendKeepsFilter ==
    ASSUME PInv, NEW c \in Calls, Send(c) PROVE PInv'
<1>1. /\ pc[c] = "send" /\ pc' = [pc EXCEPT ![c] = "sent"]
      /\ UNCHANGED <<opts, owner, Turns, policy, previous>>
  BY DEF Send, OfPolicy
<1>2. Typed /\ Turned
  BY DEF PInv
<1>3. turn' = turn /\ staged' = staged
  BY <1>1 DEF Turns
<1>4. /\ pc' \in [Calls -> {"idle", "list", "stage", "send", "sent", "done"}]
      /\ pc'[c] = "sent" /\ \A d \in Calls : d # c => pc'[d] = pc[d]
  BY <1>1, <1>2 DEF Typed
<1>5. Turned'
  BY <1>1, <1>2, <1>3, <1>4 DEF Turned
<1>6. opts' \in [Calls -> Options] /\ \A d \in Calls : turn[d] # 0 => opts'[d] = opts[d]
  BY <1>1, <1>2 DEF Typed
<1>. QED BY <1>1, <1>4, <1>5, <1>6, QuietKeepsFilter

(* What a call adds to the filter: for the panes it speaks of its own word, *)
(* for the others nothing.                                                  *)
LEMMA StagedPasses ==
    ASSUME policy \in Filters, NEW o \in Options, NEW p
    PROVE  /\ Staged(o) \in Filters
           /\ o.flag # None \/ p \in DOMAIN o.panes =>
                 (Passes(Staged(o), p) <=>
                      IF p \in DOMAIN o.panes THEN o.panes[p] = "on" ELSE o.flag = "!no-output")
           /\ ~(o.flag # None \/ p \in DOMAIN o.panes) => (Passes(Staged(o), p) <=> Passes(policy, p))
<1>1. PICK S \in SUBSET Panes : o.panes \in [S -> {"on", "off"}]
  BY DEF Options, Actions
<1>2. PICK T \in SUBSET Panes : policy.panes \in [T -> {"on", "off"}]
  BY DEF Filters
<1>3. o.flag \in Flags \cup {None} /\ policy.selective \in BOOLEAN
  BY DEF Options, Filters
<1>4. policy = [selective |-> policy.selective, panes |-> policy.panes]
  BY DEF Filters
<1>5. CASE o.flag # None
  <2>1. Staged(o) = [selective |-> o.flag = "no-output", panes |-> o.panes]
    BY <1>5 DEF Staged
  <2>2. Staged(o) \in Filters
    BY <1>1, <2>1 DEF Filters
  <2>3. CASE o.flag = "no-output"
    <3>1. Staged(o) = [selective |-> TRUE, panes |-> o.panes]
      BY <2>1, <2>3
    <3>2. Passes(Staged(o), p) <=> IF p \in DOMAIN o.panes THEN o.panes[p] = "on" ELSE FALSE
      BY <3>1 DEF Passes
    <3>. QED BY <1>5, <2>2, <2>3, <3>2
  <2>4. CASE o.flag = "!no-output"
    <3>1. Staged(o) = [selective |-> FALSE, panes |-> o.panes]
      BY <2>1, <2>4
    <3>2. Passes(Staged(o), p) <=> IF p \in DOMAIN o.panes THEN o.panes[p] = "on" ELSE TRUE
      BY <3>1 DEF Passes
    <3>. QED BY <1>5, <2>2, <2>4, <3>2
  <2>. QED BY <1>3, <1>5, <2>3, <2>4 DEF Flags
<1>6. CASE o.flag = None
  <2>. DEFINE m == Merge(o.panes, policy.panes)
  <2>1. m = [q \in S \cup T |-> IF q \in S THEN o.panes[q] ELSE policy.panes[q]]
    BY <1>1, <1>2 DEF Merge
  <2>2. m \in [S \cup T -> {"on", "off"}]
    BY <1>1, <1>2, <2>1
  <2>3. Staged(o) = [policy EXCEPT !.panes = m]
    BY <1>6 DEF Staged
  <2>4. Staged(o) = [selective |-> policy.selective, panes |-> m]
    BY <1>4, <2>3
  <2>5. m \in UNION {[R -> {"on", "off"}] : R \in SUBSET Panes}
    BY <2>2
  <2>6. Staged(o) \in Filters
    BY <1>3, <2>4, <2>5 DEF Filters
  <2>7. Passes(Staged(o), p) <=> IF p \in DOMAIN m THEN m[p] = "on" ELSE ~policy.selective
    BY <2>4 DEF Passes
  <2>8. DOMAIN m = S \cup T /\ DOMAIN o.panes = S /\ DOMAIN policy.panes = T
    BY <1>1, <1>2, <2>2
  <2>9. CASE p \in S
    <3>1. m[p] = o.panes[p]
      BY <2>1, <2>9
    <3>. QED BY <1>6, <2>6, <2>7, <2>8, <2>9, <3>1
  <2>10. CASE p \notin S
    <3>1. p \in T => m[p] = policy.panes[p]
      BY <2>1, <2>10
    <3>2. Passes(Staged(o), p) <=> Passes(policy, p)
      BY <2>7, <2>8, <2>10, <3>1 DEF Passes
    <3>. QED BY <1>6, <2>6, <2>8, <2>10, <3>2
  <2>. QED BY <2>9, <2>10
<1>. QED BY <1>5, <1>6

(* The call that stages has the latest turn: where it speaks, it has the    *)
(* last word; where it does not, the filter and the last word stay.         *)
LEMMA StageKeepsFilter ==
    ASSUME PInv, NEW c \in Calls, Stage(c) PROVE PInv'
<1>1. /\ pc[c] = "stage" /\ pc' = [pc EXCEPT ![c] = "send"]
      /\ previous' = policy /\ policy' = Staged(opts[c])
      /\ staged' = staged + 1 /\ turn' = [turn EXCEPT ![c] = staged + 1]
      /\ opts' = opts /\ owner' = owner
  BY DEF Stage
<1>2. Typed /\ Turned /\ Follows(policy, None)
  BY DEF PInv
<1>3. opts[c] \in Options /\ policy \in Filters /\ staged \in Nat
  BY <1>2 DEF Typed
<1>4. turn[c] = 0
  BY <1>1, <1>2 DEF Turned
<1>5. /\ turn' \in [Calls -> Nat] /\ turn'[c] = staged + 1
      /\ \A d \in Calls : d # c => turn'[d] = turn[d] /\ turn[d] <= staged
  BY <1>1, <1>2, <1>3 DEF Typed, Turned
<1>6. /\ pc' \in [Calls -> {"idle", "list", "stage", "send", "sent", "done"}] /\ pc'[c] = "send"
      /\ \A d \in Calls : d # c => pc'[d] = pc[d] /\ pc[d] \in {"idle", "done"}
  BY <1>1, <1>2 DEF Typed, Turned
<1>7. Staged(opts[c]) \in Filters
  BY <1>3, StagedPasses
<1>8. Typed'
  BY <1>1, <1>2, <1>5, <1>6, <1>7 DEF Typed
<1>9. Turned'
  <2>1. \A d \in Calls : turn[d] \in Nat
    BY <1>2 DEF Typed
  <2>2. \A d \in Calls :
            /\ pc'[d] \in {"idle", "list", "stage"} => turn'[d] = 0
            /\ pc'[d] \notin {"idle", "done"} => owner' = d
    BY <1>1, <1>2, <1>5, <1>6 DEF Turned
  <2>3. \A d \in Calls : turn'[d] <= staged'
    BY <1>1, <1>3, <1>5, <2>1
  <2>4. \A d, e \in Calls : turn'[d] = turn'[e] /\ turn'[d] # 0 => d = e
    BY <1>2, <1>3, <1>5, <2>1 DEF Turned
  <2>. QED BY <2>2, <2>3, <2>4 DEF Turned
<1>10. \A p : \A d \in Calls : d # c => (Decides(d, p)' <=> Decides(d, p)) /\ (Enables(d, p)' <=> Enables(d, p))
  BY <1>1, <1>5 DEF Decides, Enables
<1>11. \A p : ~Decides(c, p)
  BY <1>4 DEF Decides
<1>12. \A p : Decides(c, p)' <=> (opts[c].flag # None \/ p \in DOMAIN opts[c].panes)
  BY <1>1, <1>3, <1>5 DEF Decides
<1>13. Follows(policy, None)'
  <2>. SUFFICES ASSUME NEW p \in Panes, NEW d \in Calls, LastOf(None, p, d)'
                PROVE  Passes(policy', p) <=> Enables(d, p)'
    BY DEF Follows, Passes
  <2>1. Decides(d, p)' /\ \A e \in Calls : e # None /\ Decides(e, p)' => turn'[e] <= turn'[d]
    BY DEF LastOf
  <2>2. CASE opts[c].flag # None \/ p \in DOMAIN opts[c].panes
    <3>1. d = c
      <4>. SUFFICES ASSUME d # c PROVE FALSE
        OBVIOUS
      <4>1. turn'[c] <= turn'[d]
        BY <1>12, <2>1, <2>2, OutputAssumption
      <4>2. turn[d] \in Nat
        BY <1>2 DEF Typed
      <4>. QED BY <1>3, <1>5, <4>1, <4>2
    <3>2. Enables(c, p)' <=> IF p \in DOMAIN opts[c].panes THEN opts[c].panes[p] = "on"
                             ELSE opts[c].flag = "!no-output"
      BY <1>1 DEF Enables
    <3>. QED BY <1>1, <1>3, <2>2, <3>1, <3>2, StagedPasses
  <2>3. CASE ~(opts[c].flag # None \/ p \in DOMAIN opts[c].panes)
    <3>1. d # c
      BY <1>12, <2>1, <2>3
    <3>2. LastOf(None, p, d)
      <4>1. \A e \in Calls : e # None /\ Decides(e, p) => turn[e] <= turn[d]
        BY <1>5, <1>10, <1>11, <2>1, <3>1
      <4>. QED BY <1>10, <2>1, <3>1, <4>1, OutputAssumption DEF LastOf
    <3>3. Passes(policy, p) <=> Enables(d, p)
      BY <1>2, <3>2 DEF Follows
    <3>4. Passes(policy', p) <=> Passes(policy, p)
      BY <1>1, <1>3, <2>3, StagedPasses
    <3>. QED BY <1>10, <3>1, <3>3, <3>4
  <2>. QED BY <2>2, <2>3
<1>14. Follows(previous, c)'
  <2>. SUFFICES ASSUME NEW p \in Panes, NEW d \in Calls, LastOf(c, p, d)'
                PROVE  Passes(policy, p) <=> Enables(d, p)'
    BY <1>1 DEF Follows, Passes
  <2>1. d # c /\ Decides(d, p)' /\ \A e \in Calls : e # c /\ Decides(e, p)' => turn'[e] <= turn'[d]
    BY DEF LastOf
  <2>2. \A e \in Calls : Decides(e, p) => turn[e] <= turn[d]
    BY <1>5, <1>10, <1>11, <2>1
  <2>3. LastOf(None, p, d)
    BY <1>10, <2>1, <2>2, OutputAssumption DEF LastOf
  <2>4. Passes(policy, p) <=> Enables(d, p)
    BY <1>2, <2>3 DEF Follows
  <2>. QED BY <1>10, <2>1, <2>4
<1>15. \A d \in Calls : pc'[d] \in {"send", "sent"} => d = c
  BY <1>6
<1>. QED BY <1>1, <1>5, <1>8, <1>9, <1>13, <1>14, <1>15 DEF PInv

(* A call that was not sent is taken out of the filter, and out of what the *)
(* calls add up to, by the same step.                                       *)
LEMMA WithdrawKeepsFilter ==
    ASSUME PInv, NEW c \in Calls, pc[c] = "sent",
           pc' = [pc EXCEPT ![c] = "done"], opts' = [opts EXCEPT ![c] = NoOptions],
           policy' = previous, previous' = previous, turn' = turn, staged' = staged
    PROVE  PInv'
<1>1. Typed /\ Turned /\ Follows(previous, c)
  BY DEF PInv
<1>2. /\ pc' \in [Calls -> {"idle", "list", "stage", "send", "sent", "done"}] /\ pc'[c] = "done"
      /\ \A d \in Calls : d # c => pc'[d] = pc[d] /\ pc[d] \in {"idle", "done"}
  BY <1>1 DEF Typed, Turned
<1>3. /\ opts' \in [Calls -> Options] /\ opts'[c] = NoOptions
      /\ \A d \in Calls : d # c => opts'[d] = opts[d]
  BY <1>1, NoOptionsTyped DEF Typed
<1>4. Typed' /\ Turned'
  BY <1>1, <1>2, <1>3 DEF Typed, Turned
<1>5. \A p : ~Decides(c, p)'
  BY <1>3 DEF Decides, NoOptions, Untouched
<1>6. \A p : \A d \in Calls : d # c => (Decides(d, p)' <=> Decides(d, p)) /\ (Enables(d, p)' <=> Enables(d, p))
  BY <1>3 DEF Decides, Enables
<1>7. Follows(policy, None)'
  <2>. SUFFICES ASSUME NEW p \in Panes, NEW d \in Calls, LastOf(None, p, d)'
                PROVE  Passes(previous, p) <=> Enables(d, p)'
    BY DEF Follows, Passes
  <2>1. Decides(d, p)' /\ \A e \in Calls : e # None /\ Decides(e, p)' => turn[e] <= turn[d]
    BY DEF LastOf
  <2>2. d # c
    BY <1>5, <2>1
  <2>3. LastOf(c, p, d)
    BY <1>6, <2>1, <2>2, OutputAssumption DEF LastOf
  <2>4. Passes(previous, p) <=> Enables(d, p)
    BY <1>1, <2>3 DEF Follows
  <2>. QED BY <1>6, <2>2, <2>4
<1>8. \A d \in Calls : pc'[d] \notin {"send", "sent"}
  BY <1>2
<1>. QED BY <1>4, <1>7, <1>8 DEF PInv

LEMMA ConcludeKeepsFilter ==
    ASSUME PInv, NEW c \in Calls, Conclude(c) PROVE PInv'
<1>1. pc[c] = "sent" /\ previous' = policy' /\ turn' = turn /\ staged' = staged
  BY DEF Conclude, Turns
<1>2. pc' = [pc EXCEPT ![c] = "done"]
  BY DEF Conclude, Done
<1>3. \/ policy' = previous /\ opts' = [opts EXCEPT ![c] = NoOptions]
      \/ policy' = policy /\ opts' = opts
  BY DEF Conclude, Done, Restored
<1>4. CASE policy' = previous /\ opts' = [opts EXCEPT ![c] = NoOptions]
  <2>1. previous' = previous
    BY <1>1, <1>4
  <2>. QED BY <1>1, <1>2, <1>4, <2>1, WithdrawKeepsFilter
<1>5. CASE policy' = policy /\ opts' = opts
  <2>1. Typed /\ Turned
    BY DEF PInv
  <2>2. /\ pc' \in [Calls -> {"idle", "list", "stage", "send", "sent", "done"}] /\ pc'[c] = "done"
        /\ \A d \in Calls : d # c => pc'[d] = pc[d] /\ pc[d] \in {"idle", "done"}
    BY <1>1, <1>2, <2>1 DEF Typed, Turned
  <2>3. Typed' /\ Turned'
    BY <1>1, <1>5, <2>1, <2>2 DEF Typed, Turned
  <2>4. Follows(policy, None)'
    BY <1>1, <1>5, LastOfFrame DEF PInv, Follows, Passes
  <2>5. \A d \in Calls : pc'[d] \notin {"send", "sent"}
    BY <2>2
  <2>. QED BY <2>3, <2>4, <2>5 DEF PInv
<1>. QED BY <1>3, <1>4, <1>5

-----------------------------------------------------------------------------
(* Every other step is of tmux or of the reader.                            *)
LEMMA OthersKeepFilter ==
    ASSUME PInv, UNCHANGED <<pc, opts, owner, Turns, OfPolicy>> PROVE PInv'
<1>1. /\ UNCHANGED <<pc, opts, owner, Turns, policy, previous>>
      /\ turn' = turn /\ staged' = staged
  BY DEF OfPolicy, Turns
<1>2. Typed /\ Turned
  BY DEF PInv
<1>3. Turned' /\ opts' \in [Calls -> Options]
      /\ pc' \in [Calls -> {"idle", "list", "stage", "send", "sent", "done"}]
  BY <1>1, <1>2 DEF Turned, Typed
<1>. QED BY <1>1, <1>3, QuietKeepsFilter

LEMMA StepsKeepFilter ==
    ASSUME PInv, [PolicyNext]_policyVars PROVE PInv'
<1>1. CASE \E c \in Calls : Acquire(c) \/ List(c) \/ Stage(c) \/ Send(c) \/ Conclude(c)
  BY <1>1, AcquireKeepsFilter, ListKeepsFilter, StageKeepsFilter, SendKeepsFilter, ConcludeKeepsFilter
<1>2. CASE \E p \in Panes : Output(p) \/ Create(p)
  <2>1. UNCHANGED <<pc, opts, owner, Turns, OfPolicy>>
    BY <1>2 DEF Output, Create
  <2>. QED BY <2>1, OthersKeepFilter
<1>3. CASE Run
  <2>1. UNCHANGED <<pc, opts, owner, Turns, OfPolicy>>
    BY <1>3 DEF Run
  <2>. QED BY <2>1, OthersKeepFilter
<1>4. CASE Read
  <2>1. UNCHANGED <<pc, opts, owner, Turns, OfPolicy>>
    BY <1>4 DEF Read
  <2>. QED BY <2>1, OthersKeepFilter
<1>5. CASE UNCHANGED policyVars
  <2>1. UNCHANGED <<pc, opts, owner, Turns, OfPolicy>>
    BY <1>5 DEF policyVars, Turns, OfPolicy
  <2>. QED BY <2>1, OthersKeepFilter
<1>. QED BY <1>1, <1>2, <1>3, <1>4, <1>5 DEF PolicyNext

(* The filter is at every moment what the calls add up to, for any number   *)
(* of calls, panes and panes per call: refreshClient with stageOutputPolicy *)
(* and restoreOutputPolicy.                                                 *)
THEOREM FilterHolds == PolicySpec => []FilterIsLastWord
<1>1. PolicyInit => PInv
  BY FilterStarts
<1>2. PInv /\ [PolicyNext]_policyVars => PInv'
  BY StepsKeepFilter
<1>3. PInv => FilterIsLastWord
  BY LastWordFollows
<1>. QED BY <1>1, <1>2, <1>3, PTL DEF PolicySpec

-----------------------------------------------------------------------------
(* Output that was turned on is heard.  An output in the pipe outlives the  *)
(* call it is due to, and the filter may be put back meanwhile, so the      *)
(* invariant follows every request through both pipes to know that a call   *)
(* in whose name tmux sends output is never taken for one that was not sent.*)

Effects  == {"none", "ok", "confirmed", "unknown", "notSent", "unlisted"}
Commands == [call: Calls, disable: {None} \cup SUBSET Panes]
Replies  == [kind: {"reply"}, call: Calls, effect: {"ok", "unknown", "notSent"}]
Outputs  == [kind: {"output"}, pane: Panes, since: Nat \cup {None}]

Waiting(c) == \E i \in 1..Len(inbox) : inbox[i].call = c
Replied(c) == \E i \in 1..Len(pipe) : pipe[i].kind = "reply" /\ pipe[i].call = c
Refused(c) == \E i \in 1..Len(pipe) : pipe[i].kind = "reply" /\ pipe[i].call = c /\ pipe[i].effect = "notSent"

\* The calls, by their turns, that tmux sends or has sent the output of p for.
Sinces(p) ==
    {s \in Nat : /\ s # None
                 /\ \/ asked[p] = s
                    \/ \E i \in 1..Len(pipe) : pipe[i].kind = "output" /\ pipe[i].pane = p /\ pipe[i].since = s}

PipesTyped ==
    /\ inbox \in Seq(Commands) /\ pipe \in Seq(Replies \cup Outputs)
    /\ asked \in [Panes -> Nat \cup {None}] /\ effect \in [Calls -> Effects]
    /\ disable \in {None} \cup SUBSET Panes /\ exists \subseteq Panes

\* A call has one command, then one reply; until the reply is read its outcome is open.
OneCommand ==
    /\ \A i, j \in 1..Len(inbox) : inbox[i].call = inbox[j].call => i = j
    /\ \A c \in Calls :
          /\ pc[c] \in {"idle", "list", "stage", "send"} => effect[c] = "none"
          /\ pc[c] \in {"send", "sent"} => turn[c] # 0
          /\ Waiting(c) \/ Replied(c) => pc[c] \in {"sent", "done"} /\ turn[c] # 0
          /\ Waiting(c) => effect[c] \in {"none", "unknown"} /\ ~Replied(c)

\* A call that output is due to has run, and will not be withdrawn.
RanForGood ==
    \A p \in Panes : \A s \in Sinces(p) :
        /\ s <= staged
        /\ \A c \in Calls : turn[c] = s /\ s # 0 =>
              pc[c] \in {"sent", "done"} /\ ~Waiting(c) /\ ~Refused(c) /\ effect[c] # "notSent"

\* A call other than x, later than s, turns p off.
Off(x, p, s) == \E d \in Calls : d # x /\ turn[d] > s /\ Decides(d, p) /\ ~Enables(d, p)
TurnsOn(c, p) == Decides(c, p) /\ Enables(c, p)

\* The filter lets through what tmux sends, or will when a call has run that is still on its way.
Heard ==
    \A p \in Panes :
        /\ \A s \in Sinces(p) : Passes(policy, p) \/ Off(None, p, s)
        /\ \A c \in Calls : TurnsOn(c, p) => Passes(policy, p) \/ Off(None, p, turn[c])

\* So will the one that would be put back, but for the call that would be withdrawn.
HeardWithout ==
    \A c \in Calls, p \in Panes : pc[c] \in {"send", "sent"} =>
        /\ \A s \in Sinces(p) : s # turn[c] => Passes(previous, p) \/ Off(c, p, s)
        /\ \A d \in Calls \ {c} : TurnsOn(d, p) => Passes(previous, p) \/ Off(c, p, turn[d])

HInv == PipesTyped /\ OneCommand /\ RanForGood /\ Heard /\ HeardWithout

(* What is appended is the last, what is left of the tail was there before. *)
LEMMA Appended ==
    ASSUME NEW S, NEW q \in Seq(S), NEW m \in S
    PROVE  /\ Append(q, m) \in Seq(S) /\ Len(Append(q, m)) = Len(q) + 1 /\ Len(q) \in Nat
           /\ Append(q, m)[Len(q) + 1] = m
           /\ \A i \in 1..Len(q) : Append(q, m)[i] = q[i]
OBVIOUS

LEMMA Tailed ==
    ASSUME NEW S, NEW q \in Seq(S), q # <<>>
    PROVE  /\ Tail(q) \in Seq(S) /\ Len(Tail(q)) = Len(q) - 1 /\ Len(q) \in Nat \ {0}
           /\ Head(q) = q[1] /\ Head(q) \in S
           /\ \A i \in 1..Len(Tail(q)) : Tail(q)[i] = q[i + 1] /\ i + 1 \in 2..Len(q)
OBVIOUS

LEMMA HeardStarts ==
    ASSUME PolicyInit PROVE HInv
<1>1. /\ turn = [c \in Calls |-> 0] /\ staged = 0 /\ noOutput \in BOOLEAN
      /\ pc = [c \in Calls |-> "idle"] /\ effect = [c \in Calls |-> "none"]
      /\ policy = [selective |-> noOutput, panes |-> Untouched]
      /\ inbox = <<>> /\ pipe = <<>> /\ disable = None /\ exists \subseteq Panes
      /\ asked = [p \in Panes |-> IF noOutput THEN None ELSE 0]
  BY DEF PolicyInit
<1>2. PipesTyped
  BY <1>1 DEF PipesTyped, Effects
<1>3. OneCommand
  BY <1>1 DEF OneCommand, Waiting, Replied
<1>4. \A p \in Panes : \A s \in Sinces(p) : s = 0 /\ ~noOutput
  BY <1>1 DEF Sinces
<1>5. RanForGood
  BY <1>1, <1>4 DEF RanForGood
<1>6. ~noOutput => \A p : Passes(policy, p)
  BY <1>1 DEF Passes, Untouched
<1>7. \A c \in Calls : \A p : ~TurnsOn(c, p)
  BY <1>1 DEF TurnsOn, Decides
<1>8. Heard
  BY <1>4, <1>6, <1>7 DEF Heard
<1>9. HeardWithout
  BY <1>1 DEF HeardWithout
<1>. QED BY <1>2, <1>3, <1>5, <1>8, <1>9 DEF HInv

(* Who turns a pane on or off depends on nothing but the turns and the      *)
(* options of the calls that have one.                                      *)
LEMMA OffFrame ==
    ASSUME UNCHANGED turn, \A c \in Calls : turn[c] # 0 => opts'[c] = opts[c]
    PROVE  /\ \A c \in Calls : \A p : TurnsOn(c, p)' <=> TurnsOn(c, p)
           /\ \A x, p, s : Off(x, p, s)' <=> Off(x, p, s)
<1>1. ASSUME NEW c \in Calls, NEW p
      PROVE  /\ Decides(c, p)' <=> Decides(c, p)
             /\ Decides(c, p) => (Enables(c, p)' <=> Enables(c, p))
  BY DEF Decides, Enables
<1>. QED BY <1>1 DEF TurnsOn, Off

(* A step after which no more is sent, and the filter is the same.          *)
LEMMA QuietKeepsHeard ==
    ASSUME Heard, HeardWithout, UNCHANGED <<turn, policy>>,
           \A c \in Calls : turn[c] # 0 => opts'[c] = opts[c],
           \A p \in Panes : Sinces(p)' \subseteq Sinces(p),
           \A c \in Calls : pc'[c] \in {"send", "sent"} => pc[c] \in {"send", "sent"} /\ previous' = previous
    PROVE  Heard' /\ HeardWithout'
<1>1. /\ \A c \in Calls : \A p : TurnsOn(c, p)' <=> TurnsOn(c, p)
      /\ \A x, p, s : Off(x, p, s)' <=> Off(x, p, s)
  BY OffFrame
<1>2. Heard'
  BY <1>1 DEF Heard
<1>3. HeardWithout'
  BY <1>1 DEF HeardWithout
<1>. QED BY <1>2, <1>3

(* A step of one call, before it is sent, that leaves the pipes alone.      *)
LEMMA UnsentKeepsCommands ==
    ASSUME OneCommand, RanForGood, UNCHANGED <<inbox, pipe, asked, turn, staged>>,
           NEW c \in Calls, pc[c] \in {"idle", "list", "stage"},
           pc'[c] \in {"list", "stage", "done"}, \A d \in Calls : d # c => pc'[d] = pc[d],
           \A d \in Calls : d # c => effect'[d] = effect[d],
           pc'[c] # "done" => effect'[c] = effect[c],
           turn[c] = 0
    PROVE  OneCommand' /\ RanForGood'
<1>1. /\ \A d : (Waiting(d)' <=> Waiting(d)) /\ (Replied(d)' <=> Replied(d)) /\ (Refused(d)' <=> Refused(d))
      /\ \A p : Sinces(p)' = Sinces(p)
  BY DEF Waiting, Replied, Refused, Sinces
<1>2. OneCommand'
  BY <1>1 DEF OneCommand
<1>3. RanForGood'
  BY <1>1 DEF RanForGood
<1>. QED BY <1>2, <1>3

LEMMA AcquireKeepsHeard ==
    ASSUME PInv, HInv, NEW c \in Calls, Acquire(c) PROVE HInv'
<1>1. /\ pc[c] = "idle" /\ UNCHANGED <<effect, disable, turn, staged, policy, previous, asked, exists, inbox, pipe>>
  BY DEF Acquire, Turns, OfPolicy, OfTmux, OfPipes
<1>2. PICK o \in Options :
          /\ opts' = [opts EXCEPT ![c] = o]
          /\ pc' = [pc EXCEPT ![c] = IF NeedsInit(o) THEN "list" ELSE "stage"]
  BY DEF Acquire
<1>3. turn[c] = 0 /\ Typed
  BY <1>1 DEF PInv, Turned
<1>4. /\ pc'[c] \in {"list", "stage"} /\ \A d \in Calls : d # c => pc'[d] = pc[d]
      /\ \A d \in Calls : turn[d] # 0 => opts'[d] = opts[d]
  BY <1>2, <1>3 DEF Typed
<1>5. PipesTyped'
  BY <1>1 DEF HInv, PipesTyped
<1>6. OneCommand' /\ RanForGood'
  BY <1>1, <1>3, <1>4, UnsentKeepsCommands DEF HInv
<1>7. \A p : Sinces(p)' = Sinces(p)
  BY <1>1 DEF Sinces
<1>8. Heard' /\ HeardWithout'
  BY <1>1, <1>4, <1>7, QuietKeepsHeard DEF HInv
<1>. QED BY <1>5, <1>6, <1>8 DEF HInv

LEMMA ListKeepsHeard ==
    ASSUME PInv, HInv, NEW c \in Calls, List(c) PROVE HInv'
<1>1. pc[c] = "list" /\ UNCHANGED <<turn, staged, policy, previous, asked, exists, inbox, pipe>>
  BY DEF List, Turns, OfPolicy, OfTmux, OfPipes
<1>2. turn[c] = 0 /\ Typed /\ PipesTyped
  BY <1>1 DEF PInv, Turned, HInv
<1>3. \/ pc' = [pc EXCEPT ![c] = "stage"] /\ disable' = exists /\ opts' = opts /\ effect' = effect
      \/ /\ pc' = [pc EXCEPT ![c] = "done"] /\ effect' = [effect EXCEPT ![c] = "unlisted"]
         /\ disable' = None /\ opts' = [opts EXCEPT ![c] = NoOptions]
  BY DEF List, Done
<1>4. /\ pc'[c] \in {"stage", "done"} /\ \A d \in Calls : d # c => pc'[d] = pc[d]
      /\ \A d \in Calls : turn[d] # 0 => opts'[d] = opts[d]
  BY <1>2, <1>3 DEF Typed
<1>5. /\ \A d \in Calls : d # c => effect'[d] = effect[d]
      /\ pc'[c] # "done" => effect'[c] = effect[c]
      /\ effect' \in [Calls -> Effects]
  BY <1>2, <1>3 DEF Typed, PipesTyped, Effects
<1>6. PipesTyped'
  BY <1>1, <1>2, <1>3, <1>5 DEF PipesTyped
<1>7. OneCommand' /\ RanForGood'
  BY <1>1, <1>2, <1>4, <1>5, UnsentKeepsCommands DEF HInv
<1>8. \A p : Sinces(p)' = Sinces(p)
  BY <1>1 DEF Sinces
<1>9. Heard' /\ HeardWithout'
  BY <1>1, <1>4, <1>8, QuietKeepsHeard DEF HInv
<1>. QED BY <1>6, <1>7, <1>9 DEF HInv

(* The call that stages either lets the output through or is the later one  *)
(* that turns it off; what it would put back is what let it through before. *)
LEMMA StageKeepsHeard ==
    ASSUME PInv, HInv, NEW c \in Calls, Stage(c) PROVE HInv'
<1>1. /\ pc[c] = "stage" /\ pc' = [pc EXCEPT ![c] = "send"]
      /\ previous' = policy /\ policy' = Staged(opts[c])
      /\ staged' = staged + 1 /\ turn' = [turn EXCEPT ![c] = staged + 1]
      /\ UNCHANGED <<opts, effect, disable, asked, exists, inbox, pipe>>
  BY DEF Stage, OfTmux, OfPipes
<1>2. Typed /\ Turned /\ PipesTyped /\ OneCommand /\ RanForGood /\ Heard
  BY DEF PInv, HInv
<1>3. /\ turn[c] = 0 /\ staged \in Nat /\ policy \in Filters /\ opts[c] \in Options
      /\ \A d \in Calls : turn[d] \in Nat /\ turn[d] <= staged
  BY <1>1, <1>2 DEF Typed, Turned
<1>4. /\ turn'[c] = staged + 1 /\ pc'[c] = "send"
      /\ \A d \in Calls : d # c => turn'[d] = turn[d] /\ pc'[d] = pc[d]
  BY <1>1, <1>2 DEF Typed
<1>5. /\ \A d : (Waiting(d)' <=> Waiting(d)) /\ (Replied(d)' <=> Replied(d)) /\ (Refused(d)' <=> Refused(d))
      /\ \A p : Sinces(p)' = Sinces(p)
  BY <1>1 DEF Waiting, Replied, Refused, Sinces
<1>6. PipesTyped'
  BY <1>1, <1>2 DEF PipesTyped
<1>7. OneCommand'
  BY <1>1, <1>2, <1>3, <1>4, <1>5 DEF OneCommand
<1>8. \A p \in Panes : \A s \in Sinces(p) : s \in Nat /\ s <= staged
  BY <1>2 DEF RanForGood, Sinces
<1>9. RanForGood'
  BY <1>1, <1>2, <1>3, <1>4, <1>5, <1>8 DEF RanForGood
<1>10. \A p : \A d \in Calls : d # c => (Decides(d, p)' <=> Decides(d, p)) /\ (Enables(d, p)' <=> Enables(d, p))
  BY <1>1, <1>4 DEF Decides, Enables
<1>11. \A p : ~Decides(c, p)
  BY <1>3 DEF Decides
<1>12. \A p, s : Off(None, p, s) <=> Off(c, p, s)'
  BY <1>4, <1>10, <1>11, OutputAssumption DEF Off
<1>13. \A p, s : Off(c, p, s)' => Off(None, p, s)'
  BY OutputAssumption DEF Off
<1>14. ASSUME NEW p \in Panes PROVE
           /\ TurnsOn(c, p)' => Passes(policy', p)
           /\ \A s \in Nat : s <= staged => (Passes(policy, p) \/ Off(None, p, s)
                                                => Passes(policy', p) \/ Off(None, p, s)')
  <2>1. Decides(c, p)' <=> (opts[c].flag # None \/ p \in DOMAIN opts[c].panes)
    BY <1>1, <1>3, <1>4 DEF Decides
  <2>2. Enables(c, p)' <=> IF p \in DOMAIN opts[c].panes THEN opts[c].panes[p] = "on"
                           ELSE opts[c].flag = "!no-output"
    BY <1>1 DEF Enables
  <2>3. Decides(c, p)' => (Passes(policy', p) <=> Enables(c, p)')
    BY <1>1, <1>3, <2>1, <2>2, StagedPasses
  <2>4. ~Decides(c, p)' => (Passes(policy', p) <=> Passes(policy, p))
    BY <1>1, <1>3, <2>1, StagedPasses
  <2>5. ASSUME NEW s \in Nat, s <= staged, Decides(c, p)', ~Enables(c, p)' PROVE Off(None, p, s)'
    <3>1. turn'[c] > s
      BY <1>3, <1>4, <2>5
    <3>. QED BY <2>5, <3>1, OutputAssumption DEF Off
  <2>. QED BY <1>12, <1>13, <2>3, <2>4, <2>5 DEF TurnsOn
<1>15. \A d \in Calls, p \in Panes : d # c /\ TurnsOn(d, p)' => TurnsOn(d, p) /\ turn'[d] = turn[d]
  BY <1>4, <1>10 DEF TurnsOn
<1>16. Heard'
  <2>1. ASSUME NEW p \in Panes, NEW s \in Sinces(p)' PROVE Passes(policy', p) \/ Off(None, p, s)'
    BY <1>2, <1>5, <1>8, <1>14 DEF Heard
  <2>2. ASSUME NEW p \in Panes, NEW d \in Calls, TurnsOn(d, p)'
        PROVE  Passes(policy', p) \/ Off(None, p, turn[d])'
    <3>1. CASE d = c
      BY <1>14, <2>2, <3>1
    <3>2. CASE d # c
      <4>1. Passes(policy, p) \/ Off(None, p, turn[d])
        BY <1>2, <1>15, <2>2, <3>2 DEF Heard
      <4>. QED BY <1>3, <1>14, <1>15, <2>2, <3>2, <4>1
    <3>. QED BY <3>1, <3>2
  <2>. QED BY <2>1, <2>2 DEF Heard
<1>17. \A d \in Calls : pc'[d] \in {"send", "sent"} => d = c
  <2>1. \A d \in Calls : d # c => pc[d] \in {"idle", "done"}
    BY <1>1, <1>2 DEF Turned
  <2>. QED BY <1>4, <2>1
<1>18. HeardWithout'
  <2>1. ASSUME NEW p \in Panes, NEW s \in Sinces(p)' PROVE Passes(previous', p) \/ Off(c, p, s)'
    BY <1>1, <1>2, <1>5, <1>12 DEF Heard
  <2>2. ASSUME NEW p \in Panes, NEW d \in Calls \ {c}, TurnsOn(d, p)'
        PROVE  Passes(previous', p) \/ Off(c, p, turn[d])'
    <3>1. Passes(policy, p) \/ Off(None, p, turn[d])
      BY <1>2, <1>15, <2>2 DEF Heard
    <3>. QED BY <1>1, <1>12, <1>15, <2>2, <3>1
  <2>. QED BY <1>17, <2>1, <2>2 DEF HeardWithout
<1>. QED BY <1>6, <1>7, <1>9, <1>16, <1>18 DEF HInv

LEMMA SendKeepsHeard ==
    ASSUME PInv, HInv, NEW c \in Calls, Send(c) PROVE HInv'
<1>1. /\ pc[c] = "send" /\ pc' = [pc EXCEPT ![c] = "sent"]
      /\ UNCHANGED <<opts, disable, turn, staged, policy, previous, asked, exists, pipe>>
  BY DEF Send, Turns, OfPolicy, OfTmux
<1>2. Typed /\ Turned /\ PipesTyped /\ OneCommand /\ RanForGood
  BY DEF PInv, HInv
<1>3. pc'[c] = "sent" /\ \A d \in Calls : d # c => pc'[d] = pc[d]
  BY <1>1, <1>2 DEF Typed
<1>4. ~Waiting(c) /\ ~Replied(c) /\ turn[c] # 0 /\ effect[c] = "none"
  BY <1>1, <1>2 DEF OneCommand
<1>5. /\ \A d : (Replied(d)' <=> Replied(d)) /\ (Refused(d)' <=> Refused(d))
      /\ \A p : Sinces(p)' = Sinces(p)
  BY <1>1 DEF Replied, Refused, Sinces
<1>6. \A p \in Panes : turn[c] \notin Sinces(p)
  BY <1>1, <1>2, <1>4 DEF RanForGood
<1>7. Heard' /\ HeardWithout'
  BY <1>1, <1>3, <1>5, QuietKeepsHeard DEF HInv
<1>8. CASE effect' = [effect EXCEPT ![c] = "notSent"] /\ inbox' = inbox
  <2>1. /\ effect' \in [Calls -> Effects] /\ \A d \in Calls : d # c => effect'[d] = effect[d]
        /\ \A d : Waiting(d)' <=> Waiting(d)
    BY <1>2, <1>8 DEF PipesTyped, Effects, Waiting
  <2>2. PipesTyped'
    BY <1>1, <1>2, <1>8, <2>1 DEF PipesTyped
  <2>3. OneCommand'
    BY <1>1, <1>2, <1>3, <1>4, <1>5, <1>8, <2>1 DEF OneCommand
  <2>4. RanForGood'
    BY <1>1, <1>2, <1>3, <1>4, <1>5, <1>6, <2>1 DEF RanForGood
  <2>. QED BY <1>7, <2>2, <2>3, <2>4 DEF HInv
<1>9. CASE inbox' = Append(inbox, [call |-> c, disable |-> disable]) /\ effect' = effect
  <2>. DEFINE m == [call |-> c, disable |-> disable]
  <2>1. m \in Commands /\ m.call = c
    BY <1>2 DEF PipesTyped, Commands
  <2>2. /\ inbox' \in Seq(Commands) /\ Len(inbox') = Len(inbox) + 1 /\ Len(inbox) \in Nat
        /\ inbox'[Len(inbox) + 1].call = c /\ \A i \in 1..Len(inbox) : inbox'[i] = inbox[i]
    <3>. HIDE DEF m
    <3>. QED BY <1>2, <1>9, <2>1, Appended DEF PipesTyped, m
  <2>3. \A i \in 1..Len(inbox) : inbox[i].call # c
    BY <1>4 DEF Waiting
  <2>4. \A d : Waiting(d)' <=> Waiting(d) \/ d = c
    <3>1. \A i \in 1..Len(inbox') : i \in 1..Len(inbox) \/ i = Len(inbox) + 1
      BY <2>2
    <3>2. 1..Len(inbox) \subseteq 1..Len(inbox') /\ Len(inbox) + 1 \in 1..Len(inbox')
      BY <2>2
    <3>. QED BY <2>2, <3>1, <3>2 DEF Waiting
  <2>5. \A i, j \in 1..Len(inbox') : inbox'[i].call = inbox'[j].call => i = j
    BY <1>2, <2>2, <2>3 DEF OneCommand
  <2>6. PipesTyped'
    BY <1>1, <1>2, <1>9, <2>2 DEF PipesTyped
  <2>7. OneCommand'
    BY <1>1, <1>2, <1>3, <1>4, <1>5, <1>9, <2>4, <2>5 DEF OneCommand
  <2>8. RanForGood'
    BY <1>1, <1>2, <1>3, <1>5, <1>6, <1>9, <2>4 DEF RanForGood
  <2>. QED BY <1>7, <2>6, <2>7, <2>8 DEF HInv
<1>. QED BY <1>8, <1>9 DEF Send

(* The end of a call.  One that is withdrawn has sent nothing, so its turn  *)
(* is no one's reason, and what it puts back lets the rest through.         *)
LEMMA ConcludeKeepsHeard ==
    ASSUME PInv, HInv, NEW c \in Calls, Conclude(c) PROVE HInv'
<1>1. /\ pc[c] = "sent" /\ pc' = [pc EXCEPT ![c] = "done"] /\ disable' = None
      /\ UNCHANGED <<turn, staged, asked, exists, inbox, pipe>> /\ previous' = policy'
  BY DEF Conclude, Done, Turns, OfTmux, OfPipes
<1>2. Typed /\ Turned /\ PipesTyped /\ OneCommand /\ RanForGood
  BY DEF PInv, HInv
<1>3. /\ pc'[c] = "done" /\ \A d \in Calls : d # c => pc'[d] = pc[d] /\ pc[d] \in {"idle", "done"}
  BY <1>1, <1>2 DEF Typed, Turned
<1>4. /\ \A d : (Waiting(d)' <=> Waiting(d)) /\ (Replied(d)' <=> Replied(d)) /\ (Refused(d)' <=> Refused(d))
      /\ \A p : Sinces(p)' = Sinces(p)
  BY <1>1 DEF Waiting, Replied, Refused, Sinces
<1>5. /\ effect' \in [Calls -> Effects] /\ \A d \in Calls : d # c => effect'[d] = effect[d]
      /\ effect[c] \notin {"none", "unknown"} => effect'[c] # "unknown"
      /\ effect[c] \in {"none", "unknown"} => effect'[c] = "unknown"
      /\ effect'[c] = "notSent" => effect[c] = "notSent"
  BY <1>2 DEF Conclude, Done, PipesTyped, Effects
<1>6. PipesTyped'
  BY <1>1, <1>2, <1>5 DEF PipesTyped
<1>7. OneCommand'
  BY <1>1, <1>2, <1>3, <1>4, <1>5 DEF OneCommand
<1>8. RanForGood'
  BY <1>1, <1>2, <1>3, <1>4, <1>5 DEF RanForGood
<1>9. CASE policy' = policy /\ opts' = opts
  BY <1>1, <1>3, <1>4, <1>6, <1>7, <1>8, <1>9, QuietKeepsHeard DEF HInv
<1>10. CASE effect[c] = "notSent" /\ policy' = previous /\ opts' = [opts EXCEPT ![c] = NoOptions]
  <2>1. /\ opts'[c] = NoOptions /\ \A d \in Calls : d # c => opts'[d] = opts[d]
    BY <1>2, <1>10 DEF Typed
  <2>2. \A p : ~Decides(c, p)'
    BY <2>1 DEF Decides, NoOptions, Untouched
  <2>3. \A p : \A d \in Calls : d # c => (Decides(d, p)' <=> Decides(d, p)) /\ (Enables(d, p)' <=> Enables(d, p))
    BY <1>1, <2>1 DEF Decides, Enables
  <2>4. \A p, s : Off(c, p, s) => Off(None, p, s)'
    BY <1>1, <2>3, OutputAssumption DEF Off
  <2>5. \A d \in Calls, p \in Panes : TurnsOn(d, p)' => d # c /\ TurnsOn(d, p)
    BY <2>2, <2>3 DEF TurnsOn
  <2>6. turn[c] # 0
    BY <1>1, <1>2 DEF OneCommand
  <2>7. \A p \in Panes : turn[c] \notin Sinces(p)
    BY <1>2, <1>10, <2>6 DEF RanForGood
  <2>8. Heard'
    <3>1. ASSUME NEW p \in Panes, NEW s \in Sinces(p)' PROVE Passes(policy', p) \/ Off(None, p, s)'
      BY <1>1, <1>4, <1>10, <2>4, <2>7 DEF HInv, HeardWithout
    <3>2. ASSUME NEW p \in Panes, NEW d \in Calls, TurnsOn(d, p)'
          PROVE  Passes(policy', p) \/ Off(None, p, turn[d])'
      BY <1>1, <1>10, <2>4, <2>5, <3>2 DEF HInv, HeardWithout
    <3>. QED BY <3>1, <3>2 DEF Heard
  <2>9. HeardWithout'
    BY <1>3 DEF HeardWithout
  <2>. QED BY <1>6, <1>7, <1>8, <2>8, <2>9 DEF HInv
<1>. QED BY <1>9, <1>10 DEF Conclude, Done, Restored

-----------------------------------------------------------------------------
(* tmux and the reader.                                                     *)

(* A reply or an output that is written comes last in the pipe.             *)
LEMMA PipeAppended ==
    ASSUME PipesTyped, NEW m \in Replies \cup Outputs, pipe' = Append(pipe, m)
    PROVE  /\ pipe' \in Seq(Replies \cup Outputs)
           /\ \A c : Replied(c)' <=> Replied(c) \/ (m.kind = "reply" /\ m.call = c)
           /\ \A c : Refused(c)' <=> Refused(c) \/ (m.kind = "reply" /\ m.call = c /\ m.effect = "notSent")
           /\ \A p, s : s \in Sinces(p)' =>
                 s \in Sinces(p) \/ (s \in Nat /\ s # None /\
                    (asked'[p] = s \/ (m.kind = "output" /\ m.pane = p /\ m.since = s)))
<1>1. /\ pipe' \in Seq(Replies \cup Outputs) /\ Len(pipe') = Len(pipe) + 1 /\ Len(pipe) \in Nat
      /\ pipe'[Len(pipe) + 1] = m /\ \A i \in 1..Len(pipe) : pipe'[i] = pipe[i]
  BY Appended DEF PipesTyped
<1>2. \A i \in 1..Len(pipe') : i \in 1..Len(pipe) \/ i = Len(pipe) + 1
  BY <1>1
<1>3. 1..Len(pipe) \subseteq 1..Len(pipe') /\ Len(pipe) + 1 \in 1..Len(pipe')
  BY <1>1
<1>4. \A c : Replied(c)' <=> Replied(c) \/ (m.kind = "reply" /\ m.call = c)
  BY <1>1, <1>2, <1>3 DEF Replied
<1>5. \A c : Refused(c)' <=> Refused(c) \/ (m.kind = "reply" /\ m.call = c /\ m.effect = "notSent")
  BY <1>1, <1>2, <1>3 DEF Refused
<1>6. \A p, s : s \in Sinces(p)' =>
                 s \in Sinces(p) \/ (s \in Nat /\ s # None /\
                    (asked'[p] = s \/ (m.kind = "output" /\ m.pane = p /\ m.since = s)))
  BY <1>1, <1>2 DEF Sinces
<1>. QED BY <1>1, <1>4, <1>5, <1>6

(* A command that runs is no longer on its way, and sends output for its    *)
(* own turn only if all of it ran.                                          *)
LEMMA RunKeepsHeard ==
    ASSUME PInv, HInv, Run PROVE HInv'
<1>1. /\ inbox # <<>> /\ inbox' = Tail(inbox)
      /\ UNCHANGED <<pc, opts, effect, disable, turn, staged, policy, previous, exists>>
  BY DEF Run, Turns, OfPolicy
<1>2. Typed /\ Turned /\ PipesTyped /\ OneCommand /\ RanForGood /\ Heard /\ HeardWithout
  BY DEF PInv, HInv
<1>0. PICK c \in Calls : c = Head(inbox).call
  <2>1. Head(inbox) \in Commands
    BY <1>1, <1>2, Tailed DEF PipesTyped
  <2>. QED BY <2>1 DEF Commands
<1>. DEFINE o == opts[c]
            Asked == [p \in Panes |->
                         IF p \in DOMAIN o.panes
                         THEN IF o.panes[p] = "on" THEN turn[c] ELSE None
                         ELSE IF o.flag = None THEN asked[p]
                         ELSE IF o.flag = "!no-output" THEN turn[c] ELSE None]
<1>3. PICK e \in {"ok", "unknown", "notSent"} :
          /\ pipe' = Append(pipe, [kind |-> "reply", call |-> c, effect |-> e])
          /\ asked' = IF e # "ok" THEN asked ELSE Asked
  BY <1>0 DEF Run
<1>4. /\ inbox' \in Seq(Commands) /\ Len(inbox') = Len(inbox) - 1 /\ Len(inbox) \in Nat \ {0}
      /\ Head(inbox) = inbox[1] /\ Head(inbox) \in Commands
      /\ \A i \in 1..Len(inbox') : inbox'[i] = inbox[i + 1] /\ i + 1 \in 2..Len(inbox)
  BY <1>1, <1>2, Tailed DEF PipesTyped
<1>5. Waiting(c)
  BY <1>0, <1>4 DEF Waiting
<1>6. \A d : Waiting(d)' => Waiting(d) /\ d # c
  <2>1. \A i \in 1..Len(inbox') : inbox'[i].call # c
    BY <1>0, <1>2, <1>4 DEF OneCommand
  <2>2. \A i \in 1..Len(inbox') : i + 1 \in 1..Len(inbox)
    BY <1>4
  <2>. QED BY <1>4, <2>1, <2>2 DEF Waiting
<1>7. /\ pc[c] \in {"sent", "done"} /\ turn[c] # 0 /\ turn[c] \in Nat /\ turn[c] <= staged
      /\ effect[c] \in {"none", "unknown"} /\ ~Replied(c)
  BY <1>2, <1>5 DEF OneCommand, Turned, Typed
<1>8. [kind |-> "reply", call |-> c, effect |-> e] \in Replies
  BY <1>5 DEF Replies
<1>9. /\ pipe' \in Seq(Replies \cup Outputs)
      /\ \A d : Replied(d)' <=> Replied(d) \/ d = c
      /\ \A d : Refused(d)' <=> Refused(d) \/ (d = c /\ e = "notSent")
      /\ \A p, s : s \in Sinces(p)' => s \in Sinces(p) \/ (s \in Nat /\ s # None /\ asked'[p] = s)
  <2>. DEFINE m == [kind |-> "reply", call |-> c, effect |-> e]
  <2>1. m.kind = "reply" /\ m.call = c /\ m.effect = e /\ m \in Replies \cup Outputs /\ pipe' = Append(pipe, m)
    BY <1>3, <1>8
  <2>. HIDE DEF m
  <2>. QED BY <1>2, <2>1, PipeAppended
<1>10. ~Refused(c)
  BY <1>7 DEF Replied, Refused
<1>11. /\ asked' \in [Panes -> Nat \cup {None}]
       /\ \A p \in Panes : asked'[p] = asked[p] \/ asked'[p] = None
                           \/ (e = "ok" /\ asked'[p] = turn[c] /\ TurnsOn(c, p))
  <2>1. CASE e # "ok"
    BY <1>2, <1>3, <2>1 DEF PipesTyped
  <2>2. CASE e = "ok"
    <3>1. asked' = Asked
      BY <1>3, <2>2
    <3>2. ASSUME NEW p \in Panes
          PROVE  /\ asked'[p] \in Nat \cup {None}
                 /\ asked'[p] = asked[p] \/ asked'[p] = None \/ (asked'[p] = turn[c] /\ TurnsOn(c, p))
      <4>1. asked'[p] = IF p \in DOMAIN o.panes
                        THEN IF o.panes[p] = "on" THEN turn[c] ELSE None
                        ELSE IF o.flag = None THEN asked[p]
                        ELSE IF o.flag = "!no-output" THEN turn[c] ELSE None
        BY <3>1
      <4>2. CASE p \in DOMAIN o.panes /\ o.panes[p] = "on"
        BY <1>7, <4>1, <4>2 DEF TurnsOn, Decides, Enables
      <4>3. CASE p \notin DOMAIN o.panes /\ o.flag # None /\ o.flag = "!no-output"
        BY <1>7, <4>1, <4>3 DEF TurnsOn, Decides, Enables
      <4>4. CASE ~(p \in DOMAIN o.panes /\ o.panes[p] = "on")
                 /\ ~(p \notin DOMAIN o.panes /\ o.flag # None /\ o.flag = "!no-output")
        <5>1. asked'[p] = asked[p] \/ asked'[p] = None
          BY <4>1, <4>4
        <5>2. asked[p] \in Nat \cup {None}
          BY <1>2 DEF PipesTyped
        <5>. QED BY <5>1, <5>2
      <4>. QED BY <4>2, <4>3, <4>4
    <3>. QED BY <2>2, <3>1, <3>2
  <2>. QED BY <2>1, <2>2
<1>12. \A p \in Panes : \A s \in Sinces(p)' :
          s \in Sinces(p) \/ (e = "ok" /\ s = turn[c] /\ TurnsOn(c, p))
  <2>1. \A p \in Panes, s \in Nat : s # None /\ asked[p] = s => s \in Sinces(p)
    BY DEF Sinces
  <2>. QED BY <1>9, <1>11, <2>1
<1>13. \A p \in Panes : e # "ok" => turn[c] \notin Sinces(p)'
  <2>1. \A p \in Panes : turn[c] \notin Sinces(p)
    BY <1>2, <1>5, <1>7 DEF RanForGood
  <2>. QED BY <1>12, <2>1
<1>14. PipesTyped'
  BY <1>1, <1>2, <1>4, <1>9, <1>11 DEF PipesTyped
<1>15. OneCommand'
  <2>1. \A i, j \in 1..Len(inbox') : inbox'[i].call = inbox'[j].call => i = j
    <3>. SUFFICES ASSUME NEW i \in 1..Len(inbox'), NEW j \in 1..Len(inbox'), inbox'[i].call = inbox'[j].call
                  PROVE  i = j
      OBVIOUS
    <3>1. inbox[i + 1].call = inbox[j + 1].call /\ i + 1 \in 1..Len(inbox) /\ j + 1 \in 1..Len(inbox)
      BY <1>4
    <3>2. i + 1 = j + 1
      BY <1>2, <3>1 DEF OneCommand
    <3>. QED BY <1>4, <3>2
  <2>2. \A d \in Calls :
          /\ pc'[d] \in {"idle", "list", "stage", "send"} => effect'[d] = "none"
          /\ pc'[d] \in {"send", "sent"} => turn'[d] # 0
          /\ Waiting(d)' \/ Replied(d)' => pc'[d] \in {"sent", "done"} /\ turn'[d] # 0
          /\ Waiting(d)' => effect'[d] \in {"none", "unknown"} /\ ~Replied(d)'
    BY <1>1, <1>2, <1>6, <1>7, <1>9 DEF OneCommand
  <2>. QED BY <2>1, <2>2 DEF OneCommand
<1>16. RanForGood'
  <2>. SUFFICES ASSUME NEW p \in Panes, NEW s \in Sinces(p)'
                PROVE  /\ s <= staged
                       /\ \A d \in Calls : turn[d] = s /\ s # 0 =>
                             pc[d] \in {"sent", "done"} /\ ~Waiting(d)' /\ ~Refused(d)' /\ effect[d] # "notSent"
    BY <1>1 DEF RanForGood
  <2>1. CASE s # turn[c]
    <3>1. s \in Sinces(p)
      BY <1>12, <2>1
    <3>. QED BY <1>2, <1>6, <1>9, <2>1, <3>1 DEF RanForGood
  <2>2. CASE s = turn[c]
    <3>1. e = "ok"
      BY <1>13, <2>2
    <3>2. \A d \in Calls : turn[d] = s => d = c
      BY <1>2, <1>5, <1>7, <2>2 DEF Turned
    <3>3. ~Waiting(c)' /\ ~Refused(c)'
      BY <1>6, <1>9, <1>10, <3>1
    <3>. QED BY <1>7, <2>2, <3>2, <3>3
  <2>. QED BY <2>1, <2>2
<1>17. /\ \A d \in Calls : \A p : TurnsOn(d, p)' <=> TurnsOn(d, p)
       /\ \A x, p, s : Off(x, p, s)' <=> Off(x, p, s)
  BY <1>1, OffFrame
<1>18. Heard'
  BY <1>1, <1>2, <1>5, <1>12, <1>17 DEF Heard
<1>19. HeardWithout'
  <2>1. ASSUME NEW d \in Calls, NEW p \in Panes, pc[d] \in {"send", "sent"}, NEW s \in Sinces(p)', s # turn[d]
        PROVE  Passes(previous, p) \/ Off(d, p, s)
    BY <1>2, <1>5, <1>12, <2>1 DEF HeardWithout
  <2>. QED BY <1>1, <1>2, <1>17, <2>1 DEF HeardWithout
<1>. QED BY <1>14, <1>15, <1>16, <1>18, <1>19 DEF HInv

(* Output is due to the call that turned its pane on.                       *)
LEMMA OutputKeepsHeard ==
    ASSUME HInv, NEW p \in Panes, Output(p) PROVE HInv'
<1>. DEFINE m == [kind |-> "output", pane |-> p, since |-> asked[p]]
<1>1. /\ pipe' = Append(pipe, m)
      /\ UNCHANGED <<pc, opts, effect, disable, turn, staged, policy, previous, asked, exists, inbox>>
  BY DEF Output, Turns, OfPolicy, OfTmux
<1>2. PipesTyped /\ OneCommand /\ RanForGood /\ Heard /\ HeardWithout
  BY DEF HInv
<1>3. m \in Outputs /\ m.kind = "output" /\ m.pane = p /\ m.since = asked[p]
  BY <1>2 DEF PipesTyped, Outputs
<1>. HIDE DEF m
<1>4. /\ pipe' \in Seq(Replies \cup Outputs)
      /\ \A c : (Replied(c)' <=> Replied(c)) /\ (Refused(c)' <=> Refused(c)) /\ (Waiting(c)' <=> Waiting(c))
      /\ \A q, s : s \in Sinces(q)' => s \in Sinces(q) \/ (s \in Nat /\ s # None /\ asked[q] = s)
  <2>1. m \in Replies \cup Outputs
    BY <1>3
  <2>. QED BY <1>1, <1>2, <1>3, <2>1, PipeAppended DEF Waiting
<1>5. \A q \in Panes : Sinces(q)' \subseteq Sinces(q)
  BY <1>4 DEF Sinces
<1>6. PipesTyped'
  BY <1>1, <1>2, <1>4 DEF PipesTyped
<1>7. OneCommand'
  BY <1>1, <1>2, <1>4 DEF OneCommand
<1>8. RanForGood'
  BY <1>1, <1>2, <1>4, <1>5 DEF RanForGood
<1>9. Heard' /\ HeardWithout'
  BY <1>1, <1>2, <1>5, QuietKeepsHeard
<1>. QED BY <1>6, <1>7, <1>8, <1>9 DEF HInv

(* A reply that is read becomes the outcome of its call, if that still      *)
(* waits: "not sent" is the outcome only of a call that sent nothing.       *)
LEMMA ReadKeepsHeard ==
    ASSUME HInv, Read PROVE HInv'
<1>1. /\ pipe # <<>> /\ pipe' = Tail(pipe)
      /\ UNCHANGED <<pc, opts, disable, turn, staged, policy, previous, asked, exists, inbox>>
  BY DEF Read, Turns, OfPolicy, OfTmux
<1>2. PipesTyped /\ OneCommand /\ RanForGood /\ Heard /\ HeardWithout
  BY DEF HInv
<1>3. /\ pipe' \in Seq(Replies \cup Outputs) /\ Len(pipe) \in Nat \ {0}
      /\ Head(pipe) = pipe[1] /\ Head(pipe) \in Replies \cup Outputs
      /\ \A i \in 1..Len(pipe') : pipe'[i] = pipe[i + 1] /\ i + 1 \in 2..Len(pipe)
  BY <1>1, <1>2, Tailed DEF PipesTyped
<1>4. \A i \in 1..Len(pipe') : i + 1 \in 1..Len(pipe)
  BY <1>3
<1>5. /\ \A c : (Replied(c)' => Replied(c)) /\ (Refused(c)' => Refused(c)) /\ (Waiting(c)' <=> Waiting(c))
      /\ \A p \in Panes : Sinces(p)' \subseteq Sinces(p)
  BY <1>1, <1>3, <1>4 DEF Replied, Refused, Waiting, Sinces
<1>6. \A c \in Calls :
          \/ effect'[c] = effect[c]
          \/ /\ Replied(c) /\ effect'[c] \in {"ok", "unknown", "notSent"} /\ pc[c] = "sent"
             /\ effect'[c] = "notSent" => Refused(c)
  <2>1. CASE effect' = effect
    BY <2>1
  <2>2. CASE Head(pipe).kind = "reply" /\ pc[Head(pipe).call] = "sent"
             /\ effect' = [effect EXCEPT ![Head(pipe).call] = Head(pipe).effect]
    <3>1. Head(pipe) \in Replies
      BY <1>3, <2>2 DEF Outputs
    <3>2. Head(pipe).call \in Calls /\ Head(pipe).effect \in {"ok", "unknown", "notSent"}
      BY <3>1 DEF Replies
    <3>3. Replied(Head(pipe).call) /\ (Head(pipe).effect = "notSent" => Refused(Head(pipe).call))
      BY <1>3, <2>2 DEF Replied, Refused
    <3>. QED BY <1>2, <2>2, <3>2, <3>3 DEF PipesTyped
  <2>. QED BY <2>1, <2>2 DEF Read
<1>7. effect' \in [Calls -> Effects]
  <2>1. DOMAIN effect' = Calls /\ effect' = [c \in Calls |-> effect'[c]]
    BY <1>2 DEF Read, PipesTyped
  <2>. QED BY <1>2, <1>6, <2>1 DEF PipesTyped, Effects
<1>8. PipesTyped'
  BY <1>1, <1>2, <1>3, <1>7 DEF PipesTyped
<1>9. OneCommand'
  BY <1>1, <1>2, <1>5, <1>6 DEF OneCommand
<1>10. RanForGood'
  BY <1>1, <1>2, <1>5, <1>6 DEF RanForGood
<1>11. Heard' /\ HeardWithout'
  BY <1>1, <1>2, <1>5, QuietKeepsHeard
<1>. QED BY <1>8, <1>9, <1>10, <1>11 DEF HInv

LEMMA CreateKeepsHeard ==
    ASSUME HInv, NEW p \in Panes, Create(p) PROVE HInv'
<1>1. /\ UNCHANGED <<pc, opts, effect, disable, turn, staged, policy, previous, asked, inbox, pipe>>
      /\ exists' = exists \cup {p}
  BY DEF Create, Turns, OfPolicy, OfPipes
<1>2. PipesTyped /\ OneCommand /\ RanForGood /\ Heard /\ HeardWithout
  BY DEF HInv
<1>3. /\ \A d : (Waiting(d)' <=> Waiting(d)) /\ (Replied(d)' <=> Replied(d)) /\ (Refused(d)' <=> Refused(d))
      /\ \A q : Sinces(q)' = Sinces(q)
  BY <1>1 DEF Waiting, Replied, Refused, Sinces
<1>4. PipesTyped'
  BY <1>1, <1>2 DEF PipesTyped
<1>5. OneCommand' /\ RanForGood'
  BY <1>1, <1>2, <1>3 DEF OneCommand, RanForGood
<1>6. Heard' /\ HeardWithout'
  BY <1>1, <1>2, <1>3, QuietKeepsHeard
<1>. QED BY <1>4, <1>5, <1>6 DEF HInv

LEMMA IdleKeepsHeard ==
    ASSUME HInv, UNCHANGED policyVars PROVE HInv'
<1>1. UNCHANGED <<pc, opts, effect, disable, turn, staged, policy, previous, asked, inbox, pipe, exists>>
  BY DEF policyVars
<1>2. PipesTyped /\ OneCommand /\ RanForGood /\ Heard /\ HeardWithout
  BY DEF HInv
<1>3. /\ \A d : (Waiting(d)' <=> Waiting(d)) /\ (Replied(d)' <=> Replied(d)) /\ (Refused(d)' <=> Refused(d))
      /\ \A q : Sinces(q)' = Sinces(q)
  BY <1>1 DEF Waiting, Replied, Refused, Sinces
<1>4. PipesTyped'
  BY <1>1, <1>2 DEF PipesTyped
<1>5. OneCommand' /\ RanForGood'
  BY <1>1, <1>2, <1>3 DEF OneCommand, RanForGood
<1>6. Heard' /\ HeardWithout'
  BY <1>1, <1>2, <1>3, QuietKeepsHeard
<1>. QED BY <1>4, <1>5, <1>6 DEF HInv

LEMMA StepsKeepHeard ==
    ASSUME PInv, HInv, [PolicyNext]_policyVars PROVE HInv'
<1>1. CASE \E c \in Calls : Acquire(c) \/ List(c) \/ Stage(c) \/ Send(c) \/ Conclude(c)
  BY <1>1, AcquireKeepsHeard, ListKeepsHeard, StageKeepsHeard, SendKeepsHeard, ConcludeKeepsHeard
<1>2. CASE \E p \in Panes : Output(p) \/ Create(p)
  BY <1>2, OutputKeepsHeard, CreateKeepsHeard
<1>3. CASE Run
  BY <1>3, RunKeepsHeard
<1>4. CASE Read
  BY <1>4, ReadKeepsHeard
<1>5. CASE UNCHANGED policyVars
  BY <1>5, IdleKeepsHeard
<1>. QED BY <1>1, <1>2, <1>3, <1>4, <1>5 DEF PolicyNext

(* The output at the head of the pipe is one of those the invariant is of.  *)
LEMMA HeardAtHead ==
    ASSUME HInv PROVE EnabledIsHeard
<1>. SUFFICES ASSUME pipe # <<>>, Head(pipe).kind = "output", Head(pipe).since # None
              PROVE  \/ Forwards(Head(pipe).pane)
                     \/ \E c \in Calls : /\ turn[c] > Head(pipe).since
                                         /\ Decides(c, Head(pipe).pane) /\ ~Enables(c, Head(pipe).pane)
  BY DEF EnabledIsHeard
<1>1. Head(pipe) = pipe[1] /\ Len(pipe) \in Nat \ {0} /\ Head(pipe) \in Replies \cup Outputs
  BY Tailed DEF HInv, PipesTyped
<1>2. Head(pipe) \in Outputs
  BY <1>1 DEF Replies
<1>3. Head(pipe).pane \in Panes /\ Head(pipe).since \in Nat
  BY <1>2 DEF Outputs
<1>4. Head(pipe).since \in Sinces(Head(pipe).pane)
  BY <1>1, <1>3 DEF Sinces
<1>5. Passes(policy, Head(pipe).pane) \/ Off(None, Head(pipe).pane, Head(pipe).since)
  BY <1>3, <1>4 DEF HInv, Heard
<1>. QED BY <1>5 DEF Passes, Forwards, Off

(* Output that tmux sends for a pane after the call that turned it on is    *)
(* forwarded, also before that call returns and also while a later call is  *)
(* withdrawn (restoreOutputPolicy), unless a later call is to turn it off.  *)
THEOREM OutputIsHeard == PolicySpec => []EnabledIsHeard
<1>1. PolicyInit => PInv /\ HInv
  BY FilterStarts, HeardStarts
<1>2. PInv /\ HInv /\ [PolicyNext]_policyVars => (PInv /\ HInv)'
  BY StepsKeepFilter, StepsKeepHeard
<1>3. HInv => EnabledIsHeard
  BY HeardAtHead
<1>. QED BY <1>1, <1>2, <1>3, PTL DEF PolicySpec
=============================================================================
