-------------------------- MODULE ControlConnProofs --------------------------
(* Theorems about ControlConn for every set of callers, queue depth, byte   *)
(* budget and combination of faults.                                        *)
EXTENDS ControlConn, FiniteSetTheorems, TLAPS

\* Where dispatchRequest or deliver is working on a caller's request.
AtRequest == {"checkClosed", "checkDone", "claim", "build", "write", "stopping",
              "release", "store", "send"}

CurOK == dpc \in AtRequest => cur \in Callers

TInv == TypeOK /\ CurOK

(***************************************************************************)
(* Type correctness.                                                       *)
(***************************************************************************)
LEMMA Values ==
  /\ NoUnit \in Unit /\ NoReply \notin Reply
  /\ Refused \in Reply /\ Doubt \in Reply
  /\ \A r \in Requests : BodyLine(r) \in Line /\ NonceLine(r) \in Line
  /\ \A r \in Requests \cup {NoOne}, k \in UnitKinds : [req |-> r, kind |-> k] \in Unit
  /\ \A e \in Effects, u \in SUBSET Unit : [effect |-> e, units |-> u] \in Reply
<1>1. NoUnit \in Unit BY DEF NoUnit, Unit, UnitKinds
<1>2. NoReply \notin Reply BY DEF NoReply, Reply, Effects
<1>3. Refused \in Reply /\ Doubt \in Reply BY DEF Refused, Doubt, Reply, Effects
<1>4. \A r \in Requests : BodyLine(r) \in Line /\ NonceLine(r) \in Line
  BY DEF BodyLine, NonceLine, Line
<1>5. \A r \in Requests \cup {NoOne}, k \in UnitKinds : [req |-> r, kind |-> k] \in Unit
  BY DEF Unit
<1>6. \A e \in Effects, u \in SUBSET Unit : [effect |-> e, units |-> u] \in Reply
  BY DEF Reply
<1>7. QED BY <1>1, <1>2, <1>3, <1>4, <1>5, <1>6

LEMMA InitTInv == Init => TInv
<1> SUFFICES ASSUME Init PROVE TInv OBVIOUS
<1>1. inbox \in Seq(Line)
  BY Values DEF Init, WireOf, Requests
<1>2. held \in Unit BY Values DEF Init
<1>3. /\ pc \in [Callers -> {"idle", "count", "bytes", "enqueue", "wait", "abort", "withdraw",
                           "abortLast", "receive", "returned"}]
      /\ reqState \in [Callers -> {"queued", "inFlight", "delivered", "canceled"}]
      /\ result \in [Callers -> Reply \cup {NoReply}] /\ ret \in [Callers -> Reply \cup {NoReply}]
      /\ ctx \in [Callers -> BOOLEAN] /\ runCtx \in [Callers -> BOOLEAN]
      /\ worker \in [Workers -> {"run", "stopping", "done"}]
      /\ closer \in [Closers -> {"idle", "waiting", "nil", "error", "incomplete"}]
      /\ ran \in [Requests -> Nat]
  BY DEF Init
<1>4. requests \in Seq(Callers) /\ frames \in Seq(Unit) /\ Len(frames) <= 1 /\ wire \in Seq(Unit)
  BY DEF Init
<1>5. /\ cur \in Requests /\ got \subseteq Unit /\ bad \in BOOLEAN /\ draining \in BOOLEAN
      /\ out \in Effects /\ next \in {"idle", "exit", "drain"} /\ ready \in {"none", "ok", "err"}
      /\ dpc = "collect" /\ rpc = "read" /\ stage = "open" /\ terminal = "none"
      /\ done \in BOOLEAN /\ parent \in BOOLEAN /\ alive \in BOOLEAN /\ opener = "awaiting"
      /\ countUsed = 0 /\ bytesUsed = 0 /\ foreign = 0
  BY DEF Init, Requests, Effects
<1>6. TypeOK
  BY <1>1, <1>2, <1>3, <1>4, <1>5 DEF TypeOK
<1>7. QED BY <1>5, <1>6 DEF TInv, CurOK, AtRequest

LEMMA StopType ==
  ASSUME TypeOK, NEW cause \in Causes, Stop(cause)
  PROVE  /\ stage' \in {"open", "flagged", "signalled", "stopped"}
         /\ terminal' \in Causes \cup {"none"}
<1>1. CASE Closed BY <1>1 DEF Stop, TypeOK, connVars
<1>2. CASE ~Closed BY <1>2 DEF Stop, TypeOK, connVars
<1>3. QED BY <1>1, <1>2

LEMMA CallerTInv ==
  ASSUME TInv, NEW c \in Callers, CallerStep(c)
  PROVE  TInv'
<1> USE ConnAssumption, Values
    DEF TInv, TypeOK, CurOK, connVars, queueVars, callerVars, dispVars, readerVars,
        procVars, otherVars, replyVars
<1>0. Bytes[c] \in Int OBVIOUS
<1>1. CASE Call(c)
  <2>1. CASE Return(c, Refused) BY <1>1, <2>1 DEF Call, Return
  <2>2. CASE pc' = [pc EXCEPT ![c] = "count"] /\ UNCHANGED <<ret, runCtx>>
    BY <1>1, <2>2 DEF Call
  <2>3. QED BY <1>1, <2>1, <2>2 DEF Call
<1>2. CASE Expire(c) BY <1>2 DEF Expire
<1>3. CASE WatchStop(c) BY <1>3 DEF WatchStop
<1>4. CASE AcquireCount(c) BY <1>4 DEF AcquireCount
<1>5. CASE AcquireBytes(c) BY <1>0, <1>5 DEF AcquireBytes
<1>6. CASE AcquireFail(c) BY <1>0, <1>6 DEF AcquireFail, Return, ReleaseCount
<1>7. CASE Enqueue(c)
  <2>1. CASE Admits
    <3>1. requests' = Append(requests, c) /\ pc' = [pc EXCEPT ![c] = "wait"]
          /\ UNCHANGED <<ret, runCtx, countUsed, bytesUsed>>
      BY <1>7, <2>1 DEF Enqueue
    <3>2. QED BY <1>7, <3>1 DEF Enqueue
  <2>2. CASE ~Admits
    <3>1. ReleaseCount /\ ReleaseBytes(c) /\ Return(c, Refused) /\ UNCHANGED requests
      BY <1>7, <2>2 DEF Enqueue
    <3>2. QED BY <1>0, <1>7, <3>1 DEF Enqueue, Return, ReleaseCount, ReleaseBytes
  <2>3. QED BY <2>1, <2>2
<1>8. CASE Receive(c) BY <1>8 DEF Receive, Return
<1>9. CASE Abort(c) BY <1>9 DEF Abort
<1>10. CASE CheckDelivered(c)
  <2>1. CASE pc' = [pc EXCEPT ![c] = "receive"] /\ UNCHANGED <<ret, runCtx>>
    BY <1>10, <2>1 DEF CheckDelivered
  <2>2. CASE pc' = [pc EXCEPT ![c] = "withdraw"] /\ UNCHANGED <<ret, runCtx>>
    BY <1>10, <2>2 DEF CheckDelivered
  <2>3. CASE Return(c, Doubt) BY <1>10, <2>3 DEF CheckDelivered, Return
  <2>4. QED BY <1>10, <2>1, <2>2, <2>3 DEF CheckDelivered
<1>11. CASE Withdraw(c)
  <2>1. CASE reqState' = [reqState EXCEPT ![c] = "canceled"] /\ Return(c, Refused)
    BY <1>11, <2>1 DEF Withdraw, Return
  <2>2. CASE pc' = [pc EXCEPT ![c] = "abortLast"] /\ UNCHANGED <<reqState, ret, runCtx>>
    BY <1>11, <2>2 DEF Withdraw
  <2>3. QED BY <1>11, <2>1, <2>2 DEF Withdraw
<1>12. QED
  BY <1>1, <1>2, <1>3, <1>4, <1>5, <1>6, <1>7, <1>8, <1>9, <1>10, <1>11 DEF CallerStep

\* The locals after Forget, and the reply Conclude leaves.
LEMMA ConcludeType ==
  ASSUME TypeOK, NEW ok \in BOOLEAN, Conclude(ok)
  PROVE  /\ stage' \in {"open", "flagged", "signalled", "stopped"}
         /\ terminal' \in Causes \cup {"none"}
         /\ dpc' \in {"idle", "exit", "release"} /\ (dpc' = "release" => cur' \in Callers)
         /\ cur' \in Requests /\ got' \subseteq Unit /\ bad' \in BOOLEAN /\ draining' \in BOOLEAN
         /\ out' \in Effects /\ next' \in {"idle", "exit", "drain"}
         /\ ready' \in {"none", "ok", "err"}
<1> USE DEF TypeOK, Requests, Effects
<1>1. CASE cur = Hello
  <2>1. /\ ready' = (IF ok THEN "ok" ELSE "err")
        /\ IF ok THEN UNCHANGED connVars ELSE Stop("startup")
        /\ dpc' = (IF ok THEN "idle" ELSE "exit")
        /\ Forget
    BY <1>1 DEF Conclude
  <2>2. /\ stage' \in {"open", "flagged", "signalled", "stopped"}
        /\ terminal' \in Causes \cup {"none"}
    <3>1. CASE ok BY <2>1, <3>1 DEF connVars
    <3>2. CASE ~ok
      <4>1. Stop("startup") /\ "startup" \in Causes BY <2>1, <3>2 DEF Causes
      <4>2. QED BY <4>1, StopType
    <3>3. QED BY <3>1, <3>2
  <2>3. QED BY <2>1, <2>2 DEF Forget
<1>2. CASE cur # Hello
  <2>1. /\ Prepare(IF ok THEN "confirmed" ELSE "unknown", "idle")
        /\ UNCHANGED <<cur, got, bad, draining, ready, connVars>>
    BY <1>2 DEF Conclude
  <2>2. QED BY <1>2, <2>1 DEF Prepare, connVars
<1>3. QED BY <1>1, <1>2

LEMMA DispatcherTInv ==
  ASSUME TInv, DispatcherStep
  PROVE  TInv'
<1> USE ConnAssumption, Values
    DEF TInv, TypeOK, CurOK, AtRequest, connVars, queueVars, callerVars, dispVars, readerVars,
        procVars, otherVars, replyVars, DispatchKeeps
<1>0. /\ Callers \subseteq Requests /\ Hello \in Requests
      /\ {"confirmed", "notSent", "unknown"} = Effects
      /\ {"io", "cancelled", "protocol", "startup", "exit"} \subseteq Causes
  BY DEF Requests, Effects, Causes
<1>1. CASE DispatchTake
  <2>1. Head(requests) \in Callers /\ Tail(requests) \in Seq(Callers)
    BY <1>1 DEF DispatchTake
  <2>2. QED BY <1>0, <1>1, <2>1 DEF DispatchTake
<1>2. CASE DispatchCheckClosed
  <2>1. CASE Prepare("notSent", "idle") BY <1>0, <1>2, <2>1 DEF DispatchCheckClosed, Prepare
  <2>2. CASE dpc' = "checkDone" /\ UNCHANGED <<out, next>> BY <1>2, <2>2 DEF DispatchCheckClosed
  <2>3. QED BY <1>2, <2>1, <2>2 DEF DispatchCheckClosed
<1>3. CASE DispatchCheckDone
  <2>1. CASE Prepare("notSent", "idle") BY <1>0, <1>3, <2>1 DEF DispatchCheckDone, Prepare
  <2>2. CASE dpc' = "claim" /\ UNCHANGED <<out, next>> BY <1>3, <2>2 DEF DispatchCheckDone
  <2>3. QED BY <1>3, <2>1, <2>2 DEF DispatchCheckDone
<1>4. CASE DispatchClaim
  <2>1. CASE Prepare("notSent", "idle") /\ UNCHANGED reqState
    BY <1>0, <1>4, <2>1 DEF DispatchClaim, Prepare
  <2>2. CASE /\ reqState' = [reqState EXCEPT ![cur] = "inFlight"]
             /\ dpc' = "build" /\ UNCHANGED <<out, next>>
    BY <1>4, <2>2 DEF DispatchClaim
  <2>3. QED BY <1>4, <2>1, <2>2 DEF DispatchClaim
<1>5. CASE DispatchBuild
  <2>1. CASE Prepare("notSent", "idle") BY <1>0, <1>5, <2>1 DEF DispatchBuild, Prepare
  <2>2. CASE dpc' = "write" /\ UNCHANGED <<out, next>> BY <1>5, <2>2 DEF DispatchBuild
  <2>3. QED BY <1>5, <2>1, <2>2 DEF DispatchBuild
<1>6. CASE DispatchWrite BY <1>0, <1>6 DEF DispatchWrite, WireOf
<1>7. CASE DispatchWriteFail
  <2>1. Stop("io") BY <1>7 DEF DispatchWriteFail
  <2>2. /\ stage' \in {"open", "flagged", "signalled", "stopped"}
        /\ terminal' \in Causes \cup {"none"}
    BY <1>0, <2>1, StopType
  <2>3. inbox' \in Seq(Line)
    <3>1. PICK lines \in {<<>>, <<BodyLine(cur)>>, WireOf(cur)} : inbox' = inbox \o lines
      BY <1>7 DEF DispatchWriteFail
    <3>2. BodyLine(cur) \in Line /\ NonceLine(cur) \in Line OBVIOUS
    <3>3. lines \in Seq(Line)
      <4>1. <<>> \in Seq(Line) /\ <<BodyLine(cur)>> \in Seq(Line) BY <3>2
      <4>2. WireOf(cur) \in Seq(Line) BY <3>2 DEF WireOf
      <4>3. QED BY <4>1, <4>2
    <3>4. QED BY <3>1, <3>3
  <2>4. QED BY <1>0, <1>7, <2>2, <2>3 DEF DispatchWriteFail, WriteFailed
<1>8. CASE DispatchStopped BY <1>8 DEF DispatchStopped
<1>9. CASE CollectFrame
  <2>1. frames' \in Seq(Unit) /\ Len(frames') <= 1 /\ Head(frames) \in Unit
    BY <1>9 DEF CollectFrame
  <2>2. CASE Finishes(Head(frames))
    <3>1. PICK ok \in BOOLEAN : Conclude(ok) BY <1>9, <2>2 DEF CollectFrame
    <3>2. QED BY <1>9, <2>1, <3>1, ConcludeType DEF CollectFrame
  <2>3. CASE ~Finishes(Head(frames))
    <3>1. /\ got' \subseteq got \cup {Head(frames)}
          /\ bad' = (bad \/ Spoils(Head(frames)))
          /\ UNCHANGED <<dpc, cur, draining, out, next, ready, connVars>>
      BY <1>9, <2>3 DEF CollectFrame
    <3>2. bad' \in BOOLEAN BY <3>1
    <3>3. QED BY <1>9, <2>1, <3>1, <3>2 DEF CollectFrame
  <2>4. QED BY <2>2, <2>3
<1>10. CASE CollectStopped BY <1>10, ConcludeType DEF CollectStopped
<1>11. CASE CollectDone BY <1>11 DEF CollectDone
<1>12. CASE CollectTimeout
  <2>1. /\ stage' \in {"open", "flagged", "signalled", "stopped"}
        /\ terminal' \in Causes \cup {"none"}
    BY <1>0, <1>12, StopType DEF CollectTimeout
  <2>2. CASE cur = Hello
    <3>1. ready' = "err" /\ dpc' = "exit" /\ Forget BY <1>12, <2>2 DEF CollectTimeout
    <3>2. QED BY <1>0, <1>12, <2>1, <3>1 DEF CollectTimeout, Forget
  <2>3. CASE cur # Hello
    <3>1. /\ dpc' = "stopping" /\ out' = "unknown" /\ next' = "idle"
          /\ UNCHANGED <<cur, got, bad, draining, ready>>
      BY <1>12, <2>3 DEF CollectTimeout
    <3>2. cur \in Callers BY <2>3 DEF Requests
    <3>3. QED BY <1>0, <1>12, <2>1, <3>1, <3>2 DEF CollectTimeout
  <2>4. QED BY <2>2, <2>3
<1>13. CASE DeliverRelease BY <1>13 DEF DeliverRelease, ReleaseBytes, ReleaseCount
<1>14. CASE DeliverStore BY <1>14 DEF DeliverStore
<1>15. CASE DeliverSend
  <2>1. [effect |-> out, units |-> got] \in Reply OBVIOUS
  <2>2. result' \in [Callers -> Reply \cup {NoReply}] BY <1>15, <2>1 DEF DeliverSend
  <2>3. dpc' \in {"idle", "exit", "drain"} BY <1>15 DEF DeliverSend
  <2>4. CurOK' BY <2>3
  <2>5. /\ cur' = Hello /\ got' = {} /\ bad' = FALSE /\ draining' = FALSE
        /\ out' = "unknown" /\ next' = "idle"
    BY <1>15 DEF DeliverSend, Forget
  <2>6. UNCHANGED <<ready, reqState, connVars, queueVars, DispatchKeeps>> BY <1>15 DEF DeliverSend
  <2>7. TypeOK'
    <3>1. /\ cur' \in Requests /\ got' \subseteq Unit /\ bad' \in BOOLEAN /\ draining' \in BOOLEAN
          /\ out' \in Effects /\ next' \in {"idle", "exit", "drain"}
      BY <1>0, <2>5
    <3>2. QED BY <2>2, <2>3, <2>6, <3>1
  <2>8. QED BY <2>4, <2>7
<1>16. CASE DispatchLeave
  <2>1. /\ stage' \in {"open", "flagged", "signalled", "stopped"}
        /\ terminal' \in Causes \cup {"none"}
    BY <1>0, <1>16, StopType DEF DispatchLeave
  <2>2. QED BY <1>16, <2>1 DEF DispatchLeave
<1>17. CASE DrainTake
  <2>1. Head(requests) \in Callers /\ Tail(requests) \in Seq(Callers)
    BY <1>17 DEF DrainTake
  <2>2. QED BY <1>0, <1>17, <2>1 DEF DrainTake, Prepare
<1>18. CASE DrainEnd BY <1>18 DEF DrainEnd
<1>19. QED
  BY <1>1, <1>2, <1>3, <1>4, <1>5, <1>6, <1>7, <1>8, <1>9, <1>10, <1>11, <1>12, <1>13, <1>14,
     <1>15, <1>16, <1>17, <1>18 DEF DispatcherStep

LEMMA OtherTInv ==
  ASSUME TInv, ReaderStep \/ StopStep \/ WorkStep \/ CloseStep \/ DaemonStep \/ ParentCancel
  PROVE  TInv'
<1> USE ConnAssumption, Values
    DEF TInv, TypeOK, CurOK, connVars, queueVars, callerVars, dispVars, readerVars,
        procVars, otherVars, replyVars
<1>0. {"io", "cancelled", "protocol", "startup", "exit", "close"} \subseteq Causes BY DEF Causes
<1>1. CASE ReaderRead
  <2>1. Head(wire) \in Unit /\ wire' \in Seq(Unit) BY <1>1 DEF ReaderRead
  <2>2. CASE Stop("exit") /\ rpc' = "stopping" /\ held' = NoUnit
    <3>1. stage' \in {"open", "flagged", "signalled", "stopped"} /\ terminal' \in Causes \cup {"none"}
      BY <1>0, <2>2, StopType
    <3>2. QED BY <1>1, <2>1, <2>2, <3>1 DEF ReaderRead, ReaderKeeps
  <2>3. CASE rpc' = "send" /\ held' = Head(wire) /\ UNCHANGED connVars
    BY <1>1, <2>1, <2>3 DEF ReaderRead, ReaderKeeps
  <2>4. QED BY <1>1, <2>2, <2>3 DEF ReaderRead
<1>2. CASE ReaderSend
  <2>1. frames' \in Seq(Unit) /\ Len(frames') <= 1 BY <1>2 DEF ReaderSend, ReaderRoom
  <2>2. QED BY <1>2, <2>1 DEF ReaderSend, ReaderKeeps
<1>3. CASE ReaderQuit BY <1>3 DEF ReaderQuit, ReaderKeeps
<1>4. CASE ReaderFail
  <2>1. stage' \in {"open", "flagged", "signalled", "stopped"} /\ terminal' \in Causes \cup {"none"}
    BY <1>0, <1>4, StopType DEF ReaderFail
  <2>2. QED BY <1>4, <2>1 DEF ReaderFail, ReaderKeeps
<1>5. CASE StopStep BY <1>5 DEF StopStep, StopSignal, StopFinish
<1>6. ASSUME NEW w \in Workers, WorkerFire(w) PROVE TInv'
  <2>1. worker' \in [Workers -> {"run", "stopping", "done"}] BY <1>6 DEF WorkerFire
  <2>2. stage' \in {"open", "flagged", "signalled", "stopped"} /\ terminal' \in Causes \cup {"none"}
    <3>1. CASE UNCHANGED connVars BY <3>1
    <3>2. CASE Stop(WorkerCause(w))
      <4>1. WorkerCause(w) \in Causes BY <1>0 DEF WorkerCause
      <4>2. QED BY <3>2, <4>1, StopType
    <3>3. QED BY <1>6, <3>1, <3>2 DEF WorkerFire
  <2>3. QED BY <1>6, <2>1, <2>2 DEF WorkerFire, OtherKeeps
<1>7. ASSUME NEW w \in Workers, WorkerEnd(w) PROVE TInv'
  BY <1>7 DEF WorkerEnd, OtherKeeps
<1>8. CASE Finish BY <1>8 DEF Finish, OtherKeeps
<1>9. CASE OpenerReady
  <2>1. CASE opener' = "open" /\ UNCHANGED connVars BY <1>9, <2>1 DEF OpenerReady, OtherKeeps
  <2>2. CASE opener' = "closing" /\ Stop("startup")
    <3>1. stage' \in {"open", "flagged", "signalled", "stopped"} /\ terminal' \in Causes \cup {"none"}
      BY <1>0, <2>2, StopType
    <3>2. QED BY <1>9, <2>2, <3>1 DEF OpenerReady, OtherKeeps
  <2>3. QED BY <1>9, <2>1, <2>2 DEF OpenerReady
<1>10. CASE OpenerCancelled
  <2>1. stage' \in {"open", "flagged", "signalled", "stopped"} /\ terminal' \in Causes \cup {"none"}
    BY <1>0, <1>10, StopType DEF OpenerCancelled
  <2>2. QED BY <1>10, <2>1 DEF OpenerCancelled, OtherKeeps
<1>11. CASE OpenerFailed BY <1>11 DEF OpenerFailed, OtherKeeps
<1>12. ASSUME NEW k \in Closers, CloseCall(k) PROVE TInv'
  <2>1. stage' \in {"open", "flagged", "signalled", "stopped"} /\ terminal' \in Causes \cup {"none"}
    BY <1>0, <1>12, StopType DEF CloseCall
  <2>2. QED BY <1>12, <2>1 DEF CloseCall, OtherKeeps
<1>13. ASSUME NEW k \in Closers, CloseReturn(k) PROVE TInv'
  <2>1. closer' \in [Closers -> {"idle", "waiting", "nil", "error", "incomplete"}]
    BY <1>13 DEF CloseReturn
  <2>2. QED BY <1>13, <2>1 DEF CloseReturn, OtherKeeps
<1>14. CASE ParentCancel BY <1>14 DEF ParentCancel, OtherKeeps
<1>15. ASSUME NEW r \in Requests \cup {NoOne}, NEW k \in UnitKinds, Emit(<<[req |-> r, kind |-> k]>>)
       PROVE  wire' \in Seq(Unit)
  <2>1. [req |-> r, kind |-> k] \in Unit OBVIOUS
  <2>2. wire \o <<[req |-> r, kind |-> k]>> \in Seq(Unit) BY <2>1
  <2>3. QED BY <1>15, <2>2 DEF Emit
<1>16. CASE DaemonBody
  <2>1. Head(inbox) \in Line /\ Head(inbox).req \in Requests
    <3>1. Head(inbox) \in Line BY <1>16 DEF DaemonBody
    <3>2. QED BY <3>1 DEF Line
  <2>2. ran' \in [Requests -> Nat]
    <3>1. ran' = [ran EXCEPT ![Head(inbox).req] = @ + 1] BY <1>16 DEF DaemonBody
    <3>2. QED BY <2>1, <3>1
  <2>3. inbox' \in Seq(Line) /\ alive' \in BOOLEAN
    <3>1. inbox' \in {Tail(inbox), <<>>} /\ alive' \in {alive, FALSE} BY <1>16 DEF DaemonBody
    <3>2. Tail(inbox) \in Seq(Line) BY <1>16 DEF DaemonBody
    <3>3. <<>> \in Seq(Line) OBVIOUS
    <3>4. QED BY <3>1, <3>2, <3>3
  <2>4. \/ \E k \in UnitKinds : Emit(<<[req |-> Head(inbox).req, kind |-> k]>>)
        \/ Emit(<<[req |-> Head(inbox).req, kind |-> "fail"], NoUnit>>)
    BY <1>16 DEF DaemonBody, UnitKinds
  <2>5. wire' \in Seq(Unit)
    <3>1. CASE \E k \in UnitKinds : Emit(<<[req |-> Head(inbox).req, kind |-> k]>>)
      BY <1>15, <2>1, <3>1
    <3>2. CASE Emit(<<[req |-> Head(inbox).req, kind |-> "fail"], NoUnit>>)
      <4>1. [req |-> Head(inbox).req, kind |-> "fail"] \in Unit BY <2>1 DEF UnitKinds
      <4>2. wire \o <<[req |-> Head(inbox).req, kind |-> "fail"], NoUnit>> \in Seq(Unit) BY <4>1
      <4>3. QED BY <3>2, <4>2 DEF Emit
    <3>3. QED BY <2>4, <3>1, <3>2
  <2>6. UNCHANGED <<foreign, EnvKeeps>> BY <1>16 DEF DaemonBody
  <2>7. QED BY <2>2, <2>3, <2>5, <2>6 DEF EnvKeeps
<1>17. CASE DaemonNonce
  <2>1. Head(inbox) \in Line /\ Head(inbox).req \in Requests
    <3>1. Head(inbox) \in Line BY <1>17 DEF DaemonNonce
    <3>2. QED BY <3>1 DEF Line
  <2>2. Emit(<<[req |-> Head(inbox).req, kind |-> "nonce"]>>) BY <1>17 DEF DaemonNonce
  <2>3. wire' \in Seq(Unit) BY <1>15, <2>1, <2>2 DEF UnitKinds
  <2>4. inbox' \in Seq(Line) BY <1>17 DEF DaemonNonce
  <2>5. UNCHANGED <<alive, ran, foreign, EnvKeeps>> BY <1>17 DEF DaemonNonce
  <2>6. QED BY <2>3, <2>4, <2>5 DEF EnvKeeps
<1>18. CASE DaemonForeign
  <2>1. Emit(<<[req |-> NoOne, kind |-> "foreign"]>>) BY <1>18 DEF DaemonForeign
  <2>2. wire' \in Seq(Unit) BY <1>15, <2>1 DEF UnitKinds
  <2>3. QED BY <1>18, <2>2 DEF DaemonForeign, EnvKeeps
<1>19. CASE ClientEnd
  <2>1. wire' \in Seq(Unit)
    <3>1. wire' = Append(wire, NoUnit) \/ wire' = wire BY <1>19 DEF ClientEnd
    <3>2. Append(wire, NoUnit) \in Seq(Unit) OBVIOUS
    <3>3. QED BY <3>1, <3>2
  <2>2. alive' = FALSE /\ UNCHANGED <<inbox, ran, foreign, EnvKeeps>> BY <1>19 DEF ClientEnd
  <2>3. UNCHANGED <<inbox, ran, foreign, connVars, queueVars, callerVars, runCtx, dispVars,
                    readerVars, otherVars, replyVars>>
    BY <2>2 DEF EnvKeeps
  <2>4. alive' \in BOOLEAN BY <2>2
  <2>5. QED BY <2>1, <2>3, <2>4
<1>20. QED
  BY <1>1, <1>2, <1>3, <1>4, <1>5, <1>6, <1>7, <1>8, <1>9, <1>10, <1>11, <1>12, <1>13, <1>14,
     <1>16, <1>17, <1>18, <1>19 DEF ReaderStep, WorkStep, CloseStep, DaemonStep

LEMMA StutterTInv == TInv /\ UNCHANGED vars => TInv'
  BY DEF TInv, TypeOK, CurOK, vars, connVars, queueVars, callerVars, dispVars, readerVars,
     procVars, otherVars, replyVars

\* Every reachable value has the type the Go declarations give it, and the dispatcher works
\* on a caller's request whenever dispatchRequest or deliver runs.
THEOREM TypeCorrect == Spec => []TypeOK
<1>1. TInv /\ [Next]_vars => TInv'
  BY CallerTInv, DispatcherTInv, OtherTInv, StutterTInv DEF Next
<1>2. TInv => TypeOK BY DEF TInv
<1>3. QED BY InitTInv, <1>1, <1>2, PTL DEF Spec

(***************************************************************************)
(* The effect of an outcome.  EInv follows one request from its caller     *)
(* through the queue and the dispatcher to the daemon.                     *)
(***************************************************************************)
Early    == {"idle", "count", "bytes", "enqueue"}
PreWrite == {"checkClosed", "checkDone", "claim", "build", "write"}
Deliver  == {"stopping", "release", "store", "send"}

Queued(c) == \E i \in 1..Len(requests) : requests[i] = c
Held(c)   == cur = c /\ dpc \in AtRequest \cup {"collect"}
Sent(c)   == \E i \in 1..Len(inbox) : inbox[i] = BodyLine(c)
Reached(c) == ran[c] # 0 \/ Sent(c)        \* the daemon has started it or still may

\* A request is in one place.
QueuedOnce == \A i, j \in 1..Len(requests) : requests[i] = requests[j] => i = j
HeldApart  == \A c \in Callers : Held(c) => ~Queued(c)

\* A request on its way has no reply yet, and its caller has not withdrawn it unseen.
Pending(c) ==
    Queued(c) \/ Held(c) =>
        /\ pc[c] \notin Early /\ result[c] = NoReply
        /\ reqState[c] = "queued" => ret[c].effect # "notSent"

Claimed == dpc \in {"build", "write", "collect"} /\ cur \in Callers => reqState[cur] = "inFlight"
Stored  == dpc = "send" => reqState[cur] = "delivered"

Progress(c) ==
    /\ reqState[c] = "inFlight" => ret[c].effect # "notSent" /\ pc[c] \notin Early
    /\ result[c] # NoReply => reqState[c] = "delivered"
    /\ pc[c] # "returned" => ret[c] = NoReply
    /\ pc[c] \in Early => result[c] = NoReply

\* Once a command may reach the daemon, nothing that says "not sent" is left anywhere.
Honest(c) ==
    Reached(c) =>
        /\ reqState[c] \in {"inFlight", "delivered"} /\ pc[c] \notin Early
        /\ ~Queued(c) /\ (cur = c => dpc \notin PreWrite)
        /\ cur = c /\ dpc \in Deliver => out # "notSent"
        /\ result[c].effect # "notSent" /\ ret[c].effect # "notSent"

Once(c) ==
    /\ ran[c] \in {0, 1} /\ (ran[c] = 1 => ~Sent(c))
    /\ \A i, j \in 1..Len(inbox) : inbox[i] = BodyLine(c) /\ inbox[j] = BodyLine(c) => i = j

EInv ==
    /\ TInv /\ QueuedOnce /\ HeldApart /\ Claimed /\ Stored
    /\ \A c \in Callers : Pending(c) /\ Progress(c) /\ Honest(c) /\ Once(c)

pipe == <<inbox, ran>>
disp == <<requests, dpc, cur, out>>

LEMMA InitEInv == Init => EInv
<1> SUFFICES ASSUME Init PROVE EInv OBVIOUS
<1>1. TInv BY InitTInv
<1>2. requests = <<>> /\ Len(requests) = 0 /\ dpc = "collect" /\ cur = Hello
      /\ inbox = <<BodyLine(Hello), NonceLine(Hello)>>
  BY DEF Init, WireOf
<1>3. QueuedOnce /\ HeldApart /\ Claimed /\ Stored
  BY <1>2, ConnAssumption DEF QueuedOnce, HeldApart, Claimed, Stored, Held, Queued
<1>4. ASSUME NEW c \in Callers
      PROVE  Pending(c) /\ Progress(c) /\ Honest(c) /\ Once(c)
  <2>1. /\ pc[c] = "idle" /\ reqState[c] = "queued" /\ result[c] = NoReply /\ ret[c] = NoReply
        /\ ran[c] = 0
    BY DEF Init, Requests
  <2>2. c # Hello BY ConnAssumption
  <2>3. \A i \in 1..Len(inbox) : inbox[i] # BodyLine(c)
    BY <1>2, <2>2 DEF BodyLine, NonceLine
  <2>4. ~Queued(c) /\ ~Held(c) /\ ~Sent(c) /\ ~Reached(c)
    BY <1>2, <2>1, <2>2, <2>3 DEF Queued, Held, Sent, Reached
  <2>5. QED BY <2>1, <2>3, <2>4 DEF Pending, Progress, Honest, Once, NoReply, Early
<1>5. QED BY <1>1, <1>3, <1>4 DEF EInv

\* A step that touches nothing EInv speaks of.
LEMMA ElsewhereEInv ==
  ASSUME EInv, TInv', UNCHANGED <<pc, reqState, result, ret, disp, pipe>>
  PROVE  EInv'
  BY DEF EInv, QueuedOnce, HeldApart, Claimed, Stored, Pending, Progress, Honest, Once,
     Queued, Held, Sent, Reached, BodyLine, disp, pipe

\* A step of one caller that leaves the queue, the dispatcher and the daemon alone.
LEMMA CallerEInv ==
  ASSUME EInv, TInv', NEW c \in Callers, UNCHANGED <<disp, pipe>>,
         \A d \in Callers \ {c} : /\ pc'[d] = pc[d] /\ reqState'[d] = reqState[d]
                                  /\ result'[d] = result[d] /\ ret'[d] = ret[d],
         Progress(c)', Pending(c)',
         reqState[c] \in {"inFlight", "delivered"} => reqState'[c] = reqState[c],
         Reached(c) => /\ pc'[c] \notin Early
                       /\ result'[c].effect # "notSent" /\ ret'[c].effect # "notSent"
  PROVE  EInv'
<1>1. requests' = requests /\ dpc' = dpc /\ cur' = cur /\ out' = out /\ inbox' = inbox /\ ran' = ran
  BY DEF disp, pipe
<1>2. \A d \in Callers : /\ Queued(d)' <=> Queued(d)
                         /\ Held(d)' <=> Held(d)
                         /\ Sent(d)' <=> Sent(d)
                         /\ Reached(d)' <=> Reached(d)
  BY <1>1 DEF Queued, Held, Reached, Sent, BodyLine
<1>3. QueuedOnce' /\ HeldApart' BY <1>1, <1>2 DEF EInv, QueuedOnce, HeldApart
<1>4. Claimed'
  BY <1>1 DEF EInv, Claimed
<1>5. Stored'
  BY <1>1 DEF EInv, Stored, TInv, CurOK, AtRequest
<1>6. ASSUME NEW d \in Callers
      PROVE  Pending(d)' /\ Progress(d)' /\ Honest(d)' /\ Once(d)'
  <2>1. Pending(d)' BY <1>2 DEF EInv, Pending
  <2>2. Progress(d)' BY DEF EInv, Progress
  <2>3. Honest(d)' BY <1>1, <1>2 DEF EInv, Honest
  <2>4. Once(d)' BY <1>1, <1>2 DEF EInv, Once, BodyLine
  <2>5. QED BY <2>1, <2>2, <2>3, <2>4
<1>7. QED BY <1>3, <1>4, <1>5, <1>6 DEF EInv

\* Before its request is queued a call is unknown to the dispatcher and to the daemon.
LEMMA EarlyFacts ==
  ASSUME EInv, NEW c \in Callers, pc[c] \in Early
  PROVE  /\ ~Reached(c) /\ ~Queued(c) /\ ~Held(c)
         /\ reqState[c] # "inFlight" /\ result[c] = NoReply /\ ret[c] = NoReply
  BY DEF EInv, Honest, Pending, Progress, Early

LEMMA EarlyEInv ==
  ASSUME EInv, TInv', NEW c \in Callers, pc[c] \in Early,
         UNCHANGED <<disp, pipe, reqState, result>>,
         \/ \E p \in Early : pc' = [pc EXCEPT ![c] = p] /\ ret' = ret
         \/ Return(c, Refused)
  PROVE  EInv'
<1>1. pc \in [Callers -> {"idle", "count", "bytes", "enqueue", "wait", "abort", "withdraw",
                          "abortLast", "receive", "returned"}]
      /\ ret \in [Callers -> Reply \cup {NoReply}]
  BY DEF EInv, TInv, TypeOK
<1>2. /\ ~Reached(c) /\ ~Queued(c) /\ ~Held(c)
      /\ reqState[c] # "inFlight" /\ result[c] = NoReply /\ ret[c] = NoReply
  BY EarlyFacts
<1>3. ~Queued(c)' /\ ~Held(c)' BY <1>2 DEF Queued, Held, disp
<1>4. Pending(c)' BY <1>3 DEF Pending
<1>5. CASE \E p \in Early : pc' = [pc EXCEPT ![c] = p] /\ ret' = ret
  <2>1. PICK p \in Early : pc' = [pc EXCEPT ![c] = p] /\ ret' = ret BY <1>5
  <2>2. Progress(c)' BY <1>1, <1>2, <2>1 DEF Progress, EInv
  <2>3. QED BY <1>1, <1>2, <1>4, <2>1, <2>2, CallerEInv
<1>6. CASE Return(c, Refused)
  <2>1. pc' = [pc EXCEPT ![c] = "returned"] /\ ret' = [ret EXCEPT ![c] = Refused]
    BY <1>6 DEF Return
  <2>2. Progress(c)' BY <1>1, <1>2, <2>1 DEF Progress, EInv
  <2>3. QED BY <1>1, <1>2, <1>4, <2>1, <2>2, CallerEInv
<1>7. QED BY <1>5, <1>6

\* A call whose request is queued moves on without returning.
LEMMA WaitingEInv ==
  ASSUME EInv, TInv', NEW c \in Callers, UNCHANGED <<disp, pipe, reqState, result, ret>>,
         pc[c] \notin Early, pc[c] # "returned",
         NEW p \in {"abort", "withdraw", "abortLast", "receive"}, pc' = [pc EXCEPT ![c] = p]
  PROVE  EInv'
<1>1. pc \in [Callers -> {"idle", "count", "bytes", "enqueue", "wait", "abort", "withdraw",
                          "abortLast", "receive", "returned"}]
  BY DEF EInv, TInv, TypeOK
<1>2. pc'[c] = p /\ p \notin Early BY <1>1 DEF Early
<1>3. Queued(c)' <=> Queued(c) BY DEF Queued, disp
<1>4. Held(c)' <=> Held(c) BY DEF Held, disp
<1>5. Pending(c)' BY <1>2, <1>3, <1>4 DEF EInv, Pending
<1>6. Progress(c)' BY <1>2 DEF EInv, Progress
<1>7. Reached(c) => result'[c].effect # "notSent" /\ ret'[c].effect # "notSent"
  BY DEF EInv, Honest
<1>8. QED BY <1>1, <1>2, <1>5, <1>6, <1>7, CallerEInv

\* A call returns with a reply, or with a doubt.
LEMMA ReturnEInv ==
  ASSUME EInv, TInv', NEW c \in Callers, NEW reply, UNCHANGED <<disp, pipe>>,
         pc[c] \notin Early, pc[c] # "returned", Return(c, reply),
         reqState' \in [Callers -> {"queued", "inFlight", "delivered", "canceled"}],
         result' \in [Callers -> Reply \cup {NoReply}],
         \A d \in Callers \ {c} : reqState'[d] = reqState[d] /\ result'[d] = result[d],
         result'[c] \in {result[c], NoReply},
         \/ reqState'[c] = reqState[c]
         \/ reqState[c] = "queued" /\ reqState'[c] = "canceled" /\ result'[c] = NoReply,
         reply.effect = "notSent" => ~Reached(c) /\ reqState'[c] \notin {"queued", "inFlight"}
  PROVE  EInv'
<1>1. pc \in [Callers -> {"idle", "count", "bytes", "enqueue", "wait", "abort", "withdraw",
                          "abortLast", "receive", "returned"}]
      /\ ret \in [Callers -> Reply \cup {NoReply}]
  BY DEF EInv, TInv, TypeOK
<1>2. pc' = [pc EXCEPT ![c] = "returned"] /\ ret' = [ret EXCEPT ![c] = reply]
  BY DEF Return
<1>3. pc'[c] = "returned" /\ ret'[c] = reply /\ "returned" \notin Early BY <1>1, <1>2 DEF Early
<1>4. Queued(c)' <=> Queued(c) BY DEF Queued, disp
<1>5. Held(c)' <=> Held(c) BY DEF Held, disp
<1>6. Pending(c)' BY <1>3, <1>4, <1>5 DEF EInv, Pending
<1>7. Progress(c)' BY <1>3 DEF EInv, Progress
<1>8. NoReply.effect # "notSent" BY DEF NoReply
<1>9. Reached(c) => result'[c].effect # "notSent" /\ ret'[c].effect # "notSent"
  BY <1>3, <1>8 DEF EInv, Honest
<1>10. \A d \in Callers \ {c} : pc'[d] = pc[d] /\ ret'[d] = ret[d] BY <1>1, <1>2
<1>11. QED BY <1>3, <1>6, <1>7, <1>9, <1>10, CallerEInv

LEMMA CallerStepEInv ==
  ASSUME EInv, NEW c \in Callers, CallerStep(c)
  PROVE  EInv'
<1> USE DEF queueVars, callerVars, dispVars, procVars, replyVars
<1>0. TInv' BY CallerTInv DEF EInv
<1>1. CASE Call(c)
  <2>1. UNCHANGED <<disp, pipe, reqState, result>> /\ pc[c] \in Early
    BY <1>1 DEF Call, disp, pipe, Early
  <2>2. \/ pc' = [pc EXCEPT ![c] = "count"] /\ ret' = ret
        \/ Return(c, Refused)
    BY <1>1 DEF Call
  <2>3. QED BY <1>0, <2>1, <2>2, EarlyEInv DEF Early
<1>2. CASE Expire(c) \/ WatchStop(c)
  <2>1. UNCHANGED <<pc, reqState, result, ret, disp, pipe>>
    BY <1>2 DEF Expire, WatchStop, disp, pipe
  <2>2. QED BY <1>0, <2>1, ElsewhereEInv
<1>3. CASE AcquireCount(c) \/ AcquireBytes(c)
  <2>1. UNCHANGED <<disp, pipe, reqState, result>> /\ pc[c] \in Early
    BY <1>3 DEF AcquireCount, AcquireBytes, disp, pipe, Early
  <2>2. \E p \in {"bytes", "enqueue"} : pc' = [pc EXCEPT ![c] = p] /\ ret' = ret
    BY <1>3 DEF AcquireCount, AcquireBytes
  <2>3. QED BY <1>0, <2>1, <2>2, EarlyEInv DEF Early
<1>4. CASE AcquireFail(c)
  <2>1. UNCHANGED <<disp, pipe, reqState, result>> /\ pc[c] \in Early
    BY <1>4 DEF AcquireFail, disp, pipe, Early
  <2>2. Return(c, Refused) BY <1>4 DEF AcquireFail
  <2>3. QED BY <1>0, <2>1, <2>2, EarlyEInv
<1>5. CASE Enqueue(c) /\ ~Admits
  <2>1. ReleaseCount /\ ReleaseBytes(c) /\ Return(c, Refused) /\ UNCHANGED requests
    BY <1>5 DEF Enqueue
  <2>2. UNCHANGED <<disp, pipe, reqState, result>> /\ pc[c] \in Early
    BY <1>5, <2>1 DEF Enqueue, disp, pipe, Early
  <2>3. QED BY <1>0, <2>1, <2>2, EarlyEInv
<1>6. CASE Enqueue(c) /\ Admits
  <2>1. requests' = Append(requests, c) /\ pc' = [pc EXCEPT ![c] = "wait"] /\ ret' = ret
    BY <1>6 DEF Enqueue
  <2>2. UNCHANGED <<dpc, cur, out, pipe, reqState, result>> /\ pc[c] \in Early
    BY <1>6 DEF Enqueue, pipe, Early
  <2>3. /\ ~Reached(c) /\ ~Queued(c) /\ ~Held(c)
        /\ reqState[c] # "inFlight" /\ result[c] = NoReply /\ ret[c] = NoReply
    BY <2>2, EarlyFacts
  <2>4. \A d \in Callers : Reached(d)' <=> Reached(d)
    BY <2>2 DEF Reached, Sent, BodyLine, pipe
  <2>5. \A d \in Callers : Held(d)' <=> Held(d) BY <2>2 DEF Held
  <2>6. requests \in Seq(Callers) /\ pc \in [Callers -> {"idle", "count", "bytes", "enqueue", "wait",
            "abort", "withdraw", "abortLast", "receive", "returned"}]
    BY DEF EInv, TInv, TypeOK
  <2>7. /\ Len(requests') = Len(requests) + 1 /\ requests'[Len(requests) + 1] = c
        /\ \A i \in 1..Len(requests) : requests'[i] = requests[i]
    BY <2>1, <2>6
  <2>8. \A d \in Callers : Queued(d)' <=> Queued(d) \/ d = c
    BY <2>6, <2>7 DEF Queued
  <2>9. QueuedOnce' BY <2>3, <2>6, <2>7 DEF EInv, QueuedOnce, Queued
  <2>10. HeldApart' BY <2>3, <2>5, <2>8 DEF EInv, HeldApart
  <2>11. Claimed' /\ Stored' BY <2>2 DEF EInv, Claimed, Stored
  <2>12. "wait" \notin Early /\ NoReply.effect # "notSent" BY DEF Early, NoReply
  <2>13. ASSUME NEW d \in Callers
         PROVE  Pending(d)' /\ Progress(d)' /\ Honest(d)' /\ Once(d)'
    <3>1. pc'[d] = (IF d = c THEN "wait" ELSE pc[d]) BY <2>1, <2>6
    <3>2. Pending(d)' BY <2>1, <2>2, <2>3, <2>5, <2>8, <2>12, <3>1 DEF EInv, Pending
    <3>3. Progress(d)' BY <2>1, <2>2, <2>3, <2>12, <3>1 DEF EInv, Progress
    <3>4. Honest(d)' BY <2>1, <2>2, <2>3, <2>4, <2>8, <2>12, <3>1 DEF EInv, Honest
    <3>5. Once(d)' BY <2>2 DEF EInv, Once, Sent, BodyLine, pipe
    <3>6. QED BY <3>2, <3>3, <3>4, <3>5
  <2>14. QED BY <1>0, <2>9, <2>10, <2>11, <2>13 DEF EInv
<1>7. CASE Receive(c)
  <2>1. /\ UNCHANGED <<disp, pipe, reqState>> /\ pc[c] \notin Early /\ pc[c] # "returned"
        /\ Return(c, result[c]) /\ result' = [result EXCEPT ![c] = NoReply] /\ result[c] # NoReply
    BY <1>7 DEF Receive, disp, pipe, Early
  <2>2. reqState' \in [Callers -> {"queued", "inFlight", "delivered", "canceled"}]
        /\ result' \in [Callers -> Reply \cup {NoReply}] /\ result \in [Callers -> Reply \cup {NoReply}]
    BY <1>0 DEF EInv, TInv, TypeOK
  <2>3. /\ \A d \in Callers \ {c} : reqState'[d] = reqState[d] /\ result'[d] = result[d]
        /\ result'[c] \in {result[c], NoReply} /\ reqState'[c] = reqState[c]
    BY <2>1, <2>2
  <2>4. result[c].effect = "notSent" => ~Reached(c) /\ reqState'[c] \notin {"queued", "inFlight"}
    BY <2>1 DEF EInv, Honest, Progress
  <2>5. UNCHANGED <<disp, pipe>> /\ Return(c, result[c]) BY <2>1
  <2>6. QED BY <1>0, <2>1, <2>2, <2>3, <2>4, <2>5, ReturnEInv
<1>8. CASE Abort(c)
  <2>1. UNCHANGED <<disp, pipe, reqState, result, ret>> /\ pc[c] \notin Early /\ pc[c] # "returned"
        /\ pc' = [pc EXCEPT ![c] = "abort"]
    BY <1>8 DEF Abort, disp, pipe, Early
  <2>2. QED BY <1>0, <2>1, WaitingEInv
<1>9. CASE CheckDelivered(c)
  <2>1. UNCHANGED <<disp, pipe, reqState, result>> /\ pc[c] \notin Early /\ pc[c] # "returned"
    BY <1>9 DEF CheckDelivered, disp, pipe, Early
  <2>2. CASE Return(c, Doubt)
    <3>1. reqState' \in [Callers -> {"queued", "inFlight", "delivered", "canceled"}]
          /\ result' \in [Callers -> Reply \cup {NoReply}]
      BY <1>0 DEF TInv, TypeOK
    <3>2. Doubt.effect # "notSent" BY DEF Doubt
    <3>3. UNCHANGED <<disp, pipe>> /\ reqState' = reqState /\ result' = result BY <2>1
    <3>4. QED BY <1>0, <2>1, <2>2, <3>1, <3>2, <3>3, ReturnEInv
  <2>3. CASE pc' = [pc EXCEPT ![c] = "receive"] /\ UNCHANGED <<ret, runCtx>>
    BY <1>0, <2>1, <2>3, WaitingEInv
  <2>4. CASE pc' = [pc EXCEPT ![c] = "withdraw"] /\ UNCHANGED <<ret, runCtx>>
    BY <1>0, <2>1, <2>4, WaitingEInv
  <2>5. QED BY <1>9, <2>2, <2>3, <2>4 DEF CheckDelivered
<1>10. CASE Withdraw(c)
  <2>1. UNCHANGED <<disp, pipe, result>> /\ pc[c] \notin Early /\ pc[c] # "returned"
    BY <1>10 DEF Withdraw, disp, pipe, Early
  <2>2. CASE reqState[c] = "queued"
    <3>1. reqState' = [reqState EXCEPT ![c] = "canceled"] /\ Return(c, Refused)
      BY <1>10, <2>2 DEF Withdraw
    <3>2. reqState' \in [Callers -> {"queued", "inFlight", "delivered", "canceled"}]
          /\ result' \in [Callers -> Reply \cup {NoReply}]
          /\ reqState \in [Callers -> {"queued", "inFlight", "delivered", "canceled"}]
      BY <1>0 DEF EInv, TInv, TypeOK
    <3>3. ~Reached(c) /\ result[c] = NoReply BY <2>2 DEF EInv, Honest, Progress
    <3>4. reqState'[c] = "canceled" /\ \A d \in Callers \ {c} : reqState'[d] = reqState[d]
      BY <3>1, <3>2
    <3>5. QED BY <1>0, <2>1, <2>2, <3>1, <3>2, <3>3, <3>4, ReturnEInv
  <2>3. CASE reqState[c] # "queued"
    <3>1. pc' = [pc EXCEPT ![c] = "abortLast"] /\ UNCHANGED <<reqState, ret>>
      BY <1>10, <2>3 DEF Withdraw
    <3>2. QED BY <1>0, <2>1, <3>1, WaitingEInv
  <2>4. QED BY <2>2, <2>3
<1>11. QED
  BY <1>1, <1>2, <1>3, <1>4, <1>5, <1>6, <1>7, <1>8, <1>9, <1>10 DEF CallerStep

\* The dispatcher takes the head of the queue.
LEMMA TakeEInv ==
  ASSUME EInv, TInv', dpc \in {"idle", "leaving", "drain"}, requests # <<>>,
         cur' = Head(requests), requests' = Tail(requests),
         dpc' = "checkClosed" \/ (dpc' = "release" /\ out' = "notSent"),
         UNCHANGED <<pc, reqState, result, ret, pipe>>
  PROVE  EInv'
<1>1. requests \in Seq(Callers) BY DEF EInv, TInv, TypeOK
<1>2. /\ Len(requests) > 0 /\ Len(requests') = Len(requests) - 1 /\ cur' = requests[1]
      /\ \A i \in 1..Len(requests') : requests'[i] = requests[i + 1]
  BY <1>1
<1>3. \A d \in Callers : Queued(d)' => Queued(d) /\ cur' # d
  BY <1>1, <1>2 DEF Queued, EInv, QueuedOnce
<1>4. cur' \in Callers /\ Queued(cur') BY <1>1, <1>2 DEF Queued
<1>5. \A d \in Callers : Held(d)' => d = cur' BY DEF Held
<1>6. \A d \in Callers : Reached(d)' <=> Reached(d) BY DEF Reached, Sent, BodyLine, pipe
<1>7. QueuedOnce' BY <1>1, <1>2 DEF EInv, QueuedOnce
<1>8. HeldApart' BY <1>3, <1>5 DEF HeldApart
<1>9. Claimed' /\ Stored' BY DEF Claimed, Stored
<1>10. ASSUME NEW d \in Callers
       PROVE  Pending(d)' /\ Progress(d)' /\ Honest(d)' /\ Once(d)'
  <2>1. Pending(d)' BY <1>3, <1>4, <1>5 DEF EInv, Pending
  <2>2. Progress(d)' BY DEF EInv, Progress
  <2>3. Honest(d)' BY <1>3, <1>4, <1>6 DEF EInv, Honest
  <2>4. Once(d)' BY DEF EInv, Once, Sent, BodyLine, pipe
  <2>5. QED BY <2>1, <2>2, <2>3, <2>4
<1>11. QED BY <1>7, <1>8, <1>9, <1>10 DEF EInv

\* The dispatcher moves on with the same request, or leaves it when nothing was sent for it.
LEMMA AdvanceEInv ==
  ASSUME EInv, TInv', UNCHANGED <<pc, reqState, result, ret, pipe, requests>>,
         \/ /\ cur' = cur /\ dpc \in PreWrite \cup Deliver \cup {"collect"}
            /\ \/ dpc \in PreWrite /\ dpc' \in PreWrite /\ (dpc' = "write" => dpc = "build")
                  /\ dpc' # "build"
               \/ dpc \in PreWrite /\ dpc' = "release" /\ out' = "notSent"
               \/ dpc = "collect" /\ dpc' \in {"release", "stopping"} /\ out' # "notSent"
               \/ dpc \in Deliver /\ dpc' \in {"release", "store"} /\ out' = out
         \/ dpc' \notin AtRequest \cup {"collect"}
  PROVE  EInv'
<1>1. \A d \in Callers : /\ Queued(d)' <=> Queued(d)
                         /\ Sent(d)' <=> Sent(d)
                         /\ Reached(d)' <=> Reached(d)
  BY DEF Queued, Reached, Sent, BodyLine, pipe
<1>2. \A d \in Callers : Held(d)' => Held(d)
  BY DEF Held, AtRequest, PreWrite, Deliver
<1>3. QueuedOnce' /\ HeldApart' BY <1>1, <1>2 DEF EInv, QueuedOnce, HeldApart
<1>4. Claimed' /\ Stored'
  BY DEF EInv, Claimed, Stored, AtRequest, PreWrite, Deliver
<1>5. ASSUME NEW d \in Callers
      PROVE  Pending(d)' /\ Progress(d)' /\ Honest(d)' /\ Once(d)'
  <2>1. Pending(d)' BY <1>1, <1>2 DEF EInv, Pending
  <2>2. Progress(d)' BY DEF EInv, Progress
  <2>3. Honest(d)' BY <1>1 DEF EInv, Honest, PreWrite, Deliver, AtRequest
  <2>4. Once(d)' BY <1>1 DEF EInv, Once, BodyLine, pipe
  <2>5. QED BY <2>1, <2>2, <2>3, <2>4
<1>6. QED BY <1>3, <1>4, <1>5 DEF EInv

\* The compare-and-swap to inFlight, the store of delivered.
LEMMA MarkEInv ==
  ASSUME EInv, TInv', UNCHANGED <<pc, result, ret, pipe, requests, cur, out>>, cur \in Callers,
         \/ /\ dpc = "claim" /\ dpc' = "build" /\ reqState[cur] = "queued"
            /\ reqState' = [reqState EXCEPT ![cur] = "inFlight"]
         \/ /\ dpc = "store" /\ dpc' = "send"
            /\ reqState' = [reqState EXCEPT ![cur] = "delivered"]
  PROVE  EInv'
<1>0. reqState \in [Callers -> {"queued", "inFlight", "delivered", "canceled"}]
  BY DEF EInv, TInv, TypeOK
<1>1. \A d \in Callers : /\ Queued(d)' <=> Queued(d)
                         /\ Held(d)' <=> Held(d)
                         /\ Sent(d)' <=> Sent(d)
                         /\ Reached(d)' <=> Reached(d)
  BY DEF Queued, Held, Reached, Sent, BodyLine, pipe, AtRequest
<1>2. Held(cur) BY DEF Held, AtRequest
<1>3. QueuedOnce' /\ HeldApart' BY <1>1 DEF EInv, QueuedOnce, HeldApart
<1>4. Claimed' /\ Stored' BY <1>0 DEF EInv, Claimed, Stored
<1>5. ASSUME NEW d \in Callers
      PROVE  Pending(d)' /\ Progress(d)' /\ Honest(d)' /\ Once(d)'
  <2>0. d # cur => reqState'[d] = reqState[d] BY <1>0
  <2>1. Pending(d)' BY <1>0, <1>1, <2>0 DEF EInv, Pending
  <2>2. Progress(d)' BY <1>0, <1>2, <2>0 DEF EInv, Progress, Pending
  <2>3. Honest(d)' BY <1>0, <1>1, <2>0 DEF EInv, Honest, PreWrite, Deliver
  <2>4. Once(d)' BY <1>1 DEF EInv, Once, BodyLine, pipe
  <2>5. QED BY <2>1, <2>2, <2>3, <2>4
<1>6. QED BY <1>3, <1>4, <1>5 DEF EInv

\* The reply reaches the caller.
LEMMA SendEInv ==
  ASSUME EInv, TInv', UNCHANGED <<pc, reqState, ret, pipe, requests>>, cur \in Callers,
         dpc = "send", dpc' \in {"idle", "exit", "drain"}, NEW reply,
         reply.effect = out, result' = [result EXCEPT ![cur] = reply]
  PROVE  EInv'
<1>0. result \in [Callers -> Reply \cup {NoReply}] BY DEF EInv, TInv, TypeOK
<1>1. \A d \in Callers : /\ Queued(d)' <=> Queued(d)
                         /\ ~Held(d)'
                         /\ Sent(d)' <=> Sent(d)
                         /\ Reached(d)' <=> Reached(d)
  BY DEF Queued, Held, Reached, Sent, BodyLine, pipe, AtRequest
<1>2. Held(cur) BY DEF Held, AtRequest
<1>3. QueuedOnce' /\ HeldApart' BY <1>1 DEF EInv, QueuedOnce, HeldApart
<1>4. Claimed' /\ Stored' BY DEF Claimed, Stored
<1>5. reqState[cur] = "delivered" /\ pc[cur] \notin Early /\ ~Queued(cur)
  BY <1>2 DEF EInv, Stored, Pending, HeldApart
<1>6. ASSUME NEW d \in Callers
      PROVE  Pending(d)' /\ Progress(d)' /\ Honest(d)' /\ Once(d)'
  <2>0. /\ d # cur => result'[d] = result[d]
        /\ d = cur => result'[d] = reply
    BY <1>0
  <2>1. Pending(d)' BY <1>1, <1>5, <2>0 DEF EInv, Pending
  <2>2. Progress(d)' BY <1>5, <2>0 DEF EInv, Progress
  <2>3. Honest(d)' BY <1>1, <1>5, <2>0 DEF EInv, Honest, PreWrite, Deliver
  <2>4. Once(d)' BY <1>1 DEF EInv, Once, BodyLine, pipe
  <2>5. QED BY <2>1, <2>2, <2>3, <2>4
<1>7. QED BY <1>3, <1>4, <1>6 DEF EInv

\* The command line, or a prefix of it, goes to the client.
LEMMA WriteEInv ==
  ASSUME EInv, TInv', UNCHANGED <<pc, reqState, result, ret, requests, cur, ran>>,
         cur \in Callers, dpc = "write",
         \E lines \in {<<>>, <<BodyLine(cur)>>, WireOf(cur)} : inbox' = inbox \o lines,
         dpc' = "collect" \/ (dpc' = "stopping" /\ out' # "notSent")
  PROVE  EInv'
<1>0. inbox \in Seq(Line) /\ BodyLine(cur) \in Line /\ NonceLine(cur) \in Line
      /\ NonceLine(cur) # BodyLine(cur)
  BY Values DEF EInv, TInv, TypeOK, Requests, BodyLine, NonceLine
<1>1. PICK lines \in {<<>>, <<BodyLine(cur)>>, WireOf(cur)} : inbox' = inbox \o lines
  OBVIOUS
<1>2. /\ Len(inbox') \in {Len(inbox), Len(inbox) + 1, Len(inbox) + 2} /\ Len(inbox) \in Nat
      /\ \A i \in 1..Len(inbox) : inbox'[i] = inbox[i]
      /\ Len(inbox') > Len(inbox) => inbox'[Len(inbox) + 1] = BodyLine(cur)
      /\ Len(inbox') > Len(inbox) + 1 => inbox'[Len(inbox) + 2] = NonceLine(cur)
  <2>1. CASE lines = <<>> BY <1>0, <1>1, <2>1
  <2>2. CASE lines = <<BodyLine(cur)>> BY <1>0, <1>1, <2>2
  <2>3. CASE lines = WireOf(cur) BY <1>0, <1>1, <2>3 DEF WireOf
  <2>4. QED BY <1>1, <2>1, <2>2, <2>3
<1>3. Held(cur) /\ reqState[cur] = "inFlight" BY DEF Held, AtRequest, EInv, Claimed
<1>4. ~Reached(cur) BY DEF EInv, Honest, PreWrite
<1>5. \A d \in Callers : d # cur => BodyLine(d) # BodyLine(cur) /\ BodyLine(d) # NonceLine(cur)
  BY DEF BodyLine, NonceLine
<1>6. \A d \in Callers : d # cur => (Sent(d)' <=> Sent(d)) BY <1>2, <1>5 DEF Sent, BodyLine
<1>7. \A d \in Callers : d # cur => (Reached(d)' <=> Reached(d)) BY <1>6 DEF Reached
<1>8. \A d \in Callers : (Queued(d)' <=> Queued(d)) /\ (Held(d)' <=> Held(d))
  BY DEF Queued, Held, AtRequest
<1>9. QueuedOnce' /\ HeldApart' BY <1>8 DEF EInv, QueuedOnce, HeldApart
<1>10. Claimed' /\ Stored' BY <1>3 DEF Claimed, Stored
<1>11. ran[cur] = 0 /\ \A i \in 1..Len(inbox) : inbox[i] # BodyLine(cur)
  BY <1>4 DEF Reached, Sent
<1>12. ASSUME NEW d \in Callers
       PROVE  Pending(d)' /\ Progress(d)' /\ Honest(d)' /\ Once(d)'
  <2>1. Pending(d)' BY <1>8 DEF EInv, Pending
  <2>2. Progress(d)' BY DEF EInv, Progress
  <2>3. CASE d = cur
    <3>1. ~Queued(cur) /\ result[cur] = NoReply /\ pc[cur] \notin Early /\ ret[cur].effect # "notSent"
      BY <1>3 DEF EInv, HeldApart, Pending, Progress
    <3>2. NoReply.effect # "notSent" BY DEF NoReply
    <3>3. Honest(d)' BY <1>3, <1>8, <2>3, <3>1, <3>2 DEF Honest, PreWrite, Deliver
    <3>4. \A i \in 1..Len(inbox') : inbox'[i] = BodyLine(cur) => i = Len(inbox) + 1
      BY <1>0, <1>2, <1>11
    <3>5. Once(d)' BY <1>11, <2>3, <3>4 DEF Once, BodyLine
    <3>6. QED BY <2>1, <2>2, <3>3, <3>5
  <2>4. CASE d # cur
    <3>1. Honest(d)' BY <1>7, <1>8, <2>4 DEF EInv, Honest
    <3>2. \A i \in 1..Len(inbox') : inbox'[i] = BodyLine(d) => i \in 1..Len(inbox) /\ inbox[i] = BodyLine(d)
      BY <1>2, <1>5, <2>4
    <3>3. Once(d)' BY <1>6, <2>4, <3>2 DEF EInv, Once, BodyLine
    <3>4. QED BY <2>1, <2>2, <3>1, <3>3
  <2>5. QED BY <2>3, <2>4
<1>13. QED BY <1>9, <1>10, <1>12 DEF EInv

\* The daemon executes or discards lines from the front of its input.
LEMMA DaemonEInv ==
  ASSUME EInv, TInv', UNCHANGED <<pc, reqState, result, ret, disp>>,
         inbox # <<>>, inbox' \in {Tail(inbox), <<>>},
         \/ ran' = ran
         \/ /\ Head(inbox).part = "body"
            /\ ran' = [ran EXCEPT ![Head(inbox).req] = @ + 1]
  PROVE  EInv'
<1>0. inbox \in Seq(Line) /\ ran \in [Requests -> Nat] BY DEF EInv, TInv, TypeOK
<1>1. /\ Len(inbox) > 0 /\ Head(inbox) = inbox[1] /\ inbox[1] \in Line
      /\ \A i \in 1..Len(inbox') : inbox'[i] = inbox[i + 1] /\ i + 1 \in 1..Len(inbox)
  <2>1. CASE inbox' = Tail(inbox) BY <1>0, <2>1
  <2>2. CASE inbox' = <<>> BY <1>0, <2>2
  <2>3. QED BY <2>1, <2>2
<1>2. \A d \in Callers : Sent(d)' => Sent(d) BY <1>1 DEF Sent, BodyLine
<1>3. \A d \in Callers :
         ran'[d] # ran[d] => inbox[1] = BodyLine(d) /\ ran'[d] = ran[d] + 1 /\ d \in Requests
  <2>1. CASE ran' = ran BY <2>1
  <2>2. CASE Head(inbox).part = "body" /\ ran' = [ran EXCEPT ![Head(inbox).req] = @ + 1]
    <3>1. inbox[1] = BodyLine(inbox[1].req) BY <1>1, <2>2 DEF Line, BodyLine
    <3>2. \A d \in Callers : d # inbox[1].req => ran'[d] = ran[d]
      BY <1>0, <1>1, <2>2 DEF Requests
    <3>3. inbox[1].req \in Requests BY <1>1 DEF Line
    <3>4. ran'[inbox[1].req] = ran[inbox[1].req] + 1 BY <1>0, <1>1, <2>2, <3>3
    <3>5. QED BY <3>1, <3>2, <3>3, <3>4
  <2>3. QED BY <2>1, <2>2
<1>4. \A d \in Callers : Reached(d)' => Reached(d) BY <1>1, <1>2, <1>3 DEF Reached, Sent
<1>5. \A d \in Callers : (Queued(d)' <=> Queued(d)) /\ (Held(d)' <=> Held(d))
  BY DEF Queued, Held, disp
<1>6. QueuedOnce' /\ HeldApart' /\ Claimed' /\ Stored'
  BY <1>5 DEF EInv, QueuedOnce, HeldApart, Claimed, Stored, disp
<1>7. ASSUME NEW d \in Callers
      PROVE  Pending(d)' /\ Progress(d)' /\ Honest(d)' /\ Once(d)'
  <2>1. Pending(d)' BY <1>5 DEF EInv, Pending
  <2>2. Progress(d)' BY DEF EInv, Progress
  <2>3. Honest(d)' BY <1>4, <1>5 DEF EInv, Honest, disp
  <2>4. \A i, j \in 1..Len(inbox') : inbox'[i] = BodyLine(d) /\ inbox'[j] = BodyLine(d) => i = j
    <3>1. SUFFICES ASSUME NEW i \in 1..Len(inbox'), NEW j \in 1..Len(inbox'),
                          inbox'[i] = BodyLine(d), inbox'[j] = BodyLine(d)
                   PROVE  i = j
      OBVIOUS
    <3>2. inbox[i + 1] = BodyLine(d) /\ inbox[j + 1] = BodyLine(d) BY <1>1, <3>1
    <3>3. i + 1 \in 1..Len(inbox) /\ j + 1 \in 1..Len(inbox) BY <1>1
    <3>4. i + 1 = j + 1 BY <3>2, <3>3 DEF EInv, Once
    <3>5. QED BY <3>4
  <2>5. CASE inbox[1] = BodyLine(d)
    <3>1. ran[d] = 0 BY <1>1, <2>5 DEF EInv, Once, Sent
    <3>2. \A i \in 1..Len(inbox') : inbox'[i] # BodyLine(d)
      <4>1. SUFFICES ASSUME NEW i \in 1..Len(inbox'), inbox'[i] = BodyLine(d) PROVE FALSE OBVIOUS
      <4>2. inbox[i + 1] = BodyLine(d) /\ i + 1 \in 1..Len(inbox) /\ 1 \in 1..Len(inbox)
        BY <1>0, <1>1, <4>1
      <4>3. 1 = i + 1 BY <2>5, <4>2 DEF EInv, Once
      <4>4. QED BY <4>3
    <3>3. ran'[d] \in {0, 1} BY <1>3, <3>1
    <3>4. ~Sent(d)' BY <3>2 DEF Sent, BodyLine
    <3>5. QED BY <2>1, <2>2, <2>3, <2>4, <3>3, <3>4 DEF Once, BodyLine
  <2>6. CASE inbox[1] # BodyLine(d)
    <3>1. ran'[d] = ran[d] BY <1>3, <2>6
    <3>2. Once(d)' BY <1>2, <2>4, <3>1 DEF EInv, Once, BodyLine
    <3>3. QED BY <2>1, <2>2, <2>3, <3>2
  <2>7. QED BY <2>5, <2>6
<1>8. QED BY <1>6, <1>7 DEF EInv

\* What Conclude leaves: the handshake is over, or a reply is ready that does not say "not sent".
LEMMA ConcludeShape ==
  ASSUME NEW ok \in BOOLEAN, Conclude(ok)
  PROVE  \/ dpc' \in {"idle", "exit"}
         \/ cur' = cur /\ dpc' = "release" /\ out' # "notSent"
<1>1. CASE cur = Hello
  <2>1. dpc' = (IF ok THEN "idle" ELSE "exit") BY <1>1 DEF Conclude
  <2>2. QED BY <2>1
<1>2. CASE cur # Hello
  <2>1. Prepare(IF ok THEN "confirmed" ELSE "unknown", "idle") /\ UNCHANGED cur
    BY <1>2 DEF Conclude
  <2>2. QED BY <2>1 DEF Prepare
<1>3. QED BY <1>1, <1>2

LEMMA DispatcherEInv ==
  ASSUME EInv, DispatcherStep
  PROVE  EInv'
<1> USE DEF queueVars, callerVars, dispVars, procVars, replyVars, DispatchKeeps
<1>0. TInv' BY DispatcherTInv DEF EInv
<1>1. CASE DispatchTake
  <2>1. UNCHANGED <<pc, reqState, result, ret, pipe>> BY <1>1 DEF DispatchTake, pipe
  <2>2. QED BY <1>0, <1>1, <2>1, TakeEInv DEF DispatchTake
<1>2. CASE DispatchCheckClosed
  <2>1. UNCHANGED <<pc, reqState, result, ret, pipe, requests>> /\ cur' = cur /\ dpc = "checkClosed"
    BY <1>2 DEF DispatchCheckClosed, pipe
  <2>2. dpc' = "checkDone" \/ (dpc' = "release" /\ out' = "notSent")
    BY <1>2 DEF DispatchCheckClosed, Prepare
  <2>3. QED BY <1>0, <2>1, <2>2, AdvanceEInv DEF PreWrite
<1>3. CASE DispatchCheckDone
  <2>1. UNCHANGED <<pc, reqState, result, ret, pipe, requests>> /\ cur' = cur /\ dpc = "checkDone"
    BY <1>3 DEF DispatchCheckDone, pipe
  <2>2. dpc' = "claim" \/ (dpc' = "release" /\ out' = "notSent")
    BY <1>3 DEF DispatchCheckDone, Prepare
  <2>3. QED BY <1>0, <2>1, <2>2, AdvanceEInv DEF PreWrite
<1>4. CASE DispatchClaim
  <2>1. UNCHANGED <<pc, result, ret, pipe, requests, cur>> /\ dpc = "claim" /\ cur \in Callers
    BY <1>4 DEF DispatchClaim, pipe, EInv, TInv, CurOK, AtRequest
  <2>2. CASE Claimable(cur)
    <3>1. reqState' = [reqState EXCEPT ![cur] = "inFlight"] /\ dpc' = "build" /\ out' = out
      BY <1>4, <2>2 DEF DispatchClaim
    <3>2. QED BY <1>0, <2>1, <2>2, <3>1, MarkEInv DEF Claimable
  <2>3. CASE ~Claimable(cur)
    <3>1. dpc' = "release" /\ out' = "notSent" /\ reqState' = reqState
      BY <1>4, <2>3 DEF DispatchClaim, Prepare
    <3>2. QED BY <1>0, <2>1, <3>1, AdvanceEInv DEF PreWrite
  <2>4. QED BY <2>2, <2>3
<1>5. CASE DispatchBuild
  <2>1. UNCHANGED <<pc, reqState, result, ret, pipe, requests>> /\ cur' = cur /\ dpc = "build"
    BY <1>5 DEF DispatchBuild, pipe
  <2>2. dpc' = "write" \/ (dpc' = "release" /\ out' = "notSent")
    BY <1>5 DEF DispatchBuild, Prepare
  <2>3. QED BY <1>0, <2>1, <2>2, AdvanceEInv DEF PreWrite
<1>6. CASE DispatchWrite \/ DispatchWriteFail
  <2>1. UNCHANGED <<pc, reqState, result, ret, requests, cur, ran>> /\ dpc = "write"
    BY <1>6 DEF DispatchWrite, DispatchWriteFail
  <2>2. cur \in Callers BY <2>1 DEF EInv, TInv, CurOK, AtRequest
  <2>3. \E lines \in {<<>>, <<BodyLine(cur)>>, WireOf(cur)} : inbox' = inbox \o lines
    BY <1>6 DEF DispatchWrite, DispatchWriteFail
  <2>4. dpc' = "collect" \/ (dpc' = "stopping" /\ out' # "notSent")
    BY <1>6 DEF DispatchWrite, DispatchWriteFail, WriteFailed
  <2>5. QED BY <1>0, <2>1, <2>2, <2>3, <2>4, WriteEInv
<1>7. CASE DispatchStopped \/ DeliverRelease
  <2>1. UNCHANGED <<pc, reqState, result, ret, pipe, requests>> /\ cur' = cur /\ out' = out
        /\ dpc \in {"stopping", "release"} /\ dpc' \in {"release", "store"}
    BY <1>7 DEF DispatchStopped, DeliverRelease, pipe
  <2>2. QED BY <1>0, <2>1, AdvanceEInv DEF Deliver
<1>8. CASE CollectFrame
  <2>1. UNCHANGED <<pc, reqState, result, ret, pipe, requests>> /\ dpc = "collect"
    BY <1>8 DEF CollectFrame, pipe
  <2>2. CASE Finishes(Head(frames))
    <3>1. PICK ok \in BOOLEAN : Conclude(ok) BY <1>8, <2>2 DEF CollectFrame
    <3>2. \/ dpc' \in {"idle", "exit"}
          \/ cur' = cur /\ dpc' = "release" /\ out' # "notSent"
      BY <3>1, ConcludeShape
    <3>3. QED BY <1>0, <2>1, <3>2, AdvanceEInv DEF AtRequest
  <2>3. CASE ~Finishes(Head(frames))
    <3>1. UNCHANGED <<dpc, cur, out>> BY <1>8, <2>3 DEF CollectFrame
    <3>2. UNCHANGED <<pc, reqState, result, ret, disp, pipe>> BY <2>1, <3>1 DEF disp
    <3>3. QED BY <1>0, <3>2, ElsewhereEInv
  <2>4. QED BY <2>2, <2>3
<1>9. CASE CollectStopped
  <2>1. UNCHANGED <<pc, reqState, result, ret, pipe, requests>> /\ dpc = "collect"
    BY <1>9 DEF CollectStopped, pipe
  <2>2. \/ dpc' \in {"idle", "exit"}
        \/ cur' = cur /\ dpc' = "release" /\ out' # "notSent"
    BY <1>9, ConcludeShape DEF CollectStopped
  <2>3. QED BY <1>0, <2>1, <2>2, AdvanceEInv DEF AtRequest
<1>10. CASE CollectDone
  <2>1. UNCHANGED <<pc, reqState, result, ret, disp, pipe>> BY <1>10 DEF CollectDone, disp, pipe
  <2>2. QED BY <1>0, <2>1, ElsewhereEInv
<1>11. CASE CollectTimeout
  <2>1. UNCHANGED <<pc, reqState, result, ret, pipe, requests>> /\ dpc = "collect"
    BY <1>11 DEF CollectTimeout, pipe
  <2>2. dpc' = "exit" \/ (cur' = cur /\ dpc' = "stopping" /\ out' # "notSent")
    BY <1>11 DEF CollectTimeout
  <2>3. QED BY <1>0, <2>1, <2>2, AdvanceEInv DEF AtRequest
<1>12. CASE DeliverStore
  <2>1. UNCHANGED <<pc, result, ret, pipe, requests, cur, out>> /\ dpc = "store" /\ dpc' = "send"
        /\ cur \in Callers /\ reqState' = [reqState EXCEPT ![cur] = "delivered"]
    BY <1>12 DEF DeliverStore, pipe, EInv, TInv, CurOK, AtRequest
  <2>2. QED BY <1>0, <2>1, MarkEInv
<1>13. CASE DeliverSend
  <2>1. UNCHANGED <<pc, reqState, ret, pipe, requests>> /\ dpc = "send" /\ cur \in Callers
        /\ dpc' = next /\ next \in {"idle", "exit", "drain"}
        /\ result' = [result EXCEPT ![cur] = [effect |-> out, units |-> got]]
    BY <1>13 DEF DeliverSend, pipe, EInv, TInv, TypeOK, CurOK, AtRequest
  <2>2. [effect |-> out, units |-> got].effect = out OBVIOUS
  <2>3. QED BY <1>0, <2>1, <2>2, SendEInv
<1>14. CASE DispatchLeave \/ DrainEnd
  <2>1. UNCHANGED <<pc, reqState, result, ret, pipe, requests>> /\ dpc' \in {"leaving", "done"}
    BY <1>14 DEF DispatchLeave, DrainEnd, pipe
  <2>2. QED BY <1>0, <2>1, AdvanceEInv DEF AtRequest
<1>15. CASE DrainTake
  <2>1. UNCHANGED <<pc, reqState, result, ret, pipe>> BY <1>15 DEF DrainTake, pipe
  <2>2. dpc' = "release" /\ out' = "notSent" BY <1>15 DEF DrainTake, Prepare
  <2>3. QED BY <1>0, <1>15, <2>1, <2>2, TakeEInv DEF DrainTake
<1>16. QED
  BY <1>1, <1>2, <1>3, <1>4, <1>5, <1>6, <1>7, <1>8, <1>9, <1>10, <1>11, <1>12, <1>13, <1>14,
     <1>15 DEF DispatcherStep

LEMMA OtherEInv ==
  ASSUME EInv, ReaderStep \/ StopStep \/ WorkStep \/ CloseStep \/ DaemonStep \/ ParentCancel
  PROVE  EInv'
<1> USE DEF queueVars, callerVars, dispVars, readerVars, procVars, replyVars
<1>0. TInv' BY OtherTInv DEF EInv
<1>1. CASE ReaderStep \/ StopStep \/ WorkStep \/ CloseStep \/ ParentCancel
  <2>1. UNCHANGED <<pc, reqState, result, ret, disp, pipe>>
    BY <1>1 DEF ReaderStep, StopStep, WorkStep, CloseStep, ParentCancel, ReaderRead, ReaderSend,
       ReaderQuit, ReaderFail, StopSignal, StopFinish, Finish, OpenerReady, OpenerCancelled,
       OpenerFailed, WorkerFire, WorkerEnd, CloseCall, CloseReturn, ReaderKeeps, OtherKeeps,
       disp, pipe
  <2>2. QED BY <1>0, <2>1, ElsewhereEInv
<1>2. CASE DaemonForeign \/ ClientEnd
  <2>1. UNCHANGED <<pc, reqState, result, ret, disp, pipe>>
    BY <1>2 DEF DaemonForeign, ClientEnd, EnvKeeps, disp, pipe
  <2>2. QED BY <1>0, <2>1, ElsewhereEInv
<1>3. CASE DaemonBody
  <2>1. UNCHANGED <<pc, reqState, result, ret, disp>> BY <1>3 DEF DaemonBody, EnvKeeps, disp
  <2>2. inbox # <<>> /\ Head(inbox).part = "body" /\ inbox' \in {Tail(inbox), <<>>}
        /\ ran' = [ran EXCEPT ![Head(inbox).req] = @ + 1]
    BY <1>3 DEF DaemonBody
  <2>3. QED BY <1>0, <2>1, <2>2, DaemonEInv
<1>4. CASE DaemonNonce
  <2>1. UNCHANGED <<pc, reqState, result, ret, disp>> BY <1>4 DEF DaemonNonce, EnvKeeps, disp
  <2>2. inbox # <<>> /\ inbox' = Tail(inbox) /\ ran' = ran BY <1>4 DEF DaemonNonce
  <2>3. QED BY <1>0, <2>1, <2>2, DaemonEInv
<1>5. QED BY <1>1, <1>2, <1>3, <1>4 DEF DaemonStep

LEMMA NextEInv == EInv /\ [Next]_vars => EInv'
<1>1. ASSUME EInv, UNCHANGED vars PROVE EInv'
  <2>1. TInv' BY <1>1, StutterTInv DEF EInv
  <2>2. UNCHANGED <<pc, reqState, result, ret, disp, pipe>>
    BY <1>1 DEF vars, queueVars, callerVars, dispVars, procVars, replyVars, disp, pipe
  <2>3. QED BY <1>1, <2>1, <2>2, ElsewhereEInv
<1>2. QED BY <1>1, CallerStepEInv, DispatcherEInv, OtherEInv DEF Next

\* A call that reports "not sent" is never executed, before or after it returns, and none is
\* executed twice: abortRequest's and dispatchRequest's compare-and-swaps exclude each other,
\* and every other path to "not sent" is taken before the write.
THEOREM EffectIsHonest == Spec => []EffectHonest
<1>1. EInv => EffectHonest BY DEF EInv, Once, Honest, Reached, EffectHonest
<1>2. QED BY InitEInv, NextEInv, <1>1, PTL DEF Spec

(***************************************************************************)
(* What is confirmed was executed.  The nonce follows the body through the *)
(* daemon, the reader, the frame channel and the dispatcher.               *)
(***************************************************************************)
Ack(c) == [req |-> c, kind |-> "nonce"]

AckedIn(s, c) == \A i \in 1..Len(s) : s[i] = Ack(c) => ran[c] # 0

Ordered(c) ==
    \A i \in 1..Len(inbox) :
        inbox[i] = NonceLine(c) => ran[c] # 0 \/ \E j \in 1..(i - 1) : inbox[j] = BodyLine(c)

AckedHere(c) ==
    /\ held = Ack(c) => ran[c] # 0
    /\ cur = c /\ dpc \in Deliver /\ out = "confirmed" => ran[c] # 0
    /\ result[c].effect = "confirmed" => ran[c] # 0
    /\ ret[c].effect = "confirmed" => ran[c] # 0

AInv ==
    /\ TInv
    /\ \A c \in Callers : Ordered(c) /\ AckedIn(wire, c) /\ AckedIn(frames, c) /\ AckedHere(c)

LEMMA InitAInv == Init => AInv
<1> SUFFICES ASSUME Init PROVE AInv OBVIOUS
<1>1. TInv BY InitTInv
<1>2. ASSUME NEW c \in Callers
      PROVE  Ordered(c) /\ AckedIn(wire, c) /\ AckedIn(frames, c) /\ AckedHere(c)
  <2>1. inbox = <<BodyLine(Hello), NonceLine(Hello)>> /\ c # Hello
    BY ConnAssumption DEF Init, WireOf
  <2>2. Ordered(c) BY <2>1 DEF Ordered, BodyLine, NonceLine
  <2>3. AckedIn(wire, c) /\ AckedIn(frames, c) BY DEF Init, AckedIn
  <2>4. AckedHere(c) BY DEF Init, AckedHere, Ack, NoUnit, NoReply
  <2>5. QED BY <2>2, <2>3, <2>4
<1>3. QED BY <1>1, <1>2 DEF AInv

\* A unit or a line that moves on, or one that leaves.
LEMMA AckedTail ==
  ASSUME NEW s, NEW S, s \in Seq(S), s # <<>>, NEW c, AckedIn(s, c)
  PROVE  AckedIn(Tail(s), c) /\ (Head(s) = Ack(c) => ran[c] # 0)
  BY DEF AckedIn

LEMMA AckedAppend ==
  ASSUME NEW s, NEW S, s \in Seq(S), NEW u \in S, NEW c, AckedIn(s, c), u = Ack(c) => ran[c] # 0
  PROVE  AckedIn(Append(s, u), c)
<1>1. Len(Append(s, u)) = Len(s) + 1 /\ Append(s, u)[Len(s) + 1] = u
      /\ \A i \in 1..Len(s) : Append(s, u)[i] = s[i]
  OBVIOUS
<1>2. QED BY <1>1 DEF AckedIn

\* A step that lets the lines and frames rest where they are.
LEMMA RestAInv ==
  ASSUME AInv, TInv', UNCHANGED <<inbox, ran, wire, frames, held>>,
         \A c \in Callers : AckedHere(c)'
  PROVE  AInv'
  BY DEF AInv, Ordered, AckedIn, Ack, BodyLine, NonceLine

LEMMA CallerAInv ==
  ASSUME AInv, NEW c \in Callers, CallerStep(c)
  PROVE  AInv'
<1> USE DEF queueVars, callerVars, dispVars, readerVars, procVars, replyVars
<1>0. TInv' BY CallerTInv DEF AInv
<1>1. ret \in [Callers -> Reply \cup {NoReply}] /\ result \in [Callers -> Reply \cup {NoReply}]
  BY DEF AInv, TInv, TypeOK
<1>2. Refused.effect # "confirmed" /\ Doubt.effect # "confirmed" /\ NoReply.effect # "confirmed"
  BY DEF Refused, Doubt, NoReply
<1>3. UNCHANGED <<inbox, ran, wire, frames, held, cur, dpc, out>>
  BY DEF CallerStep, Call, Expire, WatchStop, AcquireCount, AcquireBytes, AcquireFail, Enqueue,
     Receive, Abort, CheckDelivered, Withdraw
<1>4. CASE Receive(c)
  <2>1. ret' = [ret EXCEPT ![c] = result[c]] /\ result' = [result EXCEPT ![c] = NoReply]
    BY <1>4 DEF Receive, Return
  <2>2. \A d \in Callers : AckedHere(d)' BY <1>1, <1>2, <1>3, <2>1 DEF AInv, AckedHere, Ack
  <2>3. QED BY <1>0, <1>3, <2>2, RestAInv
<1>5. CASE ~Receive(c)
  <2>1. result' = result
    BY <1>5 DEF CallerStep, Call, Expire, WatchStop, AcquireCount, AcquireBytes, AcquireFail,
       Enqueue, Abort, CheckDelivered, Withdraw
  <2>2. \/ ret' = ret
        \/ ret' = [ret EXCEPT ![c] = Refused]
        \/ ret' = [ret EXCEPT ![c] = Doubt]
    BY <1>5 DEF CallerStep, Call, Expire, WatchStop, AcquireCount, AcquireBytes, AcquireFail,
       Enqueue, Abort, CheckDelivered, Withdraw, Return
  <2>3. \A d \in Callers : ret'[d] = ret[d] \/ ret'[d].effect # "confirmed"
    BY <1>1, <1>2, <2>2
  <2>4. \A d \in Callers : AckedHere(d)' BY <1>3, <2>1, <2>3 DEF AInv, AckedHere, Ack
  <2>5. QED BY <1>0, <1>3, <2>4, RestAInv
<1>6. QED BY <1>4, <1>5

LEMMA DispatcherAInv ==
  ASSUME AInv, DispatcherStep
  PROVE  AInv'
<1> USE DEF queueVars, callerVars, dispVars, readerVars, procVars, replyVars, DispatchKeeps
<1>0. TInv' /\ NoReply.effect # "confirmed" BY DispatcherTInv DEF AInv, NoReply
<1>1. CASE DispatchWrite \/ DispatchWriteFail
  <2>1. PICK lines \in {<<>>, <<BodyLine(cur)>>, WireOf(cur)} : inbox' = inbox \o lines
    BY <1>1 DEF DispatchWrite, DispatchWriteFail
  <2>2. UNCHANGED <<ran, wire, frames, held, ret, result, cur>>
        /\ (dpc' \in Deliver => out' # "confirmed")
    BY <1>1 DEF DispatchWrite, DispatchWriteFail, WriteFailed, Deliver
  <2>3. ASSUME NEW c \in Callers PROVE Ordered(c)'
    <3>0. inbox \in Seq(Line) /\ BodyLine(cur) \in Line /\ NonceLine(cur) \in Line
          /\ NonceLine(cur) # BodyLine(cur)
      BY Values DEF AInv, TInv, TypeOK, BodyLine, NonceLine
    <3>1. /\ Len(inbox') \in {Len(inbox), Len(inbox) + 1, Len(inbox) + 2} /\ Len(inbox) \in Nat
          /\ \A i \in 1..Len(inbox) : inbox'[i] = inbox[i]
          /\ Len(inbox') > Len(inbox) => inbox'[Len(inbox) + 1] = BodyLine(cur)
          /\ Len(inbox') > Len(inbox) + 1 => inbox'[Len(inbox) + 2] = NonceLine(cur)
      <4>1. CASE lines = <<>> BY <2>1, <3>0, <4>1
      <4>2. CASE lines = <<BodyLine(cur)>> BY <2>1, <3>0, <4>2
      <4>3. CASE lines = WireOf(cur) BY <2>1, <3>0, <4>3 DEF WireOf
      <4>4. QED BY <2>1, <4>1, <4>2, <4>3
    <3>2. ASSUME NEW i \in 1..Len(inbox'), inbox'[i] = NonceLine(c), ran[c] = 0
          PROVE  \E j \in 1..(i - 1) : inbox'[j] = BodyLine(c)
      <4>1. CASE i \in 1..Len(inbox)
        <5>1. inbox[i] = NonceLine(c) BY <3>1, <3>2, <4>1
        <5>2. PICK j \in 1..(i - 1) : inbox[j] = BodyLine(c)
          BY <3>2, <4>1, <5>1 DEF AInv, Ordered
        <5>3. j \in 1..Len(inbox) BY <4>1
        <5>4. QED BY <3>1, <5>2, <5>3
      <4>2. CASE i \notin 1..Len(inbox)
        <5>1. i = Len(inbox) + 1 \/ i = Len(inbox) + 2 BY <3>1, <4>2
        <5>2. BodyLine(cur) # NonceLine(c) BY DEF BodyLine, NonceLine
        <5>3. i = Len(inbox) + 2 /\ inbox'[i] = NonceLine(cur) /\ inbox'[Len(inbox) + 1] = BodyLine(cur)
          BY <3>1, <3>2, <5>1, <5>2
        <5>4. c = cur BY <3>2, <5>3 DEF NonceLine
        <5>5. QED BY <3>1, <5>3, <5>4
      <4>3. QED BY <4>1, <4>2
    <3>3. QED BY <2>2, <3>2 DEF Ordered, BodyLine, NonceLine
  <2>4. \A c \in Callers : AckedIn(wire, c)' /\ AckedIn(frames, c)' /\ AckedHere(c)'
    BY <2>2 DEF AInv, AckedIn, AckedHere, Ack
  <2>5. QED BY <1>0, <2>3, <2>4 DEF AInv
<1>2. CASE CollectFrame
  <2>1. UNCHANGED <<inbox, ran, wire, held, ret, result>> /\ frames' = Tail(frames)
        /\ frames # <<>> /\ dpc = "collect"
    BY <1>2 DEF CollectFrame
  <2>2. frames \in Seq(Unit) /\ Head(frames) \in Unit BY <2>1 DEF AInv, TInv, TypeOK
  <2>3. \A c \in Callers : AckedIn(frames, c)' /\ (Head(frames) = Ack(c) => ran[c] # 0)
    <3>1. ASSUME NEW c \in Callers PROVE AckedIn(Tail(frames), c) /\ (Head(frames) = Ack(c) => ran[c] # 0)
      BY <2>1, <2>2, AckedTail DEF AInv
    <3>2. QED BY <2>1, <3>1 DEF AckedIn, Ack
  <2>4. ASSUME NEW c \in Callers PROVE AckedHere(c)'
    <3>1. CASE Finishes(Head(frames))
      <4>1. Head(frames) = Ack(cur) BY <2>2, <3>1 DEF Finishes, Unit, Ack
      <4>2. PICK ok \in BOOLEAN : Conclude(ok) BY <1>2, <3>1 DEF CollectFrame
      <4>3. dpc' \in {"idle", "exit"} \/ cur' = cur BY <4>2, ConcludeShape
      <4>4. QED BY <2>1, <2>3, <4>1, <4>3 DEF AInv, AckedHere, Ack, Deliver
    <3>2. CASE ~Finishes(Head(frames))
      <4>1. UNCHANGED <<dpc, cur, out>> BY <1>2, <3>2 DEF CollectFrame
      <4>2. QED BY <2>1, <4>1 DEF AInv, AckedHere, Ack, Deliver
    <3>3. QED BY <3>1, <3>2
  <2>5. QED BY <1>0, <2>1, <2>3, <2>4 DEF AInv, Ordered, AckedIn, BodyLine, NonceLine, Ack
<1>3. CASE DeliverSend
  <2>1. UNCHANGED <<inbox, ran, wire, frames, held, ret>> /\ dpc = "send"
        /\ dpc' \in {"idle", "exit", "drain"}
        /\ result' = [result EXCEPT ![cur] = [effect |-> out, units |-> got]]
    BY <1>3 DEF DeliverSend, AInv, TInv, TypeOK
  <2>2. result \in [Callers -> Reply \cup {NoReply}] /\ cur \in Callers
    BY <2>1 DEF AInv, TInv, TypeOK, CurOK, AtRequest
  <2>3. \A c \in Callers : c # cur => result'[c] = result[c] BY <2>1, <2>2
  <2>4. result'[cur].effect = out BY <2>1, <2>2
  <2>5. \A c \in Callers : AckedHere(c)'
    BY <2>1, <2>3, <2>4 DEF AInv, AckedHere, Ack, Deliver
  <2>6. QED BY <1>0, <2>1, <2>5, RestAInv
<1>4. CASE CollectStopped
  <2>1. UNCHANGED <<inbox, ran, wire, frames, held, ret, result>> /\ Conclude(FALSE)
    BY <1>4 DEF CollectStopped
  <2>2. dpc' \in {"idle", "exit"} \/ out' = "unknown"
    <3>1. CASE cur = Hello BY <2>1, <3>1 DEF Conclude
    <3>2. CASE cur # Hello
      <4>1. Prepare("unknown", "idle") BY <2>1, <3>2 DEF Conclude
      <4>2. QED BY <4>1 DEF Prepare
    <3>3. QED BY <3>1, <3>2
  <2>3. \A c \in Callers : AckedHere(c)' BY <2>1, <2>2 DEF AInv, AckedHere, Ack, Deliver
  <2>4. QED BY <1>0, <2>1, <2>3, RestAInv
<1>5. CASE DispatchStopped \/ DeliverRelease \/ DeliverStore \/ CollectDone
  <2>1. UNCHANGED <<inbox, ran, wire, frames, held, ret, result, cur, out>>
    BY <1>5 DEF DispatchStopped, DeliverRelease, DeliverStore, CollectDone
  <2>2. dpc' \in Deliver => dpc \in Deliver
    BY <1>5 DEF DispatchStopped, DeliverRelease, DeliverStore, CollectDone, Deliver
  <2>3. \A c \in Callers : AckedHere(c)' BY <2>1, <2>2 DEF AInv, AckedHere, Ack
  <2>4. QED BY <1>0, <2>1, <2>3, RestAInv
<1>6. CASE \/ DispatchTake \/ DispatchCheckClosed \/ DispatchCheckDone \/ DispatchClaim
           \/ DispatchBuild \/ CollectTimeout \/ DispatchLeave \/ DrainTake \/ DrainEnd
  <2>1. UNCHANGED <<inbox, ran, wire, frames, held, ret, result>>
    BY <1>6 DEF DispatchTake, DispatchCheckClosed, DispatchCheckDone, DispatchClaim, DispatchBuild,
       CollectTimeout, DispatchLeave, DrainTake, DrainEnd
  <2>2. dpc' \notin Deliver \/ out' # "confirmed"
    BY <1>6 DEF DispatchTake, DispatchCheckClosed, DispatchCheckDone, DispatchClaim, DispatchBuild,
       CollectTimeout, DispatchLeave, DrainTake, DrainEnd, Prepare, Deliver
  <2>3. \A c \in Callers : AckedHere(c)' BY <2>1, <2>2 DEF AInv, AckedHere, Ack
  <2>4. QED BY <1>0, <2>1, <2>3, RestAInv
<1>7. QED BY <1>1, <1>2, <1>3, <1>4, <1>5, <1>6 DEF DispatcherStep

\* The output of the client grows by units that are nobody's nonce, or by the nonce of an
\* executed command.
LEMMA EmitAcked ==
  ASSUME wire \in Seq(Unit), NEW u \in Unit, Emit(<<u>>), ran' = ran,
         NEW c, AckedIn(wire, c), u = Ack(c) => ran[c] # 0
  PROVE  AckedIn(wire, c)'
<1>1. wire' = wire \/ wire' = wire \o <<u>> BY DEF Emit
<1>2. CASE wire' = wire BY <1>2 DEF AckedIn, Ack
<1>3. CASE wire' = wire \o <<u>>
  <2>1. wire' = Append(wire, u) BY <1>3
  <2>2. AckedIn(Append(wire, u), c) BY AckedAppend
  <2>3. QED BY <2>1, <2>2 DEF AckedIn, Ack
<1>4. QED BY <1>1, <1>2, <1>3

LEMMA NonceAInv ==
  ASSUME AInv, DaemonNonce
  PROVE  AInv'
<1>0. TInv' BY OtherTInv DEF AInv, DaemonStep
<1>1. inbox \in Seq(Line) /\ inbox # <<>> /\ inbox' = Tail(inbox) /\ wire \in Seq(Unit)
      /\ Head(inbox) \in Line /\ Head(inbox).part = "nonce"
  BY DEF DaemonNonce, AInv, TInv, TypeOK
<1>2. UNCHANGED <<ran, frames, held, cur, dpc, out, ret, result>>
  BY DEF DaemonNonce, EnvKeeps, dispVars, callerVars, replyVars, readerVars
<1>3. /\ Len(inbox) > 0 /\ inbox[1] = NonceLine(inbox[1].req) /\ inbox[1].req \in Requests
      /\ Head(inbox) = inbox[1]
      /\ \A i \in 1..Len(inbox') : inbox'[i] = inbox[i + 1] /\ i + 1 \in 1..Len(inbox)
  BY <1>1 DEF Line, NonceLine
<1>4. Emit(<<Ack(inbox[1].req)>>) BY <1>3 DEF DaemonNonce, Ack
<1>5. Ack(inbox[1].req) \in Unit BY <1>3, Values DEF Ack, UnitKinds
<1>6. ASSUME NEW c \in Callers
      PROVE  Ordered(c)' /\ AckedIn(wire, c)' /\ AckedIn(frames, c)' /\ AckedHere(c)'
  <2>1. Ack(inbox[1].req) = Ack(c) => ran[c] # 0
    <3>1. SUFFICES ASSUME Ack(inbox[1].req) = Ack(c) PROVE ran[c] # 0 OBVIOUS
    <3>2. inbox[1] = NonceLine(c) BY <1>3, <3>1 DEF Ack
    <3>3. 1 \in 1..Len(inbox) BY <1>1, <1>3
    <3>4. ran[c] # 0 \/ \E j \in 1..(1 - 1) : inbox[j] = BodyLine(c)
      BY <3>2, <3>3 DEF AInv, Ordered
    <3>5. QED BY <3>4
  <2>2. AckedIn(wire, c)' BY <1>1, <1>2, <1>4, <1>5, <2>1, EmitAcked DEF AInv
  <2>3. AckedIn(frames, c)' /\ AckedHere(c)' BY <1>2 DEF AInv, AckedIn, AckedHere, Ack
  <2>4. ASSUME NEW i \in 1..Len(inbox'), inbox'[i] = NonceLine(c), ran[c] = 0
        PROVE  \E j \in 1..(i - 1) : inbox'[j] = BodyLine(c)
    <3>1. inbox[i + 1] = NonceLine(c) /\ i + 1 \in 1..Len(inbox) BY <1>3, <2>4
    <3>2. PICK j \in 1..((i + 1) - 1) : inbox[j] = BodyLine(c)
      BY <2>4, <3>1 DEF AInv, Ordered
    <3>3. j # 1 BY <1>3, <3>2 DEF BodyLine, NonceLine
    <3>4. j - 1 \in 1..(i - 1) /\ j - 1 \in 1..Len(inbox') /\ (j - 1) + 1 = j BY <1>1, <3>2, <3>3
    <3>5. inbox'[j - 1] = inbox[j] BY <1>3, <3>4
    <3>6. QED BY <3>2, <3>4, <3>5
  <2>5. Ordered(c)' BY <1>2, <2>4 DEF Ordered, BodyLine, NonceLine
  <2>6. QED BY <2>2, <2>3, <2>5
<1>7. QED BY <1>0, <1>6 DEF AInv

LEMMA BodyAInv ==
  ASSUME AInv, DaemonBody
  PROVE  AInv'
<1>0. TInv' BY OtherTInv DEF AInv, DaemonStep
<1>1. inbox \in Seq(Line) /\ inbox # <<>> /\ inbox' \in {Tail(inbox), <<>>} /\ wire \in Seq(Unit)
      /\ Head(inbox) \in Line /\ Head(inbox).part = "body" /\ ran \in [Requests -> Nat]
      /\ ran' = [ran EXCEPT ![Head(inbox).req] = @ + 1]
  BY DEF DaemonBody, AInv, TInv, TypeOK
<1>2. UNCHANGED <<frames, held, cur, dpc, out, ret, result>>
  BY DEF DaemonBody, EnvKeeps, dispVars, callerVars, replyVars, readerVars
<1>3. /\ Len(inbox) > 0 /\ inbox[1] = BodyLine(inbox[1].req) /\ inbox[1].req \in Requests
      /\ Head(inbox) = inbox[1]
  BY <1>1 DEF Line, BodyLine
<1>4. \A i \in 1..Len(inbox') : inbox'[i] = inbox[i + 1] /\ i + 1 \in 1..Len(inbox)
                                /\ Len(inbox') = Len(inbox) - 1
  <2>1. CASE inbox' = Tail(inbox) BY <1>1, <2>1
  <2>2. CASE inbox' = <<>> BY <1>1, <2>2
  <2>3. QED BY <1>1, <2>1, <2>2
<1>5. \A c \in Callers : ran[c] # 0 => ran'[c] # 0
  <2>1. ASSUME NEW c \in Callers PROVE ran'[c] \in {ran[c], ran[c] + 1} /\ ran[c] \in Nat
    BY <1>1 DEF Requests
  <2>2. QED BY <2>1
<1>6. \A c \in Callers : inbox[1] = BodyLine(c) => ran'[c] # 0
  <2>1. ran'[inbox[1].req] = ran[inbox[1].req] + 1 /\ ran[inbox[1].req] \in Nat BY <1>1, <1>3
  <2>2. \A c \in Callers : inbox[1] = BodyLine(c) => c = inbox[1].req BY DEF BodyLine
  <2>3. QED BY <2>1, <2>2
<1>7. \/ wire' = wire
      \/ \E u \in Unit : u.kind # "nonce" /\ wire' = Append(wire, u)
      \/ \E u \in Unit : u.kind # "nonce" /\ wire' = Append(Append(wire, u), NoUnit)
  <2>1. \/ \E k \in {"out", "big", "fail"} : Emit(<<[req |-> Head(inbox).req, kind |-> k]>>)
        \/ Emit(<<[req |-> Head(inbox).req, kind |-> "fail"], NoUnit>>)
    BY DEF DaemonBody
  <2>2. CASE \E k \in {"out", "big", "fail"} : Emit(<<[req |-> Head(inbox).req, kind |-> k]>>)
    <3>1. PICK k \in {"out", "big", "fail"} : Emit(<<[req |-> Head(inbox).req, kind |-> k]>>)
      BY <2>2
    <3>2. [req |-> Head(inbox).req, kind |-> k] \in Unit BY <1>3, Values DEF UnitKinds
    <3>3. wire \o <<[req |-> Head(inbox).req, kind |-> k]>>
          = Append(wire, [req |-> Head(inbox).req, kind |-> k])
      BY <1>1, <3>2
    <3>4. wire' = wire \/ wire' = Append(wire, [req |-> Head(inbox).req, kind |-> k])
      BY <3>1, <3>3 DEF Emit
    <3>5. QED BY <3>2, <3>4
  <2>3. CASE Emit(<<[req |-> Head(inbox).req, kind |-> "fail"], NoUnit>>)
    <3>1. [req |-> Head(inbox).req, kind |-> "fail"] \in Unit /\ NoUnit \in Unit
      BY <1>3, Values DEF UnitKinds
    <3>2. wire \o <<[req |-> Head(inbox).req, kind |-> "fail"], NoUnit>>
          = Append(Append(wire, [req |-> Head(inbox).req, kind |-> "fail"]), NoUnit)
      BY <1>1, <3>1
    <3>3. QED BY <2>3, <3>1, <3>2 DEF Emit
  <2>4. QED BY <2>1, <2>2, <2>3
<1>8. ASSUME NEW c \in Callers
      PROVE  Ordered(c)' /\ AckedIn(wire, c)' /\ AckedIn(frames, c)' /\ AckedHere(c)'
  <2>1. AckedIn(wire', c)
    <3>1. AckedIn(wire, c) BY DEF AInv
    <3>2. CASE wire' = wire BY <3>1, <3>2
    <3>3. ASSUME NEW u \in Unit, u.kind # "nonce" PROVE AckedIn(Append(wire, u), c)
      <4>1. u # Ack(c) BY <3>3 DEF Ack
      <4>2. QED BY <1>1, <3>1, <4>1, AckedAppend
    <3>4. ASSUME NEW u \in Unit, u.kind # "nonce" PROVE AckedIn(Append(Append(wire, u), NoUnit), c)
      <4>1. Append(wire, u) \in Seq(Unit) /\ AckedIn(Append(wire, u), c) BY <1>1, <3>3, <3>4
      <4>2. NoUnit \in Unit /\ NoUnit # Ack(c) BY Values DEF NoUnit, Ack
      <4>3. QED BY <4>1, <4>2, AckedAppend
    <3>5. QED BY <1>7, <3>2, <3>3, <3>4
  <2>2. AckedIn(wire, c)' BY <1>5, <2>1 DEF AckedIn, Ack
  <2>3. AckedIn(frames, c)' /\ AckedHere(c)' BY <1>2, <1>5 DEF AInv, AckedIn, AckedHere, Ack
  <2>4. ASSUME NEW i \in 1..Len(inbox'), inbox'[i] = NonceLine(c), ran'[c] = 0
        PROVE  \E j \in 1..(i - 1) : inbox'[j] = BodyLine(c)
    <3>1. inbox[i + 1] = NonceLine(c) /\ i + 1 \in 1..Len(inbox) BY <1>4, <2>4
    <3>2. ran[c] = 0 BY <1>5, <2>4
    <3>3. PICK j \in 1..((i + 1) - 1) : inbox[j] = BodyLine(c)
      BY <3>1, <3>2 DEF AInv, Ordered
    <3>4. j # 1 BY <1>6, <2>4, <3>3
    <3>5. j - 1 \in 1..(i - 1) /\ j - 1 \in 1..Len(inbox') /\ (j - 1) + 1 = j
      BY <1>1, <1>4, <2>4, <3>3, <3>4
    <3>6. inbox'[j - 1] = inbox[j] BY <1>4, <3>5
    <3>7. QED BY <3>3, <3>5, <3>6
  <2>5. Ordered(c)' BY <2>4 DEF Ordered, BodyLine, NonceLine
  <2>6. QED BY <2>2, <2>3, <2>5
<1>9. QED BY <1>0, <1>8 DEF AInv

LEMMA OtherAInv ==
  ASSUME AInv, ReaderStep \/ StopStep \/ WorkStep \/ CloseStep \/ DaemonStep \/ ParentCancel
  PROVE  AInv'
<1> USE DEF queueVars, callerVars, dispVars, readerVars, procVars, replyVars
<1>0. TInv' BY OtherTInv DEF AInv
<1>1. wire \in Seq(Unit) /\ frames \in Seq(Unit) /\ held \in Unit BY DEF AInv, TInv, TypeOK
<1>2. \A c \in Callers : NoUnit # Ack(c) BY DEF NoUnit, Ack
<1>3. CASE ReaderRead
  <2>1. UNCHANGED <<inbox, ran, frames, ret, result, cur, dpc, out>> /\ wire # <<>>
        /\ wire' = Tail(wire) /\ held' \in {NoUnit, Head(wire)}
    BY <1>3 DEF ReaderRead, ReaderKeeps
  <2>2. ASSUME NEW c \in Callers
        PROVE  AckedIn(Tail(wire), c) /\ (Head(wire) = Ack(c) => ran[c] # 0)
    BY <1>1, <2>1, AckedTail DEF AInv
  <2>3. \A c \in Callers : AckedIn(wire, c)' /\ AckedHere(c)'
    BY <1>2, <2>1, <2>2 DEF AInv, AckedIn, AckedHere, Ack
  <2>4. QED BY <1>0, <2>1, <2>3 DEF AInv, Ordered, AckedIn, BodyLine, NonceLine, Ack
<1>4. CASE ReaderSend
  <2>1. UNCHANGED <<inbox, ran, wire, ret, result, cur, dpc, out>>
        /\ frames' = Append(frames, held) /\ held' = NoUnit
    BY <1>4 DEF ReaderSend, ReaderKeeps
  <2>2. ASSUME NEW c \in Callers PROVE AckedIn(Append(frames, held), c)
    BY <1>1, AckedAppend DEF AInv, AckedHere
  <2>3. \A c \in Callers : AckedIn(frames, c)' /\ AckedHere(c)'
    BY <1>2, <2>1, <2>2 DEF AInv, AckedIn, AckedHere, Ack
  <2>4. QED BY <1>0, <2>1, <2>3 DEF AInv, Ordered, AckedIn, BodyLine, NonceLine, Ack
<1>5. CASE ReaderQuit \/ ReaderFail
  <2>1. UNCHANGED <<inbox, ran, wire, frames, ret, result, cur, dpc, out>> /\ held' \in {held, NoUnit}
    BY <1>5 DEF ReaderQuit, ReaderFail, ReaderKeeps
  <2>2. \A c \in Callers : AckedHere(c)' BY <1>2, <2>1 DEF AInv, AckedHere, Ack
  <2>3. QED BY <1>0, <2>1, <2>2 DEF AInv, Ordered, AckedIn, BodyLine, NonceLine, Ack
<1>6. CASE StopStep \/ WorkStep \/ CloseStep \/ ParentCancel
  <2>1. UNCHANGED <<inbox, ran, wire, frames, held, ret, result, cur, dpc, out>>
    BY <1>6 DEF StopStep, WorkStep, CloseStep, ParentCancel, StopSignal, StopFinish, Finish,
       OpenerReady, OpenerCancelled, OpenerFailed, WorkerFire, WorkerEnd, CloseCall, CloseReturn,
       OtherKeeps
  <2>2. \A c \in Callers : AckedHere(c)' BY <2>1 DEF AInv, AckedHere, Ack
  <2>3. QED BY <1>0, <2>1, <2>2, RestAInv
<1>7. CASE DaemonForeign \/ ClientEnd
  <2>1. UNCHANGED <<inbox, ran, frames, held, ret, result, cur, dpc, out>>
    BY <1>7 DEF DaemonForeign, ClientEnd, EnvKeeps
  <2>2. PICK u \in Unit : u.kind # "nonce" /\ (wire' = wire \/ wire' = Append(wire, u))
    <3>1. CASE DaemonForeign
      <4>1. [req |-> NoOne, kind |-> "foreign"] \in Unit BY Values DEF UnitKinds
      <4>2. wire \o <<[req |-> NoOne, kind |-> "foreign"]>>
            = Append(wire, [req |-> NoOne, kind |-> "foreign"])
        BY <1>1, <4>1
      <4>3. QED BY <3>1, <4>1, <4>2 DEF DaemonForeign, Emit
    <3>2. CASE ClientEnd
      <4>1. NoUnit \in Unit /\ NoUnit.kind # "nonce" BY Values DEF NoUnit
      <4>2. wire' = wire \/ wire' = Append(wire, NoUnit) BY <3>2 DEF ClientEnd
      <4>3. QED BY <4>1, <4>2
    <3>3. QED BY <1>7, <3>1, <3>2
  <2>3. ASSUME NEW c \in Callers PROVE AckedIn(wire', c)
    <3>1. u # Ack(c) /\ AckedIn(wire, c) BY <2>2 DEF Ack, AInv
    <3>2. AckedIn(Append(wire, u), c) BY <1>1, <3>1, AckedAppend
    <3>3. QED BY <2>2, <3>1, <3>2
  <2>4. \A c \in Callers : AckedIn(wire, c)' /\ AckedHere(c)'
    BY <2>1, <2>3 DEF AInv, AckedIn, AckedHere, Ack
  <2>5. QED BY <1>0, <2>1, <2>4 DEF AInv, Ordered, AckedIn, BodyLine, NonceLine, Ack
<1>8. QED BY <1>3, <1>4, <1>5, <1>6, <1>7, NonceAInv, BodyAInv DEF ReaderStep, DaemonStep

LEMMA NextAInv == AInv /\ [Next]_vars => AInv'
<1>1. ASSUME AInv, UNCHANGED vars PROVE AInv'
  <2>1. TInv' BY <1>1, StutterTInv DEF AInv
  <2>2. UNCHANGED <<inbox, ran, wire, frames, held, ret, result, cur, dpc, out>>
    BY <1>1 DEF vars, queueVars, callerVars, dispVars, readerVars, procVars, replyVars
  <2>3. \A c \in Callers : AckedHere(c)' BY <1>1, <2>2 DEF AInv, AckedHere, Ack
  <2>4. QED BY <1>1, <2>1, <2>2, <2>3, RestAInv
<1>2. QED BY <1>1, CallerAInv, DispatcherAInv, OtherAInv DEF Next

(***************************************************************************)
(* Refinement: ControlConn keeps the promise of RequestPromise.            *)
(***************************************************************************)
PhaseOf(p) == CASE p = "idle" -> "idle" [] p = "returned" -> "returned" [] OTHER -> "called"

phaseBar   == [c \in Callers |-> PhaseOf(pc[c])]
execsBar   == [c \in Callers |-> ran[c]]
outcomeBar == [c \in Callers |-> ret[c].effect]

PromiseStep(c) ==
    \/ /\ phaseBar[c] = "idle" /\ phaseBar' = [phaseBar EXCEPT ![c] = "called"]
       /\ execsBar' = execsBar /\ outcomeBar' = outcomeBar
    \/ /\ phaseBar[c] # "idle" /\ execsBar[c] = 0 /\ outcomeBar[c] \in {"none", "unknown"}
       /\ execsBar' = [execsBar EXCEPT ![c] = 1]
       /\ phaseBar' = phaseBar /\ outcomeBar' = outcomeBar
    \/ /\ phaseBar[c] # "returned" /\ phaseBar' = [phaseBar EXCEPT ![c] = "returned"]
       /\ \E e \in {"unknown"} \cup (IF execsBar[c] = 0 THEN {"notSent"} ELSE {"confirmed"}) :
             outcomeBar' = [outcomeBar EXCEPT ![c] = e]
       /\ execsBar' = execsBar

PromiseStill == phaseBar' = phaseBar /\ execsBar' = execsBar /\ outcomeBar' = outcomeBar

LEMMA PromiseInit == Init => Promise!Init
<1> SUFFICES ASSUME Init PROVE Promise!Init OBVIOUS
<1>1. \A c \in Callers : pc[c] = "idle" /\ ran[c] = 0 /\ ret[c] = NoReply
  BY DEF Init, Requests
<1>2. QED BY <1>1 DEF Promise!Init, NoReply

\* A call that stays in its phase, starts or returns.
LEMMA CallerPromise ==
  ASSUME EInv, AInv, NEW c \in Callers, CallerStep(c)
  PROVE  PromiseStep(c) \/ PromiseStill
<1> USE DEF queueVars, callerVars, dispVars, readerVars, procVars, replyVars
<1>0. /\ pc \in [Callers -> {"idle", "count", "bytes", "enqueue", "wait", "abort", "withdraw",
                             "abortLast", "receive", "returned"}]
      /\ ret \in [Callers -> Reply \cup {NoReply}] /\ result \in [Callers -> Reply \cup {NoReply}]
  BY DEF EInv, TInv, TypeOK
<1>1. ran' = ran /\ execsBar' = execsBar
  <2>1. ran' = ran
    BY DEF CallerStep, Call, Expire, WatchStop, AcquireCount, AcquireBytes, AcquireFail, Enqueue,
       Receive, Abort, CheckDelivered, Withdraw
  <2>2. QED BY <2>1 DEF execsBar
<1>2. ASSUME UNCHANGED <<pc, ret>> PROVE PromiseStill
  BY <1>1, <1>2 DEF PromiseStill, phaseBar, outcomeBar
<1>3. ASSUME NEW p \in {"count", "bytes", "enqueue", "wait", "abort", "withdraw", "abortLast",
                        "receive"},
             pc[c] # "returned", pc' = [pc EXCEPT ![c] = p], ret' = ret
      PROVE  PromiseStep(c) \/ PromiseStill
  <2>1. outcomeBar' = outcomeBar BY <1>3 DEF outcomeBar
  <2>2. CASE pc[c] = "idle"
    <3>1. phaseBar[c] = "idle" BY <2>2 DEF phaseBar, PhaseOf
    <3>2. phaseBar' = [phaseBar EXCEPT ![c] = "called"] BY <1>0, <1>3 DEF phaseBar, PhaseOf
    <3>3. QED BY <1>1, <2>1, <3>1, <3>2 DEF PromiseStep
  <2>3. CASE pc[c] # "idle"
    <3>1. phaseBar' = phaseBar BY <1>0, <1>3, <2>3 DEF phaseBar, PhaseOf
    <3>2. QED BY <1>1, <2>1, <3>1 DEF PromiseStill
  <2>4. QED BY <2>2, <2>3
<1>4. ASSUME NEW reply, pc[c] # "returned", Return(c, reply),
             reply.effect \in {"unknown"} \cup (IF ran[c] = 0 THEN {"notSent"} ELSE {"confirmed"})
      PROVE  PromiseStep(c)
  <2>1. phaseBar[c] # "returned" /\ execsBar[c] = ran[c] BY <1>4 DEF phaseBar, PhaseOf, execsBar
  <2>2. pc' = [pc EXCEPT ![c] = "returned"] /\ ret' = [ret EXCEPT ![c] = reply]
    BY <1>4 DEF Return
  <2>3. phaseBar' = [phaseBar EXCEPT ![c] = "returned"] BY <1>0, <2>2 DEF phaseBar, PhaseOf
  <2>4. outcomeBar' = [outcomeBar EXCEPT ![c] = reply.effect] BY <1>0, <2>2 DEF outcomeBar
  <2>5. QED BY <1>1, <1>4, <2>1, <2>3, <2>4 DEF PromiseStep
<1>5. ASSUME Return(c, Refused), ran[c] = 0, pc[c] # "returned" PROVE PromiseStep(c)
  <2>1. Refused.effect = "notSent" BY DEF Refused
  <2>2. QED BY <1>4, <1>5, <2>1
<1>6. ASSUME pc[c] \in Early PROVE ran[c] = 0 /\ pc[c] # "returned"
  BY <1>6, EarlyFacts DEF Reached, Early
<1>7. CASE Call(c)
  <2>1. pc[c] \in Early BY <1>7 DEF Call, Early
  <2>2. Return(c, Refused) \/ (pc' = [pc EXCEPT ![c] = "count"] /\ ret' = ret) BY <1>7 DEF Call
  <2>3. QED BY <1>3, <1>5, <1>6, <2>1, <2>2
<1>8. CASE Expire(c) \/ WatchStop(c) BY <1>2, <1>8 DEF Expire, WatchStop
<1>9. CASE AcquireCount(c) \/ AcquireBytes(c)
  <2>1. pc[c] \in Early BY <1>9 DEF AcquireCount, AcquireBytes, Early
  <2>2. \E p \in {"bytes", "enqueue"} : pc' = [pc EXCEPT ![c] = p] /\ ret' = ret
    BY <1>9 DEF AcquireCount, AcquireBytes
  <2>3. QED BY <1>3, <1>6, <2>1, <2>2
<1>10. CASE AcquireFail(c) BY <1>5, <1>6, <1>10 DEF AcquireFail, Early
<1>11. CASE Enqueue(c)
  <2>1. pc[c] \in Early BY <1>11 DEF Enqueue, Early
  <2>2. Return(c, Refused) \/ (pc' = [pc EXCEPT ![c] = "wait"] /\ ret' = ret) BY <1>11 DEF Enqueue
  <2>3. QED BY <1>3, <1>5, <1>6, <2>1, <2>2
<1>12. CASE Receive(c)
  <2>1. Return(c, result[c]) /\ result[c] # NoReply /\ pc[c] # "returned" BY <1>12 DEF Receive
  <2>2. result[c].effect \in Effects BY <1>0, <2>1 DEF Reply
  <2>3. result[c].effect = "notSent" => ran[c] = 0 BY DEF EInv, Honest, Reached
  <2>4. result[c].effect = "confirmed" => ran[c] # 0 BY DEF AInv, AckedHere
  <2>5. QED BY <1>4, <2>1, <2>2, <2>3, <2>4 DEF Effects
<1>13. CASE Abort(c) BY <1>3, <1>13 DEF Abort
<1>14. CASE CheckDelivered(c)
  <2>1. pc[c] # "returned" BY <1>14 DEF CheckDelivered
  <2>2. \/ pc' = [pc EXCEPT ![c] = "receive"] /\ ret' = ret
        \/ pc' = [pc EXCEPT ![c] = "withdraw"] /\ ret' = ret
        \/ Return(c, Doubt)
    BY <1>14 DEF CheckDelivered
  <2>3. Doubt.effect = "unknown" BY DEF Doubt
  <2>4. QED BY <1>3, <1>4, <2>1, <2>2, <2>3
<1>15. CASE Withdraw(c)
  <2>1. pc[c] # "returned" BY <1>15 DEF Withdraw
  <2>2. CASE reqState[c] = "queued"
    <3>1. ran[c] = 0 BY <2>2 DEF EInv, Honest, Reached
    <3>2. Return(c, Refused) BY <1>15, <2>2 DEF Withdraw
    <3>3. QED BY <1>5, <2>1, <3>1, <3>2
  <2>3. CASE reqState[c] # "queued"
    <3>1. pc' = [pc EXCEPT ![c] = "abortLast"] /\ ret' = ret BY <1>15, <2>3 DEF Withdraw
    <3>2. QED BY <1>3, <2>1, <3>1
  <2>4. QED BY <2>2, <2>3
<1>16. QED
  BY <1>7, <1>8, <1>9, <1>10, <1>11, <1>12, <1>13, <1>14, <1>15 DEF CallerStep

\* The daemon starts a command that was called and was not reported as not sent.
LEMMA BodyPromise ==
  ASSUME EInv, AInv, DaemonBody
  PROVE  (\E c \in Callers : PromiseStep(c)) \/ PromiseStill
<1>1. inbox \in Seq(Line) /\ ran \in [Requests -> Nat] /\ ret \in [Callers -> Reply \cup {NoReply}]
  BY DEF EInv, TInv, TypeOK
<1>2. /\ inbox # <<>> /\ Head(inbox) \in Line /\ Head(inbox).part = "body"
      /\ ran' = [ran EXCEPT ![Head(inbox).req] = @ + 1] /\ pc' = pc /\ ret' = ret
  BY <1>1 DEF DaemonBody, EnvKeeps, callerVars
<1>3. phaseBar' = phaseBar /\ outcomeBar' = outcomeBar BY <1>2 DEF phaseBar, outcomeBar
<1>4. CASE Head(inbox).req \in Callers
  <2> DEFINE c == Head(inbox).req
  <2>1. c \in Callers /\ c \in Requests BY <1>4 DEF Requests
  <2>2. Sent(c)
    <3>1. 1 \in 1..Len(inbox) /\ inbox[1] = Head(inbox) BY <1>1, <1>2
    <3>2. Head(inbox) = BodyLine(c) BY <1>2 DEF Line, BodyLine
    <3>3. QED BY <3>1, <3>2 DEF Sent
  <2>3. ran[c] = 0 /\ pc[c] # "idle" /\ ret[c].effect # "notSent"
    BY <2>1, <2>2 DEF EInv, Once, Honest, Reached, Early
  <2>4. ret[c].effect # "confirmed" BY <2>1, <2>3 DEF AInv, AckedHere
  <2>5. ret[c].effect \in {"none", "unknown"}
    BY <1>1, <2>1, <2>3, <2>4 DEF Reply, NoReply, Effects
  <2>6. execsBar' = [execsBar EXCEPT ![c] = 1]
    <3>1. \A d \in Callers : ran'[d] = (IF d = c THEN 1 ELSE ran[d])
      BY <1>1, <1>2, <2>1, <2>3 DEF Requests
    <3>2. QED BY <3>1 DEF execsBar
  <2>7. phaseBar[c] # "idle" /\ execsBar[c] = 0 /\ outcomeBar[c] \in {"none", "unknown"}
    BY <2>1, <2>3, <2>5 DEF phaseBar, PhaseOf, execsBar, outcomeBar
  <2>8. PromiseStep(c) BY <1>3, <2>6, <2>7 DEF PromiseStep
  <2>9. QED BY <2>1, <2>8
<1>5. CASE Head(inbox).req \notin Callers
  <2>1. \A d \in Callers : ran'[d] = ran[d] BY <1>1, <1>2, <1>5 DEF Requests
  <2>2. execsBar' = execsBar BY <2>1 DEF execsBar
  <2>3. QED BY <1>3, <2>2 DEF PromiseStill
<1>6. QED BY <1>4, <1>5

LEMMA NextPromise ==
  ASSUME EInv, AInv, [Next]_vars
  PROVE  (\E c \in Callers : PromiseStep(c)) \/ PromiseStill
<1> USE DEF queueVars, callerVars, dispVars, readerVars, procVars, replyVars
<1>1. ASSUME UNCHANGED <<pc, ran, ret>> PROVE PromiseStill
  BY <1>1 DEF PromiseStill, phaseBar, execsBar, outcomeBar
<1>2. CASE DispatcherStep
  <2>1. UNCHANGED <<pc, ran, ret>>
    BY <1>2 DEF DispatcherStep, DispatchKeeps, DispatchTake, DispatchCheckClosed, DispatchCheckDone,
       DispatchClaim, DispatchBuild, DispatchWrite, DispatchWriteFail, DispatchStopped, CollectFrame,
       CollectStopped, CollectDone, CollectTimeout, DeliverRelease, DeliverStore, DeliverSend,
       DispatchLeave, DrainTake, DrainEnd
  <2>2. QED BY <1>1, <2>1
<1>3. CASE ReaderStep \/ StopStep \/ WorkStep \/ CloseStep \/ ParentCancel
  <2>1. UNCHANGED <<pc, ran, ret>>
    BY <1>3 DEF ReaderStep, StopStep, WorkStep, CloseStep, ParentCancel, ReaderRead, ReaderSend,
       ReaderQuit, ReaderFail, StopSignal, StopFinish, Finish, OpenerReady, OpenerCancelled,
       OpenerFailed, WorkerFire, WorkerEnd, CloseCall, CloseReturn, ReaderKeeps, OtherKeeps
  <2>2. QED BY <1>1, <2>1
<1>4. CASE DaemonNonce \/ DaemonForeign \/ ClientEnd
  <2>1. UNCHANGED <<pc, ran, ret>> BY <1>4 DEF DaemonNonce, DaemonForeign, ClientEnd, EnvKeeps
  <2>2. QED BY <1>1, <2>1
<1>5. CASE UNCHANGED vars
  <2>1. UNCHANGED <<pc, ran, ret>> BY <1>5 DEF vars
  <2>2. QED BY <1>1, <2>1
<1>6. CASE \E c \in Callers : CallerStep(c)
  <2>1. PICK c \in Callers : CallerStep(c) BY <1>6
  <2>2. QED BY <2>1, CallerPromise
<1>7. CASE DaemonBody BY <1>7, BodyPromise
<1>8. QED BY <1>2, <1>3, <1>4, <1>5, <1>6, <1>7 DEF Next, DaemonStep

\* Every behaviour of the connection is one of RequestPromise: a command is started at most
\* once, only between its call and a final answer that forbids it, and the answers are true.
THEOREM PromiseKept == Spec => KeepsPromise
<1>1. EInv /\ AInv /\ [Next]_vars => [Promise!Next]_(Promise!promiseVars)
  <2> SUFFICES ASSUME EInv, AInv, [Next]_vars PROVE [Promise!Next]_(Promise!promiseVars)
    OBVIOUS
  <2>1. CASE PromiseStill
    BY <2>1 DEF PromiseStill, Promise!promiseVars, phaseBar, execsBar, outcomeBar, PhaseOf
  <2>2. ASSUME NEW c \in Callers, PromiseStep(c) PROVE Promise!Next
    BY <2>2 DEF PromiseStep, Promise!Next, Promise!Call, Promise!Execute, Promise!Return,
       Promise!Allowed, phaseBar, execsBar, outcomeBar, PhaseOf
  <2>3. QED BY <2>1, <2>2, NextPromise
<1>2. QED
  BY InitEInv, InitAInv, PromiseInit, NextEInv, NextAInv, <1>1, PTL
     DEF Spec, KeepsPromise, Promise!Spec

\* Each step leaves the terminal cause alone or calls stop, which is once-only.
LEMMA StopOnce == ASSUME Closed, NEW cause, Stop(cause) PROVE terminal' = terminal
  BY DEF Stop, connVars

\* Once closed the cause of the end never changes: what Close and Wait report is the first one.
THEOREM FirstCauseHolds == Spec => FirstCauseStands
<1>1. ASSUME Closed, [Next]_vars PROVE terminal' = terminal
  <2> USE <1>1 DEF connVars
  <2>1. CASE \E c \in Callers : CallerStep(c)
    BY <2>1 DEF CallerStep, Call, Expire, WatchStop, AcquireCount, AcquireBytes, AcquireFail,
       Enqueue, Receive, Abort, CheckDelivered, Withdraw
  <2>2. CASE DispatchWriteFail BY <2>2, StopOnce DEF DispatchWriteFail
  <2>3. ASSUME NEW ok \in BOOLEAN, Conclude(ok) PROVE terminal' = terminal
    <3>1. CASE UNCHANGED connVars BY <3>1
    <3>2. CASE Stop("startup") BY <3>2, StopOnce
    <3>3. QED BY <2>3, <3>1, <3>2 DEF Conclude
  <2>4. CASE CollectFrame
    <3>1. CASE Finishes(Head(frames))
      <4>1. PICK ok \in BOOLEAN : Conclude(ok) BY <2>4, <3>1 DEF CollectFrame
      <4>2. QED BY <2>3, <4>1
    <3>2. CASE ~Finishes(Head(frames)) BY <2>4, <3>2 DEF CollectFrame
    <3>3. QED BY <3>1, <3>2
  <2>5. CASE CollectStopped BY <2>3, <2>5 DEF CollectStopped
  <2>6. CASE CollectTimeout BY <2>6, StopOnce DEF CollectTimeout
  <2>7. CASE DispatchLeave BY <2>7, StopOnce DEF DispatchLeave
  <2>8. CASE \/ DispatchTake \/ DispatchCheckClosed \/ DispatchCheckDone \/ DispatchClaim
             \/ DispatchBuild \/ DispatchWrite \/ DispatchStopped \/ CollectDone
             \/ DeliverRelease \/ DeliverStore \/ DeliverSend \/ DrainTake \/ DrainEnd
    BY <2>8 DEF DispatchTake, DispatchCheckClosed, DispatchCheckDone, DispatchClaim, DispatchBuild,
       DispatchWrite, DispatchStopped, CollectDone, DeliverRelease, DeliverStore, DeliverSend,
       DrainTake, DrainEnd
  <2>9. CASE ReaderStep
    <3>1. CASE UNCHANGED connVars BY <3>1
    <3>2. CASE \E cause \in {"exit", "protocol"} : Stop(cause) BY <3>2, StopOnce
    <3>3. QED
      BY <2>9, <3>1, <3>2 DEF ReaderStep, ReaderRead, ReaderSend, ReaderQuit, ReaderFail
  <2>10. CASE StopStep BY <2>10 DEF StopStep, StopSignal, StopFinish
  <2>11. CASE WorkStep
    <3>1. CASE UNCHANGED connVars BY <3>1
    <3>2. ASSUME NEW cause, Stop(cause) PROVE terminal' = terminal BY <3>2, StopOnce
    <3>3. UNCHANGED connVars \/ \E cause \in {"startup", "cancelled"} \cup {WorkerCause(w) : w \in Workers} : Stop(cause)
      BY <2>11 DEF WorkStep, Finish, OpenerReady, OpenerCancelled, OpenerFailed, WorkerFire, WorkerEnd
    <3>4. QED BY <3>1, <3>2, <3>3
  <2>12. CASE CloseStep
    <3>1. UNCHANGED connVars \/ Stop("close") BY <2>12 DEF CloseStep, CloseCall, CloseReturn
    <3>2. QED BY <3>1, StopOnce
  <2>13. CASE DaemonStep \/ ParentCancel
    BY <2>13 DEF DaemonStep, DaemonBody, DaemonNonce, DaemonForeign, ClientEnd, EnvKeeps,
       ParentCancel
  <2>14. CASE UNCHANGED vars BY <2>14 DEF vars
  <2>15. QED
    BY <2>1, <2>2, <2>4, <2>5, <2>6, <2>7, <2>8, <2>9, <2>10, <2>11, <2>12, <2>13, <2>14
       DEF Next, DispatcherStep
<1>2. [Next]_vars => [Closed => terminal' = terminal]_vars BY <1>1
<1>3. QED BY <1>2, PTL DEF Spec, FirstCauseStands

(***************************************************************************)
(* Nobody is left waiting.  A call that waits has its reply, or its        *)
(* request is where the dispatcher will find it.                           *)
(***************************************************************************)
Waits == {"wait", "abort", "withdraw", "abortLast", "receive"}

Served(c) == pc[c] \in Waits => result[c] # NoReply \/ Queued(c) \/ Held(c)

Gone == dpc = "done" => requests = <<>> /\ stage = "stopped"

WInv == Gone /\ \A c \in Callers : Served(c)

LEMMA InitWInv == Init => WInv
<1> SUFFICES ASSUME Init PROVE WInv OBVIOUS
<1>1. dpc = "collect" /\ \A c \in Callers : pc[c] = "idle" BY DEF Init
<1>2. QED BY <1>1 DEF WInv, Gone, Served, Waits

\* A stopped connection stays stopped.
LEMMA StoppedStays ==
  ASSUME stage = "stopped", NEW cause, Stop(cause)
  PROVE  stage' = stage
  BY DEF Stop, Closed, connVars

\* A step that moves no request and takes no reply.
LEMMA StillWInv ==
  ASSUME WInv, UNCHANGED requests, stage = "stopped" => stage' = "stopped",
         dpc' = "done" => dpc = "done",
         \A c \in Callers : /\ pc'[c] \in Waits => pc[c] \in Waits \/ pc'[c] = pc[c]
                            /\ result[c] # NoReply => result'[c] # NoReply \/ pc'[c] \notin Waits
                            /\ Held(c) => Held(c)' \/ result'[c] # NoReply
  PROVE  WInv'
<1>1. \A c \in Callers : Queued(c)' <=> Queued(c) BY DEF Queued
<1>2. Gone' BY DEF WInv, Gone
<1>3. \A c \in Callers : Served(c)' BY <1>1 DEF WInv, Served
<1>4. QED BY <1>2, <1>3 DEF WInv

LEMMA CallerWInv ==
  ASSUME EInv, WInv, NEW c \in Callers, CallerStep(c)
  PROVE  WInv'
<1> USE DEF queueVars, callerVars, dispVars, replyVars, connVars
<1>0. /\ pc \in [Callers -> {"idle", "count", "bytes", "enqueue", "wait", "abort", "withdraw",
                          "abortLast", "receive", "returned"}]
      /\ result \in [Callers -> Reply \cup {NoReply}] /\ requests \in Seq(Callers)
  BY DEF EInv, TInv, TypeOK
<1>1. UNCHANGED <<dpc, cur, stage>> /\ \A d \in Callers : Held(d)' <=> Held(d)
  BY DEF CallerStep, Call, Expire, WatchStop, AcquireCount, AcquireBytes, AcquireFail, Enqueue,
     Receive, Abort, CheckDelivered, Withdraw, Held
<1>2. CASE Enqueue(c) /\ Admits
  <2>1. requests' = Append(requests, c) /\ pc' = [pc EXCEPT ![c] = "wait"] /\ result' = result /\ ~Closed
    BY <1>2 DEF Enqueue, Admits
  <2>2. /\ Len(requests') = Len(requests) + 1 /\ requests'[Len(requests) + 1] = c
        /\ \A i \in 1..Len(requests) : requests'[i] = requests[i]
    BY <1>0, <2>1
  <2>3. \A d \in Callers : Queued(d)' <=> Queued(d) \/ d = c BY <1>0, <2>2 DEF Queued
  <2>4. \A d \in Callers : d # c => pc'[d] = pc[d] BY <1>0, <2>1
  <2>5. \A d \in Callers : Served(d)' BY <1>1, <2>1, <2>3, <2>4 DEF WInv, Served
  <2>6. Gone' BY <1>1, <2>1 DEF WInv, Gone, Closed
  <2>7. QED BY <2>5, <2>6 DEF WInv
<1>3. CASE Receive(c)
  <2>1. pc' = [pc EXCEPT ![c] = "returned"] /\ result' = [result EXCEPT ![c] = NoReply] /\ requests' = requests
    BY <1>3 DEF Receive, Return
  <2>2. pc'[c] \notin Waits /\ \A d \in Callers : d # c => pc'[d] = pc[d] /\ result'[d] = result[d]
    BY <1>0, <2>1 DEF Waits
  <2>3. QED BY <1>1, <2>1, <2>2, StillWInv
<1>4. CASE ~Receive(c) /\ ~(Enqueue(c) /\ Admits)
  <2>1. requests' = requests /\ result' = result
    BY <1>4 DEF CallerStep, Call, Expire, WatchStop, AcquireCount, AcquireBytes, AcquireFail, Enqueue,
     Abort, CheckDelivered, Withdraw
  <2>2. \/ pc' = pc
        \/ \E p \in {"count", "bytes", "enqueue", "returned"} : pc' = [pc EXCEPT ![c] = p]
        \/ pc[c] \in Waits /\ \E p \in Waits : pc' = [pc EXCEPT ![c] = p]
    <3>1. CASE Call(c) BY <3>1 DEF Call, Return
    <3>2. CASE Expire(c) \/ WatchStop(c) BY <3>2 DEF Expire, WatchStop
    <3>3. CASE AcquireCount(c) \/ AcquireBytes(c) BY <3>3 DEF AcquireCount, AcquireBytes
    <3>4. CASE AcquireFail(c) BY <3>4 DEF AcquireFail, Return
    <3>5. CASE Enqueue(c) BY <1>4, <3>5 DEF Enqueue, Return
    <3>6. CASE Abort(c) BY <3>6 DEF Abort, Waits
    <3>7. CASE CheckDelivered(c) BY <3>7 DEF CheckDelivered, Return, Waits
    <3>8. CASE Withdraw(c) BY <3>8 DEF Withdraw, Return, Waits
    <3>9. QED
      BY <1>4, <3>1, <3>2, <3>3, <3>4, <3>5, <3>6, <3>7, <3>8 DEF CallerStep
  <2>3. \A d \in Callers : pc'[d] \in Waits => pc[d] \in Waits BY <1>0, <2>2 DEF Waits
  <2>4. QED BY <1>1, <2>1, <2>3, StillWInv
<1>5. QED BY <1>2, <1>3, <1>4

\* The dispatcher takes the head of the queue in hand.
LEMMA TakeWInv ==
  ASSUME EInv, WInv, requests # <<>>, cur' = Head(requests), requests' = Tail(requests),
         dpc \in {"idle", "leaving", "drain"}, dpc' \in {"checkClosed", "release"},
         UNCHANGED <<pc, result>>
  PROVE  WInv'
<1>1. requests \in Seq(Callers) BY DEF EInv, TInv, TypeOK
<1>2. /\ Len(requests) > 0 /\ Len(requests') = Len(requests) - 1 /\ cur' = requests[1]
      /\ \A i \in 1..Len(requests') : requests'[i] = requests[i + 1]
  BY <1>1
<1>3. ASSUME NEW d \in Callers, Queued(d) PROVE Queued(d)' \/ Held(d)'
  <2>1. PICK i \in 1..Len(requests) : requests[i] = d BY <1>3 DEF Queued
  <2>2. CASE i = 1 BY <1>2, <2>1, <2>2 DEF Held, AtRequest
  <2>3. CASE i # 1
    <3>1. i - 1 \in 1..Len(requests') /\ (i - 1) + 1 = i BY <1>1, <1>2, <2>1, <2>3
    <3>2. requests'[i - 1] = d BY <1>2, <2>1, <3>1
    <3>3. QED BY <3>1, <3>2 DEF Queued
  <2>4. QED BY <2>2, <2>3
<1>4. \A d \in Callers : ~Held(d) BY DEF Held, AtRequest
<1>5. QED BY <1>3, <1>4 DEF WInv, Served, Gone

\* A call in hand stays in hand until its reply is there.
LEMMA DispatcherWInv ==
  ASSUME EInv, WInv, DispatcherStep
  PROVE  WInv'
<1> USE DEF queueVars, callerVars, dispVars, replyVars, DispatchKeeps
<1>1. CASE DispatchTake \/ DrainTake
  <2>1. /\ requests # <<>> /\ cur' = Head(requests) /\ requests' = Tail(requests)
        /\ dpc \in {"idle", "leaving", "drain"} /\ dpc' \in {"checkClosed", "release"}
        /\ UNCHANGED <<pc, result>>
    BY <1>1 DEF DispatchTake, DrainTake, Prepare
  <2>2. QED BY <2>1, TakeWInv
<1>2. CASE DrainEnd
  <2>1. /\ dpc \in {"leaving", "drain"} /\ stage = "stopped" /\ stage' = stage /\ requests = <<>>
        /\ UNCHANGED <<pc, result, requests>>
    BY <1>2 DEF DrainEnd, connVars
  <2>2. \A d \in Callers : ~Held(d) /\ (Queued(d)' <=> Queued(d)) BY <2>1 DEF Held, AtRequest, Queued
  <2>3. QED BY <2>1, <2>2 DEF WInv, Served, Gone
<1>3. CASE DeliverSend
  <2>1. /\ dpc = "send" /\ cur \in Callers /\ stage' = stage /\ UNCHANGED <<pc, requests>>
        /\ dpc' \in {"idle", "exit", "drain"} /\ out \in Effects
        /\ result' = [result EXCEPT ![cur] = [effect |-> out, units |-> got]]
        /\ result \in [Callers -> Reply \cup {NoReply}]
    BY <1>3 DEF DeliverSend, connVars, EInv, TInv, TypeOK, CurOK, AtRequest
  <2>2. [effect |-> out, units |-> got] # NoReply
    <3>1. [effect |-> out, units |-> got].effect = out OBVIOUS
    <3>2. NoReply.effect = "none" BY DEF NoReply
    <3>3. QED BY <2>1, <3>1, <3>2 DEF Effects
  <2>3. result'[cur] # NoReply /\ \A d \in Callers : d # cur => result'[d] = result[d] BY <2>1, <2>2
  <2>4. \A d \in Callers : Held(d) => d = cur BY DEF Held
  <2>5. QED BY <2>1, <2>3, <2>4, StillWInv
<1>4. CASE \/ DispatchCheckClosed \/ DispatchCheckDone \/ DispatchClaim \/ DispatchBuild
           \/ DispatchWrite \/ DispatchStopped \/ CollectDone \/ DeliverRelease \/ DeliverStore
  <2>1. UNCHANGED <<pc, result, requests, cur, stage>> /\ dpc' # "done"
        /\ dpc' \in AtRequest \cup {"collect"}
    BY <1>4 DEF DispatchCheckClosed, DispatchCheckDone, DispatchClaim, DispatchBuild, DispatchWrite,
       DispatchStopped, CollectDone, DeliverRelease, DeliverStore, Prepare, AtRequest, connVars
  <2>2. \A d \in Callers : Held(d) => Held(d)' BY <2>1 DEF Held, AtRequest
  <2>3. QED BY <2>1, <2>2, StillWInv
<1>5. CASE DispatchWriteFail
  <2>1. UNCHANGED <<pc, result, requests, cur>> /\ dpc' = "stopping" /\ Stop("io")
    BY <1>5 DEF DispatchWriteFail
  <2>2. \A d \in Callers : Held(d) => Held(d)' BY <2>1 DEF Held, AtRequest
  <2>3. stage = "stopped" => stage' = "stopped" BY <2>1, StoppedStays
  <2>4. QED BY <2>1, <2>2, <2>3, StillWInv
<1>6. ASSUME NEW ok \in BOOLEAN, dpc = "collect", Conclude(ok), UNCHANGED <<pc, result, requests>>
      PROVE  WInv'
  <2>1. CASE cur = Hello
    <3>1. dpc' \in {"idle", "exit"} /\ (stage' = stage \/ Stop("startup"))
      BY <1>6, <2>1 DEF Conclude, connVars
    <3>2. \A d \in Callers : ~Held(d) BY <2>1, ConnAssumption DEF Held
    <3>3. stage = "stopped" => stage' = "stopped" BY <3>1, StoppedStays
    <3>4. QED BY <1>6, <3>1, <3>2, <3>3, StillWInv
  <2>2. CASE cur # Hello
    <3>1. dpc' = "release" /\ cur' = cur /\ stage' = stage
      BY <1>6, <2>2 DEF Conclude, Prepare, connVars
    <3>2. \A d \in Callers : Held(d) => Held(d)' BY <3>1 DEF Held, AtRequest
    <3>3. QED BY <1>6, <3>1, <3>2, StillWInv
  <2>3. QED BY <2>1, <2>2
<1>7. CASE CollectStopped
  BY <1>6, <1>7 DEF CollectStopped
<1>8. CASE CollectFrame
  <2>1. CASE Finishes(Head(frames))
    <3>1. PICK ok \in BOOLEAN : Conclude(ok) BY <1>8, <2>1 DEF CollectFrame
    <3>2. dpc = "collect" /\ UNCHANGED <<pc, result, requests>> BY <1>8 DEF CollectFrame
    <3>3. QED BY <1>6, <3>1, <3>2
  <2>2. CASE ~Finishes(Head(frames))
    <3>1. UNCHANGED <<pc, result, requests, cur, dpc, stage>> BY <1>8, <2>2 DEF CollectFrame, connVars
    <3>2. \A d \in Callers : Held(d) => Held(d)' BY <3>1 DEF Held
    <3>3. QED BY <3>1, <3>2, StillWInv
  <2>3. QED BY <2>1, <2>2
<1>9. CASE CollectTimeout
  <2>1. UNCHANGED <<pc, result, requests>> /\ Stop("protocol") /\ dpc = "collect"
    BY <1>9 DEF CollectTimeout
  <2>2. stage = "stopped" => stage' = "stopped" BY <2>1, StoppedStays
  <2>3. \/ cur = Hello /\ dpc' = "exit"
        \/ cur' = cur /\ dpc' = "stopping"
    BY <1>9 DEF CollectTimeout
  <2>4. \A d \in Callers : Held(d) => Held(d)' BY <2>3, ConnAssumption DEF Held, AtRequest
  <2>5. QED BY <2>1, <2>2, <2>3, <2>4, StillWInv
<1>10. CASE DispatchLeave
  <2>1. UNCHANGED <<pc, result, requests>> /\ Stop("cancelled") /\ dpc \in {"idle", "exit"} /\ dpc' = "leaving"
    BY <1>10 DEF DispatchLeave
  <2>2. \A d \in Callers : ~Held(d) BY <2>1 DEF Held, AtRequest
  <2>3. stage = "stopped" => stage' = "stopped" BY <2>1, StoppedStays
  <2>4. QED BY <2>1, <2>2, <2>3, StillWInv
<1>11. QED
  BY <1>1, <1>2, <1>3, <1>4, <1>5, <1>7, <1>8, <1>9, <1>10 DEF DispatcherStep

LEMMA OtherWInv ==
  ASSUME EInv, WInv, ReaderStep \/ StopStep \/ WorkStep \/ CloseStep \/ DaemonStep \/ ParentCancel
  PROVE  WInv'
<1>1. UNCHANGED <<pc, result, requests, dpc, cur>>
  BY DEF ReaderStep, StopStep, WorkStep, CloseStep, ParentCancel, ReaderRead, ReaderSend,
     ReaderQuit, ReaderFail, StopSignal, StopFinish, Finish, OpenerReady, OpenerCancelled,
     OpenerFailed, WorkerFire, WorkerEnd, CloseCall, CloseReturn, ReaderKeeps, OtherKeeps,
     DaemonStep, DaemonBody, DaemonNonce, DaemonForeign, ClientEnd, EnvKeeps,
     queueVars, callerVars, dispVars, replyVars
<1>2. stage' = stage \/ stage' = "stopped" \/ stage # "stopped" \/ \E cause : Stop(cause)
  BY DEF ReaderStep, StopStep, WorkStep, CloseStep, ParentCancel, ReaderRead, ReaderSend,
     ReaderQuit, ReaderFail, StopSignal, StopFinish, Finish, OpenerReady, OpenerCancelled,
     OpenerFailed, WorkerFire, WorkerEnd, CloseCall, CloseReturn,
     DaemonStep, DaemonBody, DaemonNonce, DaemonForeign, ClientEnd, EnvKeeps, connVars
<1>3. stage = "stopped" => stage' = "stopped" BY <1>2, StoppedStays
<1>4. \A d \in Callers : Held(d) => Held(d)' BY <1>1 DEF Held
<1>5. QED BY <1>1, <1>3, <1>4, StillWInv

LEMMA NextWInv == EInv /\ WInv /\ [Next]_vars => WInv'
<1>1. ASSUME WInv, UNCHANGED vars PROVE WInv'
  <2>1. UNCHANGED <<pc, result, requests, dpc, cur, stage>>
    BY <1>1 DEF vars, queueVars, callerVars, dispVars, replyVars, connVars
  <2>2. \A d \in Callers : Held(d) => Held(d)' BY <2>1 DEF Held
  <2>3. QED BY <1>1, <2>1, <2>2, StillWInv
<1>2. QED BY <1>1, CallerWInv, DispatcherWInv, OtherWInv DEF Next

\* When the dispatcher has gone, after drainRequests, every queued call has its reply, and
\* enqueueRequest admits no later one.
THEOREM NobodyWaits == Spec => []NobodyStranded
<1>1. ASSUME EInv, WInv PROVE NobodyStranded
  <2> SUFFICES ASSUME dpc = "done"
               PROVE  /\ requests = <<>>
                      /\ \A c \in Callers : pc[c] \in Waits => result[c] # NoReply
    BY DEF NobodyStranded, Waits
  <2>1. requests = <<>> BY <1>1 DEF WInv, Gone
  <2>2. \A c \in Callers : ~Queued(c) /\ ~Held(c) BY <2>1 DEF Queued, Held, AtRequest
  <2>3. QED BY <1>1, <2>1, <2>2 DEF WInv, Served
<1>2. EInv /\ WInv /\ [Next]_vars => EInv' /\ WInv' BY NextEInv, NextWInv
<1>3. QED BY InitEInv, InitWInv, <1>1, <1>2, PTL DEF Spec

(***************************************************************************)
(* The two semaphores.  A permit belongs to a call that has not passed it  *)
(* on, to a queued request or to the request the dispatcher holds, and the *)
(* bytes are counted one by one.                                           *)
(***************************************************************************)
Carrying == {"checkClosed", "checkDone", "claim", "build", "write", "collect", "stopping", "release"}

Carried(c) == Queued(c) \/ (cur = c /\ dpc \in Carrying)
Counted(c) == pc[c] \in {"bytes", "enqueue"} \/ Carried(c)
Granted(c) == pc[c] = "enqueue" \/ Carried(c)

Counts == {c \in Callers : Counted(c)}
Grants == {c \in Callers : Granted(c)}

\* The bytes the calls of S have been granted.
Weight(S) == {u \in Callers \X Nat : u[1] \in S /\ u[2] \in 1..Bytes[u[1]]}

CountKept == countUsed = Cardinality(Counts) /\ countUsed <= QueueDepth
BytesKept == /\ IsFiniteSet(Weight(Grants))
             /\ bytesUsed = Cardinality(Weight(Grants)) /\ bytesUsed <= QueuedBytes

CInv == CountKept /\ BytesKept

LEMMA SubsetsFinite == ASSUME NEW S \in SUBSET Callers PROVE IsFiniteSet(S) /\ Cardinality(S) \in Nat
  BY ConnAssumption, FS_Subset, FS_CardinalityType

LEMMA Block ==
  ASSUME NEW c \in Callers
  PROVE  /\ IsFiniteSet({c} \X (1..Bytes[c])) /\ Cardinality({c} \X (1..Bytes[c])) = Bytes[c]
         /\ Bytes[c] \in Nat
<1>1. Bytes[c] \in Nat BY ConnAssumption
<1> DEFINE n == Bytes[c]
<1>2. n \in Nat BY <1>1
<1> HIDE DEF n
<1>3. IsFiniteSet(1..n) /\ Cardinality(1..n) = n BY <1>2, FS_Interval
<1>4. IsFiniteSet({c}) /\ Cardinality({c}) = 1 BY FS_Singleton
<1>5. IsFiniteSet({c} \X (1..n)) /\ Cardinality({c} \X (1..n)) = 1 * n BY <1>3, <1>4, FS_Product
<1>6. QED BY <1>1, <1>2, <1>5 DEF n

LEMMA WeightAdded ==
  ASSUME NEW S \in SUBSET Callers, NEW c \in Callers \ S, IsFiniteSet(Weight(S))
  PROVE  /\ IsFiniteSet(Weight(S \cup {c}))
         /\ Cardinality(Weight(S \cup {c})) = Cardinality(Weight(S)) + Bytes[c]
<1> DEFINE B == {c} \X (1..Bytes[c])
           W == Weight(S)
<1>1. Bytes[c] \in Nat /\ IsFiniteSet(B) /\ Cardinality(B) = Bytes[c] BY Block
<1>2. ASSUME NEW u PROVE u \in Weight(S \cup {c}) <=> u \in W \cup B BY <1>1 DEF Weight
<1>3. Weight(S \cup {c}) = W \cup B BY <1>2
<1>4. W \cap B = {} BY DEF Weight
<1>5. IsFiniteSet(W) /\ Cardinality({}) = 0 /\ Cardinality(W) \in Nat BY FS_EmptySet, FS_CardinalityType
<1> HIDE DEF W, B
<1>6. IsFiniteSet(W \cup B) /\ Cardinality(W \cup B) = Cardinality(W) + Cardinality(B) - Cardinality(W \cap B)
  BY <1>1, <1>5, FS_Union
<1>7. Cardinality(W \cap B) = 0 BY <1>4, <1>5 DEF W, B
<1>8. Cardinality(W \cup B) = Cardinality(W) + Bytes[c] BY <1>1, <1>5, <1>6, <1>7
<1>9. QED BY <1>3, <1>6, <1>8 DEF W

LEMMA WeightRemoved ==
  ASSUME NEW S \in SUBSET Callers, NEW c \in S, IsFiniteSet(Weight(S))
  PROVE  /\ IsFiniteSet(Weight(S \ {c}))
         /\ Cardinality(Weight(S \ {c})) = Cardinality(Weight(S)) - Bytes[c]
<1> DEFINE R == S \ {c}
<1>1. R \in SUBSET Callers /\ c \in Callers \ R /\ R \cup {c} = S OBVIOUS
<1>0. Bytes[c] \in Nat BY Block
<1>2. Weight(R) \subseteq Weight(S) BY DEF Weight
<1>3. IsFiniteSet(Weight(R)) /\ Cardinality(Weight(R)) \in Nat BY <1>2, FS_Subset, FS_CardinalityType
<1> HIDE DEF R
<1>4. Cardinality(Weight(R \cup {c})) = Cardinality(Weight(R)) + Bytes[c] BY <1>1, <1>3, WeightAdded
<1>5. Cardinality(Weight(S)) = Cardinality(Weight(R)) + Bytes[c] BY <1>1, <1>4
<1>6. Cardinality(Weight(R)) = Cardinality(Weight(S)) - Bytes[c] BY <1>0, <1>3, <1>5
<1>7. QED BY <1>3, <1>6 DEF R

\* Nothing moves; a call takes its permit; the permit of a call comes back.
LEMMA CountStill ==
  ASSUME CountKept, countUsed' = countUsed, \A d \in Callers : Counted(d)' <=> Counted(d)
  PROVE  CountKept'
<1>1. Counts' = Counts BY DEF Counts
<1>2. QED BY <1>1 DEF CountKept

LEMMA CountTaken ==
  ASSUME CountKept, NEW c \in Callers, countUsed' = countUsed + 1, countUsed < QueueDepth,
         ~Counted(c), \A d \in Callers : Counted(d)' <=> Counted(d) \/ d = c
  PROVE  CountKept'
<1>1. Counts' = Counts \cup {c} /\ c \notin Counts BY DEF Counts
<1>2. IsFiniteSet(Counts) /\ Cardinality(Counts) \in Nat BY SubsetsFinite DEF Counts
<1>3. Cardinality(Counts \cup {c}) = Cardinality(Counts) + 1 BY <1>1, <1>2, FS_AddElement
<1>4. QED BY <1>1, <1>2, <1>3, ConnAssumption DEF CountKept

LEMMA CountGiven ==
  ASSUME CountKept, NEW c \in Callers, countUsed' = countUsed - 1,
         Counted(c), \A d \in Callers : Counted(d)' <=> Counted(d) /\ d # c
  PROVE  CountKept'
<1>1. Counts' = Counts \ {c} /\ c \in Counts BY DEF Counts
<1>2. IsFiniteSet(Counts) /\ Cardinality(Counts) \in Nat BY SubsetsFinite DEF Counts
<1>3. Cardinality(Counts \ {c}) = Cardinality(Counts) - 1 BY <1>1, <1>2, FS_RemoveElement
<1>4. QED BY <1>1, <1>2, <1>3, ConnAssumption DEF CountKept

LEMMA BytesStill ==
  ASSUME BytesKept, bytesUsed' = bytesUsed, \A d \in Callers : Granted(d)' <=> Granted(d)
  PROVE  BytesKept'
<1>1. Grants' = Grants BY DEF Grants
<1>2. QED BY <1>1 DEF BytesKept, Weight

LEMMA BytesTaken ==
  ASSUME BytesKept, NEW c \in Callers, bytesUsed' = bytesUsed + Bytes[c],
         bytesUsed + Bytes[c] <= QueuedBytes,
         ~Granted(c), \A d \in Callers : Granted(d)' <=> Granted(d) \/ d = c
  PROVE  BytesKept'
<1>1. Grants' = Grants \cup {c} /\ c \in Callers \ Grants /\ Grants \in SUBSET Callers BY DEF Grants
<1>2. /\ IsFiniteSet(Weight(Grants \cup {c}))
      /\ Cardinality(Weight(Grants \cup {c})) = Cardinality(Weight(Grants)) + Bytes[c]
  BY <1>1, WeightAdded DEF BytesKept
<1>3. Weight(Grants)' = Weight(Grants \cup {c}) BY <1>1 DEF Weight
<1>4. QED BY <1>2, <1>3 DEF BytesKept

LEMMA BytesGiven ==
  ASSUME BytesKept, NEW c \in Callers, bytesUsed' = bytesUsed - Bytes[c],
         Granted(c), \A d \in Callers : Granted(d)' <=> Granted(d) /\ d # c
  PROVE  BytesKept'
<1>1. Grants' = Grants \ {c} /\ c \in Grants /\ Grants \in SUBSET Callers BY DEF Grants
<1>2. /\ IsFiniteSet(Weight(Grants \ {c}))
      /\ Cardinality(Weight(Grants \ {c})) = Cardinality(Weight(Grants)) - Bytes[c]
  BY <1>1, WeightRemoved DEF BytesKept
<1>3. Weight(Grants)' = Weight(Grants \ {c}) BY <1>1 DEF Weight
<1>4. Cardinality(Weight(Grants)) \in Nat BY FS_CardinalityType DEF BytesKept
<1>5. Bytes[c] \in Nat /\ QueuedBytes \in Nat BY ConnAssumption
<1>6. QED BY <1>2, <1>3, <1>4, <1>5 DEF BytesKept

LEMMA InitCInv == Init => CInv
<1> SUFFICES ASSUME Init PROVE CInv OBVIOUS
<1>1. /\ requests = <<>> /\ Len(requests) = 0 /\ cur = Hello /\ countUsed = 0 /\ bytesUsed = 0
      /\ \A c \in Callers : pc[c] = "idle"
  BY DEF Init
<1>2. Counts = {} /\ Grants = {}
  BY <1>1, ConnAssumption DEF Counts, Grants, Counted, Granted, Carried, Queued
<1>3. Weight(Grants) = {} BY <1>2 DEF Weight
<1>4. IsFiniteSet({}) /\ Cardinality({}) = 0 BY FS_EmptySet
<1>5. CountKept BY <1>1, <1>2, <1>4, ConnAssumption DEF CountKept
<1>6. BytesKept BY <1>1, <1>3, <1>4, ConnAssumption DEF BytesKept
<1>7. QED BY <1>5, <1>6 DEF CInv

LEMMA StillCInv ==
  ASSUME CInv, UNCHANGED <<countUsed, bytesUsed>>,
         \A d \in Callers : /\ Carried(d)' <=> Carried(d)
                            /\ pc'[d] \in {"bytes", "enqueue"} <=> pc[d] \in {"bytes", "enqueue"}
                            /\ pc'[d] = "enqueue" <=> pc[d] = "enqueue"
  PROVE  CInv'
<1>1. \A d \in Callers : (Counted(d)' <=> Counted(d)) /\ (Granted(d)' <=> Granted(d))
  BY DEF Counted, Granted
<1>2. QED BY <1>1, CountStill, BytesStill DEF CInv

LEMMA CallerCInv ==
  ASSUME EInv, CInv, NEW c \in Callers, CallerStep(c)
  PROVE  CInv'
<1> USE DEF queueVars, callerVars, dispVars, replyVars, connVars
<1>0. /\ pc \in [Callers -> {"idle", "count", "bytes", "enqueue", "wait", "abort", "withdraw",
                          "abortLast", "receive", "returned"}]
      /\ requests \in Seq(Callers)
  BY DEF EInv, TInv, TypeOK
<1>1. UNCHANGED <<dpc, cur>> 
  BY DEF CallerStep, Call, Expire, WatchStop, AcquireCount, AcquireBytes, AcquireFail, Enqueue,
     Receive, Abort, CheckDelivered, Withdraw
<1>2. pc[c] \in Early => ~Carried(c)
  BY EarlyFacts DEF Carried, Held, Carrying, AtRequest
<1>3. ASSUME requests' = requests PROVE \A d \in Callers : Carried(d)' <=> Carried(d)
  BY <1>1, <1>3 DEF Carried, Queued
<1>4. CASE AcquireCount(c)
  <2>1. /\ pc[c] = "count" /\ countUsed < QueueDepth /\ countUsed' = countUsed + 1
        /\ pc' = [pc EXCEPT ![c] = "bytes"] /\ UNCHANGED <<requests, bytesUsed>>
    BY <1>4 DEF AcquireCount
  <2>2. pc'[c] = "bytes" /\ \A d \in Callers : d # c => pc'[d] = pc[d] BY <1>0, <2>1
  <2>3. ~Counted(c) /\ \A d \in Callers : Counted(d)' <=> Counted(d) \/ d = c
    BY <1>2, <1>3, <2>1, <2>2 DEF Counted, Early
  <2>4. \A d \in Callers : Granted(d)' <=> Granted(d) BY <1>3, <2>1, <2>2 DEF Granted
  <2>5. QED BY <2>1, <2>3, <2>4, CountTaken, BytesStill DEF CInv
<1>5. CASE AcquireBytes(c)
  <2>1. /\ pc[c] = "bytes" /\ bytesUsed + Bytes[c] <= QueuedBytes /\ bytesUsed' = bytesUsed + Bytes[c]
        /\ pc' = [pc EXCEPT ![c] = "enqueue"] /\ UNCHANGED <<requests, countUsed>>
    BY <1>5 DEF AcquireBytes
  <2>2. pc'[c] = "enqueue" /\ \A d \in Callers : d # c => pc'[d] = pc[d] BY <1>0, <2>1
  <2>3. ~Granted(c) /\ \A d \in Callers : Granted(d)' <=> Granted(d) \/ d = c
    BY <1>2, <1>3, <2>1, <2>2 DEF Granted, Early
  <2>4. \A d \in Callers : Counted(d)' <=> Counted(d) BY <1>3, <2>1, <2>2 DEF Counted
  <2>5. QED BY <2>1, <2>3, <2>4, CountStill, BytesTaken DEF CInv
<1>6. CASE AcquireFail(c) /\ pc[c] = "bytes"
  <2>1. /\ countUsed' = countUsed - 1 /\ pc' = [pc EXCEPT ![c] = "returned"]
        /\ UNCHANGED <<requests, bytesUsed>>
    BY <1>6 DEF AcquireFail, ReleaseCount, Return
  <2>2. pc'[c] = "returned" /\ \A d \in Callers : d # c => pc'[d] = pc[d] BY <1>0, <2>1
  <2>3. Counted(c) /\ \A d \in Callers : Counted(d)' <=> Counted(d) /\ d # c
    BY <1>2, <1>3, <1>6, <2>1, <2>2 DEF Counted, Early
  <2>4. \A d \in Callers : Granted(d)' <=> Granted(d) BY <1>3, <1>6, <2>1, <2>2 DEF Granted
  <2>5. QED BY <2>1, <2>3, <2>4, CountGiven, BytesStill DEF CInv
<1>7. CASE Enqueue(c) /\ ~Admits
  <2>1. /\ countUsed' = countUsed - 1 /\ bytesUsed' = bytesUsed - Bytes[c]
        /\ pc' = [pc EXCEPT ![c] = "returned"] /\ requests' = requests /\ pc[c] = "enqueue"
    BY <1>7 DEF Enqueue, ReleaseCount, ReleaseBytes, Return
  <2>2. pc'[c] = "returned" /\ \A d \in Callers : d # c => pc'[d] = pc[d] BY <1>0, <2>1
  <2>3. Counted(c) /\ \A d \in Callers : Counted(d)' <=> Counted(d) /\ d # c
    BY <1>2, <1>3, <2>1, <2>2 DEF Counted, Early
  <2>4. Granted(c) /\ \A d \in Callers : Granted(d)' <=> Granted(d) /\ d # c
    BY <1>2, <1>3, <2>1, <2>2 DEF Granted, Early
  <2>5. CountKept' BY <2>1, <2>3, CountGiven DEF CInv
  <2>6. BytesKept' BY <2>1, <2>4, BytesGiven DEF CInv
  <2>7. QED BY <2>5, <2>6 DEF CInv
<1>8. CASE Enqueue(c) /\ Admits
  <2>1. /\ requests' = Append(requests, c) /\ pc' = [pc EXCEPT ![c] = "wait"] /\ pc[c] = "enqueue"
        /\ UNCHANGED <<countUsed, bytesUsed>>
    BY <1>8 DEF Enqueue
  <2>2. /\ Len(requests') = Len(requests) + 1 /\ requests'[Len(requests) + 1] = c
        /\ \A i \in 1..Len(requests) : requests'[i] = requests[i]
    BY <1>0, <2>1
  <2>3. \A d \in Callers : Queued(d)' <=> Queued(d) \/ d = c BY <1>0, <2>2 DEF Queued
  <2>4. pc'[c] = "wait" /\ \A d \in Callers : d # c => pc'[d] = pc[d] BY <1>0, <2>1
  <2>5. \A d \in Callers : Counted(d)' <=> Counted(d)
    BY <1>1, <2>1, <2>3, <2>4 DEF Counted, Carried
  <2>6. \A d \in Callers : Granted(d)' <=> Granted(d)
    BY <1>1, <2>1, <2>3, <2>4 DEF Granted, Carried
  <2>7. QED BY <2>1, <2>5, <2>6, CountStill, BytesStill DEF CInv
<1>9. CASE \/ Call(c) \/ Expire(c) \/ WatchStop(c) \/ (AcquireFail(c) /\ pc[c] # "bytes")
           \/ Receive(c) \/ Abort(c) \/ CheckDelivered(c) \/ Withdraw(c)
  <2>1. UNCHANGED queueVars
    BY <1>9 DEF Call, Expire, WatchStop, AcquireFail, Receive, Abort, CheckDelivered, Withdraw
  <2>2. \/ pc' = pc
        \/ /\ pc[c] \notin {"bytes", "enqueue"}
           /\ \E p \in {"count", "wait", "abort", "withdraw", "abortLast", "receive", "returned"} :
                 pc' = [pc EXCEPT ![c] = p]
    <3>1. CASE Call(c) BY <3>1 DEF Call, Return
    <3>2. CASE Expire(c) \/ WatchStop(c) BY <3>2 DEF Expire, WatchStop
    <3>3. CASE AcquireFail(c) /\ pc[c] # "bytes" BY <3>3 DEF AcquireFail, Return
    <3>4. CASE Receive(c) BY <3>4 DEF Receive, Return
    <3>5. CASE Abort(c) BY <3>5 DEF Abort
    <3>6. CASE CheckDelivered(c) BY <3>6 DEF CheckDelivered, Return
    <3>7. CASE Withdraw(c) BY <3>7 DEF Withdraw, Return
    <3>8. QED BY <1>9, <3>1, <3>2, <3>3, <3>4, <3>5, <3>6, <3>7
  <2>3. \A d \in Callers : /\ pc'[d] \in {"bytes", "enqueue"} <=> pc[d] \in {"bytes", "enqueue"}
                           /\ pc'[d] = "enqueue" <=> pc[d] = "enqueue"
    BY <1>0, <2>2
  <2>4. QED BY <1>3, <2>1, <2>3, StillCInv
<1>10. QED BY <1>4, <1>5, <1>6, <1>7, <1>8, <1>9 DEF CallerStep

LEMMA TakeCInv ==
  ASSUME EInv, CInv, requests # <<>>, cur' = Head(requests), requests' = Tail(requests),
         dpc \in {"idle", "leaving", "drain"}, dpc' \in {"checkClosed", "release"},
         UNCHANGED <<pc, countUsed, bytesUsed>>
  PROVE  CInv'
<1>1. requests \in Seq(Callers) BY DEF EInv, TInv, TypeOK
<1>2. /\ Len(requests) > 0 /\ Len(requests') = Len(requests) - 1 /\ cur' = requests[1]
      /\ \A i \in 1..Len(requests') : requests'[i] = requests[i + 1]
  BY <1>1
<1>3. ASSUME NEW d \in Callers, Queued(d) PROVE Queued(d)' \/ d = cur'
  <2>1. PICK i \in 1..Len(requests) : requests[i] = d BY <1>3 DEF Queued
  <2>2. CASE i = 1 BY <1>2, <2>1, <2>2
  <2>3. CASE i # 1
    <3>1. i - 1 \in 1..Len(requests') /\ (i - 1) + 1 = i BY <1>1, <1>2, <2>1, <2>3
    <3>2. requests'[i - 1] = d BY <1>2, <2>1, <3>1
    <3>3. QED BY <3>1, <3>2 DEF Queued
  <2>4. QED BY <2>2, <2>3
<1>4. ASSUME NEW d \in Callers PROVE Queued(d)' \/ d = cur' => Queued(d)
  BY <1>1, <1>2 DEF Queued
<1>5. \A d \in Callers : Carried(d)' <=> Carried(d) BY <1>3, <1>4 DEF Carried, Carrying
<1>6. QED BY <1>5, StillCInv

LEMMA DispatcherCInv ==
  ASSUME EInv, CInv, DispatcherStep
  PROVE  CInv'
<1> USE DEF queueVars, callerVars, dispVars, DispatchKeeps
<1>1. CASE DispatchTake \/ DrainTake
  <2>1. /\ requests # <<>> /\ cur' = Head(requests) /\ requests' = Tail(requests)
        /\ dpc \in {"idle", "leaving", "drain"} /\ dpc' \in {"checkClosed", "release"}
        /\ UNCHANGED <<pc, countUsed, bytesUsed>>
    BY <1>1 DEF DispatchTake, DrainTake, Prepare
  <2>2. QED BY <2>1, TakeCInv
<1>2. CASE DeliverRelease
  <2>1. /\ dpc = "release" /\ dpc' = "store" /\ UNCHANGED <<pc, cur, requests>>
        /\ countUsed' = countUsed - 1 /\ bytesUsed' = bytesUsed - Bytes[cur]
    BY <1>2 DEF DeliverRelease, ReleaseCount, ReleaseBytes
  <2>2. cur \in Callers /\ Held(cur) BY <2>1 DEF EInv, TInv, CurOK, AtRequest, Held
  <2>3. pc[cur] \notin Early /\ ~Queued(cur) BY <2>2 DEF EInv, Pending, HeldApart
  <2>4. \A d \in Callers : Queued(d)' <=> Queued(d) BY <2>1 DEF Queued
  <2>5. Carried(cur) /\ \A d \in Callers : Carried(d)' <=> Carried(d) /\ d # cur
    BY <2>1, <2>3, <2>4 DEF Carried, Carrying
  <2>6. Counted(cur) /\ \A d \in Callers : Counted(d)' <=> Counted(d) /\ d # cur
    BY <2>1, <2>3, <2>5 DEF Counted, Early
  <2>7. Granted(cur) /\ \A d \in Callers : Granted(d)' <=> Granted(d) /\ d # cur
    BY <2>1, <2>3, <2>5 DEF Granted, Early
  <2>8. CountKept' BY <2>1, <2>2, <2>6, CountGiven DEF CInv
  <2>9. BytesKept' BY <2>1, <2>2, <2>7, BytesGiven DEF CInv
  <2>10. QED BY <2>8, <2>9 DEF CInv
<1>3. ASSUME UNCHANGED <<pc, countUsed, bytesUsed, requests>>,
             \A d \in Callers : (cur' = d /\ dpc' \in Carrying) <=> (cur = d /\ dpc \in Carrying)
      PROVE  CInv'
  <2>1. \A d \in Callers : Carried(d)' <=> Carried(d) BY <1>3 DEF Carried, Queued
  <2>2. QED BY <1>3, <2>1, StillCInv
<1>4. CASE \/ DispatchCheckClosed \/ DispatchCheckDone \/ DispatchClaim \/ DispatchBuild
           \/ DispatchWrite \/ DispatchWriteFail \/ DispatchStopped \/ CollectDone
  <2>1. UNCHANGED <<pc, countUsed, bytesUsed, requests, cur>> /\ dpc \in Carrying /\ dpc' \in Carrying
    BY <1>4 DEF DispatchCheckClosed, DispatchCheckDone, DispatchClaim, DispatchBuild, DispatchWrite,
       DispatchWriteFail, DispatchStopped, CollectDone, Prepare, Carrying
  <2>2. QED BY <1>3, <2>1
<1>5. CASE DeliverStore \/ DeliverSend \/ DispatchLeave \/ DrainEnd
  <2>1. UNCHANGED <<pc, countUsed, bytesUsed, requests>> /\ dpc \notin Carrying /\ dpc' \notin Carrying
    BY <1>5 DEF DeliverStore, DeliverSend, DispatchLeave, DrainEnd, Carrying, EInv, TInv, TypeOK
  <2>2. QED BY <1>3, <2>1
<1>6. ASSUME NEW ok \in BOOLEAN, dpc = "collect", Conclude(ok),
             UNCHANGED <<pc, countUsed, bytesUsed, requests>>
      PROVE  CInv'
  <2>1. CASE cur = Hello
    <3>1. dpc' \in {"idle", "exit"} BY <1>6, <2>1 DEF Conclude
    <3>2. QED BY <1>3, <1>6, <2>1, <3>1, ConnAssumption DEF Carrying
  <2>2. CASE cur # Hello
    <3>1. dpc' = "release" /\ cur' = cur BY <1>6, <2>2 DEF Conclude, Prepare
    <3>2. QED BY <1>3, <1>6, <3>1 DEF Carrying
  <2>3. QED BY <2>1, <2>2
<1>7. CASE CollectStopped BY <1>6, <1>7 DEF CollectStopped
<1>8. CASE CollectFrame
  <2>1. dpc = "collect" /\ UNCHANGED <<pc, countUsed, bytesUsed, requests>> BY <1>8 DEF CollectFrame
  <2>2. CASE Finishes(Head(frames))
    <3>1. PICK ok \in BOOLEAN : Conclude(ok) BY <1>8, <2>2 DEF CollectFrame
    <3>2. QED BY <1>6, <2>1, <3>1
  <2>3. CASE ~Finishes(Head(frames))
    <3>1. UNCHANGED <<cur, dpc>> BY <1>8, <2>3 DEF CollectFrame
    <3>2. QED BY <1>3, <2>1, <3>1
  <2>4. QED BY <2>2, <2>3
<1>9. CASE CollectTimeout
  <2>1. UNCHANGED <<pc, countUsed, bytesUsed, requests>> /\ dpc = "collect" BY <1>9 DEF CollectTimeout
  <2>2. \/ cur = Hello /\ dpc' = "exit"
        \/ cur' = cur /\ dpc' = "stopping"
    BY <1>9 DEF CollectTimeout
  <2>3. QED BY <1>3, <2>1, <2>2, ConnAssumption DEF Carrying
<1>10. QED
  BY <1>1, <1>2, <1>4, <1>5, <1>7, <1>8, <1>9 DEF DispatcherStep

LEMMA OtherCInv ==
  ASSUME CInv, UNCHANGED <<pc, queueVars, dpc, cur>>
  PROVE  CInv'
<1>1. \A d \in Callers : Carried(d)' <=> Carried(d) BY DEF Carried, Queued, queueVars
<1>2. QED BY <1>1, StillCInv DEF queueVars

LEMMA NextCInv == EInv /\ CInv /\ [Next]_vars => CInv'
<1>1. ASSUME ReaderStep \/ StopStep \/ WorkStep \/ CloseStep \/ DaemonStep \/ ParentCancel
      PROVE  UNCHANGED <<pc, queueVars, dpc, cur>>
  BY <1>1 DEF ReaderStep, StopStep, WorkStep, CloseStep, ParentCancel, ReaderRead, ReaderSend,
     ReaderQuit, ReaderFail, StopSignal, StopFinish, Finish, OpenerReady, OpenerCancelled,
     OpenerFailed, WorkerFire, WorkerEnd, CloseCall, CloseReturn, ReaderKeeps, OtherKeeps,
     DaemonStep, DaemonBody, DaemonNonce, DaemonForeign, ClientEnd, EnvKeeps,
     queueVars, callerVars, dispVars
<1>2. UNCHANGED vars => UNCHANGED <<pc, queueVars, dpc, cur>> BY DEF vars, callerVars, dispVars
<1>3. QED BY <1>1, <1>2, CallerCInv, DispatcherCInv, OtherCInv DEF Next

\* The requests in the queue are different calls, each with its permit, and a call about to
\* enqueue holds one more.
LEMMA RoomLeft ==
  ASSUME EInv, CInv, NEW c \in Callers, pc[c] = "enqueue"
  PROVE  Len(requests) < QueueDepth
<1> DEFINE T == Counts \ {c}
<1>1. requests \in Seq(Callers) /\ Len(requests) \in Nat BY DEF EInv, TInv, TypeOK
<1>2. ~Queued(c) BY EarlyFacts DEF Early
<1>3. \A i \in 1..Len(requests) : requests[i] \in T
  <2> TAKE i \in 1..Len(requests)
  <2>1. requests[i] \in Callers BY <1>1
  <2>2. Queued(requests[i]) BY DEF Queued
  <2>3. QED BY <1>2, <2>1, <2>2 DEF Counts, Counted, Carried
<1>4. c \in Counts /\ IsFiniteSet(Counts) /\ Cardinality(Counts) \in Nat BY SubsetsFinite DEF Counts, Counted
<1>5. IsFiniteSet(T) /\ Cardinality(T) = Cardinality(Counts) - 1 BY <1>4, FS_RemoveElement
<1>6. requests \in Injection(1..Len(requests), T)
  <2>1. requests \in [1..Len(requests) -> T] BY <1>1, <1>3
  <2>2. QED BY <2>1 DEF EInv, QueuedOnce, Injection, IsInjective
<1>7. Cardinality(1..Len(requests)) = Len(requests) BY <1>1, FS_Interval
<1> HIDE DEF T
<1>8. Cardinality(1..Len(requests)) <= Cardinality(T) BY <1>5, <1>6, FS_Injection
<1>9. QED BY <1>1, <1>4, <1>5, <1>7, <1>8, ConnAssumption DEF CInv, CountKept

\* Both semaphores account for exactly the calls between acquire and deliver, within their
\* limits, and enqueueRequest always finds room.
THEOREM CapacityKept == Spec => []CapacityConserved
<1>1. ASSUME EInv, CInv PROVE CapacityConserved
  <2>1. \A c \in Callers : Holding(c) <=> Counted(c)
    <3>1. requests \in Seq(Callers) BY <1>1 DEF EInv, TInv, TypeOK
    <3>2. DOMAIN requests = 1..Len(requests) BY <3>1
    <3>3. QED BY <3>2 DEF Holding, Counted, Carried, Queued, Carrying
  <2>2. {c \in Callers : Holding(c)} = Counts BY <2>1 DEF Counts
  <2>3. Cardinality(Weight(Grants)) \in Nat BY <1>1, FS_CardinalityType DEF CInv, BytesKept
  <2>4. bytesUsed \in 0..QueuedBytes BY <1>1, <2>3, ConnAssumption DEF CInv, BytesKept
  <2>5. ASSUME countUsed = 0 PROVE bytesUsed = 0
    <3>1. IsFiniteSet(Counts) BY SubsetsFinite DEF Counts
    <3>2. Counts = {} BY <1>1, <2>5, <3>1, FS_EmptySet DEF CInv, CountKept
    <3>3. Grants = {} BY <3>2 DEF Counts, Grants, Counted, Granted
    <3>4. Weight(Grants) = {} BY <3>3 DEF Weight
    <3>5. QED BY <1>1, <3>4, FS_EmptySet DEF CInv, BytesKept
  <2>6. \A c \in Callers : pc[c] = "enqueue" => Len(requests) < QueueDepth BY <1>1, RoomLeft
  <2>7. QED BY <1>1, <2>2, <2>4, <2>5, <2>6 DEF CapacityConserved, CInv, CountKept
<1>2. EInv /\ CInv /\ [Next]_vars => EInv' /\ CInv' BY NextEInv, NextCInv
<1>3. QED BY InitEInv, InitCInv, <1>1, <1>2, PTL DEF Spec

(***************************************************************************)
(* A reply is the caller's own.  Frames carry no address: what tells them  *)
(* apart is that the pipes hold the lines and frames of one request at a   *)
(* time, its body's frame before its nonce and nothing after the nonce.    *)
(***************************************************************************)
Live == rpc \in {"read", "send"}

Sound(u)   == u.req = NoOne <=> u.kind \in {"foreign", "exit"}
OwnBody(u) == u.req = cur /\ u.kind \in {"out", "big", "fail"}

UnitsSound ==
    /\ \A i \in 1..Len(wire) : Sound(wire[i])
    /\ \A i \in 1..Len(frames) : Sound(frames[i]) /\ frames[i].kind # "exit"
    /\ Sound(held) /\ (rpc = "send" => held.kind # "exit") /\ (rpc # "send" => held = NoUnit)
    /\ ~Live => Closed

Fresh == dpc \in PreWrite \cup {"idle"} => got = {} /\ bad = FALSE

\* Nothing of any request is left in the pipes.
Emptied ==
    /\ inbox = <<>> /\ held.req = NoOne
    /\ \A i \in 1..Len(wire) : wire[i].req = NoOne
    /\ \A i \in 1..Len(frames) : frames[i].req = NoOne

BeforeWrite == \/ dpc \in {"checkDone", "claim", "build", "write"}
               \/ ~Closed /\ dpc \in {"idle", "checkClosed", "release", "store", "send"}

Clean == BeforeWrite => Emptied

\* The frame of the body is with the dispatcher, or in front of a place in the pipes.
Seen     == bad \/ [req |-> cur, kind |-> "out"] \in got
InFrames == Seen \/ \E i \in 1..Len(frames) : OwnBody(frames[i])
InHand   == InFrames \/ OwnBody(held)
InWire(n) == InHand \/ \E i \in 1..n : OwnBody(wire[i])

OneRequest ==
    /\ inbox \in {<<>>, <<NonceLine(cur)>>, WireOf(cur)}
    /\ held.req \in {cur, NoOne}
    /\ \A i \in 1..Len(wire) : wire[i].req \in {cur, NoOne}
    /\ \A i \in 1..Len(frames) : frames[i].req \in {cur, NoOne}

NonceLast ==
    /\ \A i \in 1..Len(wire) : Finishes(wire[i]) =>
          inbox = <<>> /\ \A j \in (i + 1)..Len(wire) : wire[j].req = NoOne
    /\ Finishes(held) => inbox = <<>> /\ \A j \in 1..Len(wire) : wire[j].req = NoOne
    /\ \A i \in 1..Len(frames) : Finishes(frames[i]) =>
          inbox = <<>> /\ held.req = NoOne /\ \A j \in 1..Len(wire) : wire[j].req = NoOne

BodyFirst ==
    /\ \A i \in 1..Len(frames) : Finishes(frames[i]) => Seen
    /\ Finishes(held) => InFrames
    /\ Live => \A i \in 1..Len(wire) : Finishes(wire[i]) => InWire(i - 1)
    /\ Live /\ alive /\ inbox = <<NonceLine(cur)>> => InWire(Len(wire))

OwnOutput(c) == {[req |-> c, kind |-> "out"]}

Collecting == dpc = "collect" =>
    /\ OneRequest /\ NonceLast /\ BodyFirst
    /\ cur \in Callers /\ ~bad => got \subseteq OwnOutput(cur)

Confirmed ==
    /\ out = "confirmed" /\ dpc \in {"release", "store", "send"} => got = OwnOutput(cur)
    /\ dpc = "stopping" => out = "unknown"
    /\ \A c \in Callers : /\ result[c].effect = "confirmed" => result[c].units = OwnOutput(c)
                          /\ ret[c].effect = "confirmed" => ret[c].units = OwnOutput(c)

PInv == UnitsSound /\ Fresh /\ Clean /\ Collecting /\ Confirmed

LEMMA InitPInv == Init => PInv
<1> SUFFICES ASSUME Init PROVE PInv OBVIOUS
<1>1. /\ cur = Hello /\ got = {} /\ bad = FALSE /\ dpc = "collect" /\ rpc = "read" /\ held = NoUnit
      /\ wire = <<>> /\ frames = <<>> /\ inbox = WireOf(Hello) /\ out = "unknown"
      /\ NoUnit.req = NoOne /\ NoUnit.kind = "exit" /\ Hello \notin Callers
      /\ inbox # <<NonceLine(Hello)>>
  BY ConnAssumption DEF Init, NoUnit, WireOf
<1>2. \A c \in Callers : result[c] = NoReply /\ ret[c] = NoReply /\ NoReply.effect # "confirmed"
  BY DEF Init, NoReply
<1>3. UnitsSound BY <1>1 DEF UnitsSound, Sound, Live
<1>4. Fresh /\ Clean BY <1>1 DEF Fresh, Clean, BeforeWrite, PreWrite
<1>5. OneRequest BY <1>1 DEF OneRequest
<1>6. NonceLast BY <1>1 DEF NonceLast, Finishes
<1>7. BodyFirst BY <1>1 DEF BodyFirst, Finishes
<1>8. Collecting BY <1>1, <1>5, <1>6, <1>7 DEF Collecting
<1>9. Confirmed BY <1>1, <1>2 DEF Confirmed
<1>10. QED BY <1>3, <1>4, <1>8, <1>9 DEF PInv

chan == <<wire, frames, held, rpc, inbox>>

LEMMA StopCloses == ASSUME NEW cause, Stop(cause) PROVE Closed' /\ (Closed => stage' = stage)
  BY DEF Stop, Closed, connVars

LEMMA StaysClosed == [Next]_vars /\ Closed => Closed'
<1> SUFFICES ASSUME [Next]_vars, Closed PROVE Closed' OBVIOUS
<1>1. ASSUME stage' = stage \/ stage' \in {"signalled", "stopped"} \/ \E cause : Stop(cause)
      PROVE  Closed'
  BY <1>1, StopCloses DEF Closed
<1>2. CASE \E c \in Callers : CallerStep(c)
  <2>1. stage' = stage
    BY <1>2 DEF CallerStep, Call, Expire, WatchStop, AcquireCount, AcquireBytes, AcquireFail,
       Enqueue, Receive, Abort, CheckDelivered, Withdraw, connVars
  <2>2. QED BY <1>1, <2>1
<1>3. CASE DispatcherStep
  <2>1. ASSUME NEW ok \in BOOLEAN, Conclude(ok) PROVE stage' = stage \/ \E cause : Stop(cause)
    <3>1. CASE cur = Hello BY <2>1, <3>1 DEF Conclude, connVars
    <3>2. CASE cur # Hello BY <2>1, <3>2 DEF Conclude, connVars
    <3>3. QED BY <3>1, <3>2
  <2>2. CASE CollectFrame
    <3>1. CASE Finishes(Head(frames))
      <4>1. PICK ok \in BOOLEAN : Conclude(ok) BY <2>2, <3>1 DEF CollectFrame
      <4>2. QED BY <1>1, <2>1, <4>1
    <3>2. CASE ~Finishes(Head(frames))
      <4>1. stage' = stage BY <2>2, <3>2 DEF CollectFrame, connVars
      <4>2. QED BY <1>1, <4>1
    <3>3. QED BY <3>1, <3>2
  <2>3. CASE CollectStopped BY <1>1, <2>1, <2>3 DEF CollectStopped
  <2>4. CASE DispatchWriteFail \/ CollectTimeout \/ DispatchLeave
    BY <1>1, <2>4 DEF DispatchWriteFail, CollectTimeout, DispatchLeave
  <2>5. CASE \/ DispatchTake \/ DispatchCheckClosed \/ DispatchCheckDone \/ DispatchClaim
             \/ DispatchBuild \/ DispatchWrite \/ DispatchStopped \/ CollectDone \/ DeliverRelease
             \/ DeliverStore \/ DeliverSend \/ DrainTake \/ DrainEnd
    <3>1. stage' = stage
      BY <2>5 DEF DispatchTake, DispatchCheckClosed, DispatchCheckDone, DispatchClaim,
         DispatchBuild, DispatchWrite, DispatchStopped, CollectDone, DeliverRelease, DeliverStore,
         DeliverSend, DrainTake, DrainEnd, connVars
    <3>2. QED BY <1>1, <3>1
  <2>6. QED BY <1>3, <2>2, <2>3, <2>4, <2>5 DEF DispatcherStep
<1>4. CASE ReaderStep \/ StopStep \/ WorkStep \/ CloseStep \/ DaemonStep \/ ParentCancel
  <2>1. stage' = stage \/ stage' \in {"signalled", "stopped"} \/ \E cause : Stop(cause)
    BY <1>4 DEF ReaderStep, StopStep, WorkStep, CloseStep, ParentCancel, ReaderRead, ReaderSend,
       ReaderQuit, ReaderFail, StopSignal, StopFinish, Finish, OpenerReady, OpenerCancelled,
       OpenerFailed, WorkerFire, WorkerEnd, CloseCall, CloseReturn,
       DaemonStep, DaemonBody, DaemonNonce, DaemonForeign, ClientEnd, EnvKeeps, connVars
  <2>2. QED BY <1>1, <2>1
<1>5. CASE UNCHANGED vars BY <1>1, <1>5 DEF vars, connVars
<1>6. QED BY <1>2, <1>3, <1>4, <1>5 DEF Next

\* What PInv says of the pipes holds while they rest.
LEMMA SoundRests ==
  ASSUME UnitsSound, UNCHANGED <<wire, frames, held, rpc>>, Closed => Closed'
  PROVE  UnitsSound'
  BY DEF UnitsSound, Sound, Live

LEMMA EmptiedRests == ASSUME UNCHANGED chan PROVE Emptied' <=> Emptied
  BY DEF Emptied, chan

LEMMA CollectingRests ==
  ASSUME Collecting, UNCHANGED <<chan, dpc, cur, got>>, alive' => alive,
         bad' = bad \/ bad' = TRUE
  PROVE  Collecting'
<1> SUFFICES ASSUME dpc = "collect"
             PROVE  /\ OneRequest' /\ NonceLast' /\ BodyFirst'
                    /\ cur' \in Callers /\ ~bad' => got' \subseteq OwnOutput(cur')
  BY DEF Collecting
<1>1. OneRequest' BY DEF Collecting, OneRequest, chan, NonceLine, WireOf, BodyLine
<1>2. \A u : Finishes(u)' <=> Finishes(u) BY DEF Finishes
<1>3. NonceLast' BY <1>2 DEF Collecting, NonceLast, chan
<1>4. /\ Seen => Seen'
      /\ InFrames => InFrames'
      /\ \A n : InWire(n) => InWire(n)'
  BY DEF InWire, InHand, InFrames, Seen, OwnBody, chan
<1>5. BodyFirst'
  <2>1. Live' <=> Live BY DEF Live, chan
  <2>2. \A i \in 1..Len(frames') : Finishes(frames'[i]) => Seen'
    BY <1>2, <1>4 DEF Collecting, BodyFirst, chan
  <2>3. Finishes(held') => InFrames' BY <1>2, <1>4 DEF Collecting, BodyFirst, chan
  <2>4. Live' => \A i \in 1..Len(wire') : Finishes(wire'[i]) => InWire(i - 1)'
    BY <1>2, <1>4, <2>1 DEF Collecting, BodyFirst, chan
  <2>5. Live' /\ alive' /\ inbox' = <<NonceLine(cur)>>' => InWire(Len(wire))'
    BY <1>4, <2>1 DEF Collecting, BodyFirst, chan, NonceLine, InWire
  <2>6. QED BY <1>2, <2>2, <2>3, <2>4, <2>5 DEF BodyFirst
<1>6. QED BY <1>1, <1>3, <1>5 DEF Collecting

\* A step away from the pipes and from the dispatcher.
LEMMA ElsewherePInv ==
  ASSUME PInv, UNCHANGED <<chan, dpc, cur, got, bad, out>>, alive' => alive,
         Closed => Closed', Confirmed'
  PROVE  PInv'
<1>1. UnitsSound' BY SoundRests DEF PInv, chan
<1>2. Fresh' BY DEF PInv, Fresh
<1>3. Clean' BY EmptiedRests DEF PInv, Clean, BeforeWrite
<1>4. Collecting' BY CollectingRests DEF PInv
<1>5. QED BY <1>1, <1>2, <1>3, <1>4 DEF PInv

LEMMA CallerPInv ==
  ASSUME TInv, PInv, NEW c \in Callers, CallerStep(c), Closed => Closed'
  PROVE  PInv'
<1> USE DEF queueVars, callerVars, dispVars, replyVars, procVars, readerVars
<1>0. /\ ret \in [Callers -> Reply \cup {NoReply}] /\ result \in [Callers -> Reply \cup {NoReply}]
  BY DEF TInv, TypeOK
<1>1. UNCHANGED <<chan, dpc, cur, got, bad, out, alive>>
  BY DEF CallerStep, Call, Expire, WatchStop, AcquireCount, AcquireBytes, AcquireFail, Enqueue,
     Receive, Abort, CheckDelivered, Withdraw, chan
<1>2. Refused.effect # "confirmed" /\ Doubt.effect # "confirmed" /\ NoReply.effect # "confirmed"
  BY DEF Refused, Doubt, NoReply
<1>3. /\ \/ ret' = ret
         \/ \E reply \in {Refused, Doubt, result[c]} : ret' = [ret EXCEPT ![c] = reply]
      /\ result' = result \/ result' = [result EXCEPT ![c] = NoReply]
  <2>1. CASE Call(c) BY <2>1 DEF Call, Return
  <2>2. CASE Expire(c) \/ WatchStop(c) \/ AcquireCount(c) \/ AcquireBytes(c) \/ Abort(c)
    BY <2>2 DEF Expire, WatchStop, AcquireCount, AcquireBytes, Abort
  <2>3. CASE AcquireFail(c) \/ Enqueue(c) BY <2>3 DEF AcquireFail, Enqueue, Return
  <2>4. CASE Receive(c) BY <2>4 DEF Receive, Return
  <2>5. CASE CheckDelivered(c) BY <2>5 DEF CheckDelivered, Return
  <2>6. CASE Withdraw(c) BY <2>6 DEF Withdraw, Return
  <2>7. QED BY <2>1, <2>2, <2>3, <2>4, <2>5, <2>6 DEF CallerStep
<1>4. ASSUME NEW d \in Callers
      PROVE  /\ result'[d].effect = "confirmed" => result'[d].units = OwnOutput(d)
             /\ ret'[d].effect = "confirmed" => ret'[d].units = OwnOutput(d)
  <2>1. result'[d] \in {result[d], NoReply} /\ ret'[d] \in {ret[d], Refused, Doubt, result[d]}
    BY <1>0, <1>3
  <2>2. QED BY <1>2, <2>1 DEF PInv, Confirmed
<1>5. Confirmed' BY <1>1, <1>4 DEF PInv, Confirmed, OwnOutput
<1>6. QED BY <1>1, <1>5, ElsewherePInv

\* The dispatcher between two requests, or with one that is not being collected.
LEMMA AwayPInv ==
  ASSUME PInv, UNCHANGED <<chan, ret, result>>, Closed => Closed', dpc' # "collect",
         dpc' \in PreWrite \cup {"idle"} => got' = {} /\ bad' = FALSE,
         BeforeWrite' => BeforeWrite \/ Emptied,
         out' = "confirmed" /\ dpc' \in {"release", "store", "send"} => got' = OwnOutput(cur)',
         dpc' = "stopping" => out' = "unknown"
  PROVE  PInv'
<1>1. UnitsSound' BY SoundRests DEF PInv, chan
<1>2. Fresh' BY DEF Fresh
<1>3. Clean' BY EmptiedRests DEF PInv, Clean
<1>4. Collecting' BY DEF Collecting
<1>5. Confirmed' BY DEF PInv, Confirmed, OwnOutput
<1>6. QED BY <1>1, <1>2, <1>3, <1>4, <1>5 DEF PInv

\* The two lines of the request are all there is.
LEMMA WritePInv ==
  ASSUME TInv, PInv, DispatchWrite, Closed => Closed'
  PROVE  PInv'
<1> USE DEF callerVars, readerVars, replyVars
<1>1. /\ dpc = "write" /\ dpc' = "collect" /\ inbox' = inbox \o WireOf(cur)
      /\ UNCHANGED <<wire, frames, held, rpc, alive, cur, got, bad, out, ret, result>>
  BY DEF DispatchWrite
<1>2. Emptied /\ got = {} /\ bad = FALSE
  BY <1>1 DEF PInv, Clean, BeforeWrite, Fresh, PreWrite
<1>3. inbox' = WireOf(cur) BY <1>1, <1>2 DEF Emptied, WireOf
<1>4. cur \in Callers /\ cur # NoOne
  BY <1>1, ConnAssumption DEF TInv, CurOK, AtRequest
<1>5. UnitsSound' BY <1>1, SoundRests DEF PInv
<1>6. Fresh' /\ Clean' BY <1>1 DEF Fresh, Clean, BeforeWrite, PreWrite
<1>7. OneRequest' BY <1>1, <1>2, <1>3 DEF OneRequest, Emptied, WireOf, BodyLine, NonceLine
<1>8. \A u : u.req = NoOne => ~Finishes(u)' BY <1>1, <1>4 DEF Finishes
<1>9. NonceLast' BY <1>1, <1>2, <1>8 DEF NonceLast, Emptied
<1>10. inbox' # <<NonceLine(cur)>>' BY <1>3 DEF WireOf
<1>11. BodyFirst' BY <1>1, <1>2, <1>8, <1>10 DEF BodyFirst, Emptied
<1>12. Collecting' BY <1>1, <1>2, <1>7, <1>9, <1>11 DEF Collecting
<1>13. Confirmed' BY <1>1 DEF PInv, Confirmed
<1>14. QED BY <1>5, <1>6, <1>12, <1>13 DEF PInv

\* The frame channel has capacity one: its frame is its first and its last.
LEMMA OneLong ==
  ASSUME NEW S, NEW s \in Seq(S), s # <<>>, Len(s) <= 1
  PROVE  Len(s) = 1 /\ Head(s) = s[1] /\ s[1] \in S /\ \A i \in 1..Len(Tail(s)) : FALSE
<1> DEFINE n == Len(s)
           m == Len(Tail(s))
<1>1. n \in Nat /\ n # 0 /\ n <= 1 OBVIOUS
<1>2. m = n - 1 OBVIOUS
<1> HIDE DEF n, m
<1>3. n = 1 BY <1>1
<1>4. m = 0 BY <1>2, <1>3
<1>5. Head(s) = s[1] /\ s[1] \in S BY <1>3 DEF n
<1>6. ASSUME NEW i \in 1..m PROVE FALSE BY <1>4
<1>7. QED BY <1>3, <1>5, <1>6 DEF n, m

\* A frame that is not the nonce of the request goes to the reply or spoils it.
LEMMA FramePInv ==
  ASSUME TInv, PInv, CollectFrame, ~Finishes(Head(frames)), Closed => Closed'
  PROVE  PInv'
<1> DEFINE u == Head(frames)
<1> USE DEF callerVars, replyVars
<1>1. /\ dpc = "collect" /\ frames # <<>> /\ frames' = Tail(frames)
      /\ got' = IF Library(u) \/ cur = Hello THEN got \cup {u} ELSE got
      /\ bad' = (bad \/ Spoils(u))
      /\ UNCHANGED <<dpc, cur, out, wire, held, rpc, inbox, alive, ret, result>>
  BY DEF CollectFrame, procVars
<1>2. frames \in Seq(Unit) /\ Len(frames) <= 1 /\ bad \in BOOLEAN /\ cur \in Requests
  BY DEF TInv, TypeOK
<1>3. Len(frames) = 1 /\ u = frames[1] /\ u \in Unit /\ \A i \in 1..Len(frames') : FALSE
  BY <1>1, <1>2, OneLong
<1>4. /\ OneRequest /\ NonceLast /\ BodyFirst
      /\ cur \in Callers /\ ~bad => got \subseteq OwnOutput(cur)
  BY <1>1 DEF PInv, Collecting
<1>5. u.req \in {cur, NoOne} /\ Sound(u) /\ u.kind # "exit" /\ ~Finishes(u)
  BY <1>3, <1>4 DEF OneRequest, PInv, UnitsSound
<1>6. u = [req |-> u.req, kind |-> u.kind] /\ u.kind \in UnitKinds BY <1>3 DEF Unit
<1>7. OwnBody(u) => Seen'
  <2>1. ASSUME OwnBody(u), u.kind = "out" PROVE Seen'
    <3>1. u = [req |-> cur, kind |-> "out"] BY <1>6, <2>1 DEF OwnBody
    <3>2. Library(u) BY <2>1 DEF Library
    <3>3. QED BY <1>1, <3>1, <3>2 DEF Seen
  <2>2. ASSUME OwnBody(u), u.kind # "out" PROVE Seen'
    <3>1. Spoils(u) BY <2>2 DEF OwnBody, Spoils
    <3>2. QED BY <1>1, <3>1 DEF Seen
  <2>3. QED BY <2>1, <2>2
<1>8. Seen => Seen' BY <1>1 DEF Seen
<1> HIDE DEF u
<1>9. InFrames => Seen'
  <2>1. ASSUME NEW i \in 1..Len(frames), OwnBody(frames[i]) PROVE Seen'
    <3>1. i = 1 BY <1>3
    <3>2. QED BY <1>3, <1>7, <2>1, <3>1
  <2>2. QED BY <1>8, <2>1 DEF InFrames
<1>10. \A v : (OwnBody(v)' <=> OwnBody(v)) /\ (Finishes(v)' <=> Finishes(v))
  BY <1>1 DEF OwnBody, Finishes
<1>11. InFrames' <=> Seen' BY <1>3 DEF InFrames
<1>12. \A n : InWire(n) => InWire(n)'
  BY <1>1, <1>9, <1>10, <1>11 DEF InWire, InHand
<1>13. OneRequest' BY <1>1, <1>3, <1>4 DEF OneRequest, WireOf, NonceLine, BodyLine
<1>14. NonceLast' BY <1>1, <1>3, <1>4, <1>10 DEF NonceLast
<1>15. BodyFirst'
  <2>1. \A i \in 1..Len(frames') : Finishes(frames'[i]) => Seen' BY <1>3
  <2>2. Finishes(held') => InFrames' BY <1>1, <1>4, <1>9, <1>10, <1>11 DEF BodyFirst
  <2>3. Live' => \A i \in 1..Len(wire') : Finishes(wire'[i]) => InWire(i - 1)'
    BY <1>1, <1>4, <1>10, <1>12 DEF BodyFirst, Live
  <2>4. Live' /\ alive' /\ inbox' = <<NonceLine(cur)>>' => InWire(Len(wire))'
    <3>1. Live /\ alive /\ inbox = <<NonceLine(cur)>> => InWire(Len(wire)) BY <1>4 DEF BodyFirst
    <3>2. Live' /\ alive' /\ inbox' = <<NonceLine(cur)>>' => InWire(Len(wire))
      BY <1>1, <3>1 DEF Live, NonceLine
    <3>3. QED BY <1>1, <1>12, <3>2 DEF InWire
  <2>5. QED BY <1>10, <2>1, <2>2, <2>3, <2>4 DEF BodyFirst
<1>16. ASSUME cur \in Callers, ~bad' PROVE got' \subseteq OwnOutput(cur)
  <2>1. cur # Hello /\ ~bad /\ ~Spoils(u) BY <1>1, <1>16, ConnAssumption DEF u
  <2>2. u.kind \in {"out", "nonce"} BY <1>5, <1>6, <2>1 DEF Spoils, UnitKinds
  <2>3. u.req = cur BY <1>5, <2>2 DEF Sound
  <2>4. u.kind = "out" BY <1>5, <2>2, <2>3 DEF Finishes
  <2>5. u \in OwnOutput(cur) BY <1>6, <2>3, <2>4 DEF OwnOutput
  <2>6. got \subseteq OwnOutput(cur) BY <1>4, <1>16, <2>1
  <2>7. got' \subseteq got \cup {u} BY <1>1 DEF u
  <2>8. QED BY <2>5, <2>6, <2>7
<1>17. Collecting'
  <2>1. cur' \in Callers /\ ~bad' => got' \subseteq OwnOutput(cur)' BY <1>1, <1>16 DEF OwnOutput
  <2>2. QED BY <1>13, <1>14, <1>15, <2>1 DEF Collecting
<1>18. UnitsSound' BY <1>1, <1>3 DEF PInv, UnitsSound, Sound, Live
<1>19. Fresh' /\ Clean' BY <1>1 DEF Fresh, Clean, BeforeWrite, PreWrite
<1>20. Confirmed' BY <1>1 DEF PInv, Confirmed
<1>21. QED BY <1>17, <1>18, <1>19, <1>20 DEF PInv

\* The nonce of the request ends its reply and leaves the pipes empty.
LEMMA NoncePInv ==
  ASSUME TInv, PInv, CollectFrame, Finishes(Head(frames)), Closed => Closed'
  PROVE  PInv'
<1> USE DEF callerVars, replyVars, procVars
<1>1. /\ dpc = "collect" /\ frames # <<>> /\ frames' = Tail(frames)
      /\ Conclude(~bad /\ Verified)
      /\ UNCHANGED <<wire, held, rpc, inbox, ret, result>>
  BY DEF CollectFrame
<1>2. frames \in Seq(Unit) /\ Len(frames) <= 1 /\ bad \in BOOLEAN BY DEF TInv, TypeOK
<1>3. Len(frames) = 1 /\ Finishes(frames[1]) /\ \A i \in 1..Len(frames') : FALSE
  BY <1>1, <1>2, OneLong
<1>4. 1 \in 1..Len(frames) BY <1>3
<1>5. /\ NonceLast /\ BodyFirst /\ (cur \in Callers /\ ~bad => got \subseteq OwnOutput(cur))
  BY <1>1 DEF PInv, Collecting
<1>6. Seen BY <1>3, <1>4, <1>5 DEF BodyFirst
<1>7. Emptied'
  <2>1. inbox = <<>> /\ held.req = NoOne /\ \A j \in 1..Len(wire) : wire[j].req = NoOne
    BY <1>3, <1>4, <1>5 DEF NonceLast
  <2>2. QED BY <1>1, <1>3, <2>1 DEF Emptied
<1>8. UnitsSound' BY <1>1, <1>3 DEF PInv, UnitsSound, Sound, Live
<1>9. Clean' BY <1>7 DEF Clean
<1>10. CASE cur = Hello
  <2>1. dpc' \in {"idle", "exit"} /\ got' = {} /\ bad' = FALSE
    BY <1>1, <1>10 DEF Conclude, Forget
  <2>2. Fresh' /\ Collecting' BY <2>1 DEF Fresh, Collecting
  <2>3. Confirmed' BY <1>1, <2>1 DEF PInv, Confirmed
  <2>4. QED BY <1>8, <1>9, <2>2, <2>3 DEF PInv
<1>11. CASE cur # Hello
  <2>1. /\ dpc' = "release" /\ UNCHANGED <<cur, got, bad>>
        /\ out' = IF ~bad /\ Verified THEN "confirmed" ELSE "unknown"
    BY <1>1, <1>11 DEF Conclude, Prepare
  <2>2. Fresh' /\ Collecting' BY <2>1 DEF Fresh, Collecting, PreWrite
  <2>3. cur \in Callers BY <1>11 DEF TInv, TypeOK, Requests
  <2>4. out' = "confirmed" => got = OwnOutput(cur)
    BY <1>5, <1>6, <2>1, <2>3 DEF Seen, OwnOutput
  <2>5. Confirmed' BY <1>1, <2>1, <2>4 DEF PInv, Confirmed, OwnOutput
  <2>6. QED BY <1>8, <1>9, <2>2, <2>5 DEF PInv
<1>12. QED BY <1>10, <1>11

LEMMA DispatcherPInv ==
  ASSUME TInv, PInv, DispatcherStep, Closed => Closed'
  PROVE  PInv'
<1> USE DEF callerVars, replyVars, procVars, readerVars, DispatchKeeps
<1>1. CASE DispatchTake
  <2>1. /\ dpc = "idle" /\ dpc' = "checkClosed" /\ UNCHANGED <<chan, got, bad, out, ret, result>>
    BY <1>1 DEF DispatchTake, chan
  <2>2. got' = {} /\ bad' = FALSE BY <2>1 DEF PInv, Fresh
  <2>3. BeforeWrite' => BeforeWrite BY <2>1 DEF BeforeWrite
  <2>4. QED BY <2>1, <2>2, <2>3, AwayPInv
<1>2. CASE DispatchCheckClosed \/ DispatchCheckDone \/ DispatchClaim \/ DispatchBuild
  <2>1. /\ dpc \in PreWrite \ {"write"} /\ UNCHANGED <<chan, got, bad, ret, result, stage>>
        /\ \/ dpc' \in PreWrite /\ (dpc = "checkClosed" => ~Closed)
           \/ dpc' = "release" /\ out' = "notSent"
    BY <1>2 DEF DispatchCheckClosed, DispatchCheckDone, DispatchClaim, DispatchBuild, Prepare, chan,
       PreWrite, connVars
  <2>2. got' = {} /\ bad' = FALSE BY <2>1 DEF PInv, Fresh
  <2>3. BeforeWrite' => BeforeWrite BY <2>1 DEF BeforeWrite, PreWrite, Closed
  <2>4. dpc' \notin {"collect", "stopping"} BY <2>1 DEF PreWrite
  <2>5. out' = "confirmed" => dpc' \notin {"release", "store", "send"} BY <2>1 DEF PreWrite
  <2>6. QED BY <2>1, <2>2, <2>3, <2>4, <2>5, AwayPInv
<1>3. CASE DispatchWriteFail
  <2>1. /\ dpc' = "stopping" /\ out' = "unknown" /\ Stop("io")
        /\ UNCHANGED <<wire, frames, held, rpc, ret, result>>
    BY <1>3 DEF DispatchWriteFail, WriteFailed
  <2>2. UnitsSound' BY <2>1, SoundRests DEF PInv
  <2>3. Fresh' /\ Clean' /\ Collecting'
    BY <2>1 DEF Fresh, Clean, Collecting, BeforeWrite, PreWrite
  <2>4. Confirmed' BY <2>1 DEF PInv, Confirmed
  <2>5. QED BY <2>2, <2>3, <2>4 DEF PInv
<1>4. CASE DispatchStopped
  <2>1. /\ dpc = "stopping" /\ stage = "stopped" /\ stage' = stage /\ dpc' = "release"
        /\ UNCHANGED <<chan, ret, result, out>>
    BY <1>4 DEF DispatchStopped, connVars, chan
  <2>2. out' = "unknown" BY <2>1 DEF PInv, Confirmed
  <2>3. ~BeforeWrite' BY <2>1 DEF BeforeWrite, Closed
  <2>4. QED BY <2>1, <2>2, <2>3, AwayPInv DEF PreWrite
<1>5. CASE CollectStopped
  <2>1. dpc = "collect" /\ StopCh /\ Conclude(FALSE) /\ UNCHANGED <<chan, ret, result>>
    BY <1>5 DEF CollectStopped, chan
  <2>2. Closed BY <2>1 DEF StopCh, Closed
  <2>3. CASE cur = Hello
    <3>1. dpc' = "exit" /\ out' = "unknown" BY <2>1, <2>3 DEF Conclude, Forget
    <3>2. ~BeforeWrite' BY <3>1 DEF BeforeWrite
    <3>3. QED BY <2>1, <3>1, <3>2, AwayPInv DEF PreWrite
  <2>4. CASE cur # Hello
    <3>1. dpc' = "release" /\ out' = "unknown" BY <2>1, <2>4 DEF Conclude, Prepare
    <3>2. ~BeforeWrite' BY <2>2, <3>1 DEF BeforeWrite
    <3>3. QED BY <2>1, <3>1, <3>2, AwayPInv DEF PreWrite
  <2>5. QED BY <2>3, <2>4
<1>6. CASE CollectDone
  <2>1. /\ dpc = "collect" /\ bad' = TRUE
        /\ UNCHANGED <<chan, dpc, cur, got, out, alive, ret, result>>
    BY <1>6 DEF CollectDone, chan
  <2>2. UnitsSound' BY <2>1, SoundRests DEF PInv, chan
  <2>3. Fresh' /\ Clean' BY <2>1 DEF Fresh, Clean, BeforeWrite, PreWrite
  <2>4. Collecting' BY <2>1, CollectingRests DEF PInv
  <2>5. Confirmed' BY <2>1 DEF PInv, Confirmed
  <2>6. QED BY <2>2, <2>3, <2>4, <2>5 DEF PInv
<1>7. CASE CollectTimeout
  <2>1. Stop("protocol") /\ UNCHANGED <<chan, ret, result>> /\ out' = "unknown"
        /\ dpc' \in {"exit", "stopping"}
    BY <1>7 DEF CollectTimeout, Forget, chan
  <2>2. ~BeforeWrite' BY <2>1 DEF BeforeWrite
  <2>3. QED BY <2>1, <2>2, AwayPInv DEF PreWrite
<1>8. CASE DeliverRelease \/ DeliverStore
  <2>1. /\ dpc \in {"release", "store"} /\ dpc' \in {"store", "send"}
        /\ UNCHANGED <<chan, cur, got, out, ret, result, stage>>
    BY <1>8 DEF DeliverRelease, DeliverStore, chan, connVars
  <2>2. BeforeWrite' => BeforeWrite BY <2>1 DEF BeforeWrite, Closed
  <2>3. out = "confirmed" => got = OwnOutput(cur) BY <2>1 DEF PInv, Confirmed
  <2>4. QED BY <2>1, <2>2, <2>3, AwayPInv DEF PreWrite, OwnOutput
<1>9. CASE DeliverSend
  <2>1. /\ dpc = "send" /\ dpc' \in {"idle", "exit", "drain"} /\ UNCHANGED <<chan, ret, stage>>
        /\ got' = {} /\ bad' = FALSE /\ out' = "unknown"
        /\ result' = [result EXCEPT ![cur] = [effect |-> out, units |-> got]]
        /\ result \in [Callers -> Reply \cup {NoReply}]
    BY <1>9 DEF DeliverSend, Forget, chan, TInv, TypeOK, connVars
  <2>2. UnitsSound' BY <2>1, SoundRests DEF PInv, chan
  <2>3. Fresh' /\ Collecting' BY <2>1 DEF Fresh, Collecting
  <2>4. Clean' BY <2>1, EmptiedRests DEF PInv, Clean, BeforeWrite, Closed
  <2>5. ASSUME NEW d \in Callers, result'[d].effect = "confirmed"
        PROVE  result'[d].units = OwnOutput(d)
    <3>1. CASE d = cur
      <4>1. result'[d] = [effect |-> out, units |-> got] BY <2>1, <3>1
      <4>2. out = "confirmed" /\ result'[d].units = got BY <2>5, <4>1
      <4>3. QED BY <2>1, <3>1, <4>2 DEF PInv, Confirmed
    <3>2. CASE d # cur
      <4>1. result'[d] = result[d] BY <2>1, <3>2
      <4>2. QED BY <2>5, <4>1 DEF PInv, Confirmed
    <3>3. QED BY <3>1, <3>2
  <2>6. Confirmed' BY <2>1, <2>5 DEF PInv, Confirmed, OwnOutput
  <2>7. QED BY <2>2, <2>3, <2>4, <2>6 DEF PInv
<1>10. CASE DispatchLeave \/ DrainEnd
  <2>1. dpc' \in {"leaving", "done"} /\ UNCHANGED <<chan, ret, result>>
    BY <1>10 DEF DispatchLeave, DrainEnd, chan
  <2>2. ~BeforeWrite' BY <2>1 DEF BeforeWrite
  <2>3. QED BY <2>1, <2>2, AwayPInv DEF PreWrite
<1>11. CASE DrainTake
  <2>1. /\ dpc' = "release" /\ out' = "notSent" /\ stage = "stopped" /\ stage' = stage
        /\ UNCHANGED <<chan, ret, result>>
    BY <1>11 DEF DrainTake, Prepare, chan, connVars
  <2>2. ~BeforeWrite' BY <2>1 DEF BeforeWrite, Closed
  <2>3. QED BY <2>1, <2>2, AwayPInv DEF PreWrite
<1>12. QED
  BY <1>1, <1>2, <1>3, <1>4, <1>5, <1>6, <1>7, <1>8, <1>9, <1>10, <1>11, WritePInv, FramePInv,
     NoncePInv DEF DispatcherStep

\* The reader and the daemon leave the dispatcher where it is; Clean and Collecting are left to show.
LEMMA PipesPInv ==
  ASSUME PInv, UNCHANGED <<dpc, cur, got, bad, out, ret, result>>, Closed => Closed',
         UnitsSound', Emptied => Emptied', dpc = "collect" => OneRequest' /\ NonceLast' /\ BodyFirst'
  PROVE  PInv'
<1>1. Fresh' BY DEF PInv, Fresh
<1>2. Clean' BY DEF PInv, Clean, BeforeWrite
<1>3. Collecting' BY DEF PInv, Collecting, OwnOutput
<1>4. Confirmed' BY DEF PInv, Confirmed, OwnOutput
<1>5. QED BY <1>1, <1>2, <1>3, <1>4 DEF PInv

\* A unit goes from the client's output to the reader's hand.
LEMMA ReadPInv ==
  ASSUME TInv, PInv, ReaderRead, Closed => Closed'
  PROVE  PInv'
<1> USE DEF callerVars, replyVars, dispVars, ReaderKeeps
<1>1. /\ rpc = "read" /\ wire # <<>> /\ wire' = Tail(wire)
      /\ UNCHANGED <<frames, alive, inbox, dpc, cur, got, bad, out, ret, result>>
  BY DEF ReaderRead
<1>2. wire \in Seq(Unit) /\ cur # NoOne BY ConnAssumption DEF TInv, TypeOK, Requests
<1>3. /\ Len(wire) \in Nat /\ Len(wire) > 0 /\ Len(wire') = Len(wire) - 1 /\ Head(wire) = wire[1]
      /\ \A i \in 1..Len(wire') : wire'[i] = wire[i + 1] /\ i + 1 \in 1..Len(wire)
      /\ 1 \in 1..Len(wire)
  BY <1>1, <1>2
<1>4. held = NoUnit /\ NoUnit.req = NoOne /\ NoUnit.kind = "exit" /\ Sound(NoUnit)
  BY <1>1 DEF PInv, UnitsSound, NoUnit, Sound
<1>5. \/ wire[1].kind = "exit" /\ Stop("exit") /\ rpc' = "stopping" /\ held' = NoUnit
      \/ wire[1].kind # "exit" /\ rpc' = "send" /\ held' = wire[1]
  BY <1>3 DEF ReaderRead
<1>6. UnitsSound'
  <2>1. \A i \in 1..Len(wire') : Sound(wire'[i]) BY <1>3 DEF PInv, UnitsSound
  <2>2. Sound(held') BY <1>3, <1>4, <1>5 DEF PInv, UnitsSound
  <2>3. rpc' \notin {"read", "send"} => Closed' BY <1>5, StopCloses
  <2>4. QED BY <1>1, <1>5, <2>1, <2>2, <2>3 DEF PInv, UnitsSound, Sound, Live
<1>7. Emptied => Emptied' BY <1>1, <1>3, <1>4, <1>5 DEF Emptied
<1>8. ASSUME dpc = "collect" PROVE OneRequest' /\ NonceLast' /\ BodyFirst'
  <2>0. OneRequest /\ NonceLast /\ BodyFirst BY <1>8 DEF PInv, Collecting
  <2>1. OneRequest' BY <1>1, <1>3, <1>4, <1>5, <2>0 DEF OneRequest, WireOf, NonceLine, BodyLine
  <2>2. \A v : (OwnBody(v)' <=> OwnBody(v)) /\ (Finishes(v)' <=> Finishes(v))
    BY <1>1 DEF OwnBody, Finishes
  <2>3. ~OwnBody(NoUnit) /\ ~Finishes(NoUnit) BY <1>4 DEF OwnBody, Finishes
  <2>4. NonceLast'
    <3>1. ASSUME NEW i \in 1..Len(wire'), Finishes(wire'[i])
          PROVE  inbox' = <<>> /\ \A j \in (i + 1)..Len(wire') : wire'[j].req = NoOne
      <4>1. Finishes(wire[i + 1]) /\ i + 1 \in 1..Len(wire) BY <1>3, <3>1
      <4>2. inbox = <<>> /\ \A j \in ((i + 1) + 1)..Len(wire) : wire[j].req = NoOne
        BY <2>0, <4>1 DEF NonceLast
      <4>3. ASSUME NEW j \in (i + 1)..Len(wire') PROVE wire'[j].req = NoOne
        <5>1. j + 1 \in ((i + 1) + 1)..Len(wire) /\ j \in 1..Len(wire') BY <1>3
        <5>2. QED BY <1>3, <4>2, <5>1
      <4>4. QED BY <1>1, <4>2, <4>3
    <3>2. ASSUME Finishes(held')
          PROVE  inbox' = <<>> /\ \A j \in 1..Len(wire') : wire'[j].req = NoOne
      <4>1. Finishes(wire[1]) BY <1>5, <2>3, <3>2
      <4>2. inbox = <<>> /\ \A j \in (1 + 1)..Len(wire) : wire[j].req = NoOne
        BY <1>3, <2>0, <4>1 DEF NonceLast
      <4>3. ASSUME NEW j \in 1..Len(wire') PROVE wire'[j].req = NoOne
        <5>1. j + 1 \in (1 + 1)..Len(wire) BY <1>3
        <5>2. QED BY <1>3, <4>2, <5>1
      <4>4. QED BY <1>1, <4>2, <4>3
    <3>3. ASSUME NEW i \in 1..Len(frames'), Finishes(frames'[i])
          PROVE  inbox' = <<>> /\ held'.req = NoOne /\ \A j \in 1..Len(wire') : wire'[j].req = NoOne
      <4>1. inbox = <<>> /\ \A j \in 1..Len(wire) : wire[j].req = NoOne
        BY <1>1, <2>0, <3>3 DEF NonceLast
      <4>2. QED BY <1>1, <1>3, <1>4, <1>5, <4>1
    <3>4. QED BY <2>2, <3>1, <3>2, <3>3 DEF NonceLast
  <2>5. (Seen' <=> Seen) /\ (InFrames' <=> InFrames) BY <1>1, <2>2 DEF InFrames, Seen
  <2>6. CASE rpc' = "stopping"
    <3>1. held' = NoUnit /\ ~Live' BY <1>5, <2>6 DEF Live
    <3>2. QED BY <1>1, <2>0, <2>1, <2>2, <2>3, <2>4, <2>5, <3>1 DEF BodyFirst
  <2>7. CASE rpc' = "send"
    <3>1. held' = wire[1] /\ Live BY <1>1, <1>5, <2>7 DEF Live
    <3>2. InHand => InFrames BY <1>4, <2>3 DEF InHand
    <3>3. ASSUME NEW n \in 0..Len(wire'), InWire(n + 1) PROVE InWire(n)'
      <4>1. CASE InHand BY <2>5, <3>2, <4>1 DEF InWire, InHand
      <4>2. CASE ~InHand
        <5>1. PICK i \in 1..(n + 1) : OwnBody(wire[i]) BY <3>3, <4>2 DEF InWire
        <5>2. CASE i = 1 BY <2>2, <3>1, <5>1, <5>2 DEF InWire, InHand
        <5>3. CASE i # 1
          <6>1. i - 1 \in 1..n /\ i - 1 \in 1..Len(wire') /\ (i - 1) + 1 = i BY <1>3, <5>3
          <6>2. OwnBody(wire'[i - 1]) BY <1>3, <5>1, <6>1
          <6>3. QED BY <2>2, <6>1, <6>2 DEF InWire
        <5>4. QED BY <5>2, <5>3
      <4>3. QED BY <4>1, <4>2
    <3>4. Finishes(held') => InFrames'
      <4>1. Finishes(wire[1]) => InWire(1 - 1) BY <1>3, <2>0, <3>1 DEF BodyFirst
      <4>2. InWire(0) => InFrames BY <3>2 DEF InWire
      <4>3. QED BY <2>5, <3>1, <4>1, <4>2
    <3>5. ASSUME NEW i \in 1..Len(wire'), Finishes(wire'[i]) PROVE InWire(i - 1)'
      <4>1. Finishes(wire[i + 1]) /\ i + 1 \in 1..Len(wire) BY <1>3, <3>5
      <4>2. InWire((i + 1) - 1) BY <2>0, <3>1, <4>1 DEF BodyFirst
      <4>3. i - 1 \in 0..Len(wire') /\ (i + 1) - 1 = (i - 1) + 1 BY <1>3
      <4>4. InWire((i - 1) + 1) BY <4>2, <4>3
      <4>5. QED BY <3>3, <4>3, <4>4
    <3>6. ASSUME alive', inbox' = <<NonceLine(cur)>>' PROVE InWire(Len(wire))'
      <4>1. InWire(Len(wire)) BY <1>1, <2>0, <3>1, <3>6 DEF BodyFirst, NonceLine
      <4>2. PICK n \in 0..Len(wire') : n = Len(wire') /\ n + 1 = Len(wire) BY <1>3
      <4>3. InWire(n)' BY <3>3, <4>1, <4>2
      <4>4. QED BY <4>2, <4>3 DEF InWire
    <3>7. \A i \in 1..Len(frames') : Finishes(frames'[i]) => Seen'
      BY <1>1, <2>0, <2>2, <2>5 DEF BodyFirst
    <3>8. BodyFirst' BY <2>2, <3>4, <3>5, <3>6, <3>7 DEF BodyFirst
    <3>9. QED BY <2>1, <2>4, <3>8
  <2>8. QED BY <1>5, <2>6, <2>7
<1>9. QED BY <1>1, <1>6, <1>7, <1>8, PipesPInv

\* The reader hands its unit to the dispatcher, or drops it when the connection stops.
LEMMA ReaderPInv ==
  ASSUME TInv, PInv, ReaderSend \/ ReaderQuit \/ ReaderFail, Closed => Closed'
  PROVE  PInv'
<1> USE DEF callerVars, replyVars, dispVars, procVars, ReaderKeeps
<1>1. UNCHANGED <<wire, alive, inbox, dpc, cur, got, bad, out, ret, result>>
  BY DEF ReaderSend, ReaderQuit, ReaderFail
<1>2. NoUnit.req = NoOne /\ NoUnit.kind = "exit" /\ Sound(NoUnit) /\ cur # NoOne
  BY ConnAssumption DEF NoUnit, Sound, TInv, TypeOK, Requests
<1>3. \A v : (OwnBody(v)' <=> OwnBody(v)) /\ (Finishes(v)' <=> Finishes(v))
  BY <1>1 DEF OwnBody, Finishes
<1>4. ~OwnBody(NoUnit) /\ ~Finishes(NoUnit) BY <1>2 DEF OwnBody, Finishes
<1>5. Seen' <=> Seen BY <1>1 DEF Seen
<1>6. dpc = "collect" => OneRequest /\ NonceLast /\ BodyFirst BY DEF PInv, Collecting
<1>7. CASE ReaderSend
  <2>1. /\ rpc = "send" /\ rpc' = "read" /\ frames = <<>> /\ frames' = Append(frames, held)
        /\ held' = NoUnit
    BY <1>7 DEF ReaderSend, ReaderRoom
  <2>2. Len(frames) = 0 /\ Len(frames') = 1 /\ frames'[1] = held BY <2>1
  <2>3. \A i \in 1..Len(frames') : frames'[i] = held BY <2>2
  <2>4. UnitsSound' BY <1>1, <1>2, <2>1, <2>3 DEF PInv, UnitsSound, Sound, Live
  <2>5. Emptied => Emptied' BY <1>1, <1>2, <2>1, <2>3 DEF Emptied
  <2>6. ASSUME dpc = "collect" PROVE OneRequest' /\ NonceLast' /\ BodyFirst'
    <3>1. OneRequest' BY <1>1, <1>2, <1>6, <2>1, <2>3, <2>6 DEF OneRequest, WireOf, NonceLine, BodyLine
    <3>2. NonceLast' BY <1>1, <1>2, <1>3, <1>4, <1>6, <2>1, <2>3, <2>6 DEF NonceLast
    <3>3. InFrames <=> Seen BY <2>2 DEF InFrames
    <3>4. InFrames' <=> InHand
      BY <1>3, <1>5, <2>2, <2>3, <3>3 DEF InFrames, InHand
    <3>5. \A n : InWire(n) => InWire(n)' BY <1>1, <1>3, <3>4 DEF InWire, InHand
    <3>6. Live /\ Live' BY <2>1 DEF Live
    <3>7. \A i \in 1..Len(frames') : Finishes(frames'[i]) => Seen'
      BY <1>3, <1>5, <1>6, <2>3, <2>6, <3>3 DEF BodyFirst
    <3>8. ~Finishes(held') BY <1>3, <1>4, <2>1
    <3>9. \A i \in 1..Len(wire') : Finishes(wire'[i]) => InWire(i - 1)'
      BY <1>1, <1>3, <1>6, <2>6, <3>5, <3>6 DEF BodyFirst
    <3>10. alive' /\ inbox' = <<NonceLine(cur)>>' => InWire(Len(wire))'
      <4>1. alive' /\ inbox' = <<NonceLine(cur)>>' => InWire(Len(wire))
        BY <1>1, <1>6, <2>6, <3>6 DEF BodyFirst, NonceLine
      <4>2. QED BY <1>1, <3>5, <4>1 DEF InWire
    <3>11. BodyFirst' BY <1>3, <3>7, <3>8, <3>9, <3>10 DEF BodyFirst
    <3>12. QED BY <3>1, <3>2, <3>11
  <2>7. QED BY <1>1, <2>4, <2>5, <2>6, PipesPInv
<1>8. CASE ReaderQuit \/ ReaderFail
  <2>1. frames' = frames /\ rpc' \in {"stopping", "done"} /\ held' = NoUnit /\ Closed'
    <3>1. CASE ReaderQuit BY <3>1 DEF ReaderQuit, StopCh, Closed, connVars
    <3>2. CASE ReaderFail
      <4>1. frames' = frames /\ rpc' \in {"stopping", "done"} /\ held' = held /\ rpc = "read"
            /\ Stop("protocol")
        BY <3>2 DEF ReaderFail
      <4>2. QED BY <4>1, StopCloses DEF PInv, UnitsSound
    <3>3. QED BY <1>8, <3>1, <3>2
  <2>2. ~Live' BY <2>1 DEF Live
  <2>3. UnitsSound' BY <1>1, <1>2, <2>1 DEF PInv, UnitsSound, Sound, Live
  <2>4. Emptied => Emptied' BY <1>1, <1>2, <2>1 DEF Emptied
  <2>5. ASSUME dpc = "collect" PROVE OneRequest' /\ NonceLast' /\ BodyFirst'
    <3>1. OneRequest' BY <1>1, <1>2, <1>6, <2>1, <2>5 DEF OneRequest, WireOf, NonceLine, BodyLine
    <3>2. NonceLast' BY <1>1, <1>2, <1>3, <1>4, <1>6, <2>1, <2>5 DEF NonceLast
    <3>3. BodyFirst' BY <1>1, <1>3, <1>4, <1>5, <1>6, <2>1, <2>2, <2>5 DEF BodyFirst
    <3>4. QED BY <3>1, <3>2, <3>3
  <2>6. QED BY <1>1, <2>3, <2>4, <2>5, PipesPInv
<1>9. QED BY <1>7, <1>8

\* The client's output grows by one unit, and perhaps by its last one.
LEMMA GrowPInv ==
  ASSUME TInv, PInv, UNCHANGED <<frames, held, rpc, dpc, cur, got, bad, out, ret, result>>,
         Closed => Closed', alive' => alive, NEW u \in Unit, Sound(u),
         wire' = Append(wire, u) \/ (wire' = Append(Append(wire, u), NoUnit) /\ inbox' = <<>>),
         u.req # NoOne => inbox # <<>>,
         \/ inbox' = inbox /\ u.req = NoOne
         \/ inbox # <<>> /\ dpc # "collect"
         \/ inbox = WireOf(cur) /\ inbox' \in {<<>>, <<NonceLine(cur)>>} /\ OwnBody(u)
         \/ inbox = <<NonceLine(cur)>> /\ inbox' = <<>> /\ Finishes(u) /\ alive
  PROVE  PInv'
<1>1. wire \in Seq(Unit) /\ cur # NoOne BY ConnAssumption DEF TInv, TypeOK, Requests
<1> DEFINE n == Len(wire)
<1>2. /\ n \in Nat /\ Len(wire') \in {n + 1, n + 2} /\ wire'[n + 1] = u
      /\ \A i \in 1..n : wire'[i] = wire[i]
      /\ \A i \in 1..Len(wire') : i \in 1..n \/ i = n + 1 \/ (i = n + 2 /\ wire'[i] = NoUnit)
  <2>1. CASE wire' = Append(wire, u) BY <1>1, <2>1
  <2>2. CASE wire' = Append(Append(wire, u), NoUnit)
    <3>1. NoUnit \in Unit BY Values
    <3>0. Append(wire, u) \in Seq(Unit) BY <1>1
    <3>2. PICK w \in Seq(Unit) : w = Append(wire, u) BY <3>0
    <3>3. Len(w) = n + 1 /\ w[n + 1] = u /\ \A i \in 1..n : w[i] = wire[i] BY <1>1, <3>2
    <3>4. /\ wire' = Append(w, NoUnit) /\ Len(wire') = Len(w) + 1 /\ wire'[Len(w) + 1] = NoUnit
          /\ \A i \in 1..Len(w) : wire'[i] = w[i]
      BY <2>2, <3>1, <3>2
    <3>5. n \in Nat BY <1>1
    <3> HIDE DEF n
    <3>6. QED BY <3>3, <3>4, <3>5
  <2>3. QED BY <2>1, <2>2
<1> HIDE DEF n
<1>0. NoUnit.req = NoOne /\ Sound(NoUnit) /\ NoUnit.kind = "exit" BY DEF NoUnit, Sound
<1>3. UnitsSound'
  <2>1. \A i \in 1..Len(wire') : Sound(wire'[i]) BY <1>0, <1>2 DEF PInv, UnitsSound, n
  <2>2. QED BY <2>1 DEF PInv, UnitsSound, Sound, Live
<1>4. Emptied => Emptied'
  <2>1. ASSUME Emptied PROVE u.req = NoOne /\ inbox' = <<>> 
    BY <2>1 DEF Emptied, WireOf
  <2>2. QED BY <1>0, <1>2, <2>1 DEF Emptied, n
<1>5. ASSUME dpc = "collect" PROVE OneRequest' /\ NonceLast' /\ BodyFirst'
  <2>0. OneRequest /\ NonceLast /\ BodyFirst BY <1>5 DEF PInv, Collecting
  <2>1. \A v : (OwnBody(v)' <=> OwnBody(v)) /\ (Finishes(v)' <=> Finishes(v))
    BY DEF OwnBody, Finishes
  <2>2. u.req \in {cur, NoOne} BY <1>5 DEF OwnBody, Finishes
  <2>3. inbox' \in {<<>>, <<NonceLine(cur)>>, WireOf(cur)} BY <1>5, <2>0 DEF OneRequest
  <2>4. OneRequest'
    <3>1. \A i \in 1..Len(wire') : wire'[i].req \in {cur, NoOne} BY <1>0, <1>2, <2>0, <2>2 DEF OneRequest, n
    <3>2. QED BY <2>0, <2>3, <3>1 DEF OneRequest, WireOf, NonceLine, BodyLine
  <2>5. inbox = <<>> => inbox' = <<>> /\ u.req = NoOne BY <1>5 DEF WireOf
  <2>6. Finishes(u) => inbox' = <<>> BY <1>1, <1>5 DEF Finishes, OwnBody
  <2>7. NonceLast'
    <3>1. ASSUME NEW i \in 1..Len(wire'), Finishes(wire'[i])
          PROVE  inbox' = <<>> /\ \A j \in (i + 1)..Len(wire') : wire'[j].req = NoOne
      <4>1. CASE i \in 1..n
        <5>1. inbox = <<>> /\ \A j \in (i + 1)..n : wire[j].req = NoOne
          BY <1>2, <2>0, <3>1, <4>1 DEF NonceLast, n
        <5>2. ASSUME NEW j \in (i + 1)..Len(wire') PROVE wire'[j].req = NoOne
          <6>1. j \in 1..Len(wire') /\ (j \in 1..n => j \in (i + 1)..n) BY <1>2, <4>1
          <6>2. QED BY <1>0, <1>2, <2>5, <5>1, <6>1
        <5>3. QED BY <2>5, <5>1, <5>2
      <4>2. CASE i = n + 1
        <5>1. ASSUME NEW j \in (i + 1)..Len(wire') PROVE wire'[j].req = NoOne
          <6>1. j \in 1..Len(wire') /\ j \notin 1..n /\ j # n + 1 BY <1>2, <4>2
          <6>2. QED BY <1>0, <1>2, <6>1
        <5>2. QED BY <1>2, <2>6, <3>1, <4>2, <5>1
      <4>3. ~Finishes(NoUnit) BY <1>0 DEF Finishes
      <4>4. QED BY <1>2, <3>1, <4>1, <4>2, <4>3
    <3>2. ASSUME Finishes(held)
          PROVE  inbox' = <<>> /\ \A j \in 1..Len(wire') : wire'[j].req = NoOne
      <4>1. inbox = <<>> /\ \A j \in 1..n : wire[j].req = NoOne BY <2>0, <3>2 DEF NonceLast, n
      <4>2. QED BY <1>0, <1>2, <2>5, <4>1
    <3>3. ASSUME NEW i \in 1..Len(frames), Finishes(frames[i])
          PROVE  inbox' = <<>> /\ held.req = NoOne /\ \A j \in 1..Len(wire') : wire'[j].req = NoOne
      <4>1. inbox = <<>> /\ held.req = NoOne /\ \A j \in 1..n : wire[j].req = NoOne
        BY <2>0, <3>3 DEF NonceLast, n
      <4>2. QED BY <1>0, <1>2, <2>5, <4>1
    <3>4. QED BY <2>1, <3>1, <3>2, <3>3 DEF NonceLast
  <2>8. (Seen' <=> Seen) /\ (InFrames' <=> InFrames) /\ (InHand' <=> InHand)
    BY <2>1 DEF InHand, InFrames, Seen
  <2>9. ASSUME NEW m \in 0..n, InWire(m) PROVE InWire(m)'
    <3>1. CASE InHand BY <2>8, <3>1 DEF InWire
    <3>2. CASE ~InHand
      <4>1. PICK i \in 1..m : OwnBody(wire[i]) BY <2>9, <3>2 DEF InWire
      <4>2. wire'[i] = wire[i] BY <1>2
      <4>3. QED BY <2>1, <4>1, <4>2 DEF InWire
    <3>3. QED BY <3>1, <3>2
  <2>10. ASSUME Live', NEW i \in 1..Len(wire'), Finishes(wire'[i]) PROVE InWire(i - 1)'
    <3>0. Live BY <2>10 DEF Live
    <3>1. CASE i \in 1..n
      <4>1. InWire(i - 1) BY <1>2, <2>0, <2>10, <3>0, <3>1 DEF BodyFirst, n
      <4>2. i - 1 \in 0..n BY <1>2, <3>1
      <4>3. QED BY <2>9, <4>1, <4>2
    <3>2. CASE i = n + 1
      <4>1. Finishes(u) BY <1>2, <2>10, <3>2
      <4>2. inbox = <<NonceLine(cur)>> /\ alive BY <1>1, <1>5, <4>1 DEF Finishes, OwnBody
      <4>3. InWire(n) BY <2>0, <3>0, <4>2 DEF BodyFirst, n
      <4>4. i - 1 = n /\ n \in 0..n BY <1>2, <3>2
      <4>5. QED BY <2>9, <4>3, <4>4
    <3>3. ~Finishes(NoUnit) BY <1>0 DEF Finishes
    <3>4. QED BY <1>2, <2>10, <3>1, <3>2, <3>3
  <2>11. ASSUME Live', alive', inbox' = <<NonceLine(cur)>>' PROVE InWire(Len(wire))'
    <3>1. inbox' = <<NonceLine(cur)>> BY <2>11 DEF NonceLine
    <3>2. CASE inbox' = inbox
      <4>1. InWire(n) BY <2>0, <2>11, <3>1, <3>2 DEF BodyFirst, Live, n
      <4>2. PICK m \in 0..n : m = n BY <1>2
      <4>3. InWire(m)' BY <2>9, <4>1, <4>2
      <4>4. \A i \in 1..m : i \in 1..Len(wire') BY <1>2, <4>2
      <4>5. QED BY <4>3, <4>4 DEF InWire
    <3>3. CASE inbox' # inbox
      <4>1. OwnBody(u) BY <1>5, <3>1, <3>3 
      <4>2. OwnBody(wire'[n + 1]) /\ n + 1 \in 1..Len(wire') BY <1>2, <4>1
      <4>3. QED BY <2>1, <4>2 DEF InWire
    <3>4. QED BY <3>2, <3>3
  <2>12. BodyFirst'
    <3>1. \A i \in 1..Len(frames') : Finishes(frames'[i]) => Seen' BY <2>0, <2>1, <2>8 DEF BodyFirst
    <3>2. Finishes(held') => InFrames' BY <2>0, <2>1, <2>8 DEF BodyFirst
    <3>3. QED BY <2>1, <2>10, <2>11, <3>1, <3>2 DEF BodyFirst
  <2>13. QED BY <2>4, <2>7, <2>12
<1>6. QED BY <1>3, <1>4, <1>5, PipesPInv

\* A client that has gone writes nothing for the lines it still executes.
LEMMA DropPInv ==
  ASSUME PInv, UNCHANGED <<wire, frames, held, rpc, dpc, cur, got, bad, out, ret, result>>,
         Closed => Closed', ~alive', inbox # <<>>,
         dpc = "collect" => inbox' \in {<<>>, <<NonceLine(cur)>>}
  PROVE  PInv'
<1>1. UnitsSound' BY SoundRests DEF PInv
<1>2. ~Emptied BY DEF Emptied
<1>3. ASSUME dpc = "collect" PROVE OneRequest' /\ NonceLast' /\ BodyFirst'
  <2>0. OneRequest /\ NonceLast /\ BodyFirst BY <1>3 DEF PInv, Collecting
  <2>1. OneRequest' BY <1>3, <2>0 DEF OneRequest, WireOf, NonceLine, BodyLine
  <2>2. \A v : (OwnBody(v)' <=> OwnBody(v)) /\ (Finishes(v)' <=> Finishes(v))
    BY DEF OwnBody, Finishes
  <2>3. NonceLast' BY <2>0, <2>2 DEF NonceLast
  <2>4. (Seen' <=> Seen) /\ (InFrames' <=> InFrames) /\ (Live' <=> Live)
    BY <2>2 DEF InFrames, Seen, Live
  <2>5. \A m : InWire(m)' <=> InWire(m) BY <2>2, <2>4 DEF InWire, InHand
  <2>6. BodyFirst' BY <2>0, <2>2, <2>4, <2>5 DEF BodyFirst
  <2>7. QED BY <2>1, <2>3, <2>6
<1>4. QED BY <1>1, <1>2, <1>3, PipesPInv

LEMMA DaemonPInv ==
  ASSUME TInv, PInv, DaemonStep, Closed => Closed'
  PROVE  PInv'
<1> USE DEF callerVars, replyVars, dispVars, readerVars, EnvKeeps
<1>1. UNCHANGED <<frames, held, rpc, dpc, cur, got, bad, out, ret, result>>
  BY DEF DaemonStep, DaemonBody, DaemonNonce, DaemonForeign, ClientEnd
<1>2. /\ wire \in Seq(Unit) /\ inbox \in Seq(Line) /\ alive \in BOOLEAN
      /\ NoOne \notin Requests /\ cur \in Requests
  BY ConnAssumption DEF TInv, TypeOK, Requests
<1>3. \A u \in Unit : wire \o <<u>> = Append(wire, u) BY <1>2
<1>4. dpc = "collect" => inbox \in {<<>>, <<NonceLine(cur)>>, WireOf(cur)}
  BY DEF PInv, Collecting, OneRequest
<1>5. /\ BodyLine(cur).part = "body" /\ BodyLine(cur).req = cur
      /\ NonceLine(cur).part = "nonce" /\ NonceLine(cur).req = cur
  BY DEF BodyLine, NonceLine
<1>6. /\ Head(WireOf(cur)) = BodyLine(cur) /\ Tail(WireOf(cur)) = <<NonceLine(cur)>>
      /\ Head(<<NonceLine(cur)>>) = NonceLine(cur) /\ Tail(<<NonceLine(cur)>>) = <<>>
  BY DEF WireOf
<1>7. CASE DaemonBody
  <2> DEFINE r == Head(inbox).req
  <2>1. /\ inbox # <<>> /\ Head(inbox).part = "body"
        /\ \/ inbox' = Tail(inbox) /\ alive' = alive
              /\ \E k \in {"out", "big", "fail"} : Emit(<<[req |-> r, kind |-> k]>>)
           \/ inbox' = <<>> /\ alive' = FALSE /\ Emit(<<[req |-> r, kind |-> "fail"], NoUnit>>)
    BY <1>7 DEF DaemonBody
  <2>0. Head(inbox) \in Line BY <1>2, <2>1
  <2>2. r \in Requests BY <2>0 DEF Line
  <2>3. dpc = "collect" => inbox = WireOf(cur) /\ r = cur /\ inbox' \in {<<>>, <<NonceLine(cur)>>}
    BY <1>4, <1>5, <1>6, <2>1
  <2> HIDE DEF r
  <2>4. PICK k \in {"out", "big", "fail"} :
          \/ inbox' = Tail(inbox) /\ alive' = alive /\ Emit(<<[req |-> r, kind |-> k]>>)
          \/ inbox' = <<>> /\ alive' = FALSE /\ Emit(<<[req |-> r, kind |-> k], NoUnit>>)
    BY <2>1 DEF r
  <2>5. PICK u \in Unit : u = [req |-> r, kind |-> k] BY <2>2, Values DEF UnitKinds
  <2>6. u.req = r /\ u.kind = k BY <2>5
  <2>7. Sound(u) BY <1>2, <2>2, <2>6 DEF Sound
  <2>8. CASE ~alive
    <3>1. wire' = wire /\ ~alive' BY <2>4, <2>8 DEF Emit
    <3>2. QED BY <1>1, <2>1, <2>3, <3>1, DropPInv
  <2>9. CASE alive
    <3>1. NoUnit \in Unit BY Values
    <3>2. wire \o <<u, NoUnit>> = Append(Append(wire, u), NoUnit) BY <1>2, <3>1
    <3>3. wire' = Append(wire, u) \/ (wire' = Append(Append(wire, u), NoUnit) /\ inbox' = <<>>)
      BY <1>3, <2>4, <2>5, <2>9, <3>2 DEF Emit
    <3>4. dpc = "collect" => OwnBody(u) BY <2>3, <2>6 DEF OwnBody
    <3>5. \/ inbox # <<>> /\ dpc # "collect"
          \/ inbox = WireOf(cur) /\ inbox' \in {<<>>, <<NonceLine(cur)>>} /\ OwnBody(u)
      BY <2>1, <2>3, <3>4
    <3>6. QED BY <1>1, <2>1, <2>7, <2>9, <3>3, <3>5, GrowPInv
  <2>10. QED BY <1>2, <2>8, <2>9
<1>8. CASE DaemonNonce
  <2> DEFINE r == Head(inbox).req
  <2>1. /\ inbox # <<>> /\ Head(inbox).part = "nonce" /\ inbox' = Tail(inbox) /\ alive' = alive
        /\ Emit(<<[req |-> r, kind |-> "nonce"]>>)
    BY <1>8 DEF DaemonNonce
  <2>0. Head(inbox) \in Line BY <1>2, <2>1
  <2>2. r \in Requests BY <2>0 DEF Line
  <2>3. dpc = "collect" => inbox = <<NonceLine(cur)>> /\ r = cur /\ inbox' = <<>>
    BY <1>4, <1>5, <1>6, <2>1
  <2> HIDE DEF r
  <2>4. PICK u \in Unit : u = [req |-> r, kind |-> "nonce"] BY <2>2, Values DEF UnitKinds
  <2>5. u.req = r /\ u.kind = "nonce" BY <2>4
  <2>6. Sound(u) BY <1>2, <2>2, <2>5 DEF Sound
  <2>7. CASE ~alive
    <3>1. wire' = wire /\ ~alive' BY <2>1, <2>7 DEF Emit
    <3>2. QED BY <1>1, <2>1, <2>3, <3>1, DropPInv
  <2>8. CASE alive
    <3>1. wire' = Append(wire, u) BY <1>3, <2>1, <2>4, <2>8 DEF Emit
    <3>2. dpc = "collect" => Finishes(u) BY <2>3, <2>5 DEF Finishes
    <3>3. \/ inbox # <<>> /\ dpc # "collect"
          \/ inbox = <<NonceLine(cur)>> /\ inbox' = <<>> /\ Finishes(u) /\ alive
      BY <2>1, <2>3, <2>8, <3>2
    <3>4. QED BY <1>1, <2>1, <2>6, <2>8, <3>1, <3>3, GrowPInv
  <2>9. QED BY <1>2, <2>7, <2>8
<1>9. ASSUME NEW u \in Unit, u.req = NoOne, Sound(u), wire' = Append(wire, u), inbox' = inbox,
             alive' => alive
      PROVE  PInv'
  BY <1>1, <1>9, GrowPInv
<1>10. CASE DaemonForeign
  <2>1. PICK u \in Unit : u = [req |-> NoOne, kind |-> "foreign"] BY Values DEF UnitKinds
  <2>2. u.req = NoOne /\ u.kind = "foreign" BY <2>1
  <2>3. wire' = Append(wire, u) /\ inbox' = inbox /\ alive' = alive
    BY <1>3, <1>10, <2>1 DEF DaemonForeign, Emit
  <2>4. QED BY <1>9, <2>2, <2>3 DEF Sound
<1>11. CASE ClientEnd
  <2>1. inbox' = inbox /\ (alive' => alive) /\ (wire' = wire \/ wire' = Append(wire, NoUnit))
    BY <1>11 DEF ClientEnd
  <2>2. CASE wire' = wire
    <3>1. Confirmed' BY <1>1 DEF PInv, Confirmed
    <3>2. QED BY <1>1, <2>1, <2>2, <3>1, ElsewherePInv DEF chan
  <2>3. CASE wire' = Append(wire, NoUnit)
    <3>1. NoUnit \in Unit /\ NoUnit.req = NoOne /\ Sound(NoUnit) BY Values DEF NoUnit, Sound
    <3>2. QED BY <1>9, <2>1, <2>3, <3>1
  <2>4. QED BY <2>1, <2>2, <2>3
<1>12. QED BY <1>7, <1>8, <1>10, <1>11 DEF DaemonStep

LEMMA NextPInv == TInv /\ PInv /\ [Next]_vars => PInv'
<1> SUFFICES ASSUME TInv, PInv, [Next]_vars PROVE PInv' OBVIOUS
<1>0. Closed => Closed' BY StaysClosed
<1>1. ASSUME UNCHANGED <<chan, dpc, cur, got, bad, out, alive, ret, result>> PROVE PInv'
  <2>1. Confirmed' BY <1>1 DEF PInv, Confirmed
  <2>2. QED BY <1>0, <1>1, <2>1, ElsewherePInv
<1>2. CASE StopStep \/ WorkStep \/ CloseStep \/ ParentCancel
  <2>1. UNCHANGED <<chan, dpc, cur, got, bad, out, alive, ret, result>>
    BY <1>2 DEF StopStep, WorkStep, CloseStep, ParentCancel, StopSignal, StopFinish, Finish,
       OpenerReady, OpenerCancelled, OpenerFailed, WorkerFire, WorkerEnd, CloseCall, CloseReturn,
       OtherKeeps, chan, callerVars, dispVars, readerVars, procVars, replyVars
  <2>2. QED BY <1>1, <2>1
<1>3. CASE UNCHANGED vars
  <2>1. UNCHANGED <<chan, dpc, cur, got, bad, out, alive, ret, result>>
    BY <1>3 DEF vars, chan, callerVars, dispVars, readerVars, procVars, replyVars
  <2>2. QED BY <1>1, <2>1
<1>4. CASE ReaderStep BY <1>0, <1>4, ReadPInv, ReaderPInv DEF ReaderStep
<1>5. QED BY <1>0, <1>2, <1>3, <1>4, CallerPInv, DispatcherPInv, DaemonPInv DEF Next

\* The pipes are clean whenever the dispatcher of an open connection takes a request, and a
\* confirmed reply is the whole output of one execution of the caller's own command.
THEOREM RepliesAreOwn == Spec => []ReplyIsOwn
<1>1. ASSUME EInv, AInv, PInv PROVE ReplyIsOwn
  <2>1. PipeClean
    <3> SUFFICES ASSUME ~Closed, dpc \in {"idle", "checkClosed", "checkDone", "claim", "build", "write"}
                 PROVE  Outstanding \subseteq {NoOne}
      BY DEF PipeClean
    <3>1. Emptied BY <1>1 DEF PInv, Clean, BeforeWrite
    <3>2. wire \in Seq(Unit) /\ frames \in Seq(Unit) BY <1>1 DEF EInv, TInv, TypeOK
    <3>3. DOMAIN wire = 1..Len(wire) /\ DOMAIN frames = 1..Len(frames) /\ DOMAIN inbox = {}
      BY <3>1, <3>2 DEF Emptied
    <3>4. QED BY <3>1, <3>3 DEF Outstanding, Emptied
  <2>2. ASSUME NEW c \in Callers, ret[c].effect = "confirmed"
        PROVE  ran[c] = 1 /\ ret[c].units = {[req |-> c, kind |-> "out"]}
    <3>1. ran[c] # 0 BY <1>1, <2>2 DEF AInv, AckedHere
    <3>2. ran[c] \in {0, 1} BY <1>1 DEF EInv, Once
    <3>3. ret[c].units = OwnOutput(c) BY <1>1, <2>2 DEF PInv, Confirmed
    <3>4. QED BY <3>1, <3>2, <3>3 DEF OwnOutput
  <2>3. QED BY <2>1, <2>2 DEF ReplyIsOwn
<1>2. EInv /\ AInv /\ PInv /\ [Next]_vars => EInv' /\ AInv' /\ PInv'
  BY NextEInv, NextAInv, NextPInv DEF AInv
<1>3. QED BY InitEInv, InitAInv, InitPInv, <1>1, <1>2, PTL DEF Spec
=============================================================================
