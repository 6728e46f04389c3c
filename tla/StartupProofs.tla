---------------------------- MODULE StartupProofs ----------------------------
(* Proofs about creation and discovery over one socket path: what a         *)
(* creating call reports is what it did, it stays with its daemon, and      *)
(* discovery's cached verdicts never outlive the file they are about.       *)
EXTENDS Startup, TLAPS, FiniteSetTheorems

-----------------------------------------------------------------------------
(* The inductive invariant.  First the daemon and the socket file.          *)
File == [ino : Nat, at : Nat]

WorldOK ==
    /\ life \in Nat /\ ids \in Nat /\ binds \in Nat
    /\ up \in {"none", "bound", "listening"}
    /\ up # "none" => life # 0
    /\ sock \in File /\ sock.at <= binds
    /\ objs \subseteq [kind : {"session", "window", "pane"}, id : Nat, named : BOOLEAN]

\* The creating calls.
Kinds   == {"session", "window", "pane"}
Thing   == [life : Nat, id : Nat, kind : Kinds]
Effects == {"none", "notSent", "rejected", "unknown", "confirmed"}

CallTypes ==
    /\ pc \in [Callers -> {"call", "probe", "version", "list", "signal", "run", "starting",
                           "reply", "done", "gone"}]
    /\ req \in [Callers -> Request]
    /\ bound \in [Callers -> Nat] /\ guard \in [Callers -> Nat] /\ target \in [Callers -> Nat]
    /\ started \in [Callers -> Nat]
    /\ allowStart \in [Callers -> BOOLEAN] /\ killed \in [Callers -> BOOLEAN]
    /\ made \in [Callers -> SUBSET [life : Nat, id : Nat, kind : Kinds, with : Nat]]
    /\ reply \in [Callers -> [marker : {"none", "ok", "serverChanged", "version"}, row : Nat,
                              err : {"none", "exists", "notFound", "noServer", "unstarted", "lost"},
                              from : Nat]]
    /\ out \in [Callers -> [ok : BOOLEAN, effect : Effects,
                            handle : SUBSET Thing, created : SUBSET Thing]]

\* Until its command has run a call has made nothing, and until it ends it reports nothing.
Unheard(c) ==
    /\ pc[c] \notin {"reply", "done"} => made[c] = {} /\ ~killed[c]
    /\ pc[c] # "done" => out[c] = Pending

\* What is known of a call by where it stands.
Standing(c) ==
    /\ pc[c] \in {"call", "probe"} => guard[c] = 0 /\ ~allowStart[c]
    /\ pc[c] = "version" => MayStart(c) /\ guard[c] = 0
    /\ pc[c] = "list" => ~allowStart[c]
    /\ allowStart[c] => MayStart(c) /\ guard[c] = 0
    /\ pc[c] \in {"list", "run", "starting", "reply"} => req[c].op # "recreate"
    /\ pc[c] \in {"run", "starting"} /\ allowStart[c] => ~req[c].group
    /\ pc[c] = "starting" => allowStart[c]
    /\ pc[c] = "signal" => req[c].op = "recreate"
    /\ started[c] # 0 => allowStart[c] /\ pc[c] \in {"starting", "reply", "done"}

\* A reply names the one object the command made, or it names none and none was made.
MadeOne(c, a) ==
    /\ a.row # 0 /\ a.from # 0 /\ a.err = "none" /\ a.marker \in {"none", "ok"}
    /\ \E m \in made[c] : /\ made[c] = {m}
                          /\ m.id = a.row /\ m.life = a.from /\ m.kind = Kind(req[c])
MadeNone(c, a) ==
    /\ a.row = 0 /\ made[c] = {} /\ ~killed[c]
    /\ a.err # "none" \/ a.marker \in {"serverChanged", "version"}
    /\ started[c] # 0 => a.err # "unstarted" /\ a.marker = "none"
Replied(c) == pc[c] = "reply" => MadeOne(c, reply[c]) \/ MadeNone(c, reply[c])

\* The three promises, of one call.
UnsentIsTrue(c) ==
    out[c].effect \in {"notSent", "rejected"} =>
        made[c] = {} /\ ~killed[c] /\ (out[c].effect = "notSent" => started[c] = 0)
ReportIsTrue(c) ==
    /\ \A o \in out[c].created \cup out[c].handle : \E m \in made[c] :
          m.id = o.id /\ m.kind = o.kind /\ o.life \in {0, m.life}
    /\ \A o \in out[c].handle : o.life # 0
    /\ out[c].ok /\ req[c].op # "recreate" => Cardinality(made[c]) = 1
Stays(c) ==
    /\ guard[c] # 0 => \A m \in made[c] : m.life = guard[c]
    /\ \A m \in made[c] : m.with # 0 => m.with = target[c] /\ m.life = guard[c]

CallSound(c) ==
    /\ Unheard(c) /\ Standing(c) /\ Replied(c)
    /\ UnsentIsTrue(c) /\ ReportIsTrue(c) /\ Stays(c)

CallsInv == WorldOK /\ CallTypes /\ \A c \in Callers : CallSound(c)

-----------------------------------------------------------------------------
(* The world.                                                               *)

\* What any step may do to the daemon and its file: leave the file with its daemon, remove it, or
\* make one that has never been.
WorldMoves ==
    \/ /\ UNCHANGED <<sock, life, answers, binds>>
       /\ up' = "bound" => up = "bound"
       /\ up' = "listening" => up # "none"
    \/ /\ sock' = NoSock /\ UNCHANGED <<life, answers, binds>>
    \/ /\ sock'.at = binds + 1 /\ binds' = binds + 1 /\ life' >= life

\* The daemon's own steps and other clients' keep the world in order.
LEMMA DaemonsKeepWorld ==
    ASSUME WorldOK, Daemons \/ Clients
    PROVE  WorldOK' /\ WorldMoves
  <1>1. CASE \E bins \in Versions : Bind(bins)
    BY <1>1 DEF Bind, NewFile, WorldOK, WorldMoves, File
  <1>2. CASE Listen
    BY <1>2 DEF Listen, WorldOK, WorldMoves
  <1>3. CASE Dies
    BY <1>3 DEF Dies, WorldOK, WorldMoves, File, NoSock
  <1>4. CASE \E k \in {"session", "pane"} : OtherMakes(k)
    <2>1. PICK k \in {"session", "pane"} : OtherMakes(k)
      BY <1>4
    <2>2. NewObject(k, k = "session") \in
             [kind : {"session", "window", "pane"}, id : Nat, named : BOOLEAN]
      BY DEF NewObject, WorldOK
    <2> QED
      BY <2>1, <2>2 DEF OtherMakes, WorldOK, WorldMoves
  <1>5. CASE \E o \in objs : OtherKills(o)
    BY <1>5 DEF OtherKills, WorldOK, WorldMoves
  <1> QED
    BY <1>1, <1>2, <1>3, <1>4, <1>5 DEF Daemons, Clients


LEMMA WorldStays ==
    ASSUME WorldOK, UNCHANGED worldVars
    PROVE  WorldOK' /\ WorldMoves
  BY DEF worldVars, WorldOK, WorldMoves

-----------------------------------------------------------------------------
(* The creating calls.  A step of one of them leaves the others alone.      *)
Same(d) == UNCHANGED <<pc[d], req[d], bound[d], guard[d], allowStart[d], target[d], reply[d],
                       out[d], made[d], killed[d], started[d]>>
Aside(c) == \A d \in Callers \ {c} : Same(d)
Keeps(c) == WorldOK' /\ WorldMoves /\ CallTypes' /\ CallSound(c)' /\ Aside(c)

LEMMA SameStaysSound ==
    ASSUME NEW d \in Callers, CallSound(d), Same(d)
    PROVE  CallSound(d)'
  BY DEF Same, CallSound, Unheard, Standing, MayStart, Replied, MadeOne, MadeNone,
         UnsentIsTrue, ReportIsTrue, Stays, Kind

\* What a call that fails before its command reports.
LEMMA PendingTypes ==
    /\ \A e \in Effects : Failed(e) \in [ok : BOOLEAN, effect : Effects,
                                         handle : SUBSET Thing, created : SUBSET Thing]
    /\ \A e : /\ Failed(e).effect = e /\ Failed(e).handle = {} /\ Failed(e).created = {}
              /\ Failed(e).ok = FALSE
    /\ Pending.effect = "none" /\ Pending.handle = {} /\ Pending.created = {}
    /\ Pending.ok = FALSE
    /\ Pending \in [ok : BOOLEAN, effect : Effects,
                    handle : SUBSET Thing, created : SUBSET Thing]
  BY DEF Failed, Pending, Effects

LEMMA RequestTypes == Requests \subseteq Request /\ NoRequest \in Request
  BY RequestsAssumption DEF NoRequest, Request

LEMMA BeginKeeps ==
    ASSUME CallsInv, NEW c \in Callers, NEW r \in Requests, Begin(c, r)
    PROVE  Keeps(c)
  <1> USE DEF CallsInv
  <1>1. /\ pc[c] = "call" /\ UNCHANGED <<worldVars, allowStart, reply, made, killed, started>>
        /\ req' = [req EXCEPT ![c] = r] /\ r \in Request
    BY RequestTypes DEF Begin, HistoryOf
  <1>2. WorldOK' /\ WorldMoves
    BY <1>1, WorldStays
  <1>3. CASE /\ pc' = [pc EXCEPT ![c] = "done"] /\ out' = [out EXCEPT ![c] = Failed("notSent")]
             /\ UNCHANGED <<bound, guard, target>>
    <2>1. CallTypes'
      BY <1>1, <1>3, PendingTypes DEF CallTypes, Effects
    <2>2. Aside(c)
      BY <1>1, <1>3 DEF CallTypes, Aside, Same
    <2>3. CallSound(c)'
      BY <1>1, <1>3, PendingTypes DEF CallTypes, CallSound, Unheard, Standing, MayStart, Replied,
             UnsentIsTrue, ReportIsTrue, Stays
    <2> QED
      BY <1>2, <2>1, <2>2, <2>3 DEF Keeps
  <1>4. CASE /\ out' = out /\ guard' = guard /\ target' = target
             /\ pc' = [pc EXCEPT ![c] = "probe"]
             /\ \E l \in Nat : bound' = [bound EXCEPT ![c] = l]
    <2>1. CallTypes'
      BY <1>1, <1>4 DEF CallTypes, WorldOK
    <2>2. Aside(c)
      BY <1>1, <1>4 DEF CallTypes, Aside, Same
    <2>3. CallSound(c)'
      BY <1>1, <1>4, PendingTypes DEF CallTypes, CallSound, Unheard, Standing, MayStart, Replied,
             UnsentIsTrue, ReportIsTrue, Stays
    <2> QED
      BY <1>2, <2>1, <2>2, <2>3 DEF Keeps
  <1>5. CASE /\ out' = out /\ bound' = bound /\ r.op # "recreate"
             /\ pc' = [pc EXCEPT ![c] = "run"] /\ guard' = [guard EXCEPT ![c] = life]
             /\ \E i \in Nat : target' = [target EXCEPT ![c] = i]
    <2>1. CallTypes'
      BY <1>1, <1>5 DEF CallTypes, WorldOK
    <2>2. Aside(c)
      BY <1>1, <1>5 DEF CallTypes, Aside, Same
    <2>3. CallSound(c)'
      BY <1>1, <1>5, PendingTypes DEF CallTypes, CallSound, Unheard, Standing, MayStart, Replied,
             UnsentIsTrue, ReportIsTrue, Stays
    <2> QED
      BY <1>2, <2>1, <2>2, <2>3 DEF Keeps
  <1>6. \A o \in objs : o.id \in Nat
    BY DEF WorldOK
  <1>7. life \in Nat /\ (IF r.bound THEN life ELSE 0) \in Nat
    BY DEF WorldOK
  <1> QED
    BY <1>1, <1>3, <1>4, <1>5, <1>6, <1>7 DEF Begin, Fails, Ends, Goes

\* Before its command a call may fail, and then nothing was sent or nobody knows.
LEMMA FailsBeforeKeeps ==
    ASSUME CallsInv, NEW c \in Callers, NEW e \in Effects,
           pc[c] \in {"probe", "version", "list", "signal"}, Fails(c, e),
           UNCHANGED <<worldVars, req, bound, guard, target, reply, made, killed, started>>,
           \/ allowStart' = allowStart
           \/ allowStart' = [allowStart EXCEPT ![c] = TRUE] /\ MayStart(c) /\ guard[c] = 0
    PROVE  Keeps(c)
  <1> USE DEF CallsInv
  <1>1. WorldOK' /\ WorldMoves
    BY WorldStays
  <1>2. CallTypes'
    BY PendingTypes DEF CallTypes, Fails, Ends, Goes
  <1>3. Aside(c)
    BY DEF CallTypes, Aside, Same, Fails, Ends, Goes
  <1>4. CallSound(c)'
    <2>1. /\ pc'[c] = "done" /\ out'[c] = Failed(e) /\ CallSound(c) /\ made'[c] = {} /\ ~killed'[c]
          /\ started'[c] = 0 /\ UNCHANGED <<req[c], bound[c], guard[c], target[c], reply[c]>>
          /\ allowStart'[c] => MayStart(c) /\ guard[c] = 0
      BY DEF CallTypes, CallSound, Unheard, Standing, Fails, Ends, Goes
    <2> QED
      BY <2>1, PendingTypes DEF CallSound, Unheard, Standing, MayStart, Replied,
             UnsentIsTrue, ReportIsTrue, Stays
  <1> QED
    BY <1>1, <1>2, <1>3, <1>4 DEF Keeps

\* A call that goes on without failing, before its command, has made nothing yet.
LEMMA GoesOnKeeps ==
    ASSUME CallsInv, NEW c \in Callers, NEW to \in {"version", "list", "signal", "run"},
           pc[c] \in {"probe", "version", "list"}, Goes(c, to),
           UNCHANGED <<worldVars, req, bound, reply, out, made, killed, started>>,
           allowStart' \in [Callers -> BOOLEAN], guard' \in [Callers -> Nat],
           target' \in [Callers -> Nat],
           \A d \in Callers \ {c} :
              UNCHANGED <<allowStart[d], guard[d], target[d]>>,
           allowStart'[c] => MayStart(c) /\ guard'[c] = 0 /\ ~req[c].group,
           to = "version" => MayStart(c) /\ guard'[c] = 0,
           to \in {"list", "run"} => req[c].op # "recreate",
           to = "signal" => req[c].op = "recreate",
           to = "list" => ~allowStart'[c]
    PROVE  Keeps(c)
  <1> USE DEF CallsInv
  <1>1. WorldOK' /\ WorldMoves
    BY WorldStays
  <1>2. CallTypes'
    BY DEF CallTypes, Goes
  <1>3. Aside(c)
    BY DEF CallTypes, Aside, Same, Goes
  <1>4. CallSound(c)'
    <2>1. /\ pc'[c] = to /\ CallSound(c) /\ made'[c] = {} /\ ~killed'[c] /\ out'[c] = Pending
          /\ started'[c] = 0 /\ UNCHANGED <<req[c], bound[c], reply[c]>>
      BY DEF CallTypes, CallSound, Unheard, Standing, Goes
    <2> QED
      BY <2>1, PendingTypes DEF CallSound, Unheard, Standing, MayStart, Replied,
             UnsentIsTrue, ReportIsTrue, Stays
  <1> QED
    BY <1>1, <1>2, <1>3, <1>4 DEF Keeps

LEMMA ProbeStepsKeep ==
    ASSUME CallsInv, NEW c \in Callers,
           ProbeAnswers(c) \/ ProbeFindsNone(c) \/ ProbeErrs(c)
    PROVE  Keeps(c)
  <1>1. CASE ProbeAnswers(c)
    <2> DEFINE to == IF req[c].op = "recreate" THEN "signal"
                     ELSE IF req[c].group THEN "list" ELSE "run"
    <2>1. to \in {"version", "list", "signal", "run"} /\ to # "version"
          /\ (to \in {"list", "run"} => req[c].op # "recreate")
          /\ (to = "signal" => req[c].op = "recreate")
      OBVIOUS
    <2>2. /\ pc[c] = "probe" /\ Goes(c, to) /\ guard' = [guard EXCEPT ![c] = life]
          /\ UNCHANGED <<worldVars, req, bound, allowStart, target, reply, out,
                         made, killed, started>>
      BY <1>1 DEF ProbeAnswers, HistoryOf
    <2> HIDE DEF to
    <2>3. /\ guard' \in [Callers -> Nat] /\ allowStart' \in [Callers -> BOOLEAN]
          /\ target' \in [Callers -> Nat] /\ ~allowStart'[c]
          /\ \A d \in Callers \ {c} : UNCHANGED <<allowStart[d], guard[d], target[d]>>
      BY <2>2 DEF CallsInv, CallTypes, CallSound, Standing, WorldOK
    <2> QED
      BY <2>1, <2>2, <2>3, GoesOnKeeps
  <1>2. CASE Fails(c, "notSent") /\ pc[c] = "probe"
             /\ UNCHANGED <<worldVars, req, bound, guard, allowStart, target, reply,
                            made, killed, started>>
    BY <1>2, FailsBeforeKeeps DEF Effects
  <1>3. CASE /\ pc[c] = "probe" /\ MayStart(c) /\ Goes(c, "version")
             /\ UNCHANGED <<worldVars, req, bound, guard, allowStart, target, reply, out,
                            made, killed, started>>
    <2>1. /\ guard' \in [Callers -> Nat] /\ allowStart' \in [Callers -> BOOLEAN]
          /\ target' \in [Callers -> Nat] /\ ~allowStart'[c] /\ guard'[c] = 0
          /\ \A d \in Callers \ {c} : UNCHANGED <<allowStart[d], guard[d], target[d]>>
      BY <1>3 DEF CallsInv, CallTypes, CallSound, Standing
    <2> QED
      BY <1>3, <2>1, GoesOnKeeps
  <1> QED
    BY <1>1, <1>2, <1>3 DEF ProbeFindsNone, ProbeErrs, HistoryOf

LEMMA VersionKeeps ==
    ASSUME CallsInv, NEW c \in Callers, ExecutableVersion(c)
    PROVE  Keeps(c)
  <1>1. MayStart(c) /\ guard[c] = 0 /\ req[c].op # "recreate"
    BY DEF CallsInv, CallSound, Standing, ExecutableVersion, MayStart
  <1>2. CASE /\ pc[c] = "version" /\ ~req[c].group /\ Goes(c, "run")
             /\ allowStart' = [allowStart EXCEPT ![c] = TRUE]
             /\ UNCHANGED <<worldVars, req, bound, guard, target, reply, out,
                            made, killed, started>>
    <2>1. /\ guard' \in [Callers -> Nat] /\ allowStart' \in [Callers -> BOOLEAN]
          /\ target' \in [Callers -> Nat] /\ guard'[c] = 0
          /\ \A d \in Callers \ {c} : UNCHANGED <<allowStart[d], guard[d], target[d]>>
      BY <1>1, <1>2 DEF CallsInv, CallTypes
    <2> QED
      BY <1>1, <1>2, <2>1, GoesOnKeeps
  <1>3. CASE /\ pc[c] = "version" /\ \E e \in Effects : Fails(c, e)
             /\ allowStart' \in {allowStart, [allowStart EXCEPT ![c] = TRUE]}
             /\ UNCHANGED <<worldVars, req, bound, guard, target, reply, made, killed, started>>
    BY <1>1, <1>3, FailsBeforeKeeps
  <1> QED
    BY <1>2, <1>3 DEF ExecutableVersion, HistoryOf, Effects

LEMMA GroupKeeps ==
    ASSUME CallsInv, NEW c \in Callers, GroupListed(c) \/ GroupFails(c)
    PROVE  Keeps(c)
  <1>1. CASE /\ pc[c] = "list" /\ \E o \in objs : Named(o)
             /\ target' = [target EXCEPT ![c] = (CHOOSE o \in objs : Named(o)).id]
             /\ Goes(c, "run")
             /\ UNCHANGED <<worldVars, req, bound, guard, allowStart, reply, out,
                            made, killed, started>>
    <2>1. (CHOOSE o \in objs : Named(o)) \in objs
      BY <1>1
    <2>2. (CHOOSE o \in objs : Named(o)).id \in Nat
      BY <2>1 DEF CallsInv, WorldOK
    <2>3. /\ guard' \in [Callers -> Nat] /\ allowStart' \in [Callers -> BOOLEAN]
          /\ target' \in [Callers -> Nat]
          /\ \A d \in Callers \ {c} : UNCHANGED <<allowStart[d], guard[d], target[d]>>
      BY <1>1, <2>2 DEF CallsInv, CallTypes
    <2>4. /\ req[c].op # "recreate"
          /\ ~allowStart'[c]
      BY <1>1 DEF CallsInv, CallTypes, CallSound, Standing
    <2> QED
      BY <1>1, <2>3, <2>4, GoesOnKeeps
  <1>2. CASE /\ pc[c] = "list" /\ \E e \in Effects : Fails(c, e)
             /\ UNCHANGED <<worldVars, req, bound, guard, target, allowStart, reply,
                            made, killed, started>>
    BY <1>2, FailsBeforeKeeps
  <1> QED
    BY <1>1, <1>2 DEF GroupListed, GroupFails, HistoryOf, Effects

-----------------------------------------------------------------------------
(* The command.  RecreateSocket makes a socket file and nothing else.       *)
LEMMA SignalKeeps ==
    ASSUME CallsInv, NEW c \in Callers, Signal(c)
    PROVE  Keeps(c)
  <1> USE DEF CallsInv
  <1>1. CASE Fails(c, "notSent") /\ UNCHANGED worldVars
    BY <1>1, FailsBeforeKeeps DEF Signal, HistoryOf, Effects
  <1>2. CASE Rebind(guard[c]) /\ Ends(c, [Pending EXCEPT !.ok = TRUE])
    <2> DEFINE o == [Pending EXCEPT !.ok = TRUE]
    <2>1. /\ pc[c] = "signal" /\ UNCHANGED <<req, bound, guard, allowStart, target, reply,
                                             made, killed, started>>
          /\ pc' = [pc EXCEPT ![c] = "done"] /\ out' = [out EXCEPT ![c] = o]
      BY <1>2 DEF Signal, HistoryOf, Ends, Goes
    <2>2. WorldOK' /\ WorldMoves
      BY <1>2 DEF Rebind, NewFile, WorldOK, WorldMoves, File
    <2>3. /\ o \in [ok : BOOLEAN, effect : Effects, handle : SUBSET Thing, created : SUBSET Thing]
          /\ o.effect = "none" /\ o.handle = {} /\ o.created = {}
      BY DEF Pending, Effects
    <2> HIDE DEF o
    <2>4. CallTypes'
      BY <2>1, <2>3 DEF CallTypes
    <2>5. Aside(c)
      BY <2>1 DEF CallTypes, Aside, Same
    <2>6. CallSound(c)'
      <3>1. /\ pc'[c] = "done" /\ out'[c] = o /\ CallSound(c) /\ made'[c] = {} /\ ~killed'[c]
            /\ started'[c] = 0 /\ req[c].op = "recreate"
            /\ UNCHANGED <<req[c], bound[c], guard[c], target[c], reply[c], allowStart[c]>>
        BY <2>1 DEF CallTypes, CallSound, Unheard, Standing
      <3> QED
        BY <3>1, <2>3 DEF CallSound, Unheard, Standing, MayStart, Replied,
               UnsentIsTrue, ReportIsTrue, Stays
    <2> QED
      BY <2>2, <2>4, <2>5, <2>6 DEF Keeps
  <1> QED
    BY <1>1, <1>2 DEF Signal

ReplyType == [marker : {"none", "ok", "serverChanged", "version"}, row : Nat,
              err : {"none", "exists", "notFound", "noServer", "unstarted", "lost"}, from : Nat]

\* A reply of a command that made nothing.
LEMMA NothingMadeKeeps ==
    ASSUME CallsInv, NEW c \in Callers, NEW a \in ReplyType,
           pc[c] \in {"run", "starting"}, Goes(c, "reply"), reply' = [reply EXCEPT ![c] = a],
           UNCHANGED <<worldVars, req, bound, guard, allowStart, target, out,
                       made, killed, started>>,
           a.row = 0, a.err # "none" \/ a.marker \in {"serverChanged", "version"},
           started[c] # 0 => a.err # "unstarted" /\ a.marker = "none"
    PROVE  Keeps(c)
  <1> USE DEF CallsInv
  <1>1. WorldOK' /\ WorldMoves
    BY WorldStays
  <1>2. CallTypes'
    BY DEF CallTypes, Goes, ReplyType
  <1>3. Aside(c)
    BY DEF CallTypes, Aside, Same, Goes
  <1>4. CallSound(c)'
    <2>1. /\ pc'[c] = "reply" /\ reply'[c] = a /\ CallSound(c) /\ made'[c] = {} /\ ~killed'[c]
          /\ UNCHANGED <<req[c], bound[c], guard[c], target[c], allowStart[c], out[c], started[c]>>
      BY DEF CallTypes, CallSound, Unheard, Goes
    <2> QED
      BY <2>1, PendingTypes DEF CallSound, Unheard, Standing, MayStart, Replied, MadeNone,
             UnsentIsTrue, ReportIsTrue, Stays
  <1> QED
    BY <1>1, <1>2, <1>3, <1>4 DEF Keeps

\* The command made one object: its reply names it, and it is of the daemon that answered.
LEMMA ObjectMadeKeeps ==
    ASSUME CallsInv, NEW c \in Callers, NEW m \in {"none", "ok"}, NEW w \in Nat,
           up = "listening", pc[c] \in {"run", "starting"}, Goes(c, "reply"),
           guard[c] \in {0, life}, w # 0 => w = target[c] /\ guard[c] = life,
           ids' = ids + 1,
           objs' \subseteq [kind : Kinds, id : Nat, named : BOOLEAN],
           reply' = [reply EXCEPT ![c] = Answer(m, ids', "none")],
           made' = [made EXCEPT ![c] = made[c] \cup
                       {[life |-> life, id |-> ids', kind |-> Kind(req[c]), with |-> w]}],
           killed' \in [Callers -> BOOLEAN],
           \A d \in Callers \ {c} : killed'[d] = killed[d],
           UNCHANGED <<life, up, answers, sock, binds, req, bound, guard, allowStart, target,
                       out, started>>
    PROVE  Keeps(c)
  <1> DEFINE thing == [life |-> life, id |-> ids', kind |-> Kind(req[c]), with |-> w]
             a     == Answer(m, ids', "none")
  <1>1. WorldOK' /\ WorldMoves
    BY DEF CallsInv, WorldOK, WorldMoves, Kinds
  <1>2. /\ thing \in [life : Nat, id : Nat, kind : Kinds, with : Nat]
        /\ thing.id = ids' /\ thing.life = life /\ thing.kind = Kind(req[c]) /\ thing.with = w
    BY DEF CallsInv, WorldOK, Kinds, Kind
  <1>3. /\ a \in ReplyType
        /\ a.row = ids' /\ a.from = life /\ a.err = "none" /\ a.marker = m
    BY DEF CallsInv, WorldOK, ReplyType, Answer
  <1>4. ids' # 0 /\ life # 0
    BY DEF CallsInv, WorldOK
  <1>5. /\ CallTypes /\ CallSound(c)
        /\ made' = [made EXCEPT ![c] = made[c] \cup {thing}]
        /\ reply' = [reply EXCEPT ![c] = a]
    BY DEF CallsInv
  <1> HIDE DEF thing, a
  <1>6. CallTypes'
    BY <1>2, <1>3, <1>5 DEF CallTypes, Goes, ReplyType
  <1>7. Aside(c)
    BY <1>5 DEF CallTypes, Aside, Same, Goes
  <1>8. CallSound(c)'
    <2>1. /\ pc'[c] = "reply" /\ reply'[c] = a /\ made'[c] = {thing} /\ out'[c] = Pending
          /\ UNCHANGED <<req[c], bound[c], guard[c], target[c], allowStart[c], started[c]>>
      BY <1>5 DEF CallTypes, CallSound, Unheard, Goes
    <2>2. Unheard(c)' /\ Standing(c)'
      BY <1>5, <2>1 DEF CallSound, Unheard, Standing, MayStart
    <2>3. Replied(c)'
      BY <1>2, <1>3, <1>4, <2>1 DEF Replied, MadeOne, Kind
    <2>4. UnsentIsTrue(c)' /\ ReportIsTrue(c)'
      BY <2>1, PendingTypes DEF UnsentIsTrue, ReportIsTrue
    <2>5. Stays(c)'
      BY <1>2, <2>1 DEF Stays
    <2> QED
      BY <2>2, <2>3, <2>4, <2>5 DEF CallSound
  <1> QED
    BY <1>1, <1>6, <1>7, <1>8 DEF Keeps

\* The command list runs in the guard's daemon, or in whichever the call may have started.
LEMMA CommandsKeep ==
    ASSUME CallsInv, NEW c \in Callers, NEW m \in {"none", "ok"},
           up = "listening", pc[c] \in {"run", "starting"},
           \/ guard[c] = life
           \/ guard[c] = 0 /\ allowStart[c] /\ m = "none",
           Commands(c, m), UNCHANGED <<req, bound, guard, allowStart, target, out>>
    PROVE  Keeps(c)
  <1>1. /\ CallTypes /\ WorldOK /\ Standing(c) /\ life # 0 /\ life \in Nat /\ ids \in Nat
        /\ Goes(c, "reply") /\ UNCHANGED <<life, up, answers, sock, binds, started>>
        /\ target[c] \in Nat
        /\ objs \subseteq [kind : Kinds, id : Nat, named : BOOLEAN]
    BY DEF CallsInv, CallTypes, CallSound, WorldOK, Commands, Kinds
  <1>2. ASSUME NEW e \in {"exists", "notFound"}, reply' = [reply EXCEPT ![c] = Answer(m, 0, e)],
               UNCHANGED <<objs, ids, made, killed>>
        PROVE  Keeps(c)
    <2>1. /\ Answer(m, 0, e) \in ReplyType /\ Answer(m, 0, e).row = 0
          /\ Answer(m, 0, e).err = e /\ Answer(m, 0, e).marker = m
      BY <1>1 DEF Answer, ReplyType
    <2>2. started[c] # 0 => m = "none"
      BY <1>1 DEF Standing
    <2> QED
      BY <1>1, <1>2, <2>1, <2>2, NothingMadeKeeps DEF worldVars
  <1>3. CASE NewSession(c, m) /\ req[c].op = "session"
    <2>1. CASE /\ reply' = [reply EXCEPT ![c] = Answer(m, 0, "exists")]
               /\ UNCHANGED <<objs, ids, made, killed>>
      BY <2>1, <1>2
    <2>2. CASE ~(req[c].named /\ \E o \in objs : Named(o))
      <3> DEFINE w == IF req[c].group THEN GroupOf(c) ELSE 0
      <3>1. w \in Nat /\ (w # 0 => w = target[c] /\ guard[c] = life)
        BY <1>1 DEF GroupOf, Standing, CallTypes, Request
      <3>2. /\ Kind(req[c]) = "session" /\ ids' = ids + 1
            /\ objs' = objs \cup {NewObject("session", req[c].named)}
            /\ made' = [made EXCEPT ![c] = made[c] \cup
                           {[life |-> life, id |-> ids', kind |-> "session", with |-> w]}]
            /\ reply' = [reply EXCEPT ![c] = Answer(m, ids', "none")]
            /\ killed' = killed
        BY <1>3, <2>2 DEF NewSession, Kind
      <3>3. objs' \subseteq [kind : Kinds, id : Nat, named : BOOLEAN]
        BY <1>1, <3>2 DEF NewObject, Kinds, CallTypes, Request
      <3>4. killed' \in [Callers -> BOOLEAN]
        BY <1>1, <3>2 DEF CallTypes
      <3> HIDE DEF w
      <3> QED
        BY <1>1, <3>1, <3>2, <3>3, <3>4, ObjectMadeKeeps
    <2> QED
      BY <1>3, <2>1, <2>2 DEF NewSession
  <1>4. CASE NewWindowOrPane(c, m)
    <2>1. CASE Refused(c, m)
      BY <2>1, <1>2 DEF Refused
    <2>2. CASE /\ ids' = ids + 1
               /\ objs' = {o \in objs : ~(req[c].killTarget /\ o.id = target[c])}
                          \cup {NewObject(Kind(req[c]), FALSE)}
               /\ killed' = [killed EXCEPT ![c] = req[c].killTarget]
               /\ made' = [made EXCEPT ![c] = made[c] \cup
                      {[life |-> life, id |-> ids', kind |-> Kind(req[c]), with |-> 0]}]
               /\ reply' = [reply EXCEPT ![c] = Answer(m, ids', "none")]
      <3>1. objs' \subseteq [kind : Kinds, id : Nat, named : BOOLEAN]
        <4>1. NewObject(Kind(req[c]), FALSE) \in [kind : Kinds, id : Nat, named : BOOLEAN]
          BY <1>1 DEF NewObject, Kinds, Kind
        <4> QED
          BY <1>1, <2>2, <4>1
      <3>2. killed' \in [Callers -> BOOLEAN] /\ \A d \in Callers \ {c} : killed'[d] = killed[d]
        BY <1>1, <2>2 DEF CallTypes, Request
      <3> QED
        BY <1>1, <2>2, <3>1, <3>2, ObjectMadeKeeps
    <2> QED
      BY <1>4, <2>1, <2>2 DEF NewWindowOrPane
  <1> QED
    BY <1>3, <1>4 DEF Commands

\* Every way the call's process may end.
LEMMA RunKeeps ==
    ASSUME CallsInv, NEW c \in Callers, Run(c)
    PROVE  Keeps(c)
  <1>1. /\ CallTypes /\ WorldOK /\ Standing(c) /\ life \in Nat /\ (up = "listening" => life # 0)
        /\ pc[c] = "run" /\ UNCHANGED <<req, bound, guard, allowStart, target, out>>
        /\ started[c] = 0
    BY DEF CallsInv, CallSound, WorldOK, Run, Standing, CallTypes
  <1>2. ASSUME NEW mk \in {"none", "serverChanged", "version"},
               NEW e \in {"none", "noServer", "unstarted", "lost"},
               e # "none" \/ mk # "none", Tells(c, Answer(mk, 0, e))
        PROVE  Keeps(c)
    <2>1. /\ Answer(mk, 0, e) \in ReplyType /\ Answer(mk, 0, e).row = 0
          /\ Answer(mk, 0, e).err = e /\ Answer(mk, 0, e).marker = mk
      BY <1>1 DEF Answer, ReplyType
    <2> QED
      BY <1>1, <1>2, <2>1, NothingMadeKeeps DEF Tells, HistoryOf
  <1>3. CASE RunGuarded(c)
    <2>1. CASE up = "listening" /\ GuardHolds(c) /\ Commands(c, "ok")
      BY <1>1, <2>1, CommandsKeep DEF GuardHolds
    <2>2. CASE Tells(c, Answer("serverChanged", 0, "none"))
      BY <2>2, <1>2
    <2>3. CASE Tells(c, Answer("none", 0, "noServer"))
      BY <2>3, <1>2
    <2> QED
      BY <1>3, <2>1, <2>2, <2>3 DEF RunGuarded
  <1>4. CASE RunUnguarded(c)
    <2>1. CASE up = "listening" /\ guard[c] = 0 /\ allowStart[c] /\ Commands(c, "none")
      BY <1>1, <2>1, CommandsKeep
    <2>2. CASE Tells(c, Answer("version", 0, "none"))
      BY <2>2, <1>2
    <2>3. CASE /\ guard[c] = 0 /\ allowStart[c] /\ Bind({Ours})
               /\ started' = [started EXCEPT ![c] = life'] /\ Goes(c, "starting")
               /\ UNCHANGED <<reply, made, killed>>
      <3>1. WorldOK' /\ WorldMoves /\ life' \in Nat
        BY <1>1, <2>3 DEF Bind, NewFile, WorldOK, WorldMoves, File
      <3>2. CallTypes'
        BY <1>1, <2>3, <3>1 DEF CallTypes, Goes
      <3>3. Aside(c)
        BY <1>1, <2>3 DEF CallTypes, Aside, Same, Goes
      <3>4. CallSound(c)'
        <4>1. /\ pc'[c] = "starting" /\ CallSound(c) /\ allowStart[c] /\ made'[c] = {}
              /\ ~killed'[c] /\ out'[c] = Pending
              /\ UNCHANGED <<req[c], bound[c], guard[c], target[c], allowStart[c], reply[c]>>
          BY <1>1, <2>3 DEF CallsInv, CallTypes, CallSound, Unheard, Goes
        <4> QED
          BY <1>1, <4>1, PendingTypes DEF CallSound, Unheard, Standing, MayStart, Replied,
                 UnsentIsTrue, ReportIsTrue, Stays
      <3> QED
        BY <3>1, <3>2, <3>3, <3>4 DEF Keeps
    <2> QED
      BY <1>4, <2>1, <2>2, <2>3 DEF RunUnguarded
  <1>5. CASE RunFails(c)
    BY <1>5, <1>2 DEF RunFails
  <1> QED
    BY <1>3, <1>4, <1>5 DEF Run

LEMMA StartingKeeps ==
    ASSUME CallsInv, NEW c \in Callers, Starting(c)
    PROVE  Keeps(c)
  <1>1. /\ CallTypes /\ WorldOK /\ allowStart[c] /\ guard[c] = 0
        /\ pc[c] = "starting" /\ UNCHANGED <<req, bound, guard, allowStart, target, out>>
    BY DEF CallsInv, CallSound, Starting, Standing
  <1>2. CASE up = "listening" /\ Commands(c, "none")
    BY <1>1, <1>2, CommandsKeep
  <1>3. CASE Tells(c, Answer("none", 0, "lost"))
    <2>1. /\ Answer("none", 0, "lost") \in ReplyType /\ Answer("none", 0, "lost").row = 0
          /\ Answer("none", 0, "lost").err = "lost" /\ Answer("none", 0, "lost").marker = "none"
      BY <1>1 DEF Answer, ReplyType, WorldOK
    <2> QED
      BY <1>1, <1>3, <2>1, NothingMadeKeeps DEF Tells, HistoryOf
  <1> QED
    BY <1>2, <1>3 DEF Starting, Listening

-----------------------------------------------------------------------------
(* What the library makes of the reply.                                     *)

\* What is read of a reply that names an object names that object or none; of a reply that names
\* none, what is read names none.
LEMMA SeenOfOne ==
    ASSUME NEW c \in Callers, NEW r \in ReplyType, MadeOne(c, r), NEW a \in Seen(r)
    PROVE  /\ a.row \in {0, r.row} /\ a.from = r.from /\ a.err \in {"none", "lost"}
           /\ a.marker \in {"none", "ok"}
  BY DEF ReplyType, MadeOne, Seen, Cut

LEMMA SeenOfNone ==
    ASSUME NEW c \in Callers, NEW r \in ReplyType, MadeNone(c, r), NEW a \in Seen(r)
    PROVE  /\ a.row = 0
           /\ a.marker \in {"none", r.marker} /\ a.err \in {r.err, "lost"}
           /\ a.err # "none" \/ a.marker \in {"serverChanged", "version"}
  BY DEF ReplyType, MadeNone, Seen, Cut

\* The call ends with an outcome that is true.
LEMMA EndsKeeps ==
    ASSUME CallsInv, NEW c \in Callers, pc[c] = "reply",
           NEW o \in [ok : BOOLEAN, effect : Effects, handle : SUBSET Thing, created : SUBSET Thing],
           Ends(c, o),
           UNCHANGED <<worldVars, req, bound, guard, allowStart, target, reply,
                       made, killed, started>>,
           o.effect \in {"notSent", "rejected"} =>
              made[c] = {} /\ ~killed[c] /\ (o.effect = "notSent" => started[c] = 0),
           \A h \in o.created \cup o.handle : \E m \in made[c] :
              m.id = h.id /\ m.kind = h.kind /\ h.life \in {0, m.life},
           \A h \in o.handle : h.life # 0,
           o.ok => Cardinality(made[c]) = 1
    PROVE  Keeps(c)
  <1> USE DEF CallsInv
  <1>1. WorldOK' /\ WorldMoves
    BY WorldStays
  <1>2. CallTypes'
    BY DEF CallTypes, Ends, Goes
  <1>3. Aside(c)
    BY DEF CallTypes, Aside, Same, Ends, Goes
  <1>4. CallSound(c)'
    <2>1. /\ pc'[c] = "done" /\ out'[c] = o /\ CallSound(c) /\ made'[c] = made[c]
          /\ UNCHANGED <<req[c], bound[c], guard[c], target[c], allowStart[c], reply[c],
                         killed[c], started[c]>>
      BY DEF CallTypes, CallSound, Ends, Goes
    <2>2. Unheard(c)' /\ Standing(c)' /\ Replied(c)' /\ Stays(c)'
      BY <2>1 DEF CallSound, Unheard, Standing, MayStart, Replied, Stays
    <2>3. UnsentIsTrue(c)'
      BY <2>1 DEF UnsentIsTrue
    <2>4. ReportIsTrue(c)'
      BY <2>1 DEF ReportIsTrue
    <2> QED
      BY <2>2, <2>3, <2>4 DEF CallSound
  <1> QED
    BY <1>1, <1>2, <1>3, <1>4 DEF Keeps

\* An error is "not sent" only on a refusal that precedes the command, and "rejected" only on
\* tmux's own word.
LEMMA EffectIsRead ==
    ASSUME NEW c, NEW a
    PROVE  /\ EffectOf(c, a) \in {"notSent", "rejected", "unknown"}
           /\ EffectOf(c, a) = "notSent" =>
                 a.marker \in {"serverChanged", "version"} \/ a.err = "unstarted"
           /\ EffectOf(c, a) = "rejected" => a.err = "exists"
  <1>1. CASE a.marker = "serverChanged"
    BY <1>1 DEF EffectOf, Rejected
  <1>2. CASE a.marker # "serverChanged"
    BY <1>2 DEF EffectOf, Rejected
  <1> QED
    BY <1>1, <1>2

Outcomes == [ok : BOOLEAN, effect : Effects, handle : SUBSET Thing, created : SUBSET Thing]
IsOutcome(o, ok, e, H, C) ==
    o \in Outcomes /\ o.ok = ok /\ o.effect = e /\ o.handle = H /\ o.created = C

LEMMA OutcomeFields ==
    ASSUME NEW e \in Effects, NEW H \in SUBSET Thing, NEW C \in SUBSET Thing
    PROVE  /\ IsOutcome([Failed(e) EXCEPT !.created = C], FALSE, e, {}, C)
           /\ IsOutcome([Failed(e) EXCEPT !.handle = H, !.created = C], FALSE, e, H, C)
           /\ IsOutcome([Pending EXCEPT !.ok = TRUE, !.handle = H], TRUE, "none", H, {})
  <1>1. IsOutcome([Failed(e) EXCEPT !.created = C], FALSE, e, {}, C)
    BY DEF Failed, Pending, IsOutcome, Outcomes
  <1>2. IsOutcome([Failed(e) EXCEPT !.handle = H, !.created = C], FALSE, e, H, C)
    BY DEF Failed, Pending, IsOutcome, Outcomes
  <1>3. IsOutcome([Pending EXCEPT !.ok = TRUE, !.handle = H], TRUE, "none", H, {})
    BY DEF Pending, IsOutcome, Outcomes, Effects
  <1> QED
    BY <1>1, <1>2, <1>3

LEMMA ConcludeKeeps ==
    ASSUME CallsInv, NEW c \in Callers, Conclude(c)
    PROVE  Keeps(c)
  <1>1. /\ pc[c] = "reply" /\ reply[c] \in ReplyType /\ req[c] \in Request
        /\ UNCHANGED <<worldVars, req, bound, guard, allowStart, target, reply,
                       made, killed, started>>
        /\ MadeOne(c, reply[c]) \/ MadeNone(c, reply[c])
    BY DEF CallsInv, CallTypes, CallSound, Replied, Conclude, HistoryOf, ReplyType
  <1>2. PICK a \in Seen(reply[c]) :
           \/ /\ a.err # "none" \/ a.marker \in {"serverChanged", "version"}
              /\ Ends(c, [Failed(EffectOf(c, a)) EXCEPT !.created = Recovered(c, a)])
           \/ /\ a.err = "none" /\ a.marker \in {"none", "ok"} /\ a.row # 0
              /\ \/ Ends(c, [Pending EXCEPT !.ok = TRUE, !.handle = HandleOf(c, a)])
                 \/ Ends(c, [Failed("confirmed") EXCEPT !.created = Recovered(c, a)])
                 \/ Ends(c, [Failed("confirmed") EXCEPT !.handle = HandleOf(c, a),
                                                        !.created = HandleOf(c, a)])
    BY DEF Conclude
  <1>3. Kind(req[c]) \in Kinds
    BY DEF Kind, Kinds
  <1>4. EffectOf(c, a) \in Effects
    BY EffectIsRead DEF Effects
  <1>5. CASE MadeOne(c, reply[c])
    <2>1. PICK m \in made[c] : /\ made[c] = {m} /\ m.id = reply[c].row /\ m.life = reply[c].from
                               /\ m.kind = Kind(req[c])
      BY <1>5 DEF MadeOne
    <2>2. reply[c].row \in Nat /\ reply[c].from \in Nat /\ reply[c].row # 0 /\ reply[c].from # 0
      BY <1>1, <1>5 DEF MadeOne, ReplyType
    <2>3. /\ a.row \in {0, reply[c].row} /\ a.from = reply[c].from /\ a.err \in {"none", "lost"}
          /\ a.marker \in {"none", "ok"}
      BY <1>1, <1>2, <1>5, SeenOfOne
    <2>4. Recovered(c, a) \in SUBSET Thing /\ \A h \in Recovered(c, a) :
             h.id = m.id /\ h.kind = m.kind /\ h.life = 0
      BY <1>3, <2>1, <2>2, <2>3 DEF Recovered, Thing
    <2>5. a.row # 0 => HandleOf(c, a) \in SUBSET Thing /\ \A h \in HandleOf(c, a) :
             h.id = m.id /\ h.kind = m.kind /\ h.life = m.life /\ h.life # 0
      BY <1>3, <2>1, <2>2, <2>3 DEF HandleOf, Thing
    <2>6. Cardinality(made[c]) = 1
      BY <2>1, FS_Singleton
    <2>7. ASSUME NEW o \in [ok : BOOLEAN, effect : Effects,
                            handle : SUBSET Thing, created : SUBSET Thing],
                 Ends(c, o), o.effect \notin {"notSent", "rejected"},
                 \A h \in o.created \cup o.handle :
                    h.id = m.id /\ h.kind = m.kind /\ h.life \in {0, m.life},
                 \A h \in o.handle : h.life # 0
          PROVE  Keeps(c)
      BY <1>1, <2>1, <2>6, <2>7, EndsKeeps
    <2> DEFINE R == Recovered(c, a)
               H == HandleOf(c, a)
    <2>8. CASE /\ a.err # "none" \/ a.marker \in {"serverChanged", "version"}
               /\ Ends(c, [Failed(EffectOf(c, a)) EXCEPT !.created = R])
      <3> DEFINE o == [Failed(EffectOf(c, a)) EXCEPT !.created = R]
      <3>3. EffectOf(c, a) \notin {"notSent", "rejected"}
        BY <2>3, EffectIsRead
      <3>1. IsOutcome(o, FALSE, EffectOf(c, a), {}, R)
        BY <1>4, <2>4, OutcomeFields DEF Effects
      <3>2. Ends(c, o)
        BY <2>8
      <3> HIDE DEF o, R, H
      <3> QED
        BY <2>4, <2>5, <2>7, <2>8, <3>1, <3>2, <3>3 DEF IsOutcome, Outcomes, R, H
    <2>9. CASE a.row # 0 /\ Ends(c, [Pending EXCEPT !.ok = TRUE, !.handle = H])
      <3> DEFINE o == [Pending EXCEPT !.ok = TRUE, !.handle = H]
      <3>1. IsOutcome(o, TRUE, "none", H, {})
        BY <2>5, <2>9, OutcomeFields DEF Effects
      <3>2. Ends(c, o)
        BY <2>9
      <3> HIDE DEF o, R, H
      <3> QED
        BY <2>4, <2>5, <2>7, <2>9, <3>1, <3>2 DEF IsOutcome, Outcomes, R, H
    <2>10. CASE a.row # 0 /\ Ends(c, [Failed("confirmed") EXCEPT !.created = R])
      <3> DEFINE o == [Failed("confirmed") EXCEPT !.created = R]
      <3>1. IsOutcome(o, FALSE, "confirmed", {}, R)
        BY <2>4, OutcomeFields DEF Effects
      <3>2. Ends(c, o)
        BY <2>10
      <3> HIDE DEF o, R, H
      <3> QED
        BY <2>4, <2>5, <2>7, <2>10, <3>1, <3>2 DEF IsOutcome, Outcomes, R, H
    <2>11. CASE a.row # 0 /\ Ends(c, [Failed("confirmed") EXCEPT !.handle = H, !.created = H])
      <3> DEFINE o == [Failed("confirmed") EXCEPT !.handle = H, !.created = H]
      <3>1. IsOutcome(o, FALSE, "confirmed", H, H)
        BY <2>5, <2>11, OutcomeFields DEF Effects
      <3>2. Ends(c, o)
        BY <2>11
      <3> HIDE DEF o, R, H
      <3> QED
        BY <2>4, <2>5, <2>7, <2>11, <3>1, <3>2 DEF IsOutcome, Outcomes, R, H
    <2> QED
      BY <1>2, <2>8, <2>9, <2>10, <2>11
  <1>6. CASE MadeNone(c, reply[c])
    <2>1. /\ made[c] = {} /\ ~killed[c]
          /\ started[c] # 0 => reply[c].err # "unstarted" /\ reply[c].marker = "none"
      BY <1>6 DEF MadeNone
    <2>2. /\ a.row = 0 /\ a.marker \in {"none", reply[c].marker} /\ a.err \in {reply[c].err, "lost"}
          /\ a.err # "none" \/ a.marker \in {"serverChanged", "version"}
      BY <1>1, <1>2, <1>6, SeenOfNone
    <2>3. Ends(c, [Failed(EffectOf(c, a)) EXCEPT !.created = {}])
      BY <1>2, <2>2 DEF Recovered
    <2> DEFINE o == [Failed(EffectOf(c, a)) EXCEPT !.created = {}]
    <2>4. Ends(c, o)
      BY <2>3
    <2>5. EffectOf(c, a) = "notSent" => started[c] = 0
      BY <2>1, <2>2, EffectIsRead
    <2>6. IsOutcome(o, FALSE, EffectOf(c, a), {}, {})
      BY <1>4, OutcomeFields
    <2> HIDE DEF o
    <2> QED
      BY <1>1, <2>1, <2>4, <2>5, <2>6, EndsKeeps DEF IsOutcome, Outcomes
  <1> QED
    BY <1>1, <1>5, <1>6

LEMMA ReturnKeeps ==
    ASSUME CallsInv, NEW c \in Callers, Return(c)
    PROVE  Keeps(c)
  <1> USE DEF CallsInv
  <1>1. WorldOK' /\ WorldMoves
    BY WorldStays DEF Return
  <1>2. NoReply \in ReplyType /\ NoRequest \in Request /\ Pending.effect = "none"
    BY PendingTypes, RequestTypes DEF NoReply, ReplyType
  <1>3. CallTypes'
    BY <1>2, PendingTypes DEF CallTypes, Return, Goes, ReplyType
  <1>4. Aside(c)
    BY DEF CallTypes, Aside, Same, Return, Goes
  <1>5. CallSound(c)'
    <2>1. /\ pc'[c] = "gone" /\ out'[c] = Pending /\ made'[c] = {} /\ ~killed'[c]
          /\ guard'[c] = 0 /\ started'[c] = 0 /\ ~allowStart'[c]
      BY DEF CallTypes, Return, Goes
    <2> QED
      BY <2>1, PendingTypes DEF CallSound, Unheard, Standing, Replied,
             UnsentIsTrue, ReportIsTrue, Stays
  <1> QED
    BY <1>1, <1>3, <1>4, <1>5 DEF Keeps

-----------------------------------------------------------------------------
(* The invariant of the creating calls, over every step of the system.      *)
LEMMA CallsInit == Init => CallsInv
  <1> SUFFICES ASSUME Init PROVE CallsInv
    OBVIOUS
  <1>1. WorldOK
    BY DEF Init, WorldInit, WorldOK, NoSock, File
  <1>2. NoReply \in ReplyType /\ NoRequest \in Request
    BY RequestTypes DEF NoReply, ReplyType
  <1>3. CallTypes
    BY <1>2, PendingTypes DEF Init, CreationInit, CallTypes, ReplyType
  <1>4. ASSUME NEW c \in Callers PROVE CallSound(c)
    <2>1. /\ pc[c] = "call" /\ out[c] = Pending /\ made[c] = {} /\ ~killed[c]
          /\ guard[c] = 0 /\ started[c] = 0 /\ ~allowStart[c]
      BY DEF Init, CreationInit
    <2> QED
      BY <2>1, PendingTypes DEF CallSound, Unheard, Standing, Replied,
             UnsentIsTrue, ReportIsTrue, Stays
  <1> QED
    BY <1>1, <1>3, <1>4 DEF CallsInv

LEMMA CreateKeeps ==
    ASSUME CallsInv, NEW c \in Callers, Create(c)
    PROVE  Keeps(c)
  <1>1. CASE \E r \in Requests : Begin(c, r)
    BY <1>1, BeginKeeps
  <1>2. CASE ProbeAnswers(c) \/ ProbeFindsNone(c) \/ ProbeErrs(c)
    BY <1>2, ProbeStepsKeep
  <1>3. CASE ExecutableVersion(c)
    BY <1>3, VersionKeeps
  <1>4. CASE GroupListed(c) \/ GroupFails(c)
    BY <1>4, GroupKeeps
  <1>5. CASE Signal(c)
    BY <1>5, SignalKeeps
  <1>6. CASE Run(c)
    BY <1>6, RunKeeps
  <1>7. CASE Starting(c)
    BY <1>7, StartingKeeps
  <1>8. CASE Conclude(c)
    BY <1>8, ConcludeKeeps
  <1>9. CASE Return(c)
    BY <1>9, ReturnKeeps
  <1> QED
    BY <1>1, <1>2, <1>3, <1>4, <1>5, <1>6, <1>7, <1>8, <1>9 DEF Create

LEMMA CallsKept ==
    ASSUME CallsInv, WorldOK', UNCHANGED callVars
    PROVE  CallsInv'
  <1>1. CallTypes'
    BY DEF CallsInv, CallTypes, callVars
  <1>2. ASSUME NEW d \in Callers PROVE CallSound(d)'
    <2>1. Same(d)
      BY DEF callVars, Same
    <2> QED
      BY <2>1, SameStaysSound DEF CallsInv
  <1> QED
    BY <1>1, <1>2 DEF CallsInv

LEMMA CallsNext ==
    ASSUME CallsInv, [Next]_vars
    PROVE  CallsInv' /\ (WorldMoves \/ UNCHANGED vars)
  <1>1. CASE (Daemons \/ Clients) /\ UNCHANGED <<callVars, findVars>>
    BY <1>1, DaemonsKeepWorld, CallsKept DEF CallsInv
  <1>2. CASE UNCHANGED <<worldVars, callVars>>
    BY <1>2, WorldStays, CallsKept DEF CallsInv
  <1>3. CASE \E c \in Callers : Create(c)
    <2>1. PICK c \in Callers : Create(c)
      BY <1>3
    <2>2. Keeps(c)
      BY <2>1, CreateKeeps
    <2>3. ASSUME NEW d \in Callers PROVE CallSound(d)'
      <3>1. CASE d = c
        BY <3>1, <2>2 DEF Keeps
      <3>2. CASE d # c
        <4>1. Same(d)
          BY <2>2, <3>2 DEF Keeps, Aside
        <4> QED
          BY <4>1, SameStaysSound DEF CallsInv
      <3> QED
        BY <3>1, <3>2
    <2> QED
      BY <2>2, <2>3 DEF Keeps, CallsInv
  <1> QED
    BY <1>1, <1>2, <1>3 DEF Next, vars

-----------------------------------------------------------------------------
(* Discovery: the inductive invariant.  A verdict about the file that is at *)
(* the path now is true of that file; one about another file is never read, *)
(* for no file comes back.                                                  *)
Verdict == [file : File, refused : BOOLEAN, verified : Binaries \cup {NoBinary}]

FindTypes ==
    /\ cache \in Verdict
    /\ fpc \in [Finders -> {"idle", "look", "dial", "probe", "end"}]
    /\ bin \in [Finders -> Binaries] /\ cand \in [Finders -> File]
    /\ known \in [Finders -> Verdict] /\ verdict \in [Finders -> Verdict]
    /\ listed \in [Finders -> BOOLEAN] /\ unanswered \in [Finders -> BOOLEAN]
    /\ seen \in [Finders -> Nat]

Honest(v) ==
    /\ v.file.at <= binds
    /\ v.file = sock /\ sock # NoSock =>
          /\ v.refused => sock \in refused
          /\ v.verified # NoBinary => <<life, v.verified>> \in probed

\* The file a call looked at while its daemon listened is not made anew by that daemon.
NotRebound(f) ==
    /\ cand[f].at <= binds /\ seen[f] <= life
    /\ SameFile(f) /\ seen[f] # 0 /\ seen[f] = life => up # "bound"

ListedByVerdict(f) ==
    /\ listed[f] => /\ fpc[f] = "end"
                    /\ verdict[f].file = cand[f] /\ verdict[f].verified = bin[f]
    /\ known[f].verified # NoBinary => known[f].file = cand[f]
    /\ fpc[f] = "idle" => known[f] = NoVerdict /\ verdict[f] = NoVerdict

Misses(f) ==
    (/\ fpc[f] = "end" /\ SameFile(f) /\ Listening(seen[f])
     /\ bin[f] \in answers /\ ~unanswered[f])
        => listed[f] \/ sock \in refused

FindSound(f) ==
    /\ Honest(known[f]) /\ Honest(verdict[f])
    /\ NotRebound(f) /\ ListedByVerdict(f) /\ Misses(f)

FindsInv == FindTypes /\ Honest(cache) /\ \A f \in Finders : FindSound(f)

\* A step of the world or of a creating call.
LEMMA WorldKeepsFinds ==
    ASSUME WorldOK, WorldOK', FindsInv, WorldMoves, UNCHANGED findVars
    PROVE  FindsInv'
  <1> USE DEF FindsInv
  <1>1. FindTypes'
    BY DEF FindTypes, findVars
  <1>2. ASSUME NEW v \in Verdict, Honest(v)
        PROVE  /\ v.file.at <= binds'
               /\ v.file = sock' /\ sock' # NoSock =>
                     /\ v.refused => sock' \in refused'
                     /\ v.verified # NoBinary => <<life', v.verified>> \in probed'
    <2>1. v.file.at \in Nat /\ binds \in Nat
      BY DEF Verdict, File, WorldOK
    <2>2. CASE UNCHANGED <<sock, life, answers, binds>>
      BY <1>2, <2>2 DEF Honest, findVars
    <2>3. CASE sock' = NoSock /\ UNCHANGED <<life, answers, binds>>
      BY <1>2, <2>3 DEF Honest
    <2>4. CASE sock'.at = binds + 1 /\ binds' = binds + 1
      BY <1>2, <2>1, <2>4 DEF Honest
    <2> QED
      BY <2>2, <2>3, <2>4 DEF WorldMoves
  <1>3. Honest(cache)'
    BY <1>2 DEF FindTypes, Honest, findVars
  <1>4. ASSUME NEW f \in Finders PROVE FindSound(f)'
    <2>1. Honest(known[f])' /\ Honest(verdict[f])'
      BY <1>2 DEF FindTypes, FindSound, Honest, findVars
    <2>2. /\ cand[f].at \in Nat /\ binds \in Nat /\ life \in Nat /\ seen[f] \in Nat
          /\ cand[f].at <= binds /\ seen[f] <= life
          /\ UNCHANGED <<cand[f], seen[f], fpc[f], bin[f], listed[f], unanswered[f], refused>>
      BY DEF FindTypes, FindSound, NotRebound, WorldOK, File, findVars
    <2>3. ListedByVerdict(f)'
      BY DEF FindSound, ListedByVerdict, findVars
    <2>4. NotRebound(f)' /\ Misses(f)'
      <3>1. CASE /\ UNCHANGED <<sock, life, answers, binds>>
                 /\ up' = "bound" => up = "bound"
                 /\ up' = "listening" => up # "none"
        <4>1. NotRebound(f)'
          BY <2>2, <3>1 DEF FindSound, NotRebound, SameFile
        <4>2. Misses(f)'
          <5>1. SameFile(f)' /\ Listening(seen[f])' => SameFile(f) /\ Listening(seen[f])
            BY <2>2, <3>1 DEF FindSound, NotRebound, SameFile, Listening, WorldOK
          <5> QED
            BY <2>2, <3>1, <5>1 DEF FindSound, Misses
        <4> QED
          BY <4>1, <4>2
      <3>2. CASE sock' = NoSock /\ UNCHANGED <<life, answers, binds>>
        BY <2>2, <3>2 DEF NotRebound, Misses, SameFile
      <3>3. CASE sock'.at = binds + 1 /\ binds' = binds + 1 /\ life' >= life
        <4>1. ~SameFile(f)'
          BY <2>2, <3>3 DEF SameFile
        <4>2. life' \in Nat
          BY DEF WorldOK
        <4> QED
          BY <2>2, <3>3, <4>1, <4>2 DEF NotRebound, Misses
      <3> QED
        BY <3>1, <3>2, <3>3 DEF WorldMoves
    <2> QED
      BY <2>1, <2>3, <2>4 DEF FindSound
  <1> QED
    BY <1>1, <1>3, <1>4

-----------------------------------------------------------------------------
(* The steps of a discovery leave the others' findings sound.               *)
LEMMA OtherFinders ==
    ASSUME NEW g, FindSound(g), UNCHANGED worldVars,
           refused \subseteq refused', probed \subseteq probed',
           UNCHANGED <<fpc[g], bin[g], cand[g], known[g], verdict[g], listed[g], seen[g],
                       unanswered[g]>>
    PROVE  FindSound(g)'
  BY DEF FindSound, Honest, NotRebound, ListedByVerdict, Misses, SameFile, Listening, worldVars

LEMMA HonestStays ==
    ASSUME UNCHANGED worldVars, refused \subseteq refused', probed \subseteq probed',
           NEW v, Honest(v), NEW w, w = v
    PROVE  /\ w.file.at <= binds'
           /\ w.file = sock' /\ sock' # NoSock =>
                 /\ w.refused => sock' \in refused'
                 /\ w.verified # NoBinary => <<life', w.verified>> \in probed'
  BY DEF Honest, worldVars

\* Nothing is known before anything was looked up.
LEMMA NothingKnown ==
    ASSUME WorldOK
    PROVE  /\ NoVerdict \in Verdict /\ NoSock \in File /\ NoSock.at = 0
           /\ NoVerdict.file = NoSock /\ ~NoVerdict.refused /\ NoVerdict.verified = NoBinary
           /\ Honest(NoVerdict)
  BY DEF WorldOK, NoVerdict, NoSock, Verdict, File, Honest

\* A step of one discovery.
SameFind(g) == UNCHANGED <<fpc[g], bin[g], cand[g], known[g], verdict[g], listed[g], seen[g],
                           unanswered[g]>>
Finds(f) ==
    /\ FindTypes' /\ Honest(cache)' /\ FindSound(f)'
    /\ refused \subseteq refused' /\ probed \subseteq probed'
    /\ \A g \in Finders \ {f} : SameFind(g)

LEMMA FindBegins ==
    ASSUME WorldOK, FindsInv, UNCHANGED worldVars,
           NEW f \in Finders, NEW b \in Binaries, Find(f, b)
    PROVE  Finds(f)
  <1> USE DEF FindsInv
  <1>1. /\ fpc[f] = "idle" /\ known[f] = NoVerdict /\ verdict[f] = NoVerdict /\ ~listed[f]
        /\ sock \in File /\ sock.at <= binds /\ life \in Nat
    BY DEF Find, FindSound, ListedByVerdict, WorldOK
  <1>2. /\ fpc' = [fpc EXCEPT ![f] = IF sock = NoSock THEN "end" ELSE "look"]
        /\ bin' = [bin EXCEPT ![f] = b] /\ cand' = [cand EXCEPT ![f] = sock]
        /\ seen' = [seen EXCEPT ![f] = IF up = "listening" THEN life ELSE 0]
        /\ UNCHANGED <<cache, known, verdict, listed, refused, probed, unanswered>>
    BY DEF Find, Steps
  <1>3. FindTypes'
    BY <1>1, <1>2 DEF FindTypes
  <1>4. Honest(cache)'
    BY <1>2, HonestStays DEF Honest
  <1>5. FindSound(f)'
    <2>1. /\ fpc'[f] \in {"end", "look"} /\ (fpc'[f] = "end" => sock = NoSock)
          /\ cand'[f] = sock /\ seen'[f] = (IF up = "listening" THEN life ELSE 0)
          /\ known'[f] = NoVerdict /\ verdict'[f] = NoVerdict /\ ~listed'[f]
      BY <1>1, <1>2 DEF FindTypes
    <2>2. Honest(known[f])' /\ Honest(verdict[f])'
      BY <2>1, NothingKnown DEF Honest, worldVars
    <2>3. NotRebound(f)'
      BY <1>1, <2>1 DEF NotRebound, worldVars
    <2>4. ListedByVerdict(f)' /\ Misses(f)'
      BY <2>1, NothingKnown DEF ListedByVerdict, Misses, SameFile, worldVars
    <2> QED
      BY <2>2, <2>3, <2>4 DEF FindSound
  <1> QED
    BY <1>2, <1>3, <1>4, <1>5 DEF Finds, SameFind, FindTypes

LEMMA LookKeeps ==
    ASSUME WorldOK, FindsInv, UNCHANGED worldVars, NEW f \in Finders, Look(f)
    PROVE  Finds(f)
  <1> USE DEF FindsInv
  <1> DEFINE v == Lookup(cand[f])
  <1>1. v \in Verdict /\ Honest(v) /\ v \in {cache, NoVerdict}
        /\ (v.verified # NoBinary \/ v.refused => v.file = cand[f])
    BY NothingKnown DEF Lookup, FindTypes
  <1>2. fpc[f] = "look" /\ ~listed[f]
    BY DEF Look, FindSound, ListedByVerdict
  <1>3. /\ known' = [known EXCEPT ![f] = v]
        /\ known'[f] = v
        /\ fpc' = [fpc EXCEPT ![f] = IF v.refused THEN "end" ELSE "dial"]
        /\ verdict' = [verdict EXCEPT ![f] = IF v.refused THEN v ELSE NoVerdict]
        /\ UNCHANGED <<cache, bin, cand, listed, refused, probed, seen, unanswered>>
    BY DEF Look, Steps, HistoryKept, FindTypes
  <1> HIDE DEF v
  <1>4. FindTypes'
    BY <1>1, <1>3, NothingKnown DEF FindTypes
  <1>5. Honest(cache)'
    BY <1>3, HonestStays DEF Honest
  <1>6. FindSound(f)'
    <2>1. /\ fpc'[f] = (IF v.refused THEN "end" ELSE "dial")
          /\ verdict'[f] = (IF v.refused THEN v ELSE NoVerdict)
          /\ known'[f] = v /\ ~listed'[f]
          /\ UNCHANGED <<cand[f], bin[f], seen[f], refused, probed, unanswered[f]>>
      BY <1>2, <1>3 DEF FindTypes
    <2>2. Honest(known[f])' /\ Honest(verdict[f])'
      BY <1>1, <2>1, NothingKnown DEF Honest, worldVars
    <2>3. NotRebound(f)'
      BY <2>1 DEF FindSound, NotRebound, SameFile, worldVars
    <2>4. ListedByVerdict(f)'
      BY <1>1, <2>1 DEF ListedByVerdict
    <2>5. Misses(f)'
      BY <1>1, <2>1 DEF Misses, SameFile, Honest, worldVars
    <2> QED
      BY <2>2, <2>3, <2>4, <2>5 DEF FindSound
  <1> QED
    BY <1>3, <1>4, <1>5, <1>6 DEF Finds, SameFind, FindTypes

LEMMA DialRefusedKeeps ==
    ASSUME WorldOK, FindsInv, UNCHANGED worldVars, NEW f \in Finders, DialRefused(f)
    PROVE  Finds(f)
  <1> USE DEF FindsInv
  <1> DEFINE v == RefusalOf(cand[f])
  <1>1. /\ v \in Verdict /\ v.file = cand[f] /\ v.refused /\ v.verified = NoBinary
        /\ cand[f].at <= binds
    BY DEF RefusalOf, FindTypes, Verdict, FindSound, NotRebound
  <1>2. /\ fpc[f] = "dial" /\ ~listed[f]
        /\ fpc' = [fpc EXCEPT ![f] = "end"] /\ verdict' = [verdict EXCEPT ![f] = v]
        /\ refused' = refused \cup {sock}
        /\ UNCHANGED <<cache, bin, cand, known, listed, probed, seen, unanswered>>
    BY DEF DialRefused, Steps, FindSound, ListedByVerdict
  <1> HIDE DEF v
  <1>3. FindTypes'
    BY <1>1, <1>2 DEF FindTypes
  <1>4. Honest(cache)'
    BY <1>2, HonestStays DEF Honest
  <1>5. FindSound(f)'
    <2>1. /\ fpc'[f] = "end" /\ verdict'[f] = v /\ ~listed'[f]
          /\ UNCHANGED <<known[f], cand[f], bin[f], seen[f], probed, unanswered[f]>>
          /\ refused \subseteq refused' /\ sock \in refused'
      BY <1>2 DEF FindTypes
    <2>2. Honest(known[f])'
      BY <2>1, HonestStays DEF Honest, FindSound
    <2>3. Honest(verdict[f])'
      BY <1>1, <2>1 DEF Honest, worldVars
    <2>4. NotRebound(f)' /\ ListedByVerdict(f)' /\ Misses(f)'
      BY <2>1 DEF FindSound, NotRebound, ListedByVerdict, Misses, SameFile, worldVars
    <2> QED
      BY <2>2, <2>3, <2>4 DEF FindSound
  <1> QED
    BY <1>2, <1>3, <1>4, <1>5 DEF Finds, SameFind, FindTypes

LEMMA DialFailsKeeps ==
    ASSUME WorldOK, FindsInv, UNCHANGED worldVars, NEW f \in Finders, DialFails(f)
    PROVE  Finds(f)
  <1> USE DEF FindsInv
  <1>1. /\ sock = NoSock /\ fpc[f] = "dial" /\ ~listed[f] /\ fpc' = [fpc EXCEPT ![f] = "end"]
        /\ UNCHANGED <<cache, bin, cand, known, verdict, listed, refused, probed, seen,
                       unanswered>>
    BY DEF DialFails, Steps, HistoryKept, FindSound, ListedByVerdict
  <1>2. FindTypes'
    BY <1>1 DEF FindTypes
  <1>3. Honest(cache)' /\ Honest(known[f])' /\ Honest(verdict[f])'
    BY <1>1 DEF Honest, FindSound, worldVars
  <1>4. NotRebound(f)' /\ ListedByVerdict(f)' /\ Misses(f)'
    BY <1>1 DEF FindTypes, FindSound, NotRebound, ListedByVerdict, Misses, SameFile, worldVars
  <1> QED
    BY <1>1, <1>2, <1>3, <1>4 DEF Finds, SameFind, FindTypes, FindSound

LEMMA DialAnsweredKeeps ==
    ASSUME WorldOK, FindsInv, UNCHANGED worldVars, NEW f \in Finders, DialAnswered(f)
    PROVE  Finds(f)
  <1> USE DEF FindsInv
  <1>1. /\ fpc[f] = "dial" /\ ~listed[f]
        /\ UNCHANGED <<cache, bin, cand, known, refused, probed, seen, unanswered>>
    BY DEF DialAnswered, HistoryKept, FindSound, ListedByVerdict
  <1>2. CASE /\ known[f].verified = bin[f] /\ fpc' = [fpc EXCEPT ![f] = "end"]
             /\ listed' = [listed EXCEPT ![f] = TRUE]
             /\ verdict' = [verdict EXCEPT ![f] = known[f]]
    <2>1. FindTypes'
      BY <1>1, <1>2 DEF FindTypes
    <2>2. /\ fpc'[f] = "end" /\ listed'[f] /\ verdict'[f] = known[f]
          /\ bin[f] # NoBinary
          /\ UNCHANGED <<known[f], cand[f], bin[f], seen[f], unanswered[f]>>
      BY <1>1, <1>2, DiscoveryAssumption DEF FindTypes
    <2>3. Honest(cache)' /\ Honest(known[f])' /\ Honest(verdict[f])'
      BY <1>1, <2>2 DEF Honest, FindSound, worldVars
    <2>4. NotRebound(f)' /\ ListedByVerdict(f)' /\ Misses(f)'
      BY <1>2, <2>2 DEF FindSound, NotRebound, ListedByVerdict, Misses, SameFile, worldVars
    <2> QED
      BY <1>1, <1>2, <2>1, <2>3, <2>4 DEF Finds, SameFind, FindTypes, FindSound
  <1>3. CASE fpc' = [fpc EXCEPT ![f] = "probe"] /\ UNCHANGED <<listed, verdict>>
    <2>1. FindTypes'
      BY <1>1, <1>3 DEF FindTypes
    <2>2. fpc'[f] = "probe"
      BY <1>3 DEF FindTypes
    <2>3. Honest(cache)' /\ Honest(known[f])' /\ Honest(verdict[f])'
      BY <1>1, <1>3 DEF Honest, FindSound, worldVars
    <2>4. NotRebound(f)' /\ ListedByVerdict(f)' /\ Misses(f)'
      BY <1>1, <1>3, <2>2 DEF FindSound, NotRebound, ListedByVerdict, Misses, SameFile, worldVars
    <2> QED
      BY <1>1, <1>3, <2>1, <2>3, <2>4 DEF Finds, SameFind, FindTypes, FindSound
  <1> QED
    BY <1>2, <1>3 DEF DialAnswered, Vouches, Steps

LEMMA ProbeAnsweredKeeps ==
    ASSUME WorldOK, FindsInv, UNCHANGED worldVars, NEW f \in Finders, ProbeAnswered(f)
    PROVE  Finds(f)
  <1> USE DEF FindsInv
  <1> DEFINE v == [file |-> cand[f], refused |-> FALSE, verified |-> bin[f]]
  <1>1. /\ v \in Verdict /\ v.file = cand[f] /\ ~v.refused /\ v.verified = bin[f]
        /\ cand[f].at <= binds
    BY DEF FindTypes, Verdict, FindSound, NotRebound
  <1>2. /\ fpc[f] = "probe" /\ fpc' = [fpc EXCEPT ![f] = "end"]
        /\ verdict' = [verdict EXCEPT ![f] = v] /\ listed' = [listed EXCEPT ![f] = TRUE]
        /\ probed' = probed \cup {<<life, bin[f]>>}
        /\ UNCHANGED <<cache, bin, cand, known, refused, seen, unanswered>>
    BY DEF ProbeAnswered, Steps
  <1> HIDE DEF v
  <1>3. FindTypes'
    BY <1>1, <1>2 DEF FindTypes
  <1>4. Honest(cache)'
    BY <1>2, HonestStays DEF Honest
  <1>5. FindSound(f)'
    <2>1. /\ fpc'[f] = "end" /\ verdict'[f] = v /\ listed'[f]
          /\ UNCHANGED <<known[f], cand[f], bin[f], seen[f], refused, unanswered[f]>>
          /\ probed \subseteq probed' /\ <<life, bin[f]>> \in probed'
      BY <1>2 DEF FindTypes
    <2>2. Honest(known[f])'
      BY <2>1, HonestStays DEF Honest, FindSound
    <2>3. Honest(verdict[f])'
      BY <1>1, <2>1 DEF Honest, worldVars
    <2>4. NotRebound(f)' /\ ListedByVerdict(f)' /\ Misses(f)'
      BY <1>1, <2>1 DEF FindSound, NotRebound, ListedByVerdict, Misses, SameFile, worldVars
    <2> QED
      BY <2>2, <2>3, <2>4 DEF FindSound
  <1> QED
    BY <1>2, <1>3, <1>4, <1>5 DEF Finds, SameFind, FindTypes

LEMMA ProbeFailsKeeps ==
    ASSUME WorldOK, FindsInv, UNCHANGED worldVars, NEW f \in Finders, ProbeFails(f)
    PROVE  Finds(f)
  <1> USE DEF FindsInv
  <1>1. /\ fpc[f] = "probe" /\ ~listed[f] /\ fpc' = [fpc EXCEPT ![f] = "end"]
        /\ unanswered' = [unanswered EXCEPT ![f] = TRUE]
        /\ UNCHANGED <<cache, bin, cand, known, verdict, listed, refused, probed, seen>>
    BY DEF ProbeFails, Steps, FindSound, ListedByVerdict
  <1>2. FindTypes'
    BY <1>1 DEF FindTypes
  <1>3. Honest(cache)' /\ Honest(known[f])' /\ Honest(verdict[f])'
    BY <1>1 DEF Honest, FindSound, worldVars
  <1>4. NotRebound(f)' /\ ListedByVerdict(f)' /\ Misses(f)'
    BY <1>1 DEF FindTypes, FindSound, NotRebound, ListedByVerdict, Misses, SameFile, worldVars
  <1> QED
    BY <1>1, <1>2, <1>3, <1>4 DEF Finds, SameFind, FindTypes, FindSound

LEMMA ReturnsKeeps ==
    ASSUME WorldOK, FindsInv, UNCHANGED worldVars, NEW f \in Finders, Returns(f),
           cache' \in {cache, verdict[f]}
    PROVE  Finds(f)
  <1> USE DEF FindsInv
  <1>1. /\ fpc' = [fpc EXCEPT ![f] = "idle"] /\ cand' = [cand EXCEPT ![f] = NoSock]
        /\ bin' = [bin EXCEPT ![f] = Ours]
        /\ known' = [known EXCEPT ![f] = NoVerdict] /\ verdict' = [verdict EXCEPT ![f] = NoVerdict]
        /\ listed' = [listed EXCEPT ![f] = FALSE] /\ seen' = [seen EXCEPT ![f] = 0]
        /\ unanswered' = [unanswered EXCEPT ![f] = FALSE]
        /\ UNCHANGED <<refused, probed>>
    BY DEF Returns, Steps
  <1>2. FindTypes'
    BY <1>1, NothingKnown, WorldAssumption DEF FindTypes
  <1>3. /\ fpc'[f] = "idle" /\ cand'[f] = NoSock /\ known'[f] = NoVerdict
        /\ verdict'[f] = NoVerdict /\ ~listed'[f] /\ seen'[f] = 0
    BY <1>1 DEF FindTypes
  <1>4. Honest(cache)'
    BY <1>1 DEF Honest, FindSound, worldVars
  <1>5. Honest(known[f])' /\ Honest(verdict[f])'
    BY <1>1, <1>3, NothingKnown DEF Honest, worldVars
  <1>6. NotRebound(f)' /\ ListedByVerdict(f)' /\ Misses(f)'
    BY <1>3, NothingKnown DEF NotRebound, ListedByVerdict, Misses, SameFile, worldVars, WorldOK
  <1> QED
    BY <1>1, <1>2, <1>4, <1>5, <1>6 DEF Finds, SameFind, FindTypes, FindSound

LEMMA DiscoverKeeps ==
    ASSUME WorldOK, FindsInv, UNCHANGED worldVars, NEW f \in Finders, Discover(f)
    PROVE  FindsInv'
  <1>1. Finds(f)
    <2>1. CASE \E b \in Binaries : Find(f, b)
      BY <2>1, FindBegins
    <2>2. CASE Look(f)
      BY <2>2, LookKeeps
    <2>3. CASE DialRefused(f)
      BY <2>3, DialRefusedKeeps
    <2>4. CASE DialFails(f)
      BY <2>4, DialFailsKeeps
    <2>5. CASE DialAnswered(f)
      BY <2>5, DialAnsweredKeeps
    <2>6. CASE NewRefuses(f)
      BY <2>6, ReturnsKeeps DEF NewRefuses
    <2>7. CASE ProbeAnswered(f)
      BY <2>7, ProbeAnsweredKeeps
    <2>8. CASE ProbeFails(f)
      BY <2>8, ProbeFailsKeeps
    <2>9. CASE Replace(f)
      BY <2>9, ReturnsKeeps DEF Replace
    <2> QED
      BY <2>1, <2>2, <2>3, <2>4, <2>5, <2>6, <2>7, <2>8, <2>9 DEF Discover
  <1>2. ASSUME NEW g \in Finders PROVE FindSound(g)'
    <2>1. CASE g = f
      BY <1>1, <2>1 DEF Finds
    <2>2. CASE g # f
      <3>1. FindSound(g) /\ SameFind(g)
        BY <1>1, <2>2 DEF Finds, FindsInv
      <3> QED
        BY <1>1, <3>1, OtherFinders DEF Finds, SameFind
    <2> QED
      BY <2>1, <2>2
  <1> QED
    BY <1>1, <1>2 DEF Finds, FindsInv

-----------------------------------------------------------------------------
(* The invariant of the whole.                                              *)
StartupInv == CallsInv /\ FindsInv

LEMMA StartupInit == Init => StartupInv
  <1> SUFFICES ASSUME Init PROVE StartupInv
    OBVIOUS
  <1>1. CallsInv
    BY CallsInit
  <1>2. WorldOK
    BY <1>1 DEF CallsInv
  <1>3. FindTypes
    BY <1>2, NothingKnown, WorldAssumption DEF Init, DiscoveryInit, FindTypes
  <1>4. Honest(cache)
    BY <1>2, NothingKnown DEF Init, DiscoveryInit
  <1>5. ASSUME NEW f \in Finders PROVE FindSound(f)
    <2>1. /\ fpc[f] = "idle" /\ cand[f] = NoSock /\ known[f] = NoVerdict
          /\ verdict[f] = NoVerdict /\ ~listed[f] /\ seen[f] = 0
      BY DEF Init, DiscoveryInit
    <2> QED
      BY <1>2, <2>1, NothingKnown DEF FindSound, NotRebound, ListedByVerdict, Misses, SameFile,
         WorldOK
  <1> QED
    BY <1>1, <1>3, <1>4, <1>5 DEF StartupInv, FindsInv

LEMMA FindsKept ==
    ASSUME FindsInv, UNCHANGED <<worldVars, findVars>>
    PROVE  FindsInv'
  BY DEF FindsInv, FindTypes, Honest, FindSound, NotRebound, ListedByVerdict, Misses, SameFile,
         Listening, worldVars, findVars

LEMMA StartupNext == StartupInv /\ [Next]_vars => StartupInv'
  <1> SUFFICES ASSUME StartupInv, [Next]_vars PROVE StartupInv'
    OBVIOUS
  <1>1. CallsInv' /\ (WorldMoves \/ UNCHANGED vars)
    BY CallsNext DEF StartupInv
  <1>2. WorldOK /\ WorldOK'
    BY <1>1 DEF StartupInv, CallsInv
  <1>3. FindsInv'
    <2>1. CASE UNCHANGED vars
      BY <2>1, FindsKept DEF StartupInv, vars
    <2>2. CASE UNCHANGED findVars
      BY <1>1, <1>2, <2>2, FindsKept, WorldKeepsFinds DEF StartupInv, vars
    <2>3. CASE (\E f \in Finders : Discover(f)) /\ UNCHANGED worldVars
      BY <1>2, <2>3, DiscoverKeeps DEF StartupInv
    <2> QED
      BY <2>1, <2>2, <2>3 DEF Next
  <1> QED
    BY <1>1, <1>3 DEF StartupInv

\* Every reachable state satisfies the inductive invariant.
LEMMA StartupAlways == Spec => []StartupInv
  BY StartupInit, StartupNext, PTL DEF Spec

-----------------------------------------------------------------------------
(* The theorems.                                                            *)

\* creationError, guard.unwrap, executeProcess: a creating call that reports "not sent" or
\* "rejected" made nothing, killed nothing and, if not sent, started no daemon.
THEOREM UnsentIsUndone == Spec => []UnsentMadeNothing
  <1>1. StartupInv => UnsentMadeNothing
    BY DEF StartupInv, CallsInv, CallSound, UnsentIsTrue, UnsentMadeNothing
  <1> QED
    BY StartupAlways, <1>1, PTL

\* recoverCreated, handle construction: what a creating call reports is what it made itself.
THEOREM ReportsAreOwn == Spec => []CreatedIsOurs
  <1>1. StartupInv => CreatedIsOurs
    BY DEF StartupInv, CallsInv, CallSound, ReportIsTrue, CreatedIsOurs
  <1> QED
    BY StartupAlways, <1>1, PTL

\* newSessionPlan, resolveStartGuard, baseArgs: a creating call stays with the daemon it found or
\* was told to use, and starts none in its place.
THEOREM NoOtherDaemon == Spec => []StaysWithItsDaemon
  <1>1. StartupInv => StaysWithItsDaemon
    BY DEF StartupInv, CallsInv, CallSound, Stays, Standing, MayStart, StaysWithItsDaemon
  <1> QED
    BY StartupAlways, <1>1, PTL

\* DiscoverServers, socketVerdicts.lookup and replace: a daemon that listened on its file all
\* along and understands the caller is listed, unless that very file refused a connection.
THEOREM NothingHidden == Spec => []MissesOnlyRefused
  <1>1. StartupInv => MissesOnlyRefused
    BY DEF StartupInv, FindsInv, FindSound, Misses, MissesOnlyRefused
  <1> QED
    BY StartupAlways, <1>1, PTL

\* DiscoverServers: a server is listed without a probe only on the word of an earlier probe of
\* the daemon that owns the file now, with the same binary.
THEOREM ListedOnItsWord == Spec => []VouchedFor
  <1>1. StartupInv => VouchedFor
    <2> SUFFICES ASSUME StartupInv, NEW f \in Finders, fpc[f] = "end", listed[f], SameFile(f)
                 PROVE  <<life, bin[f]>> \in probed
      BY DEF VouchedFor
    <2>1. verdict[f].file = sock /\ sock # NoSock /\ verdict[f].verified = bin[f]
      BY DEF StartupInv, FindsInv, FindSound, ListedByVerdict, SameFile
    <2>2. bin[f] # NoBinary
      BY DiscoveryAssumption DEF StartupInv, FindsInv, FindTypes
    <2> QED
      BY <2>1, <2>2 DEF StartupInv, FindsInv, FindSound, Honest
  <1> QED
    BY StartupAlways, <1>1, PTL
=============================================================================
