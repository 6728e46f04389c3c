------------------------------ MODULE Creation -------------------------------
(* The operations that create something (tmux/create.go) and RecreateSocket *)
(* (tmux/server.go): NewSession probes the daemon, perhaps resolves a group *)
(* and sends a guarded command list, or, if none runs and the policy allows *)
(* it, one that starts a daemon; NewWindow, Split and NewPane send theirs   *)
(* under the guard of their handle.  The daemon, and which daemon there is, *)
(* may change between any two commands, and a reply may be cut short.       *)
(*                                                                          *)
(* Abstraction.  Options are valid or not; a session has the one name that  *)
(* a caller asks for, or another; a record is the identifier it carries.    *)
EXTENDS SocketWorld

CONSTANTS Callers,      \* calls of the library that create something
          Requests      \* what the callers ask for in this instance

Request == [op : {"session", "window", "split", "pane", "recreate"},
            valid : BOOLEAN, start : {"allow", "existing"}, bound : BOOLEAN,
            named : BOOLEAN, group : BOOLEAN, killTarget : BOOLEAN]

ASSUME RequestsAssumption == Requests \subseteq Request

VARIABLES
    \* per call: where it stands, its request, Server.bound, the guard's identity, -N left out,
    \* the object its command is aimed at, what its tmux process left, what it returns
    pc, req, bound, guard, allowStart, target, reply, out,
    \* history: objects made, targets killed, daemons started by the call's commands
    made, killed, started

callVars == <<pc, req, bound, guard, allowStart, target, reply, out, made, killed, started>>

NoRequest == [op |-> "session", valid |-> FALSE, start |-> "existing", bound |-> FALSE,
              named |-> FALSE, group |-> FALSE, killTarget |-> FALSE]
NoReply   == [marker |-> "none", row |-> 0, err |-> "none", from |-> 0]
Pending   == [ok |-> FALSE, effect |-> "none", handle |-> {}, created |-> {}]
Failed(e) == [Pending EXCEPT !.effect = e]

CreationInit ==
    /\ pc = [c \in Callers |-> "call"] /\ req = [c \in Callers |-> NoRequest]
    /\ bound = [c \in Callers |-> 0] /\ guard = [c \in Callers |-> 0]
    /\ allowStart = [c \in Callers |-> FALSE] /\ target = [c \in Callers |-> 0]
    /\ reply = [c \in Callers |-> NoReply] /\ out = [c \in Callers |-> Pending]
    /\ made = [c \in Callers |-> {}] /\ killed = [c \in Callers |-> FALSE]
    /\ started = [c \in Callers |-> 0]

Kind(r)     == CASE r.op = "session" -> "session" [] r.op = "window" -> "window" [] OTHER -> "pane"
AimedAt(r)  == IF r.op = "window" THEN "session" ELSE "pane"
Goes(c, to) == pc' = [pc EXCEPT ![c] = to]
Ends(c, o)  == Goes(c, "done") /\ out' = [out EXCEPT ![c] = o]
Fails(c, e) == Ends(c, Failed(e))
HistoryOf   == <<made, killed, started>>

-----------------------------------------------------------------------------
(* Every operation checks its arguments before anything is sent; a handle   *)
(* comes from a row of the daemon, a bound server from a connection to it.  *)
ArgsValid(r) == r.valid

Begin(c, r) ==
    /\ pc[c] = "call" /\ req' = [req EXCEPT ![c] = r]
    /\ IF ~ArgsValid(r)
       THEN Fails(c, "notSent") /\ UNCHANGED <<bound, guard, target>>
       ELSE /\ UNCHANGED out
            /\ \/ /\ r.op \in {"session", "recreate"} /\ Goes(c, "probe")
                  /\ r.bound => up = "listening"
                  /\ bound' = [bound EXCEPT ![c] = IF r.bound THEN life ELSE 0]
                  /\ UNCHANGED <<guard, target>>
               \/ /\ r.op \in {"window", "split", "pane"} /\ Goes(c, "run")
                  /\ \E o \in objs : /\ o.kind = AimedAt(r)
                                     /\ target' = [target EXCEPT ![c] = o.id]
                  /\ guard' = [guard EXCEPT ![c] = life] /\ UNCHANGED bound
    /\ UNCHANGED <<worldVars, allowStart, reply, HistoryOf>>

-----------------------------------------------------------------------------
(* resolveStartGuard.  A daemon that answers becomes the guard; none, and   *)
(* only then, and with the policy's leave, makes this a command that may    *)
(* start one.  A failed probe is a discoveryError: nothing was sent.        *)
ProbeAnswers(c) ==
    /\ pc[c] = "probe" /\ up = "listening" /\ bound[c] \in {0, life} /\ Ours \in answers
    /\ guard' = [guard EXCEPT ![c] = life]
    /\ Goes(c, IF req[c].op = "recreate" THEN "signal"
               ELSE IF req[c].group THEN "list" ELSE "run")
    /\ UNCHANGED <<worldVars, req, bound, allowStart, target, reply, out, HistoryOf>>

MayStartIfAllowed(c) ==              \* mutant: a server bound to a connection starts one too
    req[c].op = "session" /\ req[c].start = "allow"
MayStart(c) == req[c].op = "session" /\ req[c].start = "allow" /\ bound[c] = 0

ProbeFindsNone(c) ==
    /\ pc[c] = "probe" /\ up # "listening"
    /\ IF MayStart(c) THEN Goes(c, "version") /\ UNCHANGED out ELSE Fails(c, "notSent")
    /\ UNCHANGED <<worldVars, req, bound, guard, allowStart, target, reply, HistoryOf>>

\* Another daemon than the bound one, a version it does not know, a timeout, a bad record.
ProbeErrs(c) ==
    /\ pc[c] = "probe" /\ Fails(c, "notSent")
    /\ UNCHANGED <<worldVars, req, bound, guard, allowStart, target, reply, HistoryOf>>

\* tmux -V: the version of the binary that would start the daemon.
ExecutableVersion(c) ==
    /\ pc[c] = "version"
    /\ \/ /\ ~req[c].group /\ Goes(c, "run") /\ allowStart' = [allowStart EXCEPT ![c] = TRUE]
          /\ UNCHANGED out
       \/ /\ req[c].group /\ Fails(c, "notSent")      \* exactGroupArgs: no daemon, no group
          /\ allowStart' = [allowStart EXCEPT ![c] = TRUE]
       \/ \E e \in {"notSent", "unknown"} : Fails(c, e) /\ UNCHANGED allowStart
    /\ UNCHANGED <<worldVars, req, bound, guard, target, reply, HistoryOf>>

(* exactGroupTarget: the sessions of the guard's daemon, listed under the   *)
(* guard; the name is resolved here and the command gets an identifier.     *)
Named(o) == o.kind = "session" /\ o.named

GroupListed(c) ==
    /\ pc[c] = "list" /\ Listening(guard[c])
    /\ IF \E o \in objs : Named(o)
       THEN /\ target' = [target EXCEPT ![c] = (CHOOSE o \in objs : Named(o)).id]
            /\ Goes(c, "run") /\ UNCHANGED out
       ELSE Fails(c, "notSent") /\ UNCHANGED target
    /\ UNCHANGED <<worldVars, req, bound, guard, allowStart, reply, HistoryOf>>

(* The listing fails: another daemon's marker is notSent, a cut reply       *)
(* unknown; a deadline that expires after the reply, or a record that does  *)
(* not decode, says confirmed of a session nobody was asked for.            *)
GroupFails(c) ==
    /\ pc[c] = "list"
    /\ \/ ~Listening(guard[c]) /\ \E e \in {"notSent", "unknown"} : Fails(c, e)
       \/ Listening(guard[c]) /\ \E e \in {"notSent", "unknown", "confirmed"} : Fails(c, e)
    /\ UNCHANGED <<worldVars, req, bound, guard, allowStart, target, reply, HistoryOf>>

\* signalDaemon: the process that was probed, if it still runs, makes its file anew.
Signal(c) ==
    /\ pc[c] = "signal"
    /\ \/ Rebind(guard[c]) /\ Ends(c, [Pending EXCEPT !.ok = TRUE])
       \/ ~Listening(guard[c]) /\ Fails(c, "notSent") /\ UNCHANGED worldVars
    /\ UNCHANGED <<req, bound, guard, allowStart, target, reply, HistoryOf>>

-----------------------------------------------------------------------------
(* The command list in the daemon.  It runs as a whole; a command that      *)
(* fails ends the list.                                                     *)
Exists(c) == \E o \in objs : o.id = target[c]
GroupNamed(c) ==                     \* mutant: the name goes to tmux, which looks it up itself
    IF \E o \in objs : Named(o) THEN (CHOOSE o \in objs : Named(o)).id ELSE 0
GroupOf(c) == IF Exists(c) THEN target[c] ELSE 0   \* tmux starts a group of its own then

Answer(m, r, e) == [marker |-> m, row |-> r, err |-> e, from |-> life]

NewSession(c, m) ==
    IF req[c].named /\ \E o \in objs : Named(o)
    THEN /\ reply' = [reply EXCEPT ![c] = Answer(m, 0, "exists")]
         /\ UNCHANGED <<objs, ids, made, killed>>
    ELSE LET w == IF req[c].group THEN GroupOf(c) ELSE 0 IN
         /\ ids < MaxIds /\ ids' = ids + 1
         /\ objs' = objs \cup {NewObject("session", req[c].named)}
         /\ made' = [made EXCEPT ![c] =
                        @ \cup {[life |-> life, id |-> ids', kind |-> "session", with |-> w]}]
         /\ reply' = [reply EXCEPT ![c] = Answer(m, ids', "none")]
         /\ UNCHANGED killed

Refused(c, m) ==
    /\ reply' = [reply EXCEPT ![c] = Answer(m, 0, "notFound")]
    /\ UNCHANGED <<objs, ids, made, killed>>

NewWindowOrPane(c, m) ==
    \/ /\ Exists(c) /\ ids < MaxIds /\ ids' = ids + 1
       /\ objs' = {o \in objs : ~(req[c].killTarget /\ o.id = target[c])}
                  \cup {NewObject(Kind(req[c]), FALSE)}
       /\ killed' = [killed EXCEPT ![c] = req[c].killTarget]
       /\ made' = [made EXCEPT ![c] = @ \cup
                      {[life |-> life, id |-> ids', kind |-> Kind(req[c]), with |-> 0]}]
       /\ reply' = [reply EXCEPT ![c] = Answer(m, ids', "none")]
    \/ Refused(c, m)                 \* the target is gone, or too small, or its index is taken

Commands(c, m) ==
    /\ IF req[c].op = "session" THEN NewSession(c, m) ELSE NewWindowOrPane(c, m)
    /\ Goes(c, "reply") /\ UNCHANGED <<life, up, answers, sock, binds, started>>

Tells(c, a) ==
    /\ reply' = [reply EXCEPT ![c] = a] /\ Goes(c, "reply")
    /\ UNCHANGED <<worldVars, HistoryOf>>

(* Server.execute with a guard: -N, and the daemon compares itself with the *)
(* guard in the same command list.                                          *)
GuardHoldsAlways(c) == TRUE          \* mutant: the command list is sent without its guard
GuardHolds(c) == guard[c] = life

RunGuarded(c) ==
    /\ guard[c] # 0
    /\ \/ up = "listening" /\ GuardHolds(c) /\ Commands(c, "ok")
       \/ up = "listening" /\ ~GuardHolds(c) /\ Tells(c, Answer("serverChanged", 0, "none"))
       \/ up # "listening" /\ Tells(c, Answer("none", 0, "noServer"))

(* newSessionPlan without a guard: start-server, then new-session if the    *)
(* daemon that answers has a version the library knows, whichever it is.    *)
VersionHolds == Ours \in answers

RunUnguarded(c) ==
    /\ guard[c] = 0 /\ allowStart[c]
    /\ \/ up = "listening" /\ VersionHolds /\ Commands(c, "none")
       \/ up = "listening" /\ ~VersionHolds /\ Tells(c, Answer("version", 0, "none"))
       \/ /\ Bind({Ours}) /\ started' = [started EXCEPT ![c] = life'] /\ Goes(c, "starting")
          /\ UNCHANGED <<reply, made, killed>>

\* The process may fail to start, or be killed before its command reaches the daemon.
RunFails(c) ==
    \E e \in {"unstarted", "lost"} : Tells(c, Answer("none", 0, e))

Run(c) ==
    /\ pc[c] = "run"
    /\ RunGuarded(c) \/ RunUnguarded(c) \/ RunFails(c)
    /\ UNCHANGED <<req, bound, guard, allowStart, target, out>>

\* The daemon this call's process has forked: it runs the list once it listens, or is lost.
Starting(c) ==
    /\ pc[c] = "starting"
    /\ \/ Listening(started[c]) /\ Commands(c, "none")
       \/ Tells(c, Answer("none", 0, "lost"))
    /\ UNCHANGED <<req, bound, guard, allowStart, target, out>>

-----------------------------------------------------------------------------
(* What the library sees: the reply, or as much of it as was read before a  *)
(* deadline or a limit killed the process, or nothing.                      *)
Cut(a) == {[a EXCEPT !.marker = "none", !.row = 0, !.err = "lost"],
           [a EXCEPT !.row = 0, !.err = "lost"], [a EXCEPT !.err = "lost"]}
Seen(a) == {a} \cup IF a.err = "none" THEN Cut(a) ELSE {}

Recovered(c, a) ==                   \* recoverCreated: the identifier, of an unknown daemon
    IF a.row = 0 THEN {} ELSE {[life |-> 0, id |-> a.row, kind |-> Kind(req[c])]}
HandleAnywhere(c, a) ==              \* mutant: the handle takes the guard's identity
    {[life |-> guard[c], id |-> a.row, kind |-> Kind(req[c])]}
HandleOf(c, a) == {[life |-> a.from, id |-> a.row, kind |-> Kind(req[c])]}

RejectedByError(c, a) ==             \* mutant: a reply cut short counts as a refusal
    req[c].op = "session" /\ a.row = 0 /\ a.err \in {"exists", "lost"}
Rejected(c, a) ==                    \* creationError, rejectionComplete
    req[c].op = "session" /\ a.row = 0 /\ a.err = "exists"

EffectOf(c, a) ==
    CASE a.marker = "serverChanged" -> "notSent"                   \* guard.unwrap
      [] a.marker = "version" /\ a.err = "none" -> "notSent"       \* unsupportedStartupVersion
      [] a.err = "unstarted" -> "notSent"                          \* executeProcess
      [] Rejected(c, a) -> "rejected"
      [] OTHER -> "unknown"

Conclude(c) ==
    /\ pc[c] = "reply"
    /\ \E a \in Seen(reply[c]) :
         \/ /\ a.err # "none" \/ a.marker \in {"serverChanged", "version"}
            /\ Ends(c, [Failed(EffectOf(c, a)) EXCEPT !.created = Recovered(c, a)])
         \/ /\ a.err = "none" /\ a.marker \in {"none", "ok"} /\ a.row # 0
            /\ \/ Ends(c, [Pending EXCEPT !.ok = TRUE, !.handle = HandleOf(c, a)])
               \* the deadline expires after the reply, or the record does not decode
               \/ Ends(c, [Failed("confirmed") EXCEPT !.created = Recovered(c, a)])
               \* the deadline expires after the record was decoded
               \/ Ends(c, [Failed("confirmed") EXCEPT !.handle = HandleOf(c, a),
                                                      !.created = HandleOf(c, a)])
    /\ UNCHANGED <<worldVars, req, bound, guard, allowStart, target, reply, HistoryOf>>

(* The call returns and what it knew is gone.                               *)
Return(c) ==
    /\ pc[c] = "done" /\ Goes(c, "gone")
    /\ req' = [req EXCEPT ![c] = NoRequest] /\ bound' = [bound EXCEPT ![c] = 0]
    /\ guard' = [guard EXCEPT ![c] = 0] /\ allowStart' = [allowStart EXCEPT ![c] = FALSE]
    /\ target' = [target EXCEPT ![c] = 0] /\ reply' = [reply EXCEPT ![c] = NoReply]
    /\ out' = [out EXCEPT ![c] = Pending] /\ made' = [made EXCEPT ![c] = {}]
    /\ killed' = [killed EXCEPT ![c] = FALSE] /\ started' = [started EXCEPT ![c] = 0]
    /\ UNCHANGED worldVars

Create(c) ==
    \/ \E r \in Requests : Begin(c, r)
    \/ ProbeAnswers(c) \/ ProbeFindsNone(c) \/ ProbeErrs(c)
    \/ ExecutableVersion(c) \/ GroupListed(c) \/ GroupFails(c) \/ Signal(c)
    \/ Run(c) \/ Starting(c) \/ Conclude(c) \/ Return(c)

-----------------------------------------------------------------------------
(* EffectNotSent and EffectRejected (errors.go: nothing was dispatched, no  *)
(* object created): such a call made nothing, killed nothing and started    *)
(* no daemon, whatever raced with it.                                       *)
UnsentMadeNothing ==
    \A c \in Callers : out[c].effect \in {"notSent", "rejected"} =>
        made[c] = {} /\ ~killed[c] /\ (out[c].effect = "notSent" => started[c] = 0)

(* What a call reports is what it made: the handle, and every object of     *)
(* Outcome.Created, is one this very call created, in the daemon it is      *)
(* attributed to, and a call that reports success created just that.        *)
CreatedIsOurs ==
    \A c \in Callers :
        /\ \A o \in out[c].created \cup out[c].handle : \E m \in made[c] :
              m.id = o.id /\ m.kind = o.kind /\ o.life \in {0, m.life}
        /\ \A o \in out[c].handle : o.life # 0
        /\ out[c].ok /\ req[c].op # "recreate" => Cardinality(made[c]) = 1

(* A call that found its daemon, or was told to use an existing one, stays  *)
(* with it: it creates nothing elsewhere and starts no daemon, even if that *)
(* one dies before the command runs (newSessionPlan, baseArgs, the guard).  *)
(* A session created for a group joins no session but the one that bore the *)
(* name when that daemon was asked, however names move meanwhile.           *)
StaysWithItsDaemon ==
    \A c \in Callers :
        /\ guard[c] # 0 => \A m \in made[c] : m.life = guard[c]
        /\ \A m \in made[c] : m.with # 0 => m.with = target[c] /\ m.life = guard[c]
        /\ guard[c] # 0 \/ bound[c] # 0 \/ req[c].start = "existing" => started[c] = 0

=============================================================================
