------------------------------ MODULE Settings ------------------------------
(* Options, hooks, environment and key bindings (tmux/options.go, hooks.go, *)
(* environment.go, access.go).  One operation is a few commands, each under *)
(* the same guard; between any two of them other clients change what they   *)
(* like and the daemon may be replaced.                                     *)
(*                                                                          *)
(* Abstraction.  An operation is about one name and one key.  What a daemon *)
(* holds is chosen when a command reads it: it may have become anything.    *)
EXTENDS Naturals, Sequences

CONSTANTS Values,              \* of an option
          Tables,              \* of key bindings
          Commands,            \* that a key can be bound to
          Readable,            \* those whose text SplitBindingSequence and ParseWords take
          MaxUpdates,          \* bound: entries in one array update
          MaxLives,            \* bound: daemons that own the socket one after the other
          None                 \* no value, no binding, no scope

Scopes  == {"server", "globalSession", "session", "globalWindow", "window", "pane"}

ASSUME SettingsAssumption ==
    /\ MaxUpdates \in Nat \ {0} /\ MaxLives \in Nat \ {0}
    /\ None \notin Values \cup Commands \cup Scopes /\ Readable \subseteq Commands

VARIABLES
    life, bound,               \* the daemon; Server.bound, 0 without a connection
    call,                      \* what the caller asks for
    pc, guard,                 \* where the operation stands, and the daemon it is bound to
    steps, applied,            \* the report of a change: effect per step, ArrayUpdateResult
    option,                    \* OptionValue: local and effective value, origin
    rows, logged, noted,       \* bindings, lines in the message log, answers of notedBindings
    effect,                    \* "none" while it runs, "ok", or the effect of its error
    \* history: the daemon that ran each step; what the first command of a read found; the notes
    ran, held, later

vars == <<life, bound, call, pc, guard, steps, applied, option, rows, logged, noted, effect,
          ran, held, later>>

OfAHandle == {"session", "window", "pane"}        \* scopes that are reached through a handle
Kinds   == {"user", "server", "session", "window", "pane", "unknown"}   \* of an option's name
Effects == {"confirmed", "unknown", "notSent"}
Row     == [table: Tables, command: Commands]

\* What there is to change, by one command each; an array also by one command for each entry.
OptionChanges      == [op: {"change"}, scope: Scopes, origin: {0, 1}]
HookChanges        == [op: {"change"}, scope: {"globalSession"} \cup OfAHandle, origin: {0, 1}]
EnvironmentChanges == [op: {"change"}, scope: {"globalSession", "session"}, origin: {0, 1}]
BindingChanges     == [op: {"change"}, scope: {"server"}, origin: {0}]
ArrayUpdates       == [op: {"update"}, scope: Scopes, origin: {0, 1}, updates: 0..MaxUpdates]

OptionReads  == [op: {"get"}, scope: Scopes, origin: {0, 1}, kind: Kinds]
BindingReads == [op: {"bindings"}, scope: {"server"}, origin: {0}, table: Tables \cup {None},
                 noted: BOOLEAN, version37: BOOLEAN]

Calls == OptionChanges \cup HookChanges \cup EnvironmentChanges \cup BindingChanges
         \cup ArrayUpdates \cup OptionReads \cup BindingReads

Updates == IF call.op = "change" THEN 1 ELSE call.updates

Init ==
    /\ life = 1 /\ bound \in {0, 1} /\ call \in Calls
    /\ pc = "prepare" /\ guard = 0
    /\ steps = [i \in 1..MaxUpdates |-> "notSent"] /\ applied = <<>>
    /\ option = [local |-> None, effective |-> None, origin |-> None]
    /\ rows = {} /\ logged = {} /\ noted = [t \in Tables |-> "unasked"]
    /\ effect = "none"
    /\ ran = [i \in 1..MaxUpdates |-> 0] /\ held = [x \in {} |-> None]
    /\ later = [t \in Tables |-> FALSE]

Return(e) == pc' = "done" /\ effect' = e
Go(to)    == pc' = to /\ UNCHANGED effect

OfChange   == <<steps, applied, ran>>
OfGet      == <<option, held>>
OfBindings == <<rows, logged, noted, later>>

Replaced ==
    /\ life < MaxLives /\ pc # "done" /\ life' = life + 1
    /\ UNCHANGED <<bound, call, pc, guard, effect, OfChange, OfGet, OfBindings>>

-----------------------------------------------------------------------------
(* optionTarget.prepare, and verifiedInfo of an operation on the server.    *)
FirstStep ==
    IF call.op = "get" THEN "local"
    ELSE IF call.op = "bindings" THEN "keys"
    ELSE IF Updates = 0 THEN "done" ELSE "step"

Prepare ==
    /\ pc = "prepare"
    /\ \/ /\ guard' = IF call.scope \in OfAHandle /\ call.origin # 0 THEN call.origin
                      ELSE IF call.scope \in OfAHandle \/ bound # 0 THEN bound
                      ELSE life                    \* the probe of verifiedInfo
          /\ IF FirstStep = "done" THEN Return("ok") ELSE Go(FirstStep)
       \/ Return("notSent") /\ UNCHANGED guard    \* argument, handle, probe
    /\ UNCHANGED <<life, bound, call, OfChange, OfGet, OfBindings>>

\* execute and unwrap: what a guarded command does and what is known of it afterwards.  A command
\* that tmux refuses, or that is killed, and one whose reply is lost are "unknown"; one whose
\* deadline has passed when its reply is there is "confirmed".
Answers == guard \in {0, life}
Outcomes ==
    {[did |-> FALSE, effect |-> "notSent"], [did |-> FALSE, effect |-> "unknown"]}
    \cup IF Answers THEN [did: {TRUE}, effect: {"ok", "unknown", "confirmed"}] ELSE {}

\* A command that only reads answers, or it fails, or its answer does not parse.
Asks == Answers
Fails == \E o \in Outcomes : o.effect # "ok" /\ Return(o.effect)

-----------------------------------------------------------------------------
(* A change of one command, and updateArray.                                *)
AggregateOfLast(e, i) == e           \* mutant: earlier entries are forgotten

\* arrayUpdateError: "not sent" is not true of the whole when earlier entries were applied.
Aggregate(e, i) == IF i > 1 /\ e = "notSent" THEN "unknown" ELSE e

Step ==
    /\ pc = "step"
    /\ LET i == Len(applied) + 1 IN
       \E o \in Outcomes :
          /\ ran' = IF o.did THEN [ran EXCEPT ![i] = life] ELSE ran
          /\ IF o.effect = "ok"
             THEN /\ steps' = [steps EXCEPT ![i] = "confirmed"] /\ applied' = Append(applied, i)
                  /\ IF i = Updates THEN Return("ok") ELSE Go("step")
             ELSE /\ steps' = [steps EXCEPT ![i] = o.effect] /\ UNCHANGED applied
                  /\ Return(Aggregate(o.effect, i))
    /\ UNCHANGED <<life, bound, call, guard, OfGet, OfBindings>>

-----------------------------------------------------------------------------
(* read: the local value, then the effective one.                           *)

\* Where tmux looks an option up (not under src): a user option where the flags say, a native one
\* where its kind belongs, starting from the target; and the scopes it inherits from.
Holder(scope, kind) ==
    CASE kind = "user" -> scope
      [] kind \in {"server", "unknown"} -> "server"
      [] kind = "session" -> IF scope \in {"globalSession", "globalWindow"} THEN "globalSession" ELSE "session"
      [] kind = "pane" /\ scope = "pane" -> "pane"
      [] OTHER -> IF scope \in {"globalSession", "globalWindow"} THEN "globalWindow" ELSE "window"

Parents(scope) ==
    CASE scope = "session" -> <<"globalSession">>
      [] scope = "window"  -> <<"globalWindow">>
      [] scope = "pane"    -> <<"window", "globalWindow">>
      [] OTHER -> <<>>

Lookup == <<Holder(call.scope, call.kind)>> \o Parents(Holder(call.scope, call.kind))
Trees  == [{Lookup[i] : i \in 1..Len(Lookup)} -> Values \cup {None}]

FirstOf(tree) ==
    LET set == {i \in 1..Len(Lookup) : tree[Lookup[i]] # None} IN
    IF set = {} THEN None ELSE tree[Lookup[CHOOSE i \in set : \A j \in set : i <= j]]

\* localOrigin
OriginPlain == call.kind             \* mutant: the table's scope, whatever the target is
Native ==
    IF call.kind = "pane" /\ call.scope # "pane" THEN "window" ELSE call.kind
LocalOrigin ==
    CASE call.kind = "user" -> call.scope
      [] call.kind = "unknown" -> None
      [] call.scope \in {"globalSession", "globalWindow"} /\ Native = "session" -> "globalSession"
      [] call.scope \in {"globalSession", "globalWindow"} /\ Native = "window" -> "globalWindow"
      [] OTHER -> Native

Local ==
    /\ pc = "local"
    /\ \/ /\ Asks /\ held' \in Trees
          /\ option' = [option EXCEPT !.local = held'[Lookup[1]]] /\ Go("effective")
       \/ Fails /\ UNCHANGED OfGet
    /\ UNCHANGED <<life, bound, call, guard, OfChange, OfBindings>>

\* A value that has changed in between is reported as inconsistent.
Effective ==
    /\ pc = "effective"
    /\ \/ /\ Asks
          /\ \E tree \in Trees :
                IF option.local \notin {None, FirstOf(tree)} THEN Return("confirmed") /\ UNCHANGED option
                ELSE /\ option' = [option EXCEPT !.effective = FirstOf(tree),
                                                 !.origin = IF option.local = None THEN None ELSE LocalOrigin]
                     /\ Return("ok")
       \/ Fails /\ UNCHANGED option
    /\ UNCHANGED <<life, bound, call, guard, held, OfChange, OfBindings>>

-----------------------------------------------------------------------------
(* FindBindings: list-keys and, for those with a note only, one listing of  *)
(* notes for each table.  tmux 3.7 may print a listing into its message log,*)
(* from where it is fetched by the marker of its lines.                     *)
Keys == [Tables -> [command: Commands \cup {None}]]

Asked == IF call.table = None THEN Tables ELSE {call.table}
Listing(keys) == {[table |-> t, command |-> keys[t].command] : t \in {u \in Asked : keys[u].command # None}}

\* parseBindingsLines: a line that parseBinding cannot take apart has no key, and is left out.
ParseBindings(lines) == {r \in lines : r.command \in Readable}

\* markedLines: what the log holds of this listing, and what other clients had listed.
MarkedLines(others) == logged

\* The listing itself, or the error that says there is no such table; else the log is asked.
Direct(out) == ~call.version37 \/ out # {} \/ call.table # None
Continue(out) == IF call.noted /\ out # {} THEN Go("notes") ELSE Return("ok")

ListKeys ==
    /\ pc = "keys"
    /\ \/ /\ Asks /\ held' \in Keys
          /\ LET out == Listing(held') IN
             \/ Direct(out) /\ rows' = ParseBindings(out) /\ Continue(rows') /\ UNCHANGED logged
             \/ call.version37 /\ logged' \in {out, {}} /\ Go("keysLog") /\ UNCHANGED rows
       \/ Fails /\ UNCHANGED <<held, rows, logged>>
    /\ UNCHANGED <<life, bound, call, guard, noted, later, option, OfChange>>

KeysFromLog ==
    /\ pc = "keysLog"
    /\ \/ /\ Asks /\ \E others \in SUBSET Row : rows' = ParseBindings(MarkedLines(others))
          /\ Continue(rows')
       \/ Fails /\ UNCHANGED rows
    /\ UNCHANGED <<life, bound, call, guard, logged, noted, later, OfChange, OfGet>>

Answered(found) == IF found THEN "yes" ELSE "no"

\* notedBindings asks once for each table that has a row.
ListNotes(t) ==
    /\ pc = "notes" /\ noted[t] = "unasked" /\ \E r \in rows : r.table = t
    /\ \/ /\ Asks
          /\ \E note \in BOOLEAN :
                /\ later' = [later EXCEPT ![t] = note]
                /\ \/ noted' = [noted EXCEPT ![t] = Answered(note)] /\ Go("notes") /\ UNCHANGED logged
                   \/ /\ call.version37 /\ noted' = [noted EXCEPT ![t] = "asked"] /\ Go("notesLog")
                      /\ logged' \in {{}, IF note THEN {r \in rows : r.table = t} ELSE {}}
       \/ Fails /\ UNCHANGED <<later, noted, logged>>
    /\ UNCHANGED <<life, bound, call, guard, rows, OfChange, OfGet>>

NotesFromLog(t) ==
    /\ pc = "notesLog" /\ noted[t] = "asked"
    /\ \/ /\ Asks /\ Go("notes")
          /\ \E others \in SUBSET Row : noted' = [noted EXCEPT ![t] = Answered(MarkedLines(others) # {})]
       \/ Fails /\ UNCHANGED noted
    /\ UNCHANGED <<life, bound, call, guard, rows, logged, later, OfChange, OfGet>>

NotedAnywhere(t) == \E u \in Tables : noted[u] = "yes"   \* mutant: one set of keys for all tables
NotedIn(t) == noted[t] = "yes"

KeepNoted ==
    /\ pc = "notes" /\ \A r \in rows : noted[r.table] # "unasked"
    /\ rows' = {r \in rows : NotedIn(r.table)} /\ Return("ok")
    /\ UNCHANGED <<life, bound, call, guard, logged, noted, later, OfChange, OfGet>>

-----------------------------------------------------------------------------
Next ==
    \/ Replaced \/ Prepare \/ Step \/ Local \/ Effective \/ ListKeys \/ KeysFromLog \/ KeepNoted
    \/ \E t \in Tables : ListNotes(t) \/ NotesFromLog(t)

Spec == Init /\ [][Next]_vars

-----------------------------------------------------------------------------
(* Properties.                                                              *)

\* The report of a change is the truth, also when it fails half way: what it calls not sent was
\* never run, what it calls confirmed or applied was, nothing was run after a failure, and all of
\* it on one daemon unless the handle names none.
ReportIsTrue ==
    LET done == {i \in 1..MaxUpdates : ran[i] # 0} IN
    pc = "done" /\ call.op \in {"change", "update"} =>
        /\ \A i \in 1..MaxUpdates : steps[i] = "notSent" => i \notin done
        /\ \A i \in 1..MaxUpdates : steps[i] = "confirmed" => i \in done
        /\ \A i \in done, j \in 1..MaxUpdates : j < i => steps[j] = "confirmed"
        /\ {applied[i] : i \in 1..Len(applied)} \subseteq done
        /\ effect = "notSent" => done = {}
        /\ effect = "ok" => done = 1..Updates
        /\ guard # 0 => \A i \in done : ran[i] = guard

\* A reported origin is the scope that held the local value, on whatever kind of target it was
\* asked for, and the value was in force.
OriginHeldIt ==
    pc = "done" /\ call.op = "get" /\ effect = "ok" =>
        /\ option.origin # None =>
              /\ option.origin \in DOMAIN held /\ held[option.origin] = option.local
              /\ option.local # None /\ option.effective = option.local
        /\ option.local # None /\ call.kind # "unknown" => option.origin # None

\* Every binding returned was bound when the daemon listed it and, if asked for, had a note of its
\* own table after that; without the detour through the log no binding to a readable command is
\* missing, whatever cannot be read is listed next to it (FindBindings, notedBindings).
BindingsAreTheirs ==
    pc = "done" /\ call.op = "bindings" /\ effect = "ok" =>
        LET real == {r \in Listing(held) : r.command \in Readable /\ (call.noted => later[r.table])} IN
        rows \subseteq real /\ (call.version37 \/ rows = real)
=============================================================================
