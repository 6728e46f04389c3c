--------------------------- MODULE SettingsProofs ---------------------------
(* Proofs about settings: the report of a change is the truth for an array  *)
(* update of any length, an origin names who held the value, and a listed   *)
(* binding was bound and noted, however often the daemon is replaced.       *)
EXTENDS Settings, TextProbe, SequenceTheorems, WellFoundedInduction, TLAPS

IsChange == call.op \in {"change", "update"}
Applied  == Len(applied)                 \* entries are applied in order: 1..Applied

Typed ==
    /\ call \in Calls /\ life \in Nat \ {0} /\ guard \in Nat
    /\ steps \in [1..MaxUpdates -> {"notSent", "confirmed", "unknown"}]
    /\ ran \in [1..MaxUpdates -> Nat]
    /\ applied \in Seq(Nat) /\ \A i \in 1..Applied : applied[i] = i

\* Steps are made for changes only, up to the last entry of the batch.
InStep ==
    /\ pc = "step" => Applied < Updates
    /\ pc \notin {"prepare", "step", "done"} => ~IsChange
    /\ pc = "prepare" => Applied = 0
    /\ Applied <= Updates

Clean(i) == steps[i] = "notSent" /\ ran[i] = 0

\* What was applied was run, by the one daemon the operation is bound to.
AppliedRan == \A i \in 1..Applied : steps[i] = "confirmed" /\ ran[i] # 0 /\ (guard # 0 => ran[i] = guard)

\* Nothing was tried beyond the first entry that is not applied, and it only by an operation that
\* has ended there.
RestClean ==
    \A i \in 1..MaxUpdates : i > Applied =>
        \/ Clean(i)
        \/ /\ pc = "done" /\ i = Applied + 1 /\ effect # "ok"
           /\ steps[i] = "notSent" => ran[i] = 0
           /\ steps[i] = "confirmed" => ran[i] # 0
           /\ ran[i] # 0 => effect # "notSent" /\ (guard # 0 => ran[i] = guard)

Ended ==
    pc = "done" /\ IsChange =>
        /\ effect = "ok" => Applied = Updates
        /\ effect = "notSent" => Applied = 0

RInv == Typed /\ (IsChange => InStep /\ AppliedRan /\ RestClean /\ Ended)
             /\ (~IsChange => pc # "step")

-----------------------------------------------------------------------------
(* A change has at least one entry and no more than the bound; an update of *)
(* none ends at once.                                                       *)
LEMMA UpdatesBound ==
    ASSUME call \in Calls, IsChange
    PROVE  Updates \in 0..MaxUpdates
<1>1. CASE call.op = "change"
  BY <1>1, SettingsAssumption DEF Updates
<1>2. CASE call.op = "update"
  <2>1. call \in ArrayUpdates
    BY <1>2 DEF Calls, OptionChanges, HookChanges, EnvironmentChanges, BindingChanges, ArrayUpdates,
       OptionReads, BindingReads
  <2>2. call.updates \in 0..MaxUpdates
    BY <2>1 DEF ArrayUpdates
  <2>. QED BY <1>2, <2>2 DEF Updates
<1>. QED BY <1>1, <1>2 DEF IsChange

(* The invariant says what the property claims of the end of a change.      *)
LEMMA ReportFollows ==
    ASSUME RInv PROVE ReportIsTrue
<1>. SUFFICES ASSUME pc = "done", IsChange PROVE ReportIsTrue
  BY DEF ReportIsTrue, IsChange
<1>1. /\ AppliedRan /\ RestClean /\ Ended /\ Typed /\ InStep
  BY DEF RInv
<1>2. Updates \in 0..MaxUpdates /\ Applied \in Nat
  BY <1>1, UpdatesBound DEF Typed, Applied
<1>. DEFINE done == {i \in 1..MaxUpdates : ran[i] # 0}
<1>a. \A i \in 1..MaxUpdates :
         \/ i \in 1..Applied
         \/ i > Applied
  BY <1>2
<1>b. \A i \in 1..Applied : steps[i] = "confirmed" /\ ran[i] # 0 BY <1>1 DEF AppliedRan
<1>c. \A i \in 1..MaxUpdates : i > Applied =>
         (steps[i] = "notSent" => ran[i] = 0) /\ (steps[i] = "confirmed" => ran[i] # 0)
  BY <1>1 DEF RestClean, Clean
<1>3. \A i \in 1..MaxUpdates : steps[i] = "notSent" => i \notin done BY <1>a, <1>b, <1>c
<1>4. \A i \in 1..MaxUpdates : steps[i] = "confirmed" => i \in done BY <1>a, <1>b, <1>c
<1>5. \A i \in done, j \in 1..MaxUpdates : j < i => steps[j] = "confirmed"
  <2>1. \A i \in 1..MaxUpdates : i > Applied + 1 => ran[i] = 0 BY <1>1, <1>2 DEF RestClean, Clean
  <2>2. \A i \in done : i <= Applied + 1 BY <1>2, <2>1
  <2>3. \A i \in done, j \in 1..MaxUpdates : j < i => j \in 1..Applied BY <1>2, <2>2
  <2> QED BY <1>b, <2>3
<1>6. {applied[i] : i \in 1..Len(applied)} \subseteq done
  BY <1>1, <1>2, SettingsAssumption DEF AppliedRan, Typed, Applied, InStep
<1>7. effect = "notSent" => done = {}
  BY <1>1, <1>2 DEF RestClean, Clean, Ended
<1>8. effect = "ok" => done = 1..Updates
  BY <1>1, <1>2, SettingsAssumption DEF RestClean, Clean, Ended, AppliedRan, InStep
<1>9. guard # 0 => \A i \in done : ran[i] = guard
  BY <1>1, <1>2 DEF RestClean, Clean, AppliedRan
<1>. QED BY <1>3, <1>4, <1>5, <1>6, <1>7, <1>8, <1>9 DEF ReportIsTrue

-----------------------------------------------------------------------------
(* The invariant is inductive.                                              *)
LEMMA ReportStarts ==
    ASSUME Init PROVE RInv
<1>1. Typed /\ Applied = 0 /\ pc = "prepare" /\ \A i \in 1..MaxUpdates : Clean(i)
  BY SettingsAssumption DEF Init, Typed, Applied, Clean
<1>2. IsChange => Updates \in 0..MaxUpdates
  BY <1>1, UpdatesBound DEF Typed
<1>. QED BY <1>1, <1>2 DEF RInv, InStep, AppliedRan, RestClean, Ended, IsChange

(* A replacement changes only the daemon, which the invariant looks at      *)
(* through the guard alone.                                                 *)
LEMMA ReplacedKeepsReport ==
    ASSUME RInv, Replaced PROVE RInv'
<1>1. /\ life' = life + 1
      /\ UNCHANGED <<call, pc, guard, steps, applied, ran, effect>>
  BY DEF Replaced, OfChange
<1>. QED BY <1>1 DEF RInv, Typed, InStep, AppliedRan, RestClean, Ended, IsChange, Applied, Clean, Updates

(* The guard is chosen before anything has been run.                        *)
LEMMA PrepareKeepsReport ==
    ASSUME RInv, Prepare, bound \in Nat PROVE RInv'
<1>1. pc = "prepare" /\ UNCHANGED <<life, bound, call, steps, applied, ran>>
  BY DEF Prepare, OfChange
<1>2. Typed /\ (IsChange => Updates \in 0..MaxUpdates) /\ IsChange' = IsChange /\ Updates' = Updates
  BY <1>1, UpdatesBound DEF RInv, Typed, IsChange, Updates
<1>3. guard' \in Nat
  <2>1. call.scope \in OfAHandle => call.origin \in Nat
    BY <1>2 DEF Typed, Calls, OptionChanges, HookChanges, EnvironmentChanges, BindingChanges,
       ArrayUpdates, OptionReads, BindingReads
  <2>. QED BY <2>1, <1>2 DEF Prepare, Typed
<1>4. Typed' /\ Applied' = Applied
  BY <1>1, <1>2, <1>3 DEF Typed, Applied
<1>5. \/ pc' = FirstStep /\ FirstStep # "done" /\ effect' = effect
      \/ FirstStep = "done" /\ pc' = "done" /\ effect' = "ok"
      \/ pc' = "done" /\ effect' = "notSent"
  BY DEF Prepare, Go, Return
<1>6. CASE IsChange
  <2>1. Applied = 0 /\ \A i \in 1..MaxUpdates : Clean(i)
    BY <1>1, <1>6 DEF RInv, InStep, RestClean
  <2>2. FirstStep = IF Updates = 0 THEN "done" ELSE "step"
    BY <1>6 DEF FirstStep, IsChange
  <2>3. InStep'
    BY <1>2, <1>4, <1>5, <1>6, <2>1, <2>2 DEF InStep
  <2>4. AppliedRan'
    BY <1>4, <2>1 DEF AppliedRan
  <2>5. RestClean'
    BY <1>1, <1>4, <2>1 DEF RestClean, Clean
  <2>6. Ended'
    BY <1>2, <1>4, <1>5, <2>1, <2>2 DEF Ended
  <2>. QED BY <1>2, <1>4, <1>6, <2>3, <2>4, <2>5, <2>6 DEF RInv
<1>7. CASE ~IsChange
  <2>1. call.op \in {"get", "bindings"}
    BY <1>2, <1>7 DEF Typed, IsChange, Calls, OptionChanges, HookChanges, EnvironmentChanges,
       BindingChanges, ArrayUpdates, OptionReads, BindingReads
  <2>2. FirstStep # "step"
    BY <2>1 DEF FirstStep
  <2>. QED BY <1>2, <1>4, <1>5, <1>7, <2>2 DEF RInv
<1>. QED BY <1>6, <1>7

(* One entry: applied and next, applied and last, or the end of the batch.  *)
LEMMA StepKeepsReport ==
    ASSUME RInv, Step PROVE RInv'
<1>. DEFINE i == Applied + 1
<1>1. pc = "step" /\ UNCHANGED <<life, call, guard>>
  BY DEF Step
<1>2. IsChange /\ Typed /\ InStep /\ AppliedRan /\ RestClean
  BY <1>1 DEF RInv
<1>3. Updates \in 0..MaxUpdates /\ Applied \in Nat /\ i \in 1..MaxUpdates /\ i <= Updates
  BY <1>1, <1>2, UpdatesBound, SettingsAssumption DEF InStep, Typed, Applied
<1>4. \A j \in 1..MaxUpdates : j > Applied => Clean(j)
  BY <1>1, <1>2 DEF RestClean
<1>5. IsChange' = IsChange /\ Updates' = Updates
  BY <1>1 DEF IsChange, Updates
<1>6. PICK o \in Outcomes :
         /\ ran' = IF o.did THEN [ran EXCEPT ![i] = life] ELSE ran
         /\ IF o.effect = "ok"
            THEN /\ steps' = [steps EXCEPT ![i] = "confirmed"] /\ applied' = Append(applied, i)
                 /\ IF i = Updates THEN Return("ok") ELSE Go("step")
            ELSE /\ steps' = [steps EXCEPT ![i] = o.effect] /\ UNCHANGED applied
                 /\ Return(Aggregate(o.effect, i))
  BY DEF Step, Applied
<1>7. /\ o.did \in BOOLEAN /\ o.effect \in {"ok", "unknown", "confirmed", "notSent"}
      /\ o.did => (guard # 0 => life = guard)
      /\ o.effect \in {"ok", "confirmed"} => o.did
      /\ o.effect = "notSent" => ~o.did
  <2>1. CASE o \in {[did |-> FALSE, effect |-> "notSent"], [did |-> FALSE, effect |-> "unknown"]}
    <3>1. o.did = FALSE /\ o.effect \in {"notSent", "unknown"}
      BY <2>1
    <3>. QED BY <3>1
  <2>2. CASE Answers /\ o \in [did: {TRUE}, effect: {"ok", "unknown", "confirmed"}]
    <3>1. o.did = TRUE /\ o.effect \in {"ok", "unknown", "confirmed"}
      BY <2>2
    <3>. QED BY <2>2, <3>1 DEF Answers
  <2>. QED BY <2>1, <2>2 DEF Outcomes
<1>8. ran' \in [1..MaxUpdates -> Nat] /\ \A j \in 1..MaxUpdates : j # i => ran'[j] = ran[j]
  BY <1>2, <1>3, <1>6, <1>7 DEF Typed
<1>9. IF o.did THEN ran'[i] = life /\ life # 0 ELSE ran'[i] = 0
  BY <1>2, <1>3, <1>4, <1>6, <1>7 DEF Typed, Clean
<1>10. CASE o.effect = "ok"
  <2>1. steps' = [steps EXCEPT ![i] = "confirmed"] /\ applied' = Append(applied, i)
    BY <1>6, <1>10
  <2>2. \/ i = Updates /\ pc' = "done" /\ effect' = "ok"
        \/ i # Updates /\ pc' = "step"
    BY <1>6, <1>10 DEF Return, Go
  <2>3. Applied' = i /\ applied' \in Seq(Nat) /\ \A j \in 1..i : applied'[j] = j
    BY <1>2, <1>3, <2>1 DEF Typed, Applied
  <2>4. Typed'
    BY <1>1, <1>2, <1>3, <1>8, <2>1, <2>3 DEF Typed
  <2>5. InStep'
    BY <1>3, <1>5, <2>2, <2>3 DEF InStep
  <2>6. AppliedRan'
    <3>1. \A j \in 1..Applied : j \in 1..MaxUpdates /\ j # i
      BY <1>3, SettingsAssumption
    <3>2. \A j \in 1..Applied : steps'[j] = "confirmed" /\ ran'[j] = ran[j]
      BY <1>2, <1>8, <2>1, <3>1 DEF AppliedRan, Typed
    <3>3. steps'[i] = "confirmed" /\ ran'[i] = life /\ life # 0 /\ (guard # 0 => life = guard)
      BY <1>2, <1>3, <1>7, <1>9, <1>10, <2>1 DEF Typed
    <3>4. \A j \in 1..Applied' : j \in 1..Applied \/ j = i
      BY <1>3, <2>3
    <3>. QED BY <1>1, <1>2, <3>2, <3>3, <3>4 DEF AppliedRan
  <2>7. RestClean'
    BY <1>2, <1>3, <1>4, <1>8, <2>1, <2>3 DEF RestClean, Clean, Typed
  <2>8. Ended'
    BY <1>5, <2>2, <2>3 DEF Ended
  <2>. QED BY <1>2, <1>5, <2>4, <2>5, <2>6, <2>7, <2>8 DEF RInv
<1>11. CASE o.effect # "ok"
  <2>1. steps' = [steps EXCEPT ![i] = o.effect] /\ applied' = applied /\ Applied' = Applied
    BY <1>6, <1>11 DEF Applied
  <2>2. pc' = "done" /\ effect' = Aggregate(o.effect, i)
    BY <1>6, <1>11 DEF Return
  <2>3. Typed'
    BY <1>1, <1>2, <1>3, <1>7, <1>8, <1>11, <2>1 DEF Typed
  <2>4. InStep'
    BY <1>3, <1>5, <2>1, <2>2 DEF InStep
  <2>5. AppliedRan'
    <3>1. \A j \in 1..Applied : j \in 1..MaxUpdates /\ j # i
      BY <1>3, SettingsAssumption
    <3>2. \A j \in 1..Applied : steps'[j] = steps[j] /\ ran'[j] = ran[j]
      BY <1>2, <1>8, <2>1, <3>1 DEF Typed
    <3>. QED BY <1>1, <1>2, <2>1, <3>2 DEF AppliedRan
  <2>6. effect' # "ok" /\ (effect' = "notSent" => o.effect = "notSent" /\ Applied = 0)
    BY <1>3, <1>7, <1>11, <2>2 DEF Aggregate
  <2>7. RestClean'
    <3>1. \A j \in 1..MaxUpdates : j > Applied /\ j # i => steps'[j] = "notSent" /\ ran'[j] = 0
      BY <1>2, <1>4, <1>8, <2>1 DEF Clean, Typed
    <3>2. steps'[i] = o.effect
      BY <1>2, <1>3, <2>1 DEF Typed
    <3>3. /\ o.effect = "notSent" => ran'[i] = 0
          /\ o.effect = "confirmed" => ran'[i] # 0
          /\ ran'[i] # 0 => effect' # "notSent" /\ (guard' # 0 => ran'[i] = guard')
      BY <1>1, <1>7, <1>9, <2>6
    <3>. QED BY <1>3, <2>1, <2>2, <2>6, <3>1, <3>2, <3>3 DEF RestClean, Clean
  <2>8. Ended'
    BY <2>1, <2>6 DEF Ended
  <2>. QED BY <1>2, <1>5, <2>3, <2>4, <2>5, <2>7, <2>8 DEF RInv
<1>. QED BY <1>10, <1>11

(* Reads and listings neither step nor report.                              *)
LEMMA ReadsKeepReport ==
    ASSUME RInv, pc \notin {"prepare", "step", "done"}, pc' # "step",
           UNCHANGED <<life, call, guard, steps, applied, ran>>
    PROVE  RInv'
<1>1. ~IsChange /\ Typed
  BY DEF RInv, InStep
<1>. QED BY <1>1 DEF RInv, Typed, IsChange, Applied

LEMMA ReportStep ==
    ASSUME RInv, bound \in Nat, [Next]_vars PROVE RInv' /\ bound' \in Nat
<1>1. CASE UNCHANGED vars
  BY <1>1 DEF vars, RInv, Typed, InStep, AppliedRan, RestClean, Ended, IsChange, Applied, Clean, Updates
<1>2. CASE Replaced
  BY <1>2, ReplacedKeepsReport DEF Replaced
<1>3. CASE Prepare
  BY <1>3, PrepareKeepsReport DEF Prepare
<1>4. CASE Step
  BY <1>4, StepKeepsReport DEF Step
<1>5. CASE Local
  BY <1>5, ReadsKeepReport DEF Local, OfChange, Go, Fails, Return
<1>6. CASE Effective
  BY <1>6, ReadsKeepReport DEF Effective, OfChange, Go, Fails, Return
<1>7. CASE ListKeys
  BY <1>7, ReadsKeepReport DEF ListKeys, Continue, OfChange, Go, Fails, Return
<1>8. CASE KeysFromLog
  BY <1>8, ReadsKeepReport DEF KeysFromLog, Continue, OfChange, Go, Fails, Return
<1>9. CASE KeepNoted
  BY <1>9, ReadsKeepReport DEF KeepNoted, OfChange, Return
<1>10. ASSUME NEW t \in Tables, ListNotes(t) PROVE RInv' /\ bound' \in Nat
  BY <1>10, ReadsKeepReport DEF ListNotes, OfChange, Go, Fails, Return
<1>11. ASSUME NEW t \in Tables, NotesFromLog(t) PROVE RInv' /\ bound' \in Nat
  BY <1>11, ReadsKeepReport DEF NotesFromLog, OfChange, Go, Fails, Return
<1>. QED
  BY <1>1, <1>2, <1>3, <1>4, <1>5, <1>6, <1>7, <1>8, <1>9, <1>10, <1>11 DEF Next

(* The report of a change, above all of an array update that failed half    *)
(* way (arrayUpdateError), is true for batches of any length.               *)
THEOREM ReportHolds == Spec => []ReportIsTrue
<1>1. Init => RInv /\ bound \in Nat
  BY ReportStarts DEF Init
<1>2. RInv /\ bound \in Nat /\ [Next]_vars => (RInv /\ bound \in Nat)'
  BY ReportStep
<1>3. RInv => ReportIsTrue
  BY ReportFollows
<1>. QED BY <1>1, <1>2, <1>3, PTL DEF Spec

-----------------------------------------------------------------------------
(* Reading an option.  The tree the first command found is fixed until the  *)
(* second one, and the origin is computed from the table of options alone:  *)
(* localOrigin must name the very scope tmux looked the value up in.        *)

\* What the first command found is in hand.
LocalFound == held \in Trees /\ option.local = held[Lookup[1]]

OptionRecord == {"local", "effective", "origin"} = DOMAIN option

ReadsOptions ==
    /\ call \in Calls /\ OptionRecord
    /\ pc \in {"local", "effective"} => call.op = "get"
    /\ call.op = "get" => pc \in {"prepare", "local", "effective", "done"}
    /\ pc = "effective" => LocalFound
    /\ OriginHeldIt

(* A call of one kind has the fields of its kind.                           *)
LEMMA OptionReadCall ==
    ASSUME call \in Calls, call.op = "get"
    PROVE  call.scope \in Scopes /\ call.kind \in Kinds
<1>1. call \in OptionReads
  BY DEF Calls, OptionChanges, HookChanges, EnvironmentChanges, BindingChanges, ArrayUpdates,
     OptionReads, BindingReads
<1>. QED BY <1>1 DEF OptionReads

(* The first place tmux looks is the holder, and it is in the tree.         *)
LEMMA HolderIsFirst ==
    /\ Lookup[1] = Holder(call.scope, call.kind)
    /\ Lookup[1] \in {Lookup[i] : i \in 1..Len(Lookup)}
<1>. DEFINE h == Holder(call.scope, call.kind)
<1>1. Parents(h) \in {<<>>, <<"globalSession">>, <<"globalWindow">>, <<"window", "globalWindow">>}
  <2>1. CASE h = "session"
    BY <2>1 DEF Parents
  <2>2. CASE h = "window"
    BY <2>2 DEF Parents
  <2>3. CASE h = "pane"
    BY <2>3 DEF Parents
  <2>4. CASE h \notin {"session", "window", "pane"}
    BY <2>4 DEF Parents
  <2>. QED BY <2>1, <2>2, <2>3, <2>4
<1>2. ASSUME NEW p, p \in {<<>>, <<"globalSession">>, <<"globalWindow">>, <<"window", "globalWindow">>}
      PROVE  (<<h>> \o p)[1] = h /\ Len(<<h>> \o p) \in Nat \ {0}
  BY <1>2
<1>3. Lookup[1] = h /\ Len(Lookup) \in Nat \ {0}
  BY <1>1, <1>2 DEF Lookup
<1>. QED BY <1>3

(* For an option whose kind is known, the origin localOrigin reports is     *)
(* that holder; for any other it reports none.                              *)
LEMMA OriginIsHolder ==
    ASSUME call.scope \in Scopes, call.kind \in Kinds
    PROVE  /\ call.kind # "unknown" => LocalOrigin = Holder(call.scope, call.kind) /\ LocalOrigin # None
           /\ call.kind = "unknown" => LocalOrigin = None
<1>1. CASE call.kind = "user"
  <2>1. LocalOrigin = call.scope
    BY <1>1 DEF LocalOrigin, Native
  <2>2. Holder(call.scope, call.kind) = call.scope
    BY <1>1 DEF Holder
  <2>. QED BY <1>1, <2>1, <2>2, SettingsAssumption
<1>2. CASE call.kind = "unknown"
  <2>1. Native = "unknown"
    BY <1>2 DEF Native
  <2>. QED BY <1>2, <2>1 DEF LocalOrigin
<1>3. CASE call.kind = "server"
  <2>1. Native = "server"
    BY <1>3 DEF Native
  <2>. QED BY <1>3, <2>1, SettingsAssumption DEF LocalOrigin, Holder, Scopes
<1>4. CASE call.kind = "session"
  <2>1. Native = "session"
    BY <1>4 DEF Native
  <2>. QED BY <1>4, <2>1, SettingsAssumption DEF LocalOrigin, Holder, Scopes
<1>5. CASE call.kind = "window"
  <2>1. Native = "window"
    BY <1>5 DEF Native
  <2>. QED BY <1>5, <2>1, SettingsAssumption DEF LocalOrigin, Holder, Scopes
<1>6. CASE call.kind = "pane" /\ call.scope = "pane"
  <2>1. Native = "pane"
    BY <1>6 DEF Native
  <2>. QED BY <1>6, <2>1, SettingsAssumption DEF LocalOrigin, Holder, Scopes
<1>7. CASE call.kind = "pane" /\ call.scope # "pane"
  <2>1. Native = "window"
    BY <1>7 DEF Native
  <2>. QED BY <1>7, <2>1, SettingsAssumption DEF LocalOrigin, Holder, Scopes
<1>. QED BY <1>1, <1>2, <1>3, <1>4, <1>5, <1>6, <1>7 DEF Kinds

LEMMA OptionsStart ==
    ASSUME Init PROVE ReadsOptions
BY DEF Init, ReadsOptions, OptionRecord, OriginHeldIt

(* A step that leaves what was found alone and ends no read with success.   *)
LEMMA ElsewhereKeepsOptions ==
    ASSUME ReadsOptions, UNCHANGED <<call, option, held>>,
           \/ pc' = pc /\ effect' = effect
           \/ pc' = "done" /\ (call.op # "get" \/ effect' # "ok")
           \/ pc' = "local" /\ call.op = "get"
           \/ pc' \notin {"local", "effective"} /\ call.op # "get"
    PROVE  ReadsOptions'
<1>1. Lookup' = Lookup /\ Trees' = Trees
  BY DEF Lookup, Trees
<1>. QED BY <1>1 DEF ReadsOptions, OptionRecord, LocalFound, OriginHeldIt

(* A step of a change or of a listing.                                      *)
LEMMA OthersKeepOptions ==
    ASSUME ReadsOptions, UNCHANGED <<call, option>>,
           pc \in {"step", "keys", "keysLog", "notes", "notesLog"}, pc' \notin {"local", "effective"}
    PROVE  ReadsOptions'
<1>1. call.op # "get"
  BY DEF ReadsOptions
<1>. QED BY <1>1 DEF ReadsOptions, OptionRecord, OriginHeldIt

LEMMA PrepareKeepsOptions ==
    ASSUME ReadsOptions, Prepare PROVE ReadsOptions'
<1>1. UNCHANGED <<call, option, held>>
  BY DEF Prepare, OfGet
<1>2. \/ FirstStep = "done" /\ pc' = "done"
      \/ FirstStep # "done" /\ pc' = FirstStep
      \/ pc' = "done" /\ effect' = "notSent"
  BY DEF Prepare, Go, Return
<1>3. /\ FirstStep \in {"local", "keys", "done", "step"}
      /\ call.op = "get" <=> FirstStep = "local"
  BY DEF FirstStep
<1>. QED BY <1>1, <1>2, <1>3, ElsewhereKeepsOptions

LEMMA LocalKeepsOptions ==
    ASSUME ReadsOptions, Local PROVE ReadsOptions'
<1>1. CASE UNCHANGED OfGet /\ Fails
  BY <1>1, ElsewhereKeepsOptions DEF Local, OfGet, Fails, Return
<1>2. CASE held' \in Trees /\ option' = [option EXCEPT !.local = held'[Lookup[1]]] /\ Go("effective")
  <2>1. call' = call /\ pc' = "effective" /\ Lookup' = Lookup /\ Trees' = Trees
    BY <1>2 DEF Local, Go, Lookup, Trees
  <2>2. option'.local = held'[Lookup[1]] /\ DOMAIN option' = DOMAIN option
    BY <1>2 DEF ReadsOptions, OptionRecord
  <2>3. call.op = "get"
    BY DEF Local, ReadsOptions
  <2>. QED BY <1>2, <2>1, <2>2, <2>3 DEF ReadsOptions, OptionRecord, LocalFound, OriginHeldIt
<1>. QED BY <1>1, <1>2 DEF Local

(* The value that is in force is the local one, where there is one; its     *)
(* origin is the scope it was found in.                                     *)
LEMMA EffectiveKeepsOptions ==
    ASSUME ReadsOptions, Effective PROVE ReadsOptions'
<1>1. CASE UNCHANGED option /\ (Fails \/ Return("confirmed"))
  BY <1>1, ElsewhereKeepsOptions DEF Effective, Fails, Return
<1>2. ASSUME NEW tree \in Trees, option.local \in {None, FirstOf(tree)},
             option' = [option EXCEPT !.effective = FirstOf(tree),
                                      !.origin = IF option.local = None THEN None ELSE LocalOrigin],
             Return("ok")
      PROVE  ReadsOptions'
  <2>1. /\ UNCHANGED <<call, held>> /\ pc' = "done"
        /\ LocalFound /\ call.op = "get" /\ call \in Calls
    BY <1>2 DEF Effective, Return, ReadsOptions
  <2>2. /\ option'.local = option.local /\ option'.effective = FirstOf(tree)
        /\ option'.origin = IF option.local = None THEN None ELSE LocalOrigin
        /\ DOMAIN option' = DOMAIN option
    BY <1>2 DEF ReadsOptions, OptionRecord
  <2>3. call.scope \in Scopes /\ call.kind \in Kinds
    BY <2>1, OptionReadCall
  <2>4. Holder(call.scope, call.kind) \in DOMAIN held /\ option.local = held[Holder(call.scope, call.kind)]
    BY <2>1, HolderIsFirst DEF LocalFound, Trees
  <2>5. /\ call.kind # "unknown" => LocalOrigin = Holder(call.scope, call.kind) /\ LocalOrigin # None
        /\ call.kind = "unknown" => LocalOrigin = None
    BY <2>3, OriginIsHolder
  <2>6. option'.origin # None =>
            /\ option'.origin \in DOMAIN held' /\ held'[option'.origin] = option'.local
            /\ option'.local # None /\ option'.effective = option'.local
    BY <1>2, <2>1, <2>2, <2>4, <2>5
  <2>7. option'.local # None /\ call'.kind # "unknown" => option'.origin # None
    BY <2>1, <2>2, <2>5
  <2>. QED BY <2>1, <2>2, <2>6, <2>7 DEF ReadsOptions, OptionRecord, OriginHeldIt
<1>. QED BY <1>1, <1>2 DEF Effective

LEMMA OptionsStep ==
    ASSUME ReadsOptions, [Next]_vars PROVE ReadsOptions'
<1>1. CASE UNCHANGED vars
  BY <1>1, ElsewhereKeepsOptions DEF vars
<1>2. CASE Replaced
  BY <1>2, ElsewhereKeepsOptions DEF Replaced, OfGet
<1>3. CASE Prepare
  BY <1>3, PrepareKeepsOptions
<1>4. CASE Local
  BY <1>4, LocalKeepsOptions
<1>5. CASE Effective
  BY <1>5, EffectiveKeepsOptions
<1>6. CASE Step
  BY <1>6, OthersKeepOptions DEF Step, Go, Return, OfGet
<1>7. CASE ListKeys
  BY <1>7, OthersKeepOptions DEF ListKeys, Continue, Go, Fails, Return
<1>8. CASE KeysFromLog
  BY <1>8, OthersKeepOptions DEF KeysFromLog, Continue, Go, Fails, Return, OfGet
<1>9. CASE KeepNoted
  BY <1>9, OthersKeepOptions DEF KeepNoted, Return, OfGet
<1>10. ASSUME NEW t \in Tables, ListNotes(t) PROVE ReadsOptions'
  BY <1>10, OthersKeepOptions DEF ListNotes, Go, Fails, Return, OfGet
<1>11. ASSUME NEW t \in Tables, NotesFromLog(t) PROVE ReadsOptions'
  BY <1>11, OthersKeepOptions DEF NotesFromLog, Go, Fails, Return, OfGet
<1>. QED BY <1>1, <1>2, <1>3, <1>4, <1>5, <1>6, <1>7, <1>8, <1>9, <1>10, <1>11 DEF Next

(* A reported origin is the scope that held the local value, whatever kind  *)
(* of option was asked for on whatever kind of target (localOrigin).        *)
THEOREM OriginIsTrue == Spec => []OriginHeldIt
<1>1. Init => ReadsOptions
  BY OptionsStart
<1>2. ReadsOptions /\ [Next]_vars => ReadsOptions'
  BY OptionsStep
<1>3. ReadsOptions => OriginHeldIt
  BY DEF ReadsOptions
<1>. QED BY <1>1, <1>2, <1>3, PTL DEF Spec

-----------------------------------------------------------------------------
(* Listing key bindings.  Up to four commands build one answer, two of them *)
(* through the daemon's message log: each intermediate result must stay a   *)
(* part of the first listing, and each verdict on a table one of a note.    *)

Verdicts == {"unasked", "asked", "yes", "no"}

\* A verdict "yes" was given for a note; without the log every verdict is exact.
NotesTrue ==
    \A t \in Tables :
        /\ noted[t] = "yes" => later[t]
        /\ ~call.version37 /\ noted[t] = "no" => ~later[t]
        /\ noted[t] = "asked" => call.version37 /\ pc = "notesLog" /\ (logged # {} => later[t])
        /\ noted[t] = "asked" => \A u \in Tables \ {t} : noted[u] # "asked"

\* The lines of the first listing that can be read.
Listed == ParseBindings(Listing(held))

RowsTrue == rows \subseteq Listed /\ (call.version37 \/ rows = Listed)

ListsBindings ==
    /\ call \in Calls /\ noted \in [Tables -> Verdicts] /\ later \in [Tables -> BOOLEAN]
    /\ pc \in {"keys", "keysLog", "notes", "notesLog"} => call.op = "bindings"
    /\ call.op = "bindings" => pc \in {"prepare", "keys", "keysLog", "notes", "notesLog", "done"}
    /\ pc \in {"prepare", "keys", "keysLog"} => \A t \in Tables : noted[t] = "unasked"
    /\ pc = "keysLog" => call.version37 /\ logged \subseteq Listing(held)
    /\ pc \in {"notes", "notesLog"} => call.noted /\ RowsTrue /\ NotesTrue
    /\ BindingsAreTheirs

(* A row of a listing is about one of the tables there are.                 *)
LEMMA RowsHaveTables ==
    ASSUME call \in Calls, call.op = "bindings", NEW keys, NEW r \in Listing(keys)
    PROVE  r.table \in Tables
<1>1. call \in BindingReads
  BY DEF Calls, OptionChanges, HookChanges, EnvironmentChanges, BindingChanges, ArrayUpdates,
     OptionReads, BindingReads
<1>2. Asked \subseteq Tables
  BY <1>1 DEF Asked, BindingReads
<1>3. \E t \in Asked : r = [table |-> t, command |-> keys[t].command]
  BY DEF Listing
<1>. QED BY <1>2, <1>3

LEMMA BindingsStart ==
    ASSUME Init PROVE ListsBindings
<1>1. noted \in [Tables -> Verdicts] /\ later \in [Tables -> BOOLEAN]
  BY DEF Init, Verdicts
<1>. QED BY <1>1 DEF Init, ListsBindings, BindingsAreTheirs

(* A step that leaves the listing and the notes alone, and ends no listing  *)
(* with success.                                                            *)
LEMMA ElsewhereKeepsBindings ==
    ASSUME ListsBindings, UNCHANGED <<call, rows, logged, noted, held, later>>,
           \/ pc' = pc /\ effect' = effect
           \/ pc' = "done" /\ (call.op # "bindings" \/ effect' # "ok")
           \/ pc = "prepare" /\ pc' = "keys" /\ call.op = "bindings"
           \/ pc' \notin {"prepare", "keys", "keysLog", "notes", "notesLog"} /\ call.op # "bindings"
    PROVE  ListsBindings'
<1>1. \A keys : Listing(keys)' = Listing(keys)
  BY DEF Listing, Asked
<1>2. Listed' = Listed
  BY <1>1 DEF Listed, ParseBindings, Listing, Asked
<1>. QED BY <1>1, <1>2 DEF ListsBindings, RowsTrue, NotesTrue, BindingsAreTheirs, Listing, Asked

(* A listing that fails says nothing, whatever it was about to take over.   *)
LEMMA FailureKeepsBindings ==
    ASSUME ListsBindings, Fails, UNCHANGED <<call, noted, later>> PROVE ListsBindings'
<1>1. pc' = "done" /\ effect' # "ok"
  BY DEF Fails, Return
<1>. QED BY <1>1 DEF ListsBindings, BindingsAreTheirs

(* A step of a change or of a read of an option.                            *)
LEMMA OthersKeepBindings ==
    ASSUME ListsBindings, UNCHANGED <<call, rows, logged, noted, later>>,
           pc \in {"step", "local", "effective"}, pc' \in {"step", "local", "effective", "done"}
    PROVE  ListsBindings'
<1>1. call.op # "bindings"
  BY DEF ListsBindings
<1>. QED BY <1>1 DEF ListsBindings, BindingsAreTheirs

LEMMA PrepareKeepsBindings ==
    ASSUME ListsBindings, Prepare PROVE ListsBindings'
<1>1. UNCHANGED <<call, rows, logged, noted, held, later>> /\ pc = "prepare"
  BY DEF Prepare, OfGet, OfBindings
<1>2. \/ FirstStep = "done" /\ pc' = "done"
      \/ FirstStep # "done" /\ pc' = FirstStep
      \/ pc' = "done" /\ effect' = "notSent"
  BY DEF Prepare, Go, Return
<1>3. /\ FirstStep \in {"local", "keys", "done", "step"}
      /\ call.op = "bindings" <=> FirstStep = "keys"
  BY DEF FirstStep
<1>. QED BY <1>1, <1>2, <1>3, ElsewhereKeepsBindings

(* Rows that are true are an answer, unless notes are asked for and there   *)
(* are rows to ask them about.                                              *)
LEMMA ContinueKeepsBindings ==
    ASSUME ListsBindings, Continue(rows'), UNCHANGED <<call, noted, later>>,
           call.op = "bindings", \A t \in Tables : noted[t] = "unasked",
           rows' \subseteq Listed', call.version37 \/ rows' = Listed'
    PROVE  ListsBindings'
<1>1. CASE call.noted /\ rows' # {}
  <2>1. pc' = "notes"
    BY <1>1 DEF Continue, Go
  <2>2. RowsTrue' /\ NotesTrue'
    BY DEF RowsTrue, NotesTrue
  <2>. QED BY <1>1, <2>1, <2>2 DEF ListsBindings, BindingsAreTheirs
<1>2. CASE ~(call.noted /\ rows' # {})
  <2>1. pc' = "done"
    BY <1>2 DEF Continue, Return
  <2>2. BindingsAreTheirs'
    <3>. DEFINE real == {r \in Listing(held)' : r.command \in Readable /\ (call'.noted => later'[r.table])}
    <3>1. rows' \subseteq real /\ (call'.version37 \/ rows' = real)
      BY <1>2 DEF Listed, ParseBindings
    <3>. QED BY <3>1 DEF BindingsAreTheirs
  <2>. QED BY <2>1, <2>2 DEF ListsBindings
<1>. QED BY <1>1, <1>2

LEMMA ListKeysKeepsBindings ==
    ASSUME ListsBindings, ListKeys PROVE ListsBindings'
<1>1. /\ pc = "keys" /\ call.op = "bindings" /\ UNCHANGED <<call, noted, later>>
      /\ \A t \in Tables : noted[t] = "unasked"
  BY DEF ListKeys, ListsBindings
<1>. DEFINE out == Listing(held')
<1>2. Listing(held)' = out
  BY <1>1 DEF Listing, Asked
<1>3. CASE Fails
  BY <1>1, <1>3, FailureKeepsBindings
<1>4. CASE rows' = ParseBindings(out) /\ Continue(rows')
  <2>1. rows' = Listed'
    BY <1>2, <1>4 DEF Listed, ParseBindings
  <2>. QED BY <1>1, <1>4, <2>1, ContinueKeepsBindings
<1>5. CASE call.version37 /\ logged' \in {out, {}} /\ Go("keysLog")
  BY <1>1, <1>2, <1>5 DEF ListsBindings, BindingsAreTheirs, Go
<1>. QED BY <1>3, <1>4, <1>5 DEF ListKeys

LEMMA KeysFromLogKeepsBindings ==
    ASSUME ListsBindings, KeysFromLog PROVE ListsBindings'
<1>1. /\ pc = "keysLog" /\ call.op = "bindings" /\ UNCHANGED <<call, held, noted, later>>
      /\ call.version37 /\ logged \subseteq Listing(held)
      /\ \A t \in Tables : noted[t] = "unasked"
  BY DEF KeysFromLog, ListsBindings, OfGet
<1>2. Listing(held)' = Listing(held)
  BY <1>1 DEF Listing, Asked
<1>3. CASE Fails
  BY <1>1, <1>3, FailureKeepsBindings
<1>4. CASE rows' = ParseBindings(logged) /\ Continue(rows')
  <2>1. rows' \subseteq Listed'
    BY <1>1, <1>2, <1>4 DEF Listed, ParseBindings
  <2>. QED BY <1>1, <1>4, <2>1, ContinueKeepsBindings
<1>. QED BY <1>3, <1>4 DEF KeysFromLog, MarkedLines

LEMMA ListNotesKeepsBindings ==
    ASSUME ListsBindings, NEW t \in Tables, ListNotes(t) PROVE ListsBindings'
<1>1. /\ pc = "notes" /\ noted[t] = "unasked" /\ UNCHANGED <<call, rows, held>>
      /\ call.op = "bindings" /\ call.noted /\ RowsTrue /\ NotesTrue
  BY DEF ListNotes, ListsBindings, OfGet
<1>2. Listing(held)' = Listing(held)
  BY <1>1 DEF Listing, Asked
<1>3. CASE Fails /\ UNCHANGED <<later, noted, logged>>
  BY <1>1, <1>3, FailureKeepsBindings
<1>4. ASSUME NEW note \in BOOLEAN, later' = [later EXCEPT ![t] = note],
             \/ noted' = [noted EXCEPT ![t] = Answered(note)] /\ Go("notes") /\ UNCHANGED logged
             \/ /\ call.version37 /\ noted' = [noted EXCEPT ![t] = "asked"] /\ Go("notesLog")
                /\ logged' \in {{}, IF note THEN {r \in rows : r.table = t} ELSE {}}
      PROVE  ListsBindings'
  <2>1. /\ later' \in [Tables -> BOOLEAN] /\ noted' \in [Tables -> Verdicts]
        /\ later'[t] = note /\ \A u \in Tables \ {t} : later'[u] = later[u] /\ noted'[u] = noted[u]
    BY <1>4 DEF ListsBindings, Answered, Verdicts
  <2>2. \/ noted'[t] = (IF note THEN "yes" ELSE "no") /\ pc' = "notes"
        \/ noted'[t] = "asked" /\ pc' = "notesLog" /\ call.version37 /\ (logged' # {} => note)
    BY <1>4 DEF ListsBindings, Answered, Go
  <2>3. RowsTrue'
    BY <1>1, <1>2 DEF RowsTrue, Listed, ParseBindings
  <2>4. \A u \in Tables \ {t} : noted[u] # "asked"
    BY <1>1 DEF NotesTrue
  <2>5. NotesTrue'
    BY <1>1, <2>1, <2>2, <2>4 DEF NotesTrue
  <2>6. pc' \in {"notes", "notesLog"}
    BY <2>2
  <2>. QED BY <1>1, <2>1, <2>3, <2>5, <2>6 DEF ListsBindings, BindingsAreTheirs
<1>. QED BY <1>3, <1>4 DEF ListNotes

LEMMA NotesFromLogKeepsBindings ==
    ASSUME ListsBindings, NEW t \in Tables, NotesFromLog(t) PROVE ListsBindings'
<1>1. /\ pc = "notesLog" /\ noted[t] = "asked" /\ UNCHANGED <<call, rows, logged, held, later>>
      /\ call.op = "bindings" /\ call.noted /\ RowsTrue /\ NotesTrue
  BY DEF NotesFromLog, ListsBindings, OfGet
<1>2. Listing(held)' = Listing(held)
  BY <1>1 DEF Listing, Asked
<1>3. CASE Fails /\ UNCHANGED noted
  BY <1>1, <1>3, FailureKeepsBindings
<1>4. CASE Go("notes") /\ noted' = [noted EXCEPT ![t] = Answered(logged # {})]
  <2>1. /\ noted' \in [Tables -> Verdicts] /\ \A u \in Tables \ {t} : noted'[u] = noted[u]
        /\ noted'[t] = IF logged # {} THEN "yes" ELSE "no"
    BY <1>4 DEF ListsBindings, Answered, Verdicts
  <2>2. call.version37 /\ (logged # {} => later[t]) /\ \A u \in Tables \ {t} : noted[u] # "asked"
    BY <1>1 DEF NotesTrue
  <2>3. RowsTrue'
    BY <1>1, <1>2 DEF RowsTrue, Listed, ParseBindings
  <2>4. NotesTrue'
    BY <1>1, <2>1, <2>2 DEF NotesTrue
  <2>5. pc' = "notes"
    BY <1>4 DEF Go
  <2>. QED BY <1>1, <2>1, <2>3, <2>4, <2>5 DEF ListsBindings, BindingsAreTheirs
<1>. QED BY <1>3, <1>4 DEF NotesFromLog, MarkedLines

(* What is kept had a note of its own table; and nothing that had one is    *)
(* left out, unless a verdict came by way of the log.                       *)
LEMMA KeepNotedKeepsBindings ==
    ASSUME ListsBindings, KeepNoted PROVE ListsBindings'
<1>1. /\ pc = "notes" /\ UNCHANGED <<call, logged, noted, held, later>>
      /\ call.op = "bindings" /\ call.noted /\ RowsTrue /\ NotesTrue /\ call \in Calls
      /\ noted \in [Tables -> Verdicts]
  BY DEF KeepNoted, ListsBindings, OfGet
<1>2. /\ rows' = {r \in rows : NotedIn(r.table)} /\ pc' = "done"
      /\ \A r \in rows : noted[r.table] # "unasked"
  BY DEF KeepNoted, Return
<1>3. Listing(held)' = Listing(held)
  BY <1>1 DEF Listing, Asked
<1>. DEFINE real == {r \in Listing(held) : r.command \in Readable /\ (call.noted => later[r.table])}
<1>4. \A r \in Listing(held) : r.table \in Tables
  BY <1>1, RowsHaveTables
<1>5. ASSUME NEW r \in rows' PROVE r \in real
  BY <1>1, <1>2, <1>4 DEF RowsTrue, Listed, ParseBindings, NotesTrue, NotedIn
<1>6. ASSUME ~call.version37, NEW r \in real PROVE r \in rows'
  <2>1. r \in rows /\ later[r.table] /\ r.table \in Tables
    BY <1>1, <1>4, <1>6 DEF RowsTrue, Listed, ParseBindings
  <2>2. noted[r.table] \in {"asked", "yes", "no"}
    BY <1>1, <1>2, <2>1 DEF Verdicts
  <2>. QED BY <1>1, <1>2, <1>6, <2>1, <2>2 DEF NotesTrue, NotedIn
<1>7. rows' \subseteq real /\ (call.version37 \/ rows' = real)
  BY <1>5, <1>6
<1>8. BindingsAreTheirs'
  <2>. DEFINE realThen == {r \in Listing(held)' :
                             r.command \in Readable /\ (call'.noted => later'[r.table])}
  <2>1. realThen = real
    BY <1>1, <1>3
  <2>2. rows' \subseteq realThen /\ (call'.version37 \/ rows' = realThen)
    BY <1>1, <1>7, <2>1
  <2>. QED BY <2>2 DEF BindingsAreTheirs
<1>. QED BY <1>1, <1>2, <1>8 DEF ListsBindings

LEMMA BindingsStep ==
    ASSUME ListsBindings, [Next]_vars PROVE ListsBindings'
<1>1. CASE UNCHANGED vars
  BY <1>1, ElsewhereKeepsBindings DEF vars
<1>2. CASE Replaced
  BY <1>2, ElsewhereKeepsBindings DEF Replaced, OfGet, OfBindings
<1>3. CASE Prepare
  BY <1>3, PrepareKeepsBindings
<1>4. CASE Step
  BY <1>4, OthersKeepBindings DEF Step, Go, Return, OfBindings
<1>5. CASE Local
  BY <1>5, OthersKeepBindings DEF Local, Go, Fails, Return, OfBindings
<1>6. CASE Effective
  BY <1>6, OthersKeepBindings DEF Effective, Go, Fails, Return, OfBindings
<1>7. CASE ListKeys
  BY <1>7, ListKeysKeepsBindings
<1>8. CASE KeysFromLog
  BY <1>8, KeysFromLogKeepsBindings
<1>9. CASE KeepNoted
  BY <1>9, KeepNotedKeepsBindings
<1>10. ASSUME NEW t \in Tables, ListNotes(t) PROVE ListsBindings'
  BY <1>10, ListNotesKeepsBindings
<1>11. ASSUME NEW t \in Tables, NotesFromLog(t) PROVE ListsBindings'
  BY <1>11, NotesFromLogKeepsBindings
<1>. QED BY <1>1, <1>2, <1>3, <1>4, <1>5, <1>6, <1>7, <1>8, <1>9, <1>10, <1>11 DEF Next

(* Every binding FindBindings returns was bound when the daemon listed it   *)
(* and had a note of its own table after that (notedBindings), though the   *)
(* answer is put together from several commands and from the message log;   *)
(* and unless the log was needed, none that parseBinding can read is missing*)
(* because of those that it cannot.                                         *)
THEOREM BindingsHold == Spec => []BindingsAreTheirs
<1>1. Init => ListsBindings
  BY BindingsStart
<1>2. ListsBindings /\ [Next]_vars => ListsBindings'
  BY BindingsStep
<1>3. ListsBindings => BindingsAreTheirs
  BY DEF ListsBindings
<1>. QED BY <1>1, <1>2, <1>3, PTL DEF Spec

-----------------------------------------------------------------------------
(* Induction over what is counted in naturals, and concatenations of many   *)
(* parts, for the theorems about texts: a recursive function on 0..n is     *)
(* shown to exist before anything is said of the one that is chosen.        *)
LEMMA LeastNat == ASSUME NEW T \in SUBSET Nat, T # {} PROVE \E m \in T : \A k \in T : m <= k
<1>1. IsWellFoundedOn(OpToRel(<, Nat), Nat) BY NatLessThanWellFounded
<1> DEFINE R == OpToRel(<, Nat)
<1>2. \E x \in T : \A y \in T : ~(<<y, x>> \in R)
  <2> HIDE DEF R
  <2> QED BY <1>1, WFMin DEF R
<1>3. \A x, y \in T : ~(<<y, x>> \in R) => x <= y BY DEF OpToRel
<1> QED BY <1>2, <1>3

\* A set of naturals that a number enters with its predecessor holds all of them.
LEMMA UpToAll ==
    ASSUME NEW S, 0 \in S, \A m \in Nat \ {0} : m - 1 \in S => m \in S
    PROVE  Nat \subseteq S
<1> SUFFICES ASSUME NEW n \in Nat, n \notin S PROVE FALSE OBVIOUS
<1> DEFINE T == {k \in Nat : k \notin S}
<1>1. T \in SUBSET Nat /\ T # {} OBVIOUS
<1>2. PICK m \in T : \A k \in T : m <= k
  <2> HIDE DEF T
  <2> QED BY <1>1, LeastNat
<1>3. m # 0 /\ m \in Nat \ {0} /\ m - 1 \in Nat OBVIOUS
<1>4. m - 1 \notin T
  <2>1. ~(m <= m - 1) BY <1>3
  <2> HIDE DEF T
  <2> QED BY <2>1, <1>2
<1>5. m - 1 \in S BY <1>3, <1>4
<1> QED BY <1>3, <1>5

\* Where the elements of a concatenation are.
LEMMA Glued ==
    ASSUME NEW X, NEW s \in Seq(X), NEW t \in Seq(X)
    PROVE  /\ s \o t \in Seq(X)
           /\ Len(s) \in Nat /\ Len(t) \in Nat /\ Len(s \o t) = Len(s) + Len(t)
           /\ Len(s) <= Len(s \o t)
           /\ \A i \in 1..Len(s) : (s \o t)[i] = s[i]
           /\ \A j \in 1..Len(t) : (s \o t)[Len(s) + j] = t[j]
    OBVIOUS

LEMMA PrefixGrows ==
    ASSUME NEW X, NEW s \in Seq(X), NEW m \in 1..Len(s)
    PROVE  /\ SubSeq(s, 1, m - 1) \in Seq(X)
           /\ SubSeq(s, 1, m) = Append(SubSeq(s, 1, m - 1), s[m])
<1>1. Len(s) \in Nat BY LenProperties
<1>2. \A i \in 1..m - 1 : i \in 1..Len(s) BY <1>1
<1>3. \A i \in 1..m - 1 : s[i] \in X BY <1>2, ElementOfSeq
<1>4. m - 1 \in Int /\ 1 \in Int BY <1>1
<1>5. SubSeq(s, 1, m - 1) \in Seq(X) BY <1>3, <1>4, SubSeqProperties
<1>6. 1 \in 1..Len(s) /\ m \in 1..Len(s) BY <1>1
<1>7. SubSeq(s, 1, m) = SubSeq(s, 1, m - 1) \o <<s[m]>> BY <1>6, SubSeqRecursiveSecond
<1>8. s[m] \in X BY ElementOfSeq
<1>9. \A t \in Seq(X), x \in X : Append(t, x) = t \o <<x>> OBVIOUS
<1> QED BY <1>5, <1>7, <1>8, <1>9

Prefixes(u, n, part) == u = [i \in 0..n |-> IF i = 0 THEN <<>> ELSE u[i - 1] \o part[i]]

LEMMA PrefixesExist == ASSUME NEW part, NEW n \in Nat PROVE \E u : Prefixes(u, n, part)
<1> DEFINE S == {k \in Nat : \E u : Prefixes(u, k, part)}
<1>1. 0 \in S
  <2>1. Prefixes([i \in 0..0 |-> <<>>], 0, part) BY DEF Prefixes
  <2> QED BY <2>1
<1>2. ASSUME NEW m \in Nat \ {0}, m - 1 \in S PROVE m \in S
  <2>1. PICK u : Prefixes(u, m - 1, part) BY <1>2
  <2> DEFINE v == [i \in 0..m |-> IF i = m THEN u[m - 1] \o part[m] ELSE u[i]]
  <2>2. \A i \in 0..m : i # 0 /\ i # m => u[i] = u[i - 1] \o part[i] BY <2>1 DEF Prefixes
  <2>3. u[0] = <<>> BY <2>1 DEF Prefixes
  <2>4. \A i \in 0..m : v[i] = IF i = 0 THEN <<>> ELSE v[i - 1] \o part[i]
    <3> SUFFICES ASSUME NEW i \in 0..m PROVE v[i] = IF i = 0 THEN <<>> ELSE v[i - 1] \o part[i]
        OBVIOUS
    <3>1. CASE i = 0
      <4>1. i # m BY <3>1
      <4> QED BY <4>1, <3>1, <2>3
    <3>2. CASE i # 0
      <4>1. i - 1 \in 0..m /\ i - 1 # m BY <3>2
      <4>2. v[i - 1] = u[i - 1] BY <4>1
      <4>3. v[i] = u[i - 1] \o part[i] BY <2>2, <3>2
      <4> QED BY <4>2, <4>3, <3>2
    <3> QED BY <3>1, <3>2
  <2>5. v = [i \in 0..m |-> v[i]] OBVIOUS
  <2>6. Prefixes(v, m, part)
    <3> HIDE DEF v
    <3> QED BY <2>4, <2>5 DEF Prefixes
  <2> QED BY <2>6
<1>3. Nat \subseteq S
  <2> HIDE DEF S
  <2> QED BY <1>1, <1>2, UpToAll
<1> QED BY <1>3

PartsIn(part, n, X) == part \in [1..n -> Seq(X)]

\* u[k] is the concatenation of the first k parts.
Concatenates(u, n, part, X) ==
    /\ u[0] = <<>>
    /\ \A k \in 0..n : u[k] \in Seq(X)
    /\ \A k \in 1..n : u[k] = u[k - 1] \o part[k]
    /\ \A k \in 1..n : Len(u[k]) = Len(u[k - 1]) + Len(part[k])
    /\ \A k \in 0..n : Len(u[k]) <= Len(u[n])
    /\ \A k \in 1..n : \A j \in 1..Len(part[k]) : u[n][Len(u[k - 1]) + j] = part[k][j]

LEMMA Concatenation ==
    ASSUME NEW X, NEW n \in Nat, NEW part, PartsIn(part, n, X), NEW u, Prefixes(u, n, part)
    PROVE  Concatenates(u, n, part, X)
<1>0. part \in [1..n -> Seq(X)] BY DEF PartsIn
<1>1. u[0] = <<>> /\ \A k \in 1..n : u[k] = u[k - 1] \o part[k]
  <2>1. \A i \in 0..n : u[i] = IF i = 0 THEN <<>> ELSE u[i - 1] \o part[i] BY DEF Prefixes
  <2>2. 0 \in 0..n /\ \A k \in 1..n : k \in 0..n /\ k # 0 OBVIOUS
  <2> QED BY <2>1, <2>2
<1>2. \A k \in 0..n : u[k] \in Seq(X)
  <2> DEFINE S == {k \in Nat : k <= n => u[k] \in Seq(X)}
  <2>1. 0 \in S
    <3>1. <<>> \in Seq(X) OBVIOUS
    <3> QED BY <1>1, <3>1
  <2>2. ASSUME NEW m \in Nat \ {0}, m - 1 \in S PROVE m \in S
    <3> SUFFICES ASSUME m <= n PROVE u[m] \in Seq(X) OBVIOUS
    <3>1. u[m - 1] \in Seq(X) BY <2>2
    <3>2. part[m] \in Seq(X)
      <4>1. m \in 1..n OBVIOUS
      <4> QED BY <1>0, <4>1
    <3>3. u[m] = u[m - 1] \o part[m]
      <4>1. m \in 1..n OBVIOUS
      <4> QED BY <1>1, <4>1
    <3> QED BY <3>1, <3>2, <3>3
  <2>3. Nat \subseteq S
    <3> HIDE DEF S
    <3> QED BY <2>1, <2>2, UpToAll
  <2> QED BY <2>3
<1>3. \A k \in 1..n : Len(u[k]) = Len(u[k - 1]) + Len(part[k])
  <2> SUFFICES ASSUME NEW k \in 1..n PROVE Len(u[k]) = Len(u[k - 1]) + Len(part[k]) OBVIOUS
  <2>1. u[k - 1] \in Seq(X) /\ part[k] \in Seq(X) /\ u[k] = u[k - 1] \o part[k]
    <3>1. k - 1 \in 0..n OBVIOUS
    <3> QED BY <1>0, <1>1, <1>2, <3>1
  <2> QED BY <2>1
<1>4. \A k \in 0..n : \A m \in Nat : k <= m /\ m <= n =>
          /\ Len(u[k]) <= Len(u[m])
          /\ \A j \in 1..Len(u[k]) : u[m][j] = u[k][j]
  <2> SUFFICES ASSUME NEW k \in 0..n
               PROVE  \A m \in Nat : k <= m /\ m <= n =>
                          Len(u[k]) <= Len(u[m]) /\ \A j \in 1..Len(u[k]) : u[m][j] = u[k][j]
      OBVIOUS
  <2> DEFINE S == {m \in Nat : k <= m /\ m <= n =>
                     Len(u[k]) <= Len(u[m]) /\ \A j \in 1..Len(u[k]) : u[m][j] = u[k][j]}
  <2>0. Len(u[k]) \in Nat BY <1>2
  <2>1. 0 \in S BY <2>0
  <2>2. ASSUME NEW m \in Nat \ {0}, m - 1 \in S PROVE m \in S
    <3> SUFFICES ASSUME k <= m, m <= n
                 PROVE  Len(u[k]) <= Len(u[m]) /\ \A j \in 1..Len(u[k]) : u[m][j] = u[k][j]
        OBVIOUS
    <3>1. CASE k = m BY <3>1, <2>0
    <3>2. CASE k # m
      <4>1. m - 1 \in 0..n /\ k <= m - 1 /\ m - 1 <= n /\ m \in 1..n BY <3>2
      <4>2. Len(u[k]) <= Len(u[m - 1]) /\ \A j \in 1..Len(u[k]) : u[m - 1][j] = u[k][j] BY <2>2, <4>1
      <4>3. u[m - 1] \in Seq(X) /\ part[m] \in Seq(X) /\ u[m] = u[m - 1] \o part[m] BY <1>0, <1>1, <1>2, <4>1
      <4>4. Len(u[m - 1]) <= Len(u[m]) /\ \A j \in 1..Len(u[m - 1]) : u[m][j] = u[m - 1][j]
        <5> DEFINE x == u[m - 1] y == part[m]
        <5>1. x \in Seq(X) /\ y \in Seq(X) /\ u[m] = x \o y BY <4>3
        <5> HIDE DEF x, y
        <5>2. Len(x) <= Len(x \o y) /\ \A j \in 1..Len(x) : (x \o y)[j] = x[j] BY <5>1, Glued
        <5> QED BY <5>1, <5>2 DEF x, y
      <4>5. Len(u[m - 1]) \in Nat /\ Len(u[m]) \in Nat BY <1>2, <4>1
      <4>6. Len(u[k]) <= Len(u[m]) BY <4>2, <4>4, <4>5, <2>0
      <4>7. \A j \in 1..Len(u[k]) : j \in 1..Len(u[m - 1]) BY <4>2, <4>5, <2>0
      <4> QED BY <4>2, <4>4, <4>6, <4>7
    <3> QED BY <3>1, <3>2
  <2>3. Nat \subseteq S
    <3> HIDE DEF S
    <3> QED BY <2>1, <2>2, UpToAll
  <2> QED BY <2>3
<1>5. \A k \in 0..n : Len(u[k]) <= Len(u[n]) BY <1>4
<1>6. ASSUME NEW k \in 1..n, NEW j \in 1..Len(part[k]) PROVE u[n][Len(u[k - 1]) + j] = part[k][j]
  <2>1. u[k - 1] \in Seq(X) /\ part[k] \in Seq(X) /\ u[k] = u[k - 1] \o part[k]
    <3>1. k - 1 \in 0..n OBVIOUS
    <3> QED BY <1>0, <1>1, <1>2, <3>1
  <2>2. Len(u[k - 1]) + j \in 1..Len(u[k]) /\ u[k][Len(u[k - 1]) + j] = part[k][j]
    <3> DEFINE x == u[k - 1] y == part[k]
    <3>1. x \in Seq(X) /\ y \in Seq(X) /\ j \in 1..Len(y) /\ u[k] = x \o y BY <2>1
    <3> HIDE DEF x, y
    <3>2. (x \o y)[Len(x) + j] = y[j] /\ Len(x \o y) = Len(x) + Len(y) /\ Len(x) \in Nat /\ Len(y) \in Nat
      BY <3>1, Glued
    <3>3. Len(x) + j \in 1..Len(x \o y) BY <3>1, <3>2
    <3> QED BY <3>1, <3>2, <3>3 DEF x, y
  <2>3. \A i \in 1..Len(u[k]) : u[n][i] = u[k][i] BY <1>4
  <2> QED BY <2>2, <2>3
<1> QED BY <1>1, <1>2, <1>3, <1>5, <1>6 DEF Concatenates

-----------------------------------------------------------------------------
(* ParseWords of quoted words.                                              *)
WordScan(a, n, text) == a = [i \in 0..n |-> IF i = 0 THEN NoWords ELSE WordStep(text, i, a[i - 1])]

LEMMA WordScanExists == ASSUME NEW text, NEW n \in Nat PROVE \E a : WordScan(a, n, text)
<1> DEFINE S == {k \in Nat : \E a : WordScan(a, k, text)}
<1>1. 0 \in S
  <2>1. WordScan([i \in 0..0 |-> NoWords], 0, text) BY DEF WordScan
  <2> QED BY <2>1
<1>2. ASSUME NEW m \in Nat \ {0}, m - 1 \in S PROVE m \in S
  <2>1. PICK a : WordScan(a, m - 1, text) BY <1>2
  <2> DEFINE b == [i \in 0..m |-> IF i = m THEN WordStep(text, m, a[m - 1]) ELSE a[i]]
  <2>2. \A i \in 0..m : i # 0 /\ i # m => a[i] = WordStep(text, i, a[i - 1]) BY <2>1 DEF WordScan
  <2>3. a[0] = NoWords BY <2>1 DEF WordScan
  <2>4. \A i \in 0..m : b[i] = IF i = 0 THEN NoWords ELSE WordStep(text, i, b[i - 1])
    <3> SUFFICES ASSUME NEW i \in 0..m
                 PROVE  b[i] = IF i = 0 THEN NoWords ELSE WordStep(text, i, b[i - 1])
        OBVIOUS
    <3>1. CASE i = 0
      <4>1. i # m BY <3>1
      <4> QED BY <4>1, <3>1, <2>3
    <3>2. CASE i # 0
      <4>1. i - 1 \in 0..m /\ i - 1 # m BY <3>2
      <4>2. b[i - 1] = a[i - 1] BY <4>1
      <4>3. b[i] = WordStep(text, i, a[i - 1]) BY <2>2, <3>2
      <4> QED BY <4>2, <4>3, <3>2
    <3> QED BY <3>1, <3>2
  <2>5. b = [i \in 0..m |-> b[i]] OBVIOUS
  <2>6. WordScan(b, m, text)
    <3> HIDE DEF b
    <3> QED BY <2>4, <2>5 DEF WordScan
  <2> QED BY <2>6
<1>3. Nat \subseteq S
  <2> HIDE DEF S
  <2> QED BY <1>1, <1>2, UpToAll
<1> QED BY <1>3

WordsAfter(s) == IF s.ok /\ s.quote = 0 THEN Accepted(FlushWord(s).words) ELSE Refused

LEMMA WordsScanned ==
    ASSUME NEW text, Len(text) \in Nat
    PROVE  \E a : /\ a[0] = NoWords
                  /\ \A i \in 1..Len(text) : a[i] = WordStep(text, i, a[i - 1])
                  /\ ParseWords(text) = WordsAfter(a[Len(text)])
<1> DEFINE a == CHOOSE a : WordScan(a, Len(text), text)
<1>1. WordScan(a, Len(text), text) BY WordScanExists
<1>2. ParseWords(text) = WordsAfter(a[Len(text)]) BY DEF ParseWords, Scan, WordScan, WordsAfter
<1> HIDE DEF a
<1>3. \A i \in 0..Len(text) : a[i] = IF i = 0 THEN NoWords ELSE WordStep(text, i, a[i - 1])
  BY <1>1 DEF WordScan
<1>4. 0 \in 0..Len(text) /\ \A i \in 1..Len(text) : i \in 0..Len(text) /\ i # 0 OBVIOUS
<1> QED BY <1>2, <1>3, <1>4

\* The state of a scan between two bytes of a text it has no objection to.
Fields == {"ok", "end", "words", "word", "quote", "started", "fresh", "skip"}
Between(s, words, word, quote, started, skip) ==
    /\ DOMAIN s = Fields /\ s.ok /\ ~s.end
    /\ s.words = words /\ s.word = word /\ s.quote = quote /\ s.started = started /\ s.skip = skip

At(text, p, v) == \A j \in 1..Len(v) : p + j \in 1..Len(text) /\ text[p + j] = v[j]

LEMMA OctalOf ==
    ASSUME NEW b \in 1..255
    PROVE  /\ {48 + b \div 64, 48 + ((b \div 8) % 8), 48 + (b % 8)} \subseteq Octal
           /\ 64 * (b \div 64) + 8 * ((b \div 8) % 8) + (b % 8) = b
<1>1. b \div 64 \in 0..3 OBVIOUS
<1>2. (b \div 8) % 8 \in 0..7 /\ b % 8 \in 0..7 OBVIOUS
<1>3. 64 * (b \div 64) + 8 * ((b \div 8) % 8) + (b % 8) = b
  <2>1. b = 8 * (b \div 8) + (b % 8) OBVIOUS
  <2>2. b \div 8 \in Nat OBVIOUS
  <2>3. b \div 8 = 8 * ((b \div 8) \div 8) + ((b \div 8) % 8) BY <2>2
  <2>4. (b \div 8) \div 8 = b \div 64 OBVIOUS
  <2> QED BY <2>1, <2>2, <2>3, <2>4, <1>1, <1>2
<1> QED BY <1>1, <1>2, <1>3 DEF Octal

LEMMA SafeByteScanned ==
    ASSUME NEW text, NEW i \in 1..Len(text), NEW ws, NEW v, NEW s, Between(s, ws, v, DQ, TRUE, 0),
           SafeQuoteByte(text[i])
    PROVE  Between(WordStep(text, i, s), ws, Append(v, text[i]), DQ, TRUE, 0)
<1> DEFINE c == text[i]
<1>1. c \in 32..126 /\ c # 0 /\ c # DQ /\ c # Backslash /\ c # Dollar /\ c # Tilde
  <2>1. c \in (32..126) \ {DQ, Backslash, Dollar, Backtick, Tilde} BY DEF SafeQuoteByte
  <2> HIDE DEF c
  <2> QED BY <2>1
<1>2. s.ok /\ ~s.end /\ ~(s.skip > 0) /\ s.quote = DQ /\ s.quote # 0 /\ s.quote # SQ
  BY DEF Between, DQ, SQ
<1>3. ~IsComment(c, s.quote, s.started) /\ ~Toggles(c, s.quote) /\ ~CanEscape(c, s.quote)
  BY <1>1, <1>2 DEF IsComment, Toggles, CanEscape
<1> HIDE DEF c
<1>4. ~RefusedWordByte(text, i, s) BY <1>1 DEF RefusedWordByte, c
<1>5. WordStep(text, i, s) = [s EXCEPT !.word = Append(s.word, c), !.started = TRUE, !.fresh = FALSE]
  BY <1>2, <1>3, <1>4 DEF WordStep, c
<1> QED BY <1>5 DEF Between, Fields, c

LEMMA EscapeScanned ==
    ASSUME NEW text \in Seq(Nat), NEW i \in 1..Len(text), NEW b \in 1..255, ~SafeQuoteByte(b),
           At(text, i - 1, QuoteByte(b)),
           NEW ws, NEW v \in Seq(Nat), NEW s, Between(s, ws, v, DQ, TRUE, 0)
    PROVE  Between(WordStep(text, i, s), ws, Append(v, b), DQ, TRUE, 3)
<1> DEFINE d1 == 48 + b \div 64 d2 == 48 + ((b \div 8) % 8) d3 == 48 + (b % 8)
<1>0. {d1, d2, d3} \subseteq Octal /\ 64 * (d1 - 48) + 8 * (d2 - 48) + d3 - 48 = b
  <2> DEFINE x == b \div 64 y == (b \div 8) % 8 z == b % 8
  <2>1. x \in Int /\ y \in Int /\ z \in Int OBVIOUS
  <2>2. {48 + x, 48 + y, 48 + z} \subseteq Octal /\ 64 * x + 8 * y + z = b BY OctalOf
  <2> HIDE DEF x, y, z
  <2>3. 64 * ((48 + x) - 48) + 8 * ((48 + y) - 48) + (48 + z) - 48 = b BY <2>1, <2>2
  <2> QED BY <2>2, <2>3 DEF x, y, z
<1>1. QuoteByte(b) = <<Backslash, d1, d2, d3>> BY DEF QuoteByte
<1> HIDE DEF d1, d2, d3
<1>2. i + 3 <= Len(text) /\ text[i] = Backslash /\ text[i + 1] = d1 /\ text[i + 2] = d2
      /\ text[i + 3] = d3
  <2>1. \A j \in 1..4 : (i - 1) + j \in 1..Len(text) /\ text[(i - 1) + j] = <<Backslash, d1, d2, d3>>[j]
    BY <1>1 DEF At
  <2>2. (i - 1) + 1 = i /\ (i - 1) + 2 = i + 1 /\ (i - 1) + 3 = i + 2 /\ (i - 1) + 4 = i + 3 OBVIOUS
  <2>3. (i - 1) + 1 \in 1..Len(text) /\ text[(i - 1) + 1] = Backslash BY <2>1
  <2>4. (i - 1) + 2 \in 1..Len(text) /\ text[(i - 1) + 2] = d1 BY <2>1
  <2>5. (i - 1) + 3 \in 1..Len(text) /\ text[(i - 1) + 3] = d2 BY <2>1
  <2>6. (i - 1) + 4 \in 1..Len(text) /\ text[(i - 1) + 4] = d3 BY <2>1
  <2> QED BY <2>2, <2>3, <2>4, <2>5, <2>6
<1>3. \A j \in i + 1..i + 3 : text[j] \in Octal
  <2>1. \A j \in i + 1..i + 3 : j = i + 1 \/ j = i + 2 \/ j = i + 3 OBVIOUS
  <2> QED BY <2>1, <1>0, <1>2
<1>4. OctalAt(text, i + 1) = Accepted(<<b>>)
  <2>1. (i + 1) + 1 = i + 2 /\ (i + 1) + 2 = i + 3 OBVIOUS
  <2>2. 64 * (text[i + 1] - 48) + 8 * (text[(i + 1) + 1] - 48) + text[(i + 1) + 2] - 48 = b
    BY <1>0, <1>2, <2>1
  <2>3. (i + 1) + 2 <= Len(text) /\ \A j \in i + 1..(i + 1) + 2 : text[j] \in Octal
    BY <1>2, <1>3, <2>1
  <2> QED BY <2>2, <2>3 DEF OctalAt
<1>5. EscapeAt(text, i) = [ok |-> TRUE, val |-> <<b>>, takes |-> 3]
  <2>1. i # Len(text) BY <1>2
  <2>2. text[i + 1] \in Octal BY <1>2, <1>0
  <2> DEFINE o == OctalAt(text, i + 1)
  <2>3. o.ok = TRUE /\ o.val = <<b>> BY <1>4 DEF Accepted
  <2> HIDE DEF o
  <2>4. EscapeAt(text, i) = [ok |-> o.ok, val |-> o.val, takes |-> 3] BY <2>1, <2>2, Zenon DEF EscapeAt, o
  <2> QED BY <2>3, <2>4
<1>6. v \o <<b>> = Append(v, b) OBVIOUS
<1> DEFINE c == text[i] e == EscapeAt(text, i)
<1>7. c = Backslash BY <1>2
<1>8. s.ok /\ ~s.end /\ ~(s.skip > 0) /\ s.quote = DQ /\ s.quote # 0 /\ s.quote # SQ
  BY DEF Between, DQ, SQ
<1>9. ~IsComment(c, s.quote, s.started) /\ ~Toggles(c, s.quote) /\ CanEscape(c, s.quote)
  BY <1>7, <1>8 DEF IsComment, Toggles, CanEscape, Backslash, SQ, DQ
<1>10. e.ok = TRUE /\ e.val = <<b>> /\ e.takes = 3 BY <1>5
<1> HIDE DEF c, e
<1>11. WordStep(text, i, s) =
           [s EXCEPT !.ok = e.ok, !.word = s.word \o e.val, !.started = s.started \/ e.val # <<>>,
                     !.skip = e.takes, !.fresh = FALSE]
  BY <1>8, <1>9, Zenon DEF WordStep, c, e
<1>12. (s.started \/ e.val # <<>>) = TRUE BY DEF Between
<1>13. s.word = v /\ s.words = ws /\ s.quote = DQ /\ s.ok /\ ~s.end /\ DOMAIN s = Fields BY DEF Between
<1> DEFINE r == WordStep(text, i, s)
<1>14. DOMAIN r = Fields BY <1>11, <1>13
<1>15. r.ok = TRUE /\ r.word = v \o <<b>> /\ r.started = TRUE /\ r.skip = 3
  <2>1. r.ok = e.ok /\ r.skip = e.takes BY <1>11, <1>13 DEF Fields
  <2>2. r.word = s.word \o e.val /\ r.started = (s.started \/ e.val # <<>>) BY <1>11, <1>13 DEF Fields
  <2> HIDE DEF r
  <2> QED BY <1>10, <1>12, <1>13, <2>1, <2>2
<1>16. r.words = ws /\ r.quote = DQ /\ r.end = s.end BY <1>11, <1>13 DEF Fields
<1> HIDE DEF r
<1> QED BY <1>6, <1>13, <1>14, <1>15, <1>16 DEF Between, r

LEMMA SkipScanned ==
    ASSUME NEW text, NEW i, NEW ws, NEW v, NEW s, NEW q, NEW n \in Nat \ {0},
           Between(s, ws, v, q, TRUE, n)
    PROVE  Between(WordStep(text, i, s), ws, v, q, TRUE, n - 1)
<1>1. WordStep(text, i, s) = [s EXCEPT !.skip = s.skip - 1] BY SMT DEF WordStep, Between
<1> QED BY <1>1 DEF Between, Fields

LEMMA ToggleScanned ==
    ASSUME NEW text, NEW i, text[i] = DQ, NEW ws, NEW v, NEW st, NEW q \in {0, DQ}, NEW s,
           Between(s, ws, v, q, st, 0)
    PROVE  Between(WordStep(text, i, s), ws, v, DQ - q, TRUE, 0)
<1> DEFINE c == text[i]
<1>1. c = DQ OBVIOUS
<1>2. s.ok /\ ~s.end /\ ~(s.skip > 0) /\ s.quote = q BY DEF Between
<1>3. c \notin Blanks /\ ~IsComment(c, s.quote, s.started) /\ ~(IsSequenceInvalid(c) \/ c = Semi)
  BY <1>1 DEF Blanks, Space, Tab, IsComment, IsSequenceInvalid, LBrace, RBrace, LF, Semi, DQ, Hash
<1>4. Toggles(c, s.quote) BY <1>1, <1>2 DEF Toggles, DQ, SQ
<1>5. Toggled(c, s.quote) = DQ - q BY <1>1, <1>2, <1>4 DEF Toggled, DQ
<1> HIDE DEF c
<1>6. WordStep(text, i, s) = [s EXCEPT !.quote = Toggled(c, s.quote), !.started = TRUE, !.fresh = TRUE]
  BY <1>2, <1>3, <1>4 DEF WordStep, c
<1> QED BY <1>5, <1>6 DEF Between, Fields

WordRun(a, text) == \A i \in 1..Len(text) : a[i] = WordStep(text, i, a[i - 1])

\* What a line is made of: no control byte, no line feed, nothing above ASCII.
Printable == 32..126

LEMMA QuoteByteTyped == ASSUME NEW b \in 1..255 PROVE QuoteByte(b) \in Seq(Printable)
<1> DEFINE x == b \div 64 y == (b \div 8) % 8 z == b % 8
<1>1. x \in 0..3 /\ y \in 0..7 /\ z \in 0..7 OBVIOUS
<1> HIDE DEF x, y, z
<1>2. 48 + x \in Printable /\ 48 + y \in Printable /\ 48 + z \in Printable /\ Backslash \in Printable
  BY <1>1 DEF Backslash, Printable
<1>3. <<Backslash, 48 + x, 48 + y, 48 + z>> \in Seq(Printable) BY <1>2
<1>4. SafeQuoteByte(b) => b \in Printable BY DEF SafeQuoteByte, Printable
<1>5. b \in Printable => <<b>> \in Seq(Printable) OBVIOUS
<1> QED BY <1>3, <1>4, <1>5 DEF QuoteByte, x, y, z

LEMMA ByteScanned ==
    ASSUME NEW text \in Seq(Nat), NEW a, WordRun(a, text), NEW p \in Nat, NEW b \in 1..255,
           At(text, p, QuoteByte(b)), NEW ws, NEW v \in Seq(Nat), Between(a[p], ws, v, DQ, TRUE, 0)
    PROVE  Between(a[p + Len(QuoteByte(b))], ws, Append(v, b), DQ, TRUE, 0)
<1>0. (p + 1) - 1 = p /\ Len(text) \in Nat OBVIOUS
<1>1. CASE SafeQuoteByte(b)
  <2>1. QuoteByte(b) = <<b>> BY <1>1 DEF QuoteByte
  <2>2. p + 1 \in 1..Len(text) /\ text[p + 1] = b BY <2>1 DEF At
  <2>3. a[p + 1] = WordStep(text, p + 1, a[p]) BY <2>2, <1>0 DEF WordRun
  <2>4. Between(WordStep(text, p + 1, a[p]), ws, Append(v, text[p + 1]), DQ, TRUE, 0)
    BY <1>1, <2>2, SafeByteScanned
  <2>5. Len(QuoteByte(b)) = 1 BY <2>1
  <2> QED BY <2>2, <2>3, <2>4, <2>5
<1>2. CASE ~SafeQuoteByte(b)
  <2>1. Len(QuoteByte(b)) = 4 BY <1>2 DEF QuoteByte
  <2>2. \A j \in 1..4 : p + j \in 1..Len(text) BY <2>1 DEF At
  <2>3. p + 1 \in 1..Len(text) /\ p + 2 \in 1..Len(text) /\ p + 3 \in 1..Len(text) /\ p + 4 \in 1..Len(text)
    BY <2>2
  <2>4. (p + 2) - 1 = p + 1 /\ (p + 3) - 1 = p + 2 /\ (p + 4) - 1 = p + 3 OBVIOUS
  <2>5. a[p + 1] = WordStep(text, p + 1, a[p]) /\ a[p + 2] = WordStep(text, p + 2, a[p + 1])
        /\ a[p + 3] = WordStep(text, p + 3, a[p + 2]) /\ a[p + 4] = WordStep(text, p + 4, a[p + 3])
    BY <2>3, <2>4, <1>0 DEF WordRun
  <2>6. Between(a[p + 1], ws, Append(v, b), DQ, TRUE, 3) BY <1>2, <2>3, <2>5, <1>0, EscapeScanned
  <2>7. Between(a[p + 2], ws, Append(v, b), DQ, TRUE, 2)
    <3>1. 3 \in Nat \ {0} /\ 3 - 1 = 2 OBVIOUS
    <3>2. Between(WordStep(text, p + 2, a[p + 1]), ws, Append(v, b), DQ, TRUE, 3 - 1) BY <2>6, <3>1, SkipScanned
    <3> QED BY <2>5, <3>1, <3>2
  <2>8. Between(a[p + 3], ws, Append(v, b), DQ, TRUE, 1)
    <3>1. 2 \in Nat \ {0} /\ 2 - 1 = 1 OBVIOUS
    <3>2. Between(WordStep(text, p + 3, a[p + 2]), ws, Append(v, b), DQ, TRUE, 2 - 1) BY <2>7, <3>1, SkipScanned
    <3> QED BY <2>5, <3>1, <3>2
  <2>9. Between(a[p + 4], ws, Append(v, b), DQ, TRUE, 0)
    <3>1. 1 \in Nat \ {0} /\ 1 - 1 = 0 OBVIOUS
    <3>2. Between(WordStep(text, p + 4, a[p + 3]), ws, Append(v, b), DQ, TRUE, 1 - 1) BY <2>8, <3>1, SkipScanned
    <3> QED BY <2>5, <3>1, <3>2
  <2> QED BY <2>1, <2>9
<1> QED BY <1>1, <1>2

LEMMA AtGlued ==
    ASSUME NEW text, NEW p \in Nat, NEW X, NEW s \in Seq(X), NEW t \in Seq(X), At(text, p, s \o t)
    PROVE  At(text, p, s) /\ At(text, p + Len(s), t)
<1>1. \A j \in 1..Len(s) + Len(t) : p + j \in 1..Len(text) /\ text[p + j] = (s \o t)[j]
  BY Glued DEF At
<1>2. Len(s) \in Nat /\ Len(t) \in Nat BY Glued
<1>3. ASSUME NEW j \in 1..Len(s) PROVE p + j \in 1..Len(text) /\ text[p + j] = s[j]
  <2>1. j \in 1..Len(s) + Len(t) BY <1>2
  <2> QED BY <1>1, <2>1, Glued
<1>4. ASSUME NEW j \in 1..Len(t)
      PROVE  (p + Len(s)) + j \in 1..Len(text) /\ text[(p + Len(s)) + j] = t[j]
  <2>1. Len(s) + j \in 1..Len(s) + Len(t) /\ p + (Len(s) + j) = (p + Len(s)) + j BY <1>2
  <2>2. (s \o t)[Len(s) + j] = t[j] BY Glued
  <2> QED BY <1>1, <2>1, <2>2
<1> QED BY <1>3, <1>4 DEF At

LEMMA AtPart ==
    ASSUME NEW text, NEW p \in Nat, NEW X, NEW n \in Nat, NEW part, PartsIn(part, n, X), NEW u,
           Concatenates(u, n, part, X), At(text, p, u[n]), NEW k \in 1..n
    PROVE  At(text, p + Len(u[k - 1]), part[k])
<1>1. Len(u[k - 1]) \in Nat /\ Len(part[k]) \in Nat /\ Len(u[n]) \in Nat
      /\ Len(u[k - 1]) + Len(part[k]) <= Len(u[n])
  <2>1. k - 1 \in 0..n /\ k \in 0..n /\ n \in 0..n OBVIOUS
  <2>2. u[k - 1] \in Seq(X) /\ u[n] \in Seq(X) BY <2>1 DEF Concatenates
  <2>3. part[k] \in Seq(X) BY DEF PartsIn
  <2>4. Len(u[k]) = Len(u[k - 1]) + Len(part[k]) /\ Len(u[k]) <= Len(u[n]) BY <2>1 DEF Concatenates
  <2>5. Len(u[k - 1]) \in Nat /\ Len(part[k]) \in Nat /\ Len(u[n]) \in Nat BY <2>2, <2>3, LenProperties
  <2> QED BY <2>4, <2>5
<1>2. SUFFICES ASSUME NEW j \in 1..Len(part[k])
               PROVE  /\ (p + Len(u[k - 1])) + j \in 1..Len(text)
                      /\ text[(p + Len(u[k - 1])) + j] = part[k][j]
  BY DEF At
<1>3. u[n][Len(u[k - 1]) + j] = part[k][j] BY DEF Concatenates
<1>4. Len(u[k - 1]) + j \in 1..Len(u[n]) /\ p + (Len(u[k - 1]) + j) = (p + Len(u[k - 1])) + j
  <2> DEFINE x == Len(u[k - 1]) y == Len(part[k]) z == Len(u[n])
  <2>1. x \in Nat /\ y \in Nat /\ z \in Nat /\ x + y <= z /\ j \in 1..y BY <1>1
  <2> HIDE DEF x, y, z
  <2>2. x + j \in 1..z /\ p + (x + j) = (p + x) + j BY <2>1
  <2> QED BY <2>2 DEF x, y, z
<1> QED BY <1>3, <1>4 DEF At

\* QuoteByte of each byte, one after the other.
RequotedBytes(w) == [k \in 1..Len(w) |-> QuoteByte(w[k])]

LEMMA RequotedParts ==
    ASSUME NEW w, Len(w) \in Nat
    PROVE  \E u : /\ Prefixes(u, Len(w), RequotedBytes(w))
                  /\ Requoted(w) = u[Len(w)]
<1> DEFINE n == Len(w) part == RequotedBytes(w)
           F(u) == [i \in 0..n |-> IF i = 0 THEN <<>> ELSE u[i - 1] \o QuoteByte(w[i])]
           v == CHOOSE u : u = F(u)
<1>1. \A u : F(u) = [i \in 0..n |-> IF i = 0 THEN <<>> ELSE u[i - 1] \o part[i]]
  BY DEF RequotedBytes
<1>2. Requoted(w) = v[n] BY DEF Requoted, Join
<1>3. \E u : Prefixes(u, n, part)
  <2> HIDE DEF part
  <2> QED BY PrefixesExist
<1> HIDE DEF part, F
<1>4. v = F(v) BY <1>1, <1>3 DEF Prefixes
<1> HIDE DEF v
<1> QED BY <1>1, <1>2, <1>4 DEF Prefixes, part

LEMMA QuotedScanned ==
    ASSUME NEW text \in Seq(Nat), NEW a, WordRun(a, text), NEW p \in Nat, NEW w \in Seq(1..255),
           At(text, p, Quoted(w)), NEW ws, Between(a[p], ws, <<>>, 0, FALSE, 0)
    PROVE  Between(a[p + Len(Quoted(w))], ws, w, 0, TRUE, 0)
<1> DEFINE n == Len(w) part == RequotedBytes(w)
<1>0. n \in Nat /\ \A k \in 1..n : w[k] \in 1..255 /\ part[k] = QuoteByte(w[k])
  BY ElementOfSeq, LenProperties DEF RequotedBytes
<1>1. PICK u : Prefixes(u, n, part) /\ Requoted(w) = u[n] BY <1>0, RequotedParts
<1>2. PartsIn(part, n, Printable) BY <1>0, QuoteByteTyped DEF PartsIn, RequotedBytes
<1> HIDE DEF n, part
<1>3. Concatenates(u, n, part, Printable) BY <1>0, <1>1, <1>2, Concatenation
<1>u. /\ u[0] = <<>>
      /\ \A k \in 0..n : u[k] \in Seq(Printable)
      /\ \A k \in 1..n : Len(u[k]) = Len(u[k - 1]) + Len(part[k])
  BY <1>3 DEF Concatenates
<1>4. u[n] \in Seq(Printable) /\ <<DQ>> \in Seq(Printable) /\ Len(<<DQ>>) = 1
  <2>1. n \in 0..n BY <1>0
  <2> QED BY <1>u, <2>1 DEF DQ, Printable
<1>5. Quoted(w) = (<<DQ>> \o u[n]) \o <<DQ>> BY <1>1 DEF Quoted
<1>6. <<DQ>> \o u[n] \in Seq(Printable) /\ Len(<<DQ>> \o u[n]) = 1 + Len(u[n])
      /\ Len(Quoted(w)) = 1 + Len(u[n]) + 1 /\ Len(u[n]) \in Nat
  BY <1>4, <1>5, Glued
<1>7. At(text, p, <<DQ>> \o u[n]) /\ At(text, p + (1 + Len(u[n])), <<DQ>>)
  <2> DEFINE l == <<DQ>> \o u[n]
  <2>1. l \in Seq(Printable) /\ <<DQ>> \in Seq(Printable) /\ Len(l) = 1 + Len(u[n]) /\ At(text, p, l \o <<DQ>>)
    BY <1>4, <1>5, <1>6
  <2> HIDE DEF l
  <2>2. At(text, p, l) /\ At(text, p + Len(l), <<DQ>>) BY <2>1, AtGlued
  <2> QED BY <2>1, <2>2 DEF l
<1>8. At(text, p, <<DQ>>) /\ At(text, p + 1, u[n]) BY <1>4, <1>7, AtGlued
<1>9. Between(a[p + 1], ws, <<>>, DQ, TRUE, 0)
  <2>1. p + 1 \in 1..Len(text) /\ text[p + 1] = DQ BY <1>8 DEF At
  <2>2. a[p + 1] = WordStep(text, p + 1, a[(p + 1) - 1]) /\ (p + 1) - 1 = p BY <2>1 DEF WordRun
  <2>3. 0 \in {0, DQ} /\ DQ - 0 = DQ BY DEF DQ
  <2>4. Between(WordStep(text, p + 1, a[p]), ws, <<>>, DQ - 0, TRUE, 0) BY <2>1, <2>3, ToggleScanned
  <2> QED BY <2>2, <2>3, <2>4
<1>10. \A k \in Nat : k <= n => Between(a[(p + 1) + Len(u[k])], ws, SubSeq(w, 1, k), DQ, TRUE, 0)
  <2> DEFINE S == {k \in Nat : k <= n => Between(a[(p + 1) + Len(u[k])], ws, SubSeq(w, 1, k), DQ, TRUE, 0)}
  <2>1. 0 \in S
    <3>1. SubSeq(w, 1, 0) = <<>> /\ Len(u[0]) = 0 /\ (p + 1) + 0 = p + 1 BY <1>u
    <3> QED BY <3>1, <1>9
  <2>2. ASSUME NEW m \in Nat \ {0}, m - 1 \in S PROVE m \in S
    <3> SUFFICES ASSUME m <= n PROVE Between(a[(p + 1) + Len(u[m])], ws, SubSeq(w, 1, m), DQ, TRUE, 0)
        OBVIOUS
    <3>1. m \in 1..n /\ m - 1 \in 0..n BY <1>0
    <3> DEFINE q == (p + 1) + Len(u[m - 1]) v == SubSeq(w, 1, m - 1) b == w[m]
    <3>2. Between(a[q], ws, v, DQ, TRUE, 0)
      <4>1. m - 1 <= n BY <3>1, <1>0
      <4> QED BY <2>2, <4>1
    <3>3. v \in Seq(Nat) /\ b \in 1..255 /\ SubSeq(w, 1, m) = Append(v, b)
      <4>1. m \in 1..Len(w) BY <3>1 DEF n
      <4>2. b \in 1..255 BY <3>1, <1>0
      <4>3. v \in Seq(1..255) /\ SubSeq(w, 1, m) = Append(v, b) BY <4>1, PrefixGrows
      <4>4. 1..255 \subseteq Nat OBVIOUS
      <4> HIDE DEF v
      <4>5. v \in Seq(Nat) BY <4>3, <4>4, SeqMonotonic
      <4> QED BY <4>2, <4>3, <4>5
    <3>4. q \in Nat /\ Len(QuoteByte(b)) \in Nat /\ (p + 1) + Len(u[m]) = q + Len(QuoteByte(b))
      <4>1. u[m - 1] \in Seq(Printable) /\ part[m] = QuoteByte(b) /\ part[m] \in Seq(Printable)
        BY <3>1, <1>0, <1>u, <1>2 DEF PartsIn
      <4>2. Len(u[m]) = Len(u[m - 1]) + Len(QuoteByte(b)) BY <3>1, <1>u, <4>1
      <4> DEFINE x == Len(u[m - 1]) y == Len(QuoteByte(b))
      <4>3. x \in Nat /\ y \in Nat BY <4>1, LenProperties
      <4>4. Len(u[m]) = x + y /\ q = (p + 1) + x BY <4>2
      <4> HIDE DEF b, x, y, q
      <4>5. q \in Nat /\ (p + 1) + Len(u[m]) = q + y BY <4>3, <4>4
      <4> QED BY <4>3, <4>5 DEF y
    <3>5. At(text, q, QuoteByte(b))
      <4>1. part[m] = QuoteByte(b) BY <3>1, <1>0
      <4>2. p + 1 \in Nat OBVIOUS
      <4>3. At(text, (p + 1) + Len(u[m - 1]), part[m]) BY <1>0, <1>2, <1>3, <1>8, <3>1, <4>2, AtPart
      <4> QED BY <4>1, <4>3
    <3> HIDE DEF q, v, b
    <3>6. Between(a[q + Len(QuoteByte(b))], ws, Append(v, b), DQ, TRUE, 0)
      BY <3>2, <3>3, <3>4, <3>5, ByteScanned
    <3> QED BY <3>3, <3>4, <3>6
  <2>3. Nat \subseteq S
    <3> HIDE DEF S
    <3> QED BY <2>1, <2>2, UpToAll
  <2> QED BY <2>3
<1>11. Between(a[(p + 1) + Len(u[n])], ws, w, DQ, TRUE, 0)
  <2>1. SubSeq(w, 1, n) = w BY DEF n
  <2>2. n <= n BY <1>0
  <2> QED BY <2>1, <2>2, <1>0, <1>10
<1>12. Between(a[p + Len(Quoted(w))], ws, w, 0, TRUE, 0)
  <2> DEFINE q == (p + 1) + Len(u[n])
  <2>1. q \in Nat /\ p + (1 + Len(u[n])) = q /\ p + Len(Quoted(w)) = q + 1
    <3> DEFINE x == Len(u[n])
    <3>1. x \in Nat /\ Len(Quoted(w)) = 1 + x + 1 BY <1>6
    <3> HIDE DEF x
    <3>2. (p + 1) + x \in Nat /\ p + (1 + x) = (p + 1) + x /\ p + (1 + x + 1) = ((p + 1) + x) + 1 BY <3>1
    <3> QED BY <3>1, <3>2 DEF x
  <2>2. At(text, q, <<DQ>>) BY <1>7, <2>1
  <2>3. Between(a[q], ws, w, DQ, TRUE, 0) BY <1>11
  <2> HIDE DEF q
  <2>4. q + 1 \in 1..Len(text) /\ text[q + 1] = DQ BY <1>4, <2>2 DEF At
  <2>5. a[q + 1] = WordStep(text, q + 1, a[(q + 1) - 1]) /\ (q + 1) - 1 = q BY <2>1, <2>4 DEF WordRun
  <2>6. DQ \in {0, DQ} /\ DQ - DQ = 0 BY DEF DQ
  <2>7. Between(WordStep(text, q + 1, a[q]), ws, w, DQ - DQ, TRUE, 0) BY <2>3, <2>4, <2>6, ToggleScanned
  <2> QED BY <2>1, <2>5, <2>6, <2>7
<1> QED BY <1>12

LEMMA QuotedTyped == ASSUME NEW w \in Seq(1..255) PROVE Quoted(w) \in Seq(Printable)
<1> DEFINE n == Len(w) part == RequotedBytes(w)
<1>1. n \in Nat /\ \A k \in 1..n : w[k] \in 1..255 BY ElementOfSeq, LenProperties
<1>2. PICK u : Prefixes(u, n, part) /\ Requoted(w) = u[n] BY <1>1, RequotedParts
<1>3. PartsIn(part, n, Printable) BY <1>1, QuoteByteTyped DEF PartsIn, RequotedBytes
<1> HIDE DEF n, part
<1>4. Concatenates(u, n, part, Printable) BY <1>1, <1>2, <1>3, Concatenation
<1>5. Requoted(w) \in Seq(Printable) /\ <<DQ>> \in Seq(Printable)
  BY <1>1, <1>2, <1>4 DEF Concatenates, DQ, Printable
<1>6. <<DQ>> \o Requoted(w) \in Seq(Printable) BY <1>5, Glued
<1> QED BY <1>5, <1>6, Glued DEF Quoted

NameBytes == Letter \cup Digits \cup {45, Underscore}

LEMMA NameByteScanned ==
    ASSUME NEW text, NEW i \in 1..Len(text), text[i] \in NameBytes, NEW ws, NEW v, NEW st, NEW s,
           Between(s, ws, v, 0, st, 0)
    PROVE  Between(WordStep(text, i, s), ws, Append(v, text[i]), 0, TRUE, 0)
<1> DEFINE c == text[i]
<1>1. c \in NameBytes OBVIOUS
<1>2. s.ok /\ ~s.end /\ ~(s.skip > 0) /\ s.quote = 0 BY DEF Between
<1> HIDE DEF c
<1>3. c \notin Blanks /\ c # Hash /\ ~IsSequenceInvalid(c) /\ c # Semi /\ c # SQ /\ c # DQ
      /\ c # Backslash /\ c # 0 /\ c # Dollar /\ c # Tilde
  BY <1>1 DEF NameBytes, Letter, Digits, Underscore, Blanks, Space, Tab, Hash, IsSequenceInvalid, LBrace,
     RBrace, LF, Semi, SQ, DQ, Backslash, Dollar, Tilde
<1>4. ~IsComment(c, s.quote, s.started) /\ ~Toggles(c, s.quote) /\ ~CanEscape(c, s.quote)
  BY <1>3 DEF IsComment, Toggles, CanEscape
<1>5. ~RefusedWordByte(text, i, s) BY <1>3 DEF RefusedWordByte, c
<1>6. WordStep(text, i, s) = [s EXCEPT !.word = Append(s.word, c), !.started = TRUE, !.fresh = FALSE]
  BY <1>2, <1>3, <1>4, <1>5 DEF WordStep, c
<1> QED BY <1>6 DEF Between, Fields, c

LEMMA SpaceScanned ==
    ASSUME NEW text, NEW i \in 1..Len(text), text[i] = Space, NEW ws, NEW v, NEW s,
           Between(s, ws, v, 0, TRUE, 0)
    PROVE  Between(WordStep(text, i, s), Append(ws, v), <<>>, 0, FALSE, 0)
<1>1. s.ok /\ ~s.end /\ ~(s.skip > 0) /\ s.quote = 0 /\ text[i] \in Blanks BY DEF Between, Blanks
<1>2. WordStep(text, i, s) = [FlushWord(s) EXCEPT !.fresh = TRUE] BY <1>1 DEF WordStep
<1>3. FlushWord(s) = [s EXCEPT !.words = Append(s.words, s.word), !.word = <<>>, !.started = FALSE]
  BY DEF FlushWord, Between
<1> QED BY <1>2, <1>3 DEF Between, Fields

LEMMA NameScanned ==
    ASSUME NEW text, NEW a, WordRun(a, text), NEW name \in Seq(Nat), name # <<>>,
           \A i \in 1..Len(name) : name[i] \in NameBytes,
           At(text, 0, name), Between(a[0], <<>>, <<>>, 0, FALSE, 0)
    PROVE  Between(a[Len(name)], <<>>, name, 0, TRUE, 0)
<1>0. Len(name) \in Nat \ {0} BY EmptySeq
<1> DEFINE S == {k \in Nat : k <= Len(name) => Between(a[k], <<>>, SubSeq(name, 1, k), 0, k # 0, 0)}
<1>1. 0 \in S
  <2>1. SubSeq(name, 1, 0) = <<>> BY SubSeqEmpty
  <2>2. (0 # 0) = FALSE OBVIOUS
  <2> QED BY <2>1, <2>2
<1>2. ASSUME NEW m \in Nat \ {0}, m - 1 \in S PROVE m \in S
  <2> SUFFICES ASSUME m <= Len(name) PROVE Between(a[m], <<>>, SubSeq(name, 1, m), 0, m # 0, 0)
      OBVIOUS
  <2>1. m \in 1..Len(name) /\ m - 1 <= Len(name) /\ m - 1 \in Nat BY <1>0
  <2>2. Between(a[m - 1], <<>>, SubSeq(name, 1, m - 1), 0, m - 1 # 0, 0) BY <1>2, <2>1
  <2>3. 0 + m \in 1..Len(text) /\ text[0 + m] = name[m] /\ 0 + m = m BY <2>1 DEF At
  <2>4. a[m] = WordStep(text, m, a[m - 1]) BY <2>3 DEF WordRun
  <2>5. Between(a[m], <<>>, Append(SubSeq(name, 1, m - 1), name[m]), 0, TRUE, 0)
    <3>1. text[m] \in NameBytes /\ m \in 1..Len(text) BY <2>1, <2>3
    <3>2. Between(WordStep(text, m, a[m - 1]), <<>>, Append(SubSeq(name, 1, m - 1), text[m]), 0, TRUE, 0)
      BY <2>2, <3>1, NameByteScanned
    <3> QED BY <2>3, <2>4, <3>2
  <2>6. SubSeq(name, 1, m) = Append(SubSeq(name, 1, m - 1), name[m]) BY <2>1, PrefixGrows
  <2>7. (m # 0) = TRUE OBVIOUS
  <2> QED BY <2>5, <2>6, <2>7
<1>3. Nat \subseteq S
  <2> HIDE DEF S
  <2> QED BY <1>1, <1>2, UpToAll
<1>4. Between(a[Len(name)], <<>>, SubSeq(name, 1, Len(name)), 0, Len(name) # 0, 0)
  <2>1. Len(name) <= Len(name) BY <1>0
  <2> QED BY <1>0, <1>3, <2>1
<1>5. SubSeq(name, 1, Len(name)) = name BY SubSeqFull
<1>6. (Len(name) # 0) = TRUE BY <1>0
<1> QED BY <1>4, <1>5, <1>6

SpacedArgs(words) == [k \in 1..Len(words) - 1 |-> SpacedArg(words[k + 1])]

\* The words of a command of which the first can name one, in bytes that a text may hold.
Command(words) == words \in Seq(Seq(1..255)) /\ words # <<>> /\ ValidCommand(words[1])

LEMMA CommandWords ==
    ASSUME NEW words, Command(words)
    PROVE  /\ Len(words) \in Nat \ {0}
           /\ \A k \in 1..Len(words) : words[k] \in Seq(1..255)
           /\ words[1] \in Seq(Printable) /\ words[1] # <<>>
           /\ \A i \in 1..Len(words[1]) : words[1][i] \in NameBytes
<1>1. Len(words) \in Nat \ {0} BY EmptySeq DEF Command
<1>2. \A k \in 1..Len(words) : words[k] \in Seq(1..255) BY ElementOfSeq DEF Command
<1>3. words[1] \in Seq(1..255) BY <1>1, <1>2
<1>4. words[1] # <<>> /\ \A i \in DOMAIN words[1] : words[1][i] \in NameBytes
  BY DEF Command, ValidCommand, NameBytes
<1>5. DOMAIN words[1] = 1..Len(words[1]) BY <1>3
<1>6. NameBytes \subseteq Printable BY DEF NameBytes, Letter, Digits, Underscore, Printable
<1>7. words[1] \in Seq(Printable)
  <2> DEFINE w == words[1]
  <2>1. w \in Seq(1..255) /\ \A i \in 1..Len(w) : w[i] \in Printable BY <1>3, <1>4, <1>5, <1>6
  <2> HIDE DEF w
  <2>2. w \in Seq(Printable) BY <2>1
  <2> QED BY <2>2 DEF w
<1> QED BY <1>1, <1>2, <1>4, <1>5, <1>7

LEMMA WordsTextParts ==
    ASSUME NEW words, Command(words)
    PROVE  \E u : /\ WordsText(words) = words[1] \o u[Len(words) - 1]
                  /\ PartsIn(SpacedArgs(words), Len(words) - 1, Printable)
                  /\ Concatenates(u, Len(words) - 1, SpacedArgs(words), Printable)
<1> DEFINE n == Len(words) - 1 part == SpacedArgs(words) args == Tail(words)
           F(u) == [i \in 0..n |-> IF i = 0 THEN <<>> ELSE u[i - 1] \o SpacedArg(args[i])]
           v == CHOOSE u : u = F(u)
<1>0. n \in Nat /\ Len(args) = n /\ \A k \in 1..n : args[k] = words[k + 1] /\ words[k + 1] \in Seq(1..255)
  <2>1. words \in Seq(Seq(1..255)) /\ words # <<>> /\ Len(words) \in Nat \ {0} BY CommandWords DEF Command
  <2>2. Len(Tail(words)) = Len(words) - 1 BY <2>1
  <2>3. \A k \in 1..Len(words) - 1 : Tail(words)[k] = words[k + 1] BY <2>1
  <2>4. \A k \in 1..Len(words) - 1 : k + 1 \in 1..Len(words) BY <2>1
  <2> QED BY <2>1, <2>2, <2>3, <2>4, CommandWords
<1>1. \A u : F(u) = [i \in 0..n |-> IF i = 0 THEN <<>> ELSE u[i - 1] \o part[i]]
  BY <1>0 DEF SpacedArgs
<1>2. WordsText(words) = words[1] \o v[n] BY <1>0 DEF WordsText, Join
<1>3. \E u : Prefixes(u, n, part)
  <2> HIDE DEF part, n
  <2> QED BY <1>0, PrefixesExist
<1>4. PartsIn(part, n, Printable)
  <2>1. ASSUME NEW k \in 1..n PROVE SpacedArg(words[k + 1]) \in Seq(Printable)
    <3>1. Quoted(words[k + 1]) \in Seq(Printable) BY <1>0, QuotedTyped
    <3>2. <<Space>> \in Seq(Printable) BY DEF Space, Printable
    <3> QED BY <3>1, <3>2, Glued DEF SpacedArg
  <2> QED BY <2>1 DEF PartsIn, SpacedArgs
<1> HIDE DEF part, F, n
<1>5. v = F(v) BY <1>1, <1>3 DEF Prefixes
<1> HIDE DEF v
<1>6. Prefixes(v, n, part) BY <1>1, <1>5 DEF Prefixes
<1>7. Concatenates(v, n, part, Printable) BY <1>0, <1>4, <1>6, Concatenation
<1> QED BY <1>2, <1>4, <1>7 DEF part, n

\* The whole of a text is where it is.
LEMMA AtSelf == ASSUME NEW X, NEW text \in Seq(X) PROVE At(text, 0, text)
<1>1. \A j \in 1..Len(text) : 0 + j = j BY LenProperties
<1> QED BY <1>1 DEF At

LEMMA ArgScanned ==
    ASSUME NEW text \in Seq(Nat), NEW a, WordRun(a, text), NEW p \in Nat, NEW w \in Seq(1..255),
           At(text, p, SpacedArg(w)), NEW ws, NEW v, Between(a[p], ws, v, 0, TRUE, 0)
    PROVE  Between(a[p + Len(SpacedArg(w))], Append(ws, v), w, 0, TRUE, 0)
<1> DEFINE q == Quoted(w)
<1>1. q \in Seq(Printable) /\ <<Space>> \in Seq(Printable) BY QuotedTyped DEF Space, Printable
<1>2. SpacedArg(w) = <<Space>> \o q BY DEF SpacedArg
<1> HIDE DEF q
<1>3. Len(SpacedArg(w)) = 1 + Len(q) /\ Len(q) \in Nat /\ At(text, p, <<Space>>) /\ At(text, p + 1, q)
  <2>1. Len(<<Space>>) = 1 OBVIOUS
  <2>2. At(text, p, <<Space>>) /\ At(text, p + Len(<<Space>>), q) BY <1>1, <1>2, AtGlued
  <2>3. Len(<<Space>> \o q) = Len(<<Space>>) + Len(q) /\ Len(q) \in Nat BY <1>1, Glued
  <2> QED BY <1>2, <2>1, <2>2, <2>3
<1>4. p + 1 \in 1..Len(text) /\ text[p + 1] = Space BY <1>3 DEF At
<1>5. a[p + 1] = WordStep(text, p + 1, a[(p + 1) - 1]) /\ (p + 1) - 1 = p BY <1>4 DEF WordRun
<1>6. Between(a[p + 1], Append(ws, v), <<>>, 0, FALSE, 0) BY <1>4, <1>5, SpaceScanned
<1>7. Between(a[(p + 1) + Len(q)], Append(ws, v), w, 0, TRUE, 0)
  <2>1. p + 1 \in Nat OBVIOUS
  <2> QED BY <2>1, <1>3, <1>6, QuotedScanned DEF q
<1>8. p + Len(SpacedArg(w)) = (p + 1) + Len(q)
  <2> DEFINE l == Len(q)
  <2>1. l \in Nat /\ Len(SpacedArg(w)) = 1 + l BY <1>3
  <2> HIDE DEF l
  <2>2. p + (1 + l) = (p + 1) + l BY <2>1
  <2> QED BY <2>1, <2>2 DEF l
<1> QED BY <1>7, <1>8

\* What is written as the text of a command is parsed as its words, whatever bytes they hold
\* (writeNode and QuoteWriter against ParseWords).
LEMMA WordsParsed ==
    ASSUME NEW words, Command(words)
    PROVE  ParseWords(WordsText(words)) = Accepted(words) /\ WordsText(words) \in Seq(Printable)
<1> DEFINE text == WordsText(words) n == Len(words) - 1 part == SpacedArgs(words) name == words[1]
           l == Len(name)
<1>1. PICK u : text = name \o u[n] /\ PartsIn(part, n, Printable) /\ Concatenates(u, n, part, Printable)
  BY WordsTextParts
<1>2. n \in Nat /\ Len(words) = n + 1 BY CommandWords
<1>3. name \in Seq(Printable) /\ name # <<>> /\ \A i \in 1..l : name[i] \in NameBytes BY CommandWords
<1>4. \A k \in 1..n : part[k] = SpacedArg(words[k + 1]) /\ words[k + 1] \in Seq(1..255)
  <2>1. \A k \in 1..n : k + 1 \in 1..Len(words) BY <1>2
  <2> QED BY <2>1, CommandWords DEF SpacedArgs
<1> HIDE DEF text, part, name, n
<1>5. u[0] = <<>> /\ u[n] \in Seq(Printable) BY <1>1, <1>2 DEF Concatenates
<1>6. text \in Seq(Printable) /\ l \in Nat /\ Len(text) = l + Len(u[n]) /\ Len(u[n]) \in Nat
  BY <1>1, <1>3, <1>5, Glued
<1>7. text \in Seq(Nat) /\ name \in Seq(Nat)
  <2>1. Printable \subseteq Nat BY DEF Printable
  <2> QED BY <2>1, <1>3, <1>6, SeqMonotonic
<1>8. PICK a : /\ a[0] = NoWords
               /\ \A i \in 1..Len(text) : a[i] = WordStep(text, i, a[i - 1])
               /\ ParseWords(text) = WordsAfter(a[Len(text)])
  <2>1. Len(text) \in Nat BY <1>6, LenProperties
  <2> QED BY <2>1, WordsScanned
<1>9. WordRun(a, text) BY <1>8 DEF WordRun
<1>10. At(text, 0, name) /\ At(text, l, u[n])
  <2>1. At(text, 0, name \o u[n]) BY <1>1, <1>6, AtSelf
  <2>2. 0 \in Nat /\ 0 + l = l BY <1>6
  <2>3. At(text, 0, name) /\ At(text, 0 + l, u[n]) BY <2>1, <2>2, <1>3, <1>5, AtGlued
  <2> QED BY <2>2, <2>3
<1>11. Between(a[l], <<>>, name, 0, TRUE, 0)
  <2>1. Between(a[0], <<>>, <<>>, 0, FALSE, 0) BY <1>8 DEF Between, Fields, NoWords
  <2> QED BY <2>1, <1>3, <1>7, <1>9, <1>10, NameScanned
<1>12. \A k \in Nat : k <= n => Between(a[l + Len(u[k])], SubSeq(words, 1, k), words[k + 1], 0, TRUE, 0)
  <2> DEFINE S == {k \in Nat : k <= n => Between(a[l + Len(u[k])], SubSeq(words, 1, k), words[k + 1], 0, TRUE, 0)}
  <2>1. 0 \in S
    <3>1. Len(u[0]) = 0 /\ l + 0 = l /\ 0 + 1 = 1 BY <1>5, <1>6
    <3>2. SubSeq(words, 1, 0) = <<>> BY SubSeqEmpty
    <3> QED BY <1>11, <3>1, <3>2 DEF name
  <2>2. ASSUME NEW m \in Nat \ {0}, m - 1 \in S PROVE m \in S
    <3> SUFFICES ASSUME m <= n
                 PROVE  Between(a[l + Len(u[m])], SubSeq(words, 1, m), words[m + 1], 0, TRUE, 0)
        OBVIOUS
    <3>1. m \in 1..n /\ m - 1 \in 0..n /\ m - 1 <= n /\ (m - 1) + 1 = m BY <1>2
    <3> DEFINE q == l + Len(u[m - 1]) w == words[m + 1]
    <3>2. Between(a[q], SubSeq(words, 1, m - 1), words[m], 0, TRUE, 0) BY <2>2, <3>1
    <3>3. u[m - 1] \in Seq(Printable) /\ part[m] \in Seq(Printable) /\ part[m] = SpacedArg(w)
          /\ Len(u[m]) = Len(u[m - 1]) + Len(part[m])
      BY <1>1, <1>4, <3>1 DEF Concatenates, PartsIn
    <3>4. q \in Nat /\ l + Len(u[m]) = q + Len(SpacedArg(w))
      <4> DEFINE x == Len(u[m - 1]) y == Len(SpacedArg(w))
      <4>1. x \in Nat /\ y \in Nat /\ Len(u[m]) = x + y BY <3>3, LenProperties
      <4> HIDE DEF x, y, l
      <4>2. l + (x + y) = (l + x) + y /\ l + x \in Nat BY <1>6, <4>1
      <4> QED BY <4>1, <4>2 DEF x, y
    <3>5. At(text, q, SpacedArg(w))
      <4>1. l \in Nat BY <1>6
      <4>2. At(text, l + Len(u[m - 1]), part[m]) BY <1>1, <1>2, <1>10, <3>1, <4>1, AtPart
      <4> QED BY <3>3, <4>2
    <3>6. w \in Seq(1..255) BY <1>4, <3>1
    <3> HIDE DEF q, w, l
    <3>7. Between(a[q + Len(SpacedArg(w))], Append(SubSeq(words, 1, m - 1), words[m]), w, 0, TRUE, 0)
      BY <1>7, <1>9, <3>2, <3>4, <3>5, <3>6, ArgScanned
    <3>8. SubSeq(words, 1, m) = Append(SubSeq(words, 1, m - 1), words[m])
      <4>1. m \in 1..Len(words) BY <1>2, <3>1
      <4> QED BY <4>1, PrefixGrows DEF Command
    <3> QED BY <3>4, <3>7, <3>8 DEF w
  <2>3. Nat \subseteq S
    <3> HIDE DEF S
    <3> QED BY <2>1, <2>2, UpToAll
  <2> QED BY <2>3
<1>13. Between(a[Len(text)], SubSeq(words, 1, n), words[n + 1], 0, TRUE, 0)
  <2>1. n <= n BY <1>2
  <2> QED BY <1>2, <1>6, <1>12, <2>1
<1>14. ParseWords(text) = Accepted(words)
  <2> DEFINE s == a[Len(text)]
  <2>1. s.ok /\ s.quote = 0 /\ FlushWord(s).words = Append(s.words, s.word)
        /\ s.words = SubSeq(words, 1, n) /\ s.word = words[n + 1]
    BY <1>13 DEF Between, Fields, FlushWord
  <2>2. n + 1 \in 1..Len(words) /\ (n + 1) - 1 = n BY <1>2
  <2>3. SubSeq(words, 1, n + 1) = Append(SubSeq(words, 1, n), words[n + 1])
    <3>1. SubSeq(words, 1, n + 1) = Append(SubSeq(words, 1, (n + 1) - 1), words[n + 1])
      BY <2>2, PrefixGrows DEF Command
    <3> QED BY <2>2, <3>1
  <2>4. SubSeq(words, 1, n + 1) = words BY <1>2, SubSeqFull DEF Command
  <2> HIDE DEF s
  <2>5. WordsAfter(s) = Accepted(words) BY <2>1, <2>3, <2>4 DEF WordsAfter
  <2> QED BY <1>8, <2>5 DEF s
<1> QED BY <1>6, <1>14 DEF text

-----------------------------------------------------------------------------
(* SplitSequence of the text of several commands.                           *)
SplitStart(text) == [ok |-> TRUE, end |-> FALSE, parts |-> <<>>, start |-> 1, cut |-> Len(text),
                     quote |-> 0, started |-> FALSE, skip |-> 0]
Split(text, i, s) == SplitStep(FALSE, text, i, s)
SplitScan(a, n, text) ==
    a = [i \in 0..n |-> IF i = 0 THEN SplitStart(text) ELSE Split(text, i, a[i - 1])]

LEMMA SplitScanExists == ASSUME NEW text, NEW n \in Nat PROVE \E a : SplitScan(a, n, text)
<1> DEFINE S == {k \in Nat : \E a : SplitScan(a, k, text)}
<1>1. 0 \in S
  <2>1. SplitScan([i \in 0..0 |-> SplitStart(text)], 0, text) BY DEF SplitScan
  <2> QED BY <2>1
<1>2. ASSUME NEW m \in Nat \ {0}, m - 1 \in S PROVE m \in S
  <2>1. PICK a : SplitScan(a, m - 1, text) BY <1>2
  <2> DEFINE b == [i \in 0..m |-> IF i = m THEN Split(text, m, a[m - 1]) ELSE a[i]]
  <2>2. \A i \in 0..m : i # 0 /\ i # m => a[i] = Split(text, i, a[i - 1]) BY <2>1 DEF SplitScan
  <2>3. a[0] = SplitStart(text) BY <2>1 DEF SplitScan
  <2>4. \A i \in 0..m : b[i] = IF i = 0 THEN SplitStart(text) ELSE Split(text, i, b[i - 1])
    <3> SUFFICES ASSUME NEW i \in 0..m
                 PROVE  b[i] = IF i = 0 THEN SplitStart(text) ELSE Split(text, i, b[i - 1])
        OBVIOUS
    <3>1. CASE i = 0
      <4>1. i # m BY <3>1
      <4> QED BY <4>1, <3>1, <2>3
    <3>2. CASE i # 0
      <4>1. i - 1 \in 0..m /\ i - 1 # m BY <3>2
      <4>2. b[i - 1] = a[i - 1] BY <4>1
      <4>3. b[i] = Split(text, i, a[i - 1]) BY <2>2, <3>2
      <4> QED BY <4>2, <4>3, <3>2
    <3> QED BY <3>1, <3>2
  <2>5. b = [i \in 0..m |-> b[i]] OBVIOUS
  <2>6. SplitScan(b, m, text)
    <3> HIDE DEF b
    <3> QED BY <2>4, <2>5 DEF SplitScan
  <2> QED BY <2>6
<1>3. Nat \subseteq S
  <2> HIDE DEF S
  <2> QED BY <1>1, <1>2, UpToAll
<1> QED BY <1>3

PartsAfter(text, s) ==
    LET last == TrimBlanks(SubSeq(text, s.start, s.cut)) IN
    IF ~s.ok \/ s.quote # 0 THEN Refused
    ELSE Accepted(IF last = <<>> THEN s.parts ELSE Append(s.parts, last))

SplitRun(a, text) == \A i \in 1..Len(text) : a[i] = Split(text, i, a[i - 1])

LEMMA SequenceScanned ==
    ASSUME NEW text, Len(text) \in Nat
    PROVE  \E a : /\ a[0] = SplitStart(text)
                  /\ SplitRun(a, text)
                  /\ SplitSequence(text) = PartsAfter(text, a[Len(text)])
<1> DEFINE a == CHOOSE a : SplitScan(a, Len(text), text)
<1>1. SplitScan(a, Len(text), text) BY SplitScanExists
<1>2. SplitSequence(text) = PartsAfter(text, a[Len(text)])
  BY DEF SplitSequence, SplitWith, Scan, SplitScan, SplitStart, PartsAfter, Split
<1> HIDE DEF a
<1>3. \A i \in 0..Len(text) : a[i] = IF i = 0 THEN SplitStart(text) ELSE Split(text, i, a[i - 1])
  BY <1>1 DEF SplitScan
<1>4. 0 \in 0..Len(text) /\ \A i \in 1..Len(text) : i \in 0..Len(text) /\ i # 0 OBVIOUS
<1> QED BY <1>2, <1>3, <1>4 DEF SplitRun

SplitFields == {"ok", "end", "parts", "start", "cut", "quote", "started", "skip"}
InPart(s, text, parts, start, quote, started, skip) ==
    /\ DOMAIN s = SplitFields /\ s.ok /\ ~s.end /\ s.cut = Len(text)
    /\ s.parts = parts /\ s.start = start /\ s.quote = quote /\ s.started = started /\ s.skip = skip

\* A byte that is part of a word and toggles nothing.
LEMMA PlainSplit ==
    ASSUME NEW text, NEW i \in 1..Len(text), NEW ps, NEW from, NEW q \in {0, DQ}, NEW st, NEW s,
           InPart(s, text, ps, from, q, st, 0),
           \/ q = 0 /\ text[i] \in NameBytes
           \/ q = DQ /\ SafeQuoteByte(text[i])
    PROVE  InPart(Split(text, i, s), text, ps, from, q, TRUE, 0)
<1> DEFINE c == text[i]
<1>1. s.ok /\ ~s.end /\ ~(s.skip > 0) /\ s.quote = q BY DEF InPart
<1>2. c \in NameBytes => c \notin Blanks /\ c # Hash /\ ~IsSequenceInvalid(c) /\ c # Semi /\ c # SQ /\ c # DQ
                          /\ c # Backslash
  <2> HIDE DEF c
  <2> QED BY DEF NameBytes, Letter, Digits, Underscore, Blanks, Space, Tab, Hash, IsSequenceInvalid, LBrace,
             RBrace, LF, Semi, SQ, DQ, Backslash
<1>3. SafeQuoteByte(c) => c # DQ /\ c # Backslash BY DEF SafeQuoteByte
<1>4. q # SQ /\ DQ # 0 BY DEF SQ, DQ
<1>5. ~IsComment(c, q, s.started) /\ ~CanEscape(c, q) BY <1>2, <1>3, <1>4 DEF IsComment, CanEscape
<1>6. ~(q = 0 /\ IsSequenceInvalid(c)) /\ ~(q = 0 /\ c = Semi) BY <1>2, <1>4
<1>7. Toggled(c, q) = q BY <1>2, <1>3, <1>4 DEF Toggled, Toggles
<1>8. WordStarted(q, c) = TRUE BY <1>2, <1>4 DEF WordStarted
<1> HIDE DEF c
<1>9. Split(text, i, s) = [s EXCEPT !.quote = Toggled(c, s.quote), !.started = WordStarted(Toggled(c, s.quote), c)]
  BY <1>1, <1>5, <1>6 DEF Split, SplitStep, c
<1> QED BY <1>1, <1>7, <1>8, <1>9 DEF InPart, SplitFields

LEMMA SpaceSplit ==
    ASSUME NEW text, NEW i \in 1..Len(text), text[i] = Space, NEW ps, NEW from, NEW st, NEW s,
           InPart(s, text, ps, from, 0, st, 0)
    PROVE  InPart(Split(text, i, s), text, ps, from, 0, FALSE, 0)
<1> DEFINE c == text[i]
<1>1. s.ok /\ ~s.end /\ ~(s.skip > 0) /\ s.quote = 0 BY DEF InPart
<1>2. c \in Blanks /\ c # Hash /\ ~IsSequenceInvalid(c) /\ c # Semi /\ c # SQ /\ c # DQ /\ c # Backslash
  BY DEF Blanks, Space, Tab, Hash, IsSequenceInvalid, LBrace, RBrace, LF, Semi, SQ, DQ, Backslash
<1>3. ~IsComment(c, 0, s.started) /\ ~CanEscape(c, 0) BY <1>2 DEF IsComment, CanEscape
<1>4. Toggled(c, 0) = 0 BY <1>2 DEF Toggled, Toggles
<1>5. WordStarted(0, c) = FALSE BY <1>2 DEF WordStarted
<1> HIDE DEF c
<1>6. Split(text, i, s) = [s EXCEPT !.quote = Toggled(c, s.quote), !.started = WordStarted(Toggled(c, s.quote), c)]
  BY <1>1, <1>2, <1>3 DEF Split, SplitStep, c
<1> QED BY <1>1, <1>4, <1>5, <1>6 DEF InPart, SplitFields

LEMMA ToggleSplit ==
    ASSUME NEW text, NEW i \in 1..Len(text), text[i] = DQ, NEW ps, NEW from, NEW q \in {0, DQ}, NEW st,
           NEW s, InPart(s, text, ps, from, q, st, 0)
    PROVE  InPart(Split(text, i, s), text, ps, from, DQ - q, TRUE, 0)
<1> DEFINE c == text[i]
<1>1. s.ok /\ ~s.end /\ ~(s.skip > 0) /\ s.quote = q BY DEF InPart
<1>2. c \notin Blanks /\ c # Hash /\ ~IsSequenceInvalid(c) /\ c # Semi /\ c # Backslash
  BY DEF Blanks, Space, Tab, Hash, IsSequenceInvalid, LBrace, RBrace, LF, Semi, DQ, Backslash
<1>3. ~IsComment(c, q, s.started) /\ ~CanEscape(c, q) BY <1>2 DEF IsComment, CanEscape
<1>4. Toggled(c, q) = DQ - q BY DEF Toggled, Toggles, DQ, SQ
<1>5. WordStarted(DQ - q, c) = TRUE BY <1>2 DEF WordStarted
<1> HIDE DEF c
<1>6. Split(text, i, s) = [s EXCEPT !.quote = Toggled(c, s.quote), !.started = WordStarted(Toggled(c, s.quote), c)]
  BY <1>1, <1>2, <1>3 DEF Split, SplitStep, c
<1> QED BY <1>1, <1>4, <1>5, <1>6 DEF InPart, SplitFields

LEMMA EscapeSplit ==
    ASSUME NEW text, NEW i \in 1..Len(text), text[i] = Backslash, i < Len(text), NEW ps, NEW from, NEW s,
           InPart(s, text, ps, from, DQ, TRUE, 0)
    PROVE  InPart(Split(text, i, s), text, ps, from, DQ, TRUE, 1)
<1> DEFINE c == text[i]
<1>1. s.ok /\ ~s.end /\ ~(s.skip > 0) /\ s.quote = DQ BY DEF InPart
<1>2. DQ # 0 /\ DQ # SQ /\ c = Backslash BY DEF DQ, SQ
<1>3. ~IsComment(c, s.quote, s.started) /\ CanEscape(c, s.quote) BY <1>1, <1>2 DEF IsComment, CanEscape
<1> HIDE DEF c
<1>4. Split(text, i, s) = [s EXCEPT !.ok = i < Len(text), !.skip = 1, !.started = TRUE]
  BY <1>1, <1>2, <1>3 DEF Split, SplitStep, c
<1>5. (i < Len(text)) = TRUE OBVIOUS
<1> QED BY <1>4, <1>5 DEF InPart, SplitFields

LEMMA SkipSplit ==
    ASSUME NEW text, NEW i, NEW ps, NEW from, NEW s, InPart(s, text, ps, from, DQ, TRUE, 1)
    PROVE  InPart(Split(text, i, s), text, ps, from, DQ, TRUE, 0)
<1>1. Split(text, i, s) = [s EXCEPT !.skip = s.skip - 1] BY SMT DEF Split, SplitStep, InPart
<1>2. s.skip - 1 = 0 BY DEF InPart
<1> QED BY <1>1, <1>2 DEF InPart, SplitFields

LEMMA SemiSplit ==
    ASSUME NEW text, NEW i \in 1..Len(text), text[i] = Semi, NEW ps, NEW from, NEW st, NEW s,
           InPart(s, text, ps, from, 0, st, 0), NEW part, part # <<>>,
           TrimBlanks(SubSeq(text, from, i - 1)) = part
    PROVE  InPart(Split(text, i, s), text, Append(ps, part), i + 1, 0, FALSE, 0)
<1> DEFINE c == text[i]
<1>1. s.ok /\ ~s.end /\ ~(s.skip > 0) /\ s.quote = 0 BY DEF InPart
<1>2. c = Semi /\ ~IsComment(c, s.quote, s.started) /\ ~IsSequenceInvalid(c)
  BY DEF IsComment, IsSequenceInvalid, Semi, Hash, LBrace, RBrace, LF
<1> HIDE DEF c
<1>3. TrimBlanks(SubSeq(text, s.start, i - 1)) = part BY DEF InPart
<1>4. Split(text, i, s) =
          [s EXCEPT !.ok = part # <<>>, !.parts = Append(s.parts, part), !.start = i + 0 + 1, !.skip = 0,
                    !.started = FALSE]
  BY <1>1, <1>2, <1>3 DEF Split, SplitStep, c
<1>5. (part # <<>>) = TRUE /\ i + 0 + 1 = i + 1 OBVIOUS
<1> QED BY <1>1, <1>4, <1>5 DEF InPart, SplitFields

LEMMA ByteSplit ==
    ASSUME NEW text \in Seq(Nat), NEW a, SplitRun(a, text), NEW p \in Nat, NEW b \in 1..255,
           At(text, p, QuoteByte(b)), NEW ps, NEW from, InPart(a[p], text, ps, from, DQ, TRUE, 0)
    PROVE  InPart(a[p + Len(QuoteByte(b))], text, ps, from, DQ, TRUE, 0)
<1>0. (p + 1) - 1 = p /\ DQ \in {0, DQ} OBVIOUS
<1>1. CASE SafeQuoteByte(b)
  <2>1. QuoteByte(b) = <<b>> BY <1>1 DEF QuoteByte
  <2>2. p + 1 \in 1..Len(text) /\ text[p + 1] = b BY <2>1 DEF At
  <2>3. a[p + 1] = Split(text, p + 1, a[p]) BY <2>2, <1>0 DEF SplitRun
  <2>4. InPart(Split(text, p + 1, a[p]), text, ps, from, DQ, TRUE, 0) BY <1>0, <1>1, <2>2, PlainSplit
  <2>5. Len(QuoteByte(b)) = 1 BY <2>1
  <2> QED BY <2>3, <2>4, <2>5
<1>2. CASE ~SafeQuoteByte(b)
  <2> DEFINE d1 == 48 + b \div 64 d2 == 48 + ((b \div 8) % 8) d3 == 48 + (b % 8)
  <2>0. {d1, d2, d3} \subseteq Octal BY OctalOf
  <2>1. QuoteByte(b) = <<Backslash, d1, d2, d3>> BY <1>2 DEF QuoteByte
  <2> HIDE DEF d1, d2, d3
  <2>2. \A j \in 1..4 : p + j \in 1..Len(text) /\ text[p + j] = <<Backslash, d1, d2, d3>>[j] BY <2>1 DEF At
  <2>3. p + 1 \in 1..Len(text) /\ text[p + 1] = Backslash BY <2>2
  <2>4. p + 2 \in 1..Len(text) BY <2>2
  <2>5. p + 3 \in 1..Len(text) /\ text[p + 3] = d2 BY <2>2
  <2>6. p + 4 \in 1..Len(text) /\ text[p + 4] = d3 BY <2>2
  <2>7. (p + 2) - 1 = p + 1 /\ (p + 3) - 1 = p + 2 /\ (p + 4) - 1 = p + 3 OBVIOUS
  <2>8. a[p + 1] = Split(text, p + 1, a[p]) /\ a[p + 2] = Split(text, p + 2, a[p + 1])
        /\ a[p + 3] = Split(text, p + 3, a[p + 2]) /\ a[p + 4] = Split(text, p + 4, a[p + 3])
    BY <2>3, <2>4, <2>5, <2>6, <2>7, <1>0 DEF SplitRun
  <2>9. SafeQuoteByte(d2) /\ SafeQuoteByte(d3)
    BY <2>0 DEF Octal, SafeQuoteByte, DQ, Backslash, Dollar, Backtick, Tilde
  <2>10. p + 1 < Len(text) BY <2>4
  <2>11. InPart(a[p + 1], text, ps, from, DQ, TRUE, 1) BY <2>3, <2>8, <2>10, EscapeSplit
  <2>12. InPart(a[p + 2], text, ps, from, DQ, TRUE, 0) BY <2>8, <2>11, SkipSplit
  <2>13. InPart(a[p + 3], text, ps, from, DQ, TRUE, 0) BY <1>0, <2>5, <2>8, <2>9, <2>12, PlainSplit
  <2>14. InPart(a[p + 4], text, ps, from, DQ, TRUE, 0) BY <1>0, <2>6, <2>8, <2>9, <2>13, PlainSplit
  <2>15. Len(QuoteByte(b)) = 4 BY <2>1
  <2> QED BY <2>14, <2>15
<1> QED BY <1>1, <1>2

LEMMA QuotedSplit ==
    ASSUME NEW text \in Seq(Nat), NEW a, SplitRun(a, text), NEW p \in Nat, NEW w \in Seq(1..255),
           At(text, p, Quoted(w)), NEW ps, NEW from, InPart(a[p], text, ps, from, 0, FALSE, 0)
    PROVE  InPart(a[p + Len(Quoted(w))], text, ps, from, 0, TRUE, 0)
<1> DEFINE n == Len(w) part == RequotedBytes(w)
<1>0. n \in Nat /\ \A k \in 1..n : w[k] \in 1..255 /\ part[k] = QuoteByte(w[k])
  BY ElementOfSeq, LenProperties DEF RequotedBytes
<1>1. PICK u : Prefixes(u, n, part) /\ Requoted(w) = u[n] BY <1>0, RequotedParts
<1>2. PartsIn(part, n, Printable) BY <1>0, QuoteByteTyped DEF PartsIn, RequotedBytes
<1> HIDE DEF n, part
<1>3. Concatenates(u, n, part, Printable) BY <1>0, <1>1, <1>2, Concatenation
<1>u. /\ u[0] = <<>>
      /\ \A k \in 0..n : u[k] \in Seq(Printable)
      /\ \A k \in 1..n : Len(u[k]) = Len(u[k - 1]) + Len(part[k])
  BY <1>3 DEF Concatenates
<1>4. u[n] \in Seq(Printable) /\ <<DQ>> \in Seq(Printable) /\ Len(<<DQ>>) = 1
  <2>1. n \in 0..n BY <1>0
  <2> QED BY <1>u, <2>1 DEF DQ, Printable
<1>5. Quoted(w) = (<<DQ>> \o u[n]) \o <<DQ>> BY <1>1 DEF Quoted
<1>6. <<DQ>> \o u[n] \in Seq(Printable) /\ Len(<<DQ>> \o u[n]) = 1 + Len(u[n])
      /\ Len(Quoted(w)) = 1 + Len(u[n]) + 1 /\ Len(u[n]) \in Nat
  BY <1>4, <1>5, Glued
<1>7. At(text, p, <<DQ>> \o u[n]) /\ At(text, p + (1 + Len(u[n])), <<DQ>>)
  <2> DEFINE l == <<DQ>> \o u[n]
  <2>1. l \in Seq(Printable) /\ <<DQ>> \in Seq(Printable) /\ Len(l) = 1 + Len(u[n]) /\ At(text, p, l \o <<DQ>>)
    BY <1>4, <1>5, <1>6
  <2> HIDE DEF l
  <2>2. At(text, p, l) /\ At(text, p + Len(l), <<DQ>>) BY <2>1, AtGlued
  <2> QED BY <2>1, <2>2 DEF l
<1>8. At(text, p, <<DQ>>) /\ At(text, p + 1, u[n]) BY <1>4, <1>7, AtGlued
<1>9. InPart(a[p + 1], text, ps, from, DQ, TRUE, 0)
  <2>1. p + 1 \in 1..Len(text) /\ text[p + 1] = DQ BY <1>8 DEF At
  <2>2. a[p + 1] = Split(text, p + 1, a[(p + 1) - 1]) /\ (p + 1) - 1 = p BY <2>1 DEF SplitRun
  <2>3. 0 \in {0, DQ} /\ DQ - 0 = DQ BY DEF DQ
  <2>4. InPart(Split(text, p + 1, a[p]), text, ps, from, DQ - 0, TRUE, 0) BY <2>1, <2>3, ToggleSplit
  <2> QED BY <2>2, <2>3, <2>4
<1>10. \A k \in Nat : k <= n => InPart(a[(p + 1) + Len(u[k])], text, ps, from, DQ, TRUE, 0)
  <2> DEFINE S == {k \in Nat : k <= n => InPart(a[(p + 1) + Len(u[k])], text, ps, from, DQ, TRUE, 0)}
  <2>1. 0 \in S
    <3>1. Len(u[0]) = 0 /\ (p + 1) + 0 = p + 1 BY <1>u
    <3> QED BY <3>1, <1>9
  <2>2. ASSUME NEW m \in Nat \ {0}, m - 1 \in S PROVE m \in S
    <3> SUFFICES ASSUME m <= n PROVE InPart(a[(p + 1) + Len(u[m])], text, ps, from, DQ, TRUE, 0)
        OBVIOUS
    <3>1. m \in 1..n /\ m - 1 \in 0..n /\ m - 1 <= n BY <1>0
    <3> DEFINE q == (p + 1) + Len(u[m - 1]) b == w[m]
    <3>2. InPart(a[q], text, ps, from, DQ, TRUE, 0) BY <2>2, <3>1
    <3>3. b \in 1..255 /\ part[m] = QuoteByte(b) BY <3>1, <1>0
    <3>4. q \in Nat /\ (p + 1) + Len(u[m]) = q + Len(QuoteByte(b))
      <4>1. u[m - 1] \in Seq(Printable) /\ QuoteByte(b) \in Seq(Printable) BY <3>1, <3>3, <1>u, QuoteByteTyped
      <4>2. Len(u[m]) = Len(u[m - 1]) + Len(QuoteByte(b)) BY <3>1, <3>3, <1>u
      <4> DEFINE x == Len(u[m - 1]) y == Len(QuoteByte(b))
      <4>3. x \in Nat /\ y \in Nat BY <4>1, LenProperties
      <4>4. Len(u[m]) = x + y /\ q = (p + 1) + x BY <4>2
      <4> HIDE DEF b, x, y, q
      <4>5. q \in Nat /\ (p + 1) + Len(u[m]) = q + y BY <4>3, <4>4
      <4> QED BY <4>5 DEF y
    <3>5. At(text, q, QuoteByte(b))
      <4>1. p + 1 \in Nat OBVIOUS
      <4>2. At(text, (p + 1) + Len(u[m - 1]), part[m]) BY <1>0, <1>2, <1>3, <1>8, <3>1, <4>1, AtPart
      <4> QED BY <3>3, <4>2
    <3> HIDE DEF q, b
    <3>6. InPart(a[q + Len(QuoteByte(b))], text, ps, from, DQ, TRUE, 0) BY <3>2, <3>3, <3>4, <3>5, ByteSplit
    <3> QED BY <3>4, <3>6
  <2>3. Nat \subseteq S
    <3> HIDE DEF S
    <3> QED BY <2>1, <2>2, UpToAll
  <2> QED BY <2>3
<1>11. InPart(a[p + Len(Quoted(w))], text, ps, from, 0, TRUE, 0)
  <2> DEFINE q == (p + 1) + Len(u[n])
  <2>1. q \in Nat /\ p + (1 + Len(u[n])) = q /\ p + Len(Quoted(w)) = q + 1
    <3> DEFINE x == Len(u[n])
    <3>1. x \in Nat /\ Len(Quoted(w)) = 1 + x + 1 BY <1>6
    <3> HIDE DEF x
    <3>2. (p + 1) + x \in Nat /\ p + (1 + x) = (p + 1) + x /\ p + (1 + x + 1) = ((p + 1) + x) + 1 BY <3>1
    <3> QED BY <3>1, <3>2 DEF x
  <2>2. At(text, q, <<DQ>>) BY <1>7, <2>1
  <2>3. InPart(a[q], text, ps, from, DQ, TRUE, 0)
    <3>1. n <= n BY <1>0
    <3> QED BY <1>0, <1>10, <3>1
  <2> HIDE DEF q
  <2>4. q + 1 \in 1..Len(text) /\ text[q + 1] = DQ BY <1>4, <2>2 DEF At
  <2>5. a[q + 1] = Split(text, q + 1, a[(q + 1) - 1]) /\ (q + 1) - 1 = q BY <2>1, <2>4 DEF SplitRun
  <2>6. DQ \in {0, DQ} /\ DQ - DQ = 0 BY DEF DQ
  <2>7. InPart(Split(text, q + 1, a[q]), text, ps, from, DQ - DQ, TRUE, 0) BY <2>3, <2>4, <2>6, ToggleSplit
  <2> QED BY <2>1, <2>5, <2>6, <2>7
<1> QED BY <1>11

LEMMA NameSplit ==
    ASSUME NEW text, NEW a, SplitRun(a, text), NEW p \in Nat, NEW name \in Seq(Nat), name # <<>>,
           \A i \in 1..Len(name) : name[i] \in NameBytes, At(text, p, name),
           NEW ps, NEW from, NEW st, InPart(a[p], text, ps, from, 0, st, 0)
    PROVE  InPart(a[p + Len(name)], text, ps, from, 0, TRUE, 0)
<1>0. Len(name) \in Nat \ {0} BY EmptySeq
<1> DEFINE S == {k \in Nat : k <= Len(name) =>
                    \/ k = 0
                    \/ InPart(a[p + k], text, ps, from, 0, TRUE, 0)}
<1>1. 0 \in S OBVIOUS
<1>2. ASSUME NEW m \in Nat \ {0}, m - 1 \in S PROVE m \in S
  <2> SUFFICES ASSUME m <= Len(name) PROVE InPart(a[p + m], text, ps, from, 0, TRUE, 0)
      OBVIOUS
  <2>1. m \in 1..Len(name) /\ m - 1 <= Len(name) /\ p + (m - 1) = (p + m) - 1 BY <1>0
  <2>2. \E t : InPart(a[(p + m) - 1], text, ps, from, 0, t, 0)
    <3>1. CASE m = 1
      <4>1. (p + m) - 1 = p BY <3>1
      <4> QED BY <4>1
    <3>2. CASE m # 1
      <4>1. m - 1 # 0 BY <3>2
      <4> QED BY <4>1, <1>2, <2>1
    <3> QED BY <3>1, <3>2
  <2>3. p + m \in 1..Len(text) /\ text[p + m] \in NameBytes BY <2>1 DEF At
  <2>4. a[p + m] = Split(text, p + m, a[(p + m) - 1]) BY <2>3 DEF SplitRun
  <2>5. 0 \in {0, DQ} OBVIOUS
  <2>6. InPart(Split(text, p + m, a[(p + m) - 1]), text, ps, from, 0, TRUE, 0) BY <2>2, <2>3, <2>5, PlainSplit
  <2> QED BY <2>4, <2>6
<1>3. Nat \subseteq S
  <2> HIDE DEF S
  <2> QED BY <1>1, <1>2, UpToAll
<1>4. Len(name) <= Len(name) BY <1>0
<1> QED BY <1>0, <1>3, <1>4

LEMMA ArgSplit ==
    ASSUME NEW text \in Seq(Nat), NEW a, SplitRun(a, text), NEW p \in Nat, NEW w \in Seq(1..255),
           At(text, p, SpacedArg(w)), NEW ps, NEW from, InPart(a[p], text, ps, from, 0, TRUE, 0)
    PROVE  InPart(a[p + Len(SpacedArg(w))], text, ps, from, 0, TRUE, 0)
<1> DEFINE q == Quoted(w)
<1>1. q \in Seq(Printable) /\ <<Space>> \in Seq(Printable) BY QuotedTyped DEF Space, Printable
<1>2. SpacedArg(w) = <<Space>> \o q BY DEF SpacedArg
<1> HIDE DEF q
<1>3. Len(SpacedArg(w)) = 1 + Len(q) /\ Len(q) \in Nat /\ At(text, p, <<Space>>) /\ At(text, p + 1, q)
  <2>1. Len(<<Space>>) = 1 OBVIOUS
  <2>2. At(text, p, <<Space>>) /\ At(text, p + Len(<<Space>>), q) BY <1>1, <1>2, AtGlued
  <2>3. Len(<<Space>> \o q) = Len(<<Space>>) + Len(q) /\ Len(q) \in Nat BY <1>1, Glued
  <2> QED BY <1>2, <2>1, <2>2, <2>3
<1>4. p + 1 \in 1..Len(text) /\ text[p + 1] = Space BY <1>3 DEF At
<1>5. a[p + 1] = Split(text, p + 1, a[(p + 1) - 1]) /\ (p + 1) - 1 = p BY <1>4 DEF SplitRun
<1>6. InPart(a[p + 1], text, ps, from, 0, FALSE, 0) BY <1>4, <1>5, SpaceSplit
<1>7. InPart(a[(p + 1) + Len(q)], text, ps, from, 0, TRUE, 0)
  <2>1. p + 1 \in Nat OBVIOUS
  <2> QED BY <2>1, <1>3, <1>6, QuotedSplit DEF q
<1>8. p + Len(SpacedArg(w)) = (p + 1) + Len(q)
  <2> DEFINE l == Len(q)
  <2>1. l \in Nat /\ Len(SpacedArg(w)) = 1 + l BY <1>3
  <2> HIDE DEF l
  <2>2. p + (1 + l) = (p + 1) + l BY <2>1
  <2> QED BY <2>1, <2>2 DEF l
<1> QED BY <1>7, <1>8

LEMMA WordsSplit ==
    ASSUME NEW text \in Seq(Nat), NEW a, SplitRun(a, text), NEW p \in Nat, NEW words, Command(words),
           At(text, p, WordsText(words)), NEW ps, NEW from, NEW st, InPart(a[p], text, ps, from, 0, st, 0)
    PROVE  InPart(a[p + Len(WordsText(words))], text, ps, from, 0, TRUE, 0)
<1> DEFINE line == WordsText(words) n == Len(words) - 1 part == SpacedArgs(words) name == words[1]
           l == Len(name)
<1>1. PICK u : line = name \o u[n] /\ PartsIn(part, n, Printable) /\ Concatenates(u, n, part, Printable)
  BY WordsTextParts
<1>2. n \in Nat /\ Len(words) = n + 1 BY CommandWords
<1>3. name \in Seq(Printable) /\ name # <<>> /\ \A i \in 1..l : name[i] \in NameBytes BY CommandWords
<1>4. \A k \in 1..n : part[k] = SpacedArg(words[k + 1]) /\ words[k + 1] \in Seq(1..255)
  <2>1. \A k \in 1..n : k + 1 \in 1..Len(words) BY <1>2
  <2> QED BY <2>1, CommandWords DEF SpacedArgs
<1> HIDE DEF line, part, name, n
<1>5. u[0] = <<>> /\ u[n] \in Seq(Printable) BY <1>1, <1>2 DEF Concatenates
<1>6. l \in Nat /\ Len(line) = l + Len(u[n]) /\ Len(u[n]) \in Nat BY <1>1, <1>3, <1>5, Glued
<1>7. name \in Seq(Nat)
  <2>1. Printable \subseteq Nat BY DEF Printable
  <2> QED BY <2>1, <1>3, SeqMonotonic
<1>8. At(text, p, name) /\ At(text, p + l, u[n])
  <2>1. At(text, p, name \o u[n]) BY <1>1 DEF line
  <2> QED BY <2>1, <1>3, <1>5, AtGlued
<1>9. InPart(a[p + l], text, ps, from, 0, TRUE, 0) BY <1>3, <1>7, <1>8, NameSplit
<1> DEFINE r == p + l
<1>10. r \in Nat BY <1>6
<1>11. At(text, r, u[n]) /\ InPart(a[r], text, ps, from, 0, TRUE, 0) BY <1>8, <1>9
<1>12. p + Len(line) = r + Len(u[n])
  <2> DEFINE x == Len(u[n])
  <2>1. x \in Nat /\ Len(line) = l + x BY <1>6
  <2> HIDE DEF x, l
  <2>2. p + (l + x) = (p + l) + x BY <2>1, <1>6
  <2> QED BY <2>1, <2>2 DEF x
<1> HIDE DEF r, l
<1>13. \A k \in Nat : k <= n => InPart(a[r + Len(u[k])], text, ps, from, 0, TRUE, 0)
  <2> DEFINE S == {k \in Nat : k <= n => InPart(a[r + Len(u[k])], text, ps, from, 0, TRUE, 0)}
  <2>1. 0 \in S
    <3>1. Len(u[0]) = 0 /\ r + 0 = r BY <1>5, <1>10
    <3> QED BY <1>11, <3>1
  <2>2. ASSUME NEW m \in Nat \ {0}, m - 1 \in S PROVE m \in S
    <3> SUFFICES ASSUME m <= n PROVE InPart(a[r + Len(u[m])], text, ps, from, 0, TRUE, 0)
        OBVIOUS
    <3>1. m \in 1..n /\ m - 1 \in 0..n /\ m - 1 <= n BY <1>2
    <3> DEFINE q == r + Len(u[m - 1]) w == words[m + 1]
    <3>2. InPart(a[q], text, ps, from, 0, TRUE, 0) BY <2>2, <3>1
    <3>3. u[m - 1] \in Seq(Printable) /\ part[m] \in Seq(Printable) /\ part[m] = SpacedArg(w)
          /\ Len(u[m]) = Len(u[m - 1]) + Len(part[m])
      BY <1>1, <1>4, <3>1 DEF Concatenates, PartsIn
    <3>4. q \in Nat /\ r + Len(u[m]) = q + Len(SpacedArg(w))
      <4> DEFINE x == Len(u[m - 1]) y == Len(SpacedArg(w))
      <4>1. x \in Nat /\ y \in Nat /\ Len(u[m]) = x + y BY <3>3, LenProperties
      <4> HIDE DEF x, y
      <4>2. r + (x + y) = (r + x) + y /\ r + x \in Nat BY <1>10, <4>1
      <4> QED BY <4>1, <4>2 DEF x, y
    <3>5. At(text, q, SpacedArg(w))
      <4>1. At(text, r + Len(u[m - 1]), part[m]) BY <1>1, <1>2, <1>10, <1>11, <3>1, AtPart
      <4> QED BY <3>3, <4>1
    <3>6. w \in Seq(1..255) BY <1>4, <3>1
    <3> HIDE DEF q, w
    <3>7. InPart(a[q + Len(SpacedArg(w))], text, ps, from, 0, TRUE, 0)
      BY <3>2, <3>4, <3>5, <3>6, ArgSplit
    <3> QED BY <3>4, <3>7
  <2>3. Nat \subseteq S
    <3> HIDE DEF S
    <3> QED BY <2>1, <2>2, UpToAll
  <2> QED BY <2>3
<1>14. InPart(a[r + Len(u[n])], text, ps, from, 0, TRUE, 0)
  <2>1. n <= n BY <1>2
  <2> QED BY <1>2, <1>13, <2>1
<1> QED BY <1>12, <1>14 DEF line

LEMMA LeastIs ==
    ASSUME NEW S \in SUBSET Int, NEW m \in S, \A k \in S : m <= k PROVE Min(S) = m
<1>1. \E x \in S : \A y \in S : x <= y OBVIOUS
<1> DEFINE x == Min(S)
<1>2. x \in S /\ \A y \in S : x <= y BY <1>1 DEF Min
<1> HIDE DEF x
<1>3. x <= m /\ m <= x /\ x \in Int /\ m \in Int BY <1>2
<1> QED BY <1>3 DEF x

LEMMA GreatestIs ==
    ASSUME NEW S \in SUBSET Int, NEW m \in S, \A k \in S : k <= m PROVE Max(S) = m
<1>1. \E x \in S : \A y \in S : x >= y
  <2>1. \A y \in S : m >= y OBVIOUS
  <2> QED BY <2>1
<1> DEFINE x == Max(S)
<1>2. x \in S /\ \A y \in S : x >= y BY <1>1 DEF Max
<1> HIDE DEF x
<1>3. x >= m /\ x <= m /\ x \in Int /\ m \in Int BY <1>2
<1> QED BY <1>3 DEF x

BlankIn(text, lo, hi) == \A i \in lo..hi : text[i] \in Blanks

\* A part that is surrounded by blanks alone is what trimming leaves.
LEMMA Trimmed ==
    ASSUME NEW text \in Seq(Nat), NEW lo \in Nat \ {0}, NEW hi \in Nat, hi <= Len(text),
           NEW t \in Seq(Nat), t # <<>>, t[1] \notin Blanks, t[Len(t)] \notin Blanks,
           NEW q \in Nat, At(text, q, t), lo <= q + 1, q + Len(t) <= hi,
           BlankIn(text, lo, q), BlankIn(text, (q + Len(t)) + 1, hi)
    PROVE  TrimBlanks(SubSeq(text, lo, hi)) = t
<1> DEFINE s == SubSeq(text, lo, hi) n == Len(t) first == q + 2 - lo last == q + n + 1 - lo
           keep == {i \in DOMAIN s : s[i] \notin Blanks}
<1>1. n \in Nat \ {0} /\ Len(text) \in Nat BY EmptySeq, LenProperties
<1>2. s \in Seq(Nat) /\ Len(s) = hi - lo + 1 /\ \A i \in 1..hi - lo + 1 : s[i] = text[lo + i - 1]
  <2>1. lo <= hi BY <1>1
  <2>2. \A i \in lo..hi : i \in 1..Len(text) BY <1>1
  <2>3. \A i \in lo..hi : text[i] \in Nat BY <2>2, ElementOfSeq
  <2>4. lo \in Int /\ hi \in Int OBVIOUS
  <2> HIDE DEF n
  <2>5. /\ SubSeq(text, lo, hi) \in Seq(Nat)
        /\ Len(SubSeq(text, lo, hi)) = IF lo <= hi THEN hi - lo + 1 ELSE 0
        /\ \A i \in 1..hi - lo + 1 : SubSeq(text, lo, hi)[i] = text[lo + i - 1]
    BY <2>3, <2>4, SubSeqProperties
  <2> QED BY <2>1, <2>5
<1>3. DOMAIN s = 1..hi - lo + 1 BY <1>2, LenProperties
<1>4. \A j \in 1..n : q + j \in 1..Len(text) /\ text[q + j] = t[j] BY DEF At
<1>5. text[q + 1] \notin Blanks /\ text[q + n] \notin Blanks
  <2>1. 1 \in 1..n /\ n \in 1..n BY <1>1
  <2>2. text[q + 1] = t[1] /\ text[q + n] = t[n] BY <1>4, <2>1
  <2> QED BY <2>2
<1> HIDE DEF s, n
<1>6. first \in DOMAIN s /\ last \in DOMAIN s /\ first <= last /\ lo + first - 1 = q + 1 /\ lo + last - 1 = q + n
  <2>1. q + n <= hi BY DEF n
  <2> QED BY <1>1, <1>3, <2>1
<1>7. first \in keep /\ last \in keep BY <1>2, <1>3, <1>5, <1>6
<1>8. \A i \in keep : first <= i /\ i <= last
  <2> SUFFICES ASSUME NEW i \in keep PROVE first <= i /\ i <= last OBVIOUS
  <2> DEFINE k == lo + i - 1
  <2>1. i \in 1..hi - lo + 1 /\ text[k] \notin Blanks BY <1>2, <1>3
  <2> DEFINE e == q + n
  <2>2. (\A j \in lo..q : text[j] \in Blanks) /\ \A j \in e + 1..hi : text[j] \in Blanks BY DEF n, BlankIn
  <2>3. ~(k \in lo..q) /\ ~(k \in e + 1..hi)
    <3> HIDE DEF k, e
    <3> QED BY <2>1, <2>2
  <2>4. i \in Int /\ 1 <= i /\ i <= hi - lo + 1 BY <2>1
  <2>5. e \in Int BY <1>1
  <2>6. k \in lo..hi BY <2>4
  <2>7. k <= e /\ q + 1 <= k
    <3> HIDE DEF k, e
    <3>1. k \in Int /\ lo <= k /\ k <= hi BY <2>6
    <3> QED BY <2>3, <2>5, <3>1
  <2>8. lo + i - 1 <= q + n /\ q + 1 <= lo + i - 1 BY <2>7
  <2>9. n \in Nat /\ i \in Int BY <1>1, <2>4
  <2> HIDE DEF k, e, keep
  <2> QED BY <2>8, <2>9
<1>9. keep \in SUBSET Int BY <1>3
<1> HIDE DEF keep
<1>10. Min(keep) = first /\ Max(keep) = last BY <1>7, <1>8, <1>9, LeastIs, GreatestIs
<1>11. TrimBlanks(s) = SubSeq(s, first, last) BY <1>7, <1>10 DEF TrimBlanks, keep
<1> HIDE DEF first, last
<1>12. SubSeq(s, first, last) = t
  <2>1. \A i \in first..last : i \in 1..Len(s)
    <3> DEFINE l == hi - lo + 1
    <3>1. l \in Int /\ Len(s) = l BY <1>2
    <3>2. first \in 1..l /\ last \in 1..l BY <1>3, <1>6
    <3> HIDE DEF l
    <3>3. \A i \in first..last : i \in 1..l BY <3>1, <3>2
    <3> QED BY <3>1, <3>3
  <2>2. \A i \in first..last : s[i] \in Nat BY <1>2, <2>1, ElementOfSeq
  <2>3. first \in Int /\ last \in Int BY <1>3, <1>6
  <2> DEFINE r == SubSeq(s, first, last)
  <2>4. r \in Seq(Nat) /\ Len(r) = last - first + 1 /\ \A i \in 1..last - first + 1 : r[i] = s[first + i - 1]
    <3>1. /\ SubSeq(s, first, last) \in Seq(Nat)
          /\ Len(SubSeq(s, first, last)) = IF first <= last THEN last - first + 1 ELSE 0
          /\ \A i \in 1..last - first + 1 : SubSeq(s, first, last)[i] = s[first + i - 1]
      BY <2>2, <2>3, SubSeqProperties
    <3> QED BY <1>6, <3>1
  <2> HIDE DEF r
  <2>5. last - first + 1 = n BY <1>1 DEF first, last
  <2>6. ASSUME NEW i \in 1..n PROVE r[i] = t[i]
    <3>1. r[i] = s[first + i - 1] BY <2>4, <2>5, <2>6
    <3>2. first + i - 1 \in 1..hi - lo + 1 /\ lo + (first + i - 1) - 1 = q + i
      <4>1. first \in 1..hi - lo + 1 /\ last \in 1..hi - lo + 1 /\ lo + first - 1 = q + 1 BY <1>3, <1>6
      <4>2. i \in Int /\ 1 <= i /\ i <= n /\ n \in Int BY <1>1, <2>6
      <4>3. first + i - 1 <= last BY <2>5, <4>1, <4>2
      <4> QED BY <4>1, <4>2, <4>3
    <3>3. s[first + i - 1] = text[q + i] BY <1>2, <3>2
    <3> QED BY <1>4, <2>6, <3>1, <3>3
  <2>7. r = t BY <2>4, <2>5, <2>6, SeqEqual DEF n
  <2> QED BY <2>7 DEF r
<1> QED BY <1>11, <1>12 DEF s

LEMMA QuotedEnd ==
    ASSUME NEW w \in Seq(1..255)
    PROVE  Quoted(w) \in Seq(Printable) /\ Len(Quoted(w)) \in Nat \ {0} /\ Quoted(w)[Len(Quoted(w))] = DQ
<1> DEFINE r == Requoted(w) l == <<DQ>> \o r
<1>1. Quoted(w) \in Seq(Printable) BY QuotedTyped
<1>2. Quoted(w) = l \o <<DQ>> BY DEF Quoted
<1>3. r \in Seq(Printable)
  <2> DEFINE n == Len(w) part == RequotedBytes(w)
  <2>1. n \in Nat /\ \A k \in 1..n : w[k] \in 1..255 BY ElementOfSeq, LenProperties
  <2>2. PICK u : Prefixes(u, n, part) /\ r = u[n] BY <2>1, RequotedParts
  <2>3. PartsIn(part, n, Printable) BY <2>1, QuoteByteTyped DEF PartsIn, RequotedBytes
  <2> HIDE DEF n, part, r
  <2>4. Concatenates(u, n, part, Printable) BY <2>1, <2>2, <2>3, Concatenation
  <2> QED BY <2>1, <2>2, <2>4 DEF Concatenates
<1> HIDE DEF r
<1>4. <<DQ>> \in Seq(Printable) /\ Len(<<DQ>>) = 1 /\ <<DQ>>[1] = DQ BY DEF DQ, Printable
<1>5. l \in Seq(Printable) BY <1>3, <1>4, Glued
<1> HIDE DEF l
<1>6. Len(l \o <<DQ>>) = Len(l) + 1 /\ Len(l) \in Nat /\ (l \o <<DQ>>)[Len(l) + 1] = DQ
  <2>1. 1 \in 1..Len(<<DQ>>) BY <1>4
  <2> QED BY <2>1, <1>4, <1>5, Glued
<1> QED BY <1>1, <1>2, <1>6

LEMMA WordsEnds ==
    ASSUME NEW words, Command(words)
    PROVE  LET t == WordsText(words) IN
           t \in Seq(Printable) /\ t # <<>> /\ t[1] \notin Blanks /\ t[Len(t)] \notin Blanks
<1> DEFINE t == WordsText(words) n == Len(words) - 1 part == SpacedArgs(words) name == words[1]
           l == Len(name)
<1>1. PICK u : t = name \o u[n] /\ PartsIn(part, n, Printable) /\ Concatenates(u, n, part, Printable)
  BY WordsTextParts
<1>2. n \in Nat /\ Len(words) = n + 1 BY CommandWords
<1>3. name \in Seq(Printable) /\ name # <<>> /\ \A i \in 1..l : name[i] \in NameBytes BY CommandWords
<1>4. n # 0 => part[n] = SpacedArg(words[n + 1]) /\ words[n + 1] \in Seq(1..255)
  <2>1. n # 0 => n \in 1..n /\ n + 1 \in 1..Len(words) BY <1>2
  <2> QED BY <2>1, CommandWords DEF SpacedArgs
<1> HIDE DEF t, part, name, n
<1>5. u[0] = <<>> /\ u[n] \in Seq(Printable) BY <1>1, <1>2 DEF Concatenates
<1>6. t \in Seq(Printable) /\ l \in Nat \ {0} /\ Len(t) = l + Len(u[n]) /\ Len(u[n]) \in Nat
  BY <1>1, <1>3, <1>5, Glued, EmptySeq
<1>7. \A c \in NameBytes : c \notin Blanks
  BY DEF NameBytes, Letter, Digits, Underscore, Blanks, Space, Tab
<1>8. t[1] = name[1] /\ t[l] = name[l]
  <2>1. 1 \in 1..Len(name) /\ l \in 1..Len(name) BY <1>6
  <2>2. \A i \in 1..Len(name) : (name \o u[n])[i] = name[i] BY <1>3, <1>5, Glued
  <2> QED BY <1>1, <2>1, <2>2
<1>9. t # <<>>
  <2>1. Len(t) # 0
    <3> DEFINE x == Len(u[n])
    <3>1. x \in Nat /\ Len(t) = l + x BY <1>6
    <3> HIDE DEF x, l
    <3> QED BY <1>6, <3>1
  <2> QED BY <2>1
<1>10. t[Len(t)] \notin Blanks
  <2>1. CASE n = 0
    <3>1. Len(t) = l BY <1>5, <1>6, <2>1
    <3>2. name[l] \in NameBytes BY <1>3, <1>6
    <3> QED BY <1>7, <1>8, <3>1, <3>2
  <2>2. CASE n # 0
    <3> DEFINE q == Quoted(words[n + 1])
    <3>1. q \in Seq(Printable) /\ Len(q) \in Nat \ {0} /\ q[Len(q)] = DQ BY <1>4, <2>2, QuotedEnd
    <3>2. part[n] = <<Space>> \o q BY <1>4, <2>2 DEF SpacedArg
    <3> HIDE DEF q
    <3>3. <<Space>> \in Seq(Printable) /\ Len(<<Space>>) = 1 BY DEF Space, Printable
    <3>4. Len(part[n]) = 1 + Len(q) /\ part[n][1 + Len(q)] = DQ
      <4>1. Len(q) \in 1..Len(q) BY <3>1
      <4>2. Len(<<Space>> \o q) = Len(<<Space>>) + Len(q) /\ (<<Space>> \o q)[Len(<<Space>>) + Len(q)] = q[Len(q)]
        BY <3>1, <3>3, <4>1, Glued
      <4> QED BY <3>1, <3>2, <3>3, <4>2
    <3>5. n \in 1..n /\ n - 1 \in 0..n BY <1>2, <2>2
    <3>6. u[n - 1] \in Seq(Printable) /\ Len(u[n]) = Len(u[n - 1]) + Len(part[n])
          /\ \A j \in 1..Len(part[n]) : u[n][Len(u[n - 1]) + j] = part[n][j]
      BY <1>1, <3>5 DEF Concatenates
    <3>7. 1 + Len(q) \in 1..Len(part[n]) BY <3>1, <3>4
    <3>8. u[n][Len(u[n - 1]) + (1 + Len(q))] = DQ BY <3>4, <3>6, <3>7
    <3>9. u[n][Len(u[n])] = DQ /\ Len(u[n]) # 0
      <4> DEFINE x == Len(u[n - 1]) y == Len(q)
      <4>1. x \in Nat /\ y \in Nat \ {0} /\ Len(u[n]) = x + (1 + y) /\ u[n][x + (1 + y)] = DQ
        BY <3>1, <3>4, <3>6, <3>8, LenProperties
      <4> HIDE DEF x, y
      <4> QED BY <4>1
    <3>10. Len(u[n]) \in 1..Len(u[n]) BY <1>6, <3>9
    <3>11. (name \o u[n])[Len(name) + Len(u[n])] = u[n][Len(u[n])] BY <1>3, <1>5, <3>10, Glued
    <3>12. t[Len(t)] = DQ BY <1>1, <1>6, <3>9, <3>11
    <3> QED BY <3>12 DEF DQ, Blanks, Space, Tab
  <2> QED BY <2>1, <2>2
<1>11. 1 \in 1..l BY <1>6
<1> QED BY <1>3, <1>6, <1>7, <1>8, <1>9, <1>10, <1>11 DEF t

SeparatedTexts(lists) == [k \in 1..Len(lists) - 1 |-> Separated(lists[k + 1])]
Texts(lists) == [k \in 1..Len(lists) |-> WordsText(lists[k])]

CommandLists(lists) ==
    lists \in Seq(Seq(Seq(1..255))) /\ \A i \in 1..Len(lists) : Command(lists[i])

LEMMA SeparatorIs ==
    Separator \in Seq(Printable) /\ Len(Separator) = 3 /\ Separator[1] = Space /\ Separator[2] = Semi /\ Separator[3] = Space
BY DEF Separator, Space, Semi, Printable

LEMMA TextParts ==
    ASSUME NEW lists, CommandLists(lists), lists # <<>>
    PROVE  \E u : /\ TextOf(lists) = WordsText(lists[1]) \o u[Len(lists) - 1]
                  /\ PartsIn(SeparatedTexts(lists), Len(lists) - 1, Printable)
                  /\ Concatenates(u, Len(lists) - 1, SeparatedTexts(lists), Printable)
<1> DEFINE n == Len(lists) - 1 part == SeparatedTexts(lists) args == Tail(lists)
           F(u) == [i \in 0..n |-> IF i = 0 THEN <<>> ELSE u[i - 1] \o Separated(args[i])]
           v == CHOOSE u : u = F(u)
<1>0. n \in Nat /\ Len(args) = n /\ \A k \in 1..n : args[k] = lists[k + 1] /\ Command(lists[k + 1])
  <2>1. lists \in Seq(Seq(Seq(1..255))) /\ lists # <<>> /\ Len(lists) \in Nat \ {0} BY EmptySeq DEF CommandLists
  <2>2. Len(Tail(lists)) = Len(lists) - 1 BY <2>1
  <2>3. \A k \in 1..Len(lists) - 1 : Tail(lists)[k] = lists[k + 1] BY <2>1
  <2>4. \A k \in 1..Len(lists) - 1 : k + 1 \in 1..Len(lists) BY <2>1
  <2> QED BY <2>1, <2>2, <2>3, <2>4 DEF CommandLists
<1>1. \A u : F(u) = [i \in 0..n |-> IF i = 0 THEN <<>> ELSE u[i - 1] \o part[i]]
  BY <1>0 DEF SeparatedTexts
<1>2. TextOf(lists) = WordsText(lists[1]) \o v[n] BY <1>0 DEF TextOf, Join
<1>3. \E u : Prefixes(u, n, part)
  <2> HIDE DEF part, n
  <2> QED BY <1>0, PrefixesExist
<1>4. PartsIn(part, n, Printable)
  <2>1. ASSUME NEW k \in 1..n PROVE Separated(lists[k + 1]) \in Seq(Printable)
    <3>1. WordsText(lists[k + 1]) \in Seq(Printable) BY <1>0, WordsParsed
    <3> QED BY <3>1, SeparatorIs, Glued DEF Separated
  <2> QED BY <2>1 DEF PartsIn, SeparatedTexts
<1> HIDE DEF part, F, n
<1>5. v = F(v) BY <1>1, <1>3 DEF Prefixes
<1> HIDE DEF v
<1>6. Prefixes(v, n, part) BY <1>1, <1>5 DEF Prefixes
<1>7. Concatenates(v, n, part, Printable) BY <1>0, <1>4, <1>6, Concatenation
<1> QED BY <1>2, <1>4, <1>7 DEF part, n

LEMMA SeparatedSplit ==
    ASSUME NEW text \in Seq(Nat), NEW a, SplitRun(a, text), NEW p \in Nat, NEW words, Command(words),
           At(text, p, Separated(words)), NEW ps, NEW from, InPart(a[p], text, ps, from, 0, TRUE, 0),
           NEW t, t # <<>>, TrimBlanks(SubSeq(text, from, p + 1)) = t
    PROVE  /\ InPart(a[(p + 3) + Len(WordsText(words))], text, Append(ps, t), p + 3, 0, TRUE, 0)
           /\ At(text, p + 3, WordsText(words)) /\ text[p + 3] = Space
<1> DEFINE w == WordsText(words)
<1>1. w \in Seq(Printable) /\ Separated(words) = Separator \o w BY WordsEnds DEF Separated
<1> HIDE DEF w
<1>2. At(text, p, Separator) /\ At(text, p + 3, w) BY <1>1, SeparatorIs, AtGlued
<1>3. \A j \in 1..3 : p + j \in 1..Len(text) /\ text[p + j] = Separator[j] BY <1>2, SeparatorIs DEF At
<1>4. p + 1 \in 1..Len(text) /\ text[p + 1] = Space BY <1>3, SeparatorIs
<1>5. p + 2 \in 1..Len(text) /\ text[p + 2] = Semi BY <1>3, SeparatorIs
<1>6. p + 3 \in 1..Len(text) /\ text[p + 3] = Space BY <1>3, SeparatorIs
<1>7. (p + 1) - 1 = p /\ (p + 2) - 1 = p + 1 /\ (p + 3) - 1 = p + 2 /\ (p + 2) + 1 = p + 3 OBVIOUS
<1>8. a[p + 1] = Split(text, p + 1, a[p]) /\ a[p + 2] = Split(text, p + 2, a[p + 1])
      /\ a[p + 3] = Split(text, p + 3, a[p + 2])
  BY <1>4, <1>5, <1>6, <1>7 DEF SplitRun
<1>9. InPart(a[p + 1], text, ps, from, 0, FALSE, 0) BY <1>4, <1>8, SpaceSplit
<1>10. InPart(a[p + 2], text, Append(ps, t), p + 3, 0, FALSE, 0)
  <2>1. TrimBlanks(SubSeq(text, from, (p + 2) - 1)) = t BY <1>7
  <2>2. InPart(Split(text, p + 2, a[p + 1]), text, Append(ps, t), (p + 2) + 1, 0, FALSE, 0)
    BY <1>5, <1>9, <2>1, SemiSplit
  <2> QED BY <1>7, <1>8, <2>2
<1>11. InPart(a[p + 3], text, Append(ps, t), p + 3, 0, FALSE, 0) BY <1>6, <1>8, <1>10, SpaceSplit
<1>12. p + 3 \in Nat OBVIOUS
<1>13. InPart(a[(p + 3) + Len(w)], text, Append(ps, t), p + 3, 0, TRUE, 0)
  BY <1>2, <1>11, <1>12, WordsSplit DEF w
<1> QED BY <1>2, <1>6, <1>13 DEF w

\* A text of several commands is split into the texts of the commands (writeNodes against
\* splitSequence): a separator inside a quoted word is none.
LEMMA SequenceSplit ==
    ASSUME NEW lists, CommandLists(lists)
    PROVE  SplitSequence(TextOf(lists)) = Accepted(Texts(lists)) /\ TextOf(lists) \in Seq(Printable)
<1>1. CASE lists = <<>>
  <2>1. TextOf(lists) = <<>> BY <1>1 DEF TextOf
  <2>2. Len(<<>>) = 0 /\ 0 \in Nat OBVIOUS
  <2>3. PICK a : a[0] = SplitStart(<<>>) /\ SplitSequence(<<>>) = PartsAfter(<<>>, a[0])
    BY <2>2, SequenceScanned
  <2>4. TrimBlanks(SubSeq(<<>>, 1, 0)) = <<>>
    <3>1. SubSeq(<<>>, 1, 0) = <<>> BY SubSeqEmpty
    <3>2. DOMAIN <<>> = {} OBVIOUS
    <3>3. {i \in DOMAIN <<>> : <<>>[i] \notin Blanks} = {} BY <3>2
    <3> QED BY <3>1, <3>3 DEF TrimBlanks
  <2>5. PartsAfter(<<>>, SplitStart(<<>>)) = Accepted(<<>>) BY <2>2, <2>4 DEF PartsAfter, SplitStart
  <2>6. Texts(lists) = <<>> BY <1>1 DEF Texts
  <2> QED BY <2>1, <2>3, <2>5, <2>6
<1>2. CASE lists # <<>>
  <2> DEFINE text == TextOf(lists) n == Len(lists) - 1 part == SeparatedTexts(lists) w == WordsText(lists[1])
             l == Len(w) texts == Texts(lists)
  <2>1. PICK u : text = w \o u[n] /\ PartsIn(part, n, Printable) /\ Concatenates(u, n, part, Printable)
    BY <1>2, TextParts
  <2>2. n \in Nat /\ Len(lists) = n + 1
    <3>1. Len(lists) \in Nat \ {0} BY <1>2, EmptySeq DEF CommandLists
    <3> QED BY <3>1
  <2>3. \A k \in 1..n + 1 : /\ Command(lists[k]) /\ texts[k] = WordsText(lists[k])
                             /\ texts[k] \in Seq(Printable) /\ texts[k] # <<>>
                             /\ texts[k][1] \notin Blanks /\ texts[k][Len(texts[k])] \notin Blanks
    BY <2>2, WordsEnds DEF CommandLists, Texts
  <2>4. texts \in Seq(Seq(Printable)) /\ Len(texts) = n + 1
    <3>1. \A k \in 1..Len(lists) : WordsText(lists[k]) \in Seq(Printable) BY <2>2, <2>3
    <3> QED BY <2>2, <3>1 DEF Texts
  <2>5. \A k \in 1..n : part[k] = Separated(lists[k + 1]) /\ Command(lists[k + 1])
    <3>1. \A k \in 1..n : k + 1 \in 1..n + 1 BY <2>2
    <3> QED BY <2>3, <3>1 DEF SeparatedTexts
  <2>6. 1 \in 1..n + 1 BY <2>2
  <2>7. w \in Seq(Printable) /\ Command(lists[1]) /\ texts[1] = w BY <2>3, <2>6
  <2> HIDE DEF text, part, n, texts, w
  <2>8. u[0] = <<>> /\ u[n] \in Seq(Printable) BY <2>1, <2>2 DEF Concatenates
  <2>9. text \in Seq(Printable) /\ l \in Nat /\ Len(text) = l + Len(u[n]) /\ Len(u[n]) \in Nat
    BY <2>1, <2>7, <2>8, Glued
  <2>10. text \in Seq(Nat) /\ Printable \subseteq Nat
    <3>1. Printable \subseteq Nat BY DEF Printable
    <3> QED BY <3>1, <2>9, SeqMonotonic
  <2>11. PICK a : /\ a[0] = SplitStart(text)
                  /\ SplitRun(a, text)
                  /\ SplitSequence(text) = PartsAfter(text, a[Len(text)])
    <3>1. Len(text) \in Nat BY <2>9, LenProperties
    <3> QED BY <3>1, SequenceScanned
  <2>12. At(text, 0, w) /\ At(text, l, u[n])
    <3>1. At(text, 0, w \o u[n]) BY <2>1, <2>9, AtSelf
    <3>2. 0 \in Nat /\ 0 + l = l BY <2>9
    <3>3. At(text, 0, w) /\ At(text, 0 + l, u[n]) BY <3>1, <3>2, <2>7, <2>8, AtGlued
    <3> QED BY <3>2, <3>3
  <2> DEFINE Read(k, from, q) ==
               /\ InPart(a[l + Len(u[k])], text, SubSeq(texts, 1, k), from, 0, TRUE, 0)
               /\ At(text, q, texts[k + 1]) /\ q + Len(texts[k + 1]) = l + Len(u[k])
               /\ from <= q + 1 /\ BlankIn(text, from, q)
  \* what is read after k separators, and what trimming makes of it
  <2>13. ASSUME NEW k \in 0..n, NEW from \in Nat \ {0}, NEW q \in Nat, Read(k, from, q),
                NEW hi \in Nat, hi <= Len(text), l + Len(u[k]) <= hi,
                BlankIn(text, (l + Len(u[k])) + 1, hi)
         PROVE  TrimBlanks(SubSeq(text, from, hi)) = texts[k + 1]
    <3> DEFINE t == texts[k + 1]
    <3>1. k + 1 \in 1..n + 1 BY <2>2
    <3>2. t \in Seq(Nat) /\ t # <<>> /\ t[1] \notin Blanks /\ t[Len(t)] \notin Blanks
      <4>1. t \in Seq(Printable) BY <2>3, <3>1
      <4>2. t \in Seq(Nat) BY <2>10, <4>1, SeqMonotonic
      <4> QED BY <2>3, <3>1, <4>2
    <3>3. q + Len(t) = l + Len(u[k]) /\ At(text, q, t) /\ from <= q + 1 /\ BlankIn(text, from, q)
      BY <2>13
    <3>4. q + Len(t) <= hi /\ BlankIn(text, (q + Len(t)) + 1, hi) BY <2>13, <3>3
    <3> HIDE DEF t
    <3> QED BY <2>10, <2>13, <3>2, <3>3, <3>4, Trimmed DEF t
  <2>14. \A k \in Nat : k <= n => \E from \in Nat \ {0}, q \in Nat : Read(k, from, q)
    <3> DEFINE S == {k \in Nat : k <= n => \E from \in Nat \ {0}, q \in Nat : Read(k, from, q)}
    <3>1. 0 \in S
      <4>1. InPart(a[0], text, <<>>, 1, 0, FALSE, 0) BY <2>11 DEF InPart, SplitStart, SplitFields
      <4>2. InPart(a[0 + l], text, <<>>, 1, 0, TRUE, 0)
        <5>1. At(text, 0, WordsText(lists[1])) BY <2>12 DEF w
        <5>2. 0 \in Nat OBVIOUS
        <5> QED BY <2>7, <2>10, <2>11, <4>1, <5>1, <5>2, WordsSplit DEF w
      <4>3. Len(u[0]) = 0 /\ l + 0 = l /\ 0 + l = l /\ 0 + 1 = 1 BY <2>8, <2>9
      <4>4. SubSeq(texts, 1, 0) = <<>> BY SubSeqEmpty
      <4>5. BlankIn(text, 1, 0) /\ 1 <= 0 + 1 BY DEF BlankIn
      <4>6. Read(0, 1, 0)
        <5>1. texts[0 + 1] = w BY <2>7, <4>3
        <5>2. l + Len(u[0]) = l /\ 0 + Len(texts[0 + 1]) = l BY <4>3, <5>1
        <5> HIDE DEF l
        <5>3. InPart(a[l + Len(u[0])], text, SubSeq(texts, 1, 0), 1, 0, TRUE, 0) BY <4>2, <4>3, <4>4, <5>2
        <5>4. At(text, 0, texts[0 + 1]) BY <2>12, <5>1
        <5> QED BY <4>5, <5>2, <5>3, <5>4
      <4>7. 1 \in Nat \ {0} /\ 0 \in Nat OBVIOUS
      <4> HIDE DEF Read
      <4> QED BY <4>6, <4>7
    <3>2. ASSUME NEW m \in Nat \ {0}, m - 1 \in S PROVE m \in S
      <4> SUFFICES ASSUME m <= n PROVE \E from \in Nat \ {0}, q \in Nat : Read(m, from, q)
          OBVIOUS
      <4>1. m \in 1..n /\ m - 1 \in 0..n /\ m - 1 <= n /\ (m - 1) + 1 = m /\ m \in 1..n + 1 /\ m + 1 \in 1..n + 1
        BY <2>2
      <4>2. PICK from \in Nat \ {0}, q \in Nat : Read(m - 1, from, q)
        <5> HIDE DEF Read
        <5> QED BY <3>2, <4>1
      <4> DEFINE p == l + Len(u[m - 1]) x == WordsText(lists[m + 1])
      <4>3. InPart(a[p], text, SubSeq(texts, 1, m - 1), from, 0, TRUE, 0) BY <4>2
      <4>4. u[m - 1] \in Seq(Printable) /\ part[m] \in Seq(Printable) /\ part[m] = Separated(lists[m + 1])
            /\ Len(u[m]) = Len(u[m - 1]) + Len(part[m]) /\ Command(lists[m + 1])
        BY <2>1, <2>5, <4>1 DEF Concatenates, PartsIn
      <4>5. x \in Seq(Printable) /\ part[m] = Separator \o x /\ texts[m + 1] = x
        BY <2>3, <4>1, <4>4, WordsEnds DEF Separated
      <4>6. p \in Nat /\ l + Len(u[m]) = (p + 3) + Len(x)
        <5> DEFINE y == Len(u[m - 1]) z == Len(x)
        <5>0. Len(Separator \o x) = Len(Separator) + Len(x) /\ Len(x) \in Nat
          <6>1. x \in Seq(Printable) /\ Separator \in Seq(Printable) BY <4>5, SeparatorIs
          <6> HIDE DEF x
          <6> QED BY <6>1, Glued
        <5>1. Len(part[m]) = 3 + z /\ z \in Nat BY <5>0, <4>5, SeparatorIs
        <5>2. y \in Nat /\ Len(u[m]) = y + (3 + z) BY <4>4, <5>1, LenProperties
        <5> HIDE DEF y, z, l
        <5>3. l + (y + (3 + z)) = ((l + y) + 3) + z /\ l + y \in Nat BY <2>9, <5>1, <5>2
        <5> QED BY <5>2, <5>3 DEF y, z
      <4>7. At(text, p, Separated(lists[m + 1]))
        <5>1. At(text, l + Len(u[m - 1]), part[m]) BY <2>1, <2>2, <2>9, <2>12, <4>1, AtPart
        <5> QED BY <4>4, <5>1
      <4>8. TrimBlanks(SubSeq(text, from, p + 1)) = texts[m]
        <5>1. p + 1 \in 1..Len(text) /\ text[p + 1] = Space
          <6>1. At(text, p, Separator)
            <7>1. At(text, p, Separator \o x) BY <4>4, <4>5, <4>7
            <7> HIDE DEF p, x
            <7> QED BY <4>5, <4>6, <7>1, SeparatorIs, AtGlued
          <6>2. 1 \in 1..Len(Separator) BY SeparatorIs
          <6> QED BY <6>1, <6>2, SeparatorIs DEF At
        <5>2. p + 1 \in Nat /\ p + 1 <= Len(text) /\ p <= p + 1
          <6> HIDE DEF p
          <6> QED BY <2>9, <4>6, <5>1
        <5>3. BlankIn(text, p + 1, p + 1)
          <6>1. Space \in Blanks BY DEF Blanks
          <6> HIDE DEF p
          <6>2. \A i \in p + 1..p + 1 : i = p + 1 BY <4>6
          <6> QED BY <5>1, <6>1, <6>2 DEF BlankIn
        <5> HIDE DEF Read
        <5>4. TrimBlanks(SubSeq(text, from, p + 1)) = texts[(m - 1) + 1] BY <2>13, <4>1, <4>2, <5>2, <5>3
        <5> QED BY <4>1, <5>4
      <4>9. texts[m] # <<>> BY <2>3, <4>1
      <4> HIDE DEF p, x
      <4>10. /\ InPart(a[(p + 3) + Len(x)], text, Append(SubSeq(texts, 1, m - 1), texts[m]), p + 3, 0, TRUE, 0)
             /\ At(text, p + 3, x) /\ text[p + 3] = Space
        BY <2>10, <2>11, <4>3, <4>4, <4>6, <4>7, <4>8, <4>9, SeparatedSplit DEF x
      <4>11. SubSeq(texts, 1, m) = Append(SubSeq(texts, 1, m - 1), texts[m])
        BY <2>4, <4>1, PrefixGrows
      <4>12. p + 3 \in Nat \ {0} /\ p + 3 \in Nat /\ p + 3 <= (p + 3) + 1 BY <4>6
      <4>13. BlankIn(text, p + 3, p + 3)
        <5>1. \A i \in p + 3..p + 3 : i = p + 3 BY <4>6
        <5> QED BY <4>10, <5>1 DEF Blanks, BlankIn
      <4>14. Read(m, p + 3, p + 3) BY <4>5, <4>6, <4>10, <4>11, <4>12, <4>13
      <4> HIDE DEF Read
      <4> QED BY <4>12, <4>14
    <3>3. Nat \subseteq S
      <4> HIDE DEF S
      <4> QED BY <3>1, <3>2, UpToAll
    <3> QED BY <3>3
  <2>15. PICK from \in Nat \ {0}, q \in Nat : Read(n, from, q)
    <3>1. n <= n BY <2>2
    <3> HIDE DEF Read
    <3> QED BY <2>2, <2>14, <3>1
  <2>16. SplitSequence(text) = Accepted(texts)
    <3> DEFINE s == a[Len(text)]
    <3>1. InPart(s, text, SubSeq(texts, 1, n), from, 0, TRUE, 0) BY <2>9, <2>15
    <3>2. TrimBlanks(SubSeq(text, from, Len(text))) = texts[n + 1]
      <4> DEFINE hi == Len(text)
      <4>1. hi = l + Len(u[n]) /\ hi \in Nat BY <2>9, LenProperties
      <4>2. n \in 0..n /\ hi <= Len(text) /\ l + Len(u[n]) <= hi BY <2>2, <4>1
      <4>3. BlankIn(text, (l + Len(u[n])) + 1, hi)
        <5> HIDE DEF hi
        <5>1. BlankIn(text, hi + 1, hi) BY <4>1 DEF BlankIn
        <5> QED BY <4>1, <5>1
      <4> HIDE DEF Read, hi
      <4>4. TrimBlanks(SubSeq(text, from, hi)) = texts[n + 1] BY <2>13, <2>15, <4>1, <4>2, <4>3
      <4> QED BY <4>4 DEF hi
    <3>3. texts[n + 1] # <<>>
      <4>1. n + 1 \in 1..n + 1 BY <2>2
      <4> QED BY <2>3, <4>1
    <3>4. Append(SubSeq(texts, 1, n), texts[n + 1]) = texts
      <4>1. n + 1 \in 1..Len(texts) /\ (n + 1) - 1 = n BY <2>2, <2>4
      <4>2. SubSeq(texts, 1, n + 1) = Append(SubSeq(texts, 1, (n + 1) - 1), texts[n + 1]) BY <2>4, <4>1, PrefixGrows
      <4>3. SubSeq(texts, 1, n + 1) = texts BY <2>4, SubSeqFull
      <4> QED BY <4>1, <4>2, <4>3
    <3>5. s.ok /\ s.quote = 0 /\ s.parts = SubSeq(texts, 1, n) /\ s.start = from /\ s.cut = Len(text)
      BY <3>1 DEF InPart
    <3> HIDE DEF s
    <3>6. PartsAfter(text, s) = Accepted(texts) BY <3>2, <3>3, <3>4, <3>5 DEF PartsAfter
    <3> QED BY <2>11, <3>6 DEF s
  <2> QED BY <2>9, <2>16 DEF text, texts
<1> QED BY <1>1, <1>2

-----------------------------------------------------------------------------
(* ParseSequence, parsePayload and splitArgvCommands of what was written.   *)
LEMMA AllKept ==
    ASSUME NEW X, NEW lists \in Seq(X), \A i \in 1..Len(lists) : lists[i] # <<>>
    PROVE  NonEmpty(lists) = lists
<1> DEFINE n == Len(lists)
           F(u) == [i \in 0..n |-> IF i = 0 THEN <<>> ELSE KeepWords(lists, i, u[i - 1])]
           g == [i \in 0..n |-> SubSeq(lists, 1, i)]
           v == CHOOSE u : u = F(u)
<1>1. n \in Nat BY LenProperties
<1>2. NonEmpty(lists) = v[n] BY DEF NonEmpty, Scan
<1>3. \A i \in 1..n : SubSeq(lists, 1, i) = KeepWords(lists, i, SubSeq(lists, 1, i - 1))
  BY PrefixGrows DEF KeepWords
<1>4. SubSeq(lists, 1, 0) = <<>> BY SubSeqEmpty
<1> HIDE DEF n
<1>5. \A i \in 0..n : g[i] = IF i = 0 THEN <<>> ELSE KeepWords(lists, i, g[i - 1])
  <2> SUFFICES ASSUME NEW i \in 0..n PROVE g[i] = IF i = 0 THEN <<>> ELSE KeepWords(lists, i, g[i - 1])
      OBVIOUS
  <2>1. CASE i = 0 BY <1>4, <2>1
  <2>2. CASE i # 0
    <3>1. i \in 1..n /\ i - 1 \in 0..n BY <1>1, <2>2
    <3>2. g[i - 1] = SubSeq(lists, 1, i - 1) /\ g[i] = SubSeq(lists, 1, i) BY <3>1
    <3> QED BY <1>3, <2>2, <3>1, <3>2
  <2> QED BY <2>1, <2>2
<1>6. g = [i \in 0..n |-> g[i]] OBVIOUS
<1>7. g = F(g)
  <2> HIDE DEF g
  <2> QED BY <1>5, <1>6
<1> HIDE DEF g, F
<1>8. v = F(v) BY <1>7
<1> HIDE DEF v
<1>9. \A i \in 0..n : v[i] = IF i = 0 THEN <<>> ELSE KeepWords(lists, i, v[i - 1]) BY <1>8 DEF F
<1>10. \A k \in Nat : k <= n => v[k] = SubSeq(lists, 1, k)
  <2> DEFINE S == {k \in Nat : k <= n => v[k] = SubSeq(lists, 1, k)}
  <2>1. 0 \in S
    <3>1. 0 \in 0..n BY <1>1
    <3> QED BY <1>4, <1>9, <3>1
  <2>2. ASSUME NEW m \in Nat \ {0}, m - 1 \in S PROVE m \in S
    <3> SUFFICES ASSUME m <= n PROVE v[m] = SubSeq(lists, 1, m) OBVIOUS
    <3>1. m \in 1..n /\ m \in 0..n /\ m # 0 /\ m - 1 <= n BY <1>1
    <3>2. v[m - 1] = SubSeq(lists, 1, m - 1) BY <2>2, <3>1
    <3> QED BY <1>3, <1>9, <3>1, <3>2
  <2>3. Nat \subseteq S
    <3> HIDE DEF S
    <3> QED BY <2>1, <2>2, UpToAll
  <2> QED BY <2>3
<1>11. v[n] = SubSeq(lists, 1, n)
  <2>1. n <= n BY <1>1
  <2> QED BY <1>1, <1>10, <2>1
<1> QED BY <1>2, <1>11, SubSeqFull DEF n

LEMMA TextsParsed ==
    ASSUME NEW lists, CommandLists(lists), \A i \in DOMAIN lists : ValidWords(lists[i]), NEW skipEmpty
    PROVE  Parsed(Texts(lists), skipEmpty) = Accepted(lists)
<1> DEFINE n == Len(lists) texts == Texts(lists) words == WordsOf(texts) vals == [i \in DOMAIN words |-> words[i].val]
<1>1. n \in Nat /\ lists \in Seq(Seq(Seq(1..255))) BY LenProperties DEF CommandLists
<1>2. DOMAIN texts = 1..n BY DEF Texts
<1>3. \A i \in 1..n : texts[i] = WordsText(lists[i]) BY DEF Texts
<1>4. \A i \in 1..n : ParseWords(texts[i]) = Accepted(lists[i]) /\ lists[i] # <<>>
  BY <1>3, WordsParsed DEF CommandLists, Command
<1> HIDE DEF texts
<1>5. DOMAIN words = 1..n /\ \A i \in 1..n : words[i] = Accepted(lists[i]) BY <1>2, <1>4 DEF WordsOf
<1> HIDE DEF words
<1>6. \A i \in 1..n : words[i].ok /\ words[i].val = lists[i] BY <1>5 DEF Accepted
<1>7. vals = lists
  <2>1. vals = [i \in 1..n |-> lists[i]] BY <1>5, <1>6
  <2>2. lists = [i \in 1..n |-> lists[i]] BY <1>1
  <2> QED BY <2>1, <2>2
<1>8. ~\E i \in DOMAIN words : ~words[i].ok \/ (~skipEmpty /\ words[i].val = <<>>)
  BY <1>4, <1>5, <1>6
<1> HIDE DEF vals
<1>9. Parsed(texts, skipEmpty) = Sequence(NonEmpty(vals)) BY <1>8 DEF Parsed, words, vals
<1>10. NonEmpty(vals) = lists
  <2>1. \A i \in 1..Len(lists) : lists[i] # <<>> BY <1>4
  <2> QED BY <1>1, <1>7, <2>1, AllKept
<1>11. Sequence(lists) = Accepted(lists) BY DEF Sequence
<1> QED BY <1>9, <1>10, <1>11 DEF texts

-----------------------------------------------------------------------------
(* splitArgvCommands of what was written.                                   *)
ArgvState(cmds, current) == [cmds |-> cmds, current |-> current]
ArgvScan(a, n, args) ==
    a = [i \in 0..n |-> IF i = 0 THEN ArgvState(<<>>, <<>>) ELSE ArgvStep(args, i, a[i - 1])]
ArgvRun(a, args) == \A i \in 1..Len(args) : a[i] = ArgvStep(args, i, a[i - 1])
ArgvAfter(s) == IF s.current = <<>> THEN s.cmds ELSE Append(s.cmds, s.current)

LEMMA ArgvScanExists == ASSUME NEW args, NEW n \in Nat PROVE \E a : ArgvScan(a, n, args)
<1> DEFINE S == {k \in Nat : \E a : ArgvScan(a, k, args)} s0 == ArgvState(<<>>, <<>>)
<1>1. 0 \in S
  <2>1. ArgvScan([i \in 0..0 |-> s0], 0, args) BY DEF ArgvScan
  <2> QED BY <2>1
<1>2. ASSUME NEW m \in Nat \ {0}, m - 1 \in S PROVE m \in S
  <2>1. PICK a : ArgvScan(a, m - 1, args) BY <1>2
  <2> DEFINE b == [i \in 0..m |-> IF i = m THEN ArgvStep(args, m, a[m - 1]) ELSE a[i]]
  <2>2. \A i \in 0..m : i # 0 /\ i # m => a[i] = ArgvStep(args, i, a[i - 1]) BY <2>1 DEF ArgvScan
  <2>3. a[0] = s0 BY <2>1 DEF ArgvScan
  <2> HIDE DEF s0
  <2>4. \A i \in 0..m : b[i] = IF i = 0 THEN s0 ELSE ArgvStep(args, i, b[i - 1])
    <3> SUFFICES ASSUME NEW i \in 0..m PROVE b[i] = IF i = 0 THEN s0 ELSE ArgvStep(args, i, b[i - 1])
        OBVIOUS
    <3>1. CASE i = 0
      <4>1. i # m BY <3>1
      <4> QED BY <4>1, <3>1, <2>3
    <3>2. CASE i # 0
      <4>1. i - 1 \in 0..m /\ i - 1 # m BY <3>2
      <4>2. b[i - 1] = a[i - 1] BY <4>1
      <4>3. b[i] = ArgvStep(args, i, a[i - 1]) BY <2>2, <3>2
      <4> QED BY <4>2, <4>3, <3>2
    <3> QED BY <3>1, <3>2
  <2>5. b = [i \in 0..m |-> b[i]] OBVIOUS
  <2>6. ArgvScan(b, m, args)
    <3> HIDE DEF b
    <3> QED BY <2>4, <2>5 DEF ArgvScan, s0
  <2> QED BY <2>6
<1>3. Nat \subseteq S
  <2> HIDE DEF S
  <2> QED BY <1>1, <1>2, UpToAll
<1> QED BY <1>3

LEMMA ArgvScanned ==
    ASSUME NEW args, Len(args) \in Nat
    PROVE  \E a : /\ a[0] = ArgvState(<<>>, <<>>)
                  /\ ArgvRun(a, args)
                  /\ SplitArgvCommands(args) = ArgvAfter(a[Len(args)])
<1> DEFINE a == CHOOSE a : ArgvScan(a, Len(args), args)
<1>1. ArgvScan(a, Len(args), args) BY ArgvScanExists
<1>2. SplitArgvCommands(args) = ArgvAfter(a[Len(args)])
  BY DEF SplitArgvCommands, Scan, ArgvScan, ArgvState, ArgvAfter
<1> HIDE DEF a
<1>3. \A i \in 0..Len(args) : a[i] = IF i = 0 THEN ArgvState(<<>>, <<>>) ELSE ArgvStep(args, i, a[i - 1])
  BY <1>1 DEF ArgvScan
<1>4. 0 \in 0..Len(args) /\ \A i \in 1..Len(args) : i \in 0..Len(args) /\ i # 0 OBVIOUS
<1> QED BY <1>2, <1>3, <1>4 DEF ArgvRun

\* What EscapeArg makes of a word, and what is left of it without its last byte or two.
LEMMA EscapedArg ==
    ASSUME NEW w \in Seq(1..255), w # <<>>, w[Len(w)] = Semi
    PROVE  LET a == EscapeArg(w) cut == SubSeq(a, 1, Len(a) - 1) IN
           /\ a # <<>> /\ a[Len(a)] = Semi /\ a \in Seq(1..255)
           /\ cut # <<>> /\ cut[Len(cut)] = Backslash
           /\ SubSeq(cut, 1, Len(cut) - 1) \o <<Semi>> = w
<1> DEFINE head == SubSeq(w, 1, Len(w) - 1) a == EscapeArg(w) mid == head \o <<Backslash>>
<1>1. Len(w) \in Nat \ {0} BY EmptySeq
<1>2. head \in Seq(1..255) /\ w = Append(head, w[Len(w)])
  <2>1. Len(w) \in 1..Len(w) BY <1>1
  <2>2. SubSeq(w, 1, Len(w)) = w BY SubSeqFull
  <2> QED BY <2>1, <2>2, PrefixGrows
<1>3. a = head \o <<Backslash, Semi>> BY DEF EscapeArg
<1>4. Backslash \in 1..255 /\ Semi \in 1..255 BY DEF Backslash, Semi
<1> HIDE DEF head
<1>5. a = Append(mid, Semi) /\ mid = Append(head, Backslash) /\ w = head \o <<Semi>>
  <2> DEFINE x == Backslash y == Semi X == 1..255
  <2>1. head \in Seq(X) /\ x \in X /\ y \in X BY <1>2, <1>4
  <2>2. head \o <<x, y>> = Append(head \o <<x>>, y) /\ head \o <<x>> = Append(head, x)
    <3> HIDE DEF x, y, X
    <3> QED BY <2>1
  <2>4. a = Append(mid, Semi) /\ mid = Append(head, Backslash) BY <1>3, <2>2
  <2>3. w = head \o <<Semi>> BY <1>2, <1>4, <2>1
  <2> QED BY <2>4, <2>3
<1>6. mid \in Seq(1..255) BY <1>2, <1>4
<1> HIDE DEF a, mid
<1>7. \A s \in Seq(1..255), x \in 1..255 :
          /\ Append(s, x) \in Seq(1..255) /\ Append(s, x) # <<>> /\ Append(s, x)[Len(Append(s, x))] = x
          /\ SubSeq(Append(s, x), 1, Len(Append(s, x)) - 1) = s
  <2> SUFFICES ASSUME NEW s \in Seq(1..255), NEW x \in 1..255
               PROVE  /\ Append(s, x) \in Seq(1..255) /\ Append(s, x) # <<>>
                      /\ Append(s, x)[Len(Append(s, x))] = x
                      /\ SubSeq(Append(s, x), 1, Len(Append(s, x)) - 1) = s
      OBVIOUS
  <2>1. /\ Append(s, x) \in Seq(1..255) /\ Append(s, x) # <<>>
        /\ Append(s, x)[Len(Append(s, x))] = x /\ Len(Append(s, x)) - 1 = Len(s)
    BY LenProperties
  <2>2. SubSeq(Append(s, x), 1, Len(s)) = s OBVIOUS
  <2> QED BY <2>1, <2>2
<1>8. SubSeq(a, 1, Len(a) - 1) = mid /\ SubSeq(mid, 1, Len(mid) - 1) = head BY <1>2, <1>4, <1>5, <1>6, <1>7
<1>9. a # <<>> /\ a[Len(a)] = Semi /\ a \in Seq(1..255) /\ mid # <<>> /\ mid[Len(mid)] = Backslash
  <2>1. a = Append(mid, Semi) /\ mid = Append(head, Backslash) BY <1>5
  <2>2. Append(mid, Semi) \in Seq(1..255) /\ Append(mid, Semi) # <<>>
        /\ Append(mid, Semi)[Len(Append(mid, Semi))] = Semi
    BY <1>4, <1>6, <1>7
  <2>3. Append(head, Backslash) # <<>> /\ Append(head, Backslash)[Len(Append(head, Backslash))] = Backslash
    BY <1>2, <1>4, <1>7
  <2> QED BY <2>1, <2>2, <2>3
<1> QED BY <1>5, <1>8, <1>9 DEF a

\* An escaped word is taken back as it was.
LEMMA WordTaken ==
    ASSUME NEW args, NEW i \in Nat, NEW w \in Seq(1..255), args[i] = EscapeArg(w), NEW cmds, NEW current
    PROVE  ArgvStep(args, i, ArgvState(cmds, current)) = ArgvState(cmds, Append(current, w))
<1>1. CASE w # <<>> /\ w[Len(w)] = Semi
  <2> DEFINE a == EscapeArg(w) cut == SubSeq(a, 1, Len(a) - 1)
  <2>1. /\ a # <<>> /\ a[Len(a)] = Semi /\ cut # <<>> /\ cut[Len(cut)] = Backslash
        /\ SubSeq(cut, 1, Len(cut) - 1) \o <<Semi>> = w
    BY <1>1, EscapedArg
  <2>2. args[i] = a OBVIOUS
  <2> HIDE DEF a
  <2> QED BY <2>1, <2>2 DEF ArgvStep, ArgvState
<1>2. CASE ~(w # <<>> /\ w[Len(w)] = Semi)
  <2>1. args[i] = w BY <1>2 DEF EscapeArg
  <2> QED BY <1>2, <2>1 DEF ArgvStep, ArgvState
<1> QED BY <1>1, <1>2

\* A word that is a semicolon ends the command that was begun.
LEMMA CommandEnded ==
    ASSUME NEW args, NEW i, args[i] = <<Semi>>, NEW cmds, NEW current, current # <<>>
    PROVE  ArgvStep(args, i, ArgvState(cmds, current)) = ArgvState(Append(cmds, current), <<>>)
<1> DEFINE a == <<Semi>> cut == SubSeq(a, 1, Len(a) - 1)
<1>1. a # <<>> /\ a[Len(a)] = Semi OBVIOUS
<1>2. cut = <<>>
  <2>1. Len(a) - 1 = 0 OBVIOUS
  <2> QED BY <2>1, SubSeqEmpty
<1>3. args[i] = a OBVIOUS
<1> HIDE DEF a
<1> QED BY <1>1, <1>2, <1>3 DEF ArgvStep, ArgvState

LEMMA WordsArgvIs ==
    ASSUME NEW words, Command(words)
    PROVE  /\ WordsArgv(words) \in Seq(Seq(1..255)) /\ Len(WordsArgv(words)) = Len(words)
           /\ \A k \in 1..Len(words) : WordsArgv(words)[k] = EscapeArg(words[k])
<1> DEFINE n == Len(words) tail == [i \in 1..n - 1 |-> EscapeArg(words[i + 1])] name == words[1]
<1>1. n \in Nat \ {0} /\ \A k \in 1..n : words[k] \in Seq(1..255) BY CommandWords
<1>2. \A k \in 1..n : EscapeArg(words[k]) \in Seq(1..255)
  <2> SUFFICES ASSUME NEW k \in 1..n PROVE EscapeArg(words[k]) \in Seq(1..255) OBVIOUS
  <2> DEFINE w == words[k]
  <2>1. w \in Seq(1..255) BY <1>1
  <2> HIDE DEF w
  <2>2. EscapeArg(w) \in Seq(1..255)
    <3>1. CASE w # <<>> /\ w[Len(w)] = Semi BY <2>1, <3>1, EscapedArg
    <3>2. CASE ~(w # <<>> /\ w[Len(w)] = Semi) BY <2>1, <3>2 DEF EscapeArg
    <3> QED BY <3>1, <3>2
  <2> QED BY <2>2 DEF w
<1>3. EscapeArg(name) = name
  <2>1. name \in Seq(Printable) /\ name # <<>> /\ \A i \in 1..Len(name) : name[i] \in NameBytes
    BY CommandWords
  <2> HIDE DEF name
  <2>2. Len(name) \in 1..Len(name)
    <3>1. Len(name) \in Nat \ {0} BY <2>1, EmptySeq
    <3> QED BY <3>1
  <2>3. Semi \notin NameBytes BY DEF NameBytes, Letter, Digits, Underscore, Semi
  <2>4. name[Len(name)] # Semi BY <2>1, <2>2, <2>3
  <2> QED BY <2>4 DEF EscapeArg
<1>4. tail \in Seq(Seq(1..255)) /\ Len(tail) = n - 1 /\ \A k \in 1..n - 1 : tail[k] = EscapeArg(words[k + 1])
  <2>1. \A k \in 1..n - 1 : k + 1 \in 1..n BY <1>1
  <2>2. \A k \in 1..n - 1 : EscapeArg(words[k + 1]) \in Seq(1..255) BY <1>2, <2>1
  <2> HIDE DEF n
  <2>3. n - 1 \in Nat BY <1>1
  <2> QED BY <2>2, <2>3
<1>5. name \in Seq(1..255) /\ WordsArgv(words) = <<name>> \o tail
  <2>1. 1 \in 1..n BY <1>1
  <2> QED BY <1>1, <2>1 DEF WordsArgv
<1> HIDE DEF tail
<1>6. <<name>> \in Seq(Seq(1..255)) /\ Len(<<name>>) = 1 /\ <<name>>[1] = name BY <1>5
<1>7. WordsArgv(words) \in Seq(Seq(1..255)) /\ Len(WordsArgv(words)) = 1 + (n - 1)
  BY <1>4, <1>5, <1>6, Glued
<1>8. ASSUME NEW k \in 1..n PROVE WordsArgv(words)[k] = EscapeArg(words[k])
  <2>1. CASE k = 1
    <3>1. 1 \in 1..Len(<<name>>) BY <1>6
    <3>2. (<<name>> \o tail)[1] = <<name>>[1] BY <1>4, <1>6, <3>1, Glued
    <3> QED BY <1>3, <1>5, <1>6, <2>1, <3>2
  <2>2. CASE k # 1
    <3>1. k - 1 \in 1..n - 1 /\ 1 + (k - 1) = k /\ (k - 1) + 1 = k BY <1>1, <2>2
    <3>2. (<<name>> \o tail)[Len(<<name>>) + (k - 1)] = tail[k - 1]
      <4>1. k - 1 \in 1..Len(tail) BY <1>4, <3>1
      <4> QED BY <1>4, <1>6, <4>1, Glued
    <3> QED BY <1>4, <1>5, <1>6, <3>1, <3>2
  <2> QED BY <2>1, <2>2
<1>9. 1 + (n - 1) = n BY <1>1
<1> QED BY <1>7, <1>8, <1>9

\* The words of a command are taken back one by one.
LEMMA WordsTaken ==
    ASSUME NEW args, NEW a, ArgvRun(a, args), NEW p \in Nat, NEW words, Command(words),
           At(args, p, WordsArgv(words)), NEW cmds, a[p] = ArgvState(cmds, <<>>)
    PROVE  a[p + Len(words)] = ArgvState(cmds, words)
<1> DEFINE n == Len(words)
<1>1. n \in Nat /\ words \in Seq(Seq(1..255)) BY CommandWords DEF Command
<1>2. \A k \in 1..n : p + k \in 1..Len(args) /\ args[p + k] = EscapeArg(words[k])
  BY WordsArgvIs DEF At
<1>3. \A k \in Nat : k <= n => a[p + k] = ArgvState(cmds, SubSeq(words, 1, k))
  <2> DEFINE S == {k \in Nat : k <= n => a[p + k] = ArgvState(cmds, SubSeq(words, 1, k))}
  <2>1. 0 \in S
    <3>1. p + 0 = p OBVIOUS
    <3>2. SubSeq(words, 1, 0) = <<>> BY SubSeqEmpty
    <3>3. a[p + 0] = ArgvState(cmds, SubSeq(words, 1, 0)) BY <3>1, <3>2
    <3> HIDE DEF n
    <3> QED BY <1>1, <3>3
  <2>2. ASSUME NEW m \in Nat \ {0}, m - 1 \in S PROVE m \in S
    <3> SUFFICES ASSUME m <= n PROVE a[p + m] = ArgvState(cmds, SubSeq(words, 1, m)) OBVIOUS
    <3>1. m \in 1..n /\ m - 1 <= n /\ (p + m) - 1 = p + (m - 1) BY <1>1
    <3>2. a[p + (m - 1)] = ArgvState(cmds, SubSeq(words, 1, m - 1)) BY <2>2, <3>1
    <3>3. a[p + m] = ArgvStep(args, p + m, a[p + (m - 1)]) BY <1>2, <3>1 DEF ArgvRun
    <3>4. words[m] \in Seq(1..255) /\ args[p + m] = EscapeArg(words[m]) BY <1>2, <3>1, CommandWords
    <3>5. a[p + m] = ArgvState(cmds, Append(SubSeq(words, 1, m - 1), words[m]))
      <4> DEFINE i == p + m v == SubSeq(words, 1, m - 1) w == words[m]
      <4>0. i \in Nat OBVIOUS
      <4>1. a[i] = ArgvStep(args, i, ArgvState(cmds, v)) /\ w \in Seq(1..255) /\ args[i] = EscapeArg(w)
        BY <3>2, <3>3, <3>4
      <4> HIDE DEF i, v, w
      <4>2. i \in Nat /\ w \in Seq(1..255) /\ args[i] = EscapeArg(w) BY <4>0, <4>1
      <4>3. ArgvStep(args, i, ArgvState(cmds, v)) = ArgvState(cmds, Append(v, w)) BY <4>2, WordTaken
      <4> QED BY <4>1, <4>3 DEF i, v, w
    <3>6. SubSeq(words, 1, m) = Append(SubSeq(words, 1, m - 1), words[m]) BY <1>1, <3>1, PrefixGrows
    <3> QED BY <3>5, <3>6
  <2>3. Nat \subseteq S
    <3> HIDE DEF S
    <3> QED BY <2>1, <2>2, UpToAll
  <2> QED BY <2>3
<1>4. a[p + n] = ArgvState(cmds, SubSeq(words, 1, n))
  <2>1. n <= n BY <1>1
  <2> QED BY <1>1, <1>3, <2>1
<1> QED BY <1>1, <1>4, SubSeqFull

AfterSemis(lists) == [k \in 1..Len(lists) - 1 |-> AfterSemi(lists[k + 1])]

LEMMA SemiIs ==
    /\ <<Semi>> \in Seq(1..255) /\ <<<<Semi>>>> \in Seq(Seq(1..255)) /\ Len(<<<<Semi>>>>) = 1
    /\ <<<<Semi>>>>[1] = <<Semi>>
<1>1. <<Semi>> \in Seq(1..255) BY DEF Semi
<1> DEFINE s == <<Semi>>
<1> HIDE DEF s
<1>2. <<s>> \in Seq(Seq(1..255)) /\ Len(<<s>>) = 1 /\ <<s>>[1] = s BY <1>1 DEF s
<1> QED BY <1>1, <1>2 DEF s

LEMMA ArgvParts ==
    ASSUME NEW lists, CommandLists(lists), lists # <<>>
    PROVE  \E u : /\ ArgvOf(lists) = WordsArgv(lists[1]) \o u[Len(lists) - 1]
                  /\ PartsIn(AfterSemis(lists), Len(lists) - 1, Seq(1..255))
                  /\ Concatenates(u, Len(lists) - 1, AfterSemis(lists), Seq(1..255))
<1> DEFINE n == Len(lists) - 1 part == AfterSemis(lists) args == Tail(lists)
           F(u) == [i \in 0..n |-> IF i = 0 THEN <<>> ELSE u[i - 1] \o AfterSemi(args[i])]
           v == CHOOSE u : u = F(u)
<1>0. n \in Nat /\ Len(args) = n /\ \A k \in 1..n : args[k] = lists[k + 1] /\ Command(lists[k + 1])
  <2>1. lists \in Seq(Seq(Seq(1..255))) /\ lists # <<>> /\ Len(lists) \in Nat \ {0} BY EmptySeq DEF CommandLists
  <2>2. Len(Tail(lists)) = Len(lists) - 1 BY <2>1
  <2>3. \A k \in 1..Len(lists) - 1 : Tail(lists)[k] = lists[k + 1] BY <2>1
  <2>4. \A k \in 1..Len(lists) - 1 : k + 1 \in 1..Len(lists) BY <2>1
  <2> QED BY <2>1, <2>2, <2>3, <2>4 DEF CommandLists
<1>1. \A u : F(u) = [i \in 0..n |-> IF i = 0 THEN <<>> ELSE u[i - 1] \o part[i]]
  BY <1>0 DEF AfterSemis
<1>2. ArgvOf(lists) = WordsArgv(lists[1]) \o v[n] BY <1>0 DEF ArgvOf, Join
<1>3. \E u : Prefixes(u, n, part)
  <2> HIDE DEF part, n
  <2> QED BY <1>0, PrefixesExist
<1>4. PartsIn(part, n, Seq(1..255))
  <2>1. ASSUME NEW k \in 1..n PROVE AfterSemi(lists[k + 1]) \in Seq(Seq(1..255))
    <3>1. WordsArgv(lists[k + 1]) \in Seq(Seq(1..255)) BY <1>0, WordsArgvIs
    <3> QED BY <3>1, SemiIs, Glued DEF AfterSemi
  <2> QED BY <2>1 DEF PartsIn, AfterSemis
<1> HIDE DEF part, F, n
<1>5. v = F(v) BY <1>1, <1>3 DEF Prefixes
<1> HIDE DEF v
<1>6. Prefixes(v, n, part) BY <1>1, <1>5 DEF Prefixes
<1>7. Concatenates(v, n, part, Seq(1..255)) BY <1>0, <1>4, <1>6, Concatenation
<1> QED BY <1>2, <1>4, <1>7 DEF part, n

LEMMA AfterSemiTaken ==
    ASSUME NEW args, NEW a, ArgvRun(a, args), NEW p \in Nat, NEW words, Command(words),
           At(args, p, AfterSemi(words)), NEW cmds, NEW current, current # <<>>,
           a[p] = ArgvState(cmds, current)
    PROVE  a[p + Len(AfterSemi(words))] = ArgvState(Append(cmds, current), words)
<1> DEFINE w == WordsArgv(words) semi == <<<<Semi>>>>
<1>1. w \in Seq(Seq(1..255)) /\ Len(w) = Len(words) /\ semi \in Seq(Seq(1..255)) /\ AfterSemi(words) = semi \o w
      /\ Len(semi) = 1 /\ semi[1] = <<Semi>>
  BY WordsArgvIs, SemiIs DEF AfterSemi
<1> HIDE DEF w, semi
<1>2. At(args, p, semi) /\ At(args, p + 1, w)
  <2>1. At(args, p, semi \o w) BY <1>1
  <2>2. semi \in Seq(Seq(1..255)) /\ w \in Seq(Seq(1..255)) /\ Len(semi) = 1 BY <1>1
  <2>3. At(args, p, semi) /\ At(args, p + Len(semi), w) BY <2>1, <2>2, AtGlued
  <2> QED BY <2>2, <2>3
<1>3. p + 1 \in 1..Len(args) /\ args[p + 1] = <<Semi>> /\ (p + 1) - 1 = p BY <1>1, <1>2 DEF At
<1>4. a[p + 1] = ArgvStep(args, p + 1, a[p]) BY <1>3 DEF ArgvRun
<1>5. a[p + 1] = ArgvState(Append(cmds, current), <<>>) BY <1>3, <1>4, CommandEnded
<1>6. p + 1 \in Nat OBVIOUS
<1>7. a[(p + 1) + Len(words)] = ArgvState(Append(cmds, current), words)
  BY <1>2, <1>5, <1>6, WordsTaken DEF w
<1>8. p + Len(AfterSemi(words)) = (p + 1) + Len(words)
  <2>1. Len(semi \o w) = Len(semi) + Len(w) BY <1>1, Glued
  <2>2. Len(AfterSemi(words)) = 1 + Len(words) BY <1>1, <2>1
  <2>3. Len(words) \in Nat BY CommandWords
  <2> QED BY <2>2, <2>3
<1> QED BY <1>7, <1>8

\* What is written as an argument vector is taken apart into the commands it was made of
\* (plan.argv and EscapeArg against splitArgvCommands).
LEMMA ArgvTaken ==
    ASSUME NEW lists, CommandLists(lists)
    PROVE  SplitArgvCommands(ArgvOf(lists)) = lists
<1>1. CASE lists = <<>>
  <2>1. ArgvOf(lists) = <<>> BY <1>1 DEF ArgvOf
  <2>2. Len(<<>>) = 0 /\ 0 \in Nat OBVIOUS
  <2>3. PICK a : a[0] = ArgvState(<<>>, <<>>) /\ SplitArgvCommands(<<>>) = ArgvAfter(a[0])
    BY <2>2, ArgvScanned
  <2>4. ArgvAfter(ArgvState(<<>>, <<>>)) = <<>> BY DEF ArgvAfter, ArgvState
  <2> QED BY <1>1, <2>1, <2>3, <2>4
<1>2. CASE lists # <<>>
  <2> DEFINE args == ArgvOf(lists) n == Len(lists) - 1 part == AfterSemis(lists) w == WordsArgv(lists[1])
             l == Len(w)
  <2>1. PICK u : args = w \o u[n] /\ PartsIn(part, n, Seq(1..255)) /\ Concatenates(u, n, part, Seq(1..255))
    BY <1>2, ArgvParts
  <2>2. n \in Nat /\ Len(lists) = n + 1 /\ lists \in Seq(Seq(Seq(1..255)))
    <3>1. Len(lists) \in Nat \ {0} BY <1>2, EmptySeq DEF CommandLists
    <3> QED BY <3>1 DEF CommandLists
  <2>3. \A k \in 1..n + 1 : Command(lists[k]) /\ lists[k] # <<>> BY <2>2 DEF CommandLists, Command
  <2>4. \A k \in 1..n : part[k] = AfterSemi(lists[k + 1]) /\ Command(lists[k + 1])
    <3>1. \A k \in 1..n : k + 1 \in 1..n + 1 BY <2>2
    <3> QED BY <2>2, <2>3, <3>1 DEF AfterSemis
  <2>5. 1 \in 1..n + 1 BY <2>2
  <2>6. w \in Seq(Seq(1..255)) /\ Command(lists[1]) /\ l = Len(lists[1]) BY <2>3, <2>5, WordsArgvIs
  <2> HIDE DEF args, part, n
  <2>7. u[0] = <<>> /\ u[n] \in Seq(Seq(1..255)) BY <2>1, <2>2 DEF Concatenates
  <2>8. args \in Seq(Seq(1..255)) /\ l \in Nat /\ Len(args) = l + Len(u[n]) /\ Len(u[n]) \in Nat
    <3> HIDE DEF w
    <3> DEFINE t == u[n]
    <3>1. w \in Seq(Seq(1..255)) /\ t \in Seq(Seq(1..255)) /\ args = w \o t BY <2>1, <2>6, <2>7
    <3> HIDE DEF t
    <3>2. /\ w \o t \in Seq(Seq(1..255)) /\ Len(w \o t) = Len(w) + Len(t)
          /\ Len(w) \in Nat /\ Len(t) \in Nat
      BY <3>1, Glued
    <3> QED BY <3>1, <3>2 DEF t
  <2>9. PICK a : /\ a[0] = ArgvState(<<>>, <<>>)
                 /\ ArgvRun(a, args)
                 /\ SplitArgvCommands(args) = ArgvAfter(a[Len(args)])
    <3>1. Len(args) \in Nat BY <2>8, LenProperties
    <3> QED BY <3>1, ArgvScanned
  <2>10. At(args, 0, w) /\ At(args, l, u[n])
    <3> HIDE DEF w
    <3>1. At(args, 0, w \o u[n]) BY <2>1, <2>8, AtSelf
    <3>2. 0 \in Nat /\ 0 + l = l BY <2>8
    <3>3. At(args, 0, w) /\ At(args, 0 + l, u[n]) BY <3>1, <3>2, <2>6, <2>7, AtGlued
    <3> QED BY <3>2, <3>3
  <2>11. a[l] = ArgvState(<<>>, lists[1])
    <3>1. 0 \in Nat /\ 0 + Len(lists[1]) = l BY <2>6, <2>8
    <3>2. a[0 + Len(lists[1])] = ArgvState(<<>>, lists[1]) BY <2>6, <2>9, <2>10, <3>1, WordsTaken
    <3> QED BY <3>1, <3>2
  <2> HIDE DEF l, w
  <2>12. \A k \in Nat : k <= n => a[l + Len(u[k])] = ArgvState(SubSeq(lists, 1, k), lists[k + 1])
    <3> DEFINE S == {k \in Nat : k <= n => a[l + Len(u[k])] = ArgvState(SubSeq(lists, 1, k), lists[k + 1])}
    <3>1. 0 \in S
      <4>1. Len(u[0]) = 0 /\ l + 0 = l /\ 0 + 1 = 1 BY <2>7, <2>8
      <4>2. SubSeq(lists, 1, 0) = <<>> BY SubSeqEmpty
      <4> QED BY <2>11, <4>1, <4>2
    <3>2. ASSUME NEW m \in Nat \ {0}, m - 1 \in S PROVE m \in S
      <4> SUFFICES ASSUME m <= n
                   PROVE  a[l + Len(u[m])] = ArgvState(SubSeq(lists, 1, m), lists[m + 1])
          OBVIOUS
      <4>1. m \in 1..n /\ m - 1 \in 0..n /\ m - 1 <= n /\ (m - 1) + 1 = m /\ m \in 1..n + 1
        BY <2>2
      <4> DEFINE p == l + Len(u[m - 1]) words == lists[m + 1] cmds == SubSeq(lists, 1, m - 1) current == lists[m]
      <4>2. a[p] = ArgvState(cmds, current) BY <3>2, <4>1
      <4>3. u[m - 1] \in Seq(Seq(1..255)) /\ part[m] \in Seq(Seq(1..255)) /\ part[m] = AfterSemi(words)
            /\ Len(u[m]) = Len(u[m - 1]) + Len(part[m]) /\ Command(words)
        BY <2>1, <2>4, <4>1 DEF Concatenates, PartsIn
      <4>4. current # <<>> BY <2>3, <4>1
      <4>5. p \in Nat /\ l + Len(u[m]) = p + Len(AfterSemi(words))
        <5> DEFINE x == Len(u[m - 1]) y == Len(AfterSemi(words))
        <5>1. x \in Nat /\ y \in Nat /\ Len(u[m]) = x + y BY <4>3, LenProperties
        <5> HIDE DEF x, y
        <5>2. l + (x + y) = (l + x) + y /\ l + x \in Nat BY <2>8, <5>1
        <5> QED BY <5>1, <5>2 DEF x, y
      <4>6. At(args, p, AfterSemi(words))
        <5>1. At(args, l + Len(u[m - 1]), part[m]) BY <2>1, <2>2, <2>8, <2>10, <4>1, AtPart
        <5> QED BY <4>3, <5>1
      <4> HIDE DEF p, words, cmds, current
      <4>7. a[p + Len(AfterSemi(words))] = ArgvState(Append(cmds, current), words)
        BY <2>9, <4>2, <4>3, <4>4, <4>5, <4>6, AfterSemiTaken
      <4>8. SubSeq(lists, 1, m) = Append(cmds, current)
        <5>1. m \in 1..Len(lists) BY <2>2, <4>1
        <5> QED BY <2>2, <5>1, PrefixGrows DEF cmds, current
      <4> QED BY <4>5, <4>7, <4>8 DEF words
    <3>3. Nat \subseteq S
      <4> HIDE DEF S
      <4> QED BY <3>1, <3>2, UpToAll
    <3> QED BY <3>3
  <2>13. a[Len(args)] = ArgvState(SubSeq(lists, 1, n), lists[n + 1])
    <3>1. n <= n BY <2>2
    <3> QED BY <2>2, <2>8, <2>12, <3>1
  <2>14. Append(SubSeq(lists, 1, n), lists[n + 1]) = lists
    <3>1. n + 1 \in 1..Len(lists) /\ (n + 1) - 1 = n BY <2>2
    <3>2. SubSeq(lists, 1, n + 1) = Append(SubSeq(lists, 1, (n + 1) - 1), lists[n + 1]) BY <2>2, <3>1, PrefixGrows
    <3>3. SubSeq(lists, 1, n + 1) = lists BY <2>2, SubSeqFull
    <3> QED BY <3>1, <3>2, <3>3
  <2>15. lists[n + 1] # <<>>
    <3>1. n + 1 \in 1..n + 1 BY <2>2
    <3> QED BY <2>3, <3>1
  <2>16. ArgvAfter(ArgvState(SubSeq(lists, 1, n), lists[n + 1])) = lists
    BY <2>14, <2>15 DEF ArgvAfter, ArgvState
  <2> QED BY <2>9, <2>13, <2>16 DEF args
<1> QED BY <1>1, <1>2

LEMMA InSeq == ASSUME NEW X, NEW Y, NEW s \in Seq(X), \A i \in 1..Len(s) : s[i] \in Y PROVE s \in Seq(Y)
OBVIOUS

\* For every list of commands that are given words, however many and however long, whatever bytes
\* they hold: both transports deliver the words that were meant, and the text is one line.
THEOREM ListsArrive ==
    \A lists \in Seq(Seq(Seq(0..255)) \ {<<>>}) : Arrives(lists)
<1> SUFFICES ASSUME NEW lists \in Seq(Seq(Seq(0..255)) \ {<<>>}),
                    \A i \in DOMAIN lists : ValidWords(lists[i])
             PROVE  /\ ParseSequence(TextOf(lists)) = Accepted(lists)
                    /\ ParsePayload(TextOf(lists)) = Accepted(lists)
                    /\ SplitArgvCommands(ArgvOf(lists)) = lists
                    /\ \A i \in DOMAIN TextOf(lists) : TextOf(lists)[i] # LF
  BY DEF Arrives
<1> DEFINE n == Len(lists)
<1>1. n \in Nat /\ DOMAIN lists = 1..n
      /\ \A i \in 1..n : lists[i] \in Seq(Seq(0..255)) /\ lists[i] # <<>> /\ ValidWords(lists[i])
  BY ElementOfSeq
<1>2. ASSUME NEW i \in 1..n PROVE lists[i] \in Seq(Seq(1..255)) /\ Command(lists[i])
  <2> DEFINE words == lists[i]
  <2>1. words \in Seq(Seq(0..255)) /\ words # <<>> /\ ValidCommand(words[1])
        /\ \A j \in DOMAIN words : ValidString(words[j])
    BY <1>1 DEF ValidWords
  <2> HIDE DEF words
  <2>2. \A j \in 1..Len(words) : words[j] \in Seq(1..255)
    <3> SUFFICES ASSUME NEW j \in 1..Len(words) PROVE words[j] \in Seq(1..255) OBVIOUS
    <3> DEFINE w == words[j]
    <3>1. w \in Seq(0..255) BY <2>1, ElementOfSeq
    <3>6. j \in DOMAIN words BY <2>1, LenProperties
    <3>7. \A k \in DOMAIN w : w[k] # 0 BY <2>1, <3>6 DEF ValidString
    <3> HIDE DEF w
    <3>2. \A k \in 1..Len(w) : w[k] \in 0..255 /\ w[k] # 0 BY <3>1, <3>7, ElementOfSeq, LenProperties
    <3>3. \A k \in 1..Len(w) : w[k] \in 1..255 BY <3>2
    <3> DEFINE X == 0..255 Y == 1..255
    <3>4. w \in Seq(X) /\ \A k \in 1..Len(w) : w[k] \in Y BY <3>1, <3>3
    <3> HIDE DEF X, Y
    <3>5. w \in Seq(Y) BY <3>4, InSeq
    <3> QED BY <3>5 DEF w, Y
  <2>3. words \in Seq(Seq(1..255)) BY <2>1, <2>2, InSeq
  <2> QED BY <2>1, <2>3 DEF Command, words
<1>3. CommandLists(lists)
  <2>1. lists \in Seq(Seq(Seq(1..255))) BY <1>1, <1>2
  <2> QED BY <1>2, <2>1 DEF CommandLists
<1>4. SplitSequence(TextOf(lists)) = Accepted(Texts(lists)) /\ TextOf(lists) \in Seq(Printable)
  BY <1>3, SequenceSplit
<1>5. Parsed(Texts(lists), TRUE) = Accepted(lists) /\ Parsed(Texts(lists), FALSE) = Accepted(lists)
  BY <1>3, TextsParsed
<1>6. ParseSequence(TextOf(lists)) = Accepted(lists) /\ ParsePayload(TextOf(lists)) = Accepted(lists)
  <2> DEFINE parts == SplitSequence(TextOf(lists))
  <2>1. parts.ok /\ parts.val = Texts(lists) BY <1>4 DEF Accepted
  <2> HIDE DEF parts
  <2> QED BY <1>5, <2>1 DEF ParseSequence, ParsePayload, parts
<1>7. \A i \in DOMAIN TextOf(lists) : TextOf(lists)[i] # LF
  <2> DEFINE text == TextOf(lists)
  <2>1. text \in Seq(Printable) BY <1>4
  <2> HIDE DEF text
  <2>2. \A i \in DOMAIN text : text[i] \in Printable BY <2>1, ElementOfSeq
  <2>3. LF \notin Printable BY DEF Printable, LF
  <2> QED BY <2>2, <2>3 DEF text
<1> QED BY <1>3, <1>6, <1>7, ArgvTaken

-----------------------------------------------------------------------------

(* The scan for words over a whole text and over a part of it.              *)
Same(s, p) ==
    /\ s.ok <=> p.ok
    /\ s.end <=> p.end
    /\ s.words = p.words /\ s.word = p.word /\ s.quote = p.quote
    /\ s.started <=> p.started
    /\ s.fresh <=> p.fresh
    /\ s.skip = p.skip

\* What the escape at i writes is the same in both texts, and so is what the byte at i is taken for.
SameAhead(text, i, part, j, p) ==
    /\ text[i] = part[j]
    /\ p.ok /\ ~p.end /\ ~(p.skip > 0) /\ CanEscape(part[j], p.quote)
       => EscapeAt(text, i) = EscapeAt(part, j)
    /\ \A s : Same(s, p) => (RefusedWordByte(text, i, s) <=> RefusedWordByte(part, j, p))

KeepsFields(s, t) == DOMAIN t = DOMAIN s /\ ("cmds" \in DOMAIN s => t.cmds = s.cmds)

LEMMA FlushedTogether ==
    ASSUME NEW s, NEW p, Fields \subseteq DOMAIN s, Fields \subseteq DOMAIN p, Same(s, p)
    PROVE  /\ Same(FlushWord(s), FlushWord(p))
           /\ DOMAIN FlushWord(s) = DOMAIN s /\ DOMAIN FlushWord(p) = DOMAIN p
           /\ "cmds" \in DOMAIN s => FlushWord(s).cmds = s.cmds
           /\ "cmds" \in DOMAIN p => FlushWord(p).cmds = p.cmds
           /\ ~FlushWord(s).started
<1>1. CASE s.started
  <2>1. p.started BY <1>1 DEF Same
  <2>2. FlushWord(s) = [s EXCEPT !.words = Append(s.words, s.word), !.word = <<>>, !.started = FALSE]
    BY <1>1 DEF FlushWord
  <2>3. FlushWord(p) = [p EXCEPT !.words = Append(p.words, p.word), !.word = <<>>, !.started = FALSE]
    BY <2>1 DEF FlushWord
  <2> QED BY <2>2, <2>3 DEF Same, Fields
<1>2. CASE ~s.started
  <2>1. ~p.started BY <1>2 DEF Same
  <2>2. FlushWord(s) = s BY <1>2 DEF FlushWord
  <2>3. FlushWord(p) = p BY <2>1 DEF FlushWord
  <2> QED BY <1>2, <2>2, <2>3
<1> QED BY <1>1, <1>2

LEMMA WordsTogether ==
    ASSUME NEW text, NEW i, NEW part, NEW j, NEW s, NEW p, Fields \subseteq DOMAIN s,
           Fields \subseteq DOMAIN p, Same(s, p), SameAhead(text, i, part, j, p)
    PROVE  /\ Same(WordStep(text, i, s), WordStep(part, j, p))
           /\ KeepsFields(s, WordStep(text, i, s)) /\ KeepsFields(p, WordStep(part, j, p))
<1> DEFINE c == text[i] e == EscapeAt(text, i) d == EscapeAt(part, j)
<1>0. c = part[j] BY DEF SameAhead
<1>1. CASE ~s.ok \/ s.end
  <2>1. ~p.ok \/ p.end BY <1>1 DEF Same
  <2>2. WordStep(text, i, s) = s BY <1>1 DEF WordStep
  <2>3. WordStep(part, j, p) = p BY <2>1 DEF WordStep
  <2> QED BY <2>2, <2>3 DEF KeepsFields
<1>2. CASE ~(~s.ok \/ s.end) /\ s.skip > 0
  <2>1. ~(~p.ok \/ p.end) /\ p.skip > 0 BY <1>2 DEF Same
  <2>2. WordStep(text, i, s) = [s EXCEPT !.skip = s.skip - 1] BY <1>2 DEF WordStep
  <2>3. WordStep(part, j, p) = [p EXCEPT !.skip = p.skip - 1] BY <2>1 DEF WordStep
  <2> QED BY <2>2, <2>3 DEF Same, Fields, KeepsFields
<1>3. CASE ~(~s.ok \/ s.end) /\ ~(s.skip > 0)
  <2>1. ~(~p.ok \/ p.end) /\ ~(p.skip > 0) /\ s.quote = p.quote BY <1>3 DEF Same
  <2>2. CASE s.quote = 0 /\ c \in Blanks
    <3>1. WordStep(text, i, s) = [FlushWord(s) EXCEPT !.fresh = TRUE] BY <1>3, <2>2 DEF WordStep
    <3>2. WordStep(part, j, p) = [FlushWord(p) EXCEPT !.fresh = TRUE]
      <4>1. p.quote = 0 /\ part[j] \in Blanks BY <1>0, <2>1, <2>2
      <4> QED BY <2>1, <4>1 DEF WordStep
    <3> DEFINE f == FlushWord(s) g == FlushWord(p)
    <3>3. Same(f, g) /\ DOMAIN f = DOMAIN s /\ DOMAIN g = DOMAIN p 
             /\ ("cmds" \in DOMAIN s => f.cmds = s.cmds) /\ ("cmds" \in DOMAIN p => g.cmds = p.cmds)
      BY FlushedTogether
    <3> HIDE DEF f, g
    <3>4. /\ Same([f EXCEPT !.fresh = TRUE], [g EXCEPT !.fresh = TRUE])
          /\ KeepsFields(s, [f EXCEPT !.fresh = TRUE]) /\ KeepsFields(p, [g EXCEPT !.fresh = TRUE])
      BY <3>3 DEF Same, Fields, KeepsFields
    <3> QED BY <3>1, <3>2, <3>3, <3>4 DEF f, g
  <2>3. CASE ~(s.quote = 0 /\ c \in Blanks) /\ IsComment(c, s.quote, s.started)
    <3>1. WordStep(text, i, s) = [s EXCEPT !.end = TRUE] BY <1>3, <2>3 DEF WordStep
    <3>2. WordStep(part, j, p) = [p EXCEPT !.end = TRUE]
      <4>1. ~(p.quote = 0 /\ part[j] \in Blanks) BY <1>0, <2>1, <2>3
      <4>2. IsComment(part[j], p.quote, p.started) BY <1>0, <2>1, <2>3 DEF IsComment, Same
      <4> QED BY <2>1, <4>1, <4>2 DEF WordStep
    <3> QED BY <3>1, <3>2 DEF Same, Fields, KeepsFields
  <2>4. CASE ~(s.quote = 0 /\ c \in Blanks) /\ ~IsComment(c, s.quote, s.started)
    <3>1. ~(p.quote = 0 /\ part[j] \in Blanks) /\ ~IsComment(part[j], p.quote, p.started)
      BY <1>0, <2>1, <2>4 DEF IsComment, Same
    <3> DEFINE bad == s.quote = 0 /\ (IsSequenceInvalid(c) \/ c = Semi)
               worse == RefusedWordByte(text, i, s)
    <3>2. bad <=> p.quote = 0 /\ (IsSequenceInvalid(part[j]) \/ part[j] = Semi) BY <1>0, <2>1
    <3>3. worse <=> RefusedWordByte(part, j, p) BY DEF SameAhead
    <3>4. CASE bad
      <4>1. WordStep(text, i, s) = [s EXCEPT !.ok = FALSE] BY <1>3, <2>4, <3>4 DEF WordStep
      <4>2. WordStep(part, j, p) = [p EXCEPT !.ok = FALSE] BY <2>1, <3>1, <3>2, <3>4 DEF WordStep
      <4> QED BY <4>1, <4>2 DEF Same, Fields, KeepsFields
    <3>5. CASE ~bad /\ Toggles(c, s.quote)
      <4>1. WordStep(text, i, s) = [s EXCEPT !.quote = Toggled(c, s.quote), !.started = TRUE, !.fresh = TRUE]
        BY <1>3, <2>4, <3>5 DEF WordStep
      <4>2. WordStep(part, j, p)
                = [p EXCEPT !.quote = Toggled(part[j], p.quote), !.started = TRUE, !.fresh = TRUE]
        <5>1. Toggles(part[j], p.quote) BY <1>0, <2>1, <3>5
        <5> QED BY <2>1, <3>1, <3>2, <3>5, <5>1 DEF WordStep
      <4>3. Toggled(c, s.quote) = Toggled(part[j], p.quote) BY <1>0, <2>1
      <4> QED BY <4>1, <4>2, <4>3 DEF Same, Fields, KeepsFields
    <3>6. CASE ~bad /\ ~Toggles(c, s.quote) /\ CanEscape(c, s.quote)
      <4>1. ~Toggles(part[j], p.quote) /\ CanEscape(part[j], p.quote) BY <1>0, <2>1, <3>6
      <4>2. e = d BY <2>1, <4>1 DEF SameAhead
      <4>3. WordStep(text, i, s) = [s EXCEPT !.ok = e.ok, !.word = s.word \o e.val,
                                             !.started = s.started \/ e.val # <<>>,
                                             !.skip = e.takes, !.fresh = FALSE]
        BY <1>3, <2>4, <3>6 DEF WordStep
      <4>4. WordStep(part, j, p) = [p EXCEPT !.ok = d.ok, !.word = p.word \o d.val,
                                             !.started = p.started \/ d.val # <<>>,
                                             !.skip = d.takes, !.fresh = FALSE]
        BY <2>1, <3>1, <3>2, <3>6, <4>1 DEF WordStep
      <4> HIDE DEF e, d, c
      <4> QED BY <4>2, <4>3, <4>4 DEF Same, Fields, KeepsFields
    <3>7. CASE ~bad /\ ~Toggles(c, s.quote) /\ ~CanEscape(c, s.quote)
      <4>1. ~Toggles(part[j], p.quote) /\ ~CanEscape(part[j], p.quote) BY <1>0, <2>1, <3>7
      <4>2. CASE worse
        <5>1. WordStep(text, i, s) = [s EXCEPT !.ok = FALSE] BY <1>3, <2>4, <3>7, <4>2 DEF WordStep
        <5>2. WordStep(part, j, p) = [p EXCEPT !.ok = FALSE]
          BY <2>1, <3>1, <3>2, <3>3, <3>7, <4>1, <4>2 DEF WordStep
        <5> QED BY <5>1, <5>2 DEF Same, Fields, KeepsFields
      <4>3. CASE ~worse
        <5>1. WordStep(text, i, s) = [s EXCEPT !.word = Append(s.word, c), !.started = TRUE, !.fresh = FALSE]
          BY <1>3, <2>4, <3>7, <4>3 DEF WordStep
        <5>2. WordStep(part, j, p)
                  = [p EXCEPT !.word = Append(p.word, part[j]), !.started = TRUE, !.fresh = FALSE]
          BY <2>1, <3>1, <3>2, <3>3, <3>7, <4>1, <4>3 DEF WordStep
        <5> HIDE DEF c
        <5> QED BY <1>0, <5>1, <5>2 DEF Same, Fields, KeepsFields
      <4> QED BY <4>2, <4>3
    <3> HIDE DEF bad
    <3> QED BY <3>4, <3>5, <3>6, <3>7
  <2> QED BY <2>2, <2>3, <2>4
<1> QED BY <1>1, <1>2, <1>3

\* What a part looks ahead to lies within it, unless it is refused.
LEMMA EscapeAhead ==
    ASSUME NEW text \in Seq(Nat), NEW q \in Nat, NEW part \in Seq(Nat), At(text, q, part),
           NEW j \in 1..Len(part), EscapeAt(part, j).ok
    PROVE  /\ EscapeAt(text, q + j) = EscapeAt(part, j)
           /\ EscapeAt(part, j).takes \in {1, 3} /\ j + EscapeAt(part, j).takes <= Len(part)
<1> DEFINE m == Len(part) n == Len(text) d == part[j + 1] o == OctalAt(part, j + 1)
<1>1. m \in Nat /\ n \in Nat OBVIOUS
<1>2. \A k \in 1..m : q + k \in 1..n /\ text[q + k] = part[k] BY DEF At
<1>3. j # m BY DEF EscapeAt
<1>4. j + 1 \in 1..m /\ q + j # n
  <2>1. j \in 1..m /\ q + j + 1 <= n
    <3> HIDE DEF m, n
    <3>1. j + 1 \in 1..m BY <1>1, <1>3 DEF m
    <3>2. q + (j + 1) \in 1..n BY <1>2, <3>1
    <3> QED BY <3>2 DEF m
  <2> HIDE DEF m, n
  <2> QED BY <1>1, <1>3, <2>1
<1>5. text[(q + j) + 1] = d
  <2>1. (q + j) + 1 = q + (j + 1) OBVIOUS
  <2> QED BY <1>2, <1>4, <2>1
<1> HIDE DEF d
<1>6. CASE d \in Octal
  <2>1. EscapeAt(part, j) = [ok |-> o.ok, val |-> o.val, takes |-> 3] BY <1>3, <1>6 DEF EscapeAt, d
  <2> HIDE DEF o
  <2>2. o.ok BY <2>1
  <2>3. j + 3 <= m /\ \A k \in j + 1..j + 3 : part[k] \in Octal
    <3> DEFINE v == 64 * (part[j + 1] - 48) + 8 * (part[j + 1 + 1] - 48) + part[j + 1 + 2] - 48
               good == j + 1 + 2 <= Len(part) /\ (\A k \in j + 1..j + 1 + 2 : part[k] \in Octal) /\ v \in 1..255
    <3>1. o = IF good THEN Accepted(<<v>>) ELSE Refused BY DEF o, OctalAt
    <3> HIDE DEF good
    <3>2. good BY <2>2, <3>1 DEF Refused
    <3>3. (j + 1) + 2 = j + 3 OBVIOUS
    <3> QED BY <3>2, <3>3 DEF good
  <2>4. /\ text[(q + j) + 1] = part[j + 1] /\ text[(q + j) + 1 + 1] = part[j + 1 + 1]
        /\ text[(q + j) + 1 + 2] = part[j + 1 + 2] /\ (q + j) + 3 <= n
    <3> HIDE DEF m, n
    <3>1. j + 1 \in 1..m /\ j + 1 + 1 \in 1..m /\ j + 1 + 2 \in 1..m BY <1>1, <1>4, <2>3
    <3>2. q + (j + 1) = (q + j) + 1 /\ q + (j + 1 + 1) = (q + j) + 1 + 1 /\ q + (j + 1 + 2) = (q + j) + 1 + 2
      OBVIOUS
    <3>3. q + (j + 1 + 2) \in 1..n BY <1>2, <3>1
    <3> QED BY <1>1, <1>2, <3>1, <3>2, <3>3
  <2>5. \A k \in (q + j) + 1..(q + j) + 1 + 2 : text[k] \in Octal
    <3> SUFFICES ASSUME NEW k \in (q + j) + 1..(q + j) + 1 + 2 PROVE text[k] \in Octal OBVIOUS
    <3>1. k = (q + j) + 1 \/ k = (q + j) + 1 + 1 \/ k = (q + j) + 1 + 2 OBVIOUS
    <3>2. j + 1 \in j + 1..j + 3 /\ j + 1 + 1 \in j + 1..j + 3 /\ j + 1 + 2 \in j + 1..j + 3 OBVIOUS
    <3> QED BY <2>3, <2>4, <3>1, <3>2
  <2>6. OctalAt(text, (q + j) + 1) = o
    <3>1. (q + j) + 1 + 2 <= Len(text) BY <2>4
    <3>2. j + 1 + 2 <= Len(part) BY <2>3
    <3>3. \A k \in j + 1..j + 1 + 2 : part[k] \in Octal BY <2>3
    <3> QED BY <2>4, <2>5, <3>1, <3>2, <3>3 DEF OctalAt, o
  <2>7. EscapeAt(text, q + j) = [ok |-> o.ok, val |-> o.val, takes |-> 3]
    BY <1>4, <1>5, <1>6, <2>6 DEF EscapeAt
  <2> QED BY <2>1, <2>3, <2>7
<1>7. CASE d \notin Octal
  <2> DEFINE w == IF d = LF THEN <<>> ELSE IF d \in DOMAIN Special THEN <<Special[d]>> ELSE <<d>>
  <2>1. EscapeAt(part, j) = [ok |-> TRUE, takes |-> 1, val |-> w] BY <1>3, <1>7 DEF EscapeAt, d
  <2>2. EscapeAt(text, q + j) = [ok |-> TRUE, takes |-> 1, val |-> w] BY <1>4, <1>5, <1>7 DEF EscapeAt
  <2> QED BY <1>4, <2>1, <2>2
<1> QED BY <1>6, <1>7

LEMMA RefusedIs ==
    ASSUME NEW text, NEW i, NEW s
    PROVE  RefusedWordByte(text, i, s)
           <=> \/ text[i] = 0
               \/ s.quote # SQ /\ text[i] = Dollar /\ (i < Len(text) /\ StartsVariable(text[i + 1]))
               \/ s.quote # SQ /\ text[i] = Tilde /\ s.fresh
BY DEF RefusedWordByte

LEMMA RefusedAhead ==
    ASSUME NEW text \in Seq(Nat), NEW q \in Nat, NEW part \in Seq(Nat), At(text, q, part),
           NEW j \in 1..Len(part), NEW s, NEW p, Same(s, p),
           q + Len(part) < Len(text) => ~StartsVariable(text[q + Len(part) + 1])
    PROVE  RefusedWordByte(text, q + j, s) <=> RefusedWordByte(part, j, p)
<1> DEFINE m == Len(part) n == Len(text) i == q + j
           ahead == i < n /\ StartsVariable(text[i + 1]) here == j < m /\ StartsVariable(part[j + 1])
<1>1. m \in Nat /\ n \in Nat OBVIOUS
<1>2. \A k \in 1..m : q + k \in 1..n /\ text[q + k] = part[k] BY DEF At
<1>3. ahead <=> here
  <2>1. CASE j = m
    <3>1. ~here BY <1>1, <2>1
    <3>2. i = q + m BY <2>1
    <3>3. ~ahead BY <3>2
    <3> QED BY <3>1, <3>3
  <2>2. CASE j # m
    <3> HIDE DEF m, n
    <3>1. j + 1 \in 1..m /\ j < m /\ q + (j + 1) = i + 1 BY <1>1, <2>2 DEF m
    <3>2. q + (j + 1) \in 1..n /\ text[q + (j + 1)] = part[j + 1] BY <1>2, <3>1
    <3>3. i < n /\ text[i + 1] = part[j + 1] BY <1>1, <3>1, <3>2
    <3> QED BY <3>1, <3>3
  <2> QED BY <2>1, <2>2
<1>4. text[i] = part[j] BY <1>2
<1>5. s.quote = p.quote /\ (s.fresh <=> p.fresh) BY DEF Same
<1>6. /\ RefusedWordByte(text, i, s)
         <=> \/ text[i] = 0
             \/ s.quote # SQ /\ text[i] = Dollar /\ (i < Len(text) /\ StartsVariable(text[i + 1]))
             \/ s.quote # SQ /\ text[i] = Tilde /\ s.fresh
      /\ RefusedWordByte(part, j, p)
         <=> \/ part[j] = 0
             \/ p.quote # SQ /\ part[j] = Dollar /\ (j < Len(part) /\ StartsVariable(part[j + 1]))
             \/ p.quote # SQ /\ part[j] = Tilde /\ p.fresh
  <2> HIDE DEF i
  <2> QED BY RefusedIs
<1> QED BY <1>3, <1>4, <1>5, <1>6

LEMMA EscapeTaken ==
    ASSUME NEW text, NEW i, NEW s, Fields \subseteq DOMAIN s, s.ok, ~s.end, ~(s.skip > 0),
           CanEscape(text[i], s.quote)
    PROVE  /\ WordStep(text, i, s).ok <=> EscapeAt(text, i).ok
           /\ WordStep(text, i, s).started <=> (s.started \/ EscapeAt(text, i).val # <<>>)
           /\ WordStep(text, i, s).skip = EscapeAt(text, i).takes
           /\ WordStep(text, i, s).quote = s.quote /\ WordStep(text, i, s).end = s.end
<1> DEFINE c == text[i] e == EscapeAt(text, i)
<1>1. c = Backslash BY DEF CanEscape
<1>2. c \notin Blanks /\ c # Hash /\ ~IsSequenceInvalid(c) /\ c # Semi /\ c # SQ /\ c # DQ
  BY <1>1 DEF Blanks, Space, Tab, Hash, IsSequenceInvalid, LBrace, RBrace, LF, Semi, SQ, DQ, Backslash
<1>3. ~IsComment(c, s.quote, s.started) /\ ~Toggles(c, s.quote) BY <1>2 DEF IsComment, Toggles
<1> HIDE DEF c
<1>4. WordStep(text, i, s) = [s EXCEPT !.ok = e.ok, !.word = s.word \o e.val,
                                       !.started = s.started \/ e.val # <<>>,
                                       !.skip = e.takes, !.fresh = FALSE]
  BY <1>2, <1>3 DEF WordStep, c
<1> HIDE DEF e
<1> QED BY <1>4 DEF Fields, e

\* A step over a part that is not refused is a step over the text.
LEMMA PartStep ==
    ASSUME NEW text \in Seq(Nat), NEW q \in Nat, NEW part \in Seq(Nat), At(text, q, part),
           NEW j \in 1..Len(part), q + Len(part) < Len(text) => ~StartsVariable(text[q + Len(part) + 1]),
           NEW p, Fields \subseteq DOMAIN p, WordStep(part, j, p).ok
    PROVE  SameAhead(text, q + j, part, j, p)
<1>1. text[q + j] = part[j] BY DEF At
<1>2. ASSUME p.ok /\ ~p.end /\ ~(p.skip > 0) /\ CanEscape(part[j], p.quote)
      PROVE  EscapeAt(text, q + j) = EscapeAt(part, j)
  <2>1. EscapeAt(part, j).ok BY <1>2, EscapeTaken
  <2> QED BY <2>1, EscapeAhead
<1>3. \A s : Same(s, p) => (RefusedWordByte(text, q + j, s) <=> RefusedWordByte(part, j, p))
  BY RefusedAhead
<1> QED BY <1>1, <1>2, <1>3 DEF SameAhead

-----------------------------------------------------------------------------
LEMMA GreatestNat ==
    ASSUME NEW m \in Nat, NEW S \in SUBSET (0..m), S # {}
    PROVE  \E k \in S : \A i \in S : i <= k
<1> DEFINE T == {m - i : i \in S}
<1>1. T \in SUBSET Nat /\ T # {}
  <2>1. \A i \in S : m - i \in Nat OBVIOUS
  <2>2. PICK i \in S : TRUE OBVIOUS
  <2>3. m - i \in T BY <2>2
  <2> QED BY <2>1, <2>3
<1>2. PICK x \in T : \A y \in T : x <= y
  <2> HIDE DEF T
  <2> QED BY <1>1, LeastNat
<1>3. PICK k \in S : x = m - k BY <1>2
<1>4. ASSUME NEW i \in S PROVE i <= k
  <2>1. m - i \in T BY <1>4
  <2>2. x <= m - i BY <1>2, <2>1
  <2>3. i \in 0..m /\ k \in 0..m BY <1>3, <1>4
  <2> QED BY <1>3, <2>2, <2>3
<1> QED BY <1>3, <1>4

\* What is trimmed off a part is blank.
LEMMA TrimIs ==
    ASSUME NEW text \in Seq(Nat), NEW lo \in Nat \ {0}, NEW hi \in Nat, hi <= Len(text), lo <= hi + 1
    PROVE  /\ TrimBlanks(SubSeq(text, lo, hi)) \in Seq(Nat)
           /\ \E q \in Nat :
                 /\ At(text, q, TrimBlanks(SubSeq(text, lo, hi)))
                 /\ lo <= q + 1 /\ q + Len(TrimBlanks(SubSeq(text, lo, hi))) <= hi
                 /\ BlankIn(text, lo, q)
                 /\ BlankIn(text, q + Len(TrimBlanks(SubSeq(text, lo, hi))) + 1, hi)
<1> DEFINE s == SubSeq(text, lo, hi) t == TrimBlanks(s) keep == {i \in DOMAIN s : s[i] \notin Blanks}
           l == hi - lo + 1
<1>1. Len(text) \in Nat /\ l \in Nat OBVIOUS
<1>2. s \in Seq(Nat) /\ Len(s) = l /\ \A i \in 1..l : s[i] = text[lo + i - 1]
  <2>1. \A i \in lo..hi : i \in 1..Len(text) BY <1>1
  <2>2. \A i \in lo..hi : text[i] \in Nat BY <2>1, ElementOfSeq
  <2>3. lo \in Int /\ hi \in Int OBVIOUS
  <2>4. /\ SubSeq(text, lo, hi) \in Seq(Nat)
        /\ Len(SubSeq(text, lo, hi)) = IF lo <= hi THEN hi - lo + 1 ELSE 0
        /\ \A i \in 1..hi - lo + 1 : SubSeq(text, lo, hi)[i] = text[lo + i - 1]
    BY <2>2, <2>3, SubSeqProperties
  <2>5. lo <= hi \/ l = 0 OBVIOUS
  <2> QED BY <2>4, <2>5
<1>3. DOMAIN s = 1..l BY <1>2, LenProperties
<1> HIDE DEF s
<1>4. CASE keep = {}
  <2>1. t = <<>> BY <1>4 DEF TrimBlanks
  <2>2. BlankIn(text, lo, hi)
    <3> SUFFICES ASSUME NEW k \in lo..hi PROVE text[k] \in Blanks BY DEF BlankIn
    <3>1. k - lo + 1 \in 1..l /\ lo + (k - lo + 1) - 1 = k BY <1>1
    <3>2. k - lo + 1 \in DOMAIN s /\ s[k - lo + 1] = text[k] BY <1>2, <1>3, <3>1
    <3> QED BY <1>4, <3>2
  <2>3. Len(<<>>) = 0 /\ At(text, hi, <<>>) /\ hi + 0 = hi BY DEF At
  <2>4. BlankIn(text, hi + Len(<<>>) + 1, hi)
    <3>1. (hi + Len(<<>>) + 1)..hi = {} BY <2>3
    <3> QED BY <3>1 DEF BlankIn
  <2>5. <<>> \in Seq(Nat) /\ hi + Len(<<>>) <= hi BY <2>3
  <2>6. t \in Seq(Nat) /\ At(text, hi, t) /\ lo <= hi + 1 /\ hi + Len(t) <= hi /\ BlankIn(text, lo, hi)
        /\ BlankIn(text, hi + Len(t) + 1, hi)
    BY <2>1, <2>2, <2>3, <2>4, <2>5
  <2> QED BY <2>6 DEF s
<1>5. CASE keep # {}
  <2>1. keep \in SUBSET Nat /\ keep \in SUBSET (0..l) /\ keep \in SUBSET Int BY <1>1, <1>3
  <2>2. \A i \in keep : i \in 1..l /\ s[i] \notin Blanks BY <1>3
  <2>3. \A i \in 1..l : s[i] \notin Blanks => i \in keep BY <1>3
  <2>4. t = SubSeq(s, Min(keep), Max(keep)) BY <1>5 DEF TrimBlanks
  <2> HIDE DEF keep, t, l
  <2>5. PICK x \in keep : \A i \in keep : x <= i BY <1>5, <2>1, LeastNat
  <2>6. PICK y \in keep : \A i \in keep : i <= y BY <1>1, <1>5, <2>1, GreatestNat
  <2>7. Min(keep) = x /\ Max(keep) = y BY <2>1, <2>5, <2>6, LeastIs, GreatestIs
  <2>8. x \in 1..l /\ y \in 1..l /\ x <= y BY <2>2, <2>5, <2>6
  <2>9. t \in Seq(Nat) /\ Len(t) = y - x + 1 /\ \A i \in 1..y - x + 1 : t[i] = s[x + i - 1]
    <3>1. \A i \in x..y : i \in 1..Len(s) BY <1>1, <1>2, <2>8
    <3>2. \A i \in x..y : s[i] \in Nat BY <1>2, <3>1, ElementOfSeq
    <3>3. x \in Int /\ y \in Int BY <2>8
    <3>4. /\ SubSeq(s, x, y) \in Seq(Nat)
          /\ Len(SubSeq(s, x, y)) = IF x <= y THEN y - x + 1 ELSE 0
          /\ \A i \in 1..y - x + 1 : SubSeq(s, x, y)[i] = s[x + i - 1]
      BY <3>2, <3>3, SubSeqProperties
    <3> QED BY <2>4, <2>7, <2>8, <3>4
  <2> DEFINE q == lo + x - 2 m == Len(t)
  <2>10. q \in Nat /\ m = y - x + 1 /\ lo <= q + 1 /\ q + m <= hi BY <1>1, <2>8, <2>9 DEF l
  <2>11. At(text, q, t)
    <3> SUFFICES ASSUME NEW j \in 1..m PROVE q + j \in 1..Len(text) /\ text[q + j] = t[j] BY DEF At
    <3>1. j \in 1..y - x + 1 BY <2>10
    <3>2. x + j - 1 \in 1..l /\ lo + (x + j - 1) - 1 = q + j BY <1>1, <2>8, <3>1
    <3>3. s[x + j - 1] = text[q + j] BY <1>2, <3>2
    <3>4. q + j \in 1..Len(text) BY <1>1, <2>8, <3>1 DEF l
    <3> QED BY <2>9, <3>1, <3>3, <3>4
  <2>12. BlankIn(text, lo, q)
    <3> SUFFICES ASSUME NEW k \in lo..q PROVE text[k] \in Blanks BY DEF BlankIn
    <3>1. k - lo + 1 \in 1..l /\ lo + (k - lo + 1) - 1 = k /\ ~(x <= k - lo + 1) BY <1>1, <2>8 DEF l
    <3> QED BY <1>2, <2>3, <2>5, <3>1
  <2>13. BlankIn(text, q + m + 1, hi)
    <3> SUFFICES ASSUME NEW k \in (q + m + 1)..hi PROVE text[k] \in Blanks BY DEF BlankIn
    <3>1. k \in Int /\ q + m + 1 <= k /\ k <= hi BY <2>10
    <3>2. k - lo + 1 \in 1..l /\ lo + (k - lo + 1) - 1 = k /\ ~(k - lo + 1 <= y)
      BY <1>1, <2>8, <2>10, <3>1 DEF l
    <3> QED BY <1>2, <2>3, <2>6, <3>2
  <2> HIDE DEF q, m
  <2> QED BY <2>9, <2>10, <2>11, <2>12, <2>13 DEF m, t, s
<1> QED BY <1>4, <1>5

\* A scan that is not refused was not refused before.
LEMMA OkBefore ==
    ASSUME NEW m \in Nat, NEW a, \A j \in 1..m : a[j].ok => a[j - 1].ok, a[m].ok
    PROVE  \A j \in 0..m : a[j].ok
<1> DEFINE S == {k \in Nat : k <= m => a[m - k].ok}
<1>1. 0 \in S
  <2>1. m - 0 = m OBVIOUS
  <2> QED BY <2>1
<1>2. ASSUME NEW k \in Nat \ {0}, k - 1 \in S PROVE k \in S
  <2> SUFFICES ASSUME k <= m PROVE a[m - k].ok OBVIOUS
  <2>1. k - 1 <= m /\ m - (k - 1) \in 1..m /\ (m - (k - 1)) - 1 = m - k OBVIOUS
  <2>2. a[m - (k - 1)].ok BY <1>2, <2>1
  <2>3. a[(m - (k - 1)) - 1].ok BY <2>1, <2>2
  <2> QED BY <2>1, <2>3
<1>3. Nat \subseteq S
  <2> HIDE DEF S
  <2> QED BY <1>1, <1>2, UpToAll
<1>4. ASSUME NEW j \in 0..m PROVE a[j].ok
  <2>1. m - j \in Nat /\ m - j <= m /\ m - (m - j) = j OBVIOUS
  <2>2. m - j \in S BY <1>3, <2>1
  <2>3. a[m - (m - j)].ok BY <2>1, <2>2
  <2> QED BY <2>1, <2>3
<1> QED BY <1>4

-----------------------------------------------------------------------------
(* The one scan over the bytes of a part.                                   *)
CommandFields == Fields \cup {"cmds"}

Begun(s, cmds) ==
    /\ DOMAIN s = CommandFields /\ s.ok /\ ~s.end
    /\ s.cmds = cmds /\ s.words = <<>> /\ s.word = <<>> /\ s.quote = 0
    /\ ~s.started /\ s.fresh /\ s.skip = 0

Finished(s, cmds, ws) ==
    /\ DOMAIN s = CommandFields /\ s.ok /\ ~s.end
    /\ s.cmds = cmds /\ s.quote = 0 /\ s.skip = 0 /\ FlushWord(s).words = ws

EndsCommand(text, i, s) == s.ok /\ ~s.end /\ s.skip = 0 /\ s.quote = 0 /\ text[i] = Semi

LEMMA WordContinued ==
    ASSUME NEW text, NEW i, NEW s, ~EndsCommand(text, i, s)
    PROVE  CommandStep(text, i, s) = WordStep(text, i, s)
BY DEF CommandStep, EndsCommand

LEMMA BlankBegun ==
    ASSUME NEW text, NEW i, NEW s, NEW cmds, Begun(s, cmds), text[i] \in Blanks
    PROVE  Begun(WordStep(text, i, s), cmds)
<1>1. s.ok /\ ~s.end /\ ~(s.skip > 0) /\ s.quote = 0 BY DEF Begun
<1>2. FlushWord(s) = s BY DEF FlushWord, Begun
<1>3. WordStep(text, i, s) = [s EXCEPT !.fresh = TRUE] BY <1>1, <1>2 DEF WordStep
<1> QED BY <1>3 DEF Begun, CommandFields, Fields

LEMMA BlankFinished ==
    ASSUME NEW text, NEW i, NEW s, NEW cmds, NEW ws, Finished(s, cmds, ws), text[i] \in Blanks
    PROVE  Finished(WordStep(text, i, s), cmds, ws)
<1> DEFINE f == FlushWord(s) g == [f EXCEPT !.fresh = TRUE]
<1>1. s.ok /\ ~s.end /\ ~(s.skip > 0) /\ s.quote = 0 BY DEF Finished
<1>2. WordStep(text, i, s) = g BY <1>1 DEF WordStep
<1>3. Fields \subseteq DOMAIN s /\ "cmds" \in DOMAIN s /\ Same(s, s) BY DEF Finished, CommandFields, Same
<1>4. DOMAIN f = DOMAIN s /\ f.cmds = s.cmds /\ ~f.started BY <1>3, FlushedTogether
<1>5. (f.ok <=> s.ok) /\ (f.end <=> s.end) /\ f.quote = s.quote /\ f.skip = s.skip
  <2>1. CASE s.started
    <3>1. f = [s EXCEPT !.words = Append(s.words, s.word), !.word = <<>>, !.started = FALSE]
      BY <2>1 DEF FlushWord
    <3> HIDE DEF f
    <3> QED BY <3>1, <1>3 DEF Fields
  <2>2. CASE ~s.started
    <3>1. f = s BY <2>2 DEF FlushWord
    <3> HIDE DEF f
    <3> QED BY <3>1
  <2> QED BY <2>1, <2>2
<1>6. f.words = ws BY DEF Finished
<1> HIDE DEF f
<1>7. /\ DOMAIN g = DOMAIN f /\ g.cmds = f.cmds /\ (g.started <=> f.started) /\ (g.ok <=> f.ok)
      /\ (g.end <=> f.end) /\ g.quote = f.quote /\ g.skip = f.skip /\ g.words = f.words
  BY <1>3, <1>4 DEF Fields
<1> HIDE DEF g
<1>8. FlushWord(g) = g BY <1>4, <1>7 DEF FlushWord
<1>9. Finished(g, cmds, ws) BY <1>4, <1>5, <1>6, <1>7, <1>8 DEF Finished
<1> QED BY <1>2, <1>9

LEMMA WordOkBefore == ASSUME NEW text, NEW i, NEW s, WordStep(text, i, s).ok PROVE s.ok
<1>1. ~s.ok => WordStep(text, i, s) = s BY DEF WordStep
<1> QED BY <1>1

\* Only an escape makes the scan skip bytes.
LEMMA SkipAfter ==
    ASSUME NEW text, NEW i, NEW s, Fields \subseteq DOMAIN s, s.ok, ~s.end, s.skip \in Nat
    PROVE  /\ s.skip > 0 => WordStep(text, i, s).skip = s.skip - 1
           /\ s.skip = 0 /\ ~CanEscape(text[i], s.quote) => WordStep(text, i, s).skip = 0
<1> DEFINE c == text[i]
<1>1. CASE s.skip > 0
  <2>1. WordStep(text, i, s) = [s EXCEPT !.skip = s.skip - 1] BY <1>1 DEF WordStep
  <2> QED BY <1>1, <2>1 DEF Fields
<1>2. CASE s.skip = 0 /\ ~CanEscape(c, s.quote)
  <2>0. ~(s.skip > 0) /\ ~(~s.ok \/ s.end) BY <1>2
  <2>1. CASE s.quote = 0 /\ c \in Blanks
    <3> DEFINE f == FlushWord(s)
    <3>1. WordStep(text, i, s) = [f EXCEPT !.fresh = TRUE] BY <2>0, <2>1 DEF WordStep
    <3>2. Same(f, f) /\ DOMAIN f = DOMAIN s /\ f.skip = s.skip
      <4>1. Same(s, s) BY DEF Same
      <4>2. DOMAIN f = DOMAIN s BY <4>1, FlushedTogether
      <4>3. CASE s.started
        <5>1. f = [s EXCEPT !.words = Append(s.words, s.word), !.word = <<>>, !.started = FALSE]
          BY <4>3 DEF FlushWord
        <5> HIDE DEF f
        <5> QED BY <4>2, <5>1 DEF Fields, Same
      <4>4. CASE ~s.started
        <5>1. f = s BY <4>4 DEF FlushWord
        <5> HIDE DEF f
        <5> QED BY <4>2, <5>1 DEF Same
      <4> QED BY <4>3, <4>4
    <3> HIDE DEF f
    <3> QED BY <1>2, <3>1, <3>2 DEF Fields
  <2>2. CASE ~(s.quote = 0 /\ c \in Blanks) /\ IsComment(c, s.quote, s.started)
    <3>1. WordStep(text, i, s) = [s EXCEPT !.end = TRUE] BY <2>0, <2>2 DEF WordStep
    <3> QED BY <1>2, <3>1 DEF Fields
  <2>3. CASE ~(s.quote = 0 /\ c \in Blanks) /\ ~IsComment(c, s.quote, s.started)
    <3> DEFINE bad == s.quote = 0 /\ (IsSequenceInvalid(c) \/ c = Semi) worse == RefusedWordByte(text, i, s)
    <3>1. CASE bad
      <4>1. WordStep(text, i, s) = [s EXCEPT !.ok = FALSE] BY <2>0, <2>3, <3>1 DEF WordStep
      <4> QED BY <1>2, <4>1 DEF Fields
    <3>2. CASE ~bad /\ Toggles(c, s.quote)
      <4>1. WordStep(text, i, s) = [s EXCEPT !.quote = Toggled(c, s.quote), !.started = TRUE, !.fresh = TRUE]
        BY <2>0, <2>3, <3>2 DEF WordStep
      <4> QED BY <1>2, <4>1 DEF Fields
    <3>3. CASE ~bad /\ ~Toggles(c, s.quote) /\ worse
      <4>1. WordStep(text, i, s) = [s EXCEPT !.ok = FALSE] BY <1>2, <2>0, <2>3, <3>3 DEF WordStep
      <4> QED BY <1>2, <4>1 DEF Fields
    <3>4. CASE ~bad /\ ~Toggles(c, s.quote) /\ ~worse
      <4>1. WordStep(text, i, s) = [s EXCEPT !.word = Append(s.word, c), !.started = TRUE, !.fresh = FALSE]
        BY <1>2, <2>0, <2>3, <3>4 DEF WordStep
      <4> QED BY <1>2, <4>1 DEF Fields
    <3> HIDE DEF bad, worse
    <3> QED BY <3>1, <3>2, <3>3, <3>4
  <2> QED BY <2>1, <2>2, <2>3
<1> QED BY <1>1, <1>2

LEMMA SkipWithin ==
    ASSUME NEW part \in Seq(Nat), NEW j \in 1..Len(part), NEW p, Fields \subseteq DOMAIN p, ~p.end,
           WordStep(part, j, p).ok, p.skip \in Nat, (j - 1) + p.skip <= Len(part)
    PROVE  WordStep(part, j, p).skip \in Nat /\ j + WordStep(part, j, p).skip <= Len(part)
<1> DEFINE m == Len(part) w == WordStep(part, j, p)
<1>1. m \in Nat /\ j \in 1..m OBVIOUS
<1>2. p.ok BY WordOkBefore
<1>3. CASE p.skip > 0
  <2>1. w.skip = p.skip - 1 BY <1>2, <1>3, SkipAfter
  <2> HIDE DEF w
  <2> QED BY <1>1, <1>3, <2>1 DEF w
<1>4. CASE p.skip = 0 /\ ~CanEscape(part[j], p.quote)
  <2>1. w.skip = 0 BY <1>2, <1>4, SkipAfter
  <2> HIDE DEF w
  <2> QED BY <1>1, <2>1 DEF w
<1>5. CASE p.skip = 0 /\ CanEscape(part[j], p.quote)
  <2>0. ~(p.skip > 0) BY <1>5
  <2>1. EscapeAt(part, j).ok /\ w.skip = EscapeAt(part, j).takes BY <1>2, <1>5, <2>0, EscapeTaken
  <2>2. At(part, 0, part) /\ 0 \in Nat BY AtSelf
  <2>3. EscapeAt(part, j).takes \in {1, 3} /\ j + EscapeAt(part, j).takes <= m BY <2>1, <2>2, EscapeAhead
  <2> HIDE DEF w
  <2> QED BY <1>1, <2>1, <2>3 DEF w
<1> QED BY <1>3, <1>4, <1>5

CommandRun(c, text) == \A i \in 1..Len(text) : c[i] = CommandStep(text, i, c[i - 1])

\* From the first byte of a part to its last, blanks included, no command ends and no comment begins.
Inside(text, c, from, to) ==
    \A i \in from..to : ~EndsCommand(text, i, c[i - 1]) /\ (c[i].ok => ~c[i].end)

LEMMA BlanksBefore ==
    ASSUME NEW text \in Seq(Nat), NEW c, CommandRun(c, text), NEW from \in Nat \ {0}, NEW to \in Nat,
           to <= Len(text), Inside(text, c, from, to), NEW cmds, Begun(c[from - 1], cmds),
           NEW q \in Nat, from <= q + 1, q <= to, BlankIn(text, from, q)
    PROVE  Begun(c[q], cmds)
<1> DEFINE S == {k \in Nat : (from - 1) + k <= q => Begun(c[(from - 1) + k], cmds)}
<1>1. 0 \in S
  <2>1. (from - 1) + 0 = from - 1 OBVIOUS
  <2> QED BY <2>1
<1>2. ASSUME NEW k \in Nat \ {0}, k - 1 \in S PROVE k \in S
  <2> SUFFICES ASSUME (from - 1) + k <= q PROVE Begun(c[(from - 1) + k], cmds) OBVIOUS
  <2> DEFINE i == (from - 1) + k
  <2>1. i \in from..q /\ i \in from..to /\ i \in 1..Len(text) /\ i - 1 = (from - 1) + (k - 1)
        /\ (from - 1) + (k - 1) <= q
    OBVIOUS
  <2>2. Begun(c[i - 1], cmds) BY <1>2, <2>1
  <2> HIDE DEF i
  <2>3. c[i] = CommandStep(text, i, c[i - 1]) BY <2>1 DEF CommandRun
  <2>4. c[i] = WordStep(text, i, c[i - 1]) BY <2>1, <2>3, WordContinued DEF Inside
  <2>5. text[i] \in Blanks BY <2>1 DEF BlankIn
  <2>6. Begun(c[i], cmds) BY <2>2, <2>4, <2>5, BlankBegun
  <2> QED BY <2>6 DEF i
<1>3. Nat \subseteq S
  <2> HIDE DEF S
  <2> QED BY <1>1, <1>2, UpToAll
<1>4. q - (from - 1) \in Nat /\ (from - 1) + (q - (from - 1)) = q /\ (from - 1) + (q - (from - 1)) <= q OBVIOUS
<1>5. q - (from - 1) \in S BY <1>3, <1>4
<1>6. Begun(c[(from - 1) + (q - (from - 1))], cmds) BY <1>4, <1>5
<1> QED BY <1>4, <1>6

LEMMA BlanksAfter ==
    ASSUME NEW text \in Seq(Nat), NEW c, CommandRun(c, text), NEW from \in Nat \ {0}, NEW to \in Nat,
           to <= Len(text), Inside(text, c, from, to), NEW cmds, NEW ws, NEW p \in Nat, from <= p + 1,
           p <= to, BlankIn(text, p + 1, to), Finished(c[p], cmds, ws)
    PROVE  Finished(c[to], cmds, ws)
<1> DEFINE S == {k \in Nat : p + k <= to => Finished(c[p + k], cmds, ws)}
<1>1. 0 \in S
  <2>1. p + 0 = p OBVIOUS
  <2> QED BY <2>1
<1>2. ASSUME NEW k \in Nat \ {0}, k - 1 \in S PROVE k \in S
  <2> SUFFICES ASSUME p + k <= to PROVE Finished(c[p + k], cmds, ws) OBVIOUS
  <2> DEFINE i == p + k
  <2>1. i \in p + 1..to /\ i \in from..to /\ i \in 1..Len(text) /\ i - 1 = p + (k - 1) /\ p + (k - 1) <= to
    OBVIOUS
  <2>2. Finished(c[i - 1], cmds, ws) BY <1>2, <2>1
  <2> HIDE DEF i
  <2>3. c[i] = CommandStep(text, i, c[i - 1]) BY <2>1 DEF CommandRun
  <2>4. c[i] = WordStep(text, i, c[i - 1]) BY <2>1, <2>3, WordContinued DEF Inside
  <2>5. text[i] \in Blanks BY <2>1 DEF BlankIn
  <2>6. Finished(c[i], cmds, ws) BY <2>2, <2>4, <2>5, BlankFinished
  <2> QED BY <2>6 DEF i
<1>3. Nat \subseteq S
  <2> HIDE DEF S
  <2> QED BY <1>1, <1>2, UpToAll
<1>4. to - p \in Nat /\ p + (to - p) = to /\ p + (to - p) <= to OBVIOUS
<1>5. to - p \in S BY <1>3, <1>4
<1>6. Finished(c[p + (to - p)], cmds, ws) BY <1>4, <1>5
<1> QED BY <1>4, <1>6

\* The scan of the part, beside the one of the text.
Beside(s, p, cmds, j, m) ==
    /\ DOMAIN s = CommandFields /\ DOMAIN p = Fields /\ s.cmds = cmds /\ Same(s, p)
    /\ ~p.end /\ p.skip \in Nat /\ j + p.skip <= m

LEMMA PartBeside ==
    ASSUME NEW text \in Seq(Nat), NEW c, CommandRun(c, text), NEW from \in Nat \ {0}, NEW to \in Nat,
           to <= Len(text), Inside(text, c, from, to), NEW cmds, NEW q \in Nat, from <= q + 1,
           NEW part \in Seq(Nat), At(text, q, part), q + Len(part) <= to,
           q + Len(part) < Len(text) => ~StartsVariable(text[q + Len(part) + 1]),
           Begun(c[q], cmds), NEW a, a[0] = NoWords, WordRun(a, part), a[Len(part)].ok
    PROVE  Beside(c[q + Len(part)], a[Len(part)], cmds, Len(part), Len(part))
<1> DEFINE m == Len(part) S == {j \in Nat : j <= m => Beside(c[q + j], a[j], cmds, j, m)}
<1>1. m \in Nat /\ Len(text) \in Nat OBVIOUS
<1>2. \A j \in 0..m : a[j].ok
  <2>1. ASSUME NEW j \in 1..m, a[j].ok PROVE a[j - 1].ok
    <3>1. a[j] = WordStep(part, j, a[j - 1]) BY <2>1 DEF WordRun
    <3>2. WordStep(part, j, a[j - 1]).ok BY ONLY <2>1, <3>1
    <3> QED BY ONLY <3>2, WordOkBefore
  <2> HIDE DEF m
  <2> QED BY <1>1, <2>1, OkBefore DEF m
<1>3. 0 \in S
  <2>1. q + 0 = q /\ 0 + 0 <= m BY <1>1
  <2>2. DOMAIN NoWords = Fields BY DEF NoWords, Fields
  <2>3. NoWords.ok /\ ~NoWords.end /\ NoWords.words = <<>> /\ NoWords.word = <<>> /\ NoWords.quote = 0
        /\ ~NoWords.started /\ NoWords.fresh /\ NoWords.skip = 0
    BY DEF NoWords
  <2> HIDE DEF m
  <2>4. Beside(c[q], NoWords, cmds, 0, m) BY <2>1, <2>2, <2>3 DEF Beside, Begun, Same
  <2> QED BY <2>1, <2>4
<1>4. ASSUME NEW j \in Nat \ {0}, j - 1 \in S PROVE j \in S
  <2> SUFFICES ASSUME j <= m PROVE Beside(c[q + j], a[j], cmds, j, m) OBVIOUS
  <2> DEFINE i == q + j s == c[i - 1] p == a[j - 1]
  <2>1. j \in 1..m /\ j - 1 <= m /\ i - 1 = q + (j - 1) BY <1>1
  <2>2. i \in from..to /\ i \in 1..Len(text)
    <3> HIDE DEF m
    <3>1. q + m <= to BY DEF m
    <3> QED BY <1>1, <2>1, <3>1
  <2>3. Beside(s, p, cmds, j - 1, m) BY <1>4, <2>1
  <2>4. c[i] = WordStep(text, i, s)
    <3>1. c[i] = CommandStep(text, i, c[i - 1]) BY <2>2 DEF CommandRun
    <3> HIDE DEF i
    <3> QED BY <2>2, <3>1, WordContinued DEF Inside
  <2>5. a[j] = WordStep(part, j, p) /\ a[j].ok BY <1>2, <2>1 DEF WordRun
  <2>6. Fields \subseteq DOMAIN s /\ Fields \subseteq DOMAIN p /\ "cmds" \in DOMAIN s /\ Same(s, p)
        /\ ~p.end /\ p.skip \in Nat /\ (j - 1) + p.skip <= m
    BY <2>3 DEF Beside, CommandFields
  <2> HIDE DEF s, p
  <2>7. SameAhead(text, i, part, j, p) BY <2>1, <2>5, <2>6, PartStep
  <2>8. /\ Same(WordStep(text, i, s), WordStep(part, j, p))
        /\ KeepsFields(s, WordStep(text, i, s)) /\ KeepsFields(p, WordStep(part, j, p))
    BY <2>6, <2>7, WordsTogether
  <2>9. WordStep(part, j, p).skip \in Nat /\ j + WordStep(part, j, p).skip <= m
    BY <2>1, <2>5, <2>6, SkipWithin
  <2>10. Same(c[i], a[j]) /\ DOMAIN c[i] = CommandFields /\ DOMAIN a[j] = Fields /\ c[i].cmds = cmds
         /\ a[j].skip \in Nat /\ j + a[j].skip <= m
    BY <2>3, <2>4, <2>5, <2>6, <2>8, <2>9 DEF Beside, KeepsFields
  <2> HIDE DEF i
  <2>11. ~a[j].end
    <3>1. c[i].ok BY <2>5, <2>10 DEF Same
    <3>2. ~c[i].end BY <2>2, <3>1 DEF Inside
    <3> QED BY <2>10, <3>2 DEF Same
  <2>12. Beside(c[i], a[j], cmds, j, m) BY <2>10, <2>11 DEF Beside
  <2> QED BY <2>12 DEF i
<1>5. Nat \subseteq S
  <2> HIDE DEF S
  <2> QED BY <1>3, <1>4, UpToAll
<1>6. m \in S /\ m <= m BY <1>1, <1>5
<1> QED BY <1>6

\* What the one scan has read when it comes to the end of a part are the words of the part.
LEMMA PartRead ==
    ASSUME NEW text \in Seq(Nat), NEW c, CommandRun(c, text), NEW from \in Nat \ {0}, NEW to \in Nat,
           to <= Len(text), from <= to + 1, Inside(text, c, from, to),
           to < Len(text) => text[to + 1] \in {Semi, Hash},
           NEW cmds, Begun(c[from - 1], cmds),
           ParseWords(TrimBlanks(SubSeq(text, from, to))).ok
    PROVE  Finished(c[to], cmds, ParseWords(TrimBlanks(SubSeq(text, from, to))).val)
<1> DEFINE part == TrimBlanks(SubSeq(text, from, to)) m == Len(part) ws == ParseWords(part).val
<1>1. part \in Seq(Nat) BY TrimIs
<1>2. PICK q \in Nat : At(text, q, part) /\ from <= q + 1 /\ q + Len(part) <= to /\ BlankIn(text, from, q)
                       /\ BlankIn(text, q + Len(part) + 1, to)
  BY TrimIs
<1>3. ParseWords(part).ok OBVIOUS
<1> HIDE DEF part
<1>4. m \in Nat /\ Len(text) \in Nat BY <1>1
<1>5. PICK a : a[0] = NoWords /\ WordRun(a, part) /\ ParseWords(part) = WordsAfter(a[m])
  BY <1>4, WordsScanned DEF WordRun
<1>6. a[m].ok /\ a[m].quote = 0 /\ FlushWord(a[m]).words = ws
  <2>1. WordsAfter(a[m]).ok BY <1>3, <1>5
  <2>2. ~Refused.ok BY DEF Refused
  <2>3. a[m].ok /\ a[m].quote = 0 BY <2>1, <2>2 DEF WordsAfter
  <2>4. WordsAfter(a[m]) = Accepted(FlushWord(a[m]).words) BY <2>3 DEF WordsAfter
  <2>5. Accepted(FlushWord(a[m]).words).val = FlushWord(a[m]).words BY DEF Accepted
  <2> QED BY <1>5, <2>3, <2>4, <2>5
<1>7. q <= to /\ q + m \in Nat /\ from <= q + m + 1 BY <1>2, <1>4
<1>8. Begun(c[q], cmds) BY <1>2, <1>7, BlanksBefore
<1>9. q + m < Len(text) => ~StartsVariable(text[q + m + 1])
  <2> SUFFICES ASSUME q + m < Len(text) PROVE ~StartsVariable(text[q + m + 1]) OBVIOUS
  <2>1. \A b \in Blanks \cup {Semi, Hash} : ~StartsVariable(b)
    BY DEF Blanks, Space, Tab, Semi, Hash, StartsVariable, Letter, LBrace, Underscore
  <2>2. text[q + m + 1] \in Blanks \cup {Semi, Hash}
    <3> HIDE DEF m
    <3>1. CASE q + m = to BY <1>7, <3>1
    <3>2. CASE q + m # to
      <4>1. q + m + 1 \in (q + m + 1)..to
        <5>1. q + m <= to BY <1>2 DEF m
        <5> QED BY <1>4, <3>2, <5>1
      <4>2. BlankIn(text, q + m + 1, to) BY <1>2 DEF m
      <4> QED BY <4>1, <4>2 DEF BlankIn
    <3> QED BY <3>1, <3>2
  <2> QED BY <2>1, <2>2
<1>10. Beside(c[q + m], a[m], cmds, m, m) BY <1>1, <1>2, <1>5, <1>6, <1>8, <1>9, PartBeside
<1>11. Finished(c[q + m], cmds, ws)
  <2> HIDE DEF m, ws
  <2>1. a[m].skip = 0 BY <1>4, <1>10 DEF Beside
  <2>2. Fields \subseteq DOMAIN c[q + m] /\ Fields \subseteq DOMAIN a[m] /\ Same(c[q + m], a[m])
    BY <1>10 DEF Beside, CommandFields
  <2>3. FlushWord(c[q + m]).words = FlushWord(a[m]).words
    <3>1. Same(FlushWord(c[q + m]), FlushWord(a[m])) BY <2>2, FlushedTogether
    <3> QED BY <3>1 DEF Same
  <2>4. c[q + m].ok /\ ~c[q + m].end /\ c[q + m].quote = 0 /\ c[q + m].skip = 0
    BY <1>6, <1>10, <2>1, <2>2 DEF Same, Beside
  <2> QED BY <1>6, <1>10, <2>3, <2>4 DEF Finished, Beside
<1> HIDE DEF ws
<1>12. Finished(c[to], cmds, ws) BY <1>2, <1>7, <1>11, BlanksAfter
<1> QED BY <1>12 DEF ws, part

-----------------------------------------------------------------------------
(* The scan that splits beside the scan for words.                          *)
Alike(text, i, s, c) ==
    c.ok => /\ s.quote = c.quote
            /\ s.started <=> c.started
            /\ s.end <=> c.end
            /\ c.started \/ c.word = <<>>
            /\ ~c.end => /\ c.skip \in Nat /\ s.skip \in {0, 1}
                         /\ s.skip = 1 => c.skip > 0
                         /\ c.skip > 0 => c.started
                         /\ \A k \in (i + s.skip + 1)..(i + c.skip) : text[k] \in Octal

LEMMA StepKeeps ==
    ASSUME NEW text, NEW i, NEW s, Fields \subseteq DOMAIN s PROVE KeepsFields(s, WordStep(text, i, s))
<1>1. Same(s, s) BY DEF Same
<1>2. \A t : Same(t, s) => (RefusedWordByte(text, i, t) <=> RefusedWordByte(text, i, s))
  <2> SUFFICES ASSUME NEW t, Same(t, s)
               PROVE  RefusedWordByte(text, i, t) <=> RefusedWordByte(text, i, s)
      OBVIOUS
  <2>1. t.quote = s.quote /\ (t.fresh <=> s.fresh) BY DEF Same
  <2>2. /\ RefusedWordByte(text, i, t)
           <=> \/ text[i] = 0
               \/ t.quote # SQ /\ text[i] = Dollar /\ (i < Len(text) /\ StartsVariable(text[i + 1]))
               \/ t.quote # SQ /\ text[i] = Tilde /\ t.fresh
        /\ RefusedWordByte(text, i, s)
           <=> \/ text[i] = 0
               \/ s.quote # SQ /\ text[i] = Dollar /\ (i < Len(text) /\ StartsVariable(text[i + 1]))
               \/ s.quote # SQ /\ text[i] = Tilde /\ s.fresh
    BY RefusedIs
  <2> QED BY <2>1, <2>2
<1>3. SameAhead(text, i, text, i, s) BY <1>2 DEF SameAhead
<1> QED BY <1>1, <1>3, WordsTogether

LEMMA CommandOkBefore == ASSUME NEW text, NEW i, NEW s, CommandStep(text, i, s).ok PROVE s.ok
<1>1. ~s.ok => ~EndsCommand(text, i, s) BY DEF EndsCommand
<1>2. ~s.ok => CommandStep(text, i, s) = WordStep(text, i, s) BY <1>1, WordContinued
<1> QED BY <1>2, WordOkBefore

LEMMA CommandEnds ==
    ASSUME NEW text, NEW i, NEW s, DOMAIN s = CommandFields, EndsCommand(text, i, s)
    PROVE  /\ DOMAIN CommandStep(text, i, s) = CommandFields
           /\ CommandStep(text, i, s).ok /\ ~CommandStep(text, i, s).end
           /\ CommandStep(text, i, s).quote = 0 /\ CommandStep(text, i, s).skip = 0
           /\ ~CommandStep(text, i, s).started /\ CommandStep(text, i, s).fresh
           /\ CommandStep(text, i, s).words = <<>>
           /\ CommandStep(text, i, s).cmds = Append(s.cmds, FlushWord(s).words)
           /\ s.started \/ s.word = <<>> => CommandStep(text, i, s).word = <<>>
<1> DEFINE f == FlushWord(s) g == CommandStep(text, i, s)
<1>1. s.ok /\ ~s.end /\ s.quote = 0 /\ s.skip = 0 BY DEF EndsCommand
<1>2. g = [f EXCEPT !.cmds = Append(f.cmds, f.words), !.words = <<>>, !.fresh = TRUE]
  BY DEF CommandStep, EndsCommand
<1>3. DOMAIN f = DOMAIN s /\ f.cmds = s.cmds /\ ~f.started
  <2>1. Fields \subseteq DOMAIN s /\ "cmds" \in DOMAIN s /\ Same(s, s) BY DEF CommandFields, Same
  <2> QED BY <2>1, FlushedTogether
<1>4. f.ok /\ ~f.end /\ f.quote = 0 /\ f.skip = 0 /\ (s.started \/ s.word = <<>> => f.word = <<>>)
  <2>1. CASE s.started
    <3>1. f = [s EXCEPT !.words = Append(s.words, s.word), !.word = <<>>, !.started = FALSE]
      BY <2>1 DEF FlushWord
    <3> HIDE DEF f
    <3> QED BY <1>1, <3>1 DEF CommandFields, Fields
  <2>2. CASE ~s.started
    <3>1. f = s BY <2>2 DEF FlushWord
    <3> HIDE DEF f
    <3> QED BY <1>1, <2>2, <3>1
  <2> QED BY <2>1, <2>2
<1> HIDE DEF f, g
<1>5. /\ DOMAIN g = CommandFields /\ g.ok /\ ~g.end /\ g.quote = 0 /\ g.skip = 0
      /\ ~g.started /\ g.fresh /\ g.words = <<>> /\ g.cmds = Append(s.cmds, f.words)
      /\ s.started \/ s.word = <<>> => g.word = <<>>
  BY <1>2, <1>3, <1>4 DEF CommandFields, Fields
<1> QED BY <1>5 DEF f, g

LEMMA OctalPlain ==
    ASSUME NEW b \in Octal
    PROVE  /\ b \notin Blanks /\ b # Hash /\ b # Semi /\ b # Backslash /\ b # SQ /\ b # DQ
           /\ ~IsSequenceInvalid(b)
BY DEF Octal, Blanks, Space, Tab, Hash, Semi, Backslash, SQ, DQ, IsSequenceInvalid, LBrace, RBrace, LF

\* What a byte that ends no part and no word does to the scan that splits.
LEMMA OrdinarySplit ==
    ASSUME NEW text, NEW i, NEW s, DOMAIN s = SplitFields, s.ok, ~s.end, ~(s.skip > 0),
           ~IsComment(text[i], s.quote, s.started), ~(s.quote = 0 /\ IsSequenceInvalid(text[i])),
           ~(s.quote = 0 /\ text[i] = Semi), ~CanEscape(text[i], s.quote)
    PROVE  /\ Split(text, i, s).quote = Toggled(text[i], s.quote)
           /\ Split(text, i, s).started <=> WordStarted(Toggled(text[i], s.quote), text[i])
           /\ ~Split(text, i, s).end /\ Split(text, i, s).skip = s.skip
<1> DEFINE b == text[i] t == Split(text, i, s)
<1>1. t = [s EXCEPT !.quote = Toggled(b, s.quote), !.started = WordStarted(Toggled(b, s.quote), b)]
  BY DEF Split, SplitStep
<1> HIDE DEF t, b
<1>2. t.quote = Toggled(b, s.quote) /\ (t.started <=> WordStarted(Toggled(b, s.quote), b)) /\ ~t.end
      /\ t.skip = s.skip
  BY <1>1 DEF SplitFields
<1> QED BY <1>2 DEF t, b

LEMMA SplitOk ==
    ASSUME NEW text, NEW i, NEW s, DOMAIN s = SplitFields, s.ok, ~s.end, ~(s.skip > 0),
           ~IsComment(text[i], s.quote, s.started), Split(text, i, s).ok
    PROVE  ~(s.quote = 0 /\ IsSequenceInvalid(text[i]))
<1> SUFFICES ASSUME s.quote = 0, IsSequenceInvalid(text[i]) PROVE FALSE OBVIOUS
<1>1. Split(text, i, s) = [s EXCEPT !.ok = FALSE] BY DEF Split, SplitStep
<1> QED BY <1>1 DEF SplitFields

\* What a byte does to the scan for words, as far as the other one can see it.
LEMMA BlankStep ==
    ASSUME NEW text, NEW i, NEW s, DOMAIN s = CommandFields, s.ok, ~s.end, s.skip = 0, s.quote = 0,
           text[i] \in Blanks, s.started \/ s.word = <<>>
    PROVE  LET d == WordStep(text, i, s) IN
           d.quote = 0 /\ ~d.started /\ ~d.end /\ d.word = <<>> /\ d.skip = 0
<1> DEFINE f == FlushWord(s) d == WordStep(text, i, s)
<1>1. d = [f EXCEPT !.fresh = TRUE] BY DEF WordStep
<1>2. DOMAIN f = CommandFields /\ f.quote = 0 /\ ~f.started /\ ~f.end /\ f.word = <<>> /\ f.skip = 0
  <2>1. CASE s.started
    <3>1. f = [s EXCEPT !.words = Append(s.words, s.word), !.word = <<>>, !.started = FALSE]
      BY <2>1 DEF FlushWord
    <3> HIDE DEF f
    <3> QED BY <3>1 DEF CommandFields, Fields
  <2>2. CASE ~s.started
    <3>1. f = s BY <2>2 DEF FlushWord
    <3> HIDE DEF f
    <3> QED BY <2>2, <3>1
  <2> QED BY <2>1, <2>2
<1> HIDE DEF f, d
<1>3. d.quote = 0 /\ ~d.started /\ ~d.end /\ d.word = <<>> /\ d.skip = 0
  BY <1>1, <1>2 DEF CommandFields, Fields
<1> QED BY <1>3 DEF d

LEMMA OrdinaryStep ==
    ASSUME NEW text, NEW i, NEW s, DOMAIN s = CommandFields, s.ok, ~s.end, s.skip = 0,
           ~(s.quote = 0 /\ text[i] \in Blanks), ~IsComment(text[i], s.quote, s.started),
           ~CanEscape(text[i], s.quote), WordStep(text, i, s).ok
    PROVE  LET d == WordStep(text, i, s) IN
           d.quote = Toggled(text[i], s.quote) /\ d.started /\ ~d.end /\ d.skip = 0
<1> DEFINE b == text[i] d == WordStep(text, i, s)
           bad == s.quote = 0 /\ (IsSequenceInvalid(b) \/ b = Semi) worse == RefusedWordByte(text, i, s)
<1>0. ~(s.skip > 0) /\ ~(~s.ok \/ s.end) /\ d.ok OBVIOUS
<1>1. ~bad
  <2> SUFFICES ASSUME bad PROVE FALSE OBVIOUS
  <2>1. d = [s EXCEPT !.ok = FALSE] BY <1>0 DEF WordStep
  <2> HIDE DEF d
  <2> QED BY <1>0, <2>1 DEF CommandFields, Fields
<1>2. CASE Toggles(b, s.quote)
  <2>1. d = [s EXCEPT !.quote = Toggled(b, s.quote), !.started = TRUE, !.fresh = TRUE]
    BY <1>0, <1>1, <1>2 DEF WordStep
  <2> HIDE DEF d, b
  <2>2. d.quote = Toggled(b, s.quote) /\ d.started /\ ~d.end /\ d.skip = 0
    BY <2>1 DEF CommandFields, Fields
  <2> QED BY <2>2 DEF d, b
<1>3. CASE ~Toggles(b, s.quote)
  <2>1. ~worse
    <3> SUFFICES ASSUME worse PROVE FALSE OBVIOUS
    <3>1. d = [s EXCEPT !.ok = FALSE] BY <1>0, <1>1, <1>3 DEF WordStep
    <3> HIDE DEF d
    <3> QED BY <1>0, <3>1 DEF CommandFields, Fields
  <2>2. d = [s EXCEPT !.word = Append(s.word, b), !.started = TRUE, !.fresh = FALSE]
    BY <1>0, <1>1, <1>3, <2>1 DEF WordStep
  <2>3. Toggled(b, s.quote) = s.quote BY <1>3 DEF Toggled
  <2> HIDE DEF d, b
  <2>4. d.quote = s.quote /\ d.started /\ ~d.end /\ d.skip = 0 BY <2>2 DEF CommandFields, Fields
  <2> QED BY <2>3, <2>4 DEF d, b
<1> QED BY <1>2, <1>3

\* An escape writes something unless it continues the line.
LEMMA EscapeWrites ==
    ASSUME NEW text \in Seq(Nat), NEW i \in 1..Len(text), text[i] = Backslash, ~Continued(text),
           EscapeAt(text, i).ok
    PROVE  /\ EscapeAt(text, i).val # <<>> /\ EscapeAt(text, i).takes \in {1, 3} /\ i < Len(text)
           /\ EscapeAt(text, i).takes = 3 => \A k \in i + 1..i + 3 : text[k] \in Octal
<1> DEFINE d == text[i + 1] o == OctalAt(text, i + 1)
<1>1. i # Len(text) BY DEF EscapeAt
<1>2. i \in 1..Len(text) - 1 /\ i < Len(text) BY <1>1
<1>3. d # LF BY <1>2 DEF Continued
<1>4. CASE d \in Octal
  <2>1. EscapeAt(text, i) = [ok |-> o.ok, val |-> o.val, takes |-> 3] BY <1>1, <1>4 DEF EscapeAt
  <2> DEFINE v == 64 * (text[i + 1] - 48) + 8 * (text[i + 1 + 1] - 48) + text[i + 1 + 2] - 48
             good == i + 1 + 2 <= Len(text) /\ (\A k \in i + 1..i + 1 + 2 : text[k] \in Octal) /\ v \in 1..255
  <2>2. o = IF good THEN Accepted(<<v>>) ELSE Refused BY DEF OctalAt
  <2> HIDE DEF o, good
  <2>3. o.ok BY <2>1
  <2>4. good BY <2>2, <2>3 DEF Refused
  <2>5. o.val = <<v>> BY <2>2, <2>4 DEF Accepted
  <2>6. <<v>> # <<>> OBVIOUS
  <2> HIDE DEF v
  <2>7. o.val # <<>> BY <2>5, <2>6
  <2>8. \A k \in i + 1..i + 1 + 2 : text[k] \in Octal BY <2>4 DEF good
  <2>9. i + 1 + 2 = i + 3 OBVIOUS
  <2> QED BY <1>2, <2>1, <2>7, <2>8, <2>9
<1>5. CASE d \notin Octal
  <2> DEFINE w == IF d = LF THEN <<>> ELSE IF d \in DOMAIN Special THEN <<Special[d]>> ELSE <<d>>
  <2>1. EscapeAt(text, i) = [ok |-> TRUE, takes |-> 1, val |-> w] BY <1>1, <1>5 DEF EscapeAt
  <2>2. w # <<>> BY <1>3
  <2> HIDE DEF w
  <2>3. EscapeAt(text, i).val = w /\ EscapeAt(text, i).takes = 1 BY <2>1
  <2> QED BY <1>2, <2>2, <2>3
<1> QED BY <1>4, <1>5

\* What a state of each scan says about the other, when the scan for words goes on.
LEMMA AlikeFrom ==
    ASSUME NEW text, NEW i \in Nat, NEW s, NEW c, s.quote = c.quote, s.started <=> c.started, ~s.end, ~c.end,
           c.started \/ c.word = <<>>, c.skip = 0, s.skip = 0
    PROVE  Alike(text, i, s, c)
<1>1. (i + 0 + 1)..(i + 0) = {} OBVIOUS
<1>2. \A k \in (i + s.skip + 1)..(i + c.skip) : text[k] \in Octal BY <1>1
<1> QED BY <1>2 DEF Alike

LEMMA AlikeStep ==
    ASSUME NEW text \in Seq(Nat), NEW i \in 1..Len(text), ~Continued(text), NEW s, DOMAIN s = SplitFields,
           NEW c, DOMAIN c = CommandFields, s.ok, Split(text, i, s).ok, Alike(text, i - 1, s, c)
    PROVE  Alike(text, i, Split(text, i, s), CommandStep(text, i, c))
<1> DEFINE b == text[i] t == Split(text, i, s) d == CommandStep(text, i, c)
<1> SUFFICES ASSUME d.ok PROVE Alike(text, i, t, d) BY DEF Alike
<1>0. i \in Nat /\ t.ok OBVIOUS
<1>1. c.ok BY CommandOkBefore
<1>2. s.quote = c.quote /\ (s.started <=> c.started) /\ (s.end <=> c.end) /\ (c.started \/ c.word = <<>>)
  BY <1>1 DEF Alike
<1>3. CASE c.end
  <2>1. ~EndsCommand(text, i, c) BY <1>3 DEF EndsCommand
  <2>2. d = c BY <1>3, <2>1, WordContinued DEF WordStep
  <2>3. t = s BY <1>2, <1>3 DEF Split, SplitStep
  <2> HIDE DEF t, d
  <2> QED BY <1>2, <1>3, <2>2, <2>3 DEF Alike
<1>4. CASE ~c.end /\ c.skip > 0
  <2>1. /\ c.skip \in Nat /\ s.skip \in {0, 1} /\ c.started /\ ~s.end /\ s.started
        /\ \A k \in ((i - 1) + s.skip + 1)..((i - 1) + c.skip) : text[k] \in Octal
    BY <1>1, <1>2, <1>4 DEF Alike
  <2>2. d = [c EXCEPT !.skip = c.skip - 1]
    <3>1. ~EndsCommand(text, i, c) BY <1>4, <2>1 DEF EndsCommand
    <3>2. WordStep(text, i, c) = [c EXCEPT !.skip = c.skip - 1] BY <1>1, <1>4 DEF WordStep
    <3> QED BY <3>1, <3>2, WordContinued
  <2>3. d.quote = c.quote /\ d.started /\ ~d.end /\ d.skip = c.skip - 1
    <3> HIDE DEF d
    <3> QED BY <1>4, <2>1, <2>2 DEF CommandFields, Fields
  <2>4. CASE s.skip = 1
    <3>1. t = [s EXCEPT !.skip = s.skip - 1] BY <2>1, <2>4 DEF Split, SplitStep
    <3>2. t.quote = s.quote /\ t.started /\ ~t.end /\ t.skip = 0
      <4> HIDE DEF t
      <4> QED BY <2>1, <2>4, <3>1 DEF SplitFields
    <3> HIDE DEF t, d
    <3>3. (i - 1) + s.skip + 1 = i + t.skip + 1 /\ (i - 1) + c.skip = i + d.skip /\ d.skip \in Nat
      BY <1>4, <2>1, <2>3, <2>4, <3>2
    <3>4. \A k \in (i + t.skip + 1)..(i + d.skip) : text[k] \in Octal BY <2>1, <3>3
    <3> QED BY <1>2, <2>3, <3>2, <3>3, <3>4 DEF Alike
  <2>5. CASE s.skip = 0
    <3>1. i \in ((i - 1) + s.skip + 1)..((i - 1) + c.skip) BY <1>4, <2>1, <2>5
    <3>2. b \in Octal BY <2>1, <3>1
    <3>3. b \notin Blanks /\ b # Hash /\ b # Semi /\ b # Backslash /\ b # SQ /\ b # DQ /\ ~IsSequenceInvalid(b)
      BY <3>2, OctalPlain
    <3>4. ~IsComment(b, s.quote, s.started) /\ ~CanEscape(b, s.quote) BY <3>3 DEF IsComment, CanEscape
    <3>5. Toggled(b, s.quote) = s.quote BY <3>3 DEF Toggled, Toggles
    <3>6. WordStarted(s.quote, b) BY <3>3 DEF WordStarted
    <3>7. ~(s.skip > 0) BY <2>5
    <3>8. t.quote = s.quote /\ t.started /\ ~t.end /\ t.skip = 0
      BY <2>1, <2>5, <3>3, <3>4, <3>5, <3>6, <3>7, OrdinarySplit
    <3> HIDE DEF t, d
    <3>9. (i - 1) + s.skip + 1 <= i + t.skip + 1 /\ (i - 1) + c.skip = i + d.skip /\ d.skip \in Nat
      BY <1>0, <1>4, <2>1, <2>3, <2>5, <3>8
    <3>10. \A k \in (i + t.skip + 1)..(i + d.skip) : k \in ((i - 1) + s.skip + 1)..((i - 1) + c.skip)
      BY <2>1, <2>5, <3>8, <3>9
    <3>11. \A k \in (i + t.skip + 1)..(i + d.skip) : text[k] \in Octal BY <2>1, <3>10
    <3> QED BY <1>2, <2>3, <3>8, <3>9, <3>11 DEF Alike
  <2> QED BY <2>1, <2>4, <2>5
<1>5. CASE ~c.end /\ ~(c.skip > 0)
  <2>1. c.skip = 0 /\ s.skip = 0 /\ ~s.end /\ ~(s.skip > 0)
    <3>1. c.skip \in Nat /\ s.skip \in {0, 1} /\ (s.skip = 1 => c.skip > 0) BY <1>1, <1>5 DEF Alike
    <3> QED BY <1>2, <1>5, <3>1
  <2>2. CASE IsComment(b, s.quote, s.started)
    <3>1. b = Hash /\ IsComment(b, c.quote, c.started) BY <1>2, <2>2 DEF IsComment
    <3>2. b # Semi /\ b \notin Blanks BY <3>1 DEF Semi, Hash, Blanks, Space, Tab
    <3>3. ~EndsCommand(text, i, c) BY <3>2 DEF EndsCommand
    <3>4. d = [c EXCEPT !.end = TRUE]
      <4>1. WordStep(text, i, c) = [c EXCEPT !.end = TRUE] BY <1>1, <1>5, <3>1, <3>2 DEF WordStep
      <4> QED BY <3>3, <4>1, WordContinued
    <3>5. t = [s EXCEPT !.end = TRUE, !.cut = i - 1] BY <2>1, <2>2 DEF Split, SplitStep
    <3> HIDE DEF t, d
    <3>6. d.end /\ d.quote = c.quote /\ (d.started <=> c.started) /\ d.word = c.word
      BY <3>4 DEF CommandFields, Fields
    <3>7. t.end /\ t.quote = s.quote /\ (t.started <=> s.started) BY <3>5 DEF SplitFields
    <3> QED BY <1>2, <3>6, <3>7 DEF Alike
  <2>3. CASE ~IsComment(b, s.quote, s.started) /\ s.quote = 0 /\ b = Semi
    <3>1. EndsCommand(text, i, c) BY <1>1, <1>2, <1>5, <2>1, <2>3 DEF EndsCommand
    <3>2. ~d.end /\ d.quote = 0 /\ d.skip = 0 /\ ~d.started /\ d.word = <<>> BY <1>2, <3>1, CommandEnds
    <3>3. ~IsSequenceInvalid(b) BY <2>3 DEF IsSequenceInvalid, Semi, LBrace, RBrace, LF
    <3> DEFINE part == TrimBlanks(SubSeq(text, s.start, i - 1))
    <3>4. t = [s EXCEPT !.ok = part # <<>>, !.parts = Append(s.parts, part), !.start = i + 0 + 1, !.skip = 0,
                        !.started = FALSE]
      BY <2>1, <2>3, <3>3 DEF Split, SplitStep
    <3> HIDE DEF t, d, part
    <3>5. ~t.end /\ t.quote = 0 /\ t.skip = 0 /\ ~t.started BY <2>1, <2>3, <3>4 DEF SplitFields
    <3> QED BY <1>0, <3>2, <3>5, AlikeFrom
  <2>4. CASE ~IsComment(b, s.quote, s.started) /\ ~(s.quote = 0 /\ b = Semi)
    <3>1. ~(s.quote = 0 /\ IsSequenceInvalid(b)) BY <1>0, <2>1, <2>4, SplitOk
    <3>2. ~EndsCommand(text, i, c) BY <1>2, <2>4 DEF EndsCommand
    <3>3. d = WordStep(text, i, c) BY <3>2, WordContinued
    <3>4. ~IsComment(b, c.quote, c.started) BY <1>2, <2>4 DEF IsComment
    <3>5. CASE CanEscape(b, s.quote)
      <4>1. CanEscape(b, c.quote) /\ b = Backslash BY <1>2, <3>5 DEF CanEscape
      <4>2. Fields \subseteq DOMAIN c BY DEF CommandFields
      <4>3. EscapeAt(text, i).ok /\ (d.started <=> (c.started \/ EscapeAt(text, i).val # <<>>))
            /\ d.skip = EscapeAt(text, i).takes /\ d.quote = c.quote /\ d.end = c.end
        BY <1>1, <1>5, <3>3, <4>1, <4>2, EscapeTaken
      <4>4. /\ EscapeAt(text, i).val # <<>> /\ EscapeAt(text, i).takes \in {1, 3}
            /\ EscapeAt(text, i).takes = 3 => \A k \in i + 1..i + 3 : text[k] \in Octal
        BY <4>1, <4>3, EscapeWrites
      <4>5. t = [s EXCEPT !.ok = i < Len(text), !.skip = 1, !.started = TRUE]
        BY <2>1, <2>4, <3>1, <3>5 DEF Split, SplitStep
      <4> HIDE DEF t, d
      <4>6. t.skip = 1 /\ t.started /\ ~t.end /\ t.quote = s.quote BY <2>1, <4>5 DEF SplitFields
      <4>7. d.skip \in {1, 3} /\ d.started /\ ~d.end BY <1>5, <4>3, <4>4
      <4>8. \A k \in (i + t.skip + 1)..(i + d.skip) : text[k] \in Octal
        <5>1. CASE d.skip = 1
          <6>1. (i + t.skip + 1)..(i + d.skip) = {} BY <4>6, <5>1
          <6> QED BY <6>1
        <5>2. CASE d.skip = 3
          <6>1. \A k \in (i + t.skip + 1)..(i + d.skip) : k \in i + 1..i + 3 BY <4>6, <5>2
          <6> QED BY <4>3, <4>4, <5>2, <6>1
        <5> QED BY <4>7, <5>1, <5>2
      <4> QED BY <1>2, <4>3, <4>6, <4>7, <4>8 DEF Alike
    <3>6. CASE ~CanEscape(b, s.quote)
      <4>1. /\ t.quote = Toggled(b, s.quote) /\ ~t.end /\ t.skip = 0
            /\ t.started <=> WordStarted(Toggled(b, s.quote), b)
        BY <2>1, <2>4, <3>1, <3>6, OrdinarySplit
      <4>2. CASE s.quote = 0 /\ b \in Blanks
        <5>1. b # SQ /\ b # DQ BY <4>2 DEF Blanks, Space, Tab, SQ, DQ
        <5>2. Toggled(b, s.quote) = 0 BY <4>2, <5>1 DEF Toggled, Toggles
        <5>3. ~WordStarted(0, b) BY <4>2 DEF WordStarted
        <5> DEFINE w == WordStep(text, i, c)
        <5>4. w.quote = 0 /\ ~w.started /\ ~w.end /\ w.word = <<>> /\ w.skip = 0
          <6>1. c.quote = 0 /\ text[i] \in Blanks BY <1>2, <4>2
          <6>2. c.ok /\ ~c.end /\ c.skip = 0 /\ (c.started \/ c.word = <<>>) BY <1>1, <1>2, <1>5, <2>1
          <6> QED BY <6>1, <6>2, BlankStep
        <5>5. d = w BY <3>3
        <5> HIDE DEF t, d, w
        <5> QED BY <1>0, <4>1, <5>2, <5>3, <5>4, <5>5, AlikeFrom
      <4>3. CASE ~(s.quote = 0 /\ b \in Blanks)
        <5>1. ~(c.quote = 0 /\ b \in Blanks) /\ ~CanEscape(b, c.quote) /\ WordStep(text, i, c).ok
          BY <1>2, <3>3, <3>6, <4>3
        <5>2. d.quote = Toggled(b, c.quote) /\ d.started /\ ~d.end /\ d.skip = 0
          BY <1>1, <1>5, <2>1, <3>3, <3>4, <5>1, OrdinaryStep
        <5>3. WordStarted(Toggled(b, s.quote), b)
          <6>1. CASE b \in Blanks
            <7>1. b # SQ /\ b # DQ BY <6>1 DEF Blanks, Space, Tab, SQ, DQ
            <7>2. Toggled(b, s.quote) = s.quote BY <7>1 DEF Toggled, Toggles
            <7> QED BY <4>3, <6>1, <7>2 DEF WordStarted
          <6>2. CASE b \notin Blanks BY <6>2 DEF WordStarted
          <6> QED BY <6>1, <6>2
        <5> HIDE DEF t, d
        <5>4. t.quote = d.quote /\ (t.started <=> d.started) BY <1>2, <4>1, <5>2, <5>3
        <5> QED BY <1>0, <4>1, <5>2, <5>4, AlikeFrom
      <4> QED BY <4>2, <4>3
    <3> QED BY <3>5, <3>6
  <2> QED BY <2>2, <2>3, <2>4
<1> QED BY <1>3, <1>4, <1>5

-----------------------------------------------------------------------------
(* Both scans over a whole text.                                            *)
SplitState(s) == DOMAIN s = SplitFields /\ s.skip \in {0, 1}

\* A byte after the end, the beginning of a comment, a separator, or a byte of a part.
Shape(text, i, s, t) ==
    \/ s.end /\ t = s
    \/ /\ ~s.end /\ t.end /\ t.cut = i - 1 /\ text[i] = Hash /\ IsComment(text[i], s.quote, s.started)
       /\ t.start = s.start /\ t.parts = s.parts /\ t.quote = s.quote
    \/ /\ ~s.end /\ ~t.end /\ s.skip = 0 /\ s.quote = 0 /\ text[i] = Semi
       /\ t.start = i + 1 /\ t.parts = Append(s.parts, TrimBlanks(SubSeq(text, s.start, i - 1)))
       /\ t.cut = s.cut
    \/ /\ ~s.end /\ ~t.end /\ ~(s.skip = 0 /\ s.quote = 0 /\ text[i] = Semi)
       /\ t.start = s.start /\ t.parts = s.parts /\ t.cut = s.cut

LEMMA SplitOkBefore == ASSUME NEW text, NEW i, NEW s, Split(text, i, s).ok PROVE s.ok
<1>1. ~s.ok => Split(text, i, s) = s BY DEF Split, SplitStep
<1> QED BY <1>1

LEMMA SplitShape ==
    ASSUME NEW text, NEW i \in Nat, NEW s, SplitState(s), s.ok, Split(text, i, s).ok
    PROVE  SplitState(Split(text, i, s)) /\ Shape(text, i, s, Split(text, i, s))
<1> DEFINE b == text[i] t == Split(text, i, s)
<1>0. DOMAIN s = SplitFields /\ s.skip \in {0, 1} /\ t.ok BY DEF SplitState
<1>1. CASE s.end
  <2>1. t = s BY <1>1 DEF Split, SplitStep
  <2> HIDE DEF t
  <2>2. SplitState(t) /\ Shape(text, i, s, t) BY <1>1, <2>1 DEF Shape
  <2> QED BY <2>2 DEF t
<1>2. CASE ~s.end /\ s.skip = 1
  <2>1. t = [s EXCEPT !.skip = s.skip - 1]
    <3>1. s.skip > 0 BY <1>2
    <3> QED BY <1>2, <3>1 DEF Split, SplitStep
  <2> HIDE DEF t
  <2>2. DOMAIN t = SplitFields /\ t.skip = 0 /\ ~t.end /\ t.start = s.start /\ t.parts = s.parts /\ t.cut = s.cut
    BY <1>0, <1>2, <2>1 DEF SplitFields
  <2>3. SplitState(t) /\ Shape(text, i, s, t) BY <1>2, <2>2 DEF Shape, SplitState
  <2> QED BY <2>3 DEF t
<1>3. CASE ~s.end /\ s.skip = 0
  <2>0. ~(s.skip > 0) /\ ~(~s.ok \/ s.end) BY <1>3
  <2>1. CASE IsComment(b, s.quote, s.started)
    <3>1. t = [s EXCEPT !.end = TRUE, !.cut = i - 1] BY <2>0, <2>1 DEF Split, SplitStep
    <3>2. b = Hash BY <2>1 DEF IsComment
    <3> HIDE DEF t, b
    <3>3. DOMAIN t = SplitFields /\ t.skip = 0 /\ t.end /\ t.start = s.start /\ t.parts = s.parts /\ t.cut = i - 1
          /\ t.quote = s.quote
      BY <1>0, <1>3, <3>1 DEF SplitFields
    <3>4. SplitState(t) /\ Shape(text, i, s, t) BY <1>3, <2>1, <3>2, <3>3 DEF Shape, SplitState, b
    <3> QED BY <3>4 DEF t
  <2>2. CASE ~IsComment(b, s.quote, s.started) /\ s.quote = 0 /\ b = Semi
    <3> DEFINE part == TrimBlanks(SubSeq(text, s.start, i - 1))
    <3>1. ~IsSequenceInvalid(b) BY <2>2 DEF IsSequenceInvalid, Semi, LBrace, RBrace, LF
    <3>2. t = [s EXCEPT !.ok = part # <<>>, !.parts = Append(s.parts, part), !.start = i + 0 + 1, !.skip = 0,
                        !.started = FALSE]
      BY <2>0, <2>2, <3>1 DEF Split, SplitStep
    <3>3. i + 0 + 1 = i + 1 OBVIOUS
    <3> HIDE DEF t, part
    <3>4. DOMAIN t = SplitFields /\ t.skip = 0 /\ ~t.end /\ t.start = i + 1 /\ t.parts = Append(s.parts, part)
          /\ t.cut = s.cut
      BY <1>0, <1>3, <3>2, <3>3 DEF SplitFields
    <3>5. SplitState(t) /\ Shape(text, i, s, t) BY <1>3, <2>2, <3>4 DEF Shape, SplitState, part
    <3> QED BY <3>5 DEF t
  <2>3. CASE ~IsComment(b, s.quote, s.started) /\ ~(s.quote = 0 /\ b = Semi)
    <3>1. ~(s.quote = 0 /\ IsSequenceInvalid(b)) BY <1>0, <2>0, <2>3, SplitOk
    <3>2. CASE CanEscape(b, s.quote)
      <4>1. t = [s EXCEPT !.ok = i < Len(text), !.skip = 1, !.started = TRUE]
        BY <2>0, <2>3, <3>1, <3>2 DEF Split, SplitStep
      <4> HIDE DEF t
      <4>2. DOMAIN t = SplitFields /\ t.skip = 1 /\ ~t.end /\ t.start = s.start /\ t.parts = s.parts
            /\ t.cut = s.cut
        BY <1>0, <1>3, <4>1 DEF SplitFields
      <4>3. SplitState(t) /\ Shape(text, i, s, t) BY <1>3, <2>3, <4>2 DEF Shape, SplitState
      <4> QED BY <4>3 DEF t
    <3>3. CASE ~CanEscape(b, s.quote)
      <4>1. t = [s EXCEPT !.quote = Toggled(b, s.quote), !.started = WordStarted(Toggled(b, s.quote), b)]
        BY <2>0, <2>3, <3>1, <3>3 DEF Split, SplitStep
      <4> HIDE DEF t
      <4>2. DOMAIN t = SplitFields /\ t.skip = 0 /\ ~t.end /\ t.start = s.start /\ t.parts = s.parts
            /\ t.cut = s.cut
        BY <1>0, <1>3, <4>1 DEF SplitFields
      <4>3. SplitState(t) /\ Shape(text, i, s, t) BY <1>3, <2>3, <4>2 DEF Shape, SplitState
      <4> QED BY <4>3 DEF t
    <3> QED BY <3>2, <3>3
  <2> QED BY <2>1, <2>2, <2>3
<1> QED BY <1>0, <1>1, <1>2, <1>3

LEMMA CommandDomain ==
    ASSUME NEW text, NEW i, NEW s, DOMAIN s = CommandFields
    PROVE  DOMAIN CommandStep(text, i, s) = CommandFields
<1>1. CASE EndsCommand(text, i, s) BY <1>1, CommandEnds
<1>2. CASE ~EndsCommand(text, i, s)
  <2>1. CommandStep(text, i, s) = WordStep(text, i, s) BY <1>2, WordContinued
  <2>2. Fields \subseteq DOMAIN s BY DEF CommandFields
  <2>3. KeepsFields(s, WordStep(text, i, s)) BY <2>2, StepKeeps
  <2> QED BY <2>1, <2>3 DEF KeepsFields
<1> QED BY <1>1, <1>2

\* What holds of the two scans at every byte of a text that is split.
Together(text, a, c) ==
    \A i \in 0..Len(text) : /\ a[i].ok /\ SplitState(a[i])
                            /\ DOMAIN c[i] = CommandFields /\ Alike(text, i, a[i], c[i])
                            /\ i # 0 => Shape(text, i, a[i - 1], a[i])

LEMMA BothScan ==
    ASSUME NEW text \in Seq(Nat), ~Continued(text), NEW a, a[0] = SplitStart(text), SplitRun(a, text),
           NEW c, c[0] = NoCommands, CommandRun(c, text), a[Len(text)].ok
    PROVE  Together(text, a, c)
<1> DEFINE n == Len(text)
           Good(i) == /\ SplitState(a[i]) /\ DOMAIN c[i] = CommandFields /\ Alike(text, i, a[i], c[i])
                      /\ i # 0 => Shape(text, i, a[i - 1], a[i])
           S == {i \in Nat : i <= n => Good(i)}
<1>1. n \in Nat OBVIOUS
<1>2. \A i \in 0..n : a[i].ok
  <2>1. \A i \in 1..n : a[i].ok => a[i - 1].ok BY SplitOkBefore DEF SplitRun
  <2> HIDE DEF n
  <2> QED BY <1>1, <2>1, OkBefore DEF n
<1>3. 0 \in S
  <2>1. SplitState(SplitStart(text)) BY DEF SplitState, SplitFields, SplitStart
  <2>2. DOMAIN NoCommands = CommandFields BY DEF NoCommands, CommandFields, Fields
  <2>3. /\ SplitStart(text).quote = 0 /\ ~SplitStart(text).started /\ ~SplitStart(text).end
        /\ SplitStart(text).skip = 0
    BY DEF SplitStart
  <2>4. /\ NoCommands.quote = 0 /\ ~NoCommands.started /\ ~NoCommands.end /\ NoCommands.skip = 0
        /\ NoCommands.word = <<>>
    BY DEF NoCommands
  <2>5. Alike(text, 0, SplitStart(text), NoCommands)
    <3>1. 0 \in Nat OBVIOUS
    <3> QED BY <2>3, <2>4, <3>1, AlikeFrom
  <2>6. Good(0) BY <2>1, <2>2, <2>5
  <2> HIDE DEF Good
  <2> QED BY <2>6
<1>4. ASSUME NEW i \in Nat \ {0}, i - 1 \in S PROVE i \in S
  <2> SUFFICES ASSUME i <= n PROVE Good(i) OBVIOUS
  <2>1. i \in 1..Len(text) /\ i - 1 <= n /\ i \in 0..n /\ i - 1 \in 0..n BY <1>1
  <2>2. SplitState(a[i - 1]) /\ DOMAIN c[i - 1] = CommandFields /\ Alike(text, i - 1, a[i - 1], c[i - 1])
    BY <1>4, <2>1
  <2>3. a[i] = Split(text, i, a[i - 1]) /\ c[i] = CommandStep(text, i, c[i - 1])
    BY <2>1 DEF SplitRun, CommandRun
  <2>4. a[i - 1].ok /\ Split(text, i, a[i - 1]).ok BY <1>2, <2>1, <2>3
  <2>5. SplitState(a[i]) /\ Shape(text, i, a[i - 1], a[i]) BY <2>2, <2>3, <2>4, SplitShape
  <2>6. DOMAIN c[i] = CommandFields BY <2>2, <2>3, CommandDomain
  <2>7. DOMAIN a[i - 1] = SplitFields BY <2>2 DEF SplitState
  <2>8. Alike(text, i, a[i], c[i]) BY <2>1, <2>2, <2>3, <2>4, <2>7, AlikeStep
  <2> QED BY <2>5, <2>6, <2>8
<1>5. Nat \subseteq S
  <2> HIDE DEF S
  <2> QED BY <1>3, <1>4, UpToAll
<1>6. ASSUME NEW i \in 0..n PROVE Good(i)
  <2>1. i \in Nat /\ i <= n BY <1>1
  <2> HIDE DEF Good
  <2> QED BY <1>5, <2>1
<1> QED BY <1>2, <1>6 DEF Together

LEMMA WithinPart ==
    ASSUME NEW text \in Seq(Nat), NEW a, NEW c, Together(text, a, c), NEW from \in Nat \ {0}, NEW to \in Nat,
           to <= Len(text), \A j \in (from - 1)..to : a[j].start = from /\ ~a[j].end
    PROVE  Inside(text, c, from, to)
<1> SUFFICES ASSUME NEW i \in from..to
             PROVE  ~EndsCommand(text, i, c[i - 1]) /\ (c[i].ok => ~c[i].end)
    BY DEF Inside
<1>1. i \in 0..Len(text) /\ i # 0 /\ i - 1 \in 0..Len(text) /\ i \in (from - 1)..to /\ i - 1 \in (from - 1)..to
      /\ i + 1 # from
  OBVIOUS
<1>2. a[i].start = from /\ ~a[i].end /\ a[i - 1].start = from /\ ~a[i - 1].end BY <1>1
<1>3. Alike(text, i, a[i], c[i]) /\ Alike(text, i - 1, a[i - 1], c[i - 1]) /\ Shape(text, i, a[i - 1], a[i])
      /\ SplitState(a[i - 1])
  BY <1>1 DEF Together
<1>4. c[i].ok => ~c[i].end BY <1>2, <1>3 DEF Alike
<1>5. ASSUME EndsCommand(text, i, c[i - 1]) PROVE FALSE
  <2>1. c[i - 1].ok /\ ~c[i - 1].end /\ c[i - 1].skip = 0 /\ c[i - 1].quote = 0 /\ text[i] = Semi
    BY <1>5 DEF EndsCommand
  <2>2. a[i - 1].quote = 0 /\ (a[i - 1].skip = 1 => c[i - 1].skip > 0) BY <1>3, <2>1 DEF Alike
  <2>3. a[i - 1].skip = 0 BY <1>3, <2>1, <2>2 DEF SplitState
  <2>4. a[i].start = i + 1 BY <1>2, <1>3, <2>1, <2>2, <2>3 DEF Shape
  <2> QED BY <1>1, <1>2, <2>4
<1> QED BY <1>4, <1>5

\* The words of the parts, and where the scan that splits stands in its part.
AllParse(parts) == \A k \in 1..Len(parts) : ParseWords(parts[k]).ok
Vals(parts)     == [k \in 1..Len(parts) |-> ParseWords(parts[k]).val]
Reach(s, i)     == IF s.end THEN s.cut ELSE i

Standing(text, s, i) ==
    /\ s.start \in Nat \ {0} /\ Reach(s, i) \in Nat /\ Reach(s, i) <= i /\ s.start <= Reach(s, i) + 1
    /\ ~s.end => s.cut = Len(text)
    /\ s.end => Reach(s, i) < i /\ text[Reach(s, i) + 1] = Hash
    /\ s.parts \in Seq(Seq(Nat))

HeldPart(a, i) ==
    /\ \A j \in (a[i].start - 1)..Reach(a[i], i) : a[j].start = a[i].start /\ ~a[j].end
    /\ a[i].end => a[Reach(a[i], i) + 1].end

ReadSoFar(a, c, i) == AllParse(a[i].parts) => Begun(c[a[i].start - 1], Vals(a[i].parts))

LEMMA ValsAppended ==
    ASSUME NEW parts \in Seq(Seq(Nat)), NEW part \in Seq(Nat), AllParse(Append(parts, part))
    PROVE  /\ Append(parts, part) \in Seq(Seq(Nat))
           /\ AllParse(parts) /\ ParseWords(part).ok
           /\ Vals(Append(parts, part)) = Append(Vals(parts), ParseWords(part).val)
<1> DEFINE X == Seq(Nat) n == Len(parts) more == Append(parts, part)
<1>0. parts \in Seq(X) /\ part \in X OBVIOUS
<1> HIDE DEF X
<1>1. n \in Nat /\ more \in Seq(X) /\ Len(more) = n + 1 /\ more[n + 1] = part
      /\ \A k \in 1..n : more[k] = parts[k]
  BY <1>0, AppendProperties, LenProperties
<1> HIDE DEF more
<1>2. AllParse(more) BY DEF more
<1> HIDE DEF n
<1>3. \A k \in 1..n : k \in 1..n + 1 BY <1>1
<1>4. n + 1 \in 1..n + 1 BY <1>1
<1>5. AllParse(parts) /\ ParseWords(part).ok
  <2>1. \A k \in 1..n + 1 : ParseWords(more[k]).ok BY <1>1, <1>2 DEF AllParse
  <2>2. \A k \in 1..n : ParseWords(parts[k]).ok BY <1>1, <1>3, <2>1
  <2>3. ParseWords(part).ok BY <1>1, <1>4, <2>1
  <2> QED BY <2>2, <2>3 DEF AllParse, n
<1>6. Vals(more) = Append(Vals(parts), ParseWords(part).val)
  <2> DEFINE W == {ParseWords(s).val : s \in X} v == Vals(parts) x == ParseWords(part).val
             u == Append(v, x)
  <2>1. \A k \in 1..n : parts[k] \in X BY <1>0, ElementOfSeq DEF n
  <2>2. v = [k \in 1..n |-> ParseWords(parts[k]).val] BY DEF Vals, n
  <2>3. \A k \in 1..n : ParseWords(parts[k]).val \in W BY <2>1
  <2>4. x \in W BY <1>0
  <2> HIDE DEF W, v, x
  <2>5. v \in Seq(W) /\ Len(v) = n BY <1>1, <2>2, <2>3
  <2>6. u \in Seq(W) /\ Len(u) = n + 1 /\ u[n + 1] = x /\ \A k \in 1..n : u[k] = v[k]
    BY <2>4, <2>5, AppendProperties
  <2>7. Vals(more) = [k \in 1..n + 1 |-> ParseWords(more[k]).val] BY <1>1 DEF Vals
  <2>8. \A k \in 1..n + 1 : ParseWords(more[k]).val = u[k]
    <3> SUFFICES ASSUME NEW k \in 1..n + 1 PROVE ParseWords(more[k]).val = u[k] OBVIOUS
    <3>1. CASE k = n + 1 BY <1>1, <2>6, <3>1 DEF x
    <3>2. CASE k # n + 1
      <4>1. k \in 1..n BY <1>1, <3>2
      <4> QED BY <1>1, <2>2, <2>6, <4>1
    <3> QED BY <3>1, <3>2
  <2> HIDE DEF u
  <2>9. u = [k \in 1..n + 1 |-> u[k]]
    <3>1. u \in [1..n + 1 -> W] BY <1>1, <2>6
    <3> QED BY <3>1
  <2>10. Vals(more) = u BY <2>7, <2>8, <2>9
  <2> QED BY <2>10 DEF u, v, x
<1> QED BY <1>0, <1>1, <1>5, <1>6 DEF more, X

LEMMA Progress ==
    ASSUME NEW text \in Seq(Nat), NEW a, a[0] = SplitStart(text), NEW c, c[0] = NoCommands,
           CommandRun(c, text), Together(text, a, c)
    PROVE  \A i \in 0..Len(text) : Standing(text, a[i], i) /\ HeldPart(a, i) /\ ReadSoFar(a, c, i)
<1> DEFINE n == Len(text) Good(i) == Standing(text, a[i], i) /\ HeldPart(a, i) /\ ReadSoFar(a, c, i)
           S == {i \in Nat : i <= n => Good(i)}
<1>1. n \in Nat OBVIOUS
<1>2. 0 \in S
  <2> DEFINE s == a[0]
  <2>1. ~s.end /\ s.start = 1 /\ s.cut = Len(text) /\ s.parts = <<>> BY DEF SplitStart
  <2>2. Reach(s, 0) = 0 BY <2>1 DEF Reach
  <2> HIDE DEF s
  <2>3. Standing(text, s, 0)
    <3>1. <<>> \in Seq(Seq(Nat)) /\ 1 \in Nat \ {0} /\ 0 \in Nat /\ 0 <= 0 /\ 1 <= 0 + 1 OBVIOUS
    <3> QED BY <2>1, <2>2, <3>1 DEF Standing
  <2>4. HeldPart(a, 0)
    <3>1. \A j \in (s.start - 1)..Reach(s, 0) : j = 0 BY <2>1, <2>2
    <3>2. \A j \in (s.start - 1)..Reach(s, 0) : a[j].start = s.start /\ ~a[j].end
      BY <2>1, <3>1 DEF s
    <3> QED BY <2>1, <3>2 DEF HeldPart, s
  <2>5. ReadSoFar(a, c, 0)
    <3>1. /\ NoCommands.ok /\ ~NoCommands.end /\ NoCommands.quote = 0 /\ ~NoCommands.started
          /\ NoCommands.fresh /\ NoCommands.skip = 0 /\ NoCommands.word = <<>> /\ NoCommands.words = <<>>
          /\ NoCommands.cmds = <<>>
      BY DEF NoCommands
    <3>2. DOMAIN NoCommands = CommandFields BY DEF NoCommands, CommandFields, Fields
    <3>3. Vals(<<>>) = <<>> BY DEF Vals
    <3>4. Begun(c[0], <<>>) BY <3>1, <3>2 DEF Begun
    <3>5. s.start - 1 = 0 BY <2>1
    <3> QED BY <2>1, <3>3, <3>4, <3>5 DEF ReadSoFar, s
  <2> QED BY <2>3, <2>4, <2>5 DEF s
<1>3. ASSUME NEW i \in Nat \ {0}, i - 1 \in S PROVE i \in S
  <2> SUFFICES ASSUME i <= n PROVE Good(i) OBVIOUS
  <2> DEFINE p == i - 1 s == a[p] t == a[i] from == s.start
  <2>1. i \in 1..Len(text) /\ p \in 0..Len(text) /\ i \in 0..Len(text) /\ i # 0 /\ p <= n /\ p \in Nat /\ p + 1 = i
    BY <1>1
  <2>2. Standing(text, s, p) /\ HeldPart(a, p) /\ ReadSoFar(a, c, p) BY <1>3, <2>1
  <2>3. Shape(text, i, s, t) /\ Alike(text, p, s, c[p]) /\ Alike(text, i, t, c[i]) BY <2>1 DEF Together
  <2>4. c[i] = CommandStep(text, i, c[p]) BY <2>1 DEF CommandRun
  <2>5. /\ from \in Nat \ {0} /\ Reach(s, p) \in Nat /\ Reach(s, p) <= p /\ from <= Reach(s, p) + 1
        /\ ~s.end => s.cut = Len(text)
        /\ s.end => Reach(s, p) < p /\ text[Reach(s, p) + 1] = Hash
        /\ s.parts \in Seq(Seq(Nat))
    BY <2>2 DEF Standing
  <2>6. \A j \in (from - 1)..Reach(s, p) : a[j].start = from /\ ~a[j].end BY <2>2 DEF HeldPart
  <2>12. s.end => a[Reach(s, p) + 1].end BY <2>2 DEF HeldPart
  <2>7. AllParse(s.parts) => Begun(c[from - 1], Vals(s.parts)) BY <2>2 DEF ReadSoFar
  <2> HIDE DEF n
  <2>8. CASE s.end /\ t = s
    <3>1. Reach(t, i) = Reach(s, p) BY <2>8 DEF Reach
    <3> HIDE DEF s, t, p
    <3>2. Standing(text, t, i) BY <2>1, <2>5, <2>8, <3>1 DEF Standing
    <3>3. HeldPart(a, i) BY <2>6, <2>12, <2>8, <3>1 DEF HeldPart, t
    <3>4. ReadSoFar(a, c, i) BY <2>7, <2>8 DEF ReadSoFar, t
    <3> QED BY <3>2, <3>3, <3>4 DEF t
  <2>9. CASE /\ ~s.end /\ t.end /\ t.cut = i - 1 /\ text[i] = Hash /\ IsComment(text[i], s.quote, s.started)
             /\ t.start = s.start /\ t.parts = s.parts /\ t.quote = s.quote
    <3>1. Reach(t, i) = p /\ Reach(s, p) = p BY <2>9 DEF Reach
    <3> HIDE DEF s, t, p
    <3>2. Standing(text, t, i) BY <2>1, <2>5, <2>9, <3>1 DEF Standing
    <3>3. HeldPart(a, i) BY <2>1, <2>6, <2>9, <3>1 DEF HeldPart, t
    <3>4. ReadSoFar(a, c, i) BY <2>7, <2>9 DEF ReadSoFar, t
    <3> QED BY <3>2, <3>3, <3>4 DEF t
  <2>10. CASE /\ ~s.end /\ ~t.end /\ ~(s.skip = 0 /\ s.quote = 0 /\ text[i] = Semi)
              /\ t.start = s.start /\ t.parts = s.parts /\ t.cut = s.cut
    <3>1. Reach(t, i) = i /\ Reach(s, p) = p BY <2>10 DEF Reach
    <3> HIDE DEF s, t, p
    <3>2. Standing(text, t, i) BY <2>1, <2>5, <2>10, <3>1 DEF Standing
    <3>3. HeldPart(a, i)
      <4>1. \A j \in (from - 1)..i : j = i \/ j \in (from - 1)..p BY <2>1, <2>5
      <4>2. \A j \in (from - 1)..i : a[j].start = from /\ ~a[j].end BY <2>6, <2>10, <3>1, <4>1 DEF t
      <4> QED BY <2>10, <3>1, <4>2 DEF HeldPart, t
    <3>4. ReadSoFar(a, c, i) BY <2>7, <2>10 DEF ReadSoFar, t
    <3> QED BY <3>2, <3>3, <3>4 DEF t
  <2>11. CASE /\ ~s.end /\ ~t.end /\ s.skip = 0 /\ s.quote = 0 /\ text[i] = Semi
              /\ t.start = i + 1 /\ t.parts = Append(s.parts, TrimBlanks(SubSeq(text, s.start, i - 1)))
              /\ t.cut = s.cut
    <3> DEFINE part == TrimBlanks(SubSeq(text, from, p))
    <3>1. Reach(t, i) = i /\ Reach(s, p) = p BY <2>11 DEF Reach
    <3>2. p <= Len(text) /\ from <= p + 1 /\ from \in Nat \ {0}
      <4> HIDE DEF s, p
      <4> QED BY <2>1, <2>5, <3>1
    <3>3. part \in Seq(Nat)
      <4> HIDE DEF s, p
      <4> QED BY <2>1, <3>2, TrimIs
    <3>4. Inside(text, c, from, p)
      <4> HIDE DEF s, p
      <4> QED BY <2>1, <2>6, <3>1, <3>2, WithinPart
    <3> HIDE DEF s, t, p, part
    <3>5. t.parts = Append(s.parts, part) BY <2>11 DEF p, part
    <3>6. s.parts \in Seq(Seq(Nat)) BY <2>5
    <3>7. Append(s.parts, part) \in Seq(Seq(Nat)) BY <3>3, <3>6, AppendProperties
    <3>8. Standing(text, t, i)
      <4>1. t.parts \in Seq(Seq(Nat)) BY <3>5, <3>7
      <4>2. t.start \in Nat \ {0} /\ Reach(t, i) \in Nat /\ Reach(t, i) <= i /\ t.start <= Reach(t, i) + 1
        BY <2>1, <2>11, <3>1
      <4>3. t.cut = Len(text) /\ ~t.end BY <2>5, <2>11
      <4> QED BY <4>1, <4>2, <4>3 DEF Standing
    <3>9. HeldPart(a, i)
      <4>1. \A j \in (t.start - 1)..i : j = i BY <2>1, <2>11
      <4>2. \A j \in (t.start - 1)..i : a[j].start = t.start /\ ~a[j].end BY <2>11, <4>1 DEF t
      <4> QED BY <2>11, <3>1, <4>2 DEF HeldPart, t
    <3>10. ASSUME AllParse(t.parts) PROVE Begun(c[t.start - 1], Vals(t.parts))
      <4>1. AllParse(s.parts) /\ ParseWords(part).ok
            /\ Vals(t.parts) = Append(Vals(s.parts), ParseWords(part).val)
        BY <3>3, <3>5, <3>6, <3>10, ValsAppended
      <4> DEFINE vals == Vals(s.parts) ws == ParseWords(part).val
      <4>2. Begun(c[from - 1], vals) BY <2>7, <4>1
      <4> HIDE DEF vals
      <4>3. Finished(c[p], vals, ws)
        <5>1. p < Len(text) => text[p + 1] \in {Semi, Hash} BY <2>1, <2>11
        <5>2. ParseWords(TrimBlanks(SubSeq(text, from, p))).ok BY <4>1 DEF part
        <5>3. Finished(c[p], vals, ParseWords(TrimBlanks(SubSeq(text, from, p))).val)
          BY <2>1, <3>2, <3>4, <4>2, <5>1, <5>2, PartRead
        <5> QED BY <5>3 DEF part
      <4> HIDE DEF ws
      <4>4. EndsCommand(text, i, c[p]) /\ DOMAIN c[p] = CommandFields BY <2>11, <4>3 DEF Finished, EndsCommand
      <4>5. c[p].started \/ c[p].word = <<>> BY <2>3, <4>3 DEF Alike, Finished
      <4>6. Begun(c[i], Append(vals, ws))
        <5>1. /\ DOMAIN c[i] = CommandFields
              /\ c[i].ok /\ ~c[i].end /\ c[i].quote = 0 /\ c[i].skip = 0
              /\ ~c[i].started /\ c[i].fresh /\ c[i].words = <<>>
              /\ c[i].cmds = Append(c[p].cmds, FlushWord(c[p]).words)
              /\ c[i].word = <<>>
          BY <2>4, <4>4, <4>5, CommandEnds
        <5> QED BY <4>3, <5>1 DEF Begun, Finished
      <4>7. t.start - 1 = i BY <2>1, <2>11
      <4> QED BY <4>1, <4>6, <4>7 DEF vals, ws
    <3>11. ReadSoFar(a, c, i) BY <3>10 DEF ReadSoFar, t
    <3> QED BY <3>8, <3>9, <3>11 DEF t
  <2> QED
    <3> HIDE DEF s, t, Good
    <3> QED BY <2>3, <2>8, <2>9, <2>10, <2>11 DEF Shape
<1>4. Nat \subseteq S
  <2> HIDE DEF S
  <2> QED BY <1>2, <1>3, UpToAll
<1>5. ASSUME NEW i \in 0..n PROVE Good(i)
  <2>1. i \in Nat /\ i <= n BY <1>1
  <2> HIDE DEF Good
  <2> QED BY <1>4, <2>1
<1> QED BY <1>5

-----------------------------------------------------------------------------
KeepScan(u, n, lists) == u = [i \in 0..n |-> IF i = 0 THEN <<>> ELSE KeepWords(lists, i, u[i - 1])]

LEMMA KeepScanExists == ASSUME NEW lists, NEW n \in Nat PROVE \E u : KeepScan(u, n, lists)
<1> DEFINE S == {k \in Nat : \E u : KeepScan(u, k, lists)}
<1>1. 0 \in S
  <2>1. KeepScan([i \in 0..0 |-> <<>>], 0, lists) BY DEF KeepScan
  <2> QED BY <2>1
<1>2. ASSUME NEW m \in Nat \ {0}, m - 1 \in S PROVE m \in S
  <2>1. PICK u : KeepScan(u, m - 1, lists) BY <1>2
  <2> DEFINE v == [i \in 0..m |-> IF i = m THEN KeepWords(lists, m, u[m - 1]) ELSE u[i]]
  <2>2. \A i \in 0..m : i # 0 /\ i # m => u[i] = KeepWords(lists, i, u[i - 1]) BY <2>1 DEF KeepScan
  <2>3. u[0] = <<>> BY <2>1 DEF KeepScan
  <2>4. \A i \in 0..m : v[i] = IF i = 0 THEN <<>> ELSE KeepWords(lists, i, v[i - 1])
    <3> SUFFICES ASSUME NEW i \in 0..m
                 PROVE  v[i] = IF i = 0 THEN <<>> ELSE KeepWords(lists, i, v[i - 1])
        OBVIOUS
    <3>1. CASE i = 0
      <4>1. i # m BY <3>1
      <4> QED BY <4>1, <3>1, <2>3
    <3>2. CASE i # 0
      <4>1. i - 1 \in 0..m /\ i - 1 # m BY <3>2
      <4>2. v[i - 1] = u[i - 1] BY <4>1
      <4>3. v[i] = KeepWords(lists, i, u[i - 1]) BY <2>2, <3>2
      <4> QED BY <4>2, <4>3, <3>2
    <3> QED BY <3>1, <3>2
  <2>5. v = [i \in 0..m |-> v[i]] OBVIOUS
  <2>6. KeepScan(v, m, lists)
    <3> HIDE DEF v
    <3> QED BY <2>4, <2>5 DEF KeepScan
  <2> QED BY <2>6
<1>3. Nat \subseteq S
  <2> HIDE DEF S
  <2> QED BY <1>1, <1>2, UpToAll
<1> QED BY <1>3

LEMMA NonEmptyScanned ==
    ASSUME NEW lists, Len(lists) \in Nat
    PROVE  \E u : /\ u[0] = <<>> /\ NonEmpty(lists) = u[Len(lists)]
                  /\ \A i \in 1..Len(lists) : u[i] = KeepWords(lists, i, u[i - 1])
<1> DEFINE u == CHOOSE u : KeepScan(u, Len(lists), lists)
<1>1. KeepScan(u, Len(lists), lists) BY KeepScanExists
<1>2. NonEmpty(lists) = u[Len(lists)] BY DEF NonEmpty, Scan, KeepScan
<1> HIDE DEF u
<1>3. \A i \in 0..Len(lists) : u[i] = IF i = 0 THEN <<>> ELSE KeepWords(lists, i, u[i - 1])
  BY <1>1 DEF KeepScan
<1>4. 0 \in 0..Len(lists) /\ \A i \in 1..Len(lists) : i \in 0..Len(lists) /\ i # 0 OBVIOUS
<1> QED BY <1>2, <1>3, <1>4

\* A list of no words is passed over.
LEMMA EmptyPassed ==
    ASSUME NEW lists, NEW n \in Nat, Len(lists) = n, NEW more, Len(more) = n + 1, more[n + 1] = <<>>,
           \A k \in 1..n : more[k] = lists[k]
    PROVE  NonEmpty(more) = NonEmpty(lists)
<1>1. PICK u : /\ u[0] = <<>> /\ NonEmpty(lists) = u[n]
               /\ \A i \in 1..n : u[i] = KeepWords(lists, i, u[i - 1])
  BY NonEmptyScanned
<1>2. PICK v : /\ v[0] = <<>> /\ NonEmpty(more) = v[n + 1]
               /\ \A i \in 1..n + 1 : v[i] = KeepWords(more, i, v[i - 1])
  <2>1. n + 1 \in Nat OBVIOUS
  <2> QED BY <2>1, NonEmptyScanned
<1> DEFINE S == {k \in Nat : k <= n => v[k] = u[k]}
<1>3. 0 \in S BY <1>1, <1>2
<1>4. ASSUME NEW m \in Nat \ {0}, m - 1 \in S PROVE m \in S
  <2> SUFFICES ASSUME m <= n PROVE v[m] = u[m] OBVIOUS
  <2>1. m \in 1..n /\ m \in 1..n + 1 /\ m - 1 <= n OBVIOUS
  <2>2. v[m - 1] = u[m - 1] BY <1>4, <2>1
  <2>3. KeepWords(more, m, v[m - 1]) = KeepWords(lists, m, u[m - 1]) BY <2>1, <2>2 DEF KeepWords
  <2> QED BY <1>1, <1>2, <2>1, <2>3
<1>5. Nat \subseteq S
  <2> HIDE DEF S
  <2> QED BY <1>3, <1>4, UpToAll
<1>6. v[n] = u[n] BY <1>5
<1>7. n + 1 \in 1..n + 1 /\ (n + 1) - 1 = n OBVIOUS
<1>8. v[n + 1] = KeepWords(more, n + 1, v[n]) BY <1>2, <1>7
<1> QED BY <1>1, <1>2, <1>6, <1>8 DEF KeepWords

CommandScan(a, n, text) == a = [i \in 0..n |-> IF i = 0 THEN NoCommands ELSE CommandStep(text, i, a[i - 1])]

LEMMA CommandScanExists == ASSUME NEW text, NEW n \in Nat PROVE \E a : CommandScan(a, n, text)
<1> DEFINE S == {k \in Nat : \E a : CommandScan(a, k, text)}
<1>1. 0 \in S
  <2>1. CommandScan([i \in 0..0 |-> NoCommands], 0, text) BY DEF CommandScan
  <2> QED BY <2>1
<1>2. ASSUME NEW m \in Nat \ {0}, m - 1 \in S PROVE m \in S
  <2>1. PICK a : CommandScan(a, m - 1, text) BY <1>2
  <2> DEFINE b == [i \in 0..m |-> IF i = m THEN CommandStep(text, m, a[m - 1]) ELSE a[i]]
  <2>2. \A i \in 0..m : i # 0 /\ i # m => a[i] = CommandStep(text, i, a[i - 1]) BY <2>1 DEF CommandScan
  <2>3. a[0] = NoCommands BY <2>1 DEF CommandScan
  <2>4. \A i \in 0..m : b[i] = IF i = 0 THEN NoCommands ELSE CommandStep(text, i, b[i - 1])
    <3> SUFFICES ASSUME NEW i \in 0..m
                 PROVE  b[i] = IF i = 0 THEN NoCommands ELSE CommandStep(text, i, b[i - 1])
        OBVIOUS
    <3>1. CASE i = 0
      <4>1. i # m BY <3>1
      <4> QED BY <4>1, <3>1, <2>3
    <3>2. CASE i # 0
      <4>1. i - 1 \in 0..m /\ i - 1 # m BY <3>2
      <4>2. b[i - 1] = a[i - 1] BY <4>1
      <4>3. b[i] = CommandStep(text, i, a[i - 1]) BY <2>2, <3>2
      <4> QED BY <4>2, <4>3, <3>2
    <3> QED BY <3>1, <3>2
  <2>5. b = [i \in 0..m |-> b[i]] OBVIOUS
  <2>6. CommandScan(b, m, text)
    <3> HIDE DEF b
    <3> QED BY <2>4, <2>5 DEF CommandScan
  <2> QED BY <2>6
<1>3. Nat \subseteq S
  <2> HIDE DEF S
  <2> QED BY <1>1, <1>2, UpToAll
<1> QED BY <1>3

CommandsAfter(s) ==
    LET f == FlushWord(s) IN
    IF f.ok /\ f.quote = 0 THEN Accepted(NonEmpty(Append(f.cmds, f.words))) ELSE Refused

LEMMA CommandsScanned ==
    ASSUME NEW text, Len(text) \in Nat
    PROVE  \E c : /\ c[0] = NoCommands /\ CommandRun(c, text)
                  /\ CommandsIn(text) = CommandsAfter(c[Len(text)])
<1> DEFINE c == CHOOSE c : CommandScan(c, Len(text), text)
<1>1. CommandScan(c, Len(text), text) BY CommandScanExists
<1>2. CommandsIn(text) = CommandsAfter(c[Len(text)]) BY DEF CommandsIn, Scan, CommandScan, CommandsAfter
<1> HIDE DEF c
<1>3. \A i \in 0..Len(text) : c[i] = IF i = 0 THEN NoCommands ELSE CommandStep(text, i, c[i - 1])
  BY <1>1 DEF CommandScan
<1>4. 0 \in 0..Len(text) /\ \A i \in 1..Len(text) : i \in 0..Len(text) /\ i # 0 OBVIOUS
<1> QED BY <1>2, <1>3, <1>4 DEF CommandRun

\* The one scan at the end of a text: its last command has been read, a comment may follow.
ReadWhole(s, cmds, ws) ==
    DOMAIN s = CommandFields /\ s.ok /\ s.cmds = cmds /\ s.quote = 0 /\ FlushWord(s).words = ws

LEMMA WholeTaken ==
    ASSUME NEW s, NEW cmds, NEW ws, ReadWhole(s, cmds, ws)
    PROVE  CommandsAfter(s) = Accepted(NonEmpty(Append(cmds, ws)))
<1> DEFINE f == FlushWord(s)
<1>1. f.ok /\ f.quote = 0 /\ f.cmds = cmds /\ f.words = ws
  <2>1. f.words = ws BY DEF ReadWhole
  <2>2. CASE s.started
    <3>1. f = [s EXCEPT !.words = Append(s.words, s.word), !.word = <<>>, !.started = FALSE]
      BY <2>2 DEF FlushWord
    <3> HIDE DEF f
    <3> QED BY <2>1, <3>1 DEF ReadWhole, CommandFields, Fields
  <2>3. CASE ~s.started
    <3>1. f = s BY <2>3 DEF FlushWord
    <3> HIDE DEF f
    <3> QED BY <2>1, <3>1 DEF ReadWhole
  <2> QED BY <2>2, <2>3
<1> HIDE DEF f
<1> QED BY <1>1 DEF CommandsAfter, f

LEMMA CommentRead ==
    ASSUME NEW text \in Seq(Nat), NEW c, CommandRun(c, text), NEW r \in Nat, r < Len(text),
           text[r + 1] = Hash, ~c[r].started, NEW cmds, NEW ws, Finished(c[r], cmds, ws)
    PROVE  ReadWhole(c[Len(text)], cmds, ws)
<1> DEFINE n == Len(text) After(s) == ReadWhole(s, cmds, ws) /\ s.end
           S == {k \in Nat : (r + 1) + k <= n => After(c[(r + 1) + k])}
<1>1. n \in Nat /\ r + 1 \in 1..n /\ (r + 1) - 1 = r OBVIOUS
<1>2. 0 \in S
  <2> DEFINE s == c[r]
  <2>1. s.ok /\ ~s.end /\ ~(s.skip > 0) /\ s.quote = 0 BY DEF Finished
  <2>2. text[r + 1] # Semi /\ text[r + 1] \notin Blanks BY DEF Hash, Semi, Blanks, Space, Tab
  <2>3. IsComment(text[r + 1], s.quote, s.started) BY <2>1 DEF IsComment
  <2>4. ~EndsCommand(text, r + 1, s) BY <2>2 DEF EndsCommand
  <2>5. c[r + 1] = [s EXCEPT !.end = TRUE]
    <3>1. WordStep(text, r + 1, s) = [s EXCEPT !.end = TRUE] BY <2>1, <2>2, <2>3 DEF WordStep
    <3>2. c[r + 1] = CommandStep(text, r + 1, s) BY <1>1 DEF CommandRun
    <3> QED BY <2>4, <3>1, <3>2, WordContinued
  <2> DEFINE t == c[r + 1]
  <2>6. DOMAIN t = CommandFields /\ t.ok /\ t.end /\ t.cmds = cmds /\ t.quote = 0
        /\ ~t.started /\ t.words = s.words
    <3> HIDE DEF t
    <3>1. t = [s EXCEPT !.end = TRUE] BY <2>5 DEF t
    <3>2. DOMAIN s = CommandFields /\ s.cmds = cmds /\ ~s.started BY DEF Finished
    <3> HIDE DEF s
    <3> QED BY <2>1, <3>1, <3>2 DEF CommandFields, Fields
  <2>7. FlushWord(t).words = ws
    <3>1. FlushWord(s) = s BY DEF FlushWord
    <3>2. FlushWord(s).words = ws BY DEF Finished
    <3> HIDE DEF s, t
    <3>3. FlushWord(t) = t BY <2>6 DEF FlushWord
    <3> QED BY <2>6, <3>1, <3>2, <3>3
  <2>8. After(t) BY <2>6, <2>7 DEF ReadWhole
  <2>9. (r + 1) + 0 = r + 1 OBVIOUS
  <2> HIDE DEF After
  <2> QED BY <2>8, <2>9
<1>3. ASSUME NEW k \in Nat \ {0}, k - 1 \in S PROVE k \in S
  <2> SUFFICES ASSUME (r + 1) + k <= n PROVE After(c[(r + 1) + k]) OBVIOUS
  <2> DEFINE i == (r + 1) + k
  <2>1. i \in 1..Len(text) /\ i - 1 = (r + 1) + (k - 1) /\ (r + 1) + (k - 1) <= n BY <1>1
  <2>2. After(c[i - 1])
    <3> HIDE DEF After
    <3> QED BY <1>3, <2>1
  <2> HIDE DEF i
  <2>3. ~EndsCommand(text, i, c[i - 1]) BY <2>2 DEF EndsCommand
  <2>4. WordStep(text, i, c[i - 1]) = c[i - 1] BY <2>2 DEF WordStep
  <2>5. c[i] = CommandStep(text, i, c[i - 1]) BY <2>1 DEF CommandRun
  <2>6. c[i] = c[i - 1] BY <2>3, <2>4, <2>5, WordContinued
  <2>7. After(c[i]) BY <2>2, <2>6
  <2> QED BY <2>7 DEF i
<1>4. Nat \subseteq S
  <2> HIDE DEF S
  <2> QED BY <1>2, <1>3, UpToAll
<1>5. n - (r + 1) \in Nat /\ (r + 1) + (n - (r + 1)) = n /\ n <= n BY <1>1
<1>6. After(c[n])
  <2>1. n - (r + 1) \in S BY <1>4, <1>5
  <2> HIDE DEF After
  <2> QED BY <1>5, <2>1
<1> QED BY <1>6

LEMMA NothingParsed == ParseWords(<<>>) = Accepted(<<>>)
<1>1. Len(<<>>) = 0 /\ 0 \in Nat OBVIOUS
<1>2. PICK a : a[0] = NoWords /\ ParseWords(<<>>) = WordsAfter(a[0]) BY <1>1, WordsScanned
<1>3. FlushWord(NoWords) = NoWords BY DEF FlushWord, NoWords
<1>4. NoWords.ok /\ NoWords.quote = 0 /\ NoWords.words = <<>> BY DEF NoWords
<1> QED BY <1>2, <1>3, <1>4 DEF WordsAfter

\* What is parsed are the words of each part.
LEMMA PartsParsed ==
    ASSUME NEW parts \in Seq(Seq(Nat)), Parsed(parts, TRUE).ok
    PROVE  AllParse(parts) /\ Parsed(parts, TRUE) = Accepted(NonEmpty(Vals(parts)))
<1> DEFINE words == WordsOf(parts) vals == [i \in DOMAIN words |-> words[i].val]
           bad == \E i \in DOMAIN words : ~words[i].ok \/ (~TRUE /\ words[i].val = <<>>)
<1>1. DOMAIN parts = 1..Len(parts) OBVIOUS
<1>2. DOMAIN words = 1..Len(parts) /\ \A i \in 1..Len(parts) : words[i] = ParseWords(parts[i])
  BY <1>1 DEF WordsOf
<1>3. vals = Vals(parts)
  <2> HIDE DEF words
  <2> QED BY <1>2 DEF Vals
<1>4. Parsed(parts, TRUE) = IF bad THEN Refused ELSE Sequence(NonEmpty(vals)) BY DEF Parsed
<1>5. ~Refused.ok BY DEF Refused
<1> HIDE DEF bad, vals, words
<1>6. ~bad BY <1>4, <1>5
<1>7. AllParse(parts) BY <1>2, <1>6 DEF AllParse, bad
<1>8. Parsed(parts, TRUE) = Sequence(NonEmpty(vals)) BY <1>4, <1>6
<1>9. Sequence(NonEmpty(vals)) = Accepted(NonEmpty(vals))
  <2>1. Sequence(NonEmpty(vals)).ok BY <1>8
  <2> QED BY <1>5, <2>1 DEF Sequence
<1> QED BY <1>3, <1>7, <1>8, <1>9

LEMMA EveryTextAgrees == \A text \in Seq(0..255) : SplitsAsItParses(text)
<1> SUFFICES ASSUME NEW text \in Seq(0..255), ParseSequence(text).ok, ~Continued(text)
             PROVE  CommandsIn(text) = Accepted(ParseSequence(text).val)
    BY DEF SplitsAsItParses
<1> DEFINE n == Len(text)
<1>1. text \in Seq(Nat) /\ n \in Nat
  <2>1. 0..255 \subseteq Nat OBVIOUS
  <2> DEFINE X == 0..255
  <2>2. text \in Seq(X) /\ X \subseteq Nat BY <2>1
  <2> HIDE DEF X
  <2>3. Len(text) \in Nat /\ \A i \in 1..Len(text) : text[i] \in Nat BY <2>2, ElementOfSeq, LenProperties
  <2> QED BY <2>2, <2>3, InSeq
<1>2. PICK a : a[0] = SplitStart(text) /\ SplitRun(a, text) /\ SplitSequence(text) = PartsAfter(text, a[n])
  BY <1>1, SequenceScanned
<1>3. PICK c : c[0] = NoCommands /\ CommandRun(c, text) /\ CommandsIn(text) = CommandsAfter(c[n])
  BY <1>1, CommandsScanned
<1> DEFINE s == a[n] r == Reach(s, n) from == s.start last == TrimBlanks(SubSeq(text, from, s.cut))
           parts == IF last = <<>> THEN s.parts ELSE Append(s.parts, last)
           vals == Vals(s.parts) ws == ParseWords(last).val
<1>4. ~Refused.ok BY DEF Refused
<1>5. s.ok /\ ParseSequence(text) = Parsed(parts, TRUE)
  <2>1. SplitSequence(text).ok BY <1>4 DEF ParseSequence
  <2>2. s.ok /\ s.quote = 0
    <3> HIDE DEF s
    <3> QED BY <1>2, <1>4, <2>1 DEF PartsAfter, s
  <2>3. PartsAfter(text, s) = Accepted(parts)
    <3> HIDE DEF s
    <3> QED BY <2>2 DEF PartsAfter
  <2>4. Accepted(parts).val = parts BY DEF Accepted
  <2> HIDE DEF parts
  <2> QED BY <1>2, <2>1, <2>2, <2>3, <2>4 DEF ParseSequence
<1>6. Together(text, a, c) BY <1>1, <1>2, <1>3, <1>5, BothScan
<1>7. Standing(text, s, n) /\ HeldPart(a, n) /\ ReadSoFar(a, c, n)
  <2>1. n \in 0..Len(text) BY <1>1
  <2> HIDE DEF n
  <2> QED BY <1>1, <1>2, <1>3, <1>6, <2>1, Progress
<1>8. from \in Nat \ {0} /\ r \in Nat /\ r <= n /\ from <= r + 1 /\ s.parts \in Seq(Seq(Nat))
      /\ (~s.end => s.cut = n) /\ (s.end => r < n /\ text[r + 1] = Hash)
  BY <1>7 DEF Standing
<1>9. r = s.cut /\ (r < n => s.end)
  <2> HIDE DEF s, n
  <2> QED BY <1>1, <1>8 DEF Reach
<1>10. last \in Seq(Nat)
  <2> HIDE DEF s, n, r, from
  <2>1. TrimBlanks(SubSeq(text, from, r)) \in Seq(Nat) BY <1>1, <1>8, TrimIs DEF n
  <2> QED BY <1>9, <2>1
<1> HIDE DEF last
<1>11. parts \in Seq(Seq(Nat)) BY <1>8, <1>10, AppendProperties
<1>12. AllParse(parts) /\ ParseSequence(text) = Accepted(NonEmpty(Vals(parts)))
  <2> HIDE DEF parts
  <2>1. Parsed(parts, TRUE).ok BY <1>5
  <2> QED BY <1>5, <1>11, <2>1, PartsParsed
<1>13. AllParse(s.parts) /\ ParseWords(last).ok /\ NonEmpty(Append(vals, ws)) = NonEmpty(Vals(parts))
  <2>1. CASE last = <<>>
    <3>1. ParseWords(last).ok /\ ws = <<>> BY <2>1, NothingParsed DEF Accepted
    <3>2. parts = s.parts BY <2>1
    <3>3. NonEmpty(Append(vals, <<>>)) = NonEmpty(vals)
      <4> DEFINE m == Len(s.parts) W == {ParseWords(x).val : x \in Seq(Nat)} X == Seq(Nat)
      <4>0. s.parts \in Seq(X) BY <1>8
      <4> HIDE DEF X
      <4>1. m \in Nat /\ \A k \in 1..m : s.parts[k] \in X BY <4>0, ElementOfSeq, LenProperties
      <4>2. \A k \in 1..m : ParseWords(s.parts[k]).val \in W BY <4>1 DEF X
      <4>3. <<>> \in W
        <5>1. <<>> \in Seq(Nat) OBVIOUS
        <5>2. ParseWords(<<>>).val = <<>> BY NothingParsed DEF Accepted
        <5> QED BY <5>1, <5>2
      <4>4. vals = [k \in 1..m |-> ParseWords(s.parts[k]).val] BY DEF Vals
      <4> HIDE DEF W, vals, m
      <4>5. vals \in Seq(W) /\ Len(vals) = m BY <4>1, <4>2, <4>4
      <4>6. Len(Append(vals, <<>>)) = m + 1 /\ Append(vals, <<>>)[m + 1] = <<>>
            /\ \A k \in 1..m : Append(vals, <<>>)[k] = vals[k]
        BY <4>3, <4>5, AppendProperties
      <4> QED BY <4>1, <4>5, <4>6, EmptyPassed
    <3> QED BY <1>12, <3>1, <3>2, <3>3
  <2>2. CASE last # <<>>
    <3>1. parts = Append(s.parts, last) BY <2>2
    <3> HIDE DEF parts, s
    <3>2. AllParse(Append(s.parts, last)) BY <1>12, <3>1
    <3>3. AllParse(s.parts) /\ ParseWords(last).ok
          /\ Vals(Append(s.parts, last)) = Append(Vals(s.parts), ParseWords(last).val)
      BY <1>8, <1>10, <3>2, ValsAppended
    <3> QED BY <3>1, <3>3
  <2> QED BY <2>1, <2>2
<1>14. Begun(c[from - 1], vals) BY <1>7, <1>13 DEF ReadSoFar
<1> HIDE DEF vals, parts
<1>15. Finished(c[r], vals, ws)
  <2>1. Inside(text, c, from, r)
    <3>1. \A j \in (from - 1)..r : a[j].start = from /\ ~a[j].end BY <1>7 DEF HeldPart
    <3> HIDE DEF s, r, from
    <3> QED BY <1>1, <1>6, <1>8, <3>1, WithinPart
  <2>2. r < Len(text) => text[r + 1] \in {Semi, Hash} BY <1>8, <1>9
  <2>3. last = TrimBlanks(SubSeq(text, from, r)) BY <1>9 DEF last
  <2> HIDE DEF s, r, from
  <2>4. Finished(c[r], vals, ParseWords(TrimBlanks(SubSeq(text, from, r))).val)
    BY <1>1, <1>3, <1>8, <1>13, <1>14, <2>1, <2>2, <2>3, PartRead
  <2> QED BY <2>3, <2>4
<1> HIDE DEF ws
<1>16. ReadWhole(c[n], vals, ws)
  <2>1. CASE r = n BY <1>15, <2>1 DEF Finished, ReadWhole
  <2>2. CASE r # n
    <3>1. r < n
      <4> HIDE DEF r, n, s, from
      <4> QED BY <1>1, <1>8, <2>2
    <3>2. s.end /\ text[r + 1] = Hash BY <1>8, <1>9, <3>1
    <3>3. a[r + 1].end /\ a[r].start = from /\ ~a[r].end
      <4>1. a[r + 1].end BY <1>7, <3>2 DEF HeldPart
      <4>2. r \in (from - 1)..r
        <5> HIDE DEF r, s, from
        <5> QED BY <1>8
      <4>3. a[r].start = from /\ ~a[r].end BY <1>7, <4>2 DEF HeldPart
      <4> QED BY <4>1, <4>3
    <3> HIDE DEF r, s, from
    <3>4. r + 1 \in 0..Len(text) /\ r + 1 # 0 /\ (r + 1) - 1 = r /\ r \in 0..Len(text) BY <1>1, <1>8, <3>1
    <3>5. Shape(text, r + 1, a[r], a[r + 1])
      <4>1. Shape(text, r + 1, a[(r + 1) - 1], a[r + 1]) BY <1>6, <3>4 DEF Together
      <4> QED BY <3>4, <4>1
    <3>6. IsComment(text[r + 1], a[r].quote, a[r].started) BY <3>3, <3>5 DEF Shape
    <3>7. ~a[r].started BY <3>6 DEF IsComment
    <3>8. Alike(text, r, a[r], c[r]) BY <1>6, <3>4 DEF Together
    <3>9. ~c[r].started BY <1>15, <3>7, <3>8 DEF Alike, Finished
    <3> QED BY <1>1, <1>3, <1>8, <1>15, <3>1, <3>2, <3>9, CommentRead
  <2> QED BY <2>1, <2>2
<1>17. CommandsIn(text) = Accepted(NonEmpty(Append(vals, ws))) BY <1>3, <1>16, WholeTaken
<1>18. ParseSequence(text).val = NonEmpty(Vals(parts)) BY <1>12 DEF Accepted
<1> QED BY <1>13, <1>17, <1>18

\* The two scans agree on every text: what ParseSequence accepts, which splits first and then parses
\* part by part, are the commands that one scan over the whole text finds, whatever the text holds
\* but a backslash before a line feed (splitSequence and ParseWords).
THEOREM ScansOfTextAgree == TextSpec => []ScansAgree
<1>1. TextInit => ScansAgree BY EveryTextAgrees DEF TextInit, ScansAgree
<1>2. ScansAgree /\ [FALSE]_probe => ScansAgree' BY DEF ScansAgree
<1> QED BY <1>1, <1>2, PTL DEF TextSpec
=============================================================================
