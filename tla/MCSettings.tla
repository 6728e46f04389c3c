----------------------------- MODULE MCSettings -----------------------------
(* An instance of Settings for TLC: arrays of three updates, two values, two*)
(* key tables, and a daemon that is replaced once; and beside it, as states *)
(* of their own in which Settings does nothing, the texts and command lines *)
(* on which CommandText and CommandLine are examined.                       *)
EXTENDS Settings, CommandLine, TextProbe

NoProbe == [kind |-> "none"]
Idle    == call = [op |-> "change", scope |-> "server", origin |-> 0] /\ bound = 0

UpTo(n, set) == UNION {[1..k -> set] : k \in 0..n}

\* Arguments: every byte with a meaning of its own to one of the scans, to octal escapes or to tmux.
Bytes == {Tab, LF, Space, DQ, Hash, Dollar, SQ, 48, Semi, Backslash, Backtick, 97, 110, LBrace,
          RBrace, Tilde, 127, 200}
Few   == {<<>>, <<97>>, <<Semi>>, <<Backslash>>, <<DQ, Semi>>, <<LF>>, <<Backslash, Semi>>}
NameC == <<99>>
Leaf(args) == Node(NameC, [i \in DOMAIN args |-> Text(args[i])])
MCPlans ==
    {<<>>} \cup {<<Leaf(<<a>>)>> : a \in UpTo(2, Bytes)}
    \cup {<<Leaf(<<a, b>>), Leaf(<<a>>)>> : a, b \in Few}
    \cup {<<Node(NameC, <<Nested(<<Node(NameC, <<Text(a), Nested(<<Leaf(<<b>>)>>)>>), Leaf(<<b>>)>>),
                          Text(b)>>)>> : a, b \in Few}

\* Texts: anything a caller, a hook or a binding may hold.
MCTexts == UpTo(6, {97, Space, Semi, SQ, DQ, Backslash, Hash, LF})

\* Command lines of three arguments, and the ones of every configuration.
Args ==
    {Flag(ch) : ch \in Simple \cup Valued} \cup {<<>>, <<Dash>>, DashDash, <<Semi>>, NameC}
    \cup {Flag(FlagUTF8) \o <<FlagExisting>>, Flag(FlagName) \o <<97>>, Flag(FlagLogin) \o <<FlagPath>>,
          Flag(FlagVerbose) \o <<FlagFeatures, 97, Comma, 98>>, Flag(FlagControl) \o <<FlagControl>>}
MCLines == UpTo(3, Args)
MCConfigs ==
    [utf8: {"default", "force", "omit"}, colors: BOOLEAN, login: BOOLEAN, file: {<<>>, DashDash},
     features: {<<>>, <<<<97>>>>, <<<<97>>, <<98>>>>}, path: {<<>>}, name: {<<97>>}]
    \cup [utf8: {"omit"}, colors: {FALSE}, login: BOOLEAN, file: {<<>>}, features: {<<>>},
          path: {<<97>>, <<Dash>>}, name: {<<>>}]
MCCommands == {<<>>, <<Leaf(<<<<Dash>>>>), Leaf(<<<<Semi>>>>)>>}

Probes ==
    [kind: {"plan"}, plan: MCPlans] \cup [kind: {"text"}, text: MCTexts]
    \cup [kind: {"args"}, args: MCLines]
    \cup [kind: {"root"}, cfg: MCConfigs, log: {"none", "verbose", "debug"}, start: BOOLEAN,
          plan: MCCommands]

MCInit == Init /\ (probe = NoProbe \/ (Idle /\ probe \in Probes))
MCNext == probe = NoProbe /\ Next /\ UNCHANGED probe
MCSpec == MCInit /\ [][MCNext]_<<vars, probe>>

\* What a caller asks for is what tmux is asked, over a connection or by a process, and what is
\* shown of a hook or a binding is what was stored (writeNodes, argv, parsePayload, parseBinding).
CommandsArrive == probe.kind = "plan" => DeliversTheSame(probe.plan)

\* Root flags mean the same bundled or apart, and the library can read the command line it writes
\* itself (ParseCommandLine, baseArgs).
CommandLinesReadBack ==
    /\ probe.kind = "args" => BundlesMeanTheirFlags(probe.args)
    /\ probe.kind = "root" => ReadsOwnCommandLine(probe.cfg, probe.log, probe.start, probe.plan)
=============================================================================
