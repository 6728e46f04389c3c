----------------------------- MODULE CommandLine -----------------------------
(* tmux's own command line: the root flags that this library writes in      *)
(* front of a command (Server.baseArgs) and those that ParseCommandLine     *)
(* reads from a caller, bundled or not, up to the first word of a command.  *)
EXTENDS CommandText

Dash == 45
Comma == 44

Flag(ch) == <<Dash, ch>>

FlagColors == 50
FlagUTF8 == 117
FlagLogin == 108
FlagVerbose == 118
FlagExisting == 78
FlagForeground == 68
FlagHelp == 104
FlagVersion == 86
FlagControl == 67
FlagShell == 99
FlagFile == 102
FlagName == 76
FlagPath == 83
FlagFeatures == 84

Simple == {FlagColors, FlagUTF8, FlagLogin, FlagVerbose, FlagExisting, FlagForeground, FlagHelp,
           FlagVersion, FlagControl}
Valued == {FlagShell, FlagFile, FlagName, FlagPath, FlagFeatures}

DefaultConfig == [utf8 |-> "default", colors |-> FALSE, login |-> FALSE, features |-> <<>>,
                  path |-> <<>>, name |-> <<>>, file |-> <<>>]
ParseStart == [ok |-> TRUE, rest |-> 0, skip |-> 0, last |-> FALSE, cfg |-> DefaultConfig,
               action |-> "default", shell |-> <<>>, control |-> 0, verbose |-> 0, existing |-> FALSE]

-----------------------------------------------------------------------------
ApplySimpleFlag(ch, s) ==
    CASE ch = FlagColors     -> [s EXCEPT !.cfg.colors = TRUE]
      [] ch = FlagUTF8       -> [s EXCEPT !.cfg.utf8 = "force"]
      [] ch = FlagLogin      -> [s EXCEPT !.cfg.login = TRUE]
      [] ch = FlagVerbose    -> [s EXCEPT !.verbose = @ + 1]
      [] ch = FlagExisting   -> [s EXCEPT !.existing = TRUE]
      [] ch = FlagForeground -> [s EXCEPT !.action = "foreground"]
      [] ch = FlagHelp       -> [s EXCEPT !.action = "help"]
      [] ch = FlagVersion    -> [s EXCEPT !.action = "version"]
      [] ch = FlagControl    -> [s EXCEPT !.control = @ + 1]

\* appendTerminalFeatures
Features(val) ==
    LET cuts == {0, Len(val) + 1} \cup {i \in DOMAIN val : val[i] = Comma}
        next(i) == Min({j \in cuts : j > i})
        part[i \in 0..Len(val) + 1] ==
            IF i = Len(val) + 1 THEN <<>>
            ELSE IF i \in cuts THEN <<SubSeq(val, i + 1, next(i) - 1)>> \o part[i + 1] ELSE part[i + 1]
    IN  part[0]
ValidFeature(f) == f # <<>> /\ \A i \in DOMAIN f : f[i] \notin {0, Tab, LF, 13, Space, Comma}

\* applyValuedFlag
ApplyValuedFlag(ch, val, s) ==
    CASE ch = FlagShell    -> [s EXCEPT !.action = "shell", !.shell = val]
      [] ch = FlagFile     -> [s EXCEPT !.cfg.file = val]
      [] ch = FlagName     -> [s EXCEPT !.ok = s.cfg.path = <<>>, !.cfg.name = val]
      [] ch = FlagPath     -> [s EXCEPT !.ok = s.cfg.name = <<>>, !.cfg.path = val]
      [] ch = FlagFeatures -> [s EXCEPT !.ok = \A i \in DOMAIN Features(val) : ValidFeature(Features(val)[i]),
                                        !.cfg.features = @ \o Features(val)]

\* extractFlagVal: what follows in the bundle, or the next argument; never the empty word.
FlagValue(args, i, k) ==
    IF k < Len(args[i]) THEN SubSeq(args[i], k + 1, Len(args[i]))
    ELSE IF i < Len(args) THEN args[i + 1] ELSE <<>>

SwallowsAlways(args, i, k) == 1      \* mutant: also after a value in the bundle
Swallows(args, i, k) == IF k = Len(args[i]) THEN 1 ELSE 0

FlagStep(args, i, k, s) ==
    LET ch == args[i][k] IN
    IF ~s.ok \/ s.last THEN s
    ELSE IF ch \in Simple THEN ApplySimpleFlag(ch, s)
    ELSE IF ch \in Valued /\ FlagValue(args, i, k) # <<>>
         THEN [ApplyValuedFlag(ch, FlagValue(args, i, k), s)
                  EXCEPT !.last = TRUE, !.skip = Swallows(args, i, k)]
    ELSE [s EXCEPT !.ok = FALSE]

\* parseFlagBundle
ParseFlagBundle(args, i, s) ==
    LET Step(arg, k, t) == IF k = 1 THEN t ELSE FlagStep(args, i, k, t)
    IN  [Scan(Step, s, args[i]) EXCEPT !.last = FALSE]

IsFlags(arg) == arg # <<>> /\ arg[1] = Dash /\ arg \notin {<<Dash>>, DashDash}

ArgStep(args, i, s) ==
    IF ~s.ok \/ s.rest # 0 THEN s
    ELSE IF s.skip > 0 THEN [s EXCEPT !.skip = 0]
    ELSE IF args[i] = DashDash THEN [s EXCEPT !.rest = i + 1]
    ELSE IF ~IsFlags(args[i]) THEN [s EXCEPT !.rest = i]
    ELSE ParseFlagBundle(args, i, s)

\* validateCommandArgs and finishCommandLineParse
ValidCombination(s, words) ==
    /\ s.action \in {"foreground", "shell"} => words = <<>> /\ s.control = 0

Action(s, words) ==
    CASE s.control > 0 /\ s.action \notin {"help", "version"} -> "control"
      [] s.action = "default" /\ words # <<>> -> "command"
      [] OTHER -> s.action

ParseCommandLine(args) ==
    LET s     == Scan(ArgStep, ParseStart, args)
        words == IF s.rest = 0 THEN <<>> ELSE SubSeq(args, s.rest, Len(args))
        seq   == IF s.action \in {"help", "version"} THEN Accepted(<<>>)
                 ELSE Sequence(SplitArgvCommands(words))
    IN  IF /\ s.ok /\ ValidCombination(s, words)
           /\ words # <<>> => SplitArgvCommands(words) # <<>>
           /\ seq.ok
        THEN Accepted([config |-> s.cfg, action |-> Action(s, words), commands |-> seq.val,
                       shell |-> s.shell, noEcho |-> s.control >= 2, existing |-> s.existing,
                       log |-> IF s.verbose >= 2 THEN "debug" ELSE IF s.verbose = 1 THEN "verbose" ELSE "none"])
        ELSE Refused

-----------------------------------------------------------------------------
(* Server.baseArgs                                                          *)
Given(flag, condition) == IF condition THEN <<flag>> ELSE <<>>
Option(flag, val)      == IF val = <<>> THEN <<>> ELSE <<flag, val>>
JoinFeatures(fs) ==
    IF fs = <<>> THEN <<>> ELSE fs[1] \o Join(LAMBDA f : <<Comma>> \o f, Tail(fs))

BaseArgs(cfg, log, allowStart) ==
    Given(Flag(FlagUTF8), cfg.utf8 # "omit") \o Given(Flag(FlagColors), cfg.colors)
    \o Given(Flag(FlagLogin), cfg.login)
    \o (CASE log = "none" -> <<>> [] log = "verbose" -> <<Flag(FlagVerbose)>>
          [] log = "debug" -> <<Flag(FlagVerbose) \o <<FlagVerbose>>>>)
    \o Option(Flag(FlagFeatures), JoinFeatures(cfg.features))
    \o Given(Flag(FlagExisting), ~allowStart)
    \o (IF cfg.path # <<>> THEN <<Flag(FlagPath), cfg.path>> ELSE <<Flag(FlagName), cfg.name>>)
    \o Option(Flag(FlagFile), cfg.file)

-----------------------------------------------------------------------------
(* Properties, of one command line.                                         *)

\* The same command line with every flag and every value an argument of its own.
Expanded(args) ==
    LET flags == LET s == Scan(ArgStep, ParseStart, args) IN
                 IF s.rest = 0 THEN Len(args) ELSE s.rest - 1
        of(i) == LET v == {k \in 2..Len(args[i]) : args[i][k] \in Valued}
                     n == IF v = {} THEN Len(args[i]) ELSE Min(v)
                 IN  [k \in 1..n - 1 |-> Flag(args[i][k + 1])]
                     \o IF n < Len(args[i]) THEN <<SubSeq(args[i], n + 1, Len(args[i]))>> ELSE <<>>
        takes(i) == IsFlags(args[i]) /\ args[i][Len(args[i])] \in Valued
                    /\ \A k \in 2..Len(args[i]) - 1 : args[i][k] \notin Valued
        out[i \in 1..flags + 2] ==
            IF i > flags THEN SubSeq(args, i, Len(args))
            ELSE IF ~IsFlags(args[i]) THEN SubSeq(args, i, Len(args))
            ELSE IF takes(i) /\ i < flags THEN of(i) \o <<args[i + 1]>> \o out[i + 2]
            ELSE of(i) \o out[i + 1]
    IN  out[1]

\* Bundling and attaching values changes nothing: no flag is lost or taken for another's value.
BundlesMeanTheirFlags(args) ==
    ParseCommandLine(args).ok => ParseCommandLine(Expanded(args)) = ParseCommandLine(args)

\* The command line the library writes says what it was written for.
ReadsOwnCommandLine(cfg, log, allowStart, nodes) ==
    ParseCommandLine(BaseArgs(cfg, log, allowStart) \o Argv(nodes)) =
        Accepted([config |-> [cfg EXCEPT !.utf8 = IF @ = "omit" THEN "default" ELSE "force"],
                  action |-> IF nodes = <<>> THEN "default" ELSE "command",
                  commands |-> Meant(nodes), shell |-> <<>>, noEcho |-> FALSE,
                  existing |-> ~allowStart, log |-> log])
=============================================================================
