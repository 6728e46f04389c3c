----------------------------- MODULE SocketWorld -----------------------------
(* What lives behind one socket path, outside the library: the socket file, *)
(* the daemon that owns it and the objects that daemon keeps.  Creation     *)
(* changes it through tmux, Discovery only looks at it, and other processes *)
(* of the user change it at any time.                                       *)
(*                                                                          *)
(* Abstraction.  A daemon is the number of its life, which stands for its   *)
(* PID and start time.  A socket file is the pair os.SameFile and ModTime   *)
(* look at; the kernel reuses inode numbers, the bind time never repeats.   *)
EXTENDS Integers, FiniteSets

CONSTANTS Binaries,     \* tmux binaries a caller may be configured with
          Ours,         \* the one the creating callers use
          Versions,     \* the sets of binaries a daemon of other processes may understand
          Inodes,       \* bound: inode numbers of socket files are 1..Inodes
          MaxLives,     \* bound: daemons, one after the other
          MaxBinds,     \* bound: times a socket file is made
          MaxIds        \* bound: identifiers a daemon gives out

ASSUME WorldAssumption ==
    /\ Ours \in Binaries /\ Versions \subseteq SUBSET Binaries
    /\ Inodes \in Nat \ {0} /\ MaxLives \in Nat /\ MaxBinds \in Nat /\ MaxIds \in Nat

VARIABLES
    life,     \* the daemon that owns the path, or the last one that did; 0 is none
    up,       \* what it does: "none" is dead or never started, "bound" does not listen yet
    answers,  \* the binaries it understands and that recognise its version
    sock,     \* the socket file at the path
    binds,    \* how many socket files there have been: the clock of bind times
    objs,     \* the sessions, windows and panes the daemon keeps: kind, id, named
    ids       \* the last identifier it gave out

worldVars == <<life, up, answers, sock, binds, objs, ids>>

NoSock == [ino |-> 0, at |-> 0]

WorldInit ==
    /\ life = 0 /\ up = "none" /\ answers = {} /\ sock = NoSock /\ binds = 0
    /\ objs = {} /\ ids = 0

-----------------------------------------------------------------------------
Listening(l) == up = "listening" /\ life = l
NewFile ==                                  \* unlink, bind
    /\ binds < MaxBinds /\ binds' = binds + 1
    /\ \E i \in 1..Inodes : sock' = [ino |-> i, at |-> binds + 1]

\* A tmux client finds no daemon, takes the start lock and forks one; it listens later.
Bind(bins) ==
    /\ up = "none" /\ life < MaxLives /\ NewFile
    /\ life' = life + 1 /\ up' = "bound" /\ answers' = bins /\ objs' = {} /\ ids' = 0

Listen ==
    /\ up = "bound" /\ up' = "listening"
    /\ UNCHANGED <<life, answers, sock, binds, objs, ids>>

\* A daemon that exits removes its socket file, one that is killed leaves it behind.
Dies ==
    /\ up # "none" /\ up' = "none" /\ objs' = {} /\ sock' \in {sock, NoSock}
    /\ UNCHANGED <<life, answers, binds, ids>>

\* SIGUSR1: the daemon makes its socket file anew.
Rebind(l) ==
    /\ up = "listening" /\ life = l /\ NewFile /\ up' = "bound"
    /\ UNCHANGED <<life, answers, objs, ids>>

NewObject(k, named) == [kind |-> k, id |-> ids + 1, named |-> named]

\* Sessions of other names play no part; two sessions never share one.
OtherMakes(k) ==
    /\ up = "listening" /\ ids < MaxIds /\ ids' = ids + 1
    /\ k = "session" => \A o \in objs : ~o.named
    /\ objs' = objs \cup {NewObject(k, k = "session")}
    /\ UNCHANGED <<life, up, answers, sock, binds>>

OtherKills(o) ==
    /\ objs' = objs \ {o}
    /\ UNCHANGED <<life, up, answers, sock, binds, ids>>

Daemons == (\E bins \in Versions : Bind(bins)) \/ Listen \/ Dies

Clients ==
    \/ \E k \in {"session", "pane"} : OtherMakes(k)
    \/ \E o \in objs : OtherKills(o)
=============================================================================
