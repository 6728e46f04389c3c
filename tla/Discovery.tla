------------------------------ MODULE Discovery ------------------------------
(* DiscoverServers and its process-wide cache of verdicts                   *)
(* (tmux/discovery.go): calls that run at once look at the socket file,     *)
(* consult the cache, dial, probe, and replace the whole cache at the end,  *)
(* while daemons come and go.                                               *)
(*                                                                          *)
(* Abstraction.  One path: verdicts of different paths never meet, they are *)
(* kept under their path and replaced with it.                              *)
EXTENDS SocketWorld

CONSTANTS Finders,      \* goroutines that call DiscoverServers, again and again
          MaxFinds      \* bound: calls in all

VARIABLES
    cache,    \* discoveryCache.verdicts of the path
    \* per goroutine: where its call stands, Config.Binary, the candidate's file, the verdict
    \* found for it, the verdict it will leave and whether it lists the server
    fpc, bin, cand, known, verdict, listed,
    finds,    \* calls begun
    \* history: files that refused a connection, binaries that probed a daemon, what the daemon
    \* was when the call looked at the file, and whether its probe got no answer
    refused, probed, seen, unanswered

findVars == <<cache, fpc, bin, cand, known, verdict, listed, finds, refused, probed, seen,
              unanswered>>

NoBinary  == "none"

\* New replaces an empty Config.Binary by "tmux", so no caller's binary is the empty one.
ASSUME DiscoveryAssumption == NoBinary \notin Binaries /\ MaxFinds \in Nat

NoVerdict == [file |-> NoSock, refused |-> FALSE, verified |-> NoBinary]

DiscoveryInit ==
    /\ cache = NoVerdict /\ finds = 0
    /\ fpc = [f \in Finders |-> "idle"] /\ bin = [f \in Finders |-> Ours]
    /\ cand = [f \in Finders |-> NoSock] /\ known = [f \in Finders |-> NoVerdict]
    /\ verdict = [f \in Finders |-> NoVerdict] /\ listed = [f \in Finders |-> FALSE]
    /\ refused = {} /\ probed = {} /\ seen = [f \in Finders |-> 0]
    /\ unanswered = [f \in Finders |-> FALSE]

Steps(f, to) == fpc' = [fpc EXCEPT ![f] = to]
HistoryKept  == UNCHANGED <<refused, probed, seen, unanswered>>

-----------------------------------------------------------------------------
(* socketCandidates: no file, no candidate, and the cache ends up empty.    *)
Find(f, b) ==
    /\ fpc[f] = "idle" /\ finds < MaxFinds /\ finds' = finds + 1
    /\ Steps(f, IF sock = NoSock THEN "end" ELSE "look")
    /\ bin' = [bin EXCEPT ![f] = b] /\ cand' = [cand EXCEPT ![f] = sock]
    /\ seen' = [seen EXCEPT ![f] = IF up = "listening" THEN life ELSE 0]
    /\ UNCHANGED <<cache, known, verdict, listed, refused, probed, unanswered>>

LookupByInode(s) ==                  \* mutant: the bind time is not compared
    IF cache.file.ino = s.ino THEN cache ELSE NoVerdict
LookupByPath(s) ==                   \* mutant: nothing but the path is compared
    cache
Lookup(s) == IF cache.file = s THEN cache ELSE NoVerdict

\* A verdict of refusal ends the candidate and is kept for the next call.
Look(f) ==
    /\ fpc[f] = "look" /\ known' = [known EXCEPT ![f] = Lookup(cand[f])]
    /\ Steps(f, IF known'[f].refused THEN "end" ELSE "dial")
    /\ verdict' = [verdict EXCEPT ![f] = IF known'[f].refused THEN known'[f] ELSE NoVerdict]
    /\ UNCHANGED <<cache, bin, cand, listed, finds>> /\ HistoryKept

VouchesForAny(v, b) ==               \* mutant: verified with whatever binary
    v.verified # NoBinary
Vouches(v, b) == v.verified = b

RefusalOf(s) == [file |-> s, refused |-> TRUE, verified |-> NoBinary]

\* A connection is refused by a file nobody listens on, dead or not listening yet.
DialRefused(f) ==
    /\ fpc[f] = "dial" /\ sock # NoSock /\ up # "listening" /\ Steps(f, "end")
    /\ verdict' = [verdict EXCEPT ![f] = RefusalOf(cand[f])]
    /\ refused' = refused \cup {sock}
    /\ UNCHANGED <<cache, bin, cand, known, listed, finds, probed, seen, unanswered>>

\* Any other failure leaves no verdict.
DialFails(f) ==
    /\ fpc[f] = "dial" /\ sock = NoSock /\ Steps(f, "end")
    /\ UNCHANGED <<cache, bin, cand, known, verdict, listed, finds>> /\ HistoryKept

\* Somebody listens: the server of a vouched file is listed, any other is probed first.
DialAnswered(f) ==
    /\ fpc[f] = "dial" /\ sock # NoSock /\ up = "listening"
    /\ IF Vouches(known[f], bin[f])
       THEN /\ Steps(f, "end") /\ listed' = [listed EXCEPT ![f] = TRUE]
            /\ verdict' = [verdict EXCEPT ![f] = known[f]]
       ELSE Steps(f, "probe") /\ UNCHANGED <<listed, verdict>>
    /\ UNCHANGED <<cache, bin, cand, known, finds>> /\ HistoryKept

\* What a call knows ends with it.
Returns(f) ==
    /\ Steps(f, "idle")
    /\ bin' = [bin EXCEPT ![f] = Ours] /\ cand' = [cand EXCEPT ![f] = NoSock]
    /\ known' = [known EXCEPT ![f] = NoVerdict] /\ verdict' = [verdict EXCEPT ![f] = NoVerdict]
    /\ listed' = [listed EXCEPT ![f] = FALSE] /\ seen' = [seen EXCEPT ![f] = 0]
    /\ unanswered' = [unanswered EXCEPT ![f] = FALSE]
    /\ UNCHANGED <<finds, refused, probed>>

\* New refuses the configuration: the call fails and leaves the cache alone.
NewRefuses(f) ==
    /\ fpc[f] = "dial" /\ sock # NoSock /\ up = "listening"
    /\ Returns(f) /\ UNCHANGED cache

ProbeAnswered(f) ==
    /\ fpc[f] = "probe" /\ up = "listening" /\ bin[f] \in answers /\ Steps(f, "end")
    /\ verdict' = [verdict EXCEPT ![f] =
                      [file |-> cand[f], refused |-> FALSE, verified |-> bin[f]]]
    /\ listed' = [listed EXCEPT ![f] = TRUE] /\ probed' = probed \cup {<<life, bin[f]>>}
    /\ UNCHANGED <<cache, bin, cand, known, finds, refused, seen, unanswered>>

\* The daemon is gone, does not understand the binary, or the probe timed out.
ProbeFails(f) ==
    /\ fpc[f] = "probe" /\ Steps(f, "end") /\ unanswered' = [unanswered EXCEPT ![f] = TRUE]
    /\ UNCHANGED <<cache, bin, cand, known, verdict, listed, finds, refused, probed, seen>>

(* replace: the cache becomes this call's verdicts, whatever a call that    *)
(* began later has put there.                                               *)
Replace(f) ==
    /\ fpc[f] = "end" /\ cache' = verdict[f] /\ Returns(f)

Discover(f) ==
    \/ \E b \in Binaries : Find(f, b)
    \/ Look(f)
    \/ DialRefused(f) \/ DialFails(f) \/ DialAnswered(f) \/ NewRefuses(f)
    \/ ProbeAnswered(f) \/ ProbeFails(f)
    \/ Replace(f)

-----------------------------------------------------------------------------
(* The file a call looked at has been there ever since, with its daemon.    *)
SameFile(f) == sock = cand[f] /\ sock # NoSock

(* A daemon that listened on its socket file throughout a call and          *)
(* understands the caller's binary is listed, unless that very file refused *)
(* a connection before it listened: no verdict about another file or of     *)
(* another call hides it (socketVerdicts.lookup, replace).                  *)
MissesOnlyRefused ==
    \A f \in Finders :
        (/\ fpc[f] = "end" /\ SameFile(f) /\ Listening(seen[f])
         /\ bin[f] \in answers /\ ~unanswered[f])
            => listed[f] \/ sock \in refused

(* A server is listed without a probe only on the word of an earlier probe  *)
(* with the same binary, of the daemon that owns the file now: a verdict is *)
(* not carried over to a daemon that took the path, even in the same inode. *)
VouchedFor ==
    \A f \in Finders :
        (fpc[f] = "end" /\ listed[f] /\ SameFile(f)) => <<life, bin[f]>> \in probed
=============================================================================
