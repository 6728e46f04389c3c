----------------------------- MODULE StreamPromise -----------------------------
(* What Connection.Events promises its callers (tmux/event_stream.go),      *)
(* whatever happens between the goroutines: a stream returns the events     *)
(* that were published since it was opened, one after the other, until it   *)
(* ends; it ends once, and the end it reports is true.                      *)
EXTENDS Naturals, Sequences

CONSTANT Streams

VARIABLES told,      \* how many events the connection has published
          closing,   \* whether the connection is closed
          first,     \* the first event published after the stream was opened, 0 before
          taken,     \* the events the stream has returned
          end        \* why it has ended, "none" while it lives

promiseVars == <<told, closing, first, taken, end>>

Init ==
    /\ told = 0 /\ closing = FALSE
    /\ first = [s \in Streams |-> 0] /\ taken = [s \in Streams |-> <<>>]
    /\ end = [s \in Streams |-> "none"]

Publish == told' = told + 1 /\ UNCHANGED <<closing, first, taken, end>>

Close == ~closing /\ closing' = TRUE /\ UNCHANGED <<told, first, taken, end>>

Open(s) ==
    /\ ~closing /\ first[s] = 0
    /\ first' = [first EXCEPT ![s] = told + 1]
    /\ UNCHANGED <<told, closing, taken, end>>

Lives(s)  == first[s] # 0 /\ end[s] = "none"
Following(s) == first[s] + Len(taken[s])
Behind(s) == Following(s) <= told

Take(s) ==
    /\ Lives(s) /\ Behind(s)
    /\ taken' = [taken EXCEPT ![s] = Append(@, Following(s))]
    /\ UNCHANGED <<told, closing, first, end>>

\* ErrEventsLost only when an event has not been returned, and the error of the connection only
\* when it is closed; the stream's context and its Close end it at any moment.
Causes(s) ==
    {"EOF", "ctx"} \cup (IF Behind(s) THEN {"lost"} ELSE {})
                   \cup (IF closing THEN {"closed"} ELSE {})

End(s) ==
    /\ Lives(s) /\ \E e \in Causes(s) : end' = [end EXCEPT ![s] = e]
    /\ UNCHANGED <<told, closing, first, taken>>

Next == Publish \/ Close \/ \E s \in Streams : Open(s) \/ Take(s) \/ End(s)

Spec == Init /\ [][Next]_promiseVars
=============================================================================
