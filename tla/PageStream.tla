----------------------------- MODULE PageStream -----------------------------
(* What Stream promises whoever reads its channel, without pages, cursors   *)
(* or a socket: the servers of the list one by one and in its order, at     *)
(* most one error and nothing after it, and a channel closed without an     *)
(* error only behind the last server or once the reader's context ended.    *)
EXTENDS Sequences, SequencesExt

CONSTANTS
    Streams,
    Expected(_)   \* the servers a stream is to deliver, in order

VARIABLES
    given,      \* per stream: the servers delivered
    failed,     \* per stream: an error has been delivered
    ended,      \* per stream: the channel is closed
    cancelled   \* per stream: the context has ended

vars == <<given, failed, ended, cancelled>>

Init ==
    /\ given = [p \in Streams |-> <<>>]
    /\ failed = [p \in Streams |-> FALSE]
    /\ ended = [p \in Streams |-> FALSE]
    /\ cancelled \in [Streams -> BOOLEAN]

Running(p) == ~ended[p] /\ ~failed[p]

Give(p) ==
    /\ Running(p)
    /\ \E s \in Range(Expected(p)) :
          /\ given' = [given EXCEPT ![p] = Append(@, s)]
          /\ IsPrefix(given'[p], Expected(p))
    /\ UNCHANGED <<failed, ended, cancelled>>

GiveError(p) ==
    /\ Running(p)
    /\ failed' = [failed EXCEPT ![p] = TRUE]
    /\ UNCHANGED <<given, ended, cancelled>>

End(p) ==
    /\ ~ended[p]
    /\ given[p] = Expected(p) \/ failed[p] \/ cancelled[p]
    /\ ended' = [ended EXCEPT ![p] = TRUE]
    /\ UNCHANGED <<given, failed, cancelled>>

Cancel(p) ==
    /\ cancelled' = [cancelled EXCEPT ![p] = TRUE]
    /\ UNCHANGED <<given, failed, ended>>

Next == \E p \in Streams : Give(p) \/ GiveError(p) \/ End(p) \/ Cancel(p)

Spec == Init /\ [][Next]_vars
=============================================================================
