---------------------------- MODULE QueryService ----------------------------
(* What an a2s Client promises its callers, without sockets or packets: the *)
(* calls made on one client are served one at a time. A call is accepted or *)
(* refused when it is made, is refused once the client is shut, sends its   *)
(* requests only while it is the one being served, and returns once.        *)
EXTENDS Naturals, Sequences

CONSTANT Queries

VARIABLES
    phase,   \* per call: "idle" | "pending" | "active" | "done"
    log,     \* the calls that sent each request, in order
    shut     \* the client is closed

vars == <<phase, log, shut>>

Init ==
    /\ phase = [q \in Queries |-> "idle"]
    /\ log = <<>>
    /\ shut = FALSE

Move(q, from, to) == phase[q] = from /\ phase' = [phase EXCEPT ![q] = to]

NoneActive == \A q \in Queries : phase[q] # "active"

Call(q) == ~shut /\ Move(q, "idle", "pending") /\ UNCHANGED <<log, shut>>

Refuse(q) == shut /\ Move(q, "idle", "done") /\ UNCHANGED <<log, shut>>

Start(q) == NoneActive /\ Move(q, "pending", "active") /\ UNCHANGED <<log, shut>>

Transmit(q) ==
    /\ phase[q] = "active"
    /\ log' = Append(log, q)
    /\ UNCHANGED <<phase, shut>>

Return(q) == Move(q, "active", "done") /\ UNCHANGED <<log, shut>>

Shut ==
    /\ NoneActive
    /\ shut' = TRUE
    /\ UNCHANGED <<phase, log>>

Next ==
    \/ \E q \in Queries : Call(q) \/ Refuse(q) \/ Start(q) \/ Transmit(q) \/ Return(q)
    \/ Shut

Spec == Init /\ [][Next]_vars
-----------------------------------------------------------------------------
(* The requests of one call are next to each other on the wire: no other    *)
(* call sends between two of them (client.go:129-132).                      *)
Contiguous ==
    \A i, j \in DOMAIN log : \A n \in i .. j : log[i] = log[j] => log[n] = log[i]
=============================================================================
