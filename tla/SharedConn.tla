----------------------------- MODULE SharedConn -----------------------------
(* Several a2s clients on one *net.UDPConn (NewClientWithConn, client.go:   *)
(* 68-97), with a clock. Each client has a mutex of its own, so nothing     *)
(* keeps their queries apart but the caller, who may call them abreast or,  *)
(* as a worker of the scanner does, in turns (scanner/client.go:178-180:    *)
(* the behaviours in which `abreast` stays FALSE). Shared are the datagrams,*)
(* the read deadline, which belongs to the socket, and the lock that lets   *)
(* one read at a time into it: a reader that waits for that lock looks at   *)
(* no deadline until it has it.                                             *)
(*                                                                          *)
(* A query is one call on a client of its own. Program steps take no time:  *)
(* the clock ticks only while every query is blocked.                       *)
EXTENDS Integers, FiniteSets

CONSTANTS
    Queries,
    Target,         \* Target[q]: the server q asks
    Timeout,        \* Timeout[q]: c.timeout
    CtxDeadline,    \* CtxDeadline[q]: when the context of q ends
    Stranger,       \* a host nobody asks
    MaxExtra,       \* bound: challenges sent and datagrams repeated, together
    MaxNoise,       \* bound: datagrams of the stranger
    NoQuery

ASSUME SharedAssumption ==
    /\ NoQuery \notin Queries
    /\ \A q \in Queries : /\ Target[q] # Stranger
                          /\ Timeout[q] \in Nat \ {0} /\ CtxDeadline[q] \in Nat
    /\ MaxExtra \in Nat /\ MaxNoise \in Nat

VARIABLES
    now,
    pc,        \* where each query is
    reader,    \* the query inside a read of the socket, or NoQuery
    rd,        \* the socket's read deadline
    dl,        \* per query: the deadline of the read or collection under way
    first,     \* per query: the fragment Collect began with, or Nothing
    outcome,   \* per query: what it returned, with the request answered
    net,       \* the datagrams in flight to the socket, or queued in it
    dups,      \* datagrams read that are still to come once more
    asked,     \* the requests sent: [by, n]
    served,    \* those the servers have answered
    chals,     \* challenges sent
    noise,     \* datagrams the stranger has sent
    began,     \* ghost, per query: when it was called
    since,     \* ghost, per query: when its last round began
    rounds,    \* ghost, per query: its requests and collections so far
    ended,     \* ghost, per query: when it returned
    abreast    \* ghost: some query was called while another ran

vars == <<now, pc, reader, rd, dl, first, outcome, net, dups, asked, served,
          chals, noise, began, since, rounds, ended, abreast>>

wire == <<net, dups>>

servers == <<served, chals, noise>>

ghosts  == <<began, since, rounds, ended, abreast>>

Nothing == [src |-> Stranger, what |-> "nothing", re |-> [by |-> NoQuery, n |-> 0]]

NoOutcome == [code |-> "none", re |-> Nothing.re]

Init ==
    /\ now = 0
    /\ pc = [q \in Queries |-> "new"]
    /\ reader = NoQuery
    /\ rd = 0
    /\ dl = [q \in Queries |-> 0]
    /\ first = [q \in Queries |-> Nothing]
    /\ outcome = [q \in Queries |-> NoOutcome]
    /\ net = {} /\ dups = 0 /\ asked = {} /\ served = {} /\ chals = 0 /\ noise = 0
    /\ began = [q \in Queries |-> 0]
    /\ since = [q \in Queries |-> 0]
    /\ rounds = [q \in Queries |-> 0]
    /\ ended = [q \in Queries |-> 0]
    /\ abreast = FALSE
-----------------------------------------------------------------------------
Running(q) == pc[q] \notin {"new", "returned"}

Call(q) ==
    /\ pc[q] = "new"
    /\ pc' = [pc EXCEPT ![q] = "send"]
    /\ began' = [began EXCEPT ![q] = now]
    /\ abreast' = (abreast \/ \E p \in Queries : Running(p))
    /\ UNCHANGED <<now, reader, rd, dl, first, outcome, wire, asked, servers, since, rounds, ended>>

(* The earlier of the client's timeout and the context's deadline.          *)
Deadline(q) ==
    IF CtxDeadline[q] < now + Timeout[q] THEN CtxDeadline[q] ELSE now + Timeout[q]

CtxEnded(q) == now >= CtxDeadline[q]

Collecting(q) == first[q] # Nothing

Return(q, code, re) ==
    /\ pc' = [pc EXCEPT ![q] = "returned"]
    /\ outcome' = [outcome EXCEPT ![q] = [code |-> code, re |-> re]]
    /\ ended' = [ended EXCEPT ![q] = now]

(* A read that ran out of time; inside Collect mapInternalError calls it    *)
(* decode.                                                                  *)
OutOfTime(q) == Return(q, IF Collecting(q) THEN "decode" ELSE "timeout", Nothing.re)

NewRound(q) ==
    /\ rounds' = [rounds EXCEPT ![q] = @ + 1]
    /\ since' = [since EXCEPT ![q] = now]

(* send: a write to a UDP socket does not block.                            *)
Send(q) ==
    /\ pc[q] = "send" /\ ~CtxEnded(q)
    /\ asked' = asked \cup {[by |-> q, n |-> rounds[q] + 1]}
    /\ NewRound(q)
    /\ pc' = [pc EXCEPT ![q] = "receive"]
    /\ UNCHANGED <<now, reader, rd, dl, first, outcome, wire, servers, began, ended, abreast>>

(* ctx.Err() at the head of SendTo and ReceiveFrom; the loop of ReceiveFrom *)
(* does not come by it again.                                               *)
CtxStops(q) ==
    /\ pc[q] \in {"send", "receive", "next"} /\ CtxEnded(q)
    /\ OutOfTime(q)
    /\ UNCHANGED <<now, reader, rd, dl, first, wire, asked, servers, began, since, rounds, abreast>>

(* receive: its deadline, the first SetReadDeadline of ReceiveFrom.         *)
Receive(q) ==
    /\ pc[q] = "receive" /\ ~CtxEnded(q)
    /\ dl' = [dl EXCEPT ![q] = Deadline(q)]
    /\ rd' = Deadline(q)
    /\ pc' = [pc EXCEPT ![q] = "wait"]
    /\ UNCHANGED <<now, reader, first, outcome, wire, asked, servers, ghosts>>

(* Faulty variant: every datagram renews the deadline. *)
SetAgainRenewed(q) ==
    /\ pc[q] = "again" \/ (pc[q] = "next" /\ ~CtxEnded(q))
    /\ rd' = Deadline(q)
    /\ pc' = [pc EXCEPT ![q] = "wait"]
    /\ UNCHANGED <<now, reader, dl, first, outcome, wire, asked, servers, ghosts>>

(* SetReadDeadline with the deadline there was: in ReceiveFrom's loop after *)
(* a datagram of somebody else, and for the next fragment in Collect.       *)
SetAgain(q) ==
    /\ pc[q] = "again" \/ (pc[q] = "next" /\ ~CtxEnded(q))
    /\ rd' = dl[q]
    /\ pc' = [pc EXCEPT ![q] = "wait"]
    /\ UNCHANGED <<now, reader, dl, first, outcome, wire, asked, servers, ghosts>>
-----------------------------------------------------------------------------
(* ReadFromUDP: the read lock, then the deadline, then the wait.            *)
EnterRead(q) ==
    /\ pc[q] = "wait" /\ reader = NoQuery /\ rd > now
    /\ reader' = q
    /\ pc' = [pc EXCEPT ![q] = "blocked"]
    /\ UNCHANGED <<now, rd, dl, first, outcome, wire, asked, servers, ghosts>>

TooLateToRead(q) ==
    /\ pc[q] = "wait" /\ reader = NoQuery /\ rd <= now
    /\ OutOfTime(q)
    /\ UNCHANGED <<now, reader, rd, dl, first, wire, asked, servers, began, since, rounds, abreast>>

(* Faulty variant: a query that ran out of time asks once more. *)
ReadTimesOutRetried(q) ==
    /\ pc[q] = "blocked" /\ rd <= now
    /\ reader' = NoQuery
    /\ pc' = [pc EXCEPT ![q] = "send"]
    /\ UNCHANGED <<now, rd, dl, first, outcome, wire, asked, servers, ghosts>>

ReadTimesOut(q) ==
    /\ pc[q] = "blocked" /\ rd <= now
    /\ reader' = NoQuery
    /\ OutOfTime(q)
    /\ UNCHANGED <<now, rd, dl, first, wire, asked, servers, began, since, rounds, abreast>>

(* A datagram is read, if for the last time; the lock is free again.        *)
Reads(q, d) ==
    /\ pc[q] = "blocked"
    /\ reader' = NoQuery
    /\ \/ net' = net \ {d} /\ UNCHANGED dups
       \/ chals + dups < MaxExtra /\ dups' = dups + 1 /\ UNCHANGED net

(* sameUDPAddr(addr, expected).                                             *)
FromTarget(q, d) == d.src = Target[q]

DropForeign(q, d) ==
    /\ ~FromTarget(q, d) /\ Reads(q, d)
    /\ pc' = [pc EXCEPT ![q] = "again"]
    /\ UNCHANGED <<now, rd, dl, first, outcome, asked, servers, began, since, rounds, ended, abreast>>

(* The other fragment of the same response.                                 *)
Completes(d, f) == d.re = f.re /\ {d.what, f.what} = {"head", "tail"}

Challenged(q, d) ==
    /\ FromTarget(q, d) /\ Reads(q, d)
    /\ ~Collecting(q) /\ d.what = "challenge"
    /\ pc' = [pc EXCEPT ![q] = "send"]
    /\ UNCHANGED <<now, rd, dl, first, outcome, asked, servers, ghosts>>

Answered(q, d) ==
    /\ FromTarget(q, d) /\ Reads(q, d)
    /\ \/ ~Collecting(q) /\ d.what = "answer"
       \/ Collecting(q) /\ Completes(d, first[q])
    /\ Return(q, "ok", d.re)
    /\ UNCHANGED <<now, rd, dl, first, asked, servers, began, since, rounds, abreast>>

(* Collect, with one deadline for all its fragments.                        *)
OpenCollection(q, d) ==
    /\ FromTarget(q, d) /\ Reads(q, d)
    /\ ~Collecting(q) /\ d.what \in {"head", "tail"}
    /\ first' = [first EXCEPT ![q] = d]
    /\ dl' = [dl EXCEPT ![q] = Deadline(q)]
    /\ NewRound(q)
    /\ pc' = [pc EXCEPT ![q] = "next"]
    /\ UNCHANGED <<now, rd, outcome, asked, servers, began, ended, abreast>>

(* No fragment, one of another response, or the same one again.             *)
CollectionFails(q, d) ==
    /\ FromTarget(q, d) /\ Reads(q, d)
    /\ Collecting(q)
    /\ ~Completes(d, first[q])
    /\ Return(q, "multi_packet", Nothing.re)
    /\ UNCHANGED <<now, rd, dl, first, asked, servers, began, since, rounds, abreast>>
-----------------------------------------------------------------------------
(* A server answers a request once: with a challenge, the answer, or the    *)
(* answer in two fragments. What is never read was lost.                    *)
Serves(r, whats) ==
    /\ r \in asked \ served
    /\ served' = served \cup {r}
    /\ net' = net \cup {[src |-> Target[r.by], what |-> w, re |-> r] : w \in whats}
    /\ UNCHANGED <<now, pc, reader, rd, dl, first, outcome, dups, asked, noise, ghosts>>

Serve(r) ==
    \/ Serves(r, {"answer"}) /\ UNCHANGED chals
    \/ Serves(r, {"head", "tail"}) /\ UNCHANGED chals
    \/ chals + dups < MaxExtra /\ chals' = chals + 1 /\ Serves(r, {"challenge"})

StrangerSends ==
    /\ noise < MaxNoise
    /\ noise' = noise + 1
    /\ net' = net \cup {[src |-> Stranger, what |-> "answer", re |-> [by |-> NoQuery, n |-> noise']]}
    /\ UNCHANGED <<now, pc, reader, rd, dl, first, outcome, dups, asked, served, chals, ghosts>>

(* Time goes by while every running query is blocked: in a read that has    *)
(* not come to its deadline, or behind somebody else's.                     *)
Blocked(q) ==
    \/ pc[q] = "blocked" /\ rd > now
    \/ pc[q] = "wait" /\ reader # NoQuery

Tick ==
    /\ \E q \in Queries : Running(q)
    /\ \A q \in Queries : Running(q) => Blocked(q)
    /\ now' = now + 1
    /\ UNCHANGED <<pc, reader, rd, dl, first, outcome, wire, asked, servers, ghosts>>

Finished == (\A q \in Queries : pc[q] = "returned") /\ UNCHANGED vars

Steps(q) ==
    \/ Send(q) \/ CtxStops(q) \/ Receive(q) \/ SetAgain(q)
    \/ EnterRead(q) \/ TooLateToRead(q) \/ ReadTimesOut(q)

Hears(q, d) ==
    DropForeign(q, d) \/ Challenged(q, d) \/ Answered(q, d) \/ OpenCollection(q, d)
    \/ CollectionFails(q, d)

Next ==
    \/ \E q \in Queries : Call(q) \/ Steps(q) \/ \E d \in net : Hears(q, d)
    \/ \E r \in asked : Serve(r)
    \/ StrangerSends
    \/ Tick
    \/ Finished

Spec == Init /\ [][Next]_vars
-----------------------------------------------------------------------------
RanOut(q) == outcome[q].code \in {"timeout", "decode"}

(* One that ends for want of an answer has waited for its timeout since its *)
(* last request or the first fragment, or its context has ended.            *)
FullTime(q) ==
    RanOut(q) => ended[q] >= since[q] + Timeout[q] \/ ended[q] >= CtxDeadline[q]

Until(q) == IF pc[q] = "returned" THEN ended[q] ELSE now

(* It is over after its timeout, once for each request and each collection, *)
(* and by the end of its context at the latest.                             *)
TimeBound(q) ==
    pc[q] # "new" =>
        /\ Until(q) <= began[q] + Timeout[q] * rounds[q]
        /\ Until(q) <= CtxDeadline[q] \/ Until(q) = began[q]

(* In turns a query has its full time and no more, whatever deadline the    *)
(* queries before it left in the socket and however many datagrams of       *)
(* others it reads meanwhile (client.go:262-284, transport.go:67-80,        *)
(* multipacket.go:57).                                                      *)
InItsTime == ~abreast => \A q \in Queries : FullTime(q) /\ TimeBound(q)

GaveUp(q) == outcome[q].code \notin {"none", "ok"}

(* In turns a query returns the reply to its own request, though replies    *)
(* are told apart by their sender alone and challenges and fragments have   *)
(* it ask and read again, unless the network repeats a datagram or somebody *)
(* who asked the same server on this socket ended without an answer, and    *)
(* left it behind for whoever comes next (transport.go:75,                  *)
(* scanner/client.go:178-180).                                              *)
OwnReplyUnlessGivenUp ==
    ~abreast /\ dups = 0 =>
        \A q \in Queries : outcome[q].code = "ok" /\ outcome[q].re.by # q =>
            \E p \in Queries : Target[p] = Target[q] /\ GaveUp(p)

(* Abreast, a query may end at another's deadline, but none reads longer    *)
(* than until the latest deadline of all the clients on the socket, though  *)
(* it waits for the lock of the others' reads without one                   *)
(* (transport.go:67-80).                                                    *)
LatestDeadline ==
    \A q \in Queries : pc[q] \in {"wait", "blocked"} => \E p \in Queries : now <= dl[p]
=============================================================================
