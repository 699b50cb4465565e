--------------------------- MODULE A2SClientProofs ---------------------------
(* Proofs about A2SClient for any number of queries and closers, any        *)
(* faults, noise and bounds: control state, mutual exclusion of exchanges,  *)
(* contiguity of requests, Close and the abstract service.                  *)
(*                                                                          *)
(* Of the many steps of an exchange only a few kinds matter here: a step    *)
(* inside the exchange (Moves), one that ends it (Ends) and the sending of  *)
(* a request. Lemma ExchangeKinds sorts the actions into these.             *)
EXTENDS A2SClient, SequenceTheorems, TLAPS

PastSend == {"enter", "read", "resolve"}

(* The mutex is held by the query that is exchanging, and only by it.       *)
LockInv == \A q \in Queries : pc[q] \in Exchanging <=> mu = q

Senders == \A n \in DOMAIN sent : pc[sent[n]] \notin {"new", "lock"}

(* The query that is exchanging was the last to send.                       *)
Suffix ==
    \A q \in Queries : pc[q] \in Exchanging =>
        \A i \in DOMAIN sent : sent[i] = q => \A n \in i .. Len(sent) : sent[n] = q

Contig ==
    \A i, j \in DOMAIN sent : \A n \in i .. j : sent[i] = sent[j] => sent[n] = sent[i]

SentNothing(q) == \A n \in DOMAIN sent : sent[n] # q

(* An own socket is open from the first request of an exchange to its end.  *)
SocketInv ==
    Connected => \A q \in Queries :
        /\ pc[q] \in PastSend => connOpen
        /\ pc[q] = "send" => connOpen \/ SentNothing(q)
        /\ outcome[q].cause = "socket" => pc[q] = "returned" /\ SentNothing(q)

IInv == ControlTypeOK /\ LockInv /\ Senders /\ Suffix /\ Contig /\ SocketInv
-----------------------------------------------------------------------------
Moves(q) ==
    /\ \E l \in Exchanging :
          /\ pc[q] \in Exchanging
          /\ Goto(q, l)
          /\ pc[q] \in PastSend
    /\ dups' \in 0 .. MaxDups
    /\ UNCHANGED <<mu, closed, connOpen, ctxDone, outcome, closing, sent, served, chals>>

Ends(q) ==
    /\ pc[q] \in Exchanging
    /\ Goto(q, "returned")
    /\ mu' = None
    /\ DOMAIN outcome' = Queries
    /\ \A p \in Queries \ {q} : outcome'[p] = outcome[p]
    /\ outcome'[q].cause = "socket" => ~connOpen
    /\ dups' \in 0 .. MaxDups
    /\ UNCHANGED <<closed, connOpen, ctxDone, closing, sent, served, chals>>

(* The initial state satisfies the invariant. *)
LEMMA InitInv == Init => IInv
<1> SUFFICES ASSUME Init PROVE IInv
  OBVIOUS
<1>1. sent \in Seq(Queries) /\ DOMAIN sent = {}
  BY DEF Init
<1>2. 0 \in 0 .. MaxChallenges /\ 0 \in 0 .. MaxDups
  BY ClientAssumption
<1>3. ControlTypeOK
  BY <1>1, <1>2 DEF Init, ControlTypeOK
<1>4. LockInv
  BY ClientAssumption DEF Init, LockInv, Exchanging
<1>5. Senders /\ Suffix /\ Contig
  BY <1>1 DEF Senders, Suffix, Contig
<1>6. SocketInv
  BY DEF Init, SocketInv, NoOutcome, PastSend
<1> QED
  BY <1>3, <1>4, <1>5, <1>6 DEF IInv

(* A return of query q from its exchange ends it. *)
LEMMA FailEnds ==
    ASSUME ControlTypeOK, NEW q \in Queries, pc[q] \in Exchanging,
           NEW code, NEW cause, NEW answer, Return(q, code, cause, answer),
           cause = "socket" => ~connOpen, dups' \in 0 .. MaxDups,
           UNCHANGED <<closed, connOpen, ctxDone, closing, sent, served, chals>>
    PROVE  Ends(q)
BY DEF ControlTypeOK, Return, Ends, Goto

(* Taking a datagram keeps within the bound on duplicates. *)
LEMMA TakeBound ==
    ASSUME ControlTypeOK, NEW d, Take(d)
    PROVE  dups' \in 0 .. MaxDups
BY ClientAssumption DEF ControlTypeOK, Take

(* Collect's loop on one fragment moves on or ends the exchange. *)
LEMMA AbsorbKinds ==
    ASSUME ControlTypeOK, NEW q \in Queries, pc[q] \in PastSend,
           NEW c, NEW p, Absorb(q, c, p), dups' \in 0 .. MaxDups,
           UNCHANGED <<closed, connOpen, ctxDone, closing, sent, served, chals>>
    PROVE  Moves(q) \/ Ends(q)
<1> USE DEF PastSend, Exchanging
<1>1. CASE RefuseFragment(q, c, p)
  BY <1>1, FailEnds DEF RefuseFragment, Fail
<1>2. CASE StoreFragment(q, c, p)
  BY <1>2 DEF StoreFragment, Moves
<1>3. CASE LastFragment(q, c, p)
  BY <1>3, FailEnds DEF LastFragment, Moves, Fail
<1> QED
  BY <1>1, <1>2, <1>3 DEF Absorb

(* Every step of an exchange but SendRequest moves inside it or ends it. *)
LEMMA ExchangeKinds ==
    ASSUME IInv, NEW q \in Queries, Running(q) \/ Reading(q)
    PROVE  SendRequest(q) \/ Moves(q) \/ Ends(q)
<1> USE DEF PastSend, Exchanging, local, wire, socket, server
<1>0. ControlTypeOK /\ dups \in 0 .. MaxDups
  BY DEF IInv, ControlTypeOK
<1>1. CASE SendFails(q)
  BY <1>0, <1>1, FailEnds DEF SendFails, Fail
<1>2. CASE EnterRead(q)
  BY <1>0, <1>2 DEF EnterRead, Moves
<1>3. CASE EnterReadFails(q)
  BY <1>0, <1>3, FailEnds DEF EnterReadFails, Fail
<1>4. CASE ReadFails(q)
  BY <1>0, <1>4, FailEnds DEF ReadFails, Fail
<1>5. CASE OpenCollection(q)
  BY <1>0, <1>5, AbsorbKinds DEF OpenCollection
<1>6. CASE Challenged(q)
  BY <1>0, <1>6 DEF Challenged, Unsplit, Moves
<1>7. CASE Answered(q)
  BY <1>0, <1>7, FailEnds DEF Answered, Unsplit, Fail
<1>8. CASE RejectPacket(q)
  BY <1>0, <1>8, FailEnds DEF RejectPacket, Unsplit, Fail
<1>9. ASSUME NEW d \in net, Receive(q, d)
      PROVE  Moves(q)
  <2>1. dups' \in 0 .. MaxDups
    BY <1>0, <1>9, TakeBound DEF Receive
  <2> QED
    BY <1>0, <1>9, <2>1 DEF Receive, Readable, Moves
<1>10. ASSUME NEW d \in net, ReceiveFragment(q, d)
       PROVE  Moves(q) \/ Ends(q)
  <2>1. dups' \in 0 .. MaxDups
    BY <1>0, <1>10, TakeBound DEF ReceiveFragment
  <2> QED
    BY <1>0, <1>10, <2>1, AbsorbKinds DEF ReceiveFragment, Readable
<1>11. ASSUME NEW d \in net, DropForeign(q, d)
       PROVE  Moves(q)
  BY <1>0, <1>11 DEF DropForeign, Moves, Goto, ControlTypeOK
<1> QED
  BY <1>1, <1>2, <1>3, <1>4, <1>5, <1>6, <1>7, <1>8, <1>9, <1>10, <1>11 DEF Running, Reading
-----------------------------------------------------------------------------
(* A step inside an exchange preserves the invariant. *)
LEMMA MovesInv == ASSUME IInv, NEW q \in Queries, Moves(q) PROVE IInv'
<1> USE DEF IInv, Exchanging, PastSend
<1>1. ControlTypeOK'
  BY DEF Moves, Goto, ControlTypeOK
<1>2. LockInv' /\ Senders' /\ Suffix' /\ Contig'
  BY DEF Moves, Goto, ControlTypeOK, LockInv, Senders, Suffix, Contig
<1>3. SocketInv'
  BY DEF Moves, Goto, ControlTypeOK, SocketInv, SentNothing
<1> QED
  BY <1>1, <1>2, <1>3

(* The end of an exchange preserves it: the mutex is released with it, and  *)
(* a query whose own socket is closed has sent nothing.                     *)
LEMMA EndsInv == ASSUME IInv, NEW q \in Queries, Ends(q) PROVE IInv'
<1> USE DEF IInv, Exchanging, PastSend
<1>1. ControlTypeOK'
  BY DEF Ends, Goto, ControlTypeOK
<1>2. LockInv'
  BY ClientAssumption DEF Ends, Goto, ControlTypeOK, LockInv
<1>3. Senders' /\ Suffix' /\ Contig'
  BY DEF Ends, Goto, ControlTypeOK, Senders, Suffix, Contig
<1>4. SocketInv'
  BY DEF Ends, Goto, ControlTypeOK, SocketInv, SentNothing
<1> QED
  BY <1>1, <1>2, <1>3, <1>4

(* A request goes out while its query holds the mutex and the socket is     *)
(* open: it extends the block of that query's requests.                     *)
LEMMA SendInv == ASSUME IInv, NEW q \in Queries, SendRequest(q) PROVE IInv'
<1> USE DEF IInv, Exchanging, PastSend, local, server
<1>1. /\ sent \in Seq(Queries) /\ Len(sent) \in Nat
      /\ sent' \in Seq(Queries) /\ Len(sent') = Len(sent) + 1
      /\ DOMAIN sent = 1 .. Len(sent) /\ DOMAIN sent' = 1 .. Len(sent) + 1
      /\ sent'[Len(sent) + 1] = q
      /\ \A n \in 1 .. Len(sent) : sent'[n] = sent[n]
  BY DEF SendRequest, ControlTypeOK
<1>2. ControlTypeOK'
  BY <1>1 DEF SendRequest, Goto, ControlTypeOK
<1>3. LockInv'
  BY DEF SendRequest, Goto, ControlTypeOK, LockInv
<1>4. Senders'
  BY <1>1 DEF SendRequest, Goto, ControlTypeOK, Senders
<1>5. Suffix'
  <2> SUFFICES ASSUME NEW p \in Queries, (pc[p] \in Exchanging)',
                      NEW i \in DOMAIN sent', sent'[i] = p, NEW n \in i .. Len(sent')
               PROVE  sent'[n] = p
    BY DEF Suffix
  <2>1. p = q
    BY <1>3 DEF SendRequest, Goto, ControlTypeOK, LockInv
  <2> QED
    BY <1>1, <2>1 DEF Suffix, SendRequest
<1>6. Contig'
  <2> SUFFICES ASSUME NEW i \in DOMAIN sent', NEW j \in DOMAIN sent', NEW n \in i .. j,
                      sent'[i] = sent'[j]
               PROVE  sent'[n] = sent'[i]
    BY DEF Contig
  <2>1. CASE j \in 1 .. Len(sent)
    BY <1>1, <2>1 DEF Contig
  <2>2. CASE j = Len(sent) + 1
    BY <1>1, <2>2 DEF Suffix, SendRequest
  <2> QED
    BY <1>1, <2>1, <2>2
<1>7. SocketInv'
  BY <1>1 DEF SendRequest, Goto, ControlTypeOK, SocketInv, SentNothing
<1> QED
  BY <1>2, <1>3, <1>4, <1>5, <1>6, <1>7

(* Admission, refusal and the mutex. A query that enters its exchange has   *)
(* sent nothing before.                                                     *)
LEMMA EntryInv ==
    ASSUME IInv, NEW q \in Queries, Refused(q) \/ Admitted(q) \/ Lock(q)
    PROVE  IInv'
<1> USE DEF IInv, Exchanging, PastSend, socket, server
<1>1. sent' = sent /\ pc[q] \in {"new", "lock"} /\ SentNothing(q)
  BY DEF Refused, Admitted, Lock, Senders, SentNothing
<1>2. ControlTypeOK'
  BY DEF Refused, Admitted, Lock, Goto, ControlTypeOK
<1>3. LockInv'
  BY ClientAssumption DEF Refused, Admitted, Lock, Goto, ControlTypeOK, LockInv
<1>4. Senders' /\ Contig'
  BY <1>1 DEF Refused, Admitted, Lock, Goto, ControlTypeOK, Senders, Contig, SentNothing
<1>5. Suffix'
  BY <1>1 DEF Refused, Admitted, Lock, Goto, ControlTypeOK, Suffix, SentNothing
<1>6. SocketInv'
  BY <1>1 DEF Refused, Admitted, Lock, Goto, ControlTypeOK, SocketInv, SentNothing
<1> QED
  BY <1>2, <1>3, <1>4, <1>5, <1>6

(* Close runs when the mutex is free, so no exchange is cut. *)
LEMMA CloseInv ==
    ASSUME IInv, NEW k \in Closers, CloseCalled(k) \/ Close(k)
    PROVE  IInv'
<1> USE DEF IInv, Exchanging, PastSend, socket, server
<1>1. ControlTypeOK'
  BY DEF CloseCalled, Close, ControlTypeOK
<1>2. UNCHANGED <<pc, mu, sent>>
  BY DEF CloseCalled, Close
<1>3. LockInv' /\ Senders' /\ Suffix' /\ Contig'
  BY <1>2 DEF LockInv, Senders, Suffix, Contig
<1>4. SocketInv'
  <2>1. CASE CloseCalled(k)
    BY <2>1 DEF CloseCalled, SocketInv, SentNothing
  <2>2. CASE Close(k)
    <3>1. \A q \in Queries : pc[q] \notin Exchanging
      BY <2>2, ClientAssumption DEF Close, LockInv
    <3> QED
      BY <2>2, <3>1 DEF Close, SocketInv, SentNothing
  <2> QED
    BY <2>1, <2>2
<1> QED
  BY <1>1, <1>3, <1>4

(* The owner of a shared socket, contexts, the server and termination do    *)
(* not touch the control state.                                             *)
LEMMA EnvironmentInv ==
    ASSUME IInv,
           \/ OwnerClosesConn \/ Finished
           \/ \E q \in Queries : Cancel(q)
           \/ \E n \in DOMAIN sent : Serve(n) \/ SendChallenge(n)
    PROVE  IInv'
<1> USE DEF IInv, socket, server, wire
<1>1. UNCHANGED <<pc, mu, sent, outcome>>
  BY DEF OwnerClosesConn, Finished, Cancel, Serve, SendChallenge, Reply, vars
<1>2. ControlTypeOK'
  <2>1. CASE OwnerClosesConn \/ Finished
    BY <2>1 DEF OwnerClosesConn, Finished, ControlTypeOK, vars
  <2>2. CASE \E q \in Queries : Cancel(q)
    BY <2>2 DEF Cancel, ControlTypeOK
  <2>3. CASE \E n \in DOMAIN sent : Serve(n)
    BY <2>3 DEF Serve, Reply, ControlTypeOK
  <2>4. CASE \E n \in DOMAIN sent : SendChallenge(n)
    BY <2>4, ClientAssumption DEF SendChallenge, Reply, ControlTypeOK
  <2> QED
    BY <2>1, <2>2, <2>3, <2>4
<1>3. LockInv' /\ Senders' /\ Suffix' /\ Contig'
  BY <1>1 DEF LockInv, Senders, Suffix, Contig
<1>4. Connected => connOpen' = connOpen
  BY DEF OwnerClosesConn, Finished, Cancel, Serve, SendChallenge, Reply, vars
<1>5. SocketInv'
  BY <1>1, <1>4 DEF SocketInv, SentNothing
<1> QED
  BY <1>2, <1>3, <1>5

(* Every step preserves the invariant. *)
LEMMA NextInv == IInv /\ [Next]_vars => IInv'
<1> SUFFICES ASSUME IInv, [Next]_vars PROVE IInv'
  OBVIOUS
<1>1. ASSUME NEW q \in Queries, Refused(q) \/ Admitted(q) \/ Lock(q) PROVE IInv'
  BY <1>1, EntryInv
<1>2. ASSUME NEW q \in Queries, Running(q) \/ Reading(q) PROVE IInv'
  BY <1>2, ExchangeKinds, SendInv, MovesInv, EndsInv
<1>3. ASSUME NEW k \in Closers, CloseCalled(k) \/ Close(k) PROVE IInv'
  BY <1>3, CloseInv
<1>4. CASE \/ OwnerClosesConn \/ Finished
           \/ \E q \in Queries : Cancel(q)
           \/ \E n \in DOMAIN sent : Serve(n) \/ SendChallenge(n)
  BY <1>4, EnvironmentInv
<1>5. CASE UNCHANGED vars
  BY <1>5 DEF vars, IInv, ControlTypeOK, LockInv, Senders, Suffix, Contig, SocketInv, SentNothing
<1> QED
  BY <1>1, <1>2, <1>3, <1>4, <1>5 DEF Next
-----------------------------------------------------------------------------
(* The invariant holds in every reachable state. *)
LEMMA Invariance == Spec => []IInv
  BY InitInv, NextInv, PTL DEF Spec

(* The control state of the client keeps its type: the mutex, the flags,    *)
(* the positions of the calls (client.go:21-32, 193-253).                   *)
THEOREM ControlTyped == Spec => []ControlTypeOK
<1>1. IInv => ControlTypeOK
  BY DEF IInv
<1> QED
  BY Invariance, <1>1, PTL

(* Close never cuts an exchange that has sent a request: a query that fails *)
(* for a closed socket of the client's own has sent nothing                 *)
(* (client.go:100-121).                                                     *)
THEOREM CloseWaits == Spec => []CloseCutsNoExchange
<1>1. IInv => CloseCutsNoExchange
  BY DEF IInv, SocketInv, SentNothing, CloseCutsNoExchange
<1> QED
  BY Invariance, <1>1, PTL

(* Between two requests of one query no other query sends                   *)
(* (client.go:129-130, 149-150, 169-170).                                   *)
THEOREM RequestsContiguous == Spec => []Uninterleaved
<1>1. IInv => Uninterleaved
  BY DEF IInv, Contig, Uninterleaved, Service!Contiguous
<1> QED
  BY Invariance, <1>1, PTL
-----------------------------------------------------------------------------
(* A query moving to l, as the abstract service sees it. *)
LEMMA PhaseMoves ==
    ASSUME ControlTypeOK, NEW q \in Queries, NEW l, Goto(q, l)
    PROVE  [p \in Queries |-> Phase(pc[p])]' =
           [[p \in Queries |-> Phase(pc[p])] EXCEPT ![q] = Phase(l)]
BY DEF ControlTypeOK, Goto

(* A free mutex means that no call is being served. *)
LEMMA FreeMeansIdle ==
    ASSUME IInv, mu = None
    PROVE  Service!NoneActive
BY ClientAssumption
   DEF IInv, ControlTypeOK, LockInv, Service!NoneActive, Phase, Exchanging

(* Each step of a query is a step of the abstract service or a stutter. *)
LEMMA QueryRefines ==
    ASSUME IInv, NEW q \in Queries,
           \/ Refused(q) \/ Admitted(q) \/ Lock(q)
           \/ SendRequest(q) \/ Moves(q) \/ Ends(q)
    PROVE  [Service!Next]_(Service!vars)
<1> USE DEF socket, server, Exchanging
<1>0. ControlTypeOK
  BY DEF IInv
<1>1. CASE Refused(q)
  <2>1. Service!Refuse(q)
    BY <1>0, <1>1, PhaseMoves DEF Refused, Service!Refuse, Service!Move, Phase
  <2> QED
    BY <2>1 DEF Service!Next
<1>2. CASE Admitted(q)
  <2>1. Service!Call(q)
    BY <1>0, <1>2, PhaseMoves DEF Admitted, Service!Call, Service!Move, Phase
  <2> QED
    BY <2>1 DEF Service!Next
<1>3. CASE Lock(q)
  <2>1. Service!Start(q)
    BY <1>0, <1>3, PhaseMoves, FreeMeansIdle DEF Lock, Service!Start, Service!Move, Phase
  <2> QED
    BY <2>1 DEF Service!Next
<1>4. CASE SendRequest(q)
  <2>1. Service!Transmit(q)
    <3>1. [p \in Queries |-> Phase(pc[p])]' = [p \in Queries |-> Phase(pc[p])]
      BY <1>0, <1>4 DEF ControlTypeOK, SendRequest, Goto, Phase
    <3> QED
      BY <1>4, <3>1 DEF SendRequest, Service!Transmit, Phase
  <2> QED
    BY <2>1 DEF Service!Next
<1>5. CASE Moves(q)
  <2>1. [p \in Queries |-> Phase(pc[p])]' = [p \in Queries |-> Phase(pc[p])]
    BY <1>0, <1>5 DEF ControlTypeOK, Moves, Goto, Phase, PastSend
  <2> QED
    BY <1>5, <2>1 DEF Moves, Service!vars
<1>6. CASE Ends(q)
  <2>1. Service!Return(q)
    BY <1>0, <1>6, PhaseMoves DEF Ends, Service!Return, Service!Move, Phase
  <2> QED
    BY <2>1 DEF Service!Next
<1> QED
  BY <1>1, <1>2, <1>3, <1>4, <1>5, <1>6

(* So is each step of Next. *)
LEMMA NextRefines == IInv /\ [Next]_vars => [Service!Next]_(Service!vars)
<1> SUFFICES ASSUME IInv, [Next]_vars PROVE [Service!Next]_(Service!vars)
  OBVIOUS
<1> USE DEF socket, server, wire
<1>1. ASSUME NEW q \in Queries, Refused(q) \/ Admitted(q) \/ Lock(q)
      PROVE  [Service!Next]_(Service!vars)
  BY <1>1, QueryRefines
<1>2. ASSUME NEW q \in Queries, Running(q) \/ Reading(q)
      PROVE  [Service!Next]_(Service!vars)
  BY <1>2, ExchangeKinds, QueryRefines
<1>3. ASSUME NEW k \in Closers, Close(k)
      PROVE  [Service!Next]_(Service!vars)
  <2>1. Service!Shut
    BY <1>3, FreeMeansIdle DEF Close, Service!Shut
  <2> QED
    BY <2>1 DEF Service!Next
<1>4. CASE \/ OwnerClosesConn \/ Finished \/ UNCHANGED vars
           \/ \E k \in Closers : CloseCalled(k)
           \/ \E q \in Queries : Cancel(q)
           \/ \E n \in DOMAIN sent : Serve(n) \/ SendChallenge(n)
  <2>1. UNCHANGED <<pc, sent, closed>>
    BY <1>4 DEF OwnerClosesConn, Finished, CloseCalled, Cancel, Serve, SendChallenge, Reply, vars
  <2> QED
    BY <2>1 DEF Service!vars
<1> QED
  BY <1>1, <1>2, <1>3, <1>4 DEF Next

(* The client implements the abstract service: calls are served one at a    *)
(* time, and none is accepted after Close has marked the client             *)
(* (client.go:100-191).                                                     *)
THEOREM ClientImplementsService == Spec => ServesOneAtATime
<1>1. Init => Service!Init
  BY DEF Init, Service!Init, Phase
<1> QED
  BY Invariance, NextRefines, <1>1, PTL DEF Spec, ServesOneAtATime, Service!Spec

-----------------------------------------------------------------------------
(* Data. What the target has said to each request: `said`. It is not a      *)
(* variable of the model, so the invariant asks that there be one.          *)
Shape == [size : Nat, split : Nat, nested : BOOLEAN]

Messages == {m \in [head : Heads, ok : BOOLEAN, re : Int, form : Shape] : IsForm(m.form)}

Speaks(said) ==
    /\ said \in [Int -> Messages] /\ \A n \in Int : said[n].re = n
    /\ \A m \in Former : said[m.re] = m

(* The requests whose answers may reach the socket: those the server has    *)
(* answered and, on a lent socket, those of its former users.               *)
Heard == served \cup (IF Connected THEN {} ELSE {m.re : m \in Former})

IsPacket(said, p) == \E n \in Heard : p \in Packets(said[n])

(* A fragment as it is read, and the packet in hand that belongs to message *)
(* m: one of its fragments, what Collect put together of them, or the       *)
(* message itself as far as it was read.                                    *)
Piece(m, i) == AsRead(Fragment(m, i))

Put(m, p) == p = AsPacket(Left(m)) \/ p = Single(Remains(m))

InHand(m, p) == Put(m, p) \/ (m.form.split > 0 /\ \E i \in {1, 2} : p = Piece(m, i))

(* The collection that holds the first fragment read, number i - 1.         *)
One(m, i) == Stored(Opened(Piece(m, i)), Piece(m, i))

Codes == {"none", "ok", "dial", "write", "read", "timeout", "packet_header",
          "challenge", "multi_packet", "decode", "unsupported"}

NetData(said) == \A d \in net : d.src = "target" => IsPacket(said, d.pkt)

PktData(said, q) ==
    IF pc[q] = "resolve" THEN \E n \in Heard : InHand(said[n], pkt[q]) ELSE pkt[q] = NoPacket

ColData(said, q) ==
    \/ col[q] = Idle
    \/ /\ pc[q] \in {"enter", "read"}
       /\ \E n \in Heard, i \in {1, 2} : said[n].form.split > 0 /\ col[q] = One(said[n], i)

OutData(said, q) ==
    /\ outcome[q].code \in Codes
    /\ outcome[q].code = "ok" =>
          \E n \in Heard : /\ outcome[q].answer = Remains(said[n])
                           /\ said[n].head = Kind[q]
                           /\ Fits(said[n]) => said[n].ok

Holds(said, q) == PktData(said, q) /\ ColData(said, q) /\ OutData(said, q)

DataInv(said) ==
    /\ Speaks(said) /\ NetData(said)
    /\ DOMAIN pkt = Queries /\ DOMAIN col = Queries
    /\ \A q \in Queries : Holds(said, q)

(* A request that is about to be sent carries the token read last.          *)
TokenInv ==
    /\ tokens \in [Queries -> Seq(Int)] /\ got \in [Queries -> Int]
    /\ carried \in Seq(Seq(Int)) /\ Len(carried) = Len(sent)
    /\ \A q \in Queries :
          tokens[q] = IF got[q] = 0 THEN InitialTokens(Kind[q]) ELSE <<got[q]>>
-----------------------------------------------------------------------------
(* How far an exchange is when every earlier one ended with a reply and no  *)
(* datagram came twice: the socket holds nothing but what is left of the    *)
(* reply to the last request.                                               *)
Clean ==
    /\ dups = 0
    /\ FreshSocket
    /\ \A q \in Queries : pc[q] = "returned" =>
          outcome[q].code \in {"ok", "dial", "challenge", "unsupported"}

Datagram(p) == [src |-> "target", pkt |-> p]

OnlyInSocket(P) == \A d \in net : d.src = "target" => \E p \in P : d = Datagram(p)

Unanswered(q) == pc[q] \in {"enter", "read"} /\ col[q] = Idle /\ OnlyInSocket({})

Unread(m, q) == pc[q] \in {"enter", "read"} /\ col[q] = Idle /\ OnlyInSocket(Packets(m))

WholeRead(m, q) == pc[q] = "resolve" /\ Put(m, pkt[q]) /\ OnlyInSocket({})

HalfRead(m, q) ==
    /\ pc[q] = "resolve" /\ m.form.split > 0
    /\ \E i \in {1, 2} : pkt[q] = Piece(m, i) /\ OnlyInSocket({Fragment(m, 3 - i)})

HalfKept(m, q) ==
    /\ pc[q] \in {"enter", "read"} /\ m.form.split > 0
    /\ \E i \in {1, 2} : col[q] = One(m, i) /\ OnlyInSocket({Fragment(m, 3 - i)})

Progress(said, q) ==
    LET n == Len(sent)  m == said[n] IN
    /\ n \in DOMAIN sent /\ sent[n] = q
    /\ IF n \in served THEN Unread(m, q) \/ WholeRead(m, q) \/ HalfRead(m, q) \/ HalfKept(m, q)
                       ELSE Unanswered(q)

OwnReply(q) == Answers(q).re \in DOMAIN sent /\ sent[Answers(q).re] = q

Tidy(said) ==
    Clean =>
       /\ \A n \in DOMAIN sent \ served : n = Len(sent) /\ pc[sent[n]] \in PastSend
       /\ (\A q \in Queries : pc[q] \notin PastSend) => OnlyInSocket({})
       /\ \A q \in Queries : pc[q] \in PastSend => Progress(said, q)
       /\ \A q \in Queries : Returned(q, "ok") => OwnReply(q)
-----------------------------------------------------------------------------
(* The cells of a message, with and without the header of a nested packet.  *)
Body(m) == {[of |-> m, at |-> k] : k \in 1 .. m.form.size}

All(m) == {[of |-> m, at |-> k] : k \in 0 .. m.form.size}

(* The parts of a form are in range. *)
LEMMA FormFacts ==
    ASSUME NEW m \in Messages
    PROVE  /\ m.form.size \in Nat /\ m.form.split \in Nat /\ m.form.nested \in BOOLEAN
           /\ m.form.split < m.form.size /\ (m.form.nested => m.form.split > 0)
           /\ m.re \in Int /\ m.head \in Heads /\ m.ok \in BOOLEAN
BY DEF Messages, IsForm, Shape

(* What a cell of the message says.                                         *)
LEMMA BodyFacts ==
    ASSUME NEW m \in Messages, NEW c \in Body(m)
    PROVE  c.of = m /\ c.at # 0 /\ c \in All(m)
<1>1. PICK k \in 1 .. m.form.size : c = [of |-> m, at |-> k]
  BY DEF Body
<1>2. k # 0 /\ k \in 0 .. m.form.size
  BY <1>1, FormFacts
<1> QED
  BY <1>1, <1>2 DEF All

(* A message is a sequence of its cells.                                    *)
LEMMA CellsFacts ==
    ASSUME NEW m \in Messages
    PROVE  Cells(m) \in Seq(Body(m)) /\ Cells(m) # <<>> /\ Len(Cells(m)) = m.form.size
<1>1. m.form.size \in Nat /\ m.form.size > 0
  BY FormFacts
<1>2. \A k \in 1 .. m.form.size : [of |-> m, at |-> k] \in Body(m)
  BY DEF Body
<1>3. Cells(m) \in Seq(Body(m)) /\ Len(Cells(m)) = m.form.size
  BY <1>1, <1>2 DEF Cells
<1> QED
  BY <1>1, <1>3

(* What is sent of it: only a nested message has a first cell that is not   *)
(* its own.                                                                 *)
LEMMA BytesFacts ==
    ASSUME NEW m \in Messages
    PROVE  /\ Bytes(m) \in Seq(All(m)) /\ Len(Bytes(m)) \in Nat
           /\ Len(Bytes(m)) > m.form.split
           /\ \A k \in 1 .. Len(Bytes(m)) : k > 1 \/ ~m.form.nested => Bytes(m)[k] \in Body(m)
           /\ m.form.nested => Bytes(m)[1].at = 0 /\ Bytes(m)[1].of = m
           /\ ~m.form.nested => Bytes(m) = Cells(m)
<1>1. /\ Cells(m) \in Seq(Body(m)) /\ Len(Cells(m)) = m.form.size
      /\ m.form.size \in Nat /\ m.form.split \in Nat /\ m.form.split < m.form.size
  BY CellsFacts, FormFacts
<1>2. Cells(m) \in Seq(All(m))
  <2>1. Body(m) \subseteq All(m)
    BY BodyFacts
  <2> QED
    BY <1>1, <2>1, SeqMonotonic
<1>3. CASE ~m.form.nested
  BY <1>1, <1>2, <1>3, ElementOfSeq DEF Bytes
<1>4. CASE m.form.nested
  <2> DEFINE c == [of |-> m, at |-> 0]
  <2>1. c \in All(m) /\ c.at = 0 /\ c.of = m
    BY <1>1 DEF All
  <2>2. Bytes(m) = <<c>> \o Cells(m)
    BY <1>4 DEF Bytes
  <2> HIDE DEF c
  <2>3. <<c>> \in Seq(All(m)) /\ Len(<<c>>) = 1 /\ <<c>>[1] = c
    BY <2>1
  <2>4. /\ Bytes(m) \in Seq(All(m)) /\ Len(Bytes(m)) = 1 + m.form.size
        /\ \A k \in 1 .. 1 + m.form.size :
              Bytes(m)[k] = IF k <= 1 THEN <<c>>[k] ELSE Cells(m)[k - 1]
    BY <1>1, <1>2, <2>2, <2>3, ConcatProperties
  <2>5. ASSUME NEW k \in 1 .. 1 + m.form.size, k > 1 PROVE Bytes(m)[k] \in Body(m)
    <3>1. k - 1 \in 1 .. Len(Cells(m)) /\ ~(k <= 1)
      BY <1>1, <2>5
    <3> QED
      BY <1>1, <2>4, <3>1, ElementOfSeq
  <2>6. Bytes(m)[1] = c
    BY <1>1, <2>3, <2>4
  <2> QED
    BY <1>1, <1>4, <2>1, <2>4, <2>5, <2>6
<1> QED
  BY <1>3, <1>4

(* A read buffer keeps the start of a payload.                              *)
LEMMA CutFacts ==
    ASSUME NEW S, NEW s \in Seq(S), s # <<>>
    PROVE  /\ Cut(s) \in Seq(S) /\ Len(Cut(s)) \in Nat \ {0} /\ Len(Cut(s)) <= Len(s)
           /\ \A k \in 1 .. Len(Cut(s)) : Cut(s)[k] = s[k]
           /\ Len(s) <= Room => Cut(s) = s
<1>1. Len(s) \in Nat \ {0} /\ Room \in Nat \ {0}
  BY EmptySeq, FormsAssumption
<1>2. CASE Len(s) > Room
  <2>1. Cut(s) = SubSeq(s, 1, Room)
    BY <1>2 DEF Cut
  <2>2. \A i \in 1 .. Room : s[i] \in S
    BY <1>1, <1>2, ElementOfSeq
  <2>3. /\ Cut(s) \in Seq(S) /\ Len(Cut(s)) = Room
        /\ \A i \in 1 .. Room : Cut(s)[i] = s[1 + i - 1]
    BY <1>1, <2>1, <2>2, SubSeqProperties
  <2>4. \A i \in 1 .. Room : Cut(s)[i] = s[i]
    BY <1>1, <2>3
  <2> QED
    BY <1>1, <1>2, <2>3, <2>4
<1>3. CASE ~(Len(s) > Room)
  BY <1>1, <1>3 DEF Cut
<1> QED
  BY <1>2, <1>3

(* The two parts of a split message.                                        *)
LEMMA PartFacts ==
    ASSUME NEW m \in Messages, m.form.split > 0, NEW i \in {1, 2}
    PROVE  /\ Part(m, i) \in Seq(All(m)) /\ Part(m, i) # <<>>
           /\ \A k \in 1 .. Len(Part(m, i)) :
                 i = 2 \/ k > 1 \/ ~m.form.nested => Part(m, i)[k] \in Body(m)
           /\ m.form.nested /\ i = 1 => Part(m, i)[1].at = 0 /\ Part(m, i)[1].of = m
<1>1. /\ m.form.split \in Nat \ {0} /\ Len(Bytes(m)) \in Nat /\ Len(Bytes(m)) > m.form.split
      /\ Bytes(m) \in Seq(All(m))
  BY FormFacts, BytesFacts
<1>2. \A k \in 1 .. Len(Bytes(m)) : Bytes(m)[k] \in All(m)
  BY <1>1, ElementOfSeq
<1>3. CASE i = 1
  <2>1. Part(m, i) = SubSeq(Bytes(m), 1, m.form.split)
    BY <1>3 DEF Part
  <2>2. \A k \in 1 .. m.form.split : Bytes(m)[k] \in All(m)
    BY <1>1, <1>2
  <2>3. /\ Part(m, i) \in Seq(All(m)) /\ Len(Part(m, i)) = m.form.split
        /\ \A k \in 1 .. m.form.split : Part(m, i)[k] = Bytes(m)[1 + k - 1]
    BY <1>1, <2>1, <2>2, SubSeqProperties
  <2>4. \A k \in 1 .. m.form.split : Part(m, i)[k] = Bytes(m)[k]
    BY <1>1, <2>3
  <2>5. /\ \A k \in 1 .. m.form.split : k > 1 \/ ~m.form.nested => Bytes(m)[k] \in Body(m)
        /\ m.form.nested => Bytes(m)[1].at = 0 /\ Bytes(m)[1].of = m
    BY <1>1, BytesFacts
  <2>6. /\ \A k \in 1 .. m.form.split : k > 1 \/ ~m.form.nested => Part(m, i)[k] \in Body(m)
        /\ m.form.nested => Part(m, i)[1].at = 0 /\ Part(m, i)[1].of = m
    BY <1>1, <2>4, <2>5
  <2>7. Part(m, i) # <<>>
    BY <1>1, <2>3
  <2> QED
    BY <1>3, <2>3, <2>6, <2>7
<1>4. CASE i = 2
  <2> DEFINE a == m.form.split + 1
             b == Len(Bytes(m))
  <2>1. Part(m, i) = SubSeq(Bytes(m), a, b)
    BY <1>4 DEF Part
  <2>2. a \in Int /\ b \in Int /\ a <= b /\ a > 1 /\ \A k \in a .. b : Bytes(m)[k] \in Body(m)
    BY <1>1, BytesFacts
  <2> HIDE DEF a, b
  <2>3. \A k \in a .. b : Bytes(m)[k] \in All(m)
    BY <2>2, BodyFacts
  <2>4. /\ Part(m, i) \in Seq(All(m)) /\ Len(Part(m, i)) = b - a + 1
        /\ \A k \in 1 .. b - a + 1 : Part(m, i)[k] = Bytes(m)[a + k - 1]
    BY <2>1, <2>2, <2>3, SubSeqProperties
  <2>5. ASSUME NEW k \in 1 .. b - a + 1 PROVE Part(m, i)[k] \in Body(m)
    <3>1. a + k - 1 \in a .. b
      BY <2>2
    <3> QED
      BY <2>2, <2>4, <3>1
  <2>6. Len(Part(m, i)) > 0
    BY <2>2, <2>4
  <2> QED
    BY <1>4, <2>4, <2>5, <2>6
<1> QED
  BY <1>3, <1>4

(* A part as it is read.                                                    *)
LEMMA CutPart ==
    ASSUME NEW m \in Messages, m.form.split > 0, NEW i \in {1, 2}
    PROVE  /\ Cut(Part(m, i)) \in Seq(All(m)) /\ Len(Cut(Part(m, i))) \in Nat \ {0}
           /\ \A k \in 1 .. Len(Cut(Part(m, i))) :
                 i = 2 \/ k > 1 \/ ~m.form.nested => Cut(Part(m, i))[k] \in Body(m)
           /\ m.form.nested /\ i = 1 => Cut(Part(m, i))[1].at = 0 /\ Cut(Part(m, i))[1].of = m
           /\ Len(Part(m, i)) <= Room => Cut(Part(m, i)) = Part(m, i)
<1>1. PICK s : s = Part(m, i)
  OBVIOUS
<1>2. PICK c : c = Cut(s)
  OBVIOUS
<1>3. /\ s \in Seq(All(m)) /\ s # <<>>
      /\ \A k \in 1 .. Len(s) : i = 2 \/ k > 1 \/ ~m.form.nested => s[k] \in Body(m)
      /\ m.form.nested /\ i = 1 => s[1].at = 0 /\ s[1].of = m
  BY <1>1, PartFacts
<1>4. /\ c \in Seq(All(m)) /\ Len(c) \in Nat \ {0} /\ Len(c) <= Len(s) /\ Len(s) \in Nat
      /\ \A k \in 1 .. Len(c) : c[k] = s[k]
      /\ Len(s) <= Room => c = s
  BY <1>2, <1>3, CutFacts
<1>5. \A k \in 1 .. Len(c) : i = 2 \/ k > 1 \/ ~m.form.nested => c[k] \in Body(m)
  BY <1>3, <1>4
<1>6. m.form.nested /\ i = 1 => c[1].at = 0 /\ c[1].of = m
  BY <1>3, <1>4
<1> QED
  BY <1>1, <1>2, <1>4, <1>5, <1>6

(* What reading leaves of a message starts with the header of the split     *)
(* packet inside it, if there is one, and goes on with its own cells.       *)
LEMMA LeftFacts ==
    ASSUME NEW m \in Messages
    PROVE  /\ Left(m) \in Seq(All(m)) /\ Len(Left(m)) \in Nat \ {0}
           /\ \A k \in 1 .. Len(Left(m)) : k > 1 \/ ~m.form.nested => Left(m)[k] \in Body(m)
           /\ m.form.nested => Len(Left(m)) > 1 /\ Left(m)[1].at = 0 /\ Left(m)[1].of = m
<1>0. m.form.split \in Nat /\ m.form.nested \in BOOLEAN /\ (m.form.nested => m.form.split > 0)
  BY FormFacts
<1>1. CASE m.form.split = 0
  <2>1. Left(m) = Cut(Cells(m)) /\ ~m.form.nested
    BY <1>0, <1>1, BytesFacts DEF Left
  <2>2. Cells(m) \in Seq(Body(m)) /\ Cells(m) # <<>>
    BY CellsFacts
  <2>3. Left(m) \in Seq(Body(m)) /\ Len(Left(m)) \in Nat \ {0}
    BY <2>1, <2>2, CutFacts
  <2>4. Body(m) \subseteq All(m)
    BY BodyFacts
  <2>5. Left(m) \in Seq(All(m))
    BY <2>3, <2>4, SeqMonotonic
  <2> QED
    BY <2>1, <2>3, <2>5, ElementOfSeq
<1>2. CASE m.form.split # 0
  <2>0. m.form.split > 0
    BY <1>0, <1>2
  <2>1. PICK s : s = Cut(Part(m, 1))
    OBVIOUS
  <2>2. PICK t : t = Cut(Part(m, 2))
    OBVIOUS
  <2>3. /\ s \in Seq(All(m)) /\ Len(s) \in Nat \ {0}
        /\ \A k \in 1 .. Len(s) : k > 1 \/ ~m.form.nested => s[k] \in Body(m)
        /\ m.form.nested => s[1].at = 0 /\ s[1].of = m
    BY <2>0, <2>1, CutPart
  <2>4. /\ t \in Seq(All(m)) /\ Len(t) \in Nat \ {0}
        /\ \A k \in 1 .. Len(t) : t[k] \in Body(m)
    BY <2>0, <2>2, CutPart
  <2>5. Left(m) = s \o t
    BY <1>2, <2>1, <2>2 DEF Left
  <2>6. /\ Left(m) \in Seq(All(m)) /\ Len(Left(m)) = Len(s) + Len(t)
        /\ \A k \in 1 .. Len(s) + Len(t) :
              Left(m)[k] = IF k <= Len(s) THEN s[k] ELSE t[k - Len(s)]
    BY <2>3, <2>4, <2>5, ConcatProperties
  <2>7. ASSUME NEW k \in 1 .. Len(s) + Len(t), k > 1 \/ ~m.form.nested
        PROVE  Left(m)[k] \in Body(m)
    <3>1. CASE k <= Len(s)
      BY <2>3, <2>6, <2>7, <3>1
    <3>2. CASE ~(k <= Len(s))
      <4>1. k - Len(s) \in 1 .. Len(t)
        BY <2>3, <2>4, <3>2
      <4> QED
        BY <2>4, <2>6, <3>2, <4>1
    <3> QED
      BY <3>1, <3>2
  <2>8. Left(m)[1] = s[1] /\ Len(s) + Len(t) > 1
    BY <2>3, <2>4, <2>6
  <2> QED
    BY <2>3, <2>4, <2>6, <2>7, <2>8
<1> QED
  BY <1>1, <1>2

(* The message as far as it was read: cells of its own, at least one.       *)
LEMMA RemainsFacts ==
    ASSUME NEW m \in Messages
    PROVE  /\ Remains(m) # <<>> /\ Remains(m)[1].of = m /\ Remains(m)[1].at # 0
           /\ ~m.form.nested => Remains(m) = Left(m)
<1>1. PICK s : s = Left(m)
  OBVIOUS
<1>2. /\ s \in Seq(All(m)) /\ Len(s) \in Nat \ {0}
      /\ \A k \in 1 .. Len(s) : k > 1 \/ ~m.form.nested => s[k] \in Body(m)
      /\ m.form.nested => Len(s) > 1
  BY <1>1, LeftFacts
<1>3. CASE ~m.form.nested
  <2>1. Remains(m) = s
    BY <1>1, <1>3 DEF Remains
  <2>2. s[1] \in Body(m) /\ s # <<>>
    BY <1>2, <1>3
  <2> QED
    BY <1>1, <2>1, <2>2, BodyFacts
<1>4. CASE m.form.nested
  <2>1. Remains(m) = Tail(s)
    BY <1>1, <1>4 DEF Remains
  <2>2. s # <<>> /\ Len(s) > 1 /\ s[2] \in Body(m)
    BY <1>2, <1>4
  <2>3. Len(Tail(s)) = Len(s) - 1 /\ \A i \in 1 .. Len(Tail(s)) : Tail(s)[i] = s[i + 1]
    BY <1>2, <2>2, HeadTailProperties
  <2>4. Len(Tail(s)) > 0 /\ Tail(s)[1] = s[2]
    BY <1>2, <2>2, <2>3
  <2>5. Tail(s) # <<>>
    BY <2>4
  <2> QED
    BY <1>4, <2>1, <2>2, <2>4, <2>5, BodyFacts
<1> QED
  BY <1>3, <1>4

(* When every datagram fits the read buffer, that is all of it.             *)
LEMMA FitsWhole ==
    ASSUME NEW m \in Messages, Fits(m)
    PROVE  Remains(m) = Cells(m) /\ Whole(Remains(m))
<1>0. m.form.split \in Nat /\ m.form.nested \in BOOLEAN /\ (m.form.nested => m.form.split > 0)
  BY FormFacts
<1>1. Left(m) = Bytes(m)
  <2>1. CASE m.form.split = 0
    <3>1. Len(Bytes(m)) <= Room
      BY <2>1 DEF Fits, Packets, Single
    <3>2. Bytes(m) # <<>> /\ Bytes(m) \in Seq(All(m))
      BY <1>0, BytesFacts
    <3> QED
      BY <2>1, <3>1, <3>2, CutFacts DEF Left
  <2>2. CASE m.form.split # 0
    <3>0. m.form.split > 0
      BY <1>0, <2>2
    <3>1. ASSUME NEW i \in {1, 2} PROVE Cut(Part(m, i)) = Part(m, i)
      <4>1. Fragment(m, i) \in Packets(m) /\ Fragment(m, i).payload = Part(m, i)
        BY <2>2 DEF Packets, Fragment
      <4>2. Len(Part(m, i)) <= Room
        BY <4>1 DEF Fits
      <4> QED
        BY <3>0, <4>2, CutPart
    <3>2. Left(m) = Part(m, 1) \o Part(m, 2)
      BY <2>2, <3>1 DEF Left
    <3>3. PICK b : b = Bytes(m)
      OBVIOUS
    <3>4. b \in Seq(All(m)) /\ Len(b) \in Nat /\ Len(b) > m.form.split
      BY <3>3, BytesFacts
    <3>5. /\ Part(m, 1) = SubSeq(b, 1, m.form.split)
          /\ Part(m, 2) = SubSeq(b, m.form.split + 1, Len(b))
      BY <3>3 DEF Part
    <3>6. 1 \in 1 .. Len(b) + 1 /\ m.form.split \in 1 - 1 .. Len(b) /\ Len(b) \in m.form.split .. Len(b)
      BY <1>0, <3>4
    <3>7. Part(m, 1) \o Part(m, 2) = SubSeq(b, 1, Len(b))
      BY <3>4, <3>5, <3>6, ConcatAdjacentSubSeq
    <3> QED
      BY <3>2, <3>3, <3>4, <3>7, SubSeqFull
  <2> QED
    BY <2>1, <2>2
<1>2. Remains(m) = Cells(m)
  <2>1. CASE ~m.form.nested
    BY <1>1, <2>1, BytesFacts DEF Remains
  <2>2. CASE m.form.nested
    <3> DEFINE c == [of |-> m, at |-> 0]
               s == <<c>> \o Cells(m)
    <3>1. Remains(m) = Tail(s)
      BY <1>1, <2>2 DEF Remains, Bytes
    <3>2. PICK S : c \in S /\ Cells(m) \in Seq(S)
      <4>1. Body(m) \subseteq All(m) /\ c \in All(m) /\ Cells(m) \in Seq(Body(m))
        BY BodyFacts, CellsFacts, FormFacts DEF All
      <4> QED
        BY <4>1, SeqMonotonic
    <3> HIDE DEF c
    <3>3. <<c>> \in Seq(S) /\ Len(<<c>>) = 1
      BY <3>2
    <3>4. /\ s \in Seq(S) /\ Len(s) = 1 + Len(Cells(m))
          /\ \A k \in 1 .. 1 + Len(Cells(m)) : s[k] = IF k <= 1 THEN <<c>>[k] ELSE Cells(m)[k - 1]
      BY <3>2, <3>3, ConcatProperties
    <3> HIDE DEF s
    <3>5. Len(Cells(m)) \in Nat /\ s # <<>>
      BY <3>2, <3>4, LenProperties, EmptySeq
    <3>6. /\ Tail(s) \in Seq(S) /\ Len(Tail(s)) = Len(Cells(m))
          /\ \A i \in 1 .. Len(Tail(s)) : Tail(s)[i] = s[i + 1]
      BY <3>4, <3>5, HeadTailProperties
    <3>7. ASSUME NEW i \in 1 .. Len(Cells(m)) PROVE Tail(s)[i] = Cells(m)[i]
      <4>1. i + 1 \in 1 .. 1 + Len(Cells(m)) /\ ~(i + 1 <= 1) /\ (i + 1) - 1 = i
        BY <3>5
      <4> QED
        BY <3>4, <3>6, <4>1
    <3>8. Tail(s) = Cells(m)
      BY <3>2, <3>6, <3>7, SeqEqual
    <3> QED
      BY <3>1, <3>8
  <2> QED
    BY <1>0, <2>1, <2>2
<1>3. Remains(m)[1].of = m
  BY RemainsFacts
<1> QED
  BY <1>2, <1>3 DEF Whole
-----------------------------------------------------------------------------
(* A part that was put together is the message, or the packet it is nested  *)
(* in, which has all of it in one fragment.                                 *)
LEMMA PutFacts ==
    ASSUME NEW m \in Messages
    PROVE  /\ AsPacket(Remains(m)) = Single(Remains(m)) /\ ~Single(Remains(m)).framed
           /\ Single(Remains(m)).payload = Remains(m)
           /\ ~m.form.nested => AsPacket(Left(m)) = Single(Remains(m))
           /\ m.form.nested =>
                 AsPacket(Left(m)) = [framed |-> TRUE, hdr |-> TRUE, id |-> [n |-> m.re, zip |-> FALSE],
                                      total |-> 1, number |-> 0, split |-> 0,
                                      payload |-> Remains(m)]
<1>1. AsPacket(Remains(m)) = Single(Remains(m))
  BY RemainsFacts DEF AsPacket
<1>2. ~Single(Remains(m)).framed /\ Single(Remains(m)).payload = Remains(m)
  BY DEF Single
<1>3. ~m.form.nested => AsPacket(Left(m)) = Single(Remains(m))
  BY <1>1, RemainsFacts
<1>4. ASSUME m.form.nested
      PROVE  AsPacket(Left(m)) = [framed |-> TRUE, hdr |-> TRUE, id |-> [n |-> m.re, zip |-> FALSE],
                                  total |-> 1, number |-> 0, split |-> 0, payload |-> Remains(m)]
  <2>1. Left(m)[1].at = 0 /\ Left(m)[1].of = m
    BY <1>4, LeftFacts
  <2>2. Remains(m) = Tail(Left(m))
    BY <1>4 DEF Remains
  <2> QED
    BY <2>1, <2>2 DEF AsPacket
<1> QED
  BY <1>1, <1>2, <1>3, <1>4

(* An unsplit packet in hand is the message as far as it was read.          *)
LEMMA UnframedPut ==
    ASSUME NEW m \in Messages, NEW p, InHand(m, p), ~p.framed
    PROVE  p = Single(Remains(m)) /\ p.payload = Remains(m)
<1>1. \A i \in {1, 2} : Piece(m, i).framed
  BY DEF Piece, AsRead, Fragment
<1>2. Put(m, p)
  BY <1>1 DEF InHand
<1>3. p = Single(Remains(m))
  <2>1. CASE m.form.nested
    BY <1>2, <2>1, PutFacts DEF Put
  <2>2. CASE ~m.form.nested
    BY <1>2, <2>2, PutFacts DEF Put
  <2> QED
    BY <2>1, <2>2
<1> QED
  BY <1>3, PutFacts

(* What the fragments of a message are, as they are read.                   *)
LEMMA PieceFacts ==
    ASSUME NEW m \in Messages, m.form.split > 0, NEW i \in {1, 2}
    PROVE  /\ Piece(m, i).framed /\ Piece(m, i).hdr
           /\ Piece(m, i).id = [n |-> m.re, zip |-> FALSE]
           /\ Piece(m, i).total = 2 /\ Piece(m, i).number = i - 1
           /\ Piece(m, i).split = m.form.split
           /\ Piece(m, i).payload = Cut(Part(m, i)) /\ Piece(m, i).payload # <<>>
<1>1. Cut(Part(m, i)) # <<>>
  BY CutPart
<1> QED
  BY <1>1 DEF Piece, AsRead, Fragment

(* The first fragment of a message opens a collection that waits for one    *)
(* more.                                                                    *)
LEMMA FirstFragment ==
    ASSUME NEW m \in Messages, m.form.split > 0, NEW i \in {1, 2}
    PROVE  /\ Refusal(Opened(Piece(m, i)), Piece(m, i)) = "none"
           /\ ~Complete(One(m, i)) /\ One(m, i) # Idle
           /\ One(m, i).id = [n |-> m.re, zip |-> FALSE]
           /\ One(m, i).total = 2 /\ One(m, i).received = 1
           /\ DOMAIN One(m, i).parts = {i - 1} /\ One(m, i).parts[i - 1] = Cut(Part(m, i))
<1> DEFINE p == Piece(m, i)
<1>1. p.framed /\ p.hdr /\ p.payload # <<>> /\ p.total = 2 /\ p.number = i - 1
  BY PieceFacts
<1>2. Opened(p) = [id |-> p.id, total |-> 2, split |-> p.split, parts |-> <<>>, received |-> 0]
  BY <1>1 DEF Opened
<1>3. DOMAIN <<>> = {}
  OBVIOUS
<1>4. Refusal(Opened(p), p) = "none"
  BY <1>1, <1>2, <1>3 DEF Refusal, ParseError, Compatible, Placeable
<1>5. /\ One(m, i).id = p.id /\ One(m, i).total = 2 /\ One(m, i).received = 1
      /\ DOMAIN One(m, i).parts = {i - 1} /\ One(m, i).parts[i - 1] = p.payload
  BY <1>1, <1>2, <1>3 DEF Stored, One
<1>6. Idle.received = 0
  BY DEF Idle, Opened
<1>7. p.id = [n |-> m.re, zip |-> FALSE] /\ p.payload = Cut(Part(m, i))
  BY PieceFacts
<1>8. Refusal(Opened(Piece(m, i)), Piece(m, i)) = "none"
  BY <1>4
<1> HIDE DEF p
<1>9. ~Complete(One(m, i)) /\ One(m, i) # Idle
  BY <1>5, <1>6 DEF Complete
<1> QED
  BY <1>5, <1>7, <1>8, <1>9

(* A loop over one slot or two concatenates them.                           *)
LEMMA FlattenOne ==
    ASSUME NEW s, Len(s) = 1
    PROVE  FlattenSeq(s) = s[1]
<1> DEFINE Rest(f) == [i \in 1 .. Len(s) |-> IF i = 1 THEN s[i] ELSE f[i - 1] \o s[i]]
           g == [i \in 1 .. 1 |-> s[1]]
           F == CHOOSE f : f = Rest(f)
<1>1. g = Rest(g)
  OBVIOUS
<1>2. F = Rest(F)
  BY <1>1
<1>3. FlattenSeq(s) = F[1]
  BY DEF FlattenSeq
<1> HIDE DEF F
<1>4. F[1] = s[1]
  BY <1>2
<1> QED
  BY <1>3, <1>4

(* Two slots.                                                               *)
LEMMA FlattenTwo ==
    ASSUME NEW s, Len(s) = 2
    PROVE  FlattenSeq(s) = s[1] \o s[2]
<1> DEFINE Rest(f) == [i \in 1 .. Len(s) |-> IF i = 1 THEN s[i] ELSE f[i - 1] \o s[i]]
           g == [i \in 1 .. 2 |-> IF i = 1 THEN s[1] ELSE s[1] \o s[2]]
           F == CHOOSE f : f = Rest(f)
<1>1. g = Rest(g)
  OBVIOUS
<1>2. F = Rest(F)
  BY <1>1
<1>3. FlattenSeq(s) = F[2]
  BY DEF FlattenSeq
<1> HIDE DEF F
<1>4. F[1] = s[1]
  BY <1>2
<1>5. F[2] = F[1] \o s[2]
  BY <1>2
<1> QED
  BY <1>3, <1>4, <1>5

(* The split packet inside a nested message is complete in itself, and what *)
(* comes out is the message.                                                *)
LEMMA InnerPacket ==
    ASSUME NEW m \in Messages, NEW p, p = AsPacket(Left(m)), p.framed
    PROVE  /\ Refusal(Opened(p), p) = "none"
           /\ Complete(Stored(Opened(p), p))
           /\ Outcome(Stored(Opened(p), p)) = Answer(Remains(m))
<1>1. m.form.nested
  BY PutFacts, FormFacts
<1>2. /\ p.framed /\ p.hdr /\ p.id = [n |-> m.re, zip |-> FALSE] /\ p.total = 1 /\ p.number = 0
      /\ p.split = 0 /\ p.payload = Remains(m)
  <2>1. p = [framed |-> TRUE, hdr |-> TRUE, id |-> [n |-> m.re, zip |-> FALSE],
             total |-> 1, number |-> 0, split |-> 0, payload |-> Remains(m)]
    BY <1>1, PutFacts
  <2> QED
    BY <2>1
<1>3. p.payload # <<>>
  BY <1>2, RemainsFacts
<1>4. DOMAIN <<>> = {}
  OBVIOUS
<1>5. Opened(p) = [id |-> p.id, total |-> 1, split |-> 0, parts |-> <<>>, received |-> 0]
  BY <1>2 DEF Opened
<1>6. Refusal(Opened(p), p) = "none"
  BY <1>2, <1>3, <1>4, <1>5 DEF Refusal, ParseError, Compatible, Placeable
<1>7. PICK c : c = Stored(Opened(p), p)
  OBVIOUS
<1>8. /\ c.id = p.id /\ c.total = 1 /\ c.received = 1
      /\ DOMAIN c.parts = {0} /\ c.parts[0] = Remains(m)
  BY <1>2, <1>4, <1>5, <1>7 DEF Stored
<1>9. Complete(c) /\ ~NilSlot(c)
  BY <1>8 DEF Complete, NilSlot
<1>10. Reassembled(c) = Remains(m)
  <2> DEFINE s == [k \in 1 .. c.total |-> c.parts[k - 1]]
  <2>1. Len(s) = 1 /\ s[1] = Remains(m)
    BY <1>8
  <2>2. FlattenSeq(s) = s[1]
    BY <2>1, FlattenOne
  <2> QED
    BY <2>1, <2>2 DEF Reassembled
<1>11. c.id.zip = FALSE
  BY <1>2, <1>8
<1>12. Outcome(c) = Answer(Remains(m))
  BY <1>9, <1>10, <1>11 DEF Outcome, Unpacked
<1> QED
  BY <1>6, <1>7, <1>9, <1>12

(* The other fragment, and no other packet that may be in the socket,       *)
(* completes a collection, and what comes out is what reading left of the   *)
(* message.                                                                 *)
LEMMA SecondFragment ==
    ASSUME NEW said, Speaks(said), Heard \subseteq Int, NEW n \in Heard, NEW i \in {1, 2},
           said[n].form.split > 0,
           NEW p, IsPacket(said, p), Refusal(One(said[n], i), AsRead(p)) = "none"
    PROVE  /\ p = Fragment(said[n], 3 - i)
           /\ Complete(Stored(One(said[n], i), AsRead(p)))
           /\ Outcome(Stored(One(said[n], i), AsRead(p))) = Answer(Left(said[n]))
<1>0. PICK m : m = said[n]
  OBVIOUS
<1>1. m \in Messages /\ m.re = n /\ m.form.split > 0
  BY <1>0 DEF Speaks
<1> DEFINE o == One(m, i)
           r == AsRead(p)
           c == Stored(o, r)
<1>2. r.framed /\ r.id = o.id /\ r.number \notin DOMAIN o.parts
  BY <1>0 DEF Refusal, ParseError, Compatible, Placeable
<1>3. p.framed /\ p.id = r.id /\ p.number = r.number
  <2>1. PICK k \in Heard : p \in Packets(said[k])
    BY DEF IsPacket
  <2>2. CASE said[k].form.split = 0
    <3>1. ~AsRead(p).framed
      BY <2>1, <2>2 DEF Packets, Single, AsRead
    <3> QED
      BY <1>2, <3>1
  <2>3. CASE said[k].form.split # 0
    BY <2>1, <2>3 DEF Packets, Fragment, AsRead
  <2> QED
    BY <2>2, <2>3
<1>4. PICK k \in Heard, j \in {1, 2} : p = Fragment(said[k], j)
  BY <1>3 DEF IsPacket, Packets, Single
<1>5. o.id = [n |-> m.re, zip |-> FALSE] /\ o.total = 2 /\ o.received = 1
      /\ DOMAIN o.parts = {i - 1} /\ o.parts[i - 1] = Cut(Part(m, i))
  BY <1>1, FirstFragment
<1> HIDE DEF o, r, c
<1>6. k = n
  <2>1. said[k].re = k
    BY DEF Speaks
  <2>2. p.id.n = said[k].re
    BY <1>4 DEF Fragment
  <2> QED
    BY <1>1, <1>2, <1>3, <1>5, <2>1, <2>2
<1>7. j = 3 - i
  <2>1. p.number = j - 1
    BY <1>4 DEF Fragment
  <2> QED
    BY <1>2, <1>3, <1>5, <2>1
<1>8. p = Fragment(m, 3 - i) /\ 3 - i \in {1, 2}
  BY <1>0, <1>4, <1>6, <1>7
<1>9. r.number = 2 - i /\ r.payload = Cut(Part(m, 3 - i))
  BY <1>8 DEF r, AsRead, Fragment
<1>10. /\ c.id = o.id /\ c.total = o.total /\ c.received = o.received + 1
       /\ c.parts = [x \in DOMAIN o.parts \cup {r.number} |->
                        IF x = r.number THEN r.payload ELSE o.parts[x]]
  BY DEF Stored, c
<1>11. c.id.zip = FALSE /\ c.total = 2 /\ c.received = 2
  BY <1>5, <1>10
<1>12. /\ DOMAIN c.parts = {0, 1}
       /\ c.parts[0] = Cut(Part(m, 1)) /\ c.parts[1] = Cut(Part(m, 2))
  <2>1. CASE i = 1
    BY <1>5, <1>9, <1>10, <2>1
  <2>2. CASE i = 2
    BY <1>5, <1>9, <1>10, <2>2
  <2> QED
    BY <2>1, <2>2
<1>13. Reassembled(c) = Left(m)
  <2> DEFINE s == [x \in 1 .. c.total |-> c.parts[x - 1]]
  <2>1. Len(s) = 2 /\ s[1] = Cut(Part(m, 1)) /\ s[2] = Cut(Part(m, 2))
    BY <1>11, <1>12
  <2>2. FlattenSeq(s) = s[1] \o s[2]
    BY <2>1, FlattenTwo
  <2>3. m.form.split # 0
    BY <1>1, FormFacts
  <2> QED
    BY <2>1, <2>2, <2>3 DEF Reassembled, Left
<1>14. ~NilSlot(c) /\ Complete(c)
  BY <1>11, <1>12 DEF NilSlot, Complete
<1>15. Outcome(c) = Answer(Left(m))
  BY <1>11, <1>13, <1>14 DEF Outcome, Unpacked
<1> QED
  BY <1>0, <1>8, <1>14, <1>15 DEF c, o, r
-----------------------------------------------------------------------------
(* One step of query q, as far as the other queries and the data can tell.  *)
Step(q) ==
    /\ pc[q] # "returned"
    /\ \A p \in Queries \ {q} :
          pc'[p] = pc[p] /\ pkt'[p] = pkt[p] /\ col'[p] = col[p] /\ outcome'[p] = outcome[p]
    /\ DOMAIN pkt' = Queries /\ DOMAIN col' = Queries
    /\ dups <= dups' /\ net' \subseteq net /\ served' = served

(* The requests that were heard of have numbers other than 0. *)
LEMMA HeardFacts ==
    ASSUME ControlTypeOK
    PROVE  Heard \subseteq Int /\ 0 \notin Heard
<1>1. \A n \in served : n \in Int /\ n # 0
  BY DEF ControlTypeOK
<1>2. \A m \in Former : m.re \in Int /\ m.re # 0
  BY NoiseAssumption DEF IsMessage
<1> QED
  BY <1>1, <1>2 DEF Heard

(* What a step of q must show for the data of the whole client.             *)
LEMMA StepData ==
    ASSUME NEW said, DataInv(said), NEW q \in Queries, Step(q), Holds(said, q)'
    PROVE  DataInv(said)'
<1>0. Heard' = Heard
  BY DEF Step, Heard
<1>1. NetData(said)'
  BY <1>0 DEF DataInv, Step, NetData, IsPacket
<1>2. ASSUME NEW p \in Queries \ {q} PROVE Holds(said, p)'
  BY <1>0, <1>2 DEF DataInv, Step, Holds, PktData, ColData, OutData
<1> QED
  BY <1>1, <1>2 DEF DataInv, Step

(* A return clears the locals; only an answer makes a claim.                *)
LEMMA ReturnHolds ==
    ASSUME ControlTypeOK, NEW said, DataInv(said), NEW q \in Queries,
           NEW code \in Codes \ {"ok"}, NEW cause, NEW answer,
           Return(q, code, cause, answer), served' = served
    PROVE  Holds(said, q)'
<1>1. /\ pc'[q] = "returned" /\ pkt'[q] = NoPacket /\ col'[q] = Idle
      /\ outcome'[q].code = code
  BY DEF ControlTypeOK, DataInv, Return
<1> QED
  BY <1>1 DEF Holds, PktData, ColData, OutData

(* A return is a step of its query.                                         *)
LEMMA ReturnStep ==
    ASSUME ControlTypeOK, NEW said, DataInv(said), NEW q \in Queries, pc[q] # "returned",
           NEW code, NEW cause, NEW answer, Return(q, code, cause, answer),
           served' = served, dups <= dups', net' \subseteq net
    PROVE  Step(q)
BY DEF ControlTypeOK, DataInv, Return, Step

(* A datagram that is taken may stay, as a duplicate; then it is counted.   *)
LEMMA TakeNet ==
    ASSUME ControlTypeOK, NEW d, Take(d)
    PROVE  dups <= dups' /\ net' \subseteq net /\ (dups' = 0 => net' = net \ {d})
BY ClientAssumption DEF ControlTypeOK, Take
-----------------------------------------------------------------------------
(* The steps that end in an error, and those that move no data.             *)
LEMMA FailData ==
    ASSUME ControlTypeOK, NEW said, DataInv(said), NEW q \in Queries, pc[q] # "returned",
           NEW code \in Codes \ {"ok"}, NEW cause, Fail(q, code, cause),
           served' = served, dups <= dups', net' \subseteq net
    PROVE  Step(q) /\ DataInv(said)'
BY StepData, ReturnHolds, ReturnStep DEF Fail

(* A step before the answer is read changes nothing that was said.          *)
LEMMA SilentData ==
    ASSUME ControlTypeOK, NEW said, DataInv(said), NEW q \in Queries,
           \/ Refused(q) \/ Admitted(q) \/ Lock(q)
           \/ SendRequest(q) \/ EnterRead(q)
           \/ \E d \in net : DropForeign(q, d)
    PROVE  Step(q) /\ DataInv(said)'
<1> USE DEF socket, server, local, wire
<1>1. pc[q] # "resolve" /\ pc'[q] # "resolve" /\ pc[q] # "returned"
  BY DEF ControlTypeOK, Refused, Admitted, Lock, SendRequest, EnterRead, DropForeign, Goto
<1>2. dups \in Int /\ dups' = dups /\ net' \subseteq net /\ served' = served /\ UNCHANGED <<pkt, col>>
  BY DEF ControlTypeOK, Refused, Admitted, Lock, SendRequest, EnterRead, DropForeign
<1>3. Step(q)
  BY <1>1, <1>2
     DEF Step, DataInv, ControlTypeOK, Refused, Admitted, Lock, SendRequest, EnterRead, DropForeign, Goto
<1>4. pc[q] \in {"enter", "read"} => pc'[q] \in {"enter", "read"}
  BY DEF ControlTypeOK, Refused, Admitted, Lock, SendRequest, EnterRead, DropForeign, Goto
<1>5. outcome'[q] = outcome[q] \/ outcome'[q].code = "dial"
  BY DEF ControlTypeOK, Refused, Admitted, Lock, SendRequest, EnterRead, DropForeign
<1>6. Holds(said, q)
  BY DEF DataInv
<1>7. Heard' = Heard
  BY <1>2 DEF Heard
<1>8. OutData(said, q)'
  BY <1>5, <1>6, <1>7 DEF Holds, OutData, Codes
<1>9. Holds(said, q)'
  BY <1>1, <1>2, <1>4, <1>6, <1>7, <1>8 DEF Holds, PktData, ColData
<1> QED
  BY <1>3, <1>9, StepData

(* A query that gives up returns no answer.                                 *)
LEMMA GaveUpData ==
    ASSUME ControlTypeOK, NEW said, DataInv(said), NEW q \in Queries,
           SendFails(q) \/ EnterReadFails(q) \/ ReadFails(q)
    PROVE  /\ Step(q) /\ DataInv(said)' /\ pc'[q] = "returned"
           /\ outcome'[q].code \in {"write", "read", "timeout", "decode"}
<1> USE DEF socket, server
<1>1. /\ pc[q] # "returned" /\ served' = served /\ dups \in Int /\ dups' = dups /\ net' = net
      /\ \E code \in {"write", "read", "timeout", "decode"},
            cause \in {"ctx", "deadline", "socket", "refused"} : Fail(q, code, cause)
  BY DEF SendFails, EnterReadFails, ReadFails, ReadError, ControlTypeOK
<1>2. PICK code \in {"write", "read", "timeout", "decode"},
           cause \in {"ctx", "deadline", "socket", "refused"} : Fail(q, code, cause)
  BY <1>1
<1>3. code \in Codes \ {"ok"}
  BY DEF Codes
<1>4. Step(q) /\ DataInv(said)'
  BY <1>1, <1>2, <1>3, FailData
<1> QED
  BY <1>2, <1>4 DEF Fail, Return, ControlTypeOK

(* A datagram of the target, as it is read, belongs to one message.         *)
LEMMA ReadInHand ==
    ASSUME NEW said, Speaks(said), NEW n \in Int, NEW p \in Packets(said[n])
    PROVE  InHand(said[n], AsRead(p))
<1>1. PICK m : m = said[n]
  OBVIOUS
<1>2. m \in Messages
  BY <1>1 DEF Speaks
<1>3. CASE m.form.split = 0
  <2>1. p = Single(Bytes(m))
    BY <1>1, <1>3 DEF Packets
  <2>2. AsRead(p) = Single(Left(m))
    <3>1. Left(m) = Cut(Bytes(m))
      BY <1>3 DEF Left
    <3>2. PICK b : b = Bytes(m)
      OBVIOUS
    <3>3. AsRead(p) = Single(Cut(b))
      <4>1. p = Single(b)
        BY <2>1, <3>2
      <4>2. PICK c : c = Cut(b)
        OBVIOUS
      <4>3. [Single(b) EXCEPT !.payload = c] = Single(c)
        <5> DEFINE r == [Single(b) EXCEPT !.payload = c]
        <5>1. r \in [framed : {FALSE}, hdr : {FALSE}, id : {NoId}, total : {0}, number : {0},
                     split : {0}, payload : {c}]
          BY DEF Single
        <5> HIDE DEF r
        <5>2. r = Single(c)
          BY <5>1 DEF Single
        <5> QED
          BY <5>2 DEF r
      <4> QED
        BY <4>1, <4>2, <4>3 DEF AsRead, Single
    <3> QED
      BY <3>1, <3>2, <3>3
  <2>3. ~m.form.nested
    BY <1>2, <1>3, FormFacts
  <2> QED
    BY <1>1, <1>2, <2>2, <2>3, RemainsFacts DEF InHand, Put
<1>4. CASE m.form.split # 0
  <2>1. m.form.split > 0
    BY <1>2, <1>4, FormFacts
  <2>2. PICK i \in {1, 2} : p = Fragment(m, i)
    BY <1>1, <1>4 DEF Packets
  <2> QED
    BY <1>1, <2>1, <2>2 DEF InHand, Piece
<1> QED
  BY <1>3, <1>4

(* A packet of the target is taken in hand.                                 *)
LEMMA ReceiveData ==
    ASSUME ControlTypeOK, NEW said, DataInv(said), NEW q \in Queries,
           NEW d \in net, Receive(q, d)
    PROVE  Step(q) /\ DataInv(said)'
<1> USE DEF wire, server
<1>1. /\ pc[q] = "read" /\ pc'[q] = "resolve" /\ pkt'[q] = AsRead(d.pkt) /\ col'[q] = Idle
      /\ d.src = "target" /\ outcome'[q] = outcome[q] /\ served' = served
  BY DEF Receive, Readable, Collecting, Goto, ControlTypeOK, DataInv
<1>2. dups <= dups' /\ net' \subseteq net
  BY TakeNet DEF Receive
<1>3. Step(q)
  BY <1>1, <1>2 DEF Step, Receive, Goto, ControlTypeOK, DataInv
<1>4. PICK n \in Heard : d.pkt \in Packets(said[n])
  BY <1>1 DEF DataInv, NetData, IsPacket
<1>5. InHand(said[n], pkt'[q]) /\ OutData(said, q)
  BY <1>1, <1>4, HeardFacts, ReadInHand DEF DataInv, Holds
<1>6. Heard' = Heard
  BY <1>1 DEF Heard
<1>7. Holds(said, q)'
  BY <1>1, <1>4, <1>5, <1>6 DEF Holds, PktData, ColData, OutData
<1> QED
  BY <1>3, <1>7, StepData

(* What is opened is the first fragment of a message, or the packet inside  *)
(* a nested one.                                                            *)
LEMMA OpenFacts ==
    ASSUME ControlTypeOK, NEW said, DataInv(said), NEW q \in Queries, OpenCollection(q),
           NEW m \in Messages
    PROVE  /\ \A i \in {1, 2} : m.form.split > 0 /\ pkt[q] = Piece(m, i) =>
                 /\ pc'[q] = "enter" /\ pkt'[q] = NoPacket /\ col'[q] = One(m, i)
                 /\ UNCHANGED <<mu, outcome>>
                 /\ \A p \in Queries \ {q} : pc'[p] = pc[p] /\ pkt'[p] = pkt[p] /\ col'[p] = col[p]
           /\ pkt[q] = AsPacket(Left(m)) =>
                 /\ pc'[q] = "resolve" /\ pkt'[q] = Single(Remains(m)) /\ col'[q] = Idle
                 /\ UNCHANGED <<mu, outcome>>
                 /\ \A p \in Queries \ {q} : pc'[p] = pc[p] /\ pkt'[p] = pkt[p] /\ col'[p] = col[p]
           /\ DOMAIN pkt' = Queries /\ DOMAIN col' = Queries
<1> DEFINE o == Opened(pkt[q])
<1>0. /\ Absorb(q, o, pkt[q]) /\ pkt[q].framed
      /\ DOMAIN pc = Queries /\ DOMAIN pkt = Queries /\ DOMAIN col = Queries
  BY DEF OpenCollection, ControlTypeOK, DataInv
<1>1. ASSUME NEW i \in {1, 2}, m.form.split > 0, pkt[q] = Piece(m, i)
      PROVE  StoreFragment(q, o, pkt[q]) /\ Stored(o, pkt[q]) = One(m, i)
  <2>1. Refusal(o, pkt[q]) = "none" /\ ~Complete(One(m, i))
    BY <1>1, FirstFragment
  <2>2. Stored(o, pkt[q]) = One(m, i)
    BY <1>1 DEF One
  <2> QED
    BY <1>0, <2>1, <2>2 DEF Absorb, RefuseFragment, LastFragment
<1>2. ASSUME pkt[q] = AsPacket(Left(m))
      PROVE  /\ LastFragment(q, o, pkt[q])
             /\ Outcome(Stored(o, pkt[q])) = Answer(Remains(m))
  <2>1. /\ Refusal(o, pkt[q]) = "none" /\ Complete(Stored(o, pkt[q]))
        /\ Outcome(Stored(o, pkt[q])) = Answer(Remains(m))
    BY <1>0, <1>2, InnerPacket
  <2> QED
    BY <1>0, <2>1 DEF Absorb, RefuseFragment, StoreFragment
<1> HIDE DEF o
<1>3. ASSUME NEW i \in {1, 2}, m.form.split > 0, pkt[q] = Piece(m, i)
      PROVE  /\ pc'[q] = "enter" /\ pkt'[q] = NoPacket /\ col'[q] = One(m, i)
             /\ UNCHANGED <<mu, outcome>>
             /\ \A p \in Queries \ {q} : pc'[p] = pc[p] /\ pkt'[p] = pkt[p] /\ col'[p] = col[p]
  BY <1>0, <1>1, <1>3 DEF StoreFragment, Goto
<1>4. ASSUME pkt[q] = AsPacket(Left(m))
      PROVE  /\ pc'[q] = "resolve" /\ pkt'[q] = Single(Remains(m)) /\ col'[q] = Idle
             /\ UNCHANGED <<mu, outcome>>
             /\ \A p \in Queries \ {q} : pc'[p] = pc[p] /\ pkt'[p] = pkt[p] /\ col'[p] = col[p]
  <2>1. PICK whole : whole = Outcome(Stored(o, pkt[q]))
    OBVIOUS
  <2>2. whole.err = "none" /\ whole.data = Remains(m)
    BY <1>2, <1>4, <2>1 DEF Answer
  <2>3. /\ col' = [col EXCEPT ![q] = Idle] /\ pkt' = [pkt EXCEPT ![q] = AsPacket(Remains(m))]
        /\ pc' = [pc EXCEPT ![q] = "resolve"] /\ UNCHANGED <<mu, outcome>>
    BY <1>2, <1>4, <2>1, <2>2 DEF LastFragment, Goto
  <2>4. AsPacket(Remains(m)) = Single(Remains(m))
    BY PutFacts
  <2> QED
    BY <1>0, <2>3, <2>4
<1>5. DOMAIN pkt' = Queries /\ DOMAIN col' = Queries
  BY <1>0 DEF Absorb, RefuseFragment, StoreFragment, LastFragment, Fail, Return
<1> QED
  BY <1>3, <1>4, <1>5

(* The first fragment of a split response is kept; a nested packet is       *)
(* opened.                                                                  *)
LEMMA OpenData ==
    ASSUME ControlTypeOK, NEW said, DataInv(said), NEW q \in Queries, OpenCollection(q)
    PROVE  Step(q) /\ DataInv(said)' /\ pc'[q] \in {"enter", "resolve"} /\ net' = net
<1> USE DEF socket, server
<1>1. /\ pc[q] = "resolve" /\ pkt[q].framed /\ net' = net /\ served' = served
      /\ dups \in Int /\ dups' = dups
  BY DEF OpenCollection, ControlTypeOK
<1>2. PICK n \in Heard : InHand(said[n], pkt[q])
  BY <1>1 DEF DataInv, Holds, PktData
<1>3. PICK m : m = said[n]
  OBVIOUS
<1>4. m \in Messages
  BY <1>3, HeardFacts DEF DataInv, Speaks
<1>5. Heard' = Heard /\ OutData(said, q)
  BY <1>1 DEF Heard, DataInv, Holds
<1>6. CASE \E i \in {1, 2} : m.form.split > 0 /\ pkt[q] = Piece(m, i)
  <2>1. PICK i \in {1, 2} : m.form.split > 0 /\ pkt[q] = Piece(m, i)
    BY <1>6
  <2>2. /\ pc'[q] = "enter" /\ pkt'[q] = NoPacket /\ col'[q] = One(m, i) /\ outcome' = outcome
        /\ \A p \in Queries \ {q} : pc'[p] = pc[p] /\ pkt'[p] = pkt[p] /\ col'[p] = col[p]
        /\ DOMAIN pkt' = Queries /\ DOMAIN col' = Queries
    BY <1>4, <2>1, OpenFacts
  <2>3. Step(q)
    BY <1>1, <2>2 DEF Step
  <2>4. Holds(said, q)'
    BY <1>3, <1>5, <2>1, <2>2 DEF Holds, PktData, ColData, OutData
  <2> QED
    BY <1>1, <2>2, <2>3, <2>4, StepData
<1>7. CASE pkt[q] = AsPacket(Left(m))
  <2>1. /\ pc'[q] = "resolve" /\ pkt'[q] = Single(Remains(m)) /\ col'[q] = Idle /\ outcome' = outcome
        /\ \A p \in Queries \ {q} : pc'[p] = pc[p] /\ pkt'[p] = pkt[p] /\ col'[p] = col[p]
        /\ DOMAIN pkt' = Queries /\ DOMAIN col' = Queries
    BY <1>4, <1>7, OpenFacts
  <2>2. Step(q)
    BY <1>1, <2>1 DEF Step
  <2>3. Holds(said, q)'
    BY <1>3, <1>5, <2>1 DEF Holds, PktData, ColData, OutData, InHand, Put
  <2> QED
    BY <1>1, <2>1, <2>2, <2>3, StepData
<1>8. pkt[q] # Single(Remains(m))
  BY <1>1, <1>4, PutFacts
<1> QED
  BY <1>2, <1>3, <1>6, <1>7, <1>8 DEF InHand, Put

(* The second fragment completes the message, which is classified anew; any *)
(* other packet is an error.                                                *)
LEMMA FragmentData ==
    ASSUME ControlTypeOK, NEW said, DataInv(said), NEW q \in Queries,
           NEW d \in net, ReceiveFragment(q, d)
    PROVE  /\ Step(q) /\ DataInv(said)'
           /\ \/ pc'[q] = "returned" /\ outcome'[q].code \in {"packet_header", "multi_packet"}
              \/ /\ pc'[q] = "resolve"
                 /\ \A n \in Heard, i \in {1, 2} :
                       said[n].form.split > 0 /\ col[q] = One(said[n], i) =>
                          d.pkt = Fragment(said[n], 3 - i) /\ pkt'[q] = AsPacket(Left(said[n]))
<1> USE DEF wire, server
<1>1. /\ pc[q] = "read" /\ d.src = "target" /\ served' = served /\ col[q] # Idle
      /\ dups <= dups' /\ net' \subseteq net
  BY TakeNet DEF ReceiveFragment, Readable, Collecting
<1>2. IsPacket(said, d.pkt) /\ OutData(said, q) /\ Speaks(said) /\ ColData(said, q)
  BY <1>1 DEF DataInv, NetData, Holds
<1>3. Heard \subseteq Int /\ Heard' = Heard
  BY <1>1, HeardFacts DEF Heard
<1>4. PICK r : r = AsRead(d.pkt)
  OBVIOUS
<1>5. Absorb(q, col[q], r)
  BY <1>4 DEF ReceiveFragment
<1>6. CASE RefuseFragment(q, col[q], r)
  <2>1. Refusal(col[q], r) \in {"packet_header", "multi_packet"}
    BY <1>6 DEF RefuseFragment, Refusal, ParseError
  <2>2. Fail(q, Refusal(col[q], r), "packet")
    BY <1>6 DEF RefuseFragment
  <2>3. Refusal(col[q], r) \in Codes \ {"ok"}
    BY <2>1 DEF Codes
  <2>4. Step(q) /\ DataInv(said)'
    BY <1>1, <2>2, <2>3, FailData
  <2>5. pc'[q] = "returned" /\ outcome'[q].code = Refusal(col[q], r)
    BY <2>2 DEF Fail, Return, ControlTypeOK
  <2> QED
    BY <2>1, <2>4, <2>5
<1>7. ASSUME ~RefuseFragment(q, col[q], r)
      PROVE  /\ Step(q) /\ DataInv(said)' /\ pc'[q] = "resolve"
             /\ \A n \in Heard, i \in {1, 2} :
                   said[n].form.split > 0 /\ col[q] = One(said[n], i) =>
                      d.pkt = Fragment(said[n], 3 - i) /\ pkt'[q] = AsPacket(Left(said[n]))
  <2>1. Refusal(col[q], r) = "none"
    BY <1>5, <1>7 DEF Absorb, StoreFragment, LastFragment
  <2>2. ASSUME NEW n \in Heard, NEW i \in {1, 2}, said[n].form.split > 0, col[q] = One(said[n], i)
        PROVE  /\ d.pkt = Fragment(said[n], 3 - i)
               /\ Complete(Stored(col[q], r))
               /\ Outcome(Stored(col[q], r)) = Answer(Left(said[n]))
    BY <1>2, <1>3, <1>4, <2>1, <2>2, SecondFragment
  <2>3. PICK n \in Heard, i \in {1, 2} : said[n].form.split > 0 /\ col[q] = One(said[n], i)
    BY <1>1, <1>2 DEF ColData
  <2>4. LastFragment(q, col[q], r)
    BY <1>5, <1>7, <2>2, <2>3 DEF Absorb, StoreFragment
  <2>5. ASSUME NEW k \in Heard, NEW j \in {1, 2}, said[k].form.split > 0, col[q] = One(said[k], j)
        PROVE  /\ pc' = [pc EXCEPT ![q] = "resolve"] /\ col' = [col EXCEPT ![q] = Idle]
               /\ pkt' = [pkt EXCEPT ![q] = AsPacket(Left(said[k]))]
               /\ outcome' = outcome
    <3>1. Outcome(Stored(col[q], r)) = Answer(Left(said[k]))
      BY <2>2, <2>5
    <3>2. /\ Outcome(Stored(col[q], r)).err = "none"
          /\ Outcome(Stored(col[q], r)).data = Left(said[k])
      BY <3>1 DEF Answer
    <3> QED
      BY <2>4, <3>2 DEF LastFragment, Goto
  <2>6. /\ pc' = [pc EXCEPT ![q] = "resolve"] /\ col' = [col EXCEPT ![q] = Idle]
        /\ pkt' = [pkt EXCEPT ![q] = AsPacket(Left(said[n]))] /\ outcome' = outcome
    BY <2>3, <2>5
  <2>7. Step(q)
    BY <1>1, <2>6 DEF Step, ControlTypeOK, DataInv
  <2>8. Holds(said, q)'
    <3>1. pc'[q] = "resolve" /\ col'[q] = Idle /\ outcome'[q] = outcome[q]
          /\ pkt'[q] = AsPacket(Left(said[n]))
      BY <2>6 DEF ControlTypeOK, DataInv
    <3> QED
      BY <1>2, <1>3, <2>3, <3>1 DEF Holds, PktData, ColData, OutData, InHand, Put
  <2>9. DataInv(said)'
    BY <2>7, <2>8, StepData
  <2>10. \A k \in Heard, j \in {1, 2} :
            said[k].form.split > 0 /\ col[q] = One(said[k], j) => d.pkt = Fragment(said[k], 3 - j)
    BY <2>2
  <2>11. \A k \in Heard, j \in {1, 2} :
            said[k].form.split > 0 /\ col[q] = One(said[k], j) => pkt'[q] = AsPacket(Left(said[k]))
    BY <2>5 DEF DataInv
  <2> QED
    BY <2>6, <2>7, <2>9, <2>10, <2>11 DEF ControlTypeOK
<1> QED
  BY <1>6, <1>7
-----------------------------------------------------------------------------
(* What resolvePacket makes of an unsplit packet is about one message.      *)
LEMMA UnsplitMessage ==
    ASSUME ControlTypeOK, NEW said, DataInv(said), NEW q \in Queries, Unsplit(q)
    PROVE  \E n \in Heard :
              /\ pkt[q].payload = Remains(said[n])
              /\ pkt[q].payload[1].of = said[n] /\ said[n] \in Messages /\ said[n].re = n
              /\ Header(pkt[q]) \in {said[n].head, "bad"}
<1>1. ~pkt[q].framed /\ PktData(said, q) /\ pc[q] = "resolve"
  BY DEF Unsplit, DataInv, Holds
<1>2. PICK n \in Heard : InHand(said[n], pkt[q])
  BY <1>1 DEF PktData
<1>3. PICK m : m = said[n]
  OBVIOUS
<1>4. m \in Messages /\ m.re = n
  BY <1>3, HeardFacts DEF DataInv, Speaks
<1>5. pkt[q].payload = Remains(m)
  BY <1>1, <1>2, <1>3, <1>4, UnframedPut
<1>6. pkt[q].payload[1].of = m
  BY <1>4, <1>5, RemainsFacts
<1>7. Header(pkt[q]) \in {m.head, "bad"}
  BY <1>6 DEF Header
<1> QED
  BY <1>3, <1>4, <1>5, <1>6, <1>7

(* A challenge is noted: the request that comes next carries its token.     *)
LEMMA ChallengedData ==
    ASSUME IInv, NEW said, DataInv(said), TokenInv, NEW q \in Queries, Challenged(q)
    PROVE  Step(q) /\ DataInv(said)' /\ TokenInv' /\ pc'[q] = "send" /\ net' = net
<1> USE DEF socket, server
<1>0. ControlTypeOK
  BY DEF IInv
<1>1. pc[q] = "resolve" /\ Unsplit(q) /\ OutData(said, q) /\ ColData(said, q)
  BY DEF Challenged, Unsplit, DataInv, Holds
<1>2. /\ pc'[q] = "send" /\ pkt'[q] = NoPacket /\ col'[q] = Idle /\ outcome'[q] = outcome[q]
      /\ served' = served /\ dups' = dups /\ dups \in Int /\ net' = net
  BY <1>0, <1>1 DEF Challenged, Goto, ControlTypeOK, DataInv, ColData
<1>3. Step(q)
  BY <1>0, <1>1, <1>2 DEF Step, Challenged, Goto, ControlTypeOK, DataInv
<1>4. Holds(said, q)'
  BY <1>1, <1>2 DEF Holds, PktData, ColData, OutData, Heard
<1>5. pkt[q].payload[1].of.re \in Int \ {0}
  BY <1>0, <1>1, UnsplitMessage, HeardFacts
<1>6. TokenInv'
  <2> DEFINE t == pkt[q].payload[1].of.re
  <2>1. /\ t \in Int \ {0}
        /\ tokens' = [tokens EXCEPT ![q] = ApplyChallenge(tokens[q], t)]
        /\ got' = [got EXCEPT ![q] = t]
        /\ sent' = sent /\ carried' = carried
    BY <1>5 DEF Challenged
  <2>2. /\ tokens[q] \in Seq(Int)
        /\ tokens[q] = <<>> \/ tokens[q] = <<0>> \/ tokens[q] = <<got[q]>>
    BY DEF TokenInv, InitialTokens
  <2> HIDE DEF t
  <2>3. ApplyChallenge(tokens[q], t) = <<t>>
    <3>1. CASE tokens[q] = <<>>
      BY <3>1 DEF ApplyChallenge
    <3>2. ASSUME NEW x, tokens[q] = <<x>>
          PROVE  ApplyChallenge(tokens[q], t) = <<t>>
      <4>1. tokens[q] # <<>> /\ Len(tokens[q]) = 1
        BY <3>2
      <4>2. ApplyChallenge(tokens[q], t) = [<<x>> EXCEPT ![1] = t]
        BY <3>2, <4>1 DEF ApplyChallenge
      <4> QED
        BY <4>2
    <3> QED
      BY <2>2, <3>1, <3>2
  <2>4. tokens' = [tokens EXCEPT ![q] = <<t>>]
    BY <2>1, <2>3
  <2>5. <<t>> \in Seq(Int)
    BY <2>1
  <2> QED
    BY <2>1, <2>4, <2>5 DEF TokenInv
<1> QED
  BY <1>2, <1>3, <1>4, <1>6, StepData

(* An answer is what was read of one message of the right header.           *)
LEMMA AnsweredData ==
    ASSUME ControlTypeOK, NEW said, DataInv(said), NEW q \in Queries, Answered(q)
    PROVE  /\ Step(q) /\ DataInv(said)' /\ pc'[q] = "returned" /\ net' = net
           /\ outcome'[q].code = "ok" => outcome'[q].answer = pkt[q].payload
<1> USE DEF socket, server
<1>1. /\ Unsplit(q) /\ pc[q] # "returned" /\ served' = served /\ dups' = dups /\ dups \in Int
      /\ net' = net /\ Heard' = Heard
  BY DEF Answered, Unsplit, ControlTypeOK, Heard
<1>2. PICK n \in Heard : /\ pkt[q].payload = Remains(said[n])
                         /\ pkt[q].payload[1].of = said[n] /\ said[n] \in Messages
                         /\ Header(pkt[q]) \in {said[n].head, "bad"}
  BY <1>1, UnsplitMessage
<1>3. said[n].head = Kind[q]
  BY <1>2, ClientAssumption DEF Answered
<1>4. \/ Return(q, "ok", "packet", pkt[q].payload) /\ (Fits(said[n]) => said[n].ok)
      \/ Fail(q, "decode", "packet")
  <2>1. PICK parsed \in Parses(pkt[q].payload) :
           IF parsed THEN Return(q, "ok", "packet", pkt[q].payload) ELSE Fail(q, "decode", "packet")
    BY DEF Answered
  <2>2. Fits(said[n]) => parsed = said[n].ok
    <3>1. ASSUME Fits(said[n]) PROVE Whole(pkt[q].payload)
      BY <1>2, <3>1, FitsWhole
    <3> QED
      BY <1>2, <2>1, <3>1 DEF Parses
  <2> QED
    BY <2>1, <2>2
<1>5. CASE Fail(q, "decode", "packet")
  <2>1. "decode" \in Codes \ {"ok"}
    BY DEF Codes
  <2>2. Step(q) /\ DataInv(said)'
    BY <1>1, <1>5, <2>1, FailData
  <2> QED
    BY <1>1, <1>5, <2>2 DEF Fail, Return, ControlTypeOK
<1>6. CASE Return(q, "ok", "packet", pkt[q].payload) /\ (Fits(said[n]) => said[n].ok)
  <2>1. /\ pc'[q] = "returned" /\ pkt'[q] = NoPacket /\ col'[q] = Idle
        /\ outcome'[q].code = "ok" /\ outcome'[q].answer = pkt[q].payload
    BY <1>6 DEF Return, ControlTypeOK, DataInv
  <2>2. Step(q)
    BY <1>1, <1>6, ReturnStep
  <2>3. OutData(said, q)'
    BY <1>1, <1>2, <1>3, <1>6, <2>1 DEF OutData, Codes
  <2>4. Holds(said, q)'
    BY <2>1, <2>3 DEF Holds, PktData, ColData
  <2> QED
    BY <1>1, <2>1, <2>2, <2>4, StepData
<1> QED
  BY <1>4, <1>5, <1>6

(* A packet that is neither is an error.                                    *)
LEMMA RejectData ==
    ASSUME ControlTypeOK, NEW said, DataInv(said), NEW q \in Queries, RejectPacket(q)
    PROVE  /\ Step(q) /\ DataInv(said)' /\ pc'[q] = "returned" /\ net' = net
           /\ outcome'[q].code # "ok"
<1> USE DEF socket, server
<1>1. Unsplit(q) /\ pc[q] # "returned" /\ served' = served /\ dups' = dups /\ dups \in Int /\ net' = net
  BY DEF RejectPacket, Unsplit, ControlTypeOK
<1>2. PICK code \in {"packet_header", "challenge", "unsupported"} : Fail(q, code, "packet")
  BY DEF RejectPacket
<1>3. code \in Codes \ {"ok"}
  BY DEF Codes
<1>4. Step(q) /\ DataInv(said)'
  BY <1>1, <1>2, <1>3, FailData
<1> QED
  BY <1>1, <1>2, <1>4 DEF Fail, Return, ControlTypeOK
-----------------------------------------------------------------------------
(* A request takes the tokens of its query along.                           *)
LEMMA SendToken ==
    ASSUME ControlTypeOK, TokenInv, NEW q \in Queries, SendRequest(q)
    PROVE  /\ TokenInv'
           /\ Last(sent') = q /\ Last(carried') = tokens[q]
<1> USE DEF local, server
<1>1. sent \in Seq(Queries) /\ carried \in Seq(Seq(Int)) /\ tokens[q] \in Seq(Int)
  BY DEF ControlTypeOK, TokenInv
<1>2. sent' = Append(sent, q) /\ carried' = Append(carried, tokens[q]) /\ UNCHANGED <<tokens, got>>
  BY DEF SendRequest
<1>3. carried' \in Seq(Seq(Int)) /\ Len(carried') = Len(sent')
  <2> DEFINE T == Seq(Int)
  <2>1. carried \in Seq(T) /\ tokens[q] \in T
    BY <1>1
  <2> HIDE DEF T
  <2>2. Append(carried, tokens[q]) \in Seq(T) /\ Len(Append(carried, tokens[q])) = Len(carried) + 1
    BY <2>1
  <2>3. Len(Append(sent, q)) = Len(sent) + 1
    BY <1>1
  <2> QED
    BY <1>2, <2>2, <2>3 DEF TokenInv, T
<1>4. Last(sent') = q /\ Last(carried') = tokens[q]
  BY <1>1, <1>2 DEF Last
<1> QED
  BY <1>2, <1>3, <1>4 DEF TokenInv

(* What the server may say to request n.                                    *)
LEMMA ReplyMessages ==
    ASSUME ControlTypeOK, NEW n \in DOMAIN sent, NEW m,
           m \in Replies(n) \/ \E form \in Brief : m = Message("challenge", TRUE, n, form)
    PROVE  m \in Messages /\ m.re = n
<1>1. n \in Int /\ Kind[sent[n]] \in {"info", "players", "rules"}
  BY ClientAssumption DEF ControlTypeOK
<1>2. \A f \in Forms \cup Brief : IsForm(f) /\ f \in Shape
  <2>1. \A f \in Forms : IsForm(f) /\ f \in Shape
    BY FormsAssumption DEF IsForm, Shape
  <2>2. ASSUME NEW k \in {0, 1}
        PROVE  LET f == [size |-> 2, split |-> k, nested |-> FALSE] IN IsForm(f) /\ f \in Shape
    BY DEF IsForm, Shape
  <2>3. \A f \in Brief : \E k \in {0, 1} : f = [size |-> 2, split |-> k, nested |-> FALSE]
    BY DEF Brief, Short
  <2> QED
    BY <2>1, <2>2, <2>3
<1>3. \A h \in Heads, b \in BOOLEAN, f \in Forms \cup Brief :
         Message(h, b, n, f) \in Messages /\ Message(h, b, n, f).re = n
  BY <1>1, <1>2 DEF Message, Messages
<1>4. ASSUME NEW k \in {"info", "players", "rules"} PROVE OtherKind(k) \in Heads
  <2>1. \E l \in {"info", "players", "rules"} : l # k
    OBVIOUS
  <2> QED
    BY <2>1 DEF OtherKind, Heads
<1>5. ASSUME NEW f \in Faults, m = Fault(f, Kind[sent[n]], n)
      PROVE  \E h \in Heads, b \in BOOLEAN : m = Message(h, b, n, Short)
  <2>1. f \in {"undecodable", "emptyChallenge", "garbage", "otherKind"}
    BY ClientAssumption
  <2>2. Kind[sent[n]] \in Heads /\ "challenge" \in Heads /\ "bad" \in Heads
    BY <1>1 DEF Heads
  <2>3. OtherKind(Kind[sent[n]]) \in Heads
    BY <1>1, <1>4
  <2> HIDE DEF Message, OtherKind, Heads
  <2>4. \/ m = Message(Kind[sent[n]], FALSE, n, Short) \/ m = Message("challenge", FALSE, n, Short)
        \/ m = Message("bad", FALSE, n, Short) \/ m = Message(OtherKind(Kind[sent[n]]), TRUE, n, Short)
    BY <1>5, <2>1 DEF Fault
  <2> QED
    BY <2>2, <2>3, <2>4
<1>6. \E h \in Heads, b \in BOOLEAN, f \in Forms \cup Brief : m = Message(h, b, n, f)
  <2>1. Kind[sent[n]] \in Heads /\ "challenge" \in Heads
    BY <1>1 DEF Heads
  <2>2. CASE \E form \in Brief : m = Message("challenge", TRUE, n, form)
    BY <2>1, <2>2
  <2>3. CASE \E form \in Forms : m = Message(Kind[sent[n]], TRUE, n, form)
    BY <2>1, <2>3
  <2>4. CASE \E f \in Faults : m = Fault(f, Kind[sent[n]], n)
    <3>1. PICK f \in Faults : m = Fault(f, Kind[sent[n]], n)
      BY <2>4
    <3>2. Short \in Brief
      BY DEF Brief
    <3> QED
      BY <1>5, <3>1, <3>2
  <2> HIDE DEF Message, Fault
  <2>5. ASSUME m \in Replies(n)
        PROVE  \/ \E form \in Forms : m = Message(Kind[sent[n]], TRUE, n, form)
               \/ \E f \in Faults : m = Fault(f, Kind[sent[n]], n)
    BY <2>5 DEF Replies
  <2> QED
    BY <2>2, <2>3, <2>4, <2>5
<1> QED
  BY <1>3, <1>6

(* The server's reply to a request adds to what it has said, and nothing    *)
(* that was there before referred to it.                                    *)
LEMMA ReplyData ==
    ASSUME ControlTypeOK, NEW said, DataInv(said), NEW n \in DOMAIN sent,
           NEW m, m \in Messages, m.re = n, Reply(n, m)
    PROVE  DataInv([said EXCEPT ![n] = m])'
<1> DEFINE now == [said EXCEPT ![n] = m]
<1>1. n \in Int /\ n > 0 /\ n \notin served /\ served' = served \cup {n}
  BY DEF ControlTypeOK, Reply
<1>2. \A o \in Former : o.re \in Int /\ o.re # n
  BY <1>1, NoiseAssumption DEF IsMessage
<1>3. Heard' = Heard \cup {n} /\ n \notin Heard /\ Heard \subseteq Int
  BY <1>1, <1>2, HeardFacts DEF Heard
<1>4. Speaks(now) /\ now[n] = m /\ \A k \in Heard : now[k] = said[k]
  BY <1>1, <1>2, <1>3 DEF DataInv, Speaks
<1> HIDE DEF now
<1>5. ASSUME NEW p, IsPacket(said, p) PROVE IsPacket(now, p)'
  BY <1>3, <1>4, <1>5 DEF IsPacket
<1>6. net' = net \cup {[src |-> "target", pkt |-> p] : p \in Packets(m)}
  BY DEF Reply
<1>7. ASSUME NEW p \in Packets(m) PROVE IsPacket(now, p)'
  BY <1>3, <1>4 DEF IsPacket
<1>8. NetData(now)'
  <2> SUFFICES ASSUME NEW d \in net', d.src = "target" PROVE IsPacket(now, d.pkt)'
    BY DEF NetData
  <2>1. CASE d \in net
    BY <1>5, <2>1 DEF DataInv, NetData
  <2>2. CASE d \notin net
    <3>1. PICK p \in Packets(m) : d = [src |-> "target", pkt |-> p]
      BY <1>6, <2>2
    <3> QED
      BY <1>7, <3>1
  <2> QED
    BY <2>1, <2>2
<1>9. UNCHANGED <<pc, pkt, col, outcome>>
  BY DEF Reply, local
<1>10. ASSUME NEW q \in Queries PROVE Holds(now, q)'
  <2>1. Holds(said, q)
    BY DEF DataInv
  <2>2. PktData(now, q)'
    BY <1>3, <1>4, <1>9, <2>1 DEF Holds, PktData
  <2>3. ColData(now, q)'
    BY <1>3, <1>4, <1>9, <2>1 DEF Holds, ColData
  <2>4. OutData(now, q)'
    BY <1>3, <1>4, <1>9, <2>1 DEF Holds, OutData
  <2> QED
    BY <2>2, <2>3, <2>4 DEF Holds
<1>11. DOMAIN pkt' = Queries /\ DOMAIN col' = Queries
  BY <1>9 DEF DataInv
<1>12. DataInv(now)'
  BY <1>4, <1>8, <1>10, <1>11 DEF DataInv, Speaks
<1> QED
  BY <1>12 DEF now
-----------------------------------------------------------------------------
(* What was clean after a step was so before it.                            *)
LEMMA CleanBack ==
    ASSUME ControlTypeOK, NEW q \in Queries, Step(q), Clean'
    PROVE  Clean /\ dups' = 0
BY DEF ControlTypeOK, Step, Clean

(* At most one query is past its first request.                             *)
LEMMA OnePastSend ==
    ASSUME IInv, NEW q \in Queries, pc[q] \in Exchanging, NEW p \in Queries \ {q}
    PROVE  pc[p] \notin PastSend
BY DEF IInv, LockInv, PastSend, Exchanging

(* Taking datagrams out leaves no others behind.                            *)
LEMMA FewerInSocket ==
    ASSUME NEW P, NEW R, OnlyInSocket(P), P \subseteq R, net' \subseteq net
    PROVE  OnlyInSocket(R)'
BY DEF OnlyInSocket

(* A step inside an exchange: what it must show is how far it then is.      *)
LEMMA TidyMove ==
    ASSUME IInv, NEW said, Tidy(said), NEW q \in Queries, Step(q), sent' = sent,
           pc[q] \in PastSend, pc'[q] \in PastSend,
           Clean /\ Clean' /\ Progress(said, q) => Progress(said, q)'
    PROVE  Tidy(said)'
<1> SUFFICES ASSUME Clean'
             PROVE  /\ \A n \in DOMAIN sent \ served' : n = Len(sent) /\ pc'[sent[n]] \in PastSend
                    /\ ~ \A p \in Queries : pc'[p] \notin PastSend
                    /\ \A p \in Queries : pc'[p] \in PastSend => Progress(said, p)'
                    /\ \A p \in Queries : Returned(p, "ok")' => OwnReply(p)'
  BY DEF Tidy
<1>0. Clean /\ sent \in Seq(Queries) /\ served' = served
  BY CleanBack DEF IInv, ControlTypeOK, Step
<1>1. pc[q] \in Exchanging /\ \A p \in Queries \ {q} : pc[p] \notin PastSend /\ pc'[p] = pc[p]
  BY OnePastSend DEF PastSend, Exchanging, Step
<1>2. Progress(said, q)'
  BY <1>0 DEF Tidy
<1>3. \A p \in Queries : pc'[p] \in PastSend => Progress(said, p)'
  BY <1>1, <1>2
<1>4. \A n \in DOMAIN sent \ served' : n = Len(sent) /\ pc'[sent[n]] \in PastSend
  BY <1>0, <1>1 DEF Tidy
<1>5. \A p \in Queries : Returned(p, "ok")' => Returned(p, "ok") /\ Answers(p)' = Answers(p)
  BY <1>1 DEF Returned, Answers, Step, PastSend
<1>6. \A p \in Queries : Returned(p, "ok")' => OwnReply(p)'
  BY <1>0, <1>5 DEF Tidy, OwnReply
<1> QED
  BY <1>3, <1>4, <1>6

(* A step that leaves the exchange, or goes back to send: the last request  *)
(* is answered and the socket holds nothing for the client.                 *)
LEMMA TidyLeave ==
    ASSUME IInv, NEW said, Tidy(said), NEW q \in Queries, Step(q), sent' = sent,
           pc[q] \in PastSend, pc'[q] \notin PastSend,
           Clean /\ Clean' /\ Progress(said, q) =>
              /\ Len(sent) \in served /\ OnlyInSocket({})'
              /\ Returned(q, "ok")' => OwnReply(q)'
    PROVE  Tidy(said)'
<1> SUFFICES ASSUME Clean'
             PROVE  /\ \A n \in DOMAIN sent : n \in served'
                    /\ OnlyInSocket({})'
                    /\ \A p \in Queries : pc'[p] \notin PastSend
                    /\ \A p \in Queries : Returned(p, "ok")' => OwnReply(p)'
  BY DEF Tidy
<1>0. Clean /\ sent \in Seq(Queries) /\ served' = served
  BY CleanBack DEF IInv, ControlTypeOK, Step
<1>1. pc[q] \in Exchanging /\ \A p \in Queries \ {q} : pc[p] \notin PastSend /\ pc'[p] = pc[p]
  BY OnePastSend DEF PastSend, Exchanging, Step
<1>2. Progress(said, q)
  BY <1>0 DEF Tidy
<1>3. /\ Len(sent) \in served /\ OnlyInSocket({})'
      /\ Returned(q, "ok")' => OwnReply(q)'
  BY <1>0, <1>2
<1>4. \A n \in DOMAIN sent : n \in served'
  BY <1>0, <1>3 DEF Tidy
<1>5. \A p \in Queries \ {q} : Returned(p, "ok")' => Returned(p, "ok") /\ Answers(p)' = Answers(p)
  BY DEF Returned, Answers, Step
<1>6. \A p \in Queries : Returned(p, "ok")' => OwnReply(p)'
  BY <1>0, <1>3, <1>5 DEF Tidy, OwnReply
<1> QED
  BY <1>1, <1>3, <1>4, <1>6

(* A step before the first request changes nothing of that.                 *)
LEMMA TidyBefore ==
    ASSUME IInv, NEW said, Tidy(said), NEW q \in Queries, Step(q), sent' = sent,
           pc[q] \notin PastSend, pc'[q] \notin PastSend, ~Returned(q, "ok")'
    PROVE  Tidy(said)'
<1> SUFFICES ASSUME Clean'
             PROVE  /\ \A n \in DOMAIN sent \ served' : n = Len(sent) /\ pc'[sent[n]] \in PastSend
                    /\ (\A p \in Queries : pc'[p] \notin PastSend) => OnlyInSocket({})'
                    /\ \A p \in Queries : pc'[p] \in PastSend => Progress(said, p)'
                    /\ \A p \in Queries : Returned(p, "ok")' => OwnReply(p)'
  BY DEF Tidy
<1>0. Clean /\ sent \in Seq(Queries) /\ served' = served /\ net' \subseteq net
  BY CleanBack DEF IInv, ControlTypeOK, Step
<1>1. \A p \in Queries : pc'[p] \in PastSend <=> pc[p] \in PastSend
  BY DEF Step
<1>2. (\A p \in Queries : pc'[p] \notin PastSend) => OnlyInSocket({})'
  BY <1>0, <1>1, FewerInSocket DEF Tidy
<1>3. ASSUME NEW p \in Queries, pc'[p] \in PastSend PROVE Progress(said, p)'
  <2>1. p # q /\ Progress(said, p)
    BY <1>0, <1>1, <1>3 DEF Tidy
  <2>2. pc'[p] = pc[p] /\ pkt'[p] = pkt[p] /\ col'[p] = col[p]
    BY <2>1 DEF Step
  <2>3. \A P : OnlyInSocket(P) => OnlyInSocket(P)'
    BY <1>0, FewerInSocket
  <2> QED
    BY <1>0, <2>1, <2>2, <2>3
       DEF Progress, Unanswered, Unread, WholeRead, HalfRead, HalfKept
<1>4. \A n \in DOMAIN sent \ served' : n = Len(sent) /\ pc'[sent[n]] \in PastSend
  BY <1>0, <1>1 DEF Tidy
<1>5. \A p \in Queries : Returned(p, "ok")' => Returned(p, "ok") /\ Answers(p)' = Answers(p)
  BY DEF Returned, Answers, Step
<1>6. \A p \in Queries : Returned(p, "ok")' => OwnReply(p)'
  BY <1>0, <1>5 DEF Tidy, OwnReply
<1> QED
  BY <1>2, <1>3, <1>4, <1>6
-----------------------------------------------------------------------------
(* A request goes out: all earlier ones are answered, and nothing waits.    *)
LEMMA SendTidy ==
    ASSUME IInv, NEW said, DataInv(said), Tidy(said), NEW q \in Queries, SendRequest(q)
    PROVE  Tidy(said)'
<1> USE DEF local, server
<1>1. /\ sent \in Seq(Queries) /\ Len(sent) \in Nat
      /\ sent' \in Seq(Queries) /\ Len(sent') = Len(sent) + 1
      /\ DOMAIN sent = 1 .. Len(sent) /\ DOMAIN sent' = 1 .. Len(sent) + 1
      /\ sent'[Len(sent) + 1] = q
      /\ \A n \in 1 .. Len(sent) : sent'[n] = sent[n]
      /\ served \subseteq 1 .. Len(sent) /\ served' = served
  BY DEF SendRequest, IInv, ControlTypeOK
<1>2. /\ pc[q] = "send" /\ pc'[q] = "enter" /\ \A p \in Queries \ {q} : pc'[p] = pc[p]
      /\ UNCHANGED <<net, dups, outcome, col, pkt>>
  BY DEF SendRequest, IInv, ControlTypeOK, Goto
<1>3. \A p \in Queries : pc[p] \notin PastSend
  BY <1>2, OnePastSend DEF PastSend, Exchanging
<1>4. col[q] = Idle
  BY <1>2 DEF DataInv, Holds, ColData
<1> SUFFICES ASSUME Clean' PROVE Tidy(said)'
  BY DEF Tidy
<1>5. Clean
  BY <1>2 DEF Clean
<1>6. OnlyInSocket({})' /\ \A n \in 1 .. Len(sent) : n \in served
  <2>1. OnlyInSocket({}) /\ \A n \in DOMAIN sent \ served : pc[sent[n]] \in PastSend
    BY <1>3, <1>5 DEF Tidy
  <2>2. \A n \in 1 .. Len(sent) : sent[n] \in Queries
    BY <1>1
  <2> QED
    BY <1>1, <1>2, <1>3, <2>1, <2>2 DEF OnlyInSocket
<1>7. Progress(said, q)'
  BY <1>1, <1>2, <1>4, <1>6 DEF Progress, Unanswered
<1>8. \A p \in Queries : pc'[p] \in PastSend <=> p = q
  BY <1>2, <1>3 DEF PastSend
<1>9. \A n \in DOMAIN sent' \ served' : n = Len(sent') /\ pc'[sent'[n]] \in PastSend
  BY <1>1, <1>6, <1>8
<1>10. ASSUME NEW p \in Queries, Returned(p, "ok")' PROVE OwnReply(p)'
  <2>1. Returned(p, "ok") /\ Answers(p)' = Answers(p)
    BY <1>2, <1>10 DEF Returned, Answers
  <2>2. OwnReply(p)
    BY <1>5, <2>1 DEF Tidy
  <2> QED
    BY <1>1, <2>1, <2>2 DEF OwnReply
<1> QED
  BY <1>6, <1>7, <1>8, <1>9, <1>10 DEF Tidy

(* The reply to the only unanswered request is all the socket holds.        *)
LEMMA ReplyTidy ==
    ASSUME IInv, NEW said, DataInv(said), Tidy(said), NEW n \in DOMAIN sent,
           NEW m, m \in Messages, m.re = n, Reply(n, m)
    PROVE  Tidy([said EXCEPT ![n] = m])'
<1> DEFINE now == [said EXCEPT ![n] = m]
<1> SUFFICES ASSUME Clean' PROVE Tidy(now)'
  BY DEF Tidy
<1>0. /\ sent \in Seq(Queries) /\ n \in Nat /\ n \notin served /\ served' = served \cup {n}
      /\ UNCHANGED <<pc, pkt, col, outcome, dups, sent>>
  BY DEF IInv, ControlTypeOK, Reply, local, wire
<1>1. Clean
  BY <1>0 DEF Clean
<1>2. n = Len(sent) /\ pc[sent[n]] \in PastSend /\ sent[n] \in Queries
  BY <1>0, <1>1 DEF Tidy
<1> DEFINE q == sent[n]
<1>3. Unanswered(q)
  <2>1. Progress(said, q)
    BY <1>1, <1>2 DEF Tidy
  <2> QED
    BY <1>0, <1>2, <2>1 DEF Progress
<1>4. now[n] = m
  BY <1>0 DEF DataInv, Speaks
<1> HIDE DEF now
<1>5. net' = net \cup {[src |-> "target", pkt |-> p] : p \in Packets(m)}
  BY DEF Reply
<1>6. OnlyInSocket(Packets(m))'
  BY <1>3, <1>5 DEF Unanswered, OnlyInSocket, Datagram
<1>7. Progress(now, q)'
  BY <1>0, <1>2, <1>3, <1>4, <1>6 DEF Progress, Unread, Unanswered
<1>8. \A p \in Queries : pc'[p] \in PastSend => p = q
  BY <1>0, <1>2, OnePastSend DEF PastSend, Exchanging
<1>9. \A k \in DOMAIN sent : k \in served'
  BY <1>0, <1>1, <1>2 DEF Tidy
<1>10. \A p \in Queries : Returned(p, "ok")' => OwnReply(p)'
  BY <1>0, <1>1 DEF Tidy, Returned, Answers, OwnReply
<1> QED
  BY <1>0, <1>2, <1>7, <1>8, <1>9, <1>10 DEF Tidy

(* Reading a packet takes it from what is left of the reply.                *)
LEMMA TakeRest ==
    ASSUME NEW P, NEW d \in net, d.src = "target", OnlyInSocket(P), net' = net \ {d}
    PROVE  d.pkt \in P /\ OnlyInSocket(P \ {d.pkt})'
<1>1. PICK p \in P : d = Datagram(p)
  BY DEF OnlyInSocket
<1>2. d.pkt = p /\ d = Datagram(d.pkt)
  BY <1>1 DEF Datagram
<1>3. ASSUME NEW e \in net', e.src = "target" PROVE \E r \in P \ {d.pkt} : e = Datagram(r)
  <2>1. PICK r \in P : e = Datagram(r)
    BY <1>3 DEF OnlyInSocket
  <2> QED
    BY <1>2, <2>1
<1> QED
  BY <1>1, <1>2, <1>3 DEF OnlyInSocket

(* A datagram that is read leaves the socket, and the rest stays tidy.      *)
LEMMA ReceiveTidy ==
    ASSUME IInv, NEW said, DataInv(said), Tidy(said), NEW q \in Queries,
           NEW d \in net, Receive(q, d)
    PROVE  Tidy(said)'
<1> USE DEF wire, server
<1>0. ControlTypeOK
  BY DEF IInv
<1>1. Step(q)
  BY <1>0, ReceiveData
<1>2. /\ pc[q] = "read" /\ pc'[q] = "resolve" /\ pkt'[q] = AsRead(d.pkt) /\ col[q] = Idle
      /\ d.src = "target" /\ served' = served /\ sent' = sent
  BY <1>0 DEF Receive, Readable, Collecting, Goto, ControlTypeOK, DataInv
<1>3. ASSUME Clean, Clean', Progress(said, q) PROVE Progress(said, q)'
  <2>0. PICK m : m = said[Len(sent)]
    OBVIOUS
  <2>1. net' = net \ {d}
    BY <1>0, <1>1, <1>3, CleanBack, TakeNet DEF Receive
  <2>2. m \in Messages /\ \A i \in {1, 2} : m.form.split > 0 => One(m, i) # Idle
    <3>1. m \in Messages
      BY <1>0, <2>0, <1>3 DEF Progress, ControlTypeOK, DataInv, Speaks
    <3> QED
      BY <3>1, FirstFragment
  <2>3. ~OnlyInSocket({})
    BY <1>2 DEF OnlyInSocket
  <2>4. Len(sent) \in served /\ Unread(m, q) /\ Len(sent) \in DOMAIN sent /\ sent[Len(sent)] = q
    BY <1>2, <1>3, <2>0, <2>2, <2>3 DEF Progress, Unanswered, WholeRead, HalfRead, HalfKept
  <2>5. d.pkt \in Packets(m) /\ OnlyInSocket(Packets(m) \ {d.pkt})'
    BY <1>2, <2>1, <2>4, TakeRest DEF Unread
  <2>6. CASE m.form.split # 0
    <3>1. Packets(m) = {Fragment(m, 1), Fragment(m, 2)} /\ m.form.split > 0
      BY <2>2, <2>6, FormFacts DEF Packets
    <3>2. PICK i \in {1, 2} : d.pkt = Fragment(m, i)
      BY <2>5, <3>1
    <3>3. Packets(m) \ {d.pkt} \subseteq {Fragment(m, 3 - i)}
      BY <3>1, <3>2
    <3>4. OnlyInSocket({Fragment(m, 3 - i)})'
      BY <2>5, <3>3 DEF OnlyInSocket
    <3>5. HalfRead(m, q)'
      BY <1>2, <3>1, <3>2, <3>4 DEF HalfRead, Piece
    <3> QED
      BY <1>2, <2>0, <2>4, <3>5 DEF Progress
  <2>7. CASE m.form.split = 0
    <3>1. Packets(m) = {Single(Bytes(m))}
      BY <2>7 DEF Packets
    <3>2. OnlyInSocket({})'
      BY <2>5, <3>1 DEF OnlyInSocket
    <3>3. \A i \in {1, 2} : ~(m.form.split > 0)
      BY <2>7
    <3>4. Put(m, AsRead(d.pkt))
      <4>1. InHand(said[Len(sent)], AsRead(d.pkt))
        BY <1>0, <1>3, <2>0, <2>5, ReadInHand DEF Progress, ControlTypeOK, DataInv
      <4> QED
        BY <2>0, <3>3, <4>1 DEF InHand
    <3>5. WholeRead(m, q)'
      BY <1>2, <3>2, <3>4 DEF WholeRead
    <3> QED
      BY <1>2, <2>0, <2>4, <3>5 DEF Progress
  <2> QED
    BY <2>6, <2>7
<1> QED
  BY <1>1, <1>2, <1>3, TidyMove DEF PastSend
-----------------------------------------------------------------------------
(* The collection is opened with one fragment, and the other one is left.   *)
LEMMA OpenTidy ==
    ASSUME IInv, NEW said, DataInv(said), Tidy(said), NEW q \in Queries, OpenCollection(q)
    PROVE  Tidy(said)'
<1> USE DEF socket, server
<1>0. ControlTypeOK
  BY DEF IInv
<1>1. Step(q) /\ pc'[q] \in {"enter", "resolve"} /\ net' = net
  BY <1>0, OpenData
<1>2. pc[q] = "resolve" /\ pkt[q].framed /\ served' = served /\ sent' = sent
  BY DEF OpenCollection
<1>3. ASSUME Progress(said, q) PROVE Progress(said, q)'
  <2>0. PICK m : m = said[Len(sent)]
    OBVIOUS
  <2>1. m \in Messages
    BY <1>0, <1>3, <2>0 DEF Progress, ControlTypeOK, DataInv, Speaks
  <2>2. pkt[q] # Single(Remains(m))
    BY <1>2, <2>1, PutFacts
  <2>3. /\ Len(sent) \in served /\ (WholeRead(m, q) \/ HalfRead(m, q))
        /\ Len(sent) \in DOMAIN sent /\ sent[Len(sent)] = q
    BY <1>2, <1>3, <2>0 DEF Progress, Unanswered, Unread, HalfKept
  <2>4. CASE HalfRead(m, q)
    <3>1. PICK i \in {1, 2} : pkt[q] = Piece(m, i) /\ OnlyInSocket({Fragment(m, 3 - i)})
      BY <2>4 DEF HalfRead
    <3>2. m.form.split > 0
      BY <2>4 DEF HalfRead
    <3>3. pc'[q] = "enter" /\ col'[q] = One(m, i)
      BY <1>0, <2>1, <3>1, <3>2, OpenFacts
    <3>4. OnlyInSocket({Fragment(m, 3 - i)})'
      BY <1>1, <3>1 DEF OnlyInSocket
    <3>5. HalfKept(m, q)'
      BY <3>2, <3>3, <3>4 DEF HalfKept
    <3> QED
      BY <1>2, <2>0, <2>3, <3>5 DEF Progress
  <2>5. CASE WholeRead(m, q)
    <3>1. pkt[q] = AsPacket(Left(m)) /\ OnlyInSocket({})
      BY <2>2, <2>5 DEF WholeRead, Put
    <3>2. pc'[q] = "resolve" /\ pkt'[q] = Single(Remains(m))
      BY <1>0, <2>1, <3>1, OpenFacts
    <3>3. OnlyInSocket({})'
      BY <1>1, <3>1 DEF OnlyInSocket
    <3>4. WholeRead(m, q)'
      BY <3>2, <3>3 DEF WholeRead, Put
    <3> QED
      BY <1>2, <2>0, <2>3, <3>4 DEF Progress
  <2> QED
    BY <2>3, <2>4, <2>5
<1> QED
  BY <1>1, <1>2, <1>3, TidyMove DEF PastSend

(* The other fragment completes it.                                         *)
LEMMA FragmentTidy ==
    ASSUME IInv, NEW said, DataInv(said), Tidy(said), NEW q \in Queries,
           NEW d \in net, ReceiveFragment(q, d)
    PROVE  Tidy(said)'
<1> USE DEF wire, server
<1>0. ControlTypeOK
  BY DEF IInv
<1>1. /\ pc[q] = "read" /\ d.src = "target" /\ served' = served /\ sent' = sent /\ col[q] # Idle
      /\ Take(d)
  BY DEF ReceiveFragment, Readable, Collecting
<1>2. Step(q)
  BY <1>0, FragmentData
<1>3. CASE pc'[q] = "returned" /\ outcome'[q].code \in {"packet_header", "multi_packet"}
  <2>1. ~Clean'
    BY <1>3 DEF Clean
  <2> QED
    BY <2>1 DEF Tidy
<1>4. ASSUME pc'[q] = "resolve",
             \A n \in Heard, i \in {1, 2} :
                said[n].form.split > 0 /\ col[q] = One(said[n], i) =>
                   d.pkt = Fragment(said[n], 3 - i) /\ pkt'[q] = AsPacket(Left(said[n]))
      PROVE  Tidy(said)'
  <2>1. ASSUME Clean, Clean', Progress(said, q) PROVE Progress(said, q)'
    <3>0. PICK m : m = said[Len(sent)]
      OBVIOUS
    <3>1. net' = net \ {d}
      BY <1>0, <1>1, <1>2, <2>1, CleanBack, TakeNet
    <3>2. /\ Len(sent) \in served /\ HalfKept(m, q)
          /\ Len(sent) \in DOMAIN sent /\ sent[Len(sent)] = q
      BY <1>1, <2>1, <3>0 DEF Progress, Unanswered, Unread, WholeRead, HalfRead
    <3>3. PICK i \in {1, 2} : col[q] = One(m, i) /\ OnlyInSocket({Fragment(m, 3 - i)})
      BY <3>2 DEF HalfKept
    <3>4. d.pkt = Fragment(m, 3 - i) /\ pkt'[q] = AsPacket(Left(m))
      <4>1. m.form.split > 0 /\ Len(sent) \in Heard
        BY <3>2 DEF HalfKept, Heard
      <4> QED
        BY <1>4, <3>0, <3>3, <4>1
    <3>5. OnlyInSocket({Fragment(m, 3 - i)} \ {d.pkt})'
      BY <1>1, <3>1, <3>3, TakeRest
    <3>6. OnlyInSocket({})'
      BY <3>4, <3>5 DEF OnlyInSocket
    <3>7. WholeRead(m, q)'
      BY <1>4, <3>4, <3>6 DEF WholeRead, Put
    <3> QED
      BY <1>1, <3>0, <3>2, <3>7 DEF Progress
  <2> QED
    BY <1>1, <1>2, <1>4, <2>1, TidyMove DEF PastSend
<1> QED
  BY <1>0, <1>3, <1>4, FragmentData

(* A packet that is classified is the whole reply, the last of it.          *)
LEMMA UnsplitLast ==
    ASSUME ControlTypeOK, NEW said, DataInv(said), NEW q \in Queries, Unsplit(q), Progress(said, q)
    PROVE  /\ Len(sent) \in served /\ OnlyInSocket({})
           /\ Len(sent) \in DOMAIN sent /\ sent[Len(sent)] = q
           /\ pkt[q].payload[1].of.re = Len(sent)
<1>1. PICK m : m = said[Len(sent)]
  OBVIOUS
<1>2. pc[q] = "resolve" /\ ~pkt[q].framed
  BY DEF Unsplit
<1>3. m \in Messages /\ m.re = Len(sent)
  BY <1>1 DEF Progress, ControlTypeOK, DataInv, Speaks
<1>4. ~HalfRead(m, q)
  BY <1>2, <1>3, PieceFacts DEF HalfRead
<1>5. /\ Len(sent) \in served /\ WholeRead(m, q) /\ sent[Len(sent)] = q
      /\ Len(sent) \in DOMAIN sent
  BY <1>1, <1>2, <1>4 DEF Progress, Unanswered, Unread, HalfKept
<1>6. pkt[q].payload[1].of = m
  BY <1>2, <1>3, <1>5, UnframedPut, RemainsFacts DEF WholeRead, InHand
<1> QED
  BY <1>3, <1>5, <1>6 DEF WholeRead

(* A challenge, an answer or another reply that ends the exchange.          *)
LEMMA ResolvedTidy ==
    ASSUME IInv, NEW said, DataInv(said), TokenInv, Tidy(said), NEW q \in Queries,
           Challenged(q) \/ Answered(q) \/ RejectPacket(q)
    PROVE  Tidy(said)'
<1> USE DEF socket, server
<1>0. ControlTypeOK
  BY DEF IInv
<1>1. Unsplit(q) /\ sent' = sent /\ served' = served
  BY DEF Challenged, Answered, RejectPacket
<1>2. /\ Step(q) /\ net' = net /\ pc'[q] \in {"send", "returned"}
      /\ Returned(q, "ok")' => outcome'[q].answer = pkt[q].payload
  <2>1. CASE Challenged(q)
    BY <2>1, ChallengedData DEF Returned
  <2>2. CASE Answered(q)
    BY <1>0, <2>2, AnsweredData DEF Returned
  <2>3. CASE RejectPacket(q)
    BY <1>0, <2>3, RejectData DEF Returned
  <2> QED
    BY <2>1, <2>2, <2>3
<1>3. ASSUME Progress(said, q)
      PROVE  /\ Len(sent) \in served /\ OnlyInSocket({})'
             /\ Returned(q, "ok")' => OwnReply(q)'
  BY <1>0, <1>1, <1>2, <1>3, UnsplitLast DEF OnlyInSocket, Answers, OwnReply
<1> QED
  BY <1>1, <1>2, <1>3, TidyLeave DEF PastSend, Unsplit

(* Giving up is not an end with a reply.                                    *)
LEMMA GaveUpTidy ==
    ASSUME IInv, NEW said, DataInv(said), NEW q \in Queries,
           SendFails(q) \/ EnterReadFails(q) \/ ReadFails(q)
    PROVE  Tidy(said)'
<1>1. ~Clean'
  BY GaveUpData DEF Clean, IInv
<1> QED
  BY <1>1 DEF Tidy

(* Waiting, and dropping what others sent.                                  *)
LEMMA WaitTidy ==
    ASSUME IInv, NEW said, DataInv(said), Tidy(said), NEW q \in Queries,
           EnterRead(q) \/ \E d \in net : DropForeign(q, d)
    PROVE  Tidy(said)'
<1> USE DEF local, wire, socket, server
<1>0. ControlTypeOK
  BY DEF IInv
<1>1. Step(q)
  BY <1>0, SilentData
<1>2. /\ pc[q] \in {"enter", "read"} /\ pc'[q] = "read" /\ UNCHANGED <<col, served, sent>>
      /\ net' \subseteq net
  BY <1>0 DEF EnterRead, DropForeign, Goto, ControlTypeOK
<1>3. \A P : OnlyInSocket(P) => OnlyInSocket(P)'
  BY <1>2, FewerInSocket
<1>4. ASSUME Progress(said, q) PROVE Progress(said, q)'
  <2>0. PICK m : m = said[Len(sent)]
    OBVIOUS
  <2>1. Unanswered(q) => Unanswered(q)'
    BY <1>2, <1>3 DEF Unanswered
  <2>2. Unread(m, q) => Unread(m, q)'
    BY <1>2, <1>3 DEF Unread
  <2>3. HalfKept(m, q) => HalfKept(m, q)'
    BY <1>2, <1>3 DEF HalfKept
  <2>4. ~WholeRead(m, q) /\ ~HalfRead(m, q)
    BY <1>2 DEF WholeRead, HalfRead
  <2> QED
    BY <1>2, <1>4, <2>0, <2>1, <2>2, <2>3, <2>4 DEF Progress
<1> QED
  BY <1>1, <1>2, <1>4, TidyMove DEF PastSend

(* Before the exchange.                                                     *)
LEMMA EntryTidy ==
    ASSUME IInv, NEW said, DataInv(said), Tidy(said), NEW q \in Queries,
           Refused(q) \/ Admitted(q) \/ Lock(q)
    PROVE  Tidy(said)'
<1> USE DEF socket, server
<1>0. ControlTypeOK
  BY DEF IInv
<1>1. Step(q) /\ sent' = sent /\ pc[q] \in {"new", "lock"}
  BY <1>0, SilentData DEF Refused, Admitted, Lock
<1>2. \/ pc'[q] \in {"lock", "send"}
      \/ pc'[q] = "returned" /\ outcome'[q].code = "dial"
  <2>1. CASE Refused(q)
    BY <1>0, <2>1 DEF Refused, Goto, ControlTypeOK
  <2>2. CASE Admitted(q)
    BY <1>0, <2>2 DEF Admitted, Goto, ControlTypeOK
  <2>3. CASE Lock(q)
    BY <1>0, <2>3 DEF Lock, Goto, ControlTypeOK
  <2> QED
    BY <2>1, <2>2, <2>3
<1>3. ~Returned(q, "ok")'
  BY <1>2 DEF Returned
<1> QED
  BY <1>1, <1>2, <1>3, TidyBefore DEF PastSend
-----------------------------------------------------------------------------
(* The whole invariant, about what the server has said.                     *)
Told(said) == DataInv(said) /\ Tidy(said)

FullInv == IInv /\ TokenInv /\ \E said : Told(said)

(* At first only former users of the socket were told anything.             *)
LEMMA InitFull == Init => FullInv
<1> SUFFICES ASSUME Init PROVE FullInv
  OBVIOUS
<1> DEFINE blank(n) == [head |-> "bad", ok |-> FALSE, re |-> n,
                        form |-> [size |-> 1, split |-> 0, nested |-> FALSE]]
           said == [n \in Int |-> IF \E m \in Former : m.re = n
                                    THEN CHOOSE m \in Former : m.re = n ELSE blank(n)]
<1>1. Speaks(said)
  <2>1. \A m \in Former : m \in Messages /\ m.re \in Int
    <3> SUFFICES ASSUME NEW m \in Former PROVE m \in Messages /\ m.re \in Int
      OBVIOUS
    <3>1. m \in [head : Heads, ok : BOOLEAN, re : Int, form : {m.form}] /\ IsForm(m.form)
      BY NoiseAssumption DEF IsMessage
    <3>2. m.form \in Shape
      BY <3>1 DEF IsForm, Shape
    <3> QED
      BY <3>1, <3>2 DEF Messages
  <2>2. ASSUME NEW n \in Int PROVE blank(n) \in Messages /\ blank(n).re = n
    <3>1. PICK f : f = [size |-> 1, split |-> 0, nested |-> FALSE]
      OBVIOUS
    <3>2. f \in Shape /\ IsForm(f)
      BY <3>1 DEF Shape, IsForm
    <3>3. "bad" \in Heads
      BY DEF Heads
    <3>4. PICK b : b = blank(n)
      OBVIOUS
    <3>5. b = [head |-> "bad", ok |-> FALSE, re |-> n, form |-> f]
      BY <3>1, <3>4
    <3>6. b \in Messages /\ b.re = n
      BY <3>2, <3>3, <3>5 DEF Messages
    <3> QED
      BY <3>4, <3>6
  <2>3. ASSUME NEW n \in Int PROVE said[n] \in Messages /\ said[n].re = n
    <3>1. CASE \E m \in Former : m.re = n
      <4>1. said[n] \in Former /\ said[n].re = n
        BY <3>1
      <4> QED
        BY <2>1, <4>1
    <3>2. CASE ~ \E m \in Former : m.re = n
      BY <2>2, <3>2
    <3> QED
      BY <3>1, <3>2
  <2>4. ASSUME NEW m \in Former PROVE said[m.re] = m
    <3>1. m.re \in Int /\ said[m.re] \in Former /\ said[m.re].re = m.re
      BY <2>1, <2>4
    <3> QED
      BY <3>1, NoiseAssumption
  <2>5. said \in [Int -> Messages]
    BY <2>3
  <2> HIDE DEF said
  <2> QED
    BY <2>3, <2>4, <2>5 DEF Speaks
<1> HIDE DEF said
<1>2. ASSUME NEW d \in net, d.src = "target" PROVE IsPacket(said, d.pkt)
  <2>1. ~Connected /\ d \in Noise
    BY <1>2 DEF Init
  <2>2. PICK m \in Former : d.pkt \in Packets(m)
    BY <1>2, <2>1, NoiseAssumption
  <2>3. m.re \in Heard /\ said[m.re] = m
    BY <1>1, <2>1 DEF Heard, Speaks
  <2> QED
    BY <2>2, <2>3 DEF IsPacket
<1>3. \A q \in Queries : Holds(said, q)
  BY DEF Init, Holds, PktData, ColData, OutData, NoOutcome, Codes
<1>4. DataInv(said)
  BY <1>1, <1>2, <1>3 DEF Init, DataInv, NetData
<1>5. Tidy(said)
  BY DEF Init, Tidy, Clean, FreshSocket, OnlyInSocket, PastSend, Returned
<1>6. TokenInv
  <2>1. \A q \in Queries : InitialTokens(Kind[q]) \in Seq(Int)
    BY DEF InitialTokens
  <2>2. <<>> \in Seq(Seq(Int))
    OBVIOUS
  <2> QED
    BY <2>1, <2>2 DEF Init, TokenInv
<1> QED
  BY <1>4, <1>5, <1>6, InitInv DEF FullInv, Told

(* Every step of a query preserves it, for what was said before.            *)
LEMMA QueryTold ==
    ASSUME IInv, TokenInv, NEW said, Told(said), NEW q \in Queries,
           Refused(q) \/ Admitted(q) \/ Lock(q) \/ Running(q) \/ Reading(q)
    PROVE  Told(said)' /\ TokenInv'
<1> USE DEF Told, local, wire, socket, server
<1>0. ControlTypeOK
  BY DEF IInv
<1>1. CASE Refused(q) \/ Admitted(q) \/ Lock(q)
  <2>1. Told(said)'
    BY <1>0, <1>1, SilentData, EntryTidy
  <2>2. UNCHANGED <<tokens, got, sent, carried>>
    BY <1>1 DEF Refused, Admitted, Lock
  <2> QED
    BY <2>1, <2>2 DEF TokenInv
<1>2. CASE SendRequest(q)
  BY <1>0, <1>2, SilentData, SendTidy, SendToken
<1>3. CASE SendFails(q) \/ EnterReadFails(q) \/ ReadFails(q)
  <2>1. Told(said)'
    BY <1>0, <1>3, GaveUpData, GaveUpTidy
  <2>2. UNCHANGED <<tokens, got, sent, carried>>
    BY <1>3 DEF SendFails, EnterReadFails, ReadFails
  <2> QED
    BY <2>1, <2>2 DEF TokenInv
<1>4. CASE EnterRead(q) \/ \E d \in net : DropForeign(q, d)
  <2>1. Told(said)'
    BY <1>0, <1>4, SilentData, WaitTidy
  <2>2. UNCHANGED <<tokens, got, sent, carried>>
    BY <1>4 DEF EnterRead, DropForeign
  <2> QED
    BY <2>1, <2>2 DEF TokenInv
<1>5. ASSUME NEW d \in net, Receive(q, d) \/ ReceiveFragment(q, d)
      PROVE  Told(said)' /\ TokenInv'
  <2>1. Told(said)'
    BY <1>0, <1>5, ReceiveData, ReceiveTidy, FragmentData, FragmentTidy
  <2>2. UNCHANGED <<tokens, got, sent, carried>>
    BY <1>5 DEF Receive, ReceiveFragment
  <2> QED
    BY <2>1, <2>2 DEF TokenInv
<1>6. CASE OpenCollection(q)
  <2>1. Told(said)'
    BY <1>0, <1>6, OpenData, OpenTidy
  <2>2. UNCHANGED <<tokens, got, sent, carried>>
    BY <1>6 DEF OpenCollection
  <2> QED
    BY <2>1, <2>2 DEF TokenInv
<1>7. CASE Challenged(q)
  BY <1>7, ChallengedData, ResolvedTidy
<1>8. CASE Answered(q) \/ RejectPacket(q)
  <2>1. Told(said)'
    BY <1>0, <1>8, AnsweredData, RejectData, ResolvedTidy
  <2>2. UNCHANGED <<tokens, got, sent, carried>>
    BY <1>8 DEF Answered, RejectPacket
  <2> QED
    BY <2>1, <2>2 DEF TokenInv
<1> QED
  BY <1>1, <1>2, <1>3, <1>4, <1>5, <1>6, <1>7, <1>8 DEF Running, Reading

(* A reply is the only step after which more has been said.                 *)
LEMMA ReplyTold ==
    ASSUME IInv, TokenInv, NEW said, Told(said),
           NEW n \in DOMAIN sent, Serve(n) \/ SendChallenge(n)
    PROVE  (\E now : Told(now)') /\ TokenInv'
<1>1. PICK m : /\ Reply(n, m)
               /\ m \in Replies(n) \/ \E form \in Brief : m = Message("challenge", TRUE, n, form)
  BY DEF Serve, SendChallenge
<1>2. ControlTypeOK
  BY DEF IInv
<1>3. m \in Messages /\ m.re = n
  BY <1>1, <1>2, ReplyMessages
<1>4. DataInv([said EXCEPT ![n] = m])' /\ Tidy([said EXCEPT ![n] = m])'
  BY <1>1, <1>2, <1>3, ReplyData, ReplyTidy DEF Told
<1>5. UNCHANGED <<tokens, got, sent, carried>>
  BY <1>1 DEF Reply, local, wire
<1> QED
  BY <1>4, <1>5 DEF Told, TokenInv

(* The other steps touch none of this.                                      *)
LEMMA QuietTold ==
    ASSUME TokenInv, NEW said, Told(said),
           UNCHANGED <<pc, tokens, pkt, col, got, outcome, sent, carried, net, dups, served>>
    PROVE  Told(said)' /\ TokenInv'
<1>1. DataInv(said)'
  BY DEF Told, DataInv, NetData, Holds, PktData, ColData, OutData, IsPacket, Heard
<1>2. Tidy(said)'
  BY DEF Told, Tidy, Clean, OnlyInSocket, Returned, Answers, OwnReply, Progress, Unanswered, Unread,
         WholeRead, HalfRead, HalfKept
<1> QED
  BY <1>1, <1>2 DEF Told, TokenInv

(* Every step preserves the invariant with what was said.                   *)
LEMMA NextFull == FullInv /\ [Next]_vars => FullInv'
<1> SUFFICES ASSUME FullInv, [Next]_vars PROVE FullInv'
  OBVIOUS
<1>0. IInv /\ TokenInv /\ IInv'
  BY NextInv DEF FullInv
<1>1. PICK said : Told(said)
  BY DEF FullInv
<1>2. SUFFICES (\E now : Told(now)') /\ TokenInv'
  BY <1>0 DEF FullInv
<1>3. ASSUME NEW q \in Queries, Refused(q) \/ Admitted(q) \/ Lock(q) \/ Running(q) \/ Reading(q)
      PROVE  (\E now : Told(now)') /\ TokenInv'
  BY <1>0, <1>1, <1>3, QueryTold
<1>4. ASSUME NEW n \in DOMAIN sent, Serve(n) \/ SendChallenge(n)
      PROVE  (\E now : Told(now)') /\ TokenInv'
  BY <1>0, <1>1, <1>4, ReplyTold
<1>5. CASE \/ OwnerClosesConn \/ Finished \/ UNCHANGED vars
           \/ \E k \in Closers : CloseCalled(k) \/ Close(k)
           \/ \E q \in Queries : Cancel(q)
  <2>1. UNCHANGED <<pc, tokens, pkt, col, got, outcome, sent, carried, net, dups, served>>
    BY <1>5 DEF OwnerClosesConn, Finished, CloseCalled, Close, Cancel, vars, local, wire, socket, server
  <2> QED
    BY <1>0, <1>1, <2>1, QuietTold
<1> QED
  BY <1>3, <1>4, <1>5 DEF Next

(* The invariant with what was said holds in every reachable state.         *)
LEMMA FullInvariance == Spec => []FullInv
BY InitFull, NextFull, PTL DEF Spec
-----------------------------------------------------------------------------
(* Every variable has its type (client.go:21-32, 193-253). In particular a  *)
(* query never ends in a panic of the reassembly.                           *)
THEOREM Typed == Spec => []TypeOK
<1>1. FullInv => TypeOK
  BY DEF FullInv, IInv, TokenInv, Told, DataInv, Holds, OutData, Codes, TypeOK
<1> QED
  BY FullInvariance, <1>1, PTL

(* An answer has the header the query expects and is what the target said   *)
(* to a request of this client or, on a lent socket, to one of a former     *)
(* user of it (client.go:238-276, transport.go:60-81,                       *)
(* scanner/client.go:178-180).                                              *)
THEOREM FromTarget == Spec => []AnswerFromTarget
<1>1. ASSUME FullInv, NEW q \in Queries, Returned(q, "ok")
      PROVE  /\ Answers(q).head = Kind[q]
             /\ Answers(q).re \in served \/ (~Connected /\ Answers(q) \in Former)
  <2>1. PICK said : DataInv(said)
    BY <1>1 DEF FullInv, Told
  <2>2. PICK n \in Heard : outcome[q].answer = Remains(said[n]) /\ said[n].head = Kind[q]
    BY <1>1, <2>1 DEF DataInv, Holds, OutData, Returned
  <2>3. said[n] \in Messages /\ said[n].re = n /\ \A m \in Former : said[m.re] = m
    BY <1>1, <2>1, HeardFacts DEF FullInv, IInv, DataInv, Speaks
  <2>4. Answers(q) = said[n]
    BY <2>2, <2>3, RemainsFacts DEF Answers
  <2>5. n \in served \/ (~Connected /\ said[n] \in Former)
    BY <2>3 DEF Heard
  <2> QED
    BY <2>2, <2>3, <2>4, <2>5
<1>2. FullInv => AnswerFromTarget
  BY <1>1 DEF AnswerFromTarget
<1> QED
  BY FullInvariance, <1>2, PTL

(* An answer is what reading left of one response, whatever fragments of    *)
(* others are in the socket; it is that whole response, which parses, when  *)
(* its datagrams fit maxPacketSize (client.go:242-248,                      *)
(* multipacket.go:104-115, transport.go:38, 71-77).                         *)
THEOREM OneResponse == Spec => []AnswerOfOneResponse
<1>1. ASSUME FullInv, NEW q \in Queries, Returned(q, "ok")
      PROVE  LET m == Answers(q) IN
             /\ outcome[q].answer = Remains(m)
             /\ Fits(m) => Whole(outcome[q].answer) /\ m.ok
  <2>1. PICK said : DataInv(said)
    BY <1>1 DEF FullInv, Told
  <2>2. PICK n \in Heard : /\ outcome[q].answer = Remains(said[n])
                           /\ Fits(said[n]) => said[n].ok
    BY <1>1, <2>1 DEF DataInv, Holds, OutData, Returned
  <2>3. PICK m : m = said[n]
    OBVIOUS
  <2>4. m \in Messages
    BY <1>1, <2>1, <2>3, HeardFacts DEF FullInv, IInv, DataInv, Speaks
  <2>5. Answers(q) = m
    BY <2>2, <2>3, <2>4, RemainsFacts DEF Answers
  <2>6. Fits(m) => Whole(Remains(m))
    BY <2>4, FitsWhole
  <2> QED
    BY <2>2, <2>3, <2>5, <2>6
<1>2. FullInv => AnswerOfOneResponse
  BY <1>1 DEF AnswerOfOneResponse
<1> QED
  BY FullInvariance, <1>2, PTL

(* On a fresh socket, after exchanges that each ended with a reply, without *)
(* duplicates, the answer is to a request of the very query                 *)
(* (client.go:193-253).                                                     *)
THEOREM OwnAnswers == Spec => []OwnAnswer
<1>1. ASSUME FullInv, NEW q \in Queries, Returned(q, "ok"), FreshSocket, Undisturbed(q)
      PROVE  Answers(q).re \in DOMAIN sent /\ sent[Answers(q).re] = q
  <2>1. PICK said : Tidy(said)
    BY <1>1 DEF FullInv, Told
  <2>2. Clean
    BY <1>1 DEF Clean, Undisturbed, Returned
  <2> QED
    BY <1>1, <2>1, <2>2 DEF Tidy, OwnReply
<1>2. FullInv => OwnAnswer
  BY <1>1 DEF OwnAnswer
<1> QED
  BY FullInvariance, <1>2, PTL

(* A retried request carries the token of the last challenge the query      *)
(* read, once, and a first request none (client.go:223-231,                 *)
(* packet.go:155-176).                                                      *)
THEOREM RetriesCarryToken == Spec => RetryCarriesToken
<1> DEFINE Carries ==
              sent' # sent =>
                 LET q == Last(sent') IN
                 Last(carried') = IF got[q] = 0 THEN InitialTokens(Kind[q]) ELSE <<got[q]>>
<1>1. ASSUME FullInv, [Next]_vars PROVE Carries
  <2> SUFFICES ASSUME sent' # sent
               PROVE  Last(carried') = IF got[Last(sent')] = 0 THEN InitialTokens(Kind[Last(sent')])
                                       ELSE <<got[Last(sent')]>>
    OBVIOUS
  <2>1. PICK q \in Queries : SendRequest(q)
    <3> USE DEF socket, server, wire, local
    <3>1. ASSUME NEW q \in Queries, Running(q) \/ Reading(q) PROVE \E p \in Queries : SendRequest(p)
      BY <1>1, <3>1, ExchangeKinds DEF FullInv, Moves, Ends
    <3> QED
      BY <1>1, <3>1 DEF Next, Refused, Admitted, Lock, Cancel, CloseCalled, Close, OwnerClosesConn,
                        Serve, SendChallenge, Reply, Finished, vars
  <2>2. Last(sent') = q /\ Last(carried') = tokens[q]
    BY <1>1, <2>1, SendToken DEF FullInv, IInv
  <2> QED
    BY <1>1, <2>2 DEF FullInv, TokenInv
<1>2. FullInv /\ [Next]_vars => [Carries]_vars
  BY <1>1
<1> QED
  BY FullInvariance, <1>2, PTL DEF Spec, RetryCarriesToken
-----------------------------------------------------------------------------
(* The abstract service itself, whatever implements it: at most one call is *)
(* served at a time, and its requests are contiguous.                       *)
VARIABLES phase, log, shut

Abstract == INSTANCE QueryService

ServiceTypeOK ==
    /\ phase \in [Queries -> {"idle", "pending", "active", "done"}]
    /\ log \in Seq(Queries)
    /\ shut \in BOOLEAN

OneActive == \A p, q \in Queries : phase[p] = "active" /\ phase[q] = "active" => p = q

(* A call that has sent is being served or was; the one being served is the *)
(* last to have sent, from its first request on.                            *)
ActiveSenders == \A n \in DOMAIN log : phase[log[n]] \in {"active", "done"}

ActiveSuffix ==
    \A q \in Queries : phase[q] = "active" =>
        \A i \in DOMAIN log : log[i] = q => \A n \in i .. Len(log) : log[n] = q

ServiceInv == ServiceTypeOK /\ OneActive /\ ActiveSenders /\ ActiveSuffix /\ Abstract!Contiguous

(* The invariant holds of the initial state. *)
LEMMA ServiceInitInv == Abstract!Init => ServiceInv
<1> SUFFICES ASSUME Abstract!Init PROVE ServiceInv
  OBVIOUS
<1>1. log \in Seq(Queries) /\ DOMAIN log = {}
  BY DEF Abstract!Init
<1>2. ServiceTypeOK /\ OneActive
  BY <1>1 DEF Abstract!Init, ServiceTypeOK, OneActive
<1> QED
  BY <1>1, <1>2 DEF ServiceInv, ActiveSenders, ActiveSuffix, Abstract!Contiguous

(* Transmit appends a request of the active call to the log, which already  *)
(* ends with that call's requests if it has any.                            *)
LEMMA ServiceTransmitInv ==
    ASSUME ServiceInv, NEW q \in Queries, Abstract!Transmit(q)
    PROVE  ServiceInv'
<1> USE DEF ServiceInv, ServiceTypeOK, Abstract!Transmit
<1>1. /\ log' \in Seq(Queries) /\ Len(log') = Len(log) + 1
      /\ DOMAIN log = 1 .. Len(log) /\ DOMAIN log' = 1 .. Len(log) + 1
      /\ log'[Len(log) + 1] = q
      /\ \A n \in 1 .. Len(log) : log'[n] = log[n]
      /\ Len(log) \in Nat
  OBVIOUS
<1>2. ServiceTypeOK' /\ OneActive'
  BY <1>1 DEF OneActive
<1>3. ActiveSenders'
  BY <1>1 DEF ActiveSenders
<1>4. ActiveSuffix'
  <2> SUFFICES ASSUME NEW p \in Queries, phase[p] = "active",
                      NEW i \in DOMAIN log', log'[i] = p, NEW n \in i .. Len(log')
               PROVE  log'[n] = p
    BY DEF ActiveSuffix
  <2>1. p = q
    BY DEF OneActive
  <2> QED
    BY <1>1, <2>1 DEF ActiveSuffix
<1>5. Abstract!Contiguous'
  <2> SUFFICES ASSUME NEW i \in DOMAIN log', NEW j \in DOMAIN log', NEW n \in i .. j,
                      log'[i] = log'[j]
               PROVE  log'[n] = log'[i]
    BY DEF Abstract!Contiguous
  <2>1. CASE j \in 1 .. Len(log)
    BY <1>1, <2>1 DEF Abstract!Contiguous
  <2>2. CASE j = Len(log) + 1
    BY <1>1, <2>2 DEF ActiveSuffix
  <2> QED
    BY <1>1, <2>1, <2>2
<1> QED
  BY <1>2, <1>3, <1>4, <1>5

(* The other steps leave the log alone; only Start makes a call active, and *)
(* only when none is.                                                       *)
LEMMA ServicePhaseInv ==
    ASSUME ServiceInv, NEW q \in Queries,
           Abstract!Call(q) \/ Abstract!Refuse(q) \/ Abstract!Start(q) \/ Abstract!Return(q)
    PROVE  ServiceInv'
<1> USE DEF ServiceInv, ServiceTypeOK, Abstract!Move
<1>1. log' = log /\ ServiceTypeOK'
  BY DEF Abstract!Call, Abstract!Refuse, Abstract!Start, Abstract!Return
<1>2. OneActive'
  BY DEF OneActive, Abstract!Call, Abstract!Refuse, Abstract!Start, Abstract!Return, Abstract!NoneActive
<1>3. ActiveSenders'
  BY <1>1 DEF ActiveSenders, Abstract!Call, Abstract!Refuse, Abstract!Start, Abstract!Return
<1>4. ActiveSuffix'
  <2>1. CASE Abstract!Start(q)
    <3>1. \A i \in DOMAIN log : log[i] # q
      BY <2>1 DEF ActiveSenders, Abstract!Start
    <3> QED
      BY <1>1, <2>1, <3>1 DEF ActiveSuffix, Abstract!Start, Abstract!NoneActive
  <2>2. CASE Abstract!Call(q) \/ Abstract!Refuse(q) \/ Abstract!Return(q)
    BY <1>1, <2>2 DEF ActiveSuffix, Abstract!Call, Abstract!Refuse, Abstract!Return
  <2> QED
    BY <2>1, <2>2
<1>5. Abstract!Contiguous'
  BY <1>1 DEF Abstract!Contiguous
<1> QED
  BY <1>1, <1>2, <1>3, <1>4, <1>5

(* Every step preserves the invariant. *)
LEMMA ServiceNextInv == ServiceInv /\ [Abstract!Next]_(Abstract!vars) => ServiceInv'
<1> SUFFICES ASSUME ServiceInv, [Abstract!Next]_(Abstract!vars) PROVE ServiceInv'
  OBVIOUS
<1>1. ASSUME NEW q \in Queries, Abstract!Transmit(q) PROVE ServiceInv'
  BY <1>1, ServiceTransmitInv
<1>2. ASSUME NEW q \in Queries,
             Abstract!Call(q) \/ Abstract!Refuse(q) \/ Abstract!Start(q) \/ Abstract!Return(q)
      PROVE  ServiceInv'
  BY <1>2, ServicePhaseInv
<1>3. CASE Abstract!Shut
  BY <1>3 DEF Abstract!Shut, ServiceInv, ServiceTypeOK, OneActive, ActiveSenders,
              ActiveSuffix, Abstract!Contiguous
<1>4. CASE UNCHANGED Abstract!vars
  BY <1>4 DEF Abstract!vars, ServiceInv, ServiceTypeOK, OneActive, ActiveSenders,
              ActiveSuffix, Abstract!Contiguous
<1> QED
  BY <1>1, <1>2, <1>3, <1>4 DEF Abstract!Next

(* In the service, the requests of one call are contiguous.                 *)
THEOREM ServiceContiguous == Abstract!Spec => []Abstract!Contiguous
<1>1. ServiceInv => Abstract!Contiguous
  BY DEF ServiceInv
<1> QED
  BY ServiceInitInv, ServiceNextInv, <1>1, PTL DEF Abstract!Spec
=============================================================================
