-------------------------- MODULE MasterClientProofs --------------------------
(* Proofs about MasterClient for any streams, queries, lists, page and      *)
(* buffer sizes, wrong pages and repetitions: its types, Close, what the    *)
(* reader of a stream sees at its end, the servers it is given, and that a  *)
(* stream on its own is the page stream of PageStream.                      *)
EXTENDS MasterClient, SequenceTheorems, TLAPS

Exchange == {"send", "enter", "read"}

Datagrams == [re : Nat, head : BOOLEAN, entries : Seq(Servers \cup {Zero, Cut})]

(* The mutex is held exactly by the caller that is exchanging.              *)
LockInv == \A p \in Callers : pc[p] \in Exchange <=> mu = p

(* What a stream delivered and has still to deliver: an error is the last   *)
(* of both, and belongs to a last page; between two pages nothing is left   *)
(* to deliver and the last page has not been seen.                          *)
StreamInv(p) ==
    /\ \A i \in DOMAIN results[p] : IsError(results[p][i]) =>
          i = Len(results[p]) /\ page[p].todo = <<>> /\ page[p].last
    /\ \A i \in DOMAIN page[p].todo : IsError(page[p].todo[i]) =>
          Len(page[p].todo) = 1 /\ page[p].last
    /\ pc[p] \in {"new", "refused", "query", "lock"} \cup Exchange =>
          page[p].todo = <<>> /\ ~page[p].last
    /\ pc[p] = "ended" /\ ~ctxDone[p] => page[p].last /\ page[p].todo = <<>>

IInv ==
    /\ TypeOK
    /\ net \subseteq Datagrams
    /\ LockInv
    /\ CloseCutsNoExchange
    /\ \A p \in Streams : StreamInv(p)
-----------------------------------------------------------------------------
(* The buffer shortens a datagram, and may leave its last address cut. *)
LEMMA AsReadType ==
    ASSUME NEW d \in Datagrams
    PROVE  AsRead(d) \in Datagrams
<1>1. BufferEntries \in Nat
  BY MasterAssumption
<1>2. SubSeq(d.entries, 1, BufferEntries) \in Seq(Servers \cup {Zero, Cut})
      \/ Len(d.entries) <= BufferEntries
  BY <1>1 DEF Datagrams
<1>3. CASE Len(d.entries) <= BufferEntries
  BY <1>3 DEF AsRead
<1>4. CASE ~(Len(d.entries) <= BufferEntries)
  <2>1. (IF BufferRagged THEN <<Cut>> ELSE <<>>) \in Seq(Servers \cup {Zero, Cut})
    <3>1. Cut \in Servers \cup {Zero, Cut}
      OBVIOUS
    <3>2. <<Cut>> \in Seq(Servers \cup {Zero, Cut})
      BY <3>1
    <3>3. <<>> \in Seq(Servers \cup {Zero, Cut})
      OBVIOUS
    <3> QED
      BY <3>2, <3>3
  <2> DEFINE cut == SubSeq(d.entries, 1, BufferEntries)
                       \o IF BufferRagged THEN <<Cut>> ELSE <<>>
  <2>2. cut \in Seq(Servers \cup {Zero, Cut})
    BY <1>2, <1>4, <2>1
  <2>3. AsRead(d) = [d EXCEPT !.entries = cut]
    BY <1>4 DEF AsRead
  <2> HIDE DEF cut
  <2> QED
    BY <2>2, <2>3 DEF Datagrams
<1> QED
  BY <1>3, <1>4

(* DecodeResponse yields servers only: neither the terminator nor an        *)
(* address of which bytes are missing.                                      *)
LEMMA DecodedType ==
    ASSUME NEW d \in Datagrams
    PROVE  LET r == DecodeResponse(d) IN
           /\ r.code \in {"ok", "packet_header", "decode"}
           /\ r.servers \in Seq(Servers)
           /\ r.done \in BOOLEAN
<1> DEFINE e == d.entries
           stops == {i \in DOMAIN e : e[i] \in {Zero, Cut}}
           r == DecodeResponse(d)
<1>1. e \in Seq(Servers \cup {Zero, Cut})
  BY DEF Datagrams
<1>2. CASE ~d.head \/ ~(stops = {} \/ (stops = {Len(e)} /\ Last(e) = Zero))
  <2>1. r = Decoded("packet_header", <<>>, FALSE) \/ r = Decoded("decode", <<>>, FALSE)
    BY <1>2 DEF DecodeResponse
  <2>2. <<>> \in Seq(Servers)
    OBVIOUS
  <2> HIDE DEF r
  <2>3. r.code \in {"packet_header", "decode"} /\ r.servers = <<>> /\ r.done = FALSE
    BY <2>1 DEF Decoded
  <2> QED
    BY <2>2, <2>3 DEF r
<1>3. CASE d.head /\ stops = {}
  <2>1. r = Decoded("ok", e, FALSE)
    BY <1>3 DEF DecodeResponse
  <2>2. \A i \in 1 .. Len(e) : e[i] \in Servers
    BY <1>1, <1>3
  <2>3. e \in Seq(Servers)
    BY <1>1, <2>2
  <2> QED
    BY <2>1, <2>3 DEF Decoded
<1>4. CASE d.head /\ stops # {} /\ stops = {Len(e)} /\ Last(e) = Zero
  <2>1. r = Decoded("ok", Front(e), TRUE)
    BY <1>4 DEF DecodeResponse
  <2>2. Len(e) \in DOMAIN e /\ Len(e) \in Nat
    BY <1>1, <1>4
  <2>3. \A i \in 1 .. Len(e) - 1 : e[i] \in Servers
    <3> TAKE i \in 1 .. Len(e) - 1
    <3>1. i \in DOMAIN e /\ i # Len(e)
      BY <1>1, <2>2
    <3>2. i \notin stops
      BY <1>4, <3>1
    <3> QED
      BY <1>1, <3>1, <3>2
  <2>4. Front(e) = [i \in 1 .. Len(e) - 1 |-> e[i]]
    BY <1>1, <2>2 DEF Front
  <2>5. Front(e) \in Seq(Servers)
    BY <2>2, <2>3, <2>4
  <2> QED
    BY <2>1, <2>5 DEF Decoded
<1> QED
  BY <1>2, <1>3, <1>4

(* A page is made of servers without an error, and its cursor is one.       *)
LEMMA PageOfType ==
    ASSUME NEW c \in Cursors, NEW servers \in Seq(Servers), NEW done \in BOOLEAN
    PROVE  LET pg == PageOf(c, servers, done) IN
           /\ pg \in PageTypes
           /\ \A i \in DOMAIN pg.todo : ~IsError(pg.todo[i])
<1> DEFINE pg == PageOf(c, servers, done)
           todo == [i \in DOMAIN servers |-> Item(servers[i])]
<1>1. \A i \in 1 .. Len(servers) : Item(servers[i]) \in Results /\ ~IsError(Item(servers[i]))
  BY DEF Item, Results, IsError
<1>2. todo \in Seq(Results) /\ \A i \in DOMAIN todo : ~IsError(todo[i])
  BY <1>1
<1>3. Terminal \in Cursors
  BY DEF Terminal, Cursors, States
<1>4. NextCursor(c, servers) \in Cursors
  <2>1. CASE servers = <<>>
    BY <2>1 DEF NextCursor
  <2>2. CASE servers # <<>>
    <3>1. Last(servers) \in Servers
      BY <2>2 DEF Last
    <3> QED
      BY <2>2, <3>1 DEF NextCursor, Cursors, States
  <2> QED
    BY <2>1, <2>2
<1>5. pg.todo = todo /\ pg = [todo |-> todo,
         next |-> IF done THEN Terminal ELSE NextCursor(c, servers), last |-> done]
  BY DEF PageOf
<1> HIDE DEF todo, pg
<1>6. pg \in PageTypes /\ \A i \in DOMAIN pg.todo : ~IsError(pg.todo[i])
  BY <1>2, <1>3, <1>4, <1>5 DEF PageTypes
<1> QED
  BY <1>6 DEF pg

(* What the master server sends is a datagram. *)
LEMMA PagesType ==
    ASSUME TypeOK, NEW n \in DOMAIN sent
    PROVE  Pages(n) \subseteq Datagrams
<1> DEFINE rest == Behind(sent[n].seed, List[sent[n].by])
<1> DEFINE Request == [by : Callers, seed : Servers \cup {Zero}]
<1>1. sent[n].by \in Callers /\ n \in Nat
  <2>1. sent \in Seq(Request)
    BY DEF TypeOK
  <2> HIDE DEF Request
  <2>2. sent[n] \in Request /\ n \in Nat
    BY <2>1
  <2> QED
    BY <2>2 DEF Request
<1>2. List[sent[n].by] \in Seq(Servers)
  BY <1>1, MasterAssumption
<1>3. rest \in Seq(Servers)
  <2> DEFINE list == List[sent[n].by]
             at == CHOOSE i \in DOMAIN list : list[i] = sent[n].seed
  <2>1. CASE sent[n].seed \in Range(list)
    <3>1. at \in DOMAIN list
      BY <2>1 DEF Range
    <3>2. rest = SubSeq(list, at + 1, Len(list))
      BY <2>1 DEF Behind
    <3> HIDE DEF at
    <3> QED
      BY <1>2, <3>1, <3>2
  <2>2. CASE sent[n].seed \notin Range(list)
    BY <1>2, <2>2 DEF Behind
  <2> QED
    BY <2>1, <2>2
<1>4. \A k \in (1 .. PageSize) \cap DOMAIN rest :
         SubSeq(rest, 1, k) \in Seq(Servers \cup {Zero, Cut})
  BY <1>3, MasterAssumption
<1>5. Append(rest, Zero) \in Seq(Servers \cup {Zero, Cut})
  BY <1>3
<1>6. \A f \in Faults : Spoiled(f, n) \in Datagrams
  <2>1. <<>> \in Seq(Servers \cup {Zero, Cut})
    OBVIOUS
  <2>2. <<Cut>> \in Seq(Servers \cup {Zero, Cut})
    OBVIOUS
  <2>3. <<Zero, Zero>> \in Seq(Servers \cup {Zero, Cut})
    OBVIOUS
  <2>4. \A f \in Faults : f \in {"header", "cut", "trailing"}
    BY MasterAssumption
  <2> QED
    BY <1>1, <2>1, <2>2, <2>3, <2>4 DEF Spoiled, Datagram, Datagrams
<1>7. Pages(n) = {Datagram(n, TRUE, SubSeq(rest, 1, k)) : k \in (1 .. PageSize) \cap DOMAIN rest}
         \cup (IF Len(rest) <= PageSize THEN {Datagram(n, TRUE, Append(rest, Zero))} ELSE {})
         \cup {Spoiled(f, n) : f \in Faults}
  BY DEF Pages
<1> HIDE DEF rest
<1>8. Datagram(n, TRUE, Append(rest, Zero)) \in Datagrams
  BY <1>1, <1>5 DEF Datagram, Datagrams
<1>9. \A k \in (1 .. PageSize) \cap DOMAIN rest :
         Datagram(n, TRUE, SubSeq(rest, 1, k)) \in Datagrams
  BY <1>1, <1>4 DEF Datagram, Datagrams
<1> QED
  BY <1>6, <1>7, <1>8, <1>9
-----------------------------------------------------------------------------
PCs == {"new", "refused", "query", "lock", "send", "enter", "read",
        "emit", "parked", "ended"}

(* What a query may return: an error stands alone on a last page.           *)
Returnable(pg) ==
    /\ pg \in PageTypes
    /\ \A i \in DOMAIN pg.todo : IsError(pg.todo[i]) => Len(pg.todo) = 1 /\ pg.last

(* The initial state satisfies the invariant.                               *)
LEMMA InitInv == Init => IInv
<1> SUFFICES ASSUME Init PROVE IInv
  OBVIOUS
<1> USE MasterAssumption DEF Init
<1>1. NoPage \in PageTypes
  <2>1. Start \in Cursors
    BY DEF Start, Cursors, States
  <2> QED
    BY <2>1 DEF NoPage, PageTypes
<1>2. TypeOK
  <2>1. /\ mu \in Callers \cup {None} /\ closed \in BOOLEAN
        /\ cursor \in [Callers -> Cursors]
        /\ pc \in [Callers -> PCs]
        /\ closing \in [Closers -> {"idle", "lock", "returned"}]
    BY DEF PCs
  <2>2. /\ page \in [Callers -> PageTypes]
        /\ ctxDone \in [Callers -> BOOLEAN] /\ left \in [Streams -> BOOLEAN]
    BY <1>1
  <2>3. results \in [Streams -> Seq(Results)]
    <3>1. <<>> \in Seq(Results)
      OBVIOUS
    <3> QED
      BY <3>1
  <2>4. /\ sent \in Seq([by : Callers, seed : Servers \cup {Zero}])
        /\ served \subseteq DOMAIN sent
        /\ blanks \in 0 .. MaxBlanks /\ dups \in 0 .. MaxDups
    OBVIOUS
  <2> QED
    BY <2>1, <2>2, <2>3, <2>4 DEF TypeOK, PCs
<1>3. LockInv
  BY DEF LockInv, Exchange, Callers
<1>4. \A p \in Streams : StreamInv(p)
  BY DEF StreamInv, NoPage, Callers, Exchange
<1> QED
  BY <1>2, <1>3, <1>4 DEF IInv, CloseCutsNoExchange, Callers

(* A step that changes nothing preserves it.                                *)
LEMMA StutterInv == IInv /\ UNCHANGED vars => IInv'
  BY DEF IInv, vars, TypeOK, LockInv, CloseCutsNoExchange, StreamInv

(* The error of a failed query and the end of a terminal cursor.            *)
LEMMA FailReturnable ==
    ASSUME IInv, NEW p \in Callers, NEW e \in Codes
    PROVE  Returnable([todo |-> <<Error(e)>>, next |-> cursor[p], last |-> TRUE])
<1>1. cursor[p] \in Cursors
  BY DEF IInv, TypeOK
<1>2. Error(e) \in Results
  BY DEF Error, Results
<1>3. <<Error(e)>> \in Seq(Results) /\ Len(<<Error(e)>>) = 1
  BY <1>2
<1> QED
  BY <1>1, <1>3 DEF Returnable, PageTypes

(* A query that returns gives up the mutex if it has it, and its stream,    *)
(* which had nothing left to deliver, begins to deliver.                    *)
LEMMA ReturnInv ==
    ASSUME IInv, NEW p \in Callers, NEW pg,
           pc[p] \in {"query"} \cup Exchange, Returnable(pg), Return(p, pg),
           UNCHANGED <<closed, stream, world, sent, server>>,
           net' \subseteq Datagrams, dups' \in 0 .. MaxDups
    PROVE  IInv'
<1> USE DEF stream, world, server
<1>1. pc' = [pc EXCEPT ![p] = IF p \in Streams THEN "emit" ELSE "ended"]
      /\ page' = [page EXCEPT ![p] = pg]
      /\ mu' = IF mu = p THEN None ELSE mu
  BY DEF Return, Goto
<1>2. TypeOK'
  BY <1>1, MasterAssumption DEF IInv, TypeOK, Returnable
<1>3. LockInv'
  BY <1>1, MasterAssumption DEF IInv, TypeOK, LockInv, Exchange
<1>4. CloseCutsNoExchange'
  BY <1>1 DEF IInv, TypeOK, CloseCutsNoExchange
<1>5. \A q \in Streams : StreamInv(q)'
  <2> TAKE q \in Streams
  <2>1. CASE q = p
    <3>1. pc'[q] = "emit" /\ page'[q] = pg /\ results' = results
      BY <1>1, <2>1 DEF IInv, TypeOK
    <3>2. page[q].todo = <<>> /\ ~page[q].last
      BY <2>1 DEF IInv, StreamInv
    <3>3. \A i \in DOMAIN results[q] : ~IsError(results[q][i])
      BY <3>2 DEF IInv, StreamInv
    <3> QED
      BY <3>1, <3>3 DEF StreamInv, Returnable, Exchange
  <2>2. CASE q # p
    <3>1. pc'[q] = pc[q] /\ page'[q] = page[q] /\ results' = results /\ ctxDone' = ctxDone
      BY <1>1, <2>2 DEF IInv, TypeOK, Callers
    <3> QED
      BY <3>1 DEF IInv, StreamInv
  <2> QED
    BY <2>1, <2>2
<1> QED
  BY <1>2, <1>3, <1>4, <1>5 DEF IInv

(* A step of a caller from one place to another in which nothing is         *)
(* returned, delivered or locked.                                           *)
LEMMA MoveInv ==
    ASSUME IInv, NEW p \in Callers, NEW l \in PCs, Goto(p, l),
           pc[p] \in Exchange <=> l \in Exchange,
           l \in {"enter", "read"} => pc[p] \in {"enter", "read"} \/ ~closed,
           p \in Streams /\ l \in {"new", "refused", "query", "lock"} \cup Exchange =>
               pc[p] \in {"new", "refused", "query", "lock"} \cup Exchange,
           l = "ended" => ctxDone[p],
           sent' \in Seq([by : Callers, seed : Servers \cup {Zero}]),
           DOMAIN sent \subseteq DOMAIN sent',
           UNCHANGED <<mu, closed, page, stream, world, net, server, dups>>
    PROVE  IInv'
<1> USE DEF stream, world, server
<1>1. pc' = [pc EXCEPT ![p] = l]
  BY DEF Goto
<1>2. TypeOK'
  BY <1>1 DEF IInv, TypeOK, PCs
<1>3. LockInv'
  BY <1>1 DEF IInv, TypeOK, LockInv
<1>4. CloseCutsNoExchange'
  BY <1>1 DEF IInv, TypeOK, CloseCutsNoExchange
<1>5. \A q \in Streams : StreamInv(q)'
  BY <1>1 DEF IInv, TypeOK, StreamInv, Callers
<1> QED
  BY <1>2, <1>3, <1>4, <1>5 DEF IInv

(* A call that takes, waits for or leaves the mutex.                        *)
LEMMA LockStep ==
    ASSUME IInv, NEW p \in Callers, Lock(p)
    PROVE  IInv'
<1> USE DEF Lock, Goto, stream, world, server
<1>1. TypeOK'
  BY DEF IInv, TypeOK
<1>2. LockInv'
  BY MasterAssumption DEF IInv, TypeOK, LockInv, Exchange
<1>3. CloseCutsNoExchange'
  BY DEF IInv, TypeOK, CloseCutsNoExchange
<1>4. \A q \in Streams : StreamInv(q)'
  BY DEF IInv, TypeOK, StreamInv, Callers, Exchange
<1> QED
  BY <1>1, <1>2, <1>3, <1>4 DEF IInv

(* What is left of a page is one.                                           *)
LEMMA RestOfPage ==
    ASSUME NEW pg \in PageTypes, NEW t \in Seq(Results)
    PROVE  LET rest == [pg EXCEPT !.todo = t] IN
           rest \in PageTypes /\ rest.todo = t /\ rest.last = pg.last
  BY DEF PageTypes

(* A stream that gives its caller the next server.                          *)
LEMMA DeliverStep ==
    ASSUME IInv, NEW p \in Streams, Deliver(p)
    PROVE  IInv'
<1> USE DEF Deliver, Goto, world, server
<1> DEFINE todo == page[p].todo
<1>1. p \in Callers /\ todo \in Seq(Results) /\ results[p] \in Seq(Results) /\ todo # <<>>
  BY DEF IInv, TypeOK, PageTypes, Callers
<1>2. Head(todo) \in Results /\ Tail(todo) \in Seq(Results) /\ Head(todo) = todo[1]
      /\ Len(Tail(todo)) = Len(todo) - 1 /\ Len(todo) \in Nat
      /\ \A i \in DOMAIN Tail(todo) : i + 1 \in DOMAIN todo /\ Tail(todo)[i] = todo[i + 1]
  BY <1>1
<1>3. page' = [page EXCEPT ![p] = [page[p] EXCEPT !.todo = Tail(todo)]]
      /\ results' = [results EXCEPT ![p] = Append(results[p], Head(todo))]
      /\ pc' = [pc EXCEPT ![p] = "emit"]
      /\ UNCHANGED <<mu, closed, cursor, ctxDone>>
  OBVIOUS
<1>4. page'[p].todo = Tail(todo) /\ page'[p].last = page[p].last /\ page'[p] \in PageTypes
      /\ results'[p] = Append(results[p], Head(todo)) /\ pc'[p] = "emit"
  <2>1. page[p] \in PageTypes /\ page \in [Callers -> PageTypes]
    BY <1>1 DEF IInv, TypeOK
  <2>2. page'[p] = [page[p] EXCEPT !.todo = Tail(todo)]
    BY <1>1, <1>3, <2>1
  <2>3. page'[p].todo = Tail(todo) /\ page'[p].last = page[p].last /\ page'[p] \in PageTypes
    BY <1>2, <2>1, <2>2, RestOfPage
  <2>4. results'[p] = Append(results[p], Head(todo)) /\ pc'[p] = "emit"
    BY <1>1, <1>3 DEF IInv, TypeOK
  <2> QED
    BY <2>3, <2>4
<1>5. TypeOK'
  <2>1. results' \in [Streams -> Seq(Results)]
    BY <1>1, <1>2, <1>3 DEF IInv, TypeOK
  <2>2. page' \in [Callers -> PageTypes]
    BY <1>3, <1>4 DEF IInv, TypeOK
  <2> QED
    BY <1>3, <2>1, <2>2 DEF IInv, TypeOK
<1>6. LockInv' /\ CloseCutsNoExchange'
  BY <1>1, <1>3 DEF IInv, TypeOK, LockInv, CloseCutsNoExchange, Exchange
<1>7. StreamInv(p)'
  <2>1. \A i \in DOMAIN results[p] : ~IsError(results[p][i])
    BY <1>1 DEF IInv, StreamInv
  <2>2. \A i \in DOMAIN results'[p] : IsError(results'[p][i]) =>
           i = Len(results'[p]) /\ IsError(todo[1])
    BY <1>1, <1>2, <1>4, <2>1
  <2>3. IsError(todo[1]) => Tail(todo) = <<>> /\ page[p].last
    BY <1>1, <1>2 DEF IInv, StreamInv
  <2>4. \A i \in DOMAIN Tail(todo) : ~IsError(Tail(todo)[i])
    BY <1>1, <1>2 DEF IInv, StreamInv
  <2> QED
    BY <1>4, <2>2, <2>3, <2>4 DEF StreamInv, Exchange
<1>8. \A q \in Streams \ {p} : StreamInv(q)'
  <2> TAKE q \in Streams \ {p}
  <2>1. pc'[q] = pc[q] /\ page'[q] = page[q] /\ results'[q] = results[q] /\ ctxDone' = ctxDone
    BY <1>3 DEF IInv, TypeOK, Callers
  <2> QED
    BY <2>1 DEF IInv, StreamInv
<1> QED
  BY <1>5, <1>6, <1>7, <1>8 DEF IInv

(* A page is turned only when it was not the last; then no error came.      *)
LEMMA TurnStep ==
    ASSUME IInv, NEW p \in Streams, Turn(p)
    PROVE  IInv'
<1> USE DEF Turn, Goto, world, server
<1>1. p \in Callers /\ page[p] \in PageTypes /\ pc[p] = "emit" /\ page[p].todo = <<>>
  BY DEF IInv, TypeOK, Callers
<1>2. TypeOK'
  BY <1>1 DEF IInv, TypeOK, PageTypes
<1>3. LockInv' /\ CloseCutsNoExchange'
  BY <1>1 DEF IInv, TypeOK, LockInv, CloseCutsNoExchange, Exchange
<1>4. StreamInv(p)'
  BY <1>1 DEF IInv, TypeOK, StreamInv, PageTypes, Exchange
<1>5. \A q \in Streams \ {p} : StreamInv(q)'
  <2> TAKE q \in Streams \ {p}
  <2>1. pc'[q] = pc[q] /\ page' = page /\ results' = results /\ ctxDone' = ctxDone
    BY DEF IInv, TypeOK, Callers
  <2> QED
    BY <2>1 DEF IInv, StreamInv
<1> QED
  BY <1>2, <1>3, <1>4, <1>5 DEF IInv

(* A call that reads a datagram.                                            *)
LEMMA ReceiveStep ==
    ASSUME IInv, NEW p \in Callers, NEW d \in net, Receive(p, d)
    PROVE  IInv'
<1> DEFINE r == DecodeResponse(AsRead(d))
<1>1. d \in Datagrams /\ cursor[p] \in Cursors
  BY DEF IInv, TypeOK
<1>2. r.code \in {"ok", "packet_header", "decode"} /\ r.servers \in Seq(Servers)
      /\ r.done \in BOOLEAN
  BY <1>1, AsReadType, DecodedType
<1>3. /\ pc[p] = "read" /\ Take(d)
      /\ IF r.code = "ok" THEN Return(p, PageOf(cursor[p], r.servers, r.done))
                          ELSE Fail(p, r.code)
      /\ UNCHANGED <<closed, stream, world, sent, server>>
  BY DEF Receive
<1> HIDE DEF r
<1>4. net' \subseteq Datagrams /\ dups' \in 0 .. MaxDups
  BY <1>3, MasterAssumption DEF Take, IInv, TypeOK
<1>5. CASE r.code = "ok"
  <2>1. Returnable(PageOf(cursor[p], r.servers, r.done))
    BY <1>1, <1>2, PageOfType DEF Returnable
  <2> QED
    BY <1>3, <1>4, <1>5, <2>1, ReturnInv DEF Exchange
<1>6. CASE r.code # "ok"
  <2>1. r.code \in Codes
    BY <1>2, <1>6 DEF Codes
  <2>2. Returnable([todo |-> <<Error(r.code)>>, next |-> cursor[p], last |-> TRUE])
    BY <2>1, FailReturnable
  <2> QED
    BY <1>3, <1>4, <1>6, <2>2, ReturnInv DEF Exchange, Fail
<1> QED
  BY <1>5, <1>6

(* A failed step of a query is a return with an error. *)
LEMMA FailStep ==
    ASSUME IInv, NEW p \in Callers, NEW e \in Codes, Fail(p, e),
           pc[p] \in {"query"} \cup Exchange,
           UNCHANGED <<closed, stream, world, sent, net, server, dups>>
    PROVE  IInv'
<1>1. Returnable([todo |-> <<Error(e)>>, next |-> cursor[p], last |-> TRUE])
  BY FailReturnable
<1>2. net' \subseteq Datagrams /\ dups' \in 0 .. MaxDups
  BY DEF IInv, TypeOK
<1> QED
  BY <1>1, <1>2, ReturnInv DEF Fail

(* A call from its start to its end.                                        *)
LEMMA RunningStep ==
    ASSUME IInv, NEW p \in Callers, Running(p)
    PROVE  IInv'
<1>1. CASE QueryRefused(p)
  BY <1>1, FailStep DEF QueryRefused, Codes
<1>2. CASE QueryOver(p)
  <2>1. cursor[p] \in Cursors /\ <<>> \in Seq(Results)
    BY DEF IInv, TypeOK
  <2>2. Returnable([todo |-> <<>>, next |-> cursor[p], last |-> TRUE])
    BY <2>1 DEF Returnable, PageTypes
  <2>3. net' \subseteq Datagrams /\ dups' \in 0 .. MaxDups
    BY <1>2 DEF QueryOver, IInv, TypeOK
  <2> QED
    BY <1>2, <2>2, <2>3, ReturnInv DEF QueryOver
<1>3. CASE Admitted(p)
  BY <1>3, MoveInv DEF Admitted, IInv, TypeOK, PCs, Exchange
<1>4. CASE SendRequest(p)
  <2>1. SeedAddr(cursor[p]) \in Servers \cup {Zero}
    BY DEF IInv, TypeOK, SeedAddr, Cursors
  <2>2. sent' \in Seq([by : Callers, seed : Servers \cup {Zero}])
        /\ DOMAIN sent \subseteq DOMAIN sent'
    BY <1>4, <2>1 DEF SendRequest, IInv, TypeOK
  <2> QED
    BY <1>4, <2>2, MoveInv DEF SendRequest, PCs, Exchange
<1>5. CASE SendFails(p)
  BY <1>5, FailStep DEF SendFails, Codes, Exchange
<1>6. CASE EnterRead(p)
  BY <1>6, MoveInv DEF EnterRead, IInv, TypeOK, PCs, Exchange
<1>7. CASE EnterReadFails(p)
  BY <1>7, FailStep DEF EnterReadFails, Codes, Exchange
<1>8. CASE ReadFails(p)
  BY <1>8, FailStep DEF ReadFails, Codes, Exchange
<1> QED
  BY <1>1, <1>2, <1>3, <1>4, <1>5, <1>6, <1>7, <1>8 DEF Running

(* A stream between two pages.                                              *)
LEMMA StreamingStep ==
    ASSUME IInv, NEW p \in Streams, Streaming(p)
    PROVE  IInv'
<1>1. p \in Callers
  BY DEF Callers
<1>2. CASE Deliver(p)
  BY <1>2, DeliverStep
<1>3. CASE Park(p)
  BY <1>1, <1>3, MoveInv DEF Park, IInv, TypeOK, PCs, Exchange
<1>4. CASE Cancelled(p)
  BY <1>1, <1>4, MoveInv DEF Cancelled, IInv, TypeOK, PCs, Exchange
<1>5. CASE Turn(p)
  BY <1>5, TurnStep
<1> QED
  BY <1>2, <1>3, <1>4, <1>5 DEF Streaming

(* Close marks the client when nobody holds the mutex, so nobody is in an   *)
(* exchange.                                                                *)
LEMMA CloseStep ==
    ASSUME IInv, NEW k \in Closers, CloseCalled(k) \/ Close(k)
    PROVE  IInv'
<1> USE DEF CloseCalled, Close, stream, server
<1>1. TypeOK'
  BY DEF IInv, TypeOK
<1>2. LockInv' /\ \A p \in Streams : StreamInv(p)'
  BY DEF IInv, LockInv, StreamInv
<1>3. CloseCutsNoExchange'
  <2>1. CASE CloseCalled(k)
    BY <2>1 DEF IInv, CloseCutsNoExchange
  <2>2. CASE Close(k)
    BY <2>2, MasterAssumption DEF IInv, LockInv, CloseCutsNoExchange, Exchange
  <2> QED
    BY <2>1, <2>2
<1> QED
  BY <1>1, <1>2, <1>3 DEF IInv, CloseCalled, Close

(* A context that ends, a caller that leaves, the server's answers.         *)
LEMMA WorldStep ==
    ASSUME IInv,
           \/ \E p \in Callers : Cancel(p)
           \/ \E p \in Streams : Leave(p)
           \/ \E n \in DOMAIN sent : Serve(n) \/ ServeBlank(n)
    PROVE  IInv'
<1> USE DEF stream, world, server
<1>1. CASE \E p \in Callers : Cancel(p)
  BY <1>1 DEF Cancel, IInv, TypeOK, LockInv, CloseCutsNoExchange, StreamInv
<1>2. CASE \E p \in Streams : Leave(p)
  BY <1>2 DEF Leave, IInv, TypeOK, LockInv, CloseCutsNoExchange, StreamInv
<1>3. CASE \E n \in DOMAIN sent : Serve(n) \/ ServeBlank(n)
  <2>1. PICK n \in DOMAIN sent : Serve(n) \/ ServeBlank(n)
    BY <1>3
  <2>2. n \in Nat /\ <<>> \in Seq(Servers \cup {Zero, Cut})
    BY DEF IInv, TypeOK
  <2>3. \E d \in Datagrams : Reply(n, d)
    BY <2>1, <2>2, PagesType DEF Serve, ServeBlank, Datagram, Datagrams, IInv
  <2>4. blanks' \in 0 .. MaxBlanks
    <3>1. blanks \in 0 .. MaxBlanks /\ MaxBlanks \in Nat
      BY MasterAssumption DEF IInv, TypeOK
    <3>2. blanks' = blanks \/ (blanks < MaxBlanks /\ blanks' = blanks + 1)
      BY <2>1 DEF Serve, ServeBlank
    <3> QED
      BY <3>1, <3>2
  <2>5. PICK d \in Datagrams : Reply(n, d)
    BY <2>3
  <2>6. TypeOK'
    <3>1. UNCHANGED <<pc, mu, closed, cursor, page, results, ctxDone, left, closing, sent, dups>>
      BY <2>5 DEF Reply
    <3>2. served' \subseteq DOMAIN sent'
      <4>1. served' = served \cup {n} /\ sent' = sent /\ served \subseteq DOMAIN sent
        BY <2>5 DEF Reply, IInv, TypeOK
      <4> QED
        BY <4>1
    <3> QED
      BY <2>4, <3>1, <3>2 DEF IInv, TypeOK
  <2>7. net' \subseteq Datagrams
    BY <2>5 DEF Reply, IInv
  <2>8. LockInv' /\ CloseCutsNoExchange' /\ \A p \in Streams : StreamInv(p)'
    BY <2>5 DEF Reply, IInv, LockInv, CloseCutsNoExchange, StreamInv
  <2> QED
    BY <2>6, <2>7, <2>8 DEF IInv
<1> QED
  BY <1>1, <1>2, <1>3

(* Every step preserves the invariant.                                      *)
LEMMA NextInv == IInv /\ [Next]_vars => IInv'
<1> SUFFICES ASSUME IInv, [Next]_vars PROVE IInv'
  OBVIOUS
<1>1. CASE \E p \in Callers : Refused(p) \/ Called(p)
  BY <1>1, MoveInv DEF Refused, Called, IInv, TypeOK, PCs, Exchange
<1>2. CASE \E p \in Callers : Lock(p)
  BY <1>2, LockStep
<1>3. CASE \E p \in Callers : Running(p)
  BY <1>3, RunningStep
<1>4. CASE \E p \in Callers : Streaming(p)
  BY <1>4, StreamingStep DEF Streaming
<1>5. CASE \E p \in Callers : \E d \in net : Receive(p, d)
  BY <1>5, ReceiveStep
<1>6. CASE \E k \in Closers : CloseCalled(k) \/ Close(k)
  BY <1>6, CloseStep
<1>7. CASE \/ \E p \in Callers : Cancel(p)
           \/ \E p \in Streams : Leave(p)
           \/ \E n \in DOMAIN sent : Serve(n) \/ ServeBlank(n)
  BY <1>7, WorldStep
<1>8. CASE Finished \/ UNCHANGED vars
  BY <1>8, StutterInv DEF Finished
<1> QED
  BY <1>1, <1>2, <1>3, <1>4, <1>5, <1>6, <1>7, <1>8 DEF Next
-----------------------------------------------------------------------------
(* The invariant holds in every reachable state.                            *)
THEOREM Invariance == Spec => []IInv
<1> QED
  BY InitInv, NextInv, PTL DEF Spec

(* Every variable keeps its type; in particular, a stream never delivers    *)
(* the terminator nor an address cut short, whatever the master server      *)
(* sends and however small the buffer (masterprotocol/protocol.go:45-83).   *)
THEOREM MasterTyped == Spec => []TypeOK
<1>1. IInv => TypeOK
  BY DEF IInv
<1> QED
  BY <1>1, Invariance, PTL

(* Close waits for the exchange in progress, for any number of streams,     *)
(* queries and Close calls (master/client.go:73-107, 152-171).              *)
THEOREM MasterCloseWaits == Spec => []CloseCutsNoExchange
<1>1. IInv => CloseCutsNoExchange
  BY DEF IInv
<1> QED
  BY <1>1, Invariance, PTL

(* An error is the last result of a stream, and a stream whose context has  *)
(* not ended closes its channel only behind the error or the last page,     *)
(* also when pages are late, repeated, mixed up or wrong                    *)
(* (master/client.go:121-147).                                              *)
THEOREM StreamsEndForAReason == Spec => []EndsForAReason
<1>1. IInv => EndsForAReason
  BY DEF IInv, StreamInv, EndsForAReason
<1> QED
  BY <1>1, Invariance, PTL
-----------------------------------------------------------------------------
Suffix(s, k) == SubSeq(s, k + 1, Len(s))

(* What is left of a sequence behind its first k elements. *)
LEMMA SuffixFacts ==
    ASSUME NEW S, NEW s \in Seq(S), NEW k \in 0 .. Len(s)
    PROVE  /\ Suffix(s, k) \in Seq(S)
           /\ Len(Suffix(s, k)) = Len(s) - k
           /\ \A i \in 1 .. Len(s) - k : Suffix(s, k)[i] = s[k + i]
<1>1. /\ k + 1 \in 1 .. Len(s) + 1 /\ Len(s) \in Nat
      /\ Suffix(s, k) = SubSeq(s, k + 1, Len(s))
  BY DEF Suffix
<1>2. CASE k = Len(s)
  <2>1. Suffix(s, k) = <<>>
    BY <1>1, <1>2, SubSeqEmpty
  <2> QED
    BY <1>2, <2>1
<1>3. CASE k < Len(s)
  <2>1. k + 1 \in 1 .. Len(s) /\ Len(s) \in 1 .. Len(s)
    BY <1>1, <1>3
  <2>2. /\ Suffix(s, k) \in Seq(S)
        /\ Len(Suffix(s, k)) = Len(s) - (k + 1) + 1
        /\ \A i \in 1 .. Len(s) - (k + 1) + 1 : Suffix(s, k)[i] = s[(k + 1) + i - 1]
    BY <1>1, <2>1
  <2> QED
    BY <1>1, <2>2
<1> QED
  BY <1>2, <1>3

(* What is left of what is left. *)
LEMMA SuffixOfSuffix ==
    ASSUME NEW S, NEW s \in Seq(S), NEW j \in 0 .. Len(s), NEW k \in 0 .. Len(s) - j
    PROVE  Suffix(Suffix(s, j), k) = Suffix(s, j + k)
<1> DEFINE t == Suffix(s, j)
           u == Suffix(t, k)
           v == Suffix(s, j + k)
<1>1. t \in Seq(S) /\ Len(t) = Len(s) - j /\ \A i \in 1 .. Len(s) - j : t[i] = s[j + i]
  BY SuffixFacts
<1>2. j + k \in 0 .. Len(s) /\ k \in 0 .. Len(t)
  BY <1>1
<1>3. v \in Seq(S) /\ Len(v) = Len(s) - (j + k)
      /\ \A i \in 1 .. Len(s) - (j + k) : v[i] = s[(j + k) + i]
  BY <1>2, SuffixFacts
<1> HIDE DEF t, v
<1>4. u \in Seq(S) /\ Len(u) = Len(t) - k /\ \A i \in 1 .. Len(t) - k : u[i] = t[k + i]
  BY <1>1, <1>2, SuffixFacts
<1> HIDE DEF u
<1>5. Len(u) = Len(v) /\ Len(u) \in Nat
  BY <1>1, <1>3, <1>4
<1>6. \A i \in 1 .. Len(u) : u[i] = v[i]
  <2> TAKE i \in 1 .. Len(u)
  <2>1. i \in 1 .. Len(t) - k /\ k + i \in 1 .. Len(s) - j /\ i \in 1 .. Len(s) - (j + k)
    BY <1>1, <1>4
  <2>2. u[i] = t[k + i] /\ t[k + i] = s[j + (k + i)] /\ v[i] = s[(j + k) + i]
    BY <1>1, <1>3, <1>4, <2>1
  <2>3. j + (k + i) = (j + k) + i
    BY <2>1
  <2> QED
    BY <2>2, <2>3
<1>7. u = v
  <2>1. u \in Seq(S) /\ v \in Seq(S)
    BY <1>3, <1>4
  <2> QED
    BY <1>5, <1>6, <2>1, SeqEqual
<1> QED
  BY <1>7 DEF t, u, v

(* What is behind a seed is the list, or the part of it behind the seed.    *)
LEMMA BehindSuffix ==
    ASSUME NEW p \in Callers, NEW seed
    PROVE  \E m \in 0 .. Len(List[p]) : Behind(seed, List[p]) = Suffix(List[p], m)
<1> DEFINE list == List[p]
<1>1. list \in Seq(Servers)
  BY MasterAssumption
<1> HIDE DEF list
<1>2. CASE seed \in Range(list)
  <2>1. PICK at : at = CHOOSE i \in DOMAIN list : list[i] = seed
    OBVIOUS
  <2>2. \E i \in DOMAIN list : list[i] = seed
    BY <1>2 DEF Range
  <2>3. at \in 1 .. Len(list)
    BY <1>1, <2>1, <2>2
  <2>4. Behind(seed, list) = Suffix(list, at)
    BY <1>2, <2>1 DEF Behind, Suffix
  <2> QED
    BY <1>1, <2>3, <2>4 DEF list
<1>3. CASE seed \notin Range(list)
  <2>1. Suffix(list, 0) = list
    BY <1>1, SubSeqFull DEF Suffix
  <2>2. Behind(seed, list) = list
    BY <1>3 DEF Behind
  <2> QED
    BY <1>1, <2>1, <2>2 DEF list
<1> QED
  BY <1>2, <1>3

(* Behind a server of the list is what follows it, for it is in it once.    *)
LEMMA BehindOwn ==
    ASSUME NEW p \in Callers, NEW i \in 1 .. Len(List[p])
    PROVE  Behind(List[p][i], List[p]) = Suffix(List[p], i)
<1> DEFINE list == List[p]
<1>1. /\ list \in Seq(Servers) /\ i \in DOMAIN list
      /\ \A j \in DOMAIN list : list[j] = list[i] => j = i
  BY MasterAssumption, ListAssumption
<1> HIDE DEF list
<1>2. list[i] \in Range(list)
  BY <1>1 DEF Range
<1>3. (CHOOSE j \in DOMAIN list : list[j] = list[i]) = i
  BY <1>1
<1>4. Behind(list[i], list) = Suffix(list, i)
  BY <1>2, <1>3 DEF Behind, Suffix
<1> QED
  BY <1>4 DEF list

(* What a cursor has ahead is a last part of the list. *)
LEMMA AheadSuffix ==
    ASSUME NEW p \in Callers, NEW c \in Cursors
    PROVE  /\ \E m \in 0 .. Len(List[p]) : Ahead(c, p) = Suffix(List[p], m)
           /\ Ahead(c, p) \in Seq(Servers)
<1>1. List[p] \in Seq(Servers)
  BY MasterAssumption
<1>2. \E m \in 0 .. Len(List[p]) : Ahead(c, p) = Suffix(List[p], m)
  <2>1. CASE c.state = "terminal"
    <3>1. Ahead(c, p) = Suffix(List[p], Len(List[p]))
      <4>1. Len(List[p]) \in Nat /\ Ahead(c, p) = <<>>
        BY <1>1, <2>1 DEF Ahead
      <4>2. SubSeq(List[p], Len(List[p]) + 1, Len(List[p])) = <<>>
        BY <1>1, <4>1
      <4> QED
        BY <4>1, <4>2 DEF Suffix
    <3> QED
      BY <1>1, <3>1
  <2>2. CASE c.state # "terminal"
    BY <2>2, BehindSuffix DEF Ahead
  <2> QED
    BY <2>1, <2>2
<1> QED
  BY <1>1, <1>2, SuffixFacts

(* A cursor at a server that is ahead has ahead what follows it.            *)
LEMMA AheadTurn ==
    ASSUME NEW p \in Callers, NEW E \in Seq(Servers), NEW m \in 0 .. Len(List[p]),
           E = Suffix(List[p], m), NEW k \in 0 .. Len(E), NEW i \in 1 .. Len(E) - k
    PROVE  Ahead([state |-> "normal", addr |-> Suffix(E, k)[i]], p) = Suffix(E, k + i)
<1>1. List[p] \in Seq(Servers)
  BY MasterAssumption
<1>2. Len(E) = Len(List[p]) - m /\ \A j \in 1 .. Len(List[p]) - m : E[j] = List[p][m + j]
  BY <1>1, SuffixFacts
<1>3. Suffix(E, k)[i] = E[k + i]
  BY SuffixFacts
<1>4. k + i \in 1 .. Len(List[p]) - m
  BY <1>2
<1>5. E[k + i] = List[p][m + (k + i)] /\ m + (k + i) \in 1 .. Len(List[p])
  BY <1>1, <1>2, <1>4
<1>6. Behind(E[k + i], List[p]) = Suffix(List[p], m + (k + i))
  BY <1>5, BehindOwn
<1>7. Suffix(E, k + i) = Suffix(List[p], m + (k + i))
  BY <1>1, <1>4, SuffixOfSuffix
<1>8. Ahead([state |-> "normal", addr |-> E[k + i]], p) = Behind(E[k + i], List[p])
  BY DEF Ahead, SeedAddr
<1> QED
  BY <1>3, <1>6, <1>7, <1>8

(* Answers of a master server to the request n: a page, right or wrong.     *)
Sendable(n) == Pages(n) \cup {Datagram(n, TRUE, <<>>)}

(* A page that names servers only is decoded as it is. *)
LEMMA DecodedServers ==
    ASSUME NEW d, d.head, d.entries \in Seq(Servers)
    PROVE  DecodeResponse(d) = Decoded("ok", d.entries, FALSE)
<1>1. \A i \in DOMAIN d.entries : d.entries[i] \in Servers
  OBVIOUS
<1>2. {i \in DOMAIN d.entries : d.entries[i] \in {Zero, Cut}} = {}
  BY <1>1, MasterAssumption
<1> QED
  BY <1>2 DEF DecodeResponse

(* The terminator behind the servers is the end of the list. *)
LEMMA DecodedEnd ==
    ASSUME NEW d, NEW rest \in Seq(Servers), d.head, d.entries = Append(rest, Zero)
    PROVE  DecodeResponse(d) = Decoded("ok", rest, TRUE)
<1> DEFINE e == d.entries
           stops == {i \in DOMAIN e : e[i] \in {Zero, Cut}}
<1>1. /\ Len(e) = Len(rest) + 1 /\ Len(rest) \in Nat /\ DOMAIN e = 1 .. Len(rest) + 1
      /\ e[Len(rest) + 1] = Zero /\ \A i \in 1 .. Len(rest) : e[i] = rest[i]
  OBVIOUS
<1>2. e \in Seq(Servers \cup {Zero})
  OBVIOUS
<1> HIDE DEF e
<1>3. \A i \in 1 .. Len(rest) : e[i] \notin {Zero, Cut}
  BY <1>1, MasterAssumption
<1>4. stops = {Len(e)}
  BY <1>1, <1>3
<1>5. Last(e) = Zero
  BY <1>1 DEF Last
<1>6. Front(e) = rest
  <2>1. Front(e) = [i \in 1 .. Len(rest) |-> e[i]]
    <3>1. Front(e) = SubSeq(e, 1, Len(e) - 1)
      BY DEF Front
    <3>2. Len(e) - 1 = Len(rest)
      BY <1>1
    <3> QED
      BY <1>1, <1>2, <3>1, <3>2
  <2>2. rest = [i \in 1 .. Len(rest) |-> rest[i]]
    OBVIOUS
  <2> QED
    BY <1>1, <2>1, <2>2
<1>7. stops # {} /\ ~~d.head
  BY <1>4
<1> HIDE DEF stops
<1>8. DecodeResponse(d) = Decoded("ok", Front(e), TRUE)
  BY <1>4, <1>5, <1>7 DEF DecodeResponse, stops, e
<1> QED
  BY <1>6, <1>8

(* A page that ends inside an address is not decoded. *)
LEMMA DecodedCut ==
    ASSUME NEW d, NEW s \in Seq(Servers \cup {Zero, Cut}), d.head, d.entries = s \o <<Cut>>
    PROVE  DecodeResponse(d).code # "ok"
<1> DEFINE e == d.entries
           stops == {i \in DOMAIN e : e[i] \in {Zero, Cut}}
<1>0. Cut \in Servers \cup {Zero, Cut} /\ <<Cut>> \in Seq(Servers \cup {Zero, Cut})
      /\ Len(<<Cut>>) = 1 /\ <<Cut>>[1] = Cut
  OBVIOUS
<1>1. Len(e) = Len(s) + 1 /\ e[Len(s) + 1] = Cut /\ Len(s) \in Nat
      /\ DOMAIN e = 1 .. Len(s) + 1
  BY <1>0
<1> HIDE DEF e
<1>2. Len(e) \in stops
  BY <1>1
<1>3. Last(e) = Cut /\ Cut # Zero
  BY <1>1, MasterAssumption DEF Last
<1> HIDE DEF stops
<1>4. DecodeResponse(d) = Decoded("decode", <<>>, FALSE)
  BY <1>2, <1>3 DEF DecodeResponse, stops, e
<1> QED
  BY <1>4 DEF Decoded

(* Only a wrong page has no place in the list. *)
Place(r, rest) ==
    \E k \in 0 .. Len(rest) : r.servers = SubSeq(rest, 1, k) /\ (r.done => k = Len(rest))

(* However much of a page of the list fits into the buffer: what is taken   *)
(* from it without an error is the next part of the list, and all of it     *)
(* when the terminator was among it.                                        *)
LEMMA ReadOutcome ==
    ASSUME NEW rest \in Seq(Servers), NEW d \in Datagrams, d.head,
           \/ \E k \in 0 .. Len(rest) : d.entries = SubSeq(rest, 1, k)
           \/ d.entries = Append(rest, Zero),
           DecodeResponse(AsRead(d)).code = "ok"
    PROVE  Place(DecodeResponse(AsRead(d)), rest)
<1> DEFINE e == d.entries
           r == DecodeResponse(AsRead(d))
<1>1. BufferEntries \in Nat /\ Len(rest) \in Nat /\ e \in Seq(Servers \cup {Zero, Cut})
  BY MasterAssumption DEF Datagrams
<1>2. \A k \in 0 .. Len(rest) :
         SubSeq(rest, 1, k) \in Seq(Servers) /\ Len(SubSeq(rest, 1, k)) = k
  OBVIOUS
<1>3. CASE Len(e) <= BufferEntries
  <2>1. AsRead(d) = d
    BY <1>3 DEF AsRead
  <2>2. CASE \E k \in 0 .. Len(rest) : e = SubSeq(rest, 1, k)
    <3>1. PICK k \in 0 .. Len(rest) : e = SubSeq(rest, 1, k)
      BY <2>2
    <3>2. r = Decoded("ok", e, FALSE)
      BY <1>2, <2>1, <3>1, DecodedServers
    <3> QED
      BY <3>1, <3>2 DEF Decoded, Place
  <2>3. CASE e = Append(rest, Zero)
    <3>1. r = Decoded("ok", rest, TRUE)
      BY <2>1, <2>3, DecodedEnd
    <3>2. rest = SubSeq(rest, 1, Len(rest))
      OBVIOUS
    <3>3. r.servers = rest
      BY <3>1 DEF Decoded
    <3>4. Len(rest) \in 0 .. Len(rest)
      BY <1>1
    <3> HIDE DEF r
    <3>5. Place(r, rest)
      BY <3>2, <3>3, <3>4 DEF Place
    <3> QED
      BY <3>5 DEF r
  <2> QED
    BY <2>2, <2>3
<1>4. CASE ~(Len(e) <= BufferEntries)
  <2> DEFINE cut == SubSeq(e, 1, BufferEntries)
  <2>1. BufferEntries <= Len(rest) /\ cut = SubSeq(rest, 1, BufferEntries)
    <3>1. CASE \E k \in 0 .. Len(rest) : e = SubSeq(rest, 1, k)
      <4>1. PICK k \in 0 .. Len(rest) : e = SubSeq(rest, 1, k)
        BY <3>1
      <4>2. Len(e) = k /\ BufferEntries < k
        BY <1>1, <1>2, <1>4, <4>1
      <4> QED
        BY <1>1, <4>1, <4>2
    <3>2. CASE e = Append(rest, Zero)
      <4>1. Len(e) = Len(rest) + 1 /\ \A i \in 1 .. Len(rest) : e[i] = rest[i]
        BY <3>2
      <4>2. BufferEntries <= Len(rest)
        BY <1>1, <1>4, <4>1
      <4> QED
        BY <1>1, <4>1, <4>2
    <3> QED
      BY <3>1, <3>2
  <2>2. BufferEntries \in 0 .. Len(rest) /\ cut \in Seq(Servers)
    BY <1>1, <1>2, <2>1
  <2> HIDE DEF cut
  <2>3. CASE BufferRagged
    <3>1. AsRead(d) = [d EXCEPT !.entries = cut \o <<Cut>>]
      BY <1>4, <2>3 DEF AsRead, cut
    <3>2. AsRead(d).head /\ AsRead(d).entries = cut \o <<Cut>>
      BY <3>1 DEF Datagrams
    <3>3. cut \in Seq(Servers \cup {Zero, Cut})
      BY <2>2
    <3> QED
      BY <3>2, <3>3, DecodedCut
  <2>4. CASE ~BufferRagged
    <3>1. AsRead(d) = [d EXCEPT !.entries = cut \o <<>>]
      BY <1>4, <2>4 DEF AsRead, cut
    <3>2. AsRead(d).head /\ AsRead(d).entries = cut
      BY <2>2, <3>1 DEF Datagrams
    <3>3. r = Decoded("ok", cut, FALSE)
      BY <2>2, <3>2, DecodedServers
    <3> QED
      BY <2>1, <2>2, <3>3 DEF Decoded, Place
  <2> QED
    BY <2>3, <2>4
<1> QED
  BY <1>3, <1>4

(* A page of the wrong form is not decoded. *)
LEMMA SpoiledFails ==
    ASSUME NEW n \in Nat, NEW f \in Faults
    PROVE  DecodeResponse(AsRead(Spoiled(f, n))).code # "ok"
<1>0. PICK d : d = Spoiled(f, n)
  OBVIOUS
<1>1. f \in {"header", "cut", "trailing"} /\ BufferEntries \in Nat /\ BufferEntries >= 2
  BY MasterAssumption, ListAssumption
<1>2. CASE f = "header"
  <2>1. d = Datagram(n, FALSE, <<>>) /\ AsRead(d) = d
    BY <1>0, <1>1, <1>2 DEF Spoiled, AsRead, Datagram
  <2>2. ~d.head
    BY <2>1 DEF Datagram
  <2>3. DecodeResponse(d) = Decoded("packet_header", <<>>, FALSE)
    BY <2>2 DEF DecodeResponse
  <2>4. DecodeResponse(d).code # "ok"
    BY <2>3 DEF Decoded
  <2> QED
    BY <1>0, <2>1, <2>4
<1>3. CASE f = "cut"
  <2>1. d = Datagram(n, TRUE, <<Cut>>) /\ AsRead(d) = d
    BY <1>0, <1>1, <1>3 DEF Spoiled, AsRead, Datagram
  <2>2. d.head /\ d.entries = <<>> \o <<Cut>> /\ <<>> \in Seq(Servers \cup {Zero, Cut})
    BY <2>1 DEF Datagram
  <2> QED
    BY <1>0, <2>1, <2>2, DecodedCut
<1>4. CASE f = "trailing"
  <2>1. d = Datagram(n, TRUE, <<Zero, Zero>>) /\ AsRead(d) = d
    BY <1>0, <1>1, <1>4 DEF Spoiled, AsRead, Datagram
  <2>2. d.head /\ d.entries = <<Zero, Zero>>
    BY <2>1 DEF Datagram
  <2>3. DOMAIN d.entries = {1, 2} /\ d.entries[1] = Zero /\ d.entries[2] = Zero
    BY <2>2
  <2>4. 1 \in {i \in DOMAIN d.entries : d.entries[i] \in {Zero, Cut}} /\ Len(d.entries) = 2
    BY <2>2, <2>3
  <2>5. DecodeResponse(d) = Decoded("decode", <<>>, FALSE)
    <3>1. {i \in DOMAIN d.entries : d.entries[i] \in {Zero, Cut}} # {2}
      BY <2>4
    <3> QED
      BY <2>2, <2>4, <3>1 DEF DecodeResponse
  <2>6. DecodeResponse(d).code # "ok"
    BY <2>5 DEF Decoded
  <2> QED
    BY <1>0, <2>1, <2>6
<1> QED
  BY <1>1, <1>2, <1>3, <1>4

(* What a query takes without an error from an answer to its own request is *)
(* the part of the list that is next.                                       *)
LEMMA PageOutcome ==
    ASSUME TypeOK, NEW n \in DOMAIN sent, NEW d \in Sendable(n),
           DecodeResponse(AsRead(d)).code = "ok"
    PROVE  Place(DecodeResponse(AsRead(d)), Behind(sent[n].seed, List[sent[n].by]))
<1> DEFINE rest == Behind(sent[n].seed, List[sent[n].by])
<1> DEFINE Request == [by : Callers, seed : Servers \cup {Zero}]
<1>1. sent[n].by \in Callers /\ n \in Nat
  <2>1. sent \in Seq(Request)
    BY DEF TypeOK
  <2> HIDE DEF Request
  <2>2. sent[n] \in Request /\ n \in Nat
    BY <2>1
  <2> QED
    BY <2>2 DEF Request
<1>2. rest \in Seq(Servers)
  <2>1. List[sent[n].by] \in Seq(Servers)
    BY <1>1, MasterAssumption
  <2>2. PICK m \in 0 .. Len(List[sent[n].by]) : rest = Suffix(List[sent[n].by], m)
    BY <1>1, BehindSuffix
  <2> HIDE DEF rest
  <2>3. Suffix(List[sent[n].by], m) \in Seq(Servers)
    BY <2>1, SuffixFacts
  <2> QED
    BY <2>2, <2>3
<1>3. <<>> \in Seq(Servers \cup {Zero, Cut})
  OBVIOUS
<1>4. d \in Datagrams
  <2>1. Pages(n) \subseteq Datagrams
    BY PagesType
  <2>2. Datagram(n, TRUE, <<>>) \in Datagrams
    BY <1>1, <1>3 DEF Datagram, Datagrams
  <2> QED
    BY <2>1, <2>2 DEF Sendable
<1>5. d.head /\ (\/ \E k \in 0 .. Len(rest) : d.entries = SubSeq(rest, 1, k)
                 \/ d.entries = Append(rest, Zero))
  <2>1. CASE d = Datagram(n, TRUE, <<>>)
    <3>1. SubSeq(rest, 1, 0) = <<>> /\ 0 \in 0 .. Len(rest)
      BY <1>2
    <3> QED
      BY <2>1, <3>1 DEF Datagram
  <2>2. CASE \E k \in (1 .. PageSize) \cap DOMAIN rest : d = Datagram(n, TRUE, SubSeq(rest, 1, k))
    <3>1. PICK k \in (1 .. PageSize) \cap DOMAIN rest : d = Datagram(n, TRUE, SubSeq(rest, 1, k))
      BY <2>2
    <3>2. k \in 0 .. Len(rest)
      BY <1>2, <3>1
    <3>3. d.head /\ d.entries = SubSeq(rest, 1, k)
      BY <3>1 DEF Datagram
    <3> QED
      BY <3>2, <3>3
  <2>3. CASE d = Datagram(n, TRUE, Append(rest, Zero))
    BY <2>3 DEF Datagram
  <2>4. CASE \E f \in Faults : d = Spoiled(f, n)
    BY <1>1, <2>4, SpoiledFails
  <2>5. Pages(n) = {Datagram(n, TRUE, SubSeq(rest, 1, k)) : k \in (1 .. PageSize) \cap DOMAIN rest}
         \cup (IF Len(rest) <= PageSize THEN {Datagram(n, TRUE, Append(rest, Zero))} ELSE {})
         \cup {Spoiled(f, n) : f \in Faults}
    BY DEF Pages
  <2> HIDE DEF rest
  <2> QED
    BY <2>1, <2>2, <2>3, <2>4, <2>5 DEF Sendable
<1> HIDE DEF rest
<1>6. Place(DecodeResponse(AsRead(d)), rest)
  BY <1>2, <1>4, <1>5, ReadOutcome
<1> QED
  BY <1>6 DEF rest
-----------------------------------------------------------------------------
Asking == {"enter", "read"}

Idle == {"new", "refused", "query", "lock"} \cup Exchange

(* What a caller got, or is about to get, of results. *)
Got(q) == Range(page[q].todo) \cup (IF q \in Streams THEN Range(results[q]) ELSE {})

(* A caller that gave up an exchange may have left an answer behind. *)
GaveUp(q) == \E r \in Got(q) : r.err \in {"timeout", "read"}

Quiet == dups = 0 /\ \A q \in Callers : ~GaveUp(q)

Waiting == \E q \in Callers : pc[q] \in Asking

(* Who waits for a page has sent the last request, for a page behind its    *)
(* cursor; and nothing is left to deliver where a query begins.             *)
AskInv(q) ==
    /\ pc[q] \in Idle => page[q].todo = <<>>
    /\ pc[q] \in {"lock"} \cup Exchange => cursor[q].state # "terminal"
    /\ pc[q] \in Asking => sent # <<>> /\ Last(sent) = [by |-> q, seed |-> SeedAddr(cursor[q])]

(* The socket holds at most the answer to the last request, and that only   *)
(* while its caller waits for it.                                           *)
NetOk ==
    /\ \A n \in DOMAIN sent : n \in served \/ (n = Len(sent) /\ Waiting)
    /\ \A d \in net : d \in Sendable(Len(sent)) /\ Len(sent) \in served /\ net = {d} /\ Waiting

NetInv == Quiet => NetOk

(* The cursor of the next query. *)
Onward(p) == IF pc[p] \in {"emit", "parked", "ended"} THEN page[p].next ELSE cursor[p]

Clean(p) == ~Failed(p) /\ \A i \in DOMAIN page[p].todo : ~IsError(page[p].todo[i])

InOrder(p) ==
    /\ Len(Delivered(p)) <= Len(Expected(p))
    /\ \A i \in 1 .. Len(Delivered(p)) : Delivered(p)[i] = Expected(p)[i]

(* What is still to be delivered is next in the list, and then what the     *)
(* cursor has ahead of it.                                                  *)
Onto(p) ==
    LET k == Len(results[p])
        m == Len(page[p].todo) IN
    /\ k + m <= Len(Expected(p))
    /\ \A i \in 1 .. m : page[p].todo[i].server = Expected(p)[k + i]
    /\ Ahead(Onward(p), p) = Suffix(Expected(p), k + m)
    /\ page[p].last => k + m = Len(Expected(p))

StreamData(p) == Undisturbed(p) => InOrder(p) /\ (Clean(p) => Onto(p))

DataInv ==
    /\ \A q \in Callers : AskInv(q)
    /\ NetInv
    /\ \A p \in Streams : StreamData(p)

(* A stream is undisturbed when nobody else gave up an exchange. *)
LEMMA UndisturbedMeans ==
    ASSUME NEW p \in Streams
    PROVE  Undisturbed(p) <=> dups = 0 /\ \A q \in Callers \ {p} : ~GaveUp(q)
  BY DEF Undisturbed, GaveUp, Got

(* What was given up stays given up, and so the network never gets quiet.   *)
Grows == /\ \A q \in Callers : GaveUp(q) => GaveUp(q)'
         /\ dups' = 0 => dups = 0

(* A network that is quiet after a step was quiet before it. *)
LEMMA GrowsQuiet ==
    ASSUME Grows
    PROVE  /\ Quiet' => Quiet
           /\ \A p \in Streams : Undisturbed(p)' => Undisturbed(p)
<1>1. Quiet' => Quiet
  BY DEF Grows, Quiet
<1>2. \A p \in Streams : Undisturbed(p)' => Undisturbed(p)
  <2> TAKE p \in Streams
  <2>1. Undisturbed(p) <=> dups = 0 /\ \A q \in Callers \ {p} : ~GaveUp(q)
    BY UndisturbedMeans
  <2>2. Undisturbed(p)' <=> dups' = 0 /\ \A q \in Callers \ {p} : ~GaveUp(q)'
    BY DEF Undisturbed, GaveUp, Got
  <2> QED
    BY <2>1, <2>2 DEF Grows
<1> QED
  BY <1>1, <1>2

(* Nothing is given up where nothing is returned or delivered. *)
LEMMA GrowsSame ==
    ASSUME \A q \in Callers : page'[q].todo = page[q].todo, results' = results, dups' = dups
    PROVE  Grows
<1>1. \A q \in Callers : Got(q)' = Got(q)
  BY DEF Got
<1>2. \A q \in Callers : GaveUp(q)' <=> GaveUp(q)
  BY <1>1 DEF GaveUp
<1> QED
  BY <1>2 DEF Grows

(* A query that returns has nothing of the one before it to lose. *)
LEMMA GrowsReturn ==
    ASSUME IInv, NEW p \in Callers, page[p].todo = <<>>, NEW pg, Return(p, pg),
           results' = results, dups' = dups \/ dups' = dups + 1
    PROVE  Grows
<1>1. \A q \in Callers : q # p => page'[q] = page[q]
  BY DEF Return, IInv, TypeOK
<1>2. Range(page[p].todo) = {}
  BY DEF Range
<1>3. \A q \in Callers : GaveUp(q) => GaveUp(q)'
  <2> TAKE q \in Callers
  <2>1. \A r : r \in Got(q) => r \in Got(q)'
    <3>1. CASE q = p
      BY <1>2, <3>1 DEF Got
    <3>2. CASE q # p
      BY <1>1, <3>2 DEF Got
    <3> QED
      BY <3>1, <3>2
  <2> QED
    BY <2>1 DEF GaveUp
<1>4. dups \in Nat
  BY MasterAssumption DEF IInv, TypeOK
<1> QED
  BY <1>3, <1>4 DEF Grows

(* A delivery moves a result from the page to the reader. *)
LEMMA GrowsDeliver ==
    ASSUME IInv, NEW p \in Streams, Deliver(p)
    PROVE  Grows
<1> DEFINE todo == page[p].todo
<1>1. p \in Callers /\ todo \in Seq(Results) /\ results[p] \in Seq(Results) /\ todo # <<>>
  BY DEF Deliver, IInv, TypeOK, PageTypes, Callers
<1>2. page[p] \in PageTypes /\ page \in [Callers -> PageTypes] /\ results \in [Streams -> Seq(Results)]
  BY <1>1 DEF IInv, TypeOK
<1>3. Tail(todo) \in Seq(Results)
  BY <1>1
<1>4. page' = [page EXCEPT ![p] = [page[p] EXCEPT !.todo = Tail(todo)]]
      /\ results' = [results EXCEPT ![p] = Append(results[p], Head(todo))]
      /\ dups' = dups
  BY DEF Deliver
<1>5. page'[p].todo = Tail(todo) /\ results'[p] = Append(results[p], Head(todo))
  <2>1. page'[p] = [page[p] EXCEPT !.todo = Tail(todo)]
    BY <1>1, <1>2, <1>4
  <2> QED
    BY <1>1, <1>2, <1>3, <1>4, <2>1, RestOfPage
<1>6. \A q \in Callers : q # p => page'[q] = page[q] /\ (q \in Streams => results'[q] = results[q])
  BY <1>2, <1>4
<1>7. \A r : r \in Range(todo) => r \in Range(Append(results[p], Head(todo))) \cup Range(Tail(todo))
  <2> TAKE r
  <2> HAVE r \in Range(todo)
  <2>1. PICK i \in DOMAIN todo : r = todo[i]
    BY DEF Range
  <2>2. CASE i = 1
    <3>1. Len(results[p]) + 1 \in DOMAIN Append(results[p], Head(todo))
          /\ Append(results[p], Head(todo))[Len(results[p]) + 1] = r
      BY <1>1, <2>1, <2>2
    <3> QED
      BY <3>1 DEF Range
  <2>3. CASE i # 1
    <3>1. i - 1 \in DOMAIN Tail(todo) /\ Tail(todo)[i - 1] = r
      BY <1>1, <2>1, <2>3
    <3> QED
      BY <3>1 DEF Range
  <2> QED
    BY <2>2, <2>3
<1>8. \A r : r \in Range(results[p]) => r \in Range(Append(results[p], Head(todo)))
  <2> TAKE r
  <2> HAVE r \in Range(results[p])
  <2>1. PICK i \in DOMAIN results[p] : r = results[p][i]
    BY DEF Range
  <2>2. i \in DOMAIN Append(results[p], Head(todo)) /\ Append(results[p], Head(todo))[i] = r
    BY <1>1, <2>1
  <2> QED
    BY <2>2 DEF Range
<1>9. \A q \in Callers : \A r : r \in Got(q) => r \in Got(q)'
  <2> TAKE q \in Callers
  <2>1. CASE q = p
    <3>1. Got(q) = Range(todo) \cup Range(results[p])
      BY <2>1 DEF Got
    <3>2. Got(q)' = Range(Tail(todo)) \cup Range(Append(results[p], Head(todo)))
      BY <1>5, <2>1 DEF Got
    <3> QED
      BY <1>7, <1>8, <3>1, <3>2
  <2>2. CASE q # p
    BY <1>6, <2>2 DEF Got
  <2> QED
    BY <2>1, <2>2
<1>10. \A q \in Callers : GaveUp(q) => GaveUp(q)'
  BY <1>9 DEF GaveUp
<1> QED
  BY <1>4, <1>10 DEF Grows

(* At first nothing is sent, and all of the list is ahead. *)
LEMMA InitData == Init => DataInv
<1> SUFFICES ASSUME Init PROVE DataInv
  OBVIOUS
<1>1. \A q \in Callers : AskInv(q)
  BY DEF Init, AskInv, NoPage, Asking, Exchange
<1>2. NetInv
  BY DEF Init, NetInv, NetOk
<1>3. \A p \in Streams : StreamData(p)
  <2> SUFFICES ASSUME NEW p \in Streams PROVE InOrder(p) /\ (Clean(p) => Onto(p))
    BY DEF StreamData
  <2>1. p \in Callers /\ results[p] = <<>> /\ page[p] = NoPage /\ pc[p] = "new" /\ cursor[p] = From[p]
    BY DEF Init, Callers
  <2>2. From[p] \in Cursors
    BY <2>1, MasterAssumption
  <2>3. Expected(p) \in Seq(Servers)
    BY <2>1, <2>2, AheadSuffix DEF Expected
  <2>4. ~Failed(p) /\ Len(results[p]) = 0
    BY <2>1 DEF Failed
  <2>5. Delivered(p) = <<>>
    BY <2>1, <2>4 DEF Delivered
  <2>6. InOrder(p)
    BY <2>3, <2>5 DEF InOrder
  <2>7. page[p].todo = <<>> /\ page[p].last = FALSE
    BY <2>1 DEF NoPage
  <2>8. Ahead(Onward(p), p) = Expected(p)
    BY <2>1 DEF Onward, Expected
  <2>9. Suffix(Expected(p), 0) = Expected(p)
    BY <2>3, SubSeqFull DEF Suffix
  <2>10. Onto(p)
    BY <2>3, <2>4, <2>7, <2>8, <2>9 DEF Onto
  <2> QED
    BY <2>6, <2>10
<1> QED
  BY <1>1, <1>2, <1>3 DEF DataInv

(* Nothing is sent, answered or read, and whoever waits goes on waiting.    *)
LEMMA NetStays ==
    ASSUME NetInv, Quiet' => Quiet, UNCHANGED <<sent, net, served>>,
           Quiet' => (Waiting => Waiting')
    PROVE  NetInv'
<1>1. \A n : Sendable(n)' = Sendable(n)
  BY DEF Sendable, Pages
<1> QED
  BY <1>1 DEF NetInv, NetOk

(* A stream to which nothing happens. *)
LEMMA DataStays ==
    ASSUME NEW p \in Streams, StreamData(p), Undisturbed(p)' => Undisturbed(p),
           page'[p].todo = page[p].todo, page'[p].last = page[p].last,
           results'[p] = results[p], Onward(p)' = Onward(p)
    PROVE  StreamData(p)'
<1>1. Failed(p)' = Failed(p) /\ Delivered(p)' = Delivered(p) /\ Expected(p)' = Expected(p)
  BY DEF Failed, Delivered, Expected
<1>2. InOrder(p)' <=> InOrder(p)
  BY <1>1 DEF InOrder
<1>3. Clean(p)' <=> Clean(p)
  BY <1>1 DEF Clean
<1>4. Onto(p)' <=> Onto(p)
  BY <1>1 DEF Onto
<1> QED
  BY <1>2, <1>3, <1>4 DEF StreamData

(* A stream that is not the one whose query returns, or delivers. *)
LEMMA DataOther ==
    ASSUME NEW p \in Streams, StreamData(p), Undisturbed(p)' => Undisturbed(p),
           page'[p] = page[p], pc'[p] = pc[p], cursor'[p] = cursor[p],
           results'[p] = results[p]
    PROVE  StreamData(p)'
<1>1. Onward(p)' = Onward(p)
  BY DEF Onward
<1> QED
  BY <1>1, DataStays

(* A step of a caller from one place to another in which nothing is sent,   *)
(* returned or delivered.                                                   *)
LEMMA MoveData ==
    ASSUME IInv, DataInv, NEW p \in Callers, NEW l \in PCs, Goto(p, l),
           pc[p] \in Asking <=> l \in Asking,
           l \in Idle => pc[p] \in Idle,
           pc[p] \in Idle <=> l \in Idle,
           l \in {"lock"} \cup Exchange => cursor[p].state # "terminal",
           UNCHANGED <<page, stream, sent, net, server, dups>>
    PROVE  DataInv'
<1> USE DEF stream, server
<1>1. pc' = [pc EXCEPT ![p] = l] /\ pc \in [Callers -> PCs]
  BY DEF Goto, IInv, TypeOK, PCs
<1>2. \A q \in Callers : (pc'[q] \in Asking <=> pc[q] \in Asking) /\ (pc'[q] \in Idle => pc[q] \in Idle)
  BY <1>1
<1>3. \A q \in Callers : AskInv(q)'
  <2> TAKE q \in Callers
  <2>1. AskInv(q)
    BY DEF DataInv
  <2>2. pc'[q] \in {"lock"} \cup Exchange => cursor[q].state # "terminal"
    BY <1>1, <2>1 DEF AskInv
  <2> QED
    BY <1>2, <2>1, <2>2 DEF AskInv
<1>4. Grows
  BY GrowsSame
<1>5. NetInv'
  <2>1. Waiting => Waiting'
    BY <1>2 DEF Waiting
  <2> QED
    BY <1>4, <2>1, GrowsQuiet, NetStays DEF DataInv
<1>6. \A q \in Streams : StreamData(q)'
  <2> TAKE q \in Streams
  <2>1. q \in Callers /\ StreamData(q)
    BY DEF Callers, DataInv
  <2>2. pc'[q] \in {"emit", "parked", "ended"} <=> pc[q] \in {"emit", "parked", "ended"}
    BY <1>1, <2>1 DEF Idle, Exchange, PCs
  <2>3. Onward(q)' = Onward(q)
    BY <2>2 DEF Onward
  <2> QED
    BY <1>4, <2>1, <2>3, GrowsQuiet, DataStays
<1> QED
  BY <1>3, <1>5, <1>6 DEF DataInv

(* The mutex is taken. *)
LEMMA LockData ==
    ASSUME IInv, DataInv, NEW p \in Callers, Lock(p)
    PROVE  DataInv'
  BY MoveData DEF Lock, DataInv, AskInv, PCs, Asking, Idle, Exchange

(* A request is sent when the one before it is over: then the socket is     *)
(* empty, if nobody ever gave up.                                           *)
LEMMA SendData ==
    ASSUME IInv, DataInv, NEW p \in Callers, SendRequest(p)
    PROVE  DataInv'
<1> USE DEF SendRequest, Goto, stream, server
<1> DEFINE r == [by |-> p, seed |-> SeedAddr(cursor[p])]
<1>1. pc' = [pc EXCEPT ![p] = "enter"] /\ pc[p] = "send" /\ pc \in [Callers -> PCs]
      /\ sent' = Append(sent, r) /\ UNCHANGED <<page, results, cursor, net, served, dups>>
  BY DEF IInv, TypeOK, PCs
<1>2. sent \in Seq([by : Callers, seed : Servers \cup {Zero}])
  BY DEF IInv, TypeOK
<1>3. \A q \in Callers : q # p => pc[q] \notin Asking
  BY <1>1 DEF IInv, LockInv, Exchange, Asking
<1>4. Len(sent') = Len(sent) + 1 /\ Last(sent') = r /\ sent' # <<>> /\ Len(sent) \in Nat
      /\ DOMAIN sent' = DOMAIN sent \cup {Len(sent) + 1}
  BY <1>1, <1>2 DEF Last
<1>5. \A q \in Callers : AskInv(q)'
  <2> TAKE q \in Callers
  <2>1. AskInv(q) /\ AskInv(p)
    BY DEF DataInv
  <2>2. CASE q = p
    BY <1>1, <1>4, <2>1, <2>2 DEF AskInv, Exchange, Idle
  <2>3. CASE q # p
    BY <1>1, <1>3, <2>1, <2>3 DEF AskInv
  <2> QED
    BY <2>2, <2>3
<1>6. Grows
  BY GrowsSame
<1>7. NetInv'
  <2> SUFFICES ASSUME Quiet' PROVE NetOk'
    BY DEF NetInv
  <2>1. NetOk
    BY <1>6, GrowsQuiet DEF DataInv, NetInv
  <2>2. ~Waiting
    BY <1>1, <1>3 DEF Waiting, Asking
  <2>3. net' = {} /\ \A n \in DOMAIN sent : n \in served
    BY <1>1, <2>1, <2>2 DEF NetOk
  <2>4. Waiting'
    BY <1>1 DEF Waiting, Asking
  <2> QED
    BY <1>1, <1>4, <2>3, <2>4 DEF NetOk
<1>8. \A q \in Streams : StreamData(q)'
  <2> TAKE q \in Streams
  <2>1. q \in Callers /\ StreamData(q)
    BY DEF Callers, DataInv
  <2>2. Onward(q)' = Onward(q)
    BY <1>1, <2>1 DEF Onward
  <2> QED
    BY <1>1, <1>6, <2>1, <2>2, GrowsQuiet, DataStays
<1> QED
  BY <1>5, <1>7, <1>8 DEF DataInv

(* The master server answers the last request, or one whose caller gave up. *)
LEMMA ServeData ==
    ASSUME IInv, DataInv, NEW n \in DOMAIN sent, Serve(n) \/ ServeBlank(n)
    PROVE  DataInv'
<1> USE DEF stream, world
<1>1. \E d \in Sendable(n) : Reply(n, d)
  BY DEF Serve, ServeBlank, Sendable
<1>2. PICK d \in Sendable(n) : Reply(n, d)
  BY <1>1
<1>3. /\ n \notin served /\ served' = served \cup {n} /\ net' = net \cup {d}
      /\ UNCHANGED <<pc, page, cursor, results, sent, dups>>
  BY <1>2 DEF Reply
<1>4. \A q \in Callers : AskInv(q)'
  BY <1>3 DEF DataInv, AskInv
<1>5. Grows
  BY <1>3, GrowsSame
<1>6. NetInv'
  <2> SUFFICES ASSUME Quiet' PROVE NetOk'
    BY DEF NetInv
  <2>1. NetOk
    BY <1>5, GrowsQuiet DEF DataInv, NetInv
  <2>2. n = Len(sent) /\ Waiting
    BY <1>3, <2>1 DEF NetOk
  <2>3. net = {}
    BY <1>3, <2>1, <2>2 DEF NetOk
  <2>4. Waiting' /\ \A m : Sendable(m)' = Sendable(m)
    BY <1>3, <2>2 DEF Waiting, Sendable, Pages
  <2> QED
    BY <1>2, <1>3, <2>1, <2>2, <2>3, <2>4 DEF NetOk
<1>7. \A q \in Streams : StreamData(q)'
  BY <1>3, <1>5, GrowsQuiet, DataOther DEF DataInv
<1> QED
  BY <1>4, <1>6, <1>7 DEF DataInv

(* A step beside the queries and their streams. *)
LEMMA AroundData ==
    ASSUME DataInv, UNCHANGED <<pc, page, cursor, results, sent, net, served, dups>>
    PROVE  DataInv'
<1>1. \A q \in Callers : AskInv(q)'
  BY DEF DataInv, AskInv
<1>2. Grows
  BY GrowsSame
<1>3. NetInv'
  <2>1. Waiting => Waiting'
    BY DEF Waiting
  <2> QED
    BY <1>2, <2>1, GrowsQuiet, NetStays DEF DataInv
<1>4. \A q \in Streams : StreamData(q)'
  BY <1>2, GrowsQuiet, DataOther DEF DataInv
<1> QED
  BY <1>1, <1>3, <1>4 DEF DataInv

(* The next query takes the cursor of the page, or the stream ends. *)
LEMMA TurnData ==
    ASSUME IInv, DataInv, NEW p \in Streams, Turn(p)
    PROVE  DataInv'
<1> USE DEF Turn, Goto, server
<1>1. /\ p \in Callers /\ pc[p] = "emit" /\ page[p].todo = <<>>
      /\ pc \in [Callers -> PCs] /\ cursor \in [Callers -> Cursors]
      /\ UNCHANGED <<page, results, sent, net, served, dups>>
  BY DEF IInv, TypeOK, PCs, Callers
<1>2. \/ pc' = [pc EXCEPT ![p] = "ended"] /\ cursor' = cursor
      \/ pc' = [pc EXCEPT ![p] = "query"] /\ cursor' = [cursor EXCEPT ![p] = page[p].next]
  OBVIOUS
<1>3. pc'[p] \in {"ended", "query"}
      /\ \A q \in Callers : q # p => pc'[q] = pc[q] /\ cursor'[q] = cursor[q]
  BY <1>1, <1>2
<1>4. \A q \in Callers : AskInv(q)'
  <2> TAKE q \in Callers
  <2>1. CASE q = p
    BY <1>1, <1>3, <2>1 DEF AskInv, Asking, Exchange
  <2>2. CASE q # p
    BY <1>1, <1>3, <2>2 DEF DataInv, AskInv
  <2> QED
    BY <2>1, <2>2
<1>5. Grows
  BY <1>1, GrowsSame
<1>6. NetInv'
  <2>1. Waiting => Waiting'
    BY <1>1, <1>3 DEF Waiting, Asking
  <2> QED
    BY <1>1, <1>5, <2>1, GrowsQuiet, NetStays DEF DataInv
<1>7. \A q \in Streams : StreamData(q)'
  <2> TAKE q \in Streams
  <2>1. q \in Callers /\ StreamData(q)
    BY DEF Callers, DataInv
  <2>2. Onward(q)' = Onward(q)
    <3>1. CASE q = p
      BY <1>1, <1>2, <3>1 DEF Onward
    <3>2. CASE q # p
      BY <1>1, <1>3, <2>1, <3>2 DEF Onward
    <3> QED
      BY <3>1, <3>2
  <2> QED
    BY <1>1, <1>5, <2>1, <2>2, GrowsQuiet, DataStays
<1> QED
  BY <1>4, <1>6, <1>7 DEF DataInv

(* A query begins with nothing to deliver and no error delivered.           *)
LEMMA IdleClean ==
    ASSUME IInv, DataInv, NEW p \in Streams, pc[p] \in Idle
    PROVE  /\ page[p].todo = <<>> /\ ~page[p].last
           /\ \A i \in DOMAIN results[p] : ~IsError(results[p][i])
           /\ ~Failed(p) /\ Clean(p) /\ Onward(p) = cursor[p]
<1>1. StreamInv(p)
  BY DEF IInv
<1>2. page[p].todo = <<>> /\ ~page[p].last
  BY <1>1 DEF StreamInv, Idle
<1>3. \A i \in DOMAIN results[p] : ~IsError(results[p][i])
  BY <1>1, <1>2 DEF StreamInv
<1>4. Onward(p) = cursor[p]
  BY DEF Onward, Idle, Exchange
<1> QED
  BY <1>2, <1>3, <1>4 DEF Failed, Clean

(* The stream whose query returned has delivered nothing more.              *)
LEMMA ReturnKeepsOrder ==
    ASSUME NEW p \in Streams, InOrder(p), results'[p] = results[p]
    PROVE  InOrder(p)' /\ (Failed(p)' <=> Failed(p))
<1>1. Failed(p)' = Failed(p) /\ Delivered(p)' = Delivered(p) /\ Expected(p)' = Expected(p)
  BY DEF Failed, Delivered, Expected
<1> QED
  BY <1>1 DEF InOrder

(* A query returns: what holds of the others, and of the wire, as long as   *)
(* the page is right.                                                       *)
LEMMA ReturnData ==
    ASSUME IInv, DataInv, NEW p \in Callers, NEW pg, Returnable(pg), Return(p, pg),
           pc[p] \in Idle, UNCHANGED <<cursor, results, sent, served>>,
           dups' = dups \/ dups' = dups + 1,
           Quiet' /\ Quiet => NetOk',
           p \in Streams /\ Undisturbed(p)' /\ Undisturbed(p) => (Clean(p)' => Onto(p)')
    PROVE  DataInv'
<1>1. /\ pc' = [pc EXCEPT ![p] = IF p \in Streams THEN "emit" ELSE "ended"]
      /\ page' = [page EXCEPT ![p] = pg]
      /\ pc \in [Callers -> PCs] /\ page \in [Callers -> PageTypes]
  BY DEF Return, Goto, IInv, TypeOK, PCs
<1>2. pc'[p] \in {"emit", "ended"} /\ \A q \in Callers : q # p => pc'[q] = pc[q] /\ page'[q] = page[q]
  BY <1>1
<1>3. page[p].todo = <<>>
  BY DEF DataInv, AskInv
<1>4. Grows
  BY <1>3, GrowsReturn
<1>5. \A q \in Callers : AskInv(q)'
  <2> TAKE q \in Callers
  <2>1. CASE q = p
    BY <1>2, <2>1 DEF AskInv, Asking, Exchange, Idle
  <2>2. CASE q # p
    BY <1>2, <2>2 DEF DataInv, AskInv
  <2> QED
    BY <2>1, <2>2
<1>6. NetInv'
  BY <1>4, GrowsQuiet DEF NetInv
<1>7. \A q \in Streams : StreamData(q)'
  <2> TAKE q \in Streams
  <2>1. q \in Callers /\ StreamData(q)
    BY DEF Callers, DataInv
  <2>2. Undisturbed(q)' => Undisturbed(q)
    BY <1>4, GrowsQuiet
  <2>3. CASE q = p
    <3>1. Undisturbed(q)' => InOrder(q)'
      BY <2>1, <2>2, ReturnKeepsOrder DEF StreamData
    <3> QED
      BY <2>2, <2>3, <3>1 DEF StreamData
  <2>4. CASE q # p
    BY <1>2, <2>1, <2>2, <2>4, DataOther
  <2> QED
    BY <2>3, <2>4
<1> QED
  BY <1>5, <1>6, <1>7 DEF DataInv

(* A query that fails: in the middle of an exchange it gives it up. *)
LEMMA FailData ==
    ASSUME IInv, DataInv, NEW p \in Callers, NEW e \in Codes, Fail(p, e),
           pc[p] \in Idle,
           pc[p] \in Asking => e \in {"timeout", "read"},
           UNCHANGED <<stream, sent, net, server, dups>>
    PROVE  DataInv'
<1> DEFINE pg == [todo |-> <<Error(e)>>, next |-> cursor[p], last |-> TRUE]
<1>1. Returnable(pg)
  BY FailReturnable
<1>2. Return(p, pg) /\ UNCHANGED <<cursor, results, sent, net, served, dups>>
  BY DEF Fail, stream, server
<1>3. page'[p] = pg /\ \A q \in Callers : q # p => pc'[q] = pc[q]
  BY <1>2 DEF Return, Goto, IInv, TypeOK
<1>4. page'[p].todo = <<Error(e)>>
  BY <1>3
<1>5. IsError(Error(e)) /\ Error(e).err = e
  BY DEF IsError, Error, Codes
<1>6. ~Clean(p)'
  BY <1>4, <1>5 DEF Clean
<1>7. Error(e) \in Got(p)'
  <2>1. 1 \in DOMAIN <<Error(e)>> /\ <<Error(e)>>[1] = Error(e)
    OBVIOUS
  <2>2. Error(e) \in Range(<<Error(e)>>)
    BY <2>1 DEF Range
  <2> QED
    BY <1>4, <2>2 DEF Got
<1>8. Quiet' /\ Quiet => NetOk'
  <2> SUFFICES ASSUME Quiet', Quiet PROVE NetOk'
    OBVIOUS
  <2>1. pc[p] \notin Asking
    <3>1. ~GaveUp(p)'
      BY DEF Quiet
    <3> QED
      BY <1>5, <1>7, <3>1 DEF GaveUp
  <2>2. NetOk
    BY DEF DataInv, NetInv
  <2>3. Waiting => Waiting'
    BY <1>3, <2>1 DEF Waiting
  <2>4. \A m : Sendable(m)' = Sendable(m)
    BY <1>2 DEF Sendable, Pages
  <2> QED
    BY <1>2, <2>2, <2>3, <2>4 DEF NetOk
<1> HIDE DEF pg
<1> QED
  BY <1>1, <1>2, <1>6, <1>8, ReturnData

(* A terminal cursor has nothing ahead. *)
LEMMA OverData ==
    ASSUME IInv, DataInv, NEW p \in Callers, QueryOver(p)
    PROVE  DataInv'
<1> DEFINE pg == [todo |-> <<>>, next |-> cursor[p], last |-> TRUE]
<1>1. cursor[p] \in Cursors /\ pc[p] = "query" /\ cursor[p].state = "terminal"
  BY DEF IInv, TypeOK, QueryOver
<1>2. Returnable(pg)
  <2>1. <<>> \in Seq(Results)
    OBVIOUS
  <2> QED
    BY <1>1, <2>1 DEF Returnable, PageTypes
<1>3. Return(p, pg) /\ UNCHANGED <<cursor, results, sent, net, served, dups>>
  BY DEF QueryOver, stream, server
<1>4. page'[p] = pg /\ pc'[p] \in {"emit", "ended"} /\ \A q \in Callers : q # p => pc'[q] = pc[q]
  BY <1>3 DEF Return, Goto, IInv, TypeOK
<1>5. page'[p].todo = <<>> /\ page'[p].next = cursor[p]
  BY <1>4
<1>6. Quiet' /\ Quiet => NetOk'
  <2>1. Waiting => Waiting'
    BY <1>1, <1>4 DEF Waiting, Asking
  <2>2. \A m : Sendable(m)' = Sendable(m)
    BY <1>3 DEF Sendable, Pages
  <2> QED
    BY <1>3, <2>1, <2>2 DEF NetOk, DataInv, NetInv
<1>7. p \in Streams /\ Undisturbed(p)' /\ Undisturbed(p) => (Clean(p)' => Onto(p)')
  <2> SUFFICES ASSUME p \in Streams, Undisturbed(p) PROVE Onto(p)'
    OBVIOUS
  <2>1. /\ page[p].todo = <<>> /\ Clean(p) /\ Onward(p) = cursor[p]
    BY <1>1, IdleClean DEF Idle
  <2>2. Onto(p)
    BY <2>1 DEF DataInv, StreamData
  <2> DEFINE k == Len(results[p])
  <2>3. From[p] \in Cursors /\ results[p] \in Seq(Results)
    BY MasterAssumption DEF IInv, TypeOK
  <2>4. Expected(p) \in Seq(Servers) /\ k \in Nat
    BY <2>3, AheadSuffix DEF Expected
  <2>5. k <= Len(Expected(p)) /\ Ahead(cursor[p], p) = Suffix(Expected(p), k)
    BY <2>1, <2>2, <2>4 DEF Onto
  <2>6. Ahead(cursor[p], p) = <<>>
    BY <1>1 DEF Ahead
  <2>7. k = Len(Expected(p))
    <3>1. k \in 0 .. Len(Expected(p))
      BY <2>4, <2>5
    <3>2. Len(Suffix(Expected(p), k)) = Len(Expected(p)) - k
      BY <2>4, <3>1, SuffixFacts
    <3> QED
      BY <2>4, <2>5, <2>6, <3>2
  <2>8. Onward(p)' = cursor[p]
    BY <1>3, <1>4, <1>5 DEF Onward
  <2>9. Expected(p)' = Expected(p) /\ results'[p] = results[p]
    BY <1>3 DEF Expected
  <2> HIDE DEF k
  <2>10. Ahead(Onward(p), p)' = Suffix(Expected(p), k)
    BY <2>5, <2>8
  <2> QED
    BY <1>5, <2>4, <2>7, <2>9, <2>10 DEF Onto, k
<1> HIDE DEF pg
<1> QED
  BY <1>1, <1>2, <1>3, <1>6, <1>7, ReturnData DEF Idle

(* The page pg brings the next m servers of E behind its first k.           *)
Brings(pg, p, E, k, m, done) ==
    /\ Len(pg.todo) = m /\ pg.last = done
    /\ \A i \in 1 .. m : pg.todo[i].server = E[k + i]
    /\ Ahead(pg.next, p) = Suffix(E, k + m)

(* The page of a query is the next part of what its cursor has ahead: so it *)
(* is next for the stream, and its cursor has ahead what follows.           *)
LEMMA PageOnward ==
    ASSUME NEW p \in Callers, NEW c \in Cursors, c.state # "terminal",
           NEW E \in Seq(Servers), NEW j \in 0 .. Len(List[p]), E = Suffix(List[p], j),
           NEW k \in 0 .. Len(E), Ahead(c, p) = Suffix(E, k),
           NEW servers \in Seq(Servers), NEW done \in BOOLEAN,
           NEW m \in 0 .. Len(E) - k, servers = SubSeq(Suffix(E, k), 1, m),
           done => m = Len(E) - k
    PROVE  Brings(PageOf(c, servers, done), p, E, k, m, done)
<1> DEFINE pg == PageOf(c, servers, done)
           rest == Suffix(E, k)
<1>1. rest \in Seq(Servers) /\ Len(rest) = Len(E) - k
      /\ \A i \in 1 .. Len(E) - k : rest[i] = E[k + i]
  BY SuffixFacts
<1>2. m \in 0 .. Len(rest) /\ k \in Nat /\ m \in Nat /\ Len(E) \in Nat
  BY <1>1
<1> HIDE DEF rest
<1>3. Len(servers) = m /\ \A i \in 1 .. m : servers[i] = rest[i]
  BY <1>1, <1>2 DEF rest
<1>4. pg.last = done /\ pg.todo = [i \in DOMAIN servers |-> Item(servers[i])]
      /\ pg.next = IF done THEN Terminal ELSE NextCursor(c, servers)
  BY DEF PageOf
<1>5. Len(pg.todo) = m /\ \A i \in 1 .. m : pg.todo[i] = Item(servers[i])
  <2>1. DOMAIN servers = 1 .. m
    BY <1>3
  <2> HIDE DEF pg
  <2> QED
    BY <1>2, <1>4, <2>1
<1>6. \A i \in 1 .. m : pg.todo[i].server = E[k + i]
  <2> TAKE i \in 1 .. m
  <2>1. pg.todo[i] = Item(servers[i]) /\ servers[i] = rest[i]
    BY <1>3, <1>5
  <2>2. i \in 1 .. Len(E) - k
    BY <1>2
  <2>3. rest[i] = E[k + i]
    BY <1>1, <2>2
  <2> HIDE DEF pg
  <2> QED
    BY <2>1, <2>3 DEF Item
<1>7. Ahead(pg.next, p) = Suffix(E, k + m)
  <2>1. CASE done
    <3>0. pg.next = Terminal
      BY <1>4, <2>1
    <3>1. Ahead(pg.next, p) = <<>>
      BY <3>0 DEF Ahead, Terminal
    <3>2. k + m = Len(E)
      BY <1>2, <2>1
    <3>3. SubSeq(E, Len(E) + 1, Len(E)) = <<>>
      BY <1>2, SubSeqEmpty
    <3> QED
      BY <3>1, <3>2, <3>3 DEF Suffix
  <2>2. CASE ~done /\ m = 0
    <3>1. servers = <<>> /\ k + m = k
      BY <1>2, <1>3, <2>2
    <3>2. pg.next = c
      BY <1>4, <2>2, <3>1 DEF NextCursor
    <3> HIDE DEF pg
    <3> QED
      BY <3>1, <3>2
  <2>3. CASE ~done /\ m # 0
    <3>0. m \in 1 .. m /\ m \in 1 .. Len(E) - k
      BY <1>2, <2>3
    <3>1. servers # <<>>
      BY <1>2, <1>3, <2>3
    <3>2. Last(servers) = Suffix(E, k)[m]
      BY <1>3, <3>0 DEF Last, rest
    <3>3. pg.next = [state |-> "normal", addr |-> Suffix(E, k)[m]]
      BY <1>4, <2>3, <3>1, <3>2 DEF NextCursor
    <3>4. Ahead([state |-> "normal", addr |-> Suffix(E, k)[m]], p) = Suffix(E, k + m)
      BY <3>0, AheadTurn
    <3> HIDE DEF pg
    <3> QED
      BY <3>3, <3>4
  <2> QED
    BY <2>1, <2>2, <2>3
<1> HIDE DEF pg
<1>8. Brings(pg, p, E, k, m, done)
  BY <1>4, <1>5, <1>6, <1>7 DEF Brings
<1> QED
  BY <1>8 DEF pg

(* In a quiet network a query that takes a datagram takes the answer to its *)
(* own request, and leaves the socket empty.                                *)
LEMMA OwnPage ==
    ASSUME IInv, DataInv, NEW p \in Callers, pc[p] = "read", NEW d \in net, Quiet,
           DecodeResponse(AsRead(d)).code = "ok"
    PROVE  Place(DecodeResponse(AsRead(d)), Ahead(cursor[p], p))
<1>1. NetOk /\ AskInv(p) /\ TypeOK
  BY DEF DataInv, NetInv, IInv
<1>2. sent # <<>> /\ Last(sent) = [by |-> p, seed |-> SeedAddr(cursor[p])]
      /\ cursor[p].state # "terminal"
  BY <1>1 DEF AskInv, Asking, Exchange
<1>3. d \in Sendable(Len(sent)) /\ Len(sent) \in DOMAIN sent
  BY <1>1 DEF NetOk, TypeOK
<1>4. sent[Len(sent)].by = p /\ sent[Len(sent)].seed = SeedAddr(cursor[p])
  BY <1>2 DEF Last
<1>5. Place(DecodeResponse(AsRead(d)), Behind(sent[Len(sent)].seed, List[sent[Len(sent)].by]))
  BY <1>1, <1>3, PageOutcome
<1> QED
  BY <1>2, <1>4, <1>5 DEF Ahead

(* A datagram is taken for the page of the query that waits. *)
LEMMA ReceiveData ==
    ASSUME IInv, DataInv, NEW p \in Callers, NEW d \in net, Receive(p, d)
    PROVE  DataInv'
<1>0. PICK r : r = DecodeResponse(AsRead(d))
  OBVIOUS
<1>1. d \in Datagrams /\ cursor[p] \in Cursors
  BY DEF IInv, TypeOK
<1>2. r.code \in {"ok", "packet_header", "decode"} /\ r.servers \in Seq(Servers)
      /\ r.done \in BOOLEAN
  BY <1>0, <1>1, AsReadType, DecodedType
<1>3. /\ pc[p] = "read" /\ Take(d)
      /\ IF r.code = "ok" THEN Return(p, PageOf(cursor[p], r.servers, r.done))
                          ELSE Fail(p, r.code)
      /\ UNCHANGED <<cursor, results, sent, served>>
  BY <1>0 DEF Receive, stream, server
<1>4. PICK pg : pg = IF r.code = "ok" THEN PageOf(cursor[p], r.servers, r.done)
                     ELSE [todo |-> <<Error(r.code)>>, next |-> cursor[p], last |-> TRUE]
  OBVIOUS
<1>5. Return(p, pg)
  BY <1>3, <1>4 DEF Fail
<1>6. Returnable(pg)
  <2>1. CASE r.code = "ok"
    BY <1>1, <1>2, <1>4, <2>1, PageOfType DEF Returnable
  <2>2. CASE r.code # "ok"
    <3>1. r.code \in Codes
      BY <1>2, <2>2 DEF Codes
    <3> QED
      BY <1>4, <2>2, <3>1, FailReturnable
  <2> QED
    BY <2>1, <2>2
<1>7. dups \in Nat /\ (dups' = dups \/ dups' = dups + 1) /\ (dups' = 0 => net' = net \ {d})
  <2>1. dups \in Nat
    BY MasterAssumption DEF IInv, TypeOK
  <2> QED
    BY <1>3, <2>1 DEF Take
<1>8. page'[p] = pg /\ pc'[p] \in {"emit", "ended"}
      /\ \A q \in Callers : q # p => pc'[q] = pc[q] /\ pc[q] \notin Asking
  BY <1>3, <1>5 DEF Return, Goto, IInv, TypeOK, LockInv, Exchange, Asking
<1>9. Quiet' /\ Quiet => NetOk'
  <2> SUFFICES ASSUME Quiet', Quiet PROVE NetOk'
    OBVIOUS
  <2>1. NetOk
    BY DEF DataInv, NetInv
  <2>2. net' = {} /\ Len(sent) \in served
    BY <1>7, <2>1 DEF NetOk, Quiet
  <2>3. \A n \in DOMAIN sent : n \in served
    BY <2>1, <2>2 DEF NetOk
  <2> QED
    BY <1>3, <2>2, <2>3 DEF NetOk
<1>10. p \in Streams /\ Undisturbed(p)' /\ Undisturbed(p) => (Clean(p)' => Onto(p)')
  <2> SUFFICES ASSUME p \in Streams, Undisturbed(p), Clean(p)' PROVE Onto(p)'
    OBVIOUS
  <2>1. /\ page[p].todo = <<>> /\ Clean(p) /\ Onward(p) = cursor[p]
        /\ \A i \in DOMAIN results[p] : ~IsError(results[p][i])
    BY <1>3, IdleClean DEF Idle, Exchange
  <2>2. Onto(p)
    BY <2>1 DEF DataInv, StreamData
  <2>3. From[p] \in Cursors /\ results[p] \in Seq(Results) /\ p \in Callers
    BY MasterAssumption DEF IInv, TypeOK, Callers
  <2>4. PICK E : E = Expected(p)
    OBVIOUS
  <2>5. PICK k : k = Len(results[p])
    OBVIOUS
  <2>6. E \in Seq(Servers) /\ k \in Nat
    BY <2>3, <2>4, <2>5, AheadSuffix DEF Expected
  <2>7. k <= Len(E) /\ Ahead(cursor[p], p) = Suffix(E, k)
    BY <2>1, <2>2, <2>4, <2>5, <2>6 DEF Onto
  <2>8. r.code = "ok"
    <3> SUFFICES ASSUME r.code # "ok" PROVE FALSE
      OBVIOUS
    <3>1. page'[p].todo = <<Error(r.code)>>
      BY <1>4, <1>8
    <3>2. IsError(Error(r.code))
      BY <1>2 DEF IsError, Error
    <3>3. 1 \in DOMAIN <<Error(r.code)>> /\ <<Error(r.code)>>[1] = Error(r.code)
      OBVIOUS
    <3> QED
      BY <3>1, <3>2, <3>3 DEF Clean
  <2>9. Quiet
    <3>1. dups = 0 /\ \A q \in Callers \ {p} : ~GaveUp(q)
      BY UndisturbedMeans
    <3>2. ~GaveUp(p)
      <4>1. Range(page[p].todo) = {}
        BY <2>1 DEF Range
      <4>2. \A e \in Range(results[p]) : e.err = "none"
        BY <2>1 DEF Range, IsError
      <4> QED
        BY <4>1, <4>2 DEF GaveUp, Got
    <3> QED
      BY <3>1, <3>2 DEF Quiet
  <2>10. Place(r, Suffix(E, k))
    BY <1>0, <1>3, <2>7, <2>8, <2>9, OwnPage
  <2>11. k \in 0 .. Len(E) /\ Len(Suffix(E, k)) = Len(E) - k
    BY <2>6, <2>7, SuffixFacts
  <2>12. PICK m \in 0 .. Len(E) - k :
            r.servers = SubSeq(Suffix(E, k), 1, m) /\ (r.done => m = Len(E) - k)
    BY <2>10, <2>11 DEF Place
  <2>13. PICK j \in 0 .. Len(List[p]) : E = Suffix(List[p], j)
    BY <2>3, <2>4, AheadSuffix DEF Expected
  <2>14. cursor[p].state # "terminal"
    BY <1>3 DEF DataInv, AskInv, Exchange
  <2>15. pg = PageOf(cursor[p], r.servers, r.done)
    BY <1>4, <2>8
  <2>20. r.done \in BOOLEAN /\ r.servers \in Seq(Servers) /\ Ahead(cursor[p], p) = Suffix(E, k)
    BY <1>2, <2>7
  <2>16. /\ Len(pg.todo) = m /\ pg.last = r.done
         /\ \A i \in 1 .. m : pg.todo[i].server = E[k + i]
         /\ Ahead(pg.next, p) = Suffix(E, k + m)
    <3>0. PICK c : c = cursor[p]
      OBVIOUS
    <3>01. PICK servers : servers = r.servers
      OBVIOUS
    <3>02. PICK done : done = r.done
      OBVIOUS
    <3>1. Brings(PageOf(c, servers, done), p, E, k, m, done)
      <4>1. k \in 0 .. Len(E) /\ m \in 0 .. Len(E) - k
        BY <2>11
      <4>2. servers = SubSeq(Suffix(E, k), 1, m)
        BY <2>12, <3>01
      <4>3. done => m = Len(E) - k
        BY <2>12, <3>02
      <4>4. servers \in Seq(Servers) /\ done \in BOOLEAN
        BY <1>2, <3>01, <3>02
      <4>5. c \in Cursors /\ c.state # "terminal" /\ Ahead(c, p) = Suffix(E, k)
        BY <1>1, <2>7, <2>14, <3>0
      <4>6. p \in Callers /\ E \in Seq(Servers) /\ j \in 0 .. Len(List[p]) /\ E = Suffix(List[p], j)
        BY <2>6, <2>13
      <4> QED
        BY <4>1, <4>2, <4>3, <4>4, <4>5, <4>6, PageOnward
    <3> QED
      BY <2>15, <3>0, <3>01, <3>02, <3>1 DEF Brings
  <2>17. Onward(p)' = pg.next /\ Expected(p)' = E /\ results'[p] = results[p]
    BY <1>3, <1>8, <2>4 DEF Onward, Expected
  <2>18. Ahead(Onward(p), p)' = Suffix(E, k + m)
    BY <2>16, <2>17
  <2>19. k + m <= Len(E) /\ (r.done => k + m = Len(E))
    BY <2>6, <2>11, <2>12
  <2> QED
    BY <1>8, <2>5, <2>16, <2>17, <2>18, <2>19 DEF Onto
<1> QED
  BY <1>3, <1>5, <1>6, <1>7, <1>9, <1>10, ReturnData DEF Idle, Exchange

(* What a delivery appends: a server, or the error that ends the stream.    *)
LEMMA DeliveredWhat ==
    ASSUME IInv, NEW p \in Streams, Deliver(p)
    PROVE  /\ ~Failed(p)
           /\ IsError(page[p].todo[1]) => Failed(p)' /\ Delivered(p)' = Delivered(p)
           /\ ~IsError(page[p].todo[1]) => Clean(p) /\ ~Failed(p)'
           /\ Delivered(p) = [i \in 1 .. Len(results[p]) |-> results[p][i].server]
<1> DEFINE todo == page[p].todo
<1>1. p \in Callers /\ todo \in Seq(Results) /\ results[p] \in Seq(Results) /\ todo # <<>>
  BY DEF Deliver, IInv, TypeOK, PageTypes, Callers
<1>2. StreamInv(p) /\ results'[p] = Append(results[p], todo[1])
  BY <1>1 DEF Deliver, IInv, TypeOK
<1>3. \A i \in DOMAIN results[p] : ~IsError(results[p][i])
  BY <1>1, <1>2 DEF StreamInv
<1>4. ~Failed(p)
  BY <1>3 DEF Failed
<1>5. Len(results[p]) \in Nat /\ Len(todo) \in Nat /\ 1 \in DOMAIN todo
  BY <1>1
<1>6. Len(results'[p]) = Len(results[p]) + 1 /\ results'[p][Len(results[p]) + 1] = todo[1]
      /\ \A i \in 1 .. Len(results[p]) : results'[p][i] = results[p][i]
      /\ DOMAIN results'[p] = 1 .. Len(results[p]) + 1
  BY <1>1, <1>2
<1>7. Delivered(p) = [i \in 1 .. Len(results[p]) |-> results[p][i].server]
  BY <1>4, <1>5 DEF Delivered
<1>8. ASSUME IsError(todo[1]) PROVE Failed(p)' /\ Delivered(p)' = Delivered(p)
  <2>1. Failed(p)'
    BY <1>5, <1>6, <1>8 DEF Failed
  <2>2. Delivered(p)' = [i \in 1 .. Len(results[p]) |-> results'[p][i].server]
    BY <1>5, <1>6, <2>1 DEF Delivered
  <2> QED
    BY <1>6, <1>7, <2>1, <2>2
<1>9. ASSUME ~IsError(todo[1]) PROVE Clean(p) /\ ~Failed(p)'
  <2>1. \A i \in DOMAIN todo : ~IsError(todo[i])
    BY <1>1, <1>2, <1>5, <1>9 DEF StreamInv
  <2>2. \A i \in DOMAIN results'[p] : ~IsError(results'[p][i])
    <3> SUFFICES ASSUME NEW i \in DOMAIN results'[p] PROVE ~IsError(results'[p][i])
      OBVIOUS
    <3>1. i \in 1 .. Len(results[p]) \/ i = Len(results[p]) + 1
      BY <1>5, <1>6
    <3>2. CASE i \in 1 .. Len(results[p])
      <4>1. i \in DOMAIN results[p]
        BY <1>1, <3>2
      <4>2. results'[p][i] = results[p][i]
        BY <1>6, <3>2
      <4> QED BY <1>3, <4>1, <4>2
    <3>3. CASE i = Len(results[p]) + 1
      BY <1>6, <1>9, <3>3
    <3> QED BY <3>1, <3>2, <3>3
  <2> QED
    BY <1>4, <2>1, <2>2 DEF Clean, Failed
<1> QED
  BY <1>4, <1>7, <1>8, <1>9

(* What is delivered is what comes next in the list. *)
LEMMA DeliverOrder ==
    ASSUME IInv, NEW p \in Streams, Deliver(p), InOrder(p), Clean(p) => Onto(p)
    PROVE  InOrder(p)' /\ (Clean(p)' => Onto(p)')
<1> DEFINE todo == page[p].todo
<1>1. p \in Callers /\ todo \in Seq(Results) /\ results[p] \in Seq(Results) /\ todo # <<>>
      /\ page[p] \in PageTypes /\ page \in [Callers -> PageTypes] /\ Tail(todo) \in Seq(Results)
  BY DEF Deliver, IInv, TypeOK, PageTypes, Callers
<1>2. /\ pc'[p] = "emit" /\ results'[p] = Append(results[p], todo[1])
      /\ page'[p] = [page[p] EXCEPT !.todo = Tail(todo)] /\ cursor' = cursor
      /\ pc[p] \in {"emit", "parked"}
  BY <1>1 DEF Deliver, Goto, IInv, TypeOK
<1>3. page'[p].todo = Tail(todo) /\ page'[p].last = page[p].last /\ page'[p].next = page[p].next
  BY <1>1, <1>2 DEF PageTypes
<1>4. Onward(p)' = Onward(p)
  BY <1>2, <1>3 DEF Onward
<1>5. PICK E : E = Expected(p)
  OBVIOUS
<1>6. Expected(p)' = E
  BY <1>5 DEF Expected
<1>7. From[p] \in Cursors
  BY <1>1, MasterAssumption
<1>8. E \in Seq(Servers) /\ Len(E) \in Nat
  BY <1>1, <1>5, <1>7, AheadSuffix DEF Expected
<1>9. CASE IsError(todo[1])
  <2>1. Failed(p)' /\ Delivered(p)' = Delivered(p)
    BY <1>9, DeliveredWhat
  <2> QED
    BY <1>5, <1>6, <2>1 DEF InOrder, Clean
<1>10. CASE ~IsError(todo[1])
  <2>1. Clean(p) /\ ~Failed(p) /\ ~Failed(p)'
        /\ Delivered(p) = [i \in 1 .. Len(results[p]) |-> results[p][i].server]
    BY <1>10, DeliveredWhat
  <2>2. PICK k : k = Len(results[p])
    OBVIOUS
  <2>3. PICK m : m = Len(todo)
    OBVIOUS
  <2>4. k \in Nat /\ m \in Nat /\ 1 <= m
    BY <1>1, <2>2, <2>3
  <2>5. /\ k + m <= Len(E)
        /\ \A i \in 1 .. m : todo[i].server = E[k + i]
        /\ Ahead(Onward(p), p) = Suffix(E, k + m)
        /\ page[p].last => k + m = Len(E)
    BY <1>5, <2>1, <2>2, <2>3 DEF Onto
  <2>6. Len(results'[p]) = k + 1 /\ results'[p][k + 1] = todo[1]
        /\ \A i \in 1 .. k : results'[p][i] = results[p][i]
    BY <1>1, <1>2, <2>2
  <2>7. Delivered(p)' = [i \in 1 .. k + 1 |-> results'[p][i].server]
    BY <2>1, <2>4, <2>6 DEF Delivered
  <2>8. Delivered(p) = [i \in 1 .. k |-> results[p][i].server]
    BY <2>1, <2>2
  <2>9. Len(Delivered(p)) = k /\ Len(Delivered(p)') = k + 1
    BY <2>4, <2>7, <2>8
  <2>10. \A i \in 1 .. k + 1 : Delivered(p)'[i] = E[i]
    <3> TAKE i \in 1 .. k + 1
    <3>1. CASE i = k + 1
      <4>1. todo[1].server = E[k + 1]
        BY <2>4, <2>5
      <4> QED
        BY <2>4, <2>6, <2>7, <3>1, <4>1
    <3>2. CASE i # k + 1
      <4>1. i \in 1 .. k
        BY <2>4, <3>2
      <4>2. Delivered(p)[i] = E[i] /\ Delivered(p)[i] = results[p][i].server
        BY <1>5, <2>8, <2>9, <4>1 DEF InOrder
      <4> QED
        BY <2>6, <2>7, <4>1, <4>2
    <3> QED
      BY <3>1, <3>2
  <2>11. InOrder(p)'
    <3>1. k + 1 <= Len(E)
      BY <1>8, <2>4, <2>5
    <3> QED
      BY <1>6, <2>9, <2>10, <3>1 DEF InOrder
  <2>12. Len(Tail(todo)) = m - 1 /\ \A i \in 1 .. m - 1 : Tail(todo)[i] = todo[i + 1]
    BY <1>1, <2>3
  <2>13. \A i \in 1 .. m - 1 : Tail(todo)[i].server = E[k + 1 + i]
    <3> TAKE i \in 1 .. m - 1
    <3>1. i + 1 \in 1 .. m /\ k + (i + 1) = k + 1 + i
      BY <2>4
    <3>2. Tail(todo)[i] = todo[i + 1] /\ todo[i + 1].server = E[k + (i + 1)]
      BY <2>5, <2>12, <3>1
    <3> QED
      BY <3>1, <3>2
  <2>14. (k + 1) + (m - 1) = k + m
    BY <2>4
  <2>15. Onto(p)'
    <3>1. Len(results'[p]) = k + 1 /\ Len(page'[p].todo) = m - 1
      BY <1>3, <2>6, <2>12
    <3>2. Ahead(Onward(p), p)' = Suffix(E, (k + 1) + (m - 1))
      BY <1>4, <2>5, <2>14
    <3>3. (k + 1) + (m - 1) <= Len(E) /\ (page'[p].last => (k + 1) + (m - 1) = Len(E))
      BY <1>3, <2>5, <2>14
    <3>4. \A i \in 1 .. m - 1 : page'[p].todo[i].server = E[(k + 1) + i]
      BY <1>3, <2>13
    <3> QED
      BY <1>6, <3>1, <3>2, <3>3, <3>4 DEF Onto
  <2> QED
    BY <2>11, <2>15
<1> QED
  BY <1>9, <1>10

(* A delivery leaves everything but its stream as it is. *)
LEMMA DeliverData ==
    ASSUME IInv, DataInv, NEW p \in Streams, Deliver(p)
    PROVE  DataInv'
<1>1. /\ p \in Callers /\ pc' = [pc EXCEPT ![p] = "emit"] /\ pc[p] \in {"emit", "parked"}
      /\ pc \in [Callers -> PCs] /\ page \in [Callers -> PageTypes]
      /\ results \in [Streams -> Seq(Results)]
      /\ UNCHANGED <<cursor, sent, net, served, dups>>
  BY DEF Deliver, Goto, server, IInv, TypeOK, PCs, Callers
<1>2. \A q \in Callers : q # p => pc'[q] = pc[q] /\ page'[q] = page[q]
  BY <1>1 DEF Deliver
<1>3. \A q \in Streams : q # p => results'[q] = results[q]
  BY <1>1 DEF Deliver
<1>4. pc'[p] = "emit"
  BY <1>1
<1>5. Grows
  BY GrowsDeliver
<1>6. \A q \in Callers : AskInv(q)'
  <2> TAKE q \in Callers
  <2>1. CASE q = p
    BY <1>4, <2>1 DEF AskInv, Asking, Exchange, Idle
  <2>2. CASE q # p
    BY <1>1, <1>2, <2>2 DEF DataInv, AskInv
  <2> QED
    BY <2>1, <2>2
<1>7. NetInv'
  <2>1. Waiting => Waiting'
    BY <1>1, <1>2 DEF Waiting, Asking
  <2> QED
    BY <1>1, <1>5, <2>1, GrowsQuiet, NetStays DEF DataInv
<1>8. \A q \in Streams : StreamData(q)'
  <2> TAKE q \in Streams
  <2>1. q \in Callers /\ StreamData(q) /\ (Undisturbed(q)' => Undisturbed(q))
    BY <1>5, GrowsQuiet DEF Callers, DataInv
  <2>2. CASE q = p
    BY <2>1, <2>2, DeliverOrder DEF StreamData
  <2>3. CASE q # p
    BY <1>1, <1>2, <1>3, <2>1, <2>3, DataOther
  <2> QED
    BY <2>2, <2>3
<1> QED
  BY <1>6, <1>7, <1>8 DEF DataInv

(* The steps of a query that it takes by itself. *)
LEMMA RunningData ==
    ASSUME IInv, DataInv, NEW p \in Callers, Running(p)
    PROVE  DataInv'
<1> USE DEF Idle, Exchange, Asking, Codes
<1>1. CASE QueryRefused(p)
  BY <1>1, FailData DEF QueryRefused
<1>2. CASE QueryOver(p)
  BY <1>2, OverData
<1>3. CASE Admitted(p)
  BY <1>3, MoveData DEF Admitted, PCs
<1>4. CASE SendRequest(p)
  BY <1>4, SendData
<1>5. CASE SendFails(p)
  BY <1>5, FailData DEF SendFails
<1>6. CASE EnterRead(p)
  <2>1. cursor[p].state # "terminal"
    BY <1>6 DEF EnterRead, DataInv, AskInv
  <2> QED
    BY <1>6, <2>1, MoveData DEF EnterRead, PCs
<1>7. CASE EnterReadFails(p)
  BY <1>7, FailData DEF EnterReadFails
<1>8. CASE ReadFails(p)
  BY <1>8, FailData DEF ReadFails
<1> QED
  BY <1>1, <1>2, <1>3, <1>4, <1>5, <1>6, <1>7, <1>8 DEF Running

(* The steps of a stream between its queries. *)
LEMMA StreamingData ==
    ASSUME IInv, DataInv, NEW p \in Streams, Streaming(p)
    PROVE  DataInv'
<1> USE DEF Idle, Exchange, Asking
<1>1. p \in Callers
  BY DEF Callers
<1>2. CASE Deliver(p)
  BY <1>2, DeliverData
<1>3. CASE Park(p)
  BY <1>1, <1>3, MoveData DEF Park, PCs
<1>4. CASE Cancelled(p)
  BY <1>1, <1>4, MoveData DEF Cancelled, PCs
<1>5. CASE Turn(p)
  BY <1>5, TurnData
<1> QED
  BY <1>2, <1>3, <1>4, <1>5 DEF Streaming

(* The data of the streams is kept in order by every step. *)
LEMMA NextData == IInv /\ DataInv /\ [Next]_vars => DataInv'
<1> SUFFICES ASSUME IInv, DataInv, [Next]_vars PROVE DataInv'
  OBVIOUS
<1>1. CASE \E p \in Callers : Refused(p) \/ Called(p)
  BY <1>1, MoveData DEF Refused, Called, PCs, Idle, Exchange, Asking
<1>2. CASE \E p \in Callers : Lock(p)
  BY <1>2, LockData
<1>3. CASE \E p \in Callers : Running(p)
  BY <1>3, RunningData
<1>4. CASE \E p \in Callers : Streaming(p)
  BY <1>4, StreamingData DEF Streaming
<1>5. CASE \E p \in Callers : \E d \in net : Receive(p, d)
  BY <1>5, ReceiveData
<1>6. CASE \E n \in DOMAIN sent : Serve(n) \/ ServeBlank(n)
  BY <1>6, ServeData
<1>7. CASE \/ \E k \in Closers : CloseCalled(k) \/ Close(k)
           \/ \E p \in Callers : Cancel(p)
           \/ \E p \in Streams : Leave(p)
           \/ Finished \/ UNCHANGED vars
  <2>1. UNCHANGED <<pc, page, cursor, results, sent, net, served, dups>>
    BY <1>7 DEF CloseCalled, Close, Cancel, Leave, Finished, vars, stream, server
  <2> QED
    BY <2>1, AroundData
<1> QED
  BY <1>1, <1>2, <1>3, <1>4, <1>5, <1>6, <1>7 DEF Next

(* The network, the pages and the results agree in every state. *)
THEOREM DataInvariance == Spec => [](IInv /\ DataInv)
<1>1. Init => IInv /\ DataInv
  BY InitInv, InitData
<1>2. IInv /\ DataInv /\ [Next]_vars => (IInv /\ DataInv)'
  BY NextInv, NextData
<1> QED
  BY <1>1, <1>2, PTL DEF Spec

(* What is in order is a prefix of the list. *)
LEMMA InOrderPrefix ==
    ASSUME IInv, NEW p \in Streams, InOrder(p)
    PROVE  /\ Delivered(p) \in Seq(Servers) /\ Expected(p) \in Seq(Servers)
           /\ IsPrefix(Delivered(p), Expected(p))
<1>1. PICK d : d = Delivered(p)
  OBVIOUS
<1>2. PICK E : E = Expected(p)
  OBVIOUS
<1>3. E \in Seq(Servers) /\ Len(E) \in Nat
  <2>1. From[p] \in Cursors /\ p \in Callers
    BY MasterAssumption DEF Callers
  <2> QED
    BY <1>2, <2>1, AheadSuffix DEF Expected
<1>4. Len(d) <= Len(E) /\ \A i \in 1 .. Len(d) : d[i] = E[i]
  BY <1>1, <1>2 DEF InOrder
<1>5. Len(d) \in Nat /\ d = [i \in 1 .. Len(d) |-> d[i]]
  <2>1. PICK n : n = Len(results[p]) - (IF Failed(p) THEN 1 ELSE 0)
    OBVIOUS
  <2>2. d = [i \in 1 .. n |-> results[p][i].server]
    BY <1>1, <2>1 DEF Delivered
  <2>3. Len(results[p]) \in Nat /\ (Failed(p) => Len(results[p]) > 0)
    <3>1. results[p] \in Seq(Results)
      BY DEF IInv, TypeOK
    <3> QED
      BY <3>1 DEF Failed
  <2>4. n \in Nat
    BY <2>1, <2>3
  <2> QED
    BY <2>2, <2>4
<1>6. d \in Seq(Servers)
  <2>1. \A i \in 1 .. Len(d) : d[i] \in Servers
    BY <1>3, <1>4, <1>5
  <2> QED
    BY <1>5, <2>1
<1>7. SubSeq(d, 1, Len(d)) = SubSeq(E, 1, Len(d))
  <2>1. SubSeq(d, 1, Len(d)) = d
    BY <1>6
  <2>2. SubSeq(E, 1, Len(d)) \in Seq(Servers) /\ Len(SubSeq(E, 1, Len(d))) = Len(d)
        /\ \A i \in 1 .. Len(d) : SubSeq(E, 1, Len(d))[i] = E[i]
    BY <1>3, <1>4, <1>5
  <2>3. d = SubSeq(E, 1, Len(d))
    BY <1>4, <1>6, <2>2, SeqEqual
  <2> QED
    BY <2>1, <2>3
<1> QED
  BY <1>1, <1>2, <1>3, <1>4, <1>6, <1>7 DEF IsPrefix

(* A stream that closed its channel without an error, its context not over, *)
(* has delivered all there was.                                             *)
LEMMA EndedWhole ==
    ASSUME IInv, NEW p \in Streams, InOrder(p), Clean(p) => Onto(p),
           pc[p] = "ended", ~Failed(p), ~ctxDone[p]
    PROVE  Delivered(p) = Expected(p)
<1>1. page[p].last /\ page[p].todo = <<>>
  BY DEF IInv, StreamInv
<1>2. Clean(p)
  BY <1>1 DEF Clean
<1>3. results[p] \in Seq(Results) /\ Len(results[p]) \in Nat
  BY DEF IInv, TypeOK
<1>4. Len(results[p]) = Len(Expected(p))
  <2>1. Len(results[p]) + 0 = Len(Expected(p))
    BY <1>1, <1>2 DEF Onto
  <2> QED
    BY <1>3, <2>1
<1>5. Len(Delivered(p)) = Len(results[p])
  BY <1>3 DEF Delivered
<1>6. Delivered(p) \in Seq(Servers) /\ Expected(p) \in Seq(Servers)
  BY InOrderPrefix
<1> QED
  BY <1>4, <1>5, <1>6, SeqEqual DEF InOrder

(* For any callers, lists and cursors, however the pages are cut, by the    *)
(* master server or by the read buffer, and however often blank or wrong    *)
(* pages come: a stream delivers its list in order, each server once, and   *)
(* all of it if it ends without an error (master/client.go:76-107,          *)
(* 121-147).                                                                *)
THEOREM StreamsDeliver == Spec => []DeliversTheList
<1>1. IInv /\ DataInv => DeliversTheList
  <2> SUFFICES ASSUME IInv, DataInv, NEW p \in Streams, Undisturbed(p)
               PROVE  /\ IsPrefix(Delivered(p), Expected(p))
                      /\ pc[p] = "ended" /\ ~Failed(p) /\ ~ctxDone[p] =>
                            Delivered(p) = Expected(p)
    BY DEF DeliversTheList
  <2>1. InOrder(p) /\ (Clean(p) => Onto(p))
    BY DEF DataInv, StreamData
  <2> QED
    BY <2>1, InOrderPrefix, EndedWhole
<1> QED
  BY <1>1, DataInvariance, PTL
-----------------------------------------------------------------------------
(* The network repeats nothing, and a stream has the client to itself: the  *)
(* queries beside it send no request.                                       *)
Alone ==
    /\ MaxDups = 0
    /\ \A p \in Streams : \A q \in Streams : p = q
    /\ \A q \in Queries : q \in Invalid \/ From[q].state = "terminal"

SilentInv ==
    \A q \in Queries :
        /\ pc[q] \in {"new", "query", "ended"}
        /\ cursor[q] = From[q]
        /\ page[q].todo = <<>> \/ \E e \in {"dial", "filter"} : page[q].todo = <<Error(e)>>

(* At first no query has begun. *)
LEMMA InitSilent == Init => SilentInv
  BY DEF Init, SilentInv, NoPage, Callers

(* A query that is refused, or at its end, never sends. *)
LEMMA NextSilent ==
    ASSUME Alone, IInv, SilentInv, [Next]_vars
    PROVE  SilentInv'
<1> SUFFICES ASSUME NEW q \in Queries
             PROVE  /\ pc'[q] \in {"new", "query", "ended"}
                    /\ cursor'[q] = From[q]
                    /\ page'[q].todo = <<>> \/ \E e \in {"dial", "filter"} : page'[q].todo = <<Error(e)>>
  BY DEF SilentInv
<1> USE DEF stream, world, server
<1>1. /\ pc[q] \in {"new", "query", "ended"} /\ cursor[q] = From[q]
      /\ page[q].todo = <<>> \/ \E e \in {"dial", "filter"} : page[q].todo = <<Error(e)>>
  BY DEF SilentInv
<1>2. q \in Callers /\ q \notin Streams /\ (q \in Invalid \/ cursor[q].state = "terminal")
  BY <1>1, MasterAssumption DEF Alone, Callers
<1>3. /\ pc \in [Callers -> PCs] /\ page \in [Callers -> PageTypes]
      /\ cursor \in [Callers -> Cursors]
  BY DEF IInv, TypeOK, PCs
<1>4. ASSUME pc'[q] = pc[q], page'[q] = page[q], cursor'[q] = cursor[q]
      PROVE  /\ pc'[q] \in {"new", "query", "ended"}
             /\ cursor'[q] = From[q]
             /\ page'[q].todo = <<>> \/ \E e \in {"dial", "filter"} : page'[q].todo = <<Error(e)>>
  BY <1>1, <1>4
<1>5. CASE Called(q)
  BY <1>1, <1>3, <1>2, <1>5 DEF Called, Goto
<1>6. CASE QueryRefused(q)
  <2>1. PICK e \in {"dial", "filter"} : Fail(q, e)
    BY <1>6 DEF QueryRefused
  <2>2. page'[q].todo = <<Error(e)>> /\ pc'[q] = "ended" /\ cursor' = cursor
    BY <1>2, <1>3, <1>6, <2>1 DEF Fail, Return, Goto, QueryRefused
  <2> QED
    BY <1>1, <2>2
<1>7. CASE QueryOver(q)
  <2>1. page'[q].todo = <<>> /\ pc'[q] = "ended" /\ cursor' = cursor
    BY <1>2, <1>3, <1>7 DEF QueryOver, Return, Goto
  <2> QED
    BY <1>1, <2>1
<1>8. CASE \E p \in Callers \ {q} : Refused(p) \/ Called(p) \/ Lock(p) \/ Running(p)
  <2>1. PICK p \in Callers \ {q} : Refused(p) \/ Called(p) \/ Lock(p) \/ Running(p)
    BY <1>8
  <2>2. CASE Refused(p) \/ Called(p) \/ Lock(p)
    BY <1>2, <1>3, <1>4, <2>1, <2>2 DEF Refused, Called, Lock, Goto
  <2>3. CASE Admitted(p) \/ SendRequest(p) \/ EnterRead(p)
    BY <1>2, <1>3, <1>4, <2>1, <2>3 DEF Admitted, SendRequest, EnterRead, Goto
  <2>4. CASE QueryRefused(p) \/ QueryOver(p) \/ SendFails(p) \/ EnterReadFails(p) \/ ReadFails(p)
    <3>1. cursor' = cursor /\ \E pg : Return(p, pg)
      BY <2>4 DEF QueryRefused, QueryOver, SendFails, EnterReadFails, ReadFails, Fail
    <3> QED
      BY <1>2, <1>3, <1>4, <2>1, <3>1 DEF Return, Goto
  <2> QED
    BY <2>1, <2>2, <2>3, <2>4 DEF Running
<1>9. CASE \E p \in Callers : Streaming(p)
  <2>1. PICK p \in Streams : Deliver(p) \/ Park(p) \/ Cancelled(p) \/ Turn(p)
    BY <1>9 DEF Streaming
  <2>2. p # q /\ p \in Callers
    BY <1>2, <2>1 DEF Callers
  <2> QED
    BY <1>2, <1>3, <1>4, <2>1, <2>2 DEF Deliver, Park, Cancelled, Turn, Goto
<1>10. CASE \E p \in Callers : \E d \in net : Receive(p, d)
  <2>1. PICK p \in Callers : \E d \in net : Receive(p, d)
    BY <1>10
  <2>2. pc[p] = "read" /\ cursor' = cursor /\ \E pg : Return(p, pg)
    BY <2>1 DEF Receive, Fail
  <2>3. p # q
    BY <1>1, <2>2
  <2> QED
    BY <1>2, <1>3, <1>4, <2>1, <2>2, <2>3 DEF Return, Goto
<1>11. CASE \/ \E k \in Closers : CloseCalled(k) \/ Close(k)
            \/ \E p \in Callers : Cancel(p)
            \/ \E p \in Streams : Leave(p)
            \/ \E n \in DOMAIN sent : Serve(n) \/ ServeBlank(n)
            \/ Finished \/ UNCHANGED vars
  <2>1. UNCHANGED <<pc, page, cursor>>
    BY <1>11 DEF CloseCalled, Close, Cancel, Leave, Serve, ServeBlank, Reply, Finished, vars
  <2> QED
    BY <1>4, <2>1
<1>12. CASE Refused(q) \/ Lock(q) \/ Running(q)
  <2>1. ~Refused(q) /\ ~Lock(q) /\ ~Admitted(q)
    BY <1>1, <1>2 DEF Refused, Lock, Admitted, Usable
  <2>2. ~SendRequest(q) /\ ~SendFails(q) /\ ~EnterRead(q) /\ ~EnterReadFails(q) /\ ~ReadFails(q)
    BY <1>1 DEF SendRequest, SendFails, EnterRead, EnterReadFails, ReadFails
  <2> QED
    BY <1>6, <1>7, <1>12, <2>1, <2>2 DEF Running
<1> QED
  BY <1>5, <1>8, <1>9, <1>10, <1>11, <1>12 DEF Next

(* So nobody disturbs the stream.                                           *)
LEMMA AloneUndisturbed ==
    ASSUME Alone, IInv, SilentInv, NEW p \in Streams
    PROVE  Undisturbed(p)
<1>1. dups = 0
  BY DEF Alone, IInv, TypeOK
<1>2. \A q \in Callers \ {p} : ~GaveUp(q)
  <2> SUFFICES ASSUME NEW q \in Callers \ {p}, NEW r \in Got(q), r.err \in {"timeout", "read"}
               PROVE  FALSE
    BY DEF GaveUp
  <2>1. q \in Queries /\ q \notin Streams
    BY DEF Alone, Callers
  <2>2. r \in Range(page[q].todo)
    BY <2>1 DEF Got
  <2>3. PICK e \in {"dial", "filter"} : page[q].todo = <<Error(e)>>
    BY <2>1, <2>2 DEF SilentInv, Range
  <2>4. r = Error(e)
    <3>1. DOMAIN <<Error(e)>> = {1} /\ <<Error(e)>>[1] = Error(e)
      OBVIOUS
    <3> QED
      BY <2>2, <2>3, <3>1 DEF Range
  <2> QED
    BY <2>4 DEF Error
<1> QED
  BY <1>1, <1>2, UndisturbedMeans

(* A step in which no stream delivers, ends or is cancelled. *)
LEMMA SameView ==
    ASSUME results' = results, ctxDone' = ctxDone,
           \A p \in Streams : pc'[p] = "ended" <=> pc[p] = "ended"
    PROVE  UNCHANGED Lists!vars
<1>1. \A p \in Streams : Failed(p)' = Failed(p) /\ Delivered(p)' = Delivered(p)
  BY DEF Failed, Delivered
<1>2. [p \in Streams |-> Delivered(p)]' = [p \in Streams |-> Delivered(p)]
  BY <1>1
<1>3. [p \in Streams |-> Failed(p)]' = [p \in Streams |-> Failed(p)]
  BY <1>1
<1>4. [p \in Streams |-> pc[p] = "ended"]' = [p \in Streams |-> pc[p] = "ended"]
  OBVIOUS
<1>5. [p \in Streams |-> ctxDone[p]]' = [p \in Streams |-> ctxDone[p]]
  OBVIOUS
<1> QED
  BY <1>2, <1>3, <1>4, <1>5 DEF Lists!vars

(* A channel is closed for a reason the abstract stream knows.              *)
LEMMA EndRefines ==
    ASSUME IInv, NEW p \in Streams, pc[p] # "ended", pc' = [pc EXCEPT ![p] = "ended"],
           results' = results, ctxDone' = ctxDone,
           Delivered(p) = Expected(p) \/ Failed(p) \/ ctxDone[p]
    PROVE  Lists!Next
<1>1. \A q \in Streams : Failed(q)' = Failed(q) /\ Delivered(q)' = Delivered(q)
  BY DEF Failed, Delivered
<1>2. [q \in Streams |-> Delivered(q)]' = [q \in Streams |-> Delivered(q)]
  BY <1>1
<1>3. [q \in Streams |-> Failed(q)]' = [q \in Streams |-> Failed(q)]
  BY <1>1
<1>4. [q \in Streams |-> pc[q] = "ended"]' =
         [[q \in Streams |-> pc[q] = "ended"] EXCEPT ![p] = TRUE]
  BY DEF IInv, TypeOK, Callers
<1>5. [q \in Streams |-> ctxDone[q]]' = [q \in Streams |-> ctxDone[q]]
  OBVIOUS
<1>6. Lists!End(p)
  BY <1>2, <1>3, <1>4, <1>5 DEF Lists!End
<1> QED
  BY <1>6 DEF Lists!Next

(* A delivery is one of the abstract stream: a server or the error. *)
LEMMA GiveRefines ==
    ASSUME IInv, NEW p \in Streams, Deliver(p), InOrder(p)',
           Expected(p) \in Seq(Servers),
           IsPrefix(Delivered(p)', Expected(p))
    PROVE  Lists!Next
<1> DEFINE todo == page[p].todo
<1>1. p \in Callers /\ todo \in Seq(Results) /\ results[p] \in Seq(Results) /\ todo # <<>>
      /\ pc[p] \in {"emit", "parked"} /\ results \in [Streams -> Seq(Results)]
      /\ pc \in [Callers -> PCs]
  BY DEF Deliver, IInv, TypeOK, PageTypes, Callers, PCs
<1>2. /\ results' = [results EXCEPT ![p] = Append(results[p], todo[1])]
      /\ pc' = [pc EXCEPT ![p] = "emit"] /\ ctxDone' = ctxDone
  BY <1>1 DEF Deliver, Goto, world
<1>3. /\ ~Failed(p)
      /\ IsError(todo[1]) => Failed(p)' /\ Delivered(p)' = Delivered(p)
      /\ ~IsError(todo[1]) => ~Failed(p)'
      /\ Delivered(p) = [i \in 1 .. Len(results[p]) |-> results[p][i].server]
  BY DeliveredWhat
<1>4. \A q \in Streams : q # p => Failed(q)' = Failed(q) /\ Delivered(q)' = Delivered(q)
  BY <1>2 DEF Failed, Delivered
<1>5. [q \in Streams |-> pc[q] = "ended"]' = [q \in Streams |-> pc[q] = "ended"]
  <2>1. \A q \in Streams : pc'[q] = "ended" <=> pc[q] = "ended"
    BY <1>1, <1>2 DEF Callers
  <2> QED
    BY <2>1
<1>6. [q \in Streams |-> ctxDone[q]]' = [q \in Streams |-> ctxDone[q]]
  BY <1>2
<1>7. Lists!Running(p)
  BY <1>1, <1>3 DEF Lists!Running
<1>8. CASE IsError(todo[1])
  <2>1. [q \in Streams |-> Delivered(q)]' = [q \in Streams |-> Delivered(q)]
    BY <1>3, <1>4, <1>8
  <2>2. [q \in Streams |-> Failed(q)]' = [[q \in Streams |-> Failed(q)] EXCEPT ![p] = TRUE]
    <3>1. Failed(p)' = TRUE
      BY <1>3, <1>8 DEF Failed
    <3> QED
      BY <1>4, <3>1
  <2>3. Lists!GiveError(p)
    BY <1>5, <1>6, <1>7, <2>1, <2>2 DEF Lists!GiveError
  <2> QED
    BY <2>3 DEF Lists!Next
<1>9. CASE ~IsError(todo[1])
  <2>1. PICK s : s = todo[1].server
    OBVIOUS
  <2>2. PICK k : k = Len(results[p])
    OBVIOUS
  <2>3. k \in Nat /\ Len(results'[p]) = k + 1 /\ results'[p][k + 1] = todo[1]
        /\ \A i \in 1 .. k : results'[p][i] = results[p][i]
    BY <1>1, <1>2, <2>2
  <2>4. Delivered(p)' = [i \in 1 .. k + 1 |-> results'[p][i].server]
    BY <1>3, <1>9, <2>3 DEF Delivered
  <2>5. Delivered(p) = [i \in 1 .. k |-> results[p][i].server]
    BY <1>3, <2>2
  <2>6. Delivered(p)' = Append(Delivered(p), s)
    <3>0. PICK dd : dd = Delivered(p)
      OBVIOUS
    <3>1. dd \in Seq(Servers \cup {Zero}) /\ Len(dd) = k
      <4>1. \A i \in 1 .. k : results[p][i] \in Results
        BY <1>1, <2>2
      <4>2. \A i \in 1 .. k : results[p][i].server \in Servers \cup {Zero}
        BY <4>1 DEF Results
      <4>3. dd = [i \in 1 .. k |-> results[p][i].server]
        BY <2>5, <3>0
      <4> QED
        BY <2>3, <4>2, <4>3
    <3>2. Append(dd, s) = [i \in 1 .. k + 1 |-> IF i = k + 1 THEN s ELSE dd[i]]
      <4>1. todo[1] \in Results
        BY <1>1
      <4>2. s \in Servers \cup {Zero}
        BY <2>1, <4>1 DEF Results
      <4>3. PICK t : t = [i \in 1 .. k + 1 |-> IF i = k + 1 THEN s ELSE dd[i]]
        OBVIOUS
      <4>4. t \in Seq(Servers \cup {Zero}) /\ Len(t) = k + 1
            /\ \A i \in 1 .. k + 1 : t[i] = IF i = k + 1 THEN s ELSE dd[i]
        BY <2>3, <3>1, <4>2, <4>3
      <4>5. Append(dd, s) \in Seq(Servers \cup {Zero}) /\ Len(Append(dd, s)) = k + 1
            /\ \A i \in 1 .. k + 1 : Append(dd, s)[i] = IF i = k + 1 THEN s ELSE dd[i]
        BY <2>3, <3>1, <4>2
      <4>6. \A i \in 1 .. Len(t) : Append(dd, s)[i] = t[i]
        BY <4>4, <4>5
      <4>7. Append(dd, s) = t
        BY <4>4, <4>5, <4>6, SeqEqual
      <4> QED
        BY <4>3, <4>7
    <3>3. \A i \in 1 .. k + 1 : results'[p][i].server = IF i = k + 1 THEN s ELSE dd[i]
      BY <2>1, <2>3, <2>5, <3>0
    <3> QED
      BY <2>4, <3>0, <3>2, <3>3
  <2>7. s \in Range(Expected(p))
    <3>1. Len(Delivered(p)') = k + 1 /\ k + 1 \in 1 .. Len(Delivered(p)')
      BY <2>3, <2>4
    <3>2. k + 1 <= Len(Expected(p)) /\ Delivered(p)'[k + 1] = Expected(p)[k + 1]
      BY <3>1 DEF InOrder, Expected
    <3>3. s = Expected(p)[k + 1]
      BY <2>1, <2>3, <2>4, <3>2
    <3>4. k + 1 \in DOMAIN Expected(p)
      BY <2>3, <3>2
    <3> QED
      BY <3>3, <3>4 DEF Range
  <2>8. [q \in Streams |-> Delivered(q)]' =
           [[q \in Streams |-> Delivered(q)] EXCEPT ![p] = Append(@, s)]
    BY <1>4, <2>6
  <2>9. [q \in Streams |-> Failed(q)]' = [q \in Streams |-> Failed(q)]
    <3>1. Failed(p)' = Failed(p)
      BY <1>3, <1>9 DEF Failed
    <3> QED
      BY <1>4, <3>1
  <2>10. IsPrefix([q \in Streams |-> Delivered(q)]'[p], Expected(p))
    <3>1. [q \in Streams |-> Delivered(q)]'[p] = Delivered(p)'
      OBVIOUS
    <3> QED
      BY <3>1
  <2>11. Lists!Give(p)
    <3>1. /\ s \in Lists!Range(Expected(p))
          /\ Lists!IsPrefix([q \in Streams |-> Delivered(q)]'[p], Expected(p))
      BY <2>7, <2>10 DEF Range, IsPrefix, Lists!Range, Lists!IsPrefix
    <3> QED
      BY <1>5, <1>6, <1>7, <2>8, <2>9, <3>1 DEF Lists!Give
  <2> QED
    BY <2>11 DEF Lists!Next
<1> QED
  BY <1>8, <1>9

(* A context ends. *)
LEMMA CancelRefines ==
    ASSUME IInv, NEW p \in Callers, Cancel(p)
    PROVE  [Lists!Next]_(Lists!vars)
<1>1. ctxDone' = [ctxDone EXCEPT ![p] = TRUE] /\ UNCHANGED <<pc, results>>
      /\ ctxDone \in [Callers -> BOOLEAN]
  BY DEF Cancel, stream, IInv, TypeOK
<1>2. \A q \in Streams : Failed(q)' = Failed(q) /\ Delivered(q)' = Delivered(q)
  BY <1>1 DEF Failed, Delivered
<1>3. [q \in Streams |-> Delivered(q)]' = [q \in Streams |-> Delivered(q)]
  BY <1>2
<1>4. [q \in Streams |-> Failed(q)]' = [q \in Streams |-> Failed(q)]
  BY <1>2
<1>5. [q \in Streams |-> pc[q] = "ended"]' = [q \in Streams |-> pc[q] = "ended"]
  BY <1>1
<1>6. CASE p \in Streams
  <2>1. [q \in Streams |-> ctxDone[q]]' = [[q \in Streams |-> ctxDone[q]] EXCEPT ![p] = TRUE]
    BY <1>1, <1>6 DEF Callers
  <2>2. Lists!Cancel(p)
    BY <1>3, <1>4, <1>5, <2>1 DEF Lists!Cancel
  <2> QED
    BY <1>6, <2>2 DEF Lists!Next
<1>7. CASE p \notin Streams
  <2>1. [q \in Streams |-> ctxDone[q]]' = [q \in Streams |-> ctxDone[q]]
    BY <1>1, <1>7 DEF Callers
  <2> QED
    BY <1>3, <1>4, <1>5, <2>1 DEF Lists!vars
<1> QED
  BY <1>6, <1>7

Whole == IInv /\ DataInv /\ SilentInv

(* Every step is one of the abstract streams or changes nothing of them. *)
LEMMA NextStreams ==
    ASSUME Alone, Whole, Whole', DeliversTheList, DeliversTheList', [Next]_vars
    PROVE  [Lists!Next]_(Lists!vars)
<1> USE DEF Whole, stream, world, server
<1>1. \A p \in Streams : Undisturbed(p) /\ InOrder(p) /\ Expected(p) \in Seq(Servers)
  BY AloneUndisturbed, InOrderPrefix DEF DataInv, StreamData
<1>3. \A p \in Streams : Undisturbed(p)' /\ InOrder(p)' /\ IsPrefix(Delivered(p)', Expected(p))
  <2> TAKE p \in Streams
  <2>1. Undisturbed(p)'
    <3>1. dups' = 0
      BY DEF Alone, IInv, TypeOK
    <3>2. \A q \in Callers \ {p} : q \in Queries /\ q \notin Streams
      BY DEF Alone, Callers
    <3>3. \A q \in Callers \ {p} : \A r \in Range(page'[q].todo) : r.err \notin {"timeout", "read"}
      <4> SUFFICES ASSUME NEW q \in Callers \ {p}, NEW r \in Range(page'[q].todo)
                   PROVE  r.err \notin {"timeout", "read"}
        OBVIOUS
      <4>1. PICK e \in {"dial", "filter"} : page'[q].todo = <<Error(e)>>
        BY <3>2 DEF SilentInv, Range
      <4>2. DOMAIN <<Error(e)>> = {1} /\ <<Error(e)>>[1] = Error(e)
        OBVIOUS
      <4>3. r = Error(e)
        BY <4>1, <4>2 DEF Range
      <4> QED
        BY <4>3 DEF Error
    <3> QED
      BY <3>1, <3>2, <3>3 DEF Undisturbed
  <2>2. InOrder(p)'
    BY <2>1 DEF DataInv, StreamData
  <2>3. IsPrefix(Delivered(p)', Expected(p)')
    BY <2>1 DEF DeliversTheList
  <2>4. Expected(p)' = Expected(p)
    BY DEF Expected
  <2> QED
    BY <2>1, <2>2, <2>3, <2>4
<1>4. pc \in [Callers -> PCs]
  BY DEF IInv, TypeOK, PCs
<1>5. CASE \E p \in Callers : Refused(p) \/ Called(p) \/ Lock(p)
  BY <1>4, <1>5, SameView DEF Refused, Called, Lock, Goto, Callers
<1>6. CASE \E p \in Callers : Running(p)
  <2>1. PICK p \in Callers : Running(p)
    BY <1>6
  <2>2. results' = results /\ ctxDone' = ctxDone /\ pc[p] # "ended"
        /\ \E l : Goto(p, l) /\ (p \in Streams => l # "ended")
    <3>1. CASE Admitted(p) \/ SendRequest(p) \/ EnterRead(p)
      BY <3>1 DEF Admitted, SendRequest, EnterRead
    <3>2. CASE QueryRefused(p) \/ QueryOver(p) \/ SendFails(p) \/ EnterReadFails(p) \/ ReadFails(p)
      <4>1. results' = results /\ ctxDone' = ctxDone /\ pc[p] # "ended" /\ \E pg : Return(p, pg)
        BY <3>2 DEF QueryRefused, QueryOver, SendFails, EnterReadFails, ReadFails, Fail
      <4>2. Goto(p, IF p \in Streams THEN "emit" ELSE "ended")
        BY <4>1 DEF Return
      <4> QED
        BY <4>1, <4>2
    <3> QED
      BY <2>1, <3>1, <3>2 DEF Running
  <2> QED
    BY <1>4, <2>1, <2>2, SameView DEF Goto, Callers
<1>7. CASE \E p \in Callers : \E d \in net : Receive(p, d)
  <2>1. PICK p \in Callers : \E d \in net : Receive(p, d)
    BY <1>7
  <2>2. results' = results /\ ctxDone' = ctxDone /\ pc[p] = "read" /\ \E pg : Return(p, pg)
    BY <2>1 DEF Receive, Fail
  <2>3. Goto(p, IF p \in Streams THEN "emit" ELSE "ended")
    BY <2>2 DEF Return
  <2> QED
    BY <1>4, <2>1, <2>2, <2>3, SameView DEF Goto, Callers
<1>8. CASE \E p \in Streams : Deliver(p)
  BY <1>1, <1>3, <1>8, GiveRefines
<1>9. CASE \E p \in Streams : Park(p)
  BY <1>4, <1>9, SameView DEF Park, Goto, Callers
<1>10. CASE \E p \in Streams : Cancelled(p)
  <2>1. PICK p \in Streams : Cancelled(p)
    BY <1>10
  <2>2. pc[p] # "ended" /\ pc' = [pc EXCEPT ![p] = "ended"] /\ results' = results
        /\ ctxDone' = ctxDone /\ ctxDone[p]
    BY <2>1 DEF Cancelled, Goto
  <2>3. ctxDone[p] = TRUE
    BY <2>2 DEF IInv, TypeOK
  <2> QED
    BY <2>2, <2>3, EndRefines
<1>11. CASE \E p \in Streams : Turn(p)
  <2>1. PICK p \in Streams : Turn(p)
    BY <1>11
  <2>2. CASE page[p].last
    <3>1. /\ pc[p] = "emit" /\ pc' = [pc EXCEPT ![p] = "ended"] /\ results' = results
          /\ ctxDone' = ctxDone
      BY <2>1, <2>2 DEF Turn, Goto
    <3>2. pc'[p] = "ended" /\ Failed(p)' = Failed(p) /\ Delivered(p)' = Delivered(p)
          /\ Expected(p)' = Expected(p)
      BY <1>4, <3>1 DEF Callers, Failed, Delivered, Expected
    <3>3. ~Failed(p)' /\ ~ctxDone'[p] => Delivered(p)' = Expected(p)'
      BY <1>3, <3>2 DEF DeliversTheList
    <3>4. Delivered(p) = Expected(p) \/ Failed(p) \/ ctxDone[p]
      BY <3>1, <3>2, <3>3
    <3> QED
      BY <3>1, <3>4, EndRefines
  <2>3. CASE ~page[p].last
    <3>1. /\ pc[p] = "emit" /\ pc' = [pc EXCEPT ![p] = "query"] /\ results' = results
          /\ ctxDone' = ctxDone
      BY <2>1, <2>3 DEF Turn, Goto
    <3> QED
      BY <1>4, <3>1, SameView DEF Callers
  <2> QED
    BY <2>2, <2>3
<1>12. CASE \E p \in Callers : Cancel(p)
  BY <1>12, CancelRefines
<1>13. CASE \/ \E k \in Closers : CloseCalled(k) \/ Close(k)
            \/ \E p \in Streams : Leave(p)
            \/ \E n \in DOMAIN sent : Serve(n) \/ ServeBlank(n)
            \/ Finished \/ UNCHANGED vars
  <2>1. UNCHANGED <<pc, results, ctxDone>>
    BY <1>13 DEF CloseCalled, Close, Leave, Serve, ServeBlank, Reply, Finished, vars
  <2> QED
    BY <2>1, SameView
<1> QED
  BY <1>5, <1>6, <1>7, <1>8, <1>9, <1>10, <1>11, <1>12, <1>13 DEF Next, Streaming

(* At first nothing is delivered. *)
LEMMA InitStreams == Init => Lists!Init
<1> SUFFICES ASSUME Init PROVE Lists!Init
  OBVIOUS
<1>1. \A p \in Streams : results[p] = <<>> /\ pc[p] = "new" /\ ctxDone[p] = FALSE
  BY DEF Init, Callers
<1>2. \A p \in Streams : Failed(p) = FALSE /\ Delivered(p) = <<>>
  <2> TAKE p \in Streams
  <2>1. Failed(p) = FALSE /\ Len(results[p]) = 0
    BY <1>1 DEF Failed
  <2> QED
    BY <2>1 DEF Delivered
<1> QED
  BY <1>1, <1>2 DEF Lists!Init

(* A stream that has the client to itself, on a network that repeats        *)
(* nothing, implements the abstract stream of the list: its reader cannot   *)
(* tell that there are pages, cursors and a socket (master/client.go:       *)
(* 109-150).                                                                *)
THEOREM StreamsImplementList == ASSUME Alone PROVE Spec => StreamsTheList
<1>1. Spec => []SilentInv
  <2>1. IInv /\ SilentInv /\ [Next]_vars => SilentInv'
    BY NextSilent
  <2> QED
    BY <2>1, InitSilent, Invariance, PTL DEF Spec
<1>2. Spec => []Whole
  BY <1>1, DataInvariance, PTL DEF Whole
<1>3. Whole /\ Whole' /\ DeliversTheList /\ DeliversTheList' /\ [Next]_vars =>
         [Lists!Next]_(Lists!vars)
  BY NextStreams
<1> QED
  BY <1>2, <1>3, InitStreams, StreamsDeliver, PTL DEF Spec, StreamsTheList, Lists!Spec
=============================================================================
