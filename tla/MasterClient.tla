---------------------------- MODULE MasterClient ----------------------------
(* The master client (master/client.go) with its cursors (master/types.go)  *)
(* and its protocol (internal/masterprotocol): page queries and streams of  *)
(* several goroutines on one client, one UDP socket to one master server,   *)
(* and Close.                                                               *)
(*                                                                          *)
(* A caller is a goroutine of Stream, which asks for page after page and    *)
(* hands the servers to a reader over an unbuffered channel, or one call of *)
(* Query. Its steps are the points where it can wait or where another       *)
(* goroutine can be seen.                                                   *)
EXTENDS Naturals, Sequences, SequencesExt

CONSTANTS
    Streams,        \* the calls of Stream, each with its goroutine and reader
    Queries,        \* the calls of Query made by the program itself
    Closers,        \* the goroutines that call Close
    Servers,        \* server addresses
    Zero,           \* 0.0.0.0:0, the first cursor and the terminator of the list
    Cut,            \* an address of which bytes are missing
    List,           \* List[p]: the servers of p's region and filter, in order
    From,           \* From[p]: the cursor of p's request
    Invalid,        \* callers whose filter contains a NUL
    MayCancel,      \* callers whose context may end early
    MayLeave,       \* streams whose reader may stop reading
    BufferEntries,  \* whole addresses that fit into maxPacketSize
    BufferRagged,   \* maxPacketSize ends inside an address
    PageSize,       \* addresses of one page at most
    Faults,         \* wrong pages the master server may send: see Spoiled
    MaxBlanks,      \* bound: pages without an address, in all
    MaxDups,        \* bound: datagrams delivered a second time, in all
    None            \* the holder of the free mutex

Callers == Streams \cup Queries

States == {"zero", "normal", "terminal"}
Cursors == [state : States, addr : Servers \cup {Zero}]

ASSUME MasterAssumption ==
    /\ Streams \cap Queries = {} /\ None \notin Callers
    /\ Zero \notin Servers /\ Cut \notin Servers \cup {Zero}
    /\ List \in [Callers -> Seq(Servers)]
    /\ From \in [Callers -> Cursors]
    /\ Faults \subseteq {"header", "cut", "trailing"}
    /\ BufferEntries \in Nat /\ BufferRagged \in BOOLEAN
    /\ PageSize \in Nat /\ MaxBlanks \in Nat /\ MaxDups \in Nat

(* The master server lists a server once. The least maxPacketSize has room  *)
(* for nine addresses (master/options.go:10, 50-57); two of them keep a     *)
(* terminator apart from what wrongly follows it.                           *)
ASSUME ListAssumption ==
    /\ \A p \in Callers : \A i \in DOMAIN List[p] : \A j \in DOMAIN List[p] :
          List[p][i] = List[p][j] => i = j
    /\ BufferEntries >= 2

VARIABLES
    pc,       \* where each caller is
    mu,       \* c.mu: the caller that holds it, or None
    closed,   \* c.closed; the socket is closed in the same critical section
    cursor,   \* per caller: current.Cursor
    page,     \* per caller: what its last query returned, as far as not yet delivered
    results,  \* per stream: what its reader received
    ctxDone,  \* per caller: its context has ended
    left,     \* per stream: its reader has stopped reading
    closing,  \* where each Close call is
    sent,     \* the requests on the wire: the caller and its seed; an index names one
    net,      \* the datagrams in flight to the socket, or queued in it
    served,   \* the requests the master server has answered
    blanks,   \* empty pages sent
    dups      \* datagrams delivered again

vars == <<pc, mu, closed, cursor, page, results, ctxDone, left, closing,
          sent, net, served, blanks, dups>>

stream == <<cursor, results>>
world  == <<ctxDone, left, closing>>
server == <<served, blanks>>
-----------------------------------------------------------------------------
(* Cursors and pages. A result has an address or the code of an error.      *)
Start    == [state |-> "zero", addr |-> Zero]
Terminal == [state |-> "terminal", addr |-> Zero]

SeedAddr(c) == IF c.state = "normal" THEN c.addr ELSE Zero

Item(s)   == [server |-> s, err |-> "none"]
Error(e)  == [server |-> Zero, err |-> e]

NoPage == [todo |-> <<>>, next |-> Start, last |-> FALSE]

(* Faulty variant: the next page is asked for behind the first server.      *)
NextCursorFirst(current, servers) ==
    IF servers = <<>> THEN current
    ELSE [state |-> "normal", addr |-> Head(servers)]

(* NextCursor of a page without the terminator: behind its last server.     *)
NextCursor(current, servers) ==
    IF servers = <<>> THEN current
    ELSE [state |-> "normal", addr |-> Last(servers)]

(* Faulty variant: a page without a server is taken for the end.            *)
PageOfEmptyEnds(current, servers, done) ==
    [todo |-> [i \in DOMAIN servers |-> Item(servers[i])],
     next |-> NextCursor(current, servers),
     last |-> done \/ servers = <<>>]

PageOf(current, servers, done) ==
    [todo |-> [i \in DOMAIN servers |-> Item(servers[i])],
     next |-> IF done THEN Terminal ELSE NextCursor(current, servers),
     last |-> done]
-----------------------------------------------------------------------------
(* A datagram of the master server has a header that is right or wrong and  *)
(* a sequence of addresses, the last of which may be cut short. The read    *)
(* loses what does not fit into the buffer.                                 *)
AsRead(d) ==
    IF Len(d.entries) <= BufferEntries THEN d
    ELSE [d EXCEPT !.entries = SubSeq(@, 1, BufferEntries)
                                 \o IF BufferRagged THEN <<Cut>> ELSE <<>>]

Decoded(code, servers, done) == [code |-> code, servers |-> servers, done |-> done]

(* Faulty variant: the terminator is taken for a server.                    *)
DecodeResponseBlind(d) ==
    IF ~d.head THEN Decoded("packet_header", <<>>, FALSE)
    ELSE Decoded("ok", d.entries, FALSE)

(* DecodeResponse: nothing may follow the terminator, no address is cut.    *)
DecodeResponse(d) ==
    LET e == d.entries
        stops == {i \in DOMAIN e : e[i] \in {Zero, Cut}} IN
    IF ~d.head THEN Decoded("packet_header", <<>>, FALSE)
    ELSE IF stops = {} THEN Decoded("ok", e, FALSE)
    ELSE IF stops = {Len(e)} /\ Last(e) = Zero THEN Decoded("ok", Front(e), TRUE)
    ELSE Decoded("decode", <<>>, FALSE)
-----------------------------------------------------------------------------
Init ==
    /\ pc = [p \in Callers |-> "new"]
    /\ mu = None
    /\ closed = FALSE
    /\ cursor = From
    /\ page = [p \in Callers |-> NoPage]
    /\ results = [p \in Streams |-> <<>>]
    /\ ctxDone = [p \in Callers |-> FALSE]
    /\ left = [p \in Streams |-> FALSE]
    /\ closing = [k \in Closers |-> "idle"]
    /\ sent = <<>>
    /\ net = {} /\ served = {} /\ blanks = 0 /\ dups = 0

Goto(p, l) == pc' = [pc EXCEPT ![p] = l]

(* Query returns a page or an error: a stream goes on to deliver it, and    *)
(* after an error it delivers nothing else. The deferred Unlock is part of  *)
(* it when the query held the mutex.                                        *)
Return(p, pg) ==
    /\ Goto(p, IF p \in Streams THEN "emit" ELSE "ended")
    /\ page' = [page EXCEPT ![p] = pg]
    /\ mu' = IF mu = p THEN None ELSE mu

(* Faulty variant: the stream goes on after an error. *)
FailGoesOn(p, code) ==
    Return(p, [todo |-> <<Error(code)>>, next |-> cursor[p], last |-> FALSE])

Fail(p, code) == Return(p, [todo |-> <<Error(code)>>, next |-> cursor[p], last |-> TRUE])
-----------------------------------------------------------------------------
(* The head of Stream: it may refuse, or it starts the goroutine.           *)
Usable(p) == ~closed /\ p \notin Invalid

Refused(p) ==
    /\ pc[p] = "new" /\ p \in Streams
    /\ ~Usable(p)
    /\ Goto(p, "refused")
    /\ UNCHANGED <<mu, closed, page, stream, world, sent, net, server, dups>>

Called(p) ==
    /\ pc[p] = "new"
    /\ p \in Streams => Usable(p)
    /\ Goto(p, "query")
    /\ UNCHANGED <<mu, closed, page, stream, world, sent, net, server, dups>>

(* The head of Query, without the mutex: ensureUsable, validateRequest, and *)
(* a terminal cursor, which is answered without a request.                  *)
QueryRefused(p) ==
    /\ pc[p] = "query"
    /\ \/ closed /\ Fail(p, "dial")
       \/ ~closed /\ p \in Invalid /\ Fail(p, "filter")
    /\ UNCHANGED <<closed, stream, world, sent, net, server, dups>>

QueryOver(p) ==
    /\ pc[p] = "query" /\ Usable(p)
    /\ cursor[p].state = "terminal"
    /\ Return(p, [todo |-> <<>>, next |-> cursor[p], last |-> TRUE])
    /\ UNCHANGED <<closed, stream, world, sent, net, server, dups>>

Admitted(p) ==
    /\ pc[p] = "query" /\ Usable(p)
    /\ cursor[p].state # "terminal"
    /\ Goto(p, "lock")
    /\ UNCHANGED <<mu, closed, page, stream, world, sent, net, server, dups>>

(* Faulty variant: the exchange starts without waiting for the mutex. *)
LockFree(p) ==
    /\ pc[p] = "lock"
    /\ mu' = p
    /\ Goto(p, "send")
    /\ UNCHANGED <<closed, page, stream, world, sent, net, server, dups>>

Lock(p) ==
    /\ pc[p] = "lock"
    /\ mu = None
    /\ mu' = p
    /\ Goto(p, "send")
    /\ UNCHANGED <<closed, page, stream, world, sent, net, server, dups>>

(* transport.Send: the context is looked at first.                          *)
SendRequest(p) ==
    /\ pc[p] = "send"
    /\ ~ctxDone[p] /\ ~closed
    /\ sent' = Append(sent, [by |-> p, seed |-> SeedAddr(cursor[p])])
    /\ Goto(p, "enter")
    /\ UNCHANGED <<mu, closed, page, stream, world, net, server, dups>>

(* The context has ended, the socket is closed, or the write fails on an    *)
(* open socket: by its deadline, or because the host is unreachable.        *)
SendFails(p) ==
    /\ pc[p] = "send"
    /\ \/ ctxDone[p] /\ Fail(p, "timeout")
       \/ ~ctxDone[p] /\ ~closed /\ Fail(p, "timeout")
       \/ ~ctxDone[p] /\ Fail(p, "write")
    /\ UNCHANGED <<closed, stream, world, sent, net, server, dups>>

(* transport.Receive: the context is looked at once, then only the deadline *)
(* ends the read. Close cannot come in between, for it takes the mutex.     *)
EnterRead(p) ==
    /\ pc[p] = "enter"
    /\ ~ctxDone[p]
    /\ Goto(p, "read")
    /\ UNCHANGED <<mu, closed, page, stream, world, sent, net, server, dups>>

EnterReadFails(p) ==
    /\ pc[p] = "enter"
    /\ ctxDone[p] /\ Fail(p, "timeout")
    /\ UNCHANGED <<closed, stream, world, sent, net, server, dups>>

(* The deadline passes, or the host reports that the port of the master     *)
(* server is unreachable.                                                   *)
ReadFails(p) ==
    /\ pc[p] = "read"
    /\ Fail(p, "timeout") \/ Fail(p, "read")
    /\ UNCHANGED <<closed, stream, world, sent, net, server, dups>>

(* UDP: a datagram that is read may still be delivered a second time.       *)
Take(d) ==
    \/ net' = net \ {d} /\ UNCHANGED dups
    \/ dups < MaxDups /\ dups' = dups + 1 /\ UNCHANGED net

(* Whatever the socket has is taken for the page of this request.           *)
Receive(p, d) ==
    LET r == DecodeResponse(AsRead(d)) IN
    /\ pc[p] = "read"
    /\ d \in net /\ Take(d)
    /\ IF r.code = "ok" THEN Return(p, PageOf(cursor[p], r.servers, r.done))
                        ELSE Fail(p, r.code)
    /\ UNCHANGED <<closed, stream, world, sent, server>>
-----------------------------------------------------------------------------
(* The goroutine of Stream. At its select either ready case may win; once   *)
(* it waits there, it is woken by the first.                                *)
Deliver(p) ==
    /\ page[p].todo # <<>> /\ ~left[p]
    /\ \/ pc[p] = "emit"
       \/ pc[p] = "parked" /\ ~ctxDone[p]
    /\ results' = [results EXCEPT ![p] = Append(@, Head(page[p].todo))]
    /\ page' = [page EXCEPT ![p].todo = Tail(@)]
    /\ Goto(p, "emit")
    /\ UNCHANGED <<mu, closed, cursor, world, sent, net, server, dups>>

Park(p) ==
    /\ pc[p] = "emit"
    /\ page[p].todo # <<>> /\ ~ctxDone[p]
    /\ Goto(p, "parked")
    /\ UNCHANGED <<mu, closed, page, stream, world, sent, net, server, dups>>

(* Faulty variant: the select is tried again instead of left. *)
CancelledAgain(p) ==
    /\ pc[p] \in {"emit", "parked"}
    /\ page[p].todo # <<>> /\ ctxDone[p]
    /\ Goto(p, "emit")
    /\ UNCHANGED <<mu, closed, page, stream, world, sent, net, server, dups>>

Cancelled(p) ==
    /\ pc[p] \in {"emit", "parked"}
    /\ page[p].todo # <<>> /\ ctxDone[p]
    /\ Goto(p, "ended")
    /\ UNCHANGED <<mu, closed, page, stream, world, sent, net, server, dups>>

(* The page is delivered: the channel is closed, or the page is turned.     *)
Turn(p) ==
    /\ pc[p] = "emit"
    /\ page[p].todo = <<>>
    /\ IF page[p].last
       THEN Goto(p, "ended") /\ UNCHANGED cursor
       ELSE Goto(p, "query") /\ cursor' = [cursor EXCEPT ![p] = page[p].next]
    /\ UNCHANGED <<mu, closed, page, results, world, sent, net, server, dups>>
-----------------------------------------------------------------------------
CloseCalled(k) ==
    /\ closing[k] = "idle"
    /\ closing' = [closing EXCEPT ![k] = "lock"]
    /\ UNCHANGED <<pc, mu, closed, page, stream, ctxDone, left, sent, net, server, dups>>

(* Faulty variant: Close does not take the mutex. *)
CloseUnlocked(k) ==
    /\ closing[k] = "lock"
    /\ closing' = [closing EXCEPT ![k] = "returned"]
    /\ closed' = TRUE
    /\ UNCHANGED <<pc, mu, page, stream, ctxDone, left, sent, net, server, dups>>

Close(k) ==
    /\ closing[k] = "lock"
    /\ mu = None
    /\ closing' = [closing EXCEPT ![k] = "returned"]
    /\ closed' = TRUE
    /\ UNCHANGED <<pc, mu, page, stream, ctxDone, left, sent, net, server, dups>>

Over(p) == pc[p] \in {"ended", "refused"}

Cancel(p) ==
    /\ p \in MayCancel /\ ~ctxDone[p] /\ ~Over(p)
    /\ ctxDone' = [ctxDone EXCEPT ![p] = TRUE]
    /\ UNCHANGED <<pc, mu, closed, page, stream, left, closing, sent, net, server, dups>>

(* The reader of a stream stops reading its channel.                        *)
Leave(p) ==
    /\ p \in MayLeave /\ ~left[p] /\ ~Over(p)
    /\ left' = [left EXCEPT ![p] = TRUE]
    /\ UNCHANGED <<pc, mu, closed, page, stream, ctxDone, closing, sent, net, server, dups>>
-----------------------------------------------------------------------------
(* The master server answers each request once: the next servers behind the *)
(* seed, and the terminator once nothing is behind them, at once or as a    *)
(* page of its own. A seed it does not have in the list starts it anew.     *)
Behind(seed, list) ==
    IF seed \in Range(list)
    THEN SubSeq(list, (CHOOSE i \in DOMAIN list : list[i] = seed) + 1, Len(list))
    ELSE list

Datagram(n, head, entries) == [re |-> n, head |-> head, entries |-> entries]

Spoiled(f, n) ==
    CASE f = "header"   -> Datagram(n, FALSE, <<>>)
      [] f = "cut"      -> Datagram(n, TRUE, <<Cut>>)
      [] f = "trailing" -> Datagram(n, TRUE, <<Zero, Zero>>)

Pages(n) ==
    LET rest == Behind(sent[n].seed, List[sent[n].by])
        part(k) == SubSeq(rest, 1, k) IN
    {Datagram(n, TRUE, part(k)) : k \in (1 .. PageSize) \cap DOMAIN rest}
        \cup (IF Len(rest) <= PageSize THEN {Datagram(n, TRUE, Append(rest, Zero))} ELSE {})
        \cup {Spoiled(f, n) : f \in Faults}

Reply(n, d) ==
    /\ n \notin served
    /\ served' = served \cup {n}
    /\ net' = net \cup {d}
    /\ UNCHANGED <<pc, mu, closed, page, stream, world, sent, dups>>

Serve(n) == \E d \in Pages(n) : Reply(n, d) /\ UNCHANGED blanks

ServeBlank(n) ==
    /\ blanks < MaxBlanks
    /\ blanks' = blanks + 1
    /\ Reply(n, Datagram(n, TRUE, <<>>))
-----------------------------------------------------------------------------
Running(p) ==
    \/ QueryRefused(p) \/ QueryOver(p) \/ Admitted(p)
    \/ SendRequest(p) \/ SendFails(p)
    \/ EnterRead(p) \/ EnterReadFails(p) \/ ReadFails(p)

Streaming(p) == p \in Streams /\ (Deliver(p) \/ Park(p) \/ Cancelled(p) \/ Turn(p))

(* Every call is over, or a stream waits for a reader that has left.        *)
Stuck(p) == pc[p] = "parked" /\ left[p] /\ ~ctxDone[p]

Finished ==
    /\ \A p \in Callers : Over(p) \/ Stuck(p)
    /\ \A k \in Closers : closing[k] = "returned"
    /\ UNCHANGED vars

Next ==
    \/ \E p \in Callers :
          \/ Refused(p) \/ Called(p) \/ Lock(p) \/ Running(p) \/ Streaming(p)
          \/ \E d \in net : Receive(p, d)
          \/ Cancel(p)
    \/ \E p \in Streams : Leave(p)
    \/ \E k \in Closers : CloseCalled(k) \/ Close(k)
    \/ \E n \in DOMAIN sent : Serve(n) \/ ServeBlank(n)
    \/ Finished

(* A running goroutine is scheduled, a blocked read ends by its deadline,   *)
(* the mutex is handed over in order, and a reader that has not left reads. *)
(* No fairness for the master server, the contexts or the start of a call.  *)
Fairness ==
    /\ \A p \in Callers : WF_vars(Running(p)) /\ WF_vars(Streaming(p)) /\ SF_vars(Lock(p))
    /\ \A k \in Closers : SF_vars(Close(k))

Spec == Init /\ [][Next]_vars

FairSpec == Spec /\ Fairness
-----------------------------------------------------------------------------
Codes == {"dial", "filter", "timeout", "write", "read", "packet_header", "decode"}

Results == [server : Servers, err : {"none"}] \cup [server : {Zero}, err : Codes]

PageTypes == [todo : Seq(Results), next : Cursors, last : BOOLEAN]

(* Every variable has its type; a delivered server is never the terminator  *)
(* (Client, Page, Cursor and Result: master/client.go:18-27,                *)
(* master/types.go:13-40, 95-99).                                           *)
TypeOK ==
    /\ pc \in [Callers -> {"new", "refused", "query", "lock", "send", "enter",
                            "read", "emit", "parked", "ended"}]
    /\ mu \in Callers \cup {None} /\ closed \in BOOLEAN
    /\ cursor \in [Callers -> Cursors]
    /\ page \in [Callers -> PageTypes]
    /\ results \in [Streams -> Seq(Results)]
    /\ ctxDone \in [Callers -> BOOLEAN] /\ left \in [Streams -> BOOLEAN]
    /\ closing \in [Closers -> {"idle", "lock", "returned"}]
    /\ sent \in Seq([by : Callers, seed : Servers \cup {Zero}])
    /\ served \subseteq DOMAIN sent
    /\ blanks \in 0 .. MaxBlanks /\ dups \in 0 .. MaxDups

IsError(r) == r.err # "none"

Failed(p) == \E i \in DOMAIN results[p] : IsError(results[p][i])

(* The servers before the error, which is the last result of its stream.    *)
Delivered(p) ==
    [i \in 1 .. Len(results[p]) - (IF Failed(p) THEN 1 ELSE 0) |-> results[p][i].server]

(* The servers of the list that a query with the cursor c has before it.    *)
Ahead(c, p) ==
    IF c.state = "terminal" THEN <<>> ELSE Behind(SeedAddr(c), List[p])

(* What a stream is to deliver: its list behind the cursor it starts from.  *)
Expected(p) == Ahead(From[p], p)

(* No other caller has given up an exchange and left its page behind.       *)
Undisturbed(p) ==
    /\ dups = 0
    /\ \A q \in Callers \ {p} :
          \A r \in Range(page[q].todo) \cup (IF q \in Streams THEN Range(results[q]) ELSE {}) :
              r.err \notin {"timeout", "read"}

(* A stream that finds only its own pages in the socket delivers the        *)
(* servers of the list in its order, each once, and a stream that ends      *)
(* without an error has delivered them all, wherever the pages are cut,     *)
(* also by the read buffer, and whoever else uses the client                *)
(* (master/client.go:76-107, 121-147; master/client_test.go:163-222).       *)
DeliversTheList ==
    \A p \in Streams : Undisturbed(p) =>
        /\ IsPrefix(Delivered(p), Expected(p))
        /\ pc[p] = "ended" /\ ~Failed(p) /\ ~ctxDone[p] => Delivered(p) = Expected(p)

(* However pages are mixed up, an error is the last result of its stream,   *)
(* and a stream whose context has not ended closes its channel only after   *)
(* it has delivered the error, or all of a last page                        *)
(* (master/client.go:126-145; master/client_test.go:224-275).               *)
EndsForAReason ==
    \A p \in Streams :
        /\ \A i \in DOMAIN results[p] : IsError(results[p][i]) => i = Len(results[p])
        /\ pc[p] = "ended" /\ ~ctxDone[p] => page[p].last /\ page[p].todo = <<>>

(* Close waits for the exchange in progress: while a caller waits for the   *)
(* page it asked for, the socket is open (master/client.go:152-171).        *)
CloseCutsNoExchange ==
    closed => \A p \in Callers : pc[p] \notin {"enter", "read"}

(* A stream that has the client and an undisturbed network to itself        *)
(* implements the abstract stream of the list (master/client.go:109-150).   *)
Lists == INSTANCE PageStream WITH
    given     <- [p \in Streams |-> Delivered(p)],
    failed    <- [p \in Streams |-> Failed(p)],
    ended     <- [p \in Streams |-> pc[p] = "ended"],
    cancelled <- [p \in Streams |-> ctxDone[p]]

StreamsTheList == Lists!Spec

(* A stream ends, unless its reader has left and its context never ends: a  *)
(* reader does not come back and a context stays ended, so what holds again *)
(* and again here holds from some state on. Every Close returns. The        *)
(* network may lose what it will, but the server sends finitely many pages  *)
(* without an address, for each of which the stream asks again              *)
(* (master/client.go:101-106, 121-147, 152-171, 183-189).                   *)
EveryCallEnds ==
    /\ \A p \in Streams : []<>(pc[p] = "new" \/ Over(p) \/ (left[p] /\ ~ctxDone[p]))
    /\ \A k \in Closers : closing[k] = "lock" ~> closing[k] = "returned"
=============================================================================
