------------------------------ MODULE Pipeline ------------------------------
(* A master stream as the Discovery of a scan, as examples/scanner/main.go  *)
(* joins them (lines 108-140): the goroutine of Stream (master/client.go:   *)
(* 108-155), the feeder and the workers of runProbe (scanner/client.go:     *)
(* 165-237) and the loop over the results, coupled by unbuffered channels.  *)
(* What is one step here, a query and a probe, MasterClient and A2SClient   *)
(* take apart.                                                              *)
EXTENDS Naturals, Sequences, BagsExt

CONSTANTS
    Listed,       \* servers in the master's list
    PageSize,     \* servers of one page at most
    MaxStrays,    \* bound: pages read that answer another request
    Concurrency,  \* workers
    MayCancel,    \* contexts may be cancelled
    MayLeave      \* the consumer may stop reading the results

Workers == 1 .. Concurrency

Failure == 0    \* the item that stands for the stream's error

ASSUME PipelineAssumption ==
    /\ Listed \in Nat /\ PageSize \in Nat \ {0} /\ Concurrency \in Nat \ {0}
    /\ MaxStrays \in Nat
    /\ {MayCancel, MayLeave} \subseteq BOOLEAN

VARIABLES
    spc,        \* stream: "query" | "send" | "error" | "closed"
    read,       \* the servers of the pages it has read; an index is an item
    page,       \* the items of its page not yet taken
    done,       \* page.Done
    strays,     \* pages read that answer another request
    fpc,        \* feeder: "pull" | "offer" | "emit" | "done"
    fitem,      \* the item it has taken
    wpc,        \* per worker: "idle" | "probe" | "send" | "gone"
    wjob,       \* per worker: its item
    rclosed,    \* the results are closed
    got,        \* the results the consumer has received, counted by item
    left,       \* the consumer has stopped
    ended       \* the contexts that are done, of {"stream", "scan"}

vars == <<spc, read, page, done, strays, fpc, fitem, wpc, wjob, rclosed, got, left, ended>>

pages    == <<read, done, strays>>
stream   == <<spc, page, pages>>
feeder   == <<fpc, fitem>>
workers  == <<wpc, wjob>>
consumer == <<rclosed, got, left>>

Init ==
    /\ spc = "query" /\ read = <<>> /\ page = <<>> /\ done = FALSE
    /\ strays = 0
    /\ fpc = "pull" /\ fitem = Failure
    /\ wpc = [w \in Workers |-> "idle"]
    /\ wjob = [w \in Workers |-> Failure]
    /\ rclosed = FALSE /\ got = <<>> /\ left = FALSE
    /\ ended = {}
-----------------------------------------------------------------------------
(* Stream's goroutine, at the head of its loop or at its next server.       *)
Continues(rest, last) ==
    spc' = IF rest # <<>> THEN "send" ELSE IF last THEN "closed" ELSE "query"

(* The servers of a list are numbered; a list of other servers, which other *)
(* callers of the client ask for, goes on behind Listed.                    *)
Slice(c, n) == [i \in 1 .. n |-> c + i]

(* The cursor, 0 at the start, and where the master goes on: at the start   *)
(* when it does not have the server.                                        *)
Cursor == IF read = <<>> THEN 0 ELSE read[Len(read)]

Behind(c) == IF c <= Listed THEN c ELSE 0

(* Its answers to a request behind c: the next n servers; the terminator is *)
(* in the page of the last server or in one of its own. A page without both *)
(* has the same request sent again: nothing changes.                        *)
Follows(c, n, last) ==
    /\ c + n <= Listed
    /\ last => c + n = Listed

(* Query returns a page, whatever request it answers.                       *)
ReadPage(servers, last) ==
    /\ spc = "query" /\ "stream" \notin ended
    /\ read' = read \o servers
    /\ page' = [i \in 1 .. Len(servers) |-> Len(read) + i]
    /\ done' = last
    /\ Continues(page', last)
    /\ UNCHANGED <<feeder, workers, consumer, ended>>

QueryAnswered ==
    /\ \E n \in 0 .. PageSize, last \in BOOLEAN :
          Follows(Behind(Cursor), n, last) /\ ReadPage(Slice(Behind(Cursor), n), last)
    /\ UNCHANGED strays

(* A reply carries no request: the page read is a late or repeated one, of  *)
(* this list or of another.                                                 *)
QueryMisled ==
    /\ strays < MaxStrays /\ strays' = strays + 1
    /\ \E n \in 0 .. PageSize, last \in BOOLEAN :
          \/ \E c \in 0 .. Listed : Follows(c, n, last) /\ ReadPage(Slice(c, n), last)
          \/ n > 0 /\ ReadPage(Slice(Listed, n), last)

(* Faulty variant: the stream ends without a word. *)
QueryFailsSilently ==
    /\ spc = "query"
    /\ spc' = "closed"
    /\ UNCHANGED <<page, pages, feeder, workers, consumer, ended>>

(* Its deadline passes, its context has ended, the master client is closed, *)
(* or the reply is none.                                                    *)
QueryFails ==
    /\ spc = "query"
    /\ spc' = "error"
    /\ UNCHANGED <<page, pages, feeder, workers, consumer, ended>>

(* out <- Result{...} on one side, <-discovery in the feeder on the other.  *)
TakeServer ==
    /\ spc = "send" /\ fpc = "pull"
    /\ fitem' = Head(page)
    /\ page' = Tail(page)
    /\ Continues(page', done)
    /\ fpc' = "offer"
    /\ UNCHANGED <<pages, workers, consumer, ended>>

TakeError ==
    /\ spc = "error" /\ fpc = "pull"
    /\ spc' = "closed"
    /\ fpc' = "emit"
    /\ UNCHANGED <<page, pages, fitem, workers, consumer, ended>>

(* Faulty variant: the send is not in a select with the context. *)
StreamCancelledNever ==
    /\ spc = "error" /\ "stream" \in ended
    /\ spc' = "closed"
    /\ UNCHANGED <<page, pages, feeder, workers, consumer, ended>>

StreamCancelled ==
    /\ spc \in {"send", "error"} /\ "stream" \in ended
    /\ spc' = "closed"
    /\ UNCHANGED <<page, pages, feeder, workers, consumer, ended>>

StreamStep == QueryAnswered \/ QueryMisled \/ QueryFails \/ StreamCancelled
-----------------------------------------------------------------------------
(* Faulty variant: the feeder returns without closing jobs. *)
FeederReturnsOpen ==
    /\ fpc' = "returned"
    /\ UNCHANGED <<fitem, stream, workers, consumer, ended>>

(* return, with the deferred close(jobs).                                   *)
FeederReturns ==
    /\ fpc' = "done"
    /\ UNCHANGED <<fitem, stream, workers, consumer, ended>>

FeederCancelled == fpc \in {"pull", "offer"} /\ "scan" \in ended /\ FeederReturns

StreamEnded == fpc = "pull" /\ spc = "closed" /\ FeederReturns

Receives(item) ==
    /\ ~left
    /\ got' = BagAdd(got, item)
    /\ UNCHANGED <<rclosed, left>>

EmitError ==
    /\ fpc = "emit"
    /\ Receives(Failure)
    /\ fpc' = "pull"
    /\ UNCHANGED <<fitem, stream, workers, ended>>

HandOver(w) ==
    /\ fpc = "offer" /\ wpc[w] = "idle"
    /\ wpc' = [wpc EXCEPT ![w] = "probe"]
    /\ wjob' = [wjob EXCEPT ![w] = fitem]
    /\ fpc' = "pull"
    /\ UNCHANGED <<fitem, stream, consumer, ended>>

FeederStep ==
    \/ TakeServer \/ TakeError \/ FeederCancelled \/ StreamEnded \/ EmitError
    \/ \E w \in Workers : HandOver(w)

(* A probe ends by its deadline, and its result waits for the consumer.     *)
Probe(w) ==
    /\ wpc[w] = "probe"
    /\ wpc' = [wpc EXCEPT ![w] = "send"]
    /\ UNCHANGED <<wjob, stream, feeder, consumer, ended>>

Deliver(w) ==
    /\ wpc[w] = "send"
    /\ Receives(wjob[w])
    /\ wpc' = [wpc EXCEPT ![w] = "idle"]
    /\ UNCHANGED <<wjob, stream, feeder, ended>>

WorkerExits(w) ==
    /\ wpc[w] = "idle" /\ fpc = "done"
    /\ wpc' = [wpc EXCEPT ![w] = "gone"]
    /\ UNCHANGED <<wjob, stream, feeder, consumer, ended>>

CloseResults ==
    /\ \A w \in Workers : wpc[w] = "gone"
    /\ ~rclosed /\ rclosed' = TRUE
    /\ UNCHANGED <<got, left, stream, feeder, workers, ended>>
-----------------------------------------------------------------------------
(* Contexts end one at a time or, being one and the same, together.         *)
Cancel ==
    /\ MayCancel
    /\ \E cs \in SUBSET ({"stream", "scan"} \ ended) : cs # {} /\ ended' = ended \cup cs
    /\ UNCHANGED <<stream, feeder, workers, consumer>>

Leave ==
    /\ MayLeave /\ ~left /\ ~rclosed
    /\ left' = TRUE
    /\ UNCHANGED <<rclosed, got, stream, feeder, workers, ended>>

(* Everything has ended, or what has not waits for one that has gone.       *)
Finished ==
    /\ rclosed \/ left
    /\ UNCHANGED vars

Next ==
    \/ StreamStep \/ FeederStep
    \/ \E w \in Workers : Probe(w) \/ Deliver(w) \/ WorkerExits(w)
    \/ CloseResults
    \/ Cancel \/ Leave \/ Finished

(* Go runs every goroutine that can go on; a page query and a probe end by  *)
(* their deadlines; the consumer reads until it leaves. The master sends    *)
(* neither stray nor blank pages for ever: the code itself has no bound for *)
(* them.                                                                    *)
Fairness ==
    /\ WF_vars(StreamStep) /\ WF_vars(FeederStep) /\ WF_vars(CloseResults)
    /\ \A w \in Workers : WF_vars(Probe(w) \/ Deliver(w) \/ WorkerExits(w))

Spec == Init /\ [][Next]_vars

FairSpec == Spec /\ Fairness
-----------------------------------------------------------------------------
Failed == Failure \in DOMAIN got

(* A list that was cut short is never taken for the whole. When the results *)
(* close and no context has ended, every server of every page that was read *)
(* has its one result, and the consumer has been told of the stream's error *)
(* unless a page with the terminator was read; and if none of the pages was *)
(* a stray one, these are the servers of the list, each once                *)
(* (master/client.go:81-106, 124-147, scanner/client.go:225-228).           *)
NoSilentEnd ==
    /\ \A k \in DOMAIN got : got[k] = 1
    /\ rclosed /\ ended = {} =>
          /\ DOMAIN got \ {Failure} = DOMAIN read
          /\ Failed \/ done
          /\ strays = 0 => Failed \/ read = Slice(0, Listed)

(* Stream and scan both end whatever happens: the list is served, a query   *)
(* fails, the client is closed, or the context they share is cancelled, and *)
(* a consumer that reads to the end leaves no goroutine blocked. Excepted   *)
(* is a scan whose own context ends: the stream then waits for a reader     *)
(* (examples/scanner/main.go:121-140).                                      *)
BothEnd == <>((spc = "closed" /\ rclosed) \/ left \/ ended = {"scan"})

(* With contexts of their own each side ends by its own, even when the      *)
(* other side or the consumer is gone; the scan though it may get no more   *)
(* from the stream, unless somebody has a result for a consumer that has    *)
(* gone (master/client.go:126-129, 134-138, scanner/client.go:218-236).     *)
EachEndsByItsContext ==
    /\ "stream" \in ended ~> spc = "closed"
    /\ "scan" \in ended ~>
          rclosed \/ (left /\ (fpc = "emit" \/ \E w \in Workers : wpc[w] = "send"))
=============================================================================
