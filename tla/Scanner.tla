------------------------------ MODULE Scanner ------------------------------
(* One call of the scanner's Probe methods, or of the Collect methods over  *)
(* them (scanner/client.go:41-199, 331-337): the request and its refusals,  *)
(* the goroutines runProbe starts, their two unbuffered channels, the UDP   *)
(* socket each worker keeps for all its probes, and the consumer of the     *)
(* results, which is `collect` or a caller's loop that may be left.         *)
(*                                                                          *)
(* A send on an unbuffered channel and its receive are one step of both     *)
(* goroutines. A goroutine blocked in a select is woken by the first case   *)
(* that becomes ready and takes that one; only a goroutine that enters a    *)
(* select with several cases ready has a choice. `parked` tells the two     *)
(* apart for the feeder.                                                    *)
EXTENDS Integers, FiniteSets, Sequences

CONSTANTS
    Concurrency,     \* c.concurrency
    Requests,        \* the calls: [nilClient, sources, parses]
    Input,           \* the items of the call: "server", or "error" where a
                     \* discovery channel carries an error in its place
    MayCancel,       \* the context may be cancelled
    MayFailOpen,     \* ListenUDP may fail
    MayLeave         \* the consumer may stop reading

Workers == 1 .. Concurrency

ASSUME ScannerAssumption ==
    /\ Concurrency \in Nat \ {0}
    /\ Requests \subseteq [nilClient : BOOLEAN, parses : BOOLEAN,
                          sources : SUBSET {"addresses", "servers", "discovery"}]
    /\ Input \in Seq({"server", "error"})
    /\ MayCancel \in BOOLEAN /\ MayFailOpen \in BOOLEAN /\ MayLeave \in BOOLEAN

VARIABLES
    request,    \* who is called with what: the client, the sources that are not
                \* nil, and whether every address parses
    setup,      \* runProbe: "called" | "refused" | "opening" | "failed" | "started"
    sock,       \* per worker: "none", "open" or "closed"
    wpc,        \* per worker: "none" | "idle" | "probe" | "wait" | "send" | "gone"
    wjob,       \* per worker: the index of its server in Input
    wout,       \* per worker: the result it is about to send
    fpc,        \* feeder: "none" | "pull" | "offer" | "emit" | "done"
    fpos,       \* feeder: index of the input it is at
    parked,     \* feeder: blocked in its select
    arrived,    \* items the upstream has offered; one more: it has closed the channel
    closed,     \* the channels closed so far, a subset of {"jobs", "results"}
    ctxDone,
    delivered,  \* what the consumer has received, in order
    left        \* the consumer has stopped reading

vars == <<request, setup, sock, wpc, wjob, wout, fpc, fpos, parked, arrived,
          closed, ctxDone, delivered, left>>

worker  == <<sock, wpc, wjob, wout>>
feeder  == <<fpc, fpos, parked>>
outside == <<request, left>>

Discovery == "discovery" \in request.sources

NoResult == [item |-> 0, code |-> "none"]

Result(i, code) == [item |-> i, code |-> code]

Init ==
    /\ request \in Requests
    /\ setup = "called"
    /\ sock = [w \in Workers |-> "none"]
    /\ wpc = [w \in Workers |-> "none"]
    /\ wjob = [w \in Workers |-> 0]
    /\ wout = [w \in Workers |-> NoResult]
    /\ fpc = "none" /\ fpos = 1 /\ parked = FALSE
    /\ arrived = 0
    /\ closed = {}
    /\ ctxDone = FALSE
    /\ delivered = <<>>
    /\ left = FALSE
-----------------------------------------------------------------------------
(* validateRequest, and ParseAddresses before anything is opened.           *)
Accepted ==
    /\ ~request.nilClient
    /\ Cardinality(request.sources) = 1
    /\ "addresses" \in request.sources => request.parses

Begin ==
    /\ setup = "called"
    /\ setup' = IF Accepted THEN "opening" ELSE "refused"
    /\ UNCHANGED <<worker, feeder, arrived, closed, ctxDone, delivered, outside>>

(* The loop that opens one socket per worker and starts the worker.         *)
NextWorker(w) == sock[w] = "none" /\ \A v \in 1 .. w - 1 : sock[v] # "none"

OpenSocket(w) ==
    /\ setup = "opening" /\ NextWorker(w)
    /\ sock' = [sock EXCEPT ![w] = "open"]
    /\ wpc' = [wpc EXCEPT ![w] = "idle"]
    /\ UNCHANGED <<setup, wjob, wout, feeder, arrived, closed, ctxDone, delivered, outside>>

(* runProbe returns an error; the workers already started keep waiting.     *)
OpenFails ==
    /\ MayFailOpen
    /\ setup = "opening" /\ \E w \in Workers : NextWorker(w)
    /\ setup' = "failed"
    /\ UNCHANGED <<worker, feeder, arrived, closed, ctxDone, delivered, outside>>

(* Faulty variant: the last server is never offered. *)
FeederAtShort(i) ==
    /\ fpos' = i
    /\ parked' = FALSE
    /\ IF Discovery THEN fpc' = "pull" /\ UNCHANGED closed
       ELSE IF i < Len(Input) THEN fpc' = "offer" /\ UNCHANGED closed
       ELSE fpc' = "done" /\ closed' = closed \cup {"jobs"}

(* Faulty variant: one server too many is offered. *)
FeederAtBeyond(i) ==
    /\ fpos' = i
    /\ parked' = FALSE
    /\ IF Discovery THEN fpc' = "pull" /\ UNCHANGED closed
       ELSE IF i <= Len(Input) + 1 THEN fpc' = "offer" /\ UNCHANGED closed
       ELSE fpc' = "done" /\ closed' = closed \cup {"jobs"}

(* The feeder at its next input: a loop head of feedServers or feedDiscovery.*)
FeederAt(i) ==
    /\ fpos' = i
    /\ parked' = FALSE
    /\ IF Discovery THEN fpc' = "pull" /\ UNCHANGED closed
       ELSE IF i <= Len(Input) THEN fpc' = "offer" /\ UNCHANGED closed
       ELSE fpc' = "done" /\ closed' = closed \cup {"jobs"}

StartFeeder ==
    /\ setup = "opening" /\ \A w \in Workers : sock[w] # "none"
    /\ setup' = "started"
    /\ FeederAt(1)
    /\ UNCHANGED <<worker, arrived, ctxDone, delivered, outside>>
-----------------------------------------------------------------------------
Idle(w) == wpc[w] = "idle"

CanPull == fpos <= arrived

(* No case of the feeder's select is ready.                                 *)
Park ==
    /\ ~parked /\ ~ctxDone
    /\ \/ fpc = "pull" /\ ~CanPull
       \/ fpc = "offer" /\ ~\E w \in Workers : Idle(w)
    /\ parked' = TRUE
    /\ UNCHANGED <<setup, worker, fpc, fpos, arrived, closed, ctxDone, delivered, outside>>

(* A select already won by ctx.Done has no other case left.                 *)
Selectable == ~(parked /\ ctxDone)

(* return, with the deferred close(jobs).                                   *)
FeederReturns ==
    /\ fpc' = "done"
    /\ closed' = closed \cup {"jobs"}
    /\ UNCHANGED <<setup, worker, fpos, parked, arrived, ctxDone, delivered, outside>>

(* Faulty variant: `break` leaves the select only, not the feeder's loop.   *)
FeederCancelledBreaks ==
    /\ fpc \in {"pull", "offer"}
    /\ ctxDone
    /\ UNCHANGED vars

FeederCancelled ==
    /\ fpc \in {"pull", "offer"}
    /\ ctxDone
    /\ FeederReturns

UpstreamClosed ==
    /\ fpc = "pull" /\ Selectable
    /\ CanPull /\ fpos > Len(Input)
    /\ FeederReturns

Pull ==
    /\ fpc = "pull" /\ Selectable
    /\ CanPull /\ fpos <= Len(Input)
    /\ fpc' = IF Input[fpos] = "error" THEN "emit" ELSE "offer"
    /\ parked' = FALSE
    /\ UNCHANGED <<setup, worker, fpos, arrived, closed, ctxDone, delivered, outside>>

(* results <- discoveryErr(...): not in a select, so not cancellable.       *)
EmitDiscoveryError ==
    /\ fpc = "emit" /\ ~left
    /\ delivered' = Append(delivered, Result(fpos, "discovery"))
    /\ FeederAt(fpos + 1)
    /\ UNCHANGED <<setup, worker, arrived, ctxDone, outside>>

HandOver(w) ==
    /\ fpc = "offer" /\ Selectable
    /\ Idle(w)
    /\ wpc' = [wpc EXCEPT ![w] = "probe"]
    /\ wjob' = [wjob EXCEPT ![w] = fpos]
    /\ FeederAt(fpos + 1)
    /\ UNCHANGED <<setup, sock, wout, arrived, ctxDone, delivered, outside>>
-----------------------------------------------------------------------------
(* probeInfoOne and its siblings: one query over the worker's socket.       *)
ProbeSends(w) ==
    /\ wpc[w] = "probe"
    /\ ~ctxDone
    /\ wpc' = [wpc EXCEPT ![w] = "wait"]
    /\ UNCHANGED <<setup, sock, wjob, wout, feeder, arrived, closed, ctxDone, delivered, outside>>

(* mapProbeError: what an error of the a2s client becomes.                  *)
ProbeError(code) == IF code = "timeout" THEN "timeout" ELSE "probe"

Completes(w, r) ==
    /\ wout' = [wout EXCEPT ![w] = r]
    /\ wpc' = [wpc EXCEPT ![w] = "send"]
    /\ UNCHANGED <<setup, sock, wjob, feeder, arrived, closed, ctxDone, delivered, outside>>

(* The query fails: without a request when the context is done before the   *)
(* send or the write fails; by its deadline or for another reason while it  *)
(* waits.                                                                   *)
ProbeFails(w) ==
    /\ \E code \in {"timeout", "write", "read", "decode"} :
          /\ \/ wpc[w] = "probe" /\ (code = "write" \/ (code = "timeout" /\ ctxDone))
             \/ wpc[w] = "wait" /\ code # "write"
          /\ Completes(w, Result(wjob[w], ProbeError(code)))

(* The query returns what the server of the probe answered.                 *)
ProbeAnswered(w) ==
    /\ wpc[w] = "wait"
    /\ Completes(w, Result(wjob[w], "ok"))

(* results <- ..., received by the consumer; not cancellable either.        *)
Deliver(w) ==
    /\ wpc[w] = "send" /\ ~left
    /\ delivered' = Append(delivered, wout[w])
    /\ wpc' = [wpc EXCEPT ![w] = "idle"]
    /\ wout' = [wout EXCEPT ![w] = NoResult]
    /\ UNCHANGED <<setup, sock, wjob, feeder, arrived, closed, ctxDone, outside>>

(* Faulty variant: the socket stays open. *)
WorkerExitsOpen(w) ==
    /\ Idle(w)
    /\ "jobs" \in closed
    /\ wpc' = [wpc EXCEPT ![w] = "gone"]
    /\ UNCHANGED <<setup, sock, wjob, wout, feeder, arrived, closed, ctxDone, delivered, outside>>

(* The range over jobs ends; the deferred calls close the socket, then      *)
(* report to the WaitGroup.                                                 *)
WorkerExits(w) ==
    /\ Idle(w)
    /\ "jobs" \in closed
    /\ sock' = [sock EXCEPT ![w] = "closed"]
    /\ wpc' = [wpc EXCEPT ![w] = "gone"]
    /\ UNCHANGED <<setup, wjob, wout, feeder, arrived, closed, ctxDone, delivered, outside>>

(* Faulty variant: the stream is closed when the feeder is done. *)
CloseResultsEarly ==
    /\ "jobs" \in closed
    /\ "results" \notin closed
    /\ closed' = closed \cup {"results"}
    /\ UNCHANGED <<setup, worker, feeder, arrived, ctxDone, delivered, outside>>

(* workers.Wait(); close(results). The workers were added before it starts. *)
CloseResults ==
    /\ setup = "started"
    /\ \A w \in Workers : wpc[w] = "gone"
    /\ "results" \notin closed
    /\ closed' = closed \cup {"results"}
    /\ UNCHANGED <<setup, worker, feeder, arrived, ctxDone, delivered, outside>>
-----------------------------------------------------------------------------
UpstreamOffers ==
    /\ Discovery
    /\ arrived < Len(Input)
    /\ arrived' = arrived + 1
    /\ UNCHANGED <<setup, worker, feeder, closed, ctxDone, delivered, outside>>

(* The upstream closes its channel, perhaps, after its last item.           *)
UpstreamCloses ==
    /\ Discovery
    /\ arrived = Len(Input)
    /\ arrived' = arrived + 1
    /\ UNCHANGED <<setup, worker, feeder, closed, ctxDone, delivered, outside>>

(* The consumer stops reading the stream.                                   *)
Leave ==
    /\ MayLeave /\ ~left
    /\ setup = "started"
    /\ left' = TRUE
    /\ UNCHANGED <<request, setup, worker, feeder, arrived, closed, ctxDone, delivered>>

Cancel ==
    /\ MayCancel /\ ~ctxDone
    /\ ctxDone' = TRUE
    /\ UNCHANGED <<setup, worker, feeder, arrived, closed, delivered, outside>>

(* The stream is closed, or there is none, or the consumer is gone, or the  *)
(* feeder waits for an upstream that stays silent.                          *)
Finished ==
    /\ \/ "results" \in closed
       \/ setup \in {"refused", "failed"}
       \/ left
       \/ parked /\ fpc = "pull" /\ ~ctxDone /\ \A w \in Workers : Idle(w)
    /\ UNCHANGED vars

FeederStep ==
    \/ FeederCancelled \/ UpstreamClosed \/ Pull \/ EmitDiscoveryError
    \/ \E w \in Workers : HandOver(w)

WorkerStep(w) ==
    \/ ProbeSends(w) \/ ProbeFails(w) \/ ProbeAnswered(w) \/ Deliver(w) \/ WorkerExits(w)

Next ==
    \/ Begin
    \/ \E w \in Workers : OpenSocket(w)
    \/ OpenFails \/ StartFeeder
    \/ Park \/ FeederStep
    \/ \E w \in Workers : WorkerStep(w)
    \/ CloseResults
    \/ UpstreamOffers \/ UpstreamCloses \/ Cancel \/ Leave
    \/ Finished

(* Go schedules every goroutine that can run, a probe ends by its deadline  *)
(* at the latest, and the consumer keeps receiving until the stream is      *)
(* closed or it leaves. The upstream's items arrive, but it need not close  *)
(* its channel; nothing is assumed of the context.                          *)
Fairness ==
    /\ WF_vars(Begin) /\ WF_vars(\E w \in Workers : OpenSocket(w)) /\ WF_vars(StartFeeder)
    /\ WF_vars(FeederStep) /\ WF_vars(CloseResults) /\ WF_vars(UpstreamOffers)
    /\ \A w \in Workers : WF_vars(WorkerStep(w))

Spec == Init /\ [][Next]_vars

FairSpec == Spec /\ Fairness
-----------------------------------------------------------------------------
Results == [item : DOMAIN Input \cup {0},
            code : {"none", "ok", "timeout", "probe", "discovery"}]

(* Every variable has its type (the locals of runProbe and its goroutines,  *)
(* scanner/client.go:165-237).                                              *)
TypeOK ==
    /\ request \in Requests /\ left \in BOOLEAN
    /\ setup \in {"called", "refused", "opening", "started", "failed"}
    /\ sock \in [Workers -> {"none", "open", "closed"}]
    /\ wpc \in [Workers -> {"none", "idle", "probe", "wait", "send", "gone"}]
    /\ wjob \in [Workers -> DOMAIN Input \cup {0}]
    /\ wout \in [Workers -> Results]
    /\ fpc \in {"none", "pull", "offer", "emit", "done"}
    /\ fpos \in 1 .. Len(Input) + 1
    /\ parked \in BOOLEAN /\ ctxDone \in BOOLEAN
    /\ arrived \in 0 .. Len(Input) + 1
    /\ closed \subseteq {"jobs", "results"}
    /\ delivered \in Seq(Results)

(* Nobody sends on a closed channel, which would panic: while the feeder or *)
(* a worker may still send a result the stream is open, and while the       *)
(* feeder may still offer a server jobs is (scanner/client.go:184-196).     *)
NoSendOnClosed ==
    /\ (fpc \in {"pull", "offer", "emit"} \/ \E w \in Workers : wpc[w] \in {"probe", "wait", "send"})
       => "results" \notin closed
    /\ fpc \in {"pull", "offer", "emit"} => "jobs" \notin closed

Reported == {delivered[n].item : n \in DOMAIN delivered}

(* No input gives two results. When the stream closes an initial segment of *)
(* the input has given one each, and without cancellation all of it has     *)
(* (scanner/client.go:178-180, 201-237).                                    *)
OneResultEach ==
    /\ \A m, n \in DOMAIN delivered : delivered[m].item = delivered[n].item => m = n
    /\ "results" \in closed =>
          /\ Reported = 1 .. Len(delivered)
          /\ ctxDone \/ Reported = DOMAIN Input

(* When the stream is closed no socket is open and no goroutine is left,    *)
(* and a request that is refused has opened none (scanner/client.go:        *)
(* 150-163, 175-196).                                                       *)
NothingLeftOpen ==
    /\ "results" \in closed => /\ \A w \in Workers : sock[w] = "closed" /\ wpc[w] = "gone"
                               /\ fpc = "done"
    /\ ~Accepted => \A w \in Workers : sock[w] = "none" /\ wpc[w] = "none"

InputEnds == ~Discovery \/ arrived > Len(Input)

(* Somebody is left with a result for a consumer that has gone.             *)
Abandoned == left /\ (fpc = "emit" \/ \E w \in Workers : wpc[w] = "send")

(* The stream is closed once the input ends or the context is cancelled,    *)
(* even if the upstream then stays silent, and even without a consumer      *)
(* unless somebody has a result for it (scanner/client.go:179, 193-196,     *)
(* 218-236).                                                                *)
StreamCloses ==
    setup = "started" /\ (ctxDone \/ InputEnds) ~> "results" \in closed \/ Abandoned
=============================================================================
