---------------------------- MODULE ScannerProofs ---------------------------
(* For any number of workers and inputs: nobody sends on a closed channel,  *)
(* every input gives one result, and a closed stream leaves nothing behind. *)
EXTENDS Scanner, FiniteSetTheorems, TLAPS

(* How far runProbe has come, and what a worker and its socket have to do   *)
(* with each other.                                                         *)
Stages ==
    /\ \A w \in Workers : /\ sock[w] = "none" <=> wpc[w] = "none"
                          /\ sock[w] = "closed" <=> wpc[w] = "gone"
    /\ setup # "started" => /\ fpc = "none" /\ fpos = 1 /\ closed = {} /\ delivered = <<>>
                            /\ \A w \in Workers : wpc[w] \in {"none", "idle"}
    /\ setup \in {"called", "refused"} => \A w \in Workers : wpc[w] = "none"
    /\ setup \notin {"called", "refused"} => Accepted
    /\ setup = "started" => fpc # "none" /\ \A w \in Workers : wpc[w] # "none"

(* In which order the channels are closed, and where the feeder stopped.    *)
Closing ==
    /\ fpc = "done" <=> "jobs" \in closed
    /\ \A w \in Workers : wpc[w] = "gone" => "jobs" \in closed
    /\ "results" \in closed => setup = "started" /\ \A w \in Workers : wpc[w] = "gone"
    /\ fpc = "done" => ctxDone \/ fpos = Len(Input) + 1
    /\ fpc \in {"offer", "emit"} => fpos <= Len(Input)

Busy(w) == wpc[w] \in {"probe", "wait", "send"}

(* Every input the feeder is done with has been reported, or is with one    *)
(* worker that will.                                                        *)
Accounts ==
    /\ \A n \in DOMAIN delivered : delivered[n].item \in 1 .. fpos - 1
    /\ \A m, n \in DOMAIN delivered : delivered[m].item = delivered[n].item => m = n
    /\ \A w \in Workers : Busy(w) => wjob[w] \in 1 .. fpos - 1 /\ wjob[w] \notin Reported
    /\ \A v, w \in Workers : Busy(v) /\ Busy(w) /\ wjob[v] = wjob[w] => v = w
    /\ \A i \in 1 .. fpos - 1 : i \in Reported \/ \E w \in Workers : Busy(w) /\ wjob[w] = i
    /\ \A w \in Workers : wpc[w] = "send" => wout[w].item = wjob[w]

BusyHasJob == \A w \in Workers : Busy(w) => wjob[w] # 0

IInv == TypeOK /\ Stages /\ Closing /\ Accounts
-----------------------------------------------------------------------------
(* What is assumed of the constants.                                        *)
LEMMA Constants ==
    /\ Concurrency \in Nat \ {0}
    /\ DOMAIN Input = 1 .. Len(Input) /\ Len(Input) \in Nat
<1> QED BY ScannerAssumption

(* A result has its type.                                                   *)
LEMMA ResultTyped ==
    ASSUME NEW i \in DOMAIN Input \cup {0},
           NEW code \in {"none", "ok", "timeout", "probe", "discovery"}
    PROVE  /\ Result(i, code) \in Results
           /\ Result(i, code).item = i /\ Result(i, code).code = code
<1> QED BY DEF Result, Results

(* So has none.                                                             *)
LEMMA NoResultTyped == NoResult \in Results
<1> QED BY DEF NoResult, Results

(* Appending a result leaves the others.                                    *)
LEMMA AppendResult ==
    ASSUME NEW s \in Seq(Results), NEW r \in Results
    PROVE  /\ Append(s, r) \in Seq(Results)
           /\ DOMAIN Append(s, r) = 1 .. Len(s) + 1 /\ DOMAIN s = 1 .. Len(s) /\ Len(s) \in Nat
           /\ Append(s, r)[Len(s) + 1] = r
           /\ \A n \in 1 .. Len(s) : Append(s, r)[n] = s[n]
<1> QED OBVIOUS

(* The initial state satisfies the invariant.                               *)
THEOREM InitHolds == Init => IInv
<1> SUFFICES ASSUME Init PROVE IInv
  OBVIOUS
<1>a. /\ fpos \in 1 .. Len(Input) + 1 /\ arrived \in 0 .. Len(Input) + 1
      /\ wjob \in [Workers -> DOMAIN Input \cup {0}]
  BY Constants DEF Init
<1>b. wout \in [Workers -> Results] /\ delivered \in Seq(Results)
  BY NoResultTyped DEF Init
<1>1. TypeOK
  BY <1>a, <1>b DEF Init, TypeOK
<1>2. Stages /\ Closing
  BY DEF Init, Stages, Closing
<1>3. Accounts
  BY DEF Init, Accounts, Busy, Reported
<1> QED BY <1>1, <1>2, <1>3 DEF IInv
-----------------------------------------------------------------------------
(* The feeder at input i: only its own variables and `jobs` change.         *)
LEMMA FeederTyped ==
    ASSUME NEW i \in 1 .. Len(Input) + 1, closed \subseteq {"jobs", "results"}, FeederAt(i)
    PROVE  /\ fpc' \in {"none", "pull", "offer", "emit", "done"}
           /\ fpos' \in 1 .. Len(Input) + 1 /\ parked' \in BOOLEAN
           /\ closed' \subseteq {"jobs", "results"}
<1> QED BY DEF FeederAt

(* A worker that has its result keeps the types.                            *)
LEMMA CompletesTyped ==
    ASSUME TypeOK, NEW w \in Workers, NEW r \in Results, Completes(w, r)
    PROVE  TypeOK'
<1> QED BY DEF Completes, TypeOK, feeder, outside

(* What a probe reports when it fails.                                      *)
LEMMA FailureTyped ==
    ASSUME TypeOK, NEW w \in Workers, ProbeFails(w)
    PROVE  \E r \in Results : Completes(w, r) /\ r.item = wjob[w]
<1>1. PICK code : Completes(w, Result(wjob[w], ProbeError(code)))
  BY DEF ProbeFails
<1>2. wjob[w] \in DOMAIN Input \cup {0}
  BY DEF TypeOK
<1>3. ProbeError(code) \in {"timeout", "probe"}
  BY DEF ProbeError
<1> QED BY <1>1, <1>2, <1>3, ResultTyped


(* Every step keeps the types.                                              *)
LEMMA TypeHolds == TypeOK /\ Closing /\ BusyHasJob /\ [Next]_vars => TypeOK'
<1> SUFFICES ASSUME TypeOK, Closing, BusyHasJob, [Next]_vars PROVE TypeOK'
  OBVIOUS
<1> USE Constants
<1>1. CASE UNCHANGED vars \/ Finished
  BY <1>1 DEF Finished, vars, TypeOK, worker, feeder, outside
<1>2. CASE Begin
  BY <1>2 DEF Begin, TypeOK, worker, feeder, outside
<1>3. CASE OpenFails
  BY <1>3 DEF OpenFails, TypeOK, worker, feeder, outside
<1>4. CASE StartFeeder
  <2>1. 1 \in 1 .. Len(Input) + 1
    OBVIOUS
  <2>2. FeederAt(1) /\ closed \subseteq {"jobs", "results"}
    BY <1>4 DEF StartFeeder, TypeOK
  <2> QED BY <1>4, <2>1, <2>2, FeederTyped DEF StartFeeder, TypeOK, worker, outside
<1>5. CASE Park
  BY <1>5 DEF Park, TypeOK, worker, feeder, outside
<1>6. CASE FeederCancelled
  BY <1>6 DEF FeederCancelled, FeederReturns, TypeOK, worker, feeder, outside
<1>7. CASE UpstreamClosed
  BY <1>7 DEF UpstreamClosed, FeederReturns, TypeOK, worker, feeder, outside
<1>8. CASE Pull
  BY <1>8 DEF Pull, TypeOK, worker, feeder, outside
<1>9. CASE EmitDiscoveryError
  <2>1. fpos \in DOMAIN Input /\ fpos + 1 \in 1 .. Len(Input) + 1
    BY <1>9 DEF EmitDiscoveryError, Closing, TypeOK
  <2>2. FeederAt(fpos + 1) /\ closed \subseteq {"jobs", "results"}
    BY <1>9 DEF EmitDiscoveryError, TypeOK
  <2>3. delivered' \in Seq(Results)
    BY <1>9, <2>1, ResultTyped, AppendResult DEF EmitDiscoveryError, TypeOK
  <2> QED BY <1>9, <2>1, <2>2, <2>3, FeederTyped DEF EmitDiscoveryError, TypeOK, worker, outside
<1>10. CASE CloseResults
  BY <1>10 DEF CloseResults, TypeOK, worker, feeder, outside
<1>11. CASE UpstreamOffers
  BY <1>11 DEF UpstreamOffers, TypeOK, worker, feeder, outside
<1>12. CASE UpstreamCloses
  BY <1>12 DEF UpstreamCloses, TypeOK, worker, feeder, outside
<1>13. CASE Cancel
  BY <1>13 DEF Cancel, TypeOK, worker, feeder, outside
<1>14. CASE Leave
  BY <1>14 DEF Leave, TypeOK, worker, feeder, outside
<1>15. ASSUME NEW w \in Workers, OpenSocket(w) PROVE TypeOK'
  BY <1>15 DEF OpenSocket, TypeOK, worker, feeder, outside
<1>16. ASSUME NEW w \in Workers, HandOver(w) PROVE TypeOK'
  <2>1. fpos \in DOMAIN Input /\ fpos + 1 \in 1 .. Len(Input) + 1
    BY <1>16 DEF HandOver, Closing, TypeOK
  <2>2. FeederAt(fpos + 1) /\ closed \subseteq {"jobs", "results"}
    BY <1>16 DEF HandOver, TypeOK
  <2>3. /\ wpc' \in [Workers -> {"none", "idle", "probe", "wait", "send", "gone"}]
        /\ wjob' \in [Workers -> DOMAIN Input \cup {0}]
    BY <1>16, <2>1 DEF HandOver, TypeOK
  <2> QED BY <1>16, <2>1, <2>2, <2>3, FeederTyped DEF HandOver, TypeOK, outside
<1>17. ASSUME NEW w \in Workers, ProbeSends(w) PROVE TypeOK'
  BY <1>17 DEF ProbeSends, TypeOK, feeder, outside
<1>18. ASSUME NEW w \in Workers, ProbeFails(w) PROVE TypeOK'
  BY <1>18, FailureTyped, CompletesTyped
<1>19. ASSUME NEW w \in Workers, Deliver(w) PROVE TypeOK'
  <2>1. wout[w] \in Results
    BY DEF TypeOK
  <2>2. delivered' \in Seq(Results)
    BY <1>19, <2>1, AppendResult DEF Deliver, TypeOK
  <2>3. /\ wout' \in [Workers -> Results]
        /\ wpc' \in [Workers -> {"none", "idle", "probe", "wait", "send", "gone"}]
    BY <1>19, NoResultTyped DEF Deliver, TypeOK
  <2> QED BY <1>19, <2>2, <2>3 DEF Deliver, TypeOK, feeder, outside
<1>20. ASSUME NEW w \in Workers, WorkerExits(w) PROVE TypeOK'
  BY <1>20 DEF WorkerExits, TypeOK, worker, feeder, outside
<1>21. ASSUME NEW w \in Workers, ProbeAnswered(w) PROVE TypeOK'
  <2>1. wjob[w] \in DOMAIN Input \cup {0}
    BY DEF TypeOK
  <2> QED BY <1>21, <2>1, ResultTyped, CompletesTyped DEF ProbeAnswered
<1> QED
  BY <1>1, <1>2, <1>3, <1>4, <1>5, <1>6, <1>7, <1>8, <1>9, <1>10, <1>11, <1>12,
     <1>13, <1>14, <1>15, <1>16, <1>17, <1>18, <1>19, <1>20, <1>21
  DEF Next, FeederStep, WorkerStep

(* Every step keeps the stages of feeder, workers and collector in order.   *)
LEMMA StagesHold == TypeOK /\ Stages /\ [Next]_vars => Stages'
<1> SUFFICES ASSUME TypeOK, Stages, [Next]_vars PROVE Stages'
  OBVIOUS
<1>a. /\ wpc \in [Workers -> {"none", "idle", "probe", "wait", "send", "gone"}]
      /\ sock \in [Workers -> {"none", "open", "closed"}]
  BY DEF TypeOK
<1>1. CASE UNCHANGED vars \/ Finished
  BY <1>1, <1>a DEF Finished, vars, Stages, Accepted, worker, feeder, outside
<1>2. CASE Begin
  BY <1>2, <1>a DEF Begin, Stages, Accepted, worker, feeder, outside
<1>3. CASE OpenFails
  BY <1>3, <1>a DEF OpenFails, Stages, Accepted, worker, feeder, outside
<1>4. CASE StartFeeder
  BY <1>4, <1>a DEF StartFeeder, FeederAt, Stages, Accepted, worker, feeder, outside
<1>5. CASE Park
  BY <1>5, <1>a DEF Park, Stages, Accepted, worker, feeder, outside
<1>6. CASE FeederCancelled
  BY <1>6, <1>a DEF FeederCancelled, FeederReturns, Stages, Accepted, worker, feeder, outside
<1>7. CASE UpstreamClosed
  BY <1>7, <1>a DEF UpstreamClosed, FeederReturns, Stages, Accepted, worker, feeder, outside
<1>8. CASE Pull
  BY <1>8, <1>a DEF Pull, Stages, Accepted, worker, feeder, outside
<1>9. CASE EmitDiscoveryError
  BY <1>9, <1>a DEF EmitDiscoveryError, FeederAt, Stages, Accepted, worker, feeder, outside
<1>10. CASE CloseResults
  BY <1>10, <1>a DEF CloseResults, Stages, Accepted, worker, feeder, outside
<1>11. CASE UpstreamOffers
  BY <1>11, <1>a DEF UpstreamOffers, Stages, Accepted, worker, feeder, outside
<1>12. CASE UpstreamCloses
  BY <1>12, <1>a DEF UpstreamCloses, Stages, Accepted, worker, feeder, outside
<1>13. CASE Cancel
  BY <1>13, <1>a DEF Cancel, Stages, Accepted, worker, feeder, outside
<1>14. CASE Leave
  BY <1>14, <1>a DEF Leave, Stages, Accepted, worker, feeder, outside
<1>15. ASSUME NEW w \in Workers, OpenSocket(w) PROVE Stages'
  BY <1>15, <1>a DEF OpenSocket, Stages, Accepted, worker, feeder, outside
<1>16. ASSUME NEW w \in Workers, HandOver(w) PROVE Stages'
  <2>1. setup = "started" /\ wpc[w] = "idle"
    BY <1>16 DEF HandOver, Idle, Stages
  <2>2. fpc' # "none"
    BY <1>16 DEF HandOver, FeederAt
  <2>3. wpc' = [wpc EXCEPT ![w] = "probe"] /\ UNCHANGED <<setup, sock, request>>
    BY <1>16 DEF HandOver, outside
  <2> QED BY <1>a, <2>1, <2>2, <2>3 DEF Stages, Accepted
<1>17. ASSUME NEW w \in Workers, ProbeSends(w) PROVE Stages'
  BY <1>17, <1>a DEF ProbeSends, Stages, Accepted, worker, feeder, outside
<1>18. ASSUME NEW w \in Workers, ProbeFails(w) PROVE Stages'
  <2>1. wpc[w] \notin {"none", "idle", "gone"}
    BY <1>18 DEF ProbeFails
  <2>2. wpc' = [wpc EXCEPT ![w] = "send"]
    BY <1>18 DEF ProbeFails, Completes
  <2>3. UNCHANGED <<setup, sock, fpc, fpos, closed, delivered, request>>
    BY <1>18 DEF ProbeFails, Completes, feeder, outside
  <2> QED BY <1>a, <2>1, <2>2, <2>3 DEF Stages, Accepted
<1>19. ASSUME NEW w \in Workers, Deliver(w) PROVE Stages'
  BY <1>19, <1>a DEF Deliver, Stages, Accepted, worker, feeder, outside
<1>20. ASSUME NEW w \in Workers, WorkerExits(w) PROVE Stages'
  BY <1>20, <1>a DEF WorkerExits, Stages, Accepted, worker, feeder, outside
<1>21. ASSUME NEW w \in Workers, ProbeAnswered(w) PROVE Stages'
  <2>1. wpc[w] \notin {"none", "idle", "gone"}
    BY <1>21 DEF ProbeAnswered
  <2>2. wpc' = [wpc EXCEPT ![w] = "send"]
    BY <1>21 DEF ProbeAnswered, Completes
  <2>3. UNCHANGED <<setup, sock, fpc, fpos, closed, delivered, request>>
    BY <1>21 DEF ProbeAnswered, Completes, feeder, outside
  <2> QED BY <1>a, <2>1, <2>2, <2>3 DEF Stages, Accepted
<1> QED
  BY <1>1, <1>2, <1>3, <1>4, <1>5, <1>6, <1>7, <1>8, <1>9, <1>10, <1>11, <1>12,
     <1>13, <1>14, <1>15, <1>16, <1>17, <1>18, <1>19, <1>20, <1>21
  DEF Next, FeederStep, WorkerStep

(* A channel is closed once, when nobody sends to it any more.              *)
LEMMA ClosingHolds == TypeOK /\ Stages /\ Closing /\ [Next]_vars => Closing'
<1> SUFFICES ASSUME TypeOK, Stages, Closing, [Next]_vars PROVE Closing'
  OBVIOUS
<1>a. /\ wpc \in [Workers -> {"none", "idle", "probe", "wait", "send", "gone"}]
      /\ sock \in [Workers -> {"none", "open", "closed"}]
  BY DEF TypeOK
<1>b. fpos \in 1 .. Len(Input) + 1 /\ Len(Input) \in Nat
  BY Constants DEF TypeOK
<1>1. CASE UNCHANGED vars \/ Finished
  BY <1>1, <1>a, <1>b DEF Finished, vars, Closing, worker, feeder, outside
<1>2. CASE Begin
  BY <1>2, <1>a, <1>b DEF Begin, Closing, worker, feeder, outside
<1>3. CASE OpenFails
  BY <1>3, <1>a, <1>b DEF OpenFails, Closing, worker, feeder, outside
<1>4. CASE StartFeeder
  BY <1>4, <1>a, <1>b DEF StartFeeder, FeederAt, Stages, Closing, worker, feeder, outside
<1>5. CASE Park
  BY <1>5, <1>a, <1>b DEF Park, Closing, worker, feeder, outside
<1>6. CASE FeederCancelled
  BY <1>6, <1>a, <1>b DEF FeederCancelled, FeederReturns, Closing, worker, feeder, outside
<1>7. CASE UpstreamClosed
  BY <1>7, <1>a, <1>b DEF UpstreamClosed, FeederReturns, Closing, worker, feeder, outside
<1>8. CASE Pull
  BY <1>8, <1>a, <1>b DEF Pull, Closing, worker, feeder, outside
<1>9. CASE EmitDiscoveryError
  BY <1>9, <1>a, <1>b DEF EmitDiscoveryError, FeederAt, Closing, worker, feeder, outside
<1>10. CASE CloseResults
  BY <1>10, <1>a, <1>b DEF CloseResults, Closing, worker, feeder, outside
<1>11. CASE UpstreamOffers
  BY <1>11, <1>a, <1>b DEF UpstreamOffers, Closing, worker, feeder, outside
<1>12. CASE UpstreamCloses
  BY <1>12, <1>a, <1>b DEF UpstreamCloses, Closing, worker, feeder, outside
<1>13. CASE Cancel
  BY <1>13, <1>a, <1>b DEF Cancel, Closing, worker, feeder, outside
<1>14. CASE Leave
  BY <1>14, <1>a, <1>b DEF Leave, Closing, worker, feeder, outside
<1>15. ASSUME NEW w \in Workers, OpenSocket(w) PROVE Closing'
  BY <1>15, <1>a, <1>b DEF OpenSocket, Closing, worker, feeder, outside
<1>16. ASSUME NEW w \in Workers, HandOver(w) PROVE Closing'
  BY <1>16, <1>a, <1>b DEF HandOver, FeederAt, Closing, worker, feeder, outside
<1>17. ASSUME NEW w \in Workers, ProbeSends(w) PROVE Closing'
  BY <1>17, <1>a, <1>b DEF ProbeSends, Closing, worker, feeder, outside
<1>18. ASSUME NEW w \in Workers, ProbeFails(w) PROVE Closing'
  <2>1. wpc[w] \notin {"none", "idle", "gone"}
    BY <1>18 DEF ProbeFails
  <2>2. wpc' = [wpc EXCEPT ![w] = "send"]
    BY <1>18 DEF ProbeFails, Completes
  <2>3. UNCHANGED <<setup, fpc, fpos, closed, ctxDone>>
    BY <1>18 DEF ProbeFails, Completes, feeder, outside
  <2> QED BY <1>a, <2>1, <2>2, <2>3 DEF Closing
<1>19. ASSUME NEW w \in Workers, Deliver(w) PROVE Closing'
  BY <1>19, <1>a, <1>b DEF Deliver, Closing, worker, feeder, outside
<1>20. ASSUME NEW w \in Workers, WorkerExits(w) PROVE Closing'
  BY <1>20, <1>a, <1>b DEF WorkerExits, Closing, worker, feeder, outside
<1>21. ASSUME NEW w \in Workers, ProbeAnswered(w) PROVE Closing'
  <2>1. wpc[w] \notin {"none", "idle", "gone"}
    BY <1>21 DEF ProbeAnswered
  <2>2. wpc' = [wpc EXCEPT ![w] = "send"]
    BY <1>21 DEF ProbeAnswered, Completes
  <2>3. UNCHANGED <<setup, fpc, fpos, closed, ctxDone>>
    BY <1>21 DEF ProbeAnswered, Completes, feeder, outside
  <2> QED BY <1>a, <2>1, <2>2, <2>3 DEF Closing
<1> QED
  BY <1>1, <1>2, <1>3, <1>4, <1>5, <1>6, <1>7, <1>8, <1>9, <1>10, <1>11, <1>12,
     <1>13, <1>14, <1>15, <1>16, <1>17, <1>18, <1>19, <1>20, <1>21
  DEF Next, FeederStep, WorkerStep
-----------------------------------------------------------------------------
(* A result that is reported is reported once more.                         *)
LEMMA ReportedAppend ==
    ASSUME delivered \in Seq(Results), NEW r \in Results, delivered' = Append(delivered, r)
    PROVE  /\ Reported' = Reported \cup {r.item}
           /\ (\A m, n \in DOMAIN delivered : delivered[m].item = delivered[n].item => m = n)
              /\ r.item \notin Reported
              => \A m, n \in DOMAIN delivered' : delivered'[m].item = delivered'[n].item => m = n
<1> DEFINE N == Len(delivered)
<1>1. /\ DOMAIN delivered' = 1 .. N + 1 /\ DOMAIN delivered = 1 .. N /\ N \in Nat
      /\ delivered'[N + 1] = r /\ \A n \in 1 .. N : delivered'[n] = delivered[n]
  BY AppendResult
<1> HIDE DEF N
<1>2. \A n \in 1 .. N + 1 : n \in 1 .. N \/ n = N + 1
  BY <1>1
<1>3. 1 .. N \subseteq 1 .. N + 1 /\ N + 1 \in 1 .. N + 1
  BY <1>1
<1>4. Reported' = Reported \cup {r.item}
  BY <1>1, <1>2, <1>3 DEF Reported
<1>5. ASSUME \A m, n \in DOMAIN delivered : delivered[m].item = delivered[n].item => m = n,
             r.item \notin Reported,
             NEW m \in DOMAIN delivered', NEW n \in DOMAIN delivered',
             delivered'[m].item = delivered'[n].item
      PROVE  m = n
  <2>1. \A k \in 1 .. N : delivered[k].item # r.item
    BY <1>1, <1>5 DEF Reported
  <2>2. CASE m \in 1 .. N /\ n \in 1 .. N
    BY <1>1, <1>5, <2>2
  <2>3. CASE m = N + 1 \/ n = N + 1
    BY <1>1, <1>2, <1>5, <2>1, <2>3
  <2> QED BY <1>1, <1>2, <2>2, <2>3
<1> QED BY <1>4, <1>5

(* Delivered results, held jobs and the feeder's place stay as they are.    *)
LEMMA AccountsKept ==
    ASSUME Accounts, UNCHANGED <<delivered, wjob, fpos>>,
           \A w \in Workers : Busy(w)' <=> Busy(w),
           \A w \in Workers : wpc'[w] = "send" => wout'[w].item = wjob[w]
    PROVE  Accounts'
<1>1. Reported' = Reported
  BY DEF Reported
<1> HIDE DEF Busy
<1> QED BY <1>1 DEF Accounts

(* The servers before the feeder, and the one it is at.                     *)
LEMMA InRange ==
    ASSUME TypeOK
    PROVE  /\ fpos \in Nat /\ fpos >= 1
           /\ \A i \in 1 .. fpos : i \in 1 .. fpos - 1 \/ i = fpos
           /\ 1 .. fpos - 1 \subseteq 1 .. fpos /\ fpos \in 1 .. fpos
           /\ (fpos + 1) - 1 = fpos /\ fpos \notin 1 .. fpos - 1
<1>1. fpos \in Nat /\ fpos >= 1
  BY Constants DEF TypeOK
<1> QED BY <1>1

(* A job handed over is still accounted for once.                           *)
LEMMA HandOverAccounts ==
    ASSUME TypeOK, Accounts, NEW w \in Workers, HandOver(w)
    PROVE  Accounts'
<1>a. /\ wpc \in [Workers -> {"none", "idle", "probe", "wait", "send", "gone"}]
      /\ wjob \in [Workers -> DOMAIN Input \cup {0}]
  BY DEF TypeOK
<1>1. /\ wpc[w] = "idle" /\ wpc' = [wpc EXCEPT ![w] = "probe"]
      /\ wjob' = [wjob EXCEPT ![w] = fpos]
      /\ fpos' = fpos + 1 /\ UNCHANGED <<delivered, wout>>
  BY DEF HandOver, Idle, FeederAt, outside
<1>2. Reported' = Reported
  BY <1>1 DEF Reported
<1>3. fpos' - 1 = fpos
  BY <1>1, InRange
<1>4. /\ Busy(w)' /\ ~Busy(w) /\ wjob'[w] = fpos
      /\ \A v \in Workers : v # w => (Busy(v)' <=> Busy(v)) /\ wjob'[v] = wjob[v]
  BY <1>a, <1>1 DEF Busy
<1>5. fpos \notin Reported
  BY InRange DEF Accounts, Reported
<1>6. \A v \in Workers : wpc'[v] = "send" => wpc[v] = "send" /\ v # w
  BY <1>a, <1>1
<1>7. \A v \in Workers : Busy(v) => wjob[v] # fpos
  BY InRange DEF Accounts
<1>8. /\ \A n \in DOMAIN delivered' : delivered'[n].item \in 1 .. fpos' - 1
      /\ \A m, n \in DOMAIN delivered' : delivered'[m].item = delivered'[n].item => m = n
  BY <1>1, <1>3, InRange DEF Accounts
<1>9. \A v \in Workers : Busy(v)' => wjob'[v] \in 1 .. fpos' - 1 /\ wjob'[v] \notin Reported'
  BY <1>2, <1>3, <1>4, <1>5, InRange DEF Accounts
<1>10. \A u, v \in Workers : Busy(u)' /\ Busy(v)' /\ wjob'[u] = wjob'[v] => u = v
  BY <1>4, <1>7 DEF Accounts
<1>11. \A i \in 1 .. fpos' - 1 : i \in Reported' \/ \E v \in Workers : Busy(v)' /\ wjob'[v] = i
  <2> SUFFICES ASSUME NEW i \in 1 .. fpos PROVE i \in Reported \/ \E v \in Workers : Busy(v)' /\ wjob'[v] = i
    BY <1>2, <1>3
  <2>1. CASE i = fpos
    BY <1>4, <2>1
  <2>2. CASE i \in 1 .. fpos - 1
    <3>1. i \in Reported \/ \E v \in Workers : Busy(v) /\ wjob[v] = i
      BY <2>2 DEF Accounts
    <3> QED BY <1>4, <3>1
  <2> QED BY <2>1, <2>2, InRange
<1>12. \A v \in Workers : wpc'[v] = "send" => wout'[v].item = wjob'[v]
  BY <1>1, <1>4, <1>6 DEF Accounts
<1> QED BY <1>8, <1>9, <1>10, <1>11, <1>12 DEF Accounts

(* So is one the feeder reports as a discovery error.                       *)
LEMMA EmitAccounts ==
    ASSUME TypeOK, Closing, Accounts, EmitDiscoveryError
    PROVE  Accounts'
<1> DEFINE r == Result(fpos, "discovery")
<1>0. fpos \in DOMAIN Input
  BY Constants DEF EmitDiscoveryError, Closing, TypeOK
<1>1. /\ delivered' = Append(delivered, r) /\ fpos' = fpos + 1
      /\ UNCHANGED <<wpc, wjob, wout>>
  BY DEF EmitDiscoveryError, FeederAt, worker
<1>2. delivered \in Seq(Results) /\ r \in Results /\ r.item = fpos
  BY <1>0, ResultTyped DEF TypeOK
<1> HIDE DEF r
<1>3. fpos' - 1 = fpos
  BY <1>1, InRange
<1>4. fpos \notin Reported
  BY InRange DEF Accounts, Reported
<1>5. /\ Reported' = Reported \cup {fpos}
      /\ \A m, n \in DOMAIN delivered' : delivered'[m].item = delivered'[n].item => m = n
  BY <1>1, <1>2, <1>4, ReportedAppend DEF Accounts
<1>6. \A v \in Workers : Busy(v)' <=> Busy(v)
  BY <1>1 DEF Busy
<1>7. \A i \in Reported' : i \in 1 .. fpos
  <2>1. \A i \in Reported : i \in 1 .. fpos - 1
    BY DEF Accounts, Reported
  <2>2. \A i \in Reported : i \in 1 .. fpos
    BY <2>1, InRange
  <2>3. fpos \in 1 .. fpos
    BY InRange
  <2> QED BY <1>5, <2>2, <2>3, Zenon
<1>8. \A n \in DOMAIN delivered' : delivered'[n].item \in 1 .. fpos' - 1
  BY <1>3, <1>7 DEF Reported
<1>9. \A v \in Workers : Busy(v)' => wjob'[v] \in 1 .. fpos' - 1 /\ wjob'[v] \notin Reported'
  BY <1>1, <1>3, <1>5, <1>6, InRange DEF Accounts
<1>10. \A u, v \in Workers : Busy(u)' /\ Busy(v)' /\ wjob'[u] = wjob'[v] => u = v
  BY <1>1, <1>6 DEF Accounts
<1>11. \A i \in 1 .. fpos' - 1 : i \in Reported' \/ \E v \in Workers : Busy(v)' /\ wjob'[v] = i
  BY <1>1, <1>3, <1>5, <1>6, InRange DEF Accounts
<1>12. \A v \in Workers : wpc'[v] = "send" => wout'[v].item = wjob'[v]
  BY <1>1 DEF Accounts
<1> QED BY <1>5, <1>8, <1>9, <1>10, <1>11, <1>12 DEF Accounts

(* And a result a worker delivers.                                          *)
LEMMA DeliverAccounts ==
    ASSUME TypeOK, Accounts, NEW w \in Workers, Deliver(w)
    PROVE  Accounts'
<1>a. wpc \in [Workers -> {"none", "idle", "probe", "wait", "send", "gone"}]
      /\ wout \in [Workers -> Results] /\ delivered \in Seq(Results)
  BY DEF TypeOK
<1>1. /\ wpc[w] = "send" /\ wpc' = [wpc EXCEPT ![w] = "idle"]
      /\ delivered' = Append(delivered, wout[w]) /\ wout' = [wout EXCEPT ![w] = NoResult]
      /\ UNCHANGED <<wjob, fpos>>
  BY DEF Deliver, feeder
<1>2. Busy(w) /\ wout[w] \in Results /\ wout[w].item = wjob[w]
  BY <1>a, <1>1 DEF Busy, Accounts
<1>3. wjob[w] \in 1 .. fpos - 1 /\ wjob[w] \notin Reported
  BY <1>2 DEF Accounts
<1>4. /\ Reported' = Reported \cup {wjob[w]}
      /\ \A m, n \in DOMAIN delivered' : delivered'[m].item = delivered'[n].item => m = n
  BY <1>a, <1>1, <1>2, <1>3, ReportedAppend DEF Accounts
<1>5. /\ ~Busy(w)'
      /\ \A v \in Workers : v # w => (Busy(v)' <=> Busy(v)) /\ wout'[v] = wout[v] /\ wpc'[v] = wpc[v]
  BY <1>a, <1>1 DEF Busy
<1>6. \A i \in Reported' : i \in 1 .. fpos - 1
  <2>1. \A i \in Reported : i \in 1 .. fpos - 1
    BY DEF Accounts, Reported
  <2> QED BY <1>3, <1>4, <2>1
<1>7. \A n \in DOMAIN delivered' : delivered'[n].item \in 1 .. fpos' - 1
  BY <1>1, <1>6 DEF Reported
<1>8. \A v \in Workers : Busy(v)' => v # w /\ Busy(v)
  BY <1>5
<1>9. \A v \in Workers : Busy(v)' => wjob'[v] \in 1 .. fpos' - 1 /\ wjob'[v] \notin Reported'
  BY <1>1, <1>2, <1>4, <1>8 DEF Accounts
<1>10. \A u, v \in Workers : Busy(u)' /\ Busy(v)' /\ wjob'[u] = wjob'[v] => u = v
  BY <1>1, <1>8 DEF Accounts
<1>11. \A i \in 1 .. fpos' - 1 : i \in Reported' \/ \E v \in Workers : Busy(v)' /\ wjob'[v] = i
  <2> SUFFICES ASSUME NEW i \in 1 .. fpos - 1 PROVE i \in Reported' \/ \E v \in Workers : Busy(v)' /\ wjob'[v] = i
    BY <1>1
  <2>1. i \in Reported \/ \E v \in Workers : Busy(v) /\ wjob[v] = i
    BY DEF Accounts
  <2> QED BY <1>1, <1>4, <1>5, <2>1
<1>12. \A v \in Workers : wpc'[v] = "send" => wout'[v].item = wjob'[v]
  BY <1>1, <1>5 DEF Accounts, Busy
<1> QED BY <1>4, <1>7, <1>9, <1>10, <1>11, <1>12 DEF Accounts

(* Every server of the batch is in one place only, at every step.           *)
LEMMA AccountsHold == TypeOK /\ Stages /\ Closing /\ Accounts /\ [Next]_vars => Accounts'
<1> SUFFICES ASSUME TypeOK, Stages, Closing, Accounts, [Next]_vars PROVE Accounts'
  OBVIOUS
<1>a. /\ wpc \in [Workers -> {"none", "idle", "probe", "wait", "send", "gone"}]
      /\ wout \in [Workers -> Results]
  BY DEF TypeOK
<1>b. setup # "started" => fpos = 1
  BY DEF Stages
<1>c. \A w \in Workers : sock[w] = "none" => wpc[w] = "none"
  BY DEF Stages
<1>1. CASE UNCHANGED vars \/ Finished
  <2>1. UNCHANGED <<delivered, wjob, fpos, wpc, wout>>
    BY <1>1 DEF Finished, vars, worker, feeder, outside
  <2> QED BY <2>1, AccountsKept DEF Busy, Accounts
<1>2. CASE Begin
  <2>1. UNCHANGED <<delivered, wjob, fpos, wpc, wout>>
    BY <1>2 DEF Begin, worker, feeder, outside
  <2> QED BY <2>1, AccountsKept DEF Busy, Accounts
<1>3. CASE OpenFails
  <2>1. UNCHANGED <<delivered, wjob, fpos, wpc, wout>>
    BY <1>3 DEF OpenFails, worker, feeder, outside
  <2> QED BY <2>1, AccountsKept DEF Busy, Accounts
<1>4. CASE StartFeeder
  <2>1. UNCHANGED <<delivered, wjob, fpos, wpc, wout>>
    BY <1>4, <1>b DEF StartFeeder, FeederAt, worker, feeder, outside
  <2> QED BY <2>1, AccountsKept DEF Busy, Accounts
<1>5. CASE Park
  <2>1. UNCHANGED <<delivered, wjob, fpos, wpc, wout>>
    BY <1>5 DEF Park, worker, feeder, outside
  <2> QED BY <2>1, AccountsKept DEF Busy, Accounts
<1>6. CASE FeederCancelled
  <2>1. UNCHANGED <<delivered, wjob, fpos, wpc, wout>>
    BY <1>6 DEF FeederCancelled, FeederReturns, worker, feeder, outside
  <2> QED BY <2>1, AccountsKept DEF Busy, Accounts
<1>7. CASE UpstreamClosed
  <2>1. UNCHANGED <<delivered, wjob, fpos, wpc, wout>>
    BY <1>7 DEF UpstreamClosed, FeederReturns, worker, feeder, outside
  <2> QED BY <2>1, AccountsKept DEF Busy, Accounts
<1>8. CASE Pull
  <2>1. UNCHANGED <<delivered, wjob, fpos, wpc, wout>>
    BY <1>8 DEF Pull, worker, feeder, outside
  <2> QED BY <2>1, AccountsKept DEF Busy, Accounts
<1>9. CASE EmitDiscoveryError
  BY <1>9, EmitAccounts
<1>10. CASE CloseResults
  <2>1. UNCHANGED <<delivered, wjob, fpos, wpc, wout>>
    BY <1>10 DEF CloseResults, worker, feeder, outside
  <2> QED BY <2>1, AccountsKept DEF Busy, Accounts
<1>11. CASE UpstreamOffers
  <2>1. UNCHANGED <<delivered, wjob, fpos, wpc, wout>>
    BY <1>11 DEF UpstreamOffers, worker, feeder, outside
  <2> QED BY <2>1, AccountsKept DEF Busy, Accounts
<1>12. CASE UpstreamCloses
  <2>1. UNCHANGED <<delivered, wjob, fpos, wpc, wout>>
    BY <1>12 DEF UpstreamCloses, worker, feeder, outside
  <2> QED BY <2>1, AccountsKept DEF Busy, Accounts
<1>13. CASE Cancel
  <2>1. UNCHANGED <<delivered, wjob, fpos, wpc, wout>>
    BY <1>13 DEF Cancel, worker, feeder, outside
  <2> QED BY <2>1, AccountsKept DEF Busy, Accounts
<1>14. CASE Leave
  <2>1. UNCHANGED <<delivered, wjob, fpos, wpc, wout>>
    BY <1>14 DEF Leave, worker, feeder, outside
  <2> QED BY <2>1, AccountsKept DEF Busy, Accounts
<1>15. ASSUME NEW w \in Workers, OpenSocket(w) PROVE Accounts'
  <2>0. wpc[w] = "none"
    BY <1>15, <1>c DEF OpenSocket, NextWorker
  <2>1. UNCHANGED <<delivered, wjob, fpos, wout>> /\ wpc[w] \in {"none"}
        /\ wpc' = [wpc EXCEPT ![w] = "idle"]
    BY <1>15, <2>0 DEF OpenSocket, feeder, outside
  <2> QED BY <1>a, <2>1, AccountsKept DEF Busy, Accounts
<1>16. ASSUME NEW w \in Workers, HandOver(w) PROVE Accounts'
  BY <1>16, HandOverAccounts
<1>17. ASSUME NEW w \in Workers, ProbeSends(w) PROVE Accounts'
  <2>1. UNCHANGED <<delivered, wjob, fpos, wout>> /\ wpc[w] \in {"probe"}
        /\ wpc' = [wpc EXCEPT ![w] = "wait"]
    BY <1>17 DEF ProbeSends, feeder, outside
  <2> QED BY <1>a, <2>1, AccountsKept DEF Busy, Accounts
<1>18. ASSUME NEW w \in Workers, ProbeFails(w) PROVE Accounts'
  <2>1. PICK r \in Results : Completes(w, r) /\ r.item = wjob[w]
    BY <1>18, FailureTyped
  <2>2. /\ UNCHANGED <<delivered, wjob, fpos>> /\ wpc[w] \in {"probe", "wait"}
        /\ wpc' = [wpc EXCEPT ![w] = "send"] /\ wout' = [wout EXCEPT ![w] = r]
    BY <1>18, <2>1 DEF ProbeFails, Completes, feeder, outside
  <2>3. \A v \in Workers : wpc'[v] = "send" => wout'[v].item = wjob[v]
    BY <1>a, <2>1, <2>2 DEF Accounts
  <2> QED BY <1>a, <2>2, <2>3, AccountsKept DEF Busy
<1>19. ASSUME NEW w \in Workers, Deliver(w) PROVE Accounts'
  BY <1>19, DeliverAccounts
<1>20. ASSUME NEW w \in Workers, WorkerExits(w) PROVE Accounts'
  <2>1. UNCHANGED <<delivered, wjob, fpos, wout>> /\ wpc[w] \in {"idle"}
        /\ wpc' = [wpc EXCEPT ![w] = "gone"]
    BY <1>20 DEF WorkerExits, Idle, feeder, outside
  <2> QED BY <1>a, <2>1, AccountsKept DEF Busy, Accounts
<1>21. ASSUME NEW w \in Workers, ProbeAnswered(w) PROVE Accounts'
  <2>1. Result(wjob[w], "ok").item = wjob[w]
    BY DEF Result
  <2>2. /\ UNCHANGED <<delivered, wjob, fpos>> /\ wpc[w] \in {"probe", "wait"}
        /\ wpc' = [wpc EXCEPT ![w] = "send"] /\ wout' = [wout EXCEPT ![w] = Result(wjob[w], "ok")]
    BY <1>21, <2>1 DEF ProbeAnswered, Completes, feeder, outside
  <2>3. \A v \in Workers : wpc'[v] = "send" => wout'[v].item = wjob[v]
    BY <1>a, <2>1, <2>2 DEF Accounts
  <2> QED BY <1>a, <2>2, <2>3, AccountsKept DEF Busy
<1> QED
  BY <1>1, <1>2, <1>3, <1>4, <1>5, <1>6, <1>7, <1>8, <1>9, <1>10, <1>11, <1>12,
     <1>13, <1>14, <1>15, <1>16, <1>17, <1>18, <1>19, <1>20, <1>21
  DEF Next, FeederStep, WorkerStep

(* Every step preserves the invariant.                                      *)
THEOREM NextHolds == IInv /\ [Next]_vars => IInv'
<1>1. Accounts /\ TypeOK => BusyHasJob
  <2> SUFFICES ASSUME Accounts, TypeOK, NEW w \in Workers, Busy(w) PROVE wjob[w] # 0
    BY DEF BusyHasJob
  <2>1. wjob[w] \in 1 .. fpos - 1 /\ fpos \in Nat
    BY InRange DEF Accounts
  <2> QED BY <2>1
<1> QED BY <1>1, TypeHolds, StagesHold, ClosingHolds, AccountsHold DEF IInv

(* The invariant holds in every reachable state.                            *)
THEOREM SpecHolds == Spec => []IInv
<1> QED BY InitHolds, NextHolds, PTL DEF Spec

(* A sequence that lists 1 to m without repetition has length m.            *)
LEMMA ListLength ==
    ASSUME NEW m \in Nat, NEW n \in Nat, NEW f \in [1 .. n -> 1 .. m],
           \A i, j \in 1 .. n : f[i] = f[j] => i = j,
           \A k \in 1 .. m : \E i \in 1 .. n : f[i] = k
    PROVE  n = m
<1>1. f \in Bijection(1 .. n, 1 .. m)
  BY DEF Bijection, Injection, Surjection, IsInjective
<1>2. ExistsBijection(1 .. n, 1 .. m)
  BY <1>1 DEF ExistsBijection
<1>3. Cardinality(1 .. m) = n
  BY <1>2, FS_CountingElements
<1>4. Cardinality(1 .. m) = IF 1 > m THEN 0 ELSE m - 1 + 1
  BY FS_Interval
<1> QED BY <1>3, <1>4

(* Every variable keeps its type for any number of workers and inputs       *)
(* (scanner/client.go:165-237).                                             *)
THEOREM ScannerTyped == Spec => []TypeOK
<1>1. IInv => TypeOK
  BY DEF IInv
<1> QED BY <1>1, SpecHolds, PTL

(* No goroutine of a scan sends on a channel another has closed             *)
(* (scanner/client.go:184-196).                                             *)
THEOREM NeverSendsOnClosed == Spec => []NoSendOnClosed
<1>1. IInv => NoSendOnClosed
  <2> SUFFICES ASSUME IInv PROVE NoSendOnClosed
    OBVIOUS
  <2>1. ASSUME "results" \in closed PROVE fpc = "done"
    <3>1. 1 \in Workers
      BY Constants DEF Workers
    <3>2. "jobs" \in closed
      BY <2>1, <3>1 DEF IInv, Closing
    <3> QED BY <3>2 DEF IInv, Closing
  <2> QED BY <2>1 DEF IInv, Closing, NoSendOnClosed
<1> QED BY <1>1, SpecHolds, PTL

(* Every input gives one result, in any interleaving                        *)
(* (scanner/client.go:178-180, 201-237).                                    *)
THEOREM EveryInputReportedOnce == Spec => []OneResultEach
<1>1. IInv => OneResultEach
  <2> SUFFICES ASSUME IInv PROVE OneResultEach
    OBVIOUS
  <2>1. ASSUME "results" \in closed
        PROVE  Reported = 1 .. Len(delivered) /\ (ctxDone \/ Reported = DOMAIN Input)
    <3>1. \A w \in Workers : wpc[w] = "gone"
      BY <2>1 DEF IInv, Closing
    <3>2. 1 \in Workers
      BY Constants DEF Workers
    <3>3. fpc = "done"
      BY <3>1, <3>2 DEF IInv, Closing
    <3>4. \A i \in 1 .. fpos - 1 : i \in Reported
      BY <3>1 DEF IInv, Accounts, Busy
    <3>5. Reported = 1 .. fpos - 1
      BY <3>4 DEF IInv, Accounts, Reported
    <3> DEFINE f == [n \in 1 .. Len(delivered) |-> delivered[n].item]
    <3>6. DOMAIN delivered = 1 .. Len(delivered) /\ Len(delivered) \in Nat
      BY DEF IInv, TypeOK
    <3>7. fpos - 1 \in Nat
      BY InRange DEF IInv
    <3>8. f \in [1 .. Len(delivered) -> 1 .. fpos - 1]
      BY <3>6 DEF IInv, Accounts
    <3>9. \A i, j \in 1 .. Len(delivered) : f[i] = f[j] => i = j
      BY <3>6 DEF IInv, Accounts
    <3>10. \A k \in 1 .. fpos - 1 : \E i \in 1 .. Len(delivered) : f[i] = k
      BY <3>4, <3>6 DEF Reported
    <3> HIDE DEF f
    <3>11. Len(delivered) = fpos - 1
      BY <3>6, <3>7, <3>8, <3>9, <3>10, ListLength
    <3>12. ctxDone \/ fpos - 1 = Len(Input)
      BY <3>3, Constants DEF IInv, Closing
    <3> QED BY <3>5, <3>11, <3>12, Constants
  <2> QED BY <2>1 DEF IInv, Accounts, OneResultEach
<1> QED BY <1>1, SpecHolds, PTL

(* A closed stream leaves neither socket nor goroutine behind               *)
(* (scanner/client.go:150-163, 175-196).                                    *)
THEOREM ClosedLeavesNothing == Spec => []NothingLeftOpen
<1>1. IInv => NothingLeftOpen
  <2> SUFFICES ASSUME IInv PROVE NothingLeftOpen
    OBVIOUS
  <2>1. ASSUME "results" \in closed
        PROVE  fpc = "done" /\ \A w \in Workers : sock[w] = "closed" /\ wpc[w] = "gone"
    <3>1. \A w \in Workers : wpc[w] = "gone"
      BY <2>1 DEF IInv, Closing
    <3>2. 1 \in Workers
      BY Constants DEF Workers
    <3>3. fpc = "done"
      BY <3>1, <3>2 DEF IInv, Closing
    <3> QED BY <3>1, <3>3 DEF IInv, Stages
  <2>2. ASSUME ~Accepted
        PROVE  \A w \in Workers : sock[w] = "none" /\ wpc[w] = "none"
    BY <2>2 DEF IInv, Stages
  <2> QED BY <2>1, <2>2 DEF NothingLeftOpen
<1> QED BY <1>1, SpecHolds, PTL
=============================================================================
