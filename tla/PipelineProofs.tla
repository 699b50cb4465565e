--------------------------- MODULE PipelineProofs ---------------------------
(* For any list, page size, number of workers and stray pages: a scan that  *)
(* is fed by a master stream never takes a list that was cut short for the  *)
(* whole, and has one result for each server of each page that was read.    *)
EXTENDS Pipeline, TLAPS

Busy(w) == wpc[w] \in {"probe", "send"}

Reported(k) == k \in DOMAIN got

Typed ==
    /\ spc \in {"query", "send", "error", "closed"}
    /\ read \in Seq(Nat) /\ page \in Seq(Nat) /\ done \in BOOLEAN /\ strays \in Nat
    /\ fpc \in {"pull", "offer", "emit", "done"} /\ fitem \in Nat
    /\ wpc \in [Workers -> {"idle", "probe", "send", "gone"}]
    /\ wjob \in [Workers -> Nat]
    /\ rclosed \in BOOLEAN /\ DOMAIN got \subseteq Nat /\ left \in BOOLEAN
    /\ ended \subseteq {"stream", "scan"}

(* The items the feeder has taken from the stream are 1 .. Taken: the page  *)
(* holds the next ones, in order.                                           *)
Taken == Len(read) - Len(page)

PageInv ==
    /\ Len(page) <= Len(read)
    /\ \A i \in DOMAIN page : page[i] = Taken + i
    /\ spc = "send" => page # <<>>
    /\ spc \in {"query", "error"} => page = <<>>

(* As long as no stray page was read, the pages were the list in order, and *)
(* the terminator came at its end.                                          *)
ListInv ==
    strays = 0 =>
        /\ Len(read) <= Listed
        /\ \A i \in DOMAIN read : read[i] = i
        /\ done => Len(read) = Listed

(* An item that was taken is in one place: with the feeder, with one       *)
(* worker, or reported.                                                     *)
Apart ==
    /\ \A k \in DOMAIN got : got[k] = 1 /\ k <= Taken
    /\ fpc = "offer" => fitem \in 1 .. Taken /\ ~Reported(fitem)
    /\ \A w \in Workers : Busy(w) =>
          /\ wjob[w] \in 1 .. Taken /\ ~Reported(wjob[w])
          /\ fpc = "offer" => fitem # wjob[w]
          /\ \A v \in Workers : Busy(v) /\ wjob[v] = wjob[w] => v = w

(* The stream's error goes the same way, once.                              *)
ErrorInv == fpc = "emit" \/ Reported(Failure) => spc = "closed"

EmitInv == fpc = "emit" => ~Reported(Failure)

(* As long as no context has ended nothing is dropped, and the stream ends  *)
(* with the list or with an error for the feeder.                           *)
NothingLost ==
    ended = {} =>
        /\ \A k \in 1 .. Taken :
              \/ Reported(k) \/ (fpc = "offer" /\ fitem = k)
              \/ \E w \in Workers : Busy(w) /\ wjob[w] = k
        /\ spc = "closed" => page = <<>>
        /\ spc = "closed" => fpc = "emit" \/ Reported(Failure) \/ done
        /\ fpc = "done" => spc = "closed"

(* The results close last.                                                  *)
EndInv ==
    /\ \A w \in Workers : wpc[w] = "gone" => fpc = "done"
    /\ rclosed => \A w \in Workers : wpc[w] = "gone"

IInv == Typed /\ PageInv /\ ListInv /\ Apart /\ ErrorInv /\ EmitInv /\ NothingLost /\ EndInv
-----------------------------------------------------------------------------
(* The initial state satisfies the invariant.                               *)
LEMMA InitInv == Init => IInv
<1> SUFFICES ASSUME Init PROVE IInv
  OBVIOUS
<1>1. /\ read = <<>> /\ page = <<>> /\ got = <<>> /\ Len(page) = 0 /\ Len(read) = 0
      /\ DOMAIN page = {} /\ DOMAIN got = {} /\ DOMAIN read = {}
  BY DEF Init
<1>2. Typed
  <2>1. <<>> \in Seq(Nat)
    OBVIOUS
  <2>2. /\ wpc \in [Workers -> {"idle", "probe", "send", "gone"}]
        /\ wjob \in [Workers -> Nat]
    BY DEF Init, Failure
  <2> QED
    BY <1>1, <2>1, <2>2 DEF Init, Typed, Failure
<1>3. PageInv /\ ListInv /\ Apart /\ ErrorInv /\ EmitInv /\ NothingLost /\ EndInv
  BY <1>1, PipelineAssumption
  DEF Init, PageInv, ListInv, Apart, ErrorInv, EmitInv, NothingLost, EndInv, Taken, Reported, Busy
<1> QED
  BY <1>2, <1>3 DEF IInv

(* The consumer receives one result more, the first for its item.           *)
LEMMA ReceivesOne ==
    ASSUME NEW k \in Nat, Receives(k), ~Reported(k), DOMAIN got \subseteq Nat,
           \A j \in DOMAIN got : got[j] = 1
    PROVE  /\ DOMAIN got' \subseteq Nat
           /\ \A j : Reported(j)' <=> (Reported(j) \/ j = k)
           /\ \A j \in DOMAIN got' : got'[j] = 1
<1>1. got' = [e \in DOMAIN got \cup {k} |-> IF e = k THEN 1 ELSE got[e]]
  BY DEF Receives, BagAdd, Reported
<1> QED
  BY <1>1 DEF Reported
-----------------------------------------------------------------------------
(* A page is read: items not yet taken, and the servers they stand for.     *)
LEMMA PageRead ==
    ASSUME IInv, NEW servers \in Seq(Nat), NEW last \in BOOLEAN, ReadPage(servers, last),
           strays' \in Nat, ListInv'
    PROVE  IInv'
<1> USE DEF IInv, feeder, workers, consumer
<1>1. /\ read \in Seq(Nat) /\ read' = read \o servers
      /\ page' = [i \in 1 .. Len(servers) |-> Len(read) + i]
      /\ done' = last /\ Continues(page', last)
      /\ spc = "query" /\ page = <<>> /\ Len(page) = 0 /\ Taken = Len(read)
      /\ UNCHANGED <<fpc, fitem, wpc, wjob, rclosed, got, left, ended>>
  BY DEF ReadPage, Typed, PageInv, Taken
<1>2. Len(servers) \in Nat /\ Len(read) \in Nat
  BY <1>1
<1>3. read' \in Seq(Nat) /\ Len(read') = Len(read) + Len(servers)
  BY <1>1
<1>4. page' \in Seq(Nat) /\ Len(page') = Len(servers) /\ DOMAIN page' = 1 .. Len(servers)
      /\ \A i \in 1 .. Len(servers) : page'[i] = Len(read) + i
  BY <1>1, <1>2
<1>5. Taken' = Taken
  BY <1>1, <1>2, <1>3, <1>4 DEF Taken
<1>6. /\ page' # <<>> => spc' = "send"
      /\ page' = <<>> => spc' = IF last THEN "closed" ELSE "query"
  BY <1>1 DEF Continues
<1>7. page' = <<>> \/ page' # <<>>
  OBVIOUS
<1>8. Typed'
  BY <1>1, <1>3, <1>4, <1>6, <1>7 DEF Typed
<1>9. PageInv'
  BY <1>1, <1>2, <1>3, <1>4, <1>5, <1>6, <1>7 DEF PageInv
<1>10. Apart' /\ EmitInv' /\ EndInv'
  BY <1>1, <1>5 DEF Apart, EmitInv, EndInv, Reported, Busy
<1>11. ErrorInv'
  BY <1>1 DEF ErrorInv, Reported
<1>12. NothingLost'
  BY <1>1, <1>5, <1>6, <1>7 DEF NothingLost, Reported, Busy
<1> QED
  BY <1>8, <1>9, <1>10, <1>11, <1>12

(* The servers of a page.                                                   *)
LEMMA SliceOf ==
    ASSUME NEW c \in Nat, NEW n \in Nat
    PROVE  /\ Slice(c, n) \in Seq(Nat) /\ Len(Slice(c, n)) = n
           /\ \A i \in 1 .. n : Slice(c, n)[i] = c + i
BY DEF Slice

(* The answer to the request goes on where the list was left.               *)
LEMMA AnsweredInv == ASSUME IInv, QueryAnswered PROVE IInv'
<1> USE DEF IInv
<1>1. PICK n \in 0 .. PageSize, last \in BOOLEAN :
         Follows(Behind(Cursor), n, last) /\ ReadPage(Slice(Behind(Cursor), n), last)
  BY DEF QueryAnswered
<1> DEFINE c == Behind(Cursor)
<1>2. Cursor \in Nat /\ c \in Nat /\ n \in Nat
  BY PipelineAssumption DEF Typed, Cursor, Behind
<1>3. strays' = strays
  BY DEF QueryAnswered
<1>4. ListInv'
  <2> SUFFICES ASSUME strays = 0 PROVE ListInv'
    BY <1>3 DEF ListInv
  <2>1. /\ read \in Seq(Nat) /\ Len(read) \in Nat /\ Len(read) <= Listed /\ DOMAIN read = 1 .. Len(read)
        /\ \A i \in 1 .. Len(read) : read[i] = i
    BY DEF ListInv, Typed
  <2>2. read # <<>> => Len(read) \in 1 .. Len(read)
    BY <2>1
  <2>3. c = Len(read)
    BY <2>1, <2>2 DEF Cursor, Behind
  <2> HIDE DEF c
  <2>4. /\ read' = read \o Slice(c, n) /\ done' = last
        /\ c + n <= Listed /\ (last => c + n = Listed)
    BY <1>1 DEF ReadPage, Follows, c
  <2>5. /\ Slice(c, n) \in Seq(Nat) /\ Len(Slice(c, n)) = n
        /\ \A i \in 1 .. n : Slice(c, n)[i] = c + i
    BY <1>2, SliceOf
  <2>6. Len(read') = c + n /\ DOMAIN read' = 1 .. c + n
    BY <2>1, <2>3, <2>4, <2>5, <1>2
  <2>7. ASSUME NEW i \in 1 .. c + n PROVE read'[i] = i
    <3>1. read'[i] = IF i <= Len(read) THEN read[i] ELSE Slice(c, n)[i - Len(read)]
      BY <2>1, <2>3, <2>4, <2>5, <1>2
    <3>2. CASE i <= Len(read)
      BY <2>1, <2>3, <3>1, <3>2
    <3>3. CASE ~(i <= Len(read))
      <4>1. i - c \in 1 .. n
        BY <1>2, <2>3, <3>3
      <4> QED
        BY <1>2, <2>3, <2>5, <3>1, <3>3, <4>1
    <3> QED
      BY <3>2, <3>3
  <2> QED
    BY <2>4, <2>6, <2>7 DEF ListInv
<1>5. Slice(c, n) \in Seq(Nat)
  BY <1>2, SliceOf
<1>6. strays' \in Nat
  BY <1>3 DEF Typed
<1> QED
  BY <1>1, <1>4, <1>5, <1>6, PageRead

(* A stray page may hold anything.                                          *)
LEMMA MisledInv == ASSUME IInv, QueryMisled PROVE IInv'
<1> USE DEF IInv
<1>1. /\ strays' \in Nat /\ strays' # 0
  BY DEF QueryMisled, Typed
<1>2. PICK n \in 0 .. PageSize, last \in BOOLEAN :
         \E c \in 0 .. Listed : ReadPage(Slice(c, n), last)
  <2>1. Listed \in 0 .. Listed
    BY PipelineAssumption
  <2> QED
    BY <2>1 DEF QueryMisled
<1>3. PICK c \in 0 .. Listed : ReadPage(Slice(c, n), last)
  BY <1>2
<1>4. c \in Nat /\ n \in Nat
  BY PipelineAssumption
<1>5. Slice(c, n) \in Seq(Nat)
  BY <1>4, SliceOf
<1>6. ListInv'
  BY <1>1 DEF ListInv
<1> QED
  BY <1>1, <1>3, <1>5, <1>6, PageRead

(* A failed query, and a stream whose context has ended.                    *)
LEMMA StreamEndsInv == ASSUME IInv, QueryFails \/ StreamCancelled PROVE IInv'
<1> USE DEF IInv, pages, feeder, workers, consumer
<1>1. /\ UNCHANGED <<read, page, done, strays, fpc, fitem, wpc, wjob, rclosed, got, left, ended>>
      /\ Taken' = Taken
  BY DEF QueryFails, StreamCancelled, Taken
<1>2. \/ spc = "query" /\ spc' = "error"
      \/ spc \in {"send", "error"} /\ spc' = "closed" /\ ended # {}
  BY DEF QueryFails, StreamCancelled
<1>3. Typed' /\ PageInv' /\ ListInv' /\ Apart' /\ EmitInv' /\ EndInv' /\ ErrorInv'
  BY <1>1, <1>2 DEF Typed, PageInv, ListInv, Apart, EmitInv, EndInv, ErrorInv, Reported, Busy
<1>4. NothingLost'
  BY <1>1, <1>2 DEF NothingLost, Reported, Busy
<1> QED
  BY <1>3, <1>4

(* The feeder takes the next server, which nobody has had.                  *)
LEMMA TakeServerInv == ASSUME IInv, TakeServer PROVE IInv'
<1> USE DEF IInv, pages, workers, consumer
<1>1. /\ page \in Seq(Nat) /\ page # <<>> /\ Len(read) \in Nat
      /\ spc = "send" /\ fpc = "pull" /\ fpc' = "offer"
      /\ fitem' = Head(page) /\ page' = Tail(page)
      /\ UNCHANGED <<read, done, strays, wpc, wjob, rclosed, got, left, ended>>
  BY PipelineAssumption DEF TakeServer, Typed, PageInv
<1>2. /\ Len(page) \in Nat \ {0} /\ Len(page') = Len(page) - 1 /\ page' \in Seq(Nat)
      /\ DOMAIN page = 1 .. Len(page) /\ DOMAIN page' = 1 .. Len(page) - 1
      /\ \A i \in 1 .. Len(page) - 1 : page'[i] = page[i + 1]
      /\ fitem' = page[1]
  BY <1>1
<1>3. Taken \in Nat /\ Taken' = Taken + 1 /\ fitem' = Taken + 1
  BY <1>1, <1>2 DEF Taken, PageInv
<1>4. /\ page' # <<>> => spc' = "send"
      /\ page' = <<>> => spc' = IF done THEN "closed" ELSE "query"
  BY DEF TakeServer, Continues
<1>5. page' # <<>> \/ page' = <<>>
  OBVIOUS
<1>6. Typed'
  BY <1>1, <1>2, <1>3, <1>4 DEF Typed
<1>7. PageInv'
  <2>1. Len(page') <= Len(read')
    BY <1>1, <1>2 DEF PageInv
  <2>2. ASSUME NEW i \in 1 .. Len(page) - 1 PROVE page'[i] = Taken' + i
    <3>1. i + 1 \in 1 .. Len(page) /\ page'[i] = page[i + 1]
      BY <1>2
    <3>2. page[i + 1] = Taken + (i + 1)
      BY <1>2, <3>1 DEF PageInv
    <3> QED
      BY <1>3, <3>1, <3>2
  <2> QED
    BY <1>1, <1>2, <1>4, <2>1, <2>2 DEF PageInv
<1>8. \A k : Reported(k)' <=> Reported(k)
  BY <1>1 DEF Reported
<1>9. \A k \in DOMAIN got : k \in Nat /\ got[k] = 1 /\ k <= Taken
  BY DEF Typed, Apart
<1>10. ~Reported(Taken + 1)
  BY <1>3, <1>9 DEF Reported
<1>11. Apart'
  <2>1. \A k \in DOMAIN got' : got'[k] = 1 /\ k <= Taken'
    BY <1>1, <1>3, <1>9
  <2>3. fitem' \in 1 .. Taken' /\ ~Reported(fitem)'
    BY <1>3, <1>8, <1>10
  <2>4. ASSUME NEW w \in Workers, Busy(w)'
        PROVE  /\ wjob'[w] \in 1 .. Taken' /\ ~Reported(wjob[w])'
               /\ fitem' # wjob'[w]
               /\ \A v \in Workers : Busy(v)' /\ wjob'[v] = wjob'[w] => v = w
    <3>1. Busy(w) /\ wjob' = wjob /\ wpc' = wpc
      BY <1>1, <2>4 DEF Busy
    <3>2. wjob[w] \in 1 .. Taken /\ ~Reported(wjob[w])
      BY <3>1 DEF Apart
    <3>3. \A v \in Workers : Busy(v) /\ wjob[v] = wjob[w] => v = w
      BY <3>1 DEF Apart
    <3> QED
      BY <1>3, <1>8, <3>1, <3>2, <3>3 DEF Busy
  <2> QED
    BY <2>1, <2>3, <2>4 DEF Apart
<1>12. ErrorInv' /\ EmitInv' /\ EndInv'
  BY <1>1, <1>4, <1>8 DEF ErrorInv, EmitInv, EndInv
<1>13. NothingLost'
  <2> SUFFICES ASSUME ended = {} PROVE NothingLost'
    BY <1>1 DEF NothingLost
  <2>1. ASSUME NEW k \in 1 .. Taken'
        PROVE  \/ Reported(k)' \/ (fpc' = "offer" /\ fitem' = k)
               \/ \E w \in Workers : Busy(w)' /\ wjob'[w] = k
    <3>1. CASE k = Taken + 1
      BY <1>1, <1>3, <3>1
    <3>2. CASE k \in 1 .. Taken
      BY <1>1, <1>8, <3>2 DEF NothingLost, Busy
    <3> QED
      BY <1>3, <3>1, <3>2
  <2>2. spc' = "closed" => page' = <<>> /\ done'
    BY <1>1, <1>4 DEF PageInv
  <2> QED
    BY <1>1, <2>1, <2>2 DEF NothingLost
<1>14. ListInv'
  BY <1>1 DEF ListInv
<1> QED
  BY <1>6, <1>7, <1>11, <1>12, <1>13, <1>14
-----------------------------------------------------------------------------
(* The feeder takes the stream's error.                                     *)
LEMMA TakeErrorInv == ASSUME IInv, TakeError PROVE IInv'
<1> USE DEF IInv, pages, workers, consumer
<1>1. /\ spc = "error" /\ spc' = "closed" /\ fpc = "pull" /\ fpc' = "emit" /\ Taken' = Taken
      /\ UNCHANGED <<read, page, done, strays, fitem, wpc, wjob, rclosed, got, left, ended>>
  BY DEF TakeError, Taken
<1>2. Typed' /\ PageInv' /\ ListInv' /\ Apart' /\ EndInv'
  BY <1>1 DEF Typed, PageInv, ListInv, Apart, EndInv, Reported, Busy
<1>3. ErrorInv' /\ EmitInv'
  BY <1>1 DEF ErrorInv, EmitInv, Reported
<1>4. NothingLost'
  BY <1>1 DEF NothingLost, PageInv, Reported, Busy
<1> QED
  BY <1>2, <1>3, <1>4

(* The feeder ends: with the stream, or with its context.                   *)
LEMMA FeederEndsInv == ASSUME IInv, FeederCancelled \/ StreamEnded PROVE IInv'
<1> USE DEF IInv, stream, pages, workers, consumer, FeederReturns
<1>1. /\ fpc \in {"pull", "offer"} /\ fpc' = "done" /\ Taken' = Taken
      /\ UNCHANGED <<spc, read, page, done, strays, fitem, wpc, wjob, rclosed, got, left, ended>>
      /\ ended # {} \/ (fpc = "pull" /\ spc = "closed")
  BY DEF FeederCancelled, StreamEnded, Taken
<1>2. Typed' /\ PageInv' /\ ListInv' /\ Apart' /\ EndInv' /\ ErrorInv' /\ EmitInv'
  BY <1>1 DEF Typed, PageInv, ListInv, Apart, EndInv, ErrorInv, EmitInv, Reported, Busy
<1>3. NothingLost'
  BY <1>1 DEF NothingLost, Reported, Busy
<1> QED
  BY <1>2, <1>3

(* The error is emitted as a result, once.                                  *)
LEMMA EmitErrorInv == ASSUME IInv, EmitError PROVE IInv'
<1> USE DEF IInv, stream, pages, workers
<1>1. /\ fpc = "emit" /\ fpc' = "pull" /\ Receives(0) /\ Taken' = Taken /\ Taken \in Nat
      /\ UNCHANGED <<spc, read, page, done, strays, fitem, wpc, wjob, rclosed, left, ended>>
  BY DEF EmitError, Receives, Taken, Typed, PageInv, Failure
<1>2. ~Reported(0) /\ DOMAIN got \subseteq Nat /\ \A j \in DOMAIN got : got[j] = 1
  BY <1>1 DEF Failure, Typed, EmitInv, Apart
<1>3. /\ DOMAIN got' \subseteq Nat
      /\ \A k : Reported(k)' <=> (Reported(k) \/ k = 0)
      /\ \A k \in DOMAIN got' : got'[k] = 1 /\ k <= Taken'
  <2>1. /\ DOMAIN got' \subseteq Nat
        /\ \A k : Reported(k)' <=> (Reported(k) \/ k = 0)
        /\ \A k \in DOMAIN got' : got'[k] = 1
    BY <1>1, <1>2, ReceivesOne
  <2>2. ASSUME NEW k \in DOMAIN got' PROVE k <= Taken'
    <3>1. k \in DOMAIN got \/ k = 0
      BY <2>1, <2>2 DEF Reported
    <3> QED
      BY <1>1, <3>1 DEF Apart
  <2> QED
    BY <2>1, <2>2
<1>4. Typed' /\ PageInv' /\ ListInv' /\ EndInv' /\ EmitInv'
  BY <1>1, <1>3 DEF Typed, PageInv, ListInv, EndInv, EmitInv
<1>5. ErrorInv'
  BY <1>1 DEF ErrorInv
<1>6. Apart'
  BY <1>1, <1>3 DEF Apart, Busy
<1>7. NothingLost'
  BY <1>1, <1>3 DEF NothingLost, Busy, Failure
<1> QED
  BY <1>4, <1>5, <1>6, <1>7

(* The feeder's server becomes a worker's job.                              *)
LEMMA HandOverInv == ASSUME IInv, NEW w \in Workers, HandOver(w) PROVE IInv'
<1> USE DEF IInv, stream, pages, consumer
<1>1. /\ fpc = "offer" /\ fpc' = "pull" /\ wpc[w] = "idle" /\ Taken' = Taken
      /\ wpc' = [wpc EXCEPT ![w] = "probe"] /\ wjob' = [wjob EXCEPT ![w] = fitem]
      /\ UNCHANGED <<spc, read, page, done, strays, fitem, rclosed, got, left, ended>>
  BY DEF HandOver, Taken
<1>2. /\ wpc'[w] = "probe" /\ wjob'[w] = fitem
      /\ \A v \in Workers \ {w} : wpc'[v] = wpc[v] /\ wjob'[v] = wjob[v]
  BY <1>1 DEF Typed
<1>3. \A k : Reported(k)' <=> Reported(k)
  BY <1>1 DEF Reported
<1>4. \A v \in Workers : Busy(v)' <=> (Busy(v) \/ v = w)
  BY <1>2 DEF Busy
<1>5. ~Busy(w)
  BY <1>1 DEF Busy
<1>6. Typed' /\ PageInv' /\ ListInv' /\ ErrorInv' /\ EmitInv'
  BY <1>1, <1>3 DEF Typed, PageInv, ListInv, ErrorInv, EmitInv
<1>7. EndInv'
  BY <1>1, <1>2 DEF EndInv
<1>8. Apart'
  <2>1. fitem \in 1 .. Taken /\ ~Reported(fitem)
    BY <1>1 DEF Apart
  <2>2. \A v \in Workers : Busy(v) =>
           /\ wjob[v] \in 1 .. Taken /\ ~Reported(wjob[v]) /\ wjob[v] # fitem
           /\ \A u \in Workers : Busy(u) /\ wjob[u] = wjob[v] => u = v
    BY <1>1 DEF Apart
  <2>3. ASSUME NEW v \in Workers, Busy(v)'
        PROVE  /\ wjob'[v] \in 1 .. Taken' /\ ~Reported(wjob[v])'
               /\ \A u \in Workers : Busy(u)' /\ wjob'[u] = wjob'[v] => u = v
    BY <1>1, <1>2, <1>3, <1>4, <1>5, <2>1, <2>2, <2>3
  <2> QED
    BY <1>1, <2>3 DEF Apart
<1>9. NothingLost'
  <2> SUFFICES ASSUME ended = {} PROVE NothingLost'
    BY <1>1 DEF NothingLost
  <2>1. ASSUME NEW k \in 1 .. Taken'
        PROVE  \/ Reported(k)' \/ (fpc' = "offer" /\ fitem' = k)
               \/ \E v \in Workers : Busy(v)' /\ wjob'[v] = k
    BY <1>1, <1>2, <1>3, <1>4, <1>5 DEF NothingLost
  <2> QED
    BY <1>1, <1>3, <2>1 DEF NothingLost
<1> QED
  BY <1>6, <1>7, <1>8, <1>9

(* A probe ends.                                                            *)
LEMMA ProbeInv == ASSUME IInv, NEW w \in Workers, Probe(w) PROVE IInv'
<1> USE DEF IInv, stream, pages, feeder, consumer
<1>1. /\ wpc[w] = "probe" /\ Taken' = Taken
      /\ wpc' = [wpc EXCEPT ![w] = "send"]
      /\ UNCHANGED <<spc, read, page, done, strays, fpc, fitem, wjob, rclosed, got, left, ended>>
  BY DEF Probe, Taken
<1>2. \A v \in Workers : (Busy(v)' <=> Busy(v)) /\ (wpc'[v] = "gone" <=> wpc[v] = "gone")
  BY <1>1 DEF Busy, Typed
<1>3. Typed' /\ PageInv' /\ ListInv' /\ ErrorInv' /\ EmitInv'
  BY <1>1 DEF Typed, PageInv, ListInv, ErrorInv, EmitInv, Reported
<1>4. Apart' /\ NothingLost' /\ EndInv'
  BY <1>1, <1>2 DEF Apart, NothingLost, EndInv, Reported
<1> QED
  BY <1>3, <1>4

(* Its result is received, the first for its server.                        *)
LEMMA DeliverInv == ASSUME IInv, NEW w \in Workers, Deliver(w) PROVE IInv'
<1> USE DEF IInv, stream, pages, feeder
<1>2. /\ wpc[w] = "send" /\ Receives(wjob[w]) /\ Taken' = Taken
      /\ wpc' = [wpc EXCEPT ![w] = "idle"]
      /\ UNCHANGED <<spc, read, page, done, strays, fpc, fitem, wjob, rclosed, left, ended>>
  BY DEF Deliver, Receives, Taken
<1>3. /\ \A v \in Workers : Busy(v)' <=> (Busy(v) /\ v # w)
      /\ \A v \in Workers : wpc'[v] = "gone" => wpc[v] = "gone"
      /\ Busy(w) /\ ~rclosed
  BY <1>2 DEF Busy, Typed, EndInv
<1>4. /\ ~Reported(wjob[w]) /\ wjob[w] \in 1 .. Taken /\ wjob[w] \in Nat
      /\ DOMAIN got \subseteq Nat /\ \A j \in DOMAIN got : got[j] = 1
      /\ Taken \in Nat
  BY <1>3 DEF Typed, Apart, PageInv, Taken
<1>5. /\ DOMAIN got' \subseteq Nat
      /\ \A k : Reported(k)' <=> (Reported(k) \/ k = wjob[w])
      /\ \A k \in DOMAIN got' : got'[k] = 1 /\ k <= Taken'
  <2>1. /\ DOMAIN got' \subseteq Nat
        /\ \A k : Reported(k)' <=> (Reported(k) \/ k = wjob[w])
        /\ \A k \in DOMAIN got' : got'[k] = 1
    BY <1>2, <1>4, ReceivesOne
  <2>2. ASSUME NEW k \in DOMAIN got' PROVE k <= Taken'
    <3>1. k \in DOMAIN got \/ k = wjob[w]
      BY <2>1, <2>2 DEF Reported
    <3> QED
      BY <1>2, <1>4, <3>1 DEF Apart
  <2> QED
    BY <2>1, <2>2
<1>6. Typed' /\ PageInv' /\ ListInv' /\ EndInv'
  BY <1>2, <1>3, <1>5 DEF Typed, PageInv, ListInv, EndInv
<1>7. ErrorInv' /\ EmitInv'
  BY <1>2, <1>4, <1>5 DEF ErrorInv, EmitInv, Failure
<1>8. Apart'
  BY <1>2, <1>3, <1>5 DEF Apart
<1>9. NothingLost'
  <2> SUFFICES ASSUME ended = {} PROVE NothingLost'
    BY <1>2 DEF NothingLost
  <2>1. ASSUME NEW k \in 1 .. Taken'
        PROVE  \/ Reported(k)' \/ (fpc' = "offer" /\ fitem' = k)
               \/ \E v \in Workers : Busy(v)' /\ wjob'[v] = k
    BY <1>2, <1>3, <1>5 DEF NothingLost
  <2> QED
    BY <1>2, <1>5, <2>1 DEF NothingLost
<1> QED
  BY <1>6, <1>7, <1>8, <1>9

(* Workers leave when no job can come, and the results close after them.    *)
LEMMA ExitInv ==
    ASSUME IInv, (\E w \in Workers : WorkerExits(w)) \/ CloseResults
    PROVE  IInv'
<1> USE DEF IInv, stream, pages, feeder, workers, consumer
<1>1. CASE CloseResults
  <2>1. /\ rclosed' = TRUE /\ \A w \in Workers : wpc[w] = "gone"
        /\ UNCHANGED <<spc, read, page, done, strays, fpc, fitem, wpc, wjob, got, left, ended>>
    BY <1>1 DEF CloseResults
  <2> QED
    BY <2>1 DEF Typed, PageInv, ListInv, Apart, ErrorInv, EmitInv, NothingLost, EndInv, Taken, Reported, Busy
<1>2. ASSUME NEW w \in Workers, WorkerExits(w) PROVE IInv'
  <2>1. /\ wpc[w] = "idle" /\ fpc = "done" /\ Taken' = Taken
        /\ wpc' = [wpc EXCEPT ![w] = "gone"]
        /\ UNCHANGED <<spc, read, page, done, strays, fpc, fitem, wjob, rclosed, got, left, ended>>
    BY <1>2 DEF WorkerExits, Taken
  <2>2. \A v \in Workers : (Busy(v)' <=> Busy(v)) /\ (wpc'[v] = "gone" => wpc[v] = "gone" \/ v = w)
    BY <2>1 DEF Busy, Typed
  <2>3. Typed' /\ PageInv' /\ ListInv' /\ ErrorInv' /\ EmitInv'
    BY <2>1 DEF Typed, PageInv, ListInv, ErrorInv, EmitInv, Reported
  <2>4. Apart' /\ NothingLost' /\ EndInv'
    BY <2>1, <2>2 DEF Apart, NothingLost, EndInv, Reported
  <2> QED
    BY <2>3, <2>4
<1> QED
  BY <1>1, <1>2

(* Contexts, Close and the consumer's leaving.                              *)
LEMMA WorldInv == ASSUME IInv, Cancel \/ Leave \/ Finished \/ UNCHANGED vars PROVE IInv'
<1> USE DEF IInv, stream, pages, feeder, workers, consumer
<1>1. /\ UNCHANGED <<spc, read, page, done, strays, fpc, fitem, wpc, wjob, rclosed, got>>
      /\ Taken' = Taken /\ left' \in BOOLEAN
      /\ ended' \subseteq {"stream", "scan"} /\ (ended' = {} => ended = {})
  BY DEF Cancel, Leave, Finished, vars, Typed, Taken
<1> QED
  BY <1>1 DEF Typed, PageInv, ListInv, Apart, ErrorInv, EmitInv, NothingLost, EndInv, Reported, Busy

(* Every step preserves the invariant.                                      *)
LEMMA NextInv == IInv /\ [Next]_vars => IInv'
<1> SUFFICES ASSUME IInv, [Next]_vars PROVE IInv'
  OBVIOUS
<1>1. CASE StreamStep
  BY <1>1, AnsweredInv, MisledInv, StreamEndsInv DEF StreamStep
<1>2. CASE FeederStep
  BY <1>2, TakeServerInv, TakeErrorInv, FeederEndsInv, EmitErrorInv, HandOverInv DEF FeederStep
<1>3. ASSUME NEW w \in Workers, Probe(w) \/ Deliver(w) \/ WorkerExits(w) PROVE IInv'
  BY <1>3, ProbeInv, DeliverInv, ExitInv
<1>4. CASE CloseResults
  BY <1>4, ExitInv
<1>5. CASE Cancel \/ Leave \/ Finished \/ UNCHANGED vars
  BY <1>5, WorldInv
<1> QED
  BY <1>1, <1>2, <1>3, <1>4, <1>5 DEF Next
-----------------------------------------------------------------------------
(* A list that was cut short is never taken for the whole: every server of  *)
(* the pages read has one result, and without an error and stray pages they *)
(* are the list (master/client.go:81-106, 124-147,                          *)
(* scanner/client.go:225-228).                                              *)
THEOREM NeverEndsSilently == Spec => []NoSilentEnd
<1>1. ASSUME IInv PROVE NoSilentEnd
  <2>1. Typed /\ PageInv /\ ListInv /\ Apart /\ NothingLost /\ EndInv
    BY <1>1 DEF IInv
  <2>2. \A k \in DOMAIN got : got[k] = 1
    BY <2>1 DEF Apart
  <2>3. ASSUME rclosed, ended = {}
        PROVE  /\ DOMAIN got \ {Failure} = DOMAIN read
               /\ Failed \/ done
               /\ strays = 0 => Failed \/ read = Slice(0, Listed)
    <3>1. 1 \in Workers
      BY PipelineAssumption DEF Workers
    <3>2. fpc = "done" /\ spc = "closed" /\ page = <<>> /\ \A w \in Workers : ~Busy(w)
      BY <2>1, <2>3, <3>1 DEF EndInv, NothingLost, Busy
    <3>3. Taken = Len(read) /\ Len(read) \in Nat /\ DOMAIN read = 1 .. Len(read)
      BY <2>1, <3>2 DEF Taken, Typed
    <3>4. \A k \in 1 .. Len(read) : k \in DOMAIN got
      BY <2>1, <2>3, <3>2, <3>3 DEF NothingLost, Reported
    <3>5. \A k \in DOMAIN got : k \in Nat /\ k <= Len(read)
      BY <2>1, <3>3 DEF Apart, Typed
    <3>6. DOMAIN got \ {Failure} = DOMAIN read
      BY <3>3, <3>4, <3>5 DEF Failure
    <3>7. Failed \/ done
      BY <2>1, <2>3, <3>2 DEF NothingLost, Reported, Failed
    <3>8. ASSUME strays = 0, ~Failed PROVE read = Slice(0, Listed)
      <4>1. Len(read) = Listed /\ \A i \in 1 .. Listed : read[i] = i
        BY <2>1, <3>3, <3>7, <3>8 DEF ListInv
      <4>2. Slice(0, Listed) \in Seq(Nat) /\ Len(Slice(0, Listed)) = Listed
            /\ \A i \in 1 .. Listed : Slice(0, Listed)[i] = i
        <5>1. /\ Slice(0, Listed) \in Seq(Nat) /\ Len(Slice(0, Listed)) = Listed
              /\ \A i \in 1 .. Listed : Slice(0, Listed)[i] = 0 + i
          BY PipelineAssumption, SliceOf
        <5> QED
          BY <5>1, PipelineAssumption
      <4>3. read \in Seq(Nat)
        BY <2>1 DEF Typed
      <4> QED
        BY <4>1, <4>2, <4>3
    <3> QED
      BY <3>6, <3>7, <3>8
  <2> QED
    BY <2>2, <2>3 DEF NoSilentEnd
<1> QED
  BY InitInv, NextInv, <1>1, PTL DEF Spec
=============================================================================
