-------------------------- MODULE SharedConnProofs --------------------------
(* For any number of clients on one socket, with any timeouts and contexts: *)
(* nobody reads longer than the latest deadline, and queries in turns end   *)
(* in their time and return the replies to their own requests, unless one   *)
(* before them gave up or the network repeats a datagram. And for any       *)
(* readers of any sockets: the buffers they borrow from the one pool are    *)
(* never shared (BufferPool).                                               *)
EXTENDS SharedConn, BufferPool, TLAPS

Places == {"new", "send", "receive", "again", "next", "wait", "blocked", "returned"}

Codes == {"none", "ok", "timeout", "decode", "multi_packet"}

Types ==
    /\ now \in Nat /\ rd \in Nat
    /\ pc \in [Queries -> Places]
    /\ reader \in Queries \cup {NoQuery}
    /\ dl \in [Queries -> Nat] /\ began \in [Queries -> Nat] /\ since \in [Queries -> Nat]
    /\ rounds \in [Queries -> Nat] /\ ended \in [Queries -> Nat]
    /\ asked \subseteq [by : Queries, n : Nat]
    /\ DOMAIN outcome = Queries /\ DOMAIN first = Queries
    /\ abreast \in BOOLEAN /\ dups \in Nat

Reading == \A q \in Queries : pc[q] = "blocked" <=> reader = q

(* A datagram answers a request of a query and comes from its target, or it *)
(* is the stranger's and answers none.                                      *)
Answering ==
    /\ served \subseteq asked
    /\ \A d \in net : \/ d.re \in served /\ d.src = Target[d.re.by]
                      \/ d.src = Stranger /\ d.re.by = NoQuery

(* No request is made twice.                                                *)
Numbered == \A r \in asked : pc[r.by] # "new" /\ r.n <= rounds[r.by]

(* A query keeps a fragment only while it reads, or when it has returned.   *)
AtFragments == \A q \in Queries : Collecting(q) => pc[q] \notin {"new", "send", "receive"}

InRead(q) == pc[q] \in {"again", "next", "wait", "blocked"}

(* A deadline never lies beyond the context or the timeout from now, so the *)
(* next one of the same query is no earlier; the one in the socket is some  *)
(* query's; and no reader is later than all of them.                        *)
Deadlines ==
    /\ \A q \in Queries : dl[q] <= CtxDeadline[q] /\ dl[q] <= now + Timeout[q]
    /\ \A q \in Queries : \E p \in Queries : rd <= dl[p]
    /\ \A q \in Queries : InRead(q) => \E p \in Queries : now <= dl[p]

(* Where a query that runs in its turn is in its time.                      *)
Spent(q) == Timeout[q] * rounds[q]

OnTime(q) ==
    /\ Running(q) => now <= CtxDeadline[q] \/ now = began[q]
    /\ pc[q] = "send" => now <= began[q] + Spent(q)
    /\ pc[q] = "receive" => since[q] = now /\ now < CtxDeadline[q]
    /\ pc[q] = "receive" \/ InRead(q) => since[q] + Timeout[q] <= began[q] + Spent(q)
    /\ InRead(q) => /\ now <= dl[q] /\ dl[q] <= since[q] + Timeout[q]
                    /\ dl[q] = since[q] + Timeout[q] \/ dl[q] = CtxDeadline[q]
    /\ pc[q] \in {"wait", "blocked"} => rd = dl[q]
    /\ pc[q] # "returned" => outcome[q].code = "none"

Turns ==
    ~abreast =>
        /\ \A p, q \in Queries : Running(p) /\ Running(q) => p = q
        /\ \A q \in Queries : OnTime(q) /\ FullTime(q) /\ TimeBound(q)

(* A request of q that may still bring something to the socket.             *)
Owed(q, r) ==
    /\ r \in asked /\ r.by = q
    /\ r \notin served \/ \E d \in net : d.re = r

(* Where nobody who asked its server gave up, a query that has returned is  *)
(* owed nothing, and one that waits nothing but the reply to its latest     *)
(* request, or what that reply still lacks.                                 *)
Tidy(q) ==
    /\ \A r \in asked : Owed(q, r) => Running(q) /\ pc[q] # "send"
    /\ \A r, o \in asked : Owed(q, r) /\ Owed(q, o) => r = o
    /\ \A d, e \in net : d.re = e.re /\ d.re.by = q => d = e \/ Completes(d, e)
    /\ Collecting(q) =>
          /\ \A r \in asked : Owed(q, r) => r = first[q].re /\ r \in served
          /\ \A d \in net : d.re = first[q].re /\ d.re.by = q => Completes(d, first[q])
    /\ outcome[q].code = "ok" => outcome[q].re.by = q

Trusted(q) == \A p \in Queries : Target[p] = Target[q] => ~GaveUp(p)

Replies == ~abreast /\ dups = 0 => \A q \in Queries : Trusted(q) => Tidy(q)

IInv ==
    /\ Types /\ Reading /\ Answering /\ Numbered /\ AtFragments
    /\ Deadlines /\ Turns /\ Replies
-----------------------------------------------------------------------------
(* One more round takes one more timeout.                                   *)
LEMMA OneMore ==
    ASSUME NEW t \in Nat, NEW n \in Nat
    PROVE  t * (n + 1) = t * n + t /\ t * n \in Nat
  OBVIOUS

(* What is assumed of the constants.                                        *)
LEMMA Constants ==
    /\ NoQuery \notin Queries
    /\ \A q \in Queries : /\ Target[q] # Stranger
                          /\ Timeout[q] \in Nat /\ Timeout[q] > 0 /\ CtxDeadline[q] \in Nat
  BY SharedAssumption

(* The invariant holds when nothing has been called.                        *)
THEOREM InitHolds == Init => IInv
<1> SUFFICES ASSUME Init PROVE IInv
  OBVIOUS
<1> USE Constants
<1>1. Types /\ Reading /\ Answering /\ Numbered /\ AtFragments
  BY DEF Init, Types, Reading, Answering, Numbered, AtFragments, Collecting, Places
<1>2. Deadlines
  BY DEF Init, Deadlines, InRead
<1>3. Turns
  BY DEF Init, Turns, OnTime, Running, InRead, FullTime, TimeBound, RanOut, NoOutcome, Nothing
<1>4. Replies
  BY DEF Init, Replies, Tidy, Owed, Collecting, NoOutcome
<1> QED BY <1>1, <1>2, <1>3, <1>4 DEF IInv

(* Every step keeps the types.                                              *)
LEMMA TypesKept == IInv /\ [Next]_vars => Types'
<1> SUFFICES ASSUME Types, [Next]_vars PROVE Types'
  BY DEF IInv
<1> USE Constants DEF Types, Places
<1>1. ASSUME NEW q \in Queries, Call(q) PROVE Types'
  BY <1>1 DEF Call, wire, servers
<1>2. ASSUME NEW q \in Queries, Send(q) PROVE Types'
  BY <1>2 DEF Send, NewRound, wire, servers
<1>3. ASSUME NEW q \in Queries, Receive(q) \/ SetAgain(q) PROVE Types'
  BY <1>3 DEF Receive, SetAgain, Deadline, wire, servers, ghosts
<1>4. ASSUME NEW q \in Queries, EnterRead(q) PROVE Types'
  BY <1>4 DEF EnterRead, wire, servers, ghosts
<1>5. ASSUME NEW q \in Queries, CtxStops(q) \/ TooLateToRead(q) \/ ReadTimesOut(q) PROVE Types'
  BY <1>5 DEF CtxStops, TooLateToRead, ReadTimesOut, OutOfTime, Return, wire, servers
<1>6. ASSUME NEW q \in Queries, NEW d \in net, DropForeign(q, d) \/ Challenged(q, d) PROVE Types'
  BY <1>6 DEF DropForeign, Challenged, Reads, wire, servers, ghosts
<1>7. ASSUME NEW q \in Queries, NEW d \in net, Answered(q, d) \/ CollectionFails(q, d) PROVE Types'
  BY <1>7 DEF Answered, CollectionFails, Return, Reads, wire, servers
<1>8. ASSUME NEW q \in Queries, NEW d \in net, OpenCollection(q, d) PROVE Types'
  BY <1>8 DEF OpenCollection, Reads, NewRound, Deadline, wire, servers
<1>9. ASSUME NEW r \in asked, Serve(r) PROVE Types'
  BY <1>9 DEF Serve, Serves, ghosts
<1>10. CASE StrangerSends
  BY <1>10 DEF StrangerSends, ghosts
<1>11. CASE Tick
  BY <1>11 DEF Tick, wire, servers, ghosts
<1>12. CASE UNCHANGED vars
  BY <1>12 DEF vars
<1> QED
  BY <1>1, <1>2, <1>3, <1>4, <1>5, <1>6, <1>7, <1>8, <1>9, <1>10, <1>11, <1>12
  DEF Next, Steps, Hears, Finished

(* Who reads the socket is the one who holds its lock.                      *)
LEMMA ReadingKept == IInv /\ [Next]_vars => Reading'
<1> SUFFICES ASSUME Types, Reading, [Next]_vars PROVE Reading'
  BY DEF IInv
<1> USE Constants DEF Types, Reading
<1>1. ASSUME NEW q \in Queries, Call(q) \/ Send(q) \/ Receive(q) \/ SetAgain(q) PROVE Reading'
  BY <1>1 DEF Call, Send, Receive, SetAgain
<1>2. ASSUME NEW q \in Queries, EnterRead(q) PROVE Reading'
  BY <1>2 DEF EnterRead
<1>3. ASSUME NEW q \in Queries, CtxStops(q) \/ TooLateToRead(q) \/ ReadTimesOut(q) PROVE Reading'
  BY <1>3 DEF CtxStops, TooLateToRead, ReadTimesOut, OutOfTime, Return
<1>4. ASSUME NEW q \in Queries, NEW d \in net, Hears(q, d) PROVE Reading'
  BY <1>4 DEF Hears, DropForeign, Challenged, Answered, OpenCollection, CollectionFails, Reads, Return
<1>5. CASE (\E r \in asked : Serve(r)) \/ StrangerSends \/ Tick \/ UNCHANGED vars
  BY <1>5 DEF Serve, Serves, StrangerSends, Tick, vars
<1> QED
  BY <1>1, <1>2, <1>3, <1>4, <1>5 DEF Next, Steps, Finished

(* A request once sent stays sent, and only servers and the stranger send.  *)
LEMMA AnsweringKept == IInv /\ [Next]_vars => Answering'
<1> SUFFICES ASSUME Types, Answering, [Next]_vars PROVE Answering'
  BY DEF IInv
<1> USE Constants DEF Answering
<1>1. ASSUME net' \subseteq net, asked \subseteq asked', served' = served PROVE Answering'
  BY <1>1
<1>2. ASSUME NEW q \in Queries, Call(q) \/ Steps(q) PROVE Answering'
  BY <1>1, <1>2 DEF Call, Steps, Send, CtxStops, Receive, SetAgain, EnterRead, TooLateToRead,
                    ReadTimesOut, wire, servers
<1>3. ASSUME NEW q \in Queries, NEW d \in net, Hears(q, d) PROVE Answering'
  BY <1>1, <1>3 DEF Hears, DropForeign, Challenged, Answered, OpenCollection, CollectionFails, Reads, servers
<1>4. ASSUME NEW r \in asked, Serve(r) PROVE Answering'
  BY <1>4 DEF Serve, Serves
<1>5. CASE StrangerSends
  BY <1>5 DEF StrangerSends
<1>6. CASE Tick \/ UNCHANGED vars
  BY <1>1, <1>6 DEF Tick, vars, wire, servers
<1> QED
  BY <1>2, <1>3, <1>4, <1>5, <1>6 DEF Next, Finished

(* A request has the number of the round it began.                          *)
LEMMA NumberedKept == IInv /\ [Next]_vars => Numbered'
<1> SUFFICES ASSUME Types, Numbered, [Next]_vars PROVE Numbered'
  BY DEF IInv
<1> USE DEF Types
<1>1. ASSUME asked' = asked, \A p \in Queries : pc[p] # "new" => pc'[p] # "new",
             \A p \in Queries : rounds'[p] = rounds[p] \/ rounds'[p] = rounds[p] + 1
      PROVE  Numbered'
  BY <1>1 DEF Numbered
<1>2. ASSUME NEW q \in Queries, Call(q) \/ Receive(q) \/ SetAgain(q) \/ EnterRead(q) PROVE Numbered'
  BY <1>1, <1>2 DEF Call, Receive, SetAgain, EnterRead, ghosts
<1>3. ASSUME NEW q \in Queries, Send(q) PROVE Numbered'
  <2>1. rounds'[q] = rounds[q] + 1 /\ pc'[q] = "receive"
        /\ \A p \in Queries \ {q} : rounds'[p] = rounds[p] /\ pc'[p] = pc[p]
    BY <1>3 DEF Send, NewRound
  <2>2. ASSUME NEW r \in asked' PROVE pc'[r.by] # "new" /\ r.n <= rounds'[r.by]
    <3>1. CASE r \in asked
      BY <2>1, <3>1 DEF Numbered
    <3>2. CASE r = [by |-> q, n |-> rounds[q] + 1]
      BY <2>1, <3>2
    <3> QED BY <1>3, <3>1, <3>2 DEF Send
  <2> QED BY <2>2 DEF Numbered
<1>4. ASSUME NEW q \in Queries, CtxStops(q) \/ TooLateToRead(q) \/ ReadTimesOut(q) PROVE Numbered'
  BY <1>1, <1>4 DEF CtxStops, TooLateToRead, ReadTimesOut, OutOfTime, Return
<1>5. ASSUME NEW q \in Queries, NEW d \in net, Hears(q, d) PROVE Numbered'
  BY <1>1, <1>5 DEF Hears, DropForeign, Challenged, Answered, OpenCollection, CollectionFails,
                    Return, NewRound, ghosts
<1>6. CASE (\E r \in asked : Serve(r)) \/ StrangerSends \/ Tick \/ UNCHANGED vars
  BY <1>1, <1>6 DEF Serve, Serves, StrangerSends, Tick, vars, ghosts
<1> QED
  BY <1>2, <1>3, <1>4, <1>5, <1>6 DEF Next, Steps, Finished

(* A query that keeps a fragment does not ask again.                        *)
LEMMA AtFragmentsKept == IInv /\ [Next]_vars => AtFragments'
<1> SUFFICES ASSUME Types, AtFragments, [Next]_vars PROVE AtFragments'
  BY DEF IInv
<1> USE DEF Types, AtFragments, Collecting
<1>1. ASSUME NEW q \in Queries, Call(q) \/ Send(q) \/ Receive(q) \/ SetAgain(q) \/ EnterRead(q)
      PROVE  AtFragments'
  BY <1>1 DEF Call, Send, Receive, SetAgain, EnterRead
<1>2. ASSUME NEW q \in Queries, CtxStops(q) \/ TooLateToRead(q) \/ ReadTimesOut(q) PROVE AtFragments'
  BY <1>2 DEF CtxStops, TooLateToRead, ReadTimesOut, OutOfTime, Return
<1>3. ASSUME NEW q \in Queries, NEW d \in net, Hears(q, d) PROVE AtFragments'
  BY <1>3 DEF Hears, DropForeign, Challenged, Answered, OpenCollection, CollectionFails, Return
<1>4. CASE (\E r \in asked : Serve(r)) \/ StrangerSends \/ Tick \/ UNCHANGED vars
  BY <1>4 DEF Serve, Serves, StrangerSends, Tick, vars
<1> QED
  BY <1>1, <1>2, <1>3, <1>4 DEF Next, Steps, Finished
-----------------------------------------------------------------------------
(* A deadline is never further than its query's timeout or context.         *)
LEMMA DeadlinesKept == IInv /\ [Next]_vars => Deadlines'
<1> SUFFICES ASSUME Types, Reading, Deadlines, [Next]_vars PROVE Deadlines'
  BY DEF IInv
<1> USE Constants DEF Types
<1>1. ASSUME NEW q \in Queries, dl' = [dl EXCEPT ![q] = Deadline(q)], now' = now,
             rd' = rd \/ rd' = dl'[q], now <= dl'[q],
             \A p \in Queries \ {q} : InRead(p)' => InRead(p)
      PROVE  Deadlines'
  <2>1. dl'[q] <= CtxDeadline[q] /\ dl'[q] <= now' + Timeout[q] /\ dl[q] <= dl'[q] /\ dl'[q] \in Nat
    BY <1>1 DEF Deadline, Deadlines
  <2>2. \A p \in Queries : dl[p] <= dl'[p] /\ dl'[p] \in Nat
    BY <1>1, <2>1
  <2>3. \A p \in Queries : dl'[p] <= CtxDeadline[p] /\ dl'[p] <= now' + Timeout[p]
    BY <1>1, <2>1 DEF Deadlines
  <2>4. \E p \in Queries : rd' <= dl'[p]
    BY <1>1, <2>2 DEF Deadlines
  <2>5. \A p \in Queries : InRead(p)' => \E o \in Queries : now' <= dl'[o]
    BY <1>1
  <2> QED BY <2>3, <2>4, <2>5 DEF Deadlines
<1>2. ASSUME dl' = dl, now' = now, rd' = rd \/ \E p \in Queries : rd' = dl[p],
             \A p \in Queries : InRead(p)' => InRead(p)
      PROVE  Deadlines'
  BY <1>2 DEF Deadlines
<1>3. ASSUME NEW q \in Queries, Call(q) \/ Send(q) \/ SetAgain(q) \/ EnterRead(q) PROVE Deadlines'
  <2>1. dl' = dl /\ now' = now /\ (rd' = rd \/ rd' = dl[q])
    BY <1>3 DEF Call, Send, SetAgain, EnterRead
  <2>2. \A p \in Queries : InRead(p)' => InRead(p)
    BY <1>3 DEF Call, Send, SetAgain, EnterRead, InRead
  <2> QED BY <1>2, <2>1, <2>2
<1>4. ASSUME NEW q \in Queries, Receive(q) PROVE Deadlines'
  <2>1. now <= Deadline(q)
    BY <1>4 DEF Receive, Deadline, CtxEnded
  <2>2. dl' = [dl EXCEPT ![q] = Deadline(q)] /\ now' = now /\ rd' = dl'[q] /\ now <= dl'[q]
    BY <1>4, <2>1 DEF Receive
  <2>3. \A p \in Queries \ {q} : InRead(p)' => InRead(p)
    BY <1>4 DEF Receive, InRead
  <2> QED BY <1>1, <2>2, <2>3
<1>5. ASSUME NEW q \in Queries, CtxStops(q) \/ TooLateToRead(q) \/ ReadTimesOut(q) PROVE Deadlines'
  <2>1. dl' = dl /\ now' = now /\ rd' = rd /\ pc' = [pc EXCEPT ![q] = "returned"]
    BY <1>5 DEF CtxStops, TooLateToRead, ReadTimesOut, OutOfTime, Return
  <2> QED BY <1>2, <2>1 DEF InRead
<1>6. ASSUME NEW q \in Queries, NEW d \in net,
             DropForeign(q, d) \/ Challenged(q, d) \/ Answered(q, d) \/ CollectionFails(q, d)
      PROVE  Deadlines'
  <2>1. dl' = dl /\ now' = now /\ rd' = rd
    BY <1>6 DEF DropForeign, Challenged, Answered, CollectionFails
  <2>2. \A p \in Queries : InRead(p)' => InRead(p)
    BY <1>6 DEF DropForeign, Challenged, Answered, CollectionFails, Reads, Return, InRead
  <2> QED BY <1>2, <2>1, <2>2
<1>7. ASSUME NEW q \in Queries, NEW d \in net, OpenCollection(q, d) PROVE Deadlines'
  <2>1. dl' = [dl EXCEPT ![q] = Deadline(q)] /\ now' = now /\ rd' = rd /\ pc[q] = "blocked"
    BY <1>7 DEF OpenCollection, Reads
  <2>2. \A p \in Queries : InRead(p)' => InRead(p)
    BY <1>7 DEF OpenCollection, Reads, InRead
  <2>3. \A p \in Queries : dl'[p] \in Nat /\ dl[p] <= dl'[p]
                            /\ dl'[p] <= CtxDeadline[p] /\ dl'[p] <= now' + Timeout[p]
    BY <2>1 DEF Deadline, Deadlines
  <2> QED BY <2>1, <2>2, <2>3 DEF Deadlines
<1>8. CASE (\E r \in asked : Serve(r)) \/ StrangerSends \/ UNCHANGED vars
  BY <1>2, <1>8 DEF Serve, Serves, StrangerSends, vars, InRead
<1>9. CASE Tick
  <2>1. now' = now + 1 /\ dl' = dl /\ rd' = rd /\ pc' = pc
    BY <1>9 DEF Tick
  <2>2. ASSUME NEW q \in Queries, InRead(q) PROVE rd > now
    <3>1. Blocked(q)
      BY <1>9, <2>2 DEF Tick, InRead, Running
    <3>2. CASE pc[q] = "wait" /\ reader # NoQuery
      <4>1. reader \in Queries /\ pc[reader] = "blocked"
        BY <3>2 DEF Reading
      <4>2. Blocked(reader)
        BY <1>9, <4>1 DEF Tick, Running
      <4> QED BY <4>1, <4>2 DEF Blocked
    <3> QED BY <3>1, <3>2 DEF Blocked
  <2>3. \A q \in Queries : dl[q] <= CtxDeadline[q] /\ dl[q] <= now + 1 + Timeout[q]
    BY DEF Deadlines
  <2>4. \A q \in Queries : InRead(q) => \E p \in Queries : now + 1 <= dl[p]
    BY <2>2 DEF Deadlines
  <2> QED BY <2>1, <2>3, <2>4 DEF Deadlines, InRead
<1> QED
  BY <1>3, <1>4, <1>5, <1>6, <1>7, <1>8, <1>9 DEF Next, Steps, Hears, Finished
-----------------------------------------------------------------------------
(* In turns all that can be disturbed is the one query that moves.          *)
LEMMA OneMoves ==
    ASSUME Types, Turns, ~abreast, NEW q \in Queries, now' = now,
           \A p \in Queries \ {q} :
               /\ ~Running(p) /\ pc'[p] = pc[p] /\ outcome'[p] = outcome[p]
               /\ began'[p] = began[p] /\ since'[p] = since[p]
               /\ rounds'[p] = rounds[p] /\ ended'[p] = ended[p],
           OnTime(q)', FullTime(q)', TimeBound(q)'
    PROVE  Turns'
<1>1. ASSUME NEW p \in Queries \ {q} PROVE OnTime(p)' /\ FullTime(p)' /\ TimeBound(p)'
  <2>1. OnTime(p) /\ FullTime(p) /\ TimeBound(p)
    BY DEF Turns
  <2>2. ~Running(p) /\ pc'[p] = pc[p] /\ outcome'[p] = outcome[p]
        /\ began'[p] = began[p] /\ since'[p] = since[p]
        /\ rounds'[p] = rounds[p] /\ ended'[p] = ended[p]
    OBVIOUS
  <2>3. pc[p] = "new" \/ pc[p] = "returned"
    BY <2>2 DEF Running
  <2>4. OnTime(p)'
    BY <2>1, <2>2, <2>3 DEF OnTime, Running, InRead
  <2>5. FullTime(p)'
    BY <2>1, <2>2 DEF FullTime, RanOut
  <2>6. TimeBound(p)'
    BY <2>1, <2>2, <2>3 DEF TimeBound, Until
  <2> QED BY <2>4, <2>5, <2>6
<1>2. \A p, o \in Queries : Running(p)' /\ Running(o)' => p = o
  BY DEF Running
<1> QED BY <1>1, <1>2 DEF Turns

(* A query that has returned is judged by its outcome alone.                *)
LEMMA ReturnsInTime ==
    ASSUME Types, NEW q \in Queries, NEW code, NEW re, Return(q, code, re),
           now <= began[q] + Spent(q), now <= CtxDeadline[q] \/ now = began[q],
           code \in {"timeout", "decode"} => now >= since[q] + Timeout[q] \/ now >= CtxDeadline[q],
           now' = now, began' = began, since' = since, rounds' = rounds
    PROVE  OnTime(q)' /\ FullTime(q)' /\ TimeBound(q)'
<1>1. pc'[q] = "returned" /\ outcome'[q].code = code /\ ended'[q] = now
  BY DEF Return, Types
<1>2. OnTime(q)'
  BY <1>1 DEF OnTime, Running, InRead
<1>3. FullTime(q)'
  BY <1>1 DEF FullTime, RanOut
<1>4. TimeBound(q)'
  BY <1>1 DEF TimeBound, Until, Spent
<1> QED BY <1>2, <1>3, <1>4

(* One that runs is within its bound.                                       *)
LEMMA RunsInTime ==
    ASSUME Types, NEW q \in Queries, OnTime(q), Running(q)
    PROVE  /\ now <= began[q] + Spent(q)
           /\ now <= CtxDeadline[q] \/ now = began[q]
           /\ FullTime(q) /\ TimeBound(q)
<1> USE Constants
<1>1. now <= began[q] + Spent(q)
  <2>1. Spent(q) \in Nat
    BY OneMore DEF Types, Spent
  <2>2. CASE pc[q] = "send"
    BY <2>2 DEF OnTime
  <2>3. CASE pc[q] = "receive"
    BY <2>1, <2>3 DEF OnTime, Types
  <2>4. CASE InRead(q)
    BY <2>1, <2>4 DEF OnTime, Types
  <2> QED BY <2>2, <2>3, <2>4 DEF Running, InRead, Types, Places
<1>2. now <= CtxDeadline[q] \/ now = began[q]
  BY DEF OnTime
<1>3. FullTime(q)
  BY DEF OnTime, FullTime, RanOut, Running
<1>4. TimeBound(q)
  BY <1>1, <1>2 DEF TimeBound, Until, Spent, Running
<1> QED BY <1>1, <1>2, <1>3, <1>4

(* Queries in turns stay in their time.                                     *)
LEMMA TurnsKept == IInv /\ [Next]_vars => Turns'
<1> SUFFICES ASSUME Types, Reading, Answering, Deadlines, Turns, [Next]_vars, ~abreast'
             PROVE  Turns'
  BY DEF IInv, Turns
<1> USE Constants
<1>a. ~abreast
  BY DEF Next, vars, Steps, Hears, Call, Send, CtxStops, Receive, SetAgain, EnterRead,
         TooLateToRead, ReadTimesOut, DropForeign, Challenged, Answered, OpenCollection,
         CollectionFails, Serve, Serves, StrangerSends, Tick, Finished, ghosts, Types
<1>b. /\ \A p, o \in Queries : Running(p) /\ Running(o) => p = o
      /\ \A p \in Queries : OnTime(p) /\ FullTime(p) /\ TimeBound(p)
  BY <1>a DEF Turns
<1>c. \A p \in Queries : /\ Running(p) => /\ now <= began[p] + Spent(p)
                                          /\ now <= CtxDeadline[p] \/ now = began[p]
                         /\ FullTime(p) /\ TimeBound(p)
  BY <1>b, RunsInTime
<1>1. ASSUME NEW q \in Queries, Call(q) PROVE Turns'
  <2>1. \A p \in Queries : ~Running(p)
    BY <1>1 DEF Call
  <2>2. Spent(q) \in Nat /\ Spent(q)' = Spent(q)
    BY <1>1, OneMore DEF Call, Spent, Types
  <2>3. pc'[q] = "send" /\ began'[q] = now /\ now' = now /\ outcome' = outcome
    BY <1>1, <1>b DEF Call, Types
  <2>4. outcome[q].code = "none"
    BY <1>1, <1>b DEF Call, OnTime
  <2>5. OnTime(q)'
    BY <2>2, <2>3, <2>4 DEF OnTime, InRead, Running, Types
  <2>6. FullTime(q)' /\ TimeBound(q)'
    BY <2>2, <2>3, <2>4 DEF FullTime, RanOut, TimeBound, Until, Spent, Types
  <2> QED BY <1>1, <1>a, <2>1, <2>3, <2>5, <2>6, OneMoves DEF Call, Types
<1>2. ASSUME NEW q \in Queries, Send(q) PROVE Turns'
  <2>1. Running(q)
    BY <1>2 DEF Send, Running
  <2>2. /\ pc'[q] = "receive" /\ began' = began /\ now' = now /\ outcome' = outcome
        /\ since'[q] = now /\ rounds'[q] = rounds[q] + 1 /\ now < CtxDeadline[q]
    BY <1>2 DEF Send, NewRound, CtxEnded, Types
  <2>3. Spent(q)' = Spent(q) + Timeout[q] /\ Spent(q) \in Nat
    BY <2>2, OneMore DEF Spent, Types
  <2>4. outcome[q].code = "none"
    BY <2>1, <1>b DEF OnTime, Running
  <2>5. now' <= began'[q] + Spent(q)'
    BY <1>c, <2>1, <2>2, <2>3 DEF Types
  <2>6. OnTime(q)'
    BY <1>c, <2>1, <2>2, <2>3, <2>4 DEF OnTime, InRead, Running, Types
  <2>7. FullTime(q)' /\ TimeBound(q)'
    BY <2>2, <2>4, <2>5 DEF FullTime, RanOut, TimeBound, Until, Spent, Types
  <2>8. \A p \in Queries \ {q} :
             /\ ~Running(p) /\ pc'[p] = pc[p] /\ outcome'[p] = outcome[p]
             /\ began'[p] = began[p] /\ since'[p] = since[p]
             /\ rounds'[p] = rounds[p] /\ ended'[p] = ended[p]
    BY <1>2, <1>b, <2>1 DEF Send, NewRound, Types
  <2>9. now' = now
    BY <1>2 DEF Send
  <2> QED BY <1>a, <2>6, <2>7, <2>8, <2>9, OneMoves
<1>3. ASSUME NEW q \in Queries, Receive(q) PROVE Turns'
  <2>1. Running(q)
    BY <1>3 DEF Receive, Running
  <2>2. /\ pc'[q] = "wait" /\ dl'[q] = Deadline(q) /\ rd' = dl'[q] /\ pc[q] = "receive"
        /\ now < CtxDeadline[q]
        /\ UNCHANGED <<now, began, since, rounds, outcome, ended>>
    BY <1>3 DEF Receive, CtxEnded, Types, ghosts
  <2>3. Spent(q)' = Spent(q)
    BY <2>2 DEF Spent
  <2>4. since[q] = now /\ since[q] + Timeout[q] <= began[q] + Spent(q) /\ outcome[q].code = "none"
    BY <1>b, <2>1, <2>2 DEF OnTime, Running
  <2>5. now <= dl'[q] /\ dl'[q] <= now + Timeout[q] /\ (dl'[q] = now + Timeout[q] \/ dl'[q] = CtxDeadline[q])
    BY <2>2 DEF Deadline, Types
  <2>6. OnTime(q)'
    BY <2>2, <2>3, <2>4, <2>5 DEF OnTime, InRead, Running, Types
  <2>7. FullTime(q)' /\ TimeBound(q)'
    BY <1>c, <2>1, <2>2, <2>3, <2>4 DEF FullTime, RanOut, TimeBound, Until, Spent
  <2>8. \A p \in Queries \ {q} :
             /\ ~Running(p) /\ pc'[p] = pc[p] /\ outcome'[p] = outcome[p]
             /\ began'[p] = began[p] /\ since'[p] = since[p]
             /\ rounds'[p] = rounds[p] /\ ended'[p] = ended[p]
    BY <1>3, <1>b, <2>1 DEF Receive, ghosts, Types
  <2>9. now' = now
    BY <1>3 DEF Receive
  <2> QED BY <1>a, <2>6, <2>7, <2>8, <2>9, OneMoves
<1>4. ASSUME NEW q \in Queries, SetAgain(q) \/ EnterRead(q) PROVE Turns'
  <2>1. Running(q) /\ InRead(q) /\ InRead(q)' /\ pc'[q] \in {"wait", "blocked"}
    BY <1>4 DEF SetAgain, EnterRead, Running, InRead, Types
  <2>2. UNCHANGED <<now, dl, began, since, rounds, outcome, ended, abreast>>
    BY <1>4 DEF SetAgain, EnterRead, ghosts
  <2>3. rd' = dl'[q]
    BY <1>4, <1>b DEF SetAgain, EnterRead, OnTime
  <2>4. Spent(q)' = Spent(q)
    BY <2>2 DEF Spent
  <2>5. OnTime(q)'
    BY <1>b, <2>1, <2>2, <2>3, <2>4 DEF OnTime, Running, InRead
  <2>6. FullTime(q)' /\ TimeBound(q)'
    BY <1>c, <2>1, <2>2, <2>4 DEF FullTime, RanOut, TimeBound, Until, Spent, Running
  <2>7. \A p \in Queries \ {q} : pc'[p] = pc[p]
    BY <1>4 DEF SetAgain, EnterRead, Types
  <2> QED BY <1>a, <1>b, <2>1, <2>2, <2>5, <2>6, <2>7, OneMoves DEF Types
<1>5. ASSUME NEW q \in Queries, CtxStops(q) \/ TooLateToRead(q) \/ ReadTimesOut(q) PROVE Turns'
  <2>1. Running(q) /\ OutOfTime(q)
    BY <1>5 DEF CtxStops, TooLateToRead, ReadTimesOut, Running
  <2>2. UNCHANGED <<now, began, since, rounds>>
    BY <1>5 DEF CtxStops, TooLateToRead, ReadTimesOut
  <2>3. now >= since[q] + Timeout[q] \/ now >= CtxDeadline[q]
    <3>1. CASE CtxStops(q)
      BY <3>1 DEF CtxStops, CtxEnded
    <3>2. CASE TooLateToRead(q) \/ ReadTimesOut(q)
      BY <3>2, <1>b DEF TooLateToRead, ReadTimesOut, OnTime, InRead, Types
    <3> QED BY <1>5, <3>1, <3>2
  <2>4. OnTime(q)' /\ FullTime(q)' /\ TimeBound(q)'
    BY <1>c, <2>1, <2>2, <2>3, ReturnsInTime DEF OutOfTime
  <2>5. \A p \in Queries \ {q} : pc'[p] = pc[p] /\ outcome'[p] = outcome[p] /\ ended'[p] = ended[p]
    BY <2>1 DEF OutOfTime, Return, Types
  <2> QED BY <1>a, <1>b, <2>1, <2>2, <2>4, <2>5, OneMoves
<1>6. ASSUME NEW q \in Queries, NEW d \in net, DropForeign(q, d) \/ Challenged(q, d) PROVE Turns'
  <2>1. Running(q) /\ pc[q] = "blocked" /\ pc'[q] \in {"again", "send"}
    BY <1>6 DEF DropForeign, Challenged, Reads, Running, Types
  <2>2. UNCHANGED <<now, dl, began, since, rounds, outcome, ended>>
    BY <1>6 DEF DropForeign, Challenged, ghosts
  <2>4. Spent(q)' = Spent(q)
    BY <2>2 DEF Spent
  <2>5. OnTime(q)'
    BY <1>b, <1>c, <2>1, <2>2, <2>4 DEF OnTime, Running, InRead
  <2>6. FullTime(q)' /\ TimeBound(q)'
    BY <1>c, <2>1, <2>2, <2>4 DEF FullTime, RanOut, TimeBound, Until, Spent, Running
  <2>7. \A p \in Queries \ {q} : pc'[p] = pc[p]
    BY <1>6 DEF DropForeign, Challenged, Reads, Types
  <2> QED BY <1>a, <1>b, <2>1, <2>2, <2>5, <2>6, <2>7, OneMoves
<1>7. ASSUME NEW q \in Queries, NEW d \in net, Answered(q, d) \/ CollectionFails(q, d) PROVE Turns'
  <2>1. Running(q) /\ \E code \in {"ok", "multi_packet"}, re \in {d.re, Nothing.re} : Return(q, code, re)
    BY <1>7 DEF Answered, CollectionFails, Reads, Running
  <2>2. UNCHANGED <<now, began, since, rounds>>
    BY <1>7 DEF Answered, CollectionFails
  <2>3. OnTime(q)' /\ FullTime(q)' /\ TimeBound(q)'
    BY <1>c, <2>1, <2>2, ReturnsInTime
  <2>4. \A p \in Queries \ {q} : pc'[p] = pc[p] /\ outcome'[p] = outcome[p] /\ ended'[p] = ended[p]
    BY <2>1 DEF Return, Types
  <2> QED BY <1>a, <1>b, <2>1, <2>2, <2>3, <2>4, OneMoves
<1>8. ASSUME NEW q \in Queries, NEW d \in net, OpenCollection(q, d) PROVE Turns'
  <2>1. /\ pc[q] = "blocked" /\ Running(q) /\ pc'[q] = "next" /\ dl'[q] = Deadline(q)
        /\ since'[q] = now /\ rounds'[q] = rounds[q] + 1
        /\ UNCHANGED <<now, began, outcome, ended>>
    BY <1>8 DEF OpenCollection, Reads, NewRound, Running, Types
  <2>2. Spent(q)' = Spent(q) + Timeout[q] /\ Spent(q) \in Nat
    BY <2>1, OneMore DEF Spent, Types
  <2>3. outcome[q].code = "none" /\ now <= CtxDeadline[q]
    BY <1>b, <2>1 DEF OnTime, InRead, Deadlines, Types
  <2>4. now <= dl'[q] /\ dl'[q] <= now + Timeout[q] /\ (dl'[q] = now + Timeout[q] \/ dl'[q] = CtxDeadline[q])
    BY <2>1, <2>3 DEF Deadline, Types
  <2>5. now' + Timeout[q] <= began'[q] + Spent(q)'
    BY <1>c, <2>1, <2>2 DEF Types
  <2>6. OnTime(q)'
    BY <2>1, <2>3, <2>4, <2>5 DEF OnTime, Running, InRead
  <2>7. FullTime(q)' /\ TimeBound(q)'
    BY <2>1, <2>3, <2>5 DEF FullTime, RanOut, TimeBound, Until, Spent, Types
  <2> QED BY <1>8, <1>a, <1>b, <2>1, <2>6, <2>7, OneMoves DEF OpenCollection, Reads, NewRound, Types
<1>9. CASE (\E r \in asked : Serve(r)) \/ StrangerSends \/ UNCHANGED vars
  <2>1. UNCHANGED <<now, pc, rd, dl, outcome, ghosts>>
    BY <1>9 DEF Serve, Serves, StrangerSends, vars, ghosts
  <2> QED BY <1>b, <2>1 DEF Turns, OnTime, FullTime, TimeBound, Until, RanOut, Running, InRead, Spent, ghosts
<1>10. CASE Tick
  <2>1. now' = now + 1 /\ UNCHANGED <<pc, reader, rd, dl, outcome, ghosts>>
    BY <1>10 DEF Tick
  <2>2. ASSUME NEW q \in Queries, Running(q) PROVE pc[q] = "blocked" /\ rd > now
    <3>1. Blocked(q)
      BY <1>10, <2>2 DEF Tick
    <3>2. CASE pc[q] = "wait" /\ reader # NoQuery
      <4>1. reader \in Queries /\ pc[reader] = "blocked"
        BY <3>2 DEF Reading, Types
      <4>2. Running(reader)
        BY <4>1 DEF Running
      <4> QED BY <1>b, <2>2, <3>2, <4>1, <4>2
    <3> QED BY <3>1, <3>2 DEF Blocked
  <2>3. ASSUME NEW q \in Queries PROVE OnTime(q)' /\ FullTime(q)' /\ TimeBound(q)'
    <3>1. Spent(q)' = Spent(q)
      BY <2>1 DEF Spent, ghosts
    <3>2. FullTime(q)'
      BY <1>b, <2>1 DEF FullTime, RanOut, ghosts
    <3>3. CASE Running(q)
      <4>1. pc[q] = "blocked" /\ now + 1 <= dl[q] /\ dl[q] <= CtxDeadline[q]
        BY <1>b, <2>2, <3>3 DEF OnTime, Deadlines, Types
      <4>2. OnTime(q)'
        BY <1>b, <2>1, <3>1, <4>1 DEF OnTime, Running, InRead, ghosts, Types
      <4>3. TimeBound(q)'
        BY <1>b, <2>1, <3>1, <3>3, <4>1 DEF OnTime, TimeBound, Until, Spent, Running, InRead, ghosts, Types
      <4> QED BY <3>2, <4>2, <4>3
    <3>4. CASE ~Running(q)
      <4>1. pc[q] = "new" \/ pc[q] = "returned"
        BY <3>4 DEF Running
      <4> QED BY <1>b, <2>1, <3>1, <3>2, <4>1
              DEF OnTime, TimeBound, Until, Running, InRead, ghosts, Spent
    <3> QED BY <3>3, <3>4
  <2>4. \A p, o \in Queries : Running(p)' /\ Running(o)' => p = o
    BY <1>b, <2>1 DEF Running
  <2> QED BY <1>b, <2>1, <2>3, <2>4 DEF Turns, ghosts
<1> QED
  BY <1>1, <1>2, <1>3, <1>4, <1>5, <1>6, <1>7, <1>8, <1>9, <1>10 DEF Next, Steps, Hears, Finished
-----------------------------------------------------------------------------
(* A query that neither asks nor reads for itself stays tidy.               *)
LEMMA TidyKept ==
    ASSUME NEW q \in Queries, Tidy(q),
           first'[q] = first[q], outcome'[q] = outcome[q], served \subseteq served',
           \A r \in asked' : r.by = q => r \in asked,
           \A d \in net' : d.re.by = q => d \in net,
           Running(q) /\ pc[q] # "send" => Running(q)' /\ pc'[q] # "send"
    PROVE  Tidy(q)'
<1>1. \A r \in asked' : Owed(q, r)' => r \in asked /\ Owed(q, r)
  BY DEF Owed
<1>2. /\ \A r \in asked' : Owed(q, r)' => Running(q)' /\ pc'[q] # "send"
      /\ \A r, o \in asked' : Owed(q, r)' /\ Owed(q, o)' => r = o
  BY <1>1 DEF Tidy
<1>3. /\ \A d, e \in net' : d.re = e.re /\ d.re.by = q => d = e \/ Completes(d, e)
      /\ outcome'[q].code = "ok" => outcome'[q].re.by = q
  BY DEF Tidy
<1>4. Collecting(q)' =>
          /\ \A r \in asked' : Owed(q, r)' => r = first'[q].re /\ r \in served'
          /\ \A d \in net' : d.re = first'[q].re /\ d.re.by = q => Completes(d, first'[q])
  BY <1>1 DEF Tidy, Collecting
<1> QED BY <1>2, <1>3, <1>4 DEF Tidy, Completes

(* One that has read all there was of the reply is owed nothing.            *)
LEMMA NothingOwed ==
    ASSUME NEW q \in Queries, Tidy(q), Answering, NEW d \in net, d.re.by = q, d.re \in served,
           \A e \in net : e.re = d.re => e = d,
           net' = net \ {d}, asked' = asked, served' = served
    PROVE  \A r \in asked' : ~Owed(q, r)'
<1> SUFFICES ASSUME NEW r \in asked, Owed(q, r)' PROVE FALSE
  OBVIOUS
<1>1. Owed(q, r)
  BY DEF Owed
<1>2. Owed(q, d.re)
  BY DEF Owed, Answering
<1>3. r = d.re
  BY <1>1, <1>2 DEF Tidy, Answering
<1> QED BY <1>3 DEF Owed

(* Queries in turns leave nothing behind for the next, unless they give up. *)
LEMMA RepliesKept == IInv /\ [Next]_vars => Replies'
<1> SUFFICES ASSUME IInv, [Next]_vars, ~abreast', dups' = 0, NEW q \in Queries, Trusted(q)'
             PROVE  Tidy(q)'
  BY DEF Replies
<1> USE Constants
<1>a. Types /\ Answering /\ Numbered /\ AtFragments /\ Turns /\ Replies
  BY DEF IInv
<1>b. ~abreast
  BY <1>a DEF Next, vars, Steps, Hears, Call, Send, CtxStops, Receive, SetAgain, EnterRead,
         TooLateToRead, ReadTimesOut, DropForeign, Challenged, Answered, OpenCollection,
         CollectionFails, Serve, Serves, StrangerSends, Tick, Finished, ghosts, Types
<1>c. dups = 0
  BY <1>a DEF Next, vars, Steps, Hears, Call, Send, CtxStops, Receive, SetAgain, EnterRead,
         TooLateToRead, ReadTimesOut, DropForeign, Challenged, Answered, OpenCollection,
         CollectionFails, Serve, Serves, StrangerSends, Tick, Finished, Reads, wire, Types
<1>d. /\ \A p, o \in Queries : Running(p) /\ Running(o) => p = o
      /\ \A p \in Queries : pc[p] # "returned" => outcome[p].code = "none"
  BY <1>a, <1>b DEF Turns, OnTime
<1>e. \A p \in Queries : outcome'[p] = outcome[p] \/ pc[p] # "returned"
  BY <1>a DEF Next, vars, Steps, Hears, Call, Send, CtxStops, Receive, SetAgain, EnterRead,
         TooLateToRead, ReadTimesOut, DropForeign, Challenged, Answered, OpenCollection,
         CollectionFails, Serve, Serves, StrangerSends, Tick, Finished, Reads, Return, OutOfTime, Types
<1>f. \A p \in Queries : Target[p] = Target[q] => Trusted(p) /\ Tidy(p)
  BY <1>a, <1>b, <1>c, <1>d, <1>e DEF Trusted, GaveUp, Replies
<1>g. Tidy(q) /\ ~GaveUp(q)'
  BY <1>f DEF Trusted
<1>1. ASSUME NEW p \in Queries, Call(p) \/ Receive(p) \/ SetAgain(p) \/ EnterRead(p) PROVE Tidy(q)'
  <2>1. UNCHANGED <<first, outcome, net, asked, served>>
    BY <1>1 DEF Call, Receive, SetAgain, EnterRead, wire, servers
  <2>2. Running(q) /\ pc[q] # "send" => Running(q)' /\ pc'[q] # "send"
    BY <1>1, <1>a DEF Call, Receive, SetAgain, EnterRead, Running, Types
  <2> QED BY <1>g, <2>1, <2>2, TidyKept
<1>2. ASSUME NEW p \in Queries, Send(p) PROVE Tidy(q)'
  <2>1. UNCHANGED <<first, outcome, net, served>>
    BY <1>2 DEF Send, wire, servers
  <2>2. asked' = asked \cup {[by |-> p, n |-> rounds[p] + 1]} /\ pc[p] = "send"
        /\ pc'[p] = "receive" /\ \A o \in Queries \ {p} : pc'[o] = pc[o]
    BY <1>2, <1>a DEF Send, Types
  <2>3. CASE p # q
    <3>1. \A r \in asked' : r.by = q => r \in asked
      BY <2>2, <2>3
    <3>2. Running(q) /\ pc[q] # "send" => Running(q)' /\ pc'[q] # "send"
      BY <2>2, <2>3 DEF Running
    <3> QED BY <1>g, <2>1, <3>1, <3>2, TidyKept
  <2>4. CASE p = q
    <3>1. ~Collecting(q)'
      BY <1>a, <2>1, <2>2, <2>4 DEF AtFragments, Collecting
    <3>2. \A r \in asked : ~Owed(q, r)
      BY <1>g, <2>2, <2>4 DEF Tidy
    <3>3. \A r \in asked' : Owed(q, r)' => r = [by |-> q, n |-> rounds[q] + 1]
      BY <2>1, <2>2, <2>4, <3>2 DEF Owed
    <3>4. Running(q)' /\ pc'[q] # "send"
      BY <2>2, <2>4 DEF Running
    <3>5. /\ \A d, e \in net' : d.re = e.re /\ d.re.by = q => d = e \/ Completes(d, e)
          /\ outcome'[q].code = "ok" => outcome'[q].re.by = q
      BY <1>g, <2>1 DEF Tidy
    <3> QED BY <3>1, <3>3, <3>4, <3>5 DEF Tidy, Completes
  <2> QED BY <2>3, <2>4
<1>3. ASSUME NEW p \in Queries, CtxStops(p) \/ TooLateToRead(p) \/ ReadTimesOut(p) PROVE Tidy(q)'
  <2>1. UNCHANGED <<first, net, asked, served>> /\ OutOfTime(p)
    BY <1>3 DEF CtxStops, TooLateToRead, ReadTimesOut, wire, servers
  <2>2. p # q
    BY <1>a, <1>g, <2>1 DEF OutOfTime, Return, GaveUp, Types
  <2>3. pc'[q] = pc[q] /\ outcome'[q] = outcome[q]
    BY <1>a, <2>1, <2>2 DEF OutOfTime, Return, Types
  <2> QED BY <1>g, <2>1, <2>3, TidyKept DEF Running
<1>4. ASSUME NEW p \in Queries \ {q}, NEW d \in net, Hears(p, d) PROVE Tidy(q)'
  <2>1. UNCHANGED <<asked, served>> /\ net' \subseteq net /\ pc[p] = "blocked"
    BY <1>4 DEF Hears, DropForeign, Challenged, Answered, OpenCollection, CollectionFails, Reads, servers
  <2>2. pc'[q] = pc[q] /\ outcome'[q] = outcome[q] /\ first'[q] = first[q]
    BY <1>4, <1>a DEF Hears, DropForeign, Challenged, Answered, OpenCollection, CollectionFails, Reads,
                      Return, Types
  <2> QED BY <1>g, <2>1, <2>2, TidyKept DEF Running
<1>5. ASSUME NEW d \in net, DropForeign(q, d) PROVE Tidy(q)'
  <2>1. UNCHANGED <<asked, served, first, outcome>> /\ net' \subseteq net /\ pc'[q] = "again"
    BY <1>5, <1>a DEF DropForeign, Reads, servers, Types
  <2> QED BY <1>g, <2>1, TidyKept DEF Running
<1>6. ASSUME NEW d \in net, FromTarget(q, d), Reads(q, d), asked' = asked, served' = served
      PROVE  /\ net' = net \ {d} /\ Running(q)
             /\ d.re \in asked /\ d.re \in served /\ d.re.by = q /\ Owed(q, d.re)
  <2>1. net' = net \ {d} /\ Running(q)
    BY <1>6, <1>c DEF Reads, Running
  <2>2. d.re \in served /\ d.re \in asked /\ d.src = Target[d.re.by] /\ d.re.by \in Queries
    BY <1>6, <1>a DEF FromTarget, Answering, Types
  <2>3. Owed(d.re.by, d.re) /\ Tidy(d.re.by)
    BY <1>6, <1>f, <2>2 DEF FromTarget, Owed
  <2>4. Running(d.re.by)
    BY <2>2, <2>3 DEF Tidy
  <2>5. d.re.by = q
    BY <1>d, <2>1, <2>2, <2>4
  <2> QED BY <2>1, <2>2, <2>3, <2>5
<1>7. ASSUME NEW d \in net, Challenged(q, d) PROVE Tidy(q)'
  <2>1. /\ UNCHANGED <<asked, served, first, outcome>> /\ ~Collecting(q) /\ d.what = "challenge"
        /\ FromTarget(q, d) /\ Reads(q, d)
    BY <1>7 DEF Challenged, servers
  <2>2. net' = net \ {d} /\ d.re \in served /\ d.re.by = q
    BY <1>6, <2>1
  <2>3. \A e \in net : e.re = d.re => e = d
    BY <1>g, <2>1, <2>2 DEF Tidy, Completes
  <2>4. \A r \in asked' : ~Owed(q, r)'
    BY <1>a, <1>g, <2>1, <2>2, <2>3, NothingOwed
  <2>5. /\ \A x, e \in net' : x.re = e.re /\ x.re.by = q => x = e \/ Completes(x, e)
        /\ outcome'[q].code = "ok" => outcome'[q].re.by = q
    BY <1>g, <2>1, <2>2 DEF Tidy
  <2>6. ~Collecting(q)'
    BY <2>1 DEF Collecting
  <2> QED BY <2>4, <2>5, <2>6 DEF Tidy, Completes
<1>8. ASSUME NEW d \in net, Answered(q, d) PROVE Tidy(q)'
  <2>1. /\ UNCHANGED <<asked, served, first>> /\ FromTarget(q, d) /\ Reads(q, d)
        /\ d.what = "answer" \/ (Collecting(q) /\ Completes(d, first[q]))
        /\ outcome'[q] = [code |-> "ok", re |-> d.re]
    BY <1>8, <1>a DEF Answered, servers, Return, Types
  <2>2. net' = net \ {d} /\ d.re \in served /\ d.re.by = q
    BY <1>6, <2>1
  <2>3. ASSUME NEW e \in net, e.re = d.re PROVE e = d
    <3>1. e = d \/ Completes(d, e)
      BY <1>g, <2>2, <2>3 DEF Tidy
    <3>2. CASE d.what = "answer"
      BY <3>1, <3>2 DEF Completes
    <3>3. CASE Collecting(q) /\ Completes(d, first[q])
      <4>1. Completes(e, first[q])
        BY <1>g, <2>2, <2>3, <3>3 DEF Tidy, Completes
      <4> QED BY <3>1, <3>3, <4>1 DEF Completes
    <3> QED BY <2>1, <3>2, <3>3
  <2>4. \A r \in asked' : ~Owed(q, r)'
    BY <1>a, <1>g, <2>1, <2>2, <2>3, NothingOwed
  <2>5. \A x, e \in net' : x.re = e.re /\ x.re.by = q => x = e \/ Completes(x, e)
    BY <1>g, <2>2 DEF Tidy
  <2>6. outcome'[q].code = "ok" => outcome'[q].re.by = q
    BY <2>1, <2>2
  <2>7. \A x \in net' : x.re = first'[q].re /\ x.re.by = q /\ Collecting(q)' => Completes(x, first'[q])
    BY <1>g, <2>1, <2>2 DEF Tidy, Collecting
  <2> QED BY <2>4, <2>5, <2>6, <2>7 DEF Tidy, Completes
<1>9. ASSUME NEW d \in net, OpenCollection(q, d) PROVE Tidy(q)'
  <2>1. /\ UNCHANGED <<asked, served, outcome>> /\ FromTarget(q, d) /\ Reads(q, d)
        /\ first'[q] = d /\ pc'[q] = "next"
    BY <1>9, <1>a DEF OpenCollection, servers, Types
  <2>2. net' = net \ {d} /\ d.re \in served /\ d.re \in asked /\ d.re.by = q /\ Owed(q, d.re)
    BY <1>6, <2>1
  <2>3. \A r \in asked' : Owed(q, r)' => r \in asked /\ Owed(q, r)
    BY <2>1, <2>2 DEF Owed
  <2>4. \A r \in asked' : Owed(q, r)' => r = d.re
    BY <1>g, <2>2, <2>3 DEF Tidy
  <2>5. \A e \in net' : e.re = d.re => Completes(e, d)
    BY <1>g, <2>2 DEF Tidy, Completes
  <2>6. /\ \A x, e \in net' : x.re = e.re /\ x.re.by = q => x = e \/ Completes(x, e)
        /\ outcome'[q].code = "ok" => outcome'[q].re.by = q
    BY <1>g, <2>1, <2>2 DEF Tidy
  <2>7. Running(q)' /\ pc'[q] # "send"
    BY <2>1 DEF Running
  <2> QED BY <2>1, <2>2, <2>4, <2>5, <2>6, <2>7 DEF Tidy, Completes
<1>10. ASSUME NEW d \in net, CollectionFails(q, d) PROVE Tidy(q)'
  BY <1>10, <1>a, <1>g DEF CollectionFails, Return, GaveUp, Types
<1>11. ASSUME NEW r \in asked, Serve(r) PROVE Tidy(q)'
  <2>1. PICK whats \in {{"answer"}, {"head", "tail"}, {"challenge"}} : Serves(r, whats)
    BY <1>11 DEF Serve
  <2>2. /\ UNCHANGED <<first, outcome, asked, pc>> /\ r \notin served /\ served' = served \cup {r}
        /\ net' = net \cup {[src |-> Target[r.by], what |-> w, re |-> r] : w \in whats}
    BY <2>1 DEF Serves
  <2>3. CASE r.by # q
    <3>1. \A d \in net' : d.re.by = q => d \in net
      BY <2>2, <2>3
    <3> QED BY <1>g, <2>2, <3>1, TidyKept DEF Running
  <2>4. CASE r.by = q
    <3>1. Owed(q, r)
      BY <2>2, <2>4 DEF Owed
    <3>2. \A d \in net : d.re # r
      BY <1>a, <2>2, <2>4 DEF Answering
    <3>3. ASSUME NEW o \in asked, Owed(q, o)' PROVE Owed(q, o)
      <4>1. CASE o = r
        BY <3>1, <4>1
      <4>2. CASE o # r
        BY <2>2, <3>3, <4>2 DEF Owed
      <4> QED BY <4>1, <4>2
    <3>4. ~Collecting(q)'
      BY <1>g, <2>2, <3>1 DEF Tidy, Collecting
    <3>5. ASSUME NEW d \in net', NEW e \in net', d.re = e.re, d.re.by = q PROVE d = e \/ Completes(d, e)
      <4>1. CASE d.re = r
        <5>1. PICK w \in whats : d = [src |-> Target[r.by], what |-> w, re |-> r]
          BY <2>2, <3>2, <4>1
        <5>2. PICK v \in whats : e = [src |-> Target[r.by], what |-> v, re |-> r]
          BY <2>2, <3>2, <3>5, <4>1
        <5>3. w = v \/ {w, v} = {"head", "tail"}
          BY <2>1
        <5> QED BY <5>1, <5>2, <5>3 DEF Completes
      <4>2. CASE d.re # r
        <5>1. d \in net /\ e \in net
          BY <2>2, <3>5, <4>2
        <5> QED BY <1>g, <3>5, <5>1 DEF Tidy
      <4> QED BY <4>1, <4>2
    <3>6. /\ \A o \in asked' : Owed(q, o)' => Running(q)' /\ pc'[q] # "send"
          /\ \A m, o \in asked' : Owed(q, m)' /\ Owed(q, o)' => m = o
          /\ outcome'[q].code = "ok" => outcome'[q].re.by = q
      BY <1>g, <2>2, <3>3 DEF Tidy, Running
    <3> QED BY <3>4, <3>5, <3>6 DEF Tidy, Completes
  <2> QED BY <2>3, <2>4
<1>12. CASE StrangerSends
  <2>1. UNCHANGED <<first, outcome, asked, served, pc>> /\ \A d \in net' : d.re.by = q => d \in net
    BY <1>12 DEF StrangerSends
  <2> QED BY <1>g, <2>1, TidyKept DEF Running
<1>13. CASE Tick \/ UNCHANGED vars
  <2>1. UNCHANGED <<first, outcome, asked, served, net, pc>>
    BY <1>13 DEF Tick, vars, wire, servers
  <2> QED BY <1>g, <2>1, TidyKept DEF Running
<1> QED
  BY <1>1, <1>2, <1>3, <1>4, <1>5, <1>7, <1>8, <1>9, <1>10, <1>11, <1>12, <1>13
  DEF Next, Steps, Hears, Finished
-----------------------------------------------------------------------------
(* Every step of the clients, the servers and the clock keeps the invariant.*)
THEOREM IInvHolds == Spec => []IInv
<1>1. Init => IInv
  BY InitHolds
<1>2. IInv /\ [Next]_vars => IInv'
  BY TypesKept, ReadingKept, AnsweringKept, NumberedKept, AtFragmentsKept, DeadlinesKept, TurnsKept, RepliesKept DEF IInv
<1> QED BY <1>1, <1>2, PTL DEF Spec

(* In turns a query has its full timeout and no more, for any timeouts,     *)
(* contexts and traffic (client.go:262-284, transport.go:67-80).            *)
THEOREM InItsTimeAlways == Spec => []InItsTime
<1>1. IInv => InItsTime
  <2> SUFFICES ASSUME Types, Turns, ~abreast, NEW q \in Queries PROVE FullTime(q) /\ TimeBound(q)
    BY DEF IInv, InItsTime
  <2> QED BY DEF Turns
<1> QED BY <1>1, IInvHolds, PTL

(* In turns a query returns the reply to its own request, unless somebody   *)
(* who asked the same server gave up or the network repeats a datagram, for *)
(* any number of clients, servers, challenges and strangers                 *)
(* (transport.go:75, scanner/client.go:178-180).                            *)
THEOREM OwnReplyAlways == Spec => []OwnReplyUnlessGivenUp
<1>1. IInv => OwnReplyUnlessGivenUp
  BY DEF IInv, Replies, Trusted, Tidy, OwnReplyUnlessGivenUp
<1> QED BY <1>1, IInvHolds, PTL

(* However many clients share the socket, none reads, or waits to read,     *)
(* beyond the latest of their deadlines (transport.go:67-80).               *)
THEOREM LatestDeadlineAlways == Spec => []LatestDeadline
<1>1. IInv => LatestDeadline
  BY DEF IInv, Deadlines, InRead, LatestDeadline
<1> QED BY <1>1, IInvHolds, PTL
-----------------------------------------------------------------------------
(* The buffers all these sockets read into, those of every other socket of  *)
(* the process too: for any number of readers, sizes and datagrams nobody's *)
(* result is ever overwritten, because an array is in one place only: in    *)
(* the pool, with one reader, or in what a reader returned.                 *)
(* What was returned is nobody's buffer, and not in the pool.               *)
HeldApart ==
    \A h \in held :
        /\ h.array \in DOMAIN mem /\ h.array \notin pool
        /\ \A r \in Readers : buf[r] # h.array

(* What a reader is about to copy is still what it read.                    *)
AtFront ==
    \A r \in Readers : at[r] = "copy" =>
        /\ Len(seen[r]) <= Len(mem[buf[r]])
        /\ SubSeq(mem[buf[r]], 1, Len(seen[r])) = seen[r]

Borrowing ==
    \A r \in Readers :
        /\ at[r] # "idle" => buf[r] # 0
        /\ at[r] \in {"read", "copy"} => Len(mem[buf[r]]) >= Size[r]

HeldTyped == \A h \in held : h.len \in 0 .. Len(mem[h.array])

PoolInv ==
    /\ mem \in Seq(Seq(Nat))
    /\ pool \subseteq DOMAIN mem
    /\ at \in [Readers -> {"idle", "read", "copy", "release"}]
    /\ buf \in [Readers -> 0 .. Len(mem)]
    /\ seen \in [Readers -> Seq(Nat)]
    /\ reads \in 0 .. MaxReads
    /\ OneBorrower /\ HeldApart /\ HeldTyped /\ AtFront /\ Borrowing /\ ResultsIntact

(* What a read takes fits the buffer.                                       *)
LEMMA AsReadFits ==
    ASSUME NEW d \in Seq(Nat), NEW n \in Nat
    PROVE  AsRead(d, n) \in Seq(Nat) /\ Len(AsRead(d, n)) <= n
  BY DEF AsRead

(* A function on 1 .. n is a sequence.                                      *)
LEMMA FunctionIsSeq ==
    ASSUME NEW n \in Nat, NEW f \in [1 .. n -> Nat]
    PROVE  f \in Seq(Nat) /\ Len(f) = n
  OBVIOUS

(* A datagram is written to the front of its buffer.                        *)
LEMMA OverwriteFront ==
    ASSUME NEW a \in Seq(Nat), NEW d \in Seq(Nat), Len(d) <= Len(a)
    PROVE  /\ Overwrite(a, d) \in Seq(Nat) /\ Len(Overwrite(a, d)) = Len(a)
           /\ SubSeq(Overwrite(a, d), 1, Len(d)) = d
<1> DEFINE o == Overwrite(a, d)
<1>1. o \in [1 .. Len(a) -> Nat]
  BY DEF Overwrite
<1>2. o \in Seq(Nat) /\ Len(o) = Len(a)
  <2>1. Len(a) \in Nat
    OBVIOUS
  <2> HIDE DEF o
  <2> QED BY <1>1, <2>1, FunctionIsSeq
<1>3. \A i \in 1 .. Len(d) : o[i] = d[i]
  BY DEF Overwrite
<1>4. SubSeq(o, 1, Len(d)) = d
  BY <1>2, <1>3
<1> QED BY <1>2, <1>4

(* A new buffer has the size asked for.                                     *)
LEMMA ZerosTyped ==
    ASSUME NEW n \in Nat
    PROVE  Zeros(n) \in Seq(Nat) /\ Len(Zeros(n)) = n
<1>1. Zeros(n) \in [1 .. n -> Nat]
  BY DEF Zeros
<1> QED BY <1>1

(* Appending an array leaves the others.                                    *)
LEMMA AppendKeeps ==
    ASSUME NEW m \in Seq(Seq(Nat)), NEW a \in Seq(Nat)
    PROVE  /\ Append(m, a) \in Seq(Seq(Nat))
           /\ Len(Append(m, a)) = Len(m) + 1
           /\ Append(m, a)[Len(m) + 1] = a
           /\ \A i \in DOMAIN m : Append(m, a)[i] = m[i]
           /\ DOMAIN Append(m, a) = 1 .. Len(m) + 1
           /\ DOMAIN m = 1 .. Len(m)
  OBVIOUS

(* No array is borrowed or held at first.                                   *)
LEMMA PoolInitHolds == PoolInit => PoolInv
<1> SUFFICES ASSUME PoolInit PROVE PoolInv
  OBVIOUS
<1> USE PoolAssumption DEF PoolInit
<1>1. mem \in Seq(Seq(Nat)) /\ pool \subseteq DOMAIN mem /\ reads \in 0 .. MaxReads
  OBVIOUS
<1>2. /\ at \in [Readers -> {"idle", "read", "copy", "release"}]
      /\ buf \in [Readers -> 0 .. Len(mem)]
      /\ seen \in [Readers -> Seq(Nat)]
  BY <1>1
<1>3. OneBorrower /\ HeldApart /\ HeldTyped /\ AtFront /\ Borrowing /\ ResultsIntact
  BY DEF OneBorrower, HeldApart, HeldTyped, AtFront, Borrowing, ResultsIntact
<1> QED BY <1>1, <1>2, <1>3 DEF PoolInv

(* A new array disturbs nobody.                                             *)
LEMMA MemoryGrows ==
    ASSUME PoolInv, NEW a \in Seq(Nat), mem' = Append(mem, a)
    PROVE  /\ mem' \in Seq(Seq(Nat)) /\ Len(mem') = Len(mem) + 1
           /\ mem'[Fresh] = a /\ Fresh \in Nat \ {0}
           /\ Fresh \notin DOMAIN mem /\ Fresh \in DOMAIN mem'
           /\ DOMAIN mem = 1 .. Len(mem) /\ DOMAIN mem' = 1 .. Len(mem')
           /\ \A i \in DOMAIN mem : mem'[i] = mem[i]
  BY AppendKeeps DEF Fresh, PoolInv

(* A borrowed array comes out of the pool or is new.                        *)
LEMMA AcquireKeeps ==
    ASSUME PoolInv, NEW r \in Readers, Acquire(r)
    PROVE  PoolInv'
<1> USE PoolAssumption
<1> DEFINE Kept == \E b \in pool : /\ pool' = pool \ {b} /\ buf' = [buf EXCEPT ![r] = b]
                                   /\ Len(mem[b]) >= Size[r] /\ UNCHANGED mem
           Made == Make(r) /\ \E P \in SUBSET pool : pool' = P
<1>0. /\ at' = [at EXCEPT ![r] = "read"] /\ UNCHANGED <<seen, held>>
      /\ reads' \in 0 .. MaxReads
  BY DEF Acquire, PoolInv
<1>1. Kept \/ Made
  <2>1. \A b \in pool : Len(mem[b]) \in Nat /\ Size[r] \in Nat
    BY DEF PoolInv
  <2>2. (\E b \in pool : /\ pool' = pool \ {b}
                         /\ IF Len(mem[b]) < Size[r] THEN Make(r)
                            ELSE buf' = [buf EXCEPT ![r] = b] /\ UNCHANGED mem)
        \/ (Make(r) /\ UNCHANGED pool)
    BY DEF Acquire
  <2> QED BY <2>1, <2>2
<1>2. CASE Kept
  <2>1. PICK b \in pool : /\ pool' = pool \ {b} /\ buf' = [buf EXCEPT ![r] = b]
                          /\ Len(mem[b]) >= Size[r] /\ UNCHANGED mem
    BY <1>2
  <2>2. b \in 1 .. Len(mem) /\ b # 0
    BY DEF PoolInv
  <2>3. buf' \in [Readers -> 0 .. Len(mem)] /\ pool' \subseteq DOMAIN mem'
    BY <2>1, <2>2 DEF PoolInv
  <2>4. OneBorrower'
    BY <2>1, <2>2 DEF PoolInv, OneBorrower
  <2>5. HeldApart'
    BY <1>0, <2>1, <2>2 DEF PoolInv, HeldApart
  <2>6. AtFront'
    BY <1>0, <2>1 DEF PoolInv, AtFront
  <2>7. Borrowing'
    BY <1>0, <2>1, <2>2 DEF PoolInv, Borrowing
  <2>8. HeldTyped' /\ ResultsIntact'
    BY <1>0, <2>1 DEF PoolInv, HeldTyped, ResultsIntact
  <2> QED BY <1>0, <2>1, <2>3, <2>4, <2>5, <2>6, <2>7, <2>8 DEF PoolInv
<1>3. CASE Made
  <2>0. Size[r] \in Nat
    OBVIOUS
  <2>1. mem' = Append(mem, Zeros(Size[r])) /\ buf' = [buf EXCEPT ![r] = Fresh]
    BY <1>3 DEF Make
  <2>2. pool' \subseteq pool
    BY <1>3
  <2>3. Zeros(Size[r]) \in Seq(Nat) /\ Len(Zeros(Size[r])) = Size[r]
    BY <2>0, ZerosTyped
  <2>4. /\ mem' \in Seq(Seq(Nat)) /\ Len(mem') = Len(mem) + 1
        /\ mem'[Fresh] = Zeros(Size[r]) /\ Fresh \in Nat \ {0}
        /\ Fresh \notin DOMAIN mem /\ Fresh \in DOMAIN mem'
        /\ DOMAIN mem = 1 .. Len(mem) /\ DOMAIN mem' = 1 .. Len(mem')
        /\ \A i \in DOMAIN mem : mem'[i] = mem[i]
    BY <2>1, <2>3, MemoryGrows
  <2>5. \A s \in Readers : buf[s] \in 0 .. Len(mem) /\ buf[s] # Fresh
    BY <2>4 DEF PoolInv
  <2>6. \A s \in Readers : buf'[s] = IF s = r THEN Fresh ELSE buf[s]
    BY <2>1 DEF PoolInv
  <2>7. buf' \in [Readers -> 0 .. Len(mem')] /\ pool' \subseteq DOMAIN mem'
    BY <2>1, <2>2, <2>4 DEF PoolInv
  <2>8. OneBorrower'
    BY <2>2, <2>4, <2>5, <2>6 DEF PoolInv, OneBorrower
  <2>9. HeldApart'
    <3>1. ASSUME NEW h \in held
          PROVE  h.array \in DOMAIN mem /\ h.array \notin pool /\ \A s \in Readers : buf[s] # h.array
      BY DEF PoolInv, HeldApart
    <3>2. ASSUME NEW h \in held
          PROVE  h.array \in DOMAIN mem' /\ h.array \notin pool' /\ \A s \in Readers : buf'[s] # h.array
      <4>1. h.array # Fresh /\ h.array \in DOMAIN mem'
        BY <2>4, <3>1
      <4> QED BY <2>2, <2>6, <3>1, <4>1
    <3> QED BY <1>0, <3>2 DEF HeldApart
  <2>10. \A s \in Readers : at[s] \in {"read", "copy", "release"} => buf[s] \in DOMAIN mem
    BY <2>4, <2>5 DEF PoolInv, Borrowing
  <2>11. AtFront'
    <3> SUFFICES ASSUME NEW s \in Readers, at'[s] = "copy"
                 PROVE  /\ Len(seen'[s]) <= Len(mem'[buf'[s]])
                        /\ SubSeq(mem'[buf'[s]], 1, Len(seen'[s])) = seen'[s]
      BY DEF AtFront
    <3>1. s # r /\ at[s] = "copy" /\ seen'[s] = seen[s] /\ buf'[s] = buf[s]
      BY <1>0, <2>6 DEF PoolInv
    <3>2. mem'[buf'[s]] = mem[buf[s]]
      BY <2>4, <2>10, <3>1
    <3> QED BY <3>1, <3>2 DEF PoolInv, AtFront
  <2>12. Borrowing'
    <3> SUFFICES ASSUME NEW s \in Readers
                 PROVE  /\ at'[s] # "idle" => buf'[s] # 0
                        /\ at'[s] \in {"read", "copy"} => Len(mem'[buf'[s]]) >= Size[s]
      BY DEF Borrowing
    <3>1. CASE s = r
      BY <2>0, <2>3, <2>4, <2>6, <3>1
    <3>2. CASE s # r
      <4>1. at'[s] = at[s] /\ buf'[s] = buf[s]
        BY <1>0, <2>6, <3>2 DEF PoolInv
      <4>2. at[s] \in {"read", "copy"} => mem'[buf[s]] = mem[buf[s]]
        BY <2>4, <2>10
      <4> QED BY <4>1, <4>2 DEF PoolInv, Borrowing
    <3> QED BY <3>1, <3>2
  <2>13. HeldTyped' /\ ResultsIntact'
    BY <1>0, <2>4 DEF PoolInv, HeldTyped, ResultsIntact, HeldApart
  <2> QED BY <1>0, <2>1, <2>4, <2>7, <2>8, <2>9, <2>11, <2>12, <2>13 DEF PoolInv
<1> QED BY <1>1, <1>2, <1>3

(* A read changes only the reader's own array.                              *)
LEMMA ReadKeeps ==
    ASSUME PoolInv, NEW r \in Readers, NEW d \in Datagrams, Read(r, d)
    PROVE  PoolInv'
<1> USE PoolAssumption
<1> DEFINE x == AsRead(d, Size[r])
           a == Overwrite(mem[buf[r]], x)
<1>1. /\ seen' = [seen EXCEPT ![r] = x] /\ mem' = [mem EXCEPT ![buf[r]] = a]
      /\ at' = [at EXCEPT ![r] = "copy"] \/ UNCHANGED at
      /\ UNCHANGED <<pool, buf, held, reads>> /\ at[r] = "read"
  BY DEF Read
<1>2. buf[r] \in 1 .. Len(mem) /\ mem[buf[r]] \in Seq(Nat) /\ Len(mem[buf[r]]) >= Size[r]
  BY <1>1 DEF PoolInv, Borrowing
<1>3. x \in Seq(Nat) /\ Len(x) <= Size[r] /\ Size[r] \in Nat
  BY AsReadFits
<1>4. Len(x) <= Len(mem[buf[r]])
  BY <1>2, <1>3
<1>5. a \in Seq(Nat) /\ Len(a) = Len(mem[buf[r]]) /\ SubSeq(a, 1, Len(x)) = x
  BY <1>2, <1>3, <1>4, OverwriteFront
<1> HIDE DEF x, a
<1>6. /\ mem' \in Seq(Seq(Nat)) /\ Len(mem') = Len(mem) /\ DOMAIN mem' = DOMAIN mem
      /\ mem'[buf[r]] = a /\ \A i \in DOMAIN mem : i # buf[r] => mem'[i] = mem[i]
  BY <1>1, <1>2, <1>5 DEF PoolInv
<1>7. \A i \in DOMAIN mem : Len(mem'[i]) = Len(mem[i])
  BY <1>5, <1>6
<1>8. /\ at' \in [Readers -> {"idle", "read", "copy", "release"}]
      /\ seen' \in [Readers -> Seq(Nat)] /\ seen'[r] = x
      /\ \A s \in Readers : s # r => at'[s] = at[s] /\ seen'[s] = seen[s]
      /\ at'[r] \in {"read", "copy"}
  BY <1>1, <1>3 DEF PoolInv
<1>9. OneBorrower'
  BY <1>1 DEF PoolInv, OneBorrower
<1>10. HeldApart'
  BY <1>1, <1>6 DEF PoolInv, HeldApart
<1>11. \A s \in Readers : at[s] # "idle" => buf[s] \in DOMAIN mem
  BY DEF PoolInv, Borrowing
<1>12. \A s \in Readers : s # r /\ at[s] # "idle" => mem'[buf[s]] = mem[buf[s]]
  BY <1>2, <1>6, <1>11 DEF PoolInv, OneBorrower
<1>13. AtFront'
  <2> SUFFICES ASSUME NEW s \in Readers, at'[s] = "copy"
               PROVE  /\ Len(seen'[s]) <= Len(mem'[buf'[s]])
                      /\ SubSeq(mem'[buf'[s]], 1, Len(seen'[s])) = seen'[s]
    BY DEF AtFront
  <2>1. CASE s = r
    BY <1>1, <1>4, <1>5, <1>6, <1>8, <2>1
  <2>2. CASE s # r
    <3>1. at[s] = "copy" /\ seen'[s] = seen[s] /\ buf'[s] = buf[s]
      BY <1>1, <1>8, <2>2
    <3>2. mem'[buf'[s]] = mem[buf[s]]
      BY <1>12, <2>2, <3>1
    <3> QED BY <3>1, <3>2 DEF PoolInv, AtFront
  <2> QED BY <2>1, <2>2
<1>14. Borrowing'
  BY <1>1, <1>2, <1>7, <1>8, <1>11 DEF PoolInv, Borrowing
<1>15. HeldTyped' /\ ResultsIntact'
  BY <1>1, <1>6, <1>7 DEF PoolInv, HeldTyped, ResultsIntact, HeldApart
<1> QED BY <1>1, <1>6, <1>8, <1>9, <1>10, <1>13, <1>14, <1>15 DEF PoolInv

(* A copy is a new array.                                                   *)
LEMMA CopyKeeps ==
    ASSUME PoolInv, NEW r \in Readers, Copy(r)
    PROVE  PoolInv'
<1> DEFINE c == SubSeq(mem[buf[r]], 1, Len(seen[r]))
           h == [array |-> Fresh, len |-> Len(seen[r]), was |-> seen[r]]
<1>1. /\ mem' = Append(mem, c) /\ held' = held \cup {h}
      /\ at' = [at EXCEPT ![r] = "release"] /\ at[r] = "copy"
      /\ UNCHANGED <<pool, buf, seen, reads>>
  BY DEF Copy
<1>2. c = seen[r] /\ c \in Seq(Nat)
  BY <1>1 DEF PoolInv, AtFront
<1> HIDE DEF c
<1>3. /\ mem' \in Seq(Seq(Nat)) /\ Len(mem') = Len(mem) + 1
      /\ mem'[Fresh] = c /\ Fresh \in Nat \ {0}
      /\ Fresh \notin DOMAIN mem /\ Fresh \in DOMAIN mem'
      /\ DOMAIN mem = 1 .. Len(mem) /\ DOMAIN mem' = 1 .. Len(mem')
      /\ \A i \in DOMAIN mem : mem'[i] = mem[i]
  BY <1>1, <1>2, MemoryGrows
<1>4. h.array = Fresh /\ h.len = Len(seen[r]) /\ h.was = seen[r]
  OBVIOUS
<1> HIDE DEF h
<1>5. \A s \in Readers : buf[s] \in 0 .. Len(mem) /\ buf[s] # Fresh
  BY <1>3 DEF PoolInv
<1>6. \A s \in Readers : at[s] # "idle" => buf[s] \in DOMAIN mem
  BY <1>3, <1>5 DEF PoolInv, Borrowing
<1>7. /\ at' \in [Readers -> {"idle", "read", "copy", "release"}]
      /\ at'[r] = "release" /\ \A s \in Readers : s # r => at'[s] = at[s]
  BY <1>1 DEF PoolInv
<1>8. buf' \in [Readers -> 0 .. Len(mem')] /\ pool' \subseteq DOMAIN mem'
  BY <1>1, <1>3 DEF PoolInv
<1>9. OneBorrower'
  BY <1>1 DEF PoolInv, OneBorrower
<1>10. HeldApart'
  BY <1>1, <1>3, <1>4, <1>5 DEF PoolInv, HeldApart
<1>11. AtFront'
  BY <1>1, <1>3, <1>6, <1>7 DEF PoolInv, AtFront
<1>12. Borrowing'
  BY <1>1, <1>3, <1>6, <1>7 DEF PoolInv, Borrowing
<1>13. HeldTyped'
  BY <1>1, <1>2, <1>3, <1>4 DEF PoolInv, HeldTyped, HeldApart
<1>14. ResultsIntact'
  BY <1>1, <1>2, <1>3, <1>4 DEF PoolInv, ResultsIntact, HeldApart
<1> QED BY <1>1, <1>3, <1>7, <1>8, <1>9, <1>10, <1>11, <1>12, <1>13, <1>14 DEF PoolInv

(* An array that goes back to the pool is no longer the reader's.           *)
LEMMA ReleaseKeeps ==
    ASSUME PoolInv, NEW r \in Readers, Release(r) \/ ReadFails(r)
    PROVE  PoolInv'
<1>1. CASE ReadFails(r)
  BY <1>1 DEF ReadFails, PoolInv, OneBorrower, HeldApart, HeldTyped, AtFront, Borrowing,
      ResultsIntact
<1>2. CASE Release(r)
  <2>1. /\ pool' = pool \cup {buf[r]} /\ buf' = [buf EXCEPT ![r] = 0]
        /\ at' = [at EXCEPT ![r] = "idle"] /\ UNCHANGED <<mem, seen, held, reads>>
        /\ buf[r] \in DOMAIN mem /\ buf[r] # 0
    BY <1>2 DEF Release, PoolInv, Borrowing
  <2>2. buf' \in [Readers -> 0 .. Len(mem')] /\ pool' \subseteq DOMAIN mem'
    BY <2>1 DEF PoolInv
  <2>3. OneBorrower'
    BY <2>1 DEF PoolInv, OneBorrower
  <2>4. HeldApart'
    <3>1. \A h \in held : h.array # 0 /\ h.array # buf[r]
      BY DEF PoolInv, HeldApart
    <3> QED BY <2>1, <3>1 DEF PoolInv, HeldApart
  <2>5. AtFront' /\ Borrowing'
    BY <2>1 DEF PoolInv, AtFront, Borrowing
  <2>6. HeldTyped' /\ ResultsIntact'
    BY <2>1 DEF PoolInv, HeldTyped, ResultsIntact
  <2> QED BY <2>1, <2>2, <2>3, <2>4, <2>5, <2>6 DEF PoolInv
<1> QED BY <1>1, <1>2

(* Every step keeps the arrays apart.                                       *)
LEMMA PoolNextHolds == PoolInv /\ [PoolNext]_poolVars => PoolInv'
<1> SUFFICES ASSUME PoolInv, [PoolNext]_poolVars PROVE PoolInv'
  OBVIOUS
<1>1. CASE UNCHANGED poolVars
  BY <1>1 DEF poolVars, PoolInv, OneBorrower, HeldApart, HeldTyped, AtFront, Borrowing,
      ResultsIntact
<1>2. ASSUME NEW b \in pool, Forget(b) PROVE PoolInv'
  BY <1>2 DEF Forget, PoolInv, OneBorrower, HeldApart, HeldTyped, AtFront, Borrowing,
      ResultsIntact
<1>3. CASE AllRead
  BY <1>1, <1>3 DEF AllRead
<1> QED
  BY <1>1, <1>2, <1>3, AcquireKeeps, ReadKeeps, CopyKeeps, ReleaseKeeps DEF PoolNext

(* The arrays are apart in every reachable state.                           *)
LEMMA PoolInvariance == PoolSpec => []PoolInv
<1> QED BY PoolInitHolds, PoolNextHolds, PTL DEF PoolSpec

(* Every variable of the pool keeps its type (transport.go:10-44).          *)
THEOREM PoolTyped == PoolSpec => []TypeOK
<1>1. PoolInv => TypeOK
  BY DEF PoolInv, TypeOK, HeldApart, HeldTyped
<1> QED BY <1>1, PoolInvariance, PTL

(* No buffer is borrowed twice (transport.go:36-37, 83-96).                 *)
THEOREM BorrowedOnce == PoolSpec => []OneBorrower
<1>1. PoolInv => OneBorrower
  BY DEF PoolInv
<1> QED BY <1>1, PoolInvariance, PTL

(* A result stays the datagram that was read, for any number of readers of  *)
(* any sizes (transport.go:42-44, 76-78).                                   *)
THEOREM ResultsStay == PoolSpec => []ResultsIntact
<1>1. PoolInv => ResultsIntact
  BY DEF PoolInv
<1> QED BY <1>1, PoolInvariance, PTL
=============================================================================
