---------------------------- MODULE CollectProofs ----------------------------
(* Proofs about Collect for any responses, stray datagrams, duplicates and  *)
(* buffer size: no slot is dereferenced empty, what is returned is the      *)
(* response of the first fragment, and a compressed one is within the       *)
(* limit.                                                                   *)
(*                                                                          *)
(* The theorems share one invariant of the collection: its slots are those  *)
(* of the fragments stored, as many as were counted, all within the total;  *)
(* and, as long as only genuine fragments of one response were heard, slot  *)
(* i holds chunk i of it. FromHeard adds what holds of any fragments: slot  *)
(* i holds the payload of one that was heard, with number i and the first   *)
(* one's header.                                                            *)
EXTENDS Collect, FiniteSetTheorems, TLAPS

Genuine == UNION {Fragments(r) : r \in Responses}

(* A well-formed collection: its slots lie within the total, and it counts  *)
(* them.                                                                    *)
Slots(c) ==
    /\ c.total \in Nat /\ c.received \in Nat
    /\ DOMAIN c.parts \subseteq 0 .. c.total - 1
    /\ IsFiniteSet(DOMAIN c.parts)
    /\ c.received = Cardinality(DOMAIN c.parts)

(* The collection holds chunks of response r in their slots.                *)
Holds(c, r) ==
    /\ c.id = r.id /\ c.total = Len(r.chunks) /\ c.split = r.split
    /\ \A i \in DOMAIN c.parts : c.parts[i] = r.chunks[i + 1]

StateOK ==
    /\ pc \in {"start", "recv", "done"}
    /\ net \subseteq Sent \cup Stray
    /\ heard \in Seq(Packet)
    /\ pc = "start" <=> heard = <<>>
    /\ pc = "start" => col.received = 0
    /\ pc = "recv" => col.received > 0
    /\ pc # "done" => result.err = "none"

(* A call that is done gave up on a fragment or a read, or returned what    *)
(* its complete collection amounts to.                                      *)
Ended == result = Outcome(col) /\ Complete(col) /\ col.received > 0

ResultInv == pc = "done" => Ended \/ result.err \notin {"none", "panic"}

HoldsInv ==
    \A r \in Responses :
        HeardOnly(Genuine) /\ heard # <<>> /\ heard[1] \in Fragments(r) /\ col.received > 0
        => Holds(col, r)

(* Exactly the fragments of r were heard, none twice.                       *)
HeardOnce(r) == HeardOnly(Fragments(r)) /\ IsInjective(heard)

OrderInv ==
    \A r \in Responses : HeardOnce(r) =>
        /\ pc = "recv" => DOMAIN col.parts = {heard[i].number : i \in DOMAIN heard}
        /\ pc = "done" => Ended \/ result.err = "io"

IInv == StateOK /\ Slots(col) /\ ResultInv /\ HoldsInv /\ OrderInv
-----------------------------------------------------------------------------
(* A fragment of a response is a packet with one of its chunks. *)
LEMMA FragmentFacts ==
    ASSUME NEW r \in Responses, NEW p \in Fragments(r)
    PROVE  /\ p \in Packet /\ p.framed /\ p.hdr /\ p.payload # <<>>
           /\ p.id = r.id /\ p.total = Len(r.chunks) /\ p.split = r.split
           /\ p.number \in 0 .. Len(r.chunks) - 1 /\ p.number + 1 \in DOMAIN r.chunks
           /\ p.payload = r.chunks[p.number + 1]
           /\ p = FragmentOf(r, p.number + 1)
<1>1. PICK i \in DOMAIN r.chunks : p = FragmentOf(r, i)
  BY DEF Fragments
<1>2. /\ i \in 1 .. Len(r.chunks) /\ Len(r.chunks) \in Nat
      /\ r.chunks[i] \in Seq(Nat) /\ r.chunks[i] # <<>>
      /\ r.id \in [n : Nat, zip : BOOLEAN] /\ r.split \in Nat
  BY CollectAssumption
<1>3. i - 1 \in 0 .. Len(r.chunks) - 1 /\ (i - 1) + 1 = i
  BY <1>2
<1>4. p = [framed |-> TRUE, hdr |-> TRUE, id |-> r.id, total |-> Len(r.chunks),
           number |-> i - 1, split |-> r.split, payload |-> r.chunks[i]]
  BY <1>1 DEF FragmentOf
<1>5. p \in Packet
  BY <1>2, <1>3, <1>4 DEF Packet
<1>6. p.number + 1 = i /\ p.number \in 0 .. Len(r.chunks) - 1
  BY <1>3, <1>4
<1>7. p.framed /\ p.hdr
  BY <1>4
<1>8. p.payload = r.chunks[i] /\ p.id = r.id /\ p.total = Len(r.chunks) /\ p.split = r.split
  BY <1>4
<1> QED
  BY <1>1, <1>2, <1>5, <1>6, <1>7, <1>8

(* Responses are told apart by their ids. *)
LEMMA SameResponse ==
    ASSUME NEW r \in Responses, NEW p \in Genuine, p.id = r.id
    PROVE  p \in Fragments(r)
<1>1. PICK s \in Responses : p \in Fragments(s)
  BY DEF Genuine
<1> QED
  BY <1>1, FragmentFacts, CollectAssumption

(* What is read is a packet with its payload possibly cut. *)
LEMMA ReadPacket ==
    ASSUME StateOK, NEW d \in net
    PROVE  AsRead(d.pkt) \in Packet
<1>1. d.pkt \in Packet
  <2>1. CASE d \in Sent
    <3>1. PICK r \in Responses : d.pkt \in Fragments(r)
      BY <2>1 DEF Sent
    <3> QED
      BY <3>1, FragmentFacts
  <2>2. CASE d \in Stray
    BY <2>2, CollectAssumption
  <2> QED
    BY <2>1, <2>2 DEF StateOK
<1>2. d.pkt.payload \in Seq(Nat)
  BY <1>1 DEF Packet
<1>3. (IF Len(d.pkt.payload) > Room THEN SubSeq(d.pkt.payload, 1, Room) ELSE d.pkt.payload) \in Seq(Nat)
  BY <1>2, CollectAssumption
<1> QED
  BY <1>1, <1>3 DEF Packet, AsRead, Cut

(* The collection a first fragment opens has no slot filled. *)
LEMMA OpenedSlots == ASSUME NEW p \in Packet PROVE Slots(Opened(p))
<1>1. DOMAIN Opened(p).parts = {} /\ Opened(p).received = 0
  BY DEF Opened
<1> QED
  BY <1>1, FS_EmptySet DEF Slots, Opened, Packet

(* Storing a placeable fragment fills one more slot, within the total. *)
LEMMA StoredSlots ==
    ASSUME NEW c, NEW p \in Packet, Slots(c), Placeable(c, p)
    PROVE  /\ Slots(Stored(c, p)) /\ Stored(c, p).received > 0
           /\ DOMAIN Stored(c, p).parts = DOMAIN c.parts \cup {p.number}
<1>1. p.number \in Nat
  BY DEF Packet
<1>2. /\ IsFiniteSet(DOMAIN c.parts \cup {p.number})
      /\ Cardinality(DOMAIN c.parts \cup {p.number}) = Cardinality(DOMAIN c.parts) + 1
  BY FS_AddElement DEF Slots, Placeable
<1>3. p.number \in 0 .. c.total - 1
  BY <1>1 DEF Slots, Placeable
<1> QED
  BY <1>2, <1>3 DEF Slots, Stored

(* A collection counted complete has every slot filled. *)
LEMMA CompleteFull ==
    ASSUME NEW c, Slots(c), Complete(c)
    PROVE  ~NilSlot(c)
<1>1. PICK top \in Int : top = c.total - 1
  BY DEF Slots
<1>2. IsFiniteSet(0 .. top) /\ Cardinality(0 .. top) = IF 0 > top THEN 0 ELSE top - 0 + 1
  BY FS_Interval
<1>3. Cardinality(0 .. top) = Cardinality(DOMAIN c.parts)
  BY <1>1, <1>2 DEF Slots, Complete
<1>4. DOMAIN c.parts \in SUBSET (0 .. top)
  BY <1>1 DEF Slots
<1>5. DOMAIN c.parts = 0 .. top
  BY <1>2, <1>3, <1>4, FS_Subset
<1> QED
  BY <1>1, <1>5 DEF NilSlot

(* What a collection returns is never "panic" then, nor an input error. *)
LEMMA CompleteOutcome ==
    ASSUME NEW c, Slots(c), Complete(c)
    PROVE  Outcome(c) = Unpacked(c.id.zip, Reassembled(c)) /\ Outcome(c).err \in {"none", "multi_packet"}
BY CompleteFull DEF Outcome, Unpacked, Answer, Failure

(* A complete collection that holds chunks of r returns r. *)
LEMMA HoldsOutcome ==
    ASSUME NEW r \in Responses, NEW c, Slots(c), Complete(c), Holds(c, r)
    PROVE  Outcome(c) = Unpacked(r.id.zip, FlattenSeq(r.chunks))
<1>1. DOMAIN c.parts = 0 .. Len(r.chunks) - 1 /\ c.total = Len(r.chunks)
  BY CompleteFull DEF NilSlot, Holds
<1>2. Len(r.chunks) \in Nat /\ r.chunks \in [1 .. Len(r.chunks) -> Seq(Nat)]
  BY CollectAssumption
<1>3. ASSUME NEW i \in 1 .. Len(r.chunks) PROVE c.parts[i - 1] = r.chunks[i]
  <2>1. i - 1 \in 0 .. Len(r.chunks) - 1 /\ (i - 1) + 1 = i
    BY <1>2
  <2> QED
    BY <1>1, <2>1 DEF Holds
<1>4. r.chunks = [i \in 1 .. Len(r.chunks) |-> r.chunks[i]]
  BY <1>2
<1>5. [i \in 1 .. c.total |-> c.parts[i - 1]] = r.chunks
  BY <1>1, <1>3, <1>4
<1>6. Reassembled(c) = FlattenSeq(r.chunks)
  BY <1>5 DEF Reassembled
<1> QED
  BY <1>6, CompleteOutcome DEF Holds

(* Storing a fragment of r, in a collection that is empty or holds r, holds *)
(* r.                                                                       *)
LEMMA HoldsStored ==
    ASSUME NEW r \in Responses, NEW p \in Fragments(r), NEW c, Slots(c),
           Holds(c, r) \/ c = Opened(p)
    PROVE  Holds(Stored(c, p), r)
<1>1. Holds(c, r)
  BY FragmentFacts DEF Holds, Opened
<1> QED
  BY <1>1, FragmentFacts DEF Holds, Stored
-----------------------------------------------------------------------------
(* Reading appends one packet to what was heard. *)
LEMMA HeardGrows ==
    ASSUME StateOK, NEW p \in Packet, heard' = Append(heard, p)
    PROVE  /\ heard' \in Seq(Packet) /\ heard' # <<>>
           /\ DOMAIN heard = 1 .. Len(heard) /\ Len(heard) \in Nat
           /\ DOMAIN heard' = 1 .. Len(heard) + 1
           /\ heard'[Len(heard) + 1] = p
           /\ \A i \in DOMAIN heard : heard'[i] = heard[i]
           /\ heard'[1] = IF heard = <<>> THEN p ELSE heard[1]
           /\ \A S : (\A i \in DOMAIN heard' : heard'[i] \in S) => HeardOnly(S) /\ p \in S
BY DEF StateOK, HeardOnly

(* The collection a fragment is added to is well formed. *)
LEMMA CurrentSlots ==
    ASSUME IInv, NEW p \in Packet
    PROVE  Slots(Current(p))
BY OpenedSlots DEF IInv, Current

(* When only r was heard, the collection holds r or is just opened. *)
LEMMA CurrentHolds ==
    ASSUME IInv, NEW r \in Responses, NEW p \in Packet, pc \in {"start", "recv"},
           HeardOnly(Genuine), heard # <<>> => heard[1] \in Fragments(r)
    PROVE  Holds(Current(p), r) \/ (pc = "start" /\ Current(p) = Opened(p))
BY DEF IInv, HoldsInv, StateOK, Current

(* Of the fragments of one response none is refused, unless it was heard    *)
(* before.                                                                  *)
LEMMA NotRefused ==
    ASSUME IInv, NEW r \in Responses, NEW p \in Fragments(r), pc \in {"start", "recv"},
           HeardOnce(r), \A i \in DOMAIN heard : heard[i] # p
    PROVE  Refusal(Current(p), p) = "none"
<1>1. ParseError(p) = "none"
  BY FragmentFacts DEF ParseError
<1>2. HeardOnly(Genuine)
  BY DEF HeardOnce, HeardOnly, Genuine
<1>3. heard # <<>> => heard[1] \in Fragments(r)
  BY DEF HeardOnce, HeardOnly, IInv, StateOK
<1>4. Compatible(Current(p), p) /\ Current(p).total = Len(r.chunks)
  BY <1>2, <1>3, CurrentHolds, FragmentFacts DEF Compatible, Holds, Opened
<1>5. p.number \notin DOMAIN Current(p).parts
  <2>1. CASE pc = "start"
    BY <2>1 DEF Current, Opened
  <2>2. CASE pc = "recv"
    <3>1. DOMAIN col.parts = {heard[i].number : i \in DOMAIN heard}
      BY <2>2 DEF IInv, OrderInv
    <3>2. ASSUME NEW i \in DOMAIN heard, heard[i].number = p.number
          PROVE  FALSE
      BY <3>2, FragmentFacts DEF HeardOnce, HeardOnly
    <3> QED
      BY <2>2, <3>1, <3>2 DEF Current
  <2> QED
    BY <2>1, <2>2
<1>6. p.number < Len(r.chunks)
  <2>1. Len(r.chunks) \in Nat
    BY CollectAssumption
  <2> QED
    BY <2>1, FragmentFacts
<1> QED
  BY <1>1, <1>4, <1>5, <1>6 DEF Refusal, Placeable
-----------------------------------------------------------------------------
(* The initial state satisfies the invariant. *)
LEMMA InitInv == Init => IInv
<1> SUFFICES ASSUME Init PROVE IInv
  OBVIOUS
<1>1. col.received = 0 /\ DOMAIN col.parts = {} /\ heard \in Seq(Packet) /\ heard = <<>>
  BY DEF Init, NoCollection
<1>2. Slots(col)
  BY <1>1, FS_EmptySet DEF Init, NoCollection, Slots
<1>3. StateOK /\ ResultInv
  BY <1>1 DEF Init, StateOK, ResultInv, Failure
<1>4. HoldsInv /\ OrderInv
  BY <1>1 DEF Init, HoldsInv, OrderInv
<1> QED
  BY <1>2, <1>3, <1>4 DEF IInv

(* A refused fragment ends the call and leaves the collection alone. *)
LEMMA RefuseInv == ASSUME IInv, NEW d \in net, Refuse(d) PROVE IInv'
<1> DEFINE p == AsRead(d.pkt)
<1> USE DEF IInv
<1>1. p \in Packet
  BY ReadPacket
<1>2. heard' = Append(heard, p) /\ pc \in {"start", "recv"} /\ pc' = "done" /\ col' = col
  BY DEF Refuse, Read
<1>3. /\ Refusal(Current(p), p) # "none"
      /\ result'.err = Refusal(Current(p), p)
  BY DEF Refuse, Failure
<1>4. result'.err \notin {"none", "panic"}
  BY <1>3 DEF Refusal, ParseError
<1>5. net' \subseteq net
  BY DEF Refuse, Read, Take
<1>6. StateOK'
  BY <1>1, <1>2, <1>5, HeardGrows DEF StateOK
<1>7. HoldsInv'
  <2> SUFFICES ASSUME NEW r \in Responses, HeardOnly(Genuine)',
                      heard'[1] \in Fragments(r), col.received > 0
               PROVE  Holds(col, r)
    BY <1>2 DEF HoldsInv
  <2>1. HeardOnly(Genuine)
    BY <1>1, <1>2, HeardGrows DEF HeardOnly
  <2>2. heard # <<>> /\ heard[1] \in Fragments(r)
    BY <1>1, <1>2, HeardGrows DEF StateOK
  <2> QED
    BY <2>1, <2>2 DEF HoldsInv
<1>8. OrderInv'
  <2> SUFFICES ASSUME NEW r \in Responses, HeardOnce(r)'
               PROVE  FALSE
    BY <1>2 DEF OrderInv
  <2>1. HeardOnly(Fragments(r)) /\ p \in Fragments(r)
    BY <1>1, <1>2, HeardGrows DEF HeardOnce, HeardOnly
  <2>2. IsInjective(heard) /\ \A i \in DOMAIN heard : heard[i] # p
    BY <1>1, <1>2, HeardGrows DEF HeardOnce, IsInjective
  <2> QED
    BY <1>2, <1>3, <2>1, <2>2, NotRefused DEF HeardOnce
<1> QED
  BY <1>2, <1>4, <1>6, <1>7, <1>8 DEF ResultInv

(* A stored fragment adds its slot; the last one ends the call. *)
LEMMA StoreInv == ASSUME IInv, NEW d \in net, Store(d) PROVE IInv'
<1> DEFINE p == AsRead(d.pkt)
<1> USE DEF IInv
<1>1. p \in Packet
  BY ReadPacket
<1>2. heard' = Append(heard, p) /\ pc \in {"start", "recv"} /\ col' = Stored(Current(p), p)
  BY DEF Store, Read
<1>3. Placeable(Current(p), p) /\ Compatible(Current(p), p)
  BY DEF Store, Refusal
<1>4. /\ Slots(col') /\ col'.received > 0
      /\ DOMAIN col'.parts = DOMAIN Current(p).parts \cup {p.number}
  BY <1>1, <1>2, <1>3, CurrentSlots, StoredSlots
<1>5. \/ pc' = "recv" /\ result' = result
      \/ pc' = "done" /\ Ended'
  BY <1>2, <1>4 DEF Store, Ended
<1>6. net' \subseteq net
  BY DEF Store, Read, Take
<1>7. StateOK'
  BY <1>1, <1>2, <1>4, <1>5, <1>6, HeardGrows DEF StateOK
<1>8. HoldsInv'
  <2> SUFFICES ASSUME NEW r \in Responses, HeardOnly(Genuine)', heard'[1] \in Fragments(r)
               PROVE  Holds(col', r)
    BY DEF HoldsInv, Holds
  <2>1. HeardOnly(Genuine) /\ p \in Genuine
    BY <1>1, <1>2, HeardGrows DEF HeardOnly
  <2>2. /\ heard # <<>> => heard[1] \in Fragments(r)
        /\ heard = <<>> => p \in Fragments(r)
    BY <1>1, <1>2, HeardGrows
  <2>3. Holds(Current(p), r) \/ (pc = "start" /\ Current(p) = Opened(p))
    BY <1>1, <1>2, <2>1, <2>2, CurrentHolds
  <2>4. p \in Fragments(r)
    BY <1>3, <2>1, <2>2, <2>3, SameResponse DEF Compatible, Holds, StateOK
  <2> QED
    BY <1>1, <1>2, <2>3, <2>4, CurrentSlots, HoldsStored
<1>9. OrderInv'
  <2> SUFFICES ASSUME NEW r \in Responses, HeardOnce(r)', pc' = "recv"
               PROVE  DOMAIN col'.parts = {heard'[i].number : i \in DOMAIN heard'}
    BY <1>5 DEF OrderInv, Ended
  <2>1. HeardOnly(Fragments(r)) /\ IsInjective(heard)
    BY <1>1, <1>2, HeardGrows DEF HeardOnce, HeardOnly, IsInjective
  <2>2. DOMAIN Current(p).parts = {heard[i].number : i \in DOMAIN heard}
    <3>1. CASE pc = "start"
      BY <3>1 DEF Current, Opened, StateOK
    <3>2. CASE pc = "recv"
      BY <3>2, <2>1 DEF Current, OrderInv, HeardOnce
    <3> QED
      BY <1>2, <3>1, <3>2
  <2>3. {heard'[i].number : i \in DOMAIN heard'} =
        {heard[i].number : i \in DOMAIN heard} \cup {p.number}
    BY <1>1, <1>2, HeardGrows
  <2> QED
    BY <1>4, <2>2, <2>3
<1> QED
  BY <1>4, <1>5, <1>7, <1>8, <1>9 DEF ResultInv

(* Every step preserves the invariant. *)
LEMMA NextInv == IInv /\ [Next]_vars => IInv'
<1> SUFFICES ASSUME IInv, [Next]_vars PROVE IInv'
  OBVIOUS
<1> USE DEF IInv
<1>1. ASSUME NEW d \in net, DropForeign(d) PROVE IInv'
  <2>1. net' \subseteq net /\ UNCHANGED <<pc, col, result, heard>>
    BY <1>1 DEF DropForeign, Take
  <2> QED
    BY <2>1 DEF StateOK, ResultInv, HoldsInv, OrderInv, Ended, HeardOnce, HeardOnly
<1>2. CASE ReceiveFails
  <2>1. /\ pc = "recv" /\ pc' = "done" /\ result'.err = "io"
        /\ UNCHANGED <<net, col, heard>>
    BY <1>2 DEF ReceiveFails, Failure
  <2> QED
    BY <2>1 DEF StateOK, ResultInv, HoldsInv, OrderInv, HeardOnce, HeardOnly
<1>3. CASE Done \/ UNCHANGED vars
  <2>1. UNCHANGED <<pc, net, col, result, heard>>
    BY <1>3 DEF Done, vars
  <2> QED
    BY <2>1 DEF StateOK, ResultInv, HoldsInv, OrderInv, Ended, HeardOnce, HeardOnly
<1> QED
  BY <1>1, <1>2, <1>3, RefuseInv, StoreInv DEF Next

(* The invariant holds in every reachable state. *)
LEMMA Invariance == Spec => []IInv
  BY InitInv, NextInv, PTL DEF Spec
-----------------------------------------------------------------------------
(* The copy loop never meets an empty slot, whatever arrives                *)
(* (multipacket.go:43-75).                                                  *)
THEOREM NeverPanics == Spec => []NoPanic
<1>1. IInv => NoPanic
  BY CompleteOutcome DEF IInv, StateOK, ResultInv, Ended, NoPanic
<1> QED
  BY Invariance, <1>1, PTL

(* What is put together from genuine fragments is exactly the response of   *)
(* the first one (multipacket.go:43-94).                                    *)
THEOREM ReturnsTheResponse == Spec => []Faithful
<1>1. ASSUME IInv PROVE Faithful
  <2> SUFFICES ASSUME NEW r \in Responses, pc = "done", result.err = "none",
                      HeardOnly(Genuine), heard[1] \in Fragments(r)
               PROVE  result = Unpacked(r.id.zip, FlattenSeq(r.chunks))
    BY DEF Faithful, Genuine
  <2>1. Ended /\ Slots(col) /\ heard # <<>>
    BY <1>1 DEF IInv, ResultInv, StateOK
  <2>2. Holds(col, r)
    BY <1>1, <2>1 DEF IInv, HoldsInv, Ended
  <2> QED
    BY <2>1, <2>2, HoldsOutcome DEF Ended
<1> QED
  BY Invariance, <1>1, PTL

(* A response whose fragments arrive once each is returned whatever their   *)
(* order (multipacket.go:44-49, 104-115).                                   *)
THEOREM OrderDoesNotMatter == Spec => []OrderFree
<1>1. ASSUME IInv PROVE OrderFree
  <2> SUFFICES ASSUME NEW r \in Responses, pc = "done", result.err # "io",
                      HeardOnly(Fragments(r)), IsInjective(heard)
               PROVE  result = Unpacked(r.id.zip, FlattenSeq(r.chunks))
    BY DEF OrderFree
  <2>1. Ended /\ Slots(col) /\ heard # <<>> /\ heard \in Seq(Packet)
    BY <1>1 DEF IInv, OrderInv, StateOK, HeardOnce
  <2>2. HeardOnly(Genuine) /\ heard[1] \in Fragments(r)
    BY <2>1 DEF HeardOnly, Genuine
  <2>3. Holds(col, r)
    BY <1>1, <2>1, <2>2 DEF IInv, HoldsInv, Ended
  <2> QED
    BY <2>1, <2>3, HoldsOutcome DEF Ended
<1> QED
  BY Invariance, <1>1, PTL
-----------------------------------------------------------------------------
(* Induction, as a fact about a set: what holds 0 and, with every number,   *)
(* the next one holds them all. A set without x would leave 0 .. x with an  *)
(* injection into itself that misses 0.                                     *)
LEMMA SetInduction ==
    ASSUME NEW S, 0 \in S, \A n \in Nat : n \in S => n + 1 \in S
    PROVE  Nat \subseteq S
<1> SUFFICES ASSUME NEW x \in Nat, x \notin S PROVE FALSE
  OBVIOUS
<1> DEFINE T == S \cap (0 .. x)
           f == [n \in T |-> n + 1]
<1>1. IsFiniteSet(T) /\ 0 \in T
  <2>1. PICK I : I = 0 .. x
    OBVIOUS
  <2>2. IsFiniteSet(I)
    BY <2>1, FS_Interval
  <2>3. T \subseteq I
    BY <2>1
  <2>4. IsFiniteSet(T)
    <3> HIDE DEF T
    <3> QED BY <2>2, <2>3, FS_Subset
  <2> QED BY <2>4
<1>2. IsFiniteSet(T \ {0}) /\ Cardinality(T \ {0}) = Cardinality(T) - 1 /\ Cardinality(T) \in Nat
  BY <1>1, FS_RemoveElement, FS_CardinalityType
<1>3. f \in Injection(T, T \ {0})
  <2>1. \A n \in T : n + 1 \in T \ {0}
    OBVIOUS
  <2> QED BY <2>1 DEF Injection, IsInjective
<1>4. Cardinality(T) <= Cardinality(T \ {0})
  BY <1>1, <1>2, <1>3, FS_Injection DEF ExistsInjection
<1> QED BY <1>2, <1>4

(* Sequences of numbers, put one after the other, are a sequence of         *)
(* numbers.                                                                 *)
LEMMA FlattenTyped ==
    ASSUME NEW s \in Seq(Seq(Nat))
    PROVE  FlattenSeq(s) \in Seq(Nat)
<1> DEFINE n == Len(s)
           Unfolds(g, m) == g = [i \in 1 .. m |-> IF i = 1 THEN s[i] ELSE g[i - 1] \o s[i]]
           flatten == CHOOSE g : Unfolds(g, n)
<1>1. n \in Nat /\ \A i \in 1 .. n : s[i] \in Seq(Nat)
  OBVIOUS
<1>2. \E g : Unfolds(g, n)
  <2> DEFINE S == {m \in Nat : \E g : Unfolds(g, m)}
  <2>1. 0 \in S
    <3>1. Unfolds(<<>>, 0)
      OBVIOUS
    <3> QED BY <3>1
  <2>2. ASSUME NEW m \in Nat, m \in S PROVE m + 1 \in S
    <3>1. PICK g : Unfolds(g, m)
      BY <2>2
    <3>2. PICK h : h = [i \in 1 .. m + 1 |->
                          IF i <= m THEN g[i] ELSE IF i = 1 THEN s[i] ELSE g[m] \o s[i]]
      OBVIOUS
    <3>3. \A i \in 1 .. m + 1 : h[i] = IF i = 1 THEN s[i] ELSE h[i - 1] \o s[i]
      <4> SUFFICES ASSUME NEW i \in 1 .. m + 1
                   PROVE  h[i] = IF i = 1 THEN s[i] ELSE h[i - 1] \o s[i]
        OBVIOUS
      <4>1. CASE i <= m
        <5>1. i \in 1 .. m /\ h[i] = g[i] /\ (i # 1 => i - 1 \in 1 .. m /\ h[i - 1] = g[i - 1])
          BY <3>2, <4>1
        <5>2. g[i] = IF i = 1 THEN s[i] ELSE g[i - 1] \o s[i]
          BY <3>1, <5>1
        <5> QED BY <5>1, <5>2
      <4>2. CASE ~(i <= m)
        <5>1. i = m + 1 /\ (i # 1 => i - 1 = m /\ m \in 1 .. m + 1 /\ h[m] = g[m])
          BY <3>2, <4>2
        <5>2. h[i] = IF i = 1 THEN s[i] ELSE g[m] \o s[i]
          BY <3>2, <4>2
        <5> QED BY <5>1, <5>2
      <4> QED BY <4>1, <4>2
    <3>4. Unfolds(h, m + 1)
      BY <3>2, <3>3
    <3> HIDE DEF Unfolds
    <3> QED BY <3>4
  <2> HIDE DEF S
  <2>3. Nat \subseteq S
    BY <2>1, <2>2, SetInduction
  <2> QED BY <1>1, <2>3 DEF S
<1>3. Unfolds(flatten, n)
  <2> HIDE DEF Unfolds
  <2> QED BY <1>2
<1> HIDE DEF flatten
<1>4. \A i \in 1 .. n : flatten[i] = IF i = 1 THEN s[i] ELSE flatten[i - 1] \o s[i]
  BY <1>3
<1>5. \A i \in 1 .. n : flatten[i] \in Seq(Nat)
  <2> DEFINE T == {m \in Nat : m + 1 \in 1 .. n => flatten[m + 1] \in Seq(Nat)}
  <2>1. 0 \in T
    BY <1>1, <1>4
  <2>2. ASSUME NEW m \in Nat, m \in T PROVE m + 1 \in T
    <3> SUFFICES ASSUME m + 2 \in 1 .. n PROVE flatten[m + 2] \in Seq(Nat)
      OBVIOUS
    <3>1. flatten[m + 1] \in Seq(Nat) /\ s[m + 2] \in Seq(Nat)
      BY <1>1, <2>2
    <3>2. flatten[m + 2] = flatten[m + 1] \o s[m + 2]
      <4>1. PICK k : k = m + 2
        OBVIOUS
      <4>2. k \in 1 .. n /\ k # 1 /\ k - 1 = m + 1
        BY <1>1, <4>1
      <4>3. flatten[k] = flatten[k - 1] \o s[k]
        BY <1>4, <4>2
      <4> QED BY <4>1, <4>2, <4>3
    <3> QED BY <3>1, <3>2
  <2> HIDE DEF T
  <2>3. Nat \subseteq T
    BY <2>1, <2>2, SetInduction
  <2> QED
    <3> SUFFICES ASSUME NEW i \in 1 .. n PROVE flatten[i] \in Seq(Nat)
      OBVIOUS
    <3>1. i - 1 \in T /\ (i - 1) + 1 = i
      BY <1>1, <2>3
    <3> QED BY <3>1 DEF T
<1>6. FlattenSeq(s) = IF n = 0 THEN s ELSE flatten[n]
  BY DEF FlattenSeq, flatten
<1>7. CASE n = 0
  BY <1>6, <1>7
<1>8. CASE n # 0
  <2>1. n \in 1 .. n
    BY <1>1, <1>8
  <2> QED BY <1>5, <1>6, <1>8, <2>1
<1> QED BY <1>7, <1>8
-----------------------------------------------------------------------------
(* What bzip2 yields are units, too.                                        *)
InflateYieldsUnits == \A s \in Seq(Nat) : Inflate(s).out \in Seq(Nat)

Codes == {"none", "io", "packet_header", "multi_packet", "panic"}

TypedInv ==
    /\ CollectionOK(col)
    /\ result \in [err : Codes, data : Seq(Nat)]
    /\ dups \in 0 .. MaxDups

(* What a collection of units amounts to are units.                         *)
LEMMA OutcomeTyped ==
    ASSUME InflateYieldsUnits, NEW c, Slots(c), Complete(c), CollectionOK(c)
    PROVE  Outcome(c) \in [err : Codes, data : Seq(Nat)]
<1>1. PICK body : body = Reassembled(c)
  OBVIOUS
<1>2. body \in Seq(Nat)
  <2>1. DOMAIN c.parts = 0 .. c.total - 1 /\ c.total \in Nat
    BY CompleteFull DEF NilSlot, Slots
  <2>2. ASSUME NEW i \in 1 .. c.total PROVE c.parts[i - 1] \in Seq(Nat)
    <3>1. i - 1 \in 0 .. c.total - 1
      BY <2>1
    <3> QED BY <2>1, <3>1 DEF CollectionOK
  <2>3. PICK s : s = [i \in 1 .. c.total |-> c.parts[i - 1]]
    OBVIOUS
  <2>4. s \in Seq(Seq(Nat))
    BY <2>1, <2>2, <2>3
  <2> QED BY <1>1, <2>3, <2>4, FlattenTyped DEF Reassembled
<1>3. PICK stream : stream = SubSeq(body, 3, Len(body))
  OBVIOUS
<1>4. stream \in Seq(Nat)
  BY <1>2, <1>3
<1>5. Inflate(stream).out \in Seq(Nat)
  BY <1>4 DEF InflateYieldsUnits
<1>6. Outcome(c) = Unpacked(c.id.zip, body)
  BY <1>1, CompleteOutcome
<1>7. Outcome(c) \in {Answer(body), Answer(Inflate(stream).out), Failure("multi_packet")}
  BY <1>3, <1>6 DEF Unpacked
<1>8. \A e \in Codes, data \in Seq(Nat) : [err |-> e, data |-> data] \in [err : Codes, data : Seq(Nat)]
  OBVIOUS
<1>9. <<>> \in Seq(Nat) /\ "none" \in Codes /\ "multi_packet" \in Codes
  BY DEF Codes
<1> HIDE DEF Codes
<1> QED BY <1>2, <1>5, <1>7, <1>8, <1>9 DEF Answer, Failure

(* A collection with one more fragment keeps its type.                      *)
LEMMA StoredTyped ==
    ASSUME NEW c, NEW p \in Packet, Slots(Stored(c, p)), CollectionOK(c)
    PROVE  CollectionOK(Stored(c, p))
<1> DEFINE n == Stored(c, p)
<1>1. /\ n.id = c.id /\ n.total = c.total /\ n.split = c.split
      /\ DOMAIN n.parts = DOMAIN c.parts \cup {p.number}
      /\ \A i \in DOMAIN n.parts : n.parts[i] = IF i = p.number THEN p.payload ELSE c.parts[i]
  BY DEF Stored
<1>2. n.received \in Nat /\ DOMAIN n.parts \subseteq 0 .. n.total - 1
  BY DEF Slots
<1>3. p.payload \in Seq(Nat)
  BY DEF Packet
<1> HIDE DEF n
<1>4. \A i \in DOMAIN n.parts : n.parts[i] \in Seq(Nat)
  BY <1>1, <1>3 DEF CollectionOK
<1>5. CollectionOK(n)
  BY <1>1, <1>2, <1>4 DEF CollectionOK
<1> QED BY <1>5 DEF n

(* The collection a packet opens has its type.                              *)
LEMMA OpenedTyped == ASSUME NEW p \in Packet PROVE CollectionOK(Opened(p))
  BY DEF CollectionOK, Opened, Packet

(* Every step keeps the types.                                              *)
LEMMA TypedNext ==
    ASSUME InflateYieldsUnits PROVE IInv /\ TypedInv /\ [Next]_vars => TypedInv'
<1> SUFFICES ASSUME IInv, TypedInv, [Next]_vars PROVE TypedInv'
  OBVIOUS
<1>1. ASSUME NEW d \in net, Refuse(d) PROVE TypedInv'
  <2>1. PICK p : p = AsRead(d.pkt)
    OBVIOUS
  <2>2. /\ result' = Failure(Refusal(Current(p), p)) /\ col' = col
        /\ Refusal(Current(p), p) # "none" /\ Take(d)
    BY <1>1, <2>1 DEF Refuse, Read
  <2>3. Refusal(Current(p), p) \in Codes
    BY DEF Refusal, ParseError, Codes
  <2>4. dups' \in 0 .. MaxDups
    BY <2>2, CollectAssumption DEF Take, TypedInv
  <2> QED BY <2>2, <2>3, <2>4 DEF TypedInv, Failure, CollectionOK
<1>2. ASSUME NEW d \in net, Store(d) PROVE TypedInv'
  <2>1. PICK p : p = AsRead(d.pkt)
    OBVIOUS
  <2>2. p \in Packet
    BY <2>1, ReadPacket DEF IInv
  <2>3. PICK c : c = Stored(Current(p), p)
    OBVIOUS
  <2>4. /\ col' = c /\ Placeable(Current(p), p) /\ Take(d)
        /\ IF Complete(c) THEN pc' = "done" /\ result' = Outcome(c)
                          ELSE pc' = "recv" /\ UNCHANGED result
    BY <1>2, <2>1, <2>3 DEF Store, Read, Refusal
  <2>5. Slots(Stored(Current(p), p))
    BY <2>2, <2>4, CurrentSlots, StoredSlots
  <2>6. CollectionOK(Current(p))
    BY <2>2, OpenedTyped DEF Current, TypedInv
  <2>7. CollectionOK(c) /\ Slots(c)
    BY <2>2, <2>3, <2>5, <2>6, StoredTyped
  <2>8. result' \in [err : Codes, data : Seq(Nat)]
    <3>1. CASE Complete(c)
      BY <2>4, <2>7, <3>1, OutcomeTyped
    <3>2. CASE ~Complete(c)
      BY <2>4, <3>2 DEF TypedInv
    <3> QED BY <3>1, <3>2
  <2>9. dups' \in 0 .. MaxDups
    BY <2>4, CollectAssumption DEF Take, TypedInv
  <2> QED BY <2>4, <2>7, <2>8, <2>9 DEF TypedInv
<1>3. ASSUME NEW d \in net, DropForeign(d) PROVE TypedInv'
  BY <1>3, CollectAssumption DEF DropForeign, Take, TypedInv
<1>4. CASE ReceiveFails
  BY <1>4 DEF ReceiveFails, TypedInv, Failure, Codes
<1>5. CASE Done \/ UNCHANGED vars
  BY <1>5 DEF Done, vars, TypedInv
<1> QED BY <1>1, <1>2, <1>3, <1>4, <1>5 DEF Next

(* The types hold at first.                                                 *)
LEMMA TypedInit == Init => TypedInv
  BY CollectAssumption DEF Init, TypedInv, CollectionOK, NoCollection, Failure, Codes

(* Every variable keeps its type, for any decompression that yields units   *)
(* (multipacket.go:38-41).                                                  *)
THEOREM CollectTyped == ASSUME InflateYieldsUnits PROVE Spec => []TypeOK
<1>1. ASSUME IInv, TypedInv PROVE TypeOK
  BY <1>1 DEF IInv, StateOK, TypedInv, TypeOK, Codes
<1>2. Spec => []TypedInv
  BY Invariance, TypedInit, TypedNext, PTL DEF Spec
<1> QED BY <1>1, <1>2, Invariance, PTL
-----------------------------------------------------------------------------
(* What the target's datagrams are when they are read.                      *)
Readable == {AsRead(d.pkt) : d \in {s \in Sent \cup Stray : s.src = "target"}}

(* The bodies that fragments with the header of p can be put together to,   *)
(* genuine, cut and stray ones alike, each in its slot.                     *)
Bodies(p) ==
    {FlattenSeq([i \in 1 .. p.total |-> f[i].payload]) :
        f \in {g \in [1 .. p.total -> Readable] :
                  \A i \in 1 .. p.total : Compatible(Opened(p), g[i]) /\ g[i].number = i - 1}}

(* The checksum tells what was compressed from what such fragments happen   *)
(* to inflate to.                                                           *)
ChecksumTells ==
    \A p \in Readable : p.id.zip =>
        \A b \in Bodies(p) :
            Unpacked(TRUE, b).err = "none" =>
                \E r \in Responses : r.id.zip /\ Unpacked(TRUE, b).data = r.plain

(* The header of the collection is the first fragment's, and what is in its *)
(* slots was heard, with that header and that number.                       *)
FromHeard ==
    /\ \A j \in DOMAIN heard : heard[j] \in Readable
    /\ col.received > 0 =>
          /\ heard # <<>>
          /\ col.id = heard[1].id /\ col.total = heard[1].total /\ col.split = heard[1].split
          /\ \A i \in DOMAIN col.parts :
                \E j \in DOMAIN heard :
                    /\ heard[j].number = i /\ col.parts[i] = heard[j].payload
                    /\ Compatible(col, heard[j])

(* Nothing is heard at first.                                               *)
LEMMA FromHeardInit == Init => FromHeard
  BY DEF Init, FromHeard, NoCollection

(* What is read from the socket is readable.                                *)
LEMMA ReadIsReadable ==
    ASSUME StateOK, NEW d \in net, Read(d)
    PROVE  AsRead(d.pkt) \in Readable
  BY DEF StateOK, Read, Readable

(* A fragment that is stored was heard.                                     *)
LEMMA FromHeardStore ==
    ASSUME IInv, FromHeard, NEW d \in net, Store(d)
    PROVE  FromHeard'
<1>1. PICK p : p = AsRead(d.pkt)
  OBVIOUS
<1>2. p \in Packet /\ p \in Readable
  BY <1>1, ReadPacket, ReadIsReadable DEF IInv, Store
<1>3. PICK c : c = Current(p)
  OBVIOUS
<1>4. /\ heard' = Append(heard, p) /\ pc \in {"start", "recv"} /\ col' = Stored(c, p)
      /\ Compatible(c, p) /\ Placeable(c, p)
  BY <1>1, <1>3 DEF Store, Read, Refusal
<1>5. /\ heard' # <<>> /\ DOMAIN heard = 1 .. Len(heard) /\ Len(heard) \in Nat
      /\ DOMAIN heard' = 1 .. Len(heard) + 1 /\ heard'[Len(heard) + 1] = p
      /\ \A i \in DOMAIN heard : heard'[i] = heard[i]
      /\ heard'[1] = IF heard = <<>> THEN p ELSE heard[1]
  BY <1>2, <1>4, HeardGrows DEF IInv
<1>6. /\ col'.id = c.id /\ col'.total = c.total /\ col'.split = c.split
      /\ DOMAIN col'.parts = DOMAIN c.parts \cup {p.number}
      /\ \A i \in DOMAIN col'.parts : col'.parts[i] = IF i = p.number THEN p.payload ELSE c.parts[i]
  BY <1>4 DEF Stored
<1>7. \A j \in DOMAIN heard' : heard'[j] \in Readable
  BY <1>2, <1>5 DEF FromHeard
<1>8. /\ c.id = heard'[1].id /\ c.total = heard'[1].total /\ c.split = heard'[1].split
      /\ \A i \in DOMAIN c.parts :
            \E j \in DOMAIN heard : /\ heard[j].number = i /\ c.parts[i] = heard[j].payload
                                    /\ Compatible(c, heard[j])
  <2>1. CASE pc = "start"
    BY <1>3, <1>5, <2>1 DEF Current, Opened, IInv, StateOK
  <2>2. CASE pc = "recv"
    BY <1>3, <1>5, <2>2 DEF Current, FromHeard, IInv, StateOK
  <2> QED BY <1>4, <2>1, <2>2
<1>9. ASSUME NEW i \in DOMAIN col'.parts
      PROVE  \E j \in DOMAIN heard' : /\ heard'[j].number = i /\ col'.parts[i] = heard'[j].payload
                                      /\ Compatible(col', heard'[j])
  <2>1. \A q : Compatible(c, q) => Compatible(col', q)
    BY <1>6 DEF Compatible
  <2>2. CASE i = p.number
    <3>1. Len(heard) + 1 \in DOMAIN heard'
      BY <1>5
    <3> QED BY <1>4, <1>5, <1>6, <2>1, <2>2, <3>1
  <2>3. CASE i # p.number
    <3>1. PICK j \in DOMAIN heard : /\ heard[j].number = i /\ c.parts[i] = heard[j].payload
                                    /\ Compatible(c, heard[j])
      BY <1>6, <1>8, <2>3
    <3>2. j \in DOMAIN heard' /\ heard'[j] = heard[j]
      BY <1>5
    <3> QED BY <1>6, <2>1, <2>3, <3>1, <3>2
  <2> QED BY <2>2, <2>3
<1> QED BY <1>5, <1>6, <1>7, <1>8, <1>9 DEF FromHeard

(* A fragment that is refused was heard, and nothing else changes.          *)
LEMMA FromHeardRefuse ==
    ASSUME IInv, FromHeard, NEW d \in net, Refuse(d)
    PROVE  FromHeard'
<1>1. PICK p : p = AsRead(d.pkt)
  OBVIOUS
<1>2. p \in Packet /\ p \in Readable /\ heard' = Append(heard, p) /\ col' = col
  BY <1>1, ReadPacket, ReadIsReadable DEF IInv, Refuse, Read
<1>3. /\ heard' # <<>> /\ DOMAIN heard = 1 .. Len(heard) /\ Len(heard) \in Nat
      /\ DOMAIN heard' = 1 .. Len(heard) + 1 /\ heard'[Len(heard) + 1] = p
      /\ \A i \in DOMAIN heard : heard'[i] = heard[i]
      /\ heard'[1] = IF heard = <<>> THEN p ELSE heard[1]
  BY <1>2, HeardGrows DEF IInv
<1>4. \A j \in DOMAIN heard' : heard'[j] \in Readable
  BY <1>2, <1>3 DEF FromHeard
<1>5. \A j \in DOMAIN heard : j \in DOMAIN heard' /\ heard'[j] = heard[j]
  BY <1>3
<1>6. ASSUME NEW i \in DOMAIN col.parts, col.received > 0
      PROVE  \E j \in DOMAIN heard' : /\ heard'[j].number = i /\ col.parts[i] = heard'[j].payload
                                      /\ Compatible(col, heard'[j])
  <2>1. PICK j \in DOMAIN heard : /\ heard[j].number = i /\ col.parts[i] = heard[j].payload
                                  /\ Compatible(col, heard[j])
    BY <1>6 DEF FromHeard
  <2> QED BY <1>5, <2>1
<1> QED BY <1>2, <1>3, <1>4, <1>6 DEF FromHeard

(* Only what was heard is ever stored.                                      *)
LEMMA FromHeardNext == IInv /\ FromHeard /\ [Next]_vars => FromHeard'
<1>1. IInv /\ FromHeard /\ UNCHANGED <<col, heard>> => FromHeard'
  BY DEF FromHeard
<1> QED
  BY <1>1, FromHeardStore, FromHeardRefuse DEF Next, DropForeign, ReceiveFails, Done, vars

(* What a finished collection returns is what such a body unpacks to.       *)
LEMMA ReturnedBody ==
    ASSUME IInv, FromHeard, pc = "done", result.err = "none"
    PROVE  /\ heard[1] \in Readable
           /\ \E b \in Bodies(heard[1]) : result = Unpacked(heard[1].id.zip, b)
<1>1. Ended /\ Slots(col)
  BY DEF IInv, ResultInv
<1>2. PICK p : p = heard[1]
  OBVIOUS
<1>3. /\ heard # <<>> /\ col.id = p.id /\ col.total = p.total /\ col.split = p.split
  BY <1>1, <1>2 DEF FromHeard, Ended
<1>4. p \in Readable
  <2>1. 1 \in DOMAIN heard
    BY <1>3 DEF IInv, StateOK
  <2> QED BY <1>2, <2>1 DEF FromHeard
<1>5. DOMAIN col.parts = 0 .. col.total - 1 /\ col.total \in Nat
  BY <1>1, CompleteFull DEF Ended, NilSlot, Slots
<1>6. PICK f : f = [i \in 1 .. p.total |->
                      CHOOSE q \in Readable : /\ Compatible(Opened(p), q) /\ q.number = i - 1
                                              /\ col.parts[i - 1] = q.payload]
  OBVIOUS
<1>7. ASSUME NEW i \in 1 .. p.total
      PROVE  /\ f[i] \in Readable /\ Compatible(Opened(p), f[i]) /\ f[i].number = i - 1
             /\ col.parts[i - 1] = f[i].payload
  <2>1. i - 1 \in DOMAIN col.parts
    BY <1>3, <1>5
  <2>2. PICK j \in DOMAIN heard : /\ heard[j].number = i - 1 /\ col.parts[i - 1] = heard[j].payload
                                  /\ Compatible(col, heard[j])
    BY <1>1, <2>1 DEF FromHeard, Ended
  <2>3. heard[j] \in Readable /\ Compatible(Opened(p), heard[j])
    BY <1>3, <2>2 DEF FromHeard, Compatible, Opened
  <2>4. \E q \in Readable : /\ Compatible(Opened(p), q) /\ q.number = i - 1
                            /\ col.parts[i - 1] = q.payload
    BY <2>2, <2>3
  <2> QED BY <1>6, <2>4
<1>8. PICK b : b = FlattenSeq([i \in 1 .. p.total |-> f[i].payload])
  OBVIOUS
<1>9. f \in [1 .. p.total -> Readable]
  BY <1>6, <1>7
<1>10. b \in Bodies(p)
  BY <1>7, <1>8, <1>9 DEF Bodies
<1>11. [i \in 1 .. p.total |-> f[i].payload] = [i \in 1 .. col.total |-> col.parts[i - 1]]
  BY <1>3, <1>7
<1>12. Reassembled(col) = b
  BY <1>8, <1>11 DEF Reassembled
<1>13. result = Unpacked(p.id.zip, b)
  BY <1>1, <1>3, <1>12, CompleteOutcome DEF Ended
<1> QED BY <1>2, <1>4, <1>10, <1>13

(* An answer that was compressed is within the limit, whatever the target   *)
(* sends and whatever bzip2 makes of it.                                    *)
LEMMA UnpackedBounded ==
    ASSUME NEW b, Unpacked(TRUE, b).err = "none"
    PROVE  Len(Unpacked(TRUE, b).data) <= MaxPlain
<1>1. PICK stream : stream = SubSeq(b, 3, Len(b))
  OBVIOUS
<1>2. Inflated(stream, b[1]) /\ Unpacked(TRUE, b) = Answer(Inflate(stream).out)
  BY <1>1 DEF Unpacked, Failure
<1>3. PICK out : out = Inflate(stream).out
  OBVIOUS
<1>4. Len(out) <= MaxPlain
  <2>1. PICK n : n = Len(out)
    OBVIOUS
  <2>2. n = b[1] /\ b[1] <= MaxPlain
    BY <1>2, <1>3, <2>1 DEF Inflated
  <2> QED BY <2>1, <2>2
<1>5. Unpacked(TRUE, b).data = out
  <2>1. PICK u : u = Unpacked(TRUE, b)
    OBVIOUS
  <2>2. u = Answer(out)
    BY <1>2, <1>3, <2>1 DEF Inflated
  <2>3. u.data = out
    BY <2>2 DEF Answer
  <2> QED BY <2>1, <2>3
<1> QED BY <1>4, <1>5

Bounded == pc = "done" /\ result.err = "none" /\ heard[1].id.zip => Len(result.data) <= MaxPlain

(* No compressed answer is longer than the limit, whatever fragments arrive *)
(* and whatever bzip2 and the checksum make of them (multipacket.go:81-93,  *)
(* 153-170).                                                                *)
THEOREM NeverBeyondTheLimit == Spec => []Bounded
<1>1. ASSUME IInv, FromHeard PROVE Bounded
  BY <1>1, ReturnedBody, UnpackedBounded DEF Bounded
<1>2. Spec => []FromHeard
  BY Invariance, FromHeardInit, FromHeardNext, PTL DEF Spec
<1> QED BY <1>1, <1>2, Invariance, PTL

(* A compressed answer is a body the target compressed, if the checksum     *)
(* tells those from what fragments put together inflate to (multipacket.go: *)
(* 81-93, 153-170).                                                         *)
THEOREM CompressedStaysIntact == ASSUME ChecksumTells PROVE Spec => []CompressedIntact
<1>1. ASSUME IInv, FromHeard PROVE CompressedIntact
  <2> SUFFICES ASSUME pc = "done", result.err = "none", heard[1].id.zip
               PROVE  /\ Len(result.data) <= MaxPlain
                      /\ \E r \in Responses : r.id.zip /\ result.data = r.plain
    BY DEF CompressedIntact
  <2>1. heard[1] \in Readable
    BY <1>1, ReturnedBody
  <2>2. PICK b \in Bodies(heard[1]) : result = Unpacked(heard[1].id.zip, b)
    BY <1>1, ReturnedBody
  <2>3. heard[1].id.zip = TRUE
    <3>1. 1 \in DOMAIN heard /\ heard \in Seq(Packet)
      BY <1>1 DEF IInv, StateOK
    <3>2. heard[1] \in Packet
      BY <3>1
    <3> QED BY <3>2 DEF Packet
  <2>4. result = Unpacked(TRUE, b)
    BY <2>2, <2>3
  <2>5. Len(result.data) <= MaxPlain
    BY <2>4, UnpackedBounded
  <2> QED BY <2>1, <2>2, <2>4, <2>5 DEF ChecksumTells
<1>2. Spec => []FromHeard
  BY Invariance, FromHeardInit, FromHeardNext, PTL DEF Spec
<1> QED BY <1>1, <1>2, Invariance, PTL
=============================================================================
