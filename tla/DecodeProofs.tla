---------------------------- MODULE DecodeProofs ----------------------------
(* For any packets: the reader never leaves its packet, and Truncated says  *)
(* exactly when the rules are not all there. For packets that a server laid *)
(* out, cut anywhere: the table is the one sent, or the caller is told.     *)
EXTENDS Decode, FiniteSetTheorems, TLAPS

RowsTyped == (\E S : table \in Seq(S)) /\ (\E S : ships \in Seq(S))

(* Where the decoder is in its row: at the first field between two rows and *)
(* before the rows begin.                                                   *)
Placed ==
    /\ stage = "count" => field = 1 /\ table = <<>>
    /\ stage = "rows" /\ Len(table) = count => field = 1
    /\ Kind = "rules" => field \in 1 .. 2
    /\ stage \in {"count", "rows"} => ships = <<>>
    /\ stage = "ship" => Kind = "players" /\ field \in 1 .. 2
    /\ stage = "count" => Kind # "info"

Typed ==
    /\ answer \in Answers /\ packet \in Seq(Byte)
    /\ pos \in 0 .. Len(packet)
    /\ stage \in {"count", "rows", "ship", "done"}
    /\ count \in Nat /\ count <= 65535
    /\ field \in Nat \ {0}
    /\ RowsTyped
    /\ Len(table) <= count /\ Len(ships) <= count
    /\ truncated \in BOOLEAN /\ refused \in BOOLEAN

LastValues ==
    \A i \in DOMAIN table :
        (\A j \in i + 1 .. Len(table) : table[j]["Key"] # table[i]["Key"])
        => items[table[i]["Key"]] = table[i]["Value"]

(* The map has as many keys as rows were read unless one came twice.        *)
Counted ==
    /\ DOMAIN items = Keys(table)
    /\ IsFiniteSet(DOMAIN items)
    /\ Cardinality(DOMAIN items) <= Len(table)
    /\ Cardinality(DOMAIN items) = Len(table) <=> ~Repeats

Honest ==
    Kind = "rules" =>
        /\ Counted /\ LastValues
        /\ stage # "done" => ~truncated
        /\ stage = "done" /\ ~refused => (truncated <=> (Len(table) < count \/ Repeats))

IInv == Typed /\ Placed /\ Honest
-----------------------------------------------------------------------------
(* Appending a row leaves the others.                                       *)
LEMMA AppendRow ==
    ASSUME NEW S, NEW s \in Seq(S), NEW e
    PROVE  /\ Append(s, e) \in Seq(S \cup {e})
           /\ Len(Append(s, e)) = Len(s) + 1
           /\ Append(s, e)[Len(s) + 1] = e
           /\ \A i \in 1 .. Len(s) : Append(s, e)[i] = s[i]
           /\ DOMAIN Append(s, e) = 1 .. Len(s) + 1
           /\ DOMAIN s = 1 .. Len(s) /\ Len(s) \in Nat
<1>1. s \in Seq(S \cup {e}) /\ e \in S \cup {e}
  OBVIOUS
<1> QED BY <1>1

(* The decoder starts at the packet's first byte, with nothing read.        *)
THEOREM InitHolds == Init => IInv
<1> SUFFICES ASSUME Init PROVE IInv
  OBVIOUS
<1>1. PICK n \in 0 .. Len(answer.bytes) : packet = SubSeq(answer.bytes, 1, n)
  BY DEF Init
<1>2. answer \in Answers /\ answer.bytes \in Seq(Byte)
      /\ answer.kind \in {"info", "players", "rules"}
  BY DecodeAssumption DEF Init
<1>3. packet \in Seq(Byte) /\ Len(packet) \in Nat
  BY <1>1, <1>2
<1>4. /\ pos = 0 /\ stage \in {"count", "rows"} /\ count \in {0, 1} /\ field = 1
      /\ table = <<>> /\ ships = <<>> /\ items = <<>>
      /\ truncated = FALSE /\ refused = FALSE
      /\ stage = "count" => Kind # "info" /\ count = 0
  BY DEF Init
<1>5. RowsTyped
  BY <1>4 DEF RowsTyped
<1>a. Len(table) = 0 /\ Len(ships) = 0
  BY <1>4
<1>d. Len(table) <= count /\ Len(ships) <= count
  <2>1. count = 0 \/ count = 1
    BY <1>4
  <2> QED BY <1>a, <2>1
<1>b. pos \in 0 .. Len(packet) /\ count \in Nat /\ count <= 65535 /\ field \in Nat \ {0}
  BY <1>3, <1>4
<1>c. /\ stage \in {"count", "rows", "ship", "done"}
      /\ truncated \in BOOLEAN /\ refused \in BOOLEAN
  BY <1>4
<1>6. Typed
  BY <1>2, <1>3, <1>5, <1>b, <1>c, <1>d DEF Typed
<1>7. Placed
  BY <1>4 DEF Placed
<1>8. DOMAIN items = {} /\ Keys(table) = {} /\ ~Repeats /\ LastValues
  BY <1>4 DEF Keys, Repeats, LastValues
<1>9. Counted
  BY <1>4, <1>8, FS_EmptySet DEF Counted
<1> QED BY <1>4, <1>6, <1>7, <1>8, <1>9 DEF IInv, Honest

(* Where a field ends is within the packet, if it is at hand.               *)
LEMMA EndInside ==
    ASSUME Typed, NEW width, AtHand(width)
    PROVE  EndOf(width) \in 0 .. Len(packet)
<1>1. Len(packet) \in Nat /\ pos \in Nat
  BY DEF Typed
<1>2. CASE width = Text
  <2>1. \E n \in pos + 1 .. Len(packet) : NulAt(n)
    BY <1>2 DEF AtHand
  <2>2. (CHOOSE n \in pos + 1 .. Len(packet) : NulAt(n)) \in pos + 1 .. Len(packet)
    BY <2>1
  <2> QED BY <1>1, <1>2, <2>2 DEF EndOf
<1>3. CASE width # Text
  <2>1. pos + width \in pos .. Len(packet)
    BY <1>3 DEF AtHand, CanRead
  <2> QED BY <1>1, <1>3, <2>1 DEF EndOf
<1> QED BY <1>2, <1>3

(* Appending the pair r to the rows and storing it in the map.              *)
LEMMA StoreCounts ==
    ASSUME NEW S, table \in Seq(S), Counted, LastValues, NEW r,
           table' = Append(table, r), StoreItem(r)
    PROVE  Counted' /\ LastValues'
<1> DEFINE k == r["Key"]
           n == Len(table)
<1>1. /\ Len(table') = n + 1 /\ table'[n + 1] = r /\ DOMAIN table' = 1 .. n + 1
      /\ \A i \in 1 .. n : table'[i] = table[i]
      /\ DOMAIN table = 1 .. n /\ n \in Nat
  BY AppendRow
<1>2. /\ DOMAIN items' = DOMAIN items \cup {k} /\ items'[k] = r["Value"]
      /\ \A x \in DOMAIN items : x # k => items'[x] = items[x]
  BY DEF StoreItem, Put
<1> HIDE DEF k, n
<1>3. Keys(table') = Keys(table) \cup {k}
  <2>1. \A i \in 1 .. n + 1 : i \in 1 .. n \/ i = n + 1
    BY <1>1
  <2>2. 1 .. n \subseteq 1 .. n + 1 /\ n + 1 \in 1 .. n + 1
    BY <1>1
  <2> QED BY <1>1, <2>1, <2>2 DEF Keys, k
<1>4. Repeats' <=> Repeats \/ k \in Keys(table)
  <2>1. ASSUME Repeats PROVE Repeats'
    BY <1>1, <2>1 DEF Repeats
  <2>2. ASSUME k \in Keys(table) PROVE Repeats'
    BY <1>1, <2>2 DEF Repeats, Keys, k
  <2>3. ASSUME Repeats', ~Repeats PROVE k \in Keys(table)
    <3>1. PICK i \in 1 .. n + 1, j \in 1 .. n + 1 : i # j /\ table'[i]["Key"] = table'[j]["Key"]
      BY <1>1, <2>3 DEF Repeats
    <3>2. i = n + 1 \/ j = n + 1
      BY <1>1, <2>3, <3>1 DEF Repeats
    <3> QED BY <1>1, <3>1, <3>2 DEF Keys, k
  <2> QED BY <2>1, <2>2, <2>3
<1> DEFINE D == DOMAIN items
           E == DOMAIN items'
<1>a. IsFiniteSet(D) /\ E = D \cup {k} /\ D = Keys(table)
  BY <1>2 DEF Counted
<1> HIDE DEF D, E
<1>b. /\ IsFiniteSet(D \cup {k})
      /\ Cardinality(D \cup {k}) = IF k \in D THEN Cardinality(D) ELSE Cardinality(D) + 1
  BY <1>a, FS_AddElement
<1>c. Cardinality(D) \in Nat
  BY <1>a, FS_CardinalityType
<1>5. DOMAIN items' = Keys(table') /\ IsFiniteSet(DOMAIN items')
  BY <1>a, <1>b, <1>3 DEF E
<1>6. Cardinality(DOMAIN items) \in Nat
  BY <1>c DEF D
<1>7. /\ k \in DOMAIN items => Cardinality(DOMAIN items') = Cardinality(DOMAIN items)
      /\ k \notin DOMAIN items => Cardinality(DOMAIN items') = Cardinality(DOMAIN items) + 1
  BY <1>a, <1>b DEF D, E
<1>8. Cardinality(DOMAIN items') <= Len(table')
  BY <1>1, <1>6, <1>7 DEF Counted, n
<1>9. Cardinality(DOMAIN items') = Len(table') <=> ~Repeats'
  <2>1. CASE k \in DOMAIN items
    BY <1>1, <1>4, <1>6, <1>7, <2>1 DEF Counted, n
  <2>2. CASE k \notin DOMAIN items
    BY <1>1, <1>4, <1>6, <1>7, <2>2 DEF Counted, n
  <2> QED BY <2>1, <2>2
<1>10. LastValues'
  <2> SUFFICES ASSUME NEW i \in DOMAIN table',
                      \A j \in i + 1 .. Len(table') : table'[j]["Key"] # table'[i]["Key"]
               PROVE  items'[table'[i]["Key"]] = table'[i]["Value"]
    BY DEF LastValues
  <2>1. CASE i = n + 1
    BY <1>1, <1>2, <2>1 DEF k
  <2>2. CASE i \in 1 .. n
    <3>1. n + 1 \in i + 1 .. Len(table')
      BY <1>1, <2>2
    <3>2. table[i]["Key"] # k
      BY <1>1, <2>2, <3>1 DEF k
    <3>3. \A j \in i + 1 .. n : table[j]["Key"] # table[i]["Key"]
      BY <1>1, <2>2
    <3>4. table[i]["Key"] \in DOMAIN items
      BY <1>1, <2>2 DEF Counted, Keys
    <3>5. items[table[i]["Key"]] = table[i]["Value"]
      BY <1>1, <2>2, <3>3 DEF LastValues, n
    <3> QED BY <1>1, <1>2, <2>2, <3>2, <3>4, <3>5
  <2> QED BY <1>1, <2>1, <2>2
<1> QED BY <1>5, <1>8, <1>9, <1>10 DEF Counted

-----------------------------------------------------------------------------
(* The bytes of a count are not more than two.                              *)
LEMMA CountBounded ==
    ASSUME Typed, NEW n \in Nat, n \in {1, 2}, CanRead(n)
    PROVE  /\ Number(SubSeq(packet, pos + 1, pos + n)) \in Nat
           /\ Number(SubSeq(packet, pos + 1, pos + n)) <= 65535
           /\ pos + n \in 0 .. Len(packet)
<1>1. packet \in Seq(Byte) /\ pos \in Nat /\ Len(packet) \in Nat /\ pos + n <= Len(packet)
  BY DEF Typed, CanRead
<1> DEFINE b == SubSeq(packet, pos + 1, pos + n)
<1>2. b \in Seq(Byte) /\ Len(b) = n
  BY <1>1
<1> HIDE DEF b
<1>3. Number(b) \in Nat /\ Number(b) <= 65535
  <2>1. \A i \in 1 .. n : b[i] \in Nat /\ b[i] <= 255
    <3> SUFFICES ASSUME NEW i \in 1 .. n PROVE b[i] \in Nat /\ b[i] <= 255
      OBVIOUS
    <3>1. b[i] \in Byte
      BY <1>2
    <3> QED BY <3>1 DEF Byte
  <2>2. CASE n = 1
    <3>1. 1 \in 1 .. n
      BY <2>2
    <3>2. Number(b) = b[1]
      BY <1>2, <2>2 DEF Number
    <3> QED BY <2>1, <3>1, <3>2
  <2>3. CASE n = 2
    <3>1. 1 \in 1 .. n /\ 2 \in 1 .. n
      BY <2>3
    <3>2. Number(b) = b[1] + 256 * b[2]
      BY <1>2, <2>3 DEF Number
    <3> QED BY <2>1, <3>1, <3>2
  <2> QED BY <2>2, <2>3
<1> QED BY <1>1, <1>3 DEF b

(* Reading the count begins the first row.                                  *)
LEMMA ReadCountHolds == IInv /\ ReadCount => IInv'
<1> SUFFICES ASSUME IInv, ReadCount PROVE IInv'
  OBVIOUS
<1> DEFINE w == CountWidth(Kind)
<1>1. w \in {1, 2} /\ w \in Nat
  <2>1. Kind \in {"players", "rules"}
    BY DecodeAssumption DEF IInv, Typed, Placed, ReadCount, Kind
  <2> QED BY <2>1 DEF CountWidth
<1>2. /\ stage = "count" /\ CanRead(w) /\ stage' = "rows" /\ pos' = pos + w
      /\ count' = Number(SubSeq(packet, pos + 1, pos + w))
      /\ UNCHANGED <<answer, packet, field, got, table, ships, items, truncated, refused>>
  BY DEF ReadCount
<1> HIDE DEF w
<1>3. count' \in Nat /\ count' <= 65535 /\ pos' \in 0 .. Len(packet')
  BY <1>1, <1>2, CountBounded DEF IInv
<1>4. Len(table) = 0 /\ Len(ships) = 0 /\ field = 1
  BY <1>2 DEF IInv, Placed
<1>5. Typed'
  BY <1>2, <1>3, <1>4 DEF IInv, Typed, RowsTyped
<1>6. Placed'
  BY <1>2 DEF IInv, Placed, Kind
<1>7. Honest'
  BY <1>2 DEF IInv, Honest, Kind, Counted, LastValues, Repeats, Keys
<1> QED BY <1>5, <1>6, <1>7 DEF IInv

(* The decoder returns with what it has read.                               *)
LEMMA EndHolds ==
    ASSUME IInv, stage' = "done",
           UNCHANGED <<answer, packet, pos, count, field, got, table, ships, items>>,
           truncated' \in BOOLEAN, refused' \in BOOLEAN,
           Kind = "rules" /\ ~refused' => (truncated' <=> (Len(table) < count \/ Repeats))
    PROVE  IInv'
<1>1. Typed'
  BY DEF IInv, Typed, RowsTyped
<1>2. Placed'
  BY DEF IInv, Placed, Kind
<1>3. Honest'
  BY DEF IInv, Honest, Kind, Counted, LastValues, Repeats, Keys
<1> QED BY <1>1, <1>2, <1>3 DEF IInv

(* An error returns nothing.                                                *)
LEMMA RefuseHolds == IInv /\ (CountFails \/ FieldFails) => IInv'
<1> SUFFICES ASSUME IInv, Refuse PROVE IInv'
  BY DEF CountFails, FieldFails
<1> QED BY EndHolds DEF Refuse, IInv, Typed

(* Rules that break off are fewer than announced.                           *)
LEMMA BreakOffHolds == IInv /\ RulesBreakOff => IInv'
<1> SUFFICES ASSUME IInv, RulesBreakOff PROVE IInv'
  OBVIOUS
<1>1. Kind = "rules" => Len(table) < count
  BY DEF RulesBreakOff, InRow, IInv, Placed
<1> QED BY <1>1, EndHolds DEF RulesBreakOff, IInv, Typed

(* When all rows are read, Truncated is set if some key came twice.         *)
LEMMA RowsReadHolds == IInv /\ RowsRead => IInv'
<1> SUFFICES ASSUME IInv, RowsRead PROVE IInv'
  OBVIOUS
<1>0. /\ stage = "rows" /\ Len(table) = count /\ field = 1 /\ truncated' = Short
      /\ stage' = IF ShipFollows THEN "ship" ELSE "done"
      /\ UNCHANGED <<answer, packet, pos, count, field, got, table, ships, items, refused>>
  BY DEF RowsRead, IInv, Placed
<1>1. Short \in BOOLEAN
  BY DEF Short
<1>2. Kind = "rules" => (Short <=> (Len(table) < count \/ Repeats))
  <2> SUFFICES ASSUME Kind = "rules" PROVE Short <=> (Len(table) < count \/ Repeats)
    OBVIOUS
  <2>1. Counted
    BY DEF IInv, Honest
  <2>2. Cardinality(DOMAIN items) \in Nat /\ Len(table) \in Nat
    BY <1>0, <2>1, FS_CardinalityType DEF Counted, IInv, Typed
  <2> QED BY <1>0, <2>1, <2>2 DEF Short, Counted
<1>3. CASE ~ShipFollows
  BY <1>0, <1>1, <1>2, <1>3, EndHolds DEF IInv, Typed
<1>4. CASE ShipFollows
  <2>1. stage' = "ship" /\ Kind = "players"
    BY <1>0, <1>4 DEF ShipFollows
  <2>2. Typed'
    BY <1>0, <1>1, <2>1 DEF IInv, Typed, RowsTyped
  <2>3. Placed'
    BY <1>0, <2>1 DEF IInv, Placed, Kind
  <2>4. Honest'
    BY <1>0, <2>1 DEF Honest, Kind
  <2> QED BY <2>2, <2>3, <2>4 DEF IInv
<1> QED BY <1>3, <1>4

(* One field is read, or is not there.                                      *)
LEMMA AdvanceHolds ==
    ASSUME IInv, InRow, NEW r, Advance(r), pos' \in 0 .. Len(packet),
           UNCHANGED <<answer, packet, stage, count, truncated, refused>>
    PROVE  IInv'
<1> DEFINE L == Len(Layout)
<1>1. Kind = "rules" => stage = "rows" /\ L = 2 /\ field \in 1 .. 2
  BY DEF IInv, Placed, InRow, Layout, RowLayout, RuleLayout
<1>a. stage = "ship" => Kind = "players" /\ L = 2 /\ field \in 1 .. 2
  BY DEF IInv, Placed, Layout, ShipLayout
<1>2. CASE field < L
  <2>1. field' = field + 1 /\ UNCHANGED <<table, ships, items>>
    BY <1>2 DEF Advance
  <2>2. Typed'
    BY <2>1 DEF IInv, Typed, RowsTyped
  <2>3. Placed'
    <3>1. stage # "count" /\ (stage = "rows" => Len(table) < count)
      BY DEF InRow
    <3>2. Kind = "rules" \/ stage = "ship" => field' \in 1 .. 2
      <4>1. Kind = "rules" \/ stage = "ship" => L = 2 /\ field \in 1 .. 2
        BY <1>1, <1>a
      <4> HIDE DEF L
      <4> QED BY <1>2, <2>1, <4>1
    <3>3. Len(table) # count \/ stage # "rows"
      BY <3>1 DEF IInv, Typed
    <3> QED BY <2>1, <3>1, <3>2, <3>3 DEF IInv, Placed, Kind
  <2>4. Honest'
    BY <2>1 DEF IInv, Honest, Kind, Counted, LastValues, Repeats, Keys
  <2> QED BY <2>2, <2>3, <2>4 DEF IInv
<1>3. CASE ~(field < L)
  <2>1. /\ field' = 1
        /\ IF stage = "ship" THEN ships' = Append(ships, r) /\ UNCHANGED table
                              ELSE table' = Append(table, r) /\ UNCHANGED ships
        /\ IF Kind = "rules" THEN StoreItem(r) ELSE UNCHANGED items
    BY <1>3 DEF Advance
  <2>2. PICK S : table \in Seq(S)
    BY DEF IInv, Typed, RowsTyped
  <2>3. PICK T : ships \in Seq(T)
    BY DEF IInv, Typed, RowsTyped
  <2>4. /\ Append(table, r) \in Seq(S \cup {r}) /\ Len(Append(table, r)) = Len(table) + 1
        /\ Append(ships, r) \in Seq(T \cup {r}) /\ Len(Append(ships, r)) = Len(ships) + 1
        /\ Len(table) \in Nat /\ Len(ships) \in Nat
    BY <2>2, <2>3, AppendRow
  <2>5. RowsTyped'
    BY <2>1, <2>2, <2>3, <2>4 DEF RowsTyped
  <2>6. Len(table') <= count' /\ Len(ships') <= count'
    BY <2>1, <2>4 DEF InRow, IInv, Typed
  <2>7. Typed'
    BY <2>1, <2>5, <2>6 DEF IInv, Typed
  <2>8. Placed'
    BY <2>1 DEF IInv, Placed, Kind, InRow
  <2>9. Honest'
    <3>1. CASE Kind # "rules"
      BY <3>1 DEF Honest, Kind
    <3>2. CASE Kind = "rules"
      <4>1. table' = Append(table, r) /\ StoreItem(r)
        BY <1>1, <2>1, <3>2
      <4>2. Counted' /\ LastValues'
        BY <2>2, <3>2, <4>1, StoreCounts DEF IInv, Honest
      <4>3. stage' # "done" /\ ~truncated'
        BY <1>1, <3>2 DEF IInv, Honest
      <4> QED BY <4>2, <4>3 DEF Honest
    <3> QED BY <3>1, <3>2
  <2> QED BY <2>7, <2>8, <2>9 DEF IInv
<1> QED BY <1>2, <1>3

(* An A2S_INFO answer that ends before its flag is one row.                 *)
LEMMA InfoEndsHolds == IInv /\ InfoEnds => IInv'
<1> SUFFICES ASSUME IInv, InfoEnds PROVE IInv'
  OBVIOUS
<1>1. /\ InRow /\ NoExtraData /\ table' = Append(table, got) /\ stage' = "done"
      /\ UNCHANGED <<answer, packet, pos, count, field, got, ships, items, truncated, refused>>
  BY DEF InfoEnds
<1>2. stage # "ship"
  <2> SUFFICES ASSUME stage = "ship" PROVE FALSE
    OBVIOUS
  <2>1. Layout = ShipLayout
    BY DEF Layout
  <2>2. field \in {1, 2}
    BY DEF IInv, Placed
  <2> QED BY <1>1, <2>1, <2>2 DEF NoExtraData, Current, ShipLayout, Base
<1>3. Kind # "rules"
  <2> SUFFICES ASSUME Kind = "rules" PROVE FALSE
    OBVIOUS
  <2>1. Layout = RuleLayout /\ field \in 1 .. 2
    BY <1>2 DEF Layout, RowLayout, IInv, Placed
  <2> QED BY <1>1, <2>1 DEF NoExtraData, Current, RuleLayout, Base
<1>4. PICK S : table \in Seq(S)
  BY DEF IInv, Typed, RowsTyped
<1>5. table' \in Seq(S \cup {got}) /\ Len(table') = Len(table) + 1 /\ Len(table) \in Nat
  BY <1>1, <1>4, AppendRow
<1>6. Typed'
  BY <1>1, <1>2, <1>5 DEF IInv, Typed, RowsTyped, InRow
<1>7. Placed' /\ Honest'
  BY <1>1, <1>3 DEF IInv, Placed, Honest, Kind
<1> QED BY <1>6, <1>7 DEF IInv

(* Every step of the decoder preserves the invariant.                       *)
THEOREM NextHolds == IInv /\ [Next]_vars => IInv'
<1> SUFFICES ASSUME IInv, [Next]_vars PROVE IInv'
  OBVIOUS
<1>1. CASE UNCHANGED vars \/ Returned
  <2>1. UNCHANGED <<answer, packet, pos, stage, count, field, got, table, ships, items,
                    truncated, refused>>
    BY <1>1 DEF Returned, vars
  <2>2. Typed'
    BY <2>1 DEF IInv, Typed, RowsTyped
  <2>3. Placed'
    BY <2>1 DEF IInv, Placed, Kind
  <2>4. Honest'
    BY <2>1 DEF IInv, Honest, Kind, Counted, LastValues, Repeats, Keys
  <2> QED BY <2>2, <2>3, <2>4 DEF IInv
<1>2. CASE ReadField
  <2>1. pos' \in 0 .. Len(packet)
    BY <1>2, EndInside DEF ReadField, IInv
  <2> QED BY <1>2, <2>1, AdvanceHolds DEF ReadField
<1>3. CASE SkipField
  BY <1>3, AdvanceHolds DEF SkipField, IInv, Typed
<1>4. CASE ShipsRead
  <2>1. Kind # "rules"
    BY <1>4 DEF ShipsRead, IInv, Placed
  <2> QED BY <1>4, <2>1, EndHolds DEF ShipsRead, IInv, Typed
<1> QED
  BY <1>1, <1>2, <1>3, <1>4, ReadCountHolds, RefuseHolds, BreakOffHolds, RowsReadHolds,
     InfoEndsHolds DEF Next

(* The invariant holds in every reachable state.                            *)
THEOREM SpecHolds == Spec => []IInv
<1> QED BY InitHolds, NextHolds, PTL DEF Spec

(* The reader stays inside any packet and reads no more rows than announced *)
(* (packet.go:48-115, decode.go:143-223).                                   *)
THEOREM ReaderStaysInside == Spec => []TypeOK
<1>1. IInv => TypeOK
  BY DEF IInv, Typed, TypeOK
<1> QED BY <1>1, SpecHolds, PTL

(* Items and Truncated are right for any bytes behind the header of an      *)
(* A2S_RULES answer (decode.go:188-223).                                    *)
THEOREM TruncatedIsHonest == Spec => []RulesHonest
<1>1. IInv => RulesHonest
  BY DEF IInv, Honest, Counted, LastValues, RulesHonest, Decoded
<1> QED BY <1>1, SpecHolds, PTL
-----------------------------------------------------------------------------
(* Answers that a server put together. In every layout a name occurs once,  *)
(* and what a part depends on comes before it.                              *)
GoodLayout(layout) ==
    /\ Len(layout) \in Nat \ {0} /\ DOMAIN layout = 1 .. Len(layout)
    /\ \A j, k \in 1 .. Len(layout) : layout[j].name = layout[k].name => j = k
    /\ \A k \in 1 .. Len(layout) :
          /\ layout[k].width \in Nat
          /\ layout[k].part \in {"base", "ship", "edf"}
          /\ layout[k].part = "ship" =>
                \E j \in 1 .. k - 1 : layout[j].name = "AppID" /\ layout[j].part = "base"
          /\ layout[k].part = "edf" =>
                layout[k].name # "EDF" /\ \E j \in 1 .. k - 1 : layout[j].name = "EDF"

Plain(layout) ==
    \A k \in 1 .. Len(layout) : layout[k].part = "base" /\ layout[k].name # "EDF"

(* The place of a name in A2S_INFO.                                         *)
Rank == [Protocol |-> 1, Name |-> 2, Map |-> 3, Folder |-> 4, Game |-> 5, AppID |-> 6,
         Players |-> 7, MaxPlayers |-> 8, Bots |-> 9, ServerType |-> 10, Environment |-> 11,
         Visibility |-> 12, VAC |-> 13, Mode |-> 14, Witnesses |-> 15, Duration |-> 16,
         Version |-> 17, EDF |-> 18, Port |-> 19, SteamID |-> 20, TVPort |-> 21,
         TVName |-> 22, Keywords |-> 23, GameID |-> 24]

(* The fields of A2S_INFO, its head and its extra data.                     *)
LEMMA InfoFields ==
    /\ Len(InfoLayout) = 24 /\ DOMAIN InfoLayout = 1 .. 24
    /\ \A k \in 1 .. 18 : InfoLayout[k] = InfoHead[k]
    /\ \A k \in 1 .. 6 : InfoLayout[18 + k] = InfoTail[k]
<1>1. Len(InfoHead) = 18 /\ InfoHead = [i \in 1 .. 18 |-> InfoHead[i]]
  BY DEF InfoHead
<1>2. Len(InfoTail) = 6 /\ InfoTail = [i \in 1 .. 6 |-> InfoTail[i]]
  BY DEF InfoTail
<1> DEFINE S == {InfoHead[i] : i \in 1 .. 18} \cup {InfoTail[i] : i \in 1 .. 6}
<1>3. InfoHead \in Seq(S) /\ InfoTail \in Seq(S)
  BY <1>1, <1>2
<1> HIDE DEF S
<1>4. ASSUME NEW T, NEW s \in Seq(T), NEW t \in Seq(T)
      PROVE  /\ Len(s \o t) = Len(s) + Len(t) /\ DOMAIN (s \o t) = 1 .. Len(s) + Len(t)
             /\ \A i \in 1 .. Len(s) : (s \o t)[i] = s[i]
             /\ \A i \in 1 .. Len(t) : (s \o t)[Len(s) + i] = t[i]
  OBVIOUS
<1>5. /\ Len(InfoLayout) = 18 + 6 /\ DOMAIN InfoLayout = 1 .. 18 + 6
      /\ \A i \in 1 .. 18 : InfoLayout[i] = InfoHead[i]
      /\ \A i \in 1 .. 6 : InfoLayout[18 + i] = InfoTail[i]
  BY <1>1, <1>2, <1>3, <1>4 DEF InfoLayout
<1> QED BY <1>5

(* A2S_INFO has its flag behind the head, and the extra data behind it.     *)
LEMMA InfoGood ==
    /\ GoodLayout(InfoLayout) /\ Len(InfoLayout) = 24
    /\ InfoLayout[18].name = "EDF" /\ InfoLayout[18].part = "base" /\ InfoLayout[18].width = 1
    /\ \A k \in 1 .. 24 : (InfoLayout[k].name = "EDF" => k = 18) /\ (InfoLayout[k].part = "edf" <=> k > 18)
    /\ HeadNames = {InfoLayout[k].name : k \in 1 .. 17}
<1>1. \A k \in 1 .. 18 : Rank[InfoHead[k].name] = k
  BY DEF InfoHead, Rank, Base, OfShip
<1>2. \A k \in 1 .. 18 : /\ InfoHead[k].width \in Nat
                         /\ InfoHead[k].part \in {"base", "ship"}
                         /\ InfoHead[k].part = "ship" => k > 6
  BY DEF InfoHead, Base, OfShip, Text
<1>3. InfoHead[6] = Base("AppID", 2) /\ InfoHead[18] = Base("EDF", 1)
  BY DEF InfoHead
<1>4. \A k \in 1 .. 6 : /\ InfoTail[k].width \in Nat /\ InfoTail[k].part = "edf"
                        /\ Rank[InfoTail[k].name] = 18 + k
  BY DEF InfoTail, Extra, Text, Rank
<1>5. \A k \in 19 .. 24 : /\ InfoLayout[k].width \in Nat /\ InfoLayout[k].part = "edf"
                          /\ Rank[InfoLayout[k].name] = k
  <2> SUFFICES ASSUME NEW k \in 19 .. 24
               PROVE  /\ InfoLayout[k].width \in Nat /\ InfoLayout[k].part = "edf"
                      /\ Rank[InfoLayout[k].name] = k
    OBVIOUS
  <2>1. PICK i \in 1 .. 6 : k = 18 + i
    <3>1. k - 18 \in 1 .. 6 /\ k = 18 + (k - 18)
      OBVIOUS
    <3> QED BY <3>1
  <2> QED BY <1>4, <2>1, InfoFields
<1>6. \A k \in 1 .. 24 : Rank[InfoLayout[k].name] = k
  BY <1>1, <1>5, InfoFields
<1>7. \A k \in 1 .. 18 : /\ InfoLayout[k].width \in Nat
                         /\ InfoLayout[k].part \in {"base", "ship"}
                         /\ InfoLayout[k].part = "ship" => k > 6
  BY <1>2, InfoFields
<1>8. /\ InfoLayout[6].name = "AppID" /\ InfoLayout[6].part = "base"
      /\ InfoLayout[18].name = "EDF" /\ InfoLayout[18].part = "base" /\ InfoLayout[18].width = 1
  BY <1>3, InfoFields DEF Base
<1>9. \A j, k \in 1 .. 24 : InfoLayout[j].name = InfoLayout[k].name => j = k
  BY <1>6
<1>10. \A k \in 1 .. 24 : (InfoLayout[k].name = "EDF" => k = 18) /\ (InfoLayout[k].part = "edf" <=> k > 18)
  BY <1>5, <1>7, <1>8, <1>9
<1>11. GoodLayout(InfoLayout)
  <2>1. \A k \in 1 .. 24 :
          /\ InfoLayout[k].width \in Nat
          /\ InfoLayout[k].part \in {"base", "ship", "edf"}
          /\ InfoLayout[k].part = "ship" => 6 \in 1 .. k - 1
          /\ InfoLayout[k].part = "edf" => InfoLayout[k].name # "EDF" /\ 18 \in 1 .. k - 1
    BY <1>5, <1>7, <1>10
  <2>2. ASSUME NEW k \in 1 .. 24
        PROVE  /\ InfoLayout[k].part = "ship" =>
                     \E j \in 1 .. k - 1 : InfoLayout[j].name = "AppID" /\ InfoLayout[j].part = "base"
               /\ InfoLayout[k].part = "edf" =>
                     InfoLayout[k].name # "EDF" /\ \E j \in 1 .. k - 1 : InfoLayout[j].name = "EDF"
    <3>1. ASSUME InfoLayout[k].part = "ship"
          PROVE  \E j \in 1 .. k - 1 : InfoLayout[j].name = "AppID" /\ InfoLayout[j].part = "base"
      <4>1. 6 \in 1 .. k - 1
        BY <2>1, <3>1
      <4> QED BY <1>8, <4>1
    <3>2. ASSUME InfoLayout[k].part = "edf"
          PROVE  InfoLayout[k].name # "EDF" /\ \E j \in 1 .. k - 1 : InfoLayout[j].name = "EDF"
      <4>1. 18 \in 1 .. k - 1 /\ InfoLayout[k].name # "EDF"
        BY <2>1, <3>2
      <4> QED BY <1>8, <4>1
    <3> QED BY <3>1, <3>2
  <2>3. Len(InfoLayout) = 24 /\ DOMAIN InfoLayout = 1 .. 24 /\ 24 \in Nat \ {0}
    BY InfoFields
  <2> QED BY <1>9, <2>1, <2>2, <2>3 DEF GoodLayout
<1>12. HeadNames = {InfoLayout[k].name : k \in 1 .. 17}
  <2>1. DOMAIN InfoHead = 1 .. 18
    BY DEF InfoHead
  <2>2. {InfoHead[i].name : i \in 1 .. 18} \ {"EDF"} = {InfoLayout[k].name : k \in 1 .. 17}
    <3>1. \A k \in 1 .. 18 : InfoHead[k] = InfoLayout[k] /\ (InfoHead[k].name # "EDF" <=> k \in 1 .. 17)
      BY <1>8, <1>10, InfoFields
    <3>2. \A k \in 1 .. 17 : k \in 1 .. 18
      OBVIOUS
    <3> QED BY <3>1, <3>2
  <2> QED BY <2>1, <2>2 DEF HeadNames
<1> QED BY <1>8, <1>10, <1>11, <1>12, InfoFields

(* The other layouts have no parts that depend on a field.                  *)
LEMMA OthersGood ==
    /\ GoodLayout(PlayerLayout) /\ Plain(PlayerLayout)
    /\ GoodLayout(RuleLayout) /\ Plain(RuleLayout) /\ RuleLayout[1].width = Text
    /\ GoodLayout(ShipLayout) /\ Plain(ShipLayout) /\ Len(ShipLayout) = 2
<1>1. GoodLayout(PlayerLayout) /\ Plain(PlayerLayout)
  BY DEF GoodLayout, Plain, PlayerLayout, Base, Text
<1>2. GoodLayout(RuleLayout) /\ Plain(RuleLayout) /\ RuleLayout[1].width = Text
  BY DEF GoodLayout, Plain, RuleLayout, Base, Text
<1>3. GoodLayout(ShipLayout) /\ Plain(ShipLayout) /\ Len(ShipLayout) = 2
  BY DEF GoodLayout, Plain, ShipLayout, Base, Text
<1> QED BY <1>1, <1>2, <1>3
-----------------------------------------------------------------------------
(* The reader is at a field of a row, with what is in front of it read.     *)
Before(layout, k) == {layout[j].name : j \in 1 .. k - 1}

At(row, layout, bytes, start, k, p, g) ==
    /\ GoodLayout(layout) /\ Lies(row, layout, bytes, start)
    /\ start \in [1 .. Len(layout) + 1 -> 0 .. Len(bytes)]
    /\ k \in 1 .. Len(layout) /\ p = start[k]
    /\ g = Only(row, Before(layout, k))

(* The packet is a beginning of what was sent.                              *)
Arrived(bytes) ==
    /\ bytes \in Seq(Byte) /\ packet \in Seq(Byte) /\ Len(packet) <= Len(bytes)
    /\ packet = SubSeq(bytes, 1, Len(packet))

(* Whether a field is there can be told from what is in front of it.        *)
LEMMA WantedIsSent ==
    ASSUME NEW row, NEW layout, NEW bytes, NEW start, At(row, layout, bytes, start, field, pos, got),
           layout[field].name # "EDF", layout[field].part = "edf" => "EDF" \in DOMAIN row
    PROVE  Wanted(layout[field]) <=> layout[field].name \in DOMAIN row
<1> DEFINE f == layout[field]
<1>1. /\ field \in 1 .. Len(layout) /\ Len(layout) \in Nat /\ DOMAIN layout = 1 .. Len(layout)
      /\ got = Only(row, Before(layout, field))
  BY DEF At, GoodLayout
<1>2. f.name \in DOMAIN row <=> Announced(f, row)
  BY <1>1 DEF At, Lies, Sent
<1>3. f.part \in {"base", "ship", "edf"}
  BY <1>1 DEF At, GoodLayout
<1>4. ASSUME NEW j \in 1 .. field - 1, layout[j].name \in DOMAIN row
      PROVE  got[layout[j].name] = row[layout[j].name]
  BY <1>1, <1>4 DEF Only, Before
<1>5. CASE f.part = "base"
  BY <1>2, <1>5 DEF Wanted, Announced
<1>6. CASE f.part = "ship"
  <2>1. PICK j \in 1 .. field - 1 : layout[j].name = "AppID" /\ layout[j].part = "base"
    BY <1>1, <1>6 DEF At, GoodLayout
  <2>2. j \in DOMAIN layout
    BY <1>1
  <2>3. layout[j].name \in DOMAIN row
    BY <2>1, <2>2 DEF At, Lies, Sent, Announced
  <2>4. got["AppID"] = row["AppID"]
    BY <1>4, <2>1, <2>3
  <2> QED BY <1>2, <1>6, <2>4 DEF Wanted, Announced
<1>7. CASE f.part = "edf"
  <2>1. PICK j \in 1 .. field - 1 : layout[j].name = "EDF"
    BY <1>1, <1>7 DEF At, GoodLayout
  <2>2. got["EDF"] = row["EDF"]
    BY <1>4, <1>7, <2>1
  <2> QED BY <1>2, <1>7, <2>2 DEF Wanted, Announced
<1> QED BY <1>3, <1>5, <1>6, <1>7

(* A field that was sent is at hand if it arrived whole, and is then read   *)
(* to its end and as it was sent.                                           *)
LEMMA ReadAsSent ==
    ASSUME NEW row, NEW layout, NEW bytes, NEW start, At(row, layout, bytes, start, field, pos, got),
           Arrived(bytes), layout[field].name \in DOMAIN row
    PROVE  /\ AtHand(layout[field].width) <=> start[field + 1] <= Len(packet)
           /\ AtHand(layout[field].width) => /\ EndOf(layout[field].width) = start[field + 1]
                                             /\ Value(layout[field]) = row[layout[field].name]
<1> DEFINE f == layout[field]
           w == layout[field].width
           e == start[field + 1]
           b == SubSeq(bytes, pos + 1, e)
<1>1. /\ field \in 1 .. Len(layout) /\ Len(layout) \in Nat /\ DOMAIN layout = 1 .. Len(layout)
      /\ start \in [1 .. Len(layout) + 1 -> 0 .. Len(bytes)] /\ pos = start[field]
  BY DEF At, GoodLayout
<1>2. bytes \in Seq(Byte) /\ packet \in Seq(Byte) /\ Len(packet) \in Nat /\ Len(bytes) \in Nat
      /\ Len(packet) <= Len(bytes) /\ packet = SubSeq(bytes, 1, Len(packet))
  BY DEF Arrived
<1>3. field + 1 \in 1 .. Len(layout) + 1 /\ field \in 1 .. Len(layout) + 1
  BY <1>1
<1>4. pos \in Nat /\ e \in Nat /\ pos <= Len(bytes) /\ e <= Len(bytes) /\ w \in Nat
  <2>1. pos \in 0 .. Len(bytes) /\ e \in 0 .. Len(bytes)
    BY <1>1, <1>3
  <2>2. w \in Nat
    BY <1>1 DEF At, GoodLayout
  <2> QED BY <1>2, <2>1, <2>2
<1>5. Fits(w, b) /\ row[f.name] = Meaning(f, b)
  <2>1. \A k \in DOMAIN layout : layout[k].name \in DOMAIN row =>
           /\ Fits(layout[k].width, SubSeq(bytes, start[k] + 1, start[k + 1]))
           /\ row[layout[k].name] = Meaning(layout[k], SubSeq(bytes, start[k] + 1, start[k + 1]))
    BY DEF At, Lies
  <2> QED BY <1>1, <2>1
<1>6. Value(f) = Meaning(f, SubSeq(packet, pos + 1, EndOf(w)))
  BY DEF Value
<1>7. \A k \in 1 .. Len(packet) : packet[k] = bytes[k]
  BY <1>2
<1> HIDE DEF f, w, e
<1>8. e >= pos => Len(b) = e - pos /\ DOMAIN b = 1 .. e - pos /\ \A k \in 1 .. e - pos : b[k] = bytes[pos + k]
  BY <1>2, <1>4
<1>9. e < pos => Len(b) = 0 /\ b = <<>>
  BY <1>2, <1>4
<1>10. e <= Len(packet) => SubSeq(packet, pos + 1, e) = b
  BY <1>2, <1>4, <1>7
<1> HIDE DEF b
<1>11. CASE w # Text
  <2>1. Len(b) = w
    BY <1>5, <1>11 DEF Fits
  <2>2. w > 0 /\ e = pos + w
    BY <1>4, <1>8, <1>9, <1>11, <2>1 DEF Text
  <2>3. AtHand(w) <=> e <= Len(packet)
    BY <1>2, <1>4, <1>11, <2>2 DEF AtHand, CanRead
  <2>4. EndOf(w) = e
    BY <1>11, <2>2 DEF EndOf
  <2> QED BY <1>5, <1>6, <1>10, <2>3, <2>4 DEF f, w, e
<1>12. CASE w = Text
  <2>1. b # <<>> /\ \A j \in DOMAIN b : b[j] = 0 <=> j = Len(b)
    BY <1>5, <1>12 DEF Fits
  <2>2. e >= pos
    BY <1>4, <1>9, <2>1
  <2>3. e > pos
    <3>1. e = pos => b = <<>>
      BY <1>2, <1>4 DEF b
    <3> QED BY <1>4, <2>1, <2>2, <3>1
  <2>4. \A j \in 1 .. e - pos : bytes[pos + j] = 0 <=> j = e - pos
    BY <1>8, <2>1, <2>2
  <2>5. \A n \in pos + 1 .. e : bytes[n] = 0 <=> n = e
    <3> SUFFICES ASSUME NEW n \in pos + 1 .. e PROVE bytes[n] = 0 <=> n = e
      OBVIOUS
    <3>1. PICK j : j = n - pos
      OBVIOUS
    <3>2. j \in 1 .. e - pos /\ pos + j = n /\ (j = e - pos <=> n = e)
      BY <1>4, <3>1
    <3> QED BY <2>4, <3>2
  <2>6. ASSUME NEW n \in pos + 1 .. Len(packet), NulAt(n) PROVE n = e
    <3>1. n >= e => n = e
      <4> SUFFICES ASSUME n > e PROVE FALSE
        BY <1>2, <1>4
      <4>1. e \in pos + 1 .. n - 1 /\ e \in 1 .. Len(packet)
        BY <1>2, <1>4, <2>3
      <4>2. packet[e] # 0
        BY <2>6, <4>1 DEF NulAt
      <4> QED BY <1>4, <1>7, <2>3, <2>5, <4>1, <4>2
    <3>2. n < e => FALSE
      <4> SUFFICES ASSUME n < e PROVE FALSE
        OBVIOUS
      <4>1. n \in pos + 1 .. e /\ n \in 1 .. Len(packet)
        BY <1>2, <1>4
      <4> QED BY <1>7, <2>5, <2>6, <4>1 DEF NulAt
    <3> QED BY <1>2, <1>4, <3>1, <3>2
  <2>7. ASSUME e <= Len(packet) PROVE e \in pos + 1 .. Len(packet) /\ NulAt(e)
    <3>1. e \in pos + 1 .. Len(packet) /\ e \in pos + 1 .. e /\ e \in 1 .. Len(packet)
      BY <1>2, <1>4, <2>3, <2>7
    <3>2. packet[e] = 0
      BY <1>7, <2>5, <3>1
    <3>3. ASSUME NEW k \in pos + 1 .. e - 1 PROVE packet[k] # 0
      <4>1. k \in pos + 1 .. e /\ k \in 1 .. Len(packet) /\ k # e
        BY <1>2, <1>4, <2>7
      <4> QED BY <1>7, <2>5, <4>1
    <3> QED BY <3>1, <3>2, <3>3 DEF NulAt
  <2>8. AtHand(w) <=> e <= Len(packet)
    <3>1. AtHand(w) => \E n \in pos + 1 .. Len(packet) : NulAt(n)
      BY <1>12 DEF AtHand
    <3>2. AtHand(w) => e <= Len(packet)
      BY <1>2, <1>4, <2>6, <3>1
    <3>3. e <= Len(packet) => AtHand(w)
      BY <1>12, <2>7 DEF AtHand
    <3> QED BY <3>2, <3>3
  <2>9. e <= Len(packet) => EndOf(w) = e
    <3> SUFFICES ASSUME e <= Len(packet) PROVE EndOf(w) = e
      OBVIOUS
    <3>1. EndOf(w) = CHOOSE n \in pos + 1 .. Len(packet) : NulAt(n)
      BY <1>12 DEF EndOf
    <3>2. \E n \in pos + 1 .. Len(packet) : NulAt(n)
      BY <2>7
    <3>3. EndOf(w) \in pos + 1 .. Len(packet) /\ NulAt(EndOf(w))
      BY <3>1, <3>2
    <3> QED BY <2>6, <3>3
  <2> QED BY <1>5, <1>6, <1>10, <2>8, <2>9 DEF f, w, e
<1> QED BY <1>11, <1>12

(* What is read of a row with one more field.                               *)
LEMMA OneMore ==
    ASSUME NEW row, NEW layout, NEW bytes, NEW start, At(row, layout, bytes, start, field, pos, got)
    PROVE  /\ layout[field].name \in DOMAIN row =>
                Put(got, layout[field].name, row[layout[field].name]) = Only(row, Before(layout, field + 1))
           /\ layout[field].name \notin DOMAIN row => got = Only(row, Before(layout, field + 1))
<1> DEFINE n == layout[field].name
<1>1. field \in Nat /\ field > 0 /\ got = Only(row, Before(layout, field))
  BY DEF At, GoodLayout
<1>2. Before(layout, field + 1) = Before(layout, field) \cup {n}
  <2>1. 1 .. (field + 1) - 1 = (1 .. field - 1) \cup {field}
    BY <1>1
  <2> QED BY <2>1 DEF Before
<1>3. n \notin Before(layout, field)
  <2>1. \A j \in 1 .. field - 1 : j \in 1 .. Len(layout) /\ j # field
    BY DEF At, GoodLayout
  <2> QED BY <2>1 DEF At, GoodLayout, Before
<1> HIDE DEF n
<1>4. DOMAIN got = DOMAIN row \cap Before(layout, field) /\ \A x \in DOMAIN got : got[x] = row[x]
  BY <1>1 DEF Only
<1>5. ASSUME n \in DOMAIN row PROVE Put(got, n, row[n]) = Only(row, Before(layout, field + 1))
  <2>1. DOMAIN got \cup {n} = DOMAIN row \cap Before(layout, field + 1)
    BY <1>2, <1>4, <1>5
  <2>2. Put(got, n, row[n]) = [x \in DOMAIN got \cup {n} |-> IF x = n THEN row[n] ELSE got[x]]
    BY DEF Put
  <2>3. \A x \in DOMAIN got \cup {n} : (IF x = n THEN row[n] ELSE got[x]) = row[x]
    BY <1>4
  <2> QED BY <2>1, <2>2, <2>3 DEF Only
<1>6. ASSUME n \notin DOMAIN row PROVE got = Only(row, Before(layout, field + 1))
  <2>1. DOMAIN row \cap Before(layout, field) = DOMAIN row \cap Before(layout, field + 1)
    BY <1>2, <1>6
  <2> QED BY <1>1, <2>1 DEF Only
<1> QED BY <1>5, <1>6 DEF n
-----------------------------------------------------------------------------
(* Every answer is one that a server put together.                          *)
Sending == \A a \in Answers : \E starts : LaidOut(a, starts)

(* The rows read are the first of those sent, and the reader is where the   *)
(* next one has its next field; behind the flag only if that was sent.      *)
RowsGo(starts) ==
    LET n == Len(answer.table)  i == Len(table) + 1 IN
    /\ i \in 1 .. n + 1 /\ table = SubSeq(answer.table, 1, Len(table))
    /\ i <= n => At(answer.table[i], RowLayout(Kind), answer.bytes, starts[i], field, pos, got)
    /\ i = n + 1 => field = 1 /\ got = <<>> /\ pos = starts[n + 1][1]
    /\ Kind # "rules" => count = n
    /\ Kind = "info" /\ field > 18 => "EDF" \in DOMAIN answer.table[1]

ShipsGo(starts) ==
    LET n == Len(answer.ships)  i == Len(ships) + 1  first == starts[Len(answer.table) + 1][1] IN
    /\ table = answer.table /\ count = n
    /\ i \in 1 .. n + 1 /\ ships = SubSeq(answer.ships, 1, Len(ships))
    /\ i <= n => At(answer.ships[i], ShipLayout, answer.bytes, ShipStart(first, i), field, pos, got)

Going(starts) ==
    /\ stage # "done" => ~refused
    /\ stage = "count" => pos = 0 /\ got = <<>>
    /\ stage = "rows" => RowsGo(starts)
    /\ stage = "ship" => ShipsGo(starts)

SentInv ==
    /\ Arrived(answer.bytes) /\ DecodedAsSent
    /\ \E starts : LaidOut(answer, starts) /\ Going(starts)

(* What an answer's layout says of its parts.                               *)
LEMMA LayoutFacts ==
    ASSUME NEW a \in Answers, NEW starts, LaidOut(a, starts)
    PROVE  LET n == Len(a.table)  layout == RowLayout(a.kind)  last == Len(layout) + 1 IN
           /\ n \in Nat /\ DOMAIN a.table = 1 .. n /\ Len(a.bytes) \in Nat
           /\ Len(a.ships) \in Nat /\ DOMAIN a.ships = 1 .. Len(a.ships)
           /\ GoodLayout(layout) /\ last \in Nat /\ last > 1
           /\ starts[1][1] = CountWidth(a.kind)
           /\ \A i \in 1 .. n : /\ At(a.table[i], layout, a.bytes, starts[i], 1, starts[i][1], <<>>)
                                /\ starts[i][last] = starts[i + 1][1]
           /\ \A i \in 1 .. n + 1 : starts[i][1] \in 0 .. Len(a.bytes)
           /\ Len(a.bytes) = starts[n + 1][1] + 8 * Len(a.ships)
           /\ Len(a.ships) \in {0, n}
<1> DEFINE n == Len(a.table)
           layout == RowLayout(a.kind)
           last == Len(layout) + 1
<1>1. a.kind \in {"info", "players", "rules"} /\ a.bytes \in Seq(Byte)
  BY DecodeAssumption
<1>2. GoodLayout(layout)
  BY <1>1, InfoGood, OthersGood DEF RowLayout
<1>3. \A rows : IsRows(rows) => Len(rows) \in Nat /\ DOMAIN rows = 1 .. Len(rows)
  BY DEF IsRows
<1>4. n \in Nat /\ DOMAIN a.table = 1 .. n /\ Len(a.ships) \in Nat /\ DOMAIN a.ships = 1 .. Len(a.ships)
  BY <1>3 DEF LaidOut
<1>5. Len(layout) \in Nat \ {0} /\ last \in Nat /\ last > 1
  BY <1>2 DEF GoodLayout
<1>6. /\ starts \in [1 .. n + 1 -> [1 .. last -> 0 .. Len(a.bytes)]]
      /\ starts[1][1] = CountWidth(a.kind)
      /\ \A i \in 1 .. n : Lies(a.table[i], layout, a.bytes, starts[i]) /\ starts[i][last] = starts[i + 1][1]
      /\ Len(a.bytes) = starts[n + 1][1] + 8 * Len(a.ships)
      /\ Len(a.ships) \in {0, n}
  BY DEF LaidOut
<1>7. \A row : <<>> = Only(row, Before(layout, 1))
  <2>1. Before(layout, 1) = {}
    BY DEF Before
  <2> QED BY <2>1 DEF Only
<1> HIDE DEF n, layout
<1>8. 1 \in 1 .. last /\ 1 \in 1 .. Len(layout)
  BY <1>5
<1>9. \A i \in 1 .. n + 1 : starts[i][1] \in 0 .. Len(a.bytes)
  BY <1>6, <1>8
<1>10. ASSUME NEW i \in 1 .. n PROVE At(a.table[i], layout, a.bytes, starts[i], 1, starts[i][1], <<>>)
  <2>1. i \in 1 .. n + 1
    BY <1>4
  <2> QED BY <1>2, <1>6, <1>7, <1>8, <2>1 DEF At
<1> QED BY <1>1, <1>2, <1>4, <1>5, <1>6, <1>9, <1>10 DEF n, layout

(* The rows of The Ship lie behind the others, eight bytes each.            *)
LEMMA ShipFacts ==
    ASSUME NEW a \in Answers, NEW starts, LaidOut(a, starts)
    PROVE  LET first == starts[Len(a.table) + 1][1] IN
           \A i \in 1 .. Len(a.ships) :
              /\ At(a.ships[i], ShipLayout, a.bytes, ShipStart(first, i), 1, first + 8 * (i - 1), <<>>)
              /\ ShipStart(first, i)[3] = first + 8 * i
<1> DEFINE first == starts[Len(a.table) + 1][1]
<1>1. /\ Len(a.table) \in Nat /\ Len(a.bytes) \in Nat
      /\ Len(a.ships) \in Nat /\ DOMAIN a.ships = 1 .. Len(a.ships)
      /\ first \in 0 .. Len(a.bytes) /\ Len(a.bytes) = first + 8 * Len(a.ships)
  <2>1. Len(a.table) + 1 \in 1 .. Len(a.table) + 1
    BY LayoutFacts
  <2> QED BY <2>1, LayoutFacts
<1>2. \A i \in DOMAIN a.ships : Lies(a.ships[i], ShipLayout, a.bytes, ShipStart(first, i))
  BY DEF LaidOut
<1>3. GoodLayout(ShipLayout) /\ Len(ShipLayout) = 2
  BY OthersGood
<1>4. \A row : <<>> = Only(row, Before(ShipLayout, 1))
  <2>1. Before(ShipLayout, 1) = {}
    BY DEF Before
  <2> QED BY <2>1 DEF Only
<1> HIDE DEF first
<1> SUFFICES ASSUME NEW i \in 1 .. Len(a.ships)
             PROVE  /\ At(a.ships[i], ShipLayout, a.bytes, ShipStart(first, i), 1, first + 8 * (i - 1), <<>>)
                    /\ ShipStart(first, i)[3] = first + 8 * i
  BY DEF first
<1>5. ASSUME NEW k \in 1 .. 3 PROVE first + 8 * (i - 1) + 4 * (k - 1) \in 0 .. Len(a.bytes)
  <2>1. k = 1 \/ k = 2 \/ k = 3
    OBVIOUS
  <2>2. i >= 1 /\ i <= Len(a.ships) /\ i \in Nat /\ first \in Nat
    BY <1>1
  <2> QED BY <1>1, <2>1, <2>2
<1>6. ShipStart(first, i) \in [1 .. Len(ShipLayout) + 1 -> 0 .. Len(a.bytes)]
  BY <1>3, <1>5 DEF ShipStart
<1>7. ShipStart(first, i)[1] = first + 8 * (i - 1) /\ ShipStart(first, i)[3] = first + 8 * i
  BY <1>1 DEF ShipStart
<1> QED BY <1>1, <1>2, <1>3, <1>4, <1>6, <1>7 DEF At

(* At first nothing is read.                                                *)
LEMMA SentInit == ASSUME Sending PROVE Init => SentInv
<1> SUFFICES ASSUME Init PROVE SentInv
  OBVIOUS
<1>1. answer \in Answers /\ answer.bytes \in Seq(Byte) /\ Kind \in {"info", "players", "rules"}
  BY DecodeAssumption DEF Init, Kind
<1>2. PICK starts : LaidOut(answer, starts)
  BY <1>1 DEF Sending
<1>3. Arrived(answer.bytes)
  <2>1. PICK m \in 0 .. Len(answer.bytes) : packet = SubSeq(answer.bytes, 1, m)
    BY DEF Init
  <2>2. packet \in Seq(Byte) /\ Len(packet) = m
    BY <1>1, <2>1
  <2> QED BY <1>1, <2>1, <2>2 DEF Arrived
<1>4. stage # "done"
  BY DEF Init
<1>5. DecodedAsSent
  BY <1>4 DEF DecodedAsSent, WholeAccepted, InfoWhole, PlayersWhole, RulesFaithful, Decoded
<1>6. ~refused /\ pos = 0 /\ got = <<>> /\ field = 1 /\ table = <<>>
  BY DEF Init
<1>7. stage = "rows" => RowsGo(starts)
  <2> SUFFICES ASSUME stage = "rows" PROVE RowsGo(starts)
    OBVIOUS
  <2>1. Kind = "info" /\ count = 1
    BY DEF Init
  <2>2. Len(answer.table) = 1
    BY <1>2, <2>1 DEF LaidOut, Kind
  <2>3. At(answer.table[1], RowLayout(Kind), answer.bytes, starts[1], 1, starts[1][1], <<>>)
        /\ starts[1][1] = 0
    BY <1>1, <1>2, <2>1, <2>2, LayoutFacts DEF Kind, CountWidth
  <2>4. Len(table) = 0 /\ table = SubSeq(answer.table, 1, 0)
    BY <1>6
  <2> QED BY <1>6, <2>1, <2>2, <2>3, <2>4 DEF RowsGo
<1>8. stage # "ship"
  BY DEF Init
<1> QED BY <1>2, <1>3, <1>5, <1>6, <1>7, <1>8 DEF SentInv, Going
-----------------------------------------------------------------------------
(* One row more of those sent.                                              *)
LEMMA OneRowMore ==
    ASSUME NEW A, IsRows(A), NEW s, s = SubSeq(A, 1, Len(s)), Len(s) + 1 \in 1 .. Len(A)
    PROVE  /\ Append(s, A[Len(s) + 1]) = SubSeq(A, 1, Len(s) + 1)
           /\ Len(Append(s, A[Len(s) + 1])) = Len(s) + 1
<1>1. PICK S : A \in Seq(S)
  BY DEF IsRows
<1>2. PICK n : n = Len(s)
  OBVIOUS
<1>3. Len(A) \in Nat /\ n + 1 \in 1 .. Len(A) /\ n \in Int
  <2>1. s \in Seq(S) \/ s \notin Seq(S)
    OBVIOUS
  <2>2. s \in Seq(S)
    BY <1>1
  <2> QED BY <1>1, <1>2, <2>2
<1>4. s = SubSeq(A, 1, n) /\ n \in 0 .. Len(A) /\ A[n + 1] \in S
  BY <1>1, <1>2, <1>3
<1>5. Append(SubSeq(A, 1, n), A[n + 1]) = SubSeq(A, 1, n + 1)
  BY <1>1, <1>3, <1>4
<1>6. Len(SubSeq(A, 1, n + 1)) = n + 1
  BY <1>1, <1>3
<1> QED BY <1>2, <1>4, <1>5, <1>6

(* Behind the last field all of the row is read.                            *)
LEMMA WholeRow ==
    ASSUME NEW row, NEW layout, NEW bytes, NEW start, GoodLayout(layout), Lies(row, layout, bytes, start)
    PROVE  Only(row, Before(layout, Len(layout) + 1)) = row
<1>1. Len(layout) \in Nat /\ DOMAIN layout = 1 .. Len(layout)
  BY DEF GoodLayout
<1>2. 1 .. (Len(layout) + 1) - 1 = DOMAIN layout
  BY <1>1
<1>3. Before(layout, Len(layout) + 1) = NamesOf(layout)
  BY <1>2 DEF Before, NamesOf
<1> QED BY <1>3 DEF Lies

(* A field read, or left out, is one step along its row.                    *)
LEMMA RowMoves ==
    ASSUME NEW starts, NEW row, NEW r,
           answer \in Answers, LaidOut(answer, starts), stage = "rows", RowsGo(starts),
           Len(table) < Len(answer.table), row = answer.table[Len(table) + 1],
           r = Only(row, Before(RowLayout(Kind), field + 1)),
           pos' = starts[Len(table) + 1][field + 1], Advance(r),
           UNCHANGED <<answer, packet, stage, count, truncated, refused>>,
           Kind = "info" /\ field = 18 => "EDF" \in DOMAIN row
    PROVE  RowsGo(starts)'
<1> DEFINE n == Len(answer.table)
           i == Len(table) + 1
           layout == RowLayout(Kind)
<1>1. /\ n \in Nat /\ i \in 1 .. n + 1 /\ i <= n /\ table = SubSeq(answer.table, 1, Len(table))
      /\ Len(table) \in Int
  <2>1. n \in Nat /\ i \in 1 .. n + 1 /\ table = SubSeq(answer.table, 1, Len(table))
    BY LayoutFacts DEF RowsGo
  <2>2. Len(table) \in Int
    <3>1. PICK S : answer.table \in Seq(S)
      BY DEF LaidOut, IsRows
    <3>2. table \in Seq(S) \/ Len(table) \in Int
      BY <2>1, <3>1
    <3> QED BY <3>2
  <2> QED BY <2>1, <2>2
<1>2. At(row, layout, answer.bytes, starts[i], field, pos, got)
  BY <1>1 DEF RowsGo
<1>3. Layout = layout
  BY DEF Layout
<1>4. Kind' = Kind /\ n' = n /\ answer' = answer
  BY DEF Kind
<1>5. GoodLayout(layout) /\ field \in 1 .. Len(layout) /\ Len(layout) \in Nat
  BY <1>2 DEF At, GoodLayout
<1>6. Kind # "rules" => count' = n
  BY DEF RowsGo
<1>7. Kind = "info" => n = 1 /\ i = 1
  BY <1>1 DEF LaidOut, Kind
<1>8. CASE field < Len(layout)
  <2>1. field' = field + 1 /\ got' = r /\ table' = table
    BY <1>3, <1>8 DEF Advance
  <2>2. At(row, layout, answer.bytes, starts[i], field', pos', got')
    BY <1>2, <1>5, <1>8, <2>1 DEF At
  <2>3. Kind = "info" /\ field' > 18 => "EDF" \in DOMAIN answer.table[1]
    <3>1. Kind = "info" /\ field > 18 => "EDF" \in DOMAIN answer.table[1]
      BY DEF RowsGo
    <3>2. field' > 18 => field > 18 \/ field = 18
      BY <1>5, <2>1
    <3> QED BY <1>7, <3>1, <3>2
  <2> QED BY <1>1, <1>4, <1>6, <2>1, <2>2, <2>3 DEF RowsGo
<1>9. CASE ~(field < Len(layout))
  <2>1. field' = 1 /\ got' = <<>> /\ table' = Append(table, r) /\ field = Len(layout)
    BY <1>3, <1>5, <1>9 DEF Advance
  <2>2. r = row
    BY <1>2, <2>1, WholeRow DEF At
  <2>3. table' = SubSeq(answer.table, 1, i) /\ Len(table') = i
    <3>1. IsRows(answer.table)
      BY DEF LaidOut
    <3>2. Len(table) + 1 \in 1 .. Len(answer.table)
      BY <1>1
    <3> QED BY <1>1, <2>1, <2>2, <3>1, <3>2, OneRowMore
  <2>4. pos' = starts[i + 1][1]
    <3>1. i \in 1 .. n
      BY <1>1
    <3>2. starts[i][Len(layout) + 1] = starts[i + 1][1]
      BY <3>1, LayoutFacts DEF Kind
    <3> QED BY <2>1, <3>2
  <2>5. ASSUME i + 1 <= n
        PROVE  At(answer.table[i + 1], layout, answer.bytes, starts[i + 1], 1, pos', <<>>)
    <3>1. i + 1 \in 1 .. n
      BY <1>1, <2>5
    <3> QED BY <2>4, <3>1, LayoutFacts DEF Kind
  <2> HIDE DEF layout, i, n
  <2>6. i + 1 \in 1 .. n + 1 /\ Len(table') + 1 = i + 1 /\ table' = SubSeq(answer.table, 1, Len(table'))
    BY <1>1, <2>3
  <2>7. i + 1 = n + 1 => pos' = starts[n + 1][1]
    BY <2>4
  <2>8. ~(field' > 18)
    BY <2>1
  <2> USE DEF n, layout
  <2> QED BY <1>4, <1>6, <2>1, <2>5, <2>6, <2>7, <2>8 DEF RowsGo
<1> QED BY <1>8, <1>9

(* The same for the rows of The Ship.                                       *)
LEMMA ShipMoves ==
    ASSUME NEW starts, NEW row, NEW r,
           answer \in Answers, LaidOut(answer, starts), stage = "ship", ShipsGo(starts),
           Len(ships) < Len(answer.ships), row = answer.ships[Len(ships) + 1],
           r = Only(row, Before(ShipLayout, field + 1)),
           pos' = ShipStart(starts[Len(answer.table) + 1][1], Len(ships) + 1)[field + 1], Advance(r),
           UNCHANGED <<answer, packet, stage, count, truncated, refused>>
    PROVE  ShipsGo(starts)'
<1> DEFINE n == Len(answer.ships)
           i == Len(ships) + 1
           first == starts[Len(answer.table) + 1][1]
<1>1. /\ n \in Nat /\ i \in 1 .. n + 1 /\ i <= n /\ ships = SubSeq(answer.ships, 1, Len(ships))
      /\ Len(ships) \in Int /\ table = answer.table /\ count = n
  <2>1. n \in Nat /\ i \in 1 .. n + 1 /\ ships = SubSeq(answer.ships, 1, Len(ships))
        /\ table = answer.table /\ count = n
    BY LayoutFacts DEF ShipsGo
  <2>2. Len(ships) \in Int
    <3>1. PICK S : answer.ships \in Seq(S)
      BY DEF LaidOut, IsRows
    <3>2. ships \in Seq(S) \/ Len(ships) \in Int
      BY <2>1, <3>1
    <3> QED BY <3>2
  <2> QED BY <2>1, <2>2
<1>2. At(row, ShipLayout, answer.bytes, ShipStart(first, i), field, pos, got)
  BY <1>1 DEF ShipsGo
<1>3. Layout = ShipLayout /\ Len(ShipLayout) = 2
  BY OthersGood DEF Layout
<1>4. answer' = answer /\ n' = n /\ first' = first /\ count' = count
  OBVIOUS
<1>5. field \in 1 .. 2
  BY <1>2, <1>3 DEF At
<1>6. CASE field < 2
  <2>1. field' = field + 1 /\ got' = r /\ ships' = ships /\ table' = table
    BY <1>3, <1>6 DEF Advance
  <2>2. At(row, ShipLayout, answer.bytes, ShipStart(first, i), field', pos', got')
    BY <1>2, <1>3, <1>5, <1>6, <2>1 DEF At
  <2> QED BY <1>1, <1>4, <2>1, <2>2 DEF ShipsGo
<1>7. CASE ~(field < 2)
  <2>1. field' = 1 /\ got' = <<>> /\ ships' = Append(ships, r) /\ table' = table /\ field = 2
    BY <1>3, <1>5, <1>7 DEF Advance
  <2>2. r = row
    BY <1>2, <1>3, <2>1, WholeRow DEF At
  <2>3. ships' = SubSeq(answer.ships, 1, i) /\ Len(ships') = i
    <3>1. IsRows(answer.ships)
      BY DEF LaidOut
    <3>2. Len(ships) + 1 \in 1 .. Len(answer.ships)
      BY <1>1
    <3> QED BY <1>1, <2>1, <2>2, <3>1, <3>2, OneRowMore
  <2>4. pos' = first + 8 * i
    <3>1. i \in 1 .. Len(answer.ships)
      BY <1>1
    <3>2. ShipStart(first, i)[3] = first + 8 * i
      BY <3>1, ShipFacts
    <3> QED BY <2>1, <3>2
  <2>5. ASSUME i + 1 <= n
        PROVE  At(answer.ships[i + 1], ShipLayout, answer.bytes, ShipStart(first, i + 1), 1, pos', <<>>)
    <3>1. i + 1 \in 1 .. Len(answer.ships) /\ (i + 1) - 1 = i
      BY <1>1, <2>5
    <3> QED BY <2>4, <3>1, ShipFacts
  <2> HIDE DEF i, n, first
  <2>6. i + 1 \in 1 .. n + 1 /\ Len(ships') + 1 = i + 1 /\ ships' = SubSeq(answer.ships, 1, Len(ships'))
    BY <1>1, <2>3
  <2> USE DEF n, first
  <2> QED BY <1>1, <1>4, <2>1, <2>5, <2>6 DEF ShipsGo
<1> QED BY <1>5, <1>6, <1>7
-----------------------------------------------------------------------------
(* A row without parts has all its fields.                                  *)
LEMMA PlainHasAll ==
    ASSUME NEW row, NEW layout, NEW bytes, NEW start, At(row, layout, bytes, start, field, pos, got),
           Plain(layout)
    PROVE  layout[field].name \in DOMAIN row /\ Wanted(layout[field])
<1>1. field \in DOMAIN layout /\ layout[field].part = "base" /\ layout[field].name # "EDF"
  BY DEF At, GoodLayout, Plain
<1> QED BY <1>1 DEF At, Lies, Sent, Announced, Wanted

(* Without a flag nothing of the tail is there.                             *)
LEMMA NoTail ==
    ASSUME NEW row, NEW bytes, NEW start, Lies(row, InfoLayout, bytes, start), "EDF" \notin DOMAIN row
    PROVE  \A k \in 18 .. 24 : InfoLayout[k].name \notin DOMAIN row
<1>1. DOMAIN InfoLayout = 1 .. 24
  BY InfoFields
<1> SUFFICES ASSUME NEW k \in 18 .. 24 PROVE InfoLayout[k].name \notin DOMAIN row
  OBVIOUS
<1>2. k \in 1 .. 24
  OBVIOUS
<1>3. CASE k = 18
  BY <1>3, InfoGood
<1>4. CASE k # 18
  <2>1. InfoLayout[k].part = "edf" /\ InfoLayout[k].name # "EDF"
    BY <1>2, <1>4, InfoGood
  <2> QED BY <1>1, <1>2, <2>1 DEF Lies, Sent
<1> QED BY <1>3, <1>4

(* Without a flag nothing follows the head.                                 *)
LEMMA NoFlag ==
    ASSUME NEW a \in Answers, NEW starts, LaidOut(a, starts), a.kind = "info",
           "EDF" \notin DOMAIN a.table[1]
    PROVE  starts[1][18] = Len(a.bytes)
<1> DEFINE row == a.table[1]
           start == starts[1]
<1>1. Len(a.table) = 1 /\ a.ships = <<>> /\ RowLayout(a.kind) = InfoLayout
  BY DEF LaidOut, RowLayout
<1>2. Len(InfoLayout) = 24 /\ DOMAIN InfoLayout = 1 .. 24
  BY InfoFields
<1>3. Lies(row, InfoLayout, a.bytes, start) /\ starts[1][25] = starts[2][1] /\ Len(a.bytes) = starts[2][1]
  <2>1. 1 \in 1 .. 1 /\ Len(a.ships) = 0
    BY <1>1
  <2>2. Lies(row, InfoLayout, a.bytes, start) /\ starts[1][25] = starts[2][1]
    <3>1. \A i \in 1 .. Len(a.table) : /\ Lies(a.table[i], RowLayout(a.kind), a.bytes, starts[i])
                                       /\ starts[i][Len(RowLayout(a.kind)) + 1] = starts[i + 1][1]
      BY DEF LaidOut
    <3>2. Len(RowLayout(a.kind)) = 24
      BY <1>1, <1>2
    <3>3. 24 + 1 = 25 /\ 1 + 1 = 2
      OBVIOUS
    <3>4. 1 \in 1 .. Len(a.table)
      BY <1>1, <2>1
    <3>5. /\ Lies(a.table[1], RowLayout(a.kind), a.bytes, starts[1])
          /\ starts[1][Len(RowLayout(a.kind)) + 1] = starts[1 + 1][1]
      BY <3>1, <3>4, Zenon
    <3>6. starts[1][25] = starts[2][1]
      BY <3>2, <3>3, <3>5
    <3> QED BY <1>1, <3>5, <3>6
  <2>3. Len(a.bytes) = starts[2][1] + 8 * 0 /\ starts[2][1] \in 0 .. Len(a.bytes) /\ Len(a.bytes) \in Nat
    <3>1. 1 + 1 \in 1 .. 1 + 1 /\ 1 + 1 = 2
      OBVIOUS
    <3> QED BY <1>1, <2>1, <3>1, LayoutFacts
  <2> QED BY <2>1, <2>2, <2>3
<1>4. \A k \in 18 .. 24 : InfoLayout[k].name \notin DOMAIN row
  BY <1>3, NoTail
<1>5. \A k \in 18 .. 24 : start[k + 1] = start[k]
  <2>1. \A k \in 1 .. 24 : InfoLayout[k].name \notin DOMAIN row => start[k + 1] = start[k]
    BY <1>2, <1>3 DEF Lies
  <2>2. \A k \in 18 .. 24 : k \in 1 .. 24
    OBVIOUS
  <2> QED BY <1>4, <2>1, <2>2
<1> HIDE DEF start
<1>6. start[19] = start[18] /\ start[20] = start[19] /\ start[21] = start[20] /\ start[22] = start[21]
      /\ start[23] = start[22] /\ start[24] = start[23] /\ start[25] = start[24]
  BY <1>5
<1> QED BY <1>3, <1>6 DEF start

(* The state of a decoder that reads a server's rows.                       *)
Reading(starts) ==
    /\ IInv /\ Arrived(answer.bytes) /\ LaidOut(answer, starts)
    /\ stage = "rows" /\ RowsGo(starts)

(* A row under way is one that was sent, or the rules are at their end.     *)
LEMMA RowsThere ==
    ASSUME NEW starts, Reading(starts), InRow
    PROVE  \/ Len(table) < Len(answer.table)
           \/ Kind = "rules" /\ field = 1 /\ ~Remaining /\ ~AtHand(Current.width)
<1>1. answer \in Answers /\ Kind \in {"info", "players", "rules"}
  BY DecodeAssumption DEF Reading, IInv, Typed, Kind
<1>2. Len(table) < count /\ count \in Nat /\ Len(table) \in Nat
  <2>1. \E S : table \in Seq(S)
    BY DEF Reading, IInv, Typed, RowsTyped
  <2> QED BY <2>1 DEF InRow, Reading, IInv, Typed
<1>3. Len(answer.table) \in Nat /\ Len(table) + 1 \in 1 .. Len(answer.table) + 1
  BY <1>1, LayoutFacts DEF Reading, RowsGo
<1> SUFFICES ASSUME ~(Len(table) < Len(answer.table))
             PROVE  Kind = "rules" /\ field = 1 /\ ~Remaining /\ ~AtHand(Current.width)
  OBVIOUS
<1>4. Kind = "rules"
  BY <1>2 DEF Reading, RowsGo
<1>5. field = 1 /\ pos = starts[Len(answer.table) + 1][1]
  <2>1. Len(table) + 1 = Len(answer.table) + 1
    BY <1>2, <1>3
  <2> QED BY <2>1 DEF Reading, RowsGo
<1>6. Len(answer.ships) = 0
  BY <1>4 DEF Reading, LaidOut, Kind
<1>7. pos = Len(answer.bytes) /\ pos \in Nat
  <2>1. Len(answer.table) + 1 \in 1 .. Len(answer.table) + 1
    BY <1>3
  <2>2. pos \in 0 .. Len(answer.bytes) /\ Len(answer.bytes) = pos + 8 * 0
    BY <1>1, <1>5, <1>6, <2>1, LayoutFacts DEF Reading
  <2> QED BY <2>2
<1>8. Len(packet) <= pos /\ Len(packet) \in Nat
  BY <1>7 DEF Reading, Arrived
<1>9. ~Remaining /\ pos + 1 .. Len(packet) = {}
  BY <1>7, <1>8 DEF Remaining
<1>10. Current.width = Text
  BY <1>4, <1>5, OthersGood DEF Current, Layout, RowLayout, Reading
<1> QED BY <1>4, <1>5, <1>9, <1>10 DEF AtHand

(* In such a row what the decoder expects is what was sent.                 *)
LEMMA RowExpects ==
    ASSUME NEW starts, Reading(starts), Len(table) < Len(answer.table),
           ~NoExtraData \/ ~Wanted(Current),
           NEW row, row = answer.table[Len(table) + 1]
    PROVE  /\ At(row, Layout, answer.bytes, starts[Len(table) + 1], field, pos, got)
           /\ Wanted(Current) <=> Current.name \in DOMAIN row
           /\ Kind = "info" /\ field = 18 => "EDF" \in DOMAIN row
<1>1. answer \in Answers /\ Kind \in {"info", "players", "rules"}
  BY DecodeAssumption DEF Reading, IInv, Typed, Kind
<1>2. Layout = RowLayout(Kind) /\ Current = Layout[field]
  BY DEF Layout, Current, Reading
<1>3. Len(table) \in Nat /\ Len(answer.table) \in Nat
  <2>1. \E S : table \in Seq(S)
    BY DEF Reading, IInv, Typed, RowsTyped
  <2> QED BY <1>1, <2>1, LayoutFacts DEF Reading
<1>4. At(row, Layout, answer.bytes, starts[Len(table) + 1], field, pos, got)
  BY <1>2, <1>3 DEF Reading, RowsGo
<1>5. CASE Kind # "info"
  <2>1. Plain(Layout)
    BY <1>1, <1>2, <1>5, OthersGood DEF RowLayout
  <2> QED BY <1>2, <1>4, <1>5, <2>1, PlainHasAll
<1>6. CASE Kind = "info"
  <2>1. Layout = InfoLayout /\ field \in 1 .. 24
    BY <1>2, <1>4, <1>6, InfoFields DEF At, RowLayout
  <2>2. row = answer.table[1] /\ Len(table) + 1 = 1
    <3>1. Len(answer.table) = 1
      BY <1>6 DEF Reading, LaidOut, Kind
    <3> QED BY <1>3, <3>1
  <2>3. CASE field = 18
    <3>1. Current.name = "EDF" /\ Current.part = "base"
      BY <1>2, <2>1, <2>3, InfoGood
    <3>2. Wanted(Current)
      BY <3>1 DEF Wanted, Announced
    <3>3. Remaining
      BY <3>1, <3>2 DEF NoExtraData
    <3>4. pos < Len(answer.bytes)
      <4>1. Len(packet) <= Len(answer.bytes) /\ Len(packet) \in Nat /\ Len(answer.bytes) \in Nat /\ pos \in Nat
        BY DEF Reading, Arrived, IInv, Typed
      <4> QED BY <3>3, <4>1 DEF Remaining
    <3>5. pos = starts[1][18]
      BY <1>4, <2>2, <2>3 DEF At
    <3>6. "EDF" \in DOMAIN row
      <4>1. Len(answer.bytes) \in Nat
        BY DEF Reading, Arrived
      <4> QED BY <1>1, <1>6, <2>2, <3>4, <3>5, <4>1, NoFlag DEF Reading, Kind
    <3> QED BY <1>4, <3>1, <3>2, <3>6
  <2>4. CASE field # 18
    <3>1. Current.name # "EDF" /\ (Current.part = "edf" => field > 18)
      BY <1>2, <2>1, <2>4, InfoGood
    <3>2. field > 18 => "EDF" \in DOMAIN row
      BY <1>6, <2>2 DEF Reading, RowsGo
    <3> QED BY <1>2, <1>4, <2>4, <3>1, <3>2, WantedIsSent
  <2> QED BY <2>3, <2>4
<1> QED BY <1>5, <1>6

(* Such a step goes on in the row, to the next field's first byte.          *)
LEMMA Along ==
    ASSUME NEW row, NEW start, At(row, Layout, answer.bytes, start, field, pos, got),
           Arrived(answer.bytes), Wanted(Current) <=> Current.name \in DOMAIN row,
           ReadField \/ SkipField
    PROVE  /\ pos' = start[field + 1] /\ Advance(Only(row, Before(Layout, field + 1)))
           /\ UNCHANGED <<answer, packet, stage, count, truncated, refused>>
<1>1. Current = Layout[field] /\ field \in DOMAIN Layout /\ pos = start[field]
  BY DEF Current, At, GoodLayout
<1>2. CASE ReadField
  <2>1. Current.name \in DOMAIN row /\ AtHand(Current.width)
    BY <1>2 DEF ReadField
  <2>2. EndOf(Current.width) = start[field + 1] /\ Value(Current) = row[Current.name]
    BY <1>1, <2>1, ReadAsSent
  <2>3. Put(got, Current.name, Value(Current)) = Only(row, Before(Layout, field + 1))
    BY <1>1, <2>1, <2>2, OneMore
  <2> QED BY <1>2, <2>2, <2>3 DEF ReadField
<1>3. CASE SkipField
  <2>1. Current.name \notin DOMAIN row
    BY <1>3 DEF SkipField
  <2>2. start[field + 1] = start[field]
    BY <1>1, <2>1 DEF At, Lies
  <2>3. got = Only(row, Before(Layout, field + 1))
    BY <1>1, <2>1, OneMore
  <2> QED BY <1>1, <1>3, <2>2, <2>3 DEF SkipField
<1> QED BY <1>2, <1>3
-----------------------------------------------------------------------------
(* A decoder under way in what a server sent.                               *)
Under(starts) ==
    /\ IInv /\ Arrived(answer.bytes) /\ LaidOut(answer, starts) /\ Going(starts)

(* What such a decoder's state says of the answer.                          *)
LEMMA UnderFacts ==
    ASSUME NEW starts, Under(starts)
    PROVE  /\ answer \in Answers /\ Kind \in {"info", "players", "rules"} /\ Kind = answer.kind
           /\ Len(answer.bytes) \in Nat /\ Len(packet) \in Nat /\ Len(packet) <= Len(answer.bytes)
           /\ pos \in Nat /\ count \in Nat /\ Len(table) \in Nat /\ Len(ships) \in Nat
           /\ Len(answer.table) \in Nat /\ Len(answer.ships) \in Nat
<1>1. answer \in Answers /\ Kind \in {"info", "players", "rules"} /\ Kind = answer.kind
  BY DecodeAssumption DEF Under, IInv, Typed, Kind
<1>2. Len(table) \in Nat /\ Len(ships) \in Nat
  <2>1. (\E S : table \in Seq(S)) /\ (\E S : ships \in Seq(S))
    BY DEF Under, IInv, Typed, RowsTyped
  <2> QED BY <2>1
<1>3. Len(answer.table) \in Nat /\ Len(answer.ships) \in Nat
  BY <1>1, LayoutFacts DEF Under
<1>4. Len(answer.bytes) \in Nat /\ Len(packet) \in Nat /\ Len(packet) <= Len(answer.bytes)
  BY DEF Under, Arrived
<1>5. pos \in Nat /\ count \in Nat
  BY <1>4 DEF Under, IInv, Typed
<1> QED BY <1>1, <1>2, <1>3, <1>4, <1>5

(* After the count the first row begins.                                    *)
LEMMA ReadCountSent ==
    ASSUME NEW starts, Under(starts), ReadCount
    PROVE  Going(starts)' /\ stage' # "done"
<1> DEFINE n == Len(answer.table)
<1>1. /\ stage = "count" /\ pos = 0 /\ got = <<>> /\ field = 1 /\ table = <<>> /\ ~refused
      /\ Kind \in {"players", "rules"}
  BY UnderFacts DEF ReadCount, Under, Going, IInv, Placed
<1>2. /\ stage' = "rows" /\ pos' = pos + CountWidth(Kind) /\ CanRead(CountWidth(Kind))
      /\ count' = Number(SubSeq(packet, pos + 1, pos + CountWidth(Kind)))
      /\ UNCHANGED <<answer, packet, field, got, table, refused>>
  BY DEF ReadCount
<1>3. Kind' = Kind /\ Kind = answer.kind
  BY <1>2, UnderFacts DEF Kind
<1>4. pos' = starts[1][1]
  <2>1. CountWidth(Kind) \in {1, 2}
    BY <1>1 DEF CountWidth
  <2>2. starts[1][1] = CountWidth(Kind)
    BY <1>3, UnderFacts, LayoutFacts DEF Under
  <2> QED BY <1>1, <1>2, <2>1, <2>2
<1>5. Kind = "players" => count' = n
  <2> SUFFICES ASSUME Kind = "players" PROVE count' = n
    OBVIOUS
  <2>1. CountWidth(Kind) = 1
    BY DEF CountWidth
  <2>2. count' = Number(SubSeq(packet, 1, 1)) /\ 1 \in 0 .. Len(packet)
    BY <1>1, <1>2, <2>1 DEF CanRead
  <2>3. packet \in Seq(Byte) /\ packet = SubSeq(answer.bytes, 1, Len(packet)) /\ answer.bytes \in Seq(Byte)
        /\ Len(packet) <= Len(answer.bytes)
    BY DEF Under, Arrived
  <2>4. Len(SubSeq(packet, 1, 1)) = 1 /\ SubSeq(packet, 1, 1)[1] = packet[1]
    BY <2>2, <2>3
  <2>5. packet[1] = answer.bytes[1]
    BY <2>2, <2>3
  <2>6. answer.bytes[1] = n
    BY <1>3 DEF Under, LaidOut
  <2> QED BY <2>2, <2>4, <2>5, <2>6 DEF Number
<1>6. n \in Nat
  BY UnderFacts
<1>7. 1 <= n => At(answer.table[1], RowLayout(Kind), answer.bytes, starts[1], 1, starts[1][1], <<>>)
  <2> SUFFICES ASSUME 1 <= n
               PROVE  At(answer.table[1], RowLayout(Kind), answer.bytes, starts[1], 1, starts[1][1], <<>>)
    OBVIOUS
  <2>1. 1 \in 1 .. n
    BY <1>6
  <2> QED BY <1>3, <2>1, UnderFacts, LayoutFacts DEF Under
<1>8. Len(table) = 0 /\ table = SubSeq(answer.table, 1, 0)
  BY <1>1
<1>9. Kind # "info" /\ (Kind # "rules" => Kind = "players")
  BY <1>1
<1>10. RowsGo(starts)'
  <2>1. 1 \in 1 .. n + 1 /\ (1 = n + 1 => starts[1][1] = starts[n + 1][1])
    BY <1>6
  <2> HIDE DEF n
  <2>2. Len(table) + 1 = 1
    BY <1>8
  <2> USE DEF n
  <2> QED BY <1>1, <1>2, <1>3, <1>4, <1>5, <1>7, <1>8, <1>9, <2>1, <2>2 DEF RowsGo
<1> QED BY <1>1, <1>2, <1>10 DEF Going

(* In a row of The Ship what the decoder expects is there.                  *)
LEMMA ShipExpects ==
    ASSUME NEW starts, Under(starts), stage = "ship", Len(ships) < count,
           NEW row, row = answer.ships[Len(ships) + 1]
    PROVE  /\ Len(ships) < Len(answer.ships)
           /\ At(row, ShipLayout, answer.bytes,
                 ShipStart(starts[Len(answer.table) + 1][1], Len(ships) + 1), field, pos, got)
           /\ Layout = ShipLayout /\ Current = ShipLayout[field]
           /\ Current.name \in DOMAIN row /\ Wanted(Current) /\ Current.name # "EDF"
<1>1. ShipsGo(starts)
  BY DEF Under, Going
<1>2. Len(ships) < Len(answer.ships)
  BY <1>1 DEF ShipsGo
<1>3. At(row, ShipLayout, answer.bytes,
         ShipStart(starts[Len(answer.table) + 1][1], Len(ships) + 1), field, pos, got)
  <2>1. Len(ships) + 1 <= Len(answer.ships)
    BY <1>2, UnderFacts
  <2> QED BY <1>1, <2>1 DEF ShipsGo
<1>4. Layout = ShipLayout /\ Current = ShipLayout[field]
  BY DEF Layout, Current
<1>5. Current.name # "EDF"
  BY <1>3, <1>4, OthersGood DEF Plain, At
<1>6. Current.name \in DOMAIN row /\ Wanted(Current)
  BY <1>3, <1>4, OthersGood, PlainHasAll
<1> QED BY <1>2, <1>3, <1>4, <1>5, <1>6

(* A decoder in the rows is reading them.                                   *)
LEMMA UnderReads ==
    ASSUME NEW starts, Under(starts), stage = "rows"
    PROVE  Reading(starts)
<1> QED BY DEF Under, Going, Reading

(* In the rules every field is expected.                                    *)
LEMMA RulesWantAll ==
    ASSUME NEW starts, Under(starts), stage = "rows", Kind = "rules"
    PROVE  Wanted(Current) /\ Current.name # "EDF"
<1>1. field \in 1 .. 2 /\ Current = RuleLayout[field]
  BY DEF Under, IInv, Placed, Current, Layout, RowLayout
<1>2. RuleLayout[field].part = "base" /\ RuleLayout[field].name # "EDF"
  BY <1>1 DEF RuleLayout, Base
<1> QED BY <1>1, <1>2 DEF Wanted, Announced

(* A field read, or left out, is one step along what was sent.              *)
LEMMA MoveSent ==
    ASSUME NEW starts, Under(starts), ReadField \/ SkipField
    PROVE  Going(starts)' /\ stage' # "done"
<1>1. InRow /\ (~NoExtraData \/ ~Wanted(Current)) /\ UNCHANGED stage
  BY DEF ReadField, SkipField
<1>2. stage \in {"rows", "ship"} /\ ~refused
  BY <1>1 DEF InRow, Under, Going
<1>3. CASE stage = "rows"
  <2>1. Len(table) < Len(answer.table)
    <3> SUFFICES ASSUME ~(Len(table) < Len(answer.table)) PROVE FALSE
      OBVIOUS
    <3>1. Kind = "rules" /\ ~AtHand(Current.width)
      BY <1>1, <1>3, UnderReads, RowsThere
    <3>2. Wanted(Current)
      BY <1>3, <3>1, RulesWantAll
    <3> QED BY <3>1, <3>2 DEF ReadField, SkipField
  <2>2. PICK row : row = answer.table[Len(table) + 1]
    OBVIOUS
  <2>3. /\ At(row, Layout, answer.bytes, starts[Len(table) + 1], field, pos, got)
        /\ Wanted(Current) <=> Current.name \in DOMAIN row
        /\ Kind = "info" /\ field = 18 => "EDF" \in DOMAIN row
    BY <1>1, <1>3, <2>1, <2>2, UnderReads, RowExpects
  <2>4. /\ pos' = starts[Len(table) + 1][field + 1] /\ Advance(Only(row, Before(Layout, field + 1)))
        /\ UNCHANGED <<answer, packet, stage, count, truncated, refused>>
    BY <2>3, Along DEF Under
  <2>5. Layout = RowLayout(Kind)
    BY <1>3 DEF Layout
  <2>6. answer \in Answers /\ LaidOut(answer, starts) /\ RowsGo(starts)
    BY <1>3, UnderFacts DEF Under, Going
  <2>7. RowsGo(starts)'
    BY <1>3, <2>1, <2>2, <2>3, <2>4, <2>5, <2>6, RowMoves
  <2> QED BY <1>2, <1>3, <2>4, <2>7 DEF Going
<1>4. CASE stage = "ship"
  <2>1. Len(ships) < count
    BY <1>1, <1>4 DEF InRow
  <2>2. PICK row : row = answer.ships[Len(ships) + 1]
    OBVIOUS
  <2>3. PICK start : start = ShipStart(starts[Len(answer.table) + 1][1], Len(ships) + 1)
    OBVIOUS
  <2>4. /\ Len(ships) < Len(answer.ships) /\ Layout = ShipLayout
        /\ At(row, Layout, answer.bytes, start, field, pos, got)
        /\ Wanted(Current) <=> Current.name \in DOMAIN row
    BY <1>4, <2>1, <2>2, <2>3, ShipExpects
  <2>5. /\ pos' = start[field + 1] /\ Advance(Only(row, Before(Layout, field + 1)))
        /\ UNCHANGED <<answer, packet, stage, count, truncated, refused>>
    BY <2>4, Along DEF Under
  <2>6. answer \in Answers /\ LaidOut(answer, starts) /\ ShipsGo(starts)
    BY <1>4, UnderFacts DEF Under, Going
  <2>7. ShipsGo(starts)'
    BY <1>4, <2>2, <2>3, <2>4, <2>5, <2>6, ShipMoves
  <2> QED BY <1>2, <1>4, <2>5, <2>7 DEF Going
<1> QED BY <1>2, <1>3, <1>4

(* A field of an answer that arrived whole is at hand.                      *)
LEMMA WholeIsThere ==
    ASSUME NEW row, NEW layout, NEW start, At(row, layout, answer.bytes, start, field, pos, got),
           Arrived(answer.bytes), Uncut, layout[field].name \in DOMAIN row
    PROVE  AtHand(layout[field].width)
<1>1. field + 1 \in 1 .. Len(layout) + 1
  BY DEF At, GoodLayout
<1>2. start[field + 1] <= Len(answer.bytes)
  <2>1. start[field + 1] \in 0 .. Len(answer.bytes)
    BY <1>1 DEF At
  <2>2. Len(answer.bytes) \in Nat
    BY DEF Arrived
  <2> QED BY <2>1, <2>2
<1> QED BY <1>2, ReadAsSent DEF Uncut

(* What is refused did not arrive whole.                                    *)
LEMMA FailsSent ==
    ASSUME NEW starts, Under(starts), CountFails \/ FieldFails
    PROVE  ~Uncut
<1> SUFFICES ASSUME Uncut PROVE FALSE
  OBVIOUS
<1>1. CASE CountFails
  <2>1. stage = "count" /\ pos = 0 /\ ~CanRead(CountWidth(Kind)) /\ Kind \in {"players", "rules"}
    BY <1>1, UnderFacts DEF CountFails, Under, Going, IInv, Placed
  <2>2. CountWidth(Kind) \in {1, 2}
    BY <2>1 DEF CountWidth
  <2>3. CountWidth(Kind) \in 0 .. Len(answer.bytes)
    <3>1. 1 \in 1 .. Len(answer.table) + 1
      BY UnderFacts
    <3>2. starts[1][1] = CountWidth(Kind) /\ starts[1][1] \in 0 .. Len(answer.bytes)
      BY <3>1, UnderFacts, LayoutFacts DEF Under
    <3> QED BY <3>2
  <2> QED BY <2>1, <2>2, <2>3 DEF Uncut, CanRead
<1>2. CASE FieldFails
  <2>1. InRow /\ ~NoExtraData /\ Wanted(Current) /\ ~AtHand(Current.width) /\ ~Tolerates
    BY <1>2 DEF FieldFails
  <2>2. CASE stage = "rows"
    <3>1. Len(table) < Len(answer.table)
      BY <2>1, <2>2, UnderReads, RowsThere DEF Tolerates
    <3>2. PICK row : row = answer.table[Len(table) + 1]
      OBVIOUS
    <3>3. /\ At(row, Layout, answer.bytes, starts[Len(table) + 1], field, pos, got)
          /\ Current.name \in DOMAIN row
      BY <2>1, <2>2, <3>1, <3>2, UnderReads, RowExpects
    <3> QED BY <2>1, <3>3, WholeIsThere DEF Under, Current
  <2>3. CASE stage = "ship"
    <3>1. PICK row : row = answer.ships[Len(ships) + 1]
      OBVIOUS
    <3>2. PICK start : start = ShipStart(starts[Len(answer.table) + 1][1], Len(ships) + 1)
      OBVIOUS
    <3>3. Len(ships) < count
      BY <2>1, <2>3 DEF InRow
    <3>4. /\ At(row, ShipLayout, answer.bytes, start, field, pos, got)
          /\ Current = ShipLayout[field] /\ Current.name \in DOMAIN row
      BY <2>3, <3>1, <3>2, <3>3, ShipExpects
    <3> QED BY <2>1, <3>4, WholeIsThere DEF Under
  <2> QED BY <2>1, <2>2, <2>3 DEF InRow
<1> QED BY <1>1, <1>2

(* Rules that break off are the first of those sent.                        *)
LEMMA BreakOffSent ==
    ASSUME NEW starts, Under(starts), RulesBreakOff
    PROVE  DecodedAsSent'
<1>1. /\ InRow /\ Kind = "rules" /\ truncated' = TRUE /\ UNCHANGED <<answer, packet, table, refused>>
  BY DEF RulesBreakOff, Tolerates
<1>2. stage = "rows" /\ ~refused
  <2>1. stage # "ship"
    BY <1>1 DEF Under, IInv, Placed
  <2> QED BY <1>1, <2>1 DEF InRow, Under, Going
<1>3. Len(table) <= Len(answer.table) /\ table = SubSeq(answer.table, 1, Len(table))
  <2>1. Len(table) + 1 \in 1 .. Len(answer.table) + 1 /\ table = SubSeq(answer.table, 1, Len(table))
    BY <1>2 DEF Under, Going, RowsGo
  <2> QED BY <2>1, UnderFacts
<1>4. Kind' = "rules"
  BY <1>1 DEF Kind
<1> QED BY <1>1, <1>2, <1>3, <1>4
  DEF DecodedAsSent, WholeAccepted, InfoWhole, PlayersWhole, RulesFaithful

(* The rows of a finished list are those sent.                              *)
LEMMA AllRows ==
    ASSUME NEW rows, IsRows(rows), NEW s, s = SubSeq(rows, 1, Len(s)), Len(s) = Len(rows)
    PROVE  s = rows
<1>1. PICK S : rows \in Seq(S)
  BY DEF IsRows
<1> QED BY <1>1

(* Without the flag the head is all of A2S_INFO.                            *)
LEMMA HeadIsAll ==
    ASSUME NEW row, NEW bytes, NEW start, Lies(row, InfoLayout, bytes, start), "EDF" \notin DOMAIN row
    PROVE  Only(row, HeadNames) = row
<1>1. DOMAIN InfoLayout = 1 .. 24
  BY InfoFields
<1>2. row = Only(row, NamesOf(InfoLayout))
  BY DEF Lies
<1>3. DOMAIN row \cap NamesOf(InfoLayout) = DOMAIN row \cap HeadNames
  <2>1. HeadNames = {InfoLayout[k].name : k \in 1 .. 17}
    BY InfoGood
  <2>2. NamesOf(InfoLayout) = {InfoLayout[k].name : k \in 1 .. 24}
    BY <1>1 DEF NamesOf
  <2>3. \A k \in 1 .. 24 : k \in 1 .. 17 \/ k \in 18 .. 24
    OBVIOUS
  <2>4. \A k \in 1 .. 17 : k \in 1 .. 24
    OBVIOUS
  <2>5. \A k \in 18 .. 24 : InfoLayout[k].name \notin DOMAIN row
    BY NoTail
  <2> QED BY <2>1, <2>2, <2>3, <2>4, <2>5
<1> QED BY <1>2, <1>3 DEF Only

(* Only A2S_INFO ends for want of its flag, with the head read.             *)
LEMMA InfoEndsSent ==
    ASSUME NEW starts, Under(starts), InfoEnds
    PROVE  DecodedAsSent'
<1>1. /\ InRow /\ Current.name = "EDF" /\ ~Remaining /\ table' = Append(table, got)
      /\ UNCHANGED <<answer, packet, refused>>
  BY DEF InfoEnds, NoExtraData
<1>2. stage = "rows" /\ ~refused
  <2>1. stage # "ship"
    <3> SUFFICES ASSUME stage = "ship" PROVE FALSE
      OBVIOUS
    <3>1. PICK row : row = answer.ships[Len(ships) + 1]
      OBVIOUS
    <3> QED BY <1>1, <3>1, ShipExpects DEF InRow
  <2> QED BY <1>1, <2>1 DEF InRow, Under, Going
<1>3. Layout = RowLayout(Kind) /\ Current = Layout[field]
  BY <1>2 DEF Layout, Current
<1>4. Len(table) < Len(answer.table)
  <2>1. Kind # "rules"
    BY <1>1, <1>2, RulesWantAll
  <2> QED BY <1>1, <1>2, <2>1, UnderReads, RowsThere
<1>5. PICK row : row = answer.table[Len(table) + 1]
  OBVIOUS
<1>6. At(row, Layout, answer.bytes, starts[Len(table) + 1], field, pos, got)
  <2>1. Len(table) + 1 <= Len(answer.table)
    BY <1>4, UnderFacts
  <2> QED BY <1>2, <1>3, <1>5, <2>1 DEF Under, Going, RowsGo
<1>7. Kind = "info"
  <2> SUFFICES ASSUME Kind # "info" PROVE FALSE
    OBVIOUS
  <2>1. Plain(Layout)
    BY <1>3, UnderFacts, OthersGood DEF RowLayout
  <2> QED BY <1>1, <1>3, <1>6, <2>1 DEF Plain, At
<1>8. Layout = InfoLayout /\ field = 18
  <2>1. Layout = InfoLayout /\ field \in 1 .. 24
    BY <1>3, <1>6, <1>7, InfoFields DEF At, RowLayout
  <2> QED BY <1>1, <1>3, <2>1, InfoGood
<1>9. Len(answer.table) = 1 /\ table = <<>> /\ row = answer.table[1]
  <2>1. Len(answer.table) = 1
    BY <1>7 DEF Under, LaidOut, Kind
  <2>2. Len(table) = 0
    BY <1>4, <2>1, UnderFacts
  <2>3. table = <<>>
    BY <2>2 DEF Under, IInv, Typed, RowsTyped
  <2> QED BY <1>5, <2>1, <2>2, <2>3
<1>10. table' = <<got>>
  BY <1>1, <1>9
<1>11. got = Only(row, HeadNames)
  <2>1. Before(InfoLayout, 18) = HeadNames
    <3>1. 1 .. 18 - 1 = 1 .. 17
      OBVIOUS
    <3> QED BY <3>1, InfoGood DEF Before
  <2> QED BY <1>6, <1>8, <2>1 DEF At
<1>12. Uncut => table' = answer.table
  <2> SUFFICES ASSUME Uncut PROVE table' = answer.table
    OBVIOUS
  <2>1. "EDF" \notin DOMAIN row
    <3> SUFFICES ASSUME "EDF" \in DOMAIN row PROVE FALSE
      OBVIOUS
    <3>1. AtHand(Current.width) /\ Current.width = 1
      BY <1>1, <1>3, <1>6, <1>8, InfoGood, WholeIsThere DEF Under
    <3>2. CanRead(1)
      BY <3>1 DEF AtHand, Text
    <3> QED BY <1>1, <3>2, UnderFacts DEF CanRead, Remaining
  <2>2. got = row
    BY <1>6, <1>8, <1>11, <2>1, HeadIsAll DEF At
  <2>3. IsRows(answer.table)
    BY DEF Under, LaidOut
  <2>4. answer.table = <<row>>
    <3>1. PICK S : answer.table \in Seq(S)
      BY <2>3 DEF IsRows
    <3>2. DOMAIN answer.table = 1 .. 1 /\ DOMAIN <<row>> = 1 .. 1 /\ <<row>>[1] = row
      BY <1>9, <3>1
    <3>3. answer.table = [i \in 1 .. 1 |-> answer.table[i]] /\ <<row>> = [i \in 1 .. 1 |-> <<row>>[i]]
      BY <3>1, <3>2
    <3>4. \A i \in 1 .. 1 : answer.table[i] = <<row>>[i]
      BY <1>9, <3>2
    <3> QED BY <3>3, <3>4
  <2> QED BY <1>10, <2>2, <2>4
<1>13. Kind' = "info" /\ (Uncut' <=> Uncut)
  BY <1>1, <1>7 DEF Kind, Uncut
<1>14. InfoWhole'
  BY <1>1, <1>9, <1>10, <1>11, <1>12, <1>13 DEF InfoWhole
<1> QED BY <1>1, <1>2, <1>13, <1>14 DEF DecodedAsSent, WholeAccepted, PlayersWhole, RulesFaithful

(* All rows announced are read: the answer ends, or The Ship's part begins. *)
LEMMA RowsReadSent ==
    ASSUME NEW starts, Under(starts), RowsRead
    PROVE  Going(starts)' /\ DecodedAsSent'
<1> DEFINE n == Len(answer.table)
           first == starts[n + 1][1]
<1>1. /\ stage = "rows" /\ Len(table) = count /\ stage' = (IF ShipFollows THEN "ship" ELSE "done")
      /\ UNCHANGED <<answer, packet, pos, count, field, got, table, ships, refused>>
  BY DEF RowsRead
<1>2. /\ ~refused /\ RowsGo(starts) /\ ships = <<>> /\ answer \in Answers /\ LaidOut(answer, starts)
      /\ Len(packet) <= Len(answer.bytes)
  BY <1>1, UnderFacts DEF Under, Going, IInv, Placed
<1>3. Len(table) <= n /\ table = SubSeq(answer.table, 1, Len(table)) /\ n \in Nat /\ IsRows(answer.table)
      /\ IsRows(answer.ships)
  <2>1. Len(table) + 1 \in 1 .. n + 1 /\ table = SubSeq(answer.table, 1, Len(table))
    BY <1>2 DEF RowsGo
  <2> QED BY <1>2, <2>1, UnderFacts DEF LaidOut
<1>4. Kind' = Kind /\ Kind = answer.kind /\ (Uncut' <=> Uncut)
  BY <1>1, UnderFacts DEF Kind, Uncut
<1>5. ASSUME Kind # "rules"
      PROVE  count = n /\ table = answer.table /\ field = 1 /\ got = <<>> /\ pos = first
  <2>1. count = n
    BY <1>2, <1>5 DEF RowsGo
  <2>2. table = answer.table
    BY <1>1, <1>3, <2>1, AllRows
  <2>3. Len(table) + 1 = n + 1
    BY <1>1, <2>1
  <2> QED BY <1>2, <2>1, <2>2, <2>3 DEF RowsGo
<1>6. first \in Nat /\ Len(answer.bytes) = first + 8 * Len(answer.ships) /\ Len(answer.ships) \in {0, n}
  <2>1. n + 1 \in 1 .. n + 1
    BY <1>3
  <2>2. first \in 0 .. Len(answer.bytes) /\ Len(answer.bytes) = first + 8 * Len(answer.ships)
        /\ Len(answer.ships) \in {0, n}
    BY <1>2, <2>1, LayoutFacts
  <2> QED BY <2>2, UnderFacts
<1> HIDE DEF n, first
<1>7. CASE ShipFollows
  <2>1. Kind = "players" /\ count > 0 /\ Len(packet) - pos = count * 8 /\ stage' = "ship"
    BY <1>1, <1>7 DEF ShipFollows
  <2>2. count = n /\ table = answer.table /\ field = 1 /\ got = <<>> /\ pos = first
    BY <1>5, <2>1
  <2>3. Len(answer.ships) = n /\ 1 \in 1 .. n
    <3>1. Len(answer.ships) # 0
      BY <1>2, <1>6, <2>1, <2>2, UnderFacts
    <3> QED BY <1>3, <1>6, <2>1, <2>2, <3>1
  <2>4. At(answer.ships[1], ShipLayout, answer.bytes, ShipStart(first, 1), 1, first + 8 * (1 - 1), <<>>)
    BY <1>2, <2>3, ShipFacts DEF first, n
  <2>5. first + 8 * (1 - 1) = first
    BY <1>6
  <2>6. Len(ships) = 0 /\ ships = SubSeq(answer.ships, 1, 0)
    BY <1>2
  <2>7. 1 \in 1 .. n + 1 /\ Len(ships) + 1 = 1
    BY <1>3, <2>6
  <2>8. ShipsGo(starts)'
    BY <1>1, <2>2, <2>3, <2>4, <2>5, <2>6, <2>7 DEF ShipsGo, first, n
  <2>9. stage' # "done" /\ stage' # "count" /\ stage' # "rows"
    BY <2>1
  <2>10. DecodedAsSent'
    BY <2>9 DEF DecodedAsSent, WholeAccepted, InfoWhole, PlayersWhole, RulesFaithful, Decoded
  <2> QED BY <1>1, <1>2, <2>8, <2>9, <2>10 DEF Going
<1>8. CASE ~ShipFollows
  <2>1. stage' = "done"
    BY <1>1, <1>8
  <2>2. InfoWhole'
    BY <1>1, <1>4, <1>5 DEF InfoWhole
  <2>3. ASSUME Kind = "players", Uncut PROVE answer.ships = <<>>
    <3>1. count = n /\ pos = first /\ Len(packet) = Len(answer.bytes)
      BY <1>5, <2>3 DEF Uncut
    <3>2. ~(n > 0 /\ Len(packet) - first = n * 8)
      BY <1>8, <2>3, <3>1 DEF ShipFollows
    <3>3. Len(answer.ships) = 0
      BY <1>3, <1>6, <3>1, <3>2
    <3> QED BY <1>3, <3>3 DEF IsRows
  <2>4. PlayersWhole'
    BY <1>1, <1>2, <1>4, <1>5, <2>3 DEF PlayersWhole
  <2>5. RulesFaithful'
    BY <1>1, <1>3, <1>4 DEF RulesFaithful, n
  <2>6. WholeAccepted'
    BY <1>1, <1>2 DEF WholeAccepted
  <2>7. Going(starts)'
    BY <2>1 DEF Going
  <2> QED BY <2>2, <2>4, <2>5, <2>6, <2>7 DEF DecodedAsSent
<1> QED BY <1>7, <1>8

(* All of The Ship's part is read.                                          *)
LEMMA ShipsReadSent ==
    ASSUME NEW starts, Under(starts), ShipsRead
    PROVE  DecodedAsSent'
<1>1. /\ stage = "ship" /\ Len(ships) = count
      /\ UNCHANGED <<answer, packet, table, ships, refused>>
  BY DEF ShipsRead
<1>2. /\ ~refused /\ ShipsGo(starts) /\ Kind = "players"
  BY <1>1 DEF Under, Going, IInv, Placed
<1>3. table = answer.table /\ ships = SubSeq(answer.ships, 1, Len(ships)) /\ Len(ships) = Len(answer.ships)
  BY <1>1, <1>2 DEF ShipsGo
<1>4. ships = answer.ships
  <2>1. IsRows(answer.ships)
    BY DEF Under, LaidOut
  <2> QED BY <1>3, <2>1, AllRows
<1>5. Kind' = "players"
  BY <1>1, <1>2 DEF Kind
<1> QED BY <1>1, <1>2, <1>3, <1>4, <1>5
  DEF DecodedAsSent, WholeAccepted, InfoWhole, PlayersWhole, RulesFaithful

(* Every step keeps to what was sent.                                       *)
LEMMA SentNext == SentInv /\ IInv /\ [Next]_vars => SentInv'
<1> SUFFICES ASSUME SentInv, IInv, [Next]_vars PROVE SentInv'
  OBVIOUS
<1>1. PICK starts : LaidOut(answer, starts) /\ Going(starts)
  BY DEF SentInv
<1>2. Under(starts) /\ DecodedAsSent
  BY <1>1 DEF SentInv, Under
<1>3. Arrived(answer.bytes)' /\ LaidOut(answer, starts)'
  <2>1. UNCHANGED <<answer, packet>>
    BY DEF Next, vars, ReadCount, CountFails, ReadField, SkipField, InfoEnds, FieldFails,
           RulesBreakOff, RowsRead, ShipsRead, Returned, Refuse
  <2> QED BY <1>1, <2>1 DEF SentInv, Arrived
<1>4. stage' = "done" => Going(starts)'
  BY DEF Going
<1>5. stage' # "done" => DecodedAsSent'
  BY DEF DecodedAsSent, WholeAccepted, InfoWhole, PlayersWhole, RulesFaithful, Decoded
<1>6. Going(starts)' /\ DecodedAsSent'
  <2>1. CASE UNCHANGED vars
    <3>1. Going(starts)'
      BY <1>1, <2>1 DEF vars, Going, RowsGo, ShipsGo, Kind, At
    <3>2. DecodedAsSent'
      BY <1>2, <2>1 DEF vars, DecodedAsSent, WholeAccepted, InfoWhole, PlayersWhole, RulesFaithful,
                        Decoded, Uncut, Kind
    <3> QED BY <3>1, <3>2
  <2>2. CASE ReadCount
    BY <1>2, <1>5, <2>2, ReadCountSent
  <2>3. CASE ReadField \/ SkipField
    BY <1>2, <1>5, <2>3, MoveSent
  <2>4. CASE CountFails \/ FieldFails
    <3>1. stage' = "done" /\ refused' = TRUE /\ UNCHANGED <<answer, packet>> /\ ~Uncut
      BY <1>2, <2>4, FailsSent DEF CountFails, FieldFails, Refuse
    <3>2. ~Uncut' /\ ~Decoded'
      BY <3>1 DEF Uncut, Decoded
    <3> QED BY <1>4, <3>1, <3>2
      DEF DecodedAsSent, WholeAccepted, InfoWhole, PlayersWhole, RulesFaithful
  <2>5. CASE RulesBreakOff
    BY <1>2, <1>4, <2>5, BreakOffSent DEF RulesBreakOff
  <2>6. CASE InfoEnds
    BY <1>2, <1>4, <2>6, InfoEndsSent DEF InfoEnds
  <2>7. CASE RowsRead
    BY <1>2, <2>7, RowsReadSent
  <2>8. CASE ShipsRead
    BY <1>2, <1>4, <2>8, ShipsReadSent DEF ShipsRead
  <2>9. CASE Returned
    BY <2>1, <2>9 DEF Returned
  <2> QED BY <2>1, <2>2, <2>3, <2>4, <2>5, <2>6, <2>7, <2>8, <2>9 DEF Next
<1> QED BY <1>3, <1>6 DEF SentInv

(* Every answer that a server laid out is decoded as it was sent, wherever  *)
(* it was cut, or the caller is told (decode.go:8-224).                     *)
THEOREM DecodesWhatWasSent ==
    ASSUME Sending PROVE Spec => []DecodedAsSent
<1>1. Init => SentInv
  BY SentInit
<1>2. SentInv => DecodedAsSent
  BY DEF SentInv
<1> QED BY <1>1, <1>2, SentNext, SpecHolds, PTL DEF Spec
=============================================================================
