------------------------------- MODULE Decode -------------------------------
(* The decoders of the three answers (decode.go) over protocol.Reader       *)
(* (internal/protocol/packet.go:23-115): what they make of an answer that   *)
(* arrived as the server sent it, and of one cut at any byte, as a read     *)
(* buffer smaller than the datagram cuts it (transport.go:38-43).           *)
(*                                                                          *)
(* A packet is a sequence of bytes behind the five that resolvePacket has   *)
(* looked at (client.go:221-240). Every decoder reads a count or none, then *)
(* rows of fields: A2S_INFO is one row, A2S_PLAYER one per player and       *)
(* perhaps one more per player of The Ship, A2S_RULES one per rule. One     *)
(* step reads one field. A value is kept as the bytes it was read from.     *)
EXTENDS Integers, FiniteSets, Sequences

CONSTANT Answers    \* what servers send: [kind, bytes, table, ships]

Byte == 0 .. 255

ASSUME DecodeAssumption ==
    \A a \in Answers : a.kind \in {"info", "players", "rules"} /\ a.bytes \in Seq(Byte)

VARIABLES
    answer,     \* ghost: what the server sent
    packet,     \* r.buf, what arrived of it
    pos,        \* r.pos
    stage,      \* "count", "rows", "ship" or "done"
    count,      \* the rows the packet announces
    field,      \* the next field of the row under way, an index of its layout
    got,        \* the fields read of that row, by name
    table,      \* the rows read: the Info, the Players, the pairs of rules
    ships,      \* the rows of the Ship part of the players
    items,      \* out.Items of the rules
    truncated,  \* out.Truncated
    refused     \* ErrDecode was returned

vars == <<answer, packet, pos, stage, count, field, got, table, ships, items,
          truncated, refused>>

Kind == answer.kind

Init ==
    /\ answer \in Answers
    /\ \E n \in 0 .. Len(answer.bytes) : packet = SubSeq(answer.bytes, 1, n)
    /\ pos = 0
    /\ stage = IF Kind = "info" THEN "rows" ELSE "count"
    /\ count = IF Kind = "info" THEN 1 ELSE 0
    /\ field = 1 /\ got = <<>>
    /\ table = <<>> /\ ships = <<>> /\ items = <<>>
    /\ truncated = FALSE /\ refused = FALSE
-----------------------------------------------------------------------------
(* The layouts. A text ends with a NUL. The part of a field says when it is *)
(* there: always, for the game The Ship, or with a bit of the extra data    *)
(* flag EDF.                                                                *)
Text == 0

Base(name, width)          == [name |-> name, width |-> width, part |-> "base", bit |-> 1]
Extra(name, width, edfBit) == [name |-> name, width |-> width, part |-> "edf", bit |-> edfBit]
OfShip(name)               == [name |-> name, width |-> 1, part |-> "ship", bit |-> 1]

InfoHead ==
    <<Base("Protocol", 1), Base("Name", Text), Base("Map", Text), Base("Folder", Text),
      Base("Game", Text), Base("AppID", 2), Base("Players", 1), Base("MaxPlayers", 1),
      Base("Bots", 1), Base("ServerType", 1), Base("Environment", 1),
      Base("Visibility", 1), Base("VAC", 1),
      OfShip("Mode"), OfShip("Witnesses"), OfShip("Duration"),
      Base("Version", Text), Base("EDF", 1)>>

InfoTail ==
    <<Extra("Port", 2, 128), Extra("SteamID", 8, 16), Extra("TVPort", 2, 64),
      Extra("TVName", Text, 64), Extra("Keywords", Text, 32), Extra("GameID", 8, 1)>>

InfoLayout == InfoHead \o InfoTail

PlayerLayout == <<Base("Index", 1), Base("Name", Text), Base("Score", 4), Base("Duration", 4)>>

ShipLayout == <<Base("Deaths", 4), Base("Money", 4)>>

RuleLayout == <<Base("Key", Text), Base("Value", Text)>>

RowLayout(kind) ==
    CASE kind = "info" -> InfoLayout [] kind = "players" -> PlayerLayout [] kind = "rules" -> RuleLayout

Layout == IF stage = "ship" THEN ShipLayout ELSE RowLayout(Kind)

Current == Layout[field]
-----------------------------------------------------------------------------
(* protocol.Reader: numbers are little-endian and of one or two bytes where *)
(* the decoders compute with them.                                          *)
Number(b) == IF Len(b) = 1 THEN b[1] ELSE b[1] + 256 * b[2]

Remaining == pos < Len(packet)

CanRead(size) == pos + size \in pos .. Len(packet)

NulAt(n) ==
    /\ n \in pos + 1 .. Len(packet)
    /\ packet[n] = 0
    /\ \A k \in pos + 1 .. n - 1 : packet[k] # 0

AtHand(width) ==
    IF width = Text THEN \E n \in pos + 1 .. Len(packet) : NulAt(n) ELSE CanRead(width)

EndOf(width) ==
    IF width = Text THEN CHOOSE n \in pos + 1 .. Len(packet) : NulAt(n) ELSE pos + width

(* The field's bytes; the two flags of A2S_INFO are true for 1 alone.       *)
Meaning(f, b) == IF f.name \in {"Visibility", "VAC"} /\ b # <<1>> THEN <<0>> ELSE b

Value(f) == Meaning(f, SubSeq(packet, pos + 1, EndOf(f.width)))
-----------------------------------------------------------------------------
(* A2S_INFO begins without a count.                                         *)
CountWidth(kind) == CASE kind = "info" -> 0 [] kind = "players" -> 1 [] kind = "rules" -> 2

ReadCount ==
    LET width == CountWidth(Kind) IN
    /\ stage = "count" /\ CanRead(width)
    /\ count' = Number(SubSeq(packet, pos + 1, pos + width))
    /\ pos' = pos + width
    /\ stage' = "rows"
    /\ UNCHANGED <<answer, packet, field, got, table, ships, items, truncated, refused>>

Refuse ==
    /\ refused' = TRUE
    /\ stage' = "done"
    /\ UNCHANGED <<answer, packet, pos, count, field, got, table, ships, items, truncated>>

CountFails ==
    /\ stage = "count" /\ ~CanRead(CountWidth(Kind))
    /\ Refuse

(* Faulty variant: one row too many. *)
InRowBeyond ==
    \/ stage = "rows" /\ Len(table) <= count
    \/ stage = "ship" /\ Len(ships) <= count

InRow ==
    \/ stage = "rows" /\ Len(table) < count
    \/ stage = "ship" /\ Len(ships) < count

TheShipAppID == 2400

(* Whether f is in the row that begins as r does.                           *)
Announced(f, r) ==
    CASE f.part = "base" -> TRUE
      [] f.part = "ship" -> Number(r["AppID"]) = TheShipAppID
      [] f.part = "edf"  -> (r["EDF"][1] \div f.bit) % 2 = 1

Wanted(f) == Announced(f, got)

(* The server need not send the extra data flag.                            *)
NoExtraData == Current.name = "EDF" /\ ~Remaining

Put(f, key, v) == [x \in DOMAIN f \cup {key} |-> IF x = key THEN v ELSE f[x]]

StoreItem(r) == items' = Put(items, r["Key"], r["Value"])

(* The row is r so far: on to its next field, or append it.                 *)
Advance(r) ==
    IF field < Len(Layout)
      THEN /\ field' = field + 1 /\ got' = r
           /\ UNCHANGED <<table, ships, items>>
      ELSE /\ field' = 1 /\ got' = <<>>
           /\ IF stage = "ship" THEN ships' = Append(ships, r) /\ UNCHANGED table
              ELSE table' = Append(table, r) /\ UNCHANGED ships
           /\ IF Kind = "rules" THEN StoreItem(r) ELSE UNCHANGED items

ReadField ==
    /\ InRow /\ ~NoExtraData
    /\ Wanted(Current) /\ AtHand(Current.width)
    /\ pos' = EndOf(Current.width)
    /\ Advance(Put(got, Current.name, Value(Current)))
    /\ UNCHANGED <<answer, packet, stage, count, truncated, refused>>

SkipField ==
    /\ InRow /\ ~Wanted(Current)
    /\ Advance(got)
    /\ UNCHANGED <<answer, packet, pos, stage, count, truncated, refused>>

InfoEnds ==
    /\ InRow /\ NoExtraData
    /\ table' = Append(table, got)
    /\ stage' = "done"
    /\ UNCHANGED <<answer, packet, pos, count, field, got, ships, items, truncated, refused>>

(* Faulty variant: a list of players that breaks off is kept, as rules are. *)
ToleratesAny == Kind # "info" /\ (table # <<>> \/ (field = 1 /\ ~Remaining))

(* Rules that break off are kept, if one was read or none begun.            *)
Tolerates == Kind = "rules" /\ (table # <<>> \/ (field = 1 /\ ~Remaining))

FieldFails ==
    /\ InRow /\ ~NoExtraData
    /\ Wanted(Current) /\ ~AtHand(Current.width)
    /\ ~Tolerates
    /\ Refuse

RulesBreakOff ==
    /\ InRow
    /\ ~AtHand(Current.width)
    /\ Tolerates
    /\ truncated' = TRUE
    /\ stage' = "done"
    /\ UNCHANGED <<answer, packet, pos, count, field, got, table, ships, items, refused>>

(* Faulty variant: rules are truncated only where they break off. *)
ShortSilent == FALSE

(* out.Count < out.ReportedCount.                                           *)
Short == Kind = "rules" /\ Cardinality(DOMAIN items) < count

ShipFollows == Kind = "players" /\ count > 0 /\ Len(packet) - pos = count * 8

RowsRead ==
    /\ stage = "rows" /\ Len(table) = count
    /\ stage' = IF ShipFollows THEN "ship" ELSE "done"
    /\ truncated' = Short
    /\ UNCHANGED <<answer, packet, pos, count, field, got, table, ships, items, refused>>

ShipsRead ==
    /\ stage = "ship" /\ Len(ships) = count
    /\ stage' = "done"
    /\ UNCHANGED <<answer, packet, pos, count, field, got, table, ships, items, truncated, refused>>

(* The decoder has returned.                                                *)
Returned == stage = "done" /\ UNCHANGED vars

Next ==
    \/ ReadCount \/ CountFails
    \/ ReadField \/ SkipField \/ InfoEnds
    \/ FieldFails \/ RulesBreakOff
    \/ RowsRead \/ ShipsRead
    \/ Returned

Spec == Init /\ [][Next]_vars
-----------------------------------------------------------------------------
(* The reader stays inside the packet, which is what keeps its slices from  *)
(* panicking, and no more rows are read than announced, whatever the bytes  *)
(* (packet.go:48-115, decode.go:143-223).                                   *)
TypeOK ==
    /\ packet \in Seq(Byte)
    /\ pos \in 0 .. Len(packet)
    /\ stage \in {"count", "rows", "ship", "done"}
    /\ count \in Nat /\ count <= 65535
    /\ field \in Nat \ {0}
    /\ Len(table) <= count /\ Len(ships) <= count
    /\ truncated \in BOOLEAN /\ refused \in BOOLEAN

Decoded == stage = "done" /\ ~refused

Uncut == packet = answer.bytes

Only(r, names) == [n \in DOMAIN r \cap names |-> r[n]]

HeadNames == {InfoHead[i].name : i \in DOMAIN InfoHead} \ {"EDF"}

(* What arrives whole is decoded without an error (decode.go:8-224).        *)
WholeAccepted == stage = "done" /\ Uncut => ~refused

(* An A2S_INFO answer is decoded field by field as it was sent, or refused; *)
(* the only cut that goes unnoticed is the one just before the extra data   *)
(* flag, and then all of the extra data is missing (decode.go:20-124).      *)
InfoWhole ==
    Decoded /\ Kind = "info" =>
        \/ table = answer.table
        \/ ~Uncut /\ table = <<Only(answer.table[1], HeadNames)>>

(* A list of players is complete and as it was sent, or refused; only the   *)
(* part of The Ship may be missing, for all of them, when the answer was    *)
(* cut inside it (decode.go:136-176).                                       *)
PlayersWhole ==
    Decoded /\ Kind = "players" =>
        /\ table = answer.table
        /\ ships = answer.ships \/ (~Uncut /\ ships = <<>>)

(* The rules are a beginning of those sent, a key is never given the value  *)
(* of another, and if they are fewer than the packet announces Truncated    *)
(* says so (decode.go:188-223).                                             *)
RulesFaithful ==
    Decoded /\ Kind = "rules" =>
        /\ Len(table) <= Len(answer.table)
        /\ table = SubSeq(answer.table, 1, Len(table))
        /\ ~truncated => Len(table) = count

(* Every answer is decoded as it was sent, or the caller is told: by an     *)
(* error, or by what is missing as a whole (decode.go:8-224).               *)
DecodedAsSent == WholeAccepted /\ InfoWhole /\ PlayersWhole /\ RulesFaithful

(* What a server sends: after the count the fields of the rows, each where  *)
(* starts says, one behind another; the extra data if there is a flag for   *)
(* it. Rules may be announced in any number.                                *)
NamesOf(layout) == {layout[k].name : k \in DOMAIN layout}

Fits(width, b) ==
    IF width = Text THEN b # <<>> /\ \A j \in DOMAIN b : b[j] = 0 <=> j = Len(b)
                    ELSE Len(b) = width

Sent(f, row) == (f.part = "edf" => "EDF" \in DOMAIN row) /\ Announced(f, row)

Lies(row, layout, bytes, start) ==
    /\ row = Only(row, NamesOf(layout))
    /\ \A k \in DOMAIN layout :
          LET f == layout[k]  b == SubSeq(bytes, start[k] + 1, start[k + 1]) IN
          /\ f.name # "EDF" => (f.name \in DOMAIN row <=> Sent(f, row))
          /\ IF f.name \in DOMAIN row THEN Fits(f.width, b) /\ row[f.name] = Meaning(f, b)
                                     ELSE start[k + 1] = start[k]

ShipStart(first, i) == [k \in 1 .. 3 |-> first + 8 * (i - 1) + 4 * (k - 1)]

IsRows(rows) == rows \in Seq({rows[i] : i \in DOMAIN rows})

LaidOut(a, starts) ==
    LET n == Len(a.table)  last == Len(RowLayout(a.kind)) + 1 IN
    /\ IsRows(a.table) /\ IsRows(a.ships)
    /\ starts \in [1 .. n + 1 -> [1 .. last -> 0 .. Len(a.bytes)]]
    /\ starts[1][1] = CountWidth(a.kind)
    /\ \A i \in 1 .. n : /\ Lies(a.table[i], RowLayout(a.kind), a.bytes, starts[i])
                         /\ starts[i][last] = starts[i + 1][1]
    /\ \A i \in DOMAIN a.ships :
          Lies(a.ships[i], ShipLayout, a.bytes, ShipStart(starts[n + 1][1], i))
    /\ Len(a.bytes) = starts[n + 1][1] + 8 * Len(a.ships)
    /\ a.kind = "info" => n = 1
    /\ a.kind = "players" => a.bytes[1] = n
    /\ Len(a.ships) \in {0, n} /\ (a.ships # <<>> => a.kind = "players")

Keys(rows) == {rows[i]["Key"] : i \in DOMAIN rows}

Repeats == \E i, j \in DOMAIN table : i # j /\ table[i]["Key"] = table[j]["Key"]

(* Items holds the last value read of every key, and Truncated is set if    *)
(* and only if rules are missing or a key came twice (decode.go:194-222).   *)
RulesHonest ==
    Decoded /\ Kind = "rules" =>
        /\ DOMAIN items = Keys(table)
        /\ \A i \in DOMAIN table :
              (\A j \in i + 1 .. Len(table) : table[j]["Key"] # table[i]["Key"])
              => items[table[i]["Key"]] = table[i]["Value"]
        /\ truncated <=> (Len(table) < count \/ Repeats)
=============================================================================
