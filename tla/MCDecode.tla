------------------------------ MODULE MCDecode ------------------------------
(* The answers of A2S servers, put together as the servers of               *)
(* client_test.go:780-930 do: a sequence of named fields, each with its     *)
(* bytes, every value another. Every answer is also cut at every byte.      *)
EXTENDS Decode, SequencesExt

Named(name, b) == <<name, b>>

RowOf(fields) ==
    [n \in {fields[i][1] : i \in DOMAIN fields} |->
        fields[CHOOSE i \in DOMAIN fields : fields[i][1] = n][2]]

BytesOf(fields) == FlattenSeq([i \in DOMAIN fields |-> fields[i][2]])

(* Eight bytes with zeros among them, as the numbers servers send have.     *)
Wide(b) == <<b, 7, b + 1, 0, b + 2, 0, 0, 1>>

Information(app, ship, edf, extra) ==
    <<Named("Protocol", <<17>>), Named("Name", <<65, 66, 0>>), Named("Map", <<67, 0>>),
      Named("Folder", <<0>>), Named("Game", <<68, 0>>), Named("AppID", app),
      Named("Players", <<0>>), Named("MaxPlayers", <<24>>), Named("Bots", <<2>>),
      Named("ServerType", <<100>>), Named("Environment", <<108>>),
      Named("Visibility", <<1>>), Named("VAC", <<0>>)>>
    \o (IF ship THEN <<Named("Mode", <<3>>), Named("Witnesses", <<4>>), Named("Duration", <<15>>)>> ELSE <<>>)
    \o <<Named("Version", <<49, 0>>)>>
    \o (IF edf = 0 THEN <<>> ELSE <<Named("EDF", <<edf>>)>> \o extra)

(* One answer for every set of extra data, none (no flag at all) included.  *)
ExtraParts(parts) ==
    (IF "port" \in parts THEN <<Named("Port", <<135, 105>>)>> ELSE <<>>)
    \o (IF "steam" \in parts THEN <<Named("SteamID", Wide(30))>> ELSE <<>>)
    \o (IF "tv" \in parts THEN <<Named("TVPort", <<136, 105>>), Named("TVName", <<84, 0>>)>> ELSE <<>>)
    \o (IF "words" \in parts THEN <<Named("Keywords", <<75, 0>>)>> ELSE <<>>)
    \o (IF "game" \in parts THEN <<Named("GameID", Wide(50))>> ELSE <<>>)

FlagOf(parts) ==
    (IF "port" \in parts THEN 128 ELSE 0) + (IF "steam" \in parts THEN 16 ELSE 0)
    + (IF "tv" \in parts THEN 64 ELSE 0) + (IF "words" \in parts THEN 32 ELSE 0)
    + (IF "game" \in parts THEN 1 ELSE 0)

InfoAnswer(app, ship, parts) ==
    LET fields == Information(app, ship, FlagOf(parts), ExtraParts(parts)) IN
    [kind |-> "info", bytes |-> BytesOf(fields), table |-> <<RowOf(fields)>>, ships |-> <<>>]

PlayerFields(i) ==
    <<Named("Index", <<0>>), Named("Name", IF i = 2 THEN <<0>> ELSE <<80 + i, 0>>),
      Named("Score", <<i, 0, 0, 0>>), Named("Duration", <<0, 0, i, 65>>)>>

ShipFields(i) == <<Named("Deaths", <<i, 0, 0, 0>>), Named("Money", <<0, i, 0, 0>>)>>

PlayersAnswer(n, ship) ==
    LET rows == [i \in 1 .. n |-> PlayerFields(i)]
        more == IF ship THEN [i \in 1 .. n |-> ShipFields(i)] ELSE <<>> IN
    [kind |-> "players",
     bytes |-> <<n>> \o BytesOf(FlattenSeq(rows)) \o BytesOf(FlattenSeq(more)),
     table |-> [i \in DOMAIN rows |-> RowOf(rows[i])],
     ships |-> [i \in DOMAIN more |-> RowOf(more[i])]]

(* Rules over two keys, in any order, repeated or not; the server announces *)
(* as many as it sends, or any other number.                                *)
RuleFields(k, v) == <<Named("Key", <<k, 0>>), Named("Value", v)>>

RulesAnswer(keys, announced) ==
    LET rows == [i \in DOMAIN keys |-> RuleFields(keys[i], IF i = 2 THEN <<0>> ELSE <<48 + i, 0>>)] IN
    [kind |-> "rules",
     bytes |-> <<announced, 0>> \o BytesOf(FlattenSeq(rows)),
     table |-> [i \in DOMAIN rows |-> RowOf(rows[i])], ships |-> <<>>]

SomeAnswers ==
    {InfoAnswer(<<96, 9>>, TRUE, p) : p \in SUBSET {"port", "steam", "tv", "words", "game"}}
    \cup {InfoAnswer(<<9, 96>>, FALSE, p) : p \in SUBSET {"port", "steam", "tv", "words", "game"}}
    \cup {PlayersAnswer(n, s) : n \in 0 .. 3, s \in BOOLEAN}
    \cup {RulesAnswer(keys, a) : keys \in UNION {[1 .. n -> {97, 98}] : n \in 0 .. 3}, a \in 0 .. 4}
-----------------------------------------------------------------------------
(* Where the fields of these answers begin, the sizes of those in front     *)
(* added up.                                                                *)
SizeBefore(row, layout, k) ==
    FoldFunction(+, 0, [j \in 1 .. k - 1 |->
        IF layout[j].name \in DOMAIN row THEN Len(row[layout[j].name]) ELSE 0])

Starts(a) ==
    LET n == Len(a.table)  layout == RowLayout(a.kind)  last == Len(layout) + 1
        front == [i \in 1 .. n + 1 |-> CountWidth(a.kind) +
                     FoldFunction(+, 0, [j \in 1 .. i - 1 |-> SizeBefore(a.table[j], layout, last)])]
    IN  [i \in 1 .. n + 1 |-> [k \in 1 .. last |->
            IF i > n THEN front[i] ELSE front[i] + SizeBefore(a.table[i], layout, k)]]

ASSUME SomeAreLaidOut == \A a \in Answers : LaidOut(a, Starts(a))
=============================================================================
