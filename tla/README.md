# Verification of a2s-go in TLA+

TLA+ modules, TLC configurations and TLAPS proofs for
[a2s-go](https://github.com/gofurry/a2s-go), a Go library that queries game
servers over UDP (A2S_INFO, A2S_PLAYER, A2S_RULES), discovers servers through a
Valve master server and scans batches of them. Line numbers below refer to the
repository's files (under `src/` in `PROJECT.json`).

## 1. The system

| Component | State it keeps | Operations | Talks to |
|---|---|---|---|
| a2s client (`client.go`) | socket, remote address, `closed`, mutex | `NewClient`, `NewClientWithConn`, `QueryInfo/Players/Rules`, `Close` | a game server through *transport*; *reassembly*; callers' goroutines |
| reassembly (`internal/multipacket`) | none between calls; slots, count and first header inside `Collect` | `Collect` | the client's socket |
| challenge, framing (`internal/challenge`, `internal/protocol`) | none | `Parse`, `ApplyChallenge`, `ClassifyPacket`, `PeekPayloadHeader`, builders, `Reader` | pure |
| transport (`internal/transport`) | a pool of read buffers shared by the process | `Send`, `Receive`, `SendTo`, `ReceiveFrom` | `net.UDPConn`, contexts, deadlines |
| decoding (`decode.go`) | none | `parseInfo`, `parsePlayers`, `parseRules` | pure |
| scanner (`scanner/client.go`) | per scan: `jobs` and `results` channels, one socket per worker, WaitGroup | `Probe*`, `Collect*` | workers use a new a2s client per server on the worker's socket; input may be the stream of the master client |
| addresses and options (`scanner/addresses.go`, `normalizeAddress`, `options.go`) | the configuration under construction | `ParseAddress(es)`, `With*`, constructors | the name service |
| master client (`master/client.go`) | socket, `closed`, mutex; a goroutine and a cursor per stream | `Query`, `Stream`, `Close` | master server; feeds the scanner |
| master protocol (`internal/masterprotocol`) | none | `BuildQuery`, `DecodeResponse` | pure |

What is hard in it:

* **Concurrency.** A client may be shared by goroutines: a mutex is held for a
  whole exchange, but `closed` is first read without it. A scan runs
  N workers, a feeder and a closer over two unbuffered channels with a context
  that may end at any time. A stream of the master client is one more goroutine
  behind one more unbuffered channel. All clients of a process share one pool of
  buffers, and several may share a socket.
* **UDP.** Requests and replies are lost, repeated, delayed and reordered; the
  socket is never drained, so what a failed query left behind is read by the
  next. A socket may be shared with other hosts' datagrams. A datagram longer
  than the read buffer is cut without an error.
* **Timeouts.** Every read has a deadline, but it belongs to the socket and not
  to the reader; a context that is cancelled does not wake a blocked read; the
  error a caller sees depends on which read failed.
* **Rounds.** A server may answer with a challenge, after which the request is
  sent again; any response may come in fragments. Each round has a new deadline.

What makes each component correct: a query returns an answer of the right kind
that is one response of its own server, whole unless a datagram was cut, and,
unless something was left behind, its own answer; exchanges do not interleave; Close waits for the exchange in progress;
every call returns, and in its time. Reassembly returns the response of the
first fragment or an error, whatever the order, and never panics. A decoder
returns what was sent, or says what is missing, and stays inside the packet. A
buffer has one borrower. A scan gives one result per input, never sends on a closed
channel, and always ends with every socket closed; its probes, which share a
socket, get their own replies as long as none has given up. A list of servers that was cut short is not taken for
the whole. The list of hazards, each at its line with the properties aimed at
it, is in `PROJECT.json`.

## 2. Modules

| Module | Models | Used by |
|---|---|---|
| `Multipacket` | the pure part of `Collect`: header checks, slots, reassembly, decompression, and the cut by the read buffer (operators) | `Collect`, `A2SClient` |
| `Collect` | one call of `Collect` against a hostile socket | `MCCollect`, `CollectProofs` |
| `QueryService` | abstract: calls served one at a time, refused once shut | `A2SClient` (refinement), `A2SClientProofs` |
| `A2SClient` | the a2s client with transport, challenge, framing and reassembly composed in | `MCA2SClient`, `A2SClientProofs` |
| `SharedConn` | several a2s clients on one socket, with a clock | `MCSharedConn`, `SharedConnProofs` |
| `BufferPool` | the pool of read buffers and its borrowers | `MCBufferPool`, `SharedConnProofs` |
| `Decode` | the three decoders over `protocol.Reader` | `MCDecode`, `DecodeProofs` |
| `Scanner` | the Probe methods: `validateRequest`, `runProbe`, both feeders, the consumer | `MCScanner`, `ScannerProofs` |
| `Address` | addresses as text, and what they become (operators) | `Setup` |
| `Setup` | options, constructors, and the batch a scanner makes its probes from | `MCSetup`, `SetupProofs` |
| `PageStream` | abstract: the servers of a list one by one, at most one error, the end | `MasterClient` (refinement) |
| `MasterClient` | the master client, its cursors and its protocol, with streams and their readers | `MCMasterClient`, `MasterClientProofs` |
| `Pipeline` | a master stream as the input of a scan | `MCPipeline`, `PipelineProofs` |
| `MC*` | the instances TLC checks | the `.cfg` files |
| `*Proofs` | theorems and their proofs | |

An operator commented *Faulty variant* is no part of a model. It is a definition
changed as a plausible bug would change the code, put in the place of the
definition behind it to see that a property notices; `PROJECT.json` pairs them.

### Multipacket and Collect

A fragment is a record of the header fields, with the payload as a sequence of
units (one unit stands for a run of bytes); `Inflate`, `Checksum` and
`MaxPlain` stand for bzip2, CRC-32 and the 2 MiB limit. `Refusal` is the chain
of early returns of the loop (`parseHeader`, `validateCompatible`, bounds,
duplicate), `Stored` the three assignments after it, `Outcome` the tail after
the loop. `Collect` has one action per read: `Store` and `Refuse` take a
datagram and run all the code up to the next read, `ReceiveFails` is a deadline,
context or socket error. `AsRead` cuts a datagram at the buffer (`Room`), as
`conn.Read` does, here and in `A2SClient`. Order comes from choosing any datagram of `net`, loss from
`ReceiveFails`, repetition from `Take`. The ghost `heard` records what was read.

### A2SClient

`pc[q]` is where the goroutine of query `q` is:
`new` (before `ensureUsable`), `lock` (at `mu.Lock`), `send`, `enter` (at the
context check and `SetReadDeadline` of a read), `read` (blocked in it),
`resolve` (in `resolvePacket` with a packet), `returned`. The split points are
those where a goroutine can wait or where another can be seen. `col[q]` is the
local state of `Collect` when the query is inside it; then `enter` and `read`
are those of `receiveNext`, and `ReadError` gives the error code the same
failure has there. `tokens[q]` is the challenge field of the request, which is
all that `ApplyChallenge` changes. `Refused`, `Admitted` and `Lock` are the head
of each Query method; `Return` contains the deferred `Unlock`.

A response is a message with a form: how many cells it has (a cell is a run of
bytes, the first its header), where it is split if it is, and whether what was
split is once more a split packet, which `resolvePacket` then collects again
(`AsPacket`). Every datagram is cut to `Room` cells, so that the end of an answer
may be missing or a hole be left in its middle; whether bytes that are not one
whole message parse is a free choice (`Parses`). The environment: the server
answers each request at most once by a challenge, the right answer in one of
`Forms` or one of `Faults`; `net` is a set, so nothing is ordered; what is never
read is lost; `MaxDups` datagrams come twice; a write or a read may fail on an
open socket. A socket the client did not dial may have had users before:
`Former` is what the target said to them, `Noise` the datagrams that lie in it
from the start, fragments and challenges included, and its owner may close it.

### SharedConn

Each client has its own mutex, so on a shared socket (`NewClientWithConn`)
nothing but the caller keeps two queries apart. Shared are the datagrams, the
read deadline `rd` of the socket, and the lock inside `net.UDPConn` that admits
one reader (`reader`); who waits for that lock (`wait`) looks at no deadline.
`Receive` computes and sets a deadline (`client.go:262-284`), `SetAgain` sets the
one there was, `TooLateToRead` and `ReadTimesOut` are the two ways to run out of
it. Time is `now`; program steps take none, and `Tick` needs every running query
blocked. A datagram may be read and come again (`dups`); a server may ask for a
challenge or answer in two fragments. The behaviours in which `abreast` stays
FALSE are those of a scanner's worker, whose probes are clients of their own in
turns, and which may be given the same server twice.

### BufferPool

`mem` is the memory, an array per number; `Acquire`, `Read`, `ReadFails`,
`Copy` and `Release` are the steps of `Receive` and `ReceiveFrom` around the
pool. The pool may `Forget` arrays (the garbage collector empties a `sync.Pool`)
and give a fresh one though it has some. `held` are the results callers keep.

### Decode

A packet is a sequence of bytes, a whole answer or one cut after any byte.
A decoder is a count (or none), rows of fields, and perhaps the rows of The Ship;
the layouts (`InfoLayout`, `PlayerLayout`, `ShipLayout`, `RuleLayout`) list the
fields in the order the code reads them, a width each, and when they are there
(`Announced`). `LaidOut` is the other side: where a server's answer has the bytes of
each field of its table.
One step reads one field, as `protocol.Reader` does (`AtHand`, `EndOf`, `Value`); `FieldFails` is every
`ErrDecode`, `RulesBreakOff` the tolerated end of a list of rules. A value stays
the bytes it was read from.

### Scanner

`request` is the call: the client, the inputs that are not nil, and whether all
addresses parse; `Begin` is `validateRequest` and what precedes the first
socket. A send on an unbuffered channel is one step with its receive. `parked`
tells whether the feeder is blocked in its select (then the first ready case
wins) or comes to it with several ready cases (then any does). A worker's query
sends, waits and ends one way or another; what is exchanged on the worker's
socket is `A2SClient`, and from one probe to the next `SharedConn`. The consumer
receives until it leaves (`left`). An `Input` that is "error" is a server in a list
and an error on a discovery channel.

### Address and Setup

A text is a host, the brackets around it and what follows the last colon, which
is all that the code looks at; `net.SplitHostPort`, `JoinHostPort` and
`ResolveUDPAddr` are modelled by what they do to those, external. `NormalizeAddress`,
`ParseAddress`, `AddrString` and `CloneServer` are the code's. `Setup` goes
through a constructor (`ApplyOption`, `Normalize`, `Dial`) and, for a scanner,
through the batch (`ParseNext`, `MakeProbeClient`), while names change their
meaning (`DnsChanges`).

### MasterClient

A caller is a goroutine of `Stream` or a call of `Query`; `pc[p]` has the
places of an exchange (`query` before `ensureUsable`, `lock`, `send`, `enter`,
`read`) and, for a stream, those of the delivery: `emit` at the select of
lines 127-131 and 134-138, `parked` blocked in it. `page[p]` is what Query
returned, as far as it has not been delivered: a page and an error take the same
way, an error being one result on a last page. `Turn` is the end of the loop
body: close the channel or move `current.Cursor`. A page is a header that is
right or wrong and a sequence of addresses, with `Zero` (0.0.0.0:0) both the
first seed and the terminator, and `Cut` an address of which bytes are
missing; `AsRead` is the cut by the read buffer, `DecodeResponse` and
`NextCursor` the code's. The master server sends any number of the addresses
behind the seed, the terminator with the last of them or alone, `MaxBlanks`
empty pages and `Faults`; what nobody read in time stays in `net` for the
next query. `left[p]` is a reader that has stopped reading.

### Pipeline

The goroutine of `Stream`, the feeder, the workers and the loop over the results
as `examples/scanner/main.go:108-140` joins them. A page query and a probe are
one step each. `read` are the servers of all pages read so far, and what passes
from hand to hand are their indices, so that a server that comes twice is two
items. `QueryAnswered` is a page behind the cursor, which may hold nothing at
all; `QueryMisled` one that answers another request, late, repeated or of another
caller's list, and the stream goes on behind what it read. Contexts of stream and
scan end apart, or together where they are one; the consumer may leave.

## 3. What is checked

| Run | Instance | Shows | Distinct states |
|---|---|---|---|
| `collect` | 8 responses (plain, compressed, too large, wrong checksum, cut by the buffer), 9 stray datagrams, 1 repetition | `NoPanic`, `Faithful`, `OrderFree`, `CompressedIntact` | 6 359 |
| `a2s_own` | 2 queries of one kind, each with a context that may end, 1 Close, own socket, 1 challenge, 1 repetition, answers cut at their end or in their middle, a split packet in a split packet, wrong answers | `AnswerOfOneResponse`, `OwnAnswer`, `CloseCutsNoExchange`, refinement of `QueryService` | 1.58 million |
| `a2s_shared` | 2 queries of different kinds, 1 Close, a shared socket with a stranger's datagram and a late answer and a late challenge of the target to a former user, fairness | `AnswerFromTarget`, `RetryCarriesToken`; every query and every Close returns | 128 077 |
| `a2s_timeout` | 1 query | violated: see findings | |
| `shared_conn` | 2 clients of one server with timeouts 1 and 2, a context that ends, 1 challenge or 1 repeated datagram, 1 datagram of a stranger | `InItsTime`, `OwnReplyUnlessGivenUp`, `LatestDeadline` | 1.66 million |
| `buffer_pool` | 2 clients with buffers of different size, 3 datagrams, 3 reads | `OneBorrower`, `ResultsIntact` | 634 080 |
| `decode` | 64 A2S_INFO, 8 A2S_PLAYER and 75 A2S_RULES answers, each cut at each byte | reader inside the packet (`TypeOK`), `DecodedAsSent`, `RulesHonest` | 37 455 |
| `scan` | 2 workers, 3 inputs, 7 kinds of request, a discovery channel with an error that may never be closed, cancellation, a socket that cannot be opened, a consumer that may leave | `NoSendOnClosed`, `OneResultEach`, `NothingLeftOpen`, `StreamCloses` | 51 756 |
| `setup` | up to 2 options at their limits, every shape of address, batches of up to 2, names that change once | `FailureLeavesNoSocket`, `ProbeClientsAreMade`, `BatchAsGiven` | 43 752 |
| `master_turns` | 1 stream, 1 query, 1 Close, 1 repetition, late pages, a buffer that ends inside an address, wrong pages | `DeliversTheList`, `CloseCutsNoExchange`, `EndsForAReason` | 2.58 million |
| `master_alone` | 1 stream, cut pages, 1 empty page, cancellation, a reader that leaves, 1 Close, 2 queries that need no exchange, fairness | refinement of `PageStream`; the stream and Close come to their end | 220 232 |
| `pipeline` | 2 servers in pages of 2, 1 page that answers another request, blank pages, 2 workers, failures, cancellation, a consumer that leaves, fairness | `NoSilentEnd`, `BothEnd`, `EachEndsByItsContext` | 225 560 |

Each property has a mutant in `PROJECT.json` for which TLC finds it violated.

**Why the bounds are enough.** Two queries are what it takes for one to disturb
another, and a third would meet the same leftovers. The challenge of
`a2s_own` adds a token to a request without one; the late one in `a2s_shared` adds
one to the A2S_INFO request or replaces that of the A2S_RULES request. A buffer of two cells cuts an answer of three at its end and the
first half of one of four in its middle. Two fragments let a response be half
read; three slots let `Collect` meet every order that is not just a swap. One
repeated datagram is the smallest that breaks something. Two workers race with
each other and with the feeder, and with three inputs one of them has two.
A list of three servers in pages of one or two has a first, a middle and a last
page, and a buffer of two addresses loses the terminator behind them; a second
caller is enough to leave a page behind for the first. Timeouts of one and two
ticks make one deadline fall inside the other's wait, on either side of a context
that ends. Two buffer sizes let an array be too small, or be longer than what is
read into it, and three reads let one be given back, taken again and compared
with an older result. The answers of `decode` hold every part, field and number
of rows up to three, and each byte of them is a place to be cut at. Two options
let one follow another; every limit is tried on both sides.

**Fairness.** `A2SClient`: weak fairness for a running query, since the Go
scheduler runs every runnable goroutine and a blocked read ends by its deadline
(`client.go:278-284`); strong fairness for `Lock` and `Close`, since
`sync.Mutex` goes into starvation mode after 1 ms and then hands over in order.
None for the server, the network, `Cancel` or the start of a call. `Scanner`:
weak fairness for every goroutine's steps and for the consumer, which reads until
it leaves; none for the context, nor that the upstream ever closes its channel.
`MasterClient`: as `A2SClient`, and the reader of a stream reads until it leaves;
none for the master server. `Pipeline`: as `Scanner`, and a page query and a probe
end, which they do by their deadlines; stray and blank pages come to an end.

Deadlock is checked in every run: the only states without a real step are those
where all calls have returned, or, in a scan, where the stream is closed, was
never opened, or somebody waits for a silent upstream or a consumer that has
left, or, for the master client, a stream waits for a reader that has left.

### Findings

* `a2s_timeout`: a deadline or context that ends inside `Collect` is reported as
  `decode`, not `timeout` (`client.go:245`, `348-349`; `client_test.go:495`).

### What the properties show to be weak

`OwnAnswer` holds only under `Undisturbed`: after a query that timed out, the
next of the same kind may get the late answer to the first. Nor does it hold on
a lent socket that still held packets of the same server (`FreshSocket`): there
`AnswerFromTarget` says no more than that the answer is to some request that
reached the server. `OwnReplyUnlessGivenUp` says the same of the probes of a
worker: each gets its own reply until one that asked the same server gives up.
An answer may lack bytes, at its end or, when it was split, in its middle, if its
datagrams are longer than `maxPacketSize`: `AnswerOfOneResponse` excludes every
other loss. `OrderFree` holds only without repetition: a repeated fragment fails
its query.

`EveryCallReturns` holds because the server sends finitely many challenges:
`resolvePacket` has no bound of its own and each round has a new deadline, which
is why `InItsTime` counts rounds. Clients that query one socket abreast lose
replies to each other and end at each other's deadlines: `InItsTime` and
`OwnReplyUnlessGivenUp` hold in turns only, and abreast there remains
`LatestDeadline`.

`EveryCallEnds` holds because the master server sends finitely many empty pages,
and excepts the reader that leaves without ending its context: its goroutine
stays. Neither `DeliversTheList` nor the refinement of `PageStream` holds once a
page was left in the socket: from then on each query may read the page of the one
before it, servers come twice or from another list, or the stream ends early
without an error. What remains is `EndsForAReason`, and for a scan of the stream
`NoSilentEnd`: the servers of every page read have each one result, and the
terminator was read or an error shown; that they are the servers of the list
takes `strays = 0`.

A consumer that leaves a scan blocks it for ever if somebody has a result for it,
also after cancellation (`StreamCloses` and `EachEndsByItsContext` state the
exception). If a worker's socket cannot be opened, the workers before it stay
(`OpenFails`). After cancellation the feeder may still hand a server to an idle
worker, as its select chooses freely (`scanner/client.go:203-206`); `HandOver`
allows it, and nothing else depends on it. A scan whose own context ends leaves
the goroutine of its stream behind, and a stream whose own context ends closes
without an error, which a scan with another context takes for the end of the
list: hence `ended = {}` in `NoSilentEnd`.

Of addresses and options: an IPv6 server, or one without an IP, is written as
0.0.0.0 by `ServerAddr.String`, and that is what a scan probes; `[]` passes the
test for an empty host with another text (`client.go:294-302`); an IPv6 address in
brackets without a port is refused; the a2s option refuses packet sizes below
1024 with a message that says 512 (`options.go:41-43`).

## 4. What is proved

Every safety property of section 3 is a theorem, and so are both refinements and the
action property. The theorems hold for every value of the
constants that satisfies the modules' assumptions (`ClientAssumption`,
`FormsAssumption`, `NoiseAssumption`, `CollectAssumption`, `MaxPlainAssumption`,
`MasterAssumption`, `ListAssumption`, `ScannerAssumption`, `PipelineAssumption`, `DecodeAssumption`,
`SharedAssumption`, `PoolAssumption`, `AddressAssumption`, `SetupAssumption`): any
number of queries, closers, workers, inputs, readers, responses, fragments, pages,
faults, repetitions, options, texts and names, and any bytes. TLC evaluates each
assumption on the instance it checks. Four theorems state a hypothesis of their own:

| Theorem | Hypothesis | Why it is needed |
|---|---|---|
| `StreamsImplementList` | `Alone`: one stream, no other exchange, no repetition | otherwise it is false (section 3, "weak") |
| `CollectTyped` | `InflateYieldsUnits` | `Inflate` is a constant, and stands for bzip2 |
| `CompressedStaysIntact` | `ChecksumTells`: fragments that fit together but belong to no compressed response do not inflate to the announced size and checksum | that is all a checksum is for; `NeverBeyondTheLimit` does without |
| `DecodesWhatWasSent` | `Sending`: there are positions at which each answer is laid out field behind field (`LaidOut`; `MCDecode` names them for its answers, and TLC evaluates them) | to say what was sent, the bytes of an answer must be those of its table |

* `A2SClientProofs`, the control: `ControlTyped`, `CloseWaits`
  (`CloseCutsNoExchange`), `RequestsContiguous` (`Uninterleaved`),
  `ClientImplementsService` (`ServesOneAtATime`). One inductive invariant `IInv`
  serves all four: the mutex is held exactly by the query that is exchanging
  (`LockInv`); a query that has sent is past the lock (`Senders`), and while it
  exchanges its requests are the tail of what was sent (`Suffix`); a dialled socket
  stays open from a query's first request to its return (`SocketInv`, which is what
  makes `CloseCutsNoExchange` inductive). The many actions of an exchange are first
  sorted into three kinds (`ExchangeKinds`): a move inside the exchange, its end, and
  the sending of a request. The refinement maps each kind to a step of `QueryService`
  or to a stutter. `ServiceContiguous` is about `QueryService` itself: its invariant
  adds that one call is active, and that the active call, once it has sent, is the
  last to have sent.
* `A2SClientProofs`, the data: `Typed` (`TypeOK`), `FromTarget` (`AnswerFromTarget`),
  `OneResponse` (`AnswerOfOneResponse`), `OwnAnswers` (`OwnAnswer`), `RetriesCarryToken`
  (`RetryCarriesToken`). What a datagram of the server can be is a question of what
  the server has said, which is no variable of the model; the invariant `FullInv`
  quantifies it away: there is a function `said` from requests to messages such that
  every datagram of the target is a part of what was said to a request that was
  served or to a former user's, and every packet in hand and every half collection
  what the read buffer left of such a part (`DataInv`; two halves with one id are then
  halves of one message, which is what makes an answer one response), and such that,
  as long as every exchange has ended with a reply and nothing was repeated, the
  socket holds nothing but what is left of the reply to the last request (`Tidy`).
  `TokenInv` follows the token from the challenge to the next request.
* `CollectProofs`: `NeverPanics`, `ReturnsTheResponse` (`Faithful`),
  `OrderDoesNotMatter` (`OrderFree`), `CollectTyped` (`TypeOK`),
  `NeverBeyondTheLimit`, `CompressedStaysIntact` (`CompressedIntact`). The invariant
  says that the slots filled lie within the total and are counted (`Slots`; with it,
  a count equal to the total leaves no slot empty, by cardinality), that as long as
  only genuine fragments were heard each slot holds the chunk of the first one's
  response (`HoldsInv`), that when those of one response were heard once each, the
  slots are exactly theirs, so the next is never refused (`OrderInv`), and that
  whatever was heard, what is in a slot was heard with the first fragment's header
  and that slot's number (`FromHeard`). The assumption that ids are unique among the
  responses in flight is what keeps two responses apart. The type of what
  `FlattenSeq` returns needs an induction, which `SetInduction` gets from the
  finiteness of an interval.
* `MasterClientProofs`: `MasterTyped` (`TypeOK`), `MasterCloseWaits`
  (`CloseCutsNoExchange`), `StreamsEndForAReason` (`EndsForAReason`), and with the
  data `StreamsDeliver` (`DeliversTheList`), `StreamsImplementList`
  (`StreamsTheList`). `TypeOK` says of the decoder that neither the terminator nor a
  cut address gets through; it rests on lemmas about `AsRead`, `DecodeResponse` and
  `PageOf`. The invariant adds that the mutex is held exactly by the caller that is
  exchanging, and that an error stands alone on a last page, so that once it is
  delivered nothing is left to deliver (`StreamInv`). For the list it says that as
  long as no page was left behind (`Quiet`) a datagram in the socket answers the
  request of the one who waits (`NetInv`), and that what a stream has delivered, what
  is on its page and its cursor fit end to end into the list (`StreamData`). The
  refinement maps the page to what `PageStream` has yet to give.
* `ScannerProofs`: `ScannerTyped` (`TypeOK`), `NeverSendsOnClosed`
  (`NoSendOnClosed`), `EveryInputReportedOnce` (`OneResultEach`),
  `ClosedLeavesNothing` (`NothingLeftOpen`).
  The invariant says how far `runProbe` is and what that means for a worker and
  its socket (`Stages`), in which order the channels close (`Closing`), and that
  every input the feeder has left behind was reported or is with exactly one
  worker (`Accounts`): without the second half, "one result each" could not
  survive the step that delivers.
* `PipelineProofs`: `NeverEndsSilently` (`NoSilentEnd`). The page holds the last
  items that were read (`PageInv`); an item taken from it is with the feeder, with one
  worker or reported, and in one of these places only (`Apart`, `NothingLost`); the
  error of a failed query is with the stream, the feeder or the consumer (`ErrorInv`,
  `EmitInv`); without stray pages what was read is the front of the list (`ListInv`);
  the results close behind all of them (`EndInv`).
* `SetupProofs`: `FailuresLeaveNoSocket` (`FailureLeavesNoSocket`),
  `EveryProbeClientIsMade` (`ProbeClientsAreMade`), `BatchesAsGiven` (`BatchAsGiven`).
  What the options have let through, the same options accept again (`Accepted`); what
  `AddrString` writes, `NormalizeAddress` and `Resolve` take back to the same target
  (`WrittenIsTakenBack`), whatever the names have come to mean; the texts parsed so
  far are the servers so far (`BatchInv`).
* `DecodeProofs`: `ReaderStaysInside` (`TypeOK`), `TruncatedIsHonest`
  (`RulesHonest`), for any bytes. The invariant adds where in its row the decoder
  is (`Placed`), and that the map of rules has as many keys as rows unless one
  came twice (`Counted`), which is the comparison the code makes at the end.
  `DecodesWhatWasSent` (`DecodedAsSent`), for answers that a server laid out: no layout
  is summed up, because `LaidOut` says for every row and field where its bytes begin,
  and that the next begins where they end. `SentInv` then says that the rows read are
  the table's first, the fields read the next row's first, and that the reader is at
  the position of the field it comes to (`At`, `Going`). A text is read to the byte
  where it was ended, since it has no other NUL (`ReadAsSent`); whether a field is
  there can be told from those read before it, which needs the order of the layouts
  (`GoodLayout`, `WantedIsSent`). The three ends follow: a field of a whole answer is
  always at hand, A2S_INFO without a flag is its head (`HeadIsAll`), and The Ship's
  part begins exactly where the players end (`RowsReadSent`).
* `SharedConnProofs`, the socket: `LatestDeadlineAlways` (`LatestDeadline`),
  `OwnReplyAlways` (`OwnReplyUnlessGivenUp`), `InItsTimeAlways` (`InItsTime`), for any
  number of clients, targets, timeouts and contexts.
  The invariant says of which request a datagram is the answer (`Answering`), that in
  turns, where nobody gave up, a query that has returned is owed nothing and one that
  waits nothing but the rest of the reply to its last request (`Tidy`), that a
  query's deadline never moves back and the socket's is always some query's
  (`Deadlines`; so while a reader is blocked time cannot pass the latest of them),
  and, for queries in turns, that the socket's deadline is that of the one in the
  read and its distance to the query's start is paid for by its rounds (`OnTime`).
* `SharedConnProofs`, the buffers: `PoolTyped`, `BorrowedOnce` (`OneBorrower`),
  `ResultsStay` (`ResultsIntact`), theorems about `BufferPool`, whose state machine
  stands there beside that of the socket. An array is in the pool, with one reader or
  in a result, and never in two of these (`HeldApart`); what a reader is about to copy is still what it read (`AtFront`).

Only model-checked: liveness (`EveryCallReturns`, `StreamCloses`, `EveryCallEnds`,
`BothEnd`, `EachEndsByItsContext`), which TLAPS does not prove under fairness.

## 5. What is not modelled

* The bytes of requests and of headers; of answers `Decode` has all of them, but
  what a number or a text means is left as its bytes.
* Time outside `SharedConn`: elsewhere a deadline may pass at any moment of a
  blocked read.
* How the master protocol writes an address, and its filters, but for the
  refusal of a NUL.
* How `net` takes an address apart and what a name service answers.
* `String` and `Error` methods, and the declarations of types, which only write
  or hold text; the error codes are outcomes of the models.
* The examples but for the way one joins a stream to a scan: they call one
  function after the other, or play a server.

## 6. Plan

Done, in this order: `Multipacket`, `Collect`, `QueryService`, `A2SClient`,
`Scanner`; `PageStream`, `MasterClient`; `Decode`, `BufferPool`, `SharedConn`;
the requests and the leaving consumer of `Scanner`; `Address`, `Setup`;
`Pipeline`; the proofs of the control of every module; the proofs about their data.

Open: the liveness properties, as theorems; they wait for a prover that takes
fairness.
