----------------------------- MODULE BufferPool -----------------------------
(* The read buffers of internal/transport/transport.go: one sync.Pool for   *)
(* all sockets of the process, from which every Receive and ReceiveFrom     *)
(* borrows a buffer for one datagram. Readers are goroutines of different   *)
(* clients; no lock is common to them.                                      *)
(*                                                                          *)
(* mem is the memory: an array per number, never freed, so that a slice     *)
(* that outlives its use still shows what is in its array. A datagram is a  *)
(* sequence of units. The specification has names of its own, so that it    *)
(* can stand beside that of a socket (SharedConnProofs).                    *)
EXTENDS Integers, Sequences

CONSTANTS
    Readers,
    Size,         \* Size[r]: maxPacketSize of r's client
    Datagrams,    \* what may arrive
    MaxReads      \* bound: buffers borrowed in all

ASSUME PoolAssumption ==
    /\ Size \in [Readers -> Nat]
    /\ Datagrams \subseteq Seq(Nat)
    /\ MaxReads \in Nat

VARIABLES
    mem,     \* the arrays
    pool,    \* the arrays in readBufferPool
    at,      \* per reader: "idle" | "read" | "copy" | "release"
    buf,     \* per reader: the array it borrowed, 0 for none
    seen,    \* ghost, per reader: the datagram its last read took
    held,    \* what readers returned: [array, len, was], `was` being ghost
    reads

poolVars == <<mem, pool, at, buf, seen, held, reads>>

PoolInit ==
    /\ mem = <<>> /\ pool = {}
    /\ at = [r \in Readers |-> "idle"]
    /\ buf = [r \in Readers |-> 0]
    /\ seen = [r \in Readers |-> <<>>]
    /\ held = {}
    /\ reads = 0
-----------------------------------------------------------------------------
Fresh == Len(mem) + 1

Zeros(n) == [i \in 1 .. n |-> 0]

AsRead(d, size) == SubSeq(d, 1, IF Len(d) < size THEN Len(d) ELSE size)

Overwrite(array, d) == [i \in DOMAIN array |-> IF i <= Len(d) THEN d[i] ELSE array[i]]

(* make([]byte, size), when the pool gave nothing or too little.            *)
Make(r) ==
    /\ mem' = Append(mem, Zeros(Size[r]))
    /\ buf' = [buf EXCEPT ![r] = Fresh]

(* acquireReadBuffer. Get takes an array out of the pool, or makes an empty *)
(* one, even when the pool has some. An array that is too small is dropped. *)
Acquire(r) ==
    /\ at[r] = "idle" /\ reads < MaxReads
    /\ reads' = reads + 1
    /\ at' = [at EXCEPT ![r] = "read"]
    /\ \/ \E b \in pool :
             /\ pool' = pool \ {b}
             /\ IF Len(mem[b]) < Size[r] THEN Make(r)
                ELSE buf' = [buf EXCEPT ![r] = b] /\ UNCHANGED mem
       \/ Make(r) /\ UNCHANGED pool
    /\ UNCHANGED <<seen, held>>

(* conn.Read: the datagram, as much of it as fits, at the front of          *)
(* buf[:size]. ReceiveFrom stays in its loop if another host sent it.       *)
Read(r, d) ==
    /\ at[r] = "read"
    /\ seen' = [seen EXCEPT ![r] = AsRead(d, Size[r])]
    /\ mem' = [mem EXCEPT ![buf[r]] = Overwrite(@, AsRead(d, Size[r]))]
    /\ \/ at' = [at EXCEPT ![r] = "copy"]
       \/ UNCHANGED at
    /\ UNCHANGED <<pool, buf, held, reads>>

(* Faulty variant: the buffer is put back here, and again by the defer. *)
ReadFailsReleasing(r) ==
    /\ at[r] = "read"
    /\ at' = [at EXCEPT ![r] = "release"]
    /\ pool' = pool \cup {buf[r]}
    /\ UNCHANGED <<mem, buf, seen, held, reads>>

(* A deadline or a socket error: return nil, after the deferred release.    *)
ReadFails(r) ==
    /\ at[r] = "read"
    /\ at' = [at EXCEPT ![r] = "release"]
    /\ UNCHANGED <<mem, pool, buf, seen, held, reads>>

(* Faulty variant: buf[:n] is returned without a copy. *)
CopyShared(r) ==
    /\ at[r] = "copy"
    /\ held' = held \cup {[array |-> buf[r], len |-> Len(seen[r]), was |-> seen[r]]}
    /\ at' = [at EXCEPT ![r] = "release"]
    /\ UNCHANGED <<mem, pool, buf, seen, reads>>

(* out := make([]byte, n); copy(out, buf[:n]); return out.                  *)
Copy(r) ==
    /\ at[r] = "copy"
    /\ mem' = Append(mem, SubSeq(mem[buf[r]], 1, Len(seen[r])))
    /\ held' = held \cup {[array |-> Fresh, len |-> Len(seen[r]), was |-> seen[r]]}
    /\ at' = [at EXCEPT ![r] = "release"]
    /\ UNCHANGED <<pool, buf, seen, reads>>

(* The deferred releaseReadBuffer.                                          *)
Release(r) ==
    /\ at[r] = "release"
    /\ pool' = pool \cup {buf[r]}
    /\ buf' = [buf EXCEPT ![r] = 0]
    /\ at' = [at EXCEPT ![r] = "idle"]
    /\ UNCHANGED <<mem, seen, held, reads>>

(* The garbage collector empties the pool as it likes.                      *)
Forget(b) ==
    /\ b \in pool
    /\ pool' = pool \ {b}
    /\ UNCHANGED <<mem, at, buf, seen, held, reads>>

AllRead == reads = MaxReads /\ (\A r \in Readers : at[r] = "idle") /\ UNCHANGED poolVars

PoolNext ==
    \/ \E r \in Readers :
          \/ Acquire(r) \/ ReadFails(r) \/ Copy(r) \/ Release(r)
          \/ \E d \in Datagrams : Read(r, d)
    \/ \E b \in pool : Forget(b)
    \/ AllRead

PoolSpec == PoolInit /\ [][PoolNext]_poolVars
-----------------------------------------------------------------------------
(* Every variable has its type (transport.go:10-14, 29-44).                 *)
TypeOK ==
    /\ mem \in Seq(Seq(Nat))
    /\ pool \subseteq DOMAIN mem
    /\ at \in [Readers -> {"idle", "read", "copy", "release"}]
    /\ buf \in [Readers -> 0 .. Len(mem)]
    /\ seen \in [Readers -> Seq(Nat)]
    /\ \A h \in held : h.array \in DOMAIN mem /\ h.len \in 0 .. Len(mem[h.array])
    /\ reads \in 0 .. MaxReads

(* No array is borrowed by two readers, nor handed out again while one      *)
(* still has it, so no two of them read into the same bytes (transport.go:  *)
(* 36-37, 83-96).                                                           *)
OneBorrower ==
    \A r, s \in Readers :
        buf[r] # 0 => buf[r] \notin pool /\ (r # s => buf[r] # buf[s])

(* What a reader has returned stays the datagram it read, whoever reads     *)
(* into the pool's buffers afterwards, and shows nothing that an earlier    *)
(* and longer datagram left in the buffer (transport.go:42-44, 76-78).      *)
ResultsIntact ==
    \A h \in held : SubSeq(mem[h.array], 1, h.len) = h.was
=============================================================================
