----------------------------- MODULE PromptQueue -----------------------------
(* The queue of prompts of one session as its clients reach it: prompts       *)
(* written to fifo.in through the write buffer of a fid (server.go 997-1015), *)
(* flushed by a goroutine when the fid is clunked (1111-1132) and queued at   *)
(* the core; fifo.out, whose Read pops the queue (sessionfile.go 101-107),    *)
(* read through storeReadCtx (server.go 339-359), which gives up on a read    *)
(* without stopping it; and walks and stats, which learn the size of fifo.out *)
(* by reading it (runfilestore.go 57-74).                                     *)
EXTENDS Naturals, Sequences, FiniteSets, SequencesExt

CONSTANTS MaxMsgs,   \* prompts, written by one client one after the other
          MaxParts,  \* bound on the Twrites of a prompt
          Readers,   \* opens of fifo.out
          Count,     \* count of a Tread, in parts
          MaxStats,  \* bound on the stats
          MaxDrops   \* bound on the reads given up

Msgs == 1..MaxMsgs
ASSUME BoundsNat == {MaxMsgs, MaxParts, Count, MaxStats, MaxDrops} \subseteq Nat
\* A read that asks for nothing would pop a prompt and answer none of it.
ASSUME ReadsAsk == Count > 0

VARIABLES
    wrote,   \* prompt -> the Twrites answered
    buf,     \* prompt -> writeBuf of its fid: 0 where nothing was written yet
    wpc,     \* prompt -> "open", "flushing" or "flushed"
    queue,   \* the core's queue
    rpc,     \* reader -> "new", "walked", "reading", "read" or "done"
    fetch,   \* reader -> the goroutine of its read: "none", "run" or "popped"
    item,    \* reader -> what that goroutine popped (<<>>: nothing)
    got,     \* reader -> what it received, part by part
    orphans, \* goroutines of abandoned reads that have not popped yet
    taken,   \* prompts the core took to run them
    wasted,  \* history: prompts popped by a walk or a stat
    dropped, \* history: prompts popped by an abandoned read
    statting, \* stats between their two looks at the size
    stats, drops \* for the bounds

writing == <<wrote, buf, wpc>>
fetching == <<rpc, fetch, item, got>>
vars == <<wrote, buf, wpc, queue, rpc, fetch, item, got, orphans, taken, wasted, dropped,
          statting, stats, drops>>

Init ==
    /\ wrote = [m \in Msgs |-> {}]
    /\ buf = [m \in Msgs |-> <<>>]
    /\ wpc = [m \in Msgs |-> "open"]
    /\ queue = <<>>
    /\ rpc = [r \in Readers |-> "new"]
    /\ fetch = [r \in Readers |-> "none"]
    /\ item = [r \in Readers |-> <<>>]
    /\ got = [r \in Readers |-> <<>>]
    /\ orphans = 0 /\ taken = {} /\ wasted = {} /\ dropped = {}
    /\ statting = 0 /\ stats = 0 /\ drops = 0

\* The k-th part of prompt m; an item of the queue is a sequence of parts.
Part(m, k) == [msg |-> m, k |-> k]
Owner(it) == it[1].msg

-----------------------------------------------------------------------------
(* fifo.in *)

\* Mutant: the grown buffer is not filled from the old one.
StoreFresh(b, k) == [i \in 1..(IF k > Len(b) THEN k ELSE Len(b)) |->
                        IF i = k THEN k ELSE IF k <= Len(b) THEN b[i] ELSE 0]

\* The buffer grows to the end of the data, keeping what it held.
Store(b, k) == [i \in 1..(IF k > Len(b) THEN k ELSE Len(b)) |->
                    IF i = k THEN k ELSE IF i <= Len(b) THEN b[i] ELSE 0]

\* The Twrites of one prompt are on the wire together and handled in any order.
Write(m, k) ==
    /\ wpc[m] = "open" /\ \A n \in 1..m-1 : wpc[n] # "open"
    /\ k \notin wrote[m]
    /\ wrote' = [wrote EXCEPT ![m] = @ \union {k}]
    /\ buf' = [buf EXCEPT ![m] = Store(@, k)]
    /\ UNCHANGED <<wpc, queue, fetching, orphans, taken, wasted, dropped, statting, stats, drops>>

\* Mutant: the buffer is flushed with the clunk and again by the goroutine.
ClunkAndFlush(m) ==
    /\ wpc[m] = "open" /\ \A n \in 1..m-1 : wpc[n] # "open"
    /\ \E k \in 0..MaxParts : wrote[m] = 1..k
    /\ wpc' = [wpc EXCEPT ![m] = "flushing"]
    /\ queue' = IF buf[m] = <<>> THEN queue
                ELSE Append(queue, [i \in 1..Len(buf[m]) |-> Part(m, buf[m][i])])
    /\ UNCHANGED <<wrote, buf, fetching, orphans, taken, wasted, dropped, statting, stats, drops>>

\* The client clunks when its writes are answered; the Rclunk does not wait for
\* the flush.
Clunk(m) ==
    /\ wpc[m] = "open" /\ \A n \in 1..m-1 : wpc[n] # "open"
    /\ \E k \in 0..MaxParts : wrote[m] = 1..k
    /\ wpc' = [wpc EXCEPT ![m] = "flushing"]
    /\ UNCHANGED <<wrote, buf, queue, fetching, orphans, taken, wasted, dropped, statting, stats, drops>>

\* handleWrite and the Write of fifo.in; an empty prompt is not queued.
Flush(m) ==
    /\ wpc[m] = "flushing"
    /\ wpc' = [wpc EXCEPT ![m] = "flushed"]
    /\ queue' = IF buf[m] = <<>> THEN queue
                ELSE Append(queue, [i \in 1..Len(buf[m]) |-> Part(m, buf[m][i])])
    /\ UNCHANGED <<wrote, buf, fetching, orphans, taken, wasted, dropped, statting, stats, drops>>

\* The core takes the next prompt when a turn is over.
CoreTake ==
    /\ queue # <<>>
    /\ taken' = taken \union {Owner(Head(queue))}
    /\ queue' = Tail(queue)
    /\ UNCHANGED <<writing, fetching, orphans, wasted, dropped, statting, stats, drops>>

-----------------------------------------------------------------------------
(* fifo.out *)

\* PopQueue.
Popped == IF queue = <<>> THEN <<>> ELSE Head(queue)
Rest == IF queue = <<>> THEN <<>> ELSE Tail(queue)
OwnersOf(it) == IF it = <<>> THEN {} ELSE {Owner(it)}

\* RunFileStore.stat: without a Size function the file is read.
SizeByReading ==
    /\ wasted' = wasted \union OwnersOf(Popped)
    /\ queue' = Rest

\* A walk to the file asks pathType, which asks stat.
Walk(r) ==
    /\ rpc[r] = "new"
    /\ SizeByReading
    /\ rpc' = [rpc EXCEPT ![r] = "walked"]
    /\ UNCHANGED <<writing, fetch, item, got, orphans, taken, dropped, statting, stats, drops>>

\* makeStat asks twice: pathType whether the file is there, and, as the length
\* is still 0, stat again.
Stat(r) ==
    /\ rpc[r] \in {"walked", "read"}
    /\ stats < MaxStats /\ stats' = stats + 1
    /\ SizeByReading
    /\ statting' = statting + 1
    /\ UNCHANGED <<writing, fetching, orphans, taken, dropped, drops>>

StatLength ==
    /\ statting > 0
    /\ SizeByReading
    /\ statting' = statting - 1
    /\ UNCHANGED <<writing, fetching, orphans, taken, dropped, stats, drops>>

ReadStart(r) ==
    /\ rpc[r] = "walked"
    /\ rpc' = [rpc EXCEPT ![r] = "reading"]
    /\ fetch' = [fetch EXCEPT ![r] = "run"]
    /\ UNCHANGED <<writing, queue, item, got, orphans, taken, wasted, dropped, statting, stats, drops>>

Fetch(r) ==
    /\ fetch[r] = "run"
    /\ item' = [item EXCEPT ![r] = Popped]
    /\ queue' = Rest
    /\ fetch' = [fetch EXCEPT ![r] = "popped"]
    /\ UNCHANGED <<writing, rpc, got, orphans, taken, wasted, dropped, statting, stats, drops>>

To(data, end) == IF end > Len(data) THEN Len(data) ELSE end

\* readSlice: what of an item a reply carries.
Slice(data, off) == IF off < Len(data) THEN SubSeq(data, off + 1, To(data, off + Count)) ELSE <<>>

ReadReply(r) ==
    /\ rpc[r] = "reading" /\ fetch[r] = "popped"
    /\ got' = [got EXCEPT ![r] = @ \o Slice(item[r], Len(@))]
    /\ rpc' = [rpc EXCEPT ![r] = IF got'[r] = got[r] THEN "done" ELSE "read"]
    /\ fetch' = [fetch EXCEPT ![r] = "none"]
    /\ item' = [item EXCEPT ![r] = <<>>]
    /\ UNCHANGED <<writing, queue, orphans, taken, wasted, dropped, statting, stats, drops>>

\* The read is flushed or times out.  The goroutine goes on: what it popped, or
\* pops later, reaches nobody.  The client may read again.
ReadAbandon(r) ==
    /\ rpc[r] = "reading"
    /\ drops < MaxDrops /\ drops' = drops + 1
    /\ orphans' = IF fetch[r] = "run" THEN orphans + 1 ELSE orphans
    /\ dropped' = dropped \union OwnersOf(item[r])
    /\ rpc' = [rpc EXCEPT ![r] = "walked"]
    /\ fetch' = [fetch EXCEPT ![r] = "none"]
    /\ item' = [item EXCEPT ![r] = <<>>]
    /\ UNCHANGED <<writing, queue, got, taken, wasted, statting, stats>>

OrphanPop ==
    /\ orphans > 0
    /\ orphans' = orphans - 1
    /\ dropped' = dropped \union OwnersOf(Popped)
    /\ queue' = Rest
    /\ UNCHANGED <<writing, fetching, taken, wasted, statting, stats, drops>>

\* Mutant: the next read pops again, whatever its offset.
ReadOn(r) ==
    /\ rpc[r] = "read"
    /\ rpc' = [rpc EXCEPT ![r] = "reading"]
    /\ fetch' = [fetch EXCEPT ![r] = "run"]
    /\ UNCHANGED <<writing, queue, item, got, orphans, taken, wasted, dropped, statting, stats, drops>>

\* A read at an offset above 0 is the client looking for the end of the file.
ReadEof(r) ==
    /\ rpc[r] = "read"
    /\ rpc' = [rpc EXCEPT ![r] = "done"]
    /\ UNCHANGED <<writing, queue, fetch, item, got, orphans, taken, wasted, dropped, statting, stats, drops>>

Next ==
    \/ \E m \in Msgs : Clunk(m) \/ Flush(m) \/ \E k \in 1..MaxParts : Write(m, k)
    \/ \E r \in Readers :
        Walk(r) \/ Stat(r) \/ ReadStart(r) \/ Fetch(r) \/ ReadReply(r) \/ ReadAbandon(r) \/ ReadEof(r)
    \/ StatLength \/ OrphanPop \/ CoreTake

Spec == Init /\ [][Next]_vars

-----------------------------------------------------------------------------
Parts == [msg : Msgs, k : 0..MaxParts]

TypeOK ==
    /\ wrote \in [Msgs -> SUBSET (1..MaxParts)]
    /\ \A m \in Msgs : buf[m] \in Seq(0..MaxParts) /\ Len(buf[m]) <= MaxParts
    /\ wpc \in [Msgs -> {"open", "flushing", "flushed"}]
    /\ queue \in Seq(Seq(Parts))
    /\ rpc \in [Readers -> {"new", "walked", "reading", "read", "done"}]
    /\ fetch \in [Readers -> {"none", "run", "popped"}]
    /\ item \in [Readers -> Seq(Parts)]
    /\ \A r \in Readers : got[r] \in Seq(Parts) /\ Len(got[r]) <= Count
    /\ orphans \in 0..MaxDrops /\ statting \in 0..MaxStats
    /\ taken \subseteq Msgs /\ wasted \subseteq Msgs /\ dropped \subseteq Msgs

\* The prompt m as its client wrote it.
Sent(m) == [k \in 1..Cardinality(wrote[m]) |-> Part(m, k)]

\* Whatever order the Twrites of a prompt were handled in, what is queued, on
\* its way to a reader or received is what the client wrote: no hole, no piece
\* of another prompt, and cut only at the count of the read.
PromptsIntact ==
    /\ \A i \in 1..Len(queue) : queue[i] = Sent(Owner(queue[i]))
    /\ \A r \in Readers :
        /\ item[r] # <<>> => item[r] = Sent(Owner(item[r]))
        /\ got[r] # <<>> => got[r] = Slice(Sent(Owner(got[r])), 0)

\* The places a prompt can have come to.
Places(m) ==
    {<<"queue", i>> : i \in {j \in 1..Len(queue) : Owner(queue[j]) = m}}
    \union {<<"held", r>> : r \in {s \in Readers : item[s] # <<>> /\ Owner(item[s]) = m}}
    \union {<<"got", r>> : r \in {s \in Readers : \E i \in 1..Len(got[s]) : got[s][i].msg = m}}
    \union {<<"core", 0>> : n \in {m} \intersect taken}
    \union {<<"wasted", 0>> : n \in {m} \intersect wasted}
    \union {<<"dropped", 0>> : n \in {m} \intersect dropped}

\* A prompt goes to one place: it is never run twice, nor read and run, though
\* the core, the readers, stats and abandoned reads compete for the queue; and
\* once its flush is over it is accounted for.  One that a stat, a walk or an
\* abandoned read popped is accounted for as wasted or dropped, and is lost to
\* everybody, against "pop the next queued prompt" (README.md 56): the property
\* allows this, and says there is no other way for a prompt to disappear.
PromptsInOnePlace ==
    \A m \in Msgs :
        Cardinality(Places(m)) = IF wpc[m] = "flushed" /\ wrote[m] # {} THEN 1 ELSE 0

\* An open of fifo.out receives at most one prompt: the read that looks for the
\* end of the file does not pop the next one, and a reader that has its prompt
\* has no other on the way.
OnePromptPerOpen ==
    \A r \in Readers :
        /\ \A i, j \in 1..Len(got[r]) : got[r][i].msg = got[r][j].msg
        /\ got[r] # <<>> => fetch[r] = "none" /\ item[r] = <<>>

\* Together: what an open of fifo.out gets is typed, no longer than the count of
\* its read, and of one prompt (server.go 929-932, 964-985).
OpenGetsOne == TypeOK /\ OnePromptPerOpen
=============================================================================
