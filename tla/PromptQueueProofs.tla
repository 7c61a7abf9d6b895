-------------------------- MODULE PromptQueueProofs --------------------------
(* Proofs about PromptQueue for any number of prompts, parts, readers, stats  *)
(* and abandoned reads, and any count of the reads.                           *)
EXTENDS PromptQueue, SequenceTheorems, FiniteSetTheorems, TLAPS

(* A buffer ends with the last part that was written and holds a part where   *)
(* one was, 0 elsewhere; the client clunks when there is no hole.             *)
Buffered ==
    \A m \in Msgs :
        /\ wrote[m] \subseteq 1 .. Len(buf[m])
        /\ Len(buf[m]) > 0 => Len(buf[m]) \in wrote[m]
        /\ \A i \in 1 .. Len(buf[m]) : buf[m][i] = IF i \in wrote[m] THEN i ELSE 0
        /\ wpc[m] # "open" => \E k \in 0 .. MaxParts : wrote[m] = 1 .. k

(* Only a read under way has a goroutine, only a goroutine that popped has an *)
(* item, and an open that got a prompt does not read again.                   *)
Fetching ==
    \A r \in Readers :
        /\ rpc[r] = "reading" <=> fetch[r] # "none"
        /\ item[r] # <<>> => fetch[r] = "popped"
        /\ got[r] # <<>> => rpc[r] \in {"read", "done"}

(* The types of the functions in full, and what the bounds of the model keep. *)
Bounded ==
    /\ buf \in [Msgs -> Seq(0 .. MaxParts)] /\ got \in [Readers -> Seq(Parts)]
    /\ stats \in 0 .. MaxStats /\ statting <= stats
    /\ drops \in 0 .. MaxDrops /\ orphans <= drops

(* Where prompts are they are whole, or cut at the count of the read.         *)
Full(m) == wpc[m] = "flushed" /\ wrote[m] # {}
Whole(it) == \E m \in Msgs : Full(m) /\ it = Sent(m)
AllWhole ==
    /\ \A i \in 1 .. Len(queue) : Whole(queue[i])
    /\ \A r \in Readers :
        /\ item[r] # <<>> => Whole(item[r])
        /\ got[r] # <<>> => \E m \in Msgs : Full(m) /\ got[r] = Slice(Sent(m), 0)

(* The places outside the queue, and what makes the place of a prompt one.    *)
Outside(m) ==
    {<<"held", r>> : r \in {s \in Readers : item[s] # <<>> /\ Owner(item[s]) = m}}
    \union {<<"got", r>> : r \in {s \in Readers : got[s] # <<>> /\ Owner(got[s]) = m}}
    \union {<<"core", 0>> : n \in {m} \intersect taken}
    \union {<<"wasted", 0>> : n \in {m} \intersect wasted}
    \union {<<"dropped", 0>> : n \in {m} \intersect dropped}
\* With the place p, should the head of the queue be the prompt m.
Gains(m, p) == IF m \in OwnersOf(Popped) THEN Outside(m) \union {p} ELSE Outside(m)
Queued(m) == \E i \in 1 .. Len(queue) : Owner(queue[i]) = m
Once ==
    /\ \A i, j \in 1 .. Len(queue) : Owner(queue[i]) = Owner(queue[j]) => i = j
    /\ \A m \in Msgs :
        /\ \A x, y \in Outside(m) : x = y
        /\ Queued(m) => Outside(m) = {}
        /\ Full(m) <=> Queued(m) \/ Outside(m) # {}

IInv == TypeOK /\ Buffered /\ Fetching /\ Bounded /\ AllWhole /\ Once

USE BoundsNat, ReadsAsk

------------------------------------------------------------------------------
(* A function on 1 .. n is a sequence of length n.                            *)
LEMMA FcnIsSeq ==
  ASSUME NEW S, NEW n \in Nat, NEW g \in [1 .. n -> S]
  PROVE  g \in Seq(S) /\ Len(g) = n /\ DOMAIN g = 1 .. n
<1>1. g \in Seq(S)
  BY SeqDef
<1>2. Len(g) \in Nat /\ 1 .. Len(g) = 1 .. n
  BY <1>1, LenProperties
<1>3. Len(g) = n
  BY <1>2
<1>. QED BY <1>1, <1>2, <1>3

(* A clunked prompt is its parts in order.                                    *)
LEMMA SentIs ==
  ASSUME TypeOK, Buffered, NEW m \in Msgs, wpc[m] # "open"
  PROVE  \E k \in 0 .. MaxParts :
            /\ wrote[m] = 1 .. k
            /\ Sent(m) \in Seq(Parts) /\ Len(Sent(m)) = k /\ DOMAIN Sent(m) = 1 .. k
            /\ \A i \in 1 .. k : Sent(m)[i] = Part(m, i)
<1>1. PICK k \in 0 .. MaxParts : wrote[m] = 1 .. k
  BY DEF Buffered
<1>2. Cardinality(wrote[m]) = k /\ k \in Nat
  BY <1>1, FS_Interval
<1>3. Sent(m) = [i \in 1 .. k |-> Part(m, i)]
  BY <1>2 DEF Sent
<1>4. \A i \in 1 .. k : Part(m, i) \in Parts
  BY <1>1 DEF Part, Parts
<1>5. Sent(m) \in [1 .. k -> Parts]
  BY <1>3, <1>4
<1>6. Sent(m) \in Seq(Parts) /\ Len(Sent(m)) = k /\ DOMAIN Sent(m) = 1 .. k
  BY <1>2, <1>5, FcnIsSeq
<1>. QED BY <1>1, <1>3, <1>6

(* What the goroutine of the clunk queues is the prompt.                      *)
LEMMA FlushedIs ==
  ASSUME TypeOK, Buffered, NEW m \in Msgs, wpc[m] # "open"
  PROVE  /\ buf[m] = <<>> <=> wrote[m] = {}
         /\ [i \in 1 .. Len(buf[m]) |-> Part(m, buf[m][i])] = Sent(m)
<1>1. PICK k \in 0 .. MaxParts :
        /\ wrote[m] = 1 .. k
        /\ Sent(m) \in Seq(Parts) /\ Len(Sent(m)) = k /\ DOMAIN Sent(m) = 1 .. k
        /\ \A i \in 1 .. k : Sent(m)[i] = Part(m, i)
  BY SentIs
<1>2. buf[m] \in Seq(0 .. MaxParts) /\ Len(buf[m]) \in Nat
  BY DEF TypeOK
<1>3. Len(buf[m]) = k
  BY <1>1, <1>2 DEF Buffered
<1>4. \A i \in 1 .. k : buf[m][i] = i
  BY <1>1, <1>3 DEF Buffered
<1>5. Sent(m) = [i \in 1 .. k |-> Part(m, i)]
  BY <1>1, LenProperties
<1>6. buf[m] = <<>> <=> k = 0
  BY <1>2, <1>3, EmptySeq
<1>. QED BY <1>1, <1>3, <1>4, <1>5, <1>6

(* A prompt and what a reply carries of it are not empty and all of one owner. *)
LEMMA FullIs ==
  ASSUME TypeOK, Buffered, NEW m \in Msgs, Full(m)
  PROVE  /\ Sent(m) \in Seq(Parts) /\ Sent(m) # <<>> /\ Owner(Sent(m)) = m
         /\ Slice(Sent(m), 0) \in Seq(Parts) /\ Slice(Sent(m), 0) # <<>>
         /\ Owner(Slice(Sent(m), 0)) = m /\ Len(Slice(Sent(m), 0)) \in 1 .. Count
         /\ \A i \in 1 .. Len(Slice(Sent(m), 0)) : Slice(Sent(m), 0)[i].msg = m
<1>1. PICK k \in 0 .. MaxParts :
        /\ wrote[m] = 1 .. k
        /\ Sent(m) \in Seq(Parts) /\ Len(Sent(m)) = k /\ DOMAIN Sent(m) = 1 .. k
        /\ \A i \in 1 .. k : Sent(m)[i] = Part(m, i)
  BY SentIs DEF Full
<1>2. k > 0 /\ k \in Nat
  BY <1>1 DEF Full
<1>3. \A i \in 1 .. k : Sent(m)[i] \in Parts /\ Sent(m)[i].msg = m
  BY <1>1 DEF Part, Parts
<1>4. Sent(m) # <<>> /\ Owner(Sent(m)) = m
  BY <1>1, <1>2, <1>3 DEF Owner
<1>5. PICK e \in 1 .. k : e <= Count /\ Slice(Sent(m), 0) = SubSeq(Sent(m), 1, e)
  BY <1>1, <1>2 DEF Slice, To
<1>6. /\ SubSeq(Sent(m), 1, e) \in Seq(Parts) /\ Len(SubSeq(Sent(m), 1, e)) = e
      /\ \A i \in 1 .. e : SubSeq(Sent(m), 1, e)[i] = Sent(m)[i]
  <2>1. e \in Int /\ 1 <= e /\ \A i \in 1 .. e : Sent(m)[i] \in Parts
    BY <1>2, <1>3
  <2>. HIDE DEF Parts, Sent
  <2>2. /\ SubSeq(Sent(m), 1, e) \in Seq(Parts)
        /\ Len(SubSeq(Sent(m), 1, e)) = IF 1 <= e THEN e - 1 + 1 ELSE 0
        /\ \A i \in 1 .. e - 1 + 1 : SubSeq(Sent(m), 1, e)[i] = Sent(m)[1 + i - 1]
    BY <2>1, SubSeqProperties
  <2>. QED BY <2>1, <2>2
<1>7. Slice(Sent(m), 0) # <<>> /\ Owner(Slice(Sent(m), 0)) = m
  BY <1>2, <1>3, <1>5, <1>6 DEF Owner
<1>. QED BY <1>1, <1>2, <1>3, <1>4, <1>5, <1>6, <1>7

(* The head of the queue is a whole prompt.                                   *)
LEMMA PoppedIs ==
  ASSUME IInv, queue # <<>>
  PROVE  \E m \in Msgs :
            /\ Full(m) /\ Popped = Sent(m) /\ Popped = queue[1] /\ Owner(queue[1]) = m
            /\ OwnersOf(Popped) = {m} /\ Popped \in Seq(Parts) /\ Popped # <<>>
            /\ Rest \in Seq(Seq(Parts)) /\ Len(Rest) = Len(queue) - 1
            /\ \A i \in 1 .. Len(Rest) : Rest[i] = queue[i + 1]
<1>1. queue \in Seq(Seq(Parts)) /\ Len(queue) \in Nat \ {0}
  BY EmptySeq DEF IInv, TypeOK
<1>2. PICK m \in Msgs : Full(m) /\ queue[1] = Sent(m)
  BY <1>1 DEF IInv, AllWhole, Whole
<1>3. Sent(m) \in Seq(Parts) /\ Sent(m) # <<>> /\ Owner(Sent(m)) = m
  BY <1>2, FullIs DEF IInv
<1>4. /\ Tail(queue) \in Seq(Seq(Parts)) /\ Len(Tail(queue)) = Len(queue) - 1
      /\ \A i \in 1 .. Len(Tail(queue)) : Tail(queue)[i] = queue[i + 1]
  BY <1>1, HeadTailProperties
<1>5. Popped = queue[1] /\ Rest = Tail(queue)
  BY DEF Popped, Rest
<1>6. OwnersOf(Popped) = {m}
  BY <1>2, <1>3, <1>5 DEF OwnersOf
<1>. QED BY <1>2, <1>3, <1>4, <1>5, <1>6

(* A prompt that is full stays as it is.                                      *)
LEMMA StillWhole ==
  ASSUME AllWhole, UNCHANGED <<queue, fetching>>,
         \A m \in Msgs : Full(m) => Full(m)' /\ Sent(m)' = Sent(m)
  PROVE  AllWhole'
BY DEF AllWhole, Whole, fetching, Slice, To

(* When no prompt changes, what holds of the places one by one holds of them  *)
(* all.                                                                       *)
LEMMA WholeFrom ==
  ASSUME \A m \in Msgs : (Full(m)' <=> Full(m)) /\ Sent(m)' = Sent(m),
         \A i \in 1 .. Len(queue') : \E m \in Msgs : Full(m) /\ queue'[i] = Sent(m),
         \A r \in Readers :
            /\ item'[r] # <<>> => \E m \in Msgs : Full(m) /\ item'[r] = Sent(m)
            /\ got'[r] # <<>> => \E m \in Msgs : Full(m) /\ got'[r] = Slice(Sent(m), 0)
  PROVE  AllWhole'
<1>1. \A m \in Msgs : Slice(Sent(m), 0)' = Slice(Sent(m), 0)
  <2>. SUFFICES ASSUME NEW m \in Msgs PROVE Slice(Sent(m), 0)' = Slice(Sent(m), 0)
    OBVIOUS
  <2>. QED BY DEF Slice, To
<1>2. \A i \in 1 .. Len(queue') : Whole(queue[i])'
  BY DEF Whole
<1>3. \A r \in Readers :
        /\ item'[r] # <<>> => Whole(item[r])'
        /\ got'[r] # <<>> => \E m \in Msgs : Full(m)' /\ got'[r] = Slice(Sent(m), 0)'
  BY <1>1 DEF Whole
<1>. QED BY <1>2, <1>3 DEF AllWhole

(* A prompt leaves the queue for a place outside.                             *)
LEMMA PopOnce ==
  ASSUME IInv, queue' = Rest, NEW p, \A m \in Msgs : Full(m)' <=> Full(m),
         \A m \in Msgs : Outside(m)' = Gains(m, p)
  PROVE  Once'
<1>. Once
  BY DEF IInv
<1>1. CASE queue = <<>>
  <2>1. queue' = queue /\ OwnersOf(Popped) = {}
    BY <1>1 DEF Rest, Popped, OwnersOf
  <2>2. \A m \in Msgs : Outside(m)' = Outside(m) /\ (Queued(m)' <=> Queued(m))
    BY <2>1 DEF Gains, Queued, Owner
  <2>3. \A i, j \in 1 .. Len(queue') : Owner(queue'[i]) = Owner(queue'[j]) => i = j
    BY <2>1 DEF Once
  <2>. QED BY <2>2, <2>3 DEF Once, Owner
<1>2. CASE queue # <<>>
  <2>1. PICK o \in Msgs :
            /\ Owner(queue[1]) = o /\ OwnersOf(Popped) = {o}
            /\ Rest \in Seq(Seq(Parts)) /\ Len(Rest) = Len(queue) - 1
            /\ \A i \in 1 .. Len(Rest) : Rest[i] = queue[i + 1]
    BY <1>2, PoppedIs
  <2>2. Len(queue) \in Nat \ {0} /\ Len(queue') = Len(queue) - 1
        /\ \A i \in 1 .. Len(queue') : queue'[i] = queue[i + 1] /\ i + 1 \in 1 .. Len(queue)
    BY <1>2, <2>1, EmptySeq DEF IInv, TypeOK
  <2>3. \A i, j \in 1 .. Len(queue') : Owner(queue'[i]) = Owner(queue'[j]) => i = j
    BY <2>2 DEF Once
  <2>4. \A m \in Msgs : Queued(m)' <=> Queued(m) /\ m # o
    <3>. SUFFICES ASSUME NEW m \in Msgs PROVE Queued(m)' <=> Queued(m) /\ m # o
      OBVIOUS
    <3>1. ASSUME Queued(m)' PROVE Queued(m) /\ m # o
      <4>1. PICK i \in 1 .. Len(queue') : Owner(queue'[i]) = m
        BY <3>1 DEF Queued, Owner
      <4>2. /\ i + 1 \in 1 .. Len(queue) /\ Owner(queue[i + 1]) = m
            /\ 1 \in 1 .. Len(queue) /\ i + 1 # 1
        BY <2>2, <4>1
      <4>. QED BY <2>1, <4>2 DEF Queued, Once
    <3>2. ASSUME Queued(m), m # o PROVE Queued(m)'
      <4>1. PICK i \in 1 .. Len(queue) : Owner(queue[i]) = m
        BY <3>2 DEF Queued
      <4>2. i - 1 \in 1 .. Len(queue') /\ queue'[i - 1] = queue[i]
        BY <2>1, <2>2, <3>2, <4>1
      <4>. QED BY <4>1, <4>2 DEF Queued, Owner
    <3>. QED BY <3>1, <3>2
  <2>5. Queued(o) /\ Outside(o) = {} /\ Outside(o)' = {p}
    BY <2>1, <2>2 DEF Gains, Queued, Once
  <2>6. \A m \in Msgs : m # o => Outside(m)' = Outside(m)
    BY <2>1 DEF Gains
  <2>. QED BY <2>3, <2>4, <2>5, <2>6 DEF Once, Owner
<1>. QED BY <1>1, <1>2

(* A prompt moves from a place outside to another.                            *)
LEMMA MoveOnce ==
  ASSUME Once, queue' = queue, \A m \in Msgs : Full(m)' <=> Full(m),
         \A m \in Msgs : \/ Outside(m)' = Outside(m)
                         \/ \E x, y : Outside(m) = {x} /\ Outside(m)' = {y}
  PROVE  Once'
<1>1. \A m \in Msgs : Queued(m)' <=> Queued(m)
  BY DEF Queued, Owner
<1>2. \A i, j \in 1 .. Len(queue') : Owner(queue'[i]) = Owner(queue'[j]) => i = j
  BY DEF Once
<1>3. ASSUME NEW m \in Msgs
      PROVE  /\ \A x, y \in Outside(m)' : x = y
             /\ Queued(m) => Outside(m)' = {}
             /\ Full(m) <=> Queued(m) \/ Outside(m)' # {}
  <2>. HIDE DEF Outside, Queued, Full
  <2>. QED BY DEF Once
<1>. QED BY <1>1, <1>2, <1>3 DEF Once, Owner

(* The queue that is left holds whole prompts.                                *)
LEMMA PopWhole ==
  ASSUME IInv, queue' = Rest, UNCHANGED writing
  PROVE  /\ queue' \in Seq(Seq(Parts))
         /\ \A i \in 1 .. Len(queue') : \E m \in Msgs : Full(m)' /\ queue'[i] = Sent(m)'
         /\ \A m \in Msgs : (Full(m)' <=> Full(m)) /\ Sent(m)' = Sent(m)
         /\ OwnersOf(Popped) \subseteq Msgs
         /\ Popped \in Seq(Parts)
         /\ Popped # <<>> => \E m \in Msgs : Full(m)' /\ Popped = Sent(m)'
<1>1. \A m \in Msgs : (Full(m)' <=> Full(m)) /\ Sent(m)' = Sent(m)
  BY DEF writing, Full, Sent, Part
<1>2. \A it : Whole(it) => \E m \in Msgs : Full(m)' /\ it = Sent(m)'
  BY <1>1 DEF Whole
<1>3. CASE queue = <<>>
  <2>1. queue' = queue /\ Popped = <<>> /\ OwnersOf(Popped) = {}
    BY <1>3 DEF Rest, Popped, OwnersOf
  <2>2. queue \in Seq(Seq(Parts)) /\ \A i \in 1 .. Len(queue) : Whole(queue[i])
    BY DEF IInv, TypeOK, AllWhole
  <2>3. \A i \in 1 .. Len(queue') : \E m \in Msgs : Full(m)' /\ queue'[i] = Sent(m)'
    BY <1>2, <2>1, <2>2
  <2>. QED BY <1>1, <2>1, <2>2, <2>3, EmptySeq
<1>4. CASE queue # <<>>
  <2>1. PICK m \in Msgs :
            /\ Full(m) /\ Popped = Sent(m)
            /\ OwnersOf(Popped) = {m} /\ Popped \in Seq(Parts) /\ Popped # <<>>
            /\ Rest \in Seq(Seq(Parts)) /\ Len(Rest) = Len(queue) - 1
            /\ \A i \in 1 .. Len(Rest) : Rest[i] = queue[i + 1]
    BY <1>4, PoppedIs
  <2>2. Len(queue) \in Nat
    BY DEF IInv, TypeOK
  <2>3. \A i \in 1 .. Len(queue') : Whole(queue'[i])
    <3>. SUFFICES ASSUME NEW i \in 1 .. Len(queue') PROVE Whole(queue'[i])
      OBVIOUS
    <3>1. queue'[i] = queue[i + 1] /\ i + 1 \in 1 .. Len(queue)
      BY <2>1, <2>2
    <3>. QED BY <3>1 DEF IInv, AllWhole
  <2>4. Whole(Popped)
    BY <2>1 DEF Whole
  <2>. QED BY <1>1, <1>2, <2>1, <2>3, <2>4
<1>. QED BY <1>3, <1>4

------------------------------------------------------------------------------
(* At first nothing is written and no prompt is anywhere.                     *)
LEMMA InitIInv == Init => IInv
<1>. SUFFICES ASSUME Init PROVE IInv
  OBVIOUS
<1>1. TypeOK
  BY EmptySeq DEF Init, TypeOK
<1>2. Buffered /\ Fetching /\ Bounded /\ AllWhole
  BY EmptySeq DEF Init, Buffered, Fetching, Bounded, AllWhole
<1>3. \A m \in Msgs : Outside(m) = {} /\ ~Queued(m) /\ ~Full(m)
  BY EmptySeq DEF Init, Outside, Queued, Full
<1>4. Once
  BY <1>3, EmptySeq DEF Init, Once
<1>. QED BY <1>1, <1>2, <1>4 DEF IInv

(* A Twrite goes into the buffer of a prompt that is open, which is at no     *)
(* place.                                                                     *)
LEMMA WriteIInv ==
  ASSUME IInv, NEW n \in Msgs, NEW k \in 1 .. MaxParts, Write(n, k)
  PROVE  IInv'
<1>a. /\ buf \in [Msgs -> Seq(0 .. MaxParts)] /\ wrote \in [Msgs -> SUBSET (1 .. MaxParts)]
      /\ Len(buf[n]) \in 0 .. MaxParts /\ MaxParts \in Nat
  BY DEF IInv, Bounded, TypeOK
<1>b. Store(buf[n], k) \in Seq(0 .. MaxParts)
      /\ Len(Store(buf[n], k)) = IF k > Len(buf[n]) THEN k ELSE Len(buf[n])
  <2>. DEFINE N == IF k > Len(buf[n]) THEN k ELSE Len(buf[n])
  <2>1. N \in Nat
    BY <1>a
  <2>2. \A i \in 1 .. Len(buf[n]) : buf[n][i] \in 0 .. MaxParts
    BY <1>a, ElementOfSeq
  <2>3. Store(buf[n], k) \in [1 .. N -> 0 .. MaxParts]
    BY <1>a, <2>2 DEF Store
  <2>. QED BY <2>1, <2>3, FcnIsSeq
<1>1. TypeOK'
  <2>1. wrote' \in [Msgs -> SUBSET (1 .. MaxParts)]
    BY <1>a DEF Write
  <2>2. \A m \in Msgs : buf'[m] \in Seq(0 .. MaxParts) /\ Len(buf'[m]) <= MaxParts
    BY <1>a, <1>b DEF Write, IInv, TypeOK
  <2>. QED BY <2>1, <2>2 DEF Write, IInv, TypeOK, fetching
<1>2. Buffered'
  <2>. SUFFICES ASSUME NEW m \in Msgs
                PROVE  /\ wrote'[m] \subseteq 1 .. Len(buf'[m])
                       /\ Len(buf'[m]) > 0 => Len(buf'[m]) \in wrote'[m]
                       /\ \A i \in 1 .. Len(buf'[m]) :
                            buf'[m][i] = IF i \in wrote'[m] THEN i ELSE 0
                       /\ wpc'[m] # "open" => \E j \in 0 .. MaxParts : wrote'[m] = 1 .. j
    BY DEF Buffered
  <2>1. CASE m # n
    BY <1>a, <2>1 DEF Write, IInv, Buffered
  <2>2. CASE m = n
    <3>1. buf'[n] = Store(buf[n], k) /\ wrote'[n] = wrote[n] \union {k} /\ wpc'[n] = "open"
      BY <1>a DEF Write
    <3>2. \A i \in 1 .. Len(buf'[n]) :
            buf'[n][i] = IF i = k THEN k ELSE IF i <= Len(buf[n]) THEN buf[n][i] ELSE 0
      BY <1>b, <3>1 DEF Store
    <3>3. wrote[n] \subseteq 1 .. Len(buf[n]) /\ (Len(buf[n]) > 0 => Len(buf[n]) \in wrote[n])
          /\ \A i \in 1 .. Len(buf[n]) : buf[n][i] = IF i \in wrote[n] THEN i ELSE 0
      BY DEF IInv, Buffered
    <3>4. /\ wrote'[n] \subseteq 1 .. Len(buf'[n])
          /\ Len(buf'[n]) > 0 => Len(buf'[n]) \in wrote'[n]
      BY <1>a, <1>b, <3>1, <3>3
    <3>5. \A i \in 1 .. Len(buf'[n]) : buf'[n][i] = IF i \in wrote'[n] THEN i ELSE 0
      BY <1>a, <1>b, <3>1, <3>2, <3>3
    <3>. QED BY <2>2, <3>1, <3>4, <3>5
  <2>. QED BY <2>1, <2>2
<1>3. Fetching' /\ Bounded'
  BY <1>a, <1>b DEF Write, IInv, Fetching, Bounded, fetching
<1>4. \A m \in Msgs : (Full(m)' <=> Full(m)) /\ (Full(m) => Sent(m)' = Sent(m))
  BY <1>a DEF Write, Full, Sent, Part
<1>5. AllWhole'
  BY <1>4, StillWhole DEF Write, IInv
<1>6. Once'
  <2>1. \A m \in Msgs : Outside(m)' = Outside(m)
    BY DEF Write, Outside, Owner, fetching
  <2>. QED BY <1>4, <2>1, MoveOnce DEF Write, IInv
<1>. QED BY <1>1, <1>2, <1>3, <1>5, <1>6 DEF IInv

(* The clunk leaves the prompt to the goroutine, and no place changes.        *)
LEMMA ClunkIInv ==
  ASSUME IInv, NEW n \in Msgs, Clunk(n)
  PROVE  IInv'
<1>1. TypeOK' /\ Buffered' /\ Fetching' /\ Bounded'
  BY DEF Clunk, IInv, TypeOK, Buffered, Fetching, Bounded, fetching
<1>2. \A m \in Msgs : (Full(m)' <=> Full(m)) /\ Sent(m)' = Sent(m)
  BY DEF Clunk, IInv, TypeOK, Full, Sent, Part
<1>3. AllWhole'
  BY <1>2, StillWhole DEF Clunk, IInv
<1>4. \A m \in Msgs : Outside(m)' = Outside(m)
  BY DEF Clunk, Outside, Owner, fetching
<1>5. Once'
  BY <1>2, <1>4, MoveOnce DEF Clunk, IInv
<1>. QED BY <1>1, <1>3, <1>5 DEF IInv

(* A read that starts, or that looks for the end of the file, does not touch  *)
(* the queue.                                                                 *)
LEMMA ReaderIInv ==
  ASSUME IInv, NEW r \in Readers, ReadStart(r) \/ ReadEof(r)
  PROVE  IInv'
<1>a. /\ UNCHANGED <<writing, queue, item, got>>
      /\ rpc \in [Readers -> {"new", "walked", "reading", "read", "done"}]
      /\ fetch \in [Readers -> {"none", "run", "popped"}]
  BY DEF ReadStart, ReadEof, IInv, TypeOK
<1>1. TypeOK' /\ Buffered' /\ Bounded'
  BY DEF ReadStart, ReadEof, IInv, TypeOK, Buffered, Bounded, writing
<1>2. Fetching'
  BY <1>a DEF ReadStart, ReadEof, IInv, Fetching
<1>3. \A m \in Msgs : (Full(m)' <=> Full(m)) /\ Sent(m)' = Sent(m)
  BY DEF ReadStart, ReadEof, Full, Sent, Part, writing
<1>4. AllWhole'
  BY <1>3 DEF ReadStart, ReadEof, IInv, AllWhole, Whole, Slice, To
<1>5. \A m \in Msgs : Outside(m)' = Outside(m)
  BY DEF ReadStart, ReadEof, Outside, Owner
<1>6. Once'
  BY <1>3, <1>5, MoveOnce DEF ReadStart, ReadEof, IInv
<1>. QED BY <1>1, <1>4, <1>6, <1>2 DEF IInv

(* The flush puts the prompt, whole, at the end of the queue, and it was      *)
(* nowhere before.                                                            *)
LEMMA FlushIInv ==
  ASSUME IInv, NEW n \in Msgs, Flush(n)
  PROVE  IInv'
<1>a. /\ buf[n] = <<>> <=> wrote[n] = {}
      /\ queue' = IF wrote[n] = {} THEN queue ELSE Append(queue, Sent(n))
      /\ wpc[n] = "flushing" /\ wpc' = [wpc EXCEPT ![n] = "flushed"]
  <2>1. wpc[n] # "open"
    BY DEF Flush
  <2>2. /\ buf[n] = <<>> <=> wrote[n] = {}
        /\ [i \in 1 .. Len(buf[n]) |-> Part(n, buf[n][i])] = Sent(n)
    BY <2>1, FlushedIs DEF IInv
  <2>. QED BY <2>2 DEF Flush
<1>b. wrote' = wrote /\ wpc \in [Msgs -> {"open", "flushing", "flushed"}]
  BY DEF Flush, IInv, TypeOK
<1>c. \A m \in Msgs : /\ Sent(m)' = Sent(m)
                      /\ Full(m)' <=> Full(m) \/ (m = n /\ wrote[n] # {})
  <2>. SUFFICES ASSUME NEW m \in Msgs
                PROVE  Sent(m)' = Sent(m) /\ (Full(m)' <=> Full(m) \/ (m = n /\ wrote[n] # {}))
    OBVIOUS
  <2>1. Sent(m)' = Sent(m)
    BY <1>b DEF Sent, Part
  <2>2. Full(m)' <=> Full(m) \/ (m = n /\ wrote[n] # {})
    BY <1>a, <1>b DEF Full
  <2>. QED BY <2>1, <2>2
<1>d. ~Full(n) /\ UNCHANGED fetching /\ \A m \in Msgs : Outside(m)' = Outside(m)
  BY <1>a DEF Flush, Full, Outside, Owner, fetching
<1>1. CASE wrote[n] = {}
  <2>1. TypeOK' /\ Buffered' /\ Fetching' /\ Bounded'
    BY <1>a, <1>1 DEF Flush, IInv, TypeOK, Buffered, Fetching, Bounded, fetching
  <2>2. AllWhole'
    BY <1>a, <1>c, <1>1, StillWhole DEF Flush, IInv
  <2>3. Once'
    BY <1>a, <1>c, <1>d, <1>1, MoveOnce DEF IInv
  <2>. QED BY <2>1, <2>2, <2>3 DEF IInv
<1>2. CASE wrote[n] # {}
  <2>a. Full(n)' /\ Sent(n) \in Seq(Parts) /\ Owner(Sent(n)) = n
    <3>1. PICK k \in 0 .. MaxParts :
            /\ wrote[n] = 1 .. k
            /\ Sent(n) \in Seq(Parts) /\ Len(Sent(n)) = k /\ DOMAIN Sent(n) = 1 .. k
            /\ \A i \in 1 .. k : Sent(n)[i] = Part(n, i)
      BY <1>a, SentIs DEF IInv
    <3>2. 1 \in 1 .. k
      BY <1>2, <3>1
    <3>. QED BY <1>c, <1>2, <3>1, <3>2 DEF Owner, Part
  <2>b. /\ queue' \in Seq(Seq(Parts)) /\ Len(queue') = Len(queue) + 1 /\ Len(queue) \in Nat
        /\ \A i \in 1 .. Len(queue) : queue'[i] = queue[i]
        /\ queue'[Len(queue) + 1] = Sent(n)
    <3>1. queue \in Seq(Seq(Parts)) /\ queue' = Append(queue, Sent(n))
      BY <1>a, <1>2 DEF IInv, TypeOK
    <3>. QED BY <2>a, <3>1, AppendProperties
  <2>1. TypeOK'
    BY <1>b, <1>a, <2>b DEF Flush, IInv, TypeOK, fetching
  <2>2. Buffered' /\ Fetching' /\ Bounded'
    BY <1>b, <1>a DEF Flush, IInv, TypeOK, Buffered, Fetching, Bounded, fetching
  <2>3. AllWhole'
    <3>1. \A m \in Msgs : Full(m) => Full(m)'
      BY <1>c
    <3>2. \A i \in 1 .. Len(queue') : \E m \in Msgs : Full(m)' /\ queue'[i] = Sent(m)'
      <4>. SUFFICES ASSUME NEW i \in 1 .. Len(queue')
                    PROVE  \E m \in Msgs : Full(m)' /\ queue'[i] = Sent(m)'
        OBVIOUS
      <4>1. CASE i = Len(queue) + 1
        BY <1>c, <2>a, <2>b, <4>1
      <4>2. CASE i # Len(queue) + 1
        <5>1. i \in 1 .. Len(queue) /\ queue'[i] = queue[i]
          BY <2>b, <4>2
        <5>. QED BY <1>c, <5>1 DEF IInv, AllWhole, Whole
      <4>. QED BY <4>1, <4>2
    <3>. QED BY <1>c, <1>d, <3>2 DEF IInv, AllWhole, Whole, fetching, Slice, To
  <2>4. Once'
    <3>1. ~Queued(n) /\ Outside(n) = {}
      BY <1>d DEF IInv, Once
    <3>2. \A m \in Msgs : Queued(m)' <=> Queued(m) \/ m = n
      <4>1. ASSUME NEW m \in Msgs, Queued(m) \/ m = n PROVE Queued(m)'
        <5>1. CASE m = n
          <6>1. Len(queue) + 1 \in 1 .. Len(queue') /\ Owner(queue'[Len(queue) + 1]) = n
            BY <2>a, <2>b
          <6>. QED BY <5>1, <6>1 DEF Queued, Owner
        <5>2. CASE Queued(m)
          <6>1. PICK i \in 1 .. Len(queue) : Owner(queue[i]) = m
            BY <5>2 DEF Queued
          <6>2. i \in 1 .. Len(queue') /\ queue'[i] = queue[i]
            BY <2>b
          <6>. QED BY <6>1, <6>2 DEF Queued, Owner
        <5>. QED BY <4>1, <5>1, <5>2
      <4>2. ASSUME NEW m \in Msgs, Queued(m)', m # n PROVE Queued(m)
        <5>1. PICK i \in 1 .. Len(queue') : Owner(queue'[i]) = m
          BY <4>2 DEF Queued, Owner
        <5>2. i \in 1 .. Len(queue) /\ queue'[i] = queue[i]
          BY <2>a, <2>b, <4>2, <5>1
        <5>. QED BY <5>1, <5>2 DEF Queued
      <4>. QED BY <4>1, <4>2
    <3>3. \A i, j \in 1 .. Len(queue') : Owner(queue'[i]) = Owner(queue'[j]) => i = j
      <4>1. \A i \in 1 .. Len(queue) : Owner(queue'[i]) = Owner(queue[i]) /\ Owner(queue[i]) # n
        BY <2>b, <3>1 DEF Queued
      <4>2. Owner(queue'[Len(queue) + 1]) = n
        BY <2>a, <2>b
      <4>3. \A i, j \in 1 .. Len(queue) : Owner(queue[i]) = Owner(queue[j]) => i = j
        BY DEF IInv, Once
      <4>. SUFFICES ASSUME NEW i \in 1 .. Len(queue'), NEW j \in 1 .. Len(queue'),
                           Owner(queue'[i]) = Owner(queue'[j])
                    PROVE  i = j
        OBVIOUS
      <4>4. /\ i = Len(queue) + 1 \/ i \in 1 .. Len(queue)
            /\ j = Len(queue) + 1 \/ j \in 1 .. Len(queue)
        BY <2>b
      <4>. QED BY <4>1, <4>2, <4>3, <4>4
    <3>4. ASSUME NEW m \in Msgs
          PROVE  /\ \A x, y \in Outside(m)' : x = y
                 /\ Queued(m)' => Outside(m)' = {}
                 /\ Full(m)' <=> Queued(m)' \/ Outside(m)' # {}
      BY <1>c, <1>d, <1>2, <3>1, <3>2 DEF IInv, Once
    <3>. QED BY <3>3, <3>4 DEF Once, Owner
  <2>. QED BY <2>1, <2>3, <2>4, <2>2 DEF IInv
<1>. QED BY <1>1, <1>2

(* The core, a walk, a stat and the goroutine of an abandoned read move the   *)
(* head of the queue to a place of no reader.                                 *)
LEMMA PopIInv ==
  ASSUME IInv,
         \/ CoreTake \/ StatLength \/ OrphanPop
         \/ \E r \in Readers : Walk(r) \/ Stat(r)
  PROVE  IInv'
<1>a. /\ queue' = Rest /\ UNCHANGED <<writing, fetch, item, got>>
      /\ \/ taken' = taken \union OwnersOf(Popped) /\ UNCHANGED <<wasted, dropped>>
         \/ wasted' = wasted \union OwnersOf(Popped) /\ UNCHANGED <<taken, dropped>>
         \/ dropped' = dropped \union OwnersOf(Popped) /\ UNCHANGED <<taken, wasted>>
  <2>1. CASE CoreTake
    <3>1. queue # <<>> /\ Popped = Head(queue) /\ Rest = Tail(queue)
      BY <2>1 DEF CoreTake, Popped, Rest
    <3>2. OwnersOf(Popped) = {Owner(Head(queue))}
      BY <3>1, PoppedIs DEF OwnersOf
    <3>. QED BY <2>1, <3>1, <3>2 DEF CoreTake, fetching
  <2>2. CASE StatLength
    BY <2>2 DEF StatLength, SizeByReading, fetching
  <2>3. CASE OrphanPop
    BY <2>3 DEF OrphanPop, fetching
  <2>4. CASE \E r \in Readers : Walk(r) \/ Stat(r)
    BY <2>4 DEF Walk, Stat, SizeByReading, fetching
  <2>. QED BY <2>1, <2>2, <2>3, <2>4
<1>b. /\ queue' \in Seq(Seq(Parts))
      /\ \A i \in 1 .. Len(queue') : \E m \in Msgs : Full(m)' /\ queue'[i] = Sent(m)'
      /\ \A m \in Msgs : (Full(m)' <=> Full(m)) /\ Sent(m)' = Sent(m)
      /\ OwnersOf(Popped) \subseteq Msgs
  BY <1>a, PopWhole
<1>c. ASSUME NEW s \in Readers
      PROVE  rpc'[s] = rpc[s] \/ (rpc[s] = "new" /\ rpc'[s] = "walked")
  <2>1. CASE UNCHANGED rpc
    BY <2>1
  <2>2. CASE \E r \in Readers : Walk(r)
    BY <2>2 DEF Walk, IInv, TypeOK
  <2>. QED BY <2>1, <2>2 DEF CoreTake, StatLength, OrphanPop, Stat, fetching
<1>d. /\ orphans \in Nat /\ statting \in Nat /\ stats \in Nat /\ drops \in Nat
      /\ MaxStats \in Nat /\ MaxDrops \in Nat
  BY DEF IInv, TypeOK, Bounded
<1>1. TypeOK'
  <2>1. rpc' \in [Readers -> {"new", "walked", "reading", "read", "done"}]
    BY DEF CoreTake, StatLength, OrphanPop, Walk, Stat, IInv, TypeOK, fetching
  <2>2. orphans' \in 0 .. MaxDrops /\ statting' \in 0 .. MaxStats
    BY <1>d DEF CoreTake, StatLength, OrphanPop, Walk, Stat, IInv, TypeOK, Bounded
  <2>3. taken' \subseteq Msgs /\ wasted' \subseteq Msgs /\ dropped' \subseteq Msgs
    BY <1>a, <1>b DEF IInv, TypeOK
  <2>. QED BY <1>a, <1>b, <2>1, <2>2, <2>3 DEF IInv, TypeOK, writing
<1>2. Buffered' /\ Fetching'
  BY <1>a, <1>c DEF IInv, Buffered, Fetching, writing
<1>3. Bounded'
  BY <1>a, <1>d DEF CoreTake, StatLength, OrphanPop, Walk, Stat, IInv, Bounded, writing
<1>4. AllWhole'
  BY <1>a, <1>b DEF IInv, AllWhole, Whole, Slice, To
<1>5. Once'
  <2>1. \E p : \A m \in Msgs :
            Outside(m)' = Gains(m, p)
    <3>1. CASE taken' = taken \union OwnersOf(Popped) /\ UNCHANGED <<wasted, dropped>>
      <4>1. \A m \in Msgs : Outside(m)' = Gains(m, <<"core", 0>>)
        BY <1>a, <3>1 DEF Gains, Outside, Owner
      <4>. QED BY <4>1
    <3>2. CASE wasted' = wasted \union OwnersOf(Popped) /\ UNCHANGED <<taken, dropped>>
      <4>1. \A m \in Msgs : Outside(m)' = Gains(m, <<"wasted", 0>>)
        BY <1>a, <3>2 DEF Gains, Outside, Owner
      <4>. QED BY <4>1
    <3>3. CASE dropped' = dropped \union OwnersOf(Popped) /\ UNCHANGED <<taken, wasted>>
      <4>1. \A m \in Msgs : Outside(m)' = Gains(m, <<"dropped", 0>>)
        BY <1>a, <3>3 DEF Gains, Outside, Owner
      <4>. QED BY <4>1
    <3>. QED BY <1>a, <3>1, <3>2, <3>3
  <2>. QED BY <1>a, <1>b, <2>1, PopOnce
<1>. QED BY <1>1, <1>2, <1>3, <1>4, <1>5 DEF IInv

(* The goroutine of a read holds the head of the queue.                       *)
LEMMA FetchIInv ==
  ASSUME IInv, NEW r \in Readers, Fetch(r)
  PROVE  IInv'
<1>a. /\ queue' = Rest /\ UNCHANGED <<writing, rpc, got, taken, wasted, dropped>>
      /\ item' = [item EXCEPT ![r] = Popped] /\ item \in [Readers -> Seq(Parts)]
      /\ fetch' = [fetch EXCEPT ![r] = "popped"]
      /\ fetch \in [Readers -> {"none", "run", "popped"}]
      /\ fetch[r] = "run" /\ item[r] = <<>>
  BY DEF Fetch, IInv, TypeOK, Fetching
<1>b. /\ queue' \in Seq(Seq(Parts))
      /\ \A i \in 1 .. Len(queue') : \E m \in Msgs : Full(m)' /\ queue'[i] = Sent(m)'
      /\ \A m \in Msgs : (Full(m)' <=> Full(m)) /\ Sent(m)' = Sent(m)
      /\ Popped \in Seq(Parts)
      /\ Popped # <<>> => \E m \in Msgs : Full(m)' /\ Popped = Sent(m)'
  BY <1>a, PopWhole
<1>1. TypeOK'
  BY <1>a, <1>b DEF Fetch, IInv, TypeOK, writing
<1>2. Buffered' /\ Fetching' /\ Bounded'
  BY <1>a DEF Fetch, IInv, Buffered, Fetching, Bounded, writing
<1>3. AllWhole'
  BY <1>a, <1>b DEF IInv, AllWhole, Whole, Slice, To
<1>4. Once'
  <2>1. \A m \in Msgs : Outside(m)' = Gains(m, <<"held", r>>)
    <3>. SUFFICES ASSUME NEW m \in Msgs
                  PROVE  Outside(m)' = Gains(m, <<"held", r>>)
      OBVIOUS
    <3>1. {s \in Readers : item'[s] # <<>> /\ item'[s][1].msg = m}
            = {s \in Readers : item[s] # <<>> /\ item[s][1].msg = m}
                \union {s \in {r} : m \in OwnersOf(Popped)}
      BY <1>a DEF OwnersOf, Owner
    <3>. QED BY <1>a, <3>1 DEF Gains, Outside, Owner
  <2>. QED BY <1>a, <1>b, <2>1, PopOnce
<1>. QED BY <1>1, <1>2, <1>3, <1>4 DEF IInv

(* The first reply brings the prompt from the goroutine to the reader, cut at *)
(* the count of the read.                                                     *)
LEMMA ReadReplyIInv ==
  ASSUME IInv, NEW r \in Readers, ReadReply(r)
  PROVE  IInv'
<1>a. /\ UNCHANGED <<writing, queue, orphans, taken, wasted, dropped, statting, stats, drops>>
      /\ item' = [item EXCEPT ![r] = <<>>] /\ item \in [Readers -> Seq(Parts)]
      /\ fetch' = [fetch EXCEPT ![r] = "none"]
      /\ fetch \in [Readers -> {"none", "run", "popped"}]
      /\ got \in [Readers -> Seq(Parts)]
      /\ rpc \in [Readers -> {"new", "walked", "reading", "read", "done"}]
      /\ rpc[r] = "reading" /\ got[r] = <<>>
  BY DEF ReadReply, IInv, TypeOK, Fetching, Bounded
<1>b. /\ rpc' = [rpc EXCEPT ![r] = rpc'[r]] /\ rpc'[r] \in {"read", "done"}
  BY <1>a DEF ReadReply
<1>c. got' = [got EXCEPT ![r] = Slice(item[r], 0)]
  <2>1. got' = [got EXCEPT ![r] = <<>> \o Slice(item[r], 0)]
    BY <1>a, EmptySeq DEF ReadReply
  <2>2. Slice(item[r], 0) \in Seq(Parts)
    <3>1. CASE item[r] = <<>>
      BY <3>1, EmptySeq DEF Slice
    <3>2. CASE item[r] # <<>>
      BY <3>2, FullIs DEF IInv, AllWhole, Whole
    <3>. QED BY <3>1, <3>2
  <2>. QED BY <2>1, <2>2, ConcatEmptySeq
<1>d. \/ item[r] = <<>> /\ Slice(item[r], 0) = <<>>
      \/ \E m \in Msgs :
            /\ Full(m) /\ item[r] = Sent(m) /\ item[r] # <<>> /\ Owner(item[r]) = m
            /\ Slice(item[r], 0) \in Seq(Parts) /\ Slice(item[r], 0) # <<>>
            /\ Owner(Slice(item[r], 0)) = m /\ Len(Slice(item[r], 0)) \in 1 .. Count
  <2>1. CASE item[r] = <<>>
    BY <2>1, EmptySeq DEF Slice
  <2>2. CASE item[r] # <<>>
    BY <2>2, FullIs DEF IInv, AllWhole, Whole
  <2>. QED BY <2>1, <2>2
<1>e. \A m \in Msgs : (Full(m)' <=> Full(m)) /\ Sent(m)' = Sent(m)
  BY <1>a DEF Full, Sent, Part, writing
<1>f. Slice(item[r], 0) \in Seq(Parts) /\ Len(Slice(item[r], 0)) <= Count
  <2>1. Len(<<>>) <= Count /\ <<>> \in Seq(Parts)
    BY EmptySeq
  <2>2. CASE Slice(item[r], 0) = <<>>
    BY <2>1, <2>2, Zenon
  <2>3. CASE Slice(item[r], 0) # <<>>
    <3>1. Slice(item[r], 0) \in Seq(Parts) /\ Len(Slice(item[r], 0)) \in 1 .. Count
      BY <1>d, <2>3
    <3>. QED BY <3>1
  <2>. QED BY <2>2, <2>3
<1>1. TypeOK'
  <2>1. \A s \in Readers : got'[s] \in Seq(Parts) /\ Len(got'[s]) <= Count
    BY <1>a, <1>c, <1>f DEF IInv, TypeOK
  <2>. QED BY <1>a, <1>b, <2>1, EmptySeq DEF IInv, TypeOK, writing
<1>2. Buffered' /\ Bounded'
  BY <1>a, <1>c, <1>f DEF IInv, Buffered, Bounded, writing
<1>3. Fetching'
  BY <1>a, <1>b, <1>c DEF IInv, Fetching
<1>4. AllWhole'
  <2>1. \A s \in Readers :
          /\ item'[s] # <<>> => \E m \in Msgs : Full(m) /\ item'[s] = Sent(m)
          /\ got'[s] # <<>> => \E m \in Msgs : Full(m) /\ got'[s] = Slice(Sent(m), 0)
    BY <1>a, <1>c, <1>d DEF IInv, AllWhole, Whole
  <2>2. \A i \in 1 .. Len(queue') : \E m \in Msgs : Full(m) /\ queue'[i] = Sent(m)
    BY <1>a DEF IInv, AllWhole, Whole
  <2>. QED BY <1>e, <2>1, <2>2, WholeFrom
<1>5. Once'
  <2>1. ASSUME NEW m \in Msgs
        PROVE  \/ Outside(m)' = Outside(m)
               \/ \E x, y : Outside(m) = {x} /\ Outside(m)' = {y}
    <3>1. CASE item[r] # <<>> /\ Owner(item[r]) = m
      <4>1. /\ {s \in Readers : item'[s] # <<>> /\ item'[s][1].msg = m}
                  = {s \in Readers : item[s] # <<>> /\ item[s][1].msg = m} \ {r}
            /\ {s \in Readers : got'[s] # <<>> /\ got'[s][1].msg = m}
                  = {s \in Readers : got[s] # <<>> /\ got[s][1].msg = m} \union {r}
        BY <1>a, <1>c, <1>d, <3>1 DEF Owner
      <4>2. <<"held", r>> \in Outside(m)
        BY <3>1 DEF Outside
      <4>3. Outside(m) = {<<"held", r>>}
        BY <4>2 DEF IInv, Once
      <4>4. Outside(m)' = (Outside(m) \ {<<"held", r>>}) \union {<<"got", r>>}
        BY <1>a, <4>1 DEF Outside, Owner
      <4>. QED BY <4>3, <4>4
    <3>2. CASE ~(item[r] # <<>> /\ Owner(item[r]) = m)
      <4>1. /\ {s \in Readers : item'[s] # <<>> /\ item'[s][1].msg = m}
                  = {s \in Readers : item[s] # <<>> /\ item[s][1].msg = m}
            /\ {s \in Readers : got'[s] # <<>> /\ got'[s][1].msg = m}
                  = {s \in Readers : got[s] # <<>> /\ got[s][1].msg = m}
        BY <1>a, <1>c, <1>d, <3>2 DEF Owner
      <4>2. Outside(m)' = Outside(m)
        BY <1>a, <4>1 DEF Outside, Owner
      <4>. QED BY <4>2
    <3>. QED BY <3>1, <3>2
  <2>. QED BY <1>a, <1>e, <2>1, MoveOnce DEF IInv
<1>. QED BY <1>1, <1>2, <1>3, <1>4, <1>5 DEF IInv

(* What the goroutine of an abandoned read holds reaches nobody.              *)
LEMMA ReadAbandonIInv ==
  ASSUME IInv, NEW r \in Readers, ReadAbandon(r)
  PROVE  IInv'
<1>a. /\ UNCHANGED <<writing, queue, got, taken, wasted, statting, stats>>
      /\ dropped' = dropped \union OwnersOf(item[r])
      /\ item' = [item EXCEPT ![r] = <<>>] /\ item \in [Readers -> Seq(Parts)]
      /\ fetch' = [fetch EXCEPT ![r] = "none"]
      /\ fetch \in [Readers -> {"none", "run", "popped"}]
      /\ rpc' = [rpc EXCEPT ![r] = "walked"]
      /\ rpc \in [Readers -> {"new", "walked", "reading", "read", "done"}]
      /\ rpc[r] = "reading" /\ got[r] = <<>>
  BY DEF ReadAbandon, IInv, TypeOK, Fetching
<1>b. OwnersOf(item[r]) \subseteq Msgs
  <2>1. CASE item[r] = <<>>
    BY <2>1 DEF OwnersOf
  <2>2. CASE item[r] # <<>>
    BY <2>2, FullIs DEF OwnersOf, IInv, AllWhole, Whole
  <2>. QED BY <2>1, <2>2
<1>c. orphans' \in 0 .. MaxDrops /\ drops' \in 0 .. MaxDrops /\ orphans' <= drops'
  BY DEF ReadAbandon, IInv, TypeOK, Bounded
<1>d. \A m \in Msgs : (Full(m)' <=> Full(m)) /\ Sent(m)' = Sent(m)
  BY <1>a DEF Full, Sent, Part, writing
<1>1. TypeOK'
  BY <1>a, <1>b, <1>c, EmptySeq DEF IInv, TypeOK, writing
<1>2. Buffered' /\ Fetching' /\ Bounded'
  BY <1>a, <1>c DEF IInv, Buffered, Fetching, Bounded, writing
<1>3. AllWhole'
  <2>1. \A s \in Readers :
          /\ item'[s] # <<>> => \E m \in Msgs : Full(m) /\ item'[s] = Sent(m)
          /\ got'[s] # <<>> => \E m \in Msgs : Full(m) /\ got'[s] = Slice(Sent(m), 0)
    BY <1>a DEF IInv, AllWhole, Whole
  <2>2. \A i \in 1 .. Len(queue') : \E m \in Msgs : Full(m) /\ queue'[i] = Sent(m)
    BY <1>a DEF IInv, AllWhole, Whole
  <2>. QED BY <1>d, <2>1, <2>2, WholeFrom
<1>4. Once'
  <2>1. ASSUME NEW m \in Msgs
        PROVE  \/ Outside(m)' = Outside(m)
               \/ \E x, y : Outside(m) = {x} /\ Outside(m)' = {y}
    <3>1. CASE item[r] # <<>> /\ Owner(item[r]) = m
      <4>1. /\ {s \in Readers : item'[s] # <<>> /\ item'[s][1].msg = m}
                  = {s \in Readers : item[s] # <<>> /\ item[s][1].msg = m} \ {r}
            /\ {m} \intersect dropped' = {m}
        BY <1>a, <3>1 DEF Owner, OwnersOf
      <4>2. <<"held", r>> \in Outside(m)
        BY <3>1 DEF Outside
      <4>3. Outside(m) = {<<"held", r>>}
        BY <4>2 DEF IInv, Once
      <4>4. Outside(m)' = (Outside(m) \ {<<"held", r>>}) \union {<<"dropped", 0>>}
        BY <1>a, <4>1 DEF Outside, Owner
      <4>. QED BY <4>3, <4>4
    <3>2. CASE ~(item[r] # <<>> /\ Owner(item[r]) = m)
      <4>1. /\ {s \in Readers : item'[s] # <<>> /\ item'[s][1].msg = m}
                  = {s \in Readers : item[s] # <<>> /\ item[s][1].msg = m}
            /\ {m} \intersect dropped' = {m} \intersect dropped
        BY <1>a, <3>2 DEF Owner, OwnersOf
      <4>2. Outside(m)' = Outside(m)
        BY <1>a, <4>1 DEF Outside, Owner
      <4>. QED BY <4>2
    <3>. QED BY <3>1, <3>2
  <2>. QED BY <1>a, <1>d, <2>1, MoveOnce DEF IInv
<1>. QED BY <1>1, <1>2, <1>3, <1>4 DEF IInv

------------------------------------------------------------------------------
(* Every step is one of the actions above.                                    *)
LEMMA NextIInv == IInv /\ [Next]_vars => IInv'
<1>. SUFFICES ASSUME IInv, [Next]_vars PROVE IInv'
  OBVIOUS
<1>1. CASE \E m \in Msgs : Clunk(m) \/ Flush(m) \/ \E k \in 1 .. MaxParts : Write(m, k)
  BY <1>1, ClunkIInv, FlushIInv, WriteIInv
<1>2. CASE \E r \in Readers : Fetch(r) \/ ReadReply(r) \/ ReadAbandon(r)
  BY <1>2, FetchIInv, ReadReplyIInv, ReadAbandonIInv
<1>3. CASE \E r \in Readers : ReadStart(r) \/ ReadEof(r)
  BY <1>3, ReaderIInv
<1>4. CASE CoreTake \/ StatLength \/ OrphanPop \/ \E r \in Readers : Walk(r) \/ Stat(r)
  BY <1>4, PopIInv
<1>5. CASE UNCHANGED vars
  <2>1. TypeOK' /\ Buffered' /\ Fetching' /\ Bounded'
    BY <1>5 DEF vars, IInv, TypeOK, Buffered, Fetching, Bounded, writing, fetching
  <2>2. \A m \in Msgs : (Full(m)' <=> Full(m)) /\ Sent(m)' = Sent(m) /\ Outside(m)' = Outside(m)
    BY <1>5 DEF vars, Full, Sent, Part, Outside, Owner, fetching
  <2>3. AllWhole'
    BY <1>5, <2>2, StillWhole DEF vars, IInv, fetching
  <2>4. Once'
    BY <1>5, <2>2, MoveOnce DEF vars, IInv
  <2>. QED BY <2>1, <2>3, <2>4 DEF IInv
<1>. QED BY <1>1, <1>2, <1>3, <1>4, <1>5 DEF Next

(* The inductive invariant holds of every behaviour.                          *)
LEMMA Invariance == Spec => []IInv
<1>1. Init => IInv
  BY InitIInv
<1>2. IInv /\ [Next]_vars => IInv'
  BY NextIInv
<1>. QED BY <1>1, <1>2, PTL DEF Spec

(* What is queued, held or received is the prompt of its owner.               *)
LEMMA IntactInv == IInv => PromptsIntact
<1>. SUFFICES ASSUME IInv PROVE PromptsIntact
  OBVIOUS
<1>1. ASSUME NEW i \in 1 .. Len(queue) PROVE queue[i] = Sent(Owner(queue[i]))
  BY FullIs DEF IInv, AllWhole, Whole
<1>2. ASSUME NEW r \in Readers, item[r] # <<>> PROVE item[r] = Sent(Owner(item[r]))
  BY <1>2, FullIs DEF IInv, AllWhole, Whole
<1>3. ASSUME NEW r \in Readers, got[r] # <<>> PROVE got[r] = Slice(Sent(Owner(got[r])), 0)
  BY <1>3, FullIs DEF IInv, AllWhole
<1>. QED BY <1>1, <1>2, <1>3 DEF PromptsIntact

(* The places of a prompt are those outside the queue and that in the queue.  *)
LEMMA PlacesAre ==
  ASSUME IInv, NEW m \in Msgs
  PROVE  Places(m) = {<<"queue", i>> : i \in {j \in 1 .. Len(queue) : Owner(queue[j]) = m}}
                        \union Outside(m)
<1>1. ASSUME NEW s \in Readers
      PROVE  (\E i \in 1 .. Len(got[s]) : got[s][i].msg = m)
                <=> got[s] # <<>> /\ Owner(got[s]) = m
  <2>1. CASE got[s] = <<>>
    BY <2>1, EmptySeq
  <2>2. CASE got[s] # <<>>
    <3>1. PICK n \in Msgs : Full(n) /\ got[s] = Slice(Sent(n), 0)
      BY <2>2 DEF IInv, AllWhole
    <3>2. /\ Owner(got[s]) = n /\ Len(got[s]) \in 1 .. Count
          /\ \A i \in 1 .. Len(got[s]) : got[s][i].msg = n
      BY <3>1, FullIs DEF IInv
    <3>3. 1 \in 1 .. Len(got[s])
      BY <3>2
    <3>. QED BY <2>2, <3>2, <3>3
  <2>. QED BY <2>1, <2>2
<1>2. {s \in Readers : \E i \in 1 .. Len(got[s]) : got[s][i].msg = m}
        = {s \in Readers : got[s] # <<>> /\ Owner(got[s]) = m}
  BY <1>1
<1>. QED BY <1>2 DEF Places, Outside

(* The place in the queue and that outside exclude each other, and one of     *)
(* them is there.                                                             *)
LEMMA OneInv == IInv => PromptsInOnePlace
<1>. SUFFICES ASSUME IInv, NEW m \in Msgs
              PROVE  Cardinality(Places(m)) = IF Full(m) THEN 1 ELSE 0
  BY DEF PromptsInOnePlace, Full
<1>1. CASE Queued(m)
  <2>1. PICK i \in 1 .. Len(queue) : Owner(queue[i]) = m
    BY <1>1 DEF Queued
  <2>2. Outside(m) = {} /\ Full(m) /\ {j \in 1 .. Len(queue) : Owner(queue[j]) = m} = {i}
    BY <1>1, <2>1 DEF IInv, Once
  <2>3. Places(m) = {<<"queue", i>>}
    BY <2>2, PlacesAre
  <2>. QED BY <2>2, <2>3, FS_Singleton
<1>2. CASE ~Queued(m) /\ Outside(m) # {}
  <2>1. PICK x : x \in Outside(m)
    BY <1>2
  <2>2. Outside(m) = {x}
    BY <2>1 DEF IInv, Once
  <2>3. Full(m) /\ Places(m) = {x}
    BY <1>2, <2>2, PlacesAre DEF IInv, Once, Queued
  <2>. QED BY <2>3, FS_Singleton
<1>3. CASE ~Queued(m) /\ Outside(m) = {}
  <2>1. ~Full(m) /\ Places(m) = {}
    BY <1>3, PlacesAre DEF IInv, Once, Queued
  <2>. QED BY <2>1, FS_EmptySet
<1>. QED BY <1>1, <1>2, <1>3

(* A reader with a prompt has no goroutine, and its prompt is of one owner.   *)
LEMMA OpenInv == IInv => OpenGetsOne
<1>. SUFFICES ASSUME IInv PROVE OpenGetsOne
  OBVIOUS
<1>1. ASSUME NEW r \in Readers, got[r] # <<>>
      PROVE  /\ fetch[r] = "none" /\ item[r] = <<>>
             /\ \A i, j \in 1 .. Len(got[r]) : got[r][i].msg = got[r][j].msg
  <2>1. fetch[r] = "none" /\ item[r] = <<>>
    BY <1>1 DEF IInv, TypeOK, Fetching
  <2>2. PICK n \in Msgs : Full(n) /\ got[r] = Slice(Sent(n), 0)
    BY <1>1 DEF IInv, AllWhole
  <2>. QED BY <2>1, <2>2, FullIs DEF IInv
<1>2. \A r \in Readers : got[r] = <<>> => Len(got[r]) = 0
  BY EmptySeq
<1>. QED BY <1>1, <1>2 DEF IInv, OpenGetsOne, OnePromptPerOpen

(* Prompts are intact wherever they are: the buffer of the fid takes the      *)
(* Twrites in any order (server.go 997-1015) and the clunk flushes it whole   *)
(* (1111-1132), for any number of prompts, parts, readers and stats.          *)
THEOREM PromptsStayWhole == Spec => []PromptsIntact
<1>1. IInv => PromptsIntact
  BY IntactInv
<1>. QED BY <1>1, Invariance, PTL

(* A prompt is at one place from its flush on, however the core, the reads,   *)
(* the walks, the stats and the abandoned reads compete for the queue         *)
(* (sessionfile.go 101-107, server.go 339-359, runfilestore.go 57-74).        *)
THEOREM PromptsGoOnce == Spec => []PromptsInOnePlace
<1>1. IInv => PromptsInOnePlace
  BY OneInv
<1>. QED BY <1>1, Invariance, PTL

(* An open of fifo.out gets at most one prompt: the read that looks for the   *)
(* end of the file does not pop (server.go 929-932).                          *)
THEOREM OneForAnOpen == Spec => []OpenGetsOne
<1>1. IInv => OpenGetsOne
  BY OpenInv
<1>. QED BY <1>1, Invariance, PTL
==============================================================================
