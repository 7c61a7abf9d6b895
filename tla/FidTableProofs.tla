---------------------------- MODULE FidTableProofs ----------------------------
(* Proofs about FidTable for any connections, fids, names, sessions and       *)
(* number of writes.                                                          *)
EXTENDS FidTable, SequenceTheorems, TLAPS

(* ConnsListed, said of the slots of the array one by one.                    *)
Listed ==
    /\ \A k \in 1 .. len : arr[k] \in Conns /\ link[arr[k]] = "open"
    /\ \A j, k \in 1 .. len : j # k => arr[j] # arr[k]
    /\ \A c \in Conns : link[c] = "open" => \E k \in 1 .. len : arr[k] = c

(* Every slot the range loop can reach holds a connection, also one that is   *)
(* gone, and never the nil that fills up a new array.                         *)
InReach ==
    ranging =>
        \A k \in 1 .. lim :
            /\ view = <<>> => k <= Len(arr) /\ arr[k] \in Conns
            /\ view # <<>> => k <= Len(view) /\ view[k] \in Conns

(* Only open connections have walks and fids; a walk has the lock of its      *)
(* connection, a name and, once it found it, a session.                       *)
OpenHasAll ==
    \A c \in Conns : link[c] # "open" => walk[c] = "idle" /\ \A f \in Fids : path[c][f] = NoId
WalkHolds ==
    \A c \in Conns :
        /\ c \in locked <=> walk[c] # "idle"
        /\ walk[c] # "idle" => target[c] \in Ids
        /\ walk[c] = "found" => found[c] \in Sessions
Paired == \A c \in Conns, f \in Fids : path[c][f] # NoId => means[c][f] \in Sessions

(* Inside OnRename the table has the session under its new name already.      *)
Moving ==
    /\ ranging => from \in Ids /\ to \in Ids /\ dir[from] = NoSession /\ dir[to] # NoSession
    /\ ~ranging => due = {}

(* Until its connection was visited, what means the session moved still bears *)
(* the old name; everything else leads where it was meant to.                 *)
Leads(c, i, s) == dir[i] = s \/ (c \in due /\ i = from /\ s = dir[to])
Followed ==
    \A c \in Conns \ missed :
        /\ \A f \in Fids : path[c][f] # NoId => Leads(c, path[c][f], means[c][f])
        /\ walk[c] = "found" => Leads(c, target[c], found[c])

(* WriteArrives, inside OnRename too.                                         *)
WritesLead == \A w \in writes : ~w.moved /\ ~w.unreached => dir[w.name] = w.for

IInv ==
    /\ TypeOK
    /\ Listed /\ InReach
    /\ OpenHasAll /\ WalkHolds /\ Paired
    /\ Moving /\ Followed /\ WritesLead

USE NonesAreNone

------------------------------------------------------------------------------
(* A function on 1..n is a sequence of length n.                              *)
LEMMA FcnIsSeq ==
  ASSUME NEW S, NEW n \in Nat, NEW g \in [1 .. n -> S]
  PROVE  g \in Seq(S) /\ Len(g) = n /\ DOMAIN g = 1 .. n
<1>1. g \in Seq(S)
  OBVIOUS
<1>2. Len(g) \in Nat /\ 1 .. Len(g) = 1 .. n
  BY <1>1
<1>3. Len(g) = n
  BY <1>2
<1>. QED BY <1>1, <1>2, <1>3

(* append keeps what is listed and makes room for one more.                   *)
LEMMA GrownKeeps ==
  ASSUME TypeOK
  PROVE  /\ Grown \in Seq(Conns \union {NoConn})
         /\ Len(Grown) >= Len(arr) /\ len + 1 \in 1 .. Len(Grown)
         /\ \A k \in 1 .. Len(arr) : Grown[k] = arr[k]
         /\ len < Len(arr) => Grown = arr
<1>. DEFINE N == IF len = 0 THEN 1 ELSE len
            G == [k \in 1 .. N |-> NoConn]
<1>1. /\ arr \in Seq(Conns \union {NoConn}) /\ Len(arr) \in Nat
      /\ len \in 0 .. Len(arr) /\ N \in Nat \ {0}
  BY DEF TypeOK
<1>2. G \in Seq(Conns \union {NoConn}) /\ Len(G) = N
  <2>. HIDE DEF N
  <2>1. G \in [1 .. N -> Conns \union {NoConn}]
    OBVIOUS
  <2>. HIDE DEF G
  <2>. QED BY <1>1, <2>1
<1>. HIDE DEF N, G
<1>3. CASE len < Len(arr)
  BY <1>1, <1>3 DEF Grown
<1>4. CASE ~(len < Len(arr))
  <2>1. Grown = arr \o G
    BY <1>4 DEF Grown, G, N
  <2>2. /\ arr \o G \in Seq(Conns \union {NoConn}) /\ Len(arr \o G) = Len(arr) + N
        /\ \A k \in 1 .. Len(arr) + N :
              (arr \o G)[k] = IF k <= Len(arr) THEN arr[k] ELSE G[k - Len(arr)]
    BY <1>1, <1>2
  <2>. QED BY <1>1, <1>4, <2>1, <2>2
<1>. QED BY <1>3, <1>4

(* The removal moves down what is listed behind the connection.               *)
LEMMA WithoutMoves ==
  ASSUME TypeOK, NEW i \in 1 .. len
  PROVE  /\ Without(i) \in Seq(Conns \union {NoConn}) /\ Len(Without(i)) = Len(arr)
         /\ \A k \in 1 .. Len(arr) :
              Without(i)[k] = IF i <= k /\ k < len THEN arr[k + 1] ELSE arr[k]
<1>1. /\ arr \in Seq(Conns \union {NoConn}) /\ Len(arr) \in Nat /\ len \in 0 .. Len(arr)
      /\ DOMAIN arr = 1 .. Len(arr) /\ \A k \in 1 .. Len(arr) : arr[k] \in Conns \union {NoConn}
  BY DEF TypeOK
<1>2. \A k \in 1 .. Len(arr) :
        (IF i <= k /\ k < len THEN arr[k + 1] ELSE arr[k]) \in Conns \union {NoConn}
  BY <1>1
<1>3. Without(i) \in [1 .. Len(arr) -> Conns \union {NoConn}]
  BY <1>1, <1>2 DEF Without
<1>4. Without(i) \in Seq(Conns \union {NoConn}) /\ Len(Without(i)) = Len(arr)
  BY <1>1, <1>3
<1>. QED BY <1>1, <1>4 DEF Without

(* The type of a write on its way, and what noting that it moved does to it.  *)
Write == [name : Ids, for : Sessions, unreached : BOOLEAN, moved : BOOLEAN]

LEMMA NotedMove ==
  ASSUME NEW w \in Write, NEW b \in BOOLEAN
  PROVE  LET v == [w EXCEPT !.moved = b] IN
           /\ v \in Write /\ v.name = w.name /\ v.for = w.for /\ v.unreached = w.unreached
           /\ v.moved <=> b
<1>1. [w EXCEPT !.moved = b] \in Write
  BY DEF Write
<1>2. /\ [w EXCEPT !.moved = b].name = w.name /\ [w EXCEPT !.moved = b].for = w.for
      /\ [w EXCEPT !.moved = b].unreached = w.unreached
  BY Zenon DEF Write
<1>3. [w EXCEPT !.moved = b].moved <=> b
  BY Zenon DEF Write
<1>. QED BY <1>1, <1>2, <1>3

(* A write that is not noted as moved had not moved, nor does it now.         *)
LEMMA NotedWrites ==
  ASSUME NEW i \in Ids, writes \subseteq Write,
         writes' = {[w EXCEPT !.moved = @ \/ w.for = dir[i]] : w \in writes}
  PROVE  \A w \in writes' :
           /\ w \in Write
           /\ \E v \in writes :
                /\ w.name = v.name /\ w.for = v.for /\ w.unreached = v.unreached
                /\ ~w.moved => ~v.moved /\ v.for # dir[i]
<1>1. SUFFICES ASSUME NEW v \in writes
               PROVE  LET w == [v EXCEPT !.moved = @ \/ v.for = dir[i]] IN
                        /\ w \in Write /\ w.name = v.name /\ w.for = v.for
                        /\ w.unreached = v.unreached
                        /\ w.moved <=> (v.moved \/ v.for = dir[i])
  BY Zenon
<1>2. (v.moved \/ v.for = dir[i]) \in BOOLEAN
  OBVIOUS
<1>. QED BY <1>2, NotedMove, Zenon

(* What Listed says is what the property says of the slice.                   *)
LEMMA ListedIsConnsListed ==
  ASSUME TypeOK, Listed
  PROVE  ToSet(SubSeq(arr, 1, len)) = {c \in Conns : link[c] = "open"} /\ ConnsListed
<1>1. /\ len \in Nat /\ len <= Len(arr) /\ \A k \in 1 .. len : arr[k] \in Conns \union {NoConn}
  BY DEF TypeOK
<1>. DEFINE L == SubSeq(arr, 1, len)
<1>2. L \in Seq(Conns \union {NoConn}) /\ Len(L) = len /\ \A k \in 1 .. len : L[k] = arr[k]
  BY <1>1
<1>3. DOMAIN L = 1 .. len
  BY <1>2
<1>. HIDE DEF L
<1>4. ToSet(L) = {c \in Conns : link[c] = "open"}
  BY <1>2, <1>3 DEF Listed, ToSet
<1>5. IsInjective(L)
  BY <1>2, <1>3 DEF Listed, IsInjective
<1>. QED BY <1>4, <1>5 DEF ConnsListed, L

(* At first there is no connection and no fid.                                *)
LEMMA InitIInv ==
  ASSUME Init
  PROVE  IInv
<1>. USE DEF Init
<1>1. TypeOK
  <2>1. idx \in Nat \ {0} /\ lim \in Nat /\ len \in 0 .. Len(arr)
    OBVIOUS
  <2>2. arr \in Seq(Conns \union {NoConn}) /\ view \in Seq(Conns \union {NoConn})
    OBVIOUS
  <2>. QED BY <2>1, <2>2 DEF IInv, TypeOK
<1>2. Listed
  BY DEF IInv, TypeOK, Listed
<1>3. InReach
  BY DEF IInv, TypeOK, InReach
<1>4. OpenHasAll
  BY DEF IInv, TypeOK, OpenHasAll, Listed, WalkHolds
<1>5. WalkHolds
  BY DEF IInv, TypeOK, WalkHolds
<1>6. Paired
  BY DEF IInv, TypeOK, Paired, WalkHolds
<1>7. Moving
  BY DEF IInv, TypeOK, Moving
<1>8. Followed
  BY DEF IInv, TypeOK, Followed
<1>9. WritesLead
  BY DEF IInv, TypeOK, WritesLead, Moving
<1>. QED BY <1>1, <1>2, <1>3, <1>4, <1>5, <1>6, <1>7, <1>8, <1>9 DEF IInv

(* A new connection takes the slot behind the last, in the old array or a     *)
(* larger one, and has no fids.                                               *)
LEMMA ConnectIInv ==
  ASSUME NEW c \in Conns, IInv, Connect(c)
  PROVE  IInv'
<1>. USE DEF Connect, walking, history
<1>a. /\ Grown \in Seq(Conns \union {NoConn})
      /\ Len(Grown) >= Len(arr) /\ len + 1 \in 1 .. Len(Grown)
      /\ \A k \in 1 .. Len(arr) : Grown[k] = arr[k]
      /\ len < Len(arr) => Grown = arr
      /\ Len(arr) \in Nat /\ len \in 0 .. Len(arr)
  BY GrownKeeps DEF IInv, TypeOK
<1>b. /\ arr' \in Seq(Conns \union {NoConn}) /\ Len(arr') = Len(Grown) /\ len' \in 1 .. Len(arr')
      /\ \A k \in 1 .. Len(arr') : arr'[k] = IF k = len' THEN c ELSE Grown[k]
  BY <1>a
<1>1. TypeOK'
  BY <1>a, <1>b DEF IInv, TypeOK
<1>2. Listed'
  <2>1. \A k \in 1 .. len : /\ k \in 1 .. Len(arr) /\ k \in 1 .. Len(arr')
                            /\ arr'[k] = arr[k] /\ arr[k] # c
    BY <1>a, <1>b DEF IInv, Listed
  <2>2. arr'[len'] = c /\ len' = len + 1
    BY <1>b
  <2>3. \A d \in Conns : link'[d] = "open" <=> link[d] = "open" \/ d = c
    BY DEF IInv, TypeOK
  <2>4. \A k \in 1 .. len' : k \in 1 .. len \/ k = len'
    BY <1>a, <2>2
  <2>5. 1 .. len \subseteq 1 .. len' /\ len' \in 1 .. len'
    BY <1>a, <2>2
  <2>. QED BY <2>1, <2>2, <2>3, <2>4, <2>5 DEF IInv, Listed
<1>3. InReach'
  BY <1>a, <1>b DEF IInv, InReach
<1>4. OpenHasAll'
  BY DEF IInv, OpenHasAll
<1>5. WalkHolds'
  BY DEF IInv, WalkHolds
<1>6. Paired'
  BY DEF IInv, Paired
<1>7. Moving'
  BY DEF IInv, Moving
<1>8. Followed'
  BY <1>a, <1>b DEF IInv, Followed, Leads
<1>9. WritesLead'
  BY DEF IInv, WritesLead
<1>. QED BY <1>1, <1>2, <1>3, <1>4, <1>5, <1>6, <1>7, <1>8, <1>9 DEF IInv

(* A removal moves down in place what is listed behind it, also under the     *)
(* range loop, and every slot still holds a connection.                       *)
LEMMA DisconnectIInv ==
  ASSUME NEW c \in Conns, IInv, Disconnect(c)
  PROVE  IInv'
<1>. USE DEF Disconnect, loop, walking, history
<1>a. PICK i \in 1 .. len : arr[i] = c /\ arr' = Without(i) /\ len' = len - 1
  OBVIOUS
<1>b. /\ arr' \in Seq(Conns \union {NoConn}) /\ Len(arr') = Len(arr)
      /\ Len(arr) \in Nat /\ len \in 1 .. Len(arr)
      /\ \A k \in 1 .. Len(arr) : arr'[k] = IF i <= k /\ k < len THEN arr[k + 1] ELSE arr[k]
  BY <1>a, WithoutMoves DEF IInv, TypeOK
<1>1. TypeOK'
  BY <1>a, <1>b DEF IInv, TypeOK
<1>2. Listed'
  <2>1. \A k \in 1 .. len' : /\ k \in 1 .. len /\ k + 1 \in 1 .. len /\ k \in 1 .. Len(arr)
                             /\ arr'[k] = IF i <= k THEN arr[k + 1] ELSE arr[k]
    BY <1>a, <1>b
  <2>2. \A k \in 1 .. len' : arr'[k] \in Conns /\ link[arr'[k]] = "open" /\ arr'[k] # c
    BY <1>a, <2>1 DEF IInv, Listed
  <2>3. \A j, k \in 1 .. len' : j # k => arr'[j] # arr'[k]
    BY <1>a, <1>b, <2>1 DEF IInv, Listed
  <2>4. ASSUME NEW d \in Conns, link'[d] = "open"
        PROVE  \E k \in 1 .. len' : arr'[k] = d
    <3>1. d # c /\ link[d] = "open"
      BY <2>4 DEF IInv, TypeOK
    <3>2. PICK k \in 1 .. len : arr[k] = d
      BY <3>1 DEF IInv, Listed
    <3>3. CASE k < i
      BY <1>a, <1>b, <2>1, <3>2, <3>3
    <3>4. CASE i < k
      <4>1. k - 1 \in 1 .. len'
        BY <1>a, <1>b, <3>4
      <4>2. arr'[k - 1] = d
        BY <1>a, <1>b, <2>1, <3>2, <3>4, <4>1
      <4>. QED BY <4>1, <4>2
    <3>. QED BY <1>a, <3>1, <3>2, <3>3, <3>4
  <2>. QED BY <2>2, <2>3, <2>4 DEF Listed
<1>3. InReach'
  <2>1. ASSUME ranging, view = <<>>, NEW k \in 1 .. lim
        PROVE  k <= Len(arr') /\ arr'[k] \in Conns
    <3>1. k \in 1 .. Len(arr) /\ arr[k] \in Conns
      BY <1>b, <2>1 DEF IInv, InReach
    <3>2. k < len => arr[k + 1] \in Conns
      BY <1>b, <3>1 DEF IInv, Listed
    <3>. QED BY <1>b, <3>1, <3>2
  <2>. QED BY <2>1 DEF IInv, InReach
<1>4. OpenHasAll'
  BY DEF IInv, TypeOK, OpenHasAll
<1>5. WalkHolds'
  BY DEF IInv, WalkHolds
<1>6. Paired'
  BY DEF IInv, TypeOK, Paired
<1>7. Moving'
  BY DEF IInv, Moving
<1>8. Followed'
  BY <1>a, <1>b DEF IInv, TypeOK, Followed, Leads
<1>9. WritesLead'
  BY DEF IInv, WritesLead
<1>. QED BY <1>1, <1>2, <1>3, <1>4, <1>5, <1>6, <1>7, <1>8, <1>9 DEF IInv

(* A walk takes the lock of its connection.                                   *)
LEMMA WalkStartIInv ==
  ASSUME NEW c \in Conns, NEW i \in Ids, IInv, WalkStart(c, i)
  PROVE  IInv'
<1>. USE DEF WalkStart, loop, history
<1>1. TypeOK'
  BY DEF IInv, TypeOK
<1>2. Listed'
  BY DEF IInv, Listed
<1>3. InReach'
  BY DEF IInv, InReach
<1>4. OpenHasAll'
  BY DEF IInv, OpenHasAll
<1>5. WalkHolds'
  BY DEF IInv, TypeOK, WalkHolds
<1>6. Paired'
  BY DEF IInv, Paired
<1>7. Moving'
  BY DEF IInv, Moving
<1>8. Followed'
  BY DEF IInv, Followed, Leads
<1>9. WritesLead'
  BY DEF IInv, WritesLead
<1>. QED BY <1>1, <1>2, <1>3, <1>4, <1>5, <1>6, <1>7, <1>8, <1>9 DEF IInv

(* A lookup waits for a rename to end, so that what it finds is what the name *)
(* means.                                                                     *)
LEMMA WalkLookupIInv ==
  ASSUME NEW c \in Conns, IInv, WalkLookup(c)
  PROVE  IInv'
<1>. USE DEF WalkLookup, loop, history
<1>1. TypeOK'
  <2>1. dir[target[c]] \in Sessions
    BY DEF IInv, TypeOK, WalkHolds
  <2>2. /\ walk' \in [Conns -> {"idle", "walking", "found"}]
        /\ found' \in [Conns -> Sessions \union {NoSession}]
    BY <2>1 DEF IInv, TypeOK
  <2>. QED BY <2>1, <2>2 DEF IInv, TypeOK
<1>2. Listed'
  BY DEF IInv, Listed
<1>3. InReach'
  BY DEF InReach
<1>4. OpenHasAll'
  BY DEF IInv, OpenHasAll
<1>5. WalkHolds'
  BY DEF IInv, TypeOK, WalkHolds
<1>6. Paired'
  BY DEF IInv, Paired
<1>7. Moving'
  BY DEF IInv, Moving
<1>8. Followed'
  BY DEF IInv, TypeOK, Followed, Leads
<1>9. WritesLead'
  BY DEF IInv, WritesLead
<1>. QED BY <1>1, <1>2, <1>3, <1>4, <1>5, <1>6, <1>7, <1>8, <1>9 DEF IInv

(* A walk that finds nothing enters nothing.                                  *)
LEMMA WalkFailIInv ==
  ASSUME NEW c \in Conns, IInv, WalkFail(c)
  PROVE  IInv'
<1>. USE DEF WalkFail, WalkEnd, loop, history
<1>1. TypeOK'
  BY DEF IInv, TypeOK
<1>2. Listed'
  BY DEF IInv, Listed
<1>3. InReach'
  BY DEF InReach
<1>4. OpenHasAll'
  BY DEF IInv, OpenHasAll
<1>5. WalkHolds'
  BY DEF IInv, TypeOK, WalkHolds
<1>6. Paired'
  BY DEF IInv, Paired
<1>7. Moving'
  BY DEF IInv, Moving
<1>8. Followed'
  BY DEF IInv, Followed, Leads, Moving, WalkHolds
<1>9. WritesLead'
  BY DEF IInv, WritesLead
<1>. QED BY <1>1, <1>2, <1>3, <1>4, <1>5, <1>6, <1>7, <1>8, <1>9 DEF IInv

(* A fid leads where its walk did: to what was found or, during a rename that *)
(* did not visit the connection yet, to the name it will replace.             *)
LEMMA WalkEnterIInv ==
  ASSUME NEW c \in Conns, NEW f \in Fids, IInv, WalkEnter(c, f)
  PROVE  IInv'
<1>. USE DEF WalkEnter, WalkEnd, loop, history
<1>1. TypeOK'
  BY DEF IInv, TypeOK
<1>2. Listed'
  BY DEF IInv, Listed
<1>3. InReach'
  BY DEF IInv, InReach
<1>4. OpenHasAll'
  BY DEF IInv, OpenHasAll
<1>5. WalkHolds'
  BY DEF IInv, TypeOK, WalkHolds
<1>6. Paired'
  BY DEF IInv, TypeOK, Paired, WalkHolds
<1>7. Moving'
  BY DEF IInv, Moving
<1>8. Followed'
  BY DEF IInv, TypeOK, Followed, Leads
<1>9. WritesLead'
  BY DEF IInv, WritesLead
<1>. QED BY <1>1, <1>2, <1>3, <1>4, <1>5, <1>6, <1>7, <1>8, <1>9 DEF IInv

(* A clunk takes the fid out; its write goes on under the name the fid had.   *)
LEMMA ClunkIInv ==
  ASSUME NEW c \in Conns, NEW f \in Fids, IInv, Clunk(c, f)
  PROVE  IInv'
<1>. USE DEF Clunk, loop, walking, history
<1>a. path[c][f] \in Ids /\ means[c][f] \in Sessions
  BY DEF IInv, TypeOK, Paired
<1>b. Unreached(c, f) \in BOOLEAN
  BY DEF Unreached
<1>c. PICK u \in BOOLEAN :
        /\ u <=> Unreached(c, f)
        /\ writes' = writes \union {[name |-> path[c][f], for |-> means[c][f],
                                      unreached |-> u, moved |-> FALSE]}
  BY <1>b, Zenon
<1>d. [name |-> path[c][f], for |-> means[c][f], unreached |-> u, moved |-> FALSE] \in Write
  BY <1>a DEF Write
<1>e. ~u => dir[path[c][f]] = means[c][f]
  BY <1>a, <1>c DEF IInv, TypeOK, Followed, Leads, Unreached
<1>1. TypeOK'
  <2>1. writes' \subseteq Write
    BY <1>c, <1>d DEF IInv, TypeOK, Write
  <2>2. /\ path' \in [Conns -> [Fids -> Ids \union {NoId}]]
        /\ means' \in [Conns -> [Fids -> Sessions \union {NoSession}]]
    BY DEF IInv, TypeOK
  <2>. QED BY <2>1, <2>2 DEF IInv, TypeOK, Write
<1>2. Listed'
  BY DEF IInv, Listed
<1>3. InReach'
  BY DEF IInv, InReach
<1>4. OpenHasAll'
  BY DEF IInv, OpenHasAll
<1>5. WalkHolds'
  BY DEF IInv, WalkHolds
<1>6. Paired'
  BY DEF IInv, TypeOK, Paired
<1>7. Moving'
  BY DEF IInv, Moving
<1>8. Followed'
  BY DEF IInv, TypeOK, Followed, Leads
<1>9. WritesLead'
  BY <1>c, <1>e DEF IInv, WritesLead
<1>. QED BY <1>1, <1>2, <1>3, <1>4, <1>5, <1>6, <1>7, <1>8, <1>9 DEF IInv

(* A write that was handled is gone.                                          *)
LEMMA HandleWriteIInv ==
  ASSUME IInv, HandleWrite
  PROVE  IInv'
<1>. USE DEF HandleWrite, loop, walking, history
<1>1. TypeOK'
  BY DEF IInv, TypeOK
<1>2. Listed'
  BY DEF IInv, Listed
<1>3. InReach'
  BY DEF InReach
<1>4. OpenHasAll'
  BY DEF IInv, OpenHasAll
<1>5. WalkHolds'
  BY DEF IInv, WalkHolds
<1>6. Paired'
  BY DEF IInv, Paired
<1>7. Moving'
  BY DEF IInv, Moving
<1>8. Followed'
  BY DEF IInv, Followed, Leads
<1>9. WritesLead'
  BY DEF IInv, WritesLead
<1>. QED BY <1>1, <1>2, <1>3, <1>4, <1>5, <1>6, <1>7, <1>8, <1>9 DEF IInv

(* All open connections are due at the start of a rename, and the writes on   *)
(* their way to the session are marked.                                       *)
LEMMA RenameStartIInv ==
  ASSUME NEW i \in Ids, NEW j \in Ids, IInv, RenameStart(i, j)
  PROVE  IInv'
<1>. USE DEF RenameStart, Renamable, walking
<1>a. due' = {c \in Conns : link[c] = "open"}
  BY ListedIsConnsListed DEF IInv
<1>b. \A w \in writes' :
        /\ w \in Write
        /\ \E v \in writes : /\ w.name = v.name /\ w.for = v.for /\ w.unreached = v.unreached
                             /\ ~w.moved => ~v.moved /\ v.for # dir[i]
  <2>1. writes \subseteq Write
    BY DEF IInv, TypeOK, Write
  <2>. QED BY <2>1, NotedWrites, Zenon
<1>c. /\ i # j /\ dir' \in [Ids -> Sessions \union {NoSession}]
      /\ dir'[j] = dir[i] /\ dir'[i] = NoSession
      /\ \A k \in Ids \ {i, j} : dir'[k] = dir[k]
  BY DEF IInv, TypeOK
<1>1. TypeOK'
  <2>1. writes' \subseteq Write
    BY <1>b
  <2>2. idx' \in Nat \ {0} /\ lim' \in Nat /\ view' \in Seq(Conns \union {NoConn})
    BY DEF IInv, TypeOK
  <2>3. due' \subseteq Conns
    BY <1>a
  <2>. QED BY <1>c, <2>1, <2>2, <2>3 DEF IInv, TypeOK, Write
<1>2. Listed'
  BY <1>a DEF IInv, Listed
<1>3. InReach'
  BY DEF IInv, TypeOK, Listed, InReach
<1>4. OpenHasAll'
  BY DEF IInv, OpenHasAll
<1>5. WalkHolds'
  BY DEF IInv, WalkHolds
<1>6. Paired'
  BY DEF IInv, Paired
<1>7. Moving'
  BY DEF IInv, TypeOK, Moving
<1>8. Followed'
  <2>1. ASSUME NEW d \in Conns, link[d] = "open", NEW n \in Ids, NEW m \in Sessions, dir[n] = m
        PROVE  Leads(d, n, m)'
    BY <1>a, <1>c, <2>1 DEF Leads
  <2>2. ASSUME NEW d \in Conns, NEW n, NEW m, ~ranging, Leads(d, n, m)
        PROVE  dir[n] = m
    BY <2>2 DEF IInv, Moving, Leads
  <2>3. ASSUME NEW d \in Conns \ missed, NEW f \in Fids, path[d][f] # NoId
        PROVE  Leads(d, path[d][f], means[d][f])'
    BY <2>1, <2>2, <2>3 DEF IInv, TypeOK, Followed, OpenHasAll, Paired
  <2>4. ASSUME NEW d \in Conns \ missed, walk[d] = "found"
        PROVE  Leads(d, target[d], found[d])'
    BY <2>1, <2>2, <2>4 DEF IInv, Followed, OpenHasAll, WalkHolds
  <2>. QED BY <2>3, <2>4 DEF Followed
<1>9. WritesLead'
  <2>. SUFFICES ASSUME NEW w \in writes', ~w.moved, ~w.unreached PROVE dir'[w.name] = w.for
    BY DEF WritesLead
  <2>1. PICK v \in writes : /\ w.name = v.name /\ w.for = v.for
                             /\ ~v.unreached /\ ~v.moved /\ v.for # dir[i]
    BY <1>b
  <2>2. v.name \in Ids /\ v.for \in Sessions /\ dir[v.name] = v.for
    BY <2>1 DEF IInv, TypeOK, WritesLead
  <2>. QED BY <1>c, <2>1, <2>2
<1>. QED BY <1>1, <1>2, <1>3, <1>4, <1>5, <1>6, <1>7, <1>8, <1>9 DEF IInv

(* A visit gives the fids of a connection the new name, and the connection is *)
(* no longer due.                                                             *)
LEMMA RenameVisitIInv ==
  ASSUME IInv, RenameVisit
  PROVE  IInv'
<1>. USE DEF RenameVisit, walking
<1>a. PICK c \in Conns : c = At(idx) /\ c \notin locked
  BY DEF IInv, TypeOK, InReach, At
<1>b. path' = [path EXCEPT ![c] = Rewrite(c)] /\ due' = due \ {c}
  BY <1>a
<1>c. Rewrite(c) \in [Fids -> Ids \union {NoId}]
  BY DEF IInv, TypeOK, Rewrite
<1>1. TypeOK'
  <2>1. path' \in [Conns -> [Fids -> Ids \union {NoId}]]
    BY <1>b, <1>c DEF IInv, TypeOK
  <2>2. idx' \in Nat \ {0}
    BY DEF IInv, TypeOK
  <2>. QED BY <2>1, <2>2 DEF IInv, TypeOK
<1>2. Listed'
  BY DEF IInv, Listed
<1>3. InReach'
  BY DEF IInv, InReach
<1>4. OpenHasAll'
  BY <1>b DEF IInv, OpenHasAll, Moving, Rewrite
<1>5. WalkHolds'
  BY DEF IInv, WalkHolds
<1>6. Paired'
  BY <1>b DEF IInv, Paired, Moving, Rewrite
<1>7. Moving'
  BY DEF IInv, Moving
<1>8. Followed'
  BY <1>a, <1>b DEF IInv, TypeOK, Followed, Leads, Moving, WalkHolds, Paired, Rewrite
<1>9. WritesLead'
  BY DEF IInv, WritesLead
<1>. QED BY <1>1, <1>2, <1>3, <1>4, <1>5, <1>6, <1>7, <1>8, <1>9 DEF IInv

(* At the end of the range those still due are the missed ones.               *)
LEMMA RenameEndIInv ==
  ASSUME IInv, RenameEnd
  PROVE  IInv'
<1>. USE DEF RenameEnd, walking
<1>1. TypeOK'
  <2>1. missed' \subseteq Conns
    BY DEF IInv, TypeOK
  <2>2. idx' \in Nat \ {0} /\ lim' \in Nat /\ view' \in Seq(Conns \union {NoConn})
    OBVIOUS
  <2>. QED BY <2>1, <2>2 DEF IInv, TypeOK
<1>2. Listed'
  BY DEF IInv, Listed
<1>3. InReach'
  BY DEF InReach
<1>4. OpenHasAll'
  BY DEF IInv, OpenHasAll
<1>5. WalkHolds'
  BY DEF IInv, WalkHolds
<1>6. Paired'
  BY DEF IInv, Paired
<1>7. Moving'
  BY DEF Moving
<1>8. Followed'
  BY DEF IInv, Followed, Leads, OpenHasAll
<1>9. WritesLead'
  BY DEF IInv, WritesLead
<1>. QED BY <1>1, <1>2, <1>3, <1>4, <1>5, <1>6, <1>7, <1>8, <1>9 DEF IInv

(* Nothing is said of a step in which nothing happens.                        *)
LEMMA StutterIInv ==
  ASSUME IInv, UNCHANGED vars
  PROVE  IInv'
<1>. USE DEF vars
<1>1. TypeOK'
  BY DEF IInv, TypeOK
<1>2. Listed'
  BY DEF IInv, Listed
<1>3. InReach'
  BY DEF IInv, InReach
<1>4. OpenHasAll'
  BY DEF IInv, OpenHasAll
<1>5. WalkHolds'
  BY DEF IInv, WalkHolds
<1>6. Paired'
  BY DEF IInv, Paired
<1>7. Moving'
  BY DEF IInv, Moving
<1>8. Followed'
  BY DEF IInv, Followed, Leads
<1>9. WritesLead'
  BY DEF IInv, WritesLead
<1>. QED BY <1>1, <1>2, <1>3, <1>4, <1>5, <1>6, <1>7, <1>8, <1>9 DEF IInv

(* Every step is one of the actions above. *)
LEMMA NextIInv == IInv /\ [Next]_vars => IInv'
<1>. SUFFICES ASSUME IInv, [Next]_vars PROVE IInv'
  OBVIOUS
<1>1. CASE \E c \in Conns : Connect(c) \/ Disconnect(c)
  BY <1>1, ConnectIInv, DisconnectIInv
<1>2. CASE \E c \in Conns : Walk(c)
  BY <1>2, WalkStartIInv, WalkLookupIInv, WalkFailIInv, WalkEnterIInv DEF Walk
<1>3. CASE (\E c \in Conns : \E f \in Fids : Clunk(c, f)) \/ HandleWrite
  BY <1>3, ClunkIInv, HandleWriteIInv
<1>4. CASE Rename
  BY <1>4, RenameStartIInv, RenameVisitIInv, RenameEndIInv DEF Rename
<1>5. CASE UNCHANGED vars
  BY <1>5, StutterIInv
<1>. QED BY <1>1, <1>2, <1>3, <1>4, <1>5 DEF Next

------------------------------------------------------------------------------
(* The inductive invariant holds of every behaviour.                          *)
LEMMA Invariance == Spec => []IInv
<1>1. Init => IInv
  BY InitIInv
<1>2. IInv /\ [Next]_vars => IInv'
  BY NextIInv
<1>. QED BY <1>1, <1>2, PTL DEF Spec

(* Server.conns lists exactly the open connections, each once, however        *)
(* appends, removals in place and renames follow each other (server.go        *)
(* 264-277, 381-394).                                                         *)
THEOREM ConnsConsistent == Spec => []ConnsOK
<1>1. IInv => ConnsOK
  BY ListedIsConnsListed DEF IInv, ConnsOK
<1>. QED BY <1>1, Invariance, PTL

(* A rename never ranges over a slot without a connection, although removals  *)
(* shorten the slice under it and a new array has slots that are not filled   *)
(* yet (server.go 266-275).                                                   *)
THEOREM RangeMeetsConns == Spec => [](ranging /\ idx <= lim => At(idx) \in Conns)
<1>1. IInv => (ranging /\ idx <= lim => At(idx) \in Conns)
  BY DEF IInv, TypeOK, InReach, At
<1>. QED BY <1>1, Invariance, PTL

(* Once the rename is over, the fids of every connection it did not leave out *)
(* lead to the session they were walked to, those too whose walk was under    *)
(* way when it began (server.go 264-277, 642-695).                            *)
THEOREM FidsAreMoved == Spec => []FidsFollow
<1>1. IInv => FidsFollow
  BY DEF IInv, Moving, Followed, Leads, FidsFollow
<1>. QED BY <1>1, Invariance, PTL

(* A clunked write finds the session its fid was walked to, unless that one   *)
(* is renamed after the clunk, or was renamed before and the rename had left  *)
(* out the connection or not come to it yet (server.go 264-277, 1111-1132).   *)
THEOREM WritesArrive == Spec => []WriteArrives
<1>1. IInv => WriteArrives
  BY DEF IInv, WritesLead, WriteArrives
<1>. QED BY <1>1, Invariance, PTL

==============================================================================
