------------------------------- MODULE FidTable -------------------------------
(* How a rename reaches the open fids of every connection: SessionStore's     *)
(* renameSession calls Server's OnRename with s.mu of the store locked, and   *)
(* OnRename ranges over Server.conns taking each connState.mu in turn         *)
(* (server.go 264-277).  Meanwhile walks resolve names with their             *)
(* connection's lock held (642-695), clunks hand a path to a goroutine that   *)
(* resolves it later (1111-1140), and connections come and go, which shifts   *)
(* the slice OnRename is ranging over (381-394).                              *)
EXTENDS Naturals, FiniteSets, Sequences, SequencesExt

CONSTANTS Conns,      \* connections: each is accepted at most once
          Fids,       \* fid numbers
          Ids,        \* session names
          Sessions,   \* the sessions alive during the run
          MaxWrites,  \* bound on the writes under way at once
          NoConn, NoSession, NoId

ASSUME NonesAreNone == NoConn \notin Conns /\ NoSession \notin Sessions /\ NoId \notin Ids

VARIABLES
    dir,       \* the store's table: name -> session
    ranging,   \* a rename holds the store's lock and is inside OnRename
    from, to,  \* oldID and newID
    idx, lim,  \* the next index of the range loop, and the length it started with
    view,      \* the backing array it ranges over once Server.conns has another
    arr, len,  \* Server.conns: backing array and length
    link,      \* connection -> "new", "open" or "gone"
    locked,    \* connections whose connState.mu is held by a walk
    walk,      \* connection -> "idle", "walking" or "found"
    target,    \* the name the walk resolves
    found,     \* the session it found
    path,      \* connection -> fid -> the name in its path, or NoId
    means,     \* history: the session the fid was walked to
    writes,    \* clunked writes on their way: the name in the path, the session
               \* meant, and (history) whether a rename had not reached the fid
               \* at the clunk, and whether one moved the session since
    due,       \* history: connections the rename still has to visit
    missed     \* history: open connections a rename never visited

walking == <<locked, walk, target, found>>
loop == <<ranging, from, to, idx, lim, view>>
history == <<due, missed>>
vars == <<dir, ranging, from, to, idx, lim, view, arr, len, link, locked, walk, target, found,
          path, means, writes, due, missed>>

Init ==
    /\ dir \in [Ids -> Sessions \union {NoSession}]
    /\ \A s \in Sessions : \E i \in Ids : dir[i] = s /\ \A j \in Ids \ {i} : dir[j] # s
    /\ ranging = FALSE /\ from = NoId /\ to = NoId /\ idx = 1 /\ lim = 0
    /\ view = <<>> /\ arr = <<>> /\ len = 0
    /\ link = [c \in Conns |-> "new"]
    /\ locked = {}
    /\ walk = [c \in Conns |-> "idle"]
    /\ target = [c \in Conns |-> NoId]
    /\ found = [c \in Conns |-> NoSession]
    /\ path = [c \in Conns |-> [f \in Fids |-> NoId]]
    /\ means = [c \in Conns |-> [f \in Fids |-> NoSession]]
    /\ writes = {}
    /\ due = {} /\ missed = {}

-----------------------------------------------------------------------------
(* Serve appends its connection; a full backing array is replaced by one of   *)
(* twice the size, and a range loop goes on over the old one.                 *)
Grown == IF len < Len(arr) THEN arr
         ELSE arr \o [k \in 1 .. (IF len = 0 THEN 1 ELSE len) |-> NoConn]

Connect(c) ==
    /\ link[c] = "new"
    /\ link' = [link EXCEPT ![c] = "open"]
    /\ arr' = [Grown EXCEPT ![len + 1] = c]
    /\ len' = len + 1
    /\ view' = IF ranging /\ view = <<>> /\ len = Len(arr) THEN arr ELSE view
    /\ UNCHANGED <<dir, ranging, from, to, idx, lim, walking, path, means, writes, history>>

(* Mutant: the last element is cut off instead. *)
WithoutLast(i) == arr

(* append(s.conns[:i], s.conns[i+1:]...): the tail moves down in place, and   *)
(* the old last element stays behind the new length.                          *)
Without(i) == [k \in DOMAIN arr |-> IF i <= k /\ k < len THEN arr[k + 1] ELSE arr[k]]

(* The connection is lost and its last handler is through. *)
Disconnect(c) ==
    /\ link[c] = "open" /\ walk[c] = "idle"
    /\ link' = [link EXCEPT ![c] = "gone"]
    /\ path' = [path EXCEPT ![c] = [f \in Fids |-> NoId]]
    /\ means' = [means EXCEPT ![c] = [f \in Fids |-> NoSession]]
    /\ \E i \in 1 .. len :
         /\ arr[i] = c
         /\ arr' = Without(i)
         /\ len' = len - 1
    /\ UNCHANGED <<dir, loop, walking, writes, history>>

-----------------------------------------------------------------------------
(* A walk takes its connection's lock, looks the name up once for every path  *)
(* element below it (each time under the store's lock) and enters the fid.    *)

(* Mutant: the connection's lock is taken only to enter the fid. *)
WalkUnlocked(c, i) ==
    /\ link[c] = "open" /\ walk[c] = "idle" /\ c \notin locked
    /\ walk' = [walk EXCEPT ![c] = "walking"]
    /\ target' = [target EXCEPT ![c] = i]
    /\ UNCHANGED <<dir, loop, arr, len, link, locked, found, path, means, writes, history>>

WalkStart(c, i) ==
    /\ link[c] = "open" /\ walk[c] = "idle" /\ c \notin locked
    /\ locked' = locked \union {c}
    /\ walk' = [walk EXCEPT ![c] = "walking"]
    /\ target' = [target EXCEPT ![c] = i]
    /\ UNCHANGED <<dir, loop, arr, len, link, found, path, means, writes, history>>

WalkEnd(c) ==
    /\ walk' = [walk EXCEPT ![c] = "idle"]
    /\ target' = [target EXCEPT ![c] = NoId]
    /\ found' = [found EXCEPT ![c] = NoSession]
    /\ locked' = locked \ {c}

WalkLookup(c) ==
    /\ walk[c] # "idle" /\ ~ranging
    /\ dir[target[c]] # NoSession
    /\ walk' = [walk EXCEPT ![c] = "found"]
    /\ found' = [found EXCEPT ![c] = dir[target[c]]]
    /\ UNCHANGED <<dir, loop, arr, len, link, locked, target, path, means, writes, history>>

WalkFail(c) ==
    /\ walk[c] # "idle" /\ ~ranging
    /\ dir[target[c]] = NoSession
    /\ WalkEnd(c)
    /\ UNCHANGED <<dir, loop, arr, len, link, path, means, writes, history>>

WalkEnter(c, f) ==
    /\ walk[c] = "found"
    /\ path' = [path EXCEPT ![c][f] = target[c]]
    /\ means' = [means EXCEPT ![c][f] = found[c]]
    /\ WalkEnd(c)
    /\ UNCHANGED <<dir, loop, arr, len, link, writes, history>>

-----------------------------------------------------------------------------
(* The fid has the old name of a renamed session: the rename left out its     *)
(* connection, or has yet to visit it.                                        *)
Unreached(c, f) == c \in missed \/ (c \in due /\ path[c][f] = from)

(* Tclunk copies the path under the lock and drops the fid; the write goes on *)
(* by itself and resolves the name when it runs.                              *)
Clunk(c, f) ==
    /\ c \notin locked /\ path[c][f] # NoId
    /\ Cardinality(writes) < MaxWrites
    /\ writes' = writes \union {[name |-> path[c][f], for |-> means[c][f],
                                  unreached |-> Unreached(c, f), moved |-> FALSE]}
    /\ path' = [path EXCEPT ![c][f] = NoId]
    /\ means' = [means EXCEPT ![c][f] = NoSession]
    /\ UNCHANGED <<dir, loop, arr, len, link, walking, history>>

HandleWrite ==
    /\ ~ranging
    /\ \E w \in writes : writes' = writes \ {w}
    /\ UNCHANGED <<dir, loop, arr, len, link, walking, path, means, history>>

-----------------------------------------------------------------------------
(* renameSession up to OnRename: checked and moved under the store's lock.    *)

(* Mutant: the new name is not looked up. *)
OldExists(i, j) == dir[i] # NoSession

Renamable(i, j) == dir[i] # NoSession /\ dir[j] = NoSession

RenameStart(i, j) ==
    /\ ~ranging /\ Renamable(i, j)
    /\ dir' = [dir EXCEPT ![j] = dir[i], ![i] = NoSession]
    /\ ranging' = TRUE
    /\ from' = i /\ to' = j
    /\ idx' = 1 /\ lim' = len /\ view' = <<>>
    /\ writes' = {[w EXCEPT !.moved = @ \/ w.for = dir[i]] : w \in writes}
    /\ due' = ToSet(SubSeq(arr, 1, len))
    /\ UNCHANGED <<arr, len, link, walking, path, means, missed>>

At(k) == IF view = <<>> THEN arr[k] ELSE view[k]

Rewrite(c) == [f \in Fids |-> IF path[c][f] = from THEN to ELSE path[c][f]]

RenameVisit ==
    /\ ranging /\ idx <= lim
    /\ At(idx) \notin locked
    /\ path' = [path EXCEPT ![At(idx)] = Rewrite(At(idx))]
    /\ idx' = idx + 1
    /\ due' = due \ {At(idx)}
    /\ UNCHANGED <<dir, ranging, from, to, lim, view, arr, len, link, walking, means, writes, missed>>

RenameEnd ==
    /\ ranging /\ idx > lim
    /\ ranging' = FALSE
    /\ from' = NoId /\ to' = NoId /\ idx' = 1 /\ lim' = 0 /\ view' = <<>>
    /\ due' = {}
    /\ missed' = missed \union {c \in due : link[c] = "open"}
    /\ UNCHANGED <<dir, arr, len, link, walking, path, means, writes>>

-----------------------------------------------------------------------------
Walk(c) == \/ \E i \in Ids : WalkStart(c, i)
           \/ WalkLookup(c)
           \/ WalkFail(c)
           \/ \E f \in Fids : WalkEnter(c, f)

Rename == (\E i, j \in Ids : RenameStart(i, j)) \/ RenameVisit \/ RenameEnd

Next == \/ \E c \in Conns : \/ Connect(c) \/ Disconnect(c) \/ Walk(c)
                            \/ \E f \in Fids : Clunk(c, f)
        \/ HandleWrite
        \/ Rename

Spec == Init /\ [][Next]_vars

(* Once started, a rename and a walk keep running; sync's locks serve their   *)
(* waiters in turn.                                                           *)
FairSpec ==
    /\ Spec
    /\ SF_vars(RenameVisit \/ RenameEnd)
    /\ \A c \in Conns :
         SF_vars(WalkLookup(c) \/ WalkFail(c) \/ \E f \in Fids : WalkEnter(c, f))

-----------------------------------------------------------------------------
TypeOK ==
    /\ dir \in [Ids -> Sessions \union {NoSession}]
    /\ ranging \in BOOLEAN
    /\ from \in Ids \union {NoId} /\ to \in Ids \union {NoId}
    /\ idx \in Nat \ {0} /\ lim \in Nat /\ len \in 0 .. Len(arr)
    /\ arr \in Seq(Conns \union {NoConn}) /\ view \in Seq(Conns \union {NoConn})
    /\ link \in [Conns -> {"new", "open", "gone"}]
    /\ locked \subseteq Conns
    /\ walk \in [Conns -> {"idle", "walking", "found"}]
    /\ target \in [Conns -> Ids \union {NoId}]
    /\ found \in [Conns -> Sessions \union {NoSession}]
    /\ path \in [Conns -> [Fids -> Ids \union {NoId}]]
    /\ means \in [Conns -> [Fids -> Sessions \union {NoSession}]]
    /\ writes \subseteq [name : Ids, for : Sessions, unreached : BOOLEAN, moved : BOOLEAN]
    /\ due \subseteq Conns /\ missed \subseteq Conns

(* Server.conns lists the open connections, each once, through any order of   *)
(* appends and in-place removals (server.go 381-394).                         *)
ConnsListed ==
    LET listed == SubSeq(arr, 1, len) IN
    /\ ToSet(listed) = {c \in Conns : link[c] = "open"}
    /\ IsInjective(listed)

(* Together: the slice of connections keeps its type and its meaning.         *)
ConnsOK == TypeOK /\ ConnsListed

(* Between renames a fid's path leads to the session it was walked to, on     *)
(* every connection no rename has left out: a walk that is under way when the *)
(* rename starts is caught, since it holds its connection's lock from the     *)
(* lookup to the entry.                                                       *)
FidsFollow ==
    ~ranging => \A c \in Conns \ missed, f \in Fids :
                    path[c][f] # NoId => dir[path[c][f]] = means[c][f]

(* A clunk takes along a path that is right, and a rename of another session  *)
(* does not turn it wrong: a write reaches the session its fid was walked to, *)
(* unless that session is renamed after the clunk (then the path is lost or,  *)
(* worse, leads to whoever took the name), or was before and the rename had   *)
(* left out the connection or not come to it yet (server.go 264-277,          *)
(* 1111-1132).                                                                *)
WriteArrives ==
    ~ranging => \A w \in writes : ~w.moved /\ ~w.unreached => dir[w.name] = w.for

-----------------------------------------------------------------------------
(* A rename comes to its end, and with it the automatic update the README     *)
(* promises (README.md 190).                                                  *)
RenameReturns == ranging ~> ~ranging
==============================================================================
