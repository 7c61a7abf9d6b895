------------------------------ MODULE DirListing ------------------------------
(* Reading a directory in pieces (Server.readDir, server.go 1265-1427).  The   *)
(* server keeps no listing between the reads of an open directory: each read   *)
(* lists it anew, serializes all entries and serves bytes from the offset the  *)
(* client has reached.  Directories of the file system are listed by name; /s  *)
(* lists its sessions in the order of a Go map, another one each time.  Names *)
(* come and go between the reads.  What FileTree has, too, is called otherwise *)
(* here, so that one module can have the proofs of both.                       *)
EXTENDS Naturals, FiniteSets, Sequences, SequencesExt

CONSTANTS Fixed,      \* the entries a listing begins with (sessionStoreOrder, idx)
          Alphabet,   \* the names that come and go, in alphabetical order
          Size,       \* name -> length of its serialized entry
          Count,      \* count of a Tread
          MaxChanges  \* bound on the names that come or go

Members == ToSet(Alphabet)

ASSUME ListsAreSequences == Alphabet \in Seq(Members) /\ Fixed \in Seq(ToSet(Fixed))
ASSUME ListsAreSets ==
    IsInjective(Alphabet) /\ IsInjective(Fixed) /\ ToSet(Fixed) \intersect Members = {}
ASSUME CountFits == Count \in Nat /\ \A n \in Members \union ToSet(Fixed) : Size[n] \in 1..Count
ASSUME MaxChangesNat == MaxChanges \in Nat

VARIABLES
    sorted,   \* a directory of the file system, or /s
    present,  \* the names in the directory
    phase,    \* "opened", "listing" or "done"
    got,      \* what the client received; its length is the client's offset
    reads,    \* history: reads that returned data
    torn,     \* history: a read began inside an entry
    kept,     \* history: names present ever since the open
    added, removed, \* history: names that came or went since
    changes   \* for the bound

listHistory == <<reads, torn, kept, added, removed>>
listVars == <<sorted, present, phase, got, reads, torn, kept, added, removed, changes>>

ListInit ==
    /\ sorted \in BOOLEAN
    /\ present \in SUBSET Members
    /\ phase = "opened"
    /\ got = <<>>
    /\ reads = 0 /\ torn = FALSE
    /\ kept = present /\ added = {} /\ removed = {}
    /\ changes = 0

-----------------------------------------------------------------------------
(* The serialized directory is a sequence of cells: the k-th of an entry.     *)
Entry(n) == [k \in 1..Size[n] |-> <<n, k>>]
Serialized(names) == FlattenSeq([i \in DOMAIN names |-> Entry(names[i])])

IsHead(cell) == cell[2] = 1
IsLast(cell) == cell[2] = Size[cell[1]]

\* Mutant: the names of a directory are not sorted either.
Unsorted == {Fixed \o order : order \in SetToSeqs(present)}

Place(n) == CHOOSE i \in DOMAIN Alphabet : Alphabet[i] = n

Ascending(order) == \A i, j \in DOMAIN order : i < j => Place(order[i]) < Place(order[j])

Orders == {Fixed \o order : order \in {o \in SetToSeqs(present) : sorted => Ascending(o)}}

AtMost(n) == IF n < Count THEN n ELSE Count

\* Whole entries from the offset on, as many as fit.  Inside an entry the bytes
\* taken for its length are part of a name or a number, and the reply may stop
\* anywhere.
Fitting(rest) ==
    {SubSeq(rest, 1, n) : n \in {m \in 0..AtMost(Len(rest)) :
        IsHead(rest[1]) => /\ m > 0 /\ IsLast(rest[m])
                           /\ \A l \in m+1..AtMost(Len(rest)) : ~IsLast(rest[l])}}

\* Mutants: the reply is cut at the count; the last byte is taken for the end.
CutAtCount(rest) == {SubSeq(rest, 1, AtMost(Len(rest)))}
EndTooEarly(rest) == IF Len(rest) <= 1 THEN {<<>>} ELSE Fitting(rest)

Replies(rest) == IF rest = <<>> THEN {<<>>} ELSE Fitting(rest)

-----------------------------------------------------------------------------
Read ==
    /\ phase # "done"
    /\ \E order \in Orders :
        LET data == Serialized(order)
            rest == SubSeq(data, Len(got) + 1, Len(data)) IN
        /\ torn' = (torn \/ (rest # <<>> /\ ~IsHead(rest[1])))
        /\ \E reply \in Replies(rest) :
            /\ got' = got \o reply
            /\ phase' = IF reply = <<>> THEN "done" ELSE "listing"
            /\ reads' = IF reply = <<>> THEN reads ELSE reads + 1
    /\ UNCHANGED <<sorted, present, kept, added, removed, changes>>

\* A session or file is created, or another one gets this name.
Come(n) ==
    /\ n \notin present /\ phase # "done"
    /\ changes < MaxChanges /\ changes' = changes + 1
    /\ present' = present \union {n}
    /\ added' = added \union {n}
    /\ UNCHANGED <<sorted, phase, got, reads, torn, kept, removed>>

\* A session is killed, a file deleted, or it changes its name.
Go(n) ==
    /\ n \in present /\ phase # "done"
    /\ changes < MaxChanges /\ changes' = changes + 1
    /\ present' = present \ {n}
    /\ kept' = kept \ {n}
    /\ removed' = removed \union {n}
    /\ UNCHANGED <<sorted, phase, got, reads, torn, added>>

ListNext == Read \/ \E n \in Members : Come(n) \/ Go(n)

ListSpec == ListInit /\ [][ListNext]_listVars

-----------------------------------------------------------------------------
Cells == {<<n, k>> : n \in Members \union ToSet(Fixed), k \in 1..Count}

ListTypeOK ==
    /\ sorted \in BOOLEAN /\ torn \in BOOLEAN
    /\ present \subseteq Members /\ kept \subseteq present
    /\ added \subseteq Members /\ removed \subseteq Members
    /\ phase \in {"opened", "listing", "done"}
    /\ got \in Seq(Cells)
    /\ reads \in Nat /\ Len(got) <= reads * Count
    /\ changes \in 0..MaxChanges

Shown(n) == {i \in DOMAIN got : got[i] = <<n, 1>>}

\* A client gets whole entries as long as its offset is one of an entry: what it
\* has is a sequence of entries (comment in server.go 1409).
WholeEntries ==
    ~torn => \A i \in DOMAIN got :
                /\ i > 1 /\ IsHead(got[i]) => IsLast(got[i - 1])
                /\ ~IsHead(got[i]) => i > 1 /\ got[i - 1] = <<got[i][1], got[i][2] - 1>>
                /\ i = Len(got) => IsLast(got[i])

\* Together: a reply is never longer than the count, nor cut inside an entry
\* (server.go 1400-1430).
RepliesFit == ListTypeOK /\ WholeEntries

FitsOneRead == \A order \in Orders : Len(Serialized(order)) <= Count

\* An undisturbed listing is exact: every name once, and each that was there.
\* For /s this takes a listing that fits one read: in more than one the order of
\* the map may differ from read to read, and the next one may begin inside an
\* entry and end the listing there (server.go 1396-1426).
QuietListingExact ==
    /\ phase = "done" /\ added = {} /\ removed = {}
    /\ sorted \/ FitsOneRead
    => ~torn /\ \A n \in Members : Cardinality(Shown(n)) = IF n \in present THEN 1 ELSE 0

\* While names only come, a listing by name misses none that was there all the
\* time: later entries move up and are seen again, never jumped over.  While names
\* only go, none is shown twice: later entries move down, past the offset or not.
ShiftsOneWay ==
    sorted /\ ~torn =>
        /\ phase = "done" /\ removed = {} => \A n \in kept : Shown(n) # {}
        /\ added = {} => \A n \in Members : \A i, j \in Shown(n) : i = j
=============================================================================
