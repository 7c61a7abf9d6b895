------------------------------- MODULE FileTree -------------------------------
(* The directories that are kept in files: /a, /m, /t, /tmp, /tr, /p through  *)
(* a flat directory (store.go 79-112), /sk through a search of several roots  *)
(* (skill.go).  A fid buffers what is written to it and stores the whole      *)
(* buffer when it is clunked; no lock is held while a handler looks a name    *)
(* up, truncates a file, writes, removes or renames it, so the requests of    *)
(* different fids interleave between these calls.                             *)
(*                                                                            *)
(* One directory is modelled at a time, since none shares files with another. *)
(* A text is a sequence of chunks, without the white space clunk trims; a     *)
(* skill has one name, although /sk takes it with or without its ".md".       *)
EXTENDS Naturals, FiniteSets, FiniteSetsExt, Sequences

CONSTANTS Dirs,      \* the directories to be checked
          NamesIn,   \* directory -> names used in it
          Idx,       \* the synthetic file "idx" of /t
          Roots,     \* number of directories in OLLIE_SKILLS_PATH
          Chunks,    \* what a Twrite carries
          Header,    \* chunks a SKILL.md with a valid front matter begins with
          Zero,      \* what is before a write behind the end of a buffer
          MaxLen,    \* bound on a buffer's chunks
          MaxUses,   \* directory -> bound on the walks and creates
          Fids,      \* fids of any connections, each with one request at a time
          NoFile, Absent, Unknown

AllNames == UNION {NamesIn[d] : d \in Dirs}
Places == (1 .. Roots) \X AllNames
Inodes == (0 .. Roots) \X AllNames   \* where a file was first; those at 0 are spare
Texts == UNION {[1 .. n -> Chunks \union {Zero}] : n \in 0 .. MaxLen}
Kinds == {"a", "m", "t", "tmp", "tr", "p", "u", "x", "sk"}

ASSUME DirsKnown == Dirs \subseteq Kinds
ASSUME RootsPositive == Roots \in Nat \ {0} /\ MaxLen \in Nat \ {0}
ASSUME TextsApart == Header \subseteq Chunks /\ Zero \notin Chunks
ASSUME NotTexts == Absent \notin Texts /\ Unknown \notin Texts /\ Absent # Unknown /\ NoFile \notin Inodes
ASSUME EnoughInodes ==
    IsFiniteSet(Fids) /\ IsFiniteSet(AllNames) /\ Cardinality(Fids) <= Cardinality(AllNames)

VARIABLES
    dir,      \* the directory of this behaviour
    entry,    \* root -> name -> inode or NoFile; flat directories are root 1
    text,     \* inode -> content
    pc,       \* fid -> "free", "held", or in a request: "find", "found", "writing"
    name,     \* fid -> the name in its path
    writable, \* fids opened for writing
    buf,      \* fid -> writeBuf
    op, to,   \* fid -> the request under way, and the name it is to give
    at,       \* fid -> the root it found
    node,     \* fid -> the file it has open for writing
    uses,     \* for the bound
    ledger,   \* history: name -> what the answers received so far promise
    was,      \* history: what the ledger had of the fid's name before the request
    alone     \* history: no other request touched the names or the file

disk == <<entry, text>>
request == <<op, to, at, node>>
history == <<ledger, was, alone>>
vars == <<dir, entry, text, pc, name, writable, buf, op, to, at, node, uses, ledger, was, alone>>

Names == NamesIn[dir]
Synthetic(n) == n = Idx /\ dir = "t"

(* Which requests the server carries out in which directory; the others it   *)
(* answers without doing anything, or refuses.                                *)
Creates == {"a", "m", "t", "tmp", "sk"}
Renames == {"a", "m", "t", "sk"}
Removes == {"a", "m", "t", "tmp", "tr", "sk"}
Writes  == {"a", "m", "t", "tmp", "sk"}

-----------------------------------------------------------------------------
(* Lookups.  A skill is a directory whose SKILL.md has a valid front matter.  *)
Parses(t) == t # <<>> /\ t[1] \in Header

Shows(r, k) ==
    /\ entry[r][k] # NoFile
    /\ dir = "sk" => Parses(text[entry[r][k]])

(* Mutant: what was seen in an earlier root is not remembered. *)
ListAll == {m \in [name : AllNames, root : 1 .. Roots] : Shows(m.root, m.name)}

(* What was seen in the first roots: the first copy of each name.             *)
Seen[r \in 0 .. Roots] ==
    IF r = 0 THEN {}
    ELSE LET seen == Seen[r - 1] IN
         seen \union {[name |-> k, root |-> r] :
                         k \in {k \in AllNames : Shows(r, k) /\ \A m \in seen : m.name # k}}

ListSkills == Seen[Roots]

(* The root a name is found in, 0 for none. *)
Home(k) == IF \E m \in ListSkills : m.name = k
           THEN (CHOOSE m \in ListSkills : m.name = k).root
           ELSE 0

Exists(n) == Synthetic(n) \/ Home(n) # 0

ReadText(n) == text[entry[Home(n)][n]]

(* How often a name appears in the listing of the directory. *)
Listed(n) ==
    (IF Synthetic(n) THEN 1 ELSE 0)
    + Cardinality({m \in ListSkills : m.name = n})

-----------------------------------------------------------------------------
Init ==
    /\ dir \in Dirs
    /\ \E present \in SUBSET {p \in Places : p[2] \in Names \ {Idx} /\ (dir = "sk" \/ p[1] = 1)} :
         entry = [r \in 1 .. Roots |-> [k \in AllNames |-> IF <<r, k>> \in present THEN <<r, k>> ELSE NoFile]]
    /\ \E seed \in [1 .. Roots -> Header] :
         text = [i \in Inodes |-> IF \E r \in 1 .. Roots : entry[r][i[2]] = i THEN <<seed[i[1]]>> ELSE <<>>]
    /\ pc = [h \in Fids |-> "free"]
    /\ name = [h \in Fids |-> NoFile]
    /\ writable = {}
    /\ buf = [h \in Fids |-> <<>>]
    /\ op = [h \in Fids |-> "none"] /\ to = name
    /\ at = [h \in Fids |-> 0] /\ node = name
    /\ uses = 0
    /\ ledger = [n \in AllNames |-> Unknown]
    /\ was = [h \in Fids |-> Unknown]
    /\ alone = [h \in Fids |-> FALSE]

-----------------------------------------------------------------------------
(* The ledger.  A request makes the names it touches unknown when it begins;  *)
(* when it is answered, what it promises is entered, unless another request   *)
(* touched one of these names in between.  A write that is under way touches  *)
(* the name its file has got meanwhile, too.                                  *)
Busy(h) == pc[h] \in {"find", "found", "writing"}
Touched(h) == {name[h], to[h]}
              \union {p[2] : p \in {p \in Places : pc[h] = "writing" /\ entry[p[1]][p[2]] = node[h]}}
Rivals(ks) == {h \in Fids : Busy(h) /\ Touched(h) \intersect ks # {}}

Holding(h) ==
    /\ pc' = [pc EXCEPT ![h] = "held"]
    /\ uses < MaxUses[dir] /\ uses' = uses + 1

Walk(h, n) ==
    /\ pc[h] = "free" /\ Exists(n)
    /\ Holding(h)
    /\ name' = [name EXCEPT ![h] = n]
    /\ UNCHANGED <<dir, disk, writable, buf, request, history>>

(* Topen sets the mode; only a mode that allows writing shows, at the clunk.  *)
Open(h) ==
    /\ pc[h] = "held" /\ h \notin writable
    /\ writable' = writable \union {h}
    /\ UNCHANGED <<dir, disk, pc, name, buf, request, uses, history>>

(* The file an os.WriteFile opens: the one that is there, or a new one.       *)
Target(r, k) ==
    IF entry[r][k] # NoFile THEN entry[r][k]
    ELSE CHOOSE i \in Inodes : /\ \A p \in Places : entry[p[1]][p[2]] # i
                               /\ \A h \in Fids : pc[h] = "writing" => node[h] # i

(* A file without a name is gone when no request has it open.                 *)
Swept(t, e, open) ==
    [i \in Inodes |-> IF i \in open \/ \E p \in Places : e[p[1]][p[2]] = i THEN t[i] ELSE <<>>]

OpenBut(h) == {node[g] : g \in {g \in Fids \ {h} : pc[g] = "writing"}}

(* Mutant: an existing file is opened without truncating it. *)
Opened(r, k, i) ==
    /\ entry' = [entry EXCEPT ![r][k] = i]
    /\ text' = text

Truncated(r, k, i) ==
    /\ entry' = [entry EXCEPT ![r][k] = i]
    /\ text' = [text EXCEPT ![i] = <<>>]

(* Tcreate makes or truncates the file and opens the fid, here for writing.   *)
Create(h, n) ==
    /\ pc[h] = "free"
    /\ Holding(h)
    /\ name' = [name EXCEPT ![h] = n]
    /\ writable' = writable \union {h}
    /\ IF dir \in Creates
       THEN LET i == Target(1, n)
                rivals == Rivals({n}) IN
            /\ Truncated(1, n, i)
            /\ alone' = [g \in Fids |-> alone[g] /\ g \notin rivals]
            /\ ledger' = [ledger EXCEPT ![n] = IF dir # "sk" /\ rivals = {} THEN <<>> ELSE Unknown]
       ELSE UNCHANGED <<disk, alone, ledger>>
    /\ UNCHANGED <<dir, buf, request, was>>

(* Mutant: one chunk too long. *)
PutPast(b, o, x) ==
    [i \in 1 .. (IF o + 2 > Len(b) THEN o + 2 ELSE Len(b)) |->
        IF i = o + 1 THEN x ELSE IF i <= Len(b) THEN b[i] ELSE Zero]

(* The buffer grows to the end of the write; a gap is filled with zeros.      *)
(* Here a fid gets one Twrite; PromptQueue has writes that come in pieces.    *)
Put(b, o, x) ==
    [i \in 1 .. (IF o + 1 > Len(b) THEN o + 1 ELSE Len(b)) |->
        IF i = o + 1 THEN x ELSE IF i <= Len(b) THEN b[i] ELSE Zero]

(* Nothing asks for the mode: a buffer may be filled before the fid is opened.*)
Write(h, o, x) ==
    /\ pc[h] = "held"
    /\ buf[h] = <<>>
    /\ buf' = [buf EXCEPT ![h] = Put(@, o, x)]
    /\ UNCHANGED <<dir, disk, pc, name, writable, request, uses, history>>

-----------------------------------------------------------------------------
Released(h) ==
    /\ pc' = [pc EXCEPT ![h] = "free"]
    /\ name' = [name EXCEPT ![h] = NoFile]
    /\ writable' = writable \ {h}
    /\ buf' = [buf EXCEPT ![h] = <<>>]

Cleared(h) ==
    /\ op' = [op EXCEPT ![h] = "none"]
    /\ to' = [to EXCEPT ![h] = NoFile]
    /\ at' = [at EXCEPT ![h] = 0]
    /\ node' = [node EXCEPT ![h] = NoFile]
    /\ was' = [was EXCEPT ![h] = Unknown]
    /\ alone' = [alone EXCEPT ![h] = FALSE]

Drop(h) == Released(h) /\ UNCHANGED <<dir, disk, request, uses, history>>

(* A request sets out.  Only the skill store looks for the name first.        *)
Begin(h, o, n) ==
    LET ks == {name[h], n}
        rivals == Rivals(ks) IN
    /\ pc' = [pc EXCEPT ![h] = IF dir = "sk" THEN "find" ELSE "found"]
    /\ op' = [op EXCEPT ![h] = o]
    /\ to' = [to EXCEPT ![h] = n]
    /\ at' = [at EXCEPT ![h] = 1]
    /\ was' = [was EXCEPT ![h] = ledger[name[h]]]
    /\ alone' = [g \in Fids |-> IF g = h THEN rivals = {} ELSE alone[g] /\ g \notin rivals]
    /\ ledger' = [m \in AllNames |-> IF m \in ks THEN Unknown ELSE ledger[m]]
    /\ UNCHANGED <<dir, disk, name, writable, buf, node, uses>>

(* A fid open for writing stores its buffer, even when nothing was written.   *)
Clunk(h) ==
    /\ pc[h] = "held"
    /\ IF h \in writable /\ dir \in Writes /\ ~Synthetic(name[h])
       THEN Begin(h, "write", name[h])
       ELSE Drop(h)

(* What was buffered is dropped with the fid. *)
RemoveFile(h) ==
    /\ pc[h] = "held"
    /\ IF dir \in Removes THEN Begin(h, "remove", name[h]) ELSE Drop(h)

Wstat(h, n) ==
    /\ pc[h] = "held" /\ n # name[h] /\ dir \in Renames
    /\ Begin(h, "rename", n)

Find(h) ==
    /\ pc[h] = "find"
    /\ LET r == Home(name[h]) IN
       IF r # 0 \/ op[h] = "write"
       THEN /\ pc' = [pc EXCEPT ![h] = "found"]
            /\ at' = [at EXCEPT ![h] = IF r = 0 THEN 1 ELSE r]
            /\ UNCHANGED <<name, writable, buf, op, to, node, was, alone>>
       ELSE /\ IF op[h] = "rename" THEN pc' = [pc EXCEPT ![h] = "held"] /\ UNCHANGED <<name, writable, buf>>
                                   ELSE Released(h)
            /\ Cleared(h)
    /\ UNCHANGED <<dir, disk, uses, ledger>>

-----------------------------------------------------------------------------
(* os.WriteFile: the file is opened and truncated, then written.              *)
Truncate(h) ==
    /\ pc[h] = "found" /\ op[h] = "write"
    /\ LET i == Target(at[h], name[h]) IN
       /\ Truncated(at[h], name[h], i)
       /\ node' = [node EXCEPT ![h] = i]
    /\ pc' = [pc EXCEPT ![h] = "writing"]
    /\ UNCHANGED <<dir, name, writable, buf, op, to, at, uses, history>>

(* In /sk the directory is made before its file is opened; if somebody removes *)
(* or renames it in between, the write fails and nothing is left of it.  Any  *)
(* write of a skill that is not there may end so here.                        *)
Vanished(h) ==
    /\ pc[h] = "found" /\ op[h] = "write" /\ dir = "sk"
    /\ entry[at[h]][name[h]] = NoFile
    /\ Released(h) /\ Cleared(h)
    /\ UNCHANGED <<dir, disk, uses, ledger>>

(* What is in the file behind the end of the new text stays.                  *)
WriteOut(h) ==
    /\ pc[h] = "writing"
    /\ text' = Swept([text EXCEPT ![node[h]] = buf[h] \o SubSeq(@, Len(buf[h]) + 1, Len(@))], entry, OpenBut(h))
    /\ ledger' = IF alone[h] /\ (dir = "sk" => Parses(buf[h]))
                 THEN [ledger EXCEPT ![name[h]] = buf[h]] ELSE ledger
    /\ Released(h) /\ Cleared(h)
    /\ UNCHANGED <<dir, entry, uses>>

(* In /sk a copy in a later root may come to light.                           *)
Delete(h) ==
    /\ pc[h] = "found" /\ op[h] = "remove"
    /\ entry' = [entry EXCEPT ![at[h]][name[h]] = NoFile]
    /\ ledger' = IF alone[h] /\ dir # "sk" THEN [ledger EXCEPT ![name[h]] = Absent] ELSE ledger
    /\ text' = Swept(text, entry', OpenBut(h))
    /\ Released(h) /\ Cleared(h)
    /\ UNCHANGED <<dir, uses>>

(* os.Rename replaces a file, but not the directory of another skill.         *)
Movable(r, old, new) ==
    /\ entry[r][old] # NoFile
    /\ dir = "sk" => entry[r][new] = NoFile

Promised(h, old, new) ==
    IF alone[h] /\ dir # "sk" THEN [ledger EXCEPT ![old] = Absent, ![new] = was[h]] ELSE ledger

Rename(h) ==
    /\ pc[h] = "found" /\ op[h] = "rename"
    /\ IF Movable(at[h], name[h], to[h])
       THEN /\ entry' = [entry EXCEPT ![at[h]][to[h]] = entry[at[h]][name[h]], ![at[h]][name[h]] = NoFile]
            /\ name' = [name EXCEPT ![h] = to[h]]
            /\ ledger' = Promised(h, name[h], to[h])
       ELSE UNCHANGED <<entry, name, ledger>>
    /\ pc' = [pc EXCEPT ![h] = "held"]
    /\ text' = Swept(text, entry', OpenBut(h))
    /\ Cleared(h)
    /\ UNCHANGED <<dir, writable, buf, uses>>

-----------------------------------------------------------------------------
Next ==
    \E h \in Fids :
        \/ \E n \in Names : Walk(h, n) \/ Create(h, n) \/ Wstat(h, n)
        \/ Open(h)
        \/ \E o \in 0 .. MaxLen - 1, x \in Chunks : Write(h, o, x)
        \/ Clunk(h) \/ RemoveFile(h)
        \/ Find(h) \/ Truncate(h) \/ Vanished(h)
        \/ WriteOut(h) \/ Delete(h) \/ Rename(h)

Spec == Init /\ [][Next]_vars

-----------------------------------------------------------------------------
TypeOK ==
    /\ dir \in Dirs
    /\ entry \in [1 .. Roots -> [AllNames -> Inodes \union {NoFile}]]
    /\ text \in [Inodes -> Texts]
    /\ pc \in [Fids -> {"free", "held", "find", "found", "writing"}]
    /\ name \in [Fids -> Names \union {NoFile}]
    /\ \A h \in Fids : name[h] \in IF pc[h] = "free" THEN {NoFile} ELSE Names
    /\ writable \subseteq Fids
    /\ buf \in [Fids -> Texts]
    /\ op \in [Fids -> {"none", "write", "remove", "rename"}]
    /\ to \in [Fids -> AllNames \union {NoFile}]
    /\ at \in [Fids -> 0 .. Roots]
    /\ node \in [Fids -> Inodes \union {NoFile}]
    /\ ledger \in [AllNames -> Texts \union {Absent, Unknown}]

(* What the answers promise is what a read finds: as long as no other request *)
(* for the same name or the same file overlapped it, a text that was stored   *)
(* is read back whole, a removed name is gone, and a renamed file keeps its   *)
(* text under the new name only (server.go 711-1252, store.go 93-110).        *)
LedgerHolds ==
    \A n \in Names \ {Idx} :
        /\ ledger[n] = Absent => ~Exists(n)
        /\ ledger[n] \notin {Absent, Unknown} => Exists(n) /\ ReadText(n) = ledger[n]

(* A name is listed once if a walk finds it, and not otherwise; what a read   *)
(* then returns is the copy in the first root that has one.  Only in /t a file *)
(* may hide behind the synthetic idx (skill.go 97-153, server.go 506-599).    *)
LookupsAgree ==
    \A n \in Names :
        LET rs == {r \in 1 .. Roots : Shows(r, n)} IN
        /\ Home(n) = IF rs = {} THEN 0 ELSE Min(rs)
        /\ Listed(n) = (IF Exists(n) THEN 1 ELSE 0) + (IF Synthetic(n) /\ rs # {} THEN 1 ELSE 0)
==============================================================================
