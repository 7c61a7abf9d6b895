------------------------------ MODULE StateWait ------------------------------
(* statewait: a read blocks until the session's state differs from the fid's  *)
(* baseline, gives up after five seconds, at a flush or when the session      *)
(* ends, and leaves what it returns as the baseline of the next read          *)
(* (server.go 933-965, sessionfile.go 178-193).  Fids of one connection are   *)
(* closed and their numbers taken again while such reads are under way.       *)
EXTENDS Naturals

CONSTANTS Fids, Sessions, States, Idle,
          Reads,                 \* read requests at a time
          MaxChanges, MaxOpens, MaxFlushes,  \* bounds on what the environment does
          NoSession, Unset       \* Unset is the empty waitBase

ASSUME NonesApart == NoSession \notin Sessions /\ Unset \notin States /\ Idle \in States
ASSUME BoundsNat == MaxChanges \in Nat /\ MaxOpens \in Nat /\ MaxFlushes \in Nat

VARIABLES
    state, ended,     \* session -> what Core.State() tells; the sessions that were killed
    fid, waitBase,    \* fid -> session whose statewait is open; its baseline
    pc,               \* read -> "idle", "begun", "based", "waiting", "woken" or "stored"
    on, of, base,     \* read -> the fid number, the session, and the baseline it took
    content, late,    \* read -> what it returns; the reads that gave up
    flushed,          \* the reads the client flushed
    seen,             \* history: fid -> what the client was told since the open
    stale,            \* history: the reads whose fid was clunked since they began
    sole, unsure,     \* history: reads no other overlapped; fids whose baseline
                      \* a flushed, overlapping or earlier read may have moved
    changes, opens, flushes   \* for the bounds

session == <<state, ended>>
table == <<fid, waitBase>>
request == <<on, of, base, content, late, flushed, stale, sole>>
bounds == <<changes, opens, flushes>>
vars == <<state, ended, fid, waitBase, pc, on, of, base, content, late, flushed, seen, stale,
          sole, unsure, changes, opens, flushes>>

Init ==
    /\ state = [s \in Sessions |-> Idle] /\ ended = {}
    /\ fid = [f \in Fids |-> NoSession]
    /\ waitBase = [f \in Fids |-> Unset]
    /\ pc = [r \in Reads |-> "idle"]
    /\ on \in {[r \in Reads |-> f] : f \in Fids}
    /\ of = [r \in Reads |-> NoSession]
    /\ base = [r \in Reads |-> Unset] /\ content = base
    /\ late = {} /\ flushed = {} /\ stale = {} /\ sole = {} /\ unsure = {}
    /\ seen = waitBase
    /\ changes = 0 /\ opens = 0 /\ flushes = 0

Pending(f) == {r \in Reads : pc[r] # "idle" /\ on[r] = f}

-----------------------------------------------------------------------------
(* The client. *)
Open(f, s) ==
    /\ fid[f] = NoSession /\ s \notin ended
    /\ opens < MaxOpens /\ opens' = opens + 1
    /\ fid' = [fid EXCEPT ![f] = s]
    /\ unsure' = IF Pending(f) = {} THEN unsure \ {f} ELSE unsure \union {f}
    /\ UNCHANGED <<session, waitBase, pc, request, seen, changes, flushes>>

Clunk(f) ==
    /\ fid[f] # NoSession
    /\ fid' = [fid EXCEPT ![f] = NoSession]
    /\ waitBase' = [waitBase EXCEPT ![f] = Unset]
    /\ seen' = [seen EXCEPT ![f] = Unset]
    /\ stale' = stale \union Pending(f)
    /\ sole' = sole \ Pending(f)
    /\ UNCHANGED <<session, pc, on, of, base, content, late, flushed, unsure, bounds>>

(* Tread at offset 0; the path is copied under the lock of the connection.    *)
Read(r, f) ==
    /\ pc[r] = "idle" /\ fid[f] # NoSession
    /\ pc' = [pc EXCEPT ![r] = "begun"]
    /\ on' = [on EXCEPT ![r] = f]
    /\ of' = [of EXCEPT ![r] = fid[f]]
    /\ sole' = IF Pending(f) = {} THEN sole \union {r} ELSE sole \ Pending(f)
    /\ unsure' = IF Pending(f) = {} THEN unsure ELSE unsure \union {f}
    /\ UNCHANGED <<session, table, base, content, late, flushed, stale, seen, bounds>>

Flush(r) ==
    /\ pc[r] # "idle" /\ r \notin flushed
    /\ flushes < MaxFlushes /\ flushes' = flushes + 1
    /\ flushed' = flushed \union {r}
    /\ unsure' = unsure \union {on[r]}
    /\ UNCHANGED <<session, table, pc, on, of, base, content, late, stale, sole, seen, changes, opens>>

-----------------------------------------------------------------------------
(* The session. *)
Change(s, v) ==
    /\ s \notin ended /\ state[s] # v
    /\ changes < MaxChanges /\ changes' = changes + 1
    /\ state' = [state EXCEPT ![s] = v]
    /\ UNCHANGED <<ended, table, pc, request, seen, unsure, opens, flushes>>

Kill(s) ==
    /\ s \notin ended
    /\ ended' = ended \union {s}
    /\ UNCHANGED <<state, table, pc, request, seen, unsure, bounds>>

-----------------------------------------------------------------------------
(* The handler. *)
Ended(r) ==
    /\ pc' = [pc EXCEPT ![r] = "idle"]
    /\ of' = [of EXCEPT ![r] = NoSession]
    /\ base' = [base EXCEPT ![r] = Unset]
    /\ content' = [content EXCEPT ![r] = Unset]
    /\ late' = late \ {r} /\ flushed' = flushed \ {r} /\ sole' = sole \ {r} /\ stale' = stale \ {r}

(* A session that is gone yields an empty answer. *)
Miss(r) ==
    /\ pc[r] = "begun" /\ of[r] \in ended
    /\ Ended(r)
    /\ UNCHANGED <<session, table, on, seen, unsure, bounds>>

(* Mutant: the baseline of the fid is not used. *)
NoBase(f) == Unset

BaseOf(f) == IF fid[f] # NoSession THEN waitBase[f] ELSE Unset

TakeBase(r) ==
    /\ pc[r] = "begun" /\ of[r] \notin ended
    /\ pc' = [pc EXCEPT ![r] = "based"]
    /\ base' = [base EXCEPT ![r] = BaseOf(on[r])]
    /\ UNCHANGED <<session, table, on, of, content, late, flushed, stale, sole, seen, unsure, bounds>>

(* Without a baseline the state of this moment is taken. *)
Wait(r) ==
    /\ pc[r] = "based"
    /\ pc' = [pc EXCEPT ![r] = "waiting"]
    /\ base' = [base EXCEPT ![r] = IF @ = Unset THEN state[of[r]] ELSE @]
    /\ UNCHANGED <<session, table, on, of, content, late, flushed, stale, sole, seen, unsure, bounds>>

(* Mutant: what a read that gave up returns is the baseline it waited on. *)
Unwoken(r) ==
    /\ pc' = [pc EXCEPT ![r] = "woken"]
    /\ content' = [content EXCEPT ![r] = base[r]]
    /\ UNCHANGED <<session, table, on, of, base, flushed, stale, sole, seen, unsure, bounds>>

Woken(r) ==
    /\ pc' = [pc EXCEPT ![r] = "woken"]
    /\ content' = [content EXCEPT ![r] = state[of[r]]]
    /\ UNCHANGED <<session, table, on, of, base, flushed, stale, sole, seen, unsure, bounds>>

WaitChange(r) ==
    /\ pc[r] = "waiting" /\ state[of[r]] # base[r]
    /\ late' = late
    /\ Woken(r)

(* Five seconds are over, the request is flushed, or the session has ended.   *)
GiveUp(r) ==
    /\ pc[r] = "waiting"
    /\ late' = late \union {r}
    /\ Woken(r)

(* Mutant: the newline of the answer is not cut off the baseline. *)
StoreUntrimmed(r) ==
    /\ pc[r] = "woken"
    /\ pc' = [pc EXCEPT ![r] = "stored"]
    /\ waitBase' = IF fid[on[r]] # NoSession THEN [waitBase EXCEPT ![on[r]] = <<content[r], "newline">>] ELSE waitBase
    /\ UNCHANGED <<session, fid, request, seen, unsure, bounds>>

(* The fid that bears the number now gets the result as its baseline.         *)
Store(r) ==
    /\ pc[r] = "woken"
    /\ pc' = [pc EXCEPT ![r] = "stored"]
    /\ waitBase' = IF fid[on[r]] # NoSession THEN [waitBase EXCEPT ![on[r]] = content[r]] ELSE waitBase
    /\ UNCHANGED <<session, fid, request, seen, unsure, bounds>>

(* The answer to a flushed read may still be received, or not.                *)
Answer(r) ==
    /\ pc[r] = "stored"
    /\ \E heard \in IF r \in flushed THEN BOOLEAN ELSE {TRUE} :
         IF heard /\ r \notin stale
         THEN /\ seen' = [seen EXCEPT ![on[r]] = content[r]]
              /\ unsure' = IF r \in sole \ flushed THEN unsure \ {on[r]} ELSE unsure
         ELSE UNCHANGED <<seen, unsure>>
    /\ Ended(r)
    /\ UNCHANGED <<session, table, on, bounds>>

-----------------------------------------------------------------------------
Handler(r) == Miss(r) \/ TakeBase(r) \/ Wait(r) \/ WaitChange(r) \/ GiveUp(r) \/ Store(r) \/ Answer(r)

Next ==
    \/ \E f \in Fids : Clunk(f) \/ \E s \in Sessions : Open(f, s)
    \/ \E r \in Reads : Handler(r) \/ Flush(r) \/ \E f \in Fids : Read(r, f)
    \/ \E s \in Sessions : Kill(s) \/ \E v \in States : Change(s, v)

Spec == Init /\ [][Next]_vars

(* Handlers run on, the timer of five seconds included; the client keeps      *)
(* reading what it has open.                                                  *)
FairSpec ==
    /\ Spec
    /\ \A r \in Reads : WF_vars(Handler(r))
    /\ \A f \in Fids : WF_vars(\E r \in Reads : Read(r, f))

-----------------------------------------------------------------------------
TypeOK ==
    /\ state \in [Sessions -> States] /\ ended \subseteq Sessions
    /\ fid \in [Fids -> Sessions \union {NoSession}]
    /\ waitBase \in [Fids -> States \union {Unset}] /\ seen \in [Fids -> States \union {Unset}]
    /\ pc \in [Reads -> {"idle", "begun", "based", "waiting", "woken", "stored"}]
    /\ on \in [Reads -> Fids]
    /\ of \in [Reads -> Sessions \union {NoSession}]
    /\ \A r \in Reads : of[r] = NoSession <=> pc[r] = "idle"
    /\ base \in [Reads -> States \union {Unset}] /\ content \in [Reads -> States \union {Unset}]
    /\ late \subseteq Reads /\ flushed \subseteq Reads /\ stale \subseteq Reads /\ sole \subseteq Reads \ stale /\ unsure \subseteq Fids

(* A read waits for a state other than the one the client was told last, and  *)
(* returns one unless it gave up: no change between two reads is missed or    *)
(* told twice.  A flushed read, one that overlaps another of its fid, and one *)
(* whose fid was closed meanwhile may move the baseline (server.go 940-963).  *)
NoChangeMissed ==
    \A r \in sole \ flushed :
        on[r] \notin unsure /\ seen[on[r]] # Unset =>
            /\ pc[r] = "waiting" => base[r] = seen[on[r]]
            /\ pc[r] = "woken" /\ r \notin late => content[r] # seen[on[r]]

(* A client that keeps reading ends up with the state of the session, even if *)
(* the baseline was moved: the read gives up and tells the state then.        *)
KeepsUp ==
    \A f \in Fids : <>[](fid[f] \in Sessions \ ended => seen[f] = state[fid[f]])
==============================================================================
