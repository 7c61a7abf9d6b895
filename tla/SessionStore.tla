---------------------------- MODULE SessionStore ----------------------------
(* The session table of store/session.go: the map s.sessions under the        *)
(* RWMutex s.mu, the handler goroutines that create, kill, rename and drive   *)
(* sessions (server.go, store/sessionfile.go), and the shutdown of main.go.   *)
(* A critical section that only reads or writes the table is one step taken   *)
(* while the lock is free; renameSession, which calls the core and the server *)
(* with the lock held, keeps it from one step to the next.                    *)
CONSTANTS Ids,          \* session names
          Sessions,     \* session objects: bounds the number of creations
          Procs,        \* goroutines serving 9P requests
          Main,         \* the goroutine of runServer
          NoSession, NoId, Free

Threads == Procs \union {Main}

ASSUME ConstantsDistinct ==
    /\ NoSession \notin Sessions
    /\ NoId \notin Ids
    /\ Main \notin Procs
    /\ Free \notin Threads

VARIABLES
    sessions,     \* SessionStore.sessions: name -> object, or NoSession
    id,           \* Session.id
    life,         \* "unborn", "live", "cancelled" (ctx) or "closed" (core)
    turn,         \* the core's agent turn; Core.IsRunning() is turn # "idle"
    mu,           \* the writer that holds SessionStore.mu across steps, or Free
    pc,           \* where each goroutine is
    name,         \* its name argument (sessID, name, id, oldID)
    newName,      \* newID of renameSession
    sess,         \* its sess variable
    todo,         \* ids still to be killed by Shutdown
    snap,         \* history: the sessions Shutdown listed
    moved,        \* history: those renamed since
    displaced     \* history: sessions overwritten in the table while live

table == <<sessions, id>>
locals == <<pc, name, newName, sess>>
history == <<snap, moved, displaced>>
vars == <<sessions, id, life, turn, mu, pc, name, newName, sess, todo, snap, moved, displaced>>

Registered == {sessions[i] : i \in Ids} \ {NoSession}

Init ==
    /\ sessions = [i \in Ids |-> NoSession]
    /\ id = [s \in Sessions |-> NoId]
    /\ life = [s \in Sessions |-> "unborn"]
    /\ turn = [s \in Sessions |-> "idle"]
    /\ mu = Free
    /\ pc = [t \in Threads |-> IF t = Main THEN "serving" ELSE "ready"]
    /\ name = [t \in Threads |-> NoId]
    /\ newName = [t \in Threads |-> NoId]
    /\ sess = [t \in Threads |-> NoSession]
    /\ todo = {}
    /\ snap = {} /\ moved = {} /\ displaced = {}

(* Goroutine t goes on at label l with these local variables. *)
Goto(t, l, i, s) ==
    /\ pc' = [pc EXCEPT ![t] = l]
    /\ name' = [name EXCEPT ![t] = i]
    /\ sess' = [sess EXCEPT ![t] = s]
    /\ UNCHANGED newName

(* A handler's locals die when it returns. *)
Return(t) == Goto(t, IF t = Main THEN "loop" ELSE "ready", NoId, NoSession)

-----------------------------------------------------------------------------
(* createSession: the duplicate check and the insertion are two critical      *)
(* sections, with the construction of the core in between.                    *)

(* The name, given or generated, is not in the table. *)
CreateCheck(p, i) ==
    /\ pc[p] = "ready" /\ mu = Free
    /\ sessions[i] = NoSession
    /\ Goto(p, "build", i, NoSession)
    /\ UNCHANGED <<table, life, turn, mu, todo, history>>

CreateBuild(p, s) ==
    /\ pc[p] = "build"
    /\ life[s] = "unborn"
    /\ life' = [life EXCEPT ![s] = "live"]
    /\ id' = [id EXCEPT ![s] = name[p]]
    /\ Goto(p, "insert", name[p], s)
    /\ UNCHANGED <<sessions, turn, mu, todo, history>>

(* No such backend, no sessions directory, or NewCore fails. *)
CreateFail(p) ==
    /\ pc[p] = "build"
    /\ Return(p)
    /\ UNCHANGED <<table, life, turn, mu, todo, history>>

Insert(p) ==
    /\ pc[p] = "insert"
    /\ sessions' = [sessions EXCEPT ![name[p]] = sess[p]]
    /\ displaced' = displaced \union ({sessions[name[p]]} \ {NoSession})
    /\ Return(p)
    /\ UNCHANGED <<id, life, turn, mu, todo, snap, moved>>

CreateInsert(p) == mu = Free /\ Insert(p)

-----------------------------------------------------------------------------
(* A request that names a session: del's check, or OpenStore's lookup, whose  *)
(* closures keep both the name and the object.                                *)
Lookup(p, i) ==
    /\ pc[p] = "ready" /\ mu = Free
    /\ sessions[i] # NoSession
    /\ Goto(p, "resolved", i, sessions[i])
    /\ UNCHANGED <<table, life, turn, mu, todo, history>>

(* The request needs nothing more of the table: another file, or a rename     *)
(* renameSession rejects.                                                     *)
Finish(p) ==
    /\ pc[p] = "resolved"
    /\ Return(p)
    /\ UNCHANGED <<table, life, turn, mu, todo, history>>

(* Mutant: Submit gets a context of its own instead of sess.Ctx. *)
SubmitDetached(p) ==
    /\ pc[p] = "resolved"
    /\ turn[sess[p]] = "idle"
    /\ turn' = [turn EXCEPT ![sess[p]] = "running"]
    /\ Return(p)
    /\ UNCHANGED <<table, life, mu, todo, history>>

(* Core.Submit on the looked-up object: a turn under a dead context is cut    *)
(* short by the core.                                                         *)
SubmitTurn(p) ==
    /\ pc[p] = "resolved"
    /\ turn[sess[p]] = "idle"
    /\ turn' = [turn EXCEPT ![sess[p]] = IF life[sess[p]] = "live" THEN "running" ELSE "stopping"]
    /\ Return(p)
    /\ UNCHANGED <<table, life, mu, todo, history>>

(* ctl stop: Core.Interrupt. *)
StopTurn(p) ==
    /\ pc[p] = "resolved"
    /\ turn[sess[p]] = "running"
    /\ turn' = [turn EXCEPT ![sess[p]] = "stopping"]
    /\ Return(p)
    /\ UNCHANGED <<table, life, mu, todo, history>>

(* The core ends its turn. *)
TurnEnd(s) ==
    /\ turn[s] # "idle"
    /\ turn' = [turn EXCEPT ![s] = "idle"]
    /\ UNCHANGED <<table, life, mu, locals, todo, history>>

-----------------------------------------------------------------------------
(* KillSession(id): unlink whatever the name is bound to by now, then cancel  *)
(* and close that object outside the lock.                                    *)
Unlink(t, victim, left) ==
    /\ pc[t] \in {"resolved", "unlink"} /\ mu = Free
    /\ sessions' = [sessions EXCEPT ![name[t]] = left]
    /\ IF victim = NoSession THEN Return(t) ELSE Goto(t, "cancel", name[t], victim)
    /\ UNCHANGED <<id, life, turn, mu, todo, history>>

(* Mutant: the session found earlier is killed, not the one under the name. *)
KillStale(t) == Unlink(t, IF sess[t] = NoSession THEN sessions[name[t]] ELSE sess[t], NoSession)

KillUnlink(t) == Unlink(t, sessions[name[t]], NoSession)

(* Mutant: the core is not closed after the cancel. *)
KillWithoutClose(t) ==
    /\ pc[t] = "cancel"
    /\ life' = [life EXCEPT ![sess[t]] = "cancelled"]
    /\ turn' = [turn EXCEPT ![sess[t]] = IF @ = "idle" THEN @ ELSE "stopping"]
    /\ Return(t)
    /\ UNCHANGED <<table, mu, todo, history>>

KillCancel(t) ==
    /\ pc[t] = "cancel"
    /\ life' = [life EXCEPT ![sess[t]] = "cancelled"]
    /\ turn' = [turn EXCEPT ![sess[t]] = IF @ = "idle" THEN @ ELSE "stopping"]
    /\ Goto(t, "close", name[t], sess[t])
    /\ UNCHANGED <<table, mu, todo, history>>

KillClose(t) ==
    /\ pc[t] = "close"
    /\ life' = [life EXCEPT ![sess[t]] = "closed"]
    /\ Return(t)
    /\ UNCHANGED <<table, turn, mu, todo, history>>

-----------------------------------------------------------------------------
(* renameSession, from a wstat or from ctl rn: the lock is held from the      *)
(* checks to the end.                                                         *)

RenameAllowed(i, j) ==
    /\ sessions[i] # NoSession
    /\ sessions[j] = NoSession
    /\ turn[sessions[i]] = "idle"

RenameLock(p, i, j) ==
    /\ \/ pc[p] = "ready"
       \/ pc[p] = "resolved" /\ name[p] = i
    /\ mu = Free
    /\ RenameAllowed(i, j)
    /\ mu' = p
    /\ pc' = [pc EXCEPT ![p] = "renaming"]
    /\ name' = [name EXCEPT ![p] = i]
    /\ newName' = [newName EXCEPT ![p] = j]
    /\ sess' = [sess EXCEPT ![p] = sessions[i]]
    /\ UNCHANGED <<table, life, turn, todo, history>>

RenameReturn(p) ==
    /\ mu' = Free
    /\ pc' = [pc EXCEPT ![p] = "ready"]
    /\ name' = [name EXCEPT ![p] = NoId]
    /\ newName' = [newName EXCEPT ![p] = NoId]
    /\ sess' = [sess EXCEPT ![p] = NoSession]

Relink(p, newId, left) ==
    /\ pc[p] = "renaming"
    /\ id' = [id EXCEPT ![sess[p]] = newId]
    /\ sessions' = [sessions EXCEPT ![newName[p]] = sess[p], ![name[p]] = left]
    /\ moved' = moved \union (snap \intersect {sess[p]})
    /\ RenameReturn(p)
    /\ UNCHANGED <<life, turn, todo, snap, displaced>>

(* Mutants: sess.id is not updated; the old name is not deleted. *)
RenameKeepsId(p) == Relink(p, id[sess[p]], NoSession)
RenameKeepsOldName(p) == Relink(p, newName[p], sess[p])

RenameCommit(p) == Relink(p, newName[p], NoSession)

(* Mutant: the error return leaves s.mu locked. *)
RenameAbortLocked(p) ==
    /\ pc[p] = "renaming"
    /\ Return(p)
    /\ UNCHANGED <<table, life, turn, mu, todo, history>>

(* Core.SetSessionID fails. *)
RenameAbort(p) ==
    /\ pc[p] = "renaming"
    /\ RenameReturn(p)
    /\ UNCHANGED <<table, life, turn, todo, history>>

-----------------------------------------------------------------------------
(* The signal: InterruptAll, then Shutdown, which lists the names under the   *)
(* lock and kills them one by one without it.                                 *)
InterruptAll ==
    /\ pc[Main] = "serving" /\ mu = Free
    /\ turn' = [s \in Sessions |->
                  IF s \in Registered /\ turn[s] = "running" THEN "stopping" ELSE turn[s]]
    /\ Goto(Main, "list", NoId, NoSession)
    /\ UNCHANGED <<table, life, mu, todo, history>>

ListThen(holder) ==
    /\ pc[Main] = "list" /\ mu = Free
    /\ todo' = {i \in Ids : sessions[i] # NoSession}
    /\ snap' = Registered
    /\ mu' = holder
    /\ Goto(Main, "loop", NoId, NoSession)
    /\ UNCHANGED <<table, life, turn, moved, displaced>>

(* Mutant: the lock is not released after the listing. *)
ShutdownListLocked == ListThen(Main)

ShutdownList == ListThen(Free)

ShutdownNext(i) ==
    /\ pc[Main] = "loop"
    /\ i \in todo
    /\ todo' = todo \ {i}
    /\ Goto(Main, "unlink", i, NoSession)
    /\ UNCHANGED <<table, life, turn, mu, history>>

(* Mutant: the loop ends before the last name. *)
ShutdownDoneEarly ==
    /\ pc[Main] = "loop"
    /\ Goto(Main, "done", NoId, NoSession)
    /\ UNCHANGED <<table, life, turn, mu, todo, history>>

(* Shutdown returns; handlers may still run while main unmounts. *)
ShutdownDone ==
    /\ pc[Main] = "loop"
    /\ todo = {}
    /\ Goto(Main, "done", NoId, NoSession)
    /\ UNCHANGED <<table, life, turn, mu, todo, history>>

-----------------------------------------------------------------------------
Create(p) == \/ \E i \in Ids : CreateCheck(p, i)
             \/ \E s \in Sessions : CreateBuild(p, s)
             \/ CreateFail(p)
             \/ CreateInsert(p)

Drive(p) == \/ \E i \in Ids : Lookup(p, i)
            \/ Finish(p)
            \/ SubmitTurn(p)
            \/ StopTurn(p)

Kill(t) == KillUnlink(t) \/ KillCancel(t) \/ KillClose(t)

Rename(p) == \/ \E i, j \in Ids : RenameLock(p, i, j)
             \/ RenameCommit(p)
             \/ RenameAbort(p)

Shutdown == \/ InterruptAll
            \/ ShutdownList
            \/ \E i \in Ids : ShutdownNext(i)
            \/ ShutdownDone

Next == \/ \E p \in Procs : Create(p) \/ Drive(p) \/ Rename(p)
        \/ \E t \in Threads : Kill(t)
        \/ \E s \in Sessions : TurnEnd(s)
        \/ Shutdown

Spec == Init /\ [][Next]_vars

(* A goroutine that is past its lookup keeps running.  Go's RWMutex serves    *)
(* its waiters in turn, so one that waits for the lock gets it although the   *)
(* lock is taken and released again meanwhile: strong fairness.  A core whose *)
(* turn was interrupted or whose context is dead ends the turn.  Nothing      *)
(* makes a rename end: it calls OnRename with the lock held, and that may     *)
(* wait for a walk that waits for the lock (FidTable!RenameReturns).          *)
Fairness ==
    /\ \A p \in Procs : /\ WF_vars(KillCancel(p) \/ KillClose(p))
                        /\ SF_vars(CreateInsert(p))
    /\ WF_vars(KillCancel(Main) \/ KillClose(Main))
    /\ SF_vars(pc[Main] = "unlink" /\ KillUnlink(Main))
    /\ SF_vars(ShutdownList)
    /\ WF_vars((\E i \in Ids : ShutdownNext(i)) \/ ShutdownDone)
    /\ \A s \in Sessions : WF_vars(turn[s] = "stopping" /\ TurnEnd(s))

FairSpec == Spec /\ Fairness

-----------------------------------------------------------------------------
TypeOK ==
    /\ sessions \in [Ids -> Sessions \union {NoSession}]
    /\ id \in [Sessions -> Ids \union {NoId}]
    /\ life \in [Sessions -> {"unborn", "live", "cancelled", "closed"}]
    /\ turn \in [Sessions -> {"idle", "running", "stopping"}]
    /\ mu \in Procs \union {Free}
    /\ pc \in [Threads -> {"ready", "build", "insert", "resolved", "renaming", "unlink", "cancel",
                           "close", "serving", "list", "loop", "done"}]
    /\ name \in [Threads -> Ids \union {NoId}]
    /\ newName \in [Threads -> Ids \union {NoId}]
    /\ sess \in [Threads -> Sessions \union {NoSession}]
    /\ todo \subseteq Ids
    /\ snap \subseteq Sessions /\ moved \subseteq snap /\ displaced \subseteq Sessions

Creating(s) == \E p \in Procs : pc[p] = "insert" /\ sess[p] = s
Killing(s) == \E t \in Threads : pc[t] \in {"cancel", "close"} /\ sess[t] = s

(* The table and the objects agree: a session found under a name carries that *)
(* name (the log line, RunnableID and the next rename's oldID depend on it),  *)
(* so no session is reachable under two names, whatever creates, kills and    *)
(* renames interleave (session.go 396-398, 424-426).                          *)
MapMatchesId == \A i \in Ids : sessions[i] # NoSession => id[sessions[i]] = i

(* A session in the table has a live context and an open core: a kill takes   *)
(* it out of the table before it touches it (session.go 269-275).             *)
RegisteredIsLive == \A i \in Ids : sessions[i] # NoSession => life[sessions[i]] = "live"

(* Together: what a lookup finds is a live session of that name               *)
(* (session.go 269-275, 396-398, 424-426).                                    *)
TableAgrees == MapMatchesId /\ RegisteredIsLive

(* No session is killed twice: two kills of the same name, a kill racing a    *)
(* rename or Shutdown never both cancel and close the same core.              *)
SoleKiller ==
    \A t, u \in Threads :
        /\ t # u
        /\ pc[t] \in {"cancel", "close"} /\ pc[u] \in {"cancel", "close"}
        => sess[t] # sess[u]

(* A live session can still be reached or is about to be closed: it is in the *)
(* table, or its creator has yet to insert it, or a killer holds it.  The     *)
(* only other way to lose one is an insertion over it.                        *)
LiveIsHeld ==
    \A s \in Sessions :
        life[s] \in {"live", "cancelled"} =>
            s \in Registered \/ Creating(s) \/ Killing(s) \/ s \in displaced

(* Together: a session that leaves the table is closed by exactly one killer. *)
(* The exemption is createSession's race: two creations of one name both pass *)
(* the duplicate check, and the second insertion displaces a live session     *)
(* (session.go 269-275, 342-346, 397).                                        *)
KillsAreClean == SoleKiller /\ LiveIsHeld

(* What a rename checked still holds when it commits: the old name is its     *)
(* session's and the new one is free (session.go 405-426, one critical        *)
(* section).                                                                  *)
RenameIsAtomic ==
    \A p \in Procs : pc[p] = "renaming" =>
        /\ mu = p
        /\ sessions[name[p]] = sess[p]
        /\ sessions[newName[p]] = NoSession

(* When Shutdown returns, a session it listed is out of the table unless a    *)
(* rename moved it to a name Shutdown had not listed or already passed.       *)
ShutdownMissesOnlyMoved ==
    \A s \in snap \intersect Registered :
        \/ s \in moved
        \/ pc[Main] # "done" /\ id[s] \in todo
        \/ pc[Main] = "unlink" /\ name[Main] = id[s]

(* No turn runs on beyond the kill of its session: once the context is        *)
(* cancelled, a turn is on its way out, also one submitted afterwards through *)
(* a stale handle.                                                            *)
DeadTurnsStop == \A s \in Sessions : life[s] \in {"cancelled", "closed"} => turn[s] # "running"

(* A session unlinked by a kill is eventually closed, its lock-free clean-up  *)
(* never gets lost.                                                           *)
UnlinkedGetsClosed == \A s \in Sessions : Killing(s) ~> life[s] = "closed"

(* No handler stays in renameSession for good (session.go 404-434).           *)
RenamesReturn == \A p \in Procs : []<>(pc[p] # "renaming")

(* Shutdown comes to an end although handlers go on creating and renaming     *)
(* sessions, since it works on a snapshot and leaves the lock to others in    *)
(* between, unless one rename never returns: that one keeps the lock, and     *)
(* Shutdown waits for it for ever (session.go 255-266, 404-434).              *)
ShutdownTerminates == RenamesReturn => (pc[Main] = "list" ~> pc[Main] = "done")

-----------------------------------------------------------------------------
(* The registry a client sees. *)
PhaseOf(s) == IF s \in Registered THEN "bound"
              ELSE IF life[s] = "unborn" \/ Creating(s) THEN "fresh" ELSE "gone"

Registry == INSTANCE SessionRegistry WITH
    Objects <- Sessions, Nobody <- NoSession,
    bound <- sessions, phase <- [s \in Sessions |-> PhaseOf(s)]

(* The handlers implement the registry: in particular no interleaving binds   *)
(* one object to two names, moves it onto a name in use, or brings a killed   *)
(* session back.                                                              *)
ImplementsRegistry == Registry!RSpec

=============================================================================
