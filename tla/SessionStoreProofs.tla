-------------------------- MODULE SessionStoreProofs --------------------------
(* Proofs about SessionStore for any sets of names, sessions and handlers.    *)
EXTENDS SessionStore, TLAPS

(* Which labels a goroutine can be at, and what its locals hold there. *)
HandlerLabels == {"ready", "build", "insert", "resolved", "renaming", "cancel", "close"}
MainLabels == {"serving", "list", "loop", "unlink", "cancel", "close", "done"}

LocalsOK ==
    /\ \A p \in Procs : pc[p] \in HandlerLabels
    /\ pc[Main] \in MainLabels
    /\ \A t \in Threads :
         /\ pc[t] \in {"build", "insert", "resolved", "renaming", "unlink", "cancel", "close"}
              => name[t] \in Ids
         /\ pc[t] \in {"insert", "resolved", "renaming", "cancel", "close"} => sess[t] \in Sessions
         /\ pc[t] = "renaming" => newName[t] \in Ids

(* The writer that holds the lock is the one that renames. *)
LockOK == \A t \in Threads : pc[t] = "renaming" <=> mu = t

(* An object yet to be inserted is live, bears the name it will get, and      *)
(* nobody else knows it.                                                      *)
CreatorOK ==
    \A p \in Procs : pc[p] = "insert" =>
        /\ life[sess[p]] = "live"
        /\ id[sess[p]] = name[p]
        /\ \A i \in Ids : sessions[i] # sess[p]
        /\ \A t \in Threads :
             t # p /\ pc[t] \in {"insert", "resolved", "renaming", "cancel", "close"} => sess[t] # sess[p]

(* An object being killed is out of the table, and as far gone as its killer. *)
KillerOK ==
    \A t \in Threads :
        /\ pc[t] \in {"cancel", "close"} => \A i \in Ids : sessions[i] # sess[t]
        /\ pc[t] = "cancel" => life[sess[t]] = "live"
        /\ pc[t] = "close" => life[sess[t]] = "cancelled"

(* A handle on a session is a handle on a born session. *)
HandleOK == \A t \in Threads : pc[t] \in {"resolved", "renaming"} => life[sess[t]] # "unborn"

(* The histories start with Shutdown's listing; an object yet to be inserted  *)
(* cannot be in one.                                                          *)
HistoryOK ==
    /\ pc[Main] \in {"serving", "list"} => snap = {}
    /\ \A p \in Procs : pc[p] = "insert" => sess[p] \notin snap
    /\ pc[Main] = "done" => todo = {}
    /\ \A s \in snap : life[s] # "unborn"

IInv ==
    /\ TypeOK /\ LocalsOK /\ LockOK /\ HistoryOK
    /\ MapMatchesId /\ RegisteredIsLive
    /\ CreatorOK /\ KillerOK /\ HandleOK
    /\ SoleKiller /\ RenameIsAtomic /\ DeadTurnsStop
    /\ LiveIsHeld /\ ShutdownMissesOnlyMoved

USE ConstantsDistinct DEF Threads

------------------------------------------------------------------------------
(* The initial state satisfies the invariant: no session, no lock, all ready. *)
LEMMA InitIInv == Init => IInv
BY DEF Init, IInv, TypeOK, LocalsOK, HandlerLabels, MainLabels, LockOK, MapMatchesId,
       RegisteredIsLive, CreatorOK, KillerOK, HandleOK, SoleKiller, RenameIsAtomic, DeadTurnsStop,
       HistoryOK, LiveIsHeld, ShutdownMissesOnlyMoved, Registered

(* Every step keeps every variable in its type. *)
LEMMA TypeStep == TypeOK /\ LocalsOK /\ HistoryOK /\ [Next]_vars => TypeOK'
<1> SUFFICES ASSUME TypeOK, LocalsOK, HistoryOK, [Next]_vars PROVE TypeOK'
  OBVIOUS
<1> USE DEF TypeOK, LocalsOK, Goto, Return, table, locals, history
<1>1. ASSUME NEW p \in Procs, Create(p) PROVE TypeOK'
  BY <1>1 DEF Create, CreateCheck, CreateBuild, CreateFail, CreateInsert, Insert
<1>2. ASSUME NEW p \in Procs, Drive(p) PROVE TypeOK'
  BY <1>2 DEF Drive, Lookup, Finish, SubmitTurn, StopTurn
<1>3. ASSUME NEW p \in Procs, Rename(p) PROVE TypeOK'
  BY <1>3 DEF Rename, RenameLock, RenameAllowed, RenameCommit, Relink, RenameAbort, RenameReturn
<1>4. ASSUME NEW t \in Threads, Kill(t) PROVE TypeOK'
  BY <1>4 DEF Kill, KillUnlink, Unlink, KillCancel, KillClose
<1>5. ASSUME NEW s \in Sessions, TurnEnd(s) PROVE TypeOK'
  BY <1>5 DEF TurnEnd
<1>6. ASSUME Shutdown PROVE TypeOK'
  <2>1. CASE InterruptAll
    BY <2>1 DEF InterruptAll
  <2>2. CASE ShutdownList
    BY <2>2 DEF ShutdownList, ListThen, Registered, HistoryOK
  <2>3. ASSUME NEW i \in Ids, ShutdownNext(i) PROVE TypeOK'
    BY <2>3 DEF ShutdownNext
  <2>4. CASE ShutdownDone
    BY <2>4 DEF ShutdownDone
  <2>. QED BY <1>6, <2>1, <2>2, <2>3, <2>4 DEF Shutdown
<1>7. CASE UNCHANGED vars
  BY <1>7 DEF vars
<1>. QED BY <1>1, <1>2, <1>3, <1>4, <1>5, <1>6, <1>7 DEF Next

(* Creating a session keeps the invariant. *)
LEMMA CreateStep ==
  ASSUME IInv, TypeOK', NEW p \in Procs, Create(p) PROVE IInv'
<1> USE DEF IInv, TypeOK, Goto, Return, table, locals, history
<1>1. ASSUME NEW i \in Ids, CreateCheck(p, i) PROVE IInv'
  BY <1>1 DEF CreateCheck,
     LocalsOK, HandlerLabels, MainLabels, LockOK, HistoryOK, MapMatchesId, RegisteredIsLive, CreatorOK,
     KillerOK, HandleOK, SoleKiller, RenameIsAtomic, DeadTurnsStop, LiveIsHeld, Creating, Killing,
     Registered, ShutdownMissesOnlyMoved
<1>2. ASSUME NEW s \in Sessions, CreateBuild(p, s) PROVE IInv'
  <2>1. (LocalsOK /\ LockOK /\ HistoryOK)'
    BY <1>2 DEF CreateBuild, LocalsOK, HandlerLabels, MainLabels, LockOK, HistoryOK,
       CreatorOK, RegisteredIsLive, Registered
  <2>2. (MapMatchesId /\ RegisteredIsLive)'
    BY <1>2 DEF CreateBuild, MapMatchesId, RegisteredIsLive, LocalsOK, CreatorOK, KillerOK,
       RenameIsAtomic, SoleKiller, HandleOK
  <2>3. (CreatorOK /\ KillerOK /\ HandleOK /\ SoleKiller)'
    BY <1>2 DEF CreateBuild, CreatorOK, KillerOK, HandleOK, SoleKiller, LocalsOK,
       HandlerLabels, MainLabels, MapMatchesId, RegisteredIsLive, RenameIsAtomic
  <2>4. (RenameIsAtomic /\ DeadTurnsStop)'
    BY <1>2 DEF CreateBuild, RenameIsAtomic, DeadTurnsStop, LocalsOK, LockOK, KillerOK
  <2>5. LiveIsHeld'
    BY <1>2 DEF CreateBuild, LiveIsHeld, Creating, Killing, Registered, LocalsOK,
       MapMatchesId, RenameIsAtomic, KillerOK, CreatorOK
  <2>6. ShutdownMissesOnlyMoved'
    BY <1>2 DEF CreateBuild, ShutdownMissesOnlyMoved, Registered, LocalsOK, HistoryOK,
       MapMatchesId, RenameIsAtomic, CreatorOK
  <2>. QED BY <2>1, <2>2, <2>3, <2>4, <2>5, <2>6
<1>3. ASSUME CreateFail(p) PROVE IInv'
  BY <1>3 DEF CreateFail,
     LocalsOK, HandlerLabels, MainLabels, LockOK, HistoryOK, MapMatchesId, RegisteredIsLive, CreatorOK,
     KillerOK, HandleOK, SoleKiller, RenameIsAtomic, DeadTurnsStop, LiveIsHeld, Creating, Killing,
     Registered, ShutdownMissesOnlyMoved
<1>4. ASSUME CreateInsert(p) PROVE IInv'
  <2>1. (LocalsOK /\ LockOK /\ HistoryOK)'
    BY <1>4 DEF CreateInsert, Insert, LocalsOK, HandlerLabels, MainLabels, LockOK, HistoryOK,
       CreatorOK, RegisteredIsLive, Registered
  <2>2. (MapMatchesId /\ RegisteredIsLive)'
    BY <1>4 DEF CreateInsert, Insert, MapMatchesId, RegisteredIsLive, LocalsOK, CreatorOK,
       KillerOK, RenameIsAtomic, SoleKiller, HandleOK
  <2>3. (CreatorOK /\ KillerOK /\ HandleOK /\ SoleKiller)'
    BY <1>4 DEF CreateInsert, Insert, CreatorOK, KillerOK, HandleOK, SoleKiller, LocalsOK,
       HandlerLabels, MainLabels, MapMatchesId, RegisteredIsLive, RenameIsAtomic
  <2>4. (RenameIsAtomic /\ DeadTurnsStop)'
    BY <1>4 DEF CreateInsert, Insert, RenameIsAtomic, DeadTurnsStop, LocalsOK, LockOK, KillerOK
  <2>5. LiveIsHeld'
    BY <1>4 DEF CreateInsert, Insert, LiveIsHeld, Creating, Killing, Registered, LocalsOK,
       MapMatchesId, RenameIsAtomic, KillerOK, CreatorOK
  <2>6. ShutdownMissesOnlyMoved'
    BY <1>4 DEF CreateInsert, Insert, ShutdownMissesOnlyMoved, Registered, LocalsOK,
       HistoryOK, MapMatchesId, RenameIsAtomic, CreatorOK
  <2>. QED BY <2>1, <2>2, <2>3, <2>4, <2>5, <2>6
<1>. QED BY <1>1, <1>2, <1>3, <1>4 DEF Create

(* So does a request that only looks a session up or drives its turn. *)
LEMMA DriveStep ==
  ASSUME IInv, TypeOK', NEW p \in Procs, Drive(p) PROVE IInv'
<1> USE DEF IInv, TypeOK, Goto, Return, table, locals, history
<1>1. ASSUME NEW i \in Ids, Lookup(p, i) PROVE IInv'
  BY <1>1 DEF Lookup,
     LocalsOK, HandlerLabels, MainLabels, LockOK, HistoryOK, MapMatchesId, RegisteredIsLive, CreatorOK,
     KillerOK, HandleOK, SoleKiller, RenameIsAtomic, DeadTurnsStop, LiveIsHeld, Creating, Killing,
     Registered, ShutdownMissesOnlyMoved
<1>2. ASSUME Finish(p) PROVE IInv'
  BY <1>2 DEF Finish,
     LocalsOK, HandlerLabels, MainLabels, LockOK, HistoryOK, MapMatchesId, RegisteredIsLive, CreatorOK,
     KillerOK, HandleOK, SoleKiller, RenameIsAtomic, DeadTurnsStop, LiveIsHeld, Creating, Killing,
     Registered, ShutdownMissesOnlyMoved
<1>3. ASSUME SubmitTurn(p) PROVE IInv'
  BY <1>3 DEF SubmitTurn,
     LocalsOK, HandlerLabels, MainLabels, LockOK, HistoryOK, MapMatchesId, RegisteredIsLive, CreatorOK,
     KillerOK, HandleOK, SoleKiller, RenameIsAtomic, DeadTurnsStop, LiveIsHeld, Creating, Killing,
     Registered, ShutdownMissesOnlyMoved
<1>4. ASSUME StopTurn(p) PROVE IInv'
  BY <1>4 DEF StopTurn,
     LocalsOK, HandlerLabels, MainLabels, LockOK, HistoryOK, MapMatchesId, RegisteredIsLive, CreatorOK,
     KillerOK, HandleOK, SoleKiller, RenameIsAtomic, DeadTurnsStop, LiveIsHeld, Creating, Killing,
     Registered, ShutdownMissesOnlyMoved
<1>. QED BY <1>1, <1>2, <1>3, <1>4 DEF Drive

(* So does a kill, by a handler or by Shutdown. *)
LEMMA KillStep ==
  ASSUME IInv, TypeOK', NEW t \in Threads, Kill(t) PROVE IInv'
<1> USE DEF IInv, TypeOK, Goto, Return, table, locals, history
<1>1. ASSUME KillUnlink(t) PROVE IInv'
  <2>1. (LocalsOK /\ LockOK /\ HistoryOK)'
    BY <1>1 DEF KillUnlink, Unlink, LocalsOK, HandlerLabels, MainLabels, LockOK, HistoryOK,
       CreatorOK, RegisteredIsLive, Registered
  <2>2. (MapMatchesId /\ RegisteredIsLive)'
    BY <1>1 DEF KillUnlink, Unlink, MapMatchesId, RegisteredIsLive, LocalsOK, CreatorOK,
       KillerOK, RenameIsAtomic, SoleKiller, HandleOK
  <2>3. (CreatorOK /\ KillerOK /\ HandleOK /\ SoleKiller)'
    BY <1>1 DEF KillUnlink, Unlink, CreatorOK, KillerOK, HandleOK, SoleKiller, LocalsOK,
       HandlerLabels, MainLabels, MapMatchesId, RegisteredIsLive, RenameIsAtomic
  <2>4. (RenameIsAtomic /\ DeadTurnsStop)'
    BY <1>1 DEF KillUnlink, Unlink, RenameIsAtomic, DeadTurnsStop, LocalsOK, LockOK, KillerOK
  <2>5. LiveIsHeld'
    BY <1>1 DEF KillUnlink, Unlink, LiveIsHeld, Creating, Killing, Registered, LocalsOK,
       MapMatchesId, RenameIsAtomic, KillerOK, CreatorOK
  <2>6. ShutdownMissesOnlyMoved'
    BY <1>1 DEF KillUnlink, Unlink, ShutdownMissesOnlyMoved, Registered, LocalsOK, HistoryOK,
       MapMatchesId, RenameIsAtomic, CreatorOK
  <2>. QED BY <2>1, <2>2, <2>3, <2>4, <2>5, <2>6
<1>2. ASSUME KillCancel(t) PROVE IInv'
  <2>1. (LocalsOK /\ LockOK /\ HistoryOK)'
    BY <1>2 DEF KillCancel, LocalsOK, HandlerLabels, MainLabels, LockOK, HistoryOK, CreatorOK,
       RegisteredIsLive, Registered
  <2>2. (MapMatchesId /\ RegisteredIsLive)'
    BY <1>2 DEF KillCancel, MapMatchesId, RegisteredIsLive, LocalsOK, CreatorOK, KillerOK,
       RenameIsAtomic, SoleKiller, HandleOK
  <2>3. (CreatorOK /\ KillerOK /\ HandleOK /\ SoleKiller)'
    BY <1>2 DEF KillCancel, CreatorOK, KillerOK, HandleOK, SoleKiller, LocalsOK,
       HandlerLabels, MainLabels, MapMatchesId, RegisteredIsLive, RenameIsAtomic
  <2>4. (RenameIsAtomic /\ DeadTurnsStop)'
    BY <1>2 DEF KillCancel, RenameIsAtomic, DeadTurnsStop, LocalsOK, LockOK, KillerOK
  <2>5. LiveIsHeld'
    BY <1>2 DEF KillCancel, LiveIsHeld, Creating, Killing, Registered, LocalsOK, MapMatchesId,
       RenameIsAtomic, KillerOK, CreatorOK
  <2>6. ShutdownMissesOnlyMoved'
    BY <1>2 DEF KillCancel, ShutdownMissesOnlyMoved, Registered, LocalsOK, HistoryOK,
       MapMatchesId, RenameIsAtomic, CreatorOK
  <2>. QED BY <2>1, <2>2, <2>3, <2>4, <2>5, <2>6
<1>3. ASSUME KillClose(t) PROVE IInv'
  <2>1. (LocalsOK /\ LockOK /\ HistoryOK)'
    BY <1>3 DEF KillClose, LocalsOK, HandlerLabels, MainLabels, LockOK, HistoryOK, CreatorOK,
       RegisteredIsLive, Registered
  <2>2. (MapMatchesId /\ RegisteredIsLive)'
    BY <1>3 DEF KillClose, MapMatchesId, RegisteredIsLive, LocalsOK, CreatorOK, KillerOK,
       RenameIsAtomic, SoleKiller, HandleOK
  <2>3. (CreatorOK /\ KillerOK /\ HandleOK /\ SoleKiller)'
    BY <1>3 DEF KillClose, CreatorOK, KillerOK, HandleOK, SoleKiller, LocalsOK, HandlerLabels,
       MainLabels, MapMatchesId, RegisteredIsLive, RenameIsAtomic
  <2>4. (RenameIsAtomic /\ DeadTurnsStop)'
    BY <1>3 DEF KillClose, RenameIsAtomic, DeadTurnsStop, LocalsOK, LockOK, KillerOK
  <2>5. LiveIsHeld'
    BY <1>3 DEF KillClose, LiveIsHeld, Creating, Killing, Registered, LocalsOK, MapMatchesId,
       RenameIsAtomic, KillerOK, CreatorOK
  <2>6. ShutdownMissesOnlyMoved'
    BY <1>3 DEF KillClose, ShutdownMissesOnlyMoved, Registered, LocalsOK, HistoryOK,
       MapMatchesId, RenameIsAtomic, CreatorOK
  <2>. QED BY <2>1, <2>2, <2>3, <2>4, <2>5, <2>6
<1>. QED BY <1>1, <1>2, <1>3 DEF Kill

(* So does a rename. *)
LEMMA RenameStep ==
  ASSUME IInv, TypeOK', NEW p \in Procs, Rename(p) PROVE IInv'
<1> USE DEF IInv, TypeOK, Goto, Return, table, locals, history
<1>1. ASSUME NEW i \in Ids, NEW j \in Ids, RenameLock(p, i, j) PROVE IInv'
  <2>1. (LocalsOK /\ LockOK /\ HistoryOK)'
    BY <1>1 DEF RenameLock, RenameAllowed, LocalsOK, HandlerLabels, MainLabels, LockOK,
       HistoryOK, CreatorOK, RegisteredIsLive, Registered
  <2>2. (MapMatchesId /\ RegisteredIsLive)'
    BY <1>1 DEF RenameLock, RenameAllowed, MapMatchesId, RegisteredIsLive, LocalsOK,
       CreatorOK, KillerOK, RenameIsAtomic, SoleKiller, HandleOK
  <2>3. (CreatorOK /\ KillerOK /\ HandleOK /\ SoleKiller)'
    BY <1>1 DEF RenameLock, RenameAllowed, CreatorOK, KillerOK, HandleOK, SoleKiller,
       LocalsOK, HandlerLabels, MainLabels, MapMatchesId, RegisteredIsLive, RenameIsAtomic
  <2>4. (RenameIsAtomic /\ DeadTurnsStop)'
    BY <1>1 DEF RenameLock, RenameAllowed, RenameIsAtomic, DeadTurnsStop, LocalsOK, LockOK,
       KillerOK
  <2>5. LiveIsHeld'
    BY <1>1 DEF RenameLock, RenameAllowed, LiveIsHeld, Creating, Killing, Registered,
       LocalsOK, MapMatchesId, RenameIsAtomic, KillerOK, CreatorOK
  <2>6. ShutdownMissesOnlyMoved'
    BY <1>1 DEF RenameLock, RenameAllowed, ShutdownMissesOnlyMoved, Registered, LocalsOK,
       HistoryOK, MapMatchesId, RenameIsAtomic, CreatorOK
  <2>. QED BY <2>1, <2>2, <2>3, <2>4, <2>5, <2>6
<1>2. ASSUME RenameCommit(p) PROVE IInv'
  <2>1. (LocalsOK /\ LockOK /\ HistoryOK)'
    BY <1>2 DEF RenameCommit, Relink, RenameReturn, LocalsOK, HandlerLabels, MainLabels,
       LockOK, HistoryOK, CreatorOK, RegisteredIsLive, Registered
  <2>2. (MapMatchesId /\ RegisteredIsLive)'
    BY <1>2 DEF RenameCommit, Relink, RenameReturn, MapMatchesId, RegisteredIsLive, LocalsOK,
       CreatorOK, KillerOK, RenameIsAtomic, SoleKiller, HandleOK
  <2>3. (CreatorOK /\ KillerOK /\ HandleOK /\ SoleKiller)'
    BY <1>2 DEF RenameCommit, Relink, RenameReturn, CreatorOK, KillerOK, HandleOK, SoleKiller,
       LocalsOK, HandlerLabels, MainLabels, MapMatchesId, RegisteredIsLive, RenameIsAtomic
  <2>4. (RenameIsAtomic /\ DeadTurnsStop)'
    BY <1>2 DEF RenameCommit, Relink, RenameReturn, RenameIsAtomic, DeadTurnsStop, LocalsOK,
       LockOK, KillerOK
  <2>5. LiveIsHeld'
    BY <1>2 DEF RenameCommit, Relink, RenameReturn, LiveIsHeld, Creating, Killing, Registered,
       LocalsOK, MapMatchesId, RenameIsAtomic, KillerOK, CreatorOK
  <2>6. ShutdownMissesOnlyMoved'
    BY <1>2 DEF RenameCommit, Relink, RenameReturn, ShutdownMissesOnlyMoved, Registered,
       LocalsOK, HistoryOK, MapMatchesId, RenameIsAtomic, CreatorOK
  <2>. QED BY <2>1, <2>2, <2>3, <2>4, <2>5, <2>6
<1>3. ASSUME RenameAbort(p) PROVE IInv'
  BY <1>3 DEF RenameAbort, RenameReturn,
     LocalsOK, HandlerLabels, MainLabels, LockOK, HistoryOK, MapMatchesId, RegisteredIsLive, CreatorOK,
     KillerOK, HandleOK, SoleKiller, RenameIsAtomic, DeadTurnsStop, LiveIsHeld, Creating, Killing,
     Registered, ShutdownMissesOnlyMoved
<1>. QED BY <1>1, <1>2, <1>3 DEF Rename

(* So does every step of the shutdown. *)
LEMMA ShutdownStep ==
  ASSUME IInv, TypeOK', Shutdown PROVE IInv'
<1> USE DEF IInv, TypeOK, Goto, Return, table, locals, history
<1>1. ASSUME InterruptAll PROVE IInv'
  BY <1>1 DEF InterruptAll,
     LocalsOK, HandlerLabels, MainLabels, LockOK, HistoryOK, MapMatchesId, RegisteredIsLive, CreatorOK,
     KillerOK, HandleOK, SoleKiller, RenameIsAtomic, DeadTurnsStop, LiveIsHeld, Creating, Killing,
     Registered, ShutdownMissesOnlyMoved
<1>2. ASSUME ShutdownList PROVE IInv'
  <2>1. (LocalsOK /\ LockOK /\ HistoryOK)'
    BY <1>2 DEF ShutdownList, ListThen, LocalsOK, HandlerLabels, MainLabels, LockOK,
       HistoryOK, CreatorOK, RegisteredIsLive, Registered
  <2>2. (MapMatchesId /\ RegisteredIsLive)'
    BY <1>2 DEF ShutdownList, ListThen, MapMatchesId, RegisteredIsLive, LocalsOK, CreatorOK,
       KillerOK, RenameIsAtomic, SoleKiller, HandleOK
  <2>3. (CreatorOK /\ KillerOK /\ HandleOK /\ SoleKiller)'
    BY <1>2 DEF ShutdownList, ListThen, CreatorOK, KillerOK, HandleOK, SoleKiller, LocalsOK,
       HandlerLabels, MainLabels, MapMatchesId, RegisteredIsLive, RenameIsAtomic
  <2>4. (RenameIsAtomic /\ DeadTurnsStop)'
    BY <1>2 DEF ShutdownList, ListThen, RenameIsAtomic, DeadTurnsStop, LocalsOK, LockOK,
       KillerOK
  <2>5. LiveIsHeld'
    BY <1>2 DEF ShutdownList, ListThen, LiveIsHeld, Creating, Killing, Registered, LocalsOK,
       MapMatchesId, RenameIsAtomic, KillerOK, CreatorOK
  <2>6. ShutdownMissesOnlyMoved'
    BY <1>2 DEF ShutdownList, ListThen, ShutdownMissesOnlyMoved, Registered, LocalsOK,
       HistoryOK, MapMatchesId, RenameIsAtomic, CreatorOK
  <2>. QED BY <2>1, <2>2, <2>3, <2>4, <2>5, <2>6
<1>3. ASSUME NEW i \in Ids, ShutdownNext(i) PROVE IInv'
  BY <1>3 DEF ShutdownNext,
     LocalsOK, HandlerLabels, MainLabels, LockOK, HistoryOK, MapMatchesId, RegisteredIsLive, CreatorOK,
     KillerOK, HandleOK, SoleKiller, RenameIsAtomic, DeadTurnsStop, LiveIsHeld, Creating, Killing,
     Registered, ShutdownMissesOnlyMoved
<1>4. ASSUME ShutdownDone PROVE IInv'
  BY <1>4 DEF ShutdownDone,
     LocalsOK, HandlerLabels, MainLabels, LockOK, HistoryOK, MapMatchesId, RegisteredIsLive, CreatorOK,
     KillerOK, HandleOK, SoleKiller, RenameIsAtomic, DeadTurnsStop, LiveIsHeld, Creating, Killing,
     Registered, ShutdownMissesOnlyMoved
<1>. QED BY <1>1, <1>2, <1>3, <1>4 DEF Shutdown

(* The invariant is inductive. *)
LEMMA IInvStep == IInv /\ [Next]_vars => IInv'
<1> SUFFICES ASSUME IInv, [Next]_vars PROVE IInv'
  OBVIOUS
<1>0. TypeOK'
  BY TypeStep DEF IInv
<1>1. ASSUME NEW p \in Procs, Create(p) \/ Drive(p) \/ Rename(p) PROVE IInv'
  BY <1>0, <1>1, CreateStep, DriveStep, RenameStep
<1>2. ASSUME NEW t \in Threads, Kill(t) PROVE IInv'
  BY <1>0, <1>2, KillStep
<1>3. ASSUME NEW s \in Sessions, TurnEnd(s) PROVE IInv'
  BY <1>0, <1>3 DEF TurnEnd, IInv, TypeOK, table, locals, history,
     LocalsOK, HandlerLabels, MainLabels, LockOK, HistoryOK, MapMatchesId, RegisteredIsLive, CreatorOK,
     KillerOK, HandleOK, SoleKiller, RenameIsAtomic, DeadTurnsStop, LiveIsHeld, Creating, Killing,
     Registered, ShutdownMissesOnlyMoved
<1>4. ASSUME Shutdown PROVE IInv'
  BY <1>0, <1>4, ShutdownStep
<1>5. CASE UNCHANGED vars
  BY <1>0, <1>5 DEF vars, IInv, TypeOK,
     LocalsOK, HandlerLabels, MainLabels, LockOK, HistoryOK, MapMatchesId, RegisteredIsLive, CreatorOK,
     KillerOK, HandleOK, SoleKiller, RenameIsAtomic, DeadTurnsStop, LiveIsHeld, Creating, Killing,
     Registered, ShutdownMissesOnlyMoved
<1>. QED BY <1>1, <1>2, <1>3, <1>4, <1>5 DEF Next

(* The invariant holds in every reachable state. *)
THEOREM Invariance == Spec => []IInv
<1>. QED BY InitIInv, IInvStep, PTL DEF Spec

(* Every variable keeps its type. *)
THEOREM TypeCorrect == Spec => []TypeOK
<1>1. IInv => TypeOK
  BY DEF IInv
<1>. QED BY <1>1, Invariance, PTL

(* Whatever creates, kills and renames interleave, a session in the table is  *)
(* live and bears the name it is found under.                                 *)
THEOREM TableConsistent == Spec => []TableAgrees
<1>1. IInv => TableAgrees
  BY DEF IInv, TableAgrees
<1>. QED BY <1>1, Invariance, PTL

(* No session is killed twice, and none is lost but by an insertion over it.  *)
THEOREM KillOnce == Spec => []KillsAreClean
<1>1. IInv => KillsAreClean
  BY DEF IInv, KillsAreClean
<1>. QED BY <1>1, Invariance, PTL

(* A rename commits what it checked. *)
THEOREM RenameAtomic == Spec => []RenameIsAtomic
<1>1. IInv => RenameIsAtomic
  BY DEF IInv
<1>. QED BY <1>1, Invariance, PTL

(* Only renamed sessions outlive the Shutdown that listed them. *)
THEOREM ShutdownComplete == Spec => []ShutdownMissesOnlyMoved
<1>1. IInv => ShutdownMissesOnlyMoved
  BY DEF IInv
<1>. QED BY <1>1, Invariance, PTL

(* A killed session runs no turn to its end. *)
THEOREM NoDeadTurn == Spec => []DeadTurnsStop
<1>1. IInv => DeadTurnsStop
  BY DEF IInv
<1>. QED BY <1>1, Invariance, PTL

------------------------------------------------------------------------------
(* The table implements the abstract registry. *)

(* A step that leaves the table alone and neither bears nor inserts an object *)
(* is no step of the registry.                                                *)
LEMMA SameView ==
  ASSUME sessions' = sessions,
         \A s \in Sessions : PhaseOf(s)' = PhaseOf(s)
  PROVE  UNCHANGED Registry!rvars
BY DEF Registry!rvars

(* Nor is a step of one goroutine that is not inserting: it leaves every phase *)
(* alone if it bears no object.                                                *)
LEMMA PhaseStutter ==
  ASSUME IInv, sessions' = sessions, NEW t \in Threads,
         pc[t] # "insert", pc'[t] # "insert",
         \A u \in Threads \ {t} : pc'[u] = pc[u] /\ sess'[u] = sess[u],
         \A s \in Sessions : life[s] = "unborn" <=> life'[s] = "unborn"
  PROVE  UNCHANGED Registry!rvars
<1> SUFFICES ASSUME NEW s \in Sessions PROVE PhaseOf(s)' = PhaseOf(s)
  BY SameView
<1>1. Creating(s)' <=> Creating(s)
  BY DEF Creating
<1>. QED BY <1>1 DEF PhaseOf, Registered

(* Initially no name is bound and every object is fresh. *)
LEMMA InitView == Init => Registry!RInit
BY DEF Init, Registry!RInit, PhaseOf, Registered

(* A creation is the registry's Bind, at its insertion, and silent before. *)
LEMMA CreateView ==
  ASSUME IInv, IInv', NEW p \in Procs, Create(p)
  PROVE  [Registry!RNext]_(Registry!rvars)
<1> USE DEF Goto, Return, table, locals, history, IInv, TypeOK
<1>1. ASSUME NEW i \in Ids, CreateCheck(p, i) PROVE UNCHANGED Registry!rvars
  BY <1>1, PhaseStutter DEF CreateCheck
<1>2. ASSUME NEW s \in Sessions, CreateBuild(p, s) PROVE UNCHANGED Registry!rvars
  <2> SUFFICES ASSUME NEW x \in Sessions PROVE PhaseOf(x)' = PhaseOf(x)
    BY <1>2, SameView DEF CreateBuild
  <2>1. CASE x = s
    <3>1. Creating(x)'
      BY <1>2, <2>1 DEF CreateBuild, Creating
    <3>. QED BY <1>2, <2>1, <3>1 DEF CreateBuild, PhaseOf, Registered
  <2>2. CASE x # s
    <3>1. Creating(x)' <=> Creating(x)
      BY <1>2, <2>2 DEF CreateBuild, Creating
    <3>. QED BY <1>2, <2>2, <3>1 DEF CreateBuild, PhaseOf, Registered
  <2>. QED BY <2>1, <2>2
<1>3. ASSUME CreateFail(p) PROVE UNCHANGED Registry!rvars
  BY <1>3, PhaseStutter DEF CreateFail
<1>4. ASSUME CreateInsert(p) PROVE Registry!Bind(name[p], sess[p])
  <2>1. PhaseOf(sess[p]) = "fresh"
    BY <1>4 DEF CreateInsert, Insert, LocalsOK, CreatorOK, PhaseOf, Registered, Creating
  <2>2. sessions' = [sessions EXCEPT ![name[p]] = sess[p]]
    BY <1>4 DEF CreateInsert, Insert
  <2>3. ASSUME NEW x \in Sessions
        PROVE  PhaseOf(x)' = IF x = sess[p] THEN "bound"
                             ELSE IF x = sessions[name[p]] THEN "gone" ELSE PhaseOf(x)
    <3> USE DEF CreateInsert, Insert, LocalsOK, CreatorOK
    <3>1. CASE x = sess[p]
      BY <1>4, <3>1 DEF PhaseOf, Registered
    <3>2. CASE x # sess[p] /\ x = sessions[name[p]]
      <4>1. x \notin Registered'
        BY <1>4, <3>2 DEF Registered, MapMatchesId
      <4>2. life'[x] # "unborn" /\ ~Creating(x)'
        BY <1>4, <3>2 DEF Creating, RegisteredIsLive
      <4>. QED BY <3>2, <4>1, <4>2 DEF PhaseOf
    <3>3. CASE x # sess[p] /\ x # sessions[name[p]]
      <4>1. x \in Registered' <=> x \in Registered
        BY <1>4, <3>3 DEF Registered
      <4>2. Creating(x)' <=> Creating(x)
        BY <1>4, <3>3 DEF Creating
      <4>. QED BY <1>4, <3>3, <4>1, <4>2 DEF PhaseOf
    <3>. QED BY <3>1, <3>2, <3>3
  <2>. QED BY <1>4, <2>1, <2>2, <2>3 DEF Registry!Bind, LocalsOK, CreateInsert, Insert
<1>. QED BY <1>1, <1>2, <1>3, <1>4 DEF Create, Registry!RNext, LocalsOK, CreateInsert, Insert

(* A kill is Release when it unlinks the session, and silent otherwise. *)
LEMMA KillView ==
  ASSUME IInv, IInv', NEW t \in Threads, Kill(t)
  PROVE  [Registry!RNext]_(Registry!rvars)
<1> USE DEF Goto, Return, table, locals, history, IInv, TypeOK
<1>1. ASSUME KillUnlink(t), sessions[name[t]] = NoSession PROVE UNCHANGED Registry!rvars
  <2>1. sessions' = sessions
    BY <1>1 DEF KillUnlink, Unlink, LocalsOK
  <2>. QED BY <1>1, <2>1, PhaseStutter DEF KillUnlink, Unlink
<1>2. ASSUME KillUnlink(t), sessions[name[t]] # NoSession PROVE Registry!Release(name[t])
  <2> USE DEF KillUnlink, Unlink, LocalsOK
  <2>1. sessions' = [sessions EXCEPT ![name[t]] = NoSession]
    BY <1>2
  <2>2. ASSUME NEW x \in Sessions
        PROVE  PhaseOf(x)' = IF x = sessions[name[t]] THEN "gone" ELSE PhaseOf(x)
    <3>0. Creating(x)' <=> Creating(x)
      BY <1>2 DEF Creating
    <3>1. CASE x = sessions[name[t]]
      <4>1. x \notin Registered'
        BY <1>2, <3>1 DEF Registered, MapMatchesId
      <4>2. life'[x] # "unborn" /\ ~Creating(x)'
        BY <1>2, <3>0, <3>1 DEF Creating, RegisteredIsLive, CreatorOK
      <4>. QED BY <3>1, <4>1, <4>2 DEF PhaseOf
    <3>2. CASE x # sessions[name[t]]
      <4>1. x \in Registered' <=> x \in Registered
        BY <1>2, <3>2 DEF Registered
      <4>. QED BY <1>2, <3>0, <3>2, <4>1 DEF PhaseOf
    <3>. QED BY <3>1, <3>2
  <2>3. [x \in Sessions |-> PhaseOf(x)]' =
          [[x \in Sessions |-> PhaseOf(x)] EXCEPT ![sessions[name[t]]] = "gone"]
    <3>1. [x \in Sessions |-> PhaseOf(x)]' =
            [x \in Sessions |-> IF x = sessions[name[t]] THEN "gone" ELSE PhaseOf(x)]
      BY <2>2, Zenon
    <3>. QED BY <3>1, Zenon
  <2>. QED BY <1>2, <2>1, <2>3 DEF Registry!Release
<1>3. ASSUME KillCancel(t) PROVE UNCHANGED Registry!rvars
  BY <1>3, PhaseStutter DEF KillCancel, LocalsOK, KillerOK
<1>4. ASSUME KillClose(t) PROVE UNCHANGED Registry!rvars
  BY <1>4, PhaseStutter DEF KillClose, LocalsOK, KillerOK
<1>. QED BY <1>1, <1>2, <1>3, <1>4 DEF Kill, Registry!RNext, LocalsOK, KillUnlink, Unlink

(* A rename is Move when it commits. *)
LEMMA RenameView ==
  ASSUME IInv, IInv', NEW p \in Procs, Rename(p)
  PROVE  [Registry!RNext]_(Registry!rvars)
<1> USE DEF RenameReturn, table, locals, history, IInv, TypeOK
<1>1. ASSUME NEW i \in Ids, NEW j \in Ids, RenameLock(p, i, j) PROVE UNCHANGED Registry!rvars
  BY <1>1, PhaseStutter DEF RenameLock
<1>2. ASSUME RenameCommit(p) PROVE Registry!Move(name[p], newName[p])
  <2> USE DEF RenameCommit, Relink, LocalsOK, RenameIsAtomic
  <2>1. sessions' = [sessions EXCEPT ![newName[p]] = sessions[name[p]], ![name[p]] = NoSession]
    BY <1>2
  <2>2. ASSUME NEW x \in Sessions PROVE PhaseOf(x)' = PhaseOf(x)
    <3>1. Creating(x)' <=> Creating(x)
      BY <1>2 DEF Creating
    <3>2. x \in Registered' <=> x \in Registered
      BY <1>2 DEF Registered, MapMatchesId
    <3>. QED BY <1>2, <3>1, <3>2 DEF PhaseOf
  <2>3. [x \in Sessions |-> PhaseOf(x)]' = [x \in Sessions |-> PhaseOf(x)]
    BY <2>2
  <2>4. sessions[name[p]] # NoSession /\ sessions[newName[p]] = NoSession
    BY <1>2
  <2>. QED BY <2>1, <2>3, <2>4 DEF Registry!Move
<1>3. ASSUME RenameAbort(p) PROVE UNCHANGED Registry!rvars
  BY <1>3, PhaseStutter DEF RenameAbort
<1>. QED BY <1>1, <1>2, <1>3 DEF Rename, Registry!RNext, LocalsOK, RenameCommit, Relink

(* Lookups, turns and the shutdown's own bookkeeping are silent. *)
LEMMA QuietView ==
  ASSUME IInv, IInv',
         \/ \E p \in Procs : Drive(p)
         \/ \E s \in Sessions : TurnEnd(s)
         \/ Shutdown
         \/ UNCHANGED vars
  PROVE  UNCHANGED Registry!rvars
<1> USE DEF Goto, Return, table, locals, history, IInv, TypeOK
<1>1. ASSUME NEW p \in Procs, Drive(p) PROVE UNCHANGED Registry!rvars
  BY <1>1, PhaseStutter DEF Drive, Lookup, Finish, SubmitTurn, StopTurn
<1>2. ASSUME NEW s \in Sessions, TurnEnd(s) PROVE UNCHANGED Registry!rvars
  BY <1>2, SameView DEF TurnEnd, PhaseOf, Creating, Registered
<1>3. ASSUME Shutdown PROVE UNCHANGED Registry!rvars
  <2>1. CASE InterruptAll
    BY <2>1, PhaseStutter DEF InterruptAll
  <2>2. CASE ShutdownList
    BY <2>2, PhaseStutter DEF ShutdownList, ListThen
  <2>3. ASSUME NEW i \in Ids, ShutdownNext(i) PROVE UNCHANGED Registry!rvars
    BY <2>3, PhaseStutter DEF ShutdownNext
  <2>4. CASE ShutdownDone
    BY <2>4, PhaseStutter DEF ShutdownDone
  <2>. QED BY <1>3, <2>1, <2>2, <2>3, <2>4 DEF Shutdown
<1>4. CASE UNCHANGED vars
  BY <1>4, SameView DEF vars, PhaseOf, Creating, Registered
<1>. QED BY <1>1, <1>2, <1>3, <1>4

(* Every behaviour of the handlers is one of the registry: a name is bound to *)
(* one object, a rename moves it to a free name, a killed one stays gone.     *)
THEOREM Implements == Spec => ImplementsRegistry
<1>1. IInv /\ IInv' /\ [Next]_vars => [Registry!RNext]_(Registry!rvars)
  BY CreateView, KillView, RenameView, QuietView DEF Next
<1>. QED BY <1>1, InitView, Invariance, PTL DEF Spec, ImplementsRegistry, Registry!RSpec

==============================================================================
