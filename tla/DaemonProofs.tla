----------------------------- MODULE DaemonProofs -----------------------------
(* Proofs about Daemon for any number of servers, stop commands and crashes.  *)
EXTENDS Daemon, TLAPS

(* Who listens on the tcp address has not closed it, and only a server with   *)
(* such an address is ever between its two listeners.                         *)
PortHeld == port # None => pc[port] \in {"listening", "serving", "stopping", "unmounted", "closed"}
BoundForTcp == \A p \in Servers : pc[p] = "bound" => tcp

(* Where a file is, somebody who will remove it is still under way.           *)
SockOwned ==
    crashes = 0 /\ sock # None =>
        \/ \E p \in Servers :
               pc[p] \in {"bound", "listening", "serving", "stopping", "unmounted", "closed"}
        \/ \E c \in Stops : cmd[c] = "killed"
PidOwned ==
    crashes = 0 /\ pidFile # None =>
        \/ \E p \in Servers : pc[p] \in {"pidopen", "written", "bound", "listening", "serving"} \union Ending
        \/ \E c \in Stops : cmd[c] \in {"killed", "swept"}

(* While nothing but starts happens, the socket is a live server's, or there  *)
(* is a server that has yet to make it; a stale one is there only as long as  *)
(* nobody came past the removal.                                              *)
CalmIsQuiet == calm => Idle /\ \A p \in Servers : pc[p] \notin Ending
CalmSock ==
    calm /\ ~tcp =>
        /\ sock = None => \E p \in Servers : pc[p] \in {"checked", "cleared", "pidopen", "written"}
        /\ sock # None =>
             \/ pc[sock] \in {"listening", "serving"}
             \/ /\ \E p \in Servers : pc[p] = "checked"
                /\ \A p \in Servers : pc[p] \notin {"cleared", "pidopen", "written", "bound"}

(* Without overlaps there is one server, its files become its own one after   *)
(* the other, and a stop command aims at it.                                  *)
One == \A p, q \in Alive : p = q
OwnFiles ==
    \A p \in Servers :
        /\ pc[p] # "failed"
        /\ pc[p] \in {"cleared", "pidopen", "written"} => sock = None
        /\ pc[p] = "pidopen" => p \in opened /\ pidFile = Empty
        /\ pc[p] \in {"written", "bound", "listening", "serving"} => pidFile = p
        /\ pc[p] \in {"bound", "listening", "serving"} => sock = p
Aimed ==
    \A c \in Stops, p \in Servers :
        /\ cmd[c] # "idle" => pc[p] \notin Starting
        /\ cmd[c] = "read" /\ pc[p] = "serving" => aim[c] = p
        /\ cmd[c] \in {"killed", "swept"} => pc[p] # "serving"
InTurn == ~overlapped => One /\ OwnFiles /\ Aimed

IInv ==
    /\ TypeOK
    /\ PortHeld /\ BoundForTcp
    /\ SockOwned /\ PidOwned
    /\ CalmIsQuiet /\ CalmSock
    /\ InTurn

USE NoneApart, BoundsNat

------------------------------------------------------------------------------
(* Nothing runs at first. *)
LEMMA InitIInv == Init => IInv
<1>. SUFFICES ASSUME Init PROVE IInv
  OBVIOUS
<1>. USE DEF Init
<1>1. TypeOK
  <2>1. /\ pc \in [Servers -> {"off", "serving", "gone", "failed"} \union Starting \union Ending]
        /\ cmd \in [Stops -> {"idle", "read", "killed", "swept"}]
        /\ aim \in [Stops -> Servers \union {None, Empty, Mixed}]
    OBVIOUS
  <2>2. stops \in 0 .. MaxStops /\ crashes \in 0 .. MaxCrashes
    OBVIOUS
  <2>. QED BY <2>1, <2>2 DEF TypeOK
<1>2. PortHeld /\ BoundForTcp /\ SockOwned /\ PidOwned /\ CalmIsQuiet /\ CalmSock
  BY DEF PortHeld, BoundForTcp, SockOwned, PidOwned, CalmIsQuiet, CalmSock
<1>3. InTurn
  BY DEF InTurn, One, OwnFiles, Aimed, Alive, Starting
<1>. QED BY <1>1, <1>2, <1>3 DEF IInv

(* A start: from nothing at all it begins a calm time, and beside anything    *)
(* else it counts as overlapping.                                             *)
LEMMA StartIInv ==
  ASSUME IInv, NEW p \in Servers, Start(p)
  PROVE  IInv'
<1>. USE DEF IInv, TypeOK, files, commands
<1>1. /\ pc[p] = "off" /\ pc' = [pc EXCEPT ![p] = "checked"]
      /\ calm' = (calm \/ (Alive = {} /\ Idle))
      /\ overlapped' = (overlapped \/ ~Idle \/ Alive # {})
      /\ UNCHANGED <<tcp, files, port, commands, crashes>>
  BY DEF Start, New
<1>2. TypeOK'
  BY <1>1 DEF Starting
<1>3. (PortHeld /\ BoundForTcp /\ SockOwned /\ PidOwned)'
  BY <1>1 DEF PortHeld, BoundForTcp, SockOwned, PidOwned, Ending
<1>4. (CalmIsQuiet /\ CalmSock)'
  BY <1>1 DEF CalmIsQuiet, CalmSock, Ending, Idle, Alive
<1>5. InTurn'
  <2>. SUFFICES ASSUME ~overlapped' PROVE (One /\ OwnFiles /\ Aimed)'
    BY DEF InTurn
  <2>1. Idle /\ Alive = {} /\ OwnFiles
    BY <1>1 DEF InTurn
  <2>2. \A q \in Servers : q # p => pc'[q] \in {"off", "gone", "failed"}
    BY <1>1, <2>1 DEF Alive
  <2>. QED BY <1>1, <2>1, <2>2 DEF One, OwnFiles, Aimed, Alive, Idle, Starting
<1>. QED BY <1>2, <1>3, <1>4, <1>5

(* On its way up a server makes its files one after the other.                *)
LEMMA MakeFilesIInv ==
  ASSUME IInv, NEW p \in Servers, ClearSocket(p) \/ OpenPid(p) \/ WritePid(p)
  PROVE  IInv'
<1>. USE DEF IInv, TypeOK, ClearSocket, OpenPid, WritePid, commands
<1>1. TypeOK'
  BY DEF Starting, Empty
<1>2. (PortHeld /\ BoundForTcp /\ SockOwned /\ PidOwned)'
  BY DEF PortHeld, BoundForTcp, SockOwned, PidOwned, Ending
<1>3. (CalmIsQuiet /\ CalmSock)'
  BY DEF CalmIsQuiet, CalmSock, Ending, Idle
<1>4. InTurn'
  BY DEF InTurn, One, OwnFiles, Aimed, Alive, Starting
<1>. QED BY <1>1, <1>2, <1>3, <1>4

(* A server that fails to listen was kept from it by one that owns its files. *)
LEMMA ListenIInv ==
  ASSUME IInv, NEW p \in Servers, Listen(p) \/ ListenTcp(p) \/ Notify(p)
  PROVE  IInv'
<1>. USE DEF IInv, TypeOK, Listen, ListenTcp, Notify, commands, files
<1>1. TypeOK'
  BY DEF Starting
<1>2. (PortHeld /\ BoundForTcp)'
  BY DEF PortHeld, BoundForTcp
<1>3. (SockOwned /\ PidOwned)'
  BY DEF SockOwned, PidOwned, PortHeld, Ending
<1>4. (CalmIsQuiet /\ CalmSock)'
  BY DEF CalmIsQuiet, CalmSock, BoundForTcp, Ending, Idle
<1>5. InTurn'
  BY DEF InTurn, One, OwnFiles, Aimed, Alive, Starting, PortHeld
<1>. QED BY <1>1, <1>2, <1>3, <1>4, <1>5

(* On its way out it takes both files with it. *)
LEMMA CloseIInv ==
  ASSUME IInv, NEW p \in Servers, Interrupt(p) \/ WindDown(p) \/ Close(p) \/ RemoveSocket(p) \/ RemovePid(p)
  PROVE  IInv'
<1>. USE DEF IInv, TypeOK, Interrupt, WindDown, Close, RemoveSocket, RemovePid, Signalled, Free,
         commands, files
<1>1. TypeOK'
  BY DEF Starting, Ending
<1>2. (PortHeld /\ BoundForTcp)'
  BY DEF PortHeld, BoundForTcp, Starting
<1>3. (SockOwned /\ PidOwned)'
  BY DEF SockOwned, PidOwned, Ending, Starting
<1>4. (CalmIsQuiet /\ CalmSock)'
  BY DEF CalmIsQuiet, CalmSock, Ending, Idle
<1>5. InTurn'
  BY DEF InTurn, One, OwnFiles, Aimed, Alive, Starting
<1>. QED BY <1>1, <1>2, <1>3, <1>4, <1>5

(* After a crash the files may stay. *)
LEMMA CrashIInv ==
  ASSUME IInv, NEW p \in Servers, Crash(p)
  PROVE  IInv'
<1>. USE DEF IInv, TypeOK, Crash, Free, commands
<1>1. crashes' \in 0 .. MaxCrashes /\ crashes' # 0
  OBVIOUS
<1>2. TypeOK'
  <2>1. pc' \in [Servers -> {"off", "serving", "gone", "failed"} \union Starting \union Ending]
    OBVIOUS
  <2>2. opened' \subseteq {q \in Servers : pc'[q] = "pidopen"}
    OBVIOUS
  <2>. QED BY <1>1, <2>1, <2>2
<1>3. (PortHeld /\ BoundForTcp)'
  BY DEF PortHeld, BoundForTcp
<1>4. (SockOwned /\ PidOwned /\ CalmIsQuiet /\ CalmSock)'
  BY <1>1 DEF SockOwned, PidOwned, CalmIsQuiet, CalmSock
<1>5. InTurn'
  BY DEF InTurn, One, OwnFiles, Aimed, Alive, Starting
<1>. QED BY <1>2, <1>3, <1>4, <1>5

(* A stop command that has sent its signal is the one to remove the files of  *)
(* a server it ended before signals were caught.                              *)
LEMMA KillIInv ==
  ASSUME IInv, NEW c \in Stops, Kill(c)
  PROVE  IInv'
<1>. USE DEF IInv, TypeOK, Kill, Free
<1>1. pc' = [p \in Servers |-> IF p = aim[c] /\ pc[p] \in Starting THEN "gone"
                              ELSE IF p = aim[c] /\ pc[p] = "serving" THEN "stopping"
                              ELSE pc[p]]
  <2>1. CASE aim[c] \in Servers /\ pc[aim[c]] \in Starting
    BY <2>1 DEF Signalled, Starting
  <2>2. CASE aim[c] \in Servers /\ pc[aim[c]] = "serving"
    BY <2>2 DEF Signalled, Starting
  <2>3. CASE ~(aim[c] \in Servers /\ pc[aim[c]] \in Starting \union {"serving"})
    BY <2>3 DEF Signalled
  <2>. QED BY <2>1, <2>2, <2>3
<1>2. TypeOK'
  <2>1. pc' \in [Servers -> {"off", "serving", "gone", "failed"} \union Starting \union Ending]
    BY <1>1 DEF Ending
  <2>2. opened' \subseteq {p \in Servers : pc'[p] = "pidopen"}
    BY <1>1
  <2>. QED BY <2>1, <2>2
<1>3. (PortHeld /\ BoundForTcp)'
  <2>1. PortHeld'
    BY <1>1 DEF PortHeld, Starting
  <2>2. BoundForTcp'
    BY <1>1 DEF BoundForTcp
  <2>. QED BY <2>1, <2>2
<1>4. cmd'[c] = "killed" /\ cmd[c] = "read"
  OBVIOUS
<1>5. (SockOwned /\ PidOwned)'
  BY <1>4 DEF SockOwned, PidOwned
<1>6. (CalmIsQuiet /\ CalmSock)'
  BY <1>4 DEF CalmIsQuiet, CalmSock, Idle
<1>7. InTurn'
  <2>. SUFFICES ASSUME ~overlapped' PROVE (One /\ OwnFiles /\ Aimed)'
    BY DEF InTurn
  <2>1. One /\ OwnFiles /\ Aimed
    BY DEF InTurn
  <2>2. \A p \in Servers : pc'[p] \notin Starting /\ pc'[p] # "serving"
    BY <1>1, <1>4, <2>1 DEF Aimed, Starting
  <2>3. \A p \in Servers : pc[p] \notin Starting
    BY <1>4, <2>1 DEF Aimed
  <2>4. OwnFiles' /\ Aimed'
    BY <1>1, <2>1, <2>2 DEF OwnFiles, Aimed, Starting
  <2>5. One'
    BY <1>1, <2>1 DEF One, Alive, Starting
  <2>. QED BY <2>4, <2>5
<1>. QED BY <1>2, <1>3, <1>5, <1>6, <1>7

(* The rest of a stop command. *)
LEMMA StopIInv ==
  ASSUME IInv, NEW c \in Stops, ReadPid(c) \/ SweepSocket(c) \/ SweepPid(c)
  PROVE  IInv'
<1>. USE DEF IInv, TypeOK, ReadPid, SweepSocket, SweepPid, files
<1>1. TypeOK'
  <2>1. stops' \in 0 .. MaxStops
    OBVIOUS
  <2>2. /\ cmd' \in [Stops -> {"idle", "read", "killed", "swept"}]
        /\ aim' \in [Stops -> Servers \union {None, Empty, Mixed}]
    OBVIOUS
  <2>. QED BY <2>1, <2>2
<1>2. (PortHeld /\ BoundForTcp)'
  BY DEF PortHeld, BoundForTcp
<1>3. (SockOwned /\ PidOwned)'
  BY DEF SockOwned, PidOwned
<1>4. (CalmIsQuiet /\ CalmSock)'
  BY DEF CalmIsQuiet, CalmSock, Idle
<1>5. InTurn'
  <2>. SUFFICES ASSUME ~overlapped' PROVE (One /\ OwnFiles /\ Aimed)'
    BY DEF InTurn
  <2>1. One /\ OwnFiles /\ Aimed
    BY DEF InTurn
  <2>2. CASE ReadPid(c)
    <3>1. \A p \in Servers : pc[p] \notin Starting
      BY <2>2
    <3>. QED BY <2>1, <2>2, <3>1 DEF One, OwnFiles, Aimed, Alive, Starting
  <2>3. CASE SweepSocket(c) \/ SweepPid(c)
    <3>1. \A p \in Servers : pc[p] \notin Starting /\ pc[p] # "serving"
      BY <2>1, <2>3 DEF Aimed
    <3>. QED BY <2>1, <2>3, <3>1 DEF One, OwnFiles, Aimed, Alive, Starting
  <2>. QED BY <2>2, <2>3
<1>. QED BY <1>1, <1>2, <1>3, <1>4, <1>5

------------------------------------------------------------------------------
LEMMA Invariance == Spec => []IInv
<1>1. IInv /\ [Next]_vars => IInv'
  <2>. SUFFICES ASSUME IInv, [Next]_vars PROVE IInv'
    OBVIOUS
  <2>1. ASSUME NEW p \in Servers, Start(p) \/ Step(p) \/ Interrupt(p) \/ Crash(p) PROVE IInv'
    BY <2>1, StartIInv, MakeFilesIInv, ListenIInv, CloseIInv, CrashIInv DEF Step, RunOn
  <2>2. ASSUME NEW c \in Stops, ReadPid(c) \/ StopStep(c) PROVE IInv'
    BY <2>2, KillIInv, StopIInv DEF StopStep
  <2>3. CASE UNCHANGED vars
    BY <2>3 DEF vars, IInv, TypeOK, PortHeld, BoundForTcp, SockOwned, PidOwned, CalmIsQuiet, CalmSock,
       Idle, InTurn, One, OwnFiles, Aimed, Alive
  <2>. QED BY <2>1, <2>2, <2>3 DEF Next
<1>. QED BY InitIInv, <1>1, PTL DEF Spec

(* The variables have their types. *)
THEOREM TypeCorrect == Spec => []TypeOK
<1>1. IInv => TypeOK
  BY DEF IInv
<1>. QED BY <1>1, Invariance, PTL

(* However commands overlap, no file outlives the last process unless one of  *)
(* them crashed: whoever is kept from removing a file leaves it to another.   *)
THEOREM NothingLeftBehind == Spec => []QuietLeavesNothing
<1>1. IInv => QuietLeavesNothing
  BY DEF IInv, QuietLeavesNothing, SockOwned, PidOwned, Alive, Idle, Ending
<1>. QED BY <1>1, Invariance, PTL

(* Of any number of starts that race, one ends up answering at the socket.    *)
THEOREM RacingStarts == Spec => []StartsConverge
<1>1. IInv => StartsConverge
  BY DEF IInv, TypeOK, StartsConverge, CalmSock, IsRunning, Starting
<1>. QED BY <1>1, Invariance, PTL

(* Commands given one after the other find one server, and it is the one that *)
(* answers, whatever was left by a crash.                                     *)
THEOREM OneServer == Spec => []AloneIsReachable
<1>1. IInv => AloneIsReachable
  BY DEF IInv, AloneIsReachable, InTurn, One, OwnFiles, IsRunning, Alive
<1>. QED BY <1>1, Invariance, PTL
===============================================================================
