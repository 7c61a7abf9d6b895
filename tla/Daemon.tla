-------------------------------- MODULE Daemon --------------------------------
(* olliesrv start, stop and status: the server and the stop command agree     *)
(* through two files of the namespace, the socket and the pid file, and       *)
(* through a signal; each command checks, removes and writes them one after   *)
(* the other, with no lock between the processes (main.go 44-73, 100-234).    *)
EXTENDS Naturals

CONSTANTS MaxPid,       \* bound on the processes that run the server, named by their pid
          Stops,        \* stop commands under way at a time
          MaxStops, MaxCrashes,
          None          \* no file, or nobody

Servers == 1 .. MaxPid
Empty == 0              \* a pid file that is truncated and not yet written reads as 0
Mixed == MaxPid + 1     \* one with digits of two pids, taken for a process that is not there

ASSUME NoneApart == None \notin Servers \union {Empty, Mixed}
ASSUME BoundsNat == MaxPid \in Nat /\ MaxStops \in Nat /\ MaxCrashes \in Nat

VARIABLES
    tcp,       \* whether the servers are started with -tcp, all at one address
    pc,        \* server -> how far it is
    sock,      \* the server that bound the socket file, alive or not
    pidFile,   \* what the pid file holds
    opened,    \* servers whose open pid file is the one at the path
    port,      \* the server that listens on the tcp address
    cmd, aim,  \* stop command -> how far it is; the pid it read
    stops, crashes,
    calm,      \* history: no stop, signal or crash since nothing was running
    overlapped \* history: a command was given while another was not through

files == <<sock, pidFile, opened>>
commands == <<cmd, aim, stops>>
vars == <<tcp, pc, sock, pidFile, opened, port, cmd, aim, stops, crashes, calm, overlapped>>

Starting == {"checked", "cleared", "pidopen", "written", "bound", "listening"}
Ending == {"stopping", "unmounted", "closed", "unlinked"}
Alive == {p \in Servers : pc[p] \notin {"off", "gone", "failed"}}

Init ==
    /\ tcp \in BOOLEAN
    /\ pc = [p \in Servers |-> "off"]
    /\ sock = None /\ pidFile = None /\ opened = {} /\ port = None
    /\ cmd = [c \in Stops |-> "idle"] /\ aim = [c \in Stops |-> None]
    /\ stops = 0 /\ crashes = 0
    /\ calm = FALSE /\ overlapped = FALSE

Idle == \A c \in Stops : cmd[c] = "idle"

(* What status finds out: dialling the socket succeeds.                       *)
IsRunning ==
    /\ sock \in Servers
    /\ pc[sock] \in {"bound", "listening", "serving", "stopping", "unmounted"}

-----------------------------------------------------------------------------
(* The server.  start runs fgstart in a session of its own, which asks again. *)
New(p) == pc[p] = "off" /\ \A q \in 1 .. p - 1 : pc[q] # "off"

(* Mutant: whether one is running is not asked. *)
StartAnyway(p) ==
    /\ New(p)
    /\ pc' = [pc EXCEPT ![p] = "checked"]
    /\ calm' = (calm \/ (Alive = {} /\ Idle))
    /\ overlapped' = (overlapped \/ ~Idle \/ (Alive # {} /\ ~IsRunning))
    /\ UNCHANGED <<tcp, files, port, commands, crashes>>

Start(p) ==
    /\ New(p) /\ ~IsRunning
    /\ pc' = [pc EXCEPT ![p] = "checked"]
    /\ calm' = (calm \/ (Alive = {} /\ Idle))
    /\ overlapped' = (overlapped \/ ~Idle \/ Alive # {})
    /\ UNCHANGED <<tcp, files, port, commands, crashes>>

ClearSocket(p) ==
    /\ pc[p] = "checked"
    /\ pc' = [pc EXCEPT ![p] = "cleared"]
    /\ sock' = None
    /\ UNCHANGED <<tcp, pidFile, opened, port, commands, crashes, calm, overlapped>>

OpenPid(p) ==
    /\ pc[p] = "cleared"
    /\ pc' = [pc EXCEPT ![p] = "pidopen"]
    /\ pidFile' = Empty
    /\ opened' = opened \union {p}
    /\ UNCHANGED <<tcp, sock, port, commands, crashes, calm, overlapped>>

(* A shorter pid written over that of a server which opened the same file     *)
(* leaves the rest of its digits.                                             *)
WritePid(p) ==
    /\ pc[p] = "pidopen"
    /\ pc' = [pc EXCEPT ![p] = "written"]
    /\ pidFile' \in IF p \notin opened THEN {pidFile}
                    ELSE IF pidFile = Empty THEN {p} ELSE {p, Mixed}
    /\ opened' = opened \ {p}
    /\ UNCHANGED <<tcp, sock, port, commands, crashes, calm, overlapped>>

(* Mutant: a server that cannot listen removes the socket before it exits. *)
ListenOrSweep(p) ==
    /\ pc[p] = "written"
    /\ IF sock = None
       THEN pc' = [pc EXCEPT ![p] = IF tcp THEN "bound" ELSE "listening"] /\ sock' = p
       ELSE pc' = [pc EXCEPT ![p] = "failed"] /\ sock' = None
    /\ UNCHANGED <<tcp, pidFile, opened, port, commands, crashes, calm, overlapped>>

(* A socket file that exists, stale or not, makes the server exit.            *)
Listen(p) ==
    /\ pc[p] = "written"
    /\ IF sock = None
       THEN pc' = [pc EXCEPT ![p] = IF tcp THEN "bound" ELSE "listening"] /\ sock' = p
       ELSE pc' = [pc EXCEPT ![p] = "failed"] /\ sock' = sock
    /\ UNCHANGED <<tcp, pidFile, opened, port, commands, crashes, calm, overlapped>>

(* An exit leaves the socket file. *)
ListenTcp(p) ==
    /\ pc[p] = "bound"
    /\ IF port = None
       THEN pc' = [pc EXCEPT ![p] = "listening"] /\ port' = p
       ELSE pc' = [pc EXCEPT ![p] = "failed"] /\ port' = port
    /\ UNCHANGED <<tcp, files, commands, crashes, calm, overlapped>>

(* The mount is tried, then signals are caught. *)
Notify(p) ==
    /\ pc[p] = "listening"
    /\ pc' = [pc EXCEPT ![p] = "serving"]
    /\ UNCHANGED <<tcp, files, port, commands, crashes, calm, overlapped>>

(* InterruptAll, Shutdown, fusermount and the wait for 9pfuse have returned.  *)
(* Each of the last three may keep the server for good: a rename that never   *)
(* returns (SessionStore!ShutdownTerminates), a mount that is busy.           *)
WindDown(p) ==
    /\ pc[p] = "stopping"
    /\ pc' = [pc EXCEPT ![p] = "unmounted"]
    /\ UNCHANGED <<tcp, files, port, commands, crashes, calm, overlapped>>

(* The listener unlinks its path, whatever socket is there. *)
Close(p) ==
    /\ pc[p] = "unmounted"
    /\ pc' = [pc EXCEPT ![p] = "closed"]
    /\ sock' = None
    /\ UNCHANGED <<tcp, pidFile, opened, port, commands, crashes, calm, overlapped>>

Free(p) == IF port = p THEN None ELSE port

RemoveSocket(p) ==
    /\ pc[p] = "closed"
    /\ pc' = [pc EXCEPT ![p] = "unlinked"]
    /\ port' = Free(p)
    /\ sock' = None
    /\ UNCHANGED <<tcp, pidFile, opened, commands, crashes, calm, overlapped>>

(* Mutant: the pid file is left to the stop command. *)
LeavePid(p) ==
    /\ pc[p] = "unlinked"
    /\ pc' = [pc EXCEPT ![p] = "gone"]
    /\ UNCHANGED <<tcp, files, port, commands, crashes, calm, overlapped>>

RemovePid(p) ==
    /\ pc[p] = "unlinked"
    /\ pc' = [pc EXCEPT ![p] = "gone"]
    /\ pidFile' = None /\ opened' = {}
    /\ UNCHANGED <<tcp, sock, port, commands, crashes, calm, overlapped>>

(* Before signals are caught one ends the process on the spot; later ones are *)
(* kept in a channel nobody reads.                                            *)
Signalled(p) ==
    CASE p \in Servers /\ pc[p] \in Starting -> [pc EXCEPT ![p] = "gone"]
      [] p \in Servers /\ pc[p] = "serving" -> [pc EXCEPT ![p] = "stopping"]
      [] OTHER -> pc

(* SIGINT at the terminal of fgstart, once it is caught. *)
Interrupt(p) ==
    /\ pc[p] = "serving"
    /\ pc' = Signalled(p)
    /\ calm' = FALSE
    /\ UNCHANGED <<tcp, files, port, commands, crashes, overlapped>>

(* A kill -9, a panic, or a SIGINT that is not caught. *)
Crash(p) ==
    /\ p \in Alive
    /\ crashes < MaxCrashes /\ crashes' = crashes + 1
    /\ pc' = [pc EXCEPT ![p] = "gone"]
    /\ opened' = opened \ {p}
    /\ port' = Free(p)
    /\ calm' = FALSE
    /\ UNCHANGED <<tcp, sock, pidFile, commands, overlapped>>

-----------------------------------------------------------------------------
(* The stop command.  Without a pid file it says that nothing is running.     *)
ReadPid(c) ==
    /\ cmd[c] = "idle" /\ pidFile # None
    /\ stops < MaxStops /\ stops' = stops + 1
    /\ cmd' = [cmd EXCEPT ![c] = "read"]
    /\ aim' = [aim EXCEPT ![c] = pidFile]
    /\ calm' = FALSE
    /\ overlapped' = (overlapped \/ \E p \in Servers : pc[p] \in Starting)
    /\ UNCHANGED <<tcp, pc, files, port, crashes>>

(* Mutant: the process is not signalled. *)
Spare(c) ==
    /\ cmd[c] = "read"
    /\ cmd' = [cmd EXCEPT ![c] = "killed"]
    /\ UNCHANGED <<tcp, pc, files, port, aim, stops, crashes, calm, overlapped>>

Kill(c) ==
    /\ cmd[c] = "read"
    /\ cmd' = [cmd EXCEPT ![c] = "killed"]
    /\ pc' = Signalled(aim[c])
    /\ opened' = {p \in opened : pc'[p] # "gone"}
    /\ port' = IF aim[c] \in Servers /\ pc'[aim[c]] = "gone" THEN Free(aim[c]) ELSE port
    /\ UNCHANGED <<tcp, sock, pidFile, aim, stops, crashes, calm, overlapped>>

SweepSocket(c) ==
    /\ cmd[c] = "killed"
    /\ cmd' = [cmd EXCEPT ![c] = "swept"]
    /\ sock' = None
    /\ UNCHANGED <<tcp, pc, pidFile, opened, port, aim, stops, crashes, calm, overlapped>>

SweepPid(c) ==
    /\ cmd[c] = "swept"
    /\ cmd' = [cmd EXCEPT ![c] = "idle"]
    /\ aim' = [aim EXCEPT ![c] = None]
    /\ pidFile' = None /\ opened' = {}
    /\ UNCHANGED <<tcp, pc, sock, port, stops, crashes, calm, overlapped>>

-----------------------------------------------------------------------------
RunOn(p) ==
    \/ ClearSocket(p) \/ OpenPid(p) \/ WritePid(p) \/ Listen(p) \/ ListenTcp(p) \/ Notify(p)
    \/ Close(p) \/ RemoveSocket(p) \/ RemovePid(p)
Step(p) == RunOn(p) \/ WindDown(p)
StopStep(c) == Kill(c) \/ SweepSocket(c) \/ SweepPid(c)

Next ==
    \/ \E p \in Servers : Start(p) \/ Step(p) \/ Interrupt(p) \/ Crash(p)
    \/ \E c \in Stops : ReadPid(c) \/ StopStep(c)

Spec == Init /\ [][Next]_vars

(* A process that was started runs on, except that nothing makes WindDown     *)
(* end; nobody has to start or stop a server.                                 *)
FairSpec ==
    /\ Spec
    /\ \A p \in Servers : WF_vars(RunOn(p))
    /\ \A c \in Stops : WF_vars(StopStep(c))

-----------------------------------------------------------------------------
TypeOK ==
    /\ tcp \in BOOLEAN
    /\ pc \in [Servers -> {"off", "serving", "gone", "failed"} \union Starting \union Ending]
    /\ sock \in Servers \union {None} /\ port \in Servers \union {None}
    /\ pidFile \in Servers \union {None, Empty, Mixed}
    /\ opened \subseteq {p \in Servers : pc[p] = "pidopen"}
    /\ cmd \in [Stops -> {"idle", "read", "killed", "swept"}]
    /\ aim \in [Stops -> Servers \union {None, Empty, Mixed}]
    /\ stops \in 0 .. MaxStops /\ crashes \in 0 .. MaxCrashes
    /\ calm \in BOOLEAN /\ overlapped \in BOOLEAN

(* As long as every command is given when the one before is through, a stop   *)
(* when its server is gone and not when it returns, there is one server at a  *)
(* time, no start fails, whatever a crash left behind, and the server that    *)
(* serves is the one status reaches and stop ends (main.go 49-61, 100-161).   *)
AloneIsReachable ==
    ~overlapped =>
        \A p \in Servers :
            /\ pc[p] # "failed"
            /\ pc[p] = "serving" => sock = p /\ pidFile = p /\ IsRunning
            /\ p \in Alive => Alive = {p}

(* However many starts race, when all of them are through one server answers  *)
(* at the socket, unless a stop, a signal or a crash came between or a second *)
(* listener on tcp is what the starts race for (main.go 146-192).             *)
StartsConverge ==
    calm /\ ~tcp /\ (\A p \in Servers : pc[p] \notin Starting) => IsRunning

(* However starts, stops and ends overlapped, when no process is left neither *)
(* file is, unless one crashed (main.go 127-141, 227-232).                    *)
QuietLeavesNothing ==
    Alive = {} /\ Idle /\ crashes = 0 => sock = None /\ pidFile = None

(* A stop that read the pid of a server ends that server, at whatever stage   *)
(* its signal meets it and whatever else goes on, unless the server stays in  *)
(* its shutdown of the sessions or its unmounting for good (main.go 127-137,  *)
(* 215-234).                                                                  *)
StopStops ==
    \A c \in Stops, p \in Servers :
        (cmd[c] = "read" /\ aim[c] = p) ~> (p \notin Alive \/ [](pc[p] = "stopping"))
===============================================================================
