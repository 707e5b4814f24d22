--------------------------------- MODULE Service --------------------------------
(***************************************************************************)
(* qtservice on UNIX: launchers that start a service unless one answers,   *)
(* controllers that send it commands over a socket in the file system, and *)
(* the processes of the service, which replace that socket when they start,*)
(* and remove it when they stop.                                           *)
(*                                                                         *)
(* A process may be killed at any moment; its socket then stays behind.    *)
(***************************************************************************)
EXTENDS Integers, FiniteSets

CONSTANTS
    Client,             \* processes that launch or control the service
    Instance,           \* processes of the service
    NoInstance,
    serviceFlags,       \* subset of CannotBeStopped, CanBeSuspended
    Commands,           \* what controllers send: terminate, pause, resume, num
    MaxKills            \* bound of the processes killed

ASSUME ServiceAssumption ==
    /\ Commands \subseteq {"terminate", "pause", "resume", "num"}
    /\ serviceFlags \subseteq {"CannotBeStopped", "CanBeSuspended"}
    /\ NoInstance \notin Instance /\ MaxKills \in Nat

VARIABLES
    installed,      \* is the service in the system's settings?
    path,           \* whose socket is at the path of the service
    listening,      \* processes whose socket accepts connections
    owner,          \* processes that bound the path (path_ is set)
    stage,          \* of each process of the service
    called,         \* the last of start, stop, pause, resume, processCommand
    pass,           \* clients whose commands quit() does not overtake
    does,           \* what a client is about
    command,        \* ... the command it sends
    peer,           \* ... to which process
    kills

serviceVars == <<installed, path, listening, owner, stage, called, pass, does, command, peer,
                 kills>>

Moves(i, s) == stage' = [stage EXCEPT ![i] = s]
Calls(i, what) == called' = [called EXCEPT ![i] = what]

(* QtUnixSocket::connectTo.                                                *)
Reachable == path \in listening

Waiting(i) == {c \in Client : does[c] = "waits" /\ peer[c] = i}

(***************************************************************************)
(* exec() of a launcher or a controller, and QtServiceController.          *)
(***************************************************************************)
Client_(c, what, cmd, i) ==
    /\ does' = [does EXCEPT ![c] = what]
    /\ command' = [command EXCEPT ![c] = cmd]
    /\ peer' = [peer EXCEPT ![c] = i]

ComesBack(c) == Client_(c, "idle", "none", NoInstance)

install(c) ==
    /\ does[c] = "idle" /\ ~ installed
    /\ installed' = TRUE
    /\ UNCHANGED <<path, listening, owner, stage, called, pass, does, command, peer, kills>>

uninstall(c) ==
    /\ does[c] = "idle" /\ installed
    /\ installed' = FALSE
    /\ UNCHANGED <<path, listening, owner, stage, called, pass, does, command, peer, kills>>

(* sendCmd: it waits for the reply without a limit.                        *)
sendCmd(c) ==
    /\ does[c] = "idle" /\ Reachable
    /\ \E cmd \in Commands : Client_(c, "waits", cmd, path)
    /\ UNCHANGED <<installed, path, listening, owner, stage, called, pass, kills>>

(* QtServiceController::start: runs the launcher if nobody answers.        *)
ControllerStart(c) ==
    /\ does[c] = "idle" /\ installed /\ ~ Reachable
    /\ Client_(c, "starts", "none", NoInstance)
    /\ UNCHANGED <<installed, path, listening, owner, stage, called, pass, kills>>

(* QtServiceBasePrivate::start, of a launcher run by hand or by the above. *)
start(c) ==
    /\ does[c] \in {"idle", "starts"}
    /\ IF Reachable THEN Client_(c, "waits", "alive", path)
                    ELSE Client_(c, "spawns", "none", NoInstance)
    /\ UNCHANGED <<installed, path, listening, owner, stage, called, pass, kills>>

startDetached(c) ==
    /\ does[c] = "spawns"
    /\ \E i \in Instance : stage[i] = "unborn" /\ Moves(i, "inits")
    /\ ComesBack(c)
    /\ UNCHANGED <<installed, path, listening, owner, called, pass, kills>>

(* faulty variant: a launcher does not see its connection break            *)
NoReplyToLauncher(c) ==
    /\ does[c] = "waits" /\ peer[c] \notin listening /\ command[c] # "alive"
    /\ ComesBack(c)
    /\ UNCHANGED <<installed, path, listening, owner, stage, called, pass, kills>>

(* The connection breaks, without a reply.                                 *)
NoReply(c) ==
    /\ does[c] = "waits" /\ peer[c] \notin listening
    /\ IF command[c] = "alive" THEN Client_(c, "spawns", "none", NoInstance) ELSE ComesBack(c)
    /\ UNCHANGED <<installed, path, listening, owner, stage, called, pass, kills>>

(***************************************************************************)
(* QtServiceBasePrivate::run of a process of the service: sysSetPath, the  *)
(* event loop, sysCleanup.                                                 *)
(***************************************************************************)
unlinkOld(i) ==
    /\ stage[i] = "inits"
    /\ path' = NoInstance
    /\ Moves(i, "unlinked")
    /\ UNCHANGED <<installed, listening, owner, called, pass, does, command, peer, kills>>

(* Without the path the process goes on, but nobody can connect to it.     *)
bind(i) ==
    /\ stage[i] = "unlinked"
    /\ IF path = NoInstance
       THEN path' = i /\ Moves(i, "bound")
       ELSE Moves(i, "runs") /\ UNCHANGED path
    /\ UNCHANGED <<installed, listening, owner, called, pass, does, command, peer, kills>>

listen(i) ==
    /\ stage[i] = "bound"
    /\ listening' = listening \cup {i}
    /\ owner' = owner \cup {i}
    /\ Moves(i, "runs")
    /\ UNCHANGED <<installed, path, called, pass, does, command, peer, kills>>

(* The timer of run() is due before any command can be read.               *)
slotStart(i) ==
    /\ stage[i] = "runs" /\ called[i] = "none"
    /\ Calls(i, "start")
    /\ UNCHANGED <<installed, path, listening, owner, stage, pass, does, command, peer, kills>>

Allowed(cmd) ==
    CASE cmd = "terminate" -> "CannotBeStopped" \notin serviceFlags
      [] cmd \in {"pause", "resume"} -> "CanBeSuspended" \in serviceFlags
      [] OTHER -> TRUE

HandlerOf(cmd) ==
    CASE cmd = "terminate" -> "stop"
      [] cmd = "num" -> "processCommand"
      [] OTHER -> cmd

(* slotReady.  After quit() the commands that wait in this turn of the     *)
(* event loop are still carried out.  "alive" is only answered.            *)
slotReady(i, c) ==
    LET cmd == command[c]
        quits == cmd = "terminate" /\ Allowed(cmd)
    IN
    /\ called[i] # "none" /\ c \in Waiting(i)
    /\ stage[i] = "runs" \/ (stage[i] = "quitting" /\ c \in pass[i])
    /\ IF cmd # "alive" /\ Allowed(cmd) THEN Calls(i, HandlerOf(cmd)) ELSE UNCHANGED called
    /\ stage' = IF quits THEN [stage EXCEPT ![i] = "quitting"] ELSE stage
    /\ pass' = [pass EXCEPT ![i] =
                  (IF quits /\ stage[i] = "runs" THEN Waiting(i) ELSE @) \ {c}]
    /\ ComesBack(c)
    /\ UNCHANGED <<installed, path, listening, owner, kills>>

LeaveLoop(i) ==
    /\ stage[i] = "quitting"
    /\ Moves(i, "left")
    /\ pass' = [pass EXCEPT ![i] = {}]
    /\ UNCHANGED <<installed, path, listening, owner, called, does, command, peer, kills>>

closeServer(i) ==
    /\ stage[i] = "left"
    /\ listening' = listening \ {i}
    /\ Moves(i, "closed")
    /\ UNCHANGED <<installed, path, owner, called, pass, does, command, peer, kills>>

(* The memory of a process goes with it.                                   *)
Ends(i) ==
    /\ Moves(i, "gone")
    /\ Calls(i, "none")
    /\ owner' = owner \ {i}

unlinkPath(i) ==
    /\ stage[i] = "closed"
    /\ path' = IF i \in owner THEN NoInstance ELSE path
    /\ Ends(i)
    /\ UNCHANGED <<installed, listening, pass, does, command, peer, kills>>

Kill(i) ==
    /\ stage[i] \notin {"unborn", "gone"} /\ kills < MaxKills
    /\ kills' = kills + 1
    /\ listening' = listening \ {i}
    /\ pass' = [pass EXCEPT ![i] = {}]
    /\ Ends(i)
    /\ UNCHANGED <<installed, path, does, command, peer>>

ServiceInit ==
    /\ installed = FALSE
    /\ path = NoInstance
    /\ listening = {} /\ owner = {}
    /\ stage = [i \in Instance |-> "unborn"]
    /\ called = [i \in Instance |-> "none"]
    /\ pass = [i \in Instance |-> {}]
    /\ does = [c \in Client |-> "idle"]
    /\ command = [c \in Client |-> "none"]
    /\ peer = [c \in Client |-> NoInstance]
    /\ kills = 0

Runs(i) ==
    \/ unlinkOld(i) \/ bind(i) \/ listen(i) \/ slotStart(i)
    \/ \E c \in Client : slotReady(i, c)
    \/ LeaveLoop(i) \/ closeServer(i) \/ unlinkPath(i)

Controls(c) ==
    \/ install(c) \/ uninstall(c) \/ sendCmd(c) \/ ControllerStart(c)
    \/ start(c) \/ startDetached(c) \/ NoReply(c)

ServiceNext ==
    \/ \E c \in Client : Controls(c)
    \/ \E i \in Instance : Runs(i) \/ Kill(i)

ServiceSpec == ServiceInit /\ [][ServiceNext]_serviceVars

(* The event loop of a process serves every socket that is ready in each of*)
(* its turns, and the system tells a client when its connection breaks.    *)
ServiceFairness ==
    /\ \A i \in Instance : WF_serviceVars(Runs(i))
    /\ \A i \in Instance, c \in Client : WF_serviceVars(slotReady(i, c))
    /\ \A c \in Client : WF_serviceVars(NoReply(c))

--------------------------------------------------------------------------------

(* A controller or launcher that waits for the reply to its command, which *)
(* it does without a time limit (sendCmd), comes back: the service answers *)
(* also what it does not obey, and a process that stops, is killed or is   *)
(* replaced at the path does not leave it waiting.                         *)
ControllersComeBack ==
    \A c \in Client : does[c] = "waits" ~> does[c] # "waits"

================================================================================
