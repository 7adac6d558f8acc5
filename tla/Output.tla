------------------------------- MODULE Output -------------------------------
(***************************************************************************)
(* The output plugin in the OBS process: virtual_output_create, _destroy   *)
(* and receive_raw_video of vcam-output.cpp, VirtualCam, and the functions *)
(* of vcam-ipc that write, load, unload and remove the launchd agent.      *)
(*                                                                         *)
(* Two kinds of memory matter.  The file of the agent and launchd's table  *)
(* outlive the process.  The global created and the path constants live as *)
(* long as the process and are shared by all its outputs: vcam_agent_path  *)
(* is a static of each source file, and VCAM_IPC::replace, which expands   *)
(* its "~", changes the constant itself and returns "" when there is no    *)
(* "~" left.                                                               *)
(*                                                                         *)
(* OBS creates and destroys outputs one at a time and stops an output      *)
(* before it destroys it.  setMirroring and REMOVE_DEVICE have no effect   *)
(* in the assistant (see Relay).                                           *)
(***************************************************************************)
CONSTANT Outputs   \* the outputs OBS may hold at a time

VARIABLES
    \* the machine
    plists,      \* the directories that hold the file of the agent
    loaded,      \* launchd has loaded the agent
    \* globals of the process
    agentPath,   \* vcam_agent_path of vcam-ipc.mm
    clientPath,  \* vcam_agent_path of vcam-ipc-client.mm
    validPath,   \* validDaemonPath
    created,     \* created of vcam-output.cpp
    \* the outputs
    stage,       \* how far creation or destruction of an output is
    port,        \* m_serverMessagePort of its VirtualCam is set
    \* history
    destroyed,   \* this process has destroyed an output
    outlived     \* another output was destroyed during the life of this one

machineVars == <<plists, loaded>>
pathVars    == <<agentPath, clientPath, validPath>>
outputVars  == <<stage, port>>
historyVars == <<destroyed, outlived>>
vars == <<machineVars, pathVars, created, outputVars, historyVars>>

\* "~/Library/LaunchAgents", its expansion, and the empty string
Tilde == "tilde"
Home  == "home"
Empty == ""
Paths == {Tilde, Home, Empty}

AllOutputs(v) == [o \in Outputs |-> v]

Init ==
    /\ plists = {} /\ loaded = FALSE
    /\ agentPath = Tilde /\ clientPath = Tilde /\ validPath = Empty
    /\ created = FALSE
    /\ stage = AllOutputs("none") /\ port = AllOutputs(FALSE)
    /\ destroyed = FALSE /\ outlived = AllOutputs(FALSE)

Goto(o, s) == stage' = [stage EXCEPT ![o] = s]

\* VCAM_IPC::replace: what it returns and what it leaves in its argument
Replaced(path) == IF path = Tilde THEN Home ELSE Empty

Left(path) == IF path = Tilde THEN Home ELSE path

-----------------------------------------------------------------------------
(* virtual_output_create                                                   *)

\* OBS is in no create or destroy.
Quiet == \A o \in Outputs : stage[o] \in {"none", "alive"}

\* What registerPeer(false) may make of m_serverMessagePort.  It needs the file
\* where agentPath says, launchd to know the agent, and the assistant to agree.
Registered(o) ==
    IF agentPath \notin plists \/ port[o] THEN {port[o]} ELSE {FALSE, loaded}

\* new VirtualCam, whose constructor connects
NewVirtualCam(o) ==
    /\ Quiet /\ stage[o] = "none"
    /\ \E p \in Registered(o) : port' = [port EXCEPT ![o] = p]
    /\ Goto(o, "new")
    /\ outlived' = [outlived EXCEPT ![o] = FALSE]
    /\ UNCHANGED <<machineVars, pathVars, created, destroyed>>

\* loadDaemon: writes the file unless it is there, then launchctl load.  The
\* file may turn out not to be written, and launchctl fails without it.
LoadDaemon(o) ==
    /\ stage[o] = "new"
    /\ validPath' = IF Replaced(agentPath) # Empty THEN Replaced(agentPath) ELSE validPath
    /\ agentPath' = Left(agentPath)
    /\ plists' \in {plists, plists \cup {validPath'}}
    /\ \/ validPath' \in plists' /\ loaded' = TRUE /\ Goto(o, "daemon")
       \/ UNCHANGED loaded /\ Goto(o, "failed")
    /\ UNCHANGED <<clientPath, created, port, historyVars>>

\* createWebcam: registers unless the constructor has, then CREATE_DEVICE
CreateWebcam(o) ==
    /\ stage[o] = "daemon"
    /\ \E p \in Registered(o) :
          /\ port' = [port EXCEPT ![o] = p]
          /\ \/ p /\ Goto(o, "webcam")
             \/ Goto(o, "failed")
    /\ UNCHANGED <<machineVars, pathVars, created, historyVars>>

\* no video, the wrong format, no scaler
SetupFails(o) ==
    /\ stage[o] = "webcam"
    /\ Goto(o, "failed")
    /\ UNCHANGED <<machineVars, pathVars, created, port, historyVars>>

Created(o) ==
    /\ stage[o] = "webcam"
    /\ created' = TRUE
    /\ Goto(o, "alive")
    /\ UNCHANGED <<machineVars, pathVars, port, historyVars>>

\* mutant: a failed output removes the agent
UndoAgent == plists' = {} /\ UNCHANGED <<loaded, created>>

\* mutant: a failed output resets the global
UndoCreated == created' = FALSE /\ UNCHANGED machineVars

\* fail: only the virtual_output is freed
UndoNothing == UNCHANGED <<machineVars, created>>

\* The VirtualCam is leaked, and its registration with it.
Fail(o) ==
    /\ stage[o] = "failed"
    /\ UndoNothing
    /\ port' = [port EXCEPT ![o] = FALSE]
    /\ Goto(o, "none")
    /\ UNCHANGED <<pathVars, historyVars>>

-----------------------------------------------------------------------------
(* virtual_output_destroy                                                  *)

\* mutant: the path loadDaemon has found
KnownDir == validPath

AgentDir == Replaced(agentPath)

\* unloadDaemon: launchctl unload when the file is where replace says
UnloadDaemon(o) ==
    /\ Quiet /\ stage[o] = "alive"
    /\ agentPath' = Left(agentPath)
    /\ loaded' = (loaded /\ AgentDir \notin plists)
    /\ Goto(o, "unloaded")
    /\ outlived' = [p \in Outputs |-> outlived[p] \/ (p # o /\ stage[p] = "alive")]
    /\ UNCHANGED <<plists, clientPath, validPath, created, port, destroyed>>

\* mutant: the constant of vcam-ipc.mm
SharedPath == agentPath

OwnPath == clientPath

\* the rest of removeDaemon
RemovePlist(o) ==
    /\ stage[o] = "unloaded"
    /\ plists' = plists \ {Replaced(OwnPath)}
    /\ clientPath' = Left(clientPath)
    /\ Goto(o, "removed")
    /\ UNCHANGED <<loaded, agentPath, validPath, created, port, historyVars>>

\* created = false, and again the VirtualCam is leaked.
Destroyed(o) ==
    /\ stage[o] = "removed"
    /\ created' = FALSE
    /\ port' = [port EXCEPT ![o] = FALSE]
    /\ Goto(o, "none")
    /\ destroyed' = TRUE
    /\ UNCHANGED <<machineVars, pathVars, outlived>>

-----------------------------------------------------------------------------
(* The process and the machine.                                            *)

\* The globals of the next process.
NewProcess ==
    /\ agentPath' = Tilde /\ clientPath' = Tilde /\ validPath' = Empty
    /\ created' = FALSE
    /\ stage' = AllOutputs("none") /\ port' = AllOutputs(FALSE)
    /\ destroyed' = FALSE /\ outlived' = AllOutputs(FALSE)

\* OBS quits or crashes, in VirtualCam::removeDaemon for instance, a function
\* that ends without the value it should return.
ProcessEnds == NewProcess /\ UNCHANGED machineVars

\* The user logs out and in again: launchd loads what is in LaunchAgents.
Login ==
    /\ NewProcess /\ UNCHANGED plists
    /\ loaded' \in BOOLEAN /\ (loaded' <=> Home \in plists)

Next ==
    \/ \E o \in Outputs :
          \/ NewVirtualCam(o) \/ LoadDaemon(o) \/ CreateWebcam(o) \/ SetupFails(o)
          \/ Created(o) \/ Fail(o) \/ UnloadDaemon(o) \/ RemovePlist(o) \/ Destroyed(o)
    \/ ProcessEnds \/ Login

Spec == Init /\ [][Next]_vars

-----------------------------------------------------------------------------
(* Properties                                                              *)

Stages == {"none", "new", "daemon", "webcam", "alive", "failed", "unloaded", "removed"}

\* Every variable has its type.
TypeOK ==
    /\ plists \subseteq Paths /\ loaded \in BOOLEAN
    /\ {agentPath, clientPath, validPath} \subseteq Paths
    /\ created \in BOOLEAN
    /\ stage \in [Outputs -> Stages] /\ port \in [Outputs -> BOOLEAN]
    /\ destroyed \in BOOLEAN /\ outlived \in [Outputs -> BOOLEAN]

Alive(o) == stage[o] = "alive"

\* An output that is alive is registered, with an agent launchd still knows:
\* removeDaemon, called for another output, does not unload it, because
\* unloadDaemon expands a path loadDaemon has expanded before.
ServedWhileAlive == \A o \in Outputs : Alive(o) => port[o] /\ loaded

\* For the same reason nothing the plugin does ever unloads the agent.
NeverUnloaded == [][loaded /\ ~loaded' => Login]_vars

\* The file launchd starts the assistant from is there for every output, unless
\* another output was destroyed since this one was created.
PlistKept == \A o \in Outputs : Alive(o) /\ ~outlived[o] => Home \in plists

\* The first output a process destroys takes the file with it.
FirstDestroyCleans ==
    [][\A o \in Outputs : Destroyed(o) /\ ~destroyed => plists' = {}]_vars

\* receive_raw_video throws the frame away.
Drops == ~created

\* The frames of an output are thrown away only if another output was destroyed
\* since it was created; the frames of an output whose creation failed never count.
NotSilenced == \A o \in Outputs : Alive(o) /\ Drops => outlived[o]

=============================================================================
