-------------------------------- MODULE Relay --------------------------------
(***************************************************************************)
(* The Assistant as a relay: the output plugin creates the device and      *)
(* uploads frames, the assistant passes both on to every DAL plugin in     *)
(* m_clients, and each plugin creates its CMIO device.  deviceCreate,      *)
(* frameReady, getDevice and mirroring of vcam-assistant/assistant.cpp,    *)
(* the calls of vcam-ipc that reach them, and the start of a DAL plugin    *)
(* (constructor, Initialize, createDevice) in plugininterface.cpp.         *)
(*                                                                         *)
(* Who runs concurrently: the host; in every application the main thread   *)
(* and the serial queue of its notification connection; in the assistant   *)
(* one serial queue per peer connection.  None of the handlers takes a     *)
(* lock.  Registration is one step here; module Registry has its details.  *)
(*                                                                         *)
(* REMOVE_DEVICE and SET_MIRRORING change nothing in the assistant: both   *)
(* look the device up in m_deviceConfigs, which no handler ever fills.     *)
(* They wait for their turn like every request, and SET_MIRRORING blocks   *)
(* its caller, another thread of the host.  For the same reason MIRRORING  *)
(* answers false, false, and only its blocking matters; the two MIRRORING  *)
(* calls of createDevice are one call here.                                *)
(***************************************************************************)
EXTENDS Integers, Sequences

CONSTANTS
    Apps,         \* the camera applications; an application is named by the
                  \* rank of its port name in the order of m_clients
    MaxCreates,   \* bound: CREATE_DEVICE calls of the host
    MaxFrames,    \* bound: frames the host uploads
    MaxCrashes    \* bound: crashes of the assistant

ASSUME AppsAssumption == Apps \subseteq Nat \ {0}
ASSUME BoundsAssumption == MaxCreates \in Nat /\ MaxFrames \in Nat /\ MaxCrashes \in Nat

VARIABLES
    \* the assistant
    clients,    \* m_clients
    device,     \* this->device: NoDevice or the number of its CREATE_DEVICE
    half,       \* the DeviceInfo is allocated and its members are not set
    op, step, cursor, ok,    \* the handler of the host: request, place, iterator, local ok
    stable,     \* history: clients in the map, with callbacks, since the loop began
    spoiled,    \* history: the element under the iterator was erased in this loop
    crashes,
    \* the host
    host, created, frame, answer,
    active,     \* an output exists
    ui,         \* the thread that calls update
    sent,       \* requests the assistant has not handled yet
    \* the applications
    main,       \* main thread of a: the constructor, then Initialize
    queue,      \* notification queue of a
    connected,  \* m_serverMessagePort is set
    calls,      \* requests of a the assistant has not handled yet
    inbox,      \* messages of the assistant a has not handled yet
    got,        \* the reply to GET_DEVICE
    devices,    \* m_devices
    seen        \* history: the last frame a callback of a was given

assistantVars == <<clients, device, half, crashes>>
handlerVars   == <<op, step, cursor, ok, stable, spoiled>>
callerVars    == <<host, created, frame, answer, active, ui>>
hostVars      == <<callerVars, sent>>
appVars       == <<main, queue, connected, calls, inbox, got, devices, seen>>
vars          == <<assistantVars, handlerVars, hostVars, appVars>>

NoDevice == 0
Torn     == -1     \* a DeviceInfo read while deviceCreate was filling it
End      == 0      \* the end iterator
Departed(a) == main[a] \in {"closed", "dead"}

\* mutant: the callbacks are attached when Initialize is done
AttachedLate(a) == main[a] \in {"creating", "ready"}

\* EMIT calls PluginInterface
Attached(a) == main[a] \in {"attached", "getting", "got", "creating", "ready"}

Init ==
    /\ clients = {} /\ device = NoDevice /\ half = FALSE /\ crashes = 0
    /\ op = "none" /\ step = "idle" /\ cursor = End /\ ok = TRUE
    /\ stable = {} /\ spoiled = [o \in {"CREATE_DEVICE", "FRAME"} |-> FALSE]
    /\ host = "idle" /\ created = 0 /\ frame = 0 /\ answer = "none"
    /\ active = FALSE /\ ui = "idle" /\ sent = <<>>
    /\ main = [a \in Apps |-> "off"]
    /\ queue = [a \in Apps |-> "idle"]
    /\ connected = [a \in Apps |-> FALSE]
    /\ calls = [a \in Apps |-> <<>>]
    /\ inbox = [a \in Apps |-> <<>>]
    /\ got = [a \in Apps |-> NoDevice]
    /\ devices = [a \in Apps |-> <<>>]
    /\ seen = [a \in Apps |-> 0]

-----------------------------------------------------------------------------
(* The host: VCAM_IPC_Client, called from vcam-output.cpp.                 *)

CallAssistant(c) == sent' = Append(sent, c)

\* deviceCreate blocks until the assistant replies
CallCreate ==
    /\ host = "idle" /\ created < MaxCreates
    /\ host' = "creating"
    /\ created' = created + 1
    /\ CallAssistant("CREATE_DEVICE")
    /\ UNCHANGED <<assistantVars, handlerVars, frame, answer, active, ui, appVars>>

\* Without its surface the frame is not sent.
UploadFrame ==
    \/ host' = "uploading" /\ answer' = "none" /\ CallAssistant("FRAME")
    \/ answer' = "false" /\ UNCHANGED <<host, sent>>

\* receive_raw_video runs once the output is created
CallUpload ==
    /\ host = "idle" /\ active /\ frame < MaxFrames
    /\ frame' = frame + 1
    /\ UploadFrame
    /\ UNCHANGED <<assistantVars, handlerVars, created, active, ui, appVars>>

\* virtual_output_update: blocks a thread of its own until the assistant replies
CallSetMirroring ==
    /\ ui = "idle" /\ active
    /\ ui' = "waiting"
    /\ CallAssistant("SET_MIRRORING")
    /\ UNCHANGED <<assistantVars, handlerVars, host, created, frame, answer, active, appVars>>

\* deviceDestroy, when the output goes: does not wait
CallDestroy ==
    /\ host = "idle" /\ ui = "idle" /\ active
    /\ active' = FALSE
    /\ CallAssistant("REMOVE_DEVICE")
    /\ UNCHANGED <<assistantVars, handlerVars, host, created, frame, answer, ui, appVars>>

-----------------------------------------------------------------------------
(* The assistant, on the queue of the host's connection.                   *)

Lowest(S) == IF S = {} THEN End ELSE CHOOSE a \in S : \A b \in S : a <= b

\* The handlers of the connection run one at a time, in the order of the calls.
HostRequest(c) ==
    /\ step = "idle"
    /\ sent # <<>> /\ Head(sent) = c
    /\ sent' = Tail(sent)

BeginLoop(o) ==
    /\ cursor' = Lowest(clients)
    /\ step' = "visit"
    /\ ok' = TRUE
    /\ stable' = {a \in clients : Attached(a)}
    /\ spoiled' = [spoiled EXCEPT ![o] = FALSE]

\* this->device = new DeviceInfo()
AllocateDevice ==
    /\ HostRequest("CREATE_DEVICE")
    /\ device' = created
    /\ half' = TRUE
    /\ op' = "CREATE_DEVICE"
    /\ step' = "fill"
    /\ UNCHANGED <<clients, crashes, cursor, ok, stable, spoiled, callerVars, appVars>>

\* the members of the DeviceInfo, then the loop over m_clients
FillDevice ==
    /\ step = "fill"
    /\ half' = FALSE
    /\ BeginLoop("CREATE_DEVICE")
    /\ UNCHANGED <<clients, device, crashes, op, hostVars, appVars>>

BeginFrame ==
    /\ HostRequest("FRAME")
    /\ op' = "FRAME"
    /\ BeginLoop("FRAME")
    /\ UNCHANGED <<assistantVars, callerVars, appVars>>

\* setMirroring: the device has no configuration
SetMirroring ==
    /\ HostRequest("SET_MIRRORING")
    /\ ui' = "idle"
    /\ UNCHANGED <<assistantVars, handlerVars, host, created, frame, answer, active, appVars>>

\* deviceDestroyById: the same, so device stays and no application is told
DestroyDevice ==
    /\ HostRequest("REMOVE_DEVICE")
    /\ UNCHANGED <<assistantVars, handlerVars, callerVars, appVars>>

Send(a, m) == inbox' = [inbox EXCEPT ![a] = Append(@, m)]

\* xpc_connection_send_message: does not wait
NotifyClient ==
    /\ op = "CREATE_DEVICE" /\ step = "visit" /\ cursor # End
    /\ Send(cursor, [type |-> "CREATE_DEVICE", value |-> device])
    /\ step' = "advance"
    /\ UNCHANGED <<assistantVars, op, cursor, ok, stable, spoiled, hostVars,
                   main, queue, connected, calls, got, devices, seen>>

\* mutant: the loop does not wait for the application
SendAndGo ==
    /\ op = "FRAME" /\ step = "visit" /\ cursor # End
    /\ Send(cursor, [type |-> "FRAME", value |-> frame])
    /\ step' = "advance"
    /\ UNCHANGED <<assistantVars, op, cursor, ok, stable, spoiled, hostVars,
                   main, queue, connected, calls, got, devices, seen>>

\* xpc_connection_send_message_with_reply_sync: waits for the application
SendFrame ==
    /\ op = "FRAME" /\ step = "visit" /\ cursor # End
    /\ Send(cursor, [type |-> "FRAME", value |-> frame])
    /\ step' = "await"
    /\ UNCHANGED <<assistantVars, op, cursor, ok, stable, spoiled, hostVars,
                   main, queue, connected, calls, got, devices, seen>>

\* mutant: the loop keeps the status of the last client only
LastStatus(sofar, status) == status

Combine(sofar, status) == sofar /\ status

\* the connection of an application that is gone answers with an error
FrameError ==
    /\ step = "await" /\ Departed(cursor)
    /\ ok' = Combine(ok, FALSE)
    /\ step' = "advance"
    /\ inbox' = [inbox EXCEPT ![cursor] = <<>>]
    /\ UNCHANGED <<assistantVars, op, cursor, stable, spoiled, hostVars,
                   main, queue, connected, calls, got, devices, seen>>

\* ++it.  When the element under the iterator was erased meanwhile the freed
\* node can lead anywhere in the map or to its end (or crash: AssistantCrash).
Advance ==
    /\ step = "advance"
    /\ IF cursor \in clients
       THEN cursor' = Lowest({a \in clients : a > cursor})
       ELSE cursor' \in clients \cup {End}
    /\ step' = "visit"
    /\ UNCHANGED <<assistantVars, op, ok, stable, spoiled, hostVars, appVars>>

\* the loop is over: reply to the host
ReplyHost ==
    /\ step = "visit" /\ cursor = End
    /\ answer' = IF op = "FRAME" THEN (IF ok THEN "true" ELSE "false") ELSE answer
    /\ host' = "idle"
    /\ active' = (active \/ op = "CREATE_DEVICE")
    /\ step' = "idle" /\ op' = "none" /\ ok' = TRUE /\ stable' = {}
    /\ UNCHANGED <<assistantVars, cursor, spoiled, created, frame, ui, sent, appVars>>

-----------------------------------------------------------------------------
(* An application: the DAL plugin's constructor and Initialize on its main *)
(* thread.                                                                 *)

Call(a, c) == calls' = [calls EXCEPT ![a] = Append(@, c)]

\* connect(true): the call ADD_CONNECTION, before any callback is attached
Construct(a) ==
    /\ main[a] = "off"
    /\ main' = [main EXCEPT ![a] = "adding"]
    /\ Call(a, "ADD_CONNECTION")
    /\ UNCHANGED <<assistantVars, handlerVars, hostVars, queue, connected, inbox, got, devices, seen>>

\* connectDeviceAdded, connectFrameReady, ...
AttachCallbacks(a) ==
    /\ main[a] = "added"
    /\ main' = [main EXCEPT ![a] = "attached"]
    /\ UNCHANGED <<assistantVars, handlerVars, hostVars, queue, connected, calls, inbox, got,
                   devices, seen>>

\* InitializeWithObjectID: getDevice returns nullptr without a connection
Initialize(a) ==
    /\ main[a] = "attached"
    /\ IF connected[a]
       THEN main' = [main EXCEPT ![a] = "getting"] /\ Call(a, "GET_DEVICE")
       ELSE main' = [main EXCEPT ![a] = "ready"] /\ UNCHANGED calls
    /\ UNCHANGED <<assistantVars, handlerVars, hostVars, queue, connected, inbox, got, devices, seen>>

\* createDevice: the device joins m_devices, then its mirroring is asked for.
\* The calling thread blocks while the peer holds its connection.
CreateDevice(a, d, thread) ==
    /\ devices' = [devices EXCEPT ![a] = Append(@, d)]
    /\ IF connected[a] THEN Call(a, thread) ELSE UNCHANGED calls

InitializeDevice(a) ==
    /\ main[a] = "got"
    /\ IF got[a] = NoDevice
       THEN /\ main' = [main EXCEPT ![a] = "ready"]
            /\ UNCHANGED <<calls, devices>>
       ELSE /\ CreateDevice(a, got[a], "MIRRORING main")
            /\ main' = [main EXCEPT ![a] = IF connected[a] THEN "creating" ELSE "ready"]
    /\ got' = [got EXCEPT ![a] = NoDevice]
    /\ UNCHANGED <<assistantVars, handlerVars, hostVars, queue, connected, inbox, seen>>

\* The destructor of the plugin disconnects.
Close(a) ==
    /\ main[a] = "ready" /\ queue[a] = "idle"
    /\ main' = [main EXCEPT ![a] = "closed"]
    /\ connected' = [connected EXCEPT ![a] = FALSE]
    /\ IF connected[a] THEN Call(a, "REMOVE_CONNECTION") ELSE UNCHANGED calls
    /\ UNCHANGED <<assistantVars, handlerVars, hostVars, queue, inbox, got, devices, seen>>

\* The process ends; the assistant is not told.
Die(a) ==
    /\ main[a] \notin {"off", "closed", "dead"}
    /\ main' = [main EXCEPT ![a] = "dead"]
    /\ UNCHANGED <<assistantVars, handlerVars, hostVars, queue, connected, calls, inbox, got,
                   devices, seen>>

-----------------------------------------------------------------------------
(* The notification queue of an application: VCAM_IPC_Server.              *)

Message(a, t) ==
    /\ ~Departed(a) /\ queue[a] = "idle"
    /\ inbox[a] # <<>> /\ Head(inbox[a]).type = t
    /\ inbox' = [inbox EXCEPT ![a] = Tail(@)]

\* deviceCreate: EMIT calls PluginInterface::deviceAdded when it is attached
DeviceAdded(a) ==
    /\ Message(a, "CREATE_DEVICE")
    /\ IF Attached(a)
       THEN /\ CreateDevice(a, Head(inbox[a]).value, "MIRRORING queue")
            /\ queue' = [queue EXCEPT ![a] = IF connected[a] THEN "creating" ELSE "idle"]
       ELSE UNCHANGED <<calls, queue, devices>>
    /\ UNCHANGED <<assistantVars, handlerVars, hostVars, main, connected, got, seen>>

\* mutant: without a surface there is no reply
SilentWithoutSurface(a) ==
    /\ Message(a, "FRAME")
    /\ \E surface \in BOOLEAN :
          /\ seen' = IF surface /\ Attached(a)
                     THEN [seen EXCEPT ![a] = Head(inbox[a]).value] ELSE seen
          /\ IF surface /\ step = "await" /\ cursor = a /\ Head(inbox[a]).value = frame
             THEN step' = "advance" /\ ok' = Combine(ok, surface)
             ELSE UNCHANGED <<step, ok>>
    /\ UNCHANGED <<assistantVars, op, cursor, stable, spoiled, hostVars,
                   main, queue, connected, calls, got, devices>>

\* frameReady: EMIT hands the surface, if there is one, to PluginInterface when it is
\* attached; the answer is whether there was a surface, given to somebody or not.
FrameReady(a) ==
    /\ Message(a, "FRAME")
    /\ \E surface \in BOOLEAN :
          /\ seen' = IF surface /\ Attached(a)
                     THEN [seen EXCEPT ![a] = Head(inbox[a]).value] ELSE seen
          /\ IF step = "await" /\ cursor = a /\ Head(inbox[a]).value = frame
             THEN step' = "advance" /\ ok' = Combine(ok, surface)
             ELSE UNCHANGED <<step, ok>>
    /\ UNCHANGED <<assistantVars, op, cursor, stable, spoiled, hostVars,
                   main, queue, connected, calls, got, devices>>

-----------------------------------------------------------------------------
(* The assistant, on the queue of an application's connection.             *)

\* mutant: the handlers of all connections share one serial queue
OneQueue(a) == step = "idle"

\* every connection has a queue of its own
OwnQueue(a) == TRUE

Request(a, c) ==
    /\ OwnQueue(a)
    /\ calls[a] # <<>> /\ Head(calls[a]) = c
    /\ calls' = [calls EXCEPT ![a] = Tail(@)]

\* the caller resumes unless its process is gone
Resume(a, from, to) ==
    main' = IF main[a] = from THEN [main EXCEPT ![a] = to] ELSE main

AddConnection(a) ==
    /\ Request(a, "ADD_CONNECTION")
    /\ clients' = clients \cup {a}
    /\ connected' = [connected EXCEPT ![a] = TRUE]
    /\ Resume(a, "adding", "added")
    /\ UNCHANGED <<device, half, crashes, handlerVars, hostVars, queue, inbox, got, devices, seen>>

RemoveConnection(a) ==
    /\ Request(a, "REMOVE_CONNECTION")
    /\ clients' = clients \ {a}
    /\ stable' = stable \ {a}
    /\ spoiled' = IF op # "none" /\ cursor = a THEN [spoiled EXCEPT ![op] = TRUE] ELSE spoiled
    /\ UNCHANGED <<device, half, crashes, op, step, cursor, ok, hostVars,
                   main, queue, connected, inbox, got, devices, seen>>

\* What getDevice can read: while deviceCreate fills the DeviceInfo, its empty
\* deviceID, part of its members or all of them.
Readable == IF half THEN {NoDevice, Torn, device} ELSE {device}

GetDevice(a) ==
    /\ Request(a, "GET_DEVICE")
    /\ \E d \in Readable : got' = [got EXCEPT ![a] = d]
    /\ Resume(a, "getting", "got")
    /\ UNCHANGED <<assistantVars, handlerVars, hostVars, queue, connected, inbox, devices, seen>>

Mirroring(a) ==
    /\ \/ /\ Request(a, "MIRRORING main")
          /\ Resume(a, "creating", "ready")
          /\ UNCHANGED queue
       \/ /\ Request(a, "MIRRORING queue")
          /\ queue' = [queue EXCEPT ![a] = "idle"]
          /\ UNCHANGED main
    /\ UNCHANGED <<assistantVars, handlerVars, hostVars, connected, inbox, got, devices, seen>>

-----------------------------------------------------------------------------
\* The assistant crashes; launchd starts it again with the next message.  The
\* blocked callers get an error, which ends every call: no connection for
\* ADD_CONNECTION, no device for GET_DEVICE, false for the others.
AssistantCrash ==
    /\ crashes < MaxCrashes
    /\ crashes' = crashes + 1
    /\ clients' = {} /\ device' = NoDevice /\ half' = FALSE
    /\ op' = "none" /\ step' = "idle" /\ cursor' = End /\ ok' = TRUE /\ stable' = {}
    /\ answer' = IF host = "uploading" THEN "false" ELSE answer
    /\ host' = "idle" /\ ui' = "idle" /\ sent' = <<>>
    /\ calls' = [a \in Apps |-> <<>>]
    /\ queue' = [a \in Apps |-> "idle"]
    /\ main' = [a \in Apps |->
                  CASE main[a] = "adding"   -> "added"
                    [] main[a] = "getting"  -> "got"
                    [] main[a] = "creating" -> "ready"
                    [] OTHER                -> main[a]]
    /\ UNCHANGED <<spoiled, created, frame, active, connected, inbox, got, devices, seen>>

HostHandler ==
    \/ AllocateDevice \/ FillDevice \/ BeginFrame \/ SetMirroring \/ DestroyDevice
    \/ NotifyClient \/ SendFrame \/ FrameError \/ Advance \/ ReplyHost

AppHandler(a)   == AddConnection(a) \/ RemoveConnection(a) \/ GetDevice(a) \/ Mirroring(a)
MainThread(a)   == AttachCallbacks(a) \/ Initialize(a) \/ InitializeDevice(a)
QueueThread(a)  == DeviceAdded(a) \/ FrameReady(a)

Next ==
    \/ CallCreate \/ CallUpload \/ CallSetMirroring \/ CallDestroy \/ HostHandler \/ AssistantCrash
    \/ \E a \in Apps : \/ Construct(a) \/ MainThread(a) \/ Close(a) \/ Die(a)
                       \/ QueueThread(a) \/ AppHandler(a)

Spec == Init /\ [][Next]_vars

\* Every dispatch queue runs the handler at its head, in the assistant and in
\* the applications, and a main thread inside the plugin's code goes on.
Fairness ==
    /\ WF_vars(HostHandler)
    /\ \A a \in Apps : WF_vars(AppHandler(a)) /\ WF_vars(MainThread(a)) /\ WF_vars(QueueThread(a))

FairSpec == Spec /\ Fairness

-----------------------------------------------------------------------------
(* Properties                                                              *)

Threads    == {"ADD_CONNECTION", "REMOVE_CONNECTION", "GET_DEVICE", "MIRRORING main", "MIRRORING queue"}
Messages   == [type : {"CREATE_DEVICE", "FRAME"}, value : Nat]
MainStates == {"off", "adding", "added", "attached", "getting", "got", "creating", "ready",
               "closed", "dead"}

\* Every variable has its type.
TypeOK ==
    /\ clients \subseteq Apps /\ stable \subseteq Apps
    /\ device \in Nat /\ half \in BOOLEAN /\ crashes \in Nat
    /\ op \in {"none", "CREATE_DEVICE", "FRAME"}
    /\ step \in {"idle", "fill", "visit", "await", "advance"}
    /\ cursor \in Apps \cup {End}
    /\ ok \in BOOLEAN
    /\ spoiled \in [{"CREATE_DEVICE", "FRAME"} -> BOOLEAN]
    /\ host \in {"idle", "creating", "uploading"}
    /\ created \in Nat /\ frame \in Nat /\ answer \in {"none", "true", "false"}
    /\ active \in BOOLEAN /\ ui \in {"idle", "waiting"}
    /\ sent \in Seq({"CREATE_DEVICE", "FRAME", "SET_MIRRORING", "REMOVE_DEVICE"})
    /\ main \in [Apps -> MainStates]
    /\ queue \in [Apps -> {"idle", "creating"}]
    /\ connected \in [Apps -> BOOLEAN]
    /\ calls \in [Apps -> Seq(Threads)]
    /\ inbox \in [Apps -> Seq(Messages)]
    /\ got \in [Apps -> {Torn} \cup Nat]
    /\ devices \in [Apps -> Seq({Torn} \cup Nat)]
    /\ seen \in [Apps -> Nat]

\* A plugin that registers before it asks for the device misses none: once it
\* has initialised and handled its messages it has the device the assistant
\* holds, whichever of the reply and the notification brought it, unless the
\* loop over m_clients lost its place to a concurrent erase.
Settled(a) == main[a] = "ready" /\ queue[a] = "idle" /\ inbox[a] = <<>>

NoMissedDevice ==
    \A a \in clients :
        Settled(a) /\ device # NoDevice /\ op # "CREATE_DEVICE" /\ ~spoiled["CREATE_DEVICE"]
          => \E i \in DOMAIN devices[a] : devices[a][i] = device

\* The frame of an upload that returns true was given to every plugin that was registered
\* with its callbacks attached when the loop began and has not left since, again unless
\* the loop lost its place.  Of a plugin that is still in its constructor true says nothing.
TrueMeansSeen ==
    [][ReplyHost /\ op = "FRAME" /\ answer' = "true" /\ ~spoiled["FRAME"]
         => \A a \in stable : seen[a] = frame]_vars

\* The assistant is a relay: frames are offered to the clients one at a time and in
\* order, and an upload is answered when all that listen have been asked, as Broadcast says.
Passed(a) == a < cursor \/ cursor = End \/ (a = cursor /\ step = "advance")

Relaying    == op = "FRAME"
Phase       == IF Relaying THEN "relaying" ELSE IF host = "uploading" THEN "asked" ELSE "idle"
Turn        == IF Relaying THEN cursor ELSE End
Displaced   == Relaying /\ spoiled["FRAME"]
Outstanding == IF Relaying /\ ~Displaced THEN {a \in stable : ~Passed(a)} ELSE {}
Unrefused   == Relaying => ok
Listeners   == {a \in Apps : Attached(a)}

BroadcastOfRelay ==
    INSTANCE Broadcast WITH
        None <- End, members <- clients, listeners <- Listeners, number <- frame,
        shown <- seen, phase <- Phase, turn <- Turn, due <- Outstanding,
        whole <- Unrefused, loose <- Displaced

BroadcastSpec == BroadcastOfRelay!Spec

\* Whoever waits has an answer coming: the host's requests are on their way or
\* handled, each blocked thread of an application has a request of its own in the
\* queue, and the assistant waits for an application only while the frame is there
\* to be answered or the application is gone.
Holds(q, c) == \E i \in DOMAIN q : q[i] = c

HostServed ==
    /\ host = "creating" => op = "CREATE_DEVICE" \/ Holds(sent, "CREATE_DEVICE")
    /\ host = "uploading" => op = "FRAME" \/ Holds(sent, "FRAME")
    /\ ui = "waiting" => Holds(sent, "SET_MIRRORING")

AppServed(a) ==
    /\ main[a] = "adding" => Holds(calls[a], "ADD_CONNECTION")
    /\ main[a] = "getting" => Holds(calls[a], "GET_DEVICE")
    /\ main[a] = "creating" => Holds(calls[a], "MIRRORING main")
    /\ queue[a] = "creating" => Holds(calls[a], "MIRRORING queue")

FrameServed ==
    step = "await" => Departed(cursor) \/ Holds(inbox[cursor], [type |-> "FRAME", value |-> frame])

WaitsServed == HostServed /\ FrameServed /\ \A a \in Apps : AppServed(a)

\* No upload, no update of the output and no start of a plugin blocks for ever,
\* whoever dies meanwhile: the calls the applications make back into the
\* assistant do not wait for the frame it is relaying to them.
UploadReturns == (host = "uploading") ~> (host = "idle")
UpdateReturns == (ui = "waiting") ~> (ui = "idle")
HostReturns   == UploadReturns /\ UpdateReturns
StartReturns  == \A a \in Apps : (main[a] = "adding") ~> (main[a] \in {"ready", "closed", "dead"})

=============================================================================
