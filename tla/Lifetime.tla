------------------------------ MODULE Lifetime ------------------------------
(***************************************************************************)
(* The life of a DAL plugin in a camera application: its reference count,  *)
(* and a destructor that runs on the application's thread while the        *)
(* assistant may still send messages, a handler may be running on the XPC  *)
(* queue and a stream may have its render thread.  Nothing waits for any   *)
(* of them: a handler, and a render thread, has a raw pointer to what the  *)
(* destructor deletes.  Devices and streams are reduced to whether there   *)
(* is one and whether it renders (Plugin and Stream have the rest).        *)
(***************************************************************************)
EXTENDS Naturals

CONSTANTS
    MaxRefs,       \* bound: references the application holds
    MaxMessages,   \* bound: messages of the assistant on their way
    MaxLoops       \* bound: loops of the assistant over m_clients at a time, one for
                   \* each host that waits for an answer

ASSUME BoundAssumption == MaxRefs \in Nat \ {0} /\ MaxMessages \in Nat /\ MaxLoops \in Nat

VARIABLES
    \* the plugin
    ref,           \* m_ref
    main,          \* the application's thread: place in the life of the plugin
    port,          \* m_serverMessagePort is set
    handler,       \* what the XPC queue handles, "idle" when nothing
    device,        \* there is a device
    renders,       \* its stream has a render thread
    \* the application and the assistant
    held,          \* references the application holds
    inbox,         \* messages to the plugin on their way
    removals,      \* REMOVE_CONNECTION requests on their way
    registered,    \* the assistant has the plugin in m_clients
    reached,       \* loops whose iterator is at the plugin's entry, erased or not
    \* history
    sent,          \* REMOVE_CONNECTION requests sent
    late,          \* a message was on its way, or handled, or a loop had reached the
                   \* plugin's entry, when the destructor ran, or a loop reached it
                   \* before the assistant had handled the removal
    cause          \* what has ended the application, "none" while it runs

pluginVars  == <<ref, main, port>>
serverVars  == <<removals, registered, sent>>
vars == <<pluginVars, handler, device, renders, held, inbox, reached, serverVars, late, cause>>

\* The plugin is there until its destructor has run, its server object until
\* the destructor has deleted it.
Usable    == main = "idle"
HasServer == main \in {"idle", "disconnect", "delete"}
HasObject == HasServer \/ main = "devices"

Init ==
    /\ ref = 0 /\ main = "none" /\ port = FALSE
    /\ handler = "idle" /\ device = FALSE /\ renders = FALSE
    /\ held = 0 /\ inbox = 0 /\ reached = 0 /\ removals = 0 /\ registered = FALSE
    /\ sent = 0 /\ late = FALSE /\ cause = "none"

\* What is undefined may end the application or go unnoticed.
Undefined(bad, reason) == cause' \in {"none"} \cup (IF bad THEN {reason} ELSE {})

-----------------------------------------------------------------------------
(* References.                                                             *)

\* vcam_plugin_main and create: the constructor may find no agent, or be refused.
Create ==
    /\ main = "none"
    /\ ref' = 1 /\ held' = 1 /\ main' = "idle"
    /\ port' \in BOOLEAN /\ registered' = port'
    /\ UNCHANGED <<handler, device, renders, inbox, reached, removals, sent, late, cause>>

\* AddRef, and QueryInterface with an identifier it knows
AddRef ==
    /\ Usable /\ held < MaxRefs
    /\ ref' = ref + 1 /\ held' = held + 1
    /\ UNCHANGED <<main, port, handler, device, renders, inbox, reached, serverVars, late, cause>>

Last == ref <= 1

\* Release deletes the plugin with the last reference.
Release ==
    /\ Usable /\ held > 0
    /\ held' = held - 1 /\ ref' = ref - 1
    /\ IF Last
       THEN main' = "disconnect" /\ late' = (inbox > 0 \/ handler # "idle" \/ reached > 0)
       ELSE UNCHANGED <<main, late>>
    /\ UNCHANGED <<port, handler, device, renders, inbox, reached, serverVars, cause>>

-----------------------------------------------------------------------------
(* The destructor.                                                         *)

\* mutants: the port is kept; the name is cleared before it is sent
KeepsPort(p) == p
SendsNothing(p) == 0

PortAfter(p) == FALSE
Requests(p) == IF p THEN 1 ELSE 0

UnregisterPeer ==
    /\ removals' = removals + Requests(port)
    /\ sent' = sent + Requests(port)
    /\ port' = PortAfter(port)
    /\ UNCHANGED registered

Disconnect ==
    /\ main = "disconnect" /\ main' = "delete"
    /\ UnregisterPeer
    /\ UNCHANGED <<ref, handler, device, renders, held, inbox, reached, late, cause>>

\* delete d, whose server unregisters its peer once more
DeleteServer ==
    /\ main = "delete" /\ main' = "devices"
    /\ UnregisterPeer
    /\ UNCHANGED <<ref, handler, device, renders, held, inbox, reached, late, cause>>

\* The devices go last and ask the plugin reference, which is deleted, whether
\* they may unpublish.  Their streams keep their render threads.
DeleteDevices ==
    /\ main = "devices" /\ main' = "gone"
    /\ device' = FALSE
    /\ Undefined(device, "device")
    /\ UNCHANGED <<ref, port, handler, renders, held, inbox, reached, serverVars, late>>

-----------------------------------------------------------------------------
(* The assistant and the XPC queue.                                        *)

\* A handler that sends CREATE_DEVICE or FRAME to every client gets to this one ...
Reach ==
    /\ registered /\ reached < MaxLoops
    /\ reached' = reached + 1
    /\ late' = (late \/ (~Usable /\ (sent = 0 \/ removals > 0)))
    /\ UNCHANGED <<pluginVars, handler, device, renders, held, inbox, serverVars, cause>>

\* ... and sends it the message, although removeConnection may have erased the entry
\* meanwhile, on another queue.
Send ==
    /\ reached > 0 /\ inbox < MaxMessages
    /\ reached' = reached - 1
    /\ inbox' = inbox + 1
    /\ UNCHANGED <<pluginVars, handler, device, renders, held, serverVars, late, cause>>

\* mutant: the peer stays among the clients
Remains == registered

Erased == FALSE

RemoveConnection ==
    /\ removals > 0
    /\ removals' = removals - 1 /\ registered' = Erased
    /\ UNCHANGED <<pluginVars, handler, device, renders, held, inbox, reached, sent, late, cause>>

\* The handler block has the address of the server object.
MessageReceived ==
    /\ inbox > 0 /\ handler = "idle"
    /\ inbox' = inbox - 1 /\ handler' \in {"create", "frame"}
    /\ Undefined(~HasServer, "message")
    /\ UNCHANGED <<pluginVars, device, renders, held, reached, serverVars, late>>

\* The callback works on the plugin and its devices.
Handled ==
    /\ handler # "idle" /\ handler' = "idle"
    /\ device' = (device \/ (handler = "create" /\ HasObject))
    /\ Undefined(~HasServer, "message")
    /\ UNCHANGED <<pluginVars, renders, held, inbox, reached, serverVars, late>>

-----------------------------------------------------------------------------
(* The application uses its camera.                                        *)

\* Initialize, when GET_DEVICE has found the device
Initialize ==
    /\ Usable /\ port /\ ~device
    /\ device' = TRUE
    /\ UNCHANGED <<pluginVars, handler, renders, held, inbox, reached, serverVars, late, cause>>

\* DeviceStartStream and DeviceStopStream
StartStop ==
    /\ Usable /\ device
    /\ renders' = ~renders
    /\ UNCHANGED <<pluginVars, handler, device, held, inbox, reached, serverVars, late, cause>>

\* A pass of the render thread, after its stream was deleted
Render ==
    /\ renders /\ main = "gone"
    /\ Undefined(TRUE, "stream")
    /\ UNCHANGED <<pluginVars, handler, device, renders, held, inbox, reached, serverVars, late>>

Assistant == Reach \/ Send \/ RemoveConnection
Destructor == Disconnect \/ DeleteServer \/ DeleteDevices
Application ==
    Create \/ AddRef \/ Release \/ Destructor \/ MessageReceived \/ Handled
    \/ Initialize \/ StartStop \/ Render

Next == Assistant \/ (cause = "none" /\ Application)

Spec == Init /\ [][Next]_vars

\* The destructor blocks nowhere, and the assistant handles its requests.
FairSpec == Spec /\ WF_vars(cause = "none" /\ Destructor) /\ WF_vars(RemoveConnection)

-----------------------------------------------------------------------------
(* Properties                                                              *)

\* Every variable has its type.
TypeOK ==
    /\ ref \in 0 .. MaxRefs /\ held \in 0 .. MaxRefs /\ inbox \in 0 .. MaxMessages /\ reached \in 0 .. MaxLoops
    /\ main \in {"none", "idle", "disconnect", "delete", "devices", "gone"}
    /\ handler \in {"idle", "create", "frame"}
    /\ removals \in 0 .. 1 /\ sent \in 0 .. 1
    /\ port \in BOOLEAN /\ device \in BOOLEAN /\ renders \in BOOLEAN
    /\ registered \in BOOLEAN /\ late \in BOOLEAN
    /\ cause \in {"none", "message", "device", "stream"}

\* The plugin an application holds a reference to is not destroyed, and that of
\* which none is held is.
HeldAlive == main # "none" => (held > 0 <=> Usable)

\* The assistant is asked to erase the plugin once at most, although its peer is
\* unregistered twice: a second request could erase a peer that has since been
\* given the port name.
RemovedOnce == sent <= 1 /\ (sent = 1 => ~port)

\* A handler works on a deleted server only for a message that was there when the
\* destructor ran, or that comes from a loop over m_clients that reached the plugin
\* before its removal was handled, perhaps to send only afterwards; no loop reaches it
\* later.  Nothing in the code waits for either.
EndExplained == cause = "message" => late

\* The assistant forgets a plugin that was released.
Forgotten == (main # "none" /\ held = 0) ~> ~registered
=============================================================================
