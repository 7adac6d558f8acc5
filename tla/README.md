# The Streamlabs virtual camera in TLA+

Formal models of `slobs-virtual-cam` (the macOS virtual camera of Streamlabs
Desktop), checked with TLC and, where a theorem says so, proved with TLAPS.
Source paths below are relative to `src/mac/`.

## The system

| Component | State | Operations | Where |
|---|---|---|---|
| OBS output, `VirtualCam` | global `created`, scaler, surface id, device id | create, destroy, start, stop, receive_raw_video, update | `vcam-output.cpp`, `vcam.mm` |
| `VCAM_IPC_Client` | connection to the assistant, port name | deviceCreate, deviceDestroy, deviceUploadFrame, setMirroring, start/removeDaemon | `vcam-ipc/src/vcam-ipc-client.mm` |
| `VCAM_IPC` (base of both peers) | `m_messagePort`, `m_serverMessagePort`, `m_portName` | registerPeer, unregisterPeer, getDevice, is*Mirrored, plist and launchctl helpers | `vcam-ipc/src/vcam-ipc.mm` |
| Assistant (launchd daemon) | `m_servers`, `m_clients`, `device`, `m_deviceConfigs`, `m_timer`, the static `id` | one handler per message: ADD/REMOVE_CONNECTION, CREATE/REMOVE/GET_DEVICE, FRAME, MIRRORING, SET_MIRRORING | `vcam-assistant/` |
| `VCAM_IPC_Server` | the same connection, callback lists | deviceCreate, deviceDestroy, frameReady, setMirror (each emits a signal) | `vcam-ipc/src/vcam-ipc-server.mm` |
| `PluginInterface` (DAL plugin) | `m_devices`, COM reference count | constructor, Initialize, createDevice, destroyDevice, CMIO entry points | `vcam-plugin/src/plugininterface.cpp` |
| `Device` | `m_streams`, property DeviceIsRunning | startStream, stopStream, frameReady | `vcam-plugin/src/device.cpp` |
| `Stream` | `m_running`, `m_currentData`, `m_pts`, `m_sequence`, `m_queue`, callback, render thread | start, stop, frameReady, copyBufferQueue, sendFrame | `vcam-plugin/src/stream.cpp` |
| Object tree, properties | childs, property map | findObject, get/set property, size queries | `object*.cpp` |

How they interact. OBS loads the output plugin; every camera application loads
its own DAL plugin. Both are XPC peers of the assistant and register with
ADD_CONNECTION, the output as a server, the plugins as clients. The output
creates the device and uploads frames through a shared surface; the assistant
relays both to every client; each plugin creates a CMIO device, and the stream's
render thread copies the surface into buffers for the application.

What makes it hard. XPC runs the handlers of one connection one after the other
and those of different connections concurrently, and the assistant has no lock:
`id++`, the two maps, the iterator of a relay loop that blocks in its body, the
`DeviceInfo` and the timer are all shared. Peers die without a word, the
assistant crashes or times out, launchd starts it again with the counter at
zero while its peers live on. Calls block: the assistant waits for an
application that may be waiting for the assistant. In the plugin the CMIO
thread, the XPC queue and the render thread share a stream with a mutex that
covers two of its fields.

What correctness means, per component:

- Assistant: one entry per peer, no name with two holders, nothing erased for a
  peer that was not granted it; it ends when, and only when, nobody is connected.
- Relay: a plugin that registers misses no device; an upload reported as seen was
  seen by every plugin that listened; no call blocks for ever.
- Stream: one render thread, an ordered bounded feed with gaps only for buffers that
  could not be made, stamps that go back only with the discontinuity flag, callbacks
  with their own context; stop returns and a running stream goes on sending.
- Output: an output that lives is registered and has an agent launchd knows; its
  file and its frames are lost only to the destruction of another output.
- Plugin: a failed createDevice removes its own device and nothing else; what is
  published exists; a list fits in a buffer of the size it was queried for.
- Life of the plugin: it is destroyed with its last reference, asks once to be
  removed, and afterwards only messages reach it that were under way, or that a loop
  sends which had reached it before its removal was handled.
- Properties: a map only the plugin changes where it is locked; a get with the room
  a size query asked for succeeds and stays within it.

## Modules

| Module | Models |
|---|---|
| `Registry` | registration protocol, identifiers, shutdown timer, life of the daemon |
| `Relay` | devices and frames from the output through the assistant to the plugins |
| `Broadcast` | what `Relay` promises of frames: an abstract specification |
| `Stream` | a device's stream in one application |
| `Feed` | what `Stream` promises its reader: an abstract specification |
| `Output` | the outputs of one OBS process and the launchd agent they write, load and remove |
| `Plugin` | the device list of a DAL plugin: creation, publication, lookup, destruction |
| `Lifetime` | references to a DAL plugin, its destructor, and what runs after it |
| `Properties` | the typed properties of an object and the CMIO calls on them |
| `PropertyMap` | what `Properties` promises: an abstract specification |
| `RegistryProofs`, `RelayProofs`, `StreamProofs`, `OutputProofs`, `PluginProofs`, `LifetimeProofs`, `PropertiesProofs` | theorems about the module of the name |
| `RelayRefinement` | that `Relay` implements `Broadcast`, and that whoever waits in it is served |
| `MCRegistry`, `MCRelay`, `MCStream`, `MCOutput`, `MCPlugin`, `MCLifetime`, `MCProperties` | instances for TLC |

`Relay` takes registration and createDevice as one step each, which `Registry`
and `Plugin` resolve; `Stream` takes the arrival of a frame as one step, which
`Relay` resolves; `Output` takes what the assistant answers as a choice;
`Lifetime` reduces devices and streams to whether there is one and whether it
renders. An application that has closed its plugin ignores its messages in
`Relay`; what the code does with them, on a deleted object, is in `Lifetime`.

### Registry

An XPC peer is an element of `Hosts` (a `VCAM_IPC_Client`) or `Apps` (a
`VCAM_IPC_Server`). `phase`, `portName` and `request` are its side of
registerPeer/unregisterPeer; `at`, `drawn`, `free` are the handler the assistant
runs for it. addConnection is `DrawRead` and `DrawWrite` (the two halves of
`id++`), `CheckPort` (the duplicate loop), `InsertPeer`, then stopTimer, one step
per access to m_timer: `MustStop` is its test, `InvalidateTimer` and `RemoveTimer`
the two calls, `DropTimer` the assignment, which is one step with the reply
(`ReplyAdd`). removeConnection is `ErasePeer`, `TestEmpty`, and startTimer in the
same way: `TestTimer`, `StoreTimer`, `AddTimer`. `TimerTimeout`, `AssistantCrash`
and `Launch` are the daemon's life.

`timer` is the timer m_timer holds: "none", "created" (valid, not in the run loop),
"scheduled" or "dead" (invalidated). `leaked` says that a timer is in the run loop
that m_timer does not hold: two handlers passed the null check of startTimer, or
stopTimer dropped what another handler had just stored. Nothing can stop such a timer.
The creation of a timer may fail, which `MaxIncarnation` bounds too.
A port name is a role and a number. An operation on a `std::map` is one step; a
map torn by two threads inside it is undefined behaviour and appears only as
`AssistantCrash`.

History variables: `met` (registrations that overlapped), `raced` (two handlers
were inside `id()` at once), `grant` (what the assistant granted, and in which
incarnation), `slipped` (m_timer was scheduled when a peer had entered the maps
behind the test).

### Relay and Broadcast

The handler of the host is a loop with a cursor over `clients`; FRAME waits in
it for the application's answer, CREATE_DEVICE does not. `Advance` is `++it`:
when the element was erased meanwhile the cursor may land anywhere, and
`spoiled` records it. `stable` are the clients that were in the map with their
callbacks attached when the loop began and have stayed. A plugin that is registered
and has no callbacks yet answers true to a frame it can look up and drops it, so true
promises nothing of it. An application has a main thread (`main`: constructor,
then Initialize) and a notification queue (`queue`), which both may block in
createDevice's MIRRORING calls; the assistant serves each application on a
queue of its own (`calls`). While `half` is set getDevice may read an empty, a
torn or a whole DeviceInfo (`Readable`). The requests of the host wait in `sent`:
one thread of OBS creates, uploads and destroys, another (`ui`) calls update, whose
SET_MIRRORING blocks behind the frame being relayed. REMOVE_DEVICE and
SET_MIRRORING look the device up in `m_deviceConfigs`, which nothing fills, so
they change nothing else, and the device outlives its output. The VirtualCam
objects of one host are not told apart; they are used one at a time.

`Broadcast` is what the frames of this relay amount to: members join and leave,
listen or not, a frame is offered to the members one at a time, and the upload is
answered when every member that listened at the beginning and has not left has been
offered it, with true if nobody refused it. Only a member that listens takes a frame.
`BroadcastSpec` is the refinement: `members` is `clients`, `listeners` the
applications with callbacks, `shown` is `seen`, `turn` is the cursor while a FRAME
is handled, `due` the `stable` clients the cursor has not passed, `loose` is
`spoiled`. A step of `Relay` is this step of `Broadcast`, and every other one a
stutter:

| Relay | Broadcast |
|---|---|
| `AddConnection`, `RemoveConnection` | `Join`, `Leave` |
| `AttachCallbacks` | `Listen` |
| `Close`, `Die` | `Deafen`, or a stutter if it had no callbacks |
| `CallUpload`, `BeginFrame` | `Upload`, `Begin` |
| `FrameReady` | `Take` or `Refuse` of a member, `Late` after a crash, a stutter when nobody listens |
| `FrameError` | `Refuse` |
| `Advance`, `ReplyHost` | `Proceed`, `Answer` |
| `AssistantCrash` | `Fail` |

### Stream and Feed

One render thread per run of the stream, spawned by `StartStream` before
`Started` sets `m_running`, joined by `Joined`. sendFrame, under the mutex, is
`Lock`, then `Skip` (queue full, equal stamps), `StampOnly` (no image or no
data) or `Fill`; then `Enqueue`, or `Lose` when the sample buffer could not be made,
which the code does not look at: m_pts and m_sequence go on (`Advance`) and the
callback is called with nothing in the queue; or `NoFormat`, when there is no format
description and CFRelease of null ends the process; then `Test` and `Call`.
`MaxFailures` bounds all three failures together. Time: sendFrame takes whole
seconds of the wall clock as nanoseconds, and adds the frame duration per
buffer; only differences decide, so `lead` and `lastLead` are relative to the
clock and the state space is finite without bounding time. `ptsDiff > 2/fps`
compares two rounded numbers and goes either way when they are equal.
`m_currentData` starts undefined: null, or a wild pointer, through which the
copy may crash. A frame that comes is "frame", or "short": a surface smaller than
what the copy takes. The copy takes the size of the device's own format, the surface
has the size of whichever output sent it. All outputs have one device identifier and
no device is ever removed, so a device keeps the format of the first output and gets
the frames of the next. `crashed` is absorbing.

The application decides by `DeviceIsRunning` and the stream by `m_running`:
`defined` says whether the property exists yet (the first startStream makes it), after
which the application may write it (`WriteRunning`), and StopStream on a stream
that does not run is `StopIdle`.

The application may write the frame rate as well (`WriteRate`, at any time the
stream is not inside a call, so also while it runs). `duration` is 1/fps of the
rate now in the property. sendFrame reads the rate once per frame into a local,
`gap`, which serves the test of the distance and the advance of m_pts: a rate
written while a frame is filled counts from the next frame on. A rate that is
zero or negative gives no valid duration, which is 0 here: CMTimeAdd of an invalid
time, external to the repository, leaves no valid m_pts, so the next frame is
flagged again.

`FeedSpec` is the refinement: `live` is "a render thread exists", `next` is
`m_sequence`, `missed` the buffers lost since the last one, `fifo` the numbers in
the queue, each with how many are missing before it. `Lose` of `Stream` is `Lose` of
`Feed`.

Assumed of CoreMediaIO: the calls StartStream, StopStream and CopyBufferQueue of
one application come one after the other, and the callback does not itself call
stop (it would join its own thread).

### Output

`plists` and `loaded` belong to the machine: the directories that hold the
agent's file, and launchd's table. The rest belongs to the OBS process and is
reset when it ends. `agentPath` and `clientPath` are the two copies of
`vcam_agent_path`, a `static std::string` of a header and so one per source
file. `VCAM_IPC::replace` expands the `~` in place and returns the empty string
when there is none, so only the first call per source file returns the
directory: loadDaemon keeps it in `validDaemonPath`, unloadDaemon comes too late
and never unloads, removeDaemon finds the file once per process, and registerPeer,
which uses the constant itself, finds the file only after loadDaemon ran.
virtual_output_create is `NewVirtualCam`, `LoadDaemon`, `CreateWebcam`, then
`SetupFails` or `Created`; its label fail is `Fail`. virtual_output_destroy is
`UnloadDaemon`, `RemovePlist`, `Destroyed`. `ProcessEnds` may come between any
two of them; `VirtualCam::removeDaemon`, a bool function without a return, may
cause it. The history variables are `destroyed` (this process has destroyed an
output) and `outlived` (another output was destroyed since this one was created).

Assumed of libobs: outputs are created and destroyed one at a time, and an output
is stopped before it is destroyed, so no frame meets a freed one. Assumed of
launchctl: load fails without the file, unload of a loaded agent succeeds.

### Plugin

Two threads: `main` runs Initialize, which creates the device the assistant has, and
then CMIO calls; `queue` runs the CREATE_DEVICE and FRAME messages. createDevice
is `BeginCreate` (push_back), `CreateObject`, `AddStream`, `RegisterStreams`,
`RegisterObject` in the order of `After`, then `Return`, or `Fail`, which erases
the last element whoever pushed it. A push_back or erase is one step; the loops
of frameReady and findObject visit the devices `ahead` one by one, and are `stale`
once the other thread has changed the vector: reading on is undefined and may
crash. `AddStream` changes two more containers: the m_childs of its device, which
findObject may be looping over (`Searching`), and its m_streams, which a frame may
be. A device lives while the vector or a thread's `shared_ptr` holds it
(`Alive`, `Shares`); the pointer findObject returns does not hold it. `Reclaim` is
the destructor: it unpublishes, and the stream, destroyed after its parent, goes
through `m_parent`, which may crash. `buffer` is the size an application has
been told for the list of streams; the getter writes the whole list whatever the
size. History: `met` (creations that overlapped), `refused`.

The hypothesis `met[d] # {}` of several properties is the exact race: createDevice
on both threads at once, one of them failing. Without it they hold.

Assumed of CoreMediaIO: one call at a time, on published objects, and Initialize
once. destroyDevice and setMirror are never run, because the assistant never sends
their messages.

### Lifetime

`ref` is m_ref and `held` the references the application has taken: `Create` is
vcam_plugin_main with the constructor, whose registration may fail, `AddRef` stands
for QueryInterface too, `Release` deletes with the last. The destructor is three steps, `Disconnect`,
`DeleteServer` (the server's own destructor unregisters the peer again) and
`DeleteDevices` (each device asks the plugin reference whether to unpublish).
`UnregisterPeer` sends a request only while `port` is set and clears it. Meanwhile
the assistant has messages on their way (`inbox`), a handler may be inside its
callback, and a stream renders: each has a raw pointer, and using it after the
deletion may end the application, with the reason in `cause`. A relay loop of the
assistant comes to the plugin's entry with `Reach` and sends with `Send`: in between
removeConnection, on another queue, may have erased the entry, and the message is
sent all the same. `reached` counts the loops in between, of which there is one per
output that waits for an answer. `late` records that a message or a loop was under
way when the destructor began, or that a loop reached the plugin before its removal
was handled: nothing in the code waits for these, and no other message comes.

### Properties and PropertyMap

`props` is m_properties: the typed value and the flag isSettable of a selector.
SetProperty and GetProperty are the plugin's overloads, the others the calls of
ObjectInterface and Object with a size `n` and a qualifier `q`. `Accepts` and `Fits`
have the sizes as the code compares them: a scalar compares its size even in the
size query, whose size is zero, so the query fails; a string compares it when it is
written; a list never; an address is in no case of the getter. `past` is what
lies behind a qualifier, since qualify takes its size in bytes for a count.
`answer` is the last call and its result.

`MapSpec` is the refinement: `store` is the value of each selector, `reply` the
value a call returned. A selector is set by the plugin with one type always, as
every caller in the source does; the order of a list and the bytes of a value are
left out. Two threads inside the map at once are undefined behaviour the code
does not prevent; a call is one step here.

## Runs

| Run | Instance | Shows |
|---|---|---|
| `registry` | 1 host, 2 applications, 3 numbers, 2 crashes and any timeouts | entries are not doubled, shared, refused, erased or overwritten except by a named race; the time-out hits a registered peer only by one of three races; a registration call has its answer coming, and returns |
| `registry_shutdown` | 1 host, 1 application | violated: the assistant can outlive all its peers |
| `registry_timeout` | 1 host, 2 applications | violated: the timer can end it under a connected peer |
| `relay` | 2 applications, 2 creations, 1 crash | no plugin misses the device |
| `relay_frames` | 2 applications, 1 creation, 2 frames, 1 crash | true means every client that listened was given the frame; refinement of Broadcast; whoever waits has an answer coming |
| `relay_live` | 2 applications, 1 creation, 1 frame | uploads, updates and starts return |
| `stream` | queue of 2, a valid and an invalid rate, clock set back once, 1 failed image, format or buffer | one renderer, refinement of Feed, flags, callbacks, crashes; stamps stay near the clock |
| `stream_live` | queue of 1, one thread object, a valid and an invalid rate, 1 failed image, format or buffer | stop returns, frames are stored, the stream goes on |
| `output` | 2 outputs, any number of creations, processes and logins | an output keeps its agent, and loses file or frames only to another's destruction |
| `plugin` | 3 creations, on either thread | published devices exist and stay, failures remove their own device, lists fit, crashes are explained |
| `lifetime` | 3 references, 3 messages, 2 loops | one request for removal, ends explained, a released plugin is forgotten |
| `properties` | one selector of each kind, up to 2 objects of 2 classes | refinement of PropertyMap, size query and get agree |

Bounds. Three registrations, and two crashes that set the counter back, let a stale
peer of an earlier incarnation meet its successor and an entry be overwritten by
one that overlapped. Two applications give the relay loop a first and a last
element, a cursor to lose and an element to skip. `Capacity`, `Durations` and
`Modulus` stand for 30, 1/fps and 2^64: two places make the queue empty, partly
full and full, two values of m_sequence wrap, and a duration of one tick puts
stamps before, at and after the clock; 0 is a rate with no valid duration. Two
thread objects suffice to see a second renderer; liveness of a run needs one.
`Output` needs no bound: two outputs are the least that can harm each other.
Initialize creates one device at most, so a third creation in `Plugin` is a
second on the queue: two that overlap and one that stands before or after them.
Frames matter to no device, so `relay` has none; a crash ends every call, so
`relay_live` has none. In `Lifetime` the third reference and message add
nothing to what two show; two loops are those of two outputs. A selector never meets
another in `Properties`, so one of a kind is enough, with two values where the
application may change one for the other.

The type invariants, `HeldAlive` of `Lifetime` and `OnlyListsOverrun` of `Properties`
are not run: they are proved.

CHECK_DEADLOCK is off in every run but `properties`: peers may all be gone, the
bounds reached or the process ended.

Fairness. Dispatch queues run their handlers, launchd starts a daemon that has
messages, the run loop fires its timer, threads inside the code go on, a
destructor blocks nowhere: weak fairness on each. In `Stream`, the XPC queue gets
the mutex while the render thread sleeps its 16 ms (strong fairness on
`StoreFrame`), time passes, and the application takes the buffers it is told of.
Nothing makes a peer register, an application start or stop, release its plugin
or write a property, or the host send.

## Findings

Both concern the comment "If no peer has been connected for 5 minutes shutdown
the assistant" (`vcam-assistant/assistant.cpp:123`).

- `registry_shutdown`: a peer that dies is never removed, since messageReceived
  ignores XPC errors, and the constructor's startTimer does nothing because the
  timeout is still zero. A daemon whose peers have all died never ends.
- `registry_timeout`: removeConnection tests for emptiness and then arms the
  timer, with a registration in between: the timer ends the daemon under a
  connected peer. `TimeoutExplained` is what is true instead, and proved: it does so
  only after this race; or when a registration has entered its peer and not yet
  reached stopTimer; or with a leaked timer. The last comes of two
  removeConnections that both pass the null check of startTimer (line 120) and each
  create a timer: m_timer keeps the second, and stopTimer cannot reach the first.

## Proofs

Every safety property of a passing run, the refinements among them, is proved
for all values of the constants, from the assumptions the modules state about
them and no others. None of the properties is inductive; what follows is what
each `IInv` adds, and why. Each step of `Next` keeps it (one lemma or step per
action), and the action properties follow from it and one step.

`RegistryProofs` (hosts and applications are disjoint, the bounds are naturals):

- `Protocol`: a peer's phase, pending request and handler agree, so that a peer
  in the middle of a call has exactly one message or handler in flight;
- `Daemon`: a daemon that is down has no counter, entries, timer or handlers;
- `Entered`: an entry belongs to a peer the assistant has granted that name in
  this incarnation, or is about to;
- `Overlap`: handlers that are both past their start have met;
- `Fresh`: without a race the counter is above every number drawn;
- `Distinct`: without a race two handlers or holders have different numbers;
- `Armed`: a timer in m_timer that runs over a registered peer was scheduled behind
  its back, or the peer's handler has its stopTimer ahead.

`Fresh` needs the absence of a race, and that is the point: `raced` is the exact
condition under which the code's numbering fails.

`RelayProofs` (applications are ranked by positive numbers, in any number, even an
infinite one):

- `Handler`: the iterator is at a client unless one was erased under it;
- `Requests`: the host has at most one request that makes the assistant loop, and
  is blocked in it, so the frame does not change under the loop;
- `Calling`, `Arrived`: a registration is the only request of its application,
  and until it is handled the assistant neither visits nor writes to it;
- `Awaited`: a frame on its way to a client is the one the assistant waits for,
  and the last message; an old one, left by a crash, is never at a client;
- `Visited`: as long as `ok` is true, all in `stable` the loop has passed have the
  frame;
- `Listening`: those in `stable` have their callbacks as long as they are there, so a
  frame they answer true to is one they took;
- `Informed`: a client the loop is not about to tell has the device, or has the
  message of it, or has yet to ask. The plugin attaches its callbacks before it
  asks, and this is where that order matters.

`RelayRefinement` adds to it:

- `Leavers`: only an application that has gone is on its way out of `clients`, so
  the element under the cursor is erased only when nobody lives there, and the
  assistant does not wait for an answer nobody gives;
- `Threaded`: a blocked thread of an application has a request of its own in the
  queue, which no other request replaces;
- `Ordered`: an application that lives has one frame at most to handle, not older
  than the last it was given, and not newer than the last upload.

`WaitsAnswered`, `NoStandstill` and `NoFrameFromThePast` follow from these, `NobodyTwice`
from `Handler` and the order of the clients; `ImplementsBroadcast` has
a lemma per kind of step (`HostRefines`, `FrameReadyRefines`, `MembersRefine`,
`CrashRefines`). A frame that comes after a crash must not reach a member, which is
`Awaited` of `RelayProofs`; that it is no step back is `Ordered`.

`StreamProofs` (capacity and modulus are positive, durations are
naturals, there is a thread object, the null pointer is no callback):

- `Room`: a render thread on its way to the enqueue still has a place in the
  queue, because only readers touched it since the test;
- `Flags`: while the clock was never set back, a stamp that is not after the last
  one has just been reset to the clock, and a pass that carries it is flagged; or
  the buffer that was so stamped and flagged could not be made;
- `Callbacks`: outside copyBufferQueue callback and refCon belong together, and
  what was tested is still registered unless copyBufferQueue intervened;
- `Survives`: the mutex keeps sendFrame's copy of `m_currentData` current, so what a
  copy crashes on is what is stored;
- `Paced`: a stamp that is followed is two frames ahead of the clock at most, by the
  rate sendFrame has read, not the one now in the property. `StampsNearClock` alone
  is not inductive, because the advance uses that rate too;
- `Signalled`: stop_timer stays set until the join is over.

`ImplementsFeed` maps `StartStream` to `Begin`, `Enqueue` to `Emit` (it needs
`Room` for the bound), `Lose` to `Lose`, `Take` to `Take`, the `Check` that ends the thread to
`End` (it needs `OneRenderer`), and every other step to a stutter.

`OutputProofs`: `Dirs` and `Expanded` (past loadDaemon the path is expanded, and
the file is only ever in the expanded directory), `OneBusy` (one output is created or
destroyed at a time), `Serving` and `Filed` (an output keeps what it found on its
way), `Marked` (while an output is destroyed the others know it), `Cleaning`
(until the first destruction removeDaemon can still expand its path).

`PluginProofs`: createDevice_failed erases the last element of m_devices, which
need not be the one its call pushed. `Count` says that behind a device whose
creation met no other there is an element for every creation under way: other
failures take those first, so such a device is erased by its own failure or
never. `Shape`, `Kept` and `Gone` say how far a creation is from what there is of its
device, and why a device with a stream has left the list.

`LifetimeProofs`: `Counted` (the plugin's count is the application's), `Accounted`
(while the assistant has the plugin, its removal is not sent or still on its
way, so a loop that reaches it is recorded), `Awaited` (what the destructor did not
wait for, messages, a handler or loops, is recorded in `late`).

`PropertiesProofs`: a selector keeps the type the plugin set it with, whatever the
application writes (`PropsOK`), and as long as the selector is not set again the
size of the last query is the one a get will use (`AnswerOK`). `Refinement` maps
each call to `Put`, `Write`, `Ignore`, `Read` or `Other`.

Only model-checked: liveness (`CallReturns`, those of `relay_live` and
`stream_live`, `Forgotten`), since fairness is beyond the prover. The part of it
that is safety is proved, so that fairness has only to be applied: `CallIsServed` and
`WaitsServed` say that a caller's answer is always on its way, `NoStandstill` that some
handler it waits for can run, with the guards written out because ENABLED is beyond
the prover as well, `NobodyTwice` that the relay loop only goes forward, and
`JoinEnds` that a render thread which is joined finds the mutex free and has fewer
steps left after each (`Left`).

## Plan

The order in which the parts were taken: `Registry`, `Relay`, `Stream` with
`Feed`, their proofs; `Output`, `Plugin`; then the end of a plugin (`Lifetime`),
`Properties` with `PropertyMap`, the frame rate in `Stream`, and the remaining
proofs; then `Broadcast` with the refinement of it by `Relay`. What would come next
is an abstract specification of the name service `Registry` provides, in which two
peers never hold one name, to be implemented while no two handlers meet in `id()`.

## Not modelled

- `Clock` (a handle), the UUID helpers of the COM entry point (stateless), the
  logger, installation and build files.
- Pixels, and with them doHorrizontalMirror, which reads one past each row:
  m_horizontalMirror stays false, because every mirroring query is answered so.
- The handlers the assistant never reaches: deviceDestroy and setMirror of the
  DAL plugin, and destroyDevice behind them. setProperties, updateProperties and the
  vectors of wide strings, formats, rates and ranges have no caller.
- Frames torn by the host writing the shared surface while the render thread
  copies it: possible, and visible to no property here. The pixel buffer that is
  leaked, and left locked, when there is no frame to fill it with
  (`vcam-plugin/src/stream.cpp:353`).
- That a frame stored after stop and start belongs to the run before: `FrameStored`
  shows that it is stored, no property whose it is. The failed size query of every
  scalar (`vcam-plugin/src/objectproperties.cpp:512`) is in `Properties`, and no
  property forbids it.
- A std::thread that cannot be created, and a `remove` of the agent's file that fails
  (`vcam-ipc/src/vcam-ipc-client.mm:172`).
- A `std::map`, a vector or the property map torn by two threads inside it is
  undefined behaviour: it appears as a crash (`AssistantCrash`, `stale`) or, in
  `Properties`, not at all.
