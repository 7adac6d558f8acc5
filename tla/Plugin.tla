------------------------------- MODULE Plugin -------------------------------
(***************************************************************************)
(* The devices of a DAL plugin in a camera application: createDevice,      *)
(* frameReady, findObject and the CMIO entry points of plugininterface.cpp *)
(* with the objects of device.cpp, stream.cpp and object.cpp they create,  *)
(* publish and destroy.                                                    *)
(*                                                                         *)
(* m_devices, a std::vector, has no lock and two users.  The main thread   *)
(* runs Initialize, which creates the device the assistant already has,    *)
(* and then one CMIO call after the other, each of which looks an object   *)
(* up by its identifier.  The XPC queue runs CREATE_DEVICE and FRAME       *)
(* messages of the assistant.  A push_back or erase is one step; a loop    *)
(* over the vector that was under way meanwhile is undefined and may       *)
(* crash.  The assistant never sends REMOVE_DEVICE or SET_MIRRORING (see   *)
(* Relay), so destroyDevice and setMirror are never run.                   *)
(***************************************************************************)
EXTENDS Integers, SequencesExt

CONSTANT MaxDevices   \* bound: calls of createDevice
ASSUME DevicesAssumption == MaxDevices \in Nat

Threads == {"main", "queue"}
Devices == 1 .. MaxDevices   \* in the order of their creation

VARIABLES
    list,      \* m_devices
    made,      \* number of devices so far
    part,      \* what CMIOObjectCreate has made of the device: itself, its stream
    shown,     \* the objects of the device that are published
    \* the threads
    step,      \* place in createDevice, in a loop over m_devices or after it
    dev,       \* the device created, looked for or used, 0 when none
    ahead,     \* devices the loop has still to visit
    stale,     \* m_devices, or what a device in the loop holds, was changed under the loop
    inited,    \* Initialize has been called
    call,      \* the kind of the CMIO call
    buffer,    \* identifiers the last size query has counted, NoBuffer before
    \* history
    met,       \* the devices whose creation overlapped
    refused,   \* CMIO has refused to publish something
    crashed

loopVars  == <<ahead, stale>>
hostVars  == <<inited, call, buffer>>
objVars   == <<made, part>>
histVars  == <<met, refused>>
vars == <<list, objVars, shown, step, dev, loopVars, hostVars, histVars, crashed>>

NoDevice == 0
NoBuffer == -1
Each(S, v) == [x \in S |-> v]

Init ==
    /\ list = <<>> /\ made = 0
    /\ part = Each(Devices, {}) /\ shown = Each(Devices, {})
    /\ step = Each(Threads, "idle") /\ dev = Each(Threads, NoDevice)
    /\ ahead = Each(Threads, <<>>) /\ stale = Each(Threads, FALSE)
    /\ inited = FALSE /\ call = "none" /\ buffer = Each(Devices, NoBuffer)
    /\ met = Each(Devices, {}) /\ refused = FALSE /\ crashed = FALSE

Goto(t, s) == step' = [step EXCEPT ![t] = s]
Idle(t) == Goto(t, "idle") /\ dev' = [dev EXCEPT ![t] = NoDevice]

Creates == {"object", "stream", "register", "publish", "mirror", "failed"}
Creating(t) == step[t] \in Creates

\* t has a shared_ptr of its own: createDevice's local, or the one frameReady's
\* loop copies.  A CMIO call has a raw pointer from findObject.
Shares(t) == Creating(t) \/ (t = "queue" /\ step[t] = "use")

Alive(d) == d \in ToSet(list) \/ \E t \in Threads : Shares(t) /\ dev[t] = d

\* mutant: the destructor does not unregister
StaysShown(d) == shown[d]

Unpublished(d) == {}

\* What has lost its last shared_ptr is destroyed.  The destructors unpublish.
\* That of a stream goes on through m_parent, the device that is destroyed
\* before it: undefined, as is whatever the step did besides.
Reclaim(undefined) ==
    LET dying == {d \in Devices : Alive(d) /\ ~Alive(d)'}
    IN  /\ shown' = [d \in Devices |-> IF d \in dying THEN Unpublished(d) ELSE shown[d]]
        /\ crashed' \in {FALSE, undefined \/ \E d \in dying : "stream" \in part[d]}

\* t changes a container the other thread, at s, may be looping over.
Invalidate(t, s) ==
    stale' = [u \in Threads |-> stale[u] \/ (u # t /\ step[u] = s)]

-----------------------------------------------------------------------------
(* createDevice                                                            *)

\* mutant: the new device comes first
Prepended(d) == <<d>> \o list

Pushed(d) == Append(list, d)

\* Initialize, once GET_DEVICE has been answered, or a CREATE_DEVICE message
BeginCreate(t) ==
    /\ step[t] = "idle" /\ made < MaxDevices
    /\ t = "main" => ~inited
    /\ inited' = (inited \/ t = "main")
    /\ LET d     == made + 1
           other == {dev[u] : u \in {v \in Threads : Creating(v)}}
           Met(e) == IF e = d THEN other ELSE IF e \in other THEN met[e] \cup {d} ELSE met[e]
       IN  /\ made' = d
           /\ list' = Pushed(d)
           /\ dev' = [dev EXCEPT ![t] = d]
           /\ met' = [e \in Devices |-> Met(e)]
    /\ Goto(t, "object")
    /\ Invalidate(t, "visit")
    /\ UNCHANGED <<part, shown, ahead, call, buffer, refused, crashed>>

\* mutant: the device is published before it has its stream
DeviceFirst == [object |-> "publish", publish |-> "stream", stream |-> "register",
                register |-> "mirror"]

After == [object |-> "stream", stream |-> "register", register |-> "publish",
          publish |-> "mirror"]

\* CMIOObjectCreate makes the device or the stream, or fails.
Make(t) ==
    \/ part' = [part EXCEPT ![dev[t]] = @ \cup {step[t]}] /\ Goto(t, After[step[t]])
    \/ Goto(t, "failed") /\ UNCHANGED part

CreateObject(t) ==
    /\ step[t] = "object"
    /\ Make(t)
    /\ UNCHANGED <<list, made, shown, dev, loopVars, hostVars, histVars, crashed>>

\* findObject is at device d, looping over its m_childs.
Searching(d) == step["main"] = "visit" /\ ahead["main"] # <<>> /\ Head(ahead["main"]) = d

\* Device::addStream puts the stream among the device's m_childs, which findObject may
\* be looping over, and when it could be made inserts it into m_streams, which a frame
\* may be.
AddStream(t) ==
    /\ step[t] = "stream"
    /\ Make(t)
    /\ stale' = [u \in Threads |->
          \/ stale[u]
          \/ u # t /\ u = "main" /\ Searching(dev[t])
          \/ u # t /\ step[u] = "use" /\ dev[u] = dev[t] /\ part' # part]
    /\ UNCHANGED <<list, made, shown, dev, ahead, hostVars, histVars, crashed>>

\* CMIOObjectsPublishedAndDied may refuse; the code then takes back remains.
Publish(t, o, remains) ==
    /\ \/ /\ shown' = [shown EXCEPT ![dev[t]] = @ \cup {o}]
          /\ Goto(t, After[step[t]])
          /\ UNCHANGED refused
       \/ /\ shown' = [shown EXCEPT ![dev[t]] = remains]
          /\ refused' = TRUE
          /\ Goto(t, "failed")
    /\ UNCHANGED <<list, objVars, dev, loopVars, hostVars, met, crashed>>

RegisterStreams(t) == step[t] = "register" /\ Publish(t, "stream", shown[dev[t]] \ {"stream"})
RegisterObject(t) == step[t] = "publish" /\ Publish(t, "object", {})

\* setMirror with two MIRRORING calls, return true
Return(t) ==
    /\ step[t] = "mirror"
    /\ Idle(t)
    /\ UNCHANGED <<list, objVars, loopVars, hostVars, histVars>>
    /\ Reclaim(FALSE)

\* mutants: createDevice_failed clears m_devices, or leaves it alone
Cleared == <<>>
Untouched == list

AllButLast == Front(list)

\* createDevice_failed
Fail(t) ==
    /\ step[t] = "failed"
    /\ list' = AllButLast
    /\ Idle(t)
    /\ Reclaim(FALSE)
    /\ Invalidate(t, "visit")
    /\ UNCHANGED <<objVars, ahead, hostVars, histVars>>

-----------------------------------------------------------------------------
(* The loops over m_devices.                                               *)

BeginLoop(t) ==
    /\ step[t] = "idle"
    /\ ahead' = [ahead EXCEPT ![t] = list]
    /\ stale' = [stale EXCEPT ![t] = FALSE]
    /\ Goto(t, "visit")
    /\ UNCHANGED <<list, objVars, shown, inited, histVars, crashed>>

\* FRAME: every device has the identifier the assistant gives to all of them
BeginFrame == BeginLoop("queue") /\ UNCHANGED <<dev, call, buffer>>

\* A CMIO call for a published device or its stream: a size query, a get with a
\* buffer of the size such a query has returned, or any other.
BeginCall ==
    /\ BeginLoop("main") /\ inited
    /\ \E d \in {e \in Devices : "object" \in shown[e]}, k \in {"size", "get", "other"} :
          /\ k = "get" => buffer[d] # NoBuffer
          /\ dev' = [dev EXCEPT !["main"] = d]
          /\ call' = k
    /\ UNCHANGED buffer

Step(t) == ahead' = [ahead EXCEPT ![t] = Tail(@)]

\* One element.  Reading it is undefined when m_devices has changed.
Visit(t) ==
    /\ step[t] = "visit" /\ ahead[t] # <<>>
    /\ crashed' \in {FALSE, stale[t]}
    /\ Step(t)
    /\ LET d == Head(ahead[t]) IN
       IF IF t = "queue" THEN Alive(d) ELSE dev[t] = d
       THEN Goto(t, "use") /\ dev' = [dev EXCEPT ![t] = d]
       ELSE UNCHANGED <<step, dev>>
    /\ UNCHANGED <<list, objVars, shown, stale, hostVars, histVars>>

EndLoop(t) ==
    /\ step[t] = "visit" /\ ahead[t] = <<>>
    /\ Idle(t)
    /\ call' = IF t = "main" THEN "none" ELSE call
    /\ UNCHANGED <<list, objVars, shown, loopVars, inited, buffer, histVars, crashed>>

\* Device::frameReady, a loop over the streams, then the next element
DeliverFrame ==
    /\ step["queue"] = "use"
    /\ Goto("queue", "visit") /\ dev' = [dev EXCEPT !["queue"] = NoDevice]
    /\ UNCHANGED <<list, objVars, loopVars, hostVars, histVars>>
    /\ Reclaim(stale["queue"])

\* The identifiers in the device's list of streams, updateStreamsProperty
Listed(d) == IF "stream" \in part[d] THEN 1 ELSE 0

\* The call goes through the pointer that findObject has returned.
EndCall ==
    /\ step["main"] = "use"
    /\ call' = "none"
    /\ crashed' \in {FALSE, ~Alive(dev["main"])}
    /\ Idle("main")
    /\ UNCHANGED <<list, objVars, shown, loopVars, inited, histVars>>

\* getPropertyDataSize counts a list; getPropertyData writes all of it, whatever
\* the size of the buffer.
CountList == call = "size" /\ EndCall /\ buffer' = [buffer EXCEPT ![dev["main"]] = Listed(dev["main"])]
UseObject == call # "size" /\ EndCall /\ UNCHANGED buffer

-----------------------------------------------------------------------------
Thread(t) ==
    \/ BeginCreate(t) \/ CreateObject(t) \/ AddStream(t)
    \/ RegisterStreams(t) \/ RegisterObject(t) \/ Return(t) \/ Fail(t)
    \/ Visit(t) \/ EndLoop(t)

Next ==
    /\ ~crashed
    /\ \/ \E t \in Threads : Thread(t)
       \/ BeginFrame \/ DeliverFrame \/ BeginCall \/ CountList \/ UseObject

Spec == Init /\ [][Next]_vars

-----------------------------------------------------------------------------
(* Properties                                                              *)

\* Every variable has its type.
TypeOK ==
    /\ list \in Seq(Devices) /\ made \in 0 .. MaxDevices
    /\ part \in [Devices -> SUBSET {"object", "stream"}]
    /\ shown \in [Devices -> SUBSET {"object", "stream"}]
    /\ step \in [Threads -> Creates \cup {"idle", "visit", "use"}]
    /\ dev \in [Threads -> 0 .. MaxDevices]
    /\ ahead \in [Threads -> Seq(Devices)] /\ stale \in [Threads -> BOOLEAN]
    /\ inited \in BOOLEAN /\ call \in {"none", "size", "get", "other"}
    /\ buffer \in [Devices -> -1 .. 1]
    /\ met \in [Devices -> SUBSET Devices]
    /\ refused \in BOOLEAN /\ crashed \in BOOLEAN

Complete(d) == shown[d] = {"object", "stream"}

\* A camera the application has seen stays, unless its creation overlapped
\* another: a creation that fails removes its own device.
StaysPublished ==
    [][\A d \in Devices : Complete(d) /\ ~Complete(d)' => met[d] # {}]_vars

\* An object that is published exists.
PublishedAlive == \A d \in Devices : shown[d] # {} => Alive(d)

\* m_devices holds no remains of a failed creation, unless it overlapped another.
NoLeftovers ==
    \A d \in ToSet(list) :
        Complete(d) \/ met[d] # {} \/ \E t \in Threads : Creating(t) /\ dev[t] = d

\* The object of a CMIO call exists during the call, although findObject returns
\* a raw pointer, unless its creation overlapped another.
NoDangling ==
    LET d == dev["main"] IN step["main"] = "use" => Alive(d) \/ met[d] # {}

\* A list fits in a buffer of the size a query has returned, because a device
\* has all its streams before it is published.
GetFits ==
    LET d == dev["main"]
    IN  step["main"] = "use" /\ call = "get" => Listed(d) <= buffer[d]

\* The application crashes only if CMIO refused a publication, two creations
\* overlapped, or a container changed under a loop.
CrashExplained ==
    crashed => refused \/ (\E d \in Devices : met[d] # {}) \/ \E t \in Threads : stale[t]

=============================================================================
