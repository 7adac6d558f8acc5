--------------------------- MODULE LifetimeProofs ---------------------------
(***************************************************************************)
(* The safety properties of Lifetime, for every number of references and   *)
(* of messages.                                                            *)
(***************************************************************************)
EXTENDS Lifetime, TLAPS

\* The plugin counts the application's references.
Counted == ref = held /\ (main = "none" => ref = 0)

\* Until the plugin exists nobody knows it.
Unknown ==
    main = "none" => /\ ~port /\ ~registered /\ sent = 0
                      /\ inbox = 0 /\ handler = "idle" /\ reached = 0

\* A request to remove the plugin is one of those it has sent, and while it is on
\* its way, or not yet sent, the plugin may still be registered.
Accounted ==
    /\ removals <= sent
    /\ registered => sent = 0 \/ removals > 0

\* What the destructor did not wait for is accounted for: messages and loops.
Awaited == ~Usable /\ (inbox > 0 \/ handler # "idle" \/ reached > 0) => late

IInv ==
    /\ TypeOK /\ HeldAlive /\ RemovedOnce /\ EndExplained
    /\ Counted /\ Unknown /\ Accounted /\ Awaited

\* TypeOK in two parts: the numbers and the rest.
TypeCounts ==
    /\ ref \in 0 .. MaxRefs /\ held \in 0 .. MaxRefs /\ inbox \in 0 .. MaxMessages /\ reached \in 0 .. MaxLoops
    /\ removals \in 0 .. 1 /\ sent \in 0 .. 1

TypeFlags ==
    /\ main \in {"none", "idle", "disconnect", "delete", "devices", "gone"}
    /\ handler \in {"idle", "create", "frame"}
    /\ port \in BOOLEAN /\ device \in BOOLEAN /\ renders \in BOOLEAN
    /\ registered \in BOOLEAN /\ late \in BOOLEAN
    /\ cause \in {"none", "message", "device", "stream"}

USE BoundAssumption DEF pluginVars, serverVars

\* The invariant is its parts.
LEMMA Parts ==
    IInv <=> /\ TypeCounts /\ TypeFlags /\ Counted /\ Unknown /\ Accounted /\ RemovedOnce
             /\ Awaited /\ EndExplained /\ HeldAlive
  BY DEF IInv, TypeOK, TypeCounts, TypeFlags

\* The initial states satisfy the invariant.
LEMMA InitInv == Init => IInv
<1> SUFFICES ASSUME Init PROVE IInv
    OBVIOUS
<1>1. TypeCounts
      BY DEF Init, TypeCounts
<1>2. TypeFlags
      BY DEF Init, TypeFlags
<1>3. Counted /\ Unknown
      BY DEF Init, Counted, Unknown
<1>4. Accounted /\ RemovedOnce
      BY DEF Init, Accounted, RemovedOnce
<1>5. Awaited /\ EndExplained
      BY DEF Init, Awaited, EndExplained
<1>6. HeldAlive
      BY DEF Init, HeldAlive
<1> QED
    BY <1>1, <1>2, <1>3, <1>4, <1>5, <1>6, Parts

\* A call of the application preserves the invariant.
LEMMA CallPreserves ==
    ASSUME IInv, cause = "none", Create \/ AddRef \/ Release \/ Initialize \/ StartStop
    PROVE  IInv'
<1>0. /\ TypeCounts /\ TypeFlags /\ Counted /\ Unknown /\ Accounted /\ RemovedOnce
      /\ Awaited /\ EndExplained /\ HeldAlive
      BY Parts
<1> USE <1>0
<1>1. CASE Create
  <2>1. TypeCounts'
        BY <1>1 DEF Create, TypeCounts
  <2>2. TypeFlags'
        BY <1>1 DEF Create, TypeFlags
  <2>3. Counted' /\ Unknown'
        BY <1>1 DEF Create, Counted, Unknown
  <2>4. Accounted' /\ RemovedOnce'
        BY <1>1 DEF Create, TypeCounts, TypeFlags, Unknown, Accounted, RemovedOnce
  <2>5. Awaited' /\ EndExplained'
        BY <1>1 DEF Create, Unknown, Accounted, Awaited, EndExplained, Usable
  <2>6. HeldAlive'
        BY <1>1 DEF Create, TypeCounts, Counted, HeldAlive, Usable
  <2> QED
      BY <2>1, <2>2, <2>3, <2>4, <2>5, <2>6
      DEF IInv, TypeOK, TypeCounts, TypeFlags
<1>2. CASE AddRef
  <2>1. TypeCounts'
        BY <1>2 DEF AddRef, Usable, TypeCounts, Counted
  <2>2. TypeFlags'
        BY <1>2 DEF AddRef, Usable, TypeFlags
  <2>3. Counted' /\ Unknown'
        BY <1>2 DEF AddRef, Usable, Counted, Unknown
  <2>4. Accounted' /\ RemovedOnce'
        BY <1>2 DEF AddRef, Usable, TypeCounts, TypeFlags, Unknown, Accounted, RemovedOnce
  <2>5. Awaited' /\ EndExplained'
        BY <1>2 DEF AddRef, Usable, Unknown, Accounted, Awaited, EndExplained, Usable
  <2>6. HeldAlive'
        BY <1>2 DEF AddRef, Usable, TypeCounts, Counted, HeldAlive, Usable
  <2> QED
      BY <2>1, <2>2, <2>3, <2>4, <2>5, <2>6
      DEF IInv, TypeOK, TypeCounts, TypeFlags
<1>3. CASE Release
  <2>1. TypeCounts'
        BY <1>3 DEF Release, Last, Usable, TypeCounts, Counted
  <2>2. TypeFlags'
        BY <1>3 DEF Release, Last, Usable, TypeFlags
  <2>3. Counted' /\ Unknown'
        BY <1>3 DEF Release, Last, Usable, Counted, Unknown
  <2>4. Accounted' /\ RemovedOnce'
        BY <1>3 DEF Release, Last, Usable, TypeCounts, TypeFlags, Unknown, Accounted, RemovedOnce
  <2>5. Awaited' /\ EndExplained'
        BY <1>3 DEF Release, Last, Usable, Unknown, Accounted, Awaited, EndExplained, Usable
  <2>6. HeldAlive'
        BY <1>3 DEF Release, Last, Usable, TypeCounts, Counted, HeldAlive, Usable
  <2> QED
      BY <2>1, <2>2, <2>3, <2>4, <2>5, <2>6
      DEF IInv, TypeOK, TypeCounts, TypeFlags
<1>4. CASE Initialize
  <2>1. TypeCounts'
        BY <1>4 DEF Initialize, Usable, TypeCounts
  <2>2. TypeFlags'
        BY <1>4 DEF Initialize, Usable, TypeFlags
  <2>3. Counted' /\ Unknown'
        BY <1>4 DEF Initialize, Usable, Counted, Unknown
  <2>4. Accounted' /\ RemovedOnce'
        BY <1>4 DEF Initialize, Usable, TypeCounts, TypeFlags, Unknown, Accounted, RemovedOnce
  <2>5. Awaited' /\ EndExplained'
        BY <1>4 DEF Initialize, Usable, Unknown, Accounted, Awaited, EndExplained, Usable
  <2>6. HeldAlive'
        BY <1>4 DEF Initialize, Usable, TypeCounts, Counted, HeldAlive, Usable
  <2> QED
      BY <2>1, <2>2, <2>3, <2>4, <2>5, <2>6
      DEF IInv, TypeOK, TypeCounts, TypeFlags
<1>5. CASE StartStop
  <2>1. TypeCounts'
        BY <1>5 DEF StartStop, Usable, TypeCounts
  <2>2. TypeFlags'
        BY <1>5 DEF StartStop, Usable, TypeFlags
  <2>3. Counted' /\ Unknown'
        BY <1>5 DEF StartStop, Usable, Counted, Unknown
  <2>4. Accounted' /\ RemovedOnce'
        BY <1>5 DEF StartStop, Usable, TypeCounts, TypeFlags, Unknown, Accounted, RemovedOnce
  <2>5. Awaited' /\ EndExplained'
        BY <1>5 DEF StartStop, Usable, Unknown, Accounted, Awaited, EndExplained, Usable
  <2>6. HeldAlive'
        BY <1>5 DEF StartStop, Usable, TypeCounts, Counted, HeldAlive, Usable
  <2> QED
      BY <2>1, <2>2, <2>3, <2>4, <2>5, <2>6
      DEF IInv, TypeOK, TypeCounts, TypeFlags
<1> QED
    BY <1>1, <1>2, <1>3, <1>4, <1>5

\* A step of the destructor preserves the invariant.
LEMMA DestructorPreserves ==
    ASSUME IInv, cause = "none", Destructor
    PROVE  IInv'
<1>0. /\ TypeCounts /\ TypeFlags /\ Counted /\ Unknown /\ Accounted /\ RemovedOnce
      /\ Awaited /\ EndExplained /\ HeldAlive
      BY Parts
<1> USE <1>0
<1>1. CASE Disconnect
  <2>1. TypeCounts'
        BY <1>1 DEF Disconnect, UnregisterPeer, Requests, PortAfter, TypeCounts, TypeFlags, Accounted,
            RemovedOnce
  <2>2. TypeFlags'
        BY <1>1 DEF Disconnect, UnregisterPeer, Requests, PortAfter, TypeFlags
  <2>3. Counted' /\ Unknown'
        BY <1>1 DEF Disconnect, UnregisterPeer, Requests, PortAfter, Counted, Unknown
  <2>4. Accounted' /\ RemovedOnce'
        BY <1>1 DEF Disconnect, UnregisterPeer, Requests, PortAfter, TypeCounts, TypeFlags, Unknown, Accounted, RemovedOnce
  <2>5. Awaited' /\ EndExplained'
        BY <1>1 DEF Disconnect, UnregisterPeer, Requests, PortAfter, Unknown, Accounted, Awaited, EndExplained, Usable
  <2>6. HeldAlive'
        BY <1>1 DEF Disconnect, UnregisterPeer, Requests, PortAfter, TypeCounts, Counted, HeldAlive, Usable
  <2> QED
      BY <2>1, <2>2, <2>3, <2>4, <2>5, <2>6
      DEF IInv, TypeOK, TypeCounts, TypeFlags
<1>2. CASE DeleteServer
  <2>1. TypeCounts'
        BY <1>2 DEF DeleteServer, UnregisterPeer, Requests, PortAfter, TypeCounts, TypeFlags, Accounted,
            RemovedOnce
  <2>2. TypeFlags'
        BY <1>2 DEF DeleteServer, UnregisterPeer, Requests, PortAfter, TypeFlags
  <2>3. Counted' /\ Unknown'
        BY <1>2 DEF DeleteServer, UnregisterPeer, Requests, PortAfter, Counted, Unknown
  <2>4. Accounted' /\ RemovedOnce'
        BY <1>2 DEF DeleteServer, UnregisterPeer, Requests, PortAfter, TypeCounts, TypeFlags, Unknown, Accounted, RemovedOnce
  <2>5. Awaited' /\ EndExplained'
        BY <1>2 DEF DeleteServer, UnregisterPeer, Requests, PortAfter, Unknown, Accounted, Awaited, EndExplained, Usable
  <2>6. HeldAlive'
        BY <1>2 DEF DeleteServer, UnregisterPeer, Requests, PortAfter, TypeCounts, Counted, HeldAlive, Usable
  <2> QED
      BY <2>1, <2>2, <2>3, <2>4, <2>5, <2>6
      DEF IInv, TypeOK, TypeCounts, TypeFlags
<1>3. CASE DeleteDevices
  <2>1. TypeCounts'
        BY <1>3 DEF DeleteDevices, Undefined, TypeCounts
  <2>2. TypeFlags'
        BY <1>3 DEF DeleteDevices, Undefined, TypeFlags
  <2>3. Counted' /\ Unknown'
        BY <1>3 DEF DeleteDevices, Undefined, Counted, Unknown
  <2>4. Accounted' /\ RemovedOnce'
        BY <1>3 DEF DeleteDevices, Undefined, TypeCounts, TypeFlags, Unknown, Accounted, RemovedOnce
  <2>5. Awaited' /\ EndExplained'
        BY <1>3 DEF DeleteDevices, Undefined, Unknown, Accounted, Awaited, EndExplained, Usable
  <2>6. HeldAlive'
        BY <1>3 DEF DeleteDevices, Undefined, TypeCounts, Counted, HeldAlive, Usable
  <2> QED
      BY <2>1, <2>2, <2>3, <2>4, <2>5, <2>6
      DEF IInv, TypeOK, TypeCounts, TypeFlags
<1> QED
    BY <1>1, <1>2, <1>3 DEF Destructor

\* A step of the XPC queue, or of a render thread, preserves the invariant.
LEMMA QueuePreserves ==
    ASSUME IInv, cause = "none", MessageReceived \/ Handled \/ Render
    PROVE  IInv'
<1>0. /\ TypeCounts /\ TypeFlags /\ Counted /\ Unknown /\ Accounted /\ RemovedOnce
      /\ Awaited /\ EndExplained /\ HeldAlive
      BY Parts
<1> USE <1>0
<1>1. CASE MessageReceived
  <2>1. TypeCounts'
        BY <1>1 DEF MessageReceived, Undefined, HasServer, TypeCounts
  <2>2. TypeFlags'
        BY <1>1 DEF MessageReceived, Undefined, HasServer, TypeFlags
  <2>3. Counted' /\ Unknown'
        BY <1>1 DEF MessageReceived, Undefined, HasServer, Counted, Unknown
  <2>4. Accounted' /\ RemovedOnce'
        BY <1>1 DEF MessageReceived, Undefined, HasServer, TypeCounts, TypeFlags, Unknown, Accounted, RemovedOnce
  <2>5. Awaited' /\ EndExplained'
        BY <1>1 DEF MessageReceived, Undefined, HasServer, Unknown, Accounted, Awaited, EndExplained, Usable
  <2>6. HeldAlive'
        BY <1>1 DEF MessageReceived, Undefined, HasServer, TypeCounts, Counted, HeldAlive, Usable
  <2> QED
      BY <2>1, <2>2, <2>3, <2>4, <2>5, <2>6
      DEF IInv, TypeOK, TypeCounts, TypeFlags
<1>2. CASE Handled
  <2>1. TypeCounts'
        BY <1>2 DEF Handled, Undefined, HasServer, TypeCounts
  <2>2. TypeFlags'
        BY <1>2 DEF Handled, Undefined, HasServer, TypeFlags
  <2>3. Counted' /\ Unknown'
        BY <1>2 DEF Handled, Undefined, HasServer, Counted, Unknown
  <2>4. Accounted' /\ RemovedOnce'
        BY <1>2 DEF Handled, Undefined, HasServer, TypeCounts, TypeFlags, Unknown, Accounted, RemovedOnce
  <2>5. Awaited' /\ EndExplained'
        BY <1>2 DEF Handled, Undefined, HasServer, Unknown, Accounted, Awaited, EndExplained, Usable
  <2>6. HeldAlive'
        BY <1>2 DEF Handled, Undefined, HasServer, TypeCounts, Counted, HeldAlive, Usable
  <2> QED
      BY <2>1, <2>2, <2>3, <2>4, <2>5, <2>6
      DEF IInv, TypeOK, TypeCounts, TypeFlags
<1>3. CASE Render
  <2>1. TypeCounts'
        BY <1>3 DEF Render, Undefined, TypeCounts
  <2>2. TypeFlags'
        BY <1>3 DEF Render, Undefined, TypeFlags
  <2>3. Counted' /\ Unknown'
        BY <1>3 DEF Render, Undefined, Counted, Unknown
  <2>4. Accounted' /\ RemovedOnce'
        BY <1>3 DEF Render, Undefined, TypeCounts, TypeFlags, Unknown, Accounted, RemovedOnce
  <2>5. Awaited' /\ EndExplained'
        BY <1>3 DEF Render, Undefined, Unknown, Accounted, Awaited, EndExplained, Usable
  <2>6. HeldAlive'
        BY <1>3 DEF Render, Undefined, TypeCounts, Counted, HeldAlive, Usable
  <2> QED
      BY <2>1, <2>2, <2>3, <2>4, <2>5, <2>6
      DEF IInv, TypeOK, TypeCounts, TypeFlags
<1> QED
    BY <1>1, <1>2, <1>3

\* A step of the assistant preserves the invariant.
LEMMA AssistantPreserves ==
    ASSUME IInv, Assistant
    PROVE  IInv'
<1>0. /\ TypeCounts /\ TypeFlags /\ Counted /\ Unknown /\ Accounted /\ RemovedOnce
      /\ Awaited /\ EndExplained /\ HeldAlive
      BY Parts
<1> USE <1>0
<1>1. CASE Send
  <2>1. TypeCounts'
        BY <1>1 DEF Send, TypeCounts
  <2>2. TypeFlags'
        BY <1>1 DEF Send, TypeFlags
  <2>3. Counted' /\ Unknown'
        BY <1>1 DEF Send, Counted, Unknown
  <2>4. Accounted' /\ RemovedOnce'
        BY <1>1 DEF Send, TypeCounts, TypeFlags, Unknown, Accounted, RemovedOnce
  <2>5. Awaited' /\ EndExplained'
        BY <1>1 DEF Send, Unknown, Accounted, Awaited, EndExplained, Usable
  <2>6. HeldAlive'
        BY <1>1 DEF Send, TypeCounts, Counted, HeldAlive, Usable
  <2> QED
      BY <2>1, <2>2, <2>3, <2>4, <2>5, <2>6
      DEF IInv, TypeOK, TypeCounts, TypeFlags
<1>2. CASE RemoveConnection
  <2>1. TypeCounts'
        BY <1>2 DEF RemoveConnection, Erased, TypeCounts
  <2>2. TypeFlags'
        BY <1>2 DEF RemoveConnection, Erased, TypeFlags
  <2>3. Counted' /\ Unknown'
        BY <1>2 DEF RemoveConnection, Erased, Counted, Unknown
  <2>4. Accounted' /\ RemovedOnce'
        BY <1>2 DEF RemoveConnection, Erased, TypeCounts, TypeFlags, Unknown, Accounted, RemovedOnce
  <2>5. Awaited' /\ EndExplained'
        BY <1>2 DEF RemoveConnection, Erased, Unknown, Accounted, Awaited, EndExplained, Usable
  <2>6. HeldAlive'
        BY <1>2 DEF RemoveConnection, Erased, TypeCounts, Counted, HeldAlive, Usable
  <2> QED
      BY <2>1, <2>2, <2>3, <2>4, <2>5, <2>6
      DEF IInv, TypeOK, TypeCounts, TypeFlags
<1>3. CASE Reach
  <2>1. TypeCounts'
        BY <1>3 DEF Reach, TypeCounts
  <2>2. TypeFlags'
        BY <1>3 DEF Reach, TypeFlags
  <2>3. Counted' /\ Unknown'
        BY <1>3 DEF Reach, Counted, Unknown
  <2>4. Accounted' /\ RemovedOnce'
        BY <1>3 DEF Reach, TypeCounts, TypeFlags, Unknown, Accounted, RemovedOnce
  <2>5. Awaited' /\ EndExplained'
        BY <1>3 DEF Reach, Unknown, Accounted, Awaited, EndExplained, Usable
  <2>6. HeldAlive'
        BY <1>3 DEF Reach, TypeCounts, Counted, HeldAlive, Usable
  <2> QED
      BY <2>1, <2>2, <2>3, <2>4, <2>5, <2>6
      DEF IInv, TypeOK, TypeCounts, TypeFlags
<1> QED
    BY <1>1, <1>2, <1>3 DEF Assistant

\* Every step preserves the invariant.
LEMMA NextPreserves == IInv /\ [Next]_vars => IInv'
<1> SUFFICES ASSUME IInv, [Next]_vars PROVE IInv'
    OBVIOUS
<1>1. CASE Assistant
      BY <1>1, AssistantPreserves
<1>2. CASE cause = "none" /\ Application
      BY <1>2, CallPreserves, DestructorPreserves, QueuePreserves DEF Application
<1>3. CASE UNCHANGED vars
      BY <1>3
      DEF vars, IInv, TypeOK, Counted, Unknown, Accounted, Awaited, HeldAlive, RemovedOnce,
          EndExplained, Usable
<1> QED
    BY <1>1, <1>2, <1>3 DEF Next

\* The invariant the theorems below are read off from.
THEOREM Invariance == Spec => []IInv
  BY InitInv, NextPreserves, PTL DEF Spec

-----------------------------------------------------------------------------
\* Every variable keeps its type: the count stays within the references held, and
\* no more than one request to be removed is ever sent.
THEOREM TypeCorrect == Spec => []TypeOK
<1>1. IInv => TypeOK
      BY DEF IInv
<1> QED
    BY <1>1, Invariance, PTL

\* AddRef and Release destroy the plugin with the last reference, not before.
THEOREM Counting == Spec => []HeldAlive
<1>1. IInv => HeldAlive
      BY DEF IInv
<1> QED
    BY <1>1, Invariance, PTL

\* disconnect and the destructor of the server send one request between them.
THEOREM OneRemoval == Spec => []RemovedOnce
<1>1. IInv => RemovedOnce
      BY DEF IInv
<1> QED
    BY <1>1, Invariance, PTL

\* A message reaches a deleted server only when it was there before the destructor, or
\* its loop had reached the plugin before the removal was handled.
THEOREM Explained == Spec => []EndExplained
<1>1. IInv => EndExplained
      BY DEF IInv
<1> QED
    BY <1>1, Invariance, PTL
=============================================================================
