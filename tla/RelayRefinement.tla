--------------------------- MODULE RelayRefinement ---------------------------
(***************************************************************************)
(* That Relay implements Broadcast, and that whoever waits in it has an    *)
(* answer coming, for every set of applications and every number of        *)
(* devices, frames and crashes.  Both rest on the invariant of RelayProofs *)
(* and on two facts of their own: who is asked to leave has gone, and the  *)
(* frames on their way to an application that lives are in order.          *)
(***************************************************************************)
EXTENDS RelayProofs

\* Only an application that has gone is on its way out of m_clients, or out of it
\* with the iterator still at it.
Leavers ==
    \A a \in Apps : Holds(calls[a], "REMOVE_CONNECTION") \/ (a = cursor /\ a \notin clients)
        => Departed(a)

\* An application has one frame at most to handle, which is not older than the last
\* it was given.
OrderOf(a) ==
    /\ seen[a] <= frame
    /\ ~Departed(a) => \A i \in DOMAIN inbox[a] : inbox[a][i].type = "FRAME" =>
          /\ seen[a] <= inbox[a][i].value /\ inbox[a][i].value <= frame
          /\ \A j \in DOMAIN inbox[a] : inbox[a][j].type = "FRAME" => i = j

Ordered == \A a \in Apps : OrderOf(a)

RInv == IInv /\ Leavers /\ Ordered

-----------------------------------------------------------------------------
USE AppsAssumption
    DEF assistantVars, handlerVars, callerVars, hostVars, appVars, NoDevice, Torn, End, Departed

(* Queues as the sets of what is in them.                                  *)

\* What joins a queue.
LEMMA Joining ==
    ASSUME NEW S, NEW q \in Seq(S), NEW e \in S
    PROVE  \A x : Holds(Append(q, e), x) <=> Holds(q, x) \/ x = e
BY Adding DEF Holds

\* What stays when the head leaves.
LEMMA Staying ==
    ASSUME NEW S, NEW q \in Seq(S), q # <<>>
    PROVE  \A x : /\ Holds(Tail(q), x) => Holds(q, x)
                  /\ Holds(q, x) /\ x # Head(q) => Holds(Tail(q), x)
<1>1. /\ Len(q) \in Nat \ {0} /\ DOMAIN Tail(q) = 1 .. Len(q) - 1 /\ DOMAIN q = 1 .. Len(q)
      /\ Head(q) = q[1]
      /\ \A i \in DOMAIN Tail(q) : i + 1 \in DOMAIN q /\ Tail(q)[i] = q[i + 1]
      BY Removing
<1>2. \A n \in Nat : \A i \in 1 .. n : i = 1 \/ (i - 1 \in 1 .. n - 1 /\ (i - 1) + 1 = i)
      OBVIOUS
<1>3. \A i \in DOMAIN q : i = 1 \/ (i - 1 \in DOMAIN Tail(q) /\ Tail(q)[i - 1] = q[i])
      BY <1>1, <1>2
<1> QED
    BY <1>1, <1>3 DEF Holds

\* An application sends a request.
LEMMA CallAdds ==
    ASSUME TypeApps, NEW a \in Apps, NEW c \in Threads, Call(a, c)
    PROVE  \A b \in Apps, d \in Threads :
              Holds(calls'[b], d) <=> Holds(calls[b], d) \/ (b = a /\ d = c)
<1>1. calls \in [Apps -> Seq(Threads)] /\ calls' = [calls EXCEPT ![a] = Append(calls[a], c)]
      BY DEF TypeApps, Call
<1> HIDE DEF Threads
<1> QED
    BY <1>1, Joining

\* The assistant handles one, and that one only.
LEMMA CallDrops ==
    ASSUME TypeApps, NEW a \in Apps, NEW c, Request(a, c)
    PROVE  /\ Holds(calls[a], c)
           /\ \A b \in Apps, d \in Threads :
                 /\ Holds(calls'[b], d) => Holds(calls[b], d)
                 /\ (b # a \/ d # c) /\ Holds(calls[b], d) => Holds(calls'[b], d)
<1>1. /\ calls \in [Apps -> Seq(Threads)] /\ calls' = [calls EXCEPT ![a] = Tail(calls[a])]
      /\ calls[a] # <<>> /\ Head(calls[a]) = c
      BY DEF TypeApps, Request
<1> HIDE DEF Threads
<1>2. Holds(calls[a], c)
      BY <1>1, Removing DEF Holds
<1> QED
    BY <1>1, <1>2, Staying

-----------------------------------------------------------------------------
(* The threads of the applications.                                        *)

Threaded == Leavers /\ \A a \in Apps : AppServed(a)

\* A handler of the host's requests moves the iterator among the clients.
LEMMA HostThreaded ==
    ASSUME IInv, Threaded, HostHandler
    PROVE  Threaded'
<1> USE DEF Threaded, Leavers, AppServed
<1>1. clients \subseteq Apps /\ UNCHANGED <<clients, main, queue, calls>>
      BY DEF IInv, Sound, TypeHost, HostHandler, AllocateDevice, FillDevice, BeginFrame, SetMirroring,
             DestroyDevice, NotifyClient, SendFrame, FrameError, Advance, ReplyHost
<1>2. cursor' = cursor \/ cursor' \in clients \cup {End}
  <2>1. CASE FillDevice \/ BeginFrame
        BY <1>1, <2>1, First DEF FillDevice, BeginFrame, BeginLoop
  <2>2. CASE Advance
    <3>1. Lowest({a \in clients : a > cursor}) \in clients \cup {End}
          BY <1>1, First
    <3> QED
      BY <2>2, <3>1 DEF Advance
  <2> QED
    BY <2>1, <2>2 DEF HostHandler, AllocateDevice, SetMirroring, DestroyDevice, NotifyClient,
                      SendFrame, FrameError, ReplyHost, HostRequest
<1>3. \A a \in Apps : a # End
      OBVIOUS
<1> QED
    BY <1>1, <1>2, <1>3

\* The main thread of an application, its queue and its end.
LEMMA AppThreaded ==
    ASSUME IInv, Threaded, NEW a \in Apps,
           Construct(a) \/ MainThread(a) \/ Close(a) \/ Die(a) \/ QueueThread(a)
    PROVE  Threaded'
<1> USE DEF Threaded, Leavers, AppServed
<1>1. /\ TypeApps /\ main \in [Apps -> MainStates] /\ queue \in [Apps -> {"idle", "creating"}]
      /\ connected \in [Apps -> BOOLEAN]
      BY DEF IInv, Sound, TypeApps
<1>2. CASE Construct(a)
  <2>1. \A b \in Apps, d \in Threads :
            Holds(calls'[b], d) <=> Holds(calls[b], d) \/ (b = a /\ d = "ADD_CONNECTION")
        BY <1>1, <1>2, CallAdds DEF Construct, Threads
  <2> QED
    BY <1>1, <1>2, <2>1 DEF Construct, Threads
<1>3. CASE AttachCallbacks(a) \/ Die(a) \/ FrameReady(a)
      BY <1>1, <1>3 DEF AttachCallbacks, Die, FrameReady, Threads
<1>4. CASE Initialize(a)
  <2>1. CASE connected[a]
    <3>1. \A b \in Apps, d \in Threads :
              Holds(calls'[b], d) <=> Holds(calls[b], d) \/ (b = a /\ d = "GET_DEVICE")
          BY <1>1, <1>4, <2>1, CallAdds DEF Initialize, Threads
    <3> QED
      BY <1>1, <1>4, <2>1, <3>1 DEF Initialize, Threads
  <2>2. CASE ~connected[a]
        BY <1>1, <1>4, <2>2 DEF Initialize, Threads
  <2> QED
    BY <2>1, <2>2
<1>5. CASE InitializeDevice(a)
  <2>1. CASE got[a] # NoDevice /\ connected[a]
    <3>1. \A b \in Apps, d \in Threads :
              Holds(calls'[b], d) <=> Holds(calls[b], d) \/ (b = a /\ d = "MIRRORING main")
          BY <1>1, <1>5, <2>1, CallAdds DEF InitializeDevice, CreateDevice, Threads
    <3> QED
      BY <1>1, <1>5, <2>1, <3>1 DEF InitializeDevice, Threads
  <2>2. CASE got[a] = NoDevice \/ ~connected[a]
        BY <1>1, <1>5, <2>2 DEF InitializeDevice, CreateDevice, Threads
  <2> QED
    BY <2>1, <2>2
<1>6. CASE Close(a)
  <2>1. CASE connected[a]
    <3>1. \A b \in Apps, d \in Threads :
              Holds(calls'[b], d) <=> Holds(calls[b], d) \/ (b = a /\ d = "REMOVE_CONNECTION")
          BY <1>1, <1>6, <2>1, CallAdds DEF Close, Threads
    <3> QED
      BY <1>1, <1>6, <2>1, <3>1 DEF Close, Threads
  <2>2. CASE ~connected[a]
        BY <1>1, <1>6, <2>2 DEF Close, Threads
  <2> QED
    BY <2>1, <2>2
<1>7. CASE DeviceAdded(a)
  <2>1. CASE Attached(a) /\ connected[a]
    <3>1. \A b \in Apps, d \in Threads :
              Holds(calls'[b], d) <=> Holds(calls[b], d) \/ (b = a /\ d = "MIRRORING queue")
          BY <1>1, <1>7, <2>1, CallAdds DEF DeviceAdded, CreateDevice, Threads
    <3> QED
      BY <1>1, <1>7, <2>1, <3>1 DEF DeviceAdded, Threads
  <2>2. CASE ~Attached(a) \/ ~connected[a]
        BY <1>1, <1>7, <2>2 DEF DeviceAdded, CreateDevice, Message, Threads
  <2> QED
    BY <2>1, <2>2
<1> QED
    BY <1>2, <1>3, <1>4, <1>5, <1>6, <1>7 DEF MainThread, QueueThread

\* The assistant answers an application.
LEMMA AnswerThreaded ==
    ASSUME IInv, Threaded, NEW a \in Apps, AppHandler(a)
    PROVE  Threaded'
<1> USE DEF Threaded, Leavers, AppServed
<1>1. /\ TypeApps /\ main \in [Apps -> MainStates] /\ queue \in [Apps -> {"idle", "creating"}]
      BY DEF IInv, Sound, TypeApps
<1>2. CASE AddConnection(a)
      BY <1>1, <1>2, CallDrops DEF AddConnection, Resume, Threads
<1>3. CASE RemoveConnection(a)
      BY <1>1, <1>3, CallDrops DEF RemoveConnection, Threads
<1>4. CASE GetDevice(a)
      BY <1>1, <1>4, CallDrops DEF GetDevice, Resume, Threads
<1>5. CASE Mirroring(a)
  <2>1. UNCHANGED <<clients, cursor>>
        BY <1>5 DEF Mirroring
  <2>2. CASE Request(a, "MIRRORING main") /\ Resume(a, "creating", "ready") /\ UNCHANGED queue
        BY <1>1, <2>1, <2>2, CallDrops DEF Resume, Threads
  <2>3. CASE /\ Request(a, "MIRRORING queue") /\ queue' = [queue EXCEPT ![a] = "idle"]
             /\ UNCHANGED main
    <3>1. \A b \in Apps, d \in Threads :
              /\ Holds(calls'[b], d) => Holds(calls[b], d)
              /\ (b # a \/ d # "MIRRORING queue") /\ Holds(calls[b], d) => Holds(calls'[b], d)
          BY <1>1, <2>3, CallDrops
    <3> QED
      BY <1>1, <2>1, <2>3, <3>1 DEF Threads
  <2> QED
    BY <1>5, <2>2, <2>3 DEF Mirroring
<1> QED
    BY <1>2, <1>3, <1>4, <1>5 DEF AppHandler

\* Every step keeps the threads served.
LEMMA ThreadedStep ==
    ASSUME IInv, Threaded, [Next]_vars
    PROVE  Threaded'
<1>1. CASE CallCreate \/ CallUpload \/ CallSetMirroring \/ CallDestroy \/ UNCHANGED vars
      BY <1>1 DEF Threaded, Leavers, AppServed, CallCreate, CallUpload, CallSetMirroring,
                  CallDestroy, vars
<1>2. CASE AssistantCrash
  <2>1. \A d : ~Holds(<<>>, d)
        BY DEF Holds
  <2>2. main \in [Apps -> MainStates]
        BY DEF IInv, Sound, TypeApps
  <2> QED
    BY <1>2, <2>1, <2>2 DEF Threaded, Leavers, AppServed, AssistantCrash
<1> QED
    BY <1>1, <1>2, HostThreaded, AppThreaded, AnswerThreaded DEF Next

-----------------------------------------------------------------------------
(* The host.                                                               *)

\* A request of the host joins its queue.
LEMMA HostAdds ==
    ASSUME TypeHost, NEW c \in HostCalls, CallAssistant(c)
    PROVE  \A d : Holds(sent', d) <=> Holds(sent, d) \/ d = c
<1>1. sent \in Seq(HostCalls) /\ sent' = Append(sent, c)
      BY DEF TypeHost, CallAssistant, HostCalls
<1> HIDE DEF HostCalls
<1> QED
    BY <1>1, Joining

\* It leaves, and it alone.
LEMMA HostDrops ==
    ASSUME TypeHost, NEW c, HostRequest(c)
    PROVE  \A d : /\ Holds(sent', d) => Holds(sent, d)
                  /\ Holds(sent, d) /\ d # c => Holds(sent', d)
<1>1. sent \in Seq(HostCalls) /\ sent' = Tail(sent) /\ sent # <<>> /\ Head(sent) = c
      BY DEF TypeHost, HostRequest, HostCalls
<1> HIDE DEF HostCalls
<1> QED
    BY <1>1, Staying

\* Every step keeps the host served.
LEMMA HostStep ==
    ASSUME IInv, HostServed, [Next]_vars
    PROVE  HostServed'
<1> USE DEF HostServed
<1>1. TypeHost /\ Handler
      BY DEF IInv, Sound, Order
<1>2. CASE CallCreate
      BY <1>1, <1>2, HostAdds DEF CallCreate, HostCalls
<1>3. CASE CallUpload
      BY <1>1, <1>3, HostAdds DEF CallUpload, UploadFrame, HostCalls
<1>4. CASE CallSetMirroring
      BY <1>1, <1>4, HostAdds DEF CallSetMirroring, HostCalls
<1>5. CASE CallDestroy
      BY <1>1, <1>5, HostAdds DEF CallDestroy, HostCalls
<1>6. CASE AllocateDevice
      BY <1>1, <1>6, HostDrops DEF AllocateDevice, HostRequest, Handler
<1>7. CASE BeginFrame
      BY <1>1, <1>7, HostDrops DEF BeginFrame, HostRequest, Handler
<1>8. CASE SetMirroring \/ DestroyDevice
      BY <1>1, <1>8, HostDrops DEF SetMirroring, DestroyDevice
<1>9. CASE FillDevice \/ NotifyClient \/ SendFrame \/ FrameError \/ Advance
      BY <1>9 DEF FillDevice, NotifyClient, SendFrame, FrameError, Advance
<1>10. CASE ReplyHost \/ AssistantCrash
      BY <1>10 DEF ReplyHost, AssistantCrash
<1>11. ASSUME NEW a \in Apps,
              Construct(a) \/ MainThread(a) \/ Close(a) \/ Die(a) \/ QueueThread(a) \/ AppHandler(a)
       PROVE  UNCHANGED <<op, host, ui, sent>>
      BY <1>11 DEF Construct, MainThread, AttachCallbacks, Initialize, InitializeDevice, Close, Die,
                   QueueThread, DeviceAdded, FrameReady, AppHandler, AddConnection,
                   RemoveConnection, GetDevice, Mirroring
<1>12. CASE UNCHANGED <<op, host, ui, sent>>
      BY <1>12
<1> QED
    BY <1>2, <1>3, <1>4, <1>5, <1>6, <1>7, <1>8, <1>9, <1>10, <1>11, <1>12
       DEF Next, HostHandler, vars

-----------------------------------------------------------------------------
(* The frames.                                                             *)

\* What has gone stays away.
LEMMA Away ==
    ASSUME IInv, [Next]_vars
    PROVE  \A b \in Apps : Departed(b) => Departed(b)'
<1>1. main \in [Apps -> MainStates]
      BY DEF IInv, Sound, TypeApps
<1>2. CASE CallCreate \/ CallUpload \/ CallSetMirroring \/ CallDestroy \/ UNCHANGED vars
      BY <1>2 DEF CallCreate, CallUpload, CallSetMirroring, CallDestroy, vars
<1>3. CASE HostHandler
      BY <1>3 DEF HostHandler, AllocateDevice, FillDevice, BeginFrame, SetMirroring, DestroyDevice,
                  NotifyClient, SendFrame, FrameError, Advance, ReplyHost
<1>4. CASE AssistantCrash
      BY <1>1, <1>4 DEF AssistantCrash
<1>5. ASSUME NEW a \in Apps, Construct(a) \/ MainThread(a) \/ Close(a) \/ Die(a)
      PROVE  \A b \in Apps : Departed(b) => Departed(b)'
      BY <1>1, <1>5 DEF Construct, MainThread, AttachCallbacks, Initialize, InitializeDevice,
                        Close, Die
<1>6. ASSUME NEW a \in Apps, QueueThread(a) \/ AppHandler(a)
      PROVE  \A b \in Apps : Departed(b) => Departed(b)'
      BY <1>1, <1>6 DEF QueueThread, DeviceAdded, FrameReady, AppHandler, AddConnection,
                        RemoveConnection, GetDevice, Mirroring, Resume
<1> QED
    BY <1>2, <1>3, <1>4, <1>5, <1>6 DEF Next

\* What an application has not handled stays in its queue.
LEMMA MessageDrops ==
    ASSUME TypeApps, NEW a \in Apps, NEW t, Message(a, t)
    PROVE  \A m : \A b \in Apps :
              (b # a \/ m # Head(inbox[a])) /\ Holds(inbox[b], m) => Holds(inbox'[b], m)
<1>1. /\ inbox \in [Apps -> Seq(Messages)] /\ inbox' = [inbox EXCEPT ![a] = Tail(inbox[a])]
      /\ inbox[a] # <<>>
      BY DEF TypeApps, Message
<1> HIDE DEF Messages
<1>2. \A m : m # Head(inbox[a]) /\ Holds(inbox[a], m) => Holds(Tail(inbox[a]), m)
      BY <1>1, Staying
<1> QED
    BY <1>1, <1>2

\* Every step keeps the frame where the assistant waits for it.
LEMMA FrameStep ==
    ASSUME IInv, FrameServed, [Next]_vars
    PROVE  FrameServed'
<1> USE DEF FrameServed
<1> DEFINE theFrame == [type |-> "FRAME", value |-> frame]
<1>1. /\ TypeHost /\ TypeApps /\ Handler /\ Requests
      /\ \A b \in Apps : Departed(b) => Departed(b)'
      BY Away DEF IInv, Sound, Order
<1>2. step = "await" => cursor \in Apps /\ op = "FRAME" /\ host = "uploading"
      BY <1>1 DEF TypeHost, Handler, Requests
<1>3. CASE CallUpload
      BY <1>2, <1>3 DEF CallUpload
<1>4. CASE SendFrame
  <2>1. cursor \in Apps /\ theFrame \in Messages
        BY <1>1, <1>4 DEF TypeHost, Messages, SendFrame
  <2>2. Send(cursor, theFrame)
        BY <1>4 DEF SendFrame
  <2>3. /\ DOMAIN inbox'[cursor] = DOMAIN inbox[cursor] \cup {Len(inbox[cursor]) + 1}
        /\ inbox'[cursor][Len(inbox[cursor]) + 1] = theFrame
        BY <1>1, <2>1, <2>2, Sending
  <2>4. Holds(inbox'[cursor], theFrame)
        BY <2>3 DEF Holds
  <2> QED
    BY <1>4, <2>4 DEF SendFrame
<1>5. CASE \/ AllocateDevice \/ FillDevice \/ BeginFrame \/ FrameError \/ Advance \/ ReplyHost
           \/ NotifyClient \/ AssistantCrash
      BY <1>5 DEF AllocateDevice, FillDevice, BeginFrame, FrameError, Advance, ReplyHost,
                  NotifyClient, AssistantCrash, BeginLoop, HostRequest
<1>6. ASSUME NEW a \in Apps, DeviceAdded(a)
      PROVE  FrameServed'
  <2>1. Head(inbox[a]).type = "CREATE_DEVICE" /\ UNCHANGED <<step, cursor, frame>>
        BY <1>6 DEF DeviceAdded, Message
  <2>2. theFrame # Head(inbox[a])
        BY <2>1
  <2>3. \A m : \A b \in Apps :
           (b # a \/ m # Head(inbox[a])) /\ Holds(inbox[b], m) => Holds(inbox'[b], m)
        BY <1>1, <1>6, MessageDrops DEF DeviceAdded
  <2> HIDE DEF theFrame
  <2>4. step = "await" /\ ~Departed(cursor) => Holds(inbox'[cursor], theFrame)
    <3>1. step = "await" /\ ~Departed(cursor) => Holds(inbox[cursor], theFrame)
          BY DEF theFrame
    <3> QED
      BY <1>2, <2>2, <2>3, <3>1
  <2>5. theFrame' = theFrame
        BY <2>1 DEF theFrame
  <2> QED
    BY <1>1, <1>2, <2>1, <2>4, <2>5 DEF theFrame
<1>7. ASSUME NEW a \in Apps, FrameReady(a)
      PROVE  FrameServed'
  <2>1. UNCHANGED <<cursor, frame>> /\ Message(a, "FRAME")
        BY <1>7 DEF FrameReady
  <2>2. step' = "await" => step = "await" /\ (cursor # a \/ Head(inbox[a]).value # frame)
        BY <1>7 DEF FrameReady
  <2>3. \A m : \A b \in Apps :
           (b # a \/ m # Head(inbox[a])) /\ Holds(inbox[b], m) => Holds(inbox'[b], m)
        BY <1>1, <2>1, MessageDrops
  <2>4. Head(inbox[a]).value # frame => theFrame # Head(inbox[a])
        OBVIOUS
  <2>5. step = "await" /\ ~Departed(cursor) => Holds(inbox[cursor], theFrame)
        OBVIOUS
  <2>6. theFrame' = theFrame
        BY <2>1
  <2> HIDE DEF theFrame
  <2>7. step' = "await" /\ ~Departed(cursor) => Holds(inbox'[cursor], theFrame)
        BY <1>2, <2>2, <2>3, <2>4, <2>5
  <2> QED
    BY <1>1, <1>2, <2>1, <2>2, <2>6, <2>7 DEF theFrame
<1>8. ASSUME step' = step, cursor' = cursor, frame' = frame, inbox' = inbox
      PROVE  FrameServed'
      BY <1>1, <1>2, <1>8
<1>9. CASE \/ CallCreate \/ CallSetMirroring \/ CallDestroy \/ SetMirroring \/ DestroyDevice
           \/ UNCHANGED vars
      BY <1>8, <1>9 DEF CallCreate, CallSetMirroring, CallDestroy, SetMirroring, DestroyDevice, vars
<1>10. ASSUME NEW a \in Apps, Construct(a) \/ MainThread(a) \/ Close(a) \/ Die(a) \/ AppHandler(a)
       PROVE  FrameServed'
      BY <1>8, <1>10 DEF Construct, MainThread, AttachCallbacks, Initialize, InitializeDevice,
                         Close, Die, AppHandler, AddConnection, RemoveConnection, GetDevice,
                         Mirroring
<1> QED
    BY <1>3, <1>4, <1>5, <1>6, <1>7, <1>9, <1>10 DEF Next, HostHandler, QueueThread

\* Nobody waits for an answer that is not coming, whoever crashes or leaves.
THEOREM WaitsAnswered == Spec => []WaitsServed
<1> DEFINE I == IInv /\ Threaded /\ HostServed /\ FrameServed
<1>1. Init => I
  <2> SUFFICES ASSUME Init PROVE Threaded /\ HostServed /\ FrameServed
      BY InitInv
  <2>1. \A d : ~Holds(<<>>, d)
        BY DEF Holds
  <2> QED
    BY <2>1 DEF Init, Threaded, Leavers, AppServed, HostServed, FrameServed
<1>2. I /\ [Next]_vars => I'
      BY NextPreserves, ThreadedStep, HostStep, FrameStep
<1>3. I => WaitsServed
      BY DEF Threaded, WaitsServed
<1> QED
    BY <1>1, <1>2, <1>3, PTL DEF Spec

\* What the host waits for goes on: the guard of a handler of its requests holds, or
\* that of the application the assistant waits for, or that of the request which
\* the queue of this application is blocked in, which no other queue holds up.
HostGoesOn ==
    \/ step = "idle" /\ sent # <<>>
    \/ step \in {"fill", "visit", "advance"}
    \/ /\ step = "await"
       /\ \/ Departed(cursor)
          \/ queue[cursor] = "idle" /\ inbox[cursor] # <<>>
          \/ queue[cursor] = "creating" /\ calls[cursor] # <<>>

AppGoesOn(a) == main[a] \in {"adding", "getting", "creating"} \/ queue[a] = "creating"
                  => calls[a] # <<>>

\* No circle of waiting closes between the output, the assistant and the
\* applications, in which createDevice asks back while the assistant waits for them.
THEOREM NoStandstill ==
    Spec => [](/\ host # "idle" \/ ui = "waiting" => HostGoesOn
               /\ \A a \in Apps : AppGoesOn(a))
<1>1. ASSUME IInv, WaitsServed, NEW a \in Apps PROVE AppGoesOn(a)
  <2>1. \A c : Holds(calls[a], c) => calls[a] # <<>>
        BY DEF Holds
  <2>2. AppServed(a)
        BY <1>1 DEF WaitsServed
  <2> QED
    BY <2>1, <2>2 DEF AppServed, AppGoesOn
<1>2. ASSUME IInv, WaitsServed, host # "idle" \/ ui = "waiting" PROVE HostGoesOn
  <2> USE <1>2
  <2>1. /\ TypeHost /\ TypeApps /\ Handler
        BY DEF IInv, Sound, Order
  <2>2. CASE step = "idle"
    <3>1. op = "none"
          BY <2>1, <2>2 DEF Handler
    <3>2. \E c \in {"CREATE_DEVICE", "FRAME", "SET_MIRRORING"} : Holds(sent, c)
          BY <2>1, <3>1 DEF WaitsServed, HostServed, TypeHost
    <3> QED
      BY <2>1, <2>2, <3>2 DEF Holds, TypeHost, HostGoesOn
  <2>3. CASE step = "await" /\ ~Departed(cursor)
    <3>1. cursor \in Apps
          BY <2>1, <2>3 DEF Handler, TypeHost
    <3>2. inbox[cursor] # <<>>
          BY <2>1, <2>3, <3>1 DEF WaitsServed, FrameServed, Holds, TypeApps
    <3>3. queue[cursor] \in {"idle", "creating"}
          BY <2>1, <3>1 DEF TypeApps
    <3> QED
      BY <1>1, <2>3, <3>1, <3>2, <3>3 DEF HostGoesOn, AppGoesOn
  <2> QED
    BY <2>1, <2>2, <2>3 DEF TypeHost, HostGoesOn
<1>3. IInv /\ WaitsServed =>
        /\ host # "idle" \/ ui = "waiting" => HostGoesOn
        /\ \A a \in Apps : AppGoesOn(a)
      BY <1>1, <1>2
<1> QED
    BY <1>3, Invariance, WaitsAnswered, PTL

\* The loop over m_clients goes forward: a client it has passed it does not come back
\* to for the same frame, unless the one it was at has been erased.
LoopForward ==
    [][op = "FRAME" /\ op' = "FRAME" /\ ~spoiled'["FRAME"]
         => \A a \in Apps : Passed(a) => Passed(a)']_vars

\* Nobody is asked twice for a frame, and with finitely many clients the loop ends.
THEOREM NobodyTwice == Spec => LoopForward
<1> DEFINE Forward == op = "FRAME" /\ op' = "FRAME" /\ ~spoiled'["FRAME"]
                        => \A a \in Apps : Passed(a) => Passed(a)'
<1>1. ASSUME IInv, [Next]_vars, op = "FRAME", op' = "FRAME", ~spoiled'["FRAME"],
             NEW a \in Apps, Passed(a)
      PROVE  Passed(a)'
  <2>1. TypeHost /\ Handler
        BY <1>1 DEF IInv, Sound, Order
  <2>2. CASE UNCHANGED cursor /\ (step = "advance" => step' = "advance")
        BY <1>1, <2>2 DEF Passed
  <2>3. CASE Advance
    <3>1. cursor \in clients /\ cursor' = Lowest({b \in clients : b > cursor})
          BY <1>1, <2>1, <2>3 DEF Advance, Handler
    <3>2. a <= cursor
          BY <1>1, <2>1, <2>3, <3>1 DEF Passed, TypeHost
    <3>3. cursor' = End \/ (cursor' \in clients /\ cursor' > cursor)
          BY <2>1, <3>1, First DEF TypeHost
    <3>4. clients \subseteq Nat /\ a \in Nat
          BY <2>1 DEF TypeHost
    <3>5. cursor \in clients
          BY <3>1
    <3>6. \A i, j, k \in Nat : i <= j /\ j < k => i < k
          OBVIOUS
    <3>7. cursor' = End \/ a < cursor'
          BY <3>2, <3>3, <3>4, <3>5, <3>6
    <3> QED
      BY <3>7 DEF Passed
  <2>4. CASE UNCHANGED vars \/ CallCreate \/ CallUpload \/ CallSetMirroring \/ CallDestroy
        BY <2>2, <2>4 DEF vars, CallCreate, CallUpload, CallSetMirroring, CallDestroy
  <2>5. CASE HostHandler /\ ~Advance
    <3>1. UNCHANGED cursor /\ (step = "advance" => step' = "advance")
          BY <1>1, <2>1, <2>5 DEF HostHandler, AllocateDevice, FillDevice, BeginFrame,
             SetMirroring, DestroyDevice, NotifyClient, SendFrame, FrameError, ReplyHost,
             HostRequest, Handler
    <3> QED
      BY <2>2, <3>1
  <2>6. CASE AssistantCrash
        BY <1>1, <2>6 DEF AssistantCrash
  <2>7. ASSUME NEW b \in Apps,
               Construct(b) \/ MainThread(b) \/ Close(b) \/ Die(b) \/ AppHandler(b) \/ QueueThread(b)
        PROVE  UNCHANGED cursor /\ (step = "advance" => step' = "advance")
        BY <2>7 DEF Construct, MainThread, AttachCallbacks, Initialize, InitializeDevice, Close, Die,
           AppHandler, AddConnection, RemoveConnection, GetDevice, Mirroring, QueueThread,
           DeviceAdded, FrameReady
  <2> QED
    BY <1>1, <2>2, <2>3, <2>4, <2>5, <2>6, <2>7 DEF Next
<1>2. IInv /\ [Next]_vars => [Forward]_vars
      BY <1>1
<1> QED
    BY <1>2, Invariance, PTL DEF Spec, LoopForward

-----------------------------------------------------------------------------
(* The order of the frames.                                                *)

\* A step that leaves the queue of an application and what it was given alone keeps
\* them in order.
LEMMA OrderKept ==
    ASSUME NEW a \in Apps, OrderOf(a), Departed(a) => Departed(a)',
           inbox'[a] = inbox[a], seen'[a] = seen[a],
           seen[a] \in Nat, frame \in Nat, frame' \in Nat, frame <= frame',
           \A i \in DOMAIN inbox[a] : inbox[a][i] \in Messages
    PROVE  OrderOf(a)'
<1>1. \A m \in Messages : m.value \in Nat
      BY DEF Messages
<1>2. seen'[a] <= frame'
      BY DEF OrderOf
<1>3. ASSUME ~Departed(a), NEW i \in DOMAIN inbox[a], inbox[a][i].type = "FRAME"
      PROVE  /\ seen[a] <= inbox[a][i].value /\ inbox[a][i].value <= frame'
             /\ \A j \in DOMAIN inbox[a] : inbox[a][j].type = "FRAME" => i = j
      BY <1>1, <1>3 DEF OrderOf
<1> QED
    BY <1>2, <1>3 DEF OrderOf

\* A handler of the host's requests sends a frame when no other is on its way there.
LEMMA HostOrdered ==
    ASSUME IInv, Leavers, Ordered, HostHandler
    PROVE  Ordered'
<1>1. /\ TypeHost /\ TypeApps /\ Handler /\ Awaited
      /\ frame' = frame /\ frame \in Nat /\ seen' = seen /\ seen \in [Apps -> Nat] /\ main' = main
      BY DEF IInv, Sound, Order, Delivery, TypeHost, TypeApps, HostHandler, AllocateDevice, FillDevice,
             BeginFrame, SetMirroring, DestroyDevice, NotifyClient, SendFrame, FrameError,
             Advance, ReplyHost
<1>2. \A b \in Apps : \A i \in DOMAIN inbox[b] : inbox[b][i] \in Messages
  <2>1. inbox \in [Apps -> Seq(Messages)]
        BY <1>1 DEF TypeApps
  <2> HIDE DEF Messages
  <2> QED
    BY <2>1, ElementOfSeq
<1>3. ASSUME NEW b \in Apps, inbox'[b] = inbox[b] PROVE OrderOf(b)'
  <2>1. OrderOf(b) /\ seen'[b] = seen[b] /\ seen[b] \in Nat
        BY <1>1 DEF Ordered
  <2>2. Departed(b) => Departed(b)'
        BY <1>1 DEF Departed
  <2>3. frame' \in Nat /\ frame <= frame'
        BY <1>1
  <2> QED
    BY <1>1, <1>2, <1>3, <2>1, <2>2, <2>3, OrderKept
<1>4. CASE NotifyClient \/ SendFrame
  <2> DEFINE m == [type |-> IF SendFrame THEN "FRAME" ELSE "CREATE_DEVICE",
                   value |-> IF SendFrame THEN frame ELSE device]
  <2>1. cursor \in Apps /\ m \in Messages /\ Send(cursor, m) /\ step = "visit"
        BY <1>1, <1>4 DEF TypeHost, Messages, SendFrame, NotifyClient
  <2> HIDE DEF m
  <2>2. /\ \A b \in Apps : b # cursor => inbox'[b] = inbox[b]
        /\ DOMAIN inbox'[cursor] = DOMAIN inbox[cursor] \cup {Len(inbox[cursor]) + 1}
        /\ inbox'[cursor][Len(inbox[cursor]) + 1] = m
        /\ \A i \in DOMAIN inbox[cursor] : inbox'[cursor][i] = inbox[cursor][i]
        BY <1>1, <2>1, Sending
  <2>3. m.type = "FRAME" => m.value = frame
        BY DEF m
  <2>4. OrderOf(cursor)
        BY <2>1 DEF Ordered
  <2>5. ASSUME ~Departed(cursor)
        PROVE  \A i \in DOMAIN inbox[cursor] : inbox[cursor][i].type # "FRAME"
        BY <1>1, <2>1, <2>5 DEF Leavers, Awaited
  <2>6. seen[cursor] \in Nat /\ seen[cursor] <= frame
        BY <1>1, <2>1, <2>4 DEF OrderOf
  <2>7. ASSUME ~Departed(cursor), NEW i \in DOMAIN inbox'[cursor],
               inbox'[cursor][i].type = "FRAME"
        PROVE  i = Len(inbox[cursor]) + 1 /\ inbox'[cursor][i].value = frame
        BY <2>2, <2>3, <2>5, <2>7
  <2>8. ASSUME NEW b \in Apps, b = cursor PROVE OrderOf(b)'
        BY <1>1, <2>6, <2>7, <2>8 DEF OrderOf
  <2> QED
    BY <1>3, <2>2, <2>8 DEF Ordered
<1>5. CASE FrameError
  <2>1. cursor \in Apps /\ inbox'[cursor] = <<>> /\ \A b \in Apps : b # cursor => inbox'[b] = inbox[b]
        BY <1>1, <1>5 DEF Handler, TypeHost, TypeApps, FrameError
  <2>2. ASSUME NEW b \in Apps, b = cursor PROVE OrderOf(b)'
        BY <1>1, <2>1, <2>2 DEF Ordered, OrderOf
  <2> QED
    BY <1>3, <2>1, <2>2 DEF Ordered
<1>6. CASE UNCHANGED inbox
      BY <1>3, <1>6 DEF Ordered
<1> QED
    BY <1>4, <1>5, <1>6 DEF HostHandler, AllocateDevice, FillDevice, BeginFrame, SetMirroring,
                            DestroyDevice, Advance, ReplyHost

\* The queue of an application takes what it was sent in turn.
LEMMA QueueOrdered ==
    ASSUME IInv, Ordered, NEW a \in Apps, QueueThread(a)
    PROVE  Ordered'
<1>1. /\ TypeHost /\ TypeApps
      /\ frame' = frame /\ frame \in Nat /\ seen \in [Apps -> Nat] /\ main' = main
      BY DEF IInv, Sound, TypeHost, TypeApps, QueueThread, DeviceAdded, FrameReady
<1>2. \A b \in Apps : \A i \in DOMAIN inbox[b] : inbox[b][i] \in Messages
  <2>1. inbox \in [Apps -> Seq(Messages)]
        BY <1>1 DEF TypeApps
  <2> HIDE DEF Messages
  <2> QED
    BY <2>1, ElementOfSeq
<1>3. ASSUME NEW t, Message(a, t)
      PROVE  /\ \A b \in Apps : b # a => inbox'[b] = inbox[b]
             /\ 1 \in DOMAIN inbox[a] /\ Head(inbox[a]) = inbox[a][1] /\ inbox[a][1].type = t
             /\ inbox[a][1] \in Messages /\ ~Departed(a)
             /\ \A i \in DOMAIN inbox'[a] : /\ i \in Nat \ {0} /\ i + 1 \in DOMAIN inbox[a]
                                            /\ inbox'[a][i] = inbox[a][i + 1]
      BY <1>1, <1>3, Receiving DEF Message
<1>4. OrderOf(a) /\ seen[a] \in Nat
      BY <1>1 DEF Ordered
<1>5. \A i, j \in Nat \ {0} : i + 1 = j + 1 => i = j
      OBVIOUS
<1>6. \A i \in Nat \ {0} : i + 1 # 1
      OBVIOUS
<1>7. CASE DeviceAdded(a)
  <2>1. seen' = seen /\ Message(a, "CREATE_DEVICE")
        BY <1>7 DEF DeviceAdded
  <2>2. OrderOf(a)'
        BY <1>1, <1>3, <1>4, <1>5, <2>1 DEF OrderOf
  <2>3. ASSUME NEW b \in Apps, b # a PROVE OrderOf(b)'
        BY <1>1, <1>2, <1>3, <2>1, <2>3, OrderKept DEF Ordered
  <2> QED
    BY <2>2, <2>3 DEF Ordered
<1>8. CASE FrameReady(a)
  <2>1. /\ Message(a, "FRAME")
        /\ seen' = seen \/ seen' = [seen EXCEPT ![a] = Head(inbox[a]).value]
        BY <1>8 DEF FrameReady
  <2>2. /\ \A b \in Apps : b # a => seen'[b] = seen[b]
        /\ seen'[a] = seen[a] \/ seen'[a] = inbox[a][1].value
        BY <1>1, <1>3, <2>1
  <2>3. \A i \in DOMAIN inbox'[a] : inbox'[a][i].type # "FRAME"
        BY <1>3, <1>4, <1>6, <2>1 DEF OrderOf
  <2>4. seen'[a] <= frame
        BY <1>3, <1>4, <2>1, <2>2 DEF OrderOf
  <2>5. OrderOf(a)'
        BY <1>1, <2>3, <2>4 DEF OrderOf
  <2>6. ASSUME NEW b \in Apps, b # a PROVE OrderOf(b)'
        BY <1>1, <1>2, <1>3, <2>1, <2>2, <2>6, OrderKept DEF Ordered
  <2> QED
    BY <2>5, <2>6 DEF Ordered
<1> QED
    BY <1>7, <1>8 DEF QueueThread

\* Every step keeps the frames in order.
LEMMA OrderedStep ==
    ASSUME IInv, Leavers, Ordered, [Next]_vars
    PROVE  Ordered'
<1>1. /\ frame \in Nat /\ seen \in [Apps -> Nat] /\ inbox \in [Apps -> Seq(Messages)]
      /\ \A b \in Apps : Departed(b) => Departed(b)'
      BY Away DEF IInv, Sound, TypeHost, TypeApps
<1>2. \A b \in Apps : \A i \in DOMAIN inbox[b] : inbox[b][i] \in Messages
  <2> HIDE DEF Messages
  <2> QED
    BY <1>1, ElementOfSeq
<1>3. ASSUME UNCHANGED <<inbox, seen>>, frame' \in Nat, frame <= frame'
      PROVE  Ordered'
      BY <1>1, <1>2, <1>3, OrderKept DEF Ordered
<1>4. CASE \/ CallCreate \/ CallUpload \/ CallSetMirroring \/ CallDestroy \/ AssistantCrash
           \/ UNCHANGED vars
      BY <1>1, <1>3, <1>4 DEF CallCreate, CallUpload, CallSetMirroring, CallDestroy,
                              AssistantCrash, vars
<1>5. ASSUME NEW a \in Apps, Construct(a) \/ MainThread(a) \/ Close(a) \/ Die(a) \/ AppHandler(a)
      PROVE  Ordered'
  <2>1. UNCHANGED <<inbox, seen, frame>>
        BY <1>5 DEF Construct, MainThread, AttachCallbacks, Initialize, InitializeDevice, Close, Die,
                    AppHandler, AddConnection, RemoveConnection, GetDevice, Mirroring
  <2> QED
    BY <1>1, <1>3, <2>1
<1>6. CASE HostHandler
      BY <1>6, HostOrdered
<1>7. ASSUME NEW a \in Apps, QueueThread(a)
      PROVE  Ordered'
      BY <1>7, QueueOrdered
<1> QED
    BY <1>4, <1>5, <1>6, <1>7 DEF Next

\* The whole invariant.
LEMMA RefinementInvariance == Spec => [](RInv /\ Threaded)
<1>1. Init => RInv /\ Threaded
  <2> SUFFICES ASSUME Init PROVE Threaded /\ Ordered
      BY InitInv DEF RInv, Threaded
  <2>1. \A d : ~Holds(<<>>, d)
        BY DEF Holds
  <2> QED
    BY <2>1 DEF Init, Threaded, Leavers, AppServed, Ordered, OrderOf
<1>2. RInv /\ Threaded /\ [Next]_vars => (RInv /\ Threaded)'
      BY NextPreserves, ThreadedStep, OrderedStep DEF RInv, Threaded
<1> QED
    BY <1>1, <1>2, PTL DEF Spec

-----------------------------------------------------------------------------
(* The relay is a broadcast.                                               *)

\* Callbacks are attached by one action, and end with their application.
LEMMA SameListeners ==
    ASSUME IInv,
           \/ CallCreate \/ CallUpload \/ CallSetMirroring \/ CallDestroy \/ UNCHANGED vars
           \/ HostHandler \/ AssistantCrash
           \/ \E a \in Apps : \/ Construct(a) \/ Initialize(a) \/ InitializeDevice(a)
                             \/ QueueThread(a) \/ AppHandler(a)
    PROVE  Listeners' = Listeners
<1>1. main \in [Apps -> MainStates]
      BY DEF IInv, Sound, TypeApps
<1>2. ASSUME main' = main PROVE Listeners' = Listeners
      BY <1>2 DEF Listeners, Attached
<1>3. CASE CallCreate \/ CallUpload \/ CallSetMirroring \/ CallDestroy \/ UNCHANGED vars
      BY <1>2, <1>3 DEF CallCreate, CallUpload, CallSetMirroring, CallDestroy, vars
<1>4. CASE HostHandler
      BY <1>2, <1>4 DEF HostHandler, AllocateDevice, FillDevice, BeginFrame, SetMirroring,
                        DestroyDevice, NotifyClient, SendFrame, FrameError, Advance, ReplyHost
<1>5. CASE AssistantCrash
      BY <1>1, <1>5 DEF AssistantCrash, Listeners, Attached
<1>6. ASSUME NEW a \in Apps, Construct(a) \/ Initialize(a) \/ InitializeDevice(a)
      PROVE  Listeners' = Listeners
      BY <1>1, <1>6 DEF Construct, Initialize, InitializeDevice, Listeners, Attached
<1>7. ASSUME NEW a \in Apps, QueueThread(a) \/ AppHandler(a)
      PROVE  Listeners' = Listeners
      BY <1>1, <1>7 DEF QueueThread, DeviceAdded, FrameReady, AppHandler, AddConnection,
                        RemoveConnection, GetDevice, Mirroring, Resume, Listeners, Attached
<1> QED
    BY <1>3, <1>4, <1>5, <1>6, <1>7

\* A step that is none of the relay's.
LEMMA Stutter ==
    ASSUME UNCHANGED <<clients, frame, seen, answer, op, step, cursor, ok, stable, spoiled, host>>,
           Listeners' = Listeners
    PROVE  UNCHANGED BroadcastOfRelay!vars
BY DEF BroadcastOfRelay!vars, BroadcastOfRelay!relayVars, Phase, Turn, Outstanding, Unrefused,
       Displaced, Relaying, Passed

\* Nor is one while the host creates the device or waits for nothing.
LEMMA NotRelaying ==
    ASSUME UNCHANGED <<clients, frame, seen, answer>>, Listeners' = Listeners,
           op # "FRAME", op' # "FRAME",
           host # "uploading", host' # "uploading"
    PROVE  UNCHANGED BroadcastOfRelay!vars
BY DEF BroadcastOfRelay!vars, BroadcastOfRelay!relayVars, Phase, Turn, Outstanding, Unrefused,
       Displaced, Relaying

\* The application that has answered is asked no more.
LEMMA AskedOnce ==
    ASSUME TypeHost, step = "await", step' = "advance", UNCHANGED <<op, cursor, stable, spoiled>>
    PROVE  Outstanding' = Outstanding \ {cursor}
<1>1. \A a \in stable : Passed(a)' <=> Passed(a) \/ a = cursor
      BY DEF Passed
<1> HIDE DEF Passed
<1> QED
    BY <1>1 DEF Outstanding, Displaced, Relaying

\* The calls of the host.
LEMMA HostCallsRefine ==
    ASSUME IInv, CallCreate \/ CallUpload \/ CallSetMirroring \/ CallDestroy
    PROVE  [BroadcastOfRelay!Next]_(BroadcastOfRelay!vars)
<1>1. Handler /\ Requests /\ Listeners' = Listeners
      BY SameListeners DEF IInv, Sound, Order
<1>2. CASE CallCreate
      BY <1>1, <1>2, NotRelaying DEF CallCreate, Requests
<1>3. CASE CallUpload
  <2>1. op # "FRAME" /\ op' = op
        BY <1>1, <1>3 DEF CallUpload, Requests
  <2>2. BroadcastOfRelay!Upload
        BY <1>1, <1>3, <2>1 DEF CallUpload, UploadFrame, BroadcastOfRelay!Upload, Phase, Turn,
                          Outstanding, Unrefused, Displaced, Relaying
  <2> QED
    BY <2>2 DEF BroadcastOfRelay!Next
<1>4. CASE CallSetMirroring \/ CallDestroy
      BY <1>1, <1>4, Stutter DEF CallSetMirroring, CallDestroy
<1> QED
    BY <1>2, <1>3, <1>4

\* The beginning of the loop over m_clients.
LEMMA BeginRefines ==
    ASSUME IInv, BeginFrame
    PROVE  BroadcastOfRelay!Begin
<1>1. TypeHost /\ Handler /\ Requests /\ Listeners' = Listeners
      BY SameListeners DEF IInv, Sound, Order, HostHandler
<1>2. op = "none" /\ host = "uploading"
      BY <1>1, HostHandling DEF BeginFrame, HostRequest, Handler, Requests
<1>3. /\ cursor' = Lowest(clients) /\ step' = "visit" /\ ok' = TRUE
      /\ stable' = clients \cap Listeners
      /\ spoiled'["FRAME"] = FALSE /\ op' = "FRAME"
      /\ UNCHANGED <<clients, frame, seen, answer>>
      BY <1>1 DEF BeginFrame, BeginLoop, TypeHost, Listeners
<1>4. cursor' \in clients \cup {End} /\ \A a \in stable' : ~Passed(a)'
  <2>1. clients \subseteq Apps
        BY <1>1 DEF TypeHost
  <2>2. \A a \in clients : cursor' \in clients /\ cursor' <= a
        BY <1>3, <2>1, First
  <2>3. cursor' \in clients \cup {End}
        BY <1>3, <2>1, First
  <2>4. ASSUME NEW a \in clients PROVE ~Passed(a)'
    <3>1. a \in Nat /\ cursor' \in Nat \ {0} /\ cursor' <= a
          BY <2>1, <2>2
    <3> QED
      BY <1>3, <3>1 DEF Passed
  <2> QED
    BY <1>3, <2>3, <2>4
<1>5. Outstanding' = clients \cap Listeners
      BY <1>3, <1>4 DEF Outstanding, Displaced, Relaying
<1> QED
    BY <1>1, <1>2, <1>3, <1>4, <1>5
       DEF BroadcastOfRelay!Begin, Phase, Turn, Unrefused, Displaced, Relaying

\* Going on to the next client.
LEMMA AdvanceRefines ==
    ASSUME IInv, Advance, op = "FRAME"
    PROVE  BroadcastOfRelay!Proceed
<1>1. TypeHost /\ Handler /\ cursor # End /\ Listeners' = Listeners
      BY SameListeners DEF IInv, Sound, Order, Handler, Advance, HostHandler
<1>2. clients \subseteq Apps /\ stable \subseteq clients /\ cursor \in Apps
      BY <1>1 DEF TypeHost, Handler
<1>3. cursor' \in clients \cup {End}
  <2>1. Lowest({a \in clients : a > cursor}) \in clients \cup {End}
        BY <1>2, First
  <2> QED
    BY <2>1 DEF Advance
<1>4. cursor \notin Outstanding
      BY DEF Outstanding, Passed, Advance
<1>5. Outstanding' = Outstanding
  <2>1. CASE Displaced
        BY <2>1 DEF Outstanding, Displaced, Relaying, Advance
  <2>2. CASE ~Displaced
    <3>1. cursor \in clients /\ cursor' = Lowest({a \in clients : a > cursor})
          BY <1>1, <2>2 DEF Displaced, Relaying, Handler, Advance
    <3>2. cursor' = End \/ cursor' > cursor
          BY <1>2, <3>1, First
    <3>3. \A a \in clients : a > cursor => cursor' # End /\ cursor' <= a
      <4> SUFFICES ASSUME NEW a \in clients, a > cursor PROVE cursor' # End /\ cursor' <= a
          OBVIOUS
      <4>1. a \in {b \in clients : b > cursor} /\ {b \in clients : b > cursor} \subseteq Apps
            BY <1>2
      <4>2. /\ Lowest({b \in clients : b > cursor}) \in {b \in clients : b > cursor}
            /\ Lowest({b \in clients : b > cursor}) <= a
            BY <4>1, First
      <4> QED
        BY <1>2, <3>1, <4>2
    <3>4. ASSUME NEW a \in stable PROVE Passed(a)' <=> Passed(a)
      <4>1. a \in Nat /\ cursor \in Nat /\ cursor' \in Nat /\ step = "advance" /\ step' = "visit"
            BY <1>2, <1>3 DEF Advance
      <4>2. a > cursor => cursor' # End /\ cursor' <= a
            BY <1>2, <3>3
      <4> QED
        BY <1>1, <3>2, <4>1, <4>2 DEF Passed
    <3> QED
      BY <3>4 DEF Outstanding, Displaced, Relaying, Advance
  <2> QED
    BY <2>1, <2>2
<1> QED
    BY <1>1, <1>3, <1>4, <1>5 DEF BroadcastOfRelay!Proceed, Advance, Phase, Turn, Unrefused,
                                  Displaced, Relaying

\* The handlers of the host's requests.
LEMMA HostRefines ==
    ASSUME IInv, HostHandler
    PROVE  [BroadcastOfRelay!Next]_(BroadcastOfRelay!vars)
<1>1. TypeHost /\ Handler /\ Requests /\ Listeners' = Listeners
      BY SameListeners DEF IInv, Sound, Order
<1>2. CASE AllocateDevice
  <2>1. op = "none" /\ host = "creating"
        BY <1>1, <1>2, HostHandling DEF AllocateDevice, HostRequest, Handler, Requests
  <2> QED
    BY <1>1, <1>2, <2>1, NotRelaying DEF AllocateDevice
<1>3. CASE FillDevice \/ NotifyClient
  <2>1. op = "CREATE_DEVICE" /\ host = "creating"
        BY <1>1, <1>3 DEF FillDevice, NotifyClient, Handler, Requests
  <2> QED
    BY <1>1, <1>3, <2>1, NotRelaying DEF FillDevice, NotifyClient, BeginLoop
<1>4. CASE BeginFrame
      BY <1>4, BeginRefines DEF BroadcastOfRelay!Next
<1>5. CASE SetMirroring \/ DestroyDevice
      BY <1>1, <1>5, Stutter DEF SetMirroring, DestroyDevice
<1>6. CASE SendFrame
      BY <1>1, <1>6 DEF SendFrame, BroadcastOfRelay!vars, BroadcastOfRelay!relayVars, Phase, Turn,
                  Outstanding, Unrefused, Displaced, Relaying, Passed
<1>7. CASE FrameError
  <2>1. op = "FRAME" /\ cursor # End /\ ok' = FALSE
        BY <1>1, <1>7 DEF FrameError, Handler, Combine
  <2>2. Outstanding' = Outstanding \ {cursor}
        BY <1>1, <1>7, AskedOnce DEF FrameError
  <2>3. BroadcastOfRelay!Refuse
        BY <1>1, <1>7, <2>1, <2>2 DEF FrameError, BroadcastOfRelay!Refuse, Phase, Turn, Unrefused,
                                Displaced, Relaying
  <2> QED
    BY <2>3 DEF BroadcastOfRelay!Next
<1>8. CASE Advance
  <2>1. CASE op = "FRAME"
        BY <1>8, <2>1, AdvanceRefines DEF BroadcastOfRelay!Next
  <2>2. CASE op # "FRAME"
    <3>1. host = "creating"
          BY <1>1, <1>8, <2>2 DEF Advance, TypeHost, Handler, Requests
    <3> QED
      BY <1>1, <1>8, <2>2, <3>1, NotRelaying DEF Advance
  <2> QED
    BY <2>1, <2>2
<1>9. CASE ReplyHost
  <2>1. CASE op = "FRAME"
    <3>1. Outstanding = {} /\ Outstanding' = {}
          BY <1>9, <2>1 DEF ReplyHost, Outstanding, Passed, Relaying
    <3>2. BroadcastOfRelay!Answer
          BY <1>1, <1>9, <2>1, <3>1 DEF ReplyHost, BroadcastOfRelay!Answer, Phase, Turn, Unrefused,
                                  Displaced, Relaying
    <3> QED
      BY <3>2 DEF BroadcastOfRelay!Next
  <2>2. CASE op # "FRAME"
    <3>1. host = "creating"
          BY <1>1, <1>9, <2>2 DEF ReplyHost, TypeHost, Handler, Requests
    <3> QED
      BY <1>1, <1>9, <2>2, <3>1, NotRelaying DEF ReplyHost
  <2> QED
    BY <2>1, <2>2
<1> QED
    BY <1>2, <1>3, <1>4, <1>5, <1>6, <1>7, <1>8, <1>9 DEF HostHandler

\* The answer of an application, and a frame that arrives late.
LEMMA FrameReadyRefines ==
    ASSUME RInv, NEW a \in Apps, FrameReady(a)
    PROVE  [BroadcastOfRelay!Next]_(BroadcastOfRelay!vars)
<1>1. /\ TypeHost /\ TypeApps /\ Handler /\ Awaited /\ OrderOf(a)
      /\ Listeners' = Listeners
      BY SameListeners DEF RInv, IInv, Sound, Order, Delivery, Ordered, QueueThread
<1>2. /\ Message(a, "FRAME") /\ ~Departed(a)
      /\ UNCHANGED <<clients, frame, answer, host, op, cursor, stable, spoiled>>
      BY DEF FrameReady, Message
<1>3. /\ 1 \in DOMAIN inbox[a] /\ Head(inbox[a]) = inbox[a][1] /\ inbox[a][1].type = "FRAME"
      /\ inbox[a][1] \in Messages
      BY <1>1, <1>2, Receiving
<1> DEFINE n == Head(inbox[a]).value
<1>4. n \in Nat /\ n \in seen[a] .. frame
  <2>1. n \in Nat /\ seen[a] \in Nat /\ frame \in Nat
        BY <1>1, <1>3 DEF Messages, TypeApps, TypeHost
  <2>2. seen[a] <= n /\ n <= frame
        BY <1>1, <1>2, <1>3 DEF OrderOf
  <2> QED
    BY <2>1, <2>2
<1>5. PICK surface \in BOOLEAN :
          /\ seen' = IF surface /\ Attached(a) THEN [seen EXCEPT ![a] = n] ELSE seen
          /\ IF step = "await" /\ cursor = a /\ n = frame
             THEN step' = "advance" /\ ok' = (ok /\ surface)
             ELSE UNCHANGED <<step, ok>>
      BY DEF FrameReady, Combine
<1> HIDE DEF n
<1>6. CASE step = "await" /\ cursor = a /\ n = frame
  <2>1. op = "FRAME" /\ a # End
        BY <1>1, <1>6 DEF Handler
  <2>2. a \in clients
        BY <1>2, <1>6 DEF RInv, Leavers
  <2>3. Outstanding' = Outstanding \ {a}
        BY <1>1, <1>2, <1>5, <1>6, AskedOnce
  <2>4. CASE surface /\ Attached(a)
    <3>1. ok' = ok /\ a \in Listeners
          BY <1>1, <1>5, <1>6, <2>4 DEF TypeHost, Listeners
    <3>2. seen' = [seen EXCEPT ![a] = frame]
          BY <1>5, <1>6, <2>4
    <3>3. BroadcastOfRelay!Take(a)
          BY <1>1, <1>2, <1>6, <2>1, <2>2, <2>3, <3>1, <3>2
             DEF BroadcastOfRelay!Take, Phase, Turn, Unrefused, Displaced, Relaying
    <3> QED
      BY <3>3 DEF BroadcastOfRelay!Next
  <2>5. CASE ~surface
    <3>1. BroadcastOfRelay!Refuse
          BY <1>1, <1>2, <1>5, <1>6, <2>1, <2>3, <2>5
             DEF BroadcastOfRelay!Refuse, Phase, Turn, Unrefused, Displaced, Relaying
    <3> QED
      BY <3>1 DEF BroadcastOfRelay!Next
  <2>6. CASE surface /\ ~Attached(a)
    <3>1. a \notin Outstanding
          BY <1>2, <2>6 DEF RInv, IInv, Listening, Outstanding
    <3>2. ok' = ok /\ seen' = seen
          BY <1>1, <1>5, <1>6, <2>6 DEF TypeHost
    <3>3. UNCHANGED <<Phase, Turn, Outstanding, Unrefused, Displaced>>
          BY <1>2, <2>3, <3>1, <3>2 DEF Phase, Turn, Unrefused, Displaced, Relaying
    <3> QED
      BY <1>1, <1>2, <3>2, <3>3 DEF BroadcastOfRelay!vars, BroadcastOfRelay!relayVars
  <2> QED
    BY <2>4, <2>5, <2>6
<1>7. CASE ~(step = "await" /\ cursor = a /\ n = frame)
  <2>1. UNCHANGED <<step, ok>>
        BY <1>5, <1>7
  <2>2. CASE surface /\ Attached(a)
    <3>1. a \in Listeners \ clients
          BY <1>1, <1>3, <1>7, <2>2 DEF Awaited, n, Listeners
    <3>2. UNCHANGED <<Phase, Turn, Outstanding, Unrefused, Displaced>>
          BY <1>2, <2>1 DEF Phase, Turn, Outstanding, Unrefused, Displaced, Relaying, Passed
    <3>3. BroadcastOfRelay!Late(a)
          BY <1>1, <1>2, <1>4, <1>5, <2>2, <3>1, <3>2
             DEF BroadcastOfRelay!Late, BroadcastOfRelay!relayVars
    <3> QED
      BY <3>3 DEF BroadcastOfRelay!Next
  <2>3. CASE ~(surface /\ Attached(a))
        BY <1>1, <1>2, <1>5, <2>1, <2>3, Stutter
  <2> QED
    BY <2>2, <2>3
<1> QED
    BY <1>6, <1>7

\* Who comes and goes.
LEMMA MembersRefine ==
    ASSUME IInv, NEW a \in Apps, AppHandler(a)
    PROVE  [BroadcastOfRelay!Next]_(BroadcastOfRelay!vars)
<1>0. Listeners' = Listeners
      BY SameListeners
<1>1. CASE AddConnection(a)
  <2>1. BroadcastOfRelay!Join(a)
        BY <1>0, <1>1 DEF AddConnection, BroadcastOfRelay!Join, BroadcastOfRelay!relayVars, Phase, Turn,
                    Outstanding, Unrefused, Displaced, Relaying, Passed
  <2> QED
    BY <2>1 DEF BroadcastOfRelay!Next
<1>2. CASE RemoveConnection(a)
  <2>1. TypeHost /\ a # End
        BY DEF IInv, Sound
  <2>2. Displaced' <=> Displaced \/ Turn = a
        BY <1>2, <2>1 DEF RemoveConnection, TypeHost, Displaced, Turn, Relaying
  <2>3. Outstanding' = IF Displaced' THEN {} ELSE Outstanding \ {a}
    <3>1. CASE Displaced'
          BY <3>1 DEF Outstanding
    <3>2. CASE ~Displaced'
      <4>1. ~Displaced /\ UNCHANGED <<op, step, cursor>> /\ stable' = stable \ {a}
            BY <1>2, <2>2, <3>2 DEF RemoveConnection
      <4>2. \A b : Passed(b)' <=> Passed(b)
            BY <4>1 DEF Passed
      <4> QED
        BY <3>2, <4>1, <4>2 DEF Outstanding, Relaying
    <3> QED
      BY <3>1, <3>2
  <2>4. /\ clients' = clients \ {a}
        /\ UNCHANGED <<frame, Phase, Turn, Unrefused, answer, seen>>
        BY <1>2 DEF RemoveConnection, Phase, Turn, Unrefused, Relaying
  <2>5. BroadcastOfRelay!Leave(a)
        BY <1>0, <2>2, <2>3, <2>4 DEF BroadcastOfRelay!Leave, Displaced, Relaying
  <2> QED
    BY <2>5 DEF BroadcastOfRelay!Next
<1>3. CASE GetDevice(a) \/ Mirroring(a)
      BY <1>0, <1>3, Stutter DEF GetDevice, Mirroring
<1> QED
    BY <1>1, <1>2, <1>3 DEF AppHandler

\* The crash of the assistant.
LEMMA CrashRefines ==
    ASSUME IInv, AssistantCrash
    PROVE  BroadcastOfRelay!Fail
<1>1. (Phase = "idle" <=> host # "uploading") /\ Listeners' = Listeners
      BY SameListeners DEF IInv, Sound, Order, Requests, Phase, Relaying
<1> QED
    BY <1>1 DEF AssistantCrash, BroadcastOfRelay!Fail, Phase, Turn, Outstanding, Unrefused,
                Displaced, Relaying

\* Who begins to listen, and who ends.
LEMMA ListenRefines ==
    ASSUME IInv, NEW a \in Apps, AttachCallbacks(a) \/ Close(a) \/ Die(a)
    PROVE  [BroadcastOfRelay!Next]_(BroadcastOfRelay!vars)
<1>1. main \in [Apps -> MainStates]
      BY DEF IInv, Sound, TypeApps
<1>2. UNCHANGED <<clients, frame, seen, answer, op, step, cursor, ok, stable, spoiled, host>>
      BY DEF AttachCallbacks, Close, Die
<1>3. /\ UNCHANGED <<clients, frame, answer, seen>>
      /\ UNCHANGED <<Phase, Turn, Outstanding, Unrefused, Displaced>>
      BY <1>2 DEF Phase, Turn, Outstanding, Unrefused, Displaced, Relaying, Passed
<1>4. CASE AttachCallbacks(a)
  <2>1. Listeners' = Listeners \cup {a}
        BY <1>1, <1>4 DEF AttachCallbacks, Listeners, Attached
  <2>2. BroadcastOfRelay!Listen(a)
        BY <1>3, <2>1 DEF BroadcastOfRelay!Listen, BroadcastOfRelay!relayVars
  <2> QED
    BY <2>2 DEF BroadcastOfRelay!Next
<1>5. CASE Close(a) \/ Die(a)
  <2>1. Listeners' = Listeners \ {a}
        BY <1>1, <1>5 DEF Close, Die, Listeners, Attached
  <2>2. BroadcastOfRelay!Deafen(a)
        BY <1>3, <2>1 DEF BroadcastOfRelay!Deafen, BroadcastOfRelay!relayVars
  <2> QED
    BY <2>2 DEF BroadcastOfRelay!Next
<1> QED
    BY <1>4, <1>5

\* Every step is one of the broadcast or none.
LEMMA NextRefines ==
    ASSUME RInv, [Next]_vars
    PROVE  [BroadcastOfRelay!Next]_(BroadcastOfRelay!vars)
<1>0. IInv
      BY DEF RInv
<1>1. CASE CallCreate \/ CallUpload \/ CallSetMirroring \/ CallDestroy
      BY <1>0, <1>1, HostCallsRefine
<1>2. CASE HostHandler
      BY <1>0, <1>2, HostRefines
<1>3. CASE AssistantCrash
      BY <1>0, <1>3, CrashRefines DEF BroadcastOfRelay!Next
<1>4. ASSUME NEW a \in Apps, AppHandler(a)
      PROVE  [BroadcastOfRelay!Next]_(BroadcastOfRelay!vars)
      BY <1>0, <1>4, MembersRefine
<1>5. ASSUME NEW a \in Apps, FrameReady(a)
      PROVE  [BroadcastOfRelay!Next]_(BroadcastOfRelay!vars)
      BY <1>5, FrameReadyRefines
<1>6. ASSUME NEW a \in Apps, \/ Construct(a) \/ Initialize(a) \/ InitializeDevice(a)
                              \/ DeviceAdded(a)
      PROVE  UNCHANGED BroadcastOfRelay!vars
  <2>1. UNCHANGED <<clients, frame, seen, answer, op, step, cursor, ok, stable, spoiled, host>>
        BY <1>6 DEF Construct, Initialize, InitializeDevice, DeviceAdded
  <2>2. Listeners' = Listeners
        BY <1>0, <1>6, SameListeners DEF QueueThread
  <2> QED
    BY <2>1, <2>2, Stutter
<1>8. ASSUME NEW a \in Apps, AttachCallbacks(a) \/ Close(a) \/ Die(a)
      PROVE  [BroadcastOfRelay!Next]_(BroadcastOfRelay!vars)
      BY <1>0, <1>8, ListenRefines
<1>7. CASE UNCHANGED vars
      BY <1>0, <1>7, SameListeners, Stutter DEF vars
<1> QED
    BY <1>1, <1>2, <1>3, <1>4, <1>5, <1>6, <1>7, <1>8 DEF Next, MainThread, QueueThread

\* The assistant implements the broadcast: each frame is offered to the clients one
\* at a time, and an upload is answered when all that listened and stayed have been asked.
THEOREM ImplementsBroadcast == Spec => BroadcastSpec
<1>1. Init => BroadcastOfRelay!Init
      BY DEF Init, BroadcastOfRelay!Init, Phase, Turn, Outstanding, Unrefused, Displaced,
             Relaying, Listeners, Attached
<1>2. RInv /\ [Next]_vars => [BroadcastOfRelay!Next]_(BroadcastOfRelay!vars)
      BY NextRefines
<1> QED
    BY <1>1, <1>2, RefinementInvariance, PTL DEF Spec, BroadcastSpec, BroadcastOfRelay!Spec

\* No application is given a frame older than one it was given before, not even one
\* that a crashed assistant had sent.
THEOREM NoFrameFromThePast == Spec => [][\A a \in Apps : seen[a] <= seen'[a]]_vars
<1>1. ASSUME RInv, [Next]_vars, NEW a \in Apps
      PROVE  seen[a] <= seen'[a]
  <2>1. TypeApps /\ OrderOf(a) /\ seen \in [Apps -> Nat]
        BY <1>1 DEF RInv, IInv, Sound, Ordered, TypeApps
  <2>2. CASE \E b \in Apps : FrameReady(b)
    <3>1. PICK b \in Apps : FrameReady(b)
          BY <2>2
    <3>2. /\ Message(b, "FRAME") /\ ~Departed(b)
          /\ seen' = seen \/ seen' = [seen EXCEPT ![b] = Head(inbox[b]).value]
          BY <3>1 DEF FrameReady, Message
    <3>3. /\ 1 \in DOMAIN inbox[b] /\ Head(inbox[b]) = inbox[b][1] /\ inbox[b][1].type = "FRAME"
          BY <2>1, <3>2, Receiving
    <3>4. CASE seen' = seen \/ a # b
          BY <2>1, <3>2, <3>4
    <3>5. CASE seen' = [seen EXCEPT ![b] = Head(inbox[b]).value] /\ a = b
          BY <2>1, <3>2, <3>3, <3>5 DEF OrderOf
    <3> QED
      BY <3>2, <3>4, <3>5
  <2>3. CASE seen' = seen
        BY <2>1, <2>3
  <2>4. seen' = seen \/ \E b \in Apps : FrameReady(b)
    <3>1. CASE \/ CallCreate \/ CallUpload \/ CallSetMirroring \/ CallDestroy \/ AssistantCrash
               \/ UNCHANGED vars
          BY <3>1 DEF CallCreate, CallUpload, CallSetMirroring, CallDestroy, AssistantCrash, vars
    <3>2. CASE HostHandler
          BY <3>2 DEF HostHandler, AllocateDevice, FillDevice, BeginFrame, SetMirroring,
                      DestroyDevice, NotifyClient, SendFrame, FrameError, Advance, ReplyHost
    <3>3. ASSUME NEW b \in Apps,
                 \/ Construct(b) \/ MainThread(b) \/ Close(b) \/ Die(b) \/ DeviceAdded(b)
                 \/ AppHandler(b)
          PROVE  seen' = seen
          BY <3>3 DEF Construct, MainThread, AttachCallbacks, Initialize, InitializeDevice, Close,
                      Die, DeviceAdded, AppHandler, AddConnection, RemoveConnection, GetDevice,
                      Mirroring
    <3> QED
      BY <1>1, <3>1, <3>2, <3>3 DEF Next, QueueThread
  <2> QED
    BY <2>2, <2>3, <2>4
<1>2. RInv /\ [Next]_vars => [\A a \in Apps : seen[a] <= seen'[a]]_vars
      BY <1>1
<1> QED
    BY <1>2, RefinementInvariance, PTL DEF Spec
=============================================================================
