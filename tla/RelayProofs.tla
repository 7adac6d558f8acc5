---------------------------- MODULE RelayProofs ----------------------------
(***************************************************************************)
(* The safety properties of Relay, for every set of applications and every *)
(* number of devices, frames and crashes.                                  *)
(***************************************************************************)
EXTENDS Relay, SequenceTheorems, WellFoundedInduction, TLAPS

\* The assistant has handled the registration of the application.
Known(a) == main[a] # "off" /\ \A i \in DOMAIN calls[a] : calls[a][i] # "ADD_CONNECTION"

\* The iterator is at a client unless one was erased under it.
Handler ==
    /\ step = "idle" <=> op = "none"
    /\ step = "fill" => op = "CREATE_DEVICE"
    /\ half => step = "fill"
    /\ step = "await" => op = "FRAME"
    /\ step \in {"await", "advance"} => cursor # End
    /\ step \in {"idle", "fill"} => cursor = End
    /\ op = "none" => stable = {}
    /\ stable \subseteq clients
    /\ cursor # End /\ ~spoiled[op] => cursor \in clients

\* The host has one request at a time that makes the assistant loop, on its way or
\* handled, and is blocked in it.
Requests ==
    /\ \A i \in DOMAIN sent :
          /\ sent[i] = "FRAME" => host = "uploading" /\ op = "none"
          /\ sent[i] = "CREATE_DEVICE" => host = "creating" /\ op = "none"
    /\ \A i, j \in DOMAIN sent :
          sent[i] \in {"CREATE_DEVICE", "FRAME"} /\ sent[j] \in {"CREATE_DEVICE", "FRAME"} => i = j
    /\ op = "FRAME" => host = "uploading"
    /\ op = "CREATE_DEVICE" => host = "creating"

\* A registration on its way is the only request of its application, which asks
\* for the device once, and waits for each.
CallingOf(a) ==
    /\ main[a] = "off" => calls[a] = <<>>
    /\ main[a] = "adding" => calls[a] = <<"ADD_CONNECTION">>
    /\ \A i \in DOMAIN calls[a] :
          /\ calls[a][i] = "ADD_CONNECTION" =>
                calls[a] = <<"ADD_CONNECTION">> /\ main[a] \in {"adding", "dead"}
          /\ calls[a][i] = "GET_DEVICE" =>
                /\ main[a] \in {"getting", "dead"}
                /\ \A j \in DOMAIN calls[a] : calls[a][j] = "GET_DEVICE" => i = j

Calling == \A a \in Apps : CallingOf(a)

\* What the assistant has not registered it neither visits nor sends messages to.
Arrived == \A a \in Apps : a \in clients \/ inbox[a] # <<>> \/ cursor = a => Known(a)

Members == \A a \in clients : ~Departed(a) => connected[a]

\* A frame on its way to a client is the one the assistant waits for.
Awaited ==
    \A a \in clients : \A i \in DOMAIN inbox[a] : inbox[a][i].type = "FRAME" =>
        step = "await" /\ cursor = a /\ i = Len(inbox[a]) /\ inbox[a][i].value = frame

\* While the loop is true of all it has passed, those that listened were given the frame.
Visited ==
    op = "FRAME" /\ ok /\ ~spoiled["FRAME"] =>
        \A a \in stable : Passed(a) => seen[a] = frame

\* A client has the device, or has its message, or is going to ask for it.
Has(a) ==
    \/ main[a] \in {"added", "attached", "getting"}
    \/ main[a] = "got" /\ got[a] = device
    \/ \E i \in DOMAIN devices[a] : devices[a][i] = device
    \/ \E i \in DOMAIN inbox[a] : inbox[a][i].type = "CREATE_DEVICE" /\ inbox[a][i].value = device

\* The loop is not going to tell it any more.
Due(a) == ~Departed(a) /\ step # "fill" /\ ~(op = "CREATE_DEVICE" /\ a \in stable /\ ~Passed(a))

Informed ==
    device # NoDevice /\ ~spoiled["CREATE_DEVICE"] => \A a \in clients : Due(a) => Has(a)

TypeHost ==
    /\ clients \subseteq Apps /\ stable \subseteq Apps
    /\ device \in Nat /\ half \in BOOLEAN /\ crashes \in Nat
    /\ op \in {"none", "CREATE_DEVICE", "FRAME"}
    /\ step \in {"idle", "fill", "visit", "await", "advance"}
    /\ cursor \in Apps \cup {End}
    /\ ok \in BOOLEAN
    /\ spoiled \in [{"CREATE_DEVICE", "FRAME"} -> BOOLEAN]
    /\ host \in {"idle", "creating", "uploading"}
    /\ created \in Nat /\ frame \in Nat /\ answer \in {"none", "true", "false"}
    /\ active \in BOOLEAN /\ ui \in {"idle", "waiting"}
    /\ sent \in Seq({"CREATE_DEVICE", "FRAME", "SET_MIRRORING", "REMOVE_DEVICE"})

TypeApps ==
    /\ main \in [Apps -> MainStates]
    /\ queue \in [Apps -> {"idle", "creating"}]
    /\ connected \in [Apps -> BOOLEAN]
    /\ calls \in [Apps -> Seq(Threads)]
    /\ inbox \in [Apps -> Seq(Messages)]
    /\ got \in [Apps -> {Torn} \cup Nat]
    /\ devices \in [Apps -> Seq({Torn} \cup Nat)]
    /\ seen \in [Apps -> Nat]

Order == Handler /\ Requests /\ Calling /\ Arrived /\ Members
Delivery == Awaited /\ Visited /\ Informed

\* What follows from it and from Listening after one more step.
Sound == TypeHost /\ TypeApps /\ Order /\ Delivery

\* Callbacks that are attached stay so while the application is there.
Listening == \A a \in stable : Attached(a) \/ Departed(a)

IInv == Sound /\ Listening

\* Where two indices are compared by their successors.
LEMMA Successor == \A m, n \in Nat : m + 1 = n + 1 => m = n
  OBVIOUS

USE AppsAssumption, BoundsAssumption
    DEF assistantVars, handlerVars, callerVars, hostVars, appVars, NoDevice, Torn, End, Departed

-----------------------------------------------------------------------------
(* Lemmas on the order of m_clients and on queues.                         *)

\* The first of a set of clients.
LEMMA First ==
    ASSUME NEW S, S \subseteq Apps
    PROVE  /\ S = {} => Lowest(S) = End
           /\ S # {} => Lowest(S) \in S /\ \A b \in S : Lowest(S) <= b
<1>1. CASE S = {}
      BY <1>1 DEF Lowest
<1>2. CASE S # {}
  <2> DEFINE less == OpToRel(<, Nat)
  <2>1. \A m, n \in Nat : m < n => <<m, n>> \in less
        BY DEF OpToRel
  <2>2. PICK a \in S : \A b \in S : ~(<<b, a>> \in less)
        BY <1>2, NatLessThanWellFounded, WFMin
  <2> HIDE DEF less
  <2>3. a \in Nat /\ S \subseteq Nat
        OBVIOUS
  <2>4. ASSUME NEW b \in S PROVE a <= b
    <3>1. b \in Nat /\ ~(<<b, a>> \in less)
          BY <2>2, <2>3
    <3>2. ~(b < a)
          BY <2>1, <2>3, <3>1
    <3> QED
      BY <2>3, <3>1, <3>2
  <2> QED
    BY <1>2, <2>4 DEF Lowest
<1> QED
    BY <1>1, <1>2

\* Appending to a queue.
LEMMA Adding ==
    ASSUME NEW S, NEW s \in Seq(S), NEW e \in S
    PROVE  /\ Append(s, e) \in Seq(S) /\ Append(s, e) # <<>>
           /\ Len(Append(s, e)) = Len(s) + 1
           /\ DOMAIN Append(s, e) = DOMAIN s \cup {Len(s) + 1}
           /\ Len(s) + 1 \notin DOMAIN s
           /\ Append(s, e)[Len(s) + 1] = e
           /\ \A i \in DOMAIN s : Append(s, e)[i] = s[i]
<1>1. /\ Append(s, e) \in Seq(S) /\ Append(s, e) # <<>>
      /\ Len(Append(s, e)) = Len(s) + 1
      /\ Append(s, e)[Len(s) + 1] = e
      /\ \A i \in 1 .. Len(s) : Append(s, e)[i] = s[i]
      BY AppendProperties
<1>2. DOMAIN s = 1 .. Len(s) /\ DOMAIN Append(s, e) = 1 .. Len(s) + 1 /\ Len(s) \in Nat
      BY <1>1
<1> QED
    BY <1>1, <1>2

\* Removing the head of a queue.
LEMMA Removing ==
    ASSUME NEW S, NEW s \in Seq(S), s # <<>>
    PROVE  /\ Tail(s) \in Seq(S) /\ Len(Tail(s)) = Len(s) - 1 /\ Len(s) \in Nat \ {0}
           /\ 1 \in DOMAIN s /\ Head(s) = s[1] /\ Head(s) \in S
           /\ DOMAIN Tail(s) = 1 .. Len(s) - 1 /\ DOMAIN s = 1 .. Len(s)
           /\ \A i \in DOMAIN Tail(s) : i + 1 \in DOMAIN s /\ Tail(s)[i] = s[i + 1]
<1>1. /\ Tail(s) \in Seq(S) /\ Len(Tail(s)) = Len(s) - 1 /\ Head(s) \in S /\ Head(s) = s[1]
      /\ Len(s) \in Nat \ {0} /\ DOMAIN s = 1 .. Len(s)
      /\ \A i \in 1 .. Len(s) - 1 : Tail(s)[i] = s[i + 1]
      BY HeadTailProperties, ElementOfSeq, EmptySeq
<1>2. DOMAIN Tail(s) = 1 .. Len(s) - 1
      BY <1>1
<1> QED
    BY <1>1, <1>2

-----------------------------------------------------------------------------
(* Lemmas on requests and messages.                                        *)

HostCalls == {"CREATE_DEVICE", "FRAME", "SET_MIRRORING", "REMOVE_DEVICE"}

\* A request of the host joins the queue of its connection.
LEMMA HostCalling ==
    ASSUME TypeHost, NEW c \in HostCalls, CallAssistant(c)
    PROVE  /\ sent' \in Seq(HostCalls)
           /\ DOMAIN sent' = DOMAIN sent \cup {Len(sent) + 1} /\ Len(sent) + 1 \notin DOMAIN sent
           /\ sent'[Len(sent) + 1] = c
           /\ \A i \in DOMAIN sent : sent'[i] = sent[i]
<1>1. sent \in Seq(HostCalls)
      BY DEF TypeHost, HostCalls
<1>2. sent' = Append(sent, c)
      BY DEF CallAssistant
<1> HIDE DEF HostCalls
<1> QED
    BY <1>1, <1>2, Adding

\* It is handled in its turn.
LEMMA HostHandling ==
    ASSUME TypeHost, NEW c, HostRequest(c)
    PROVE  /\ sent' \in Seq(HostCalls)
           /\ 1 \in DOMAIN sent /\ sent[1] = c
           /\ \A i \in DOMAIN sent' :
                 i \in Nat \ {0} /\ i + 1 \in DOMAIN sent /\ sent'[i] = sent[i + 1]
<1>1. sent \in Seq(HostCalls)
      BY DEF TypeHost, HostCalls
<1>2. sent' = Tail(sent) /\ sent # <<>> /\ Head(sent) = c
      BY DEF HostRequest
<1> HIDE DEF HostCalls
<1>3. \A i \in 1 .. Len(sent) - 1 : i \in Nat \ {0}
      OBVIOUS
<1> QED
    BY <1>1, <1>2, <1>3, Removing

\* A request of an application joins the queue of its connection.
LEMMA AppCalling ==
    ASSUME TypeApps, NEW a \in Apps, NEW c \in Threads, Call(a, c)
    PROVE  /\ calls' \in [Apps -> Seq(Threads)]
           /\ \A b \in Apps : b # a => calls'[b] = calls[b]
           /\ calls[a] = <<>> => calls'[a] = <<c>>
           /\ DOMAIN calls'[a] = DOMAIN calls[a] \cup {Len(calls[a]) + 1}
           /\ Len(calls[a]) + 1 \notin DOMAIN calls[a]
           /\ calls'[a][Len(calls[a]) + 1] = c
           /\ \A i \in DOMAIN calls[a] : calls'[a][i] = calls[a][i]
<1>1. calls \in [Apps -> Seq(Threads)] /\ calls' = [calls EXCEPT ![a] = Append(calls[a], c)]
      BY DEF TypeApps, Call
<1> HIDE DEF Threads
<1>2. /\ calls[a] \in Seq(Threads) /\ calls'[a] = Append(calls[a], c)
      /\ \A b \in Apps : b # a => calls'[b] = calls[b]
      BY <1>1
<1>3. Append(<<>>, c) = <<c>>
      OBVIOUS
<1>4. calls' \in [Apps -> Seq(Threads)]
      BY <1>1, <1>2, Adding
<1>5. /\ DOMAIN calls'[a] = DOMAIN calls[a] \cup {Len(calls[a]) + 1}
      /\ Len(calls[a]) + 1 \notin DOMAIN calls[a]
      /\ calls'[a][Len(calls[a]) + 1] = c
      /\ \A i \in DOMAIN calls[a] : calls'[a][i] = calls[a][i]
      BY <1>2, Adding
<1> QED
    BY <1>2, <1>3, <1>4, <1>5

\* It is handled in its turn.
LEMMA AppHandling ==
    ASSUME TypeApps, NEW a \in Apps, NEW c, Request(a, c)
    PROVE  /\ calls' \in [Apps -> Seq(Threads)]
           /\ 1 \in DOMAIN calls[a] /\ calls[a][1] = c /\ calls[a] # <<>>
           /\ \A b \in Apps : b # a => calls'[b] = calls[b]
           /\ \A i \in DOMAIN calls'[a] :
                 i \in Nat \ {0} /\ i + 1 \in DOMAIN calls[a] /\ calls'[a][i] = calls[a][i + 1]
           /\ calls[a] = <<c>> => calls'[a] = <<>>
<1>1. /\ calls \in [Apps -> Seq(Threads)] /\ calls' = [calls EXCEPT ![a] = Tail(calls[a])]
      /\ calls[a] # <<>> /\ Head(calls[a]) = c
      BY DEF TypeApps, Request
<1> HIDE DEF Threads
<1>2. /\ calls[a] \in Seq(Threads) /\ calls'[a] = Tail(calls[a])
      /\ \A b \in Apps : b # a => calls'[b] = calls[b]
      BY <1>1
<1>3. Tail(<<c>>) = <<>>
      OBVIOUS
<1>4. calls' \in [Apps -> Seq(Threads)]
      BY <1>1, <1>2, Removing
<1>5. \A n \in Nat : \A i \in 1 .. n - 1 : i \in Nat \ {0}
      OBVIOUS
<1> QED
    BY <1>1, <1>2, <1>3, <1>4, <1>5, Removing

\* createDevice adds a device to those of the application.
LEMMA Gaining ==
    ASSUME TypeApps, NEW a \in Apps, NEW d \in {Torn} \cup Nat,
           devices' = [devices EXCEPT ![a] = Append(@, d)]
    PROVE  /\ devices' \in [Apps -> Seq({Torn} \cup Nat)]
           /\ \A b \in Apps : b # a => devices'[b] = devices[b]
           /\ \A i \in DOMAIN devices[a] :
                 i \in DOMAIN devices'[a] /\ devices'[a][i] = devices[a][i]
           /\ \E i \in DOMAIN devices'[a] : devices'[a][i] = d
<1> DEFINE numbers == {Torn} \cup Nat
<1>1. devices \in [Apps -> Seq(numbers)] /\ d \in numbers
      BY DEF TypeApps
<1> SUFFICES /\ devices' \in [Apps -> Seq(numbers)]
             /\ \A b \in Apps : b # a => devices'[b] = devices[b]
             /\ \A i \in DOMAIN devices[a] :
                   i \in DOMAIN devices'[a] /\ devices'[a][i] = devices[a][i]
             /\ \E i \in DOMAIN devices'[a] : devices'[a][i] = d
    OBVIOUS
<1> HIDE DEF numbers
<1>2. /\ devices[a] \in Seq(numbers) /\ devices'[a] = Append(devices[a], d)
      /\ \A b \in Apps : b # a => devices'[b] = devices[b]
      BY <1>1
<1>3. devices' \in [Apps -> Seq(numbers)]
      BY <1>1, <1>2, Adding
<1>4. /\ DOMAIN devices'[a] = DOMAIN devices[a] \cup {Len(devices[a]) + 1}
      /\ devices'[a][Len(devices[a]) + 1] = d
      /\ \A i \in DOMAIN devices[a] : devices'[a][i] = devices[a][i]
      BY <1>1, <1>2, Adding
<1> QED
    BY <1>2, <1>3, <1>4

\* The assistant sends a message to an application.
LEMMA Sending ==
    ASSUME TypeApps, NEW a \in Apps, NEW m \in Messages, Send(a, m)
    PROVE  /\ inbox' \in [Apps -> Seq(Messages)]
           /\ \A b \in Apps : b # a => inbox'[b] = inbox[b]
           /\ inbox'[a] # <<>>
           /\ Len(inbox'[a]) = Len(inbox[a]) + 1
           /\ DOMAIN inbox'[a] = DOMAIN inbox[a] \cup {Len(inbox[a]) + 1}
           /\ inbox'[a][Len(inbox[a]) + 1] = m
           /\ \A i \in DOMAIN inbox[a] : inbox'[a][i] = inbox[a][i]
<1>1. inbox \in [Apps -> Seq(Messages)] /\ inbox' = [inbox EXCEPT ![a] = Append(inbox[a], m)]
      BY DEF TypeApps, Send
<1> HIDE DEF Messages
<1>2. /\ inbox[a] \in Seq(Messages) /\ inbox'[a] = Append(inbox[a], m)
      /\ \A b \in Apps : b # a => inbox'[b] = inbox[b]
      BY <1>1
<1>3. inbox' \in [Apps -> Seq(Messages)]
      BY <1>1, <1>2, Adding
<1> QED
    BY <1>2, <1>3, Adding

\* The application handles it.
LEMMA Receiving ==
    ASSUME TypeApps, NEW a \in Apps, NEW t, Message(a, t)
    PROVE  /\ inbox' \in [Apps -> Seq(Messages)]
           /\ \A b \in Apps : b # a => inbox'[b] = inbox[b]
           /\ inbox[a] # <<>>
           /\ 1 \in DOMAIN inbox[a] /\ Head(inbox[a]) = inbox[a][1] /\ inbox[a][1] \in Messages
           /\ inbox[a][1].type = t
           /\ Len(inbox'[a]) = Len(inbox[a]) - 1 /\ Len(inbox[a]) \in Nat
           /\ Len(inbox[a]) = Len(inbox'[a]) + 1 /\ Len(inbox'[a]) \in Nat
           /\ \A i \in DOMAIN inbox[a] : i = 1 \/
                 (i - 1 \in DOMAIN inbox'[a] /\ inbox'[a][i - 1] = inbox[a][i])
           /\ \A i \in DOMAIN inbox'[a] :
                 i \in Nat \ {0} /\ i + 1 \in DOMAIN inbox[a] /\ inbox'[a][i] = inbox[a][i + 1]
<1>1. /\ inbox \in [Apps -> Seq(Messages)] /\ inbox' = [inbox EXCEPT ![a] = Tail(inbox[a])]
      /\ inbox[a] # <<>> /\ Head(inbox[a]).type = t
      BY DEF TypeApps, Message
<1> HIDE DEF Messages
<1>2. /\ inbox[a] \in Seq(Messages) /\ inbox'[a] = Tail(inbox[a])
      /\ \A b \in Apps : b # a => inbox'[b] = inbox[b]
      BY <1>1
<1>3. inbox' \in [Apps -> Seq(Messages)]
      BY <1>1, <1>2, Removing
<1>4. \A n \in Nat : \A i \in 1 .. n : i = 1 \/ (i - 1 \in 1 .. n - 1 /\ (i - 1) + 1 = i)
      OBVIOUS
<1>5. \A n \in Nat : \A i \in 1 .. n - 1 : i \in Nat \ {0}
      OBVIOUS
<1>6. \A i \in DOMAIN inbox[a] : i = 1 \/
          (i - 1 \in DOMAIN inbox'[a] /\ inbox'[a][i - 1] = inbox[a][i])
      BY <1>1, <1>2, <1>4, Removing
<1>7. Len(inbox[a]) = Len(inbox'[a]) + 1 /\ Len(inbox'[a]) \in Nat
  <2>1. \A n \in Nat \ {0} : n = (n - 1) + 1 /\ n - 1 \in Nat
        OBVIOUS
  <2> QED
    BY <1>2, <1>1, <2>1, Removing
<1> QED
    BY <1>1, <1>2, <1>3, <1>5, <1>6, <1>7, Removing

-----------------------------------------------------------------------------
(* The invariant.                                                          *)

\* The initial states satisfy it.
LEMMA InitInv == Init => IInv
<1> SUFFICES ASSUME Init PROVE IInv
    OBVIOUS
<1>1. TypeHost
      BY EmptySeq DEF Init, TypeHost
<1>2. TypeApps
      BY EmptySeq DEF Init, TypeApps, MainStates
<1>3. Order
      BY DEF Init, Order, Handler, Requests, Calling, CallingOf, Arrived, Members, Known
<1>4. Delivery
      BY DEF Init, Delivery, Awaited, Visited, Informed
<1>5. Listening
      BY DEF Init, Listening
<1> QED
    BY <1>1, <1>2, <1>3, <1>4, <1>5 DEF IInv, Sound

\* CallCreate preserves Sound.
LEMMA CallCreatePreserves ==
    ASSUME IInv, CallCreate
    PROVE  Sound'
<1> USE DEF CallCreate
<1>0. /\ TypeHost /\ TypeApps /\ Handler /\ Requests /\ Calling /\ Arrived
      /\ Members /\ Awaited /\ Visited /\ Informed
      BY DEF IInv, Sound, Order, Delivery
<1>1. /\ sent' \in Seq(HostCalls)
      /\ DOMAIN sent' = DOMAIN sent \cup {Len(sent) + 1} /\ Len(sent) + 1 \notin DOMAIN sent
      /\ sent'[Len(sent) + 1] = "CREATE_DEVICE"
      /\ \A i \in DOMAIN sent : sent'[i] = sent[i]
      BY <1>0, HostCalling DEF HostCalls
<1>2. TypeHost'
      BY <1>0, <1>1 DEF TypeHost, HostCalls
<1>3. Requests'
  <2>1. op = "none" /\ \A i \in DOMAIN sent : sent[i] # "FRAME" /\ sent[i] # "CREATE_DEVICE"
        BY <1>0 DEF Requests, TypeHost
  <2>2. /\ \A i \in DOMAIN sent' : sent'[i] # "FRAME"
        /\ \A i \in DOMAIN sent' : sent'[i] = "CREATE_DEVICE" => i = Len(sent) + 1
        BY <1>1, <2>1
  <2> QED
    BY <2>1, <2>2 DEF Requests
<1>4. TypeApps' /\ Handler' /\ Calling' /\ Arrived' /\ Members' /\ Awaited' /\ Visited' /\ Informed'
      BY <1>0 DEF TypeApps, Handler, Calling, CallingOf, Arrived, Known, Members, Awaited,
                  Visited, Passed, Informed, Due, Has
<1> QED
    BY <1>2, <1>3, <1>4 DEF Sound, Order, Delivery

\* CallUpload preserves Sound.
LEMMA CallUploadPreserves ==
    ASSUME IInv, CallUpload
    PROVE  Sound'
<1> USE DEF CallUpload, UploadFrame
<1>0. /\ TypeHost /\ TypeApps /\ Handler /\ Requests /\ Calling /\ Arrived
      /\ Members /\ Awaited /\ Visited /\ Informed
      BY DEF IInv, Sound, Order, Delivery
<1>1. /\ op = "none" /\ step = "idle"
      /\ \A i \in DOMAIN sent : sent[i] # "FRAME" /\ sent[i] # "CREATE_DEVICE"
      BY <1>0 DEF Requests, TypeHost, Handler
<1>2. \/ sent' = sent /\ host' = host /\ answer' = "false"
      \/ /\ host' = "uploading" /\ answer' = "none" /\ sent' \in Seq(HostCalls)
         /\ DOMAIN sent' = DOMAIN sent \cup {Len(sent) + 1} /\ Len(sent) + 1 \notin DOMAIN sent
         /\ sent'[Len(sent) + 1] = "FRAME"
         /\ \A i \in DOMAIN sent : sent'[i] = sent[i]
  <2>1. CASE CallAssistant("FRAME") /\ host' = "uploading" /\ answer' = "none"
        BY <1>0, <2>1, HostCalling DEF HostCalls
  <2> QED
    BY <2>1
<1>3. TypeHost'
  <2>1. sent' \in Seq(HostCalls) /\ host' \in {"idle", "creating", "uploading"}
        /\ answer' \in {"none", "true", "false"}
        BY <1>0, <1>2 DEF TypeHost, HostCalls
  <2> QED
    BY <1>0, <2>1 DEF TypeHost, HostCalls
<1>4. Requests'
  <2>1. CASE sent' = sent /\ host' = host
        BY <1>0, <1>1, <2>1 DEF Requests
  <2>2. CASE host' = "uploading"
    <3>1. /\ \A i \in DOMAIN sent' : sent'[i] # "CREATE_DEVICE"
          /\ \A i, j \in DOMAIN sent' : sent'[i] = "FRAME" /\ sent'[j] = "FRAME" => i = j
          BY <1>1, <1>2
    <3> QED
      BY <1>1, <2>2, <3>1 DEF Requests
  <2> QED
    BY <1>2, <2>1, <2>2
<1>5. Awaited'
      BY <1>0, <1>1, <1>2 DEF Awaited, Handler, Requests
<1>6. Visited'
      BY <1>0, <1>1, <1>2 DEF Visited, Passed, Handler, Requests
<1>7. TypeApps' /\ Handler' /\ Calling' /\ Arrived' /\ Members' /\ Informed'
      BY <1>0 DEF TypeApps, Handler, Calling, CallingOf, Arrived, Known, Members,
                  Informed, Due, Has, Passed
<1> QED
    BY <1>3, <1>4, <1>5, <1>6, <1>7 DEF Sound, Order, Delivery

\* CallSetMirroring preserves Sound.
LEMMA CallSetMirroringPreserves ==
    ASSUME IInv, CallSetMirroring
    PROVE  Sound'
<1> USE DEF CallSetMirroring
<1>0. /\ TypeHost /\ TypeApps /\ Handler /\ Requests /\ Calling /\ Arrived
      /\ Members /\ Awaited /\ Visited /\ Informed
      BY DEF IInv, Sound, Order, Delivery
<1>1. /\ sent' \in Seq(HostCalls)
      /\ DOMAIN sent' = DOMAIN sent \cup {Len(sent) + 1} /\ Len(sent) + 1 \notin DOMAIN sent
      /\ sent'[Len(sent) + 1] = "SET_MIRRORING"
      /\ \A i \in DOMAIN sent : sent'[i] = sent[i]
      BY <1>0, HostCalling DEF HostCalls
<1>2. TypeHost'
      BY <1>0, <1>1 DEF TypeHost, HostCalls
<1>3. Requests'
      BY <1>0, <1>1 DEF Requests, Handler, Requests
<1>4. TypeApps' /\ Handler' /\ Calling' /\ Arrived' /\ Members' /\ Awaited' /\ Visited' /\ Informed'
      BY <1>0 DEF TypeApps, Handler, Calling, CallingOf, Arrived, Known, Members, Awaited,
                  Visited, Passed, Informed, Due, Has
<1> QED
    BY <1>2, <1>3, <1>4 DEF Sound, Order, Delivery

\* CallDestroy preserves Sound.
LEMMA CallDestroyPreserves ==
    ASSUME IInv, CallDestroy
    PROVE  Sound'
<1> USE DEF CallDestroy
<1>0. /\ TypeHost /\ TypeApps /\ Handler /\ Requests /\ Calling /\ Arrived
      /\ Members /\ Awaited /\ Visited /\ Informed
      BY DEF IInv, Sound, Order, Delivery
<1>1. /\ sent' \in Seq(HostCalls)
      /\ DOMAIN sent' = DOMAIN sent \cup {Len(sent) + 1} /\ Len(sent) + 1 \notin DOMAIN sent
      /\ sent'[Len(sent) + 1] = "REMOVE_DEVICE"
      /\ \A i \in DOMAIN sent : sent'[i] = sent[i]
      BY <1>0, HostCalling DEF HostCalls
<1>2. TypeHost'
      BY <1>0, <1>1 DEF TypeHost, HostCalls
<1>3. Requests'
      BY <1>0, <1>1 DEF Requests, Handler, Requests
<1>4. TypeApps' /\ Handler' /\ Calling' /\ Arrived' /\ Members' /\ Awaited' /\ Visited' /\ Informed'
      BY <1>0 DEF TypeApps, Handler, Calling, CallingOf, Arrived, Known, Members, Awaited,
                  Visited, Passed, Informed, Due, Has
<1> QED
    BY <1>2, <1>3, <1>4 DEF Sound, Order, Delivery

\* AllocateDevice preserves Sound.
LEMMA AllocateDevicePreserves ==
    ASSUME IInv, AllocateDevice
    PROVE  Sound'
<1> USE DEF AllocateDevice
<1>0. /\ TypeHost /\ TypeApps /\ Handler /\ Requests /\ Calling /\ Arrived
      /\ Members /\ Awaited /\ Visited /\ Informed
      BY DEF IInv, Sound, Order, Delivery
<1>1. /\ step = "idle" /\ sent' \in Seq(HostCalls)
      /\ 1 \in DOMAIN sent /\ sent[1] = "CREATE_DEVICE"
      /\ \A i \in DOMAIN sent' :
            i \in Nat \ {0} /\ i + 1 \in DOMAIN sent /\ sent'[i] = sent[i + 1]
      BY <1>0, HostHandling DEF HostRequest
<1>2. TypeHost'
      BY <1>0, <1>1 DEF TypeHost, HostCalls
<1>3. Handler'
      BY <1>0, <1>1 DEF Handler, Handler, Requests
<1>4. Requests'
      BY <1>0, <1>1 DEF Requests, Handler, Requests
<1>5. Awaited'
      BY <1>0, <1>1 DEF Awaited, Handler, Requests
<1>6. Visited'
      BY <1>0, <1>1 DEF Visited, Passed, Handler, Requests
<1>7. Informed'
      BY <1>0, <1>1 DEF Informed, Due, Has, Passed, Handler, Requests
<1>8. TypeApps' /\ Calling' /\ Arrived' /\ Members'
      BY <1>0 DEF TypeApps, Calling, CallingOf, Arrived, Known, Members
<1> QED
    BY <1>2, <1>3, <1>4, <1>5, <1>6, <1>7, <1>8 DEF Sound, Order, Delivery

\* FillDevice preserves Sound.
LEMMA FillDevicePreserves ==
    ASSUME IInv, FillDevice
    PROVE  Sound'
<1> USE DEF FillDevice, BeginLoop
<1>0. /\ TypeHost /\ TypeApps /\ Handler /\ Requests /\ Calling /\ Arrived
      /\ Members /\ Awaited /\ Visited /\ Informed
      BY DEF IInv, Sound, Order, Delivery
<1>1. /\ clients = {} => Lowest(clients) = End
      /\ clients # {} => Lowest(clients) \in clients /\ \A b \in clients : Lowest(clients) <= b
      BY <1>0, First DEF TypeHost
<1>2. TypeHost'
      BY <1>0, <1>1 DEF TypeHost, HostCalls
<1>3. Handler'
      BY <1>0, <1>1 DEF Handler, Handler, Requests
<1>4. Arrived'
      BY <1>0, <1>1 DEF Arrived, Known, Handler, Requests
<1>5. Awaited'
      BY <1>0, <1>1 DEF Awaited, Handler, Requests
<1>6. Visited'
      BY <1>0, <1>1 DEF Visited, Passed, Handler, Requests
<1>7. Informed'
  <2>1. op = "CREATE_DEVICE"
        BY <1>0 DEF Handler
  <2>2. ASSUME NEW b \in clients PROVE ~Passed(b)'
    <3>1. cursor' \in clients /\ cursor' <= b /\ step' = "visit"
          BY <1>1
    <3>2. cursor' \in Nat \ {0} /\ b \in Nat
          BY <1>0, <3>1 DEF TypeHost
    <3> QED
      BY <3>1, <3>2 DEF Passed
  <2>3. ASSUME NEW b \in clients, ~Departed(b), ~Attached(b) PROVE Has(b)'
    <3>1. b \in Apps /\ Known(b) /\ main[b] \in MainStates
          BY <1>0, <2>3 DEF Arrived, TypeHost, TypeApps
    <3>2. main[b] # "adding"
          BY <1>0, <3>1 DEF Known, Calling, CallingOf
    <3>3. main[b] = "added"
          BY <2>3, <3>1, <3>2 DEF Known, Attached, MainStates
    <3> QED
      BY <3>3 DEF Has
  <2> QED
    BY <1>0, <2>1, <2>2, <2>3 DEF Informed, Due, TypeHost
<1>8. TypeApps' /\ Requests' /\ Calling' /\ Members'
      BY <1>0 DEF TypeApps, Requests, Calling, CallingOf, Members
<1> QED
    BY <1>2, <1>3, <1>4, <1>5, <1>6, <1>7, <1>8 DEF Sound, Order, Delivery

\* BeginFrame preserves Sound.
LEMMA BeginFramePreserves ==
    ASSUME IInv, BeginFrame
    PROVE  Sound'
<1> USE DEF BeginFrame, BeginLoop
<1>0. /\ TypeHost /\ TypeApps /\ Handler /\ Requests /\ Calling /\ Arrived
      /\ Members /\ Awaited /\ Visited /\ Informed
      BY DEF IInv, Sound, Order, Delivery
<1>1. /\ step = "idle" /\ sent' \in Seq(HostCalls)
      /\ 1 \in DOMAIN sent /\ sent[1] = "FRAME"
      /\ \A i \in DOMAIN sent' :
            i \in Nat \ {0} /\ i + 1 \in DOMAIN sent /\ sent'[i] = sent[i + 1]
      BY <1>0, HostHandling DEF HostRequest
<1>2. /\ clients = {} => Lowest(clients) = End
      /\ clients # {} => Lowest(clients) \in clients /\ \A b \in clients : Lowest(clients) <= b
      BY <1>0, <1>1, First DEF TypeHost
<1>3. TypeHost'
      BY <1>0, <1>1, <1>2 DEF TypeHost, HostCalls
<1>4. Handler'
      BY <1>0, <1>1, <1>2 DEF Handler, Handler, Requests
<1>5. Requests'
      BY <1>0, <1>1, <1>2 DEF Requests, Handler, Requests
<1>6. Arrived'
      BY <1>0, <1>1, <1>2 DEF Arrived, Known, Handler, Requests
<1>7. Awaited'
      BY <1>0, <1>1, <1>2 DEF Awaited, Handler, Requests
<1>8. Visited'
  <2>1. ASSUME NEW b \in clients PROVE ~Passed(b)'
    <3>1. cursor' \in clients /\ cursor' <= b /\ step' = "visit"
          BY <1>2
    <3>2. cursor' \in Nat \ {0} /\ b \in Nat
          BY <1>0, <3>1 DEF TypeHost
    <3> QED
      BY <3>1, <3>2 DEF Passed
  <2> QED
    BY <2>1 DEF Visited
<1>9. Informed'
      BY <1>0, <1>1, <1>2 DEF Informed, Due, Has, Passed, Handler, Requests
<1>10. TypeApps' /\ Calling' /\ Members'
      BY <1>0 DEF TypeApps, Calling, CallingOf, Members
<1> QED
    BY <1>3, <1>4, <1>5, <1>6, <1>7, <1>8, <1>9, <1>10 DEF Sound, Order, Delivery

\* SetMirroring preserves Sound.
LEMMA SetMirroringPreserves ==
    ASSUME IInv, SetMirroring
    PROVE  Sound'
<1> USE DEF SetMirroring
<1>0. /\ TypeHost /\ TypeApps /\ Handler /\ Requests /\ Calling /\ Arrived
      /\ Members /\ Awaited /\ Visited /\ Informed
      BY DEF IInv, Sound, Order, Delivery
<1>1. /\ step = "idle" /\ sent' \in Seq(HostCalls)
      /\ 1 \in DOMAIN sent /\ sent[1] = "SET_MIRRORING"
      /\ \A i \in DOMAIN sent' :
            i \in Nat \ {0} /\ i + 1 \in DOMAIN sent /\ sent'[i] = sent[i + 1]
      BY <1>0, HostHandling DEF HostRequest
<1>2. TypeHost'
      BY <1>0, <1>1 DEF TypeHost, HostCalls
<1>3. Requests'
      BY <1>0, <1>1 DEF Requests, Handler, Requests
<1>4. TypeApps' /\ Handler' /\ Calling' /\ Arrived' /\ Members' /\ Awaited' /\ Visited' /\ Informed'
      BY <1>0 DEF TypeApps, Handler, Calling, CallingOf, Arrived, Known, Members, Awaited,
                  Visited, Passed, Informed, Due, Has
<1> QED
    BY <1>2, <1>3, <1>4 DEF Sound, Order, Delivery

\* DestroyDevice preserves Sound.
LEMMA DestroyDevicePreserves ==
    ASSUME IInv, DestroyDevice
    PROVE  Sound'
<1> USE DEF DestroyDevice
<1>0. /\ TypeHost /\ TypeApps /\ Handler /\ Requests /\ Calling /\ Arrived
      /\ Members /\ Awaited /\ Visited /\ Informed
      BY DEF IInv, Sound, Order, Delivery
<1>1. /\ step = "idle" /\ sent' \in Seq(HostCalls)
      /\ 1 \in DOMAIN sent /\ sent[1] = "REMOVE_DEVICE"
      /\ \A i \in DOMAIN sent' :
            i \in Nat \ {0} /\ i + 1 \in DOMAIN sent /\ sent'[i] = sent[i + 1]
      BY <1>0, HostHandling DEF HostRequest
<1>2. TypeHost'
      BY <1>0, <1>1 DEF TypeHost, HostCalls
<1>3. Requests'
      BY <1>0, <1>1 DEF Requests, Handler, Requests
<1>4. TypeApps' /\ Handler' /\ Calling' /\ Arrived' /\ Members' /\ Awaited' /\ Visited' /\ Informed'
      BY <1>0 DEF TypeApps, Handler, Calling, CallingOf, Arrived, Known, Members, Awaited,
                  Visited, Passed, Informed, Due, Has
<1> QED
    BY <1>2, <1>3, <1>4 DEF Sound, Order, Delivery

\* NotifyClient preserves Sound.
LEMMA NotifyClientPreserves ==
    ASSUME IInv, NotifyClient
    PROVE  Sound'
<1> USE DEF NotifyClient
<1>0. /\ TypeHost /\ TypeApps /\ Handler /\ Requests /\ Calling /\ Arrived
      /\ Members /\ Awaited /\ Visited /\ Informed
      BY DEF IInv, Sound, Order, Delivery
<1>1. cursor \in Apps /\ [type |-> "CREATE_DEVICE", value |-> device] \in Messages
      BY <1>0 DEF TypeHost, Messages
<1>2. /\ inbox' \in [Apps -> Seq(Messages)]
      /\ \A b \in Apps : b # cursor => inbox'[b] = inbox[b]
      /\ inbox'[cursor] # <<>>
      /\ Len(inbox'[cursor]) = Len(inbox[cursor]) + 1
      /\ DOMAIN inbox'[cursor] = DOMAIN inbox[cursor] \cup {Len(inbox[cursor]) + 1}
      /\ inbox'[cursor][Len(inbox[cursor]) + 1] = [type |-> "CREATE_DEVICE", value |-> device]
      /\ \A i \in DOMAIN inbox[cursor] : inbox'[cursor][i] = inbox[cursor][i]
      BY <1>0, <1>1, Sending
<1>3. TypeHost'
      BY <1>0, <1>1, <1>2 DEF TypeHost, HostCalls
<1>4. TypeApps'
      BY <1>0, <1>1, <1>2 DEF TypeApps, MainStates
<1>5. Handler'
      BY <1>0, <1>1, <1>2 DEF Handler, Handler, Requests
<1>6. Arrived'
      BY <1>0, <1>1, <1>2 DEF Arrived, Known, Handler, Requests
<1>7. Awaited'
  <2>1. \A b \in clients : \A i \in DOMAIN inbox[b] : inbox[b][i].type # "FRAME"
        BY <1>0 DEF Awaited
  <2>2. clients \subseteq Apps
        BY <1>0 DEF TypeHost
  <2>3. ASSUME NEW b \in clients, NEW i \in DOMAIN inbox'[b] PROVE inbox'[b][i].type # "FRAME"
    <3>1. CASE b = cursor
          BY <1>2, <2>1, <3>1
    <3>2. CASE b # cursor
          BY <1>2, <2>1, <2>2, <3>2
    <3> QED
      BY <3>1, <3>2
  <2> QED
    BY <2>3 DEF Awaited
<1>8. Visited'
      BY <1>0, <1>1, <1>2 DEF Visited, Passed, Handler, Requests
<1>9. Informed'
  <2> SUFFICES ASSUME device' # NoDevice, ~spoiled'["CREATE_DEVICE"], NEW b \in clients', Due(b)'
               PROVE  Has(b)'
      BY DEF Informed
  <2>0. b \in Apps
        BY <1>0, <1>1, <1>2 DEF TypeHost
  <2>1. CASE b = cursor
        BY <1>2, <2>1 DEF Has
  <2>2. CASE b # cursor
    <3>1. Has(b)
          BY <1>0, <2>2 DEF Informed, Due, Passed
    <3> QED
      BY <1>2, <2>0, <2>2, <3>1 DEF Has
  <2> QED
    BY <2>1, <2>2
<1>10. Requests' /\ Calling' /\ Members'
      BY <1>0 DEF Requests, Calling, CallingOf, Members
<1> QED
    BY <1>3, <1>4, <1>5, <1>6, <1>7, <1>8, <1>9, <1>10 DEF Sound, Order, Delivery

\* SendFrame preserves Sound.
LEMMA SendFramePreserves ==
    ASSUME IInv, SendFrame
    PROVE  Sound'
<1> USE DEF SendFrame
<1>0. /\ TypeHost /\ TypeApps /\ Handler /\ Requests /\ Calling /\ Arrived
      /\ Members /\ Awaited /\ Visited /\ Informed
      BY DEF IInv, Sound, Order, Delivery
<1>1. cursor \in Apps /\ [type |-> "FRAME", value |-> frame] \in Messages
      BY <1>0 DEF TypeHost, Messages
<1>2. /\ inbox' \in [Apps -> Seq(Messages)]
      /\ \A b \in Apps : b # cursor => inbox'[b] = inbox[b]
      /\ inbox'[cursor] # <<>>
      /\ Len(inbox'[cursor]) = Len(inbox[cursor]) + 1
      /\ DOMAIN inbox'[cursor] = DOMAIN inbox[cursor] \cup {Len(inbox[cursor]) + 1}
      /\ inbox'[cursor][Len(inbox[cursor]) + 1] = [type |-> "FRAME", value |-> frame]
      /\ \A i \in DOMAIN inbox[cursor] : inbox'[cursor][i] = inbox[cursor][i]
      BY <1>0, <1>1, Sending
<1>3. TypeHost'
      BY <1>0, <1>1, <1>2 DEF TypeHost, HostCalls
<1>4. TypeApps'
      BY <1>0, <1>1, <1>2 DEF TypeApps, MainStates
<1>5. Handler'
      BY <1>0, <1>1, <1>2 DEF Handler, Handler, Requests
<1>6. Arrived'
      BY <1>0, <1>1, <1>2 DEF Arrived, Known, Handler, Requests
<1>7. Awaited'
  <2>1. \A b \in clients : \A i \in DOMAIN inbox[b] : inbox[b][i].type # "FRAME"
        BY <1>0 DEF Awaited
  <2>2. clients \subseteq Apps
        BY <1>0 DEF TypeHost
  <2>3. ASSUME NEW b \in clients, NEW i \in DOMAIN inbox'[b], inbox'[b][i].type = "FRAME"
        PROVE  b = cursor /\ i = Len(inbox'[b]) /\ inbox'[b][i].value = frame
    <3>1. CASE b = cursor
          BY <1>2, <2>1, <2>3, <3>1
    <3>2. CASE b # cursor
          BY <1>2, <2>1, <2>2, <2>3, <3>2
    <3> QED
      BY <3>1, <3>2
  <2> QED
    BY <2>3 DEF Awaited
<1>8. Visited'
      BY <1>0, <1>1, <1>2 DEF Visited, Passed, Handler, Requests
<1>9. Informed'
  <2> SUFFICES ASSUME device' # NoDevice, ~spoiled'["CREATE_DEVICE"], NEW b \in clients', Due(b)'
               PROVE  Has(b)'
      BY DEF Informed
  <2>0. b \in Apps
        BY <1>0, <1>1, <1>2 DEF TypeHost
  <2>1. Has(b)
        BY <1>0 DEF Informed, Due
  <2>2. \A i \in DOMAIN inbox[b] : i \in DOMAIN inbox'[b] /\ inbox'[b][i] = inbox[b][i]
        BY <1>2, <2>0
  <2> QED
    BY <2>1, <2>2 DEF Has
<1>10. Requests' /\ Calling' /\ Members'
      BY <1>0 DEF Requests, Calling, CallingOf, Members
<1> QED
    BY <1>3, <1>4, <1>5, <1>6, <1>7, <1>8, <1>9, <1>10 DEF Sound, Order, Delivery

\* FrameError preserves Sound.
LEMMA FrameErrorPreserves ==
    ASSUME IInv, FrameError
    PROVE  Sound'
<1> USE DEF FrameError, Combine
<1>0. /\ TypeHost /\ TypeApps /\ Handler /\ Requests /\ Calling /\ Arrived
      /\ Members /\ Awaited /\ Visited /\ Informed
      BY DEF IInv, Sound, Order, Delivery
<1>1. /\ cursor \in Apps /\ inbox' \in [Apps -> Seq(Messages)]
      /\ inbox'[cursor] = <<>> /\ \A b \in Apps : b # cursor => inbox'[b] = inbox[b]
      BY <1>0, EmptySeq DEF Handler, TypeHost, TypeApps
<1>2. TypeHost'
      BY <1>0, <1>1 DEF TypeHost, HostCalls
<1>3. TypeApps'
      BY <1>0, <1>1 DEF TypeApps, MainStates
<1>4. Handler'
      BY <1>0, <1>1 DEF Handler, Handler, Requests
<1>5. Arrived'
      BY <1>0, <1>1 DEF Arrived, Known, Handler, Requests
<1>6. Awaited'
  <2>1. \A b \in clients : b # cursor => \A i \in DOMAIN inbox[b] : inbox[b][i].type # "FRAME"
        BY <1>0 DEF Awaited
  <2>2. DOMAIN inbox'[cursor] = {}
        BY <1>1
  <2> QED
    BY <1>0, <1>1, <2>1, <2>2 DEF Awaited, TypeHost
<1>7. Visited'
      BY <1>0, <1>1 DEF Visited, Passed, Handler, Requests
<1>8. Informed'
      BY <1>0, <1>1 DEF Informed, Due, Has, Passed, Handler, Requests
<1>9. Requests' /\ Calling' /\ Members'
      BY <1>0 DEF Requests, Calling, CallingOf, Members
<1> QED
    BY <1>2, <1>3, <1>4, <1>5, <1>6, <1>7, <1>8, <1>9 DEF Sound, Order, Delivery

\* Advance preserves Sound.
LEMMA AdvancePreserves ==
    ASSUME IInv, Advance
    PROVE  Sound'
<1> USE DEF Advance
<1>0. /\ TypeHost /\ TypeApps /\ Handler /\ Requests /\ Calling /\ Arrived
      /\ Members /\ Awaited /\ Visited /\ Informed
      BY DEF IInv, Sound, Order, Delivery
<1>1. /\ cursor \in Apps /\ cursor \in Nat /\ clients \subseteq Apps /\ clients \subseteq Nat
      /\ op # "none"
      BY <1>0 DEF Handler, TypeHost
<1>2. /\ cursor' \in clients \cup {End}
      /\ cursor \in clients => \A b \in clients : b > cursor => cursor' # End /\ cursor' <= b
  <2>1. CASE cursor \in clients
    <3> DEFINE S == {b \in clients : b > cursor}
    <3>1. S \subseteq Apps /\ cursor' = Lowest(S)
          BY <1>1, <2>1
    <3>2. /\ S = {} => cursor' = End
          /\ S # {} => cursor' \in S /\ \A b \in S : cursor' <= b
          BY <3>1, First
    <3>3. 0 \notin S
          BY <1>1, <3>1
    <3> QED
      BY <3>2, <3>3
  <2> QED
    BY <2>1
<1>3. ~spoiled[op] => \A b \in clients : Passed(b)' => Passed(b)
  <2> SUFFICES ASSUME ~spoiled[op], NEW b \in clients, Passed(b)' PROVE Passed(b)
      OBVIOUS
  <2>1. cursor \in clients /\ cursor # End
        BY <1>0 DEF Handler
  <2>2. b < cursor' \/ cursor' = End
        BY DEF Passed
  <2>3. ~(b > cursor)
        BY <1>1, <1>2, <2>1, <2>2
  <2> QED
    BY <1>1, <2>3 DEF Passed
<1>4. TypeHost'
  BY <1>0, <1>1, <1>2 DEF TypeHost
<1>5. Handler'
  BY <1>0, <1>1, <1>2 DEF Handler
<1>6. Arrived'
  BY <1>0, <1>1, <1>2 DEF Arrived, Known
<1>7. Awaited'
      BY <1>0, <1>1, <1>2, <1>3 DEF Awaited, Handler, Requests
<1>8. Visited'
  BY <1>0, <1>3 DEF Visited, Handler
<1>9. Informed'
  <2> SUFFICES ASSUME device # NoDevice, ~spoiled["CREATE_DEVICE"], NEW b \in clients, Due(b)'
               PROVE  Has(b)'
      BY DEF Informed
  <2>1. Due(b)
        BY <1>3 DEF Due
  <2>2. Has(b)
        BY <1>0, <2>1 DEF Informed
  <2> QED
    BY <2>2 DEF Has
<1>10. TypeApps' /\ Requests' /\ Calling' /\ Members'
      BY <1>0 DEF TypeApps, Requests, Calling, CallingOf, Members
<1> QED
    BY <1>4, <1>5, <1>6, <1>7, <1>8, <1>9, <1>10 DEF Sound, Order, Delivery

\* ReplyHost preserves Sound.
LEMMA ReplyHostPreserves ==
    ASSUME IInv, ReplyHost
    PROVE  Sound'
<1> USE DEF ReplyHost
<1>0. /\ TypeHost /\ TypeApps /\ Handler /\ Requests /\ Calling /\ Arrived
      /\ Members /\ Awaited /\ Visited /\ Informed
      BY DEF IInv, Sound, Order, Delivery
<1>1. TypeHost'
      BY <1>0 DEF TypeHost, HostCalls
<1>2. Handler'
      BY <1>0 DEF Handler, Handler, Requests
<1>3. Requests'
      BY <1>0 DEF Requests, Handler, Requests
<1>4. Awaited'
      BY <1>0 DEF Awaited, Handler, Requests
<1>5. Visited'
      BY <1>0 DEF Visited, Passed, Handler, Requests
<1>6. Informed'
      BY <1>0 DEF Informed, Due, Has, Passed, Handler, Requests
<1>7. TypeApps' /\ Calling' /\ Arrived' /\ Members'
      BY <1>0 DEF TypeApps, Calling, CallingOf, Arrived, Known, Members
<1> QED
    BY <1>1, <1>2, <1>3, <1>4, <1>5, <1>6, <1>7 DEF Sound, Order, Delivery

\* Construct preserves Sound.
LEMMA ConstructPreserves ==
    ASSUME IInv, NEW a \in Apps, Construct(a)
    PROVE  Sound'
<1> USE DEF Construct
<1>0. /\ TypeHost /\ TypeApps /\ Handler /\ Requests /\ Calling /\ Arrived
      /\ Members /\ Awaited /\ Visited /\ Informed
      BY DEF IInv, Sound, Order, Delivery
<1>1. /\ calls' \in [Apps -> Seq(Threads)]
      /\ \A b \in Apps : b # a => calls'[b] = calls[b]
      /\ calls[a] = <<>> => calls'[a] = <<"ADD_CONNECTION">>
      /\ DOMAIN calls'[a] = DOMAIN calls[a] \cup {Len(calls[a]) + 1}
      /\ Len(calls[a]) + 1 \notin DOMAIN calls[a]
      /\ calls'[a][Len(calls[a]) + 1] = "ADD_CONNECTION"
      /\ \A i \in DOMAIN calls[a] : calls'[a][i] = calls[a][i]
      BY <1>0, AppCalling DEF Threads
<1>2. TypeApps'
      BY <1>0, <1>1 DEF TypeApps, MainStates
<1>3. Calling'
  <2>1. calls[a] = <<>> /\ calls'[a] = <<"ADD_CONNECTION">> /\ main'[a] = "adding"
        BY <1>0, <1>1 DEF Calling, CallingOf, TypeApps
  <2>2. ASSUME NEW b \in Apps, b # a PROVE CallingOf(b)'
        BY <1>0, <1>1, <2>2 DEF Calling, CallingOf, TypeApps
  <2>3. CallingOf(a)'
        BY <2>1 DEF CallingOf
  <2> QED
    BY <2>2, <2>3 DEF Calling
<1>4. Arrived'
      BY <1>0, <1>1 DEF Arrived, Known, Handler, Requests
<1>5. Members'
      BY <1>0, <1>1 DEF Members
<1>6. Informed'
      BY <1>0, <1>1 DEF Informed, Due, Has, Passed, Handler, Requests
<1>7. TypeHost' /\ Handler' /\ Requests' /\ Awaited' /\ Visited'
      BY <1>0 DEF TypeHost, Handler, Requests, Awaited, Visited, Passed
<1> QED
    BY <1>2, <1>3, <1>4, <1>5, <1>6, <1>7 DEF Sound, Order, Delivery

\* AttachCallbacks preserves Sound.
LEMMA AttachCallbacksPreserves ==
    ASSUME IInv, NEW a \in Apps, AttachCallbacks(a)
    PROVE  Sound'
<1> USE DEF AttachCallbacks
<1>0. /\ TypeHost /\ TypeApps /\ Handler /\ Requests /\ Calling /\ Arrived
      /\ Members /\ Awaited /\ Visited /\ Informed
      BY DEF IInv, Sound, Order, Delivery
<1>1. TypeApps'
      BY <1>0 DEF TypeApps, MainStates
<1>2. Calling'
      BY <1>0 DEF Calling, CallingOf
<1>3. Arrived'
      BY <1>0 DEF Arrived, Known, Handler, Requests
<1>4. Members'
      BY <1>0 DEF Members
<1>5. Informed'
      BY <1>0 DEF Informed, Due, Has, Passed, Handler, Requests
<1>6. TypeHost' /\ Handler' /\ Requests' /\ Awaited' /\ Visited'
      BY <1>0 DEF TypeHost, Handler, Requests, Awaited, Visited, Passed
<1> QED
    BY <1>1, <1>2, <1>3, <1>4, <1>5, <1>6 DEF Sound, Order, Delivery

\* Initialize preserves Sound.
LEMMA InitializePreserves ==
    ASSUME IInv, NEW a \in Apps, Initialize(a)
    PROVE  Sound'
<1> USE DEF Initialize
<1>0. /\ TypeHost /\ TypeApps /\ Handler /\ Requests /\ Calling /\ Arrived
      /\ Members /\ Awaited /\ Visited /\ Informed
      BY DEF IInv, Sound, Order, Delivery
<1>1. /\ main' \in [Apps -> MainStates] /\ main'[a] = (IF connected[a] THEN "getting" ELSE "ready")
      /\ \A b \in Apps : b # a => main'[b] = main[b]
      BY <1>0 DEF TypeApps, MainStates
<1>2. /\ calls' \in [Apps -> Seq(Threads)]
      /\ \A b \in Apps : b # a => calls'[b] = calls[b]
      /\ \A i \in DOMAIN calls'[a] :
            \/ i \in DOMAIN calls[a] /\ calls'[a][i] = calls[a][i]
            \/ /\ i = Len(calls[a]) + 1 /\ i \notin DOMAIN calls[a]
               /\ calls'[a][i] = "GET_DEVICE"
  <2>1. CASE Call(a, "GET_DEVICE")
    <3>1. "GET_DEVICE" \in Threads
          BY DEF Threads
    <3> QED
      BY <1>0, <2>1, <3>1, AppCalling
  <2>2. CASE calls' = calls
        BY <1>0, <2>2 DEF TypeApps
  <2> QED
    BY <2>1, <2>2
<1>3. /\ main[a] = "attached" /\ ~connected[a] => calls' = calls
      /\ \A i \in DOMAIN calls[a] : calls[a][i] # "ADD_CONNECTION" /\ calls[a][i] # "GET_DEVICE"
      BY <1>0, <1>1, <1>2 DEF Calling, CallingOf
<1>4. TypeApps'
  BY <1>0, <1>1, <1>2 DEF TypeApps
<1>5. Calling'
  <2>1. ASSUME NEW b \in Apps, b # a PROVE CallingOf(b)'
    <3>1. CallingOf(b)
          BY <1>0 DEF Calling
    <3>2. main'[b] = main[b] /\ calls'[b] = calls[b]
          BY <1>0, <1>1, <1>2, <1>3, <2>1
    <3> QED
      BY <3>1, <3>2 DEF CallingOf
  <2>2. CallingOf(a)'
    <3>1. CASE connected[a]
          BY <1>1, <1>2, <1>3, <3>1 DEF CallingOf
    <3>2. CASE ~connected[a]
          BY <1>1, <1>3, <3>2 DEF CallingOf
    <3> QED
      BY <3>1, <3>2
  <2> QED
    BY <2>1, <2>2 DEF Calling
<1>6. Arrived'
  <2>1. \A b \in Apps : b # a => (Known(b)' <=> Known(b))
        BY <1>0, <1>1, <1>2, <1>3 DEF Known
  <2>2. Known(a)'
        BY <1>0, <1>1, <1>2, <1>3 DEF Known
  <2> QED
    BY <1>0, <1>1, <1>2, <1>3, <2>1, <2>2 DEF Arrived
<1>7. Members'
  BY <1>0, <1>1, <1>3 DEF Members, TypeHost
<1>8. Informed'
  <2> SUFFICES ASSUME device' # NoDevice, ~spoiled'["CREATE_DEVICE"], NEW b \in clients', Due(b)'
               PROVE  Has(b)'
      BY DEF Informed
  <2>0. b \in Apps
        BY <1>0, <1>1, <1>2, <1>3 DEF TypeHost
  <2>1. CASE b # a
    <3>1. Due(b) /\ b \in clients
          BY <1>0, <1>1, <1>2, <1>3, <2>0, <2>1 DEF Due, Passed
    <3>2. Has(b)
          BY <1>0, <3>1 DEF Informed
    <3> QED
      BY <1>0, <1>1, <1>2, <1>3, <2>0, <2>1, <3>2 DEF Has
  <2>2. CASE b = a
    <3>1. connected[a]
          BY <1>0, <1>3, <2>2 DEF Members
    <3> QED
      BY <1>1, <2>2, <3>1 DEF Has
  <2> QED
    BY <2>1, <2>2
<1>9. TypeHost' /\ Handler' /\ Requests' /\ Awaited' /\ Visited'
      BY <1>0 DEF TypeHost, Handler, Requests, Awaited, Visited, Passed
<1> QED
    BY <1>4, <1>5, <1>6, <1>7, <1>8, <1>9 DEF Sound, Order, Delivery

\* InitializeDevice preserves Sound.
LEMMA InitializeDevicePreserves ==
    ASSUME IInv, NEW a \in Apps, InitializeDevice(a)
    PROVE  Sound'
<1> USE DEF InitializeDevice, CreateDevice
<1>0. /\ TypeHost /\ TypeApps /\ Handler /\ Requests /\ Calling /\ Arrived
      /\ Members /\ Awaited /\ Visited /\ Informed
      BY DEF IInv, Sound, Order, Delivery
<1>1. /\ main' \in [Apps -> MainStates] /\ main'[a] \in {"creating", "ready"}
      /\ \A b \in Apps : b # a => main'[b] = main[b]
      /\ got' \in [Apps -> {Torn} \cup Nat] /\ \A b \in Apps : b # a => got'[b] = got[b]
      BY <1>0 DEF TypeApps, MainStates
<1>2. /\ calls' \in [Apps -> Seq(Threads)]
      /\ \A b \in Apps : b # a => calls'[b] = calls[b]
      /\ \A i \in DOMAIN calls'[a] :
            \/ i \in DOMAIN calls[a] /\ calls'[a][i] = calls[a][i]
            \/ /\ i = Len(calls[a]) + 1 /\ i \notin DOMAIN calls[a]
               /\ calls'[a][i] = "MIRRORING main"
  <2>1. CASE Call(a, "MIRRORING main")
    <3>1. "MIRRORING main" \in Threads
          BY DEF Threads
    <3> QED
      BY <1>0, <2>1, <3>1, AppCalling
  <2>2. CASE calls' = calls
        BY <1>0, <2>2 DEF TypeApps
  <2> QED
    BY <2>1, <2>2
<1>3. /\ devices' \in [Apps -> Seq({Torn} \cup Nat)]
      /\ \A b \in Apps : b # a => devices'[b] = devices[b]
      /\ \A i \in DOMAIN devices[a] : i \in DOMAIN devices'[a] /\ devices'[a][i] = devices[a][i]
      /\ got[a] # NoDevice => \E i \in DOMAIN devices'[a] : devices'[a][i] = got[a]
  <2>1. CASE devices' = [devices EXCEPT ![a] = Append(@, got[a])]
    <3>1. got[a] \in {Torn} \cup Nat
          BY <1>0, <1>1, <1>2 DEF TypeApps
    <3> QED
      BY <1>0, <2>1, <3>1, Gaining
  <2>2. CASE devices' = devices /\ ~(got[a] # NoDevice)
        BY <1>0, <2>2 DEF TypeApps
  <2> QED
    BY <2>1, <2>2
<1>4. /\ main[a] = "got"
      /\ \A i \in DOMAIN calls[a] : calls[a][i] # "ADD_CONNECTION" /\ calls[a][i] # "GET_DEVICE"
      BY <1>0, <1>1, <1>2, <1>3 DEF Calling, CallingOf
<1>5. TypeApps'
  BY <1>0, <1>1, <1>2, <1>3 DEF TypeApps
<1>6. Calling'
  <2>1. ASSUME NEW b \in Apps, b # a PROVE CallingOf(b)'
    <3>1. CallingOf(b)
          BY <1>0 DEF Calling
    <3>2. main'[b] = main[b] /\ calls'[b] = calls[b]
          BY <1>0, <1>1, <1>2, <1>3, <1>4, <2>1
    <3> QED
      BY <3>1, <3>2 DEF CallingOf
  <2>2. CallingOf(a)'
        BY <1>0, <1>1, <1>2, <1>3, <1>4 DEF Calling, CallingOf
  <2> QED
    BY <2>1, <2>2 DEF Calling
<1>7. Arrived'
  <2>1. \A b \in Apps : b # a => (Known(b)' <=> Known(b))
        BY <1>0, <1>1, <1>2, <1>3, <1>4 DEF Known
  <2>2. Known(a)'
        BY <1>0, <1>1, <1>2, <1>3, <1>4 DEF Known
  <2> QED
    BY <1>0, <1>1, <1>2, <1>3, <1>4, <2>1, <2>2 DEF Arrived
<1>8. Members'
  BY <1>0, <1>1, <1>4 DEF Members, TypeHost
<1>9. Informed'
  <2> SUFFICES ASSUME device' # NoDevice, ~spoiled'["CREATE_DEVICE"], NEW b \in clients', Due(b)'
               PROVE  Has(b)'
      BY DEF Informed
  <2>0. b \in Apps
        BY <1>0, <1>1, <1>2, <1>3, <1>4 DEF TypeHost
  <2>1. CASE b # a
    <3>1. Due(b) /\ b \in clients
          BY <1>0, <1>1, <1>2, <1>3, <1>4, <2>0, <2>1 DEF Due, Passed
    <3>2. Has(b)
          BY <1>0, <3>1 DEF Informed
    <3> QED
      BY <1>0, <1>1, <1>2, <1>3, <1>4, <2>0, <2>1, <3>2 DEF Has
  <2>2. CASE b = a
    <3>1. Has(a)
          BY <1>0, <1>1, <1>4, <2>2 DEF Informed, Due, Passed
    <3> QED
      BY <1>1, <1>3, <1>4, <2>2, <3>1 DEF Has
  <2> QED
    BY <2>1, <2>2
<1>10. TypeHost' /\ Handler' /\ Requests' /\ Awaited' /\ Visited'
      BY <1>0 DEF TypeHost, Handler, Requests, Awaited, Visited, Passed
<1> QED
    BY <1>5, <1>6, <1>7, <1>8, <1>9, <1>10 DEF Sound, Order, Delivery

\* Close preserves Sound.
LEMMA ClosePreserves ==
    ASSUME IInv, NEW a \in Apps, Close(a)
    PROVE  Sound'
<1> USE DEF Close
<1>0. /\ TypeHost /\ TypeApps /\ Handler /\ Requests /\ Calling /\ Arrived
      /\ Members /\ Awaited /\ Visited /\ Informed
      BY DEF IInv, Sound, Order, Delivery
<1>1. /\ main' \in [Apps -> MainStates] /\ main'[a] = "closed"
      /\ \A b \in Apps : b # a => main'[b] = main[b]
      /\ connected' \in [Apps -> BOOLEAN] /\ \A b \in Apps : b # a => connected'[b] = connected[b]
      BY <1>0 DEF TypeApps, MainStates
<1>2. /\ calls' \in [Apps -> Seq(Threads)]
      /\ \A b \in Apps : b # a => calls'[b] = calls[b]
      /\ \A i \in DOMAIN calls'[a] :
            \/ i \in DOMAIN calls[a] /\ calls'[a][i] = calls[a][i]
            \/ /\ i = Len(calls[a]) + 1 /\ i \notin DOMAIN calls[a]
               /\ calls'[a][i] = "REMOVE_CONNECTION"
  <2>1. CASE Call(a, "REMOVE_CONNECTION")
    <3>1. "REMOVE_CONNECTION" \in Threads
          BY DEF Threads
    <3> QED
      BY <1>0, <2>1, <3>1, AppCalling
  <2>2. CASE calls' = calls
        BY <1>0, <2>2 DEF TypeApps
  <2> QED
    BY <2>1, <2>2
<1>3. /\ main[a] = "ready"
      /\ \A i \in DOMAIN calls[a] : calls[a][i] # "ADD_CONNECTION" /\ calls[a][i] # "GET_DEVICE"
      BY <1>0, <1>1, <1>2 DEF Calling, CallingOf
<1>4. TypeApps'
  BY <1>0, <1>1, <1>2 DEF TypeApps
<1>5. Calling'
  <2>1. ASSUME NEW b \in Apps, b # a PROVE CallingOf(b)'
    <3>1. CallingOf(b)
          BY <1>0 DEF Calling
    <3>2. main'[b] = main[b] /\ calls'[b] = calls[b]
          BY <1>0, <1>1, <1>2, <1>3, <2>1
    <3> QED
      BY <3>1, <3>2 DEF CallingOf
  <2>2. CallingOf(a)'
        BY <1>0, <1>1, <1>2, <1>3 DEF Calling, CallingOf
  <2> QED
    BY <2>1, <2>2 DEF Calling
<1>6. Arrived'
  <2>1. \A b \in Apps : b # a => (Known(b)' <=> Known(b))
        BY <1>0, <1>1, <1>2, <1>3 DEF Known
  <2>2. Known(a)'
        BY <1>0, <1>1, <1>2, <1>3 DEF Known
  <2> QED
    BY <1>0, <1>1, <1>2, <1>3, <2>1, <2>2 DEF Arrived
<1>7. Members'
  BY <1>0, <1>1 DEF Members, TypeHost
<1>8. Informed'
  <2> SUFFICES ASSUME device' # NoDevice, ~spoiled'["CREATE_DEVICE"], NEW b \in clients', Due(b)'
               PROVE  Has(b)'
      BY DEF Informed
  <2>0. b \in Apps
        BY <1>0, <1>1, <1>2, <1>3 DEF TypeHost
  <2>1. CASE b # a
    <3>1. Due(b) /\ b \in clients
          BY <1>0, <1>1, <1>2, <1>3, <2>0, <2>1 DEF Due, Passed
    <3>2. Has(b)
          BY <1>0, <3>1 DEF Informed
    <3> QED
      BY <1>0, <1>1, <1>2, <1>3, <2>0, <2>1, <3>2 DEF Has
  <2>2. CASE b = a
        BY <1>1, <2>2 DEF Due
  <2> QED
    BY <2>1, <2>2
<1>9. TypeHost' /\ Handler' /\ Requests' /\ Awaited' /\ Visited'
      BY <1>0 DEF TypeHost, Handler, Requests, Awaited, Visited, Passed
<1> QED
    BY <1>4, <1>5, <1>6, <1>7, <1>8, <1>9 DEF Sound, Order, Delivery

\* Die preserves Sound.
LEMMA DiePreserves ==
    ASSUME IInv, NEW a \in Apps, Die(a)
    PROVE  Sound'
<1> USE DEF Die
<1>0. /\ TypeHost /\ TypeApps /\ Handler /\ Requests /\ Calling /\ Arrived
      /\ Members /\ Awaited /\ Visited /\ Informed
      BY DEF IInv, Sound, Order, Delivery
<1>1. TypeApps'
      BY <1>0 DEF TypeApps, MainStates
<1>2. Calling'
      BY <1>0 DEF Calling, CallingOf
<1>3. Arrived'
      BY <1>0 DEF Arrived, Known, Handler, Requests
<1>4. Members'
      BY <1>0 DEF Members
<1>5. Informed'
      BY <1>0 DEF Informed, Due, Has, Passed, Handler, Requests
<1>6. TypeHost' /\ Handler' /\ Requests' /\ Awaited' /\ Visited'
      BY <1>0 DEF TypeHost, Handler, Requests, Awaited, Visited, Passed
<1> QED
    BY <1>1, <1>2, <1>3, <1>4, <1>5, <1>6 DEF Sound, Order, Delivery

\* DeviceAdded preserves Sound.
LEMMA DeviceAddedPreserves ==
    ASSUME IInv, NEW a \in Apps, DeviceAdded(a)
    PROVE  Sound'
<1> USE DEF DeviceAdded, CreateDevice, Attached
<1>0. /\ TypeHost /\ TypeApps /\ Handler /\ Requests /\ Calling /\ Arrived
      /\ Members /\ Awaited /\ Visited /\ Informed
      BY DEF IInv, Sound, Order, Delivery
<1>1. /\ inbox' \in [Apps -> Seq(Messages)]
      /\ \A b \in Apps : b # a => inbox'[b] = inbox[b]
      /\ inbox[a] # <<>>
      /\ 1 \in DOMAIN inbox[a] /\ Head(inbox[a]) = inbox[a][1] /\ inbox[a][1] \in Messages
      /\ inbox[a][1].type = "CREATE_DEVICE"
      /\ Len(inbox'[a]) = Len(inbox[a]) - 1 /\ Len(inbox[a]) \in Nat
      /\ Len(inbox[a]) = Len(inbox'[a]) + 1 /\ Len(inbox'[a]) \in Nat
      /\ \A i \in DOMAIN inbox[a] : i = 1 \/
            (i - 1 \in DOMAIN inbox'[a] /\ inbox'[a][i - 1] = inbox[a][i])
      /\ \A i \in DOMAIN inbox'[a] :
            i \in Nat \ {0} /\ i + 1 \in DOMAIN inbox[a] /\ inbox'[a][i] = inbox[a][i + 1]
      BY <1>0, Receiving
<1>2. /\ calls' \in [Apps -> Seq(Threads)]
      /\ \A b \in Apps : b # a => calls'[b] = calls[b]
      /\ \A i \in DOMAIN calls'[a] :
            \/ i \in DOMAIN calls[a] /\ calls'[a][i] = calls[a][i]
            \/ /\ i = Len(calls[a]) + 1 /\ i \notin DOMAIN calls[a]
               /\ calls'[a][i] = "MIRRORING queue"
  <2>1. CASE Call(a, "MIRRORING queue")
    <3>1. "MIRRORING queue" \in Threads
          BY DEF Threads
    <3> QED
      BY <1>0, <2>1, <3>1, AppCalling
  <2>2. CASE calls' = calls
        BY <1>0, <2>2 DEF TypeApps
  <2> QED
    BY <2>1, <2>2
<1>3. Head(inbox[a]).value \in Nat
      BY <1>0, <1>1, <1>2 DEF Messages
<1>4. /\ devices' \in [Apps -> Seq({Torn} \cup Nat)]
      /\ \A b \in Apps : b # a => devices'[b] = devices[b]
      /\ \A i \in DOMAIN devices[a] : i \in DOMAIN devices'[a] /\ devices'[a][i] = devices[a][i]
      /\ Attached(a) => \E i \in DOMAIN devices'[a] : devices'[a][i] = Head(inbox[a]).value
  <2>1. CASE devices' = [devices EXCEPT ![a] = Append(@, Head(inbox[a]).value)]
    <3>1. Head(inbox[a]).value \in {Torn} \cup Nat
          BY <1>0, <1>1, <1>2, <1>3 DEF TypeApps
    <3> QED
      BY <1>0, <2>1, <3>1, Gaining
  <2>2. CASE devices' = devices /\ ~(Attached(a))
        BY <1>0, <2>2 DEF TypeApps
  <2> QED
    BY <2>1, <2>2
<1>5. /\ main[a] # "off" /\ main[a] # "adding"
      /\ \A i \in DOMAIN calls[a] : calls[a][i] # "ADD_CONNECTION"
  <2>1. Known(a)
        BY <1>0, <1>1 DEF Arrived
  <2>2. main[a] = "adding" => calls[a] = <<"ADD_CONNECTION">> /\ 1 \in DOMAIN <<"ADD_CONNECTION">>
                              /\ <<"ADD_CONNECTION">>[1] = "ADD_CONNECTION"
        BY <1>0 DEF Calling, CallingOf
  <2> QED
    BY <2>1, <2>2 DEF Known
<1>6. TypeApps'
  <2>1. queue' \in [Apps -> {"idle", "creating"}]
        BY <1>0 DEF TypeApps
  <2> QED
    BY <1>0, <1>1, <1>2, <1>4, <2>1 DEF TypeApps
<1>7. Calling'
  <2>1. ASSUME NEW b \in Apps, b # a PROVE CallingOf(b)'
    <3>1. CallingOf(b)
          BY <1>0 DEF Calling
    <3>2. main'[b] = main[b] /\ calls'[b] = calls[b]
          BY <1>2, <2>1
    <3> QED
      BY <3>1, <3>2 DEF CallingOf
  <2>2. CallingOf(a)'
    <3>1. CallingOf(a)
          BY <1>0 DEF Calling
    <3> QED
      BY <1>2, <1>5, <3>1 DEF CallingOf
  <2> QED
    BY <2>1, <2>2 DEF Calling
<1>8. Arrived'
  <2>1. \A b \in Apps : b # a => (Known(b)' <=> Known(b))
        BY <1>0, <1>1, <1>2, <1>3, <1>4, <1>5 DEF Known
  <2>2. Known(a)'
        BY <1>0, <1>1, <1>2, <1>3, <1>4, <1>5 DEF Known
  <2> QED
    BY <1>0, <1>1, <1>2, <1>3, <1>4, <1>5, <2>1, <2>2 DEF Arrived
<1>9. Awaited'
  <2>1. ASSUME NEW b \in clients, b # a PROVE inbox'[b] = inbox[b]
        BY <1>0, <1>1, <2>1 DEF TypeHost
  <2>2. ASSUME a \in clients, NEW i \in DOMAIN inbox'[a], inbox'[a][i].type = "FRAME"
        PROVE  step = "await" /\ cursor = a /\ i = Len(inbox'[a]) /\ inbox'[a][i].value = frame
    <3>1. i \in Nat /\ i + 1 \in DOMAIN inbox[a] /\ inbox'[a][i] = inbox[a][i + 1]
          BY <1>1, <2>2
    <3>2. step = "await" /\ cursor = a /\ i + 1 = Len(inbox[a]) /\ inbox[a][i + 1].value = frame
          BY <1>0, <2>2, <3>1 DEF Awaited
    <3>4. i \in Nat /\ Len(inbox'[a]) \in Nat /\ i + 1 = Len(inbox'[a]) + 1
          BY <1>1, <3>1, <3>2
    <3>5. i = Len(inbox'[a])
          BY <3>4, Successor, Zenon
    <3> QED
      BY <3>1, <3>2, <3>5
  <2> QED
    BY <1>0, <2>1, <2>2 DEF Awaited
<1>10. Informed'
  <2> SUFFICES ASSUME device' # NoDevice, ~spoiled'["CREATE_DEVICE"], NEW b \in clients', Due(b)'
               PROVE  Has(b)'
      BY DEF Informed
  <2>0. b \in Apps
        BY <1>0, <1>1, <1>2, <1>3, <1>4, <1>5 DEF TypeHost
  <2>1. CASE b # a
    <3>1. Due(b) /\ b \in clients
          BY <1>0, <1>1, <1>2, <1>3, <1>4, <1>5, <2>0, <2>1 DEF Due, Passed
    <3>2. Has(b)
          BY <1>0, <3>1 DEF Informed
    <3> QED
      BY <1>0, <1>1, <1>2, <1>3, <1>4, <1>5, <2>0, <2>1, <3>2 DEF Has
  <2>2. CASE b = a
    <3>1. Has(a)
          BY <1>0, <2>2 DEF Informed, Due, Passed
    <3>2. CASE \E i \in DOMAIN devices[a] : devices[a][i] = device
          BY <1>4, <2>2, <3>2 DEF Has
    <3>3. CASE \E i \in DOMAIN inbox[a] :
                  inbox[a][i].type = "CREATE_DEVICE" /\ inbox[a][i].value = device
      <4>1. PICK i \in DOMAIN inbox[a] :
                inbox[a][i].type = "CREATE_DEVICE" /\ inbox[a][i].value = device
            BY <3>3
      <4>2. CASE i = 1 /\ Attached(a)
            BY <1>1, <1>4, <2>2, <4>1, <4>2 DEF Has
      <4>3. CASE i = 1 /\ ~Attached(a)
        <5>1. main[a] = "added"
              BY <1>0, <1>5, <2>2, <4>3 DEF Due, TypeApps, MainStates
        <5> QED
          BY <2>2, <5>1 DEF Has
      <4>4. CASE i # 1
            BY <1>1, <2>2, <4>1, <4>4 DEF Has
      <4> QED
        BY <4>2, <4>3, <4>4
    <3> QED
      BY <2>2, <3>1, <3>2, <3>3 DEF Has
  <2> QED
    BY <2>1, <2>2
<1>11. TypeHost' /\ Handler' /\ Requests' /\ Members' /\ Visited'
      BY <1>0 DEF TypeHost, Handler, Requests, Members, Visited, Passed
<1> QED
    BY <1>6, <1>7, <1>8, <1>9, <1>10, <1>11 DEF Sound, Order, Delivery

\* FrameReady preserves Sound.
LEMMA FrameReadyPreserves ==
    ASSUME IInv, NEW a \in Apps, FrameReady(a)
    PROVE  Sound'
<1> USE DEF FrameReady, Combine
<1>0. /\ TypeHost /\ TypeApps /\ Handler /\ Requests /\ Calling /\ Arrived
      /\ Members /\ Awaited /\ Visited /\ Informed
      BY DEF IInv, Sound, Order, Delivery
<1>1. /\ inbox' \in [Apps -> Seq(Messages)]
      /\ \A b \in Apps : b # a => inbox'[b] = inbox[b]
      /\ inbox[a] # <<>>
      /\ 1 \in DOMAIN inbox[a] /\ Head(inbox[a]) = inbox[a][1] /\ inbox[a][1] \in Messages
      /\ inbox[a][1].type = "FRAME"
      /\ Len(inbox'[a]) = Len(inbox[a]) - 1 /\ Len(inbox[a]) \in Nat
      /\ Len(inbox[a]) = Len(inbox'[a]) + 1 /\ Len(inbox'[a]) \in Nat
      /\ \A i \in DOMAIN inbox[a] : i = 1 \/
            (i - 1 \in DOMAIN inbox'[a] /\ inbox'[a][i - 1] = inbox[a][i])
      /\ \A i \in DOMAIN inbox'[a] :
            i \in Nat \ {0} /\ i + 1 \in DOMAIN inbox[a] /\ inbox'[a][i] = inbox[a][i + 1]
      BY <1>0, Receiving
<1>2. PICK surface \in BOOLEAN :
         /\ seen' = IF surface /\ Attached(a)
                    THEN [seen EXCEPT ![a] = Head(inbox[a]).value] ELSE seen
         /\ IF step = "await" /\ cursor = a /\ Head(inbox[a]).value = frame
            THEN step' = "advance" /\ ok' = (ok /\ surface)
            ELSE UNCHANGED <<step, ok>>
      BY DEF FrameReady, Combine
<1>3. /\ Head(inbox[a]).value \in Nat /\ seen' \in [Apps -> Nat]
      /\ \A b \in Apps : b # a => seen'[b] = seen[b]
      /\ surface /\ Attached(a) => seen'[a] = Head(inbox[a]).value
      BY <1>0, <1>1, <1>2 DEF Messages, TypeApps
<1>4. step' = step \/ (step = "await" /\ step' = "advance" /\ cursor = a)
      BY <1>2
<1>5. ok' \in BOOLEAN /\ (ok' => ok)
  <2>1. ok' = (ok /\ surface) \/ ok' = ok
        BY <1>2
  <2>2. ok \in BOOLEAN
        BY <1>0 DEF TypeHost
  <2>3. ok' \in BOOLEAN
        BY <2>1, <2>2
  <2>4. CASE ok = TRUE
        BY <2>3, <2>4
  <2>5. CASE ok = FALSE
        BY <2>1, <2>5
  <2> QED
    BY <2>2, <2>3, <2>4, <2>5
<1>6. a \in clients =>
          /\ step = "await" /\ cursor = a /\ Len(inbox[a]) = 1 /\ Head(inbox[a]).value = frame
  <2> SUFFICES ASSUME a \in clients
               PROVE  /\ step = "await" /\ cursor = a
                      /\ Len(inbox[a]) = 1 /\ Head(inbox[a]).value = frame
      OBVIOUS
  <2>1. 1 \in DOMAIN inbox[a] /\ inbox[a][1].type = "FRAME" /\ Head(inbox[a]) = inbox[a][1]
        BY <1>1
  <2>2. \A i \in DOMAIN inbox[a] : inbox[a][i].type = "FRAME" =>
            step = "await" /\ cursor = a /\ i = Len(inbox[a]) /\ inbox[a][i].value = frame
        BY <1>0 DEF Awaited
  <2> QED
    BY <2>1, <2>2
<1>7. TypeHost'
  BY <1>0, <1>4, <1>5 DEF TypeHost
<1>8. TypeApps'
  BY <1>0, <1>1, <1>3 DEF TypeApps
<1>9. Handler'
  BY <1>0, <1>4 DEF Handler
<1>10. Arrived'
  BY <1>0, <1>1 DEF Arrived, Known
<1>11. Awaited'
  <2>1. ASSUME NEW b \in clients, b # a, NEW i \in DOMAIN inbox'[b], inbox'[b][i].type = "FRAME"
        PROVE  /\ step' = "await" /\ cursor = b
               /\ i = Len(inbox'[b]) /\ inbox'[b][i].value = frame
    <3>1. b \in Apps /\ inbox'[b] = inbox[b]
          BY <1>0, <1>1, <2>1 DEF TypeHost
    <3> QED
      BY <1>0, <1>4, <2>1, <3>1 DEF Awaited
  <2>2. ASSUME a \in clients PROVE DOMAIN inbox'[a] = {}
    <3>1. Len(inbox[a]) = 1 /\ Len(inbox'[a]) = 0
          BY <1>1, <1>6, <2>2
    <3>2. inbox'[a] \in Seq(Messages)
          BY <1>1
    <3> HIDE DEF Messages
    <3>3. DOMAIN inbox'[a] = 1 .. Len(inbox'[a])
          BY <3>2
    <3> QED
      BY <3>1, <3>3
  <2> QED
    BY <2>1, <2>2 DEF Awaited
<1>12. Visited'
  <2> SUFFICES ASSUME op = "FRAME", ok', ~spoiled["FRAME"], NEW b \in stable, Passed(b)'
               PROVE  seen'[b] = frame
      BY DEF Visited
  <2>1. b \in clients /\ b \in Apps
        BY <1>0 DEF Handler, TypeHost
  <2>2. CASE b = a
    <3>1. surface
          BY <1>2, <1>6, <2>1, <2>2
    <3>2. Attached(a)
          BY <2>2 DEF IInv, Listening, Message
    <3> QED
      BY <1>3, <1>6, <2>1, <2>2, <3>1, <3>2
  <2>3. CASE b # a
    <3>1. Passed(b)
          BY <1>4, <2>3 DEF Passed
    <3> QED
      BY <1>0, <1>3, <1>5, <2>1, <2>3, <3>1 DEF Visited
  <2> QED
    BY <2>2, <2>3
<1>13. Informed'
  <2> SUFFICES ASSUME device' # NoDevice, ~spoiled'["CREATE_DEVICE"], NEW b \in clients', Due(b)'
               PROVE  Has(b)'
      BY DEF Informed
  <2>0. b \in Apps
        BY <1>0 DEF TypeHost
  <2>1. Due(b)
        BY <1>0, <1>4 DEF Due, Passed, Handler
  <2>2. Has(b)
        BY <1>0, <2>1 DEF Informed
  <2>3. CASE b # a
        BY <1>1, <2>0, <2>2, <2>3 DEF Has
  <2>4. CASE b = a
    <3>1. ASSUME NEW i \in DOMAIN inbox[a], inbox[a][i].type = "CREATE_DEVICE"
          PROVE  i - 1 \in DOMAIN inbox'[a] /\ inbox'[a][i - 1] = inbox[a][i]
          BY <1>1, <3>1
    <3> QED
      BY <2>2, <2>4, <3>1 DEF Has
  <2> QED
    BY <2>3, <2>4
<1>14. Requests' /\ Calling' /\ Members'
      BY <1>0 DEF Requests, Calling, CallingOf, Members
<1> QED
    BY <1>7, <1>8, <1>9, <1>10, <1>11, <1>12, <1>13, <1>14 DEF Sound, Order, Delivery

\* AddConnection preserves Sound.
LEMMA AddConnectionPreserves ==
    ASSUME IInv, NEW a \in Apps, AddConnection(a)
    PROVE  Sound'
<1> USE DEF AddConnection, Resume
<1>0. /\ TypeHost /\ TypeApps /\ Handler /\ Requests /\ Calling /\ Arrived
      /\ Members /\ Awaited /\ Visited /\ Informed
      BY DEF IInv, Sound, Order, Delivery
<1>1. /\ calls' \in [Apps -> Seq(Threads)]
      /\ 1 \in DOMAIN calls[a] /\ calls[a][1] = "ADD_CONNECTION" /\ calls[a] # <<>>
      /\ \A b \in Apps : b # a => calls'[b] = calls[b]
      /\ \A i \in DOMAIN calls'[a] :
            i \in Nat \ {0} /\ i + 1 \in DOMAIN calls[a] /\ calls'[a][i] = calls[a][i + 1]
      /\ calls[a] = <<"ADD_CONNECTION">> => calls'[a] = <<>>
      BY <1>0, AppHandling
<1>2. calls[a] = <<"ADD_CONNECTION">> /\ calls'[a] = <<>> /\ main[a] \in {"adding", "dead"}
      BY <1>0, <1>1 DEF Calling, CallingOf
<1>3. ~Known(a) /\ a \notin clients /\ inbox[a] = <<>> /\ cursor # a
      BY <1>0, <1>1, <1>2 DEF Arrived, Known
<1>4. /\ main' \in [Apps -> MainStates]
      /\ main'[a] \in {"added", "dead"}
      /\ \A b \in Apps : b # a => main'[b] = main[b]
      /\ connected' \in [Apps -> BOOLEAN] /\ connected'[a]
      /\ \A b \in Apps : b # a => connected'[b] = connected[b]
      BY <1>0, <1>1, <1>2, <1>3 DEF TypeApps, MainStates
<1>5. TypeHost'
      BY <1>0, <1>1, <1>2, <1>3, <1>4 DEF TypeHost, HostCalls
<1>6. TypeApps'
  BY <1>0, <1>1, <1>4 DEF TypeApps
<1>7. Handler'
      BY <1>0, <1>1, <1>2, <1>3, <1>4 DEF Handler, Handler, Requests
<1>8. Calling'
  <2>1. ASSUME NEW b \in Apps, b # a PROVE CallingOf(b)'
    <3>1. CallingOf(b)
          BY <1>0 DEF Calling
    <3>2. main'[b] = main[b] /\ calls'[b] = calls[b]
          BY <1>0, <1>1, <1>2, <1>3, <1>4, <2>1
    <3> QED
      BY <3>1, <3>2 DEF CallingOf
  <2>2. CallingOf(a)'
        BY <1>0, <1>1, <1>2, <1>3, <1>4 DEF Calling, CallingOf
  <2> QED
    BY <2>1, <2>2 DEF Calling
<1>9. Arrived'
  <2>1. \A b \in Apps : b # a => (Known(b)' <=> Known(b))
        BY <1>0, <1>1, <1>2, <1>3, <1>4 DEF Known
  <2>2. Known(a)'
        BY <1>0, <1>1, <1>2, <1>3, <1>4 DEF Known
  <2> QED
    BY <1>0, <1>1, <1>2, <1>3, <1>4, <2>1, <2>2 DEF Arrived
<1>10. Members'
  BY <1>0, <1>4 DEF Members, TypeHost
<1>11. Awaited'
  <2>1. DOMAIN inbox[a] = {}
        BY <1>3
  <2> QED
    BY <1>0, <2>1 DEF Awaited
<1>12. Informed'
  <2> SUFFICES ASSUME device' # NoDevice, ~spoiled'["CREATE_DEVICE"], NEW b \in clients', Due(b)'
               PROVE  Has(b)'
      BY DEF Informed
  <2>0. b \in Apps
        BY <1>0, <1>1, <1>2, <1>3, <1>4 DEF TypeHost
  <2>1. CASE b # a
    <3>1. Due(b) /\ b \in clients
          BY <1>0, <1>1, <1>2, <1>3, <1>4, <2>0, <2>1 DEF Due, Passed
    <3>2. Has(b)
          BY <1>0, <3>1 DEF Informed
    <3> QED
      BY <1>0, <1>1, <1>2, <1>3, <1>4, <2>0, <2>1, <3>2 DEF Has
  <2>2. CASE b = a
        BY <1>4, <2>2 DEF Due, Has
  <2> QED
    BY <2>1, <2>2
<1>13. Requests' /\ Visited'
      BY <1>0 DEF Requests, Visited, Passed
<1> QED
    BY <1>5, <1>6, <1>7, <1>8, <1>9, <1>10, <1>11, <1>12, <1>13 DEF Sound, Order, Delivery

\* RemoveConnection preserves Sound.
LEMMA RemoveConnectionPreserves ==
    ASSUME IInv, NEW a \in Apps, RemoveConnection(a)
    PROVE  Sound'
<1> USE DEF RemoveConnection
<1>0. /\ TypeHost /\ TypeApps /\ Handler /\ Requests /\ Calling /\ Arrived
      /\ Members /\ Awaited /\ Visited /\ Informed
      BY DEF IInv, Sound, Order, Delivery
<1>1. /\ calls' \in [Apps -> Seq(Threads)]
      /\ 1 \in DOMAIN calls[a] /\ calls[a][1] = "REMOVE_CONNECTION" /\ calls[a] # <<>>
      /\ \A b \in Apps : b # a => calls'[b] = calls[b]
      /\ \A i \in DOMAIN calls'[a] :
            i \in Nat \ {0} /\ i + 1 \in DOMAIN calls[a] /\ calls'[a][i] = calls[a][i + 1]
      /\ calls[a] = <<"REMOVE_CONNECTION">> => calls'[a] = <<>>
      BY <1>0, AppHandling
<1>2. TypeHost'
      BY <1>0, <1>1 DEF TypeHost, HostCalls
<1>3. TypeApps'
      BY <1>0, <1>1 DEF TypeApps, MainStates
<1>4. Handler'
  <2>1. CASE op # "none" /\ cursor = a
    <3>1. spoiled'[op]
          BY <1>0, <2>1 DEF TypeHost
    <3> QED
      BY <1>0, <2>1, <3>1 DEF Handler
  <2>2. CASE ~(op # "none" /\ cursor = a)
    <3>1. spoiled' = spoiled /\ (cursor # End => cursor # a)
          BY <1>0, <2>2 DEF Handler
    <3> QED
      BY <1>0, <3>1 DEF Handler
  <2> QED
    BY <2>1, <2>2
<1>5. Calling'
  <2>1. ASSUME NEW b \in Apps, b # a PROVE CallingOf(b)'
    <3>1. CallingOf(b)
          BY <1>0 DEF Calling
    <3>2. main'[b] = main[b] /\ calls'[b] = calls[b]
          BY <1>0, <1>1, <2>1
    <3> QED
      BY <3>1, <3>2 DEF CallingOf
  <2>2. CallingOf(a)'
        BY <1>0, <1>1 DEF Calling, CallingOf
  <2> QED
    BY <2>1, <2>2 DEF Calling
<1>6. Arrived'
      BY <1>0, <1>1 DEF Arrived, Known, Handler, Requests
<1>7. Members'
      BY <1>0, <1>1 DEF Members
<1>8. Awaited'
      BY <1>0, <1>1 DEF Awaited, Handler, Requests
<1>9. Visited'
      BY <1>0, <1>1 DEF Visited, Passed, Handler, Requests
<1>10. Informed'
      BY <1>0, <1>1 DEF Informed, Due, Has, Passed, Handler, Requests
<1>11. Requests'
      BY <1>0 DEF Requests
<1> QED
    BY <1>2, <1>3, <1>4, <1>5, <1>6, <1>7, <1>8, <1>9, <1>10, <1>11 DEF Sound, Order, Delivery

\* GetDevice preserves Sound.
LEMMA GetDevicePreserves ==
    ASSUME IInv, NEW a \in Apps, GetDevice(a)
    PROVE  Sound'
<1> USE DEF GetDevice, Resume, Readable
<1>0. /\ TypeHost /\ TypeApps /\ Handler /\ Requests /\ Calling /\ Arrived
      /\ Members /\ Awaited /\ Visited /\ Informed
      BY DEF IInv, Sound, Order, Delivery
<1>1. /\ calls' \in [Apps -> Seq(Threads)]
      /\ 1 \in DOMAIN calls[a] /\ calls[a][1] = "GET_DEVICE" /\ calls[a] # <<>>
      /\ \A b \in Apps : b # a => calls'[b] = calls[b]
      /\ \A i \in DOMAIN calls'[a] :
            i \in Nat \ {0} /\ i + 1 \in DOMAIN calls[a] /\ calls'[a][i] = calls[a][i + 1]
      /\ calls[a] = <<"GET_DEVICE">> => calls'[a] = <<>>
      BY <1>0, AppHandling
<1>2. /\ main' \in [Apps -> MainStates]
      /\ main'[a] = IF main[a] = "getting" THEN "got" ELSE main[a]
      /\ \A b \in Apps : b # a => main'[b] = main[b]
      BY <1>0, <1>1 DEF TypeApps, MainStates
<1>3. /\ got' \in [Apps -> {Torn} \cup Nat] /\ (half \/ got'[a] = device)
      /\ \A b \in Apps : b # a => got'[b] = got[b]
      BY <1>0, <1>1, <1>2 DEF TypeApps, TypeHost
<1>4. main[a] \in {"getting", "dead"} /\ \A i \in DOMAIN calls'[a] : calls'[a][i] # "GET_DEVICE"
      /\ calls'[a][i] # "ADD_CONNECTION"
  <2>1. main[a] \in {"getting", "dead"}
        BY <1>0, <1>1 DEF Calling, CallingOf
  <2>2. ASSUME NEW i \in DOMAIN calls'[a]
        PROVE  calls'[a][i] # "GET_DEVICE" /\ calls'[a][i] # "ADD_CONNECTION"
    <3>1. i + 1 \in DOMAIN calls[a] /\ calls'[a][i] = calls[a][i + 1]
          BY <1>1
    <3>2. calls[a][i + 1] = "GET_DEVICE" => i + 1 = 1
          BY <1>0, <1>1, <3>1 DEF Calling, CallingOf
    <3>3. i \in Nat \ {0}
          BY <1>1
    <3>4. calls[a][i + 1] # "ADD_CONNECTION"
      <4>1. <<"ADD_CONNECTION">>[1] = "ADD_CONNECTION"
            OBVIOUS
      <4>2. calls[a] # <<"ADD_CONNECTION">>
            BY <1>1, <4>1
      <4> QED
        BY <1>0, <3>1, <4>2 DEF Calling, CallingOf
    <3> QED
      BY <3>1, <3>2, <3>3, <3>4
  <2> QED
    BY <2>1, <2>2
<1>5. TypeApps'
  BY <1>0, <1>1, <1>2, <1>3 DEF TypeApps
<1>6. Calling'
  <2>1. ASSUME NEW b \in Apps, b # a PROVE CallingOf(b)'
    <3>1. CallingOf(b)
          BY <1>0 DEF Calling
    <3>2. main'[b] = main[b] /\ calls'[b] = calls[b]
          BY <1>0, <1>1, <1>2, <1>3, <1>4, <2>1
    <3> QED
      BY <3>1, <3>2 DEF CallingOf
  <2>2. CallingOf(a)'
        BY <1>0, <1>1, <1>2, <1>3, <1>4 DEF Calling, CallingOf
  <2> QED
    BY <2>1, <2>2 DEF Calling
<1>7. Arrived'
  <2>1. \A b \in Apps : b # a => (Known(b)' <=> Known(b))
        BY <1>0, <1>1, <1>2, <1>3, <1>4 DEF Known
  <2>2. Known(a)'
        BY <1>0, <1>1, <1>2, <1>3, <1>4 DEF Known
  <2> QED
    BY <1>0, <1>1, <1>2, <1>3, <1>4, <2>1, <2>2 DEF Arrived
<1>8. Members'
      BY <1>0, <1>1, <1>2, <1>3, <1>4 DEF Members
<1>9. Informed'
  <2> SUFFICES ASSUME device' # NoDevice, ~spoiled'["CREATE_DEVICE"], NEW b \in clients', Due(b)'
               PROVE  Has(b)'
      BY DEF Informed
  <2>0. b \in Apps
        BY <1>0, <1>1, <1>2, <1>3, <1>4 DEF TypeHost
  <2>1. CASE b # a
    <3>1. Due(b) /\ b \in clients
          BY <1>0, <1>1, <1>2, <1>3, <1>4, <2>0, <2>1 DEF Due, Passed
    <3>2. Has(b)
          BY <1>0, <3>1 DEF Informed
    <3> QED
      BY <1>0, <1>1, <1>2, <1>3, <1>4, <2>0, <2>1, <3>2 DEF Has
  <2>2. CASE b = a
    <3>1. ~half /\ main[a] = "getting"
          BY <1>0, <1>2, <1>4, <2>2 DEF Handler, Due
    <3> QED
      BY <1>2, <1>3, <2>2, <3>1 DEF Has
  <2> QED
    BY <2>1, <2>2
<1>10. TypeHost' /\ Handler' /\ Requests' /\ Awaited' /\ Visited'
      BY <1>0 DEF TypeHost, Handler, Requests, Awaited, Visited, Passed
<1> QED
    BY <1>5, <1>6, <1>7, <1>8, <1>9, <1>10 DEF Sound, Order, Delivery

\* Mirroring preserves Sound.
LEMMA MirroringPreserves ==
    ASSUME IInv, NEW a \in Apps, Mirroring(a)
    PROVE  Sound'
<1> USE DEF Mirroring, Resume
<1>0. /\ TypeHost /\ TypeApps /\ Handler /\ Requests /\ Calling /\ Arrived
      /\ Members /\ Awaited /\ Visited /\ Informed
      BY DEF IInv, Sound, Order, Delivery
<1>1. PICK c \in {"MIRRORING main", "MIRRORING queue"} : Request(a, c)
      BY DEF Mirroring
<1>2. /\ calls' \in [Apps -> Seq(Threads)]
      /\ 1 \in DOMAIN calls[a] /\ calls[a][1] = c /\ calls[a] # <<>>
      /\ \A b \in Apps : b # a => calls'[b] = calls[b]
      /\ \A i \in DOMAIN calls'[a] :
            i \in Nat \ {0} /\ i + 1 \in DOMAIN calls[a] /\ calls'[a][i] = calls[a][i + 1]
      BY <1>0, <1>1, AppHandling
<1>3. /\ main' \in [Apps -> MainStates]
      /\ main'[a] = main[a] \/ (main[a] = "creating" /\ main'[a] = "ready")
      /\ \A b \in Apps : b # a => main'[b] = main[b]
      /\ queue' \in [Apps -> {"idle", "creating"}]
      BY <1>0, <1>1, <1>2 DEF TypeApps, MainStates
<1>4. /\ main[a] # "off" /\ main[a] # "adding"
      /\ \A i \in DOMAIN calls[a] : calls[a][i] # "ADD_CONNECTION"
  <2>1. <<"ADD_CONNECTION">>[1] = "ADD_CONNECTION"
        OBVIOUS
  <2>2. calls[a] # <<"ADD_CONNECTION">>
        BY <1>2, <2>1
  <2>3. CallingOf(a)
        BY <1>0 DEF Calling
  <2> QED
    BY <1>2, <2>2, <2>3 DEF CallingOf
<1>5. \A i, j \in DOMAIN calls'[a] :
          calls'[a][i] = "GET_DEVICE" =>
              main'[a] \in {"getting", "dead"} /\ (calls'[a][j] = "GET_DEVICE" => i = j)
  <2>1. CallingOf(a)
        BY <1>0 DEF Calling
  <2> SUFFICES ASSUME NEW i \in DOMAIN calls'[a], NEW j \in DOMAIN calls'[a],
                      calls'[a][i] = "GET_DEVICE"
               PROVE  main'[a] \in {"getting", "dead"} /\ (calls'[a][j] = "GET_DEVICE" => i = j)
      OBVIOUS
  <2>2. /\ i \in Nat /\ i + 1 \in DOMAIN calls[a] /\ calls'[a][i] = calls[a][i + 1]
        /\ j \in Nat /\ j + 1 \in DOMAIN calls[a] /\ calls'[a][j] = calls[a][j + 1]
        BY <1>2
  <2>3. main[a] \in {"getting", "dead"} /\ (calls[a][j + 1] = "GET_DEVICE" => i + 1 = j + 1)
        BY <2>1, <2>2 DEF CallingOf
  <2>4. main'[a] \in {"getting", "dead"}
        BY <1>3, <2>3
  <2>5. ASSUME calls'[a][j] = "GET_DEVICE" PROVE i = j
    <3>1. i \in Nat /\ j \in Nat /\ i + 1 = j + 1
          BY <2>2, <2>3, <2>5
    <3> QED
      BY <3>1, Successor, Zenon
  <2> QED
    BY <2>4, <2>5
<1>6. TypeApps'
  BY <1>0, <1>2, <1>3 DEF TypeApps
<1>7. Calling'
  <2>1. ASSUME NEW b \in Apps, b # a PROVE CallingOf(b)'
    <3>1. CallingOf(b)
          BY <1>0 DEF Calling
    <3>2. main'[b] = main[b] /\ calls'[b] = calls[b]
          BY <1>2, <1>3, <2>1
    <3> QED
      BY <3>1, <3>2 DEF CallingOf
  <2>2. CallingOf(a)'
    <3>1. main'[a] # "off" /\ main'[a] # "adding"
          BY <1>3, <1>4
    <3>2. \A i \in DOMAIN calls'[a] : calls'[a][i] # "ADD_CONNECTION"
          BY <1>2, <1>4
    <3> QED
      BY <1>5, <3>1, <3>2 DEF CallingOf
  <2> QED
    BY <2>1, <2>2 DEF Calling
<1>8. Arrived'
  <2>1. \A b \in Apps : b # a => (Known(b)' <=> Known(b))
        BY <1>2, <1>3 DEF Known
  <2>2. Known(a)'
    <3>1. main'[a] # "off"
          BY <1>3, <1>4
    <3>2. \A i \in DOMAIN calls'[a] : calls'[a][i] # "ADD_CONNECTION"
          BY <1>2, <1>4
    <3> QED
      BY <3>1, <3>2 DEF Known
  <2> QED
    BY <1>0, <2>1, <2>2 DEF Arrived
<1>9. Members'
  BY <1>0, <1>3 DEF Members, TypeHost
<1>10. Informed'
  <2> SUFFICES ASSUME device' # NoDevice, ~spoiled'["CREATE_DEVICE"], NEW b \in clients', Due(b)'
               PROVE  Has(b)'
      BY DEF Informed
  <2>0. b \in Apps
        BY <1>0, <1>1, <1>2, <1>3, <1>4, <1>5 DEF TypeHost
  <2>1. CASE b # a
    <3>1. Due(b) /\ b \in clients
          BY <1>0, <1>1, <1>2, <1>3, <1>4, <1>5, <2>0, <2>1 DEF Due, Passed
    <3>2. Has(b)
          BY <1>0, <3>1 DEF Informed
    <3> QED
      BY <1>0, <1>1, <1>2, <1>3, <1>4, <1>5, <2>0, <2>1, <3>2 DEF Has
  <2>2. CASE b = a
    <3>1. Has(a)
          BY <1>0, <1>3, <2>2 DEF Informed, Due, Passed
    <3> QED
      BY <1>3, <2>2, <3>1 DEF Has
  <2> QED
    BY <2>1, <2>2
<1>11. TypeHost' /\ Handler' /\ Requests' /\ Awaited' /\ Visited'
      BY <1>0 DEF TypeHost, Handler, Requests, Awaited, Visited, Passed
<1> QED
    BY <1>6, <1>7, <1>8, <1>9, <1>10, <1>11 DEF Sound, Order, Delivery

\* AssistantCrash preserves Sound.
LEMMA AssistantCrashPreserves ==
    ASSUME IInv, AssistantCrash
    PROVE  Sound'
<1> USE DEF AssistantCrash
<1>0. /\ TypeHost /\ TypeApps /\ Handler /\ Requests /\ Calling /\ Arrived
      /\ Members /\ Awaited /\ Visited /\ Informed
      BY DEF IInv, Sound, Order, Delivery
<1>1. TypeHost'
  <2>1. sent' \in Seq(HostCalls)
        BY EmptySeq
  <2>2. answer' \in {"none", "true", "false"} /\ crashes' \in Nat
        BY <1>0 DEF TypeHost
  <2> QED
    BY <1>0, <2>1, <2>2 DEF TypeHost, HostCalls
<1>2. TypeApps'
  BY <1>0, EmptySeq DEF TypeApps, MainStates
<1>3. Handler'
      BY <1>0 DEF Handler, Handler, Requests
<1>4. Requests'
      BY <1>0 DEF Requests, Handler, Requests
<1>5. Calling'
      BY <1>0 DEF Calling, CallingOf
<1>6. Arrived'
      BY <1>0 DEF Arrived, Known, Handler, Requests
<1>7. Members'
      BY <1>0 DEF Members
<1>8. Awaited'
      BY <1>0 DEF Awaited, Handler, Requests
<1>9. Visited'
      BY <1>0 DEF Visited, Passed, Handler, Requests
<1>10. Informed'
      BY <1>0 DEF Informed, Due, Has, Passed, Handler, Requests
<1> QED
    BY <1>1, <1>2, <1>3, <1>4, <1>5, <1>6, <1>7, <1>8, <1>9, <1>10 DEF Sound, Order, Delivery

\* Every step preserves Sound.
LEMMA SoundStep ==
    ASSUME IInv, [Next]_vars
    PROVE  Sound'
<1>1. CASE UNCHANGED vars
      BY <1>1 DEF vars, IInv, Sound, TypeHost, TypeApps, Order, Delivery, Handler, Requests, Calling,
                  CallingOf, Arrived, Known, Members, Awaited, Visited, Passed, Informed, Due, Has
<1>2. CASE CallCreate \/ CallUpload \/ CallSetMirroring \/ CallDestroy
      BY <1>2, CallCreatePreserves, CallUploadPreserves, CallSetMirroringPreserves,
         CallDestroyPreserves
<1>3. CASE HostHandler
      BY <1>3, AllocateDevicePreserves, FillDevicePreserves, BeginFramePreserves,
         SetMirroringPreserves, DestroyDevicePreserves, NotifyClientPreserves,
         SendFramePreserves, FrameErrorPreserves, AdvancePreserves, ReplyHostPreserves
         DEF HostHandler
<1>4. ASSUME NEW a \in Apps,
             Construct(a) \/ MainThread(a) \/ Close(a) \/ Die(a) \/ QueueThread(a) \/ AppHandler(a)
      PROVE  Sound'
  <2>1. CASE Construct(a) \/ Close(a) \/ Die(a)
        BY <2>1, ConstructPreserves, ClosePreserves, DiePreserves
  <2>2. CASE MainThread(a)
        BY <2>2, AttachCallbacksPreserves, InitializePreserves, InitializeDevicePreserves
           DEF MainThread
  <2>3. CASE QueueThread(a)
        BY <2>3, DeviceAddedPreserves, FrameReadyPreserves DEF QueueThread
  <2>4. CASE AppHandler(a)
        BY <2>4, AddConnectionPreserves, RemoveConnectionPreserves, GetDevicePreserves,
           MirroringPreserves DEF AppHandler
  <2> QED
    BY <1>4, <2>1, <2>2, <2>3, <2>4
<1> QED
    BY <1>1, <1>2, <1>3, <1>4, AssistantCrashPreserves DEF Next

\* No step takes its callbacks from an application that lives.
LEMMA ListeningStep ==
    ASSUME IInv, [Next]_vars
    PROVE  Listening'
<1>1. /\ main \in [Apps -> MainStates] /\ stable \subseteq Apps
      /\ \A a \in stable : Attached(a) \/ Departed(a)
      BY DEF IInv, Sound, TypeApps, TypeHost, Listening
<1>2. CASE CallCreate \/ CallUpload \/ CallSetMirroring \/ CallDestroy \/ UNCHANGED vars
      BY <1>1, <1>2 DEF CallCreate, CallUpload, CallSetMirroring, CallDestroy, vars, Listening,
                        Attached
<1>3. CASE HostHandler
  <2>1. main' = main /\ (stable' = stable \/ stable' = {} \/ stable' = {a \in clients : Attached(a)})
        BY <1>3 DEF HostHandler, AllocateDevice, FillDevice, BeginFrame, SetMirroring,
           DestroyDevice, NotifyClient, SendFrame, FrameError, Advance, ReplyHost, BeginLoop
  <2> QED
    BY <1>1, <2>1 DEF Listening, Attached
<1>4. CASE AssistantCrash
      BY <1>4 DEF AssistantCrash, Listening
<1>5. ASSUME NEW a \in Apps, Construct(a) \/ MainThread(a) \/ Close(a) \/ Die(a)
      PROVE  Listening'
  <2>1. /\ stable' = stable /\ \A b \in Apps : b # a => main'[b] = main[b]
        /\ Attached(a) \/ Departed(a) => Attached(a)' \/ Departed(a)'
        BY <1>1, <1>5 DEF Construct, MainThread, AttachCallbacks, Initialize, InitializeDevice,
                          Close, Die, Attached
  <2> QED
    BY <1>1, <2>1 DEF Listening, Attached
<1>6. ASSUME NEW a \in Apps, QueueThread(a) \/ AppHandler(a)
      PROVE  Listening'
  <2>1. /\ stable' \subseteq stable /\ \A b \in Apps : b # a => main'[b] = main[b]
        /\ Attached(a) \/ Departed(a) => Attached(a)' \/ Departed(a)'
        BY <1>1, <1>6 DEF QueueThread, DeviceAdded, FrameReady, AppHandler, AddConnection,
                          RemoveConnection, GetDevice, Mirroring, Resume, Attached
  <2> QED
    BY <1>1, <2>1 DEF Listening, Attached
<1> QED
    BY <1>2, <1>3, <1>4, <1>5, <1>6 DEF Next

\* The invariant is inductive.
LEMMA NextPreserves ==
    ASSUME IInv, [Next]_vars
    PROVE  IInv'
BY SoundStep, ListeningStep DEF IInv

-----------------------------------------------------------------------------
(* What follows from it.                                                   *)

\* The inductive invariant.
THEOREM Invariance == Spec => []IInv
<1>1. IInv /\ [Next]_vars => IInv'
      BY NextPreserves
<1> QED
    BY InitInv, <1>1, PTL DEF Spec

\* Every variable has its type.
THEOREM TypeCorrect == Spec => []TypeOK
<1>1. IInv => TypeOK
      BY DEF IInv, Sound, TypeHost, TypeApps, TypeOK
<1> QED
    BY Invariance, <1>1, PTL

\* A plugin that has started and handled its messages has the device of the
\* assistant, however GET_DEVICE and the notification of deviceCreate overlap.
THEOREM DeviceKnown == Spec => []NoMissedDevice
<1>1. IInv => NoMissedDevice
  <2> SUFFICES ASSUME IInv, NEW a \in clients, Settled(a), device # NoDevice,
                      op # "CREATE_DEVICE", ~spoiled["CREATE_DEVICE"]
               PROVE  \E i \in DOMAIN devices[a] : devices[a][i] = device
      BY DEF NoMissedDevice
  <2>1. main[a] = "ready" /\ DOMAIN inbox[a] = {}
        BY DEF Settled
  <2>2. Due(a)
        BY <2>1 DEF Due, IInv, Sound, Order, Handler
  <2>3. Has(a)
        BY <2>2 DEF IInv, Sound, Delivery, Informed
  <2> QED
    BY <2>1, <2>3 DEF Has
<1> QED
    BY Invariance, <1>1, PTL

\* deviceUploadFrame returns true only when every client that stayed registered, with
\* its callbacks attached, was given the frame, whoever else came or went during the
\* loop of frameReady, and whoever answered true without a callback.
THEOREM SeenByAll == Spec => TrueMeansSeen
<1>1. IInv /\ [Next]_vars =>
          [ReplyHost /\ op = "FRAME" /\ answer' = "true" /\ ~spoiled["FRAME"]
             => \A a \in stable : seen[a] = frame]_vars
  <2> SUFFICES ASSUME IInv, ReplyHost, op = "FRAME", answer' = "true", ~spoiled["FRAME"],
                      NEW a \in stable
               PROVE  seen[a] = frame
      OBVIOUS
  <2>1. ok /\ cursor = End
        BY DEF ReplyHost
  <2> QED
    BY <2>1 DEF IInv, Sound, Delivery, Visited, Passed
<1> QED
    BY Invariance, <1>1, PTL DEF Spec, TrueMeansSeen
=============================================================================
