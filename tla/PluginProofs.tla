---------------------------- MODULE PluginProofs ----------------------------
(***************************************************************************)
(* The safety properties of Plugin, for every number of devices.           *)
(*                                                                         *)
(* The heart of the argument is Count.  createDevice_failed erases the     *)
(* last element of m_devices, which need not be the one its own call has   *)
(* pushed; but behind a device whose creation met no other there is always *)
(* an element for every creation under way, so such a device is erased by  *)
(* its own failure or never.                                               *)
(***************************************************************************)
EXTENDS Plugin, SequenceTheorems, TLAPS

In(d) == \E i \in DOMAIN list : list[i] = d

\* What has not been created yet.
Fresh ==
    \A d \in Devices : d > made => part[d] = {} /\ shown[d] = {} /\ met[d] = {}

\* Devices join m_devices in the order of their creation.
Ordered ==
    \A i \in DOMAIN list :
        list[i] <= made /\ \A j \in DOMAIN list : i < j => list[i] < list[j]

\* How far a creation is says what there is of its device.
ShapeOf(t) ==
    /\ dev[t] \in 1 .. made
    /\ step[t] \in {"object", "stream"} => "stream" \notin part[dev[t]]
    /\ step[t] \in {"register", "publish", "mirror"} => "stream" \in part[dev[t]]
    /\ step[t] \in {"object", "stream", "register", "failed"} => shown[dev[t]] = {}
    /\ step[t] = "publish" => shown[dev[t]] = {"stream"}
    /\ step[t] = "mirror" => Complete(dev[t])
    /\ step[t] = "failed" /\ "stream" \in part[dev[t]] => refused

Shape == \A t \in Threads : Creating(t) => ShapeOf(t)

\* Two creations that are under way have met.
Overlap ==
    Creating("main") /\ Creating("queue") =>
        /\ dev["main"] # dev["queue"]
        /\ dev["main"] \in met[dev["queue"]] /\ dev["queue"] \in met[dev["main"]]

\* A creation that has met no other has the last element of m_devices.
LastOwn ==
    \A t \in Threads : Creating(t) /\ met[dev[t]] = {} =>
        Len(list) > 0 /\ list[Len(list)] = dev[t]

\* Behind a device that has met no other there is an element for every
\* creation under way of another device: failures take those first.
Behind(t, d) == IF Creating(t) /\ dev[t] # d THEN 1 ELSE 0

Count ==
    \A i \in DOMAIN list : met[list[i]] = {} =>
        Len(list) - i >= Behind("main", list[i]) + Behind("queue", list[i])

\* What is published is complete, and stays in m_devices unless it met another.
Kept ==
    \A d \in Devices :
        /\ "object" \in shown[d] => Complete(d)
        /\ Complete(d) => "stream" \in part[d]
        /\ Complete(d) /\ met[d] = {} => In(d)

\* A device with a stream has left m_devices for a reason.
Gone ==
    \A d \in Devices : "stream" \in part[d] =>
        In(d) \/ met[d] # {} \/ refused

\* The device of a CMIO call.
Looked ==
    LET d == dev["main"] IN
    step["main"] \in {"visit", "use"} =>
        /\ d \in Devices
        /\ met[d] # {} \/ Complete(d)
        /\ "stream" \in part[d]
        /\ call = "get" => buffer[d] # NoBuffer

Counted == \A d \in Devices : buffer[d] \in {NoBuffer, 1}

Typed ==
    /\ made \in 0 .. MaxDevices /\ dev \in [Threads -> 0 .. MaxDevices]
    /\ part \in [Devices -> SUBSET {"object", "stream"}]
    /\ shown \in [Devices -> SUBSET {"object", "stream"}]
    /\ step \in [Threads -> Creates \cup {"idle", "visit", "use"}]
    /\ call \in {"none", "size", "get", "other"}
    /\ buffer \in [Devices -> -1 .. 1]
    /\ met \in [Devices -> SUBSET Devices]

TypeLists == list \in Seq(Devices) /\ ahead \in [Threads -> Seq(Devices)]

TypeFlags ==
    stale \in [Threads -> BOOLEAN] /\ inited \in BOOLEAN /\ refused \in BOOLEAN /\ crashed \in BOOLEAN

\* The parts of the invariant that speak of creations and those that speak of
\* what is published.
Order == Fresh /\ Ordered /\ Overlap /\ LastOwn /\ Count
Goods == Kept /\ Gone /\ PublishedAlive /\ NoLeftovers /\ Looked /\ Counted

IInv == Typed /\ TypeLists /\ TypeFlags /\ Order /\ Shape /\ Goods /\ CrashExplained

USE DevicesAssumption DEF Threads, Devices, NoDevice, NoBuffer, Goto, Idle, Each, loopVars, hostVars,
    objVars, histVars

-----------------------------------------------------------------------------
(* Lemmas on m_devices.                                                    *)

\* A device exists when it is in m_devices or a thread holds a pointer to it.
LEMMA Exists ==
    \A d : Alive(d) <=> In(d) \/ \E t \in Threads : Shares(t) /\ dev[t] = d
  BY DEF Alive, ToSet, In

\* What push_back does.
LEMMA Pushing ==
    ASSUME TypeLists, NEW d \in Devices, list' = Append(list, d)
    PROVE  /\ list' \in Seq(Devices) /\ Len(list') = Len(list) + 1
           /\ \A i \in DOMAIN list : list'[i] = list[i]
           /\ list'[Len(list) + 1] = d
           /\ \A x : In(x)' <=> In(x) \/ x = d
<1>1. list \in Seq(Devices)
      BY DEF TypeLists
<1>2. /\ list' \in Seq(Devices) /\ Len(list') = Len(list) + 1
      /\ \A i \in 1 .. Len(list) : list'[i] = list[i]
      /\ list'[Len(list) + 1] = d
      BY <1>1, AppendProperties
<1>3. DOMAIN list = 1 .. Len(list) /\ DOMAIN list' = 1 .. Len(list')
      BY <1>1, <1>2
<1> QED
    BY <1>1, <1>2, <1>3 DEF In

\* A sequence without its last element.
LEMMA FrontFacts ==
    ASSUME NEW S, NEW s \in Seq(S)
    PROVE  /\ Front(s) \in Seq(S)
           /\ Len(Front(s)) = IF Len(s) = 0 THEN 0 ELSE Len(s) - 1
           /\ \A i \in 1 .. Len(s) - 1 : Front(s)[i] = s[i]
<1> DEFINE n == Len(s) - 1
<1>1. n \in Int /\ Len(s) \in Nat /\ \A i \in 1 .. n : s[i] \in S
      OBVIOUS
<1>2. Front(s) = SubSeq(s, 1, n)
      BY DEF Front
<1> HIDE DEF n
<1>3. /\ SubSeq(s, 1, n) \in Seq(S)
      /\ Len(SubSeq(s, 1, n)) = IF 1 <= n THEN n - 1 + 1 ELSE 0
      /\ \A i \in 1 .. n - 1 + 1 : SubSeq(s, 1, n)[i] = s[1 + i - 1]
      BY <1>1, SubSeqProperties
<1>4. \A i \in 1 .. n : i \in 1 .. n - 1 + 1 /\ 1 + i - 1 = i
      BY <1>1
<1>5. \A i \in 1 .. n : SubSeq(s, 1, n)[i] = s[i]
      BY <1>3, <1>4, Zenon
<1>6. (IF 1 <= n THEN n - 1 + 1 ELSE 0) = IF Len(s) = 0 THEN 0 ELSE Len(s) - 1
      BY <1>1 DEF n
<1>7. Front(s) \in Seq(S)
      BY <1>2, <1>3
<1>8. Len(Front(s)) = IF Len(s) = 0 THEN 0 ELSE Len(s) - 1
  <2>1. Len(Front(s)) = IF 1 <= n THEN n - 1 + 1 ELSE 0
        BY <1>2, <1>3, Zenon
  <2> QED
      BY <2>1, <1>6, Zenon
<1>9. \A i \in 1 .. Len(s) - 1 : Front(s)[i] = s[i]
      BY <1>2, <1>5, Zenon DEF n
<1> QED
    BY <1>7, <1>8, <1>9

\* What erase(end() - 1) does.
LEMMA Popping ==
    ASSUME TypeLists, list' = AllButLast
    PROVE  /\ list' \in Seq(Devices)
           /\ Len(list') = IF Len(list) = 0 THEN 0 ELSE Len(list) - 1
           /\ \A i \in DOMAIN list' : i \in DOMAIN list /\ list'[i] = list[i]
           /\ \A x : In(x)' => In(x)
           /\ \A x : In(x) /\ ~In(x)' => Len(list) > 0 /\ list[Len(list)] = x
<1> DEFINE n == Len(list)  k == Len(list')
<1>1. n \in Nat /\ DOMAIN list = 1 .. n
      BY DEF TypeLists
<1>2. /\ list' \in Seq(Devices)
      /\ k = IF n = 0 THEN 0 ELSE n - 1
      /\ \A i \in 1 .. n - 1 : list'[i] = list[i]
      BY FrontFacts DEF TypeLists, AllButLast
<1>3. k \in Nat /\ DOMAIN list' = 1 .. k
      BY <1>2
<1> HIDE DEF n, k
<1>4. \A i \in 1 .. k : i \in 1 .. n /\ i \in 1 .. n - 1
      BY <1>1, <1>2, <1>3
<1>5. \A i \in 1 .. n : i \in 1 .. k \/ (i = n /\ n > 0)
      BY <1>1, <1>2, <1>3
<1>6. \A x : In(x)' => In(x)
      BY <1>1, <1>2, <1>3, <1>4 DEF In
<1>7. \A x : In(x) /\ ~In(x)' => n > 0 /\ list[n] = x
  <2> SUFFICES ASSUME NEW x, NEW i \in 1 .. n, list[i] = x, \A j \in 1 .. k : list'[j] # x
               PROVE  n > 0 /\ list[n] = x
      BY <1>1, <1>3 DEF In
  <2> QED
      BY <1>2, <1>4, <1>5
<1> QED
    BY <1>1, <1>2, <1>3, <1>4, <1>6, <1>7 DEF n, k

\* The last element is one of them.
LEMMA LastIn ==
    ASSUME TypeLists, Len(list) > 0
    PROVE  In(list[Len(list)])
<1>1. Len(list) \in Nat /\ DOMAIN list = 1 .. Len(list)
      BY DEF TypeLists
<1> QED
    BY <1>1 DEF In

-----------------------------------------------------------------------------
(* What a step leaves alone.                                               *)

\* As long as m_devices and the creations that have met stay, the order stays.
LEMMA OrderKept ==
    ASSUME IInv, UNCHANGED <<list, made, met>>,
           \A t \in Threads : Creating(t)' => Creating(t) /\ dev'[t] = dev[t]
    PROVE  Ordered' /\ Overlap' /\ LastOwn' /\ Count'
<1> USE DEF IInv, Order
<1>1. Ordered'
      BY DEF Ordered
<1>2. Overlap'
      BY DEF Overlap
<1>3. LastOwn'
      BY DEF LastOwn
<1>4. Count'
  <2> SUFFICES ASSUME NEW i \in DOMAIN list, met[list[i]] = {}
               PROVE  Len(list) - i >= Behind("main", list[i])' + Behind("queue", list[i])'
      BY DEF Count, Behind
  <2>1. Len(list) - i >= Behind("main", list[i]) + Behind("queue", list[i])
        BY DEF Count
  <2>2. /\ Behind("main", list[i])' <= Behind("main", list[i])
        /\ Behind("queue", list[i])' <= Behind("queue", list[i])
        BY DEF Behind
  <2>3. Len(list) \in Nat /\ i \in Nat
        BY DEF TypeLists
  <2>4. /\ Behind("main", list[i]) \in {0, 1} /\ Behind("queue", list[i]) \in {0, 1}
        /\ Behind("main", list[i])' \in {0, 1} /\ Behind("queue", list[i])' \in {0, 1}
        BY DEF Behind
  <2> QED
      BY <2>1, <2>2, <2>3, <2>4
<1> QED
    BY <1>1, <1>2, <1>3, <1>4

\* A step that creates nothing and destroys nothing.
LEMMA LoopKept ==
    ASSUME IInv, UNCHANGED <<list, made, part, shown, met, refused>>,
           \A t \in Threads :
              /\ Creating(t)' <=> Creating(t)
              /\ Creating(t) => dev'[t] = dev[t] /\ step'[t] = step[t],
           step["queue"] = "use" => step'["queue"] = "use" /\ dev'["queue"] = dev["queue"]
    PROVE  Order' /\ Shape' /\ Kept' /\ Gone' /\ NoLeftovers' /\ PublishedAlive'
<1> USE DEF IInv, Goods, Order
<1>1. Order'
      BY OrderKept DEF Fresh
<1>2. Shape'
      BY DEF Shape, ShapeOf, Complete
<1>3. Kept' /\ Gone'
      BY DEF Kept, Gone, In, Complete
<1>4. NoLeftovers'
      BY DEF NoLeftovers, Complete
<1>5. PublishedAlive'
  <2> SUFFICES ASSUME NEW d \in Devices, shown[d] # {} PROVE Alive(d)'
      BY DEF PublishedAlive
  <2>1. Alive(d)
        BY DEF PublishedAlive
  <2> QED
      BY <2>1 DEF Alive, Shares
<1> QED
    BY <1>1, <1>2, <1>3, <1>4, <1>5

\* The order of createDevice.
LEMMA Sequel ==
    /\ After["object"] = "stream" /\ After["stream"] = "register"
    /\ After["register"] = "publish" /\ After["publish"] = "mirror"
  BY DEF After

\* A creation has a device of its own.
LEMMA Maker ==
    ASSUME IInv, NEW t \in Threads, Creating(t)
    PROVE  /\ dev[t] \in 1 .. made /\ dev[t] \in Devices
           /\ \A u \in Threads : Creating(u) /\ u # t => dev[u] # dev[t]
  BY DEF IInv, Typed, Shape, ShapeOf, Order, Overlap

-----------------------------------------------------------------------------
(* The steps.                                                              *)

\* A frame begins its loop.
LEMMA BeginFramePreserves ==
    ASSUME IInv, ~crashed, BeginFrame
    PROVE  IInv'
<1> USE DEF BeginFrame, BeginLoop
<1>1. Order' /\ Shape' /\ Kept' /\ Gone' /\ NoLeftovers' /\ PublishedAlive'
      BY LoopKept DEF IInv, Typed, Creating, Creates
<1>2. Typed'
      BY DEF IInv, Goods, Typed, Creates, Listed
<1>3. TypeLists'
      BY DEF IInv, Goods, TypeLists
<1>4. TypeFlags'
      BY DEF IInv, Goods, TypeFlags
<1>5. Looked'
      BY DEF IInv, Goods, Typed, Looked, Complete, Creating, Creates
<1>6. Counted'
      BY DEF IInv, Goods, Typed, Counted, Looked, Listed
<1>7. CrashExplained'
      BY DEF IInv, Goods, CrashExplained
<1> QED
    BY <1>1, <1>2, <1>3, <1>4, <1>5, <1>6, <1>7 DEF IInv, Goods

\* A CMIO call finds a published device to look for.
LEMMA BeginCallPreserves ==
    ASSUME IInv, ~crashed, BeginCall
    PROVE  IInv'
<1> USE DEF BeginCall, BeginLoop
<1>1. Order' /\ Shape' /\ Kept' /\ Gone' /\ NoLeftovers' /\ PublishedAlive'
      BY LoopKept DEF IInv, Typed, Creating, Creates
<1>2. Typed'
      BY DEF IInv, Goods, Typed, Creates, Listed
<1>3. TypeLists'
      BY DEF IInv, Goods, TypeLists
<1>4. TypeFlags'
      BY DEF IInv, Goods, TypeFlags
<1>5. Looked'
      BY DEF IInv, Goods, Typed, Looked, Kept, Complete
<1>6. Counted'
      BY DEF IInv, Goods, Typed, Counted, Looked, Listed
<1>7. CrashExplained'
      BY DEF IInv, Goods, CrashExplained
<1> QED
    BY <1>1, <1>2, <1>3, <1>4, <1>5, <1>6, <1>7 DEF IInv, Goods

\* A loop goes on to an element.
LEMMA VisitPreserves ==
    ASSUME IInv, ~crashed, NEW t \in Threads, Visit(t)
    PROVE  IInv'
<1> USE DEF Visit, Step
<1>1. Order' /\ Shape' /\ Kept' /\ Gone' /\ NoLeftovers' /\ PublishedAlive'
      BY LoopKept DEF IInv, Typed, Creating, Creates
<1>2. Typed'
  <2>1. Head(ahead[t]) \in Devices
        BY DEF IInv, TypeLists
  <2> QED
      BY <2>1 DEF IInv, Typed, Creates
<1>3. TypeLists'
  <2>1. ahead[t] \in Seq(Devices) /\ ahead[t] # <<>>
        BY DEF IInv, TypeLists
  <2>2. Tail(ahead[t]) \in Seq(Devices)
        BY <2>1, HeadTailProperties
  <2> QED
      BY <2>2 DEF IInv, TypeLists
<1>4. TypeFlags'
      BY DEF IInv, Goods, TypeFlags
<1>5. Looked'
      BY DEF IInv, Goods, Typed, Looked, Complete, Creating, Creates
<1>6. Counted'
      BY DEF IInv, Goods, Typed, Counted, Looked, Listed
<1>7. CrashExplained'
      BY DEF IInv, Goods, CrashExplained
<1> QED
    BY <1>1, <1>2, <1>3, <1>4, <1>5, <1>6, <1>7 DEF IInv, Goods

\* A loop ends.
LEMMA EndLoopPreserves ==
    ASSUME IInv, ~crashed, NEW t \in Threads, EndLoop(t)
    PROVE  IInv'
<1> USE DEF EndLoop
<1>1. Order' /\ Shape' /\ Kept' /\ Gone' /\ NoLeftovers' /\ PublishedAlive'
      BY LoopKept DEF IInv, Typed, Creating, Creates
<1>2. Typed'
      BY DEF IInv, Goods, Typed, Creates, Listed
<1>3. TypeLists'
      BY DEF IInv, Goods, TypeLists
<1>4. TypeFlags'
      BY DEF IInv, Goods, TypeFlags
<1>5. Looked'
      BY DEF IInv, Goods, Typed, Looked, Complete, Creating, Creates
<1>6. Counted'
      BY DEF IInv, Goods, Typed, Counted, Looked, Listed
<1>7. CrashExplained'
      BY DEF IInv, Goods, CrashExplained
<1> QED
    BY <1>1, <1>2, <1>3, <1>4, <1>5, <1>6, <1>7 DEF IInv, Goods

\* A call uses what it has found.
LEMMA EndCallPreserves ==
    ASSUME IInv, ~crashed, CountList \/ UseObject
    PROVE  IInv'
<1> USE DEF CountList, UseObject, EndCall
<1>1. Order' /\ Shape' /\ Kept' /\ Gone' /\ NoLeftovers' /\ PublishedAlive'
      BY LoopKept DEF IInv, Typed, Creating, Creates
<1>2. Typed'
  <2>1. Listed(dev["main"]) \in {0, 1}
        BY DEF Listed
  <2>2. CASE CountList
    <3>1. PICK n \in {0, 1} : buffer' = [buffer EXCEPT ![dev["main"]] = n]
          BY <2>1, <2>2
    <3>0. buffer \in [Devices -> -1 .. 1] /\ n \in -1 .. 1
          BY DEF IInv, Typed
    <3>2. buffer' \in [Devices -> -1 .. 1]
          BY <3>0, <3>1, Zenon
    <3> QED
        BY <2>2, <3>2 DEF IInv, Typed, Creates
  <2>3. CASE UseObject
        BY <2>3 DEF IInv, Typed, Creates
  <2> QED
      BY <2>2, <2>3
<1>3. TypeLists'
      BY DEF IInv, Goods, TypeLists
<1>4. TypeFlags'
      BY DEF IInv, Goods, TypeFlags
<1>5. Looked'
      BY DEF IInv, Goods, Typed, Looked, Complete, Creating, Creates
<1>6. Counted'
      BY DEF IInv, Goods, Typed, Counted, Looked, Listed
<1>7. CrashExplained'
  <2>1. CASE crashed' = FALSE
        BY <2>1 DEF CrashExplained
  <2>2. CASE ~Alive(dev["main"])
    <3>1. dev["main"] \in Devices /\ met[dev["main"]] # {}
          BY <2>2 DEF IInv, Goods, Looked, PublishedAlive, Complete
    <3> QED
        BY <3>1 DEF CrashExplained
  <2> QED
      BY <2>1, <2>2
<1> QED
    BY <1>1, <1>2, <1>3, <1>4, <1>5, <1>6, <1>7 DEF IInv, Goods

\* CMIO creates the device.
LEMMA CreateObjectPreserves ==
    ASSUME IInv, ~crashed, NEW t \in Threads, CreateObject(t)
    PROVE  IInv'
<1> DEFINE d == dev[t]
<1>0. Creating(t) /\ step[t] = "object"
      BY DEF CreateObject, Creating, Creates
<1>1. /\ d \in 1 .. made /\ d \in Devices
      /\ \A u \in Threads : Creating(u) /\ u # t => dev[u] # d
      BY <1>0, Maker
<1>2. /\ UNCHANGED <<list, made, dev, met, shown, ahead, call, inited, buffer, refused, crashed>> /\ UNCHANGED stale
      /\ \E s \in {"stream", "failed"} : step' = [step EXCEPT ![t] = s]
      BY <1>0, Sequel DEF CreateObject, Make
<1>3. /\ \/ part' = [part EXCEPT ![d] = part[d] \cup {"object"}] /\ step'[t] = "stream"
         \/ part' = part /\ step'[t] = "failed"
      BY <1>0, Sequel DEF CreateObject, Make, IInv, Typed
<1>a. \A u \in Threads :
         /\ Creating(u)' <=> Creating(u)
         /\ u # t => step'[u] = step[u]
         /\ step'[u] \in {"idle", "visit", "use"} => u # t
      BY <1>0, <1>2 DEF IInv, Typed, Creating, Creates
<1>b. \A x \in Devices : x # d => part'[x] = part[x] /\ shown'[x] = shown[x]
      BY <1>2, <1>3 DEF IInv, Typed
<1>c. met[d] # {} \/ In(d)
      BY <1>0, LastIn DEF IInv, Order, LastOwn
<1>4. Ordered' /\ Overlap' /\ LastOwn' /\ Count'
      BY <1>0, <1>2, OrderKept DEF IInv, Typed, Creating, Creates
<1>5. Typed'
  <2>1. part[d] \cup {"object"} \in SUBSET {"object", "stream"}
        BY <1>1 DEF IInv, Typed
  <2>2. part' \in [Devices -> SUBSET {"object", "stream"}]
        BY <1>1, <1>3, <2>1 DEF IInv, Typed
  <2>3. step' \in [Threads -> Creates \cup {"idle", "visit", "use"}]
        BY <1>2 DEF IInv, Typed, Creates
  <2> QED
      BY <1>2, <2>2, <2>3 DEF IInv, Typed
<1>6. TypeLists'
      BY <1>0, <1>1, <1>2, <1>3 DEF IInv, Order, Goods, TypeLists
<1>7. TypeFlags'
      BY <1>0, <1>1, <1>2, <1>3 DEF IInv, Order, Goods, TypeFlags
<1>8. Fresh'
      BY <1>0, <1>1, <1>2, <1>3 DEF IInv, Order, Goods, Typed, Fresh, Shape, ShapeOf, Creating, Creates
<1>9. Shape'
  <2> SUFFICES ASSUME NEW u \in Threads, Creating(u) PROVE ShapeOf(u)'
      BY <1>a DEF Shape
  <2>1. CASE u = t
        BY <1>0, <1>1, <1>2, <1>3, <2>1 DEF IInv, Typed, Shape, ShapeOf, Complete
  <2>2. CASE u # t
    <3>1. dev[u] \in Devices /\ dev[u] # d
          BY <1>1, <2>2, Maker
    <3> QED
        BY <1>2, <1>a, <1>b, <2>2, <3>1 DEF IInv, Shape, ShapeOf, Complete
  <2> QED
      BY <2>1, <2>2
<1>10. Kept'
  <2> SUFFICES ASSUME NEW x \in Devices
               PROVE  /\ "object" \in shown'[x] => Complete(x)'
                      /\ Complete(x)' => "stream" \in part'[x]
                      /\ Complete(x)' /\ met'[x] = {} => In(x)'
      BY DEF Kept
  <2>1. CASE x # d
        BY <1>2, <1>b, <2>1 DEF IInv, Goods, Kept, Complete, In
  <2>2. CASE x = d
        BY <1>0, <1>1, <1>2, <1>3, <1>c, <2>2 DEF IInv, Typed, Shape, ShapeOf, Complete, In
  <2> QED
      BY <2>1, <2>2
<1>11. Gone'
  <2> SUFFICES ASSUME NEW x \in Devices, "stream" \in part'[x]
               PROVE  In(x)' \/ met'[x] # {} \/ refused'
      BY DEF Gone
  <2>1. CASE x # d
        BY <1>2, <1>3, <1>b, <2>1 DEF IInv, Goods, Gone, In
  <2>2. CASE x = d
        BY <1>2, <1>c, <2>2 DEF In
  <2> QED
      BY <2>1, <2>2
<1>12. NoLeftovers'
  <2> SUFFICES ASSUME NEW x \in ToSet(list)
               PROVE  \/ Complete(x)' \/ met'[x] # {}
                      \/ \E u \in Threads : Creating(u)' /\ dev'[u] = x
      BY <1>2 DEF NoLeftovers, ToSet
  <2>1. CASE x # d
    <3>1. x \in Devices
          BY DEF IInv, TypeLists, ToSet
    <3> QED
        BY <1>2, <1>a, <1>b, <2>1, <3>1 DEF IInv, Goods, NoLeftovers, Complete
  <2>2. CASE x = d
        BY <1>0, <1>2, <1>a, <2>2
  <2> QED
      BY <2>1, <2>2
<1>13. PublishedAlive'
      BY <1>0, <1>1, <1>2, <1>3 DEF IInv, Order, Goods, Typed, PublishedAlive, Alive, Shares, Creating, Creates, ToSet
<1>14. Looked'
  <2> SUFFICES ASSUME step["main"] \in {"visit", "use"}, t # "main"
               PROVE  /\ met[dev["main"]] # {} \/ Complete(dev["main"])'
                      /\ dev["main"] \in Devices /\ "stream" \in part'[dev["main"]]
                      /\ call = "get" => buffer[dev["main"]] # NoBuffer
      BY <1>2, <1>a DEF Looked, Complete
  <2>1. /\ dev["main"] \in Devices /\ "stream" \in part[dev["main"]]
        /\ met[dev["main"]] # {} \/ Complete(dev["main"])
        /\ call = "get" => buffer[dev["main"]] # NoBuffer
        BY DEF IInv, Goods, Looked
  <2>2. CASE dev["main"] # d
        BY <1>2, <1>b, <2>1, <2>2 DEF Complete
  <2>3. CASE dev["main"] = d
    <3>1. ~Complete(d)
          BY <1>0, <1>1 DEF IInv, Shape, ShapeOf, Complete
    <3>2. "stream" \in part'[d]
          BY <1>1, <1>2, <1>3, <2>1, <2>3 DEF IInv, Typed
    <3> QED
        BY <1>2, <2>1, <2>3, <3>1, <3>2
  <2> QED
      BY <2>2, <2>3
<1>15. Counted'
      BY <1>0, <1>1, <1>2, <1>3 DEF IInv, Order, Goods, Typed, Counted, Looked, Listed
<1>16. CrashExplained'
      BY <1>0, <1>1, <1>2, <1>3 DEF IInv, Order, Goods, CrashExplained
<1> QED
    BY <1>4, <1>5, <1>6, <1>7, <1>8, <1>9, <1>10, <1>11, <1>12, <1>13, <1>14, <1>15, <1>16 DEF IInv, Order, Goods

\* CMIO creates the stream.
LEMMA AddStreamPreserves ==
    ASSUME IInv, ~crashed, NEW t \in Threads, AddStream(t)
    PROVE  IInv'
<1> DEFINE d == dev[t]
<1>0. Creating(t) /\ step[t] = "stream"
      BY DEF AddStream, Creating, Creates
<1>1. /\ d \in 1 .. made /\ d \in Devices
      /\ \A u \in Threads : Creating(u) /\ u # t => dev[u] # d
      BY <1>0, Maker
<1>2. /\ UNCHANGED <<list, made, dev, met, shown, ahead, call, inited, buffer, refused, crashed>>
      /\ \E s \in {"register", "failed"} : step' = [step EXCEPT ![t] = s]
      BY <1>0, Sequel DEF AddStream, Make
<1>3. /\ \/ part' = [part EXCEPT ![d] = part[d] \cup {"stream"}] /\ step'[t] = "register"
         \/ part' = part /\ step'[t] = "failed"
      BY <1>0, Sequel DEF AddStream, Make, IInv, Typed
<1>a. \A u \in Threads :
         /\ Creating(u)' <=> Creating(u)
         /\ u # t => step'[u] = step[u]
         /\ step'[u] \in {"idle", "visit", "use"} => u # t
      BY <1>0, <1>2 DEF IInv, Typed, Creating, Creates
<1>b. \A x \in Devices : x # d => part'[x] = part[x] /\ shown'[x] = shown[x]
      BY <1>2, <1>3 DEF IInv, Typed
<1>c. met[d] # {} \/ In(d)
      BY <1>0, LastIn DEF IInv, Order, LastOwn
<1>4. Ordered' /\ Overlap' /\ LastOwn' /\ Count'
      BY <1>0, <1>2, OrderKept DEF IInv, Typed, Creating, Creates
<1>5. Typed'
  <2>1. part[d] \cup {"stream"} \in SUBSET {"object", "stream"}
        BY <1>1 DEF IInv, Typed
  <2>2. part' \in [Devices -> SUBSET {"object", "stream"}]
        BY <1>1, <1>3, <2>1 DEF IInv, Typed
  <2>3. step' \in [Threads -> Creates \cup {"idle", "visit", "use"}]
        BY <1>2 DEF IInv, Typed, Creates
  <2> QED
      BY <1>2, <2>2, <2>3 DEF IInv, Typed
<1>6. TypeLists'
      BY <1>0, <1>1, <1>2, <1>3 DEF IInv, Order, Goods, TypeLists
<1>7. TypeFlags'
      BY <1>2 DEF AddStream, Invalidate, IInv, TypeFlags
<1>8. Fresh'
      BY <1>0, <1>1, <1>2, <1>3 DEF IInv, Order, Goods, Typed, Fresh, Shape, ShapeOf, Creating, Creates
<1>9. Shape'
  <2> SUFFICES ASSUME NEW u \in Threads, Creating(u) PROVE ShapeOf(u)'
      BY <1>a DEF Shape
  <2>1. CASE u = t
        BY <1>0, <1>1, <1>2, <1>3, <2>1 DEF IInv, Typed, Shape, ShapeOf, Complete
  <2>2. CASE u # t
    <3>1. dev[u] \in Devices /\ dev[u] # d
          BY <1>1, <2>2, Maker
    <3> QED
        BY <1>2, <1>a, <1>b, <2>2, <3>1 DEF IInv, Shape, ShapeOf, Complete
  <2> QED
      BY <2>1, <2>2
<1>10. Kept'
  <2> SUFFICES ASSUME NEW x \in Devices
               PROVE  /\ "object" \in shown'[x] => Complete(x)'
                      /\ Complete(x)' => "stream" \in part'[x]
                      /\ Complete(x)' /\ met'[x] = {} => In(x)'
      BY DEF Kept
  <2>1. CASE x # d
        BY <1>2, <1>b, <2>1 DEF IInv, Goods, Kept, Complete, In
  <2>2. CASE x = d
        BY <1>0, <1>1, <1>2, <1>3, <1>c, <2>2 DEF IInv, Typed, Shape, ShapeOf, Complete, In
  <2> QED
      BY <2>1, <2>2
<1>11. Gone'
  <2> SUFFICES ASSUME NEW x \in Devices, "stream" \in part'[x]
               PROVE  In(x)' \/ met'[x] # {} \/ refused'
      BY DEF Gone
  <2>1. CASE x # d
        BY <1>2, <1>3, <1>b, <2>1 DEF IInv, Goods, Gone, In
  <2>2. CASE x = d
        BY <1>2, <1>c, <2>2 DEF In
  <2> QED
      BY <2>1, <2>2
<1>12. NoLeftovers'
  <2> SUFFICES ASSUME NEW x \in ToSet(list)
               PROVE  \/ Complete(x)' \/ met'[x] # {}
                      \/ \E u \in Threads : Creating(u)' /\ dev'[u] = x
      BY <1>2 DEF NoLeftovers, ToSet
  <2>1. CASE x # d
    <3>1. x \in Devices
          BY DEF IInv, TypeLists, ToSet
    <3> QED
        BY <1>2, <1>a, <1>b, <2>1, <3>1 DEF IInv, Goods, NoLeftovers, Complete
  <2>2. CASE x = d
        BY <1>0, <1>2, <1>a, <2>2
  <2> QED
      BY <2>1, <2>2
<1>13. PublishedAlive'
      BY <1>0, <1>1, <1>2, <1>3 DEF IInv, Order, Goods, Typed, PublishedAlive, Alive, Shares, Creating, Creates, ToSet
<1>14. Looked'
  <2> SUFFICES ASSUME step["main"] \in {"visit", "use"}, t # "main"
               PROVE  /\ met[dev["main"]] # {} \/ Complete(dev["main"])'
                      /\ dev["main"] \in Devices /\ "stream" \in part'[dev["main"]]
                      /\ call = "get" => buffer[dev["main"]] # NoBuffer
      BY <1>2, <1>a DEF Looked, Complete
  <2>1. /\ dev["main"] \in Devices /\ "stream" \in part[dev["main"]]
        /\ met[dev["main"]] # {} \/ Complete(dev["main"])
        /\ call = "get" => buffer[dev["main"]] # NoBuffer
        BY DEF IInv, Goods, Looked
  <2>2. CASE dev["main"] # d
        BY <1>2, <1>b, <2>1, <2>2 DEF Complete
  <2>3. CASE dev["main"] = d
    <3>1. ~Complete(d)
          BY <1>0, <1>1 DEF IInv, Shape, ShapeOf, Complete
    <3>2. "stream" \in part'[d]
          BY <1>1, <1>2, <1>3, <2>1, <2>3 DEF IInv, Typed
    <3> QED
        BY <1>2, <2>1, <2>3, <3>1, <3>2
  <2> QED
      BY <2>2, <2>3
<1>15. Counted'
      BY <1>0, <1>1, <1>2, <1>3 DEF IInv, Order, Goods, Typed, Counted, Looked, Listed
<1>16. CrashExplained'
      BY <1>0, <1>1, <1>2, <1>3 DEF IInv, Order, Goods, CrashExplained
<1> QED
    BY <1>4, <1>5, <1>6, <1>7, <1>8, <1>9, <1>10, <1>11, <1>12, <1>13, <1>14, <1>15, <1>16 DEF IInv, Order, Goods

\* CMIO publishes the stream.
LEMMA RegisterStreamsPreserves ==
    ASSUME IInv, ~crashed, NEW t \in Threads, RegisterStreams(t)
    PROVE  IInv'
<1> DEFINE d == dev[t]
<1>0. Creating(t) /\ step[t] = "register"
      BY DEF RegisterStreams, Creating, Creates
<1>1. /\ d \in 1 .. made /\ d \in Devices
      /\ \A u \in Threads : Creating(u) /\ u # t => dev[u] # d
      BY <1>0, Maker
<1>2. /\ UNCHANGED <<list, made, part, dev, met, ahead, stale, call, inited, buffer, crashed>>
      /\ \E s \in {"publish", "failed"} : step' = [step EXCEPT ![t] = s]
      BY <1>0, Sequel DEF RegisterStreams, Publish
<1>3. \/ shown' = [shown EXCEPT ![d] = {"stream"}] /\ step'[t] = "publish" /\ refused' = refused
      \/ shown' = [shown EXCEPT ![d] = {}] /\ step'[t] = "failed" /\ refused' = TRUE
  <2>1. shown[d] = {}
        BY <1>0, <1>1 DEF IInv, Shape, ShapeOf
  <2> QED
      BY <1>0, <2>1, Sequel DEF RegisterStreams, Publish, IInv, Typed
<1>a. \A u \in Threads :
         /\ Creating(u)' <=> Creating(u)
         /\ u # t => step'[u] = step[u]
         /\ step'[u] \in {"idle", "visit", "use"} => u # t
      BY <1>0, <1>2 DEF IInv, Typed, Creating, Creates
<1>b. \A x \in Devices : x # d => part'[x] = part[x] /\ shown'[x] = shown[x]
      BY <1>2, <1>3 DEF IInv, Typed
<1>c. met[d] # {} \/ In(d)
      BY <1>0, LastIn DEF IInv, Order, LastOwn
<1>4. Ordered' /\ Overlap' /\ LastOwn' /\ Count'
      BY <1>0, <1>2, OrderKept DEF IInv, Typed, Creating, Creates
<1>5. Typed'
      BY <1>0, <1>1, <1>2, <1>3 DEF IInv, Order, Goods, Typed, Creates, Listed
<1>6. TypeLists'
      BY <1>0, <1>1, <1>2, <1>3 DEF IInv, Order, Goods, TypeLists
<1>7. TypeFlags'
      BY <1>0, <1>1, <1>2, <1>3 DEF IInv, Order, Goods, TypeFlags
<1>8. Fresh'
      BY <1>0, <1>1, <1>2, <1>3 DEF IInv, Order, Goods, Typed, Fresh, Shape, ShapeOf, Creating, Creates
<1>9. Shape'
      BY <1>0, <1>1, <1>2, <1>3 DEF IInv, Order, Goods, Typed, Shape, ShapeOf, Creating, Creates, Complete, After, Overlap, Fresh
<1>10. Kept'
  <2> SUFFICES ASSUME NEW x \in Devices
               PROVE  /\ "object" \in shown'[x] => Complete(x)'
                      /\ Complete(x)' => "stream" \in part'[x]
                      /\ Complete(x)' /\ met'[x] = {} => In(x)'
      BY DEF Kept
  <2>1. CASE x # d
        BY <1>2, <1>b, <2>1 DEF IInv, Goods, Kept, Complete, In
  <2>2. CASE x = d
        BY <1>0, <1>1, <1>2, <1>3, <1>c, <2>2 DEF IInv, Typed, Shape, ShapeOf, Complete, In
  <2> QED
      BY <2>1, <2>2
<1>11. Gone'
  <2> SUFFICES ASSUME NEW x \in Devices, "stream" \in part'[x]
               PROVE  In(x)' \/ met'[x] # {} \/ refused'
      BY DEF Gone
  <2>1. CASE x # d
        BY <1>2, <1>3, <1>b, <2>1 DEF IInv, Goods, Gone, In
  <2>2. CASE x = d
        BY <1>2, <1>c, <2>2 DEF In
  <2> QED
      BY <2>1, <2>2
<1>12. NoLeftovers'
  <2> SUFFICES ASSUME NEW x \in ToSet(list)
               PROVE  \/ Complete(x)' \/ met'[x] # {}
                      \/ \E u \in Threads : Creating(u)' /\ dev'[u] = x
      BY <1>2 DEF NoLeftovers, ToSet
  <2>1. CASE x # d
    <3>1. x \in Devices
          BY DEF IInv, TypeLists, ToSet
    <3> QED
        BY <1>2, <1>a, <1>b, <2>1, <3>1 DEF IInv, Goods, NoLeftovers, Complete
  <2>2. CASE x = d
        BY <1>0, <1>2, <1>a, <2>2
  <2> QED
      BY <2>1, <2>2
<1>13. PublishedAlive'
      BY <1>0, <1>1, <1>2, <1>3 DEF IInv, Order, Goods, Typed, PublishedAlive, Alive, Shares, Creating, Creates, ToSet
<1>14. Looked'
  <2> SUFFICES ASSUME step["main"] \in {"visit", "use"}, t # "main"
               PROVE  /\ met[dev["main"]] # {} \/ Complete(dev["main"])'
                      /\ dev["main"] \in Devices /\ "stream" \in part'[dev["main"]]
                      /\ call = "get" => buffer[dev["main"]] # NoBuffer
      BY <1>2, <1>a DEF Looked, Complete
  <2>1. /\ dev["main"] \in Devices /\ "stream" \in part[dev["main"]]
        /\ met[dev["main"]] # {} \/ Complete(dev["main"])
        /\ call = "get" => buffer[dev["main"]] # NoBuffer
        BY DEF IInv, Goods, Looked
  <2>2. CASE dev["main"] # d
        BY <1>2, <1>b, <2>1, <2>2 DEF Complete
  <2>3. CASE dev["main"] = d
    <3>1. ~Complete(d)
          BY <1>0, <1>1 DEF IInv, Shape, ShapeOf, Complete
    <3>2. "stream" \in part'[d]
          BY <1>1, <1>2, <1>3, <2>1, <2>3 DEF IInv, Typed
    <3> QED
        BY <1>2, <2>1, <2>3, <3>1, <3>2
  <2> QED
      BY <2>2, <2>3
<1>15. Counted'
      BY <1>0, <1>1, <1>2, <1>3 DEF IInv, Order, Goods, Typed, Counted, Looked, Listed
<1>16. CrashExplained'
      BY <1>0, <1>1, <1>2, <1>3 DEF IInv, Order, Goods, CrashExplained
<1> QED
    BY <1>4, <1>5, <1>6, <1>7, <1>8, <1>9, <1>10, <1>11, <1>12, <1>13, <1>14, <1>15, <1>16 DEF IInv, Order, Goods

\* CMIO publishes the device.
LEMMA RegisterObjectPreserves ==
    ASSUME IInv, ~crashed, NEW t \in Threads, RegisterObject(t)
    PROVE  IInv'
<1> DEFINE d == dev[t]
<1>0. Creating(t) /\ step[t] = "publish"
      BY DEF RegisterObject, Creating, Creates
<1>1. /\ d \in 1 .. made /\ d \in Devices
      /\ \A u \in Threads : Creating(u) /\ u # t => dev[u] # d
      BY <1>0, Maker
<1>2. /\ UNCHANGED <<list, made, part, dev, met, ahead, stale, call, inited, buffer, crashed>>
      /\ \E s \in {"mirror", "failed"} : step' = [step EXCEPT ![t] = s]
      BY <1>0, Sequel DEF RegisterObject, Publish
<1>3. \/ shown' = [shown EXCEPT ![d] = {"stream", "object"}] /\ step'[t] = "mirror" /\ refused' = refused
      \/ shown' = [shown EXCEPT ![d] = {}] /\ step'[t] = "failed" /\ refused' = TRUE
  <2>1. shown[d] = {"stream"}
        BY <1>0, <1>1 DEF IInv, Shape, ShapeOf
  <2> QED
      BY <1>0, <2>1, Sequel DEF RegisterObject, Publish, IInv, Typed
<1>a. \A u \in Threads :
         /\ Creating(u)' <=> Creating(u)
         /\ u # t => step'[u] = step[u]
         /\ step'[u] \in {"idle", "visit", "use"} => u # t
      BY <1>0, <1>2 DEF IInv, Typed, Creating, Creates
<1>b. \A x \in Devices : x # d => part'[x] = part[x] /\ shown'[x] = shown[x]
      BY <1>2, <1>3 DEF IInv, Typed
<1>c. met[d] # {} \/ In(d)
      BY <1>0, LastIn DEF IInv, Order, LastOwn
<1>4. Ordered' /\ Overlap' /\ LastOwn' /\ Count'
      BY <1>0, <1>2, OrderKept DEF IInv, Typed, Creating, Creates
<1>5. Typed'
      BY <1>0, <1>1, <1>2, <1>3 DEF IInv, Order, Goods, Typed, Creates, Listed
<1>6. TypeLists'
      BY <1>0, <1>1, <1>2, <1>3 DEF IInv, Order, Goods, TypeLists
<1>7. TypeFlags'
      BY <1>0, <1>1, <1>2, <1>3 DEF IInv, Order, Goods, TypeFlags
<1>8. Fresh'
      BY <1>0, <1>1, <1>2, <1>3 DEF IInv, Order, Goods, Typed, Fresh, Shape, ShapeOf, Creating, Creates
<1>9. Shape'
      BY <1>0, <1>1, <1>2, <1>3 DEF IInv, Order, Goods, Typed, Shape, ShapeOf, Creating, Creates, Complete, After, Overlap, Fresh
<1>10. Kept'
  <2> SUFFICES ASSUME NEW x \in Devices
               PROVE  /\ "object" \in shown'[x] => Complete(x)'
                      /\ Complete(x)' => "stream" \in part'[x]
                      /\ Complete(x)' /\ met'[x] = {} => In(x)'
      BY DEF Kept
  <2>1. CASE x # d
        BY <1>2, <1>b, <2>1 DEF IInv, Goods, Kept, Complete, In
  <2>2. CASE x = d
        BY <1>0, <1>1, <1>2, <1>3, <1>c, <2>2 DEF IInv, Typed, Shape, ShapeOf, Complete, In
  <2> QED
      BY <2>1, <2>2
<1>11. Gone'
  <2> SUFFICES ASSUME NEW x \in Devices, "stream" \in part'[x]
               PROVE  In(x)' \/ met'[x] # {} \/ refused'
      BY DEF Gone
  <2>1. CASE x # d
        BY <1>2, <1>3, <1>b, <2>1 DEF IInv, Goods, Gone, In
  <2>2. CASE x = d
        BY <1>2, <1>c, <2>2 DEF In
  <2> QED
      BY <2>1, <2>2
<1>12. NoLeftovers'
  <2> SUFFICES ASSUME NEW x \in ToSet(list)
               PROVE  \/ Complete(x)' \/ met'[x] # {}
                      \/ \E u \in Threads : Creating(u)' /\ dev'[u] = x
      BY <1>2 DEF NoLeftovers, ToSet
  <2>1. CASE x # d
    <3>1. x \in Devices
          BY DEF IInv, TypeLists, ToSet
    <3> QED
        BY <1>2, <1>a, <1>b, <2>1, <3>1 DEF IInv, Goods, NoLeftovers, Complete
  <2>2. CASE x = d
        BY <1>0, <1>2, <1>a, <2>2
  <2> QED
      BY <2>1, <2>2
<1>13. PublishedAlive'
      BY <1>0, <1>1, <1>2, <1>3 DEF IInv, Order, Goods, Typed, PublishedAlive, Alive, Shares, Creating, Creates, ToSet
<1>14. Looked'
  <2> SUFFICES ASSUME step["main"] \in {"visit", "use"}, t # "main"
               PROVE  /\ met[dev["main"]] # {} \/ Complete(dev["main"])'
                      /\ dev["main"] \in Devices /\ "stream" \in part'[dev["main"]]
                      /\ call = "get" => buffer[dev["main"]] # NoBuffer
      BY <1>2, <1>a DEF Looked, Complete
  <2>1. /\ dev["main"] \in Devices /\ "stream" \in part[dev["main"]]
        /\ met[dev["main"]] # {} \/ Complete(dev["main"])
        /\ call = "get" => buffer[dev["main"]] # NoBuffer
        BY DEF IInv, Goods, Looked
  <2>2. CASE dev["main"] # d
        BY <1>2, <1>b, <2>1, <2>2 DEF Complete
  <2>3. CASE dev["main"] = d
    <3>1. ~Complete(d)
          BY <1>0, <1>1 DEF IInv, Shape, ShapeOf, Complete
    <3>2. "stream" \in part'[d]
          BY <1>1, <1>2, <1>3, <2>1, <2>3 DEF IInv, Typed
    <3> QED
        BY <1>2, <2>1, <2>3, <3>1, <3>2
  <2> QED
      BY <2>2, <2>3
<1>15. Counted'
      BY <1>0, <1>1, <1>2, <1>3 DEF IInv, Order, Goods, Typed, Counted, Looked, Listed
<1>16. CrashExplained'
      BY <1>0, <1>1, <1>2, <1>3 DEF IInv, Order, Goods, CrashExplained
<1> QED
    BY <1>4, <1>5, <1>6, <1>7, <1>8, <1>9, <1>10, <1>11, <1>12, <1>13, <1>14, <1>15, <1>16 DEF IInv, Order, Goods

-----------------------------------------------------------------------------
(* The steps that change m_devices or drop a pointer.                      *)

\* What a device's last pointer takes with it.
LEMMA Reclaiming ==
    ASSUME IInv, NEW v \in BOOLEAN, Reclaim(v)
    PROVE  /\ shown' \in [Devices -> SUBSET {"object", "stream"}] /\ crashed' \in BOOLEAN
           /\ \A x \in Devices :
                 \/ shown'[x] = shown[x] /\ (Alive(x) => Alive(x)')
                 \/ shown'[x] = {} /\ Alive(x) /\ ~Alive(x)'
           /\ crashed' => v \/ \E x \in Devices : Alive(x) /\ ~Alive(x)' /\ "stream" \in part[x]
           /\ PublishedAlive'
<1> DEFINE dying == {x \in Devices : Alive(x) /\ ~Alive(x)'}
<1>1. shown' = [x \in Devices |-> IF x \in dying THEN {} ELSE shown[x]]
      BY DEF Reclaim, Unpublished
<1>2. crashed' = FALSE \/ crashed' = (v \/ \E x \in dying : "stream" \in part[x])
      BY DEF Reclaim
<1>3. \A x : x \in dying <=> x \in Devices /\ Alive(x) /\ ~Alive(x)'
      OBVIOUS
<1> HIDE DEF dying
<1>4. \A x \in Devices : shown'[x] = IF x \in dying THEN {} ELSE shown[x]
      BY <1>1
<1>5. \A x \in Devices :
         \/ shown'[x] = shown[x] /\ (Alive(x) => Alive(x)')
         \/ shown'[x] = {} /\ Alive(x) /\ ~Alive(x)'
      BY <1>3, <1>4
<1>6. shown' \in [Devices -> SUBSET {"object", "stream"}]
  <2>1. \A x \in Devices : shown[x] \in SUBSET {"object", "stream"}
        BY DEF IInv, Typed
  <2> QED
      BY <1>1, <2>1
<1>7. crashed' \in BOOLEAN
      BY <1>2, Zenon
<1>8. crashed' => v \/ \E x \in Devices : Alive(x) /\ ~Alive(x)' /\ "stream" \in part[x]
      BY <1>2, <1>3, Zenon
<1>9. PublishedAlive'
      BY <1>5 DEF IInv, Goods, PublishedAlive
<1> QED
    BY <1>5, <1>6, <1>7, <1>8, <1>9

\* A step that erases nothing but a device whose creation met another, or one
\* that is not complete.
LEMMA Destroying ==
    ASSUME IInv, NEW v \in BOOLEAN, Reclaim(v), v => \E u \in Threads : stale'[u],
           UNCHANGED <<made, part, met, refused, call, buffer>>,
           \A x : In(x)' => In(x),
           \A x \in Devices : In(x) /\ ~In(x)' =>
               met[x] # {} \/ (~Complete(x) /\ ("stream" \in part[x] => refused)),
           \A u \in Threads, x \in Devices : In(x)' /\ Creating(u) /\ dev[u] = x =>
               Complete(x) \/ met[x] # {} \/ Creating(u)',
           \A u \in Threads : Creating(u)' => Creating(u),
           \A u \in Threads : Creating(u)' \/ (step'[u] \in {"visit", "use"} /\ u = "main") =>
               dev'[u] = dev[u] /\ step'[u] = step[u]
    PROVE  /\ Fresh' /\ Shape' /\ Goods' /\ CrashExplained'
           /\ \A x \in Devices : Complete(x) /\ ~Complete(x)' => met[x] # {}
<1>1. /\ \A x \in Devices :
            \/ shown'[x] = shown[x] /\ (Alive(x) => Alive(x)')
            \/ shown'[x] = {} /\ Alive(x) /\ ~Alive(x)'
      /\ crashed' => v \/ \E x \in Devices : Alive(x) /\ ~Alive(x)' /\ "stream" \in part[x]
      /\ PublishedAlive'
      BY Reclaiming
<1>2. \A x : In(x)' => Alive(x)'
      BY DEF In, Alive, ToSet
<1>3. \A u \in Threads, d \in Devices : Creating(u)' /\ d = dev'[u] => Alive(d)'
      BY DEF Alive, Shares, Creating
<1>4. Fresh'
      BY <1>1 DEF IInv, Order, Fresh
<1>5. Shape'
  <2> SUFFICES ASSUME NEW u \in Threads, Creating(u)' PROVE ShapeOf(u)'
      BY DEF Shape
  <2>1. Creating(u) /\ dev'[u] = dev[u] /\ step'[u] = step[u]
        OBVIOUS
  <2>2. dev[u] \in Devices /\ ShapeOf(u)
        BY <2>1, Maker DEF IInv, Shape
  <2>3. shown'[dev[u]] = shown[dev[u]]
        BY <1>1, <1>3, <2>1, <2>2
  <2> QED
      BY <2>1, <2>2, <2>3 DEF ShapeOf, Complete
<1>6. \A x \in Devices : Complete(x) /\ met[x] = {} => In(x)' /\ shown'[x] = shown[x]
      BY <1>1, <1>2 DEF IInv, Goods, Kept
<1>7. Kept'
  <2> SUFFICES ASSUME NEW x \in Devices
               PROVE  /\ "object" \in shown'[x] => Complete(x)'
                      /\ Complete(x)' => "stream" \in part[x]
                      /\ Complete(x)' /\ met[x] = {} => In(x)'
      BY DEF Kept
  <2>1. CASE shown'[x] = shown[x]
        BY <1>6, <2>1 DEF IInv, Goods, Kept, Complete
  <2>2. CASE shown'[x] = {}
        BY <2>2 DEF Complete
  <2> QED
      BY <1>1, <2>1, <2>2
<1>8. Gone'
      BY DEF IInv, Goods, Gone
<1>9. NoLeftovers'
  <2> SUFFICES ASSUME NEW x, In(x)'
               PROVE  \/ Complete(x)' \/ met[x] # {}
                      \/ \E u \in Threads : Creating(u)' /\ dev'[u] = x
      BY DEF NoLeftovers, ToSet, In
  <2>1. x \in Devices /\ x \in ToSet(list)
    <3>1. In(x) /\ list \in Seq(Devices)
          BY DEF IInv, TypeLists
    <3> QED
        BY <3>1 DEF In, ToSet
  <2>2. Complete(x)' <=> Complete(x)
        BY <1>1, <1>2, <2>1 DEF Complete
  <2>3. \/ Complete(x) \/ met[x] # {}
        \/ \E u \in Threads : Creating(u) /\ dev[u] = x
        BY <2>1 DEF IInv, Goods, NoLeftovers
  <2>4. ASSUME NEW u \in Threads, Creating(u), dev[u] = x
        PROVE  Complete(x) \/ met[x] # {} \/ (Creating(u)' /\ dev'[u] = x)
        BY <2>1, <2>4
  <2> QED
      BY <2>2, <2>3, <2>4
<1>10. Looked'
  <2> SUFFICES ASSUME step'["main"] \in {"visit", "use"}
               PROVE  /\ dev'["main"] \in Devices
                      /\ met[dev'["main"]] # {} \/ shown'[dev'["main"]] = {"object", "stream"}
                      /\ "stream" \in part[dev'["main"]]
                      /\ call = "get" => buffer[dev'["main"]] # NoBuffer
      BY DEF Looked, Complete
  <2>1. dev'["main"] = dev["main"] /\ step'["main"] = step["main"]
        OBVIOUS
  <2>2. /\ dev["main"] \in Devices /\ "stream" \in part[dev["main"]]
        /\ met[dev["main"]] # {} \/ Complete(dev["main"])
        /\ call = "get" => buffer[dev["main"]] # NoBuffer
        BY <2>1 DEF IInv, Goods, Looked
  <2> QED
      BY <1>6, <2>1, <2>2 DEF Complete
<1>11. Counted'
      BY DEF IInv, Goods, Counted
<1>12. CrashExplained'
      BY <1>1, <1>2, <1>8 DEF CrashExplained, Gone
<1>13. \A x \in Devices : Complete(x) /\ ~Complete(x)' => met[x] # {}
      BY <1>6 DEF Complete
<1> QED
    BY <1>1, <1>4, <1>5, <1>7, <1>8, <1>9, <1>10, <1>11, <1>12, <1>13 DEF Goods

\* createDevice ends well.
LEMMA ReturnPreserves ==
    ASSUME IInv, ~crashed, NEW t \in Threads, Return(t)
    PROVE  IInv' /\ \A x \in Devices : Complete(x) /\ ~Complete(x)' => met[x] # {}
<1> USE DEF Return
<1>1. Creating(t) /\ step[t] = "mirror" /\ Reclaim(FALSE)
      BY DEF Creating, Creates
<1>2. \A u \in Threads : Creating(u)' => Creating(u) /\ u # t
      BY DEF IInv, Typed, Creating, Creates
<1>3. \A u \in Threads : u # t => dev'[u] = dev[u] /\ step'[u] = step[u]
      BY DEF IInv, Typed
<1>4. Complete(dev[t])
      BY <1>1 DEF IInv, Shape, ShapeOf
<1>5. step'[t] = "idle"
      BY DEF IInv, Typed
<1>6. /\ Fresh' /\ Shape' /\ Goods' /\ CrashExplained'
      /\ \A x \in Devices : Complete(x) /\ ~Complete(x)' => met[x] # {}
  <2>1. \A x : In(x)' <=> In(x)
        BY DEF In
  <2>2. \A u \in Threads : Creating(u) /\ u # t => Creating(u)'
        BY <1>3 DEF Creating
  <2>3. \A u \in Threads : step'[u] \in {"visit", "use"} => u # t
        BY <1>5
  <2> QED
      BY <1>1, <1>2, <1>3, <1>4, <2>1, <2>2, <2>3, Destroying
<1>7. Ordered' /\ Overlap' /\ LastOwn' /\ Count'
      BY <1>2, <1>3, OrderKept
<1>8. Typed'
  <2>1. shown' \in [Devices -> SUBSET {"object", "stream"}]
        BY <1>1, Reclaiming
  <2> QED
      BY <2>1 DEF IInv, Typed
<1>9. TypeLists'
      BY DEF IInv, TypeLists
<1>10. TypeFlags'
  <2>1. crashed' \in BOOLEAN
        BY <1>1, Reclaiming
  <2> QED
      BY <2>1 DEF IInv, TypeFlags
<1> QED
    BY <1>6, <1>7, <1>8, <1>9, <1>10 DEF IInv, Order

\* A frame is delivered.
LEMMA DeliverPreserves ==
    ASSUME IInv, ~crashed, DeliverFrame
    PROVE  IInv' /\ \A x \in Devices : Complete(x) /\ ~Complete(x)' => met[x] # {}
<1> USE DEF DeliverFrame
<1>1. stale["queue"] \in BOOLEAN /\ Reclaim(stale["queue"]) /\ UNCHANGED stale
      BY DEF IInv, TypeFlags
<1>2. \A u \in Threads :
         /\ Creating(u)' <=> Creating(u)
         /\ Creating(u) \/ u = "main" => dev'[u] = dev[u] /\ step'[u] = step[u]
      BY DEF IInv, Typed, Creating, Creates
<1>3. \A x : In(x)' <=> In(x)
      BY DEF In
<1>4. /\ Fresh' /\ Shape' /\ Goods' /\ CrashExplained'
      /\ \A x \in Devices : Complete(x) /\ ~Complete(x)' => met[x] # {}
      BY <1>1, <1>2, <1>3, Destroying
<1>5. Ordered' /\ Overlap' /\ LastOwn' /\ Count'
      BY <1>2, OrderKept
<1>6. Typed'
  <2>1. shown' \in [Devices -> SUBSET {"object", "stream"}]
        BY <1>1, Reclaiming
  <2> QED
      BY <2>1 DEF IInv, Typed
<1>7. TypeLists'
      BY DEF IInv, TypeLists
<1>8. TypeFlags'
  <2>1. crashed' \in BOOLEAN
        BY <1>1, Reclaiming
  <2> QED
      BY <2>1 DEF IInv, TypeFlags
<1> QED
    BY <1>4, <1>5, <1>6, <1>7, <1>8 DEF IInv, Order

\* A creation fails: the element it erases is that of its own device, or of one
\* whose creation met another.
LEMMA FailPreserves ==
    ASSUME IInv, ~crashed, NEW t \in Threads, Fail(t)
    PROVE  IInv' /\ \A x \in Devices : Complete(x) /\ ~Complete(x)' => met[x] # {}
<1> USE DEF Fail
<1> DEFINE n == Len(list)
<1>1. Creating(t) /\ step[t] = "failed" /\ Reclaim(FALSE)
      BY DEF Creating, Creates
<1>2. \A u \in Threads : Creating(u)' => Creating(u) /\ u # t
      BY DEF IInv, Typed, Creating, Creates
<1>3. \A u \in Threads : u # t => dev'[u] = dev[u] /\ step'[u] = step[u]
      BY DEF IInv, Typed
<1>4. step'[t] = "idle"
      BY DEF IInv, Typed
<1>5. /\ list' \in Seq(Devices) /\ Len(list') = IF n = 0 THEN 0 ELSE n - 1
      /\ \A i \in DOMAIN list' : i \in DOMAIN list /\ list'[i] = list[i]
      /\ \A x : In(x)' => In(x)
      /\ \A x : In(x) /\ ~In(x)' => n > 0 /\ list[n] = x
      BY Popping DEF IInv
<1>6. list \in Seq(Devices) /\ n \in Nat /\ DOMAIN list = 1 .. n /\ DOMAIN list' = 1 .. Len(list')
      BY <1>5 DEF IInv, TypeLists
<1> DEFINE k == Len(list')
<1>0. \A i \in 1 .. k : i \in Nat /\ i < n /\ n > 0 /\ k = n - 1
  <2>1. k = (IF n = 0 THEN 0 ELSE n - 1) /\ n \in Nat
        BY <1>5, <1>6
  <2> HIDE DEF n, k
  <2> QED
      BY <2>1
<1>7. dev[t] \in Devices /\ shown[dev[t]] = {} /\ ("stream" \in part[dev[t]] => refused)
      BY <1>1, Maker DEF IInv, Shape, ShapeOf
<1>8. \A x : n > 0 /\ list[n] = x /\ x # dev[t] => met[x] # {}
  <2> SUFFICES ASSUME n > 0, list[n] # dev[t], met[list[n]] = {} PROVE FALSE
      OBVIOUS
  <2>1. n - n >= Behind("main", list[n]) + Behind("queue", list[n])
        BY <1>6 DEF IInv, Order, Count
  <2>2. Behind(t, list[n]) = 1
        BY <1>1 DEF Behind
  <2>3. Behind("main", list[n]) \in {0, 1} /\ Behind("queue", list[n]) \in {0, 1}
        BY DEF Behind
  <2> QED
      BY <1>6, <2>1, <2>2, <2>3
<1>9. \A i \in DOMAIN list' : list[i] = dev[t] => met[dev[t]] # {}
  <2> SUFFICES ASSUME NEW i \in DOMAIN list', list[i] = dev[t], met[dev[t]] = {} PROVE FALSE
      OBVIOUS
  <2>1. n > 0 /\ list[n] = dev[t]
        BY <1>1 DEF IInv, Order, LastOwn
  <2>2. i \in DOMAIN list /\ n \in DOMAIN list /\ i < n
    <3>1. i \in DOMAIN list /\ i < n
          BY <1>0, <1>5, <1>6
    <3>2. n \in 1 .. n
          BY <1>6, <2>1
    <3> QED
        BY <1>6, <3>1, <3>2
  <2>3. list[i] < list[n]
        BY <2>2 DEF IInv, Order, Ordered
  <2>4. list[n] \in Int
        BY <1>6, <2>2
  <2> QED
      BY <2>1, <2>3, <2>4
<1>10. /\ Fresh' /\ Shape' /\ Goods' /\ CrashExplained'
       /\ \A x \in Devices : Complete(x) /\ ~Complete(x)' => met[x] # {}
  <2>1. \A x \in Devices : In(x) /\ ~In(x)' =>
            met[x] # {} \/ (~Complete(x) /\ ("stream" \in part[x] => refused))
        BY <1>5, <1>7, <1>8 DEF Complete
  <2>2. \A u \in Threads, x \in Devices : In(x)' /\ Creating(u) /\ dev[u] = x =>
            Complete(x) \/ met[x] # {} \/ Creating(u)'
    <3> SUFFICES ASSUME NEW u \in Threads, NEW x \in Devices,
                        In(x)', Creating(u), dev[u] = x, met[x] = {}
                 PROVE  Creating(u)'
        OBVIOUS
    <3>1. u # t
          BY <1>5, <1>9 DEF In
    <3> QED
        BY <1>3, <3>1 DEF Creating
  <2>3. \A u \in Threads : step'[u] \in {"visit", "use"} => u # t
        BY <1>4
  <2> HIDE DEF Fail
  <2>4. UNCHANGED <<made, part, met, refused, call, buffer>>
        BY DEF Fail
  <2> QED
      BY <1>1, <1>2, <1>3, <1>5, <2>1, <2>2, <2>3, <2>4, Destroying
<1>11. Ordered'
       BY <1>5 DEF IInv, Order, Ordered
<1>12. Overlap'
       BY <1>2 DEF Overlap
<1>13. LastOwn'
  <2> SUFFICES ASSUME NEW u \in Threads, Creating(u)' PROVE met[dev[u]] # {} /\ dev'[u] = dev[u]
      BY DEF LastOwn
  <2>1. Creating(u) /\ Creating(t) /\ u # t
        BY <1>1, <1>2
  <2> QED
      BY <1>3, <2>1 DEF IInv, Order, Overlap
<1>14. Count'
  <2> SUFFICES ASSUME NEW i \in DOMAIN list', met[list[i]] = {}, list'[i] = list[i]
               PROVE  Len(list') - i >= Behind("main", list[i])' + Behind("queue", list[i])'
      BY <1>5 DEF Count, Behind
  <2>1. list[i] # dev[t]
        BY <1>9
  <2>2. n - i >= Behind("main", list[i]) + Behind("queue", list[i])
        BY <1>5 DEF IInv, Order, Count
  <2>3. Behind(t, list[i]) = 1 /\ Behind(t, list[i])' = 0
        BY <1>1, <1>2, <2>1 DEF Behind
  <2>4. \A u \in Threads : u # t => Behind(u, list[i])' = Behind(u, list[i])
        BY <1>3 DEF Behind, Creating
  <2>5. /\ Behind("main", list[i]) \in {0, 1} /\ Behind("queue", list[i]) \in {0, 1}
        BY DEF Behind
  <2>6. n \in Nat /\ n > 0 /\ i \in Nat /\ k = n - 1
        BY <1>0, <1>6
  <2> QED
      BY <2>2, <2>3, <2>4, <2>5, <2>6
<1>15. Typed'
  <2>1. shown' \in [Devices -> SUBSET {"object", "stream"}]
        BY <1>1, Reclaiming
  <2> QED
      BY <2>1 DEF IInv, Typed
<1>16. TypeLists'
       BY <1>5 DEF IInv, TypeLists
<1>17. TypeFlags'
  <2>1. crashed' \in BOOLEAN
        BY <1>1, Reclaiming
  <2> QED
      BY <2>1 DEF IInv, TypeFlags, Invalidate
<1> QED
    BY <1>10, <1>11, <1>12, <1>13, <1>14, <1>15, <1>16, <1>17 DEF IInv, Order

\* A creation begins: its device is the last, and meets the other creation.
LEMMA BeginCreatePreserves ==
    ASSUME IInv, ~crashed, NEW t \in Threads, BeginCreate(t)
    PROVE  IInv'
<1> DEFINE d == made + 1  n == Len(list)
           other == {dev[u] : u \in {v \in Threads : Creating(v)}}
<1>1. /\ d \in Devices /\ made \in Nat /\ d > made
      /\ part[d] = {} /\ shown[d] = {} /\ met[d] = {}
  <2>1. d \in Devices /\ made \in Nat /\ d > made
        BY DEF IInv, Typed, BeginCreate
  <2> QED
      BY <2>1 DEF IInv, Order, Fresh
<1>2. /\ UNCHANGED <<part, shown, ahead, call, buffer, refused, crashed>>
      /\ step' = [step EXCEPT ![t] = "object"] /\ dev' = [dev EXCEPT ![t] = d]
      /\ step[t] = "idle" /\ made' = d
      BY DEF BeginCreate
<1>3. /\ list' \in Seq(Devices) /\ Len(list') = n + 1
      /\ \A i \in DOMAIN list : list'[i] = list[i]
      /\ list'[n + 1] = d
      /\ \A x : In(x)' <=> In(x) \/ x = d
  <2>1. list' = Append(list, d)
        BY DEF BeginCreate, Pushed
  <2> QED
      BY <1>1, <2>1, Pushing DEF IInv
<1>4. /\ list \in Seq(Devices) /\ n \in Nat /\ DOMAIN list = 1 .. n
      /\ DOMAIN list' = 1 .. n + 1
      BY <1>3 DEF IInv, TypeLists
<1>5. met' = [e \in Devices |-> IF e = d THEN other
                                ELSE IF e \in other THEN met[e] \cup {d} ELSE met[e]]
      BY DEF BeginCreate
<1>6. \A x : x \in other <=> \E u \in Threads : Creating(u) /\ x = dev[u]
      OBVIOUS
<1>7. \A u \in Threads : Creating(u) => dev[u] \in 1 .. made /\ dev[u] \in Devices /\ dev[u] # d
      BY <1>1, Maker
<1> HIDE DEF d, other
<1>8. \A u \in Threads : u # t => dev'[u] = dev[u] /\ step'[u] = step[u]
      BY <1>2 DEF IInv, Typed
<1>9. step'[t] = "object" /\ dev'[t] = d /\ Creating(t)' /\ ~Creating(t)
      BY <1>2 DEF IInv, Typed, Creating, Creates
<1>10. \A u \in Threads : u # t => (Creating(u)' <=> Creating(u))
       BY <1>8 DEF Creating
<1>11. other \subseteq Devices
       BY <1>6, <1>7
<1>12. \A x \in Devices : met[x] # {} => met'[x] # {}
       BY <1>1, <1>5
<1>13. \A u \in Threads : Creating(u) => d \in met'[dev[u]] /\ dev[u] \in met'[d]
       BY <1>1, <1>5, <1>6, <1>7
<1>14. \A i \in DOMAIN list : list[i] \in Devices /\ list[i] # d
       BY <1>1, <1>4 DEF IInv, Order, Ordered
<1>15. \A i \in DOMAIN list' : i \in DOMAIN list \/ i = n + 1
       BY <1>4
<1>16. Typed'
  <2>1. met' \in [Devices -> SUBSET Devices]
    <3>1. \A x \in Devices : met[x] \in SUBSET Devices
          BY DEF IInv, Typed
    <3> QED
        BY <1>1, <1>5, <1>11, <3>1
  <2>2. step' \in [Threads -> Creates \cup {"idle", "visit", "use"}]
        BY <1>2 DEF IInv, Typed, Creates
  <2>3. dev' \in [Threads -> 0 .. MaxDevices] /\ made' \in 0 .. MaxDevices
        BY <1>1, <1>2 DEF IInv, Typed
  <2> QED
      BY <1>2, <2>1, <2>2, <2>3 DEF IInv, Typed
<1>17. TypeLists'
       BY <1>2, <1>3 DEF IInv, TypeLists
<1>18. TypeFlags'
  <2>1. /\ stale' = [u \in Threads |-> stale[u] \/ (u # t /\ step[u] = "visit")]
        /\ inited' = (inited \/ t = "main")
        BY DEF BeginCreate, Invalidate
  <2>2. inited' \in BOOLEAN
        BY <2>1, Zenon
  <2>3. stale' \in [Threads -> BOOLEAN]
        BY <2>1, Zenon
  <2> QED
      BY <1>2, <2>2, <2>3 DEF IInv, TypeFlags
<1>19. Fresh'
  <2> SUFFICES ASSUME NEW x \in Devices, x > d
               PROVE  part'[x] = {} /\ shown'[x] = {} /\ met'[x] = {}
      BY <1>2 DEF Fresh
  <2>1. x > made /\ x # d /\ x \notin other
        BY <1>1, <1>6, <1>7 DEF d
  <2> QED
      BY <1>2, <1>5, <2>1 DEF IInv, Order, Fresh
<1>20. Ordered'
  <2> SUFFICES ASSUME NEW i \in DOMAIN list'
               PROVE  list'[i] <= d /\ \A j \in DOMAIN list' : i < j => list'[i] < list'[j]
      BY <1>2 DEF Ordered
  <2>1. CASE i \in DOMAIN list
    <3>1. /\ list'[i] = list[i] /\ list[i] <= made /\ list[i] \in Nat
          /\ \A j \in DOMAIN list : i < j => list[i] < list[j]
          BY <1>3, <1>14, <2>1 DEF IInv, Order, Ordered
    <3>2. list[i] <= d /\ list[i] < d
          BY <1>1, <3>1 DEF d
    <3>3. ASSUME NEW j \in DOMAIN list', i < j PROVE list'[i] < list'[j]
      <4>1. CASE j \in DOMAIN list
            BY <1>3, <3>1, <3>3, <4>1
      <4>2. CASE j = n + 1
            BY <1>3, <3>1, <3>2, <4>2
      <4> QED
          BY <1>15, <4>1, <4>2
    <3> QED
        BY <3>1, <3>2, <3>3
  <2>2. CASE i = n + 1
    <3>1. list'[i] = d /\ d <= d
          BY <1>1, <1>3, <2>2 DEF d
    <3>2. \A j \in DOMAIN list' : ~(i < j)
          BY <1>4, <2>2
    <3> QED
        BY <3>1, <3>2
  <2> QED
      BY <1>15, <2>1, <2>2
<1>21. Overlap'
  <2> SUFFICES ASSUME NEW u \in Threads, u # t, Creating(u)
               PROVE  dev[u] # d /\ dev[u] \in met'[d] /\ d \in met'[dev[u]]
      BY <1>8, <1>9, <1>10 DEF Overlap
  <2> QED
      BY <1>7, <1>13
<1>22. LastOwn'
  <2> SUFFICES ASSUME NEW u \in Threads, Creating(u)', met'[dev'[u]] = {}
               PROVE  Len(list') > 0 /\ list'[Len(list')] = dev'[u]
      BY DEF LastOwn
  <2>1. u = t
        BY <1>8, <1>10, <1>13
  <2> QED
      BY <1>3, <1>4, <1>9, <2>1
<1>23. Count'
  <2> SUFFICES ASSUME NEW i \in DOMAIN list', NEW x \in Devices, x = list'[i], met'[x] = {}
               PROVE  Len(list') - i >= Behind("main", x)' + Behind("queue", x)'
    <3>1. \A i \in DOMAIN list' : list'[i] \in Devices
          BY <1>3
    <3> QED
        BY <3>1 DEF Count, Behind
  <2>1. \A u \in Threads : Creating(u) => dev[u] # x
        BY <1>13
  <2>2. \A u \in Threads : u # t => Behind(u, x)' = 0 \/ Behind(u, x)' = Behind(u, x)
        BY <1>8, <1>10 DEF Behind
  <2>3. Behind(t, x)' = (IF d # x THEN 1 ELSE 0) /\ Behind(t, x) = 0
        BY <1>9 DEF Behind
  <2>4. \A u \in Threads : Behind(u, x) \in {0, 1}
        BY DEF Behind
  <2>5. CASE i \in DOMAIN list
    <3>1. x = list[i] /\ met[x] = {}
          BY <1>3, <1>12, <2>5
    <3>2. n - i >= Behind("main", x) + Behind("queue", x)
          BY <2>5, <3>1 DEF IInv, Order, Count
    <3> HIDE DEF n
    <3>3. i \in Nat /\ n \in Nat /\ Len(list') = n + 1
          BY <1>3, <1>4, <2>5
    <3> QED
        BY <2>2, <2>3, <2>4, <3>2, <3>3
  <2>6. CASE i = n + 1
    <3>1. x = d
          BY <1>3, <2>6
    <3>2. \A u \in Threads : ~Creating(u)
          BY <1>13, <3>1
    <3>3. Behind("main", x)' = 0 /\ Behind("queue", x)' = 0
          BY <1>9, <1>10, <3>1, <3>2 DEF Behind
    <3> QED
        BY <1>3, <1>4, <2>6, <3>3
  <2> QED
      BY <1>15, <2>5, <2>6
<1>24. Shape'
  <2> SUFFICES ASSUME NEW u \in Threads, Creating(u)' PROVE ShapeOf(u)'
      BY DEF Shape
  <2>1. CASE u = t
        BY <1>1, <1>2, <1>9, <2>1 DEF ShapeOf, Complete, d
  <2>2. CASE u # t
    <3>1. ShapeOf(u) /\ dev'[u] = dev[u] /\ step'[u] = step[u]
          BY <1>8, <1>10, <2>2 DEF IInv, Shape
    <3>2. dev[u] \in 1 .. made'
          BY <1>1, <1>2, <3>1 DEF ShapeOf, d
    <3> QED
        BY <1>2, <3>1, <3>2 DEF ShapeOf, Complete
  <2> QED
      BY <2>1, <2>2
<1>25. Kept' /\ Gone'
       BY <1>2, <1>3, <1>12 DEF IInv, Goods, Kept, Gone, Complete
<1>26. PublishedAlive'
  <2> SUFFICES ASSUME NEW x \in Devices, shown[x] # {} PROVE Alive(x)'
      BY <1>2 DEF PublishedAlive
  <2>1. In(x) \/ \E u \in Threads : Shares(u) /\ dev[u] = x
        BY Exists DEF IInv, Goods, PublishedAlive
  <2>2. CASE In(x)
        BY <1>3, <2>2 DEF In, Alive, ToSet
  <2>3. ASSUME NEW u \in Threads, Shares(u), dev[u] = x PROVE Alive(x)'
    <3>1. u # t
          BY <1>2, <2>3 DEF Shares, Creating, Creates
    <3> QED
        BY <1>8, <1>10, <2>3, <3>1 DEF Alive, Shares, Creating
  <2> QED
      BY <2>1, <2>2, <2>3
<1>27. NoLeftovers'
  <2> SUFFICES ASSUME NEW x \in Devices, In(x)'
               PROVE  \/ Complete(x)' \/ met'[x] # {}
                      \/ \E u \in Threads : Creating(u)' /\ dev'[u] = x
    <3>1. \A x : In(x)' => x \in Devices
          BY <1>3 DEF In
    <3> QED
        BY <3>1 DEF NoLeftovers, ToSet, In
  <2>1. CASE x = d
        BY <1>9, <2>1
  <2>2. CASE In(x)
    <3>1. \/ Complete(x) \/ met[x] # {}
          \/ \E u \in Threads : Creating(u) /\ dev[u] = x
          BY <2>2 DEF IInv, Goods, NoLeftovers, ToSet, In
    <3>2. \A u \in Threads : Creating(u) => Creating(u)' /\ dev'[u] = dev[u]
          BY <1>8, <1>9, <1>10
    <3> QED
        BY <1>2, <1>12, <3>1, <3>2 DEF Complete
  <2> QED
      BY <1>3, <2>1, <2>2
<1>28. Looked'
  <2> SUFFICES ASSUME step'["main"] \in {"visit", "use"}
               PROVE  /\ dev'["main"] \in Devices
                      /\ met'[dev'["main"]] # {} \/ shown[dev'["main"]] = {"object", "stream"}
                      /\ "stream" \in part[dev'["main"]]
                      /\ call = "get" => buffer[dev'["main"]] # NoBuffer
      BY <1>2 DEF Looked, Complete
  <2>1. dev'["main"] = dev["main"] /\ step'["main"] = step["main"]
        BY <1>8, <1>9
  <2>2. /\ dev["main"] \in Devices /\ "stream" \in part[dev["main"]]
        /\ met[dev["main"]] # {} \/ Complete(dev["main"])
        /\ call = "get" => buffer[dev["main"]] # NoBuffer
        BY <2>1 DEF IInv, Goods, Looked
  <2> QED
      BY <1>12, <2>1, <2>2 DEF Complete
<1>29. Counted'
       BY <1>2 DEF IInv, Goods, Counted
<1>30. CrashExplained'
       BY <1>2 DEF CrashExplained
<1> QED
    BY <1>16, <1>17, <1>18, <1>19, <1>20, <1>21, <1>22, <1>23, <1>24, <1>25, <1>26, <1>27, <1>28,
       <1>29, <1>30 DEF IInv, Order, Goods

-----------------------------------------------------------------------------
(* The theorems.                                                           *)

LEMMA InitInv == Init => IInv
<1> SUFFICES ASSUME Init PROVE IInv
    OBVIOUS
<1> USE DEF Init
<1>1. Typed
      BY DEF Typed, Creates
<1>2. TypeLists /\ TypeFlags
  <2>1. list \in Seq(Devices) /\ ahead \in [Threads -> Seq(Devices)]
        OBVIOUS
  <2>2. TypeFlags
        BY Zenon DEF TypeFlags
  <2> QED
      BY <2>1, <2>2 DEF TypeLists
<1>3. \A t \in Threads : ~Creating(t)
      BY DEF Creating, Creates
<1>4. Order /\ Shape
      BY <1>3 DEF Order, Shape, Fresh, Ordered, Overlap, LastOwn, Count
<1>5. Goods /\ CrashExplained
      BY DEF Goods, Kept, Gone, PublishedAlive, NoLeftovers, Looked, Counted, CrashExplained,
             Complete, ToSet
<1> QED
    BY <1>1, <1>2, <1>4, <1>5 DEF IInv

\* A step takes nothing complete away from a device whose creation met no other.
LEMMA NextPreserves ==
    ASSUME IInv, [Next]_vars
    PROVE  IInv' /\ \A x \in Devices : Complete(x) /\ ~Complete(x)' => met[x] # {}
<1> DEFINE Stays == \A x \in Devices : Complete(x) /\ ~Complete(x)' => met[x] # {}
<1>1. CASE UNCHANGED vars
  <2> USE DEF vars
  <2>1. Order' /\ Shape' /\ Kept' /\ Gone' /\ NoLeftovers' /\ PublishedAlive'
        BY <1>1, LoopKept DEF Creating
  <2>2. Typed' /\ TypeLists' /\ TypeFlags'
        BY <1>1 DEF IInv, Typed, TypeLists, TypeFlags
  <2>3. Looked' /\ Counted' /\ CrashExplained' /\ Stays
        BY <1>1 DEF IInv, Goods, Looked, Counted, CrashExplained, Complete
  <2> QED
      BY <2>1, <2>2, <2>3 DEF IInv, Goods
<1>2. ASSUME ~crashed, NEW t \in Threads, Return(t) \/ Fail(t) PROVE IInv' /\ Stays
      BY <1>2, ReturnPreserves, FailPreserves
<1>3. ASSUME ~crashed, DeliverFrame PROVE IInv' /\ Stays
      BY <1>3, DeliverPreserves
<1>4. ASSUME ~crashed, NEW t \in Threads, RegisterStreams(t) \/ RegisterObject(t)
      PROVE  IInv' /\ Stays
  <2>1. IInv'
        BY <1>4, RegisterStreamsPreserves, RegisterObjectPreserves
  <2>2. dev[t] \in Devices /\ ~Complete(dev[t])
        BY <1>4, Maker DEF RegisterStreams, RegisterObject, Creating, Creates, IInv, Shape,
                           ShapeOf, Complete
  <2>3. \A x \in Devices : x # dev[t] => shown'[x] = shown[x]
        BY <1>4 DEF RegisterStreams, RegisterObject, Publish, IInv, Typed
  <2> QED
      BY <2>1, <2>2, <2>3 DEF Complete
<1>5. ASSUME ~crashed, NEW t \in Threads,
             \/ BeginCreate(t) \/ CreateObject(t) \/ AddStream(t) \/ Visit(t) \/ EndLoop(t)
      PROVE  IInv' /\ Stays
  <2>1. IInv'
        BY <1>5, BeginCreatePreserves, CreateObjectPreserves, AddStreamPreserves,
           VisitPreserves, EndLoopPreserves
  <2>2. UNCHANGED shown
        BY <1>5 DEF BeginCreate, CreateObject, AddStream, Visit, EndLoop
  <2> QED
      BY <2>1, <2>2 DEF Complete
<1>6. ASSUME ~crashed, BeginFrame \/ BeginCall \/ CountList \/ UseObject
      PROVE  IInv' /\ Stays
  <2>1. IInv'
        BY <1>6, BeginFramePreserves, BeginCallPreserves, EndCallPreserves
  <2>2. UNCHANGED shown
        BY <1>6 DEF BeginFrame, BeginCall, BeginLoop, CountList, UseObject, EndCall
  <2> QED
      BY <2>1, <2>2 DEF Complete
<1> QED
    BY <1>1, <1>2, <1>3, <1>4, <1>5, <1>6 DEF Next, Thread

\* The inductive invariant.
THEOREM Invariance == Spec => []IInv
<1>1. IInv /\ [Next]_vars => IInv'
      BY NextPreserves
<1> QED
    BY InitInv, <1>1, PTL DEF Spec

\* Every variable has its type.
THEOREM TypeCorrect == Spec => []TypeOK
<1>1. IInv => TypeOK
      BY DEF IInv, Typed, TypeLists, TypeFlags, TypeOK
<1> QED
    BY Invariance, <1>1, PTL

\* What is published exists: however createDevice_failed mixes up two creations
\* and whatever CMIO refuses, no published object is of a destroyed device.
THEOREM NoGhost == Spec => []PublishedAlive
<1>1. IInv => PublishedAlive
      BY DEF IInv, Goods
<1> QED
    BY Invariance, <1>1, PTL

\* m_devices keeps no remains of a failed creation unless it met another.
THEOREM CleanList == Spec => []NoLeftovers
<1>1. IInv => NoLeftovers
      BY DEF IInv, Goods
<1> QED
    BY Invariance, <1>1, PTL

\* The raw pointer of findObject is good for the call, whatever the XPC queue
\* does meanwhile, unless the creation of its device met another.
THEOREM PointerGood == Spec => []NoDangling
<1>1. IInv => NoDangling
  <2> SUFFICES ASSUME IInv, step["main"] = "use", met[dev["main"]] = {} PROVE Alive(dev["main"])
      BY DEF NoDangling
  <2>1. dev["main"] \in Devices /\ Complete(dev["main"])
        BY DEF IInv, Goods, Looked
  <2> QED
      BY <2>1 DEF IInv, Goods, PublishedAlive, Complete
<1> QED
    BY Invariance, <1>1, PTL

\* A list never outgrows the buffer sized for it.
THEOREM ListFits == Spec => []GetFits
<1>1. IInv => GetFits
  <2> SUFFICES ASSUME IInv, step["main"] = "use", call = "get"
               PROVE  Listed(dev["main"]) <= buffer[dev["main"]]
      BY DEF GetFits
  <2>1. dev["main"] \in Devices /\ buffer[dev["main"]] = 1
        BY DEF IInv, Goods, Looked, Counted
  <2> QED
      BY <2>1 DEF Listed
<1> QED
    BY Invariance, <1>1, PTL

\* The three reasons of a crash are all there are.
THEOREM CrashCauses == Spec => []CrashExplained
<1>1. IInv => CrashExplained
      BY DEF IInv
<1> QED
    BY Invariance, <1>1, PTL

\* A camera the application has seen stays unless its creation met another.
THEOREM CameraStays == Spec => StaysPublished
<1>1. IInv /\ [Next]_vars => [\A d \in Devices : Complete(d) /\ ~Complete(d)' => met[d] # {}]_vars
      BY NextPreserves
<1> QED
    BY Invariance, <1>1, PTL DEF Spec, StaysPublished

=============================================================================
