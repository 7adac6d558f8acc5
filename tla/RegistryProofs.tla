--------------------------- MODULE RegistryProofs ---------------------------
(***************************************************************************)
(* Safety of Registry, proved for every set of peers and every bound.      *)
(*                                                                         *)
(* The inductive invariant IInv says where a peer stands when its handler  *)
(* or its request stands somewhere (Protocol), where its entry can be      *)
(* (Entered), what the overlap history knows (Overlap), why the timer can  *)
(* run over maps that hold a peer (Armed), and, as long as no two handlers *)
(* met inside id(), that every number in use is distinct and below the     *)
(* counter (Fresh).                                                        *)
(***************************************************************************)
EXTENDS Registry, TLAPS

\* Handlers that have not inserted yet, handlers past the insertion, handlers past id().
Inserting == {"read", "drawn", "checked"}
Past      == {"inserted", "stopping", "removing"}
Numbered  == {"drawn", "checked"} \cup Past

\* Where the peer is, given its request and its handler.
Protocol ==
    \A p \in Peers :
        /\ request[p] = "ADD_CONNECTION" =>
              at[p] = "idle" /\ phase[p] \in {"calling", "dead"} /\ grant[p].id = NoPort
        /\ at[p] \in AddSteps =>
              request[p] = "none" /\ phase[p] \in {"calling", "dead"} /\ grant[p].id = NoPort
        /\ phase[p] \in {"idle", "failed"} =>
              request[p] = "none" /\ at[p] = "idle" /\ grant[p].id = NoPort
        /\ phase[p] = "calling" => request[p] = "ADD_CONNECTION" \/ at[p] \in AddSteps
        /\ phase[p] = "registered" =>
              request[p] = "none" /\ at[p] = "idle" /\ portName[p] = grant[p].id
        /\ request[p] = "REMOVE_CONNECTION" =>
              /\ at[p] = "idle" /\ phase[p] = "closed"
              /\ requestPort[p] = grant[p].id

\* A process that is not running has no state; grants lie in the past.
Daemon ==
    /\ ~running => /\ entries = {} /\ nextId = 0 /\ timer = "none" /\ ~leaked
                   /\ \A p \in Peers : at[p] = "idle"
    /\ \A p \in Peers : grant[p].inc <= inc

\* A peer has an entry only after its own successful insertion.
OneOwnerPerName == \A e, f \in entries : e.port = f.port => e = f

Entered ==
    /\ OneEntryPerPeer /\ OneOwnerPerName
    /\ \A e \in entries :
          /\ request[e.peer] # "ADD_CONNECTION"
          /\ at[e.peer] \notin Inserting
          /\ phase[e.peer] \notin {"idle", "failed"}
          /\ at[e.peer] \in Past =>
                free[e.peer] /\ e.port = Port(e.peer, drawn[e.peer])

\* Handlers alive together know of each other, and a name found free is still
\* free unless a handler that was alive with this one has taken it.
Overlap ==
    /\ \A p, q \in Peers : at[p] \in AddSteps /\ at[q] \in AddSteps /\ p # q => q \in met[p]
    /\ \A p \in Peers : at[p] = "checked" /\ free[p] =>
          \A e \in entries : e.port = Port(p, drawn[p]) => e.peer \in met[p]

\* Numbers while no two handlers have met inside id(): those the handlers
\* hold, those in the maps and those granted are below the counter and differ.
FreshHandlers ==
    /\ \A p, q \in Peers : at[p] = "read" /\ at[q] = "read" => p = q
    /\ \A p \in Peers : at[p] = "read" => drawn[p] = nextId
    /\ \A p \in Peers : at[p] \in Numbered => drawn[p] < nextId
    /\ \A p \in Peers : at[p] \in {"checked"} \cup Past => free[p]
    /\ \A p, q \in Peers :
          at[p] \in Numbered /\ at[q] \in Numbered /\ drawn[p] = drawn[q] => p = q

FreshEntries ==
    /\ \A e \in entries : e.port[2] < nextId
    /\ \A e \in entries, p \in Peers :
          at[p] \in Numbered /\ e.port = Port(p, drawn[p]) => e.peer = p

FreshGrants ==
    /\ \A p \in Peers : Granted(p) => grant[p].id < nextId
    /\ \A p, q \in Peers :
          Granted(p) /\ at[q] \in Numbered => grant[p].id # drawn[q]
    /\ \A e \in entries, p \in Peers :
          Granted(p) /\ e.port = Port(p, grant[p].id) => e.peer = p

Fresh == ~raced /\ running => FreshHandlers /\ FreshEntries /\ FreshGrants

\* Two peers granted a name by the running incarnation have two names.  The
\* clause outlives the process: grants are a matter of the past.
Distinct ==
    ~raced => \A p, q \in Peers :
        Granted(p) /\ Granted(q) /\ grant[p].id = grant[q].id => p = q

\* A scheduled timer that m_timer holds was scheduled behind the back of the peer the maps
\* hold, or the handler of a peer just entered has yet to stop it.
Armed == timer = "scheduled" /\ entries # {} => slipped \/ Replying # {}

IInv == TypeOK /\ Protocol /\ Daemon /\ Entered /\ Overlap /\ Fresh /\ Distinct /\ Armed

-----------------------------------------------------------------------------
USE DEF Peers, Phases, Requests, AddSteps, Steps, Ports, NoPort, Timers, timerVars, Past

\* The initial states satisfy the invariant.
LEMMA InitIInv == Init => IInv
<1> SUFFICES ASSUME Init PROVE IInv
    OBVIOUS
<1>1. TypeOK
    BY DEF Init, TypeOK
<1>2. Protocol /\ Daemon
    BY DEF Init, Protocol, Daemon
<1>3. Entered /\ Overlap
    BY DEF Init, Entered, OneEntryPerPeer, OneOwnerPerName, Overlap
<1>4. Fresh /\ Distinct
    BY DEF Init, Fresh, FreshHandlers, FreshEntries, FreshGrants, Distinct, Granted
<1>5. Armed
    BY DEF Init, Armed
<1> QED
    BY <1>1, <1>2, <1>3, <1>4, <1>5 DEF IInv

\* The accesses of one handler to m_timer.
TimerStep(p) ==
    TestTimer(p) \/ StoreTimer(p) \/ AddTimer(p) \/ InvalidateTimer(p) \/ RemoveTimer(p)

\* Every step keeps the types.
LEMMA TypeStep == TypeOK /\ [Next]_vars => TypeOK'
<1> SUFFICES ASSUME TypeOK, [Next]_vars PROVE TypeOK'
    OBVIOUS
<1> USE DEF TypeOK
<1>1. ASSUME NEW p \in Peers, Register(p) \/ Unregister(p) \/ Die(p) PROVE TypeOK'
    BY <1>1 DEF Register, Unregister, Die, daemonVars, handlerVars
<1>2. ASSUME NEW p \in Peers, DrawRead(p) PROVE TypeOK'
    BY <1>2 DEF DrawRead, Adding, daemonVars
<1>3. ASSUME NEW p \in Peers, DrawWrite(p) PROVE TypeOK'
    BY <1>3 DEF DrawWrite, AfterDraw, peerVars
<1>10. ASSUME NEW p \in Peers, CheckPort(p) PROVE TypeOK'
    BY <1>10 DEF CheckPort, daemonVars, peerVars
<1>4. ASSUME NEW p \in Peers, InsertPeer(p) PROVE TypeOK'
    BY <1>4 DEF InsertPeer, Port, Role, peerVars
<1>5. ASSUME NEW p \in Peers, ReplyAdd(p) PROVE TypeOK'
    <2>1. timer' \in Timers /\ leaked' \in BOOLEAN /\ slipped' \in BOOLEAN
        BY <1>5 DEF ReplyAdd, DropTimer
    <2> QED
        BY <1>5, <2>1 DEF ReplyAdd, DropTimer
<1>6. ASSUME NEW p \in Peers, ErasePeer(p) \/ TestEmpty(p) \/ TimerStep(p) PROVE TypeOK'
    BY <1>6 DEF ErasePeer, TestEmpty, TimerStep, TestTimer, StoreTimer, AddTimer,
       InvalidateTimer, RemoveTimer, daemonVars, peerVars
<1>7. ASSUME NEW lost \in SUBSET Pending, Terminate(lost) PROVE TypeOK'
    BY <1>7 DEF Terminate
<1>8. CASE Launch
    <2>2. /\ UNCHANGED <<nextId, entries, timerVars, at, drawn, free, met>>
          /\ UNCHANGED <<phase, portName, request, requestPort, grant>>
        BY <1>8 DEF Launch, peerVars
    <2>3. running' \in BOOLEAN /\ raced' \in BOOLEAN
        BY <1>8 DEF Launch
    <2>4. inc' \in Nat
        BY <1>8 DEF Launch
    <2> QED
        BY <2>2, <2>3, <2>4
<1>9. CASE UNCHANGED vars
    BY <1>9 DEF vars, daemonVars, handlerVars, peerVars
<1> QED
    BY <1>1, <1>2, <1>3, <1>4, <1>5, <1>6, <1>7, <1>8, <1>9, <1>10
       DEF Next, Handle, TimerStep, TimerTimeout, AssistantCrash

\* Every step keeps peers and handlers in agreement.
LEMMA ProtocolStep == TypeOK /\ Protocol /\ [Next]_vars => Protocol'
<1> SUFFICES ASSUME TypeOK, Protocol, [Next]_vars PROVE Protocol'
    OBVIOUS
<1> USE DEF TypeOK, Protocol
<1>1. ASSUME NEW p \in Peers, Register(p) \/ Unregister(p) \/ Die(p) PROVE Protocol'
    BY <1>1 DEF Register, MayRegister, Unregister, HoldsConnection, Die, daemonVars, handlerVars
<1>2. ASSUME NEW p \in Peers, DrawRead(p) PROVE Protocol'
    BY <1>2 DEF DrawRead, Adding, daemonVars
<1>3. ASSUME NEW p \in Peers, DrawWrite(p) PROVE Protocol'
    BY <1>3 DEF DrawWrite, AfterDraw, peerVars
<1>4. ASSUME NEW p \in Peers, CheckPort(p) PROVE Protocol'
    BY <1>4 DEF CheckPort, PortTaken, daemonVars, peerVars
<1>5. ASSUME NEW p \in Peers, InsertPeer(p) PROVE Protocol'
    BY <1>5 DEF InsertPeer, peerVars
<1>6. ASSUME NEW p \in Peers, ReplyAdd(p) PROVE Protocol'
    BY <1>6 DEF ReplyAdd, DropTimer
<1>7. ASSUME NEW p \in Peers, ErasePeer(p) PROVE Protocol'
    BY <1>7 DEF ErasePeer
<1>8. ASSUME NEW p \in Peers, TestEmpty(p) \/ TimerStep(p) PROVE Protocol'
    <2>1. CASE TestEmpty(p)
        BY <2>1 DEF TestEmpty, daemonVars, peerVars
    <2>2. CASE TestTimer(p)
        BY <2>2 DEF TestTimer, daemonVars, peerVars
    <2>3. CASE StoreTimer(p)
        BY <2>3 DEF StoreTimer, daemonVars, peerVars
    <2>4. CASE AddTimer(p)
        BY <2>4 DEF AddTimer, daemonVars, peerVars
    <2>5. CASE InvalidateTimer(p)
        BY <2>5 DEF InvalidateTimer, daemonVars, peerVars
    <2>6. CASE RemoveTimer(p)
        BY <2>6 DEF RemoveTimer, daemonVars, peerVars
    <2> QED
        BY <1>8, <2>1, <2>2, <2>3, <2>4, <2>5, <2>6 DEF TimerStep
<1>9. ASSUME NEW lost \in SUBSET Pending, Terminate(lost) PROVE Protocol'
    BY <1>9 DEF Terminate, Adding
<1>10. CASE Launch
    BY <1>10 DEF Launch, peerVars
<1>11. CASE UNCHANGED vars
    BY <1>11 DEF vars, daemonVars, handlerVars, peerVars
<1> QED
    BY <1>1, <1>2, <1>3, <1>4, <1>5, <1>6, <1>7, <1>8, <1>9, <1>10, <1>11
       DEF Next, Handle, TimerStep, TimerTimeout, AssistantCrash

\* Every step leaves a daemon that is down empty.
LEMMA DaemonStep == TypeOK /\ Daemon /\ [Next]_vars => Daemon'
<1> SUFFICES ASSUME TypeOK, Daemon, [Next]_vars PROVE Daemon'
    OBVIOUS
<1> USE DEF TypeOK, Daemon
<1>1. ASSUME NEW p \in Peers, Register(p) \/ Unregister(p) \/ Die(p) PROVE Daemon'
    BY <1>1 DEF Register, MayRegister, Unregister, HoldsConnection, Die, daemonVars, handlerVars
<1>2. ASSUME NEW p \in Peers, DrawRead(p) PROVE Daemon'
    BY <1>2 DEF DrawRead, Adding, daemonVars
<1>3. ASSUME NEW p \in Peers, DrawWrite(p) PROVE Daemon'
    BY <1>3 DEF DrawWrite, AfterDraw, peerVars
<1>4. ASSUME NEW p \in Peers, CheckPort(p) PROVE Daemon'
    BY <1>4 DEF CheckPort, PortTaken, daemonVars, peerVars
<1>5. ASSUME NEW p \in Peers, InsertPeer(p) PROVE Daemon'
    BY <1>5 DEF InsertPeer, peerVars
<1>6. ASSUME NEW p \in Peers, ReplyAdd(p) PROVE Daemon'
    BY <1>6 DEF ReplyAdd, DropTimer
<1>7. ASSUME NEW p \in Peers, ErasePeer(p) PROVE Daemon'
    BY <1>7 DEF ErasePeer
<1>8. ASSUME NEW p \in Peers, TestEmpty(p) \/ TimerStep(p) PROVE Daemon'
    BY <1>8 DEF TestEmpty, TimerStep, TestTimer, StoreTimer, AddTimer,
       InvalidateTimer, RemoveTimer, daemonVars, peerVars
<1>9. ASSUME NEW lost \in SUBSET Pending, Terminate(lost) PROVE Daemon'
    BY <1>9 DEF Terminate, Adding
<1>10. CASE Launch
    BY <1>10 DEF Launch, peerVars
<1>11. CASE UNCHANGED vars
    BY <1>11 DEF vars, daemonVars, handlerVars, peerVars
<1> QED
    BY <1>1, <1>2, <1>3, <1>4, <1>5, <1>6, <1>7, <1>8, <1>9, <1>10, <1>11
       DEF Next, Handle, TimerStep, TimerTimeout, AssistantCrash

\* An entry names a peer and carries a number.
LEMMA EntryPeer == TypeOK => \A e \in entries : e.peer \in Peers /\ e.port[2] \in Nat
    BY DEF TypeOK

\* What Entered says of one entry.
EntrySound(e) ==
    /\ request[e.peer] # "ADD_CONNECTION"
    /\ at[e.peer] \notin Inserting
    /\ phase[e.peer] \notin {"idle", "failed"}
    /\ at[e.peer] \in Past => free[e.peer] /\ e.port = Port(e.peer, drawn[e.peer])

\* Every step keeps the entries those the assistant granted or is about to.
LEMMA EnteredStep == TypeOK /\ Protocol /\ Entered /\ [Next]_vars => Entered'
<1> SUFFICES ASSUME TypeOK, Protocol, Entered, [Next]_vars PROVE Entered'
    OBVIOUS
<1>a. /\ at \in [Peers -> Steps] /\ drawn \in [Peers -> Nat] /\ free \in [Peers -> BOOLEAN]
      /\ phase \in [Peers -> Phases] /\ request \in [Peers -> Requests]
    BY DEF TypeOK
<1>b. /\ OneEntryPerPeer /\ OneOwnerPerName /\ \A e \in entries : EntrySound(e)
      /\ \A e \in entries : e.peer \in Peers
    BY EntryPeer DEF Entered, EntrySound
<1> USE DEF Inserting, EntrySound
<1>1. ASSUME entries' = entries,
             NEW p \in Peers,
             Register(p) \/ Unregister(p) \/ Die(p) \/ DrawRead(p) \/ DrawWrite(p) \/ CheckPort(p)
               \/ ReplyAdd(p) \/ TestEmpty(p) \/ TimerStep(p),
             NEW e \in entries
      PROVE  EntrySound(e)'
    <2>0. e.peer \in Peers /\ EntrySound(e)
        BY <1>b
    <2>1. CASE Register(p) \/ Unregister(p) \/ Die(p)
        BY <1>a, <2>0, <2>1 DEF Register, MayRegister, Unregister, Die, HoldsConnection,
              daemonVars, handlerVars
    <2>2. CASE DrawRead(p)
        BY <1>a, <2>0, <2>2 DEF DrawRead, daemonVars
    <2>3. CASE DrawWrite(p) \/ CheckPort(p)
        BY <1>a, <2>0, <2>3 DEF DrawWrite, CheckPort, daemonVars, peerVars
    <2>4. CASE ReplyAdd(p)
        BY <1>a, <2>0, <2>4 DEF ReplyAdd, DropTimer
    <2>5. CASE TestEmpty(p) \/ TimerStep(p)
        BY <1>a, <2>0, <2>5 DEF TestEmpty, TimerStep, TestTimer, StoreTimer,
       AddTimer, InvalidateTimer, RemoveTimer, daemonVars, peerVars
    <2> QED
        BY <1>1, <2>1, <2>2, <2>3, <2>4, <2>5
<1>2. ASSUME NEW p \in Peers, InsertPeer(p) PROVE Entered'
    <2>1. \A e \in entries : e.peer # p
        BY <1>a, <1>b, <1>2 DEF InsertPeer
    <2> DEFINE new == [port |-> Port(p, drawn[p]), peer |-> p]
    <2>2. \A e \in entries' :
              (e \in entries /\ (free[p] => e.port # Port(p, drawn[p]))) \/ (free[p] /\ e = new)
        BY <1>2 DEF InsertPeer
    <2>7. OneOwnerPerName'
        BY <1>b, <2>2 DEF OneOwnerPerName
    <2>3. OneEntryPerPeer'
        BY <1>b, <2>1, <2>2 DEF OneEntryPerPeer
    <2>4. ASSUME NEW e \in entries PROVE EntrySound(e)'
        BY <1>a, <1>b, <1>2, <2>1 DEF InsertPeer, peerVars
    <2>5. ASSUME free[p], NEW e, e = [port |-> Port(p, drawn[p]), peer |-> p]
          PROVE  EntrySound(e)'
        <3>1. e.peer = p /\ e.port = Port(p, drawn[p])
            BY <2>5
        <3> QED
            BY <1>a, <1>2, <2>5, <3>1 DEF InsertPeer, peerVars, Protocol
    <2>6. \A e \in entries' : EntrySound(e)'
        BY <2>2, <2>4, <2>5
    <2> QED
        BY <2>3, <2>6, <2>7 DEF Entered
<1>3. ASSUME NEW p \in Peers, ErasePeer(p) PROVE Entered'
    <2>1. entries' \subseteq entries
        BY <1>3 DEF ErasePeer
    <2>2. ASSUME NEW e \in entries PROVE EntrySound(e)'
        BY <1>a, <1>b, <1>3 DEF ErasePeer
    <2> QED
        BY <1>b, <2>1, <2>2 DEF Entered, OneEntryPerPeer, OneOwnerPerName
<1>4. ASSUME NEW lost \in SUBSET Pending, Terminate(lost) PROVE Entered'
    BY <1>4 DEF Terminate, Entered, OneEntryPerPeer, OneOwnerPerName
<1>5. CASE Launch
    BY <1>b, <1>5 DEF Launch, peerVars, Entered, OneEntryPerPeer, OneOwnerPerName
<1>6. CASE UNCHANGED vars
    BY <1>b, <1>6 DEF vars, daemonVars, handlerVars, peerVars, Entered, OneEntryPerPeer, OneOwnerPerName
<1>7. ASSUME NEW p \in Peers,
             Register(p) \/ Unregister(p) \/ Die(p) \/ DrawRead(p) \/ DrawWrite(p) \/ CheckPort(p)
               \/ ReplyAdd(p) \/ TestEmpty(p) \/ TimerStep(p)
      PROVE  Entered'
    <2>1. entries' = entries
        BY <1>7 DEF Register, Unregister, Die, DrawRead, DrawWrite, CheckPort, ReplyAdd,
              TestEmpty, TimerStep, TestTimer, StoreTimer,
       AddTimer, InvalidateTimer, RemoveTimer, daemonVars, handlerVars
    <2> QED
        BY <1>b, <1>1, <1>7, <2>1 DEF Entered, OneEntryPerPeer, OneOwnerPerName
<1> QED
    BY <1>2, <1>3, <1>4, <1>5, <1>6, <1>7 DEF Next, Handle, TimerStep, TimerTimeout, AssistantCrash

\* Every step keeps record of the registrations that overlap.
LEMMA OverlapStep == TypeOK /\ Daemon /\ Overlap /\ [Next]_vars => Overlap'
<1> SUFFICES ASSUME TypeOK, Daemon, Overlap, [Next]_vars PROVE Overlap'
    OBVIOUS
<1> USE DEF TypeOK, Daemon, Overlap, Port, Role
<1>1. ASSUME NEW p \in Peers, Register(p) \/ Unregister(p) \/ Die(p) PROVE Overlap'
    BY <1>1 DEF Register, MayRegister, Unregister, HoldsConnection, Die, daemonVars, handlerVars
<1>2. ASSUME NEW p \in Peers, DrawRead(p) PROVE Overlap'
    BY <1>2 DEF DrawRead, Adding, daemonVars
<1>3. ASSUME NEW p \in Peers, DrawWrite(p) PROVE Overlap'
    BY <1>3 DEF DrawWrite, AfterDraw, peerVars
<1>4. ASSUME NEW p \in Peers, CheckPort(p) PROVE Overlap'
    BY <1>4 DEF CheckPort, PortTaken, daemonVars, peerVars
<1>5. ASSUME NEW p \in Peers, InsertPeer(p) PROVE Overlap'
    BY <1>5 DEF InsertPeer, peerVars
<1>6. ASSUME NEW p \in Peers, ReplyAdd(p) PROVE Overlap'
    BY <1>6 DEF ReplyAdd, DropTimer
<1>7. ASSUME NEW p \in Peers, ErasePeer(p) PROVE Overlap'
    BY <1>7 DEF ErasePeer
<1>8. ASSUME NEW p \in Peers, TestEmpty(p) \/ TimerStep(p) PROVE Overlap'
    <2>1. CASE TestEmpty(p)
        BY <2>1 DEF TestEmpty, daemonVars, peerVars
    <2>2. CASE TestTimer(p)
        BY <2>2 DEF TestTimer, daemonVars, peerVars
    <2>3. CASE StoreTimer(p)
        BY <2>3 DEF StoreTimer, daemonVars, peerVars
    <2>4. CASE AddTimer(p)
        BY <2>4 DEF AddTimer, daemonVars, peerVars
    <2>5. CASE InvalidateTimer(p)
        BY <2>5 DEF InvalidateTimer, daemonVars, peerVars
    <2>6. CASE RemoveTimer(p)
        BY <2>6 DEF RemoveTimer, daemonVars, peerVars
    <2> QED
        BY <1>8, <2>1, <2>2, <2>3, <2>4, <2>5, <2>6 DEF TimerStep
<1>9. ASSUME NEW lost \in SUBSET Pending, Terminate(lost) PROVE Overlap'
    BY <1>9 DEF Terminate, Adding
<1>10. CASE Launch
    BY <1>10 DEF Launch, peerVars
<1>11. CASE UNCHANGED vars
    BY <1>11 DEF vars, daemonVars, handlerVars, peerVars
<1> QED
    BY <1>1, <1>2, <1>3, <1>4, <1>5, <1>6, <1>7, <1>8, <1>9, <1>10, <1>11
       DEF Next, Handle, TimerStep, TimerTimeout, AssistantCrash

\* A port name carries the number it was made of.
LEMMA PortNumber == \A p \in Peers, i \in Nat : Port(p, i)[2] = i
    BY DEF Port

\* Without a race every step keeps the counter above the numbers drawn, and these distinct.
LEMMA FreshStep ==
    TypeOK /\ Protocol /\ Daemon /\ Entered /\ Fresh /\ Distinct /\ [Next]_vars
      => Fresh' /\ Distinct'
<1> SUFFICES ASSUME TypeOK, Protocol, Daemon, Entered, Fresh, Distinct, [Next]_vars
             PROVE  Fresh' /\ Distinct'
    OBVIOUS
<1>a. /\ at \in [Peers -> Steps] /\ drawn \in [Peers -> Nat] /\ free \in [Peers -> BOOLEAN]
      /\ inc \in Nat /\ nextId \in Nat
      /\ grant \in [Peers -> [inc : Nat, id : Nat \cup {NoPort}]]
      /\ \A e \in entries : e.peer \in Peers /\ e.port[2] \in Nat
    BY EntryPeer DEF TypeOK
<1>b. \A p \in Peers : at[p] \in AddSteps => ~Granted(p)
    BY DEF Protocol, Granted
<1> USE DEF Numbered, Granted
<1>1. ASSUME NEW p \in Peers, Register(p) \/ Unregister(p) \/ Die(p) PROVE Fresh' /\ Distinct'
    BY <1>1 DEF Register, Unregister, Die, daemonVars, handlerVars, Fresh,
              FreshHandlers, FreshEntries, FreshGrants, Distinct
<1>2. ASSUME NEW p \in Peers, DrawRead(p) PROVE Fresh' /\ Distinct'
    <2>1. Distinct'
        BY <1>2 DEF DrawRead, daemonVars, Distinct
    <2>2. Fresh'
        BY <1>a, <1>2 DEF DrawRead, daemonVars, Fresh,
              FreshHandlers, FreshEntries, FreshGrants
    <2> QED
        BY <2>1, <2>2
<1>3. ASSUME NEW p \in Peers, DrawWrite(p) PROVE Fresh' /\ Distinct'
    <2>1. Distinct'
        BY <1>3 DEF DrawWrite, peerVars, Distinct
    <2> SUFFICES ASSUME ~raced, running PROVE (FreshHandlers /\ FreshEntries /\ FreshGrants)'
        BY <1>3, <2>1 DEF DrawWrite, Fresh
    <2>2. FreshHandlers /\ FreshEntries /\ FreshGrants
        BY DEF Fresh
    <2>3. drawn[p] = nextId /\ nextId' = nextId + 1 /\ UNCHANGED <<drawn, entries, grant, inc, free>>
        BY <1>3, <2>2 DEF DrawWrite, AfterDraw, peerVars, FreshHandlers
    <2>4. at' = [at EXCEPT ![p] = "drawn"]
        BY <1>3 DEF DrawWrite
    <2>5. FreshHandlers'
        BY <1>a, <1>3, <2>2, <2>3, <2>4 DEF FreshHandlers, DrawWrite
    <2>6. \A e \in entries : e.port # Port(p, drawn[p])
        BY <1>a, <2>2, <2>3, PortNumber DEF FreshEntries
    <2>7. FreshEntries'
        BY <1>a, <2>2, <2>3, <2>4, <2>6 DEF FreshEntries
    <2>8. FreshGrants'
        BY <1>a, <2>2, <2>3, <2>4 DEF FreshGrants
    <2> QED
        BY <2>5, <2>7, <2>8
<1>4. ASSUME NEW p \in Peers, CheckPort(p) PROVE Fresh' /\ Distinct'
    BY <1>a, <1>4 DEF CheckPort, PortTaken, daemonVars, peerVars, Fresh,
              FreshHandlers, FreshEntries, FreshGrants, Distinct, Entered, Inserting
<1>5. ASSUME NEW p \in Peers, InsertPeer(p) PROVE Fresh' /\ Distinct'
    <2>1. at[p] = "checked" /\ at' = [at EXCEPT ![p] = "inserted"]
        BY <1>5 DEF InsertPeer
    <2>2. UNCHANGED <<running, inc, nextId, drawn, free, raced, grant>>
        BY <1>5 DEF InsertPeer, peerVars
    <2>3. \A e \in entries' : e \in entries \/ (e.port = Port(p, drawn[p]) /\ e.peer = p)
        BY <1>5 DEF InsertPeer
    <2>4. Distinct'
        BY <2>2 DEF Distinct
    <2>5. ASSUME ~raced, running PROVE (FreshHandlers /\ FreshEntries /\ FreshGrants)'
        <3>1. FreshHandlers /\ FreshEntries /\ FreshGrants
            BY <2>5 DEF Fresh
        <3>2. FreshHandlers'
            BY <1>a, <2>1, <2>2, <3>1 DEF FreshHandlers
        <3>3. \A q \in Peers : at'[q] \in Numbered => at[q] \in Numbered
            BY <1>a, <2>1
        <3>4. Port(p, drawn[p])[2] = drawn[p] /\ drawn[p] < nextId
            BY <1>a, <2>1, <3>1, PortNumber DEF FreshHandlers
        <3>5. \A q \in Peers, i \in Nat : Port(p, drawn[p]) = Port(q, i) => i = drawn[p]
            BY <1>a, PortNumber
        <3>6. FreshEntries'
            BY <1>a, <2>1, <2>2, <2>3, <3>1, <3>3, <3>4, <3>5 DEF FreshEntries, FreshHandlers
        <3>7. FreshGrants'
            BY <1>a, <2>1, <2>2, <2>3, <3>1, <3>3, <3>5 DEF FreshGrants
        <3> QED
            BY <3>2, <3>6, <3>7
    <2> QED
        BY <2>2, <2>4, <2>5 DEF Fresh
<1>6. ASSUME NEW p \in Peers, ReplyAdd(p) PROVE Fresh' /\ Distinct'
    <2>1. /\ at[p] \in Past /\ at' = [at EXCEPT ![p] = "idle"]
          /\ drawn' = [drawn EXCEPT ![p] = 0] /\ free' = [free EXCEPT ![p] = FALSE]
          /\ UNCHANGED <<running, inc, nextId, entries, raced>>
          /\ \A q \in Peers : q # p => grant'[q] = grant[q]
          /\ grant'[p].id = drawn[p] \/ grant'[p] = grant[p]
        BY <1>a, <1>6 DEF ReplyAdd, DropTimer
    <2>2. ~Granted(p) /\ \A q \in Peers : Granted(q)' => Granted(q) \/ (q = p /\ grant'[p].id = drawn[p])
        BY <1>a, <1>b, <2>1
    <2>3. Distinct'
        BY <1>a, <2>1, <2>2 DEF Daemon, Fresh, Distinct, FreshGrants
    <2>4. ASSUME ~raced, running PROVE (FreshHandlers /\ FreshEntries /\ FreshGrants)'
        BY <1>a, <2>1, <2>2, <2>4 DEF Fresh, FreshHandlers, FreshEntries, FreshGrants
    <2> QED
        BY <2>1, <2>3, <2>4 DEF Fresh
<1>7. ASSUME NEW p \in Peers, ErasePeer(p) PROVE Fresh' /\ Distinct'
    BY <1>a, <1>7 DEF ErasePeer, Fresh,
              FreshHandlers, FreshEntries, FreshGrants, Distinct
<1>8. ASSUME NEW p \in Peers, TestEmpty(p) \/ TimerStep(p) PROVE Fresh' /\ Distinct'
    <2>1. CASE TestEmpty(p)
        BY <1>a, <2>1 DEF TestEmpty, daemonVars, peerVars, Fresh,
              FreshHandlers, FreshEntries, FreshGrants, Distinct
    <2>2. CASE TestTimer(p)
        BY <1>a, <2>2 DEF TestTimer, daemonVars, peerVars, Fresh,
              FreshHandlers, FreshEntries, FreshGrants, Distinct
    <2>3. CASE StoreTimer(p)
        BY <1>a, <2>3 DEF StoreTimer, daemonVars, peerVars, Fresh,
              FreshHandlers, FreshEntries, FreshGrants, Distinct
    <2>4. CASE AddTimer(p)
        BY <1>a, <2>4 DEF AddTimer, daemonVars, peerVars, Fresh,
              FreshHandlers, FreshEntries, FreshGrants, Distinct
    <2>5. CASE InvalidateTimer(p)
        BY <1>a, <2>5 DEF InvalidateTimer, daemonVars, peerVars, Fresh,
              FreshHandlers, FreshEntries, FreshGrants, Distinct
    <2>6. CASE RemoveTimer(p)
        BY <1>a, <2>6 DEF RemoveTimer, daemonVars, peerVars, Fresh,
              FreshHandlers, FreshEntries, FreshGrants, Distinct
    <2> QED
        BY <1>8, <2>1, <2>2, <2>3, <2>4, <2>5, <2>6 DEF TimerStep
<1>9. ASSUME NEW lost \in SUBSET Pending, Terminate(lost) PROVE Fresh' /\ Distinct'
    BY <1>9 DEF Terminate, Fresh, Distinct
<1>10. CASE Launch
    <2>1. \A p \in Peers : ~Granted(p)'
        BY <1>a, <1>10 DEF Launch, peerVars, Daemon
    <2>2. Distinct'
        BY <2>1 DEF Distinct
    <2>3. Fresh'
        BY <1>a, <1>10, <2>1 DEF Launch, peerVars, Fresh,
              FreshHandlers, FreshEntries, FreshGrants, Daemon
    <2> QED
        BY <2>2, <2>3
<1>11. CASE UNCHANGED vars
    BY <1>11 DEF vars, daemonVars, handlerVars, peerVars, Fresh,
              FreshHandlers, FreshEntries, FreshGrants, Distinct
<1> QED
    BY <1>1, <1>2, <1>3, <1>4, <1>5, <1>6, <1>7, <1>8, <1>9, <1>10, <1>11
       DEF Next, Handle, TimerStep, TimerTimeout, AssistantCrash

\* What becomes of a scheduled timer over maps that are not empty: the insertion that fills
\* them has its stopTimer ahead, and scheduling it over a peer is recorded.
LEMMA ArmedStep == TypeOK /\ Daemon /\ Armed /\ [Next]_vars => Armed'
<1> SUFFICES ASSUME TypeOK, Daemon, Armed, [Next]_vars, timer' = "scheduled", entries' # {}
             PROVE  slipped' \/ Replying' # {}
    BY DEF Armed
<1>a. at \in [Peers -> Steps] /\ free \in [Peers -> BOOLEAN]
    BY DEF TypeOK
<1>1. ASSUME UNCHANGED <<timer, slipped>>, entries' \subseteq entries,
             \A p \in Replying : at'[p] = at[p] /\ free'[p] = free[p]
      PROVE  slipped' \/ Replying' # {}
    <2>1. timer = "scheduled" /\ entries # {}
        BY <1>1
    <2>2. CASE slipped
        BY <1>1, <2>2
    <2>3. ASSUME NEW p \in Replying PROVE p \in Replying'
        BY <1>1, <2>3 DEF Replying
    <2> QED
        BY <2>1, <2>2, <2>3 DEF Armed
<1>2. ASSUME NEW p \in Peers,
             Register(p) \/ Unregister(p) \/ Die(p) \/ DrawRead(p) \/ DrawWrite(p)
               \/ CheckPort(p) \/ ErasePeer(p) \/ TestEmpty(p) \/ TestTimer(p)
      PROVE  slipped' \/ Replying' # {}
    <2>1. UNCHANGED <<timer, slipped>> /\ entries' \subseteq entries
        BY <1>2 DEF Register, Unregister, Die, DrawRead, DrawWrite, CheckPort, ErasePeer,
              TestEmpty, TestTimer, daemonVars
    <2>2. at[p] # "inserted" \/ UNCHANGED <<at, free>>
        BY <1>2 DEF Register, Unregister, Die, DrawRead, DrawWrite, CheckPort, ErasePeer,
              TestEmpty, TestTimer, handlerVars
    <2>3. \A q \in Peers : q # p => at'[q] = at[q] /\ free'[q] = free[q]
        BY <1>a, <1>2 DEF Register, Unregister, Die, DrawRead, DrawWrite, CheckPort,
              ErasePeer, TestEmpty, TestTimer, handlerVars
    <2> QED
        BY <1>1, <2>1, <2>2, <2>3 DEF Replying
<1>3. ASSUME NEW p \in Peers, InsertPeer(p) PROVE slipped' \/ Replying' # {}
    <2>1. CASE free[p]
        BY <1>a, <1>3, <2>1 DEF InsertPeer, Replying
    <2>2. CASE ~free[p]
        <3>1. UNCHANGED <<timer, slipped, free, entries>>
            BY <1>3, <2>2 DEF InsertPeer
        <3>2. \A q \in Replying : at'[q] = at[q]
            BY <1>a, <1>3, <2>2 DEF InsertPeer, Replying
        <3> QED
            BY <1>1, <3>1, <3>2
    <2> QED
        BY <2>1, <2>2
<1>4. ASSUME NEW p \in Peers, ReplyAdd(p) PROVE slipped' \/ Replying' # {}
    <2>1. at[p] = "inserted" /\ ~MustStop(p) /\ UNCHANGED <<timer, slipped, entries>>
        BY <1>4 DEF ReplyAdd, DropTimer
    <2>2. ~free[p]
        BY <2>1 DEF MustStop
    <2>3. \A q \in Replying : at'[q] = at[q] /\ free'[q] = free[q]
        BY <1>a, <1>4, <2>2 DEF ReplyAdd, Replying
    <2> QED
        BY <1>1, <2>1, <2>3
<1>5. ASSUME NEW p \in Peers, AddTimer(p) PROVE slipped' \/ Replying' # {}
    <2>1. CASE timer = "created"
        BY <1>5, <2>1 DEF AddTimer
    <2>2. CASE timer # "created"
        <3>1. UNCHANGED <<timer, slipped, free, entries>>
            BY <1>5, <2>2 DEF AddTimer
        <3>2. \A q \in Replying : at'[q] = at[q]
            BY <1>a, <1>5 DEF AddTimer, Replying
        <3> QED
            BY <1>1, <3>1, <3>2
    <2> QED
        BY <2>1, <2>2
<1>6. ASSUME NEW p \in Peers, StoreTimer(p) \/ InvalidateTimer(p) \/ RemoveTimer(p) PROVE FALSE
    BY <1>6 DEF StoreTimer, InvalidateTimer, RemoveTimer
<1>7. ASSUME NEW lost \in SUBSET Pending, Terminate(lost) PROVE FALSE
    BY <1>7 DEF Terminate
<1>8. CASE Launch
    BY <1>8 DEF Launch, Daemon
<1>9. CASE UNCHANGED vars
    BY <1>1, <1>9 DEF vars, daemonVars, handlerVars
<1> QED
    BY <1>2, <1>3, <1>4, <1>5, <1>6, <1>7, <1>8, <1>9 DEF Next, Handle, TimerTimeout, AssistantCrash

-----------------------------------------------------------------------------
\* The invariant is inductive.
LEMMA StepIInv == IInv /\ [Next]_vars => IInv'
    BY TypeStep, ProtocolStep, DaemonStep, EnteredStep, OverlapStep, FreshStep, ArmedStep
       DEF IInv

\* The invariant holds of every reachable state.
THEOREM Invariance == Spec => []IInv
    BY InitIInv, StepIInv, PTL DEF Spec

\* Every variable keeps its type.
THEOREM TypeCorrect == Spec => []TypeOK
<1>1. IInv => TypeOK
    BY DEF IInv
<1> QED
    BY <1>1, Invariance, PTL

\* A peer blocked in registerPeer has its request on the way or in a handler of the
\* assistant that runs.
THEOREM CallsServed == Spec => []CallIsServed
<1>1. IInv => CallIsServed
    BY DEF IInv, Protocol, Daemon, CallIsServed
<1> QED
    BY Invariance, <1>1, PTL

\* A peer never has two entries in the maps of the assistant.
THEOREM SingleEntry == Spec => []OneEntryPerPeer
<1>1. IInv => OneEntryPerPeer
    BY DEF IInv, Entered
<1> QED
    BY <1>1, Invariance, PTL

\* Two peers of the running assistant that hold one name have raced inside id().
THEOREM UniqueNames == Spec => []NoSharedPort
<1>1. IInv => NoSharedPort
    <2> SUFFICES ASSUME IInv, ~raced,
                        NEW p \in Peers, NEW q \in Peers, Holds(p), Holds(q),
                        Port(p, grant[p].id) = Port(q, grant[q].id)
                 PROVE  p = q
        BY DEF NoSharedPort
    <2>1. grant[p].id \in Nat /\ grant[q].id \in Nat
        BY DEF Holds, Granted, IInv, TypeOK
    <2>2. grant[p].id = grant[q].id
        BY <2>1, PortNumber
    <2> QED
        BY <2>2 DEF IInv, Distinct, Holds
<1> QED
    BY <1>1, Invariance, PTL

\* addConnection answers with a false status only after a race inside id().
THEOREM NeverRefused == Spec => []RefusedOnlyAfterRace
<1>1. IInv => RefusedOnlyAfterRace
    BY DEF IInv, RefusedOnlyAfterRace, Fresh, FreshHandlers, Daemon
<1> QED
    BY <1>1, Invariance, PTL

\* The time-out ends the assistant over a registered peer only when removeConnection
\* scheduled the timer behind that peer, or before its handler reached stopTimer, or when
\* overlapping handlers left a timer behind that m_timer does not hold.
THEOREM TimeoutsExplained == Spec => TimeoutExplained
<1>1. IInv => (TimerTimeout /\ entries # {} => slipped \/ leaked \/ Replying # {})
    BY DEF IInv, Armed, TimerTimeout
<1> QED
    BY <1>1, Invariance, PTL DEF Spec, TimeoutExplained

\* What a step can do to the maps.
LEMMA EntriesStep ==
    ASSUME IInv, [Next]_vars
    PROVE  \/ entries' = entries
           \/ ~running' /\ entries' = {}
           \/ \E p \in Peers : InsertPeer(p) \/ ErasePeer(p)
<1>1. ASSUME NEW p \in Peers,
             Register(p) \/ Unregister(p) \/ Die(p) \/ DrawRead(p) \/ DrawWrite(p) \/ CheckPort(p)
               \/ ReplyAdd(p) \/ TestEmpty(p) \/ TimerStep(p)
      PROVE  entries' = entries
    BY <1>1 DEF Register, Unregister, Die, DrawRead, DrawWrite, CheckPort, ReplyAdd,
          TestEmpty, TimerStep, TestTimer, StoreTimer,
       AddTimer, InvalidateTimer, RemoveTimer, daemonVars, handlerVars
<1>2. ASSUME NEW lost \in SUBSET Pending, Terminate(lost) PROVE ~running' /\ entries' = {}
    BY <1>2 DEF Terminate
<1>3. CASE Launch
    BY <1>3 DEF Launch
<1>4. CASE UNCHANGED vars
    BY <1>4 DEF vars, daemonVars
<1> QED
    BY <1>1, <1>2, <1>3, <1>4 DEF Next, Handle, TimerStep, TimerTimeout, AssistantCrash

\* A name in the maps is given to another connection only by a handler that
\* overlapped the one that entered it.
THEOREM OverwriteSafe == Spec => OverwriteOnlyByOverlap
<1> DEFINE Safe == \A e \in entries, f \in entries' :
                      e.port = f.port /\ e.peer # f.peer => e.peer \in met[f.peer]
<1>1. IInv /\ [Next]_vars => Safe
    <2> SUFFICES ASSUME IInv, [Next]_vars,
                        NEW e \in entries, NEW f \in entries', e.port = f.port, e.peer # f.peer
                 PROVE  e.peer \in met[f.peer]
        OBVIOUS
    <2>1. f \notin entries
        BY DEF IInv, Entered, OneOwnerPerName
    <2>2. PICK p \in Peers : InsertPeer(p)
        <3>1. \A p \in Peers : ErasePeer(p) => entries' \subseteq entries
            BY DEF ErasePeer
        <3> QED
            BY <2>1, <3>1, EntriesStep
    <2>3. at[p] = "checked" /\ free[p] /\ f.peer = p /\ f.port = Port(p, drawn[p])
        BY <2>1, <2>2 DEF InsertPeer
    <2> QED
        BY <2>3 DEF IInv, Overlap
<1> QED
    BY <1>1, Invariance, PTL DEF Spec, OverwriteOnlyByOverlap

\* A name leaves the maps of a running assistant only when a peer that was
\* granted this name asks for it.
THEOREM EraseSafe == Spec => EraseOnlyByGrantee
<1> DEFINE Safe == \A e \in entries :
                      (running' /\ \A f \in entries' : f.port # e.port)
                        => \E p \in Peers : /\ request[p] = "REMOVE_CONNECTION"
                                            /\ request'[p] = "none"
                                            /\ Port(p, grant[p].id) = e.port
<1>1. IInv /\ [Next]_vars => Safe
    <2> SUFFICES ASSUME IInv, [Next]_vars, NEW e \in entries,
                        running', \A f \in entries' : f.port # e.port
                 PROVE  \E p \in Peers : /\ request[p] = "REMOVE_CONNECTION"
                                         /\ request'[p] = "none"
                                         /\ Port(p, grant[p].id) = e.port
        OBVIOUS
    <2>1. ASSUME NEW p \in Peers, InsertPeer(p) PROVE \E f \in entries' : f.port = e.port
        <3>1. CASE e.port = Port(p, drawn[p]) /\ free[p]
            <4>1. [port |-> Port(p, drawn[p]), peer |-> p] \in entries'
                BY <2>1, <3>1 DEF InsertPeer
            <4> QED
                BY <3>1, <4>1
        <3>2. CASE ~(e.port = Port(p, drawn[p]) /\ free[p])
            BY <2>1, <3>2 DEF InsertPeer
        <3> QED
            BY <3>1, <3>2
    <2>2. PICK p \in Peers : ErasePeer(p)
        BY <2>1, EntriesStep
    <2>3. e.port = Port(p, requestPort[p])
        BY <2>2 DEF ErasePeer
    <2>4. request[p] = "REMOVE_CONNECTION" /\ request'[p] = "none"
        BY <2>2 DEF ErasePeer, IInv, TypeOK
    <2> QED
        BY <2>3, <2>4 DEF IInv, Protocol
<1> QED
    BY <1>1, Invariance, PTL DEF Spec, EraseOnlyByGrantee

\* Without a race inside id(), a peer loses its entry to another one only when
\* an earlier incarnation of the assistant gave out the same name.
THEOREM StaleTwinSafe == Spec => LostOnlyToStaleTwin
<1> DEFINE Safe == \A e \in entries, p \in Peers :
                      (/\ ~raced
                       /\ request[p] = "REMOVE_CONNECTION" /\ at'[p] = "erased"
                       /\ e \notin entries')
                        => e.peer = p \/ grant[p].inc < inc
<1>1. IInv /\ [Next]_vars => Safe
    <2> SUFFICES ASSUME IInv, [Next]_vars, NEW e \in entries, NEW p \in Peers,
                        ~raced, request[p] = "REMOVE_CONNECTION", at'[p] = "erased",
                        e \notin entries', ~(grant[p].inc < inc)
                 PROVE  e.peer = p
        OBVIOUS
    <2>1. running /\ at[p] = "idle" /\ requestPort[p] = grant[p].id /\ grant[p].inc = inc
        <3>1. running /\ at[p] = "idle" /\ requestPort[p] = grant[p].id
            BY DEF IInv, Daemon, Protocol
        <3>2. grant[p].inc \in Nat /\ inc \in Nat
            BY DEF IInv, TypeOK
        <3>3. grant[p].inc <= inc
            BY DEF IInv, Daemon
        <3> QED
            BY <3>1, <3>2, <3>3
    <2>2. running'
        BY StepIInv DEF IInv, Daemon
    <2>3. ErasePeer(p)
        <3>1. PICK q \in Peers : InsertPeer(q) \/ ErasePeer(q)
            BY <2>2, EntriesStep
        <3>2. at \in [Peers -> Steps]
            BY DEF IInv, TypeOK
        <3>3. ~InsertPeer(q)
            BY <2>1, <3>2 DEF InsertPeer
        <3>4. q = p
            BY <2>1, <3>1, <3>2, <3>3 DEF ErasePeer
        <3> QED
            BY <3>1, <3>3, <3>4
    <2>4. e.port = Port(p, grant[p].id)
        BY <2>1, <2>3 DEF ErasePeer
    <2>5. Granted(p)
        <3>1. e.port[2] \in Nat
            BY EntryPeer DEF IInv
        <3> QED
            BY <2>1, <2>4, <3>1 DEF Granted, Port
    <2> QED
        BY <2>1, <2>4, <2>5 DEF IInv, Fresh, FreshGrants
<1> QED
    BY <1>1, Invariance, PTL DEF Spec, LostOnlyToStaleTwin

=============================================================================
