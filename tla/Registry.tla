------------------------------ MODULE Registry ------------------------------
(***************************************************************************)
(* The registration protocol between the peers of the virtual camera (the  *)
(* OBS output plugin and the DAL plugin loaded by every camera             *)
(* application) and the Assistant, the launchd daemon that relays between  *)
(* them.  vcam-assistant/assistant.cpp, vcam-assistant/main.cpp and the    *)
(* VCAM_IPC base class of vcam-ipc/src/vcam-ipc.mm.                        *)
(*                                                                         *)
(* XPC runs the event handler of every peer connection on that             *)
(* connection's own serial queue: the requests of one peer are handled one *)
(* after the other, the requests of two peers concurrently.  The Assistant *)
(* has no lock, so a handler is broken into the reads and writes it makes  *)
(* of the shared counter id, of the maps m_clients and m_servers and of    *)
(* m_timer, each access of startTimer and stopTimer being one of them.     *)
(* One operation on a std::map is one step.                                *)
(***************************************************************************)
EXTENDS Integers

CONSTANTS
    Hosts,          \* VCAM_IPC_Client objects: connect(false), kept in m_servers
    Apps,           \* VCAM_IPC_Server objects: connect(true),  kept in m_clients
    Timeout,        \* --timeout, in the plist createDaemonPlist writes
    MaxId,          \* bound: no registration starts once the counter is here
    MaxIncarnation  \* bound: crashes and timers that cannot be made come earlier only

ASSUME RolesAssumption == Hosts \cap Apps = {}
ASSUME BoundsAssumption == Timeout \in Nat /\ MaxId \in Nat /\ MaxIncarnation \in Nat

Peers == Hosts \cup Apps

VARIABLES
    \* the assistant process
    running,      \* is the daemon up?  launchd starts it on demand
    inc,          \* how often launchd has started it
    nextId,       \* static uint64_t id
    entries,      \* m_clients and m_servers
    timer,        \* what m_timer holds
    leaked,       \* a timer is in the run loop that m_timer does not hold
    slipped,      \* history: a peer was in the maps when m_timer was scheduled
    \* its handlers, one per peer connection
    at,           \* where the handler of p is
    drawn,        \* local portName: the number it drew
    free,         \* local ok
    met,          \* history: the peers whose addConnection overlapped p's
    raced,        \* history: two handlers were inside id() at once
    \* the peers
    phase,        \* progress of the VCAM_IPC object
    portName,     \* the number in m_portName, NoPort when it is empty
    request,      \* the message p has sent and the assistant has not handled
    requestPort,  \* the "port" of a REMOVE_CONNECTION
    grant         \* history: the port and the incarnation p was granted

timerVars   == <<timer, leaked, slipped>>
daemonVars  == <<running, inc, nextId, entries, timerVars>>
handlerVars == <<at, drawn, free, met, raced>>
peerVars    == <<phase, portName, request, requestPort, grant>>
vars        == <<daemonVars, handlerVars, peerVars>>

Phases   == {"idle", "calling", "registered", "failed", "closed", "dead"}
Requests == {"none", "ADD_CONNECTION", "REMOVE_CONNECTION"}
AddSteps == {"read", "drawn", "checked", "inserted", "stopping", "removing"}
Steps    == {"idle", "erased", "empty", "arming", "adding"} \cup AddSteps

\* null; made but in no run loop; in the run loop; invalidated and still pointed to
Timers == {"none", "created", "scheduled", "dead"}

Role(p) == IF p \in Apps THEN "client" ELSE "server"

\* vcam_client or vcam_server followed by the number drawn
Port(p, i) == <<Role(p), i>>
Ports      == {"client", "server"} \X Nat

NoPort == -1
Grants == [inc : Nat, id : Int]

Init ==
    /\ running = FALSE
    /\ inc = 0
    /\ nextId = 0
    /\ entries = {}
    /\ timer = "none" /\ leaked = FALSE /\ slipped = FALSE
    /\ at = [p \in Peers |-> "idle"]
    /\ drawn = [p \in Peers |-> 0]
    /\ free = [p \in Peers |-> FALSE]
    /\ met = [p \in Peers |-> {}]
    /\ raced = FALSE
    /\ phase = [p \in Peers |-> "idle"]
    /\ portName = [p \in Peers |-> NoPort]
    /\ request = [p \in Peers |-> "none"]
    /\ requestPort = [p \in Peers |-> NoPort]
    /\ grant = [p \in Peers |-> [inc |-> 0, id |-> NoPort]]

-----------------------------------------------------------------------------
(* The peers: VCAM_IPC::registerPeer and unregisterPeer.                   *)

\* mutant: the early return on m_serverMessagePort is gone
MayRegisterTwice(p) ==
    \/ phase[p] \in {"idle", "registered"}
    \/ phase[p] = "failed" /\ p \in Hosts

\* connect() calls registerPeer once; VCAM_IPC_Client::deviceCreate calls it
\* again and it returns at once when the peer holds its connection.
MayRegister(p) ==
    \/ phase[p] = "idle"
    \/ phase[p] = "failed" /\ p \in Hosts

Register(p) ==
    /\ MayRegister(p)
    /\ nextId < MaxId
    /\ request[p] = "none"
    /\ phase' = [phase EXCEPT ![p] = "calling"]
    /\ request' = [request EXCEPT ![p] = "ADD_CONNECTION"]
    /\ UNCHANGED <<daemonVars, handlerVars, portName, requestPort, grant>>

\* mutant: m_serverMessagePort is kept when the status of the reply is false
AlsoWhenRefused(p) == phase[p] \in {"registered", "failed"}

\* unregisterPeer tells the assistant only while it holds m_serverMessagePort,
\* which registerPeer sets after a reply whose status is true.
HoldsConnection(p) == phase[p] = "registered"

\* disconnect(): the destructor of the DAL plugin.  The output plugin never
\* deletes its VirtualCam.
Unregister(p) ==
    /\ p \in Apps
    /\ phase[p] \in {"idle", "registered", "failed"}
    /\ phase' = [phase EXCEPT ![p] = "closed"]
    /\ portName' = [portName EXCEPT ![p] = NoPort]
    /\ IF HoldsConnection(p) /\ portName[p] # NoPort
       THEN /\ request' = [request EXCEPT ![p] = "REMOVE_CONNECTION"]
            /\ requestPort' = [requestPort EXCEPT ![p] = portName[p]]
       ELSE UNCHANGED <<request, requestPort>>
    /\ UNCHANGED <<daemonVars, handlerVars, grant>>

\* The process of p ends without a word; what it sent stays sent.
Die(p) ==
    /\ phase[p] \in {"calling", "registered", "failed"}
    /\ phase' = [phase EXCEPT ![p] = "dead"]
    /\ UNCHANGED <<daemonVars, handlerVars, portName, request, requestPort, grant>>

-----------------------------------------------------------------------------
(* The assistant: Assistant::addConnection, one action per access to what  *)
(* the handlers share.                                                     *)

Adding == {p \in Peers : at[p] \in AddSteps}

\* id() reads the counter.  This is also where the handler of p begins.
DrawRead(p) ==
    /\ running
    /\ at[p] = "idle" /\ request[p] = "ADD_CONNECTION"
    /\ at' = [at EXCEPT ![p] = "read"]
    /\ drawn' = [drawn EXCEPT ![p] = nextId]
    /\ met' = [q \in Peers |-> IF q = p THEN Adding \ {p}
                               ELSE IF q \in Adding THEN met[q] \cup {p}
                               ELSE met[q]]
    /\ raced' = (raced \/ \E q \in Peers : at[q] = "read")
    /\ request' = [request EXCEPT ![p] = "none"]
    /\ UNCHANGED <<daemonVars, free, phase, portName, requestPort, grant>>

\* mutant: the counter is not advanced
StuckCounter(i) == i

AfterDraw(i) == i + 1

\* id() writes the counter back
DrawWrite(p) ==
    /\ at[p] = "read"
    /\ nextId' = AfterDraw(drawn[p])
    /\ at' = [at EXCEPT ![p] = "drawn"]
    /\ UNCHANGED <<running, inc, entries, timerVars, drawn, free, met, raced, peerVars>>

PortTaken(port) == \E e \in entries : e.port = port

\* the loop that clears ok when the port name is in the map already
CheckPort(p) ==
    /\ at[p] = "drawn"
    /\ free' = IF PortTaken(Port(p, drawn[p]))
               THEN [free EXCEPT ![p] = FALSE]
               ELSE [free EXCEPT ![p] = TRUE]
    /\ at' = [at EXCEPT ![p] = "checked"]
    /\ UNCHANGED <<daemonVars, drawn, met, raced, peerVars>>

\* mutant: the connection is stored under the prefix without its number
UnderPrefix(p) ==
    /\ at[p] = "checked"
    /\ entries' = IF free[p]
                  THEN {e \in entries : e.port # Port(p, 0)}
                         \cup {[port |-> Port(p, 0), peer |-> p]}
                  ELSE entries
    /\ at' = [at EXCEPT ![p] = "inserted"]
    /\ UNCHANGED <<running, inc, nextId, timerVars, drawn, free, met, raced, peerVars>>

\* (*peers)[portName] = connection: replaces what the name stood for
InsertPeer(p) ==
    /\ at[p] = "checked"
    /\ entries' = IF free[p]
                  THEN {e \in entries : e.port # Port(p, drawn[p])}
                         \cup {[port |-> Port(p, drawn[p]), peer |-> p]}
                  ELSE entries
    /\ at' = [at EXCEPT ![p] = "inserted"]
    /\ UNCHANGED <<running, inc, nextId, timerVars, drawn, free, met, raced, peerVars>>

\* mutant: addConnection leaves the timer to itself
LeavesTimer(p) == FALSE

\* if (ok), and the early return of stopTimer
MustStop(p) == free[p] /\ timer # "none"

\* CFRunLoopTimerInvalidate
InvalidateTimer(p) ==
    /\ at[p] = "inserted" /\ MustStop(p)
    /\ timer' = "dead" /\ slipped' = FALSE
    /\ at' = [at EXCEPT ![p] = "stopping"]
    /\ UNCHANGED <<running, inc, nextId, entries, leaked, drawn, free, met, raced, peerVars>>

\* CFRunLoopRemoveTimer reads m_timer again: the timer it finds may be another one, which
\* is taken out of the run loop unharmed.  With null the assistant may crash.
RemoveTimer(p) ==
    /\ at[p] = "stopping"
    /\ timer' = IF timer = "scheduled" THEN "created" ELSE timer
    /\ slipped' = FALSE
    /\ at' = [at EXCEPT ![p] = "removing"]
    /\ UNCHANGED <<running, inc, nextId, entries, leaked, drawn, free, met, raced, peerVars>>

\* m_timer = nullptr.  A timer another handler has put there and scheduled runs on.
DropTimer ==
    /\ timer' = "none" /\ slipped' = FALSE
    /\ leaked' = (leaked \/ timer = "scheduled")

\* mutant: a refused registration is left without a reply
ReplyGrantedOnly(p) ==
    /\ \/ at[p] = "inserted" /\ ~MustStop(p) /\ UNCHANGED timerVars
       \/ at[p] = "removing" /\ DropTimer
    /\ at' = [at EXCEPT ![p] = "idle"]
    /\ IF free[p] /\ phase[p] = "calling"
       THEN /\ phase' = [phase EXCEPT ![p] = "registered"]
            /\ portName' = [portName EXCEPT ![p] = drawn[p]]
       ELSE UNCHANGED <<phase, portName>>
    /\ UNCHANGED <<running, inc, nextId, entries, drawn, free, met, raced, request,
                   requestPort, grant>>

\* The end of stopTimer, where it had a timer to stop, and the reply; registerPeer, blocked
\* on it, resumes.  It keeps the port name whatever the status and the connection when
\* the status is true.
ReplyAdd(p) ==
    /\ \/ at[p] = "inserted" /\ ~MustStop(p) /\ UNCHANGED timerVars
       \/ at[p] = "removing" /\ DropTimer
    /\ IF phase[p] = "calling"
       THEN /\ phase' = [phase EXCEPT ![p] = IF free[p] THEN "registered" ELSE "failed"]
            /\ portName' = [portName EXCEPT ![p] = drawn[p]]
       ELSE UNCHANGED <<phase, portName>>
    /\ grant' = IF free[p]
                THEN [grant EXCEPT ![p] = [inc |-> inc, id |-> drawn[p]]]
                ELSE grant
    /\ at' = [at EXCEPT ![p] = "idle"]
    /\ drawn' = [drawn EXCEPT ![p] = 0]
    /\ free' = [free EXCEPT ![p] = FALSE]
    /\ met' = [met EXCEPT ![p] = {}]
    /\ UNCHANGED <<running, inc, nextId, entries, raced, request, requestPort>>

-----------------------------------------------------------------------------
(* Assistant::removeConnection                                             *)

\* The two loops: the name is erased from the map that has it.
ErasePeer(p) ==
    /\ running
    /\ at[p] = "idle" /\ request[p] = "REMOVE_CONNECTION"
    /\ entries' = {e \in entries : e.port # Port(p, requestPort[p])}
    /\ request' = [request EXCEPT ![p] = "none"]
    /\ at' = [at EXCEPT ![p] = "erased"]
    /\ UNCHANGED <<running, inc, nextId, timerVars, drawn, free, met, raced,
                   phase, portName, requestPort, grant>>

\* peersEmpty = m_servers.empty() && m_clients.empty()
TestEmpty(p) ==
    /\ at[p] = "erased"
    /\ at' = [at EXCEPT ![p] = IF entries = {} THEN "empty" ELSE "idle"]
    /\ UNCHANGED <<daemonVars, drawn, free, met, raced, peerVars>>

\* The early return of startTimer, with m_timeout = t
MayArm(t) == timer = "none" /\ t > 0

TestTimer(p) ==
    /\ at[p] = "empty"
    /\ at' = [at EXCEPT ![p] = IF MayArm(Timeout) THEN "arming" ELSE "idle"]
    /\ UNCHANGED <<daemonVars, drawn, free, met, raced, peerVars>>

\* m_timer = CFRunLoopTimerCreate: another handler may have stored one since the test
StoreTimer(p) ==
    /\ at[p] = "arming"
    /\ \E made \in IF inc < MaxIncarnation THEN BOOLEAN ELSE {TRUE} :
          /\ timer' = IF made THEN "created" ELSE "none"
          /\ at' = [at EXCEPT ![p] = IF made THEN "adding" ELSE "idle"]
    /\ leaked' = (leaked \/ timer = "scheduled")
    /\ slipped' = FALSE
    /\ UNCHANGED <<running, inc, nextId, entries, drawn, free, met, raced, peerVars>>

\* CFRunLoopAddTimer of what m_timer holds by now: nothing happens when that is in the run
\* loop already or is invalid.  With null the assistant may crash.
AddTimer(p) ==
    /\ at[p] = "adding"
    /\ IF timer = "created"
       THEN timer' = "scheduled" /\ slipped' = (entries # {})
       ELSE UNCHANGED <<timer, slipped>>
    /\ at' = [at EXCEPT ![p] = "idle"]
    /\ UNCHANGED <<running, inc, nextId, entries, leaked, drawn, free, met, raced, peerVars>>

-----------------------------------------------------------------------------
(* The life of the assistant process.                                      *)

\* XPC delivers an error to a peer blocked in a call whose request is lost;
\* a request not yet taken by the process that ends may reach the next one.
Terminate(lost) ==
    /\ running' = FALSE
    /\ nextId' = 0
    /\ entries' = {}
    /\ timer' = "none" /\ leaked' = FALSE
    /\ at' = [p \in Peers |-> "idle"]
    /\ drawn' = [p \in Peers |-> 0]
    /\ free' = [p \in Peers |-> FALSE]
    /\ met' = [p \in Peers |-> {}]
    /\ phase' = [p \in Peers |->
                    IF phase[p] = "calling" /\ (p \in Adding \/ p \in lost)
                    THEN "failed" ELSE phase[p]]
    /\ request' = [p \in Peers |-> IF p \in lost THEN "none" ELSE request[p]]
    /\ slipped' = FALSE
    /\ UNCHANGED <<inc, raced, portName, requestPort, grant>>

Pending == {p \in Peers : request[p] # "none"}

\* timerTimeout stops the run loop and main returns
TimerTimeout ==
    /\ running
    /\ timer = "scheduled" \/ leaked
    /\ \E lost \in SUBSET Pending : Terminate(lost)

AssistantCrash ==
    /\ running
    /\ inc < MaxIncarnation
    /\ \E lost \in SUBSET Pending : Terminate(lost)

\* A message to the mach service starts the daemon.  The constructor calls startTimer
\* before main parses --timeout: with m_timeout still 0.0 it returns at once, ~MayArm(0).
Launch ==
    /\ ~running
    /\ Pending # {}
    /\ running' = TRUE
    /\ inc' = inc + 1
    /\ raced' = FALSE
    /\ UNCHANGED <<nextId, entries, timerVars, at, drawn, free, met, peerVars>>

-----------------------------------------------------------------------------
Handle(p) ==
    \/ DrawRead(p) \/ DrawWrite(p) \/ CheckPort(p) \/ InsertPeer(p)
    \/ InvalidateTimer(p) \/ RemoveTimer(p) \/ ReplyAdd(p)
    \/ ErasePeer(p) \/ TestEmpty(p) \/ TestTimer(p) \/ StoreTimer(p) \/ AddTimer(p)

Next ==
    \/ \E p \in Peers : Register(p) \/ Unregister(p) \/ Die(p) \/ Handle(p)
    \/ TimerTimeout \/ AssistantCrash \/ Launch

Spec == Init /\ [][Next]_vars

\* The dispatch queues run a handler that can run, launchd starts a daemon
\* that has a message, the run loop fires a timer.  Peers owe nothing.
Fairness ==
    /\ \A p \in Peers : WF_vars(Handle(p))
    /\ WF_vars(Launch)
    /\ WF_vars(TimerTimeout)

FairSpec == Spec /\ Fairness

-----------------------------------------------------------------------------
(* Properties                                                              *)

\* Every variable has its type.
TypeOK ==
    /\ running \in BOOLEAN /\ inc \in Nat /\ nextId \in Nat
    /\ timer \in Timers /\ leaked \in BOOLEAN /\ slipped \in BOOLEAN
    /\ entries \subseteq [port : Ports, peer : Peers]
    /\ at \in [Peers -> Steps]
    /\ drawn \in [Peers -> Nat]
    /\ free \in [Peers -> BOOLEAN]
    /\ met \in [Peers -> SUBSET Peers]
    /\ raced \in BOOLEAN
    /\ phase \in [Peers -> Phases]
    /\ portName \in [Peers -> Nat \cup {NoPort}]
    /\ request \in [Peers -> Requests]
    /\ requestPort \in [Peers -> Nat \cup {NoPort}]
    /\ grant \in [Peers -> [inc : Nat, id : Nat \cup {NoPort}]]

\* A connection object is in the maps once: registering again is refused by
\* the peer, whatever the order of its calls, replies and crashes.
OneEntryPerPeer == \A e, f \in entries : e.peer = f.peer => e = f

\* The duplicate check of addConnection: a name that is in the map is handed
\* to another connection only when the two addConnection handlers overlapped.
OverwriteOnlyByOverlap ==
    [][\A e \in entries, f \in entries' :
          e.port = f.port /\ e.peer # f.peer => e.peer \in met[f.peer]]_vars

\* removeConnection erases a name only at the request of a peer to which the
\* assistant granted that very name; a refused peer erases nothing.
EraseOnlyByGrantee ==
    [][\A e \in entries :
          (running' /\ \A f \in entries' : f.port # e.port)
            => \E p \in Peers : /\ request[p] = "REMOVE_CONNECTION"
                                /\ request'[p] = "none"
                                /\ Port(p, grant[p].id) = e.port]_vars

\* As long as no two handlers were inside id() at once in this incarnation:
\* no name has two holders, every registration is granted, and a peer loses
\* its entry to another only when that one was registered by an earlier
\* incarnation of the assistant.
Granted(p) == grant[p].id # NoPort /\ grant[p].inc = inc
Holds(p)   == phase[p] = "registered" /\ Granted(p)

NoSharedPort ==
    ~raced => \A p, q \in Peers :
        Holds(p) /\ Holds(q) /\ Port(p, grant[p].id) = Port(q, grant[q].id) => p = q

RefusedOnlyAfterRace ==
    ~raced => \A p \in Peers : at[p] \in {"checked", "inserted"} => free[p]

LostOnlyToStaleTwin ==
    [][\A e \in entries, p \in Peers :
          (/\ ~raced
           /\ request[p] = "REMOVE_CONNECTION" /\ at'[p] = "erased"
           /\ e \notin entries')
            => e.peer = p \/ grant[p].inc < inc]_vars

\* A peer blocked in registerPeer has its answer coming: its request waits for the
\* assistant, and makes launchd start it, or the assistant that runs handles it.
\* No crash, time-out or refusal leaves a call that nobody is going to answer.
CallIsServed ==
    \A p \in Peers : phase[p] = "calling" =>
        request[p] = "ADD_CONNECTION" \/ (running /\ at[p] \in AddSteps)

\* registerPeer, which blocks on the reply, always returns.
CallReturns == \A p \in Peers : (phase[p] = "calling") ~> (phase[p] # "calling")

\* assistant.cpp:123, "If no peer has been connected for 5 minutes shutdown
\* the assistant": once every peer is gone the assistant ends.
Gone(p) == phase[p] \in {"idle", "closed", "dead"}
IdleShutdown == []<>(\E p \in Peers : ~Gone(p)) \/ []<>~running

\* The same sentence, read the other way: the timer ends the assistant only
\* when no peer is connected.
TimeoutOnlyWhenIdle == [][TimerTimeout => entries = {}]_vars

\* What is true of it: the timer ends the assistant with a peer in its maps only
\* through one of three races.  removeConnection scheduled it too late, after that peer
\* had slipped in behind its test; or a registration is between its insertion and its
\* stopTimer; or the timer is one that startTimer or stopTimer, run by two handlers at
\* once, left in the run loop and no longer in m_timer, out of the reach of stopTimer.
Replying == {p \in Peers : at[p] = "inserted" /\ free[p]}

TimeoutExplained == [][TimerTimeout /\ entries # {} => slipped \/ leaked \/ Replying # {}]_vars

=============================================================================
