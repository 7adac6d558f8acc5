---------------------------- MODULE OutputProofs ----------------------------
(***************************************************************************)
(* The safety properties of Output, for every set of outputs.              *)
(***************************************************************************)
EXTENDS Output, TLAPS

Busy(o) == stage[o] \notin {"none", "alive"}

\* The only directory that ever holds the file is the expanded one, and a path
\* that is expanded was found by loadDaemon.
Dirs ==
    /\ plists \subseteq {Home} /\ validPath \in {Empty, Home}
    /\ agentPath \in {Tilde, Home} /\ clientPath \in {Tilde, Home}
    /\ agentPath = Home => validPath = Home

\* Past loadDaemon the path is expanded.
Expanded == \A o \in Outputs : stage[o] \notin {"none", "new"} => agentPath = Home

\* OBS creates and destroys one output at a time.
OneBusy == \A o, p \in Outputs : Busy(o) /\ Busy(p) => o = p

\* What an output finds on the way to being alive it keeps.
Serving ==
    \A o \in Outputs :
        /\ stage[o] \in {"daemon", "webcam", "alive"} => loaded
        /\ stage[o] \in {"webcam", "alive"} => port[o]

Filed ==
    \A o \in Outputs :
        stage[o] \in {"daemon", "webcam", "alive"} /\ ~outlived[o] => Home \in plists

\* While an output is destroyed the others know it.
Marked ==
    \A o, p \in Outputs : stage[o] \in {"unloaded", "removed"} /\ Alive(p) => outlived[p]

\* Until an output was destroyed removeDaemon can still expand its path.
Cleaning ==
    ~destroyed => \/ clientPath = Tilde /\ \A o \in Outputs : stage[o] # "removed"
                  \/ plists = {} /\ \E o \in Outputs : stage[o] = "removed"

Typed ==
    /\ loaded \in BOOLEAN /\ created \in BOOLEAN /\ destroyed \in BOOLEAN
    /\ stage \in [Outputs -> Stages] /\ port \in [Outputs -> BOOLEAN]
    /\ outlived \in [Outputs -> BOOLEAN]

IInv ==
    Typed /\ Dirs /\ Expanded /\ OneBusy /\ Serving /\ Filed /\ Marked /\ Cleaning /\ NotSilenced

USE DEF Tilde, Home, Empty, machineVars, pathVars, outputVars, historyVars, Goto, AllOutputs

\* The initial states satisfy the invariant.
LEMMA InitInv == Init => IInv
  BY DEF Init, IInv, Typed, Stages, Dirs, Expanded, OneBusy, Busy, Serving, Filed, Marked, Alive,
         Cleaning, NotSilenced, Drops

\* NewVirtualCam preserves the invariant.
LEMMA NewVirtualCamPreserves ==
    ASSUME IInv, NEW o \in Outputs, NewVirtualCam(o)
    PROVE  IInv'
<1> USE DEF NewVirtualCam, Quiet, Registered
<1>1. Typed'
      BY DEF IInv, Typed, Stages
<1>2. Dirs'
      BY DEF IInv, Dirs, Expanded, Typed, Stages
<1>3. Expanded'
      BY DEF IInv, Typed, Dirs, Expanded
<1>4. OneBusy'
      BY DEF IInv, Typed, OneBusy, Busy
<1>5. Serving'
      BY DEF IInv, Typed, Dirs, Expanded, Serving
<1>6. Filed'
      BY DEF IInv, Typed, Dirs, Expanded, OneBusy, Busy, Marked, Alive, Filed
<1>7. Marked'
      BY DEF IInv, Typed, OneBusy, Busy, Marked, Alive
<1>8. Cleaning'
      BY DEF IInv, Typed, Dirs, OneBusy, Busy, Cleaning
<1>9. NotSilenced'
      BY DEF IInv, Typed, OneBusy, Busy, Marked, Alive, NotSilenced, Drops
<1> QED
    BY <1>1, <1>2, <1>3, <1>4, <1>5, <1>6, <1>7, <1>8, <1>9 DEF IInv

\* LoadDaemon preserves the invariant.
LEMMA LoadDaemonPreserves ==
    ASSUME IInv, NEW o \in Outputs, LoadDaemon(o)
    PROVE  IInv'
<1> USE DEF LoadDaemon, Replaced, Left
<1>1. Typed'
      BY DEF IInv, Typed, Stages
<1>2. Dirs'
      BY DEF IInv, Dirs, Expanded, Typed, Stages
<1>3. Expanded'
      BY DEF IInv, Typed, Dirs, Expanded
<1>4. OneBusy'
      BY DEF IInv, Typed, OneBusy, Busy
<1>5. Serving'
  <2>1. CASE loaded' = TRUE
        BY <2>1 DEF IInv, Typed, Serving
  <2>2. CASE UNCHANGED loaded /\ Goto(o, "failed")
        BY <2>2 DEF IInv, Typed, Serving
  <2> QED
      BY <2>1, <2>2
<1>6. Filed'
      BY DEF IInv, Typed, Dirs, Expanded, OneBusy, Busy, Marked, Alive, Filed
<1>7. Marked'
      BY DEF IInv, Typed, OneBusy, Busy, Marked, Alive
<1>8. Cleaning'
      BY DEF IInv, Typed, Dirs, OneBusy, Busy, Cleaning
<1>9. NotSilenced'
      BY DEF IInv, Typed, OneBusy, Busy, Marked, Alive, NotSilenced, Drops
<1> QED
    BY <1>1, <1>2, <1>3, <1>4, <1>5, <1>6, <1>7, <1>8, <1>9 DEF IInv

\* CreateWebcam preserves the invariant.
LEMMA CreateWebcamPreserves ==
    ASSUME IInv, NEW o \in Outputs, CreateWebcam(o)
    PROVE  IInv'
<1> USE DEF CreateWebcam, Registered
<1>1. Typed'
      BY DEF IInv, Typed, Stages
<1>2. Dirs'
      BY DEF IInv, Dirs, Expanded, Typed, Stages
<1>3. Expanded'
      BY DEF IInv, Typed, Dirs, Expanded
<1>4. OneBusy'
      BY DEF IInv, Typed, OneBusy, Busy
<1>5. Serving'
      BY DEF IInv, Typed, Dirs, Expanded, Serving
<1>6. Filed'
      BY DEF IInv, Typed, Dirs, Expanded, OneBusy, Busy, Marked, Alive, Filed
<1>7. Marked'
      BY DEF IInv, Typed, OneBusy, Busy, Marked, Alive
<1>8. Cleaning'
      BY DEF IInv, Typed, Dirs, OneBusy, Busy, Cleaning
<1>9. NotSilenced'
      BY DEF IInv, Typed, OneBusy, Busy, Marked, Alive, NotSilenced, Drops
<1> QED
    BY <1>1, <1>2, <1>3, <1>4, <1>5, <1>6, <1>7, <1>8, <1>9 DEF IInv

\* SetupFails preserves the invariant.
LEMMA SetupFailsPreserves ==
    ASSUME IInv, NEW o \in Outputs, SetupFails(o)
    PROVE  IInv'
<1> USE DEF SetupFails
<1>1. Typed'
      BY DEF IInv, Typed, Stages
<1>2. Dirs'
      BY DEF IInv, Dirs, Expanded, Typed, Stages
<1>3. Expanded'
      BY DEF IInv, Typed, Dirs, Expanded
<1>4. OneBusy'
      BY DEF IInv, Typed, OneBusy, Busy
<1>5. Serving'
      BY DEF IInv, Typed, Dirs, Expanded, Serving
<1>6. Filed'
      BY DEF IInv, Typed, Dirs, Expanded, OneBusy, Busy, Marked, Alive, Filed
<1>7. Marked'
      BY DEF IInv, Typed, OneBusy, Busy, Marked, Alive
<1>8. Cleaning'
      BY DEF IInv, Typed, Dirs, OneBusy, Busy, Cleaning
<1>9. NotSilenced'
      BY DEF IInv, Typed, OneBusy, Busy, Marked, Alive, NotSilenced, Drops
<1> QED
    BY <1>1, <1>2, <1>3, <1>4, <1>5, <1>6, <1>7, <1>8, <1>9 DEF IInv

\* Created preserves the invariant.
LEMMA CreatedPreserves ==
    ASSUME IInv, NEW o \in Outputs, Created(o)
    PROVE  IInv'
<1> USE DEF Created
<1>1. Typed'
      BY DEF IInv, Typed, Stages
<1>2. Dirs'
      BY DEF IInv, Dirs, Expanded, Typed, Stages
<1>3. Expanded'
      BY DEF IInv, Typed, Dirs, Expanded
<1>4. OneBusy'
      BY DEF IInv, Typed, OneBusy, Busy
<1>5. Serving'
      BY DEF IInv, Typed, Dirs, Expanded, Serving
<1>6. Filed'
      BY DEF IInv, Typed, Dirs, Expanded, OneBusy, Busy, Marked, Alive, Filed
<1>7. Marked'
      BY DEF IInv, Typed, OneBusy, Busy, Marked, Alive
<1>8. Cleaning'
      BY DEF IInv, Typed, Dirs, OneBusy, Busy, Cleaning
<1>9. NotSilenced'
      BY DEF IInv, Typed, OneBusy, Busy, Marked, Alive, NotSilenced, Drops
<1> QED
    BY <1>1, <1>2, <1>3, <1>4, <1>5, <1>6, <1>7, <1>8, <1>9 DEF IInv

\* Fail preserves the invariant.
LEMMA FailPreserves ==
    ASSUME IInv, NEW o \in Outputs, Fail(o)
    PROVE  IInv'
<1> USE DEF Fail, UndoNothing
<1>1. Typed'
      BY DEF IInv, Typed, Stages
<1>2. Dirs'
      BY DEF IInv, Dirs, Expanded, Typed, Stages
<1>3. Expanded'
      BY DEF IInv, Typed, Dirs, Expanded
<1>4. OneBusy'
      BY DEF IInv, Typed, OneBusy, Busy
<1>5. Serving'
      BY DEF IInv, Typed, Dirs, Expanded, Serving
<1>6. Filed'
      BY DEF IInv, Typed, Dirs, Expanded, OneBusy, Busy, Marked, Alive, Filed
<1>7. Marked'
      BY DEF IInv, Typed, OneBusy, Busy, Marked, Alive
<1>8. Cleaning'
      BY DEF IInv, Typed, Dirs, OneBusy, Busy, Cleaning
<1>9. NotSilenced'
      BY DEF IInv, Typed, OneBusy, Busy, Marked, Alive, NotSilenced, Drops
<1> QED
    BY <1>1, <1>2, <1>3, <1>4, <1>5, <1>6, <1>7, <1>8, <1>9 DEF IInv

\* UnloadDaemon preserves the invariant.
LEMMA UnloadDaemonPreserves ==
    ASSUME IInv, NEW o \in Outputs, UnloadDaemon(o)
    PROVE  IInv'
<1> USE DEF UnloadDaemon, Quiet, AgentDir, Left, Replaced
<1>1. Typed'
      BY DEF IInv, Typed, Stages
<1>2. Dirs'
      BY DEF IInv, Dirs, Expanded, Typed, Stages
<1>3. Expanded'
      BY DEF IInv, Typed, Dirs, Expanded
<1>4. OneBusy'
      BY DEF IInv, Typed, OneBusy, Busy
<1>5. Serving'
      BY DEF IInv, Typed, Dirs, Expanded, Serving
<1>6. Filed'
      BY DEF IInv, Typed, Dirs, Expanded, OneBusy, Busy, Marked, Alive, Filed
<1>7. Marked'
      BY DEF IInv, Typed, OneBusy, Busy, Marked, Alive
<1>8. Cleaning'
      BY DEF IInv, Typed, Dirs, OneBusy, Busy, Cleaning
<1>9. NotSilenced'
      BY DEF IInv, Typed, OneBusy, Busy, Marked, Alive, NotSilenced, Drops
<1> QED
    BY <1>1, <1>2, <1>3, <1>4, <1>5, <1>6, <1>7, <1>8, <1>9 DEF IInv

\* RemovePlist preserves the invariant.
LEMMA RemovePlistPreserves ==
    ASSUME IInv, NEW o \in Outputs, RemovePlist(o)
    PROVE  IInv'
<1> USE DEF RemovePlist, OwnPath, Left, Replaced
<1>1. Typed'
      BY DEF IInv, Typed, Stages
<1>2. Dirs'
      BY DEF IInv, Dirs, Expanded, Typed, Stages
<1>3. Expanded'
      BY DEF IInv, Typed, Dirs, Expanded
<1>4. OneBusy'
      BY DEF IInv, Typed, OneBusy, Busy
<1>5. Serving'
      BY DEF IInv, Typed, Dirs, Expanded, Serving
<1>6. Filed'
      BY DEF IInv, Typed, Dirs, Expanded, OneBusy, Busy, Marked, Alive, Filed
<1>7. Marked'
      BY DEF IInv, Typed, OneBusy, Busy, Marked, Alive
<1>8. Cleaning'
      BY DEF IInv, Typed, Dirs, OneBusy, Busy, Cleaning
<1>9. NotSilenced'
      BY DEF IInv, Typed, OneBusy, Busy, Marked, Alive, NotSilenced, Drops
<1> QED
    BY <1>1, <1>2, <1>3, <1>4, <1>5, <1>6, <1>7, <1>8, <1>9 DEF IInv

\* Destroyed preserves the invariant.
LEMMA DestroyedPreserves ==
    ASSUME IInv, NEW o \in Outputs, Destroyed(o)
    PROVE  IInv'
<1> USE DEF Destroyed
<1>1. Typed'
      BY DEF IInv, Typed, Stages
<1>2. Dirs'
      BY DEF IInv, Dirs, Expanded, Typed, Stages
<1>3. Expanded'
      BY DEF IInv, Typed, Dirs, Expanded
<1>4. OneBusy'
      BY DEF IInv, Typed, OneBusy, Busy
<1>5. Serving'
      BY DEF IInv, Typed, Dirs, Expanded, Serving
<1>6. Filed'
      BY DEF IInv, Typed, Dirs, Expanded, OneBusy, Busy, Marked, Alive, Filed
<1>7. Marked'
      BY DEF IInv, Typed, OneBusy, Busy, Marked, Alive
<1>8. Cleaning'
      BY DEF IInv, Typed, Dirs, OneBusy, Busy, Cleaning
<1>9. NotSilenced'
      BY DEF IInv, Typed, OneBusy, Busy, Marked, Alive, NotSilenced, Drops
<1> QED
    BY <1>1, <1>2, <1>3, <1>4, <1>5, <1>6, <1>7, <1>8, <1>9 DEF IInv

\* The end of a process, or of a session, preserves the invariant.
LEMMA RestartPreserves ==
    ASSUME IInv, ProcessEnds \/ Login
    PROVE  IInv'
<1> USE DEF ProcessEnds, Login, NewProcess
<1>1. Typed'
  <2>1. CASE ProcessEnds
        BY <2>1 DEF IInv, Typed, Stages
  <2>2. CASE Login
        BY <2>2 DEF IInv, Typed, Stages
  <2> QED
      BY <2>1, <2>2
<1>2. Dirs' /\ Expanded' /\ OneBusy'
      BY DEF IInv, Typed, Dirs, Expanded, OneBusy, Busy
<1>3. Serving' /\ Filed' /\ Marked'
      BY DEF IInv, Serving, Filed, Marked, Alive
<1>4. Cleaning' /\ NotSilenced'
      BY DEF IInv, Cleaning, NotSilenced, Alive
<1> QED
    BY <1>1, <1>2, <1>3, <1>4 DEF IInv

\* Every step preserves the invariant.
LEMMA NextPreserves == IInv /\ [Next]_vars => IInv'
<1> SUFFICES ASSUME IInv, [Next]_vars PROVE IInv'
    OBVIOUS
<1>1. CASE ProcessEnds \/ Login
      BY <1>1, RestartPreserves
<1>2. CASE UNCHANGED vars
      BY <1>2
      DEF vars, IInv, Typed, Stages, Dirs, Expanded, OneBusy, Busy, Serving, Filed, Marked, Alive,
          Cleaning, NotSilenced, Drops
<1>3. ASSUME NEW o \in Outputs,
             \/ NewVirtualCam(o) \/ LoadDaemon(o) \/ CreateWebcam(o) \/ SetupFails(o)
             \/ Created(o) \/ Fail(o) \/ UnloadDaemon(o) \/ RemovePlist(o) \/ Destroyed(o)
      PROVE  IInv'
      BY <1>3, NewVirtualCamPreserves, LoadDaemonPreserves, CreateWebcamPreserves,
         SetupFailsPreserves, CreatedPreserves, FailPreserves, UnloadDaemonPreserves,
         RemovePlistPreserves, DestroyedPreserves
<1> QED
    BY <1>1, <1>2, <1>3 DEF Next

\* The invariant the theorems below are read off from.
THEOREM Invariance == Spec => []IInv
  BY InitInv, NextPreserves, PTL DEF Spec

-----------------------------------------------------------------------------
\* Every variable keeps its type; no other directory ever holds the file.
THEOREM TypeCorrect == Spec => []TypeOK
<1>1. IInv => TypeOK
      BY DEF IInv, Typed, Dirs, TypeOK, Paths
<1> QED
    BY <1>1, Invariance, PTL

\* An output that is alive has its registration and its agent, whatever happens
\* to the other outputs.
THEOREM Served == Spec => []ServedWhileAlive
<1>1. IInv => ServedWhileAlive
      BY DEF IInv, Serving, ServedWhileAlive, Alive
<1> QED
    BY <1>1, Invariance, PTL

\* An output loses the agent's file only to the destruction of another.
THEOREM FileKept == Spec => []PlistKept
<1>1. IInv => PlistKept
      BY DEF IInv, Filed, PlistKept, Alive
<1> QED
    BY <1>1, Invariance, PTL

\* An output loses its frames only to the destruction of another.
THEOREM FramesKept == Spec => []NotSilenced
<1>1. IInv => NotSilenced
      BY DEF IInv
<1> QED
    BY <1>1, Invariance, PTL

\* Nothing but a login makes launchd forget the agent.
THEOREM AgentKept == Spec => NeverUnloaded
<1>1. IInv /\ [Next]_vars => [loaded /\ ~loaded' => Login]_vars
  <2> SUFFICES ASSUME IInv, Next, loaded, ~loaded', ~Login PROVE FALSE
      BY DEF Next
  <2>1. ASSUME NEW o \in Outputs, UnloadDaemon(o) PROVE FALSE
        BY <2>1 DEF IInv, Dirs, Expanded, Typed, UnloadDaemon, AgentDir, Replaced
  <2> QED
      BY <2>1
      DEF Next, NewVirtualCam, LoadDaemon, CreateWebcam, SetupFails, Created, Fail, UndoNothing,
          RemovePlist, Destroyed, ProcessEnds
<1> QED
    BY <1>1, Invariance, PTL DEF Spec, NeverUnloaded

\* The first output a process destroys takes the file with it.
THEOREM FirstCleans == Spec => FirstDestroyCleans
<1>1. IInv /\ [Next]_vars
        => [\A o \in Outputs : Destroyed(o) /\ ~destroyed => plists' = {}]_vars
      BY DEF IInv, Cleaning, Destroyed
<1> QED
    BY <1>1, Invariance, PTL DEF Spec, FirstDestroyCleans
=============================================================================
