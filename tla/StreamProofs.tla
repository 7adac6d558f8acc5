---------------------------- MODULE StreamProofs ----------------------------
(***************************************************************************)
(* Safety of Stream, proved for every capacity, set of durations, counter  *)
(* width, set of thread objects and set of callbacks: that it implements   *)
(* Feed, that there is one render thread, when a stamp may go backwards,   *)
(* how far it is from the clock, what a callback is called with, how the   *)
(* process may crash, and why stop ends.                                   *)
(***************************************************************************)
EXTENDS Stream, SequenceTheorems, TLAPS

\* A render thread that has passed the test of the queue finds a place in it.
Room == \A t \in Threads : pc[t] = "enqueue" => Len(queue) < Capacity

\* A stamp that is not after the last one has just been reset to the clock; it
\* is used in this very pass, flagged, or never.  Or the buffer that was stamped so
\* is lost, and m_pts has gone on from its stamp.
Flags ==
    back = 0 =>
        /\ late => lead <= 0 \/ missed > 0
        /\ \A t \in Threads : pc[t] = "enqueue" /\ late => resync \/ missed > 0
        /\ \A i \in 1 .. Len(queue) :
              queue[i].late => queue[i].flagged \/ queue[i].missed > 0

\* Between calls of copyBufferQueue callback and refCon belong together, and
\* what was tested is still there unless copyBufferQueue disturbed it.
Callbacks ==
    /\ main # "registering" => refCon = proc
    /\ \A t \in Threads : pc[t] = "call" /\ ~disturbed => tested = proc /\ proc # NoProc

\* The mutex keeps sendFrame's parameter up to date; and CrashExplained.
Survives ==
    /\ \A t \in Threads : pc[t] = "stamp" => data = current
    /\ CrashExplained

\* A frame that is followed is two frames ahead of the clock at most when its stamp
\* is decided on, at the rate sendFrame has read; and StampsNearClock.
Paced ==
    /\ StampsNearClock
    /\ gap # 0 => lead <= 2 * gap + back

\* stop_timer stays set until the thread is joined.
Signalled == main = "joining" => stopTimer

IInv == TypeOK /\ OneRenderer /\ Room /\ Flags /\ Callbacks /\ Survives /\ Paced /\ Signalled

\* The steps of the loop a render thread has ahead once it must stop.
Left(label) == CASE label = "none" -> 0 [] label = "check" -> 1 [] label = "call" -> 2
                 [] label = "test" -> 3 [] label = "enqueue" -> 4 [] label = "stamp" -> 5
                 [] label = "lock" -> 6

\* While stop joins its thread, this is the only one and finds the mutex free.
JoinUnblocked ==
    main = "joining" =>
        /\ stopTimer
        /\ \A t \in Threads : pc[t] # "none" => t = timer
        /\ \A t \in Threads : pc[t] = "lock" => ~Locked

\* Each step a render thread takes meanwhile brings it nearer to its end.
JoinAdvances ==
    [][main = "joining" /\ main' = "joining" =>
          \A t \in Threads : pc'[t] = pc[t] \/ Left(pc'[t]) < Left(pc[t])]_vars

-----------------------------------------------------------------------------
USE QueueAssumption, TimeAssumption, ThreadAssumption, ProcAssumption
USE DEF deviceVars, stampVars, proxyVars, callVars, threadVars, envVars, vars

\* TypeOK in four parts: numbers, the queue, the flags of the device, and
\* everything else.
TypeCounts ==
    /\ sequence \in 0 .. Modulus - 1
    /\ lead \in Int /\ lastLead \in Int /\ missed \in Nat
    /\ failures \in 0 .. MaxFailures /\ back \in 0 .. MaxBack
    /\ duration \in Durations /\ gap \in Durations \cup {0}

TypeQueue == queue \in Seq(Buffers)

TypeDevice ==
    isRunning \in BOOLEAN /\ defined \in BOOLEAN /\ running \in BOOLEAN /\ stopTimer \in BOOLEAN

TypeControl ==
    /\ timer \in Threads
    /\ current \in Pointers /\ data \in Pointers
    /\ late \in BOOLEAN
    /\ proc \in Procs \cup {NoProc} /\ refCon \in Procs \cup {NoProc} /\ tested \in Procs \cup {NoProc}
    /\ intact \in BOOLEAN
    /\ main \in {"idle", "starting", "stopping", "joining", "registering"}
    /\ xpc \in {"idle", "waiting"}
    /\ pc \in [Threads -> Labels]
    /\ resync \in BOOLEAN /\ disturbed \in BOOLEAN /\ noFormat \in BOOLEAN /\ crashed \in BOOLEAN

\* TypeOK is its four parts.
LEMMA TypeParts == TypeOK <=> TypeCounts /\ TypeQueue /\ TypeDevice /\ TypeControl
BY DEF TypeOK, TypeCounts, TypeQueue, TypeDevice, TypeControl

\* The initial states satisfy the invariant.
LEMMA InitIInv == Init => IInv
<1> SUFFICES ASSUME Init PROVE IInv
    OBVIOUS
<1>1. TypeCounts
    BY DEF Init, TypeCounts, Floor, Invalid
<1>2. TypeQueue
  <2>1. queue = << >>
      BY DEF Init
  <2> QED
      BY <2>1, EmptySeq DEF TypeQueue
<1>3. TypeDevice /\ TypeControl
    BY DEF Init, TypeDevice, TypeControl, Labels, Pointers
<1>4. OneRenderer /\ Room
    BY DEF Init, OneRenderer, Room
<1>5. Callbacks
    BY DEF Init, Callbacks
<1>6. Survives
    BY DEF Init, Survives, CrashExplained
<1>7. Flags
  <2>1. queue = << >> /\ ~late /\ Len(<< >>) = 0
      BY DEF Init
  <2>2. \A t \in Threads : pc[t] # "enqueue"
      BY DEF Init
  <2> QED
      BY <2>1, <2>2 DEF Flags
<1>8. Paced
    BY DEF Init, Paced, StampsNearClock, Invalid, Floor
<1>9. Signalled
    BY DEF Init, Signalled
<1> QED
    BY <1>1, <1>2, <1>3, <1>4, <1>5, <1>6, <1>7, <1>8, <1>9, TypeParts DEF IInv

\* Every step keeps the numbers in their ranges.
LEMMA CountsStep == TypeCounts /\ [Next]_vars => TypeCounts'
<1> SUFFICES ASSUME TypeCounts, [Next]_vars PROVE TypeCounts'
    OBVIOUS
<1> USE DEF TypeCounts
<1>1. CASE StartStream
    BY <1>1 DEF StartStream, Floor, Invalid
<1>2. CASE Started \/ StopStream \/ StopIdle \/ WriteRunning \/ WriteRate \/ SignalStop \/ Joined \/ SetRefCon
    BY <1>2 DEF Started, StopStream, StopIdle, WriteRunning, WriteRate, SignalStop, Joined, SetRefCon
<1>3. ASSUME NEW p \in Procs \cup {NoProc}, SetProc(p) PROVE TypeCounts'
    BY <1>3 DEF SetProc
<1>4. CASE FrameReady \/ StoreFrame \/ Take
    BY <1>4 DEF FrameReady, StoreFrame, Take
<1>5. CASE Tick
    BY <1>5 DEF Tick, Shift, Floor, Invalid
<1>6. CASE StepBack
    BY <1>6 DEF StepBack, Shift, Floor, Invalid
<1>7. ASSUME NEW t \in Threads, Check(t) \/ Lock(t) \/ Skip(t) \/ Test(t) \/ Call(t) PROVE TypeCounts'
    BY <1>7 DEF Check, Lock, Skip, Test, Call, Return
<1>8. ASSUME NEW t \in Threads, StampOnly(t) PROVE TypeCounts'
  <2>1. /\ lead' \in Int /\ lastLead' = lastLead /\ missed' = missed
        /\ sequence' = sequence /\ back' = back
      BY <1>8 DEF StampOnly, Stamp
  <2>2. failures' \in 0 .. MaxFailures
      BY <1>8 DEF StampOnly
  <2>3. duration' = duration /\ gap' = 0
      BY <1>8 DEF StampOnly, Return
  <2> QED
      BY <2>1, <2>2, <2>3
<1>9. ASSUME NEW t \in Threads, Fill(t) PROVE TypeCounts'
    BY <1>9 DEF Fill, Stamp
<1>10. ASSUME NEW t \in Threads, Enqueue(t) \/ Lose(t) PROVE TypeCounts'
  <2>1. Advance(t)
      BY <1>10 DEF Enqueue, Lose
  <2>2. /\ lead' \in Int /\ sequence' \in 0 .. Modulus - 1 /\ gap' = 0
        /\ back' = back /\ duration' = duration
      BY <2>1 DEF Advance, NextSequence, Floor, Invalid
  <2>3. lastLead' \in Int /\ missed' \in Nat /\ failures' \in 0 .. MaxFailures
      BY <1>10 DEF Enqueue, Lose
  <2> QED
      BY <2>2, <2>3
<1>11. ASSUME NEW t \in Threads, NoFormat(t) PROVE TypeCounts'
    BY <1>11 DEF NoFormat
<1>12. CASE UNCHANGED vars
    BY <1>12
<1> QED
    BY <1>1, <1>2, <1>3, <1>4, <1>5, <1>6, <1>7, <1>8, <1>9, <1>10, <1>11, <1>12
       DEF Next, MainThread, RenderThread

\* Every step keeps the queue a queue of buffers.
LEMMA QueueStep == TypeOK /\ [Next]_vars => TypeQueue'
<1> SUFFICES ASSUME TypeOK, [Next]_vars PROVE TypeQueue'
    OBVIOUS
<1>1. CASE Take
    BY <1>1, HeadTailProperties DEF Take, TypeOK, TypeQueue
<1>2. ASSUME NEW t \in Threads, Enqueue(t) PROVE TypeQueue'
  <2> DEFINE b == [seq |-> sequence, missed |-> missed, flagged |-> resync, late |-> late]
  <2>1. b \in Buffers
      BY DEF Buffers, TypeOK
  <2> QED
      BY <1>2, <2>1 DEF Enqueue, TypeOK, TypeQueue
<1>3. CASE UNCHANGED queue
    BY <1>3 DEF TypeOK, TypeQueue
<1> QED
    BY <1>1, <1>2, <1>3 DEF Next, MainThread, RenderThread, StartStream, Started, StopStream, StopIdle, WriteRunning, WriteRate, SignalStop,
       Joined, SetProc, SetRefCon, FrameReady, StoreFrame, Tick, StepBack, Check, Lock, Skip,
       StampOnly, Fill, NoFormat, Lose, Test, Call

\* Every step keeps the flags of the device truth values.
LEMMA DeviceStep == TypeDevice /\ [Next]_vars => TypeDevice'
<1> SUFFICES ASSUME TypeDevice, [Next]_vars PROVE TypeDevice'
    OBVIOUS
<1> USE DEF TypeDevice
<1>1. CASE StartStream \/ Started \/ StopStream \/ StopIdle \/ SignalStop \/ Joined
    BY <1>1 DEF StartStream, Started, StopStream, StopIdle, SignalStop, Joined
<1>2. CASE WriteRunning \/ WriteRate
    BY <1>2 DEF WriteRunning, WriteRate
<1>3. CASE UNCHANGED deviceVars
    BY <1>3
<1> QED
    BY <1>1, <1>2, <1>3 DEF Next, MainThread, RenderThread, SetProc, SetRefCon, FrameReady,
       StoreFrame, Take, Tick, StepBack, Check, Lock, Skip, StampOnly, Fill, NoFormat, Enqueue, Lose, Advance, Test, Call

\* What sendFrame's return leaves has its type.
LEMMA ReturnTypes ==
    ASSUME TypeControl, NEW t \in Threads, Return(t)
    PROVE  /\ pc' \in [Threads -> Labels] /\ data' \in Pointers
           /\ resync' \in BOOLEAN /\ tested' \in Procs \cup {NoProc}
BY DEF TypeControl, Return, Goto, Labels, Pointers

\* Resetting m_pts or not, late stays a truth value.
LEMMA StampTypes ==
    ASSUME TypeControl, NEW r \in BOOLEAN, Stamp(r)
    PROVE  late' \in BOOLEAN
<1>1. CASE r
  <2>1. late' = (lastLead >= 0)
      BY <1>1 DEF Stamp
  <2>2. (lastLead >= 0) \in BOOLEAN
      OBVIOUS
  <2> QED
      BY <2>1, <2>2
<1>2. CASE ~r
    BY <1>2 DEF Stamp, TypeControl
<1> QED
    BY <1>1, <1>2

\* Every step keeps the control state in its types.
LEMMA ControlStep == TypeControl /\ [Next]_vars => TypeControl'
<1> SUFFICES ASSUME TypeControl, [Next]_vars PROVE TypeControl'
    OBVIOUS
<1> USE DEF TypeControl
<1>1. CASE StartStream
    BY <1>1 DEF StartStream, Labels
<1>2. CASE Started \/ StopStream \/ StopIdle \/ WriteRunning \/ WriteRate \/ SignalStop \/ Joined
    BY <1>2 DEF Started, StopStream, StopIdle, WriteRunning, WriteRate, SignalStop, Joined
<1>3. ASSUME NEW p \in Procs \cup {NoProc}, SetProc(p) PROVE TypeControl'
    BY <1>3 DEF SetProc
<1>4. CASE SetRefCon
    BY <1>4 DEF SetRefCon
<1>5. CASE FrameReady \/ StoreFrame
    BY <1>5 DEF FrameReady, StoreFrame, Pointers
<1>6. CASE Take \/ Tick \/ StepBack
    BY <1>6 DEF Take, Tick, StepBack
<1>7. ASSUME NEW t \in Threads, Check(t) PROVE TypeControl'
    BY <1>7 DEF Check, Goto, Labels
<1>8. ASSUME NEW t \in Threads, Lock(t) PROVE TypeControl'
    BY <1>8 DEF Lock, Goto, Labels
<1>9. ASSUME NEW t \in Threads, Skip(t) PROVE TypeControl'
  <2>1. UNCHANGED <<deviceVars, current, stampVars, proxyVars, intact, disturbed, main, xpc, noFormat, crashed>>
      BY <1>9 DEF Skip
  <2>2. Return(t)
      BY <1>9 DEF Skip
  <2> QED
      BY <2>1, <2>2, ReturnTypes
<1>10. ASSUME NEW t \in Threads, StampOnly(t) PROVE TypeControl'
  <2>1. PICK r \in BOOLEAN : Stamp(r)
      BY <1>10 DEF StampOnly
  <2>2. late' \in BOOLEAN
      BY <2>1, StampTypes
  <2>3. UNCHANGED <<deviceVars, current, proxyVars, intact, disturbed, main, xpc, noFormat, crashed>>
      BY <1>10 DEF StampOnly
  <2>4. Return(t)
      BY <1>10 DEF StampOnly
  <2> QED
      BY <2>2, <2>3, <2>4, ReturnTypes
<1>11. ASSUME NEW t \in Threads, Fill(t) PROVE TypeControl'
  <2>1. PICK r \in BOOLEAN : Stamp(r) /\ resync' = r
      BY <1>11 DEF Fill
  <2>2. late' \in BOOLEAN
      BY <2>1, StampTypes
  <2>3. resync' \in BOOLEAN
      BY <2>1
  <2>4. crashed' \in BOOLEAN
      BY <1>11 DEF Fill
  <2>5. UNCHANGED <<deviceVars, current, proxyVars, callVars, main, xpc, data, noFormat>>
      BY <1>11 DEF Fill
  <2>6. pc' \in [Threads -> Labels]
    <3>1. Goto(t, "enqueue")
        BY <1>11 DEF Fill
    <3> QED
        BY <3>1 DEF Goto, Labels
  <2> QED
      BY <2>2, <2>3, <2>4, <2>5, <2>6
<1>12. ASSUME NEW t \in Threads, Enqueue(t) \/ Lose(t) PROVE TypeControl'
  <2>1. Advance(t)
      BY <1>12 DEF Enqueue, Lose
  <2>2. late' \in BOOLEAN
    <3>1. (late /\ gap # 0 /\ lead + gap <= lastLead) \in BOOLEAN
        OBVIOUS
    <3> QED
        BY <1>12, <3>1 DEF Enqueue, Lose
  <2>3. UNCHANGED <<deviceVars, current, proxyVars, callVars, main, xpc, data, noFormat, crashed>>
      BY <2>1 DEF Advance
  <2>4. pc' \in [Threads -> Labels] /\ resync' \in BOOLEAN
      BY <2>1 DEF Advance, Goto, Labels
  <2> QED
      BY <2>2, <2>3, <2>4
<1>13. ASSUME NEW t \in Threads, Test(t) PROVE TypeControl'
  <2>1. UNCHANGED <<deviceVars, current, stampVars, proxyVars, intact, main, xpc, noFormat, crashed>>
      BY <1>13 DEF Test
  <2>2. disturbed' = disturbed
      BY <1>13 DEF Test
  <2>3. CASE proc # NoProc
    <3>1. Goto(t, "call") /\ tested' = proc /\ UNCHANGED <<data, resync>>
        BY <1>13, <2>3 DEF Test, NotNull
    <3>2. pc' \in [Threads -> Labels]
        BY <3>1 DEF Goto, Labels
    <3> QED
        BY <2>1, <2>2, <3>1, <3>2
  <2>4. CASE proc = NoProc
    <3>1. Return(t)
        BY <1>13, <2>4 DEF Test, NotNull
    <3> QED
        BY <2>1, <2>2, <3>1, ReturnTypes
  <2> QED
      BY <2>3, <2>4
<1>14. ASSUME NEW t \in Threads, Call(t) PROVE TypeControl'
    BY <1>14 DEF Call, Return, Goto, Labels, Pointers
<1>15. ASSUME NEW t \in Threads, NoFormat(t) PROVE TypeControl'
    BY <1>15 DEF NoFormat
<1>16. CASE UNCHANGED vars
    BY <1>16
<1> QED
    BY <1>1, <1>2, <1>3, <1>4, <1>5, <1>6, <1>7, <1>8, <1>9, <1>10, <1>11, <1>12, <1>13, <1>14, <1>15, <1>16
       DEF Next, MainThread, RenderThread

\* Every step keeps the types.
LEMMA TypeStep == TypeOK /\ [Next]_vars => TypeOK'
BY CountsStep, QueueStep, DeviceStep, ControlStep, TypeParts
   DEF TypeOK, TypeCounts, TypeQueue, TypeDevice, TypeControl

\* Every step keeps the render thread single.
LEMMA RendererStep == TypeOK /\ OneRenderer /\ [Next]_vars => OneRenderer'
<1> SUFFICES ASSUME TypeOK, OneRenderer, [Next]_vars PROVE OneRenderer'
    OBVIOUS
<1> USE DEF TypeOK, OneRenderer
<1>1. CASE StartStream
    BY <1>1 DEF StartStream, MayStart
<1>2. CASE Started \/ StopStream \/ StopIdle \/ WriteRunning \/ WriteRate \/ SignalStop \/ Joined
    BY <1>2 DEF Started, StopStream, StopIdle, WriteRunning, WriteRate, SignalStop, Joined, Finished
<1>3. ASSUME NEW p \in Procs \cup {NoProc}, SetProc(p) PROVE OneRenderer'
    BY <1>3 DEF SetProc
<1>4. CASE SetRefCon
    BY <1>4 DEF SetRefCon
<1>5. CASE FrameReady \/ StoreFrame \/ Take \/ Tick \/ StepBack
    BY <1>5 DEF FrameReady, StoreFrame, Take, Tick, StepBack
<1>6. ASSUME NEW t \in Threads, RenderThread(t) PROVE OneRenderer'
  <2>1. pc[t] # "none" /\ UNCHANGED <<timer, running, main>>
      BY <1>6 DEF RenderThread, Check, Lock, Skip, StampOnly, Fill, NoFormat, Enqueue, Lose, Advance, Test, Call
  <2>2. \A u \in Threads : u # t => pc'[u] = pc[u]
      BY <1>6 DEF RenderThread, Check, Lock, Skip, StampOnly, Fill, NoFormat, Enqueue, Lose, Advance, Test, Call, Goto, Return
  <2> QED
      BY <2>1, <2>2
<1>7. CASE UNCHANGED vars
    BY <1>7
<1> QED
    BY <1>1, <1>2, <1>3, <1>4, <1>5, <1>6, <1>7 DEF Next, MainThread

\* Every step keeps the place the render thread has found in the queue.
LEMMA RoomStep == TypeOK /\ OneRenderer /\ Room /\ [Next]_vars => Room'
<1> SUFFICES ASSUME TypeOK, OneRenderer, Room, [Next]_vars PROVE Room'
    OBVIOUS
<1> USE DEF Room
<1>1. CASE MainThread
    BY <1>1 DEF MainThread, StartStream, Started, StopStream, StopIdle, WriteRunning, WriteRate, SignalStop, Joined, SetProc, SetRefCon, TypeOK
<1>2. CASE FrameReady \/ StoreFrame \/ Tick \/ StepBack
    BY <1>2 DEF FrameReady, StoreFrame, Tick, StepBack
<1>3. CASE Take
  <2>1. Len(queue) \in Nat /\ Len(queue') = Len(queue) - 1
      BY <1>3, HeadTailProperties, LenProperties DEF Take, TypeOK
  <2>2. pc' = pc
      BY <1>3 DEF Take
  <2> QED
      BY <2>1, <2>2
<1>4. ASSUME NEW t \in Threads, Check(t) \/ Lock(t) \/ Skip(t) \/ StampOnly(t) \/ Test(t) \/ Call(t)
      PROVE Room'
    BY <1>4 DEF Check, Lock, Skip, StampOnly, Test, Call, Goto, Return, TypeOK
<1>5. ASSUME NEW t \in Threads, Fill(t) PROVE Room'
  <2>1. Len(queue) \in Nat
      BY LenProperties DEF TypeOK
  <2>2. ~Full /\ queue' = queue
      BY <1>5 DEF Fill
  <2>3. Len(queue) < Capacity
      BY <2>1, <2>2 DEF Full
  <2> QED
      BY <2>2, <2>3
<1>6. ASSUME NEW t \in Threads, NoFormat(t) \/ Enqueue(t) \/ Lose(t) PROVE Room'
    BY <1>6 DEF NoFormat, Enqueue, Lose, Advance, Goto, TypeOK, OneRenderer
<1>7. CASE UNCHANGED vars
    BY <1>7
<1> QED
    BY <1>1, <1>2, <1>3, <1>4, <1>5, <1>6, <1>7 DEF Next, RenderThread

\* While one thread renders there is no other.
LEMMA Alone ==
    ASSUME TypeOK, OneRenderer, NEW t \in Threads, RenderThread(t)
    PROVE  \A u \in Threads : u # t => pc[u] = "none" /\ pc'[u] = "none"
<1>1. pc[t] # "none"
    BY DEF RenderThread, Check, Lock, Skip, StampOnly, Fill, NoFormat, Enqueue, Lose, Advance, Test, Call
<1>2. \A u \in Threads : u # t => pc'[u] = pc[u]
    BY DEF RenderThread, Check, Lock, Skip, StampOnly, Fill, NoFormat, Enqueue, Lose, Advance, Test, Call, Goto, Return, TypeOK
<1>3. \A u \in Threads : u # t => pc[u] = "none"
    BY <1>1 DEF OneRenderer
<1> QED
    BY <1>2, <1>3

\* A frame that is not reset is stamped after the clock, so after the last one.
LEMMA NotReset == ASSUME lead \in Int, MayResync(FALSE), ~SameStamp PROVE lead > 0
BY DEF MayResync, SameStamp

\* A stamp that is not after the last one is the clock's or behind it, or that of a
\* lost buffer.
LEMMA StampLate ==
    ASSUME TypeOK, late => lead <= 0 \/ missed > 0, NEW r \in BOOLEAN, Stamp(r)
    PROVE  late' => lead' <= 0 \/ missed' > 0
<1>1. CASE r
  <2>1. lead' = 0
      BY <1>1 DEF Stamp
  <2> QED
      BY <2>1
<1>2. CASE ~r
  <2>1. lead' = lead /\ late' = late /\ missed' = missed
      BY <1>2 DEF Stamp
  <2> QED
      BY <2>1
<1> QED
    BY <1>1, <1>2

\* Every step keeps the discontinuity flags truthful.
LEMMA FlagsStep == TypeOK /\ OneRenderer /\ Room /\ Flags /\ [Next]_vars => Flags'
<1> SUFFICES ASSUME TypeOK, OneRenderer, Room, Flags, [Next]_vars, back' = 0
             PROVE  /\ late' => lead' <= 0 \/ missed' > 0
                    /\ \A t \in Threads : pc'[t] = "enqueue" /\ late' => resync' \/ missed' > 0
                    /\ \A i \in 1 .. Len(queue') : queue'[i].late => queue'[i].flagged \/ queue'[i].missed > 0
    BY DEF Flags
<1> DEFINE Stamped == late' => lead' <= 0 \/ missed' > 0
           Carried == \A t \in Threads : pc'[t] = "enqueue" /\ late' => resync' \/ missed' > 0
           Queued  == \A i \in 1 .. Len(queue') : queue'[i].late => queue'[i].flagged \/ queue'[i].missed > 0
<1>0. back = 0
  <2>1. CASE UNCHANGED back
      BY <2>1
  <2>2. CASE StepBack
      BY <2>2 DEF StepBack, TypeOK
  <2> QED
      BY <2>1, <2>2 DEF Next, MainThread, RenderThread, StartStream, Started, StopStream, StopIdle, WriteRunning, WriteRate, SignalStop,
         Joined, SetProc, SetRefCon, FrameReady, StoreFrame, Take, Tick, Check, Lock, Skip,
         StampOnly, Fill, NoFormat, Enqueue, Lose, Advance, Test, Call
<1>1. /\ late => lead <= 0 \/ missed > 0
      /\ \A t \in Threads : pc[t] = "enqueue" /\ late => resync \/ missed > 0
      /\ \A i \in 1 .. Len(queue) : queue[i].late => queue[i].flagged \/ queue[i].missed > 0
    BY <1>0 DEF Flags
<1>2. CASE StartStream
    BY <1>1, <1>2 DEF StartStream, TypeOK
<1>3. CASE UNCHANGED <<stampVars, queue, pc, resync>>
    BY <1>1, <1>3
<1>4. CASE Take
  <2>1. /\ queue \in Seq(Buffers) /\ queue # << >> /\ queue' = Tail(queue)
        /\ UNCHANGED <<stampVars, pc, resync>>
      BY <1>4 DEF Take, TypeOK
  <2>2. Queued
      BY <1>1, <2>1, HeadTailProperties, LenProperties
  <2> QED
      BY <1>1, <2>1, <2>2
<1>5. CASE Tick
  <2>1. lead' = Shift(lead, -1) /\ UNCHANGED <<late, missed, queue, pc, resync>>
      BY <1>5 DEF Tick
  <2>2. Stamped
      BY <1>1, <2>1 DEF Shift, Floor, Invalid, TypeOK
  <2> QED
      BY <1>1, <2>1, <2>2
<1>6. CASE StepBack
    BY <1>0, <1>6 DEF StepBack
<1>7. ASSUME NEW t \in Threads, Check(t) \/ Lock(t) \/ Skip(t) \/ Test(t) \/ Call(t)
      PROVE Stamped /\ Carried /\ Queued
  <2>1. UNCHANGED <<stampVars, queue>>
      BY <1>7 DEF Check, Lock, Skip, Test, Call
  <2>2. pc'[t] # "enqueue"
      BY <1>7 DEF Check, Lock, Skip, Test, Call, Goto, Return, TypeOK
  <2>3. \A u \in Threads : pc'[u] # "enqueue"
      BY <1>7, <2>2, Alone DEF RenderThread
  <2> QED
      BY <1>1, <2>1, <2>3
<1>8. ASSUME NEW t \in Threads, StampOnly(t) PROVE Stamped /\ Carried /\ Queued
  <2>1. PICK r \in BOOLEAN : Stamp(r)
      BY <1>8 DEF StampOnly
  <2>2. Stamped
      BY <1>1, <2>1, StampLate
  <2>3. queue' = queue
      BY <1>8 DEF StampOnly
  <2>4. pc'[t] # "enqueue"
      BY <1>8 DEF StampOnly, Goto, Return, TypeOK
  <2>5. \A u \in Threads : pc'[u] # "enqueue"
      BY <1>8, <2>4, Alone DEF RenderThread
  <2> QED
      BY <1>1, <2>2, <2>3, <2>5
<1>9. ASSUME NEW t \in Threads, Fill(t) PROVE Stamped /\ Carried /\ Queued
  <2>1. PICK r \in BOOLEAN : Stamp(r) /\ resync' = r
      BY <1>9 DEF Fill
  <2>2. Stamped
      BY <1>1, <2>1, StampLate
  <2>3. ASSUME r PROVE Carried
    <3>1. resync'
        BY <2>1, <2>3
    <3> QED
        BY <3>1
  <2>4. ASSUME ~r PROVE Carried
    <3>1. MayResync(FALSE) /\ ~SameStamp /\ lead \in Int
        BY <1>9, <2>1, <2>4 DEF Fill, Stamp, TypeOK
    <3>2. lead > 0
        BY <3>1, NotReset
    <3>3. ~late \/ missed > 0
        BY <1>1, <3>1, <3>2
    <3>4. late' = late /\ missed' = missed
        BY <2>1, <2>4 DEF Stamp
    <3> QED
        BY <3>3, <3>4
  <2>5. Carried
      BY <2>1, <2>3, <2>4
  <2>6. queue' = queue
      BY <1>9 DEF Fill
  <2> QED
      BY <1>1, <2>2, <2>5, <2>6
<1>10. ASSUME NEW t \in Threads, Enqueue(t) PROVE Stamped /\ Carried /\ Queued
  <2> DEFINE b == [seq |-> sequence, missed |-> missed, flagged |-> resync, late |-> late]
  <2>1. late' = FALSE
      BY <1>10 DEF Enqueue
  <2>2. b.late => b.flagged \/ b.missed > 0
      BY <1>1, <1>10 DEF Enqueue
  <2>3. b \in Buffers /\ queue \in Seq(Buffers)
      BY DEF TypeOK, Buffers
  <2>4. queue' = Append(queue, b) \/ queue' = queue
      BY <1>10 DEF Enqueue
  <2>5. Queued
      BY <1>1, <2>2, <2>3, <2>4, AppendProperties, LenProperties
  <2> QED
      BY <2>1, <2>5
<1>11. ASSUME NEW t \in Threads, Lose(t) PROVE Stamped /\ Carried /\ Queued
  <2>1. missed' > 0 /\ queue' = queue
      BY <1>11 DEF Lose, TypeOK
  <2> QED
      BY <1>1, <2>1
<1>12. ASSUME NEW t \in Threads, NoFormat(t) PROVE UNCHANGED <<stampVars, queue, pc, resync>>
    BY <1>12 DEF NoFormat
<1> QED
    BY <1>2, <1>3, <1>4, <1>5, <1>6, <1>7, <1>8, <1>9, <1>10, <1>11, <1>12
       DEF Next, MainThread, RenderThread, Started, StopStream, StopIdle, WriteRunning, WriteRate, SignalStop, Joined, SetProc,
       SetRefCon, FrameReady, StoreFrame

\* Every step keeps callback and refCon together.
LEMMA CallbacksStep == TypeOK /\ OneRenderer /\ Callbacks /\ [Next]_vars => Callbacks'
<1> SUFFICES ASSUME TypeOK, OneRenderer, Callbacks, [Next]_vars PROVE Callbacks'
    OBVIOUS
<1>1. ASSUME NEW p \in Procs \cup {NoProc}, SetProc(p) PROVE Callbacks'
    BY <1>1 DEF SetProc, Callbacks, Calling
<1>2. CASE SetRefCon
    BY <1>2 DEF SetRefCon, Callbacks, Calling
<1>3. CASE StartStream
    BY <1>3 DEF StartStream, Callbacks, TypeOK
<1>4. CASE Started \/ StopStream \/ StopIdle \/ WriteRunning \/ WriteRate \/ SignalStop \/ Joined
    BY <1>4 DEF Started, StopStream, StopIdle, WriteRunning, WriteRate, SignalStop, Joined, Callbacks
<1>5. CASE FrameReady \/ StoreFrame \/ Take \/ Tick \/ StepBack
    BY <1>5 DEF FrameReady, StoreFrame, Take, Tick, StepBack, Callbacks
<1>6. ASSUME NEW t \in Threads, RenderThread(t), ~Test(t) PROVE Callbacks'
  <2>1. UNCHANGED <<main, proxyVars>>
      BY <1>6 DEF RenderThread, Check, Lock, Skip, StampOnly, Fill, NoFormat, Enqueue, Lose, Advance, Call
  <2>2. pc'[t] # "call"
      BY <1>6 DEF RenderThread, Check, Lock, Skip, StampOnly, Fill, NoFormat, Enqueue, Lose, Advance, Call, Goto, Return, TypeOK
  <2>3. \A u \in Threads : pc'[u] # "call"
      BY <1>6, <2>2, Alone
  <2> QED
      BY <2>1, <2>3 DEF Callbacks
<1>7. ASSUME NEW t \in Threads, Test(t) PROVE Callbacks'
  <2>1. UNCHANGED <<main, proxyVars>>
      BY <1>7 DEF Test
  <2>2. pc'[t] = "call" => tested' = proc /\ proc # NoProc
      BY <1>7 DEF Test, NotNull, Goto, Return, TypeOK
  <2>3. \A u \in Threads : u # t => pc'[u] # "call"
      BY <1>7, Alone DEF RenderThread
  <2> QED
      BY <2>1, <2>2, <2>3 DEF Callbacks
<1>8. CASE UNCHANGED vars
    BY <1>8 DEF Callbacks
<1> QED
    BY <1>1, <1>2, <1>3, <1>4, <1>5, <1>6, <1>7, <1>8 DEF Next, MainThread

\* Every step keeps a crash explained.
LEMMA SurvivesStep == TypeOK /\ OneRenderer /\ Callbacks /\ Survives /\ [Next]_vars => Survives'
<1> SUFFICES ASSUME TypeOK, OneRenderer, Callbacks, Survives, [Next]_vars PROVE Survives'
    OBVIOUS
<1>1. CASE UNCHANGED vars
    BY <1>1 DEF Survives, CrashExplained
<1> SUFFICES ASSUME Next PROVE Survives'
    BY <1>1
<1>2. ~crashed
    BY DEF Next
<1>3. CASE MainThread \/ FrameReady \/ Take \/ Tick \/ StepBack
  <2>1. UNCHANGED <<current, data, crashed>>
      BY <1>3 DEF MainThread, StartStream, Started, StopStream, StopIdle, WriteRunning, WriteRate, SignalStop, Joined, SetProc,
         SetRefCon, FrameReady, Take, Tick, StepBack
  <2>2. \A t \in Threads : pc'[t] = "stamp" => pc[t] = "stamp"
      BY <1>3 DEF MainThread, StartStream, Started, StopStream, StopIdle, WriteRunning, WriteRate, SignalStop, Joined, SetProc,
         SetRefCon, FrameReady, Take, Tick, StepBack, TypeOK
  <2> QED
      BY <1>2, <2>1, <2>2 DEF Survives, CrashExplained
<1>4. CASE StoreFrame
    BY <1>2, <1>4 DEF StoreFrame, Locked, Survives, CrashExplained
<1>5. ASSUME NEW t \in Threads, Lock(t) PROVE Survives'
  <2>1. data' = current /\ UNCHANGED <<current, crashed>>
      BY <1>5 DEF Lock
  <2> QED
      BY <1>2, <2>1 DEF Survives, CrashExplained
<1>6. ASSUME NEW t \in Threads, \/ Check(t) \/ Skip(t) \/ StampOnly(t) \/ NoFormat(t)
                               \/ Enqueue(t) \/ Lose(t) \/ Test(t)
      PROVE Survives'
  <2>1. crashed' = crashed \/ noFormat'
      BY <1>6 DEF Check, Skip, StampOnly, NoFormat, Enqueue, Lose, Advance, Test
  <2>2. pc'[t] # "stamp"
      BY <1>6 DEF Check, Skip, StampOnly, NoFormat, Enqueue, Lose, Advance, Test, Goto, Return, TypeOK
  <2>3. \A u \in Threads : pc'[u] # "stamp"
      BY <1>6, <2>2, Alone DEF RenderThread
  <2> QED
      BY <1>2, <2>1, <2>3 DEF Survives, CrashExplained
<1>7. ASSUME NEW t \in Threads, Fill(t) PROVE Survives'
  <2>1. crashed' => current' \in {"wild", "short"}
      BY <1>7 DEF Fill, Survives
  <2>2. pc'[t] # "stamp"
      BY <1>7 DEF Fill, Goto, TypeOK
  <2>3. \A u \in Threads : pc'[u] # "stamp"
      BY <1>7, <2>2, Alone DEF RenderThread
  <2> QED
      BY <2>1, <2>3 DEF Survives, CrashExplained
<1>8. ASSUME NEW t \in Threads, Call(t) PROVE Survives'
  <2>1. crashed' => disturbed'
      BY <1>8 DEF Call, Callbacks
  <2>2. pc'[t] # "stamp"
      BY <1>8 DEF Call, Return, Goto, TypeOK
  <2>3. \A u \in Threads : pc'[u] # "stamp"
      BY <1>8, <2>2, Alone DEF RenderThread
  <2> QED
      BY <2>1, <2>3 DEF Survives, CrashExplained
<1> QED
    BY <1>3, <1>4, <1>5, <1>6, <1>7, <1>8 DEF Next, RenderThread

\* What is reset is on the clock; what is followed was near it.
LEMMA StampPaced ==
    ASSUME TypeOK, Paced, NEW r \in BOOLEAN, Stamp(r)
    PROVE  /\ \E d \in Durations : lead' <= 3 * d + back
           /\ duration # 0 => lead' <= 2 * duration + back
<1>1. /\ duration \in Nat /\ duration \in Durations /\ back \in Nat /\ lead \in Int
      /\ MayResync(r) /\ lead' = IF r THEN 0 ELSE lead
    BY DEF TypeOK, Stamp
<1>2. CASE r
  <2>1. lead' = 0
      BY <1>1, <1>2
  <2> QED
      BY <1>1, <2>1
<1>3. CASE ~r
  <2>1. lead' = lead
      BY <1>1, <1>3
  <2>2. lead >= 0 /\ duration # 0 => lead <= 2 * duration
      BY <1>1, <1>3 DEF MayResync
  <2>3. lead < 0 => lead' <= 2 * duration + back
      BY <1>1, <2>1
  <2> QED
      BY <1>1, <2>1, <2>2, <2>3 DEF Paced, StampsNearClock
<1> QED
    BY <1>2, <1>3

\* Every step keeps m_pts near the clock.
LEMMA PacedStep == TypeOK /\ Paced /\ [Next]_vars => Paced'
<1> SUFFICES ASSUME TypeOK, Paced, [Next]_vars PROVE Paced'
    OBVIOUS
<1>1. /\ back \in Nat /\ lead \in Int /\ gap \in Nat /\ (gap # 0 => gap \in Durations)
      /\ \E d \in Durations : lead <= 3 * d + back
      /\ gap # 0 => lead <= 2 * gap + back
    BY DEF TypeOK, Paced, StampsNearClock
<1>2. PICK d \in Durations : lead <= 3 * d + back
    BY <1>1
<1>3. d \in Nat
    OBVIOUS
<1>4. ASSUME lead' = lead \/ (lead' < 0 /\ lead' \in Int), back' = back, gap' = gap \/ gap' = 0
      PROVE  Paced'
  <2>1. lead' <= 3 * d + back' /\ (gap' # 0 => lead' <= 2 * gap' + back')
      BY <1>1, <1>2, <1>3, <1>4
  <2> QED
      BY <2>1 DEF Paced, StampsNearClock
<1>5. CASE StartStream
    BY <1>4, <1>5 DEF StartStream, Invalid, Floor
<1>6. CASE (MainThread /\ ~StartStream) \/ FrameReady \/ StoreFrame \/ Take \/ UNCHANGED vars
    BY <1>4, <1>6 DEF MainThread, Started, StopStream, StopIdle, WriteRunning, WriteRate, SignalStop,
       Joined, SetProc, SetRefCon, FrameReady, StoreFrame, Take
<1>7. CASE Tick
  <2>1. back' = back /\ gap' = gap /\ lead' \in Int /\ (lead' <= lead \/ lead' < 0)
      BY <1>1, <1>7 DEF Tick, Shift, Floor, Invalid
  <2>2. lead' <= 3 * d + back' /\ (gap' # 0 => lead' <= 2 * gap' + back')
      BY <1>1, <1>2, <1>3, <2>1
  <2> QED
      BY <2>2 DEF Paced, StampsNearClock
<1>8. CASE StepBack
  <2>1. back' = back + 1 /\ gap' = gap /\ lead' \in Int /\ (lead' <= lead + 1 \/ lead' < 0)
      BY <1>1, <1>8 DEF StepBack, Shift, Floor, Invalid
  <2>2. lead' <= 3 * d + back' /\ (gap' # 0 => lead' <= 2 * gap' + back')
      BY <1>1, <1>2, <1>3, <2>1
  <2> QED
      BY <2>2 DEF Paced, StampsNearClock
<1>9. ASSUME NEW t \in Threads, Check(t) \/ Lock(t) \/ Skip(t) \/ NoFormat(t) \/ Test(t) \/ Call(t)
      PROVE  Paced'
    BY <1>4, <1>9 DEF Check, Lock, Skip, NoFormat, Test, Call, Return
<1>10. ASSUME NEW t \in Threads, StampOnly(t) PROVE Paced'
  <2>1. PICK r \in BOOLEAN : Stamp(r)
      BY <1>10 DEF StampOnly
  <2>2. gap' = 0 /\ back' = back
      BY <1>10 DEF StampOnly, Return
  <2> QED
      BY <2>1, <2>2, StampPaced DEF Paced, StampsNearClock
<1>11. ASSUME NEW t \in Threads, Fill(t) PROVE Paced'
  <2>1. PICK r \in BOOLEAN : Stamp(r)
      BY <1>11 DEF Fill
  <2>2. gap' = duration /\ back' = back
      BY <1>11 DEF Fill
  <2> QED
      BY <2>1, <2>2, StampPaced DEF Paced, StampsNearClock
<1>12. ASSUME NEW t \in Threads, Enqueue(t) \/ Lose(t) PROVE Paced'
  <2>1. gap' = 0 /\ back' = back /\ lead' = IF gap = 0 THEN Invalid ELSE lead + gap
      BY <1>12 DEF Enqueue, Lose, Advance
  <2>2. CASE gap = 0
      BY <1>4, <2>1, <2>2 DEF Invalid, Floor
  <2>3. CASE gap # 0
    <3>1. lead' <= 3 * gap + back'
        BY <1>1, <2>1, <2>3
    <3> QED
        BY <1>1, <2>1, <2>3, <3>1 DEF Paced, StampsNearClock
  <2> QED
      BY <2>2, <2>3
<1> QED
    BY <1>5, <1>6, <1>7, <1>8, <1>9, <1>10, <1>11, <1>12 DEF Next, RenderThread

\* Every step keeps stop_timer set for the join.
LEMMA SignalledStep == TypeOK /\ Signalled /\ [Next]_vars => Signalled'
<1> SUFFICES ASSUME Signalled, [Next]_vars PROVE Signalled'
    OBVIOUS
<1> USE DEF Signalled
<1>1. CASE MainThread
    BY <1>1 DEF MainThread, StartStream, Started, StopStream, StopIdle, WriteRunning, WriteRate,
       SignalStop, Joined, SetProc, SetRefCon
<1>2. CASE FrameReady \/ StoreFrame \/ Take \/ Tick \/ StepBack \/ UNCHANGED vars
    BY <1>2 DEF FrameReady, StoreFrame, Take, Tick, StepBack, threadVars, deviceVars, vars
<1>3. ASSUME NEW t \in Threads, RenderThread(t) PROVE UNCHANGED <<main, stopTimer>>
    BY <1>3 DEF RenderThread, Check, Lock, Skip, StampOnly, Fill, NoFormat, Enqueue, Lose, Advance, Test, Call, deviceVars
<1> QED
    BY <1>1, <1>2, <1>3 DEF Next

\* The invariant is inductive.
LEMMA StepIInv == IInv /\ [Next]_vars => IInv'
BY TypeStep, RendererStep, RoomStep, FlagsStep, CallbacksStep, SurvivesStep, PacedStep, SignalledStep
   DEF IInv

\* The inductive invariant holds in every reachable state.
THEOREM Invariance == Spec => []IInv
BY InitIInv, StepIInv, PTL DEF Spec

\* Every variable has its type in every reachable state.
THEOREM TypeCorrect == Spec => []TypeOK
BY Invariance, PTL DEF IInv

\* The stamps of the buffers stay near the clock, whatever rates are written.
THEOREM StampsPaced == Spec => []StampsNearClock
<1>1. IInv => StampsNearClock
    BY DEF IInv, Paced
<1> QED
    BY <1>1, Invariance, PTL

\* startStream and stopStream never leave two render threads alive, nor one
\* that no stop would join.
THEOREM SingleRenderer == Spec => []OneRenderer
BY Invariance, PTL DEF IInv

\* stop does not wait for ever: nobody holds the mutex its thread still needs, and
\* this thread has a bounded number of steps left.
THEOREM JoinEnds == Spec => []JoinUnblocked /\ JoinAdvances
<1>1. IInv => JoinUnblocked
  <2> SUFFICES ASSUME IInv, main = "joining", NEW t \in Threads, pc[t] = "lock" PROVE ~Locked
      BY DEF IInv, Signalled, OneRenderer, JoinUnblocked
  <2> QED
      BY DEF IInv, OneRenderer, Locked
<1>2. ASSUME IInv, [Next]_vars, main = "joining", main' = "joining", NEW t \in Threads
      PROVE  pc'[t] = pc[t] \/ Left(pc'[t]) < Left(pc[t])
  <2>1. stopTimer /\ pc \in [Threads -> Labels]
      BY <1>2 DEF IInv, Signalled, TypeOK
  <2>2. CASE MainThread \/ FrameReady \/ StoreFrame \/ Take \/ Tick \/ StepBack \/ UNCHANGED vars
      BY <1>2, <2>2 DEF MainThread, StartStream, Started, StopStream, StopIdle, WriteRunning,
         WriteRate, SignalStop, Joined, SetProc, SetRefCon, FrameReady, StoreFrame, Take, Tick,
         StepBack, threadVars, vars
  <2>3. ASSUME NEW u \in Threads, RenderThread(u) PROVE pc'[t] = pc[t] \/ Left(pc'[t]) < Left(pc[t])
    <3>1. \/ pc[u] = "check" /\ Goto(u, "none")
          \/ pc[u] = "lock" /\ Goto(u, "stamp")
          \/ pc[u] = "stamp" /\ (Goto(u, "check") \/ Goto(u, "enqueue"))
          \/ pc[u] = "enqueue" /\ (Goto(u, "test") \/ pc' = pc)
          \/ pc[u] = "test" /\ (Goto(u, "call") \/ Goto(u, "check"))
          \/ pc[u] = "call" /\ Goto(u, "check")
        BY <2>1, <2>3 DEF RenderThread, Check, AskedToStop, Lock, Skip, StampOnly, Fill,
           NoFormat, Enqueue, Lose, Advance, Test, Call, Return
    <3> QED
        BY <2>1, <3>1 DEF Goto, Left
  <2> QED
      BY <1>2, <2>2, <2>3 DEF Next
<1>3. IInv /\ [Next]_vars =>
          [main = "joining" /\ main' = "joining" =>
              \A t \in Threads : pc'[t] = pc[t] \/ Left(pc'[t]) < Left(pc[t])]_vars
    BY <1>2
<1> QED
    BY <1>1, <1>3, Invariance, PTL DEF Spec, JoinAdvances

\* A buffer whose stamp is not after the last one is flagged, unless the clock
\* was set back or the buffer that carried the flag was lost.
THEOREM FlaggedWhenLate == Spec => []DiscontinuityFlagged
<1>1. IInv => DiscontinuityFlagged
  <2> SUFFICES ASSUME IInv, back = 0, NEW i \in DOMAIN queue, queue[i].late
               PROVE  queue[i].flagged \/ queue[i].missed > 0
      BY DEF DiscontinuityFlagged
  <2>1. i \in 1 .. Len(queue)
      BY LenProperties DEF IInv, TypeOK
  <2> QED
      BY <2>1 DEF IInv, Flags
<1> QED
    BY <1>1, Invariance, PTL

\* sendFrame crashes through the uninitialised m_currentData, a surface that is too
\* small, a format description it did not get or the race on the callback.
THEOREM CrashSafe == Spec => []CrashExplained
BY Invariance, PTL DEF IInv, Survives

\* An undisturbed call goes through the callback that was tested, with its refCon.
THEOREM CallbackSafe == Spec => CallbackSound
<1> DEFINE Sound == \A t \in Threads :
                Call(t) /\ ~disturbed /\ main # "registering" => ~crashed' /\ intact'
<1>1. IInv /\ [Next]_vars => [Sound]_vars
  <2> SUFFICES ASSUME IInv, NEW t \in Threads, Call(t), ~disturbed, main # "registering"
               PROVE  ~crashed' /\ intact'
      OBVIOUS
  <2>1. tested = proc /\ refCon = proc /\ proc # NoProc
      BY DEF IInv, Callbacks, Call
  <2> QED
      BY <2>1 DEF Call
<1> QED
    BY <1>1, Invariance, PTL DEF Spec, CallbackSound

-----------------------------------------------------------------------------
(* The refinement: Stream implements Feed.                                 *)

\* An interval from one has one last element.
LEMMA SameInterval ==
    ASSUME NEW j \in Nat, NEW k \in Nat, 1 .. j = 1 .. k
    PROVE  j = k
<1>1. CASE j < k
  <2>1. k \in 1 .. k /\ k \notin 1 .. j
      BY <1>1
  <2> QED
      BY <2>1
<1>2. CASE k < j
  <2>1. j \in 1 .. j /\ j \notin 1 .. k
      BY <1>2
  <2> QED
      BY <2>1
<1> QED
    BY <1>1, <1>2

\* What Feed sees of a buffer.
Entries == [seq : 0 .. Modulus - 1, missed : Nat]
Entry(b) == [seq |-> b.seq, missed |-> b.missed]

\* The numbers of a queue are a sequence of the same length.
LEMMA NumbersType ==
    ASSUME NEW q \in Seq(Buffers)
    PROVE  /\ Numbers(q) \in Seq(Entries)
           /\ Len(Numbers(q)) = Len(q)
           /\ \A i \in 1 .. Len(q) : Numbers(q)[i] = Entry(q[i])
<1>1. Len(q) \in Nat /\ DOMAIN q = 1 .. Len(q) /\ \A i \in 1 .. Len(q) : q[i] \in Buffers
    BY LenProperties, ElementOfSeq
<1>2. Numbers(q) = [i \in 1 .. Len(q) |-> Entry(q[i])]
    BY <1>1 DEF Numbers, Entry
<1>3. \A i \in 1 .. Len(q) : Entry(q[i]) \in Entries
    BY <1>1 DEF Buffers, Entry, Entries
<1>4. Numbers(q) \in Seq(Entries)
  <2>1. Numbers(q) \in [1 .. Len(q) -> Entries]
      BY <1>2, <1>3
  <2> QED
      BY <1>1, <2>1, SeqDef
<1>5. Len(Numbers(q)) = Len(q)
  <2>1. Len(Numbers(q)) \in Nat /\ DOMAIN Numbers(q) = 1 .. Len(Numbers(q))
      BY <1>4, LenProperties
  <2>2. DOMAIN Numbers(q) = 1 .. Len(q)
      BY <1>2
  <2>3. 1 .. Len(Numbers(q)) = 1 .. Len(q)
      BY <2>1, <2>2
  <2> QED
      BY <1>1, <2>1, <2>3, SameInterval
<1> QED
    BY <1>2, <1>4, <1>5

\* Appending a buffer appends its number.
LEMMA NumbersAppend ==
    ASSUME NEW q \in Seq(Buffers), NEW b \in Buffers
    PROVE  Numbers(Append(q, b)) = Append(Numbers(q), Entry(b))
<1> DEFINE m == Numbers(Append(q, b))
           n == Append(Numbers(q), Entry(b))
<1>1. Append(q, b) \in Seq(Buffers) /\ Len(Append(q, b)) = Len(q) + 1 /\ Len(q) \in Nat
    BY AppendProperties, LenProperties
<1>2. Entry(b) \in Entries
    BY DEF Buffers, Entry, Entries
<1>3. m \in Seq(Entries) /\ Len(m) = Len(q) + 1
    BY <1>1, NumbersType
<1>4. n \in Seq(Entries) /\ Len(n) = Len(q) + 1
    BY <1>2, NumbersType, AppendProperties
<1>5. ASSUME NEW i \in 1 .. Len(q) + 1 PROVE m[i] = n[i]
  <2>1. m[i] = Entry(Append(q, b)[i])
      BY <1>1, NumbersType
  <2>2. CASE i = Len(q) + 1
      BY <1>2, <2>1, <2>2, NumbersType, AppendProperties
  <2>3. CASE i \in 1 .. Len(q)
      BY <1>2, <2>1, <2>3, NumbersType, AppendProperties
  <2>4. i = Len(q) + 1 \/ i \in 1 .. Len(q)
      BY <1>1
  <2> HIDE DEF m, n
  <2> QED
      BY <2>2, <2>3, <2>4
<1> HIDE DEF m, n
<1>6. m = n
    BY <1>3, <1>4, <1>5, SeqEqual
<1> QED
    BY <1>6 DEF m, n

\* Taking a buffer takes its number.
LEMMA NumbersTail ==
    ASSUME NEW q \in Seq(Buffers), q # << >>
    PROVE  Numbers(q) # << >> /\ Numbers(Tail(q)) = Tail(Numbers(q))
<1> DEFINE m == Numbers(Tail(q))
           n == Tail(Numbers(q))
<1>1. Tail(q) \in Seq(Buffers) /\ Len(Tail(q)) = Len(q) - 1 /\ Len(q) \in Nat /\ Len(q) # 0
    BY HeadTailProperties, LenProperties, EmptySeq
<1>2. Numbers(q) # << >>
    BY <1>1, NumbersType, EmptySeq
<1>3. m \in Seq(Entries) /\ Len(m) = Len(q) - 1
    BY <1>1, NumbersType
<1>4. n \in Seq(Entries) /\ Len(n) = Len(q) - 1
    BY <1>2, NumbersType, HeadTailProperties
<1>5. ASSUME NEW i \in 1 .. Len(q) - 1 PROVE m[i] = n[i]
  <2>1. m[i] = Entry(Tail(q)[i])
      BY <1>1, NumbersType
  <2>2. Tail(q)[i] = q[i + 1]
      BY <1>1, HeadTailProperties
  <2>3. n[i] = Numbers(q)[i + 1]
      BY <1>2, <1>4, NumbersType, HeadTailProperties
  <2>4. Numbers(q)[i + 1] = Entry(q[i + 1])
      BY <1>1, NumbersType
  <2> QED
      BY <2>1, <2>2, <2>3, <2>4
<1> HIDE DEF m, n
<1>6. m = n
    BY <1>3, <1>4, <1>5, SeqEqual
<1> QED
    BY <1>2, <1>6 DEF m, n

\* The initial states of Stream are initial states of Feed.
LEMMA FeedInit == Init => FeedOfStream!Init
<1> SUFFICES ASSUME Init PROVE FeedOfStream!Init
    OBVIOUS
<1>1. Alive = FALSE
    BY DEF Init, Alive
<1>2. Numbers(queue) = << >>
  <2>1. queue = << >> /\ queue \in Seq(Buffers) /\ Len(<< >>) = 0
      BY EmptySeq DEF Init
  <2>2. Numbers(queue) \in Seq(Entries) /\ Len(Numbers(queue)) = 0
      BY <2>1, NumbersType
  <2> QED
      BY <2>2, EmptySeq
<1>3. sequence = 0 /\ missed = 0
    BY DEF Init
<1> QED
    BY <1>1, <1>2, <1>3 DEF FeedOfStream!Init

\* Every step of Stream is a step of Feed or leaves it alone.
LEMMA FeedStep ==
    IInv /\ [Next]_vars => [FeedOfStream!Next]_<<Alive, sequence, missed, Numbers(queue)>>
<1> SUFFICES ASSUME IInv, [Next]_vars
             PROVE  FeedOfStream!Next \/ UNCHANGED <<Alive, sequence, missed, Numbers(queue)>>
    OBVIOUS
<1> USE DEF IInv
<1>1. CASE StartStream
  <2>1. ~Alive
      BY <1>1 DEF StartStream, MayStart, OneRenderer, Alive
  <2>2. Alive' = TRUE
      BY <1>1 DEF StartStream, Alive, TypeOK
  <2>3. sequence' = 0 /\ missed' = 0 /\ Numbers(queue)' = Numbers(queue)
      BY <1>1 DEF StartStream, Numbers
  <2> QED
      BY <2>1, <2>2, <2>3 DEF FeedOfStream!Next, FeedOfStream!Begin
<1>2. CASE Take
  <2>1. queue # << >> /\ queue \in Seq(Buffers) /\ queue' = Tail(queue)
      BY <1>2 DEF Take, TypeOK
  <2>2. Numbers(queue) # << >> /\ Numbers(queue)' = Tail(Numbers(queue))
      BY <2>1, NumbersTail
  <2>3. Alive' = Alive /\ sequence' = sequence /\ missed' = missed
      BY <1>2 DEF Take, Alive
  <2> QED
      BY <2>2, <2>3 DEF FeedOfStream!Next, FeedOfStream!Take
<1>3. ASSUME NEW t \in Threads, Enqueue(t)
      PROVE  FeedOfStream!Next
  <2> DEFINE b == [seq |-> sequence, missed |-> missed, flagged |-> resync, late |-> late]
  <2>1. queue \in Seq(Buffers) /\ b \in Buffers /\ Entry(b) = [seq |-> sequence, missed |-> missed]
      BY DEF TypeOK, Buffers, Entry
  <2>2. Len(queue) < Capacity
      BY <1>3 DEF Enqueue, Room
  <2>3. queue' = Append(queue, b) /\ sequence' = (sequence + 1) % Modulus /\ missed' = 0
      BY <1>3, <2>2 DEF Enqueue, Advance, NextSequence
  <2>4. Numbers(queue)' = Append(Numbers(queue), [seq |-> sequence, missed |-> missed])
      BY <2>1, <2>3, NumbersAppend
  <2>5. Len(Numbers(queue)) < Capacity
      BY <2>1, <2>2, NumbersType
  <2>6. Alive /\ Alive'
      BY <1>3 DEF Enqueue, Advance, Goto, Alive, TypeOK
  <2>7. Alive' = Alive
      BY <2>6 DEF Alive
  <2> QED
      BY <2>3, <2>4, <2>5, <2>6, <2>7 DEF FeedOfStream!Next, FeedOfStream!Emit, FeedOfStream!Number
<1>4. ASSUME NEW t \in Threads, Check(t)
      PROVE  FeedOfStream!Next \/ UNCHANGED <<Alive, sequence, missed, Numbers(queue)>>
  <2>1. sequence' = sequence /\ missed' = missed /\ Numbers(queue)' = Numbers(queue)
      BY <1>4 DEF Check, Numbers
  <2>2. Alive
      BY <1>4 DEF Check, Alive
  <2>3. \A u \in Threads : u # t => pc'[u] = "none"
      BY <1>4, Alone DEF RenderThread
  <2>4. CASE stopTimer
    <3>1. pc'[t] = "none"
        BY <1>4, <2>4 DEF Check, AskedToStop, Goto, TypeOK
    <3>2. Alive' = FALSE
        BY <2>3, <3>1 DEF Alive
    <3> QED
        BY <2>1, <2>2, <3>2 DEF FeedOfStream!Next, FeedOfStream!End
  <2>5. CASE ~stopTimer
    <3>1. pc'[t] = "lock"
        BY <1>4, <2>5 DEF Check, AskedToStop, Goto, TypeOK
    <3>2. Alive' = Alive
        BY <2>2, <3>1 DEF Alive
    <3> QED
        BY <2>1, <3>2
  <2> QED
      BY <2>4, <2>5
<1>5. ASSUME NEW t \in Threads, Lock(t) \/ Skip(t) \/ StampOnly(t) \/ Fill(t) \/ NoFormat(t) \/ Test(t) \/ Call(t)
      PROVE  UNCHANGED <<Alive, sequence, missed, Numbers(queue)>>
  <2>1. sequence' = sequence /\ missed' = missed /\ queue' = queue
      BY <1>5 DEF Lock, Skip, StampOnly, Fill, Stamp, NoFormat, Test, Call
  <2>2. pc[t] # "none" /\ pc'[t] # "none"
      BY <1>5 DEF Lock, Skip, StampOnly, Fill, Stamp, NoFormat, Test, Call, Goto, Return, TypeOK
  <2>3. Alive' = Alive
      BY <2>2 DEF Alive
  <2> QED
      BY <2>1, <2>3 DEF Numbers
<1>6. ASSUME NEW t \in Threads, Lose(t)
      PROVE  FeedOfStream!Next
  <2>1. queue' = queue /\ sequence' = (sequence + 1) % Modulus /\ missed' = missed + 1
      BY <1>6 DEF Lose, Advance, NextSequence
  <2>2. Alive /\ Alive'
      BY <1>6 DEF Lose, Advance, Goto, Alive, TypeOK
  <2>3. Alive' = Alive /\ Numbers(queue)' = Numbers(queue)
      BY <2>1, <2>2 DEF Alive, Numbers
  <2> QED
      BY <2>1, <2>2, <2>3 DEF FeedOfStream!Next, FeedOfStream!Lose, FeedOfStream!Number
<1>7. CASE UNCHANGED <<pc, sequence, missed, queue>>
    BY <1>7 DEF Alive, Numbers
<1> QED
    BY <1>1, <1>2, <1>3, <1>4, <1>5, <1>6, <1>7
       DEF Next, MainThread, RenderThread, Started, StopStream, StopIdle, WriteRunning, WriteRate, SignalStop, Joined, SetProc,
       SetRefCon, FrameReady, StoreFrame, Tick, StepBack

\* The application gets buffers without a gap but for those that could not be made, in
\* runs that do not overlap, through a queue that never overflows.
THEOREM ImplementsFeed == Spec => FeedSpec
BY FeedInit, FeedStep, Invariance, PTL DEF Spec, FeedSpec, FeedOfStream!Spec

=============================================================================
