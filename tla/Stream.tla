------------------------------- MODULE Stream -------------------------------
(***************************************************************************)
(* The stream of the CMIO device in a camera application: device.cpp       *)
(* (startStream, stopStream, frameReady) and stream.cpp.  Four parties run *)
(* concurrently:                                                           *)
(*   the CMIO thread     DeviceStartStream, DeviceStopStream and           *)
(*                       StreamCopyBufferQueue, one call after the other   *)
(*   the render thread   Stream::renderFrames, which start spawns and stop *)
(*                       joins                                             *)
(*   the XPC queue       Stream::frameReady                                *)
(*   the application     takes buffers from the queue                      *)
(* m_mutex covers sendFrame and the store of m_currentData, nothing else.  *)
(*                                                                         *)
(* Time.  sendFrame stamps a frame with the whole seconds of the wall      *)
(* clock counted as nanoseconds, so m_pts soon runs ahead of the clock and *)
(* is reset to it.  Only differences matter: m_pts and the stamp of the    *)
(* last buffer are kept relative to the clock, and a second that passes    *)
(* lowers both by one.                                                     *)
(***************************************************************************)
EXTENDS Integers, Sequences

CONSTANTS
    Threads,      \* std::thread objects, a finished one may be started again
    Capacity,     \* of the CMSimpleQueue: 30
    Durations,    \* 1/fps, in the unit a second of the clock adds to a stamp, for the
                  \* rates the application writes; 0 when that is no valid time
    Modulus,      \* 2^64, the width of m_sequence
    Procs,        \* the callbacks applications register
    MaxFailures,  \* bound: how often Core Video or Core Media fails to make an object
    MaxBack       \* bound: how often the wall clock is set back

ASSUME QueueAssumption == Capacity \in Nat \ {0} /\ Modulus \in Nat \ {0}
ASSUME TimeAssumption == Durations \subseteq Nat /\ MaxBack \in Nat /\ MaxFailures \in Nat
ASSUME ThreadAssumption == Threads # {}

NoProc == "nullptr"
ASSUME ProcAssumption == NoProc \notin Procs

VARIABLES
    \* the stream and its device
    isRunning,   \* kCMIODevicePropertyDeviceIsRunning
    defined,     \* the device has that property
    duration,    \* 1/fps of kCMIOStreamPropertyFrameRate
    running,     \* m_running
    stopTimer,   \* stop_timer
    timer,       \* the thread timer points to
    current,     \* m_currentData: "null", "wild" when never written, "frame", or "short":
                 \* a surface sendFrame may read past the end of
    sequence,    \* m_sequence
    lead,        \* m_pts minus the clock, Invalid when m_pts is zeroed
    queue,       \* m_queue
    proc,        \* m_queueAltered
    refCon,      \* m_queueAlteredRefCon, named by the callback it belongs to
    \* the threads
    main,        \* the CMIO thread
    xpc,         \* the XPC queue
    pc,          \* the render threads
    data,        \* sendFrame's parameter
    resync, gap, \* sendFrame's locals: the flag, 1/fps
    tested,      \* the callback sendFrame has found not to be null
    \* environment and history
    failures, back,
    missed,      \* the buffers that could not be made since the last one
    lastLead,    \* the stamp of the last buffer minus the clock
    late,        \* m_pts is not after the stamp of the last buffer
    intact,      \* this pass called a callback, if any, with its own refCon
    disturbed,   \* copyBufferQueue wrote in this pass after the test of the callback
    noFormat,    \* sendFrame released the format description it did not get
    crashed      \* the process is gone

deviceVars  == <<isRunning, defined, duration, running, stopTimer, timer>>
stampVars   == <<lead, lastLead, late, missed>>
proxyVars   == <<proc, refCon>>
callVars    == <<tested, intact, disturbed>>
threadVars  == <<main, xpc, pc, data, resync, gap>>
envVars     == <<failures, back, noFormat, crashed>>
vars == <<deviceVars, current, sequence, stampVars, queue, proxyVars, callVars, threadVars, envVars>>

Floor   == -(MaxBack + 1)  \* as far behind the clock as a stamp is followed
Invalid == Floor - 1

Init ==
    /\ isRunning = FALSE /\ defined = FALSE /\ running = FALSE /\ stopTimer = FALSE
    /\ duration \in Durations \ {0}
    /\ timer \in Threads
    /\ current \in {"null", "wild"}
    /\ sequence = 0 /\ queue = <<>>
    /\ lead = Invalid /\ lastLead = Floor /\ late = FALSE /\ missed = 0
    /\ proc = NoProc /\ refCon = NoProc
    /\ tested = NoProc /\ intact = TRUE /\ disturbed = FALSE
    /\ main = "idle" /\ xpc = "idle" /\ pc = [t \in Threads |-> "none"]
    /\ data = "null" /\ resync = FALSE /\ gap = 0
    /\ failures = 0 /\ back = 0 /\ noFormat = FALSE /\ crashed = FALSE

-----------------------------------------------------------------------------
(* The CMIO thread.                                                        *)

\* mutant: start relies on the property alone
FlagOnly == ~isRunning

\* Stream::start up to the new thread; refused by Device::startStream while
\* the property is set and by Stream::start while m_running is.
MayStart == ~isRunning /\ ~running

StartStream ==
    /\ main = "idle" /\ MayStart
    /\ sequence' = 0
    /\ lead' = Invalid /\ late' = FALSE /\ missed' = 0
    /\ stopTimer' = FALSE
    /\ \E t \in Threads : /\ pc[t] = "none"
                          /\ pc' = [pc EXCEPT ![t] = "check"]
                          /\ timer' = t
    /\ main' = "starting"
    /\ UNCHANGED <<isRunning, defined, duration, running, current, lastLead, queue, proxyVars, callVars,
                   xpc, data, resync, gap, envVars>>

\* m_running takes the result of startTimer, the device is running
Started ==
    /\ main = "starting"
    /\ running' = TRUE /\ isRunning' = TRUE /\ defined' = TRUE
    /\ main' = "idle"
    /\ UNCHANGED <<duration, stopTimer, timer, current, sequence, stampVars, queue, proxyVars, callVars,
                   xpc, pc, data, resync, gap, envVars>>

StopStream ==
    /\ main = "idle" /\ isRunning /\ running
    /\ running' = FALSE
    /\ main' = "stopping"
    /\ UNCHANGED <<isRunning, defined, duration, stopTimer, timer, current, sequence, stampVars, queue,
                   proxyVars, callVars, xpc, pc, data, resync, gap, envVars>>

\* Stream::stop finds nothing to stop, the device clears its property
StopIdle ==
    /\ main = "idle" /\ isRunning /\ ~running
    /\ isRunning' = FALSE
    /\ UNCHANGED <<defined, duration, running, stopTimer, timer, current, sequence, stampVars, queue,
                   proxyVars, callVars, threadVars, envVars>>

\* ObjectSetPropertyData: the application may write the property, which
\* setProperty has made settable, once it exists.
WriteRunning ==
    /\ main = "idle" /\ defined
    /\ isRunning' \in BOOLEAN
    /\ UNCHANGED <<defined, duration, running, stopTimer, timer, current, sequence, stampVars, queue,
                   proxyVars, callVars, threadVars, envVars>>

\* The same for kCMIOStreamPropertyFrameRate
WriteRate ==
    /\ main = "idle"
    /\ duration' \in Durations
    /\ UNCHANGED <<isRunning, defined, running, stopTimer, timer, current, sequence, stampVars,
                   queue, proxyVars, callVars, threadVars, envVars>>

SignalStop ==
    /\ main = "stopping"
    /\ stopTimer' = TRUE
    /\ main' = "joining"
    /\ UNCHANGED <<isRunning, defined, duration, running, timer, current, sequence, stampVars, queue,
                   proxyVars, callVars, xpc, pc, data, resync, gap, envVars>>

Finished(t) == pc[t] = "none"

\* timer->join(), then the property
Joined ==
    /\ main = "joining" /\ Finished(timer)
    /\ isRunning' = FALSE
    /\ main' = "idle"
    /\ UNCHANGED <<defined, duration, running, stopTimer, timer, current, sequence, stampVars, queue,
                   proxyVars, callVars, xpc, pc, data, resync, gap, envVars>>

\* sendFrame is between its test of m_queueAltered and the call
Calling == \E t \in Threads : pc[t] = "call"

\* copyBufferQueue: two plain stores
SetProc(p) ==
    /\ main = "idle"
    /\ proc' = p
    /\ disturbed' = (disturbed \/ Calling)
    /\ main' = "registering"
    /\ UNCHANGED <<deviceVars, current, sequence, stampVars, queue, refCon, tested, intact,
                   xpc, pc, data, resync, gap, envVars>>

SetRefCon ==
    /\ main = "registering"
    /\ refCon' = proc
    /\ disturbed' = (disturbed \/ Calling)
    /\ main' = "idle"
    /\ UNCHANGED <<deviceVars, current, sequence, stampVars, queue, proc, tested, intact,
                   xpc, pc, data, resync, gap, envVars>>

-----------------------------------------------------------------------------
(* The XPC queue and the application.                                      *)

Locked == \E t \in Threads : pc[t] \in {"stamp", "enqueue", "test", "call"}

\* frameReady looks at m_running without the lock
FrameReady ==
    /\ xpc = "idle" /\ running
    /\ xpc' = "waiting"
    /\ UNCHANGED <<deviceVars, current, sequence, stampVars, queue, proxyVars, callVars,
                   main, pc, data, resync, gap, envVars>>

\* m_mutex.lock(), m_currentData = data, m_mutex.unlock().  The surface has the size
\* of the output that sent it.  The device keeps the format of the output it was
\* created for, and every output's frames go to it: they share one device id.
StoreFrame ==
    /\ xpc = "waiting" /\ ~Locked
    /\ current' \in {"frame", "short"}
    /\ xpc' = "idle"
    /\ UNCHANGED <<deviceVars, sequence, stampVars, queue, proxyVars, callVars,
                   main, pc, data, resync, gap, envVars>>

\* the application dequeues
Take ==
    /\ queue # <<>>
    /\ queue' = Tail(queue)
    /\ UNCHANGED <<deviceVars, current, sequence, stampVars, proxyVars, callVars, threadVars, envVars>>

-----------------------------------------------------------------------------
(* The render thread.                                                      *)

Goto(t, l) == pc' = [pc EXCEPT ![t] = l]

\* mutant: the mutex is locked around the loop of renderFrames
ReturnLocked(t) ==
    /\ Goto(t, "stamp")
    /\ data' = "null" /\ resync' = FALSE /\ gap' = 0 /\ tested' = NoProc

\* sendFrame returns, its locals are gone and the mutex is unlocked
Return(t) ==
    /\ Goto(t, "check")
    /\ data' = "null" /\ resync' = FALSE /\ gap' = 0 /\ tested' = NoProc

\* mutant: renderFrames loops for ever
NeverAsked == FALSE

AskedToStop == stopTimer

\* while (!stop_timer)
Check(t) ==
    /\ pc[t] = "check"
    /\ Goto(t, IF AskedToStop THEN "none" ELSE "lock")
    /\ intact' = TRUE /\ disturbed' = FALSE
    /\ UNCHANGED <<deviceVars, current, sequence, stampVars, queue, proxyVars, tested,
                   main, xpc, data, resync, gap, envVars>>

Lock(t) ==
    /\ pc[t] = "lock" /\ ~Locked
    /\ data' = current
    /\ Goto(t, "stamp")
    /\ UNCHANGED <<deviceVars, current, sequence, stampVars, queue, proxyVars, callVars,
                   main, xpc, resync, gap, envVars>>

\* mutant: the queue is never found full
NeverFull == FALSE

Full == Len(queue) >= Capacity

\* mutant: the early return on equal stamps is gone
NeverSameStamp == FALSE

\* mutant: CMTimeCompare(...) <= 0
NotAhead == lead <= 0

SameStamp == lead = 0

\* mutant: a stamp ahead of the clock is left alone
OnlyWhenBehind(r) == IF lead < 0 THEN r ELSE duration = 0 \/ ~r

\* m_pts is invalid or behind, or ptsDiff > 2/fps: either way when the rounded
\* numbers are equal or the rate is none
MayResync(r) ==
    IF lead < 0 THEN r
    ELSE \/ duration = 0 \/ lead = 2 * duration
         \/ r = (lead > 2 * duration)

\* the early returns: nothing is touched
Skip(t) ==
    /\ pc[t] = "stamp"
    /\ Full \/ SameStamp
    /\ Return(t)
    /\ UNCHANGED <<deviceVars, current, sequence, stampVars, queue, proxyVars, intact, disturbed,
                   main, xpc, envVars>>

\* m_pts is reset when need be
Stamp(r) ==
    /\ MayResync(r)
    /\ lead' = IF r THEN 0 ELSE lead
    /\ late' = IF r THEN lastLead >= 0 ELSE late
    /\ UNCHANGED <<lastLead, missed>>

\* no image, or no data to fill it with: sendFrame returns, m_pts stays reset
StampOnly(t) ==
    /\ pc[t] = "stamp" /\ ~Full /\ ~SameStamp
    /\ \E r \in BOOLEAN : Stamp(r)
    /\ \/ failures < MaxFailures /\ failures' = failures + 1
       \/ data = "null" /\ UNCHANGED failures
    /\ Return(t)
    /\ UNCHANGED <<deviceVars, current, sequence, queue, proxyVars, intact, disturbed,
                   main, xpc, back, noFormat, crashed>>

\* The copy reads through m_currentData as much as the device's format holds, whatever
\* is there and however large that surface is.
Fill(t) ==
    /\ pc[t] = "stamp" /\ ~Full /\ ~SameStamp
    /\ \E r \in BOOLEAN : Stamp(r) /\ resync' = r
    /\ gap' = duration
    /\ data # "null"
    /\ crashed' \in BOOLEAN /\ (crashed' => data \in {"wild", "short"})
    /\ Goto(t, "enqueue")
    /\ UNCHANGED <<deviceVars, current, sequence, queue, proxyVars, callVars,
                   main, xpc, data, failures, back, noFormat>>

\* CFRelease(format) when there is none: the process is gone
NoFormat(t) ==
    /\ pc[t] = "enqueue" /\ failures < MaxFailures
    /\ failures' = failures + 1
    /\ noFormat' = TRUE /\ crashed' = TRUE
    /\ UNCHANGED <<deviceVars, current, sequence, stampVars, queue, proxyVars, callVars, threadVars, back>>

NextSequence(i) == (i + 1) % Modulus

\* m_pts and m_sequence go on, whether or not there is a buffer
Advance(t) ==
    /\ lead' = IF gap = 0 THEN Invalid ELSE lead + gap
    /\ sequence' = NextSequence(sequence)
    /\ resync' = FALSE /\ gap' = 0
    /\ Goto(t, "test")
    /\ UNCHANGED <<deviceVars, current, proxyVars, callVars, main, xpc, data, back, noFormat, crashed>>

\* CMSimpleQueueEnqueue, whose error nobody looks at
Enqueue(t) ==
    /\ pc[t] = "enqueue"
    /\ queue' = IF Len(queue) < Capacity
                THEN Append(queue, [seq |-> sequence, missed |-> missed, flagged |-> resync, late |-> late])
                ELSE queue
    /\ lastLead' = lead /\ late' = FALSE /\ missed' = 0
    /\ Advance(t)
    /\ UNCHANGED failures

\* No sample buffer was made and nobody looked: the null pointer is not enqueued
Lose(t) ==
    /\ pc[t] = "enqueue" /\ failures < MaxFailures
    /\ failures' = failures + 1
    /\ missed' = missed + 1
    /\ late' = (late /\ gap # 0 /\ lead + gap <= lastLead)
    /\ Advance(t)
    /\ UNCHANGED <<queue, lastLead>>

\* mutant: the callback is called without a test
Unchecked(p) == TRUE

NotNull(p) == p # NoProc

\* if (this->m_queueAltered)
Test(t) ==
    /\ pc[t] = "test"
    /\ IF NotNull(proc)
       THEN Goto(t, "call") /\ tested' = proc /\ UNCHANGED <<data, resync, gap>>
       ELSE Return(t)
    /\ UNCHANGED <<deviceVars, current, sequence, stampVars, queue, proxyVars, intact, disturbed,
                   main, xpc, envVars>>

\* the call reads both members again, or uses the pointer it has tested
Call(t) ==
    /\ pc[t] = "call"
    /\ \E p \in {tested, proc} :
          /\ intact' = (p = refCon)
          /\ crashed' = (p = NoProc)
    /\ Return(t)
    /\ UNCHANGED <<deviceVars, current, sequence, stampVars, queue, proxyVars, disturbed,
                   main, xpc, failures, back, noFormat>>

-----------------------------------------------------------------------------
(* The wall clock.                                                         *)

Shift(l, by) == IF l = Invalid THEN l ELSE IF l + by < Floor THEN Floor ELSE l + by

Tick ==
    /\ lead' = Shift(lead, -1) /\ lastLead' = Shift(lastLead, -1)
    /\ UNCHANGED <<deviceVars, current, sequence, late, missed, queue, proxyVars, callVars, threadVars, envVars>>

StepBack ==
    /\ back < MaxBack
    /\ back' = back + 1
    /\ lead' = Shift(lead, 1) /\ lastLead' = Shift(lastLead, 1)
    /\ UNCHANGED <<deviceVars, current, sequence, late, missed, queue, proxyVars, callVars, threadVars,
                   failures, noFormat, crashed>>

-----------------------------------------------------------------------------
MainThread == StartStream \/ Started \/ StopStream \/ StopIdle \/ WriteRunning \/ WriteRate
                \/ SignalStop \/ Joined \/ SetRefCon
                \/ \E p \in Procs \cup {NoProc} : SetProc(p)
RenderThread(t) == Check(t) \/ Lock(t) \/ Skip(t) \/ StampOnly(t) \/ Fill(t)
                     \/ NoFormat(t) \/ Enqueue(t) \/ Lose(t) \/ Test(t) \/ Call(t)

Next ==
    /\ ~crashed
    /\ \/ MainThread \/ FrameReady \/ StoreFrame \/ Take \/ Tick \/ StepBack
       \/ \E t \in Threads : RenderThread(t)

Spec == Init /\ [][Next]_vars

\* The threads run; a call the CMIO thread has begun goes on; the XPC queue gets
\* the mutex while the render thread sleeps; time passes; the application takes
\* what it is told of.  Nobody has to start a stream, stop it or send frames.
CallGoesOn == ~crashed /\ (Started \/ SignalStop \/ Joined \/ SetRefCon)
Renders(t) == ~crashed /\ RenderThread(t)

Fairness ==
    /\ WF_vars(CallGoesOn)
    /\ \A t \in Threads : WF_vars(Renders(t))
    /\ SF_vars(~crashed /\ StoreFrame)
    /\ WF_vars(~crashed /\ Take)
    /\ WF_vars(~crashed /\ Tick)

FairSpec == Spec /\ Fairness

-----------------------------------------------------------------------------
(* Properties                                                              *)

Labels  == {"none", "check", "lock", "stamp", "enqueue", "test", "call"}
Pointers == {"null", "wild", "frame", "short"}
Buffers == [seq : 0 .. Modulus - 1, missed : Nat, flagged : BOOLEAN, late : BOOLEAN]

\* Every variable has its type.
TypeOK ==
    /\ isRunning \in BOOLEAN /\ defined \in BOOLEAN /\ running \in BOOLEAN /\ stopTimer \in BOOLEAN
    /\ timer \in Threads /\ duration \in Durations /\ gap \in Durations \cup {0}
    /\ current \in Pointers /\ data \in Pointers
    /\ sequence \in 0 .. Modulus - 1
    /\ lead \in Int /\ lastLead \in Int /\ late \in BOOLEAN /\ missed \in Nat
    /\ queue \in Seq(Buffers)
    /\ proc \in Procs \cup {NoProc} /\ refCon \in Procs \cup {NoProc} /\ tested \in Procs \cup {NoProc}
    /\ intact \in BOOLEAN
    /\ main \in {"idle", "starting", "stopping", "joining", "registering"}
    /\ xpc \in {"idle", "waiting"}
    /\ pc \in [Threads -> Labels]
    /\ resync \in BOOLEAN /\ disturbed \in BOOLEAN /\ noFormat \in BOOLEAN /\ crashed \in BOOLEAN
    /\ failures \in 0 .. MaxFailures /\ back \in 0 .. MaxBack

\* There is one render thread at most, the one stop would join, and none when
\* the stream is stopped and no call is under way, whatever the application
\* writes to the device's property.
OneRenderer ==
    \A t \in Threads : pc[t] # "none" =>
        /\ t = timer
        /\ running \/ main \in {"starting", "stopping", "joining"}

Alive == \E t \in Threads : pc[t] # "none"
Numbers(q) == [i \in DOMAIN q |-> [seq |-> q[i].seq, missed |-> q[i].missed]]

\* The application gets buffers numbered from zero in each run, one number after the
\* other but for those of buffers that could not be made, in runs that do not
\* overlap, through a queue that never overflows.
FeedOfStream ==
    INSTANCE Feed WITH live <- Alive, next <- sequence, fifo <- Numbers(queue)

FeedSpec == FeedOfStream!Spec

\* A buffer whose stamp is not after the stamp of the buffer before it carries
\* the discontinuity flag, whatever rate the application writes, as long as the
\* wall clock is never set back; the flag is lost only with a buffer that could not
\* be made, the one that carried it.
DiscontinuityFlagged ==
    back = 0 => \A i \in DOMAIN queue :
                   queue[i].late => queue[i].flagged \/ queue[i].missed > 0

\* m_pts never runs away from the clock it is not counted in: it is three frames
\* ahead at most, at a rate the application may write, however the rate changes
\* between the frames, and further only by what the wall clock was set back.
StampsNearClock == \E d \in Durations : lead <= 3 * d + back

\* A callback is called with the refCon it was registered with, and never
\* through a null pointer, unless copyBufferQueue ran between test and call or
\* is half done.
CallbackSound ==
    [][\A t \in Threads :
          Call(t) /\ ~disturbed /\ main # "registering"
            => ~crashed' /\ intact']_vars

\* sendFrame brings the process down in four ways: it renders before a frame ever came,
\* through the uninitialised m_currentData; it copies more than the surface holds;
\* it gets no format description; it loses the race on the callback.
CrashExplained ==
    crashed => current \in {"wild", "short"} \/ noFormat \/ disturbed

\* stopStream returns: the join ends.
StopReturns == (main \in {"stopping", "joining"}) ~> (main = "idle" \/ crashed)

\* A frame that passed the test of m_running gets stored.
FrameStored == (xpc = "waiting") ~> (xpc = "idle" \/ crashed)

\* Once a frame has come a running stream goes on enqueuing buffers.
KeepsSending ==
    (running /\ current \in {"frame", "short"})
      ~> (crashed \/ ~running \/ \E t \in Threads : pc[t] = "test" /\ missed = 0)

=============================================================================
