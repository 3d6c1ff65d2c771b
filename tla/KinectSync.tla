----------------------------- MODULE KinectSync -----------------------------
(***************************************************************************)
(* libfreenect_sync.c: blocking calls on top of libfreenect's callbacks.   *)
(* One runloop thread calls freenect_process_events inside runloop_lock;   *)
(* the frame callbacks it makes there rotate the three buffers of a ring.  *)
(* Clients change formats, tilt the device and so on inside runloop_lock   *)
(* too, announcing themselves in pending_runloop_tasks so that the runloop *)
(* lets them in, and wait for frames on the ring's condition variable.     *)
(*                                                                         *)
(* One device is modelled (kinects[0]); an action is a stretch of code up  *)
(* to the next lock, wait or join.  A lock taken and released within a     *)
(* stretch is only required to be free.                                    *)
(***************************************************************************)
EXTENDS Naturals, FiniteSets

CONSTANTS Clients,      \* the threads that call freenect_sync_*
          Loops,        \* the runloop threads init_thread may start (a bound)
          Nobody,       \* no thread
          VideoFormats, DepthFormats,
          BadFormat,    \* a format no alloc_buffer_ring_* knows
          Depth11,      \* FREENECT_DEPTH_11BIT, what a control call sets up
          Calls,        \* the functions clients call: subset of AllCalls
          Faults,       \* what can go wrong: subset of {"open", "events"}
          MaxCalls      \* bound on the calls clients make altogether

AllCalls == {"setup", "video", "depth", "both", "control", "stop"}

ASSUME FormatsAssumption == Depth11 \in DepthFormats \ {BadFormat}
ASSUME CallsAssumption == Calls \subseteq AllCalls
ASSUME FaultsAssumption == Faults \subseteq {"open", "events"}
ASSUME MaxCallsAssumption == MaxCalls \in Nat
ASSUME ThreadsAssumption == /\ Clients \cap Loops = {}
                            /\ Nobody \notin Clients \cup Loops
                            /\ IsFiniteSet(Clients)

Streams == {"video", "depth"}
Formats == [video |-> VideoFormats, depth |-> DepthFormats]
NoFormat == "-1"
Threads == Clients \cup Loops

VARIABLES runloopLock,    \* who has runloop_lock
          tasks,          \* pending_runloop_tasks
          threadRunning,  \* thread_running
          thread,         \* the pthread the last init_thread started
          context,        \* is ctx initialized?
          opened,         \* kinects[0] # NULL
          ring,           \* kinects[0]->video and ->depth
          stream,         \* the device's side: is it streaming, into what?
          waiting,        \* the clients asleep on each ring's cb_cond
          pc, call, made, \* where each thread is, in which call, how many so far
          out,            \* the buffer the last get returned, until the next
          process         \* has the program crashed?

loopVars == <<threadRunning, thread, context>>
ringVars == <<opened, ring, stream, waiting>>
vars == <<runloopLock, tasks, loopVars, ringVars, pc, call, made, out, process>>

\* The three buffers of a ring are 1, 2, 3 when they are allocated; bufs[1] is
\* the client's (bufs[0] in C), bufs[2] the newest frame's, bufs[3] the
\* device's.
NoBuffers == [i \in 1 .. 3 |-> 0]
NewBuffers == [i \in 1 .. 3 |-> i]
FreeRing == [lock |-> Nobody, bufs |-> NoBuffers, valid |-> FALSE, fmt |-> NoFormat]
StreamOff == [on |-> FALSE, buf |-> 0]

\* A client in one of these is between the first lock and the last unlock of a
\* ring; it is "lost" when the ring is freed under it.
Waits == {"take_asleep", "both_depth_asleep", "both_video", "both_video_asleep"}

ClientLabels == Waits \cup
                {"idle", "setup_inc", "setup_lock", "setup", "setup_ring",
                 "setup_dec", "fail_dec", "join", "take", "both_depth", "lost",
                 "enter_inc", "enter_lock", "control", "exit_dec"}
LoopLabels == {"unborn", "zero", "zero_asleep", "relock", "events",
               "video", "depth", "exited"}   \* "video": in the video callback

\* Where a thread changes the device or lets libfreenect do so.
InsideLabels == {"setup", "setup_ring", "control", "events", "video", "depth"}

TypeOK ==
  /\ runloopLock \in Threads \cup {Nobody}
  /\ tasks \in Nat
  /\ threadRunning \in BOOLEAN
  /\ thread \in Loops \cup {Nobody}
  /\ context \in {"none", "live", "shut"}
  /\ opened \in BOOLEAN
  /\ \A s \in Streams :
       /\ ring[s].lock \in Threads \cup {Nobody}
       /\ ring[s].bufs \in [1 .. 3 -> 0 .. 3]
       /\ ring[s].valid \in BOOLEAN
       /\ ring[s].fmt \in Formats[s] \cup {NoFormat}
       /\ stream[s].on \in BOOLEAN /\ stream[s].buf \in 0 .. 3
       /\ waiting[s] \subseteq Clients
       /\ out[s] \in 0 .. 3
  /\ \A c \in Clients : pc[c] \in ClientLabels
  /\ made \in 0 .. MaxCalls
  /\ \A l \in Loops : pc[l] \in LoopLabels
  /\ process \in {"up", "crashed"}

\* A call: its function, the formats it wants, the setup_kinect it is in (a
\* stream) and whether that one started the runloop.
NoCall == [fun |-> "none", fmt |-> [s \in Streams |-> NoFormat],
           target |-> "depth", started |-> FALSE]

Init == /\ runloopLock = Nobody
        /\ tasks = 0
        /\ threadRunning = FALSE
        /\ thread = Nobody
        /\ context = "none"
        /\ opened = FALSE
        /\ ring = [s \in Streams |-> FreeRing]
        /\ stream = [s \in Streams |-> StreamOff]
        /\ waiting = [s \in Streams |-> {}]
        /\ pc = [t \in Threads |-> IF t \in Loops THEN "unborn" ELSE "idle"]
        /\ call = [c \in Clients |-> NoCall]
        /\ made = 0
        /\ out = [s \in Streams |-> 0]
        /\ process = "up"

Goto(t, from, to) == /\ process = "up"
                     /\ pc[t] = from
                     /\ pc' = [pc EXCEPT ![t] = to]

-----------------------------------------------------------------------------
\* Calls.  freenect_sync_stop is only called by the Lua thread that makes every
\* other call (kinect.c:281-296), so never during one of them.

Stopping == \E d \in Clients : pc[d] = "join" /\ call[d].fun = "stop"

Calling(c, fun) == /\ fun \in Calls
                   /\ made < MaxCalls
                   /\ ~Stopping
                   /\ made' = made + 1

\* The unlocked test in front of setup_kinect.
Ready(s, f) == threadRunning /\ opened /\ ring[s].fmt = f

CallGet(c, s, f) ==
  /\ Calling(c, s)
  /\ Goto(c, "idle", IF Ready(s, f) THEN "take" ELSE "setup_inc")
  /\ call' = [call EXCEPT ![c] = [NoCall EXCEPT !.fun = s, !.fmt[s] = f, !.target = s]]
  /\ out' = [out EXCEPT ![s] = 0]
  /\ UNCHANGED <<runloopLock, tasks, loopVars, ringVars, process>>

CallBoth(c, d, v) ==
  /\ Calling(c, "both")
  /\ Goto(c, "idle", IF Ready("depth", d) /\ Ready("video", v)
                     THEN "both_depth" ELSE "setup_inc")
  /\ call' = [call EXCEPT ![c] = [NoCall EXCEPT !.fun = "both",
                                               !.fmt = [depth |-> d, video |-> v]]]
  /\ out' = [s \in Streams |-> 0]
  /\ UNCHANGED <<runloopLock, tasks, loopVars, ringVars, process>>

\* wrap_setup_kinect, which kinect.c calls to open a device.
CallSetup(c, v) ==
  /\ Calling(c, "setup")
  /\ Goto(c, "idle", "setup_inc")
  /\ call' = [call EXCEPT ![c] = [NoCall EXCEPT !.fun = "setup", !.fmt.video = v,
                                               !.target = "video"]]
  /\ UNCHANGED <<runloopLock, tasks, loopVars, ringVars, out, process>>

CallControl(c) ==
  /\ Calling(c, "control")
  /\ Goto(c, "idle", IF threadRunning /\ opened THEN "enter_inc" ELSE "setup_inc")
  /\ call' = [call EXCEPT ![c] = [NoCall EXCEPT !.fun = "control", !.fmt.depth = Depth11]]
  /\ UNCHANGED <<runloopLock, tasks, loopVars, ringVars, out, process>>

CallStop(c) ==
  /\ Calling(c, "stop")
  /\ \A d \in Clients \ {c} : pc[d] = "idle"
  /\ Goto(c, "idle", IF threadRunning THEN "join" ELSE "idle")
  /\ call' = [call EXCEPT ![c] = [NoCall EXCEPT !.fun = "stop"]]
  /\ threadRunning' = FALSE
  /\ out' = [s \in Streams |-> 0]
  /\ UNCHANGED <<runloopLock, tasks, thread, context, ringVars, process>>

Returns(c) == /\ pc' = [pc EXCEPT ![c] = "idle"]
              /\ call' = [call EXCEPT ![c] = NoCall]

\* pthread_join of whatever `thread' names by now.
Join(c) == /\ process = "up" /\ pc[c] = "join"
           /\ thread \in Loops /\ pc[thread] = "exited"
           /\ Returns(c)
           /\ UNCHANGED <<runloopLock, tasks, loopVars, ringVars, made, out, process>>

-----------------------------------------------------------------------------
\* pending_runloop_tasks, and the locks of runloop tasks

TasksInc(c, from, to) ==
  /\ Goto(c, from, to)
  /\ tasks' = tasks + 1
  /\ UNCHANGED <<runloopLock, loopVars, ringVars, call, made, out, process>>

\* The count that reaches zero signals the runloop.
TasksDec(c, from, to) ==
  /\ process = "up" /\ pc[c] = from
  /\ tasks' = tasks - 1
  /\ LET asleep == {l \in Loops : pc[l] = "zero_asleep"} IN
       IF tasks = 1 /\ asleep # {}
         THEN \E l \in asleep : pc' = [pc EXCEPT ![c] = to, ![l] = "zero"]
         ELSE pc' = [pc EXCEPT ![c] = to]
  /\ UNCHANGED <<runloopLock, loopVars, ringVars, made, out, process>>

LockRunloop(c, from, to) ==
  /\ Goto(c, from, to)
  /\ runloopLock = Nobody
  /\ runloopLock' = c
  /\ UNCHANGED <<tasks, loopVars, ringVars, call, made, out, process>>

-----------------------------------------------------------------------------
\* setup_kinect(index, fmt, is_depth); is_depth is call.target = "depth"

SetupInc(c) == TasksInc(c, "setup_inc", "setup_lock")
SetupLock(c) == LockRunloop(c, "setup_lock", "setup")

\* init_thread, if the runloop is not running.
StartRunloop(c, to) ==
  IF threadRunning
    THEN pc' = [pc EXCEPT ![c] = to] /\ UNCHANGED <<thread, context>>
    ELSE \E l \in {k \in Loops : pc[k] \in {"unborn", "exited"}} :
           /\ pc' = [pc EXCEPT ![c] = to, ![l] = "zero"]
           /\ thread' = l
           /\ context' = "live"

\* ctx was shut down by a runloop that went away on its own.
ContextGone == threadRunning /\ context = "shut"

\* alloc_kinect leaves both rings without a format.  freenect_open_device finds
\* no device through a context that was shut down.
SetupOpen(c) == /\ process = "up" /\ pc[c] = "setup"
                /\ opened \/ ~ContextGone
                /\ StartRunloop(c, "setup_ring")
                /\ threadRunning' = TRUE
                /\ opened' = TRUE
                /\ IF opened THEN UNCHANGED <<ring, stream>>
                   ELSE /\ ring' = [s \in Streams |-> FreeRing]
                        /\ stream' = [s \in Streams |-> StreamOff]
                /\ UNCHANGED <<runloopLock, tasks, waiting, call, made, out, process>>

\* A runloop started for this call is told to stop again.
SetupFails(c) == /\ process = "up" /\ pc[c] = "setup"
                 /\ ~opened /\ ("open" \in Faults \/ ContextGone)
                 /\ StartRunloop(c, "fail_dec")
                 /\ call' = [call EXCEPT ![c].started = ~threadRunning]
                 /\ runloopLock' = Nobody
                 /\ UNCHANGED <<threadRunning, tasks, ringVars, made, out, process>>

\* ... or that context, freed by then, is touched with what it holds now.
SetupCrashes(c) == /\ process = "up" /\ pc[c] = "setup"
                   /\ ~opened /\ ContextGone
                   /\ process' = "crashed"
                   /\ UNCHANGED <<runloopLock, tasks, loopVars, ringVars, pc, call, made, out>>

\* Seeded fault: the runloop just started is not joined.
SetupFailedNoJoin(c) == /\ TasksDec(c, "fail_dec", "idle")
                        /\ call' = [call EXCEPT ![c] = NoCall]

SetupFailed(c) == /\ TasksDec(c, "fail_dec", IF call[c].started THEN "join" ELSE "idle")
                  /\ call' = [call EXCEPT ![c] = NoCall]

\* Seeded fault: the stream is restarted into the second buffer.
ChangeFormatMiddle(s, f) ==
  IF f = BadFormat
    THEN /\ ring' = [ring EXCEPT ![s] = FreeRing]
         /\ stream' = [stream EXCEPT ![s] = StreamOff]
    ELSE /\ ring' = [ring EXCEPT ![s] = [FreeRing EXCEPT !.bufs = NewBuffers, !.fmt = f]]
         /\ stream' = [stream EXCEPT ![s] = [on |-> TRUE, buf |-> 2]]

\* change_*_format stops the stream, replaces the buffers and restarts the
\* stream into the third; for a format it does not know it stops half way, and
\* setup_kinect does not look.
ChangeFormat(s, f) ==
  IF f = BadFormat
    THEN /\ ring' = [ring EXCEPT ![s] = FreeRing]
         /\ stream' = [stream EXCEPT ![s] = StreamOff]
    ELSE /\ ring' = [ring EXCEPT ![s] = [FreeRing EXCEPT !.bufs = NewBuffers, !.fmt = f]]
         /\ stream' = [stream EXCEPT ![s] = [on |-> TRUE, buf |-> 3]]

SetupRing(c) ==
  LET s == call[c].target
      f == call[c].fmt[s]
  IN /\ Goto(c, "setup_ring", "setup_dec")
     /\ ring[s].lock = Nobody
     /\ IF ring[s].fmt # f THEN ChangeFormat(s, f) ELSE UNCHANGED <<ring, stream>>
     /\ runloopLock' = Nobody
     /\ UNCHANGED <<tasks, loopVars, opened, waiting, call, made, out, process>>

\* What follows setup_kinect in the function that called it.
SetupDone(c) ==
  CASE call[c].fun \in Streams ->
         TasksDec(c, "setup_dec", "take") /\ UNCHANGED call
    [] call[c].fun = "control" ->
         TasksDec(c, "setup_dec", "enter_inc") /\ UNCHANGED call
    [] call[c].fun = "setup" ->
         TasksDec(c, "setup_dec", "idle") /\ call' = [call EXCEPT ![c] = NoCall]
    [] call[c].fun = "both" /\ call[c].target = "depth" ->
         /\ TasksDec(c, "setup_dec", "setup_inc")
         /\ call' = [call EXCEPT ![c].target = "video"]
    [] OTHER -> TasksDec(c, "setup_dec", "both_depth") /\ UNCHANGED call

-----------------------------------------------------------------------------
\* sync_get and sync_get_both

\* The client is at a ring's lock, for the first time or woken from its wait.
AtRing(c, s, first, asleep) == /\ process = "up"
                               /\ \/ pc[c] = first
                                  \/ pc[c] = asleep /\ c \notin waiting[s]
                               /\ ring[s].lock = Nobody

\* pthread_cond_wait(&buf->cb_cond, &buf->lock)
WaitFrame(c, s, asleep) ==
  /\ ~ring[s].valid
  /\ waiting' = [waiting EXCEPT ![s] = @ \cup {c}]
  /\ pc' = [pc EXCEPT ![c] = asleep]
  /\ UNCHANGED <<runloopLock, tasks, loopVars, opened, ring, stream, call, made, out, process>>

\* Seeded fault: the two buffers do not change places.
TakenInPlace(r) == [r EXCEPT !.valid = FALSE, !.lock = Nobody]

\* The newest frame's buffer becomes the client's and the client's goes back.
Taken(r) == [r EXCEPT !.bufs[1] = r.bufs[2], !.bufs[2] = r.bufs[1],
                      !.valid = FALSE, !.lock = Nobody]

GetWait(c, s) == /\ call[c].fun = s /\ opened
                 /\ AtRing(c, s, "take", "take_asleep")
                 /\ WaitFrame(c, s, "take_asleep")

GetFrame(c, s) == /\ call[c].fun = s /\ opened
                  /\ AtRing(c, s, "take", "take_asleep")
                  /\ ring[s].valid
                  /\ ring' = [ring EXCEPT ![s] = Taken(@)]
                  /\ out' = [out EXCEPT ![s] = ring[s].bufs[2]]
                  /\ Returns(c)
                  /\ UNCHANGED <<runloopLock, tasks, loopVars, opened, stream, waiting,
                                made, process>>

BothWaitDepth(c) == /\ opened
                    /\ AtRing(c, "depth", "both_depth", "both_depth_asleep")
                    /\ WaitFrame(c, "depth", "both_depth_asleep")

\* With a depth frame in sight the depth lock is kept for what follows.
BothLockDepth(c) == /\ opened
                    /\ AtRing(c, "depth", "both_depth", "both_depth_asleep")
                    /\ ring["depth"].valid
                    /\ ring' = [ring EXCEPT !["depth"].lock = c]
                    /\ pc' = [pc EXCEPT ![c] = "both_video"]
                    /\ UNCHANGED <<runloopLock, tasks, loopVars, opened, stream, waiting,
                                  call, made, out, process>>

BothWaitVideo(c) == /\ AtRing(c, "video", "both_video", "both_video_asleep")
                    /\ WaitFrame(c, "video", "both_video_asleep")

BothFrames(c) == /\ AtRing(c, "video", "both_video", "both_video_asleep")
                 /\ ring["video"].valid
                 /\ ring' = [s \in Streams |-> Taken(ring[s])]
                 /\ out' = [s \in Streams |-> ring[s].bufs[2]]
                 /\ Returns(c)
                 /\ UNCHANGED <<runloopLock, tasks, loopVars, opened, stream, waiting,
                               made, process>>

WakeUnasked(c, s) == /\ process = "up" /\ c \in waiting[s]
                     /\ waiting' = [waiting EXCEPT ![s] = @ \ {c}]
                     /\ UNCHANGED <<runloopLock, tasks, loopVars, opened, ring, stream,
                                   pc, call, made, out, process>>

-----------------------------------------------------------------------------
\* Tilt, tilt state and led: runloop_enter, one libfreenect call, runloop_exit

\* Seeded faults: the task is not counted; the lock is not taken.
EnterIncNot(c) == /\ Goto(c, "enter_inc", "enter_lock")
                  /\ UNCHANGED <<runloopLock, tasks, loopVars, ringVars, call, made, out, process>>
EnterUnlocked(c) == /\ Goto(c, "enter_lock", "control")
                    /\ UNCHANGED <<runloopLock, tasks, loopVars, ringVars, call, made, out, process>>

EnterInc(c) == TasksInc(c, "enter_inc", "enter_lock")
EnterLock(c) == LockRunloop(c, "enter_lock", "control")

Control(c) == /\ opened
              /\ Goto(c, "control", "exit_dec")
              /\ runloopLock' = Nobody
              /\ UNCHANGED <<tasks, loopVars, ringVars, call, made, out, process>>

ExitDec(c) == /\ TasksDec(c, "exit_dec", "idle")
              /\ call' = [call EXCEPT ![c] = NoCall]

\* kinects[0] was freed between the test and the use, or the ring during a wait.
UsesFreed(c) == /\ process = "up"
                /\ \/ pc[c] \in {"take", "both_depth", "control"} /\ ~opened
                   \/ pc[c] = "lost"
                /\ process' = "crashed"
                /\ UNCHANGED <<runloopLock, tasks, loopVars, ringVars, pc, call, made, out>>

-----------------------------------------------------------------------------
\* The runloop thread, `init'

\* Seeded fault: the runloop does not let pending tasks in.
LoopZeroHurries(l) ==
  /\ Goto(l, "zero", "relock")
  /\ UNCHANGED <<runloopLock, tasks, loopVars, ringVars, call, made, out, process>>

LoopZero(l) == /\ Goto(l, "zero", IF tasks = 0 THEN "relock" ELSE "zero_asleep")
               /\ UNCHANGED <<runloopLock, tasks, loopVars, ringVars, call, made, out, process>>

\* Seeded fault: process_events is called outside the lock.
LoopUnlocked(l) == /\ threadRunning
                   /\ Goto(l, "relock", "events")
                   /\ UNCHANGED <<runloopLock, tasks, loopVars, ringVars, call, made, out, process>>

LoopRelock(l) == /\ threadRunning
                 /\ Goto(l, "relock", "events")
                 /\ runloopLock = Nobody
                 /\ runloopLock' = l
                 /\ UNCHANGED <<tasks, loopVars, ringVars, call, made, out, process>>

\* The device, its rings and the context go, and the runloop with them.
Cleanup(l) ==
  /\ pc' = [t \in Threads |-> IF t = l THEN "exited"
                             ELSE IF pc[t] \in Waits THEN "lost" ELSE pc[t]]
  /\ opened' = FALSE
  /\ ring' = [s \in Streams |-> FreeRing]
  /\ stream' = [s \in Streams |-> StreamOff]
  /\ waiting' = [s \in Streams |-> {}]
  /\ context' = "shut"
  /\ runloopLock' = Nobody
  /\ UNCHANGED <<tasks, threadRunning, thread, call, made, out, process>>

LoopQuits(l) == /\ process = "up" /\ pc[l] = "relock"
                /\ runloopLock = Nobody /\ ~threadRunning
                /\ Cleanup(l)

\* freenect_process_events calls back for a frame the device has filled in ...
Deliver(l, s) == /\ stream[s].on
                 /\ Goto(l, "events", s)
                 /\ UNCHANGED <<runloopLock, tasks, loopVars, ringVars, call, made, out, process>>

\* Seeded fault: the device is not given the buffer it gets in exchange.
CallbackKeepsBuffer(l, s) ==
  /\ Goto(l, s, "events")
  /\ ring[s].lock = Nobody
  /\ ring' = [ring EXCEPT ![s].bufs[2] = ring[s].bufs[3], ![s].bufs[3] = ring[s].bufs[2],
                          ![s].valid = TRUE]
  /\ IF waiting[s] = {} THEN UNCHANGED waiting
     ELSE \E c \in waiting[s] : waiting' = [waiting EXCEPT ![s] = @ \ {c}]
  /\ UNCHANGED <<runloopLock, tasks, loopVars, opened, stream, call, made, out, process>>

\* producer_cb_inner: the frame's buffer and the one in the middle change places,
\* and one waiting client is signalled.
Callback(l, s) ==
  /\ Goto(l, s, "events")
  /\ ring[s].lock = Nobody
  /\ ring' = [ring EXCEPT ![s].bufs[2] = ring[s].bufs[3], ![s].bufs[3] = ring[s].bufs[2],
                          ![s].valid = TRUE]
  /\ stream' = [stream EXCEPT ![s].buf = ring[s].bufs[2]]
  /\ IF waiting[s] = {} THEN UNCHANGED waiting
     ELSE \E c \in waiting[s] : waiting' = [waiting EXCEPT ![s] = @ \ {c}]
  /\ UNCHANGED <<runloopLock, tasks, loopVars, opened, call, made, out, process>>

\* ... and returns, or fails and ends the loop.
EventsReturn(l) == /\ Goto(l, "events", "zero")
                   /\ runloopLock' = Nobody
                   /\ UNCHANGED <<tasks, loopVars, ringVars, call, made, out, process>>

EventsFail(l) == /\ "events" \in Faults
                 /\ process = "up" /\ pc[l] = "events"
                 /\ Cleanup(l)
-----------------------------------------------------------------------------
Call(c) == \/ \E s \in Streams : \E f \in Formats[s] : CallGet(c, s, f)
           \/ \E d \in DepthFormats, v \in VideoFormats : CallBoth(c, d, v)
           \/ \E v \in VideoFormats : CallSetup(c, v)
           \/ CallControl(c) \/ CallStop(c)

ClientStep(c) == \/ SetupInc(c) \/ SetupLock(c) \/ SetupOpen(c) \/ SetupFails(c)
                 \/ SetupCrashes(c) \/ SetupFailed(c) \/ SetupRing(c) \/ SetupDone(c)
                 \/ Join(c)
                 \/ \E s \in Streams : GetWait(c, s) \/ GetFrame(c, s)
                 \/ BothWaitDepth(c) \/ BothLockDepth(c) \/ BothWaitVideo(c) \/ BothFrames(c)
                 \/ EnterInc(c) \/ EnterLock(c) \/ Control(c) \/ ExitDec(c)

LoopStep(l) == \/ LoopZero(l) \/ LoopRelock(l) \/ LoopQuits(l) \/ EventsReturn(l)
               \/ \E s \in Streams : Deliver(l, s) \/ Callback(l, s)

Next == \/ \E c \in Clients : \/ Call(c) \/ ClientStep(c) \/ UsesFreed(c)
                             \/ \E s \in Streams : WakeUnasked(c, s)
        \/ \E l \in Loops : LoopStep(l) \/ EventsFail(l)

Spec == Init /\ [][Next]_vars

\* Threads are scheduled: a step that stays possible is taken.  A lock is not
\* promised to a thread that finds it free only now and then.  The device goes
\* on delivering frames of a stream that is on, and freenect_process_events
\* returns.
FairSpec == /\ Spec
            /\ \A c \in Clients : WF_vars(ClientStep(c))
            /\ \A l \in Loops : WF_vars(LoopStep(l))
            /\ \A l \in Loops, s \in Streams : SF_vars(Deliver(l, s))
            /\ \A l \in Loops : SF_vars(EventsReturn(l))

-----------------------------------------------------------------------------
\* Properties

\* The assertion of producer_cb_inner (libfreenect_sync.c:144): whatever clients
\* do between two frames, the device filled in the third buffer of the ring.
CallbackBuffer == \A l \in Loops, s \in Streams :
  pc[l] = s => stream[s].buf = ring[s].bufs[3] /\ stream[s].buf # 0

InFunction(s) == \E c \in Clients : pc[c] # "idle" /\ call[c].fun \in {s, "both"}

\* libfreenect_sync.h:41: a returned buffer is valid until the function is called
\* again (a second caller that is already inside counts).  It is still allocated,
\* whatever is done to the other stream and to the device, and no frame is being
\* written to it.
ReturnedBufferStable == \A s \in Streams :
  out[s] # 0 /\ ~InFunction(s) =>
    /\ ring[s].bufs[1] = out[s]
    /\ out[s] \notin {ring[s].bufs[2], ring[s].bufs[3], stream[s].buf}

\* libfreenect_sync.c:202: tasks run while process_events does not.  Whoever
\* changes a format, tilts the device or frees it is alone with it.
RunloopExclusive == \A t, u \in Threads :
  pc[t] \in InsideLabels /\ pc[u] \in InsideLabels => t = u /\ runloopLock = t

\* A stopped runloop has left nothing behind: the next call starts from zero,
\* and no second runloop runs beside the first.
CleanStop == /\ ~threadRunning /\ (\A c \in Clients : pc[c] = "idle") =>
                  ~opened /\ \A l \in Loops : pc[l] \in {"unborn", "exited"}
             /\ Cardinality({l \in Loops : pc[l] \notin {"unborn", "exited"}}) <= 1

\* As long as the device delivers, every call returns, whoever changes the
\* formats or takes the frames meanwhile: the runloop, which wants its lock back
\* as soon as it has released it, lets pending tasks in first, and no frame is
\* awaited that nobody signals.
CallsReturn == \A c \in Clients : pc[c] # "idle" ~> pc[c] = "idle"

\* libfreenect_sync.h:39, 51: a get "starts the runloop if it isn't running" and
\* returns nonzero on error; so nobody waits for frames without a runloop.
WaitHasRunloop == \A c \in Clients :
  pc[c] \in Waits \cup {"lost"} => \E l \in Loops : pc[l] \notin {"unborn", "exited"}

\* libfreenect_sync.c:67: of the family buffer_ring_t.lock a thread may only have
\* one; and the event thread takes one for each frame.
OneRingLock == \A c \in Clients :
  pc[c] \in {"both_video", "both_video_asleep"} => ring["depth"].lock # c
=============================================================================
