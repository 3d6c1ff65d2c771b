-------------------------- MODULE KinectSyncProofs --------------------------
(***************************************************************************)
(* Theorems about libfreenect_sync.c for any number of clients, runloop    *)
(* threads and calls: libfreenect is used by one thread at a time, the     *)
(* device fills in the buffer the callback expects, pending tasks are      *)
(* counted exactly, a stopped runloop leaves nothing behind and a returned *)
(* buffer stays the client's.                                              *)
(***************************************************************************)
EXTENDS KinectSync, FiniteSetTheorems, TLAPS

-----------------------------------------------------------------------------
\* The inductive invariant of RunloopExclusive and CallbackBuffer

LabelsOK == /\ pc \in [Threads -> ClientLabels \cup LoopLabels]
            /\ \A c \in Clients : pc[c] \in ClientLabels
            /\ \A l \in Loops : pc[l] \in LoopLabels

RingsOK == /\ DOMAIN ring = Streams
           /\ \A s \in Streams : /\ DOMAIN ring[s] = {"lock", "bufs", "valid", "fmt"}
                                 /\ ring[s].bufs \in [1 .. 3 -> 0 .. 3]
           /\ stream \in [Streams -> [on : BOOLEAN, buf : 0 .. 3]]

\* It has the lock.
LockByLabel == \A t \in Threads : pc[t] \in InsideLabels => runloopLock = t

\* A stream that is on has three buffers, of which the device has the third.
Buffers == \A s \in Streams : stream[s].on =>
  stream[s].buf = ring[s].bufs[3] /\ \A i \in 1 .. 3 : ring[s].bufs[i] # 0

\* No stream is stopped during its callback.
CallbackOn == \A l \in Loops, s \in Streams : pc[l] = s => stream[s].on

IInv == LabelsOK /\ RingsOK /\ LockByLabel /\ Buffers /\ CallbackOn
-----------------------------------------------------------------------------
\* The inductive invariants of TypeOK, CleanStop and ReturnedBufferStable, each
\* beside IInv

CallRecords == [fun : AllCalls \cup {"none"},
                fmt : {m \in [Streams -> VideoFormats \cup DepthFormats \cup {NoFormat}] :
                         \A s \in Streams : m[s] \in Formats[s] \cup {NoFormat}},
                target : Streams, started : BOOLEAN]

\* The labels of a client that pending_runloop_tasks counts.
Pending == {"setup_lock", "setup", "setup_ring", "setup_dec", "fail_dec",
            "enter_lock", "control", "exit_dec"}

Counted == {c \in Clients : pc[c] \in Pending}

TasksExact == tasks = Cardinality(Counted)

TypeInv == /\ TypeOK /\ TasksExact
           /\ out \in [Streams -> 0 .. 3]
           /\ waiting \in [Streams -> SUBSET Clients]
           /\ call \in [Clients -> CallRecords]

\* A runloop that runs is the one `thread' names.
Alive(l) == pc[l] \notin {"unborn", "exited"}
OnlyThread == \A l \in Loops : Alive(l) => l = thread
SomeLoop == \E l \in Loops : Alive(l)

\* A client that joins the runloop, or is about to, is alone with it.
Joins(c) == pc[c] = "join" \/ (pc[c] = "fail_dec" /\ call[c].started)
JoinsAlone == \A c \in Clients : Joins(c) =>
  /\ ~threadRunning
  /\ \A d \in Clients \ {c} : pc[d] = "idle"
  /\ (pc[c] = "join" /\ call[c].fun = "stop") \/ Clients = {c}

\* A runloop that was stopped is being joined, one that was not stopped runs, or
\* has shut its context down; and it outlives the device.
LoopKnown == /\ SomeLoop /\ ~threadRunning => \E c \in Clients : Joins(c)
             /\ threadRunning /\ context # "shut" => SomeLoop
             /\ opened => SomeLoop

StopInv == OnlyThread /\ JoinsAlone /\ LoopKnown

SettingUp == {"setup_inc", "setup_lock", "setup", "setup_ring", "setup_dec"}

\* What setup_kinect is asked for, and by which function.
Asks(c) == /\ call[c].fmt[call[c].target] \in Formats[call[c].target]
           /\ \/ call[c].fun = call[c].target
              \/ call[c].fun = "both" /\ \A s \in Streams : call[c].fmt[s] \in Formats[s]
              \/ call[c].fun = "setup" /\ call[c].target = "video"
              \/ call[c].fun = "control" /\ call[c].target = "depth"
                                         /\ call[c].fmt["depth"] = Depth11
CallsKnown == \A c \in Clients :
  /\ pc[c] \in SettingUp => call[c].fun \in Calls /\ Asks(c)
  /\ pc[c] \in {"enter_inc", "enter_lock", "control", "exit_dec"} => call[c].fun = "control"
  /\ pc[c] = "join" => call[c].fun = "stop"
  /\ pc[c] # "fail_dec"

\* A ring has three different buffers and a format, or none.
RingsFull == \A s \in Streams :
  \/ ring[s].bufs = NoBuffers
  \/ /\ \A i, j \in 1 .. 3 : ring[s].bufs[i] = ring[s].bufs[j] => i = j
     /\ \A i \in 1 .. 3 : ring[s].bufs[i] # 0
     /\ ring[s].fmt \in Formats[s] \ {BadFormat}

\* While a runloop is wanted there is a device; before, and after it was stopped,
\* nothing is returned and no client is further than setup_kinect's lock.
DeviceKept == IF threadRunning THEN opened
              ELSE /\ \A s \in Streams : out[s] = 0
                   /\ \A c \in Clients : pc[c] \in {"idle", "setup_inc", "setup_lock",
                                                    "setup", "join"}

StreamBuffer == \A s \in Streams : stream[s].on \/ stream[s].buf = 0

FirstIsReturned == \A s \in Streams :
  out[s] # 0 /\ ~InFunction(s) => ring[s].bufs[1] = out[s]

BuffersStable == RingsFull /\ StreamBuffer /\ FirstIsReturned

StableInv == CallsKnown /\ DeviceKept /\ BuffersStable

-----------------------------------------------------------------------------
\* What CleanStop and ReturnedBufferStable depend on

\* Two opens do not fail at the same time: the second could start a runloop beside the
\* one the first is about to join (libfreenect_sync.c:294).
OneOpens == "open" \notin Faults \/ \A c, d \in Clients : c = d

\* Nothing fails, and a setup_kinect that no get of its stream is in wants what the
\* stream has already: kinect.c:53-54 uses one format for each stream.
FormatsFixed == /\ Faults = {}
                /\ "setup" \in Calls => \A v, w \in VideoFormats : v = w
                /\ "control" \in Calls => DepthFormats \ {BadFormat} = {Depth11}

-----------------------------------------------------------------------------
(* Proofs.                                                                 *)

\* A step of threads that change nothing at the device, or only what is in the first
\* two buffers of a ring, and do not come inside.
LEMMA QuietKeepsIInv ==
  ASSUME IInv, LabelsOK', RingsOK', runloopLock' = runloopLock, stream' = stream,
         \A t \in Threads : pc'[t] \in InsideLabels => pc'[t] = pc[t],
         \A s \in Streams : /\ ring'[s].bufs[3] = ring[s].bufs[3]
                            /\ (\A i \in 1 .. 3 : ring[s].bufs[i] # 0)
                                 => \A i \in 1 .. 3 : ring'[s].bufs[i] # 0
  PROVE  IInv'
<1>1. LockByLabel'
  BY DEF IInv, LockByLabel
<1>2. Buffers'
  BY DEF IInv, Buffers
<1>3. CallbackOn'
  BY DEF IInv, CallbackOn, InsideLabels, Streams, Threads
<1>4. QED BY <1>1, <1>2, <1>3 DEF IInv

\* A step that does not touch rings or streams, nor the lock.
LEMMA ElsewhereKeepsIInv ==
  ASSUME IInv, LabelsOK', UNCHANGED <<runloopLock, ring, stream>>,
         \A t \in Threads : pc'[t] \in InsideLabels => pc'[t] = pc[t]
  PROVE  IInv'
<1>1. RingsOK'
  BY DEF IInv, RingsOK
<1>2. QED BY <1>1, QuietKeepsIInv

\* Thread t takes runloop_lock and is inside.
LEMMA LockingKeepsIInv ==
  ASSUME IInv, LabelsOK', NEW t \in Threads, runloopLock = Nobody, runloopLock' = t,
         \A u \in Threads \ {t} : pc'[u] = pc[u], pc'[t] \notin Streams,
         UNCHANGED <<ring, stream>>
  PROVE  IInv'
<1>1. RingsOK' /\ Buffers'
  BY DEF IInv, RingsOK, Buffers
<1>2. \A u \in Threads : pc[u] \notin InsideLabels
  BY ThreadsAssumption DEF IInv, LockByLabel, Threads
<1>3. LockByLabel'
  BY <1>2 DEF LockByLabel
<1>4. CallbackOn'
  BY DEF IInv, CallbackOn, Threads
<1>5. QED BY <1>1, <1>3, <1>4 DEF IInv

\* Thread t gives it back and is not inside any more.
LEMMA UnlockingKeepsIInv ==
  ASSUME IInv, LabelsOK', NEW t \in Threads, runloopLock = t,
         pc'[t] \notin InsideLabels,
         \A u \in Threads \ {t} : pc'[u] \in InsideLabels => pc'[u] = pc[u],
         UNCHANGED <<ring, stream>>
  PROVE  IInv'
<1>1. RingsOK' /\ Buffers'
  BY DEF IInv, RingsOK, Buffers
<1>2. \A u \in Threads : pc'[u] \notin InsideLabels
  BY DEF IInv, LockByLabel
<1>3. LockByLabel' /\ CallbackOn'
  BY <1>2 DEF LockByLabel, CallbackOn, InsideLabels, Streams, Threads
<1>4. QED BY <1>1, <1>3 DEF IInv

\* While a client is inside, no callback is running.
LEMMA NoCallbackBeside ==
  ASSUME IInv, NEW c \in Clients, pc[c] \in InsideLabels
  PROVE  \A l \in Loops : pc[l] \notin InsideLabels
<1>1. QED BY ThreadsAssumption DEF IInv, LockByLabel, Threads

\* A client goes from one label to another.
LEMMA ClientGoes ==
  ASSUME LabelsOK, NEW c \in Clients, NEW to \in ClientLabels, pc' = [pc EXCEPT ![c] = to]
  PROVE  /\ LabelsOK' /\ pc'[c] = to
         /\ \A t \in Threads \ {c} : pc'[t] = pc[t]
<1>1. QED BY ThreadsAssumption DEF LabelsOK, Threads

\* A runloop thread does.
LEMMA LoopGoes ==
  ASSUME LabelsOK, NEW l \in Loops, NEW to \in LoopLabels, pc' = [pc EXCEPT ![l] = to]
  PROVE  /\ LabelsOK' /\ pc'[l] = to
         /\ \A t \in Threads \ {l} : pc'[t] = pc[t]
<1>1. QED BY ThreadsAssumption DEF LabelsOK, Threads

\* A client goes on and a runloop thread is started, or woken.
LEMMA BothGo ==
  ASSUME LabelsOK, NEW c \in Clients, NEW l \in Loops, NEW to \in ClientLabels,
         pc' = [pc EXCEPT ![c] = to, ![l] = "zero"]
  PROVE  /\ LabelsOK' /\ pc'[c] = to /\ pc'[l] = "zero"
         /\ \A t \in Threads \ {c, l} : pc'[t] = pc[t]
<1>1. QED BY ThreadsAssumption DEF LabelsOK, Threads, LoopLabels

-----------------------------------------------------------------------------
\* The labels at which clients are not inside.
Outside == ClientLabels \ InsideLabels

\* Calls only decide where to begin.
LEMMA CallKeepsIInv ==
  ASSUME IInv, NEW c \in Clients, Call(c)
  PROVE  IInv'
<1>1. PICK to \in Outside : pc' = [pc EXCEPT ![c] = to]
  <2>1. CASE \E s \in Streams : \E f \in Formats[s] : CallGet(c, s, f)
    BY <2>1 DEF CallGet, Goto, Outside, ClientLabels, InsideLabels
  <2>2. CASE \E d \in DepthFormats, v \in VideoFormats : CallBoth(c, d, v)
    BY <2>2 DEF CallBoth, Goto, Outside, ClientLabels, InsideLabels
  <2>3. CASE \E v \in VideoFormats : CallSetup(c, v)
    BY <2>3 DEF CallSetup, Goto, Outside, ClientLabels, InsideLabels
  <2>4. CASE CallControl(c)
    BY <2>4 DEF CallControl, Goto, Outside, ClientLabels, InsideLabels
  <2>5. CASE CallStop(c)
    BY <2>5 DEF CallStop, Goto, Outside, ClientLabels, InsideLabels
  <2>6. QED BY <2>1, <2>2, <2>3, <2>4, <2>5 DEF Call
<1>2. UNCHANGED <<runloopLock, ring, stream>>
  BY DEF Call, CallGet, CallBoth, CallSetup, CallControl, CallStop, ringVars
<1>3. LabelsOK' /\ \A t \in Threads : pc'[t] \in InsideLabels => pc'[t] = pc[t]
  BY <1>1, ClientGoes DEF IInv, Outside
<1>4. QED BY <1>2, <1>3, ElsewhereKeepsIInv

\* pending_runloop_tasks goes down, and a sleeping runloop may be woken.
LEMMA TasksDecKeepsIInv ==
  ASSUME IInv, NEW c \in Clients, NEW from, NEW to \in Outside, TasksDec(c, from, to)
  PROVE  IInv'
<1>1. UNCHANGED <<runloopLock, ring, stream>>
  BY DEF TasksDec, ringVars
<1>2. \/ pc' = [pc EXCEPT ![c] = to]
      \/ \E l \in Loops : pc' = [pc EXCEPT ![c] = to, ![l] = "zero"]
  BY DEF TasksDec
<1>3. LabelsOK' /\ \A t \in Threads : pc'[t] \in InsideLabels => pc'[t] = pc[t]
  BY <1>2, ClientGoes, BothGo DEF IInv, Outside, InsideLabels
<1>4. QED BY <1>1, <1>3, ElsewhereKeepsIInv

\* The steps of a client that are outside runloop_lock or enter it.
LEMMA ClientOutsideKeepsIInv ==
  ASSUME IInv, NEW c \in Clients,
         \/ SetupInc(c) \/ EnterInc(c) \/ SetupLock(c) \/ EnterLock(c) \/ Join(c)
         \/ SetupFailed(c) \/ SetupDone(c) \/ ExitDec(c) \/ Control(c)
  PROVE  IInv'
<1> USE DEF Outside, ClientLabels, InsideLabels
<1>0. c \in Threads /\ LabelsOK
  BY DEF Threads, IInv
<1>1. CASE SetupInc(c) \/ EnterInc(c)
  <2>1. PICK to \in Outside : pc' = [pc EXCEPT ![c] = to]
    BY <1>1 DEF SetupInc, EnterInc, TasksInc, Goto
  <2>2. UNCHANGED <<runloopLock, ring, stream>>
    BY <1>1 DEF SetupInc, EnterInc, TasksInc, ringVars
  <2>3. LabelsOK' /\ \A t \in Threads : pc'[t] \in InsideLabels => pc'[t] = pc[t]
    BY <2>1, <1>0, ClientGoes, ZenonT(30)
  <2>4. QED BY <2>2, <2>3, ElsewhereKeepsIInv
<1>2. CASE Join(c)
  <2>1. pc' = [pc EXCEPT ![c] = "idle"] /\ UNCHANGED <<runloopLock, ring, stream>>
    BY <1>2 DEF Join, Returns, ringVars
  <2>2. LabelsOK' /\ \A t \in Threads : pc'[t] \in InsideLabels => pc'[t] = pc[t]
    BY <2>1, <1>0, ClientGoes
  <2>3. QED BY <2>1, <2>2, ElsewhereKeepsIInv
<1>3. CASE SetupLock(c) \/ EnterLock(c)
  <2>1. PICK to \in {"setup", "control"} : pc' = [pc EXCEPT ![c] = to]
    BY <1>3 DEF SetupLock, EnterLock, LockRunloop, Goto
  <2>2. runloopLock = Nobody /\ runloopLock' = c /\ UNCHANGED <<ring, stream>>
    BY <1>3 DEF SetupLock, EnterLock, LockRunloop, ringVars
  <2>3. LabelsOK' /\ pc'[c] \notin Streams /\ \A t \in Threads \ {c} : pc'[t] = pc[t]
    BY <2>1, <1>0, ClientGoes DEF Streams
  <2>4. QED BY <1>0, <2>2, <2>3, LockingKeepsIInv
<1>4. CASE SetupFailed(c) \/ SetupDone(c) \/ ExitDec(c)
  <2>1. PICK from, to \in Outside : TasksDec(c, from, to)
    <3>1. CASE SetupFailed(c)
      BY <3>1 DEF SetupFailed
    <3>2. CASE SetupDone(c)
      BY <3>2 DEF SetupDone
    <3>3. CASE ExitDec(c)
      BY <3>3 DEF ExitDec
    <3>4. QED BY <1>4, <3>1, <3>2, <3>3
  <2>2. QED BY <2>1, TasksDecKeepsIInv
<1>5. CASE Control(c)
  <2>1. pc[c] = "control" /\ pc' = [pc EXCEPT ![c] = "exit_dec"]
    BY <1>5 DEF Control, Goto
  <2>2. runloopLock' = Nobody /\ UNCHANGED <<ring, stream>>
    BY <1>5 DEF Control, ringVars
  <2>3. runloopLock = c
    BY <1>0, <2>1 DEF IInv, LockByLabel
  <2>4. LabelsOK' /\ pc'[c] = "exit_dec" /\ \A t \in Threads \ {c} : pc'[t] = pc[t]
    BY <2>1, <1>0, ClientGoes
  <2>5. QED BY <1>0, <2>2, <2>3, <2>4, UnlockingKeepsIInv
<1>6. QED BY <1>1, <1>2, <1>3, <1>4, <1>5

-----------------------------------------------------------------------------
\* A client that is inside may change rings and streams: nobody is beside it.
LEMMA ClientInsideKeepsIInv ==
  ASSUME IInv, LabelsOK', RingsOK', Buffers', NEW c \in Clients, pc[c] \in InsideLabels,
         pc'[c] \in InsideLabels => runloopLock' = c,
         \A t \in Threads \ {c} : pc'[t] \in InsideLabels => pc'[t] = pc[t]
  PROVE  IInv'
<1>1. \A t \in Threads \ {c} : pc[t] \notin InsideLabels
  BY ThreadsAssumption DEF IInv, LockByLabel, Threads
<1>2. \A t \in Threads \ {c} : pc'[t] \notin InsideLabels
  BY <1>1
<1>3. LockByLabel'
  BY <1>2 DEF LockByLabel
<1>4. \A l \in Loops : pc'[l] \notin InsideLabels
  BY <1>2, ThreadsAssumption DEF Threads
<1>5. CallbackOn'
  BY <1>4 DEF CallbackOn, InsideLabels, Streams
<1>6. QED BY <1>3, <1>5 DEF IInv

\* A ring without buffers and a stream that is off.
LEMMA NothingThere ==
  ASSUME ring' = [s \in Streams |-> FreeRing], stream' = [s \in Streams |-> StreamOff]
  PROVE  RingsOK' /\ Buffers'
<1>1. \A s \in Streams : ring'[s] = FreeRing /\ stream'[s] = StreamOff
  OBVIOUS
<1>2. DOMAIN FreeRing = {"lock", "bufs", "valid", "fmt"} /\ FreeRing.bufs \in [1 .. 3 -> 0 .. 3]
  BY DEF FreeRing, NoBuffers
<1>3. StreamOff \in [on : BOOLEAN, buf : 0 .. 3] /\ StreamOff.on = FALSE
  BY DEF StreamOff
<1>4. RingsOK'
  BY <1>1, <1>2, <1>3 DEF RingsOK
<1>5. Buffers'
  BY <1>1, <1>3 DEF Buffers
<1>6. QED BY <1>4, <1>5

\* init_thread starts a runloop outside process_events, or starts none.
LEMMA StartRunloopGoes ==
  ASSUME LabelsOK, NEW c \in Clients, NEW to \in ClientLabels, StartRunloop(c, to)
  PROVE  /\ LabelsOK' /\ pc'[c] = to
         /\ \A t \in Threads \ {c} : pc'[t] \in InsideLabels => pc'[t] = pc[t]
<1>1. CASE threadRunning
  <2>1. pc' = [pc EXCEPT ![c] = to]
    BY <1>1 DEF StartRunloop
  <2>2. QED BY <2>1, ClientGoes
<1>2. CASE ~threadRunning
  <2>1. PICK l \in Loops : pc' = [pc EXCEPT ![c] = to, ![l] = "zero"]
    BY <1>2 DEF StartRunloop
  <2>2. QED BY <2>1, BothGo DEF InsideLabels
<1>3. QED BY <1>1, <1>2

\* change_*_format, for the depth ring or the video ring.
LEMMA ChangeFormatKeepsRings ==
  ASSUME RingsOK, Buffers, NEW s, NEW f, ChangeFormat(s, f)
  PROVE  RingsOK' /\ Buffers'
<1> DEFINE r == IF f = BadFormat THEN FreeRing
                ELSE [FreeRing EXCEPT !.bufs = NewBuffers, !.fmt = f]
           d == IF f = BadFormat THEN StreamOff ELSE [on |-> TRUE, buf |-> 3]
<1>1. ring' = [ring EXCEPT ![s] = r] /\ stream' = [stream EXCEPT ![s] = d]
  BY DEF ChangeFormat
<1>2. /\ DOMAIN r = {"lock", "bufs", "valid", "fmt"} /\ r.bufs \in [1 .. 3 -> 0 .. 3]
      /\ d \in [on : BOOLEAN, buf : 0 .. 3]
      /\ d.on => d.buf = r.bufs[3] /\ \A i \in 1 .. 3 : r.bufs[i] # 0
  BY DEF FreeRing, NoBuffers, NewBuffers, StreamOff
<1> HIDE DEF r, d
<1>3. /\ DOMAIN ring' = Streams
      /\ s \in Streams => ring'[s] = r /\ stream'[s] = d
      /\ \A u \in Streams \ {s} : ring'[u] = ring[u] /\ stream'[u] = stream[u]
  BY <1>1 DEF RingsOK
<1>4. RingsOK'
  BY <1>1, <1>2, <1>3 DEF RingsOK
<1>5. Buffers'
  BY <1>2, <1>3 DEF Buffers
<1>6. QED BY <1>4, <1>5

\* The body of setup_kinect between lock and unlock.
LEMMA SetupKeepsIInv ==
  ASSUME IInv, NEW c \in Clients, SetupOpen(c) \/ SetupFails(c) \/ SetupRing(c)
  PROVE  IInv'
<1>0. c \in Threads /\ LabelsOK /\ RingsOK /\ Buffers
  BY DEF Threads, IInv
<1>1. CASE SetupOpen(c)
  <2>1. pc[c] \in InsideLabels /\ StartRunloop(c, "setup_ring") /\ runloopLock' = runloopLock
    BY <1>1 DEF SetupOpen, InsideLabels
  <2>2. runloopLock' = c
    BY <2>1, <1>0 DEF IInv, LockByLabel
  <2>3. LabelsOK' /\ \A t \in Threads \ {c} : pc'[t] \in InsideLabels => pc'[t] = pc[t]
    BY <2>1, <1>0, StartRunloopGoes DEF ClientLabels
  <2>4. RingsOK' /\ Buffers'
    <3>1. CASE opened
      BY <1>0, <1>1, <3>1 DEF SetupOpen, RingsOK, Buffers
    <3>2. CASE ~opened
      BY <1>1, <3>2, NothingThere DEF SetupOpen
    <3>3. QED BY <3>1, <3>2
  <2>5. QED BY <2>1, <2>2, <2>3, <2>4, ClientInsideKeepsIInv
<1>2. CASE SetupFails(c)
  <2>1. pc[c] \in InsideLabels /\ StartRunloop(c, "fail_dec")
    BY <1>2 DEF SetupFails, InsideLabels
  <2>2. /\ LabelsOK' /\ pc'[c] = "fail_dec"
        /\ \A t \in Threads \ {c} : pc'[t] \in InsideLabels => pc'[t] = pc[t]
    BY <2>1, <1>0, StartRunloopGoes DEF ClientLabels
  <2>3. RingsOK' /\ Buffers'
    BY <1>0, <1>2 DEF SetupFails, ringVars, RingsOK, Buffers
  <2>4. pc'[c] \notin InsideLabels
    BY <2>2 DEF InsideLabels
  <2>5. QED BY <2>1, <2>2, <2>3, <2>4, ClientInsideKeepsIInv
<1>3. CASE SetupRing(c)
  <2>1. pc[c] \in InsideLabels /\ pc' = [pc EXCEPT ![c] = "setup_dec"]
    BY <1>3 DEF SetupRing, Goto, InsideLabels
  <2>2. LabelsOK' /\ pc'[c] = "setup_dec" /\ \A t \in Threads \ {c} : pc'[t] = pc[t]
    BY <2>1, <1>0, ClientGoes DEF ClientLabels
  <2>3. RingsOK' /\ Buffers'
    <3>1. CASE UNCHANGED <<ring, stream>>
      BY <1>0, <3>1 DEF RingsOK, Buffers
    <3>2. CASE ~UNCHANGED <<ring, stream>>
      <4>1. PICK s, f : ChangeFormat(s, f)
        BY <1>3, <3>2 DEF SetupRing
      <4>2. QED BY <4>1, <1>0, ChangeFormatKeepsRings, Zenon
    <3>3. QED BY <3>1, <3>2
  <2>4. pc'[c] \notin InsideLabels
    BY <2>2 DEF InsideLabels
  <2>5. QED BY <2>1, <2>2, <2>3, <2>4, ClientInsideKeepsIInv
<1>4. QED BY <1>1, <1>2, <1>3

-----------------------------------------------------------------------------
\* Taking a frame exchanges the first two buffers of a ring.
LEMMA TakenKeepsBuffers ==
  ASSUME RingsOK, NEW s \in Streams
  PROVE  /\ DOMAIN Taken(ring[s]) = {"lock", "bufs", "valid", "fmt"}
         /\ Taken(ring[s]).bufs \in [1 .. 3 -> 0 .. 3]
         /\ Taken(ring[s]).bufs[3] = ring[s].bufs[3]
         /\ (\A i \in 1 .. 3 : ring[s].bufs[i] # 0)
              => \A i \in 1 .. 3 : Taken(ring[s]).bufs[i] # 0
<1> DEFINE r == ring[s]
<1>1. DOMAIN r = {"lock", "bufs", "valid", "fmt"} /\ r.bufs \in [1 .. 3 -> 0 .. 3]
  BY DEF RingsOK
<1>2. DOMAIN Taken(r) = DOMAIN r
  BY DEF Taken
<1>3. Taken(r).bufs = [r.bufs EXCEPT ![1] = r.bufs[2], ![2] = r.bufs[1]]
  BY <1>1 DEF Taken
<1>4. Taken(r).bufs \in [1 .. 3 -> 0 .. 3]
  BY <1>1, <1>3
<1>5. /\ Taken(r).bufs[1] = r.bufs[2] /\ Taken(r).bufs[2] = r.bufs[1]
      /\ Taken(r).bufs[3] = r.bufs[3]
  BY <1>1, <1>3
<1>6. 1 .. 3 = {1, 2, 3}
  OBVIOUS
<1>7. QED BY <1>1, <1>2, <1>4, <1>5, <1>6

\* sync_get and sync_get_both wait or take frames; a client is woken for no reason; a
\* freed device is used.
LEMMA GettingKeepsIInv ==
  ASSUME IInv, NEW c \in Clients,
         \/ \E s \in Streams : GetWait(c, s) \/ GetFrame(c, s) \/ WakeUnasked(c, s)
         \/ BothWaitDepth(c) \/ BothLockDepth(c) \/ BothWaitVideo(c) \/ BothFrames(c)
         \/ SetupCrashes(c) \/ UsesFreed(c)
  PROVE  IInv'
<1> USE DEF Outside, ClientLabels, InsideLabels, Waits
<1>0. c \in Threads /\ LabelsOK /\ RingsOK
  BY DEF Threads, IInv
<1>1. CASE BothWaitDepth(c) \/ BothWaitVideo(c) \/ \E s \in Streams : GetWait(c, s)
  <2>1. PICK s \in Streams, to \in Outside : WaitFrame(c, s, to)
    BY <1>1 DEF GetWait, BothWaitDepth, BothWaitVideo, Streams
  <2>2. pc' = [pc EXCEPT ![c] = to] /\ UNCHANGED <<runloopLock, ring, stream>>
    BY <2>1 DEF WaitFrame
  <2>3. LabelsOK' /\ \A t \in Threads : pc'[t] \in InsideLabels => pc'[t] = pc[t]
    BY <2>2, <1>0, ClientGoes, ZenonT(30)
  <2>4. QED BY <2>2, <2>3, ElsewhereKeepsIInv
<1>2. CASE SetupCrashes(c) \/ UsesFreed(c) \/ \E s \in Streams : WakeUnasked(c, s)
  <2>1. pc' = pc /\ UNCHANGED <<runloopLock, ring, stream>>
    BY <1>2 DEF SetupCrashes, UsesFreed, WakeUnasked, ringVars
  <2>2. LabelsOK'
    BY <2>1, <1>0 DEF LabelsOK
  <2>3. QED BY <2>1, <2>2, ElsewhereKeepsIInv
<1>3. CASE BothLockDepth(c)
  <2>1. /\ pc' = [pc EXCEPT ![c] = "both_video"] /\ UNCHANGED <<runloopLock, stream>>
        /\ ring' = [ring EXCEPT !["depth"] = [ring["depth"] EXCEPT !.lock = c]]
    BY <1>3 DEF BothLockDepth
  <2>2. LabelsOK' /\ \A t \in Threads : pc'[t] \in InsideLabels => pc'[t] = pc[t]
    BY <2>1, <1>0, ClientGoes
  <2>3. /\ DOMAIN ring' = Streams
        /\ \A s \in Streams : DOMAIN ring'[s] = DOMAIN ring[s] /\ ring'[s].bufs = ring[s].bufs
    BY <2>1, <1>0 DEF RingsOK, Streams
  <2>4. RingsOK'
    BY <1>0, <2>1, <2>3 DEF RingsOK
  <2>5. QED BY <2>1, <2>2, <2>3, <2>4, QuietKeepsIInv
<1>4. CASE BothFrames(c) \/ \E s \in Streams : GetFrame(c, s)
  <2>1. /\ pc' = [pc EXCEPT ![c] = "idle"] /\ UNCHANGED <<runloopLock, stream>>
        /\ DOMAIN ring' = Streams
        /\ \A s \in Streams : ring'[s] \in {ring[s], Taken(ring[s])}
    BY <1>0, <1>4 DEF BothFrames, GetFrame, Returns, RingsOK
  <2>2. LabelsOK' /\ \A t \in Threads : pc'[t] \in InsideLabels => pc'[t] = pc[t]
    BY <2>1, <1>0, ClientGoes
  <2>3. \A s \in Streams : /\ DOMAIN ring'[s] = {"lock", "bufs", "valid", "fmt"}
                           /\ ring'[s].bufs \in [1 .. 3 -> 0 .. 3]
    BY <2>1, <1>0, TakenKeepsBuffers DEF RingsOK
  <2>4. RingsOK'
    BY <1>0, <2>1, <2>3 DEF RingsOK
  <2>5. \A s \in Streams : /\ ring'[s].bufs[3] = ring[s].bufs[3]
                           /\ (\A i \in 1 .. 3 : ring[s].bufs[i] # 0)
                                => \A i \in 1 .. 3 : ring'[s].bufs[i] # 0
    BY <2>1, <1>0, TakenKeepsBuffers
  <2>6. QED BY <2>1, <2>2, <2>4, <2>5, QuietKeepsIInv
<1>5. QED BY <1>1, <1>2, <1>3, <1>4

\* What a client does.
LEMMA ClientKeepsIInv ==
  ASSUME IInv, NEW c \in Clients,
         Call(c) \/ ClientStep(c) \/ UsesFreed(c) \/ \E s \in Streams : WakeUnasked(c, s)
  PROVE  IInv'
<1>1. CASE Call(c)
  BY <1>1, CallKeepsIInv
<1>2. CASE \/ SetupInc(c) \/ EnterInc(c) \/ SetupLock(c) \/ EnterLock(c) \/ Join(c)
           \/ SetupFailed(c) \/ SetupDone(c) \/ ExitDec(c) \/ Control(c)
  BY <1>2, ClientOutsideKeepsIInv
<1>3. CASE SetupOpen(c) \/ SetupFails(c) \/ SetupRing(c)
  BY <1>3, SetupKeepsIInv
<1>4. CASE \/ \E s \in Streams : GetWait(c, s) \/ GetFrame(c, s) \/ WakeUnasked(c, s)
           \/ BothWaitDepth(c) \/ BothLockDepth(c) \/ BothWaitVideo(c) \/ BothFrames(c)
           \/ SetupCrashes(c) \/ UsesFreed(c)
  BY <1>4, GettingKeepsIInv
<1>5. QED BY <1>1, <1>2, <1>3, <1>4 DEF ClientStep

-----------------------------------------------------------------------------
\* A runloop that cleans up is alone with the device and leaves nothing.
LEMMA CleanupKeepsIInv ==
  ASSUME IInv, NEW l \in Loops, Cleanup(l),
         \A t \in Threads \ {l} : pc[t] \notin InsideLabels
  PROVE  IInv'
<1>1. /\ pc' \in [Threads -> ClientLabels \cup LoopLabels]
      /\ \A t \in Threads : pc'[t] \in {pc[t], "lost", "exited"}
      /\ \A c \in Clients : pc'[c] \in {pc[c], "lost"}
      /\ \A k \in Loops : pc'[k] \in {pc[k], "exited"}
      /\ pc'[l] = "exited"
  BY ThreadsAssumption
  DEF Cleanup, IInv, LabelsOK, Threads, ClientLabels, LoopLabels, Waits
<1>2. LabelsOK'
  BY <1>1 DEF IInv, LabelsOK, ClientLabels, LoopLabels
<1>3. RingsOK' /\ Buffers'
  BY NothingThere DEF Cleanup
<1>4. \A t \in Threads : pc'[t] \notin InsideLabels
  BY <1>1 DEF InsideLabels
<1>5. LockByLabel' /\ CallbackOn'
  BY <1>4 DEF LockByLabel, CallbackOn, InsideLabels, Streams, Threads
<1>6. QED BY <1>2, <1>3, <1>5 DEF IInv

\* producer_cb_inner exchanges the last two buffers and gives the device the third.
LEMMA CallbackKeepsIInv ==
  ASSUME IInv, NEW l \in Loops, NEW s \in Streams, Callback(l, s)
  PROVE  IInv'
<1>0. l \in Threads /\ LabelsOK /\ RingsOK /\ Buffers
  BY DEF Threads, IInv
<1>1. pc[l] = s /\ pc' = [pc EXCEPT ![l] = "events"] /\ runloopLock' = runloopLock
  BY DEF Callback, Goto
<1>2. LabelsOK' /\ pc'[l] = "events" /\ \A t \in Threads \ {l} : pc'[t] = pc[t]
  BY <1>0, <1>1, LoopGoes DEF LoopLabels
<1>3. stream[s].on
  BY <1>1 DEF IInv, CallbackOn
<1> DEFINE r == [ring[s] EXCEPT !.bufs[2] = ring[s].bufs[3], !.bufs[3] = ring[s].bufs[2],
                                !.valid = TRUE]
           d == [stream[s] EXCEPT !.buf = ring[s].bufs[2]]
<1>4. /\ DOMAIN ring' = Streams /\ stream' = [stream EXCEPT ![s] = d]
      /\ \A u \in Streams \ {s} : ring'[u] = ring[u] /\ stream'[u] = stream[u]
  BY <1>0 DEF Callback, RingsOK
<1>5. /\ DOMAIN ring'[s] = {"lock", "bufs", "valid", "fmt"}
      /\ ring'[s].bufs = [ring[s].bufs EXCEPT ![2] = ring[s].bufs[3], ![3] = ring[s].bufs[2]]
  BY <1>0 DEF Callback, RingsOK
<1>6. stream'[s] = d /\ d \in [on : BOOLEAN, buf : 0 .. 3] /\ d.buf = ring[s].bufs[2]
  BY <1>0, <1>4 DEF RingsOK
<1>7. RingsOK'
  <2>1. ring'[s].bufs \in [1 .. 3 -> 0 .. 3]
    BY <1>0, <1>5 DEF RingsOK
  <2>2. stream' \in [Streams -> [on : BOOLEAN, buf : 0 .. 3]]
    BY <1>0, <1>4, <1>6 DEF RingsOK
  <2>3. QED BY <1>0, <1>4, <1>5, <2>1, <2>2 DEF RingsOK
<1>8. Buffers'
  <2>1. \A i \in 1 .. 3 : ring[s].bufs[i] # 0
    BY <1>0, <1>3 DEF Buffers
  <2>2. ring'[s].bufs[3] = ring[s].bufs[2] /\ \A i \in 1 .. 3 : ring'[s].bufs[i] # 0
    BY <1>0, <1>5, <2>1 DEF RingsOK
  <2>3. QED BY <1>0, <1>4, <1>6, <2>2 DEF Buffers
<1>9. \A u \in Streams : stream'[u].on = stream[u].on
  BY <1>0, <1>4, <1>6 DEF RingsOK
<1>10. LockByLabel'
  BY <1>0, <1>1, <1>2 DEF IInv, LockByLabel, InsideLabels, Streams
<1>11. CallbackOn'
  BY <1>2, <1>9 DEF IInv, CallbackOn, Streams, Threads
<1>12. QED BY <1>2, <1>7, <1>8, <1>10, <1>11 DEF IInv

\* What a runloop thread does.
LEMMA LoopKeepsIInv ==
  ASSUME IInv, NEW l \in Loops, LoopStep(l) \/ EventsFail(l)
  PROVE  IInv'
<1>0. l \in Threads /\ LabelsOK
  BY DEF Threads, IInv
<1>1. CASE LoopZero(l)
  <2>1. PICK to \in {"relock", "zero_asleep"} : pc' = [pc EXCEPT ![l] = to]
    BY <1>1 DEF LoopZero, Goto
  <2>2. LabelsOK' /\ \A t \in Threads : pc'[t] \in InsideLabels => pc'[t] = pc[t]
    BY <2>1, <1>0, LoopGoes DEF LoopLabels, InsideLabels
  <2>3. QED BY <1>1, <2>2, ElsewhereKeepsIInv DEF LoopZero, ringVars
<1>2. CASE LoopRelock(l)
  <2>1. pc' = [pc EXCEPT ![l] = "events"]
    BY <1>2 DEF LoopRelock, Goto
  <2>2. LabelsOK' /\ pc'[l] \notin Streams /\ \A t \in Threads \ {l} : pc'[t] = pc[t]
    BY <2>1, <1>0, LoopGoes DEF LoopLabels, Streams
  <2>3. runloopLock = Nobody /\ runloopLock' = l /\ UNCHANGED <<ring, stream>>
    BY <1>2 DEF LoopRelock, ringVars
  <2>4. QED BY <1>0, <2>2, <2>3, LockingKeepsIInv
<1>3. CASE EventsReturn(l)
  <2>1. pc[l] = "events" /\ pc' = [pc EXCEPT ![l] = "zero"]
    BY <1>3 DEF EventsReturn, Goto
  <2>2. LabelsOK' /\ pc'[l] \notin InsideLabels /\ \A t \in Threads \ {l} : pc'[t] = pc[t]
    BY <2>1, <1>0, LoopGoes DEF LoopLabels, InsideLabels
  <2>3. runloopLock = l
    BY <1>0, <2>1 DEF IInv, LockByLabel, InsideLabels
  <2>4. UNCHANGED <<ring, stream>>
    BY <1>3 DEF EventsReturn, ringVars
  <2>5. QED BY <1>0, <2>2, <2>3, <2>4, UnlockingKeepsIInv
<1>4. CASE LoopQuits(l)
  <2>1. \A t \in Threads : pc[t] \notin InsideLabels
    BY <1>4, ThreadsAssumption DEF LoopQuits, IInv, LockByLabel, Threads
  <2>2. QED BY <1>4, <2>1, CleanupKeepsIInv DEF LoopQuits
<1>5. CASE EventsFail(l)
  <2>1. \A t \in Threads \ {l} : pc[t] \notin InsideLabels
    BY <1>0, <1>5 DEF EventsFail, IInv, LockByLabel, InsideLabels
  <2>2. QED BY <1>5, <2>1, CleanupKeepsIInv DEF EventsFail
<1>6. CASE \E s \in Streams : Deliver(l, s)
  <2>1. PICK s \in Streams : Deliver(l, s)
    BY <1>6
  <2>2. pc[l] = "events" /\ stream[s].on /\ pc' = [pc EXCEPT ![l] = s]
    BY <2>1 DEF Deliver, Goto
  <2>3. UNCHANGED <<runloopLock, ring, stream>>
    BY <2>1 DEF Deliver, ringVars
  <2>4. LabelsOK' /\ pc'[l] = s /\ \A t \in Threads \ {l} : pc'[t] = pc[t]
    BY <2>2, <1>0, LoopGoes DEF LoopLabels, Streams
  <2>5. RingsOK' /\ Buffers'
    BY <2>3 DEF IInv, RingsOK, Buffers
  <2>6. LockByLabel'
    BY <1>0, <2>2, <2>3, <2>4 DEF IInv, LockByLabel, InsideLabels
  <2>7. CallbackOn'
    BY <2>2, <2>3, <2>4 DEF IInv, CallbackOn, Threads
  <2>8. QED BY <2>4, <2>5, <2>6, <2>7 DEF IInv
<1>7. CASE \E s \in Streams : Callback(l, s)
  BY <1>7, CallbackKeepsIInv
<1>8. QED BY <1>1, <1>2, <1>3, <1>4, <1>5, <1>6, <1>7 DEF LoopStep

-----------------------------------------------------------------------------
\* Before the first call nobody is inside and no stream is on.
LEMMA InitEstablishesIInv == Init => IInv
<1> SUFFICES ASSUME Init PROVE IInv
  OBVIOUS
<1>1. LabelsOK
  BY ThreadsAssumption DEF Init, LabelsOK, Threads, ClientLabels, LoopLabels
<1>2. RingsOK /\ Buffers
  BY DEF Init, RingsOK, Buffers, FreeRing, NoBuffers, StreamOff
<1>3. \A t \in Threads : pc[t] \notin InsideLabels
  BY DEF Init, InsideLabels
<1>4. LockByLabel /\ CallbackOn
  BY <1>3 DEF LockByLabel, CallbackOn, InsideLabels, Streams, Threads
<1>5. QED BY <1>1, <1>2, <1>4 DEF IInv

\* Whatever clients, runloops and the device do keeps the invariant.
LEMMA NextPreservesIInv == IInv /\ [Next]_vars => IInv'
<1> SUFFICES ASSUME IInv, [Next]_vars PROVE IInv'
  OBVIOUS
<1>1. CASE \E c \in Clients : \/ Call(c) \/ ClientStep(c) \/ UsesFreed(c)
                             \/ \E s \in Streams : WakeUnasked(c, s)
  BY <1>1, ClientKeepsIInv
<1>2. CASE \E l \in Loops : LoopStep(l) \/ EventsFail(l)
  BY <1>2, LoopKeepsIInv
<1>3. CASE UNCHANGED vars
  BY <1>3 DEF vars, ringVars, IInv, LabelsOK, RingsOK, LockByLabel, Buffers, CallbackOn
<1>4. QED BY <1>1, <1>2, <1>3 DEF Next

-----------------------------------------------------------------------------
\* pending_runloop_tasks, and the types of all variables

\* The clients a count stands for are finitely many.
LEMMA CountedIsFinite ==
  /\ IsFiniteSet(Counted) /\ Cardinality(Counted) \in Nat
  /\ \A c \in Counted : Cardinality(Counted) # 0
<1>1. Counted \in SUBSET Clients
  BY DEF Counted
<1>2. IsFiniteSet(Counted)
  BY <1>1, ThreadsAssumption, FS_Subset
<1>3. Cardinality(Counted) \in Nat
  BY <1>2, FS_CardinalityType
<1>4. Cardinality(Counted) = 0 <=> Counted = {}
  BY <1>2, FS_EmptySet
<1>5. QED BY <1>2, <1>3, <1>4

\* A step that moves no client into or out of the counted labels keeps the count.
LEMMA CountKept ==
  ASSUME TasksExact, tasks' = tasks, \A c \in Clients : pc[c] \in Pending <=> pc'[c] \in Pending
  PROVE  TasksExact' /\ tasks' \in Nat
<1>1. Counted' = Counted
  BY DEF Counted
<1>2. QED BY <1>1, CountedIsFinite DEF TasksExact

\* One that moves one client in counts one more.
LEMMA CountedIn ==
  ASSUME TasksExact, tasks' = tasks + 1,
         NEW c \in Clients, pc[c] \notin Pending, pc'[c] \in Pending,
         \A d \in Clients \ {c} : pc'[d] = pc[d]
  PROVE  TasksExact' /\ tasks' \in Nat
<1>1. Counted' = Counted \cup {c} /\ c \notin Counted
  BY DEF Counted
<1>2. Cardinality(Counted \cup {c}) = Cardinality(Counted) + 1
  BY <1>1, CountedIsFinite, FS_AddElement
<1>3. QED BY <1>1, <1>2, CountedIsFinite DEF TasksExact

\* One that moves one client out counts one less, and there was one.
LEMMA CountedOut ==
  ASSUME TasksExact, tasks' = tasks - 1,
         NEW c \in Clients, pc[c] \in Pending, pc'[c] \notin Pending,
         \A d \in Clients \ {c} : pc'[d] = pc[d]
  PROVE  TasksExact' /\ tasks' \in Nat
<1>1. Counted' = Counted \ {c} /\ c \in Counted
  BY DEF Counted
<1>2. Cardinality(Counted \ {c}) = Cardinality(Counted) - 1
  BY <1>1, CountedIsFinite, FS_RemoveElement
<1>3. Cardinality(Counted) \in Nat /\ Cardinality(Counted) # 0
  BY <1>1, CountedIsFinite
<1>4. QED BY <1>1, <1>2, <1>3 DEF TasksExact

-----------------------------------------------------------------------------
\* pending_runloop_tasks goes down when a client leaves the counted labels.
LEMMA TasksDecCounts ==
  ASSUME LabelsOK, TasksExact, NEW c \in Clients, NEW from \in Pending,
         NEW to \in ClientLabels \ Pending, TasksDec(c, from, to)
  PROVE  TasksExact' /\ tasks' \in Nat
<1>1. \/ pc' = [pc EXCEPT ![c] = to]
      \/ \E l \in Loops : pc' = [pc EXCEPT ![c] = to, ![l] = "zero"]
  BY DEF TasksDec
<1>2. pc'[c] = to /\ \A d \in Clients \ {c} : pc'[d] = pc[d]
  BY <1>1, ClientGoes, BothGo, ThreadsAssumption DEF Threads
<1>3. pc[c] = from /\ tasks' = tasks - 1
  BY DEF TasksDec
<1>4. QED BY <1>2, <1>3, CountedOut

TasksCounted == TasksExact' /\ tasks' \in Nat

\* The steps of clients.
LEMMA ClientCounts ==
  ASSUME LabelsOK, TasksExact, NEW c \in Clients, Call(c) \/ ClientStep(c) \/ UsesFreed(c)
                                \/ \E s \in Streams : WakeUnasked(c, s)
  PROVE  TasksCounted
<1> USE DEF Pending
<1>a. ASSUME NEW to \in ClientLabels \ Pending, pc[c] \notin Pending,
             pc' = [pc EXCEPT ![c] = to], tasks' = tasks
      PROVE  TasksCounted
  <2>1. pc'[c] = to /\ \A d \in Clients \ {c} : pc'[d] = pc[d]
    BY <1>a, ClientGoes DEF Threads
  <2>2. QED BY <1>a, <2>1, CountKept DEF TasksCounted
<1>b. ASSUME NEW to \in ClientLabels \cap Pending, pc[c] \in Pending, tasks' = tasks,
             \/ pc' = [pc EXCEPT ![c] = to]
             \/ \E l \in Loops : pc' = [pc EXCEPT ![c] = to, ![l] = "zero"]
      PROVE  TasksCounted
  <2>1. pc'[c] = to /\ \A d \in Clients \ {c} : pc'[d] = pc[d]
    BY <1>b, ClientGoes, BothGo, ThreadsAssumption DEF Threads
  <2>2. QED BY <1>b, <2>1, CountKept DEF TasksCounted
<1>1. CASE Call(c)
  <2>1. PICK to \in {"idle", "take", "setup_inc", "both_depth", "enter_inc", "join"} :
               pc[c] = "idle" /\ pc' = [pc EXCEPT ![c] = to]
    BY <1>1 DEF Call, CallGet, CallBoth, CallSetup, CallControl, CallStop, Goto
  <2>2. tasks' = tasks
    BY <1>1 DEF Call, CallGet, CallBoth, CallSetup, CallControl, CallStop
  <2>3. QED BY <2>1, <2>2, <1>a DEF ClientLabels
<1>2. CASE SetupInc(c) \/ EnterInc(c)
  <2>1. PICK from \in {"setup_inc", "enter_inc"}, to \in {"setup_lock", "enter_lock"} :
               pc[c] = from /\ pc' = [pc EXCEPT ![c] = to] /\ tasks' = tasks + 1
    BY <1>2 DEF SetupInc, EnterInc, TasksInc, Goto
  <2>2. pc'[c] = to /\ \A d \in Clients \ {c} : pc'[d] = pc[d]
    BY <2>1, ClientGoes DEF ClientLabels, Threads
  <2>3. QED BY <2>1, <2>2, CountedIn DEF TasksCounted
<1>3. CASE SetupFailed(c) \/ SetupDone(c) \/ ExitDec(c)
  <2>1. PICK from \in Pending, to \in ClientLabels \ Pending : TasksDec(c, from, to)
    <3>1. CASE SetupFailed(c)
      BY <3>1 DEF SetupFailed, ClientLabels
    <3>2. CASE SetupDone(c)
      BY <3>2 DEF SetupDone, ClientLabels
    <3>3. CASE ExitDec(c)
      BY <3>3 DEF ExitDec, ClientLabels
    <3>4. QED BY <1>3, <3>1, <3>2, <3>3
  <2>2. QED BY <2>1, TasksDecCounts DEF TasksCounted
<1>4. CASE SetupLock(c) \/ EnterLock(c) \/ SetupRing(c) \/ Control(c)
  <2>1. PICK to \in {"setup", "control", "setup_dec", "exit_dec"} :
               pc[c] \in Pending /\ pc' = [pc EXCEPT ![c] = to] /\ tasks' = tasks
    BY <1>4 DEF SetupLock, EnterLock, LockRunloop, SetupRing, Control, Goto
  <2>2. QED BY <2>1, <1>b DEF ClientLabels
<1>5. CASE SetupOpen(c) \/ SetupFails(c)
  <2>1. PICK to \in {"setup_ring", "fail_dec"} :
               pc[c] \in Pending /\ StartRunloop(c, to) /\ tasks' = tasks
    BY <1>5 DEF SetupOpen, SetupFails
  <2>2. \/ pc' = [pc EXCEPT ![c] = to]
        \/ \E l \in Loops : pc' = [pc EXCEPT ![c] = to, ![l] = "zero"]
    BY <2>1 DEF StartRunloop
  <2>3. QED BY <2>1, <2>2, <1>b DEF ClientLabels
<1>6. CASE SetupCrashes(c) \/ UsesFreed(c) \/ \E s \in Streams : WakeUnasked(c, s)
  BY <1>6, CountKept DEF SetupCrashes, UsesFreed, WakeUnasked, TasksCounted
<1>7. CASE \/ Join(c) \/ BothWaitDepth(c) \/ BothLockDepth(c) \/ BothWaitVideo(c)
           \/ BothFrames(c) \/ \E s \in Streams : GetWait(c, s) \/ GetFrame(c, s)
  <2>1. PICK to \in {"idle", "both_video", "take_asleep", "both_depth_asleep",
                     "both_video_asleep"} :
               pc[c] \notin Pending /\ pc' = [pc EXCEPT ![c] = to] /\ tasks' = tasks
    <3>1. CASE Join(c) \/ BothLockDepth(c) \/ BothFrames(c)
      BY <3>1 DEF Join, Returns, BothLockDepth, BothFrames, AtRing
    <3>2. CASE BothWaitDepth(c) \/ BothWaitVideo(c)
      BY <3>2 DEF BothWaitDepth, BothWaitVideo, AtRing, WaitFrame
    <3>3. CASE \E s \in Streams : GetWait(c, s) \/ GetFrame(c, s)
      BY <3>3 DEF GetWait, GetFrame, Returns, AtRing, WaitFrame
    <3>4. QED BY <1>7, <3>1, <3>2, <3>3
  <2>2. QED BY <2>1, <1>a DEF ClientLabels, Waits
<1>8. QED BY <1>1, <1>2, <1>3, <1>4, <1>5, <1>6, <1>7 DEF ClientStep

\* A runloop does not count.
LEMMA LoopCounts ==
  ASSUME LabelsOK, TasksExact, NEW l \in Loops, LoopStep(l) \/ EventsFail(l)
  PROVE  TasksCounted
<1>1. tasks' = tasks
  BY DEF LoopStep, EventsFail, LoopZero, LoopRelock, LoopQuits, EventsReturn, Deliver, Callback,
         Cleanup
<1>2. \A c \in Clients : pc[c] \in Pending <=> pc'[c] \in Pending
  <2>1. CASE LoopQuits(l) \/ EventsFail(l)
    BY <2>1, ThreadsAssumption DEF LoopQuits, EventsFail, Cleanup, Pending, Waits, Threads
  <2>2. CASE ~(LoopQuits(l) \/ EventsFail(l))
    <3>1. PICK to : pc' = [pc EXCEPT ![l] = to]
      BY <2>2 DEF LoopStep, LoopZero, LoopRelock, EventsReturn, Deliver, Callback, Goto
    <3>2. QED BY <3>1, ThreadsAssumption DEF LabelsOK, Threads
  <2>3. QED BY <2>1, <2>2
<1>3. QED BY <1>1, <1>2, CountKept DEF TasksCounted

-----------------------------------------------------------------------------
\* What a call may want.
Wants == {m \in [Streams -> VideoFormats \cup DepthFormats \cup {NoFormat}] :
            \A s \in Streams : m[s] \in Formats[s] \cup {NoFormat}}

\* The formats of the two streams.
LEMMA FormatsAre ==
  /\ Formats["video"] = VideoFormats /\ Formats["depth"] = DepthFormats
  /\ \A s \in Streams : Formats[s] \subseteq VideoFormats \cup DepthFormats
  /\ Depth11 \in DepthFormats
<1>1. QED BY FormatsAssumption DEF Formats, Streams

\* Wanting one more format, or both.
LEMMA OneWant ==
  ASSUME NEW m \in Wants, NEW s \in Streams, NEW f \in Formats[s]
  PROVE  [m EXCEPT ![s] = f] \in Wants
<1>1. QED BY FormatsAre DEF Wants

\* sync_get_both wants one of each.
LEMMA BothWant ==
  ASSUME NEW d \in DepthFormats, NEW v \in VideoFormats
  PROVE  [depth |-> d, video |-> v] \in Wants
<1> DEFINE m == [depth |-> d, video |-> v]
<1>1. m \in [Streams -> VideoFormats \cup DepthFormats \cup {NoFormat}]
  BY DEF Streams
<1>2. m["depth"] = d /\ m["video"] = v
  OBVIOUS
<1> HIDE DEF m
<1>3. \A s \in Streams : m[s] \in Formats[s] \cup {NoFormat}
  BY <1>2, FormatsAre DEF Streams
<1>4. QED BY <1>1, <1>3 DEF m, Wants

\* The record of a client that has made no call, and those of the calls.
LEMMA NoCallIs ==
  /\ NoCall \in CallRecords /\ NoCall.fmt \in Wants
  /\ NoCall.fun = "none" /\ NoCall.target = "depth"
<1>1. [s \in Streams |-> NoFormat] \in Wants
  BY DEF Wants
<1>2. QED BY <1>1 DEF NoCall, CallRecords, Streams, Wants

GetCall(s, f) == [NoCall EXCEPT !.fun = s, !.fmt[s] = f, !.target = s]

\* sync_get is about one stream.
LEMMA GetCallIs ==
  ASSUME NEW s \in Streams, NEW f \in Formats[s], NEW r, r = GetCall(s, f)
  PROVE  r \in CallRecords /\ r.fun = s /\ r.target = s /\ r.fmt[s] = f
<1>1. PICK n \in CallRecords : n = NoCall /\ n.fmt \in Wants
  BY NoCallIs
<1>2. PICK m : m = [n.fmt EXCEPT ![s] = f]
  OBVIOUS
<1>3. m \in Wants /\ m[s] = f
  BY <1>1, <1>2, OneWant DEF Wants
<1>4. r = [n EXCEPT !.fun = s, !.fmt = m, !.target = s]
  BY <1>1, <1>2 DEF GetCall
<1>5. QED BY <1>3, <1>4 DEF CallRecords, Wants, AllCalls, Streams

\* sync_get_both begins with depth.
LEMMA BothCallIs ==
  ASSUME NEW d \in DepthFormats, NEW v \in VideoFormats, NEW r,
         r = [NoCall EXCEPT !.fun = "both", !.fmt = [depth |-> d, video |-> v]]
  PROVE  /\ r \in CallRecords /\ r.fun = "both" /\ r.target = "depth"
         /\ \A s \in Streams : r.fmt[s] \in Formats[s]
<1>1. PICK n \in CallRecords : n = NoCall /\ n.target = "depth"
  BY NoCallIs
<1>2. PICK m : m = [depth |-> d, video |-> v]
  OBVIOUS
<1>3. m \in Wants /\ m["depth"] = d /\ m["video"] = v
  BY <1>2, BothWant
<1>4. r = [n EXCEPT !.fun = "both", !.fmt = m]
  BY <1>1, <1>2
<1>5. r \in CallRecords /\ r.fun = "both" /\ r.target = "depth" /\ r.fmt = m
  BY <1>1, <1>3, <1>4 DEF CallRecords, Wants, AllCalls
<1>6. QED BY <1>3, <1>5, FormatsAre DEF Streams

\* wrap_setup_kinect is about video.
LEMMA SetupCallIs ==
  ASSUME NEW v \in VideoFormats, NEW r,
         r = [NoCall EXCEPT !.fun = "setup", !.fmt.video = v, !.target = "video"]
  PROVE  r \in CallRecords /\ r.fun = "setup" /\ r.target = "video" /\ r.fmt["video"] = v
<1>1. PICK n \in CallRecords : n = NoCall /\ n.fmt \in Wants
  BY NoCallIs
<1>2. PICK m : m = [n.fmt EXCEPT !["video"] = v]
  OBVIOUS
<1>3. m \in Wants /\ m["video"] = v
  BY <1>1, <1>2, OneWant, FormatsAre DEF Wants, Streams
<1>4. r = [n EXCEPT !.fun = "setup", !.fmt = m, !.target = "video"]
  BY <1>1, <1>2
<1>5. QED BY <1>3, <1>4 DEF CallRecords, Wants, AllCalls, Streams

\* The others set up depth, in 11 bits.
LEMMA ControlCallIs ==
  ASSUME NEW r, r = [NoCall EXCEPT !.fun = "control", !.fmt.depth = Depth11]
  PROVE  r \in CallRecords /\ r.fun = "control" /\ r.target = "depth" /\ r.fmt["depth"] = Depth11
<1>1. PICK n \in CallRecords : n = NoCall /\ n.fmt \in Wants /\ n.target = "depth"
  BY NoCallIs
<1>2. PICK m : m = [n.fmt EXCEPT !["depth"] = Depth11]
  OBVIOUS
<1>3. m \in Wants /\ m["depth"] = Depth11
  BY <1>1, <1>2, OneWant, FormatsAre DEF Wants, Streams
<1>4. r = [n EXCEPT !.fun = "control", !.fmt = m]
  BY <1>1, <1>2
<1>5. QED BY <1>1, <1>3, <1>4 DEF CallRecords, Wants, AllCalls, Streams

\* freenect_sync_stop wants nothing.
LEMMA StopCallIs ==
  ASSUME NEW r, r = [NoCall EXCEPT !.fun = "stop"]
  PROVE  r \in CallRecords /\ r.fun = "stop"
<1>1. PICK n \in CallRecords : n = NoCall
  BY NoCallIs
<1>2. r = [n EXCEPT !.fun = "stop"]
  BY <1>1
<1>3. QED BY <1>2 DEF CallRecords, AllCalls

Callers == [Clients -> CallRecords]

\* One client's call changes to another call.
LEMMA AskingOneKeeps ==
  ASSUME call \in Callers, NEW c \in Clients, NEW r \in CallRecords, call' = [call EXCEPT ![c] = r]
  PROVE  call' \in Callers
<1>1. QED BY DEF Callers

\* The calls remain calls.
LEMMA CallsTyped ==
  ASSUME call \in Callers, [Next]_vars
  PROVE  call' \in Callers
<1>1. ASSUME NEW c \in Clients, Call(c) PROVE call' \in Callers
  <2>1. ASSUME NEW s \in Streams, NEW f \in Formats[s], CallGet(c, s, f) PROVE call' \in Callers
    <3>1. PICK r : r = GetCall(s, f)
      OBVIOUS
    <3>2. r \in CallRecords
      BY <3>1, GetCallIs
    <3>3. QED BY <2>1, <3>1, <3>2, AskingOneKeeps DEF CallGet, GetCall
  <2>2. ASSUME NEW d \in DepthFormats, NEW v \in VideoFormats, CallBoth(c, d, v)
        PROVE  call' \in Callers
    <3>1. PICK r : r = [NoCall EXCEPT !.fun = "both", !.fmt = [depth |-> d, video |-> v]]
      OBVIOUS
    <3>2. r \in CallRecords
      BY <3>1, BothCallIs
    <3>3. QED BY <2>2, <3>1, <3>2, AskingOneKeeps DEF CallBoth
  <2>3. ASSUME NEW v \in VideoFormats, CallSetup(c, v) PROVE call' \in Callers
    <3>1. PICK r : r = [NoCall EXCEPT !.fun = "setup", !.fmt.video = v, !.target = "video"]
      OBVIOUS
    <3>2. r \in CallRecords
      BY <3>1, SetupCallIs
    <3>3. QED BY <2>3, <3>1, <3>2, AskingOneKeeps DEF CallSetup
  <2>4. ASSUME CallControl(c) PROVE call' \in Callers
    <3>1. PICK r : r = [NoCall EXCEPT !.fun = "control", !.fmt.depth = Depth11]
      OBVIOUS
    <3>2. r \in CallRecords
      BY <3>1, ControlCallIs
    <3>3. QED BY <2>4, <3>1, <3>2, AskingOneKeeps DEF CallControl
  <2>5. ASSUME CallStop(c) PROVE call' \in Callers
    <3>1. PICK r : r = [NoCall EXCEPT !.fun = "stop"]
      OBVIOUS
    <3>2. r \in CallRecords
      BY <3>1, StopCallIs
    <3>3. QED BY <2>5, <3>1, <3>2, AskingOneKeeps DEF CallStop
  <2>6. QED BY <1>1, <2>1, <2>2, <2>3, <2>4, <2>5 DEF Call
<1>2. ASSUME NEW c \in Clients,
             Returns(c) \/ SetupFailed(c) \/ SetupDone(c) \/ ExitDec(c) \/ SetupFails(c)
      PROVE  call' \in Callers
  <2>1. PICK r \in CallRecords : call' = call \/ call' = [call EXCEPT ![c] = r]
    <3>1. CASE call' = [call EXCEPT ![c] = NoCall]
      BY <3>1, NoCallIs
    <3>2. CASE call' = [call EXCEPT ![c].target = "video"]
      <4>1. [call[c] EXCEPT !.target = "video"] \in CallRecords
        BY DEF Callers, CallRecords, Streams
      <4>2. QED BY <4>1, <3>2
    <3>3. CASE call' = [call EXCEPT ![c].started = ~threadRunning]
      <4>1. [call[c] EXCEPT !.started = ~threadRunning] \in CallRecords
        <5>1. PICK b \in BOOLEAN : b = (~threadRunning)
          OBVIOUS
        <5>2. [call[c] EXCEPT !.started = b] \in CallRecords
          BY DEF Callers, CallRecords
        <5>3. QED BY <5>1, <5>2
      <4>2. QED BY <4>1, <3>3
    <3>4. CASE call' = call
      BY <3>4, NoCallIs
    <3>5. QED BY <1>2, <3>1, <3>2, <3>3, <3>4
          DEF Returns, SetupFailed, SetupDone, ExitDec, SetupFails
  <2>2. QED BY <2>1, AskingOneKeeps
<1>3. ASSUME NEW c \in Clients, ClientStep(c) PROVE call' \in Callers
  <2>1. CASE call' = call
    BY <2>1
  <2>2. CASE ~(call' = call)
    <3>1. Returns(c) \/ SetupFailed(c) \/ SetupDone(c) \/ ExitDec(c) \/ SetupFails(c)
      BY <1>3, <2>2 DEF ClientStep, SetupInc, EnterInc, TasksInc, SetupLock, EnterLock, LockRunloop,
         SetupOpen, SetupCrashes, SetupRing, Join, GetWait, GetFrame, WaitFrame, BothWaitDepth,
         BothLockDepth, BothWaitVideo, BothFrames, Control
    <3>2. QED BY <3>1, <1>2
  <2>3. QED BY <2>1, <2>2
<1>4. ASSUME NEW c \in Clients, UsesFreed(c) \/ \E s \in Streams : WakeUnasked(c, s)
      PROVE  call' = call
  BY <1>4 DEF UsesFreed, WakeUnasked
<1>5. ASSUME NEW l \in Loops, LoopStep(l) \/ EventsFail(l) PROVE call' = call
  BY <1>5 DEF LoopStep, EventsFail, LoopZero, LoopRelock, LoopQuits, EventsReturn, Deliver, Callback,
     Cleanup
<1>6. CASE UNCHANGED vars
  BY <1>6 DEF vars
<1>7. QED BY <1>1, <1>3, <1>4, <1>5, <1>6 DEF Next

-----------------------------------------------------------------------------
\* What TypeOK says of a ring besides its buffers.
RingTyped(r, s) == /\ r.lock \in Threads \cup {Nobody} /\ r.valid \in BOOLEAN
                   /\ r.fmt \in Formats[s] \cup {NoFormat}

\* A ring that was freed.
LEMMA FreeRingTyped ==
  ASSUME NEW s PROVE RingTyped(FreeRing, s)
<1>1. QED BY DEF RingTyped, FreeRing

\* A ring a frame was taken from.
LEMMA TakenTyped ==
  ASSUME RingsOK, NEW s \in Streams, RingTyped(ring[s], s)
  PROVE  RingTyped(Taken(ring[s]), s)
<1>1. PICK r : r = ring[s]
  OBVIOUS
<1>2. DOMAIN r = {"lock", "bufs", "valid", "fmt"} /\ RingTyped(r, s)
  BY <1>1 DEF RingsOK
<1>3. Taken(r).lock = Nobody /\ Taken(r).valid = FALSE /\ Taken(r).fmt = r.fmt
  BY <1>2 DEF Taken
<1>4. QED BY <1>1, <1>2, <1>3 DEF RingTyped

\* The rings of clients' steps.
LEMMA ClientRingsTyped ==
  ASSUME IInv, call \in Callers, \A s \in Streams : RingTyped(ring[s], s),
         NEW c \in Clients, ClientStep(c)
  PROVE  \A s \in Streams : RingTyped(ring'[s], s)
<1>0. RingsOK
  BY DEF IInv
<1>1. CASE ring' = ring
  BY <1>1
<1>2. CASE ring' = [s \in Streams |-> FreeRing]
  BY <1>2, FreeRingTyped
<1>3. CASE SetupRing(c)
  <2>1. PICK s : s = call[c].target
    OBVIOUS
  <2>2. PICK f : f = call[c].fmt[s]
    OBVIOUS
  <2>3. s \in Streams /\ f \in Formats[s] \cup {NoFormat}
    BY <2>1, <2>2 DEF Callers, CallRecords
  <2>4. ring' = ring \/ ChangeFormat(s, f)
    BY <1>3, <2>1, <2>2 DEF SetupRing
  <2>5. CASE ChangeFormat(s, f)
    <3>1. PICK r : /\ ring' = [ring EXCEPT ![s] = r]
                   /\ r = IF f = BadFormat THEN FreeRing
                          ELSE [FreeRing EXCEPT !.bufs = NewBuffers, !.fmt = f]
      BY <2>5 DEF ChangeFormat
    <3>2. RingTyped(r, s)
      BY <3>1, <2>3 DEF RingTyped, FreeRing
    <3>3. QED BY <3>1, <3>2, <1>0 DEF RingsOK
  <2>6. QED BY <1>1, <2>4, <2>5
<1>4. CASE BothLockDepth(c)
  <2>1. ring' = [ring EXCEPT !["depth"] = [ring["depth"] EXCEPT !.lock = c]]
    BY <1>4 DEF BothLockDepth
  <2>2. PICK r : r = ring["depth"]
    OBVIOUS
  <2>3. DOMAIN r = {"lock", "bufs", "valid", "fmt"} /\ RingTyped(r, "depth")
    BY <2>2, <1>0 DEF RingsOK, Streams
  <2>4. RingTyped([r EXCEPT !.lock = c], "depth")
    BY <2>3 DEF RingTyped, Threads
  <2>5. QED BY <1>0, <2>1, <2>2, <2>4 DEF RingsOK, Streams
<1>5. CASE BothFrames(c) \/ \E s \in Streams : GetFrame(c, s)
  <2>1. \A s \in Streams : ring'[s] \in {ring[s], Taken(ring[s])}
    BY <1>0, <1>5 DEF BothFrames, GetFrame, Returns, RingsOK
  <2>2. QED BY <2>1, <1>0, TakenTyped
<1>6. CASE ~(\/ ring' = ring \/ ring' = [s \in Streams |-> FreeRing])
  <2>1. SetupRing(c) \/ BothLockDepth(c) \/ BothFrames(c) \/ \E s \in Streams : GetFrame(c, s)
    BY <1>6 DEF ClientStep, ringVars, SetupInc, EnterInc, TasksInc, SetupLock, EnterLock, LockRunloop,
         SetupOpen, SetupFails, SetupCrashes, SetupFailed, SetupDone, ExitDec, TasksDec, Join,
         GetWait, WaitFrame, BothWaitDepth, BothWaitVideo, Control
  <2>2. QED BY <2>1, <1>3, <1>4, <1>5
<1>7. QED BY <1>1, <1>2, <1>6

\* The rings of a runloop's steps.
LEMMA LoopRingsTyped ==
  ASSUME IInv, \A s \in Streams : RingTyped(ring[s], s),
         NEW l \in Loops, LoopStep(l) \/ EventsFail(l)
  PROVE  \A s \in Streams : RingTyped(ring'[s], s)
<1>0. RingsOK
  BY DEF IInv
<1>1. CASE ring' = ring
  BY <1>1
<1>2. CASE ring' = [s \in Streams |-> FreeRing]
  BY <1>2, FreeRingTyped
<1>3. CASE \E s \in Streams : Callback(l, s)
  <2>1. PICK s \in Streams : Callback(l, s)
    BY <1>3
  <2>2. /\ ring'[s].lock = ring[s].lock /\ ring'[s].fmt = ring[s].fmt /\ ring'[s].valid = TRUE
        /\ \A u \in Streams \ {s} : ring'[u] = ring[u]
    BY <2>1, <1>0 DEF Callback, RingsOK
  <2>3. QED BY <2>2 DEF RingTyped
<1>4. CASE ~(\/ ring' = ring \/ ring' = [s \in Streams |-> FreeRing])
  <2>1. \E s \in Streams : Callback(l, s)
    BY <1>4 DEF LoopStep, EventsFail, ringVars, LoopZero, LoopRelock, LoopQuits, EventsReturn,
       Deliver, Cleanup
  <2>2. QED BY <2>1, <1>3
<1>5. QED BY <1>1, <1>2, <1>4

\* The counters, the lock and what is asked for again.
ScalarsOK == /\ runloopLock \in Threads \cup {Nobody}
             /\ threadRunning \in BOOLEAN
             /\ thread \in Loops \cup {Nobody}
             /\ context \in {"none", "live", "shut"}
             /\ opened \in BOOLEAN
             /\ made \in 0 .. MaxCalls
             /\ process \in {"up", "crashed"}

\* Clients change them to values of their types.
LEMMA ClientScalars ==
  ASSUME ScalarsOK, NEW c \in Clients,
         Call(c) \/ ClientStep(c) \/ UsesFreed(c) \/ \E s \in Streams : WakeUnasked(c, s)
  PROVE  ScalarsOK'
<1> USE DEF loopVars, ringVars, Threads
<1>1. CASE Call(c)
  <2>1. UNCHANGED <<runloopLock, thread, context, opened, process>>
    BY <1>1 DEF Call, CallGet, CallBoth, CallSetup, CallControl, CallStop
  <2>2. threadRunning' \in {threadRunning, FALSE} /\ made < MaxCalls /\ made' = made + 1
    BY <1>1 DEF Call, CallGet, CallBoth, CallSetup, CallControl, CallStop, Calling
  <2>3. made' \in 0 .. MaxCalls
    BY <2>2, MaxCallsAssumption DEF ScalarsOK
  <2>4. QED BY <2>1, <2>2, <2>3 DEF ScalarsOK
<1>2. CASE ClientStep(c)
  <2>1. made' = made /\ process' \in {process, "crashed"} /\ opened' \in {opened, TRUE}
        /\ threadRunning' \in {threadRunning, TRUE}
    BY <1>2 DEF ClientStep, SetupInc, EnterInc, TasksInc, SetupLock, EnterLock, LockRunloop,
         SetupOpen, SetupFails, SetupCrashes, SetupFailed, SetupDone, SetupRing, ExitDec, TasksDec, Join,
         GetWait, GetFrame, WaitFrame, BothWaitDepth, BothLockDepth, BothWaitVideo, BothFrames, Control
  <2>2. runloopLock' \in {runloopLock, Nobody, c}
    BY <1>2 DEF ClientStep, SetupInc, EnterInc, TasksInc, SetupLock, EnterLock, LockRunloop,
         SetupOpen, SetupFails, SetupCrashes, SetupFailed, SetupDone, SetupRing, ExitDec, TasksDec, Join,
         GetWait, GetFrame, WaitFrame, BothWaitDepth, BothLockDepth, BothWaitVideo, BothFrames, Control
  <2>3. thread' \in {thread} \cup Loops /\ context' \in {context, "live"}
    BY <1>2 DEF ClientStep, SetupInc, EnterInc, TasksInc, SetupLock, EnterLock, LockRunloop,
         SetupOpen, SetupFails, SetupCrashes, SetupFailed, SetupDone, SetupRing, ExitDec, TasksDec, Join,
         GetWait, GetFrame, WaitFrame, BothWaitDepth, BothLockDepth, BothWaitVideo, BothFrames, Control,
         StartRunloop
  <2>4. QED BY <2>1, <2>2, <2>3 DEF ScalarsOK
<1>3. CASE UsesFreed(c) \/ \E s \in Streams : WakeUnasked(c, s)
  BY <1>3 DEF UsesFreed, WakeUnasked, ScalarsOK
<1>4. QED BY <1>1, <1>2, <1>3

\* So do runloops.
LEMMA LoopScalars ==
  ASSUME ScalarsOK, NEW l \in Loops, LoopStep(l) \/ EventsFail(l)
  PROVE  ScalarsOK'
<1>1. /\ runloopLock' \in {runloopLock, Nobody, l} /\ context' \in {context, "shut"}
      /\ opened' \in {opened, FALSE} /\ UNCHANGED <<threadRunning, thread, made, process>>
  BY DEF LoopStep, EventsFail, loopVars, ringVars, LoopZero, LoopRelock, LoopQuits, EventsReturn,
     Deliver, Callback, Cleanup
<1>2. QED BY <1>1 DEF ScalarsOK, Threads

\* Who waits, and what was returned.
GivenOK == out \in [Streams -> 0 .. 3] /\ waiting \in [Streams -> SUBSET Clients]

\* Clients wait, are woken and take buffers.
LEMMA ClientGiven ==
  ASSUME IInv, GivenOK, NEW c \in Clients,
         Call(c) \/ ClientStep(c) \/ UsesFreed(c) \/ \E s \in Streams : WakeUnasked(c, s)
  PROVE  GivenOK'
<1> USE DEF loopVars, ringVars
<1>0. \A s \in Streams : ring[s].bufs[2] \in 0 .. 3
  BY DEF IInv, RingsOK
<1>1. waiting' \in [Streams -> SUBSET Clients]
  <2>1. CASE waiting' = waiting
    BY <2>1 DEF GivenOK
  <2>2. CASE waiting' # waiting
    <3>1. PICK s \in Streams, d \in Clients :
               \/ waiting' = [waiting EXCEPT ![s] = @ \cup {d}]
               \/ waiting' = [waiting EXCEPT ![s] = @ \ {d}]
      <4>1. CASE \E s \in Streams : WakeUnasked(c, s)
        BY <4>1 DEF WakeUnasked
      <4>2. CASE Call(c) \/ UsesFreed(c)
        BY <4>2, <2>2 DEF Call, CallGet, CallBoth, CallSetup, CallControl, CallStop, UsesFreed
      <4>3. CASE ClientStep(c)
        <5>1. BothWaitDepth(c) \/ BothWaitVideo(c) \/ \E s \in Streams : GetWait(c, s)
          BY <4>3, <2>2 DEF ClientStep, SetupInc, EnterInc, TasksInc, SetupLock, EnterLock, LockRunloop,
             SetupOpen, SetupFails, SetupCrashes, SetupFailed, SetupDone, SetupRing, ExitDec,
             TasksDec, Join, GetFrame, BothLockDepth, BothFrames, Control
        <5>2. QED BY <5>1 DEF BothWaitDepth, BothWaitVideo, GetWait, WaitFrame, Streams
      <4>4. QED BY <4>1, <4>2, <4>3
    <3>2. QED BY <3>1 DEF GivenOK
  <2>3. QED BY <2>1, <2>2
<1>2. out' \in [Streams -> 0 .. 3]
  <2>1. CASE out' = out
    BY <2>1 DEF GivenOK
  <2>2. CASE out' # out
    <3>1. CASE Call(c)
      <4>1. CASE \E s \in Streams : \E f \in Formats[s] : CallGet(c, s, f)
        BY <4>1 DEF CallGet, GivenOK
      <4>2. CASE out' = [s \in Streams |-> 0]
        BY <4>2
      <4>3. CASE ~\E s \in Streams : \E f \in Formats[s] : CallGet(c, s, f)
        BY <3>1, <2>2, <4>2, <4>3 DEF Call, CallBoth, CallSetup, CallControl, CallStop
      <4>4. QED BY <4>1, <4>3
    <3>2. CASE ClientStep(c)
      <4>1. BothFrames(c) \/ \E s \in Streams : GetFrame(c, s)
        BY <3>2, <2>2 DEF ClientStep, SetupInc, EnterInc, TasksInc, SetupLock, EnterLock, LockRunloop,
           SetupOpen, SetupFails, SetupCrashes, SetupFailed, SetupDone, SetupRing, ExitDec,
           TasksDec, Join, GetWait, WaitFrame, BothWaitDepth, BothWaitVideo, BothLockDepth, Control
      <4>2. QED BY <4>1, <1>0 DEF BothFrames, GetFrame, GivenOK
    <3>3. QED BY <3>1, <3>2, <2>2 DEF UsesFreed, WakeUnasked
  <2>3. QED BY <2>1, <2>2
<1>3. QED BY <1>1, <1>2 DEF GivenOK

\* Runloops wake them.
LEMMA LoopGiven ==
  ASSUME GivenOK, NEW l \in Loops, LoopStep(l) \/ EventsFail(l)
  PROVE  GivenOK'
<1> USE DEF loopVars, ringVars
<1>1. out' = out
  BY DEF LoopStep, EventsFail, LoopZero, LoopRelock, LoopQuits, EventsReturn, Deliver, Callback, Cleanup
<1>2. CASE waiting' = waiting \/ waiting' = [s \in Streams |-> {}]
  BY <1>1, <1>2 DEF GivenOK
<1>3. CASE ~(waiting' = waiting \/ waiting' = [s \in Streams |-> {}])
  <2>1. PICK s \in Streams : Callback(l, s)
    BY <1>3 DEF LoopStep, EventsFail, LoopZero, LoopRelock, LoopQuits, EventsReturn, Deliver, Cleanup
  <2>2. PICK c : waiting' = [waiting EXCEPT ![s] = @ \ {c}]
    BY <1>3, <2>1 DEF Callback
  <2>3. QED BY <1>1, <2>2 DEF GivenOK
<1>4. QED BY <1>2, <1>3

TypeParts == LabelsOK /\ RingsOK =>
  (TypeInv <=> /\ tasks \in Nat /\ TasksExact /\ ScalarsOK /\ GivenOK /\ call \in Callers
               /\ \A s \in Streams : RingTyped(ring[s], s))

\* The type invariant taken apart.
LEMMA TypeInvIs == TypeParts
<1> SUFFICES ASSUME LabelsOK, RingsOK
             PROVE  TypeInv <=> /\ tasks \in Nat /\ TasksExact /\ ScalarsOK /\ GivenOK
                                /\ call \in Callers
                                /\ \A s \in Streams : RingTyped(ring[s], s)
  BY DEF TypeParts
<1>1. \A s \in Streams : stream[s].on \in BOOLEAN /\ stream[s].buf \in 0 .. 3
                         /\ ring[s].bufs \in [1 .. 3 -> 0 .. 3]
  BY DEF RingsOK
<1>2. GivenOK => \A s \in Streams : waiting[s] \subseteq Clients /\ out[s] \in 0 .. 3
  BY DEF GivenOK
<1>3. QED BY <1>1, <1>2 DEF TypeInv, TypeOK, ScalarsOK, GivenOK, Callers, RingTyped, LabelsOK

\* Every variable keeps its type, and pending_runloop_tasks is the number of clients on
\* their way into or inside a runloop task.
LEMMA NextPreservesTypeInv == IInv /\ TypeInv /\ [Next]_vars => TypeInv'
<1> SUFFICES ASSUME IInv, TypeInv, [Next]_vars PROVE TypeInv'
  OBVIOUS
<1> DEFINE Rings == \A s \in Streams : RingTyped(ring[s], s)
<1>0. /\ LabelsOK /\ RingsOK /\ tasks \in Nat /\ TasksExact /\ ScalarsOK /\ GivenOK
      /\ call \in Callers /\ Rings
  BY TypeInvIs DEF IInv, TypeParts
<1>1. LabelsOK' /\ RingsOK'
  BY NextPreservesIInv DEF IInv
<1>2. call' \in Callers
  BY <1>0, CallsTyped
<1>3. TasksCounted /\ ScalarsOK' /\ GivenOK' /\ Rings'
  <2>1. ASSUME NEW c \in Clients,
               Call(c) \/ ClientStep(c) \/ UsesFreed(c) \/ \E s \in Streams : WakeUnasked(c, s)
        PROVE  TasksCounted /\ ScalarsOK' /\ GivenOK' /\ Rings'
    <3>1. TasksCounted /\ ScalarsOK' /\ GivenOK'
      BY <1>0, <2>1, ClientCounts, ClientScalars, ClientGiven
    <3>2. CASE ClientStep(c)
      BY <1>0, <3>1, <3>2, ClientRingsTyped
    <3>3. CASE ~ClientStep(c)
      <4>1. ring' = ring
        BY <2>1, <3>3 DEF Call, CallGet, CallBoth, CallSetup, CallControl, CallStop, UsesFreed,
           WakeUnasked, ringVars
      <4>2. QED BY <1>0, <3>1, <4>1
    <3>4. QED BY <3>2, <3>3
  <2>2. ASSUME NEW l \in Loops, LoopStep(l) \/ EventsFail(l)
        PROVE  TasksCounted /\ ScalarsOK' /\ GivenOK' /\ Rings'
    <3>1. TasksCounted /\ ScalarsOK' /\ GivenOK'
      BY <1>0, <2>2, LoopCounts, LoopScalars, LoopGiven
    <3>2. Rings'
      BY <1>0, <2>2, LoopRingsTyped
    <3>3. QED BY <3>1, <3>2
  <2>3. CASE UNCHANGED vars
    <3>1. TasksCounted
      BY <1>0, <2>3, CountKept DEF vars, TasksCounted
    <3>2. ScalarsOK' /\ GivenOK' /\ Rings'
      BY <1>0, <2>3 DEF vars, loopVars, ringVars, ScalarsOK, GivenOK
    <3>3. QED BY <3>1, <3>2
  <2>4. QED BY <2>1, <2>2, <2>3 DEF Next
<1>5. TypeParts'
  BY TypeInvIs, PTL
<1>6. QED BY <1>1, <1>2, <1>3, <1>5 DEF TasksCounted, TypeParts

\* At the start nobody is counted.
LEMMA InitEstablishesTypeInv == Init => TypeInv
<1> SUFFICES ASSUME Init PROVE TypeInv
  OBVIOUS
<1>1. IInv
  BY InitEstablishesIInv
<1>2. Counted = {}
  BY ThreadsAssumption DEF Init, Counted, Threads, Pending
<1>3. tasks \in Nat /\ TasksExact
  BY <1>2, FS_EmptySet DEF Init, TasksExact
<1>4. ScalarsOK /\ GivenOK
  <2>1. ScalarsOK
    <3>1. 0 \in 0 .. MaxCalls
      BY MaxCallsAssumption
    <3>2. QED BY <3>1 DEF Init, ScalarsOK
  <2>2. GivenOK
    BY DEF Init, GivenOK
  <2>3. QED BY <2>1, <2>2
<1>5. call \in Callers
  BY NoCallIs DEF Init, Callers
<1>6. \A s \in Streams : RingTyped(ring[s], s)
  BY FreeRingTyped DEF Init
<1>7. QED BY <1>1, <1>3, <1>4, <1>5, <1>6, TypeInvIs DEF IInv, TypeParts

-----------------------------------------------------------------------------
\* Stopping: a runloop is only started when there is none, and joined when it is

\* A client that neither joins nor begins to is alone with clients that do not join.
LEMMA NobodyJoins ==
  ASSUME JoinsAlone, NEW c \in Clients, pc[c] # "idle", ~Joins(c)
  PROVE  \A d \in Clients : ~Joins(d)
<1>1. QED BY DEF JoinsAlone

\* Threads go on: no runloop is started or exits, nobody begins to join.
LEMMA GoingOnKeepsStop ==
  ASSUME StopInv, \A d \in Clients : ~Joins(d) /\ ~Joins(d)', \A l \in Loops : Alive(l)' <=> Alive(l),
         UNCHANGED <<thread, threadRunning, context, opened>>
  PROVE  StopInv'
<1>1. OnlyThread' /\ JoinsAlone'
  BY DEF StopInv, OnlyThread, JoinsAlone
<1>2. SomeLoop' <=> SomeLoop
  BY DEF SomeLoop
<1>3. LoopKnown'
  BY <1>2 DEF StopInv, LoopKnown
<1>4. QED BY <1>1, <1>3 DEF StopInv

\* A client that is not joining goes to another label, and no runloop but a sleeping one
\* notices.
LEMMA ClientGoesOnKeepsStop ==
  ASSUME LabelsOK, StopInv, NEW c \in Clients, NEW to \in ClientLabels, pc[c] # "idle", ~Joins(c),
         \/ pc' = [pc EXCEPT ![c] = to]
         \/ \E l \in Loops : pc[l] = "zero_asleep" /\ pc' = [pc EXCEPT ![c] = to, ![l] = "zero"],
         to \notin {"join", "fail_dec"}, \A d \in Clients \ {c} : call'[d] = call[d],
         UNCHANGED <<thread, threadRunning, context, opened>>
  PROVE  StopInv'
<1>1. \A d \in Clients : ~Joins(d)
  BY NobodyJoins DEF StopInv
<1>2. /\ pc'[c] = to /\ \A d \in Clients \ {c} : pc'[d] = pc[d]
      /\ \A l \in Loops : pc'[l] # pc[l] => pc[l] = "zero_asleep" /\ pc'[l] = "zero"
  BY ThreadsAssumption DEF LabelsOK, Threads
<1>3. \A d \in Clients : ~Joins(d)'
  BY <1>1, <1>2 DEF Joins
<1>4. \A l \in Loops : Alive(l)' <=> Alive(l)
  BY <1>2 DEF Alive
<1>5. QED BY <1>1, <1>3, <1>4, GoingOnKeepsStop

\* Most steps of clients.
LEMMA ClientElsewhereKeepsStop ==
  ASSUME LabelsOK, call \in Callers, StopInv, NEW c \in Clients,
         \/ SetupInc(c) \/ EnterInc(c) \/ SetupLock(c) \/ EnterLock(c) \/ SetupRing(c)
         \/ SetupDone(c) \/ Control(c) \/ ExitDec(c)
         \/ \E s \in Streams : GetWait(c, s) \/ GetFrame(c, s)
         \/ BothWaitDepth(c) \/ BothLockDepth(c) \/ BothWaitVideo(c) \/ BothFrames(c)
  PROVE  StopInv'
<1> USE DEF ClientLabels, Waits, loopVars, ringVars
<1>1. UNCHANGED <<thread, threadRunning, context, opened>>
  BY DEF SetupInc, EnterInc, TasksInc, SetupLock, EnterLock, LockRunloop, SetupRing, SetupDone, TasksDec,
     Control, ExitDec, GetWait, GetFrame, BothWaitDepth, BothWaitVideo, WaitFrame, BothLockDepth, BothFrames
<1>2. pc[c] \notin {"idle", "join", "fail_dec"}
  BY DEF SetupInc, EnterInc, TasksInc, SetupLock, EnterLock, LockRunloop, SetupRing, SetupDone, TasksDec,
     Control, ExitDec, GetWait, GetFrame, BothWaitDepth, BothWaitVideo, BothLockDepth, BothFrames, Goto,
     AtRing
<1>3. \A d \in Clients \ {c} : call'[d] = call[d]
  BY DEF SetupInc, EnterInc, TasksInc, SetupLock, EnterLock, LockRunloop, SetupRing, SetupDone,
     Control, ExitDec, GetWait, GetFrame, BothWaitDepth, BothWaitVideo, WaitFrame, BothLockDepth, BothFrames,
     Returns, Callers
<1>4. PICK to \in ClientLabels \ {"join", "fail_dec"} :
         \/ pc' = [pc EXCEPT ![c] = to]
         \/ \E l \in Loops : pc[l] = "zero_asleep" /\ pc' = [pc EXCEPT ![c] = to, ![l] = "zero"]
  <2>1. CASE \/ SetupInc(c) \/ EnterInc(c) \/ SetupLock(c) \/ EnterLock(c) \/ SetupRing(c) \/ Control(c)
    BY <2>1 DEF SetupInc, EnterInc, TasksInc, SetupLock, EnterLock, LockRunloop, SetupRing, Control, Goto
  <2>2. CASE SetupDone(c)
    <3>1. PICK to \in ClientLabels \ {"join", "fail_dec"} : TasksDec(c, "setup_dec", to)
      BY <2>2 DEF SetupDone
    <3>2. QED BY <3>1 DEF TasksDec
  <2>3. CASE ExitDec(c)
    BY <2>3 DEF ExitDec, TasksDec
  <2>4. CASE BothWaitDepth(c) \/ BothWaitVideo(c) \/ \E s \in Streams : GetWait(c, s)
    BY <2>4 DEF GetWait, BothWaitDepth, BothWaitVideo, WaitFrame
  <2>5. CASE BothLockDepth(c) \/ BothFrames(c) \/ \E s \in Streams : GetFrame(c, s)
    BY <2>5 DEF BothLockDepth, BothFrames, GetFrame, Returns
  <2>6. QED BY <2>1, <2>2, <2>3, <2>4, <2>5
<1>5. ~Joins(c)
  BY <1>2 DEF Joins
<1>6. QED BY <1>1, <1>2, <1>3, <1>4, <1>5, ClientGoesOnKeepsStop

\* A call begins when nobody joins.
LEMMA CallKeepsStop ==
  ASSUME LabelsOK, call \in Callers, StopInv, NEW c \in Clients, Call(c)
  PROVE  StopInv'
<1> USE DEF loopVars, ringVars
<1>1. pc[c] = "idle" /\ ~Stopping
  BY DEF Call, CallGet, CallBoth, CallSetup, CallControl, CallStop, Goto, Calling
<1>2. \A d \in Clients : ~Joins(d)
  BY <1>1 DEF StopInv, JoinsAlone, Joins, Stopping
<1>3. PICK to \in {"idle", "take", "setup_inc", "both_depth", "enter_inc", "join"} :
             pc' = [pc EXCEPT ![c] = to]
  BY DEF Call, CallGet, CallBoth, CallSetup, CallControl, CallStop, Goto
<1>4. /\ pc'[c] = to /\ \A d \in Clients \ {c} : pc'[d] = pc[d]
      /\ \A l \in Loops : pc'[l] = pc[l]
  BY <1>3, ThreadsAssumption DEF LabelsOK, Threads
<1>5. \A l \in Loops : Alive(l)' <=> Alive(l)
  BY <1>4 DEF Alive
<1>6. PICK r : call' = [call EXCEPT ![c] = r] /\ (CallStop(c) => r = [NoCall EXCEPT !.fun = "stop"])
  BY DEF Call, CallGet, CallBoth, CallSetup, CallControl, CallStop
<1>7. call'[c] = r /\ \A d \in Clients \ {c} : call'[d] = call[d]
  BY <1>6 DEF Callers
<1>8. \A d \in Clients \ {c} : ~Joins(d)'
  BY <1>2, <1>4, <1>7 DEF Joins
<1>9. CASE ~CallStop(c)
  <2>1. UNCHANGED <<thread, threadRunning, context, opened>> /\ pc'[c] # "join" /\ pc'[c] # "fail_dec"
    BY <1>4, <1>9, <1>1 DEF Call, CallGet, CallBoth, CallSetup, CallControl, Goto, LabelsOK, Threads
  <2>2. \A d \in Clients : ~Joins(d)'
    BY <1>8, <2>1 DEF Joins
  <2>3. QED BY <1>2, <1>5, <2>1, <2>2, GoingOnKeepsStop
<1>10. CASE CallStop(c)
  <2>1. /\ threadRunning' = FALSE /\ UNCHANGED <<thread, context, opened>>
        /\ pc'[c] = IF threadRunning THEN "join" ELSE "idle"
        /\ \A d \in Clients \ {c} : pc'[d] = "idle"
    BY <1>4, <1>10 DEF CallStop, Goto, LabelsOK, Threads
  <2>2. call'[c].fun = "stop"
    BY <1>6, <1>7, <1>10, StopCallIs
  <2>3. OnlyThread'
    BY <1>5, <2>1 DEF StopInv, OnlyThread
  <2>4. JoinsAlone'
    BY <1>8, <2>1, <2>2 DEF JoinsAlone, Joins
  <2>5. SomeLoop' <=> SomeLoop
    BY <1>5 DEF SomeLoop
  <2>6. LoopKnown'
    <3>1. SomeLoop => threadRunning
      BY <1>2 DEF StopInv, LoopKnown
    <3>2. threadRunning => Joins(c)'
      BY <2>1 DEF Joins
    <3>3. QED BY <2>1, <2>5, <3>1, <3>2 DEF StopInv, LoopKnown
  <2>7. QED BY <2>3, <2>4, <2>6 DEF StopInv
<1>11. QED BY <1>9, <1>10

\* A runloop has been joined.
LEMMA JoinKeepsStop ==
  ASSUME LabelsOK, StopInv, NEW c \in Clients, Join(c)
  PROVE  StopInv'
<1> USE DEF loopVars, ringVars
<1>1. /\ pc[c] = "join" /\ pc[thread] = "exited" /\ pc' = [pc EXCEPT ![c] = "idle"]
      /\ UNCHANGED <<thread, threadRunning, context, opened>>
  BY DEF Join, Returns
<1>2. /\ pc'[c] = "idle" /\ \A d \in Clients \ {c} : pc'[d] = pc[d]
      /\ \A l \in Loops : pc'[l] = pc[l]
  BY <1>1, ThreadsAssumption DEF LabelsOK, Threads
<1>3. Joins(c)
  BY <1>1 DEF Joins
<1>4. ~threadRunning /\ \A d \in Clients \ {c} : pc[d] = "idle"
  BY <1>3 DEF StopInv, JoinsAlone
<1>5. \A l \in Loops : ~Alive(l)
  BY <1>1 DEF StopInv, OnlyThread, Alive
<1>6. (\A l \in Loops : ~Alive(l)') /\ ~opened
  BY <1>2, <1>5 DEF Alive, StopInv, LoopKnown, SomeLoop
<1>7. OnlyThread' /\ LoopKnown'
  BY <1>1, <1>4, <1>6 DEF OnlyThread, LoopKnown, SomeLoop
<1>8. JoinsAlone'
  BY <1>2, <1>4 DEF JoinsAlone, Joins
<1>9. QED BY <1>7, <1>8 DEF StopInv

\* After a failed open the runloop that was started for it is joined.
LEMMA SetupFailedKeepsStop ==
  ASSUME LabelsOK, call \in Callers, StopInv, NEW c \in Clients, SetupFailed(c)
  PROVE  StopInv'
<1> USE DEF loopVars, ringVars
<1>1. /\ pc[c] = "fail_dec" /\ call' = [call EXCEPT ![c] = NoCall]
      /\ UNCHANGED <<thread, threadRunning, context, opened>>
  BY DEF SetupFailed, TasksDec
<1>2. \A d \in Clients \ {c} : call'[d] = call[d]
  BY <1>1 DEF Callers
<1>3. PICK to \in {"join", "idle"} :
         /\ to = IF call[c].started THEN "join" ELSE "idle"
         /\ \/ pc' = [pc EXCEPT ![c] = to]
            \/ \E l \in Loops : pc[l] = "zero_asleep" /\ pc' = [pc EXCEPT ![c] = to, ![l] = "zero"]
  BY DEF SetupFailed, TasksDec
<1>4. CASE ~call[c].started
  <2>1. to = "idle" /\ ~Joins(c)
    BY <1>1, <1>3, <1>4 DEF Joins
  <2>2. QED BY <1>1, <1>2, <1>3, <2>1, ClientGoesOnKeepsStop DEF ClientLabels
<1>5. CASE call[c].started
  <2>1. Joins(c)
    BY <1>1, <1>5 DEF Joins
  <2>2. ~threadRunning /\ Clients = {c}
    BY <1>1, <2>1 DEF StopInv, JoinsAlone
  <2>3. pc'[c] = "join" /\ \A l \in Loops : pc'[l] # pc[l] => pc[l] = "zero_asleep" /\ pc'[l] = "zero"
    BY <1>3, <1>5, ThreadsAssumption DEF LabelsOK, Threads
  <2>4. \A l \in Loops : Alive(l)' <=> Alive(l)
    BY <2>3 DEF Alive
  <2>5. SomeLoop' <=> SomeLoop
    BY <2>4 DEF SomeLoop
  <2>6. OnlyThread'
    BY <1>1, <2>4 DEF StopInv, OnlyThread
  <2>7. JoinsAlone'
    BY <1>1, <2>2 DEF JoinsAlone
  <2>8. LoopKnown'
    BY <1>1, <2>2, <2>3, <2>5 DEF StopInv, LoopKnown, Joins
  <2>9. QED BY <2>6, <2>7, <2>8 DEF StopInv
<1>6. QED BY <1>4, <1>5

\* A runloop is only started when there is none.
LEMMA SetupKeepsStop ==
  ASSUME OneOpens, LabelsOK, call \in Callers, StopInv, threadRunning \in BOOLEAN,
         NEW c \in Clients, SetupOpen(c) \/ SetupFails(c)
  PROVE  StopInv'
<1> USE DEF loopVars, ringVars
<1>1. pc[c] = "setup" /\ ~Joins(c)
  BY DEF SetupOpen, SetupFails, Joins
<1>2. \A d \in Clients : ~Joins(d)
  BY <1>1, NobodyJoins DEF StopInv
<1>3. SomeLoop => threadRunning
  BY <1>2 DEF StopInv, LoopKnown
<1>4. ASSUME NEW to, StartRunloop(c, to)
      PROVE  /\ pc'[c] = to /\ \A d \in Clients \ {c} : pc'[d] = pc[d]
             /\ threadRunning => /\ UNCHANGED <<thread, context>>
                                 /\ \A l \in Loops : Alive(l)' <=> Alive(l)
             /\ ~threadRunning => /\ thread' \in Loops /\ context' = "live"
                                  /\ \A l \in Loops : Alive(l)' <=> l = thread'
  <2>1. CASE threadRunning
    BY <1>4, <2>1, ThreadsAssumption DEF StartRunloop, LabelsOK, Threads, Alive
  <2>2. CASE ~threadRunning
    <3>1. PICK l \in Loops : pc' = [pc EXCEPT ![c] = to, ![l] = "zero"] /\ thread' = l
                             /\ context' = "live"
      BY <1>4, <2>2 DEF StartRunloop
    <3>2. /\ pc'[c] = to /\ pc'[l] = "zero" /\ \A d \in Clients \ {c} : pc'[d] = pc[d]
          /\ \A k \in Loops \ {l} : pc'[k] = pc[k]
      BY <3>1, ThreadsAssumption DEF LabelsOK, Threads
    <3>3. \A k \in Loops : Alive(k)' <=> k = l
      BY <1>3, <2>2, <3>2 DEF Alive, SomeLoop
    <3>4. QED BY <2>2, <3>1, <3>2, <3>3
  <2>3. QED BY <2>1, <2>2
<1>5. CASE SetupOpen(c)
  <2>1. /\ StartRunloop(c, "setup_ring") /\ threadRunning' = TRUE /\ opened' = TRUE /\ call' = call
        /\ opened \/ ~ContextGone
    BY <1>5 DEF SetupOpen
  <2>2. \A d \in Clients : ~Joins(d)'
    BY <1>2, <1>4, <2>1 DEF Joins
  <2>3. OnlyThread'
    BY <1>4, <2>1 DEF StopInv, OnlyThread
  <2>4. SomeLoop'
    <3>1. CASE threadRunning
      <4>1. SomeLoop
        BY <2>1, <3>1 DEF StopInv, LoopKnown, ContextGone
      <4>2. QED BY <1>4, <2>1, <3>1, <4>1 DEF SomeLoop
    <3>2. CASE ~threadRunning
      BY <1>4, <2>1, <3>2 DEF SomeLoop
    <3>3. QED BY <3>1, <3>2
  <2>5. JoinsAlone' /\ LoopKnown'
    BY <2>1, <2>2, <2>4 DEF JoinsAlone, LoopKnown
  <2>6. QED BY <2>3, <2>5 DEF StopInv
<1>6. CASE SetupFails(c)
  <2>1. /\ StartRunloop(c, "fail_dec") /\ UNCHANGED <<threadRunning, opened>> /\ ~opened
        /\ call' = [call EXCEPT ![c].started = ~threadRunning]
        /\ "open" \in Faults \/ ContextGone
    BY <1>6 DEF SetupFails
  <2>2. \A d \in Clients \ {c} : ~Joins(d)'
    BY <1>2, <1>4, <2>1 DEF Joins, Callers
  <2>3. Joins(c)' <=> ~threadRunning
    <3>1. PICK b \in BOOLEAN : b = (~threadRunning)
      OBVIOUS
    <3>2. call'[c].started = b
      BY <2>1, <3>1 DEF Callers, CallRecords
    <3>3. pc'[c] = "fail_dec"
      BY <1>4, <2>1
    <3>4. QED BY <3>1, <3>2, <3>3 DEF Joins
  <2>4. OnlyThread'
    BY <1>4, <2>1 DEF StopInv, OnlyThread
  <2>5. CASE threadRunning
    <3>1. SomeLoop' <=> SomeLoop
      BY <1>4, <2>1, <2>5 DEF SomeLoop
    <3>2. JoinsAlone'
      BY <2>2, <2>3, <2>5 DEF JoinsAlone
    <3>3. context' = context
      BY <1>4, <2>1, <2>5
    <3>4. LoopKnown'
      BY <2>1, <2>5, <3>1, <3>3 DEF StopInv, LoopKnown
    <3>5. QED BY <2>4, <3>2, <3>4 DEF StopInv
  <2>6. CASE ~threadRunning
    <3>1. Clients = {c}
      BY <2>1, <2>6 DEF OneOpens, ContextGone
    <3>2. JoinsAlone'
      BY <2>1, <2>6, <3>1 DEF JoinsAlone
    <3>3. LoopKnown'
      BY <2>1, <2>3, <2>6 DEF LoopKnown
    <3>4. QED BY <2>4, <3>2, <3>3 DEF StopInv
  <2>7. QED BY <2>5, <2>6
<1>7. QED BY <1>5, <1>6

\* A runloop exits, with the device gone, or goes on.
LEMMA LoopKeepsStop ==
  ASSUME LabelsOK, StopInv, NEW l \in Loops, LoopStep(l) \/ EventsFail(l)
  PROVE  StopInv'
<1> USE DEF loopVars, ringVars
<1>0. UNCHANGED <<thread, threadRunning, call>>
  BY DEF LoopStep, EventsFail, LoopZero, LoopRelock, LoopQuits, EventsReturn, Deliver, Callback, Cleanup
<1>1. CASE LoopQuits(l) \/ EventsFail(l)
  <2>1. Cleanup(l) /\ Alive(l)
    BY <1>1 DEF LoopQuits, EventsFail, Alive
  <2>2. /\ pc'[l] = "exited" /\ \A k \in Loops \ {l} : pc'[k] = pc[k]
        /\ \A c \in Clients : pc'[c] # pc[c] => pc[c] \in Waits /\ pc'[c] = "lost"
    BY <2>1, ThreadsAssumption DEF Cleanup, LabelsOK, Threads, LoopLabels, Waits
  <2>3. \A k \in Loops : ~Alive(k)'
    BY <2>1, <2>2 DEF Alive, StopInv, OnlyThread
  <2>4. \A c \in Clients : Joins(c)' <=> Joins(c)
    BY <2>2, <1>0 DEF Joins, Waits
  <2>5. \A c \in Clients : (pc[c] = "idle" => pc'[c] = "idle") /\ (pc[c] = "join" => pc'[c] = "join")
    BY <2>2 DEF Waits
  <2>6. JoinsAlone'
    BY <1>0, <2>4, <2>5 DEF StopInv, JoinsAlone
  <2>7. OnlyThread' /\ LoopKnown'
    BY <2>1, <2>3 DEF OnlyThread, LoopKnown, SomeLoop, Cleanup
  <2>8. QED BY <2>6, <2>7 DEF StopInv
<1>2. CASE ~(LoopQuits(l) \/ EventsFail(l))
  <2>1. PICK to \in LoopLabels \ {"unborn", "exited"} :
               pc' = [pc EXCEPT ![l] = to] /\ pc[l] \notin {"unborn", "exited"}
    BY <1>2 DEF LoopStep, LoopZero, LoopRelock, EventsReturn, Deliver, Callback, Goto, LoopLabels, Streams
  <2>2. /\ pc'[l] = to /\ (\A k \in Loops \ {l} : pc'[k] = pc[k]) /\ \A c \in Clients : pc'[c] = pc[c]
    BY <2>1, ThreadsAssumption DEF LabelsOK, Threads
  <2>3. \A k \in Loops : Alive(k)' <=> Alive(k)
    BY <2>1, <2>2 DEF Alive
  <2>4. UNCHANGED <<context, opened>>
    BY <1>2 DEF LoopStep, LoopZero, LoopRelock, EventsReturn, Deliver, Callback
  <2>5. SomeLoop' <=> SomeLoop
    BY <2>3 DEF SomeLoop
  <2>6. \A c \in Clients : Joins(c)' <=> Joins(c)
    BY <1>0, <2>2 DEF Joins
  <2>7. JoinsAlone'
    BY <1>0, <2>2, <2>6 DEF StopInv, JoinsAlone
  <2>8. OnlyThread'
    BY <1>0, <2>3 DEF StopInv, OnlyThread
  <2>9. LoopKnown'
    BY <1>0, <2>4, <2>5, <2>6 DEF StopInv, LoopKnown
  <2>10. QED BY <2>7, <2>8, <2>9 DEF StopInv
<1>3. QED BY <1>1, <1>2

\* Whatever clients and runloops do, what is known of stopping stays true.
LEMMA NextPreservesStop ==
  ASSUME OneOpens
  PROVE  IInv /\ TypeInv /\ StopInv /\ [Next]_vars => StopInv'
<1> SUFFICES ASSUME IInv, TypeInv, StopInv, [Next]_vars PROVE StopInv'
  OBVIOUS
<1>0. LabelsOK /\ call \in Callers /\ threadRunning \in BOOLEAN
  BY DEF IInv, TypeInv, TypeOK, Callers
<1>1. ASSUME UNCHANGED <<pc, call, thread, threadRunning, context, opened>> PROVE StopInv'
  BY <1>1 DEF StopInv, OnlyThread, JoinsAlone, LoopKnown, SomeLoop, Joins, Alive
<1>2. ASSUME NEW c \in Clients,
             Call(c) \/ ClientStep(c) \/ UsesFreed(c) \/ \E s \in Streams : WakeUnasked(c, s)
      PROVE  StopInv'
  <2>1. CASE Call(c)
    BY <1>0, <2>1, CallKeepsStop
  <2>2. CASE ClientStep(c)
    <3>1. CASE SetupCrashes(c)
      BY <1>1, <3>1 DEF SetupCrashes, loopVars, ringVars
    <3>2. CASE ~SetupCrashes(c)
      BY <1>0, <2>2, <3>2, ClientElsewhereKeepsStop, JoinKeepsStop, SetupFailedKeepsStop, SetupKeepsStop
      DEF ClientStep
    <3>3. QED BY <3>1, <3>2
  <2>3. CASE UsesFreed(c) \/ \E s \in Streams : WakeUnasked(c, s)
    BY <1>1, <2>3 DEF UsesFreed, WakeUnasked, loopVars, ringVars
  <2>4. QED BY <1>2, <2>1, <2>2, <2>3
<1>3. ASSUME NEW l \in Loops, LoopStep(l) \/ EventsFail(l) PROVE StopInv'
  BY <1>0, <1>3, LoopKeepsStop
<1>4. CASE UNCHANGED vars
  BY <1>1, <1>4 DEF vars, loopVars, ringVars
<1>5. QED BY <1>2, <1>3, <1>4 DEF Next

\* At the start there is no runloop.
LEMMA InitEstablishesStop == Init => StopInv
<1> SUFFICES ASSUME Init PROVE StopInv
  OBVIOUS
<1>1. (\A l \in Loops : pc[l] = "unborn") /\ \A c \in Clients : pc[c] = "idle"
  BY ThreadsAssumption DEF Init, Threads
<1>2. (\A l \in Loops : ~Alive(l)) /\ \A c \in Clients : ~Joins(c)
  BY <1>1 DEF Alive, Joins
<1>3. ~threadRunning /\ ~opened
  BY DEF Init
<1>4. QED BY <1>2, <1>3 DEF StopInv, OnlyThread, JoinsAlone, LoopKnown, SomeLoop

\* Nobody joins and nobody runs.
LEMMA StopIsClean ==
  ASSUME StopInv
  PROVE  CleanStop
<1> DEFINE Running == {l \in Loops : pc[l] \notin {"unborn", "exited"}}
<1>1. ~threadRunning /\ (\A c \in Clients : pc[c] = "idle") =>
          ~opened /\ \A l \in Loops : pc[l] \in {"unborn", "exited"}
  BY DEF StopInv, LoopKnown, SomeLoop, Alive, Joins
<1>2. Running \subseteq {thread}
  BY DEF StopInv, OnlyThread, Alive
<1>3. Cardinality(Running) <= 1
  <2>1. IsFiniteSet({thread}) /\ Cardinality({thread}) = 1
    BY FS_Singleton
  <2>2. Cardinality(Running) <= Cardinality({thread})
    BY <1>2, <2>1, FS_Subset
  <2>3. QED BY <2>1, <2>2
<1>4. QED BY <1>1, <1>3 DEF CleanStop

-----------------------------------------------------------------------------
\* Buffers that were returned

\* What is known of a client from its label.
InTasks == {"enter_inc", "enter_lock", "control", "exit_dec"}

Known(c) == /\ pc[c] \in SettingUp => call[c].fun \in Calls /\ Asks(c)
            /\ pc[c] \in InTasks => call[c].fun = "control"
            /\ pc[c] = "join" => call[c].fun = "stop"
            /\ pc[c] # "fail_dec"

\* It is known of all clients.
LEMMA KnownIs == CallsKnown <=> \A c \in Clients : Known(c)
<1>1. QED BY DEF CallsKnown, Known, InTasks

\* A client whose label says no more of its call than before.
LEMMA KnownKept ==
  ASSUME NEW c \in Clients, Known(c), call'[c] = call[c], pc'[c] # "fail_dec",
         pc'[c] \in SettingUp => pc[c] \in SettingUp, pc'[c] \in InTasks => pc[c] \in InTasks,
         pc'[c] = "join" => pc[c] = "join"
  PROVE  Known(c)'
<1>1. Asks(c)' <=> Asks(c)
  BY DEF Asks
<1>2. QED BY <1>1 DEF Known

\* Nobody else's label or call changes.
LEMMA OneKnown ==
  ASSUME CallsKnown, NEW c \in Clients, Known(c)',
         \A d \in Clients \ {c} : pc'[d] = pc[d] /\ call'[d] = call[d]
  PROVE  CallsKnown'
<1>1. \A d \in Clients : Known(d)
  BY KnownIs
<1>2. \A d \in Clients \ {c} : Known(d)'
  BY <1>1, KnownKept DEF Known
<1>3. QED BY <1>2 DEF CallsKnown, Known, InTasks

\* With no fault setup_kinect opens the device.
LEMMA NoFailure ==
  ASSUME FormatsFixed, DeviceKept, NEW c \in Clients
  PROVE  ~SetupFails(c) /\ ~SetupCrashes(c)
<1>1. opened \/ ~ContextGone
  BY DEF DeviceKept, ContextGone
<1>2. QED BY <1>1 DEF SetupFails, SetupCrashes, FormatsFixed

-----------------------------------------------------------------------------
\* What a client's step does to it and to nobody else.
LEMMA StepGoes ==
  ASSUME LabelsOK, call \in Callers, NEW c \in Clients, Call(c) \/ ClientStep(c)
  PROVE  \A d \in Clients \ {c} : pc'[d] = pc[d] /\ call'[d] = call[d]
<1>1. PICK to : \/ pc' = pc \/ pc' = [pc EXCEPT ![c] = to]
                \/ \E l \in Loops : pc' = [pc EXCEPT ![c] = to, ![l] = "zero"]
  <2>1. CASE Call(c)
    BY <2>1 DEF Call, CallGet, CallBoth, CallSetup, CallControl, CallStop, Goto
  <2>2. CASE SetupFailed(c) \/ SetupDone(c) \/ ExitDec(c)
    <3>1. PICK from, to : TasksDec(c, from, to)
      BY <2>2 DEF SetupFailed, SetupDone, ExitDec
    <3>2. QED BY <3>1 DEF TasksDec
  <2>3. CASE SetupOpen(c) \/ SetupFails(c)
    BY <2>3 DEF SetupOpen, SetupFails, StartRunloop
  <2>4. CASE SetupInc(c) \/ EnterInc(c) \/ SetupLock(c) \/ EnterLock(c) \/ SetupRing(c)
             \/ Control(c) \/ Join(c) \/ SetupCrashes(c)
    BY <2>4 DEF SetupInc, EnterInc, TasksInc, SetupLock, EnterLock, LockRunloop, SetupRing, Control,
       Join, Returns, SetupCrashes, Goto
  <2>5. CASE BothWaitDepth(c) \/ BothWaitVideo(c) \/ \E s \in Streams : GetWait(c, s)
    BY <2>5 DEF GetWait, BothWaitDepth, BothWaitVideo, WaitFrame
  <2>6. CASE BothLockDepth(c) \/ BothFrames(c) \/ \E s \in Streams : GetFrame(c, s)
    BY <2>6 DEF BothLockDepth, BothFrames, GetFrame, Returns
  <2>7. QED BY <2>1, <2>2, <2>3, <2>4, <2>5, <2>6 DEF ClientStep
<1>2. \A d \in Clients \ {c} : pc'[d] = pc[d]
  BY <1>1, ThreadsAssumption DEF LabelsOK, Threads
<1>3. PICK r : call' = call \/ call' = [call EXCEPT ![c] = r]
  <2>1. CASE Call(c)
    BY <2>1 DEF Call, CallGet, CallBoth, CallSetup, CallControl, CallStop
  <2>2. CASE ClientStep(c)
    BY <2>2 DEF ClientStep, SetupInc, EnterInc, TasksInc, SetupLock, EnterLock, LockRunloop,
       SetupOpen, SetupFails, SetupCrashes, SetupFailed, SetupDone, SetupRing, ExitDec, Join,
       GetWait, GetFrame, WaitFrame, BothWaitDepth, BothLockDepth, BothWaitVideo, BothFrames, Control,
       Returns
  <2>3. QED BY <2>1, <2>2
<1>4. \A d \in Clients \ {c} : call'[d] = call[d]
  BY <1>3 DEF Callers
<1>5. QED BY <1>2, <1>4

\* The label a dec leads to.
LEMMA DecGoes ==
  ASSUME LabelsOK, NEW c \in Clients, NEW from, NEW to, TasksDec(c, from, to)
  PROVE  pc[c] = from /\ pc'[c] = to
<1>1. \/ pc' = [pc EXCEPT ![c] = to]
      \/ \E l \in Loops : pc' = [pc EXCEPT ![c] = to, ![l] = "zero"]
  BY DEF TasksDec
<1>2. pc'[c] = to
  BY <1>1, ThreadsAssumption DEF LabelsOK, Threads
<1>3. QED BY <1>2 DEF TasksDec

\* A call asks for formats there are.
LEMMA CallKnown ==
  ASSUME LabelsOK, call \in Callers, NEW c \in Clients, Call(c)
  PROVE  Known(c)'
<1> USE DEF SettingUp, InTasks
<1>0. c \in DOMAIN pc
  BY DEF LabelsOK, Threads
<1>1. ASSUME NEW s \in Streams, NEW f \in Formats[s], CallGet(c, s, f) PROVE Known(c)'
  <2>1. PICK r : r = GetCall(s, f)
    OBVIOUS
  <2>2. call'[c] = r
    BY <1>1, <2>1 DEF CallGet, GetCall, Callers
  <2>3. r.fun = s /\ r.target = s /\ r.fmt[s] = f /\ s \in Calls
    BY <1>1, <2>1, GetCallIs DEF CallGet, Calling
  <2>4. Asks(c)'
    BY <2>2, <2>3 DEF Asks
  <2>5. pc'[c] \in {"take", "setup_inc"}
    BY <1>0, <1>1 DEF CallGet, Goto
  <2>6. QED BY <2>2, <2>3, <2>4, <2>5 DEF Known
<1>2. ASSUME NEW d \in DepthFormats, NEW v \in VideoFormats, CallBoth(c, d, v) PROVE Known(c)'
  <2>1. PICK r : r = [NoCall EXCEPT !.fun = "both", !.fmt = [depth |-> d, video |-> v]]
    OBVIOUS
  <2>2. call'[c] = r
    BY <1>2, <2>1 DEF CallBoth, Callers
  <2>3. r.fun = "both" /\ r.target = "depth" /\ (\A s \in Streams : r.fmt[s] \in Formats[s])
        /\ "both" \in Calls
    BY <1>2, <2>1, BothCallIs DEF CallBoth, Calling
  <2>4. Asks(c)'
    BY <2>2, <2>3 DEF Asks, Streams
  <2>5. pc'[c] \in {"both_depth", "setup_inc"}
    BY <1>0, <1>2 DEF CallBoth, Goto
  <2>6. QED BY <2>2, <2>3, <2>4, <2>5 DEF Known
<1>3. ASSUME NEW v \in VideoFormats, CallSetup(c, v) PROVE Known(c)'
  <2>1. PICK r : r = [NoCall EXCEPT !.fun = "setup", !.fmt.video = v, !.target = "video"]
    OBVIOUS
  <2>2. call'[c] = r
    BY <1>3, <2>1 DEF CallSetup, Callers
  <2>3. r.fun = "setup" /\ r.target = "video" /\ r.fmt["video"] = v /\ "setup" \in Calls
    BY <1>3, <2>1, SetupCallIs DEF CallSetup, Calling
  <2>4. Asks(c)'
    BY <2>2, <2>3, FormatsAre DEF Asks
  <2>5. pc'[c] = "setup_inc"
    BY <1>0, <1>3 DEF CallSetup, Goto
  <2>6. QED BY <2>2, <2>3, <2>4, <2>5 DEF Known
<1>4. ASSUME CallControl(c) PROVE Known(c)'
  <2>1. PICK r : r = [NoCall EXCEPT !.fun = "control", !.fmt.depth = Depth11]
    OBVIOUS
  <2>2. call'[c] = r
    BY <1>4, <2>1 DEF CallControl, Callers
  <2>3. r.fun = "control" /\ r.target = "depth" /\ r.fmt["depth"] = Depth11 /\ "control" \in Calls
    BY <1>4, <2>1, ControlCallIs DEF CallControl, Calling
  <2>4. Asks(c)'
    BY <2>2, <2>3, FormatsAre DEF Asks
  <2>5. pc'[c] \in {"enter_inc", "setup_inc"}
    BY <1>0, <1>4 DEF CallControl, Goto
  <2>6. QED BY <2>2, <2>3, <2>4, <2>5 DEF Known
<1>5. ASSUME CallStop(c) PROVE Known(c)'
  <2>1. PICK r : r = [NoCall EXCEPT !.fun = "stop"]
    OBVIOUS
  <2>2. call'[c] = r
    BY <1>5, <2>1 DEF CallStop, Callers
  <2>3. r.fun = "stop"
    BY <2>1, StopCallIs
  <2>4. pc'[c] \in {"join", "idle"}
    BY <1>0, <1>5 DEF CallStop, Goto
  <2>5. QED BY <2>2, <2>3, <2>4 DEF Known
<1>6. QED BY <1>1, <1>2, <1>3, <1>4, <1>5 DEF Call

\* What follows setup_kinect is what the call was made for.
LEMMA SetupDoneGoes ==
  ASSUME LabelsOK, call \in Callers, NEW c \in Clients, Known(c), SetupDone(c)
  PROVE  /\ pc[c] = "setup_dec" /\ Known(c)'
         /\ pc'[c] = "idle" => call[c].fun = "setup"
         /\ pc'[c] # "idle" => call'[c].fun = call[c].fun
<1> USE DEF SettingUp, InTasks
<1>0. pc[c] = "setup_dec" /\ Asks(c) /\ call[c].fun \in Calls
  BY DEF SetupDone, TasksDec, Known
<1>1. CASE call[c].fun \in Streams
  <2>1. TasksDec(c, "setup_dec", "take") /\ call' = call
    BY <1>1 DEF SetupDone, Streams
  <2>2. pc'[c] = "take"
    BY <2>1, DecGoes
  <2>3. QED BY <1>0, <2>1, <2>2, KnownKept
<1>2. CASE call[c].fun = "control"
  <2>1. TasksDec(c, "setup_dec", "enter_inc") /\ call' = call
    BY <1>2 DEF SetupDone, Streams
  <2>2. pc'[c] = "enter_inc"
    BY <2>1, DecGoes
  <2>3. QED BY <1>0, <1>2, <2>1, <2>2 DEF Known
<1>3. CASE call[c].fun = "setup"
  <2>1. TasksDec(c, "setup_dec", "idle")
    BY <1>3 DEF SetupDone, Streams
  <2>2. pc'[c] = "idle"
    BY <2>1, DecGoes
  <2>3. QED BY <1>0, <1>3, <2>2 DEF Known
<1>4. CASE call[c].fun = "both" /\ call[c].target = "depth"
  <2>1. TasksDec(c, "setup_dec", "setup_inc") /\ call' = [call EXCEPT ![c].target = "video"]
    BY <1>4 DEF SetupDone, Streams
  <2>2. pc'[c] = "setup_inc"
    BY <2>1, DecGoes
  <2>3. call'[c].fun = "both" /\ call'[c].target = "video" /\ call'[c].fmt = call[c].fmt
    BY <1>4, <2>1 DEF Callers, CallRecords
  <2>4. \A s \in Streams : call[c].fmt[s] \in Formats[s]
    BY <1>0, <1>4 DEF Asks, Streams
  <2>5. Asks(c)'
    BY <2>3, <2>4 DEF Asks, Streams
  <2>6. QED BY <1>0, <1>4, <2>2, <2>3, <2>5 DEF Known
<1>5. CASE call[c].fun \notin Streams \cup {"control", "setup"}
           /\ ~(call[c].fun = "both" /\ call[c].target = "depth")
  <2>1. TasksDec(c, "setup_dec", "both_depth") /\ call' = call
    BY <1>5 DEF SetupDone
  <2>2. pc'[c] = "both_depth"
    BY <2>1, DecGoes
  <2>3. QED BY <1>0, <2>1, <2>2, KnownKept
<1>6. QED BY <1>1, <1>2, <1>3, <1>4, <1>5

\* A step leads a client on, within its call or out of it.
LEMMA ClientKnown ==
  ASSUME FormatsFixed, DeviceKept, LabelsOK, call \in Callers, NEW c \in Clients, Known(c),
         ClientStep(c)
  PROVE  Known(c)'
<1> USE DEF SettingUp, InTasks
<1>0. c \in DOMAIN pc /\ ~SetupFails(c) /\ ~SetupCrashes(c) /\ ~SetupFailed(c)
  BY NoFailure DEF LabelsOK, Threads, SetupFailed, TasksDec, Known
<1>1. CASE SetupDone(c)
  BY <1>1, SetupDoneGoes
<1>2. CASE SetupOpen(c)
  <2>1. pc[c] = "setup" /\ pc'[c] = "setup_ring" /\ call' = call
    BY <1>2, <1>0, ThreadsAssumption DEF SetupOpen, StartRunloop, LabelsOK, Threads
  <2>2. QED BY <2>1, KnownKept
<1>3. CASE SetupInc(c) \/ EnterInc(c) \/ SetupLock(c) \/ EnterLock(c) \/ SetupRing(c) \/ Control(c)
  <2>1. call' = call
    BY <1>3 DEF SetupInc, EnterInc, TasksInc, SetupLock, EnterLock, LockRunloop, SetupRing, Control
  <2>2. \/ pc[c] \in SettingUp /\ pc'[c] \in SettingUp
        \/ pc[c] \in InTasks /\ pc'[c] \in InTasks
    BY <1>0, <1>3 DEF SetupInc, EnterInc, TasksInc, SetupLock, EnterLock, LockRunloop, SetupRing,
       Control, Goto
  <2>3. QED BY <2>1, <2>2, KnownKept
<1>4. CASE ExitDec(c) \/ Join(c) \/ BothFrames(c) \/ \E s \in Streams : GetFrame(c, s)
  <2>1. pc'[c] = "idle"
    BY <1>0, <1>4, DecGoes DEF ExitDec, Join, BothFrames, GetFrame, Returns
  <2>2. QED BY <2>1 DEF Known
<1>5. CASE BothWaitDepth(c) \/ BothWaitVideo(c) \/ BothLockDepth(c) \/ \E s \in Streams : GetWait(c, s)
  <2>1. pc'[c] \in Waits
    BY <1>0, <1>5 DEF BothWaitDepth, BothWaitVideo, BothLockDepth, GetWait, WaitFrame, Waits
  <2>2. QED BY <2>1 DEF Known, Waits
<1>6. QED BY <1>0, <1>1, <1>2, <1>3, <1>4, <1>5 DEF ClientStep

-----------------------------------------------------------------------------
\* A ring is full or empty.
Full(r, s) == \/ r.bufs = NoBuffers
              \/ /\ r.bufs[1] # r.bufs[2] /\ r.bufs[1] # r.bufs[3] /\ r.bufs[2] # r.bufs[3]
                 /\ r.bufs[1] # 0 /\ r.bufs[2] # 0 /\ r.bufs[3] # 0
                 /\ r.fmt \in Formats[s] \ {BadFormat}

\* The invariant about rings, buffer by buffer.
LEMMA RingsFullIs == RingsFull <=> \A s \in Streams : Full(ring[s], s)
<1>1. 1 .. 3 = {1, 2, 3}
  OBVIOUS
<1>2. QED BY <1>1 DEF RingsFull, Full

\* Exchanging two buffers.
LEMMA SwapIsFull ==
  ASSUME NEW r, NEW q, NEW s, Full(r, s), r.bufs \in [1 .. 3 -> 0 .. 3], q.fmt = r.fmt,
         NEW i \in {1, 2}, q.bufs = [r.bufs EXCEPT ![i] = r.bufs[i + 1], ![i + 1] = r.bufs[i]]
  PROVE  Full(q, s)
<1>1. CASE i = 1
  BY <1>1 DEF Full, NoBuffers
<1>2. CASE i = 2
  BY <1>2 DEF Full, NoBuffers
<1>3. QED BY <1>1, <1>2

\* What taking a frame does to a ring.
LEMMA TakenIs ==
  ASSUME RingsOK, NEW s \in Streams
  PROVE  /\ Taken(ring[s]).bufs = [ring[s].bufs EXCEPT ![1] = ring[s].bufs[2], ![2] = ring[s].bufs[1]]
         /\ Taken(ring[s]).bufs[1] = ring[s].bufs[2]
         /\ Taken(ring[s]).fmt = ring[s].fmt
<1>1. PICK r : r = ring[s]
  OBVIOUS
<1>2. DOMAIN r = {"lock", "bufs", "valid", "fmt"} /\ r.bufs \in [1 .. 3 -> 0 .. 3]
  BY <1>1 DEF RingsOK
<1>3. Taken(r).bufs = [r.bufs EXCEPT ![1] = r.bufs[2], ![2] = r.bufs[1]] /\ Taken(r).fmt = r.fmt
  BY <1>2 DEF Taken
<1>4. Taken(r).bufs[1] = r.bufs[2]
  BY <1>2, <1>3
<1>5. QED BY <1>1, <1>3, <1>4

\* It leaves a full ring full.
LEMMA TakenIsFull ==
  ASSUME RingsOK, NEW s \in Streams, Full(ring[s], s)
  PROVE  Full(Taken(ring[s]), s)
<1>1. ring[s].bufs \in [1 .. 3 -> 0 .. 3]
  BY DEF RingsOK
<1>2. Taken(ring[s]).bufs = [ring[s].bufs EXCEPT ![1] = ring[s].bufs[1 + 1], ![1 + 1] = ring[s].bufs[1]]
  BY TakenIs
<1>3. Taken(ring[s]).fmt = ring[s].fmt
  BY TakenIs
<1>4. QED BY <1>1, <1>2, <1>3, SwapIsFull

\* A ring that was freed is empty.
LEMMA FreeRingIsFull ==
  ASSUME NEW s PROVE Full(FreeRing, s)
<1>1. QED BY DEF Full, FreeRing

\* A ring's stream.
Fed(d) == d.on \/ d.buf = 0

\* change_*_format makes a full ring or an empty one.
LEMMA ChangedIsFull ==
  ASSUME RingsOK, NEW s \in Streams, NEW f \in Formats[s], ChangeFormat(s, f)
  PROVE  /\ Full(ring'[s], s) /\ Fed(stream'[s])
         /\ \A u \in Streams \ {s} : ring'[u] = ring[u] /\ stream'[u] = stream[u]
<1>1. PICK r, d : /\ ring' = [ring EXCEPT ![s] = r] /\ stream' = [stream EXCEPT ![s] = d]
                  /\ r = IF f = BadFormat THEN FreeRing
                         ELSE [FreeRing EXCEPT !.bufs = NewBuffers, !.fmt = f]
                  /\ d = IF f = BadFormat THEN StreamOff ELSE [on |-> TRUE, buf |-> 3]
  BY DEF ChangeFormat
<1>2. Full(r, s) /\ Fed(d)
  <2>1. CASE f = BadFormat
    BY <1>1, <2>1, FreeRingIsFull DEF StreamOff, Fed
  <2>2. CASE f # BadFormat
    <3>1. r.bufs = NewBuffers /\ r.fmt = f
      BY <1>1, <2>2 DEF FreeRing
    <3>2. QED BY <1>1, <2>2, <3>1 DEF Full, NewBuffers, Fed
  <2>3. QED BY <2>1, <2>2
<1>3. QED BY <1>1, <1>2 DEF RingsOK

-----------------------------------------------------------------------------
\* What is in the functions stays there.
LEMMA StillInFunction ==
  ASSUME NEW c \in Clients,
         \A d \in Clients \ {c} : pc'[d] = pc[d] /\ call'[d] = call[d],
         pc[c] # "idle" /\ call[c].fun \in Streams \cup {"both"} =>
            pc'[c] # "idle" /\ call'[c].fun = call[c].fun
  PROVE  \A s \in Streams : InFunction(s) => InFunction(s)'
<1>1. QED BY DEF InFunction

\* First buffers stay, and so do clients in functions.
LEMMA FirstKept ==
  ASSUME FirstIsReturned, \A s \in Streams : InFunction(s) => InFunction(s)',
         \A s \in Streams : out'[s] = out[s] /\ ring'[s].bufs[1] = ring[s].bufs[1]
  PROVE  FirstIsReturned'
<1>1. QED BY DEF FirstIsReturned

\* What a stream's own functions do not change.
LEMMA OthersFirstKept ==
  ASSUME FirstIsReturned, NEW s \in Streams, out'[s] # 0 /\ ~InFunction(s)' => ring'[s].bufs[1] = out'[s],
         \A u \in Streams \ {s} : /\ InFunction(u) => InFunction(u)'
                                  /\ out'[u] = out[u] /\ ring'[u].bufs[1] = ring[u].bufs[1]
  PROVE  FirstIsReturned'
<1>1. QED BY DEF FirstIsReturned

\* A call gives up the buffers it is about.
LEMMA CallFirst ==
  ASSUME LabelsOK, call \in Callers, GivenOK, BuffersStable, NEW c \in Clients, Call(c)
  PROVE  BuffersStable'
<1> USE DEF BuffersStable, ringVars
<1>0. ring' = ring /\ stream' = stream
  BY DEF Call, CallGet, CallBoth, CallSetup, CallControl, CallStop
<1>1. RingsFull' /\ StreamBuffer'
  BY <1>0 DEF RingsFull, StreamBuffer
<1>2. \A s \in Streams : InFunction(s) => InFunction(s)'
  <2>1. pc[c] = "idle"
    BY DEF Call, CallGet, CallBoth, CallSetup, CallControl, CallStop, Goto
  <2>2. QED BY <2>1, StepGoes, StillInFunction
<1>3. \A s \in Streams : out'[s] \in {out[s], 0}
  BY DEF Call, CallGet, CallBoth, CallSetup, CallControl, CallStop, GivenOK
<1>4. FirstIsReturned'
  BY <1>0, <1>2, <1>3 DEF FirstIsReturned
<1>5. QED BY <1>1, <1>4

\* Steps that touch no ring.
LEMMA ElsewhereFirst ==
  ASSUME LabelsOK, call \in Callers, BuffersStable, NEW c \in Clients, Known(c),
         \/ SetupInc(c) \/ EnterInc(c) \/ SetupLock(c) \/ EnterLock(c) \/ Control(c)
         \/ SetupDone(c) \/ ExitDec(c) \/ Join(c)
         \/ BothWaitDepth(c) \/ BothWaitVideo(c) \/ \E s \in Streams : GetWait(c, s)
  PROVE  BuffersStable'
<1> USE DEF BuffersStable, ringVars
<1>0. c \in DOMAIN pc
  BY DEF LabelsOK, Threads
<1>1. ring' = ring /\ stream' = stream /\ out' = out
  BY DEF SetupInc, EnterInc, TasksInc, SetupLock, EnterLock, LockRunloop, Control, SetupDone, ExitDec,
     TasksDec, Join, BothWaitDepth, BothWaitVideo, GetWait, WaitFrame
<1>2. pc[c] # "idle" /\ call[c].fun \in Streams \cup {"both"} =>
            pc'[c] # "idle" /\ call'[c].fun = call[c].fun
  <2>1. CASE SetupInc(c) \/ EnterInc(c) \/ SetupLock(c) \/ EnterLock(c) \/ Control(c)
    BY <1>0, <2>1 DEF SetupInc, EnterInc, TasksInc, SetupLock, EnterLock, LockRunloop, Control, Goto
  <2>2. CASE SetupDone(c)
    BY <2>2, SetupDoneGoes DEF Streams
  <2>3. CASE ExitDec(c)
    BY <2>3 DEF ExitDec, TasksDec, Known, InTasks, Streams
  <2>4. CASE Join(c)
    BY <2>4 DEF Join, Known, Streams
  <2>5. CASE BothWaitDepth(c) \/ BothWaitVideo(c) \/ \E s \in Streams : GetWait(c, s)
    BY <1>0, <2>5 DEF BothWaitDepth, BothWaitVideo, GetWait, WaitFrame
  <2>6. QED BY <2>1, <2>2, <2>3, <2>4, <2>5
<1>3. ClientStep(c)
  BY DEF ClientStep
<1>4. \A s \in Streams : InFunction(s) => InFunction(s)'
  BY <1>2, <1>3, StepGoes, StillInFunction
<1>5. FirstIsReturned'
  BY <1>1, <1>4, FirstKept
<1>6. QED BY <1>1, <1>5 DEF RingsFull, StreamBuffer

\* setup_kinect on a device that is not open, when nothing is returned.
LEMMA SetupOpenFirst ==
  ASSUME LabelsOK, call \in Callers, DeviceKept, BuffersStable, NEW c \in Clients, SetupOpen(c)
  PROVE  BuffersStable'
<1> USE DEF BuffersStable
<1>1. out' = out /\ call' = call
  BY DEF SetupOpen
<1>2. CASE opened
  <2>1. ring' = ring /\ stream' = stream
    BY <1>2 DEF SetupOpen
  <2>2. pc'[c] # "idle"
    BY ThreadsAssumption DEF SetupOpen, StartRunloop, LabelsOK, Threads
  <2>3. ClientStep(c)
    BY DEF ClientStep
  <2>4. \A s \in Streams : InFunction(s) => InFunction(s)'
    BY <1>1, <2>2, <2>3, StepGoes, StillInFunction
  <2>5. FirstIsReturned'
    BY <1>1, <2>1, <2>4, FirstKept
  <2>6. QED BY <2>1, <2>5 DEF RingsFull, StreamBuffer
<1>3. CASE ~opened
  <2>1. \A s \in Streams : ring'[s] = FreeRing /\ stream'[s] = StreamOff
    BY <1>3 DEF SetupOpen
  <2>2. \A s \in Streams : out'[s] = 0
    BY <1>1, <1>3 DEF DeviceKept
  <2>3. StreamBuffer' /\ FirstIsReturned'
    BY <2>1, <2>2 DEF StreamBuffer, FirstIsReturned, StreamOff
  <2>4. \A s \in Streams : ring'[s].bufs = NoBuffers
    BY <2>1 DEF FreeRing
  <2>5. RingsFull'
    BY <2>4 DEF RingsFull
  <2>6. QED BY <2>3, <2>5
<1>4. QED BY <1>2, <1>3

\* setup_kinect changes the format of a stream nobody has a buffer of.
LEMMA SetupRingFirst ==
  ASSUME FormatsFixed, LabelsOK, RingsOK, call \in Callers, BuffersStable, NEW c \in Clients, Known(c),
         SetupRing(c)
  PROVE  BuffersStable'
<1> USE DEF BuffersStable
<1>1. PICK s \in Streams : s = call[c].target
  BY DEF Callers, CallRecords
<1>2. PICK f : f = call[c].fmt[s]
  OBVIOUS
<1>3. pc[c] = "setup_ring" /\ Asks(c) /\ call[c].fun \in Calls
  BY DEF SetupRing, Goto, Known, SettingUp
<1>4. f \in Formats[s]
  BY <1>1, <1>2, <1>3 DEF Asks
<1>5. out' = out /\ call' = call /\ pc'[c] = "setup_dec"
  BY DEF SetupRing, Goto, LabelsOK, Threads
<1>6. \A u \in Streams : InFunction(u) => InFunction(u)'
  <2>1. ClientStep(c)
    BY DEF ClientStep
  <2>2. QED BY <1>5, <2>1, StepGoes, StillInFunction
<1>7. CASE ring[s].fmt = f
  <2>1. ring' = ring /\ stream' = stream
    BY <1>1, <1>2, <1>7 DEF SetupRing
  <2>2. FirstIsReturned'
    BY <1>5, <1>6, <2>1, FirstKept
  <2>3. QED BY <2>1, <2>2 DEF RingsFull, StreamBuffer
<1>8. CASE ring[s].fmt # f
  <2>1. ChangeFormat(s, f)
    BY <1>1, <1>2, <1>8 DEF SetupRing
  <2>2. /\ Full(ring'[s], s) /\ Fed(stream'[s])
        /\ \A u \in Streams \ {s} : ring'[u] = ring[u] /\ stream'[u] = stream[u]
    BY <1>4, <2>1, ChangedIsFull
  <2>3. \A u \in Streams : Full(ring'[u], u)
    BY <2>2, RingsFullIs
  <2>4. StreamBuffer'
    BY <2>2 DEF StreamBuffer, Fed
  <2>5. out[s] = 0 \/ InFunction(s)'
    <3>1. CASE call[c].fun \in {s, "both"}
      BY <1>5, <3>1 DEF InFunction
    <3>2. CASE call[c].fun \notin {s, "both"}
      <4>1. SUFFICES ASSUME out[s] # 0, ~InFunction(s) PROVE FALSE
        BY <1>6
      <4>2. ring[s].bufs[1] = out[s]
        BY <4>1 DEF FirstIsReturned
      <4>3. ring[s].bufs[1] # 0
        BY <4>1, <4>2
      <4>4. ring[s].bufs # NoBuffers
        BY <4>3 DEF NoBuffers
      <4>5. ring[s].fmt \in Formats[s] \ {BadFormat}
        BY <4>4, RingsFullIs DEF Full
      <4>6. CASE call[c].fun = "setup" /\ s = "video"
        BY <1>3, <1>4, <1>8, <4>5, <4>6, FormatsAre DEF FormatsFixed
      <4>7. CASE call[c].fun = "control" /\ s = "depth" /\ f = Depth11
        BY <1>3, <1>8, <4>5, <4>7, FormatsAre DEF FormatsFixed
      <4>8. QED BY <1>1, <1>2, <1>3, <3>2, <4>6, <4>7 DEF Asks
    <3>3. QED BY <3>1, <3>2
  <2>6. FirstIsReturned'
    BY <1>5, <1>6, <2>2, <2>5, OthersFirstKept
  <2>7. RingsFull'
    <3>1. 1 .. 3 = {1, 2, 3}
      OBVIOUS
    <3>2. QED BY <2>3, <3>1 DEF RingsFull, Full
  <2>8. QED BY <2>4, <2>6, <2>7
<1>9. QED BY <1>7, <1>8

\* sync_get_both takes the depth ring's lock.
LEMMA BothLockFirst ==
  ASSUME LabelsOK, RingsOK, call \in Callers, BuffersStable, NEW c \in Clients, BothLockDepth(c)
  PROVE  BuffersStable'
<1> USE DEF BuffersStable
<1>1. out' = out /\ call' = call /\ stream' = stream /\ pc'[c] = "both_video"
  BY DEF BothLockDepth, LabelsOK, Threads
<1>2. \A s \in Streams : ring'[s].bufs = ring[s].bufs /\ ring'[s].fmt = ring[s].fmt
  BY DEF BothLockDepth, RingsOK
<1>3. \A s \in Streams : InFunction(s) => InFunction(s)'
  <2>1. ClientStep(c)
    BY DEF ClientStep
  <2>2. QED BY <1>1, <2>1, StepGoes, StillInFunction
<1>4. FirstIsReturned'
  BY <1>1, <1>2, <1>3, FirstKept
<1>5. QED BY <1>1, <1>2, <1>4 DEF RingsFull, StreamBuffer

\* The buffer a get returns becomes the ring's first.
LEMMA FrameFirst ==
  ASSUME LabelsOK, RingsOK, GivenOK, call \in Callers, BuffersStable, NEW c \in Clients,
         BothFrames(c) \/ \E s \in Streams : GetFrame(c, s)
  PROVE  BuffersStable'
<1> USE DEF BuffersStable
<1>1. stream' = stream
  BY DEF BothFrames, GetFrame
<1>2. \A s \in Streams : ring'[s] \in {ring[s], Taken(ring[s])}
  BY DEF BothFrames, GetFrame, RingsOK
<1>3. \A s \in Streams : Full(ring'[s], s)
  BY <1>2, RingsFullIs, TakenIsFull
<1>4. RingsFull'
  <2>1. 1 .. 3 = {1, 2, 3}
    OBVIOUS
  <2>2. QED BY <1>3, <2>1 DEF RingsFull, Full
<1>5. ClientStep(c)
  BY DEF ClientStep
<1>6. FirstIsReturned'
  <2>1. CASE BothFrames(c)
    <3>1. \A s \in Streams : out'[s] = ring[s].bufs[2] /\ ring'[s] = Taken(ring[s])
      BY <2>1 DEF BothFrames
    <3>2. \A s \in Streams : ring'[s].bufs[1] = out'[s]
      BY <3>1, TakenIs
    <3>3. QED BY <3>2 DEF FirstIsReturned
  <2>2. ASSUME NEW s \in Streams, GetFrame(c, s) PROVE FirstIsReturned'
    <3>1. /\ call[c].fun = s /\ out'[s] = ring[s].bufs[2] /\ ring'[s] = Taken(ring[s])
          /\ \A u \in Streams \ {s} : out'[u] = out[u] /\ ring'[u] = ring[u]
      BY <2>2 DEF GetFrame, GivenOK, RingsOK
    <3>2. ring'[s].bufs[1] = out'[s]
      BY <3>1, TakenIs
    <3>3. \A u \in Streams \ {s} : InFunction(u) => InFunction(u)'
      BY <1>5, <3>1, StepGoes DEF InFunction, Streams
    <3>4. QED BY <3>1, <3>2, <3>3, OthersFirstKept
  <2>3. QED BY <2>1, <2>2
<1>7. QED BY <1>1, <1>4, <1>6 DEF StreamBuffer

-----------------------------------------------------------------------------
\* A frame leaves the first buffer alone; the rings only go when the runloop was stopped.
LEMMA LoopFirst ==
  ASSUME FormatsFixed, IInv, DeviceKept, BuffersStable, NEW l \in Loops, LoopStep(l) \/ EventsFail(l)
  PROVE  BuffersStable'
<1> USE DEF BuffersStable, ringVars
<1>0. LabelsOK /\ RingsOK /\ out' = out /\ call' = call /\ ~EventsFail(l)
  BY DEF IInv, FormatsFixed, LoopStep, EventsFail, LoopZero, LoopRelock, LoopQuits, EventsReturn, Deliver,
     Callback, Cleanup
<1>1. CASE LoopQuits(l)
  <2>1. /\ \A s \in Streams : ring'[s] = FreeRing /\ stream'[s] = StreamOff
        /\ ~threadRunning
    BY <1>1 DEF LoopQuits, Cleanup
  <2>2. \A s \in Streams : out'[s] = 0
    BY <1>0, <2>1 DEF DeviceKept
  <2>3. StreamBuffer' /\ FirstIsReturned'
    BY <2>1, <2>2 DEF StreamBuffer, FirstIsReturned, StreamOff
  <2>4. \A s \in Streams : ring'[s].bufs = NoBuffers
    BY <2>1 DEF FreeRing
  <2>5. RingsFull'
    BY <2>4 DEF RingsFull
  <2>6. QED BY <2>3, <2>5
<1>2. CASE ~LoopQuits(l)
  <2>1. \A s \in Streams : InFunction(s) => InFunction(s)'
    <3>1. \A c \in Clients : pc'[c] = pc[c]
      <4>1. PICK to : pc' = [pc EXCEPT ![l] = to]
        BY <1>0, <1>2 DEF LoopStep, LoopZero, LoopRelock, EventsReturn, Deliver, Callback, Goto
      <4>2. QED BY <1>0, <4>1, ThreadsAssumption DEF LabelsOK, Threads
    <3>2. QED BY <1>0, <3>1 DEF InFunction
  <2>2. CASE ring' = ring /\ stream' = stream
    <3>1. FirstIsReturned'
      BY <1>0, <2>1, <2>2, FirstKept
    <3>2. QED BY <2>2, <3>1 DEF RingsFull, StreamBuffer
  <2>3. ASSUME NEW s \in Streams, Callback(l, s) PROVE BuffersStable'
    <3>1. /\ ring'[s].bufs = [ring[s].bufs EXCEPT ![2] = ring[s].bufs[3], ![3] = ring[s].bufs[2]]
          /\ ring'[s].fmt = ring[s].fmt
          /\ \A u \in Streams \ {s} : ring'[u] = ring[u]
      BY <1>0, <2>3 DEF Callback, RingsOK
    <3>2. ring[s].bufs \in [1 .. 3 -> 0 .. 3] /\ Full(ring[s], s)
      BY <1>0, RingsFullIs DEF RingsOK
    <3>3. ring'[s].bufs = [ring[s].bufs EXCEPT ![2] = ring[s].bufs[2 + 1], ![2 + 1] = ring[s].bufs[2]]
      BY <3>1
    <3>4. Full(ring'[s], s)
      BY <3>1, <3>2, <3>3, SwapIsFull
    <3>5. \A u \in Streams : Full(ring'[u], u)
      BY <3>1, <3>4, RingsFullIs
    <3>6. RingsFull'
      <4>1. 1 .. 3 = {1, 2, 3}
        OBVIOUS
      <4>2. QED BY <3>5, <4>1 DEF RingsFull, Full
    <3>7. ring'[s].bufs[1] = ring[s].bufs[1]
      BY <3>1, <3>2
    <3>8. FirstIsReturned'
      BY <1>0, <2>1, <3>1, <3>7, FirstKept
    <3>9. StreamBuffer'
      <4>1. stream[s].on
        BY <2>3 DEF IInv, CallbackOn, Callback, Goto
      <4>2. stream'[s].on /\ \A u \in Streams \ {s} : stream'[u] = stream[u]
        BY <1>0, <2>3, <4>1 DEF Callback, RingsOK
      <4>3. QED BY <4>2 DEF StreamBuffer
    <3>10. QED BY <3>6, <3>8, <3>9
  <2>4. (ring' = ring /\ stream' = stream) \/ \E s \in Streams : Callback(l, s)
    BY <1>0, <1>2 DEF LoopStep, LoopZero, LoopRelock, EventsReturn, Deliver
  <2>5. QED BY <2>2, <2>3, <2>4
<1>3. QED BY <1>1, <1>2

-----------------------------------------------------------------------------
\* The device stays open until the runloop is stopped.
LEMMA CallKeepsDevice ==
  ASSUME LabelsOK, call \in Callers, GivenOK, DeviceKept, NEW c \in Clients, Call(c)
  PROVE  DeviceKept'
<1> USE DEF ringVars, loopVars
<1>1. \A d \in Clients \ {c} : pc'[d] = pc[d]
  BY StepGoes
<1>2. CASE CallStop(c)
  <2>1. /\ threadRunning' = FALSE /\ \A s \in Streams : out'[s] = 0
        /\ pc'[c] \in {"idle", "join"} /\ \A d \in Clients \ {c} : pc[d] = "idle"
    BY <1>2 DEF CallStop, Goto, LabelsOK, Threads
  <2>2. QED BY <1>1, <2>1 DEF DeviceKept
<1>3. CASE ~CallStop(c)
  <2>1. threadRunning' = threadRunning /\ opened' = opened
    BY <1>3 DEF Call, CallGet, CallBoth, CallSetup, CallControl
  <2>2. CASE threadRunning
    BY <2>1, <2>2 DEF DeviceKept
  <2>3. CASE ~threadRunning
    <3>1. pc'[c] = "setup_inc"
      BY <1>3, <2>3 DEF Call, CallGet, CallBoth, CallSetup, CallControl, Goto, Ready, LabelsOK, Threads
    <3>2. \A s \in Streams : out'[s] \in {out[s], 0}
      BY <1>3 DEF Call, CallGet, CallBoth, CallSetup, CallControl, GivenOK
    <3>3. QED BY <1>1, <2>1, <2>3, <3>1, <3>2 DEF DeviceKept
  <2>4. QED BY <2>2, <2>3
<1>4. QED BY <1>2, <1>3

\* A client further than setup_kinect's lock has a device.
LEMMA ClientKeepsDevice ==
  ASSUME FormatsFixed, LabelsOK, call \in Callers, DeviceKept, NEW c \in Clients, Known(c),
         ClientStep(c)
  PROVE  DeviceKept'
<1> USE DEF ringVars, loopVars
<1>0. ~SetupFails(c) /\ ~SetupCrashes(c)
  BY NoFailure
<1>1. \A d \in Clients \ {c} : pc'[d] = pc[d]
  BY StepGoes
<1>2. CASE SetupOpen(c)
  BY <1>2 DEF SetupOpen, DeviceKept
<1>3. CASE threadRunning /\ ~SetupOpen(c)
  <2>1. threadRunning' = threadRunning /\ opened' = opened
    BY <1>0, <1>3 DEF ClientStep, SetupInc, EnterInc, TasksInc, SetupLock, EnterLock, LockRunloop,
       SetupFailed, SetupDone, SetupRing, ExitDec, TasksDec, Join, GetWait, GetFrame, WaitFrame,
       BothWaitDepth, BothLockDepth, BothWaitVideo, BothFrames, Control
  <2>2. QED BY <1>3, <2>1 DEF DeviceKept
<1>4. CASE ~threadRunning /\ ~SetupOpen(c)
  <2>1. pc[c] \in {"idle", "setup_inc", "setup_lock", "setup", "join"}
    BY <1>4 DEF DeviceKept
  <2>2. SetupInc(c) \/ SetupLock(c) \/ Join(c)
    BY <1>0, <1>4, <2>1 DEF ClientStep, EnterInc, TasksInc, EnterLock, LockRunloop,
       SetupFailed, SetupDone, SetupRing, ExitDec, TasksDec, GetWait, GetFrame, AtRing,
       BothWaitDepth, BothLockDepth, BothWaitVideo, BothFrames, Control, Goto
  <2>3. /\ threadRunning' = threadRunning /\ out' = out
        /\ pc'[c] \in {"setup_lock", "setup", "idle"}
    BY <2>2 DEF SetupInc, TasksInc, SetupLock, LockRunloop, Join, Returns, Goto, LabelsOK, Threads
  <2>4. QED BY <1>1, <1>4, <2>3 DEF DeviceKept
<1>5. QED BY <1>2, <1>3, <1>4

\* A runloop only quits when it was stopped.
LEMMA LoopKeepsDevice ==
  ASSUME FormatsFixed, LabelsOK, DeviceKept, NEW l \in Loops, LoopStep(l) \/ EventsFail(l)
  PROVE  DeviceKept'
<1> USE DEF ringVars, loopVars
<1>0. out' = out /\ threadRunning' = threadRunning /\ ~EventsFail(l)
  BY DEF FormatsFixed, LoopStep, EventsFail, LoopZero, LoopRelock, LoopQuits, EventsReturn, Deliver,
     Callback, Cleanup
<1>1. CASE LoopQuits(l)
  <2>1. ~threadRunning /\ \A c \in Clients : pc[c] \notin Waits => pc'[c] = pc[c]
    BY <1>1, ThreadsAssumption DEF LoopQuits, Cleanup, Threads
  <2>2. QED BY <1>0, <2>1 DEF DeviceKept, Waits
<1>2. CASE ~LoopQuits(l)
  <2>1. PICK to : pc' = [pc EXCEPT ![l] = to]
    BY <1>0, <1>2 DEF LoopStep, LoopZero, LoopRelock, EventsReturn, Deliver, Callback, Goto
  <2>2. \A c \in Clients : pc'[c] = pc[c]
    BY <2>1, ThreadsAssumption DEF LabelsOK, Threads
  <2>3. opened' = opened
    BY <1>0, <1>2 DEF LoopStep, LoopZero, LoopRelock, EventsReturn, Deliver, Callback
  <2>4. QED BY <1>0, <2>2, <2>3 DEF DeviceKept
<1>3. QED BY <1>1, <1>2

-----------------------------------------------------------------------------
\* Whatever clients and runloops do, the buffers that were returned stay.
LEMMA NextPreservesStable ==
  ASSUME FormatsFixed
  PROVE  IInv /\ TypeInv /\ StableInv /\ [Next]_vars => StableInv'
<1> SUFFICES ASSUME IInv, TypeInv, StableInv, [Next]_vars PROVE StableInv'
  OBVIOUS
<1>0. LabelsOK /\ RingsOK /\ call \in Callers /\ GivenOK /\ BuffersStable /\ DeviceKept
  BY DEF IInv, TypeInv, StableInv, BuffersStable, GivenOK, Callers
<1>1. CallsKnown /\ \A c \in Clients : Known(c)
  BY KnownIs DEF StableInv
<1>2. ASSUME NEW c \in Clients, Call(c) PROVE StableInv'
  <2>1. Known(c)' /\ BuffersStable' /\ DeviceKept'
    BY <1>0, <1>2, CallKnown, CallFirst, CallKeepsDevice
  <2>2. CallsKnown'
    BY <1>0, <1>1, <1>2, <2>1, StepGoes, OneKnown
  <2>3. QED BY <2>1, <2>2 DEF StableInv, BuffersStable
<1>3. ASSUME NEW c \in Clients, ClientStep(c) PROVE StableInv'
  <2>1. Known(c)' /\ DeviceKept'
    BY <1>0, <1>1, <1>3, ClientKnown, ClientKeepsDevice
  <2>2. CallsKnown'
    BY <1>0, <1>1, <1>3, <2>1, StepGoes, OneKnown
  <2>3. ~SetupFails(c) /\ ~SetupCrashes(c) /\ ~SetupFailed(c)
    BY <1>0, <1>1, NoFailure DEF SetupFailed, TasksDec, Known
  <2>4. CASE \/ SetupInc(c) \/ EnterInc(c) \/ SetupLock(c) \/ EnterLock(c) \/ Control(c)
             \/ SetupDone(c) \/ ExitDec(c) \/ Join(c)
             \/ BothWaitDepth(c) \/ BothWaitVideo(c) \/ \E s \in Streams : GetWait(c, s)
    BY <1>0, <1>1, <2>1, <2>2, <2>4, ElsewhereFirst DEF StableInv, BuffersStable
  <2>5. CASE SetupOpen(c)
    BY <1>0, <2>1, <2>2, <2>5, SetupOpenFirst DEF StableInv, BuffersStable
  <2>6. CASE SetupRing(c)
    BY <1>0, <1>1, <2>1, <2>2, <2>6, SetupRingFirst DEF StableInv, BuffersStable
  <2>7. CASE BothLockDepth(c)
    BY <1>0, <2>1, <2>2, <2>7, BothLockFirst DEF StableInv, BuffersStable
  <2>8. CASE BothFrames(c) \/ \E s \in Streams : GetFrame(c, s)
    BY <1>0, <2>1, <2>2, <2>8, FrameFirst DEF StableInv, BuffersStable
  <2>9. QED BY <1>3, <2>3, <2>4, <2>5, <2>6, <2>7, <2>8 DEF ClientStep
<1>4. ASSUME NEW l \in Loops, LoopStep(l) \/ EventsFail(l) PROVE StableInv'
  <2>1. BuffersStable' /\ DeviceKept'
    BY <1>0, <1>4, LoopFirst, LoopKeepsDevice
  <2>2. call' = call
    BY <1>4 DEF LoopStep, EventsFail, LoopZero, LoopRelock, LoopQuits, EventsReturn, Deliver, Callback,
       Cleanup
  <2>3. \A c \in Clients : pc'[c] # pc[c] => pc'[c] = "lost"
    <3>1. CASE LoopQuits(l) \/ EventsFail(l)
      BY <3>1, ThreadsAssumption DEF LoopQuits, EventsFail, Cleanup, Threads
    <3>2. CASE ~(LoopQuits(l) \/ EventsFail(l))
      <4>1. PICK to : pc' = [pc EXCEPT ![l] = to]
        BY <1>4, <3>2 DEF LoopStep, LoopZero, LoopRelock, EventsReturn, Deliver, Callback, Goto
      <4>2. QED BY <1>0, <4>1, ThreadsAssumption DEF LabelsOK, Threads
    <3>3. QED BY <3>1, <3>2
  <2>4. \A c \in Clients : Known(c)'
    BY <1>1, <2>2, <2>3, KnownKept DEF SettingUp, InTasks, Known
  <2>5. CallsKnown'
    BY <2>4 DEF CallsKnown, Known, InTasks
  <2>6. QED BY <2>1, <2>5 DEF StableInv, BuffersStable
<1>5. ASSUME UNCHANGED <<pc, call, ring, stream, out, threadRunning, opened>> PROVE StableInv'
  BY <1>5 DEF StableInv, BuffersStable, CallsKnown, Asks, RingsFull, DeviceKept, StreamBuffer,
     FirstIsReturned, InFunction
<1>6. CASE UNCHANGED vars
  BY <1>5, <1>6 DEF vars, loopVars, ringVars
<1>7. ASSUME NEW c \in Clients, UsesFreed(c) \/ \E s \in Streams : WakeUnasked(c, s) PROVE StableInv'
  BY <1>5, <1>7 DEF UsesFreed, WakeUnasked, loopVars, ringVars
<1>8. QED BY <1>2, <1>3, <1>4, <1>6, <1>7 DEF Next

\* At the start nothing is returned.
LEMMA InitEstablishesStable == Init => StableInv
<1> SUFFICES ASSUME Init PROVE StableInv
  OBVIOUS
<1>1. \A c \in Clients : pc[c] = "idle"
  BY ThreadsAssumption DEF Init, Threads
<1>2. \A s \in Streams : out[s] = 0 /\ ring[s] = FreeRing /\ stream[s] = StreamOff
  BY DEF Init
<1>3. ~threadRunning
  BY DEF Init
<1>4. CallsKnown
  BY <1>1 DEF CallsKnown, SettingUp
<1>5. RingsFull
  <2>1. FreeRing.bufs = NoBuffers
    BY DEF FreeRing
  <2>2. QED BY <1>2, <2>1 DEF RingsFull
<1>6. DeviceKept /\ StreamBuffer /\ FirstIsReturned
  BY <1>1, <1>2, <1>3 DEF DeviceKept, StreamBuffer, FirstIsReturned, StreamOff
<1>7. QED BY <1>4, <1>5, <1>6 DEF StableInv, BuffersStable

\* A returned buffer is the first of three different ones, and the device has the third.
LEMMA StableBuffers ==
  ASSUME IInv, TypeInv, StableInv
  PROVE  ReturnedBufferStable
<1> SUFFICES ASSUME NEW s \in Streams, out[s] # 0, ~InFunction(s)
             PROVE  /\ ring[s].bufs[1] = out[s]
                    /\ out[s] \notin {ring[s].bufs[2], ring[s].bufs[3], stream[s].buf}
  BY DEF ReturnedBufferStable
<1>1. ring[s].bufs[1] = out[s]
  BY DEF StableInv, BuffersStable, FirstIsReturned
<1>2. ring[s].bufs # NoBuffers
  <2>1. ring[s].bufs[1] # 0
    BY <1>1
  <2>2. QED BY <2>1 DEF NoBuffers
<1>3. ring[s].bufs[1] # ring[s].bufs[2] /\ ring[s].bufs[1] # ring[s].bufs[3]
  BY <1>2, RingsFullIs DEF StableInv, BuffersStable, Full
<1>4. stream[s].buf \in {0, ring[s].bufs[3]}
  BY DEF IInv, Buffers, StableInv, BuffersStable, StreamBuffer
<1>5. QED BY <1>1, <1>3, <1>4

-----------------------------------------------------------------------------
\* Theorems

\* The inductive invariant holds in every reachable state of libfreenect_sync.c, whatever
\* goes wrong at the device.
THEOREM InvariantHolds == Spec => []IInv
<1>1. QED BY InitEstablishesIInv, NextPreservesIInv, PTL DEF Spec

\* Whoever changes a format, tilts or frees the device, or processes its events, is alone
\* with it and has runloop_lock (libfreenect_sync.c:202), even when a runloop went away on
\* its own and another was started.
THEOREM LibfreenectExclusive == Spec => []RunloopExclusive
<1>1. IInv => RunloopExclusive
  BY DEF IInv, LockByLabel, InsideLabels, RunloopExclusive
<1>2. QED BY <1>1, InvariantHolds, PTL

\* The assertion of producer_cb_inner (libfreenect_sync.c:144) cannot fail: during a
\* callback the device's buffer is the third of the ring, and it is allocated.
THEOREM CallbackGetsThird == Spec => []CallbackBuffer
<1>1. IInv => CallbackBuffer
  BY DEF IInv, Buffers, CallbackOn, CallbackBuffer
<1>2. QED BY <1>1, InvariantHolds, PTL

\* Every variable keeps its type, and pending_runloop_tasks (libfreenect_sync.c:199) never
\* goes below zero.
THEOREM TypeCorrect == Spec => []TypeOK
<1>1. Init => IInv /\ TypeInv
  BY InitEstablishesIInv, InitEstablishesTypeInv
<1>2. IInv /\ TypeInv /\ [Next]_vars => (IInv /\ TypeInv)'
  BY NextPreservesIInv, NextPreservesTypeInv
<1>3. TypeInv => TypeOK
  BY DEF TypeInv
<1>4. QED BY <1>1, <1>2, <1>3, PTL DEF Spec

\* pending_runloop_tasks is the number of clients on their way into a runloop task or not
\* yet out of one, whatever fails: the runloop neither waits for nobody nor overtakes a task.
THEOREM TasksCountedExactly == Spec => []TasksExact
<1>1. Init => IInv /\ TypeInv
  BY InitEstablishesIInv, InitEstablishesTypeInv
<1>2. IInv /\ TypeInv /\ [Next]_vars => (IInv /\ TypeInv)'
  BY NextPreservesIInv, NextPreservesTypeInv
<1>3. TypeInv => TasksExact
  BY DEF TypeInv
<1>4. QED BY <1>1, <1>2, <1>3, PTL DEF Spec

\* A runloop that was stopped, or whose device could not be opened, is gone with its device
\* before the next call begins, and two never run at once (libfreenect_sync.c:290-297,
\* 474-480), if two opens do not fail at the same time.
THEOREM StopsClean ==
  ASSUME OneOpens
  PROVE  Spec => []CleanStop
<1>1. Init => IInv /\ TypeInv /\ StopInv
  BY InitEstablishesIInv, InitEstablishesTypeInv, InitEstablishesStop
<1>2. IInv /\ TypeInv /\ StopInv /\ [Next]_vars => (IInv /\ TypeInv /\ StopInv)'
  BY NextPreservesIInv, NextPreservesTypeInv, NextPreservesStop
<1>3. StopInv => CleanStop
  BY StopIsClean
<1>4. QED BY <1>1, <1>2, <1>3, PTL DEF Spec

\* A buffer that sync_get returned stays the client's (libfreenect_sync.h:41) until its
\* function is called again, while other clients set up, tilt and get the other stream, the
\* device delivers and the runloop is stopped and started.
THEOREM BufferStays ==
  ASSUME FormatsFixed
  PROVE  Spec => []ReturnedBufferStable
<1>1. Init => IInv /\ TypeInv /\ StableInv
  BY InitEstablishesIInv, InitEstablishesTypeInv, InitEstablishesStable
<1>2. IInv /\ TypeInv /\ StableInv /\ [Next]_vars => (IInv /\ TypeInv /\ StableInv)'
  BY NextPreservesIInv, NextPreservesTypeInv, NextPreservesStable
<1>3. IInv /\ TypeInv /\ StableInv => ReturnedBufferStable
  BY StableBuffers
<1>4. QED BY <1>1, <1>2, <1>3, PTL DEF Spec
=============================================================================
