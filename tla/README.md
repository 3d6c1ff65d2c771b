# A verification project for xLearn

TLA+ models of the stateful and concurrent parts of this repository, TLC runs on
small instances of them, and proofs checked by TLAPS for all instances.

Run a model with `tlc -config <X>.cfg <Module>`, check the proofs with
`tlapm <Module>Proofs.tla` and, for the rest of the linker's, `tlapm
NeuFlowLinkerSeen.tla` (ten minutes; the others take less).

## 1. Inventory

xLearn is a machine-learning framework: Torch 5 with a Lua kernel patched for
threads (`README.txt`: "the original Lua kernel has been patched for
multi-threaded applications"), a set of Lua packages around it, and a compiler
from networks to the code of the neuFlow processor.

| component | state it keeps | operations | interacts with | what is hard |
|---|---|---|---|---|
| recursive mutex, `lua-5.1.3/src/srm.c` | two pthread mutexes, owner, depth | lock, unlock, cond_wait | Lua threads, queue | the depth is tested under one lock and written under two, and set aside during waits |
| thread queue, `packages/thread/queue.lua` | table, `first`, `last`, two conditions | insert, remove | mutex, Lua threads | signals are sent only on empty and full |
| Lua threads, `luathread.c`, `ltconf.h` | registry entries, count of active threads | newthread, thread_entry, lua_close | collector, global lock | failure of `pthread_create`, the collector running beside a thread that ends |
| Kinect, `libfreenect_sync.c` | runloop thread, lock, count of pending tasks, two buffer rings | gets, tilt, led, setup, stop | libfreenect, by callbacks | three kinds of lock, a runloop that wants its lock at once, device failures |
| neuFlow memory, `Memory.lua` | three segments with offset pointers | four allocators | compiler, linker | rows, bands of rows, alignment, running out |
| neuFlow linker, `Linker.lua` | list of instructions, processes, gotos, the binary | add, optimise, align, resolve, dump, checkCollisions | core, memory | instructions moved past others, addresses that shift, the place of data in the file |
| neuFlow compiler, core, interface | port configuration, registers, packets | one per instruction and layer | linker, memory, device | the exchange with the device |
| etherflow | a socket, "first call" flag | send, receive | device | waits for a frame, without a timeout |
| QtLua engine, `qtluaengine.cpp` | lock with owner and count, pending hop, pause, flags, queued signals | lockers, eval, hop, stop, pause, resume, signals | Qt event loops of several threads, Lua | a lock handed from thread to thread by events, nested event loops, two conditions |
| TH storage and tensors | reference counts | retain, free, resize | every Torch package | sharing |
| File serialization | index of objects written and read | readObject, writeObject | files | shared and cyclic objects |
| camiface | a shared-memory segment | getFrame | a second process | busy-waiting on plain bytes |
| Lua VM, nn, luaFlow, xFlow, bridges | - | - | - | stock, numerical, or sequential |

Correctness, component by component: *mutex*: exclusion, exact depth, every test
right, an abstract recursive mutex implemented. *Queue*: bounded FIFO, no lost
wakeup, everything inserted is removed. *Lua threads*: the count is exact,
lua_close waits for everybody and returns, a thread's state lives as long as the
thread. *Kinect*: the buffers of a ring stay three different ones with the roles
the callback assumes, a returned buffer stays the client's, libfreenect is used
by one thread at a time, every call returns. *Memory*: items are disjoint,
aligned and inside the memory, the report is right. *Linker*: the optimisation is
invisible to every port, a process stays in its page, padding is jumped, what is
dumped lies where memory said. *Engine*: one thread at a time is inside the
interpreter, every call and hop returns, every signal is handled, and the state
is reported while a program runs.

`PROJECT.json` lists all components with their status, and under `hazards` what
is hard to test in the code, at its line, with the properties that cover it.

## 2. Modules

| module | models | kind |
|---|---|---|
| `RecursiveMutex` | what the recursive mutex promises | abstract |
| `SafeRecursiveMutex` | `srm.c`, called as `luathread.c` does | detailed, implements `RecursiveMutex` |
| `SafeRecursiveMutexProofs` | its theorems | proofs |
| `BoundedFifo` | what a queue promises | abstract |
| `ThreadQueue` | `queue.lua`, written over `RecursiveMutex` (composition by INSTANCE) | detailed, implements `BoundedFifo` |
| `ThreadQueueProofs` | its theorems | proofs |
| `LuaThreads` | `newthread`, `thread_entry`, collector, `lua_close` | detailed |
| `LuaThreadsProofs` | its theorems | proofs |
| `KinectSync` | `libfreenect_sync.c` | detailed |
| `KinectSyncProofs` | its theorems | proofs |
| `NeuFlowMemory` | `Memory.lua`, `Linker:checkCollisions` and the layout of the dump | detailed |
| `NeuFlowMemoryProofs` | its theorems | proofs |
| `NeuFlowLinker` | the passes of `Linker:dump` over the programs of `Core:configPort` | detailed |
| `NeuFlowLinkerProofs` | its theorems about the shape of the list and its addresses | proofs |
| `NeuFlowLinkerSeen` | its theorem about what the ports see | proofs |
| `QtLuaEngine` | `qtluaengine.cpp` | detailed |
| `QtLuaEngineProofs` | its theorems | proofs |

### How state and actions correspond to the code

**SafeRecursiveMutex.** `mutex`, `barrier`, `owner`, `locks` are the fields of
`srm_t`; `saved[t]` the two locals of `srm_cond_wait`; `pc` the place in the
three functions; `depth` is a client's own balance of calls, which the code does
not have. An action is the stretch from one blocking pthread call to the next.
`owner` starts as any value, since `srm_init` leaves it unset. A client waits
only inside the mutex, as `queue.lua` does; it may call unlock at any time and
is then refused.

**ThreadQueue.** `first`, `last`, `slot` are the table; `notempty` and `notfull`
the threads asleep on each condition; `held` and `parked` the mutex, through the
actions of `RecursiveMutex`, which `SafeRecursiveMutex` is shown to implement.
Every step of insert and remove that touches shared state is an action, although
the mutex makes them exclusive: the properties are about the steps in between.
`WakeUnasked` is a spurious wakeup.

**LuaThreads.** Each `lua_*` call holds the global lock, so a step is one such
call or macro. `Collect` frees a thread object that neither the registry nor a
stack refers to; it runs inside any other Lua thread, as the collector does.
Threads may create threads, `pthread_create` may fail (the error is caught by
the caller, or it ends the process: `Panics`), and an uncaught error in a thread
ends the process, as there is no protected call around `lua_call`. When a
freed `lua_State` is used, either the old contents are still found or the
process crashes; both are behaviours.

**KinectSync.** One device. `ring[s].bufs` are the three buffers; `stream[s].buf`
is the one the device fills; `tasks` is `pending_runloop_tasks`. Clients go
through setup (`SetupInc` to `SetupDone`), `sync_get` (`GetWait`, `GetFrame`),
`sync_get_both` (`Both*`), or enter, control and exit; the runloop through
`LoopZero`, `LoopRelock`, `Deliver`, `Callback`, `EventsReturn`. A lock taken and
released inside one stretch is only required to be free. `Faults` selects
whether opening the device and `freenect_process_events` may fail. libfreenect
itself is external: it calls back for a stream that is on, from inside
`freenect_process_events`. `freenect_sync_stop` starts only while no other call
is in progress: `kinect.c` calls it from the Lua thread that makes the others.

**NeuFlowMemory.** A memory of rows of words; each segment is the sequence of
items placed and the pointer to the next place. An allocation is one action.
Bytes and words are not distinguished (every size the report adds is a multiple
of a word), contents and log are left out. `lap`, the items since the heap last
started over, is ours. `Overlap` is the condition under which the report prints
an error, for the two boundaries between segments that Memory.lua fills. The file
is the sequence of `Chunks` that `dump_RawData` and `dump_ImageData` write, each
behind the one before it and behind the zeros `Pad` puts in front: `Written` is
where a chunk comes to lie.

**NeuFlowLinker.** The linked list is a sequence; the sentinels are elements of
it. `Write` appends what `configPort` (and `configureStreamer`, `configTile`)
writes for one action, `AddProcess` the sentinel; then one action per pass:
`Optimise` handles one wait of `cacheConfigOptimization` (find a segment, find
the place in front of the wait, move, close the cache), `Align` one sentinel of
`alignProcessWithPages`, `ResolveGotos` all gotos. An instruction is an opcode
with the fields the passes look at; the data of a configuration is the number of
the action that wrote it. The state the code carries along the list (`ports`) is
computed from the list: what was addressed last, and which ports have been
commanded since. `Execute` is the hardware, as far as the optimisation relies on
it: a port keeps configurations apart from `cacheStart` to `cacheFinish`; `After`
is the state behind every node of a list. `meant` is what the list did to each port
before the passes.

**QtLuaEngine.** `lockCount` to `queuedSignals` are the fields of
`QtLuaEngine::Private`. A thread is the queue of events posted to it and its
stack of calls into the engine: a frame says where the call is (`enter`,
`asleep`, `held`, `hopping`, `catch`, `lua`, `paused`, ...) and holds the locals
that are written back later. Event loops nest, so a thread that is `hopping` or
`paused` takes events. An action is a stretch of code with `d->mutex` held:
`Enter`, `Unlock` are `QtLuaLocker`; `Eval`, `HopTo`, `HopReturn` the calls;
`FreeLock` and `Catch*` the events by which a call changes threads; `ReadySlot`,
`QueueSlot`, `QueueSub`, `NextSignal` the slots; `StopHook`, `LuaPause`,
`LuaError`, `LuaResume` what happens in a program; `Stop` and `Resume` the
requests. `Sessions` says whether a behaviour has lockers, pauses, or both.

## 3. Runs

| run | question | bounds and why they are enough |
|---|---|---|
| `srm` | exclusion, depth, answers, refinement | 3 threads (one inside, one queueing, one asleep), depth 2 (re-entry and a wait that sets aside more than 1) |
| `queue` | lost wakeups, bounded FIFO, everything inserted is removed, waiting inserts do not all sleep for ever | 2 + 2 threads, size 2 (neither empty nor full exists), 4 inserts (the table moves past its size) |
| `lua_threads` | count, lua_close, collector | 3 children: one ends while another creates the third |
| `lua_threads_collected` | a finishing thread's state (fails) | 2 children |
| `kinect_shared` | buffers, exclusion, every call returns | 2 clients, 2 video formats, 3 calls: one waits while the other changes the format and takes its frame |
| `kinect_faults` | the same, and stops, under failures | 1 client, every call, an unknown format, 4 calls, 2 runloop threads to start |
| `kinect_unplugged` | nobody waits without a runloop (fails) | 1 client, 1 call |
| `kinect_both` | one ring lock at a time (fails) | 1 client, 1 call |
| `neuflow_memory` | items apart and aligned, report right, file right | rows of 8 words, alignment 4, 6 rows, 3 items per segment, sizes below, at and above alignment and row |
| `neuflow_heap` | no result beyond the memory (fails) | the same |
| `qtlua` | one thread in the interpreter, every call returns, every signal is handled | 3 threads: the engine's, the GUI's (timed lockers, asynchronous evaluations) and a worker; 3 calls (one waits while another hops), 2 signals (one arrives while another is handled), 1 hop, 1 stop or pause |
| `linker` | the passes are invisible to the ports, pages and padding | 2 ports, one of them port 2 (see below), all 11 actions, 3 of them in 1 to 3 processes; pages of 24 instructions, between one and two of the longer actions. Run once with 4 of the actions and the same result |

The named bounds are `MaxDepth`, `MaxInserts`, `Children`, `Loops`, `MaxCalls`,
`MaxItems`, `MaxActions`, `MaxSignals`, `MaxHops` and `MaxStops`; the code has none of them. A deadlock is looked for in `srm`;
the other systems may come to rest (all inserts made, the program closed, all
calls made); the liveness properties say when they may not.

Every property of a passing run is accompanied by a seeded fault: an operator
named in `PROJECT.json` under `mutants`, written next to the definition it
replaces, under which TLC finds the property violated.

### What fails

* `AnnouncedStateAlive` (`luathread.c:41`): the registry entry that keeps the
  thread's state is dropped one call before the state is used for the last time.
* `WaitHasRunloop` (`libfreenect_sync.c:196`): when `freenect_process_events`
  fails the runloop frees the rings and ends; clients asleep on them are left.
* `OneRingLock` (`libfreenect_sync.c:346`): `sync_get_both` waits for a video
  frame with the depth ring locked, against the rule at line 67; the depth
  callback then blocks the runloop. `kinect.c:172` has the call commented out.
* `HeapInMemory` (`Memory.lua:283`): the check for space asks for one row.

Found with the same models and not kept as runs:

* Kinect, two clients and failing opens: `CleanStop` fails. A failed
  `setup_kinect` gives `runloop_lock` up before it joins the runloop it started;
  a second client may start another runloop in between, so that the first never
  stops and the wrong one is joined (`libfreenect_sync.c:289-294`).
* QtLua, `Sessions = {"both"}`: `OneInLua` fails. `lua_pause_sub` frees the lock
  during a pause and afterwards writes its saved count and owner back
  (`qtluaengine.cpp:968-969`) without waiting for a thread that has taken the
  lock meanwhile.
* QtLua: a stop can be forgotten. `readySlot` clears `unwindStack` and the hook
  unconditionally (lines 436-441); when its event was posted before the present
  program started, the program goes on and the engine is taken for ready.
* QtLua: an untimed locker in the engine's own thread and a hop to that thread
  wait for each other (lines 598 and 1292).
* QtLua, `Nested` not empty: an event handled in the loop of a hop may call the
  engine and overwrite `hopEvent` (line 1376); counts go below zero.
* Memory: `last_align` may be an older kernel's (`Memory.lua:125`), so the end
  reported for the kernels is short. `ReportReliable` shows that this never hides
  an overlap.
* Dump: with two bands of images the later rows of the first band are written
  behind the second (`Linker.lua:1003`), since the file cannot go back;
  `FileIsMemory` is therefore stated for one band.
* Linker: `makePorts` copies the address into `submod` (line 257). It only makes
  the optimisation miss segments, on port 2, which is why port 2 is in the run.
* Linker: an empty process (`NeuFlow.lua:428-433`) behind one that needs padding
  leaves a goto to a sentinel, which has no address.
* Linker: the optimisation does not look at gotos, so a configuration can leave
  the body of a loop; the model's programs are straight-line.

### Fairness

`queue`: a thread with the mutex goes on (weak fairness), and a thread that
is signalled again and again gets the mutex (strong fairness): pthread mutexes
promise no order, but a mutex that is free again and again is not denied for
ever to a runnable thread by any scheduler we know. Consumers call remove in a
loop, as in `demos/multithreaded.lua`; producers need not go on.

`lua_threads`: threads are scheduled and their functions return (weak fairness);
nothing is assumed of the collector, of errors or of the main thread's wish to
close.

`kinect_shared`: threads are scheduled, the device goes on delivering frames of
a stream that is on and `freenect_process_events` returns. Nothing more is
assumed of the locks than weak fairness, because the point of
`pending_runloop_tasks` is that the runloop does not win `runloop_lock` every
time; without its wait (`LoopZeroHurries`) `CallsReturn` fails.

`qtlua`: threads take their events and go on from every point where they are not
made to wait; timed lockers time out; a program ends, a slot goes on, and a
paused engine is resumed some day. Nothing is assumed of which sleeper
`wakeOne` wakes. The model lets a program be stopped or run to its end; programs
that loop for ever make no call return, and the code promises nothing then.

## 4. Proofs

Every safety invariant of the passing runs is a theorem, for every value of the
constants that satisfies the modules' named assumptions:
`NoThread` is no thread; sizes and bounds are numbers; producers and consumers, and
clients and runloops, are different threads; the row is a multiple of the alignment,
segments start in order and an item of a kernel or an image is not longer than a row.
A theorem that needs more of the constants says so in its ASSUME, and below it is
said what goes wrong otherwise. The inductive invariants are defined in the proof
modules, in front of what is proved with them.

**SafeRecursiveMutex.** `OneInside` is not inductive: a thread that has been
refused may already have `mutex`. The invariant `IInv` says who has `barrier`
(`BarrierOwned`) and `mutex` (`MutexOwned`) by label, that a positive count names
a thread inside and not in a wait (`CountOwned`), what a waiter's locals are
(`WaitSaved`) and that a thread between refusal and claim counts nothing
(`OutsideCounts`). From it follow `TypeOK`, `OneInside`, `CountExact`, `Verdict`
and, step by step, `ImplementsRecursiveMutex`: the claim and the re-entry
acquire, the decrement releases, the sleep and the wakeup begin and end a wait,
the other steps stutter.

**ThreadQueue.** `ItemsServed` and `RoomServed` are inductive together with who
has the mutex at which label (`MutexByLabel`), that one operation runs at a time
(`OneOperation`), that producers insert and consumers remove (`Roles`), that
sleepers are in their waits (`Sleepers`) and the bounds of the table
(`Contents`): an insert that signals nobody found the queue non-empty, so the
invariant gave it a consumer awake, and a consumer goes to sleep only on an
empty queue.
`Refinement` rests on three lemmas about the table read as a sequence.

**LuaThreads.** `ActiveExact` says that the count is the cardinality of the set of
counted children; three lemmas say what a step that moves no child, one in, or
one out of that set does to it. `ClosesAlone` needs more: a count of zero must
mean that no child is half made either. `MakersInside` gives it: whoever is
creating a child is inside newthread, makes one child only, and is counted
itself unless it is the main thread, which is then not closing (`NobodyLeft`).
`RunningStateAlive` needs `MadeStateAlive`, that the state is kept from the
collector from the start, first by the stack of its maker.

**KinectSync.** `RunloopExclusive` follows from one fact by label (`LockByLabel`:
whoever is inside has `runloop_lock`). `CallbackBuffer` needs that a stream which
is on has three buffers and the device the third of them (`Buffers`), and that no
stream is switched off during its own callback (`CallbackOn`), which holds
because formats are changed and devices freed inside the lock only. Taking
frames, which is done outside that lock, moves the first two buffers. Failing
opens and failing `process_events` are included.

`TypeOK` says that `pending_runloop_tasks` is not negative, which is inductive only
with its exact value (`TasksExact`): the cardinality of the set of clients between
the two changes of the count; a lemma each says what a client does to the set that
comes, goes or stays. Both hold whatever fails. `CleanStop` holds while two opens
cannot fail at the same time (`OneOpens`): otherwise the second client may start a
runloop beside the one the first is about to join (`libfreenect_sync.c:294`; TLC
finds that behaviour when the hypothesis is dropped). Its invariant `StopInv` names
the runloop that `thread` refers to, and says that whoever joins it is alone.
`ReturnedBufferStable` holds while nothing fails and no stream is asked for another
format than the one it has (`FormatsFixed`), as in `kinect.c:53-54`: a setup or
control call that changes the format frees a ring of which another client may still
have a buffer. Its invariant `StableInv` says what each call in progress asks for
(`CallsKnown`), that there is a device as long as a runloop is wanted and nothing is
returned without one (`DeviceKept`), and that the three buffers of a ring are different
and the returned one is the first of them unless somebody is taking a frame
(`BuffersStable`).

**NeuFlowMemory.** `RawApart` and `ImagesApart` need "everything placed is behind
the pointer, in an earlier band or to its left" (`RawBehind`, `ImagesBehind`) and
aligned pointers; one lemma, `Packing`, covers both, and `HeapStep` the heap, for
which words are counted through the rows. `ReportReliable` shows that the stale
`last_align` cannot hide an overlap: it is less than an alignment, pointers are
aligned, so a reported end inside the segment leaves the pointer at the start of
the next segment at most.

`FileIsMemory` says of a recursive function, `Written`, what it is for every number
of items. The induction is a least counterexample: the set of places where the
function is wrong is not empty, so it has a least element (`WFMin`, `Least`), which
is not the first, and the place before it is right. `FileInv` adds to `IInv` that
the kernels start where their segment does (`RawFromStart`); from that and from
`RawBehind` and `ImagesBehind` the chunks are in order (`ChunksInOrder`), and the
zeros in front of each bring it to its address (`WrittenInPlace`).

**NeuFlowLinker.** The theorems are for all programs, any number of ports and every
page size. The invariant `IInv` says, pass by pass: sentinels frame the list and no
process between them is empty (`Framed`); until `cacheConfigOptimization` is done
there is no padding, later there is none behind the cursor (`Unpadded`); a goto
carries the number of the sentinel that its zeros lead to, and zeros follow a goto
or zeros (`Jumps`, `ZerosBehind`); `curPage` is the cursor's address up to whole
pages (`PageCounted`); the processes in front of the cursor lie in their pages
(`AlignedInPage`). It rests on two descriptions of a step, node by node instead of by
concatenation: `OptimiseShape` (a segment and its place are never next to two
sentinels, so moving it empties no process) and `AlignShape`, the padding moves what
is behind it by as many nodes as addresses. Sentinels are told apart by their
numbers (`NumberTells`), so a goto finds its process in the finished list although
addresses have shifted since. That no process is empty comes from the guard of
`AddProcess`, and is needed: see "What fails".

`PortsSeeSame` compares the values of a recursive function, `After`, for two lists,
one of which has a segment elsewhere and four or five nodes more; which lists these
can be is decided by the programs and by all moves made before. `PortsServed` proves
it in `NeuFlowLinkerSeen` with one more invariant, `SeenInv`: what the ports see is
`meant` from the first pass on, and until the last move the list has a `Structure`.
Its parts are: commands are the known ones (`Listing`); a poll that the optimisation
looks at is for the port itself (`WaitsAtZero`); behind an addressing of a port's
submodule 2 there is a command or one whole set of configurations (`Runs`), and behind
a `cacheStart` there is such a set (`Starts`) and a `cacheFinish`, and nothing in between
restarts or configures the port (`Pairs`); other submodules are configured behind a
reset, with no such poll since (`ResetFirst`). The argument, in the order of the module:

1. The function: it exists at every length, a prefix decides its prefix of states, and
   no port is left with anything in a closed cache (`Emptied`).
2. `OptimiseMoves`: a step changes nothing, or makes one `Move`, which `Moved` describes
   node by node instead of by concatenation. The ports that the searches of the code
   compute (`LastAddr`) are those the streamer has addressed.
3. `MoveSeen`: up to the new place the two lists do the same. Then the new one's cache
   is open and holds the segment's configurations, and nothing else differs (`Sim`),
   because nothing in between restarts or configures the port. At the old place one
   list sees the configurations and the other takes them out of the cache, so that the
   states are equal again (`MoveBehind`), and stay so.
4. `MoveStructure`: the list after the move has the structure again.
5. `ProgramBlock`: what each action of `configPort` writes has the structure and may
   follow any list that has it (`Follows`, `StructureJoined`).
6. `AlignUnseen`, `ResolveUnseen`: padding and addresses are nothing to a port.

Inductions over a list are, again, least counterexamples (`Climb`). Before it was
proved, `SeenInv` was model-checked, for all programs of two actions and in random
ones of more.

**QtLuaEngine.** `OneInLua` and `RunningReported` hold in sessions in which lockers,
evaluations and hops are called, and in sessions in which programs pause, but not in
sessions that have both, where the lock is overwritten (see "What fails"); and only
if no event calls the engine from the loop of a hop (`Nested = {}`). The theorems have
these two hypotheses. The invariant has a part for each kind of session.
`Lockers` says, besides the shape of every thread's stack (`Shape`, `Lies`), that
the count of the lock is the number of frames that hold it and its owner the thread
that has them (`LockOwned`); that a hop under way is exactly one event in one queue
or one frame (`HopPending`, `HopEnded`); that the engine is running while a program
runs or is about to (`Running`); that no event is under way that would make it ready
while one does (`NoReadyEvent`). `Pauses` says the same of a session of one thread,
whose lock is given up and taken back by the pause.

Only model-checked: liveness (`Delivered`, `InsertReturns`, `CloseReturns`,
`CallsReturn`, `SignalsServed`), which is out of the prover's reach. The violations
are counterexamples and need no proof.

## 5. Not modelled

* *QtLua*: `luaQ_doevents`, signals delivered directly in the engine's thread,
  disconnection, named and owned objects, the destructor.
* *Linker*: gotos written by programs (`linkGotos`), the bytes of instructions,
  the dump as text. *Core and compiler*: tiles, arithmetic, layers: generation of
  instructions in one thread, without a state of its own. `allocOnTheHeap_2D` is
  called by nothing.
* *Device interface, etherflow, camiface*: one half of a protocol whose other
  half (the processor, the camera process) is not in the repository. The waits
  without a timeout are listed as hazards.
* *TH storage*: a plain counter, changed without the interpreter's lock
  (`ldo.c:319-321` gives it up around C functions).
* *File serialization*: a recursive walk in one thread, then byte output.
* *Lua threads*: `cond:broadcast`, called by nothing, and the destructors of
  mutexes and conditions, which run when nothing refers to them (`srm_destroy`).
* *Several Kinects*, and `freenect_sync_stop` from another thread during a call.
* Numerical code, wrappers around other libraries, stock Lua apart from what
  `LuaThreads` needs, the Windows emulation of pthreads, sizes and formatting.

What could follow: loops in the linker's programs, and `luaQ_doevents`.
