----------------------------- MODULE QtLuaEngine -----------------------------
(***************************************************************************)
(* The engine that lets several Qt threads share one Lua interpreter       *)
(* (torch/qtlua/qtlua/qtluaengine.cpp): the lock a thread takes to use the *)
(* lua_State, evaluations and calls that hop to the thread of an object    *)
(* and back, queued signals, stop, pause and resume.                       *)
(*                                                                         *)
(* A thread is its queue of posted events and the stack of functions it is *)
(* inside of, each a record saying where it is and what its locals hold.   *)
(* Event loops nest: a thread inside an event loop (its own, the one of a  *)
(* call that hopped, the one of a pause) takes the next event.  An action  *)
(* is one stretch of code with d->mutex held.                              *)
(***************************************************************************)
EXTENDS Naturals, Sequences, SequencesExt, FiniteSets

CONSTANTS
  Threads, Owner, None,   \* Owner: the thread the engine lives in
  Gui,        \* threads that lock with a timeout and evaluate, asynchronously, under it
  Callers,    \* threads in which events call lockers and eval
  Nested,     \* those of them in whose nested event loops such events arrive too
  Calls,      \* what they call: a subset of {"use", "eval", "async"}
  HopTargets, \* threads to whose objects Lua programs hop
  Sessions,   \* subset of {"lockers", "pauses", "both"}: what happens in a behaviour
  MaxCalls, MaxSignals, MaxHops, MaxStops   \* bounds of the model

ASSUME OwnerAssumption ==
  /\ Owner \in Threads /\ None \notin Threads
  /\ Gui \subseteq Threads /\ Callers \subseteq Threads /\ Nested \subseteq Threads
  /\ HopTargets \subseteq Threads
  /\ Calls \subseteq {"use", "eval", "async"}
  /\ Sessions \subseteq {"lockers", "pauses", "both"}
ASSUME BoundsAssumption == {MaxCalls, MaxSignals, MaxHops, MaxStops} \subseteq Nat

VARIABLES
  lockCount, lockThread, rflag,  \* the lock; rflag: the engine is running
  hopEvent, hopLoop,             \* target of the pending hop; loop awaiting its end
  pauseLoop, hookInfo, unwindStack, resumeFlag,
  stopHook,                      \* stopHook is installed in the interpreter
  queuedSignals,                 \* how many
  posted, stack,                 \* per thread
  session,                       \* whether lockers are called, programs pause, or both
  calls, emitted, hops, stops    \* what the bounds count

lock == <<lockCount, lockThread>>
hop == <<hopEvent, hopLoop>>
flags == <<hookInfo, unwindStack, resumeFlag, stopHook>>
counters == <<session, calls, emitted, hops, stops>>
vars == <<lockCount, lockThread, rflag, hopEvent, hopLoop, pauseLoop, hookInfo,
          unwindStack, resumeFlag, stopHook, queuedSignals, posted, stack,
          session, calls, emitted, hops, stops>>

\* A loop is named by its place in a stack.
NoLoop == <<None, 0>>
Frame(at, kind) ==
  [at |-> at, kind |-> kind, count |-> 0, thread |-> None, loop |-> NoLoop,
   info |-> FALSE, left |-> 0, exit |-> "no"]
At(t) == IF stack[t] = <<>> THEN "loop" ELSE Last(stack[t]).at
Kind(t) == IF stack[t] = <<>> THEN "loop" ELSE Last(stack[t]).kind
InLoop(t) == At(t) \in {"loop", "hopping", "paused"}
NextLoop(t) == <<t, Len(stack[t]) + 1>>

Push(st, t, f) == [st EXCEPT ![t] = Append(@, f)]
Pop(st, t) == [st EXCEPT ![t] = Front(@)]
Goto(st, t, at) == [st EXCEPT ![t][Len(st[t])].at = at]
Exit(st, loop, code) == [st EXCEPT ![loop[1]][loop[2]].exit = code]
Post(q, t, e) == [q EXCEPT ![t] = Append(@, e)]
MakeReadyForgotten(q) == q                     \* mutant: emitReadySignal is missing
MakeReady(q) == Post(q, Owner, "ready")        \* emitReadySignal

\* wakeOne: one thread asleep at a place, if there is one, goes back to testing.
WakeOne(st, asleep, awake) ==
  LET S == {t \in Threads : st[t] # <<>> /\ Last(st[t]).at = asleep}
  IN  IF S = {} THEN {st} ELSE {Goto(st, t, awake) : t \in S}
WakeLocker(st) == WakeOne(st, "asleep", "enter")
WakeCatcherForgotten(st) == {st}               \* mutant: hopCondition.wakeOne is missing
WakeCatcher(st) == WakeOne(st, "catchasleep", "catch")

\* The engine has just been made: the first locker has set it running and its
\* release has posted the event that will make it ready.
Init ==
  /\ lockCount = 0 /\ lockThread = None /\ rflag = TRUE
  /\ hopEvent = None /\ hopLoop = NoLoop /\ pauseLoop = NoLoop
  /\ hookInfo = FALSE /\ unwindStack = FALSE /\ resumeFlag = FALSE /\ stopHook = FALSE
  /\ queuedSignals = 0
  /\ posted = [t \in Threads |-> IF t = Owner THEN <<"ready">> ELSE <<>>]
  /\ stack = [t \in Threads |-> <<>>]
  /\ calls = 0 /\ emitted = 0 /\ hops = 0 /\ stops = 0
  /\ session \in Sessions

Ready == pauseLoop = NoLoop /\ ~rflag     \* QtLuaEngine::state()

-----------------------------------------------------------------------------
(* Lockers and evaluations.                                                *)

\* An event calls a locker or eval; the last thing it does inside a locker of its
\* own may be to call eval (as in QLuaApplication::runCommand).
Call(t, k) ==
  /\ session # "pauses" /\ t \in Callers /\ calls < MaxCalls
  /\ \/ /\ At(t) = "loop" \/ (InLoop(t) /\ t \in Nested)
        /\ t \in Gui => k = "use"
        /\ stack' = Push(stack, t, Frame("enter", k))
     \/ /\ At(t) = "held" /\ Kind(t) = "use"
        /\ k = IF t \in Gui THEN "async" ELSE "eval"
        /\ stack' = Push(Goto(stack, t, "done"), t, Frame("enter", k))
  /\ calls' = calls + 1
  /\ UNCHANGED <<lock, rflag, hop, pauseLoop, flags, queuedSignals, posted,
                 session, emitted, hops, stops>>

CanLockUnowned(t) == lockCount > 0 => lockThread = t   \* mutant: forgets lockThread
CanLock(t) == IF lockCount > 0 THEN lockThread = t ELSE lockThread = None

Enter(t) ==
  /\ At(t) = "enter"
  /\ IF CanLock(t)
     THEN /\ lockCount' = lockCount + 1 /\ lockThread' = t
          /\ stack' = Goto(stack, t, "held")
     ELSE stack' = Goto(stack, t, "asleep") /\ UNCHANGED lock
  /\ UNCHANGED <<rflag, hop, pauseLoop, flags, queuedSignals, posted, counters>>

TimeOut(t) ==
  /\ At(t) = "asleep" /\ t \in Gui /\ Kind(t) = "use"
  /\ stack' = Pop(stack, t)
  /\ UNCHANGED <<lock, rflag, hop, pauseLoop, flags, queuedSignals, posted, counters>>

\* ~QtLuaLocker.  The thread stays the owner when a hop is about to use the lock.
Unlock(t) ==
  /\ At(t) = "done" \/ (At(t) = "held" /\ Kind(t) = "use")
  /\ lockCount' = lockCount - 1
  /\ IF lockCount # 1 THEN stack' = Pop(stack, t) /\ UNCHANGED <<lockThread, posted>>
     ELSE IF hopEvent # None
          THEN stack' \in WakeCatcher(Pop(stack, t)) /\ UNCHANGED <<lockThread, posted>>
          ELSE /\ lockThread' = None
               /\ posted' = MakeReady(posted)
               /\ stack' \in WakeLocker(Pop(stack, t))
  /\ UNCHANGED <<rflag, hop, pauseLoop, flags, queuedSignals, counters>>

\* luaQ_pcall to another thread, waiting for the result: the call is posted, and
\* so is, to the caller itself, the event that will free the lock for it.
HopTo(t, u, st) ==
  /\ hopEvent' = u /\ hopLoop' = <<t, Len(st[t]) + 1>>
  /\ posted' = Post(Post(posted, u, "call"), t, "unlock")
  /\ stack' = Push(st, t, [Frame("hopping", "hop") EXCEPT
                     !.count = lockCount, !.thread = lockThread, !.loop = hopLoop])

Eval(t) ==
  /\ At(t) = "held" /\ Kind(t) \in {"eval", "async"}
  /\ LET st == Goto(stack, t, "done") IN
     CASE ~Ready \/ (Kind(t) = "async" /\ t = Owner) ->
            stack' = st /\ UNCHANGED <<rflag, hop, posted>>
       [] Ready /\ Kind(t) = "eval" /\ t = Owner ->
            /\ rflag' = TRUE /\ stack' = Push(st, t, Frame("lua", "here"))
            /\ UNCHANGED <<hop, posted>>
       [] Ready /\ Kind(t) = "async" /\ t # Owner ->
            /\ hopEvent' = Owner /\ posted' = Post(posted, Owner, "call")
            /\ stack' = st /\ UNCHANGED <<rflag, hopLoop>>
       [] Ready /\ Kind(t) = "eval" /\ t # Owner ->
            HopTo(t, Owner, st) /\ UNCHANGED rflag
  /\ UNCHANGED <<lock, pauseLoop, flags, queuedSignals, counters>>

\* mutant: the lock is given back without its count
HopReturnUncounted(t) ==
  /\ At(t) = "hopping" /\ Last(stack[t]).exit # "no"
  /\ lockThread' = Last(stack[t]).thread /\ hopLoop' = Last(stack[t]).loop
  /\ stack' = Pop(stack, t)
  /\ UNCHANGED <<lockCount, rflag, hopEvent, pauseLoop, flags, queuedSignals, posted,
                 counters>>
HopReturn(t) ==
  /\ At(t) = "hopping" /\ Last(stack[t]).exit # "no"
  /\ lockCount' = Last(stack[t]).count /\ lockThread' = Last(stack[t]).thread
  /\ hopLoop' = Last(stack[t]).loop
  /\ stack' = Pop(stack, t)
  /\ UNCHANGED <<rflag, hopEvent, pauseLoop, flags, queuedSignals, posted, counters>>

-----------------------------------------------------------------------------
(* Events.                                                                 *)

NextEvent(t, e) == InLoop(t) /\ posted[t] # <<>> /\ Head(posted[t]) = e
Taken(t) == [posted EXCEPT ![t] = Tail(@)]

\* Unlocker::event
FreeLock(t) ==
  /\ NextEvent(t, "unlock")
  /\ lockCount' = 0 /\ posted' = Taken(t)
  /\ stack' \in WakeCatcher(stack)
  /\ UNCHANGED <<lockThread, rflag, hop, pauseLoop, flags, queuedSignals, counters>>

\* Catcher::event, up to its test of the lock
Catch(t) ==
  /\ NextEvent(t, "call")
  /\ posted' = Taken(t) /\ stack' = Push(stack, t, Frame("catch", "catch"))
  /\ UNCHANGED <<lock, rflag, hop, pauseLoop, flags, queuedSignals, counters>>

CatchWait(t) ==
  /\ At(t) = "catch" /\ lockCount > 0
  /\ stack' = Goto(stack, t, "catchasleep")
  /\ UNCHANGED <<lock, rflag, hop, pauseLoop, flags, queuedSignals, posted, counters>>

\* The end of Catcher::event: the caller's loop is told, or the engine made ready.
CallDone(t, st) ==
  /\ lockCount' = 0
  /\ IF hopLoop # NoLoop
     THEN stack' = Exit(Pop(st, t), hopLoop, "yes") /\ UNCHANGED posted
     ELSE stack' = Pop(st, t) /\ posted' = MakeReady(posted)

CatchRun(t) ==
  /\ At(t) = "catch" /\ lockCount = 0
  /\ lockThread' = t /\ hopEvent' = None
  /\ IF unwindStack
     THEN CallDone(t, stack) /\ UNCHANGED rflag
     ELSE /\ lockCount' = 1 /\ rflag' = TRUE
          /\ stack' = Push(Pop(stack, t), t, Frame("lua", "call"))
          /\ UNCHANGED posted
  /\ UNCHANGED <<hopLoop, pauseLoop, flags, queuedSignals, counters>>

\* What readySlot and queueSlot do at their end, engine not paused.
BecomeReady ==
  /\ hookInfo' = FALSE /\ unwindStack' = FALSE /\ rflag' = FALSE /\ stopHook' = FALSE

\* mutant: the engine is left ready in the pause
BecomePausedReady(loop) ==
  /\ pauseLoop' = loop /\ hookInfo' = FALSE /\ rflag' = FALSE
  /\ UNCHANGED <<unwindStack, stopHook>>
\* What queueSlot does at its end in a pause whose loop is `loop'.
BecomePaused(loop) ==
  /\ pauseLoop' = loop /\ hookInfo' = FALSE /\ rflag' = TRUE
  /\ UNCHANGED <<unwindStack, stopHook>>
Resumed(st, loop, resume) ==
  IF unwindStack THEN Exit(st, loop, "unwind")
  ELSE IF resume THEN Exit(st, loop, "continue") ELSE st

\* The end of queue_sub and of the slot it was called from.
SlotEnds(loop, resume, q, st) ==
  /\ lockCount' = 0 /\ lockThread' = None /\ resumeFlag' = resume
  /\ posted' = IF queuedSignals' = 0 THEN q ELSE Post(q, Owner, "queue")
  /\ IF loop = NoLoop
     THEN BecomeReady /\ UNCHANGED pauseLoop /\ stack' \in WakeLocker(st)
     ELSE BecomePaused(loop) /\ stack' \in WakeLocker(Resumed(st, loop, resume))

\* queue_sub: the signals queued so far are taken and their handlers called one by
\* one with the lock held; while the stack is being unwound they are dropped.
QueueSub(loop, q) ==
  /\ queuedSignals' = 0
  /\ IF queuedSignals > 0 /\ ~unwindStack
     THEN /\ lockCount' = 1 /\ lockThread' = Owner /\ posted' = q
          /\ stack' = Push(Push(stack, Owner,
                             [Frame("signals", "slot") EXCEPT
                                !.left = queuedSignals - 1, !.loop = loop]),
                           Owner, Frame("lua", "signal"))
          /\ rflag' = TRUE /\ pauseLoop' = NoLoop
          /\ resumeFlag' = (resumeFlag /\ loop = NoLoop)
          /\ UNCHANGED <<hookInfo, unwindStack, stopHook>>
     ELSE SlotEnds(loop, resumeFlag /\ loop = NoLoop, q, stack)

NextSignal ==
  /\ At(Owner) = "signals"
  /\ LET f == Last(stack[Owner]) IN
     IF f.left > 0 /\ ~unwindStack /\ pauseLoop = NoLoop
     THEN /\ rflag' = TRUE
          /\ stack' = Push([stack EXCEPT ![Owner][Len(stack[Owner])].left = @ - 1], Owner,
                           Frame("lua", "signal"))
          /\ UNCHANGED <<lock, pauseLoop, flags, queuedSignals, posted>>
     ELSE /\ UNCHANGED queuedSignals
          /\ SlotEnds(f.loop, resumeFlag, posted, Pop(stack, Owner))
  /\ UNCHANGED <<hop, counters>>

ReadySlot ==
  /\ NextEvent(Owner, "ready")
  /\ IF lockCount = 0 /\ hopLoop = NoLoop /\ hopEvent = None /\ pauseLoop = NoLoop
     THEN QueueSub(NoLoop, Taken(Owner))
     ELSE BecomeReady /\ posted' = Taken(Owner)
          /\ UNCHANGED <<lock, pauseLoop, resumeFlag, queuedSignals, stack>>
  /\ UNCHANGED <<hop, counters>>

QueueSlot ==
  /\ NextEvent(Owner, "queue")
  /\ IF pauseLoop # NoLoop /\ ~hookInfo THEN QueueSub(pauseLoop, Taken(Owner))
     ELSE IF lock = <<0, None>> /\ hopEvent = None /\ pauseLoop = NoLoop
          THEN QueueSub(NoLoop, Taken(Owner))
          ELSE /\ posted' = Taken(Owner)
               /\ UNCHANGED <<lock, rflag, pauseLoop, flags, queuedSignals, stack>>
  /\ UNCHANGED <<hop, counters>>

\* Receiver::universal: a Qt signal that Lua is connected to, emitted by any thread.
Emit ==
  /\ emitted < MaxSignals /\ emitted' = emitted + 1
  /\ queuedSignals' = queuedSignals + 1
  /\ posted' = IF queuedSignals = 0 THEN Post(posted, Owner, "queue") ELSE posted
  /\ UNCHANGED <<lock, rflag, hop, pauseLoop, flags, stack,
                 session, calls, hops, stops>>

-----------------------------------------------------------------------------
(* What the Lua program does.                                              *)

\* A call of an object's method in the object's thread (call_in_obj_thread).
LuaHop(t, u) ==
  /\ At(t) = "lua" /\ u \in HopTargets \ {t} /\ session # "pauses"
  /\ hops < MaxHops /\ hops' = hops + 1
  /\ HopTo(t, u, stack)
  /\ UNCHANGED <<lock, rflag, pauseLoop, flags, queuedSignals,
                 session, calls, emitted, stops>>

\* The program ends, or the stop error has unwound it.
LuaEnds(t) ==
  /\ At(t) \in {"lua", "stopped"}
  /\ IF Kind(t) = "call" THEN CallDone(t, stack)
     ELSE stack' = Pop(stack, t) /\ UNCHANGED <<lockCount, posted>>
  /\ UNCHANGED <<lockThread, rflag, hop, pauseLoop, flags, queuedSignals, counters>>

\* lua_pause_sub: the lock is free during the pause.  `info' is the hookInfo to
\* put back after it, `after' what the program does when it is not unwound.
CanPause == pauseLoop = NoLoop /\ rflag /\ ~unwindStack
PauseSub(t, after) ==
  /\ pauseLoop' = NextLoop(t)
  /\ lockCount' = 0 /\ lockThread' = None
  /\ stack' \in WakeLocker(Push(stack, t, [Frame("paused", after) EXCEPT
                 !.count = lockCount, !.thread = lockThread, !.info = hookInfo]))

StopHook(t) ==
  /\ At(t) = "lua" /\ stopHook /\ stopHook' = FALSE
  /\ IF CanPause
     THEN PauseSub(t, "hook") /\ hookInfo' = TRUE
     ELSE /\ stack' = IF unwindStack THEN Goto(stack, t, "stopped") ELSE stack
          /\ UNCHANGED <<lock, pauseLoop, hookInfo>>
  /\ UNCHANGED <<rflag, hop, unwindStack, resumeFlag, queuedSignals,
                 posted, counters>>

\* luaQ_pause
LuaPause(t) ==
  /\ At(t) = "lua" /\ session # "lockers"
  /\ stops < MaxStops /\ stops' = stops + 1
  /\ posted' = Post(posted, Owner, "queue")
  /\ IF CanPause THEN PauseSub(t, "pause")
     ELSE /\ stack' = IF unwindStack THEN Goto(stack, t, "stopped") ELSE stack
          /\ UNCHANGED <<lock, pauseLoop>>
  /\ UNCHANGED <<rflag, hop, flags, queuedSignals, session, calls, emitted, hops>>

\* lua_error_handler with pauseOnError: after the pause the program still fails.
LuaError(t) ==
  /\ At(t) = "lua" /\ session # "lockers" /\ CanPause
  /\ stops < MaxStops /\ stops' = stops + 1
  /\ PauseSub(t, "error")
  /\ UNCHANGED <<rflag, hop, flags, queuedSignals, posted,
                 session, calls, emitted, hops>>

\* luaQ_resume, called by a signal handler that runs during a pause.
LuaResume(t, nocontinue) ==
  /\ At(t) = "lua" /\ session # "lockers"
  /\ stops < MaxStops /\ stops' = stops + 1
  /\ pauseLoop = NoLoop
  /\ unwindStack' = (unwindStack \/ nocontinue)
  /\ resumeFlag' = (resumeFlag \/ ~nocontinue)
  /\ UNCHANGED <<lock, rflag, hop, pauseLoop, hookInfo, stopHook,
                 queuedSignals, posted, stack, session, calls, emitted, hops>>

\* The pause's loop has been left: the lock is taken back as it was.
PauseReturn(t) ==
  /\ At(t) = "paused" /\ Last(stack[t]).exit # "no"
  /\ LET f == Last(stack[t]) IN
     /\ unwindStack' = (unwindStack \/ f.exit = "unwind")
     /\ lockCount' = f.count /\ lockThread' = f.thread
     /\ hookInfo' = IF f.kind = "hook" THEN f.info ELSE hookInfo
     /\ stack' = IF unwindStack' \/ f.kind = "error"
                 THEN Goto(Pop(stack, t), t, "stopped") ELSE Pop(stack, t)
  /\ pauseLoop' = NoLoop
  /\ UNCHANGED <<rflag, hop, resumeFlag, stopHook, queuedSignals,
                 posted, counters>>

-----------------------------------------------------------------------------
(* stop and resume, called from any thread.                                *)

StopHelper(unwind) ==
  /\ unwindStack' = (unwindStack \/ unwind) /\ stopHook' = TRUE
  /\ UNCHANGED stack
ResumeHelper(code) ==
  /\ stack' = Exit(stack, pauseLoop, code)
  /\ UNCHANGED <<unwindStack, stopHook>>

Stop(nopause) ==
  /\ nopause \/ session # "lockers"
  /\ stops < MaxStops /\ stops' = stops + 1
  /\ \/ pauseLoop # NoLoop /\ nopause /\ ResumeHelper("unwind")
     \/ pauseLoop = NoLoop /\ rflag /\ StopHelper(nopause)
  /\ UNCHANGED <<lock, rflag, hop, pauseLoop, hookInfo, resumeFlag,
                 queuedSignals, posted, session, calls, emitted, hops>>

Resume(nocontinue) ==
  /\ \/ pauseLoop # NoLoop /\ ResumeHelper(IF nocontinue THEN "unwind" ELSE "continue")
     \/ pauseLoop = NoLoop /\ rflag /\ nocontinue /\ StopHelper(TRUE)
  /\ UNCHANGED <<lock, rflag, hop, pauseLoop, hookInfo, resumeFlag,
                 queuedSignals, posted, counters>>

-----------------------------------------------------------------------------
ThreadStep(t) ==
  \/ Enter(t) \/ Unlock(t) \/ Eval(t) \/ HopReturn(t)
  \/ FreeLock(t) \/ Catch(t) \/ CatchWait(t) \/ CatchRun(t)
  \/ LuaEnds(t) \/ StopHook(t) \/ PauseReturn(t)

OwnerStep == NextSignal \/ ReadySlot \/ QueueSlot

Program(t) ==
  \/ \E u \in Threads : LuaHop(t, u)
  \/ LuaPause(t) \/ LuaError(t)
  \/ \E b \in BOOLEAN : LuaResume(t, b)

Next ==
  \/ \E t \in Threads :
       \/ ThreadStep(t) \/ TimeOut(t) \/ Program(t)
       \/ \E k \in Calls : Call(t, k)
  \/ OwnerStep \/ Emit
  \/ \E b \in BOOLEAN : Stop(b) \/ Resume(b)

Spec == Init /\ [][Next]_vars

FairSpec ==
  /\ Spec
  /\ \A t \in Threads : WF_vars(ThreadStep(t)) /\ WF_vars(TimeOut(t))
  /\ WF_vars(OwnerStep) /\ WF_vars(Resume(FALSE))
-----------------------------------------------------------------------------
TypeOK ==
  /\ lockCount \in Nat /\ lockThread \in Threads \cup {None}
  /\ hopEvent \in Threads \cup {None}
  /\ {rflag, hookInfo, unwindStack, resumeFlag, stopHook} \subseteq BOOLEAN
  /\ {hopLoop, pauseLoop} \subseteq {NoLoop} \cup (Threads \X (Nat \ {0}))
  /\ queuedSignals \in 0..MaxSignals
  /\ posted \in [Threads -> Seq({"ready", "queue", "unlock", "call"})]
  /\ \A t \in Threads : \A i \in 1..Len(stack[t]) :
       /\ stack[t][i].at \in {"enter", "asleep", "held", "done", "hopping", "catch",
            "catchasleep", "lua", "stopped", "signals", "paused"}
       /\ stack[t][i].exit \in {"no", "yes", "continue", "unwind"}

\* The interpreter is in the hands of the thread that runs a program, and of one
\* that is inside a locker and not waiting for a program it started.
InLua(t) == At(t) \in {"lua", "stopped", "signals", "held", "done"}

\* No two threads are inside the interpreter: neither two that run Lua, nor one
\* that runs Lua and one that took a QtLuaLocker to use the lua_State.
OneInLua == \A t, u \in Threads : InLua(t) /\ InLua(u) => t = u

\* The state says so while a program runs: it can be stopped (stop tests rflag),
\* and evaluations are refused.
RunningReported == \A t \in Threads : At(t) = "lua" => rflag

\* Every thread comes back to its own event loop, when programs end and pauses are
\* resumed: no wakeup is lost, and no hop waits for a thread that waits for the hop.
CallsReturn == \A t \in Threads : stack[t] # <<>> ~> stack[t] = <<>>

\* A queued signal does not stay in the queue.
SignalsServed == (queuedSignals > 0) ~> (queuedSignals = 0)
=============================================================================
