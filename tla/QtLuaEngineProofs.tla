-------------------------- MODULE QtLuaEngineProofs --------------------------
(***************************************************************************)
(* Theorems about qtluaengine.cpp.  First the inductive invariants of both *)
(* kinds of session and what the operators on stacks and queues do; then   *)
(* that every step of a session in which lockers are called keeps          *)
(* `Lockers', and every step of one in which programs pause keeps          *)
(* `Pauses'; at the end, that the two together are inductive and that      *)
(* what they imply is safe.                                                *)
(***************************************************************************)
EXTENDS QtLuaEngine, SequenceTheorems, TLAPS

-----------------------------------------------------------------------------
(* The inductive invariant.                                                *)

Loops == {NoLoop} \cup (Threads \X (Nat \ {0}))
LockerKinds == {"use", "eval", "async"}
Frames ==
  [at : {"enter", "asleep", "held", "done", "hopping", "catch", "catchasleep", "lua",
         "stopped", "signals", "paused"},
   kind : LockerKinds \cup {"hop", "catch", "here", "call", "signal", "slot",
                            "hook", "pause", "error"},
   count : Nat, thread : Threads \cup {None}, loop : Loops,
   info : BOOLEAN, left : Nat, exit : {"no", "yes", "continue", "unwind"}]

Typed == /\ TypeOK /\ stack \in [Threads -> Seq(Frames)]
         /\ session \in Sessions /\ emitted \in 0 .. MaxSignals /\ queuedSignals <= emitted

\* What lies on what, when lockers are called and programs do not pause.  `below' is
\* where the frame underneath is; "loop" is the thread's own event loop.
Below(s, i) == IF i = 1 THEN "loop" ELSE s[i - 1].at

\* How often the thread has the lock when its i-th frame is the last.
Level(s, i) == IF s[i].kind \in LockerKinds THEN IF s[i].at = "enter" THEN i - 1 ELSE i
               ELSE IF s[i].kind = "here" THEN i - 1 ELSE 1

Lies(t, s, i) ==
  /\ i < Len(s) => s[i].at \in {"done", "lua", "hopping", "signals"}
  /\ s[i].kind \in LockerKinds =>
       /\ s[i].at \in {"enter", "asleep", "held", "done"}
       /\ i = 1 \/ (i = 2 /\ Below(s, i) = "done" /\ s[i].kind # "use" /\ s[i].at # "asleep")
  /\ s[i].kind \in {"here", "call", "signal"} => s[i].at \in {"lua", "stopped"}
  /\ s[i].kind = "here" => i > 1 /\ Below(s, i) = "done"
  /\ s[i].kind = "signal" => Below(s, i) = "signals"
  /\ s[i].kind = "call" => Below(s, i) \in {"loop", "hopping"}
  /\ s[i].kind = "catch" =>
       s[i].at \in {"catch", "catchasleep"} /\ Below(s, i) \in {"loop", "hopping"}
  /\ s[i].kind = "slot" =>
       /\ s[i].at = "signals" /\ t = Owner /\ s[i].loop = NoLoop
       /\ Below(s, i) \in {"loop", "hopping"}
  /\ s[i].kind = "hop" =>
       /\ s[i].at = "hopping" /\ Below(s, i) \in {"done", "lua"}
       /\ s[i].thread = t /\ s[i].count = Level(s, i - 1)
  /\ s[i].kind \notin {"hook", "pause", "error"}

Shape(st) == \A t \in Threads : \A i \in 1 .. Len(st[t]) : Lies(t, st[t], i)

\* Top(st, t) is where thread t is; it is inside the lock also when it takes it again.
Top(st, t) == IF st[t] = <<>> THEN "loop" ELSE st[t][Len(st[t])].at
Inside(st, t) == \/ Top(st, t) \in {"lua", "stopped", "signals", "held", "done"}
                 \/ Top(st, t) = "enter" /\ Len(st[t]) = 2

\* An event is in a queue; it is there at most once; a hop's events follow it.
Has(q, e) == \E i \in 1 .. Len(q) : q[i] = e
Once(q, e) == \A i, j \in 1 .. Len(q) : q[i] = e /\ q[j] = e => i = j
Followed(q, e) == \A i \in 1 .. Len(q) : q[i] = e =>
                    \E j \in i + 1 .. Len(q) : q[j] \in {"call", "unlock"}

\* A thread inside has the lock, as often as its frames say; nobody else counts, except
\* one that has hopped away and is about to free it.
LockOwned(st) ==
  /\ \A t \in Threads : Inside(st, t) => lockThread = t /\ lockCount = Level(st[t], Len(st[t]))
  /\ lockCount > 0 => /\ lockThread \in Threads
                      /\ Inside(st, lockThread) \/ Has(posted[lockThread], "unlock")

\* A hop is one event, and after it one frame, of its target; until the event that frees
\* the lock the caller keeps it.  Who is still inside (it evaluates asynchronously) leaves.
HopPending(st) ==
  /\ hopEvent # None =>
       /\ lockThread # None
       /\ \A t \in Threads : Inside(st, t) => Top(st, t) = "done"
  /\ \A t \in Threads : Once(posted[t], "call") /\ Once(posted[t], "unlock")
  /\ \A t \in Threads : Has(posted[t], "call") =>
       hopEvent = t /\ Top(st, t) \notin {"catch", "catchasleep"}
  /\ \A t \in Threads : Top(st, t) \in {"catch", "catchasleep"} => hopEvent = t
  /\ \A t \in Threads : Has(posted[t], "unlock") =>
       /\ lockThread = t /\ lockCount > 0 /\ Top(st, t) = "hopping"
       /\ hopEvent \notin {None, t}

\* Between the end of a hop's call and the return of its caller nobody has the lock.
Exited(st, t, i) == st[t][i].kind = "hop" /\ st[t][i].exit # "no"
HopEnded(st) == \A t \in Threads : \A i \in 1 .. Len(st[t]) : Exited(st, t, i) =>
  hopLoop = <<t, i>> /\ lockCount = 0 /\ lockThread # None /\ hopEvent = None

\* The engine is running while a program runs or waits for its turn ...
InProgram(st, t) == Top(st, t) \in {"lua", "stopped"}
Running(st) ==
  /\ unwindStack => rflag
  /\ \A t \in Threads : InProgram(st, t) => rflag
  /\ \A t \in Threads : \A i \in 1 .. Len(st[t]) : Exited(st, t, i) => rflag

\* ... and events that would make it ready have been handled by then, unless it is the
\* owner's own program, which has not returned to the event loop since.
NoReadyEvent(st) ==
  Has(posted[Owner], "ready") =>
    /\ \A t \in Threads : InProgram(st, t) =>
         t = Owner /\ st[t][Len(st[t])].kind # "call"
    /\ \A t \in Threads : \A i \in 1 .. Len(st[t]) : ~Exited(st, t, i)
    /\ hopEvent # None => Followed(posted[Owner], "ready")

NoPause == pauseLoop = NoLoop /\ (stopHook => unwindStack)

Lockers(st) == /\ Shape(st) /\ LockOwned(st) /\ HopPending(st) /\ HopEnded(st)
               /\ Running(st) /\ NoReadyEvent(st) /\ NoPause

\* When programs pause instead, they are all in the owner's thread: the handlers of
\* signals, the slots that call them and the pauses lie on each other.
PauseLies(s, i) ==
  \/ s[i].at = "signals" /\ Below(s, i) \in {"loop", "paused"} /\ (s[i].loop = NoLoop => i = 1)
  \/ s[i].at \in {"lua", "stopped"} /\ s[i].kind = "signal" /\ Below(s, i) = "signals"
  \/ s[i].at = "paused" /\ Below(s, i) = "lua"

PauseShape(st) ==
  /\ \A t \in Threads \ {Owner} : st[t] = <<>>
  /\ \A i \in 1 .. Len(st[Owner]) : PauseLies(st[Owner], i)

Pauses(st) ==
  /\ PauseShape(st)
  /\ hopEvent = None /\ hopLoop = NoLoop
  /\ \A t \in Threads : ~Has(posted[t], "call") /\ ~Has(posted[t], "unlock")
  /\ \A i \in 1 .. Len(posted[Owner]) : posted[Owner][i] = "ready" => i = 1 /\ st[Owner] = <<>>
  /\ st[Owner] # <<>> => rflag
  /\ Top(st, Owner) = "paused" => pauseLoop # NoLoop

IInv == /\ Typed
        /\ session = "lockers" => Lockers(stack)
        /\ session = "pauses" => Pauses(stack)

-----------------------------------------------------------------------------
(* Proofs.                                                                 *)

Stacks == [Threads -> Seq(Frames)]

-----------------------------------------------------------------------------
(* What the operations on stacks and queues do.                            *)

\* A function is entered.
LEMMA PushIs ==
  ASSUME NEW st \in Stacks, NEW t \in Threads, NEW f \in Frames
  PROVE  /\ Push(st, t, f) \in Stacks
         /\ Len(Push(st, t, f)[t]) = Len(st[t]) + 1
         /\ Push(st, t, f)[t][Len(st[t]) + 1] = f
         /\ \A i \in 1 .. Len(st[t]) : Push(st, t, f)[t][i] = st[t][i]
         /\ \A u \in Threads \ {t} : Push(st, t, f)[u] = st[u]
<1>1. Push(st, t, f) = [st EXCEPT ![t] = Append(st[t], f)]
  BY DEF Push
<1>2. st[t] \in Seq(Frames)
  BY DEF Stacks
<1>3. /\ Append(st[t], f) \in Seq(Frames) /\ Len(Append(st[t], f)) = Len(st[t]) + 1
      /\ \A i \in 1 .. Len(st[t]) : Append(st[t], f)[i] = st[t][i]
      /\ Append(st[t], f)[Len(st[t]) + 1] = f
  BY <1>2, AppendProperties
<1>4. QED BY <1>1, <1>3 DEF Stacks

\* It returns.
LEMMA PopIs ==
  ASSUME NEW st \in Stacks, NEW t \in Threads, st[t] # <<>>
  PROVE  /\ Pop(st, t) \in Stacks
         /\ Len(st[t]) \in Nat \ {0} /\ Len(Pop(st, t)[t]) = Len(st[t]) - 1
         /\ \A i \in 1 .. Len(st[t]) - 1 : Pop(st, t)[t][i] = st[t][i]
         /\ \A u \in Threads \ {t} : Pop(st, t)[u] = st[u]
<1>1. Pop(st, t) = [st EXCEPT ![t] = SubSeq(st[t], 1, Len(st[t]) - 1)]
  BY DEF Pop, Front
<1>2. st[t] \in Seq(Frames)
  BY DEF Stacks
<1>3. Len(st[t]) \in Nat \ {0}
  BY <1>2, EmptySeq
<1>4. \A i \in 1 .. Len(st[t]) - 1 : st[t][i] \in Frames
  BY <1>2, <1>3, ElementOfSeq
<1>5. /\ SubSeq(st[t], 1, Len(st[t]) - 1) \in Seq(Frames)
      /\ Len(SubSeq(st[t], 1, Len(st[t]) - 1)) = Len(st[t]) - 1
      /\ \A i \in 1 .. Len(st[t]) - 1 : SubSeq(st[t], 1, Len(st[t]) - 1)[i] = st[t][i]
  <2>1. Len(st[t]) - 1 \in Int
    BY <1>3
  <2> HIDE DEF Frames
  <2>2. QED BY <1>3, <1>4, <2>1, SubSeqProperties
<1>6. QED BY <1>1, <1>3, <1>5 DEF Stacks

Ats == {"enter", "asleep", "held", "done", "hopping", "catch", "catchasleep", "lua",
        "stopped", "signals", "paused"}

\* A thread goes on within its last function.
LEMMA GotoIs ==
  ASSUME NEW st \in Stacks, NEW t \in Threads, st[t] # <<>>, NEW at \in Ats
  PROVE  /\ Goto(st, t, at) \in Stacks
         /\ Len(st[t]) \in Nat \ {0} /\ Len(Goto(st, t, at)[t]) = Len(st[t])
         /\ Goto(st, t, at)[t][Len(st[t])] = [st[t][Len(st[t])] EXCEPT !.at = at]
         /\ \A i \in 1 .. Len(st[t]) - 1 : Goto(st, t, at)[t][i] = st[t][i]
         /\ \A u \in Threads \ {t} : Goto(st, t, at)[u] = st[u]
<1> DEFINE n == Len(st[t])
           f == [st[t][n] EXCEPT !.at = at]
<1>1. st[t] \in Seq(Frames)
  BY DEF Stacks
<1>2. n \in Nat \ {0}
  BY <1>1, EmptySeq
<1>3. st[t][n] \in Frames
  BY <1>1, <1>2, ElementOfSeq
<1>4. f \in Frames
  BY <1>3 DEF Frames, Ats
<1>5. Goto(st, t, at) = [st EXCEPT ![t] = [st[t] EXCEPT ![n] = f]]
  BY DEF Goto
<1>6. /\ [st[t] EXCEPT ![n] = f] \in Seq(Frames) /\ Len([st[t] EXCEPT ![n] = f]) = n
      /\ \A j \in 1 .. n : [st[t] EXCEPT ![n] = f][j] = IF j = n THEN f ELSE st[t][j]
  <2>1. n \in 1 .. Len(st[t])
    BY <1>2
  <2> HIDE DEF f, Frames
  <2>2. QED BY <1>1, <1>4, <2>1, ExceptSeq
<1> HIDE DEF f
<1>7. Goto(st, t, at)[t] = [st[t] EXCEPT ![n] = f] /\ Goto(st, t, at) \in Stacks
  BY <1>5, <1>6 DEF Stacks
<1>8. \A u \in Threads \ {t} : Goto(st, t, at)[u] = st[u]
  BY <1>5 DEF Stacks
<1>9. QED BY <1>2, <1>6, <1>7, <1>8 DEF f

\* A frame without what the loop it waits in is to return.
SameFrame(g, f) == /\ g.at = f.at /\ g.kind = f.kind /\ g.count = f.count
                   /\ g.thread = f.thread /\ g.loop = f.loop /\ g.info = f.info

\* A loop is told to return.
LEMMA ExitIs ==
  ASSUME NEW st \in Stacks, NEW loop \in Loops, NEW code \in {"yes", "continue", "unwind"}
  PROVE  /\ Exit(st, loop, code) \in Stacks
         /\ \A t \in Threads : /\ Len(Exit(st, loop, code)[t]) = Len(st[t])
                               /\ \A i \in 1 .. Len(st[t]) :
                                    /\ SameFrame(Exit(st, loop, code)[t][i], st[t][i])
                                    /\ <<t, i>> # loop => Exit(st, loop, code)[t][i] = st[t][i]
<1> DEFINE t == loop[1]
           n == loop[2]
           f == [st[t][n] EXCEPT !.exit = code]
<1>1. Exit(st, loop, code) = [st EXCEPT ![t] = [st[t] EXCEPT ![n] = f]]
  BY DEF Exit
<1>2. CASE t \in Threads /\ n \in 1 .. Len(st[t])
  <2>1. st[t] \in Seq(Frames) /\ st[t][n] \in Frames
    BY <1>2, ElementOfSeq DEF Stacks
  <2>2. f \in Frames /\ SameFrame(f, st[t][n])
    BY <2>1, ZenonT(30) DEF Frames, SameFrame
  <2>3. /\ [st[t] EXCEPT ![n] = f] \in Seq(Frames) /\ Len([st[t] EXCEPT ![n] = f]) = Len(st[t])
        /\ \A j \in 1 .. Len(st[t]) : [st[t] EXCEPT ![n] = f][j] = IF j = n THEN f ELSE st[t][j]
    <3> HIDE DEF f, Frames, t, n
    <3>1. QED BY <1>2, <2>1, <2>2, ExceptSeq
  <2>4. loop = <<t, n>>
    BY <1>2, OwnerAssumption DEF Loops, NoLoop
  <2> HIDE DEF f, t, n
  <2>5. Exit(st, loop, code)[t] = [st[t] EXCEPT ![n] = f] /\ Exit(st, loop, code) \in Stacks
    BY <1>1, <1>2, <2>3 DEF Stacks
  <2>6. \A u \in Threads \ {t} : Exit(st, loop, code)[u] = st[u]
    BY <1>1 DEF Stacks
  <2>7. ASSUME NEW u \in Threads
        PROVE  /\ Len(Exit(st, loop, code)[u]) = Len(st[u])
               /\ \A i \in 1 .. Len(st[u]) :
                    /\ SameFrame(Exit(st, loop, code)[u][i], st[u][i])
                    /\ <<u, i>> # loop => Exit(st, loop, code)[u][i] = st[u][i]
    <3>1. CASE u = t
      BY <3>1, <2>2, <2>3, <2>4, <2>5, ZenonT(30) DEF SameFrame
    <3>2. CASE u # t
      BY <3>2, <2>6 DEF SameFrame
    <3>3. QED BY <3>1, <3>2
  <2>8. QED BY <2>5, <2>7
<1>3. CASE ~(t \in Threads /\ n \in 1 .. Len(st[t]))
  <2>1. Exit(st, loop, code) = st
    <3>1. CASE t \notin Threads
      BY <1>1, <3>1 DEF Stacks
    <3>2. CASE t \in Threads /\ n \notin 1 .. Len(st[t])
      <4>1. st[t] \in Seq(Frames)
        BY <3>2 DEF Stacks
      <4>2. DOMAIN st[t] = 1 .. Len(st[t])
        BY <4>1, LenProperties
      <4>3. [st[t] EXCEPT ![n] = f] = st[t]
        <5> HIDE DEF f, n, t
        <5>1. QED BY <3>2, <4>1, <4>2
      <4>4. QED BY <1>1, <3>2, <4>3 DEF Stacks
    <3>3. QED BY <1>3, <3>1, <3>2
  <2>2. QED BY <2>1 DEF SameFrame
<1>4. QED BY <1>2, <1>3

-----------------------------------------------------------------------------
(* What lies on what.                                                      *)

\* Stacks have a length, and frames for elements.
LEMMA StackIs ==
  ASSUME NEW st \in Stacks, NEW t \in Threads
  PROVE  /\ Len(st[t]) \in Nat /\ (st[t] = <<>> <=> Len(st[t]) = 0)
         /\ \A i \in 1 .. Len(st[t]) : st[t][i] \in Frames
<1>1. st[t] \in Seq(Frames)
  BY DEF Stacks
<1> HIDE DEF Frames
<1>2. QED BY <1>1, EmptySeq, ElementOfSeq, LenProperties

\* What is under the last frame does not change when it is replaced or another is pushed.
LEMMA LiesBelow ==
  ASSUME NEW t, NEW s, NEW r, NEW i \in 1 .. Len(r), Len(s) \in Nat, Len(r) \in Nat,
         i <= Len(s), \A j \in 1 .. i : r[j] = s[j], Lies(t, s, i),
         i < Len(r) => i < Len(s) \/ s[i].at \in {"done", "lua", "hopping", "signals"}
  PROVE  Lies(t, r, i)
<1>1. r[i] = s[i] /\ Below(r, i) = Below(s, i)
  BY DEF Below
<1>2. i > 1 => Level(r, i - 1) = Level(s, i - 1)
  BY DEF Level
<1>3. s[i].kind = "hop" => i > 1
  BY DEF Lies, Below
<1>4. QED BY <1>1, <1>2, <1>3 DEF Lies

\* A frame may be pushed on one that can wait below it.
LEMMA PushShape ==
  ASSUME NEW st \in Stacks, NEW t \in Threads, NEW f \in Frames, Shape(st),
         Top(st, t) \in {"loop", "done", "lua", "hopping", "signals"},
         Lies(t, Push(st, t, f)[t], Len(st[t]) + 1)
  PROVE  Shape(Push(st, t, f))
<1> DEFINE n == Push(st, t, f)
<1>1. /\ n \in Stacks /\ Len(n[t]) = Len(st[t]) + 1 /\ \A i \in 1 .. Len(st[t]) : n[t][i] = st[t][i]
      /\ \A u \in Threads \ {t} : n[u] = st[u]
  BY PushIs
<1>2. Len(st[t]) \in Nat /\ (st[t] = <<>> <=> Len(st[t]) = 0)
  BY StackIs
<1> HIDE DEF n
<1>3. ASSUME NEW i \in 1 .. Len(n[t]) PROVE Lies(t, n[t], i)
  <2>1. CASE i = Len(st[t]) + 1
    BY <2>1 DEF n
  <2>2. CASE i \in 1 .. Len(st[t])
    <3>1. Lies(t, st[t], i)
      BY <2>2 DEF Shape
    <3>2. i < Len(st[t]) \/ st[t][i].at \in {"done", "lua", "hopping", "signals"}
      BY <2>2, <1>2, StackIs, SMTT(30) DEF Top, Frames
    <3>3. /\ \A j \in 1 .. i : n[t][j] = st[t][j]
          /\ Len(n[t]) \in Nat /\ i <= Len(st[t])
      BY <1>1, <1>2, <2>2
    <3>4. QED BY <1>2, <3>1, <3>2, <3>3, LiesBelow
  <2>3. QED BY <1>1, <1>2, <2>1, <2>2
<1>4. QED BY <1>1, <1>3 DEF Shape, n

\* Returning uncovers what lay below.
LEMMA PopShape ==
  ASSUME NEW st \in Stacks, NEW t \in Threads, st[t] # <<>>, Shape(st)
  PROVE  Shape(Pop(st, t))
<1> DEFINE n == Pop(st, t)
<1>1. /\ n \in Stacks /\ Len(st[t]) \in Nat \ {0} /\ Len(n[t]) = Len(st[t]) - 1
  BY PopIs
<1>0. /\ \A i \in 1 .. Len(st[t]) - 1 : n[t][i] = st[t][i]
      /\ \A u \in Threads \ {t} : n[u] = st[u]
  BY PopIs
<1> HIDE DEF n
<1>2. ASSUME NEW i \in 1 .. Len(n[t]) PROVE Lies(t, n[t], i)
  <2>1. Lies(t, st[t], i)
    BY <1>1 DEF Shape
  <2>2. /\ \A j \in 1 .. i : n[t][j] = st[t][j]
        /\ Len(n[t]) \in Nat /\ i <= Len(st[t]) /\ i < Len(st[t])
    BY <1>0, <1>1
  <2>3. QED BY <1>1, <2>1, <2>2, LiesBelow
<1>3. QED BY <1>0, <1>2 DEF Shape, n

\* A frame may go on if what it becomes lies on what is below.
LEMMA GotoShape ==
  ASSUME NEW st \in Stacks, NEW t \in Threads, st[t] # <<>>, NEW at \in Ats, Shape(st),
         Lies(t, Goto(st, t, at)[t], Len(st[t]))
  PROVE  Shape(Goto(st, t, at))
<1>1. /\ Goto(st, t, at) \in Stacks
      /\ Len(st[t]) \in Nat \ {0} /\ Len(Goto(st, t, at)[t]) = Len(st[t])
      /\ Goto(st, t, at)[t][Len(st[t])] = [st[t][Len(st[t])] EXCEPT !.at = at]
      /\ \A i \in 1 .. Len(st[t]) - 1 : Goto(st, t, at)[t][i] = st[t][i]
      /\ \A u \in Threads \ {t} : Goto(st, t, at)[u] = st[u]
  BY GotoIs
<1> DEFINE n == Goto(st, t, at)
<1> HIDE DEF n
<1>2. ASSUME NEW i \in 1 .. Len(n[t]) PROVE Lies(t, n[t], i)
  <2>0. /\ n \in Stacks /\ Len(n[t]) = Len(st[t])
        /\ \A j \in 1 .. Len(st[t]) - 1 : n[t][j] = st[t][j]
    BY <1>1 DEF n
  <2>1. CASE i = Len(st[t])
    BY <2>1 DEF n
  <2>2. CASE i \in 1 .. Len(st[t]) - 1
    <3>1. Lies(t, st[t], i)
      BY <2>2, <1>1 DEF Shape
    <3>2. /\ \A j \in 1 .. i : n[t][j] = st[t][j]
          /\ Len(n[t]) \in Nat /\ i <= Len(st[t]) /\ i < Len(st[t])
      BY <1>1, <2>0, <2>2
    <3>3. QED BY <1>1, <3>1, <3>2, LiesBelow
  <2>3. QED BY <1>1, <2>0, <2>1, <2>2
<1>3. QED BY <1>1, <1>2 DEF Shape, n

\* The shape does not look at what loops return.
LEMMA ExitShape ==
  ASSUME NEW st \in Stacks, NEW n \in Stacks, Shape(st),
         \A t \in Threads : /\ Len(n[t]) = Len(st[t])
                            /\ \A i \in 1 .. Len(st[t]) : SameFrame(n[t][i], st[t][i])
  PROVE  /\ Shape(n)
         /\ \A t \in Threads : /\ Top(n, t) = Top(st, t) /\ (Inside(n, t) <=> Inside(st, t))
                               /\ \A i \in 1 .. Len(st[t]) : Level(n[t], i) = Level(st[t], i)
<1>1. ASSUME NEW t \in Threads
      PROVE  /\ Top(n, t) = Top(st, t) /\ (Inside(n, t) <=> Inside(st, t))
             /\ \A i \in 1 .. Len(st[t]) : Level(n[t], i) = Level(st[t], i)
  <2>1. /\ Len(st[t]) \in Nat /\ (st[t] = <<>> <=> Len(st[t]) = 0)
        /\ Len(n[t]) \in Nat /\ (n[t] = <<>> <=> Len(n[t]) = 0)
    BY StackIs
  <2>2. Top(n, t) = Top(st, t)
    BY <2>1 DEF Top, SameFrame
  <2>3. \A i \in 1 .. Len(st[t]) : Level(n[t], i) = Level(st[t], i)
    BY DEF Level, SameFrame
  <2>4. QED BY <2>2, <2>3 DEF Inside
<1>2. ASSUME NEW t \in Threads, NEW i \in 1 .. Len(n[t])
      PROVE  Lies(t, n[t], i)
  <2>1. Len(st[t]) = Len(n[t]) /\ Len(st[t]) \in Nat
    BY StackIs
  <2>2. Lies(t, st[t], i) /\ SameFrame(n[t][i], st[t][i])
    BY <2>1 DEF Shape
  <2>3. Below(n[t], i) = Below(st[t], i)
    BY <2>1 DEF Below, SameFrame
  <2>4. st[t][i].kind = "hop" => i > 1
    BY <2>2 DEF Lies, Below
  <2>5. i > 1 => Level(n[t], i - 1) = Level(st[t], i - 1)
    BY <2>1, <1>1
  <2>6. QED BY <2>1, <2>2, <2>3, <2>4, <2>5 DEF Lies, SameFrame
<1>3. QED BY <1>1, <1>2 DEF Shape

-----------------------------------------------------------------------------
(* What the invariant sees of a step of one thread.                        *)

\* The stacks of other threads look the same.
LEMMA OthersSame ==
  ASSUME NEW st, NEW n, NEW t \in Threads, \A u \in Threads \ {t} : n[u] = st[u]
  PROVE  \A u \in Threads \ {t} :
           /\ Top(n, u) = Top(st, u) /\ (Inside(n, u) <=> Inside(st, u))
           /\ Level(n[u], Len(n[u])) = Level(st[u], Len(st[u]))
           /\ (InProgram(n, u) <=> InProgram(st, u))
           /\ n[u] = st[u] /\ \A i : Exited(n, u, i) <=> Exited(st, u, i)
<1>1. QED BY DEF Top, Inside, InProgram, Exited

\* After a push the new frame is seen.
LEMMA PushEffect ==
  ASSUME NEW st \in Stacks, NEW t \in Threads, NEW f \in Frames
  PROVE  /\ Top(Push(st, t, f), t) = f.at /\ Len(Push(st, t, f)[t]) = Len(st[t]) + 1
         /\ Push(st, t, f)[t][Len(st[t]) + 1] = f /\ Len(st[t]) \in Nat
         /\ Below(Push(st, t, f)[t], Len(st[t]) + 1) = Top(st, t)
         /\ Len(st[t]) > 0 =>
              Level(Push(st, t, f)[t], Len(st[t])) = Level(st[t], Len(st[t]))
         /\ f.exit = "no" => \A i \in 1 .. Len(st[t]) + 1 : Exited(Push(st, t, f), t, i) =>
              i \in 1 .. Len(st[t]) /\ Exited(st, t, i)
<1> DEFINE n == Push(st, t, f)
           k == Len(st[t])
<1>1. /\ n \in Stacks /\ Len(n[t]) = k + 1 /\ n[t][k + 1] = f
      /\ \A i \in 1 .. k : n[t][i] = st[t][i]
  BY PushIs
<1>2. k \in Nat /\ (st[t] = <<>> <=> k = 0) /\ (n[t] = <<>> <=> Len(n[t]) = 0)
  BY <1>1, StackIs
<1> HIDE DEF n
<1>3. Top(n, t) = f.at
  BY <1>1, <1>2 DEF Top
<1>4. Below(n[t], k + 1) = Top(st, t)
  BY <1>1, <1>2 DEF Below, Top
<1>5. k > 0 => Level(n[t], k) = Level(st[t], k)
  BY <1>1, <1>2 DEF Level
<1>6. ASSUME f.exit = "no", NEW i \in 1 .. k + 1, Exited(n, t, i)
      PROVE  i \in 1 .. k /\ Exited(st, t, i)
  BY <1>1, <1>2, <1>6, SMTT(30) DEF Exited
<1>7. QED BY <1>1, <1>2, <1>3, <1>4, <1>5, <1>6 DEF n

\* After a pop the frame below is.
LEMMA PopEffect ==
  ASSUME NEW st \in Stacks, NEW t \in Threads, st[t] # <<>>
  PROVE  /\ Top(Pop(st, t), t) = Below(st[t], Len(st[t])) /\ Len(Pop(st, t)[t]) = Len(st[t]) - 1
         /\ \A i \in 1 .. Len(st[t]) - 1 : /\ Level(Pop(st, t)[t], i) = Level(st[t], i)
                                           /\ Pop(st, t)[t][i] = st[t][i]
                                           /\ (Exited(Pop(st, t), t, i) <=> Exited(st, t, i))
         /\ Len(st[t]) \in Nat \ {0} /\ Top(st, t) = st[t][Len(st[t])].at
<1> DEFINE n == Pop(st, t)
           k == Len(st[t])
<1>1. /\ n \in Stacks /\ k \in Nat \ {0} /\ Len(n[t]) = k - 1
      /\ \A i \in 1 .. k - 1 : n[t][i] = st[t][i]
  BY PopIs
<1>2. n[t] = <<>> <=> Len(n[t]) = 0
  BY <1>1, StackIs
<1> HIDE DEF n
<1>3. Top(n, t) = Below(st[t], k)
  BY <1>1, <1>2 DEF Top, Below
<1>4. Top(st, t) = st[t][k].at
  BY DEF Top
<1>5. \A i \in 1 .. k - 1 : /\ Level(n[t], i) = Level(st[t], i)
                           /\ (Exited(n, t, i) <=> Exited(st, t, i))
  BY <1>1 DEF Level, Exited
<1>6. QED BY <1>1, <1>3, <1>4, <1>5 DEF n

\* A thread that goes on is seen where it has gone.
LEMMA GotoEffect ==
  ASSUME NEW st \in Stacks, NEW t \in Threads, st[t] # <<>>, NEW at \in Ats
  PROVE  /\ Top(Goto(st, t, at), t) = at /\ Len(Goto(st, t, at)[t]) = Len(st[t])
         /\ \A i \in 1 .. Len(st[t]) - 1 : Level(Goto(st, t, at)[t], i) = Level(st[t], i)
         /\ \A i \in 1 .. Len(st[t]) : Exited(Goto(st, t, at), t, i) <=> Exited(st, t, i)
         /\ Goto(st, t, at)[t][Len(st[t])].at = at
         /\ Goto(st, t, at)[t][Len(st[t])].kind = st[t][Len(st[t])].kind
         /\ Goto(st, t, at)[t][Len(st[t])].loop = st[t][Len(st[t])].loop
         /\ Below(Goto(st, t, at)[t], Len(st[t])) = Below(st[t], Len(st[t]))
         /\ Len(st[t]) \in Nat \ {0} /\ Top(st, t) = st[t][Len(st[t])].at
<1>1. /\ Goto(st, t, at) \in Stacks
      /\ Len(st[t]) \in Nat \ {0} /\ Len(Goto(st, t, at)[t]) = Len(st[t])
      /\ Goto(st, t, at)[t][Len(st[t])] = [st[t][Len(st[t])] EXCEPT !.at = at]
      /\ \A i \in 1 .. Len(st[t]) - 1 : Goto(st, t, at)[t][i] = st[t][i]
      /\ \A u \in Threads \ {t} : Goto(st, t, at)[u] = st[u]
  BY GotoIs
<1> DEFINE n == Goto(st, t, at)
           k == Len(st[t])
           f == st[t][k]
<1>2. n[t] = <<>> <=> Len(n[t]) = 0
  BY <1>1, StackIs
<1>3. f \in Frames
  BY <1>1, StackIs
<1>4. /\ [f EXCEPT !.at = at].at = at /\ [f EXCEPT !.at = at].kind = f.kind
      /\ [f EXCEPT !.at = at].exit = f.exit /\ [f EXCEPT !.at = at].loop = f.loop
  BY <1>3 DEF Frames
<1>5. k \in Nat \ {0} /\ Len(n[t]) = k /\ n[t][k] = [f EXCEPT !.at = at]
      /\ \A i \in 1 .. k - 1 : n[t][i] = st[t][i]
  BY <1>1
<1>6. /\ n[t][k].at = at /\ n[t][k].kind = f.kind /\ n[t][k].exit = f.exit /\ n[t][k].loop = f.loop
  BY <1>4, <1>5
<1> HIDE DEF n, f, k
<1>12. k \in Nat \ {0} /\ Len(n[t]) = k /\ \A i \in 1 .. k - 1 : n[t][i] = st[t][i]
  BY <1>5
<1>13. Top(n, t) = at
  BY <1>2, <1>6, <1>12 DEF Top
<1>14. Below(n[t], k) = Below(st[t], k)
  <2>1. k # 1 => k - 1 \in 1 .. k - 1
    BY <1>12
  <2>2. k # 1 => n[t][k - 1] = st[t][k - 1]
    BY <1>12, <2>1
  <2>3. QED BY <2>2 DEF Below
<1>7. \A i \in 1 .. k - 1 : Level(n[t], i) = Level(st[t], i)
  BY <1>5 DEF Level
<1>8. ASSUME NEW i \in 1 .. k PROVE Exited(n, t, i) <=> Exited(st, t, i)
  <2>1. CASE i = k
    BY <1>6, <2>1 DEF Exited, f, k
  <2>2. CASE i # k
    BY <1>12, <2>2 DEF Exited
  <2>3. QED BY <2>1, <2>2
<1>9. Top(st, t) = f.at
  BY DEF Top, f, k
<1>11. QED BY <1>12, <1>6, <1>13, <1>14, <1>7, <1>8, <1>9 DEF n, f, k

\* The kind of a frame says where the function may be.
LEMMA KindOf ==
  ASSUME NEW st \in Stacks, NEW t \in Threads, Shape(st), NEW i \in 1 .. Len(st[t])
  PROVE  /\ st[t][i].at \in {"enter", "asleep", "held", "done"} <=> st[t][i].kind \in LockerKinds
         /\ st[t][i].at \in {"lua", "stopped"} <=> st[t][i].kind \in {"here", "call", "signal"}
         /\ st[t][i].at = "hopping" <=> st[t][i].kind = "hop"
         /\ st[t][i].at \in {"catch", "catchasleep"} <=> st[t][i].kind = "catch"
         /\ st[t][i].at = "signals" <=> st[t][i].kind = "slot"
         /\ st[t][i].at # "paused"
<1>1. Lies(t, st[t], i) /\ st[t][i] \in Frames
  BY StackIs DEF Shape
<1>2. /\ st[t][i].at \in Ats
      /\ st[t][i].kind \in LockerKinds \cup {"hop", "catch", "here", "call", "signal", "slot",
                                          "hook", "pause", "error"}
  BY <1>1 DEF Frames, Ats
<1>3. QED BY <1>1, <1>2 DEF Lies, LockerKinds, Ats

\* Top and Inside in terms of the last frame.
LEMMA TopIs ==
  ASSUME NEW st \in Stacks, NEW t \in Threads, Shape(st)
  PROVE  /\ Top(st, t) = "loop" <=> st[t] = <<>>
         /\ st[t] # <<>> => /\ Len(st[t]) \in Nat \ {0} /\ Top(st, t) = st[t][Len(st[t])].at
                            /\ Lies(t, st[t], Len(st[t])) /\ st[t][Len(st[t])] \in Frames
         /\ Inside(st, t) => /\ st[t] # <<>>
                             /\ Level(st[t], Len(st[t])) \in Nat \ {0}
                             /\ Top(st, t) \in {"lua", "stopped", "signals", "held", "done", "enter"}
<1>1. Len(st[t]) \in Nat /\ (st[t] = <<>> <=> Len(st[t]) = 0)
  BY StackIs
<1>2. st[t] # <<>> => /\ Len(st[t]) \in Nat \ {0} /\ Top(st, t) = st[t][Len(st[t])].at
                      /\ Lies(t, st[t], Len(st[t])) /\ st[t][Len(st[t])] \in Frames
  BY <1>1, StackIs DEF Top, Shape
<1>3. Top(st, t) = "loop" <=> st[t] = <<>>
  BY <1>2 DEF Top, Frames
<1>4. ASSUME Inside(st, t)
      PROVE  /\ st[t] # <<>>
             /\ Level(st[t], Len(st[t])) \in Nat \ {0}
             /\ Top(st, t) \in {"lua", "stopped", "signals", "held", "done", "enter"}
  <2>1. st[t] # <<>> /\ Top(st, t) \in {"lua", "stopped", "signals", "held", "done", "enter"}
    BY <1>3, <1>4 DEF Inside
  <2>2. Top(st, t) = "enter" => Len(st[t]) = 2
    BY <1>4 DEF Inside
  <2>3. Level(st[t], Len(st[t])) \in Nat \ {0}
    <3> DEFINE n == Len(st[t])
               f == st[t][n]
    <3>1. n \in Nat \ {0} /\ Top(st, t) = f.at /\ Lies(t, st[t], n)
      BY <1>2, <2>1
    <3>2. f.kind \in LockerKinds => (f.at = "enter" => n = 2)
      BY <2>2, <3>1
    <3>3. f.kind = "here" => n > 1
      BY <3>1 DEF Lies
    <3> HIDE DEF n
    <3>4. n \in Nat \ {0} /\ (n = 2 => n - 1 \in Nat \ {0}) /\ (n > 1 => n - 1 \in Nat \ {0})
      BY <3>1
    <3>5. Level(st[t], n) \in Nat \ {0}
      <4>1. CASE f.kind \in LockerKinds
        BY <3>2, <3>4, <4>1 DEF Level
      <4>2. CASE f.kind \notin LockerKinds
        BY <3>3, <3>4, <4>2 DEF Level
      <4>3. QED BY <4>1, <4>2
    <3>6. QED BY <3>5 DEF n
  <2>4. QED BY <2>1, <2>3
<1>5. QED BY <1>2, <1>3, <1>4

-----------------------------------------------------------------------------
(* Queues of events.                                                       *)

Events == {"ready", "queue", "unlock", "call"}
Queues == [Threads -> Seq(Events)]

LEMMA AppendEvent ==
  ASSUME NEW q \in Seq(Events), NEW e \in Events
  PROVE  /\ Append(q, e) \in Seq(Events)
         /\ \A d : Has(Append(q, e), d) <=> Has(q, d) \/ d = e
         /\ \A d : Once(q, d) /\ (d = e => ~Has(q, d)) => Once(Append(q, e), d)
         /\ (e \in {"call", "unlock"} \/ (e = "queue" /\ Followed(q, "ready")))
              => Followed(Append(q, e), "ready")
<1> DEFINE n == Len(q)
           r == Append(q, e)
<1>1. /\ n \in Nat /\ r \in Seq(Events) /\ Len(r) = n + 1 /\ r[n + 1] = e
      /\ \A i \in 1 .. n : r[i] = q[i]
  BY AppendProperties, LenProperties
<1> HIDE DEF n, r
<1>2. ASSUME NEW d PROVE Has(r, d) <=> Has(q, d) \/ d = e
  BY <1>1 DEF Has, n
<1>3. ASSUME NEW d, Once(q, d), d = e => ~Has(q, d) PROVE Once(r, d)
  BY <1>1, <1>3 DEF Has, Once, n
<1>4. e \in {"call", "unlock"} => Followed(r, "ready")
  BY <1>1 DEF Followed
<1>5. e = "queue" /\ Followed(q, "ready") => Followed(r, "ready")
  BY <1>1 DEF Followed, n
<1>6. QED BY <1>1, <1>2, <1>3, <1>4, <1>5 DEF r

LEMMA TailEvent ==
  ASSUME NEW q \in Seq(Events), q # <<>>
  PROVE  /\ Tail(q) \in Seq(Events) /\ Head(q) \in Events /\ Has(q, Head(q))
         /\ \A d : Has(Tail(q), d) => Has(q, d)
         /\ \A d : Has(q, d) /\ d # Head(q) => Has(Tail(q), d)
         /\ \A d : Once(q, d) => Once(Tail(q), d)
         /\ Once(q, Head(q)) => ~Has(Tail(q), Head(q))
         /\ Followed(q, "ready") => Followed(Tail(q), "ready")
<1> DEFINE n == Len(q)
           r == Tail(q)
<1>1. /\ n \in Nat \ {0} /\ r \in Seq(Events) /\ Len(r) = n - 1
      /\ \A i \in 1 .. n - 1 : r[i] = q[i + 1]
      /\ Head(q) = q[1] /\ Head(q) \in Events
  BY HeadTailProperties, LenProperties, EmptySeq
<1> HIDE DEF n, r
<1>2. Has(q, Head(q))
  BY <1>1 DEF Has, n
<1>3. \A d : Has(r, d) => Has(q, d)
  BY <1>1 DEF Has, n
<1>4. ASSUME NEW d, Has(q, d), d # Head(q) PROVE Has(r, d)
  <2>1. PICK i \in 1 .. n : q[i] = d
    BY <1>4 DEF Has, n
  <2>2. i - 1 \in 1 .. n - 1
    BY <1>1, <1>4, <2>1
  <2>3. r[i - 1] = d
    BY <1>1, <2>1, <2>2
  <2>4. QED BY <1>1, <2>2, <2>3 DEF Has
<1>5. \A d : Once(q, d) => Once(r, d)
  BY <1>1 DEF Once, n
<1>6. Once(q, Head(q)) => ~Has(r, Head(q))
  BY <1>1 DEF Once, Has, n
<1>7. ASSUME Followed(q, "ready"), NEW i \in 1 .. Len(r), r[i] = "ready"
      PROVE  \E j \in i + 1 .. Len(r) : r[j] \in {"call", "unlock"}
  <2>1. i + 1 \in 1 .. n /\ q[i + 1] = "ready"
    BY <1>1, <1>7
  <2>2. PICK j \in i + 2 .. n : q[j] \in {"call", "unlock"}
    BY <1>7, <2>1 DEF Followed, n
  <2>3. j - 1 \in 1 .. n - 1 /\ j - 1 \in i + 1 .. Len(r)
    BY <1>1, <2>1, <2>2
  <2>4. r[j - 1] = q[j]
    BY <1>1, <2>3
  <2>5. QED BY <2>2, <2>3, <2>4
<1>8. Followed(q, "ready") => Followed(r, "ready")
  BY <1>7 DEF Followed
<1>9. QED BY <1>1, <1>2, <1>3, <1>4, <1>5, <1>6, <1>8 DEF r

\* An event is posted.
LEMMA PostIn ==
  ASSUME NEW p \in Queues, NEW t \in Threads, NEW e \in Events
  PROVE  Post(p, t, e) \in Queues
<1>1. p[t] \in Seq(Events)
  BY DEF Queues
<1>2. Append(p[t], e) \in Seq(Events)
  BY <1>1, AppendEvent
<1>3. QED BY <1>2 DEF Post, Queues

LEMMA PostIs ==
  ASSUME NEW p \in Queues, NEW t \in Threads, NEW e \in Events,
         NEW q, q = Post(p, t, e)
  PROVE  /\ \A u \in Threads : \A d :
              Has(q[u], d) <=> Has(p[u], d) \/ (u = t /\ d = e)
         /\ \A u \in Threads : \A d :
              Once(p[u], d) /\ (u = t /\ d = e => ~Has(p[u], d)) => Once(q[u], d)
         /\ Followed(p[Owner], "ready") /\ e # "ready" => Followed(q[Owner], "ready")
         /\ t = Owner /\ e \in {"call", "unlock"} => Followed(q[Owner], "ready")
<1>1. /\ q[t] = Append(p[t], e) /\ \A u \in Threads \ {t} : q[u] = p[u]
      /\ p[t] \in Seq(Events)
  BY DEF Post, Queues
<1>2. /\ Append(p[t], e) \in Seq(Events)
      /\ \A d : Has(Append(p[t], e), d) <=> Has(p[t], d) \/ d = e
      /\ \A d : Once(p[t], d) /\ (d = e => ~Has(p[t], d)) => Once(Append(p[t], e), d)
      /\ (e \in {"call", "unlock"} \/ (e = "queue" /\ Followed(p[t], "ready")))
              => Followed(Append(p[t], e), "ready")
  BY <1>1, AppendEvent
<1>3. QED BY <1>1, <1>2, OwnerAssumption DEF Events

\* An event is taken.
Took(p, q, t, e) ==
  /\ q \in Queues /\ Has(p[t], e) /\ e \in Events
  /\ \A u \in Threads : \A d :
       /\ Has(q[u], d) => Has(p[u], d)
       /\ Has(p[u], d) /\ ~(u = t /\ d = e) => Has(q[u], d)
       /\ Once(p[u], d) => Once(q[u], d)
  /\ Once(p[t], e) => ~Has(q[t], e)
  /\ Followed(p[Owner], "ready") => Followed(q[Owner], "ready")

LEMMA TakenIs ==
  ASSUME NEW p \in Queues, NEW t \in Threads, p[t] # <<>>
  PROVE  Took(p, [p EXCEPT ![t] = Tail(@)], t, Head(p[t]))
<1> DEFINE q == [p EXCEPT ![t] = Tail(@)]
           e == Head(p[t])
<1> HIDE DEF q, e
<1>1. q[t] = Tail(p[t]) /\ (\A u \in Threads \ {t} : q[u] = p[u]) /\ p[t] \in Seq(Events)
  BY DEF Queues, q
<1>2. /\ Tail(p[t]) \in Seq(Events) /\ Head(p[t]) \in Events /\ Has(p[t], Head(p[t]))
      /\ \A d : Has(Tail(p[t]), d) => Has(p[t], d)
      /\ \A d : Has(p[t], d) /\ d # Head(p[t]) => Has(Tail(p[t]), d)
      /\ \A d : Once(p[t], d) => Once(Tail(p[t]), d)
      /\ Once(p[t], Head(p[t])) => ~Has(Tail(p[t]), Head(p[t]))
      /\ Followed(p[t], "ready") => Followed(Tail(p[t]), "ready")
  BY <1>1, TailEvent
<1>3. q \in Queues
  BY <1>2 DEF Queues, q
<1>6. /\ e \in Events /\ Has(p[t], e)
      /\ \A d : Has(p[t], d) /\ d # e => Has(Tail(p[t]), d)
      /\ Once(p[t], e) => ~Has(Tail(p[t]), e)
  BY <1>2 DEF e
<1>7. ASSUME NEW u \in Threads, NEW d
      PROVE  /\ Has(q[u], d) => Has(p[u], d)
             /\ Has(p[u], d) /\ ~(u = t /\ d = e) => Has(q[u], d)
             /\ Once(p[u], d) => Once(q[u], d)
  <2>1. CASE u = t
    BY <1>1, <1>2, <1>6, <2>1
  <2>2. CASE u # t
    BY <1>1, <2>2
  <2>3. QED BY <2>1, <2>2
<1>8. Followed(p[Owner], "ready") => Followed(q[Owner], "ready")
  BY <1>1, <1>2, OwnerAssumption
<1>4. Took(p, q, t, e)
  BY <1>1, <1>3, <1>6, <1>7, <1>8 DEF Took
<1>5. QED BY <1>4 DEF q, e

-----------------------------------------------------------------------------
(* Situations of the lock in which the invariant is seen to hold.          *)

NoExit(st) == \A t \in Threads : \A i \in 1 .. Len(st[t]) : ~Exited(st, t, i)
NoHop(st) == /\ hopEvent = None
             /\ \A t \in Threads : /\ Top(st, t) \notin {"catch", "catchasleep"}
                                   /\ ~Has(posted[t], "call") /\ ~Has(posted[t], "unlock")

\* Nobody has the lock.
Idle(st) == /\ Shape(st) /\ NoHop(st) /\ NoExit(st) /\ lockCount = 0
            /\ unwindStack => rflag
            /\ NoPause
            /\ \A t \in Threads : ~Inside(st, t)

\* One thread has it, and no hop is under way.
Busy(st, t) == /\ Shape(st) /\ NoHop(st) /\ NoExit(st) /\ NoPause
               /\ unwindStack \/ InProgram(st, t) => rflag
               /\ Inside(st, t) /\ lockThread = t /\ lockCount = Level(st[t], Len(st[t]))
               /\ \A u \in Threads \ {t} : ~Inside(st, u)
               /\ Has(posted[Owner], "ready") /\ InProgram(st, t) =>
                    t = Owner /\ st[t][Len(st[t])].kind # "call"

\* A step of thread t that the invariant does not look at.
Quiet(st, n, t) ==
  /\ Shape(n) /\ \A u \in Threads \ {t} : n[u] = st[u]
  /\ Inside(n, t) <=> Inside(st, t)
  /\ Inside(st, t) => Level(n[t], Len(n[t])) = Level(st[t], Len(st[t]))
  /\ Inside(n, t) /\ hopEvent # None => Top(n, t) = "done"
  /\ Top(st, t) # "hopping"
  /\ Top(n, t) \in {"catch", "catchasleep"} <=> Top(st, t) \in {"catch", "catchasleep"}
  /\ InProgram(n, t) => /\ InProgram(st, t)
                        /\ n[t][Len(n[t])].kind = st[t][Len(st[t])].kind
  /\ \A i \in 1 .. Len(n[t]) : Exited(n, t, i) => i \in 1 .. Len(st[t]) /\ Exited(st, t, i)

LEMMA NoHopIs ==
  ASSUME NEW st \in Stacks, Lockers(st), hopEvent = None
  PROVE  NoHop(st)
<1>1. None \notin Threads
  BY OwnerAssumption
<1>2. QED BY <1>1 DEF Lockers, HopPending, NoHop

LEMMA InProgramIs ==
  ASSUME NEW st, NEW t, InProgram(st, t)
  PROVE  Inside(st, t) /\ Top(st, t) # "done"
BY DEF InProgram, Inside

IdleHolds == \A st \in Stacks : Idle(st) => Lockers(st)
LEMMA IdleIs == IdleHolds
<1> USE DEF IdleHolds
<1> SUFFICES ASSUME NEW st \in Stacks, Idle(st) PROVE Lockers(st)
  OBVIOUS
<1>1. \A t \in Threads : ~InProgram(st, t)
  BY InProgramIs DEF Idle
<1>2. LockOwned(st)
  BY DEF Idle, LockOwned
<1>3. HopPending(st)
  BY DEF Idle, NoHop, HopPending, Has, Once
<1>4. HopEnded(st)
  BY DEF Idle, NoExit, HopEnded
<1>5. Running(st)
  BY <1>1 DEF Idle, NoExit, Running
<1>6. NoReadyEvent(st)
  BY <1>1 DEF Idle, NoExit, NoHop, NoReadyEvent
<1>7. QED BY <1>2, <1>3, <1>4, <1>5, <1>6 DEF Idle, Lockers

BusyHolds == \A st \in Stacks : \A t \in Threads : Busy(st, t) => Lockers(st)
LEMMA BusyIs == BusyHolds
<1> USE DEF BusyHolds
<1> SUFFICES ASSUME NEW st \in Stacks, NEW t \in Threads, Busy(st, t) PROVE Lockers(st)
  OBVIOUS
<1>1. \A u \in Threads \ {t} : ~InProgram(st, u)
  BY InProgramIs DEF Busy
<1>0. lockThread # None
  BY OwnerAssumption DEF Busy
<1>2. LockOwned(st)
  BY <1>0 DEF Busy, LockOwned
<1>3. HopPending(st)
  BY DEF Busy, NoHop, HopPending, Has, Once
<1>4. HopEnded(st)
  BY DEF Busy, NoExit, HopEnded
<1>5. Running(st)
  BY <1>1 DEF Busy, NoExit, Running
<1>6. NoReadyEvent(st)
  BY <1>1 DEF Busy, NoExit, NoHop, NoReadyEvent
<1>7. QED BY <1>2, <1>3, <1>4, <1>5, <1>6 DEF Busy, Lockers

QuietHolds ==
  \A st, n \in Stacks : \A t \in Threads : Lockers(st) /\ Quiet(st, n, t) => Lockers(n)
LEMMA QuietIs == QuietHolds
<1> USE DEF QuietHolds
<1> SUFFICES ASSUME NEW st \in Stacks, NEW n \in Stacks, NEW t \in Threads,
                    Lockers(st), Quiet(st, n, t)
             PROVE  Lockers(n)
  OBVIOUS
<1>1. \A u \in Threads \ {t} :
           /\ Top(n, u) = Top(st, u) /\ (Inside(n, u) <=> Inside(st, u))
           /\ Level(n[u], Len(n[u])) = Level(st[u], Len(st[u]))
           /\ (InProgram(n, u) <=> InProgram(st, u))
           /\ n[u] = st[u] /\ \A i : Exited(n, u, i) <=> Exited(st, u, i)
  BY OthersSame DEF Quiet
<1>2. LockOwned(n)
  BY <1>1 DEF Lockers, LockOwned, Quiet
<1>3. HopPending(n)
  <2>1. hopEvent # None => /\ lockThread # None
                           /\ \A u \in Threads : Inside(n, u) => Top(n, u) = "done"
    BY <1>1 DEF Lockers, HopPending, Quiet
  <2>2. ASSUME NEW u \in Threads
        PROVE  /\ Once(posted[u], "call") /\ Once(posted[u], "unlock")
               /\ Has(posted[u], "call") => hopEvent = u /\ Top(n, u) \notin {"catch", "catchasleep"}
               /\ Top(n, u) \in {"catch", "catchasleep"} => hopEvent = u
               /\ Has(posted[u], "unlock") => /\ lockThread = u /\ lockCount > 0
                                              /\ Top(n, u) = "hopping" /\ hopEvent \notin {None, u}
    <3>1. CASE u = t
      BY <3>1 DEF Lockers, HopPending, Quiet
    <3>2. CASE u # t
      BY <3>2, <1>1 DEF Lockers, HopPending
    <3>3. QED BY <3>1, <3>2
  <2>3. QED BY <2>1, <2>2 DEF HopPending
<1>4. HopEnded(n)
  BY <1>1 DEF Lockers, HopEnded, Quiet
<1>5. Running(n)
  BY <1>1 DEF Lockers, Running, Quiet
<1>6. NoReadyEvent(n)
  BY <1>1 DEF Lockers, NoReadyEvent, Quiet
<1>7. QED BY <1>2, <1>3, <1>4, <1>5, <1>6 DEF Lockers, Quiet

\* A thread that slept tests again: nothing the invariant looks at.
WakeHolds ==
  \A st \in Stacks : \A n \in WakeLocker(st) \cup WakeCatcher(st) :
     n \in Stacks /\ (Lockers(st) => Lockers(n))
LEMMA WakeIs == WakeHolds
<1> USE DEF WakeHolds
<1> SUFFICES ASSUME NEW st \in Stacks, NEW n \in WakeLocker(st) \cup WakeCatcher(st)
             PROVE  n \in Stacks /\ (Lockers(st) => Lockers(n))
  OBVIOUS
<1>1. ASSUME NEW asleep, NEW awake, NEW u \in Threads, st[u] # <<>>, Last(st[u]).at = asleep,
             <<asleep, awake>> \in {<<"asleep", "enter">>, <<"catchasleep", "catch">>},
             n = Goto(st, u, awake)
      PROVE  n \in Stacks /\ (Lockers(st) => Lockers(n))
  <2>1. awake \in Ats /\ asleep \in Ats
    BY <1>1 DEF Ats
  <2>2. /\ n \in Stacks
        /\ Len(st[u]) \in Nat \ {0} /\ Len(n[u]) = Len(st[u])
        /\ n[u][Len(st[u])] = [st[u][Len(st[u])] EXCEPT !.at = awake]
        /\ \A v \in Threads \ {u} : n[v] = st[v]
    BY <1>1, <2>1, GotoIs
  <2>3. /\ Top(n, u) = awake /\ Len(n[u]) = Len(st[u])
        /\ \A i \in 1 .. Len(st[u]) : Exited(n, u, i) <=> Exited(st, u, i)
        /\ n[u][Len(st[u])].at = awake
        /\ n[u][Len(st[u])].kind = st[u][Len(st[u])].kind
        /\ Below(n[u], Len(st[u])) = Below(st[u], Len(st[u]))
        /\ Top(st, u) = st[u][Len(st[u])].at
    BY <1>1, <2>1, GotoEffect
  <2>4. ASSUME Lockers(st) PROVE Lockers(n)
    <3>0. Shape(st)
      BY <2>4 DEF Lockers
    <3>1. Shape(st) /\ Lies(u, st[u], Len(st[u]))
      <4>1. Len(st[u]) \in 1 .. Len(st[u])
        BY <2>2
      <4>2. QED BY <3>0, <4>1 DEF Shape
    <3>2. Top(st, u) = asleep
      BY <1>1, <2>3 DEF Last
    <3>3. /\ asleep = "asleep" => st[u][Len(st[u])].kind \in LockerKinds /\ Len(st[u]) = 1
          /\ asleep = "catchasleep" => st[u][Len(st[u])].kind = "catch"
      <4>1. Len(st[u]) \in 1 .. Len(st[u])
        BY <2>2
      <4>2. /\ st[u][Len(st[u])].at = "asleep" => st[u][Len(st[u])].kind \in LockerKinds
            /\ st[u][Len(st[u])].at = "catchasleep" => st[u][Len(st[u])].kind = "catch"
        BY <3>1, <4>1, KindOf
      <4>3. /\ st[u][Len(st[u])].kind \in LockerKinds /\ st[u][Len(st[u])].at = "asleep"
                 => Len(st[u]) = 1
        BY <3>1 DEF Lies
      <4>4. QED BY <2>3, <3>2, <4>2, <4>3
    <3>4. Lies(u, n[u], Len(st[u]))
      <4>1. CASE asleep = "asleep"
        BY <1>1, <2>2, <2>3, <3>1, <3>3, <4>1 DEF Lies, LockerKinds
      <4>2. CASE asleep = "catchasleep"
        BY <1>1, <2>2, <2>3, <3>1, <3>3, <4>2 DEF Lies, LockerKinds
      <4>3. QED BY <1>1, <4>1, <4>2
    <3>5. Shape(n)
      BY <1>1, <2>1, <3>1, <3>4, GotoShape
    <3>6. ~Inside(n, u) /\ ~Inside(st, u)
      <4>1. CASE asleep = "asleep"
        BY <1>1, <2>3, <3>2, <3>3, <4>1 DEF Inside
      <4>2. CASE asleep = "catchasleep"
        BY <1>1, <2>3, <3>2, <4>2 DEF Inside
      <4>3. QED BY <1>1, <4>1, <4>2
    <3>7. ~InProgram(n, u)
      BY <3>6, InProgramIs
    <3>8. Quiet(st, n, u)
      <4>1. Top(st, u) # "hopping"
        BY <1>1, <3>2
      <4>2. Top(n, u) \in {"catch", "catchasleep"} <=> Top(st, u) \in {"catch", "catchasleep"}
        BY <1>1, <2>3, <3>2
      <4>3. QED BY <2>2, <2>3, <3>5, <3>6, <3>7, <4>1, <4>2 DEF Quiet
    <3>9. QED BY <2>2, <2>4, <3>8, QuietIs DEF QuietHolds
  <2>5. QED BY <2>2, <2>4
<1>2. CASE n \in WakeLocker(st)
  <2>1. CASE n = st
    BY <2>1
  <2>2. CASE n # st
    <3>1. PICK u \in Threads : /\ st[u] # <<>> /\ Last(st[u]).at = "asleep"
                              /\ n = Goto(st, u, "enter")
      BY <1>2, <2>2 DEF WakeLocker, WakeOne
    <3>2. QED BY <1>1, <3>1
  <2>3. QED BY <2>1, <2>2
<1>3. CASE n \in WakeCatcher(st)
  <2>1. CASE n = st
    BY <2>1
  <2>2. CASE n # st
    <3>1. PICK u \in Threads : /\ st[u] # <<>> /\ Last(st[u]).at = "catchasleep"
                              /\ n = Goto(st, u, "catch")
      BY <1>3, <2>2 DEF WakeCatcher, WakeOne
    <3>2. QED BY <1>1, <3>1
  <2>3. QED BY <2>1, <2>2
<1>4. QED BY <1>2, <1>3

-----------------------------------------------------------------------------
(* The types.                                                              *)

TypedNow ==
  /\ lockCount \in Nat /\ lockThread \in Threads \cup {None}
  /\ hopEvent \in Threads \cup {None}
  /\ rflag \in BOOLEAN /\ hookInfo \in BOOLEAN /\ unwindStack \in BOOLEAN
  /\ resumeFlag \in BOOLEAN /\ stopHook \in BOOLEAN
  /\ hopLoop \in Loops /\ pauseLoop \in Loops
  /\ emitted \in 0 .. MaxSignals /\ queuedSignals \in Nat /\ queuedSignals <= emitted
  /\ posted \in Queues /\ stack \in Stacks /\ session \in Sessions

LEMMA TypedIs == Typed <=> TypedNow
<1>1. ASSUME Typed PROVE TypedNow
  BY <1>1, BoundsAssumption DEF Typed, TypeOK, TypedNow, Queues, Events, Stacks, Loops
<1>2. ASSUME TypedNow PROVE Typed
  <2>1. \A t \in Threads : \A i \in 1 .. Len(stack[t]) : stack[t][i] \in Frames
    BY <1>2, StackIs DEF TypedNow
  <2>2. \A t \in Threads : \A i \in 1 .. Len(stack[t]) :
         /\ stack[t][i].at \in {"enter", "asleep", "held", "done", "hopping", "catch",
              "catchasleep", "lua", "stopped", "signals", "paused"}
         /\ stack[t][i].exit \in {"no", "yes", "continue", "unwind"}
    BY <2>1 DEF Frames
  <2>3. queuedSignals \in 0 .. MaxSignals
    BY <1>2, BoundsAssumption DEF TypedNow
  <2>4. posted \in [Threads -> Seq({"ready", "queue", "unlock", "call"})]
    BY <1>2 DEF TypedNow, Queues, Events
  <2>5. TypeOK
    BY <1>2, <2>2, <2>3, <2>4 DEF TypedNow, TypeOK, Loops
  <2>6. QED BY <1>2, <2>5 DEF Typed, TypedNow, Stacks
<1>3. QED BY <1>1, <1>2

-----------------------------------------------------------------------------
(* Hops and their ends.                                                    *)

\* A call that hopped is over: the caller's loop is told, or the engine made ready.
LEMMA CallDoneIs ==
  ASSUME TypedNow, NEW st \in Stacks, NEW t \in Threads,
         Shape(st), NoExit(st), st[t] # <<>>, Below(st[t], Len(st[t])) \in {"loop", "hopping"},
         \A u \in Threads \ {t} : ~Inside(st, u) /\ Top(st, u) \notin {"catch", "catchasleep"},
         \A u \in Threads : ~Has(posted[u], "call") /\ ~Has(posted[u], "unlock"),
         hopLoop # NoLoop => ~Has(posted[Owner], "ready"),
         rflag, rflag' = rflag, lockThread' \in Threads, hopEvent' = None, hopLoop' = hopLoop,
         NoPause, UNCHANGED <<pauseLoop, unwindStack, stopHook>>,
         CallDone(t, st)
  PROVE  stack' \in Stacks /\ posted' \in Queues /\ lockCount' = 0 /\ Lockers(stack)'
<1> DEFINE m == Pop(st, t)
<1>1. /\ m \in Stacks /\ \A u \in Threads \ {t} : m[u] = st[u]
      /\ Top(m, t) = Below(st[t], Len(st[t])) /\ Len(m[t]) = Len(st[t]) - 1
      /\ \A i \in 1 .. Len(st[t]) - 1 : Exited(m, t, i) <=> Exited(st, t, i)
      /\ Len(st[t]) \in Nat \ {0}
  BY PopIs, PopEffect
<1>2. Shape(m)
  BY PopShape
<1> HIDE DEF m
<1>3. ~Inside(m, t) /\ Top(m, t) \notin {"catch", "catchasleep"}
  BY <1>1 DEF Inside
<1>4. \A u \in Threads \ {t} :
           /\ Top(m, u) = Top(st, u) /\ (Inside(m, u) <=> Inside(st, u))
           /\ m[u] = st[u] /\ \A i : Exited(m, u, i) <=> Exited(st, u, i)
  BY <1>1, OthersSame
<1>5. \A u \in Threads : ~Inside(m, u) /\ Top(m, u) \notin {"catch", "catchasleep"}
  BY <1>3, <1>4
<1>6. NoExit(m)
  BY <1>1, <1>4 DEF NoExit
<1>7. lockCount' = 0 /\ posted \in Queues /\ hopLoop \in Loops
  BY DEF CallDone, TypedNow
<1>8. CASE hopLoop = NoLoop
  <2>1. stack' = m /\ posted' = Post(posted, Owner, "ready")
    BY <1>8 DEF CallDone, MakeReady, m
  <2>2. /\ posted' \in Queues
        /\ \A u \in Threads : ~Has(posted'[u], "call") /\ ~Has(posted'[u], "unlock")
    <3>1. "ready" \in Events /\ Owner \in Threads
      BY OwnerAssumption DEF Events
    <3>2. PICK q : q = Post(posted, Owner, "ready")
      OBVIOUS
    <3>3. q \in Queues
      BY <3>1, <3>2, <1>7, PostIn
    <3>4. \A u \in Threads : \A d :
             Has(q[u], d) <=> Has(posted[u], d) \/ (u = Owner /\ d = "ready")
      BY <3>1, <3>2, <1>7, PostIs
    <3>5. QED BY <2>1, <3>2, <3>3, <3>4
  <2>3. Idle(m)'
    BY <1>2, <1>5, <1>6, <1>7, <2>2 DEF Idle, NoHop, NoPause
  <2>4. IdleHolds'
    BY IdleIs, PTL
  <2>5. Lockers(m)'
    BY <1>1, <2>3, <2>4 DEF IdleHolds
  <2>6. QED BY <1>1, <1>7, <2>1, <2>2, <2>5
<1>9. CASE hopLoop # NoLoop
  <2>0. PICK l \in Loops : l = hopLoop
    BY <1>7
  <2> DEFINE n == Exit(m, l, "yes")
  <2>1. /\ n \in Stacks
        /\ \A u \in Threads : /\ Len(n[u]) = Len(m[u])
                               /\ \A i \in 1 .. Len(m[u]) :
                                    /\ SameFrame(n[u][i], m[u][i])
                                    /\ <<u, i>> # l => n[u][i] = m[u][i]
    BY <1>1, ExitIs
  <2>2. stack' = n /\ posted' = posted
    BY <1>9, <2>0 DEF CallDone, m
  <2> HIDE DEF n
  <2>3. /\ Shape(n)
        /\ \A u \in Threads : Top(n, u) = Top(m, u) /\ (Inside(n, u) <=> Inside(m, u))
    BY <1>1, <1>2, <2>1, ExitShape
  <2>4. ASSUME NEW u \in Threads, NEW i \in 1 .. Len(n[u]), Exited(n, u, i) PROVE <<u, i>> = hopLoop
    BY <1>6, <2>0, <2>1, <2>4 DEF Exited, NoExit
  <2>5. \A u \in Threads : ~InProgram(n, u) /\ ~Inside(n, u)
    BY <1>5, <2>3, InProgramIs
  <2>6. LockOwned(n)'
    BY <1>7, <2>5 DEF LockOwned
  <2>7. HopPending(n)'
    BY <1>5, <2>2, <2>3 DEF HopPending, Has, Once
  <2>8. HopEnded(n)'
    BY <1>7, <2>4, OwnerAssumption DEF HopEnded
  <2>9. Running(n)'
    BY <2>5 DEF Running
  <2>10. NoReadyEvent(n)'
    BY <1>9, <2>2 DEF NoReadyEvent
  <2>11. NoPause'
    BY DEF NoPause
  <2>12. Lockers(n)'
    BY <2>3, <2>6, <2>7, <2>8, <2>9, <2>10, <2>11 DEF Lockers
  <2>13. QED BY <1>7, <2>1, <2>2, <2>12
<1>10. QED BY <1>8, <1>9

\* A call hops: the caller waits in a loop, keeps the lock, and is about to free it.
LEMMA HopToIs ==
  ASSUME TypedNow, NEW st \in Stacks, NEW m \in Stacks, NEW t \in Threads, NEW u \in Threads,
         t # u, Lockers(st), hopEvent = None, Inside(st, t), Shape(m), NoExit(m),
         \A v \in Threads \ {t} : m[v] = st[v],
         Top(m, t) \in {"done", "lua"}, Level(m[t], Len(m[t])) = Level(st[t], Len(st[t])),
         Has(posted[Owner], "ready") => Owner \in {t, u},
         UNCHANGED <<lockCount, lockThread, rflag, pauseLoop, unwindStack, stopHook>>,
         HopTo(t, u, m)
  PROVE  /\ stack' \in Stacks /\ posted' \in Queues /\ Lockers(stack)'
         /\ hopEvent' \in Threads /\ hopLoop' \in Loops
<1>1. PICK f : f = [Frame("hopping", "hop") EXCEPT
                     !.count = lockCount, !.thread = lockThread, !.loop = hopLoop]
  OBVIOUS
<1>2. /\ lockThread = t /\ lockCount = Level(st[t], Len(st[t])) /\ lockCount > 0
      /\ \A v \in Threads \ {t} : ~Inside(st, v)
  <2>1. Level(st[t], Len(st[t])) \in Nat \ {0}
    BY TopIs DEF Lockers
  <2>2. QED BY <2>1 DEF Lockers, LockOwned
<1>3. /\ f \in Frames /\ f.at = "hopping" /\ f.kind = "hop" /\ f.exit = "no"
      /\ f.count = lockCount /\ f.thread = t
  BY <1>1, <1>2 DEF Frame, Frames, TypedNow, Loops
<1>4. /\ hopEvent' = u /\ hopLoop' = <<t, Len(m[t]) + 1>> /\ stack' = Push(m, t, f)
      /\ posted' = Post(Post(posted, u, "call"), t, "unlock")
  BY <1>1 DEF HopTo
<1> DEFINE n == Push(m, t, f)
<1>5. /\ n \in Stacks /\ \A v \in Threads \ {t} : n[v] = m[v]
      /\ Top(n, t) = f.at /\ Len(n[t]) = Len(m[t]) + 1 /\ n[t][Len(m[t]) + 1] = f /\ Len(m[t]) \in Nat
      /\ Below(n[t], Len(m[t]) + 1) = Top(m, t)
      /\ Len(m[t]) > 0 => Level(n[t], Len(m[t])) = Level(m[t], Len(m[t]))
      /\ \A i \in 1 .. Len(m[t]) + 1 : Exited(n, t, i) => i \in 1 .. Len(m[t]) /\ Exited(m, t, i)
  BY <1>3, PushIs, PushEffect
<1>6. Len(m[t]) > 0
  BY <1>5, TopIs, StackIs
<1> HIDE DEF n
<1>7. Lies(t, n[t], Len(m[t]) + 1)
  <2>1. (Len(m[t]) + 1) - 1 = Len(m[t]) /\ ~(Len(m[t]) + 1 < Len(n[t]))
    BY <1>5
  <2>2. QED BY <1>2, <1>3, <1>5, <1>6, <2>1 DEF Lies, LockerKinds
<1>8. Shape(n)
  BY <1>3, <1>7, PushShape DEF n
<1>9. \A v \in Threads \ {t} :
           /\ Top(n, v) = Top(st, v) /\ (Inside(n, v) <=> Inside(st, v))
           /\ n[v] = m[v] /\ \A i : Exited(n, v, i) <=> Exited(m, v, i)
  <2>1. \A v \in Threads \ {t} : n[v] = st[v] /\ n[v] = m[v]
    BY <1>5
  <2>2. QED BY <2>1, OthersSame
<1>10. NoExit(n)
  BY <1>5, <1>9 DEF NoExit
<1>11. \A v \in Threads : ~Inside(n, v) /\ ~InProgram(n, v)
  BY <1>2, <1>3, <1>5, <1>9, InProgramIs DEF Inside
<1>12. NoHop(st)
  BY NoHopIs
<1>13. PICK q \in Queues :
         /\ posted' = q
         /\ \A v \in Threads : /\ Has(q[v], "call") <=> v = u
                               /\ Has(q[v], "unlock") <=> v = t
                               /\ Once(q[v], "call") /\ Once(q[v], "unlock")
                               /\ Has(q[v], "ready") <=> Has(posted[v], "ready")
         /\ Owner \in {t, u} => Followed(q[Owner], "ready")
  <2>7. PICK p : p = Post(posted, u, "call")
    OBVIOUS
  <2>8. PICK q : q = Post(p, t, "unlock")
    OBVIOUS
  <2>0. \A v \in Threads : ~Has(posted[v], "call") /\ ~Has(posted[v], "unlock")
    BY <1>12 DEF NoHop
  <2>1. "call" \in Events /\ "unlock" \in Events /\ posted \in Queues
    BY DEF Events, TypedNow
  <2>9. p \in Queues
    BY <2>1, <2>7, PostIn
  <2>10. q \in Queues
    BY <2>1, <2>8, <2>9, PostIn
  <2>2. \A v \in Threads : \A d : Has(p[v], d) <=> Has(posted[v], d) \/ (v = u /\ d = "call")
    BY <2>1, <2>7, PostIs
  <2>11. \A v \in Threads : \A d :
             Once(posted[v], d) /\ (v = u /\ d = "call" => ~Has(posted[v], d)) => Once(p[v], d)
    BY <2>1, <2>7, PostIs
  <2>12. u = Owner => Followed(p[Owner], "ready")
    BY <2>1, <2>7, PostIs
  <2>3. \A v \in Threads : \A d : Has(q[v], d) <=> Has(p[v], d) \/ (v = t /\ d = "unlock")
    BY <2>1, <2>9, <2>8, PostIs
  <2>13. \A v \in Threads : \A d :
             Once(p[v], d) /\ (v = t /\ d = "unlock" => ~Has(p[v], d)) => Once(q[v], d)
    BY <2>1, <2>9, <2>8, PostIs
  <2>14. t = Owner => Followed(q[Owner], "ready")
    BY <2>1, <2>9, <2>8, PostIs
  <2>15. Followed(p[Owner], "ready") => Followed(q[Owner], "ready")
    BY <2>1, <2>9, <2>8, PostIs
  <2>4. posted' = q
    BY <1>4, <2>7, <2>8
  <2>5. \A v \in Threads : Once(posted[v], "call") /\ Once(posted[v], "unlock")
    BY DEF Lockers, HopPending
  <2>16. Owner \in {t, u} => Followed(q[Owner], "ready")
    BY <2>12, <2>14, <2>15
  <2>17. ASSUME NEW v \in Threads
         PROVE  /\ Has(q[v], "call") <=> v = u
                /\ Has(q[v], "unlock") <=> v = t
                /\ Once(q[v], "call") /\ Once(q[v], "unlock")
                /\ Has(q[v], "ready") <=> Has(posted[v], "ready")
    <3>1. /\ Has(q[v], "call") <=> v = u
          /\ Has(q[v], "unlock") <=> v = t
          /\ Has(q[v], "ready") <=> Has(posted[v], "ready")
      BY <2>0, <2>2, <2>3
    <3>2. Once(p[v], "call") /\ Once(p[v], "unlock") /\ ~Has(p[v], "unlock")
      BY <2>0, <2>2, <2>5, <2>11
    <3>3. QED BY <3>1, <3>2, <2>13
  <2>6. QED
    <3> WITNESS q \in Queues
    <3>1. QED BY <2>4, <2>16, <2>17
<1>14. LockOwned(n)'
  <2>1. Has(q[t], "unlock") /\ lockThread' = t
    BY <1>2, <1>13
  <2>2. QED BY <1>11, <1>13, <2>1 DEF LockOwned
<1>15. HopPending(n)'
  <2>1. \A v \in Threads : Top(n, v) \notin {"catch", "catchasleep"}
    BY <1>3, <1>5, <1>9, <1>12 DEF NoHop
  <2>2. u # None /\ t # None /\ lockThread' = t /\ lockCount' > 0 /\ Top(n, t) = "hopping"
    BY <1>2, <1>3, <1>5, OwnerAssumption
  <2>3. ASSUME NEW v \in Threads
        PROVE  /\ Once(q[v], "call") /\ Once(q[v], "unlock")
               /\ Has(q[v], "call") => hopEvent' = v /\ Top(n, v) \notin {"catch", "catchasleep"}
               /\ Has(q[v], "unlock") => /\ lockThread' = v /\ lockCount' > 0
                                         /\ Top(n, v) = "hopping" /\ hopEvent' \notin {None, v}
    BY <1>4, <1>13, <2>1, <2>2
  <2>4. QED BY <1>4, <1>11, <1>13, <2>1, <2>2, <2>3 DEF HopPending
<1>16. HopEnded(n)'
  BY <1>10 DEF HopEnded, NoExit
<1>17. Running(n)'
  BY <1>10, <1>11 DEF Running, NoExit, Lockers
<1>18. NoReadyEvent(n)'
  BY <1>10, <1>11, <1>13, OwnerAssumption DEF NoReadyEvent, NoExit
<1>19. NoPause'
  BY DEF NoPause, Lockers
<1>20. Lockers(n)'
  BY <1>8, <1>14, <1>15, <1>16, <1>17, <1>18, <1>19 DEF Lockers
<1>21. hopLoop' \in Loops
  BY <1>4, <1>5 DEF Loops
<1>22. QED BY <1>4, <1>5, <1>13, <1>20, <1>21 DEF n

-----------------------------------------------------------------------------
(* The actions, when lockers are called and programs do not pause.         *)

LEMMA AtIs ==
  ASSUME NEW st, st = stack, NEW t
  PROVE  /\ At(t) = Top(st, t) /\ Last(stack[t]) = st[t][Len(st[t])]
         /\ st[t] # <<>> => Kind(t) = st[t][Len(st[t])].kind
         /\ InLoop(t) <=> Top(st, t) \in {"loop", "hopping", "paused"}
BY DEF At, Kind, InLoop, Top, Last

LEMMA QuietStep ==
  ASSUME NEW st \in Stacks, NEW n \in Stacks, NEW t \in Threads,
         Lockers(st), Quiet(st, n, t), stack' = n,
         UNCHANGED <<lockCount, lockThread, rflag, hopEvent, hopLoop, pauseLoop, unwindStack,
                     stopHook, posted>>
  PROVE  Lockers(stack)'
<1>1. Lockers(n)
  BY QuietIs DEF QuietHolds
<1>2. LockOwned(n)'
  BY <1>1 DEF Lockers, LockOwned
<1>3. HopPending(n)'
  BY <1>1 DEF Lockers, HopPending
<1>4. HopEnded(n)'
  BY <1>1 DEF Lockers, HopEnded
<1>5. Running(n)'
  BY <1>1 DEF Lockers, Running
<1>6. NoReadyEvent(n)'
  BY <1>1 DEF Lockers, NoReadyEvent
<1>7. NoPause'
  BY <1>1 DEF Lockers, NoPause
<1>8. Lockers(n)'
  BY <1>1, <1>2, <1>3, <1>4, <1>5, <1>6, <1>7 DEF Lockers
<1>9. QED BY <1>8

\* A thread in a function that has returned, or gone on, within its locker or its program.
LEMMA QuietPop ==
  ASSUME NEW st \in Stacks, NEW t \in Threads, Lockers(st), st[t] # <<>>,
         Top(st, t) \notin {"hopping", "catch", "catchasleep"},
         Below(st[t], Len(st[t])) \notin {"held", "lua", "stopped", "enter", "catch", "catchasleep"},
         Below(st[t], Len(st[t])) \in {"done", "signals"} <=> Inside(st, t),
         Inside(st, t) => Level(st[t], Len(st[t]) - 1) = Level(st[t], Len(st[t])),
         Inside(st, t) => hopEvent = None
  PROVE  Quiet(st, Pop(st, t), t) /\ Pop(st, t) \in Stacks
<1> DEFINE n == Pop(st, t)
           k == Len(st[t])
<1>1. /\ n \in Stacks /\ \A u \in Threads \ {t} : n[u] = st[u]
      /\ k \in Nat \ {0} /\ Len(n[t]) = k - 1
      /\ Top(n, t) = Below(st[t], k)
  BY PopIs, PopEffect
<1>2. \A i \in 1 .. k - 1 : Level(n[t], i) = Level(st[t], i) /\ (Exited(n, t, i) <=> Exited(st, t, i))
  BY PopEffect
<1>3. Shape(n)
  BY PopShape DEF Lockers
<1> HIDE DEF n
<1>4. (Inside(n, t) <=> Inside(st, t)) /\ ~InProgram(n, t)
  BY <1>1 DEF Inside, InProgram
<1>5. ASSUME Inside(st, t) PROVE Level(n[t], Len(n[t])) = Level(st[t], k)
  <2>1. Top(n, t) # "loop" /\ n[t] # <<>>
    BY <1>1, <1>5 DEF Top
  <2>2. k - 1 \in 1 .. k - 1
    <3>1. Len(n[t]) \in Nat /\ Len(n[t]) # 0 /\ Len(n[t]) = k - 1
      BY <1>1, <2>1, StackIs
    <3>2. \A x \in Nat : x # 0 => x \in 1 .. x
      OBVIOUS
    <3>3. Len(n[t]) \in 1 .. Len(n[t])
      BY <3>1, <3>2
    <3> HIDE DEF k
    <3>4. QED BY <3>1, <3>3
  <2>3. QED BY <1>1, <1>2, <1>5, <2>2
<1>6. \A i \in 1 .. k - 1 : Exited(n, t, i) => i \in 1 .. k /\ Exited(st, t, i)
  BY <1>1, <1>2
<1>7. Top(n, t) \notin {"catch", "catchasleep"}
  BY <1>1
<1>8. Quiet(st, n, t)
  BY <1>1, <1>3, <1>4, <1>5, <1>6, <1>7 DEF Quiet
<1>9. QED BY <1>1, <1>8 DEF n

\* A thread that goes on within its function.
LEMMA QuietGoto ==
  ASSUME NEW st \in Stacks, NEW t \in Threads, Lockers(st), st[t] # <<>>, NEW at \in Ats,
         <<Top(st, t), at>> \in {<<"enter", "asleep">>, <<"held", "done">>, <<"lua", "stopped">>,
                                <<"catch", "catchasleep">>},
         Top(st, t) = "enter" => Len(st[t]) = 1,
         Inside(st, t) => hopEvent = None
  PROVE  Quiet(st, Goto(st, t, at), t) /\ Goto(st, t, at) \in Stacks
<1> DEFINE n == Goto(st, t, at)
           k == Len(st[t])
<1>1. /\ n \in Stacks /\ \A u \in Threads \ {t} : n[u] = st[u]
      /\ k \in Nat \ {0} /\ Len(n[t]) = k /\ n[t][k] = [st[t][k] EXCEPT !.at = at]
  BY GotoIs
<1>2. /\ Top(n, t) = at /\ \A i \in 1 .. k : Exited(n, t, i) <=> Exited(st, t, i)
      /\ n[t][k].at = at /\ n[t][k].kind = st[t][k].kind
      /\ Below(n[t], k) = Below(st[t], k) /\ Top(st, t) = st[t][k].at
  BY GotoEffect
<1>3. Shape(st)
  BY DEF Lockers
<1>4. Lies(t, st[t], k) /\ st[t][k] \in Frames /\ k \in 1 .. k
  BY <1>1, <1>3, TopIs
<1>5. /\ st[t][k].at \in {"enter", "held"} => st[t][k].kind \in LockerKinds
      /\ st[t][k].at = "lua" => st[t][k].kind \in {"here", "call", "signal"}
      /\ st[t][k].at = "catch" => st[t][k].kind = "catch"
  BY <1>3, <1>4, KindOf
<1>6. ~(k < Len(n[t]))
  BY <1>1
<1> HIDE DEF n
<1>7. Lies(t, n[t], k)
  <2>1. CASE at = "asleep"
    BY <1>2, <1>4, <1>5, <1>6, <2>1 DEF Lies, LockerKinds
  <2>2. CASE at = "done"
    BY <1>2, <1>4, <1>5, <1>6, <2>2 DEF Lies, LockerKinds
  <2>3. CASE at = "stopped"
    BY <1>2, <1>4, <1>5, <1>6, <2>3 DEF Lies, LockerKinds
  <2>4. CASE at = "catchasleep"
    BY <1>2, <1>4, <1>5, <1>6, <2>4 DEF Lies, LockerKinds
  <2>5. QED BY <2>1, <2>2, <2>3, <2>4
<1>8. Shape(n)
  BY <1>3, <1>7, GotoShape DEF n
<1>9. Inside(n, t) <=> Inside(st, t)
  BY <1>1, <1>2 DEF Inside
<1>10. Inside(st, t) => Level(n[t], Len(n[t])) = Level(st[t], k)
  <2> SUFFICES ASSUME Inside(st, t) PROVE Level(n[t], k) = Level(st[t], k)
    BY <1>1
  <2>1. at \in {"done", "stopped"}
    BY <1>2, <1>9 DEF Inside
  <2>2. QED BY <1>2, <2>1 DEF Level
<1>11. InProgram(n, t) => InProgram(st, t)
  BY <1>2 DEF InProgram
<1>12. Quiet(st, n, t)
  BY <1>1, <1>2, <1>8, <1>9, <1>10, <1>11 DEF Quiet
<1>13. QED BY <1>1, <1>12 DEF n

\* What the invariant says when a thread is inside the lock ...
LEMMA InsideIs ==
  ASSUME NEW st \in Stacks, NEW t \in Threads, Lockers(st), Inside(st, t)
  PROVE  /\ lockThread = t /\ lockCount = Level(st[t], Len(st[t])) /\ lockCount \in Nat \ {0}
         /\ \A u \in Threads \ {t} : ~Inside(st, u)
         /\ NoExit(st)
         /\ \A u \in Threads : ~Has(posted[u], "unlock")
         /\ Top(st, t) # "done" => hopEvent = None
<1>1. lockThread = t /\ lockCount = Level(st[t], Len(st[t])) /\ \A u \in Threads \ {t} : ~Inside(st, u)
  BY DEF Lockers, LockOwned
<1>2. lockCount \in Nat \ {0} /\ Top(st, t) # "hopping"
  BY <1>1, TopIs DEF Lockers
<1>3. NoExit(st)
  BY <1>2 DEF Lockers, HopEnded, NoExit
<1>4. \A u \in Threads : ~Has(posted[u], "unlock")
  BY <1>1, <1>2 DEF Lockers, HopPending
<1>5. Top(st, t) # "done" => hopEvent = None
  BY DEF Lockers, HopPending
<1>6. QED BY <1>1, <1>2, <1>3, <1>4, <1>5

\* ... and when nobody has it.
LEMMA FreeIs ==
  ASSUME NEW st \in Stacks, Lockers(st), lockCount = 0
  PROVE  \A u \in Threads : ~Inside(st, u) /\ ~InProgram(st, u) /\ ~Has(posted[u], "unlock")
<1>1. \A u \in Threads : ~Inside(st, u)
  BY TopIs DEF Lockers, LockOwned
<1>2. \A u \in Threads : ~Has(posted[u], "unlock")
  BY DEF Lockers, HopPending
<1>3. QED BY <1>1, <1>2, InProgramIs

Setting(st) == /\ TypedNow /\ session = "lockers" /\ Nested = {}
               /\ st \in Stacks /\ st = stack /\ Lockers(st)

LEMMA FrameIs ==
  ASSUME NEW at \in Ats,
         NEW kind \in LockerKinds \cup {"hop", "catch", "here", "call", "signal", "slot"}
  PROVE  /\ Frame(at, kind) \in Frames /\ Frame(at, kind).at = at /\ Frame(at, kind).kind = kind
         /\ Frame(at, kind).exit = "no" /\ Frame(at, kind).loop = NoLoop
BY DEF Frame, Frames, Ats, LockerKinds, Loops

\* A locker is taken, or code called, by a thread in its event loop; or code in a locker.
LEMMA CallLockers ==
  ASSUME NEW st, Setting(st), NEW t \in Threads, NEW k \in Calls, Call(t, k)
  PROVE  TypedNow' /\ Lockers(stack)'
<1> USE DEF Setting
<1>1. /\ At(t) = Top(st, t) /\ (st[t] # <<>> => Kind(t) = st[t][Len(st[t])].kind)
  BY AtIs
<1>2. k \in LockerKinds
  BY OwnerAssumption DEF LockerKinds
<1> DEFINE f == Frame("enter", k)
<1>3. f \in Frames /\ f.at = "enter" /\ f.kind = k /\ f.exit = "no"
  BY <1>2, FrameIs DEF Ats
<1> HIDE DEF f
<1>4. Shape(st)
  BY DEF Lockers
<1>5. CASE Top(st, t) = "loop" /\ stack' = Push(st, t, f)
  <2> DEFINE n == Push(st, t, f)
  <2>1. st[t] = <<>> /\ Len(st[t]) = 0
    BY <1>4, <1>5, TopIs, StackIs
  <2>2. /\ n \in Stacks /\ Len(n[t]) = 1 /\ n[t][1] = f /\ \A u \in Threads \ {t} : n[u] = st[u]
    <3>1. /\ n \in Stacks /\ Len(n[t]) = Len(st[t]) + 1 /\ n[t][Len(st[t]) + 1] = f
          /\ \A u \in Threads \ {t} : n[u] = st[u]
      BY <1>3, PushIs
    <3> HIDE DEF n
    <3>2. QED BY <2>1, <3>1
  <2>3. Top(n, t) = "enter" /\ \A i \in 1 .. Len(n[t]) : ~Exited(n, t, i)
    BY <1>3, <2>1, <2>2, PushEffect
  <2> HIDE DEF n
  <2>4. Lies(t, n[t], 1)
    BY <1>2, <1>3, <2>2 DEF Lies, LockerKinds
  <2>5. Shape(n)
    BY <1>3, <1>4, <1>5, <2>1, <2>4, PushShape DEF n
  <2>6. ~Inside(n, t) /\ ~Inside(st, t)
    BY <1>5, <2>2, <2>3 DEF Inside
  <2>7. Quiet(st, n, t)
    BY <1>5, <2>2, <2>3, <2>5, <2>6, InProgramIs DEF Quiet
  <2>8. Lockers(stack)'
    BY <1>5, <2>2, <2>7, QuietStep DEF Call, lock, hop, flags, n
  <2>9. TypedNow'
    BY <1>5, <2>2 DEF TypedNow, Call, lock, hop, flags, n
  <2>10. QED BY <2>8, <2>9
<1>6. CASE /\ Top(st, t) = "held" /\ Kind(t) = "use" /\ k # "use"
           /\ stack' = Push(Goto(st, t, "done"), t, f)
  <2>1. st[t] # <<>> /\ Inside(st, t) /\ hopEvent = None
    BY <1>4, <1>6, TopIs, InsideIs DEF Inside
  <2> DEFINE m == Goto(st, t, "done")
             n == Push(m, t, f)
  <2>2. m \in Stacks /\ Quiet(st, m, t)
    BY <1>6, <2>1, QuietGoto DEF Ats
  <2>3. /\ Len(st[t]) \in Nat \ {0} /\ Len(m[t]) = Len(st[t]) /\ Top(m, t) = "done"
        /\ st[t][Len(st[t])].kind = "use" /\ Lies(t, st[t], Len(st[t]))
        /\ m[t][Len(st[t])].kind = "use" /\ m[t][Len(st[t])].at = "done"
    BY <1>1, <1>4, <1>6, <2>1, GotoEffect, TopIs DEF Ats
  <2>4. Len(st[t]) = 1
    BY <2>3 DEF Lies, LockerKinds
  <2> HIDE DEF m
  <2>5. /\ n \in Stacks /\ Len(n[t]) = 2 /\ n[t][2] = f /\ \A u \in Threads \ {t} : n[u] = m[u]
    <3>1. /\ n \in Stacks /\ Len(n[t]) = Len(m[t]) + 1 /\ n[t][Len(m[t]) + 1] = f
          /\ \A u \in Threads \ {t} : n[u] = m[u]
      BY <1>3, <2>2, PushIs
    <3> HIDE DEF n
    <3>2. Len(m[t]) + 1 = 2
      BY <2>3, <2>4
    <3>3. QED BY <3>1, <3>2
  <2>6. /\ Top(n, t) = "enter" /\ Below(n[t], 2) = "done"
        /\ \A i \in 1 .. Len(n[t]) : Exited(n, t, i) => i \in 1 .. Len(m[t]) /\ Exited(m, t, i)
    BY <1>3, <2>2, <2>3, <2>4, <2>5, PushEffect
  <2> HIDE DEF n
  <2>7. Lies(t, n[t], 2)
    BY <1>2, <1>3, <1>6, <2>5, <2>6 DEF Lies, LockerKinds
  <2>8. Shape(m)
    BY <2>2 DEF Quiet
  <2>9. Shape(n)
    <3>1. Lies(t, Push(m, t, f)[t], Len(m[t]) + 1)
      BY <2>3, <2>4, <2>7 DEF n
    <3>2. QED BY <1>3, <2>2, <2>3, <2>8, <3>1, PushShape DEF n
  <2>10. Inside(n, t) /\ ~InProgram(n, t)
    BY <2>5, <2>6 DEF Inside, InProgram
  <2>11. Level(n[t], 2) = 1 /\ Level(st[t], 1) = 1
    BY <1>2, <1>3, <1>6, <2>3, <2>4, <2>5, TopIs, <1>4, <2>1 DEF Level, LockerKinds
  <2>12. Quiet(st, n, t)
    <3>1. \A u \in Threads \ {t} : n[u] = st[u]
      BY <2>2, <2>5 DEF Quiet
    <3>2. \A i \in 1 .. Len(n[t]) : Exited(n, t, i) => i \in 1 .. Len(st[t]) /\ Exited(st, t, i)
      BY <2>2, <2>3, <2>6 DEF Quiet
    <3>3. QED BY <1>6, <2>1, <2>4, <2>5, <2>6, <2>9, <2>10, <2>11, <3>1, <3>2 DEF Quiet
  <2>13. Lockers(stack)'
    BY <1>6, <2>5, <2>12, QuietStep DEF Call, lock, hop, flags, n, m
  <2>14. TypedNow'
    BY <1>6, <2>5 DEF TypedNow, Call, lock, hop, flags, n, m
  <2>15. QED BY <2>13, <2>14
<1>7. QED BY <1>1, <1>5, <1>6 DEF Call, f

\* It gets the lock, or waits.
LEMMA EnterLockers ==
  ASSUME NEW st, Setting(st), NEW t \in Threads, Enter(t)
  PROVE  TypedNow' /\ Lockers(stack)'
<1> USE DEF Setting
<1>1. Top(st, t) = "enter"
  BY AtIs DEF Enter
<1>2. Shape(st)
  BY DEF Lockers
<1>3. /\ st[t] # <<>> /\ Len(st[t]) \in Nat \ {0} /\ Lies(t, st[t], Len(st[t]))
      /\ st[t][Len(st[t])].at = "enter" /\ st[t][Len(st[t])].kind \in LockerKinds
  BY <1>1, <1>2, TopIs, KindOf
<1>4. Len(st[t]) \in {1, 2} /\ (Len(st[t]) = 2 <=> Inside(st, t))
  BY <1>1, <1>3 DEF Lies, Inside
<1>5. CASE ~CanLock(t)
  <2> DEFINE n == Goto(st, t, "asleep")
  <2>1. ~Inside(st, t)
    BY <1>5, InsideIs DEF CanLock
  <2>2. n \in Stacks /\ Quiet(st, n, t)
    BY <1>1, <1>3, <1>4, <2>1, QuietGoto DEF Ats
  <2>3. stack' = n
    BY <1>5 DEF Enter
  <2> HIDE DEF n
  <2>4. Lockers(stack)'
    BY <1>5, <2>2, <2>3, QuietStep DEF Enter, lock, hop, flags
  <2>5. TypedNow'
    BY <1>5, <2>2, <2>3 DEF TypedNow, Enter, lock, hop, flags, counters
  <2>6. QED BY <2>4, <2>5
<1>6. CASE CanLock(t)
  <2> DEFINE n == Goto(st, t, "held")
             k == Len(st[t])
  <2>1. /\ n \in Stacks /\ Len(n[t]) = k /\ \A u \in Threads \ {t} : n[u] = st[u]
        /\ Top(n, t) = "held" /\ n[t][k].at = "held" /\ n[t][k].kind = st[t][k].kind
        /\ Below(n[t], k) = Below(st[t], k)
        /\ \A i \in 1 .. k : Exited(n, t, i) <=> Exited(st, t, i)
    <3>1. "held" \in Ats
      BY DEF Ats
    <3>2. n \in Stacks /\ Len(n[t]) = k /\ \A u \in Threads \ {t} : n[u] = st[u]
      BY <1>3, <3>1, GotoIs, ZenonT(30)
    <3>3. /\ Top(n, t) = "held" /\ n[t][k].at = "held" /\ n[t][k].kind = st[t][k].kind
          /\ Below(n[t], k) = Below(st[t], k)
          /\ \A i \in 1 .. k : Exited(n, t, i) <=> Exited(st, t, i)
      BY <1>3, <3>1, GotoEffect
    <3>4. QED BY <3>2, <3>3
  <2>2. stack' = n /\ lockCount' = lockCount + 1 /\ lockThread' = t
    BY <1>6 DEF Enter
  <2> HIDE DEF n
  <2>3. ~(k < Len(n[t]))
    BY <1>3, <2>1
  <2>4. Lies(t, n[t], k)
    BY <1>3, <2>1, <2>3 DEF Lies, LockerKinds
  <2>5. Shape(n)
    BY <1>2, <1>3, <2>4, GotoShape DEF n, Ats
  <2>6. /\ \A u \in Threads \ {t} : ~Inside(st, u)
        /\ lockCount = k - 1 /\ hopEvent = None /\ NoExit(st)
        /\ \A u \in Threads : ~Has(posted[u], "unlock")
    <3>1. CASE k = 2
      BY <1>1, <1>3, <1>4, <3>1, InsideIs DEF Level
    <3>2. CASE k = 1
      <4>1. ~Inside(st, t)
        BY <1>4, <3>2
      <4>2. lockCount = 0 /\ lockThread = None
        <5>1. lockCount > 0 => lockThread = t /\ ~Has(posted[t], "unlock")
          BY <1>1, <1>6 DEF CanLock, Lockers, HopPending
        <5>2. lockCount > 0 => Inside(st, t)
          BY <5>1 DEF Lockers, LockOwned
        <5>3. lockCount = 0
          BY <4>1, <5>2 DEF TypedNow
        <5>4. QED BY <1>6, <5>3 DEF CanLock
      <4>3. hopEvent = None /\ NoExit(st)
        BY <4>2 DEF Lockers, HopPending, HopEnded, NoExit
      <4>4. QED BY <3>2, <4>2, <4>3, FreeIs
    <3>3. QED BY <1>4, <3>1, <3>2
  <2>7. Level(n[t], k) = k
    BY <1>3, <2>1 DEF Level
  <2>8. \A u \in Threads \ {t} : Top(n, u) = Top(st, u) /\ (Inside(n, u) <=> Inside(st, u))
                             /\ n[u] = st[u] /\ \A i : Exited(n, u, i) <=> Exited(st, u, i)
    BY <2>1, OthersSame
  <2>9. NoHop(st)
    BY <2>6, NoHopIs
  <2>10. Busy(n, t)'
    <3>1. Inside(n, t) /\ ~InProgram(n, t) /\ \A u \in Threads \ {t} : ~Inside(n, u)
      BY <2>1, <2>6, <2>8 DEF Inside, InProgram
    <3>2. NoExit(n)
      BY <2>1, <2>6, <2>8 DEF NoExit
    <3>3. NoHop(n)'
      BY <2>1, <2>8, <2>9 DEF NoHop, Enter, hop
    <3>4. lockCount' = Level(n[t], Len(n[t]))
      BY <1>3, <2>1, <2>2, <2>6, <2>7
    <3>5. NoPause' /\ (unwindStack' => rflag')
      BY DEF Lockers, NoPause, Running, Enter, flags
    <3>6. QED BY <2>2, <2>5, <3>1, <3>2, <3>3, <3>4, <3>5 DEF Busy
  <2>11. BusyHolds'
    BY BusyIs, PTL
  <2>12. Lockers(stack)'
    BY <2>1, <2>2, <2>10, <2>11 DEF BusyHolds
  <2>13. TypedNow'
    BY <2>1, <2>2 DEF TypedNow, Enter, hop, flags, counters
  <2>14. QED BY <2>12, <2>13
<1>7. QED BY <1>5, <1>6

\* It waits no longer.
LEMMA TimeOutLockers ==
  ASSUME NEW st, Setting(st), NEW t \in Threads, TimeOut(t)
  PROVE  TypedNow' /\ Lockers(stack)'
<1> USE DEF Setting
<1> DEFINE n == Pop(st, t)
<1>1. Top(st, t) = "asleep" /\ stack' = n
  BY AtIs DEF TimeOut
<1>2. Shape(st)
  BY DEF Lockers
<1>3. /\ st[t] # <<>> /\ Len(st[t]) \in Nat \ {0} /\ Lies(t, st[t], Len(st[t]))
      /\ st[t][Len(st[t])].at = "asleep" /\ st[t][Len(st[t])].kind \in LockerKinds
  BY <1>1, <1>2, TopIs, KindOf
<1>4. Below(st[t], Len(st[t])) = "loop" /\ ~Inside(st, t)
  BY <1>1, <1>3 DEF Lies, Inside, Below
<1>5. n \in Stacks /\ Quiet(st, n, t)
  BY <1>1, <1>3, <1>4, QuietPop
<1> HIDE DEF n
<1>6. Lockers(stack)'
  BY <1>1, <1>5, QuietStep DEF TimeOut, lock, hop, flags
<1>7. TypedNow'
  BY <1>1, <1>5 DEF TypedNow, TimeOut, lock, hop, flags, counters
<1>8. QED BY <1>6, <1>7

\* The engine is made ready by an event.
LEMMA ReadyPosted ==
  ASSUME TypedNow, NEW st \in Stacks, NoHop(st)
  PROVE  /\ MakeReady(posted) \in Queues
         /\ \A u \in Threads : ~Has(MakeReady(posted)[u], "call") /\ ~Has(MakeReady(posted)[u], "unlock")
<1>1. "ready" \in Events /\ Owner \in Threads /\ posted \in Queues
  BY OwnerAssumption DEF Events, TypedNow
<1>2. PICK q : q = Post(posted, Owner, "ready")
  OBVIOUS
<1>3. q \in Queues
  BY <1>1, <1>2, PostIn
<1>4. \A u \in Threads : \A d : Has(q[u], d) <=> Has(posted[u], d) \/ (u = Owner /\ d = "ready")
  BY <1>1, <1>2, PostIs
<1>5. \A u \in Threads : ~Has(q[u], "call") /\ ~Has(q[u], "unlock")
  BY <1>4 DEF NoHop
<1>6. QED BY <1>2, <1>3, <1>5 DEF MakeReady

\* The locker is left, and the lock when it was the outermost.
LEMMA UnlockLockers ==
  ASSUME NEW st, Setting(st), NEW t \in Threads, Unlock(t)
  PROVE  TypedNow' /\ Lockers(stack)'
<1> USE DEF Setting
<1>1. Top(st, t) \in {"done", "held"}
  BY AtIs DEF Unlock
<1>2. Shape(st)
  BY DEF Lockers
<1>3. Inside(st, t)
  BY <1>1 DEF Inside
<1> DEFINE k == Len(st[t])
           n == Pop(st, t)
<1>4. /\ st[t] # <<>> /\ k \in Nat \ {0} /\ Lies(t, st[t], k)
      /\ st[t][k].at \in {"done", "held"} /\ st[t][k].kind \in LockerKinds
  BY <1>1, <1>2, TopIs, KindOf
<1>5. k \in {1, 2} /\ (k = 2 => Below(st[t], 2) = "done")
  <2>1. k = 1 \/ (k = 2 /\ Below(st[t], k) = "done")
    BY <1>4 DEF Lies
  <2> HIDE DEF k
  <2>2. QED BY <2>1
<1>6. /\ lockThread = t /\ lockCount = k /\ NoExit(st)
      /\ \A u \in Threads \ {t} : ~Inside(st, u)
      /\ \A u \in Threads : ~Has(posted[u], "unlock")
  <2>1. Level(st[t], k) = k
    BY <1>4 DEF Level
  <2>2. QED BY <1>3, <2>1, InsideIs
<1>7. n \in Stacks /\ Len(n[t]) = k - 1 /\ \A u \in Threads \ {t} : n[u] = st[u]
  BY <1>4, PopIs
<1>8. /\ Top(n, t) = Below(st[t], k)
      /\ \A i \in 1 .. k - 1 : Level(n[t], i) = Level(st[t], i) /\ (Exited(n, t, i) <=> Exited(st, t, i))
  BY <1>4, PopEffect
<1>9. Shape(n)
  BY <1>2, <1>4, PopShape
<1>10. UNCHANGED <<rflag, hopEvent, hopLoop, pauseLoop, hookInfo, unwindStack, resumeFlag, stopHook,
                    queuedSignals, session, emitted>>
  BY DEF Unlock, hop, flags, counters
<1>14. lockCount' = k - 1
  BY <1>6 DEF Unlock
<1>11. CASE k = 2
  <2>1. stack' = n /\ lockThread' = t /\ posted' = posted
    BY <1>6, <1>11 DEF Unlock
  <2>2. Top(n, t) = "done"
    BY <1>5, <1>8, <1>11
  <2>3. Level(st[t], 1) = 1
    <3>1. st[t][1].at = "done" /\ 1 \in 1 .. Len(st[t])
      BY <1>5, <1>11 DEF Below
    <3>2. st[t][1].kind \in LockerKinds
      BY <1>2, <3>1, KindOf
    <3>3. QED BY <3>1, <3>2 DEF Level
  <2>4. Len(n[t]) = 1 /\ Level(n[t], 1) = 1
    BY <1>7, <1>8, <1>11, <2>3
  <2> HIDE DEF n, k
  <2>5. lockCount' = 1
    <3>1. k \in Nat
      BY <1>4
    <3>2. QED BY <1>14, <1>11, <3>1
  <2>6. \A u \in Threads \ {t} : /\ Top(n, u) = Top(st, u) /\ (Inside(n, u) <=> Inside(st, u))
                                /\ n[u] = st[u] /\ \A i : Exited(n, u, i) <=> Exited(st, u, i)
    BY <1>7, OthersSame
  <2>7. Inside(n, t) /\ ~InProgram(n, t) /\ \A u \in Threads \ {t} : ~Inside(n, u) /\ ~InProgram(n, u)
    BY <1>6, <2>2, <2>6, InProgramIs DEF Inside, InProgram
  <2>8. NoExit(n)
    BY <1>6, <1>7, <1>8, <2>6 DEF NoExit, k
  <2>9. LockOwned(n)'
    BY <2>1, <2>4, <2>5, <2>7 DEF LockOwned
  <2>10. HopPending(n)'
    <3>1. Top(st, t) \notin {"catch", "catchasleep", "hopping"}
      BY <1>1
    <3>2. HopPending(st)
      BY DEF Lockers
    <3>3. hopEvent' = hopEvent
      BY <1>10
    <3>4. t # None
      BY OwnerAssumption
    <3>5. ASSUME NEW u \in Threads
          PROVE  /\ Once(posted[u], "call") /\ Once(posted[u], "unlock")
                 /\ Has(posted[u], "call") => hopEvent = u /\ Top(n, u) \notin {"catch", "catchasleep"}
                 /\ Top(n, u) \in {"catch", "catchasleep"} => hopEvent = u
                 /\ ~Has(posted[u], "unlock")
      BY <1>6, <2>2, <2>6, <3>2 DEF HopPending
    <3>6. QED BY <2>1, <2>2, <2>7, <3>3, <3>4, <3>5 DEF HopPending
  <2>11. HopEnded(n)'
    BY <2>8 DEF HopEnded, NoExit
  <2>12. Running(n)'
    BY <1>10, <2>7, <2>8 DEF Running, NoExit, Lockers
  <2>13. NoReadyEvent(n)'
    BY <1>10, <2>1, <2>7, <2>8 DEF NoReadyEvent, NoExit, Lockers
  <2>14. NoPause'
    BY <1>10 DEF NoPause, Lockers
  <2>15. Lockers(stack)'
    BY <1>9, <2>1, <2>9, <2>10, <2>11, <2>12, <2>13, <2>14 DEF Lockers
  <2>16. TypedNow'
    BY <1>7, <1>10, <2>1, <2>5 DEF TypedNow
  <2>17. QED BY <2>15, <2>16
<1>12. CASE k = 1
  <2>1. Top(n, t) = "loop" /\ lockCount' = 0
    <3>1. k \in Nat
      BY <1>4
    <3> HIDE DEF k, n
    <3>2. lockCount' = 0
      BY <1>14, <1>12, <3>1
    <3>3. QED BY <1>8, <1>12, <3>2 DEF Below
  <2>2. lockCount = 1
    BY <1>6, <1>12
  <2>3. n = Pop(stack, t)
    OBVIOUS
  <2> HIDE DEF n
  <2>6. \A u \in Threads \ {t} : /\ Top(n, u) = Top(st, u) /\ (Inside(n, u) <=> Inside(st, u))
                                /\ n[u] = st[u] /\ \A i : Exited(n, u, i) <=> Exited(st, u, i)
    BY <1>7, OthersSame
  <2>7. \A u \in Threads : ~Inside(n, u) /\ ~InProgram(n, u)
    BY <1>6, <2>1, <2>6, InProgramIs DEF Inside, InProgram
  <2>8. NoExit(n)
    BY <1>6, <1>7, <1>8, <2>6 DEF NoExit
  <2>9. WakeHolds'
    BY WakeIs, PTL
  <2>10. CASE hopEvent # None
    <3>1. stack' \in WakeCatcher(n) /\ lockThread' = t /\ posted' = posted
      BY <1>6, <2>2, <2>3, <2>10 DEF Unlock
    <3>2. LockOwned(n)'
      BY <2>1, <2>7 DEF LockOwned
    <3>3. HopPending(n)'
      <4>2. HopPending(st)
        BY DEF Lockers
      <4>3. hopEvent' = hopEvent
        BY <1>10
      <4>4. t # None
        BY OwnerAssumption
      <4>5. ASSUME NEW u \in Threads
            PROVE  /\ Once(posted[u], "call") /\ Once(posted[u], "unlock")
                   /\ Has(posted[u], "call") => hopEvent = u /\ Top(n, u) \notin {"catch", "catchasleep"}
                   /\ Top(n, u) \in {"catch", "catchasleep"} => hopEvent = u
                   /\ ~Has(posted[u], "unlock")
        BY <1>6, <2>1, <2>6, <4>2 DEF HopPending
      <4>6. QED BY <2>7, <3>1, <4>3, <4>4, <4>5 DEF HopPending
    <3>4. HopEnded(n)'
      BY <2>8 DEF HopEnded, NoExit
    <3>5. Running(n)'
      BY <1>10, <2>7, <2>8 DEF Running, NoExit, Lockers
    <3>6. NoReadyEvent(n)'
      BY <1>10, <2>7, <2>8, <3>1 DEF NoReadyEvent, NoExit, Lockers
    <3>7. NoPause'
      BY <1>10 DEF NoPause, Lockers
    <3>8. Lockers(n)'
      BY <1>9, <3>2, <3>3, <3>4, <3>5, <3>6, <3>7 DEF Lockers
    <3>9. stack' \in Stacks /\ Lockers(stack)'
      BY <1>7, <2>9, <3>1, <3>8 DEF WakeHolds
    <3>10. TypedNow'
      BY <1>10, <2>1, <3>1, <3>9 DEF TypedNow
    <3>11. QED BY <3>9, <3>10
  <2>11. CASE hopEvent = None
    <3>1. stack' \in WakeLocker(n) /\ lockThread' = None /\ posted' = MakeReady(posted)
      BY <1>6, <2>2, <2>3, <2>11 DEF Unlock
    <3>2. NoHop(st)
      BY <2>11, NoHopIs
    <3>3. /\ posted' \in Queues
          /\ \A u \in Threads : ~Has(posted'[u], "call") /\ ~Has(posted'[u], "unlock")
      BY <3>1, <3>2, ReadyPosted
    <3>4. \A u \in Threads : Top(n, u) \notin {"catch", "catchasleep"}
      BY <2>1, <2>6, <3>2 DEF NoHop
    <3>5. NoHop(n)'
      BY <1>10, <2>11, <3>3, <3>4 DEF NoHop
    <3>6. NoPause' /\ (unwindStack' => rflag')
      BY <1>10 DEF NoPause, Lockers, Running
    <3>7. Idle(n)'
      BY <1>9, <2>1, <2>7, <2>8, <3>5, <3>6 DEF Idle
    <3>8. IdleHolds'
      BY IdleIs, PTL
    <3>9. Lockers(n)'
      BY <1>7, <3>7, <3>8 DEF IdleHolds
    <3>10. stack' \in Stacks /\ Lockers(stack)'
      BY <1>7, <2>9, <3>1, <3>9 DEF WakeHolds
    <3>11. TypedNow'
      BY <1>10, <2>1, <3>1, <3>3, <3>10 DEF TypedNow
    <3>12. QED BY <3>10, <3>11
  <2>12. QED BY <2>10, <2>11
<1>13. QED BY <1>5, <1>11, <1>12

\* Code is evaluated: refused, run here, sent to the owner, or taken there by a hop.
LEMMA EvalLockers ==
  ASSUME NEW st, Setting(st), NEW t \in Threads, Eval(t)
  PROVE  TypedNow' /\ Lockers(stack)'
<1> USE DEF Setting
<1> DEFINE k == Len(st[t])
           m == Goto(st, t, "done")
<1>1. Top(st, t) = "held"
  BY AtIs DEF Eval
<1>2. Shape(st)
  BY DEF Lockers
<1>3. Inside(st, t)
  BY <1>1 DEF Inside
<1>4. /\ lockThread = t /\ lockCount = Level(st[t], k) /\ hopEvent = None /\ NoExit(st)
      /\ \A u \in Threads \ {t} : ~Inside(st, u)
      /\ \A u \in Threads : ~Has(posted[u], "unlock")
      /\ lockCount \in Nat \ {0}
  BY <1>1, <1>3, InsideIs
<1>5. st[t] # <<>> /\ k \in Nat \ {0}
  BY <1>1, <1>2, TopIs
<1>6. "done" \in Ats
  BY DEF Ats
<1>7. m \in Stacks /\ Quiet(st, m, t)
  BY <1>1, <1>4, <1>5, <1>6, QuietGoto
<1>8. Len(m[t]) = k /\ Top(m, t) = "done"
  BY <1>5, <1>6, GotoEffect
<1> HIDE DEF m, k
<1>9. /\ Shape(m) /\ \A u \in Threads \ {t} : m[u] = st[u]
      /\ Inside(m, t) /\ Level(m[t], Len(m[t])) = Level(st[t], k)
  BY <1>3, <1>7 DEF Quiet, k
<1>10. \A u \in Threads \ {t} : /\ Top(m, u) = Top(st, u) /\ (Inside(m, u) <=> Inside(st, u))
                              /\ \A i : Exited(m, u, i) <=> Exited(st, u, i)
  BY <1>9, OthersSame
<1>11. NoExit(m)
  BY <1>4, <1>7, <1>9, <1>10 DEF NoExit, Quiet
<1>12. \A u \in Threads \ {t} : ~Inside(m, u) /\ ~InProgram(m, u)
  BY <1>4, <1>10, InProgramIs
<1>13. ~InProgram(m, t)
  BY <1>8 DEF InProgram
<1>14. NoHop(st)
  BY <1>4, NoHopIs
<1>15. \A u \in Threads : Top(m, u) \notin {"catch", "catchasleep"}
  BY <1>8, <1>10, <1>14 DEF NoHop
<1>16. UNCHANGED <<lockCount, lockThread, pauseLoop, hookInfo, unwindStack, resumeFlag, stopHook,
                   queuedSignals, session, emitted>>
  BY DEF Eval, lock, flags, counters
<1>17. CASE stack' = m /\ UNCHANGED <<rflag, hopEvent, hopLoop, posted>>
  <2>1. Lockers(stack)'
    BY <1>7, <1>16, <1>17, QuietStep
  <2>2. TypedNow'
    BY <1>7, <1>16, <1>17 DEF TypedNow
  <2>3. QED BY <2>1, <2>2
<1>18. CASE /\ t = Owner /\ rflag' = TRUE /\ stack' = Push(m, t, Frame("lua", "here"))
            /\ UNCHANGED <<hopEvent, hopLoop, posted>>
  <2> DEFINE f == Frame("lua", "here")
             n == Push(m, t, f)
  <2>1. f \in Frames /\ f.at = "lua" /\ f.kind = "here" /\ f.exit = "no"
    BY FrameIs DEF Ats
  <2> HIDE DEF f
  <2>2. n \in Stacks /\ \A u \in Threads \ {t} : n[u] = m[u]
    BY <1>7, <2>1, PushIs
  <2>3. /\ Top(n, t) = "lua" /\ Len(n[t]) = Len(m[t]) + 1 /\ n[t][Len(m[t]) + 1] = f
        /\ Below(n[t], Len(m[t]) + 1) = "done"
        /\ \A i \in 1 .. Len(m[t]) + 1 : Exited(n, t, i) => i \in 1 .. Len(m[t]) /\ Exited(m, t, i)
    BY <1>7, <1>8, <2>1, PushEffect
  <2>4. Len(m[t]) = k /\ k + 1 > 1 /\ ~(k + 1 < Len(n[t])) /\ (k + 1) - 1 = k
    BY <1>5, <1>8, <2>3
  <2> HIDE DEF n
  <2>5. Lies(t, n[t], Len(m[t]) + 1)
    BY <2>1, <2>3, <2>4 DEF Lies, LockerKinds
  <2>6. Shape(n)
    BY <1>7, <1>8, <1>9, <2>1, <2>5, PushShape DEF n
  <2>7. Level(n[t], Len(n[t])) = Level(st[t], k)
    <3>1. Level(n[t], Len(n[t])) = k
      BY <2>1, <2>3, <2>4 DEF Level, LockerKinds
    <3>2. Level(st[t], k) = k
      <4>1. st[t][k].at = "held" /\ st[t][k].kind \in LockerKinds
        BY <1>1, <1>2, <1>5, TopIs, KindOf DEF k
      <4>2. QED BY <4>1 DEF Level
    <3>3. QED BY <3>1, <3>2
  <2>8. Inside(n, t) /\ InProgram(n, t)
    BY <2>3 DEF Inside, InProgram
  <2>9. \A u \in Threads \ {t} : /\ Top(n, u) = Top(m, u) /\ (Inside(n, u) <=> Inside(m, u))
                                /\ \A i : Exited(n, u, i) <=> Exited(m, u, i)
    BY <2>2, OthersSame
  <2>10. NoExit(n)
    BY <1>11, <2>2, <2>3, <2>9 DEF NoExit
  <2>11. NoHop(n)'
    BY <1>14, <1>15, <1>18, <2>3, <2>9 DEF NoHop
  <2>12. NoPause'
    BY <1>16 DEF NoPause, Lockers
  <2>13. n[t][Len(n[t])].kind # "call"
    BY <2>1, <2>3
  <2>14. lockThread' = t /\ lockCount' = Level(n[t], Len(n[t])) /\ rflag'
    BY <1>4, <1>16, <1>18, <2>7
  <2>15. Busy(n, t)'
    BY <1>12, <1>18, <2>6, <2>8, <2>9, <2>10, <2>11, <2>12, <2>13, <2>14 DEF Busy
  <2>16. BusyHolds'
    BY BusyIs, PTL
  <2>17. stack' = n
    BY <1>18 DEF n, f
  <2>18. Lockers(stack)'
    BY <2>2, <2>15, <2>16, <2>17 DEF BusyHolds
  <2>19. TypedNow'
    BY <1>16, <1>18, <2>2, <2>17 DEF TypedNow
  <2>20. QED BY <2>18, <2>19
<1>19. CASE /\ hopEvent' = Owner /\ posted' = Post(posted, Owner, "call") /\ stack' = m
            /\ UNCHANGED <<rflag, hopLoop>>
  <2>1. "call" \in Events /\ Owner \in Threads /\ posted \in Queues /\ Owner # None
    BY OwnerAssumption DEF Events, TypedNow
  <2>2. PICK q : q = Post(posted, Owner, "call")
    OBVIOUS
  <2>3. q \in Queues
    BY <2>1, <2>2, PostIn
  <2>4. \A u \in Threads : \A d : Has(q[u], d) <=> Has(posted[u], d) \/ (u = Owner /\ d = "call")
    BY <2>1, <2>2, PostIs
  <2>5. \A u \in Threads : \A d :
             Once(posted[u], d) /\ (u = Owner /\ d = "call" => ~Has(posted[u], d)) => Once(q[u], d)
    BY <2>1, <2>2, PostIs
  <2>6. Followed(q[Owner], "ready")
    BY <2>1, <2>2, PostIs
  <2>7. posted' = q
    BY <1>19, <2>2
  <2>8. ASSUME NEW u \in Threads
        PROVE  /\ Once(q[u], "call") /\ Once(q[u], "unlock")
               /\ Has(q[u], "call") => Owner = u
               /\ ~Has(q[u], "unlock")
    <3>1. ~Has(posted[u], "call") /\ ~Has(posted[u], "unlock")
      BY <1>14 DEF NoHop
    <3>2. Once(posted[u], "call") /\ Once(posted[u], "unlock")
      BY DEF Lockers, HopPending
    <3>3. QED BY <2>4, <2>5, <3>1, <3>2
  <2>9. LockOwned(m)'
    BY <1>4, <1>9, <1>12, <1>16 DEF LockOwned
  <2>10. HopPending(m)'
    <3>1. lockThread' # None /\ \A u \in Threads : Inside(m, u) => Top(m, u) = "done"
      BY <1>4, <1>8, <1>12, <1>16, OwnerAssumption
    <3>2. QED BY <1>15, <1>19, <2>7, <2>8, <3>1 DEF HopPending
  <2>11. HopEnded(m)'
    BY <1>11 DEF HopEnded, NoExit
  <2>12. Running(m)'
    BY <1>11, <1>12, <1>13, <1>16, <1>19 DEF Running, NoExit, Lockers
  <2>13. NoReadyEvent(m)'
    BY <1>11, <1>12, <1>13, <2>6, <2>7 DEF NoReadyEvent, NoExit
  <2>14. NoPause'
    BY <1>16 DEF NoPause, Lockers
  <2>15. Lockers(m)'
    BY <1>9, <2>9, <2>10, <2>11, <2>12, <2>13, <2>14 DEF Lockers
  <2>16. Lockers(stack)'
    BY <1>19, <2>15
  <2>17. TypedNow'
    BY <1>7, <1>16, <1>19, <2>1, <2>3, <2>7 DEF TypedNow
  <2>18. QED BY <2>16, <2>17
<1>20. CASE t # Owner /\ HopTo(t, Owner, m) /\ UNCHANGED rflag
  <2>1. Owner \in Threads /\ UNCHANGED <<lockCount, lockThread, rflag, pauseLoop, unwindStack, stopHook>>
    BY <1>16, <1>20, OwnerAssumption
  <2>2. Top(m, t) \in {"done", "lua"} /\ Level(m[t], Len(m[t])) = Level(st[t], Len(st[t]))
    BY <1>8, <1>9 DEF k
  <2>3. /\ stack' \in Stacks /\ posted' \in Queues /\ Lockers(stack)'
        /\ hopEvent' \in Threads /\ hopLoop' \in Loops
    BY <1>3, <1>4, <1>7, <1>9, <1>11, <1>20, <2>1, <2>2, HopToIs
  <2>4. TypedNow'
    BY <1>16, <1>20, <2>3 DEF TypedNow
  <2>5. QED BY <2>3, <2>4
<1>21. m = Goto(stack, t, "done")
  BY DEF m
<1>22. \/ stack' = m /\ UNCHANGED <<rflag, hop, posted>>
       \/ /\ t = Owner /\ rflag' = TRUE /\ stack' = Push(m, t, Frame("lua", "here"))
          /\ UNCHANGED <<hop, posted>>
       \/ /\ hopEvent' = Owner /\ posted' = Post(posted, Owner, "call") /\ stack' = m
          /\ UNCHANGED <<rflag, hopLoop>>
       \/ t # Owner /\ HopTo(t, Owner, m) /\ UNCHANGED rflag
  <2>1. Kind(t) \in {"eval", "async"}
    BY DEF Eval
  <2>2. \/ /\ ~Ready \/ (Kind(t) = "async" /\ t = Owner)
           /\ stack' = m /\ UNCHANGED <<rflag, hop, posted>>
        \/ /\ Ready /\ Kind(t) = "eval" /\ t = Owner
           /\ rflag' = TRUE /\ stack' = Push(m, t, Frame("lua", "here"))
           /\ UNCHANGED <<hop, posted>>
        \/ /\ Ready /\ Kind(t) = "async" /\ t # Owner
           /\ hopEvent' = Owner /\ posted' = Post(posted, Owner, "call")
           /\ stack' = m /\ UNCHANGED <<rflag, hopLoop>>
        \/ /\ Ready /\ Kind(t) = "eval" /\ t # Owner
           /\ HopTo(t, Owner, m) /\ UNCHANGED rflag
    BY <1>21, <2>1, Zenon DEF Eval
  <2>3. QED BY <2>2
<1>23. QED BY <1>17, <1>18, <1>19, <1>20, <1>22 DEF hop

\* The loop of a call that hopped has been left: the lock is as it was.
LEMMA HopReturnLockers ==
  ASSUME NEW st, Setting(st), NEW t \in Threads, HopReturn(t)
  PROVE  TypedNow' /\ Lockers(stack)'
<1> USE DEF Setting
<1> DEFINE k == Len(st[t])
           n == Pop(st, t)
<1>1. Top(st, t) = "hopping" /\ st[t][k].exit # "no" /\ lockCount' = st[t][k].count
      /\ lockThread' = st[t][k].thread /\ hopLoop' = st[t][k].loop /\ stack' = n
  BY AtIs DEF HopReturn
<1>2. Shape(st)
  BY DEF Lockers
<1>3. /\ st[t] # <<>> /\ k \in Nat \ {0} /\ Lies(t, st[t], k) /\ st[t][k].kind = "hop"
      /\ st[t][k] \in Frames
  BY <1>1, <1>2, TopIs, KindOf
<1>4. Exited(st, t, k) /\ k \in 1 .. k
  BY <1>1, <1>3 DEF Exited
<1>5. hopLoop = <<t, k>> /\ lockCount = 0 /\ lockThread # None /\ hopEvent = None
  BY <1>4 DEF Lockers, HopEnded
<1>6. /\ Below(st[t], k) \in {"done", "lua"} /\ lockThread' = t
      /\ lockCount' = Level(st[t], k - 1)
  BY <1>1, <1>3 DEF Lies
<1>7. n \in Stacks /\ Len(n[t]) = k - 1 /\ \A u \in Threads \ {t} : n[u] = st[u]
  BY <1>3, PopIs
<1>8. Top(n, t) = Below(st[t], k)
  BY <1>3, PopEffect
<1>9. \A i \in 1 .. k - 1 : Level(n[t], i) = Level(st[t], i) /\ (Exited(n, t, i) <=> Exited(st, t, i))
  BY <1>3, PopEffect
<1>10. Shape(n)
  BY <1>2, <1>3, PopShape
<1> HIDE DEF n, k
<1>11. Inside(n, t)
  BY <1>6, <1>8 DEF Inside
<1>12. n[t] # <<>> /\ Len(n[t]) \in Nat \ {0}
  BY <1>7, <1>10, <1>11, TopIs
<1>13. lockCount' = Level(n[t], Len(n[t]))
  BY <1>6, <1>7, <1>9, <1>12
<1>14. \A u \in Threads \ {t} : /\ Top(n, u) = Top(st, u) /\ (Inside(n, u) <=> Inside(st, u))
                              /\ n[u] = st[u] /\ \A i : Exited(n, u, i) <=> Exited(st, u, i)
  BY <1>7, OthersSame
<1>15. \A u \in Threads : ~Inside(st, u) /\ ~InProgram(st, u) /\ ~Has(posted[u], "unlock")
  BY <1>5, FreeIs
<1>16. NoHop(st)
  BY <1>5, NoHopIs
<1>17. NoExit(n)
  <2>1. \A u \in Threads : \A i \in 1 .. Len(st[u]) : Exited(st, u, i) => u = t /\ i = k
    BY <1>5 DEF Lockers, HopEnded
  <2>2. \A i \in 1 .. Len(n[t]) : i \in 1 .. k - 1 /\ i # k /\ i \in 1 .. Len(st[t])
    BY <1>3, <1>7 DEF k
  <2>3. \A i \in 1 .. Len(n[t]) : ~Exited(n, t, i)
    BY <1>9, <2>1, <2>2
  <2>4. QED BY <1>14, <2>1, <2>3 DEF NoExit
<1>18. UNCHANGED <<rflag, hopEvent, pauseLoop, hookInfo, unwindStack, resumeFlag, stopHook,
                   queuedSignals, posted, session, emitted>>
  BY DEF HopReturn, flags, counters
<1>19. NoHop(n)'
  BY <1>6, <1>8, <1>14, <1>16, <1>18 DEF NoHop
<1>20. rflag /\ ~Has(posted[Owner], "ready")
  <2>1. k \in 1 .. Len(st[t])
    BY <1>4 DEF k
  <2>2. Running(st) /\ NoReadyEvent(st)
    BY DEF Lockers
  <2>3. QED BY <1>4, <2>1, <2>2 DEF Running, NoReadyEvent
<1>21. NoPause'
  BY <1>18 DEF NoPause, Lockers
<1>22. Busy(n, t)'
  BY <1>6, <1>10, <1>11, <1>13, <1>14, <1>15, <1>17, <1>18, <1>19, <1>20, <1>21 DEF Busy
<1>23. BusyHolds'
  BY BusyIs, PTL
<1>24. Lockers(stack)'
  BY <1>1, <1>7, <1>22, <1>23 DEF BusyHolds
<1>25. st[t][k].count \in Nat /\ st[t][k].loop \in Loops
  BY <1>3 DEF Frames
<1>26. lockCount' \in Nat /\ hopLoop' \in Loops
  BY <1>1, <1>25
<1>27. stack' \in Stacks /\ lockThread' \in Threads
  BY <1>1, <1>6, <1>7
<1>28. TypedNow'
  BY <1>18, <1>26, <1>27 DEF TypedNow
<1>29. QED BY <1>24, <1>28

\* The event that frees the lock for a hop.
LEMMA FreeLockLockers ==
  ASSUME NEW st, Setting(st), NEW t \in Threads, FreeLock(t)
  PROVE  TypedNow' /\ Lockers(stack)'
<1> USE DEF Setting
<1>1. posted[t] # <<>> /\ Head(posted[t]) = "unlock" /\ posted' = [posted EXCEPT ![t] = Tail(@)]
  BY DEF FreeLock, NextEvent, Taken
<1>2. /\ lockCount' = 0 /\ stack' \in WakeCatcher(st)
      /\ UNCHANGED <<lockThread, rflag, hopEvent, hopLoop, pauseLoop, hookInfo, unwindStack, resumeFlag,
                     stopHook, queuedSignals, session, emitted>>
  BY DEF FreeLock, hop, flags, counters
<1>3. PICK q : q = [posted EXCEPT ![t] = Tail(@)]
  OBVIOUS
<1>4. posted \in Queues
  BY DEF TypedNow
<1>5. /\ q \in Queues /\ Has(posted[t], "unlock")
      /\ \A u \in Threads : \A d :
           /\ Has(q[u], d) => Has(posted[u], d)
           /\ Has(posted[u], d) /\ ~(u = t /\ d = "unlock") => Has(q[u], d)
           /\ Once(posted[u], d) => Once(q[u], d)
      /\ Once(posted[t], "unlock") => ~Has(q[t], "unlock")
      /\ Followed(posted[Owner], "ready") => Followed(q[Owner], "ready")
  <2>1. Took(posted, q, t, "unlock")
    BY <1>1, <1>3, <1>4, TakenIs
  <2>2. QED BY <2>1 DEF Took
<1>6. HopPending(st) /\ LockOwned(st) /\ NoReadyEvent(st)
  BY DEF Lockers
<1>7. lockThread = t /\ lockCount > 0 /\ Top(st, t) = "hopping" /\ hopEvent \notin {None, t}
  BY <1>5, <1>6 DEF HopPending
<1>8. \A u \in Threads : ~Inside(st, u) /\ ~InProgram(st, u)
  BY <1>6, <1>7, InProgramIs DEF LockOwned, Inside
<1>9. NoExit(st)
  BY <1>7 DEF Lockers, HopEnded, NoExit
<1>10. posted' = q
  BY <1>1, <1>3
<1>11. \A u \in Threads : ~Has(q[u], "unlock") /\ Once(q[u], "unlock") /\ Once(q[u], "call")
  BY <1>5, <1>6, <1>7 DEF HopPending
<1>12. LockOwned(st)'
  BY <1>2, <1>8 DEF LockOwned
<1>13. HopPending(st)'
  <2>1. lockThread' # None /\ hopEvent' = hopEvent
    BY <1>2, <1>7, OwnerAssumption
  <2>2. \A u \in Threads : Has(q[u], "call") => hopEvent = u /\ Top(st, u) \notin {"catch", "catchasleep"}
    BY <1>5, <1>6 DEF HopPending
  <2>3. \A u \in Threads : Top(st, u) \in {"catch", "catchasleep"} => hopEvent = u
    BY <1>6 DEF HopPending
  <2>4. QED BY <1>8, <1>10, <1>11, <2>1, <2>2, <2>3 DEF HopPending
<1>14. HopEnded(st)'
  BY <1>9 DEF HopEnded, NoExit
<1>15. Running(st)'
  BY <1>2, <1>8, <1>9 DEF Running, NoExit, Lockers
<1>16. NoReadyEvent(st)'
  <2>1. Has(q[Owner], "ready") => Followed(q[Owner], "ready")
    BY <1>5, <1>6, <1>7, OwnerAssumption DEF NoReadyEvent
  <2>2. QED BY <1>8, <1>9, <1>10, <2>1 DEF NoReadyEvent, NoExit
<1>17. NoPause'
  BY <1>2 DEF NoPause, Lockers
<1>18. Lockers(st)'
  BY <1>12, <1>13, <1>14, <1>15, <1>16, <1>17 DEF Lockers
<1>19. WakeHolds'
  BY WakeIs, PTL
<1>20. stack' \in Stacks /\ Lockers(stack)'
  BY <1>2, <1>18, <1>19 DEF WakeHolds
<1>21. TypedNow'
  BY <1>2, <1>5, <1>10, <1>20 DEF TypedNow
<1>22. QED BY <1>20, <1>21

\* The event that brings a call to its thread.
LEMMA CatchLockers ==
  ASSUME NEW st, Setting(st), NEW t \in Threads, Catch(t)
  PROVE  TypedNow' /\ Lockers(stack)'
<1> USE DEF Setting
<1> DEFINE f == Frame("catch", "catch")
           n == Push(st, t, f)
<1>1. posted[t] # <<>> /\ Head(posted[t]) = "call" /\ posted' = [posted EXCEPT ![t] = Tail(@)]
  BY DEF Catch, NextEvent, Taken
<1>2. /\ stack' = n
      /\ UNCHANGED <<lockCount, lockThread, rflag, hopEvent, hopLoop, pauseLoop, hookInfo, unwindStack,
                     resumeFlag, stopHook, queuedSignals, session, emitted>>
  BY DEF Catch, lock, hop, flags, counters
<1>3. PICK q : q = [posted EXCEPT ![t] = Tail(@)]
  OBVIOUS
<1>4. posted \in Queues
  BY DEF TypedNow
<1>5. /\ q \in Queues /\ Has(posted[t], "call")
      /\ \A u \in Threads : \A d :
           /\ Has(q[u], d) => Has(posted[u], d)
           /\ Has(posted[u], d) /\ ~(u = t /\ d = "call") => Has(q[u], d)
           /\ Once(posted[u], d) => Once(q[u], d)
      /\ Once(posted[t], "call") => ~Has(q[t], "call")
      /\ Followed(posted[Owner], "ready") => Followed(q[Owner], "ready")
  <2>1. Took(posted, q, t, "call")
    BY <1>1, <1>3, <1>4, TakenIs
  <2>2. QED BY <2>1 DEF Took
<1>6. /\ HopPending(st) /\ LockOwned(st) /\ NoReadyEvent(st) /\ Shape(st)
      /\ HopEnded(st) /\ Running(st) /\ NoPause
  BY DEF Lockers
<1>7. hopEvent = t /\ t # None
  BY <1>5, <1>6, OwnerAssumption DEF HopPending
<1>8. NoExit(st)
  BY <1>6, <1>7 DEF HopEnded, NoExit
<1>9. posted' = q
  BY <1>1, <1>3
<1>10. Top(st, t) \in {"loop", "hopping", "paused"}
  BY AtIs DEF Catch, NextEvent
<1>11. Top(st, t) \in {"loop", "hopping"}
  <2>1. CASE st[t] = <<>>
    BY <2>1 DEF Top
  <2>2. CASE st[t] # <<>>
    <3>1. Top(st, t) = st[t][Len(st[t])].at /\ Len(st[t]) \in 1 .. Len(st[t])
      BY <1>6, <2>2, TopIs
    <3>2. QED BY <1>6, <1>10, <3>1, KindOf
  <2>3. QED BY <2>1, <2>2
<1>12. f \in Frames /\ f.at = "catch" /\ f.kind = "catch" /\ f.exit = "no"
  BY FrameIs DEF Ats
<1> HIDE DEF f
<1>13. n \in Stacks /\ \A u \in Threads \ {t} : n[u] = st[u]
  BY <1>12, PushIs
<1>14. /\ Top(n, t) = "catch" /\ Len(n[t]) = Len(st[t]) + 1 /\ n[t][Len(st[t]) + 1] = f
       /\ Below(n[t], Len(st[t]) + 1) = Top(st, t) /\ Len(st[t]) \in Nat
       /\ \A i \in 1 .. Len(st[t]) + 1 : Exited(n, t, i) => i \in 1 .. Len(st[t]) /\ Exited(st, t, i)
  BY <1>12, PushEffect
<1> HIDE DEF n
<1>15. ~(Len(st[t]) + 1 < Len(n[t]))
  BY <1>14
<1>16. Lies(t, n[t], Len(st[t]) + 1)
  BY <1>11, <1>12, <1>14, <1>15 DEF Lies, LockerKinds
<1>17. Shape(n)
  BY <1>6, <1>11, <1>12, <1>16, PushShape DEF n
<1>18. ~Inside(n, t) /\ ~InProgram(n, t) /\ ~Inside(st, t)
  BY <1>11, <1>14 DEF Inside, InProgram
<1>19. \A u \in Threads \ {t} : /\ Top(n, u) = Top(st, u) /\ (Inside(n, u) <=> Inside(st, u))
                              /\ Level(n[u], Len(n[u])) = Level(st[u], Len(st[u]))
                              /\ (InProgram(n, u) <=> InProgram(st, u))
                              /\ n[u] = st[u] /\ \A i : Exited(n, u, i) <=> Exited(st, u, i)
  BY <1>13, OthersSame
<1>20. NoExit(n)
  BY <1>8, <1>14, <1>19 DEF NoExit
<1>21. LockOwned(n)'
  <2>1. \A u \in Threads : Inside(n, u) => lockThread = u /\ lockCount = Level(n[u], Len(n[u]))
    BY <1>6, <1>18, <1>19 DEF LockOwned
  <2>2. lockCount > 0 => /\ lockThread \in Threads
                         /\ Inside(n, lockThread) \/ Has(q[lockThread], "unlock")
    <3>1. lockCount > 0 => /\ lockThread \in Threads
                           /\ Inside(st, lockThread) \/ Has(posted[lockThread], "unlock")
      BY <1>6 DEF LockOwned
    <3>2. QED BY <1>5, <1>18, <1>19, <3>1
  <2>3. QED BY <1>2, <1>9, <2>1, <2>2 DEF LockOwned
<1>22. HopPending(n)'
  <2>1. lockThread' # None /\ hopEvent' = t /\ lockThread' = lockThread /\ lockCount' = lockCount
    BY <1>2, <1>6, <1>7 DEF HopPending
  <2>2. \A u \in Threads : Inside(n, u) => Top(n, u) = "done"
    BY <1>6, <1>7, <1>18, <1>19 DEF HopPending
  <2>3. ASSUME NEW u \in Threads
        PROVE  /\ Once(q[u], "call") /\ Once(q[u], "unlock") /\ ~Has(q[u], "call")
               /\ Top(n, u) \in {"catch", "catchasleep"} => t = u
               /\ Has(q[u], "unlock") => /\ lockThread = u /\ lockCount > 0
                                         /\ Top(n, u) = "hopping" /\ t # u
    <3>1. Once(posted[u], "call") /\ Once(posted[u], "unlock")
      BY <1>6 DEF HopPending
    <3>2. ~Has(q[u], "call")
      BY <1>5, <1>6, <1>7, <3>1 DEF HopPending
    <3>3. Top(n, u) \in {"catch", "catchasleep"} => t = u
      BY <1>6, <1>7, <1>19 DEF HopPending
    <3>4. Has(q[u], "unlock") => /\ lockThread = u /\ lockCount > 0
                                 /\ Top(st, u) = "hopping" /\ t # u
      BY <1>5, <1>6, <1>7 DEF HopPending
    <3>5. QED BY <1>5, <1>19, <3>1, <3>2, <3>3, <3>4
  <2>4. QED BY <1>7, <1>9, <2>1, <2>2, <2>3 DEF HopPending
<1>23. HopEnded(n)'
  BY <1>20 DEF HopEnded, NoExit
<1>24. Running(n)'
  BY <1>2, <1>6, <1>18, <1>19, <1>20 DEF Running, NoExit
<1>25. NoReadyEvent(n)'
  <2>1. ASSUME Has(q[Owner], "ready")
        PROVE  Followed(q[Owner], "ready") /\ \A u \in Threads : ~InProgram(n, u)
    <3>1. Has(posted[Owner], "ready")
      BY <1>5, <2>1, OwnerAssumption
    <3>2. Followed(posted[Owner], "ready")
      BY <1>6, <1>7, <3>1 DEF NoReadyEvent
    <3>3. \A u \in Threads : ~InProgram(st, u)
      BY <1>6, <1>7, InProgramIs DEF HopPending
    <3>4. QED BY <1>5, <1>18, <1>19, <3>2, <3>3
  <2>2. QED BY <1>9, <1>20, <2>1 DEF NoReadyEvent, NoExit
<1>26. NoPause'
  BY <1>2, <1>6 DEF NoPause
<1>27. Lockers(stack)'
  BY <1>2, <1>17, <1>21, <1>22, <1>23, <1>24, <1>25, <1>26 DEF Lockers
<1>28. TypedNow'
  BY <1>2, <1>5, <1>9, <1>13 DEF TypedNow
<1>29. QED BY <1>27, <1>28

\* It waits for the lock to be free ...
LEMMA CatchWaitLockers ==
  ASSUME NEW st, Setting(st), NEW t \in Threads, CatchWait(t)
  PROVE  TypedNow' /\ Lockers(stack)'
<1> USE DEF Setting
<1> DEFINE n == Goto(st, t, "catchasleep")
<1>1. Top(st, t) = "catch" /\ stack' = n
  BY AtIs DEF CatchWait
<1>2. UNCHANGED <<lockCount, lockThread, rflag, hopEvent, hopLoop, pauseLoop, hookInfo, unwindStack,
                  resumeFlag, stopHook, posted, queuedSignals, session, emitted>>
  BY DEF CatchWait, lock, hop, flags, counters
<1>3. st[t] # <<>> /\ ~Inside(st, t)
  BY <1>1, TopIs DEF Lockers, Inside
<1>4. n \in Stacks /\ Quiet(st, n, t)
  BY <1>1, <1>3, QuietGoto DEF Ats
<1> HIDE DEF n
<1>5. Lockers(stack)'
  BY <1>1, <1>2, <1>4, QuietStep
<1>6. TypedNow'
  BY <1>1, <1>2, <1>4 DEF TypedNow
<1>7. QED BY <1>5, <1>6

\* ... and is run, or dropped when programs are being unwound.
LEMMA CatchRunLockers ==
  ASSUME NEW st, Setting(st), NEW t \in Threads, CatchRun(t)
  PROVE  TypedNow' /\ Lockers(stack)'
<1> USE DEF Setting
<1>1. Top(st, t) = "catch" /\ lockCount = 0 /\ lockThread' = t /\ hopEvent' = None
  BY AtIs DEF CatchRun
<1>2. UNCHANGED <<hopLoop, pauseLoop, hookInfo, unwindStack, resumeFlag, stopHook, queuedSignals,
                  session, emitted>>
  BY DEF CatchRun, flags, counters
<1>3. /\ HopPending(st) /\ LockOwned(st) /\ NoReadyEvent(st) /\ Shape(st)
      /\ HopEnded(st) /\ Running(st) /\ NoPause
  BY DEF Lockers
<1> DEFINE k == Len(st[t])
           m == Pop(st, t)
<1>4. /\ st[t] # <<>> /\ k \in Nat \ {0} /\ Lies(t, st[t], k) /\ st[t][k].kind = "catch"
  BY <1>1, <1>3, TopIs, KindOf
<1>5. Below(st[t], k) \in {"loop", "hopping"}
  BY <1>4 DEF Lies
<1>6. hopEvent = t /\ t # None
  BY <1>1, <1>3, OwnerAssumption DEF HopPending
<1>7. \A u \in Threads : ~Inside(st, u) /\ ~InProgram(st, u) /\ ~Has(posted[u], "unlock")
  BY <1>1, FreeIs
<1>8. \A u \in Threads : ~Has(posted[u], "call")
  BY <1>1, <1>3, <1>6 DEF HopPending
<1>9. NoExit(st)
  BY <1>3, <1>6 DEF HopEnded, NoExit
<1>10. \A u \in Threads \ {t} : Top(st, u) \notin {"catch", "catchasleep"}
  BY <1>3, <1>6 DEF HopPending
<1>11. ~Has(posted[Owner], "ready")
  <2>1. SUFFICES ASSUME Has(posted[Owner], "ready") PROVE FALSE
    OBVIOUS
  <2>2. Followed(posted[Owner], "ready")
    BY <1>3, <1>6, <2>1 DEF NoReadyEvent
  <2>3. PICK i \in 1 .. Len(posted[Owner]) : posted[Owner][i] = "ready"
    BY <2>1 DEF Has
  <2>4. PICK j \in i + 1 .. Len(posted[Owner]) : posted[Owner][j] \in {"call", "unlock"}
    BY <2>2, <2>3 DEF Followed
  <2>5. j \in 1 .. Len(posted[Owner])
    BY <2>3, <2>4
  <2>6. Has(posted[Owner], "call") \/ Has(posted[Owner], "unlock")
    BY <2>4, <2>5 DEF Has
  <2>7. QED BY <1>7, <1>8, <2>6, OwnerAssumption
<1>12. CASE unwindStack
  <2>1. CallDone(t, st) /\ rflag' = rflag
    BY <1>12 DEF CatchRun
  <2>2. rflag
    BY <1>3, <1>12 DEF Running
  <2>3. lockThread' \in Threads
    BY <1>1
  <2>4. stack' \in Stacks /\ posted' \in Queues /\ lockCount' = 0 /\ Lockers(stack)'
    BY <1>1, <1>2, <1>3, <1>4, <1>5, <1>7, <1>8, <1>9, <1>10, <1>11, <2>1, <2>2, <2>3, CallDoneIs
  <2>5. TypedNow'
    BY <1>1, <1>2, <2>1, <2>4 DEF TypedNow
  <2>6. QED BY <2>4, <2>5
<1>13. CASE ~unwindStack
  <2> DEFINE f == Frame("lua", "call")
             n == Push(m, t, f)
  <2>1. lockCount' = 1 /\ rflag' = TRUE /\ posted' = posted /\ stack' = n
    BY <1>13 DEF CatchRun
  <2>2. f \in Frames /\ f.at = "lua" /\ f.kind = "call" /\ f.exit = "no"
    BY FrameIs DEF Ats
  <2> HIDE DEF f
  <2>3. m \in Stacks /\ Len(m[t]) = k - 1 /\ \A u \in Threads \ {t} : m[u] = st[u]
    BY <1>4, PopIs
  <2>4. /\ Top(m, t) = Below(st[t], k)
        /\ \A i \in 1 .. k - 1 : Exited(m, t, i) <=> Exited(st, t, i)
    BY <1>4, PopEffect
  <2>5. Shape(m)
    BY <1>3, <1>4, PopShape
  <2> HIDE DEF m
  <2>6. n \in Stacks /\ \A u \in Threads \ {t} : n[u] = m[u]
    BY <2>2, <2>3, PushIs
  <2>7. /\ Top(n, t) = "lua" /\ Len(n[t]) = Len(m[t]) + 1 /\ n[t][Len(m[t]) + 1] = f
        /\ Below(n[t], Len(m[t]) + 1) = Top(m, t) /\ Len(m[t]) \in Nat
        /\ \A i \in 1 .. Len(m[t]) + 1 : Exited(n, t, i) => i \in 1 .. Len(m[t]) /\ Exited(m, t, i)
    BY <2>2, <2>3, PushEffect
  <2> HIDE DEF n
  <2>8. ~(Len(m[t]) + 1 < Len(n[t]))
    BY <2>7
  <2>9. Lies(t, n[t], Len(m[t]) + 1)
    BY <1>5, <2>2, <2>4, <2>7, <2>8 DEF Lies, LockerKinds
  <2>10. Shape(n)
    BY <1>5, <2>2, <2>3, <2>4, <2>5, <2>9, PushShape DEF n
  <2>11. Inside(n, t) /\ Level(n[t], Len(n[t])) = 1 /\ n[t][Len(n[t])].kind = "call"
    BY <2>2, <2>7 DEF Inside, Level, LockerKinds
  <2>12. \A u \in Threads \ {t} : n[u] = st[u]
    BY <2>3, <2>6
  <2>13. \A u \in Threads \ {t} : /\ Top(n, u) = Top(st, u) /\ (Inside(n, u) <=> Inside(st, u))
                                 /\ \A i : Exited(n, u, i) <=> Exited(st, u, i)
    BY <2>12, OthersSame
  <2>14. NoExit(n)
    <3>1. \A i \in 1 .. k - 1 : i \in 1 .. Len(st[t])
      BY <1>4
    <3>2. \A i \in 1 .. Len(n[t]) : ~Exited(n, t, i)
      BY <1>9, <2>3, <2>4, <2>7, <3>1 DEF NoExit
    <3>3. QED BY <1>9, <2>12, <2>13, <3>2 DEF NoExit
  <2>15. NoHop(n)'
    BY <1>1, <1>7, <1>8, <1>10, <2>1, <2>7, <2>13 DEF NoHop
  <2>16. NoPause'
    BY <1>2, <1>3 DEF NoPause
  <2>17. lockThread' = t /\ lockCount' = Level(n[t], Len(n[t])) /\ rflag' /\ posted' = posted
    BY <1>1, <2>1, <2>11
  <2>18. Busy(n, t)'
    BY <1>7, <1>11, <2>10, <2>11, <2>13, <2>14, <2>15, <2>16, <2>17 DEF Busy
  <2>19. BusyHolds'
    BY BusyIs, PTL
  <2>20. Lockers(stack)'
    BY <2>1, <2>6, <2>18, <2>19 DEF BusyHolds
  <2>21. TypedNow'
    BY <1>1, <1>2, <2>1, <2>6 DEF TypedNow
  <2>22. QED BY <2>20, <2>21
<1>14. QED BY <1>12, <1>13

\* A program ends: a call goes back where it came from.
LEMMA LuaEndsLockers ==
  ASSUME NEW st, Setting(st), NEW t \in Threads, LuaEnds(t)
  PROVE  TypedNow' /\ Lockers(stack)'
<1> USE DEF Setting
<1> DEFINE k == Len(st[t])
           n == Pop(st, t)
<1>1. Top(st, t) \in {"lua", "stopped"}
  BY AtIs DEF LuaEnds
<1>2. UNCHANGED <<lockThread, rflag, hopEvent, hopLoop, pauseLoop, hookInfo, unwindStack, resumeFlag,
                  stopHook, queuedSignals, session, emitted>>
  BY DEF LuaEnds, hop, flags, counters
<1>3. /\ HopPending(st) /\ LockOwned(st) /\ NoReadyEvent(st) /\ Shape(st)
      /\ HopEnded(st) /\ Running(st) /\ NoPause
  BY DEF Lockers
<1>4. /\ st[t] # <<>> /\ k \in Nat \ {0} /\ Lies(t, st[t], k)
      /\ st[t][k].at \in {"lua", "stopped"} /\ st[t][k].kind \in {"here", "call", "signal"}
  BY <1>1, <1>3, TopIs, KindOf
<1>5. Inside(st, t) /\ InProgram(st, t)
  BY <1>1 DEF Inside, InProgram
<1>6. /\ lockThread = t /\ lockCount = Level(st[t], k) /\ hopEvent = None /\ NoExit(st)
      /\ \A u \in Threads \ {t} : ~Inside(st, u)
  BY <1>1, <1>5, InsideIs
<1>7. NoHop(st)
  BY <1>6, NoHopIs
<1>8. Kind(t) = st[t][k].kind
  BY <1>4, AtIs
<1>9. CASE Kind(t) = "call"
  <2>1. CallDone(t, st)
    BY <1>9 DEF LuaEnds
  <2>2. Below(st[t], k) \in {"loop", "hopping"}
    BY <1>4, <1>8, <1>9 DEF Lies
  <2>3. ~Has(posted[Owner], "ready")
    BY <1>3, <1>5, <1>8, <1>9 DEF NoReadyEvent
  <2>4. rflag
    BY <1>3, <1>5 DEF Running
  <2>5. lockThread' \in Threads /\ hopEvent' = None
    BY <1>2, <1>6
  <2>6. /\ \A u \in Threads \ {t} : ~Inside(st, u) /\ Top(st, u) \notin {"catch", "catchasleep"}
        /\ \A u \in Threads : ~Has(posted[u], "call") /\ ~Has(posted[u], "unlock")
    BY <1>6, <1>7 DEF NoHop
  <2>7. stack' \in Stacks /\ posted' \in Queues /\ lockCount' = 0 /\ Lockers(stack)'
    BY <1>2, <1>3, <1>4, <1>6, <2>1, <2>2, <2>3, <2>4, <2>5, <2>6, CallDoneIs
  <2>8. TypedNow'
    BY <1>2, <2>5, <2>7 DEF TypedNow
  <2>9. QED BY <2>7, <2>8
<1>10. CASE Kind(t) # "call"
  <2>1. stack' = n /\ UNCHANGED <<lockCount, posted>>
    BY <1>10 DEF LuaEnds
  <2>2. Below(st[t], k) \in {"done", "signals"} /\ k > 1
    <3>1. st[t][k].kind \in {"here", "signal"}
      BY <1>4, <1>8, <1>10
    <3>2. Below(st[t], k) \in {"done", "signals"}
      BY <1>4, <3>1 DEF Lies
    <3>3. k # 1
      BY <3>2 DEF Below
    <3>4. k \in Nat \ {0}
      BY <1>4
    <3>5. k > 1
      <4> HIDE DEF k, Setting
      <4>1. QED BY <3>3, <3>4
    <3>6. QED BY <3>2, <3>5
  <2>3. Level(st[t], k - 1) = Level(st[t], k)
    <3>1. k - 1 \in 1 .. Len(st[t]) /\ st[t][k - 1].at = Below(st[t], k)
      BY <1>4, <2>2 DEF Below
    <3>2. CASE st[t][k].kind = "here"
      <4>1. st[t][k - 1].at = "done" /\ st[t][k - 1].kind \in LockerKinds
        BY <1>3, <1>4, <3>1, <3>2, KindOf DEF Lies
      <4>2. QED BY <3>2, <4>1 DEF Level, LockerKinds
    <3>3. CASE st[t][k].kind = "signal"
      <4>1. st[t][k - 1].kind = "slot"
        BY <1>3, <1>4, <3>1, <3>3, KindOf DEF Lies
      <4>2. QED BY <3>3, <4>1 DEF Level, LockerKinds
    <3>4. QED BY <1>4, <1>8, <1>10, <3>2, <3>3
  <2>4. n \in Stacks /\ Quiet(st, n, t)
    BY <1>1, <1>4, <1>5, <1>6, <2>2, <2>3, QuietPop
  <2> HIDE DEF n
  <2>5. Lockers(stack)'
    BY <1>2, <2>1, <2>4, QuietStep
  <2>6. TypedNow'
    BY <1>2, <2>1, <2>4 DEF TypedNow
  <2>7. QED BY <2>5, <2>6
<1>11. QED BY <1>9, <1>10

\* The hook that stop has installed: only stops that unwind are asked for here.
LEMMA StopHookLockers ==
  ASSUME NEW st, Setting(st), NEW t \in Threads, StopHook(t)
  PROVE  TypedNow' /\ Lockers(stack)'
<1> USE DEF Setting
<1> DEFINE n == Goto(st, t, "stopped")
<1>1. Top(st, t) = "lua" /\ stopHook /\ stopHook' = FALSE
  BY AtIs DEF StopHook
<1>2. NoPause
  BY DEF Lockers
<1>3. unwindStack /\ ~CanPause
  BY <1>1, <1>2 DEF NoPause, CanPause
<1>4. /\ stack' = n
      /\ UNCHANGED <<lockCount, lockThread, rflag, hopEvent, hopLoop, pauseLoop, hookInfo, unwindStack,
                     resumeFlag, posted, queuedSignals, session, emitted>>
  BY <1>3 DEF StopHook, lock, hop, counters
<1>5. st[t] # <<>> /\ Inside(st, t)
  BY <1>1, TopIs DEF Lockers, Inside
<1>6. hopEvent = None
  BY <1>1, <1>5, InsideIs
<1>7. n \in Stacks /\ Quiet(st, n, t)
  BY <1>1, <1>5, <1>6, QuietGoto DEF Ats
<1> HIDE DEF n
<1>8. Lockers(n)
  BY <1>7, QuietIs DEF QuietHolds
<1>9. /\ HopPending(n) /\ LockOwned(n) /\ NoReadyEvent(n) /\ Shape(n)
      /\ HopEnded(n) /\ Running(n)
  BY <1>8 DEF Lockers
<1>10. LockOwned(n)'
  BY <1>4, <1>9 DEF LockOwned
<1>11. HopPending(n)'
  BY <1>4, <1>9 DEF HopPending
<1>12. HopEnded(n)'
  BY <1>4, <1>9 DEF HopEnded
<1>13. Running(n)'
  BY <1>4, <1>9 DEF Running
<1>14. NoReadyEvent(n)'
  BY <1>4, <1>9 DEF NoReadyEvent
<1>15. NoPause'
  BY <1>1, <1>2, <1>4 DEF NoPause
<1>16. Lockers(n)'
  BY <1>9, <1>10, <1>11, <1>12, <1>13, <1>14, <1>15 DEF Lockers
<1>17. Lockers(stack)'
  BY <1>4, <1>16
<1>18. TypedNow'
  BY <1>1, <1>4, <1>7 DEF TypedNow
<1>19. QED BY <1>17, <1>18

\* A program calls an object's method in the object's thread.
LEMMA LuaHopLockers ==
  ASSUME NEW st, Setting(st), NEW t \in Threads, NEW u \in Threads, LuaHop(t, u)
  PROVE  TypedNow' /\ Lockers(stack)'
<1> USE DEF Setting
<1>1. Top(st, t) = "lua" /\ t # u /\ HopTo(t, u, st)
  BY AtIs DEF LuaHop
<1>2. UNCHANGED <<lockCount, lockThread, rflag, pauseLoop, hookInfo, unwindStack, resumeFlag,
                  stopHook, queuedSignals, session, emitted>>
  BY DEF LuaHop, lock, flags
<1>3. Inside(st, t) /\ InProgram(st, t) /\ Shape(st) /\ NoReadyEvent(st)
  BY <1>1 DEF Inside, InProgram, Lockers
<1>4. hopEvent = None /\ NoExit(st)
  BY <1>1, <1>3, InsideIs
<1>5. Has(posted[Owner], "ready") => Owner \in {t, u}
  BY <1>3 DEF NoReadyEvent
<1>6. Top(st, t) \in {"done", "lua"}
  BY <1>1
<1>7. /\ stack' \in Stacks /\ posted' \in Queues /\ Lockers(stack)'
      /\ hopEvent' \in Threads /\ hopLoop' \in Loops
  BY <1>1, <1>2, <1>3, <1>4, <1>5, <1>6, HopToIs
<1>8. TypedNow'
  BY <1>2, <1>7 DEF TypedNow
<1>9. QED BY <1>7, <1>8

\* stop, with the program to be unwound.
LEMMA StopLockers ==
  ASSUME NEW st, Setting(st), pauseLoop = NoLoop, rflag, StopHelper(TRUE),
         UNCHANGED <<lockCount, lockThread, rflag, hopEvent, hopLoop, pauseLoop, hookInfo, resumeFlag,
                     posted, queuedSignals, session, emitted>>
  PROVE  TypedNow' /\ Lockers(stack)'
<1> USE DEF Setting
<1>1. unwindStack' = TRUE /\ stopHook' = TRUE /\ stack' = st
  BY DEF StopHelper, TypedNow
<1>2. /\ HopPending(st) /\ LockOwned(st) /\ NoReadyEvent(st) /\ Shape(st)
      /\ HopEnded(st) /\ Running(st)
  BY DEF Lockers
<1>3. LockOwned(st)'
  BY <1>2 DEF LockOwned
<1>4. HopPending(st)'
  BY <1>2 DEF HopPending
<1>5. HopEnded(st)'
  BY <1>2 DEF HopEnded
<1>6. Running(st)'
  BY <1>2 DEF Running
<1>7. NoReadyEvent(st)'
  BY <1>2 DEF NoReadyEvent
<1>8. NoPause'
  BY <1>1 DEF NoPause
<1>9. Lockers(st)'
  BY <1>2, <1>3, <1>4, <1>5, <1>6, <1>7, <1>8 DEF Lockers
<1>10. Lockers(stack)'
  BY <1>1, <1>9
<1>11. TypedNow'
  BY <1>1 DEF TypedNow
<1>12. QED BY <1>10, <1>11

\* The slot ends outside of any pause: nobody has the lock, and the engine is ready.
LEMMA SlotEndsIs ==
  ASSUME TypedNow, NEW m \in Stacks, NEW q \in Queues, NEW r \in BOOLEAN,
         Shape(m), NoExit(m), hopEvent = None, pauseLoop = NoLoop,
         \A u \in Threads : ~Inside(m, u) /\ Top(m, u) \notin {"catch", "catchasleep"},
         \A u \in Threads : ~Has(q[u], "call") /\ ~Has(q[u], "unlock"),
         queuedSignals' \in Nat, queuedSignals' <= emitted,
         UNCHANGED <<hopEvent, hopLoop, session, emitted>>,
         SlotEnds(NoLoop, r, q, m)
  PROVE  TypedNow' /\ Lockers(stack)'
<1>1. /\ lockCount' = 0 /\ lockThread' = None /\ resumeFlag' = r /\ pauseLoop' = NoLoop
      /\ hookInfo' = FALSE /\ unwindStack' = FALSE /\ rflag' = FALSE /\ stopHook' = FALSE
      /\ stack' \in WakeLocker(m)
  BY DEF SlotEnds, BecomeReady
<1>2. PICK p : p = IF queuedSignals' = 0 THEN q ELSE Post(q, Owner, "queue")
  OBVIOUS
<1>3. posted' = p
  BY <1>2 DEF SlotEnds
<1>4. p \in Queues /\ \A u \in Threads : ~Has(p[u], "call") /\ ~Has(p[u], "unlock")
  <2>1. CASE p = q
    BY <2>1
  <2>2. CASE p = Post(q, Owner, "queue")
    <3>1. Owner \in Threads /\ "queue" \in Events
      BY OwnerAssumption DEF Events
    <3>2. p \in Queues
      BY <2>2, <3>1, PostIn
    <3>3. \A u \in Threads : \A d : Has(p[u], d) <=> Has(q[u], d) \/ (u = Owner /\ d = "queue")
      BY <2>2, <3>1, PostIs
    <3>4. QED BY <3>2, <3>3
  <2>3. QED BY <1>2, <2>1, <2>2
<1>5. NoHop(m)'
  BY <1>3, <1>4 DEF NoHop
<1>6. NoPause'
  BY <1>1 DEF NoPause
<1>7. Idle(m)'
  BY <1>1, <1>5, <1>6 DEF Idle
<1>8. IdleHolds' /\ WakeHolds'
  BY IdleIs, WakeIs, PTL
<1>9. Lockers(m)'
  BY <1>7, <1>8 DEF IdleHolds
<1>10. stack' \in Stacks /\ Lockers(stack)'
  BY <1>1, <1>8, <1>9 DEF WakeHolds
<1>11. TypedNow'
  BY <1>1, <1>3, <1>4, <1>10 DEF TypedNow, Loops
<1>12. QED BY <1>10, <1>11

\* The handlers are called one by one, from a slot of the owner's event loop.
LEMMA QueueSubIs ==
  ASSUME NEW st, Setting(st), lockCount = 0, hopEvent = None, NoExit(st), pauseLoop = NoLoop,
         Top(st, Owner) \in {"loop", "hopping"}, NEW q \in Queues,
         \A u \in Threads : ~Has(q[u], "call") /\ ~Has(q[u], "unlock"),
         UNCHANGED <<hopEvent, hopLoop, session, emitted>>,
         QueueSub(NoLoop, q)
  PROVE  TypedNow' /\ Lockers(stack)'
<1> USE DEF Setting
<1>1. Shape(st) /\ NoPause /\ Owner \in Threads
  BY OwnerAssumption DEF Lockers
<1>2. \A u \in Threads : ~Inside(st, u)
  BY FreeIs
<1>3. \A u \in Threads : Top(st, u) \notin {"catch", "catchasleep"}
  BY NoHopIs DEF NoHop
<1>4. queuedSignals' = 0 /\ emitted \in Nat /\ queuedSignals \in Nat
  BY DEF QueueSub, TypedNow
<1>5. CASE queuedSignals > 0 /\ ~unwindStack
  <2>0. PICK x : x = queuedSignals - 1
    OBVIOUS
  <2> DEFINE f == [Frame("signals", "slot") EXCEPT !.left = x, !.loop = NoLoop]
             g == Frame("lua", "signal")
             m == Push(st, Owner, f)
             n == Push(m, Owner, g)
  <2>1. /\ lockCount' = 1 /\ lockThread' = Owner /\ posted' = q /\ rflag' = TRUE
        /\ stack' = n /\ pauseLoop' = NoLoop /\ resumeFlag' = (resumeFlag /\ NoLoop = NoLoop)
        /\ UNCHANGED <<hookInfo, unwindStack, stopHook>>
    BY <1>5, <2>0 DEF QueueSub
  <2>2. f \in Frames /\ f.at = "signals" /\ f.kind = "slot" /\ f.exit = "no" /\ f.loop = NoLoop
    <3>1. PICK h : h = Frame("signals", "slot")
      OBVIOUS
    <3>2. h \in Frames /\ h.at = "signals" /\ h.kind = "slot" /\ h.exit = "no"
      BY <3>1, FrameIs DEF Ats
    <3>3. x \in Nat /\ NoLoop \in Loops
      BY <1>4, <1>5, <2>0 DEF Loops
    <3>4. f = [h EXCEPT !.left = x, !.loop = NoLoop]
      BY <3>1
    <3>5. QED BY <3>2, <3>3, <3>4 DEF Frames
  <2>3. g \in Frames /\ g.at = "lua" /\ g.kind = "signal" /\ g.exit = "no"
    BY FrameIs DEF Ats
  <2> HIDE DEF f, g
  <2>4. m \in Stacks /\ \A u \in Threads \ {Owner} : m[u] = st[u]
    BY <1>1, <2>2, PushIs
  <2>5. /\ Top(m, Owner) = "signals" /\ Len(m[Owner]) = Len(st[Owner]) + 1
        /\ m[Owner][Len(st[Owner]) + 1] = f
        /\ Below(m[Owner], Len(st[Owner]) + 1) = Top(st, Owner) /\ Len(st[Owner]) \in Nat
        /\ \A i \in 1 .. Len(st[Owner]) + 1 : Exited(m, Owner, i) =>
             i \in 1 .. Len(st[Owner]) /\ Exited(st, Owner, i)
    BY <1>1, <2>2, PushEffect
  <2> HIDE DEF m
  <2>6. ~(Len(st[Owner]) + 1 < Len(m[Owner]))
    BY <2>5
  <2>7. Lies(Owner, m[Owner], Len(st[Owner]) + 1)
    BY <2>2, <2>5, <2>6 DEF Lies, LockerKinds
  <2>8. Shape(m)
    BY <1>1, <2>2, <2>7, PushShape DEF m
  <2>9. n \in Stacks /\ \A u \in Threads \ {Owner} : n[u] = m[u]
    BY <1>1, <2>3, <2>4, PushIs
  <2>10. /\ Top(n, Owner) = "lua" /\ Len(n[Owner]) = Len(m[Owner]) + 1
         /\ n[Owner][Len(m[Owner]) + 1] = g
         /\ Below(n[Owner], Len(m[Owner]) + 1) = Top(m, Owner) /\ Len(m[Owner]) \in Nat
         /\ \A i \in 1 .. Len(m[Owner]) + 1 : Exited(n, Owner, i) =>
              i \in 1 .. Len(m[Owner]) /\ Exited(m, Owner, i)
    BY <1>1, <2>3, <2>4, PushEffect
  <2> HIDE DEF n
  <2>11. ~(Len(m[Owner]) + 1 < Len(n[Owner]))
    BY <2>10
  <2>12. Lies(Owner, n[Owner], Len(m[Owner]) + 1)
    BY <2>3, <2>5, <2>10, <2>11 DEF Lies, LockerKinds
  <2>13. Shape(n)
    BY <1>1, <2>3, <2>4, <2>5, <2>8, <2>12, PushShape DEF n
  <2>14. /\ Inside(n, Owner) /\ Level(n[Owner], Len(n[Owner])) = 1
         /\ n[Owner][Len(n[Owner])].kind = "signal"
    BY <2>3, <2>10 DEF Inside, Level, LockerKinds
  <2>15. \A u \in Threads \ {Owner} : n[u] = st[u]
    BY <2>4, <2>9
  <2>16. \A u \in Threads \ {Owner} : /\ Top(n, u) = Top(st, u) /\ (Inside(n, u) <=> Inside(st, u))
                                      /\ n[u] = st[u] /\ \A i : Exited(n, u, i) <=> Exited(st, u, i)
    BY <1>1, <2>15, OthersSame
  <2>17. NoExit(n)
    <3>1. \A i \in 1 .. Len(n[Owner]) : ~Exited(n, Owner, i)
      BY <1>1, <2>5, <2>10 DEF NoExit
    <3>2. QED BY <2>16, <3>1 DEF NoExit
  <2>18. NoHop(n)'
    <3>1. hopEvent' = None /\ posted' = q
      BY <2>1
    <3>2. \A u \in Threads : Top(n, u) \notin {"catch", "catchasleep"}
      BY <1>3, <2>10, <2>16
    <3>3. QED BY <3>1, <3>2 DEF NoHop
  <2>19. NoPause'
    BY <1>1, <2>1 DEF NoPause
  <2>20. Busy(n, Owner)'
    <3>1. \A u \in Threads \ {Owner} : ~Inside(n, u)
      BY <1>2, <2>16
    <3>2. lockThread' = Owner /\ lockCount' = Level(n[Owner], Len(n[Owner])) /\ rflag'
      BY <2>1, <2>14
    <3>3. QED BY <2>13, <2>14, <2>17, <2>18, <2>19, <3>1, <3>2 DEF Busy
  <2>21. BusyHolds'
    BY BusyIs, PTL
  <2>22. Lockers(stack)'
    BY <1>1, <2>1, <2>9, <2>20, <2>21 DEF BusyHolds
  <2>23. TypedNow'
    BY <1>1, <1>4, <2>1, <2>9 DEF TypedNow, Loops
  <2>24. QED BY <2>22, <2>23
<1>6. CASE ~(queuedSignals > 0 /\ ~unwindStack)
  <2>1. SlotEnds(NoLoop, resumeFlag /\ NoLoop = NoLoop, q, st)
    BY <1>6 DEF QueueSub
  <2>2. (resumeFlag /\ NoLoop = NoLoop) \in BOOLEAN
    OBVIOUS
  <2>3. queuedSignals' \in Nat /\ queuedSignals' <= emitted
    BY <1>4
  <2>4. QED BY <1>1, <1>2, <1>3, <2>1, <2>2, <2>3, SlotEndsIs
<1>7. QED BY <1>5, <1>6

\* Events that are not about hops nor make the engine ready come and go.
LEMMA QueueStep ==
  ASSUME NEW st \in Stacks, Lockers(st), NEW q, posted' = q,
         \A u \in Threads : \A d \in {"call", "unlock"} :
            (Has(q[u], d) <=> Has(posted[u], d)) /\ (Once(posted[u], d) => Once(q[u], d)),
         Has(q[Owner], "ready") => Has(posted[Owner], "ready"),
         Followed(posted[Owner], "ready") => Followed(q[Owner], "ready"),
         UNCHANGED <<lockCount, lockThread, rflag, hopEvent, hopLoop, pauseLoop, unwindStack,
                     stopHook>>
  PROVE  Lockers(st)'
<1>1. /\ HopPending(st) /\ LockOwned(st) /\ NoReadyEvent(st) /\ Shape(st)
      /\ HopEnded(st) /\ Running(st) /\ NoPause
  BY DEF Lockers
<1>2. LockOwned(st)'
  BY <1>1 DEF LockOwned
<1>3. HopPending(st)'
  BY <1>1 DEF HopPending
<1>4. HopEnded(st)'
  BY <1>1 DEF HopEnded
<1>5. Running(st)'
  BY <1>1 DEF Running
<1>6. NoReadyEvent(st)'
  BY <1>1 DEF NoReadyEvent
<1>7. NoPause'
  BY <1>1 DEF NoPause
<1>8. QED BY <1>1, <1>2, <1>3, <1>4, <1>5, <1>6, <1>7 DEF Lockers

\* A Qt signal that Lua is connected to.
LEMMA EmitLockers ==
  ASSUME NEW st, Setting(st), Emit
  PROVE  TypedNow' /\ Lockers(stack)'
<1> USE DEF Setting
<1>1. /\ UNCHANGED <<lockCount, lockThread, rflag, hopEvent, hopLoop, pauseLoop, hookInfo, unwindStack,
                     resumeFlag, stopHook, session>>
      /\ stack' = st
  BY DEF Emit, lock, hop, flags
<1>2. PICK q : q = IF queuedSignals = 0 THEN Post(posted, Owner, "queue") ELSE posted
  OBVIOUS
<1>3. posted' = q
  BY <1>2 DEF Emit
<1>4. posted \in Queues /\ Owner \in Threads /\ "queue" \in Events
  BY OwnerAssumption DEF TypedNow, Events
<1>5. q \in Queues
  BY <1>2, <1>4, PostIn
<1>6. Lockers(st)'
  <2>1. CASE q = posted
    BY <1>1, <1>3, <2>1, QueueStep
  <2>2. CASE q = Post(posted, Owner, "queue")
    <3>1. \A u \in Threads : \A d : Has(q[u], d) <=> Has(posted[u], d) \/ (u = Owner /\ d = "queue")
      BY <1>4, <2>2, PostIs
    <3>2. \A u \in Threads : \A d :
            Once(posted[u], d) /\ (u = Owner /\ d = "queue" => ~Has(posted[u], d)) => Once(q[u], d)
      BY <1>4, <2>2, PostIs
    <3>3. Followed(posted[Owner], "ready") => Followed(q[Owner], "ready")
      BY <1>4, <2>2, PostIs
    <3>4. \A u \in Threads : \A d \in {"call", "unlock"} :
            (Has(q[u], d) <=> Has(posted[u], d)) /\ (Once(posted[u], d) => Once(q[u], d))
      BY <3>1, <3>2
    <3>5. Has(q[Owner], "ready") => Has(posted[Owner], "ready")
      BY <1>4, <3>1
    <3>6. QED BY <1>1, <1>3, <3>3, <3>4, <3>5, QueueStep
  <2>3. QED BY <1>2, <2>1, <2>2
<1>7. Lockers(stack)'
  BY <1>1, <1>6
<1>8. emitted' \in 0 .. MaxSignals /\ queuedSignals' \in Nat /\ queuedSignals' <= emitted'
  <2>1. /\ emitted < MaxSignals /\ emitted' = emitted + 1 /\ queuedSignals' = queuedSignals + 1
        /\ emitted \in 0 .. MaxSignals /\ queuedSignals \in Nat /\ queuedSignals <= emitted
    BY DEF Emit, TypedNow
  <2>2. MaxSignals \in Nat
    BY BoundsAssumption
  <2>3. QED BY <2>1, <2>2
<1>9. TypedNow'
  <2>1. /\ lockCount' \in Nat /\ lockThread' \in Threads \cup {None}
        /\ hopEvent' \in Threads \cup {None}
        /\ rflag' \in BOOLEAN /\ hookInfo' \in BOOLEAN /\ unwindStack' \in BOOLEAN
        /\ resumeFlag' \in BOOLEAN /\ stopHook' \in BOOLEAN
        /\ hopLoop' \in Loops /\ pauseLoop' \in Loops /\ session' \in Sessions
    BY <1>1 DEF TypedNow
  <2>2. stack' \in Stacks /\ posted' \in Queues
    BY <1>1, <1>3, <1>5
  <2>3. QED BY <1>8, <2>1, <2>2 DEF TypedNow
<1>10. QED BY <1>7, <1>9

\* A slot goes on to its next signal.
Fewer(st, t) == [st EXCEPT ![t][Len(st[t])].left = @ - 1]

LEMMA LeftIs ==
  ASSUME NEW st \in Stacks, NEW t \in Threads, st[t] # <<>>, st[t][Len(st[t])].left > 0
  PROVE  /\ Fewer(st, t) \in Stacks
         /\ \A u \in Threads : /\ Len(Fewer(st, t)[u]) = Len(st[u])
                               /\ \A i \in 1 .. Len(st[u]) :
                                    /\ SameFrame(Fewer(st, t)[u][i], st[u][i])
                                    /\ Fewer(st, t)[u][i].exit = st[u][i].exit
<1> DEFINE k == Len(st[t])
           f == [st[t][k] EXCEPT !.left = @ - 1]
           s == [st[t] EXCEPT ![k] = f]
           n == Fewer(st, t)
<1>1. k \in Nat \ {0} /\ st[t] \in Seq(Frames) /\ st[t][k] \in Frames
  <2>1. st[t] \in Seq(Frames) /\ Len(st[t]) \in Nat /\ Len(st[t]) # 0
    BY StackIs DEF Stacks
  <2>2. QED BY <2>1
<1>2. f \in Frames /\ SameFrame(f, st[t][k]) /\ f.exit = st[t][k].exit
  <2>1. PICK g \in Frames : g = st[t][k]
    BY <1>1
  <2>2. g.left \in Nat /\ g.left > 0
    BY <2>1 DEF Frames
  <2>3. g.left - 1 \in Nat
    BY <2>2
  <2>4. f = [g EXCEPT !.left = @ - 1]
    BY <2>1
  <2>5. f \in Frames /\ SameFrame(f, g) /\ f.exit = g.exit
    BY <2>3, <2>4 DEF Frames, SameFrame
  <2>6. QED BY <2>1, <2>5
<1>3. n = [st EXCEPT ![t] = s]
  BY DEF Fewer
<1> HIDE DEF f, n
<1>4. s \in Seq(Frames) /\ Len(s) = k /\ \A i \in 1 .. k : s[i] = IF i = k THEN f ELSE st[t][i]
  BY <1>1, <1>2
<1> HIDE DEF s
<1>5. n \in Stacks /\ n[t] = s /\ \A u \in Threads \ {t} : n[u] = st[u]
  BY <1>3, <1>4 DEF Stacks
<1>6. \A i \in 1 .. k : SameFrame(n[t][i], st[t][i]) /\ n[t][i].exit = st[t][i].exit
  BY <1>2, <1>4, <1>5 DEF SameFrame
<1>7. \A u \in Threads \ {t} : \A i \in 1 .. Len(st[u]) :
         SameFrame(n[u][i], st[u][i]) /\ n[u][i].exit = st[u][i].exit
  BY <1>5 DEF SameFrame
<1>8. QED BY <1>4, <1>5, <1>6, <1>7 DEF n

\* The handler of one signal has returned; the next one is called, or the slot ends.
LEMMA NextSignalLockers ==
  ASSUME NEW st, Setting(st), NextSignal
  PROVE  TypedNow' /\ Lockers(stack)'
<1> USE DEF Setting
<1> DEFINE k == Len(st[Owner])
<1>0. Last(stack[Owner]) = st[Owner][k]
  BY AtIs
<1>1. /\ HopPending(st) /\ LockOwned(st) /\ NoReadyEvent(st) /\ Shape(st)
      /\ HopEnded(st) /\ Running(st) /\ NoPause /\ Owner \in Threads
  BY OwnerAssumption DEF Lockers
<1>2. Top(st, Owner) = "signals" /\ UNCHANGED <<hopEvent, hopLoop, session, emitted>>
  BY AtIs DEF NextSignal, hop, counters
<1>3. /\ st[Owner] # <<>> /\ k \in Nat \ {0} /\ Lies(Owner, st[Owner], k)
      /\ st[Owner][k].at = "signals" /\ st[Owner][k].kind = "slot"
  <2>1. /\ st[Owner] # <<>> /\ k \in Nat \ {0} /\ Lies(Owner, st[Owner], k)
        /\ st[Owner][k].at = "signals"
    BY <1>1, <1>2, TopIs
  <2>2. k \in 1 .. Len(st[Owner])
    BY <2>1
  <2>3. QED BY <1>1, <2>1, <2>2, KindOf
<1>4. Inside(st, Owner)
  BY <1>2 DEF Inside
<1>5. Level(st[Owner], k) = 1 /\ st[Owner][k].loop = NoLoop /\ Below(st[Owner], k) \in {"loop", "hopping"}
  BY <1>3 DEF Level, Lies, LockerKinds
<1>6. /\ lockThread = Owner /\ lockCount = 1 /\ hopEvent = None /\ NoExit(st)
      /\ \A u \in Threads \ {Owner} : ~Inside(st, u)
  BY <1>1, <1>2, <1>4, <1>5, InsideIs
<1>7. NoHop(st)
  BY <1>6, NoHopIs
<1>8. CASE st[Owner][k].left > 0 /\ ~unwindStack /\ pauseLoop = NoLoop
  <2> DEFINE g == Frame("lua", "signal")
  <2> DEFINE m == Fewer(st, Owner)
             n == Push(m, Owner, g)
  <2>2. stack' = n /\ rflag' = TRUE
    BY <1>0, <1>8 DEF NextSignal, Fewer
  <2>3. UNCHANGED <<lockCount, lockThread, pauseLoop, hookInfo, unwindStack, resumeFlag, stopHook,
                    queuedSignals, posted>>
    BY <1>0, <1>8 DEF NextSignal, lock, flags
  <2>4. g \in Frames /\ g.at = "lua" /\ g.kind = "signal" /\ g.exit = "no"
    BY FrameIs DEF Ats
  <2> HIDE DEF g
  <2>5. /\ m \in Stacks
        /\ \A u \in Threads : /\ Len(m[u]) = Len(st[u])
                              /\ \A i \in 1 .. Len(st[u]) : /\ SameFrame(m[u][i], st[u][i])
                                                            /\ m[u][i].exit = st[u][i].exit
    BY <1>1, <1>3, <1>8, LeftIs
  <2> HIDE DEF m
  <2>6. /\ Shape(m)
        /\ \A u \in Threads : Top(m, u) = Top(st, u) /\ (Inside(m, u) <=> Inside(st, u))
    BY <1>1, <2>5, ExitShape
  <2>7. NoExit(m)
    BY <1>6, <2>5 DEF NoExit, Exited, SameFrame
  <2>8. n \in Stacks /\ \A u \in Threads \ {Owner} : n[u] = m[u]
    BY <1>1, <2>4, <2>5, PushIs
  <2>9. /\ Top(n, Owner) = "lua" /\ Len(n[Owner]) = Len(m[Owner]) + 1
        /\ n[Owner][Len(m[Owner]) + 1] = g
        /\ Below(n[Owner], Len(m[Owner]) + 1) = Top(m, Owner) /\ Len(m[Owner]) \in Nat
        /\ \A i \in 1 .. Len(m[Owner]) + 1 : Exited(n, Owner, i) =>
             i \in 1 .. Len(m[Owner]) /\ Exited(m, Owner, i)
    BY <1>1, <2>4, <2>5, PushEffect
  <2> HIDE DEF n
  <2>10. ~(Len(m[Owner]) + 1 < Len(n[Owner]))
    BY <2>9
  <2>11. Lies(Owner, n[Owner], Len(m[Owner]) + 1)
    BY <1>1, <1>2, <2>4, <2>6, <2>9, <2>10 DEF Lies, LockerKinds
  <2>12. Shape(n)
    <3>1. Top(m, Owner) = "signals"
      BY <1>1, <1>2, <2>6
    <3>2. QED BY <1>1, <2>4, <2>5, <2>6, <2>11, <3>1, PushShape DEF n
  <2>13. /\ Inside(n, Owner) /\ Level(n[Owner], Len(n[Owner])) = 1
         /\ n[Owner][Len(n[Owner])].kind = "signal"
    BY <2>4, <2>9 DEF Inside, Level, LockerKinds
  <2>14. \A u \in Threads \ {Owner} : /\ Top(n, u) = Top(m, u) /\ (Inside(n, u) <=> Inside(m, u))
                                      /\ n[u] = m[u] /\ \A i : Exited(n, u, i) <=> Exited(m, u, i)
    BY <1>1, <2>8, OthersSame
  <2>15. NoExit(n)
    <3>1. \A i \in 1 .. Len(n[Owner]) : ~Exited(n, Owner, i)
      BY <1>1, <2>7, <2>9 DEF NoExit
    <3>2. QED BY <2>7, <2>14, <3>1 DEF NoExit
  <2>16. NoHop(n)'
    <3>1. hopEvent' = None /\ posted' = posted
      BY <1>2, <1>6, <2>3
    <3>2. \A u \in Threads : Top(n, u) \notin {"catch", "catchasleep"}
      BY <1>7, <2>6, <2>9, <2>14 DEF NoHop
    <3>3. QED BY <1>7, <3>1, <3>2 DEF NoHop
  <2>17. NoPause'
    BY <1>1, <2>3 DEF NoPause
  <2>18. Busy(n, Owner)'
    <3>1. \A u \in Threads \ {Owner} : ~Inside(n, u)
      BY <1>6, <2>6, <2>14
    <3>2. lockThread' = Owner /\ lockCount' = Level(n[Owner], Len(n[Owner])) /\ rflag'
      BY <1>6, <2>2, <2>3, <2>13
    <3>3. QED BY <2>12, <2>13, <2>15, <2>16, <2>17, <3>1, <3>2 DEF Busy
  <2>19. BusyHolds'
    BY BusyIs, PTL
  <2>20. Lockers(stack)'
    BY <1>1, <2>2, <2>8, <2>18, <2>19 DEF BusyHolds
  <2>21. TypedNow'
    BY <1>2, <2>2, <2>3, <2>8 DEF TypedNow
  <2>22. QED BY <2>20, <2>21
<1>9. CASE ~(st[Owner][k].left > 0 /\ ~unwindStack /\ pauseLoop = NoLoop)
  <2> DEFINE m == Pop(st, Owner)
  <2>1. SlotEnds(NoLoop, resumeFlag, posted, m) /\ queuedSignals' = queuedSignals
    BY <1>0, <1>5, <1>9 DEF NextSignal
  <2>2. m \in Stacks /\ \A u \in Threads \ {Owner} : m[u] = st[u]
    BY <1>1, <1>3, PopIs
  <2>3. /\ Top(m, Owner) = Below(st[Owner], k) /\ Len(m[Owner]) = k - 1
        /\ \A i \in 1 .. k - 1 : Exited(m, Owner, i) <=> Exited(st, Owner, i)
    BY <1>1, <1>3, PopEffect
  <2>4. Shape(m)
    BY <1>1, <1>3, PopShape
  <2> HIDE DEF m
  <2>5. \A u \in Threads \ {Owner} : /\ Top(m, u) = Top(st, u) /\ (Inside(m, u) <=> Inside(st, u))
                                     /\ m[u] = st[u] /\ \A i : Exited(m, u, i) <=> Exited(st, u, i)
    BY <1>1, <2>2, OthersSame
  <2>6. \A u \in Threads : ~Inside(m, u) /\ Top(m, u) \notin {"catch", "catchasleep"}
    BY <1>5, <1>6, <1>7, <2>3, <2>5 DEF NoHop, Inside
  <2>7. NoExit(m)
    <3>1. \A i \in 1 .. k - 1 : i \in 1 .. Len(st[Owner])
      BY <1>3
    <3>2. QED BY <1>6, <2>3, <2>5, <3>1 DEF NoExit
  <2>8. /\ posted \in Queues /\ resumeFlag \in BOOLEAN /\ pauseLoop = NoLoop
        /\ queuedSignals' \in Nat /\ queuedSignals' <= emitted
    BY <1>1, <2>1 DEF TypedNow, NoPause
  <2>9. \A u \in Threads : ~Has(posted[u], "call") /\ ~Has(posted[u], "unlock")
    BY <1>7 DEF NoHop
  <2>10. PICK q \in Queues : q = posted
    BY <2>8
  <2>11. PICK r \in BOOLEAN : r = resumeFlag
    BY <2>8
  <2>12. SlotEnds(NoLoop, r, q, m) /\ \A u \in Threads : ~Has(q[u], "call") /\ ~Has(q[u], "unlock")
    BY <2>1, <2>9, <2>10, <2>11
  <2>13. QED BY <1>2, <1>6, <2>2, <2>4, <2>6, <2>7, <2>8, <2>12, SlotEndsIs
<1>10. QED BY <1>8, <1>9

\* A thread inside an event loop is in its own or in that of a hop.
LEMMA InLoopIs ==
  ASSUME NEW st, Setting(st), NEW t \in Threads, InLoop(t)
  PROVE  Top(st, t) \in {"loop", "hopping"}
<1> USE DEF Setting
<1>1. Top(st, t) \in {"loop", "hopping", "paused"} /\ Shape(st)
  BY AtIs DEF Lockers
<1>2. CASE st[t] = <<>>
  BY <1>2 DEF Top
<1>3. CASE st[t] # <<>>
  <2>1. Top(st, t) = st[t][Len(st[t])].at /\ Len(st[t]) \in 1 .. Len(st[t])
    BY <1>1, <1>3, TopIs
  <2>2. QED BY <1>1, <2>1, KindOf
<1>4. QED BY <1>2, <1>3

\* The event that makes the engine ready.
LEMMA ReadySlotLockers ==
  ASSUME NEW st, Setting(st), ReadySlot
  PROVE  TypedNow' /\ Lockers(stack)'
<1> USE DEF Setting
<1>1. /\ HopPending(st) /\ LockOwned(st) /\ NoReadyEvent(st) /\ Shape(st)
      /\ HopEnded(st) /\ Running(st) /\ NoPause /\ Owner \in Threads
  BY OwnerAssumption DEF Lockers
<1>2. /\ InLoop(Owner) /\ posted[Owner] # <<>> /\ Head(posted[Owner]) = "ready"
      /\ UNCHANGED <<hopEvent, hopLoop, session, emitted>>
  BY DEF ReadySlot, NextEvent, hop, counters
<1>3. Top(st, Owner) \in {"loop", "hopping"}
  BY <1>1, <1>2, InLoopIs
<1>4. PICK q : q = [posted EXCEPT ![Owner] = Tail(@)]
  OBVIOUS
<1>5. /\ q \in Queues /\ Has(posted[Owner], "ready")
      /\ \A u \in Threads : \A d :
           /\ Has(q[u], d) => Has(posted[u], d)
           /\ Has(posted[u], d) /\ d # "ready" => Has(q[u], d)
           /\ Once(posted[u], d) => Once(q[u], d)
      /\ Followed(posted[Owner], "ready") => Followed(q[Owner], "ready")
  <2>1. posted \in Queues
    BY DEF TypedNow
  <2>2. Took(posted, q, Owner, "ready")
    BY <1>1, <1>2, <1>4, <2>1, TakenIs
  <2>3. QED BY <2>2 DEF Took
<1>6. CASE lockCount = 0 /\ hopLoop = NoLoop /\ hopEvent = None /\ pauseLoop = NoLoop
  <2>1. QueueSub(NoLoop, q)
    BY <1>4, <1>6 DEF ReadySlot, Taken
  <2>2. NoExit(st)
    BY <1>1, <1>6, OwnerAssumption DEF HopEnded, NoExit, NoLoop
  <2>3. \A u \in Threads : ~Has(q[u], "call") /\ ~Has(q[u], "unlock")
    <3>1. NoHop(st)
      BY <1>6, NoHopIs
    <3>2. QED BY <1>5, <3>1 DEF NoHop
  <2>4. QED BY <1>2, <1>3, <1>5, <1>6, <2>1, <2>2, <2>3, QueueSubIs
<1>7. CASE ~(lockCount = 0 /\ hopLoop = NoLoop /\ hopEvent = None /\ pauseLoop = NoLoop)
  <2>1. /\ hookInfo' = FALSE /\ unwindStack' = FALSE /\ rflag' = FALSE /\ stopHook' = FALSE
        /\ posted' = q /\ stack' = st
        /\ UNCHANGED <<lockCount, lockThread, pauseLoop, resumeFlag, queuedSignals>>
    BY <1>4, <1>7 DEF ReadySlot, Taken, BecomeReady, lock
  <2>2. NoExit(st) /\ \A u \in Threads : ~InProgram(st, u)
    BY <1>1, <1>3, <1>5 DEF NoReadyEvent, NoExit, InProgram
  <2>3. LockOwned(st)'
    BY <1>1, <1>5, <2>1 DEF LockOwned
  <2>4. HopPending(st)'
    <3>1. \A u \in Threads : Once(q[u], "call") /\ Once(q[u], "unlock")
      BY <1>1, <1>5 DEF HopPending
    <3>2. \A u \in Threads : /\ Has(q[u], "call") => Has(posted[u], "call")
                             /\ Has(q[u], "unlock") => Has(posted[u], "unlock")
      BY <1>5
    <3>3. UNCHANGED <<lockCount, lockThread, hopEvent>> /\ posted' = q
      BY <1>2, <2>1
    <3>4. QED BY <1>1, <3>1, <3>2, <3>3 DEF HopPending
  <2>5. HopEnded(st)'
    BY <2>2 DEF HopEnded, NoExit
  <2>6. Running(st)'
    BY <2>1, <2>2 DEF Running, NoExit
  <2>7. NoReadyEvent(st)'
    <3>1. hopEvent # None => Followed(q[Owner], "ready")
      BY <1>1, <1>5 DEF NoReadyEvent
    <3>2. hopEvent' = hopEvent /\ posted' = q
      BY <1>2, <2>1
    <3>3. QED BY <2>2, <3>1, <3>2 DEF NoReadyEvent, NoExit
  <2>8. NoPause'
    BY <1>1, <2>1 DEF NoPause
  <2>9. Lockers(st)'
    BY <1>1, <2>3, <2>4, <2>5, <2>6, <2>7, <2>8 DEF Lockers
  <2>10. Lockers(stack)'
    BY <2>1, <2>9
  <2>11. TypedNow'
    BY <1>2, <1>5, <2>1 DEF TypedNow
  <2>12. QED BY <2>10, <2>11
<1>8. QED BY <1>6, <1>7

\* The event that has the queued signals handled.
LEMMA QueueSlotLockers ==
  ASSUME NEW st, Setting(st), QueueSlot
  PROVE  TypedNow' /\ Lockers(stack)'
<1> USE DEF Setting
<1>1. HopPending(st) /\ HopEnded(st) /\ NoPause /\ Owner \in Threads
  BY OwnerAssumption DEF Lockers
<1>2. /\ InLoop(Owner) /\ posted[Owner] # <<>> /\ Head(posted[Owner]) = "queue"
      /\ UNCHANGED <<hopEvent, hopLoop, session, emitted>>
  BY DEF QueueSlot, NextEvent, hop, counters
<1>3. Top(st, Owner) \in {"loop", "hopping"} /\ pauseLoop = NoLoop
  BY <1>1, <1>2, InLoopIs DEF NoPause
<1>4. PICK q : q = [posted EXCEPT ![Owner] = Tail(@)]
  OBVIOUS
<1>5. /\ q \in Queues
      /\ \A u \in Threads : \A d :
           /\ Has(q[u], d) => Has(posted[u], d)
           /\ Has(posted[u], d) /\ d # "queue" => Has(q[u], d)
           /\ Once(posted[u], d) => Once(q[u], d)
      /\ Followed(posted[Owner], "ready") => Followed(q[Owner], "ready")
  <2>1. posted \in Queues
    BY DEF TypedNow
  <2>2. Took(posted, q, Owner, "queue")
    BY <1>1, <1>2, <1>4, <2>1, TakenIs
  <2>3. QED BY <2>2 DEF Took
<1>6. CASE lock = <<0, None>> /\ hopEvent = None
  <2>1. QueueSub(NoLoop, q)
    BY <1>3, <1>4, <1>6 DEF QueueSlot, Taken
  <2>2. lockCount = 0 /\ lockThread = None
    BY <1>6 DEF lock
  <2>3. NoExit(st)
    BY <1>1, <2>2 DEF HopEnded, NoExit
  <2>4. \A u \in Threads : ~Has(q[u], "call") /\ ~Has(q[u], "unlock")
    <3>1. NoHop(st)
      BY <1>6, NoHopIs
    <3>2. QED BY <1>5, <3>1 DEF NoHop
  <2>5. QED BY <1>2, <1>3, <1>5, <1>6, <2>1, <2>2, <2>3, <2>4, QueueSubIs
<1>7. CASE ~(lock = <<0, None>> /\ hopEvent = None)
  <2>1. /\ posted' = q /\ stack' = st
        /\ UNCHANGED <<lockCount, lockThread, rflag, pauseLoop, hookInfo, unwindStack, resumeFlag,
                       stopHook, queuedSignals>>
    BY <1>3, <1>4, <1>7 DEF QueueSlot, Taken, lock, flags
  <2>2. \A u \in Threads : \A d \in {"call", "unlock"} :
           (Has(q[u], d) <=> Has(posted[u], d)) /\ (Once(posted[u], d) => Once(q[u], d))
    BY <1>5
  <2>3. Has(q[Owner], "ready") => Has(posted[Owner], "ready")
    BY <1>1, <1>5
  <2>4. Lockers(st)'
    BY <1>2, <1>5, <2>1, <2>2, <2>3, QueueStep
  <2>5. Lockers(stack)'
    BY <2>1, <2>4
  <2>6. TypedNow'
    BY <1>2, <1>5, <2>1 DEF TypedNow
  <2>7. QED BY <2>5, <2>6
<1>8. QED BY <1>6, <1>7

\* Every step of a session of lockers.
LEMMA LockersStep ==
  ASSUME NEW st, Setting(st), Next
  PROVE  TypedNow' /\ Lockers(stack)'
<1>1. session = "lockers" /\ NoPause
  BY DEF Setting, Lockers
<1>2. ASSUME NEW t \in Threads, ThreadStep(t)
      PROVE  TypedNow' /\ Lockers(stack)'
  <2>1. CASE Enter(t) \/ Unlock(t) \/ Eval(t) \/ HopReturn(t)
    BY <2>1, EnterLockers, UnlockLockers, EvalLockers, HopReturnLockers
  <2>2. CASE FreeLock(t) \/ Catch(t) \/ CatchWait(t) \/ CatchRun(t)
    BY <2>2, FreeLockLockers, CatchLockers, CatchWaitLockers, CatchRunLockers
  <2>3. CASE LuaEnds(t) \/ StopHook(t)
    BY <2>3, LuaEndsLockers, StopHookLockers
  <2>4. ~PauseReturn(t)
    <3>1. SUFFICES ASSUME PauseReturn(t) PROVE FALSE
      OBVIOUS
    <3>2. At(t) = "paused" /\ InLoop(t)
      BY <3>1 DEF PauseReturn, InLoop
    <3>3. At(t) = Top(st, t)
      BY AtIs DEF Setting
    <3>4. QED BY <3>2, <3>3, InLoopIs
  <2>5. QED BY <1>2, <2>1, <2>2, <2>3, <2>4 DEF ThreadStep
<1>3. ASSUME NEW t \in Threads, Program(t)
      PROVE  TypedNow' /\ Lockers(stack)'
  BY <1>1, <1>3, LuaHopLockers DEF Program, LuaPause, LuaError, LuaResume
<1>4. ASSUME NEW t \in Threads, TimeOut(t) \/ \E k \in Calls : Call(t, k)
      PROVE  TypedNow' /\ Lockers(stack)'
  BY <1>4, TimeOutLockers, CallLockers
<1>5. CASE OwnerStep
  BY <1>5, NextSignalLockers, ReadySlotLockers, QueueSlotLockers DEF OwnerStep
<1>6. ASSUME NEW b \in BOOLEAN, Stop(b) \/ Resume(b)
      PROVE  TypedNow' /\ Lockers(stack)'
  <2>1. pauseLoop = NoLoop /\ rflag /\ StopHelper(TRUE)
    BY <1>1, <1>6 DEF Stop, Resume, NoPause
  <2>2. UNCHANGED <<lockCount, lockThread, rflag, hopEvent, hopLoop, pauseLoop, hookInfo, resumeFlag,
                    posted, queuedSignals, session, emitted>>
    BY <1>6 DEF Stop, Resume, lock, hop, counters
  <2>3. QED BY <2>1, <2>2, StopLockers
<1>7. QED BY <1>2, <1>3, <1>4, <1>5, <1>6, EmitLockers DEF Next

-----------------------------------------------------------------------------
(* Sessions in which programs pause.                                       *)

\* Which thread is where.
LEMMA OwnerOnly ==
  ASSUME NEW st \in Stacks, PauseShape(st)
  PROVE  /\ Owner \in Threads /\ Len(st[Owner]) \in Nat
         /\ Top(st, Owner) \in {"loop", "signals", "lua", "stopped", "paused"}
         /\ Top(st, Owner) = "loop" <=> st[Owner] = <<>>
         /\ st[Owner] # <<>> => /\ Len(st[Owner]) \in Nat \ {0}
                                /\ Top(st, Owner) = st[Owner][Len(st[Owner])].at
                                /\ PauseLies(st[Owner], Len(st[Owner]))
         /\ \A t \in Threads \ {Owner} : Top(st, t) = "loop"
<1>1. Owner \in Threads
  BY OwnerAssumption
<1>2. Len(st[Owner]) \in Nat /\ (st[Owner] = <<>> <=> Len(st[Owner]) = 0)
  BY <1>1, StackIs
<1>3. \A t \in Threads \ {Owner} : Top(st, t) = "loop"
  BY DEF PauseShape, Top
<1>4. CASE st[Owner] = <<>>
  BY <1>1, <1>2, <1>3, <1>4 DEF Top
<1>5. CASE st[Owner] # <<>>
  <2>1. Len(st[Owner]) \in Nat \ {0} /\ Len(st[Owner]) \in 1 .. Len(st[Owner])
    BY <1>2, <1>5
  <2>2. Top(st, Owner) = st[Owner][Len(st[Owner])].at
    BY <1>5 DEF Top
  <2>3. PauseLies(st[Owner], Len(st[Owner]))
    BY <2>1 DEF PauseShape
  <2>4. Top(st, Owner) \in {"signals", "lua", "stopped", "paused"}
    BY <2>2, <2>3 DEF PauseLies
  <2>5. QED BY <1>1, <1>3, <1>5, <2>1, <2>2, <2>3, <2>4
<1>6. QED BY <1>4, <1>5

\* Nobody sleeps, so nobody is woken.
LEMMA NobodyAsleep ==
  ASSUME NEW st \in Stacks, PauseShape(st), NEW n \in WakeLocker(st)
  PROVE  n = st
<1>1. \A t \in Threads : st[t] # <<>> => Last(st[t]).at # "asleep"
  <2> TAKE t \in Threads
  <2>1. Top(st, t) # "asleep"
    BY OwnerOnly
  <2>2. QED BY <2>1 DEF Top, Last
<1>2. {t \in Threads : st[t] # <<>> /\ Last(st[t]).at = "asleep"} = {}
  BY <1>1
<1>3. QED BY <1>2 DEF WakeLocker, WakeOne

LEMMA PushPause ==
  ASSUME NEW st \in Stacks, PauseShape(st), NEW f \in Frames,
         \/ /\ f.at = "signals" /\ Top(st, Owner) \in {"loop", "paused"}
            /\ f.loop = NoLoop => st[Owner] = <<>>
         \/ f.at = "lua" /\ f.kind = "signal" /\ Top(st, Owner) = "signals"
         \/ f.at = "paused" /\ Top(st, Owner) = "lua"
  PROVE  /\ Push(st, Owner, f) \in Stacks /\ PauseShape(Push(st, Owner, f))
         /\ Top(Push(st, Owner, f), Owner) = f.at
<1> DEFINE k == Len(st[Owner])
           n == Push(st, Owner, f)
<1>1. Owner \in Threads
  BY OwnerAssumption
<1>2. /\ n \in Stacks /\ \A i \in 1 .. k : n[Owner][i] = st[Owner][i]
      /\ \A u \in Threads \ {Owner} : n[u] = st[u]
  BY <1>1, PushIs
<1>3. /\ Top(n, Owner) = f.at /\ Len(n[Owner]) = k + 1 /\ n[Owner][k + 1] = f /\ k \in Nat
      /\ Below(n[Owner], k + 1) = Top(st, Owner)
  BY <1>1, PushEffect
<1>4. st[Owner] = <<>> => k + 1 = 1
  BY <1>1, StackIs
<1> HIDE DEF n
<1>5. PauseLies(n[Owner], k + 1)
  BY <1>3, <1>4 DEF PauseLies
<1>6. ASSUME NEW i \in 1 .. k PROVE PauseLies(n[Owner], i)
  <2>1. PauseLies(st[Owner], i)
    BY DEF PauseShape
  <2>2. n[Owner][i] = st[Owner][i]
    BY <1>2
  <2>3. Below(n[Owner], i) = Below(st[Owner], i)
    <3>1. i = 1 \/ i - 1 \in 1 .. k
      BY <1>3
    <3>2. QED BY <1>2, <3>1 DEF Below
  <2>4. QED BY <2>1, <2>2, <2>3 DEF PauseLies
<1>7. \A i \in 1 .. Len(n[Owner]) : PauseLies(n[Owner], i)
  <2> HIDE DEF k
  <2>1. \A i \in 1 .. k + 1 : i \in 1 .. k \/ i = k + 1
    BY <1>3
  <2>2. QED BY <1>3, <1>5, <1>6, <2>1
<1>8. PauseShape(n)
  BY <1>2, <1>7 DEF PauseShape
<1>9. QED BY <1>2, <1>3, <1>8 DEF n

LEMMA PopPause ==
  ASSUME NEW st \in Stacks, PauseShape(st), st[Owner] # <<>>
  PROVE  /\ Pop(st, Owner) \in Stacks /\ PauseShape(Pop(st, Owner))
         /\ Top(Pop(st, Owner), Owner) = Below(st[Owner], Len(st[Owner]))
<1> DEFINE k == Len(st[Owner])
           n == Pop(st, Owner)
<1>1. Owner \in Threads
  BY OwnerAssumption
<1>2. /\ n \in Stacks /\ \A i \in 1 .. k - 1 : n[Owner][i] = st[Owner][i]
      /\ \A u \in Threads \ {Owner} : n[u] = st[u]
      /\ k \in Nat \ {0} /\ Len(n[Owner]) = k - 1
  BY <1>1, PopIs
<1>3. Top(n, Owner) = Below(st[Owner], k)
  BY <1>1, PopEffect
<1> HIDE DEF n
<1>4. ASSUME NEW i \in 1 .. k - 1 PROVE PauseLies(n[Owner], i)
  <2>1. PauseLies(st[Owner], i)
    BY <1>2 DEF PauseShape
  <2>2. n[Owner][i] = st[Owner][i]
    BY <1>2
  <2>3. Below(n[Owner], i) = Below(st[Owner], i)
    <3>1. i = 1 \/ i - 1 \in 1 .. k - 1
      BY <1>2
    <3>2. QED BY <1>2, <3>1 DEF Below
  <2>4. QED BY <2>1, <2>2, <2>3 DEF PauseLies
<1>5. PauseShape(n)
  BY <1>2, <1>4 DEF PauseShape
<1>6. QED BY <1>2, <1>3, <1>5 DEF n

LEMMA StoppedPause ==
  ASSUME NEW st \in Stacks, PauseShape(st), Top(st, Owner) = "lua"
  PROVE  /\ Goto(st, Owner, "stopped") \in Stacks /\ PauseShape(Goto(st, Owner, "stopped"))
         /\ Top(Goto(st, Owner, "stopped"), Owner) = "stopped"
<1> PICK t \in Threads, at \in Ats : t = Owner /\ at = "stopped"
  BY OwnerAssumption DEF Ats
<1> DEFINE k == Len(st[Owner])
           n == Goto(st, t, at)
<1>1. /\ Owner \in Threads /\ st[Owner] # <<>> /\ PauseLies(st[Owner], k)
      /\ st[Owner][k].at = "lua"
  BY OwnerOnly
<1>2. /\ n \in Stacks /\ \A i \in 1 .. Len(st[t]) - 1 : n[t][i] = st[t][i]
      /\ \A u \in Threads \ {t} : n[u] = st[u]
      /\ Len(st[t]) \in Nat \ {0} /\ Len(n[t]) = Len(st[t])
  <2>1. st[t] # <<>>
    BY <1>1
  <2>2. n[t][k] = [st[t][k] EXCEPT !.at = at]
    BY <1>1, <2>1, GotoIs
  <2>3. QED BY <2>1, <2>2, GotoIs
<1>3. /\ n \in Stacks /\ \A i \in 1 .. k - 1 : n[Owner][i] = st[Owner][i]
      /\ \A u \in Threads \ {Owner} : n[u] = st[u]
      /\ k \in Nat \ {0} /\ Len(n[Owner]) = k
  BY <1>2
<1>4. /\ Top(n, Owner) = "stopped" /\ n[Owner][k].at = "stopped"
      /\ n[Owner][k].kind = st[Owner][k].kind
      /\ Below(n[Owner], k) = Below(st[Owner], k)
  BY <1>1, GotoEffect
<1> HIDE DEF n
<1>5. PauseLies(n[Owner], k)
  BY <1>1, <1>4 DEF PauseLies
<1>6. ASSUME NEW i \in 1 .. k - 1 PROVE PauseLies(n[Owner], i)
  <2>1. PauseLies(st[Owner], i)
    BY <1>3 DEF PauseShape
  <2>2. n[Owner][i] = st[Owner][i]
    BY <1>3
  <2>3. Below(n[Owner], i) = Below(st[Owner], i)
    <3>1. i = 1 \/ i - 1 \in 1 .. k - 1
      BY <1>3
    <3>2. QED BY <1>3, <3>1 DEF Below
  <2>4. QED BY <2>1, <2>2, <2>3 DEF PauseLies
<1>7. \A i \in 1 .. Len(n[Owner]) : PauseLies(n[Owner], i)
  <2> HIDE DEF k
  <2>1. \A i \in 1 .. k : i \in 1 .. k - 1 \/ i = k
    BY <1>3
  <2>2. QED BY <1>3, <1>5, <1>6, <2>1
<1>8. PauseShape(n)
  BY <1>3, <1>7 DEF PauseShape
<1>9. QED BY <1>3, <1>4, <1>8 DEF n

LEMMA SamePause ==
  ASSUME NEW st \in Stacks, PauseShape(st), NEW n \in Stacks,
         \A u \in Threads : /\ Len(n[u]) = Len(st[u])
                            /\ \A i \in 1 .. Len(st[u]) : SameFrame(n[u][i], st[u][i])
  PROVE  /\ PauseShape(n) /\ Top(n, Owner) = Top(st, Owner)
         /\ n[Owner] = <<>> <=> st[Owner] = <<>>
<1> DEFINE k == Len(st[Owner])
<1>1. Owner \in Threads /\ k \in Nat
  BY OwnerAssumption, StackIs
<1>2. \A u \in Threads : n[u] = <<>> <=> st[u] = <<>>
  BY StackIs
<1>3. \A u \in Threads \ {Owner} : n[u] = <<>>
  BY <1>2 DEF PauseShape
<1>4. ASSUME NEW i \in 1 .. k PROVE PauseLies(n[Owner], i)
  <2>1. PauseLies(st[Owner], i)
    BY DEF PauseShape
  <2>2. SameFrame(n[Owner][i], st[Owner][i])
    BY <1>1
  <2>3. Below(n[Owner], i) = Below(st[Owner], i)
    <3>1. i = 1 \/ i - 1 \in 1 .. k
      BY <1>1
    <3>2. QED BY <1>1, <3>1 DEF Below, SameFrame
  <2>4. QED BY <2>1, <2>2, <2>3 DEF PauseLies, SameFrame
<1>5. Top(n, Owner) = Top(st, Owner)
  <2>1. CASE st[Owner] = <<>>
    BY <1>1, <1>2, <2>1 DEF Top
  <2>2. CASE st[Owner] # <<>>
    <3>1. k \in 1 .. k /\ n[Owner] # <<>> /\ Len(n[Owner]) = k
      BY <1>1, <1>2, <2>2, StackIs
    <3>2. SameFrame(n[Owner][k], st[Owner][k])
      BY <1>1, <3>1
    <3>3. QED BY <2>2, <3>1, <3>2 DEF Top, SameFrame
  <2>3. QED BY <2>1, <2>2
<1>6. QED BY <1>1, <1>2, <1>3, <1>4, <1>5 DEF PauseShape

Quieted(q) == \A t \in Threads : ~Has(q[t], "call") /\ ~Has(q[t], "unlock")
Interrupted(st) == /\ TypedNow /\ session = "pauses"
                   /\ st \in Stacks /\ st = stack /\ Pauses(st)

LEMMA InterruptedIs ==
  ASSUME NEW st, Interrupted(st)
  PROVE  /\ PauseShape(st) /\ hopEvent = None /\ hopLoop = NoLoop /\ Quieted(posted)
         /\ st[Owner] # <<>> => ~Has(posted[Owner], "ready") /\ rflag
         /\ Top(st, Owner) = "paused" => pauseLoop # NoLoop
         /\ InLoop(Owner) => Top(st, Owner) \in {"loop", "paused"}
         /\ \A t \in Threads : At(t) = Top(st, t)
BY AtIs, OwnerOnly DEF Interrupted, Pauses, Quieted, Has, InLoop

\* A step after which no event is posted that would make the engine ready.
LEMMA StepPauses ==
  ASSUME NEW st, Interrupted(st), NEW n \in Stacks, PauseShape(n), stack' = n,
         NEW q, posted' = q, Quieted(q), ~Has(q[Owner], "ready"),
         n[Owner] # <<>> => rflag', Top(n, Owner) = "paused" => pauseLoop' # NoLoop,
         UNCHANGED <<hopEvent, hopLoop>>
  PROVE  Pauses(stack)'
<1>1. hopEvent = None /\ hopLoop = NoLoop
  BY InterruptedIs
<1>2. \A i \in 1 .. Len(q[Owner]) : q[Owner][i] # "ready"
  BY DEF Has
<1>3. Pauses(n)'
  BY <1>1, <1>2 DEF Pauses, Quieted
<1>4. QED BY <1>3

\* The program that runs is paused.
LEMMA PauseSubPauses ==
  ASSUME NEW st, Interrupted(st), NEW t \in Threads, At(t) = "lua",
         NEW after \in {"hook", "pause", "error"}, PauseSub(t, after),
         UNCHANGED <<rflag, hopEvent, hopLoop>>
  PROVE  /\ stack' \in Stacks /\ PauseShape(stack)' /\ Top(stack, Owner)' = "paused"
         /\ stack'[Owner] # <<>> /\ st[Owner] # <<>> /\ rflag' /\ rflag
         /\ pauseLoop' \in Loops /\ pauseLoop' # NoLoop
         /\ lockCount' = 0 /\ lockThread' = None
<1> USE DEF Interrupted
<1>1. Top(st, t) = "lua" /\ PauseShape(st)
  BY InterruptedIs
<1>2. t = Owner /\ Top(st, Owner) = "lua" /\ st[Owner] # <<>> /\ Len(st[Owner]) \in Nat
  BY <1>1, OwnerOnly
<1>3. rflag
  BY <1>2, InterruptedIs
<1>4. PICK f : f = [Frame("paused", after) EXCEPT
                      !.count = lockCount, !.thread = lockThread, !.info = hookInfo]
  OBVIOUS
<1>5. f \in Frames /\ f.at = "paused"
  <2>1. /\ lockCount \in Nat /\ lockThread \in Threads \cup {None} /\ hookInfo \in BOOLEAN
    BY DEF TypedNow
  <2>2. PICK h : h = Frame("paused", after)
    OBVIOUS
  <2>3. h \in Frames /\ h.at = "paused"
    BY <2>2 DEF Frames, Frame, Loops
  <2>4. f = [h EXCEPT !.count = lockCount, !.thread = lockThread, !.info = hookInfo]
    BY <1>4, <2>2
  <2>5. QED BY <2>1, <2>3, <2>4 DEF Frames
<1>6. stack' \in WakeLocker(Push(st, Owner, f)) /\ pauseLoop' = <<Owner, Len(st[Owner]) + 1>>
  BY <1>2, <1>4 DEF PauseSub, NextLoop
<1>7. /\ Push(st, Owner, f) \in Stacks /\ PauseShape(Push(st, Owner, f))
      /\ Top(Push(st, Owner, f), Owner) = "paused"
  BY <1>1, <1>2, <1>5, PushPause
<1>8. stack' = Push(st, Owner, f)
  BY <1>6, <1>7, NobodyAsleep
<1>9. Push(st, Owner, f)[Owner] # <<>>
  BY <1>7 DEF Top
<1>10. pauseLoop' \in Loops /\ pauseLoop' # NoLoop
  BY <1>2, <1>6, OwnerAssumption DEF Loops, NoLoop
<1>11. QED BY <1>2, <1>3, <1>7, <1>8, <1>9, <1>10 DEF PauseSub

\* One more event for the signals.
LEMMA QueuePosted ==
  ASSUME NEW p \in Queues, Quieted(p), NEW q, q = Post(p, Owner, "queue")
  PROVE  q \in Queues /\ Quieted(q) /\ (Has(q[Owner], "ready") => Has(p[Owner], "ready"))
<1>1. Owner \in Threads /\ "queue" \in Events
  BY OwnerAssumption DEF Events
<1>2. q \in Queues
  BY <1>1, PostIn
<1>3. \A u \in Threads : \A d : Has(q[u], d) <=> Has(p[u], d) \/ (u = Owner /\ d = "queue")
  BY <1>1, PostIs
<1>4. QED BY <1>1, <1>2, <1>3 DEF Quieted

\* The slot ends, outside of a pause or in the one that it was called in.
LEMMA SlotEndsPauses ==
  ASSUME NEW st, Interrupted(st), NEW m \in Stacks, PauseShape(m), NEW loop \in Loops,
         NEW r \in BOOLEAN, NEW q \in Queues, Quieted(q), ~Has(q[Owner], "ready"),
         loop = NoLoop => m[Owner] = <<>>,
         queuedSignals' \in Nat, queuedSignals' <= emitted,
         UNCHANGED <<hopEvent, hopLoop, session, emitted>>,
         SlotEnds(loop, r, q, m)
  PROVE  TypedNow' /\ Pauses(stack)'
<1> USE DEF Interrupted
<1>1. PICK p : p = IF queuedSignals' = 0 THEN q ELSE Post(q, Owner, "queue")
  OBVIOUS
<1>2. posted' = p /\ lockCount' = 0 /\ lockThread' = None /\ resumeFlag' = r
  BY <1>1 DEF SlotEnds
<1>3. p \in Queues /\ Quieted(p) /\ ~Has(p[Owner], "ready")
  <2>1. CASE p = q
    BY <2>1
  <2>2. CASE p = Post(q, Owner, "queue")
    BY <2>2, QueuePosted
  <2>3. QED BY <1>1, <2>1, <2>2
<1>4. hopEvent' \in Threads \cup {None} /\ hopLoop' \in Loops /\ session' \in Sessions
  BY DEF TypedNow
<1>5. CASE loop = NoLoop
  <2>1. /\ hookInfo' = FALSE /\ unwindStack' = FALSE /\ rflag' = FALSE /\ stopHook' = FALSE
        /\ pauseLoop' = pauseLoop /\ stack' \in WakeLocker(m)
    BY <1>5 DEF SlotEnds, BecomeReady
  <2>2. stack' = m
    BY <2>1, NobodyAsleep
  <2>3. m[Owner] = <<>> /\ Top(m, Owner) = "loop"
    BY <1>5 DEF Top
  <2>4. Pauses(stack)'
    BY <1>2, <1>3, <2>2, <2>3, StepPauses
  <2>5. pauseLoop' \in Loops
    BY <2>1 DEF TypedNow
  <2>6. TypedNow'
    BY <1>2, <1>3, <1>4, <2>1, <2>2, <2>5 DEF TypedNow
  <2>7. QED BY <2>4, <2>6
<1>6. CASE loop # NoLoop
  <2>1. /\ pauseLoop' = loop /\ hookInfo' = FALSE /\ rflag' = TRUE
        /\ UNCHANGED <<unwindStack, stopHook>>
        /\ stack' \in WakeLocker(Resumed(m, loop, r))
    BY <1>6 DEF SlotEnds, BecomePaused
  <2>2. PICK n : n = Resumed(m, loop, r)
    OBVIOUS
  <2>3. n \in Stacks /\ PauseShape(n)
    <3>1. CASE n = m
      BY <3>1
    <3>2. ASSUME NEW code \in {"yes", "continue", "unwind"}, n = Exit(m, loop, code)
          PROVE  n \in Stacks /\ PauseShape(n)
      <4>1. /\ n \in Stacks
            /\ \A u \in Threads : /\ Len(n[u]) = Len(m[u])
                                  /\ \A i \in 1 .. Len(m[u]) : SameFrame(n[u][i], m[u][i])
        BY <3>2, ExitIs, SMTT(30)
      <4>2. QED BY <4>1, SamePause
    <3>3. n = m \/ n = Exit(m, loop, "unwind") \/ n = Exit(m, loop, "continue")
      BY <2>2 DEF Resumed
    <3>4. QED BY <3>1, <3>2, <3>3
  <2>4. stack' = n
    BY <2>1, <2>2, <2>3, NobodyAsleep
  <2>5. Pauses(stack)'
    BY <1>2, <1>3, <1>6, <2>1, <2>3, <2>4, StepPauses
  <2>6. unwindStack' \in BOOLEAN /\ stopHook' \in BOOLEAN
    BY <2>1 DEF TypedNow
  <2>7. TypedNow'
    BY <1>2, <1>3, <1>4, <2>1, <2>3, <2>4, <2>6 DEF TypedNow
  <2>8. QED BY <2>5, <2>7
<1>7. QED BY <1>5, <1>6

\* The handlers are called one by one, from a slot in an event loop.
LEMMA QueueSubPauses ==
  ASSUME NEW st, Interrupted(st), Top(st, Owner) \in {"loop", "paused"}, NEW loop \in Loops,
         loop = NoLoop => st[Owner] = <<>>,
         NEW q \in Queues, Quieted(q), ~Has(q[Owner], "ready"),
         UNCHANGED <<hopEvent, hopLoop, session, emitted>>,
         QueueSub(loop, q)
  PROVE  TypedNow' /\ Pauses(stack)'
<1> USE DEF Interrupted
<1>1. PauseShape(st)
  BY InterruptedIs
<1>2. queuedSignals' = 0 /\ emitted \in Nat /\ queuedSignals \in Nat
  BY DEF QueueSub, TypedNow
<1>3. CASE queuedSignals > 0 /\ ~unwindStack
  <2>0. PICK x : x = queuedSignals - 1
    OBVIOUS
  <2> DEFINE f == [Frame("signals", "slot") EXCEPT !.left = x, !.loop = loop]
             g == Frame("lua", "signal")
             m == Push(st, Owner, f)
             n == Push(m, Owner, g)
  <2>1. /\ lockCount' = 1 /\ lockThread' = Owner /\ posted' = q /\ rflag' = TRUE
        /\ stack' = n /\ pauseLoop' = NoLoop /\ resumeFlag' = (resumeFlag /\ loop = NoLoop)
        /\ UNCHANGED <<hookInfo, unwindStack, stopHook>>
    BY <1>3, <2>0 DEF QueueSub
  <2>2. f \in Frames /\ f.at = "signals" /\ f.loop = loop
    <3>1. PICK h : h = Frame("signals", "slot")
      OBVIOUS
    <3>2. h \in Frames /\ h.at = "signals"
      BY <3>1, FrameIs DEF Ats
    <3>3. x \in Nat
      BY <1>2, <1>3, <2>0
    <3>4. f = [h EXCEPT !.left = x, !.loop = loop]
      BY <3>1
    <3>5. QED BY <3>2, <3>3, <3>4 DEF Frames
  <2>3. g \in Frames /\ g.at = "lua" /\ g.kind = "signal"
    BY FrameIs DEF Ats
  <2> HIDE DEF f, g
  <2>4. m \in Stacks /\ PauseShape(m) /\ Top(m, Owner) = "signals"
    BY <1>1, <2>2, PushPause
  <2> HIDE DEF m
  <2>5. n \in Stacks /\ PauseShape(n) /\ Top(n, Owner) = "lua"
    BY <2>3, <2>4, PushPause
  <2> HIDE DEF n
  <2>6. Pauses(stack)'
    BY <2>1, <2>5, StepPauses
  <2>7. lockThread' \in Threads \cup {None} /\ pauseLoop' \in Loops /\ lockCount' \in Nat
    BY <2>1, OwnerAssumption DEF Loops
  <2>8. /\ hopEvent' \in Threads \cup {None} /\ hopLoop' \in Loops /\ session' \in Sessions
        /\ emitted' \in 0 .. MaxSignals /\ queuedSignals' \in Nat /\ queuedSignals' <= emitted'
    BY <1>2 DEF TypedNow
  <2>9. /\ rflag' \in BOOLEAN /\ hookInfo' \in BOOLEAN /\ unwindStack' \in BOOLEAN
        /\ resumeFlag' \in BOOLEAN /\ stopHook' \in BOOLEAN
    BY <2>1 DEF TypedNow
  <2>10. TypedNow'
    BY <2>1, <2>5, <2>7, <2>8, <2>9 DEF TypedNow
  <2>11. QED BY <2>6, <2>10
<1>4. CASE ~(queuedSignals > 0 /\ ~unwindStack)
  <2>1. PICK r \in BOOLEAN : r = (resumeFlag /\ loop = NoLoop)
    OBVIOUS
  <2>2. SlotEnds(loop, r, q, st)
    BY <1>4, <2>1 DEF QueueSub
  <2>3. queuedSignals' \in Nat /\ queuedSignals' <= emitted
    BY <1>2
  <2>4. QED BY <1>1, <2>2, <2>3, SlotEndsPauses
<1>5. QED BY <1>3, <1>4

LEMMA NextSignalPauses ==
  ASSUME NEW st, Interrupted(st), NextSignal
  PROVE  TypedNow' /\ Pauses(stack)'
<1> USE DEF Interrupted
<1> DEFINE k == Len(st[Owner])
<1>1. PauseShape(st) /\ Top(st, Owner) = "signals"
  BY InterruptedIs, OwnerAssumption DEF NextSignal
<1>2. /\ Owner \in Threads /\ st[Owner] # <<>> /\ k \in Nat \ {0} /\ PauseLies(st[Owner], k)
      /\ st[Owner][k].at = "signals" /\ st[Owner] \in Seq(Frames)
  BY <1>1, OwnerOnly DEF Stacks
<1>3. Last(stack[Owner]) = st[Owner][k]
  BY AtIs
<1>4. UNCHANGED <<hopEvent, hopLoop, session, emitted, queuedSignals>>
  <2>1. UNCHANGED <<hopEvent, hopLoop, session, emitted>>
    BY DEF NextSignal, hop, counters
  <2>2. UNCHANGED queuedSignals
    BY DEF NextSignal, flags
  <2>3. QED BY <2>1, <2>2
<1>5. PICK q \in Queues : q = posted
  BY DEF TypedNow
<1>6. Quieted(q) /\ ~Has(q[Owner], "ready")
  BY <1>2, <1>5, InterruptedIs
<1>7. CASE st[Owner][k].left > 0 /\ ~unwindStack /\ pauseLoop = NoLoop
  <2> DEFINE g == Frame("lua", "signal")
             m == Fewer(st, Owner)
             n == Push(m, Owner, g)
  <2>1. stack' = n /\ rflag' = TRUE
    BY <1>3, <1>7 DEF NextSignal, Fewer
  <2>2. UNCHANGED <<lockCount, lockThread, pauseLoop, hookInfo, unwindStack, resumeFlag, stopHook,
                    queuedSignals, posted>>
    BY <1>3, <1>7 DEF NextSignal, lock, flags
  <2>3. g \in Frames /\ g.at = "lua" /\ g.kind = "signal"
    BY FrameIs DEF Ats
  <2> HIDE DEF g
  <2>4. /\ m \in Stacks
        /\ \A u \in Threads : /\ Len(m[u]) = Len(st[u])
                              /\ \A i \in 1 .. Len(st[u]) : SameFrame(m[u][i], st[u][i])
    BY <1>2, <1>7, LeftIs
  <2> HIDE DEF m
  <2>5. PauseShape(m) /\ Top(m, Owner) = "signals"
    BY <1>1, <2>4, SamePause
  <2>6. n \in Stacks /\ PauseShape(n) /\ Top(n, Owner) = "lua"
    BY <2>3, <2>4, <2>5, PushPause
  <2> HIDE DEF n
  <2>7. posted' = q /\ rflag'
    BY <1>5, <2>1, <2>2
  <2>8. Pauses(stack)'
    BY <1>4, <1>6, <2>1, <2>6, <2>7, StepPauses
  <2>9. TypedNow'
    BY <1>4, <2>1, <2>2, <2>6 DEF TypedNow
  <2>10. QED BY <2>8, <2>9
<1>8. CASE ~(st[Owner][k].left > 0 /\ ~unwindStack /\ pauseLoop = NoLoop)
  <2> DEFINE m == Pop(st, Owner)
  <2>1. SlotEnds(st[Owner][k].loop, resumeFlag, posted, m) /\ queuedSignals' = queuedSignals
    BY <1>3, <1>8 DEF NextSignal
  <2>2. m \in Stacks /\ PauseShape(m) /\ Top(m, Owner) = Below(st[Owner], k)
    BY <1>1, <1>2, PopPause
  <2>3. PICK loop \in Loops : loop = st[Owner][k].loop
    <3>1. st[Owner][k] \in Frames
      BY <1>2
    <3>2. QED BY <3>1 DEF Frames
  <2>4. loop = NoLoop => m[Owner] = <<>>
    <3>1. loop = NoLoop => k = 1
      BY <1>2, <2>3 DEF PauseLies
    <3>2. Len(m[Owner]) = k - 1
      BY <1>2, PopIs
    <3>3. m[Owner] = <<>> <=> Len(m[Owner]) = 0
      BY <1>2, <2>2, StackIs
    <3> HIDE DEF m, k
    <3>4. QED BY <3>1, <3>2, <3>3
  <2> HIDE DEF m
  <2>5. PICK r \in BOOLEAN : r = resumeFlag
    BY DEF TypedNow
  <2>6. queuedSignals' \in Nat /\ queuedSignals' <= emitted
    BY <2>1 DEF TypedNow
  <2>7. SlotEnds(loop, r, q, m)
    BY <1>5, <2>1, <2>3, <2>5
  <2>8. QED BY <1>4, <1>6, <2>2, <2>4, <2>6, <2>7, SlotEndsPauses
<1>9. QED BY <1>7, <1>8

\* The first event is taken; the event that makes the engine ready is not in the rest.
LEMMA TakenPauses ==
  ASSUME NEW st, Interrupted(st), NEW e, NextEvent(Owner, e)
  PROVE  /\ Taken(Owner) \in Queues /\ Quieted(Taken(Owner)) /\ ~Has(Taken(Owner)[Owner], "ready")
         /\ e = "ready" => st[Owner] = <<>>
         /\ Top(st, Owner) \in {"loop", "paused"}
<1> USE DEF Interrupted
<1>1. /\ posted \in Queues /\ posted[Owner] # <<>> /\ Head(posted[Owner]) = e /\ InLoop(Owner)
      /\ Owner \in Threads
  BY OwnerAssumption DEF NextEvent, TypedNow
<1>2. posted[Owner] \in Seq(Events)
  BY <1>1 DEF Queues
<1>3. \A i \in 1 .. Len(posted[Owner]) : posted[Owner][i] = "ready" => i = 1 /\ st[Owner] = <<>>
  BY DEF Pauses
<1>4. e = "ready" => st[Owner] = <<>>
  <2>1. 1 \in 1 .. Len(posted[Owner]) /\ posted[Owner][1] = e
    BY <1>1, <1>2
  <2>2. QED BY <1>3, <2>1
<1>5. Took(posted, Taken(Owner), Owner, e)
  BY <1>1, TakenIs DEF Taken
<1>6. Quieted(Taken(Owner)) /\ Taken(Owner) \in Queues
  BY <1>5, InterruptedIs DEF Took, Quieted
<1>7. Taken(Owner)[Owner] = Tail(posted[Owner])
  BY <1>1 DEF Taken, Queues
<1>8. ~Has(Tail(posted[Owner]), "ready")
  <2>1. SUFFICES ASSUME NEW i \in 1 .. Len(Tail(posted[Owner])), Tail(posted[Owner])[i] = "ready"
                 PROVE  FALSE
    BY DEF Has
  <2>2. i + 1 \in 1 .. Len(posted[Owner]) /\ Tail(posted[Owner])[i] = posted[Owner][i + 1]
    BY <1>1, <1>2
  <2>3. i + 1 = 1
    BY <1>3, <2>1, <2>2
  <2>4. QED BY <2>3
<1>9. QED BY <1>1, <1>4, <1>6, <1>7, <1>8, InterruptedIs

LEMMA ReadySlotPauses ==
  ASSUME NEW st, Interrupted(st), ReadySlot
  PROVE  TypedNow' /\ Pauses(stack)'
<1> USE DEF Interrupted
<1>1. NextEvent(Owner, "ready") /\ UNCHANGED <<hopEvent, hopLoop, session, emitted>>
  BY DEF ReadySlot, hop, counters
<1>2. PICK q : q = Taken(Owner)
  OBVIOUS
<1>3. q \in Queues /\ Quieted(q) /\ ~Has(q[Owner], "ready") /\ st[Owner] = <<>>
  BY <1>1, <1>2, TakenPauses
<1>4. Top(st, Owner) = "loop" /\ PauseShape(st)
  BY <1>3, InterruptedIs DEF Top
<1>5. CASE lockCount = 0 /\ hopLoop = NoLoop /\ hopEvent = None /\ pauseLoop = NoLoop
  <2>1. QueueSub(NoLoop, q) /\ NoLoop \in Loops
    BY <1>2, <1>5 DEF ReadySlot, Loops
  <2>2. QED BY <1>1, <1>3, <1>4, <2>1, QueueSubPauses
<1>6. CASE ~(lockCount = 0 /\ hopLoop = NoLoop /\ hopEvent = None /\ pauseLoop = NoLoop)
  <2>1. /\ hookInfo' = FALSE /\ unwindStack' = FALSE /\ rflag' = FALSE /\ stopHook' = FALSE
        /\ posted' = q /\ stack' = st
        /\ UNCHANGED <<lockCount, lockThread, pauseLoop, resumeFlag, queuedSignals>>
    BY <1>2, <1>6 DEF ReadySlot, BecomeReady, lock
  <2>2. Pauses(stack)'
    BY <1>1, <1>3, <1>4, <2>1, StepPauses
  <2>3. TypedNow'
    BY <1>1, <1>3, <2>1 DEF TypedNow
  <2>4. QED BY <2>2, <2>3
<1>7. QED BY <1>5, <1>6

LEMMA QueueSlotPauses ==
  ASSUME NEW st, Interrupted(st), QueueSlot
  PROVE  TypedNow' /\ Pauses(stack)'
<1> USE DEF Interrupted
<1>1. NextEvent(Owner, "queue") /\ UNCHANGED <<hopEvent, hopLoop, session, emitted>>
  BY DEF QueueSlot, hop, counters
<1>2. PICK q : q = Taken(Owner)
  OBVIOUS
<1>3. /\ q \in Queues /\ Quieted(q) /\ ~Has(q[Owner], "ready")
      /\ Top(st, Owner) \in {"loop", "paused"}
  BY <1>1, <1>2, TakenPauses
<1>4. /\ PauseShape(st) /\ (Top(st, Owner) = "paused" => pauseLoop # NoLoop)
      /\ st[Owner] # <<>> => rflag
  BY InterruptedIs
<1>5. CASE pauseLoop # NoLoop /\ ~hookInfo
  <2>1. PICK loop \in Loops : loop = pauseLoop
    BY DEF TypedNow
  <2>2. QueueSub(loop, q) /\ loop # NoLoop
    BY <1>2, <1>5, <2>1 DEF QueueSlot
  <2>3. QED BY <1>1, <1>3, <2>2, QueueSubPauses
<1>6. CASE ~(pauseLoop # NoLoop /\ ~hookInfo) /\ lock = <<0, None>> /\ hopEvent = None /\ pauseLoop = NoLoop
  <2>1. st[Owner] = <<>>
    BY <1>3, <1>4, <1>6, OwnerOnly
  <2>2. QueueSub(NoLoop, q) /\ NoLoop \in Loops
    BY <1>2, <1>6 DEF QueueSlot, Loops
  <2>3. QED BY <1>1, <1>3, <2>1, <2>2, QueueSubPauses
<1>7. CASE /\ ~(pauseLoop # NoLoop /\ ~hookInfo)
           /\ ~(lock = <<0, None>> /\ hopEvent = None /\ pauseLoop = NoLoop)
  <2>1. /\ posted' = q /\ stack' = st
        /\ UNCHANGED <<lockCount, lockThread, rflag, pauseLoop, hookInfo, unwindStack, resumeFlag,
                       stopHook, queuedSignals>>
    BY <1>2, <1>7 DEF QueueSlot, lock, flags
  <2>2. Pauses(stack)'
    BY <1>1, <1>3, <1>4, <2>1, StepPauses
  <2>3. TypedNow'
    BY <1>1, <1>3, <2>1 DEF TypedNow
  <2>4. QED BY <2>2, <2>3
<1>8. QED BY <1>5, <1>6, <1>7

LEMMA EmitPauses ==
  ASSUME NEW st, Interrupted(st), Emit
  PROVE  TypedNow' /\ Pauses(stack)'
<1> USE DEF Interrupted
<1>1. /\ UNCHANGED <<lockCount, lockThread, rflag, hopEvent, hopLoop, pauseLoop, hookInfo, unwindStack,
                     resumeFlag, stopHook, session>>
      /\ stack' = st
  BY DEF Emit, lock, hop, flags
<1>2. PICK p \in Queues : p = posted
  BY DEF TypedNow
<1>3. PICK q : q = IF queuedSignals = 0 THEN Post(p, Owner, "queue") ELSE p
  OBVIOUS
<1>4. posted' = q
  BY <1>2, <1>3 DEF Emit
<1>5. Quieted(p) /\ \A i \in 1 .. Len(p[Owner]) : p[Owner][i] = "ready" => i = 1 /\ st[Owner] = <<>>
  BY <1>2, InterruptedIs DEF Pauses
<1>6. /\ q \in Queues /\ Quieted(q)
      /\ \A i \in 1 .. Len(q[Owner]) : q[Owner][i] = "ready" => i = 1 /\ st[Owner] = <<>>
  <2>1. CASE q = p
    BY <1>5, <2>1
  <2>2. CASE q = Post(p, Owner, "queue")
    <3>1. p[Owner] \in Seq(Events) /\ q[Owner] = Append(p[Owner], "queue")
      BY <2>2, OwnerAssumption DEF Post, Queues
    <3>2. /\ Len(q[Owner]) = Len(p[Owner]) + 1 /\ q[Owner][Len(p[Owner]) + 1] = "queue"
          /\ Len(p[Owner]) \in Nat
          /\ \A i \in 1 .. Len(p[Owner]) : q[Owner][i] = p[Owner][i]
      BY <3>1
    <3>3. ASSUME NEW i \in 1 .. Len(q[Owner]), q[Owner][i] = "ready"
          PROVE  i = 1 /\ st[Owner] = <<>>
      <4>1. i \in 1 .. Len(p[Owner]) \/ i = Len(p[Owner]) + 1
        BY <3>2
      <4>2. i \in 1 .. Len(p[Owner])
        BY <3>2, <3>3, <4>1
      <4>3. QED BY <1>5, <3>2, <3>3, <4>2
    <3>4. QED BY <1>5, <2>2, <3>3, QueuePosted
  <2>3. QED BY <1>3, <2>1, <2>2
<1>7. Pauses(st)'
  <2>1. /\ PauseShape(st) /\ hopEvent' = None /\ hopLoop' = NoLoop
        /\ st[Owner] # <<>> => rflag'
        /\ Top(st, Owner) = "paused" => pauseLoop' # NoLoop
    BY <1>1, InterruptedIs
  <2>2. QED BY <1>4, <1>6, <2>1 DEF Pauses, Quieted
<1>8. emitted' \in 0 .. MaxSignals /\ queuedSignals' \in Nat /\ queuedSignals' <= emitted'
  <2>1. /\ emitted < MaxSignals /\ emitted' = emitted + 1 /\ queuedSignals' = queuedSignals + 1
        /\ emitted \in 0 .. MaxSignals /\ queuedSignals \in Nat /\ queuedSignals <= emitted
    BY DEF Emit, TypedNow
  <2>2. MaxSignals \in Nat
    BY BoundsAssumption
  <2>3. QED BY <2>1, <2>2
<1>9. TypedNow'
  <2>1. /\ lockCount' \in Nat /\ lockThread' \in Threads \cup {None}
        /\ hopEvent' \in Threads \cup {None}
        /\ rflag' \in BOOLEAN /\ hookInfo' \in BOOLEAN /\ unwindStack' \in BOOLEAN
        /\ resumeFlag' \in BOOLEAN /\ stopHook' \in BOOLEAN
        /\ hopLoop' \in Loops /\ pauseLoop' \in Loops /\ session' \in Sessions
    BY <1>1 DEF TypedNow
  <2>2. stack' \in Stacks /\ posted' \in Queues
    BY <1>1, <1>4, <1>6
  <2>3. QED BY <1>8, <2>1, <2>2 DEF TypedNow
<1>10. QED BY <1>1, <1>7, <1>9

\* What leaves the events alone, or posts one for the signals, while a program runs or the
\* loop of its pause is told to return.
LEMMA TellPauses ==
  ASSUME NEW st, Interrupted(st), NEW n \in Stacks, stack' = n,
         PauseShape(n), Top(n, Owner) = Top(st, Owner), n[Owner] = <<>> <=> st[Owner] = <<>>,
         UNCHANGED <<lockCount, lockThread, rflag, hopEvent, hopLoop, pauseLoop, hookInfo,
                     posted, queuedSignals, session, emitted>>,
         unwindStack' \in BOOLEAN, resumeFlag' \in BOOLEAN, stopHook' \in BOOLEAN
  PROVE  TypedNow' /\ Pauses(stack)'
<1> USE DEF Interrupted
<1>1. TypedNow'
  BY DEF TypedNow
<1>2. Pauses(st)
  OBVIOUS
<1>3. Pauses(n)'
  BY <1>2 DEF Pauses
<1>4. QED BY <1>1, <1>3

\* stop and resume.
LEMMA StopPauses ==
  ASSUME NEW st, Interrupted(st), NEW b \in BOOLEAN, Stop(b) \/ Resume(b)
  PROVE  TypedNow' /\ Pauses(stack)'
<1> USE DEF Interrupted
<1>1. UNCHANGED <<lockCount, lockThread, rflag, hopEvent, hopLoop, pauseLoop, hookInfo, resumeFlag,
                  posted, queuedSignals, session, emitted>>
  BY DEF Stop, Resume, lock, hop, counters
<1>2. PauseShape(st) /\ unwindStack \in BOOLEAN /\ resumeFlag \in BOOLEAN /\ stopHook \in BOOLEAN
  BY InterruptedIs DEF TypedNow
<1>3. ASSUME NEW c \in BOOLEAN, StopHelper(c)
      PROVE  TypedNow' /\ Pauses(stack)'
  <2>1. unwindStack' \in BOOLEAN /\ resumeFlag' \in BOOLEAN /\ stopHook' \in BOOLEAN /\ stack' = st
    BY <1>1, <1>2, <1>3 DEF StopHelper
  <2>2. QED BY <1>1, <1>2, <2>1, TellPauses
<1>4. ASSUME NEW code \in {"yes", "continue", "unwind"}, ResumeHelper(code)
      PROVE  TypedNow' /\ Pauses(stack)'
  <2>1. PICK loop \in Loops : loop = pauseLoop
    BY DEF TypedNow
  <2>2. PICK n : n = Exit(st, loop, code)
    OBVIOUS
  <2>3. stack' = n /\ unwindStack' \in BOOLEAN /\ resumeFlag' \in BOOLEAN /\ stopHook' \in BOOLEAN
    BY <1>1, <1>2, <1>4, <2>1, <2>2 DEF ResumeHelper
  <2>4. /\ n \in Stacks
        /\ \A u \in Threads : /\ Len(n[u]) = Len(st[u])
                              /\ \A i \in 1 .. Len(st[u]) : SameFrame(n[u][i], st[u][i])
    BY <2>2, ExitIs, SMTT(30)
  <2>5. PauseShape(n) /\ Top(n, Owner) = Top(st, Owner) /\ (n[Owner] = <<>> <=> st[Owner] = <<>>)
    BY <1>2, <2>4, SamePause
  <2>6. QED BY <1>1, <2>3, <2>4, <2>5, TellPauses
<1>5. \/ StopHelper(b) \/ StopHelper(TRUE)
      \/ ResumeHelper("unwind") \/ ResumeHelper("continue")
  BY DEF Stop, Resume
<1>6. QED BY <1>3, <1>4, <1>5

\* The loop of the pause has been left.
LEMMA PauseReturnPauses ==
  ASSUME NEW st, Interrupted(st), NEW t \in Threads, PauseReturn(t)
  PROVE  TypedNow' /\ Pauses(stack)'
<1> USE DEF Interrupted
<1> DEFINE k == Len(st[Owner])
<1>1. PauseShape(st) /\ Top(st, t) = "paused"
  BY InterruptedIs DEF PauseReturn
<1>2. t = Owner
  BY <1>1, OwnerOnly
<1>3. /\ Owner \in Threads /\ st[Owner] # <<>> /\ k \in Nat \ {0} /\ PauseLies(st[Owner], k)
      /\ st[Owner][k].at = "paused"
  BY <1>1, <1>2, OwnerOnly
<1>4. st[Owner][k] \in Frames
  BY <1>3 DEF Stacks
<1>5. PICK f \in Frames : f = st[Owner][k]
  BY <1>4
<1>6. Last(stack[t]) = f
  BY <1>2, <1>5, AtIs
<1>7. PICK m : m = Pop(st, Owner)
  OBVIOUS
<1>8. m \in Stacks /\ PauseShape(m) /\ Top(m, Owner) = "lua"
  BY <1>1, <1>3, <1>7, PopPause DEF PauseLies
<1>9. PICK n : n = IF unwindStack' \/ f.kind = "error" THEN Goto(m, Owner, "stopped") ELSE m
  OBVIOUS
<1>10. n \in Stacks /\ PauseShape(n) /\ Top(n, Owner) \in {"lua", "stopped"}
  <2>1. "stopped" \in Ats
    BY DEF Ats
  <2>2. QED BY <1>3, <1>8, <1>9, <2>1, StoppedPause
<1>11. stack' = n
  BY <1>2, <1>6, <1>7, <1>9 DEF PauseReturn
<1>12. /\ unwindStack' = (unwindStack \/ f.exit = "unwind")
       /\ lockCount' = f.count /\ lockThread' = f.thread
       /\ hookInfo' = (IF f.kind = "hook" THEN f.info ELSE hookInfo)
       /\ pauseLoop' = NoLoop
  BY <1>6 DEF PauseReturn
<1>13. UNCHANGED <<rflag, hopEvent, hopLoop, resumeFlag, stopHook, queuedSignals, posted,
                   session, emitted>>
  BY DEF PauseReturn, hop, counters
<1>14. PICK q \in Queues : q = posted
  BY DEF TypedNow
<1>15. Quieted(q) /\ ~Has(q[Owner], "ready") /\ rflag
  BY <1>3, <1>14, InterruptedIs
<1>16. Pauses(stack)'
  BY <1>10, <1>11, <1>13, <1>14, <1>15, StepPauses
<1>17. /\ lockCount' \in Nat /\ lockThread' \in Threads \cup {None} /\ hookInfo' \in BOOLEAN
       /\ unwindStack' \in BOOLEAN /\ pauseLoop' \in Loops
  <2>1. unwindStack \in BOOLEAN /\ hookInfo \in BOOLEAN
    BY DEF TypedNow
  <2>2. f.count \in Nat /\ f.thread \in Threads \cup {None} /\ f.info \in BOOLEAN
    BY DEF Frames
  <2>3. QED BY <1>12, <2>1, <2>2 DEF Loops
<1>18. TypedNow'
  BY <1>10, <1>11, <1>13, <1>17 DEF TypedNow
<1>19. QED BY <1>16, <1>18

\* A step of the program that runs: it has been paused, or not.
LEMMA ProgramPauses ==
  ASSUME NEW st, Interrupted(st), NEW t \in Threads, At(t) = "lua",
         \/ /\ \E after \in {"hook", "pause", "error"} : PauseSub(t, after)
         \/ /\ stack' = IF unwindStack THEN Goto(stack, t, "stopped") ELSE stack
            /\ UNCHANGED <<lock, pauseLoop>>,
         NEW q \in Queues, posted' = q, Quieted(q), Has(q[Owner], "ready") => Has(posted[Owner], "ready"),
         UNCHANGED <<rflag, hopEvent, hopLoop, unwindStack, resumeFlag, queuedSignals, session, emitted>>,
         hookInfo' \in BOOLEAN, stopHook' \in BOOLEAN
  PROVE  TypedNow' /\ Pauses(stack)'
<1> USE DEF Interrupted
<1>1. Top(st, t) = "lua" /\ PauseShape(st)
  BY InterruptedIs
<1>2. t = Owner /\ st[Owner] # <<>>
  BY <1>1, OwnerOnly
<1>3. ~Has(q[Owner], "ready") /\ rflag
  BY <1>2, InterruptedIs
<1>4. \E n \in Stacks : /\ stack' = n /\ PauseShape(n)
                        /\ Top(n, Owner) = "paused" => pauseLoop' # NoLoop
                        /\ lockCount' \in Nat /\ lockThread' \in Threads \cup {None} /\ pauseLoop' \in Loops
  <2>1. ASSUME NEW after \in {"hook", "pause", "error"}, PauseSub(t, after)
        PROVE  \E n \in Stacks :
                 /\ stack' = n /\ PauseShape(n)
                 /\ Top(n, Owner) = "paused" => pauseLoop' # NoLoop
                 /\ lockCount' \in Nat /\ lockThread' \in Threads \cup {None} /\ pauseLoop' \in Loops
    <3>1. /\ stack' \in Stacks /\ PauseShape(stack)'
          /\ pauseLoop' \in Loops /\ pauseLoop' # NoLoop
          /\ lockCount' = 0 /\ lockThread' = None
      BY <2>1, PauseSubPauses
    <3>2. PICK n \in Stacks : n = stack'
      BY <3>1
    <3>3. PauseShape(n)
      BY <3>1, <3>2
    <3>4. QED BY <3>1, <3>2, <3>3
  <2>2. CASE /\ stack' = IF unwindStack THEN Goto(stack, t, "stopped") ELSE stack
             /\ UNCHANGED <<lock, pauseLoop>>
    <3>1. PICK n : n = IF unwindStack THEN Goto(st, Owner, "stopped") ELSE st
      OBVIOUS
    <3>2. n \in Stacks /\ PauseShape(n) /\ Top(n, Owner) \in {"lua", "stopped"}
      BY <1>1, <1>2, <3>1, StoppedPause
    <3>3. stack' = n
      BY <1>2, <2>2, <3>1
    <3>4. lockCount' \in Nat /\ lockThread' \in Threads \cup {None} /\ pauseLoop' \in Loops
      BY <2>2 DEF lock, TypedNow
    <3>5. QED BY <3>2, <3>3, <3>4
  <2>3. QED BY <2>1, <2>2
<1>5. PICK n \in Stacks : /\ stack' = n /\ PauseShape(n)
                          /\ Top(n, Owner) = "paused" => pauseLoop' # NoLoop
                          /\ lockCount' \in Nat /\ lockThread' \in Threads \cup {None} /\ pauseLoop' \in Loops
  BY <1>4
<1>6. rflag'
  BY <1>3
<1>7. Pauses(stack)'
  BY <1>2, <1>3, <1>5, <1>6, StepPauses
<1>8. TypedNow'
  BY <1>5 DEF TypedNow
<1>9. QED BY <1>7, <1>8

LEMMA LuaPausePauses ==
  ASSUME NEW st, Interrupted(st), NEW t \in Threads, LuaPause(t)
  PROVE  TypedNow' /\ Pauses(stack)'
<1> USE DEF Interrupted
<1>1. PICK p \in Queues : p = posted
  BY DEF TypedNow
<1>2. PICK q : q = Post(p, Owner, "queue")
  OBVIOUS
<1>3. Quieted(p)
  BY <1>1, InterruptedIs
<1>4. q \in Queues /\ Quieted(q) /\ (Has(q[Owner], "ready") => Has(posted[Owner], "ready"))
  BY <1>1, <1>2, <1>3, QueuePosted
<1>5. At(t) = "lua" /\ posted' = q
  BY <1>1, <1>2 DEF LuaPause
<1>6. UNCHANGED <<rflag, hopEvent, hopLoop, hookInfo, unwindStack, resumeFlag, stopHook, queuedSignals,
                  session, emitted>>
  BY DEF LuaPause, hop, flags
<1>7. hookInfo' \in BOOLEAN /\ stopHook' \in BOOLEAN
  BY <1>6 DEF TypedNow
<1>8. \/ \E after \in {"hook", "pause", "error"} : PauseSub(t, after)
      \/ /\ stack' = IF unwindStack THEN Goto(stack, t, "stopped") ELSE stack
         /\ UNCHANGED <<lock, pauseLoop>>
  BY DEF LuaPause
<1>9. QED BY <1>4, <1>5, <1>6, <1>7, <1>8, ProgramPauses

LEMMA LuaErrorPauses ==
  ASSUME NEW st, Interrupted(st), NEW t \in Threads, LuaError(t)
  PROVE  TypedNow' /\ Pauses(stack)'
<1> USE DEF Interrupted
<1>1. PICK q \in Queues : q = posted
  BY DEF TypedNow
<1>2. Quieted(q) /\ (Has(q[Owner], "ready") => Has(posted[Owner], "ready"))
  BY <1>1, InterruptedIs
<1>3. At(t) = "lua" /\ posted' = q /\ PauseSub(t, "error")
  BY <1>1 DEF LuaError
<1>4. UNCHANGED <<rflag, hopEvent, hopLoop, hookInfo, unwindStack, resumeFlag, stopHook, queuedSignals,
                  session, emitted>>
  BY DEF LuaError, hop, flags
<1>5. hookInfo' \in BOOLEAN /\ stopHook' \in BOOLEAN
  BY <1>4 DEF TypedNow
<1>6. QED BY <1>2, <1>3, <1>4, <1>5, ProgramPauses

LEMMA StopHookPauses ==
  ASSUME NEW st, Interrupted(st), NEW t \in Threads, StopHook(t)
  PROVE  TypedNow' /\ Pauses(stack)'
<1> USE DEF Interrupted
<1>1. PICK q \in Queues : q = posted
  BY DEF TypedNow
<1>2. Quieted(q) /\ (Has(q[Owner], "ready") => Has(posted[Owner], "ready"))
  BY <1>1, InterruptedIs
<1>3. At(t) = "lua" /\ posted' = q /\ stopHook' = FALSE
  BY <1>1 DEF StopHook
<1>4. UNCHANGED <<rflag, hopEvent, hopLoop, unwindStack, resumeFlag, queuedSignals, session, emitted>>
  BY DEF StopHook, hop, counters
<1>5. hookInfo' \in BOOLEAN
  <2>1. hookInfo' = TRUE \/ hookInfo' = hookInfo
    BY DEF StopHook
  <2>2. QED BY <2>1 DEF TypedNow
<1>6. \/ \E after \in {"hook", "pause", "error"} : PauseSub(t, after)
      \/ /\ stack' = IF unwindStack THEN Goto(stack, t, "stopped") ELSE stack
         /\ UNCHANGED <<lock, pauseLoop>>
  BY DEF StopHook
<1>7. QED BY <1>2, <1>3, <1>4, <1>5, <1>6, ProgramPauses

LEMMA LuaResumePauses ==
  ASSUME NEW st, Interrupted(st), NEW t \in Threads, NEW b \in BOOLEAN, LuaResume(t, b)
  PROVE  TypedNow' /\ Pauses(stack)'
<1> USE DEF Interrupted
<1>1. /\ UNCHANGED <<lockCount, lockThread, rflag, hopEvent, hopLoop, pauseLoop, hookInfo, stopHook,
                     posted, queuedSignals, session, emitted>>
      /\ stack' = st
  BY DEF LuaResume, lock, hop
<1>2. unwindStack' \in BOOLEAN /\ resumeFlag' \in BOOLEAN /\ stopHook' \in BOOLEAN
  <2>1. unwindStack \in BOOLEAN /\ resumeFlag \in BOOLEAN /\ stopHook \in BOOLEAN
    BY DEF TypedNow
  <2>2. QED BY <1>1, <2>1 DEF LuaResume
<1>3. PauseShape(st)
  BY InterruptedIs
<1>4. QED BY <1>1, <1>2, <1>3, TellPauses

\* The handler of a signal returns, or has been unwound.
LEMMA LuaEndsPauses ==
  ASSUME NEW st, Interrupted(st), NEW t \in Threads, LuaEnds(t)
  PROVE  TypedNow' /\ Pauses(stack)'
<1> USE DEF Interrupted
<1> DEFINE k == Len(st[Owner])
<1>1. PauseShape(st) /\ Top(st, t) \in {"lua", "stopped"}
  BY InterruptedIs DEF LuaEnds
<1>2. t = Owner
  BY <1>1, OwnerOnly
<1>3. /\ st[Owner] # <<>> /\ PauseLies(st[Owner], k) /\ st[Owner][k].at \in {"lua", "stopped"}
  BY <1>1, <1>2, OwnerOnly
<1>4. st[Owner][k].kind = "signal" /\ Below(st[Owner], k) = "signals"
  BY <1>3 DEF PauseLies
<1>5. Kind(t) = "signal"
  BY <1>2, <1>3, <1>4, AtIs
<1>6. PICK n : n = Pop(st, Owner)
  OBVIOUS
<1>7. n \in Stacks /\ PauseShape(n) /\ Top(n, Owner) = "signals"
  BY <1>1, <1>3, <1>4, <1>6, PopPause
<1>8. /\ stack' = n
      /\ UNCHANGED <<lockCount, lockThread, rflag, hopEvent, hopLoop, pauseLoop, hookInfo, unwindStack,
                     resumeFlag, stopHook, posted, queuedSignals, session, emitted>>
  BY <1>2, <1>5, <1>6 DEF LuaEnds, hop, flags, counters
<1>9. PICK q \in Queues : q = posted
  BY DEF TypedNow
<1>10. Quieted(q) /\ ~Has(q[Owner], "ready") /\ rflag
  BY <1>3, <1>9, InterruptedIs
<1>11. Pauses(stack)'
  BY <1>7, <1>8, <1>9, <1>10, StepPauses
<1>12. TypedNow'
  BY <1>7, <1>8 DEF TypedNow
<1>13. QED BY <1>11, <1>12

\* Every step of a session of pauses.
LEMMA PausesStep ==
  ASSUME NEW st, Interrupted(st), Next
  PROVE  TypedNow' /\ Pauses(stack)'
<1>1. session = "pauses" /\ st = stack
  BY DEF Interrupted
<1>2. /\ \A t \in Threads : At(t) \in {"loop", "signals", "lua", "stopped", "paused"}
      /\ Quieted(posted)
  <2>1. PauseShape(st) /\ st \in Stacks
    BY InterruptedIs DEF Interrupted
  <2>2. \A t \in Threads : Top(st, t) \in {"loop", "signals", "lua", "stopped", "paused"}
    BY <2>1, OwnerOnly
  <2>3. QED BY <2>2, InterruptedIs
<1>3. ASSUME NEW t \in Threads, ThreadStep(t)
      PROVE  TypedNow' /\ Pauses(stack)'
  <2>1. ~Enter(t) /\ ~Unlock(t) /\ ~Eval(t) /\ ~HopReturn(t) /\ ~CatchWait(t) /\ ~CatchRun(t)
    BY <1>2 DEF Enter, Unlock, Eval, HopReturn, CatchWait, CatchRun
  <2>2. ASSUME NEW e \in Events, NextEvent(t, e) PROVE e \notin {"call", "unlock"}
    <3>1. posted[t] \in Seq(Events) /\ posted[t] # <<>> /\ Head(posted[t]) = e
      BY <2>2 DEF NextEvent, Interrupted, TypedNow, Queues
    <3>2. Has(posted[t], e)
      BY <3>1, TailEvent
    <3>3. QED BY <1>2, <3>2 DEF Quieted
  <2>3. ~FreeLock(t) /\ ~Catch(t)
    BY <2>2 DEF FreeLock, Catch, Events
  <2>4. QED BY <1>3, <2>1, <2>3, LuaEndsPauses, StopHookPauses, PauseReturnPauses DEF ThreadStep
<1>4. ASSUME NEW t \in Threads, Program(t)
      PROVE  TypedNow' /\ Pauses(stack)'
  <2>1. ~\E u \in Threads : LuaHop(t, u)
    BY <1>1 DEF LuaHop
  <2>2. QED BY <1>4, <2>1, LuaPausePauses, LuaErrorPauses, LuaResumePauses DEF Program
<1>5. \A t \in Threads : ~TimeOut(t) /\ ~\E k \in Calls : Call(t, k)
  BY <1>1, <1>2 DEF TimeOut, Call
<1>6. CASE OwnerStep
  BY <1>6, NextSignalPauses, ReadySlotPauses, QueueSlotPauses DEF OwnerStep
<1>7. ASSUME NEW b \in BOOLEAN, Stop(b) \/ Resume(b)
      PROVE  TypedNow' /\ Pauses(stack)'
  BY <1>7, StopPauses
<1>8. QED BY <1>3, <1>4, <1>5, <1>6, <1>7, EmitPauses DEF Next

-----------------------------------------------------------------------------
(* The theorems.                                                           *)

LEMMA InitHolds ==
  ASSUME Init PROVE IInv
<1>1. PICK st : st = stack
  OBVIOUS
<1>2. st = [t \in Threads |-> <<>>] /\ st \in Stacks /\ \A t \in Threads : st[t] = <<>>
  BY <1>1 DEF Init, Stacks
<1>3. \A t \in Threads : Len(st[t]) = 0 /\ Top(st, t) = "loop" /\ ~Inside(st, t) /\ ~InProgram(st, t)
  BY <1>2 DEF Top, Inside, InProgram
<1>4. /\ posted = [t \in Threads |-> IF t = Owner THEN <<"ready">> ELSE <<>>]
      /\ posted \in Queues
  <2>1. <<"ready">> \in Seq(Events) /\ <<>> \in Seq(Events)
    BY DEF Events
  <2>2. QED BY <2>1 DEF Init, Queues
<1>5. \A t \in Threads : \A i \in 1 .. Len(posted[t]) : posted[t][i] = "ready" /\ i = 1
  <2> TAKE t \in Threads
  <2>1. CASE t = Owner
    <3>1. posted[t] = <<"ready">>
      BY <1>4, <2>1
    <3>2. QED BY <3>1
  <2>2. CASE t # Owner
    <3>1. posted[t] = <<>>
      BY <1>4, <2>2
    <3>2. QED BY <3>1
  <2>3. QED BY <2>1, <2>2
<1>6. \A t \in Threads : ~Has(posted[t], "call") /\ ~Has(posted[t], "unlock")
  BY <1>5 DEF Has
<1>7. Shape(st)
  BY <1>3 DEF Shape
<1>8. NoHop(st) /\ NoExit(st) /\ NoPause
  BY <1>3, <1>6 DEF NoHop, NoExit, NoPause, Init
<1>9. Idle(st)
  BY <1>3, <1>7, <1>8 DEF Idle, Init
<1>10. Lockers(st)
  BY <1>2, <1>9, IdleIs DEF IdleHolds
<1>11. PauseShape(st)
  BY <1>2, <1>3, OwnerAssumption DEF PauseShape
<1>12. Pauses(st)
  <2>1. \A i \in 1 .. Len(posted[Owner]) : posted[Owner][i] = "ready" => i = 1 /\ st[Owner] = <<>>
    BY <1>2, <1>5, OwnerAssumption
  <2>2. st[Owner] = <<>> /\ Top(st, Owner) = "loop"
    BY <1>2, <1>3, OwnerAssumption
  <2>3. hopEvent = None /\ hopLoop = NoLoop
    BY DEF Init
  <2>4. QED BY <1>6, <1>11, <2>1, <2>2, <2>3 DEF Pauses
<1>13. TypedNow
  <2>1. /\ lockCount \in Nat /\ lockThread \in Threads \cup {None}
        /\ hopEvent \in Threads \cup {None}
        /\ rflag \in BOOLEAN /\ hookInfo \in BOOLEAN /\ unwindStack \in BOOLEAN
        /\ resumeFlag \in BOOLEAN /\ stopHook \in BOOLEAN
        /\ hopLoop \in Loops /\ pauseLoop \in Loops /\ session \in Sessions
    BY DEF Init, Loops
  <2>2. emitted \in 0 .. MaxSignals /\ queuedSignals \in Nat /\ queuedSignals <= emitted
    BY BoundsAssumption DEF Init
  <2>3. QED BY <1>1, <1>2, <1>4, <2>1, <2>2 DEF TypedNow
<1>14. QED BY <1>1, <1>10, <1>12, <1>13, TypedIs DEF IInv

LEMMA StepHolds ==
  ASSUME Nested = {}, "both" \notin Sessions, IInv, [Next]_vars
  PROVE  IInv'
<1>1. TypedNow /\ session \in {"lockers", "pauses"}
  BY TypedIs, OwnerAssumption DEF IInv, TypedNow
<1>2. PICK st : st = stack
  OBVIOUS
<1>3. session' = session
  <2>1. CASE Next
    <3>1. ASSUME NEW t \in Threads, \/ ThreadStep(t) \/ TimeOut(t) \/ Program(t)
                                     \/ \E k \in Calls : Call(t, k)
          PROVE  session' = session
      BY <3>1 DEF ThreadStep, TimeOut, Program, Call, Enter, Unlock, Eval, HopReturn, FreeLock, Catch,
           CatchWait, CatchRun, LuaEnds, StopHook, PauseReturn, LuaHop, LuaPause, LuaError,
           LuaResume, counters
    <3>2. CASE OwnerStep \/ Emit
      BY <3>2 DEF OwnerStep, Emit, NextSignal, ReadySlot, QueueSlot, counters
    <3>3. ASSUME NEW b \in BOOLEAN, Stop(b) \/ Resume(b)
          PROVE  session' = session
      BY <3>3 DEF Stop, Resume, counters
    <3>4. QED BY <2>1, <3>1, <3>2, <3>3 DEF Next
  <2>2. CASE UNCHANGED vars
    BY <2>2 DEF vars
  <2>3. QED BY <2>1, <2>2
<1>4. (Typed <=> TypedNow)'
  BY TypedIs, PTL
<1>5. CASE Next
  <2>1. CASE session = "lockers"
    <3>1. Setting(st)
      BY <1>1, <1>2, <2>1 DEF Setting, IInv, TypedNow
    <3>2. TypedNow' /\ Lockers(stack)'
      BY <1>5, <3>1, LockersStep
    <3>3. QED BY <1>3, <1>4, <2>1, <3>2 DEF IInv
  <2>2. CASE session = "pauses"
    <3>1. Interrupted(st)
      BY <1>1, <1>2, <2>2 DEF Interrupted, IInv, TypedNow
    <3>2. TypedNow' /\ Pauses(stack)'
      BY <1>5, <3>1, PausesStep
    <3>3. QED BY <1>3, <1>4, <2>2, <3>2 DEF IInv
  <2>3. QED BY <1>1, <2>1, <2>2
<1>6. CASE UNCHANGED vars
  <2>1. TypedNow'
    BY <1>1, <1>6 DEF TypedNow, vars
  <2>2. session = "lockers" => Lockers(stack)'
    <3>1. ASSUME session = "lockers" PROVE Lockers(stack)'
      <4>1. Lockers(stack)
        BY <3>1 DEF IInv
      <4>2. QED BY <1>6, <4>1 DEF vars, Lockers, Shape, LockOwned, HopPending, HopEnded, Running,
                     NoReadyEvent, NoPause
    <3>2. QED BY <3>1
  <2>3. session = "pauses" => Pauses(stack)'
    <3>1. ASSUME session = "pauses" PROVE Pauses(stack)'
      <4>1. Pauses(stack)
        BY <3>1 DEF IInv
      <4>2. QED BY <1>6, <4>1 DEF vars, Pauses, PauseShape
    <3>2. QED BY <3>1
  <2>4. QED BY <1>3, <1>4, <2>1, <2>2, <2>3 DEF IInv
<1>7. QED BY <1>5, <1>6

\* While lockers are called, or else programs pause, and events that call lockers do not
\* arrive in the loops of hops, the invariant holds: who is inside has the lock as often
\* as its frames say, a hop is one event or one frame, the engine is running while a program
\* runs or waits for its turn, and no event is under way that would make it ready.
THEOREM InvariantHolds ==
  ASSUME Nested = {}, "both" \notin Sessions
  PROVE  Spec => []IInv
<1>1. Init => IInv
  BY InitHolds
<1>2. IInv /\ [Next]_vars => IInv'
  BY StepHolds
<1>3. QED BY <1>1, <1>2, PTL DEF Spec

\* Every variable of the engine has its type: the lock's count does not go below zero, its
\* owner is a thread or nobody, and queues hold nothing but the engine's own events.
THEOREM TypeCorrect ==
  ASSUME Nested = {}, "both" \notin Sessions
  PROVE  Spec => []TypeOK
<1>1. IInv => TypeOK
  BY DEF IInv, Typed
<1>2. QED BY <1>1, InvariantHolds, PTL

\* No two threads are inside the interpreter, whichever way they came to it: by a locker,
\* an evaluation, a hop from another thread or a signal.
THEOREM OneThreadInLua ==
  ASSUME Nested = {}, "both" \notin Sessions
  PROVE  Spec => []OneInLua
<1>1. IInv => OneInLua
  <2> SUFFICES ASSUME IInv, NEW t \in Threads, NEW u \in Threads, InLua(t), InLua(u)
               PROVE  t = u
    BY DEF OneInLua
  <2>1. PICK st : st = stack
    OBVIOUS
  <2>2. TypedNow /\ st \in Stacks
    BY <2>1, TypedIs DEF IInv, TypedNow
  <2>3. /\ Top(st, t) \in {"lua", "stopped", "signals", "held", "done"}
        /\ Top(st, u) \in {"lua", "stopped", "signals", "held", "done"}
    BY <2>1, AtIs DEF InLua
  <2>4. CASE session = "lockers"
    <3>1. Inside(st, t) /\ Inside(st, u) /\ LockOwned(st)
      BY <2>1, <2>3, <2>4 DEF Inside, IInv, Lockers
    <3>2. QED BY <3>1 DEF LockOwned
  <2>5. CASE session = "pauses"
    <3>1. PauseShape(st)
      BY <2>1, <2>5 DEF IInv, Pauses
    <3>2. QED BY <2>2, <2>3, <3>1, OwnerOnly
  <2>6. QED BY <2>2, <2>4, <2>5, OwnerAssumption DEF TypedNow
<1>2. QED BY <1>1, InvariantHolds, PTL

\* While a program runs the engine says so: readySlot does not come between.
THEOREM StateReported ==
  ASSUME Nested = {}, "both" \notin Sessions
  PROVE  Spec => []RunningReported
<1>1. IInv => RunningReported
  <2> SUFFICES ASSUME IInv, NEW t \in Threads, At(t) = "lua"
               PROVE  rflag
    BY DEF RunningReported
  <2>1. PICK st : st = stack
    OBVIOUS
  <2>2. TypedNow /\ st \in Stacks
    BY <2>1, TypedIs DEF IInv, TypedNow
  <2>3. Top(st, t) = "lua"
    BY <2>1, AtIs
  <2>4. CASE session = "lockers"
    BY <2>1, <2>3, <2>4 DEF InProgram, IInv, Lockers, Running
  <2>5. CASE session = "pauses"
    <3>1. Pauses(st) /\ PauseShape(st)
      BY <2>1, <2>5 DEF IInv, Pauses
    <3>2. st[Owner] # <<>>
      BY <2>2, <2>3, <3>1, OwnerOnly
    <3>3. QED BY <3>1, <3>2 DEF Pauses
  <2>6. QED BY <2>2, <2>4, <2>5, OwnerAssumption DEF TypedNow
<1>2. QED BY <1>1, InvariantHolds, PTL
=============================================================================
