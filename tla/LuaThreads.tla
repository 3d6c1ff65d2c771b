----------------------------- MODULE LuaThreads -----------------------------
(***************************************************************************)
(* luathread.c, ltconf.h and lua_close: the life of the threads of a Lua   *)
(* program.  newthread gives the child a lua_State, keeps it from the      *)
(* collector by a registry entry, counts it as active and starts a         *)
(* pthread; thread_entry runs the function, drops the registry entry and   *)
(* counts itself out; lua_close waits until nobody is active and frees     *)
(* everything.                                                             *)
(*                                                                         *)
(* Every lua_* call takes the one global lock for its duration, so a step  *)
(* here is one locked stretch; between two steps any other thread may run, *)
(* and with it the garbage collector.                                      *)
(***************************************************************************)
EXTENDS Naturals, FiniteSets

CONSTANTS Children,    \* the child lua_States newthread may create (a bound)
          Main         \* the main thread of the program

ASSUME MainAssumption == Main \notin Children
ASSUME ChildrenAssumption == IsFiniteSet(Children)

Threads == Children \cup {Main}

VARIABLES pc,          \* where each thread is
          maker,       \* maker[c]: the thread whose newthread created c
          memory,      \* is the child's lua_State allocated?
          registry,    \* the children the registry refers to
          active,      \* lt_active
          process      \* is the program running, and if not, how did it end?

vars == <<pc, maker, memory, registry, active, process>>

ChildLabels == {"none",                               \* no lua_State yet
                "rooted", "registered", "counted",    \* inside newthread
                "refused", "failed",                  \* pthread_create failed
                "entry", "run", "creating",           \* inside thread_entry
                "unregister", "announce", "gone"}

MainLabels == {"run", "creating", "close_check", "close_asleep", "close_free",
               "closed"}

TypeOK == /\ pc \in [Threads -> ChildLabels \cup MainLabels]
          /\ pc[Main] \in MainLabels
          /\ \A c \in Children : pc[c] \in ChildLabels
          /\ maker \in [Children -> Threads]
          /\ memory \in [Children -> {"unused", "live", "freed"}]
          /\ registry \subseteq Children
          /\ active \in Nat
          /\ process \in {"up", "closed", "panicked", "crashed"}

Init == /\ pc = [t \in Threads |-> IF t = Main THEN "run" ELSE "none"]
        /\ maker = [c \in Children |-> Main]
        /\ memory = [c \in Children |-> "unused"]
        /\ registry = {}
        /\ active = 0
        /\ process = "up"

\* Thread t goes from one label to another while the program runs.
Goto(t, from, to) == /\ process = "up"
                     /\ pc[t] = from
                     /\ pc' = [pc EXCEPT ![t] = to]

-----------------------------------------------------------------------------
\* newthread, called by t for the new child c

\* lua_newthread leaves the thread object on the caller's stack.
NewState(t, c) == /\ process = "up"
                  /\ pc[t] = "run" /\ pc[c] = "none"
                  /\ pc' = [pc EXCEPT ![t] = "creating", ![c] = "rooted"]
                  /\ maker' = [maker EXCEPT ![c] = t]
                  /\ memory' = [memory EXCEPT ![c] = "live"]
                  /\ UNCHANGED <<registry, active, process>>

\* Seeded fault: no registry entry is made.
RegisterNothing(c) == /\ Goto(c, "rooted", "registered")
                      /\ UNCHANGED <<maker, memory, registry, active, process>>

Register(c) == /\ Goto(c, "rooted", "registered")
               /\ registry' = registry \cup {c}
               /\ UNCHANGED <<maker, memory, active, process>>

ActiveUp(c) == /\ Goto(c, "registered", "counted")
               /\ active' = active + 1
               /\ UNCHANGED <<maker, memory, registry, process>>

\* pthread_create: the child starts and newthread returns...
Start(c) == /\ process = "up"
            /\ pc[c] = "counted"
            /\ pc' = [pc EXCEPT ![c] = "entry", ![maker[c]] = "run"]
            /\ UNCHANGED <<maker, memory, registry, active, process>>

\* ... or it fails.
StartFails(c) == /\ Goto(c, "counted", "refused")
                 /\ UNCHANGED <<maker, memory, registry, active, process>>

\* Seeded fault: the failed child is counted out twice.
ActiveDownTwice(c) == /\ process = "up"
                      /\ pc[c] = "refused"
                      /\ pc' = [pc EXCEPT ![c] = "failed", ![maker[c]] = "run"]
                      /\ active' = active - 2
                      /\ UNCHANGED <<maker, memory, registry, process>>
\* Seeded fault: it is not counted out.
ActiveDownNot(c) == /\ process = "up"
                    /\ pc[c] = "refused"
                    /\ pc' = [pc EXCEPT ![c] = "failed", ![maker[c]] = "run"]
                    /\ UNCHANGED <<maker, memory, registry, active, process>>

\* lt_activedown, then the error: the caller's pcall takes it (Panics has the
\* case without one).  The registry entry stays.
ActiveDown(c) == /\ process = "up"
                 /\ pc[c] = "refused"
                 /\ pc' = [pc EXCEPT ![c] = "failed", ![maker[c]] = "run"]
                 /\ active' = active - 1
                 /\ UNCHANGED <<maker, memory, registry, process>>

-----------------------------------------------------------------------------
\* thread_entry

\* The arguments are unpacked; then the function runs.
Enter(c) == /\ Goto(c, "entry", "run")
            /\ UNCHANGED <<maker, memory, registry, active, process>>

Return(c) == /\ Goto(c, "run", "unregister")
             /\ UNCHANGED <<maker, memory, registry, active, process>>

\* An error inside lua_call has no protected call around it: luaD_throw calls
\* the panic function and exits.
Panics(c) == /\ process = "up"
             /\ pc[c] \in {"entry", "run"}
             /\ process' = "panicked"
             /\ UNCHANGED <<pc, maker, memory, registry, active>>

Unregister(c) == /\ Goto(c, "unregister", "announce")
                 /\ registry' = registry \ {c}
                 /\ UNCHANGED <<maker, memory, active, process>>

\* Seeded fault: the main thread is not woken.
AnnounceSilent(c) == /\ Goto(c, "announce", "gone")
                     /\ active' = active - 1
                     /\ UNCHANGED <<maker, memory, registry, process>>

\* lt_activedownandsignal wakes the main thread if it sleeps in lua_close.
\* The state it reaches lt_extra through may have been freed: then it either
\* still finds the old pointer there, or (AnnounceCrashes) it does not.
Announce(c) == /\ process = "up"
               /\ pc[c] = "announce"
               /\ active' = active - 1
               /\ pc' = [pc EXCEPT ![c] = "gone",
                                   ![Main] = IF @ = "close_asleep" THEN "close_check" ELSE @]
               /\ UNCHANGED <<maker, memory, registry, process>>

AnnounceCrashes(c) == /\ process = "up"
                      /\ pc[c] = "announce" /\ memory[c] = "freed"
                      /\ process' = "crashed"
                      /\ UNCHANGED <<pc, maker, memory, registry, active>>

-----------------------------------------------------------------------------
\* The collector, running inside thread t.  It marks the registry, the main
\* thread, the thread it runs in and what is on their stacks.
Collect(t, c) == /\ process = "up"
                 /\ t # c
                 /\ pc[t] \in {"entry", "run", "creating"}
                 /\ memory[c] = "live"
                 /\ c \notin registry /\ pc[c] # "rooted"
                 /\ memory' = [memory EXCEPT ![c] = "freed"]
                 /\ UNCHANGED <<pc, maker, registry, active, process>>

-----------------------------------------------------------------------------
\* The main thread's lua_close

CallClose == /\ Goto(Main, "run", "close_check")
             /\ UNCHANGED <<maker, memory, registry, active, process>>

\* Seeded fault: one active thread is taken for none.
CloseCheckEarly == /\ Goto(Main, "close_check",
                           IF active > 1 THEN "close_asleep" ELSE "close_free")
                   /\ UNCHANGED <<maker, memory, registry, active, process>>

CloseCheck == /\ Goto(Main, "close_check",
                      IF active > 0 THEN "close_asleep" ELSE "close_free")
              /\ UNCHANGED <<maker, memory, registry, active, process>>

\* pthread_cond_wait may return although nobody signalled.
WakeUnasked == /\ Goto(Main, "close_asleep", "close_check")
               /\ UNCHANGED <<maker, memory, registry, active, process>>

\* close_state frees every object and luai_userstateclose the lock itself.
CloseState == /\ process = "up"
              /\ pc[Main] = "close_free"
              /\ pc' = [pc EXCEPT ![Main] = "closed"]
              /\ memory' = [c \in Children |->
                              IF memory[c] = "live" THEN "freed" ELSE memory[c]]
              /\ registry' = {}
              /\ process' = "closed"
              /\ UNCHANGED <<maker, active>>

-----------------------------------------------------------------------------
\* What c's newthread, or c itself, does next without anybody's leave.
ChildStep(c) == \/ Register(c) \/ ActiveUp(c) \/ Start(c) \/ StartFails(c)
                \/ ActiveDown(c) \/ Enter(c) \/ Return(c) \/ Unregister(c)
                \/ Announce(c) \/ AnnounceCrashes(c)

MainStep == CloseCheck \/ CloseState

Next == \/ \E t \in Threads, c \in Children : NewState(t, c) \/ Collect(t, c)
        \/ \E c \in Children : ChildStep(c) \/ Panics(c)
        \/ CallClose \/ MainStep \/ WakeUnasked

Spec == Init /\ [][Next]_vars

\* Threads are scheduled, and the functions they run return.
FairSpec == /\ Spec
            /\ \A c \in Children : WF_vars(ChildStep(c))
            /\ WF_vars(MainStep)

-----------------------------------------------------------------------------
\* Properties

\* The children lt_active stands for: counted in by newthread and not yet
\* counted out by their own last step or by the failed newthread.
Counted == {c \in Children : pc[c] \in {"counted", "refused", "entry", "run",
                                        "creating", "unregister", "announce"}}

\* lt_active is exactly the number of threads started, being started or not
\* yet finished, whoever started them and whether pthread_create worked.
ActiveExact == process = "up" => active = Cardinality(Counted)

\* The main thread leaves its wait only when no child is, or will be, inside
\* the interpreter: not one that a finished thread created on its way out, and
\* not one another child is creating.
ClosesAlone == pc[Main] \in {"close_free", "closed"} =>
                 \A c \in Children : pc[c] \in {"none", "failed", "gone"}

\* From its first instruction to the removal of the registry entry, a thread
\* runs in a lua_State the collector cannot take.
RunningStateAlive == \A c \in Children :
  process = "up" /\ pc[c] \in {"entry", "run", "creating", "unregister"}
    => memory[c] = "live" /\ c \in registry

\* luathread.c:56 keeps a "hard reference to the thread object" for the thread,
\* and luathread.c:42 has it running until it announces otherwise: the state it
\* announces through should still be there.
AnnouncedStateAlive == \A c \in Children :
  process = "up" /\ pc[c] = "announce" => memory[c] = "live"

\* lua_close comes back: the last thread to finish wakes the main thread, and no
\* failed newthread leaves a count behind that nobody will take down.
CloseReturns == pc[Main] = "close_check" ~> process # "up"
=============================================================================
