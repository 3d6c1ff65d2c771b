---------------------------- MODULE ThreadQueue -----------------------------
(***************************************************************************)
(* packages/thread/queue.lua: the bounded queue Lua threads exchange       *)
(* values through.  Every operation runs inside the queue's mutex, which   *)
(* RecursiveMutex describes; the table's live part is self[first..last-1]. *)
(*                                                                         *)
(* A producer signals `notempty' only when it made the queue non-empty and *)
(* a consumer signals `notfull' only when it took the queue from full, so  *)
(* whether sleepers are looked after is a property of all threads at once. *)
(***************************************************************************)
EXTENDS Integers

CONSTANTS Producers,   \* the threads that call insert
          Consumers,   \* the threads that call remove
          Values,
          Size,        \* the argument of newqueue
          NoValue,     \* what a consumer has before its first remove
          MaxInserts   \* bound on `last': no insert is called beyond it

ASSUME SizeAssumption == Size \in Nat \ {0}
ASSUME MaxInsertsAssumption == MaxInserts \in Nat
ASSUME RolesAssumption == Producers \cap Consumers = {}
ASSUME NoValueAssumption == NoValue \notin Values

Threads == Producers \cup Consumers

VARIABLES held, parked,      \* the queue's mutex
          first, last,       \* self.first, self.last
          slot,              \* self[k] for first <= k < last
          notempty, notfull, \* the threads asleep on each condition
          pc,                \* where each thread is
          item,              \* the argument `value' of a producer's insert
          got                \* the value a consumer's latest remove returned

vars == <<held, parked, first, last, slot, notempty, notfull, pc, item, got>>

M == INSTANCE RecursiveMutex

table == <<first, last, slot>>
conds == <<notempty, notfull>>
mutex == <<held, parked>>

Empty == first = last
\* Seeded fault: one slot too many.
FullLate == last - first > Size

Full == last - first >= Size

Labels == {"idle", "insert_test", "insert_asleep", "insert_signal",
           "remove_test", "remove_asleep", "remove_signal", "unlock"}

TypeOK == /\ M!TypeOK
          /\ first \in Nat /\ last \in Nat
          /\ slot \in [first .. (last - 1) -> Values]
          /\ notempty \subseteq Consumers /\ notfull \subseteq Producers
          /\ pc \in [Threads -> Labels]
          /\ item \in [Producers -> Values \cup {NoValue}]
          /\ got \in [Consumers -> Values \cup {NoValue}]

Init == /\ M!Init
        /\ first = 0 /\ last = 0
        /\ slot = [k \in {} |-> NoValue]
        /\ notempty = {} /\ notfull = {}
        /\ pc = [t \in Threads |-> "idle"]
        /\ item = [p \in Producers |-> NoValue]
        /\ got = [c \in Consumers |-> NoValue]

Goto(t, from, to) == pc[t] = from /\ pc' = [pc EXCEPT ![t] = to]

\* cond:signal() wakes one of the threads asleep, if there is any.
Signal(asleep) == IF asleep = {} THEN asleep' = asleep
                  ELSE \E u \in asleep : asleep' = asleep \ {u}

-----------------------------------------------------------------------------
\* insert(value)

InsertLock(p, v) == /\ last < MaxInserts
                    /\ Goto(p, "idle", "insert_test")
                    /\ M!Acquire(p)
                    /\ item' = [item EXCEPT ![p] = v]
                    /\ UNCHANGED <<table, conds, got>>

InsertWait(p) == /\ Full
                 /\ Goto(p, "insert_test", "insert_asleep")
                 /\ M!BeginWait(p)
                 /\ notfull' = notfull \cup {p}
                 /\ UNCHANGED <<table, notempty, item, got>>

InsertWake(p) == /\ p \notin notfull
                 /\ Goto(p, "insert_asleep", "insert_test")
                 /\ M!EndWait(p)
                 /\ UNCHANGED <<table, conds, item, got>>

\* Seeded fault: `wasempty' is read after the value went in.
InsertPutLate(p) == /\ ~Full
                    /\ Goto(p, "insert_test", "unlock")
                    /\ slot' = [k \in first .. last |-> IF k = last THEN item[p] ELSE slot[k]]
                    /\ last' = last + 1
                    /\ UNCHANGED <<mutex, first, conds, item, got>>

\* `wasempty' is read before the value goes in and decides whether to signal.
InsertPut(p) == /\ ~Full
                /\ Goto(p, "insert_test", IF Empty THEN "insert_signal" ELSE "unlock")
                /\ slot' = [k \in first .. last |-> IF k = last THEN item[p] ELSE slot[k]]
                /\ last' = last + 1
                /\ UNCHANGED <<mutex, first, conds, item, got>>

\* Seeded fault: the other condition is signalled.
InsertSignalOther(p) == /\ Goto(p, "insert_signal", "unlock")
                        /\ Signal(notfull)
                        /\ UNCHANGED <<mutex, table, notempty, item, got>>

InsertSignal(p) == /\ Goto(p, "insert_signal", "unlock")
                   /\ Signal(notempty)
                   /\ UNCHANGED <<mutex, table, notfull, item, got>>

-----------------------------------------------------------------------------
\* remove()

RemoveLock(c) == /\ Goto(c, "idle", "remove_test")
                 /\ M!Acquire(c)
                 /\ UNCHANGED <<table, conds, item, got>>

RemoveWait(c) == /\ Empty
                 /\ Goto(c, "remove_test", "remove_asleep")
                 /\ M!BeginWait(c)
                 /\ notempty' = notempty \cup {c}
                 /\ UNCHANGED <<table, notfull, item, got>>

RemoveWake(c) == /\ c \notin notempty
                 /\ Goto(c, "remove_asleep", "remove_test")
                 /\ M!EndWait(c)
                 /\ UNCHANGED <<table, conds, item, got>>

\* Seeded faults: `wasfull' is read after the value came out; the slot is kept.
RemoveTakeLate(c) == /\ ~Empty
                     /\ Goto(c, "remove_test", "unlock")
                     /\ got' = [got EXCEPT ![c] = slot[first]]
                     /\ slot' = [k \in (first + 1) .. (last - 1) |-> slot[k]]
                     /\ first' = first + 1
                     /\ UNCHANGED <<mutex, last, conds, item>>
RemoveTakeKeeps(c) == /\ ~Empty
                      /\ Goto(c, "remove_test", IF Full THEN "remove_signal" ELSE "unlock")
                      /\ got' = [got EXCEPT ![c] = slot[first]]
                      /\ first' = first + 1
                      /\ UNCHANGED <<mutex, last, slot, conds, item>>

\* `wasfull' is read before the value comes out.
RemoveTake(c) == /\ ~Empty
                 /\ Goto(c, "remove_test", IF Full THEN "remove_signal" ELSE "unlock")
                 /\ got' = [got EXCEPT ![c] = slot[first]]
                 /\ slot' = [k \in (first + 1) .. (last - 1) |-> slot[k]]
                 /\ first' = first + 1
                 /\ UNCHANGED <<mutex, last, conds, item>>

RemoveSignal(c) == /\ Goto(c, "remove_signal", "unlock")
                   /\ Signal(notfull)
                   /\ UNCHANGED <<mutex, table, notempty, item, got>>

-----------------------------------------------------------------------------
Unlock(t) == /\ Goto(t, "unlock", "idle")
             /\ M!Release(t)
             /\ UNCHANGED <<table, conds, item, got>>

\* pthread_cond_wait may return although nobody signalled.
WakeUnasked(t) == /\ t \in notempty \cup notfull
                  /\ notempty' = notempty \ {t}
                  /\ notfull' = notfull \ {t}
                  /\ UNCHANGED <<mutex, table, pc, item, got>>

\* What a thread does once it has the mutex: it is never blocked.
InsertStep(p) == InsertWait(p) \/ InsertPut(p) \/ InsertSignal(p) \/ Unlock(p)
RemoveStep(c) == RemoveWait(c) \/ RemoveTake(c) \/ RemoveSignal(c) \/ Unlock(c)

Next == \/ \E p \in Producers : \/ \E v \in Values : InsertLock(p, v)
                                \/ InsertWake(p)
                                \/ InsertStep(p)
        \/ \E c \in Consumers : RemoveLock(c) \/ RemoveWake(c) \/ RemoveStep(c)
        \/ \E t \in Threads : WakeUnasked(t)

Spec == Init /\ [][Next]_vars

\* A thread with the mutex goes on; and the mutex is not denied for ever to a
\* side that goes on asking for it.  Producers need not call insert again,
\* consumers call remove in a loop, as demos/multithreaded.lua does.
Fairness == /\ \A p \in Producers : WF_vars(InsertStep(p)) /\ SF_vars(InsertWake(p))
            /\ \A c \in Consumers : WF_vars(RemoveStep(c))
            /\ SF_vars(\E c \in Consumers : RemoveLock(c) \/ RemoveWake(c))

FairSpec == Spec /\ Fairness

-----------------------------------------------------------------------------
\* Properties

\* Where a consumer will look at the table again without being woken: anywhere
\* but asleep.
AllAsleep(S, asleep) == S # {} /\ S \subseteq asleep

\* No wakeup is lost for the consumers as a body: if values are waiting, then a
\* consumer is awake, or a producer is about to signal `notempty'.  Only the
\* insert that finds the queue empty signals, so this rests on the other
\* inserts finding a consumer already on its way.
ItemsServed == ~Empty /\ AllAsleep(Consumers, notempty)
                 => \E p \in Producers : pc[p] = "insert_signal"

\* The same for room and the producers: when not all slots are taken, a
\* producer is awake or a consumer is about to signal `notfull'.
RoomServed == ~Full /\ AllAsleep(Producers, notfull)
                => \E c \in Consumers : pc[c] = "remove_signal"

\* The queue is a bounded FIFO: an insert is the step that writes the slot, a
\* remove the step that clears it, and no spurious wakeup, no wakeup shared by
\* two threads and no interleaving of the tests adds another behaviour.
F == INSTANCE BoundedFifo WITH
       items <- [k \in 1 .. (last - first) |-> slot[first + k - 1]]

ImplementsBoundedFifo == F!Spec

\* Every value inserted is removed, as long as consumers keep calling remove;
\* producers may stop at any moment.
Delivered == \A k \in 0 .. (MaxInserts - 1) : (last > k) ~> (first > k)

\* When every producer has had to wait for room, one of their inserts returns.
\* With one producer, the way the repository's programs use a queue, this is that
\* every insert returns; with several, one insert can be left asleep once the
\* others stop, for the reason RoomServed says "a producer".
InsertReturns == (\A p \in Producers : pc[p] = "insert_asleep")
                   ~> (\E p \in Producers : pc[p] = "idle")
=============================================================================
