------------------------- MODULE SafeRecursiveMutex -------------------------
(***************************************************************************)
(* srm.c: the recursive mutex LuaThread gives to Lua programs, built from  *)
(* two plain pthread mutexes.  `mutex' is the lock itself, `barrier'       *)
(* protects the pair (owner, locks) that says who is inside and how deep.  *)
(* A thread that is refused by the test on that pair leaves the barrier,   *)
(* blocks on `mutex', and only then comes back to write its name; a thread *)
(* that waits on a condition clears `locks' while it still has `mutex',    *)
(* sleeps, and writes the pair back when pthread_cond_wait has returned.   *)
(*                                                                         *)
(* One action is one stretch of code up to the next point where a thread   *)
(* can block; the release of the barrier belongs to the stretch it ends.   *)
(***************************************************************************)
EXTENDS Naturals

CONSTANTS Threads,
          NoThread,    \* no pthread_t: a plain mutex nobody has
          MaxDepth     \* bound on nested srm_lock calls (an int in the code)

ASSUME NoThreadAssumption == NoThread \notin Threads
ASSUME MaxDepthAssumption == MaxDepth \in Nat \ {0}

VARIABLES mutex,     \* the thread that has srm->mutex
          barrier,   \* the thread that has srm->barrier
          owner,     \* srm->owner
          locks,     \* srm->locks
          saved,     \* the locals `owner' and `locks' of srm_cond_wait
          pc,        \* where each thread is
          depth      \* how many srm_lock calls each client still has to undo

vars == <<mutex, barrier, owner, locks, saved, pc, depth>>

Holder == Threads \cup {NoThread}

\* A label names what its thread does next; "idle" is outside srm.c.
InBarrier == {"lock_test", "lock_claim", "unlock_test", "unlock_mutex",
              "wait_save", "wait_restore"}

Labels == InBarrier \cup
          {"idle", "lock_barrier", "lock_mutex", "lock_rebarrier",
           "unlock_barrier", "wait_barrier", "wait_sleep", "wait_asleep",
           "wait_rebarrier"}

TypeOK == /\ mutex \in Holder
          /\ barrier \in Holder
          /\ owner \in Holder
          /\ locks \in Nat
          /\ saved \in [Threads -> [owner : Holder, locks : Nat]]
          /\ pc \in [Threads -> Labels]
          /\ depth \in [Threads -> Nat]

\* srm_init sets `locks' and leaves `owner' as malloc'ed memory: any value.
Init == /\ mutex = NoThread
        /\ barrier = NoThread
        /\ owner \in Holder
        /\ locks = 0
        /\ saved = [t \in Threads |-> [owner |-> NoThread, locks |-> 0]]
        /\ pc = [t \in Threads |-> "idle"]
        /\ depth = [t \in Threads |-> 0]

Goto(t, from, to) == pc[t] = from /\ pc' = [pc EXCEPT ![t] = to]

\* pthread_mutex_lock(srm->barrier), met at five places.
TakeBarrier(t, from, to) ==
  /\ Goto(t, from, to)
  /\ barrier = NoThread
  /\ barrier' = t
  /\ UNCHANGED <<mutex, owner, locks, saved, depth>>

\* Seeded faults: half of the test is missing.
InsideAnyOwner(t) == locks > 0
InsideAnyCount(t) == owner = t

\* The test of srm_lock and srm_unlock: is the caller inside already?
Inside(t) == locks > 0 /\ owner = t

-----------------------------------------------------------------------------
\* Calls.  A client waits on a condition only inside the mutex (queue.lua:7-9).

CallLock(t) == /\ depth[t] < MaxDepth
               /\ Goto(t, "idle", "lock_barrier")
               /\ UNCHANGED <<mutex, barrier, owner, locks, saved, depth>>

CallUnlock(t) == /\ Goto(t, "idle", "unlock_barrier")
                 /\ UNCHANGED <<mutex, barrier, owner, locks, saved, depth>>

CallWait(t) == /\ depth[t] > 0
               /\ Goto(t, "idle", "wait_barrier")
               /\ UNCHANGED <<mutex, barrier, owner, locks, saved, depth>>

-----------------------------------------------------------------------------
\* srm_lock

LockBarrier(t) == TakeBarrier(t, "lock_barrier", "lock_test")

\* Re-entry: the caller is the owner.
LockAgain(t) == /\ Inside(t)
                /\ Goto(t, "lock_test", "idle")
                /\ locks' = locks + 1
                /\ depth' = [depth EXCEPT ![t] = @ + 1]
                /\ barrier' = NoThread
                /\ UNCHANGED <<mutex, owner, saved>>

\* Anybody else leaves the barrier to queue for the mutex.
LockRefused(t) == /\ ~Inside(t)
                  /\ Goto(t, "lock_test", "lock_mutex")
                  /\ barrier' = NoThread
                  /\ UNCHANGED <<mutex, owner, locks, saved, depth>>

LockMutex(t) == /\ Goto(t, "lock_mutex", "lock_rebarrier")
                /\ mutex = NoThread
                /\ mutex' = t
                /\ UNCHANGED <<barrier, owner, locks, saved, depth>>

LockRebarrier(t) == TakeBarrier(t, "lock_rebarrier", "lock_claim")

LockClaim(t) == /\ Goto(t, "lock_claim", "idle")
                /\ owner' = t
                /\ locks' = 1
                /\ depth' = [depth EXCEPT ![t] = @ + 1]
                /\ barrier' = NoThread
                /\ UNCHANGED <<mutex, saved>>

-----------------------------------------------------------------------------
\* srm_unlock

UnlockBarrier(t) == TakeBarrier(t, "unlock_barrier", "unlock_test")

\* One of several levels is left.
UnlockOne(t) == /\ Inside(t) /\ locks > 1
                /\ Goto(t, "unlock_test", "idle")
                /\ locks' = locks - 1
                /\ depth' = [depth EXCEPT ![t] = @ - 1]
                /\ barrier' = NoThread
                /\ UNCHANGED <<mutex, owner, saved>>

\* The last level is left: the mutex is released inside the barrier.
UnlockLast(t) == /\ Inside(t) /\ locks = 1
                 /\ Goto(t, "unlock_test", "unlock_mutex")
                 /\ locks' = 0
                 /\ depth' = [depth EXCEPT ![t] = @ - 1]
                 /\ UNCHANGED <<mutex, barrier, owner, saved>>

\* The caller is not the owner: srm_unlock returns -1.
UnlockRefused(t) == /\ ~Inside(t)
                    /\ Goto(t, "unlock_test", "idle")
                    /\ barrier' = NoThread
                    /\ UNCHANGED <<mutex, owner, locks, saved, depth>>

UnlockMutex(t) == /\ Goto(t, "unlock_mutex", "idle")
                  /\ mutex' = NoThread
                  /\ barrier' = NoThread
                  /\ UNCHANGED <<owner, locks, saved, depth>>

-----------------------------------------------------------------------------
\* srm_cond_wait

WaitBarrier(t) == TakeBarrier(t, "wait_barrier", "wait_save")

WaitSave(t) == /\ Goto(t, "wait_save", "wait_sleep")
               /\ saved' = [saved EXCEPT ![t] = [owner |-> owner, locks |-> locks]]
               /\ locks' = 0
               /\ barrier' = NoThread
               /\ UNCHANGED <<mutex, owner, depth>>

\* pthread_cond_wait gives up the mutex and sleeps in one step.
WaitSleep(t) == /\ Goto(t, "wait_sleep", "wait_asleep")
                /\ mutex' = NoThread
                /\ UNCHANGED <<barrier, owner, locks, saved, depth>>

\* It returns with the mutex: after a signal, a broadcast or for no reason.
WaitWake(t) == /\ Goto(t, "wait_asleep", "wait_rebarrier")
               /\ mutex = NoThread
               /\ mutex' = t
               /\ UNCHANGED <<barrier, owner, locks, saved, depth>>

WaitRebarrier(t) == TakeBarrier(t, "wait_rebarrier", "wait_restore")

\* Seeded faults: the name, or the depth, is not written back.
WaitRestoreNoOwner(t) == /\ Goto(t, "wait_restore", "idle")
                         /\ locks' = saved[t].locks
                         /\ barrier' = NoThread
                         /\ UNCHANGED <<mutex, owner, saved, depth>>
WaitRestoreOne(t) == /\ Goto(t, "wait_restore", "idle")
                     /\ owner' = saved[t].owner
                     /\ locks' = 1
                     /\ barrier' = NoThread
                     /\ UNCHANGED <<mutex, saved, depth>>

WaitRestore(t) == /\ Goto(t, "wait_restore", "idle")
                  /\ owner' = saved[t].owner
                  /\ locks' = saved[t].locks
                  /\ barrier' = NoThread
                  /\ UNCHANGED <<mutex, saved, depth>>

-----------------------------------------------------------------------------
Call(t) == CallLock(t) \/ CallUnlock(t) \/ CallWait(t)

Lock(t) == \/ LockBarrier(t) \/ LockAgain(t) \/ LockRefused(t)
           \/ LockMutex(t) \/ LockRebarrier(t) \/ LockClaim(t)

Unlock(t) == \/ UnlockBarrier(t) \/ UnlockOne(t) \/ UnlockLast(t)
             \/ UnlockRefused(t) \/ UnlockMutex(t)

CondWait(t) == \/ WaitBarrier(t) \/ WaitSave(t) \/ WaitSleep(t)
               \/ WaitWake(t) \/ WaitRebarrier(t) \/ WaitRestore(t)

Next == \E t \in Threads : Call(t) \/ Lock(t) \/ Unlock(t) \/ CondWait(t)

Spec == Init /\ [][Next]_vars
-----------------------------------------------------------------------------
\* Properties

InWait == {"wait_sleep", "wait_asleep", "wait_rebarrier", "wait_restore"}

\* The threads between a successful srm_lock and the matching srm_unlock, the
\* one asleep in pthread_cond_wait left out.
Entered(t) == depth[t] > 0 /\ pc[t] # "wait_asleep"

\* Mutual exclusion: the code a client runs between srm_lock and srm_unlock,
\* or that the runtime runs for it around a condition wait, is never entered by
\* two threads, whatever pair (owner, locks) an earlier owner left behind.
OneInside == \A t, u \in Threads : Entered(t) /\ Entered(u) => t = u

\* Whoever is inside and not waiting is the recorded owner at exactly its own
\* depth: nothing another thread's refused calls, or a wait that set the pair
\* aside and wrote it back, did in between is left in (owner, locks).
CountExact == \A t \in Threads :
                depth[t] > 0 /\ pc[t] \notin InWait => owner = t /\ locks = depth[t]

\* The tests at srm.c:45 and srm.c:60, which read the pair another thread wrote,
\* say "inside" to a thread exactly when it is: no client blocks on a mutex it
\* already has, and srm_unlock returns -1 to no holder and 0 to nobody else.
Verdict == \A t \in Threads :
             pc[t] \in {"lock_test", "unlock_test"} => (Inside(t) <=> depth[t] > 0)

\* The depth a thread is at, told by the fields of srm_t and the locals of
\* srm_cond_wait alone.
HeldBy(t) == CASE pc[t] \in InWait \ {"wait_asleep"} -> saved[t].locks
               [] pc[t] = "wait_asleep" -> 0
               [] OTHER -> IF owner = t THEN locks ELSE 0

ParkedBy(t) == IF pc[t] = "wait_asleep" THEN saved[t].locks ELSE 0

R == INSTANCE RecursiveMutex WITH
       held <- [t \in Threads |-> HeldBy(t)],
       parked <- [t \in Threads |-> ParkedBy(t)]

\* srm.c implements the recursive mutex: srm_lock enters where it writes the
\* pair, srm_unlock leaves where it decrements it, a wait begins and ends inside
\* pthread_cond_wait, and every other step changes nothing a client can see.
ImplementsRecursiveMutex == R!Spec
=============================================================================
