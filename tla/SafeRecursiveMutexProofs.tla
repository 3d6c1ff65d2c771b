---------------------- MODULE SafeRecursiveMutexProofs ----------------------
(***************************************************************************)
(* Theorems about srm.c for any set of threads and any depth.  The         *)
(* invariant IInv is inductive; everything else is read off it.            *)
(***************************************************************************)
EXTENDS SafeRecursiveMutex, TLAPS

-----------------------------------------------------------------------------
\* The inductive invariant

HasBarrier(t) == pc[t] \in InBarrier

\* Where a thread has srm->mutex: it is inside, about to claim, or about to leave.
HasMutex(t) == \/ pc[t] \in {"lock_rebarrier", "lock_claim", "unlock_mutex"}
               \/ Entered(t)

BarrierOwned == \A t \in Threads : HasBarrier(t) <=> barrier = t

MutexOwned == \A t \in Threads : HasMutex(t) <=> mutex = t

\* A positive count names a thread that is inside and not in a wait.
CountOwned == locks > 0 => /\ owner \in Threads
                           /\ depth[owner] > 0
                           /\ pc[owner] \notin InWait

\* A waiting thread's locals are what it will have to be given back.
WaitSaved == \A t \in Threads :
               /\ pc[t] \in InWait => saved[t] = [owner |-> t, locks |-> depth[t]]
               /\ pc[t] \in InWait \cup {"wait_barrier", "wait_save"} => depth[t] > 0

\* A thread that found itself outside, or has just left, counts nothing.
OutsideCounts == \A t \in Threads :
                   pc[t] \in {"lock_mutex", "lock_rebarrier", "lock_claim", "unlock_mutex"}
                     => depth[t] = 0

IInv == /\ TypeOK
        /\ BarrierOwned
        /\ MutexOwned
        /\ CountOwned
        /\ CountExact
        /\ WaitSaved
        /\ OutsideCounts

-----------------------------------------------------------------------------
(* Proofs.                                                                 *)

\* srm_init leaves any owner behind, but a count of zero.
LEMMA InitEstablishesIInv == Init => IInv
  BY NoThreadAssumption DEF Init, IInv, TypeOK, BarrierOwned, MutexOwned,
     CountOwned, CountExact, WaitSaved, OutsideCounts, HasBarrier, HasMutex,
     Entered, Holder, InBarrier, InWait, Labels

\* Every stretch of srm.c preserves the invariant.
LEMMA NextPreservesIInv == IInv /\ [Next]_vars => IInv'
<1> SUFFICES ASSUME IInv, [Next]_vars PROVE IInv'
  OBVIOUS
<1> USE NoThreadAssumption DEF IInv, TypeOK, BarrierOwned, MutexOwned,
     CountOwned, CountExact, WaitSaved, OutsideCounts, HasBarrier, HasMutex,
     Entered, Holder, InBarrier, InWait, Labels, Goto, TakeBarrier, Inside
<1>1. ASSUME NEW t \in Threads, Call(t) PROVE IInv'
  <2>1. CASE CallLock(t) BY <2>1 DEF CallLock
  <2>2. CASE CallUnlock(t) BY <2>2 DEF CallUnlock
  <2>3. CASE CallWait(t) BY <2>3 DEF CallWait
  <2>4. QED BY <1>1, <2>1, <2>2, <2>3 DEF Call
<1>2. ASSUME NEW t \in Threads, Lock(t) PROVE IInv'
  <2>1. CASE LockBarrier(t) BY <2>1 DEF LockBarrier
  <2>2. CASE LockAgain(t) BY <2>2 DEF LockAgain
  <2>3. CASE LockRefused(t) BY <2>3 DEF LockRefused
  <2>4. CASE LockMutex(t) BY <2>4 DEF LockMutex
  <2>5. CASE LockRebarrier(t) BY <2>5 DEF LockRebarrier
  <2>6. CASE LockClaim(t) BY <2>6 DEF LockClaim
  <2>7. QED BY <1>2, <2>1, <2>2, <2>3, <2>4, <2>5, <2>6 DEF Lock
<1>3. ASSUME NEW t \in Threads, Unlock(t) PROVE IInv'
  <2>1. CASE UnlockBarrier(t) BY <2>1 DEF UnlockBarrier
  <2>2. CASE UnlockOne(t) BY <2>2 DEF UnlockOne
  <2>3. CASE UnlockLast(t) BY <2>3 DEF UnlockLast
  <2>4. CASE UnlockRefused(t) BY <2>4 DEF UnlockRefused
  <2>5. CASE UnlockMutex(t) BY <2>5 DEF UnlockMutex
  <2>6. QED BY <1>3, <2>1, <2>2, <2>3, <2>4, <2>5 DEF Unlock
<1>4. ASSUME NEW t \in Threads, CondWait(t) PROVE IInv'
  <2>1. CASE WaitBarrier(t) BY <2>1 DEF WaitBarrier
  <2>2. CASE WaitSave(t) BY <2>2 DEF WaitSave
  <2>3. CASE WaitSleep(t) BY <2>3 DEF WaitSleep
  <2>4. CASE WaitWake(t) BY <2>4 DEF WaitWake
  <2>5. CASE WaitRebarrier(t) BY <2>5 DEF WaitRebarrier
  <2>6. CASE WaitRestore(t) BY <2>6 DEF WaitRestore
  <2>7. QED BY <1>4, <2>1, <2>2, <2>3, <2>4, <2>5, <2>6 DEF CondWait
<1>5. CASE UNCHANGED vars BY <1>5 DEF vars
<1>6. QED BY <1>1, <1>2, <1>3, <1>4, <1>5 DEF Next

\* Whoever is inside has srm->mutex, and one thread has it.
LEMMA IInvImpliesOneInside == IInv => OneInside
  BY DEF IInv, OneInside, MutexOwned, HasMutex

\* With the barrier nobody is in the middle of writing the pair.
LEMMA IInvImpliesVerdict == IInv => Verdict
  BY NoThreadAssumption DEF IInv, TypeOK, Verdict, CountOwned, CountExact,
     OutsideCounts, Inside, InWait, Labels, InBarrier, Holder

\* The inductive invariant holds in every reachable state.
THEOREM InvariantHolds == Spec => []IInv
  BY InitEstablishesIInv, NextPreservesIInv, PTL DEF Spec

\* Every variable of srm.c keeps its type; in particular `locks' and every
\* client's balance of srm_lock and srm_unlock never become negative.
THEOREM TypeCorrect == Spec => []TypeOK
<1>1. IInv => TypeOK BY DEF IInv
<1>2. QED BY InvariantHolds, <1>1, PTL

\* srm.c excludes: two threads are never both inside.
THEOREM MutualExclusion == Spec => []OneInside
  BY InvariantHolds, IInvImpliesOneInside, PTL

\* The recorded owner and depth are those of the thread inside.
THEOREM ExactCount == Spec => []CountExact
<1>1. IInv => CountExact BY DEF IInv
<1>2. QED BY InvariantHolds, <1>1, PTL

\* The tests of srm_lock and srm_unlock never take a thread for another.
THEOREM TestsDecideRightly == Spec => []Verdict
  BY InvariantHolds, IInvImpliesVerdict, PTL

-----------------------------------------------------------------------------
(***************************************************************************)
(* Refinement.  Four steps are visible to a client: the claim or the       *)
(* re-entry (Acquire), the decrement (Release), going to sleep (BeginWait) *)
(* and waking with the mutex (EndWait).  The save and the restore of the   *)
(* pair are not: HeldBy reads the locals of srm_cond_wait in between.      *)
(***************************************************************************)

held == [t \in Threads |-> HeldBy(t)]
parked == [t \in Threads |-> ParkedBy(t)]

\* At first nobody is inside in either specification.
LEMMA InitRefines == Init => R!Init
  BY NoThreadAssumption DEF Init, R!Init, HeldBy, ParkedBy, InWait

\* Whoever has the mutex, nobody else counts as inside.
LEMMA OthersHoldNothing ==
  ASSUME IInv, NEW t \in Threads, mutex = t \/ mutex = NoThread
  PROVE  \A u \in Threads \ {t} : HeldBy(u) = 0
<1> USE NoThreadAssumption DEF IInv, TypeOK, MutexOwned, HasMutex, Entered, Holder
<1> SUFFICES ASSUME NEW u \in Threads \ {t} PROVE HeldBy(u) = 0
  OBVIOUS
<1>1. pc[u] \notin {"wait_sleep", "wait_rebarrier", "wait_restore"}
  BY DEF WaitSaved, InWait
<1>2. CASE pc[u] = "wait_asleep" BY <1>2 DEF HeldBy, InWait
<1>3. CASE pc[u] \notin InWait /\ owner = u
  <2>1. depth[u] = 0 BY <1>3 DEF InWait
  <2>2. locks = 0 BY <1>3, <2>1 DEF CountOwned
  <2>3. QED BY <1>3, <2>2 DEF HeldBy, InWait
<1>4. CASE pc[u] \notin InWait /\ owner # u BY <1>4 DEF HeldBy, InWait
<1>5. QED BY <1>1, <1>2, <1>3, <1>4 DEF InWait

\* LockAgain and LockClaim acquire, UnlockOne and UnlockLast release, WaitSleep
\* and WaitWake begin and end a wait; every other step is a stutter.
LEMMA NextRefines == IInv /\ IInv' /\ [Next]_vars => [R!Next]_(R!vars)
<1> SUFFICES ASSUME IInv, IInv', [Next]_vars
             PROVE  R!Next \/ UNCHANGED <<held, parked>>
  BY DEF R!vars, held, parked
<1> USE NoThreadAssumption DEF IInv, TypeOK, Holder
<1> DEFINE Stutters == \A u \in Threads : /\ HeldBy(u)' = HeldBy(u)
                                         /\ ParkedBy(u)' = ParkedBy(u)
<1>1. Stutters => UNCHANGED <<held, parked>>
  BY DEF held, parked
<1> HIDE DEF Stutters
<1>2. ASSUME NEW t \in Threads, Call(t) PROVE Stutters
  BY <1>2 DEF Stutters, Call, CallLock, CallUnlock, CallWait, Goto, HeldBy,
     ParkedBy, InWait
<1>3. ASSUME NEW t \in Threads, LockBarrier(t) \/ LockRefused(t) \/
             LockMutex(t) \/ LockRebarrier(t)
      PROVE Stutters
  BY <1>3 DEF Stutters, LockBarrier, LockRefused, LockMutex, LockRebarrier,
     TakeBarrier, Goto, HeldBy, ParkedBy, InWait
<1>4. ASSUME NEW t \in Threads, UnlockBarrier(t) \/ UnlockRefused(t) \/ UnlockMutex(t)
      PROVE Stutters
  BY <1>4 DEF Stutters, UnlockBarrier, UnlockRefused, UnlockMutex, TakeBarrier,
     Goto, HeldBy, ParkedBy, InWait
<1>5. ASSUME NEW t \in Threads, WaitBarrier(t) \/ WaitRebarrier(t)
      PROVE Stutters
  BY <1>5 DEF Stutters, WaitBarrier, WaitRebarrier, TakeBarrier, Goto, HeldBy,
     ParkedBy, InWait
<1>6. ASSUME NEW t \in Threads, LockAgain(t) \/ LockClaim(t) PROVE R!Acquire(t)
  <2>1. mutex = t
    BY <1>6 DEF LockAgain, LockClaim, Inside, Goto, MutexOwned, HasMutex, CountOwned, Entered, InWait
  <2>2. R!FreeFor(t)
    BY <2>1, OthersHoldNothing DEF R!FreeFor
  <2>3. /\ HeldBy(t)' = HeldBy(t) + 1
        /\ ParkedBy(t) = 0 /\ ParkedBy(t)' = 0
    BY <1>6 DEF LockAgain, LockClaim, Inside, Goto, HeldBy, ParkedBy, InWait,
       OutsideCounts, CountOwned
  <2>4. ASSUME NEW u \in Threads \ {t}
        PROVE  HeldBy(u)' = HeldBy(u) /\ ParkedBy(u)' = ParkedBy(u)
    <3>1. HeldBy(u) = 0 BY <2>1, OthersHoldNothing
    <3>2. pc'[u] = pc[u] /\ saved' = saved /\ owner' = t
      BY <1>6 DEF LockAgain, LockClaim, Inside, Goto
    <3>3. QED BY <3>1, <3>2 DEF HeldBy, ParkedBy, InWait
  <2>5. QED BY <2>2, <2>3, <2>4 DEF R!Acquire
<1>7. ASSUME NEW t \in Threads, UnlockOne(t) \/ UnlockLast(t) PROVE R!Release(t)
  <2>1. /\ HeldBy(t) > 0 /\ HeldBy(t)' = HeldBy(t) - 1
        /\ ParkedBy(t)' = ParkedBy(t)
    BY <1>7 DEF UnlockOne, UnlockLast, Inside, Goto, HeldBy, ParkedBy, InWait
  <2>2. \A u \in Threads \ {t} : HeldBy(u)' = HeldBy(u) /\ ParkedBy(u)' = ParkedBy(u)
    BY <1>7 DEF UnlockOne, UnlockLast, Inside, Goto, HeldBy, ParkedBy, InWait
  <2>3. QED BY <2>1, <2>2 DEF R!Release
<1>8. ASSUME NEW t \in Threads, WaitSave(t) PROVE Stutters
  BY <1>8 DEF WaitSave, Goto, HeldBy, ParkedBy, InWait, Stutters, WaitSaved, CountExact
<1>9. ASSUME NEW t \in Threads, WaitSleep(t) PROVE R!BeginWait(t)
  <2>1. /\ HeldBy(t) > 0 /\ HeldBy(t)' = 0
        /\ ParkedBy(t)' = HeldBy(t)
    BY <1>9 DEF WaitSleep, Goto, HeldBy, ParkedBy, InWait, WaitSaved
  <2>2. \A u \in Threads \ {t} : HeldBy(u)' = HeldBy(u) /\ ParkedBy(u)' = ParkedBy(u)
    BY <1>9 DEF WaitSleep, Goto, HeldBy, ParkedBy, InWait
  <2>3. QED BY <2>1, <2>2 DEF R!BeginWait
<1>10. ASSUME NEW t \in Threads, WaitWake(t) PROVE R!EndWait(t)
  <2>1. R!FreeFor(t)
    BY <1>10, OthersHoldNothing DEF WaitWake, R!FreeFor
  <2>2. /\ HeldBy(t)' = ParkedBy(t)
        /\ ParkedBy(t) > 0 /\ ParkedBy(t)' = 0
    BY <1>10 DEF WaitWake, Goto, HeldBy, ParkedBy, InWait, WaitSaved
  <2>3. \A u \in Threads \ {t} : HeldBy(u)' = HeldBy(u) /\ ParkedBy(u)' = ParkedBy(u)
    BY <1>10 DEF WaitWake, Goto, HeldBy, ParkedBy, InWait
  <2>4. QED BY <2>1, <2>2, <2>3 DEF R!EndWait
<1>11. ASSUME NEW t \in Threads, WaitRestore(t) PROVE Stutters
  <2>1. mutex = t /\ saved[t].owner = t /\ saved[t].locks = depth[t]
    BY <1>11 DEF WaitRestore, Goto, MutexOwned, HasMutex, Entered, WaitSaved, InWait
  <2>2. HeldBy(t)' = HeldBy(t) /\ ParkedBy(t)' = ParkedBy(t)
    BY <1>11, <2>1 DEF WaitRestore, Goto, HeldBy, ParkedBy, InWait
  <2>3. ASSUME NEW u \in Threads \ {t}
        PROVE  HeldBy(u)' = HeldBy(u) /\ ParkedBy(u)' = ParkedBy(u)
    <3>1. HeldBy(u) = 0 BY <2>1, OthersHoldNothing
    <3>2. pc'[u] = pc[u] /\ saved' = saved /\ owner' = t
      BY <1>11, <2>1 DEF WaitRestore, Goto
    <3>3. QED BY <3>1, <3>2 DEF HeldBy, ParkedBy, InWait
  <2>4. QED BY <2>2, <2>3 DEF Stutters
<1>12. ASSUME UNCHANGED vars PROVE Stutters
  BY <1>12 DEF vars, Stutters, HeldBy, ParkedBy, InWait
<1>13. ASSUME NEW t \in Threads, R!Acquire(t) \/ R!Release(t) \/ R!BeginWait(t) \/ R!EndWait(t)
      PROVE  R!Next
  BY <1>13 DEF R!Next
<1>14. ASSUME NEW t \in Threads, Lock(t) \/ Unlock(t) \/ CondWait(t)
       PROVE  Stutters \/ R!Next
  BY <1>3, <1>4, <1>5, <1>6, <1>7, <1>8, <1>9, <1>10, <1>11, <1>13, <1>14
  DEF Lock, Unlock, CondWait
<1>15. Stutters \/ R!Next
  BY <1>2, <1>12, <1>14 DEF Next
<1>16. QED BY <1>1, <1>15

\* srm.c implements the recursive mutex of RecursiveMutex.tla.
THEOREM Refinement == Spec => ImplementsRecursiveMutex
  BY InvariantHolds, InitRefines, NextRefines, PTL
  DEF Spec, R!Spec, ImplementsRecursiveMutex
=============================================================================
