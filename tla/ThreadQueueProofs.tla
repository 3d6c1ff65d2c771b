------------------------- MODULE ThreadQueueProofs --------------------------
(***************************************************************************)
(* Theorems about queue.lua for any number of producers and consumers, any *)
(* size and any values: no wakeup is lost for either side as a body, and   *)
(* the queue is a bounded FIFO.                                            *)
(***************************************************************************)
EXTENDS ThreadQueue, Sequences, SequenceTheorems, TLAPS

-----------------------------------------------------------------------------
\* The inductive invariant

Asleep == {"insert_asleep", "remove_asleep"}

\* The mutex is held once by the thread in the middle of an operation, and set
\* aside by the threads in a wait.
MutexByLabel == \A t \in Threads :
  /\ held[t] = (IF pc[t] \in Asleep \cup {"idle"} THEN 0 ELSE 1)
  /\ parked[t] = (IF pc[t] \in Asleep THEN 1 ELSE 0)

OneOperation == \A t, u \in Threads : held[t] > 0 /\ held[u] > 0 => t = u

\* Producers run insert and consumers run remove.
Roles == /\ \A p \in Producers :
              pc[p] \notin {"remove_test", "remove_asleep", "remove_signal"}
         /\ \A c \in Consumers :
              pc[c] \notin {"insert_test", "insert_asleep", "insert_signal"}

\* A thread a condition variable knows of is asleep in its wait.
Sleepers == /\ \A c \in notempty : pc[c] = "remove_asleep"
            /\ \A p \in notfull : pc[p] = "insert_asleep"

\* A producer past the call holds a value; the queue is never over-full.
Contents == /\ \A p \in Producers : pc[p] # "idle" => item[p] \in Values
            /\ first <= last
            /\ last - first <= Size

IInv == /\ TypeOK
        /\ MutexByLabel
        /\ OneOperation
        /\ Roles
        /\ Sleepers
        /\ Contents
        /\ ItemsServed
        /\ RoomServed

-----------------------------------------------------------------------------
(* Proofs.                                                                 *)

\* newqueue makes an empty table nobody waits for.
LEMMA InitEstablishesIInv == Init => IInv
<1> SUFFICES ASSUME Init PROVE IInv
  OBVIOUS
<1>1. slot \in [first .. (last - 1) -> Values]
  <2>1. first .. (last - 1) = {} BY DEF Init
  <2>2. QED BY <2>1 DEF Init
<1>2. TypeOK
  BY <1>1 DEF Init, TypeOK, M!Init, M!TypeOK, Labels
<1>3. MutexByLabel /\ OneOperation /\ Roles /\ Sleepers
  BY DEF Init, M!Init, MutexByLabel, OneOperation, Roles, Sleepers, Asleep, Threads
<1>4. Contents
  BY SizeAssumption DEF Init, Contents, Threads
<1>5. ItemsServed /\ RoomServed
  BY DEF Init, ItemsServed, RoomServed, Empty, AllAsleep
<1>6. QED BY <1>2, <1>3, <1>4, <1>5 DEF IInv

\* Every step of insert and remove preserves the invariant.
LEMMA NextPreservesIInv == IInv /\ [Next]_vars => IInv'
<1> SUFFICES ASSUME IInv, [Next]_vars PROVE IInv'
  OBVIOUS
<1> USE SizeAssumption, RolesAssumption
    DEF IInv, TypeOK, MutexByLabel, OneOperation, Roles, Sleepers, Contents,
     ItemsServed, RoomServed, Empty, Full, AllAsleep, M!TypeOK, Labels, Asleep,
     Goto, Threads, table, conds, mutex
<1>1. ASSUME NEW p \in Producers, NEW v \in Values, InsertLock(p, v) PROVE IInv'
  BY <1>1 DEF InsertLock, M!Acquire, M!FreeFor
<1>2. ASSUME NEW p \in Producers, InsertWait(p) PROVE IInv'
  BY <1>2 DEF InsertWait, M!BeginWait
<1>3. ASSUME NEW p \in Producers, InsertWake(p) PROVE IInv'
  BY <1>3 DEF InsertWake, M!EndWait, M!FreeFor
<1>4. ASSUME NEW p \in Producers, InsertPut(p) PROVE IInv'
  BY <1>4 DEF InsertPut
<1>5. ASSUME NEW p \in Producers, InsertSignal(p) PROVE IInv'
  BY <1>5, SMTT(30) DEF InsertSignal, Signal
<1>6. ASSUME NEW c \in Consumers, RemoveLock(c) PROVE IInv'
  BY <1>6 DEF RemoveLock, M!Acquire, M!FreeFor
<1>7. ASSUME NEW c \in Consumers, RemoveWait(c) PROVE IInv'
  BY <1>7 DEF RemoveWait, M!BeginWait
<1>8. ASSUME NEW c \in Consumers, RemoveWake(c) PROVE IInv'
  BY <1>8 DEF RemoveWake, M!EndWait, M!FreeFor
<1>9. ASSUME NEW c \in Consumers, RemoveTake(c) PROVE IInv'
  BY <1>9 DEF RemoveTake
<1>10. ASSUME NEW c \in Consumers, RemoveSignal(c) PROVE IInv'
  BY <1>10 DEF RemoveSignal, Signal
<1>11. ASSUME NEW t \in Threads, Unlock(t) PROVE IInv'
  BY <1>11 DEF Unlock, M!Release
<1>12. ASSUME NEW t \in Threads, WakeUnasked(t) PROVE IInv'
  BY <1>12 DEF WakeUnasked
<1>13. CASE UNCHANGED vars BY <1>13 DEF vars
<1>14. QED
  BY <1>1, <1>2, <1>3, <1>4, <1>5, <1>6, <1>7, <1>8, <1>9, <1>10, <1>11, <1>12,
     <1>13 DEF Next, InsertStep, RemoveStep

\* The inductive invariant holds in every reachable state.
THEOREM InvariantHolds == Spec => []IInv
  BY InitEstablishesIInv, NextPreservesIInv, PTL DEF Spec

\* The table, the mutex and the condition variables keep their types.
THEOREM TypeCorrect == Spec => []TypeOK
<1>1. IInv => TypeOK BY DEF IInv
<1>2. QED BY InvariantHolds, <1>1, PTL

\* Values in the queue always have a consumer awake or about to be woken.
THEOREM NoItemForgotten == Spec => []ItemsServed
<1>1. IInv => ItemsServed BY DEF IInv
<1>2. QED BY InvariantHolds, <1>1, PTL

\* Room in the queue always has a producer awake or about to be woken.
THEOREM NoRoomForgotten == Spec => []RoomServed
<1>1. IInv => RoomServed BY DEF IInv
<1>2. QED BY InvariantHolds, <1>1, PTL

-----------------------------------------------------------------------------
(***************************************************************************)
(* Refinement.  The abstract buffer is the table read from `first' on;     *)
(* three lemmas about that reading need no state.                          *)
(***************************************************************************)

Items(f, l, s) == [k \in 1 .. (l - f) |-> s[f + k - 1]]

\* Reading a well-formed table gives a sequence of its live length.
LEMMA ItemsIsASequence ==
  ASSUME NEW f \in Nat, NEW l \in Nat, f <= l, NEW s \in [f .. (l - 1) -> Values]
  PROVE  Items(f, l, s) \in Seq(Values) /\ Len(Items(f, l, s)) = l - f
<1>1. l - f \in Nat OBVIOUS
<1>2. \A k \in 1 .. (l - f) : s[f + k - 1] \in Values OBVIOUS
<1>3. Items(f, l, s) \in [1 .. (l - f) -> Values] BY <1>2 DEF Items
<1>4. QED BY <1>1, <1>3 DEF Items

\* Writing the slot at `last' appends.
LEMMA PutAppends ==
  ASSUME NEW f \in Nat, NEW l \in Nat, f <= l, NEW s \in [f .. (l - 1) -> Values],
         NEW v \in Values
  PROVE  Items(f, l + 1, [k \in f .. l |-> IF k = l THEN v ELSE s[k]])
           = Append(Items(f, l, s), v)
<1> DEFINE r == [k \in f .. l |-> IF k = l THEN v ELSE s[k]]
           new == Items(f, l + 1, r)
           old == Items(f, l, s)
<1>1. r \in [f .. ((l + 1) - 1) -> Values] OBVIOUS
<1>2. new \in Seq(Values) /\ Len(new) = l - f + 1
  <2> HIDE DEF r
  <2>1. f <= l + 1 /\ l + 1 \in Nat OBVIOUS
  <2>2. QED BY <1>1, <2>1, ItemsIsASequence
<1>3. old \in Seq(Values) /\ Len(old) = l - f BY ItemsIsASequence
<1>4. ASSUME NEW k \in 1 .. (l - f) PROVE new[k] = old[k]
  <2>1. f + k - 1 \in f .. l /\ f + k - 1 # l OBVIOUS
  <2>2. new[k] = r[f + k - 1] BY <1>4 DEF Items
  <2>3. old[k] = s[f + k - 1] BY <1>4 DEF Items
  <2>4. QED BY <2>1, <2>2, <2>3
<1>5. new[l - f + 1] = v
  <2>1. new[l - f + 1] = r[l] BY DEF Items
  <2>2. QED BY <2>1
<1> HIDE DEF new, old
<1>6. /\ Append(old, v) \in Seq(Values)
      /\ Len(Append(old, v)) = l - f + 1
      /\ \A k \in 1 .. (l - f) : Append(old, v)[k] = old[k]
      /\ Append(old, v)[l - f + 1] = v
  BY <1>3, AppendProperties
<1>7. \A k \in 1 .. Len(new) : new[k] = Append(old, v)[k]
  <2>1. ASSUME NEW k \in 1 .. Len(new) PROVE k \in 1 .. (l - f) \/ k = l - f + 1
    BY <1>2
  <2>2. QED BY <1>4, <1>5, <1>6, <2>1
<1>8. new = Append(old, v) BY <1>2, <1>6, <1>7, SeqEqual
<1>9. QED BY <1>8 DEF new, old

\* Clearing the slot at `first' takes the head off.
LEMMA TakeRemovesHead ==
  ASSUME NEW f \in Nat, NEW l \in Nat, f < l, NEW s \in [f .. (l - 1) -> Values]
  PROVE  /\ Items(f, l, s) # <<>>
         /\ Head(Items(f, l, s)) = s[f]
         /\ Items(f + 1, l, [k \in (f + 1) .. (l - 1) |-> s[k]]) = Tail(Items(f, l, s))
<1> DEFINE r == [k \in (f + 1) .. (l - 1) |-> s[k]]
           new == Items(f + 1, l, r)
           old == Items(f, l, s)
<1>1. r \in [(f + 1) .. (l - 1) -> Values] OBVIOUS
<1>2. new \in Seq(Values) /\ Len(new) = l - f - 1
  <2> HIDE DEF r
  <2>1. f + 1 <= l /\ f + 1 \in Nat OBVIOUS
  <2>2. QED BY <1>1, <2>1, ItemsIsASequence
<1>3. old \in Seq(Values) /\ Len(old) = l - f
  BY ItemsIsASequence
<1>4. old # <<>> BY <1>3
<1>5. old[1] = s[f] BY DEF Items
<1>6. ASSUME NEW k \in 1 .. (l - f - 1) PROVE new[k] = old[k + 1]
  <2>1. new[k] = r[f + k] BY DEF Items
  <2>2. old[k + 1] = s[f + k] BY DEF Items
  <2>3. QED BY <2>1, <2>2
<1> HIDE DEF new, old
<1>7. /\ Tail(old) \in Seq(Values)
      /\ Len(Tail(old)) = l - f - 1
      /\ \A k \in 1 .. Len(Tail(old)) : Tail(old)[k] = old[k + 1]
  BY <1>3, <1>4, HeadTailProperties
<1>8. new = Tail(old) BY <1>2, <1>6, <1>7, SeqEqual
<1>9. Head(old) = s[f] BY <1>3, <1>4, <1>5
<1>10. QED BY <1>4, <1>8, <1>9 DEF new, old

items == Items(first, last, slot)

\* The empty table is the empty buffer.
LEMMA InitRefines == Init => F!Init
<1> SUFFICES ASSUME Init PROVE F!Init
  OBVIOUS
<1>1. 1 .. (last - first) = {} BY DEF Init
<1>2. items = <<>> BY <1>1 DEF items, Items
<1>3. QED BY <1>2 DEF Init, F!Init, items, Items

\* InsertPut inserts, RemoveTake removes; every other step is a stutter.
LEMMA NextRefines == IInv /\ [Next]_vars => [F!Next]_(F!vars)
<1> SUFFICES ASSUME IInv, [Next]_vars
             PROVE  F!Next \/ UNCHANGED <<items, got>>
  BY DEF F!vars, items, Items
<1>1. /\ first \in Nat /\ last \in Nat /\ first <= last
      /\ slot \in [first .. (last - 1) -> Values]
  BY DEF IInv, TypeOK, Contents
<1>2. Len(items) = last - first
  BY <1>1, ItemsIsASequence DEF items
<1>3. ASSUME NEW p \in Producers, InsertPut(p)
      PROVE  \E v \in Values : F!Insert(v)
  <2>1. item[p] \in Values
    BY <1>3 DEF IInv, Contents, InsertPut, Goto
  <2>2. Len(items) < Size
    BY <1>1, <1>2, <1>3, SizeAssumption DEF InsertPut, Full
  <2>3. items' = Append(items, item[p])
    BY <1>1, <1>3, <2>1, PutAppends DEF InsertPut, items
  <2>4. got' = got BY <1>3 DEF InsertPut
  <2>5. F!Insert(item[p])
    BY <2>2, <2>3, <2>4 DEF F!Insert, items, Items
  <2>6. QED BY <2>1, <2>5 DEF F!Insert
<1>4. ASSUME NEW c \in Consumers, RemoveTake(c) PROVE F!Remove(c)
  <2>1. first < last
    BY <1>1, <1>4 DEF RemoveTake, Empty
  <2>2. items # <<>> /\ Head(items) = slot[first]
    BY <1>1, <2>1, TakeRemovesHead DEF items
  <2>3. items' = Tail(items)
    BY <1>1, <1>4, <2>1, TakeRemovesHead DEF RemoveTake, items
  <2>4. got' = [got EXCEPT ![c] = slot[first]] BY <1>4 DEF RemoveTake
  <2>5. /\ items # <<>>
        /\ got' = [got EXCEPT ![c] = Head(items)]
        /\ items' = Tail(items)
    BY <2>2, <2>3, <2>4
  <2>6. QED BY <2>5, Zenon DEF F!Remove, items, Items
<1>5. ASSUME UNCHANGED <<table, got>> PROVE UNCHANGED <<items, got>>
  BY <1>5 DEF table, items, Items
<1>6. \/ \E p \in Producers : InsertPut(p)
      \/ \E c \in Consumers : RemoveTake(c)
      \/ UNCHANGED <<table, got>>
  BY DEF Next, vars, table, InsertLock, InsertWake, InsertStep, InsertWait,
     InsertSignal, RemoveLock, RemoveWake, RemoveStep, RemoveWait, RemoveSignal,
     Unlock, WakeUnasked
<1>7. (\E p \in Producers : InsertPut(p)) => F!Next
  BY <1>3 DEF F!Next
<1>8. (\E c \in Consumers : RemoveTake(c)) => F!Next
  BY <1>4 DEF F!Next
<1>9. QED BY <1>5, <1>6, <1>7, <1>8

\* queue.lua implements a bounded first-in first-out buffer.
THEOREM Refinement == Spec => ImplementsBoundedFifo
  BY InvariantHolds, InitRefines, NextRefines, PTL
  DEF Spec, F!Spec, ImplementsBoundedFifo
=============================================================================
