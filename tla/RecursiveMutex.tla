--------------------------- MODULE RecursiveMutex ---------------------------
(***************************************************************************)
(* What a recursive mutex with a condition wait promises to its clients:   *)
(* at most one thread is inside it, a thread may enter it again, every     *)
(* entry is matched by one exit, and a wait sets the whole depth aside and *)
(* gives exactly that depth back.  SafeRecursiveMutex implements this      *)
(* specification and ThreadQueue is written on top of it.                  *)
(***************************************************************************)
EXTENDS Naturals

CONSTANT Threads

VARIABLES held,     \* held[t]: how many times t is inside the mutex
          parked    \* parked[t]: the depth t left behind when it began to wait

vars == <<held, parked>>

TypeOK == /\ held \in [Threads -> Nat]
          /\ parked \in [Threads -> Nat]

Init == /\ held = [t \in Threads |-> 0]
        /\ parked = [t \in Threads |-> 0]

\* No thread but t is inside.
FreeFor(t) == \A u \in Threads \ {t} : held[u] = 0

Acquire(t) == /\ FreeFor(t)
              /\ parked[t] = 0
              /\ held' = [held EXCEPT ![t] = @ + 1]
              /\ UNCHANGED parked

Release(t) == /\ held[t] > 0
              /\ held' = [held EXCEPT ![t] = @ - 1]
              /\ UNCHANGED parked

BeginWait(t) == /\ held[t] > 0
                /\ parked' = [parked EXCEPT ![t] = held[t]]
                /\ held' = [held EXCEPT ![t] = 0]

EndWait(t) == /\ parked[t] > 0
              /\ FreeFor(t)
              /\ held' = [held EXCEPT ![t] = parked[t]]
              /\ parked' = [parked EXCEPT ![t] = 0]

Next == \E t \in Threads :
          Acquire(t) \/ Release(t) \/ BeginWait(t) \/ EndWait(t)

Spec == Init /\ [][Next]_vars
=============================================================================
