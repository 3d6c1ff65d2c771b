---------------------------- MODULE BoundedFifo -----------------------------
(***************************************************************************)
(* What a thread.queue promises: a first-in first-out buffer of at most    *)
(* Size values, from which every value is removed once, by one consumer.   *)
(***************************************************************************)
EXTENDS Naturals, Sequences

CONSTANTS Consumers, Values, Size,
          NoValue      \* what a consumer has before its first remove

VARIABLES items,     \* the values inserted and not removed, oldest first
          got        \* got[c]: the value c's latest remove took out

vars == <<items, got>>

TypeOK == /\ items \in Seq(Values)
          /\ Len(items) <= Size
          /\ got \in [Consumers -> Values \cup {NoValue}]

Init == /\ items = <<>>
        /\ got = [c \in Consumers |-> NoValue]

Insert(v) == /\ Len(items) < Size
             /\ items' = Append(items, v)
             /\ UNCHANGED got

Remove(c) == /\ items # <<>>
             /\ got' = [got EXCEPT ![c] = Head(items)]
             /\ items' = Tail(items)

Next == (\E v \in Values : Insert(v)) \/ (\E c \in Consumers : Remove(c))

Spec == Init /\ [][Next]_vars
=============================================================================
