-------------------------- MODULE LuaThreadsProofs --------------------------
(***************************************************************************)
(* Theorems about luathread.c for any number of child threads: the count   *)
(* of active threads is exact, lua_close goes on alone, and a running      *)
(* thread's lua_State is out of the collector's reach.                     *)
(***************************************************************************)
EXTENDS LuaThreads, FiniteSetTheorems, TLAPS

-----------------------------------------------------------------------------
\* The inductive invariant

Making == {"rooted", "registered", "counted", "refused"}

\* Whoever creates a child is inside newthread until that child runs or has failed,
\* and creates no other meanwhile.
MakersInside == \A c \in Children : pc[c] \in Making =>
  /\ pc[maker[c]] = "creating"
  /\ \A d \in Children : pc[d] \in Making /\ maker[d] = maker[c] => d = c

\* The child's state is kept from the collector, first by its maker's stack, then
\* by the registry, before it runs as well.
MadeStateAlive == \A c \in Children : process = "up" =>
  /\ pc[c] = "rooted" => memory[c] = "live"
  /\ pc[c] \in {"registered", "counted", "refused"} => memory[c] = "live" /\ c \in registry

IInv == /\ TypeOK
        /\ ActiveExact
        /\ MakersInside
        /\ ClosesAlone
        /\ MadeStateAlive /\ RunningStateAlive

-----------------------------------------------------------------------------
(* Proofs.                                                                 *)

\* The labels of a child that lt_active counts.
Active == {"counted", "refused", "entry", "run", "creating", "unregister", "announce"}

\* The counted children are finitely many, and there is one at least when there is
\* a counted child.
LEMMA CountedIsFinite ==
  /\ IsFiniteSet(Counted) /\ Cardinality(Counted) \in Nat
  /\ \A c \in Counted : Cardinality(Counted) # 0
<1>1. Counted \in SUBSET Children
  BY DEF Counted
<1>2. IsFiniteSet(Counted)
  BY <1>1, ChildrenAssumption, FS_Subset
<1>3. Cardinality(Counted) \in Nat
  BY <1>2, FS_CardinalityType
<1>4. Cardinality(Counted) = 0 <=> Counted = {}
  BY <1>2, FS_EmptySet
<1>5. QED BY <1>2, <1>3, <1>4

\* A step that moves no child into or out of the counted labels keeps the count.
LEMMA CountKept ==
  ASSUME ActiveExact, process = "up", active' = active,
         \A c \in Children : pc[c] \in Active <=> pc'[c] \in Active
  PROVE  ActiveExact'
<1>1. Counted' = Counted
  BY DEF Counted, Active
<1>2. QED BY <1>1 DEF ActiveExact

\* One that moves one child in counts one more.
LEMMA CountedIn ==
  ASSUME ActiveExact, process = "up", active' = active + 1,
         NEW c \in Children, pc[c] \notin Active, pc'[c] \in Active,
         \A d \in Children \ {c} : pc[d] \in Active <=> pc'[d] \in Active
  PROVE  ActiveExact'
<1>1. Counted' = Counted \cup {c} /\ c \notin Counted
  BY DEF Counted, Active
<1>2. Cardinality(Counted \cup {c}) = Cardinality(Counted) + 1
  BY <1>1, CountedIsFinite, FS_AddElement
<1>3. QED BY <1>1, <1>2 DEF ActiveExact

\* One that moves one child out counts one less, and there was one.
LEMMA CountedOut ==
  ASSUME ActiveExact, process = "up", active' = active - 1,
         NEW c \in Children, pc[c] \in Active, pc'[c] \notin Active,
         \A d \in Children \ {c} : pc[d] \in Active <=> pc'[d] \in Active
  PROVE  ActiveExact' /\ active' \in Nat
<1>1. Counted' = Counted \ {c} /\ c \in Counted
  BY DEF Counted, Active
<1>2. Cardinality(Counted \ {c}) = Cardinality(Counted) - 1
  BY <1>1, CountedIsFinite, FS_RemoveElement
<1>3. Cardinality(Counted) \in Nat /\ Cardinality(Counted) # 0
  BY <1>1, CountedIsFinite
<1>4. QED BY <1>1, <1>2, <1>3 DEF ActiveExact

\* When nobody is counted, nobody is being created either: their makers would be.
LEMMA NobodyLeft ==
  ASSUME TypeOK, ActiveExact, MakersInside, process = "up", active = 0, pc[Main] # "creating"
  PROVE  \A c \in Children : pc[c] \in {"none", "failed", "gone"}
<1>1. Counted = {}
  BY CountedIsFinite, FS_EmptySet DEF ActiveExact
<1>2. \A c \in Children : pc[c] \notin Active
  BY <1>1 DEF Counted, Active
<1>3. \A c \in Children : pc[c] \notin Making
  BY <1>2 DEF MakersInside, TypeOK, Threads, Active
<1>4. QED BY <1>2, <1>3 DEF TypeOK, ChildLabels, Active, Making

\* At the start only the main thread runs.
LEMMA InitEstablishesIInv == Init => IInv
<1> SUFFICES ASSUME Init PROVE IInv
  OBVIOUS
<1>1. TypeOK
  BY MainAssumption DEF Init, TypeOK, Threads, ChildLabels, MainLabels
<1>2. Counted = {}
  BY MainAssumption DEF Init, Counted, Threads
<1>3. ActiveExact
  BY <1>2, FS_EmptySet DEF Init, ActiveExact
<1>4. MakersInside /\ ClosesAlone /\ MadeStateAlive /\ RunningStateAlive
  BY MainAssumption DEF Init, MakersInside, ClosesAlone, MadeStateAlive, RunningStateAlive,
     Threads, Making
<1>5. QED BY <1>1, <1>3, <1>4 DEF IInv

\* newthread's steps keep the invariant.
LEMMA NewStateKeepsIInv ==
  ASSUME IInv, NEW t \in Threads, NEW c \in Children, NewState(t, c)
  PROVE  IInv'
<1> USE DEF IInv, NewState
<1>0. t # c /\ c # Main /\ c \in Threads
  BY MainAssumption DEF Threads
<1>1. TypeOK'
  BY <1>0 DEF TypeOK, ChildLabels, MainLabels, Threads
<1>2. \A d \in Children : pc[d] \in Active <=> pc'[d] \in Active
  BY <1>0 DEF TypeOK, Active, Threads
<1>3. ActiveExact'
  BY <1>2, CountKept
<1>4. \A d \in Children : pc[d] \in Making => maker[d] # t
  BY DEF MakersInside
<1>5. MakersInside'
  BY <1>0, <1>4 DEF MakersInside, TypeOK, Making, Threads
<1>6. ClosesAlone'
  BY <1>0 DEF ClosesAlone, TypeOK, Threads
<1>7. MadeStateAlive' /\ RunningStateAlive'
  BY <1>0 DEF MadeStateAlive, RunningStateAlive, TypeOK, Threads
<1>8. QED BY <1>1, <1>3, <1>5, <1>6, <1>7

LEMMA RegisterKeepsIInv ==
  ASSUME IInv, NEW c \in Children, Register(c)
  PROVE  IInv'
<1> USE DEF IInv, Register, Goto
<1>0. c # Main /\ c \in Threads
  BY MainAssumption DEF Threads
<1>1. TypeOK'
  BY <1>0 DEF TypeOK, ChildLabels, MainLabels
<1>2. \A d \in Children : pc[d] \in Active <=> pc'[d] \in Active
  BY DEF TypeOK, Active
<1>3. ActiveExact'
  BY <1>2, CountKept
<1>4. MakersInside'
  BY <1>0 DEF MakersInside, TypeOK, Making
<1>5. ClosesAlone'
  BY <1>0 DEF ClosesAlone, TypeOK
<1>6. MadeStateAlive' /\ RunningStateAlive'
  BY <1>0 DEF MadeStateAlive, RunningStateAlive, TypeOK
<1>7. QED BY <1>1, <1>3, <1>4, <1>5, <1>6

\* The child is counted in.
LEMMA ActiveUpKeepsIInv ==
  ASSUME IInv, NEW c \in Children, ActiveUp(c)
  PROVE  IInv'
<1> USE DEF IInv, ActiveUp, Goto
<1>0. c # Main /\ c \in Threads
  BY MainAssumption DEF Threads
<1>1. TypeOK'
  BY <1>0 DEF TypeOK, ChildLabels, MainLabels
<1>2. /\ pc[c] \notin Active /\ pc'[c] \in Active
      /\ \A d \in Children \ {c} : pc[d] \in Active <=> pc'[d] \in Active
  BY <1>0 DEF TypeOK, Active
<1>3. ActiveExact'
  BY <1>2, CountedIn
<1>4. MakersInside'
  BY <1>0 DEF MakersInside, TypeOK, Making
<1>5. ClosesAlone'
  BY <1>0 DEF ClosesAlone, TypeOK
<1>6. MadeStateAlive' /\ RunningStateAlive'
  BY <1>0 DEF MadeStateAlive, RunningStateAlive, TypeOK, Making
<1>7. QED BY <1>1, <1>3, <1>4, <1>5, <1>6

\* The child starts and its maker, who was creating no other, goes on.
LEMMA StartKeepsIInv ==
  ASSUME IInv, NEW c \in Children, Start(c)
  PROVE  IInv'
<1> USE DEF IInv
<1>0. c # Main /\ c \in Threads /\ process = "up" /\ pc[c] = "counted"
  BY MainAssumption DEF Threads, Start
<1>1. /\ maker[c] \in Threads /\ maker[c] # c /\ pc[maker[c]] = "creating"
      /\ \A d \in Children : pc[d] \in Making /\ maker[d] = maker[c] => d = c
  BY <1>0 DEF MakersInside, TypeOK, Making
<1>2. /\ pc' = [pc EXCEPT ![c] = "entry", ![maker[c]] = "run"]
      /\ UNCHANGED <<maker, memory, registry, process>>
  BY DEF Start
<1>3. /\ pc'[c] = "entry" /\ pc'[maker[c]] = "run"
      /\ \A t \in Threads \ {c, maker[c]} : pc'[t] = pc[t]
  BY <1>0, <1>1, <1>2 DEF TypeOK
<1>4. pc' \in [Threads -> ChildLabels \cup MainLabels]
  BY <1>0, <1>1, <1>2 DEF TypeOK, ChildLabels, MainLabels
<1>5. \A d \in Children \ {c} : pc[d] \in Active <=> pc'[d] \in Active
  BY <1>0, <1>1, <1>3 DEF TypeOK, Active, Threads
<1>6. ActiveExact' /\ active' \in Nat
  BY <1>0, <1>3, <1>5, CountKept DEF Active, TypeOK, Start
<1>7. TypeOK'
  <2>1. pc'[Main] \in MainLabels
    BY <1>0, <1>3 DEF TypeOK, MainLabels, Threads
  <2>2. \A d \in Children : pc'[d] \in ChildLabels
    BY <1>0, <1>3 DEF TypeOK, ChildLabels, Threads
  <2>3. QED BY <1>2, <1>4, <1>6, <2>1, <2>2 DEF TypeOK
<1>8. MakersInside'
  <2>1. \A d \in Children : pc'[d] \in Making => pc[d] \in Making /\ d # c
    BY <1>0, <1>3 DEF Making, Threads
  <2>2. \A d \in Children : pc'[d] \in Making => pc'[maker[d]] = "creating"
    BY <1>0, <1>1, <1>3, <2>1 DEF MakersInside, TypeOK
  <2>3. QED BY <1>2, <2>1, <2>2 DEF MakersInside
<1>9. ClosesAlone'
  BY <1>0, <1>1, <1>3 DEF ClosesAlone, Threads
<1>10. MadeStateAlive' /\ RunningStateAlive'
  BY <1>0, <1>1, <1>2, <1>3 DEF MadeStateAlive, RunningStateAlive, Threads
<1>11. QED BY <1>6, <1>7, <1>8, <1>9, <1>10

\* pthread_create fails: the child is still counted.
LEMMA StartFailsKeepsIInv ==
  ASSUME IInv, NEW c \in Children, StartFails(c)
  PROVE  IInv'
<1> USE DEF IInv, StartFails, Goto
<1>0. c # Main /\ c \in Threads
  BY MainAssumption DEF Threads
<1>1. TypeOK'
  BY <1>0 DEF TypeOK, ChildLabels, MainLabels
<1>2. \A d \in Children : pc[d] \in Active <=> pc'[d] \in Active
  BY <1>0 DEF TypeOK, Active
<1>3. ActiveExact'
  BY <1>2, CountKept
<1>4. MakersInside'
  BY <1>0 DEF MakersInside, TypeOK, Making
<1>5. ClosesAlone'
  BY <1>0 DEF ClosesAlone, TypeOK
<1>6. MadeStateAlive' /\ RunningStateAlive'
  BY <1>0 DEF MadeStateAlive, RunningStateAlive, TypeOK, Making
<1>7. QED BY <1>1, <1>3, <1>4, <1>5, <1>6

\* The failed child is counted out and its maker goes on.
LEMMA ActiveDownKeepsIInv ==
  ASSUME IInv, NEW c \in Children, ActiveDown(c)
  PROVE  IInv'
<1> USE DEF IInv
<1>0. c # Main /\ c \in Threads /\ process = "up" /\ pc[c] = "refused"
  BY MainAssumption DEF Threads, ActiveDown
<1>1. /\ maker[c] \in Threads /\ maker[c] # c /\ pc[maker[c]] = "creating"
      /\ \A d \in Children : pc[d] \in Making /\ maker[d] = maker[c] => d = c
  BY <1>0 DEF MakersInside, TypeOK, Making
<1>2. /\ pc' = [pc EXCEPT ![c] = "failed", ![maker[c]] = "run"]
      /\ UNCHANGED <<maker, memory, registry, process>>
  BY DEF ActiveDown
<1>3. /\ pc'[c] = "failed" /\ pc'[maker[c]] = "run"
      /\ \A t \in Threads \ {c, maker[c]} : pc'[t] = pc[t]
  BY <1>0, <1>1, <1>2 DEF TypeOK
<1>4. pc' \in [Threads -> ChildLabels \cup MainLabels]
  BY <1>0, <1>1, <1>2 DEF TypeOK, ChildLabels, MainLabels
<1>5. \A d \in Children \ {c} : pc[d] \in Active <=> pc'[d] \in Active
  BY <1>0, <1>1, <1>3 DEF TypeOK, Active, Threads
<1>6. ActiveExact' /\ active' \in Nat
  BY <1>0, <1>3, <1>5, CountedOut DEF Active, ActiveDown
<1>7. TypeOK'
  <2>1. pc'[Main] \in MainLabels
    BY <1>0, <1>3 DEF TypeOK, MainLabels, Threads
  <2>2. \A d \in Children : pc'[d] \in ChildLabels
    BY <1>0, <1>3 DEF TypeOK, ChildLabels, Threads
  <2>3. QED BY <1>2, <1>4, <1>6, <2>1, <2>2 DEF TypeOK
<1>8. MakersInside'
  <2>1. \A d \in Children : pc'[d] \in Making => pc[d] \in Making /\ d # c
    BY <1>0, <1>3 DEF Making, Threads
  <2>2. \A d \in Children : pc'[d] \in Making => pc'[maker[d]] = "creating"
    BY <1>0, <1>1, <1>3, <2>1 DEF MakersInside, TypeOK
  <2>3. QED BY <1>2, <2>1, <2>2 DEF MakersInside
<1>9. ClosesAlone'
  BY <1>0, <1>1, <1>3 DEF ClosesAlone, Threads
<1>10. MadeStateAlive' /\ RunningStateAlive'
  BY <1>0, <1>1, <1>2, <1>3 DEF MadeStateAlive, RunningStateAlive, Threads
<1>11. QED BY <1>6, <1>7, <1>8, <1>9, <1>10

\* The child's function starts.
LEMMA EnterKeepsIInv ==
  ASSUME IInv, NEW c \in Children, Enter(c)
  PROVE  IInv'
<1> USE DEF IInv, Enter, Goto
<1>0. c # Main /\ c \in Threads
  BY MainAssumption DEF Threads
<1>1. TypeOK'
  BY <1>0 DEF TypeOK, ChildLabels, MainLabels
<1>2. \A d \in Children : pc[d] \in Active <=> pc'[d] \in Active
  BY <1>0 DEF TypeOK, Active
<1>3. ActiveExact'
  BY <1>2, CountKept
<1>4. MakersInside'
  BY <1>0 DEF MakersInside, TypeOK, Making
<1>5. ClosesAlone'
  BY <1>0 DEF ClosesAlone, TypeOK
<1>6. MadeStateAlive' /\ RunningStateAlive'
  BY <1>0 DEF MadeStateAlive, RunningStateAlive, TypeOK, Making
<1>7. QED BY <1>1, <1>3, <1>4, <1>5, <1>6

\* It returns: it is then inside no newthread.
LEMMA ReturnKeepsIInv ==
  ASSUME IInv, NEW c \in Children, Return(c)
  PROVE  IInv'
<1> USE DEF IInv, Return, Goto
<1>0. c # Main /\ c \in Threads
  BY MainAssumption DEF Threads
<1>1. TypeOK'
  BY <1>0 DEF TypeOK, ChildLabels, MainLabels
<1>2. \A d \in Children : pc[d] \in Active <=> pc'[d] \in Active
  BY <1>0 DEF TypeOK, Active
<1>3. ActiveExact'
  BY <1>2, CountKept
<1>4. MakersInside'
  BY <1>0 DEF MakersInside, TypeOK, Making
<1>5. ClosesAlone'
  BY <1>0 DEF ClosesAlone, TypeOK
<1>6. MadeStateAlive' /\ RunningStateAlive'
  BY <1>0 DEF MadeStateAlive, RunningStateAlive, TypeOK, Making
<1>7. QED BY <1>1, <1>3, <1>4, <1>5, <1>6

\* The child drops its registry entry.
LEMMA UnregisterKeepsIInv ==
  ASSUME IInv, NEW c \in Children, Unregister(c)
  PROVE  IInv'
<1> USE DEF IInv, Unregister, Goto
<1>0. c # Main /\ c \in Threads
  BY MainAssumption DEF Threads
<1>1. TypeOK'
  BY <1>0 DEF TypeOK, ChildLabels, MainLabels
<1>2. \A d \in Children : pc[d] \in Active <=> pc'[d] \in Active
  BY <1>0 DEF TypeOK, Active
<1>3. ActiveExact'
  BY <1>2, CountKept
<1>4. MakersInside'
  BY <1>0 DEF MakersInside, TypeOK, Making
<1>5. ClosesAlone'
  BY <1>0 DEF ClosesAlone, TypeOK
<1>6. MadeStateAlive' /\ RunningStateAlive'
  BY <1>0 DEF MadeStateAlive, RunningStateAlive, TypeOK, Making
<1>7. QED BY <1>1, <1>3, <1>4, <1>5, <1>6

\* The child counts itself out and wakes the main thread.
LEMMA AnnounceKeepsIInv ==
  ASSUME IInv, NEW c \in Children, Announce(c)
  PROVE  IInv'
<1> USE DEF IInv
<1>0. c # Main /\ c \in Threads /\ Main \in Threads /\ Main \notin Children
  BY MainAssumption DEF Threads
<1>1. /\ process = "up" /\ pc[c] = "announce" /\ active' = active - 1
      /\ UNCHANGED <<maker, memory, registry, process>>
  BY DEF Announce
<1>2. /\ pc' \in [Threads -> ChildLabels \cup MainLabels]
      /\ pc'[c] = "gone"
      /\ pc'[Main] = IF pc[Main] = "close_asleep" THEN "close_check" ELSE pc[Main]
      /\ \A d \in Children \ {c} : pc'[d] = pc[d]
  BY <1>0 DEF TypeOK, Announce, ChildLabels, MainLabels, Threads
<1>3. ActiveExact' /\ active' \in Nat
  BY <1>1, <1>2, CountedOut DEF Active
<1>4. TypeOK'
  BY <1>0, <1>1, <1>2, <1>3 DEF TypeOK, ChildLabels, MainLabels
<1>5. MakersInside'
  <2>1. \A d \in Children : pc'[d] \in Making => pc[d] \in Making
    BY <1>2 DEF Making
  <2>2. \A d \in Children : pc'[d] \in Making => pc'[maker[d]] = "creating"
    BY <1>0, <1>1, <1>2, <2>1 DEF MakersInside, TypeOK, Threads
  <2>3. QED BY <1>1, <2>1, <2>2 DEF MakersInside
<1>6. ClosesAlone'
  BY <1>2 DEF ClosesAlone
<1>7. MadeStateAlive' /\ RunningStateAlive'
  BY <1>1, <1>2 DEF MadeStateAlive, RunningStateAlive
<1>8. QED BY <1>3, <1>4, <1>5, <1>6, <1>7

\* The main thread goes on only when nobody is counted, so that nobody is left.
LEMMA CloseCheckKeepsIInv ==
  ASSUME IInv, CloseCheck
  PROVE  IInv'
<1> USE DEF IInv, CloseCheck, Goto
<1>0. Main \in Threads /\ Main \notin Children
  BY MainAssumption DEF Threads
<1>m. active > 0 \/ \A c \in Children : pc[c] \in {"none", "failed", "gone"}
  BY <1>0, NobodyLeft DEF TypeOK
<1>1. TypeOK'
  BY <1>0, <1>m DEF TypeOK, ChildLabels, MainLabels
<1>2. \A d \in Children : pc[d] \in Active <=> pc'[d] \in Active
  BY <1>0, <1>m DEF TypeOK, Active
<1>3. ActiveExact'
  BY <1>2, CountKept
<1>4. MakersInside'
  BY <1>0, <1>m DEF MakersInside, TypeOK, Making
<1>5. ClosesAlone'
  BY <1>0, <1>m DEF ClosesAlone, TypeOK
<1>6. MadeStateAlive' /\ RunningStateAlive'
  BY <1>0, <1>m DEF MadeStateAlive, RunningStateAlive, TypeOK, Making
<1>7. QED BY <1>1, <1>3, <1>4, <1>5, <1>6

\* The collector takes no state that the registry or a maker's stack holds.
LEMMA CollectKeepsIInv ==
  ASSUME IInv, NEW t \in Threads, NEW c \in Children, Collect(t, c)
  PROVE  IInv'
<1> USE DEF IInv, Collect
<1>1. TypeOK'
  BY DEF TypeOK
<1>2. ActiveExact'
  BY CountKept
<1>3. MakersInside' /\ ClosesAlone'
  BY DEF MakersInside, ClosesAlone
<1>4. MadeStateAlive' /\ RunningStateAlive'
  BY DEF MadeStateAlive, RunningStateAlive, TypeOK
<1>5. QED BY <1>1, <1>2, <1>3, <1>4

\* The program ends by a panic or a crash.
LEMMA PanicKeepsIInv ==
  ASSUME IInv, NEW c \in Children, Panics(c) \/ AnnounceCrashes(c)
  PROVE  IInv'
<1>1. /\ process' \in {"panicked", "crashed"}
      /\ UNCHANGED <<pc, maker, memory, registry, active>>
  BY DEF Panics, AnnounceCrashes
<1>2. TypeOK' /\ MakersInside' /\ ClosesAlone'
  BY <1>1 DEF IInv, TypeOK, MakersInside, ClosesAlone
<1>3. ActiveExact' /\ MadeStateAlive' /\ RunningStateAlive'
  BY <1>1 DEF ActiveExact, MadeStateAlive, RunningStateAlive
<1>4. QED BY <1>2, <1>3 DEF IInv

\* lua_close frees everything: nobody is left to mind.
LEMMA CloseStateKeepsIInv ==
  ASSUME IInv, CloseState
  PROVE  IInv'
<1> USE DEF IInv
<1>0. Main \in Threads /\ Main \notin Children
  BY MainAssumption DEF Threads
<1>1. /\ pc[Main] = "close_free" /\ pc' = [pc EXCEPT ![Main] = "closed"]
      /\ process' = "closed" /\ registry' = {} /\ UNCHANGED <<maker, active>>
  BY DEF CloseState
<1>2. /\ pc' \in [Threads -> ChildLabels \cup MainLabels]
      /\ pc'[Main] = "closed"
      /\ \A d \in Children : pc'[d] = pc[d]
  BY <1>0, <1>1 DEF TypeOK, MainLabels, Threads
<1>3. memory' \in [Children -> {"unused", "live", "freed"}]
  BY DEF CloseState, TypeOK
<1>4. TypeOK'
  BY <1>1, <1>2, <1>3 DEF TypeOK, MainLabels
<1>5. \A d \in Children : pc'[d] \in {"none", "failed", "gone"}
  BY <1>1, <1>2 DEF ClosesAlone
<1>6. MakersInside' /\ ClosesAlone'
  BY <1>5 DEF MakersInside, ClosesAlone, Making
<1>7. ActiveExact' /\ MadeStateAlive' /\ RunningStateAlive'
  BY <1>1 DEF ActiveExact, MadeStateAlive, RunningStateAlive
<1>8. QED BY <1>4, <1>6, <1>7

\* The main thread calls lua_close, or wakes for no reason: no child moves.
LEMMA MainKeepsIInv ==
  ASSUME IInv, CallClose \/ WakeUnasked
  PROVE  IInv'
<1> USE DEF IInv
<1>0. Main \in Threads /\ Main \notin Children
  BY MainAssumption DEF Threads
<1>1. /\ process = "up" /\ pc[Main] # "creating"
      /\ pc' = [pc EXCEPT ![Main] = "close_check"]
      /\ UNCHANGED <<maker, memory, registry, active, process>>
  BY DEF CallClose, WakeUnasked, Goto
<1>2. /\ pc' \in [Threads -> ChildLabels \cup MainLabels]
      /\ pc'[Main] = "close_check"
      /\ \A t \in Threads \ {Main} : pc'[t] = pc[t]
  BY <1>0, <1>1 DEF TypeOK, MainLabels
<1>3. \A d \in Children : pc'[d] = pc[d]
  BY <1>0, <1>2 DEF Threads
<1>4. TypeOK'
  BY <1>1, <1>2, <1>3 DEF TypeOK, MainLabels
<1>5. ActiveExact'
  BY <1>1, <1>3, CountKept
<1>6. MakersInside'
  <2>1. \A d \in Children : pc[d] \in Making => maker[d] \in Threads \ {Main}
    BY <1>1 DEF MakersInside, TypeOK
  <2>2. QED BY <1>1, <1>2, <1>3, <2>1 DEF MakersInside
<1>7. ClosesAlone' /\ MadeStateAlive' /\ RunningStateAlive'
  BY <1>1, <1>2, <1>3 DEF ClosesAlone, MadeStateAlive, RunningStateAlive
<1>8. QED BY <1>4, <1>5, <1>6, <1>7

\* Every step keeps the invariant.
LEMMA NextPreservesIInv == IInv /\ [Next]_vars => IInv'
<1> SUFFICES ASSUME IInv, [Next]_vars PROVE IInv'
  OBVIOUS
<1>1. CASE \E t \in Threads, c \in Children : NewState(t, c)
  BY <1>1, NewStateKeepsIInv
<1>2. CASE \E t \in Threads, c \in Children : Collect(t, c)
  BY <1>2, CollectKeepsIInv
<1>3. ASSUME NEW c \in Children, ChildStep(c) PROVE IInv'
  BY <1>3, RegisterKeepsIInv, ActiveUpKeepsIInv, StartKeepsIInv, StartFailsKeepsIInv,
     ActiveDownKeepsIInv, EnterKeepsIInv, ReturnKeepsIInv, UnregisterKeepsIInv,
     AnnounceKeepsIInv, PanicKeepsIInv DEF ChildStep
<1>4. CASE \E c \in Children : Panics(c)
  BY <1>4, PanicKeepsIInv
<1>5. CASE CallClose \/ WakeUnasked
  BY <1>5, MainKeepsIInv
<1>6. CASE MainStep
  BY <1>6, CloseCheckKeepsIInv, CloseStateKeepsIInv DEF MainStep
<1>7. CASE UNCHANGED vars
  BY <1>7 DEF IInv, vars, TypeOK, ActiveExact, Counted, MakersInside, ClosesAlone,
     MadeStateAlive, RunningStateAlive
<1>8. QED BY <1>1, <1>2, <1>3, <1>4, <1>5, <1>6, <1>7 DEF Next

\* The invariant holds for every number of threads.
THEOREM InvariantHolds == Spec => []IInv
<1>1. QED BY InitEstablishesIInv, NextPreservesIInv, PTL DEF Spec

\* Type correctness: in particular, lt_active never goes below zero.
THEOREM TypeCorrect == Spec => []TypeOK
<1>1. IInv => TypeOK
  BY DEF IInv
<1>2. QED BY <1>1, InvariantHolds, PTL

\* lt_active is the number of threads that are starting or not yet finished.
THEOREM CountIsExact == Spec => []ActiveExact
<1>1. IInv => ActiveExact
  BY DEF IInv
<1>2. QED BY <1>1, InvariantHolds, PTL

\* lua_close frees the state only when no thread is or will be inside it.
THEOREM ClosesLast == Spec => []ClosesAlone
<1>1. IInv => ClosesAlone
  BY DEF IInv
<1>2. QED BY <1>1, InvariantHolds, PTL

\* The collector never takes the lua_State of a running thread.
THEOREM RunningStateKept == Spec => []RunningStateAlive
<1>1. IInv => RunningStateAlive
  BY DEF IInv
<1>2. QED BY <1>1, InvariantHolds, PTL
=============================================================================
