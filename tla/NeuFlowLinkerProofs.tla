------------------------ MODULE NeuFlowLinkerProofs ------------------------
(***************************************************************************)
(* Proofs about packages/NeuFlow/Linker.lua, for every set of ports, every *)
(* bound on the programs and every page size: what Linker:dump does to the *)
(* list keeps the gotos, the zeros and the pages right.  From IInv:        *)
(* OptimiseShape says what cacheConfigOptimization keeps of the list,      *)
(* AlignShape what a step of alignProcessWithPages does, node by node;     *)
(* the lemmas behind them each keep one conjunct.                          *)
(***************************************************************************)
EXTENDS NeuFlowLinker, FiniteSetTheorems, WellFoundedInduction, TLAPS

-----------------------------------------------------------------------------
\* The inductive invariant of the list: sentinels frame it and no process between
\* them is empty; a goto knows the number of the process behind it until it gets
\* an address; behind the cursor of the alignment there is no padding yet.

Written == {"nothing", "addr", "command", "config", "wait"}
AllOps == Written \cup {"goto", "zero"}
Names == {"", "prefetch", "activate", "deActivate", "reset", "cacheStart", "cacheFinish",
          "primed", "done", "idle", "unconfigured"}
Instruction(ops) ==
  [op : ops, port : Ports \cup {0}, sub : 0 .. 2, what : Names, data : Nat]
NodesOf(ops) == Instruction(ops) \cup {Sentinel}

\* No two sentinels next to each other.
Spaced(l) == \A k \in 1 .. Len(l) - 1 : l[k] # Sentinel \/ l[k + 1] # Sentinel

Framed == /\ list \in Seq(NodesOf(AllOps))
          /\ Len(list) > 0 /\ list[1] = Sentinel /\ Spaced(list)
          /\ phase # "build" => Len(list) > 1 /\ list[Len(list)] = Sentinel

Bounds == /\ phase \in {"build", "optimise", "align", "done"}
          /\ cursor \in 1 .. Len(list) + 1 /\ curPage \in Nat /\ actions \in 0 .. MaxActions
          /\ phase = "align" => cursor \in 2 .. Len(list) /\ list[cursor] = Sentinel

NoPadding(first) == \A k \in first .. Len(list) : list[k].op \notin {"goto", "zero"}
Unpadded == /\ phase \in {"build", "optimise"} => NoPadding(1)
            /\ phase = "align" => NoPadding(cursor)

\* Sentinels are numbered from the front.
Ordinal(i) == Cardinality({k \in 1 .. i : list[k] = Sentinel})

Jumps == phase = "align" => \A n \in 1 .. cursor : list[n].op = "goto" =>
  \E s \in n + 1 .. cursor - 1 : /\ list[s] = Sentinel /\ list[n].data = Ordinal(s)
                                 /\ \A k \in n + 1 .. s - 1 : list[k].op = "zero"
ZerosBehind == phase = "align" => \A n \in DOMAIN list :
  list[n].op = "zero" => n > 1 /\ list[n - 1].op \in {"goto", "zero"}

\* curPage counts from the start of a page.
PageCounted == phase = "align" =>
  \E q \in 0 .. Address(cursor) : Address(cursor) = PageSize * q + curPage

InPage(n) == Cardinality(Body(n)) <= PageSize =>
  \A j, k \in Body(n) : Address(j) \div PageSize = Address(k) \div PageSize
AlignedInPage == phase = "align" =>
  \A n \in 1 .. cursor - 1 : list[n] = Sentinel => InPage(n)

IInv == /\ Framed /\ Bounds /\ Unpadded
        /\ Jumps /\ ZerosBehind /\ PaddingJumped
        /\ PageCounted /\ AlignedInPage /\ ProcessInPage

-----------------------------------------------------------------------------
(* What configPort writes.                                                 *)

\* What Core writes.
LEMMA WrittenNodes ==
  ASSUME NEW p \in Ports \cup {0}, NEW d \in Nat
  PROVE  /\ Nothing \in Instruction(Written)
         /\ \A sub \in 0 .. 2 : Addr(p, sub) \in Instruction(Written)
         /\ \A c \in Names : Command(c) \in Instruction(Written)
         /\ Config(d) \in Instruction(Written)
         /\ \A c \in Names : Wait(c) \in Instruction(Written)
<1>0. /\ \A op \in {"nothing", "addr", "command", "config", "wait"} : op \in Written
      /\ 0 \in 0 .. 2 /\ "" \in Names /\ 0 \in Nat /\ 0 \in Ports \cup {0}
  BY DEF Written, Names
<1>1. \A op \in Written, port \in Ports \cup {0}, sub \in 0 .. 2, what \in Names, data \in Nat :
        Node(op, port, sub, what, data) \in Instruction(Written)
  BY DEF Node, Instruction
<1>2. Nothing \in Instruction(Written)
  BY <1>0, <1>1 DEF Nothing
<1>3. \A sub \in 0 .. 2 : Addr(p, sub) \in Instruction(Written)
  BY <1>0, <1>1 DEF Addr
<1>4. \A c \in Names : Command(c) \in Instruction(Written)
  BY <1>0, <1>1 DEF Command
<1>5. Config(d) \in Instruction(Written)
  BY <1>0, <1>1 DEF Config
<1>6. \A c \in Names : Wait(c) \in Instruction(Written)
  BY <1>0, <1>1 DEF Wait
<1> QED BY <1>2, <1>3, <1>4, <1>5, <1>6

\* Concatenations.
LEMMA Both == ASSUME NEW S, NEW s \in Seq(S), NEW t \in Seq(S) PROVE s \o t \in Seq(S)
OBVIOUS

\* Pieces of programs.
LEMMA Pieces ==
  ASSUME NEW p \in Ports \cup {0}, NEW d \in Nat
  PROVE  /\ \A sub \in 0 .. 2 : Select(p, sub) \in Seq(Instruction(Written))
         /\ \A c \in Names : Send(c) \in Seq(Instruction(Written))
         /\ \A n \in Nat : [i \in 1 .. n |-> Config(d)] \in Seq(Instruction(Written))
         /\ \A n \in Nat : [i \in 1 .. n |-> Nothing] \in Seq(Instruction(Written))
         /\ Coordinates(d) \in Seq(Instruction(Written))
         /\ \A c \in Names : <<Wait(c)>> \in Seq(Instruction(Written))
         /\ <<Config(d)>> \in Seq(Instruction(Written))
<1> DEFINE I == Instruction(Written)
<1>1. /\ Nothing \in I /\ Config(d) \in I
      /\ \A sub \in 0 .. 2 : Addr(p, sub) \in I
      /\ \A c \in Names : Command(c) \in I /\ Wait(c) \in I
  BY WrittenNodes
<1> HIDE DEF I
<1>2. \A sub \in 0 .. 2 : Select(p, sub) \in Seq(I)
  BY <1>1 DEF Select
<1>3. \A c \in Names : Send(c) \in Seq(I)
  BY <1>1 DEF Send
<1>4. \A n \in Nat : [i \in 1 .. n |-> Config(d)] \in Seq(I)
  BY <1>1
<1>5. \A n \in Nat : [i \in 1 .. n |-> Nothing] \in Seq(I)
  BY <1>1
<1>6. <<Nothing>> \in Seq(I) /\ <<Config(d)>> \in Seq(I) /\ \A c \in Names : <<Wait(c)>> \in Seq(I)
  BY <1>1
<1>7. Coordinates(d) \in Seq(I)
  <2>1. [i \in 1 .. 5 |-> Config(d)] \in Seq(I)
    BY <1>4
  <2> QED BY <1>6, <2>1, Both DEF Coordinates
<1> QED BY <1>2, <1>3, <1>4, <1>5, <1>6, <1>7 DEF I

\* configPort writes instructions, and nothing else.
LEMMA ProgramWritten ==
  ASSUME NEW a \in Actions, NEW p \in Ports, NEW d \in Nat
  PROVE  Program(a, p, d) \in Seq(Instruction(Written))
<1> DEFINE I == Instruction(Written)
<1>0. p \in Ports \cup {0} /\ 0 \in Ports \cup {0} /\ 3 \in Nat /\ 4 \in Nat
      /\ 0 \in 0 .. 2 /\ 1 \in 0 .. 2 /\ 2 \in 0 .. 2
  OBVIOUS
<1>1. /\ Select(p, 0) \in Seq(I) /\ Select(p, 1) \in Seq(I) /\ Select(p, 2) \in Seq(I)
      /\ \A c \in Names : Send(c) \in Seq(I) /\ <<Wait(c)>> \in Seq(I)
      /\ Coordinates(d) \in Seq(I) /\ <<Config(d)>> \in Seq(I)
      /\ \A n \in Nat : [i \in 1 .. n |-> Config(d)] \in Seq(I)
      /\ \A n \in Nat : [i \in 1 .. n |-> Nothing] \in Seq(I)
  BY <1>0, Pieces, Zenon
<1>2. Select(0, 0) \in Seq(I)
  BY <1>0, Pieces, Zenon
<1>7. <<Nothing>> \in Seq(I)
  <2>1. Nothing \in I
    BY <1>0, WrittenNodes
  <2> HIDE DEF I
  <2> QED BY <2>1
<1>16. /\ "activate" \in Names /\ "prefetch" \in Names /\ "deActivate" \in Names
       /\ "reset" \in Names /\ "primed" \in Names /\ "done" \in Names /\ "idle" \in Names
       /\ "unconfigured" \in Names
  BY DEF Names
<1>8. Send("activate") \in Seq(I) /\ Send("prefetch") \in Seq(I) /\ Send("deActivate") \in Seq(I)
      /\ Send("reset") \in Seq(I)
      /\ <<Wait("primed")>> \in Seq(I) /\ <<Wait("done")>> \in Seq(I) /\ <<Wait("idle")>> \in Seq(I)
      /\ <<Wait("unconfigured")>> \in Seq(I)
  BY <1>1, <1>16, Zenon
<1>9. /\ [i \in 1 .. 4 |-> Config(d)] \in Seq(I) /\ [i \in 1 .. 3 |-> Config(d)] \in Seq(I)
      /\ [i \in 1 .. 4 |-> Nothing] \in Seq(I)
  BY <1>0, <1>1
<1>15. <<Wait("done"), Nothing>> = <<Wait("done")>> \o <<Nothing>>
  OBVIOUS
<1> HIDE DEF I
<1>3. OpenPort(p, d, "write", TRUE) \in Seq(I)
  BY <1>1, <1>8, Both DEF OpenPort
<1>4. OpenPort(p, d, "read", FALSE) \in Seq(I)
  BY <1>1, <1>8, Both DEF OpenPort
<1>5. OpenPort(p, d, "read", TRUE) \in Seq(I)
  BY <1>1, <1>8, Both DEF OpenPort
<1>6. ClosePort(p) \in Seq(I) /\ SyncPort(p) \in Seq(I)
  BY <1>1, <1>8, Both DEF ClosePort, SyncPort
<1>10. SyncPort(p) \o Send("activate") \in Seq(I) /\ Select(p, 0) \o Send("activate") \in Seq(I)
  BY <1>1, <1>6, <1>8, Both
<1>11. OpenPort(p, d, "read", TRUE) \o <<Wait("done")>> \o ClosePort(p) \in Seq(I)
  BY <1>5, <1>6, <1>8, Both
<1>12. Select(p, 0) \o <<Wait("done"), Nothing>> \o ClosePort(p) \in Seq(I)
  <2>1. <<Wait("done"), Nothing>> \in Seq(I)
    BY <1>7, <1>8, <1>15, Both
  <2> QED BY <2>1, <1>1, <1>6, Both
<1>13. Select(p, 0) \o Send("reset") \o <<Wait("unconfigured")>>
         \o Select(p, 1) \o [i \in 1 .. 4 |-> Config(d)] \o <<Nothing>>
         \o Select(p, 2) \o Coordinates(d) \o <<Wait("idle")>>
         \o Select(p, 0) \o <<Config(d)>> \in Seq(I)
  BY <1>1, <1>7, <1>8, <1>9, Both
<1>14. Select(0, 0) \o [i \in 1 .. 3 |-> Config(d)] \o [i \in 1 .. 4 |-> Nothing] \in Seq(I)
  BY <1>2, <1>9, Both
<1> QED BY <1>3, <1>4, <1>5, <1>6, <1>10, <1>11, <1>12, <1>13, <1>14, ActionsAssumption
        DEF Program, I

-----------------------------------------------------------------------------
(* Sequences and nodes.                                                    *)

\* A set of numbers that is not empty has a least member.
LEMMA Least ==
  ASSUME NEW T \in SUBSET Nat, T # {}
  PROVE  \E x \in T : \A y \in T : x <= y
<1> DEFINE R == {ss \in Nat \X Nat : ss[1] < ss[2]}
<1>1. IsWellFoundedOn(R, Nat)
  BY NatLessThanWellFounded DEF OpToRel
<1>2. PICK x \in T : \A y \in T : ~(<<y, x>> \in R)
  <2> HIDE DEF R
  <2> QED BY <1>1, WFMin
<1>3. ASSUME NEW y \in T PROVE x <= y
  <2>1. x \in Nat /\ y \in Nat
    OBVIOUS
  <2>2. <<y, x>> \in Nat \X Nat /\ <<y, x>>[1] = y /\ <<y, x>>[2] = x
    BY <2>1
  <2>3. ~(<<y, x>>[1] < <<y, x>>[2])
    BY <1>2, <2>2, Zenon
  <2> QED BY <2>1, <2>2, <2>3
<1> QED BY <1>3

\* MinIn and MaxIn are what they are called.
LEMMA MinInIs ==
  ASSUME NEW T \in SUBSET Nat, T # {}
  PROVE  MinIn(T) \in T /\ \A y \in T : MinIn(T) <= y
<1>1. \E x \in T : \A y \in T : x <= y
  BY Least
<1> QED BY <1>1, Zenon DEF MinIn

\* The greatest member of a set of numbers up to n.
LEMMA MaxInIs ==
  ASSUME NEW n \in Nat, NEW T \in SUBSET (1 .. n), T # {}
  PROVE  MaxIn(T) \in T /\ \A y \in T : y <= MaxIn(T)
<1> DEFINE U == {m \in 0 .. n : n - m \in T}
<1>1. U \in SUBSET Nat
  OBVIOUS
<1>2. U # {}
  <2>1. PICK x \in T : TRUE
    OBVIOUS
  <2>2. n - x \in 0 .. n /\ n - (n - x) = x
    OBVIOUS
  <2>3. n - x \in U
    BY <2>1, <2>2
  <2> QED BY <2>3
<1>3. PICK m \in U : \A y \in U : m <= y
  <2> HIDE DEF U
  <2> QED BY <1>1, <1>2, Least
<1>4. m \in 0 .. n /\ n - m \in T
  BY <1>3
<1>5. ASSUME NEW y \in T PROVE y <= n - m
  <2>1. n - y \in 0 .. n /\ n - (n - y) = y
    OBVIOUS
  <2>2. n - y \in U
    BY <2>1
  <2>3. m <= n - y
    BY <1>3, <2>2
  <2> QED BY <1>4, <2>1, <2>3
<1> QED BY <1>4, <1>5, Zenon DEF MaxIn

\* Where the elements of a concatenation come from.
LEMMA Joined ==
  ASSUME NEW S, NEW s \in Seq(S), NEW t \in Seq(S)
  PROVE  /\ s \o t \in Seq(S) /\ Len(s \o t) = Len(s) + Len(t)
         /\ \A k \in 1 .. Len(s) : (s \o t)[k] = s[k]
         /\ \A k \in Len(s) + 1 .. Len(s) + Len(t) : (s \o t)[k] = t[k - Len(s)]
OBVIOUS

\* And those of a piece.
LEMMA Cut ==
  ASSUME NEW S, NEW s \in Seq(S), NEW a \in 1 .. Len(s) + 1, NEW b \in a - 1 .. Len(s)
  PROVE  /\ SubSeq(s, a, b) \in Seq(S) /\ Len(SubSeq(s, a, b)) = b - a + 1
         /\ \A k \in 1 .. b - a + 1 : SubSeq(s, a, b)[k] = s[a + k - 1]
<1>1. Len(s) \in Nat /\ \A k \in 1 .. Len(s) : s[k] \in S
  OBVIOUS
<1>2. SubSeq(s, a, b) = [k \in 1 .. b - a + 1 |-> s[a + k - 1]]
  BY <1>1
<1>3. \A k \in 1 .. b - a + 1 : a + k - 1 \in 1 .. Len(s)
  BY <1>1
<1>4. b - a + 1 \in Nat
  BY <1>1
<1> QED BY <1>1, <1>2, <1>3, <1>4

\* The nodes of a list.
LEMMA NodeShape ==
  ASSUME NEW ops, ops \subseteq AllOps, NEW n \in NodesOf(ops)
  PROVE  /\ n \in NodesOf(AllOps)
         /\ n = Sentinel <=> n.op = "sentinel"
         /\ n = Sentinel \/ n \in Instruction(ops)
         /\ n.op \in ops \cup {"sentinel"}
         /\ n.port \in Ports \cup {0} /\ n.sub \in 0 .. 2 /\ n.data \in Nat
<1>1. Sentinel.op = "sentinel" /\ Sentinel.port = 0 /\ Sentinel.sub = 0 /\ Sentinel.data = 0
  BY DEF Sentinel, Node
<1>2. n = Sentinel \/ n \in Instruction(ops)
  BY DEF NodesOf
<1>3. "sentinel" \notin AllOps
  BY DEF AllOps, Written
<1>4. ASSUME n \in Instruction(ops)
      PROVE  /\ n.op \in ops /\ n.port \in Ports \cup {0} /\ n.sub \in 0 .. 2 /\ n.data \in Nat
             /\ n \in Instruction(AllOps)
  BY <1>4 DEF Instruction
<1> QED BY <1>1, <1>2, <1>3, <1>4 DEF NodesOf

\* What is written to the list is no sentinel.
LEMMA WrittenShape ==
  ASSUME NEW ops, ops \subseteq AllOps, NEW n \in Instruction(ops)
  PROVE  n \in NodesOf(ops) /\ n # Sentinel
<1>1. n \in NodesOf(ops) /\ n.op \in ops
  BY DEF NodesOf, Instruction
<1>2. "sentinel" \notin AllOps
  BY DEF AllOps, Written
<1> QED BY <1>1, <1>2, NodeShape

\* A piece of a list of processes that are not empty has no empty process.
LEMMA SpacedCut ==
  ASSUME NEW S, NEW s \in Seq(S), Spaced(s), NEW a \in 1 .. Len(s) + 1,
         NEW b \in a - 1 .. Len(s)
  PROVE  Spaced(SubSeq(s, a, b))
<1> DEFINE t == SubSeq(s, a, b)
<1>1. /\ Len(t) = b - a + 1 /\ \A k \in 1 .. b - a + 1 : t[k] = s[a + k - 1]
      /\ Len(s) \in Nat
  BY Cut
<1> HIDE DEF t
<1>2. SUFFICES ASSUME NEW k \in 1 .. Len(t) - 1 PROVE t[k] # Sentinel \/ t[k + 1] # Sentinel
  BY DEF Spaced, t
<1>3. k \in 1 .. b - a + 1 /\ k + 1 \in 1 .. b - a + 1 /\ a + (k + 1) - 1 = (a + k - 1) + 1
      /\ a + k - 1 \in 1 .. Len(s) - 1
  BY <1>1
<1> QED BY <1>1, <1>3 DEF Spaced

\* Nor has one list behind another when their sentinels do not meet.
LEMMA SpacedJoined ==
  ASSUME NEW S, NEW s \in Seq(S), NEW t \in Seq(S), Spaced(s), Spaced(t),
         \/ Len(s) = 0 \/ Len(t) = 0
         \/ s[Len(s)] # Sentinel
         \/ t[1] # Sentinel
  PROVE  Spaced(s \o t)
<1> DEFINE u == s \o t
<1>1. /\ Len(u) = Len(s) + Len(t) /\ Len(s) \in Nat /\ Len(t) \in Nat
      /\ \A k \in 1 .. Len(s) : u[k] = s[k]
      /\ \A k \in Len(s) + 1 .. Len(s) + Len(t) : u[k] = t[k - Len(s)]
  BY Joined
<1> HIDE DEF u
<1>2. SUFFICES ASSUME NEW k \in 1 .. Len(u) - 1 PROVE u[k] # Sentinel \/ u[k + 1] # Sentinel
  BY DEF Spaced, u
<1>3. CASE k < Len(s)
  <2>1. k \in 1 .. Len(s) /\ k + 1 \in 1 .. Len(s) /\ k \in 1 .. Len(s) - 1
    BY <1>1, <1>3
  <2> QED BY <1>1, <2>1 DEF Spaced
<1>4. CASE k = Len(s)
  <2>1. k \in 1 .. Len(s) /\ k + 1 \in Len(s) + 1 .. Len(s) + Len(t) /\ (k + 1) - Len(s) = 1
        /\ Len(s) # 0 /\ Len(t) # 0
    BY <1>1, <1>4
  <2> QED BY <1>1, <1>4, <2>1
<1>5. CASE k > Len(s)
  <2>1. /\ k \in Len(s) + 1 .. Len(s) + Len(t) /\ k + 1 \in Len(s) + 1 .. Len(s) + Len(t)
        /\ k - Len(s) \in 1 .. Len(t) - 1 /\ (k + 1) - Len(s) = (k - Len(s)) + 1
    BY <1>1, <1>5
  <2> QED BY <1>1, <2>1 DEF Spaced
<1> QED BY <1>1, <1>3, <1>4, <1>5

-----------------------------------------------------------------------------
(* Pieces of a list without padding.                                       *)

\* The nodes of a list that is not padded.
Plain == NodesOf(Written)

\* A list from its first sentinel on, as far as it has been put together.
Begun(s) == s \in Seq(Plain) /\ Len(s) > 0 /\ s[1] = Sentinel /\ Spaced(s)

\* Another piece behind it.
LEMMA BegunJoined ==
  ASSUME NEW s, Begun(s), NEW t \in Seq(Plain), Spaced(t),
         \/ Len(t) = 0
         \/ s[Len(s)] # Sentinel
         \/ t[1] # Sentinel
  PROVE  /\ Begun(s \o t) /\ Len(s \o t) = Len(s) + Len(t)
         /\ Len(t) > 0 => (s \o t)[Len(s \o t)] = t[Len(t)]
<1>1. s \in Seq(Plain) /\ Len(s) > 0 /\ s[1] = Sentinel /\ Spaced(s)
  BY DEF Begun
<1>2. /\ s \o t \in Seq(Plain) /\ Len(s \o t) = Len(s) + Len(t)
      /\ \A k \in 1 .. Len(s) : (s \o t)[k] = s[k]
      /\ \A k \in Len(s) + 1 .. Len(s) + Len(t) : (s \o t)[k] = t[k - Len(s)]
  BY <1>1, Joined
<1>3. Len(s) \in Nat /\ Len(t) \in Nat
  BY <1>1
<1>4. Spaced(s \o t)
  BY <1>1, SpacedJoined
<1>5. 1 \in 1 .. Len(s)
  BY <1>1, <1>3
<1>6. Len(t) > 0 => /\ Len(s) + Len(t) \in Len(s) + 1 .. Len(s) + Len(t)
                    /\ (Len(s) + Len(t)) - Len(s) = Len(t)
  BY <1>3
<1>7. Len(t) > 0 => (s \o t)[Len(s \o t)] = t[Len(t)]
  BY <1>2, <1>6
<1>8. (s \o t)[1] = Sentinel
  BY <1>1, <1>2, <1>5
<1>9. Len(s \o t) > 0
  BY <1>1, <1>2, <1>3
<1> QED BY <1>2, <1>4, <1>7, <1>8, <1>9 DEF Begun

\* Nodes of the programs.
LEMMA AddedNodes ==
  ASSUME NEW p \in Ports \cup {0}, NEW sub \in 0 .. 2
  PROVE  /\ Addr(p, sub) \in Plain /\ Addr(p, sub) # Sentinel
         /\ Command("cacheStart") \in Plain /\ Command("cacheStart") # Sentinel
         /\ Command("cacheFinish") \in Plain /\ Command("cacheFinish") # Sentinel
<1>1. Written \subseteq AllOps /\ "cacheStart" \in Names /\ "cacheFinish" \in Names /\ 0 \in Nat
  BY DEF AllOps, Names
<1>2. /\ Addr(p, sub) \in Instruction(Written)
      /\ Command("cacheStart") \in Instruction(Written)
      /\ Command("cacheFinish") \in Instruction(Written)
  BY <1>1, WrittenNodes, Zenon
<1> QED BY <1>1, <1>2, WrittenShape DEF Plain

\* What a port number read off the list is.
LEMMA PortsRead ==
  ASSUME list \in Seq(Plain), NEW i \in 1 .. Len(list)
  PROVE  /\ Addressed(i) \in Ports \cup {0}
         /\ Addressed(i) # 0 => \E k \in 1 .. i : list[k].op = "addr"
         /\ \A n \in 1 .. Len(list) : DescentPort(i, n) \in Ports \cup {0}
<1>1. Len(list) \in Nat /\ \A k \in 1 .. Len(list) : list[k] \in Plain
  BY DEF Plain
<1>2. \A k \in 1 .. Len(list) : list[k].port \in Ports \cup {0}
  <2>1. Written \subseteq AllOps
    BY DEF AllOps
  <2> QED BY <1>1, <2>1, NodeShape DEF Plain
<1>3. ASSUME NEW j \in 1 .. Len(list) + 1, NEW n \in 1 .. Len(list)
      PROVE  LastAddr(j, n) # 0 =>
               LastAddr(j, n) \in j .. n /\ list[LastAddr(j, n)].op = "addr"
  <2> DEFINE T == {k \in j .. n : list[k].op = "addr"}
  <2>1. LastAddr(j, n) = IF T = {} THEN 0 ELSE MaxIn(T)
    BY DEF LastAddr
  <2>2. T \in SUBSET (1 .. n) /\ n \in Nat
    BY <1>1
  <2>3. \A k \in T : k \in j .. n /\ list[k].op = "addr"
    OBVIOUS
  <2> HIDE DEF T
  <2>4. T # {} => MaxIn(T) \in T
    BY <2>2, MaxInIs
  <2> QED BY <2>1, <2>3, <2>4
<1>4. LastAddr(1, i) # 0 => LastAddr(1, i) \in 1 .. i /\ list[LastAddr(1, i)].op = "addr"
  BY <1>1, <1>3
<1>5. Addressed(i) \in Ports \cup {0}
  <2>1. LastAddr(1, i) # 0 => LastAddr(1, i) \in 1 .. Len(list)
    BY <1>1, <1>4
  <2> QED BY <1>2, <2>1 DEF Addressed
<1>6. Addressed(i) # 0 => \E k \in 1 .. i : list[k].op = "addr"
  BY <1>4 DEF Addressed
<1>7. ASSUME NEW n \in 1 .. Len(list)
      PROVE  DescentPort(i, n) \in Ports \cup {0}
  <2>1. i + 1 \in 1 .. Len(list) + 1
    BY <1>1
  <2>2. LastAddr(i + 1, n) # 0 => LastAddr(i + 1, n) \in i + 1 .. n
    BY <1>3, <2>1
  <2>3. LastAddr(i + 1, n) # 0 => LastAddr(i + 1, n) \in 1 .. Len(list)
    BY <1>1, <2>2
  <2> QED BY <1>2, <1>5, <2>3 DEF DescentPort
<1> QED BY <1>5, <1>6, <1>7

\* Where a segment lies that can be moved: behind the wait, inside a process.
LEMMA SegmentShape ==
  ASSUME list \in Seq(Plain), NEW i \in 1 .. Len(list), NEW seg \in Segments(i)
  PROVE  /\ seg[1] \in i + 1 .. Len(list) /\ seg[2] \in seg[1] + 1 .. Len(list)
         /\ \A k \in seg[1] .. seg[2] : list[k] # Sentinel
<1> DEFINE starts == {n \in i + 1 .. Len(list) : Candidate(i, n)}
           s == MinIn(starts)
           stops == {n \in s + 1 .. Len(list) : list[n].op \in {"sentinel", "addr", "command"}}
           ends == {n \in s + 1 .. Len(list) : Words(s, n) = 5 /\ \A k \in stops : n < k}
           e == MinIn(ends)
<1>1. Len(list) \in Nat /\ starts # {} /\ ends # {} /\ seg = <<s, e>>
  BY SMTT(30) DEF Segments
<1>2. starts \in SUBSET Nat
  BY <1>1
<1>3. s \in starts
  <2> HIDE DEF starts
  <2> QED BY <1>1, <1>2, MinInIs
<1>4. s \in i + 1 .. Len(list) /\ list[s].op # "sentinel"
  BY <1>3 DEF Candidate
<1> HIDE DEF s
<1>5. ends \in SUBSET Nat
  BY <1>1, <1>4
<1>6. e \in ends
  <2> HIDE DEF ends
  <2> QED BY <1>1, <1>5, MinInIs
<1> HIDE DEF e
<1>7. e \in s + 1 .. Len(list) /\ \A k \in stops : e < k
  BY <1>6
<1>8. \A k \in 1 .. Len(list) : list[k] = Sentinel <=> list[k].op = "sentinel"
  <2>1. Written \subseteq AllOps /\ \A k \in 1 .. Len(list) : list[k] \in NodesOf(Written)
    BY DEF AllOps, Plain
  <2> QED BY <2>1, NodeShape
<1>9. ASSUME NEW k \in s .. e PROVE list[k] # Sentinel
  <2>1. CASE k = s
    BY <1>4, <1>8, <2>1, <1>1
  <2>2. CASE k # s
    <3>1. k \in s + 1 .. Len(list) /\ ~(e < k) /\ k \in 1 .. Len(list)
      BY <1>1, <1>4, <1>7, <2>2
    <3>2. k \notin stops
      BY <1>7, <3>1
    <3> QED BY <1>8, <3>1, <3>2
  <2> QED BY <2>1, <2>2
<1>10. seg[1] = s /\ seg[2] = e
  BY <1>1
<1> QED BY <1>4, <1>7, <1>9, <1>10

\* A piece of the list.
LEMMA PieceShape ==
  ASSUME list \in Seq(Plain), Spaced(list),
         NEW a \in 1 .. Len(list) + 1, NEW b \in a - 1 .. Len(list)
  PROVE  /\ SubSeq(list, a, b) \in Seq(Plain) /\ Spaced(SubSeq(list, a, b))
         /\ Len(SubSeq(list, a, b)) = b - a + 1
         /\ b >= a => /\ SubSeq(list, a, b)[1] = list[a]
                      /\ SubSeq(list, a, b)[Len(SubSeq(list, a, b))] = list[b]
<1>1. /\ SubSeq(list, a, b) \in Seq(Plain) /\ Len(SubSeq(list, a, b)) = b - a + 1
      /\ \A k \in 1 .. b - a + 1 : SubSeq(list, a, b)[k] = list[a + k - 1]
  BY Cut
<1>2. Spaced(SubSeq(list, a, b))
  BY SpacedCut
<1>3. Len(list) \in Nat
  OBVIOUS
<1>4. b >= a => /\ 1 \in 1 .. b - a + 1 /\ b - a + 1 \in 1 .. b - a + 1
                /\ a + 1 - 1 = a /\ a + (b - a + 1) - 1 = b
  BY <1>3
<1> QED BY <1>1, <1>2, <1>4

\* Two nodes that are written.
LEMMA PairShape ==
  ASSUME NEW m \in Plain, NEW n \in Plain, m # Sentinel, n # Sentinel
  PROVE  /\ <<m, n>> \in Seq(Plain) /\ Spaced(<<m, n>>)
         /\ Len(<<m, n>>) = 2 /\ <<m, n>>[1] = m /\ <<m, n>>[2] = n
<1>1. Len(<<m, n>>) = 2 /\ <<m, n>>[1] = m /\ <<m, n>>[2] = n /\ <<m, n>> \in Seq(Plain)
  OBVIOUS
<1>2. \A k \in 1 .. 2 - 1 : k = 1
  OBVIOUS
<1>3. Spaced(<<m, n>>)
  BY <1>1, <1>2 DEF Spaced
<1> QED BY <1>1, <1>3

\* Where the segment goes: in front of it a process has begun, behind it the list
\* goes on to the wait.
LEMMA BeforeWaitShape ==
  ASSUME list \in Seq(Plain), Spaced(list), list[1] = Sentinel,
         NEW i \in 1 .. Len(list), list[i].op = "wait", Addressed(i) # 0
  PROVE  /\ Begun(BeforeWait(i)[1])
         /\ BeforeWait(i)[2] \in Seq(Plain) /\ Spaced(BeforeWait(i)[2])
         /\ Len(BeforeWait(i)[2]) > 0
         /\ BeforeWait(i)[2][Len(BeforeWait(i)[2])] = list[i]
<1> DEFINE T == {n \in 1 .. i - 1 : list[n].op \in {"addr", "command", "config"}}
           w == MaxIn(T)
           A == <<Addr(Addressed(i), 0)>>
           rest == SubSeq(list, w + 1, i)
<1>1. Len(list) \in Nat /\ Addressed(i) \in Ports \cup {0}
  BY PortsRead
<1>2. T # {}
  <2>1. PICK k \in 1 .. i : list[k].op = "addr"
    BY PortsRead
  <2>2. k # i
    BY <2>1
  <2>3. k \in 1 .. i - 1
    BY <1>1, <2>2
  <2> QED BY <2>1, <2>3
<1>3. T \in SUBSET (1 .. i - 1) /\ i - 1 \in Nat
  BY <1>1
<1>4. w \in T
  <2> HIDE DEF T
  <2> QED BY <1>2, <1>3, MaxInIs
<1>5. w \in 1 .. i - 1 /\ list[w].op \in {"addr", "command", "config"}
  BY <1>4
<1>6. BeforeWait(i) = IF list[w].op = "addr" /\ list[w].port = Addressed(i)
                      THEN <<SubSeq(list, 1, w - 1), SubSeq(list, w, i)>>
                      ELSE <<SubSeq(list, 1, w), A \o rest>>
  BY Zenon DEF BeforeWait
<1> HIDE DEF w
<1>7. w # 1
  <2>1. Sentinel.op = "sentinel"
    BY DEF Sentinel, Node
  <2> QED BY <1>5, <2>1
<1>8. /\ w \in 2 .. Len(list) /\ w - 1 \in 1 .. Len(list) /\ w <= i /\ w + 1 <= i
      /\ 1 \in 1 .. Len(list) + 1 /\ w \in 1 .. Len(list) + 1 /\ w + 1 \in 1 .. Len(list) + 1
      /\ w - 1 \in 1 - 1 .. Len(list) /\ w \in 1 - 1 .. Len(list)
      /\ i \in w - 1 .. Len(list) /\ i \in (w + 1) - 1 .. Len(list)
      /\ w - 1 >= 1 /\ w >= 1
  BY <1>1, <1>5, <1>7, SMTT(30)
<1>9. Begun(SubSeq(list, 1, w - 1)) /\ Begun(SubSeq(list, 1, w))
  <2>1. /\ SubSeq(list, 1, w - 1) \in Seq(Plain) /\ Spaced(SubSeq(list, 1, w - 1))
        /\ Len(SubSeq(list, 1, w - 1)) = (w - 1) - 1 + 1
        /\ SubSeq(list, 1, w - 1)[1] = list[1]
    BY <1>8, PieceShape
  <2>2. /\ SubSeq(list, 1, w) \in Seq(Plain) /\ Spaced(SubSeq(list, 1, w))
        /\ Len(SubSeq(list, 1, w)) = w - 1 + 1
        /\ SubSeq(list, 1, w)[1] = list[1]
    BY <1>8, PieceShape
  <2>3. (w - 1) - 1 + 1 > 0 /\ w - 1 + 1 > 0
    BY <1>8
  <2> QED BY <2>1, <2>2, <2>3 DEF Begun
<1>10. /\ rest \in Seq(Plain) /\ Spaced(rest) /\ Len(rest) > 0
       /\ rest[Len(rest)] = list[i]
  <2>1. /\ rest \in Seq(Plain) /\ Spaced(rest) /\ Len(rest) = i - (w + 1) + 1
        /\ rest[Len(rest)] = list[i]
    BY <1>8, PieceShape
  <2> QED BY <1>8, <2>1
<1>11. LET r == SubSeq(list, w, i) IN
         r \in Seq(Plain) /\ Spaced(r) /\ Len(r) > 0 /\ r[Len(r)] = list[i]
  <2> DEFINE r == SubSeq(list, w, i)
  <2>1. r \in Seq(Plain) /\ Spaced(r) /\ Len(r) = i - w + 1 /\ r[Len(r)] = list[i]
    BY <1>8, PieceShape
  <2> QED BY <1>8, <2>1
<1>12. LET r == A \o rest IN
         r \in Seq(Plain) /\ Spaced(r) /\ Len(r) > 0 /\ r[Len(r)] = list[i]
  <2>1. Addr(Addressed(i), 0) \in Plain /\ Addr(Addressed(i), 0) # Sentinel
    <3>1. 0 \in 0 .. 2
      OBVIOUS
    <3> QED BY <1>1, <3>1, AddedNodes
  <2>2. A \in Seq(Plain) /\ Len(A) = 1 /\ A[1] = Addr(Addressed(i), 0)
    BY <2>1
  <2>3. Spaced(A)
    BY <2>2 DEF Spaced
  <2> HIDE DEF A, rest
  <2>9. /\ A \o rest \in Seq(Plain) /\ Len(A \o rest) = Len(A) + Len(rest)
        /\ \A k \in Len(A) + 1 .. Len(A) + Len(rest) : (A \o rest)[k] = rest[k - Len(A)]
    BY <1>10, <2>2, Joined, Zenon
  <2>4. Len(A \o rest) = 1 + Len(rest)
    BY <2>2, <2>9
  <2>5. Spaced(A \o rest)
    BY <1>10, <2>1, <2>2, <2>3, SpacedJoined
  <2>6. Len(rest) \in Nat
    BY <1>10
  <2>7. /\ 1 + Len(rest) \in Len(A) + 1 .. Len(A) + Len(rest) /\ (1 + Len(rest)) - Len(A) = Len(rest)
        /\ 1 + Len(rest) > 0
    BY <1>10, <2>2, <2>6
  <2>8. (A \o rest)[Len(A \o rest)] = list[i]
    BY <1>10, <2>4, <2>7, <2>9
  <2> QED BY <2>4, <2>5, <2>7, <2>8, <2>9
<1>13. CASE list[w].op = "addr" /\ list[w].port = Addressed(i)
  <2>0. BeforeWait(i) = <<SubSeq(list, 1, w - 1), SubSeq(list, w, i)>>
    BY <1>6, <1>13, Zenon
  <2> DEFINE X == SubSeq(list, 1, w - 1)
             Y == SubSeq(list, w, i)
             f == BeforeWait(i)
  <2>2. f = <<X, Y>>
    BY <2>0
  <2> HIDE DEF X, Y, f
  <2>3. f[1] = X /\ f[2] = Y
    BY <2>2
  <2>1. BeforeWait(i)[1] = SubSeq(list, 1, w - 1) /\ BeforeWait(i)[2] = SubSeq(list, w, i)
    BY <2>3 DEF X, Y, f
  <2> QED BY <1>9, <1>11, <2>1
<1>14. CASE ~(list[w].op = "addr" /\ list[w].port = Addressed(i))
  <2>0. BeforeWait(i) = <<SubSeq(list, 1, w), A \o rest>>
    BY <1>6, <1>14, Zenon
  <2> DEFINE X == SubSeq(list, 1, w)
             Y == A \o rest
             f == BeforeWait(i)
  <2>2. f = <<X, Y>>
    BY <2>0
  <2> HIDE DEF X, Y, f
  <2>3. f[1] = X /\ f[2] = Y
    BY <2>2
  <2>1. BeforeWait(i)[1] = SubSeq(list, 1, w) /\ BeforeWait(i)[2] = A \o rest
    BY <2>3 DEF X, Y, f
  <2> QED BY <1>9, <1>12, <2>1
<1> QED BY <1>13, <1>14

\* cacheConfigOptimization moves a segment without emptying a process or touching
\* the sentinels at both ends.
LEMMA OptimiseShape ==
  ASSUME list \in Seq(Plain), Spaced(list), list[1] = Sentinel,
         Len(list) > 1, list[Len(list)] = Sentinel, cursor \in 1 .. Len(list) + 1,
         Optimise
  PROVE  /\ list' \in Seq(Plain) /\ Spaced(list') /\ list'[1] = Sentinel
         /\ Len(list') > 1 /\ list'[Len(list')] = Sentinel
         /\ cursor' \in 1 .. Len(list') + 1
<1> DEFINE i == MinIn(Waits)
           found == Segments(i)
<1>1. Len(list) \in Nat
  OBVIOUS
<1>2. i \in Waits
  <2>1. Waits \in SUBSET Nat
    BY <1>1 DEF Waits
  <2>2. Waits # {}
    BY DEF Optimise
  <2> QED BY <2>1, <2>2, MinInIs
<1>3. i \in 1 .. Len(list) /\ list[i].op = "wait" /\ Addressed(i) # 0
  BY <1>1, <1>2 DEF Waits
<1>4. CASE found = {}
  <2>1. list' = list /\ cursor' = i + 1
    BY <1>4 DEF Optimise
  <2> HIDE DEF i
  <2>2. cursor' \in 1 .. Len(list') + 1
    BY <1>1, <1>3, <2>1
  <2>3. Spaced(list')
    BY <2>1 DEF Spaced
  <2> QED BY <2>1, <2>2, <2>3
<1>5. CASE found # {}
  <2> DEFINE seg == CHOOSE g \in found : TRUE
             s == seg[1]
             e == seg[2]
             at == BeforeWait(i)
             M == <<list[s], Command("cacheStart")>>
             G == SubSeq(list, s + 1, e)
             Y == SubSeq(list, i + 1, s - 1)
             C == <<Addr(DescentPort(i, s), 2), Command("cacheFinish")>>
             Z == SubSeq(list, e + 1, Len(list))
             up == at[1] \o M \o G \o at[2]
  <2>1. list' = up \o Y \o C \o Z /\ cursor' = Len(up) + 1
    BY <1>5 DEF Optimise
  <2>2. seg \in found
    BY <1>5
  <2> HIDE DEF seg
  <2>3. /\ s \in i + 1 .. Len(list) /\ e \in s + 1 .. Len(list)
        /\ \A k \in s .. e : list[k] # Sentinel
    <3> HIDE DEF i
    <3> QED BY <1>3, <2>2, SegmentShape
  <2>4. /\ Begun(at[1]) /\ at[2] \in Seq(Plain) /\ Spaced(at[2]) /\ Len(at[2]) > 0
        /\ at[2][Len(at[2])] = list[i]
    <3> HIDE DEF i
    <3> QED BY <1>3, BeforeWaitShape
  <2>5. list[i] # Sentinel
    <3>1. Sentinel.op = "sentinel"
      BY DEF Sentinel, Node
    <3> QED BY <1>3, <3>1
  <2>12. DescentPort(i, s) \in Ports \cup {0}
    <3>1. s \in 1 .. Len(list)
      BY <1>1, <1>3, <2>3
    <3> HIDE DEF i, s
    <3> QED BY <1>3, <3>1, PortsRead
  <2> HIDE DEF i, s, e, at, found
  <2>6. /\ s \in 1 .. Len(list) /\ e \in 1 .. Len(list) /\ e # Len(list)
        /\ s + 1 \in 1 .. Len(list) + 1 /\ e \in (s + 1) - 1 .. Len(list) /\ e >= s + 1
        /\ i + 1 \in 1 .. Len(list) + 1 /\ s - 1 \in (i + 1) - 1 .. Len(list)
        /\ e + 1 \in 1 .. Len(list) + 1 /\ Len(list) \in (e + 1) - 1 .. Len(list)
        /\ list[s] # Sentinel /\ list[e] # Sentinel
    <3>1. s \in s .. e /\ e \in s .. e
      BY <1>1, <1>3, <2>3
    <3>2. list[s] # Sentinel /\ list[e] # Sentinel
      BY <2>3, <3>1
    <3>3. e # Len(list)
      BY <3>2
    <3> QED BY <1>1, <1>3, <2>3, <3>2, <3>3
  <2>7. /\ M \in Seq(Plain) /\ Spaced(M) /\ Len(M) = 2 /\ M[1] = list[s]
        /\ M[2] = Command("cacheStart") /\ Command("cacheStart") # Sentinel
    <3>1. Command("cacheStart") \in Plain /\ Command("cacheStart") # Sentinel
      BY <2>12, AddedNodes
    <3>2. list[s] \in Plain /\ list[s] # Sentinel
      BY <2>6
    <3> QED BY <3>1, <3>2, PairShape
  <2>8. /\ C \in Seq(Plain) /\ Spaced(C) /\ Len(C) = 2
        /\ C[1] = Addr(DescentPort(i, s), 2) /\ C[1] # Sentinel
        /\ C[2] = Command("cacheFinish") /\ C[2] # Sentinel
    <3>1. /\ Addr(DescentPort(i, s), 2) \in Plain /\ Addr(DescentPort(i, s), 2) # Sentinel
          /\ Command("cacheFinish") \in Plain /\ Command("cacheFinish") # Sentinel
      <4>1. 2 \in 0 .. 2
        OBVIOUS
      <4> QED BY <2>12, <4>1, AddedNodes
    <3> QED BY <3>1, PairShape
  <2>9. /\ G \in Seq(Plain) /\ Spaced(G) /\ Len(G) = e - (s + 1) + 1
        /\ G[Len(G)] = list[e]
    BY <2>6, PieceShape
  <2>10. Y \in Seq(Plain) /\ Spaced(Y)
    BY <2>6, PieceShape
  <2>11. /\ Z \in Seq(Plain) /\ Spaced(Z) /\ Len(Z) = Len(list) - (e + 1) + 1
         /\ Len(list) >= e + 1 => Z[Len(Z)] = list[Len(list)]
    BY <2>6, PieceShape
  <2>13. Len(G) > 0 /\ Len(Z) > 0 /\ Z[Len(Z)] = Sentinel
    <3>1. Len(list) >= e + 1
      BY <1>1, <2>6
    <3>2. e \in Nat /\ s \in Nat
      BY <1>1, <2>6
    <3> QED BY <1>1, <2>6, <2>9, <2>11, <3>1, <3>2
  <2> HIDE DEF M, G, Y, C, Z
  <2> DEFINE F1 == at[1] \o M
             F2 == F1 \o G
             F5 == up \o Y
             F6 == F5 \o C
  <2>14. Begun(F1) /\ F1[Len(F1)] # Sentinel
    <3>1. M[1] # Sentinel /\ M[Len(M)] # Sentinel /\ Len(M) > 0
      BY <2>6, <2>7
    <3> QED BY <2>4, <2>7, <3>1, BegunJoined
  <2> HIDE DEF F1
  <2>15. Begun(F2) /\ F2[Len(F2)] # Sentinel
    BY <2>6, <2>9, <2>13, <2>14, BegunJoined
  <2>16. up = F2 \o at[2]
    BY DEF F1
  <2> HIDE DEF F2, up
  <2>17. Begun(up) /\ up[Len(up)] # Sentinel
    BY <2>4, <2>5, <2>15, <2>16, BegunJoined
  <2>18. Begun(F5) /\ Len(F5) = Len(up) + Len(Y)
    BY <2>10, <2>17, BegunJoined
  <2> HIDE DEF F5
  <2>19. Begun(F6) /\ Len(F6) = Len(F5) + Len(C) /\ F6[Len(F6)] # Sentinel
    <3>1. Len(C) > 0 /\ C[Len(C)] # Sentinel
      BY <2>8
    <3> QED BY <2>8, <2>18, <3>1, BegunJoined
  <2>20. list' = F6 \o Z
    BY <2>1 DEF F5, F6
  <2> HIDE DEF F6
  <2>21. /\ Begun(list') /\ Len(list') = Len(F6) + Len(Z)
         /\ list'[Len(list')] = Sentinel
    BY <2>11, <2>13, <2>19, <2>20, BegunJoined
  <2>22. Len(list') > 1 /\ cursor' \in 1 .. Len(list') + 1
    <3>1. Len(up) \in Nat /\ Len(Y) \in Nat /\ Len(Z) \in Nat /\ Len(up) > 0 /\ Len(C) = 2
      BY <2>8, <2>10, <2>11, <2>17 DEF Begun
    <3>2. Len(list') = Len(up) + Len(Y) + 2 + Len(Z)
      BY <2>18, <2>19, <2>21, <3>1
    <3> QED BY <2>1, <3>1, <3>2
  <2> QED BY <2>21, <2>22 DEF Begun
<1> QED BY <1>4, <1>5

-----------------------------------------------------------------------------
(* Addresses, and the numbers of sentinels.                                *)

\* Address, Dumped, Ordinal and NextSentinel of any list.
Busy(l, n) == Cardinality({k \in 1 .. n - 1 : l[k] # Sentinel})
Number(l, i) == Cardinality({k \in 1 .. i : l[k] = Sentinel})
Following(l, n) == MinIn({k \in n + 1 .. Len(l) : l[k] = Sentinel})

\* A part of 1 .. n is finite.
LEMMA PartFinite ==
  ASSUME NEW n \in Int, NEW T \in SUBSET (1 .. n)
  PROVE  IsFiniteSet(T) /\ Cardinality(T) \in Nat
<1>1. IsFiniteSet(1 .. n)
  BY FS_Interval
<1>2. IsFiniteSet(T)
  BY <1>1, FS_Subset
<1> QED BY <1>2, FS_CardinalityType

\* Counts are numbers.
LEMMA CountsAreNumbers ==
  ASSUME NEW l, NEW n \in Nat
  PROVE  Busy(l, n) \in Nat /\ Number(l, n) \in Nat
<1>1. {k \in 1 .. n - 1 : l[k] # Sentinel} \in SUBSET (1 .. n - 1) /\ n - 1 \in Int
  OBVIOUS
<1>2. {k \in 1 .. n : l[k] = Sentinel} \in SUBSET (1 .. n) /\ n \in Int
  OBVIOUS
<1>3. Busy(l, n) \in Nat
  BY <1>1, PartFinite, Zenon DEF Busy
<1>4. Number(l, n) \in Nat
  BY <1>2, PartFinite, Zenon DEF Number
<1> QED BY <1>3, <1>4

\* From a to b without a sentinel there are b - a instructions.
LEMMA BusyRun ==
  ASSUME NEW l, NEW a \in Nat \ {0}, NEW b \in Nat, a <= b,
         \A k \in a .. b - 1 : l[k] # Sentinel
  PROVE  Busy(l, b) = Busy(l, a) + (b - a)
<1> DEFINE A == {k \in 1 .. a - 1 : l[k] # Sentinel}
           R == a .. b - 1
           B == {k \in 1 .. b - 1 : l[k] # Sentinel}
<1>1. B = A \cup R /\ A \cap R = {}
  OBVIOUS
<1>2. IsFiniteSet(A) /\ Cardinality(A) \in Nat
  <2>1. A \in SUBSET (1 .. a - 1) /\ a - 1 \in Int
    OBVIOUS
  <2> HIDE DEF A
  <2> QED BY <2>1, PartFinite
<1>3. IsFiniteSet(R) /\ Cardinality(R) = b - a
  <2>1. /\ IsFiniteSet(a .. (b - 1))
        /\ Cardinality(a .. (b - 1)) = IF a > b - 1 THEN 0 ELSE (b - 1) - a + 1
    BY FS_Interval
  <2> QED BY <2>1
<1>4. Cardinality(A \cup R) = Cardinality(A) + Cardinality(R) - Cardinality(A \cap R)
  <2> HIDE DEF A, R
  <2> QED BY <1>2, <1>3, FS_Union
<1>5. Cardinality(A \cap R) = 0
  BY <1>1, FS_EmptySet
<1>6. Cardinality(B) = Cardinality(A) + (b - a)
  <2> HIDE DEF A, R, B
  <2> QED BY <1>1, <1>2, <1>3, <1>4, <1>5
<1> QED BY <1>6 DEF Busy

\* A sentinel takes no address.
LEMMA BusySentinel ==
  ASSUME NEW l, NEW n \in Nat \ {0}, l[n] = Sentinel
  PROVE  Busy(l, n + 1) = Busy(l, n)
<1>1. {k \in 1 .. (n + 1) - 1 : l[k] # Sentinel} = {k \in 1 .. n - 1 : l[k] # Sentinel}
  OBVIOUS
<1> QED BY <1>1 DEF Busy

\* Counts depend on what is counted.
LEMMA CountsSame ==
  ASSUME NEW l, NEW m, NEW n \in Nat,
         \A k \in 1 .. n : l[k] = Sentinel <=> m[k] = Sentinel
  PROVE  Busy(l, n) = Busy(m, n) /\ Number(l, n) = Number(m, n)
<1>1. {k \in 1 .. n - 1 : l[k] # Sentinel} = {k \in 1 .. n - 1 : m[k] # Sentinel}
  OBVIOUS
<1>2. {k \in 1 .. n : l[k] = Sentinel} = {k \in 1 .. n : m[k] = Sentinel}
  OBVIOUS
<1> QED BY <1>1, <1>2 DEF Busy, Number

\* The number of a sentinel does not tell what is in front of it.
LEMMA NumberMoved ==
  ASSUME NEW l, NEW m, NEW c \in Nat \ {0}, NEW p \in Nat,
         \A k \in 1 .. c - 1 : l[k] = m[k],
         l[c] = Sentinel, m[c + p] = Sentinel,
         \A k \in c .. c + p - 1 : m[k] # Sentinel
  PROVE  Number(l, c) = Number(m, c + p)
<1> DEFINE F == {k \in 1 .. c - 1 : l[k] = Sentinel}
<1>1. {k \in 1 .. c : l[k] = Sentinel} = F \cup {c} /\ c \notin F
  OBVIOUS
<1>2. {k \in 1 .. c + p : m[k] = Sentinel} = F \cup {c + p} /\ c + p \notin F
  OBVIOUS
<1>3. IsFiniteSet(F)
  <2>1. F \in SUBSET (1 .. c - 1) /\ c - 1 \in Int
    OBVIOUS
  <2> HIDE DEF F
  <2> QED BY <2>1, PartFinite
<1> HIDE DEF F
<1>4. Cardinality(F \cup {c}) = Cardinality(F) + 1
  BY <1>1, <1>3, FS_AddElement
<1>5. Cardinality(F \cup {c + p}) = Cardinality(F) + 1
  BY <1>2, <1>3, FS_AddElement
<1> QED BY <1>1, <1>2, <1>4, <1>5 DEF Number

\* Sentinels are told apart by their numbers.
LEMMA NumberTells ==
  ASSUME NEW l, NEW s \in Nat \ {0}, NEW t \in Nat \ {0},
         l[s] = Sentinel, l[t] = Sentinel, Number(l, s) = Number(l, t)
  PROVE  s = t
<1> DEFINE U(i) == {k \in 1 .. i : l[k] = Sentinel}
<1>1. ASSUME NEW i \in Nat \ {0}, NEW j \in Nat \ {0}, i < j, l[j] = Sentinel
      PROVE  Cardinality(U(i)) # Cardinality(U(j))
  <2>1. U(i) \in SUBSET U(j)
    BY <1>1
  <2>2. j \in U(j) /\ j \notin U(i)
    BY <1>1
  <2>3. IsFiniteSet(U(j))
    <3>1. U(j) \in SUBSET (1 .. j) /\ j \in Int
      OBVIOUS
    <3> HIDE DEF U
    <3> QED BY <3>1, PartFinite
  <2> HIDE DEF U
  <2>4. Cardinality(U(j)) = Cardinality(U(i)) => U(j) = U(i)
    BY <2>1, <2>3, FS_Subset
  <2> QED BY <2>2, <2>4
<1>2. Cardinality(U(s)) = Cardinality(U(t))
  BY DEF Number
<1> HIDE DEF U
<1>3. ~(s < t) /\ ~(t < s)
  BY <1>1, <1>2
<1> QED BY <1>3

\* The next sentinel is the first one behind.
LEMMA FollowingIs ==
  ASSUME NEW l, Len(l) \in Nat, NEW n \in Nat, NEW m \in n + 1 .. Len(l),
         l[m] = Sentinel, \A k \in n + 1 .. m - 1 : l[k] # Sentinel
  PROVE  Following(l, n) = m
<1> DEFINE T == {k \in n + 1 .. Len(l) : l[k] = Sentinel}
<1>1. T \in SUBSET Nat /\ m \in T /\ \A k \in T : m <= k
  OBVIOUS
<1> HIDE DEF T
<1>2. MinIn(T) \in T /\ \A y \in T : MinIn(T) <= y
  BY <1>1, MinInIs
<1>3. MinIn(T) = m
  <2>1. m <= MinIn(T) /\ MinIn(T) <= m
    BY <1>1, <1>2
  <2>2. MinIn(T) \in Nat /\ m \in Nat
    BY <1>1, <1>2
  <2> QED BY <2>1, <2>2
<1> QED BY <1>3 DEF Following, T

\* There is one behind every node but the last.
LEMMA FollowingThere ==
  ASSUME NEW l, Len(l) \in Nat, l[Len(l)] = Sentinel, NEW n \in Nat, n < Len(l)
  PROVE  /\ Following(l, n) \in n + 1 .. Len(l) /\ l[Following(l, n)] = Sentinel
         /\ \A k \in n + 1 .. Following(l, n) - 1 : l[k] # Sentinel
<1> DEFINE T == {k \in n + 1 .. Len(l) : l[k] = Sentinel}
<1>1. T \in SUBSET Nat /\ Len(l) \in T
  OBVIOUS
<1> HIDE DEF T
<1>2. MinIn(T) \in T /\ \A y \in T : MinIn(T) <= y
  BY <1>1, MinInIs
<1>3. Following(l, n) = MinIn(T)
  BY DEF T, Following
<1> HIDE DEF Following
<1> DEFINE f == Following(l, n)
<1>4. f \in n + 1 .. Len(l) /\ l[f] = Sentinel
  BY <1>2, <1>3 DEF T
<1>5. \A y \in T : f <= y
  BY <1>2, <1>3
<1> HIDE DEF f
<1>6. ASSUME NEW k \in n + 1 .. f - 1 PROVE l[k] # Sentinel
  <2>1. k \in n + 1 .. Len(l) /\ ~(f <= k)
    BY <1>4
  <2> QED BY <1>5, <2>1 DEF T
<1> QED BY <1>4, <1>6 DEF f

-----------------------------------------------------------------------------
(* Padding, and pages.                                                     *)

\* A goto and zeros.
LEMMA PaddingShape ==
  ASSUME NEW n \in Nat, NEW process \in Nat
  PROVE  /\ Padding(n, process) \in Seq(NodesOf(AllOps)) /\ Len(Padding(n, process)) = n
         /\ \A k \in 1 .. n : Padding(n, process)[k] # Sentinel
         /\ n > 0 => /\ Padding(n, process)[1].op = "goto"
                     /\ Padding(n, process)[1].data = process
         /\ \A k \in 2 .. n : Padding(n, process)[k].op = "zero"
<1> DEFINE G == Node("goto", 0, 0, "", process)
           Z == Node("zero", 0, 0, "", 0)
<1>1. G \in NodesOf(AllOps) /\ Z \in NodesOf(AllOps)
  <2>1. "goto" \in AllOps /\ "zero" \in AllOps /\ 0 \in 0 .. 2 /\ "" \in Names /\ 0 \in Ports \cup {0}
    BY DEF AllOps, Names
  <2>2. G \in Instruction(AllOps) /\ Z \in Instruction(AllOps)
    BY <2>1 DEF Node, Instruction
  <2> QED BY <2>2 DEF NodesOf
<1>2. G.op = "goto" /\ G.data = process /\ Z.op = "zero"
  BY DEF Node
<1>3. G # Sentinel /\ Z # Sentinel
  BY DEF Sentinel, Node
<1> HIDE DEF G, Z
<1>4. CASE n = 0
  <2>1. Padding(n, process) = <<>>
    BY <1>4 DEF Padding
  <2>2. <<>> \in Seq(NodesOf(AllOps)) /\ Len(<<>>) = 0
    OBVIOUS
  <2>3. 1 .. n = {} /\ 2 .. n = {} /\ ~(n > 0)
    BY <1>4
  <2> QED BY <1>4, <2>1, <2>2, <2>3, Zenon
<1>5. CASE n # 0
  <2> DEFINE g == <<G>>
             z == [k \in 1 .. n - 1 |-> Z]
  <2>1. Padding(n, process) = g \o z
    BY <1>5 DEF Padding, G, Z
  <2>2. g \in Seq(NodesOf(AllOps)) /\ Len(g) = 1 /\ g[1] = G
    BY <1>1
  <2>3. n - 1 \in Nat
    BY <1>5
  <2>4. z \in Seq(NodesOf(AllOps)) /\ Len(z) = n - 1 /\ \A k \in 1 .. n - 1 : z[k] = Z
    BY <1>1, <2>3
  <2> HIDE DEF g, z
  <2>5. /\ g \o z \in Seq(NodesOf(AllOps)) /\ Len(g \o z) = Len(g) + Len(z)
        /\ \A k \in 1 .. Len(g) : (g \o z)[k] = g[k]
        /\ \A k \in Len(g) + 1 .. Len(g) + Len(z) : (g \o z)[k] = z[k - Len(g)]
    BY <2>2, <2>4, Joined
  <2>6. Len(g) + Len(z) = n /\ 1 \in 1 .. Len(g)
    BY <2>2, <2>3, <2>4
  <2>7. (g \o z)[1] = G
    BY <2>2, <2>5, <2>6
  <2>8. ASSUME NEW k \in 2 .. n PROVE (g \o z)[k] = Z
    <3>1. k \in Len(g) + 1 .. Len(g) + Len(z) /\ k - Len(g) \in 1 .. n - 1
      BY <2>2, <2>4
    <3> QED BY <2>4, <2>5, <3>1
  <2>9. \A k \in 1 .. n : k = 1 \/ k \in 2 .. n
    OBVIOUS
  <2>10. Len(g \o z) = n
    BY <2>5, <2>6
  <2> HIDE DEF Padding
  <2> QED BY <1>2, <1>3, <2>1, <2>5, <2>7, <2>8, <2>9, <2>10
<1> QED BY <1>4, <1>5

\* What a number of instructions lacks to the end of a page.
LEMMA MissingFills ==
  ASSUME NEW n \in Nat
  PROVE  Missing(n) \in Nat /\ \E q \in Nat : n + Missing(n) = PageSize * q
<1>0. PageSize \in Nat \ {0}
  BY PortsAssumption
<1> DEFINE q == n \div PageSize
           r == n % PageSize
<1>1. q \in Nat /\ r \in 0 .. (PageSize - 1) /\ n = PageSize * q + r
  BY <1>0, SMT
<1>2. Missing(n) = IF r = 0 THEN 0 ELSE PageSize - r
  BY DEF Missing
<1> HIDE DEF q, r
<1>3. CASE r = 0
  <2>1. Missing(n) = 0 /\ n + Missing(n) = PageSize * q
    BY <1>0, <1>1, <1>2, <1>3
  <2> QED BY <1>1, <2>1
<1>4. CASE r # 0
  <2>1. Missing(n) = PageSize - r
    BY <1>2, <1>4
  <2>2. PageSize * (q + 1) = PageSize * q + PageSize
    BY <1>0, <1>1, SMT
  <2>3. Missing(n) \in Nat
    BY <1>0, <1>1, <2>1
  <2>4. n + Missing(n) = PageSize * (q + 1)
    BY <1>0, <1>1, <2>1, <2>2, SMT
  <2>5. q + 1 \in Nat
    BY <1>1
  <2> QED BY <2>3, <2>4, <2>5
<1> QED BY <1>3, <1>4

\* The page of an address is its quotient.
LEMMA SamePage ==
  ASSUME NEW q \in Nat, NEW x \in PageSize * q .. PageSize * q + (PageSize - 1)
  PROVE  x \div PageSize = q
<1>0. PageSize \in Nat \ {0}
  BY PortsAssumption
<1> DEFINE r == x - PageSize * q
<1>1. PageSize * q \in Nat
  BY <1>0, SMT
<1>2. r \in 0 .. (PageSize - 1) /\ x = PageSize * q + r
  BY <1>0, <1>1
<1> HIDE DEF r
<1>3. (PageSize * q + r) \div PageSize = q
  BY <1>0, <1>2, SMT
<1> QED BY <1>2, <1>3

-----------------------------------------------------------------------------
(* A step of alignProcessWithPages.                                        *)

\* One step of alignProcessWithPages: p words of padding are put in front of the
\* sentinel at the cursor, and the process behind it ends at the sentinel m.
Aligned(m, p) ==
  /\ m \in cursor + 2 .. Len(list) /\ p \in Nat
  /\ list[m] = Sentinel /\ \A k \in cursor + 1 .. m - 1 : list[k] # Sentinel
  /\ list' \in Seq(NodesOf(AllOps)) /\ Len(list') = Len(list) + p
  /\ \A k \in 1 .. cursor - 1 : list'[k] = list[k]
  /\ \A k \in cursor .. cursor + p - 1 : list'[k] # Sentinel
  /\ p > 0 => list'[cursor].op = "goto" /\ list'[cursor].data = Number(list, cursor)
  /\ \A k \in cursor + 1 .. cursor + p - 1 : list'[k].op = "zero"
  /\ \A k \in cursor .. Len(list) : list'[k + p] = list[k]
  /\ cursor' = m + p
  /\ \/ /\ p = 0 /\ curPage + (m - cursor - 1) <= PageSize
        /\ curPage' = curPage + (m - cursor - 1)
     \/ p = Missing(curPage) /\ curPage' = m - cursor - 1

\* The nodes a list is put together of when something is put in.
LEMMA PutIn ==
  ASSUME NEW S, NEW l \in Seq(S), NEW pad \in Seq(S), NEW c \in 1 .. Len(l)
  PROVE  LET new == SubSeq(l, 1, c - 1) \o pad \o SubSeq(l, c, Len(l)) IN
         /\ new \in Seq(S) /\ Len(new) = Len(l) + Len(pad)
         /\ \A k \in 1 .. c - 1 : new[k] = l[k]
         /\ \A k \in c .. c + Len(pad) - 1 : new[k] = pad[k - c + 1]
         /\ \A k \in c .. Len(l) : new[k + Len(pad)] = l[k]
<1> DEFINE new == SubSeq(l, 1, c - 1) \o pad \o SubSeq(l, c, Len(l))
           A == SubSeq(l, 1, c - 1)
           B == SubSeq(l, c, Len(l))
           AP == A \o pad
<1>1. Len(l) \in Nat /\ Len(pad) \in Nat
  OBVIOUS
<1>2. /\ A \in Seq(S) /\ Len(A) = (c - 1) - 1 + 1
      /\ \A k \in 1 .. (c - 1) - 1 + 1 : A[k] = l[1 + k - 1]
  <2>1. 1 \in 1 .. Len(l) + 1 /\ c - 1 \in 1 - 1 .. Len(l)
    BY <1>1
  <2> QED BY <2>1, Cut
<1>3. /\ B \in Seq(S) /\ Len(B) = Len(l) - c + 1
      /\ \A k \in 1 .. Len(l) - c + 1 : B[k] = l[c + k - 1]
  <2>1. c \in 1 .. Len(l) + 1 /\ Len(l) \in c - 1 .. Len(l)
    BY <1>1
  <2> QED BY <2>1, Cut
<1>4. (c - 1) - 1 + 1 = c - 1 /\ \A k \in 1 .. c - 1 : 1 + k - 1 = k
  BY <1>1
<1> HIDE DEF A, B
<1>5. /\ AP \in Seq(S) /\ Len(AP) = Len(A) + Len(pad)
      /\ \A k \in 1 .. Len(A) : AP[k] = A[k]
      /\ \A k \in Len(A) + 1 .. Len(A) + Len(pad) : AP[k] = pad[k - Len(A)]
  BY <1>2, Joined
<1>6. new = AP \o B
  BY DEF A, B
<1> HIDE DEF AP, new
<1>7. /\ new \in Seq(S) /\ Len(new) = Len(AP) + Len(B)
      /\ \A k \in 1 .. Len(AP) : new[k] = AP[k]
      /\ \A k \in Len(AP) + 1 .. Len(AP) + Len(B) : new[k] = B[k - Len(AP)]
  <2>1. /\ AP \o B \in Seq(S) /\ Len(AP \o B) = Len(AP) + Len(B)
        /\ \A k \in 1 .. Len(AP) : (AP \o B)[k] = AP[k]
        /\ \A k \in Len(AP) + 1 .. Len(AP) + Len(B) : (AP \o B)[k] = B[k - Len(AP)]
    <3>1. AP \in Seq(S) /\ B \in Seq(S)
      BY <1>3, <1>5
    <3> QED BY <3>1, Joined
  <2> QED BY <2>1, <1>6
<1>8. Len(A) = c - 1 /\ Len(AP) = c - 1 + Len(pad)
  BY <1>2, <1>4, <1>5
<1>9. Len(new) = Len(l) + Len(pad)
  <2>1. Len(new) = (c - 1 + Len(pad)) + (Len(l) - c + 1)
    BY <1>3, <1>7, <1>8, Zenon
  <2>2. c \in Nat
    BY <1>1
  <2> QED BY <1>1, <2>1, <2>2
<1>10. ASSUME NEW k \in 1 .. c - 1 PROVE new[k] = l[k]
  <2>1. k \in 1 .. Len(A) /\ k \in 1 .. Len(AP) /\ k \in 1 .. (c - 1) - 1 + 1
    BY <1>1, <1>8
  <2> QED BY <1>2, <1>4, <1>5, <1>7, <2>1
<1>11. ASSUME NEW k \in c .. c + Len(pad) - 1 PROVE new[k] = pad[k - c + 1]
  <2>1. /\ k \in Len(A) + 1 .. Len(A) + Len(pad) /\ k \in 1 .. Len(AP)
        /\ k - Len(A) = k - c + 1
    BY <1>1, <1>8
  <2> QED BY <1>5, <1>7, <2>1
<1>12. ASSUME NEW k \in c .. Len(l) PROVE new[k + Len(pad)] = l[k]
  <2>1. /\ k + Len(pad) \in Len(AP) + 1 .. Len(AP) + Len(B)
        /\ (k + Len(pad)) - Len(AP) = k - c + 1
        /\ k - c + 1 \in 1 .. Len(l) - c + 1 /\ c + (k - c + 1) - 1 = k
    BY <1>1, <1>3, <1>8
  <2> QED BY <1>3, <1>7, <2>1
<1> QED BY <1>7, <1>9, <1>10, <1>11, <1>12 DEF new

\* Align is such a step.
LEMMA AlignShape ==
  ASSUME Framed, Bounds, Align
  PROVE  \E m \in cursor + 2 .. Len(list), p \in Nat : Aligned(m, p)
<1> DEFINE m == NextSentinel(cursor)
           next == CountNextProcess(cursor)
           process == Number(list, cursor)
           padding == IF curPage + next > PageSize THEN Padding(Missing(curPage), process)
                      ELSE <<>>
           p == Len(padding)
<1>1. /\ list \in Seq(NodesOf(AllOps)) /\ Len(list) \in Nat /\ list[Len(list)] = Sentinel
      /\ cursor \in 2 .. Len(list) /\ cursor # Len(list) /\ list[cursor] = Sentinel
      /\ Spaced(list) /\ curPage \in Nat
  BY DEF Framed, Bounds, Align
<1>2. /\ m \in cursor + 1 .. Len(list) /\ list[m] = Sentinel
      /\ \A k \in cursor + 1 .. m - 1 : list[k] # Sentinel
  <2>1. cursor \in Nat /\ cursor < Len(list)
    BY <1>1
  <2>2. m = Following(list, cursor)
    BY DEF NextSentinel, Following
  <2> HIDE DEF m
  <2> QED BY <1>1, <2>1, <2>2, FollowingThere
<1>3. next = m - cursor - 1
  BY <1>1 DEF CountNextProcess
<1> HIDE DEF m, next
<1>4. m \in cursor + 2 .. Len(list)
  <2>1. cursor \in 1 .. Len(list) - 1
    BY <1>1
  <2>2. list[cursor + 1] # Sentinel
    BY <1>1, <2>1 DEF Spaced
  <2> QED BY <1>1, <1>2, <2>2
<1>5. process \in Nat
  BY <1>1, CountsAreNumbers
<1>6. /\ list' = SubSeq(list, 1, cursor - 1) \o padding \o SubSeq(list, cursor, Len(list))
      /\ curPage' = IF curPage + next > PageSize THEN next ELSE curPage + next
      /\ cursor' = m + p
  BY DEF Align, Number, m, next
<1> HIDE DEF process
<1>7. Missing(curPage) \in Nat
  BY <1>1, MissingFills
<1>8. /\ padding \in Seq(NodesOf(AllOps)) /\ p \in Nat
      /\ \A k \in 1 .. p : padding[k] # Sentinel
      /\ p > 0 => padding[1].op = "goto" /\ padding[1].data = process
      /\ \A k \in 2 .. p : padding[k].op = "zero"
      /\ \/ p = 0 /\ ~(curPage + next > PageSize)
         \/ p = Missing(curPage) /\ curPage + next > PageSize
  <2>1. CASE curPage + next > PageSize
    <3>1. padding = Padding(Missing(curPage), process)
      BY <2>1
    <3> DEFINE n == Missing(curPage)
               pad == Padding(n, process)
    <3>2. n \in Nat /\ padding = pad
      BY <1>7, <3>1
    <3> HIDE DEF padding, n
    <3>3. /\ pad \in Seq(NodesOf(AllOps)) /\ Len(pad) = n
          /\ \A k \in 1 .. n : pad[k] # Sentinel
          /\ n > 0 => pad[1].op = "goto" /\ pad[1].data = process
          /\ \A k \in 2 .. n : pad[k].op = "zero"
      BY <1>5, <3>2, PaddingShape, SMTT(30)
    <3> HIDE DEF pad
    <3>4. p = n /\ p = Missing(curPage)
      BY <3>2, <3>3 DEF n
    <3> QED BY <2>1, <3>2, <3>3, <3>4
  <2>2. CASE ~(curPage + next > PageSize)
    <3>1. padding = <<>>
      BY <2>2
    <3>2. <<>> \in Seq(NodesOf(AllOps)) /\ Len(<<>>) = 0
      OBVIOUS
    <3>3. p = 0
      BY <3>1, <3>2
    <3>4. 1 .. p = {} /\ 2 .. p = {} /\ ~(p > 0) /\ p \in Nat
      BY <3>3
    <3> HIDE DEF padding
    <3>5. padding \in Seq(NodesOf(AllOps))
      BY <3>1, <3>2
    <3> QED BY <2>2, <3>3, <3>4, <3>5
  <2> QED BY <2>1, <2>2
<1> HIDE DEF padding
<1>9. /\ list' \in Seq(NodesOf(AllOps)) /\ Len(list') = Len(list) + Len(padding)
      /\ \A k \in 1 .. cursor - 1 : list'[k] = list[k]
      /\ \A k \in cursor .. cursor + Len(padding) - 1 : list'[k] = padding[k - cursor + 1]
      /\ \A k \in cursor .. Len(list) : list'[k + Len(padding)] = list[k]
  <2>1. cursor \in 1 .. Len(list)
    BY <1>1
  <2> DEFINE new == SubSeq(list, 1, cursor - 1) \o padding \o SubSeq(list, cursor, Len(list))
  <2>2. /\ new \in Seq(NodesOf(AllOps)) /\ Len(new) = Len(list) + Len(padding)
        /\ \A k \in 1 .. cursor - 1 : new[k] = list[k]
        /\ \A k \in cursor .. cursor + Len(padding) - 1 : new[k] = padding[k - cursor + 1]
        /\ \A k \in cursor .. Len(list) : new[k + Len(padding)] = list[k]
    BY <1>1, <1>8, <2>1, PutIn
  <2>3. list' = new
    BY <1>6
  <2> HIDE DEF new
  <2> QED BY <2>2, <2>3, Zenon
<1>10. Len(padding) = p
  OBVIOUS
<1> HIDE DEF p
<1>11. ASSUME NEW k \in cursor .. cursor + p - 1 PROVE list'[k] # Sentinel
  <2>1. k - cursor + 1 \in 1 .. p
    BY <1>1, <1>8, SMTT(30)
  <2> QED BY <1>8, <1>9, <1>10, <2>1
<1>12. p > 0 => list'[cursor].op = "goto" /\ list'[cursor].data = process
  <2>1. p > 0 => cursor \in cursor .. cursor + p - 1 /\ cursor - cursor + 1 = 1
    BY <1>1, <1>8
  <2> QED BY <1>8, <1>9, <1>10, <2>1
<1>13. ASSUME NEW k \in cursor + 1 .. cursor + p - 1 PROVE list'[k].op = "zero"
  <2>1. k - cursor + 1 \in 2 .. p /\ k \in cursor .. cursor + p - 1
    BY <1>1, <1>8
  <2> QED BY <1>8, <1>9, <1>10, <2>1
<1>14. \/ /\ p = 0 /\ curPage + (m - cursor - 1) <= PageSize
          /\ curPage' = curPage + (m - cursor - 1)
       \/ p = Missing(curPage) /\ curPage' = m - cursor - 1
  <2>1. next \in Nat /\ PageSize \in Nat
    BY <1>1, <1>3, <1>4, PortsAssumption
  <2> QED BY <1>1, <1>3, <1>6, <1>8, <2>1
<1>15. Aligned(m, p)
  BY <1>2, <1>4, <1>6, <1>8, <1>9, <1>10, <1>11, <1>12, <1>13, <1>14 DEF Aligned, process
<1> QED BY <1>4, <1>8, <1>15

\* The invariant's part that is about the list and the pass, not about addresses.
ListInv == Framed /\ Bounds /\ Unpadded

\* What Aligned and the invariant tell of the nodes, new ones and old ones.
LEMMA AlignedNodes ==
  ASSUME ListInv, phase = "align", NEW m \in cursor + 2 .. Len(list), NEW p \in Nat, Aligned(m, p)
  PROVE  /\ cursor \in 2 .. Len(list) /\ cursor \in Nat /\ Len(list) \in Nat /\ m \in Nat
         /\ Len(list') = Len(list) + p
         /\ \A k \in 1 .. Len(list') :
              \/ k \in 1 .. cursor - 1 /\ list'[k] = list[k]
              \/ k \in cursor .. cursor + p - 1 /\ list'[k] # Sentinel
              \/ k \in cursor + p .. Len(list) + p /\ k - p \in cursor .. Len(list)
                 /\ list'[k] = list[k - p] /\ list'[k].op \notin {"goto", "zero"}
         /\ list'[cursor + p] = Sentinel /\ list'[m + p] = Sentinel
         /\ \A k \in cursor + p + 1 .. m + p - 1 :
              list'[k] # Sentinel /\ list'[k].op \notin {"goto", "zero"}
<1>1. /\ cursor \in 2 .. Len(list) /\ Len(list) \in Nat /\ list[cursor] = Sentinel
      /\ \A k \in cursor .. Len(list) : list[k].op \notin {"goto", "zero"}
  BY DEF ListInv, Framed, Bounds, Unpadded, NoPadding
<1>2. /\ list[m] = Sentinel /\ \A k \in cursor + 1 .. m - 1 : list[k] # Sentinel
      /\ Len(list') = Len(list) + p
      /\ \A k \in 1 .. cursor - 1 : list'[k] = list[k]
      /\ \A k \in cursor .. cursor + p - 1 : list'[k] # Sentinel
      /\ \A k \in cursor .. Len(list) : list'[k + p] = list[k]
  BY DEF Aligned
<1>3. cursor \in Nat /\ m \in Nat
  BY <1>1
<1>4. ASSUME NEW k \in cursor + p .. Len(list) + p
      PROVE  /\ k - p \in cursor .. Len(list) /\ list'[k] = list[k - p]
             /\ list'[k].op \notin {"goto", "zero"}
  <2>1. k - p \in cursor .. Len(list) /\ (k - p) + p = k
    BY <1>1, <1>3
  <2>2. list'[(k - p) + p] = list[k - p]
    BY <1>2, <2>1
  <2> QED BY <1>1, <2>1, <2>2
<1>5. ASSUME NEW k \in 1 .. Len(list')
      PROVE  \/ k \in 1 .. cursor - 1 /\ list'[k] = list[k]
             \/ k \in cursor .. cursor + p - 1 /\ list'[k] # Sentinel
             \/ k \in cursor + p .. Len(list) + p /\ k - p \in cursor .. Len(list)
                /\ list'[k] = list[k - p] /\ list'[k].op \notin {"goto", "zero"}
  <2>1. \/ k \in 1 .. cursor - 1 \/ k \in cursor .. cursor + p - 1
        \/ k \in cursor + p .. Len(list) + p
    BY <1>1, <1>2, <1>3
  <2> QED BY <1>2, <1>4, <2>1
<1>6. list'[cursor + p] = Sentinel /\ list'[m + p] = Sentinel
  <2>1. cursor \in cursor .. Len(list) /\ m \in cursor .. Len(list)
    BY <1>1, <1>3
  <2> QED BY <1>1, <1>2, <2>1
<1>7. ASSUME NEW k \in cursor + p + 1 .. m + p - 1
      PROVE  list'[k] # Sentinel /\ list'[k].op \notin {"goto", "zero"}
  <2>1. k \in cursor + p .. Len(list) + p /\ k - p \in cursor + 1 .. m - 1
    BY <1>1, <1>3
  <2> QED BY <1>2, <1>4, <2>1
<1> QED BY <1>1, <1>2, <1>3, <1>5, <1>6, <1>7

\* The list keeps its shape.
LEMMA AlignKeepsList ==
  ASSUME ListInv, phase = "align", phase' = "align", actions' = actions,
         NEW m \in cursor + 2 .. Len(list), NEW p \in Nat, Aligned(m, p)
  PROVE  ListInv'
<1>0. Missing(curPage) \in Nat /\ curPage \in Nat
  BY MissingFills DEF ListInv, Bounds
<1>1. /\ cursor \in 2 .. Len(list) /\ cursor \in Nat /\ Len(list) \in Nat /\ m \in Nat
      /\ Len(list') = Len(list) + p
      /\ \A k \in 1 .. Len(list') :
           \/ k \in 1 .. cursor - 1 /\ list'[k] = list[k]
           \/ k \in cursor .. cursor + p - 1 /\ list'[k] # Sentinel
           \/ k \in cursor + p .. Len(list) + p /\ k - p \in cursor .. Len(list)
              /\ list'[k] = list[k - p] /\ list'[k].op \notin {"goto", "zero"}
      /\ list'[m + p] = Sentinel
  BY AlignedNodes
<1>2. /\ Len(list) > 1 /\ list[1] = Sentinel /\ list[Len(list)] = Sentinel /\ Spaced(list)
  BY DEF ListInv, Framed
<1>3. list' \in Seq(NodesOf(AllOps)) /\ cursor' = m + p
  BY DEF Aligned
<1>4. list'[1] = Sentinel
  <2>1. 1 \in 1 .. cursor - 1 /\ 1 \in 1 .. Len(list')
    BY <1>1
  <2>2. 1 \notin cursor .. cursor + p - 1 /\ 1 \notin cursor + p .. Len(list) + p
    BY <1>1
  <2> QED BY <1>1, <1>2, <2>1, <2>2
<1>5. list'[Len(list')] = Sentinel
  <2>1. Len(list) \in cursor .. Len(list) /\ \A k \in cursor .. Len(list) : list'[k + p] = list[k]
    BY <1>1 DEF Aligned
  <2> QED BY <1>1, <1>2, <2>1
<1>6. ASSUME NEW k \in 1 .. Len(list') - 1
      PROVE  list'[k] # Sentinel \/ list'[k + 1] # Sentinel
  <2>1. k \in 1 .. Len(list') /\ k + 1 \in 1 .. Len(list') /\ k \in Nat
    BY <1>1
  <2>2. CASE k \in 1 .. cursor - 1 /\ list'[k] = list[k]
    <3>1. CASE k + 1 \in 1 .. cursor - 1 /\ list'[k + 1] = list[k + 1]
      <4>1. k \in 1 .. Len(list) - 1
        BY <1>1, <2>2
      <4> QED BY <1>2, <2>2, <3>1, <4>1 DEF Spaced
    <3>2. CASE k + 1 \in cursor + p .. Len(list) + p /\ list'[k + 1] = list[(k + 1) - p]
      <4>1. p = 0 /\ k \in 1 .. Len(list) - 1 /\ (k + 1) - p = k + 1
        BY <1>1, <2>2, <3>2
      <4> QED BY <1>2, <2>2, <3>2, <4>1 DEF Spaced
    <3> QED BY <1>1, <2>1, <3>1, <3>2
  <2>3. CASE k \in cursor + p .. Len(list) + p /\ list'[k] = list[k - p]
    <3>1. k - p \in 1 .. Len(list) - 1 /\ (k + 1) - p = (k - p) + 1
          /\ k + 1 \notin 1 .. cursor - 1 /\ k + 1 \notin cursor .. cursor + p - 1
      BY <1>1, <2>1, <2>3
    <3>2. list'[k + 1] = list[(k - p) + 1]
      BY <1>1, <2>1, <3>1
    <3> QED BY <1>2, <2>3, <3>1, <3>2 DEF Spaced
  <2> QED BY <1>1, <2>1, <2>2, <2>3
<1>7. Framed'
  <2>1. Len(list') > 1
    BY <1>1, <1>2
  <2>2. Spaced(list)'
    BY <1>6 DEF Spaced
  <2> QED BY <1>3, <1>4, <1>5, <2>1, <2>2 DEF Framed
<1>8. Bounds'
  <2>1. curPage' \in Nat
    <3>1. curPage' \in {curPage + (m - cursor - 1), m - cursor - 1}
      BY DEF Aligned
    <3>2. m - cursor - 1 \in Nat
      BY <1>1
    <3> QED BY <1>0, <3>1, <3>2
  <2>2. cursor' \in 2 .. Len(list') /\ cursor' \in 1 .. Len(list') + 1 /\ list'[cursor'] = Sentinel
    BY <1>1, <1>3
  <2>3. actions' \in 0 .. MaxActions
    BY DEF ListInv, Bounds
  <2> QED BY <2>1, <2>2, <2>3 DEF Bounds
<1>9. Unpadded'
  <2>1. ASSUME NEW k \in cursor' .. Len(list') PROVE list'[k].op \notin {"goto", "zero"}
    <3>1. k \in 1 .. Len(list') /\ k \notin 1 .. cursor - 1 /\ k \notin cursor .. cursor + p - 1
      BY <1>1, <1>3
    <3> QED BY <1>1, <3>1
  <2> QED BY <2>1 DEF Unpadded, NoPadding
<1> QED BY <1>7, <1>8, <1>9 DEF ListInv

\* The gotos know the processes they lead to.
LEMMA AlignKeepsJumps ==
  ASSUME ListInv, Jumps, ZerosBehind, phase = "align",
         NEW m \in cursor + 2 .. Len(list), NEW p \in Nat, Aligned(m, p)
  PROVE  Jumps' /\ ZerosBehind'
<1>1. /\ cursor \in 2 .. Len(list) /\ cursor \in Nat /\ Len(list) \in Nat /\ m \in Nat
      /\ Len(list') = Len(list) + p
      /\ \A k \in 1 .. Len(list') :
           \/ k \in 1 .. cursor - 1 /\ list'[k] = list[k]
           \/ k \in cursor .. cursor + p - 1 /\ list'[k] # Sentinel
           \/ k \in cursor + p .. Len(list) + p /\ k - p \in cursor .. Len(list)
              /\ list'[k] = list[k - p] /\ list'[k].op \notin {"goto", "zero"}
      /\ list'[cursor + p] = Sentinel
  BY AlignedNodes
<1>2. /\ \A k \in 1 .. cursor - 1 : list'[k] = list[k]
      /\ \A k \in cursor .. cursor + p - 1 : list'[k] # Sentinel
      /\ p > 0 => list'[cursor].op = "goto" /\ list'[cursor].data = Number(list, cursor)
      /\ \A k \in cursor + 1 .. cursor + p - 1 : list'[k].op = "zero"
      /\ cursor' = m + p
  BY DEF Aligned
<1>3. list[cursor] = Sentinel
  BY DEF ListInv, Bounds
<1>4. Jumps'
  <2> SUFFICES ASSUME NEW n \in 1 .. cursor', list'[n].op = "goto"
               PROVE  \E s \in n + 1 .. cursor' - 1 :
                        /\ list'[s] = Sentinel /\ list'[n].data = Number(list', s)
                        /\ \A k \in n + 1 .. s - 1 : list'[k].op = "zero"
    BY DEF Jumps, Ordinal, Number
  <2>0. n \in 1 .. Len(list') /\ n \in Nat
    BY <1>1, <1>2
  <2>1. CASE n \in 1 .. cursor - 1
    <3>1. n \in 1 .. cursor /\ list[n].op = "goto" /\ list'[n] = list[n]
      BY <1>1, <1>2, <2>1
    <3>2. PICK s \in n + 1 .. cursor - 1 :
            /\ list[s] = Sentinel /\ list[n].data = Number(list, s)
            /\ \A k \in n + 1 .. s - 1 : list[k].op = "zero"
      BY <3>1 DEF Jumps, Ordinal, Number
    <3>3. s \in n + 1 .. cursor' - 1 /\ s \in 1 .. cursor - 1 /\ s \in Nat
      BY <1>1, <1>2, <2>1, SMTT(30)
    <3>4. \A k \in 1 .. s : list[k] = Sentinel <=> list'[k] = Sentinel
      BY <1>1, <1>2, <3>3
    <3>5. Number(list, s) = Number(list', s)
      BY <3>3, <3>4, CountsSame
    <3>6. \A k \in n + 1 .. s - 1 : list'[k].op = "zero"
      <4> SUFFICES ASSUME NEW k \in n + 1 .. s - 1 PROVE list'[k].op = "zero"
        OBVIOUS
      <4>1. k \in 1 .. cursor - 1
        BY <1>1, <2>1, <3>3
      <4> QED BY <1>2, <3>2, <4>1
    <3> QED BY <1>2, <3>1, <3>2, <3>3, <3>5, <3>6
  <2>2. CASE n \in cursor .. cursor + p - 1
    <3>1. p > 0 /\ cursor + p \in Nat
      BY <1>1, <2>2
    <3>2. n = cursor
      <4> SUFFICES ASSUME n \in cursor + 1 .. cursor + p - 1 PROVE FALSE
        BY <1>1, <2>2
      <4> QED BY <1>2
    <3>3. Number(list, cursor) = Number(list', cursor + p)
      <4>1. cursor \in Nat \ {0}
        BY <1>1
      <4>2. \A k \in 1 .. cursor - 1 : list[k] = list'[k]
        BY <1>2
      <4>3. list[cursor] = Sentinel /\ list'[cursor + p] = Sentinel
        BY <1>1, <1>3
      <4>4. \A k \in cursor .. cursor + p - 1 : list'[k] # Sentinel
        BY <1>2
      <4> QED BY <4>1, <4>2, <4>3, <4>4, NumberMoved
    <3>4. cursor + p \in n + 1 .. cursor' - 1
      BY <1>1, <1>2, <3>1, <3>2
    <3>5. \A k \in n + 1 .. (cursor + p) - 1 : list'[k].op = "zero"
      BY <1>2, <3>2, SMTT(30)
    <3> QED BY <1>1, <1>2, <3>1, <3>2, <3>3, <3>4, <3>5
  <2> QED BY <1>1, <2>0, <2>1, <2>2
<1>5. ZerosBehind'
  <2> SUFFICES ASSUME NEW n \in DOMAIN list', list'[n].op = "zero"
               PROVE  n > 1 /\ list'[n - 1].op \in {"goto", "zero"}
    BY DEF ZerosBehind
  <2>0. n \in 1 .. Len(list') /\ n \in Nat
    <3>1. list' \in Seq(NodesOf(AllOps))
      BY DEF Aligned
    <3> QED BY <3>1
  <2>1. CASE n \in 1 .. cursor - 1
    <3>1. n \in DOMAIN list
      <4>1. DOMAIN list = 1 .. Len(list)
        BY DEF ListInv, Framed
      <4> QED BY <1>1, <2>1, <4>1
    <3>2. list[n].op = "zero"
      BY <1>2, <2>1
    <3>3. n > 1 /\ list[n - 1].op \in {"goto", "zero"}
      BY <3>1, <3>2 DEF ZerosBehind
    <3>4. n - 1 \in 1 .. cursor - 1
      BY <1>1, <2>1, <3>3
    <3> QED BY <1>2, <3>3, <3>4
  <2>2. CASE n \in cursor .. cursor + p - 1
    <3>1. n # cursor
      <4>1. p > 0
        BY <1>1, <2>2
      <4> QED BY <1>2, <4>1
    <3>2. n - 1 = cursor \/ n - 1 \in cursor + 1 .. cursor + p - 1
      BY <1>1, <2>2, <3>1
    <3>3. p > 0 /\ n > 1
      BY <1>1, <2>2
    <3> QED BY <1>2, <3>2, <3>3
  <2> QED BY <1>1, <2>0, <2>1, <2>2
<1> QED BY <1>4, <1>5

\* Body of any list.
BodyOf(l, n) == {k \in n + 1 .. Following(l, n) : l[k].op \notin {"sentinel", "goto", "zero"}}

\* An address depends on what is in front of it.
LEMMA BusySame ==
  ASSUME NEW l, NEW m, NEW n \in Nat,
         \A k \in 1 .. n - 1 : l[k] = Sentinel <=> m[k] = Sentinel
  PROVE  Busy(l, n) = Busy(m, n)
<1>1. {k \in 1 .. n - 1 : l[k] # Sentinel} = {k \in 1 .. n - 1 : m[k] # Sentinel}
  OBVIOUS
<1> QED BY <1>1 DEF Busy

\* Where the next process starts: inside a page that it fits into, or at the
\* start of one.
LEMMA NextProcessPage ==
  ASSUME ListInv, PageCounted, phase = "align",
         NEW m \in cursor + 2 .. Len(list), NEW p \in Nat, Aligned(m, p)
  PROVE  \E q \in Nat, base \in Nat :
           /\ Busy(list, cursor) + p = PageSize * q + base
           /\ base = 0 \/ base + (m - cursor - 1) <= PageSize
           /\ curPage' = base + (m - cursor - 1)
<1>0. PageSize \in Nat \ {0}
  BY PortsAssumption
<1>1. curPage \in Nat /\ cursor \in Nat /\ m - cursor - 1 \in Nat
  BY DEF ListInv, Framed, Bounds
<1>2. Busy(list, cursor) \in Nat
  BY <1>1, CountsAreNumbers
<1>3. PICK q \in Nat : Busy(list, cursor) = PageSize * q + curPage
  <2>1. PICK q \in 0 .. Busy(list, cursor) : Busy(list, cursor) = PageSize * q + curPage
    BY DEF PageCounted, Address, Busy
  <2>2. q \in Nat
    BY <1>2
  <2> QED BY <2>1, <2>2
<1>4. \/ /\ p = 0 /\ curPage + (m - cursor - 1) <= PageSize
         /\ curPage' = curPage + (m - cursor - 1)
      \/ p = Missing(curPage) /\ curPage' = m - cursor - 1
  BY DEF Aligned
<1>5. CASE /\ p = 0 /\ curPage + (m - cursor - 1) <= PageSize
           /\ curPage' = curPage + (m - cursor - 1)
  <2>1. Busy(list, cursor) + p = PageSize * q + curPage
    BY <1>2, <1>3, <1>5
  <2> QED BY <1>1, <1>5, <2>1
<1>6. CASE p = Missing(curPage) /\ curPage' = m - cursor - 1
  <2>1. PICK r \in Nat : curPage + p = PageSize * r
    BY <1>1, <1>6, MissingFills
  <2>2. PageSize * (q + r) = PageSize * q + PageSize * r
    BY <1>0, SMT
  <2>3. PageSize * q \in Nat /\ PageSize * r \in Nat /\ q + r \in Nat
    BY <1>0, SMT
  <2>4. Busy(list, cursor) + p = PageSize * q + (curPage + p)
    BY <1>1, <1>3, <2>3
  <2>5. Busy(list, cursor) + p = PageSize * (q + r) + 0
    BY <2>1, <2>2, <2>3, <2>4
  <2>6. curPage' = 0 + (m - cursor - 1)
    BY <1>1, <1>6
  <2> QED BY <2>3, <2>5, <2>6
<1> QED BY <1>4, <1>5, <1>6

\* The addresses behind the padding.
LEMMA AlignedAddresses ==
  ASSUME ListInv, phase = "align",
         NEW m \in cursor + 2 .. Len(list), NEW p \in Nat, Aligned(m, p)
  PROVE  /\ \A k \in 1 .. cursor : Busy(list', k) = Busy(list, k)
         /\ \A j \in cursor + p + 1 .. m + p :
              Busy(list', j) = Busy(list, cursor) + p + (j - (cursor + p + 1))
<1>1. /\ cursor \in Nat \ {0} /\ m \in Nat
      /\ list'[cursor + p] = Sentinel
      /\ \A k \in cursor + p + 1 .. m + p - 1 : list'[k] # Sentinel
  BY AlignedNodes
<1>2. /\ \A k \in 1 .. cursor - 1 : list'[k] = list[k]
      /\ \A k \in cursor .. cursor + p - 1 : list'[k] # Sentinel
  BY DEF Aligned
<1>3. ASSUME NEW k \in 1 .. cursor PROVE Busy(list', k) = Busy(list, k)
  <2>1. k \in Nat /\ \A i \in 1 .. k - 1 : list'[i] = Sentinel <=> list[i] = Sentinel
    BY <1>1, <1>2
  <2> QED BY <2>1, BusySame
<1>4. Busy(list', cursor + p) = Busy(list', cursor) + ((cursor + p) - cursor)
  <2>1. cursor \in Nat \ {0} /\ cursor + p \in Nat /\ cursor <= cursor + p
    BY <1>1
  <2>2. \A k \in cursor .. cursor + p - 1 : list'[k] # Sentinel
    BY <1>2
  <2> QED BY <2>1, <2>2, BusyRun
<1>5. Busy(list', (cursor + p) + 1) = Busy(list', cursor + p)
  <2>1. cursor + p \in Nat \ {0}
    BY <1>1
  <2> QED BY <1>1, <2>1, BusySentinel
<1>6. ASSUME NEW j \in cursor + p + 1 .. m + p
      PROVE  Busy(list', j) = Busy(list', cursor + p + 1) + (j - (cursor + p + 1))
  <2>1. cursor + p + 1 \in Nat \ {0} /\ j \in Nat /\ cursor + p + 1 <= j
    BY <1>1
  <2>2. \A k \in cursor + p + 1 .. j - 1 : list'[k] # Sentinel
    BY <1>1
  <2> QED BY <2>1, <2>2, BusyRun
<1>7. cursor \in 1 .. cursor /\ (cursor + p) - cursor = p /\ Busy(list, cursor) \in Nat
  BY <1>1, CountsAreNumbers
<1>8. Busy(list', cursor + p + 1) = Busy(list, cursor) + p
  BY <1>3, <1>4, <1>5, <1>7
<1>9. ASSUME NEW j \in cursor + p + 1 .. m + p
      PROVE  Busy(list', j) = Busy(list, cursor) + p + (j - (cursor + p + 1))
  BY <1>6, <1>8
<1> QED BY <1>3, <1>9

\* The bodies of the processes in front of the cursor.
LEMMA OldBodies ==
  ASSUME ListInv, phase = "align",
         NEW m \in cursor + 2 .. Len(list), NEW p \in Nat, Aligned(m, p),
         NEW n \in 1 .. cursor - 1
  PROVE  BodyOf(list', n) = BodyOf(list, n) /\ BodyOf(list, n) \subseteq 1 .. cursor - 1
<1>1. /\ cursor \in 2 .. Len(list) /\ cursor \in Nat /\ Len(list) \in Nat /\ m \in Nat
      /\ Len(list') = Len(list) + p
      /\ list'[cursor + p] = Sentinel
  BY AlignedNodes
<1>2. /\ \A k \in 1 .. cursor - 1 : list'[k] = list[k]
      /\ \A k \in cursor .. cursor + p - 1 : list'[k] # Sentinel
      /\ p > 0 => list'[cursor].op = "goto"
      /\ \A k \in cursor + 1 .. cursor + p - 1 : list'[k].op = "zero"
  BY DEF Aligned
<1>3. list[cursor] = Sentinel /\ list[Len(list)] = Sentinel /\ Sentinel.op = "sentinel"
  BY DEF ListInv, Framed, Bounds, Sentinel, Node
<1> DEFINE f == Following(list, n)
<1>4. /\ f \in n + 1 .. Len(list) /\ list[f] = Sentinel
      /\ \A k \in n + 1 .. f - 1 : list[k] # Sentinel
  <2>1. n \in Nat /\ n < Len(list)
    BY <1>1
  <2> QED BY <1>1, <1>3, <2>1, FollowingThere
<1> HIDE DEF f
<1>5. f <= cursor
  <2> SUFFICES ASSUME f > cursor PROVE FALSE
    BY <1>1, <1>4
  <2>1. cursor \in n + 1 .. f - 1
    BY <1>1, <1>4
  <2> QED BY <1>3, <1>4, <2>1
<1>6. f \in Nat /\ n \in Nat /\ Len(list') \in Nat
  BY <1>1, <1>4
<1>7. CASE f < cursor
  <2>1. Following(list', n) = f
    <3>1. f \in n + 1 .. Len(list')
      BY <1>1, <1>4
    <3>2. list'[f] = Sentinel
      BY <1>1, <1>2, <1>4, <1>6, <1>7
    <3>3. \A k \in n + 1 .. f - 1 : list'[k] # Sentinel
      BY <1>1, <1>2, <1>4, <1>6, <1>7
    <3> QED BY <1>6, <3>1, <3>2, <3>3, FollowingIs
  <2>2. \A k \in n + 1 .. f : list'[k] = list[k] /\ k \in 1 .. cursor - 1
    BY <1>1, <1>2, <1>6, <1>7
  <2> QED BY <2>1, <2>2 DEF BodyOf, f
<1>8. CASE f = cursor
  <2>1. Following(list', n) = cursor + p
    <3>1. cursor + p \in n + 1 .. Len(list')
      BY <1>1
    <3>2. \A k \in n + 1 .. (cursor + p) - 1 : list'[k] # Sentinel
      <4> SUFFICES ASSUME NEW k \in n + 1 .. (cursor + p) - 1 PROVE list'[k] # Sentinel
        OBVIOUS
      <4>1. \/ k \in n + 1 .. f - 1 /\ k \in 1 .. cursor - 1
            \/ k \in cursor .. cursor + p - 1
        BY <1>1, <1>8
      <4> QED BY <1>2, <1>4, <4>1
    <3> QED BY <1>1, <1>6, <3>1, <3>2, FollowingIs
  <2>2. ASSUME NEW k \in n + 1 .. cursor + p
        PROVE  \/ k \in n + 1 .. cursor - 1 /\ list'[k] = list[k]
               \/ k \in cursor .. cursor + p /\ list'[k].op \in {"sentinel", "goto", "zero"}
    <3>1. \/ k \in n + 1 .. cursor - 1 /\ k \in 1 .. cursor - 1
          \/ k = cursor /\ p > 0
          \/ k \in cursor + 1 .. cursor + p - 1
          \/ k = cursor + p
      BY <1>1
    <3>2. k \in n + 1 .. cursor - 1 \/ k \in cursor .. cursor + p
      BY <1>1
    <3> QED BY <1>1, <1>2, <1>3, <3>1, <3>2
  <2>3. BodyOf(list', n) =
          {k \in n + 1 .. cursor - 1 : list[k].op \notin {"sentinel", "goto", "zero"}}
    <3>1. \A k \in n + 1 .. cursor - 1 :
            k \in n + 1 .. cursor + p /\ k \notin cursor .. cursor + p /\ k \in 1 .. cursor - 1
      BY <1>1
    <3>2. BodyOf(list', n) =
            {k \in n + 1 .. cursor + p : list'[k].op \notin {"sentinel", "goto", "zero"}}
      BY <2>1 DEF BodyOf
    <3> QED BY <1>2, <2>2, <3>1, <3>2
  <2>4. BodyOf(list, n) =
          {k \in n + 1 .. cursor - 1 : list[k].op \notin {"sentinel", "goto", "zero"}}
    <3>1. \A k \in n + 1 .. cursor : k \in n + 1 .. cursor - 1 \/ k = cursor
      BY <1>1
    <3>2. \A k \in n + 1 .. cursor - 1 : k \in n + 1 .. cursor
      BY <1>1
    <3>3. BodyOf(list, n) = {k \in n + 1 .. cursor : list[k].op \notin {"sentinel", "goto", "zero"}}
      BY <1>8 DEF BodyOf, f
    <3> QED BY <1>3, <3>1, <3>2, <3>3
  <2>5. \A k \in n + 1 .. cursor - 1 : k \in 1 .. cursor - 1
    BY <1>1
  <2> QED BY <2>3, <2>4, <2>5
<1> QED BY <1>1, <1>5, <1>6, <1>7, <1>8

\* curPage goes on counting from the start of a page.
LEMMA AlignKeepsCount ==
  ASSUME ListInv, PageCounted, phase = "align",
         NEW m \in cursor + 2 .. Len(list), NEW p \in Nat, Aligned(m, p)
  PROVE  PageCounted'
<1>0. PageSize \in Nat \ {0}
  BY PortsAssumption
<1>1. /\ cursor \in Nat \ {0} /\ m \in Nat /\ m - cursor - 1 \in Nat
      /\ Busy(list, cursor) \in Nat
  <2>1. cursor \in Nat \ {0} /\ m \in Nat /\ m - cursor - 1 \in Nat
    BY AlignedNodes
  <2> QED BY <2>1, CountsAreNumbers
<1>2. PICK q \in Nat, base \in Nat :
        /\ Busy(list, cursor) + p = PageSize * q + base
        /\ curPage' = base + (m - cursor - 1)
  BY NextProcessPage
<1>3. Busy(list', m + p) = Busy(list, cursor) + p + (m - cursor - 1)
  <2>1. m + p \in cursor + p + 1 .. m + p
    BY <1>1
  <2>2. Busy(list', m + p) = Busy(list, cursor) + p + ((m + p) - (cursor + p + 1))
    BY <2>1, AlignedAddresses
  <2>3. (m + p) - (cursor + p + 1) = m - cursor - 1
    BY <1>1
  <2> QED BY <2>2, <2>3
<1>4. PageSize * q \in Nat /\ q <= PageSize * q
  BY <1>0, SMT
<1> DEFINE A == Busy(list', m + p)
<1>5. A = PageSize * q + curPage' /\ curPage' \in Nat
  BY <1>1, <1>2, <1>3, <1>4
<1> HIDE DEF A
<1>6. q \in 0 .. A
  BY <1>4, <1>5
<1>7. cursor' = m + p
  BY DEF Aligned
<1>8. Address(cursor)' = A
  BY <1>7 DEF Address, Busy, A
<1> QED BY <1>5, <1>6, <1>8 DEF PageCounted

\* A process without padding, instruction by instruction.
LEMMA FullBody ==
  ASSUME NEW l \in Seq(NodesOf(AllOps)), NEW a \in Nat, NEW b \in a + 1 .. Len(l),
         l[b] = Sentinel,
         \A k \in a + 1 .. b - 1 : l[k] # Sentinel /\ l[k].op \notin {"goto", "zero"}
  PROVE  BodyOf(l, a) = a + 1 .. b - 1 /\ Cardinality(BodyOf(l, a)) = b - a - 1
<1>1. Len(l) \in Nat /\ b \in Nat
  OBVIOUS
<1>2. Following(l, a) = b
  BY <1>1, FollowingIs
<1>3. ASSUME NEW k \in a + 1 .. b - 1 PROVE l[k].op \notin {"sentinel", "goto", "zero"}
  <2>1. k \in 1 .. Len(l)
    BY <1>1
  <2>2. l[k] \in NodesOf(AllOps)
    <3> DEFINE S == NodesOf(AllOps)
    <3>1. l \in Seq(S)
      OBVIOUS
    <3> HIDE DEF S
    <3>2. l[k] \in S
      BY <2>1, <3>1
    <3> QED BY <3>2 DEF S
  <2>3. l[k] = Sentinel <=> l[k].op = "sentinel"
    BY <2>2, NodeShape
  <2> QED BY <2>3
<1>4. Sentinel.op = "sentinel"
  BY DEF Sentinel, Node
<1>5. \A k \in a + 1 .. b : k \in a + 1 .. b - 1 \/ k = b
  BY <1>1
<1>6. \A k \in a + 1 .. b - 1 : k \in a + 1 .. b
  BY <1>1
<1>7. BodyOf(l, a) = {k \in a + 1 .. b : l[k].op \notin {"sentinel", "goto", "zero"}}
  BY <1>2 DEF BodyOf
<1>8. BodyOf(l, a) = a + 1 .. b - 1
  BY <1>3, <1>4, <1>5, <1>6, <1>7
<1>9. Cardinality((a + 1) .. (b - 1)) = b - a - 1
  <2>1. a + 1 \in Int /\ b - 1 \in Int
    BY <1>1
  <2>2. Cardinality((a + 1) .. (b - 1)) = IF a + 1 > b - 1 THEN 0 ELSE (b - 1) - (a + 1) + 1
    BY <2>1, FS_Interval
  <2> QED BY <1>1, <2>2
<1> QED BY <1>8, <1>9

\* The process that has been aligned.
LEMMA NewBody ==
  ASSUME ListInv, phase = "align",
         NEW m \in cursor + 2 .. Len(list), NEW p \in Nat, Aligned(m, p)
  PROVE  /\ BodyOf(list', cursor + p) = cursor + p + 1 .. m + p - 1
         /\ Cardinality(BodyOf(list', cursor + p)) = m - cursor - 1
<1>1. /\ cursor \in 2 .. Len(list) /\ cursor \in Nat /\ Len(list) \in Nat /\ m \in Nat
      /\ Len(list') = Len(list) + p /\ list'[m + p] = Sentinel
      /\ \A k \in cursor + p + 1 .. m + p - 1 :
           list'[k] # Sentinel /\ list'[k].op \notin {"goto", "zero"}
  BY AlignedNodes
<1>2. list' \in Seq(NodesOf(AllOps))
  BY DEF Aligned
<1> DEFINE a == cursor + p
           b == m + p
<1>3. a \in Nat /\ b \in a + 1 .. Len(list') /\ b - a - 1 = m - cursor - 1
  BY <1>1, SMTT(30)
<1>4. /\ list'[b] = Sentinel
      /\ \A k \in a + 1 .. b - 1 : list'[k] # Sentinel /\ list'[k].op \notin {"goto", "zero"}
  BY <1>1
<1> HIDE DEF a, b
<1>5. BodyOf(list', a) = a + 1 .. b - 1 /\ Cardinality(BodyOf(list', a)) = b - a - 1
  BY <1>2, <1>3, <1>4, FullBody
<1> QED BY <1>3, <1>5 DEF a, b

\* A process that fits into a page has been put into one.
LEMMA NewBodyInPage ==
  ASSUME ListInv, PageCounted, phase = "align",
         NEW m \in cursor + 2 .. Len(list), NEW p \in Nat, Aligned(m, p),
         m - cursor - 1 <= PageSize,
         NEW j \in cursor + p + 1 .. m + p - 1, NEW k \in cursor + p + 1 .. m + p - 1
  PROVE  Busy(list', j) \div PageSize = Busy(list', k) \div PageSize
<1>0. PageSize \in Nat \ {0}
  BY PortsAssumption
<1>1. cursor \in Nat \ {0} /\ m \in Nat /\ Busy(list, cursor) \in Nat
  <2>1. cursor \in Nat \ {0} /\ m \in Nat
    BY AlignedNodes
  <2> QED BY <2>1, CountsAreNumbers
<1>2. PICK q \in Nat, base \in Nat :
        /\ Busy(list, cursor) + p = PageSize * q + base
        /\ base = 0 \/ base + (m - cursor - 1) <= PageSize
  BY NextProcessPage
<1>3. PageSize * q \in Nat
  BY <1>0, SMT
<1>4. ASSUME NEW i \in cursor + p + 1 .. m + p - 1
      PROVE  Busy(list', i) \div PageSize = q
  <2>1. i \in cursor + p + 1 .. m + p
    BY <1>1
  <2>2. Busy(list', i) = Busy(list, cursor) + p + (i - (cursor + p + 1))
    BY <2>1, AlignedAddresses
  <2> DEFINE d == i - (cursor + p + 1)
             w == PageSize * q
             x == Busy(list', i)
  <2>3. d \in Nat /\ d < m - cursor - 1
    BY <1>1
  <2>4. x = w + base + d
    BY <1>2, <2>2
  <2>5. w \in Nat
    BY <1>3
  <2> HIDE DEF d, w, x
  <2>6. x \in w .. w + (PageSize - 1)
    BY <1>0, <1>1, <1>2, <2>3, <2>4, <2>5
  <2>7. x \in PageSize * q .. PageSize * q + (PageSize - 1)
    BY <2>6 DEF w
  <2>8. x \div PageSize = q
    BY <2>7, SamePage
  <2> QED BY <2>8 DEF x
<1>5. Busy(list', j) \div PageSize = q /\ Busy(list', k) \div PageSize = q
  BY <1>4
<1> QED BY <1>5

\* Every process in front of the cursor is in a page if it fits.
LEMMA AlignKeepsPages ==
  ASSUME ListInv, PageCounted, AlignedInPage, phase = "align",
         NEW m \in cursor + 2 .. Len(list), NEW p \in Nat, Aligned(m, p)
  PROVE  AlignedInPage'
<1>1. /\ cursor \in 2 .. Len(list) /\ cursor \in Nat /\ Len(list) \in Nat /\ m \in Nat
      /\ Len(list') = Len(list) + p
      /\ \A k \in cursor + p + 1 .. m + p - 1 : list'[k] # Sentinel
  BY AlignedNodes
<1>2. /\ \A k \in 1 .. cursor - 1 : list'[k] = list[k]
      /\ \A k \in cursor .. cursor + p - 1 : list'[k] # Sentinel
      /\ cursor' = m + p
  BY DEF Aligned
<1> SUFFICES ASSUME NEW n \in 1 .. cursor' - 1, list'[n] = Sentinel,
                    Cardinality(BodyOf(list', n)) <= PageSize,
                    NEW j \in BodyOf(list', n), NEW k \in BodyOf(list', n)
             PROVE  Busy(list', j) \div PageSize = Busy(list', k) \div PageSize
  BY DEF AlignedInPage, InPage, Body, NextSentinel, BodyOf, Following, Address, Busy
<1>3. n \in 1 .. cursor - 1 \/ n = cursor + p
  <2>1. \/ n \in 1 .. cursor - 1 \/ n \in cursor .. cursor + p - 1
        \/ n = cursor + p \/ n \in cursor + p + 1 .. m + p - 1
    BY <1>1, <1>2
  <2> QED BY <1>1, <1>2, <2>1
<1>4. CASE n \in 1 .. cursor - 1
  <2>1. BodyOf(list', n) = BodyOf(list, n) /\ BodyOf(list, n) \subseteq 1 .. cursor - 1
    BY <1>4, OldBodies
  <2>2. list[n] = Sentinel
    BY <1>2, <1>4
  <2>3. Busy(list, j) \div PageSize = Busy(list, k) \div PageSize
    <3>1. Body(n) = BodyOf(list, n)
      BY DEF Body, NextSentinel, BodyOf, Following
    <3>2. InPage(n)
      BY <1>4, <2>2 DEF AlignedInPage
    <3>3. j \in Body(n) /\ k \in Body(n) /\ Cardinality(Body(n)) <= PageSize
      BY <2>1, <3>1
    <3>4. Address(j) \div PageSize = Address(k) \div PageSize
      BY <3>2, <3>3 DEF InPage
    <3> QED BY <3>4 DEF Address, Busy
  <2>4. j \in 1 .. cursor /\ k \in 1 .. cursor
    BY <1>1, <2>1
  <2>5. Busy(list', j) = Busy(list, j) /\ Busy(list', k) = Busy(list, k)
    BY <2>4, AlignedAddresses
  <2> QED BY <2>3, <2>5
<1>5. CASE n = cursor + p
  <2>1. /\ BodyOf(list', n) = cursor + p + 1 .. m + p - 1
        /\ Cardinality(BodyOf(list', n)) = m - cursor - 1
    BY <1>5, NewBody
  <2>2. m - cursor - 1 <= PageSize
    BY <2>1
  <2>3. j \in cursor + p + 1 .. m + p - 1 /\ k \in cursor + p + 1 .. m + p - 1
    BY <2>1
  <2> QED BY <2>2, <2>3, NewBodyInPage
<1> QED BY <1>3, <1>4, <1>5

-----------------------------------------------------------------------------
(* The first process, and the end of the alignment.                        *)

\* The first process needs no padding: it starts at address 0.
LEMMA OptimiseDoneKeeps ==
  ASSUME ListInv, OptimiseDone
  PROVE  ListInv' /\ Jumps' /\ ZerosBehind' /\ PageCounted' /\ AlignedInPage'
<1> DEFINE f == Following(list, 1)
<1>0. PageSize \in Nat \ {0}
  BY PortsAssumption
<1>1. /\ list' = list /\ phase' = "align" /\ cursor' = f /\ actions' = actions
      /\ phase = "optimise"
  BY DEF OptimiseDone, NextSentinel, Following
<1>2. /\ list \in Seq(NodesOf(AllOps)) /\ Len(list) \in Nat /\ Len(list) > 1
      /\ list[1] = Sentinel /\ list[Len(list)] = Sentinel /\ Spaced(list)
      /\ actions \in 0 .. MaxActions
  BY <1>1 DEF ListInv, Framed, Bounds
<1>3. /\ f \in 2 .. Len(list) /\ list[f] = Sentinel
      /\ \A k \in 2 .. f - 1 : list[k] # Sentinel
  <2>1. 1 \in Nat /\ 1 < Len(list) /\ 1 + 1 = 2
    BY <1>2
  <2> QED BY <1>2, <2>1, FollowingThere
<1>4. curPage' = f - 2
  <2>1. curPage' = f - 1 - 1
    BY <1>2 DEF OptimiseDone, CountNextProcess, NextSentinel, Following
  <2> QED BY <1>3, <2>1
<1> HIDE DEF f
<1>5. \A k \in 1 .. Len(list) : list[k].op \notin {"goto", "zero"}
  BY <1>1 DEF ListInv, Unpadded, NoPadding
<1>6. \A j \in 2 .. f : Busy(list, j) = j - 2
  <2>1. Busy(list, 1) = 0
    <3>1. {k \in 1 .. 1 - 1 : list[k] # Sentinel} = {}
      OBVIOUS
    <3> QED BY <3>1, FS_EmptySet DEF Busy
  <2>2. Busy(list, 1 + 1) = Busy(list, 1)
    <3>1. 1 \in Nat \ {0}
      OBVIOUS
    <3> QED BY <1>2, <3>1, BusySentinel
  <2> SUFFICES ASSUME NEW j \in 2 .. f PROVE Busy(list, j) = j - 2
    OBVIOUS
  <2>3. 2 \in Nat \ {0} /\ j \in Nat /\ 2 <= j /\ \A k \in 2 .. j - 1 : list[k] # Sentinel
    BY <1>3
  <2>4. Busy(list, j) = Busy(list, 2) + (j - 2)
    BY <2>3, BusyRun
  <2>5. Busy(list, 2) = 0
    BY <2>1, <2>2
  <2> QED BY <2>3, <2>4, <2>5
<1>7. ListInv'
  <2>1. Framed'
    BY <1>1, <1>2 DEF Framed, Spaced
  <2>2. Bounds'
    <3>1. curPage' \in Nat /\ f \in 1 .. Len(list) + 1
      BY <1>2, <1>3, <1>4
    <3> QED BY <1>1, <1>2, <1>3, <3>1 DEF Bounds
  <2>3. Unpadded'
    <3>1. \A k \in f .. Len(list) : list[k].op \notin {"goto", "zero"}
      BY <1>2, <1>3, <1>5
    <3> QED BY <1>1, <3>1 DEF Unpadded, NoPadding
  <2> QED BY <2>1, <2>2, <2>3 DEF ListInv
<1>8. Jumps'
  <2>1. \A n \in 1 .. f : list[n].op # "goto"
    BY <1>2, <1>3, <1>5
  <2> QED BY <1>1, <2>1 DEF Jumps
<1>9. ZerosBehind'
  <2>1. \A n \in DOMAIN list : list[n].op # "zero"
    BY <1>2, <1>5
  <2> QED BY <1>1, <2>1 DEF ZerosBehind
<1>10. PageCounted'
  <2>1. Address(cursor)' = f - 2
    <3>1. Address(cursor)' = Busy(list, f)
      BY <1>1 DEF Address, Busy
    <3>2. f \in 2 .. f
      BY <1>3
    <3> QED BY <1>6, <3>1, <3>2
  <2>2. 0 \in 0 .. f - 2 /\ f - 2 = PageSize * 0 + (f - 2)
    BY <1>0, <1>3
  <2> QED BY <1>4, <2>1, <2>2 DEF PageCounted
<1>11. AlignedInPage'
  <2> SUFFICES ASSUME NEW n \in 1 .. cursor' - 1, list'[n] = Sentinel,
                      Cardinality(BodyOf(list', n)) <= PageSize,
                      NEW j \in BodyOf(list', n), NEW k \in BodyOf(list', n)
               PROVE  Busy(list', j) \div PageSize = Busy(list', k) \div PageSize
    BY DEF AlignedInPage, InPage, Body, NextSentinel, BodyOf, Following, Address, Busy
  <2>0. /\ n \in 1 .. f - 1 /\ list[n] = Sentinel /\ Cardinality(BodyOf(list, n)) <= PageSize
        /\ j \in BodyOf(list, n) /\ k \in BodyOf(list, n)
    BY <1>1
  <2>1. n = 1
    <3>1. n = 1 \/ n \in 2 .. f - 1
      BY <1>3, <2>0
    <3> QED BY <1>3, <2>0, <3>1
  <2>2. BodyOf(list, 1) = 2 .. f - 1 /\ Cardinality(BodyOf(list, 1)) = f - 2
    <3>1. 1 \in Nat /\ f \in 1 + 1 .. Len(list) /\ 1 + 1 = 2 /\ f - 1 - 1 = f - 2
      BY <1>3
    <3>2. \A i \in 1 + 1 .. f - 1 : list[i] # Sentinel /\ list[i].op \notin {"goto", "zero"}
      BY <1>2, <1>3, <1>5
    <3>3. BodyOf(list, 1) = 1 + 1 .. f - 1 /\ Cardinality(BodyOf(list, 1)) = f - 1 - 1
      BY <1>2, <1>3, <3>1, <3>2, FullBody
    <3> QED BY <3>1, <3>3
  <2>3. ASSUME NEW i \in 2 .. f - 1 PROVE Busy(list, i) \div PageSize = 0
    <3>1. Busy(list, i) = i - 2
      BY <1>3, <1>6
    <3>2. f - 2 <= PageSize
      BY <2>0, <2>1, <2>2
    <3>3. PageSize * 0 = 0 /\ 0 \in Nat
      BY <1>0
    <3>4. i - 2 \in 0 .. 0 + (PageSize - 1)
      BY <1>0, <1>3, <3>2
    <3>5. i - 2 \in PageSize * 0 .. PageSize * 0 + (PageSize - 1)
      BY <3>3, <3>4
    <3> QED BY <3>1, <3>3, <3>5, SamePage
  <2>4. Busy(list, j) \div PageSize = Busy(list, k) \div PageSize
    BY <2>0, <2>1, <2>2, <2>3
  <2> QED BY <1>1, <2>4
<1> QED BY <1>7, <1>8, <1>9, <1>10, <1>11

\* The node behind the sentinel of that number.
LEMMA FirstOfIs ==
  ASSUME list \in Seq(NodesOf(AllOps)), NEW s \in 1 .. Len(list) - 1, list[s] = Sentinel
  PROVE  FirstOf(Ordinal(s)) = s + 1
<1>0. Len(list) \in Nat
  OBVIOUS
<1>1. Ordinal(s) = Number(list, s)
  BY DEF Ordinal, Number
<1> DEFINE It(n) == list[n - 1] = Sentinel /\ Number(list, n - 1) = Number(list, s)
<1>2. s + 1 \in 2 .. Len(list) /\ It(s + 1)
  <2>1. (s + 1) - 1 = s /\ s + 1 \in 2 .. Len(list)
    BY <1>0
  <2> QED BY <2>1
<1>3. ASSUME NEW n \in 2 .. Len(list), It(n) PROVE n = s + 1
  <2>1. n - 1 \in Nat \ {0} /\ s \in Nat \ {0}
    BY <1>0
  <2>2. n - 1 = s
    BY <1>3, <2>1, NumberTells
  <2> QED BY <2>1, <2>2
<1>4. FirstOf(Ordinal(s)) = CHOOSE n \in 2 .. Len(list) : It(n)
  BY <1>1 DEF FirstOf, Number
<1> HIDE DEF It
<1> QED BY <1>2, <1>3, <1>4

\* resolveGotos changes the gotos' data and nothing else.
LEMMA ResolvedNodes ==
  ASSUME ListInv, Jumps, ResolveGotos
  PROVE  /\ list' \in Seq(NodesOf(AllOps)) /\ Len(list') = Len(list)
         /\ \A k \in 1 .. Len(list) :
              list'[k].op = list[k].op /\ (list[k] = Sentinel <=> list'[k] = Sentinel)
         /\ \A n \in 1 .. Len(list) : list[n].op = "goto" =>
              \E s \in n + 1 .. Len(list) - 1 :
                /\ list[s] = Sentinel /\ list'[n].data = Busy(list, s + 1)
                /\ \A k \in n + 1 .. s - 1 : list[k].op = "zero"
<1> DEFINE S == NodesOf(AllOps)
           To(n) == Address(FirstOf(list[n].data))
           R(n) == IF list[n].op = "goto" THEN [list[n] EXCEPT !.data = To(n)] ELSE list[n]
<1>1. /\ list \in Seq(S) /\ Len(list) \in Nat /\ cursor = Len(list) /\ phase = "align"
      /\ cursor \in 2 .. Len(list)
  BY DEF ListInv, Framed, Bounds, ResolveGotos
<1>2. list' = [n \in 1 .. Len(list) |-> R(n)]
  BY DEF ResolveGotos
<1>3. ASSUME NEW n \in 1 .. Len(list), list[n].op = "goto"
      PROVE  \E s \in n + 1 .. Len(list) - 1 :
               /\ list[s] = Sentinel /\ To(n) = Busy(list, s + 1) /\ To(n) \in Nat
               /\ \A k \in n + 1 .. s - 1 : list[k].op = "zero"
  <2>1. PICK s \in n + 1 .. Len(list) - 1 :
          /\ list[s] = Sentinel /\ list[n].data = Ordinal(s)
          /\ \A k \in n + 1 .. s - 1 : list[k].op = "zero"
    BY <1>1, <1>3 DEF Jumps
  <2>2. s \in 1 .. Len(list) - 1 /\ s + 1 \in Nat
    BY <1>1
  <2>3. FirstOf(list[n].data) = s + 1
    BY <1>1, <2>1, <2>2, FirstOfIs
  <2>4. To(n) = Busy(list, s + 1)
    BY <2>3 DEF Address, Busy
  <2>5. Busy(list, s + 1) \in Nat
    BY <2>2, CountsAreNumbers
  <2> HIDE DEF To
  <2> QED BY <2>1, <2>4, <2>5
<1>4. \A n \in 1 .. Len(list) : list[n] \in S
  <2> HIDE DEF S
  <2> QED BY <1>1
<1> HIDE DEF To
<1>5. ASSUME NEW n \in 1 .. Len(list)
      PROVE  /\ R(n) \in S /\ R(n).op = list[n].op
             /\ list[n] = Sentinel <=> R(n) = Sentinel
             /\ list[n].op = "goto" => R(n).data = To(n)
  <2>1. CASE list[n].op # "goto"
    <3>1. R(n) = list[n]
      BY <2>1
    <3> HIDE DEF R
    <3> QED BY <1>4, <2>1, <3>1
  <2>2. CASE list[n].op = "goto"
    <3> DEFINE g == list[n]
               r == [g EXCEPT !.data = To(n)]
    <3>1. R(n) = r
      BY <2>2
    <3>2. g # Sentinel /\ g \in Instruction(AllOps) /\ To(n) \in Nat /\ g.op = "goto"
      <4>1. To(n) \in Nat
        BY <1>3, <2>2
      <4>2. Sentinel.op = "sentinel" /\ g \in NodesOf(AllOps)
        BY <1>4 DEF Sentinel, Node
      <4>3. g # Sentinel
        BY <2>2, <4>2
      <4>4. g \in Instruction(AllOps)
        BY <4>2, <4>3 DEF NodesOf
      <4> QED BY <2>2, <4>1, <4>3, <4>4
    <3> HIDE DEF g, R
    <3>3. r \in Instruction(AllOps) /\ r.op = g.op /\ r.data = To(n)
      BY <3>2 DEF Instruction
    <3>4. Sentinel.op = "sentinel"
      BY DEF Sentinel, Node
    <3> HIDE DEF r
    <3>5. r # Sentinel /\ r \in S
      BY <3>2, <3>3, <3>4 DEF NodesOf
    <3> QED BY <3>1, <3>2, <3>3, <3>5 DEF g
  <2> QED BY <2>1, <2>2
<1> HIDE DEF R, S
<1>6. list' \in Seq(S) /\ Len(list') = Len(list) /\ \A n \in 1 .. Len(list) : list'[n] = R(n)
  BY <1>1, <1>2, <1>5
<1>7. \A k \in 1 .. Len(list) :
        list'[k].op = list[k].op /\ (list[k] = Sentinel <=> list'[k] = Sentinel)
  BY <1>5, <1>6
<1>8. \A n \in 1 .. Len(list) : list[n].op = "goto" => list'[n].data = To(n)
  BY <1>5, <1>6
<1>9. ASSUME NEW n \in 1 .. Len(list), list[n].op = "goto"
      PROVE  \E s \in n + 1 .. Len(list) - 1 :
               /\ list[s] = Sentinel /\ list'[n].data = Busy(list, s + 1)
               /\ \A k \in n + 1 .. s - 1 : list[k].op = "zero"
  BY <1>3, <1>8, <1>9
<1> QED BY <1>6, <1>7, <1>9 DEF S

\* What was an invariant of the alignment is now one of the dump.
LEMMA ResolveGotosKeeps ==
  ASSUME ListInv, Jumps, ZerosBehind, AlignedInPage, ResolveGotos
  PROVE  ListInv' /\ PaddingJumped' /\ ProcessInPage'
<1>1. /\ list' \in Seq(NodesOf(AllOps)) /\ Len(list') = Len(list)
      /\ \A k \in 1 .. Len(list) :
           list'[k].op = list[k].op /\ (list[k] = Sentinel <=> list'[k] = Sentinel)
      /\ \A n \in 1 .. Len(list) : list[n].op = "goto" =>
           \E s \in n + 1 .. Len(list) - 1 :
             /\ list[s] = Sentinel /\ list'[n].data = Busy(list, s + 1)
             /\ \A k \in n + 1 .. s - 1 : list[k].op = "zero"
  BY ResolvedNodes
<1>2. /\ list \in Seq(NodesOf(AllOps)) /\ Len(list) \in Nat /\ cursor = Len(list)
      /\ phase = "align" /\ Len(list) > 1 /\ phase' = "done"
      /\ list[1] = Sentinel /\ list[Len(list)] = Sentinel /\ Spaced(list)
      /\ cursor' = cursor /\ curPage' = curPage /\ actions' = actions
      /\ curPage \in Nat /\ actions \in 0 .. MaxActions
  BY DEF ListInv, Framed, Bounds, ResolveGotos
<1>3. \A k \in 1 .. Len(list) : list[k] = Sentinel <=> list[k].op = "sentinel"
  <2> SUFFICES ASSUME NEW k \in 1 .. Len(list)
               PROVE  list[k] = Sentinel <=> list[k].op = "sentinel"
    OBVIOUS
  <2>1. list[k] \in NodesOf(AllOps)
    <3> DEFINE S == NodesOf(AllOps)
    <3>1. list \in Seq(S)
      BY <1>2
    <3> HIDE DEF S
    <3>2. list[k] \in S
      BY <3>1
    <3> QED BY <3>2 DEF S
  <2> QED BY <2>1, NodeShape
<1>4. \A n \in 1 .. Len(list) : Busy(list', n) = Busy(list, n)
  <2> SUFFICES ASSUME NEW n \in 1 .. Len(list) PROVE Busy(list', n) = Busy(list, n)
    OBVIOUS
  <2>1. n \in Nat /\ \A k \in 1 .. n - 1 : list'[k] = Sentinel <=> list[k] = Sentinel
    BY <1>1, <1>2
  <2> QED BY <2>1, BusySame
<1>5. ListInv'
  <2>1. Framed'
    <3>1. list'[1] = Sentinel /\ list'[Len(list')] = Sentinel
      BY <1>1, <1>2
    <3>2. Spaced(list)'
      BY <1>1, <1>2 DEF Spaced
    <3> QED BY <1>1, <1>2, <3>1, <3>2 DEF Framed
  <2>2. Bounds'
    BY <1>1, <1>2 DEF Bounds
  <2>3. Unpadded'
    BY <1>2 DEF Unpadded
  <2> QED BY <2>1, <2>2, <2>3 DEF ListInv
<1>6. PaddingJumped'
  <2>0. DOMAIN list' = 1 .. Len(list) /\ DOMAIN list = 1 .. Len(list)
    <3>1. DOMAIN list' = 1 .. Len(list')
      BY <1>1
    <3>2. DOMAIN list = 1 .. Len(list)
      BY <1>2
    <3> QED BY <1>1, <3>1, <3>2
  <2>1. ASSUME NEW n \in 1 .. Len(list), list'[n].op = "goto"
        PROVE  \E t \in n + 1 .. Len(list') :
                 /\ Busy(list', t) = list'[n].data /\ list'[t].op \notin {"sentinel", "zero"}
                 /\ \A k \in n + 1 .. t - 1 : list'[k].op \in {"zero", "sentinel"}
    <3>1. PICK s \in n + 1 .. Len(list) - 1 :
            /\ list[s] = Sentinel /\ list'[n].data = Busy(list, s + 1)
            /\ \A k \in n + 1 .. s - 1 : list[k].op = "zero"
      BY <1>1, <2>1
    <3>2. s \in Nat /\ s + 1 \in n + 1 .. Len(list') /\ s + 1 \in 1 .. Len(list)
          /\ s \in 1 .. Len(list) - 1 /\ s \in 1 .. Len(list)
      BY <1>1, <1>2
    <3>3. Busy(list', s + 1) = list'[n].data
      BY <1>4, <3>1, <3>2
    <3>4. list[s + 1].op # "sentinel"
      BY <1>2, <1>3, <3>1, <3>2 DEF Spaced
    <3>5. list[s + 1].op # "zero"
      <4>1. list[s].op = "sentinel" /\ (s + 1) - 1 = s
        BY <1>3, <3>1, <3>2
      <4>2. list[s + 1].op = "zero" => list[(s + 1) - 1].op \in {"goto", "zero"}
        BY <1>2, <2>0, <3>2 DEF ZerosBehind
      <4> QED BY <4>1, <4>2
    <3>6. ASSUME NEW k \in n + 1 .. (s + 1) - 1 PROVE list'[k].op \in {"zero", "sentinel"}
      <4>1. k \in 1 .. Len(list) /\ (k = s \/ k \in n + 1 .. s - 1)
        BY <1>2, <3>2
      <4>2. list[k].op \in {"zero", "sentinel"}
        BY <1>3, <3>1, <3>2, <4>1
      <4> QED BY <1>1, <4>1, <4>2
    <3>7. list'[s + 1].op \notin {"sentinel", "zero"}
      BY <1>1, <3>2, <3>4, <3>5
    <3> QED BY <3>2, <3>3, <3>6, <3>7
  <2>2. ASSUME NEW n \in 1 .. Len(list), list'[n].op = "zero"
        PROVE  n > 1 /\ list'[n - 1].op \in {"goto", "zero"}
    <3>1. list[n].op = "zero"
      BY <1>1, <2>2
    <3>2. n > 1 /\ list[n - 1].op \in {"goto", "zero"}
      BY <1>2, <2>0, <3>1 DEF ZerosBehind
    <3>3. n - 1 \in 1 .. Len(list)
      BY <1>2, <3>2
    <3> QED BY <1>1, <3>2, <3>3
  <2>3. \A n \in DOMAIN list' : list'[n].op = "goto" =>
          \E t \in n + 1 .. Len(list') :
            /\ Dumped(t)' = list'[n].data /\ list'[t].op \notin {"sentinel", "zero"}
            /\ \A k \in n + 1 .. t - 1 : list'[k].op \in {"zero", "sentinel"}
    BY <2>0, <2>1 DEF Dumped, Busy
  <2>4. \A n \in DOMAIN list' :
          list'[n].op = "zero" => n > 1 /\ list'[n - 1].op \in {"goto", "zero"}
    BY <2>0, <2>2
  <2> QED BY <2>3, <2>4 DEF PaddingJumped
<1>7. ProcessInPage'
  <2>1. ASSUME NEW n \in 1 .. Len(list) - 1
        PROVE  BodyOf(list', n) = BodyOf(list, n) /\ BodyOf(list, n) \subseteq 1 .. Len(list)
    <3>1. /\ Following(list, n) \in n + 1 .. Len(list) /\ list[Following(list, n)] = Sentinel
          /\ \A k \in n + 1 .. Following(list, n) - 1 : list[k] # Sentinel
      <4>1. n \in Nat /\ n < Len(list)
        BY <1>2
      <4> QED BY <1>2, <4>1, FollowingThere
    <3> DEFINE f == Following(list, n)
    <3>2. Following(list', n) = f
      <4> HIDE DEF f
      <4>1. f \in n + 1 .. Len(list) /\ list[f] = Sentinel
            /\ \A k \in n + 1 .. f - 1 : list[k] # Sentinel
        BY <3>1 DEF f
      <4>2. f \in n + 1 .. Len(list') /\ list'[f] = Sentinel /\ n \in Nat /\ Len(list') \in Nat
        BY <1>1, <1>2, <4>1
      <4>3. \A k \in n + 1 .. f - 1 : list'[k] # Sentinel
        BY <1>1, <1>2, <4>1
      <4> QED BY <4>2, <4>3, FollowingIs
    <3>3. f \in n + 1 .. Len(list)
      BY <3>1
    <3>4. BodyOf(list', n) = {k \in n + 1 .. f : list'[k].op \notin {"sentinel", "goto", "zero"}}
      BY <3>2 DEF BodyOf
    <3>5. BodyOf(list, n) = {k \in n + 1 .. f : list[k].op \notin {"sentinel", "goto", "zero"}}
      BY DEF BodyOf
    <3> HIDE DEF f
    <3>6. \A k \in n + 1 .. f : k \in 1 .. Len(list)
      BY <1>2, <3>3
    <3> QED BY <1>1, <3>4, <3>5, <3>6
  <2> SUFFICES ASSUME NEW n \in 1 .. Len(list') - 1, list'[n] = Sentinel,
                      Cardinality(BodyOf(list', n)) <= PageSize,
                      NEW j \in BodyOf(list', n), NEW k \in BodyOf(list', n)
               PROVE  Busy(list', j) \div PageSize = Busy(list', k) \div PageSize
    BY DEF ProcessInPage, Body, NextSentinel, BodyOf, Following, Address, Busy
  <2>2. /\ n \in 1 .. Len(list) - 1 /\ n \in 1 .. Len(list) /\ n \in 1 .. cursor - 1
        /\ list[n] = Sentinel
    BY <1>1, <1>2
  <2>3. Body(n) = BodyOf(list, n)
    BY DEF Body, NextSentinel, BodyOf, Following
  <2>4. InPage(n)
    BY <1>2, <2>2 DEF AlignedInPage
  <2>5. j \in Body(n) /\ k \in Body(n) /\ Cardinality(Body(n)) <= PageSize
        /\ j \in 1 .. Len(list) /\ k \in 1 .. Len(list)
    BY <2>1, <2>2, <2>3
  <2>6. Address(j) \div PageSize = Address(k) \div PageSize
    BY <2>4, <2>5 DEF InPage
  <2>7. Busy(list', j) = Busy(list, j) /\ Busy(list', k) = Busy(list, k)
    BY <1>4, <2>5
  <2> QED BY <2>6, <2>7 DEF Address, Busy
<1> QED BY <1>5, <1>6, <1>7

-----------------------------------------------------------------------------
(* The passes before the alignment, and the theorems.                      *)

\* A list without padding, as the passes before the alignment see it.
LEMMA PlainList ==
  ASSUME NEW l \in Seq(NodesOf(AllOps)),
         \A k \in 1 .. Len(l) : l[k].op \notin {"goto", "zero"}
  PROVE  l \in Seq(Plain)
<1> DEFINE S == NodesOf(AllOps)
<1>1. l \in Seq(S)
  OBVIOUS
<1>2. ASSUME NEW n \in S, n.op \notin {"goto", "zero"} PROVE n \in Plain
  <2>1. n = Sentinel \/ n \in Instruction(AllOps)
    BY DEF NodesOf
  <2>2. n \in Instruction(AllOps) => n \in Instruction(Written)
    BY <1>2 DEF Instruction, AllOps
  <2> QED BY <2>1, <2>2 DEF Plain, NodesOf
<1> HIDE DEF S
<1>3. \A k \in 1 .. Len(l) : l[k] \in S
  BY <1>1
<1>4. \A k \in 1 .. Len(l) : l[k] \in Plain
  BY <1>2, <1>3
<1> QED BY <1>1, <1>4

\* And the other way round.
LEMMA PlainNodes ==
  ASSUME NEW l \in Seq(Plain)
  PROVE  /\ l \in Seq(NodesOf(AllOps))
         /\ \A k \in 1 .. Len(l) : l[k].op \notin {"goto", "zero"}
<1> DEFINE S == NodesOf(AllOps)
<1>1. ASSUME NEW n \in Plain PROVE n \in S /\ n.op \notin {"goto", "zero"}
  <2>1. Written \subseteq AllOps /\ "goto" \notin Written /\ "zero" \notin Written
    BY DEF AllOps, Written
  <2>2. n \in NodesOf(Written)
    BY DEF Plain
  <2>3. n \in S /\ n.op \in Written \cup {"sentinel"}
    BY <2>1, <2>2, NodeShape
  <2> QED BY <2>1, <2>3
<1> HIDE DEF S
<1>2. \A k \in 1 .. Len(l) : l[k] \in Plain
  OBVIOUS
<1>3. \A k \in 1 .. Len(l) : l[k] \in S /\ l[k].op \notin {"goto", "zero"}
  BY <1>1, <1>2
<1>4. l \in Seq(S)
  BY <1>3
<1> QED BY <1>3, <1>4 DEF S

\* The list of the first two passes.
LEMMA BeforeAlignment ==
  ASSUME ListInv, phase \in {"build", "optimise"}
  PROVE  Begun(list)
<1>1. list \in Seq(NodesOf(AllOps)) /\ \A k \in 1 .. Len(list) : list[k].op \notin {"goto", "zero"}
  BY DEF ListInv, Framed, Unpadded, NoPadding
<1>2. list \in Seq(Plain)
  BY <1>1, PlainList
<1> QED BY <1>2 DEF ListInv, Framed, Begun

\* The next list of the first two passes.
LEMMA ListInvBefore ==
  ASSUME Begun(list'), phase' \in {"build", "optimise"},
         phase' = "optimise" => Len(list') > 1 /\ list'[Len(list')] = Sentinel,
         cursor' \in 1 .. Len(list') + 1, curPage' \in Nat, actions' \in 0 .. MaxActions
  PROVE  ListInv'
<1>1. /\ list' \in Seq(NodesOf(AllOps))
      /\ \A k \in 1 .. Len(list') : list'[k].op \notin {"goto", "zero"}
  BY PlainNodes DEF Begun
<1>2. Framed'
  BY <1>1 DEF Framed, Begun, Spaced
<1>3. Bounds'
  BY DEF Bounds
<1>4. Unpadded'
  BY <1>1 DEF Unpadded, NoPadding
<1> QED BY <1>2, <1>3, <1>4 DEF ListInv

\* The compiler's instructions are put behind the list.
LEMMA WriteKeeps ==
  ASSUME ListInv, NEW a \in Actions, NEW p \in Ports, Write(a, p)
  PROVE  ListInv'
<1>1. Begun(list) /\ cursor \in 1 .. Len(list) + 1 /\ curPage \in Nat /\ actions \in 0 .. MaxActions
  BY BeforeAlignment DEF Write, ListInv, Bounds
<1> DEFINE t == Program(a, p, actions')
<1>2. /\ list' = list \o t /\ phase' = "build" /\ cursor' = cursor /\ curPage' = curPage
      /\ actions' = actions + 1 /\ actions < MaxActions
  BY DEF Write
<1>3. actions' \in 0 .. MaxActions /\ actions' \in Nat
  BY <1>1, <1>2, ActionsAssumption
<1>4. t \in Seq(Instruction(Written))
  BY <1>3, ProgramWritten
<1> HIDE DEF t
<1>5. Len(t) \in Nat /\ \A k \in 1 .. Len(t) : t[k] \in Plain /\ t[k] # Sentinel
  <2>1. \A k \in 1 .. Len(t) : t[k] \in Instruction(Written)
    <3> DEFINE I == Instruction(Written)
    <3>1. t \in Seq(I)
      BY <1>4
    <3> HIDE DEF I
    <3>2. \A k \in 1 .. Len(t) : t[k] \in I
      BY <3>1
    <3> QED BY <3>2 DEF I
  <2>2. Written \subseteq AllOps
    BY DEF AllOps
  <2>3. \A n \in Instruction(Written) : n \in Plain /\ n # Sentinel
    BY <2>2, WrittenShape DEF Plain
  <2> QED BY <1>4, <2>1, <2>3
<1>6. t \in Seq(Plain)
  BY <1>4, <1>5
<1>7. Spaced(t)
  BY <1>5 DEF Spaced
<1>8. Len(t) = 0 \/ t[1] # Sentinel
  BY <1>5
<1>9. Begun(list \o t) /\ Len(list \o t) = Len(list) + Len(t)
  BY <1>1, <1>6, <1>7, <1>8, BegunJoined
<1>10. cursor' \in 1 .. Len(list') + 1
  <2>1. Len(list) \in Nat
    BY <1>1 DEF Begun
  <2> QED BY <1>1, <1>2, <1>5, <1>9, <2>1
<1>11. Begun(list') /\ phase' # "optimise" /\ phase' \in {"build", "optimise"} /\ curPage' \in Nat
  BY <1>1, <1>2, <1>9
<1> QED BY <1>3, <1>10, <1>11, ListInvBefore

\* A process ends where something has been written.
LEMMA AddProcessKeeps ==
  ASSUME ListInv, AddProcess
  PROVE  ListInv'
<1>1. Begun(list) /\ cursor \in 1 .. Len(list) + 1 /\ curPage \in Nat /\ actions \in 0 .. MaxActions
  BY BeforeAlignment DEF AddProcess, ListInv, Bounds
<1> DEFINE t == <<Sentinel>>
<1>2. t \in Seq(Plain) /\ Len(t) = 1 /\ Spaced(t)
  <2>1. Sentinel \in Plain
    BY DEF Plain, NodesOf
  <2>2. t \in Seq(Plain) /\ Len(t) = 1
    BY <2>1
  <2>3. 1 .. Len(t) - 1 = {}
    BY <2>2
  <2> QED BY <2>2, <2>3 DEF Spaced
<1>3. list' = list \o t
  <2>1. list \in Seq(Plain)
    BY <1>1 DEF Begun
  <2> QED BY <2>1 DEF AddProcess
<1>4. list[Len(list)] # Sentinel
  BY DEF AddProcess, Last
<1>5. phase' = "build" /\ cursor' = cursor /\ curPage' = curPage /\ actions' = actions
  BY DEF AddProcess
<1> HIDE DEF t
<1>6. Begun(list \o t) /\ Len(list \o t) = Len(list) + Len(t)
  BY <1>1, <1>2, <1>4, BegunJoined
<1>7. cursor' \in 1 .. Len(list') + 1
  <2>1. Len(list) \in Nat
    BY <1>1 DEF Begun
  <2> QED BY <1>1, <1>2, <1>3, <1>5, <1>6, <2>1
<1>8. /\ Begun(list') /\ phase' # "optimise" /\ phase' \in {"build", "optimise"}
      /\ curPage' \in Nat /\ actions' \in 0 .. MaxActions
  BY <1>1, <1>3, <1>5, <1>6
<1> QED BY <1>7, <1>8, ListInvBefore

\* The passes begin with a list that ends with a sentinel.
LEMMA DumpKeeps ==
  ASSUME ListInv, Dump
  PROVE  ListInv'
<1>1. Begun(list) /\ curPage \in Nat /\ actions \in 0 .. MaxActions
  BY BeforeAlignment DEF Dump, ListInv, Bounds
<1>2. /\ list' = list /\ phase' = "optimise" /\ cursor' = 1 /\ curPage' = curPage
      /\ actions' = actions /\ Len(list) > 1 /\ list[Len(list)] = Sentinel
  BY DEF Dump, Last
<1>3. 1 \in 1 .. Len(list) + 1
  BY <1>1, <1>2 DEF Begun
<1> QED BY <1>1, <1>2, <1>3, ListInvBefore

\* A segment that is moved leaves a list of that shape.
LEMMA OptimiseKeeps ==
  ASSUME ListInv, Optimise
  PROVE  ListInv'
<1>1. Begun(list) /\ curPage \in Nat /\ actions \in 0 .. MaxActions
      /\ cursor \in 1 .. Len(list) + 1
  BY BeforeAlignment DEF Optimise, ListInv, Bounds
<1>2. phase' = "optimise" /\ curPage' = curPage /\ actions' = actions /\ phase = "optimise"
  BY DEF Optimise
<1>3. Len(list) > 1 /\ list[Len(list)] = Sentinel
  BY <1>2 DEF ListInv, Framed
<1>4. /\ list' \in Seq(Plain) /\ Spaced(list') /\ list'[1] = Sentinel
      /\ Len(list') > 1 /\ list'[Len(list')] = Sentinel
      /\ cursor' \in 1 .. Len(list') + 1
  BY <1>1, <1>3, OptimiseShape DEF Begun
<1>5. Begun(list')
  BY <1>4 DEF Begun
<1> QED BY <1>1, <1>2, <1>4, <1>5, ListInvBefore

\* The invariant before the alignment is the list's shape.
LEMMA VacuousBefore ==
  ASSUME ListInv, phase \in {"build", "optimise"}
  PROVE  IInv
BY DEF ListInv, IInv, Jumps, ZerosBehind, PaddingJumped, PageCounted, AlignedInPage, ProcessInPage

\* The list begins with a sentinel.
LEMMA InitHolds ==
  ASSUME Init
  PROVE  IInv
<1>1. /\ list = <<Sentinel>> /\ phase = "build" /\ cursor = 1 /\ curPage = 0 /\ actions = 0
  BY DEF Init
<1>2. Sentinel \in NodesOf(AllOps) /\ Sentinel.op = "sentinel"
  BY DEF NodesOf, Sentinel, Node
<1>3. list \in Seq(NodesOf(AllOps)) /\ Len(list) = 1 /\ list[1] = Sentinel
  BY <1>1, <1>2
<1>4. 1 .. Len(list) - 1 = {} /\ 1 .. Len(list) = {1}
  BY <1>3
<1>5. Framed
  BY <1>1, <1>3, <1>4 DEF Framed, Spaced
<1>6. Bounds
  BY <1>1, <1>3, ActionsAssumption DEF Bounds
<1>7. Unpadded
  BY <1>1, <1>2, <1>3, <1>4 DEF Unpadded, NoPadding
<1> QED BY <1>1, <1>5, <1>6, <1>7, VacuousBefore DEF ListInv

\* Every step of the linker keeps the invariant.
LEMMA NextKeeps ==
  ASSUME IInv, Next
  PROVE  IInv'
<1>0. ListInv
  BY DEF IInv, ListInv
<1>1. ASSUME ListInv', phase' \in {"build", "optimise"} PROVE IInv'
  BY <1>1 DEF ListInv, IInv, Jumps, ZerosBehind, PaddingJumped, PageCounted, AlignedInPage,
              ProcessInPage
<1>2. ASSUME NEW a \in Actions, NEW p \in Ports, Write(a, p) PROVE IInv'
  <2>1. phase' = "build"
    BY <1>2 DEF Write
  <2> QED BY <1>0, <1>1, <1>2, <2>1, WriteKeeps
<1>3. CASE AddProcess
  <2>1. phase' = "build"
    BY <1>3 DEF AddProcess
  <2> QED BY <1>0, <1>1, <1>3, <2>1, AddProcessKeeps
<1>4. CASE Dump
  <2>1. phase' = "optimise"
    BY <1>4 DEF Dump
  <2> QED BY <1>0, <1>1, <1>4, <2>1, DumpKeeps
<1>5. CASE Optimise
  <2>1. phase' = "optimise"
    BY <1>5 DEF Optimise
  <2> QED BY <1>0, <1>1, <1>5, <2>1, OptimiseKeeps
<1>6. CASE OptimiseDone
  <2>1. phase' = "align"
    BY <1>6 DEF OptimiseDone
  <2>2. ListInv' /\ Jumps' /\ ZerosBehind' /\ PageCounted' /\ AlignedInPage'
    BY <1>0, <1>6, OptimiseDoneKeeps
  <2>3. PaddingJumped' /\ ProcessInPage'
    BY <2>1 DEF PaddingJumped, ProcessInPage
  <2> QED BY <2>2, <2>3 DEF IInv, ListInv
<1>7. CASE Align
  <2>1. phase = "align" /\ phase' = "align" /\ actions' = actions
    BY <1>7 DEF Align
  <2>2. PICK m \in cursor + 2 .. Len(list), p \in Nat : Aligned(m, p)
    BY <1>0, <1>7, AlignShape DEF ListInv
  <2>3. ListInv'
    BY <1>0, <2>1, <2>2, AlignKeepsList
  <2>4. Jumps' /\ ZerosBehind'
    BY <1>0, <2>1, <2>2, AlignKeepsJumps DEF IInv
  <2>5. PageCounted'
    BY <1>0, <2>1, <2>2, AlignKeepsCount DEF IInv
  <2>6. AlignedInPage'
    BY <1>0, <2>1, <2>2, AlignKeepsPages DEF IInv
  <2>7. PaddingJumped' /\ ProcessInPage'
    BY <2>1 DEF PaddingJumped, ProcessInPage
  <2> QED BY <2>3, <2>4, <2>5, <2>6, <2>7 DEF IInv, ListInv
<1>8. CASE ResolveGotos
  <2>1. phase' = "done"
    BY <1>8 DEF ResolveGotos
  <2>2. ListInv' /\ PaddingJumped' /\ ProcessInPage'
    BY <1>0, <1>8, ResolveGotosKeeps DEF IInv
  <2>3. Jumps' /\ ZerosBehind' /\ PageCounted' /\ AlignedInPage'
    BY <2>1 DEF Jumps, ZerosBehind, PageCounted, AlignedInPage
  <2> QED BY <2>2, <2>3 DEF IInv, ListInv
<1> QED BY <1>2, <1>3, <1>4, <1>5, <1>6, <1>7, <1>8 DEF Next

\* A step that changes nothing keeps it, too.
LEMMA StutterKeeps ==
  ASSUME IInv, UNCHANGED vars
  PROVE  IInv'
<1>1. list' = list /\ phase' = phase /\ cursor' = cursor /\ curPage' = curPage /\ actions' = actions
  BY DEF vars
<1>2. Framed' /\ Bounds' /\ Unpadded'
  BY <1>1 DEF IInv, Framed, Bounds, Unpadded, NoPadding, Spaced
<1>3. Jumps' /\ ZerosBehind'
  BY <1>1 DEF IInv, Jumps, ZerosBehind, Ordinal
<1>4. PaddingJumped'
  BY <1>1 DEF IInv, PaddingJumped, Dumped
<1>5. PageCounted'
  BY <1>1 DEF IInv, PageCounted, Address
<1>6. AlignedInPage' /\ ProcessInPage'
  <2> DEFINE Pages(l, n) == Cardinality(BodyOf(l, n)) <= PageSize =>
        \A j, k \in BodyOf(l, n) : Busy(l, j) \div PageSize = Busy(l, k) \div PageSize
  <2>1. /\ AlignedInPage <=> (phase = "align" => \A n \in 1 .. cursor - 1 :
             list[n] = Sentinel => Pages(list, n))
        /\ ProcessInPage <=> (phase = "done" => \A n \in 1 .. Len(list) - 1 :
             list[n] = Sentinel => Pages(list, n))
    BY DEF AlignedInPage, InPage, ProcessInPage, Body, NextSentinel, BodyOf, Following, Address, Busy
  <2>2. /\ AlignedInPage' <=> (phase' = "align" => \A n \in 1 .. cursor' - 1 :
             list'[n] = Sentinel => Pages(list', n))
        /\ ProcessInPage' <=> (phase' = "done" => \A n \in 1 .. Len(list') - 1 :
             list'[n] = Sentinel => Pages(list', n))
    BY DEF AlignedInPage, InPage, ProcessInPage, Body, NextSentinel, BodyOf, Following, Address, Busy
  <2> HIDE DEF Pages
  <2>3. AlignedInPage /\ ProcessInPage
    BY DEF IInv
  <2> QED BY <1>1, <2>1, <2>2, <2>3
<1> QED BY <1>2, <1>3, <1>4, <1>5, <1>6 DEF IInv

\* The invariant of the list through all passes of Linker:dump.
THEOREM InvariantHolds == Spec => []IInv
<1>1. Init => IInv
  BY InitHolds
<1>2. IInv /\ [Next]_vars => IInv'
  BY NextKeeps, StutterKeeps
<1> QED BY <1>1, <1>2, PTL DEF Spec

\* Every node is an instruction of the linker's or a sentinel, and the pass's cursor
\* and page count stay where the list has nodes and pages.
THEOREM TypeCorrect == Spec => []TypeOK
<1>1. IInv => TypeOK
  <2> SUFFICES ASSUME IInv PROVE TypeOK
    OBVIOUS
  <2>1. list \in Seq(NodesOf(AllOps)) /\ DOMAIN list = 1 .. Len(list)
    BY DEF IInv, Framed
  <2>2. ASSUME NEW n \in DOMAIN list
        PROVE  list[n] = Sentinel \/
                 /\ list[n].op \in {"nothing", "addr", "command", "config", "wait", "goto", "zero"}
                 /\ list[n].port \in Ports \cup {0} /\ list[n].sub \in 0 .. 2 /\ list[n].data \in Nat
    <3>1. list[n] \in NodesOf(AllOps)
      <4> DEFINE S == NodesOf(AllOps)
      <4>1. list \in Seq(S)
        BY <2>1
      <4> HIDE DEF S
      <4>2. list[n] \in S
        BY <2>1, <4>1
      <4> QED BY <4>2 DEF S
    <3> QED BY <3>1 DEF NodesOf, Instruction, AllOps, Written
  <2>3. /\ phase \in {"build", "optimise", "align", "done"}
        /\ cursor \in 1 .. Len(list) + 1 /\ curPage \in Nat /\ actions \in 0 .. MaxActions
        /\ phase = "align" => list[cursor] = Sentinel
    BY DEF IInv, Bounds
  <2> QED BY <2>2, <2>3 DEF TypeOK
<1> QED BY <1>1, InvariantHolds, PTL

\* Padding is never executed: in what Linker:dump makes of any program, whatever the
\* page size, every goto leads to the first instruction of the process behind its zeros.
THEOREM PaddingSkipped == Spec => []PaddingJumped
<1>1. IInv => PaddingJumped
  BY DEF IInv
<1> QED BY <1>1, InvariantHolds, PTL

\* No process that fits into a page of the instruction cache lies across the end of one.
THEOREM ProcessesInPages == Spec => []ProcessInPage
<1>1. IInv => ProcessInPage
  BY DEF IInv
<1> QED BY <1>1, InvariantHolds, PTL
=============================================================================
