------------------------- MODULE NeuFlowLinkerSeen -------------------------
(***************************************************************************)
(* More about packages/NeuFlow/Linker.lua: no port sees a difference       *)
(* between the list the compiler hands over and what Linker:dump makes of  *)
(* it.  The lists of all programs have a Structure, which every step of    *)
(* cacheConfigOptimization keeps; a step moves a piece of such a list      *)
(* (Moved), and both lists do the same to every port (MoveSeen).  Padding  *)
(* and the targets of gotos are nothing to a port.                         *)
(***************************************************************************)
EXTENDS NeuFlowLinkerProofs

-----------------------------------------------------------------------------
(* The streamer, over a list of instructions.                              *)

\* Counting up from a.
LEMMA Climb ==
  ASSUME NEW a \in Nat, NEW b \in Nat, NEW G, a \in G,
         \A k \in a .. b - 1 : k \in G => k + 1 \in G
  PROVE  \A k \in a .. b : k \in G
<1> SUFFICES ASSUME NEW k \in a .. b, k \notin G PROVE FALSE
  OBVIOUS
<1> DEFINE T == {j \in a .. b : j \notin G}
<1>1. T \in SUBSET Nat /\ T # {}
  OBVIOUS
<1>2. PICK m \in T : \A j \in T : m <= j
  BY <1>1, Least
<1>3. m \in a .. b /\ m # a /\ m \notin G
  OBVIOUS
<1>4. m - 1 \in a .. b - 1 /\ m - 1 \notin T /\ (m - 1) + 1 = m
  BY <1>2, <1>3
<1>5. m - 1 \in G
  BY <1>4
<1> QED BY <1>3, <1>4, <1>5

\* The states the streamer goes through exist, one after every node.
LEMMA AfterIs ==
  ASSUME NEW l, Len(l) \in Nat
  PROVE  /\ After(l)[0] = Streamer0
         /\ \A k \in 1 .. Len(l) : After(l)[k] = Execute(After(l)[k - 1], l[k])
<1> DEFINE Next0(g, k) == IF k = 0 THEN Streamer0 ELSE Execute(g[k - 1], l[k])
           Follows(g, n) == g = [k \in 0 .. n |-> Next0(g, k)]
           G == {n \in Nat : \E g : Follows(g, n)}
<1>1. 0 \in G
  <2> DEFINE g == [k \in 0 .. 0 |-> Streamer0]
  <2>1. Follows(g, 0)
    OBVIOUS
  <2> QED BY <2>1
<1>2. ASSUME NEW n \in Nat, n \in G PROVE n + 1 \in G
  <2>1. PICK g : Follows(g, n)
    BY <1>2
  <2> DEFINE h == [k \in 0 .. n + 1 |-> IF k = n + 1 THEN Execute(g[n], l[n + 1]) ELSE g[k]]
             i == [k \in 0 .. n + 1 |-> Next0(h, k)]
  <2>2. ASSUME NEW k \in 0 .. n + 1 PROVE h[k] = Next0(h, k)
    <3>1. CASE k = 0
      <4>1. 0 \in 0 .. n /\ 0 # n + 1
        OBVIOUS
      <4>2. g[0] = Streamer0
        BY <2>1, <4>1
      <4> QED BY <3>1, <4>1, <4>2
    <3>2. CASE k = n + 1
      <4>1. h[n] = g[n] /\ n + 1 # 0 /\ (n + 1) - 1 = n
        OBVIOUS
      <4>2. h[n + 1] = Execute(g[n], l[n + 1])
        OBVIOUS
      <4> QED BY <3>2, <4>1, <4>2
    <3>3. CASE k \in 1 .. n
      <4>1. /\ k - 1 \in 0 .. n + 1 /\ k - 1 # n + 1 /\ k # n + 1 /\ k # 0
            /\ k \in 0 .. n
        BY <3>3
      <4>2. g[k] = Execute(g[k - 1], l[k])
        BY <4>1, <2>1
      <4>3. h[k - 1] = g[k - 1] /\ h[k] = g[k]
        BY <4>1
      <4> QED BY <4>1, <4>2, <4>3
    <3> QED BY <3>1, <3>2, <3>3
  <2>3. h = i
    <3> HIDE DEF Next0
    <3> QED BY <2>2
  <2>4. Follows(h, n + 1)
    BY <2>3
  <2>5. n + 1 \in Nat
    OBVIOUS
  <2> HIDE DEF Follows
  <2>6. \E f : Follows(f, n + 1)
    BY <2>4
  <2> QED BY <2>5, <2>6
<1>3. Len(l) \in G
  <2> HIDE DEF G
  <2>1. \A k \in 0 .. Len(l) - 1 : k \in G => k + 1 \in G
    BY <1>2
  <2>2. \A k \in 0 .. Len(l) : k \in G
    BY <1>1, <2>1, Climb
  <2> QED BY <2>2
<1>4. PICK g : Follows(g, Len(l))
  BY <1>3
<1>5. After(l) = CHOOSE after : Follows(after, Len(l))
  BY DEF After
<1>6. Follows(After(l), Len(l))
  BY <1>4, <1>5
<1>7. ASSUME NEW k \in 0 .. Len(l) PROVE After(l)[k] = Next0(After(l), k)
  BY <1>6
<1>8. 0 \in 0 .. Len(l)
  OBVIOUS
<1>9. After(l)[0] = Streamer0
  BY <1>7, <1>8
<1>10. ASSUME NEW k \in 1 .. Len(l) PROVE After(l)[k] = Execute(After(l)[k - 1], l[k])
  <2>1. k \in 0 .. Len(l) /\ k # 0
    OBVIOUS
  <2> QED BY <1>7, <2>1
<1> QED BY <1>9, <1>10

\* The streamer does not look ahead.
LEMMA AfterPrefix ==
  ASSUME NEW l, NEW m, Len(l) \in Nat, Len(m) \in Nat,
         NEW n \in 0 .. Len(l), n <= Len(m), \A k \in 1 .. n : l[k] = m[k]
  PROVE  \A k \in 0 .. n : After(l)[k] = After(m)[k]
<1> DEFINE G == {k \in 0 .. n : After(l)[k] = After(m)[k]}
<1>1. 0 \in G
  BY AfterIs
<1>2. ASSUME NEW k \in 0 .. n - 1, k \in G PROVE k + 1 \in G
  <2>1. k + 1 \in 1 .. n /\ k + 1 \in 1 .. Len(l) /\ k + 1 \in 1 .. Len(m) /\ (k + 1) - 1 = k
    OBVIOUS
  <2>2. After(l)[k + 1] = Execute(After(l)[k], l[k + 1])
    BY <2>1, AfterIs
  <2>3. After(m)[k + 1] = Execute(After(m)[k], m[k + 1])
    BY <2>1, AfterIs
  <2> QED BY <1>2, <2>1, <2>2, <2>3
<1>3. n \in Nat /\ 0 \in Nat
  OBVIOUS
<1> HIDE DEF G
<1>4. \A k \in 0 .. n : k \in G
  BY <1>1, <1>2, <1>3, Climb
<1> QED BY <1>4 DEF G

\* From the same state over the same nodes.
LEMMA AfterShift ==
  ASSUME NEW l, NEW m, Len(l) \in Nat, Len(m) \in Nat,
         NEW a \in 0 .. Len(l), NEW p \in Nat, Len(m) = Len(l) + p,
         After(l)[a] = After(m)[a + p], \A k \in a + 1 .. Len(l) : l[k] = m[k + p]
  PROVE  \A k \in a .. Len(l) : After(l)[k] = After(m)[k + p]
<1> DEFINE G == {k \in a .. Len(l) : After(l)[k] = After(m)[k + p]}
<1>1. a \in G
  OBVIOUS
<1>2. ASSUME NEW k \in a .. Len(l) - 1, k \in G PROVE k + 1 \in G
  <2>1. /\ k + 1 \in a + 1 .. Len(l) /\ k + 1 \in 1 .. Len(l) /\ (k + 1) + p \in 1 .. Len(m)
        /\ (k + 1) - 1 = k /\ ((k + 1) + p) - 1 = k + p
    OBVIOUS
  <2>2. After(l)[k + 1] = Execute(After(l)[k], l[k + 1])
    BY <2>1, AfterIs
  <2>3. After(m)[(k + 1) + p] = Execute(After(m)[k + p], m[(k + 1) + p])
    BY <2>1, AfterIs
  <2> QED BY <1>2, <2>1, <2>2, <2>3
<1>3. a \in Nat
  OBVIOUS
<1> HIDE DEF G
<1>4. \A k \in a .. Len(l) : k \in G
  BY <1>1, <1>2, <1>3, Climb
<1> QED BY <1>4 DEF G

\* What the streamer takes no notice of.
LEMMA Ignored ==
  ASSUME NEW s, NEW n, n.op \in {"sentinel", "nothing", "zero", "goto"}
  PROVE  Execute(s, n) = s
<1>1. n.op # "addr" /\ (s.port = 0 \/ n.op \in {"sentinel", "nothing", "zero", "goto"})
  OBVIOUS
<1> QED BY <1>1 DEF Execute

\* Seen is what the streamer has in the end.
LEMMA SeenIs ==
  ASSUME NEW l, NEW m, After(l)[Len(l)] = After(m)[Len(m)]
  PROVE  Seen(l) = Seen(m)
BY DEF Seen, Streamer

\* Padding in front of the c-th node is not seen.
LEMMA PaddingUnseen ==
  ASSUME NEW l, NEW u, NEW p \in Nat, Len(l) \in Nat, Len(u) = Len(l) + p,
         NEW c \in 1 .. Len(l),
         \A k \in 1 .. c - 1 : u[k] = l[k],
         \A k \in c .. c + p - 1 : u[k].op \in {"goto", "zero"},
         \A k \in c .. Len(l) : u[k + p] = l[k]
  PROVE  Seen(u) = Seen(l)
<1>0. Len(u) \in Nat /\ c \in Nat /\ c - 1 \in 0 .. Len(l) /\ c - 1 <= Len(u) /\ c - 1 \in Nat
  OBVIOUS
<1>1. After(u)[c - 1] = After(l)[c - 1]
  <2>1. \A k \in 1 .. c - 1 : l[k] = u[k]
    OBVIOUS
  <2>2. \A k \in 0 .. c - 1 : After(l)[k] = After(u)[k]
    BY <1>0, <2>1, AfterPrefix
  <2>3. c - 1 \in 0 .. c - 1
    BY <1>0
  <2> QED BY <2>2, <2>3
<1> DEFINE G == {k \in c - 1 .. c + p - 1 : After(u)[k] = After(u)[c - 1]}
           b == c + p - 1
<1>2. b \in Nat /\ c - 1 \in c - 1 .. b /\ b \in c - 1 .. b
  BY <1>0
<1>3. c - 1 \in G
  BY <1>2
<1>4. ASSUME NEW k \in c - 1 .. b - 1, k \in G PROVE k + 1 \in G
  <2>1. /\ k + 1 \in c .. c + p - 1 /\ k + 1 \in 1 .. Len(u) /\ (k + 1) - 1 = k
        /\ k + 1 \in c - 1 .. c + p - 1
    BY <1>0
  <2>2. After(u)[k + 1] = Execute(After(u)[k], u[k + 1])
    BY <1>0, <2>1, AfterIs
  <2>3. u[k + 1].op \in {"sentinel", "nothing", "zero", "goto"}
    BY <2>1
  <2>4. After(u)[k + 1] = After(u)[k]
    BY <2>2, <2>3, Ignored
  <2> QED BY <1>4, <2>1, <2>4
<1>5. After(u)[b] = After(u)[c - 1]
  <2> HIDE DEF G, b
  <2>1. \A k \in c - 1 .. b : k \in G
    BY <1>0, <1>2, <1>3, <1>4, Climb
  <2>2. b \in G
    BY <1>2, <2>1
  <2> QED BY <2>2 DEF G, b
<1>6. \A k \in (c - 1) + 1 .. Len(l) : l[k] = u[k + p]
  BY <1>0
<1>7. b = (c - 1) + p
  BY <1>0
<1>8. After(l)[c - 1] = After(u)[(c - 1) + p]
  BY <1>1, <1>5, <1>7
<1>9. \A k \in c - 1 .. Len(l) : After(l)[k] = After(u)[k + p]
  <2> DEFINE a == c - 1
  <2>1. /\ a \in 0 .. Len(l) /\ After(l)[a] = After(u)[a + p]
        /\ \A k \in a + 1 .. Len(l) : l[k] = u[k + p]
    BY <1>0, <1>6, <1>8
  <2> HIDE DEF a
  <2>2. \A k \in a .. Len(l) : After(l)[k] = After(u)[k + p]
    <3>1. Len(l) \in Nat /\ Len(u) \in Nat /\ Len(u) = Len(l) + p /\ p \in Nat
      BY <1>0
    <3>2. a \in 0 .. Len(l)
      BY <2>1
    <3>3. After(l)[a] = After(u)[a + p]
      BY <2>1
    <3>4. \A k \in a + 1 .. Len(l) : l[k] = u[k + p]
      BY <2>1
    <3> HIDE DEF G, b
    <3> QED BY ONLY <3>1, <3>2, <3>3, <3>4, AfterShift, SMTT(60)
  <2> QED BY <2>2 DEF a
<1>10. After(l)[Len(l)] = After(u)[Len(u)]
  <2>1. Len(l) \in c - 1 .. Len(l)
    BY <1>0
  <2> QED BY <1>9, <2>1
<1> QED BY <1>10, SeenIs

\* The alignment is not seen.
LEMMA AlignUnseen ==
  ASSUME ListInv, phase = "align", NEW m \in cursor + 2 .. Len(list), NEW p \in Nat, Aligned(m, p)
  PROVE  Seen(list') = Seen(list)
<1>1. cursor \in 2 .. Len(list) /\ Len(list) \in Nat /\ cursor \in 1 .. Len(list)
  BY DEF ListInv, Framed, Bounds
<1>2. /\ Len(list') = Len(list) + p
      /\ \A k \in 1 .. cursor - 1 : list'[k] = list[k]
      /\ p > 0 => list'[cursor].op = "goto"
      /\ \A k \in cursor + 1 .. cursor + p - 1 : list'[k].op = "zero"
      /\ \A k \in cursor .. Len(list) : list'[k + p] = list[k]
  BY DEF Aligned
<1>3. ASSUME NEW k \in cursor .. cursor + p - 1 PROVE list'[k].op \in {"goto", "zero"}
  <2>1. p > 0 /\ (k = cursor \/ k \in cursor + 1 .. cursor + p - 1)
    BY <1>1
  <2> QED BY <1>2, <2>1
<1> QED BY <1>1, <1>2, <1>3, PaddingUnseen

\* Nor is what becomes of the gotos.
LEMMA ResolveUnseen ==
  ASSUME ListInv, Jumps, ResolveGotos
  PROVE  Seen(list') = Seen(list)
<1>1. Len(list') = Len(list) /\ Len(list) \in Nat
  BY ResolvedNodes DEF ListInv, Framed
<1>2. ASSUME NEW k \in 1 .. Len(list)
      PROVE  list'[k] = list[k] \/ (list'[k].op = "goto" /\ list[k].op = "goto")
  <2>1. list'[k].op = list[k].op
    BY ResolvedNodes
  <2>2. CASE list[k].op # "goto"
    BY <2>2 DEF ResolveGotos
  <2> QED BY <2>1, <2>2
<1> DEFINE G == {k \in 0 .. Len(list) : After(list')[k] = After(list)[k]}
<1>3. 0 \in G
  BY <1>1, AfterIs
<1>4. ASSUME NEW k \in 0 .. Len(list) - 1, k \in G PROVE k + 1 \in G
  <2>1. k + 1 \in 1 .. Len(list) /\ (k + 1) - 1 = k /\ k + 1 \in 0 .. Len(list)
    BY <1>1
  <2>2. /\ After(list)[k + 1] = Execute(After(list)[k], list[k + 1])
        /\ After(list')[k + 1] = Execute(After(list')[k], list'[k + 1])
    BY <1>1, <2>1, AfterIs
  <2>3. CASE list'[k + 1] = list[k + 1]
    BY <1>4, <2>1, <2>2, <2>3
  <2>4. CASE list'[k + 1].op = "goto" /\ list[k + 1].op = "goto"
    <3>1. /\ Execute(After(list)[k], list[k + 1]) = After(list)[k]
          /\ Execute(After(list')[k], list'[k + 1]) = After(list')[k]
      BY <2>4, Ignored
    <3> QED BY <1>4, <2>1, <2>2, <3>1
  <2> QED BY <1>2, <2>1, <2>3, <2>4
<1>5. After(list')[Len(list')] = After(list)[Len(list)]
  <2> HIDE DEF G
  <2>1. \A k \in 0 .. Len(list) : k \in G
    BY <1>1, <1>3, <1>4, Climb
  <2>2. Len(list) \in 0 .. Len(list)
    BY <1>1
  <2>3. Len(list) \in G
    BY <2>1, <2>2
  <2> QED BY <1>1, <2>3 DEF G
<1> QED BY <1>5, SeenIs

-----------------------------------------------------------------------------
(* What an instruction does to the state of the streamer.                  *)

\* What a port can be seen to get, and the states of the streamer.
Events == {<<"config", s, d>> : s \in 0 .. 2, d \in Nat} \cup {<<"wait", w>> : w \in Names}
            \cup {<<"deActivate">>} \cup {<<c, b>> : c \in Names, b \in BOOLEAN}
States == [port : Ports \cup {0}, sub : 0 .. 2, open : SUBSET Ports,
           cache : [Ports -> Seq(Events)], seen : [Ports -> Seq(Events)]]

\* The commands there are.
Commands == {"activate", "prefetch", "deActivate", "reset", "cacheStart", "cacheFinish"}

\* Another event of a port.
LEMMA EventAdded ==
  ASSUME NEW h \in [Ports -> Seq(Events)], NEW p \in Ports, NEW e \in Events
  PROVE  [h EXCEPT ![p] = Append(h[p], e)] \in [Ports -> Seq(Events)]
<1> HIDE DEF Events
<1>1. h[p] \in Seq(Events)
  OBVIOUS
<1>2. Append(h[p], e) \in Seq(Events)
  BY <1>1
<1> QED BY <1>2

\* The parts of a state, and that they make it.
LEMMA StateParts ==
  ASSUME NEW s \in States
  PROVE  /\ s.port \in Ports \cup {0} /\ s.sub \in 0 .. 2 /\ s.open \subseteq Ports
         /\ s.cache \in [Ports -> Seq(Events)] /\ s.seen \in [Ports -> Seq(Events)]
         /\ s = [port |-> s.port, sub |-> s.sub, open |-> s.open, cache |-> s.cache,
                 seen |-> s.seen]
<1> HIDE DEF Events
<1> QED BY DEF States

\* States with the same parts are the same.
LEMMA StatesEqual ==
  ASSUME NEW s \in States, NEW t \in States,
         s.port = t.port, s.sub = t.sub, s.open = t.open, s.cache = t.cache, s.seen = t.seen
  PROVE  s = t
BY StateParts, Zenon

\* In the beginning.
LEMMA StartState == Streamer0 \in States
<1> HIDE DEF Events
<1>1. <<>> \in Seq(Events)
  OBVIOUS
<1>2. [p \in Ports |-> <<>>] \in [Ports -> Seq(Events)]
  BY <1>1
<1>3. 0 \in Ports \cup {0} /\ 0 \in 0 .. 2 /\ {} \in SUBSET Ports
  OBVIOUS
<1> QED BY <1>2, <1>3 DEF Streamer0, States

\* What nodes can be.
LEMMA NodeParts ==
  ASSUME NEW n \in Plain
  PROVE  /\ n.op \in {"sentinel", "nothing", "addr", "command", "config", "wait"}
         /\ n.port \in Ports \cup {0} /\ n.sub \in 0 .. 2 /\ n.data \in Nat /\ n.what \in Names
<1>1. Written \subseteq AllOps /\ n \in NodesOf(Written)
  BY DEF AllOps, Plain
<1>2. n.op \in Written \cup {"sentinel"} /\ n.port \in Ports \cup {0} /\ n.sub \in 0 .. 2 /\ n.data \in Nat
  BY <1>1, NodeShape
<1>3. n.what \in Names
  <2>1. CASE n = Sentinel
    BY <2>1 DEF Sentinel, Node, Names
  <2>2. CASE n \in Instruction(Written)
    <3> DEFINE N == Names
    <3> HIDE DEF N
    <3>1. n.what \in N
      BY <2>2 DEF Instruction, N
    <3> QED BY <3>1 DEF N
  <2> QED BY <2>1, <2>2 DEF Plain, NodesOf
<1> QED BY <1>2, <1>3 DEF Written

\* An address.
LEMMA ExecuteAddr ==
  ASSUME NEW s \in States, NEW n \in Plain, n.op = "addr"
  PROVE  /\ Execute(s, n) \in States
         /\ Execute(s, n).port = n.port /\ Execute(s, n).sub = n.sub
         /\ Execute(s, n).open = s.open /\ Execute(s, n).cache = s.cache
         /\ Execute(s, n).seen = s.seen
<1> HIDE DEF Events
<1>1. n.port \in Ports \cup {0} /\ n.sub \in 0 .. 2
  BY NodeParts
<1>2. Execute(s, n) = [s EXCEPT !.port = n.port, !.sub = n.sub]
  BY DEF Execute
<1> QED BY <1>1, <1>2 DEF States

\* Nothing.
LEMMA ExecuteStill ==
  ASSUME NEW s \in States, NEW n \in Plain,
         s.port = 0 \/ n.op \in {"sentinel", "nothing"}, n.op # "addr"
  PROVE  Execute(s, n) = s
BY DEF Execute

\* A configuration.
LEMMA ExecuteConfig ==
  ASSUME NEW s \in States, NEW n \in Plain, s.port # 0, n.op = "config"
  PROVE  /\ s.port \in s.open =>
              Execute(s, n) = [s EXCEPT !.cache = [s.cache EXCEPT ![s.port] =
                Append(s.cache[s.port], <<"config", s.sub, n.data>>)]]
         /\ s.port \notin s.open =>
              Execute(s, n) = [s EXCEPT !.seen = [s.seen EXCEPT ![s.port] =
                Append(s.seen[s.port], <<"config", s.sub, n.data>>)]]
         /\ <<"config", s.sub, n.data>> \in Events
         /\ Execute(s, n) \in States
<1> DEFINE e == <<"config", s.sub, n.data>>
           p == s.port
           C == [s.cache EXCEPT ![p] = Append(s.cache[p], e)]
           H == [s.seen EXCEPT ![p] = Append(s.seen[p], e)]
<1>1. s.sub \in 0 .. 2 /\ n.data \in Nat /\ p \in Ports
  BY StateParts, NodeParts
<1>2. e \in Events
  BY <1>1 DEF Events
<1>3. s.cache \in [Ports -> Seq(Events)] /\ s.seen \in [Ports -> Seq(Events)]
  BY StateParts
<1>4. C \in [Ports -> Seq(Events)] /\ H \in [Ports -> Seq(Events)]
  <2> HIDE DEF e, p
  <2> QED BY <1>1, <1>2, <1>3, EventAdded
<1>5. p \in s.open => Execute(s, n) = [s EXCEPT !.cache = C]
  BY DEF Execute
<1>6. p \notin s.open => Execute(s, n) = [s EXCEPT !.seen = H]
  BY DEF Execute, See
<1> HIDE DEF C, H
<1>7. [s EXCEPT !.cache = C] \in States /\ [s EXCEPT !.seen = H] \in States
  <2> HIDE DEF Events
  <2> QED BY <1>4 DEF States
<1>8. Execute(s, n) \in States
  BY <1>5, <1>6, <1>7
<1> QED BY <1>2, <1>5, <1>6, <1>8 DEF C, H, p, e

\* What a port sees of an instruction: a poll, a command.
SeesIt(s, n, event) == event \in Events /\ Execute(s, n) \in States
  /\ Execute(s, n) = [s EXCEPT !.seen = [s.seen EXCEPT ![s.port] = Append(s.seen[s.port], event)]]

\* It sees what See adds.
LEMMA ExecuteSeen ==
  ASSUME NEW s \in States, s.port # 0, NEW n, NEW event \in Events, Execute(s, n) = See(s, s.port, event)
  PROVE  SeesIt(s, n, event)
<1> DEFINE p == s.port
           H == [s.seen EXCEPT ![p] = Append(s.seen[p], event)]
<1>1. p \in Ports /\ s.seen \in [Ports -> Seq(Events)]
  BY StateParts
<1>2. H \in [Ports -> Seq(Events)]
  <2> HIDE DEF p
  <2> QED BY <1>1, EventAdded
<1>3. See(s, s.port, event) = [s EXCEPT !.seen = H]
  BY DEF See
<1> HIDE DEF H
<1>4. [s EXCEPT !.seen = H] \in States
  <2> HIDE DEF Events
  <2> QED BY <1>2 DEF States
<1>5. Execute(s, n) = [s EXCEPT !.seen = H] /\ Execute(s, n) \in States
  BY <1>3, <1>4
<1> QED BY <1>5 DEF H, p, SeesIt

\* A wait.
LEMMA ExecuteWait ==
  ASSUME NEW s \in States, NEW n \in Plain, s.port # 0, n.op = "wait"
  PROVE  SeesIt(s, n, <<"wait", n.what>>)
<1>1. <<"wait", n.what>> \in Events
  BY NodeParts DEF Events
<1>2. Execute(s, n) = See(s, s.port, <<"wait", n.what>>)
  BY DEF Execute
<1> QED BY <1>1, <1>2, ExecuteSeen

\* A port is stopped, or started, fetched or reset.
LEMMA ExecuteCommand ==
  ASSUME NEW s \in States, NEW n \in Plain, s.port # 0, n.op = "command"
  PROVE  /\ n.what = "deActivate" => SeesIt(s, n, <<n.what>>)
         /\ n.what \in {"reset", "prefetch", "activate"} => SeesIt(s, n, <<n.what, s.port \in s.open>>)
<1>1. n.what = "deActivate" => SeesIt(s, n, <<n.what>>)
  <2>1. <<"deActivate">> \in Events
    BY DEF Events
  <2>2. n.what = "deActivate" => Execute(s, n) = See(s, s.port, <<n.what>>)
    BY DEF Execute
  <2> QED BY <2>1, <2>2, ExecuteSeen
<1>2. n.what \in {"reset", "prefetch", "activate"} => SeesIt(s, n, <<n.what, s.port \in s.open>>)
  <2>1. (s.port \in s.open) \in BOOLEAN
    OBVIOUS
  <2>2. <<n.what, s.port \in s.open>> \in Events
    <3> DEFINE b == s.port \in s.open
               c == n.what
               N == Names
               E == {<<x, y>> : x \in N, y \in BOOLEAN}
    <3>1. b \in BOOLEAN /\ c \in N
      BY <2>1, NodeParts
    <3> HIDE DEF b, c, N
    <3>2. <<c, b>> \in E
      BY <3>1
    <3>3. E \subseteq Events
      <4> HIDE DEF E
      <4>1. Events = {<<"config", x, d>> : x \in 0 .. 2, d \in Nat} \cup {<<"wait", w>> : w \in Names}
            \cup {<<"deActivate">>} \cup E
        BY DEF Events, E, N
      <4> QED BY <4>1
    <3> HIDE DEF E
    <3> QED BY <3>2, <3>3 DEF b, c
  <2>3. n.what \in {"reset", "prefetch", "activate"} =>
          Execute(s, n) = See(s, s.port, <<n.what, s.port \in s.open>>)
    BY DEF Execute
  <2> QED BY <2>2, <2>3, ExecuteSeen
<1> QED BY <1>1, <1>2

\* The cache of a port is opened.
LEMMA ExecuteStart ==
  ASSUME NEW s \in States, NEW n \in Plain, s.port # 0, n.op = "command", n.what = "cacheStart"
  PROVE  /\ Execute(s, n) \in States
         /\ Execute(s, n) = [s EXCEPT !.open = s.open \cup {s.port}]
<1>1. s.port \in Ports /\ s.open \subseteq Ports
  BY StateParts
<1>2. Execute(s, n) = [s EXCEPT !.open = s.open \cup {s.port}]
  BY DEF Execute
<1> HIDE DEF Events
<1> QED BY <1>1, <1>2, ZenonT(30) DEF States

\* It is closed, and the port gets what is in it.
LEMMA ExecuteFinish ==
  ASSUME NEW s \in States, NEW n \in Plain, s.port # 0, n.op = "command", n.what = "cacheFinish"
  PROVE  /\ Execute(s, n) \in States
         /\ Execute(s, n) = [s EXCEPT !.open = s.open \ {s.port},
              !.cache = [s.cache EXCEPT ![s.port] = <<>>],
              !.seen = [s.seen EXCEPT ![s.port] = s.seen[s.port] \o s.cache[s.port]]]
<1> DEFINE p == s.port
           C == [s.cache EXCEPT ![p] = <<>>]
           H == [s.seen EXCEPT ![p] = s.seen[p] \o s.cache[p]]
           O == s.open \ {p}
<1>1. p \in Ports /\ s.open \subseteq Ports
      /\ s.cache \in [Ports -> Seq(Events)] /\ s.seen \in [Ports -> Seq(Events)]
  BY StateParts
<1>2. C \in [Ports -> Seq(Events)] /\ H \in [Ports -> Seq(Events)] /\ O \in SUBSET Ports
  <2> HIDE DEF Events, p
  <2>1. <<>> \in Seq(Events)
    OBVIOUS
  <2>2. s.seen[p] \in Seq(Events) /\ s.cache[p] \in Seq(Events)
    BY <1>1
  <2>3. s.seen[p] \o s.cache[p] \in Seq(Events)
    BY <2>2
  <2> QED BY <1>1, <2>1, <2>3
<1>3. Execute(s, n) = [s EXCEPT !.open = O, !.cache = C, !.seen = H]
  BY DEF Execute
<1> HIDE DEF C, H, O
<1>4. [s EXCEPT !.open = O, !.cache = C, !.seen = H] \in States
  <2> HIDE DEF Events
  <2> QED BY <1>2 DEF States
<1>5. Execute(s, n) \in States
  BY <1>3, <1>4
<1> QED BY <1>3, <1>5 DEF C, H, O, p

\* A list without padding, of commands the streamer knows.
IsCommand(n, S) == n.op = "command" /\ n.what \in S
Listing(l) == l \in Seq(Plain) /\ \A k \in 1 .. Len(l) : l[k].op = "command" => l[k].what \in Commands

\* The port, and the submodule, that is addressed after the k-th node.
Port(l, k) == After(l)[k].port
Sub(l, k) == After(l)[k].sub

\* A state stays one, only an address changes which port is addressed, only
\* cacheStart and cacheFinish open and close a port's cache, and a closed one is empty.
Emptied(s) == \A q \in Ports : q \notin s.open => s.cache[q] = <<>>

Keeps(s, n, t) ==
  /\ t \in States
  /\ n.op = "addr" => t.port = n.port /\ t.sub = n.sub
  /\ n.op # "addr" => t.port = s.port /\ t.sub = s.sub
  /\ n.op # "command" => t.open = s.open
  /\ \A q \in t.open : q \in s.open \/ (IsCommand(n, {"cacheStart"}) /\ s.port = q)
  /\ IsCommand(n, {"cacheFinish"}) => s.port \notin t.open
  /\ Emptied(s) => Emptied(t)

\* Every instruction keeps that.
LEMMA ExecuteKeeps ==
  ASSUME NEW s \in States, NEW n \in Plain, n.op = "command" => n.what \in Commands
  PROVE  Keeps(s, n, Execute(s, n))
<1> DEFINE t == Execute(s, n)
<1>0. /\ s.port \in Ports \cup {0} /\ s.open \subseteq Ports
      /\ s.cache \in [Ports -> Seq(Events)] /\ s.seen \in [Ports -> Seq(Events)]
      /\ s = [port |-> s.port, sub |-> s.sub, open |-> s.open, cache |-> s.cache, seen |-> s.seen]
  BY StateParts
<1>1. n.op \in {"sentinel", "nothing", "addr", "command", "config", "wait"}
  BY NodeParts
<1>z. 0 \notin Ports
  BY PortsAssumption
<1>2. CASE n.op = "addr"
  <2> SUFFICES Keeps(s, n, t)
    OBVIOUS
  <2>1. /\ t \in States /\ t.port = n.port /\ t.sub = n.sub /\ t.open = s.open /\ t.cache = s.cache
    BY <1>2, ExecuteAddr
  <2> HIDE DEF t
  <2> QED BY <1>2, <2>1 DEF Keeps, Emptied, IsCommand
<1>3. CASE n.op # "addr" /\ (s.port = 0 \/ n.op \in {"sentinel", "nothing"})
  <2> SUFFICES Keeps(s, n, t)
    OBVIOUS
  <2>1. t = s
    BY <1>3, ExecuteStill
  <2> HIDE DEF t
  <2> QED BY <1>0, <1>3, <1>z, <2>1 DEF Keeps, Emptied, IsCommand
<1>4. CASE s.port # 0 /\ n.op = "config"
  <2> SUFFICES Keeps(s, n, t)
    OBVIOUS
  <2> DEFINE C == [s.cache EXCEPT ![s.port] = Append(s.cache[s.port], <<"config", s.sub, n.data>>)]
             H == [s.seen EXCEPT ![s.port] = Append(s.seen[s.port], <<"config", s.sub, n.data>>)]
  <2>1. /\ t \in States
        /\ s.port \in s.open => t = [s EXCEPT !.cache = C]
        /\ s.port \notin s.open => t = [s EXCEPT !.seen = H]
    BY <1>4, ExecuteConfig
  <2>2. \A q \in Ports : q # s.port => C[q] = s.cache[q]
    BY <1>0
  <2> HIDE DEF t, C, H
  <2>3. CASE s.port \in s.open
    <3>1. t.port = s.port /\ t.sub = s.sub /\ t.open = s.open /\ t.cache = C
      BY <1>0, <2>1, <2>3
    <3> QED BY <1>0, <1>4, <2>1, <2>2, <2>3, <3>1 DEF Keeps, Emptied, IsCommand
  <2>4. CASE s.port \notin s.open
    <3>1. t.port = s.port /\ t.sub = s.sub /\ t.open = s.open /\ t.cache = s.cache
      BY <1>0, <2>1, <2>4
    <3> QED BY <1>4, <2>1, <3>1 DEF Keeps, Emptied, IsCommand
  <2> QED BY <2>3, <2>4
<1>5. ASSUME s.port # 0, NEW e, SeesIt(s, n, e), n.op # "addr", ~IsCommand(n, {"cacheFinish"})
      PROVE  /\ t \in States /\ t.port = s.port /\ t.sub = s.sub /\ t.open = s.open
             /\ t.cache = s.cache
  <2> DEFINE H == [s.seen EXCEPT ![s.port] = Append(s.seen[s.port], e)]
  <2>1. t \in States /\ t = [s EXCEPT !.seen = H]
    BY <1>5 DEF SeesIt
  <2> HIDE DEF t, H
  <2> QED BY <1>0, <2>1
<1>6. CASE s.port # 0 /\ n.op = "wait"
  <2> SUFFICES Keeps(s, n, t)
    OBVIOUS
  <2>1. SeesIt(s, n, <<"wait", n.what>>)
    BY <1>6, ExecuteWait
  <2>2. n.op # "addr" /\ n.op # "command"
    BY <1>6
  <2>3. /\ t \in States /\ t.port = s.port /\ t.sub = s.sub /\ t.open = s.open /\ t.cache = s.cache
    BY <1>5, <1>6, <2>1, <2>2 DEF IsCommand
  <2> HIDE DEF t
  <2> QED BY <2>2, <2>3 DEF Keeps, Emptied, IsCommand
<1>7. CASE s.port # 0 /\ n.op = "command" /\ n.what \notin {"cacheStart", "cacheFinish"}
  <2> SUFFICES Keeps(s, n, t)
    OBVIOUS
  <2>1. \E e : SeesIt(s, n, e)
    BY <1>7, ExecuteCommand DEF Commands
  <2>2. n.op # "addr" /\ ~IsCommand(n, {"cacheFinish"})
    BY <1>7 DEF IsCommand
  <2>3. /\ t \in States /\ t.port = s.port /\ t.sub = s.sub /\ t.open = s.open /\ t.cache = s.cache
    BY <1>5, <1>7, <2>1, <2>2
  <2> HIDE DEF t
  <2> QED BY <1>7, <2>2, <2>3 DEF Keeps, Emptied
<1>8. CASE s.port # 0 /\ n.op = "command" /\ n.what = "cacheStart"
  <2> SUFFICES Keeps(s, n, t)
    OBVIOUS
  <2> DEFINE O == s.open \cup {s.port}
  <2>1. t \in States /\ t = [s EXCEPT !.open = O]
    BY <1>8, ExecuteStart
  <2> HIDE DEF t, O
  <2>2. t.port = s.port /\ t.sub = s.sub /\ t.open = O /\ t.cache = s.cache
    BY <1>0, <2>1
  <2> QED BY <1>8, <2>1, <2>2 DEF Keeps, Emptied, IsCommand, O
<1>9. CASE s.port # 0 /\ n.op = "command" /\ n.what = "cacheFinish"
  <2> SUFFICES Keeps(s, n, t)
    OBVIOUS
  <2> DEFINE C == [s.cache EXCEPT ![s.port] = <<>>]
             H == [s.seen EXCEPT ![s.port] = s.seen[s.port] \o s.cache[s.port]]
             O == s.open \ {s.port}
  <2>1. t \in States /\ t = [s EXCEPT !.open = O, !.cache = C, !.seen = H]
    BY <1>9, ExecuteFinish
  <2>2. \A q \in Ports : C[q] = IF q = s.port THEN <<>> ELSE s.cache[q]
    BY <1>0
  <2> HIDE DEF t, C, H, O
  <2>3. t.port = s.port /\ t.sub = s.sub /\ t.open = O /\ t.cache = C
    BY <1>0, <2>1
  <2> QED BY <1>9, <2>1, <2>2, <2>3 DEF Keeps, Emptied, IsCommand, O
<1> QED BY <1>1, <1>2, <1>3, <1>4, <1>6, <1>7, <1>8, <1>9

-----------------------------------------------------------------------------
(* The port that is addressed, along a list.                               *)

\* The nodes of a listing.
LEMMA ListingNodes ==
  ASSUME NEW l, Listing(l)
  PROVE  /\ Len(l) \in Nat
         /\ \A k \in 1 .. Len(l) : l[k] \in Plain /\ (l[k].op = "command" => l[k].what \in Commands)
<1> DEFINE S == Plain
<1>1. l \in Seq(S)
  BY DEF Listing
<1> HIDE DEF S
<1>2. Len(l) \in Nat /\ \A k \in 1 .. Len(l) : l[k] \in S
  BY <1>1
<1> QED BY <1>2 DEF Listing, S

\* The states over a listing, and how one follows another.
LEMMA StatesAlong ==
  ASSUME NEW l, Listing(l)
  PROVE  /\ \A k \in 0 .. Len(l) : After(l)[k] \in States /\ Emptied(After(l)[k])
         /\ \A k \in 1 .. Len(l) : Keeps(After(l)[k - 1], l[k], After(l)[k])
<1>0. /\ Len(l) \in Nat
      /\ \A k \in 1 .. Len(l) : l[k] \in Plain /\ (l[k].op = "command" => l[k].what \in Commands)
  BY ListingNodes
<1> DEFINE G == {k \in 0 .. Len(l) : After(l)[k] \in States /\ Emptied(After(l)[k])}
<1>1. 0 \in G
  <2>1. Emptied(Streamer0)
    BY DEF Emptied, Streamer0
  <2> QED BY <1>0, <2>1, AfterIs, StartState
<1>2. ASSUME NEW k \in 1 .. Len(l), k - 1 \in G PROVE Keeps(After(l)[k - 1], l[k], After(l)[k])
  <2>1. After(l)[k] = Execute(After(l)[k - 1], l[k])
    BY <1>0, AfterIs
  <2>2. After(l)[k - 1] \in States
    BY <1>2
  <2>3. l[k] \in Plain /\ (l[k].op = "command" => l[k].what \in Commands)
    BY <1>0
  <2>4. Keeps(After(l)[k - 1], l[k], Execute(After(l)[k - 1], l[k]))
    BY <2>2, <2>3, ExecuteKeeps
  <2> QED BY <2>1, <2>4
<1>3. ASSUME NEW k \in 0 .. Len(l) - 1, k \in G PROVE k + 1 \in G
  <2>1. k + 1 \in 1 .. Len(l) /\ (k + 1) - 1 = k /\ k + 1 \in 0 .. Len(l)
    BY <1>0
  <2>2. Keeps(After(l)[k], l[k + 1], After(l)[k + 1])
    BY <1>2, <1>3, <2>1
  <2>3. After(l)[k + 1] \in States /\ Emptied(After(l)[k + 1])
    BY <1>3, <2>2 DEF Keeps
  <2> QED BY <2>1, <2>3
<1>4. \A k \in 0 .. Len(l) : k \in G
  <2> HIDE DEF G
  <2> QED BY <1>0, <1>1, <1>3, Climb
<1>5. \A k \in 1 .. Len(l) : Keeps(After(l)[k - 1], l[k], After(l)[k])
  <2>1. \A k \in 1 .. Len(l) : k - 1 \in 0 .. Len(l)
    BY <1>0
  <2> HIDE DEF G
  <2> QED BY <1>2, <1>4, <2>1
<1> QED BY <1>4, <1>5

\* Which port is addressed.
LEMMA PortSteps ==
  ASSUME NEW l, Listing(l), NEW k \in 1 .. Len(l)
  PROVE  /\ l[k].op = "addr" => Port(l, k) = l[k].port /\ Sub(l, k) = l[k].sub
         /\ l[k].op # "addr" => Port(l, k) = Port(l, k - 1) /\ Sub(l, k) = Sub(l, k - 1)
BY StatesAlong DEF Port, Sub, Keeps

\* It is the same until the next address.
LEMMA PortKept ==
  ASSUME NEW l, Listing(l), NEW a \in 0 .. Len(l), NEW b \in a .. Len(l),
         \A k \in a + 1 .. b : l[k].op # "addr"
  PROVE  \A k \in a .. b : Port(l, k) = Port(l, a) /\ Sub(l, k) = Sub(l, a)
<1>0. Len(l) \in Nat
  BY ListingNodes
<1> DEFINE G == {k \in a .. b : Port(l, k) = Port(l, a) /\ Sub(l, k) = Sub(l, a)}
<1>1. a \in G /\ a \in Nat /\ b \in Nat
  BY <1>0
<1>2. ASSUME NEW k \in a .. b - 1, k \in G PROVE k + 1 \in G
  <2>1. k + 1 \in 1 .. Len(l) /\ k + 1 \in a + 1 .. b /\ (k + 1) - 1 = k /\ k + 1 \in a .. b
    BY <1>0
  <2>2. Port(l, k + 1) = Port(l, k) /\ Sub(l, k + 1) = Sub(l, k)
    BY <2>1, PortSteps
  <2> QED BY <1>2, <2>1, <2>2
<1> HIDE DEF G
<1>3. \A k \in a .. b : k \in G
  BY <1>1, <1>2, Climb
<1> QED BY <1>3 DEF G

\* The ports' caches are the same until the next command.
LEMMA OpenKept ==
  ASSUME NEW l, Listing(l), NEW a \in 0 .. Len(l), NEW b \in a .. Len(l),
         \A k \in a + 1 .. b : l[k].op # "command"
  PROVE  \A k \in a .. b : After(l)[k].open = After(l)[a].open
<1>0. Len(l) \in Nat
  BY ListingNodes
<1> DEFINE G == {k \in a .. b : After(l)[k].open = After(l)[a].open}
<1>1. a \in G /\ a \in Nat /\ b \in Nat
  BY <1>0
<1>2. ASSUME NEW k \in a .. b - 1, k \in G PROVE k + 1 \in G
  <2>1. k + 1 \in 1 .. Len(l) /\ k + 1 \in a + 1 .. b /\ (k + 1) - 1 = k /\ k + 1 \in a .. b
    BY <1>0
  <2>2. After(l)[k + 1].open = After(l)[k].open
    <3>1. Keeps(After(l)[(k + 1) - 1], l[k + 1], After(l)[k + 1])
      BY <2>1, StatesAlong
    <3> QED BY <2>1, <3>1 DEF Keeps
  <2> QED BY <1>2, <2>1, <2>2
<1> HIDE DEF G
<1>3. \A k \in a .. b : k \in G
  BY <1>1, <1>2, Climb
<1> QED BY <1>3 DEF G

\* A cache that is open has been opened, and not been closed since.
LEMMA OpenSince ==
  ASSUME NEW l, Listing(l), NEW n \in 0 .. Len(l), NEW q \in After(l)[n].open
  PROVE  \E c \in 1 .. n : /\ IsCommand(l[c], {"cacheStart"}) /\ Port(l, c) = q
           /\ \A j \in c + 1 .. n : ~(IsCommand(l[j], {"cacheFinish"}) /\ Port(l, j) = q)
<1>0. Len(l) \in Nat
  BY ListingNodes
<1> DEFINE P(k) == \E c \in 1 .. k : /\ IsCommand(l[c], {"cacheStart"}) /\ Port(l, c) = q
             /\ \A j \in c + 1 .. k : ~(IsCommand(l[j], {"cacheFinish"}) /\ Port(l, j) = q)
           G == {k \in 0 .. n : q \in After(l)[k].open => P(k)}
<1>1. 0 \in G /\ n \in Nat
  <2>1. After(l)[0].open = {}
    BY <1>0, AfterIs DEF Streamer0
  <2> QED BY <1>0, <2>1
<1>2. ASSUME NEW k \in 0 .. n - 1, k \in G PROVE k + 1 \in G
  <2>1. k + 1 \in 1 .. Len(l) /\ (k + 1) - 1 = k /\ k + 1 \in 0 .. n /\ k \in Nat
    BY <1>0
  <2>2. Keeps(After(l)[k], l[k + 1], After(l)[k + 1])
    <3>1. Keeps(After(l)[(k + 1) - 1], l[k + 1], After(l)[k + 1])
      BY <2>1, StatesAlong
    <3> QED BY <2>1, <3>1
  <2>3. l[k + 1].op = "command" => Port(l, k + 1) = After(l)[k].port
    BY <2>2 DEF Keeps, Port
  <2> SUFFICES ASSUME q \in After(l)[k + 1].open PROVE P(k + 1)
    BY <2>1
  <2>4. CASE IsCommand(l[k + 1], {"cacheStart"}) /\ After(l)[k].port = q
    <3>1. Port(l, k + 1) = q
      BY <2>3, <2>4 DEF IsCommand
    <3>2. k + 1 \in 1 .. k + 1 /\ (k + 1) + 1 .. k + 1 = {}
      BY <2>1
    <3> QED BY <2>4, <3>1, <3>2
  <2>5. CASE ~(IsCommand(l[k + 1], {"cacheStart"}) /\ After(l)[k].port = q)
    <3>1. q \in After(l)[k].open
      BY <2>2, <2>5 DEF Keeps
    <3>2. PICK c \in 1 .. k : /\ IsCommand(l[c], {"cacheStart"}) /\ Port(l, c) = q
             /\ \A j \in c + 1 .. k : ~(IsCommand(l[j], {"cacheFinish"}) /\ Port(l, j) = q)
      BY <1>2, <3>1
    <3>3. ~(IsCommand(l[k + 1], {"cacheFinish"}) /\ Port(l, k + 1) = q)
      BY <2>2, <2>3 DEF Keeps, IsCommand
    <3>4. ASSUME NEW j \in c + 1 .. k + 1
          PROVE  ~(IsCommand(l[j], {"cacheFinish"}) /\ Port(l, j) = q)
      <4>1. j = k + 1 \/ j \in c + 1 .. k
        BY <2>1
      <4> QED BY <3>2, <3>3, <4>1
    <3>5. c \in 1 .. k + 1
      BY <2>1
    <3> QED BY <3>2, <3>4, <3>5
  <2> QED BY <2>4, <2>5
<1> HIDE DEF G
<1>3. \A k \in 0 .. n : k \in G
  BY <1>1, <1>2, Climb
<1>4. n \in G
  BY <1>1, <1>3
<1> QED BY <1>4 DEF G

-----------------------------------------------------------------------------
(* The structure of the lists, and what the optimisation reads off them.   *)

\* Commands that start, fetch or reset a port, and the polls the optimisation looks at.
Restart == {"reset", "cacheStart", "cacheFinish", "activate", "prefetch"}
Handled(n) == n.op = "wait" /\ n.what \in {"primed", "done"}

\* Polls that the optimisation looks at are for the port itself, not a submodule.
WaitsAtZero(l) == \A k \in 1 .. Len(l) : Handled(l[k]) => Port(l, k) = 0 \/ Sub(l, k) = 0

\* A run of configurations, and where there is one.
ConfigsBehind(l, m) == /\ m + 6 <= Len(l) /\ l[m + 1].op = "nothing"
                       /\ \A k \in m + 2 .. m + 6 : l[k].op = "config"
Runs(l) == \A m \in 1 .. Len(l) : l[m].op = "addr" /\ l[m].sub = 2 =>
             (m < Len(l) /\ l[m + 1].op = "command") \/ ConfigsBehind(l, m)
Starts(l) == \A c \in 1 .. Len(l) : IsCommand(l[c], {"cacheStart"}) => ConfigsBehind(l, c)

\* What is put into a port's cache waits there until the port can take it: nothing
\* else happens to the port.
Paired(l, c, f) ==
  /\ IsCommand(l[f], {"cacheFinish"}) /\ Port(l, f) = Port(l, c)
  /\ \A j \in c + 1 .. f - 1 : Port(l, j) = Port(l, c) =>
       ~IsCommand(l[j], Restart) /\ (l[j].op = "config" => j \in c + 2 .. c + 6)
Pairs(l) == \A c \in 1 .. Len(l) : IsCommand(l[c], {"cacheStart"}) =>
              \E f \in c + 1 .. Len(l) : Paired(l, c, f)

\* Submodules other than the second get a configuration only while the port is set up.
ResetFirst(l) == \A k \in 1 .. Len(l) : l[k].op = "config" /\ Port(l, k) # 0 /\ Sub(l, k) # 2 =>
  \E r \in 1 .. k - 1 : /\ IsCommand(l[r], {"reset"}) /\ Port(l, r) = Port(l, k)
                        /\ \A j \in r + 1 .. k - 1 : ~Handled(l[j])

Structure(l) == /\ Listing(l) /\ WaitsAtZero(l) /\ Runs(l) /\ Starts(l) /\ Pairs(l)
                /\ ResetFirst(l)

\* The last address of a piece of the list.
LEMMA LastAddrIs ==
  ASSUME Len(list) \in Nat, NEW j \in Nat \ {0}, NEW n \in 0 .. Len(list)
  PROVE  \/ LastAddr(j, n) = 0 /\ \A k \in j .. n : list[k].op # "addr"
         \/ /\ LastAddr(j, n) \in j .. n /\ LastAddr(j, n) # 0 /\ list[LastAddr(j, n)].op = "addr"
            /\ \A k \in LastAddr(j, n) + 1 .. n : list[k].op # "addr"
<1> DEFINE S == {k \in j .. n : list[k].op = "addr"}
<1>1. LastAddr(j, n) = IF S = {} THEN 0 ELSE MaxIn(S)
  BY DEF LastAddr
<1>2. CASE S = {}
  BY <1>1, <1>2
<1>3. CASE S # {}
  <2>1. S \in SUBSET (1 .. n) /\ n \in Nat
    OBVIOUS
  <2>2. MaxIn(S) \in S /\ \A y \in S : y <= MaxIn(S)
    <3> HIDE DEF S
    <3> QED BY <1>3, <2>1, MaxInIs
  <2> DEFINE m == MaxIn(S)
  <2> HIDE DEF m
  <2>3. m \in S /\ \A y \in S : y <= m
    BY <2>2 DEF m
  <2>4. m \in j .. n /\ m # 0 /\ list[m].op = "addr"
    BY <2>3
  <2>5. ASSUME NEW k \in m + 1 .. n PROVE list[k].op # "addr"
    <3>1. k \in j .. n /\ ~(k <= m)
      BY <2>4
    <3> QED BY <2>3, <3>1
  <2>6. LastAddr(j, n) = m
    BY <1>1, <1>3 DEF m
  <2> QED BY <2>4, <2>5, <2>6
<1> QED BY <1>2, <1>3

\* What the optimisation takes for the port that is addressed is the port.
LEMMA AddressedIs ==
  ASSUME Listing(list), NEW n \in 0 .. Len(list)
  PROVE  Addressed(n) = Port(list, n)
<1>0. Len(list) \in Nat
  BY ListingNodes
<1> DEFINE k == LastAddr(1, n)
<1>1. Addressed(n) = IF k = 0 THEN 0 ELSE list[k].port
  BY DEF Addressed
<1>2. \/ k = 0 /\ \A j \in 1 .. n : list[j].op # "addr"
      \/ k \in 1 .. n /\ k # 0 /\ list[k].op = "addr" /\ \A j \in k + 1 .. n : list[j].op # "addr"
  BY <1>0, LastAddrIs
<1> HIDE DEF k
<1>3. CASE k = 0 /\ \A j \in 1 .. n : list[j].op # "addr"
  <2>1. /\ 0 \in 0 .. Len(list) /\ n \in 0 .. Len(list) /\ n \in 0 .. n
        /\ \A j \in 0 + 1 .. n : list[j].op # "addr"
    BY <1>0, <1>3
  <2>2. Port(list, n) = Port(list, 0)
    BY <2>1, PortKept
  <2>3. Port(list, 0) = 0
    BY <1>0, AfterIs DEF Port, Streamer0
  <2> QED BY <1>1, <1>3, <2>2, <2>3
<1>4. CASE /\ k \in 1 .. n /\ k # 0 /\ list[k].op = "addr"
           /\ \A j \in k + 1 .. n : list[j].op # "addr"
  <2>1. k \in 0 .. Len(list) /\ n \in k .. Len(list) /\ k \in 1 .. Len(list) /\ n \in k .. n
    BY <1>0, <1>4
  <2>2. Port(list, n) = Port(list, k)
    BY <1>4, <2>1, PortKept
  <2>3. Port(list, k) = list[k].port
    BY <1>4, <2>1, PortSteps
  <2> QED BY <1>1, <1>4, <2>2, <2>3
<1> QED BY <1>2, <1>3, <1>4

\* So it is in a descent; the submodule is known once there has been an address.
LEMMA DescentIs ==
  ASSUME Listing(list), NEW i \in 1 .. Len(list), NEW n \in i .. Len(list)
  PROVE  /\ DescentPort(i, n) = Port(list, n)
         /\ \/ /\ \A k \in i + 1 .. n : list[k].op # "addr"
               /\ DescentSub(i, n) = Port(list, i) /\ Sub(list, n) = Sub(list, i)
               /\ Port(list, n) = Port(list, i)
            \/ /\ DescentSub(i, n) = Sub(list, n)
               /\ \E k \in i + 1 .. n :
                    /\ list[k].op = "addr" /\ list[k].port = Port(list, n)
                    /\ list[k].sub = Sub(list, n)
                    /\ \A j \in k + 1 .. n : list[j].op # "addr"
<1>0. Len(list) \in Nat
  BY ListingNodes
<1> DEFINE k == LastAddr(i + 1, n)
<1>1. /\ DescentPort(i, n) = IF k = 0 THEN Addressed(i) ELSE list[k].port
      /\ DescentSub(i, n) = IF k = 0 THEN Addressed(i) ELSE list[k].sub
  BY DEF DescentPort, DescentSub
<1>2. \/ k = 0 /\ \A j \in i + 1 .. n : list[j].op # "addr"
      \/ /\ k \in i + 1 .. n /\ k # 0 /\ list[k].op = "addr"
         /\ \A j \in k + 1 .. n : list[j].op # "addr"
  <2>1. i + 1 \in Nat \ {0} /\ n \in 0 .. Len(list)
    BY <1>0
  <2> QED BY <1>0, <2>1, LastAddrIs
<1> HIDE DEF k
<1>3. CASE k = 0 /\ \A j \in i + 1 .. n : list[j].op # "addr"
  <2>1. i \in 0 .. Len(list) /\ n \in i .. n
    BY <1>0
  <2>2. Port(list, n) = Port(list, i) /\ Sub(list, n) = Sub(list, i)
    BY <1>3, <2>1, PortKept
  <2>3. Addressed(i) = Port(list, i)
    BY <2>1, AddressedIs
  <2> QED BY <1>1, <1>3, <2>2, <2>3
<1>4. CASE /\ k \in i + 1 .. n /\ k # 0 /\ list[k].op = "addr"
           /\ \A j \in k + 1 .. n : list[j].op # "addr"
  <2>1. k \in 0 .. Len(list) /\ n \in k .. Len(list) /\ k \in 1 .. Len(list) /\ n \in k .. n
    BY <1>0, <1>4
  <2>2. Port(list, n) = Port(list, k) /\ Sub(list, n) = Sub(list, k)
    BY <1>4, <2>1, PortKept
  <2>3. Port(list, k) = list[k].port /\ Sub(list, k) = list[k].sub
    BY <1>4, <2>1, PortSteps
  <2> QED BY <1>1, <1>4, <2>2, <2>3
<1> QED BY <1>2, <1>3, <1>4

\* The wait a segment is moved in front of.
WaitAt(i) == i \in 1 .. Len(list) /\ Handled(list[i]) /\ Addressed(i) # 0

\* It is in the list, and what is addressed there is the port, not a submodule.
LEMMA WaitPort ==
  ASSUME Structure(list), NEW i, WaitAt(i)
  PROVE  /\ Listing(list) /\ Len(list) \in Nat /\ i \in 1 .. Len(list) /\ list[i].op = "wait"
         /\ Port(list, i) = Addressed(i) /\ Port(list, i) # 0 /\ Sub(list, i) = 0
<1>1. Listing(list) /\ Len(list) \in Nat /\ i \in 1 .. Len(list) /\ i \in 0 .. Len(list)
  BY ListingNodes DEF Structure, WaitAt
<1>2. Port(list, i) = Addressed(i)
  BY <1>1, AddressedIs
<1>3. Handled(list[i]) /\ Addressed(i) # 0
  BY DEF WaitAt
<1> QED BY <1>1, <1>2, <1>3 DEF Structure, WaitsAtZero, Handled

\* A configuration behind the wait that is not for submodule 2 comes with a reset.
LEMMA ConfigReset ==
  ASSUME Structure(list), NEW i, WaitAt(i), NEW k \in i + 1 .. Len(list),
         list[k].op = "config", Port(list, k) # 0, Sub(list, k) # 2
  PROVE  \E r \in i + 1 .. k - 1 : /\ list[r].op = "command" /\ list[r].what \in Restart
           /\ DescentPort(i, r) = Port(list, k)
<1>1. Listing(list) /\ Len(list) \in Nat /\ i \in 1 .. Len(list) /\ Handled(list[i])
  BY WaitPort DEF WaitAt
<1>2. k \in 1 .. Len(list)
  BY <1>1
<1>3. PICK r \in 1 .. k - 1 : /\ IsCommand(list[r], {"reset"}) /\ Port(list, r) = Port(list, k)
                              /\ \A j \in r + 1 .. k - 1 : ~Handled(list[j])
  BY <1>2 DEF Structure, ResetFirst
<1>4. r # i
  BY <1>1, <1>3 DEF IsCommand, Handled
<1>5. r \in i + 1 .. k - 1 /\ r \in i .. Len(list)
  <2>1. i \notin r + 1 .. k - 1
    BY <1>1, <1>3
  <2> QED BY <1>1, <1>2, <1>4, <2>1
<1>6. DescentPort(i, r) = Port(list, r)
  BY <1>1, <1>5, DescentIs
<1> QED BY <1>3, <1>5, <1>6 DEF IsCommand, Restart

\* The first candidate is an address, and what follows are its configurations.
LEMMA SegmentStart ==
  ASSUME Structure(list), NEW i, WaitAt(i), NEW s \in i + 1 .. Len(list), Candidate(i, s),
         \A n \in i + 1 .. s - 1 : ~Candidate(i, n),
         NEW k \in s + 1 .. Len(list), list[k].op = "config",
         \A j \in s + 1 .. k : list[j].op \notin {"addr", "command"}
  PROVE  list[s].op = "addr" /\ list[s].port = DescentPort(i, s) /\ list[s].sub = 2
<1>1. /\ Listing(list) /\ Len(list) \in Nat /\ i \in 1 .. Len(list)
      /\ Port(list, i) # 0 /\ Sub(list, i) = 0
  BY WaitPort
<1> DEFINE p == DescentPort(i, s)
<1>2. /\ list[s].op # "sentinel" /\ p # 0 /\ DescentSub(i, s) = 2 /\ Valid(i, s, p)
  BY DEF Candidate
<1>3. /\ p = Port(list, s)
      /\ \/ /\ \A j \in i + 1 .. s : list[j].op # "addr"
            /\ Sub(list, s) = Sub(list, i) /\ Port(list, s) = Port(list, i)
         \/ /\ DescentSub(i, s) = Sub(list, s)
            /\ \E j \in i + 1 .. s :
                 /\ list[j].op = "addr" /\ list[j].port = Port(list, s)
                 /\ list[j].sub = Sub(list, s)
                 /\ \A h \in j + 1 .. s : list[h].op # "addr"
  <2>1. s \in i .. Len(list)
    BY <1>1
  <2> QED BY <1>1, <2>1, DescentIs
<1> HIDE DEF p
<1>4. CASE /\ \A j \in i + 1 .. s : list[j].op # "addr"
           /\ Sub(list, s) = Sub(list, i) /\ Port(list, s) = Port(list, i)
  <2>1. s \in 0 .. Len(list) /\ k \in s .. Len(list) /\ k \in s .. k /\ k \in i + 1 .. Len(list)
    BY <1>1
  <2>2. \A j \in s + 1 .. k : list[j].op # "addr"
    OBVIOUS
  <2>3. Port(list, k) = Port(list, s) /\ Sub(list, k) = Sub(list, s)
    BY <1>1, <2>1, <2>2, PortKept
  <2>4. Port(list, k) = p /\ p # 0 /\ Sub(list, k) # 2
    BY <1>1, <1>2, <1>3, <1>4, <2>3
  <2>5. PICK r \in i + 1 .. k - 1 : /\ list[r].op = "command" /\ list[r].what \in Restart
          /\ DescentPort(i, r) = p
    BY <2>1, <2>4, ConfigReset
  <2>6. r \in i + 1 .. s
    <3>1. r \notin s + 1 .. k
      BY <2>5
    <3> QED BY <1>1, <3>1
  <2>7. ~Valid(i, s, p)
    BY <2>5, <2>6 DEF Valid, Restart
  <2> QED BY <1>2, <2>7
<1>5. CASE /\ DescentSub(i, s) = Sub(list, s)
           /\ \E j \in i + 1 .. s :
                 /\ list[j].op = "addr" /\ list[j].port = Port(list, s)
                 /\ list[j].sub = Sub(list, s)
                 /\ \A h \in j + 1 .. s : list[h].op # "addr"
  <2>1. PICK j \in i + 1 .. s :
                 /\ list[j].op = "addr" /\ list[j].port = Port(list, s)
                 /\ list[j].sub = Sub(list, s)
                 /\ \A h \in j + 1 .. s : list[h].op # "addr"
    BY <1>5
  <2>2. list[j].port = p /\ list[j].sub = 2
    BY <1>2, <1>3, <1>5, <2>1
  <2>3. j = s
    <3> SUFFICES ASSUME j # s PROVE FALSE
      OBVIOUS
    <3>1. /\ j \in i + 1 .. s - 1 /\ j \in i .. Len(list) /\ j \in 1 .. Len(list)
          /\ j \in i + 1 .. j
      BY <1>1
    <3>2. Port(list, j) = p /\ Sub(list, j) = 2
      BY <1>1, <2>1, <2>2, <3>1, PortSteps
    <3>3. DescentPort(i, j) = p
      BY <1>1, <3>1, <3>2, DescentIs
    <3>4. DescentSub(i, j) = 2
      <4>1. ~\A h \in i + 1 .. j : list[h].op # "addr"
        BY <2>1, <3>1
      <4> QED BY <1>1, <3>1, <3>2, <4>1, DescentIs
    <3>5. Valid(i, j, p)
      <4>1. \A h \in i + 1 .. j : h \in i + 1 .. s
        BY <1>1
      <4> QED BY <1>2, <4>1 DEF Valid
    <3>6. Candidate(i, j)
      BY <1>2, <2>1, <3>3, <3>4, <3>5 DEF Candidate
    <3> QED BY <3>1, <3>6
  <2> QED BY <2>1, <2>2, <2>3 DEF p
<1> QED BY <1>3, <1>4, <1>5

\* Between the wait and the segment nothing happens to the port that the segment
\* would be moved across.
LEMMA SegmentQuiet ==
  ASSUME Structure(list), NEW i, WaitAt(i), NEW s \in i + 1 .. Len(list), Candidate(i, s),
         \A n \in i + 1 .. s - 1 : ~Candidate(i, n),
         NEW k \in i + 1 .. s - 1, Port(list, k) = DescentPort(i, s)
  PROVE  ~IsCommand(list[k], Restart) /\ list[k].op # "config"
<1>1. /\ Listing(list) /\ Len(list) \in Nat /\ i \in 1 .. Len(list)
      /\ Port(list, i) # 0 /\ Sub(list, i) = 0
  BY WaitPort
<1> DEFINE p == DescentPort(i, s)
<1>2. p # 0 /\ Valid(i, s, p) /\ Port(list, k) = p
  BY DEF Candidate
<1> HIDE DEF p
<1>3. k \in i .. Len(list) /\ k \in i + 1 .. s /\ k \in i + 1 .. Len(list)
  BY <1>1
<1>4. DescentPort(i, k) = p
  BY <1>1, <1>2, <1>3, DescentIs
<1>5. ~IsCommand(list[k], Restart)
  BY <1>2, <1>3, <1>4 DEF Valid, IsCommand, Restart
<1>6. ASSUME list[k].op = "config" PROVE FALSE
  <2>1. Valid(i, k, p)
    <3>1. \A h \in i + 1 .. k : h \in i + 1 .. s
      BY <1>1, <1>3
    <3> QED BY <1>2, <3>1 DEF Valid
  <2>2. Sub(list, k) = 2
    <3> SUFFICES ASSUME Sub(list, k) # 2 PROVE FALSE
      OBVIOUS
    <3>1. PICK r \in i + 1 .. k - 1 : /\ list[r].op = "command" /\ list[r].what \in Restart
            /\ DescentPort(i, r) = p
      BY <1>2, <1>3, <1>6, ConfigReset
    <3>2. r \in i + 1 .. k
      BY <1>1
    <3> QED BY <2>1, <3>1, <3>2 DEF Valid, Restart
  <2>3. DescentSub(i, k) = 2
    BY <1>1, <1>3, <2>2, DescentIs
  <2>4. Candidate(i, k)
    BY <1>2, <1>4, <1>6, <2>1, <2>3 DEF Candidate
  <2> QED BY <2>4
<1> QED BY <1>5, <1>6

\* Of the six nodes behind the m-th five are configurations.
LEMMA RunWords ==
  ASSUME Listing(list), NEW m \in 1 .. Len(list), ConfigsBehind(list, m)
  PROVE  /\ m + 6 <= Len(list)
         /\ Words(m, m + 6) = 5
         /\ \A n \in m + 1 .. m + 5 : Words(m, n) # 5
<1>0. Len(list) \in Nat /\ m + 6 <= Len(list) /\ list[m + 1].op = "nothing"
      /\ \A k \in m + 2 .. m + 6 : list[k].op = "config"
  BY ListingNodes DEF ConfigsBehind
<1>1. Words(m, m + 6) = 5
  <2>1. {k \in m + 1 .. m + 6 : list[k].op = "config"} = m + 2 .. m + 6
    <3>1. ASSUME NEW k \in m + 1 .. m + 6, list[k].op = "config" PROVE k \in m + 2 .. m + 6
      <4>1. k # m + 1
        BY <1>0, <3>1
      <4> QED BY <1>0, <4>1
    <3>2. \A k \in m + 2 .. m + 6 : k \in m + 1 .. m + 6
      BY <1>0
    <3> QED BY <1>0, <3>1, <3>2
  <2>2. Cardinality(m + 2 .. m + 6) = 5
    <3>1. m + 2 \in Int /\ m + 6 \in Int /\ ~(m + 2 > m + 6) /\ (m + 6) - (m + 2) + 1 = 5
      BY <1>0
    <3> QED BY <3>1, FS_Interval
  <2> QED BY <2>1, <2>2 DEF Words
<1>2. ASSUME NEW n \in m + 1 .. m + 5 PROVE Words(m, n) # 5
  <2> DEFINE T == {k \in m + 1 .. n : list[k].op = "config"}
             U == m + 2 .. n
  <2>1. T \subseteq U
    <3>1. ASSUME NEW k \in T PROVE k \in U
      <4>1. k # m + 1
        BY <1>0
      <4> QED BY <1>0, <4>1
    <3> QED BY <3>1
  <2>2. IsFiniteSet(U) /\ Cardinality(U) <= 4 /\ Cardinality(U) \in Nat
    <3>1. m + 2 \in Int /\ n \in Int
      BY <1>0
    <3>2. IsFiniteSet(U) /\ Cardinality(U) = IF m + 2 > n THEN 0 ELSE n - (m + 2) + 1
      BY <3>1, FS_Interval
    <3> HIDE DEF U
    <3> QED BY <1>0, <3>2
  <2> HIDE DEF T, U
  <2>3. Cardinality(T) <= Cardinality(U) /\ Cardinality(T) \in Nat
    <3>1. IsFiniteSet(T) /\ Cardinality(T) <= Cardinality(U)
      BY <2>1, <2>2, FS_Subset
    <3> QED BY <3>1, FS_CardinalityType
  <2>4. Words(m, n) = Cardinality(T)
    BY DEF Words, T
  <2> QED BY <2>2, <2>3, <2>4
<1> QED BY <1>0, <1>1, <1>2

\* The segment that is found for the wait at i starts at s and configures port p.
Movable(i, s, p) ==
  /\ s \in i + 1 .. Len(list) /\ p \in Ports /\ DescentPort(i, s) = p
  /\ list[s].op = "addr" /\ list[s].port = p /\ list[s].sub = 2
  /\ ConfigsBehind(list, s)
  /\ \A k \in i + 1 .. s - 1 :
       Port(list, k) = p => ~IsCommand(list[k], Restart) /\ list[k].op # "config"

\* What findConfigSegment finds is one: five configurations behind an address.
LEMMA SegmentIs ==
  ASSUME Structure(list), NEW i, WaitAt(i), NEW seg \in Segments(i)
  PROVE  \E s \in i + 1 .. Len(list), p \in Ports : seg = <<s, s + 6>> /\ Movable(i, s, p)
<1> DEFINE starts == {n \in i + 1 .. Len(list) : Candidate(i, n)}
           s == MinIn(starts)
           stops == {n \in s + 1 .. Len(list) : list[n].op \in {"sentinel", "addr", "command"}}
           ends == {n \in s + 1 .. Len(list) : Words(s, n) = 5 /\ \A k \in stops : n < k}
           e == MinIn(ends)
           p == DescentPort(i, s)
<1>0. /\ Listing(list) /\ Len(list) \in Nat /\ i \in 1 .. Len(list)
  BY WaitPort
<1>1. starts # {} /\ ends # {} /\ seg = <<s, e>>
  BY DEF Segments
<1>2. starts \in SUBSET Nat
  BY <1>0
<1>3. s \in starts /\ \A n \in starts : s <= n
  <2> HIDE DEF starts
  <2> QED BY <1>1, <1>2, MinInIs
<1> HIDE DEF s
<1>4. /\ s \in i + 1 .. Len(list) /\ Candidate(i, s) /\ s \in 1 .. Len(list)
      /\ \A n \in i + 1 .. s - 1 : ~Candidate(i, n)
  <2>1. s \in i + 1 .. Len(list) /\ Candidate(i, s)
    BY <1>3
  <2>2. ASSUME NEW n \in i + 1 .. s - 1 PROVE ~Candidate(i, n)
    <3>1. n \in i + 1 .. Len(list) /\ ~(s <= n)
      BY <1>0, <2>1
    <3>2. n \notin starts
      <4> HIDE DEF starts
      <4> QED BY <1>3, <3>1
    <3> QED BY <3>1, <3>2
  <2>3. s \in 1 .. Len(list)
    BY <1>0, <2>1
  <2> QED BY <2>1, <2>2, <2>3
<1>5. ends \in SUBSET Nat
  BY <1>0, <1>4
<1>6. e \in ends /\ \A n \in ends : e <= n
  <2> HIDE DEF ends
  <2> QED BY <1>1, <1>5, MinInIs
<1> HIDE DEF e
<1>7. e \in s + 1 .. Len(list) /\ Words(s, e) = 5 /\ \A k \in stops : e < k
  BY <1>6
<1>8. \A j \in s + 1 .. e : list[j].op \notin {"sentinel", "addr", "command"}
  <2>1. ASSUME NEW j \in s + 1 .. e PROVE j \notin stops
    <3>1. ~(e < j)
      BY <1>0, <1>4, <1>7
    <3> HIDE DEF stops
    <3> QED BY <1>7, <3>1
  <2>2. \A j \in s + 1 .. e : j \in s + 1 .. Len(list)
    BY <1>0, <1>4, <1>7
  <2> QED BY <2>1, <2>2
<1>9. PICK k \in s + 1 .. e : list[k].op = "config"
  <2> DEFINE T == {k \in s + 1 .. e : list[k].op = "config"}
  <2>1. T # {}
    <3> SUFFICES ASSUME T = {} PROVE FALSE
      OBVIOUS
    <3>1. Words(s, e) = Cardinality({})
      BY DEF Words
    <3> QED BY <1>7, <3>1, FS_EmptySet
  <2> QED BY <2>1
<1>10. k \in s + 1 .. Len(list) /\ \A j \in s + 1 .. k : list[j].op \notin {"addr", "command"}
  <2>1. \A j \in s + 1 .. k : j \in s + 1 .. e
    BY <1>0, <1>4, <1>7
  <2> QED BY <1>0, <1>4, <1>7, <1>8, <2>1
<1> HIDE DEF starts, stops, ends
<1>11. list[s].op = "addr" /\ list[s].port = p /\ list[s].sub = 2
  BY <1>4, <1>9, <1>10, SegmentStart
<1>12. p # 0 /\ p \in Ports
  <2>1. p # 0
    BY <1>4 DEF Candidate
  <2>2. list[s] \in Plain
    BY <1>0, <1>4, ListingNodes
  <2>3. list[s].port \in Ports \cup {0}
    BY <2>2, NodeParts
  <2> QED BY <1>11, <2>1, <2>3
<1>13. ConfigsBehind(list, s)
  <2>1. s + 1 \in s + 1 .. e
    BY <1>0, <1>4, <1>7
  <2> QED BY <1>4, <1>8, <1>11, <2>1 DEF Structure, Runs
<1>14. s + 6 <= Len(list) /\ Words(s, s + 6) = 5 /\ \A n \in s + 1 .. s + 5 : Words(s, n) # 5
  BY <1>0, <1>4, <1>13, RunWords
<1>15. e = s + 6
  <2>1. e \notin s + 1 .. s + 5
    BY <1>7, <1>14
  <2>2. s + 6 \in ends
    <3>1. s + 6 \in s + 1 .. Len(list)
      BY <1>0, <1>4, <1>14
    <3>2. ASSUME NEW j \in stops PROVE s + 6 < j
      <4>1. j \in s + 1 .. Len(list) /\ list[j].op \in {"sentinel", "addr", "command"}
        BY <3>2 DEF stops
      <4>2. j # s + 1 /\ j \notin s + 2 .. s + 6
        BY <1>13, <4>1 DEF ConfigsBehind
      <4> QED BY <1>0, <1>4, <4>1, <4>2
    <3> QED BY <1>14, <3>1, <3>2 DEF ends
  <2>3. e <= s + 6
    BY <1>6, <2>2
  <2> QED BY <1>0, <1>4, <1>7, <2>1, <2>3
<1>16. ASSUME NEW j \in i + 1 .. s - 1, Port(list, j) = p
       PROVE  ~IsCommand(list[j], Restart) /\ list[j].op # "config"
  BY <1>4, <1>16, SegmentQuiet
<1>17. Movable(i, s, p)
  <2> DEFINE pp == p
  <2>1. DescentPort(i, s) = pp
    OBVIOUS
  <2> HIDE DEF pp
  <2> SUFFICES Movable(i, s, pp)
    BY DEF pp
  <2> QED BY <1>4, <1>11, <1>12, <1>13, <1>16, <2>1 DEF Movable, pp
<1> QED BY <1>1, <1>4, <1>12, <1>15, <1>17

\* What has been put into the port's cache before the wait is out of it before the wait.
LEMMA ClosedBefore ==
  ASSUME Structure(list), NEW i, WaitAt(i), NEW s, NEW p, Movable(i, s, p),
         NEW c \in 1 .. i - 1, Port(list, c) = p,
         NEW f \in c + 1 .. Len(list), Paired(list, c, f)
  PROVE  f < i
<1>0. /\ Listing(list) /\ Len(list) \in Nat /\ i \in 1 .. Len(list) /\ list[i].op = "wait"
  BY WaitPort
<1>1. /\ s \in i + 1 .. Len(list) /\ s \in 1 .. Len(list) /\ s + 6 <= Len(list)
      /\ list[s].op = "addr" /\ list[s].port = p
      /\ list[s + 1].op = "nothing" /\ \A k \in s + 2 .. s + 6 : list[k].op = "config"
      /\ \A k \in i + 1 .. s - 1 : Port(list, k) = p => ~IsCommand(list[k], Restart)
  BY <1>0 DEF Movable, ConfigsBehind
<1>2. /\ list[f].op = "command" /\ list[f].what = "cacheFinish" /\ Port(list, f) = p
      /\ \A j \in c + 1 .. f - 1 : Port(list, j) = p =>
           (list[j].op = "config" => j \in c + 2 .. c + 6)
  BY DEF Paired, IsCommand
<1>3. f # i /\ f \notin i + 1 .. s - 1 /\ f # s /\ f # s + 1 /\ f \notin s + 2 .. s + 6
  BY <1>0, <1>1, <1>2 DEF IsCommand, Restart
<1>4. ASSUME f > s + 6 PROVE FALSE
  <2>1. \A k \in s + 1 .. s + 6 : list[k].op # "addr"
    <3>1. \A k \in s + 1 .. s + 6 : k = s + 1 \/ k \in s + 2 .. s + 6
      BY <1>0, <1>1
    <3> QED BY <1>1, <3>1
  <2>2. Port(list, s) = p
    BY <1>0, <1>1, PortSteps
  <2>3. s \in 0 .. Len(list) /\ s + 6 \in s .. Len(list) /\ s + 2 \in s .. s + 6 /\ s + 6 \in s .. s + 6
    BY <1>0, <1>1
  <2>4. Port(list, s + 2) = p /\ Port(list, s + 6) = p
    <3> DEFINE b == s + 6
    <3>1. /\ b \in s .. Len(list) /\ (\A k \in s + 1 .. b : list[k].op # "addr")
          /\ s + 2 \in s .. b /\ b \in s .. b
      BY <2>1, <2>3
    <3> HIDE DEF b
    <3>2. Port(list, s + 2) = p /\ Port(list, b) = p
      BY <1>0, <2>2, <2>3, <3>1, PortKept
    <3> QED BY <3>2 DEF b
  <2>5. s + 2 \in c + 1 .. f - 1 /\ s + 6 \in c + 1 .. f - 1 /\ s + 2 \in s + 2 .. s + 6
        /\ s + 6 \in s + 2 .. s + 6
    BY <1>0, <1>1, <1>4, SMTT(30)
  <2>6. s + 2 \in c + 2 .. c + 6 /\ s + 6 \in c + 2 .. c + 6
    BY <1>1, <1>2, <2>4, <2>5
  <2> QED BY <1>0, <1>1, <2>6
<1> QED BY <1>0, <1>1, <1>3, <1>4, SMTT(30)

\* So it is closed at the wait.
LEMMA ClosedAtWait ==
  ASSUME Structure(list), NEW i, WaitAt(i), NEW s, NEW p, Movable(i, s, p)
  PROVE  p \notin After(list)[i].open
<1>0. /\ Listing(list) /\ Len(list) \in Nat /\ i \in 1 .. Len(list) /\ list[i].op = "wait"
  BY WaitPort
<1> SUFFICES ASSUME p \in After(list)[i].open PROVE FALSE
  OBVIOUS
<1>1. i \in 0 .. Len(list)
  BY <1>0
<1>2. PICK c \in 1 .. i : /\ IsCommand(list[c], {"cacheStart"}) /\ Port(list, c) = p
           /\ \A j \in c + 1 .. i : ~(IsCommand(list[j], {"cacheFinish"}) /\ Port(list, j) = p)
  BY <1>0, <1>1, OpenSince
<1>3. c \in 1 .. i - 1 /\ c \in 1 .. Len(list)
  <2>1. c # i
    BY <1>0, <1>2 DEF IsCommand
  <2> QED BY <1>0, <2>1
<1>4. PICK f \in c + 1 .. Len(list) : Paired(list, c, f)
  BY <1>2, <1>3 DEF Structure, Pairs
<1>5. f < i
  BY <1>2, <1>3, <1>4, ClosedBefore
<1>6. f \in c + 1 .. i
  BY <1>0, <1>3, <1>5
<1> QED BY <1>2, <1>4, <1>6 DEF Paired

-----------------------------------------------------------------------------
(* The list a step of the optimisation makes, node by node.                *)

\* The second piece of a concatenation, counted from its own beginning.
LEMMA JoinedShift ==
  ASSUME NEW S, NEW s \in Seq(S), NEW t \in Seq(S)
  PROVE  /\ s \o t \in Seq(S) /\ Len(s \o t) = Len(s) + Len(t)
         /\ \A k \in 1 .. Len(s) : (s \o t)[k] = s[k]
         /\ \A k \in 1 .. Len(t) : (s \o t)[Len(s) + k] = t[k]
<1>1. /\ s \o t \in Seq(S) /\ Len(s \o t) = Len(s) + Len(t)
      /\ \A k \in 1 .. Len(s) : (s \o t)[k] = s[k]
      /\ \A k \in Len(s) + 1 .. Len(s) + Len(t) : (s \o t)[k] = t[k - Len(s)]
  BY Joined
<1>2. ASSUME NEW k \in 1 .. Len(t) PROVE (s \o t)[Len(s) + k] = t[k]
  <2>1. Len(s) + k \in Len(s) + 1 .. Len(s) + Len(t) /\ (Len(s) + k) - Len(s) = k
    OBVIOUS
  <2> QED BY <1>1, <2>1
<1> QED BY <1>1, <1>2

\* Where the nodes of four pieces are.
LEMMA FourPieces ==
  ASSUME NEW S, NEW A \in Seq(S), NEW B \in Seq(S), NEW C \in Seq(S), NEW D \in Seq(S)
  PROVE  /\ ((A \o B) \o C) \o D \in Seq(S)
         /\ Len(((A \o B) \o C) \o D) = Len(A) + Len(B) + Len(C) + Len(D)
         /\ \A k \in 1 .. Len(A) : (((A \o B) \o C) \o D)[k] = A[k]
         /\ \A k \in 1 .. Len(C) : (((A \o B) \o C) \o D)[Len(A) + Len(B) + k] = C[k]
         /\ \A k \in 1 .. Len(D) : (((A \o B) \o C) \o D)[Len(A) + Len(B) + Len(C) + k] = D[k]
<1> DEFINE AB == A \o B
           AC == AB \o C
           AD == AC \o D
           a == Len(A)
           b == a + Len(B)
           c == b + Len(C)
           d == c + Len(D)
<1>0. Len(A) \in Nat /\ Len(B) \in Nat /\ Len(C) \in Nat /\ Len(D) \in Nat
  OBVIOUS
<1>1. /\ AB \in Seq(S) /\ Len(AB) = b /\ \A k \in 1 .. a : AB[k] = A[k]
      /\ \A k \in 1 .. Len(B) : AB[a + k] = B[k]
  BY JoinedShift
<1> HIDE DEF AB
<1>2. /\ AC \in Seq(S) /\ Len(AC) = c /\ \A k \in 1 .. b : AC[k] = AB[k]
      /\ \A k \in 1 .. Len(C) : AC[b + k] = C[k]
  <2>1. /\ AC \in Seq(S) /\ Len(AC) = Len(AB) + Len(C) /\ \A k \in 1 .. Len(AB) : AC[k] = AB[k]
        /\ \A k \in 1 .. Len(C) : AC[Len(AB) + k] = C[k]
    <3>1. AB \in Seq(S) /\ C \in Seq(S)
      BY <1>1
    <3> QED BY ONLY <3>1, JoinedShift
  <2> QED BY <1>1, <2>1
<1> HIDE DEF AC
<1>3. /\ AD \in Seq(S) /\ Len(AD) = d /\ \A k \in 1 .. c : AD[k] = AC[k]
      /\ \A k \in 1 .. Len(D) : AD[c + k] = D[k]
  <2>1. /\ AD \in Seq(S) /\ Len(AD) = Len(AC) + Len(D) /\ \A k \in 1 .. Len(AC) : AD[k] = AC[k]
        /\ \A k \in 1 .. Len(D) : AD[Len(AC) + k] = D[k]
    <3>1. AC \in Seq(S) /\ D \in Seq(S)
      BY <1>2
    <3> QED BY ONLY <3>1, JoinedShift
  <2> QED BY <1>2, <2>1
<1> HIDE DEF AD
<1>8. a \in Nat /\ b \in Nat /\ c \in Nat /\ a <= b /\ b <= c
  BY <1>0
<1>9. \A k \in 1 .. Len(C) : b + k \in 1 .. c
  BY <1>0
<1> HIDE DEF b, c, d
<1>13. \A k \in 1 .. b : AD[k] = AB[k]
  <2>1. \A k \in 1 .. b : k \in 1 .. c
    BY <1>8
  <2> QED BY <1>2, <1>3, <2>1
<1>14. \A k \in 1 .. a : AD[k] = A[k]
  <2>1. \A k \in 1 .. a : k \in 1 .. b
    BY <1>8
  <2> QED BY <1>1, <1>13, <2>1
<1>16. \A k \in 1 .. Len(C) : AD[b + k] = C[k]
  BY <1>2, <1>3, <1>9
<1> QED BY <1>3, <1>14, <1>16 DEF b, c, d, AD, AC, AB

\* Those of the second of them.
LEMMA FourSecond ==
  ASSUME NEW S, NEW A \in Seq(S), NEW B \in Seq(S), NEW C \in Seq(S), NEW D \in Seq(S),
         NEW k \in 1 .. Len(B)
  PROVE  (((A \o B) \o C) \o D)[Len(A) + k] = B[k]
<1> DEFINE AB == A \o B
           AC == AB \o C
           AD == AC \o D
           j == Len(A) + k
<1>1. /\ AB \in Seq(S) /\ Len(AB) = Len(A) + Len(B) /\ AB[j] = B[k]
  BY JoinedShift
<1>2. j \in 1 .. Len(AB)
  BY <1>1
<1> HIDE DEF AB, j
<1>3. AC \in Seq(S) /\ Len(AC) = Len(AB) + Len(C) /\ AC[j] = AB[j]
  <2>1. AB \in Seq(S) /\ C \in Seq(S)
    BY <1>1
  <2>2. /\ AC \in Seq(S) /\ Len(AC) = Len(AB) + Len(C) /\ \A i \in 1 .. Len(AB) : AC[i] = AB[i]
    BY ONLY <2>1, JoinedShift
  <2> QED BY <1>2, <2>2
<1>4. j \in 1 .. Len(AC)
  BY <1>1, <1>2, <1>3
<1> HIDE DEF AC
<1>5. AD[j] = AC[j]
  <2>1. AC \in Seq(S) /\ D \in Seq(S)
    BY <1>3
  <2>2. \A i \in 1 .. Len(AC) : AD[i] = AC[i]
    BY ONLY <2>1, JoinedShift
  <2> QED BY <1>4, <2>2
<1> QED BY <1>1, <1>3, <1>5 DEF AC, AB, j

\* And of the first.
LEMMA FourFirst ==
  ASSUME NEW S, NEW A \in Seq(S), NEW B \in Seq(S), NEW C \in Seq(S), NEW D \in Seq(S),
         NEW k \in 1 .. Len(A)
  PROVE  (((A \o B) \o C) \o D)[k] = A[k]
<1> DEFINE X == ((A \o B) \o C) \o D
<1>1. \A j \in 1 .. Len(A) : X[j] = A[j]
  BY FourPieces
<1> HIDE DEF X
<1>2. X[k] = A[k]
  BY <1>1
<1> QED BY <1>2 DEF X

\* The nodes behind the a-th, up to the b-th.
LEMMA CutBehind ==
  ASSUME NEW S, NEW l \in Seq(S), NEW a \in Nat, NEW b \in a .. Len(l)
  PROVE  /\ SubSeq(l, a + 1, b) \in Seq(S) /\ Len(SubSeq(l, a + 1, b)) = b - a
         /\ \A k \in 1 .. b - a : SubSeq(l, a + 1, b)[k] = l[a + k]
<1>1. /\ a + 1 \in 1 .. Len(l) + 1 /\ b \in (a + 1) - 1 .. Len(l) /\ b - (a + 1) + 1 = b - a
      /\ \A k \in 1 .. b - a : (a + 1) + k - 1 = a + k
  OBVIOUS
<1> DEFINE c == a + 1
           t == SubSeq(l, c, b)
<1>2. c \in 1 .. Len(l) + 1 /\ b \in c - 1 .. Len(l)
  BY <1>1
<1> HIDE DEF c
<1>3. /\ t \in Seq(S) /\ Len(t) = b - c + 1 /\ \A k \in 1 .. b - c + 1 : t[k] = l[c + k - 1]
  BY <1>2, Cut
<1> HIDE DEF t
<1>4. t \in Seq(S) /\ Len(t) = b - a /\ \A k \in 1 .. b - a : t[k] = l[a + k]
  BY <1>1, <1>3 DEF c
<1> QED BY <1>4 DEF t, c

\* The segment goes behind the h-th node, in front of w, the last node before the wait
\* that is an address, or behind it; then the port is addressed again (x = 1).
Goes(i, w, h, x) ==
  /\ w \in 1 .. i - 1 /\ h \in 0 .. i - 1
  /\ \A k \in w + 1 .. i : list[k].op \notin {"addr", "command", "config"}
  /\ \/ x = 0 /\ h + 1 = w /\ list[w].op = "addr"
     \/ x = 1 /\ h = w /\ list[w].op \in {"command", "config"}

\* There is such a place, and BeforeWait cuts the list at it.
LEMMA GoesThere ==
  ASSUME Structure(list), NEW i, WaitAt(i)
  PROVE  \E w, h, x, at :
           /\ Goes(i, w, h, x) /\ BeforeWait(i) = <<SubSeq(list, 1, h), at>>
           /\ at \in Seq(Plain) /\ Len(at) = i - h + x
           /\ \A k \in 1 .. i - h : at[k + x] = list[h + k]
           /\ x = 1 => at[1] = Addr(Addressed(i), 0)
<1> DEFINE T == {n \in 1 .. i - 1 : list[n].op \in {"addr", "command", "config"}}
           w == MaxIn(T)
           A == <<Addr(Addressed(i), 0)>>
           rest == SubSeq(list, w + 1, i)
           P(v, h, x, at) ==
             /\ Goes(i, v, h, x) /\ BeforeWait(i) = <<SubSeq(list, 1, h), at>>
             /\ at \in Seq(Plain) /\ Len(at) = i - h + x
             /\ \A k \in 1 .. i - h : at[k + x] = list[h + k]
             /\ x = 1 => at[1] = Addr(Addressed(i), 0)
<1>0. /\ Listing(list) /\ Len(list) \in Nat /\ i \in 1 .. Len(list) /\ list[i].op = "wait"
      /\ Port(list, i) = Addressed(i) /\ Addressed(i) # 0
      /\ list \in Seq(Plain)
  BY WaitPort DEF Listing
<1>1. Addressed(i) \in Ports \cup {0}
  BY <1>0, PortsRead
<1>2. T # {}
  <2>1. PICK k \in 1 .. i : list[k].op = "addr"
    BY <1>0, PortsRead
  <2>2. k # i
    BY <1>0, <2>1
  <2>3. k \in 1 .. i - 1
    BY <1>0, <2>2
  <2> QED BY <2>1, <2>3
<1>3. T \in SUBSET (1 .. i - 1) /\ i - 1 \in Nat
  BY <1>0
<1>4. w \in T /\ \A y \in T : y <= w
  <2> HIDE DEF T
  <2> QED BY <1>2, <1>3, MaxInIs
<1>5. w \in 1 .. i - 1 /\ list[w].op \in {"addr", "command", "config"}
  BY <1>4
<1>6. BeforeWait(i) = IF list[w].op = "addr" /\ list[w].port = Addressed(i)
                      THEN <<SubSeq(list, 1, w - 1), SubSeq(list, w, i)>>
                      ELSE <<SubSeq(list, 1, w), A \o rest>>
  BY Zenon DEF BeforeWait
<1> HIDE DEF w
<1>7. ASSUME NEW k \in w + 1 .. i PROVE list[k].op \notin {"addr", "command", "config"}
  <2>1. CASE k = i
    BY <1>0, <2>1
  <2>2. CASE k # i
    <3>1. k \in 1 .. i - 1 /\ ~(k <= w)
      BY <1>0, <1>5, <2>2
    <3>2. k \notin T
      BY <1>4, <3>1
    <3> QED BY <3>1, <3>2
  <2> QED BY <2>1, <2>2
<1>8. list[w].op = "addr" => list[w].port = Addressed(i)
  <2> SUFFICES ASSUME list[w].op = "addr" PROVE list[w].port = Addressed(i)
    OBVIOUS
  <2>1. /\ w \in 0 .. Len(list) /\ i \in w .. Len(list) /\ i \in w .. i /\ w \in 1 .. Len(list)
        /\ \A k \in w + 1 .. i : list[k].op # "addr"
    BY <1>0, <1>5, <1>7
  <2>2. Port(list, i) = Port(list, w)
    BY <1>0, <2>1, PortKept
  <2>3. Port(list, w) = list[w].port
    BY <1>0, <2>1, PortSteps
  <2> QED BY <1>0, <2>2, <2>3
<1> HIDE DEF T
<1>9. ASSUME list[w].op = "addr" PROVE \E v, g, x, at : P(v, g, x, at)
  <2> DEFINE h == w - 1
             at == SubSeq(list, w, i)
  <2>1. BeforeWait(i) = <<SubSeq(list, 1, h), at>>
    BY <1>6, <1>8, <1>9, Zenon
  <2>2. Goes(i, w, h, 0)
    <3>1. h \in 0 .. i - 1 /\ h + 1 = w
      BY <1>0, <1>5
    <3> HIDE DEF h
    <3> QED BY <1>5, <1>7, <1>9, <3>1 DEF Goes
  <2>3. /\ at \in Seq(Plain) /\ Len(at) = i - w + 1
        /\ \A k \in 1 .. i - w + 1 : at[k] = list[w + k - 1]
    <3>1. w \in 1 .. Len(list) + 1 /\ i \in w - 1 .. Len(list)
      BY <1>0, <1>5
    <3> QED BY <1>0, <3>1, Cut
  <2>4. i - h + 0 = i - w + 1 /\ 1 .. i - h = 1 .. i - w + 1
    BY <1>0, <1>5
  <2>5. ASSUME NEW k \in 1 .. i - h PROVE at[k + 0] = list[h + k]
    <3>1. k \in 1 .. i - w + 1 /\ k + 0 = k /\ w + k - 1 = h + k
      BY <1>0, <1>5
    <3> HIDE DEF at, h
    <3> QED BY <2>3, <3>1
  <2>6. Len(at) = i - h + 0
    BY <2>3, <2>4
  <2> HIDE DEF h, at
  <2>7. P(w, h, 0, at)
    BY <2>1, <2>2, <2>3, <2>5, <2>6
  <2> HIDE DEF P
  <2> QED BY <2>7
<1>10. ASSUME list[w].op # "addr" PROVE \E v, g, x, at : P(v, g, x, at)
  <2> DEFINE at == A \o rest
  <2>1. BeforeWait(i) = <<SubSeq(list, 1, w), at>>
    BY <1>6, <1>10, Zenon
  <2>2. Goes(i, w, w, 1)
    <3>1. w \in 0 .. i - 1
      BY <1>0, <1>5
    <3> QED BY <1>5, <1>7, <1>10, <3>1 DEF Goes
  <2>3. /\ rest \in Seq(Plain) /\ Len(rest) = i - (w + 1) + 1
        /\ \A k \in 1 .. i - (w + 1) + 1 : rest[k] = list[(w + 1) + k - 1]
    <3>1. w + 1 \in 1 .. Len(list) + 1 /\ i \in (w + 1) - 1 .. Len(list)
      BY <1>0, <1>5
    <3> QED BY <1>0, <3>1, Cut
  <2>4. A \in Seq(Plain) /\ Len(A) = 1 /\ A[1] = Addr(Addressed(i), 0)
    <3>1. 0 \in 0 .. 2
      OBVIOUS
    <3>2. Addr(Addressed(i), 0) \in Plain
      BY <1>1, <3>1, AddedNodes
    <3> QED BY <3>2
  <2> HIDE DEF A, rest
  <2>5. /\ at \in Seq(Plain) /\ Len(at) = Len(A) + Len(rest)
        /\ \A k \in 1 .. Len(A) : at[k] = A[k]
        /\ \A k \in 1 .. Len(rest) : at[Len(A) + k] = rest[k]
    <3>1. A \in Seq(Plain) /\ rest \in Seq(Plain)
      BY <2>3, <2>4
    <3> QED BY ONLY <3>1, JoinedShift
  <2> HIDE DEF at
  <2>6. Len(at) = i - w + 1
    BY <1>0, <1>5, <2>3, <2>4, <2>5
  <2>7. ASSUME NEW k \in 1 .. i - w PROVE at[k + 1] = list[w + k]
    <3>1. /\ k \in 1 .. i - (w + 1) + 1 /\ k \in 1 .. Len(rest) /\ (w + 1) + k - 1 = w + k
          /\ Len(A) + k = k + 1
      <4>1. Len(A) = 1 /\ Len(rest) = i - w /\ i \in Nat /\ w \in Nat
        BY <1>0, <1>5, <2>3, <2>4, SMTT(30)
      <4> QED BY <4>1
    <3> QED BY <2>3, <2>5, <3>1
  <2>8. at[1] = Addr(Addressed(i), 0)
    <3>1. 1 \in 1 .. Len(A)
      BY <2>4
    <3> QED BY <2>4, <2>5, <3>1
  <2>9. P(w, w, 1, at)
    BY <2>1, <2>2, <2>5, <2>6, <2>7, <2>8
  <2> HIDE DEF P
  <2> QED BY <2>9
<1> HIDE DEF P
<1>11. \E v, g, x, at : P(v, g, x, at)
  BY <1>9, <1>10
<1> QED BY <1>11 DEF P

\* The list u that l becomes when the segment at s goes behind the h-th node.
Moved(l, u, s, p, h, x, a) ==
  /\ Len(u) = Len(l) + 3 + x
  /\ \A k \in 1 .. h : u[k] = l[k]
  /\ u[h + 1] = l[s] /\ u[h + 2] = Command("cacheStart")
  /\ \A k \in 1 .. 6 : u[h + 2 + k] = l[s + k]
  /\ x = 1 => u[h + 9] = Addr(a, 0)
  /\ \A k \in h + 1 .. s - 1 : u[k + 8 + x] = l[k]
  /\ u[s + 8 + x] = Addr(p, 2) /\ u[s + 9 + x] = Command("cacheFinish")
  /\ \A k \in s + 7 .. Len(l) : u[k + 3 + x] = l[k]

\* The concatenation that Optimise makes is that list.
LEMMA MovedIs ==
  ASSUME Structure(list), NEW i, WaitAt(i), NEW s, NEW p, Movable(i, s, p),
         NEW w, NEW h, NEW x, NEW at, Goes(i, w, h, x),
         at \in Seq(Plain), Len(at) = i - h + x,
         \A k \in 1 .. i - h : at[k + x] = list[h + k],
         x = 1 => at[1] = Addr(Addressed(i), 0),
         NEW u,
         u = ((SubSeq(list, 1, h) \o <<list[s], Command("cacheStart")>> \o SubSeq(list, s + 1, s + 6) \o at)
                \o SubSeq(list, i + 1, s - 1) \o <<Addr(p, 2), Command("cacheFinish")>>)
                \o SubSeq(list, s + 7, Len(list))
  PROVE  Moved(list, u, s, p, h, x, Addressed(i))
<1> DEFINE A == SubSeq(list, 1, h)
           B == <<list[s], Command("cacheStart")>>
           C == SubSeq(list, s + 1, s + 6)
           E == SubSeq(list, i + 1, s - 1)
           F == <<Addr(p, 2), Command("cacheFinish")>>
           G == SubSeq(list, s + 7, Len(list))
           n == Len(list)
<1>0. /\ Listing(list) /\ n \in Nat /\ i \in 1 .. n /\ list \in Seq(Plain)
  BY WaitPort DEF Listing
<1>1. /\ s \in i + 1 .. n /\ s + 6 <= n /\ p \in Ports
      /\ h \in 0 .. i - 1 /\ x \in {0, 1}
  BY DEF Movable, ConfigsBehind, Goes
<1>2. A \in Seq(Plain) /\ Len(A) = h /\ \A k \in 1 .. h : A[k] = list[k]
  <2>1. /\ 1 \in 1 .. n + 1 /\ h \in 1 - 1 .. n /\ h - 1 + 1 = h
        /\ \A k \in 1 .. h : 1 + k - 1 = k
    BY <1>0, <1>1
  <2>2. /\ A \in Seq(Plain) /\ Len(A) = h - 1 + 1
        /\ \A k \in 1 .. h - 1 + 1 : A[k] = list[1 + k - 1]
    BY <1>0, <2>1, Cut, SMTT(30)
  <2> HIDE DEF A
  <2> QED BY <2>1, <2>2
<1>3. B \in Seq(Plain) /\ Len(B) = 2 /\ B[1] = list[s] /\ B[2] = Command("cacheStart")
  <2>1. list[s] \in Plain
    <3>1. s \in 1 .. n
      BY <1>0, <1>1
    <3> QED BY <1>0, <3>1, ListingNodes
  <2>2. Command("cacheStart") \in Plain
    <3>1. 0 \in 0 .. 2 /\ p \in Ports \cup {0}
      BY <1>1
    <3> QED BY <3>1, AddedNodes
  <2> QED BY <2>1, <2>2, SMTT(30)
<1>4. C \in Seq(Plain) /\ Len(C) = 6 /\ \A k \in 1 .. 6 : C[k] = list[s + k]
  <2> DEFINE b == s + 6
  <2>1. list \in Seq(Plain) /\ s \in Nat /\ b \in s .. Len(list) /\ b - s = 6
    BY <1>0, <1>1
  <2> HIDE DEF b
  <2>2. /\ SubSeq(list, s + 1, b) \in Seq(Plain) /\ Len(SubSeq(list, s + 1, b)) = b - s
        /\ \A k \in 1 .. b - s : SubSeq(list, s + 1, b)[k] = list[s + k]
    BY ONLY <2>1, CutBehind
  <2> QED BY <2>1, <2>2 DEF b
<1>5. E \in Seq(Plain) /\ Len(E) = s - 1 - i /\ \A k \in 1 .. s - 1 - i : E[k] = list[i + k]
  <2> DEFINE b == s - 1
  <2>1. list \in Seq(Plain) /\ i \in Nat /\ b \in i .. Len(list)
    <3>1. i \in Nat /\ s \in Nat /\ Len(list) \in Nat /\ i + 1 <= s /\ s <= Len(list)
      BY <1>0, <1>1
    <3>2. b \in i .. Len(list)
      BY <3>1
    <3> QED BY <1>0, <3>1, <3>2
  <2> HIDE DEF b
  <2>2. /\ SubSeq(list, i + 1, b) \in Seq(Plain) /\ Len(SubSeq(list, i + 1, b)) = b - i
        /\ \A k \in 1 .. b - i : SubSeq(list, i + 1, b)[k] = list[i + k]
    BY ONLY <2>1, CutBehind
  <2> QED BY <2>2 DEF b
<1>6. F \in Seq(Plain) /\ Len(F) = 2 /\ F[1] = Addr(p, 2) /\ F[2] = Command("cacheFinish")
  <2>1. Addr(p, 2) \in Plain /\ Command("cacheFinish") \in Plain
    <3>1. 2 \in 0 .. 2 /\ p \in Ports \cup {0}
      BY <1>1
    <3> QED BY <3>1, AddedNodes
  <2> QED BY <2>1
<1>7. G \in Seq(Plain) /\ Len(G) = n - s - 6 /\ \A k \in 1 .. n - s - 6 : G[k] = list[s + 6 + k]
  <2> DEFINE b == s + 6
             m == Len(list)
  <2>1. list \in Seq(Plain) /\ b \in Nat /\ m \in b .. Len(list) /\ m = Len(list)
        /\ b + 1 = s + 7 /\ m - b = n - s - 6
    <3>1. list \in Seq(Plain) /\ s \in Nat /\ m \in Nat /\ n = m /\ s + 6 <= m
      BY <1>0, <1>1
    <3>2. b = s + 6
      OBVIOUS
    <3> HIDE DEF b, m
    <3>3. b \in Nat /\ b + 1 = s + 7 /\ m - b = n - s - 6 /\ m \in b .. m
      BY ONLY <3>1, <3>2
    <3> QED BY <3>1, <3>3 DEF m
  <2> HIDE DEF b, m
  <2>2. /\ SubSeq(list, b + 1, m) \in Seq(Plain) /\ Len(SubSeq(list, b + 1, m)) = m - b
        /\ \A k \in 1 .. m - b : SubSeq(list, b + 1, m)[k] = list[b + k]
    BY ONLY <2>1, CutBehind
  <2>3. G = SubSeq(list, b + 1, m)
    BY <2>1
  <2> HIDE DEF G
  <2> QED BY <2>1, <2>2, <2>3 DEF b
<1>8. u = ((A \o B \o C \o at) \o E \o F) \o G
  OBVIOUS
<1>9. /\ Len(u) = Len(A) + Len(B) + Len(C) + Len(at) + Len(E) + Len(F) + Len(G)
      /\ \A k \in 1 .. Len(A) : u[k] = A[k]
      /\ \A k \in 1 .. Len(B) : u[Len(A) + k] = B[k]
      /\ \A k \in 1 .. Len(C) : u[Len(A) + Len(B) + k] = C[k]
      /\ \A k \in 1 .. Len(at) : u[Len(A) + Len(B) + Len(C) + k] = at[k]
      /\ \A k \in 1 .. Len(E) : u[Len(A) + Len(B) + Len(C) + Len(at) + k] = E[k]
      /\ \A k \in 1 .. Len(F) : u[Len(A) + Len(B) + Len(C) + Len(at) + Len(E) + k] = F[k]
      /\ \A k \in 1 .. Len(G) :
           u[Len(A) + Len(B) + Len(C) + Len(at) + Len(E) + Len(F) + k] = G[k]
  <2>1. /\ A \in Seq(Plain) /\ B \in Seq(Plain) /\ C \in Seq(Plain) /\ at \in Seq(Plain)
        /\ E \in Seq(Plain) /\ F \in Seq(Plain) /\ G \in Seq(Plain)
    BY <1>2, <1>3, <1>4, <1>5, <1>6, <1>7
  <2> HIDE DEF A, B, C, E, F, G
  <2>2. u = ((A \o B \o C \o at) \o E \o F) \o G
    BY <1>8
  <2> DEFINE S == Plain
  <2> HIDE DEF S
  <2>3. /\ A \in Seq(S) /\ B \in Seq(S) /\ C \in Seq(S) /\ at \in Seq(S)
        /\ E \in Seq(S) /\ F \in Seq(S) /\ G \in Seq(S)
    BY <2>1 DEF S
  <2> DEFINE X == ((A \o B) \o C) \o at
             Y == ((X \o E) \o F) \o G
  <2>4. /\ X \in Seq(S) /\ Len(X) = Len(A) + Len(B) + Len(C) + Len(at)
        /\ \A k \in 1 .. Len(A) : X[k] = A[k]
        /\ \A k \in 1 .. Len(B) : X[Len(A) + k] = B[k]
        /\ \A k \in 1 .. Len(C) : X[Len(A) + Len(B) + k] = C[k]
        /\ \A k \in 1 .. Len(at) : X[Len(A) + Len(B) + Len(C) + k] = at[k]
    <3>1. A \in Seq(S) /\ B \in Seq(S) /\ C \in Seq(S) /\ at \in Seq(S)
      BY <2>3
    <3>2. X \in Seq(S)
      BY ONLY <3>1, FourPieces
    <3>3. Len(X) = Len(A) + Len(B) + Len(C) + Len(at)
      BY ONLY <3>1, FourPieces
    <3>4. \A k \in 1 .. Len(A) : X[k] = A[k]
      BY ONLY <3>1, FourFirst
    <3>5. \A k \in 1 .. Len(B) : X[Len(A) + k] = B[k]
      BY ONLY <3>1, FourSecond
    <3>6. \A k \in 1 .. Len(C) : X[Len(A) + Len(B) + k] = C[k]
      BY ONLY <3>1, FourPieces
    <3>7. \A k \in 1 .. Len(at) : X[Len(A) + Len(B) + Len(C) + k] = at[k]
      BY ONLY <3>1, FourPieces
    <3> QED BY ONLY <3>2, <3>3, <3>4, <3>5, <3>6, <3>7
  <2> HIDE DEF X
  <2>5. /\ Y \in Seq(S) /\ Len(Y) = Len(X) + Len(E) + Len(F) + Len(G)
        /\ \A k \in 1 .. Len(X) : Y[k] = X[k]
        /\ \A k \in 1 .. Len(E) : Y[Len(X) + k] = E[k]
        /\ \A k \in 1 .. Len(F) : Y[Len(X) + Len(E) + k] = F[k]
        /\ \A k \in 1 .. Len(G) : Y[Len(X) + Len(E) + Len(F) + k] = G[k]
    <3>1. X \in Seq(S) /\ E \in Seq(S) /\ F \in Seq(S) /\ G \in Seq(S)
      BY <2>3, <2>4
    <3>2. Y \in Seq(S)
      BY ONLY <3>1, FourPieces
    <3>3. Len(Y) = Len(X) + Len(E) + Len(F) + Len(G)
      BY ONLY <3>1, FourPieces
    <3>4. \A k \in 1 .. Len(X) : Y[k] = X[k]
      BY ONLY <3>1, FourFirst
    <3>5. \A k \in 1 .. Len(E) : Y[Len(X) + k] = E[k]
      BY ONLY <3>1, FourSecond
    <3>6. \A k \in 1 .. Len(F) : Y[Len(X) + Len(E) + k] = F[k]
      BY ONLY <3>1, FourPieces
    <3>7. \A k \in 1 .. Len(G) : Y[Len(X) + Len(E) + Len(F) + k] = G[k]
      BY ONLY <3>1, FourPieces
    <3> QED BY ONLY <3>2, <3>3, <3>4, <3>5, <3>6, <3>7
  <2>6. u = Y
    BY <2>2 DEF X
  <2> HIDE DEF Y
  <2>7. Len(A) \in Nat /\ Len(B) \in Nat /\ Len(C) \in Nat /\ Len(at) \in Nat
    BY ONLY <2>3
  <2>8. /\ \A k \in 1 .. Len(A) : k \in 1 .. Len(X)
        /\ \A k \in 1 .. Len(B) : Len(A) + k \in 1 .. Len(X)
        /\ \A k \in 1 .. Len(C) : Len(A) + Len(B) + k \in 1 .. Len(X)
        /\ \A k \in 1 .. Len(at) : Len(A) + Len(B) + Len(C) + k \in 1 .. Len(X)
    BY ONLY <2>4, <2>7
  <2>9. \A k \in 1 .. Len(X) : u[k] = X[k]
    BY <2>5, <2>6
  <2>10. /\ \A k \in 1 .. Len(A) : u[k] = A[k]
         /\ \A k \in 1 .. Len(B) : u[Len(A) + k] = B[k]
    BY ONLY <2>4, <2>8, <2>9
  <2>11. \A k \in 1 .. Len(C) : u[Len(A) + Len(B) + k] = C[k]
    BY ONLY <2>4, <2>8, <2>9
  <2>12. \A k \in 1 .. Len(at) : u[Len(A) + Len(B) + Len(C) + k] = at[k]
    BY ONLY <2>4, <2>8, <2>9
  <2>13. Len(X) = Len(A) + Len(B) + Len(C) + Len(at)
    BY <2>4
  <2> QED BY <2>5, <2>6, <2>10, <2>11, <2>12, <2>13
<1> HIDE DEF A, B, C, E, F, G
<1>l. /\ Len(A) = h /\ Len(B) = 2 /\ Len(C) = 6 /\ Len(at) = i - h + x /\ Len(E) = s - 1 - i
      /\ Len(F) = 2 /\ Len(G) = n - s - 6
      /\ h \in Nat /\ i \in Nat /\ s \in Nat /\ x \in Nat /\ h < i /\ i < s
  BY <1>0, <1>1, <1>2, <1>3, <1>4, <1>5, <1>6, <1>7
<1>10. Len(u) = n + 3 + x
  <2>1. Len(u) = h + 2 + 6 + (i - h + x) + (s - 1 - i) + 2 + (n - s - 6)
    BY <1>l, <1>9
  <2>2. n \in Nat
    BY <1>0
  <2>3. h \in Nat /\ i \in Nat /\ s \in Nat /\ x \in Nat
    BY <1>l
  <2> HIDE DEF n
  <2>4. h + 2 + 6 + (i - h + x) + (s - 1 - i) + 2 + (n - s - 6) = n + 3 + x
    BY ONLY <2>2, <2>3
  <2> QED BY ONLY <2>1, <2>4
<1>11. \A k \in 1 .. h : u[k] = list[k]
  BY <1>2, <1>9
<1>12. u[h + 1] = list[s] /\ u[h + 2] = Command("cacheStart")
  <2>1. 1 \in 1 .. Len(B) /\ 2 \in 1 .. Len(B)
    BY <1>3
  <2>2. u[Len(A) + 1] = B[1] /\ u[Len(A) + 2] = B[2]
    BY <1>9, <2>1
  <2> QED BY <1>2, <1>3, <2>2
<1>13. \A k \in 1 .. 6 : u[h + 2 + k] = list[s + k]
  <2>1. \A k \in 1 .. 6 : u[Len(A) + Len(B) + k] = C[k]
    BY <1>4, <1>9
  <2> QED BY <1>2, <1>3, <1>4, <2>1
<1>14. x = 1 => u[h + 9] = Addr(Addressed(i), 0)
  <2> SUFFICES ASSUME x = 1 PROVE u[h + 9] = Addr(Addressed(i), 0)
    OBVIOUS
  <2>1. 1 \in 1 .. Len(at) /\ Len(A) + Len(B) + Len(C) + 1 = h + 9
    BY <1>0, <1>1, <1>2, <1>3, <1>4
  <2>2. u[Len(A) + Len(B) + Len(C) + 1] = at[1]
    BY <1>9, <2>1
  <2> QED BY <2>1, <2>2
<1>15. ASSUME NEW k \in h + 1 .. s - 1 PROVE u[k + 8 + x] = list[k]
  <2>1. CASE k <= i
    <3>1. /\ (k - h) + x \in 1 .. Len(at) /\ k - h \in 1 .. i - h
          /\ Len(A) + Len(B) + Len(C) + ((k - h) + x) = k + 8 + x
          /\ h + (k - h) = k
      BY <1>0, <1>1, <1>2, <1>3, <1>4, <2>1
    <3>2. u[Len(A) + Len(B) + Len(C) + ((k - h) + x)] = at[(k - h) + x]
      BY <1>9, <3>1
    <3>3. at[(k - h) + x] = list[h + (k - h)]
      BY <3>1
    <3> QED BY <3>1, <3>2, <3>3
  <2>2. CASE k > i
    <3>1. /\ k - i \in 1 .. Len(E) /\ k - i \in 1 .. s - 1 - i
          /\ Len(A) + Len(B) + Len(C) + Len(at) + (k - i) = k + 8 + x
          /\ i + (k - i) = k
      BY <1>0, <1>1, <1>2, <1>3, <1>4, <1>5, <2>2
    <3>2. u[Len(A) + Len(B) + Len(C) + Len(at) + (k - i)] = E[k - i]
      BY <1>9, <3>1
    <3>3. E[k - i] = list[i + (k - i)]
      BY <1>5, <3>1
    <3> QED BY <3>1, <3>2, <3>3
  <2>3. k <= i \/ k > i
    BY <1>0, <1>1
  <2> QED BY <2>1, <2>2, <2>3
<1>16. u[s + 8 + x] = Addr(p, 2) /\ u[s + 9 + x] = Command("cacheFinish")
  <2>1. /\ 1 \in 1 .. Len(F) /\ 2 \in 1 .. Len(F)
        /\ Len(A) + Len(B) + Len(C) + Len(at) + Len(E) + 1 = s + 8 + x
        /\ Len(A) + Len(B) + Len(C) + Len(at) + Len(E) + 2 = s + 9 + x
    BY <1>l
  <2>2. /\ u[Len(A) + Len(B) + Len(C) + Len(at) + Len(E) + 1] = F[1]
        /\ u[Len(A) + Len(B) + Len(C) + Len(at) + Len(E) + 2] = F[2]
    BY <1>9, <2>1
  <2> QED BY <1>6, <2>1, <2>2
<1>17. ASSUME NEW k \in s + 7 .. n PROVE u[k + 3 + x] = list[k]
  <2>1. /\ k - s - 6 \in 1 .. Len(G) /\ k - s - 6 \in 1 .. n - s - 6
        /\ Len(A) + Len(B) + Len(C) + Len(at) + Len(E) + Len(F) + (k - s - 6) = k + 3 + x
        /\ s + 6 + (k - s - 6) = k
    BY <1>0, <1>1, <1>2, <1>3, <1>4, <1>5, <1>6, <1>7
  <2>2. u[Len(A) + Len(B) + Len(C) + Len(at) + Len(E) + Len(F) + (k - s - 6)] = G[k - s - 6]
    BY <1>9, <2>1
  <2>3. G[k - s - 6] = list[s + 6 + (k - s - 6)]
    BY <1>7, <2>1
  <2> QED BY <2>1, <2>2, <2>3
<1> HIDE DEF n
<1>18. Len(u) = Len(list) + 3 + x
  BY <1>10 DEF n
<1>19. \A k \in s + 7 .. Len(list) : u[k + 3 + x] = list[k]
  BY <1>17 DEF n
<1> QED BY <1>11, <1>12, <1>13, <1>14, <1>15, <1>16, <1>18, <1>19 DEF Moved

\* All there is to a move.
Move(u, i, s, p, w, h, x) ==
  /\ Structure(list) /\ WaitAt(i) /\ Movable(i, s, p) /\ Goes(i, w, h, x)
  /\ Moved(list, u, s, p, h, x, Addressed(i)) /\ u \in Seq(Plain)

\* Optimise makes one, or leaves the list as it is.
LEMMA OptimiseMoves ==
  ASSUME Structure(list), cursor \in 1 .. Len(list) + 1, Optimise, list' \in Seq(Plain)
  PROVE  list' = list \/ \E i, s, p, w, h, x : Move(list', i, s, p, w, h, x)
<1> DEFINE i == MinIn(Waits)
           found == Segments(i)
<1>0. Listing(list) /\ Len(list) \in Nat
  BY ListingNodes DEF Structure
<1>1. i \in Waits
  <2>1. Waits \in SUBSET Nat
    BY <1>0 DEF Waits
  <2>2. Waits # {}
    BY DEF Optimise
  <2> QED BY <2>1, <2>2, MinInIs
<1>2. WaitAt(i)
  <2> HIDE DEF i
  <2> QED BY <1>0, <1>1 DEF Waits, WaitAt, Handled
<1>3. CASE found = {}
  BY <1>3 DEF Optimise
<1>4. CASE found # {}
  <2> DEFINE seg == CHOOSE g \in found : TRUE
             s0 == seg[1]
             e0 == seg[2]
             at0 == BeforeWait(i)
             M == <<list[s0], Command("cacheStart")>>
             G == SubSeq(list, s0 + 1, e0)
             Y == SubSeq(list, i + 1, s0 - 1)
             C == <<Addr(DescentPort(i, s0), 2), Command("cacheFinish")>>
             Z == SubSeq(list, e0 + 1, Len(list))
             up == at0[1] \o M \o G \o at0[2]
  <2>1. list' = up \o Y \o C \o Z
    BY <1>4 DEF Optimise
  <2>2. seg \in found
    BY <1>4
  <2> HIDE DEF i, seg
  <2>3. PICK s \in i + 1 .. Len(list), p \in Ports : seg = <<s, s + 6>> /\ Movable(i, s, p)
    BY <1>2, <2>2, SegmentIs
  <2>4. PICK w, h, x, at :
           /\ Goes(i, w, h, x) /\ BeforeWait(i) = <<SubSeq(list, 1, h), at>>
           /\ at \in Seq(Plain) /\ Len(at) = i - h + x
           /\ \A k \in 1 .. i - h : at[k + x] = list[h + k]
           /\ x = 1 => at[1] = Addr(Addressed(i), 0)
    BY <1>2, GoesThere
  <2>5. s0 = s /\ e0 = s + 6
    BY <2>3
  <2>4a. BeforeWait(i) = <<SubSeq(list, 1, h), at>>
    BY <2>4, Zenon
  <2>a. at0[1] = SubSeq(list, 1, h) /\ at0[2] = at
    <3> DEFINE pre == SubSeq(list, 1, h)
    <3> HIDE DEF pre
    <3>1. at0 = <<pre, at>>
      BY <2>4a DEF pre
    <3> HIDE DEF at0
    <3> QED BY <3>1 DEF pre
  <2>b. (s + 6) + 1 = s + 7
    <3>1. s \in Nat
      BY <1>0, <1>2 DEF WaitAt
    <3> QED BY ONLY <3>1
  <2>c. DescentPort(i, s) = p
    BY <2>3 DEF Movable
  <2>6. list' = ((SubSeq(list, 1, h) \o <<list[s], Command("cacheStart")>>
                   \o SubSeq(list, s + 1, s + 6) \o at)
                \o SubSeq(list, i + 1, s - 1) \o <<Addr(p, 2), Command("cacheFinish")>>)
                \o SubSeq(list, s + 7, Len(list))
    <3> HIDE DEF s0, e0, at0
    <3> QED BY <2>1, <2>5, <2>a, <2>b, <2>c
  <2>7. Moved(list, list', s, p, h, x, Addressed(i))
    <3>1. Movable(i, s, p)
      BY <2>3
    <3>2. Structure(list)
      OBVIOUS
    <3>3. /\ at \in Seq(Plain) /\ Len(at) = i - h + x
          /\ \A k \in 1 .. i - h : at[k + x] = list[h + k]
          /\ x = 1 => at[1] = Addr(Addressed(i), 0)
      BY <2>4, Zenon
    <3>4. Goes(i, w, h, x)
      BY <2>4
    <3> DEFINE u == list'
    <3>5. u = ((SubSeq(list, 1, h) \o <<list[s], Command("cacheStart")>> \o SubSeq(list, s + 1, s + 6) \o at)
                \o SubSeq(list, i + 1, s - 1) \o <<Addr(p, 2), Command("cacheFinish")>>)
                \o SubSeq(list, s + 7, Len(list))
      BY <2>6
    <3> HIDE DEF u
    <3>6. Moved(list, u, s, p, h, x, Addressed(i))
      BY ONLY <3>1, <3>2, <3>3, <3>4, <3>5, <1>2, MovedIs
    <3> QED BY <3>6 DEF u
  <2>8. Move(list', i, s, p, w, h, x)
    BY <1>2, <2>3, <2>4, <2>7 DEF Move
  <2> QED BY <2>8
<1> QED BY <1>3, <1>4

\* The places of a move.
LEMMA MovePlaces ==
  ASSUME NEW u, NEW i, NEW s, NEW p, NEW w, NEW h, NEW x, Move(u, i, s, p, w, h, x)
  PROVE  /\ Listing(list) /\ Len(list) \in Nat /\ i \in 1 .. Len(list) /\ s \in i + 1 .. Len(list)
         /\ s + 6 <= Len(list) /\ p \in Ports /\ p # 0
         /\ w \in 1 .. i - 1 /\ h \in 0 .. i - 1 /\ x \in {0, 1}
         /\ x = 0 => h + 1 = w /\ list[w].op = "addr"
         /\ x = 1 => h = w /\ list[w].op \in {"command", "config"}
         /\ Len(u) = Len(list) + 3 + x
<1>1. Listing(list) /\ Len(list) \in Nat /\ i \in 1 .. Len(list)
  BY WaitPort DEF Move
<1>2. s \in i + 1 .. Len(list) /\ s + 6 <= Len(list) /\ p \in Ports
  BY DEF Move, Movable, ConfigsBehind
<1>3. p # 0
  BY <1>2, PortsAssumption
<1>4. /\ w \in 1 .. i - 1 /\ h \in 0 .. i - 1 /\ x \in {0, 1}
      /\ x = 0 => h + 1 = w /\ list[w].op = "addr"
      /\ x = 1 => h = w /\ list[w].op \in {"command", "config"}
  BY DEF Move, Goes
<1>5. Len(u) = Len(list) + 3 + x
  BY DEF Move, Moved
<1> QED BY <1>1, <1>2, <1>3, <1>4, <1>5

\* Where a node of the new list comes from.
Origin(k, s, h, x) ==
  \/ k \in 1 .. h
  \/ k = h + 1 \/ k = h + 2
  \/ \E j \in 1 .. 6 : k = h + 2 + j
  \/ x = 1 /\ k = h + 9
  \/ \E j \in h + 1 .. s - 1 : k = j + 8 + x
  \/ k = s + 8 + x \/ k = s + 9 + x
  \/ \E j \in s + 7 .. Len(list) : k = j + 3 + x

\* Every node is one of these.
LEMMA MoveCases ==
  ASSUME NEW u, NEW i, NEW s, NEW p, NEW w, NEW h, NEW x, Move(u, i, s, p, w, h, x),
         NEW k \in 1 .. Len(u)
  PROVE  Origin(k, s, h, x)
<1> DEFINE n == Len(list)
<1>1. /\ n \in Nat /\ i \in 1 .. n /\ s \in i + 1 .. n /\ s + 6 <= n
      /\ h \in 0 .. i - 1 /\ x \in {0, 1} /\ Len(u) = n + 3 + x
  BY MovePlaces
<1> HIDE DEF n
<1>2. k \in Nat /\ k >= 1 /\ k <= n + 3 + x /\ h \in Nat /\ s \in Nat /\ h < s /\ x \in Nat
  BY <1>1
<1>3. CASE k <= h + 2
  BY <1>2, <1>3 DEF Origin
<1>4. CASE k > h + 2 /\ k <= h + 8
  <2>1. k - h - 2 \in 1 .. 6 /\ k = h + 2 + (k - h - 2)
    BY <1>2, <1>4
  <2> QED BY <2>1 DEF Origin
<1>5. CASE k > h + 8 /\ k <= s + 7 + x
  <2>1. CASE k = h + 9 /\ x = 1
    BY <2>1 DEF Origin
  <2>2. CASE ~(k = h + 9 /\ x = 1)
    <3>1. k - 8 - x \in h + 1 .. s - 1 /\ k = (k - 8 - x) + 8 + x
      BY <1>1, <1>2, <1>5, <2>2
    <3> QED BY <3>1 DEF Origin
  <2> QED BY <2>1, <2>2
<1>6. CASE k > s + 7 + x
  <2>1. CASE k <= s + 9 + x
    BY <1>2, <1>6, <2>1 DEF Origin
  <2>2. CASE k > s + 9 + x
    <3> DEFINE j == k - 3 - x
    <3>1. j \in Int /\ j >= s + 7 /\ j <= n /\ k = j + 3 + x
      BY <1>1, <1>2, <2>2
    <3>2. j \in s + 7 .. n
      BY <1>1, <1>2, <3>1
    <3> HIDE DEF j
    <3> QED BY <3>1, <3>2 DEF n, Origin
  <2> QED BY <1>2, <2>1, <2>2
<1> QED BY <1>2, <1>3, <1>4, <1>5, <1>6 DEF Origin

\* The new list is a listing.
LEMMA MoveListing ==
  ASSUME NEW u, NEW i, NEW s, NEW p, NEW w, NEW h, NEW x, Move(u, i, s, p, w, h, x)
  PROVE  Listing(u)
<1>0. /\ Listing(list) /\ Len(list) \in Nat /\ i \in 1 .. Len(list) /\ s \in i + 1 .. Len(list)
      /\ s + 6 <= Len(list) /\ h \in 0 .. i - 1 /\ x \in {0, 1}
  BY MovePlaces
<1>1. Moved(list, u, s, p, h, x, Addressed(i)) /\ u \in Seq(Plain) /\ list[s].op = "addr"
  BY DEF Move, Movable
<1>2. \A k \in 1 .. Len(list) : list[k].op = "command" => list[k].what \in Commands
  BY <1>0, ListingNodes
<1>3. ASSUME NEW k \in 1 .. Len(u), u[k].op = "command" PROVE u[k].what \in Commands
  <2> DEFINE C(t) == t.op = "command" => t.what \in Commands
  <2>0. \A j \in 1 .. Len(list) : C(list[j])
    BY <1>2
  <2>1. C(Command("cacheStart")) /\ C(Command("cacheFinish"))
    BY DEF Command, Node, Commands
  <2>2. \A q, sub : C(Addr(q, sub))
    BY DEF Addr, Node
  <2>3. s \in 1 .. Len(list)
    BY <1>0
  <2> HIDE DEF C
  <2>4. \A j \in 1 .. h : C(u[j])
    <3>1. \A j \in 1 .. h : j \in 1 .. Len(list)
      BY <1>0
    <3> QED BY <1>1, <2>0, <3>1 DEF Moved
  <2>5. C(u[h + 1]) /\ C(u[h + 2])
    BY <1>1, <2>0, <2>1, <2>3 DEF Moved
  <2>6. \A j \in 1 .. 6 : C(u[h + 2 + j])
    <3>1. \A j \in 1 .. 6 : s + j \in 1 .. Len(list)
      BY <1>0
    <3> QED BY <1>1, <2>0, <3>1 DEF Moved
  <2>7. x = 1 => C(u[h + 9])
    BY <1>1, <2>2 DEF Moved
  <2>8. \A j \in h + 1 .. s - 1 : C(u[j + 8 + x])
    <3>1. \A j \in h + 1 .. s - 1 : j \in 1 .. Len(list)
      BY <1>0
    <3> QED BY <1>1, <2>0, <3>1 DEF Moved
  <2>9. C(u[s + 8 + x]) /\ C(u[s + 9 + x])
    BY <1>1, <2>1, <2>2 DEF Moved
  <2>10. \A j \in s + 7 .. Len(list) : C(u[j + 3 + x])
    <3>1. \A j \in s + 7 .. Len(list) : j \in 1 .. Len(list)
      BY <1>0
    <3> QED BY <1>1, <2>0, <3>1 DEF Moved
  <2>11. C(u[k])
    <3>1. Origin(k, s, h, x)
      <4>1. Move(u, i, s, p, w, h, x) /\ k \in 1 .. Len(u)
        BY <1>3
      <4> QED BY ONLY <4>1, MoveCases
    <3> QED BY ONLY <2>4, <2>5, <2>6, <2>7, <2>8, <2>9, <2>10, <3>1 DEF Origin
  <2> QED BY <1>3, <2>11 DEF C
<1> QED BY <1>1, <1>3 DEF Listing

\* Neither where the segment goes nor on the way there its port's cache is open.
LEMMA ClosedAlong ==
  ASSUME NEW u, NEW i, NEW s, NEW p, NEW w, NEW h, NEW x, Move(u, i, s, p, w, h, x)
  PROVE  \A k \in h .. s : p \notin After(list)[k].open
<1>0. /\ Listing(list) /\ Len(list) \in Nat /\ i \in 1 .. Len(list) /\ s \in i + 1 .. Len(list)
      /\ w \in 1 .. i - 1 /\ h \in 0 .. i - 1 /\ x \in {0, 1}
      /\ x = 0 => h + 1 = w /\ list[w].op = "addr"
      /\ x = 1 => h = w /\ list[w].op \in {"command", "config"}
  BY MovePlaces
<1> DEFINE G == {k \in h .. s : p \notin After(list)[k].open}
<1>1. p \notin After(list)[i].open
  BY ClosedAtWait DEF Move
<1>2. \A k \in w .. i : p \notin After(list)[k].open
  <2>1. w \in 0 .. Len(list) /\ i \in w .. Len(list) /\ i \in w .. i
    BY <1>0
  <2>2. \A k \in w + 1 .. i : list[k].op # "command"
    BY DEF Move, Goes
  <2>3. \A k \in w .. i : After(list)[k].open = After(list)[w].open
    BY <1>0, <2>1, <2>2, OpenKept
  <2> QED BY <1>1, <2>1, <2>3
<1>3. \A k \in i .. s : p \notin After(list)[k].open
  <2> DEFINE H == {k \in i .. s : p \notin After(list)[k].open}
  <2>1. i \in H /\ i \in Nat /\ s \in Nat
    BY <1>0, <1>1
  <2>2. ASSUME NEW k \in i .. s - 1, k \in H PROVE k + 1 \in H
    <3>1. k + 1 \in 1 .. Len(list) /\ (k + 1) - 1 = k /\ k + 1 \in i .. s
      BY <1>0
    <3>2. Keeps(After(list)[k], list[k + 1], After(list)[k + 1])
      <4>1. Keeps(After(list)[(k + 1) - 1], list[k + 1], After(list)[k + 1])
        BY <1>0, <3>1, StatesAlong
      <4> QED BY <3>1, <4>1
    <3>3. ASSUME IsCommand(list[k + 1], {"cacheStart"}), After(list)[k].port = p PROVE FALSE
      <4>1. k + 1 # s
        BY <3>3 DEF Move, Movable, IsCommand
      <4>2. k + 1 \in i + 1 .. s - 1
        BY <1>0, <4>1
      <4>3. Port(list, k + 1) = p
        BY <3>2, <3>3 DEF Keeps, IsCommand, Port
      <4> QED BY <3>3, <4>2, <4>3 DEF Move, Movable, IsCommand, Restart
    <3>4. p \notin After(list)[k].open
      BY <2>2
    <3> QED BY <3>1, <3>2, <3>3, <3>4 DEF Keeps
  <2> HIDE DEF H
  <2>3. \A k \in i .. s : k \in H
    BY <2>1, <2>2, Climb
  <2> QED BY <2>3 DEF H
<1>4. p \notin After(list)[h].open
  <2>1. CASE x = 1
    <3>1. h \in w .. i
      BY <1>0, <2>1
    <3> QED BY <1>2, <3>1
  <2>2. CASE x = 0
    <3>1. w \in 1 .. Len(list) /\ w - 1 = h /\ w \in w .. i
      BY <1>0, <2>2
    <3>2. Keeps(After(list)[w - 1], list[w], After(list)[w])
      BY <1>0, <3>1, StatesAlong
    <3>3. After(list)[w].open = After(list)[h].open
      BY <1>0, <2>2, <3>1, <3>2 DEF Keeps
    <3> QED BY <1>2, <3>1, <3>3
  <2> QED BY <1>0, <2>1, <2>2
<1>5. \A k \in h .. s : k = h \/ k \in w .. i \/ k \in i .. s
  <2>1. h \in Nat /\ w \in Nat /\ i \in Nat /\ s \in Nat /\ (h = w \/ h + 1 = w) /\ w < i /\ i < s
    BY <1>0
  <2> QED BY <2>1
<1> QED BY <1>2, <1>3, <1>4, <1>5

-----------------------------------------------------------------------------
(* Both lists do the same to every port.                                   *)

\* A state with another cache, or with more seen.
LEMMA WithCache ==
  ASSUME NEW s \in States, NEW C \in [Ports -> Seq(Events)], NEW t, t = [s EXCEPT !.cache = C]
  PROVE  /\ t \in States /\ t.port = s.port /\ t.sub = s.sub /\ t.open = s.open
         /\ t.seen = s.seen /\ t.cache = C
<1>1. /\ s.port \in Ports \cup {0} /\ s.sub \in 0 .. 2 /\ s.open \subseteq Ports
      /\ s.seen \in [Ports -> Seq(Events)]
      /\ s = [port |-> s.port, sub |-> s.sub, open |-> s.open, cache |-> s.cache, seen |-> s.seen]
  BY StateParts
<1>2. t = [port |-> s.port, sub |-> s.sub, open |-> s.open, cache |-> C, seen |-> s.seen]
  <2> DEFINE a == s.port
             b == s.sub
             c == s.open
             d == s.cache
             e == s.seen
  <2> HIDE DEF a, b, c, d, e
  <2>1. s = [port |-> a, sub |-> b, open |-> c, cache |-> d, seen |-> e]
    BY <1>1 DEF a, b, c, d, e
  <2>2. t = [port |-> a, sub |-> b, open |-> c, cache |-> C, seen |-> e]
    BY <2>1
  <2> QED BY <2>2 DEF a, b, c, e
<1> HIDE DEF Events
<1>3. t \in States
  BY <1>1, <1>2 DEF States
<1>4. t.port = s.port /\ t.sub = s.sub /\ t.open = s.open /\ t.seen = s.seen /\ t.cache = C
  BY <1>2
<1> QED BY <1>3, <1>4

\* The same for what a port has seen.
LEMMA WithSeen ==
  ASSUME NEW s \in States, NEW C \in [Ports -> Seq(Events)], NEW t, t = [s EXCEPT !.seen = C]
  PROVE  /\ t \in States /\ t.port = s.port /\ t.sub = s.sub /\ t.open = s.open
         /\ t.cache = s.cache /\ t.seen = C
<1>1. /\ s.port \in Ports \cup {0} /\ s.sub \in 0 .. 2 /\ s.open \subseteq Ports
      /\ s.cache \in [Ports -> Seq(Events)]
      /\ s = [port |-> s.port, sub |-> s.sub, open |-> s.open, cache |-> s.cache, seen |-> s.seen]
  BY StateParts
<1>2. t = [port |-> s.port, sub |-> s.sub, open |-> s.open, cache |-> s.cache, seen |-> C]
  <2> DEFINE a == s.port
             b == s.sub
             c == s.open
             d == s.cache
             e == s.seen
  <2> HIDE DEF a, b, c, d, e
  <2>1. s = [port |-> a, sub |-> b, open |-> c, cache |-> d, seen |-> e]
    BY <1>1 DEF a, b, c, d, e
  <2>2. t = [port |-> a, sub |-> b, open |-> c, cache |-> d, seen |-> C]
    BY <2>1
  <2> QED BY <2>2 DEF a, b, c, d
<1> HIDE DEF Events
<1>3. t \in States
  BY <1>1, <1>2 DEF States
<1>4. t.port = s.port /\ t.sub = s.sub /\ t.open = s.open /\ t.cache = s.cache /\ t.seen = C
  BY <1>2
<1> QED BY <1>3, <1>4

\* The segment's configurations in its new place and in its old one: y puts them into
\* the port's cache, which b had not opened, x gives them to the port.
Row(b, x0, p, y, x) ==
  /\ y \in States /\ y.port = p /\ y.sub = 2 /\ y.open = b.open \cup {p} /\ y.seen = b.seen
  /\ y.cache = [b.cache EXCEPT ![p] = y.cache[p]]
  /\ x \in States /\ x.port = p /\ x.sub = 2 /\ x.open = x0.open /\ x.cache = x0.cache
  /\ x.seen = [x0.seen EXCEPT ![p] = x0.seen[p] \o y.cache[p]]

\* A step of both.
LEMMA RowStep ==
  ASSUME NEW b \in States, NEW x0 \in States, NEW p \in Ports, p \notin x0.open,
         NEW y, NEW x, Row(b, x0, p, y, x), NEW n \in Plain, n.op \in {"nothing", "config"}
  PROVE  Row(b, x0, p, Execute(y, n), Execute(x, n))
<1>0. /\ x \in States /\ y \in States /\ y.port = p /\ x.port = p /\ y.sub = 2 /\ x.sub = 2
      /\ p \in y.open /\ p \notin x.open /\ p # 0
  BY PortsAssumption DEF Row
<1>1. CASE n.op = "nothing"
  <2>1. Execute(y, n) = y /\ Execute(x, n) = x
    BY <1>0, <1>1, ExecuteStill
  <2> QED BY <2>1
<1>2. CASE n.op = "config"
  <2> DEFINE e == <<"config", 2, n.data>>
             C == [y.cache EXCEPT ![p] = Append(y.cache[p], e)]
             H == [x.seen EXCEPT ![p] = Append(x.seen[p], e)]
             v == Execute(y, n)
             z == Execute(x, n)
             c == y.cache[p]
             a == x0.seen[p]
  <2>1. /\ v = [y EXCEPT !.cache = C] /\ z = [x EXCEPT !.seen = H] /\ e \in Events
    BY <1>0, <1>2, ExecuteConfig
  <2>2. /\ b.cache \in [Ports -> Seq(Events)] /\ x0.seen \in [Ports -> Seq(Events)]
        /\ y.cache \in [Ports -> Seq(Events)] /\ x.seen \in [Ports -> Seq(Events)]
    BY <1>0, StateParts
  <2> HIDE DEF e, Events
  <2>3. C \in [Ports -> Seq(Events)] /\ H \in [Ports -> Seq(Events)]
    BY <2>1, <2>2, EventAdded
  <2>4. a \in Seq(Events) /\ c \in Seq(Events)
    BY <2>2
  <2>5. x.seen[p] = a \o c
    BY <2>2 DEF Row
  <2>6. C[p] = Append(c, e) /\ C = [b.cache EXCEPT ![p] = C[p]]
    <3>1. y.cache = [b.cache EXCEPT ![p] = c]
      BY DEF Row
    <3> HIDE DEF c
    <3>2. C = [b.cache EXCEPT ![p] = Append(c, e)] /\ C[p] = Append(c, e)
      <4>1. C = [y.cache EXCEPT ![p] = Append(c, e)]
        BY DEF c
      <4> HIDE DEF C
      <4> QED BY <2>2, <3>1, <4>1
    <3> QED BY <3>2
  <2>7. H = [x0.seen EXCEPT ![p] = a \o C[p]]
    <3>1. x.seen = [x0.seen EXCEPT ![p] = a \o c]
      BY DEF Row
    <3>2. Append(a \o c, e) = a \o Append(c, e)
      <4>1. a \in Seq(Events) /\ c \in Seq(Events) /\ e \in Events
        BY <2>1, <2>4
      <4> HIDE DEF a, c
      <4> QED BY ONLY <4>1
    <3>3. H = [x.seen EXCEPT ![p] = a \o C[p]]
      BY <2>5, <2>6, <3>2
    <3> HIDE DEF H, C, a, c
    <3> QED BY <2>2, <3>1, <3>3
  <2>8. /\ v \in States /\ v.port = y.port /\ v.sub = y.sub /\ v.open = y.open
        /\ v.seen = y.seen /\ v.cache = C
    <3> HIDE DEF C, v
    <3> QED BY <1>0, <2>1, <2>3, WithCache
  <2>9. /\ z \in States /\ z.port = x.port /\ z.sub = x.sub /\ z.open = x.open
        /\ z.cache = x.cache /\ z.seen = H
    <3> HIDE DEF H, z
    <3> QED BY <1>0, <2>1, <2>3, WithSeen
  <2> HIDE DEF v, z, C, H
  <2>10. Row(b, x0, p, v, z)
    <3>1. /\ y.port = p /\ y.sub = 2 /\ y.open = b.open \cup {p} /\ y.seen = b.seen
          /\ x.port = p /\ x.sub = 2 /\ x.open = x0.open /\ x.cache = x0.cache
      BY DEF Row
    <3> QED BY <2>6, <2>7, <2>8, <2>9, <3>1 DEF Row, a
  <2> QED BY <2>10 DEF v, z
<1> QED BY <1>1, <1>2

\* The streamer with the segment in its new place, y, and in its old one, x, until x
\* comes to it: all that differs is that the port's cache is open, and holds cfg.
Sim(p, cfg, x, y) ==
  /\ x \in States /\ y \in States /\ y.port = x.port /\ y.sub = x.sub /\ y.seen = x.seen
  /\ p \notin x.open /\ y.open = x.open \cup {p} /\ y.cache = [x.cache EXCEPT ![p] = cfg]

\* Events are seen by both.
LEMMA SimSees ==
  ASSUME NEW p \in Ports, NEW cfg \in Seq(Events), NEW x, NEW y, Sim(p, cfg, x, y), NEW n,
         NEW event, SeesIt(x, n, event), SeesIt(y, n, event), x.port # 0
  PROVE  Sim(p, cfg, Execute(x, n), Execute(y, n))
<1> DEFINE q == x.port
           H == [x.seen EXCEPT ![q] = Append(x.seen[q], event)]
           v == Execute(x, n)
           z == Execute(y, n)
<1>0. /\ x \in States /\ y \in States /\ y.port = x.port /\ y.sub = x.sub /\ y.seen = x.seen
      /\ p \notin x.open /\ y.open = x.open \cup {p} /\ y.cache = [x.cache EXCEPT ![p] = cfg]
  BY DEF Sim
<1>1. q \in Ports /\ x.seen \in [Ports -> Seq(Events)] /\ event \in Events
  BY <1>0, StateParts DEF SeesIt
<1>2. H \in [Ports -> Seq(Events)]
  <2> HIDE DEF q
  <2> QED BY <1>1, EventAdded
<1>3. v = [x EXCEPT !.seen = H] /\ z = [y EXCEPT !.seen = H]
  BY <1>0 DEF SeesIt
<1> HIDE DEF H, v, z
<1>4. /\ v \in States /\ v.port = x.port /\ v.sub = x.sub /\ v.open = x.open
      /\ v.cache = x.cache /\ v.seen = H
  BY <1>0, <1>2, <1>3, WithSeen
<1>5. /\ z \in States /\ z.port = y.port /\ z.sub = y.sub /\ z.open = y.open
      /\ z.cache = y.cache /\ z.seen = H
  BY <1>0, <1>2, <1>3, WithSeen
<1>6. Sim(p, cfg, v, z)
  BY <1>0, <1>4, <1>5 DEF Sim
<1> QED BY <1>6 DEF v, z

\* What a port is configured with, both see, or have in its cache.
LEMMA SimConfig ==
  ASSUME NEW p \in Ports, NEW cfg \in Seq(Events), NEW x, NEW y, Sim(p, cfg, x, y),
         NEW n \in Plain, n.op = "config", x.port # 0, x.port # p
  PROVE  Sim(p, cfg, Execute(x, n), Execute(y, n))
<1> DEFINE q == x.port
           e == <<"config", x.sub, n.data>>
           A == [x.cache EXCEPT ![q] = Append(x.cache[q], e)]
           B == [y.cache EXCEPT ![q] = Append(y.cache[q], e)]
           H == [x.seen EXCEPT ![q] = Append(x.seen[q], e)]
           v == Execute(x, n)
           z == Execute(y, n)
<1>0. /\ x \in States /\ y \in States /\ y.port = x.port /\ y.sub = x.sub /\ y.seen = x.seen
      /\ p \notin x.open /\ y.open = x.open \cup {p} /\ y.cache = [x.cache EXCEPT ![p] = cfg]
  BY DEF Sim
<1>1. /\ q \in Ports /\ x.seen \in [Ports -> Seq(Events)] /\ x.cache \in [Ports -> Seq(Events)]
      /\ y.cache \in [Ports -> Seq(Events)]
  BY <1>0, StateParts
<1>2. /\ q \in x.open => v = [x EXCEPT !.cache = A]
      /\ q \notin x.open => v = [x EXCEPT !.seen = H]
      /\ e \in Events
  BY <1>0, ExecuteConfig
<1>3. /\ q \in y.open => z = [y EXCEPT !.cache = B]
      /\ q \notin y.open => z = [y EXCEPT !.seen = H]
  <2>1. y.port # 0 /\ y \in States
    BY <1>0
  <2>2. /\ y.port \in y.open => z = [y EXCEPT !.cache = [y.cache EXCEPT ![y.port] =
             Append(y.cache[y.port], <<"config", y.sub, n.data>>)]]
        /\ y.port \notin y.open => z = [y EXCEPT !.seen = [y.seen EXCEPT ![y.port] =
             Append(y.seen[y.port], <<"config", y.sub, n.data>>)]]
    BY <2>1, ExecuteConfig
  <2> HIDE DEF z
  <2>3. y.port = q /\ y.sub = x.sub /\ y.seen = x.seen
    BY <1>0
  <2> HIDE DEF q
  <2> QED BY ONLY <2>2, <2>3
<1>4. q \in x.open <=> q \in y.open
  BY <1>0
<1> HIDE DEF e
<1>5. /\ A \in [Ports -> Seq(Events)] /\ B \in [Ports -> Seq(Events)]
      /\ H \in [Ports -> Seq(Events)]
  <2> HIDE DEF q
  <2> QED BY <1>1, <1>2, EventAdded
<1>6. B = [A EXCEPT ![p] = cfg]
  <2>1. y.cache[q] = x.cache[q]
    BY <1>0, <1>1
  <2> DEFINE c == Append(x.cache[q], e)
  <2>2. A = [x.cache EXCEPT ![q] = c] /\ B = [y.cache EXCEPT ![q] = c]
    BY <2>1
  <2> HIDE DEF c, A, B
  <2> QED BY <1>0, <1>1, <2>2
<1> HIDE DEF A, B, H, v, z
<1>7. CASE q \in x.open
  <2>1. /\ v \in States /\ v.port = x.port /\ v.sub = x.sub /\ v.open = x.open
        /\ v.seen = x.seen /\ v.cache = A
    <3>1. x \in States /\ A \in [Ports -> Seq(Events)] /\ v = [x EXCEPT !.cache = A]
      BY <1>0, <1>2, <1>5, <1>7
    <3> QED BY ONLY <3>1, WithCache
  <2>2. /\ z \in States /\ z.port = y.port /\ z.sub = y.sub /\ z.open = y.open
        /\ z.seen = y.seen /\ z.cache = B
    <3>1. y \in States /\ B \in [Ports -> Seq(Events)] /\ z = [y EXCEPT !.cache = B]
      BY <1>0, <1>3, <1>4, <1>5, <1>7
    <3> QED BY ONLY <3>1, WithCache
  <2>3. Sim(p, cfg, v, z)
    BY <1>0, <1>6, <2>1, <2>2 DEF Sim
  <2> QED BY <2>3 DEF v, z
<1>8. CASE q \notin x.open
  <2>1. /\ v \in States /\ v.port = x.port /\ v.sub = x.sub /\ v.open = x.open
        /\ v.cache = x.cache /\ v.seen = H
    <3>1. x \in States /\ H \in [Ports -> Seq(Events)] /\ v = [x EXCEPT !.seen = H]
      BY <1>0, <1>2, <1>5, <1>8
    <3> QED BY ONLY <3>1, WithSeen
  <2>2. /\ z \in States /\ z.port = y.port /\ z.sub = y.sub /\ z.open = y.open
        /\ z.cache = y.cache /\ z.seen = H
    <3>1. y \in States /\ H \in [Ports -> Seq(Events)] /\ z = [y EXCEPT !.seen = H]
      BY <1>0, <1>3, <1>4, <1>5, <1>8
    <3> QED BY ONLY <3>1, WithSeen
  <2>3. Sim(p, cfg, v, z)
    BY <1>0, <2>1, <2>2 DEF Sim
  <2> QED BY <2>3 DEF v, z
<1> QED BY <1>7, <1>8

\* cacheStart and cacheFinish, all parts of the state they lead to.
LEMMA StartParts ==
  ASSUME NEW s \in States, NEW n \in Plain, s.port # 0, n.op = "command", n.what = "cacheStart",
         NEW t, t = Execute(s, n)
  PROVE  /\ t \in States /\ t.port = s.port /\ t.sub = s.sub
         /\ t.open = s.open \cup {s.port} /\ t.cache = s.cache /\ t.seen = s.seen
<1>1. /\ s.port \in Ports \cup {0} /\ s.open \subseteq Ports
      /\ s.cache \in [Ports -> Seq(Events)] /\ s.seen \in [Ports -> Seq(Events)]
      /\ s = [port |-> s.port, sub |-> s.sub, open |-> s.open, cache |-> s.cache, seen |-> s.seen]
  BY StateParts
<1> DEFINE o == s.open \cup {s.port}
<1>2. o \in SUBSET Ports
  BY <1>1
<1>3. t = [s EXCEPT !.open = o]
  BY ExecuteStart
<1> HIDE DEF o, Events
<1>4. t \in States
  BY ExecuteStart
<1>5. t.port = s.port /\ t.sub = s.sub /\ t.open = o /\ t.seen = s.seen /\ t.cache = s.cache
  BY <1>1, <1>3
<1> QED BY <1>4, <1>5 DEF o

\* t follows s when the cache of the port is closed.
Finished(s, t) ==
  /\ t \in States /\ t.port = s.port /\ t.sub = s.sub
  /\ t.open = s.open \ {s.port}
  /\ t.cache = [s.cache EXCEPT ![s.port] = <<>>]
  /\ t.seen = [s.seen EXCEPT ![s.port] = s.seen[s.port] \o s.cache[s.port]]

\* That is what cacheFinish does.
LEMMA FinishParts ==
  ASSUME NEW s \in States, NEW n \in Plain, s.port # 0, n.op = "command", n.what = "cacheFinish"
  PROVE  Finished(s, Execute(s, n))
<1> DEFINE p == s.port
           t == Execute(s, n)
           C == [s.cache EXCEPT ![p] = <<>>]
           H == [s.seen EXCEPT ![p] = s.seen[p] \o s.cache[p]]
           O == s.open \ {p}
<1>1. s = [port |-> p, sub |-> s.sub, open |-> s.open, cache |-> s.cache, seen |-> s.seen]
  BY StateParts
<1>2. t = [s EXCEPT !.open = O, !.cache = C, !.seen = H] /\ t \in States
  BY ExecuteFinish
<1> HIDE DEF C, H, O, t
<1>3. t = [port |-> p, sub |-> s.sub, open |-> O, cache |-> C, seen |-> H]
  <2> DEFINE b == s.sub
             c == s.open
             d == s.cache
             e == s.seen
  <2> HIDE DEF p, b, c, d, e
  <2>1. s = [port |-> p, sub |-> b, open |-> c, cache |-> d, seen |-> e]
    BY <1>1 DEF b, c, d, e
  <2>2. t = [port |-> p, sub |-> b, open |-> O, cache |-> C, seen |-> H]
    BY <1>2, <2>1
  <2> QED BY <2>2 DEF b
<1>4. t.port = p /\ t.sub = s.sub /\ t.open = O /\ t.cache = C /\ t.seen = H
  BY <1>3
<1>5. Finished(s, t)
  BY <1>2, <1>4 DEF Finished, C, H, O, p
<1> QED BY <1>5 DEF t

\* One step of both, whatever the instruction, unless it is one for the port.
LEMMA SimStep ==
  ASSUME NEW p \in Ports, NEW cfg \in Seq(Events), NEW x, NEW y, Sim(p, cfg, x, y),
         NEW n \in Plain, n.op = "command" => n.what \in Commands,
         x.port = p => ~IsCommand(n, Restart) /\ n.op # "config"
  PROVE  Sim(p, cfg, Execute(x, n), Execute(y, n))
<1> DEFINE q == x.port
           v == Execute(x, n)
           z == Execute(y, n)
<1>0. /\ x \in States /\ y \in States /\ y.port = x.port /\ y.sub = x.sub /\ y.seen = x.seen
      /\ p \notin x.open /\ y.open = x.open \cup {p} /\ y.cache = [x.cache EXCEPT ![p] = cfg]
  BY DEF Sim
<1>1. n.op \in {"sentinel", "nothing", "addr", "command", "config", "wait"}
  BY NodeParts
<1>2. CASE n.op = "addr"
  <2>1. /\ v \in States /\ v.port = n.port /\ v.sub = n.sub /\ v.open = x.open /\ v.cache = x.cache
        /\ v.seen = x.seen
    BY <1>0, <1>2, ExecuteAddr
  <2>2. /\ z \in States /\ z.port = n.port /\ z.sub = n.sub /\ z.open = y.open /\ z.cache = y.cache
        /\ z.seen = y.seen
    BY <1>0, <1>2, ExecuteAddr
  <2> HIDE DEF v, z
  <2>3. Sim(p, cfg, v, z)
    BY <1>0, <2>1, <2>2 DEF Sim
  <2> QED BY <2>3 DEF v, z
<1>3. CASE n.op # "addr" /\ (x.port = 0 \/ n.op \in {"sentinel", "nothing"})
  <2>1. v = x /\ z = y
    BY <1>0, <1>3, ExecuteStill
  <2> QED BY <2>1
<1>4. CASE x.port # 0 /\ n.op = "config"
  BY <1>4, SimConfig
<1>5. CASE x.port # 0 /\ n.op = "wait"
  <2>1. SeesIt(x, n, <<"wait", n.what>>)
    BY <1>0, <1>5, ExecuteWait
  <2>2. SeesIt(y, n, <<"wait", n.what>>)
    BY <1>0, <1>5, ExecuteWait
  <2> QED BY <1>5, <2>1, <2>2, SimSees
<1>6. CASE x.port # 0 /\ n.op = "command"
  <2>0. y.port # 0 /\ n.what \in Commands /\ q \in Ports
    BY <1>0, <1>6, StateParts
  <2>1. CASE n.what = "deActivate"
    <3>1. SeesIt(x, n, <<n.what>>)
      BY <1>0, <1>6, <2>1, ExecuteCommand
    <3>2. SeesIt(y, n, <<n.what>>)
      BY <1>0, <1>6, <2>0, <2>1, ExecuteCommand
    <3> QED BY <1>6, <3>1, <3>2, SimSees
  <2>2. CASE n.what \in {"reset", "prefetch", "activate"}
    <3>0. q # p
      BY <1>6, <2>2 DEF IsCommand, Restart
    <3> DEFINE e == <<n.what, x.port \in x.open>>
    <3>1. SeesIt(x, n, e)
      BY <1>0, <1>6, <2>2, ExecuteCommand
    <3>2. (y.port \in y.open) = (x.port \in x.open)
      BY <1>0, <3>0
    <3>3. SeesIt(y, n, <<n.what, y.port \in y.open>>)
      BY <1>0, <1>6, <2>0, <2>2, ExecuteCommand
    <3>4. SeesIt(y, n, e)
      BY <3>2, <3>3
    <3> HIDE DEF e
    <3> QED BY <1>6, <3>1, <3>4, SimSees
  <2>3. CASE n.what = "cacheStart"
    <3>0. q # p
      BY <1>6, <2>3 DEF IsCommand, Restart
    <3>1. /\ v \in States /\ v.port = x.port /\ v.sub = x.sub
          /\ v.open = x.open \cup {q} /\ v.cache = x.cache /\ v.seen = x.seen
      BY <1>0, <1>6, <2>3, StartParts
    <3>2. /\ z \in States /\ z.port = y.port /\ z.sub = y.sub
          /\ z.open = y.open \cup {q} /\ z.cache = y.cache /\ z.seen = y.seen
      BY <1>0, <1>6, <2>0, <2>3, StartParts
    <3> HIDE DEF v, z
    <3>3. Sim(p, cfg, v, z)
      <4>1. z.open = v.open \cup {p} /\ p \notin v.open
        BY <1>0, <3>0, <3>1, <3>2
      <4> QED BY <1>0, <3>1, <3>2, <4>1 DEF Sim
    <3> QED BY <3>3 DEF v, z
  <2>4. CASE n.what = "cacheFinish"
    <3>0. q # p
      BY <1>6, <2>4 DEF IsCommand, Restart
    <3>1. /\ v \in States /\ v.port = x.port /\ v.sub = x.sub /\ v.open = x.open \ {q}
          /\ v.cache = [x.cache EXCEPT ![q] = <<>>]
          /\ v.seen = [x.seen EXCEPT ![q] = x.seen[q] \o x.cache[q]]
      <4>1. x \in States /\ n \in Plain /\ x.port # 0 /\ n.op = "command" /\ n.what = "cacheFinish"
        BY <1>0, <1>6, <2>4
      <4>2. Finished(x, v)
        BY ONLY <4>1, FinishParts
      <4> HIDE DEF v
      <4> QED BY <4>2 DEF Finished
    <3>2. /\ z \in States /\ z.port = y.port /\ z.sub = y.sub /\ z.open = y.open \ {q}
          /\ z.cache = [y.cache EXCEPT ![q] = <<>>]
          /\ z.seen = [y.seen EXCEPT ![q] = y.seen[q] \o y.cache[q]]
      <4>1. y \in States /\ n \in Plain /\ y.port # 0 /\ n.op = "command" /\ n.what = "cacheFinish"
        BY <1>0, <1>6, <2>0, <2>4
      <4>2. /\ z \in States /\ z.port = y.port /\ z.sub = y.sub /\ z.open = y.open \ {y.port}
            /\ z.cache = [y.cache EXCEPT ![y.port] = <<>>]
            /\ z.seen = [y.seen EXCEPT ![y.port] = y.seen[y.port] \o y.cache[y.port]]
        <5>1. Finished(y, z)
          BY ONLY <4>1, FinishParts
        <5> HIDE DEF z
        <5> QED BY <5>1 DEF Finished
      <4> HIDE DEF z
      <4>3. y.port = q
        BY <1>0
      <4> HIDE DEF q
      <4> QED BY ONLY <4>2, <4>3
    <3> HIDE DEF v, z
    <3>3. x.cache \in [Ports -> Seq(Events)] /\ y.cache \in [Ports -> Seq(Events)]
      BY <1>0, StateParts
    <3>4. y.cache[q] = x.cache[q]
      BY <1>0, <2>0, <3>0, <3>3
    <3>5. z.seen = v.seen
      BY <1>0, <3>1, <3>2, <3>4
    <3>6. z.cache = [v.cache EXCEPT ![p] = cfg]
      BY <1>0, <2>0, <3>0, <3>1, <3>2, <3>3, SMTT(30)
    <3>7. z.open = v.open \cup {p} /\ p \notin v.open
      BY <1>0, <3>0, <3>1, <3>2
    <3>8. Sim(p, cfg, v, z)
      BY <1>0, <3>1, <3>2, <3>5, <3>6, <3>7 DEF Sim
    <3> QED BY <3>8 DEF v, z
  <2> QED BY <2>0, <2>1, <2>2, <2>3, <2>4 DEF Commands
<1> QED BY <1>1, <1>2, <1>3, <1>4, <1>5, <1>6

\* One state after the other.
LEMMA AfterNext ==
  ASSUME NEW l, Len(l) \in Nat, NEW k \in 0 .. Len(l) - 1
  PROVE  After(l)[k + 1] = Execute(After(l)[k], l[k + 1])
<1>1. k + 1 \in 1 .. Len(l) /\ (k + 1) - 1 = k
  OBVIOUS
<1> QED BY <1>1, AfterIs

\* The old list and the new one are the same up to where the segment goes.
LEMMA MoveFront ==
  ASSUME NEW u, NEW i, NEW s, NEW p, NEW w, NEW h, NEW x, Move(u, i, s, p, w, h, x)
  PROVE  \A k \in 0 .. h : After(u)[k] = After(list)[k]
<1>0. /\ Len(list) \in Nat /\ i \in 1 .. Len(list) /\ h \in 0 .. i - 1 /\ x \in {0, 1}
      /\ Len(u) = Len(list) + 3 + x
  BY MovePlaces
<1>1. \A k \in 1 .. h : u[k] = list[k]
  BY DEF Move, Moved
<1>2. Len(u) \in Nat /\ h \in 0 .. Len(u) /\ h <= Len(list)
  BY <1>0
<1> QED BY <1>0, <1>1, <1>2, AfterPrefix

\* The configurations of the segment, in both places.
LEMMA MoveRow ==
  ASSUME NEW u, NEW i, NEW s, NEW p, NEW w, NEW h, NEW x, Move(u, i, s, p, w, h, x)
  PROVE  \A j \in 0 .. 6 :
           Row(After(list)[h], After(list)[s], p, After(u)[h + 2 + j], After(list)[s + j])
<1>0. /\ Listing(list) /\ Len(list) \in Nat /\ i \in 1 .. Len(list) /\ s \in i + 1 .. Len(list)
      /\ s + 6 <= Len(list) /\ p \in Ports /\ p # 0
      /\ w \in 1 .. i - 1 /\ h \in 0 .. i - 1 /\ x \in {0, 1}
      /\ Len(u) = Len(list) + 3 + x
  BY MovePlaces
<1>1. Listing(u)
  BY MoveListing
<1>n. Len(u) \in Nat /\ h + 8 \in 0 .. Len(u) /\ h \in 0 .. Len(list) /\ s \in 1 .. Len(list)
      /\ s \in h .. s /\ h \in h .. s /\ h \in Nat /\ s \in Nat
  BY <1>0
<1> DEFINE b == After(list)[h]
           x0 == After(list)[s]
           y0 == After(u)[h + 2]
           G == {j \in 0 .. 6 : Row(b, x0, p, After(u)[h + 2 + j], After(list)[s + j])}
<1>2. /\ b \in States /\ x0 \in States /\ p \notin b.open /\ p \notin x0.open /\ b.cache[p] = <<>>
  <2>1. b \in States /\ Emptied(b) /\ x0 \in States
    BY <1>0, <1>n, StatesAlong
  <2>2. p \notin b.open /\ p \notin x0.open
    BY <1>n, ClosedAlong
  <2> QED BY <1>0, <2>1, <2>2 DEF Emptied
<1>3. list[s].op = "addr" /\ list[s].port = p /\ list[s].sub = 2 /\ list[s] \in Plain
  <2>1. list[s].op = "addr" /\ list[s].port = p /\ list[s].sub = 2
    BY DEF Move, Movable
  <2>2. list[s] \in Plain
    BY <1>0, <1>n, ListingNodes
  <2> QED BY <2>1, <2>2
<1>4. x0.port = p /\ x0.sub = 2
  <2>1. Port(list, s) = p /\ Sub(list, s) = 2
    BY <1>0, <1>3, <1>n, PortSteps
  <2> QED BY <2>1 DEF Port, Sub
<1>5. /\ y0 \in States /\ y0.port = p /\ y0.sub = 2 /\ y0.open = b.open \cup {p}
      /\ y0.cache = b.cache /\ y0.seen = b.seen
  <2> DEFINE v == Execute(b, list[s])
             c == Command("cacheStart")
  <2>1. After(u)[h] = b
    <3>1. h \in 0 .. h
      BY <1>n
    <3> QED BY <3>1, MoveFront
  <2>2. u[h + 1] = list[s] /\ u[h + 2] = c
    BY DEF Move, Moved
  <2>3. After(u)[h + 1] = v
    <3>1. h \in 0 .. Len(u) - 1
      BY <1>n
    <3> QED BY <1>n, <2>1, <2>2, <3>1, AfterNext
  <2>4. y0 = Execute(v, c)
    <3>1. h + 1 \in 0 .. Len(u) - 1 /\ (h + 1) + 1 = h + 2
      BY <1>n
    <3>2. After(u)[(h + 1) + 1] = Execute(After(u)[h + 1], u[(h + 1) + 1])
      BY <1>n, <3>1, AfterNext
    <3> QED BY <2>2, <2>3, <3>1, <3>2
  <2>5. /\ v \in States /\ v.port = p /\ v.sub = 2 /\ v.open = b.open
        /\ v.cache = b.cache /\ v.seen = b.seen
    BY <1>2, <1>3, ExecuteAddr
  <2>6. c \in Plain /\ c.op = "command" /\ c.what = "cacheStart"
    <3>1. 0 \in 0 .. 2 /\ p \in Ports \cup {0}
      BY <1>0
    <3> QED BY <3>1, AddedNodes DEF Command, Node
  <2> HIDE DEF v, c, y0, b
  <2>7. v \in States /\ v.port # 0
    BY <1>0, <2>5
  <2>8. /\ y0 \in States /\ y0.port = v.port /\ y0.sub = v.sub
        /\ y0.open = v.open \cup {v.port} /\ y0.cache = v.cache /\ y0.seen = v.seen
    BY ONLY <2>4, <2>6, <2>7, StartParts
  <2> QED BY <2>5, <2>8
<1>6. 0 \in G
  <2>1. h + 2 + 0 = h + 2 /\ s + 0 = s
    BY <1>n
  <2> HIDE DEF y0, x0, b
  <2>2. Row(b, x0, p, y0, x0)
    <3>1. /\ b.cache \in [Ports -> Seq(Events)] /\ x0.seen \in [Ports -> Seq(Events)]
      BY <1>2, StateParts
    <3>2. y0.cache = [b.cache EXCEPT ![p] = y0.cache[p]]
      BY <1>5, <3>1
    <3>3. x0.seen[p] \o y0.cache[p] = x0.seen[p]
      <4> DEFINE S == Events
                 a == x0.seen[p]
      <4> HIDE DEF S
      <4>1. x0.seen \in [Ports -> Seq(S)]
        BY <3>1 DEF S
      <4>2. a \in Seq(S)
        BY <1>0, <4>1
      <4> HIDE DEF a
      <4>3. a \o <<>> = a
        BY ONLY <4>2
      <4>4. y0.cache[p] = <<>>
        BY <1>2, <1>5
      <4> QED BY <4>3, <4>4 DEF a
    <3>4. x0.seen = [x0.seen EXCEPT ![p] = x0.seen[p] \o y0.cache[p]]
      <4> DEFINE H == x0.seen
                 a == x0.seen[p] \o y0.cache[p]
      <4>1. H \in [Ports -> Seq(Events)] /\ a = H[p]
        BY <3>1, <3>3
      <4> HIDE DEF H, a
      <4>2. H = [H EXCEPT ![p] = a]
        BY <4>1
      <4> QED BY <4>2 DEF H, a
    <3> QED BY <1>2, <1>4, <1>5, <3>2, <3>4 DEF Row
  <2>3. Row(b, x0, p, After(u)[h + 2 + 0], After(list)[s + 0])
    BY <2>1, <2>2 DEF x0, y0
  <2> QED BY <2>3
<1>7. ASSUME NEW j \in 0 .. 5, j \in G PROVE j + 1 \in G
  <2> DEFINE n == list[s + (j + 1)]
  <2>1. n \in Plain /\ n.op \in {"nothing", "config"} /\ u[h + 2 + (j + 1)] = n
    <3>1. j + 1 \in 1 .. 6 /\ s + (j + 1) \in 1 .. Len(list)
      BY <1>0
    <3>2. n \in Plain
      BY <1>0, <3>1, ListingNodes
    <3>3. ConfigsBehind(list, s)
      BY DEF Move, Movable
    <3>4. s + (j + 1) = s + 1 \/ s + (j + 1) \in s + 2 .. s + 6
      BY <1>n
    <3>5. n.op \in {"nothing", "config"}
      BY <3>3, <3>4 DEF ConfigsBehind
    <3>6. \A k \in 1 .. 6 : u[h + 2 + k] = list[s + k]
      BY DEF Move, Moved
    <3> QED BY <3>1, <3>2, <3>5, <3>6
  <2>2. After(u)[h + 2 + (j + 1)] = Execute(After(u)[h + 2 + j], n)
    <3>1. h + 2 + j \in 0 .. Len(u) - 1 /\ (h + 2 + j) + 1 = h + 2 + (j + 1)
      BY <1>0
    <3>2. After(u)[(h + 2 + j) + 1] = Execute(After(u)[h + 2 + j], u[(h + 2 + j) + 1])
      BY <1>n, <3>1, AfterNext
    <3> QED BY <2>1, <3>1, <3>2
  <2>3. After(list)[s + (j + 1)] = Execute(After(list)[s + j], n)
    <3>1. s + j \in 0 .. Len(list) - 1 /\ (s + j) + 1 = s + (j + 1)
      BY <1>0
    <3>2. After(list)[(s + j) + 1] = Execute(After(list)[s + j], list[(s + j) + 1])
      BY <1>0, <3>1, AfterNext
    <3> QED BY <3>1, <3>2
  <2>4. Row(b, x0, p, After(u)[h + 2 + j], After(list)[s + j])
    BY <1>7
  <2> HIDE DEF b, x0, n
  <2>5. Row(b, x0, p, Execute(After(u)[h + 2 + j], n), Execute(After(list)[s + j], n))
    BY <1>0, <1>2, <2>1, <2>4, RowStep
  <2>6. Row(b, x0, p, After(u)[h + 2 + (j + 1)], After(list)[s + (j + 1)])
    BY <2>2, <2>3, <2>5
  <2>7. j + 1 \in 0 .. 6
    OBVIOUS
  <2> QED BY <2>6, <2>7
<1> HIDE DEF G
<1>8. \A j \in 0 .. 6 : j \in G
  <2>1. 6 - 1 = 5 /\ 0 \in Nat /\ 6 \in Nat
    OBVIOUS
  <2> QED BY <1>6, <1>7, <2>1, Climb
<1> QED BY <1>8 DEF G

\* In between the states differ in the cache of the port only.
LEMMA MoveSim ==
  ASSUME NEW u, NEW i, NEW s, NEW p, NEW w, NEW h, NEW x, Move(u, i, s, p, w, h, x)
  PROVE  \A k \in w .. s - 1 :
           Sim(p, After(u)[h + 8].cache[p], After(list)[k], After(u)[k + 8 + x])
<1>0. /\ Listing(list) /\ Len(list) \in Nat /\ i \in 1 .. Len(list) /\ s \in i + 1 .. Len(list)
      /\ s + 6 <= Len(list) /\ p \in Ports /\ p # 0
      /\ w \in 1 .. i - 1 /\ h \in 0 .. i - 1 /\ x \in {0, 1}
      /\ x = 0 => h + 1 = w /\ list[w].op = "addr"
      /\ x = 1 => h = w /\ list[w].op \in {"command", "config"}
      /\ Len(u) = Len(list) + 3 + x
  BY MovePlaces
<1>1. Listing(u)
  BY MoveListing
<1>n. /\ Len(u) \in Nat /\ h + 8 \in 0 .. Len(u) /\ h \in 0 .. Len(list) /\ h + 8 \in 0 .. Len(u) - 1
      /\ (h + 8) + 1 = w + 8 + x /\ h \in h .. s /\ w \in 1 .. Len(list) /\ w \in 0 .. Len(list)
      /\ i \in w .. Len(list) /\ w \in Nat /\ s - 1 \in Nat /\ h \in Nat
      /\ h + 2 + 6 = h + 8 /\ w + 8 + x \in 1 .. Len(u)
  BY <1>0
<1> DEFINE b == After(list)[h]
           y == After(u)[h + 8]
           cfg == y.cache[p]
           G == {k \in w .. s - 1 : Sim(p, cfg, After(list)[k], After(u)[k + 8 + x])}
<1>2. b \in States /\ p \notin b.open
  BY <1>0, <1>n, StatesAlong, ClosedAlong
<1>3. /\ y \in States /\ y.open = b.open \cup {p} /\ y.seen = b.seen
      /\ y.cache = [b.cache EXCEPT ![p] = cfg] /\ cfg \in Seq(Events)
  <2>1. 6 \in 0 .. 6
    OBVIOUS
  <2>2. Row(b, After(list)[s], p, After(u)[h + 2 + 6], After(list)[s + 6])
    BY <2>1, MoveRow
  <2>3. Row(b, After(list)[s], p, y, After(list)[s + 6])
    BY <1>n, <2>2
  <2> HIDE DEF y, b
  <2>4. y \in States
    BY <2>3 DEF Row
  <2>5. y.cache \in [Ports -> Seq(Events)]
    BY <2>4, StateParts
  <2> QED BY <1>0, <2>3, <2>5 DEF Row
<1>4. u[w + 8 + x] = IF x = 0 THEN list[w] ELSE Addr(Addressed(i), 0)
  <2>1. CASE x = 0
    <3>1. w \in h + 1 .. s - 1
      BY <1>0, <2>1
    <3> QED BY <2>1, <3>1 DEF Move, Moved
  <2>2. CASE x = 1
    <3>1. u[h + 9] = Addr(Addressed(i), 0)
      BY <2>2 DEF Move, Moved
    <3>2. h + 9 = w + 8 + x
      BY <1>n
    <3> QED BY <2>2, <3>1, <3>2
  <2> QED BY <1>0, <2>1, <2>2
<1>5. w \in G
  <2> DEFINE v == After(list)[w]
             z == After(u)[w + 8 + x]
             n == u[w + 8 + x]
  <2>1. z = Execute(y, n)
    <3>1. After(u)[(h + 8) + 1] = Execute(y, u[(h + 8) + 1])
      BY <1>n, AfterNext
    <3> QED BY <1>n, <3>1
  <2>2. n \in Plain /\ n.op = "addr"
    <3>1. n \in Plain
      BY <1>1, <1>n, ListingNodes
    <3>2. Addr(Addressed(i), 0).op = "addr"
      BY DEF Addr, Node
    <3> QED BY <1>0, <1>4, <3>1, <3>2
  <2>3. /\ z \in States /\ z.port = n.port /\ z.sub = n.sub /\ z.open = y.open
        /\ z.cache = y.cache /\ z.seen = y.seen
    <3> HIDE DEF y, n, z
    <3> QED BY <1>3, <2>1, <2>2, ExecuteAddr
  <2>4. /\ v \in States /\ v.port = n.port /\ v.sub = n.sub /\ v.open = b.open
        /\ v.cache = b.cache /\ v.seen = b.seen
    <3>1. CASE x = 0
      <4>1. h \in 0 .. Len(list) - 1 /\ h + 1 = w
        BY <1>0, <3>1
      <4>2. v = Execute(b, list[w])
        BY <1>0, <4>1, AfterNext
      <4>3. n = list[w]
        BY <1>4, <3>1
      <4> HIDE DEF v, n, b
      <4> QED BY <1>2, <2>2, <4>2, <4>3, ExecuteAddr
    <3>2. CASE x = 1
      <4>1. v = b
        BY <1>0, <3>2
      <4>2. \A k \in w + 1 .. i : list[k].op # "addr"
        BY DEF Move, Goes
      <4>3. i \in w .. i
        BY <1>0
      <4>4. Port(list, i) = Port(list, w) /\ Sub(list, i) = Sub(list, w)
        BY <1>0, <1>n, <4>2, <4>3, PortKept
      <4>5. Port(list, i) = Addressed(i) /\ Sub(list, i) = 0
        BY WaitPort DEF Move
      <4>6. v.port = Addressed(i) /\ v.sub = 0
        BY <4>4, <4>5 DEF Port, Sub
      <4>7. n.port = Addressed(i) /\ n.sub = 0
        <5>1. n = Addr(Addressed(i), 0)
          BY <1>4, <3>2
        <5> HIDE DEF n
        <5> QED BY <5>1 DEF Addr, Node
      <4> QED BY <1>2, <4>1, <4>6, <4>7
    <3> QED BY <1>0, <3>1, <3>2
  <2> HIDE DEF v, z, n, y, b, cfg
  <2>5. Sim(p, cfg, v, z)
    BY <1>2, <1>3, <2>3, <2>4 DEF Sim
  <2>6. w \in w .. s - 1
    BY <1>0
  <2> QED BY <2>5, <2>6 DEF v, z
<1>6. ASSUME NEW k \in w .. s - 2, k \in G PROVE k + 1 \in G
  <2> DEFINE v == After(list)[k]
             z == After(u)[k + 8 + x]
             n == list[k + 1]
  <2>1. /\ k \in 0 .. Len(list) - 1 /\ k + 8 + x \in 0 .. Len(u) - 1
        /\ (k + 8 + x) + 1 = (k + 1) + 8 + x /\ k + 1 \in h + 1 .. s - 1 /\ k + 1 \in 1 .. Len(list)
        /\ k + 1 \in w .. s - 1 /\ (k + 1) - 1 = k
    <3>1. /\ k \in Nat /\ w <= k /\ k + 2 <= s /\ s + 6 <= Len(list) /\ h \in Nat /\ h <= w
          /\ x \in Nat /\ w \in Nat /\ s \in Nat
      BY <1>0
    <3>2. Len(u) = Len(list) + 3 + x /\ Len(list) \in Nat
      BY <1>0
    <3>3. w >= 1
      BY <1>0
    <3> QED BY ONLY <3>1, <3>2, <3>3
  <2>2. After(list)[k + 1] = Execute(v, n)
    BY <1>0, <2>1, AfterNext
  <2>3. After(u)[(k + 1) + 8 + x] = Execute(z, n)
    <3>1. u[(k + 1) + 8 + x] = n
      BY <2>1 DEF Move, Moved
    <3>2. After(u)[(k + 8 + x) + 1] = Execute(z, u[(k + 8 + x) + 1])
      BY <1>n, <2>1, AfterNext
    <3> QED BY <2>1, <3>1, <3>2
  <2>4. n \in Plain /\ (n.op = "command" => n.what \in Commands)
    BY <1>0, <2>1, ListingNodes
  <2>5. v.port = p => ~IsCommand(n, Restart) /\ n.op # "config"
    <3> SUFFICES ASSUME v.port = p PROVE ~IsCommand(n, Restart) /\ n.op # "config"
      OBVIOUS
    <3>1. CASE k + 1 <= i
      <4>1. k + 1 \in w + 1 .. i
        BY <1>0, <3>1
      <4> QED BY <4>1 DEF Move, Goes, IsCommand
    <3>2. CASE k + 1 > i
      <4>1. k + 1 \in i + 1 .. s - 1
        BY <1>0, <2>1, <3>2
      <4>2. CASE n.op = "addr"
        BY <4>2 DEF IsCommand
      <4>3. CASE n.op # "addr"
        <5>1. Port(list, k + 1) = p
          BY <1>0, <2>1, <4>3, PortSteps DEF Port
        <5> QED BY <4>1, <5>1 DEF Move, Movable
      <4> QED BY <4>2, <4>3
    <3> QED BY <1>0, <2>1, <3>1, <3>2
  <2>6. Sim(p, cfg, v, z)
    BY <1>6
  <2> HIDE DEF v, z, n, cfg, y, b
  <2>7. Sim(p, cfg, Execute(v, n), Execute(z, n))
    BY <1>0, <1>3, <2>4, <2>5, <2>6, SimStep
  <2> QED BY <2>1, <2>2, <2>3, <2>7
<1> HIDE DEF G
<1>7. \A k \in w .. s - 1 : k \in G
  <2>1. (s - 1) - 1 = s - 2
    BY <1>0
  <2> QED BY <1>n, <1>5, <1>6, <2>1, Climb
<1> QED BY <1>7 DEF G

\* Behind the segment's old place the states are the same again.
LEMMA MoveBehind ==
  ASSUME NEW u, NEW i, NEW s, NEW p, NEW w, NEW h, NEW x, Move(u, i, s, p, w, h, x)
  PROVE  /\ Port(u, s + 8 + x) = p /\ Sub(u, s + 8 + x) = 2
         /\ \A k \in s + 6 .. Len(list) : After(list)[k] = After(u)[k + 3 + x]
<1>0. /\ Listing(list) /\ Len(list) \in Nat /\ i \in 1 .. Len(list) /\ s \in i + 1 .. Len(list)
      /\ s + 6 <= Len(list) /\ p \in Ports /\ p # 0
      /\ w \in 1 .. i - 1 /\ h \in 0 .. i - 1 /\ x \in {0, 1}
      /\ Len(u) = Len(list) + 3 + x
  BY MovePlaces
<1>1. Listing(u)
  BY MoveListing
<1>n. /\ Len(u) \in Nat /\ s - 1 \in w .. s - 1 /\ s - 1 \in 0 .. Len(list) - 1 /\ (s - 1) + 1 = s
      /\ (s - 1) + 8 + x = s + 7 + x /\ s + 7 + x \in 0 .. Len(u) - 1 /\ (s + 7 + x) + 1 = s + 8 + x
      /\ s + 8 + x \in 0 .. Len(u) - 1 /\ (s + 8 + x) + 1 = s + 9 + x /\ s + 6 \in 0 .. Len(list)
      /\ s + 9 + x \in 0 .. Len(u) /\ s + 8 + x \in 1 .. Len(u) /\ s + 9 + x \in 1 .. Len(u)
      /\ s - 1 \in 0 .. Len(list) /\ s \in 1 .. Len(list) /\ (s + 6) + (3 + x) = s + 9 + x
      /\ h + 2 + 6 = h + 8
  <2>1. /\ s \in Nat /\ w \in Nat /\ h \in Nat /\ x \in Nat /\ Len(list) \in Nat /\ 2 <= s
        /\ w <= s - 1 /\ s + 6 <= Len(list) /\ x <= 1 /\ Len(u) = Len(list) + 3 + x
    BY <1>0
  <2> QED BY ONLY <2>1
<1> DEFINE v == After(list)[s - 1]
           z == After(u)[s + 7 + x]
           y == After(u)[h + 8]
           cfg == y.cache[p]
           v1 == After(list)[s]
           v2 == After(list)[s + 6]
           z1 == After(u)[s + 8 + x]
           z2 == After(u)[s + 9 + x]
<1>2. Sim(p, cfg, v, z)
  <2>1. Sim(p, cfg, After(list)[s - 1], After(u)[(s - 1) + 8 + x])
    BY <1>n, MoveSim
  <2> QED BY <1>n, <2>1
<1>3. v1 = Execute(v, list[s]) /\ list[s] \in Plain /\ list[s].op = "addr"
      /\ list[s].port = p /\ list[s].sub = 2
  <2>1. After(list)[(s - 1) + 1] = Execute(v, list[(s - 1) + 1])
    BY <1>0, <1>n, AfterNext
  <2>2. list[s] \in Plain
    BY <1>0, <1>n, ListingNodes
  <2>3. list[s].op = "addr" /\ list[s].port = p /\ list[s].sub = 2
    BY DEF Move, Movable
  <2> QED BY <1>n, <2>1, <2>2, <2>3
<1>4. z1 = Execute(z, Addr(p, 2)) /\ Addr(p, 2) \in Plain /\ Addr(p, 2).op = "addr"
      /\ Addr(p, 2).port = p /\ Addr(p, 2).sub = 2
  <2>1. After(u)[(s + 7 + x) + 1] = Execute(z, u[(s + 7 + x) + 1])
    BY <1>n, AfterNext
  <2>2. u[s + 8 + x] = Addr(p, 2)
    BY DEF Move, Moved
  <2>3. Addr(p, 2) \in Plain
    BY <1>1, <1>n, <2>2, ListingNodes
  <2>4. Addr(p, 2).op = "addr" /\ Addr(p, 2).port = p /\ Addr(p, 2).sub = 2
    BY DEF Addr, Node
  <2> QED BY <1>n, <2>1, <2>2, <2>3, <2>4
<1>5. LET c == Command("cacheFinish") IN
      z2 = Execute(z1, c) /\ c \in Plain /\ c.op = "command" /\ c.what = "cacheFinish"
  <2>1. After(u)[(s + 8 + x) + 1] = Execute(z1, u[(s + 8 + x) + 1])
    BY <1>n, AfterNext
  <2>2. u[s + 9 + x] = Command("cacheFinish")
    BY DEF Move, Moved
  <2>3. Command("cacheFinish") \in Plain
    BY <1>1, <1>n, <2>2, ListingNodes
  <2>4. Command("cacheFinish").op = "command" /\ Command("cacheFinish").what = "cacheFinish"
    BY DEF Command, Node
  <2> QED BY <1>n, <2>1, <2>2, <2>3, <2>4
<1>6. Row(After(list)[h], v1, p, y, v2)
  <2>1. 6 \in 0 .. 6
    OBVIOUS
  <2>2. Row(After(list)[h], v1, p, After(u)[h + 2 + 6], v2)
    BY <2>1, MoveRow
  <2> QED BY <1>n, <2>2
<1>7. Emptied(v)
  BY <1>0, <1>n, StatesAlong
<1>8. /\ v \in States /\ z \in States /\ z.seen = v.seen
      /\ p \notin v.open /\ z.open = v.open \cup {p} /\ z.cache = [v.cache EXCEPT ![p] = cfg]
  BY <1>2 DEF Sim
<1> HIDE DEF v, z, cfg, v1, v2, z1, z2, y
<1>9. /\ v1.open = v.open /\ v1.cache = v.cache /\ v1.seen = v.seen
  BY <1>3, <1>8, ExecuteAddr
<1>10. /\ v2 \in States /\ v2.port = p /\ v2.sub = 2 /\ v2.open = v1.open /\ v2.cache = v1.cache
       /\ v2.seen = [v1.seen EXCEPT ![p] = v1.seen[p] \o cfg]
  BY <1>6 DEF Row, cfg
<1>11. /\ z1 \in States /\ z1.port = p /\ z1.sub = 2 /\ z1.open = z.open /\ z1.cache = z.cache
       /\ z1.seen = z.seen
  BY <1>4, <1>8, ExecuteAddr
<1>12. /\ z2 \in States /\ z2.port = p /\ z2.sub = 2 /\ z2.open = z1.open \ {p}
       /\ z2.cache = [z1.cache EXCEPT ![p] = <<>>]
       /\ z2.seen = [z1.seen EXCEPT ![p] = z1.seen[p] \o z1.cache[p]]
  <2> DEFINE c == Command("cacheFinish")
  <2>1. z1 \in States /\ c \in Plain /\ z1.port # 0 /\ c.op = "command" /\ c.what = "cacheFinish"
    BY <1>0, <1>5, <1>11
  <2>2. z2 = Execute(z1, c)
    BY <1>5
  <2> HIDE DEF c
  <2>3. Finished(z1, z2)
    BY ONLY <2>1, <2>2, FinishParts
  <2> QED BY <1>11, <2>3 DEF Finished
<1>13. z2 = v2
  <2>1. v.cache \in [Ports -> Seq(Events)] /\ v.seen \in [Ports -> Seq(Events)]
    BY <1>8, StateParts
  <2>2. v.cache[p] = <<>>
    BY <1>0, <1>7, <1>8 DEF Emptied
  <2>3. z1.cache[p] = cfg
    BY <1>0, <1>8, <1>11, <2>1
  <2>4. z2.seen = v2.seen
    BY <1>8, <1>9, <1>10, <1>11, <1>12, <2>3
  <2>5. z2.cache = v2.cache
    <3>1. z2.cache = [[v.cache EXCEPT ![p] = cfg] EXCEPT ![p] = <<>>]
      BY <1>8, <1>11, <1>12
    <3>2. [[v.cache EXCEPT ![p] = cfg] EXCEPT ![p] = <<>>] = v.cache
      <4> DEFINE C == v.cache
      <4>1. C \in [Ports -> Seq(Events)] /\ C[p] = <<>>
        BY <2>1, <2>2
      <4> HIDE DEF C
      <4>2. [[C EXCEPT ![p] = cfg] EXCEPT ![p] = <<>>] = C
        BY <1>0, <4>1
      <4> QED BY <4>2 DEF C
    <3> QED BY <1>9, <1>10, <3>1, <3>2
  <2>6. z2.open = v2.open
    BY <1>8, <1>9, <1>10, <1>11, <1>12
  <2>7. v2 \in States /\ z2 \in States /\ v2.port = z2.port /\ v2.sub = z2.sub
    BY <1>10, <1>12
  <2> QED BY <2>4, <2>5, <2>6, <2>7, StatesEqual
<1>14. \A k \in s + 6 .. Len(list) : After(list)[k] = After(u)[k + (3 + x)]
  <2> DEFINE a == s + 6
             d == 3 + x
  <2>1. Len(list) \in Nat /\ Len(u) \in Nat /\ Len(u) = Len(list) + d /\ d \in Nat
    BY <1>0, <1>n
  <2>a. a \in 0 .. Len(list)
    BY <1>n
  <2>2. After(list)[a] = After(u)[a + d]
    BY <1>n, <1>13 DEF v2, z2
  <2>3. \A k \in a + 1 .. Len(list) : list[k] = u[k + d]
    <3>1. \A k \in s + 7 .. Len(list) : u[k + 3 + x] = list[k]
      BY DEF Move, Moved
    <3>2. \A k \in a + 1 .. Len(list) : k \in s + 7 .. Len(list) /\ k + 3 + x = k + d
      BY <1>0
    <3> QED BY <3>1, <3>2
  <2> HIDE DEF a, d
  <2>4. \A k \in a .. Len(list) : After(list)[k] = After(u)[k + d]
    BY ONLY <2>1, <2>a, <2>2, <2>3, AfterShift, SMTT(60)
  <2> QED BY <2>4 DEF a, d
<1>15. \A k \in s + 6 .. Len(list) : k + (3 + x) = k + 3 + x
  BY <1>0
<1> QED BY <1>11, <1>14, <1>15 DEF Port, Sub, z1

\* The optimisation is not seen.
LEMMA MoveSeen ==
  ASSUME NEW u, NEW i, NEW s, NEW p, NEW w, NEW h, NEW x, Move(u, i, s, p, w, h, x)
  PROVE  Seen(u) = Seen(list)
<1>0. Len(list) \in Nat /\ s + 6 <= Len(list) /\ Len(u) = Len(list) + 3 + x /\ s \in Nat
  <2>1. i \in 1 .. Len(list) /\ s \in i + 1 .. Len(list) /\ Len(list) \in Nat
    BY MovePlaces
  <2> QED BY <2>1, MovePlaces
<1>1. Len(list) \in s + 6 .. Len(list)
  BY <1>0
<1>2. After(list)[Len(list)] = After(u)[Len(u)]
  BY <1>0, <1>1, MoveBehind
<1> QED BY <1>2, SeenIs

-----------------------------------------------------------------------------
(* The structure is kept by a step of the optimisation.                    *)

\* Where the k-th node goes.
To(k, s, h, x) ==
  IF k <= h THEN k ELSE IF k < s THEN k + 8 + x ELSE IF k = s THEN h + 1
  ELSE IF k <= s + 6 THEN (k - s) + h + 2 ELSE k + 3 + x

\* The segment's own port, in its old place and in its new one.
LEMMA MoveSegment ==
  ASSUME NEW u, NEW i, NEW s, NEW p, NEW w, NEW h, NEW x, Move(u, i, s, p, w, h, x)
  PROVE  /\ \A j \in 0 .. 6 : /\ Port(list, s + j) = p /\ Sub(list, s + j) = 2
                              /\ Port(u, h + 2 + j) = p /\ Sub(u, h + 2 + j) = 2
         /\ Port(u, h + 1) = p /\ Sub(u, h + 1) = 2
<1>0. /\ Listing(list) /\ Len(list) \in Nat /\ i \in 1 .. Len(list) /\ s \in i + 1 .. Len(list)
      /\ s + 6 <= Len(list) /\ h \in 0 .. i - 1 /\ x \in {0, 1} /\ Len(u) = Len(list) + 3 + x
  BY MovePlaces
<1>1. Listing(u)
  BY MoveListing
<1>2. ASSUME NEW j \in 0 .. 6
      PROVE  /\ Port(list, s + j) = p /\ Sub(list, s + j) = 2
             /\ Port(u, h + 2 + j) = p /\ Sub(u, h + 2 + j) = 2
  <2>1. Row(After(list)[h], After(list)[s], p, After(u)[h + 2 + j], After(list)[s + j])
    BY MoveRow
  <2> QED BY <2>1 DEF Row, Port, Sub
<1>3. Port(u, h + 1) = p /\ Sub(u, h + 1) = 2
  <2>1. h + 1 \in 1 .. Len(u)
    BY <1>0
  <2>2. u[h + 1] = list[s] /\ list[s].op = "addr" /\ list[s].port = p /\ list[s].sub = 2
    BY DEF Move, Moved, Movable
  <2> QED BY <1>1, <2>1, <2>2, PortSteps
<1> QED BY <1>2, <1>3

\* It is the same node there, for the same port.
Same(u, k, t) == /\ t \in 1 .. Len(u) /\ u[t] = list[k]
                 /\ Port(u, t) = Port(list, k) /\ Sub(u, t) = Sub(list, k)

\* Every node is.
LEMMA MoveTo ==
  ASSUME NEW u, NEW i, NEW s, NEW p, NEW w, NEW h, NEW x, Move(u, i, s, p, w, h, x),
         NEW k \in 1 .. Len(list)
  PROVE  Same(u, k, To(k, s, h, x))
<1>0. /\ Listing(list) /\ Len(list) \in Nat /\ i \in 1 .. Len(list) /\ s \in i + 1 .. Len(list)
      /\ s + 6 <= Len(list) /\ p \in Ports /\ p # 0
      /\ w \in 1 .. i - 1 /\ h \in 0 .. i - 1 /\ x \in {0, 1}
      /\ x = 0 => h + 1 = w
      /\ x = 1 => h = w
      /\ Len(u) = Len(list) + 3 + x
  BY MovePlaces
<1>n. h \in Nat /\ s \in Nat /\ h < s /\ x \in Nat /\ k \in Nat /\ w <= h + 1
  BY <1>0
<1>1. CASE k <= h
  <2>1. To(k, s, h, x) = k
    BY <1>1 DEF To
  <2>2. k \in 1 .. h /\ k \in 0 .. h /\ k \in 1 .. Len(u)
    BY <1>0, <1>1
  <2>3. u[k] = list[k]
    BY <2>2 DEF Move, Moved
  <2>4. After(u)[k] = After(list)[k]
    BY <2>2, MoveFront
  <2> QED BY <2>1, <2>2, <2>3, <2>4 DEF Same, Port, Sub
<1>2. CASE k > h /\ k < s
  <2> DEFINE t == k + 8 + x
  <2>1. To(k, s, h, x) = t
    BY <1>2, <1>n DEF To
  <2>2. k \in h + 1 .. s - 1 /\ k \in w .. s - 1 /\ t \in 1 .. Len(u)
    BY <1>0, <1>2, <1>n
  <2>3. u[t] = list[k]
    BY <2>2 DEF Move, Moved
  <2>4. Sim(p, After(u)[h + 8].cache[p], After(list)[k], After(u)[t])
    BY <2>2, MoveSim
  <2>5. Port(u, t) = Port(list, k) /\ Sub(u, t) = Sub(list, k)
    BY <2>4 DEF Sim, Port, Sub
  <2> HIDE DEF t
  <2> QED BY <2>1, <2>2, <2>3, <2>5 DEF Same
<1>3. CASE k = s
  <2>1. To(k, s, h, x) = h + 1 /\ h + 1 \in 1 .. Len(u) /\ s + 0 = s /\ 0 \in 0 .. 6
    BY <1>0, <1>3, <1>n DEF To
  <2>2. u[h + 1] = list[k]
    BY <1>3 DEF Move, Moved
  <2>3. Port(list, s + 0) = p /\ Sub(list, s + 0) = 2 /\ Port(u, h + 1) = p /\ Sub(u, h + 1) = 2
    BY <2>1, MoveSegment
  <2> QED BY <1>3, <2>1, <2>2, <2>3 DEF Same
<1>4. CASE k > s /\ k <= s + 6
  <2> DEFINE j == k - s
             t == h + 2 + j
  <2>1. j \in 1 .. 6 /\ j \in 0 .. 6 /\ s + j = k /\ t \in 1 .. Len(u) /\ To(k, s, h, x) = t
    <3>1. To(k, s, h, x) = (k - s) + h + 2
      BY <1>4, <1>n DEF To
    <3> QED BY <1>0, <1>4, <1>n, <3>1
  <2> HIDE DEF j
  <2>2. u[h + 2 + j] = list[s + j]
    BY <2>1 DEF Move, Moved
  <2>3. /\ Port(list, s + j) = p /\ Sub(list, s + j) = 2
        /\ Port(u, h + 2 + j) = p /\ Sub(u, h + 2 + j) = 2
    BY <2>1, MoveSegment
  <2> QED BY <2>1, <2>2, <2>3 DEF Same
<1>5. CASE k > s + 6
  <2> DEFINE t == k + 3 + x
  <2>1. To(k, s, h, x) = t
    BY <1>5, <1>n DEF To
  <2>2. k \in s + 7 .. Len(list) /\ k \in s + 6 .. Len(list) /\ t \in 1 .. Len(u)
    BY <1>0, <1>5, <1>n
  <2>3. u[t] = list[k]
    BY <2>2 DEF Move, Moved
  <2>4. After(list)[k] = After(u)[t]
    BY <2>2, MoveBehind
  <2> HIDE DEF t
  <2> QED BY <2>1, <2>2, <2>3, <2>4 DEF Same, Port, Sub
<1> QED BY <1>1, <1>2, <1>3, <1>4, <1>5, <1>n

\* And that is all there is in the new list, but for the four nodes that are put in.
From(u, k, i, s, p, h, x) ==
  \/ \E j \in 1 .. Len(list) : k = To(j, s, h, x) /\ Same(u, j, k)
  \/ k = h + 2 /\ u[k] = Command("cacheStart") /\ Port(u, k) = p
  \/ x = 1 /\ k = h + 9 /\ u[k] = Addr(Addressed(i), 0)
  \/ k = s + 8 + x /\ u[k] = Addr(p, 2)
  \/ k = s + 9 + x /\ u[k] = Command("cacheFinish") /\ Port(u, k) = p

\* Every node of the new list.
LEMMA MoveFrom ==
  ASSUME NEW u, NEW i, NEW s, NEW p, NEW w, NEW h, NEW x, Move(u, i, s, p, w, h, x),
         NEW k \in 1 .. Len(u)
  PROVE  From(u, k, i, s, p, h, x)
<1>0. /\ Listing(list) /\ Len(list) \in Nat /\ i \in 1 .. Len(list) /\ s \in i + 1 .. Len(list)
      /\ s + 6 <= Len(list) /\ p \in Ports /\ p # 0
      /\ w \in 1 .. i - 1 /\ h \in 0 .. i - 1 /\ x \in {0, 1}
      /\ Len(u) = Len(list) + 3 + x
  BY MovePlaces
<1>n. h \in Nat /\ s \in Nat /\ h < s /\ x \in Nat
  BY <1>0
<1>1. Origin(k, s, h, x)
  <2>1. Move(u, i, s, p, w, h, x) /\ k \in 1 .. Len(u)
    OBVIOUS
  <2> QED BY ONLY <2>1, MoveCases
<1>2. ASSUME NEW j \in 1 .. Len(list), To(j, s, h, x) = k PROVE From(u, k, i, s, p, h, x)
  <2>1. Same(u, j, k)
    BY <1>2, MoveTo
  <2> QED BY <1>2, <2>1 DEF From
<1>3. CASE k \in 1 .. h
  <2>1. k \in 1 .. Len(list) /\ To(k, s, h, x) = k
    BY <1>0, <1>3 DEF To
  <2> QED BY <1>2, <2>1
<1>4. CASE k = h + 1
  <2>1. s \in 1 .. Len(list) /\ To(s, s, h, x) = k
    BY <1>0, <1>4, <1>n DEF To
  <2> QED BY <1>2, <2>1
<1>5. CASE k = h + 2
  <2>1. 0 \in 0 .. 6 /\ h + 2 + 0 = h + 2
    BY <1>n
  <2>2. Port(u, h + 2 + 0) = p
    BY <2>1, MoveSegment
  <2>3. u[h + 2] = Command("cacheStart")
    BY DEF Move, Moved
  <2> QED BY <1>5, <2>1, <2>2, <2>3 DEF From
<1>6. CASE \E j \in 1 .. 6 : k = h + 2 + j
  <2>1. PICK j \in 1 .. 6 : k = h + 2 + j
    BY <1>6
  <2>2. s + j \in 1 .. Len(list) /\ To(s + j, s, h, x) = k
    <3>1. ~(s + j <= h) /\ ~(s + j < s) /\ s + j # s /\ s + j <= s + 6 /\ (s + j) - s + h + 2 = k
      BY <1>n, <2>1
    <3>2. s + j \in 1 .. Len(list)
      BY <1>0
    <3> QED BY <3>1, <3>2 DEF To
  <2> QED BY <1>2, <2>2
<1>7. CASE x = 1 /\ k = h + 9
  <2>1. u[h + 9] = Addr(Addressed(i), 0)
    BY <1>7 DEF Move, Moved
  <2> QED BY <1>7, <2>1 DEF From
<1>8. CASE \E j \in h + 1 .. s - 1 : k = j + 8 + x
  <2>1. PICK j \in h + 1 .. s - 1 : k = j + 8 + x
    BY <1>8
  <2>2. j \in 1 .. Len(list) /\ ~(j <= h) /\ j < s
    BY <1>0
  <2>3. To(j, s, h, x) = k
    BY <2>1, <2>2 DEF To
  <2> QED BY <1>2, <2>2, <2>3
<1>9. CASE k = s + 8 + x
  <2>1. u[s + 8 + x] = Addr(p, 2)
    BY DEF Move, Moved
  <2> QED BY <1>9, <2>1 DEF From
<1>10. CASE k = s + 9 + x
  <2>1. u[s + 9 + x] = Command("cacheFinish") /\ u[s + 8 + x] = Addr(p, 2)
    BY DEF Move, Moved
  <2>2. s + 9 + x \in 1 .. Len(u) /\ (s + 9 + x) - 1 = s + 8 + x
    BY <1>0
  <2>3. Port(u, s + 9 + x) = Port(u, s + 8 + x)
    <3>1. u[s + 9 + x].op # "addr"
      BY <2>1 DEF Command, Node
    <3>2. Port(u, s + 9 + x) = Port(u, (s + 9 + x) - 1)
      <4>1. Listing(u)
        BY MoveListing
      <4> QED BY <2>2, <3>1, <4>1, PortSteps
    <3> QED BY <2>2, <3>2
  <2>4. Port(u, s + 8 + x) = p
    BY MoveBehind
  <2> QED BY <1>10, <2>1, <2>3, <2>4 DEF From
<1>11. CASE \E j \in s + 7 .. Len(list) : k = j + 3 + x
  <2>1. PICK j \in s + 7 .. Len(list) : k = j + 3 + x
    BY <1>11
  <2>2. j \in 1 .. Len(list) /\ ~(j <= h) /\ ~(j < s) /\ j # s /\ ~(j <= s + 6)
    BY <1>0
  <2>3. To(j, s, h, x) = k
    BY <2>1, <2>2 DEF To
  <2> QED BY <1>2, <2>2, <2>3
<1> QED BY <1>1, <1>3, <1>4, <1>5, <1>6, <1>7, <1>8, <1>9, <1>10, <1>11 DEF Origin

\* What is not moved keeps its order.
LEMMA ToOrder ==
  ASSUME NEW s \in Nat, NEW h \in Nat, h < s, NEW x \in Nat,
         NEW a \in Nat, NEW b \in Nat, a \notin s .. s + 6, b \notin s .. s + 6
  PROVE  a < b <=> To(a, s, h, x) < To(b, s, h, x)
<1>1. /\ a <= h => To(a, s, h, x) = a
      /\ a > h /\ a < s => To(a, s, h, x) = a + 8 + x
      /\ a > s + 6 => To(a, s, h, x) = a + 3 + x
  BY DEF To
<1>2. /\ b <= h => To(b, s, h, x) = b
      /\ b > h /\ b < s => To(b, s, h, x) = b + 8 + x
      /\ b > s + 6 => To(b, s, h, x) = b + 3 + x
  BY DEF To
<1>3. a <= h \/ (a > h /\ a < s) \/ a > s + 6
  OBVIOUS
<1>4. b <= h \/ (b > h /\ b < s) \/ b > s + 6
  OBVIOUS
<1> DEFINE A == To(a, s, h, x)
           B == To(b, s, h, x)
<1> HIDE DEF A, B
<1> SUFFICES a < b <=> A < B
  BY DEF A, B
<1>5. /\ a <= h => A = a
      /\ a > h /\ a < s => A = a + 8 + x
      /\ a > s + 6 => A = a + 3 + x
  BY <1>1 DEF A
<1>6. /\ b <= h => B = b
      /\ b > h /\ b < s => B = b + 8 + x
      /\ b > s + 6 => B = b + 3 + x
  BY <1>2 DEF B
<1>7. CASE a <= h
  BY <1>4, <1>5, <1>6, <1>7
<1>8. CASE a > h /\ a < s
  <2>1. CASE b > s + 6
    <3>1. A = a + 8 + x /\ B = b + 3 + x
      BY <1>5, <1>6, <1>8, <2>1
    <3>2. a <= s - 1 /\ b >= s + 7
      BY <1>8, <2>1
    <3> QED BY <3>1, <3>2
  <2> QED BY <1>4, <1>5, <1>6, <1>8, <2>1
<1>9. CASE a > s + 6
  BY <1>4, <1>5, <1>6, <1>9
<1> QED BY <1>3, <1>7, <1>8, <1>9

\* The m-th node and those behind it stay together.
Together(m, s, h, x) == \A j \in 0 .. 6 : To(m + j, s, h, x) = To(m, s, h, x) + j

\* A run of configurations does.
LEMMA MoveTogether ==
  ASSUME NEW u, NEW i, NEW s, NEW p, NEW w, NEW h, NEW x, Move(u, i, s, p, w, h, x),
         NEW m \in 1 .. Len(list), m # s, list[m].op \in {"addr", "command"},
         ConfigsBehind(list, m)
  PROVE  Together(m, s, h, x)
<1> SUFFICES ASSUME NEW j \in 0 .. 6 PROVE To(m + j, s, h, x) = To(m, s, h, x) + j
  BY DEF Together
<1>0. /\ Listing(list) /\ Len(list) \in Nat /\ i \in 1 .. Len(list) /\ s \in i + 1 .. Len(list)
      /\ s + 6 <= Len(list)
      /\ w \in 1 .. i - 1 /\ h \in 0 .. i - 1 /\ x \in {0, 1}
      /\ x = 0 => h + 1 = w /\ list[w].op = "addr"
      /\ x = 1 => h = w
      /\ list[i].op = "wait" /\ list[s].op = "addr"
  <2>1. list[i].op = "wait"
    BY WaitPort DEF Move
  <2>2. list[s].op = "addr"
    BY DEF Move, Movable
  <2> QED BY <2>1, <2>2, MovePlaces
<1>1. m + 6 <= Len(list) /\ list[m + 1].op = "nothing" /\ \A k \in m + 2 .. m + 6 : list[k].op = "config"
  BY DEF ConfigsBehind
<1>2. \A k \in m + 1 .. m + 6 : list[k].op \in {"nothing", "config"}
  <2>1. \A k \in m + 1 .. m + 6 : k = m + 1 \/ k \in m + 2 .. m + 6
    OBVIOUS
  <2> QED BY <1>1, <2>1
<1>3. CASE m <= i
  <2>1. m # i /\ i \notin m + 1 .. m + 6
    BY <1>0, <1>2
  <2>2. m + 6 < i
    BY <1>0, <1>3, <2>1
  <2>3. m + 6 <= w
    <3>1. m + 6 \in m + 2 .. m + 6
      OBVIOUS
    <3>2. list[m + 6].op = "config"
      BY <1>1, <3>1
    <3>3. m + 6 \notin w + 1 .. i
      BY <3>2 DEF Move, Goes
    <3> QED BY <1>0, <2>2, <3>3
  <2>4. m + 6 <= h
    <3>1. CASE x = 1
      BY <1>0, <2>3, <3>1
    <3>2. CASE x = 0
      <4>1. w \notin m + 1 .. m + 6
        BY <1>0, <1>2, <3>2
      <4> QED BY <1>0, <2>3, <3>2, <4>1
    <3> QED BY <1>0, <3>1, <3>2
  <2>5. m <= h /\ m + j <= h
    BY <1>0, <2>4
  <2> QED BY <2>5 DEF To
<1>4. CASE m > i /\ m < s
  <2>1. s \notin m + 1 .. m + 6
    BY <1>0, <1>2
  <2>2. m + 6 < s
    BY <1>0, <1>4, <2>1
  <2>3. ~(m <= h) /\ ~(m + j <= h) /\ m < s /\ m + j < s /\ (m + j) + 8 + x = (m + 8 + x) + j
    BY <1>0, <1>4, <2>2
  <2> QED BY <2>3 DEF To
<1>5. CASE m > s
  <2>1. m \notin s + 1 .. s + 6
    <3>1. ConfigsBehind(list, s)
      BY DEF Move, Movable
    <3>2. \A k \in s + 1 .. s + 6 : k = s + 1 \/ k \in s + 2 .. s + 6
      BY <1>0
    <3> QED BY <3>1, <3>2 DEF ConfigsBehind
  <2>2. /\ ~(m <= h) /\ ~(m + j <= h) /\ ~(m < s) /\ ~(m + j < s) /\ m # s /\ m + j # s
        /\ ~(m <= s + 6) /\ ~(m + j <= s + 6) /\ (m + j) + 3 + x = (m + 3 + x) + j
    BY <1>0, <1>5, <2>1
  <2> QED BY <2>2 DEF To
<1> QED BY <1>0, <1>3, <1>4, <1>5

\* The nodes that are put in.
LEMMA AddedOps ==
  /\ \A c : Command(c).op = "command" /\ Command(c).what = c
  /\ \A q, sub : Addr(q, sub).op = "addr" /\ Addr(q, sub).port = q /\ Addr(q, sub).sub = sub
BY DEF Command, Addr, Node

\* So it is one in the new list.
LEMMA MoveConfigs ==
  ASSUME NEW u, NEW i, NEW s, NEW p, NEW w, NEW h, NEW x, Move(u, i, s, p, w, h, x),
         NEW m \in 1 .. Len(list), m # s, list[m].op \in {"addr", "command"},
         ConfigsBehind(list, m)
  PROVE  ConfigsBehind(u, To(m, s, h, x))
<1> DEFINE t == To(m, s, h, x)
<1>0. Len(list) \in Nat /\ Len(u) \in Nat /\ t \in 1 .. Len(u)
  <2>1. Len(list) \in Nat
    BY MovePlaces
  <2>2. Len(u) \in Nat
    BY MoveListing, ListingNodes
  <2>3. Same(u, m, t)
    BY MoveTo
  <2> QED BY <2>1, <2>2, <2>3 DEF Same
<1>1. m + 6 <= Len(list) /\ list[m + 1].op = "nothing" /\ \A k \in m + 2 .. m + 6 : list[k].op = "config"
  BY DEF ConfigsBehind
<1>2. ASSUME NEW j \in 0 .. 6 PROVE t + j \in 1 .. Len(u) /\ u[t + j] = list[m + j]
  <2>1. m + j \in 1 .. Len(list)
    BY <1>0, <1>1
  <2>2. Same(u, m + j, To(m + j, s, h, x))
    BY <2>1, MoveTo
  <2>3. To(m + j, s, h, x) = t + j
    <3>1. Together(m, s, h, x)
      BY MoveTogether
    <3> QED BY <3>1 DEF Together
  <2> QED BY <2>2, <2>3 DEF Same
<1> HIDE DEF t
<1>3. t + 6 <= Len(u)
  <2>1. t + 6 \in 1 .. Len(u)
    BY <1>2
  <2> QED BY <1>0, <2>1
<1>4. u[t + 1].op = "nothing"
  <2>1. 1 \in 0 .. 6
    OBVIOUS
  <2>2. u[t + 1] = list[m + 1]
    BY <1>2, <2>1
  <2> QED BY <1>1, <2>2
<1>5. ASSUME NEW k \in t + 2 .. t + 6 PROVE u[k].op = "config"
  <2>1. k - t \in 0 .. 6 /\ t + (k - t) = k /\ m + (k - t) \in m + 2 .. m + 6
    BY <1>0
  <2> QED BY <1>1, <1>2, <2>1
<1>6. ConfigsBehind(u, t)
  BY <1>3, <1>4, <1>5 DEF ConfigsBehind
<1> QED BY <1>6 DEF t

\* The structure is kept, part by part.
LEMMA MoveWaits ==
  ASSUME NEW u, NEW i, NEW s, NEW p, NEW w, NEW h, NEW x, Move(u, i, s, p, w, h, x)
  PROVE  WaitsAtZero(u)
<1> SUFFICES ASSUME NEW k \in 1 .. Len(u), Handled(u[k]) PROVE Port(u, k) = 0 \/ Sub(u, k) = 0
  BY DEF WaitsAtZero
<1>1. From(u, k, i, s, p, h, x)
  BY MoveFrom
<1>2. u[k].op = "wait"
  BY DEF Handled
<1>3. PICK j \in 1 .. Len(list) : Same(u, j, k)
  BY <1>1, <1>2, AddedOps DEF From
<1> QED BY <1>3 DEF Same, Move, Structure, WaitsAtZero

\* Behind every cacheStart there is a run of configurations.
LEMMA MoveStarts ==
  ASSUME NEW u, NEW i, NEW s, NEW p, NEW w, NEW h, NEW x, Move(u, i, s, p, w, h, x)
  PROVE  Starts(u)
<1> SUFFICES ASSUME NEW c \in 1 .. Len(u), IsCommand(u[c], {"cacheStart"})
             PROVE  ConfigsBehind(u, c)
  BY DEF Starts
<1>0. /\ Len(list) \in Nat /\ i \in 1 .. Len(list) /\ s \in i + 1 .. Len(list)
      /\ s + 6 <= Len(list) /\ h \in 0 .. i - 1 /\ x \in {0, 1} /\ Len(u) = Len(list) + 3 + x
  BY MovePlaces
<1>1. From(u, c, i, s, p, h, x)
  BY MoveFrom
<1>2. u[c].op = "command" /\ u[c].what = "cacheStart"
  BY DEF IsCommand
<1>3. c = h + 2 \/ \E j \in 1 .. Len(list) : c = To(j, s, h, x) /\ Same(u, j, c)
  BY <1>1, <1>2, AddedOps DEF From
<1>4. CASE c = h + 2
  <2>1. ConfigsBehind(list, s)
    BY DEF Move, Movable
  <2>2. \A j \in 1 .. 6 : u[h + 2 + j] = list[s + j]
    BY DEF Move, Moved
  <2>3. list[s + 1].op = "nothing" /\ \A k \in s + 2 .. s + 6 : list[k].op = "config"
    BY <2>1 DEF ConfigsBehind
  <2>4. u[c + 1].op = "nothing"
    BY <1>4, <2>2, <2>3, SMTT(30)
  <2>5. ASSUME NEW k \in c + 2 .. c + 6 PROVE u[k].op = "config"
    <3>1. k - (h + 2) \in 1 .. 6 /\ h + 2 + (k - (h + 2)) = k /\ s + (k - (h + 2)) \in s + 2 .. s + 6
      BY <1>0, <1>4
    <3> QED BY <2>2, <2>3, <3>1
  <2>6. c + 6 <= Len(u)
    BY <1>0, <1>4
  <2> QED BY <2>4, <2>5, <2>6 DEF ConfigsBehind
<1>5. CASE \E j \in 1 .. Len(list) : c = To(j, s, h, x) /\ Same(u, j, c)
  <2>1. PICK j \in 1 .. Len(list) : c = To(j, s, h, x) /\ Same(u, j, c)
    BY <1>5
  <2>2. IsCommand(list[j], {"cacheStart"}) /\ list[j].op = "command"
    BY <2>1 DEF Same, IsCommand
  <2>3. j # s
    BY <2>2 DEF Move, Movable
  <2>4. ConfigsBehind(list, j)
    BY <2>2 DEF Move, Structure, Starts
  <2> QED BY <2>1, <2>2, <2>3, <2>4, MoveConfigs
<1> QED BY <1>3, <1>4, <1>5

\* Behind every address of the second submodule there is one, or a command.
LEMMA MoveRuns ==
  ASSUME NEW u, NEW i, NEW s, NEW p, NEW w, NEW h, NEW x, Move(u, i, s, p, w, h, x)
  PROVE  Runs(u)
<1> SUFFICES ASSUME NEW c \in 1 .. Len(u), u[c].op = "addr", u[c].sub = 2
             PROVE  (c < Len(u) /\ u[c + 1].op = "command") \/ ConfigsBehind(u, c)
  BY DEF Runs
<1>0. /\ Len(list) \in Nat /\ i \in 1 .. Len(list) /\ s \in i + 1 .. Len(list)
      /\ s + 6 <= Len(list) /\ h \in 0 .. i - 1 /\ x \in {0, 1} /\ Len(u) = Len(list) + 3 + x
      /\ x = 0 => h + 1 = w /\ list[w].op = "addr"
      /\ x = 1 => h = w /\ list[w].op \in {"command", "config"}
  BY MovePlaces
<1>1. From(u, c, i, s, p, h, x)
  BY MoveFrom
<1>2. c = s + 8 + x \/ \E j \in 1 .. Len(list) : c = To(j, s, h, x) /\ Same(u, j, c)
  BY <1>1, AddedOps DEF From
<1>3. CASE c = s + 8 + x
  <2>1. u[s + 9 + x] = Command("cacheFinish")
    BY DEF Move, Moved
  <2>2. c + 1 = s + 9 + x /\ c < Len(u)
    BY <1>0, <1>3
  <2> QED BY <2>1, <2>2 DEF Command, Node
<1>4. CASE \E j \in 1 .. Len(list) : c = To(j, s, h, x) /\ Same(u, j, c)
  <2>1. PICK j \in 1 .. Len(list) : c = To(j, s, h, x) /\ Same(u, j, c)
    BY <1>4
  <2>2. list[j].op = "addr" /\ list[j].sub = 2
    BY <2>1 DEF Same
  <2>3. CASE j = s
    <3>1. c = h + 1 /\ c + 1 = h + 2 /\ c < Len(u)
      BY <1>0, <2>1, <2>3 DEF To
    <3>2. u[h + 2] = Command("cacheStart")
      BY DEF Move, Moved
    <3> QED BY <3>1, <3>2 DEF Command, Node
  <2>4. CASE j # s /\ ConfigsBehind(list, j)
    BY <2>1, <2>2, <2>4, MoveConfigs
  <2>5. CASE j # s /\ j < Len(list) /\ list[j + 1].op = "command"
    <3>1. j # h
      BY <1>0, <2>2, <2>5
    <3>2. j + 1 # s
      BY <2>5 DEF Move, Movable
    <3>3. j \notin s + 1 .. s + 6
      <4>1. ConfigsBehind(list, s)
        BY DEF Move, Movable
      <4>2. \A k \in s + 1 .. s + 6 : k = s + 1 \/ k \in s + 2 .. s + 6
        BY <1>0
      <4> QED BY <2>2, <4>1, <4>2 DEF ConfigsBehind
    <3>4. j + 1 \in 1 .. Len(list)
      BY <1>0, <2>5
    <3>5. To(j + 1, s, h, x) = c + 1
      <4>1. CASE j < h
        <5>1. j <= h /\ j + 1 <= h
          BY <1>0, <4>1
        <5> QED BY <2>1, <5>1 DEF To
      <4>2. CASE j > h /\ j < s
        <5>1. ~(j <= h) /\ ~(j + 1 <= h) /\ j + 1 < s /\ (j + 1) + 8 + x = (j + 8 + x) + 1
          BY <1>0, <3>2, <4>2
        <5> QED BY <2>1, <4>2, <5>1 DEF To
      <4>3. CASE j > s + 6
        <5>1. /\ ~(j <= h) /\ ~(j + 1 <= h) /\ ~(j < s) /\ ~(j + 1 < s) /\ j + 1 # s
              /\ ~(j <= s + 6) /\ ~(j + 1 <= s + 6) /\ (j + 1) + 3 + x = (j + 3 + x) + 1
          BY <1>0, <4>3
        <5> QED BY <2>1, <2>5, <5>1 DEF To
      <4> QED BY <1>0, <2>5, <3>1, <3>3, <4>1, <4>2, <4>3
    <3>6. Same(u, j + 1, c + 1)
      BY <3>4, <3>5, MoveTo
    <3>7. c < Len(u)
      BY <1>0, <3>6 DEF Same
    <3> QED BY <2>5, <3>6, <3>7 DEF Same
  <2>6. ConfigsBehind(list, j) \/ (j < Len(list) /\ list[j + 1].op = "command")
    BY <2>2 DEF Move, Structure, Runs
  <2> QED BY <2>3, <2>4, <2>5, <2>6
<1> QED BY <1>2, <1>3, <1>4

\* What goes into a port's cache that has been opened before the segment was moved.
LEMMA OldPair ==
  ASSUME NEW u, NEW i, NEW s, NEW p, NEW w, NEW h, NEW x, Move(u, i, s, p, w, h, x),
         NEW c \in 1 .. Len(list), IsCommand(list[c], {"cacheStart"}),
         NEW f \in c + 1 .. Len(list), Paired(list, c, f)
  PROVE  /\ To(f, s, h, x) \in To(c, s, h, x) + 1 .. Len(u)
         /\ Paired(u, To(c, s, h, x), To(f, s, h, x))
<1> DEFINE q == Port(list, c)
           C == To(c, s, h, x)
           F == To(f, s, h, x)
<1>0. /\ Listing(list) /\ Len(list) \in Nat /\ i \in 1 .. Len(list) /\ s \in i + 1 .. Len(list)
      /\ s + 6 <= Len(list) /\ p \in Ports /\ p # 0
      /\ w \in 1 .. i - 1 /\ h \in 0 .. i - 1 /\ x \in {0, 1}
      /\ x = 0 => h + 1 = w /\ list[w].op = "addr"
      /\ x = 1 => h = w
      /\ Len(u) = Len(list) + 3 + x
  BY MovePlaces
<1>s. s \in Nat /\ h \in Nat /\ x \in Nat /\ h < s
  BY <1>0
<1>1. \A k \in s .. s + 6 : list[k].op # "command" /\ Port(list, k) = p /\ Sub(list, k) = 2
  <2> SUFFICES ASSUME NEW k \in s .. s + 6
               PROVE  list[k].op # "command" /\ Port(list, k) = p /\ Sub(list, k) = 2
    OBVIOUS
  <2>1. list[s].op = "addr" /\ ConfigsBehind(list, s)
    BY DEF Move, Movable
  <2>2. k = s \/ k = s + 1 \/ k \in s + 2 .. s + 6
    BY <1>s
  <2>3. list[k].op # "command"
    BY <2>1, <2>2 DEF ConfigsBehind
  <2>4. k - s \in 0 .. 6 /\ s + (k - s) = k
    BY <1>s
  <2>5. Port(list, s + (k - s)) = p /\ Sub(list, s + (k - s)) = 2
    BY <2>4, MoveSegment
  <2> QED BY <2>3, <2>4, <2>5
<1>2. /\ IsCommand(list[f], {"cacheFinish"}) /\ Port(list, f) = q
      /\ \A j \in c + 1 .. f - 1 : Port(list, j) = q =>
           ~IsCommand(list[j], Restart) /\ (list[j].op = "config" => j \in c + 2 .. c + 6)
  BY DEF Paired
<1>3. c \notin s .. s + 6 /\ f \notin s .. s + 6
  BY <1>1, <1>2 DEF IsCommand
<1>4. f \in 1 .. Len(list) /\ c < f /\ c \in Nat /\ f \in Nat
  BY <1>0, SMTT(30)
<1>5. Same(u, c, C) /\ Same(u, f, F)
  BY <1>4, MoveTo
<1>6. C < F
  BY <1>3, <1>4, <1>s, ToOrder
<1>7. F \in C + 1 .. Len(u) /\ C \in Nat /\ F \in Nat
  <2>1. C \in 1 .. Len(u) /\ F \in 1 .. Len(u) /\ Len(u) \in Nat
    BY <1>0, <1>5 DEF Same
  <2> HIDE DEF C, F
  <2> QED BY <1>6, <2>1
<1>8. IsCommand(u[F], {"cacheFinish"}) /\ Port(u, F) = q /\ Port(u, C) = q
  BY <1>2, <1>5 DEF Same
<1>9. ConfigsBehind(list, c) /\ list[c].op = "command" /\ c # s
  <2>1. ConfigsBehind(list, c)
    BY DEF Move, Structure, Starts
  <2>2. s \in s .. s + 6
    BY <1>s
  <2> QED BY <1>3, <2>1, <2>2 DEF IsCommand
<1>10. Together(c, s, h, x)
  BY <1>9, MoveTogether
<1>11. ASSUME NEW j \in 1 .. Len(list), j \in c + 1 .. f - 1, Port(list, j) = q,
              NEW k, Same(u, j, k), k = To(j, s, h, x)
       PROVE  ~IsCommand(u[k], Restart) /\ (u[k].op = "config" => k \in C + 2 .. C + 6)
  <2>1. u[k] = list[j]
    BY <1>11 DEF Same
  <2>2. ~IsCommand(u[k], Restart)
    BY <1>2, <1>11, <2>1
  <2>3. ASSUME u[k].op = "config" PROVE k \in C + 2 .. C + 6
    <3>1. j \in c + 2 .. c + 6
      BY <1>2, <1>11, <2>1, <2>3
    <3>2. j - c \in 0 .. 6 /\ c + (j - c) = j /\ j - c \in 2 .. 6
      BY <1>4, <3>1
    <3>3. To(c + (j - c), s, h, x) = C + (j - c)
      BY <1>10, <3>2 DEF Together
    <3>4. k = C + (j - c)
      BY <1>11, <3>2, <3>3
    <3> HIDE DEF C
    <3> QED BY <1>7, <3>2, <3>4
  <2> QED BY <2>2, <2>3
<1> HIDE DEF C, F
<1>12. CASE q # p
  <2> SUFFICES ASSUME NEW k \in C + 1 .. F - 1, Port(u, k) = q
               PROVE  ~IsCommand(u[k], Restart) /\ (u[k].op = "config" => k \in C + 2 .. C + 6)
    BY <1>7, <1>8 DEF Paired, C, F
  <2>1. k \in 1 .. Len(u)
    BY <1>0, <1>7
  <2>2. From(u, k, i, s, p, h, x)
    BY <2>1, MoveFrom
  <2>3. u[k].op = "addr" \/ \E j \in 1 .. Len(list) : k = To(j, s, h, x) /\ Same(u, j, k)
    BY <1>12, <2>2, AddedOps DEF From
  <2>4. CASE u[k].op = "addr"
    BY <2>4 DEF IsCommand
  <2>5. CASE \E j \in 1 .. Len(list) : k = To(j, s, h, x) /\ Same(u, j, k)
    <3>1. PICK j \in 1 .. Len(list) : k = To(j, s, h, x) /\ Same(u, j, k)
      BY <2>5
    <3>2. Port(list, j) = q /\ j \notin s .. s + 6
      BY <1>1, <1>12, <3>1 DEF Same
    <3>3. C < k /\ k < F /\ j \in Nat
      BY <1>0, <1>7
    <3>4. c < j
      BY <1>3, <1>4, <1>s, <3>1, <3>2, <3>3, ToOrder DEF C
    <3>5. j < f
      BY <1>3, <1>4, <1>s, <3>1, <3>2, <3>3, ToOrder DEF F
    <3>6. j \in c + 1 .. f - 1
      BY <1>4, <3>3, <3>4, <3>5
    <3> QED BY <1>11, <3>1, <3>2, <3>6
  <2> QED BY <2>3, <2>4, <2>5
<1>13. CASE q = p /\ c < i
  <2>1. f < i
    <3>1. /\ Structure(list) /\ WaitAt(i) /\ Movable(i, s, p)
      BY DEF Move
    <3>2. c \in 1 .. i - 1 /\ Port(list, c) = p
      BY <1>0, <1>13
    <3> QED BY <3>1, <3>2, ClosedBefore
  <2>2. f <= h
    <3>1. f \notin w + 1 .. i
      BY <1>2 DEF Move, Goes, IsCommand
    <3>2. f <= w
      BY <1>0, <1>4, <2>1, <3>1
    <3>3. x = 0 => f # w
      BY <1>0, <1>2 DEF IsCommand
    <3> QED BY <1>0, <1>4, <3>2, <3>3
  <2>3. C = c /\ F = f
    <3>1. c <= h
      BY <1>4, <1>s, <2>2
    <3> QED BY <2>2, <3>1 DEF To, C, F
  <2>4. ASSUME NEW k \in c + 1 .. f - 1, Port(u, k) = q
        PROVE  ~IsCommand(u[k], Restart) /\ (u[k].op = "config" => k \in c + 2 .. c + 6)
    <3>1. k <= h /\ k \in 1 .. Len(list)
      BY <1>0, <1>4, <2>2
    <3>2. To(k, s, h, x) = k
      BY <3>1 DEF To
    <3>3. Same(u, k, k)
      BY <3>1, <3>2, MoveTo
    <3>4. u[k] = list[k] /\ Port(list, k) = q
      BY <2>4, <3>3 DEF Same
    <3> QED BY <1>2, <3>4
  <2> QED BY <1>7, <1>8, <2>3, <2>4 DEF Paired, C, F
<1>14. CASE q = p /\ c > s + 6
  <2>1. \A k \in Nat : k > s + 6 => To(k, s, h, x) = k + 3 + x
    <3> SUFFICES ASSUME NEW k \in Nat, k > s + 6 PROVE To(k, s, h, x) = k + 3 + x
      OBVIOUS
    <3>1. ~(k <= h) /\ ~(k < s) /\ k # s /\ ~(k <= s + 6)
      BY <1>s
    <3> QED BY <3>1 DEF To
  <2>2. C = c + 3 + x /\ F = f + 3 + x
    BY <1>4, <1>14, <1>s, <2>1 DEF C, F
  <2>3. ASSUME NEW k \in C + 1 .. F - 1, Port(u, k) = q
        PROVE  ~IsCommand(u[k], Restart) /\ (u[k].op = "config" => k \in C + 2 .. C + 6)
    <3> DEFINE j == k - (3 + x)
    <3>1. j \in c + 1 .. f - 1 /\ j \in Nat /\ j > s + 6 /\ j + 3 + x = k /\ j \in 1 .. Len(list)
      <4>1. /\ k \in Int /\ c + 3 + x + 1 <= k /\ k <= f + 3 + x - 1 /\ c \in Nat /\ f \in Nat
            /\ x \in Nat /\ c > s + 6 /\ s \in Nat
        BY <1>4, <1>7, <1>14, <1>s, <2>2
      <4>2. f <= Len(list) /\ Len(list) \in Nat
        BY <1>0
      <4> QED BY ONLY <4>1, <4>2
    <3> HIDE DEF j
    <3>2. To(j, s, h, x) = k
      BY <2>1, <3>1
    <3>3. Same(u, j, k)
      BY <3>1, <3>2, MoveTo
    <3>4. Port(list, j) = q
      BY <2>3, <3>3 DEF Same
    <3> QED BY <1>11, <3>1, <3>2, <3>3, <3>4
  <2> QED BY <1>7, <1>8, <2>3 DEF Paired, C, F
<1>15. q = p => c < i \/ c > s + 6
  <2> SUFFICES ASSUME q = p, ~(c < i), ~(c > s + 6) PROVE FALSE
    OBVIOUS
  <2>1. c # i
    <3>1. list[i].op = "wait"
      BY WaitPort DEF Move
    <3> QED BY <3>1 DEF IsCommand
  <2>2. c \in i + 1 .. s - 1
    BY <1>0, <1>3, <1>4, <2>1
  <2> QED BY <2>2 DEF Move, Movable, IsCommand, Restart
<1> QED BY <1>12, <1>13, <1>14, <1>15 DEF C, F

\* What the moved segment puts there.
LEMMA NewPair ==
  ASSUME NEW u, NEW i, NEW s, NEW p, NEW w, NEW h, NEW x, Move(u, i, s, p, w, h, x)
  PROVE  s + 9 + x \in (h + 2) + 1 .. Len(u) /\ Paired(u, h + 2, s + 9 + x)
<1>0. /\ Listing(list) /\ Len(list) \in Nat /\ i \in 1 .. Len(list) /\ s \in i + 1 .. Len(list)
      /\ s + 6 <= Len(list) /\ p \in Ports /\ p # 0
      /\ w \in 1 .. i - 1 /\ h \in 0 .. i - 1 /\ x \in {0, 1}
      /\ x = 0 => h + 1 = w /\ list[w].op = "addr"
      /\ x = 1 => h = w
      /\ Len(u) = Len(list) + 3 + x
  BY MovePlaces
<1>s. s \in Nat /\ h \in Nat /\ x \in Nat /\ h < s /\ h < i /\ i < s /\ i \in Nat
  BY <1>0
<1>1. u[s + 9 + x] = Command("cacheFinish") /\ u[s + 8 + x] = Addr(p, 2)
  BY DEF Move, Moved
<1>2. IsCommand(u[s + 9 + x], {"cacheFinish"})
  BY <1>1, AddedOps DEF IsCommand
<1>3. Port(u, h + 2) = p
  <2>1. 0 \in 0 .. 6 /\ h + 2 + 0 = h + 2
    BY <1>s
  <2>2. Port(u, h + 2 + 0) = p
    BY <2>1, MoveSegment
  <2> QED BY <2>1, <2>2
<1>4. Port(u, s + 9 + x) = p
  <2>1. s + 9 + x \in 1 .. Len(u) /\ (s + 9 + x) - 1 = s + 8 + x
    BY <1>0
  <2>2. Port(u, s + 9 + x) = Port(u, (s + 9 + x) - 1)
    <3>1. Listing(u)
      BY MoveListing
    <3>2. u[s + 9 + x].op # "addr"
      BY <1>2 DEF IsCommand
    <3> QED BY <2>1, <3>1, <3>2, PortSteps
  <2> QED BY <2>1, <2>2, MoveBehind
<1>5. ASSUME NEW k \in (h + 2) + 1 .. (s + 9 + x) - 1, Port(u, k) = p
      PROVE  /\ ~IsCommand(u[k], Restart)
             /\ u[k].op = "config" => k \in (h + 2) + 2 .. (h + 2) + 6
  <2>1. CASE k <= h + 8
    <3> DEFINE j == k - h - 2
    <3>1. j \in 1 .. 6 /\ h + 2 + j = k
      BY <1>s, <2>1
    <3>2. u[k] = list[s + j]
      BY <3>1 DEF Move, Moved
    <3>3. ConfigsBehind(list, s)
      BY DEF Move, Movable
    <3>4. s + j = s + 1 \/ (s + j \in s + 2 .. s + 6 /\ k \in (h + 2) + 2 .. (h + 2) + 6)
      BY <1>s, <3>1
    <3>5. list[s + j].op = "nothing" \/
            (list[s + j].op = "config" /\ k \in (h + 2) + 2 .. (h + 2) + 6)
      BY <3>3, <3>4 DEF ConfigsBehind
    <3> QED BY <3>2, <3>5 DEF IsCommand
  <2>2. CASE x = 1 /\ k = h + 9
    <3>1. u[k] = Addr(Addressed(i), 0)
      BY <2>2 DEF Move, Moved
    <3> QED BY <3>1, AddedOps DEF IsCommand
  <2>3. CASE k > h + 8 + x /\ k <= s + 7 + x
    <3> DEFINE j == k - 8 - x
    <3>1. j \in h + 1 .. s - 1 /\ j + 8 + x = k
      BY <1>s, <2>3
    <3>2. j \in 1 .. Len(list) /\ j \in w .. s - 1
      <4>1. j \in Nat /\ h + 1 <= j /\ j <= s - 1
        BY <1>s, <3>1
      <4>2. w <= h + 1 /\ w \in Nat /\ s - 1 <= Len(list)
        BY <1>0
      <4> HIDE DEF j
      <4> QED BY <1>0, <1>s, <4>1, <4>2
    <3> HIDE DEF j
    <3>3. To(j, s, h, x) = k
      <4>1. ~(j <= h) /\ j < s
        BY <1>s, <3>1
      <4> QED BY <3>1, <4>1 DEF To
    <3>4. Same(u, j, k)
      BY <3>2, <3>3, MoveTo
    <3>5. u[k] = list[j] /\ Port(list, j) = p
      BY <1>5, <3>4 DEF Same
    <3>6. CASE j <= i
      <4>1. (j = w /\ x = 0) \/ j \in w + 1 .. i
        BY <1>0, <1>s, <3>1, <3>6
      <4>2. list[j].op \notin {"command", "config"}
        BY <1>0, <4>1 DEF Move, Goes
      <4> QED BY <3>5, <4>2 DEF IsCommand
    <3>7. CASE j > i
      <4>1. j \in i + 1 .. s - 1
        BY <1>s, <3>1, <3>7
      <4> QED BY <3>5, <4>1 DEF Move, Movable
    <3> QED BY <1>s, <3>1, <3>6, <3>7
  <2>4. CASE k = s + 8 + x
    BY <1>1, <2>4, AddedOps DEF IsCommand
  <2>5. k <= h + 8 \/ (x = 1 /\ k = h + 9) \/ (k > h + 8 + x /\ k <= s + 7 + x) \/ k = s + 8 + x
    BY <1>0, <1>s
  <2> QED BY <2>1, <2>2, <2>3, <2>4, <2>5
<1>6. s + 9 + x \in (h + 2) + 1 .. Len(u)
  <2>1. Len(u) = Len(list) + 3 + x /\ s + 6 <= Len(list) /\ Len(list) \in Nat
    BY <1>0
  <2> QED BY ONLY <1>s, <2>1
<1> QED BY <1>2, <1>3, <1>4, <1>5, <1>6 DEF Paired

\* Every cacheStart has its cacheFinish.
LEMMA MovePairs ==
  ASSUME NEW u, NEW i, NEW s, NEW p, NEW w, NEW h, NEW x, Move(u, i, s, p, w, h, x)
  PROVE  Pairs(u)
<1> SUFFICES ASSUME NEW c \in 1 .. Len(u), IsCommand(u[c], {"cacheStart"})
             PROVE  \E f \in c + 1 .. Len(u) : Paired(u, c, f)
  BY DEF Pairs
<1>1. From(u, c, i, s, p, h, x)
  BY MoveFrom
<1>2. u[c].op = "command" /\ u[c].what = "cacheStart"
  BY DEF IsCommand
<1>3. c = h + 2 \/ \E j \in 1 .. Len(list) : c = To(j, s, h, x) /\ Same(u, j, c)
  BY <1>1, <1>2, AddedOps DEF From
<1>4. CASE c = h + 2
  BY <1>4, NewPair
<1>5. CASE \E j \in 1 .. Len(list) : c = To(j, s, h, x) /\ Same(u, j, c)
  <2>1. PICK j \in 1 .. Len(list) : c = To(j, s, h, x) /\ Same(u, j, c)
    BY <1>5
  <2>2. IsCommand(list[j], {"cacheStart"})
    BY <2>1 DEF Same
  <2>3. PICK f \in j + 1 .. Len(list) : Paired(list, j, f)
    BY <2>2 DEF Move, Structure, Pairs
  <2>4. /\ To(f, s, h, x) \in To(j, s, h, x) + 1 .. Len(u)
        /\ Paired(u, To(j, s, h, x), To(f, s, h, x))
    BY <2>2, <2>3, OldPair
  <2> QED BY <2>1, <2>4
<1> QED BY <1>3, <1>4, <1>5

\* Other submodules are configured behind a reset only.
LEMMA MoveResets ==
  ASSUME NEW u, NEW i, NEW s, NEW p, NEW w, NEW h, NEW x, Move(u, i, s, p, w, h, x)
  PROVE  ResetFirst(u)
<1> SUFFICES ASSUME NEW k \in 1 .. Len(u), u[k].op = "config", Port(u, k) # 0, Sub(u, k) # 2
             PROVE  \E r \in 1 .. k - 1 : /\ IsCommand(u[r], {"reset"}) /\ Port(u, r) = Port(u, k)
                                          /\ \A j \in r + 1 .. k - 1 : ~Handled(u[j])
  BY DEF ResetFirst
<1>0. /\ Listing(list) /\ Len(list) \in Nat /\ i \in 1 .. Len(list) /\ s \in i + 1 .. Len(list)
      /\ s + 6 <= Len(list) /\ h \in 0 .. i - 1 /\ x \in {0, 1} /\ Len(u) = Len(list) + 3 + x
  BY MovePlaces
<1>s. s \in Nat /\ h \in Nat /\ x \in Nat /\ h < s
  BY <1>0
<1>1. \A j \in s .. s + 6 : list[j].op \in {"addr", "nothing", "config"} /\ Sub(list, j) = 2
  <2> SUFFICES ASSUME NEW j \in s .. s + 6
               PROVE  list[j].op \in {"addr", "nothing", "config"} /\ Sub(list, j) = 2
    OBVIOUS
  <2>1. list[s].op = "addr" /\ ConfigsBehind(list, s)
    BY DEF Move, Movable
  <2>2. j = s \/ j = s + 1 \/ j \in s + 2 .. s + 6
    BY <1>s
  <2>3. list[j].op \in {"addr", "nothing", "config"}
    BY <2>1, <2>2 DEF ConfigsBehind
  <2>4. j - s \in 0 .. 6 /\ s + (j - s) = j
    BY <1>s, SMTT(30)
  <2>5. Sub(list, s + (j - s)) = 2
    BY <2>4, MoveSegment
  <2> QED BY <2>3, <2>4, <2>5
<1>2. From(u, k, i, s, p, h, x)
  BY MoveFrom
<1>3. PICK a \in 1 .. Len(list) : k = To(a, s, h, x) /\ Same(u, a, k)
  BY <1>2, AddedOps DEF From
<1>4. list[a].op = "config" /\ Port(list, a) = Port(u, k) /\ Sub(list, a) = Sub(u, k)
  BY <1>3 DEF Same
<1>5. PICK b \in 1 .. a - 1 : /\ IsCommand(list[b], {"reset"}) /\ Port(list, b) = Port(list, a)
                              /\ \A j \in b + 1 .. a - 1 : ~Handled(list[j])
  BY <1>4 DEF Move, Structure, ResetFirst
<1>6. a \notin s .. s + 6 /\ b \notin s .. s + 6
  BY <1>1, <1>4, <1>5 DEF IsCommand
<1>7. a \in Nat /\ b \in Nat /\ b < a /\ b \in 1 .. Len(list)
  BY <1>0
<1> DEFINE r == To(b, s, h, x)
<1>8. Same(u, b, r)
  BY <1>7, MoveTo
<1>9. r < k
  BY <1>3, <1>6, <1>7, <1>s, ToOrder
<1>10. r \in 1 .. k - 1
  <2>1. r \in 1 .. Len(u) /\ Len(u) \in Nat
    BY <1>0, <1>8 DEF Same
  <2> HIDE DEF r
  <2> QED BY <1>9, <2>1
<1>11. ASSUME NEW j \in r + 1 .. k - 1, Handled(u[j]) PROVE FALSE
  <2>1. j \in 1 .. Len(u) /\ r < j /\ j < k /\ j \in Nat
    <3> HIDE DEF r
    <3> QED BY <1>0, <1>10
  <2>2. From(u, j, i, s, p, h, x)
    BY <2>1, MoveFrom
  <2>3. u[j].op = "wait"
    BY <1>11 DEF Handled
  <2>4. PICK c \in 1 .. Len(list) : j = To(c, s, h, x) /\ Same(u, c, j)
    BY <2>2, <2>3, AddedOps DEF From
  <2>5. list[c].op = "wait" /\ Handled(list[c]) /\ c \in Nat
    BY <1>0, <1>11, <2>3, <2>4 DEF Same
  <2>6. c \notin s .. s + 6
    BY <1>1, <2>5
  <2>7. b < c
    BY <1>6, <1>7, <1>s, <2>1, <2>4, <2>5, <2>6, ToOrder
  <2>8. c < a
    BY <1>3, <1>6, <1>7, <1>s, <2>1, <2>4, <2>5, <2>6, ToOrder
  <2>9. c \in b + 1 .. a - 1
    BY <1>7, <2>5, <2>7, <2>8
  <2> QED BY <1>5, <2>5, <2>9
<1>12. IsCommand(u[r], {"reset"}) /\ Port(u, r) = Port(u, k)
  BY <1>4, <1>5, <1>8 DEF Same
<1> HIDE DEF r
<1> QED BY <1>10, <1>11, <1>12

\* So a list that has it has it after a step of the optimisation.
LEMMA MoveStructure ==
  ASSUME NEW u, NEW i, NEW s, NEW p, NEW w, NEW h, NEW x, Move(u, i, s, p, w, h, x)
  PROVE  Structure(u)
BY MoveListing, MoveWaits, MoveRuns, MoveStarts, MovePairs, MoveResets DEF Structure

-----------------------------------------------------------------------------
(* The lists of programs have the structure.                               *)

\* The nodes of two lists in a row, and what is addressed in the first.
JoinedNodes(l, b) ==
  LET u == l \o b IN
  /\ Listing(u) /\ Len(u) = Len(l) + Len(b)
  /\ \A k \in 1 .. Len(l) : u[k] = l[k] /\ Port(u, k) = Port(l, k) /\ Sub(u, k) = Sub(l, k)
  /\ \A k \in 1 .. Len(b) : u[Len(l) + k] = b[k]

\* They are.
LEMMA ListingJoined ==
  ASSUME NEW l, Listing(l), NEW b, Listing(b)
  PROVE  JoinedNodes(l, b)
<1> DEFINE u == l \o b
<1>0. /\ Len(l) \in Nat /\ \A k \in 1 .. Len(l) : l[k].op = "command" => l[k].what \in Commands
  BY ListingNodes
<1>1. /\ Len(b) \in Nat /\ \A k \in 1 .. Len(b) : b[k].op = "command" => b[k].what \in Commands
  BY ListingNodes
<1>2. /\ u \in Seq(Plain) /\ Len(u) = Len(l) + Len(b)
      /\ \A k \in 1 .. Len(l) : u[k] = l[k]
      /\ \A k \in 1 .. Len(b) : u[Len(l) + k] = b[k]
  <2>1. l \in Seq(Plain) /\ b \in Seq(Plain)
    BY DEF Listing
  <2> QED BY ONLY <2>1, JoinedShift
<1> SUFFICES JoinedNodes(l, b)
  OBVIOUS
<1> HIDE DEF u
<1>3. ASSUME NEW k \in 1 .. Len(u), u[k].op = "command" PROVE u[k].what \in Commands
  <2>1. CASE k \in 1 .. Len(l)
    BY <1>0, <1>2, <1>3, <2>1
  <2>2. CASE k \notin 1 .. Len(l)
    <3>1. k - Len(l) \in 1 .. Len(b) /\ Len(l) + (k - Len(l)) = k
      BY <1>0, <1>1, <1>2, <2>2
    <3>2. u[k] = b[k - Len(l)]
      BY <1>2, <3>1
    <3> QED BY <1>1, <1>3, <3>1, <3>2
  <2> QED BY <2>1, <2>2
<1>4. Listing(u)
  BY <1>2, <1>3 DEF Listing
<1>5. \A k \in 0 .. Len(l) : After(l)[k] = After(u)[k]
  <2>1. Len(u) \in Nat /\ Len(l) \in 0 .. Len(l) /\ Len(l) <= Len(u)
    BY <1>0, <1>1, <1>2
  <2>2. \A k \in 1 .. Len(l) : l[k] = u[k]
    BY <1>2
  <2> QED BY <1>0, <2>1, <2>2, AfterPrefix
<1>6. \A k \in 1 .. Len(l) : u[k] = l[k] /\ Port(u, k) = Port(l, k) /\ Sub(u, k) = Sub(l, k)
  BY <1>0, <1>2, <1>5 DEF Port, Sub
<1> QED BY <1>2, <1>4, <1>6 DEF JoinedNodes, u

\* What is addressed in the second is the same as if there was nothing in front.
Follows(l, b) == \A k \in 1 .. Len(b) : b[k].op \in {"wait", "command", "config"} =>
  Port(l \o b, Len(l) + k) = Port(b, k) /\ Sub(l \o b, Len(l) + k) = Sub(b, k)

\* It is if that starts with an address.
LEMMA AddrFollows ==
  ASSUME NEW l, Listing(l), NEW b, Listing(b), Len(b) > 0, b[1].op = "addr"
  PROVE  Follows(l, b)
<1> DEFINE u == l \o b
           n == Len(l)
           G == {k \in 1 .. Len(b) : Port(u, n + k) = Port(b, k) /\ Sub(u, n + k) = Sub(b, k)}
<1>0. Len(l) \in Nat /\ Len(b) \in Nat /\ n \in Nat
  BY ListingNodes
<1>1. /\ Listing(u) /\ Len(u) = n + Len(b)
      /\ \A k \in 1 .. Len(b) : u[n + k] = b[k]
  BY ListingJoined DEF JoinedNodes
<1> HIDE DEF u, n
<1>2. 1 \in G
  <2>1. 1 \in 1 .. Len(b) /\ n + 1 \in 1 .. Len(u)
    BY <1>0, <1>1
  <2>2. u[n + 1] = b[1]
    BY <1>1, <2>1
  <2>3. Port(b, 1) = b[1].port /\ Sub(b, 1) = b[1].sub
    BY <2>1, PortSteps
  <2>4. Port(u, n + 1) = b[1].port /\ Sub(u, n + 1) = b[1].sub
    BY <1>1, <2>1, <2>2, PortSteps
  <2> QED BY <2>1, <2>3, <2>4
<1>3. ASSUME NEW k \in 1 .. Len(b) - 1, k \in G PROVE k + 1 \in G
  <2> DEFINE j == n + (k + 1)
  <2>1. /\ k + 1 \in 1 .. Len(b) /\ (k + 1) - 1 = k /\ j \in 1 .. Len(u) /\ j - 1 = n + k
    BY <1>0, <1>1
  <2>2. u[j] = b[k + 1]
    BY <1>1, <2>1
  <2>3. /\ b[k + 1].op = "addr" => Port(b, k + 1) = b[k + 1].port /\ Sub(b, k + 1) = b[k + 1].sub
        /\ b[k + 1].op # "addr" => Port(b, k + 1) = Port(b, k) /\ Sub(b, k + 1) = Sub(b, k)
    <3>1. /\ b[k + 1].op = "addr" => Port(b, k + 1) = b[k + 1].port /\ Sub(b, k + 1) = b[k + 1].sub
          /\ b[k + 1].op # "addr" => Port(b, k + 1) = Port(b, (k + 1) - 1)
                                     /\ Sub(b, k + 1) = Sub(b, (k + 1) - 1)
      BY <2>1, PortSteps
    <3> QED BY <2>1, <3>1
  <2> HIDE DEF j
  <2>4. /\ u[j].op = "addr" => Port(u, j) = u[j].port /\ Sub(u, j) = u[j].sub
        /\ u[j].op # "addr" => Port(u, j) = Port(u, n + k) /\ Sub(u, j) = Sub(u, n + k)
    <3>1. /\ u[j].op = "addr" => Port(u, j) = u[j].port /\ Sub(u, j) = u[j].sub
          /\ u[j].op # "addr" => Port(u, j) = Port(u, j - 1) /\ Sub(u, j) = Sub(u, j - 1)
      BY <1>1, <2>1, PortSteps
    <3> QED BY <2>1, <3>1
  <2>5. Port(u, j) = Port(b, k + 1) /\ Sub(u, j) = Sub(b, k + 1)
    BY <1>3, <2>2, <2>3, <2>4
  <2> QED BY <2>1, <2>5 DEF j
<1> HIDE DEF G
<1>4. \A k \in 1 .. Len(b) : k \in G
  BY <1>0, <1>2, <1>3, Climb
<1>5. \A k \in 1 .. Len(b) : Port(u, n + k) = Port(b, k) /\ Sub(u, n + k) = Sub(b, k)
  BY <1>4 DEF G
<1> QED BY <1>5 DEF Follows, u, n

\* Runs of configurations stay what they are.
LEMMA ConfigsJoined ==
  ASSUME NEW l \in Seq(Plain), NEW b \in Seq(Plain)
  PROVE  /\ \A m \in 1 .. Len(l) : ConfigsBehind(l, m) => ConfigsBehind(l \o b, m)
         /\ \A m \in 1 .. Len(b) : ConfigsBehind(b, m) => ConfigsBehind(l \o b, Len(l) + m)
<1> DEFINE u == l \o b
           n == Len(l)
<1>0. Len(l) \in Nat /\ Len(b) \in Nat /\ n \in Nat
  OBVIOUS
<1>1. /\ Len(u) = n + Len(b)
      /\ \A k \in 1 .. n : u[k] = l[k]
      /\ \A k \in 1 .. Len(b) : u[n + k] = b[k]
  BY ONLY l \in Seq(Plain), b \in Seq(Plain), JoinedShift
<1>l. n = Len(l)
  OBVIOUS
<1> HIDE DEF u, n
<1>5. ASSUME NEW m \in 1 .. n, ConfigsBehind(l, m) PROVE ConfigsBehind(u, m)
  <2>1. m + 6 <= n /\ l[m + 1].op = "nothing" /\ \A k \in m + 2 .. m + 6 : l[k].op = "config"
    BY <1>5, <1>l DEF ConfigsBehind
  <2>2. m + 6 <= Len(u) /\ m + 1 \in 1 .. n /\ \A k \in m + 2 .. m + 6 : k \in 1 .. n
    BY <1>0, <1>1, <2>1
  <2> QED BY <1>1, <2>1, <2>2 DEF ConfigsBehind
<1>6. ASSUME NEW m \in 1 .. Len(b), ConfigsBehind(b, m) PROVE ConfigsBehind(u, n + m)
  <2>1. m + 6 <= Len(b) /\ b[m + 1].op = "nothing" /\ \A k \in m + 2 .. m + 6 : b[k].op = "config"
    BY <1>6 DEF ConfigsBehind
  <2>2. (n + m) + 6 <= Len(u) /\ m + 1 \in 1 .. Len(b) /\ n + (m + 1) = (n + m) + 1
    BY <1>0, <1>1, <2>1
  <2>3. u[(n + m) + 1].op = "nothing"
    <3>1. u[n + (m + 1)] = b[m + 1]
      BY <1>1, <2>2
    <3> QED BY <2>1, <2>2, <3>1
  <2>4. ASSUME NEW k \in (n + m) + 2 .. (n + m) + 6 PROVE u[k].op = "config"
    <3>1. k - n \in m + 2 .. m + 6 /\ k - n \in 1 .. Len(b) /\ n + (k - n) = k
      BY <1>0, <2>1
    <3>2. u[n + (k - n)] = b[k - n]
      BY <1>1, <3>1
    <3> QED BY <2>1, <3>1, <3>2
  <2> QED BY <2>2, <2>3, <2>4 DEF ConfigsBehind
<1> QED BY <1>5, <1>6 DEF u, n

\* Lists with runs of configurations make one.
LEMMA RunsJoined ==
  ASSUME NEW l \in Seq(Plain), NEW b \in Seq(Plain), Runs(l), Runs(b)
  PROVE  Runs(l \o b)
<1> DEFINE u == l \o b
           n == Len(l)
<1>0. Len(l) \in Nat /\ Len(b) \in Nat /\ n \in Nat
  OBVIOUS
<1>1. /\ Len(u) = n + Len(b)
      /\ \A k \in 1 .. n : u[k] = l[k]
      /\ \A k \in 1 .. Len(b) : u[n + k] = b[k]
  BY ONLY l \in Seq(Plain), b \in Seq(Plain), JoinedShift
<1>5. \A m \in 1 .. n : ConfigsBehind(l, m) => ConfigsBehind(u, m)
  BY ConfigsJoined
<1>6. \A m \in 1 .. Len(b) : ConfigsBehind(b, m) => ConfigsBehind(u, n + m)
  BY ConfigsJoined
<1>l. n = Len(l)
  OBVIOUS
<1> HIDE DEF u, n
<1>3. ASSUME NEW k \in 1 .. Len(u)
      PROVE  k \in 1 .. n \/ \E j \in 1 .. Len(b) : k = n + j
  <2>1. CASE k <= n
    BY <1>0, <2>1
  <2>2. CASE k > n
    <3>1. k - n \in 1 .. Len(b) /\ k = n + (k - n)
      BY <1>0, <1>1, <2>2
    <3> QED BY <3>1
  <2> QED BY <1>0, <2>1, <2>2
<1>7. Runs(u)
  <2> SUFFICES ASSUME NEW m \in 1 .. Len(u), u[m].op = "addr", u[m].sub = 2
               PROVE  (m < Len(u) /\ u[m + 1].op = "command") \/ ConfigsBehind(u, m)
    BY DEF Runs
  <2>1. CASE m \in 1 .. n
    <3>1. (m < n /\ l[m + 1].op = "command") \/ ConfigsBehind(l, m)
      BY <1>1, <1>l, <2>1 DEF Runs
    <3>2. CASE m < n /\ l[m + 1].op = "command"
      <4>1. m + 1 \in 1 .. n /\ m < Len(u)
        BY <1>0, <1>1, <2>1, <3>2
      <4> QED BY <1>1, <3>2, <4>1
    <3> QED BY <1>5, <2>1, <3>1, <3>2
  <2>2. ASSUME NEW j \in 1 .. Len(b), m = n + j
        PROVE  (m < Len(u) /\ u[m + 1].op = "command") \/ ConfigsBehind(u, m)
    <3>1. (j < Len(b) /\ b[j + 1].op = "command") \/ ConfigsBehind(b, j)
      BY <1>1, <2>2 DEF Runs
    <3>2. CASE j < Len(b) /\ b[j + 1].op = "command"
      <4>1. j + 1 \in 1 .. Len(b) /\ m < Len(u) /\ n + (j + 1) = m + 1
        BY <1>0, <1>1, <2>2, <3>2
      <4>2. u[n + (j + 1)] = b[j + 1]
        BY <1>1, <4>1
      <4> QED BY <3>2, <4>1, <4>2
    <3> QED BY <1>6, <2>2, <3>1, <3>2
  <2> QED BY <1>3, <2>1, <2>2
<1> QED BY <1>7 DEF u

\* A list with the structure goes on with another.
LEMMA StructureJoined ==
  ASSUME NEW l, Structure(l), NEW b, Structure(b), Follows(l, b)
  PROVE  Structure(l \o b)
<1> DEFINE u == l \o b
           n == Len(l)
<1>0. Len(l) \in Nat /\ Len(b) \in Nat /\ n \in Nat /\ Listing(l) /\ Listing(b)
  BY ListingNodes DEF Structure
<1>1. /\ Listing(u) /\ Len(u) = n + Len(b)
      /\ \A k \in 1 .. n : u[k] = l[k] /\ Port(u, k) = Port(l, k) /\ Sub(u, k) = Sub(l, k)
      /\ \A k \in 1 .. Len(b) : u[n + k] = b[k]
  BY <1>0, ListingJoined DEF JoinedNodes
<1>2. \A k \in 1 .. Len(b) : b[k].op \in {"wait", "command", "config"} =>
        Port(u, n + k) = Port(b, k) /\ Sub(u, n + k) = Sub(b, k)
  BY DEF Follows
<1>l. n = Len(l)
  OBVIOUS
<1> HIDE DEF u, n
<1>3. ASSUME NEW k \in 1 .. Len(u)
      PROVE  k \in 1 .. n \/ \E j \in 1 .. Len(b) : k = n + j
  <2>1. CASE k <= n
    BY <1>0, <2>1
  <2>2. CASE k > n
    <3>1. k - n \in 1 .. Len(b) /\ k = n + (k - n)
      BY <1>0, <1>1, <2>2
    <3> QED BY <3>1
  <2> QED BY <1>0, <2>1, <2>2
<1>4. WaitsAtZero(u)
  <2> SUFFICES ASSUME NEW k \in 1 .. Len(u), Handled(u[k]) PROVE Port(u, k) = 0 \/ Sub(u, k) = 0
    BY DEF WaitsAtZero
  <2>1. CASE k \in 1 .. n
    BY <1>1, <1>l, <2>1 DEF Structure, WaitsAtZero
  <2>2. ASSUME NEW j \in 1 .. Len(b), k = n + j PROVE Port(u, k) = 0 \/ Sub(u, k) = 0
    <3>1. Handled(b[j]) /\ b[j].op = "wait"
      BY <1>1, <2>2 DEF Handled
    <3>2. Port(u, k) = Port(b, j) /\ Sub(u, k) = Sub(b, j)
      BY <1>2, <2>2, <3>1
    <3> QED BY <3>1, <3>2 DEF Structure, WaitsAtZero
  <2> QED BY <1>3, <2>1, <2>2
<1>5. \A m \in 1 .. n : ConfigsBehind(l, m) => ConfigsBehind(u, m)
  BY <1>0, ConfigsJoined DEF Listing, u, n
<1>6. \A m \in 1 .. Len(b) : ConfigsBehind(b, m) => ConfigsBehind(u, n + m)
  BY <1>0, ConfigsJoined DEF Listing, u, n
<1>7. Runs(u)
  BY <1>0, RunsJoined DEF Listing, Structure, u
<1>8. Starts(u)
  <2> SUFFICES ASSUME NEW c \in 1 .. Len(u), IsCommand(u[c], {"cacheStart"})
               PROVE  ConfigsBehind(u, c)
    BY DEF Starts
  <2>1. CASE c \in 1 .. n
    BY <1>1, <1>5, <1>l, <2>1 DEF Structure, Starts
  <2>2. ASSUME NEW j \in 1 .. Len(b), c = n + j PROVE ConfigsBehind(u, c)
    BY <1>1, <1>6, <2>2 DEF Structure, Starts
  <2> QED BY <1>3, <2>1, <2>2
<1>9. Pairs(u)
  <2> SUFFICES ASSUME NEW c \in 1 .. Len(u), IsCommand(u[c], {"cacheStart"})
               PROVE  \E f \in c + 1 .. Len(u) : Paired(u, c, f)
    BY DEF Pairs
  <2>1. CASE c \in 1 .. n
    <3>1. PICK f \in c + 1 .. n : Paired(l, c, f)
      BY <1>1, <1>l, <2>1 DEF Structure, Pairs
    <3>2. f \in 1 .. n /\ f \in c + 1 .. Len(u) /\ \A j \in c + 1 .. f - 1 : j \in 1 .. n
      BY <1>0, <1>1, <2>1
    <3>3. Paired(u, c, f)
      BY <1>1, <2>1, <3>1, <3>2 DEF Paired
    <3> QED BY <3>2, <3>3
  <2>2. ASSUME NEW e \in 1 .. Len(b), c = n + e PROVE \E f \in c + 1 .. Len(u) : Paired(u, c, f)
    <3>0. IsCommand(b[e], {"cacheStart"})
      BY <1>1, <2>2
    <3>1. PICK g \in e + 1 .. Len(b) : Paired(b, e, g)
      BY <2>2, <3>0 DEF Structure, Pairs
    <3>2. /\ IsCommand(b[g], {"cacheFinish"}) /\ Port(b, g) = Port(b, e)
          /\ \A j \in e + 1 .. g - 1 : Port(b, j) = Port(b, e) =>
               ~IsCommand(b[j], Restart) /\ (b[j].op = "config" => j \in e + 2 .. e + 6)
      BY <3>1 DEF Paired
    <3>3. g \in 1 .. Len(b) /\ n + g \in c + 1 .. Len(u) /\ b[e].op = "command" /\ b[g].op = "command"
      BY <1>0, <1>1, <2>2, <3>0, <3>2 DEF IsCommand
    <3>4. Port(u, c) = Port(b, e) /\ Port(u, n + g) = Port(b, g) /\ u[n + g] = b[g]
      BY <1>1, <1>2, <2>2, <3>3
    <3>5. ASSUME NEW k \in c + 1 .. (n + g) - 1, Port(u, k) = Port(u, c)
          PROVE  ~IsCommand(u[k], Restart) /\ (u[k].op = "config" => k \in c + 2 .. c + 6)
      <4> DEFINE j == k - n
      <4>0. /\ c = n + e /\ e \in 1 .. Len(b) /\ g \in 1 .. Len(b) /\ n \in Nat /\ Len(b) \in Nat
            /\ k \in c + 1 .. (n + g) - 1 /\ j = k - n
        BY <1>0, <2>2, <3>3
      <4>1. j \in e + 1 .. g - 1 /\ j \in 1 .. Len(b) /\ n + j = k
        BY ONLY <4>0
      <4>2. j \in e + 2 .. e + 6 => k \in c + 2 .. c + 6
        BY <1>0, <2>2
      <4> HIDE DEF j
      <4>3. u[k] = b[j]
        BY <1>1, <4>1
      <4>4. CASE b[j].op \in {"command", "config"}
        <5>1. Port(u, k) = Port(b, j)
          BY <1>2, <4>1, <4>4
        <5> QED BY <3>2, <3>4, <3>5, <4>1, <4>2, <4>3, <5>1
      <4>5. CASE b[j].op \notin {"command", "config"}
        BY <4>3, <4>5 DEF IsCommand
      <4> QED BY <4>4, <4>5
    <3>6. Paired(u, c, n + g)
      BY <3>2, <3>4, <3>5 DEF Paired
    <3> QED BY <3>3, <3>6
  <2> QED BY <1>3, <2>1, <2>2
<1>10. ResetFirst(u)
  <2> SUFFICES ASSUME NEW k \in 1 .. Len(u), u[k].op = "config", Port(u, k) # 0, Sub(u, k) # 2
               PROVE  \E r \in 1 .. k - 1 : /\ IsCommand(u[r], {"reset"}) /\ Port(u, r) = Port(u, k)
                                            /\ \A j \in r + 1 .. k - 1 : ~Handled(u[j])
    BY DEF ResetFirst
  <2>1. CASE k \in 1 .. n
    <3>0. k \in 1 .. Len(l) /\ l[k].op = "config" /\ Port(l, k) # 0 /\ Sub(l, k) # 2
      BY <1>1, <1>l, <2>1
    <3>1. PICK r \in 1 .. k - 1 : /\ IsCommand(l[r], {"reset"}) /\ Port(l, r) = Port(l, k)
                                  /\ \A j \in r + 1 .. k - 1 : ~Handled(l[j])
      BY <3>0 DEF Structure, ResetFirst
    <3>2. r \in 1 .. n /\ \A j \in r + 1 .. k - 1 : j \in 1 .. n
      BY <1>0, <2>1
    <3> QED BY <1>1, <2>1, <3>1, <3>2
  <2>2. ASSUME NEW e \in 1 .. Len(b), k = n + e
        PROVE  \E r \in 1 .. k - 1 : /\ IsCommand(u[r], {"reset"}) /\ Port(u, r) = Port(u, k)
                                     /\ \A j \in r + 1 .. k - 1 : ~Handled(u[j])
    <3>0. b[e].op = "config" /\ Port(u, k) = Port(b, e) /\ Port(b, e) # 0 /\ Sub(b, e) # 2
      <4>1. b[e].op = "config"
        BY <1>1, <2>2
      <4> QED BY <1>2, <2>2, <4>1
    <3>1. PICK g \in 1 .. e - 1 : /\ IsCommand(b[g], {"reset"}) /\ Port(b, g) = Port(b, e)
                                  /\ \A j \in g + 1 .. e - 1 : ~Handled(b[j])
      BY <3>0 DEF Structure, ResetFirst
    <3>2. g \in 1 .. Len(b) /\ n + g \in 1 .. k - 1 /\ b[g].op = "command"
      BY <1>0, <2>2, <3>1 DEF IsCommand
    <3>3. u[n + g] = b[g] /\ Port(u, n + g) = Port(b, g)
      BY <1>1, <1>2, <3>2
    <3>4. ASSUME NEW j \in (n + g) + 1 .. k - 1 PROVE ~Handled(u[j])
      <4>1. j - n \in g + 1 .. e - 1 /\ j - n \in 1 .. Len(b) /\ n + (j - n) = j
        BY <1>0, <2>2
      <4>2. u[n + (j - n)] = b[j - n]
        BY <1>1, <4>1
      <4> QED BY <3>1, <4>1, <4>2
    <3> QED BY <3>0, <3>1, <3>2, <3>3, <3>4
  <2> QED BY <1>3, <2>1, <2>2
<1>11. Structure(u)
  BY <1>1, <1>4, <1>7, <1>8, <1>9, <1>10 DEF Structure
<1> QED BY <1>11 DEF u

\* What configPort writes for a port (or a tile): to it, after its address, and
\* while it is set up.
Own(p) == {n \in Plain : /\ n.op = "addr" => n.port = p
                         /\ n.op = "command" => n.what \in Commands \ {"cacheStart"}}
Orders(p) == {n \in Own(p) : n.op # "addr" /\ (n.op = "config" => p = 0)}
Settings(p) == {n \in Own(p) : ~Handled(n)}

\* The nodes of the programs.
LEMMA OwnNodes ==
  ASSUME NEW p \in Ports \cup {0}, NEW d \in Nat
  PROVE  /\ Nothing \in Orders(p) /\ Nothing \in Settings(p)
         /\ \A sub \in 0 .. 2 : Addr(p, sub) \in Settings(p)
         /\ \A c \in Commands \ {"cacheStart"} : Command(c) \in Orders(p) /\ Command(c) \in Settings(p)
         /\ Config(d) \in Settings(p) /\ (p = 0 => Config(d) \in Orders(p))
         /\ \A c \in Names : Wait(c) \in Orders(p)
         /\ \A c \in {"unconfigured", "idle"} : Wait(c) \in Settings(p)
<1>1. /\ Nothing \in Instruction(Written) /\ Config(d) \in Instruction(Written)
      /\ \A sub \in 0 .. 2 : Addr(p, sub) \in Instruction(Written)
      /\ \A c \in Names : Command(c) \in Instruction(Written) /\ Wait(c) \in Instruction(Written)
  BY WrittenNodes
<1>2. Instruction(Written) \subseteq Plain
  BY DEF Plain, NodesOf
<1>3. Commands \subseteq Names /\ {"unconfigured", "idle"} \subseteq Names
  BY DEF Commands, Names
<1>4. /\ Nothing.op = "nothing" /\ Config(d).op = "config"
      /\ \A sub \in 0 .. 2 : Addr(p, sub).op = "addr" /\ Addr(p, sub).port = p
      /\ \A c \in Names : Command(c).op = "command" /\ Command(c).what = c
      /\ \A c \in Names : Wait(c).op = "wait" /\ Wait(c).what = c
  BY DEF Nothing, Config, Addr, Command, Wait, Node
<1>5. /\ Nothing \in Own(p) /\ Config(d) \in Own(p)
      /\ \A sub \in 0 .. 2 : Addr(p, sub) \in Own(p)
      /\ \A c \in Commands \ {"cacheStart"} : Command(c) \in Own(p)
      /\ \A c \in Names : Wait(c) \in Own(p)
  BY <1>1, <1>2, <1>3, <1>4 DEF Own
<1> QED BY <1>3, <1>4, <1>5 DEF Orders, Settings, Handled

\* Pieces in a row are one sequence, however they are put together.
LEMMA InARow ==
  ASSUME NEW S, NEW a \in Seq(S), NEW b \in Seq(S), NEW c \in Seq(S)
  PROVE  (a \o b) \o c = a \o (b \o c)
OBVIOUS

\* In what is written for a port, the port is addressed all along.
LEMMA OwnPort ==
  ASSUME NEW p, NEW l \in Seq(Own(p)), Len(l) > 0, l[1].op = "addr"
  PROVE  /\ Listing(l)
         /\ \A k \in 1 .. Len(l) : l[k] \in Own(p) /\ Port(l, k) = p
<1> DEFINE S == Own(p)
<1>0. Own(p) \subseteq Plain
  BY DEF Own
<1>1. Len(l) \in Nat /\ l \in Seq(Plain) /\ \A k \in 1 .. Len(l) : l[k] \in S
  <2>1. l \in Seq(S)
    OBVIOUS
  <2>2. S \subseteq Plain
    BY <1>0
  <2> HIDE DEF S
  <2> DEFINE R == Plain
  <2>3. S \subseteq R
    BY <2>2
  <2> HIDE DEF R
  <2>4. Len(l) \in Nat /\ l \in Seq(R) /\ \A k \in 1 .. Len(l) : l[k] \in S
    BY <2>1, <2>3
  <2> QED BY <2>4 DEF R
<1>2. Listing(l)
  <2>1. \A k \in 1 .. Len(l) : l[k].op = "command" => l[k].what \in Commands
    BY <1>1 DEF Own
  <2> QED BY <1>1, <2>1 DEF Listing
<1> DEFINE G == {k \in 1 .. Len(l) : Port(l, k) = p}
<1>3. 1 \in G
  <2>1. 1 \in 1 .. Len(l)
    BY <1>1
  <2>2. l[1].port = p
    BY <1>1, <2>1 DEF Own
  <2>3. Port(l, 1) = l[1].port
    BY <1>2, <2>1, PortSteps
  <2> QED BY <2>1, <2>2, <2>3
<1>4. ASSUME NEW k \in 1 .. Len(l) - 1, k \in G PROVE k + 1 \in G
  <2>1. k + 1 \in 1 .. Len(l) /\ (k + 1) - 1 = k
    BY <1>1
  <2>2. l[k + 1].op = "addr" => l[k + 1].port = p
    BY <1>1, <2>1 DEF Own
  <2>3. /\ l[k + 1].op = "addr" => Port(l, k + 1) = l[k + 1].port
        /\ l[k + 1].op # "addr" => Port(l, k + 1) = Port(l, k)
    <3>1. /\ l[k + 1].op = "addr" => Port(l, k + 1) = l[k + 1].port
          /\ l[k + 1].op # "addr" => Port(l, k + 1) = Port(l, (k + 1) - 1)
      BY <1>2, <2>1, PortSteps
    <3> QED BY <2>1, <3>1
  <2> QED BY <1>4, <2>1, <2>2, <2>3
<1> HIDE DEF G
<1>5. \A k \in 1 .. Len(l) : k \in G
  BY <1>1, <1>3, <1>4, Climb
<1> QED BY <1>1, <1>2, <1>5 DEF G

\* A piece that starts with an address has the structure on its own.
Block(b) == Structure(b) /\ Len(b) > 0 /\ b[1].op = "addr"

\* It does if its configurations are where they should be.
LEMMA OwnBlock ==
  ASSUME NEW p, NEW l \in Seq(Own(p)), Len(l) > 0, l[1].op = "addr",
         WaitsAtZero(l), Runs(l), ResetFirst(l)
  PROVE  Block(l)
<1>1. Listing(l) /\ \A k \in 1 .. Len(l) : l[k] \in Own(p)
  BY OwnPort
<1>2. \A c \in 1 .. Len(l) : ~IsCommand(l[c], {"cacheStart"})
  BY <1>1 DEF IsCommand, Own
<1> QED BY <1>1, <1>2 DEF Block, Structure, Starts, Pairs

\* Blocks go on with a block, and a list does.
LEMMA BlockJoined ==
  ASSUME NEW l, Structure(l), NEW b, Block(b)
  PROVE  Structure(l \o b)
BY AddrFollows, StructureJoined DEF Block, Structure

\* The first of two blocks makes it a block.
LEMMA BlocksJoined ==
  ASSUME NEW a, Block(a), NEW b, Block(b)
  PROVE  Block(a \o b)
<1>1. Structure(a \o b)
  BY BlockJoined DEF Block
<1>2. Listing(a) /\ Listing(b) /\ Len(a) > 0 /\ a[1].op = "addr"
  BY DEF Block, Structure
<1>3. Len(a) \in Nat /\ Len(b) \in Nat
  BY <1>2, ListingNodes
<1>4. Len(a \o b) = Len(a) + Len(b) /\ \A k \in 1 .. Len(a) : (a \o b)[k] = a[k]
  BY <1>2, ListingJoined DEF JoinedNodes
<1>5. Len(a \o b) > 0 /\ (a \o b)[1] = a[1]
  BY <1>2, <1>3, <1>4
<1> QED BY <1>1, <1>2, <1>5 DEF Block

\* A port that is selected.
LEMMA Selected ==
  ASSUME NEW p \in Ports \cup {0}, NEW sub \in 0 .. 2
  PROVE  /\ Select(p, sub) \in Seq(Own(p)) /\ Len(Select(p, sub)) = 2
         /\ Select(p, sub)[1].op = "addr" /\ Select(p, sub)[1].sub = sub
         /\ Select(p, sub)[2].op = "nothing"
<1>1. Addr(p, sub) \in Own(p) /\ Nothing \in Own(p)
  BY OwnNodes DEF Orders, Settings
<1>2. Addr(p, sub).op = "addr" /\ Addr(p, sub).sub = sub /\ Nothing.op = "nothing"
  BY DEF Addr, Nothing, Node
<1> DEFINE S == Own(p)
           m == Addr(p, sub)
           n == Nothing
<1> HIDE DEF S, m, n
<1>3. m \in S /\ n \in S
  BY <1>1 DEF S, m, n
<1>4. <<m, n>> \in Seq(S) /\ Len(<<m, n>>) = 2 /\ <<m, n>>[1] = m /\ <<m, n>>[2] = n
  BY <1>3
<1>5. Select(p, sub) = <<m, n>>
  BY DEF Select, m, n
<1> QED BY <1>2, <1>4, <1>5 DEF S, m, n

\* Orders for a port that has been selected.
LEMMA OrdersBlock ==
  ASSUME NEW p \in Ports \cup {0}, NEW t \in Seq(Orders(p))
  PROVE  Block(Select(p, 0) \o t)
<1> DEFINE S == Own(p)
           h == Select(p, 0)
           l == h \o t
<1>1. h \in Seq(S) /\ Len(h) = 2 /\ h[1].op = "addr" /\ h[1].sub = 0 /\ h[2].op = "nothing"
  BY Selected
<1>2. Orders(p) \subseteq S /\ \A n \in Orders(p) : n.op # "addr" /\ (n.op = "config" => p = 0)
  BY DEF Orders
<1> DEFINE T == Orders(p)
<1>3. T \subseteq S /\ \A n \in T : n.op # "addr" /\ (n.op = "config" => p = 0)
  BY <1>2
<1>4. t \in Seq(T)
  OBVIOUS
<1> HIDE DEF S, T, h
<1>5. t \in Seq(S) /\ Len(t) \in Nat /\ \A k \in 1 .. Len(t) : t[k] \in T
  BY <1>3, <1>4
<1>6. /\ l \in Seq(S) /\ Len(l) = 2 + Len(t) /\ l[1] = h[1] /\ l[2] = h[2]
      /\ \A k \in 1 .. Len(t) : l[2 + k] = t[k]
  <2>1. /\ l \in Seq(S) /\ Len(l) = Len(h) + Len(t)
        /\ \A k \in 1 .. Len(h) : l[k] = h[k]
        /\ \A k \in 1 .. Len(t) : l[Len(h) + k] = t[k]
    <3>1. h \in Seq(S) /\ t \in Seq(S)
      BY <1>1, <1>5
    <3> QED BY ONLY <3>1, JoinedShift
  <2> QED BY <1>1, <2>1
<1> HIDE DEF l
<1>7. ASSUME NEW k \in 3 .. Len(l) PROVE l[k].op # "addr" /\ (l[k].op = "config" => p = 0)
  <2>1. k - 2 \in 1 .. Len(t) /\ 2 + (k - 2) = k
    BY <1>5, <1>6
  <2>2. l[2 + (k - 2)] = t[k - 2]
    BY <1>6, <2>1
  <2> QED BY <1>3, <1>5, <2>1, <2>2
<1>8. /\ l \in Seq(Own(p)) /\ Len(l) > 0 /\ Len(l) \in Nat /\ l[1].op = "addr" /\ l[1].sub = 0
      /\ l[2].op = "nothing"
  BY <1>1, <1>5, <1>6 DEF S
<1>9. Listing(l) /\ \A k \in 1 .. Len(l) : Port(l, k) = p
  BY <1>8, OwnPort
<1>10. ASSUME NEW k \in 2 .. Len(l) PROVE l[k].op # "addr" /\ (l[k].op = "config" => p = 0)
  <2>1. CASE k = 2
    BY <1>8, <2>1
  <2>2. CASE k # 2
    BY <1>7, <2>2
  <2> QED BY <2>1, <2>2
<1>11. \A k \in 1 .. Len(l) : Sub(l, k) = 0
  <2>1. 1 \in 0 .. Len(l) /\ Len(l) \in 1 .. Len(l) /\ 1 \in 1 .. Len(l)
    BY <1>8
  <2>2. \A k \in 1 + 1 .. Len(l) : l[k].op # "addr"
    BY <1>10
  <2>3. \A k \in 1 .. Len(l) : Sub(l, k) = Sub(l, 1)
    BY <1>9, <2>1, <2>2, PortKept
  <2>4. Sub(l, 1) = l[1].sub
    BY <1>8, <1>9, <2>1, PortSteps
  <2> QED BY <1>8, <2>3, <2>4
<1>12. WaitsAtZero(l)
  BY <1>11 DEF WaitsAtZero
<1>13. Runs(l)
  <2>1. ASSUME NEW m \in 1 .. Len(l), l[m].op = "addr", l[m].sub = 2 PROVE FALSE
    <3>1. m = 1
      BY <1>10, <2>1
    <3> QED BY <1>8, <2>1, <3>1
  <2> QED BY <2>1 DEF Runs
<1>14. ResetFirst(l)
  <2>1. ASSUME NEW k \in 1 .. Len(l), l[k].op = "config", Port(l, k) # 0 PROVE FALSE
    <3>1. k # 1
      BY <1>8, <2>1
    <3> QED BY <1>9, <1>10, <2>1, <3>1
  <2> QED BY <2>1 DEF ResetFirst
<1>15. Block(l)
  <2>1. /\ l \in Seq(Own(p)) /\ Len(l) > 0 /\ l[1].op = "addr"
        /\ WaitsAtZero(l) /\ Runs(l) /\ ResetFirst(l)
    BY <1>8, <1>12, <1>13, <1>14
  <2> QED BY ONLY <2>1, OwnBlock
<1> QED BY <1>15 DEF l, h

\* The run of configurations of a port.
LEMMA RunShape ==
  ASSUME NEW p \in Ports \cup {0}, NEW d \in Nat
  PROVE  /\ Select(p, 2) \o Coordinates(d) \in Seq(Own(p))
         /\ Len(Select(p, 2) \o Coordinates(d)) = 8
         /\ Runs(Select(p, 2) \o Coordinates(d))
         /\ (Select(p, 2) \o Coordinates(d))[1].op = "addr"
         /\ (Select(p, 2) \o Coordinates(d))[1].sub = 2
         /\ \A k \in 2 .. 8 : (Select(p, 2) \o Coordinates(d))[k].op \in {"nothing", "config"}
<1> DEFINE S == Own(p)
           h == Select(p, 2)
           r == [i \in 1 .. 5 |-> Config(d)]
           z == <<Nothing>>
           t == Coordinates(d)
           l == h \o t
<1>1. h \in Seq(S) /\ Len(h) = 2 /\ h[1].op = "addr" /\ h[1].sub = 2 /\ h[2].op = "nothing"
  BY Selected
<1>2. Config(d) \in S /\ Nothing \in S
  BY OwnNodes DEF Settings
<1>3. Config(d).op = "config" /\ Nothing.op = "nothing"
  BY DEF Config, Nothing, Node
<1>4. /\ r \in Seq(S) /\ Len(r) = 5 /\ \A k \in 1 .. 5 : r[k].op = "config"
  <2> HIDE DEF S
  <2>1. r \in Seq(S) /\ Len(r) = 5
    BY <1>2
  <2>2. \A k \in 1 .. 5 : r[k] = Config(d)
    OBVIOUS
  <2> QED BY <1>3, <2>1, <2>2
<1>5. z \in Seq(S) /\ Len(z) = 1 /\ z[1].op = "nothing"
  <2> HIDE DEF S
  <2> QED BY <1>2, <1>3
<1>6. t = r \o z
  BY DEF Coordinates
<1> HIDE DEF S, h, r, z, t
<1>7. /\ t \in Seq(S) /\ Len(t) = 6 /\ \A k \in 1 .. 5 : t[k] = r[k]
      /\ t[6] = z[1]
  <2>1. /\ r \o z \in Seq(S) /\ Len(r \o z) = Len(r) + Len(z)
        /\ \A k \in 1 .. Len(r) : (r \o z)[k] = r[k]
        /\ \A k \in 1 .. Len(z) : (r \o z)[Len(r) + k] = z[k]
    <3>1. r \in Seq(S) /\ z \in Seq(S)
      BY <1>4, <1>5
    <3> QED BY ONLY <3>1, JoinedShift
  <2>2. 5 + 1 = 6 /\ 1 \in 1 .. 1
    OBVIOUS
  <2> QED BY <1>4, <1>5, <1>6, <2>1, <2>2
<1>8. /\ l \in Seq(S) /\ Len(l) = 8 /\ l[1] = h[1] /\ l[2] = h[2]
      /\ \A k \in 1 .. 6 : l[2 + k] = t[k]
  <2>1. /\ l \in Seq(S) /\ Len(l) = Len(h) + Len(t)
        /\ \A k \in 1 .. Len(h) : l[k] = h[k]
        /\ \A k \in 1 .. Len(t) : l[Len(h) + k] = t[k]
    <3>1. h \in Seq(S) /\ t \in Seq(S)
      BY <1>1, <1>7
    <3> QED BY ONLY <3>1, JoinedShift
  <2> QED BY <1>1, <1>7, <2>1, SMTT(30)
<1> HIDE DEF l
<1>9. \A k \in 3 .. 7 : l[k].op = "config"
  <2> TAKE k \in 3 .. 7
  <2>1. k - 2 \in 1 .. 5 /\ k - 2 \in 1 .. 6 /\ 2 + (k - 2) = k
    OBVIOUS
  <2>2. l[2 + (k - 2)] = t[k - 2]
    BY <1>8, <2>1
  <2> QED BY <1>4, <1>7, <2>1, <2>2
<1>10. l[8].op = "nothing" /\ l[2].op = "nothing" /\ l[1].op = "addr" /\ l[1].sub = 2
  <2>1. l[2 + 6] = t[6] /\ 2 + 6 = 8
    BY <1>8
  <2> QED BY <1>1, <1>5, <1>7, <1>8, <2>1
<1>11. ASSUME NEW k \in 2 .. 8 PROVE l[k].op \in {"nothing", "config"}
  <2>1. k = 2 \/ k = 8 \/ k \in 3 .. 7
    OBVIOUS
  <2> QED BY <1>9, <1>10, <2>1
<1>12. Runs(l)
  <2>1. ConfigsBehind(l, 1)
    <3>1. 1 + 6 <= Len(l) /\ 1 + 1 = 2 /\ \A k \in 1 + 2 .. 1 + 6 : k \in 3 .. 7
      BY <1>8
    <3> QED BY <1>9, <1>10, <3>1 DEF ConfigsBehind
  <2>2. ASSUME NEW m \in 1 .. Len(l), l[m].op = "addr" PROVE m = 1
    <3>1. m = 1 \/ m \in 2 .. 8
      BY <1>8
    <3> QED BY <1>11, <2>2, <3>1
  <2> QED BY <2>1, <2>2 DEF Runs
<1> QED BY <1>8, <1>10, <1>11, <1>12 DEF l, h, t, S

\* It is a block.
LEMMA RunBlock ==
  ASSUME NEW p \in Ports, NEW d \in Nat
  PROVE  Block(Select(p, 2) \o Coordinates(d))
<1> DEFINE l == Select(p, 2) \o Coordinates(d)
<1>1. /\ l \in Seq(Own(p)) /\ Len(l) = 8 /\ Runs(l) /\ l[1].op = "addr" /\ l[1].sub = 2
      /\ \A k \in 2 .. 8 : l[k].op \in {"nothing", "config"}
  BY RunShape
<1> HIDE DEF l
<1>2. Listing(l)
  <2>1. l \in Seq(Own(p)) /\ Len(l) > 0 /\ l[1].op = "addr"
    BY <1>1
  <2> QED BY ONLY <2>1, OwnPort
<1>3. \A k \in 1 .. Len(l) : k = 1 \/ k \in 2 .. 8
  BY <1>1
<1>4. WaitsAtZero(l)
  <2>1. ASSUME NEW k \in 1 .. Len(l) PROVE ~Handled(l[k])
    BY <1>1, <1>3 DEF Handled
  <2> QED BY <2>1 DEF WaitsAtZero
<1>5. ASSUME NEW k \in 1 .. Len(l) PROVE Sub(l, k) = 2
  <2>1. 1 \in 0 .. Len(l) /\ Len(l) \in 1 .. Len(l) /\ 1 \in 1 .. Len(l)
    BY <1>1
  <2>2. \A j \in 1 + 1 .. Len(l) : l[j].op # "addr"
    <3>1. \A j \in 1 + 1 .. Len(l) : j \in 2 .. 8
      BY <1>1
    <3> QED BY <1>1, <3>1
  <2>3. \A j \in 1 .. Len(l) : Sub(l, j) = Sub(l, 1)
    BY <1>2, <2>1, <2>2, PortKept
  <2>4. Sub(l, 1) = l[1].sub
    BY <1>1, <1>2, <2>1, PortSteps
  <2> QED BY <1>1, <2>3, <2>4
<1>6. ResetFirst(l)
  BY <1>5 DEF ResetFirst
<1>7. Block(l)
  <2>1. /\ l \in Seq(Own(p)) /\ Len(l) > 0 /\ l[1].op = "addr"
        /\ WaitsAtZero(l) /\ Runs(l) /\ ResetFirst(l)
    BY <1>1, <1>4, <1>6
  <2> QED BY ONLY <2>1, OwnBlock
<1> QED BY <1>7 DEF l

\* A port that is opened: its configurations, and orders for it.
LEMMA OpenBlock ==
  ASSUME NEW p \in Ports, NEW d \in Nat, NEW t \in Seq(Orders(p))
  PROVE  Block(Select(p, 2) \o Coordinates(d) \o Select(p, 0) \o t)
<1> DEFINE r == Select(p, 2) \o Coordinates(d)
           o == Select(p, 0)
           S == Own(p)
           T == Orders(p)
<1>1. Block(r) /\ r \in Seq(S)
  BY RunBlock, RunShape
<1>2. Block(o \o t)
  BY OrdersBlock
<1>3. o \in Seq(S)
  BY Selected
<1>4. t \in Seq(S)
  <2>1. T \subseteq S /\ t \in Seq(T)
    BY DEF Orders
  <2> HIDE DEF S, T
  <2> QED BY <2>1
<1> HIDE DEF r, o, S, T
<1>5. (r \o o) \o t = r \o (o \o t)
  BY <1>1, <1>3, <1>4, InARow
<1>6. Block(r \o (o \o t))
  BY <1>1, <1>2, BlocksJoined
<1>7. Block((r \o o) \o t)
  BY <1>5, <1>6
<1> QED BY <1>7 DEF r, o

\* What sets a port up starts with a reset.
SettingUp(l, p) ==
  /\ l \in Seq(Settings(p)) /\ Runs(l) /\ Len(l) >= 3
  /\ l[1].op = "addr" /\ l[2].op = "nothing" /\ IsCommand(l[3], {"reset"})

\* It can go on with settings.
LEMMA SettingsJoined ==
  ASSUME NEW p, NEW l, SettingUp(l, p), NEW t \in Seq(Settings(p)), Runs(t)
  PROVE  SettingUp(l \o t, p)
<1> DEFINE S == Settings(p)
           R == Plain
<1>1. S \subseteq R /\ l \in Seq(S) /\ t \in Seq(S)
  BY DEF Settings, Own, SettingUp
<1> HIDE DEF S, R
<1>2. l \in Seq(R) /\ t \in Seq(R)
  BY <1>1
<1>3. /\ l \o t \in Seq(S) /\ Len(l \o t) = Len(l) + Len(t)
      /\ \A k \in 1 .. Len(l) : (l \o t)[k] = l[k]
  BY ONLY <1>1, JoinedShift
<1>4. Len(l) \in Nat /\ Len(t) \in Nat /\ Len(l) >= 3
  BY <1>1 DEF SettingUp
<1>5. Len(l \o t) >= 3 /\ (l \o t)[1] = l[1] /\ (l \o t)[2] = l[2] /\ (l \o t)[3] = l[3]
  BY <1>3, <1>4
<1>6. Runs(l \o t)
  BY <1>2, RunsJoined DEF SettingUp, R
<1> QED BY <1>3, <1>5, <1>6 DEF SettingUp, S

\* Settings without the second submodule have no run of configurations.
LEMMA NoRuns ==
  ASSUME NEW S, NEW t \in Seq(S), \A n \in S : n.op # "addr" \/ n.sub # 2
  PROVE  Runs(t)
<1>1. \A k \in 1 .. Len(t) : t[k] \in S
  OBVIOUS
<1> QED BY <1>1 DEF Runs

\* Set up, a port has the structure.
LEMMA SettingBlock ==
  ASSUME NEW p, NEW l, SettingUp(l, p)
  PROVE  Block(l)
<1> DEFINE S == Settings(p)
           R == Own(p)
<1>0. S \subseteq R /\ l \in Seq(S) /\ \A n \in S : ~Handled(n)
  BY DEF Settings, SettingUp
<1> HIDE DEF S, R
<1>1. Len(l) \in Nat /\ l \in Seq(R) /\ \A k \in 1 .. Len(l) : l[k] \in S
  BY <1>0
<1>2. /\ l \in Seq(Own(p)) /\ Len(l) >= 3 /\ Len(l) > 0 /\ l[1].op = "addr" /\ l[2].op = "nothing"
      /\ IsCommand(l[3], {"reset"}) /\ Runs(l) /\ \A k \in 1 .. Len(l) : ~Handled(l[k])
  BY <1>0, <1>1 DEF SettingUp, R
<1>3. \A k \in 1 .. Len(l) : Port(l, k) = p
  <2>1. l \in Seq(Own(p)) /\ Len(l) > 0 /\ l[1].op = "addr"
    BY <1>2
  <2> QED BY ONLY <2>1, OwnPort
<1>4. WaitsAtZero(l)
  BY <1>2 DEF WaitsAtZero
<1>5. ResetFirst(l)
  <2> SUFFICES ASSUME NEW k \in 1 .. Len(l), l[k].op = "config"
               PROVE  \E r \in 1 .. k - 1 : /\ IsCommand(l[r], {"reset"}) /\ Port(l, r) = Port(l, k)
                                            /\ \A j \in r + 1 .. k - 1 : ~Handled(l[j])
    BY DEF ResetFirst
  <2>1. k # 1 /\ k # 2 /\ k # 3
    BY <1>2 DEF IsCommand
  <2>2. 3 \in 1 .. k - 1 /\ 3 \in 1 .. Len(l) /\ \A j \in 3 + 1 .. k - 1 : j \in 1 .. Len(l)
    BY <1>1, <1>2, <2>1
  <2>3. Port(l, 3) = p /\ Port(l, k) = p /\ \A j \in 3 + 1 .. k - 1 : ~Handled(l[j])
    BY <1>2, <1>3, <2>2
  <2> QED BY <1>2, <2>2, <2>3
<1>6. /\ l \in Seq(Own(p)) /\ Len(l) > 0 /\ l[1].op = "addr"
      /\ WaitsAtZero(l) /\ Runs(l) /\ ResetFirst(l)
  BY <1>2, <1>4, <1>5
<1> QED BY ONLY <1>6, OwnBlock

\* What a port is set up with.
LEMMA SettingPieces ==
  ASSUME NEW p \in Ports \cup {0}, NEW d \in Nat
  PROVE  /\ \A sub \in 0 .. 2 : Select(p, sub) \in Seq(Settings(p))
         /\ Send("reset") \in Seq(Settings(p)) /\ <<Wait("unconfigured")>> \in Seq(Settings(p))
         /\ [i \in 1 .. 4 |-> Config(d)] \in Seq(Settings(p)) /\ <<Nothing>> \in Seq(Settings(p))
         /\ Coordinates(d) \in Seq(Settings(p)) /\ <<Wait("idle")>> \in Seq(Settings(p))
         /\ <<Config(d)>> \in Seq(Settings(p))
<1> DEFINE I == Settings(p)
<1>1. /\ Nothing \in I /\ Config(d) \in I /\ \A sub \in 0 .. 2 : Addr(p, sub) \in I
      /\ Wait("unconfigured") \in I /\ Wait("idle") \in I
  BY OwnNodes
<1>2. Command("reset") \in I
  <2>1. "reset" \in Commands \ {"cacheStart"}
    BY DEF Commands
  <2> QED BY <2>1, OwnNodes
<1> HIDE DEF I
<1>3. \A sub \in 0 .. 2 : Select(p, sub) \in Seq(I)
  BY <1>1 DEF Select
<1>4. Send("reset") \in Seq(I)
  BY <1>1, <1>2 DEF Send
<1>5. /\ [i \in 1 .. 4 |-> Config(d)] \in Seq(I) /\ [i \in 1 .. 5 |-> Config(d)] \in Seq(I)
  BY <1>1
<1>6. /\ <<Nothing>> \in Seq(I) /\ <<Config(d)>> \in Seq(I)
      /\ <<Wait("unconfigured")>> \in Seq(I) /\ <<Wait("idle")>> \in Seq(I)
  BY <1>1
<1>7. Coordinates(d) \in Seq(I)
  BY <1>5, <1>6, Both DEF Coordinates
<1> QED BY <1>3, <1>4, <1>5, <1>6, <1>7 DEF I

\* How it begins.
LEMMA ResetBegins ==
  ASSUME NEW p \in Ports
  PROVE  SettingUp(Select(p, 0) \o Send("reset"), p)
<1> DEFINE S == Settings(p)
           h == Select(p, 0)
           t == Send("reset")
           m == Command("reset")
<1>1. h \in Seq(S) /\ t \in Seq(S)
  BY SettingPieces
<1>2. Len(h) = 2 /\ h[1].op = "addr" /\ h[1].sub = 0 /\ h[2].op = "nothing"
  BY Selected
<1>3. m.op = "command" /\ m.what = "reset" /\ Nothing.op = "nothing"
  BY DEF Command, Nothing, Node
<1> HIDE DEF S, h, m
<1>4. t = <<m, Nothing>> /\ Len(t) = 2 /\ t[1] = m /\ t[2] = Nothing
  BY DEF Send, m
<1> HIDE DEF t
<1> DEFINE l == h \o t
<1>5. /\ l \in Seq(S) /\ Len(l) = 4 /\ l[1] = h[1] /\ l[2] = h[2] /\ l[3] = m /\ l[4] = Nothing
  <2>1. /\ h \o t \in Seq(S) /\ Len(h \o t) = Len(h) + Len(t)
        /\ \A k \in 1 .. Len(h) : (h \o t)[k] = h[k]
        /\ \A k \in 1 .. Len(t) : (h \o t)[Len(h) + k] = t[k]
    BY ONLY <1>1, JoinedShift
  <2>2. l[2 + 1] = t[1] /\ l[2 + 2] = t[2] /\ 2 + 1 = 3 /\ 2 + 2 = 4
    BY <1>2, <1>4, <2>1
  <2> QED BY <1>2, <1>4, <2>1, <2>2
<1> HIDE DEF l
<1>6. \A k \in 1 .. Len(l) : k = 1 \/ k = 2 \/ k = 3 \/ k = 4
  BY <1>5
<1>7. Runs(l)
  <2>1. ASSUME NEW k \in 1 .. Len(l) PROVE l[k].op # "addr" \/ l[k].sub # 2
    BY <1>2, <1>3, <1>5, <1>6
  <2> QED BY <2>1 DEF Runs
<1>8. IsCommand(l[3], {"reset"}) /\ Len(l) >= 3
  BY <1>3, <1>5 DEF IsCommand
<1> QED BY <1>2, <1>5, <1>7, <1>8 DEF SettingUp, S, l, h, t

\* A piece without a run.
LEMMA PlainSettings ==
  ASSUME NEW p \in Ports, NEW d \in Nat
  PROVE  /\ Runs(<<Wait("unconfigured")>>) /\ Runs([i \in 1 .. 4 |-> Config(d)])
         /\ Runs(<<Nothing>>) /\ Runs(<<Wait("idle")>>) /\ Runs(<<Config(d)>>)
         /\ Runs(Select(p, 0)) /\ Runs(Select(p, 1))
<1> DEFINE S == {Wait("unconfigured"), Wait("idle"), Config(d), Nothing, Addr(p, 0), Addr(p, 1)}
<1>1. \A n \in S : n.op # "addr" \/ n.sub # 2
  <2>1. /\ Wait("unconfigured").op = "wait" /\ Wait("idle").op = "wait" /\ Config(d).op = "config"
        /\ Nothing.op = "nothing" /\ Addr(p, 0).sub = 0 /\ Addr(p, 1).sub = 1
    BY DEF Wait, Config, Nothing, Addr, Node
  <2> QED BY <2>1
<1>2. /\ Wait("unconfigured") \in S /\ Wait("idle") \in S /\ Config(d) \in S /\ Nothing \in S
      /\ Addr(p, 0) \in S /\ Addr(p, 1) \in S
  OBVIOUS
<1> HIDE DEF S
<1>3. /\ <<Wait("unconfigured")>> \in Seq(S) /\ [i \in 1 .. 4 |-> Config(d)] \in Seq(S)
      /\ <<Nothing>> \in Seq(S) /\ <<Wait("idle")>> \in Seq(S) /\ <<Config(d)>> \in Seq(S)
  BY <1>2
<1>4. Select(p, 0) \in Seq(S) /\ Select(p, 1) \in Seq(S)
  BY <1>2 DEF Select
<1> QED BY <1>1, <1>3, <1>4, NoRuns

\* The set-up of a port is a block.
LEMMA SetupBlock ==
  ASSUME NEW p \in Ports, NEW d \in Nat
  PROVE  Block(Select(p, 0) \o Send("reset") \o <<Wait("unconfigured")>>
                 \o Select(p, 1) \o [i \in 1 .. 4 |-> Config(d)] \o <<Nothing>>
                 \o Select(p, 2) \o Coordinates(d) \o <<Wait("idle")>>
                 \o Select(p, 0) \o <<Config(d)>>)
<1> DEFINE S == Settings(p)
           a == Select(p, 0) \o Send("reset")
           b == <<Wait("unconfigured")>>
           c == Select(p, 1)
           e == [i \in 1 .. 4 |-> Config(d)]
           f == <<Nothing>>
           g == Select(p, 2)
           h == Coordinates(d)
           i == <<Wait("idle")>>
           j == Select(p, 0)
           k == <<Config(d)>>
<1>1. /\ b \in Seq(S) /\ c \in Seq(S) /\ e \in Seq(S) /\ f \in Seq(S) /\ g \in Seq(S)
      /\ h \in Seq(S) /\ i \in Seq(S) /\ j \in Seq(S) /\ k \in Seq(S)
  BY SettingPieces
<1>2. Runs(b) /\ Runs(c) /\ Runs(e) /\ Runs(f) /\ Runs(i) /\ Runs(j) /\ Runs(k)
  BY PlainSettings
<1>3. Runs(g \o h)
  BY RunShape
<1>4. SettingUp(a, p)
  BY ResetBegins
<1> DEFINE U(l) == SettingUp(l, p)
<1>5. \A l, t : U(l) /\ t \in Seq(S) /\ Runs(t) => U(l \o t)
  <2> HIDE DEF S
  <2> TAKE l, t
  <2> HAVE U(l) /\ t \in Seq(S) /\ Runs(t)
  <2> QED BY SettingsJoined DEF S
<1>6. \A l : U(l) => l \in Seq(S)
  BY DEF SettingUp
<1>7. g \o h \in Seq(S)
  <2> HIDE DEF S, g, h
  <2> QED BY <1>1, Both
<1> HIDE DEF U, S, a, b, c, e, f, g, h, i, j, k
<1>8. U(a \o b \o c \o e \o f)
  BY <1>1, <1>2, <1>4, <1>5, Zenon DEF U
<1> DEFINE x == a \o b \o c \o e \o f
<1> HIDE DEF x
<1>9. U(x) /\ x \in Seq(S)
  BY <1>6, <1>8 DEF x
<1>10. (x \o g) \o h = x \o (g \o h)
  <2>1. x \in Seq(S) /\ g \in Seq(S) /\ h \in Seq(S)
    BY <1>1, <1>9
  <2> QED BY ONLY <2>1, InARow
<1>11. U(x \o (g \o h))
  BY <1>3, <1>5, <1>7, <1>9
<1>12. U((x \o g) \o h)
  BY <1>10, <1>11
<1>13. U(x \o g \o h \o i \o j \o k)
  BY <1>1, <1>2, <1>5, <1>12, Zenon
<1>14. Block(x \o g \o h \o i \o j \o k)
  BY <1>13, SettingBlock DEF U
<1> QED BY <1>14 DEF x, a, b, c, e, f, g, h, i, j, k

\* Orders: what is sent, and polls.
LEMMA OrderPieces ==
  ASSUME NEW p \in Ports \cup {0}
  PROVE  /\ \A c \in {"activate", "prefetch", "deActivate"} : Send(c) \in Seq(Orders(p))
         /\ \A c \in {"primed", "done"} : <<Wait(c)>> \in Seq(Orders(p))
         /\ <<Wait("done"), Nothing>> \in Seq(Orders(p))
<1> DEFINE I == Orders(p)
<1>1. Nothing \in I
  <2>1. 0 \in Nat
    OBVIOUS
  <2> QED BY <2>1, OwnNodes
<1>2. \A c \in {"activate", "prefetch", "deActivate"} : Command(c) \in I
  <2>1. 0 \in Nat /\ {"activate", "prefetch", "deActivate"} \subseteq Commands \ {"cacheStart"}
    BY DEF Commands
  <2> QED BY <2>1, OwnNodes
<1>3. \A c \in {"primed", "done"} : Wait(c) \in I
  <2>1. 0 \in Nat /\ {"primed", "done"} \subseteq Names
    BY DEF Names
  <2> QED BY <2>1, OwnNodes
<1> HIDE DEF I
<1>4. \A c \in {"activate", "prefetch", "deActivate"} : Send(c) \in Seq(I)
  BY <1>1, <1>2 DEF Send
<1>5. \A c \in {"primed", "done"} : <<Wait(c)>> \in Seq(I)
  BY <1>3
<1>6. <<Wait("done"), Nothing>> \in Seq(I)
  BY <1>1, <1>3
<1> QED BY <1>4, <1>5, <1>6 DEF I

\* Whatever configPort is asked to do, it writes a block.
LEMMA ProgramBlock ==
  ASSUME NEW a \in Actions, NEW p \in Ports, NEW d \in Nat
  PROVE  Block(Program(a, p, d))
<1> DEFINE T == Orders(p)
           r == Select(p, 2) \o Coordinates(d)
           o == Select(p, 0)
           act == Send("activate")
           pre == Send("prefetch")
           off == Send("deActivate")
           primed == <<Wait("primed")>>
           done == <<Wait("done")>>
           last == <<Wait("done"), Nothing>>
<1>1. /\ act \in Seq(T) /\ pre \in Seq(T) /\ off \in Seq(T) /\ primed \in Seq(T)
      /\ done \in Seq(T) /\ last \in Seq(T)
  BY OrderPieces
<1>2. \A t \in Seq(T) : Block(o \o t) /\ Block(r \o o \o t)
  BY OrdersBlock, OpenBlock
<1>3. /\ o \in Seq(Own(p)) /\ r \in Seq(Own(p)) /\ T \subseteq Own(p)
  BY Selected, RunShape DEF Orders
<1> DEFINE S == Own(p)
           ro == r \o o
<1> HIDE DEF S, T, r, o, act, pre, off, primed, done, last
<1>4. o \in Seq(S) /\ r \in Seq(S) /\ T \subseteq S
  BY <1>3 DEF S
<1>5. ro \in Seq(S)
  BY <1>4, Both
<1>6. \A t \in Seq(T) : t \in Seq(S)
  BY <1>4
<1>7. \A t, u : t \in Seq(T) /\ u \in Seq(T) => t \o u \in Seq(T)
  BY Both
<1>8. \A t, u : t \in Seq(T) /\ u \in Seq(T) => (o \o t) \o u = o \o (t \o u)
  BY <1>4, <1>6, InARow, SMTT(30)
<1> HIDE DEF ro
<1>9. \A t, u : t \in Seq(T) /\ u \in Seq(T) => (ro \o t) \o u = ro \o (t \o u)
  BY <1>5, <1>6, InARow
<1>10. \A t : t \in Seq(T) => Block(ro \o t)
  BY <1>2 DEF ro
<1>11. Block(o \o off)
  BY <1>1, <1>2
<1>o. /\ ClosePort(p) = o \o off /\ SyncPort(p) = o \o primed
      /\ OpenPort(p, d, "read", FALSE) = ro \o pre /\ OpenPort(p, d, "write", TRUE) = ro \o act
      /\ OpenPort(p, d, "read", TRUE) = ro \o (pre \o primed \o act)
  BY DEF ClosePort, SyncPort, OpenPort, ro, r, o, act, pre, off, primed
<1>12. pre \o primed \o act \in Seq(T)
  BY <1>1, <1>7
<1>13. CASE a = "prefetch"
  <2>1. Program(a, p, d) = ro \o pre
    BY <1>o, <1>13 DEF Program
  <2> QED BY <1>1, <1>10, <2>1
<1>14. CASE a = "sync-prefetch"
  <2>1. Program(a, p, d) = o \o primed
    BY <1>o, <1>14 DEF Program
  <2> QED BY <1>1, <1>2, <2>1
<1>15. CASE a = "read"
  <2>1. Program(a, p, d) = (o \o primed) \o act
    BY <1>o, <1>15 DEF Program, act
  <2>2. Program(a, p, d) = o \o (primed \o act) /\ primed \o act \in Seq(T)
    BY <1>1, <1>7, <1>8, <2>1
  <2> QED BY <1>2, <2>2
<1>16. CASE a = "activate"
  <2>1. Program(a, p, d) = o \o act
    BY <1>16 DEF Program, o, act
  <2> QED BY <1>1, <1>2, <2>1
<1>17. CASE a = "fetch+read"
  <2>1. Program(a, p, d) = ro \o (pre \o primed \o act)
    BY <1>o, <1>17 DEF Program
  <2> QED BY <1>10, <1>12, <2>1
<1>18. CASE a = "fetch+read+sync+close"
  <2>1. Program(a, p, d) = ((ro \o (pre \o primed \o act)) \o done) \o (o \o off)
    BY <1>o, <1>18 DEF Program, done
  <2> DEFINE t == pre \o primed \o act
  <2> HIDE DEF t
  <2>2. t \in Seq(T)
    BY <1>12 DEF t
  <2>3. (ro \o t) \o done = ro \o (t \o done) /\ t \o done \in Seq(T)
    BY <1>1, <1>7, <1>9, <2>2
  <2>4. Block((ro \o t) \o done)
    BY <1>10, <2>3
  <2>5. Block(((ro \o t) \o done) \o (o \o off))
    BY <1>11, <2>4, BlocksJoined
  <2> QED BY <2>1, <2>5 DEF t
<1>19. CASE a = "write"
  <2>1. Program(a, p, d) = ro \o act
    BY <1>o, <1>19 DEF Program
  <2> QED BY <1>1, <1>10, <2>1
<1>20. CASE a = "close"
  <2>1. Program(a, p, d) = o \o off
    BY <1>o, <1>20 DEF Program
  <2> QED BY <1>11, <2>1
<1>21. CASE a = "sync+close"
  <2>1. Program(a, p, d) = (o \o last) \o (o \o off)
    BY <1>o, <1>21 DEF Program, o, last
  <2>2. Block(o \o last)
    BY <1>1, <1>2
  <2> QED BY <1>11, <2>1, <2>2, BlocksJoined
<1>22. CASE a = "setup"
  BY <1>22, SetupBlock DEF Program
<1>23. CASE a = "tile"
  <2> DEFINE I == Orders(0)
             x == Select(0, 0)
             y == [i \in 1 .. 3 |-> Config(d)]
             z == [i \in 1 .. 4 |-> Nothing]
  <2>1. 0 \in Ports \cup {0} /\ 0 \in 0 .. 2
    OBVIOUS
  <2>2. Config(d) \in I /\ Nothing \in I
    BY <2>1, OwnNodes
  <2>3. x \in Seq(Own(0)) /\ I \subseteq Own(0)
    BY <2>1, Selected DEF Orders
  <2> DEFINE J == Own(0)
  <2>4. x \in Seq(J) /\ I \subseteq J
    BY <2>3
  <2> HIDE DEF I, J, x
  <2>5. y \in Seq(I) /\ z \in Seq(I)
    BY <2>2
  <2> HIDE DEF y, z
  <2>6. y \in Seq(J) /\ z \in Seq(J)
    BY <2>4, <2>5
  <2>7. (x \o y) \o z = x \o (y \o z)
    <3>1. x \in Seq(J) /\ y \in Seq(J) /\ z \in Seq(J)
      BY <2>4, <2>6
    <3> QED BY ONLY <3>1, InARow
  <2>8. y \o z \in Seq(I)
    BY <2>5, Both
  <2>9. Block(x \o (y \o z))
    BY <2>1, <2>8, OrdersBlock DEF I, x
  <2>10. Program(a, p, d) = (x \o y) \o z
    BY <1>23 DEF Program, x, y, z
  <2> QED BY <2>7, <2>9, <2>10
<1> QED BY <1>13, <1>14, <1>15, <1>16, <1>17, <1>18, <1>19, <1>20, <1>21, <1>22, <1>23,
           ActionsAssumption

-----------------------------------------------------------------------------
(* Nothing of what Linker:dump does is seen by a port.                     *)

\* The end of a process has the structure, and follows every list.
LEMMA EndStructure ==
  /\ Structure(<<Sentinel>>)
  /\ \A l : Follows(l, <<Sentinel>>)
<1> DEFINE S == Plain
           n == Sentinel
           t == <<n>>
<1>1. n \in S /\ n.op = "sentinel"
  BY DEF Plain, NodesOf, Sentinel, Node
<1> HIDE DEF S, n
<1>2. t \in Seq(S) /\ Len(t) = 1 /\ t[1] = n
  BY <1>1
<1> HIDE DEF t
<1>3. \A k \in 1 .. Len(t) : t[k].op = "sentinel"
  BY <1>1, <1>2
<1>4. Listing(t)
  BY <1>2, <1>3 DEF Listing, S
<1>5. WaitsAtZero(t) /\ Runs(t) /\ Starts(t) /\ Pairs(t) /\ ResetFirst(t)
  BY <1>3 DEF WaitsAtZero, Handled, Runs, Starts, Pairs, IsCommand, ResetFirst
<1>6. \A l : Follows(l, t)
  BY <1>3 DEF Follows
<1> QED BY <1>4, <1>5, <1>6 DEF Structure, t, n

\* While segments are moved, the list has the structure that makes a move invisible;
\* from the first pass on, every port sees what it was meant to.
SeenInv == /\ phase \in {"build", "optimise"} => Structure(list)
           /\ phase # "build" => Seen(list) = meant

\* A list of one sentinel has the structure.
LEMMA SeenInit ==
  ASSUME Init
  PROVE  SeenInv
BY EndStructure DEF Init, SeenInv

\* Every step of the linker keeps it.
LEMMA SeenKept ==
  ASSUME IInv, SeenInv, [Next]_vars
  PROVE  SeenInv'
<1>0. ListInv /\ Jumps
  BY DEF IInv, ListInv
<1>1. ASSUME NEW a \in Actions, NEW p \in Ports, Write(a, p) PROVE SeenInv'
  <2>1. phase = "build" /\ phase' = "build" /\ list' = list \o Program(a, p, actions')
    BY <1>1 DEF Write
  <2>2. actions' \in Nat
    <3>1. actions \in 0 .. MaxActions /\ actions' = actions + 1 /\ MaxActions \in Nat
      BY <1>0, <1>1, ActionsAssumption DEF Write, ListInv, Bounds
    <3> QED BY <3>1
  <2>3. Block(Program(a, p, actions'))
    BY <2>2, ProgramBlock
  <2>4. Structure(list)
    BY <2>1 DEF SeenInv
  <2>5. Structure(list')
    BY <2>1, <2>3, <2>4, BlockJoined
  <2> QED BY <2>1, <2>5 DEF SeenInv
<1>2. CASE AddProcess
  <2>1. phase = "build" /\ phase' = "build" /\ list' = Append(list, Sentinel)
    BY <1>2 DEF AddProcess
  <2>2. Structure(list)
    BY <2>1 DEF SeenInv
  <2>3. list' = list \o <<Sentinel>>
    <3>1. list \in Seq(Plain)
      BY <2>2 DEF Structure, Listing
    <3> QED BY <2>1, <3>1
  <2>4. Structure(list \o <<Sentinel>>)
    BY <2>2, EndStructure, StructureJoined
  <2> QED BY <2>1, <2>3, <2>4 DEF SeenInv
<1>3. CASE Dump
  <2>1. phase = "build" /\ phase' = "optimise" /\ list' = list /\ meant' = Seen(list)
    BY <1>3 DEF Dump
  <2> QED BY <2>1 DEF SeenInv
<1>4. CASE Optimise
  <2>1. phase = "optimise" /\ phase' = "optimise" /\ meant' = meant
    BY <1>4 DEF Optimise
  <2>2. Structure(list) /\ Seen(list) = meant
    BY <2>1 DEF SeenInv
  <2>3. Begun(list) /\ Len(list) > 1 /\ list[Len(list)] = Sentinel /\ cursor \in 1 .. Len(list) + 1
    BY <1>0, <2>1, BeforeAlignment DEF ListInv, Framed, Bounds
  <2>4. list' \in Seq(Plain)
    BY <1>4, <2>3, OptimiseShape DEF Begun
  <2>5. list' = list \/ \E i, s, p, w, h, x : Move(list', i, s, p, w, h, x)
    BY <1>4, <2>2, <2>3, <2>4, OptimiseMoves
  <2> DEFINE u == list'
  <2>6. u = list \/ \E i, s, p, w, h, x : Move(u, i, s, p, w, h, x)
    BY <2>5
  <2> HIDE DEF u
  <2>7. Structure(u) /\ Seen(u) = Seen(list)
    <3>1. CASE u = list
      BY <2>2, <3>1
    <3>2. CASE \E i, s, p, w, h, x : Move(u, i, s, p, w, h, x)
      <4>1. PICK i, s, p, w, h, x : Move(u, i, s, p, w, h, x)
        BY <3>2
      <4> QED BY <4>1, MoveSeen, MoveStructure
    <3> QED BY <2>6, <3>1, <3>2
  <2> QED BY <2>1, <2>2, <2>7 DEF SeenInv, u
<1>5. CASE OptimiseDone
  <2>1. phase = "optimise" /\ phase' = "align" /\ list' = list /\ meant' = meant
    BY <1>5 DEF OptimiseDone
  <2> QED BY <2>1 DEF SeenInv
<1>6. CASE Align
  <2>1. phase = "align" /\ phase' = "align" /\ meant' = meant
    BY <1>6 DEF Align
  <2>2. PICK m \in cursor + 2 .. Len(list), p \in Nat : Aligned(m, p)
    BY <1>0, <1>6, AlignShape DEF ListInv
  <2>3. Seen(list') = Seen(list)
    BY <1>0, <2>1, <2>2, AlignUnseen
  <2> QED BY <2>1, <2>3 DEF SeenInv
<1>7. CASE ResolveGotos
  <2>1. phase = "align" /\ phase' = "done" /\ meant' = meant
    BY <1>7 DEF ResolveGotos
  <2>2. Seen(list') = Seen(list)
    BY <1>0, <1>7, ResolveUnseen
  <2> QED BY <2>1, <2>2 DEF SeenInv
<1>8. CASE UNCHANGED vars
  <2>1. list' = list /\ phase' = phase /\ meant' = meant
    BY <1>8 DEF vars
  <2> QED BY <2>1 DEF SeenInv
<1> QED BY <1>1, <1>2, <1>3, <1>4, <1>5, <1>6, <1>7, <1>8 DEF Next

\* Moving configurations up into the time the processor waits, aligning processes with
\* pages and resolving gotos is invisible to every port, whatever the program.
THEOREM PortsServed == Spec => []PortsSeeSame
<1>1. Init => SeenInv
  BY SeenInit
<1>2. IInv /\ SeenInv /\ [Next]_vars => SeenInv'
  BY SeenKept
<1>3. SeenInv => PortsSeeSame
  BY DEF SeenInv, PortsSeeSame
<1> QED BY <1>1, <1>2, <1>3, InvariantHolds, PTL DEF Spec
=============================================================================
