--------------------------- MODULE NeuFlowLinker ---------------------------
(***************************************************************************)
(* packages/NeuFlow/Linker.lua: the list of instructions the compiler      *)
(* hands over, process by process, and what Linker:dump makes of it: the   *)
(* configurations of ports are moved up into the time the processor waits  *)
(* for other ports, processes are aligned with pages of the cache, and     *)
(* gotos are resolved.  The programs are those Core:configPort writes.     *)
(*                                                                         *)
(* The linked list is a sequence, its sentinels (one in front, one behind  *)
(* every process) are elements of it.                                      *)
(***************************************************************************)
EXTENDS Naturals, Sequences, FiniteSets, SequencesExt

CONSTANTS Ports,       \* the streamer's ports in use
          Actions,     \* what configPort is asked to do with them
          PageSize,    \* instructions in a page
          MaxActions   \* bound on the actions of a program

ASSUME PortsAssumption == Ports \subseteq Nat \ {0} /\ PageSize \in Nat \ {0}
ASSUME ActionsAssumption == MaxActions \in Nat /\
  Actions \subseteq {"prefetch", "sync-prefetch", "read", "activate", "fetch+read",
    "fetch+read+sync+close", "write", "close", "sync+close", "setup", "tile"}

VARIABLES list,      \* the instruction list
          phase,     \* the pass of Linker:dump
          cursor,    \* the node the pass has come to
          curPage,   \* cur_page of alignProcessWithPages
          actions,   \* what the bound counts
          meant      \* what the program written is to do to each port

vars == <<list, phase, cursor, curPage, actions, meant>>

-----------------------------------------------------------------------------
(* Instructions, and the programs Core makes of them.                      *)

Node(op, port, sub, what, data) ==
  [op |-> op, port |-> port, sub |-> sub, what |-> what, data |-> data]
Sentinel == Node("sentinel", 0, 0, "", 0)
Nothing == Node("nothing", 0, 0, "", 0)
Addr(p, sub) == Node("addr", p, sub, "", 0)       \* port 0: a tile or a group
Command(c) == Node("command", 0, 0, c, 0)
Config(d) == Node("config", 0, 0, "", d)
Wait(status) == Node("wait", 0, 0, status, 0)     \* getStatus

Select(p, sub) == <<Addr(p, sub), Nothing>>
Send(c) == <<Command(c), Nothing>>
Coordinates(d) == [i \in 1 .. 5 |-> Config(d)] \o <<Nothing>>

OpenPort(p, d, mode, sync) ==
  Select(p, 2) \o Coordinates(d) \o Select(p, 0) \o
  CASE mode = "write"            -> Send("activate")
    [] mode = "read" /\ ~sync    -> Send("prefetch")
    [] mode = "read" /\ sync     -> Send("prefetch") \o <<Wait("primed")>> \o Send("activate")

ClosePort(p) == Select(p, 0) \o Send("deActivate")
SyncPort(p) == Select(p, 0) \o <<Wait("primed")>>

\* configPort, configureStreamer for one port, and configTile as far as the
\* linker looks at it.
Program(a, p, d) ==
  CASE a = "prefetch"              -> OpenPort(p, d, "read", FALSE)
    [] a = "sync-prefetch"         -> SyncPort(p)
    [] a = "read"                  -> SyncPort(p) \o Send("activate")
    [] a = "activate"              -> Select(p, 0) \o Send("activate")
    [] a = "fetch+read"            -> OpenPort(p, d, "read", TRUE)
    [] a = "fetch+read+sync+close" -> OpenPort(p, d, "read", TRUE) \o <<Wait("done")>> \o ClosePort(p)
    [] a = "write"                 -> OpenPort(p, d, "write", TRUE)
    [] a = "close"                 -> ClosePort(p)
    [] a = "sync+close"            -> Select(p, 0) \o <<Wait("done"), Nothing>> \o ClosePort(p)
    [] a = "setup"  -> Select(p, 0) \o Send("reset") \o <<Wait("unconfigured")>>
                         \o Select(p, 1) \o [i \in 1 .. 4 |-> Config(d)] \o <<Nothing>>
                         \o Select(p, 2) \o Coordinates(d) \o <<Wait("idle")>>
                         \o Select(p, 0) \o <<Config(d)>>
    [] a = "tile"   -> Select(0, 0) \o [i \in 1 .. 3 |-> Config(d)] \o [i \in 1 .. 4 |-> Nothing]

\* What a list does to the ports, instruction by instruction (the streamer is
\* hardware: a port keeps its configuration apart from cacheStart to cacheFinish).
Streamer0 == [port |-> 0, sub |-> 0, open |-> {}, cache |-> [p \in Ports |-> <<>>],
              seen |-> [p \in Ports |-> <<>>]]
See(s, p, event) == [s EXCEPT !.seen[p] = Append(@, event)]
Execute(s, n) ==
  LET p == s.port
      opened == p \in s.open IN
  IF n.op = "addr" THEN [s EXCEPT !.port = n.port, !.sub = n.sub]
  ELSE IF p = 0 \/ n.op \in {"sentinel", "nothing", "zero", "goto"} THEN s
  ELSE CASE n.op = "config" /\ opened -> [s EXCEPT !.cache[p] = Append(@, <<"config", s.sub, n.data>>)]
    [] n.op = "config" /\ ~opened -> See(s, p, <<"config", s.sub, n.data>>)
    [] n.op = "wait" -> See(s, p, <<"wait", n.what>>)
    [] n.op = "command" /\ n.what = "cacheStart" -> [s EXCEPT !.open = @ \cup {p}]
    [] n.op = "command" /\ n.what = "cacheFinish" ->
         [s EXCEPT !.open = @ \ {p}, !.cache[p] = <<>>, !.seen[p] = @ \o s.cache[p]]
    [] n.op = "command" /\ n.what = "deActivate" -> See(s, p, <<n.what>>)
    [] n.op = "command" /\ n.what \in {"reset", "prefetch", "activate"} ->
         See(s, p, <<n.what, opened>>)
After(l) ==
  LET after[k \in 0 .. Len(l)] == IF k = 0 THEN Streamer0 ELSE Execute(after[k - 1], l[k])
  IN  after
Streamer(l) == After(l)[Len(l)]
Seen(l) == LET s == Streamer(l) IN <<s.seen, s.open>>

MinIn(S) == CHOOSE x \in S : \A y \in S : x <= y
MaxIn(S) == CHOOSE x \in S : \A y \in S : y <= x

Init ==
  /\ list = <<Sentinel>> /\ phase = "build" /\ cursor = 1 /\ curPage = 0
  /\ actions = 0 /\ meant = Seen(<<>>)

Write(a, p) ==
  /\ phase = "build" /\ actions < MaxActions /\ actions' = actions + 1
  /\ a = "tile" => p = MinIn(Ports)
  /\ list' = list \o Program(a, p, actions')
  /\ UNCHANGED <<phase, cursor, curPage, meant>>

\* endProcess; a process holds at least one action.
AddProcess ==
  /\ phase = "build" /\ Last(list) # Sentinel
  /\ list' = Append(list, Sentinel)
  /\ UNCHANGED <<phase, cursor, curPage, actions, meant>>

Dump ==
  /\ phase = "build" /\ Len(list) > 1 /\ Last(list) = Sentinel
  /\ phase' = "optimise" /\ cursor' = 1
  /\ meant' = Seen(list)
  /\ UNCHANGED <<list, curPage, actions>>

-----------------------------------------------------------------------------
(* cacheConfigOptimization.                                                *)

\* The last instruction of i .. n that addresses a port, or 0; ports.addr.
LastAddr(i, n) == LET S == {k \in i .. n : list[k].op = "addr"}
                  IN  IF S = {} THEN 0 ELSE MaxIn(S)
Addressed(n) == LET k == LastAddr(1, n) IN IF k = 0 THEN 0 ELSE list[k].port

\* ports.addr and ports.submod at n in a descent from the wait at i.  Until the
\* first instruction that addresses anything, submod is a copy of addr (sic).
DescentPort(i, n) ==
  LET k == LastAddr(i + 1, n) IN IF k = 0 THEN Addressed(i) ELSE list[k].port
DescentSub(i, n) ==
  LET k == LastAddr(i + 1, n) IN IF k = 0 THEN Addressed(i) ELSE list[k].sub

\* ports[p].valid: nothing since the wait has started, fetched or reset the port.
Valid(i, n, p) == ~ \E k \in i + 1 .. n :
  /\ list[k].op = "command" /\ DescentPort(i, k) = p
  /\ list[k].what \in {"reset", "cacheStart", "cacheFinish", "activate", "prefetch"}

\* mutant: a port that was started in between is considered as well
CandidateAny(i, n) ==
  /\ list[n].op # "sentinel" /\ DescentPort(i, n) # 0 /\ DescentSub(i, n) = 2
Candidate(i, n) ==
  /\ list[n].op # "sentinel" /\ DescentPort(i, n) # 0 /\ DescentSub(i, n) = 2
  /\ Valid(i, n, DescentPort(i, n))

\* findConfigSegment: the ends of the first segment that can be moved; only the
\* first candidate is looked at.
Words(s, n) == Cardinality({k \in s + 1 .. n : list[k].op = "config"})
Segments(i) ==
  LET starts == {n \in i + 1 .. Len(list) : Candidate(i, n)} IN
  IF starts = {} THEN {} ELSE
  LET s == MinIn(starts)
      stops == {n \in s + 1 .. Len(list) : list[n].op \in {"sentinel", "addr", "command"}}
      ends == {n \in s + 1 .. Len(list) : Words(s, n) = 5 /\ \A k \in stops : n < k}
  IN  IF ends = {} THEN {} ELSE {<<s, MinIn(ends)>>}

\* findWaitAddrNode: the list up to where the segment goes, and from there to the
\* wait; unless the port is addressed right before the wait, it is addressed again.
BeforeWait(i) ==
  LET w == MaxIn({n \in 1 .. i - 1 : list[n].op \in {"addr", "command", "config"}}) IN
  IF list[w].op = "addr" /\ list[w].port = Addressed(i)
  THEN <<SubSeq(list, 1, w - 1), SubSeq(list, w, i)>>
  ELSE <<SubSeq(list, 1, w), <<Addr(Addressed(i), 0)>> \o SubSeq(list, w + 1, i)>>

Waits == {i \in cursor .. Len(list) :
            /\ list[i].op = "wait" /\ list[i].what \in {"primed", "done"}
            /\ Addressed(i) # 0}

\* The next wait in the list.  What is left in the segment's place addresses its
\* port again and closes the cache.
Optimise ==
  /\ phase = "optimise" /\ Waits # {}
  /\ LET i == MinIn(Waits)
         found == Segments(i) IN
     IF found = {} THEN cursor' = i + 1 /\ UNCHANGED list
     ELSE LET seg == CHOOSE g \in found : TRUE
              s == seg[1]
              e == seg[2]
              at == BeforeWait(i)
              up == at[1] \o <<list[s], Command("cacheStart")>> \o SubSeq(list, s + 1, e) \o at[2]
          IN  /\ list' = up \o SubSeq(list, i + 1, s - 1)
                           \o <<Addr(DescentPort(i, s), 2), Command("cacheFinish")>>
                           \o SubSeq(list, e + 1, Len(list))
              /\ cursor' = Len(up) + 1
  /\ UNCHANGED <<phase, curPage, actions, meant>>

-----------------------------------------------------------------------------
(* alignProcessWithPages, resolveGotos.                                    *)

\* The sentinel behind the process that starts after the one at i.
NextSentinelNear(i) == i + 1       \* mutant: the next node is taken for it
NextSentinel(i) == MinIn({k \in i + 1 .. Len(list) : list[k] = Sentinel})
CountNextProcess(i) == IF i = Len(list) THEN 0 ELSE NextSentinel(i) - i - 1

OptimiseDone ==
  /\ phase = "optimise" /\ Waits = {}
  /\ phase' = "align" /\ cursor' = NextSentinel(1) /\ curPage' = CountNextProcess(1)
  /\ UNCHANGED <<list, actions, meant>>

\* mutant: for a process that fits into one page
MissingFirst(n) == IF n < PageSize THEN PageSize - n ELSE 0
\* How much is missing to the end of the page after n instructions.
Missing(n) == IF n % PageSize = 0 THEN 0 ELSE PageSize - (n % PageSize)

\* A goto to the process numbered `process', and zeros up to the page's end.
Padding(n, process) ==
  IF n = 0 THEN <<>>
  ELSE <<Node("goto", 0, 0, "", process)>> \o [k \in 1 .. n - 1 |-> Node("zero", 0, 0, "", 0)]

Align ==
  /\ phase = "align" /\ cursor # Len(list)
  /\ LET next == CountNextProcess(cursor)
         process == Cardinality({k \in 1 .. cursor : list[k] = Sentinel})
         padding == IF curPage + next > PageSize THEN Padding(Missing(curPage), process) ELSE <<>>
     IN  /\ list' = SubSeq(list, 1, cursor - 1) \o padding \o SubSeq(list, cursor, Len(list))
         /\ curPage' = IF curPage + next > PageSize THEN next ELSE curPage + next
         /\ cursor' = NextSentinel(cursor) + Len(padding)
  /\ UNCHANGED <<phase, actions, meant>>

\* mutant: addresses from 1 on, like the bytes of a process
AddressFromOne(n) == Cardinality({k \in 1 .. n : list[k] # Sentinel})
\* How many instructions are in front of the n-th node; the node after the k-th
\* sentinel.
Address(n) == Cardinality({k \in 1 .. n - 1 : list[k] # Sentinel})
FirstOf(process) == CHOOSE n \in 2 .. Len(list) :
  list[n - 1] = Sentinel /\ Cardinality({k \in 1 .. n - 1 : list[k] = Sentinel}) = process

ResolveGotos ==
  /\ phase = "align" /\ cursor = Len(list)
  /\ phase' = "done"
  /\ list' = [n \in 1 .. Len(list) |->
                IF list[n].op = "goto" THEN [list[n] EXCEPT !.data = Address(FirstOf(@))]
                ELSE list[n]]
  /\ UNCHANGED <<cursor, curPage, actions, meant>>

Next ==
  \/ \E a \in Actions, p \in Ports : Write(a, p)
  \/ AddProcess \/ Dump \/ Optimise \/ OptimiseDone \/ Align \/ ResolveGotos

Spec == Init /\ [][Next]_vars
-----------------------------------------------------------------------------
\* The cursor is at a sentinel between two processes while they are aligned.
TypeOK ==
  /\ phase \in {"build", "optimise", "align", "done"}
  /\ \A n \in DOMAIN list : list[n] = Sentinel \/
       /\ list[n].op \in {"nothing", "addr", "command", "config", "wait", "goto", "zero"}
       /\ list[n].port \in Ports \cup {0} /\ list[n].sub \in 0 .. 2 /\ list[n].data \in Nat
  /\ cursor \in 1 .. Len(list) + 1 /\ curPage \in Nat /\ actions \in 0 .. MaxActions
  /\ phase = "align" => list[cursor] = Sentinel

\* The optimisation and the alignment are invisible to every port: it gets the same
\* configurations, commands and polls in the same order, each wait polls the port
\* it was written for, and no port is reset, fetched or started with its cache open.
PortsSeeSame == phase \in {"optimise", "done"} => Seen(list) = meant

\* The instructions of the process behind the n-th node, its padding left out.
Body(n) == {k \in n + 1 .. NextSentinel(n) : list[k].op \notin {"sentinel", "goto", "zero"}}

\* A process that fits into a page is not cut by the end of one, although
\* instructions have been added to processes and moved between them.
ProcessInPage == phase = "done" =>
  \A n \in 1 .. Len(list) - 1 : list[n] = Sentinel /\ Cardinality(Body(n)) <= PageSize =>
    \A j, k \in Body(n) : Address(j) \div PageSize = Address(k) \div PageSize

\* The word of the dump at which the n-th node is, sentinels not being dumped.
Dumped(n) == Cardinality({k \in 1 .. n - 1 : list[k] # Sentinel})

\* Padding is never executed: a goto leads over the zeros behind it, and no
\* further, and there are no zeros elsewhere.
PaddingJumped == phase = "done" =>
  /\ \A n \in DOMAIN list : list[n].op = "goto" =>
       \E t \in n + 1 .. Len(list) :
         /\ Dumped(t) = list[n].data /\ list[t].op \notin {"sentinel", "zero"}
         /\ \A k \in n + 1 .. t - 1 : list[k].op \in {"zero", "sentinel"}
  /\ \A n \in DOMAIN list :
       list[n].op = "zero" => n > 1 /\ list[n - 1].op \in {"goto", "zero"}
=============================================================================
