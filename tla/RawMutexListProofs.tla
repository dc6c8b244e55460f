------------------------- MODULE RawMutexListProofs -------------------------
(***************************************************************************)
(* Theorems about the intrusive list of RawMutex, for every set of threads *)
(* and every state of half-linked nodes: its nodes belong to sleepers, it  *)
(* holds them in the order of their arrival, and the oldest leaves first.  *)
(* With the list known, a hand-off has somebody to take it, no sleeper     *)
(* drops out of sight, no unlock leaves sleepers behind, and every step is *)
(* one of MutexSpec.                                                       *)
(***************************************************************************)
EXTENDS RawMutexProofs

\* The threads that work on a list that is not empty.
LinkPcs == {"us_link", "usf_link"}
ListPcs == LinkPcs \union {"us_release"} \union PopPcs

HeadSeen(t) == frame[t].snap.head
IsProcessed(x) == node[x].queue_tail # Null

\* x is y or was pushed before y.
UpTo(x, y) == x = y \/ x \in ahead[y]

\* The history is a linear order of the queued threads.
Order ==
  /\ \A y \in queued : ahead[y] \subseteq queued /\ y \notin ahead[y]
  /\ \A x, y \in queued : UpTo(x, y) \/ y \in ahead[x]
  /\ \A x, y, z \in queued : x \in ahead[y] /\ y \in ahead[z] => x \in ahead[z]

\* The word points at its last element, and next leads to the one before.
Newest ==
  /\ state.head = Null <=> queued = {}
  /\ queued # {} => state.head \in queued /\ ahead[state.head] = queued \ {state.head}
NextLinked(x) == node[x].next \in queued /\ Follows(x, node[x].next)
PrevLinked(x) == node[x].prev \in queued /\ Follows(node[x].prev, x)
Links ==
  /\ \A x \in queued : ahead[x] # {} => NextLinked(x)
  /\ \A x \in queued : node[x].prev # Null => PrevLinked(x)

\* The newest processed node knows the oldest one, and all older nodes have
\* their prev. No other node has one, unless somebody is at work behind them.
IsMark(p) ==
  /\ p \in queued /\ IsProcessed(p)
  /\ \A q \in queued : IsProcessed(q) => UpTo(q, p)
Marked(p) ==
  /\ node[p].queue_tail \in queued /\ ahead[node[p].queue_tail] = {}
  /\ \A x \in ahead[p] : node[x].prev # Null
  /\ \A x \in queued : node[x].prev # Null =>
       \/ x \in ahead[p]
       \/ \E t \in Threads : pc[t] \in LinkPcs /\ x \in ahead[HeadSeen(t)]
Marks ==
  /\ queued # {} => \E p \in queued : IsMark(p)
  /\ \A p \in queued : IsMark(p) => Marked(p)

\* What a thread that works on the list knows.
Worker(t) ==
  /\ HeadSeen(t) \in queued
  /\ \A q \in queued : IsProcessed(q) => UpTo(q, HeadSeen(t))
  /\ pc[t] \in LinkPcs =>
       /\ frame[t].cur \in queued /\ UpTo(frame[t].cur, HeadSeen(t))
       /\ \A q \in queued : IsProcessed(q) => UpTo(q, frame[t].cur)
       /\ \A x \in ahead[HeadSeen(t)] : UpTo(frame[t].cur, x) => node[x].prev # Null
  /\ pc[t] \notin LinkPcs => IsProcessed(HeadSeen(t))
  /\ pc[t] \in PopPcs => frame[t].tail = node[HeadSeen(t)].queue_tail
  /\ pc[t] \in {"us_pop_last", "usf_pop_last"} => frame[t].tail = HeadSeen(t)
  /\ pc[t] \in {"us_pop_more", "usf_pop_more"} => frame[t].tail # HeadSeen(t)
Workers == \A t \in Threads : pc[t] \in ListPcs => Worker(t)

\* Nodes that are on the list, or were taken off it to be woken, belong to sleepers.
Sleepers ==
  /\ \A x \in queued : Asleep(x)
  /\ \A t \in Threads : pc[t] \in WakePcs =>
       /\ Asleep(frame[t].tail) /\ frame[t].tail \notin queued
       /\ \A u \in Threads \ {t} : pc[u] \in WakePcs => frame[u].tail # frame[t].tail

List == Order /\ Newest /\ Links /\ Marks
ListInv == List /\ Workers /\ Sleepers

-----------------------------------------------------------------------------
(* The order. *)

\* It is transitive.
LEMMA UpToTransitive ==
  ASSUME Order, NEW x \in queued, NEW y \in queued, NEW z \in queued,
         UpTo(x, y), UpTo(y, z)
  PROVE  UpTo(x, z) /\ (x \in ahead[y] \/ y \in ahead[z] => x \in ahead[z])
  BY DEF Order, UpTo

\* It has no cycles.
LEMMA UpToAntisymmetric ==
  ASSUME Order, NEW x \in queued, NEW y \in queued, x \in ahead[y]
  PROVE  ~UpTo(y, x)
  BY DEF Order, UpTo

\* The newest processed node is one.
LEMMA MarkUnique ==
  ASSUME Order, NEW p, NEW q, IsMark(p), IsMark(q)
  PROVE  p = q
  BY UpToAntisymmetric DEF IsMark, UpTo

\* At most one thread works on the list.
LEMMA OneWorker ==
  ASSUME QueueLockExclusive, NEW t \in Threads, NEW u \in Threads,
         pc[t] \in ListPcs, pc[u] \in ListPcs
  PROVE  t = u
  BY DEF QueueLockExclusive, QueueLockPcs, ListPcs, LinkPcs, PopPcs

\* The node that a worker has processed is the mark.
LEMMA WorkerMarks ==
  ASSUME ListInv, NEW t \in Threads, pc[t] \in ListPcs \ LinkPcs
  PROVE  /\ IsMark(HeadSeen(t)) /\ Marked(HeadSeen(t)) /\ HeadSeen(t) \in queued
         /\ node[HeadSeen(t)].queue_tail \in queued
         /\ ahead[node[HeadSeen(t)].queue_tail] = {}
<1>1. Worker(t)
  BY DEF ListInv, Workers
<1>2. IsMark(HeadSeen(t)) /\ HeadSeen(t) \in queued
  BY <1>1 DEF Worker, IsMark
<1>. QED BY <1>2 DEF ListInv, List, Marks, Marked

-----------------------------------------------------------------------------
(* Steps that leave the list alone. *)

\* A thread that does not work on the list and does not begin to.
LEMMA QuietStep ==
  ASSUME ListInv, NEW t \in Threads, NoListChange, state'.head = state.head,
         \A u \in Threads \ {t} : pc'[u] = pc[u] /\ frame'[u] = frame[u],
         pc[t] \notin LinkPcs, pc[t] # "parked",
         pc'[t] \notin ListPcs \union WakePcs
  PROVE  ListInv'
<1>. UNCHANGED <<node, queued, ahead>>
  BY DEF NoListChange
<1>1. Order' /\ Newest' /\ Links'
  BY DEF ListInv, List, Order, UpTo, Newest, Links, NextLinked, PrevLinked, Follows
<1>2. \A u \in Threads : pc[u] \in LinkPcs => pc'[u] \in LinkPcs /\ HeadSeen(u)' = HeadSeen(u)
  BY DEF HeadSeen
<1>3. Marks'
  <2>1. \A p : IsMark(p)' <=> IsMark(p)
    BY DEF IsMark, IsProcessed, UpTo
  <2>2. ASSUME NEW p \in queued, Marked(p) PROVE Marked(p)'
    BY <1>2, <2>2 DEF Marked
  <2>. QED BY <2>1, <2>2 DEF Marks, ListInv, List
<1>4. ASSUME NEW u \in Threads, pc'[u] \in ListPcs PROVE Worker(u)'
  <2>1. u # t /\ pc[u] \in ListPcs /\ pc'[u] = pc[u] /\ frame'[u] = frame[u]
    BY <1>4
  <2>2. Worker(u)
    BY <2>1 DEF ListInv, Workers
  <2>. QED BY <2>1, <2>2 DEF Worker, HeadSeen, IsProcessed, UpTo
<1>5. Sleepers'
  <2>1. \A x : Asleep(x) => Asleep(x)'
    BY DEF Asleep
  <2>2. \A u \in Threads : pc'[u] \in WakePcs =>
          u # t /\ pc[u] \in WakePcs /\ frame'[u] = frame[u]
    OBVIOUS
  <2>. QED BY <2>1, <2>2 DEF Sleepers, ListInv
<1>. QED BY <1>1, <1>3, <1>4, <1>5 DEF ListInv, List, Workers

\* A thread that begins to work on the list as the word has it.
LEMMA EnterStep ==
  ASSUME ListInv, NEW t \in Threads, NoListChange, state'.head = state.head,
         \A u \in Threads \ {t} : pc'[u] = pc[u] /\ frame'[u] = frame[u],
         pc[t] \notin LinkPcs, pc[t] # "parked", pc'[t] \in LinkPcs,
         frame'[t].snap.head = state.head, frame'[t].cur = state.head,
         state.head # Null
  PROVE  ListInv'
<1>. UNCHANGED <<node, queued, ahead>>
  BY DEF NoListChange
<1>1. Order' /\ Newest' /\ Links'
  BY DEF ListInv, List, Order, UpTo, Newest, Links, NextLinked, PrevLinked, Follows
<1>2. \A u \in Threads : pc[u] \in LinkPcs => pc'[u] \in LinkPcs /\ HeadSeen(u)' = HeadSeen(u)
  BY DEF HeadSeen
<1>3. Marks'
  <2>1. \A p : IsMark(p)' <=> IsMark(p)
    BY DEF IsMark, IsProcessed, UpTo
  <2>2. ASSUME NEW p \in queued, Marked(p) PROVE Marked(p)'
    BY <1>2, <2>2 DEF Marked
  <2>. QED BY <2>1, <2>2 DEF Marks, ListInv, List
<1>4. Worker(t)'
  <2>1. PICK h \in queued : h = state.head /\ \A q \in queued : UpTo(q, h)
    BY DEF ListInv, List, Newest, UpTo
  <2>2. \A x \in ahead[h] : ~UpTo(h, x)
    BY <2>1, UpToAntisymmetric DEF ListInv, List, Order
  <2>3. HeadSeen(t)' = h /\ frame'[t].cur = h /\ \A x, y : UpTo(x, y)' <=> UpTo(x, y)
    BY <2>1 DEF HeadSeen, UpTo
  <2>4. pc'[t] \notin PopPcs \union {"us_release"} /\ UpTo(h, h)
    BY DEF LinkPcs, PopPcs, UpTo
  <2>. QED BY <2>1, <2>2, <2>3, <2>4 DEF Worker, PopPcs
<1>5. ASSUME NEW u \in Threads, u # t, pc'[u] \in ListPcs PROVE Worker(u)'
  <2>1. pc[u] \in ListPcs /\ pc'[u] = pc[u] /\ frame'[u] = frame[u]
    BY <1>5
  <2>2. Worker(u)
    BY <2>1 DEF ListInv, Workers
  <2>. QED BY <2>1, <2>2 DEF Worker, HeadSeen, IsProcessed, UpTo
<1>6. Sleepers'
  <2>1. \A x : Asleep(x) => Asleep(x)'
    BY DEF Asleep
  <2>2. \A u \in Threads : pc'[u] \in WakePcs =>
          u # t /\ pc[u] \in WakePcs /\ frame'[u] = frame[u]
    BY DEF LinkPcs, WakePcs
  <2>. QED BY <2>1, <2>2 DEF Sleepers, ListInv
<1>. QED BY <1>1, <1>3, <1>4, <1>5, <1>6 DEF ListInv, List, Workers

-----------------------------------------------------------------------------
(* Sleepers come and go. *)

\* A thread pushes itself in front of the list.
LEMMA PushStep ==
  ASSUME TypeInv, ListInv, NEW t \in Threads, pc[t] = "lock_loop",
         CasOk(t, set_queue_head(frame[t].snap, t)),
         node' = [node EXCEPT ![t] = PushedNode(t, frame[t].snap.head)],
         queued' = queued \union {t}, ahead' = [ahead EXCEPT ![t] = queued],
         Return(t, "parked")
  PROVE  ListInv'
<1>1. /\ pc \in [Threads -> PcValues] /\ frame \in [Threads -> Locals]
      /\ node \in [Threads -> ThreadDatas] /\ ahead \in [Threads -> SUBSET Threads]
      /\ queued \subseteq Threads /\ state \in Words /\ t # Null
  BY ThreadsAssumption DEF TypeInv, TypeOK
<1>2. t \notin queued
  BY DEF ListInv, Sleepers, Asleep
<1>3. state'.head = t /\ frame[t].snap.head = state.head
  BY <1>1 DEF CasOk, set_queue_head, Words
<1>4. /\ ahead'[t] = queued
      /\ \A x \in queued : ahead'[x] = ahead[x] /\ node'[x] = node[x] /\ x # t
  BY <1>1, <1>2
<1>5. /\ node'[t].queue_tail = IF state.head = Null THEN t ELSE Null
      /\ node'[t].next = state.head /\ node'[t].prev = Null /\ ~node'[t].notified
  BY <1>1, <1>3 DEF PushedNode, NewThreadData
<1>6. \A u \in Threads \ {t} : pc'[u] = pc[u] /\ frame'[u] = frame[u]
  BY <1>1 DEF Return
<1>7. pc'[t] = "parked"
  BY <1>1 DEF Return
<1>8. /\ Order /\ Newest /\ Links /\ Marks
      /\ \A x \in queued : ahead[x] \subseteq queued
  BY DEF ListInv, List, Order
<1>9. Order'
  BY <1>2, <1>4, <1>8 DEF Order, UpTo
<1>10. Newest'
  BY <1>1, <1>2, <1>3, <1>4 DEF Newest
<1>11. Links'
  <2>1. ASSUME NEW x \in queued', ahead'[x] # {} PROVE NextLinked(x)'
    <3>1. CASE x = t
      BY <1>2, <1>4, <1>5, <1>8, <2>1, <3>1 DEF NextLinked, Follows, Newest
    <3>2. CASE x \in queued
      BY <1>4, <1>8, <2>1, <3>2 DEF NextLinked, Follows, Links
    <3>. QED BY <3>1, <3>2
  <2>2. ASSUME NEW x \in queued', node'[x].prev # Null PROVE PrevLinked(x)'
    <3>1. x \in queued
      BY <1>5, <2>2
    <3>. QED BY <1>4, <1>8, <2>2, <3>1 DEF PrevLinked, Follows, Links
  <2>. QED BY <2>1, <2>2 DEF Links
<1>12. Marks'
  <2>1. CASE queued = {}
    <3>1. state.head = Null
      BY <1>8, <2>1 DEF Newest
    <3>2. queued' = {t} /\ node'[t].queue_tail = t /\ ahead'[t] = {}
      BY <1>4, <1>5, <2>1, <3>1
    <3>3. IsMark(t)' /\ Marked(t)'
      BY <1>1, <1>5, <3>2 DEF IsMark, IsProcessed, UpTo, Marked
    <3>. QED BY <3>2, <3>3 DEF Marks
  <2>2. CASE queued # {}
    <3>1. ~IsProcessed(t)' /\ \A x \in queued : IsProcessed(x)' <=> IsProcessed(x)
      BY <1>4, <1>5, <1>8, <2>2 DEF IsProcessed, Newest
    <3>2. \A p \in queued : IsMark(p)' <=> IsMark(p)
      BY <1>4, <3>1 DEF IsMark, UpTo
    <3>3. \A u \in Threads :
            pc[u] \in LinkPcs => pc'[u] \in LinkPcs /\ HeadSeen(u)' = HeadSeen(u)
      BY <1>6 DEF HeadSeen, LinkPcs
    <3>4. \A u \in Threads : pc[u] \in LinkPcs => HeadSeen(u) \in queued
      BY DEF ListInv, Workers, Worker, ListPcs
    <3>5. ASSUME NEW p \in queued, Marked(p) PROVE Marked(p)'
      <4>1. node'[p].queue_tail \in queued' /\ ahead'[node'[p].queue_tail] = {}
        BY <1>4, <3>5 DEF Marked
      <4>2. \A x \in ahead'[p] : node'[x].prev # Null
        BY <1>4, <1>8, <3>5 DEF Marked
      <4>3. ASSUME NEW x \in queued', node'[x].prev # Null
            PROVE  \/ x \in ahead'[p]
                   \/ \E u \in Threads : pc'[u] \in LinkPcs /\ x \in ahead'[HeadSeen(u)']
        BY <1>4, <1>5, <3>3, <3>4, <3>5, <4>3 DEF Marked
      <4>. QED BY <4>1, <4>2, <4>3 DEF Marked
    <3>6. ~IsMark(t)'
      BY <3>1 DEF IsMark
    <3>. QED BY <1>8, <2>2, <3>2, <3>5, <3>6 DEF Marks
  <2>. QED BY <2>1, <2>2
<1>13. ASSUME NEW u \in Threads, pc'[u] \in ListPcs PROVE Worker(u)'
  <2>1. u # t /\ pc'[u] = pc[u] /\ frame'[u] = frame[u]
    BY <1>6, <1>7, <1>13 DEF ListPcs, LinkPcs, PopPcs
  <2>2. Worker(u)
    BY <1>13, <2>1 DEF ListInv, Workers
  <2>3. HeadSeen(u) \in queued /\ HeadSeen(u)' = HeadSeen(u)
    BY <2>1, <2>2 DEF Worker, HeadSeen
  <2>4. ~IsProcessed(t)' /\ \A x \in queued : IsProcessed(x)' <=> IsProcessed(x)
    BY <1>4, <1>5, <1>8, <2>3 DEF IsProcessed, Newest
  <2>. QED BY <1>4, <1>8, <2>1, <2>2, <2>3, <2>4 DEF Worker, UpTo
<1>14. Sleepers'
  <2>1. \A x : Asleep(x) => x # t /\ Asleep(x)'
    BY <1>1, <1>6 DEF Asleep
  <2>2. Asleep(t)'
    BY <1>5, <1>7 DEF Asleep
  <2>3. \A u \in Threads : pc'[u] \in WakePcs =>
          u # t /\ pc[u] \in WakePcs /\ frame'[u] = frame[u]
    BY <1>6, <1>7 DEF WakePcs
  <2>. QED BY <2>1, <2>2, <2>3 DEF Sleepers, ListInv
<1>. QED BY <1>9, <1>10, <1>11, <1>12, <1>13, <1>14 DEF ListInv, List, Workers

\* Changes to a node that is not on the list are nobody's business.
LEMMA OffListStep ==
  ASSUME ListInv, UNCHANGED <<state, queued, ahead>>,
         \A x \in queued : node'[x] = node[x],
         \A u \in Threads : pc[u] \in ListPcs => pc'[u] = pc[u] /\ frame'[u] = frame[u],
         \A u \in Threads : pc'[u] \in ListPcs => pc[u] \in ListPcs
  PROVE  List' /\ Workers'
<1>1. Order' /\ Newest' /\ Links'
  BY DEF ListInv, List, Order, UpTo, Newest, Links, NextLinked, PrevLinked, Follows
<1>2. \A u \in Threads : pc[u] \in LinkPcs => pc'[u] \in LinkPcs /\ HeadSeen(u)' = HeadSeen(u)
  BY DEF HeadSeen, ListPcs
<1>3. \A x \in queued : (IsProcessed(x)' <=> IsProcessed(x)) /\ ahead[x] \subseteq queued
  BY DEF IsProcessed, ListInv, List, Order
<1>4. Marks'
  <2>1. \A p : IsMark(p)' <=> IsMark(p)
    BY <1>3 DEF IsMark, UpTo
  <2>2. ASSUME NEW p \in queued, Marked(p) PROVE Marked(p)'
    BY <1>2, <1>3, <2>2 DEF Marked
  <2>. QED BY <2>1, <2>2 DEF Marks, ListInv, List
<1>5. ASSUME NEW u \in Threads, pc'[u] \in ListPcs PROVE Worker(u)'
  <2>1. pc[u] \in ListPcs /\ pc'[u] = pc[u] /\ frame'[u] = frame[u]
    BY <1>5
  <2>2. Worker(u)
    BY <2>1 DEF ListInv, Workers
  <2>. QED BY <1>3, <2>1, <2>2 DEF Worker, HeadSeen, UpTo
<1>. QED BY <1>1, <1>4, <1>5 DEF List, Workers

\* A sleeper that was woken leaves with its node.
LEMMA ParkReturnStep ==
  ASSUME TypeInv, ListInv, NEW t \in Threads, ParkReturn(t)
  PROVE  ListInv'
<1>1. /\ pc \in [Threads -> PcValues] /\ frame \in [Threads -> Locals]
      /\ node \in [Threads -> ThreadDatas]
  BY DEF TypeInv, TypeOK
<1>2. /\ pc[t] = "parked" /\ node[t].notified /\ UNCHANGED <<state, queued, ahead>>
      /\ node' = [node EXCEPT ![t] = NewThreadData]
      /\ pc'[t] \in {"held", "lock_slow"}
      /\ \A u \in Threads \ {t} : pc'[u] = pc[u] /\ frame'[u] = frame[u]
  BY <1>1 DEF ParkReturn, Resume, Return
<1>3. t \notin queued /\ \A x : Asleep(x) => x # t /\ Asleep(x)'
  BY <1>1, <1>2 DEF Asleep, ListInv, Sleepers
<1>4. List' /\ Workers'
  <2>1. \A x \in queued : node'[x] = node[x]
    BY <1>1, <1>2, <1>3
  <2>2. t \in Threads /\ pc[t] \notin ListPcs /\ pc'[t] \notin ListPcs
    BY <1>2 DEF ListPcs, LinkPcs, PopPcs
  <2>. QED BY <1>2, <2>1, <2>2, OffListStep
<1>5. Sleepers'
  BY <1>2, <1>3 DEF Sleepers, ListInv, WakePcs
<1>. QED BY <1>4, <1>5 DEF ListInv

\* An unlocker wakes the sleeper that it took off the list.
LEMMA WakeStep ==
  ASSUME TypeInv, ListInv, NEW t \in Threads, UnlockSlowWake(t) \/ UnlockFairWake(t)
  PROVE  ListInv'
<1>1. /\ pc \in [Threads -> PcValues] /\ frame \in [Threads -> Locals]
      /\ node \in [Threads -> ThreadDatas]
  BY DEF TypeInv, TypeOK
<1>2. PICK v \in Threads : v = frame[t].tail /\ v \notin queued /\ Asleep(v)
  BY DEF UnlockSlowWake, UnlockFairWake, WakePcs, ListInv, Sleepers, Asleep
<1>3. /\ pc[t] \in WakePcs /\ pc'[t] = "idle" /\ UNCHANGED <<state, queued, ahead>>
      /\ \A u \in Threads \ {t} : pc'[u] = pc[u] /\ frame'[u] = frame[u]
  BY <1>1 DEF UnlockSlowWake, UnlockFairWake, Return, WakePcs
<1>4. \A x \in Threads \ {v} : node'[x] = node[x]
  BY <1>1, <1>2 DEF UnlockSlowWake, UnlockFairWake
<1>5. List' /\ Workers'
  <2>1. \A x \in queued : node'[x] = node[x]
    BY <1>2, <1>4 DEF TypeInv, TypeOK
  <2>2. pc[t] \notin ListPcs /\ pc'[t] \notin ListPcs
    BY <1>3 DEF ListPcs, LinkPcs, PopPcs, WakePcs
  <2>. QED BY <1>3, <2>1, <2>2, OffListStep
<1>6. \A x : Asleep(x) /\ x # v => Asleep(x)'
  BY <1>3, <1>4 DEF Asleep, WakePcs
<1>7. Sleepers'
  <2>1. \A u \in Threads : pc'[u] \in WakePcs =>
          u # t /\ pc[u] \in WakePcs /\ frame'[u] = frame[u]
    BY <1>3 DEF WakePcs
  <2>2. \A u \in Threads \ {t} : pc[u] \in WakePcs => frame[u].tail # v
    BY <1>2, <1>3 DEF ListInv, Sleepers
  <2>. QED BY <1>2, <1>3, <1>6, <2>1, <2>2 DEF Sleepers, ListInv
<1>. QED BY <1>5, <1>7 DEF ListInv

-----------------------------------------------------------------------------
(* Work on the list. *)

\* What link_prev_nodes! has done so far for t.
LEMMA LinkerKnows ==
  ASSUME ListInv, NEW t \in Threads, pc[t] \in LinkPcs
  PROVE  /\ HeadSeen(t) \in queued /\ frame[t].cur \in queued
         /\ UpTo(frame[t].cur, HeadSeen(t))
         /\ \A q \in queued : IsProcessed(q) => UpTo(q, HeadSeen(t)) /\ UpTo(q, frame[t].cur)
         /\ \A x \in ahead[HeadSeen(t)] : UpTo(frame[t].cur, x) => node[x].prev # Null
  BY DEF ListInv, Workers, Worker, ListPcs

\* One round of link_prev_nodes!: the node behind the cursor learns its prev.
LEMMA LinkPrevStep ==
  ASSUME TypeInv, QueueLockExclusive, ListInv, NEW t \in Threads, LinkPrev(t)
  PROVE  ListInv'
<1>1. /\ pc \in [Threads -> PcValues] /\ frame \in [Threads -> Locals]
      /\ node \in [Threads -> ThreadDatas] /\ queued \subseteq Threads
  BY DEF TypeInv, TypeOK
<1>2. pc[t] \in LinkPcs /\ ~IsProcessed(frame[t].cur)
  BY DEF LinkPrev, LinkPcs, IsProcessed
<1>3. PICK h \in queued, cur \in queued :
        /\ h = HeadSeen(t) /\ cur = frame[t].cur /\ UpTo(cur, h)
        /\ \A q \in queued : IsProcessed(q) => UpTo(q, cur)
        /\ \A x \in ahead[h] : UpTo(cur, x) => node[x].prev # Null
  BY <1>2, LinkerKnows
<1>4. /\ Order /\ Newest /\ Links /\ Marks /\ \A x \in queued : ahead[x] \subseteq queued
  BY DEF ListInv, List, Order
<1>5. ahead[cur] # {}
  BY <1>2, <1>3, <1>4 DEF Marks, IsMark, UpTo
<1>6. PICK next \in queued : next = node[cur].next /\ ahead[cur] = ahead[next] \union {next}
  BY <1>4, <1>5 DEF Links, NextLinked, Follows
<1>7. /\ UNCHANGED <<state, pc, queued, ahead>>
      /\ node' = [node EXCEPT ![next].prev = cur]
      /\ frame' = [frame EXCEPT ![t].cur = next]
  BY <1>3, <1>6 DEF LinkPrev
<1>8. /\ \A x \in queued \ {next} : node'[x] = node[x]
      /\ node'[next].prev = cur /\ node'[next].next = node[next].next
      /\ node'[next].queue_tail = node[next].queue_tail
  BY <1>1, <1>7 DEF ThreadDatas
<1>9. /\ \A x \in queued : IsProcessed(x)' <=> IsProcessed(x)
      /\ \A x, y : UpTo(x, y)' <=> UpTo(x, y)
      /\ \A u \in Threads : HeadSeen(u)' = HeadSeen(u)
  BY <1>1, <1>7, <1>8 DEF IsProcessed, UpTo, HeadSeen, Locals
<1>10. /\ \A x \in queued : node[x].prev # Null => node'[x].prev # Null
       /\ \A x \in queued : node'[x].prev # Null => x = next \/ node[x].prev # Null
  BY <1>1, <1>8, ThreadsAssumption
<1>11. Order' /\ Newest'
  BY <1>4, <1>7 DEF Order, Newest, UpTo
<1>12. Links'
  <2>1. \A x \in queued : ahead[x] # {} => NextLinked(x)'
    BY <1>4, <1>7, <1>8 DEF Links, NextLinked, Follows
  <2>2. PrevLinked(next)'
    BY <1>6, <1>7, <1>8 DEF PrevLinked, Follows
  <2>3. \A x \in queued \ {next} : node'[x].prev # Null => PrevLinked(x)'
    BY <1>4, <1>7, <1>8 DEF Links, PrevLinked, Follows
  <2>. QED BY <1>7, <2>1, <2>2, <2>3 DEF Links
<1>13. next \in ahead[h]
  BY <1>3, <1>4, <1>6, UpToTransitive DEF UpTo
<1>14. Marks'
  <2>1. \A p \in queued : IsMark(p)' <=> IsMark(p)
    BY <1>7, <1>9 DEF IsMark
  <2>2. ASSUME NEW p \in queued, Marked(p) PROVE Marked(p)'
    <3>1. node'[p].queue_tail \in queued' /\ ahead'[node'[p].queue_tail] = {}
      BY <1>7, <1>8, <2>2 DEF Marked
    <3>2. \A x \in ahead'[p] : node'[x].prev # Null
      BY <1>4, <1>7, <1>10, <2>2 DEF Marked
    <3>3. ASSUME NEW x \in queued', node'[x].prev # Null
          PROVE  \/ x \in ahead'[p]
                 \/ \E u \in Threads : pc'[u] \in LinkPcs /\ x \in ahead'[HeadSeen(u)']
      BY <1>2, <1>3, <1>7, <1>9, <1>10, <1>13, <2>2, <3>3 DEF Marked
    <3>. QED BY <3>1, <3>2, <3>3 DEF Marked
  <2>. QED BY <1>4, <1>7, <2>1, <2>2 DEF Marks
<1>15. Worker(t)'
  <2>1. frame'[t].cur = next /\ HeadSeen(t)' = h
    BY <1>1, <1>3, <1>7, <1>9 DEF Locals
  <2>2. UpTo(next, h)
    BY <1>13 DEF UpTo
  <2>3. \A q \in queued : IsProcessed(q) => UpTo(q, h) /\ UpTo(q, next)
    <3>1. ASSUME NEW q \in queued, IsProcessed(q) PROVE UpTo(q, next)
      BY <1>2, <1>3, <1>6, <3>1 DEF UpTo
    <3>. QED BY <1>4, <2>2, <3>1, UpToTransitive
  <2>4. ASSUME NEW x \in ahead[h], UpTo(next, x) PROVE node'[x].prev # Null
    <3>1. x \in queued
      BY <1>4
    <3>2. CASE x = next
      BY <1>1, <1>8, <3>2, ThreadsAssumption
    <3>3. CASE x # next
      <4>1. next \in ahead[x]
        BY <2>4, <3>3 DEF UpTo
      <4>2. x \notin ahead[next]
        BY <1>4, <3>1, <4>1, UpToAntisymmetric DEF UpTo
      <4>3. UpTo(cur, x)
        BY <1>4, <1>6, <3>1, <3>3, <4>2 DEF Order
      <4>. QED BY <1>3, <1>10, <3>1, <4>3
    <3>. QED BY <3>2, <3>3
  <2>5. pc'[t] = pc[t] /\ pc[t] \in LinkPcs
    BY <1>2, <1>7
  <2>. QED
    BY <1>7, <1>9, <2>1, <2>2, <2>3, <2>4, <2>5 DEF Worker, LinkPcs, PopPcs
<1>16. \A u \in Threads : pc'[u] \in ListPcs => u = t
  BY <1>2, <1>7, OneWorker DEF ListPcs
<1>17. Sleepers'
  <2>1. \A x \in Threads : Asleep(x) => Asleep(x)'
    BY <1>1, <1>7 DEF Asleep, ThreadDatas
  <2>2. \A u \in Threads : frame'[u].tail = frame[u].tail
    BY <1>1, <1>7 DEF Locals
  <2>. QED BY <1>7, <2>1, <2>2 DEF Sleepers, ListInv, Asleep
<1>. QED BY <1>11, <1>12, <1>14, <1>15, <1>16, <1>17 DEF ListInv, List, Workers

\* link_prev_nodes! is done: the head learns the oldest, and becomes the mark.
LEMMA LinkDoneStep ==
  ASSUME TypeInv, QueueLockExclusive, ListInv, NEW t \in Threads, LinkDone(t)
  PROVE  ListInv'
<1>1. /\ pc \in [Threads -> PcValues] /\ frame \in [Threads -> Locals]
      /\ node \in [Threads -> ThreadDatas] /\ queued \subseteq Threads
  BY DEF TypeInv, TypeOK
<1>2. pc[t] \in LinkPcs /\ IsProcessed(frame[t].cur)
  BY DEF LinkDone, LinkPcs, IsProcessed
<1>3. PICK h \in queued, cur \in queued :
        /\ h = HeadSeen(t) /\ cur = frame[t].cur /\ UpTo(cur, h)
        /\ \A q \in queued : IsProcessed(q) => UpTo(q, h) /\ UpTo(q, cur)
        /\ \A x \in ahead[h] : UpTo(cur, x) => node[x].prev # Null
  BY <1>2, LinkerKnows
<1>4. /\ Order /\ Newest /\ Links /\ Marks /\ \A x \in queued : ahead[x] \subseteq queued
  BY DEF ListInv, List, Order
<1>5. Marked(cur)
  BY <1>2, <1>3, <1>4 DEF Marks, IsMark
<1>6. PICK tail \in queued : tail = node[cur].queue_tail /\ ahead[tail] = {}
  BY <1>5 DEF Marked
<1>7. /\ UNCHANGED <<state, queued, ahead>>
      /\ node' = [node EXCEPT ![h].queue_tail = tail]
      /\ frame' = [frame EXCEPT ![t].tail = tail, ![t].cur = Null]
      /\ pc' = [pc EXCEPT ![t] = pc'[t]]
      /\ pc'[t] \in {"us_release", "us_pop_last", "usf_pop_last"} \union
                    {"us_pop_more", "usf_pop_more"}
      /\ pc'[t] \in {"us_pop_last", "usf_pop_last"} => node[tail].prev = Null
      /\ pc'[t] \in {"us_pop_more", "usf_pop_more"} => node[tail].prev # Null
  BY <1>1, <1>3, <1>6 DEF LinkDone, HeadSeen
<1>8. /\ \A x \in queued \ {h} : node'[x] = node[x]
      /\ \A x \in queued : node'[x].prev = node[x].prev /\ node'[x].next = node[x].next
      /\ node'[h].queue_tail = tail /\ tail # Null
  BY <1>1, <1>7, ThreadsAssumption DEF ThreadDatas
<1>9. /\ \A x \in queued : IsProcessed(x)' <=> x = h \/ IsProcessed(x)
      /\ \A x, y : UpTo(x, y)' <=> UpTo(x, y)
      /\ \A u \in Threads : HeadSeen(u)' = HeadSeen(u)
      /\ frame'[t].tail = tail
  BY <1>1, <1>7, <1>8 DEF IsProcessed, UpTo, HeadSeen, Locals
<1>10. Order' /\ Newest' /\ Links'
  BY <1>4, <1>7, <1>8 DEF Order, Newest, UpTo, Links, NextLinked, PrevLinked, Follows
<1>11. \A x \in ahead[h] : node[x].prev # Null
  <2>1. ASSUME NEW x \in ahead[h] PROVE UpTo(cur, x) \/ x \in ahead[cur]
    BY <1>4 DEF Order
  <2>. QED BY <1>3, <1>5, <2>1 DEF Marked
<1>12. \A x \in queued : node[x].prev # Null => x \in ahead[h]
  <2>1. ASSUME NEW x \in queued, x \in ahead[cur] PROVE x \in ahead[h]
    BY <1>3, <1>4, <2>1, UpToTransitive DEF UpTo
  <2>2. \A u \in Threads : pc[u] \in LinkPcs => HeadSeen(u) = h
    BY <1>2, <1>3, OneWorker DEF ListPcs
  <2>. QED BY <1>5, <2>1, <2>2 DEF Marked
<1>13. Marks'
  <2>1. IsMark(h)'
    BY <1>3, <1>7, <1>9 DEF IsMark, UpTo
  <2>2. ASSUME NEW p, IsMark(p)' PROVE p = h
    <3>1. p \in queued /\ UpTo(p, h) /\ UpTo(h, p)
      BY <1>7, <1>9, <2>1, <2>2 DEF IsMark
    <3>. QED BY <1>4, <3>1, UpToAntisymmetric DEF UpTo
  <2>3. Marked(h)'
    BY <1>6, <1>7, <1>8, <1>11, <1>12, <1>4 DEF Marked
  <2>. QED BY <1>7, <2>1, <2>2, <2>3 DEF Marks
<1>14. Worker(t)'
  <2>1. HeadSeen(t)' = h /\ pc'[t] \notin LinkPcs
    BY <1>3, <1>7, <1>9 DEF LinkPcs
  <2>2. \A q \in queued : IsProcessed(q)' => UpTo(q, h)
    BY <1>3, <1>9 DEF UpTo
  <2>3. pc'[t] \in {"us_pop_last", "usf_pop_last"} => tail = h
    <3>1. UpTo(tail, h)
      BY <1>4, <1>6 DEF Order
    <3>. QED BY <1>7, <1>11, <3>1 DEF UpTo
  <2>4. pc'[t] \in {"us_pop_more", "usf_pop_more"} => tail # h
    BY <1>4, <1>7, <1>12 DEF Order
  <2>. QED
    BY <1>7, <1>8, <1>9, <2>1, <2>2, <2>3, <2>4 DEF Worker, PopPcs
<1>15. \A u \in Threads : pc'[u] \in ListPcs => u = t
  BY <1>1, <1>2, <1>7, OneWorker DEF ListPcs
<1>16. Sleepers'
  <2>1. pc[t] # "parked" /\ pc[t] \notin WakePcs /\ pc'[t] \notin WakePcs
    BY <1>2, <1>7 DEF LinkPcs, WakePcs
  <2>2. \A x : Asleep(x) => Asleep(x)'
    BY <1>1, <1>7, <2>1 DEF Asleep, ThreadDatas
  <2>3. \A u \in Threads : pc'[u] \in WakePcs =>
          u # t /\ pc[u] \in WakePcs /\ frame'[u] = frame[u]
    BY <1>1, <1>7, <2>1
  <2>4. queued' = queued
    BY <1>7
  <2>. QED BY <2>2, <2>3, <2>4 DEF Sleepers, ListInv
<1>. QED BY <1>10, <1>13, <1>14, <1>15, <1>16 DEF ListInv, List, Workers

\* A sleeper that leaves the list, and the thread that will wake it.
LEMMA DequeueSleepers ==
  ASSUME TypeInv, ListInv, NEW t \in Threads, NEW tail \in queued, frame[t].tail = tail,
         queued' = queued \ {tail}, pc[t] \in PopPcs, UNCHANGED frame,
         pc' = [pc EXCEPT ![t] = pc'[t]],
         \A x \in Threads : node'[x].notified = node[x].notified
  PROVE  Sleepers'
<1>1. pc \in [Threads -> PcValues]
  BY DEF TypeInv, TypeOK
<1>2. \A u \in Threads \ {t} : pc'[u] = pc[u]
  BY <1>1
<1>3. \A x : Asleep(x) => Asleep(x)'
  BY <1>2 DEF Asleep, PopPcs
<1>4. Asleep(tail) /\ \A u \in Threads : pc[u] \in WakePcs => frame[u].tail # tail
  BY DEF ListInv, Sleepers
<1>. QED BY <1>2, <1>3, <1>4 DEF ListInv, Sleepers

\* The only node leaves.
LEMMA PopLastStep ==
  ASSUME TypeInv, QueueLockExclusive, ListInv, NEW t \in Threads,
         pc[t] \in {"us_pop_last", "usf_pop_last"}, state = frame[t].snap,
         state'.head = Null, pc' = [pc EXCEPT ![t] = pc'[t]], pc'[t] \in WakePcs,
         Dequeue(t), UNCHANGED <<frame, node>>
  PROVE  ListInv'
<1>1. pc[t] \in ListPcs \ LinkPcs /\ pc[t] \in PopPcs /\ pc \in [Threads -> PcValues]
  BY DEF ListPcs, LinkPcs, PopPcs, TypeInv, TypeOK
<1>2. /\ HeadSeen(t) \in queued /\ frame[t].tail = HeadSeen(t) /\ state.head = HeadSeen(t)
      /\ ahead[HeadSeen(t)] = {}
  BY <1>1, WorkerMarks DEF ListInv, Workers, Worker, HeadSeen
<1>3. queued = {HeadSeen(t)}
  BY <1>2 DEF ListInv, List, Newest
<1>4. queued' = {}
  BY <1>2, <1>3 DEF Dequeue
<1>5. List'
  BY <1>4 DEF List, Order, Newest, Links, Marks
<1>6. Workers'
  BY <1>1, OneWorker DEF Workers, ListPcs, LinkPcs, PopPcs, WakePcs
<1>7. Sleepers'
  BY <1>1, <1>2, DequeueSleepers DEF Dequeue
<1>. QED BY <1>5, <1>6, <1>7 DEF ListInv

\* The oldest node leaves, and the head learns the one that is now the oldest.
LEMMA PopMoreStep ==
  ASSUME TypeInv, QueueLockExclusive, ListInv, NEW t \in Threads,
         pc[t] \in {"us_pop_more", "usf_pop_more"}, state'.head = state.head,
         pc' = [pc EXCEPT ![t] = pc'[t]], pc'[t] \in WakePcs,
         node' = [node EXCEPT ![HeadSeen(t)].queue_tail = node[frame[t].tail].prev],
         Dequeue(t), UNCHANGED frame
  PROVE  ListInv'
<1>1. /\ pc[t] \in ListPcs \ LinkPcs /\ pc[t] \in PopPcs
      /\ node \in [Threads -> ThreadDatas] /\ queued \subseteq Threads
      /\ ahead \in [Threads -> SUBSET Threads] /\ pc \in [Threads -> PcValues]
  BY DEF ListPcs, LinkPcs, PopPcs, TypeInv, TypeOK
<1>2. /\ Order /\ Newest /\ Links /\ \A x \in queued : ahead[x] \subseteq queued
  BY DEF ListInv, List, Order
<1>3. PICK h \in queued, tail \in queued :
        /\ h = HeadSeen(t) /\ tail = frame[t].tail /\ tail # h /\ ahead[tail] = {}
        /\ IsMark(h) /\ Marked(h)
  BY <1>1, WorkerMarks DEF ListInv, Workers, Worker
<1>4. tail \in ahead[h]
  BY <1>2, <1>3 DEF Order, UpTo
<1>5. PICK last \in queued : last = node[tail].prev /\ ahead[last] = {tail}
  <2>1. node[tail].prev # Null
    BY <1>3, <1>4 DEF Marked
  <2>2. PrevLinked(tail)
    BY <1>2, <2>1 DEF Links
  <2>. QED BY <1>3, <2>2 DEF PrevLinked, Follows
<1>6. /\ queued' = queued \ {tail}
      /\ \A x \in queued : ahead'[x] = ahead[x] \ {tail}
      /\ node' = [node EXCEPT ![h].queue_tail = last]
  BY <1>1, <1>3, <1>5 DEF Dequeue
<1>7. /\ \A x \in queued \ {h} : node'[x] = node[x]
      /\ \A x \in queued : node'[x].prev = node[x].prev /\ node'[x].next = node[x].next
      /\ node'[h].queue_tail = last /\ last # Null /\ last # tail
  BY <1>1, <1>2, <1>3, <1>5, <1>6, ThreadsAssumption DEF ThreadDatas, Order
<1>8. \A x \in queued' : IsProcessed(x)' <=> IsProcessed(x)
  BY <1>3, <1>6, <1>7 DEF IsProcessed, IsMark
<1>9. Order'
  BY <1>2, <1>6 DEF Order, UpTo
<1>10. Newest'
  <2>1. queued' # {} /\ state.head # Null /\ state.head \in queued
    BY <1>2, <1>3, <1>6 DEF Newest
  <2>2. ahead[state.head] = queued \ {state.head} /\ state.head # tail
    BY <1>2, <1>3 DEF Newest
  <2>. QED BY <1>6, <2>1, <2>2 DEF Newest
<1>11. Links'
  <2>1. ASSUME NEW x \in queued', ahead'[x] # {} PROVE NextLinked(x)'
    <3>1. NextLinked(x)
      BY <1>2, <1>6, <2>1 DEF Links
    <3>2. node[x].next # tail
      BY <1>3, <1>6, <2>1, <3>1 DEF NextLinked, Follows
    <3>. QED BY <1>6, <1>7, <3>1, <3>2 DEF NextLinked, Follows
  <2>2. ASSUME NEW x \in queued', node'[x].prev # Null PROVE PrevLinked(x)'
    <3>1. PrevLinked(x)
      BY <1>2, <1>6, <1>7, <2>2 DEF Links
    <3>2. node[x].prev # tail
      BY <1>3, <3>1 DEF PrevLinked, Follows
    <3>. QED BY <1>6, <1>7, <3>1, <3>2 DEF PrevLinked, Follows
  <2>. QED BY <2>1, <2>2 DEF Links
<1>12. Marks'
  <2>1. h \in queued' /\ \A p \in queued' : IsMark(p)' => p = h
    <3>1. ASSUME NEW p \in queued', IsMark(p)' PROVE p = h
      <4>1. IsProcessed(p) /\ IsProcessed(h) /\ h \in queued'
        BY <1>3, <1>6, <1>8, <3>1 DEF IsMark
      <4>2. UpTo(h, p) /\ UpTo(p, h)
        BY <1>3, <1>6, <1>8, <3>1, <4>1 DEF IsMark, UpTo
      <4>. QED BY <1>2, <1>6, <4>2, UpToAntisymmetric DEF UpTo
    <3>. QED BY <1>3, <1>6, <3>1
  <2>2. IsMark(h)'
    BY <1>3, <1>6, <1>8, <2>1 DEF IsMark, UpTo
  <2>3. ASSUME NEW x \in queued', node'[x].prev # Null PROVE x \in ahead'[h]
    <3>1. \A u \in Threads : pc[u] \notin LinkPcs
      BY <1>1, OneWorker DEF ListPcs
    <3>. QED BY <1>3, <1>6, <1>7, <2>3, <3>1 DEF Marked
  <2>4. Marked(h)'
    <3>1. node'[h].queue_tail \in queued' /\ ahead'[node'[h].queue_tail] = {}
      BY <1>5, <1>6, <1>7
    <3>2. \A x \in ahead'[h] : node'[x].prev # Null
      BY <1>2, <1>3, <1>6, <1>7 DEF Marked
    <3>. QED BY <2>3, <3>1, <3>2 DEF Marked
  <2>. QED BY <2>1, <2>2, <2>4 DEF Marks
<1>13. Workers'
  <2>1. \A u \in Threads : pc'[u] \in ListPcs => u # t /\ pc[u] \in ListPcs
    BY <1>1 DEF ListPcs, LinkPcs, PopPcs, WakePcs
  <2>. QED BY <1>1, <2>1, OneWorker DEF Workers
<1>14. Sleepers'
  <2>1. \A x \in Threads : node'[x].notified = node[x].notified
    BY <1>1, <1>6 DEF ThreadDatas
  <2>. QED BY <1>1, <1>3, <1>6, <2>1, DequeueSleepers
<1>. QED BY <1>9, <1>10, <1>11, <1>12, <1>13, <1>14 DEF ListInv, List

\* The step of an unlocker that finds the word changed and scans again.
LEMMA RelinkStep ==
  ASSUME TypeInv, ListInv, NEW t \in Threads, NEW to \in LinkPcs,
         pc[t] \in ListPcs \ LinkPcs, Relink(t, to), UNCHANGED state, NoListChange
  PROVE  ListInv'
<1>1. /\ pc \in [Threads -> PcValues] /\ frame \in [Threads -> Locals]
      /\ state.head # Null
  BY WorkerMarks DEF TypeInv, TypeOK, ListInv, List, Newest
<1>2. /\ pc'[t] \in LinkPcs
      /\ frame'[t].snap.head = state.head /\ frame'[t].cur = state.head
      /\ \A u \in Threads \ {t} : pc'[u] = pc[u] /\ frame'[u] = frame[u]
  BY <1>1 DEF Relink, Locals
<1>3. pc[t] # "parked" /\ pc[t] \notin LinkPcs
  BY DEF ListPcs, PopPcs
<1>4. state'.head = state.head
  OBVIOUS
<1>. QED BY <1>1, <1>2, <1>3, <1>4, EnterStep

\* Every step keeps the list.
LEMMA ListStep ==
  TypeInv /\ QueueLockExclusive /\ ListInv /\ [Next]_vars => ListInv'
<1> SUFFICES ASSUME TypeInv, QueueLockExclusive, ListInv, [Next]_vars
             PROVE  ListInv'
  OBVIOUS
<1>1. /\ state \in Words
      /\ pc \in [Threads -> PcValues]
      /\ frame \in [Threads -> Locals]
      /\ \A t \in Threads : frame[t].snap \in Words
  BY DEF TypeInv, TypeOK, Locals
<1>2. CASE UNCHANGED vars
  <2>. UNCHANGED <<state, pc, frame, node, queued, ahead>>
    BY <1>2 DEF vars
  <2>1. Order' /\ Newest' /\ Links'
    BY DEF ListInv, List, Order, UpTo, Newest, Links, NextLinked, PrevLinked, Follows
  <2>2. \A p : (IsMark(p)' <=> IsMark(p)) /\ (Marked(p)' <=> Marked(p))
    BY DEF IsMark, IsProcessed, UpTo, Marked, HeadSeen
  <2>3. Marks'
    BY <2>2 DEF ListInv, List, Marks
  <2>4. \A t : Worker(t)' <=> Worker(t)
    BY DEF Worker, IsProcessed, UpTo, HeadSeen
  <2>5. Workers'
    BY <2>4 DEF ListInv, Workers
  <2>6. Sleepers'
    BY DEF ListInv, Sleepers, Asleep
  <2>. QED BY <2>1, <2>3, <2>5, <2>6 DEF ListInv, List
<1>3. ASSUME NEW t \in Threads,
             \/ TryLock(t) \/ LockContended(t) \/ IsLocked(t) \/ IsLockedReturn(t)
             \/ LockSlowLoad(t) \/ LockSlowSpin(t) \/ Unlock(t) \/ UnlockFair(t)
             \/ UnlockSlowLoad(t) \/ UnlockSlowReturn(t) \/ UnlockFairLoad(t)
      PROVE  ListInv'
  <2>1. state'.head = state.head /\ NoListChange
    BY <1>1, <1>3, WithBitHead, WithoutBitsHead, InitialTypes
    DEF TryLock, LockContended, IsLocked, IsLockedReturn, LockSlowLoad, LockSlowSpin,
        Unlock, UnlockFair, UnlockSlowLoad, UnlockSlowReturn, UnlockFairLoad
  <2>2. /\ \A u \in Threads \ {t} : pc'[u] = pc[u] /\ frame'[u] = frame[u]
        /\ pc[t] \notin LinkPcs /\ pc[t] # "parked"
        /\ pc'[t] \notin ListPcs \union WakePcs
    BY <1>1, <1>3
    DEF TryLock, LockContended, IsLocked, IsLockedReturn, LockSlowLoad, LockSlowSpin,
        Unlock, UnlockFair, UnlockSlowLoad, UnlockSlowReturn, UnlockFairLoad, Goto,
        Return, Load, ListPcs, LinkPcs, PopPcs, WakePcs
  <2>. QED BY <2>1, <2>2, QuietStep
<1>4. ASSUME NEW t \in Threads, LockSlowGrab(t) \/ UnlockFairClear(t) PROVE ListInv'
  <2>1. state'.head = state.head /\ NoListChange
    BY <1>1, <1>4, WithBitHead, WithoutBitsHead DEF LockSlowGrab, UnlockFairClear, CasOk
  <2>2. /\ \A u \in Threads \ {t} : pc'[u] = pc[u] /\ frame'[u] = frame[u]
        /\ pc[t] \notin LinkPcs /\ pc[t] # "parked"
        /\ pc'[t] \notin ListPcs \union WakePcs
    BY <1>1, <1>4
    DEF LockSlowGrab, UnlockFairClear, CasErr, Return, Load, ListPcs, LinkPcs, PopPcs,
        WakePcs
  <2>. QED BY <2>1, <2>2, QuietStep
<1>5. ASSUME NEW t \in Threads, LockSlowPark(t) PROVE ListInv'
  <2>1. pc[t] = "lock_loop"
    BY <1>5 DEF LockSlowPark
  <2>2. CASE CasErr(t) /\ UNCHANGED <<state, pc>> /\ NoListChange
    <3>1. /\ \A u \in Threads \ {t} : pc'[u] = pc[u] /\ frame'[u] = frame[u]
          /\ pc[t] \notin LinkPcs /\ pc[t] # "parked"
          /\ pc'[t] \notin ListPcs \union WakePcs
      BY <1>1, <2>1, <2>2 DEF CasErr, Load, ListPcs, LinkPcs, PopPcs, WakePcs
    <3>. QED BY <2>2, <3>1, QuietStep
  <2>. QED BY <1>5, <2>1, <2>2, PushStep DEF LockSlowPark
<1>6. ASSUME NEW t \in Threads, UnlockSlowTry(t) \/ UnlockFairTry(t) PROVE ListInv'
  <2>1. state'.head = state.head /\ NoListChange
    BY <1>1, <1>6, WithBitHead DEF UnlockSlowTry, UnlockFairTry, CasOk
  <2>2. pc[t] \in {"us_try", "usf_try"}
    BY <1>6 DEF UnlockSlowTry, UnlockFairTry
  <2>3. CASE /\ UNCHANGED pc \/ pc' = [pc EXCEPT ![t] = "usf_empty"]
             /\ \A u \in Threads \ {t} : frame'[u] = frame[u]
    <3>1. /\ \A u \in Threads \ {t} : pc'[u] = pc[u] /\ frame'[u] = frame[u]
          /\ pc[t] \notin LinkPcs /\ pc[t] # "parked"
          /\ pc'[t] \notin ListPcs \union WakePcs
      BY <1>1, <2>2, <2>3 DEF ListPcs, LinkPcs, PopPcs, WakePcs
    <3>. QED BY <2>1, <3>1, QuietStep
  <2>4. CASE /\ \E to \in LinkPcs : pc' = [pc EXCEPT ![t] = to]
             /\ frame' = [frame EXCEPT ![t].cur = frame[t].snap.head]
             /\ frame[t].snap = state /\ state.head # Null
    <3>1. /\ \A u \in Threads \ {t} : pc'[u] = pc[u] /\ frame'[u] = frame[u]
          /\ pc'[t] \in LinkPcs
          /\ frame'[t].snap.head = state.head /\ frame'[t].cur = state.head
      BY <1>1, <2>4 DEF Locals
    <3>2. pc[t] \notin LinkPcs /\ pc[t] # "parked"
      BY <2>2 DEF LinkPcs
    <3>. QED BY <2>1, <2>4, <3>1, <3>2, EnterStep
  <2>. QED
    BY <1>1, <1>6, <2>3, <2>4
    DEF UnlockSlowTry, UnlockFairTry, CasOk, CasErr, Load, NothingToWake, LinkPcs
<1>7. ASSUME NEW t \in Threads, UnlockSlowRelease(t) PROVE ListInv'
  <2>1. pc[t] = "us_release" /\ NoListChange
    BY <1>7 DEF UnlockSlowRelease
  <2>2. CASE Relink(t, "us_link") /\ UNCHANGED state
    BY <2>1, <2>2, RelinkStep DEF ListPcs, LinkPcs
  <2>3. CASE CasOk(t, without_bits(frame[t].snap, {QUEUE_LOCKED_BIT})) /\ Return(t, "idle")
    <3>1. state'.head = state.head
      BY <1>1, <2>3, WithoutBitsHead DEF CasOk
    <3>2. /\ \A u \in Threads \ {t} : pc'[u] = pc[u] /\ frame'[u] = frame[u]
          /\ pc[t] \notin LinkPcs /\ pc[t] # "parked"
          /\ pc'[t] \notin ListPcs \union WakePcs
      BY <1>1, <2>1, <2>3 DEF Return, ListPcs, LinkPcs, PopPcs, WakePcs
    <3>. QED BY <2>1, <3>1, <3>2, QuietStep
  <2>. QED BY <1>7, <2>2, <2>3 DEF UnlockSlowRelease
<1>8. ASSUME NEW t \in Threads, NEW from \in {"us_pop_last", "usf_pop_last"},
             NEW link \in LinkPcs, NEW wake \in WakePcs, NEW kept,
             PopLast(t, from, link, wake, kept)
      PROVE  ListInv'
  <2>1. pc[t] = from /\ pc[t] \in ListPcs \ LinkPcs
    BY <1>8 DEF PopLast, ListPcs, LinkPcs, PopPcs
  <2>2. state.head # Null
    BY <2>1, WorkerMarks DEF ListInv, List, Newest
  <2>3. CASE Relink(t, link) /\ UNCHANGED state /\ NoListChange
    BY <2>1, <2>3, RelinkStep
  <2>4. CASE /\ CasOk(t, [flags |-> frame[t].snap.flags \intersect kept, head |-> Null])
             /\ pc' = [pc EXCEPT ![t] = wake]
             /\ Dequeue(t)
             /\ UNCHANGED <<frame, node>>
    <3>1. state = frame[t].snap /\ state'.head = Null
      BY <2>4 DEF CasOk
    <3>2. pc'[t] = wake
      BY <1>1, <2>4
    <3>. QED BY <2>1, <2>4, <3>1, <3>2, PopLastStep
  <2>. QED BY <1>8, <2>2, <2>3, <2>4 DEF PopLast
<1>9. ASSUME NEW t \in Threads, NEW from \in {"us_pop_more", "usf_pop_more"},
             NEW wake \in WakePcs, NEW cleared, PopMore(t, from, wake, cleared)
      PROVE  ListInv'
  <2>1. /\ pc[t] = from /\ pc'[t] = wake /\ pc' = [pc EXCEPT ![t] = wake]
        /\ state'.head = state.head
    BY <1>1, <1>9, WithoutBitsHead DEF PopMore, Goto
  <2>2. /\ node' = [node EXCEPT ![HeadSeen(t)].queue_tail = node[frame[t].tail].prev]
        /\ Dequeue(t) /\ UNCHANGED frame
    BY <1>9 DEF PopMore, HeadSeen
  <2>. QED BY <2>1, <2>2, PopMoreStep
<1>10. ASSUME NEW t \in Threads,
              \/ UnlockSlowPopLast(t) \/ UnlockFairPopLast(t)
              \/ UnlockSlowPopMore(t) \/ UnlockFairPopMore(t)
       PROVE  ListInv'
  BY <1>8, <1>9, <1>10
  DEF UnlockSlowPopLast, UnlockFairPopLast, UnlockSlowPopMore, UnlockFairPopMore,
      LinkPcs, WakePcs
<1>. QED
  BY <1>2, <1>3, <1>4, <1>5, <1>6, <1>7, <1>10, ParkReturnStep, WakeStep, LinkPrevStep,
     LinkDoneStep
  DEF Next, Arrive, Continue

-----------------------------------------------------------------------------
(* What follows for every state. *)

ListSafe == TypeInv /\ QueueLockExclusive /\ ListInv

\* The list keeps its shape for ever.
LEMMA ListInvariant == Spec => []ListSafe
<1>1. Init => ListSafe
  <2>1. Init => QueueLockExclusive
    BY DEF Init, QueueLockExclusive, QueueLockPcs, is_queue_locked, IDLE
  <2>2. Init => ListInv
    BY DEF Init, IDLE, ListInv, List, Order, Newest, Links, Marks, Workers, ListPcs,
       LinkPcs, PopPcs, Sleepers, WakePcs
  <2>. QED BY <2>1, <2>2, TypeInit DEF ListSafe
<1>2. ListSafe /\ [Next]_vars => ListSafe'
  BY TypeStep, QueueLockStep, ListStep DEF ListSafe
<1>. QED BY <1>1, <1>2, PTL DEF Spec

\* lock, unlock and unlock_fair follow pointers into the stacks of other threads:
\* each of them leads to a thread that still sleeps in park, which nobody else is
\* waking, so that no ThreadData is used after its thread has left lock_slow.
THEOREM NodesStayAlive == Spec => []NodesAlive
<1>1. ListSafe => NodesAlive
  <2> SUFFICES ASSUME ListSafe PROVE NodesAlive
    OBVIOUS
  <2>1. ListInv /\ Order /\ Newest /\ Links /\ Marks
    BY DEF ListSafe, ListInv, List
  <2>2. ASSUME NEW t \in Threads, pc[t] \in QueueLockPcs \ {"usf_empty"}
        PROVE  frame[t].snap.head \in queued
    <3>1. pc[t] \in ListPcs
      BY <2>2 DEF QueueLockPcs, ListPcs, LinkPcs, PopPcs
    <3>. QED BY <2>1, <3>1 DEF ListInv, Workers, Worker, HeadSeen
  <2>3. ASSUME NEW t \in Threads, pc[t] \in {"us_link", "usf_link"}
        PROVE  /\ frame[t].cur \in queued
               /\ node[frame[t].cur].queue_tail = Null => node[frame[t].cur].next \in queued
    <3>1. PICK cur \in queued :
            cur = frame[t].cur /\ \A q \in queued : IsProcessed(q) => UpTo(q, cur)
      BY <2>1, <2>3, LinkerKnows DEF LinkPcs
    <3>2. ~IsProcessed(cur) => ahead[cur] # {}
      BY <2>1, <3>1 DEF Marks, IsMark, UpTo
    <3>. QED BY <2>1, <3>1, <3>2 DEF IsProcessed, Links, NextLinked
  <2>4. ASSUME NEW t \in Threads, pc[t] \in PopPcs PROVE frame[t].tail \in queued
    <3>1. pc[t] \in ListPcs \ LinkPcs
      BY <2>4 DEF ListPcs, LinkPcs, PopPcs
    <3>. QED BY <2>1, <2>4, <3>1, WorkerMarks DEF ListInv, Workers, Worker
  <2>. QED BY <2>1, <2>2, <2>3, <2>4 DEF NodesAlive, ListInv, Sleepers
<1>. QED BY <1>1, ListInvariant, PTL

\* link_prev_nodes! and remove_tail! find the list as the pushes left it: the word
\* points at the newest sleeper, next and prev lead from each to its neighbour,
\* and the newest processed node knows the oldest, although every push and every
\* scan leaves part of the links for a later one to fill in.
THEOREM ListIsRepresented == Spec => []ListRep
<1>1. ListSafe => ListRep
  <2> SUFFICES ASSUME ListSafe PROVE ListRep
    OBVIOUS
  <2>1. Order /\ Newest /\ Links /\ Marks
    BY DEF ListSafe, ListInv, List
  <2>2. ASSUME queued # {}
        PROVE  \E p \in Processed :
                 /\ \A q \in Processed : q = p \/ q \in ahead[p]
                 /\ node[p].queue_tail \in queued
                 /\ ahead[node[p].queue_tail] = {}
                 /\ \A t \in ahead[p] : node[t].prev \in queued /\ Follows(node[t].prev, t)
                 /\ \A t \in queued \ ahead[p] :
                      node[t].prev # Null =>
                        node[t].prev \in queued /\ Follows(node[t].prev, t)
    <3>1. PICK p \in queued : IsMark(p) /\ Marked(p)
      BY <2>1, <2>2 DEF Marks
    <3>2. p \in Processed /\ \A q \in Processed : q = p \/ q \in ahead[p]
      BY <3>1 DEF IsMark, IsProcessed, UpTo, Processed
    <3>3. \A t \in queued :
            node[t].prev # Null => node[t].prev \in queued /\ Follows(node[t].prev, t)
      BY <2>1 DEF Links, PrevLinked
    <3>4. \A t \in ahead[p] : t \in queued /\ node[t].prev # Null
      BY <2>1, <3>1 DEF Marked, Order
    <3>. QED BY <3>1, <3>2, <3>3, <3>4 DEF Marked
  <2>. QED BY <2>1, <2>2 DEF ListRep, Newest, Links, NextLinked
<1>. QED BY <1>1, ListInvariant, PTL

\* unlock wakes, and unlock_fair hands the lock to, the thread that has waited
\* longest, whatever was pushed while the list was scanned.
THEOREM OldestLeavesFirst == Spec => []PopsOldest
<1>1. ListSafe => PopsOldest
  <2> SUFFICES ASSUME ListSafe, NEW t \in Threads, pc[t] \in PopPcs
               PROVE  ahead[frame[t].tail] = {}
    BY DEF PopsOldest
  <2>1. pc[t] \in ListPcs \ LinkPcs
    BY DEF ListPcs, LinkPcs, PopPcs
  <2>. QED BY <2>1, WorkerMarks DEF ListSafe, ListInv, Workers, Worker
<1>. QED BY <1>1, ListInvariant, PTL

-----------------------------------------------------------------------------
(* The lock bit is never left behind. *)

SomeOwner == \E u \in Threads : Owns(u)
LockedOwned == Locked => SomeOwner

\* No step leaves the lock bit behind without an owner: a hand-off finds its
\* sleeper asleep.
LEMMA OwnedStep ==
  ListSafe /\ LockedOwned /\ [Next]_vars => LockedOwned'
<1> SUFFICES ASSUME ListSafe, LockedOwned, [Next]_vars PROVE LockedOwned'
  OBVIOUS
<1>1. /\ state \in Words
      /\ pc \in [Threads -> PcValues]
      /\ node \in [Threads -> ThreadDatas]
      /\ \A t \in Threads : frame[t].snap \in Words
  BY DEF ListSafe, TypeInv, TypeOK, Locals
<1>2. ASSUME Locked' => Locked, \A u \in Threads : Owns(u) => Owns(u)'
      PROVE  LockedOwned'
  BY <1>2 DEF LockedOwned, SomeOwner
<1>3. ASSUME NEW t \in Threads, Owns(t)' PROVE LockedOwned'
  BY <1>3 DEF LockedOwned, SomeOwner
<1> USE DEF Owns, OwnerPcs, FairPcs
<1>4. CASE UNCHANGED vars
  BY <1>2, <1>4 DEF vars, Locked
<1>5. ASSUME NEW t \in Threads,
             \/ LockContended(t) \/ IsLocked(t) \/ IsLockedReturn(t)
             \/ LockSlowLoad(t) \/ LockSlowSpin(t) \/ UnlockSlowLoad(t)
             \/ UnlockSlowReturn(t) \/ UnlockFairLoad(t)
      PROVE  LockedOwned'
  <2>1. \A u \in Threads : Owns(u) => Owns(u)'
    BY <1>1, <1>5
    DEF LockContended, IsLocked, IsLockedReturn, LockSlowLoad, LockSlowSpin,
        UnlockSlowLoad, UnlockSlowReturn, UnlockFairLoad, Goto, Return, NoListChange
  <2>2. UNCHANGED state
    BY <1>5
    DEF LockContended, IsLocked, IsLockedReturn, LockSlowLoad, LockSlowSpin,
        UnlockSlowLoad, UnlockSlowReturn, UnlockFairLoad
  <2>. QED BY <1>2, <2>1, <2>2 DEF Locked
<1>6. ASSUME NEW t \in Threads, TryLock(t) \/ UnlockFair(t) PROVE LockedOwned'
  <2>1. Owns(t)'
    BY <1>1, <1>6 DEF TryLock, UnlockFair, Goto
  <2>. QED BY <1>3, <2>1
<1>7. ASSUME NEW t \in Threads, LockSlowGrab(t) PROVE LockedOwned'
  <2>1. CASE Return(t, "held")
    BY <1>1, <1>3, <2>1 DEF Return
  <2>2. CASE UNCHANGED <<state, pc>>
    BY <1>2, <1>7, <2>2 DEF LockSlowGrab, NoListChange, Locked
  <2>. QED BY <1>7, <2>1, <2>2 DEF LockSlowGrab
<1>8. ASSUME NEW t \in Threads, LockSlowPark(t) PROVE LockedOwned'
  <2>1. Locked' => Locked
    BY <1>1, <1>8, SetHeadEffect DEF LockSlowPark, CasOk, Locked
  <2>2. \A u \in Threads : Owns(u) => Owns(u)'
    BY <1>1, <1>8 DEF LockSlowPark, Return, NoListChange
  <2>. QED BY <1>2, <2>1, <2>2
<1>9. ASSUME NEW t \in Threads, ParkReturn(t) PROVE LockedOwned'
  BY <1>1, <1>2, <1>9 DEF ParkReturn, Resume, Return, Locked
<1>10. ASSUME NEW t \in Threads, Unlock(t) \/ UnlockFairClear(t) PROVE LockedOwned'
  <2>1. ~Locked'
    BY <1>1, <1>10, WithoutBitsEffect DEF Unlock, UnlockFairClear, Locked, Bits
  <2>. QED BY <2>1 DEF LockedOwned
<1>11. ASSUME NEW t \in Threads, UnlockSlowTry(t) \/ UnlockFairTry(t) PROVE LockedOwned'
  <2>1. Locked' => Locked
    BY <1>1, <1>11, WithBitEffect, BitsDiffer
    DEF UnlockSlowTry, UnlockFairTry, CasOk, Locked
  <2>2. \A u \in Threads : Owns(u) => Owns(u)'
    BY <1>1, <1>11 DEF UnlockSlowTry, UnlockFairTry, NoListChange
  <2>. QED BY <1>2, <2>1, <2>2
<1>12. ASSUME NEW t \in Threads, LinkPrev(t) \/ LinkDone(t) PROVE LockedOwned'
  <2>1. \A u \in Threads : node'[u].unpark_token = node[u].unpark_token
    <3>1. \E x, v : \/ node' = [node EXCEPT ![x].prev = v]
                   \/ node' = [node EXCEPT ![x].queue_tail = v]
      BY <1>12 DEF LinkPrev, LinkDone
    <3>. QED BY <1>1, <3>1 DEF ThreadDatas
  <2>2. UNCHANGED state /\ \A u \in Threads : Owns(u) => Owns(u)'
    BY <1>1, <1>12, <2>1 DEF LinkPrev, LinkDone
  <2>. QED BY <1>2, <2>2 DEF Locked
<1>13. ASSUME NEW t \in Threads, UnlockSlowRelease(t) PROVE LockedOwned'
  <2>1. Locked' => Locked
    BY <1>1, <1>13, WithoutBitsEffect DEF UnlockSlowRelease, CasOk, Locked
  <2>2. \A u \in Threads : Owns(u) => Owns(u)'
    BY <1>1, <1>13 DEF UnlockSlowRelease, Return, Relink, NoListChange
  <2>. QED BY <1>2, <2>1, <2>2
<1>14. ASSUME NEW t \in Threads, UnlockSlowPopLast(t) \/ UnlockFairPopLast(t)
       PROVE  LockedOwned'
  <2>1. Locked' => Locked
    BY <1>1, <1>14 DEF UnlockSlowPopLast, UnlockFairPopLast, PopLast, CasOk, Locked
  <2>2. UNCHANGED node /\ \A u \in Threads : Owns(u) => Owns(u)'
    BY <1>1, <1>14
    DEF UnlockSlowPopLast, UnlockFairPopLast, PopLast, Relink, NoListChange
  <2>. QED BY <1>2, <2>1, <2>2
<1>15. ASSUME NEW t \in Threads, UnlockSlowPopMore(t) \/ UnlockFairPopMore(t)
       PROVE  LockedOwned'
  <2>1. Locked' => Locked
    BY <1>1, <1>15, WithoutBitsEffect
    DEF UnlockSlowPopMore, UnlockFairPopMore, PopMore, Locked
  <2>2. \A u \in Threads : node'[u].unpark_token = node[u].unpark_token
    <3>1. \E h, v : node' = [node EXCEPT ![h].queue_tail = v]
      BY <1>15 DEF UnlockSlowPopMore, UnlockFairPopMore, PopMore
    <3>. QED BY <1>1, <3>1 DEF ThreadDatas
  <2>3. \A u \in Threads : Owns(u) => Owns(u)'
    BY <1>1, <1>15, <2>2 DEF UnlockSlowPopMore, UnlockFairPopMore, PopMore, Goto
  <2>. QED BY <1>2, <2>1, <2>3
<1>16. ASSUME NEW t \in Threads, UnlockSlowWake(t) PROVE LockedOwned'
  <2>1. \A u \in Threads : node'[u].unpark_token = node[u].unpark_token
    BY <1>1, <1>16 DEF UnlockSlowWake, ThreadDatas
  <2>. QED BY <1>1, <1>2, <1>16, <2>1 DEF UnlockSlowWake, Return, Locked
<1>17. ASSUME NEW t \in Threads, UnlockFairWake(t) PROVE LockedOwned'
  <2>1. PICK v \in Threads : v = frame[t].tail /\ pc[v] = "parked"
    BY <1>17 DEF UnlockFairWake, ListSafe, ListInv, Sleepers, Asleep, WakePcs
  <2>2. pc'[v] = "parked"
    BY <1>1, <1>17, <2>1 DEF UnlockFairWake, Return
  <2>3. node'[v].unpark_token = TOKEN_HANDOFF
    BY <1>1, <1>17, <2>1 DEF UnlockFairWake, ThreadDatas
  <2>. QED BY <1>3, <2>2, <2>3
<1>. QED
  BY <1>4, <1>5, <1>6, <1>7, <1>8, <1>9, <1>10, <1>11, <1>12, <1>13, <1>14, <1>15, <1>16,
     <1>17
  DEF Next, Arrive, Continue

\* A mutex that says it is locked has an owner, for ever: a fair unlock hands the
\* lock to a thread that is asleep to receive it, and no exchange with an old copy
\* of the word brings the bit back.
THEOREM LockBitHasOwner == Spec => []LockedIffOwned
<1>1. Init => LockedOwned
  BY DEF Init, LockedOwned, Locked, IDLE
<1>2. LockedOwned /\ [Next]_vars /\ ListSafe => LockedOwned'
  BY OwnedStep
<1>3. MutualExclusion /\ LockedOwned => LockedIffOwned
  BY DEF MutualExclusion, LockedOwned, SomeOwner, Locked, LockedIffOwned
<1>. QED BY <1>1, <1>2, <1>3, ListInvariant, MutexIsExclusive, PTL DEF Spec

-----------------------------------------------------------------------------
(* Nobody sleeps unaccounted for. *)

\* t is about to tell u to wake up.
TakenOff(u) == \E t \in Threads : pc[t] \in WakePcs /\ frame[t].tail = u

\* Whoever sleeps is on the list, or was taken off it by a thread that is about to
\* tell it, or has been told; the hand-off token comes with the telling.
Accounted ==
  \A u \in Threads : pc[u] = "parked" =>
    /\ u \in queued \/ node[u].notified \/ TakenOff(u)
    /\ node[u].unpark_token = TOKEN_HANDOFF => node[u].notified

\* A step that moves nobody between the three leaves nobody out.
LEMMA AccountedAlone ==
  ASSUME Accounted, NEW t \in Threads, queued \subseteq queued',
         \A u \in Threads \ {t} : /\ pc'[u] = pc[u] /\ frame'[u] = frame[u]
                                  /\ node'[u].notified = node[u].notified
                                  /\ node'[u].unpark_token = node[u].unpark_token,
         pc[t] \notin WakePcs,
         pc'[t] = "parked" => t \in queued' /\ node'[t].unpark_token # TOKEN_HANDOFF
  PROVE  Accounted'
BY DEF Accounted, TakenOff, WakePcs

LEMMA AccountedStep ==
  ListSafe /\ Accounted /\ [Next]_vars => Accounted'
<1> SUFFICES ASSUME ListSafe, Accounted, [Next]_vars PROVE Accounted'
  OBVIOUS
<1>1. /\ pc \in [Threads -> PcValues]
      /\ frame \in [Threads -> Locals]
      /\ node \in [Threads -> ThreadDatas]
  BY DEF ListSafe, TypeInv, TypeOK
<1>2. CASE UNCHANGED vars
  BY <1>2 DEF vars, Accounted, TakenOff
<1>3. ASSUME NEW t \in Threads, UNCHANGED <<node, queued>>,
             \A u \in Threads \ {t} : pc'[u] = pc[u] /\ frame'[u] = frame[u],
             pc[t] \notin WakePcs, pc'[t] # "parked"
      PROVE  Accounted'
  BY <1>3, AccountedAlone
<1>4. ASSUME NEW t \in Threads,
             \/ TryLock(t) \/ LockContended(t) \/ IsLocked(t) \/ IsLockedReturn(t)
             \/ LockSlowLoad(t) \/ LockSlowSpin(t) \/ LockSlowGrab(t)
             \/ Unlock(t) \/ UnlockFair(t) \/ UnlockFairClear(t)
             \/ UnlockSlowLoad(t) \/ UnlockSlowReturn(t) \/ UnlockFairLoad(t)
      PROVE  Accounted'
  <2>1. /\ \A u \in Threads \ {t} : pc'[u] = pc[u] /\ frame'[u] = frame[u]
        /\ pc[t] \notin WakePcs /\ pc'[t] # "parked"
    BY <1>1, <1>4
    DEF TryLock, LockContended, IsLocked, IsLockedReturn, LockSlowLoad, LockSlowSpin,
        LockSlowGrab, Unlock, UnlockFair, UnlockFairClear, UnlockSlowLoad,
        UnlockSlowReturn, UnlockFairLoad, Goto, Return, Load, CasErr, WakePcs
  <2>2. UNCHANGED <<node, queued>>
    BY <1>4
    DEF TryLock, LockContended, IsLocked, IsLockedReturn, LockSlowLoad, LockSlowSpin,
        LockSlowGrab, Unlock, UnlockFair, UnlockFairClear, UnlockSlowLoad,
        UnlockSlowReturn, UnlockFairLoad, NoListChange
  <2>. QED BY <1>3, <2>1, <2>2
<1>5. ASSUME NEW t \in Threads,
             UnlockSlowTry(t) \/ UnlockFairTry(t) \/ UnlockSlowRelease(t)
      PROVE  Accounted'
  <2>1. /\ \A u \in Threads \ {t} : pc'[u] = pc[u] /\ frame'[u] = frame[u]
        /\ pc[t] \notin WakePcs /\ pc'[t] # "parked"
    BY <1>1, <1>5
    DEF UnlockSlowTry, UnlockFairTry, UnlockSlowRelease, Return, Relink, Load, CasErr,
        WakePcs
  <2>2. UNCHANGED <<node, queued>>
    BY <1>5 DEF UnlockSlowTry, UnlockFairTry, UnlockSlowRelease, NoListChange
  <2>. QED BY <1>3, <2>1, <2>2
<1>6. ASSUME NEW t \in Threads, LockSlowPark(t) PROVE Accounted'
  <2>1. CASE CasErr(t) /\ UNCHANGED <<state, pc>> /\ NoListChange
    <3>1. /\ \A u \in Threads \ {t} : pc'[u] = pc[u] /\ frame'[u] = frame[u]
          /\ pc[t] \notin WakePcs /\ pc'[t] # "parked"
      BY <1>1, <1>6, <2>1 DEF LockSlowPark, CasErr, Load, WakePcs
    <3>. QED BY <1>3, <2>1, <3>1 DEF NoListChange
  <2>2. CASE /\ node' = [node EXCEPT ![t] = PushedNode(t, frame[t].snap.head)]
             /\ queued' = queued \union {t}
             /\ Return(t, "parked")
    <3>1. \A u \in Threads \ {t} : /\ pc'[u] = pc[u] /\ frame'[u] = frame[u]
                                   /\ node'[u] = node[u]
      BY <1>1, <2>2 DEF Return
    <3>2. node'[t].unpark_token # TOKEN_HANDOFF
      BY <1>1, <2>2 DEF PushedNode, NewThreadData, TOKEN_NORMAL, TOKEN_HANDOFF
    <3>3. pc[t] \notin WakePcs
      BY <1>6 DEF LockSlowPark, WakePcs
    <3>. QED BY <2>2, <3>1, <3>2, <3>3, AccountedAlone
  <2>. QED BY <1>6, <2>1, <2>2 DEF LockSlowPark
<1>7. ASSUME NEW t \in Threads, ParkReturn(t) PROVE Accounted'
  <2>1. /\ \A u \in Threads \ {t} : /\ pc'[u] = pc[u] /\ frame'[u] = frame[u]
                                    /\ node'[u] = node[u]
        /\ pc[t] \notin WakePcs /\ pc'[t] # "parked" /\ queued' = queued
    BY <1>1, <1>7 DEF ParkReturn, Resume, Return, WakePcs
  <2>. QED BY <2>1, AccountedAlone
<1>8. ASSUME NEW t \in Threads, LinkPrev(t) \/ LinkDone(t) PROVE Accounted'
  <2>1. \A u \in Threads : /\ node'[u].notified = node[u].notified
                           /\ node'[u].unpark_token = node[u].unpark_token
    <3>1. \E x, v : \/ node' = [node EXCEPT ![x].prev = v]
                    \/ node' = [node EXCEPT ![x].queue_tail = v]
      BY <1>8 DEF LinkPrev, LinkDone
    <3>. QED BY <1>1, <3>1 DEF ThreadDatas
  <2>2. /\ \A u \in Threads \ {t} : pc'[u] = pc[u] /\ frame'[u] = frame[u]
        /\ pc[t] \notin WakePcs /\ pc'[t] # "parked" /\ queued' = queued
    BY <1>1, <1>8 DEF LinkPrev, LinkDone, WakePcs
  <2>. QED BY <2>1, <2>2, AccountedAlone
<1>9. ASSUME NEW t \in Threads, Dequeue(t), UNCHANGED frame, pc[t] \notin WakePcs,
             pc' = [pc EXCEPT ![t] = pc'[t]], pc'[t] \in WakePcs,
             \A u \in Threads : /\ node'[u].notified = node[u].notified
                                /\ node'[u].unpark_token = node[u].unpark_token
      PROVE  Accounted'
  <2>1. /\ \A u \in Threads \ {t} : pc'[u] = pc[u]
        /\ queued' = queued \ {frame[t].tail} /\ pc'[t] # "parked"
    BY <1>1, <1>9 DEF Dequeue, WakePcs
  <2>2. TakenOff(frame[t].tail)'
    BY <1>9 DEF TakenOff
  <2>3. \A u \in Threads : TakenOff(u) => TakenOff(u)'
    BY <1>9, <2>1 DEF TakenOff
  <2>. QED BY <1>9, <2>1, <2>2, <2>3 DEF Accounted
<1>10. ASSUME NEW t \in Threads, NEW from, from \notin WakePcs \union {"parked"},
              NEW link, link # "parked", NEW wake \in WakePcs, NEW kept, PopLast(t, from, link, wake, kept)
       PROVE  Accounted'
  <2>1. CASE /\ pc' = [pc EXCEPT ![t] = wake] /\ Dequeue(t)
             /\ UNCHANGED <<frame, node>>
    <3>1. pc'[t] = wake /\ pc[t] \notin WakePcs
      BY <1>1, <1>10, <2>1 DEF PopLast
    <3>. QED BY <1>9, <2>1, <3>1
  <2>2. CASE NoListChange /\ (Relink(t, link) \/ (Load(t) /\ UNCHANGED pc))
    <3>1. /\ \A u \in Threads \ {t} : pc'[u] = pc[u] /\ frame'[u] = frame[u]
          /\ pc[t] \notin WakePcs
      BY <1>1, <1>10, <2>2 DEF PopLast, Relink, Load
    <3>2. pc'[t] # "parked"
      BY <1>1, <1>10, <2>2 DEF PopLast, Relink, Load
    <3>. QED BY <1>3, <2>2, <3>1, <3>2 DEF NoListChange
  <2>. QED BY <1>10, <2>1, <2>2 DEF PopLast
<1>11. ASSUME NEW t \in Threads, NEW from, from \notin WakePcs, NEW wake \in WakePcs,
              NEW cleared, PopMore(t, from, wake, cleared)
       PROVE  Accounted'
  <2>1. \A u \in Threads : /\ node'[u].notified = node[u].notified
                           /\ node'[u].unpark_token = node[u].unpark_token
    <3>1. \E h, v : node' = [node EXCEPT ![h].queue_tail = v]
      BY <1>11 DEF PopMore
    <3>. QED BY <1>1, <3>1 DEF ThreadDatas
  <2>2. /\ pc' = [pc EXCEPT ![t] = pc'[t]] /\ pc'[t] \in WakePcs /\ pc[t] \notin WakePcs
        /\ Dequeue(t) /\ UNCHANGED frame
    BY <1>1, <1>11 DEF PopMore, Goto
  <2>. QED BY <1>9, <2>1, <2>2
<1>12. ASSUME NEW t \in Threads,
              \/ UnlockSlowPopLast(t) \/ UnlockFairPopLast(t)
              \/ UnlockSlowPopMore(t) \/ UnlockFairPopMore(t)
       PROVE  Accounted'
  <2>1. /\ {"us_pop_last", "usf_pop_last"} \intersect (WakePcs \union {"parked"}) = {}
        /\ {"us_pop_more", "usf_pop_more"} \intersect WakePcs = {}
        /\ "us_wake" \in WakePcs /\ "usf_wake" \in WakePcs
        /\ "us_link" # "parked" /\ "usf_link" # "parked"
    BY DEF WakePcs
  <2>2. CASE UnlockSlowPopLast(t)
    BY <1>10, <2>1, <2>2 DEF UnlockSlowPopLast
  <2>3. CASE UnlockFairPopLast(t)
    BY <1>10, <2>1, <2>3 DEF UnlockFairPopLast
  <2>4. CASE UnlockSlowPopMore(t) \/ UnlockFairPopMore(t)
    BY <1>11, <2>1, <2>4 DEF UnlockSlowPopMore, UnlockFairPopMore
  <2>. QED BY <1>12, <2>2, <2>3, <2>4
<1>13. ASSUME NEW t \in Threads, UnlockSlowWake(t) \/ UnlockFairWake(t) PROVE Accounted'
  <2>1. PICK v \in Threads : v = frame[t].tail
    BY <1>13
    DEF ListSafe, ListInv, Sleepers, Asleep, UnlockSlowWake, UnlockFairWake, WakePcs
  <2>2. /\ \A u \in Threads \ {t} : pc'[u] = pc[u] /\ frame'[u] = frame[u]
        /\ pc'[t] # "parked" /\ queued' = queued
    BY <1>1, <1>13 DEF UnlockSlowWake, UnlockFairWake, Return
  <2>3. node'[v].notified /\ \A u \in Threads \ {v} : node'[u] = node[u]
    BY <1>1, <1>13, <2>1 DEF UnlockSlowWake, UnlockFairWake, ThreadDatas
  <2>4. \A u \in Threads \ {v} : TakenOff(u) => TakenOff(u)'
    BY <2>1, <2>2 DEF TakenOff
  <2>. QED BY <2>2, <2>3, <2>4 DEF Accounted
<1>. QED
  BY <1>2, <1>4, <1>5, <1>6, <1>7, <1>8, <1>12, <1>13 DEF Next, Arrive, Continue

\* Whoever goes to sleep in lock can be found again: it is on the list until an
\* unlocker takes it off, and that unlocker has it in hand until it has told it;
\* no push, scan or empty word lets a sleeper drop out unnoticed.
THEOREM NoSleeperIsLost == Spec => []Accounted
<1>1. Init => Accounted
  BY DEF Init, Accounted
<1>. QED BY <1>1, AccountedStep, ListInvariant, PTL DEF Spec

-----------------------------------------------------------------------------
(* No lost wake-up. *)

\* t is not about to leave because of an old copy of the word.
Responsible(t) ==
  /\ Active(t)
  /\ ~(pc[t] = "us_try" /\ NothingToWake(frame[t].snap))

Served ==
  /\ ~Locked /\ queued # {} => \E t \in Threads : Responsible(t)
  /\ \A t \in Threads : pc[t] = "us_release" => LOCKED_BIT \in frame[t].snap.flags

\* Whoever leaves the queue to the thread that works on it can rely on that thread.
LEMMA LeftToAnother ==
  ASSUME ListSafe, NEW t \in Threads, pc[t] \notin QueueLockPcs, NothingToWake(state),
         UNCHANGED queued, queued # {},
         \A u \in Threads \ {t} : pc'[u] = pc[u] /\ frame'[u] = frame[u]
  PROVE  \E u \in Threads : Responsible(u)'
<1>1. is_queue_locked(state)
  BY DEF NothingToWake, ListSafe, ListInv, List, Newest
<1>2. PICK u \in Threads : pc[u] \in QueueLockPcs /\ u # t
  BY <1>1 DEF ListSafe, QueueLockExclusive
<1>. QED BY <1>2 DEF Responsible, Active, QueueLockPcs

\* No step leaves a free mutex with sleepers whom nobody will wake.
LEMMA ServedStep ==
  ListSafe /\ FairReleaseFindsSleeper /\ Served /\ [Next]_vars => Served'
<1> SUFFICES ASSUME ListSafe, FairReleaseFindsSleeper, Served, [Next]_vars PROVE Served'
  OBVIOUS
<1>1. /\ state \in Words
      /\ pc \in [Threads -> PcValues]
      /\ frame \in [Threads -> Locals]
      /\ node \in [Threads -> ThreadDatas]
      /\ \A t \in Threads : frame[t].snap \in Words
  BY DEF ListSafe, TypeInv, TypeOK, Locals
<1>2. ASSUME NEW t \in Threads,
             \A u \in Threads \ {t} : pc'[u] = pc[u] /\ frame'[u] = frame[u],
             pc'[t] # "us_release",
             Locked' \/ queued' = {} \/ \E u \in Threads : Responsible(u)'
      PROVE  Served'
  BY <1>2 DEF Served
<1>3. CASE UNCHANGED vars
  BY <1>3 DEF vars, Served, Responsible, Active, Locked
<1>4. ASSUME NEW t \in Threads,
             \/ TryLock(t) \/ LockContended(t) \/ LockSlowLoad(t) \/ LockSlowSpin(t)
             \/ LockSlowGrab(t) \/ ParkReturn(t) \/ UnlockFair(t) \/ UnlockFairLoad(t)
             \/ UnlockFairTry(t)
      PROVE  Served'
  <2>1. /\ \A u \in Threads \ {t} : pc'[u] = pc[u] /\ frame'[u] = frame[u]
        /\ pc'[t] \in {"held", "lock_slow", "lock_loop", "usf_load", "fair_clear",
                       "usf_try", "usf_empty", "usf_link"}
    BY <1>1, <1>4
    DEF TryLock, LockContended, LockSlowLoad, LockSlowSpin, LockSlowGrab, ParkReturn,
        Resume, UnlockFair, UnlockFairLoad, UnlockFairTry, Goto, Return, Load, CasErr
  <2>2. Responsible(t)'
    BY <2>1 DEF Responsible, Active
  <2>. QED BY <1>2, <2>1, <2>2
<1>5. ASSUME NEW t \in Threads, IsLocked(t) \/ IsLockedReturn(t) \/ UnlockSlowReturn(t)
      PROVE  Served'
  <2>1. /\ \A u \in Threads \ {t} : pc'[u] = pc[u] /\ frame'[u] = frame[u]
        /\ pc'[t] \in {"idle", "said_locked"} /\ UNCHANGED <<state, node, queued>>
        /\ ~Responsible(t)
    BY <1>1, <1>5
    DEF IsLocked, IsLockedReturn, UnlockSlowReturn, Goto, Return, NoListChange,
        Responsible, Active
  <2>2. \A u \in Threads : Responsible(u) => Responsible(u)'
    BY <2>1 DEF Responsible, Active
  <2>. QED BY <2>1, <2>2 DEF Served, Locked
<1>6. ASSUME NEW t \in Threads, LockSlowPark(t) PROVE Served'
  <2>1. /\ \A u \in Threads \ {t} : pc'[u] = pc[u] /\ frame'[u] = frame[u]
        /\ pc'[t] \in {"parked", "lock_loop"}
    BY <1>1, <1>6 DEF LockSlowPark, Return, Load, CasErr
  <2>2. pc'[t] = "parked" => Locked'
    BY <1>1, <1>6, SetHeadEffect DEF LockSlowPark, CasOk, Locked
  <2>3. pc'[t] = "lock_loop" => Responsible(t)'
    BY DEF Responsible, Active
  <2>. QED BY <1>2, <2>1, <2>2, <2>3
<1>7. ASSUME NEW t \in Threads, Unlock(t) \/ UnlockFairClear(t) PROVE Served'
  <2>1. /\ \A u \in Threads \ {t} : pc'[u] = pc[u] /\ frame'[u] = frame[u]
        /\ pc'[t] \in {"idle", "us_load"} /\ pc[t] \notin QueueLockPcs
        /\ pc'[t] = "idle" => NothingToWake(state)
        /\ UNCHANGED queued
    BY <1>1, <1>7
    DEF Unlock, UnlockFairClear, Goto, Return, NoListChange, QueueLockPcs,
        FairReleaseFindsSleeper
  <2>2. pc'[t] = "us_load" => Responsible(t)'
    BY DEF Responsible, Active
  <2>3. pc'[t] = "idle" /\ queued # {} => \E u \in Threads : Responsible(u)'
    BY <2>1, LeftToAnother
  <2>. QED BY <1>2, <2>1, <2>2, <2>3
<1>8. ASSUME NEW t \in Threads, UnlockSlowLoad(t) \/ UnlockSlowTry(t) PROVE Served'
  <2>1. /\ \A u \in Threads \ {t} : pc'[u] = pc[u] /\ frame'[u] = frame[u]
        /\ pc'[t] \in {"us_try", "us_link"} /\ pc[t] \notin QueueLockPcs
        /\ pc'[t] = "us_try" => frame'[t].snap = state
        /\ UNCHANGED queued
    BY <1>1, <1>8
    DEF UnlockSlowLoad, UnlockSlowTry, Goto, Load, CasErr, NoListChange, QueueLockPcs,
        Locals
  <2>2. ~(pc'[t] = "us_try" /\ NothingToWake(state)) => Responsible(t)'
    BY <2>1 DEF Responsible, Active, NothingToWake, is_queue_locked
  <2>3. NothingToWake(state) /\ queued # {} => \E u \in Threads : Responsible(u)'
    BY <2>1, LeftToAnother
  <2>. QED BY <1>2, <2>1, <2>2, <2>3
<1>9. ASSUME NEW t \in Threads, LinkPrev(t) \/ LinkDone(t) PROVE Served'
  <2>1. /\ \A u \in Threads \ {t} : pc'[u] = pc[u] /\ frame'[u] = frame[u]
        /\ pc'[t] \in LinkPcs \union PopPcs \union {"us_release"}
        /\ pc'[t] = "us_release" => LOCKED_BIT \in frame'[t].snap.flags
    BY <1>1, <1>9 DEF LinkPrev, LinkDone, LinkPcs, PopPcs, LeaveToOwner, Locals
  <2>2. Responsible(t)'
    BY <2>1 DEF Responsible, Active, LinkPcs, PopPcs
  <2>. QED BY <2>1, <2>2 DEF Served
<1>10. ASSUME NEW t \in Threads, UnlockSlowRelease(t) PROVE Served'
  <2>1. /\ \A u \in Threads \ {t} : pc'[u] = pc[u] /\ frame'[u] = frame[u]
        /\ pc'[t] \in {"idle", "us_link"}
    BY <1>1, <1>10 DEF UnlockSlowRelease, Return, Relink
  <2>2. pc'[t] = "idle" => Locked'
    BY <1>1, <1>10, WithoutBitsEffect, BitsDiffer
    DEF UnlockSlowRelease, CasOk, Relink, Locked, Served
  <2>3. pc'[t] = "us_link" => Responsible(t)'
    BY DEF Responsible, Active
  <2>. QED BY <1>2, <2>1, <2>2, <2>3
<1>11. ASSUME NEW t \in Threads,
              \/ UnlockSlowPopLast(t) \/ UnlockFairPopLast(t)
              \/ UnlockSlowPopMore(t) \/ UnlockFairPopMore(t)
       PROVE  Served'
  <2>1. /\ \A u \in Threads \ {t} : pc'[u] = pc[u] /\ frame'[u] = frame[u]
        /\ pc'[t] \in LinkPcs \union PopPcs \union WakePcs
    BY <1>1, <1>11
    DEF UnlockSlowPopLast, UnlockFairPopLast, UnlockSlowPopMore, UnlockFairPopMore,
        PopLast, PopMore, Goto, Load, Relink, LinkPcs, PopPcs, WakePcs
  <2>2. Responsible(t)' /\ pc'[t] # "us_release"
    BY <2>1 DEF Responsible, Active, LinkPcs, PopPcs, WakePcs
  <2>. QED BY <1>2, <2>1, <2>2
<1>12. ASSUME NEW t \in Threads, UnlockSlowWake(t) \/ UnlockFairWake(t) PROVE Served'
  <2>1. /\ \A u \in Threads \ {t} : pc'[u] = pc[u] /\ frame'[u] = frame[u]
        /\ pc[t] \in WakePcs /\ pc'[t] = "idle"
    BY <1>1, <1>12 DEF UnlockSlowWake, UnlockFairWake, Return, WakePcs
  <2>2. PICK v \in Threads : v = frame[t].tail /\ pc[v] = "parked"
    BY <2>1 DEF ListSafe, ListInv, Sleepers, Asleep
  <2>3. pc'[v] = "parked" /\ node'[v].notified
    <3>1. v # t
      BY <2>1, <2>2 DEF WakePcs
    <3>2. node'[v].notified
      BY <1>1, <1>12, <2>2 DEF UnlockSlowWake, UnlockFairWake, ThreadDatas
    <3>. QED BY <2>1, <2>2, <3>1, <3>2
  <2>4. Responsible(v)'
    BY <2>3 DEF Responsible, Active
  <2>. QED BY <1>2, <2>1, <2>4
<1>. QED
  BY <1>3, <1>4, <1>5, <1>6, <1>7, <1>8, <1>9, <1>10, <1>11, <1>12
  DEF Next, Arrive, Continue

\* An unlock that leaves without waking anybody, because its copy of the word says
\* that there is nobody or that another thread is at work, never leaves sleepers
\* behind on a free mutex: somebody is awake in lock or unlock, or was told to be.
THEOREM NobodyIsStranded == Spec => []NoStrandedWaiter
<1>1. Init => Served
  BY DEF Init, Served
<1>2. ListSafe /\ FairReleaseFindsSleeper /\ Served /\ [Next]_vars => Served'
  BY ServedStep
<1>3. Served => NoStrandedWaiter
  BY DEF Served, Responsible, NoStrandedWaiter, Locked
<1>. QED
  BY <1>1, <1>2, <1>3, ListInvariant, FairReleaseAlwaysHandsOver, PTL DEF Spec

-----------------------------------------------------------------------------
(* The mutex implements MutexSpec. *)

Waking(t) == pc[t] = "usf_wake"

\* Who the owner is, seen from outside.
OwnerKnown ==
  /\ \A t \in Threads : Waking(t) => owner = frame[t].tail
  /\ \A t \in Threads : Owns(t) /\ ~Waking(t) => owner = t
  /\ ~SomeOwner => owner = Null

\* There is no more than one thread to choose from.
LEMMA ChoosesOwner == MutualExclusion => OwnerKnown
<1> SUFFICES ASSUME MutualExclusion PROVE OwnerKnown
  OBVIOUS
<1>1. \A t \in Threads : Waking(t) => Owns(t)
  BY DEF Waking, Owns, OwnerPcs
<1>2. \A t, u \in Threads : Owns(t) /\ Owns(u) => t = u
  BY DEF MutualExclusion
<1>3. ASSUME NEW t \in Threads, Waking(t) PROVE owner = frame[t].tail
  <2>1. (CHOOSE u \in Threads : Waking(u)) = t
    BY <1>1, <1>2, <1>3
  <2>. QED BY <1>3, <2>1 DEF owner, Waking
<1>4. ASSUME NEW t \in Threads, Owns(t), ~Waking(t) PROVE owner = t
  <2>1. \A u \in Threads : ~Waking(u)
    BY <1>1, <1>2, <1>4
  <2>2. (CHOOSE u \in Threads : Owns(u)) = t
    BY <1>2, <1>4
  <2>. QED BY <1>4, <2>1, <2>2 DEF owner, Waking
<1>5. ~SomeOwner => owner = Null
  BY <1>1 DEF owner, Waking, SomeOwner
<1>. QED BY <1>3, <1>4, <1>5 DEF OwnerKnown

\* Everything that the refinement needs to know of a state.
RefInv ==
  ListSafe /\ MutualExclusion /\ LockedOwned /\ FairReleaseFindsSleeper /\ OwnerKnown

\* The line stays, and so does the owner.
SeenFromOutside == UNCHANGED <<owner, queued, ahead>>

\* A step that changes neither the owners nor what a thread with a hand-off under
\* way is about to do is not seen from outside.
LEMMA NotSeen ==
  ASSUME OwnerKnown, OwnerKnown', UNCHANGED <<queued, ahead>>,
         \A u \in Threads : Owns(u)' <=> Owns(u),
         \A u \in Threads : Waking(u)' <=> Waking(u),
         \A u \in Threads : Waking(u) => frame'[u] = frame[u]
  PROVE  SeenFromOutside
<1>1. CASE \E u \in Threads : Owns(u) /\ Waking(u)
  BY <1>1 DEF OwnerKnown, SeenFromOutside
<1>2. CASE \E u \in Threads : Owns(u) /\ ~Waking(u)
  BY <1>2 DEF OwnerKnown, SeenFromOutside
<1>3. CASE ~SomeOwner
  BY <1>3 DEF OwnerKnown, SeenFromOutside, SomeOwner
<1>. QED BY <1>1, <1>2, <1>3 DEF SomeOwner

\* The owner of a lock that is not free is awake in a call or asleep with a
\* hand-off, and in any case somebody.
LEMMA OwnerIsThread ==
  ASSUME RefInv, SomeOwner
  PROVE  /\ owner \in Threads
         /\ \A t \in Threads : ~Owns(t) /\ pc[t] # "parked" => owner # t
<1>1. PICK u \in Threads : Owns(u)
  BY DEF SomeOwner
<1>2. CASE Waking(u)
  <2>1. owner = frame[u].tail /\ Asleep(frame[u].tail)
    BY <1>2 DEF RefInv, OwnerKnown, ListSafe, ListInv, Sleepers, Waking, WakePcs
  <2>. QED BY <2>1 DEF Asleep
<1>3. CASE ~Waking(u)
  BY <1>1, <1>3 DEF RefInv, OwnerKnown
<1>. QED BY <1>2, <1>3

\* A thread that takes a free lock was not asleep in the line.
LEMMA AcquireSeen ==
  ASSUME RefInv, OwnerKnown', NEW t \in Threads, ~Locked, ~Owns(t), pc[t] # "parked",
         Owns(t)', ~Waking(t)', UNCHANGED <<queued, ahead>>
  PROVE  M!Acquire(t)
<1>1. ~SomeOwner
  BY DEF RefInv, MutualExclusion, SomeOwner, Locked
<1>2. t \notin queued
  BY DEF RefInv, ListSafe, ListInv, Sleepers, Asleep
<1>. QED BY <1>1, <1>2 DEF RefInv, OwnerKnown, M!Acquire

\* The owner of the lock gives it up.
LEMMA ReleaseSeen ==
  ASSUME RefInv, OwnerKnown', NEW t \in Threads, GivesUpLock(t), ~Waking(t),
         UNCHANGED <<queued, ahead>>
  PROVE  M!Release(t)
<1>1. owner = t
  BY DEF RefInv, OwnerKnown, GivesUpLock
<1>2. \A u \in Threads : ~Owns(u)'
  BY DEF RefInv, MutualExclusion, GivesUpLock
<1>. QED BY <1>1, <1>2 DEF OwnerKnown, SomeOwner, M!Release

\* The thread at the end of the list leaves the line.
LEMMA PopSeen ==
  ASSUME RefInv, OwnerKnown', NEW t \in Threads, pc[t] \in PopPcs, Dequeue(t),
         UNCHANGED frame, pc' = [pc EXCEPT ![t] = pc'[t]], pc'[t] \in WakePcs,
         Waking(t)' <=> pc[t] \in FairPcs,
         \A u \in Threads : node'[u].unpark_token = node[u].unpark_token
  PROVE  M!Next
<1>1. /\ pc \in [Threads -> PcValues] /\ queued \subseteq Threads
      /\ frame[t].tail \in queued /\ ahead[frame[t].tail] = {}
  <2>1. pc[t] \in ListPcs \ LinkPcs
    BY DEF ListPcs, LinkPcs, PopPcs
  <2>. QED
    BY <2>1, WorkerMarks DEF RefInv, ListSafe, ListInv, Workers, Worker, TypeInv, TypeOK
<1>2. M!LeaveLine(frame[t].tail)
  BY <1>1 DEF M!LeaveLine, Dequeue
<1>3. \A u \in Threads \ {t} : pc'[u] = pc[u]
  BY <1>1
<1>4. CASE pc[t] \in FairPcs
  <2>1. owner = t
    BY <1>4 DEF RefInv, OwnerKnown, Owns, OwnerPcs, Waking, PopPcs
  <2>2. owner' = frame[t].tail
    BY <1>4 DEF OwnerKnown, Waking
  <2>3. M!HandOff(t, frame[t].tail)
    BY <1>2, <2>1, <2>2 DEF M!HandOff
  <2>. QED BY <1>1, <2>3 DEF M!Next
<1>5. CASE pc[t] \notin FairPcs
  <2>1. pc[t] \notin OwnerPcs /\ pc'[t] \notin OwnerPcs
        /\ pc[t] # "parked" /\ pc'[t] # "parked" /\ ~Waking(t) /\ ~Waking(t)'
    BY <1>5 DEF PopPcs, OwnerPcs, Waking, WakePcs, FairPcs
  <2>2. \A u \in Threads : (Owns(u)' <=> Owns(u)) /\ (Waking(u)' <=> Waking(u))
    BY <1>3, <2>1 DEF Owns, Waking
  <2>3. UNCHANGED owner
    <3>1. CASE \E u \in Threads : Owns(u) /\ Waking(u)
      BY <2>2, <3>1 DEF RefInv, OwnerKnown
    <3>2. CASE \E u \in Threads : Owns(u) /\ ~Waking(u)
      BY <2>2, <3>2 DEF RefInv, OwnerKnown
    <3>3. CASE ~SomeOwner
      BY <2>2, <3>3 DEF RefInv, OwnerKnown, SomeOwner
    <3>. QED BY <3>1, <3>2, <3>3 DEF SomeOwner
  <2>4. M!WakeOldest(frame[t].tail)
    BY <1>2, <2>3 DEF M!WakeOldest
  <2>. QED BY <1>1, <2>4 DEF M!Next
<1>. QED BY <1>4, <1>5

\* Every step of the mutex is a step of MutexSpec, or is not seen from outside.
LEMMA MutexRefinementStep ==
  RefInv /\ OwnerKnown' /\ [Next]_vars => [M!Next]_(M!vars)
<1> SUFFICES ASSUME RefInv, OwnerKnown', [Next]_vars PROVE M!Next \/ SeenFromOutside
  BY DEF M!vars, SeenFromOutside
<1>1. /\ state \in Words
      /\ pc \in [Threads -> PcValues]
      /\ node \in [Threads -> ThreadDatas]
      /\ frame \in [Threads -> Locals]
      /\ \A t \in Threads : frame[t].snap \in Words
      /\ OwnerKnown
  BY DEF RefInv, ListSafe, TypeInv, TypeOK, Locals
<1>. DEFINE Shown == M!Next \/ SeenFromOutside
<1>2. CASE UNCHANGED vars
  BY <1>1, <1>2, NotSeen DEF vars, Owns, Waking
<1>3. ASSUME NEW t \in Threads, TryLock(t) PROVE Shown
  <2>1. ~Locked
    BY <1>3, InitialTypes DEF TryLock, Locked, IDLE
  <2>2. /\ ~Owns(t) /\ pc[t] # "parked" /\ Owns(t)' /\ ~Waking(t)'
        /\ UNCHANGED <<queued, ahead>>
    BY <1>1, <1>3 DEF TryLock, Goto, NoListChange, Owns, OwnerPcs, FairPcs, Waking
  <2>. QED BY <2>1, <2>2, AcquireSeen DEF M!Next
<1>4. ASSUME NEW t \in Threads, LockSlowGrab(t) PROVE Shown
  <2>1. CASE CasOk(t, with_bit(frame[t].snap, LOCKED_BIT)) /\ Return(t, "held")
    <3>1. ~Locked
      BY <1>4, <2>1 DEF LockSlowGrab, CasOk, Locked
    <3>2. /\ ~Owns(t) /\ pc[t] # "parked" /\ Owns(t)' /\ ~Waking(t)'
          /\ UNCHANGED <<queued, ahead>>
      BY <1>1, <1>4, <2>1
      DEF LockSlowGrab, Return, NoListChange, Owns, OwnerPcs, FairPcs, Waking
    <3>. QED BY <3>1, <3>2, AcquireSeen DEF M!Next
  <2>2. CASE CasErr(t) /\ UNCHANGED <<state, pc>>
    <3>1. /\ \A u \in Threads : (Owns(u)' <=> Owns(u)) /\ (Waking(u)' <=> Waking(u))
          /\ \A u \in Threads : Waking(u) => frame'[u] = frame[u]
          /\ UNCHANGED <<queued, ahead>>
      BY <1>1, <1>4, <2>2 DEF LockSlowGrab, NoListChange, Owns, Waking, CasErr, Load
    <3>. QED BY <1>1, <3>1, NotSeen
  <2>. QED BY <1>4, <2>1, <2>2 DEF LockSlowGrab
<1>5. ASSUME NEW t \in Threads,
             \/ LockContended(t) \/ IsLocked(t) \/ IsLockedReturn(t)
             \/ LockSlowLoad(t) \/ LockSlowSpin(t) \/ UnlockFair(t)
             \/ UnlockSlowLoad(t) \/ UnlockSlowReturn(t) \/ UnlockFairLoad(t)
      PROVE  Shown
  <2>1. /\ \A u \in Threads : (Owns(u)' <=> Owns(u)) /\ (Waking(u)' <=> Waking(u))
        /\ \A u \in Threads : Waking(u) => frame'[u] = frame[u]
        /\ UNCHANGED <<queued, ahead>>
    BY <1>1, <1>5
    DEF LockContended, IsLocked, IsLockedReturn, LockSlowLoad, LockSlowSpin, UnlockFair,
        UnlockSlowLoad, UnlockSlowReturn, UnlockFairLoad, Goto, Return, Load,
        NoListChange, Owns, OwnerPcs, FairPcs, Waking
  <2>. QED BY <1>1, <2>1, NotSeen
<1>6. ASSUME NEW t \in Threads, LockSlowPark(t) PROVE Shown
  <2>1. pc[t] = "lock_loop" /\ ~Owns(t) /\ ~Waking(t)
    BY <1>6 DEF LockSlowPark, Owns, OwnerPcs, FairPcs, Waking
  <2>2. CASE /\ CasOk(t, set_queue_head(frame[t].snap, t))
             /\ node' = [node EXCEPT ![t] = PushedNode(t, frame[t].snap.head)]
             /\ queued' = queued \union {t}
             /\ ahead' = [ahead EXCEPT ![t] = queued]
             /\ Return(t, "parked")
    <3>1. SomeOwner
      BY <1>6, <2>2 DEF LockSlowPark, CasOk, RefInv, LockedOwned, Locked
    <3>2. owner \in Threads /\ owner # t
      BY <2>1, <3>1, OwnerIsThread
    <3>3. t \notin queued
      BY <2>1 DEF RefInv, ListSafe, ListInv, Sleepers, Asleep
    <3>4. \A u \in Threads : (Owns(u)' <=> Owns(u)) /\ (Waking(u)' <=> Waking(u))
      BY <1>1, <2>1, <2>2
      DEF Return, Owns, OwnerPcs, FairPcs, Waking, PushedNode, NewThreadData,
          TOKEN_NORMAL, TOKEN_HANDOFF
    <3>5. \A u \in Threads : Waking(u) => frame'[u] = frame[u]
      BY <1>1, <2>1, <2>2 DEF Return
    <3>6. UNCHANGED owner
      <4>1. PICK u \in Threads : Owns(u)
        BY <3>1 DEF SomeOwner
      <4>. QED BY <1>1, <3>4, <3>5, <4>1 DEF OwnerKnown
    <3>7. M!Sleep(t)
      BY <2>2, <3>2, <3>3, <3>6, ThreadsAssumption DEF M!Sleep
    <3>. QED BY <3>7 DEF M!Next
  <2>3. CASE CasErr(t) /\ UNCHANGED <<state, pc>> /\ NoListChange
    <3>1. /\ \A u \in Threads : (Owns(u)' <=> Owns(u)) /\ (Waking(u)' <=> Waking(u))
          /\ \A u \in Threads : Waking(u) => frame'[u] = frame[u]
          /\ UNCHANGED <<queued, ahead>>
      BY <1>1, <2>1, <2>3 DEF NoListChange, Owns, Waking, CasErr, Load
    <3>. QED BY <1>1, <3>1, NotSeen
  <2>. QED BY <1>6, <2>2, <2>3 DEF LockSlowPark
<1>7. ASSUME NEW t \in Threads, ParkReturn(t) PROVE Shown
  <2>1. /\ \A u \in Threads : (Owns(u)' <=> Owns(u)) /\ (Waking(u)' <=> Waking(u))
        /\ \A u \in Threads : Waking(u) => frame'[u] = frame[u]
        /\ UNCHANGED <<queued, ahead>>
    BY <1>1, <1>7 DEF ParkReturn, Resume, Return, Owns, OwnerPcs, FairPcs, Waking
  <2>. QED BY <1>1, <2>1, NotSeen
<1>8. ASSUME NEW t \in Threads, Unlock(t) \/ UnlockFairClear(t) PROVE Shown
  <2>1. GivesUpLock(t) /\ ~Waking(t) /\ UNCHANGED <<queued, ahead>>
    BY <1>1, <1>8
    DEF GivesUpLock, Unlock, UnlockFairClear, Goto, Return, NoListChange, Owns, OwnerPcs,
        FairPcs, Waking
  <2>. QED BY <2>1, ReleaseSeen DEF M!Next
<1>9. ASSUME NEW t \in Threads, UnlockSlowTry(t) \/ UnlockFairTry(t) PROVE Shown
  <2>1. /\ \A u \in Threads : (Owns(u)' <=> Owns(u)) /\ (Waking(u)' <=> Waking(u))
        /\ \A u \in Threads : Waking(u) => frame'[u] = frame[u]
        /\ UNCHANGED <<queued, ahead>>
    BY <1>1, <1>9
    DEF UnlockSlowTry, UnlockFairTry, CasErr, Load, NoListChange, Owns, OwnerPcs, FairPcs,
        Waking
  <2>. QED BY <1>1, <2>1, NotSeen
<1>10. ASSUME NEW t \in Threads, LinkPrev(t) \/ LinkDone(t) PROVE Shown
  <2>1. \A u \in Threads : node'[u].unpark_token = node[u].unpark_token
    <3>1. \E x, v : \/ node' = [node EXCEPT ![x].prev = v]
                    \/ node' = [node EXCEPT ![x].queue_tail = v]
      BY <1>10 DEF LinkPrev, LinkDone
    <3>. QED BY <1>1, <3>1 DEF ThreadDatas
  <2>2. /\ \A u \in Threads : (Owns(u)' <=> Owns(u)) /\ (Waking(u)' <=> Waking(u))
        /\ \A u \in Threads : Waking(u) => frame'[u] = frame[u]
        /\ UNCHANGED <<queued, ahead>>
    BY <1>1, <1>10, <2>1 DEF LinkPrev, LinkDone, Owns, OwnerPcs, FairPcs, Waking
  <2>. QED BY <1>1, <2>2, NotSeen
<1>11. ASSUME NEW t \in Threads, UnlockSlowRelease(t) PROVE Shown
  <2>1. /\ \A u \in Threads : (Owns(u)' <=> Owns(u)) /\ (Waking(u)' <=> Waking(u))
        /\ \A u \in Threads : Waking(u) => frame'[u] = frame[u]
        /\ UNCHANGED <<queued, ahead>>
    BY <1>1, <1>11
    DEF UnlockSlowRelease, Return, Relink, NoListChange, Owns, OwnerPcs, FairPcs, Waking
  <2>. QED BY <1>1, <2>1, NotSeen
<1>12. ASSUME NEW t \in Threads, UnlockSlowPopLast(t) \/ UnlockFairPopLast(t)
       PROVE  Shown
  <2>1. CASE /\ pc' = [pc EXCEPT ![t] = pc'[t]] /\ pc'[t] \in WakePcs
             /\ Dequeue(t) /\ UNCHANGED <<frame, node>>
    <3>1. pc[t] \in PopPcs /\ (Waking(t)' <=> pc[t] \in FairPcs)
      BY <1>1, <1>12, <2>1
      DEF UnlockSlowPopLast, UnlockFairPopLast, PopLast, Load, Relink, PopPcs, WakePcs,
          FairPcs, Waking
    <3>. QED BY <1>1, <2>1, <3>1, PopSeen
  <2>2. CASE NoListChange /\ (Relink(t, "us_link") \/ Relink(t, "usf_link")
                              \/ (Load(t) /\ UNCHANGED pc))
    <3>1. /\ \A u \in Threads : (Owns(u)' <=> Owns(u)) /\ (Waking(u)' <=> Waking(u))
          /\ \A u \in Threads : Waking(u) => frame'[u] = frame[u]
          /\ UNCHANGED <<queued, ahead>>
      BY <1>1, <1>12, <2>2
      DEF UnlockSlowPopLast, UnlockFairPopLast, PopLast, Load, Relink, NoListChange, Owns,
          OwnerPcs, FairPcs, Waking
    <3>. QED BY <1>1, <3>1, NotSeen
  <2>. QED
    BY <1>1, <1>12, <2>1, <2>2
    DEF UnlockSlowPopLast, UnlockFairPopLast, PopLast, WakePcs
<1>13. ASSUME NEW t \in Threads, UnlockSlowPopMore(t) \/ UnlockFairPopMore(t)
       PROVE  Shown
  <2>1. \A u \in Threads : node'[u].unpark_token = node[u].unpark_token
    <3>1. \E h, v : node' = [node EXCEPT ![h].queue_tail = v]
      BY <1>13 DEF UnlockSlowPopMore, UnlockFairPopMore, PopMore
    <3>. QED BY <1>1, <3>1 DEF ThreadDatas
  <2>2. /\ pc' = [pc EXCEPT ![t] = pc'[t]] /\ pc'[t] \in WakePcs
        /\ Dequeue(t) /\ UNCHANGED frame
        /\ pc[t] \in PopPcs /\ (Waking(t)' <=> pc[t] \in FairPcs)
    BY <1>1, <1>13
    DEF UnlockSlowPopMore, UnlockFairPopMore, PopMore, Goto, PopPcs, WakePcs, FairPcs,
        Waking
  <2>. QED BY <2>1, <2>2, PopSeen
<1>14. ASSUME NEW t \in Threads, UnlockSlowWake(t) PROVE Shown
  <2>1. \A u \in Threads : node'[u].unpark_token = node[u].unpark_token
    BY <1>1, <1>14 DEF UnlockSlowWake, ThreadDatas
  <2>2. /\ \A u \in Threads : (Owns(u)' <=> Owns(u)) /\ (Waking(u)' <=> Waking(u))
        /\ \A u \in Threads : Waking(u) => frame'[u] = frame[u]
        /\ UNCHANGED <<queued, ahead>>
    BY <1>1, <1>14, <2>1 DEF UnlockSlowWake, Return, Owns, OwnerPcs, FairPcs, Waking
  <2>. QED BY <1>1, <2>2, NotSeen
<1>15. ASSUME NEW t \in Threads, UnlockFairWake(t) PROVE Shown
  <2>1. /\ Waking(t) /\ UNCHANGED <<queued, ahead>>
        /\ pc' = [pc EXCEPT ![t] = "idle"]
    BY <1>15 DEF UnlockFairWake, Return, Waking
  <2>2. PICK v \in Threads : v = frame[t].tail /\ pc[v] = "parked"
    BY <2>1 DEF RefInv, ListSafe, ListInv, Sleepers, Asleep, Waking, WakePcs
  <2>3. owner = v
    BY <1>1, <2>1, <2>2 DEF OwnerKnown
  <2>4. Owns(v)' /\ ~Waking(v)'
    <3>1. node'[v].unpark_token = TOKEN_HANDOFF
      BY <1>1, <1>15, <2>2 DEF UnlockFairWake, ThreadDatas
    <3>2. pc'[v] = "parked"
      BY <1>1, <2>1, <2>2 DEF Waking
    <3>. QED BY <3>1, <3>2 DEF Owns, Waking
  <2>5. owner' = v
    BY <2>4 DEF OwnerKnown
  <2>. QED BY <2>1, <2>3, <2>5 DEF SeenFromOutside
<1>. QED
  BY <1>2, <1>3, <1>4, <1>5, <1>6, <1>7, <1>8, <1>9, <1>10, <1>11, <1>12, <1>13, <1>14,
     <1>15
  DEF Next, Arrive, Continue

\* The mutex implements MutexSpec: whatever barging, hand-offs and half-done scans
\* overlap, threads lie down only while somebody else has the lock, are called in
\* the order in which they lay down, and the lock passes by release and acquire or
\* from the owner to the thread that has waited longest.
THEOREM ImplementsMutexSpec == Spec => RefinesMutexSpec
<1>1. Init => M!Init
  BY DEF Init, M!Init, owner, Owns, OwnerPcs, FairPcs, NewThreadData, TOKEN_NORMAL,
     TOKEN_HANDOFF
<1>2. RefInv /\ OwnerKnown' /\ [Next]_vars => [M!Next]_(M!vars)
  BY MutexRefinementStep
<1>3. Spec => []OwnerKnown
  BY ChoosesOwner, MutexIsExclusive, PTL
<1>4. Spec => []LockedOwned
  <2>1. LockedIffOwned => LockedOwned
    BY DEF LockedIffOwned, LockedOwned, SomeOwner, Locked
  <2>. QED BY <2>1, LockBitHasOwner, PTL
<1>5. ListSafe /\ MutualExclusion /\ LockedOwned /\ FairReleaseFindsSleeper /\ OwnerKnown
        => RefInv
  BY DEF RefInv
<1>. QED
  BY <1>1, <1>2, <1>3, <1>4, <1>5, ListInvariant, MutexIsExclusive,
     FairReleaseAlwaysHandsOver, PTL
  DEF Spec, RefinesMutexSpec, M!Spec
=============================================================================
