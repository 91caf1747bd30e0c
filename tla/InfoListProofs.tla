--------------------------- MODULE InfoListProofs ---------------------------
(***************************************************************************)
(* Theorems about InfoList for every set of threads and descriptors, any   *)
(* number of nodes and of calls.                                           *)
(***************************************************************************)
EXTENDS InfoList, SequenceTheorems, TLAPS

Place == {"idle", "link", "publish", "tail", "query_first", "query",
          "find_first", "find", "unlink_prev", "unlink_next", "free"}

\* Every variable holds a value of its kind; who has a node in hand has a node.
TypeOK ==
  /\ next \in [Node \cup {head} -> Node \cup {head, NULL}]
  /\ prev \in [Node \cup {head} -> Node \cup {head, NULL}]
  /\ fdOf \in [Node -> Fd \cup {0}]
  /\ used \subseteq Node
  /\ pc \in [Thread -> Place]
  /\ fd \in [Thread -> Fd \cup {0}]
  /\ item \in [Thread -> Node \cup {head, NULL}]
  /\ wild \subseteq Thread
  /\ recorded \subseteq Fd
  /\ entries \in Seq(Node)
  /\ removed \in BOOLEAN /\ raced \in BOOLEAN
  /\ disturbed \in [Thread -> BOOLEAN]
  /\ \A t \in Thread : pc[t] \in {"link", "publish", "tail", "unlink_prev", "unlink_next", "free"}
                         => item[t] \in Node
  /\ \A t \in Thread : pc[t] # "idle" => fd[t] \in Fd

-----------------------------------------------------------------------------
(* Before the first removal.                                               *)

\* Nodes that have been given their link forward, and the head.
Ready == {head} \cup {n \in used : next[n] # NULL}

\* Whatever can be reached from the head or the tail has been linked.
Harmless ==
  ~ removed =>
    /\ wild = {}
    /\ prev[head] \in Ready
    /\ \A n \in Ready : next[n] \in Ready
    /\ \A t \in Thread :
         /\ pc[t] \in {"unlink_prev", "unlink_next", "free"} => FALSE
         /\ pc[t] \in {"query", "find"} => item[t] \in Ready
         /\ pc[t] = "link" => item[t] \in used
         /\ pc[t] \in {"publish", "tail"} => item[t] \in Ready

-----------------------------------------------------------------------------
(* While calls that change the list do not overlap.                        *)

\* The ring: the head, the entries, and the head again.
At(e, i) == IF i \in 1..Len(e) THEN e[i] ELSE head

OnList(n) == \E i \in 1..Len(entries) : entries[i] = n
Listed(f) == \E i \in 1..Len(entries) : fdOf[entries[i]] = f

\* Every two nodes of the ring are different, and so are their descriptors.
Distinct ==
  /\ \A i \in 1..Len(entries) : entries[i] \in used
  /\ \A i, j \in 1..Len(entries) :
       entries[i] = entries[j] \/ fdOf[entries[i]] = fdOf[entries[j]] => i = j

Forward == \A i \in 0..Len(entries) : next[At(entries, i)] = At(entries, i + 1)

\* A node that is already reached forwards, or still is, but not backwards.
Skipped(n) == \E t \in Thread : pc[t] \in {"tail", "unlink_next"} /\ item[t] = n

Backward ==
  \A i \in 0..Len(entries) :
    prev[At(entries, i + 1)] =
      IF i > 0 /\ Skipped(At(entries, i)) THEN At(entries, i - 1) ELSE At(entries, i)

\* A walk has passed no node with the descriptor it looks for.
Walked(t) ==
  \/ item[t] = head /\ ~ Listed(fd[t])
  \/ \E i \in 1..Len(entries) :
       /\ item[t] = entries[i]
       /\ \A j \in 1..(i - 1) : fdOf[entries[j]] # fd[t]

\* What a thread has in hand.
InHand(t) ==
  /\ pc[t] \in {"link", "publish"} =>
       /\ item[t] \in used /\ ~ OnList(item[t])
       /\ fdOf[item[t]] = fd[t] /\ ~ Listed(fd[t])
  /\ pc[t] = "publish" => next[item[t]] = head /\ prev[item[t]] = At(entries, Len(entries))
  /\ pc[t] = "tail" => /\ Len(entries) > 0 /\ item[t] = entries[Len(entries)]
                       /\ fdOf[item[t]] = fd[t]
  /\ pc[t] \in {"unlink_prev", "unlink_next"} => OnList(item[t]) /\ fdOf[item[t]] = fd[t]
  /\ pc[t] = "free" => ~ OnList(item[t]) /\ ~ Listed(fd[t])
  /\ pc[t] = "find" => Walked(t)
  /\ pc[t] = "query" /\ ~ disturbed[t] => Walked(t)

Ring ==
  ~ raced =>
    /\ \A t, u \in Thread : Changing(t) /\ Changing(u) => t = u
    /\ Distinct /\ Forward /\ Backward
    /\ \A t \in Thread : InHand(t)
    /\ \A f \in Fd : (\A t \in Thread : Changing(t) => fd[t] # f) =>
                       (f \in recorded <=> Listed(f))

\* No two calls are about one descriptor.
Apart == \A t, u \in Thread : t # u /\ pc[t] # "idle" /\ pc[u] # "idle" => fd[t] # fd[u]

\* An undisturbed search and a removal do not go on at the same time.
Quiet == \A t, w \in Thread :
           pc[t] \in {"query_first", "query"} /\ ~ disturbed[t] => ~ Removing(w)

IInv == TypeOK /\ Apart /\ Quiet /\ Ring /\ NoWildPointer
-----------------------------------------------------------------------------
(* Types.                                                                  *)

\* Nodes, the head and the null pointer are different numbers.
LEMMA NodeFacts ==
  /\ head \notin Node /\ NULL \notin Node /\ NULL # head
  /\ Node \cup {head} \subseteq Nat
  BY InfoListAssumption DEF Node, head, NULL

\* The types of the empty list.
LEMMA InitType == Init => TypeOK
<1> SUFFICES ASSUME Init PROVE TypeOK OBVIOUS
<1>1. next \in [Node \cup {head} -> Node \cup {head, NULL}] /\ prev = next BY DEF Init
<1>2. entries \in Seq(Node) BY EmptySeq DEF Init
<1> QED BY <1>1, <1>2 DEF Init, TypeOK, Place

\* The list without a node is a list.
LEMMA WithoutType ==
  ASSUME entries \in Seq(Node), NEW n
  PROVE  Without(n) \in Seq(Node)
<1>1. CASE ~ \E i \in 1..Len(entries) : entries[i] = n BY <1>1 DEF Without
<1>2. CASE \E i \in 1..Len(entries) : entries[i] = n
  <2> DEFINE i == CHOOSE i \in 1..Len(entries) : entries[i] = n
             a == SubSeq(entries, 1, i - 1)
             b == SubSeq(entries, i + 1, Len(entries))
  <2>1. i \in 1..Len(entries) BY <1>2
  <2>2. Without(n) = a \o b BY <1>2 DEF Without
  <2> HIDE DEF i
  <2>3. a \in Seq(Node) /\ b \in Seq(Node) BY <2>1
  <2> HIDE DEF a, b
  <2> QED BY <2>2, <2>3, ConcatProperties
<1> QED BY <1>1, <1>2

\* add begins: it takes a free node and fills it in.
LEMMA AddType ==
  ASSUME TypeOK, NEW t \in Thread, NEW f \in Fd, file_info_list_add(t, f)
  PROVE  TypeOK'
<1>1. PICK n \in Node \ used :
        /\ used' = used \cup {n}
        /\ fdOf' = [fdOf EXCEPT ![n] = f]
        /\ next' = [next EXCEPT ![n] = NULL] /\ prev' = [prev EXCEPT ![n] = NULL]
        /\ item' = [item EXCEPT ![t] = n]
  BY DEF file_info_list_add
<1>2. /\ pc' = [pc EXCEPT ![t] = "link"] /\ fd' = [fd EXCEPT ![t] = f]
      /\ disturbed' = [disturbed EXCEPT ![t] = \E w \in Thread \ {t} : Removing(w)]
      /\ raced' = (raced \/ \E u \in Thread \ {t} : Changing(u))
      /\ UNCHANGED <<wild, recorded, entries, removed>>
  BY DEF file_info_list_add, Begin, Goto, BeginChange, Arrive
<1>3. raced' \in BOOLEAN /\ disturbed' \in [Thread -> BOOLEAN]
  BY <1>2 DEF TypeOK
<1>4. /\ next' \in [Node \cup {head} -> Node \cup {head, NULL}]
      /\ prev' \in [Node \cup {head} -> Node \cup {head, NULL}]
      /\ fdOf' \in [Node -> Fd \cup {0}] /\ used' \subseteq Node
      /\ item' \in [Thread -> Node \cup {head, NULL}]
  BY <1>1 DEF TypeOK
<1>5. pc' \in [Thread -> Place] /\ fd' \in [Thread -> Fd \cup {0}]
  BY <1>2 DEF TypeOK, Place
<1>6. \A u \in Thread : pc'[u] \in {"link", "publish", "tail", "unlink_prev", "unlink_next", "free"}
                          => item'[u] \in Node
  BY <1>1, <1>2 DEF TypeOK
<1>7. \A u \in Thread : pc'[u] # "idle" => fd'[u] \in Fd BY <1>2 DEF TypeOK
<1> QED BY <1>2, <1>3, <1>4, <1>5, <1>6, <1>7 DEF TypeOK

\* A search begins at the head.
LEMMA SearchType ==
  ASSUME TypeOK, NEW t \in Thread, NEW f \in Fd, query_by_fd(t, f) \/ remove_by_fd(t, f)
  PROVE  TypeOK'
<1>1. /\ \E to \in {"query_first", "find_first"} : pc' = [pc EXCEPT ![t] = to]
      /\ fd' = [fd EXCEPT ![t] = f]
      /\ UNCHANGED <<links, item, wild, recorded, entries, removed>>
  BY DEF query_by_fd, remove_by_fd, Begin, Goto
<1>2. raced' \in BOOLEAN /\ disturbed' \in [Thread -> BOOLEAN]
  <2>1. CASE query_by_fd(t, f) BY <2>1 DEF query_by_fd, Arrive, TypeOK
  <2>2. CASE remove_by_fd(t, f)
    <3>1. raced' \in BOOLEAN BY <2>2 DEF remove_by_fd, BeginChange, TypeOK
    <3>2. disturbed' = [u \in Thread |-> IF u = t THEN \E w \in Thread \ {t} : Removing(w)
                                         ELSE disturbed[u] \/ pc[u] # "idle"]
      BY <2>2 DEF remove_by_fd, Disturb
    <3>3. disturbed' \in [Thread -> BOOLEAN] BY <3>2, Zenon
    <3> QED BY <3>1, <3>3
  <2> QED BY <2>1, <2>2
<1>3. pc' \in [Thread -> Place] /\ fd' \in [Thread -> Fd \cup {0}]
  BY <1>1 DEF TypeOK, Place
<1>4. \A u \in Thread : pc'[u] \in {"link", "publish", "tail", "unlink_prev", "unlink_next", "free"}
                          => item'[u] \in Node
  BY <1>1 DEF TypeOK
<1>5. \A u \in Thread : pc'[u] # "idle" => fd'[u] \in Fd BY <1>1 DEF TypeOK
<1> QED BY <1>1, <1>2, <1>3, <1>4, <1>5 DEF TypeOK, links

\* The steps of add, query and remove keep the types.
LEMMA RunType ==
  ASSUME TypeOK, NEW t \in Thread, Run(t)
  PROVE  TypeOK'
<1> USE NodeFacts
<1>1. CASE add_link(t)
  BY <1>1 DEF TypeOK, Place, add_link, Goto, history
<1>2. CASE add_publish(t)
  <2>1. CASE Fault(t, "publish")
    BY <2>1 DEF TypeOK, Fault, links, history
  <2>2. CASE Live(prev[head]) /\ Goto(t, "publish", "tail")
    <3>1. /\ next' = [next EXCEPT ![prev[head]] = item[t]] /\ entries' = Append(entries, item[t])
          /\ pc' = [pc EXCEPT ![t] = "tail"] /\ pc[t] = "publish"
          /\ UNCHANGED <<prev, fdOf, used, fd, item, wild, recorded, removed, raced, disturbed>>
      BY <1>2, <2>2 DEF add_publish, Goto, Fault
    <3>2. item[t] \in Node BY <3>1 DEF TypeOK
    <3>3. entries' \in Seq(Node) BY <3>1, <3>2, AppendProperties DEF TypeOK
    <3>4. next' \in [Node \cup {head} -> Node \cup {head, NULL}] BY <3>1, <3>2 DEF TypeOK
    <3> QED BY <3>1, <3>3, <3>4 DEF TypeOK, Place
  <2> QED BY <1>2, <2>1, <2>2 DEF add_publish
<1>3. CASE add_tail(t)
  BY <1>3 DEF TypeOK, Place, add_tail, Goto
<1>4. ASSUME NEW from \in {"query_first", "find_first"}, NEW to \in {"query", "find"}, walk_first(t, from, to) PROVE TypeOK'
  BY <1>4 DEF TypeOK, Place, walk_first, Goto, links, history
<1>5. ASSUME NEW from \in {"query", "find"}, walk_on(t, from) PROVE TypeOK'
  BY <1>5 DEF TypeOK, Place, walk_on, Goto, Fault, links, history
<1>6. CASE query_return(t) BY <1>6 DEF TypeOK, Place, query_return, Goto, links, history
<1>7. CASE remove_none(t) BY <1>7 DEF TypeOK, Place, remove_none, Goto, links
<1>8. CASE remove_found(t) BY <1>8 DEF TypeOK, Place, remove_found, Found, Goto, links
<1>9. CASE unlink_prev(t)
  <2>1. CASE Fault(t, "unlink_prev") BY <2>1 DEF TypeOK, Fault, links, history
  <2>2. CASE item[t] \in used /\ Live(next[item[t]]) /\ Goto(t, "unlink_prev", "unlink_next")
    <3>1. /\ prev' = [prev EXCEPT ![next[item[t]]] = prev[item[t]]]
          /\ pc' = [pc EXCEPT ![t] = "unlink_next"] /\ pc[t] = "unlink_prev"
          /\ UNCHANGED <<next, fdOf, used, fd, item, wild, history>>
      BY <1>9, <2>2 DEF unlink_prev, Goto, Fault
    <3>2. item[t] \in Node BY <3>1 DEF TypeOK
    <3>3. prev' \in [Node \cup {head} -> Node \cup {head, NULL}] BY <3>1, <3>2 DEF TypeOK
    <3> QED BY <3>1, <3>3 DEF TypeOK, Place, history
  <2> QED BY <1>9, <2>1, <2>2 DEF unlink_prev
<1>10. CASE unlink_next(t)
  <2>1. CASE Fault(t, "unlink_next") BY <2>1 DEF TypeOK, Fault, links, history
  <2>2. CASE item[t] \in used /\ Live(prev[item[t]]) /\ Goto(t, "unlink_next", "free")
    <3>1. /\ next' = [next EXCEPT ![prev[item[t]]] = next[item[t]]]
          /\ entries' = Without(item[t])
          /\ pc' = [pc EXCEPT ![t] = "free"] /\ pc[t] = "unlink_next"
          /\ UNCHANGED <<prev, fdOf, used, fd, item, wild, recorded, removed, raced, disturbed>>
      BY <1>10, <2>2 DEF unlink_next, Goto, Fault
    <3>2. entries' \in Seq(Node) BY <3>1, WithoutType DEF TypeOK
    <3>3. item[t] \in Node BY <3>1 DEF TypeOK
    <3>4. next' \in [Node \cup {head} -> Node \cup {head, NULL}] BY <3>1, <3>3 DEF TypeOK
    <3> QED BY <3>1, <3>2, <3>4 DEF TypeOK, Place
  <2> QED BY <1>10, <2>1, <2>2 DEF unlink_next
<1>11. CASE free(t) BY <1>11 DEF TypeOK, Place, free, Goto
<1> QED BY <1>1, <1>2, <1>3, <1>4, <1>5, <1>6, <1>7, <1>8, <1>9, <1>10, <1>11 DEF Run

\* A step is a step of one call.
LEMMA TypeStep == TypeOK /\ [Next]_vars => TypeOK'
<1> SUFFICES ASSUME TypeOK, [Next]_vars PROVE TypeOK' OBVIOUS
<1>1. ASSUME NEW t \in Thread, Call(t) PROVE TypeOK'
  BY <1>1, AddType, SearchType DEF Call
<1>2. ASSUME NEW t \in Thread, Run(t) PROVE TypeOK' BY <1>2, RunType
<1>3. CASE UNCHANGED vars BY <1>3 DEF vars, TypeOK
<1> QED BY <1>1, <1>2, <1>3 DEF Next
\* The variables of the list keep their types.
LEMMA TypeCorrect == Spec => []TypeOK
  BY InitType, TypeStep, PTL DEF Spec

-----------------------------------------------------------------------------
(* Before the first removal.                                               *)

\* The empty list is harmless.
LEMMA HarmlessInit == Init => Harmless
<1> SUFFICES ASSUME Init PROVE Harmless OBVIOUS
<1>1. /\ next = [n \in Node \cup {head} |-> IF n = head THEN head ELSE NULL] /\ prev = next
      /\ used = {} /\ wild = {} /\ pc = [t \in Thread |-> "idle"]
  BY DEF Init
<1>2. next[head] = head /\ prev[head] = head BY <1>1
<1>3. Ready = {head} BY <1>1 DEF Ready
<1> QED BY <1>1, <1>2, <1>3 DEF Harmless

\* A new node is linked to nothing yet.
LEMMA HarmlessAdd ==
  ASSUME TypeOK, Harmless, NEW t \in Thread, NEW f \in Fd, file_info_list_add(t, f)
  PROVE  Harmless'
<1> SUFFICES ASSUME ~ removed' PROVE Harmless' BY DEF Harmless
<1>1. PICK n \in Node \ used :
        /\ used' = used \cup {n}
        /\ next' = [next EXCEPT ![n] = NULL] /\ prev' = [prev EXCEPT ![n] = NULL]
        /\ item' = [item EXCEPT ![t] = n]
  BY DEF file_info_list_add
<1>2. /\ pc' = [pc EXCEPT ![t] = "link"] /\ UNCHANGED <<wild, removed>>
  BY DEF file_info_list_add, Begin, Goto
<1>3. ~ removed BY <1>2
<1>4. n # head /\ next \in [Node \cup {head} -> Node \cup {head, NULL}]
      /\ prev \in [Node \cup {head} -> Node \cup {head, NULL}] /\ used \subseteq Node
  BY NodeFacts DEF TypeOK
<1>5. Ready' = Ready /\ n \notin Ready BY <1>1, <1>4 DEF Ready
<1>6. prev'[head] \in Ready BY <1>1, <1>3, <1>4 DEF Harmless
<1>7. \A m \in Ready : next'[m] \in Ready
  <2>1. \A m \in Ready : m # n /\ m \in Node \cup {head} BY <1>4, <1>5 DEF Ready
  <2> QED BY <1>1, <1>3, <1>4, <2>1 DEF Harmless
<1>8. pc \in [Thread -> Place] /\ item \in [Thread -> Node \cup {head, NULL}] BY DEF TypeOK
<1>9. ASSUME NEW u \in Thread
      PROVE  /\ pc'[u] \in {"unlink_prev", "unlink_next", "free"} => FALSE
             /\ pc'[u] \in {"query", "find"} => item'[u] \in Ready
             /\ pc'[u] = "link" => item'[u] \in used'
             /\ pc'[u] \in {"publish", "tail"} => item'[u] \in Ready
  BY <1>1, <1>2, <1>3, <1>8 DEF Harmless
<1> QED BY <1>2, <1>3, <1>5, <1>6, <1>7, <1>9 DEF Harmless

\* A search that begins holds no node yet.
LEMMA HarmlessSearch ==
  ASSUME TypeOK, Harmless, NEW t \in Thread, NEW f \in Fd,
         query_by_fd(t, f) \/ remove_by_fd(t, f)
  PROVE  Harmless'
<1>1. /\ \E to \in {"query_first", "find_first"} : pc' = [pc EXCEPT ![t] = to]
      /\ UNCHANGED <<next, prev, used, item, wild, removed>>
  BY DEF query_by_fd, remove_by_fd, Begin, Goto, links
<1>2. Ready' = Ready BY <1>1 DEF Ready
<1> QED BY <1>1, <1>2 DEF Harmless, TypeOK

\* A step that leaves links and nodes alone and takes in hand only what is
\* reached from what is linked.
LEMMA HarmlessWalk ==
  ASSUME TypeOK, Harmless, ~ removed', ~ removed, NEW t \in Thread,
         UNCHANGED <<next, prev, used, wild>>,
         NEW to \in Place, pc' = [pc EXCEPT ![t] = to],
         \A u \in Thread \ {t} : item'[u] = item[u],
         to \in {"query", "find"} => item'[t] \in Ready,
         to \in {"idle", "query", "find"}
  PROVE  Harmless'
<1>1. Ready' = Ready BY DEF Ready
<1> QED BY <1>1 DEF Harmless, TypeOK

\* Before the first removal the steps of a call follow nothing but listed nodes.
LEMMA HarmlessRun ==
  ASSUME TypeOK, Harmless, NEW t \in Thread, Run(t)
  PROVE  Harmless'
<1> SUFFICES ASSUME ~ removed' PROVE Harmless' BY DEF Harmless
<1>1. ~ removed
  BY DEF Run, add_link, add_publish, add_tail, walk_first, walk_on, query_return, remove_none,
         remove_found, unlink_prev, unlink_next, free, Fault, history
<1>2. /\ wild = {} /\ prev[head] \in Ready /\ \A n \in Ready : next[n] \in Ready
      /\ pc[t] \notin {"unlink_prev", "unlink_next", "free"}
      /\ pc[t] \in {"query", "find"} => item[t] \in Ready
      /\ pc[t] = "link" => item[t] \in used
      /\ pc[t] \in {"publish", "tail"} => item[t] \in Ready
  BY <1>1 DEF Harmless
<1>3. /\ next \in [Node \cup {head} -> Node \cup {head, NULL}]
      /\ prev \in [Node \cup {head} -> Node \cup {head, NULL}]
      /\ used \subseteq Node /\ pc \in [Thread -> Place]
      /\ item \in [Thread -> Node \cup {head, NULL}]
      /\ pc[t] \in {"link", "publish", "tail"} => item[t] \in Node
      /\ head \notin Node /\ head # NULL
  BY NodeFacts DEF TypeOK
<1>4. \A n \in Ready : Live(n) /\ (n # head => n \in used) BY DEF Ready, Live
<1>5. CASE add_link(t)
  <2>1. /\ next' = [next EXCEPT ![item[t]] = head] /\ prev' = [prev EXCEPT ![item[t]] = prev[head]]
        /\ pc' = [pc EXCEPT ![t] = "publish"] /\ pc[t] = "link"
        /\ UNCHANGED <<used, item, wild>>
    BY <1>5 DEF add_link, Goto
  <2>2. Ready' = Ready \cup {item[t]}
    <3>1. \A n \in used : next'[n] = IF n = item[t] THEN head ELSE next[n] BY <1>3, <2>1
    <3> QED BY <1>2, <1>3, <2>1, <3>1 DEF Ready
  <2>3. prev'[head] = prev[head] BY <1>3, <2>1
  <2>4. \A n \in Ready' : next'[n] \in Ready'
    <3>1. \A n \in Ready' : n \in Node \cup {head} BY <1>3, <2>1 DEF Ready
    <3>2. head \in Ready' BY DEF Ready
    <3> QED BY <1>2, <1>3, <2>1, <2>2, <3>1, <3>2
  <2> QED BY <1>1, <1>2, <1>3, <2>1, <2>2, <2>3, <2>4 DEF Harmless
<1>6. CASE add_publish(t)
  <2>1. /\ next' = [next EXCEPT ![prev[head]] = item[t]]
        /\ pc' = [pc EXCEPT ![t] = "tail"] /\ pc[t] = "publish"
        /\ UNCHANGED <<prev, used, item, wild>>
    BY <1>2, <1>4, <1>6 DEF add_publish, Goto, Fault
  <2>2. prev[head] \in Node \cup {head} BY <1>2, <1>3 DEF Ready
  <2>3. Ready' = Ready
    <3>1. \A n \in used : next'[n] = IF n = prev[head] THEN item[t] ELSE next[n]
      BY <1>3, <2>1
    <3>2. item[t] # NULL BY <1>3, <2>1, NodeFacts
    <3> QED BY <1>2, <2>1, <3>1, <3>2 DEF Ready
  <2>4. \A n \in Ready : next'[n] \in Ready
    <3>1. \A n \in Ready : n \in Node \cup {head} BY <1>3 DEF Ready
    <3> QED BY <1>2, <1>3, <2>1, <3>1
  <2> QED BY <1>1, <1>2, <1>3, <2>1, <2>3, <2>4 DEF Harmless
<1>7. CASE add_tail(t)
  <2>1. /\ prev' = [prev EXCEPT ![head] = item[t]]
        /\ pc' = [pc EXCEPT ![t] = "idle"] /\ pc[t] = "tail"
        /\ UNCHANGED <<next, used, item, wild>>
    BY <1>7 DEF add_tail, Goto
  <2>2. prev'[head] = item[t] /\ Ready' = Ready BY <1>3, <2>1 DEF Ready
  <2> QED BY <1>1, <1>2, <1>3, <2>1, <2>2 DEF Harmless
<1>8. ASSUME NEW from, NEW to \in {"query", "find"}, walk_first(t, from, to) PROVE Harmless'
  <2>1. /\ pc' = [pc EXCEPT ![t] = to] /\ item' = [item EXCEPT ![t] = next[head]]
        /\ UNCHANGED <<next, prev, used, wild>>
    BY <1>8 DEF walk_first, Goto, links
  <2>2. head \in Ready BY DEF Ready
  <2>3. to \in Place BY DEF Place
  <2> QED BY <1>1, <1>2, <1>3, <2>1, <2>2, <2>3, HarmlessWalk
<1>9. ASSUME NEW from \in {"query", "find"}, walk_on(t, from) PROVE Harmless'
  <2>1. /\ pc[t] = from /\ pc' = [pc EXCEPT ![t] = from]
        /\ item' = [item EXCEPT ![t] = next[item[t]]]
        /\ UNCHANGED <<next, prev, used, wild>>
    BY <1>2, <1>4, <1>9 DEF walk_on, Goto, Fault, links
  <2>2. from \in Place BY DEF Place
  <2> QED BY <1>1, <1>2, <1>3, <2>1, <2>2, HarmlessWalk
<1>10. CASE query_return(t) \/ remove_none(t)
  <2>1. /\ pc' = [pc EXCEPT ![t] = "idle"] /\ UNCHANGED <<next, prev, used, item, wild>>
    BY <1>10 DEF query_return, remove_none, Goto, links
  <2>2. "idle" \in Place BY DEF Place
  <2> QED BY <1>1, <2>1, <2>2, HarmlessWalk
<1>11. ~ remove_found(t) BY DEF remove_found
<1>12. ~ (unlink_prev(t) \/ unlink_next(t) \/ free(t))
  BY <1>2 DEF unlink_prev, unlink_next, free, Goto, Fault
<1> QED BY <1>5, <1>6, <1>7, <1>8, <1>9, <1>10, <1>11, <1>12 DEF Run

\* However additions and searches interleave, before the first removal no pointer
\* is wild, in any number of threads: a node is linked before it can be reached.
THEOREM AddsSafe == Spec => []AddsAreHarmless
<1>1. TypeOK /\ Harmless /\ [Next]_vars => Harmless'
  <2> SUFFICES ASSUME TypeOK, Harmless, [Next]_vars PROVE Harmless' OBVIOUS
  <2>1. ASSUME NEW t \in Thread, Call(t) PROVE Harmless'
    BY <2>1, HarmlessAdd, HarmlessSearch DEF Call
  <2>2. ASSUME NEW t \in Thread, Run(t) PROVE Harmless' BY <2>2, HarmlessRun
  <2>3. CASE UNCHANGED vars BY <2>3 DEF vars, Harmless, Ready
  <2> QED BY <2>1, <2>2, <2>3 DEF Next
<1>2. Harmless => AddsAreHarmless BY DEF Harmless, AddsAreHarmless
<1> QED BY <1>1, <1>2, HarmlessInit, TypeCorrect, PTL DEF Spec
-----------------------------------------------------------------------------
(* The ring.                                                               *)

\* Where the ring begins and ends, and that no node is on it twice.
LEMMA AtFacts ==
  ASSUME TypeOK, Distinct
  PROVE  /\ Len(entries) \in Nat
         /\ At(entries, 0) = head /\ At(entries, Len(entries) + 1) = head
         /\ \A i \in 1..Len(entries) :
              /\ At(entries, i) = entries[i] /\ entries[i] \in used
              /\ entries[i] \in Node /\ entries[i] # head
         /\ \A i \in 0..Len(entries) + 1 : At(entries, i) \in Node \cup {head}
         /\ \A i, j \in 0..Len(entries) : At(entries, i) = At(entries, j) => i = j
         /\ \A i, j \in 1..Len(entries) + 1 : At(entries, i) = At(entries, j) => i = j
<1>1. entries \in Seq(Node) /\ Len(entries) \in Nat /\ head \notin Node BY NodeFacts DEF TypeOK
<1>2. \A i \in 1..Len(entries) : entries[i] \in Node /\ entries[i] # head BY <1>1
<1>3. At(entries, 0) = head /\ At(entries, Len(entries) + 1) = head BY <1>1 DEF At
<1>4. \A i \in 1..Len(entries) : At(entries, i) = entries[i] BY DEF At
<1>5. \A i \in 0..Len(entries) + 1 : i = 0 \/ i = Len(entries) + 1 \/ i \in 1..Len(entries)
  BY <1>1
<1>6. \A i \in 0..Len(entries) + 1 : At(entries, i) \in Node \cup {head}
  BY <1>2, <1>3, <1>4, <1>5
<1>7. \A i, j \in 1..Len(entries) : entries[i] = entries[j] => i = j BY DEF Distinct
<1>8. \A i \in 1..Len(entries) : entries[i] \in used BY DEF Distinct
<1>9. ASSUME NEW i \in 0..Len(entries), NEW j \in 0..Len(entries),
             At(entries, i) = At(entries, j)
      PROVE  i = j
  <2>1. (i = 0 \/ i \in 1..Len(entries)) /\ (j = 0 \/ j \in 1..Len(entries)) BY <1>1
  <2> QED BY <1>2, <1>3, <1>4, <1>7, <1>9, <2>1
<1>10. ASSUME NEW i \in 1..Len(entries) + 1, NEW j \in 1..Len(entries) + 1,
              At(entries, i) = At(entries, j)
       PROVE  i = j
  <2>1. /\ i = Len(entries) + 1 \/ i \in 1..Len(entries)
        /\ j = Len(entries) + 1 \/ j \in 1..Len(entries)
    BY <1>1
  <2> QED BY <1>2, <1>3, <1>4, <1>7, <1>10, <2>1
<1> QED BY <1>1, <1>2, <1>3, <1>4, <1>6, <1>8, <1>9, <1>10

\* The ring with a node more at the end.
LEMMA AtAppend ==
  ASSUME NEW e \in Seq(Node), NEW n \in Node
  PROVE  /\ Append(e, n) \in Seq(Node) /\ Len(Append(e, n)) = Len(e) + 1
         /\ \A i \in 1..Len(e) : Append(e, n)[i] = e[i]
         /\ Append(e, n)[Len(e) + 1] = n
         /\ \A i \in 0..Len(e) : At(Append(e, n), i) = At(e, i)
         /\ At(Append(e, n), Len(e) + 1) = n /\ At(Append(e, n), Len(e) + 2) = head
<1> DEFINE a == Append(e, n)
<1>1. /\ a \in Seq(Node) /\ Len(a) = Len(e) + 1
      /\ \A i \in 1..Len(e) : a[i] = e[i]
      /\ a[Len(e) + 1] = n
  BY AppendProperties
<1>2. Len(e) \in Nat OBVIOUS
<1> HIDE DEF a
<1>3. \A i \in 0..Len(e) : At(a, i) = At(e, i) BY <1>1, <1>2 DEF At
<1>4. At(a, Len(e) + 1) = n /\ At(a, Len(e) + 2) = head BY <1>1, <1>2 DEF At
<1> QED BY <1>1, <1>3, <1>4 DEF a

\* The ring without a node.
LEMMA AtWithout ==
  ASSUME TypeOK, Distinct, NEW k \in 1..Len(entries)
  PROVE  LET e == Without(entries[k])
         IN  /\ e \in Seq(Node) /\ Len(e) = Len(entries) - 1
             /\ \A i \in 1..(Len(entries) - 1) :
                  e[i] = IF i < k THEN entries[i] ELSE entries[i + 1]
             /\ \A i \in 0..Len(entries) :
                  At(e, i) = IF i < k THEN At(entries, i) ELSE At(entries, i + 1)
<1> DEFINE c == CHOOSE i \in 1..Len(entries) : entries[i] = entries[k]
           a == SubSeq(entries, 1, k - 1)
           b == SubSeq(entries, k + 1, Len(entries))
           e == a \o b
<1>1. c = k BY DEF Distinct
<1>2. Without(entries[k]) = SubSeq(entries, 1, c - 1) \o SubSeq(entries, c + 1, Len(entries))
  BY DEF Without
<1>3. Without(entries[k]) = e BY <1>1, <1>2, Zenon
<1>4. entries \in Seq(Node) /\ Len(entries) \in Nat BY DEF TypeOK
<1>5. a \in Seq(Node) /\ Len(a) = k - 1 /\ \A i \in 1..(k - 1) : a[i] = entries[i] BY <1>4
<1>6. /\ b \in Seq(Node) /\ Len(b) = Len(entries) - k
      /\ \A i \in 1..(Len(entries) - k) : b[i] = entries[k + i]
  BY <1>4
<1> HIDE DEF a, b
<1>7. /\ e \in Seq(Node) /\ Len(e) = Len(a) + Len(b)
      /\ \A i \in 1..Len(a) + Len(b) : e[i] = IF i <= Len(a) THEN a[i] ELSE b[i - Len(a)]
  BY <1>5, <1>6, ConcatProperties
<1> HIDE DEF e
<1>8. Len(e) = Len(entries) - 1 BY <1>4, <1>5, <1>6, <1>7
<1>9. ASSUME NEW i \in 1..(Len(entries) - 1)
      PROVE  e[i] = IF i < k THEN entries[i] ELSE entries[i + 1]
  <2>1. e[i] = IF i <= k - 1 THEN a[i] ELSE b[i - (k - 1)] BY <1>4, <1>5, <1>6, <1>7
  <2>2. CASE i < k BY <1>4, <1>5, <2>1, <2>2
  <2>3. CASE ~ (i < k)
    <3>1. i - (k - 1) \in 1..(Len(entries) - k) /\ k + (i - (k - 1)) = i + 1 /\ ~ (i <= k - 1)
      BY <1>4, <2>3
    <3> QED BY <1>6, <2>1, <2>3, <3>1
  <2> QED BY <2>2, <2>3
<1>10. \A i \in 0..Len(entries) :
         At(e, i) = IF i < k THEN At(entries, i) ELSE At(entries, i + 1)
  BY <1>4, <1>8, <1>9 DEF At
<1> QED BY <1>3, <1>7, <1>8, <1>9, <1>10
\* With the list in one piece a removal, or an addition, that goes on is the only
\* one.
LEMMA OnlyChanger ==
  ASSUME Ring, ~ raced, NEW t \in Thread, Changing(t)
  PROVE  /\ \A u \in Thread \ {t} : ~ Changing(u)
         /\ \A n : Skipped(n) <=> pc[t] \in {"tail", "unlink_next"} /\ item[t] = n
<1>1. \A u \in Thread \ {t} : ~ Changing(u) BY DEF Ring
<1>2. \A u \in Thread : pc[u] \in {"tail", "unlink_next"} => Changing(u)
  BY DEF Changing, Adding, Removing
<1> QED BY <1>1, <1>2 DEF Skipped

\* The other threads when one of them takes a step.
Others(t) ==
  \A u \in Thread \ {t} :
    pc'[u] = pc[u] /\ fd'[u] = fd[u] /\ item'[u] = item[u]
    /\ (disturbed[u] => disturbed'[u])

\* What has to be shown of a step of the only call that changes the list.
LEMMA RingAfter ==
  ASSUME TypeOK, NEW t \in Thread, \A u \in Thread \ {t} : ~ Changing(u), Others(t),
         Distinct', Forward', InHand(t)',
         \A i \in 0..Len(entries') :
            prev'[At(entries', i + 1)] =
              IF i > 0 /\ pc'[t] \in {"tail", "unlink_next"} /\ item'[t] = At(entries', i)
              THEN At(entries', i - 1) ELSE At(entries', i),
         \A u \in Thread \ {t} : pc[u] = "query" /\ ~ disturbed'[u] => Walked(u)',
         \A f \in Fd : (Changing(t)' => fd'[t] # f) => (f \in recorded' <=> Listed(f)')
  PROVE  Ring'
<1>1. \A u \in Thread \ {t} : ~ Changing(u)' BY DEF Others, Changing, Adding, Removing
<1>2. \A n : Skipped(n)' <=> pc'[t] \in {"tail", "unlink_next"} /\ item'[t] = n
  <2>1. \A u \in Thread : pc'[u] \in {"tail", "unlink_next"} => Changing(u)'
    BY DEF Changing, Adding, Removing
  <2> QED BY <1>1, <2>1 DEF Skipped
<1>3. Backward' BY <1>2 DEF Backward
<1>4. \A u \in Thread \ {t} : InHand(u)'
  <2> SUFFICES ASSUME NEW u \in Thread \ {t} PROVE InHand(u)' OBVIOUS
  <2>1. pc'[u] = pc[u] BY DEF Others
  <2>2. pc'[u] \notin {"link", "publish", "tail", "unlink_prev", "unlink_next", "free", "find"}
    BY <1>1 DEF Changing, Adding, Removing
  <2> QED BY <2>1, <2>2 DEF InHand
<1>5. \A u, w \in Thread : Changing(u)' /\ Changing(w)' => u = w BY <1>1
<1>6. \A f \in Fd : (\A u \in Thread : Changing(u)' => fd'[u] # f) =>
                      (f \in recorded' <=> Listed(f)')
  OBVIOUS
<1> QED BY <1>3, <1>4, <1>5, <1>6 DEF Ring

\* A walk has passed the same nodes when the list is the same.
LEMMA SameWalk ==
  ASSUME NEW u \in Thread, Walked(u), entries' = entries,
         item'[u] = item[u], fd'[u] = fd[u],
         \A i \in 1..Len(entries) : fdOf'[entries[i]] = fdOf[entries[i]]
  PROVE  Walked(u)'
  BY DEF Walked, Listed

\* What has to be shown of a step of a search.
LEMMA RingSearch ==
  ASSUME TypeOK, Ring, NEW t \in Thread, ~ Changing(t), Others(t),
         UNCHANGED <<next, prev, fdOf, used, recorded, entries, raced>>,
         pc'[t] \in {"idle", "query_first", "query"},
         ~ raced /\ pc'[t] = "query" /\ ~ disturbed'[t] => Walked(t)'
  PROVE  Ring'
<1> SUFFICES ASSUME ~ raced' PROVE Ring' BY DEF Ring
<1>1. ~ raced OBVIOUS
<1>2. ~ Changing(t)' /\ \A u \in Thread \ {t} : Changing(u)' <=> Changing(u)
  BY DEF Others, Changing, Adding, Removing
<1>3. \A n : Skipped(n)' <=> Skipped(n)
  <2>1. pc[t] \notin {"tail", "unlink_next"} /\ pc'[t] \notin {"tail", "unlink_next"}
    BY DEF Changing, Adding, Removing
  <2> QED BY <2>1 DEF Skipped, Others
<1>4. Distinct' /\ Forward' BY <1>1 DEF Ring, Distinct, Forward
<1>5. Backward' BY <1>1, <1>3 DEF Ring, Backward
<1>6. ASSUME NEW u \in Thread PROVE InHand(u)'
  <2>1. CASE u = t BY <1>1, <2>1 DEF InHand
  <2>2. CASE u # t
    <3>1. InHand(u) BY <1>1 DEF Ring
    <3>2. pc'[u] = pc[u] /\ fd'[u] = fd[u] /\ item'[u] = item[u] /\ (disturbed[u] => disturbed'[u])
      BY <2>2 DEF Others
    <3>3. Walked(u) => Walked(u)' BY <3>2 DEF Walked, Listed
    <3> QED BY <3>1, <3>2, <3>3 DEF InHand, OnList, Listed
  <2> QED BY <2>1, <2>2
<1>7. \A f \in Fd : (\A u \in Thread : Changing(u)' => fd'[u] # f) =>
                      (f \in recorded' <=> Listed(f)')
  <2> SUFFICES ASSUME NEW f \in Fd, \A u \in Thread : Changing(u)' => fd'[u] # f
               PROVE  f \in recorded' <=> Listed(f)'
    OBVIOUS
  <2>1. \A u \in Thread : Changing(u) => fd[u] # f BY <1>2 DEF Others
  <2>2. f \in recorded <=> Listed(f) BY <1>1, <2>1 DEF Ring
  <2> QED BY <2>2 DEF Listed
<1>8. \A u, w \in Thread : Changing(u)' /\ Changing(w)' => u = w BY <1>1, <1>2 DEF Ring
<1> QED BY <1>4, <1>5, <1>6, <1>7, <1>8 DEF Ring
\* The first step of a walk.
LEMMA WalkFirst ==
  ASSUME TypeOK, Ring, ~ raced, NEW t \in Thread,
         item' = [item EXCEPT ![t] = next[head]], UNCHANGED <<fd, fdOf, entries>>
  PROVE  Walked(t)'
<1>1. item'[t] = next[head] BY DEF TypeOK
<1>2. Distinct /\ Forward BY DEF Ring
<1>3. Len(entries) \in Nat /\ At(entries, 0) = head BY <1>2, AtFacts
<1>4. item'[t] = At(entries, 1)
  <2>1. 0 \in 0..Len(entries) /\ 0 + 1 = 1 BY <1>3
  <2> QED BY <1>1, <1>2, <1>3, <2>1 DEF Forward
<1>5. CASE Len(entries) = 0 BY <1>4, <1>5 DEF At, Walked, Listed
<1>6. CASE Len(entries) > 0
  <2>1. 1 \in 1..Len(entries) /\ 1..(1 - 1) = {} BY <1>3, <1>6
  <2>2. item'[t] = entries[1] BY <1>4, <2>1 DEF At
  <2> QED BY <2>1, <2>2 DEF Walked
<1> QED BY <1>3, <1>5, <1>6

\* A further step.
LEMMA WalkOn ==
  ASSUME TypeOK, Ring, ~ raced, NEW t \in Thread, Walked(t),
         item[t] \in used, fdOf[item[t]] # fd[t],
         item' = [item EXCEPT ![t] = next[item[t]]], UNCHANGED <<fd, fdOf, entries>>
  PROVE  Walked(t)'
<1>1. item'[t] = next[item[t]] /\ item[t] # head BY NodeFacts DEF TypeOK
<1>2. Distinct /\ Forward BY DEF Ring
<1>3. PICK i \in 1..Len(entries) :
        item[t] = entries[i] /\ \A j \in 1..(i - 1) : fdOf[entries[j]] # fd[t]
  BY <1>1 DEF Walked
<1>4. Len(entries) \in Nat /\ item[t] = At(entries, i) BY <1>2, <1>3, AtFacts
<1>5. item'[t] = At(entries, i + 1) BY <1>1, <1>2, <1>4 DEF Forward
<1>6. \A j \in 1..i : fdOf[entries[j]] # fd[t]
  <2>1. \A j \in 1..i : j = i \/ j \in 1..(i - 1) OBVIOUS
  <2> QED BY <1>3, <2>1
<1>7. CASE i = Len(entries)
  <2>1. item'[t] = head BY <1>2, <1>5, <1>7, AtFacts
  <2> QED BY <1>6, <1>7, <2>1 DEF Walked, Listed
<1>8. CASE i < Len(entries)
  <2>1. i + 1 \in 1..Len(entries) /\ (i + 1) - 1 = i BY <1>4, <1>8
  <2>2. item'[t] = entries[i + 1] BY <1>2, <1>5, <2>1, AtFacts
  <2> QED BY <1>6, <2>1, <2>2 DEF Walked
<1> QED BY <1>4, <1>7, <1>8
-----------------------------------------------------------------------------
(* A step of each kind keeps the ring.                                     *)

\* The empty list is a ring of the head alone.
LEMMA RingInit == Init => Ring
<1> SUFFICES ASSUME Init PROVE Ring OBVIOUS
<1>1. /\ next = [n \in Node \cup {head} |-> IF n = head THEN head ELSE NULL] /\ prev = next
      /\ pc = [t \in Thread |-> "idle"] /\ entries = <<>> /\ recorded = {}
  BY DEF Init
<1>2. Len(entries) = 0 /\ At(entries, 0) = head /\ At(entries, 1) = head /\ 0..Len(entries) = {0}
  BY <1>1 DEF At
<1>3. next[head] = head /\ prev[head] = head BY <1>1
<1>4. Forward /\ Backward BY <1>2, <1>3 DEF Forward, Backward
<1>5. Distinct /\ \A f : ~ Listed(f) BY <1>2 DEF Distinct, Listed
<1>6. \A t \in Thread : pc[t] = "idle" BY <1>1
<1>7. \A t \in Thread : InHand(t) /\ ~ Changing(t) BY <1>6 DEF InHand, Changing, Adding, Removing
<1> QED BY <1>1, <1>4, <1>5, <1>7 DEF Ring

\* An addition begins.
LEMMA RingAdd ==
  ASSUME TypeOK, Apart, Ring, NEW t \in Thread, NEW f \in Fd, file_info_list_add(t, f)
  PROVE  Ring'
<1> SUFFICES ASSUME ~ raced' PROVE Ring' BY DEF Ring
<1>1. PICK n \in Node \ used :
        /\ used' = used \cup {n}
        /\ fdOf' = [fdOf EXCEPT ![n] = f]
        /\ next' = [next EXCEPT ![n] = NULL] /\ prev' = [prev EXCEPT ![n] = NULL]
        /\ item' = [item EXCEPT ![t] = n]
  BY DEF file_info_list_add
<1>2. /\ f \notin recorded /\ pc[t] = "idle"
      /\ pc' = [pc EXCEPT ![t] = "link"] /\ fd' = [fd EXCEPT ![t] = f]
      /\ disturbed' = [disturbed EXCEPT ![t] = \E w \in Thread \ {t} : Removing(w)]
      /\ raced' = (raced \/ \E u \in Thread \ {t} : Changing(u))
      /\ UNCHANGED <<recorded, entries>>
  BY DEF file_info_list_add, Begin, Goto, BeginChange, Arrive
<1>3. ~ raced /\ \A u \in Thread \ {t} : ~ Changing(u) BY <1>2
<1>4. ~ Changing(t) BY <1>2 DEF Changing, Adding, Removing
<1>5. Distinct /\ Forward /\ Backward BY <1>3 DEF Ring
<1>6. /\ fdOf \in [Node -> Fd \cup {0}] /\ item \in [Thread -> Node \cup {head, NULL}]
      /\ next \in [Node \cup {head} -> Node \cup {head, NULL}]
      /\ prev \in [Node \cup {head} -> Node \cup {head, NULL}]
      /\ pc \in [Thread -> Place] /\ fd \in [Thread -> Fd \cup {0}]
      /\ disturbed \in [Thread -> BOOLEAN] /\ head \notin Node
  BY NodeFacts DEF TypeOK
<1>7. Others(t) BY <1>1, <1>2, <1>6 DEF Others
<1>8. \A i \in 0..Len(entries) + 1 : At(entries, i) # n /\ At(entries, i) \in Node \cup {head}
  <2>1. \A i \in 0..Len(entries) + 1 : At(entries, i) = head \/ At(entries, i) \in used
    BY <1>5 DEF At, Distinct
  <2> QED BY <1>1, <1>5, <1>6, <2>1, AtFacts
<1>9. \A i \in 1..Len(entries) : entries[i] \in Node /\ fdOf'[entries[i]] = fdOf[entries[i]]
  BY <1>1, <1>5, <1>6, AtFacts
<1>10. Distinct' BY <1>1, <1>2, <1>5, <1>9 DEF Distinct
<1>11. \A i \in 0..Len(entries) + 1 :
         next'[At(entries, i)] = next[At(entries, i)] /\ prev'[At(entries, i)] = prev[At(entries, i)]
  BY <1>1, <1>6, <1>8
<1>12. Len(entries) \in Nat /\ \A i \in 0..Len(entries) : i \in 0..Len(entries) + 1 /\ i + 1 \in 0..Len(entries) + 1
  BY <1>5, AtFacts
<1>13. Forward' BY <1>2, <1>5, <1>11, <1>12 DEF Forward
<1>14. \A m : ~ Skipped(m) BY <1>3, <1>4 DEF Skipped, Changing, Adding, Removing
<1>15. \A i \in 0..Len(entries) : prev'[At(entries, i + 1)] = At(entries, i)
  BY <1>5, <1>11, <1>12, <1>14 DEF Backward
<1>16. \A g : Listed(g)' <=> Listed(g) BY <1>2, <1>9 DEF Listed
<1>17. \A g \in Fd : g \in recorded <=> Listed(g) BY <1>3, <1>4 DEF Ring
<1>18. InHand(t)'
  <2>1. pc'[t] = "link" /\ item'[t] = n /\ fd'[t] = f /\ n \in used' /\ fdOf'[n] = f
    BY <1>1, <1>2, <1>6
  <2>2. ~ OnList(n)' BY <1>1, <1>2, <1>5 DEF OnList, Distinct
  <2>3. ~ Listed(f)' BY <1>2, <1>16, <1>17
  <2> QED BY <2>1, <2>2, <2>3 DEF InHand
<1>19. \A u \in Thread \ {t} : pc[u] = "query" /\ ~ disturbed'[u] => Walked(u)'
  <2> SUFFICES ASSUME NEW u \in Thread \ {t}, pc[u] = "query", ~ disturbed'[u] PROVE Walked(u)'
    OBVIOUS
  <2>1. ~ disturbed[u] /\ InHand(u) BY <1>3, <1>7 DEF Ring, Others
  <2>2. Walked(u) BY <2>1 DEF InHand
  <2> QED BY <1>2, <1>7, <1>9, <2>2, SameWalk DEF Others
<1>20. pc'[t] = "link" BY <1>2, <1>6
<1> QED BY <1>2, <1>3, <1>7, <1>10, <1>13, <1>15, <1>16, <1>17, <1>18, <1>19, <1>20, RingAfter

\* A step that changes none of this.
LEMMA RingSame ==
  ASSUME Ring, UNCHANGED <<next, prev, fdOf, used, pc, fd, item, recorded, entries, raced, disturbed>>
  PROVE  Ring'
<1>1. (Distinct' <=> Distinct) /\ (Forward' <=> Forward) BY DEF Distinct, Forward
<1>2. Backward' <=> Backward BY DEF Backward, Skipped
<1>3. \A t \in Thread : InHand(t)' <=> InHand(t) BY DEF InHand, Walked, Listed, OnList
<1>4. \A t \in Thread : Changing(t)' <=> Changing(t) BY DEF Changing, Adding, Removing
<1>5. \A f : Listed(f)' <=> Listed(f) BY DEF Listed
<1> QED BY <1>1, <1>2, <1>3, <1>4, <1>5 DEF Ring

\* A search begins, moves on or ends.
LEMMA RingQuery ==
  ASSUME TypeOK, Ring, NEW t \in Thread,
         \/ \E f \in Fd : query_by_fd(t, f)
         \/ walk_first(t, "query_first", "query") \/ walk_on(t, "query") \/ query_return(t)
  PROVE  Ring'
<1>1. /\ pc \in [Thread -> Place] /\ fd \in [Thread -> Fd \cup {0}]
      /\ item \in [Thread -> Node \cup {head, NULL}] /\ disturbed \in [Thread -> BOOLEAN]
  BY DEF TypeOK
<1>2. CASE \E f \in Fd : query_by_fd(t, f)
  <2>1. PICK f \in Fd : query_by_fd(t, f) BY <1>2
  <2>2. /\ pc[t] = "idle" /\ pc' = [pc EXCEPT ![t] = "query_first"] /\ fd' = [fd EXCEPT ![t] = f]
        /\ disturbed' = [disturbed EXCEPT ![t] = \E w \in Thread \ {t} : Removing(w)]
        /\ UNCHANGED <<next, prev, fdOf, used, item, recorded, entries, raced>>
    BY <2>1 DEF query_by_fd, Begin, Goto, Arrive, links
  <2>3. Others(t) /\ pc'[t] = "query_first" BY <1>1, <2>2 DEF Others
  <2>4. ~ Changing(t) BY <2>2 DEF Changing, Adding, Removing
  <2> QED BY <2>2, <2>3, <2>4, RingSearch
<1>3. CASE walk_first(t, "query_first", "query")
  <2>1. /\ pc[t] = "query_first" /\ pc' = [pc EXCEPT ![t] = "query"]
        /\ item' = [item EXCEPT ![t] = next[head]]
        /\ UNCHANGED <<next, prev, fdOf, used, fd, disturbed, recorded, entries, raced>>
    BY <1>3 DEF walk_first, Goto, links, history
  <2>2. Others(t) /\ pc'[t] = "query" BY <1>1, <2>1 DEF Others
  <2>3. ~ Changing(t) BY <2>1 DEF Changing, Adding, Removing
  <2>4. ~ raced => Walked(t)' BY <1>1, <2>1, WalkFirst
  <2> QED BY <2>1, <2>2, <2>3, <2>4, RingSearch
<1>4. CASE walk_on(t, "query")
  <2>1. CASE Fault(t, "query")
    <3>1. /\ pc[t] = "query" /\ UNCHANGED <<next, prev, fdOf, used, pc, fd, item, disturbed, recorded, entries, raced>>
      BY <2>1 DEF Fault, links, history
    <3> QED BY <3>1, RingSame
  <2>2. CASE ~ Fault(t, "query")
    <3>1. /\ item[t] \in used /\ fdOf[item[t]] # fd[t]
          /\ pc[t] = "query" /\ pc' = [pc EXCEPT ![t] = "query"]
          /\ item' = [item EXCEPT ![t] = next[item[t]]]
          /\ UNCHANGED <<next, prev, fdOf, used, fd, disturbed, recorded, entries, raced>>
      BY <1>4, <2>2 DEF walk_on, Goto, links, history
    <3>2. Others(t) /\ pc'[t] = "query" BY <1>1, <3>1 DEF Others
    <3>3. ~ Changing(t) BY <3>1 DEF Changing, Adding, Removing
    <3>4. ~ raced /\ ~ disturbed'[t] => Walked(t)'
      <4> SUFFICES ASSUME ~ raced, ~ disturbed'[t] PROVE Walked(t)' OBVIOUS
      <4>1. Walked(t) BY <3>1 DEF Ring, InHand
      <4> QED BY <1>1, <3>1, <4>1, WalkOn
    <3> QED BY <3>1, <3>2, <3>3, <3>4, RingSearch
  <2> QED BY <2>1, <2>2
<1>5. CASE query_return(t)
  <2>1. /\ pc[t] = "query" /\ pc' = [pc EXCEPT ![t] = "idle"]
        /\ UNCHANGED <<next, prev, fdOf, used, fd, item, disturbed, recorded, entries, raced>>
    BY <1>5 DEF query_return, Goto, links, history
  <2>2. Others(t) /\ pc'[t] = "idle" BY <1>1, <2>1 DEF Others
  <2>3. ~ Changing(t) BY <2>1 DEF Changing, Adding, Removing
  <2> QED BY <2>1, <2>2, <2>3, RingSearch
<1> QED BY <1>2, <1>3, <1>4, <1>5
\* What is known in every step of the only call that changes the list.
LEMMA ChangerFacts ==
  ASSUME TypeOK, Ring, ~ raced, NEW t \in Thread, Changing(t)
  PROVE  /\ \A u \in Thread \ {t} : ~ Changing(u)
         /\ \A m : Skipped(m) <=> pc[t] \in {"tail", "unlink_next"} /\ item[t] = m
         /\ Distinct /\ Forward /\ Backward /\ InHand(t)
         /\ \A f \in Fd : f # fd[t] => (f \in recorded <=> Listed(f))
         /\ \A u \in Thread \ {t} : pc[u] = "query" /\ ~ disturbed[u] => Walked(u)
         /\ fdOf \in [Node -> Fd \cup {0}] /\ item \in [Thread -> Node \cup {head, NULL}]
         /\ next \in [Node \cup {head} -> Node \cup {head, NULL}]
         /\ prev \in [Node \cup {head} -> Node \cup {head, NULL}]
         /\ pc \in [Thread -> Place] /\ fd \in [Thread -> Fd \cup {0}]
         /\ head \notin Node /\ fd[t] \in Fd /\ entries \in Seq(Node)
<1>1. /\ \A u \in Thread \ {t} : ~ Changing(u)
      /\ \A m : Skipped(m) <=> pc[t] \in {"tail", "unlink_next"} /\ item[t] = m
  BY OnlyChanger
<1>2. Distinct /\ Forward /\ Backward /\ \A u \in Thread : InHand(u) BY DEF Ring
<1>3. \A f \in Fd : f # fd[t] => (f \in recorded <=> Listed(f)) BY <1>1 DEF Ring
<1>4. \A u \in Thread \ {t} : pc[u] = "query" /\ ~ disturbed[u] => Walked(u)
  BY <1>2 DEF InHand
<1>5. fd[t] \in Fd BY DEF TypeOK, Changing, Adding, Removing
<1> QED BY <1>1, <1>2, <1>3, <1>4, <1>5, NodeFacts DEF TypeOK

\* An addition gives its node the neighbours.
LEMMA RingLink ==
  ASSUME TypeOK, Ring, NEW t \in Thread, add_link(t)
  PROVE  Ring'
<1> DEFINE L == Len(entries)
           n == item[t]
<1> SUFFICES ASSUME ~ raced' PROVE Ring' BY DEF Ring
<1>1. /\ pc[t] = "link" /\ pc' = [pc EXCEPT ![t] = "publish"]
      /\ next' = [next EXCEPT ![n] = head] /\ prev' = [prev EXCEPT ![n] = prev[head]]
      /\ UNCHANGED <<fdOf, used, fd, item, recorded, entries, raced, disturbed>>
  BY DEF add_link, Goto, history
<1>2. ~ raced /\ Changing(t) BY <1>1 DEF Changing, Adding
<1>3. /\ \A u \in Thread \ {t} : ~ Changing(u)
      /\ \A m : ~ Skipped(m)
      /\ Distinct /\ Forward /\ Backward /\ InHand(t)
      /\ \A f \in Fd : f # fd[t] => (f \in recorded <=> Listed(f))
      /\ \A u \in Thread \ {t} : pc[u] = "query" /\ ~ disturbed[u] => Walked(u)
  BY <1>1, <1>2, ChangerFacts
<1>4. /\ n \in used /\ n \in Node /\ ~ OnList(n) /\ fdOf[n] = fd[t] /\ ~ Listed(fd[t])
      /\ n \in Node \cup {head} /\ n # head
  BY <1>1, <1>3, NodeFacts DEF InHand, TypeOK
<1>5. /\ next \in [Node \cup {head} -> Node \cup {head, NULL}]
      /\ prev \in [Node \cup {head} -> Node \cup {head, NULL}]
      /\ pc \in [Thread -> Place]
  BY DEF TypeOK
<1>6. /\ L \in Nat /\ At(entries, L + 1) = head
      /\ \A i \in 0..L : i \in 0..L + 1 /\ i + 1 \in 0..L + 1
  BY <1>3, AtFacts
<1>7. \A i \in 0..L + 1 : At(entries, i) # n /\ At(entries, i) \in Node \cup {head}
  <2>1. \A i \in 0..L + 1 : At(entries, i) \in Node \cup {head} BY <1>3, AtFacts
  <2>2. \A i \in 0..L + 1 : At(entries, i) # n BY <1>4 DEF At, OnList
  <2> QED BY <2>1, <2>2
<1>8. \A i \in 0..L + 1 :
        next'[At(entries, i)] = next[At(entries, i)] /\ prev'[At(entries, i)] = prev[At(entries, i)]
  BY <1>1, <1>5, <1>7
<1>9. Distinct' BY <1>1, <1>3 DEF Distinct
<1>10. Forward' BY <1>1, <1>3, <1>6, <1>8 DEF Forward
<1>11. \A i \in 0..L : prev'[At(entries, i + 1)] = At(entries, i)
  BY <1>3, <1>6, <1>8 DEF Backward
<1>12. prev[head] = At(entries, L)
  <2>1. L \in 0..L BY <1>6
  <2> QED BY <1>3, <1>6, <2>1 DEF Backward
<1>13. /\ pc'[t] = "publish" /\ next'[n] = head /\ prev'[n] = At(entries, L)
       /\ Others(t)
  BY <1>1, <1>4, <1>5, <1>12 DEF Others
<1>14. InHand(t)' BY <1>1, <1>4, <1>13 DEF InHand, OnList, Listed
<1>15. \A u \in Thread \ {t} : pc[u] = "query" /\ ~ disturbed'[u] => Walked(u)'
  BY <1>1, <1>3 DEF Walked, Listed
<1>16. \A f \in Fd : (Changing(t)' => fd'[t] # f) => (f \in recorded' <=> Listed(f)')
  <2>1. Changing(t)' BY <1>13 DEF Changing, Adding
  <2> QED BY <1>1, <1>3, <2>1 DEF Listed
<1>17. \A i \in 0..Len(entries') :
         prev'[At(entries', i + 1)] =
           IF i > 0 /\ pc'[t] \in {"tail", "unlink_next"} /\ item'[t] = At(entries', i)
           THEN At(entries', i - 1) ELSE At(entries', i)
  BY <1>1, <1>11, <1>13
<1> QED BY <1>3, <1>9, <1>10, <1>13, <1>14, <1>15, <1>16, <1>17, RingAfter

\* The last node is there when a new one is linked to it.
LEMMA PublishLive ==
  ASSUME TypeOK, Ring, ~ raced, NEW t \in Thread, add_publish(t)
  PROVE  UNCHANGED wild
<1>1. pc[t] = "publish" BY DEF add_publish, Goto, Fault
<1>2. Changing(t) BY <1>1 DEF Changing, Adding
<1>3. Distinct /\ Backward /\ \A m : ~ Skipped(m) BY <1>1, <1>2, ChangerFacts
<1>4. /\ Len(entries) \in 0..Len(entries) /\ At(entries, Len(entries) + 1) = head
      /\ At(entries, Len(entries)) = head \/ At(entries, Len(entries)) \in used
  BY <1>3, AtFacts DEF At
<1>5. Live(prev[head]) BY <1>3, <1>4 DEF Backward, Live
<1> QED BY <1>5 DEF add_publish

\* The last node is linked to the new one.
LEMMA RingPublish ==
  ASSUME TypeOK, Apart, Ring, NEW t \in Thread, add_publish(t)
  PROVE  Ring'
<1> DEFINE L == Len(entries)
           n == item[t]
<1> SUFFICES ASSUME ~ raced' PROVE Ring' BY DEF Ring
<1>1. ~ raced /\ pc[t] = "publish" BY DEF add_publish, Goto, Fault, history
<1>2. Changing(t) BY <1>1 DEF Changing, Adding
<1>3. /\ \A u \in Thread \ {t} : ~ Changing(u)
      /\ \A m : ~ Skipped(m)
      /\ Distinct /\ Forward /\ Backward /\ InHand(t)
      /\ \A f \in Fd : f # fd[t] => (f \in recorded <=> Listed(f))
      /\ \A u \in Thread \ {t} : pc[u] = "query" /\ ~ disturbed[u] => Walked(u)
  BY <1>1, <1>2, ChangerFacts
<1>4. /\ n \in used /\ n \in Node /\ ~ OnList(n) /\ fdOf[n] = fd[t] /\ ~ Listed(fd[t])
      /\ n # head /\ next[n] = head /\ prev[n] = At(entries, L)
      /\ next \in [Node \cup {head} -> Node \cup {head, NULL}]
      /\ pc \in [Thread -> Place] /\ entries \in Seq(Node)
  BY <1>1, <1>3, NodeFacts DEF InHand, TypeOK
<1>5. /\ L \in Nat /\ At(entries, L + 1) = head /\ At(entries, 0) = head
      /\ \A i \in 0..L : i \in 0..L + 1 /\ i + 1 \in 0..L + 1
      /\ \A i \in 1..L : entries[i] \in used
      /\ \A i \in 0..L + 1 : At(entries, i) \in Node \cup {head}
      /\ \A i, j \in 0..L : At(entries, i) = At(entries, j) => i = j
  BY <1>3, AtFacts
<1>6. prev[head] = At(entries, L)
  <2>1. L \in 0..L BY <1>5
  <2> QED BY <1>3, <1>5, <2>1 DEF Backward
<1>7. Live(prev[head])
  <2>1. L = 0 \/ L \in 1..L BY <1>5
  <2> QED BY <1>5, <1>6, <2>1 DEF Live, At
<1>8. /\ next' = [next EXCEPT ![At(entries, L)] = n] /\ entries' = Append(entries, n)
      /\ pc' = [pc EXCEPT ![t] = "tail"]
      /\ UNCHANGED <<prev, fdOf, used, fd, item, recorded, raced, disturbed>>
  BY <1>6, <1>7 DEF add_publish, Goto, Fault
<1>9. /\ Len(entries') = L + 1
      /\ \A i \in 1..L : entries'[i] = entries[i]
      /\ entries'[L + 1] = n
      /\ \A i \in 0..L : At(entries', i) = At(entries, i)
      /\ At(entries', L + 1) = n /\ At(entries', L + 2) = head
  BY <1>4, <1>8, AtAppend
<1>10. \A i \in 1..L + 1 : i = L + 1 \/ i \in 1..L BY <1>5
<1>11. Distinct'
  <2>1. \A i \in 1..L : entries[i] # n /\ fdOf[entries[i]] # fdOf[n]
    BY <1>4 DEF OnList, Listed
  <2>2. \A i \in 1..L + 1 : entries'[i] \in used' BY <1>4, <1>5, <1>8, <1>9, <1>10
  <2>3. \A i, j \in 1..L + 1 :
          entries'[i] = entries'[j] \/ fdOf[entries'[i]] = fdOf[entries'[j]] => i = j
    BY <1>3, <1>9, <1>10, <2>1 DEF Distinct
  <2> QED BY <1>8, <1>9, <2>2, <2>3 DEF Distinct
<1>12. /\ \A i \in 0..L : At(entries, i) # n
       /\ L \in 0..L /\ At(entries, L) \in Node \cup {head} /\ n \in Node \cup {head}
  BY <1>4, <1>5 DEF At, OnList
<1>13. /\ next'[At(entries, L)] = n /\ next'[n] = head
       /\ \A i \in 0..L : i # L => next'[At(entries, i)] = next[At(entries, i)]
  BY <1>4, <1>5, <1>8, <1>12
<1>14. Forward'
  <2> SUFFICES ASSUME NEW i \in 0..L + 1 PROVE next'[At(entries', i)] = At(entries', i + 1)
    BY <1>9 DEF Forward
  <2>1. CASE i = L + 1
    <3>1. i + 1 = L + 2 BY <1>5, <2>1
    <3> QED BY <1>9, <1>13, <2>1, <3>1
  <2>2. CASE i = L BY <1>9, <1>12, <1>13, <2>2
  <2>3. CASE i < L
    <3>1. i \in 0..L /\ i + 1 \in 0..L /\ i # L BY <1>5, <2>3
    <3> QED BY <1>3, <1>9, <1>13, <3>1 DEF Forward
  <2> QED BY <1>5, <2>1, <2>2, <2>3
<1>15. pc'[t] = "tail" /\ item'[t] = n /\ Others(t) BY <1>4, <1>8 DEF Others
<1>16. \A i \in 0..Len(entries') :
         prev'[At(entries', i + 1)] =
           IF i > 0 /\ pc'[t] \in {"tail", "unlink_next"} /\ item'[t] = At(entries', i)
           THEN At(entries', i - 1) ELSE At(entries', i)
  <2> SUFFICES ASSUME NEW i \in 0..L + 1
               PROVE  prev[At(entries', i + 1)] = IF i > 0 /\ n = At(entries', i)
                                                  THEN At(entries', i - 1) ELSE At(entries', i)
    BY <1>8, <1>9, <1>15
  <2>1. CASE i = L + 1
    <3>1. i + 1 = L + 2 /\ i - 1 = L /\ i > 0 BY <1>5, <2>1
    <3> QED BY <1>6, <1>9, <1>12, <2>1, <3>1
  <2>2. CASE i = L BY <1>4, <1>9, <1>12, <2>2
  <2>3. CASE i < L
    <3>1. i \in 0..L /\ i + 1 \in 0..L BY <1>5, <2>3
    <3>2. prev[At(entries, i + 1)] = At(entries, i) BY <1>3, <3>1 DEF Backward
    <3> QED BY <1>9, <1>12, <3>1, <3>2
  <2> QED BY <1>5, <2>1, <2>2, <2>3
<1>17. InHand(t)'
  <2>1. Len(entries') > 0 /\ item'[t] = entries'[Len(entries')] /\ fdOf'[item'[t]] = fd'[t]
    BY <1>4, <1>5, <1>8, <1>9, <1>15
  <2> QED BY <1>15, <2>1 DEF InHand
<1>18. \A f : f # fd[t] => (Listed(f)' <=> Listed(f))
  BY <1>4, <1>8, <1>9, <1>10, <1>5 DEF Listed
<1>19. ASSUME NEW u \in Thread \ {t}, pc[u] = "query", ~ disturbed'[u] PROVE Walked(u)'
  <2>1. Walked(u) /\ fd[u] # fd[t] BY <1>1, <1>3, <1>8, <1>19 DEF Apart
  <2>2. CASE item[u] = head /\ ~ Listed(fd[u])
    <3>1. ~ Listed(fd[u])' BY <1>18, <2>1, <2>2, <1>8
    <3> QED BY <1>8, <2>2, <3>1 DEF Walked
  <2>3. ASSUME NEW i \in 1..L, item[u] = entries[i], \A j \in 1..(i - 1) : fdOf[entries[j]] # fd[u]
        PROVE  Walked(u)'
    <3>1. i \in 1..L + 1 /\ \A j \in 1..(i - 1) : j \in 1..L BY <1>5
    <3> QED BY <1>8, <1>9, <2>3, <3>1 DEF Walked
  <2> QED BY <2>1, <2>2, <2>3 DEF Walked
<1>20. \A f \in Fd : (Changing(t)' => fd'[t] # f) => (f \in recorded' <=> Listed(f)')
  <2>1. Changing(t)' BY <1>15 DEF Changing, Adding
  <2> QED BY <1>3, <1>8, <1>18, <2>1
<1> QED BY <1>3, <1>11, <1>14, <1>15, <1>16, <1>17, <1>19, <1>20, RingAfter
\* The head is linked back to the new node.
LEMMA RingTail ==
  ASSUME TypeOK, Ring, NEW t \in Thread, add_tail(t)
  PROVE  Ring'
<1> DEFINE L == Len(entries)
           n == item[t]
<1> SUFFICES ASSUME ~ raced' PROVE Ring' BY DEF Ring
<1>1. /\ pc[t] = "tail" /\ pc' = [pc EXCEPT ![t] = "idle"]
      /\ prev' = [prev EXCEPT ![head] = n] /\ recorded' = recorded \cup {fd[t]}
      /\ UNCHANGED <<next, fdOf, used, fd, item, entries, raced, disturbed>>
  BY DEF add_tail, Goto
<1>2. ~ raced /\ Changing(t) BY <1>1 DEF Changing, Adding
<1>3. /\ \A u \in Thread \ {t} : ~ Changing(u)
      /\ \A m : Skipped(m) <=> n = m
      /\ Distinct /\ Forward /\ Backward /\ InHand(t)
      /\ \A f \in Fd : f # fd[t] => (f \in recorded <=> Listed(f))
      /\ \A u \in Thread \ {t} : pc[u] = "query" /\ ~ disturbed[u] => Walked(u)
  BY <1>1, <1>2, ChangerFacts
<1>4. /\ L > 0 /\ n = entries[L] /\ fdOf[n] = fd[t]
      /\ prev \in [Node \cup {head} -> Node \cup {head, NULL}] /\ pc \in [Thread -> Place]
  BY <1>1, <1>3 DEF InHand, TypeOK
<1>5. /\ L \in Nat /\ At(entries, L + 1) = head /\ At(entries, L) = n
      /\ \A i \in 0..L + 1 : At(entries, i) \in Node \cup {head}
      /\ \A i, j \in 0..L : At(entries, i) = At(entries, j) => i = j
      /\ \A i, j \in 1..L + 1 : At(entries, i) = At(entries, j) => i = j
  BY <1>3, <1>4, AtFacts DEF At
<1>6. Distinct' /\ Forward' BY <1>1, <1>3 DEF Distinct, Forward
<1>7. pc'[t] = "idle" /\ Others(t) BY <1>1, <1>4 DEF Others
<1>8. \A i \in 0..L : prev'[At(entries, i + 1)] = At(entries, i)
  <2> SUFFICES ASSUME NEW i \in 0..L PROVE prev'[At(entries, i + 1)] = At(entries, i) OBVIOUS
  <2>1. CASE i = L BY <1>1, <1>4, <1>5, <2>1
  <2>2. CASE i # L
    <3>1. i \in 0..L /\ L \in 0..L /\ i + 1 \in 0..L + 1 BY <1>5, <2>2
    <3>2. i + 1 \in 1..L + 1 /\ L + 1 \in 1..L + 1 /\ i + 1 # L + 1 BY <1>5, <2>2
    <3>3. At(entries, i + 1) # head /\ At(entries, i) # n /\ At(entries, i + 1) \in Node \cup {head}
      BY <1>5, <2>2, <3>1, <3>2
    <3>4. prev[At(entries, i + 1)] = At(entries, i) BY <1>3, <3>3 DEF Backward
    <3> QED BY <1>1, <1>4, <3>3, <3>4
  <2> QED BY <2>1, <2>2
<1>9. InHand(t)' BY <1>7 DEF InHand
<1>10. \A u \in Thread \ {t} : pc[u] = "query" /\ ~ disturbed'[u] => Walked(u)'
  BY <1>1, <1>3 DEF Walked, Listed
<1>11. Listed(fd[t])
  <2>1. L \in 1..L BY <1>4, <1>5
  <2> QED BY <1>4, <2>1 DEF Listed
<1>12. \A f \in Fd : f \in recorded' <=> Listed(f)'
  <2>1. \A f : Listed(f)' <=> Listed(f) BY <1>1 DEF Listed
  <2> QED BY <1>1, <1>3, <1>11, <2>1
<1>13. \A i \in 0..Len(entries') :
         prev'[At(entries', i + 1)] =
           IF i > 0 /\ pc'[t] \in {"tail", "unlink_next"} /\ item'[t] = At(entries', i)
           THEN At(entries', i - 1) ELSE At(entries', i)
  BY <1>1, <1>7, <1>8
<1> QED BY <1>3, <1>6, <1>7, <1>9, <1>10, <1>12, <1>13, RingAfter

\* A removal begins.
LEMMA RingRemove ==
  ASSUME TypeOK, Ring, NEW t \in Thread, NEW f \in Fd, remove_by_fd(t, f)
  PROVE  Ring'
<1> SUFFICES ASSUME ~ raced' PROVE Ring' BY DEF Ring
<1>1. /\ pc[t] = "idle" /\ pc' = [pc EXCEPT ![t] = "find_first"] /\ fd' = [fd EXCEPT ![t] = f]
      /\ raced' = (raced \/ \E u \in Thread \ {t} : Changing(u))
      /\ disturbed' = [u \in Thread |-> IF u = t THEN \E w \in Thread \ {t} : Removing(w)
                                        ELSE disturbed[u] \/ pc[u] # "idle"]
      /\ UNCHANGED <<next, prev, fdOf, used, item, recorded, entries>>
  BY DEF remove_by_fd, Begin, Goto, BeginChange, Disturb, links
<1>2. ~ raced /\ \A u \in Thread \ {t} : ~ Changing(u) BY <1>1
<1>3. \A u \in Thread : ~ Changing(u) BY <1>1, <1>2 DEF Changing, Adding, Removing
<1>4. Distinct /\ Forward /\ Backward BY <1>2 DEF Ring
<1>5. \A m : ~ Skipped(m) BY <1>3 DEF Skipped, Changing, Adding, Removing
<1>6. Distinct' /\ Forward' BY <1>1, <1>4 DEF Distinct, Forward
<1>7. pc'[t] = "find_first" /\ Others(t) BY <1>1 DEF Others, TypeOK
<1>8. InHand(t)' BY <1>7 DEF InHand
<1>9. \A i \in 0..Len(entries) : prev'[At(entries, i + 1)] = At(entries, i)
  BY <1>1, <1>4, <1>5 DEF Backward
<1>10. \A u \in Thread \ {t} : pc[u] = "query" /\ ~ disturbed'[u] => Walked(u)' BY <1>1
<1>11. \A g \in Fd : g \in recorded' <=> Listed(g)'
  <2>1. \A g \in Fd : g \in recorded <=> Listed(g) BY <1>2, <1>3 DEF Ring
  <2> QED BY <1>1, <2>1 DEF Listed
<1>12. \A i \in 0..Len(entries') :
         prev'[At(entries', i + 1)] =
           IF i > 0 /\ pc'[t] \in {"tail", "unlink_next"} /\ item'[t] = At(entries', i)
           THEN At(entries', i - 1) ELSE At(entries', i)
  BY <1>1, <1>7, <1>9
<1> QED BY <1>2, <1>6, <1>7, <1>8, <1>10, <1>11, <1>12, RingAfter

\* The walk of a removal, up to where it has found the node or is back at the
\* head.
LEMMA RingFind ==
  ASSUME TypeOK, Ring, NEW t \in Thread,
         \/ walk_first(t, "find_first", "find") \/ walk_on(t, "find")
         \/ remove_none(t) \/ remove_found(t)
  PROVE  Ring'
<1> SUFFICES ASSUME ~ raced' PROVE Ring' BY DEF Ring
<1>1. /\ pc[t] \in {"find_first", "find"}
      /\ UNCHANGED <<next, prev, fdOf, used, fd, entries, raced, disturbed>>
  BY DEF walk_first, walk_on, remove_none, remove_found, Goto, Fault, links, history
<1>2. ~ raced /\ Changing(t) BY <1>1 DEF Changing, Removing
<1>3. /\ \A u \in Thread \ {t} : ~ Changing(u)
      /\ \A m : ~ Skipped(m)
      /\ Distinct /\ Forward /\ Backward /\ InHand(t)
      /\ \A f \in Fd : f # fd[t] => (f \in recorded <=> Listed(f))
      /\ \A u \in Thread \ {t} : pc[u] = "query" /\ ~ disturbed[u] => Walked(u)
  BY <1>1, <1>2, ChangerFacts
<1>4. pc \in [Thread -> Place] /\ item \in [Thread -> Node \cup {head, NULL}] BY DEF TypeOK
<1>5. Distinct' /\ Forward' BY <1>1, <1>3 DEF Distinct, Forward
<1>6. \A i \in 0..Len(entries) : prev'[At(entries, i + 1)] = At(entries, i)
  BY <1>1, <1>3 DEF Backward
<1>7. \A f : Listed(f)' <=> Listed(f) BY <1>1 DEF Listed
<1>8. ASSUME Others(t), InHand(t)', pc'[t] \notin {"tail", "unlink_next"},
             \A f \in Fd : (Changing(t)' => fd[t] # f) => (f \in recorded' <=> Listed(f))
      PROVE  Ring'
  <2>1. \A u \in Thread \ {t} : pc[u] = "query" /\ ~ disturbed'[u] => Walked(u)'
    BY <1>1, <1>3, <1>8, <1>7 DEF Walked, Others
  <2>2. \A i \in 0..Len(entries') :
          prev'[At(entries', i + 1)] =
            IF i > 0 /\ pc'[t] \in {"tail", "unlink_next"} /\ item'[t] = At(entries', i)
            THEN At(entries', i - 1) ELSE At(entries', i)
    BY <1>1, <1>6, <1>8
  <2>3. \A f \in Fd : (Changing(t)' => fd'[t] # f) => (f \in recorded' <=> Listed(f)')
    BY <1>1, <1>7, <1>8
  <2> QED BY <1>3, <1>5, <1>8, <2>1, <2>2, <2>3, RingAfter
<1>9. CASE walk_first(t, "find_first", "find")
  <2>1. /\ pc' = [pc EXCEPT ![t] = "find"] /\ item' = [item EXCEPT ![t] = next[head]]
        /\ UNCHANGED recorded
    BY <1>9 DEF walk_first, Goto, history
  <2>2. pc'[t] = "find" /\ Others(t) BY <1>1, <1>4, <2>1 DEF Others
  <2>3. Walked(t)' BY <1>1, <1>2, <2>1, WalkFirst
  <2>4. InHand(t)' /\ Changing(t)' BY <2>2, <2>3 DEF InHand, Changing, Removing
  <2> QED BY <1>3, <1>8, <2>1, <2>2, <2>4
<1>10. CASE walk_on(t, "find")
  <2>1. CASE Fault(t, "find") BY <2>1, RingSame DEF Fault, links, history
  <2>2. CASE ~ Fault(t, "find")
    <3>1. /\ item[t] \in used /\ fdOf[item[t]] # fd[t]
          /\ pc[t] = "find" /\ pc' = [pc EXCEPT ![t] = "find"]
          /\ item' = [item EXCEPT ![t] = next[item[t]]]
          /\ UNCHANGED recorded
      BY <1>10, <2>2 DEF walk_on, Goto, history
    <3>2. pc'[t] = "find" /\ Others(t) BY <1>1, <1>4, <3>1 DEF Others
    <3>3. Walked(t) BY <1>3, <3>1 DEF InHand
    <3>4. Walked(t)' BY <1>1, <1>2, <3>1, <3>3, WalkOn
    <3>5. InHand(t)' /\ Changing(t)' BY <3>2, <3>4 DEF InHand, Changing, Removing
    <3> QED BY <1>3, <1>8, <3>1, <3>2, <3>5
  <2> QED BY <2>1, <2>2
<1>11. CASE remove_none(t)
  <2>1. /\ item[t] = head /\ pc[t] = "find" /\ pc' = [pc EXCEPT ![t] = "idle"]
        /\ recorded' = recorded \ {fd[t]} /\ UNCHANGED item
    BY <1>11 DEF remove_none, NotThere, Goto
  <2>2. pc'[t] = "idle" /\ Others(t) BY <1>1, <1>4, <2>1 DEF Others
  <2>3. ~ Listed(fd[t])
    <3>1. Walked(t) BY <1>3, <2>1 DEF InHand
    <3>2. \A i \in 1..Len(entries) : entries[i] # head BY <1>3, AtFacts
    <3> QED BY <2>1, <3>1, <3>2 DEF Walked
  <2>4. InHand(t)' /\ ~ Changing(t)' BY <2>2 DEF InHand, Changing, Adding, Removing
  <2>5. \A f \in Fd : f \in recorded' <=> Listed(f) BY <1>3, <2>1, <2>3
  <2> QED BY <1>8, <2>2, <2>4, <2>5
<1>12. CASE remove_found(t)
  <2>1. /\ Found(t) /\ pc[t] = "find" /\ pc' = [pc EXCEPT ![t] = "unlink_prev"]
        /\ UNCHANGED <<item, recorded>>
    BY <1>12 DEF remove_found, Goto
  <2>2. pc'[t] = "unlink_prev" /\ Others(t) BY <1>1, <1>4, <2>1 DEF Others
  <2>3. OnList(item[t])
    <3>1. Walked(t) BY <1>3, <2>1 DEF InHand
    <3>2. item[t] # head BY <2>1, NodeFacts DEF Found, TypeOK
    <3> QED BY <3>1, <3>2 DEF Walked, OnList
  <2>4. InHand(t)' /\ Changing(t)'
    <3>1. OnList(item[t])' BY <1>1, <2>1, <2>3 DEF OnList
    <3>2. fdOf'[item'[t]] = fd'[t] BY <1>1, <2>1 DEF Found
    <3> QED BY <2>2, <3>1, <3>2 DEF InHand, Changing, Removing
  <2> QED BY <1>3, <1>8, <2>1, <2>2, <2>4
<1> QED BY <1>9, <1>10, <1>11, <1>12
\* The node behind is linked back past the one that goes.
LEMMA RingUnlinkPrev ==
  ASSUME TypeOK, Ring, NEW t \in Thread, unlink_prev(t)
  PROVE  Ring' /\ (~ raced => UNCHANGED wild)
<1> DEFINE L == Len(entries)
           n == item[t]
<1>0. pc[t] = "unlink_prev" /\ raced' = raced
  BY DEF unlink_prev, Goto, Fault, history
<1> SUFFICES ASSUME ~ raced PROVE Ring' /\ UNCHANGED wild BY <1>0 DEF Ring
<1>1. Changing(t) BY <1>0 DEF Changing, Removing
<1>2. /\ \A u \in Thread \ {t} : ~ Changing(u)
      /\ \A m : ~ Skipped(m)
      /\ Distinct /\ Forward /\ Backward /\ InHand(t)
      /\ \A f \in Fd : f # fd[t] => (f \in recorded <=> Listed(f))
      /\ \A u \in Thread \ {t} : pc[u] = "query" /\ ~ disturbed[u] => Walked(u)
  BY <1>0, <1>1, ChangerFacts
<1>3. PICK k \in 1..L : entries[k] = n BY <1>0, <1>2 DEF InHand, OnList
<1>4. /\ L \in Nat /\ At(entries, k) = n /\ n \in used
      /\ \A i \in 0..L + 1 : At(entries, i) \in Node \cup {head}
      /\ \A i \in 1..L : At(entries, i) \in used
      /\ At(entries, L + 1) = head
      /\ \A i, j \in 0..L : At(entries, i) = At(entries, j) => i = j
      /\ \A i, j \in 1..L + 1 : At(entries, i) = At(entries, j) => i = j
  BY <1>2, <1>3, AtFacts
<1>5. k \in 0..L /\ k + 1 \in 1..L + 1 /\ k + 1 \in 0..L + 1 /\ k - 1 \in 0..L /\ (k - 1) + 1 = k
  BY <1>3, <1>4
<1>6. next[n] = At(entries, k + 1) /\ prev[n] = At(entries, k - 1)
  BY <1>2, <1>4, <1>5 DEF Forward, Backward
<1>7. Live(next[n])
  <2>1. k + 1 = L + 1 \/ k + 1 \in 1..L BY <1>3, <1>4
  <2> QED BY <1>4, <1>6, <2>1 DEF Live
<1>8. /\ prev' = [prev EXCEPT ![At(entries, k + 1)] = At(entries, k - 1)]
      /\ pc' = [pc EXCEPT ![t] = "unlink_next"]
      /\ UNCHANGED <<next, fdOf, used, fd, item, wild, recorded, entries, raced, disturbed>>
  BY <1>4, <1>6, <1>7 DEF unlink_prev, Goto, Fault, history
<1>9. pc'[t] = "unlink_next" /\ Others(t) BY <1>8 DEF Others, TypeOK
<1>10. Distinct' /\ Forward' BY <1>2, <1>8 DEF Distinct, Forward
<1>11. InHand(t)'
  <2>1. OnList(n)' /\ fdOf[n] = fd[t] BY <1>0, <1>2, <1>8 DEF InHand, OnList
  <2> QED BY <1>8, <1>9, <2>1 DEF InHand
<1>12. \A i \in 0..L :
         prev'[At(entries, i + 1)] = IF i > 0 /\ n = At(entries, i)
                                     THEN At(entries, i - 1) ELSE At(entries, i)
  <2> SUFFICES ASSUME NEW i \in 0..L
               PROVE  prev'[At(entries, i + 1)] = IF i > 0 /\ n = At(entries, i)
                                                  THEN At(entries, i - 1) ELSE At(entries, i)
    OBVIOUS
  <2>1. prev \in [Node \cup {head} -> Node \cup {head, NULL}] BY DEF TypeOK
  <2>2. CASE i = k BY <1>3, <1>4, <1>5, <1>8, <2>1, <2>2
  <2>3. CASE i # k
    <3>1. i + 1 \in 1..L + 1 /\ i + 1 \in 0..L + 1 /\ i + 1 # k + 1 BY <1>3, <1>4, <2>3
    <3>2. At(entries, i + 1) # At(entries, k + 1) /\ At(entries, i) # n
      BY <1>4, <1>5, <2>3, <3>1
    <3>3. prev[At(entries, i + 1)] = At(entries, i) BY <1>2 DEF Backward
    <3> QED BY <1>4, <1>8, <2>1, <3>1, <3>2, <3>3
  <2> QED BY <2>2, <2>3
<1>13. \A i \in 0..Len(entries') :
         prev'[At(entries', i + 1)] =
           IF i > 0 /\ pc'[t] \in {"tail", "unlink_next"} /\ item'[t] = At(entries', i)
           THEN At(entries', i - 1) ELSE At(entries', i)
  BY <1>8, <1>9, <1>12
<1>14. \A u \in Thread \ {t} : pc[u] = "query" /\ ~ disturbed'[u] => Walked(u)'
  BY <1>2, <1>8 DEF Walked, Listed
<1>15. \A f \in Fd : (Changing(t)' => fd'[t] # f) => (f \in recorded' <=> Listed(f)')
  <2>1. Changing(t)' BY <1>9 DEF Changing, Removing
  <2> QED BY <1>2, <1>8, <2>1 DEF Listed
<1> QED BY <1>2, <1>8, <1>9, <1>10, <1>11, <1>13, <1>14, <1>15, RingAfter

\* The node ahead is linked past the one that goes, and the list is without it.
LEMMA RingUnlinkNext ==
  ASSUME TypeOK, Quiet, Ring, NEW t \in Thread, unlink_next(t)
  PROVE  Ring' /\ (~ raced => UNCHANGED wild)
<1> DEFINE L == Len(entries)
           n == item[t]
<1>0. pc[t] = "unlink_next" /\ raced' = raced
  BY DEF unlink_next, Goto, Fault, history
<1> SUFFICES ASSUME ~ raced PROVE Ring' /\ UNCHANGED wild BY <1>0 DEF Ring
<1>1. Changing(t) /\ Removing(t) BY <1>0 DEF Changing, Removing
<1>2. /\ \A u \in Thread \ {t} : ~ Changing(u)
      /\ \A m : Skipped(m) <=> n = m
      /\ Distinct /\ Forward /\ Backward /\ InHand(t)
      /\ \A f \in Fd : f # fd[t] => (f \in recorded <=> Listed(f))
  BY <1>0, <1>1, ChangerFacts
<1>3. PICK k \in 1..L : entries[k] = n BY <1>0, <1>2 DEF InHand, OnList
<1>4. /\ L \in Nat /\ At(entries, k) = n /\ n \in used /\ At(entries, 0) = head
      /\ \A i \in 0..L + 1 : At(entries, i) \in Node \cup {head}
      /\ \A i \in 1..L : At(entries, i) \in used /\ entries[i] \in used
      /\ At(entries, L + 1) = head
      /\ \A i, j \in 0..L : At(entries, i) = At(entries, j) => i = j
  BY <1>2, <1>3, AtFacts
<1>5. k \in 0..L /\ k - 1 \in 0..L /\ (k - 1) + 1 = k /\ k > 0 BY <1>3, <1>4
<1>6. At(entries, k - 1) # n /\ next[n] = At(entries, k + 1) /\ prev[n] = At(entries, k - 1)
  <2>1. At(entries, k - 1) # n BY <1>4, <1>5
  <2>2. prev[At(entries, (k - 1) + 1)] = At(entries, k - 1) BY <1>2, <1>5, <2>1 DEF Backward
  <2> QED BY <1>2, <1>4, <1>5, <2>1, <2>2 DEF Forward
<1>7. Live(prev[n])
  <2>1. k - 1 = 0 \/ k - 1 \in 1..L BY <1>3, <1>4
  <2> QED BY <1>4, <1>6, <2>1 DEF Live
<1>8. /\ next' = [next EXCEPT ![At(entries, k - 1)] = At(entries, k + 1)]
      /\ entries' = Without(n)
      /\ pc' = [pc EXCEPT ![t] = "free"]
      /\ UNCHANGED <<prev, fdOf, used, fd, item, wild, recorded, raced, disturbed>>
  BY <1>4, <1>6, <1>7 DEF unlink_next, Goto, Fault
<1>9. /\ Len(entries') = L - 1
      /\ \A i \in 1..(L - 1) : entries'[i] = IF i < k THEN entries[i] ELSE entries[i + 1]
      /\ \A i \in 0..L : At(entries', i) = IF i < k THEN At(entries, i) ELSE At(entries, i + 1)
  BY <1>2, <1>3, <1>8, AtWithout
<1>10. pc'[t] = "free" /\ Others(t) BY <1>8 DEF Others, TypeOK
<1>11. Distinct'
  <2> DEFINE o(i) == IF i < k THEN i ELSE i + 1
  <2>1. \A i \in 1..(L - 1) : o(i) \in 1..L /\ entries'[i] = entries[o(i)]
    BY <1>3, <1>4, <1>9
  <2>2. \A i, j \in 1..(L - 1) : o(i) = o(j) => i = j BY <1>3, <1>4
  <2> HIDE DEF o
  <2>3. \A i \in 1..(L - 1) : entries'[i] \in used BY <1>4, <2>1
  <2>4. \A i, j \in 1..(L - 1) :
          entries'[i] = entries'[j] \/ fdOf[entries'[i]] = fdOf[entries'[j]] => i = j
    <3> SUFFICES ASSUME NEW i \in 1..(L - 1), NEW j \in 1..(L - 1),
                        entries'[i] = entries'[j] \/ fdOf[entries'[i]] = fdOf[entries'[j]]
                 PROVE  i = j
      OBVIOUS
    <3>1. entries[o(i)] = entries[o(j)] \/ fdOf[entries[o(i)]] = fdOf[entries[o(j)]] BY <2>1
    <3>2. o(i) \in 1..L /\ o(j) \in 1..L BY <2>1
    <3>3. o(i) = o(j) BY <1>2, <3>1, <3>2 DEF Distinct
    <3> QED BY <2>2, <3>3
  <2> QED BY <1>8, <1>9, <2>3, <2>4 DEF Distinct
<1>12. Forward'
  <2> SUFFICES ASSUME NEW i \in 0..(L - 1) PROVE next'[At(entries', i)] = At(entries', i + 1)
    BY <1>9 DEF Forward
  <2>1. next \in [Node \cup {head} -> Node \cup {head, NULL}] BY DEF TypeOK
  <2>2. i \in 0..L /\ i + 1 \in 0..L /\ i + 1 \in 0..L + 1 BY <1>4
  <2>3. CASE i = k - 1
    <3>1. i < k /\ ~ (i + 1 < k) /\ i + 1 = k BY <1>3, <1>4, <2>3
    <3>2. At(entries', i) = At(entries, k - 1) /\ At(entries', i + 1) = At(entries, k + 1)
      BY <1>9, <2>2, <2>3, <3>1
    <3>3. At(entries, k - 1) \in Node \cup {head} BY <1>4, <2>2, <2>3
    <3> QED BY <1>8, <2>1, <3>2, <3>3
  <2>4. CASE i < k - 1
    <3>1. i < k /\ i + 1 < k /\ i # k - 1 BY <1>3, <1>4, <2>4
    <3>2. At(entries', i) = At(entries, i) /\ At(entries', i + 1) = At(entries, i + 1)
      BY <1>9, <2>2, <3>1
    <3>3. At(entries, i) # At(entries, k - 1) /\ At(entries, i) \in Node \cup {head}
      BY <1>4, <1>5, <2>2, <3>1
    <3> QED BY <1>2, <1>8, <2>1, <2>2, <3>2, <3>3 DEF Forward
  <2>5. CASE i > k - 1
    <3>1. ~ (i < k) /\ ~ (i + 1 < k) /\ i + 1 # k - 1 BY <1>3, <1>4, <2>5
    <3>2. At(entries', i) = At(entries, i + 1) /\ At(entries', i + 1) = At(entries, (i + 1) + 1)
      BY <1>9, <2>2, <3>1
    <3>3. At(entries, i + 1) # At(entries, k - 1) /\ At(entries, i + 1) \in Node \cup {head}
      BY <1>4, <1>5, <2>2, <3>1
    <3> QED BY <1>2, <1>8, <2>1, <2>2, <3>2, <3>3 DEF Forward
  <2> QED BY <1>3, <1>4, <2>3, <2>4, <2>5
<1>13. \A i \in 0..(L - 1) : prev[At(entries', i + 1)] = At(entries', i)
  <2> SUFFICES ASSUME NEW i \in 0..(L - 1) PROVE prev[At(entries', i + 1)] = At(entries', i)
    OBVIOUS
  <2>2. i \in 0..L /\ i + 1 \in 0..L BY <1>4
  <2>3. CASE i = k - 1
    <3>1. i < k /\ ~ (i + 1 < k) /\ i + 1 = k BY <1>3, <1>4, <2>3
    <3>2. At(entries', i) = At(entries, k - 1) /\ At(entries', i + 1) = At(entries, k + 1)
      BY <1>9, <2>2, <2>3, <3>1
    <3>3. prev[At(entries, k + 1)] = At(entries, k - 1)
      <4>1. Skipped(At(entries, k)) BY <1>2, <1>4
      <4> QED BY <1>2, <1>5, <4>1 DEF Backward
    <3> QED BY <2>3, <3>1, <3>2, <3>3
  <2>4. CASE i < k - 1
    <3>1. i < k /\ i + 1 < k /\ i # k BY <1>3, <1>4, <2>4
    <3>2. At(entries', i) = At(entries, i) /\ At(entries', i + 1) = At(entries, i + 1)
      BY <1>9, <2>2, <3>1
    <3>3. At(entries, i) # n BY <1>4, <1>5, <2>2, <3>1
    <3> QED BY <1>2, <2>2, <3>2, <3>3 DEF Backward
  <2>5. CASE i > k - 1
    <3>1. ~ (i < k) /\ ~ (i + 1 < k) /\ i + 1 # k BY <1>3, <1>4, <2>5
    <3>2. At(entries', i) = At(entries, i + 1) /\ At(entries', i + 1) = At(entries, (i + 1) + 1)
      BY <1>9, <2>2, <3>1
    <3>3. At(entries, i + 1) # n BY <1>4, <1>5, <2>2, <3>1
    <3> QED BY <1>2, <2>2, <3>2, <3>3 DEF Backward
  <2> QED BY <1>3, <1>4, <2>3, <2>4, <2>5
<1>14. \A i \in 0..Len(entries') :
         prev'[At(entries', i + 1)] =
           IF i > 0 /\ pc'[t] \in {"tail", "unlink_next"} /\ item'[t] = At(entries', i)
           THEN At(entries', i - 1) ELSE At(entries', i)
  BY <1>8, <1>9, <1>10, <1>13
<1>15. \A i \in 1..(L - 1) : entries'[i] # n /\ fdOf[entries'[i]] # fdOf[n]
  <2> SUFFICES ASSUME NEW i \in 1..(L - 1) PROVE entries'[i] # n /\ fdOf[entries'[i]] # fdOf[n]
    OBVIOUS
  <2>1. CASE i < k
    <3>1. i \in 1..L /\ i # k BY <1>4, <2>1
    <3> QED BY <1>2, <1>3, <1>9, <2>1, <3>1 DEF Distinct
  <2>2. CASE ~ (i < k)
    <3>1. i + 1 \in 1..L /\ i + 1 # k BY <1>3, <1>4, <2>2
    <3> QED BY <1>2, <1>3, <1>9, <2>2, <3>1 DEF Distinct
  <2> QED BY <2>1, <2>2
<1>16. fdOf[n] = fd[t] BY <1>0, <1>2 DEF InHand
<1>17. InHand(t)'
  <2>1. ~ OnList(n)' /\ ~ Listed(fd[t])' BY <1>8, <1>9, <1>15, <1>16 DEF OnList, Listed
  <2> QED BY <1>8, <1>10, <2>1 DEF InHand
<1>18. \A u \in Thread \ {t} : pc[u] = "query" /\ ~ disturbed'[u] => Walked(u)'
  BY <1>1, <1>8 DEF Quiet
<1>19. \A f \in Fd : f # fd[t] => (Listed(f)' <=> Listed(f))
  <2> SUFFICES ASSUME NEW f \in Fd, f # fd[t] PROVE Listed(f)' <=> Listed(f) OBVIOUS
  <2>1. ASSUME NEW i \in 1..(L - 1), fdOf[entries'[i]] = f PROVE Listed(f)
    <3>1. i \in 1..L /\ (~ (i < k) => i + 1 \in 1..L) BY <1>3, <1>4
    <3> QED BY <1>9, <2>1, <3>1 DEF Listed
  <2>2. ASSUME NEW i \in 1..L, fdOf[entries[i]] = f PROVE Listed(f)'
    <3>1. i # k BY <1>3, <1>16, <2>2
    <3>2. CASE i < k
      <4>1. i \in 1..(L - 1) BY <1>3, <1>4, <3>2
      <4> QED BY <1>8, <1>9, <2>2, <3>2, <4>1 DEF Listed
    <3>3. CASE i > k
      <4>1. i - 1 \in 1..(L - 1) /\ ~ (i - 1 < k) /\ (i - 1) + 1 = i BY <1>3, <1>4, <3>3
      <4>2. entries'[i - 1] = entries[i] BY <1>9, <4>1
      <4> QED BY <1>8, <1>9, <2>2, <4>1, <4>2 DEF Listed
    <3> QED BY <1>3, <1>4, <3>1, <3>2, <3>3
  <2> QED BY <1>8, <1>9, <2>1, <2>2 DEF Listed
<1>20. \A f \in Fd : (Changing(t)' => fd'[t] # f) => (f \in recorded' <=> Listed(f)')
  <2>1. Changing(t)' BY <1>10 DEF Changing, Removing
  <2> QED BY <1>2, <1>8, <1>19, <2>1
<1> QED BY <1>2, <1>8, <1>10, <1>11, <1>12, <1>14, <1>17, <1>18, <1>20, RingAfter

\* The memory is given back.
LEMMA RingFree ==
  ASSUME TypeOK, Ring, NEW t \in Thread, free(t)
  PROVE  Ring'
<1> SUFFICES ASSUME ~ raced' PROVE Ring' BY DEF Ring
<1>1. /\ pc[t] = "free" /\ pc' = [pc EXCEPT ![t] = "idle"]
      /\ used' = used \ {item[t]} /\ recorded' = recorded \ {fd[t]}
      /\ UNCHANGED <<next, prev, fdOf, fd, item, entries, raced, disturbed>>
  BY DEF free, Goto
<1>2. ~ raced /\ Changing(t) BY <1>1 DEF Changing, Removing
<1>3. /\ \A u \in Thread \ {t} : ~ Changing(u)
      /\ \A m : ~ Skipped(m)
      /\ Distinct /\ Forward /\ Backward /\ InHand(t)
      /\ \A f \in Fd : f # fd[t] => (f \in recorded <=> Listed(f))
      /\ \A u \in Thread \ {t} : pc[u] = "query" /\ ~ disturbed[u] => Walked(u)
  BY <1>1, <1>2, ChangerFacts
<1>4. ~ OnList(item[t]) /\ ~ Listed(fd[t]) BY <1>1, <1>3 DEF InHand
<1>5. pc'[t] = "idle" /\ Others(t) BY <1>1 DEF Others, TypeOK
<1>6. Distinct' BY <1>1, <1>3, <1>4 DEF Distinct, OnList
<1>7. Forward' BY <1>1, <1>3 DEF Forward
<1>8. \A i \in 0..Len(entries') :
        prev'[At(entries', i + 1)] =
          IF i > 0 /\ pc'[t] \in {"tail", "unlink_next"} /\ item'[t] = At(entries', i)
          THEN At(entries', i - 1) ELSE At(entries', i)
  BY <1>1, <1>3, <1>5 DEF Backward
<1>9. InHand(t)' BY <1>5 DEF InHand
<1>10. \A u \in Thread \ {t} : pc[u] = "query" /\ ~ disturbed'[u] => Walked(u)'
  BY <1>1, <1>3 DEF Walked, Listed
<1>11. \A f \in Fd : f \in recorded' <=> Listed(f)' BY <1>1, <1>3, <1>4 DEF Listed
<1> QED BY <1>3, <1>5, <1>6, <1>7, <1>8, <1>9, <1>10, <1>11, RingAfter
-----------------------------------------------------------------------------
(* Calls, pointers and the theorems.                                       *)

\* Threads on different descriptors stay on different descriptors.
LEMMA ApartStep == TypeOK /\ Apart /\ [Next]_vars => Apart'
<1> SUFFICES ASSUME TypeOK, Apart, [Next]_vars PROVE Apart' OBVIOUS
<1>1. ASSUME NEW t \in Thread, NEW f \in Fd,
             file_info_list_add(t, f) \/ query_by_fd(t, f) \/ remove_by_fd(t, f)
      PROVE  Apart'
  <2>1. /\ \A u \in Thread \ {t} : pc[u] = "idle" \/ fd[u] # f
        /\ fd' = [fd EXCEPT ![t] = f] /\ \E to : pc' = [pc EXCEPT ![t] = to]
    BY <1>1 DEF file_info_list_add, query_by_fd, remove_by_fd, Begin, Goto
  <2> QED BY <2>1 DEF Apart, TypeOK
<1>2. ASSUME NEW t \in Thread, Run(t) PROVE Apart'
  <2>1. fd' = fd /\ pc[t] # "idle" /\ (pc' = pc \/ \E to : pc' = [pc EXCEPT ![t] = to])
    BY <1>2 DEF Run, add_link, add_publish, add_tail, walk_first, walk_on, query_return,
                remove_none, remove_found, unlink_prev, unlink_next, free, Goto, Fault, links
  <2> QED BY <2>1 DEF Apart, TypeOK
<1>3. CASE UNCHANGED vars BY <1>3 DEF vars, Apart
<1> QED BY <1>1, <1>2, <1>3 DEF Next, Call

\* A removal disturbs the searches that go on when it begins, and those that
\* begin while it goes on.
LEMMA QuietStep == TypeOK /\ Quiet /\ [Next]_vars => Quiet'
<1> SUFFICES ASSUME TypeOK, Quiet, [Next]_vars PROVE Quiet' OBVIOUS
<1> USE DEF Removing
<1>1. ASSUME NEW t \in Thread, NEW f \in Fd, file_info_list_add(t, f) PROVE Quiet'
  <2>1. /\ pc[t] = "idle" /\ pc' = [pc EXCEPT ![t] = "link"]
        /\ disturbed' = [disturbed EXCEPT ![t] = \E w \in Thread \ {t} : Removing(w)]
    BY <1>1 DEF file_info_list_add, Begin, Goto, Arrive
  <2> QED BY <2>1 DEF Quiet, TypeOK
<1>2. ASSUME NEW t \in Thread, NEW f \in Fd, query_by_fd(t, f) PROVE Quiet'
  <2>1. /\ pc[t] = "idle" /\ pc' = [pc EXCEPT ![t] = "query_first"]
        /\ disturbed' = [disturbed EXCEPT ![t] = \E w \in Thread \ {t} : Removing(w)]
    BY <1>2 DEF query_by_fd, Begin, Goto, Arrive
  <2>2. pc'[t] = "query_first" /\ \A u \in Thread \ {t} : pc'[u] = pc[u] BY <2>1 DEF TypeOK
  <2>3. ~ Removing(t)' BY <2>2
  <2>4. /\ disturbed'[t] = \E w \in Thread \ {t} : Removing(w)
        /\ \A u \in Thread \ {t} : disturbed'[u] = disturbed[u]
    BY <2>1 DEF TypeOK
  <2> QED BY <2>2, <2>3, <2>4 DEF Quiet
<1>3. ASSUME NEW t \in Thread, NEW f \in Fd, remove_by_fd(t, f) PROVE Quiet'
  <2>1. /\ pc[t] = "idle" /\ pc' = [pc EXCEPT ![t] = "find_first"]
        /\ disturbed' = [u \in Thread |-> IF u = t THEN \E w \in Thread \ {t} : Removing(w)
                                          ELSE disturbed[u] \/ pc[u] # "idle"]
    BY <1>3 DEF remove_by_fd, Begin, Goto, Disturb
  <2>2. pc'[t] = "find_first" /\ \A u \in Thread \ {t} : pc'[u] = pc[u] BY <2>1 DEF TypeOK
  <2>3. \A u \in Thread \ {t} : disturbed'[u] = (disturbed[u] \/ pc[u] # "idle") BY <2>1
  <2> QED BY <2>2, <2>3 DEF Quiet
<1>4. ASSUME NEW t \in Thread, Run(t) PROVE Quiet'
  <2>1. disturbed' = disturbed
    BY <1>4 DEF Run, add_link, add_publish, add_tail, walk_first, walk_on, query_return,
                remove_none, remove_found, unlink_prev, unlink_next, free, Fault, history
  <2>2. /\ \A u \in Thread \ {t} : pc'[u] = pc[u]
        /\ Removing(t)' => Removing(t)
        /\ pc'[t] \in {"query_first", "query"} => pc[t] \in {"query_first", "query"}
    BY <1>4 DEF Run, add_link, add_publish, add_tail, walk_first, walk_on, query_return,
                remove_none, remove_found, unlink_prev, unlink_next, free, Goto, Fault, TypeOK
  <2> QED BY <2>1, <2>2 DEF Quiet
<1>5. CASE UNCHANGED vars BY <1>5 DEF vars, Quiet
<1> QED BY <1>1, <1>2, <1>3, <1>4, <1>5 DEF Next, Call

\* Every step keeps the ring, in whatever half-linked form it is.
LEMMA RingStep == TypeOK /\ Apart /\ Quiet /\ Ring /\ [Next]_vars => Ring'
<1> SUFFICES ASSUME TypeOK, Apart, Quiet, Ring, [Next]_vars PROVE Ring' OBVIOUS
<1>1. ASSUME NEW t \in Thread, Call(t) PROVE Ring'
  BY <1>1, RingAdd, RingQuery, RingRemove DEF Call
<1>2. ASSUME NEW t \in Thread, Run(t) PROVE Ring'
  BY <1>2, RingLink, RingPublish, RingTail, RingQuery, RingFind, RingUnlinkPrev,
     RingUnlinkNext, RingFree DEF Run
<1>3. CASE UNCHANGED vars BY <1>3, RingSame DEF vars
<1> QED BY <1>1, <1>2, <1>3 DEF Next

\* Who walks along a ring in one piece stands on it.
LEMMA WalkedLive ==
  ASSUME TypeOK, Distinct, NEW t \in Thread, Walked(t)
  PROVE  Live(item[t])
  BY DEF Walked, Live, Distinct

\* No step follows a pointer of a node that was freed.
LEMMA WildStep ==
  TypeOK /\ Apart /\ Quiet /\ Ring /\ NoWildPointer /\ [Next]_vars => NoWildPointer'
<1> SUFFICES ASSUME TypeOK, Apart, Quiet, Ring, NoWildPointer, [Next]_vars PROVE NoWildPointer'
  OBVIOUS
<1>1. CASE wild # {}
  <2>1. UNCHANGED <<wild, raced, disturbed>>
    BY <1>1 DEF Next, Call, Run, file_info_list_add, query_by_fd, remove_by_fd, Begin, add_link,
      add_publish, add_tail, walk_first, walk_on, query_return, remove_none, remove_found,
      unlink_prev, unlink_next, free, Goto, Fault, vars
  <2> QED BY <2>1 DEF NoWildPointer
<1>2. CASE wild = {}
  <2>1. ASSUME NEW t \in Thread, Call(t) PROVE wild' = {}
    BY <1>2, <2>1 DEF Call, file_info_list_add, query_by_fd, remove_by_fd, Begin
  <2>2. ASSUME NEW t \in Thread, Run(t) PROVE NoWildPointer'
    <3> SUFFICES ASSUME wild' # {} PROVE NoWildPointer' BY DEF NoWildPointer
    <3>1. wild' = {t} /\ raced' = raced /\ disturbed' = disturbed
      BY <1>2, <2>2 DEF Run, add_link, add_publish, add_tail, walk_first, walk_on, query_return,
        remove_none, remove_found, unlink_prev, unlink_next, free, Fault, history
    <3> SUFFICES ASSUME ~ raced, ~ disturbed[t] PROVE FALSE BY <3>1 DEF NoWildPointer
    <3>2. Distinct /\ InHand(t) BY DEF Ring
    <3>3. ASSUME NEW from \in {"query", "find"}, walk_on(t, from) PROVE FALSE
      <4>1. pc[t] = from /\ ~ Live(item[t]) BY <3>1, <1>2, <3>3 DEF walk_on, Fault, Goto
      <4>2. Walked(t) BY <3>2, <4>1 DEF InHand
      <4> QED BY <3>2, <4>1, <4>2, WalkedLive
    <3>4. ~ add_publish(t) BY <1>2, <3>1, PublishLive
    <3>5. ~ unlink_prev(t) /\ ~ unlink_next(t) BY <1>2, <3>1, RingUnlinkPrev, RingUnlinkNext
    <3> QED BY <1>2, <2>2, <3>1, <3>3, <3>4, <3>5 DEF Run, add_link, add_tail, walk_first,
          query_return, remove_none, remove_found, free
  <2>3. CASE UNCHANGED vars BY <1>2, <2>3 DEF vars, NoWildPointer
  <2> QED BY <2>1, <2>2, <2>3 DEF Next, NoWildPointer
<1> QED BY <1>1, <1>2

\* The inductive invariant of the list.
LEMMA Invariant == Spec => []IInv
<1>1. Init => IInv
  <2>1. Init => Apart /\ Quiet
    <3>1. Init => \A t \in Thread : pc[t] = "idle" BY DEF Init
    <3> QED BY <3>1 DEF Apart, Quiet
  <2>2. Init => NoWildPointer BY DEF Init, NoWildPointer
  <2> QED BY <2>1, <2>2, InitType, RingInit DEF IInv
<1>2. IInv /\ [Next]_vars => IInv'
  BY TypeStep, ApartStep, QuietStep, RingStep, WildStep DEF IInv
<1> QED BY <1>1, <1>2, PTL DEF Spec

\* As long as the calls that change it do not overlap, the linked list is, in
\* the middle of such a call too, the sequence the model of the interposed calls
\* takes it for.
THEOREM ListInOnePiece == Spec => []ListIsSequence
<1>1. IInv => ListIsSequence
  <2> SUFFICES ASSUME IInv, ~ raced
               PROVE  /\ \A i \in 1..Len(entries) : entries[i] \in used
                      /\ \A i \in 0..Len(entries) :
                           LET here  == IF i = 0 THEN head ELSE entries[i]
                               there == IF i = Len(entries) THEN head ELSE entries[i + 1]
                           IN  /\ next[here] = there
                               /\ (\A t \in Thread : ~ Changing(t)) => prev[there] = here
    BY DEF ListIsSequence
  <2>1. TypeOK /\ Distinct /\ Forward /\ Backward BY DEF IInv, Ring
  <2> SUFFICES ASSUME NEW i \in 0..Len(entries)
               PROVE  LET here  == IF i = 0 THEN head ELSE entries[i]
                          there == IF i = Len(entries) THEN head ELSE entries[i + 1]
                      IN  /\ next[here] = there
                          /\ (\A t \in Thread : ~ Changing(t)) => prev[there] = here
    BY <2>1 DEF Distinct
  <2>2. At(entries, i) = IF i = 0 THEN head ELSE entries[i]
    BY <2>1, AtFacts DEF At
  <2>3. At(entries, i + 1) = IF i = Len(entries) THEN head ELSE entries[i + 1]
    BY <2>1, AtFacts DEF At
  <2>4. next[At(entries, i)] = At(entries, i + 1) BY <2>1 DEF Forward
  <2>5. (\A t \in Thread : ~ Changing(t)) => prev[At(entries, i + 1)] = At(entries, i)
    BY <2>1 DEF Backward, Skipped, Changing, Adding, Removing
  <2> QED BY <2>2, <2>3, <2>4, <2>5
<1> QED BY <1>1, Invariant, PTL

\* Nobody follows a pointer into freed memory but in a call a removal overlaps,
\* or after two calls that change the list have overlapped.
THEOREM PointersSafe == Spec => []NoWildPointer
  BY Invariant, PTL DEF IInv

\* A search that no removal overlaps finds a record exactly when there is one,
\* whatever additions go on meanwhile.
THEOREM SearchesRight == Spec => QueryAnswers
<1>1. ASSUME IInv, [Next]_vars, NEW t \in Thread,
             pc[t] = "query", pc'[t] = "idle", ~ raced, ~ disturbed[t]
      PROVE  Found(t) <=> fd[t] \in recorded
  <2>1. Found(t) \/ NotThere(t)
    BY <1>1 DEF Next, Call, Run, file_info_list_add, query_by_fd, remove_by_fd, Begin, add_link,
      add_publish, add_tail, walk_first, walk_on, query_return, remove_none, remove_found,
      unlink_prev, unlink_next, free, Goto, Fault, vars, IInv, TypeOK
  <2>2. Walked(t) BY <1>1 DEF IInv, Ring, InHand
  <2>3. fd[t] \in Fd BY <1>1 DEF IInv, TypeOK
  <2>4. \A u \in Thread : Changing(u) => fd[u] # fd[t]
    BY <1>1 DEF IInv, Apart, Changing, Adding, Removing
  <2>5. fd[t] \in recorded <=> Listed(fd[t]) BY <1>1, <2>3, <2>4 DEF IInv, Ring
  <2>6. Found(t) => Listed(fd[t])
    BY <2>2, NodeFacts, <1>1 DEF Found, Walked, Listed, IInv, TypeOK
  <2>7. NotThere(t) => ~ Listed(fd[t])
    <3>1. \A i \in 1..Len(entries) : entries[i] # head BY <1>1, AtFacts DEF IInv, Ring
    <3> QED BY <2>2, <3>1 DEF NotThere, Walked
  <2> QED BY <2>1, <2>5, <2>6, <2>7
<1>2. IInv /\ [Next]_vars =>
        [\A t \in Thread :
           (pc[t] = "query" /\ pc'[t] = "idle" /\ ~ raced /\ ~ disturbed[t]) =>
             (Found(t) <=> fd[t] \in recorded)]_vars
  BY <1>1
<1> QED BY <1>2, Invariant, PTL DEF Spec, QueryAnswers
=============================================================================
