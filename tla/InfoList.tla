------------------------------ MODULE InfoList ------------------------------
(***************************************************************************)
(* file_info_list of ports/util.c as what it is: a doubly linked ring that *)
(* the calls of all threads extend, search and shorten without a lock.     *)
(* One step is one access to a list node that another thread can see.      *)
(*                                                                         *)
(* The threads use the list as open, read and close do: no two of them     *)
(* work on the same descriptor at a time, and open adds a descriptor that  *)
(* is not recorded.  list_add_tail and list_remove are those of Android's  *)
(* cutils, which the repository takes from the platform.                   *)
(***************************************************************************)
EXTENDS Integers, Sequences, FiniteSets

CONSTANTS
  Thread,
  Fd,        \* descriptors
  MaxNodes,  \* memory: struct file_info that can be allocated
  MaxCalls   \* bound: calls made by all threads together

ASSUME InfoListAssumption == MaxNodes \in Nat /\ MaxCalls \in Nat

Node == 1..MaxNodes
head == 0      \* the list head, file_info_list itself
NULL == -1

VARIABLES
  next, prev,  \* links of the head and the nodes
  fdOf,        \* file_descriptor of each node
  used,        \* nodes that are allocated
  pc,          \* where each thread is
  fd,          \* the descriptor its call is about
  item,        \* the node it has in hand
  calls,       \* how many calls have been made
  wild,        \* threads that followed NULL or a pointer into freed memory
  recorded,    \* history: descriptors added and not removed
  entries,     \* history: the nodes in the order of the list
  removed,     \* history: a record has been taken out of the list
  raced,       \* history: two calls that change the list have overlapped
  disturbed    \* history: a removal has overlapped the thread's call

vars == <<next, prev, fdOf, used, pc, fd, item, calls, wild,
          recorded, entries, removed, raced, disturbed>>
links == <<next, prev, fdOf, used>>
history == <<recorded, entries, removed, raced, disturbed>>

Adding(t) == pc[t] \in {"link", "publish", "tail"}
Removing(t) == pc[t] \in {"find_first", "find", "unlink_prev", "unlink_next", "free"}
Changing(t) == Adding(t) \/ Removing(t)
Live(n) == n = head \/ n \in used

Goto(t, from, to) == wild = {} /\ pc[t] = from /\ pc' = [pc EXCEPT ![t] = to]

\* The memory behind n is used: a freed node or NULL is undefined behaviour,
\* after which nothing more is said of the process.
Fault(t, from) == /\ wild = {} /\ pc[t] = from /\ wild' = {t}
                  /\ UNCHANGED <<links, pc, fd, item, calls, history>>

\* A call begins: nobody else works on this descriptor.
Begin(t, f, to) ==
  /\ Goto(t, "idle", to)
  /\ calls < MaxCalls /\ calls' = calls + 1
  /\ \A u \in Thread \ {t} : pc[u] = "idle" \/ fd[u] # f
  /\ fd' = [fd EXCEPT ![t] = f]
  /\ UNCHANGED <<wild, recorded, entries, removed>>

BeginChange(t) == raced' = (raced \/ \E u \in Thread \ {t} : Changing(u))

\* A removal disturbs the calls in progress and is disturbed by others.
Disturb(t) ==
  disturbed' = [u \in Thread |-> IF u = t THEN \E w \in Thread \ {t} : Removing(w)
                                 ELSE disturbed[u] \/ pc[u] # "idle"]
Arrive(t) == disturbed' = [disturbed EXCEPT ![t] = \E w \in Thread \ {t} : Removing(w)]

-----------------------------------------------------------------------------
(* file_info_list_add: calloc, then list_add_tail.                         *)

file_info_list_add(t, f) ==
  /\ f \notin recorded /\ Begin(t, f, "link") /\ BeginChange(t) /\ Arrive(t)
  /\ \E n \in Node \ used :
       /\ used' = used \cup {n}
       /\ fdOf' = [fdOf EXCEPT ![n] = f]
       /\ next' = [next EXCEPT ![n] = NULL] /\ prev' = [prev EXCEPT ![n] = NULL]
       /\ item' = [item EXCEPT ![t] = n]

\* Mutant: the link forward is left as calloc made it.
add_linkMut(t) ==
  /\ Goto(t, "link", "publish")
  /\ prev' = [prev EXCEPT ![item[t]] = prev[head]]
  /\ UNCHANGED <<next, fdOf, used, fd, item, calls, wild, history>>

\* The new node is given its neighbours: the head and the last node.
add_link(t) ==
  /\ Goto(t, "link", "publish")
  /\ next' = [next EXCEPT ![item[t]] = head]
  /\ prev' = [prev EXCEPT ![item[t]] = prev[head]]
  /\ UNCHANGED <<fdOf, used, fd, item, calls, wild, history>>

\* Mutant: the new node always becomes the first one.
add_publishMut(t) ==
  /\ Goto(t, "publish", "tail")
  /\ next' = [next EXCEPT ![head] = item[t]]
  /\ entries' = Append(entries, item[t])
  /\ UNCHANGED <<prev, fdOf, used, fd, item, calls, wild, recorded, removed, raced, disturbed>>

\* The last node, which is looked up again, is linked to the new one.
add_publish(t) ==
  \/ /\ Live(prev[head]) /\ Goto(t, "publish", "tail")
     /\ next' = [next EXCEPT ![prev[head]] = item[t]]
     /\ entries' = Append(entries, item[t])
     /\ UNCHANGED <<prev, fdOf, used, fd, item, calls, wild, recorded, removed, raced, disturbed>>
  \/ ~ Live(prev[head]) /\ Fault(t, "publish")

add_tail(t) ==
  /\ Goto(t, "tail", "idle")
  /\ prev' = [prev EXCEPT ![head] = item[t]]
  /\ recorded' = recorded \cup {fd[t]}
  /\ UNCHANGED <<next, fdOf, used, fd, item, calls, wild, entries, removed, raced, disturbed>>

-----------------------------------------------------------------------------
(* file_info_list_query_by_fd and file_info_list_remove_by_fd walk from    *)
(* the head until they find the descriptor or are back at the head.        *)

query_by_fd(t, f) ==
  /\ Begin(t, f, "query_first") /\ Arrive(t)
  /\ UNCHANGED <<links, item, raced>>

remove_by_fd(t, f) ==
  /\ Begin(t, f, "find_first") /\ BeginChange(t) /\ Disturb(t)
  /\ UNCHANGED <<links, item>>

walk_first(t, from, to) ==
  /\ Goto(t, from, to)
  /\ item' = [item EXCEPT ![t] = next[head]]
  /\ UNCHANGED <<links, fd, calls, wild, history>>

\* Mutant: the walk does not move on.
walk_onMut(t, from) ==
  \/ /\ item[t] \in used /\ fdOf[item[t]] # fd[t] /\ Goto(t, from, from)
     /\ UNCHANGED <<links, item, fd, calls, wild, history>>
  \/ ~ Live(item[t]) /\ Fault(t, from)

\* One round of list_for_each.
walk_on(t, from) ==
  \/ /\ item[t] \in used /\ fdOf[item[t]] # fd[t] /\ Goto(t, from, from)
     /\ item' = [item EXCEPT ![t] = next[item[t]]]
     /\ UNCHANGED <<links, fd, calls, wild, history>>
  \/ ~ Live(item[t]) /\ Fault(t, from)

Found(t) == item[t] \in used /\ fdOf[item[t]] = fd[t]
NotThere(t) == item[t] = head

query_return(t) ==
  /\ Found(t) \/ NotThere(t)
  /\ Goto(t, "query", "idle")
  /\ UNCHANGED <<links, fd, item, calls, wild, history>>

remove_none(t) ==
  /\ NotThere(t) /\ Goto(t, "find", "idle")
  /\ recorded' = recorded \ {fd[t]}
  /\ UNCHANGED <<links, fd, item, calls, wild, entries, removed, raced, disturbed>>

remove_found(t) ==
  /\ Found(t) /\ Goto(t, "find", "unlink_prev")
  /\ removed' = TRUE
  /\ UNCHANGED <<links, fd, item, calls, wild, recorded, entries, raced, disturbed>>

-----------------------------------------------------------------------------
(* list_remove, then free.                                                 *)

Without(n) ==
  IF \E i \in 1..Len(entries) : entries[i] = n
  THEN LET i == CHOOSE i \in 1..Len(entries) : entries[i] = n
       IN  SubSeq(entries, 1, i - 1) \o SubSeq(entries, i + 1, Len(entries))
  ELSE entries

\* item->next->prev = item->prev
unlink_prev(t) ==
  LET after == next[item[t]]
  IN  \/ /\ item[t] \in used /\ Live(after) /\ Goto(t, "unlink_prev", "unlink_next")
         /\ prev' = [prev EXCEPT ![after] = prev[item[t]]]
         /\ UNCHANGED <<next, fdOf, used, fd, item, calls, wild, history>>
      \/ ~ (item[t] \in used /\ Live(after)) /\ Fault(t, "unlink_prev")

\* Mutant: the node stays linked.
unlink_nextMut(t) ==
  /\ Goto(t, "unlink_next", "free")
  /\ UNCHANGED <<links, fd, item, calls, wild, history>>

\* item->prev->next = item->next
unlink_next(t) ==
  LET ahead == prev[item[t]]
  IN  \/ /\ item[t] \in used /\ Live(ahead) /\ Goto(t, "unlink_next", "free")
         /\ next' = [next EXCEPT ![ahead] = next[item[t]]]
         /\ entries' = Without(item[t])
         /\ UNCHANGED <<prev, fdOf, used, fd, item, calls, wild, recorded, removed, raced, disturbed>>
      \/ ~ (item[t] \in used /\ Live(ahead)) /\ Fault(t, "unlink_next")

\* The node is still there: nobody else works on this descriptor.
free(t) ==
  /\ Goto(t, "free", "idle")
  /\ used' = used \ {item[t]}
  /\ recorded' = recorded \ {fd[t]}
  /\ UNCHANGED <<next, prev, fdOf, fd, item, calls, wild, entries, removed, raced, disturbed>>

-----------------------------------------------------------------------------
Init ==
  /\ next = [n \in Node \cup {head} |-> IF n = head THEN head ELSE NULL]
  /\ prev = next
  /\ fdOf = [n \in Node |-> 0]
  /\ used = {}
  /\ pc = [t \in Thread |-> "idle"]
  /\ fd = [t \in Thread |-> 0]
  /\ item = [t \in Thread |-> head]
  /\ calls = 0
  /\ wild = {}
  /\ recorded = {} /\ entries = <<>>
  /\ removed = FALSE /\ raced = FALSE /\ disturbed = [t \in Thread |-> FALSE]

Call(t) == \E f \in Fd : file_info_list_add(t, f) \/ query_by_fd(t, f) \/ remove_by_fd(t, f)

Run(t) ==
  \/ add_link(t) \/ add_publish(t) \/ add_tail(t)
  \/ walk_first(t, "query_first", "query") \/ walk_first(t, "find_first", "find")
  \/ walk_on(t, "query") \/ walk_on(t, "find")
  \/ query_return(t) \/ remove_none(t) \/ remove_found(t)
  \/ unlink_prev(t) \/ unlink_next(t) \/ free(t)

Next == \E t \in Thread : Call(t) \/ Run(t)

Spec == Init /\ [][Next]_vars
FairSpec == Spec /\ \A t \in Thread : WF_vars(Run(t))

-----------------------------------------------------------------------------
(* Properties.                                                             *)

\* As long as calls that change the list do not overlap, the list is at every
\* moment, also in the middle of such a call, the sequence of records that
\* Linker.tla takes it for, as one who walks along it sees it; backwards too
\* when nobody is changing it.
ListIsSequence ==
  ~ raced =>
    /\ \A i \in 1..Len(entries) : entries[i] \in used
    /\ \A i \in 0..Len(entries) :
         LET here  == IF i = 0 THEN head ELSE entries[i]
             there == IF i = Len(entries) THEN head ELSE entries[i + 1]
         IN  /\ next[here] = there
             /\ (\A t \in Thread : ~ Changing(t)) => prev[there] = here

\* A search that no removal overlaps answers right, whatever additions go on,
\* unless additions or removals have overlapped before.
QueryAnswers ==
  [][\A t \in Thread :
       (pc[t] = "query" /\ pc'[t] = "idle" /\ ~ raced /\ ~ disturbed[t]) =>
         (Found(t) <=> fd[t] \in recorded)]_vars

\* Nobody follows a pointer into freed memory, unless a removal overlapped the
\* call, or calls that change the list have overlapped at some time.  (That one
\* overlap of two additions is enough: it can leave a wrong link back, which a
\* later removal follows.)
NoWildPointer == \A t \in wild : raced \/ disturbed[t]

\* Before the first removal nothing worse can happen than that a record is not
\* found: however additions and searches interleave, no pointer is wild.
AddsAreHarmless == ~ removed => wild = {}

\* When no two calls that change the list have overlapped, every call ends:
\* nobody walks round the list for ever, also not one who stands on a node that
\* is taken out, freed and used again.  After such an overlap this is not so.
CallsEnd == \A t \in Thread : (pc[t] # "idle") ~> (pc[t] = "idle" \/ wild # {} \/ raced)
=============================================================================
