-------------------------- MODULE PacketQueueList ---------------------------
(***************************************************************************)
(* PacketQueue with the list it uses: the circular doubly linked list of   *)
(* list.h.  A list_head is a member of each packet and one is the queue's  *)
(* own, the head; next and prev are its pointers.  The steps that touch    *)
(* the list are those of PacketQueue, each with what it does to the        *)
(* pointers, all of them under queue_mutex; queue is the history that the  *)
(* ring must agree with.                                                   *)
(***************************************************************************)
EXTENDS PacketQueue

CONSTANTS list_head,   \* &queue->queue
          LIST_POISON  \* what list_del leaves in an entry

ASSUME NodesAssumption == list_head \notin Packets /\ LIST_POISON \notin Packets \cup {list_head}

VARIABLES next, prev,  \* list_head -> pointer
          pos, n       \* the variables of list_for_each_safe

list  == <<next, prev>>
cursor == <<pos, n>>
lvars == <<vars, list, cursor>>

Nodes    == Packets \cup {list_head}
Pointers == Nodes \cup {LIST_POISON}

\* INIT_LIST_HEAD; what malloc leaves in a packet's pointers is never read.
ListInit ==
  /\ Init
  /\ next = [e \in Nodes |-> IF e = list_head THEN list_head ELSE LIST_POISON]
  /\ prev = next
  /\ pos = LIST_POISON /\ n = LIST_POISON

list_empty(head) == next[head] = head

\* __list_add and __list_del write two pointers each way.
LinkBetween(new, before, after) ==
  /\ next' = [next EXCEPT ![new] = after, ![before] = new]
  /\ prev' = [prev EXCEPT ![new] = before, ![after] = new]

list_add_tail(new, head) == LinkBetween(new, prev[head], head)

\* Mutant: the pointer back from the next entry is left.
Mut_list_del(entry) ==
  /\ next' = [next EXCEPT ![prev[entry]] = next[entry], ![entry] = LIST_POISON]
  /\ prev' = [prev EXCEPT ![entry] = LIST_POISON]

list_del(entry) ==
  /\ next' = [next EXCEPT ![prev[entry]] = next[entry], ![entry] = LIST_POISON]
  /\ prev' = [prev EXCEPT ![next[entry]] = prev[entry], ![entry] = LIST_POISON]

link(t) ==
  /\ add_item_link(t)
  /\ list_add_tail(item[t], list_head)
  /\ UNCHANGED cursor

unlink(t) ==
  /\ get_unlink(t)
  /\ list_del(next[list_head])
  /\ UNCHANGED cursor

\* list_for_each_safe reads the successor before the body deletes the entry.
for_each_start ==
  /\ flush_lock
  /\ pos' = next[list_head] /\ n' = next[pos']
  /\ UNCHANGED list

for_each_safe ==
  /\ flush_free
  /\ list_del(pos)
  /\ pos' = n /\ n' = next'[pos']

ListMainStep ==
  \/ for_each_start
  \/ for_each_safe
  \/ (packet_queue_flush \/ flush_unlock) /\ UNCHANGED <<list, cursor>>

ListThreadStep(t) ==
  \/ link(t)
  \/ unlink(t)
  \/ OtherStep(t) /\ UNCHANGED <<list, cursor>>

ListNext ==
  \/ \E t \in Workers : \/ ListThreadStep(t)
                        \/ SpuriousWakeup(t) /\ UNCHANGED <<list, cursor>>
  \/ ListMainStep

ListSpec == ListInit /\ [][ListNext]_lvars

\* The fairness of PacketQueue: the added conjuncts can always be satisfied.
ListFairSpec ==
  /\ ListSpec
  /\ \A t \in Workers : WF_lvars(ListThreadStep(t))
  /\ \A g \in Getters :
       /\ SF_lvars(get_next_item_lock(g) /\ UNCHANGED <<list, cursor>>)
       /\ SF_lvars(get_next_item_wake(g) /\ UNCHANGED <<list, cursor>>)
  /\ WF_lvars(ListMainStep)

-----------------------------------------------------------------------------
\* list_add_tail, list_del and list_for_each_safe, in any order of calls of several
\* threads: next leads from the head through the queued packets in order and back,
\* prev the other way round.  So list_empty and list_entry of the first entry see what
\* the steps of PacketQueue see, and the flush loop is at the first entry left, with a
\* successor that the deletion of the entry does not touch.
ListIsQueue ==
  LET ring == <<list_head>> \o queue \o <<list_head>>
  IN  /\ \A k \in 1..(Len(queue) + 1) :
           next[ring[k]] = ring[k + 1] /\ prev[ring[k + 1]] = ring[k]
      /\ list_empty(list_head) <=> queue = <<>>
      /\ pc[Main] = "flush_free" => pos = ring[2] /\ n = next[pos]
=============================================================================
