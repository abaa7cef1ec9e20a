---------------------------- MODULE PacketQueue -----------------------------
(***************************************************************************)
(* The packet queue of packet_queue.c: a list under a mutex, a condition   *)
(* variable on which packet_queue_get_next_item sleeps, and queue_count,   *)
(* which callers also read without the mutex.                              *)
(*                                                                         *)
(* One action per step between two points where another thread can         *)
(* observe the queue.  list_add_tail and queue_count++ are separate steps  *)
(* because queue_count is read outside the mutex; an assignment made just  *)
(* before the unlock is part of the unlock step.  pthread_cond_signal      *)
(* removes one sleeper from the wait set; a sleeper may also be woken for  *)
(* no reason, as POSIX allows.                                             *)
(***************************************************************************)
EXTENDS Naturals, Sequences

CONSTANTS Producers,  \* threads that call packet_queue_add_item
          Getters,    \* threads that call packet_queue_get_next_item
          Pollers,    \* threads that call packet_queue_get_next_item_asynch
          Main,       \* the thread that joins the others and flushes
          Packets,    \* the packets that will ever be allocated
          NULL        \* the null pointer, and "no owner" of the mutex

Workers == Producers \cup Getters \cup Pollers
Threads == Workers \cup {Main}

ASSUME ThreadsAssumption ==
  /\ Producers \cap Getters = {}
  /\ Producers \cap Pollers = {}
  /\ Getters \cap Pollers = {}
  /\ Main \notin Workers
  /\ NULL \notin Threads
  /\ NULL \notin Packets

\* Every queue of the program has at most one blocking reader (decode_thread on
\* input_video_queue); add_item signals only on the empty-to-non-empty edge,
\* which would not be enough for two.
ASSUME SingleGetter == \A g, h \in Getters : g = h

VARIABLES queue,           \* queue->queue, oldest packet first
          queue_count,     \* queue->queue_count
          queue_mutex,     \* owner of queue->queue_mutex, or NULL
          queue_count_cv,  \* threads asleep on queue->queue_count_cv
          pc,              \* where each thread is
          item,            \* the packet each thread holds, or NULL
          heap,            \* allocation state of each packet
          added,           \* history: packets in the order they were linked
          delivered,       \* history: packets in the order they were unlinked
          flushed          \* history: packets freed by packet_queue_flush

vars == <<queue, queue_count, queue_mutex, queue_count_cv, pc, item, heap,
          added, delivered, flushed>>

history == <<added, delivered, flushed>>

\* The points at which a thread holds queue_mutex.
Critical == {"add_link", "add_count", "get_test", "poll_test", "get_count",
             "flush_free"}

PcStates == Critical \cup {"idle", "add_lock", "get_lock", "get_wait",
                           "poll_lock", "flush_lock", "exited"}

Init ==
  /\ queue = <<>>
  /\ queue_count = 0
  /\ queue_mutex = NULL
  /\ queue_count_cv = {}
  /\ pc = [t \in Threads |-> "idle"]
  /\ item = [t \in Threads |-> NULL]
  /\ heap = [p \in Packets |-> "unallocated"]
  /\ added = <<>>
  /\ delivered = <<>>
  /\ flushed = <<>>

-----------------------------------------------------------------------------
(* The mutex and the condition variable. *)

\* pthread_mutex_lock: thread t moves from one point to the next as the owner.
Lock(t, from, to) ==
  /\ pc[t] = from
  /\ queue_mutex = NULL
  /\ queue_mutex' = t
  /\ pc' = [pc EXCEPT ![t] = to]

\* pthread_mutex_unlock on the way from one point to the next.
Unlock(t, from, to) ==
  /\ pc[t] = from
  /\ queue_mutex' = NULL
  /\ pc' = [pc EXCEPT ![t] = to]

\* pthread_cond_signal: wakes one sleeper if there is one.
Signal ==
  \/ /\ queue_count_cv = {}
     /\ UNCHANGED queue_count_cv
  \/ \E w \in queue_count_cv : queue_count_cv' = queue_count_cv \ {w}

\* A sleeper wakes although nobody signalled; pthread_cond_wait then takes the
\* mutex again and the caller's while loop re-tests the list.
SpuriousWakeup(t) ==
  /\ t \in queue_count_cv
  /\ queue_count_cv' = queue_count_cv \ {t}
  /\ UNCHANGED <<queue, queue_count, queue_mutex, pc, item, heap, history>>

-----------------------------------------------------------------------------
(* packet_queue_add_item *)

\* The call: a NULL packet is refused, any other is a packet the caller has
\* just allocated.
packet_queue_add_item(t, p) ==
  /\ t \in Producers
  /\ pc[t] = "idle"
  /\ \/ /\ p = NULL
        /\ UNCHANGED vars
     \/ /\ p # NULL
        /\ heap[p] = "unallocated"
        /\ heap' = [heap EXCEPT ![p] = "live"]
        /\ item' = [item EXCEPT ![t] = p]
        /\ pc' = [pc EXCEPT ![t] = "add_lock"]
        /\ UNCHANGED <<queue, queue_count, queue_mutex, queue_count_cv, history>>

add_item_lock(t) ==
  /\ Lock(t, "add_lock", "add_link")
  /\ UNCHANGED <<queue, queue_count, queue_count_cv, item, heap, history>>

\* Mutants of add_item_link: list_add instead of list_add_tail, and list_empty
\* tested after the packet was linked.
Mut_add_item_link_head(t) ==
  /\ pc[t] = "add_link"
  /\ queue' = <<item[t]>> \o queue
  /\ added' = Append(added, item[t])
  /\ IF queue = <<>> THEN Signal ELSE UNCHANGED queue_count_cv
  /\ pc' = [pc EXCEPT ![t] = "add_count"]
  /\ UNCHANGED <<queue_count, queue_mutex, item, heap, delivered, flushed>>

Mut_add_item_link_late_test(t) ==
  /\ pc[t] = "add_link"
  /\ queue' = Append(queue, item[t])
  /\ added' = Append(added, item[t])
  /\ IF queue' = <<>> THEN Signal ELSE UNCHANGED queue_count_cv
  /\ pc' = [pc EXCEPT ![t] = "add_count"]
  /\ UNCHANGED <<queue_count, queue_mutex, item, heap, delivered, flushed>>

\* list_add_tail, with a signal only if the list was empty.
add_item_link(t) ==
  /\ pc[t] = "add_link"
  /\ queue' = Append(queue, item[t])
  /\ added' = Append(added, item[t])
  /\ IF queue = <<>> THEN Signal ELSE UNCHANGED queue_count_cv
  /\ pc' = [pc EXCEPT ![t] = "add_count"]
  /\ UNCHANGED <<queue_count, queue_mutex, item, heap, delivered, flushed>>

\* Mutant of add_item_unlock: queue_count is not incremented.
Mut_add_item_unlock(t) ==
  /\ Unlock(t, "add_count", "idle")
  /\ item' = [item EXCEPT ![t] = NULL]
  /\ UNCHANGED <<queue, queue_count, queue_count_cv, heap, history>>

\* queue_count++ and the unlock; the packet now belongs to the queue.
add_item_unlock(t) ==
  /\ Unlock(t, "add_count", "idle")
  /\ queue_count' = queue_count + 1
  /\ item' = [item EXCEPT ![t] = NULL]
  /\ UNCHANGED <<queue, queue_count_cv, heap, history>>

-----------------------------------------------------------------------------
(* packet_queue_get_next_item and packet_queue_get_next_item_asynch *)

packet_queue_get_next_item(t) ==
  /\ t \in Getters
  /\ pc[t] = "idle"
  /\ item[t] = NULL
  /\ pc' = [pc EXCEPT ![t] = "get_lock"]
  /\ UNCHANGED <<queue, queue_count, queue_mutex, queue_count_cv, item, heap,
                 history>>

get_next_item_lock(t) ==
  /\ Lock(t, "get_lock", "get_test")
  /\ UNCHANGED <<queue, queue_count, queue_count_cv, item, heap, history>>

\* The list is empty: pthread_cond_wait releases the mutex and sleeps.
get_next_item_wait(t) ==
  /\ queue = <<>>
  /\ Unlock(t, "get_test", "get_wait")
  /\ queue_count_cv' = queue_count_cv \cup {t}
  /\ UNCHANGED <<queue, queue_count, item, heap, history>>

\* pthread_cond_wait returns once the sleeper was woken and has the mutex back.
get_next_item_wake(t) ==
  /\ t \notin queue_count_cv
  /\ Lock(t, "get_wait", "get_test")
  /\ UNCHANGED <<queue, queue_count, queue_count_cv, item, heap, history>>

packet_queue_get_next_item_asynch(t) ==
  /\ t \in Pollers
  /\ pc[t] = "idle"
  /\ item[t] = NULL
  /\ pc' = [pc EXCEPT ![t] = "poll_lock"]
  /\ UNCHANGED <<queue, queue_count, queue_mutex, queue_count_cv, item, heap,
                 history>>

asynch_lock(t) ==
  /\ Lock(t, "poll_lock", "poll_test")
  /\ UNCHANGED <<queue, queue_count, queue_count_cv, item, heap, history>>

\* The list is empty: return NULL at once.
asynch_empty(t) ==
  /\ queue = <<>>
  /\ Unlock(t, "poll_test", "idle")
  /\ UNCHANGED <<queue, queue_count, queue_count_cv, item, heap, history>>

\* list_del of the first entry, the same code in both calls.
get_unlink(t) ==
  /\ pc[t] \in {"get_test", "poll_test"}
  /\ queue # <<>>
  /\ item' = [item EXCEPT ![t] = Head(queue)]
  /\ queue' = Tail(queue)
  /\ delivered' = Append(delivered, Head(queue))
  /\ pc' = [pc EXCEPT ![t] = "get_count"]
  /\ UNCHANGED <<queue_count, queue_mutex, queue_count_cv, heap, added, flushed>>

\* queue_count-- and the unlock; the call returns the packet.
get_unlock(t) ==
  /\ Unlock(t, "get_count", "idle")
  /\ queue_count' = queue_count - 1
  /\ UNCHANGED <<queue, queue_count_cv, item, heap, history>>

\* The caller is done with the packet it was given and frees it.
packet_queue_free_packet(t) ==
  /\ t \in Getters \cup Pollers
  /\ pc[t] = "idle"
  /\ item[t] # NULL
  /\ heap' = [heap EXCEPT ![item[t]] = "freed"]
  /\ item' = [item EXCEPT ![t] = NULL]
  /\ UNCHANGED <<queue, queue_count, queue_mutex, queue_count_cv, pc, history>>

-----------------------------------------------------------------------------
(* The end of the program: threads return, main joins them and flushes. *)

\* A thread function returns between two calls, holding no packet.
ThreadExit(t) ==
  /\ t \in Workers
  /\ pc[t] = "idle"
  /\ item[t] = NULL
  /\ pc' = [pc EXCEPT ![t] = "exited"]
  /\ UNCHANGED <<queue, queue_count, queue_mutex, queue_count_cv, item, heap,
                 history>>

\* main's pthread_join calls return only when every worker has.
packet_queue_flush ==
  /\ pc[Main] = "idle"
  /\ \A t \in Workers : pc[t] = "exited"
  /\ pc' = [pc EXCEPT ![Main] = "flush_lock"]
  /\ UNCHANGED <<queue, queue_count, queue_mutex, queue_count_cv, item, heap,
                 history>>

flush_lock ==
  /\ Lock(Main, "flush_lock", "flush_free")
  /\ UNCHANGED <<queue, queue_count, queue_count_cv, item, heap, history>>

\* Mutant: the entry is freed but stays in the list.
Mut_flush_free_no_del ==
  /\ pc[Main] = "flush_free"
  /\ queue # <<>>
  /\ heap' = [heap EXCEPT ![Head(queue)] = "freed"]
  /\ UNCHANGED <<queue, queue_count, queue_mutex, queue_count_cv, pc, item,
                 history>>

\* One turn of list_for_each_safe: list_del, then packet_queue_free_packet.
flush_free ==
  /\ pc[Main] = "flush_free"
  /\ queue # <<>>
  /\ queue' = Tail(queue)
  /\ heap' = [heap EXCEPT ![Head(queue)] = "freed"]
  /\ flushed' = Append(flushed, Head(queue))
  /\ UNCHANGED <<queue_count, queue_mutex, queue_count_cv, pc, item, added,
                 delivered>>

flush_unlock ==
  /\ queue = <<>>
  /\ Unlock(Main, "flush_free", "exited")
  /\ queue_count' = 0
  /\ UNCHANGED <<queue, queue_count_cv, item, heap, history>>

-----------------------------------------------------------------------------
\* What thread t does of its own accord: to the list, and otherwise.
LinkStep(t) == add_item_link(t) \/ get_unlink(t)

OtherStep(t) ==
  \/ \E p \in Packets \cup {NULL} : packet_queue_add_item(t, p)
  \/ add_item_lock(t)
  \/ add_item_unlock(t)
  \/ packet_queue_get_next_item(t)
  \/ get_next_item_lock(t)
  \/ get_next_item_wait(t)
  \/ get_next_item_wake(t)
  \/ packet_queue_get_next_item_asynch(t)
  \/ asynch_lock(t)
  \/ asynch_empty(t)
  \/ get_unlock(t)
  \/ packet_queue_free_packet(t)
  \/ ThreadExit(t)

ThreadStep(t) == LinkStep(t) \/ OtherStep(t)

MainStep == packet_queue_flush \/ flush_lock \/ flush_free \/ flush_unlock

Next ==
  \/ \E t \in Workers : ThreadStep(t) \/ SpuriousWakeup(t)
  \/ MainStep

Spec == Init /\ [][Next]_vars

\* Every runnable thread is eventually scheduled, and a mutex that is released again
\* and again is eventually granted to the blocking reader, which needs it twice.
\* Spurious wakeups are never promised.
FairSpec ==
  /\ Spec
  /\ \A t \in Workers : WF_vars(ThreadStep(t))
  /\ \A g \in Getters : SF_vars(get_next_item_lock(g)) /\ SF_vars(get_next_item_wake(g))
  /\ WF_vars(MainStep)

-----------------------------------------------------------------------------
(* Correctness. *)

\* The type invariant of the queue's state.
TypeOK ==
  /\ queue \in Seq(Packets)
  /\ queue_count \in Nat
  /\ queue_mutex \in Threads \cup {NULL}
  /\ queue_count_cv \in SUBSET Getters
  /\ pc \in [Threads -> PcStates]
  /\ item \in [Threads -> Packets \cup {NULL}]
  /\ heap \in [Packets -> {"unallocated", "live", "freed"}]
  /\ added \in Seq(Packets)
  /\ delivered \in Seq(Packets)
  /\ flushed \in Seq(Packets)

\* packet_queue_add_item / packet_queue_get_next_item: packets leave in exactly
\* the order they entered, none is lost, duplicated or overtaken, whichever of
\* the two readers or the final flush takes them.
FifoOrder == added = delivered \o (flushed \o queue)

\* pthread_cond_signal in packet_queue_add_item: nobody is left asleep on
\* queue_count_cv while the list holds a packet, although add_item signals only
\* when the list was empty and an asynchronous reader may take the packet first.
NoLostWakeup == queue_count_cv # {} => queue = <<>>

\* The threads that hold packet p, and the places of p in the list.
Holders(p) == {t \in Threads : item[t] = p}
Places(p)  == {i \in 1..Len(queue) : queue[i] = p}

\* Ownership of packet_t: a packet is live exactly while the list or some thread
\* has it; it is never in the list twice nor with two threads, and it is with a
\* thread and in the list at once only for the caller that is just adding it.
\* So no packet is used after free, freed twice or dropped without being freed, and
\* none is left when main has flushed the queue.
Custody ==
  \A p \in Packets :
    /\ heap[p] = "live" <=> Holders(p) # {} \/ Places(p) # {}
    /\ \A t, u \in Holders(p) : t = u
    /\ \A i, j \in Places(p) : i = j
    /\ \A t \in Holders(p) : Places(p) # {} => pc[t] = "add_count"
    /\ pc[Main] = "exited" => heap[p] # "live"

\* The point the owner of the mutex is at, "free" if there is no owner.
OwnerAt == IF queue_mutex = NULL THEN "free" ELSE pc[queue_mutex]

\* The list as a reader of queue_count believes it to be: an operation takes
\* effect when it updates queue_count.
AbsContents ==
  CASE OwnerAt = "add_count"  -> SubSeq(queue, 1, Len(queue) - 1)
    [] OwnerAt = "get_count"  -> <<item[queue_mutex]>> \o queue
    [] OwnerAt = "flush_free" -> flushed \o queue
    [] OTHER -> queue

AbsReceived ==
  IF OwnerAt = "get_count" THEN SubSeq(delivered, 1, Len(delivered) - 1)
  ELSE delivered

Fifo == INSTANCE PacketFifo
          WITH contents <- AbsContents, size <- queue_count,
               received <- AbsReceived

\* packet_queue.c implements an atomic FIFO: adding, taking and flushing each
\* look like one indivisible step, and the queue_count that extract_streams and
\* decode_thread read without the mutex is at every moment the length of it.
ImplementsFifo == Fifo!FifoSpec

\* packet_queue_get_next_item: a reader that is inside the call while the list
\* holds a packet returns with a packet, unless somebody else emptied the list.
GetterServed ==
  \A g \in Getters :
    (pc[g] \in {"get_lock", "get_wait", "get_test"} /\ queue # <<>>)
      ~> (item[g] # NULL \/ queue = <<>>)
=============================================================================
